----------------------------- MODULE RoundTrip -----------------------------
(***************************************************************************)
(* The text of a destination file through two compilations: JsonReader and *)
(* IndexReader read it, IndexWriter and JsonWriter (src/util/json.cpp)     *)
(* serialize the new messages, MsgIndex::process() writes them over or     *)
(* behind the old ones (src/logging/msg_index.cpp), and the next           *)
(* compilation of the same messages reads the result.                      *)
(*                                                                         *)
(* A text is a sequence of lexemes; white space is left out, and a colon   *)
(* is part of the name before it.                                          *)
(***************************************************************************)
EXTENDS IndexReader, FiniteSets, SequencesExt

CONSTANTS
    Texts       \* the destination files there may be at first

Mark(m) == [lex |-> m]
NameOf(n) == [lex |-> "name", name |-> n]
ValueOf(v) == [lex |-> "value", value |-> v]
Written == [kind : {"int"}, int : (-IntMax - 1)..IntMax] \cup [kind : {"str"}, str : Strings]
Marks == {"beginObject", "endObject", "beginArray", "endArray", "comma", "remark",
          "unterminated"}
Lexeme == {Mark(m) : m \in Marks}
              \cup {NameOf(n) : n \in Names}
              \cup {ValueOf(v) : v \in Scalar \cup Written}

ASSUME TextsAssumption == Texts \subseteq Seq(Lexeme)

\* An int that is written can be read.
ASSUME WrittenAssumption == (-IntMax - 1)..IntMax \subseteq Ints

\* A translation unit has fewer messages than there are non-negative ints.
ASSUME MsgsAssumption == IsFiniteSet(Msgs) /\ Cardinality(Msgs) <= IntMax + 1

\* The destination file is the first a compilation reads.
ASSUME NothingKnown == \A k \in Msgs : Known[k] = INVALID_MSG_ID

VARIABLES
    text,       \* the file
    cursor,     \* how much of it has been read
    sep,        \* before the cursor there is a container's start, an item or a comma
    phase,      \* "reading", "writing", "rereading", or "torn"
    todo,       \* the messages to serialize
    top,        \* the writer's maxMsgId_
    out,        \* the writer's output
    first       \* what the first compilation saw and gave: entries and IDs

fileVars == <<text, phase, todo, top, out, first>>
tripVars == <<vars, fileVars, cursor, sep>>

TripInit ==
    /\ Init
    /\ text \in Texts /\ cursor = 0 /\ sep = "start"
    /\ phase = "reading"
    /\ todo = {} /\ top = 0 /\ out = << >>
    /\ first = [entries |-> << >>, ids |-> Known]

-----------------------------------------------------------------------------
(* Reading a text.                                                          *)

Reading == phase # "writing" /\ status = "parsing"
Here == text[cursor + 1]

\* An element or a member may start here.
ItemDue == sep # "item"

\* JSON, with comments between any two lexemes.
Grammatical(l) ==
    \/ l.lex = "remark"
    \/ l.lex = "comma" /\ Depth > 0 /\ name = NoName /\ sep = "item"
    \/ l.lex \in {"value", "beginObject", "beginArray"} /\ ValueDue /\ ItemDue
    \/ l.lex = "name" /\ Inside("object") /\ name = NoName /\ ItemDue
    \/ l.lex = "endObject" /\ Inside("object") /\ name = NoName /\ sep # "comma"
    \/ l.lex = "endArray" /\ Inside("array") /\ sep # "comma"

\* HandlerAdapter calls the handler of the event; comments and commas have none.
Event(l) ==
    \/ l.lex = "remark" /\ UNCHANGED <<vars, sep>>
    \/ l.lex = "comma" /\ UNCHANGED vars /\ sep' = "comma"
    \/ l.lex = "beginObject" /\ BeginObject /\ sep' = "start"
    \/ l.lex = "beginArray" /\ BeginArray /\ sep' = "start"
    \/ l.lex = "name" /\ Name /\ name' = l.name /\ sep' = "start"
    \/ l.lex = "value" /\ HandleScalar(l.value) /\ sep' = "item"
    \/ l.lex = "endObject" /\ EndObject /\ sep' = "item"
    \/ l.lex = "endArray" /\ EndArray /\ sep' = "item"

Read ==
    /\ Reading /\ cursor < Len(text)
    /\ Grammatical(Here) /\ Event(Here)
    /\ cursor' = cursor + 1
    /\ UNCHANGED fileVars

\* The text ends too soon or is not JSON here.
ReadError ==
    /\ Reading
    /\ IF cursor < Len(text) THEN ~Grammatical(Here) ELSE ~DocOver
    /\ SyntaxError
    /\ UNCHANGED <<fileVars, cursor, sep>>

ReadEnd ==
    /\ Reading /\ cursor = Len(text)
    /\ Finish
    /\ UNCHANGED <<fileVars, cursor, sep>>

-----------------------------------------------------------------------------
(* Writing.                                                                 *)

\* process() returns early, or goes on with an IndexWriter; no source files.
AllFound == Cardinality(found) = Cardinality(Msgs)
StartWriting ==
    /\ phase = "reading" /\ status = "done" /\ ~AllFound
    /\ phase' = "writing"
    /\ todo' = {k \in Msgs : ids[k] = INVALID_MSG_ID}
    /\ top' = maxId
    /\ out' = << Mark("beginArray") >>
    /\ UNCHANGED <<vars, text, cursor, sep, first>>

\* Mutant: the ID is written as the unsigned it is.
Unsigned(i) == i

\* JsonWriter::value() writes a Variant of an unsigned as an int.
Signed(i) == ToInt(i)

Member(n, v) == << NameOf(n), ValueOf(v) >>

\* PrettyWriter puts a comma before every member but the first.
Further(n, v) == IF v = Absent THEN << >> ELSE << Mark("comma") >> \o Member(n, v)

\* Mutant: the hint is left out.
UnhintedMembers(k, id) ==
    Member("id", [kind |-> "int", int |-> Signed(id)])
        \o Further("msg", k.fmt) \o Further("help", k.help)

Members(k, id) ==
    Member("id", [kind |-> "int", int |-> Signed(id)])
        \o Further("msg", k.fmt) \o Further("hint", k.hint) \o Further("help", k.help)

Object(k, id) == << Mark("beginObject") >> \o Members(k, id) \o << Mark("endObject") >>

SerializeMsg ==
    /\ phase = "writing"
    /\ \E k \in todo :
          /\ top' = (top + 1) % (UIntMax + 1)
          /\ ids' = [ids EXCEPT ![k] = top']
          /\ out' = out \o (IF Len(out) = 1 THEN << >> ELSE << Mark("comma") >>) \o Object(k, top')
          /\ todo' = todo \ {k}
    /\ UNCHANGED <<docVars, status, state, level, attrs, found, lastEnd, maxId, msgCount>>
    /\ UNCHANGED <<text, cursor, sep, phase, first>>

Json == out \o << Mark("endArray") >>

\* Mutant: an array is written behind the other.
NotJoined(json) == json

\* appendJsonIndex(): a comma, and the array from its first object on.
Appended(json) ==
    LET n == SelectInSeq(json, LAMBDA l : l.lex = "beginObject")
    IN  << Mark("comma") >> \o SubSeq(json, n, Len(json))

\* How many lexemes of t the parser has read when the handler has had n events.
Events(s) == Cardinality({i \in DOMAIN s : s[i].lex \notin {"comma", "remark"}})
Position(t, n) ==
    CHOOSE p \in DOMAIN t : /\ t[p].lex \notin {"comma", "remark"}
                            /\ Events(SubSeq(t, 1, p)) = n

\* Mutant: nothing is overwritten but a file without messages of the unit.
NoneFound == found = {}

\* totalMsgCount() == 0.
Overwrites == msgCount = 0

\* The next compilation of the unit opens the file, with a reader and a map
\* that knows no IDs.
ReadAnew ==
    /\ ctx' = << >> /\ name' = NoName /\ place' = "start" /\ at' = 0
    /\ said' = Nothing /\ valid' = TRUE /\ entries' = << >>
    /\ status' = "parsing" /\ state' = "NEW" /\ level' = 0 /\ attrs' = Nothing
    /\ found' = {} /\ lastEnd' = -1 /\ maxId' = INVALID_MSG_ID /\ msgCount' = 0
    /\ ids' = Known /\ cursor' = 0 /\ sep' = "start"
    /\ first' = [entries |-> entries, ids |-> ids]
    /\ out' = << >> /\ top' = 0 /\ UNCHANGED todo

WritePos == IF Overwrites THEN 0 ELSE Position(text, lastEnd)
NewText == IF Overwrites THEN Json ELSE Appended(Json)

\* What is behind the new text is cut.
WriteFile ==
    /\ phase = "writing" /\ todo = {}
    /\ text' = SubSeq(text, 1, WritePos) \o NewText
    /\ phase' = "rereading"
    /\ ReadAnew

\* What there may be of a lexeme that is cut: nothing, something that is no JSON, or
\* the first digits of a number.
Halves(l) ==
    {<< >>, << Mark("unterminated") >>} \cup
        IF l.lex = "value" /\ l.value.kind = "int"
        THEN {<< ValueOf([kind |-> "int", int |-> i]) >> : i \in 0..(l.value.int - 1)} ELSE {}

\* And of the lexeme behind the first n of the new text, the last one being all
\* there when the file is yet to be cut.
Pieces(n) ==
    IF n + 1 = Len(NewText) THEN Halves(NewText[n + 1]) \cup {<< NewText[n + 1] >>}
    ELSE Halves(NewText[n + 1])

\* The compiler is killed while it writes.  Some of the new text is in the file,
\* perhaps up to the middle of a lexeme, perhaps all of it, before what is left
\* of the old.
KilledWriting ==
    /\ phase = "writing" /\ todo = {}
    /\ \E n \in 0..(Len(NewText) - 1), rest \in WritePos..Len(text) :
       \E half \in Pieces(n) :
          text' = SubSeq(text, 1, WritePos) \o SubSeq(NewText, 1, n) \o half
                      \o SubSeq(text, rest + 1, Len(text))
    /\ phase' = "torn"
    /\ ReadAnew

TripNext == Read \/ ReadError \/ ReadEnd \/ StartWriting \/ SerializeMsg \/ WriteFile
            \/ KilledWriting

TripSpec == TripInit /\ [][TripNext]_tripVars

-----------------------------------------------------------------------------
(* Properties.                                                              *)

\* The type invariant: a writer's integers are ints.
TripTypeOK ==
    /\ TypeOK
    /\ text \in Seq(Lexeme) /\ cursor \in 0..Len(text)
    /\ sep \in {"start", "item", "comma"}
    /\ phase \in {"reading", "writing", "rereading", "torn"}
    /\ todo \subseteq Msgs /\ top \in 0..UIntMax
    /\ \A i \in DOMAIN out : out[i].lex = "value" => out[i].value \in Written
    /\ first.entries \in Seq(Entry) /\ first.ids \in [Msgs -> 0..UIntMax]

Again == phase = "rereading"

\* The file a compilation writes is a message file, and gives each message of
\* the unit the ID that was compiled in; unless an ID did not fit an int.
ReadsBack ==
    Again /\ status # "parsing" =>
        IF \A k \in Msgs : first.ids[k] <= IntMax
        THEN status = "done" /\ AllFound /\ ids = first.ids
        ELSE status = "thrown"

\* The messages of the old file are the first of the new one, under the IDs
\* they had, whatever is between them or behind the last; and every message of
\* the unit is in the new file once.
KeepsEntries ==
    Again /\ status = "done" =>
        /\ IsPrefix(first.entries, entries)
        /\ \A i, j \in (Len(first.entries) + 1)..Len(entries) :
              entries[i].key = entries[j].key => i = j
        /\ {entries[i].key : i \in DOMAIN entries} =
              Msgs \cup {first.entries[i].key : i \in DOMAIN first.entries}

\* A compiler that is killed while it writes never makes the file say anything
\* else: it cannot be read, or it has the old messages and some of the new, under
\* the IDs they would have had.
TornFileSafe ==
    phase = "torn" /\ status = "done" =>
        /\ IsPrefix(first.entries, entries)
        /\ \A i \in (Len(first.entries) + 1)..Len(entries) :
              entries[i].key \in Msgs /\ entries[i].id = first.ids[entries[i].key]

=============================================================================
