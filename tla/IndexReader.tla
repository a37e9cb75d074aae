---------------------------- MODULE IndexReader ----------------------------
(***************************************************************************)
(* MsgIndex::IndexReader (src/logging/msg_index.cpp): the handler of the   *)
(* parser's events that reads one message file into the message map.  Each *)
(* action is an event of the document (MsgDocument) together with the      *)
(* whole handler HandlerAdapter (src/util/json.cpp) calls for it.          *)
(***************************************************************************)
EXTENDS MsgDocument

CONSTANTS
    Msgs,       \* the keys of msgMap
    Known       \* the IDs they have when the reader starts, 0 for none

ASSUME KnownAssumption == Msgs \subseteq Key /\ Known \in [Msgs -> 0..IntMax]

VARIABLES
    status,     \* parse() is under way, has returned or has thrown
    state, level, attrs, found, lastEnd, maxId, msgCount,   \* the reader's members
    ids         \* the IDs in msgMap

readerVars == <<state, level, attrs, found, lastEnd, maxId, msgCount, ids>>
vars == <<docVars, status, readerVars>>

INVALID_MSG_ID == 0
States == {"NEW", "MSG_ARRAY", "MSG_OBJ", "MSG_ID", "FMT_STR", "HINT_MSG",
           "HELP_ID", "SKIP", "DONE"}
MSG_OBJ_LEVEL == 2

Init ==
    /\ DocInit
    /\ status = "parsing"
    /\ state = "NEW" /\ level = 0 /\ attrs = Nothing
    /\ found = {} /\ lastEnd = -1 /\ maxId = INVALID_MSG_ID /\ msgCount = 0
    /\ ids = Known

-----------------------------------------------------------------------------

Throw == status' = "thrown" /\ UNCHANGED readerVars

\* checkState(), then the handler's body; the handler throws otherwise.
Checked(mask, Body) == \/ state \in mask /\ Body /\ UNCHANGED status
                       \/ state \notin mask /\ Throw

\* Variant(unsigned) casts to int.
UIntMax == 2 * IntMax + 1
ToInt(i) == IF i > IntMax THEN i - (UIntMax + 1) ELSE i

BeginObject ==
    /\ status = "parsing"
    /\ DocBegin("object")
    /\ Checked({"MSG_ARRAY", "SKIP"},
               /\ state' = IF state = "MSG_ARRAY" THEN "MSG_OBJ" ELSE state
               /\ level' = level + 1
               /\ UNCHANGED <<attrs, found, lastEnd, maxId, msgCount, ids>>)

BeginArray ==
    /\ status = "parsing"
    /\ DocBegin("array")
    /\ Checked({"NEW", "SKIP"},
               /\ state' = IF state = "NEW" THEN "MSG_ARRAY" ELSE state
               /\ level' = level + 1
               /\ UNCHANGED <<attrs, found, lastEnd, maxId, msgCount, ids>>)

\* A message of the translation unit gets the ID the file has for it.
Take(k, id) ==
    IF k \in Msgs /\ ids[k] = INVALID_MSG_ID
    THEN ids' = [ids EXCEPT ![k] = id] /\ found' = found \cup {id}
    ELSE UNCHANGED <<ids, found>>

\* "Duplicate message ID" or "Conflicting message".
Refused(k, id) ==
    k \in Msgs /\ IF ids[k] = INVALID_MSG_ID THEN id \in found ELSE ids[k] # id

\* Mutant: the attributes of one object are left for the next.
KeptAttrs == attrs

\* attrs_ for the next object.
FreshAttrs == Nothing

EndMsgObject ==
    LET k == KeyOf(attrs)
        id == attrs["id"].int
    IN  IF attrs["id"] = Absent \/ attrs["msg"] = Absent
        THEN Throw
        ELSE IF Refused(k, id)
        THEN Throw
        ELSE /\ Take(k, id)
             /\ maxId' = IF maxId = INVALID_MSG_ID \/ id > maxId THEN id ELSE maxId
             /\ lastEnd' = at + 1
             /\ msgCount' = msgCount + 1
             /\ attrs' = FreshAttrs
             /\ state' = "MSG_ARRAY"
             /\ level' = level - 1
             /\ UNCHANGED status

EndObject ==
    /\ status = "parsing"
    /\ DocEnd("object")
    /\ \/ state = "MSG_OBJ" /\ EndMsgObject
       \/ /\ state # "MSG_OBJ"
          /\ level' = level - 1
          /\ state' = IF level - 1 = MSG_OBJ_LEVEL THEN "MSG_OBJ" ELSE state
          /\ UNCHANGED <<status, attrs, found, lastEnd, maxId, msgCount, ids>>

\* Mutant: an array that is skipped never gives the object its state back.
AfterArrayStuck(n) == IF n = 0 THEN "DONE" ELSE state

AfterArray(n) == IF n = MSG_OBJ_LEVEL THEN "MSG_OBJ" ELSE IF n = 0 THEN "DONE" ELSE state

EndArray ==
    /\ status = "parsing"
    /\ DocEnd("array")
    /\ level' = level - 1
    /\ state' = AfterArray(level - 1)
    /\ UNCHANGED <<status, attrs, found, lastEnd, maxId, msgCount, ids>>

StateOf(n) == [id |-> "MSG_ID", msg |-> "FMT_STR", hint |-> "HINT_MSG",
               help |-> "HELP_ID", other |-> "SKIP"][n]

Name ==
    /\ status = "parsing"
    /\ \E n \in Names :
          /\ DocName(n)
          /\ Checked({"MSG_OBJ", "SKIP"},
                     /\ state' = IF state = "MSG_OBJ" THEN StateOf(n) ELSE state
                     /\ UNCHANGED <<level, attrs, found, lastEnd, maxId, msgCount, ids>>)

Gives(a, v) == attrs' = [attrs EXCEPT ![a] = v] /\ state' = "MSG_OBJ"

\* Mutant: any integer will do.
AnyInt(v) == v.kind = "int"

\* checkInt() and the check of the value.
GoodInt(v) == v.kind = "int" /\ ToInt(v.int) > 0 /\ ToInt(v.int) # INVALID_MSG_ID

HandleValue(v) ==
    /\ \/ state = "MSG_ID"   /\ Gives("id", [kind |-> "int", int |-> ToInt(v.int)])
       \/ state = "FMT_STR"  /\ Gives("msg", v)
       \/ state = "HINT_MSG" /\ Gives("hint", v)
       \/ state = "HELP_ID"  /\ Gives("help", v)
       \/ /\ state \notin {"MSG_ID", "FMT_STR", "HINT_MSG", "HELP_ID"}
          /\ state' = IF level = MSG_OBJ_LEVEL THEN "MSG_OBJ" ELSE state
          /\ UNCHANGED attrs
    /\ UNCHANGED <<level, found, lastEnd, maxId, msgCount, ids>>

\* HandlerAdapter passes on what fits an int or an unsigned; an integer beyond
\* that is an Int64 or Uint64 event, for which it has no handler.
Delivered(v) == v.kind = "int" => v.int \in (-IntMax - 1)..UIntMax

HandleScalar(v) ==
    /\ DocScalar(v)
    /\ \/ /\ Delivered(v)
          /\ state = "MSG_ID" => GoodInt(v)
          /\ state \in {"FMT_STR", "HINT_MSG", "HELP_ID"} => v.kind = "str"
          /\ Checked({"MSG_ID", "FMT_STR", "HINT_MSG", "HELP_ID", "SKIP"}, HandleValue(v))
       \/ /\ Delivered(v)
          /\ \/ state = "MSG_ID" /\ ~GoodInt(v)
             \/ state \in {"FMT_STR", "HINT_MSG", "HELP_ID"} /\ v.kind # "str"
          /\ Throw
       \/ /\ ~Delivered(v)
          /\ UNCHANGED <<status, readerVars>>

ScalarValue == status = "parsing" /\ \E v \in Scalar : HandleScalar(v)

SyntaxError ==
    /\ status = "parsing"
    /\ DocSyntaxError
    /\ Throw

\* JsonReader::parse() returns, and the reader checks where it ended up.
Finish ==
    /\ status = "parsing"
    /\ DocOver
    /\ status' = IF state \in {"NEW", "DONE"} THEN "done" ELSE "thrown"
    /\ UNCHANGED <<docVars, readerVars>>

Next == \/ BeginObject \/ EndObject \/ BeginArray \/ EndArray \/ Name
        \/ ScalarValue \/ SyntaxError \/ Finish

Spec == Init /\ [][Next]_vars

-----------------------------------------------------------------------------
(* Properties.                                                              *)

TypeOK ==
    /\ DocTypeOK
    /\ status \in {"parsing", "done", "thrown"}
    /\ state \in States
    /\ level \in Nat
    /\ attrs \in [Attrs -> Scalar \cup [kind : {"int"}, int : Int] \cup {Absent}]
    /\ found \subseteq Int
    /\ lastEnd \in Nat \cup {-1}
    /\ maxId \in Nat
    /\ msgCount \in Nat
    /\ ids \in [Msgs -> Nat]

\* The entries the translation unit asks for.
Asked == {entries[i] : i \in {j \in DOMAIN entries : entries[j].key \in Msgs}}

\* The file contradicts itself or what earlier files said about these messages.
Clash ==
    \E a, b \in Asked :
        \/ a.key = b.key /\ a.id # b.id
        \/ a.key # b.key /\ a.id = b.id /\ Known[a.key] = 0 /\ Known[b.key] = 0
        \/ Known[a.key] \notin {0, a.id}

\* A file that parse() accepts is an array of messages, each with the ID and
\* the format string the plugin needs.
AcceptsMessages == status = "done" => valid

\* When parse() returns, the reader has every message of the file once, the
\* greatest ID, the end of the last message, and for each message of the
\* translation unit the ID the file has for it.
ReadsRight ==
    status = "done" =>
        /\ ~Clash
        /\ msgCount = Len(entries)
        /\ lastEnd = IF entries = << >> THEN -1 ELSE entries[Len(entries)].end
        /\ \A e \in {entries[i] : i \in DOMAIN entries} : e.id <= maxId
        /\ maxId # 0 => \E i \in DOMAIN entries : entries[i].id = maxId
        /\ \A e \in Asked : ids[e.key] = e.id
        /\ \A k \in Msgs : ids[k] # Known[k] => \E e \in Asked : e.key = k
        /\ found = {e.id : e \in {a \in Asked : Known[a.key] = 0}}

\* Every object of the array becomes a message or is reported: "ID and format
\* string attributes are mandatory" (msg_index.cpp:91).
EveryObjectCounts ==
    [][Depth = 2 /\ Len(ctx') = 1 /\ status' = "parsing" => msgCount' = msgCount + 1]_vars

\* parse() never throws at a message file: only at broken JSON, at something
\* that is no list of messages, or at a clash.
ThrowsOnlyAtErrors == status = "thrown" => place = "broken" \/ ~valid \/ Clash

=============================================================================
