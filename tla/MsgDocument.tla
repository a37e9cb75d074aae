---------------------------- MODULE MsgDocument ----------------------------
(***************************************************************************)
(* A JSON document as JsonReader (src/util/json.cpp) walks through it, and *)
(* what it says as a message file: an array of objects whose "id" is a     *)
(* positive int, whose "msg" is a string and whose "hint" and "help", if   *)
(* given, are strings; other members mean nothing, and of two members with *)
(* one name the later counts.                                              *)
(*                                                                         *)
(* The operators below are the events of the parser.  They say nothing of  *)
(* how the plugin handles them: that is IndexReader, which is compared     *)
(* with the document here.                                                 *)
(***************************************************************************)
EXTENDS Integers, Sequences

CONSTANTS
    IntMax,     \* INT_MAX
    Ints,       \* the integers documents contain
    Strings,    \* the string values documents contain
    MaxEvents   \* bound: events of a document

ASSUME IntsAssumption == IntMax \in Nat /\ Ints \subseteq Int
ASSUME MaxEventsAssumption == MaxEvents \in Nat

Attrs == {"id", "msg", "hint", "help"}
Names == Attrs \cup {"other"}
NoName == "none"

Absent == [kind |-> "absent"]
Scalar == [kind : {"int"}, int : Ints] \cup [kind : {"str"}, str : Strings]
              \cup [kind : {"null"}]
Container == [kind : {"array", "object"}]
Value == Scalar \cup Container

VARIABLES
    ctx,        \* the containers around the current position, outermost first
    name,       \* a member of the innermost object that has yet to get its value
    place,      \* "start", "inside", "end", or "broken" by a syntax error
    at,         \* events so far: the offset in the stream
    said,       \* what the current message object has said so far
    valid,      \* the document is a message file up to here
    entries     \* the messages it has had so far

docVars == <<ctx, name, place, at, said, valid, entries>>

Nothing == [a \in Attrs |-> Absent]

\* What members are for.
Fits(a, v) == /\ a = "id" => v.kind = "int" /\ v.int \in 1..IntMax
              /\ a \in {"msg", "hint", "help"} => v.kind = "str"

Key == [fmt : [kind : {"str"}, str : Strings],
        hint : [kind : {"str"}, str : Strings] \cup {Absent},
        help : [kind : {"str"}, str : Strings] \cup {Absent}]
KeyOf(o) == [fmt |-> o["msg"], hint |-> o["hint"], help |-> o["help"]]
Entry == [key : Key, id : 1..IntMax, end : Nat]

DocInit ==
    /\ ctx = << >> /\ name = NoName /\ place = "start" /\ at = 0
    /\ said = Nothing /\ valid = TRUE /\ entries = << >>

-----------------------------------------------------------------------------
(* The events.                                                              *)

Depth == Len(ctx)
Inside(kind) == place = "inside" /\ ctx[Depth] = kind

Advance == at < MaxEvents /\ at' = at + 1

\* The next thing is a value: the document itself, an element or a member.
ValueDue == \/ place = "start"
            \/ Inside("array")
            \/ Inside("object") /\ name # NoName

\* A message file may have value v here.
Allowed(v) == /\ Depth = 0 => v.kind = "array"
              /\ Depth = 1 => v.kind = "object"
              /\ Depth = 2 => Fits(name, v)

\* What value v means where it stands.
Meaning(v) ==
    /\ valid' = (valid /\ Allowed(v))
    /\ said' = IF Depth = 2 /\ name \in Attrs THEN [said EXCEPT ![name] = v] ELSE said

DocScalar(v) ==
    /\ ValueDue /\ Advance
    /\ Meaning(v)
    /\ name' = NoName
    /\ place' = IF Depth = 0 THEN "end" ELSE place
    /\ UNCHANGED <<ctx, entries>>

DocBegin(kind) ==
    /\ ValueDue /\ Advance
    /\ Meaning([kind |-> kind])
    /\ name' = NoName
    /\ place' = "inside"
    /\ ctx' = Append(ctx, kind)
    /\ UNCHANGED entries

DocName(n) ==
    /\ Inside("object") /\ name = NoName /\ Advance
    /\ name' = n
    /\ UNCHANGED <<ctx, place, said, valid, entries>>

\* The end of a message object: the message must have an ID and a format string.
Complete == said["id"] # Absent /\ said["msg"] # Absent

DocEnd(kind) ==
    /\ Inside(kind) /\ name = NoName /\ Advance
    /\ ctx' = SubSeq(ctx, 1, Depth - 1)
    /\ place' = IF Depth = 1 THEN "end" ELSE place
    /\ IF Depth = 2
       THEN /\ valid' = (valid /\ Complete)
            /\ entries' = IF valid'
                          THEN Append(entries, [key |-> KeyOf(said), id |-> said["id"].int,
                                                end |-> at + 1])
                          ELSE entries
            /\ said' = Nothing
       ELSE UNCHANGED <<valid, entries, said>>
    /\ UNCHANGED name

\* The parser meets something that is not JSON, a second root for instance.
DocSyntaxError ==
    /\ place # "broken"
    /\ place' = "broken"
    /\ UNCHANGED <<ctx, name, at, said, valid, entries>>

\* The parser reaches the end of the input: after the document, or without one.
DocOver == place \in {"start", "end"}

DocTypeOK ==
    /\ ctx \in Seq({"array", "object"})
    /\ name \in Names \cup {NoName}
    /\ place \in {"start", "inside", "end", "broken"}
    /\ at \in Nat
    /\ said \in [Attrs -> Value \cup {Absent}]
    /\ valid \in BOOLEAN
    /\ entries \in Seq(Entry)

=============================================================================
