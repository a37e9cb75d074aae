----------------------------- MODULE IndexFile -----------------------------
(***************************************************************************)
(* The message index file (src/logging/msg_index.cpp): what a JSON array   *)
(* of message objects is on disk, and what the file operations of          *)
(* MsgIndex::process() do to it.                                           *)
(*                                                                         *)
(* A file is a sequence of blocks, each standing for a run of bytes:       *)
(*   msg   one message object together with the '[' or ',' before it;      *)
(*   end   the ']' that closes the array;                                  *)
(*   rem, rest   the two halves of a comment after the array (JsonReader   *)
(*         parses with kParseCommentsFlag), so that cutting a file can     *)
(*         leave half a comment behind;                                    *)
(*   torn  bytes no JSON parser accepts: part of a block, or a hole.       *)
(* Stream offsets are block counts; an empty file is << >>.                *)
(***************************************************************************)
EXTENDS Integers, Sequences, FiniteSets

CONSTANTS
    Keys,       \* the messages: (fmtStr, hintMsg, helpId) triples, MsgIndex::MsgKey
    IntMax      \* INT_MAX; MsgId is the unsigned type of the same width

ASSUME KeysAssumption == IsFiniteSet(Keys)

\* A translation unit has fewer messages than there are non-negative ints.
ASSUME IntMaxAssumption == IntMax \in Nat /\ Cardinality(Keys) <= IntMax + 1

INVALID_MSG_ID == 0

MsgIdMax == 2 * IntMax + 1
MsgId == 0..MsgIdMax

-----------------------------------------------------------------------------
(* JSON integers are signed: Variant(unsigned) casts to int when an ID is   *)
(* written, and an int read back is compared with 0 before it is accepted.  *)

ToInt(id) == IF id <= IntMax THEN id ELSE id - (MsgIdMax + 1)
ToUnsigned(i) == IF i < 0 THEN i + MsgIdMax + 1 ELSE i

MsgBlock == [kind : {"msg"}, key : Keys, id : (-IntMax - 1)..IntMax]
MarkBlock == [kind : {"end", "rem", "rest", "torn"}]
Block == MsgBlock \cup MarkBlock

Msg(k, i) == [kind |-> "msg", key |-> k, id |-> i]
End  == [kind |-> "end"]
Torn == [kind |-> "torn"]
Remark == << [kind |-> "rem"], [kind |-> "rest"] >>

-----------------------------------------------------------------------------
(* What a file says.                                                        *)

\* The positions of the message objects before anything else in the file.
Lead(f) == {i \in 1..Len(f) : \A j \in 1..i : f[j].kind = "msg"}

\* The key/ID pairs a file records.
EntryOf(b) == [key |-> b.key, id |-> ToUnsigned(b.id)]
Registered(f) == {EntryOf(f[i]) : i \in Lead(f)}

\* What may follow the array: nothing, or a complete comment.
TailOK(f, n) == \/ Len(f) = n
                \/ SubSeq(f, n + 1, Len(f)) = Remark

\* JsonReader::parse() returns without throwing: an empty document is no error.
WellFormed(f) ==
    \/ f = << >>
    \/ \E n \in 1..Len(f) : /\ n - 1 \in Lead(f) \cup {0}
                            /\ f[n] = End
                            /\ TailOK(f, n)

\* One ID for one key and one key for one ID.
Coherent(S) == \A a, b \in S : a.key = b.key <=> a.id = b.id

-----------------------------------------------------------------------------
(* What the file operations do.                                             *)

\* Writing blocks bs at offset n. A gap past the end is filled with zeros.
Overlay(f, n, bs) ==
    LET last == IF n + Len(bs) > Len(f) THEN n + Len(bs) ELSE Len(f)
    IN  [i \in 1..last |-> IF i \in (n + 1)..(n + Len(bs)) THEN bs[i - n]
                           ELSE IF i <= Len(f) THEN f[i] ELSE Torn]

\* Mutant: the file is never cut.
NotTruncated(f, n) == f

\* fs::resize_file() to n, when the file is longer.
Truncated(f, n) == IF Len(f) > n THEN SubSeq(f, 1, n) ELSE f

\* The parts of a write that can reach the file when it is cut short.
Partial(bs) ==
    {SubSeq(bs, 1, n) : n \in 0..Len(bs)}
        \cup {SubSeq(bs, 1, n) \o << Torn >> : n \in 0..(Len(bs) - 1)}

=============================================================================
