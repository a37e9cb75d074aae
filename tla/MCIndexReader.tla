--------------------------- MODULE MCIndexReader ---------------------------
(***************************************************************************)
(* Instances of IndexReader for TLC: documents of some events over two     *)
(* strings, and a translation unit with three messages, one of which       *)
(* already has an ID from another file.                                    *)
(***************************************************************************)
EXTENDS IndexReader

\* 5 is an unsigned that becomes a negative int; 9 fits neither.
SmallInts == {-1, 0, 1, 2, 5}
LargeInts == {1, 2, 9}

Str(s) == [kind |-> "str", str |-> s]
Plain == [fmt |-> Str("a"), hint |-> Absent, help |-> Absent]
Hinted == [fmt |-> Str("a"), hint |-> Str("a"), help |-> Absent]
Seen == [fmt |-> Str("b"), hint |-> Absent, help |-> Absent]

ThreeMsgs == {Plain, Hinted, Seen}
SeenKnown == [k \in ThreeMsgs |-> IF k = Seen THEN 1 ELSE 0]

=============================================================================
