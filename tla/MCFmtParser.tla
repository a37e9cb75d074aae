---------------------------- MODULE MCFmtParser ----------------------------
(***************************************************************************)
(* Instance of FmtParser for TLC: every string of up to six characters     *)
(* over one character of each class the parser tells apart.                *)
(***************************************************************************)
EXTENDS FmtParser

Alphabet == {"%", "-", "0", "7", "*", ".", "h", "z", "d"}
ShortFormats == UNION {[1..n -> Alphabet] : n \in 0..6}

=============================================================================
