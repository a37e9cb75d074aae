------------------------------ MODULE Variant ------------------------------
(***************************************************************************)
(* The values of the plugin's attribute and command-line arguments: a      *)
(* constant of the compiler's tree (src/plugin/tree.cpp) becomes a Variant *)
(* (src/util/variant.h), which its user converts (src/util/variant.cpp).   *)
(* Of a real number only the integer part is kept, and of a string what it *)
(* is and which number it spells.                                          *)
(***************************************************************************)
EXTENDS Integers

CONSTANTS
    IntMax,     \* the largest int; int64_t is twice as wide
    Spelled     \* the numbers that strings spell, a function on some strings

ASSUME IntMaxAssumption == IntMax \in Nat

IntMin == -IntMax - 1
Int64Max == 2 * (IntMax + 1) * (IntMax + 1) - 1

\* A constant node: an INTEGER_CST is a signed or an unsigned 64-bit number.
Integer(n) == [code |-> "INTEGER_CST", num |-> n, str |-> ""]
Real(n) == [code |-> "REAL_CST", num |-> n, str |-> ""]
Text(s) == [code |-> "STRING_CST", num |-> 0, str |-> s]
NotConstant == [code |-> "OTHER", num |-> 0, str |-> ""]
Tree == [code : {"INTEGER_CST", "REAL_CST"}, num : Int, str : {""}]
        \cup [code : {"STRING_CST"}, num : {0}, str : STRING] \cup {NotConstant}

None == [type |-> "NONE", num |-> 0, str |-> ""]
String(s) == [type |-> "STRING", num |-> 0, str |-> s]

\* The conversion to an int that drops the upper half.
Truncate(n) == ((n - IntMin) % (2 * IntMax + 2)) + IntMin

\* constIntVal() reads the digits of the number back as an int64_t.
constThrows(t) == \/ t.code = "OTHER"
                  \/ t.code = "INTEGER_CST" /\ t.num > Int64Max

constVal(t) ==
    CASE t.code = "INTEGER_CST" -> [type |-> "INT", num |-> Truncate(t.num), str |-> ""]
      [] t.code = "REAL_CST"    -> [type |-> "DOUBLE", num |-> t.num, str |-> ""]
      [] t.code = "STRING_CST"  -> String(t.str)

\* What toInt() may return; nothing if it throws.  A double that is too large
\* for an int becomes any int.
toInt(v) ==
    CASE v.type = "NONE"   -> {0}
      [] v.type = "INT"    -> {v.num}
      [] v.type = "DOUBLE" -> IF v.num \in IntMin..IntMax THEN {v.num} ELSE IntMin..IntMax
      [] v.type = "STRING" -> {Spelled[s] : s \in {v.str} \cap DOMAIN Spelled}
                                  \cap IntMin..IntMax

\* The digits of a number are the name of nothing.
toString(v) == IF v.type \in {"NONE", "STRING"} THEN v.str ELSE "digits"

=============================================================================
