----------------------------- MODULE FmtParser -----------------------------
(***************************************************************************)
(* FmtParser::parse() (src/logging/fmt_parser.cpp): which parts of a       *)
(* format string are printf() conversion specifications.  LogPass puts     *)
(* them, and nothing else, in place of the format string, so that a spec   *)
(* taken for text or cut wrongly makes the logged arguments unreadable.    *)
(***************************************************************************)
EXTENDS Integers, Sequences

CONSTANTS
    Formats     \* the format strings to parse, sequences of characters

\* Every string ends with a character no set has: next() throws when it takes it.
NUL == "\\0"

\* A format string is a C string (constStrVal()): nothing in it ends it.
ASSUME FormatsAssumption == Formats \subseteq Seq(STRING \ {NUL})

VARIABLES
    fmt,        \* the format string
    s,          \* position of the next character
    specs,      \* first and last position of each spec found
    status

vars == <<fmt, s, specs, status>>

FlagChars == {" ", "-", "+", "#", "0"}
Digits == {"0", "1", "2", "3", "4", "5", "6", "7", "8", "9"}
Conversions == {"c", "s", "d", "i", "o", "x", "X", "u", "f", "F", "e", "E",
                "a", "A", "g", "G", "n", "p"}

\* *s, and what next() takes at the end.
CharAt(i) == IF i \in DOMAIN fmt THEN fmt[i] ELSE NUL

-----------------------------------------------------------------------------
(* The parser: each operator gives the position after one part of a spec.   *)

\* while (isOneOf(c, ...)) c = next(s)
Past(i, set) ==
    CHOOSE j \in i..(Len(fmt) + 1) :
        CharAt(j) \notin set /\ \A k \in i..(j - 1) : CharAt(k) \in set

\* Mutant: a flag may be given once.
OneFlag(i) == IF CharAt(i) \in FlagChars THEN i + 1 ELSE i

AfterFlags(i) == Past(i, FlagChars)

AfterNumber(i) == IF CharAt(i) = "*" THEN i + 1 ELSE Past(i, Digits)

AfterPrecision(i) == IF CharAt(i) = "." THEN AfterNumber(i + 1) ELSE i

AfterLength(i) ==
    IF CharAt(i) \in {"h", "l"}
    THEN IF CharAt(i + 1) = CharAt(i) THEN i + 2 ELSE i + 1
    ELSE IF CharAt(i) \in {"j", "z", "t", "L"} THEN i + 1 ELSE i

\* Mutant: a '%' anywhere may end a conversion.
PercentEnds(i, j) == CharAt(j) = "%"

\* Mutant: a '%' at the end of the string is no error.
EndsTooSoon(i, j) == j = i + 1 /\ CharAt(j) \in {"%", NUL}

\* "%%" and nothing in between.
Escaped(i, j) == CharAt(j) = "%" /\ j = i + 1

\* Where the conversion character of the spec at position i must be.
ConversionAt(i) == AfterLength(AfterPrecision(AfterNumber(AfterFlags(i + 1))))

Init == fmt \in Formats /\ s = 1 /\ specs = << >> /\ status = "parsing"

Text ==
    /\ status = "parsing"
    /\ CharAt(s) \notin {"%", NUL}
    /\ s' = s + 1
    /\ UNCHANGED <<fmt, specs, status>>

Spec1 ==
    /\ status = "parsing"
    /\ CharAt(s) = "%"
    /\ LET j == ConversionAt(s)
       IN  \/ Escaped(s, j) /\ s' = j + 1 /\ UNCHANGED <<specs, status>>
           \/ /\ ~Escaped(s, j) /\ CharAt(j) \in Conversions
              /\ specs' = Append(specs, <<s, j>>)
              /\ s' = j + 1
              /\ UNCHANGED status
           \/ /\ ~Escaped(s, j) /\ CharAt(j) \notin Conversions
              /\ status' = "thrown"
              /\ UNCHANGED <<s, specs>>
    /\ UNCHANGED fmt

Return ==
    /\ status = "parsing"
    /\ CharAt(s) = NUL
    /\ status' = "done"
    /\ UNCHANGED <<fmt, s, specs>>

Next == Text \/ Spec1 \/ Return

Spec == Init /\ [][Next]_vars

-----------------------------------------------------------------------------
(* The grammar of printf() format strings, as it is written down.           *)

AllIn(i, j, set) == \A k \in i..j : CharAt(k) \in set

\* Characters i to j - 1 are a width or a precision, or nothing.
IsNumber(i, j) == \/ j = i + 1 /\ CharAt(i) = "*"
                  \/ i <= j /\ AllIn(i, j - 1, Digits)

IsLength(i, j) ==
    \/ j = i
    \/ j = i + 1 /\ CharAt(i) \in {"h", "l", "j", "z", "t", "L"}
    \/ j = i + 2 /\ <<CharAt(i), CharAt(i + 1)>> \in {<<"h", "h">>, <<"l", "l">>}

\* Characters i to j are one conversion specification.
IsSpec(i, j) ==
    /\ CharAt(i) = "%" /\ CharAt(j) \in Conversions
    /\ \E width, dot, length \in (i + 1)..j :
          /\ AllIn(i + 1, width - 1, FlagChars)
          /\ IsNumber(width, dot)
          /\ \/ length = dot
             \/ CharAt(dot) = "." /\ IsNumber(dot + 1, length)
          /\ IsLength(length, j)

\* The ways to read the rest of the string from position i on, as the specs it
\* has.
ReadingsFrom[i \in 1..(Len(fmt) + 1)] ==
    IF i > Len(fmt) THEN {<< >>}
    ELSE IF CharAt(i) # "%" THEN ReadingsFrom[i + 1]
    ELSE (IF CharAt(i + 1) = "%" THEN ReadingsFrom[i + 2] ELSE {})
         \cup UNION {{<< <<i, j>> >> \o r : r \in ReadingsFrom[j + 1]} :
                        j \in {k \in (i + 1)..Len(fmt) : IsSpec(i, k)}}

Readings == ReadingsFrom[1]

\* The parser returns exactly the specs of the string, which can be read in
\* one way only: the greedy scan never runs over the end of a spec (a '0' is
\* a flag and a digit, "hh" and "ll" are two characters).
FindsSpecs == status = "done" => Readings = {specs}

\* And it throws only where the string is no format string.
ThrowsOnlyAtBadFormat == status = "thrown" => Readings = {}

\* The type invariant: the parser stays within the string, terminator included,
\* and so does every spec.
TypeOK ==
    /\ fmt \in Seq(STRING)
    /\ s \in 1..(Len(fmt) + 1)
    /\ specs \in Seq((1..Len(fmt)) \X (1..Len(fmt)))
    /\ status \in {"parsing", "done", "thrown"}

=============================================================================
