-------------------------- MODULE FmtParserProofs --------------------------
(***************************************************************************)
(* FmtParser finds the specs of every format string, of any length and     *)
(* with any characters: the greedy scan of src/logging/fmt_parser.cpp has  *)
(* the grammar of printf() as its result, and there is one way to read a   *)
(* string by it.                                                           *)
(***************************************************************************)
EXTENDS FmtParser, SequenceTheorems, WellFoundedInduction, TLAPS

\* A C string, as far as the parser goes.
CString == fmt \in Seq(STRING \ {NUL})

\* Where the parser may stand, and the characters themselves.
Ends == 1..(Len(fmt) + 1)
Chars == 1..Len(fmt)

LengthChars == {"h", "l", "j", "z", "t", "L"}

-----------------------------------------------------------------------------
(* Characters and the scan for the first that is not in a set.              *)

\* A string ends at its end and nowhere else.
LEMMA CharAtEnd ==
    ASSUME CString
    PROVE  /\ Len(fmt) \in Nat
           /\ \A i \in Int : CharAt(i) = NUL <=> i \notin Chars
<1>1. Len(fmt) \in Nat /\ DOMAIN fmt = Chars
  BY DEF CString, Chars
<1>2. \A i \in Chars : fmt[i] \in STRING \ {NUL}
  BY ElementOfSeq DEF CString, Chars
<1> QED
  BY <1>1, <1>2 DEF CharAt

\* What ends a string is in no set of the parser.
LEMMA SetsWithoutEnd ==
    /\ NUL \notin FlagChars /\ NUL \notin Digits /\ NUL \notin Conversions
    /\ NUL \notin LengthChars /\ NUL \notin {"%", ".", "*"}
  BY DEF NUL, FlagChars, Digits, Conversions, LengthChars

\* A set of positions has a first one.
LEMMA FirstOf ==
    ASSUME NEW S \in SUBSET Nat, S # {}
    PROVE  \E i \in S : \A j \in S : i <= j
<1>1. PICK i \in S : \A j \in S : ~ (<<j, i>> \in OpToRel(<, Nat))
  BY NatLessThanWellFounded, WFMin
<1>2. ASSUME NEW j \in S, ~ (i <= j) PROVE FALSE
  <2>1. j \in Nat /\ i \in Nat /\ j < i
    BY <1>2
  <2>2. <<j, i>> \in OpToRel(<, Nat)
    BY <2>1, Zenon DEF OpToRel
  <2> QED
    BY <1>1, <2>2
<1> QED
  BY <1>2

\* The scan passes what is in the set, and stops within the string.
LEMMA PastIs ==
    ASSUME CString, NEW set, NUL \notin set, NEW i \in Ends
    PROVE  /\ Past(i, set) \in i..(Len(fmt) + 1)
           /\ CharAt(Past(i, set)) \notin set
           /\ AllIn(i, Past(i, set) - 1, set)
<1>1. Len(fmt) \in Nat /\ CharAt(Len(fmt) + 1) = NUL
  BY CharAtEnd DEF Chars
<1> DEFINE T == {j \in i..(Len(fmt) + 1) : CharAt(j) \notin set}
<1>2. Len(fmt) + 1 \in T /\ T \in SUBSET Nat
  BY <1>1 DEF Ends
<1> HIDE DEF T
<1>3. PICK j \in T : \A k \in T : j <= k
  BY <1>2, FirstOf
<1>4. j \in i..(Len(fmt) + 1) /\ CharAt(j) \notin set
  BY <1>3 DEF T
<1>5. \A k \in i..(j - 1) : CharAt(k) \in set
  BY <1>1, <1>3, <1>4 DEF T, Ends
<1>6. \E p \in i..(Len(fmt) + 1) :
         CharAt(p) \notin set /\ \A k \in i..(p - 1) : CharAt(k) \in set
  BY <1>4, <1>5
<1> QED
  BY <1>6 DEF Past, AllIn

\* It is the only position of that kind.
LEMMA PastUnique ==
    ASSUME CString, NEW set, NUL \notin set, NEW i \in Ends,
           NEW j \in i..(Len(fmt) + 1), CharAt(j) \notin set, AllIn(i, j - 1, set)
    PROVE  Past(i, set) = j
<1> DEFINE p == Past(i, set)
<1>1. p \in i..(Len(fmt) + 1) /\ CharAt(p) \notin set /\ AllIn(i, p - 1, set)
  BY PastIs
<1>2. Len(fmt) \in Nat
  BY CharAtEnd
<1> HIDE DEF p
<1>3. ~ (p < j) /\ ~ (j < p)
  BY <1>1, <1>2 DEF AllIn, Ends
<1> QED
  BY <1>1, <1>2, <1>3 DEF p, Ends

LEMMA NothingToPass ==
    ASSUME CString, NEW set, NUL \notin set, NEW i \in Ends, CharAt(i) \notin set
    PROVE  Past(i, set) = i
<1> DEFINE p == Past(i, set)
<1>1. p \in i..(Len(fmt) + 1) /\ AllIn(i, p - 1, set)
  BY PastIs
<1>2. Len(fmt) \in Nat
  BY CharAtEnd
<1> HIDE DEF p
<1>3. ~ (i < p)
  BY <1>1, <1>2 DEF AllIn, Ends
<1> QED
  BY <1>1, <1>2, <1>3 DEF p, Ends

-----------------------------------------------------------------------------
(* The parts of a spec end within the string, one behind the other.          *)

LEMMA FlagsEnd ==
    ASSUME CString, NEW i \in Ends
    PROVE  /\ AfterFlags(i) \in i..(Len(fmt) + 1)
           /\ AllIn(i, AfterFlags(i) - 1, FlagChars)
  BY PastIs, SetsWithoutEnd DEF AfterFlags

LEMMA NumberEnd ==
    ASSUME CString, NEW i \in Ends
    PROVE  AfterNumber(i) \in i..(Len(fmt) + 1) /\ IsNumber(i, AfterNumber(i))
<1>1. Len(fmt) \in Nat
  BY CharAtEnd
<1>2. CASE CharAt(i) = "*"
  <2>1. i \in Chars
    BY <1>2, CharAtEnd, SetsWithoutEnd DEF Ends
  <2> QED
    BY <1>1, <1>2, <2>1 DEF AfterNumber, IsNumber, Chars, Ends
<1>3. CASE CharAt(i) # "*"
  <2>1. AfterNumber(i) = Past(i, Digits)
    BY <1>3 DEF AfterNumber
  <2>2. Past(i, Digits) \in i..(Len(fmt) + 1) /\ AllIn(i, Past(i, Digits) - 1, Digits)
    BY PastIs, SetsWithoutEnd
  <2> QED
    BY <1>1, <2>1, <2>2 DEF IsNumber, Ends
<1> QED
  BY <1>2, <1>3

LEMMA PrecisionEnd ==
    ASSUME CString, NEW i \in Ends
    PROVE  /\ AfterPrecision(i) \in i..(Len(fmt) + 1)
           /\ \/ AfterPrecision(i) = i
              \/ CharAt(i) = "." /\ IsNumber(i + 1, AfterPrecision(i))
<1>1. Len(fmt) \in Nat
  BY CharAtEnd
<1>2. CASE CharAt(i) = "."
  <2>1. i + 1 \in Ends
    BY <1>1, <1>2, CharAtEnd, SetsWithoutEnd DEF Ends, Chars
  <2>2. AfterNumber(i + 1) \in (i + 1)..(Len(fmt) + 1) /\ IsNumber(i + 1, AfterNumber(i + 1))
    BY <2>1, NumberEnd
  <2> QED
    BY <1>1, <1>2, <2>2 DEF AfterPrecision, Ends
<1>3. CASE CharAt(i) # "."
  BY <1>1, <1>3 DEF AfterPrecision, Ends
<1> QED
  BY <1>2, <1>3

LEMMA LengthEnd ==
    ASSUME CString, NEW i \in Ends
    PROVE  AfterLength(i) \in i..(Len(fmt) + 1) /\ IsLength(i, AfterLength(i))
<1>1. Len(fmt) \in Nat /\ \A k \in Int : k \in Chars <=> CharAt(k) # NUL
  BY CharAtEnd
<1>2. CharAt(i) \in LengthChars => i \in Chars
  BY <1>1, SetsWithoutEnd DEF Ends
<1>3. CharAt(i) \in LengthChars /\ CharAt(i + 1) = CharAt(i) => i + 1 \in Chars
  BY <1>1, SetsWithoutEnd DEF Ends
<1>4. CharAt(i) \in {"h", "l"} /\ CharAt(i + 1) = CharAt(i)
         => <<CharAt(i), CharAt(i + 1)>> \in {<<"h", "h">>, <<"l", "l">>}
  OBVIOUS
<1> QED
  BY <1>1, <1>2, <1>3, <1>4 DEF AfterLength, IsLength, LengthChars, Chars, Ends

\* The character that must be a conversion is behind the '%', within the string.
LEMMA ConversionEnd ==
    ASSUME CString, NEW i \in Chars
    PROVE  ConversionAt(i) \in (i + 1)..(Len(fmt) + 1)
<1>1. Len(fmt) \in Nat /\ i + 1 \in Ends
  BY CharAtEnd DEF Chars, Ends
<1> DEFINE w == AfterFlags(i + 1)
           d == AfterNumber(w)
           l == AfterPrecision(d)
<1>2. w \in (i + 1)..(Len(fmt) + 1)
  BY <1>1, FlagsEnd
<1> HIDE DEF w
<1>3. d \in w..(Len(fmt) + 1)
  BY <1>1, <1>2, NumberEnd DEF Ends
<1> HIDE DEF d
<1>4. l \in d..(Len(fmt) + 1)
  BY <1>1, <1>2, <1>3, PrecisionEnd DEF Ends
<1> HIDE DEF l
<1>5. AfterLength(l) \in l..(Len(fmt) + 1)
  BY <1>1, <1>2, <1>3, <1>4, LengthEnd DEF Ends
<1>6. ConversionAt(i) = AfterLength(l)
  BY DEF ConversionAt, l, d, w
<1> QED
  BY <1>1, <1>2, <1>3, <1>4, <1>5, <1>6 DEF Ends

-----------------------------------------------------------------------------
(* The greedy scan and the grammar.                                         *)

\* What the scan takes for a spec is one.
LEMMA ScanIsSpec ==
    ASSUME CString, NEW i \in Chars, CharAt(i) = "%", CharAt(ConversionAt(i)) \in Conversions
    PROVE  IsSpec(i, ConversionAt(i)) /\ ConversionAt(i) \in (i + 1)..Len(fmt)
<1>1. Len(fmt) \in Nat /\ i + 1 \in Ends
  BY CharAtEnd DEF Chars, Ends
<1> DEFINE w == AfterFlags(i + 1)
           d == AfterNumber(w)
           l == AfterPrecision(d)
           j == AfterLength(l)
<1>2. w \in (i + 1)..(Len(fmt) + 1) /\ AllIn(i + 1, w - 1, FlagChars)
  BY <1>1, FlagsEnd
<1> HIDE DEF w
<1>3. d \in w..(Len(fmt) + 1) /\ IsNumber(w, d)
  BY <1>1, <1>2, NumberEnd DEF Ends
<1> HIDE DEF d
<1>4. l \in d..(Len(fmt) + 1) /\ (l = d \/ (CharAt(d) = "." /\ IsNumber(d + 1, l)))
  BY <1>1, <1>2, <1>3, PrecisionEnd DEF Ends
<1> HIDE DEF l
<1>5. j \in l..(Len(fmt) + 1) /\ IsLength(l, j)
  BY <1>1, <1>2, <1>3, <1>4, LengthEnd DEF Ends
<1> HIDE DEF j
<1>6. ConversionAt(i) = j
  BY DEF ConversionAt, j, l, d, w
<1>7. w \in (i + 1)..j /\ d \in (i + 1)..j /\ l \in (i + 1)..j
  BY <1>1, <1>2, <1>3, <1>4, <1>5 DEF Ends
<1>8. j \in Chars
  BY <1>1, <1>5, <1>6, <1>7, CharAtEnd, SetsWithoutEnd DEF Ends
<1>9. IsSpec(i, j)
  BY <1>2, <1>3, <1>4, <1>5, <1>6, <1>7 DEF IsSpec
<1> QED
  BY <1>1, <1>5, <1>6, <1>7, <1>8, <1>9 DEF Chars

\* What may stand behind a number of a spec: no flag, no digit and no '*'.
Enders == {"."} \cup LengthChars \cup Conversions

LEMMA EndersEnd ==
    Enders \cap FlagChars = {} /\ Enders \cap Digits = {} /\ "*" \notin Enders
  BY DEF Enders, LengthChars, FlagChars, Digits, Conversions

\* A number ends where the scan says, if what is behind it is none of its
\* characters.
LEMMA NumberUnique ==
    ASSUME CString, NEW i \in Ends, NEW j \in i..(Len(fmt) + 1),
           IsNumber(i, j), CharAt(j) \in Enders
    PROVE  AfterNumber(i) = j
<1>1. CASE j = i + 1 /\ CharAt(i) = "*"
  BY <1>1 DEF AfterNumber
<1>2. CASE AllIn(i, j - 1, Digits)
  <2>1. CharAt(i) # "*"
    <3>1. CASE i = j
      BY <3>1, EndersEnd
    <3>2. CASE i # j
      <4>1. CharAt(i) \in Digits
        BY <1>2, <3>2, CharAtEnd DEF AllIn, Ends
      <4> QED
        BY <4>1 DEF Digits
    <3> QED
      BY <3>1, <3>2
  <2>2. Past(i, Digits) = j
    BY <1>2, PastUnique, SetsWithoutEnd, EndersEnd
  <2> QED
    BY <2>1, <2>2 DEF AfterNumber
<1> QED
  BY <1>1, <1>2 DEF IsNumber

\* Flags and a width: a '0' behind the flags is one or the other, and the scan
\* takes as many flags as it can.
LEMMA FlagsAndWidthUnique ==
    ASSUME CString, NEW i \in Ends,
           NEW w \in i..(Len(fmt) + 1), NEW d \in i..(Len(fmt) + 1),
           AllIn(i, w - 1, FlagChars), IsNumber(w, d), CharAt(d) \in Enders
    PROVE  AfterNumber(AfterFlags(i)) = d
<1>1. Len(fmt) \in Nat
  BY CharAtEnd
<1>2. CASE d = w + 1 /\ CharAt(w) = "*"
  <2>1. CharAt(w) \notin FlagChars
    BY <1>2 DEF FlagChars
  <2>2. AfterFlags(i) = w
    BY <2>1, PastUnique, SetsWithoutEnd DEF AfterFlags
  <2> QED
    BY <1>2, <2>2 DEF AfterNumber
<1>3. CASE w <= d /\ AllIn(w, d - 1, Digits)
  <2> DEFINE g == AfterFlags(i)
  <2>1. g \in i..(Len(fmt) + 1) /\ AllIn(i, g - 1, FlagChars) /\ CharAt(g) \notin FlagChars
    BY PastIs, SetsWithoutEnd DEF AfterFlags
  <2> HIDE DEF g
  <2>2. g <= d
    BY <1>1, <2>1, EndersEnd DEF AllIn, Ends
  <2>3. w <= g
    BY <1>1, <2>1 DEF AllIn, Ends
  <2>4. AllIn(g, d - 1, Digits)
    BY <1>1, <1>3, <2>1, <2>3 DEF AllIn, Ends
  <2>5. IsNumber(g, d)
    BY <2>2, <2>4 DEF IsNumber
  <2>6. AfterNumber(g) = d
    BY <1>1, <2>1, <2>2, <2>5, NumberUnique DEF Ends
  <2> QED
    BY <2>6 DEF g
<1> QED
  BY <1>2, <1>3 DEF IsNumber

\* A spec ends where the scan says.
LEMMA SpecIsScan ==
    ASSUME CString, NEW i \in Chars, NEW k \in (i + 1)..Len(fmt), IsSpec(i, k)
    PROVE  k = ConversionAt(i) /\ CharAt(k) \in Conversions
<1>1. Len(fmt) \in Nat /\ i + 1 \in Ends
  BY CharAtEnd DEF Chars, Ends
<1>2. CharAt(k) \in Conversions
  BY DEF IsSpec
<1>3. PICK w \in (i + 1)..k, d \in (i + 1)..k, l \in (i + 1)..k :
         /\ AllIn(i + 1, w - 1, FlagChars)
         /\ IsNumber(w, d)
         /\ l = d \/ (CharAt(d) = "." /\ IsNumber(d + 1, l))
         /\ IsLength(l, k)
  BY DEF IsSpec
<1>4. w \in (i + 1)..(Len(fmt) + 1) /\ d \in (i + 1)..(Len(fmt) + 1) /\ l \in (i + 1)..(Len(fmt) + 1)
  BY <1>1, <1>3 DEF Chars
<1>5. CharAt(l) \in LengthChars \cup Conversions
  BY <1>2, <1>3 DEF IsLength, LengthChars
<1>6. CharAt(d) \in Enders /\ CharAt(l) \in Enders
  BY <1>3, <1>5 DEF Enders
<1>7. AfterNumber(AfterFlags(i + 1)) = d
  BY <1>1, <1>3, <1>4, <1>6, FlagsAndWidthUnique
<1>8. AfterPrecision(d) = l
  <2>1. CASE l = d
    <3>1. CharAt(d) # "."
      BY <1>5, <2>1 DEF LengthChars, Conversions
    <3> QED
      BY <2>1, <3>1 DEF AfterPrecision
  <2>2. CASE CharAt(d) = "." /\ IsNumber(d + 1, l)
    <3>1. d + 1 <= l
      BY <1>1, <1>3, <1>4, <2>2 DEF IsNumber
    <3>2. d + 1 \in Ends /\ l \in (d + 1)..(Len(fmt) + 1)
      BY <1>1, <1>4, <3>1 DEF Ends, Chars
    <3>3. AfterNumber(d + 1) = l
      BY <1>6, <2>2, <3>2, NumberUnique
    <3> QED
      BY <2>2, <3>3 DEF AfterPrecision
  <2> QED
    BY <1>3, <2>1, <2>2
<1>9. AfterLength(l) = k
  <2>1. CharAt(k) \notin LengthChars
    BY <1>2 DEF Conversions, LengthChars
  <2>2. CASE k = l
    BY <2>1, <2>2 DEF AfterLength, LengthChars
  <2>3. CASE k = l + 1 /\ CharAt(l) \in LengthChars
    BY <2>1, <2>3 DEF AfterLength, LengthChars
  <2>4. CASE k = l + 2 /\ CharAt(l) \in {"h", "l"} /\ CharAt(l + 1) = CharAt(l)
    BY <2>4 DEF AfterLength
  <2>5. <<CharAt(l), CharAt(l + 1)>> \in {<<"h", "h">>, <<"l", "l">>}
           => CharAt(l) \in {"h", "l"} /\ CharAt(l + 1) = CharAt(l)
    OBVIOUS
  <2> QED
    BY <1>3, <2>2, <2>3, <2>4, <2>5 DEF IsLength, LengthChars
<1> QED
  BY <1>2, <1>7, <1>8, <1>9 DEF ConversionAt

-----------------------------------------------------------------------------
(* The recursion of ReadingsFrom, which goes from the end of the string to   *)
(* its start.                                                                *)

SpecLists == Seq(Chars \X Chars)

\* What the definition does at one position.
FirstSpec(R, i) ==
    UNION {{<< <<i, j>> >> \o r : r \in R[j + 1]} : j \in {k \in (i + 1)..Len(fmt) : IsSpec(i, k)}}
ReadStep(R, i) ==
    IF i > Len(fmt) THEN {<< >>}
    ELSE IF CharAt(i) # "%" THEN R[i + 1]
    ELSE (IF CharAt(i + 1) = "%" THEN R[i + 2] ELSE {}) \cup FirstSpec(R, i)

\* A set of positions of the string has a last one.
LEMMA LastOf ==
    ASSUME CString, NEW S \in SUBSET Ends, S # {}
    PROVE  \E i \in S : \A j \in S : j <= i
<1> DEFINE T == {Len(fmt) + 1 - i : i \in S}
<1>1. Len(fmt) \in Nat
  BY CharAtEnd
<1>2. T \in SUBSET Nat /\ T # {}
  <2>1. \A i \in S : Len(fmt) + 1 - i \in Nat
    BY <1>1 DEF Ends
  <2> QED
    BY <2>1
<1> HIDE DEF T
<1>3. PICK t \in T : \A k \in T : t <= k
  BY <1>2, FirstOf
<1>4. PICK i \in S : t = Len(fmt) + 1 - i
  BY <1>3 DEF T
<1>5. \A j \in S : t <= Len(fmt) + 1 - j
  BY <1>3 DEF T
<1> QED
  BY <1>1, <1>4, <1>5 DEF Ends

\* The positions a step looks at are behind its own and within the string.
LEMMA Later ==
    ASSUME CString, NEW i \in Chars
    PROVE  /\ i + 1 \in Ends /\ i < i + 1
           /\ CharAt(i + 1) = "%" => i + 2 \in Ends /\ i < i + 2
           /\ \A j \in (i + 1)..Len(fmt) : j + 1 \in Ends /\ i < j + 1 /\ j \in Chars
<1>1. Len(fmt) \in Nat
  BY CharAtEnd
<1>2. CharAt(i + 1) = "%" => i + 1 \in Chars
  BY CharAtEnd, SetsWithoutEnd DEF Chars
<1> QED
  BY <1>1, <1>2 DEF Chars, Ends

LEMMA StepLocal ==
    ASSUME CString, NEW i \in Ends, NEW f, NEW g, \A j \in Ends : i < j => f[j] = g[j]
    PROVE  ReadStep(f, i) = ReadStep(g, i)
<1>1. CASE i > Len(fmt)
  BY <1>1 DEF ReadStep
<1>2. CASE ~ (i > Len(fmt))
  <2>1. i \in Chars
    BY <1>2, CharAtEnd DEF Chars, Ends
  <2>2. f[i + 1] = g[i + 1] /\ (CharAt(i + 1) = "%" => f[i + 2] = g[i + 2])
    BY <2>1, Later
  <2>3. \A j \in (i + 1)..Len(fmt) : f[j + 1] = g[j + 1]
    BY <2>1, Later
  <2>4. FirstSpec(f, i) = FirstSpec(g, i)
    BY <2>3 DEF FirstSpec
  <2> QED
    BY <2>2, <2>4 DEF ReadStep
<1> QED
  BY <1>1, <1>2

\* One spec in front of a list of specs.
LEMMA InFront ==
    ASSUME NEW x \in Chars \X Chars, NEW r \in SpecLists
    PROVE  << x >> \in SpecLists /\ << x >> \o r \in SpecLists
<1>1. << x >> \in SpecLists
  BY DEF SpecLists
<1> QED
  BY <1>1, ConcatProperties DEF SpecLists

LEMMA StepType ==
    ASSUME CString, NEW i \in Ends, NEW f, \A j \in Ends : i < j => f[j] \in SUBSET SpecLists
    PROVE  ReadStep(f, i) \in SUBSET SpecLists
<1>1. CASE i > Len(fmt)
  <2>1. << >> \in SpecLists
    BY EmptySeq DEF SpecLists
  <2> QED
    BY <1>1, <2>1 DEF ReadStep
<1>2. CASE ~ (i > Len(fmt))
  <2>1. i \in Chars
    BY <1>2, CharAtEnd DEF Chars, Ends
  <2>2. f[i + 1] \in SUBSET SpecLists /\ (CharAt(i + 1) = "%" => f[i + 2] \in SUBSET SpecLists)
    BY <2>1, Later
  <2>3. \A j \in (i + 1)..Len(fmt) : \A r \in f[j + 1] : << <<i, j>> >> \o r \in SpecLists
    <3> TAKE j \in (i + 1)..Len(fmt)
    <3>1. j \in Chars /\ f[j + 1] \in SUBSET SpecLists
      BY <2>1, Later
    <3>2. <<i, j>> \in Chars \X Chars
      BY <2>1, <3>1
    <3> QED
      BY <3>1, <3>2, InFront
  <2>4. FirstSpec(f, i) \in SUBSET SpecLists
    <3> SUFFICES ASSUME NEW x \in FirstSpec(f, i) PROVE x \in SpecLists
      OBVIOUS
    <3>1. PICK j \in {k \in (i + 1)..Len(fmt) : IsSpec(i, k)} :
             x \in {<< <<i, j>> >> \o r : r \in f[j + 1]}
      BY DEF FirstSpec
    <3>2. PICK r \in f[j + 1] : x = << <<i, j>> >> \o r
      BY <3>1
    <3>3. j \in (i + 1)..Len(fmt)
      OBVIOUS
    <3> QED
      BY <2>3, <3>2, <3>3
  <2>5. CASE CharAt(i) # "%"
    BY <1>2, <2>2, <2>5 DEF ReadStep
  <2>6. CASE CharAt(i) = "%"
    <3>1. ReadStep(f, i) = (IF CharAt(i + 1) = "%" THEN f[i + 2] ELSE {}) \cup FirstSpec(f, i)
      BY <1>2, <2>6 DEF ReadStep
    <3> QED
      BY <2>2, <2>4, <3>1
  <2> QED
    BY <2>5, <2>6
<1> QED
  BY <1>1, <1>2

\* There is a function that does a step at every position.
LEMMA ReadingsExist ==
    ASSUME CString
    PROVE  \E f : f = [i \in Ends |-> ReadStep(f, i)]
<1> DEFINE Part(m) == \E f \in [Ends -> SUBSET SpecLists] :
                         \A i \in Ends : m <= i => f[i] = ReadStep(f, i)
           T == {m \in Ends : ~ Part(m)}
<1>1. Len(fmt) \in Nat
  BY CharAtEnd
<1>2. T = {}
  <2> SUFFICES ASSUME T # {} PROVE FALSE
    OBVIOUS
  <2>1. PICK m \in T : \A k \in T : k <= m
    <3>1. T \in SUBSET Ends
      OBVIOUS
    <3> HIDE DEF T
    <3> QED
      BY <3>1, LastOf
  <2>2. m \in Ends /\ ~ Part(m)
    OBVIOUS
  <2>3. PICK f \in [Ends -> SUBSET SpecLists] : \A i \in Ends : m < i => f[i] = ReadStep(f, i)
    <3>1. CASE m = Len(fmt) + 1
      <4>1. [i \in Ends |-> {}] \in [Ends -> SUBSET SpecLists]
        OBVIOUS
      <4>2. \A i \in Ends : ~ (m < i)
        BY <1>1, <3>1 DEF Ends
      <4> QED
        BY <4>1, <4>2
    <3>2. CASE m # Len(fmt) + 1
      <4>1. m + 1 \in Ends /\ ~ (m + 1 <= m)
        BY <1>1, <2>2, <3>2 DEF Ends
      <4>2. Part(m + 1)
        BY <2>1, <4>1
      <4>3. \A i \in Ends : m < i => m + 1 <= i
        BY <2>2 DEF Ends
      <4> QED
        BY <4>2, <4>3
    <3> QED
      BY <3>1, <3>2
  <2> DEFINE g == [i \in Ends |-> IF i = m THEN ReadStep(f, m) ELSE f[i]]
  <2>4. ReadStep(f, m) \in SUBSET SpecLists
    BY <2>2, StepType
  <2>5. g \in [Ends -> SUBSET SpecLists]
    BY <2>4
  <2>6. g[m] = ReadStep(f, m) /\ \A i \in Ends : m < i => g[i] = f[i]
    BY <2>2 DEF Ends
  <2> HIDE DEF g
  <2>7. ASSUME NEW i \in Ends, m <= i PROVE g[i] = ReadStep(g, i)
    <3>1. \A j \in Ends : i < j => g[j] = f[j]
      BY <2>2, <2>6, <2>7 DEF Ends
    <3>2. ReadStep(g, i) = ReadStep(f, i)
      BY <3>1, StepLocal
    <3>3. i = m \/ m < i
      BY <2>2, <2>7 DEF Ends
    <3> QED
      BY <2>3, <2>6, <3>2, <3>3
  <2>8. Part(m)
    BY <2>5, <2>7
  <2> QED
    BY <2>2, <2>8
<1>3. Part(1)
  <2>1. 1 \in Ends
    BY <1>1 DEF Ends
  <2> HIDE DEF Part
  <2> QED
    BY <1>2, <2>1
<1>4. PICK f \in [Ends -> SUBSET SpecLists] : \A i \in Ends : 1 <= i => f[i] = ReadStep(f, i)
  BY <1>3
<1>5. \A i \in Ends : f[i] = ReadStep(f, i)
  BY <1>4 DEF Ends
<1>6. f = [i \in Ends |-> ReadStep(f, i)]
  BY <1>4, <1>5
<1> QED
  BY <1>6

\* So ReadingsFrom does what its definition says.
LEMMA ReadingsStep ==
    ASSUME CString, NEW i \in Ends
    PROVE  ReadingsFrom[i] = ReadStep(ReadingsFrom, i) /\ ReadingsFrom[i] \in SUBSET SpecLists
<1> DEFINE R == CHOOSE g : g = [k \in Ends |-> ReadStep(g, k)]
<1>1. R = [k \in Ends |-> ReadStep(R, k)]
  BY ReadingsExist
<1>2. ReadingsFrom = R
  BY DEF ReadingsFrom, ReadStep, FirstSpec, Ends
<1> HIDE DEF R
<1>3. \A k \in Ends : R[k] = ReadStep(R, k)
  BY <1>1, Zenon
<1> DEFINE T == {k \in Ends : R[k] \notin SUBSET SpecLists}
<1>4. T = {}
  <2> SUFFICES ASSUME T # {} PROVE FALSE
    OBVIOUS
  <2>1. PICK m \in T : \A k \in T : k <= m
    <3>1. T \in SUBSET Ends
      OBVIOUS
    <3> HIDE DEF T
    <3> QED
      BY <3>1, LastOf
  <2>2. \A j \in Ends : m < j => R[j] \in SUBSET SpecLists
    BY <2>1 DEF Ends
  <2>3. ReadStep(R, m) \in SUBSET SpecLists
    BY <2>2, StepType
  <2> QED
    BY <1>3, <2>1, <2>3
<1> QED
  BY <1>2, <1>3, <1>4

-----------------------------------------------------------------------------
(* What a step of the parser does to the readings of what is left.          *)

LEMMA ReadingsOfNothing ==
    ASSUME CString
    PROVE  ReadingsFrom[Len(fmt) + 1] = {<< >>}
<1>1. Len(fmt) \in Nat
  BY CharAtEnd
<1>2. Len(fmt) + 1 \in Ends /\ Len(fmt) + 1 > Len(fmt)
  BY <1>1 DEF Ends
<1> QED
  BY <1>2, ReadingsStep DEF ReadStep

LEMMA ReadingsOfText ==
    ASSUME CString, NEW i \in Chars, CharAt(i) # "%"
    PROVE  ReadingsFrom[i] = ReadingsFrom[i + 1]
<1>1. Len(fmt) \in Nat
  BY CharAtEnd
<1>2. i \in Ends /\ ~ (i > Len(fmt))
  BY <1>1 DEF Chars, Ends
<1> QED
  BY <1>2, ReadingsStep DEF ReadStep

\* A second '%' is where the scan looks for the conversion.
LEMMA ScanOfEscape ==
    ASSUME CString, NEW i \in Chars, CharAt(i + 1) = "%"
    PROVE  ConversionAt(i) = i + 1
<1>1. Len(fmt) \in Nat /\ i + 1 \in Ends
  BY Later, CharAtEnd
<1>2. /\ CharAt(i + 1) \notin FlagChars /\ CharAt(i + 1) \notin Digits
      /\ CharAt(i + 1) \notin {"*", ".", "h", "l", "j", "z", "t", "L"}
  BY DEF FlagChars, Digits
<1>3. AfterFlags(i + 1) = i + 1
  BY <1>1, <1>2, NothingToPass, SetsWithoutEnd DEF AfterFlags
<1>4. Past(i + 1, Digits) = i + 1
  BY <1>1, <1>2, NothingToPass, SetsWithoutEnd
<1>5. AfterNumber(i + 1) = i + 1
  BY <1>2, <1>4 DEF AfterNumber
<1>6. AfterPrecision(i + 1) = i + 1 /\ AfterLength(i + 1) = i + 1
  BY <1>2 DEF AfterPrecision, AfterLength
<1> QED
  BY <1>3, <1>5, <1>6 DEF ConversionAt

\* At a '%' the string is read as "%%", as the spec that the scan finds, or not
\* at all.
LEMMA ReadingsOfPercent ==
    ASSUME CString, NEW i \in Chars, CharAt(i) = "%"
    PROVE  LET j == ConversionAt(i) IN
           /\ Escaped(i, j) => j \in Chars /\ ReadingsFrom[i] = ReadingsFrom[j + 1]
           /\ ~ Escaped(i, j) /\ CharAt(j) \in Conversions =>
                 /\ j \in (i + 1)..Len(fmt)
                 /\ ReadingsFrom[i] = {<< <<i, j>> >> \o r : r \in ReadingsFrom[j + 1]}
           /\ ~ Escaped(i, j) /\ CharAt(j) \notin Conversions => ReadingsFrom[i] = {}
<1> DEFINE j == ConversionAt(i)
           R == ReadingsFrom
           S == {k \in (i + 1)..Len(fmt) : IsSpec(i, k)}
<1>1. Len(fmt) \in Nat /\ i \in Ends /\ ~ (i > Len(fmt))
  BY CharAtEnd DEF Chars, Ends
<1>2. R[i] = (IF CharAt(i + 1) = "%" THEN R[i + 2] ELSE {}) \cup FirstSpec(R, i)
  BY <1>1, ReadingsStep DEF ReadStep
<1>3. Escaped(i, j) <=> CharAt(i + 1) = "%"
  BY ScanOfEscape DEF Escaped
<1>4. FirstSpec(R, i) = UNION {{<< <<i, k>> >> \o r : r \in R[k + 1]} : k \in S}
  BY DEF FirstSpec
<1>5. S = IF CharAt(j) \in Conversions THEN {j} ELSE {}
  <2>1. CharAt(j) \in Conversions => j \in S
    BY ScanIsSpec
  <2>2. \A k \in S : k = j /\ CharAt(k) \in Conversions
    BY SpecIsScan
  <2> HIDE DEF S, j
  <2> QED
    BY <2>1, <2>2
<1>6. CharAt(j) \in Conversions => j \in (i + 1)..Len(fmt)
  BY ScanIsSpec
<1> HIDE DEF S, R
<1>7. CASE Escaped(i, j)
  <2>1. CharAt(j) \notin Conversions /\ j = i + 1 /\ j \in Chars
    <3>1. CharAt(j) = "%" /\ j = i + 1
      BY <1>7 DEF Escaped
    <3>2. j \in Int /\ CharAt(j) # NUL
      BY <3>1, SetsWithoutEnd DEF Chars
    <3> QED
      BY <3>1, <3>2, CharAtEnd DEF Conversions
  <2>2. FirstSpec(R, i) = {}
    BY <1>4, <1>5, <2>1
  <2>3. j + 1 = i + 2
    BY <2>1 DEF Chars
  <2> QED
    BY <1>2, <1>3, <1>7, <2>1, <2>2, <2>3 DEF R
<1>8. CASE ~ Escaped(i, j)
  <2>1. R[i] = FirstSpec(R, i)
    BY <1>2, <1>3, <1>8
  <2>2. CharAt(j) \in Conversions => R[i] = {<< <<i, j>> >> \o r : r \in R[j + 1]}
    <3> DEFINE With(k) == {<< <<i, k>> >> \o r : r \in R[k + 1]}
    <3>1. FirstSpec(R, i) = UNION {With(k) : k \in S}
      BY <1>4
    <3> HIDE DEF j, With
    <3>2. CharAt(j) \in Conversions => FirstSpec(R, i) = With(j)
      BY <1>5, <3>1
    <3> QED
      BY <2>1, <3>2 DEF With
  <2>3. CharAt(j) \notin Conversions => R[i] = {}
    BY <1>4, <1>5, <2>1
  <2> QED
    BY <1>6, <1>8, <2>2, <2>3 DEF R
<1> QED
  BY <1>7, <1>8

-----------------------------------------------------------------------------
(* The parser.                                                              *)

\* The inductive invariant: to read the string is to read what is left of it
\* after the specs found, and where the parser throws there is no way to.
ParserInv ==
    /\ CString
    /\ TypeOK
    /\ Readings = {specs \o r : r \in ReadingsFrom[s]}
    /\ status = "done" => s = Len(fmt) + 1
    /\ status = "thrown" => ReadingsFrom[s] = {}

\* At a position with a '%' or other text, the string has not ended.
LEMMA HasMore ==
    ASSUME ParserInv, CharAt(s) # NUL
    PROVE  s \in Chars /\ s + 1 \in Ends
<1>1. CString /\ s \in Ends
  BY DEF ParserInv, TypeOK, Ends
<1>2. Len(fmt) \in Nat /\ (s \in Int => s \in Chars)
  BY <1>1, CharAtEnd
<1> QED
  BY <1>1, <1>2 DEF Ends, Chars

LEMMA InitInv ==
    Init => ParserInv
<1> SUFFICES ASSUME Init PROVE ParserInv
  OBVIOUS
<1>1. CString
  BY FormatsAssumption DEF Init, CString
<1>2. Len(fmt) \in Nat
  BY <1>1, CharAtEnd
<1>3. fmt \in Seq(STRING)
  <2>1. \A i \in 1..Len(fmt) : fmt[i] \in STRING
    BY <1>1, ElementOfSeq DEF CString
  <2> QED
    BY <1>1, <1>2, <2>1 DEF CString
<1>4. specs \in SpecLists
  BY EmptySeq DEF Init, SpecLists
<1>5. TypeOK
  BY <1>2, <1>3, <1>4 DEF TypeOK, Init, SpecLists, Chars
<1>6. \A r \in ReadingsFrom[1] : << >> \o r = r
  <2>1. ReadingsFrom[1] \in SUBSET SpecLists
    BY <1>1, <1>2, ReadingsStep DEF Ends
  <2> QED
    BY <2>1, ConcatEmptySeq DEF SpecLists
<1>7. Readings = {specs \o r : r \in ReadingsFrom[s]}
  BY <1>6 DEF Readings, Init
<1> QED
  BY <1>1, <1>5, <1>7 DEF ParserInv, Init

\* Readings depend on the string alone.
LEMMA SameReadings ==
    ASSUME fmt' = fmt
    PROVE  /\ Readings' = Readings /\ (CString)' = CString
           /\ \A i : (ReadingsFrom[i])' = ReadingsFrom[i]
  BY DEF Readings, ReadingsFrom, CString, CharAt, IsSpec, IsNumber, IsLength, AllIn

LEMMA TextStep ==
    ASSUME ParserInv, Text
    PROVE  ParserInv'
<1>1. s \in Chars /\ s + 1 \in Ends /\ CharAt(s) # "%" /\ CString
  BY HasMore DEF Text, ParserInv
<1>2. ReadingsFrom[s] = ReadingsFrom[s + 1]
  BY <1>1, ReadingsOfText
<1>3. fmt' = fmt /\ s' = s + 1 /\ specs' = specs /\ status' = status /\ status = "parsing"
  BY DEF Text
<1>4. TypeOK'
  BY <1>1, <1>3 DEF ParserInv, TypeOK, Ends
<1>5. Readings' = {specs \o r : r \in ReadingsFrom[s + 1]}
  BY <1>2, <1>3, SameReadings DEF ParserInv
<1>6. (ReadingsFrom[s])' = ReadingsFrom[s + 1]
  BY <1>3, SameReadings
<1> QED
  BY <1>1, <1>3, <1>4, <1>5, <1>6, SameReadings DEF ParserInv

LEMMA SpecStep ==
    ASSUME ParserInv, Spec1
    PROVE  ParserInv'
<1> DEFINE j == ConversionAt(s)
           R == ReadingsFrom
<1>1. /\ CString /\ TypeOK /\ Readings = {specs \o r : r \in R[s]}
      /\ s \in Chars /\ CharAt(s) = "%" /\ status = "parsing" /\ fmt' = fmt
  BY HasMore, SetsWithoutEnd DEF Spec1, ParserInv
<1>2. Len(fmt) \in Nat
  BY <1>1, CharAtEnd
<1>3. /\ (CString)' = CString /\ Readings' = Readings
      /\ \A i : (ReadingsFrom[i])' = R[i]
  BY <1>1, SameReadings
<1>4. CASE Escaped(s, j) /\ s' = j + 1 /\ UNCHANGED <<specs, status>>
  <2>1. j \in Chars /\ R[s] = R[j + 1]
    BY <1>1, <1>4, ReadingsOfPercent
  <2>2. TypeOK'
    BY <1>1, <1>2, <1>4, <2>1 DEF TypeOK, Chars
  <2>3. (ReadingsFrom[s])' = R[j + 1]
    BY <1>3, <1>4
  <2> HIDE DEF R, j
  <2> QED
    BY <1>1, <1>3, <1>4, <2>1, <2>2, <2>3 DEF ParserInv
<1>5. CASE /\ ~ Escaped(s, j) /\ CharAt(j) \in Conversions
           /\ specs' = Append(specs, <<s, j>>)
           /\ s' = j + 1
           /\ UNCHANGED status
  <2> DEFINE x == <<s, j>>
  <2>1. j \in (s + 1)..Len(fmt) /\ R[s] = {<< x >> \o r : r \in R[j + 1]}
    BY <1>1, <1>5, ReadingsOfPercent
  <2>2. s \in Ends /\ j \in Chars /\ j + 1 \in Ends
    BY <1>1, <1>2, <2>1 DEF Chars, Ends
  <2>3. x \in Chars \X Chars /\ specs \in SpecLists
    BY <1>1, <2>2 DEF TypeOK, SpecLists, Chars
  <2>4. R[j + 1] \in SUBSET SpecLists
    BY <1>1, <2>2, ReadingsStep
  <2>5. (ReadingsFrom[s])' = R[j + 1]
    BY <1>3, <1>5
  <2> HIDE DEF R, x
  <2>6. << x >> \in SpecLists /\ Append(specs, x) = specs \o << x >> /\ Append(specs, x) \in SpecLists
    BY <2>3, InFront, AppendIsConcat, AppendProperties DEF SpecLists
  <2>7. \A r \in R[j + 1] : specs \o (<< x >> \o r) = Append(specs, x) \o r
    BY <2>3, <2>4, <2>6, ConcatAssociative DEF SpecLists
  <2>8. specs' = Append(specs, x)
    BY <1>5 DEF x
  <2>9. TypeOK'
    BY <1>1, <1>5, <2>2, <2>6, <2>8 DEF TypeOK, Chars, Ends, SpecLists
  <2> HIDE DEF j
  <2>10. Readings = {Append(specs, x) \o r : r \in R[j + 1]}
    <3>1. ASSUME NEW y \in Readings PROVE \E r \in R[j + 1] : y = Append(specs, x) \o r
      <4>1. PICK t \in R[s] : y = specs \o t
        BY <1>1
      <4>2. PICK r \in R[j + 1] : t = << x >> \o r
        BY <2>1
      <4> QED
        BY <2>7, <4>1, <4>2
    <3>2. ASSUME NEW r \in R[j + 1] PROVE Append(specs, x) \o r \in Readings
      <4>1. << x >> \o r \in R[s]
        BY <2>1
      <4> QED
        BY <1>1, <2>7, <4>1
    <3> QED
      BY <3>1, <3>2
  <2> QED
    BY <1>1, <1>3, <1>5, <2>5, <2>8, <2>9, <2>10 DEF ParserInv
<1>6. CASE /\ ~ Escaped(s, j) /\ CharAt(j) \notin Conversions
           /\ status' = "thrown"
           /\ UNCHANGED <<s, specs>>
  <2>1. R[s] = {}
    BY <1>1, <1>6, ReadingsOfPercent
  <2>2. TypeOK'
    BY <1>1, <1>6 DEF TypeOK
  <2>3. (ReadingsFrom[s])' = R[s]
    BY <1>3, <1>6
  <2> HIDE DEF R, j
  <2> QED
    BY <1>1, <1>3, <1>6, <2>1, <2>2, <2>3 DEF ParserInv
<1> QED
  BY <1>4, <1>5, <1>6 DEF Spec1

LEMMA ReturnStep ==
    ASSUME ParserInv, Return
    PROVE  ParserInv'
<1>1. /\ CString /\ TypeOK /\ Readings = {specs \o r : r \in ReadingsFrom[s]}
      /\ CharAt(s) = NUL /\ UNCHANGED <<fmt, s, specs>> /\ status' = "done"
  BY DEF ParserInv, Return
<1>2. s = Len(fmt) + 1
  BY <1>1, CharAtEnd DEF TypeOK, Chars
<1>3. TypeOK'
  BY <1>1 DEF TypeOK
<1>4. (ReadingsFrom[s])' = ReadingsFrom[s] /\ Readings' = Readings /\ (CString)'
  BY <1>1, SameReadings
<1> QED
  BY <1>1, <1>2, <1>3, <1>4 DEF ParserInv

LEMMA StutterStep ==
    ASSUME ParserInv, UNCHANGED vars
    PROVE  ParserInv'
<1>1. UNCHANGED <<fmt, s, specs, status>>
  BY DEF vars
<1>2. (ReadingsFrom[s])' = ReadingsFrom[s] /\ Readings' = Readings /\ (CString)' = CString
  BY <1>1, SameReadings
<1>3. TypeOK'
  BY <1>1 DEF ParserInv, TypeOK
<1> QED
  BY <1>1, <1>2, <1>3 DEF ParserInv

\* The readings of the string are those of what is left behind the specs found,
\* in every reachable state.
THEOREM Scan == Spec => []ParserInv
<1>1. Init => ParserInv
  BY InitInv
<1>2. ParserInv /\ [Next]_vars => ParserInv'
  BY TextStep, SpecStep, ReturnStep, StutterStep DEF Next
<1> QED
  BY <1>1, <1>2, PTL DEF Spec

\* The parser stays within the string, and so do the specs it finds.
THEOREM Types == Spec => []TypeOK
<1>1. ParserInv => TypeOK
  BY DEF ParserInv
<1> QED
  BY <1>1, Scan, PTL

\* When parse() returns, its specs are the only reading of the string.
THEOREM Finding == Spec => []FindsSpecs
<1>1. ParserInv => FindsSpecs
  <2> SUFFICES ASSUME ParserInv, status = "done" PROVE Readings = {specs}
    BY DEF FindsSpecs
  <2>1. ReadingsFrom[s] = {<< >>} /\ Readings = {specs \o r : r \in ReadingsFrom[s]}
    BY ReadingsOfNothing DEF ParserInv
  <2>2. specs \o << >> = specs
    BY ConcatEmptySeq DEF ParserInv, TypeOK
  <2> QED
    BY <2>1, <2>2
<1> QED
  BY <1>1, Scan, PTL

\* parse() throws only at a string that cannot be read as a format string.
THEOREM Throwing == Spec => []ThrowsOnlyAtBadFormat
<1>1. ParserInv => ThrowsOnlyAtBadFormat
  BY DEF ParserInv, ThrowsOnlyAtBadFormat
<1> QED
  BY <1>1, Scan, PTL

=============================================================================
