------------------------- MODULE AttrParserProofs -------------------------
(***************************************************************************)
(* AttrParser finds the comment in front of a logging statement and what   *)
(* it says, in a source file of any length: the backward scan of           *)
(* src/logging/attr_parser.cpp ends where a compiler, which reads forwards,*)
(* sees the comment begin.                                                 *)
(***************************************************************************)
EXTENDS AttrParser, SequenceTheorems, FiniteSetTheorems, WellFoundedInduction, TLAPS

\* The source of a state.
Source == src \in Seq(Seq(Token)) /\ src # << >>

Modes == {"code", "block", "line"}
TextLine == [row : DOMAIN src, text : Seq(Token)]

-----------------------------------------------------------------------------
(* Rows, tokens and recursion over them.                                    *)

\* Rows are numbered from 1, and so are the tokens of a row.
LEMMA SourceIs ==
    ASSUME Source
    PROVE  /\ Len(src) \in Nat \ {0} /\ DOMAIN src = 1..Len(src)
           /\ \A i \in DOMAIN src : /\ src[i] \in Seq(Token) /\ Len(src[i]) \in Nat
                                    /\ DOMAIN src[i] = 1..Len(src[i])
                                    /\ \A j \in 1..Len(src[i]) : src[i][j] \in Token
                                    /\ src[i] = << >> <=> Len(src[i]) = 0
<1>1. DOMAIN src = 1..Len(src) /\ Len(src) \in Nat /\ Len(src) # 0
  BY EmptySeq, LenProperties DEF Source
<1>2. \A i \in DOMAIN src : src[i] \in Seq(Token)
  BY <1>1, ElementOfSeq DEF Source
<1>3. \A i \in DOMAIN src : /\ Len(src[i]) \in Nat /\ DOMAIN src[i] = 1..Len(src[i])
                            /\ \A j \in 1..Len(src[i]) : src[i][j] \in Token
  BY <1>2, LenProperties, ElementOfSeq
<1>4. \A i \in DOMAIN src : src[i] = << >> <=> Len(src[i]) = 0
  BY <1>2, EmptySeq, LenProperties
<1> QED
  BY <1>1, <1>2, <1>3, <1>4

\* A set of numbers has a first one.
LEMMA FirstOf ==
    ASSUME NEW S \in SUBSET Nat, S # {}
    PROVE  \E i \in S : \A j \in S : i <= j
<1>1. PICK i \in S : \A j \in S : ~ (<<j, i>> \in OpToRel(<, Nat))
  BY NatLessThanWellFounded, WFMin
<1>2. ASSUME NEW j \in S, ~ (i <= j) PROVE FALSE
  <2>1. j \in Nat /\ i \in Nat /\ j < i
    BY <1>2
  <2>2. <<j, i>> \in OpToRel(<, Nat)
    BY <2>1, Zenon DEF OpToRel
  <2> QED
    BY <1>1, <2>2
<1> QED
  BY <1>2

\* And a last one, if none is greater than n.
LEMMA LastOf ==
    ASSUME NEW n \in Nat, NEW S \in SUBSET (0..n), S # {}
    PROVE  \E i \in S : \A j \in S : j <= i
<1> DEFINE T == {n - i : i \in S}
<1>1. \A i \in S : n - i \in Nat
  OBVIOUS
<1>2. T \in SUBSET Nat /\ T # {}
  BY <1>1
<1> HIDE DEF T
<1>3. PICK t \in T : \A k \in T : t <= k
  BY <1>2, FirstOf
<1>4. PICK i \in S : t = n - i
  BY <1>3 DEF T
<1>5. \A j \in S : t <= n - j
  BY <1>3 DEF T
<1> QED
  BY <1>4, <1>5

\* A function on 0..n with a given first value and a step G to each next one.
StepOn(G, n, V) == G \in [(1..n) \X V -> V]
Follows(f, G, n, V, a) ==
    f \in [0..n -> V] /\ f[0] = a /\ \A i \in 1..n : f[i] = G[<<i, f[i - 1]>>]

\* There is one.
LEMMA RecursionExists ==
    ASSUME NEW n \in Nat, NEW V, NEW a \in V, NEW G, StepOn(G, n, V)
    PROVE  \E f : Follows(f, G, n, V, a)
<1> USE DEF StepOn, Follows
<1> DEFINE Part(m) == \E f \in [0..n -> V] :
                         f[0] = a /\ \A i \in 1..n : i <= m => f[i] = G[<<i, f[i - 1]>>]
           T == {m \in 0..n : ~ Part(m)}
<1>1. T = {}
  <2> SUFFICES ASSUME T # {} PROVE FALSE
    OBVIOUS
  <2>1. PICK m \in T : \A k \in T : m <= k
    <3>1. T \in SUBSET Nat
      OBVIOUS
    <3> HIDE DEF T
    <3> QED
      BY <3>1, FirstOf
  <2>2. m \in 0..n /\ ~ Part(m)
    OBVIOUS
  <2>3. m # 0
    <3>1. [i \in 0..n |-> a] \in [0..n -> V] /\ [i \in 0..n |-> a][0] = a
      OBVIOUS
    <3>2. \A i \in 1..n : ~ (i <= 0)
      OBVIOUS
    <3>3. Part(0)
      BY <3>1, <3>2
    <3> QED
      BY <2>2, <3>3
  <2>4. m \in 1..n /\ m - 1 \in 0..n /\ ~ (m <= m - 1)
    BY <2>2, <2>3
  <2>5. Part(m - 1)
    BY <2>1, <2>4
  <2>6. PICK f \in [0..n -> V] : f[0] = a /\ \A i \in 1..n : i <= m - 1 => f[i] = G[<<i, f[i - 1]>>]
    BY <2>5
  <2> DEFINE g == [f EXCEPT ![m] = G[<<m, f[m - 1]>>]]
  <2>7. G[<<m, f[m - 1]>>] \in V
    BY <2>4
  <2>8. g \in [0..n -> V] /\ g[m] = G[<<m, f[m - 1]>>] /\ \A i \in 0..n : i # m => g[i] = f[i]
    BY <2>4, <2>7
  <2> HIDE DEF g
  <2>9. ASSUME NEW i \in 1..n, i <= m PROVE g[i] = G[<<i, g[i - 1]>>]
    <3>1. i - 1 \in 0..n /\ i - 1 # m /\ i \in 0..n
      BY <2>4, <2>9
    <3>2. g[i - 1] = f[i - 1]
      BY <2>8, <3>1
    <3>3. CASE i = m
      BY <2>8, <3>2, <3>3
    <3>4. CASE i # m
      <4>1. i <= m - 1
        BY <2>4, <2>9, <3>4
      <4> QED
        BY <2>6, <2>8, <3>1, <3>2, <3>4, <4>1
    <3> QED
      BY <3>3, <3>4
  <2>10. g[0] = a
    BY <2>4, <2>6, <2>8
  <2>11. Part(m)
    BY <2>8, <2>9, <2>10
  <2> QED
    BY <2>2, <2>11
<1>2. Part(n)
  <2>1. n \in 0..n
    OBVIOUS
  <2> HIDE DEF Part
  <2> QED
    BY <1>1, <2>1
<1>3. \A i \in 1..n : i <= n
  OBVIOUS
<1> QED
  BY <1>2, <1>3

-----------------------------------------------------------------------------
(* What the definitions of ModesFrom and RowStart say.                      *)

LEMMA AfterIsMode ==
    ASSUME NEW m \in Modes, NEW t
    PROVE  After(m, t) \in Modes
  BY DEF After, Modes

LEMMA ModesFromIs ==
    ASSUME Source, NEW i \in DOMAIN src, NEW m \in Modes
    PROVE  /\ ModesFrom(i, m)[1] = m
           /\ \A j \in 1..Len(src[i]) :
                 ModesFrom(i, m)[j + 1] = After(ModesFrom(i, m)[j], src[i][j])
           /\ \A j \in 1..(Len(src[i]) + 1) : ModesFrom(i, m)[j] \in Modes
<1> DEFINE n == Len(src[i])
           G == [x \in (1..n) \X Modes |-> After(x[2], src[i][x[1]])]
           M == CHOOSE g : g = [j \in 1..(n + 1) |-> IF j = 1 THEN m ELSE After(g[j - 1], src[i][j - 1])]
<1>1. n \in Nat
  BY SourceIs
<1>2. ModesFrom(i, m) = M
  BY DEF ModesFrom
<1> HIDE DEF n
<1>3. G \in [(1..n) \X Modes -> Modes]
  BY AfterIsMode
<1>4. PICK f \in [0..n -> Modes] : f[0] = m /\ \A j \in 1..n : f[j] = G[<<j, f[j - 1]>>]
  <2>1. StepOn(G, n, Modes)
    BY <1>3 DEF StepOn
  <2> HIDE DEF G
  <2>2. PICK f : Follows(f, G, n, Modes, m)
    BY <1>1, <2>1, RecursionExists
  <2> QED
    BY <2>2 DEF Follows
<1>5. \A j \in 1..n : f[j] = After(f[j - 1], src[i][j])
  <2> TAKE j \in 1..n
  <2>1. f[j - 1] \in Modes
    BY <1>1, <1>4
  <2> QED
    BY <1>4, <2>1
<1> DEFINE h == [j \in 1..(n + 1) |-> f[j - 1]]
<1>6. h = [j \in 1..(n + 1) |-> IF j = 1 THEN m ELSE After(h[j - 1], src[i][j - 1])]
  <2>1. ASSUME NEW j \in 1..(n + 1), j # 1 PROVE f[j - 1] = After(h[j - 1], src[i][j - 1])
    <3>1. j - 1 \in 1..n /\ j - 1 \in 1..(n + 1) /\ h[j - 1] = f[(j - 1) - 1]
      BY <1>1, <2>1
    <3> QED
      BY <1>5, <3>1
  <2>2. \A j \in 1..(n + 1) : j = 1 => f[j - 1] = m
    BY <1>4
  <2> QED
    BY <2>1, <2>2
<1> HIDE DEF h
<1>7. M = [j \in 1..(n + 1) |-> IF j = 1 THEN m ELSE After(M[j - 1], src[i][j - 1])]
  BY <1>6
<1> HIDE DEF M
<1>8. M[1] = m
  BY <1>1, <1>7
<1>9. ASSUME NEW j \in 1..n PROVE M[j + 1] = After(M[j], src[i][j])
  <2>1. j + 1 \in 1..(n + 1) /\ j + 1 # 1 /\ (j + 1) - 1 = j
    BY <1>1
  <2>2. M[j + 1] = After(M[(j + 1) - 1], src[i][(j + 1) - 1])
    BY <1>7, <2>1, Zenon
  <2> QED
    BY <2>1, <2>2
<1> DEFINE T == {j \in 1..(n + 1) : M[j] \notin Modes}
<1>10. T = {}
  <2> SUFFICES ASSUME T # {} PROVE FALSE
    OBVIOUS
  <2>1. PICK j \in T : \A k \in T : j <= k
    <3>1. T \in SUBSET Nat
      OBVIOUS
    <3> HIDE DEF T
    <3> QED
      BY <3>1, FirstOf
  <2>2. j \in 1..(n + 1) /\ M[j] \notin Modes /\ j # 1
    BY <1>8
  <2>3. j - 1 \in 1..n /\ M[j - 1] \in Modes /\ (j - 1) + 1 = j
    BY <1>1, <2>1, <2>2
  <2>4. M[(j - 1) + 1] \in Modes
    BY <1>9, <2>3, AfterIsMode
  <2> QED
    BY <2>2, <2>3, <2>4
<1> QED
  BY <1>2, <1>8, <1>9, <1>10 DEF n

\* A row starts inside a block comment or in code.
RowModes == {"code", "block"}
NextRow(m) == IF m = "line" THEN "code" ELSE m

LEMMA RowStartIs ==
    ASSUME Source
    PROVE  /\ RowStart[1] = "code"
           /\ \A i \in DOMAIN src : RowStart[i] \in RowModes
           /\ \A i \in 1..(Len(src) - 1) :
                 RowStart[i + 1] = NextRow(ModesFrom(i, RowStart[i])[Len(src[i]) + 1])
<1> DEFINE n == Len(src)
           Step(i, v) == NextRow(ModesFrom(i, v)[Len(src[i]) + 1])
           G == [x \in (1..(n - 1)) \X RowModes |-> Step(x[1], x[2])]
           R == CHOOSE g : g = [i \in DOMAIN src |-> IF i = 1 THEN "code" ELSE Step(i - 1, g[i - 1])]
<1>1. n \in Nat /\ n # 0 /\ DOMAIN src = 1..n
  BY SourceIs
<1>2. RowStart = R
  BY DEF RowStart, NextRow
<1>3. ASSUME NEW i \in 1..n, NEW v \in RowModes PROVE Step(i, v) \in RowModes
  <2>1. Len(src[i]) \in Nat /\ v \in Modes
    BY <1>1, SourceIs DEF RowModes, Modes
  <2>2. ModesFrom(i, v)[Len(src[i]) + 1] \in Modes
    BY <1>1, <2>1, ModesFromIs
  <2> QED
    BY <2>2 DEF NextRow, Modes, RowModes
<1> HIDE DEF n, Step
<1>4. G \in [(1..(n - 1)) \X RowModes -> RowModes]
  BY <1>1, <1>3
<1>5. "code" \in RowModes /\ n - 1 \in Nat
  BY <1>1 DEF RowModes
<1>6. PICK f \in [0..(n - 1) -> RowModes] :
         f[0] = "code" /\ \A i \in 1..(n - 1) : f[i] = G[<<i, f[i - 1]>>]
  <2>1. StepOn(G, n - 1, RowModes)
    BY <1>4 DEF StepOn
  <2> HIDE DEF G
  <2>2. PICK f : Follows(f, G, n - 1, RowModes, "code")
    BY <1>5, <2>1, RecursionExists
  <2> QED
    BY <2>2 DEF Follows
<1>7. \A i \in 1..(n - 1) : f[i] = Step(i, f[i - 1])
  <2> TAKE i \in 1..(n - 1)
  <2>1. f[i - 1] \in RowModes
    BY <1>1, <1>6
  <2> QED
    BY <1>6, <2>1
<1> DEFINE h == [i \in DOMAIN src |-> f[i - 1]]
<1>8. h = [i \in DOMAIN src |-> IF i = 1 THEN "code" ELSE Step(i - 1, h[i - 1])]
  <2>1. ASSUME NEW i \in DOMAIN src, i # 1 PROVE f[i - 1] = Step(i - 1, h[i - 1])
    <3>1. i - 1 \in 1..(n - 1) /\ i - 1 \in DOMAIN src
      BY <1>1, <2>1
    <3>2. h[i - 1] = f[(i - 1) - 1]
      BY <3>1
    <3> QED
      BY <1>7, <3>1, <3>2
  <2>2. \A i \in DOMAIN src : i = 1 => f[i - 1] = "code"
    BY <1>6
  <2> QED
    BY <2>1, <2>2
<1> HIDE DEF h
<1>9. R = [i \in DOMAIN src |-> IF i = 1 THEN "code" ELSE Step(i - 1, R[i - 1])]
  BY <1>8
<1> HIDE DEF R
<1>10. R[1] = "code"
  BY <1>1, <1>9
<1>11. ASSUME NEW i \in 1..(n - 1) PROVE R[i + 1] = Step(i, R[i])
  <2>1. i + 1 \in DOMAIN src /\ i + 1 # 1 /\ (i + 1) - 1 = i
    BY <1>1
  <2>2. R[i + 1] = Step((i + 1) - 1, R[(i + 1) - 1])
    BY <1>9, <2>1, Zenon
  <2> QED
    BY <2>1, <2>2
<1> DEFINE T == {i \in DOMAIN src : R[i] \notin RowModes}
<1>12. T = {}
  <2> SUFFICES ASSUME T # {} PROVE FALSE
    OBVIOUS
  <2>1. PICK i \in T : \A k \in T : i <= k
    <3>1. T \in SUBSET Nat
      BY <1>1
    <3> HIDE DEF T
    <3> QED
      BY <3>1, FirstOf
  <2>2. i \in DOMAIN src /\ R[i] \notin RowModes /\ i # 1
    BY <1>5, <1>10
  <2>3. i - 1 \in 1..(n - 1) /\ R[i - 1] \in RowModes /\ (i - 1) + 1 = i /\ i - 1 \in 1..n
    BY <1>1, <2>1, <2>2
  <2>4. R[(i - 1) + 1] \in RowModes
    BY <1>3, <1>11, <2>3
  <2> QED
    BY <2>2, <2>3, <2>4
<1> QED
  BY <1>2, <1>10, <1>11, <1>12 DEF n, Step

\* Mode, from a token to the next one and from a row to the next one.
LEMMA ModeIs ==
    ASSUME Source
    PROVE  /\ Mode(1, 1) = "code"
           /\ \A i \in DOMAIN src :
                 /\ Mode(i, 1) = RowStart[i] /\ RowStart[i] \in RowModes
                 /\ \A j \in 1..(Len(src[i]) + 1) : Mode(i, j) \in Modes
                 /\ \A j \in 1..Len(src[i]) : Mode(i, j + 1) = After(Mode(i, j), src[i][j])
           /\ \A i \in 1..(Len(src) - 1) : RowStart[i + 1] = NextRow(Mode(i, Len(src[i]) + 1))
<1>1. 1 \in DOMAIN src
  BY SourceIs
<1>2. \A i \in DOMAIN src : RowStart[i] \in RowModes /\ RowStart[i] \in Modes
  BY RowStartIs DEF RowModes, Modes
<1>3. \A i \in DOMAIN src : /\ Mode(i, 1) = RowStart[i]
                            /\ \A j \in 1..(Len(src[i]) + 1) : Mode(i, j) \in Modes
                            /\ \A j \in 1..Len(src[i]) : Mode(i, j + 1) = After(Mode(i, j), src[i][j])
  BY <1>2, ModesFromIs DEF Mode
<1> QED
  BY <1>1, <1>2, <1>3, RowStartIs DEF Mode

\* WholeLines, from a row to the next one.
Entry(i) == [row |-> i, text |-> Tail(src[i])]

LEMMA EntryType ==
    ASSUME Source, NEW i \in DOMAIN src, src[i] # << >>
    PROVE  Entry(i) \in TextLine
<1>1. Tail(src[i]) \in Seq(Token)
  BY SourceIs, HeadTailProperties
<1> QED
  BY <1>1 DEF Entry, TextLine

LEMMA WholeLinesIs ==
    ASSUME Source
    PROVE  /\ WholeLines[0] = << >>
           /\ \A i \in 1..Len(src) :
                 WholeLines[i] = IF i \in Run THEN Append(WholeLines[i - 1], Entry(i))
                                 ELSE WholeLines[i - 1]
           /\ \A i \in 0..Len(src) : WholeLines[i] \in Seq(TextLine)
<1> DEFINE n == Len(src)
           V == Seq(TextLine)
           Step(i, v) == IF i \in Run THEN Append(v, Entry(i)) ELSE v
           G == [x \in (1..n) \X V |-> Step(x[1], x[2])]
           W == CHOOSE g : g = [i \in 0..n |-> IF i = 0 THEN << >> ELSE Step(i, g[i - 1])]
<1>1. n \in Nat /\ DOMAIN src = 1..n
  BY SourceIs
<1>2. WholeLines = W
  BY DEF WholeLines, Entry
<1>3. ASSUME NEW i \in 1..n, NEW v \in V PROVE Step(i, v) \in V
  <2>1. i \in Run => Entry(i) \in TextLine
    BY <1>1, EntryType DEF Run, Filled
  <2> QED
    BY <2>1, AppendProperties
<1>4. << >> \in V
  BY EmptySeq
<1> HIDE DEF n, Step, V
<1>5. StepOn(G, n, V)
  BY <1>3 DEF StepOn
<1>6. PICK f : Follows(f, G, n, V, << >>)
  <2> HIDE DEF G
  <2> QED
    BY <1>1, <1>4, <1>5, RecursionExists
<1>7. f \in [0..n -> V] /\ f[0] = << >> /\ \A i \in 1..n : f[i] = G[<<i, f[i - 1]>>]
  BY <1>6 DEF Follows
<1>8. \A i \in 1..n : f[i] = Step(i, f[i - 1])
  <2> TAKE i \in 1..n
  <2>1. f[i - 1] \in V
    BY <1>1, <1>7
  <2> QED
    BY <1>7, <2>1
<1>9. f = [i \in 0..n |-> IF i = 0 THEN << >> ELSE Step(i, f[i - 1])]
  <2>1. \A i \in 0..n : i # 0 => i \in 1..n
    BY <1>1
  <2>2. \A i \in 0..n : f[i] = IF i = 0 THEN << >> ELSE Step(i, f[i - 1])
    BY <1>7, <1>8, <2>1
  <2> HIDE DEF G
  <2> QED
    BY <1>7, <2>2
<1>10. W = [i \in 0..n |-> IF i = 0 THEN << >> ELSE Step(i, W[i - 1])]
  BY <1>9
<1> HIDE DEF W, G
<1>11. W[0] = << >>
  BY <1>1, <1>10
<1>12. ASSUME NEW i \in 1..n PROVE W[i] = Step(i, W[i - 1])
  <2>1. i \in 0..n /\ i # 0
    BY <1>1
  <2> QED
    BY <1>10, <2>1, Zenon
<1> DEFINE T == {i \in 0..n : W[i] \notin V}
<1>13. T = {}
  <2> SUFFICES ASSUME T # {} PROVE FALSE
    OBVIOUS
  <2>1. PICK i \in T : \A k \in T : i <= k
    <3>1. T \in SUBSET Nat
      BY <1>1
    <3> HIDE DEF T
    <3> QED
      BY <3>1, FirstOf
  <2>2. i \in 0..n /\ W[i] \notin V /\ i # 0
    BY <1>4, <1>11
  <2>3. i \in 1..n /\ W[i - 1] \in V
    BY <1>1, <2>1, <2>2
  <2> QED
    BY <1>3, <1>12, <2>2, <2>3
<1> QED
  BY <1>2, <1>11, <1>12, <1>13 DEF n, Step, V

-----------------------------------------------------------------------------
(* What tokens tell in a clean and legal source.                            *)

CleanSource == Source /\ Legal /\ Clean

\* Every end of a block comment ends one, every start starts one, and "//" is
\* never inside a block comment.
LEMMA TokenMode ==
    ASSUME CleanSource, NEW i \in DOMAIN src, NEW j \in 1..Len(src[i])
    PROVE  /\ src[i][j] = "*/" => Mode(i, j) = "block"
           /\ src[i][j] = "/*" => Mode(i, j) = "code"
           /\ src[i][j] = "//" => Mode(i, j) # "block"
<1>1. <<i, j>> \in Positions
  BY SourceIs DEF CleanSource, Positions
<1>2. /\ Mode(i, j) = "code" => src[i][j] # "*/"
      /\ Mode(i, j) = "block" => src[i][j] \notin {"/*", "//"}
      /\ Mode(i, j) = "line" => src[i][j] \notin {"/*", "*/"}
  <2>1. <<i, j>>[1] = i /\ <<i, j>>[2] = j
    OBVIOUS
  <2> QED
    BY <1>1, <2>1, Zenon DEF CleanSource, Legal, Clean
<1>3. Mode(i, j) \in Modes
  BY ModeIs, SourceIs DEF CleanSource
<1> QED
  BY <1>2, <1>3 DEF Modes

\* A row that starts with "//" is a whole-line comment.
LEMMA SlashesFirst ==
    ASSUME CleanSource, NEW i \in DOMAIN src
    PROVE  StartsWith(src[i], "//") <=> WholeLineComment(i)
<1>1. StartsWith(src[i], "//") => 1 \in 1..Len(src[i]) /\ src[i][1] = "//"
  BY SourceIs DEF CleanSource, StartsWith
<1>2. StartsWith(src[i], "//") => Mode(i, 1) # "block"
  BY <1>1, TokenMode
<1>3. Mode(i, 1) = RowStart[i] /\ RowStart[i] \in RowModes
  BY ModeIs DEF CleanSource
<1> QED
  BY <1>2, <1>3 DEF WholeLineComment, RowModes

\* And it is one to its end.
LEMMA LineToEnd ==
    ASSUME Source, NEW i \in DOMAIN src, WholeLineComment(i), NEW j \in 2..(Len(src[i]) + 1)
    PROVE  Mode(i, j) = "line"
<1> DEFINE T == {k \in 2..(Len(src[i]) + 1) : Mode(i, k) # "line"}
<1>1. Len(src[i]) \in Nat /\ src[i] # << >> /\ src[i][1] = "//" /\ Len(src[i]) # 0
  BY SourceIs DEF WholeLineComment, StartsWith
<1>2. Mode(i, 1) = "code"
  BY ModeIs DEF WholeLineComment
<1>3. \A k \in 1..Len(src[i]) : Mode(i, k + 1) = After(Mode(i, k), src[i][k])
  BY ModeIs
<1>4. Mode(i, 2) = "line"
  <2>1. Mode(i, 1 + 1) = After("code", "//")
    BY <1>1, <1>2, <1>3
  <2> QED
    BY <2>1 DEF After
<1>5. T = {}
  <2> SUFFICES ASSUME T # {} PROVE FALSE
    OBVIOUS
  <2>1. PICK k \in T : \A l \in T : k <= l
    <3>1. T \in SUBSET Nat
      BY <1>1
    <3> HIDE DEF T
    <3> QED
      BY <3>1, FirstOf
  <2>2. k \in 2..(Len(src[i]) + 1) /\ Mode(i, k) # "line" /\ k # 2
    BY <1>4
  <2>3. k - 1 \in 1..Len(src[i]) /\ k - 1 \in 2..(Len(src[i]) + 1) /\ (k - 1) + 1 = k
    BY <1>1, <2>2
  <2>4. Mode(i, k - 1) = "line"
    BY <2>1, <2>3
  <2>5. Mode(i, (k - 1) + 1) = After("line", src[i][k - 1])
    BY <1>3, <2>3, <2>4
  <2> QED
    BY <2>2, <2>3, <2>5 DEF After
<1> QED
  BY <1>5

\* A row that is in a block comment somewhere, with no start of one before that,
\* starts in it.
LEMMA BlockBefore ==
    ASSUME Source, NEW i \in DOMAIN src, NEW j \in 1..(Len(src[i]) + 1), Mode(i, j) = "block",
           \A k \in 1..(j - 1) : src[i][k] # "/*"
    PROVE  RowStart[i] = "block"
<1> DEFINE T == {k \in 1..j : Mode(i, k) = "block"}
<1>1. Len(src[i]) \in Nat
  BY SourceIs
<1>2. T \in SUBSET Nat /\ T # {}
  BY <1>1
<1>3. PICK k \in T : \A l \in T : k <= l
  <2> HIDE DEF T
  <2> QED
    BY <1>2, FirstOf
<1>4. k \in 1..j /\ Mode(i, k) = "block"
  OBVIOUS
<1>5. k = 1
  <2> SUFFICES ASSUME k # 1 PROVE FALSE
    OBVIOUS
  <2>1. /\ k - 1 \in 1..(j - 1) /\ k - 1 \in 1..j /\ ~ (k <= k - 1)
        /\ k - 1 \in 1..Len(src[i]) /\ (k - 1) + 1 = k /\ k - 1 \in 1..(Len(src[i]) + 1)
    BY <1>1, <1>4
  <2>2. Mode(i, k - 1) # "block" /\ src[i][k - 1] # "/*"
    BY <1>3, <2>1
  <2>3. Mode(i, k - 1) \in Modes /\ Mode(i, (k - 1) + 1) = After(Mode(i, k - 1), src[i][k - 1])
    BY <2>1, ModeIs
  <2> HIDE DEF T
  <2> QED
    BY <1>4, <2>1, <2>2, <2>3 DEF After, Modes
<1> QED
  BY <1>4, <1>5, ModeIs

\* A block comment that is open at the end of a row is open in front of the
\* statement, if the rows between are empty.
LEMMA BlockStays ==
    ASSUME Source, NEW i \in DOMAIN src, Mode(i, Len(src[i]) + 1) = "block",
           \A k \in DOMAIN src : i < k => src[k] = << >>
    PROVE  ~ Legal
<1> DEFINE T == {k \in i..Len(src) : Mode(k, Len(src[k]) + 1) # "block"}
<1>1. Len(src) \in Nat /\ DOMAIN src = 1..Len(src) /\ i \in 1..Len(src)
  BY SourceIs
<1>2. T = {}
  <2> SUFFICES ASSUME T # {} PROVE FALSE
    OBVIOUS
  <2>1. PICK k \in T : \A l \in T : k <= l
    <3>1. T \in SUBSET Nat
      BY <1>1
    <3> HIDE DEF T
    <3> QED
      BY <3>1, FirstOf
  <2>2. k \in i..Len(src) /\ Mode(k, Len(src[k]) + 1) # "block" /\ k # i
    OBVIOUS
  <2>3. /\ k - 1 \in i..Len(src) /\ k - 1 \in 1..(Len(src) - 1) /\ (k - 1) + 1 = k
        /\ k \in DOMAIN src /\ i < k /\ ~ (k <= k - 1)
    BY <1>1, <2>2
  <2>4. Mode(k - 1, Len(src[k - 1]) + 1) = "block"
    BY <2>1, <2>3
  <2>5. RowStart[k] = "block"
    BY <2>3, <2>4, ModeIs DEF NextRow
  <2>6. Len(src[k]) = 0
    BY <2>3, SourceIs
  <2>7. Mode(k, Len(src[k]) + 1) = "block"
    BY <2>3, <2>5, <2>6, ModeIs
  <2> QED
    BY <2>2, <2>7
<1>3. Len(src) \in i..Len(src)
  BY <1>1
<1>4. Mode(Len(src), Len(src[Len(src)]) + 1) = "block"
  BY <1>2, <1>3
<1> QED
  BY <1>4 DEF Legal

-----------------------------------------------------------------------------
(* The comment in front of the statement.                                   *)

\* The last row that is not empty.
LEMMA LastFilledIs ==
    ASSUME Source, NEW i \in Filled, \A k \in DOMAIN src : i < k => src[k] = << >>
    PROVE  LastFilled = i
<1>1. \A k \in Filled : k <= i /\ k \in Int
  BY SourceIs DEF Filled
<1>2. \A x \in Filled : (\A k \in Filled : k <= x) => x = i
  BY <1>1
<1>3. \A k \in Filled : k <= i
  BY <1>1
<1> QED
  BY <1>2, <1>3 DEF LastFilled

\* Without a run of whole-line comments there are no entries of one.
LEMMA NoEntries ==
    ASSUME Source, NEW r \in 0..Len(src), \A k \in 1..r : k \notin Run
    PROVE  WholeLines[r] = << >>
<1> DEFINE T == {i \in 0..r : WholeLines[i] # << >>}
<1>1. Len(src) \in Nat
  BY SourceIs
<1>2. T = {}
  <2> SUFFICES ASSUME T # {} PROVE FALSE
    OBVIOUS
  <2>1. PICK i \in T : \A k \in T : i <= k
    <3>1. T \in SUBSET Nat
      BY <1>1
    <3> HIDE DEF T
    <3> QED
      BY <3>1, FirstOf
  <2>2. i \in 0..r /\ WholeLines[i] # << >> /\ i # 0
    BY WholeLinesIs
  <2>3. i \in 1..Len(src) /\ i - 1 \in 0..r /\ i \notin Run /\ ~ (i <= i - 1)
    BY <1>1, <2>2
  <2>4. WholeLines[i] = WholeLines[i - 1]
    BY <2>3, WholeLinesIs
  <2> QED
    BY <2>1, <2>2, <2>3, <2>4
<1> QED
  BY <1>1, <1>2

\* There is no run if the last row that is not empty is no whole-line comment.
LEMMA NoRun ==
    ASSUME Source, NEW i \in Filled, ~ WholeLineComment(i), NEW k \in DOMAIN src, k <= i
    PROVE  k \notin Run
  BY DEF Run

\* The statement follows code, or nothing.
LEMMA CommentOfCode ==
    ASSUME CleanSource, NEW i \in Filled, \A k \in DOMAIN src : i < k => src[k] = << >>,
           ~ EndsWith(src[i], "*/"), ~ StartsWith(src[i], "//")
    PROVE  Comment = << >>
<1>1. Source /\ i \in DOMAIN src /\ LastFilled = i /\ Filled # {}
  BY LastFilledIs DEF CleanSource, Filled
<1> DEFINE n == Len(src[i])
<1>2. n \in 1..n /\ n \in Nat /\ src[i][n] # "*/"
  BY <1>1, SourceIs DEF EndsWith, Filled
<1>3. Mode(i, n) # "block"
  <2> SUFFICES ASSUME Mode(i, n) = "block" PROVE FALSE
    OBVIOUS
  <2>1. Mode(i, n + 1) = After("block", src[i][n])
    BY <1>1, <1>2, ModeIs
  <2>2. Mode(i, n + 1) = "block"
    BY <1>2, <2>1 DEF After
  <2> QED
    BY <1>1, <2>2, BlockStays DEF CleanSource
<1>4. ~ WholeLineComment(i)
  BY <1>1, SlashesFirst
<1>5. \A k \in 1..Len(src) : k \notin Run
  <2> TAKE k \in 1..Len(src)
  <2>1. k \in DOMAIN src /\ k \in Int /\ i \in Int
    BY <1>1, SourceIs
  <2>2. CASE k <= i
    BY <1>1, <1>4, <2>1, <2>2, NoRun
  <2>3. CASE i < k
    BY <2>1, <2>3 DEF Run, Filled
  <2> QED
    BY <2>1, <2>2, <2>3
<1>6. WholeLines[Len(src)] = << >>
  <2>1. Len(src) \in 0..Len(src)
    BY <1>1, SourceIs
  <2> QED
    BY <1>1, <1>5, <2>1, NoEntries
<1>7. LastToken[1] = i /\ LastToken[2] = n
  BY <1>1 DEF LastToken
<1> QED
  BY <1>1, <1>3, <1>6, <1>7 DEF Comment

\* The comment begins at the last "/*" of the source.
LEMMA LastOpensIs ==
    ASSUME CleanSource, NEW r \in DOMAIN src, NEW p \in 1..Len(src[r]), src[r][p] = "/*",
           \A k \in DOMAIN src : \A j \in 1..Len(src[k]) :
              src[k][j] = "/*" => k < r \/ (k = r /\ j <= p)
    PROVE  LastOpens = <<r, p>>
<1>1. Source /\ DOMAIN src = 1..Len(src) /\ r \in Int /\ p \in Int
  BY SourceIs DEF CleanSource
<1>2. Mode(r, p) = "code"
  BY TokenMode
<1>3. <<r, p>> \in Opens
  <2>1. <<r, p>> \in Positions
    BY <1>1, SourceIs DEF Positions
  <2>2. <<r, p>>[1] = r /\ <<r, p>>[2] = p
    OBVIOUS
  <2> QED
    BY <1>2, <2>1, <2>2, Zenon DEF Opens
<1>4. ASSUME NEW y \in Opens
      PROVE  /\ y = <<y[1], y[2]>> /\ y[1] \in Int /\ y[2] \in Int
             /\ y[1] < r \/ (y[1] = r /\ y[2] <= p)
  <2>1. y \in Positions /\ src[y[1]][y[2]] = "/*"
    BY DEF Opens
  <2>2. PICK k \in DOMAIN src : \E j \in DOMAIN src[k] : y = <<k, j>>
    BY <2>1 DEF Positions
  <2> PICK j \in DOMAIN src[k] : y = <<k, j>>
    BY <2>2
  <2>3. y[1] = k /\ y[2] = j /\ j \in 1..Len(src[k]) /\ k \in Int /\ j \in Int
    BY <1>1, <2>2, SourceIs
  <2>4. k < r \/ (k = r /\ j <= p)
    BY <2>1, <2>3
  <2> QED
    BY <2>2, <2>3, <2>4
<1> DEFINE Latest(x) == \A y \in Opens : y[1] < x[1] \/ (y[1] = x[1] /\ y[2] <= x[2])
<1>5. Latest(<<r, p>>)
  BY <1>4
<1>6. ASSUME NEW x \in Opens, Latest(x) PROVE x = <<r, p>>
  <2>1. r < x[1] \/ (r = x[1] /\ p <= x[2])
    BY <1>3, <1>6
  <2>2. x = <<x[1], x[2]>> /\ x[1] = r /\ x[2] = p
    BY <1>1, <1>4, <2>1
  <2> QED
    BY <2>2
<1> HIDE DEF Latest
<1>7. (CHOOSE x \in Opens : Latest(x)) = <<r, p>>
  BY <1>3, <1>5, <1>6
<1> QED
  BY <1>7 DEF LastOpens, Latest

-----------------------------------------------------------------------------
(* The rows of a block comment.                                             *)

LEMMA FunctionIsSeq ==
    ASSUME NEW S, NEW n \in Nat, NEW f \in [1..n -> S]
    PROVE  f \in Seq(S) /\ Len(f) = n
<1>1. f \in Seq(S)
  BY SeqDef
<1>2. DOMAIN f = 1..Len(f) /\ Len(f) \in Nat /\ DOMAIN f = 1..n
  BY <1>1, LenProperties
<1> QED
  BY <1>1, <1>2

\* line.rfind("/*")
LEMMA LastOpenIs ==
    ASSUME NEW l \in Seq(Token)
    PROVE  /\ LastOpen(l) \in 0..Len(l)
           /\ LastOpen(l) # 0 => l[LastOpen(l)] = "/*"
           /\ \A j \in 1..Len(l) : l[j] = "/*" => j <= LastOpen(l)
<1> DEFINE P == {j \in DOMAIN l : l[j] = "/*"}
<1>1. Len(l) \in Nat /\ DOMAIN l = 1..Len(l)
  BY LenProperties
<1>2. CASE P = {}
  <2>1. LastOpen(l) = 0
    BY <1>2 DEF LastOpen
  <2> QED
    BY <1>1, <1>2, <2>1
<1>3. CASE P # {}
  <2>1. P \in SUBSET (0..Len(l))
    BY <1>1
  <2> HIDE DEF P
  <2>2. \E j \in P : \A k \in P : k <= j
    BY <1>1, <1>3, <2>1, LastOf
  <2>3. LastOpen(l) = CHOOSE j \in P : \A k \in P : k <= j
    BY <1>3 DEF LastOpen, P
  <2>4. LastOpen(l) \in P /\ \A k \in P : k <= LastOpen(l)
    BY <2>2, <2>3
  <2> QED
    BY <1>1, <2>1, <2>4 DEF P
<1> QED
  BY <1>2, <1>3

\* What the parser looks at in row k: the end of the comment is cut off.
Body(k) == IF k = LastFilled THEN SubSeq(src[k], 1, Len(src[k]) - 1) ELSE src[k]
BodyLine(k) == [row |-> k, text |-> Body(k)]

\* The rows behind row r.
BlockLines(r) == [m \in 1..(LastFilled - r) |-> BodyLine(r + m)]

LEMMA BodyIs ==
    ASSUME Source, NEW k \in DOMAIN src, src[k] # << >> \/ k # LastFilled
    PROVE  /\ Body(k) \in Seq(Token) /\ BodyLine(k) \in TextLine
           /\ Len(Body(k)) = IF k = LastFilled THEN Len(src[k]) - 1 ELSE Len(src[k])
           /\ \A j \in 1..Len(Body(k)) : Body(k)[j] = src[k][j]
<1>1. /\ src[k] \in Seq(Token) /\ Len(src[k]) \in Nat /\ \A j \in 1..Len(src[k]) : src[k][j] \in Token
      /\ src[k] # << >> => Len(src[k]) # 0
  BY SourceIs
<1>2. CASE k = LastFilled
  <2> DEFINE n == Len(src[k]) - 1
  <2>1. n \in Nat /\ \A j \in 1..n : src[k][j] \in Token
    BY <1>1, <1>2
  <2>2. Body(k) = SubSeq(src[k], 1, n)
    BY <1>2 DEF Body
  <2> HIDE DEF n
  <2>3. /\ Body(k) \in Seq(Token)
        /\ Len(Body(k)) = IF 1 <= n THEN n - 1 + 1 ELSE 0
        /\ \A j \in 1..(n - 1 + 1) : Body(k)[j] = src[k][1 + j - 1]
    BY <2>1, <2>2, SubSeqProperties
  <2>4. Len(Body(k)) = n /\ \A j \in 1..n : Body(k)[j] = src[k][j]
    BY <2>1, <2>3
  <2> QED
    BY <1>2, <2>3, <2>4 DEF n, BodyLine, TextLine
<1>3. CASE k # LastFilled
  BY <1>1, <1>3 DEF Body, BodyLine, TextLine
<1> QED
  BY <1>2, <1>3

LEMMA BlockLinesIs ==
    ASSUME Source, LastFilled \in Filled, NEW r \in 0..LastFilled
    PROVE  /\ BlockLines(r) \in Seq(TextLine) /\ Len(BlockLines(r)) = LastFilled - r
           /\ \A m \in 1..(LastFilled - r) : BlockLines(r)[m] = BodyLine(r + m)
<1>1. LastFilled \in DOMAIN src /\ DOMAIN src = 1..Len(src) /\ src[LastFilled] # << >> /\ Len(src) \in Nat
  BY SourceIs DEF Filled
<1>2. LastFilled - r \in Nat
  BY <1>1
<1>3. \A m \in 1..(LastFilled - r) : BodyLine(r + m) \in TextLine
  <2> TAKE m \in 1..(LastFilled - r)
  <2>1. r + m \in DOMAIN src
    BY <1>1
  <2> QED
    BY <1>1, <2>1, BodyIs
<1>4. BlockLines(r) \in [1..(LastFilled - r) -> TextLine]
  BY <1>3 DEF BlockLines
<1> QED
  BY <1>2, <1>4, FunctionIsSeq DEF BlockLines

\* The parser goes from row r to the one before it.
LEMMA PushRow ==
    ASSUME Source, LastFilled \in Filled, NEW r \in 1..LastFilled
    PROVE  << BodyLine(r) >> \o BlockLines(r) = BlockLines(r - 1)
<1>1. LastFilled \in DOMAIN src /\ DOMAIN src = 1..Len(src) /\ src[LastFilled] # << >> /\ Len(src) \in Nat
  BY SourceIs DEF Filled
<1>2. r \in DOMAIN src /\ r \in 0..LastFilled /\ r - 1 \in 0..LastFilled
  BY <1>1
<1>3. BodyLine(r) \in TextLine
  BY <1>1, <1>2, BodyIs
<1>4. << BodyLine(r) >> \in Seq(TextLine) /\ Len(<< BodyLine(r) >>) = 1 /\ << BodyLine(r) >>[1] = BodyLine(r)
  BY <1>3
<1> DEFINE L == << BodyLine(r) >> \o BlockLines(r)
<1>5. /\ BlockLines(r) \in Seq(TextLine) /\ Len(BlockLines(r)) = LastFilled - r
      /\ \A m \in 1..(LastFilled - r) : BlockLines(r)[m] = BodyLine(r + m)
  BY <1>2, BlockLinesIs
<1>6. /\ BlockLines(r - 1) \in Seq(TextLine) /\ Len(BlockLines(r - 1)) = LastFilled - (r - 1)
      /\ \A m \in 1..(LastFilled - (r - 1)) : BlockLines(r - 1)[m] = BodyLine((r - 1) + m)
  BY <1>2, BlockLinesIs
<1>7. /\ L \in Seq(TextLine) /\ Len(L) = 1 + (LastFilled - r)
      /\ \A m \in 1..(1 + (LastFilled - r)) :
            L[m] = IF m <= 1 THEN << BodyLine(r) >>[m] ELSE BlockLines(r)[m - 1]
  BY <1>4, <1>5, ConcatProperties
<1> HIDE DEF L
<1>8. \A m \in 1..Len(L) : L[m] = BlockLines(r - 1)[m]
  <2> TAKE m \in 1..Len(L)
  <2>1. m \in 1..(1 + (LastFilled - r)) /\ m \in 1..(LastFilled - (r - 1)) /\ m \in Int
    BY <1>1, <1>7
  <2>2. CASE m = 1
    <3>1. (r - 1) + m = r
      BY <2>2
    <3> QED
      BY <1>4, <1>6, <1>7, <2>1, <2>2, <3>1
  <2>3. CASE m # 1
    <3>1. m - 1 \in 1..(LastFilled - r) /\ r + (m - 1) = (r - 1) + m /\ ~ (m <= 1)
      BY <1>1, <2>1, <2>3
    <3>2. L[m] = BodyLine(r + (m - 1))
      BY <1>5, <1>7, <2>1, <3>1
    <3> QED
      BY <1>6, <2>1, <3>1, <3>2
  <2> QED
    BY <2>2, <2>3
<1>9. Len(L) = Len(BlockLines(r - 1))
  BY <1>1, <1>6, <1>7
<1> QED
  BY <1>6, <1>7, <1>8, <1>9, SeqEqual DEF L

\* The statement follows a block comment that begins in row r.
LEMMA CommentOfBlock ==
    ASSUME CleanSource, LastFilled \in Filled,
           \A k \in DOMAIN src : LastFilled < k => src[k] = << >>,
           Mode(LastFilled, Len(src[LastFilled])) = "block",
           NEW r \in 1..LastFilled, LastOpen(Body(r)) # 0,
           \A k \in (r + 1)..LastFilled : \A j \in 1..Len(src[k]) : src[k][j] # "/*"
    PROVE  Comment = << [row |-> r,
                         text |-> SubSeq(Body(r), LastOpen(Body(r)) + 1, Len(Body(r)))] >>
                         \o BlockLines(r)
<1> DEFINE p == LastOpen(Body(r))
           n == Len(src[LastFilled])
           x == [row |-> r, text |-> SubSeq(Body(r), p + 1, Len(Body(r)))]
           C == [m \in 1..(LastFilled - r + 1) |-> Between(r + m - 1, <<r, p>>, <<LastFilled, n>>)]
           L == << x >> \o BlockLines(r)
<1>1. /\ Source /\ Len(src) \in Nat /\ DOMAIN src = 1..Len(src)
      /\ LastFilled \in DOMAIN src /\ src[LastFilled] # << >> /\ n \in Nat /\ n # 0
  BY SourceIs DEF CleanSource, Filled
<1>2. r \in DOMAIN src /\ r \in Int /\ src[r] \in Seq(Token) /\ Len(src[r]) \in Nat
  BY <1>1, SourceIs
<1>3. /\ Body(r) \in Seq(Token)
      /\ Len(Body(r)) = IF r = LastFilled THEN n - 1 ELSE Len(src[r])
      /\ \A j \in 1..Len(Body(r)) : Body(r)[j] = src[r][j]
  BY <1>1, <1>2, BodyIs
<1>4. /\ p \in 1..Len(Body(r)) /\ Len(Body(r)) \in Nat /\ Body(r)[p] = "/*"
      /\ \A j \in 1..Len(Body(r)) : Body(r)[j] = "/*" => j <= p
  <2>1. Len(Body(r)) \in Nat
    BY <1>3, LenProperties
  <2> QED
    BY <1>3, <2>1, LastOpenIs
<1>5. p \in 1..Len(src[r]) /\ src[r][p] = "/*"
  BY <1>2, <1>3, <1>4
<1>6. \A k \in DOMAIN src : \A j \in 1..Len(src[k]) :
         src[k][j] = "/*" => k < r \/ (k = r /\ j <= p)
  <2> SUFFICES ASSUME NEW k \in DOMAIN src, NEW j \in 1..Len(src[k]), src[k][j] = "/*", ~ (k < r)
               PROVE  k = r /\ j <= p
    BY <1>1
  <2>1. Len(src[k]) \in Nat /\ Len(src[k]) # 0 /\ k \in Int
    BY <1>1, SourceIs
  <2>2. src[k] # << >>
    BY <1>1, <2>1, SourceIs
  <2>3. k <= LastFilled
    BY <1>1, <2>1, <2>2
  <2>4. k = r
    BY <1>1, <1>2, <2>1, <2>3
  <2>5. j \in 1..Len(Body(r))
    <3>1. CASE r = LastFilled /\ j = n
      <4>1. Mode(k, j) = "code"
        BY TokenMode
      <4> QED
        BY <2>4, <3>1, <4>1
    <3>2. CASE ~ (r = LastFilled /\ j = n)
      BY <1>1, <1>3, <2>1, <2>4, <3>2
    <3> QED
      BY <3>1, <3>2
  <2> QED
    BY <1>3, <1>4, <2>4, <2>5
<1>7. LastOpens = <<r, p>>
  BY <1>2, <1>5, <1>6, LastOpensIs
<1>8. Comment = C
  <2>1. Filled # {} /\ LastToken = <<LastFilled, n>>
    BY DEF LastToken
  <2> HIDE DEF p, n
  <2> QED
    BY <1>7, <2>1 DEF Comment, n
<1> HIDE DEF p
<1>9. x \in TextLine /\ r \in 0..LastFilled
  <2>1. \A j \in (p + 1)..Len(Body(r)) : Body(r)[j] \in Token
    BY <1>3, <1>4, ElementOfSeq
  <2>2. SubSeq(Body(r), p + 1, Len(Body(r))) \in Seq(Token)
    BY <1>4, <2>1, SubSeqProperties
  <2> QED
    BY <1>1, <1>2, <2>2 DEF TextLine
<1> HIDE DEF x
<1>10. << x >> \in Seq(TextLine) /\ Len(<< x >>) = 1 /\ << x >>[1] = x
  BY <1>9
<1>11. /\ BlockLines(r) \in Seq(TextLine) /\ Len(BlockLines(r)) = LastFilled - r
       /\ \A m \in 1..(LastFilled - r) : BlockLines(r)[m] = BodyLine(r + m)
  BY <1>1, <1>9, BlockLinesIs
<1>12. /\ L \in Seq(TextLine) /\ Len(L) = 1 + (LastFilled - r)
       /\ \A m \in 1..(1 + (LastFilled - r)) :
             L[m] = IF m <= 1 THEN << x >>[m] ELSE BlockLines(r)[m - 1]
  BY <1>10, <1>11, ConcatProperties
<1> HIDE DEF L
<1>13. ASSUME NEW m \in 1..(LastFilled - r + 1)
       PROVE  Between(r + m - 1, <<r, p>>, <<LastFilled, n>>) = L[m]
  <2> DEFINE k == r + m - 1
  <2>1. k \in r..LastFilled /\ k \in DOMAIN src /\ m \in Int /\ m \in 1..(1 + (LastFilled - r))
    BY <1>1, <1>2
  <2>2. CASE m = 1
    <3>1. k = r /\ L[m] = x
      BY <1>2, <1>10, <1>12, <2>1, <2>2
    <3>2. Between(r, <<r, p>>, <<LastFilled, n>>) =
             [row |-> r, text |-> SubSeq(src[r], p + 1, IF r = LastFilled THEN n - 1 ELSE Len(src[r]))]
      BY DEF Between
    <3>3. SubSeq(src[r], p + 1, Len(Body(r))) = SubSeq(Body(r), p + 1, Len(Body(r)))
      <4> DEFINE a == SubSeq(src[r], p + 1, Len(Body(r)))
                 b == SubSeq(Body(r), p + 1, Len(Body(r)))
                 len == Len(Body(r))
      <4>1. p + 1 \in Int /\ len \in Int /\ \A j \in (p + 1)..len : Body(r)[j] \in Token /\ src[r][j] \in Token
        BY <1>3, <1>4, ElementOfSeq
      <4>2. /\ a \in Seq(Token) /\ Len(a) = IF p + 1 <= len THEN len - (p + 1) + 1 ELSE 0
            /\ \A j \in 1..(len - (p + 1) + 1) : a[j] = src[r][p + 1 + j - 1]
        BY SMTT(30), <4>1, SubSeqProperties
      <4>3. /\ b \in Seq(Token) /\ Len(b) = IF p + 1 <= len THEN len - (p + 1) + 1 ELSE 0
            /\ \A j \in 1..(len - (p + 1) + 1) : b[j] = Body(r)[p + 1 + j - 1]
        BY <4>1, SubSeqProperties
      <4> HIDE DEF a, b
      <4>4. \A j \in 1..Len(a) : a[j] = b[j]
        <5> TAKE j \in 1..Len(a)
        <5>1. j \in 1..(len - (p + 1) + 1) /\ p + 1 + j - 1 \in 1..len
          BY SMTT(30), <1>4, <4>2
        <5> QED
          BY <1>3, <4>2, <4>3, <5>1
      <4>5. a = b
        BY <4>2, <4>3, <4>4, SeqEqual
      <4> QED
        BY <4>5 DEF a, b
    <3> QED
      BY <1>3, <3>1, <3>2, <3>3 DEF x
  <2>3. CASE m # 1
    <3>1. m - 1 \in 1..(LastFilled - r) /\ r + (m - 1) = k /\ ~ (m <= 1) /\ k # r
      BY <1>1, <1>2, <2>1, <2>3
    <3>2. L[m] = BodyLine(k)
      BY <1>11, <1>12, <2>1, <3>1
    <3>3. Between(k, <<r, p>>, <<LastFilled, n>>) =
             [row |-> k, text |-> SubSeq(src[k], 1, IF k = LastFilled THEN n - 1 ELSE Len(src[k]))]
      BY <3>1 DEF Between
    <3>4. SubSeq(src[k], 1, Len(src[k])) = src[k]
      BY <1>1, <2>1, SourceIs, SubSeqFull
    <3> HIDE DEF k
    <3>5. Between(k, <<r, p>>, <<LastFilled, n>>) = BodyLine(k)
      BY <3>3, <3>4 DEF BodyLine, Body
    <3> QED
      BY <3>2, <3>5 DEF k
  <2> QED
    BY <2>2, <2>3
<1>14. C = L
  <2>1. C \in [1..(LastFilled - r + 1) -> TextLine]
    <3>1. \A m \in 1..(LastFilled - r + 1) : L[m] \in TextLine
      BY <1>1, <1>2, <1>12, ElementOfSeq
    <3> QED
      BY <1>13, <3>1
  <2>2. LastFilled - r + 1 \in Nat /\ LastFilled - r + 1 = 1 + (LastFilled - r)
    BY <1>1, <1>2
  <2>3. C \in Seq(TextLine) /\ Len(C) = LastFilled - r + 1
    BY ZenonT(30), <2>1, <2>2, FunctionIsSeq
  <2>4. \A m \in 1..Len(C) : C[m] = L[m]
    BY <1>13, <2>3
  <2> HIDE DEF C
  <2> QED
    BY <1>12, <2>2, <2>3, <2>4, SeqEqual
<1> QED
  BY <1>8, <1>14 DEF L, x, p

\* The statement follows whole-line comments.
LEMMA CommentOfLines ==
    ASSUME CleanSource, NEW i \in Filled, \A k \in DOMAIN src : i < k => src[k] = << >>,
           StartsWith(src[i], "//")
    PROVE  Comment = WholeLines[Len(src)]
<1>1. Source /\ i \in DOMAIN src /\ LastFilled = i /\ Filled # {}
  BY LastFilledIs DEF CleanSource, Filled
<1> DEFINE n == Len(src[i])
<1>2. n \in Nat /\ n # 0
  BY <1>1, SourceIs DEF Filled
<1>3. WholeLineComment(i)
  BY <1>1, SlashesFirst
<1>4. Mode(i, n) # "block"
  <2>1. CASE n = 1
    BY <1>1, <1>3, <2>1, ModeIs DEF WholeLineComment
  <2>2. CASE n # 1
    <3> HIDE DEF n
    <3>1. n \in 2..(n + 1)
      BY <1>2, <2>2
    <3> QED
      BY <1>1, <1>3, <3>1, LineToEnd DEF n
  <2> QED
    BY <2>1, <2>2
<1>5. LastToken[1] = i /\ LastToken[2] = n
  BY <1>1 DEF LastToken
<1> QED
  BY <1>1, <1>4, <1>5 DEF Comment

\* One row of a run, from the end to the start.
LEMMA PushEntry ==
    ASSUME Source, NEW r \in 1..Len(src), r \in Run, NEW l \in Seq(TextLine),
           WholeLines[Len(src)] = WholeLines[r] \o l
    PROVE  WholeLines[Len(src)] = WholeLines[r - 1] \o (<< Entry(r) >> \o l)
<1>1. Len(src) \in Nat /\ r - 1 \in 0..Len(src) /\ r \in DOMAIN src /\ src[r] # << >>
  BY SourceIs DEF Run, Filled
<1>2. Entry(r) \in TextLine
  BY <1>1, EntryType
<1>3. WholeLines[r] = Append(WholeLines[r - 1], Entry(r)) /\ WholeLines[r - 1] \in Seq(TextLine)
  BY <1>1, WholeLinesIs
<1>4. WholeLines[r] = WholeLines[r - 1] \o << Entry(r) >> /\ << Entry(r) >> \in Seq(TextLine)
  BY <1>2, <1>3, AppendIsConcat
<1> DEFINE W == WholeLines[r - 1]
           e == << Entry(r) >>
<1>5. W \in Seq(TextLine) /\ e \in Seq(TextLine) /\ WholeLines[Len(src)] = (W \o e) \o l
  BY <1>3, <1>4
<1> HIDE DEF W, e
<1>6. (W \o e) \o l = W \o (e \o l)
  BY SMTT(30), <1>5, ConcatAssociative
<1> QED
  BY <1>5, <1>6 DEF W, e

-----------------------------------------------------------------------------
(* The invariant of the scan.                                               *)

\* The parser looks at a row of the source while it scans.
RowInv == Source /\ TypeOK /\ (status = "scanning" => row \in DOMAIN src)

\* It has seen empty rows only.
SeekInv == status = "scanning" /\ mode = "seek" =>
    /\ line = src[row] /\ lines = << >>
    /\ \A k \in DOMAIN src : row < k => src[k] = << >>

\* In row r, with l left of it and the lines c, it is inside the block comment in
\* front of the statement, and has what is behind row r of it.
InBlock(r, l, c) ==
    /\ LastFilled \in Filled /\ r \in 1..LastFilled
    /\ \A k \in DOMAIN src : LastFilled < k => src[k] = << >>
    /\ Mode(LastFilled, Len(src[LastFilled])) = "block"
    /\ l = Body(r) /\ Mode(r, Len(l) + 1) = "block"
    /\ \A k \in (r + 1)..LastFilled : \A j \in 1..Len(src[k]) : src[k][j] # "/*"
    /\ c = BlockLines(r)

\* It is in the run of whole-line comments, and has what is behind row r of it.
InRun(r, l, c) ==
    /\ l = src[r]
    /\ \A k \in Filled : r < k => WholeLineComment(k)
    /\ Comment = WholeLines[Len(src)]
    /\ WholeLines[Len(src)] = WholeLines[r] \o c

MultiInv == status = "scanning" /\ mode = "multi" =>
    \A r \in {row}, l \in {line}, c \in {lines} : InBlock(r, l, c)
SingleInv == status = "scanning" /\ mode = "single" =>
    \A r \in {row}, l \in {line}, c \in {lines} : InRun(r, l, c)

\* It has found the comment.
EndInv == status # "scanning" => lines = Comment

ScanInv == CleanSource => SeekInv /\ MultiInv /\ SingleInv /\ EndInv

\* What is said of the source stays as it is.
LEMMA SameSource ==
    ASSUME src' = src
    PROVE  /\ Source' = Source /\ CleanSource' = CleanSource /\ Comment' = Comment /\ Legal' = Legal
           /\ Filled' = Filled /\ LastFilled' = LastFilled /\ WholeLines' = WholeLines
           /\ \A r, l, c : InBlock(r, l, c)' = InBlock(r, l, c) /\ InRun(r, l, c)' = InRun(r, l, c)
<1>1. /\ Source' = Source /\ Positions' = Positions /\ Filled' = Filled
      /\ \A i, m : ModesFrom(i, m)' = ModesFrom(i, m)
  BY DEF Source, Positions, Filled, ModesFrom
<1>2. RowStart' = RowStart
  BY <1>1 DEF RowStart, ModesFrom
<1>3. /\ \A i, j : Mode(i, j)' = Mode(i, j)
      /\ \A i : WholeLineComment(i)' = WholeLineComment(i)
  BY <1>1, <1>2 DEF Mode, WholeLineComment, ModesFrom, StartsWith
<1>4. Legal' = Legal /\ Clean' = Clean /\ Opens' = Opens /\ Run' = Run
  BY <1>1, <1>2 DEF Legal, Clean, Opens, Run, Positions, Filled, Mode, WholeLineComment, ModesFrom, StartsWith
<1>5. LastFilled' = LastFilled /\ LastOpens' = LastOpens /\ WholeLines' = WholeLines /\ LastToken' = LastToken
  BY <1>1, <1>4 DEF LastFilled, LastOpens, WholeLines, LastToken
<1>6. \A i : Body(i)' = Body(i) /\ BlockLines(i)' = BlockLines(i)
  BY <1>5 DEF Body, BlockLines, BodyLine
<1>7. Comment' = Comment
  BY <1>1, <1>2, <1>3, <1>5 DEF Comment, Between, Mode, ModesFrom
<1>8. \A r, l, c : InRun(r, l, c)' = InRun(r, l, c)
  BY <1>1, <1>3, <1>5, <1>7 DEF InRun
<1>9. \A r, l, c : InBlock(r, l, c)' = InBlock(r, l, c)
  <2>1. Mode(LastFilled, Len(src[LastFilled]))' = Mode(LastFilled, Len(src[LastFilled]))
    BY <1>2, <1>5 DEF Mode, ModesFrom
  <2> TAKE r, l, c
  <2>2. Mode(r, Len(l) + 1)' = Mode(r, Len(l) + 1)
    BY <1>3
  <2> QED
    BY <1>1, <1>5, <1>6, <2>1, <2>2 DEF InBlock
<1> QED
  BY <1>1, <1>3, <1>4, <1>5, <1>6, <1>7, <1>8, <1>9 DEF CleanSource

-----------------------------------------------------------------------------
(* The steps.                                                               *)

\* The line the parser looks at is a line of tokens.
LEMMA LineIs ==
    ASSUME RowInv
    PROVE  /\ Source /\ Len(src) \in Nat \ {0} /\ DOMAIN src = 1..Len(src)
           /\ line \in Seq(Token) /\ Len(line) \in Nat /\ DOMAIN line = 1..Len(line)
           /\ line = << >> <=> Len(line) = 0
<1>1. Source /\ line \in Seq(Token)
  BY DEF RowInv, TypeOK
<1> QED
  BY <1>1, SourceIs, EmptySeq, LenProperties

\* Previous leaves the scan in the file.
LEMMA PreviousRowInv ==
    ASSUME RowInv, status = "scanning", Previous, src' = src
    PROVE  /\ Source' /\ row' \in 0..Len(src') /\ line' \in Seq(Token)
           /\ row' = row - 1
           /\ \/ row' \in DOMAIN src /\ status' = status /\ line' = src[row']
              \/ row' = 0 /\ status' = "scanned" /\ row = 1
           /\ status' = "scanning" => row' \in DOMAIN src'
<1>1. row \in DOMAIN src /\ row \in 1..Len(src) /\ Len(src) \in Nat /\ Source /\ line \in Seq(Token)
  BY LineIs DEF RowInv
<1>2. row' = row - 1 /\ DOMAIN src = 1..Len(src)
  BY LineIs DEF Previous
<1>3. Source'
  BY <1>1, SameSource
<1>4. CASE row' <= 0
  BY <1>1, <1>2, <1>3, <1>4 DEF Previous
<1>5. CASE ~ (row' <= 0)
  <2>1. row' \in 1..Len(src)
    BY <1>1, <1>2, <1>5
  <2>2. src[row'] \in Seq(Token)
    BY <1>1, <1>2, <2>1, SourceIs
  <2> QED
    BY <1>2, <1>3, <1>5, <2>1, <2>2 DEF Previous
<1> QED
  BY <1>4, <1>5

\* A pushed line is a line of the comment.
LEMMA PushType ==
    ASSUME RowInv, status = "scanning", NEW t \in Seq(Token), Push(t), src' = src
    PROVE  lines' \in Seq([row : 1..Len(src'), text : Seq(Token)])
<1>1. row \in 1..Len(src) /\ lines \in Seq([row : 1..Len(src), text : Seq(Token)])
  BY LineIs DEF RowInv, TypeOK
<1> DEFINE E == [row : 1..Len(src), text : Seq(Token)]
           e == [row |-> row, text |-> t]
<1>2. e \in E /\ lines \in Seq(E)
  BY <1>1
<1>3. lines' = << e >> \o lines
  BY DEF Push
<1> HIDE DEF E, e
<1>4. << e >> \in Seq(E)
  BY <1>2
<1>5. << e >> \o lines \in Seq(E)
  BY <1>2, <1>4, ConcatProperties
<1> QED
  BY <1>3, <1>5 DEF E

\* A comment has its parameters at its entries.
LEMMA ParamsIs ==
    ASSUME NEW S, NEW c \in Seq(S), NEW a
    PROVE  Params(c, a) \in SUBSET (1..Len(c)) /\ IsFiniteSet(Params(c, a))
<1>1. Params(c, a) \in SUBSET (1..Len(c)) /\ Len(c) \in Nat
  BY LenProperties DEF Params
<1>2. IsFiniteSet(1..Len(c))
  BY <1>1, FS_Interval
<1> QED
  BY <1>1, <1>2, FS_Subset

LEMMA InitRow ==
    ASSUME Init
    PROVE  RowInv /\ Legal
<1>1. src \in Seq(Seq(Token)) /\ src # << >> /\ Legal
  BY SourcesAssumption DEF Init
<1>2. Source
  BY <1>1 DEF Source
<1>3. Len(src) \in 1..Len(src) /\ Len(src) \in Nat /\ DOMAIN src = 1..Len(src) /\ src[Len(src)] \in Seq(Token)
  BY <1>2, SourceIs
<1>4. lines \in Seq([row : 1..Len(src), text : Seq(Token)])
  <2>1. lines = << >>
    BY DEF Init
  <2> QED
    BY <2>1
<1>5. attrs \in [{"id", "hint", "help"} -> 0..Len(src)]
  BY <1>3 DEF Init, NoAttrs
<1> QED
  BY <1>1, <1>2, <1>3, <1>4, <1>5 DEF Init, RowInv, TypeOK

\* The scan stays within the file, and the attributes are of rows of it.
LEMMA RowStep ==
    ASSUME RowInv, [Next]_vars
    PROVE  RowInv' /\ src' = src
<1> USE DEF RowInv
<1>1. Source /\ TypeOK
  OBVIOUS
<1>2. line # << >> => SubSeq(line, 1, Len(line) - 1) \in Seq(Token)
  <2> SUFFICES ASSUME line # << >> PROVE SubSeq(line, 1, Len(line) - 1) \in Seq(Token)
    OBVIOUS
  <2>1. Len(line) - 1 \in 0..Len(line) /\ line \in Seq(Token)
    BY LineIs
  <2>2. \A k \in 1..(Len(line) - 1) : line[k] \in Token
    BY <2>1, LineIs, ElementOfSeq
  <2> QED
    BY <2>1, <2>2, SubSeqProperties, LineIs
<1>3. CASE SeekBlockEnd
  <2>1. line # << >>
    BY <1>3 DEF SeekBlockEnd, EndsWith
  <2> QED
    BY <1>1, <1>2, <1>3, <2>1, SameSource DEF SeekBlockEnd, TypeOK
<1>4. CASE SeekLineComment
  BY <1>1, <1>4, SameSource DEF SeekLineComment, TypeOK
<1>5. CASE SeekBlank
  <2>1. status = "scanning" /\ Previous /\ src' = src /\ mode' = mode /\ lines' = lines /\ attrs' = attrs
    BY <1>5 DEF SeekBlank
  <2> QED
    BY <1>1, <2>1, PreviousRowInv DEF TypeOK
<1>6. CASE NoComment
  BY <1>1, <1>6, SameSource DEF NoComment, TypeOK
<1>7. CASE MultiLine
  <2> DEFINE p == LastOpen(line)
             t == SubSeq(line, p + 1, Len(line))
  <2>1. status = "scanning" /\ Push(t) /\ src' = src /\ mode' = mode /\ attrs' = attrs
    BY <1>7 DEF MultiLine
  <2>2. p \in 0..Len(line) /\ Len(line) \in Nat /\ line \in Seq(Token)
    BY LineIs, LastOpenIs
  <2>3. t \in Seq(Token)
    <3> HIDE DEF p
    <3>1. \A k \in (p + 1)..Len(line) : line[k] \in Token
      BY <2>2, ElementOfSeq
    <3> QED
      BY <2>2, <3>1, SubSeqProperties
  <2>4. lines' \in Seq([row : 1..Len(src'), text : Seq(Token)])
    <3> HIDE DEF t
    <3> QED
      BY <2>1, <2>3, PushType
  <2>5. CASE status' = "scanned" /\ UNCHANGED <<row, line>>
    BY <1>1, <2>1, <2>4, <2>5, SameSource DEF TypeOK
  <2>6. CASE Previous
    BY <1>1, <2>1, <2>4, <2>6, PreviousRowInv DEF TypeOK
  <2> QED
    BY <1>7, <2>5, <2>6 DEF MultiLine
<1>8. CASE SingleLine
  <2>1. status = "scanning" /\ Push(Tail(line)) /\ Previous /\ src' = src /\ mode' = mode /\ attrs' = attrs
    BY <1>8 DEF SingleLine
  <2>2. Tail(line) \in Seq(Token)
    <3>1. line # << >> /\ line \in Seq(Token)
      BY <1>8, LineIs DEF SingleLine, StartsWith
    <3> QED
      BY <3>1, HeadTailProperties
  <2>3. lines' \in Seq([row : 1..Len(src'), text : Seq(Token)])
    BY <2>1, <2>2, PushType
  <2> QED
    BY <1>1, <2>1, <2>3, PreviousRowInv DEF TypeOK
<1>9. CASE SingleBlank
  <2>1. status = "scanning" /\ Previous /\ src' = src /\ mode' = mode /\ lines' = lines /\ attrs' = attrs
    BY <1>9 DEF SingleBlank
  <2> QED
    BY <1>1, <2>1, PreviousRowInv DEF TypeOK
<1>10. CASE SingleEnd
  BY <1>1, <1>10, SameSource DEF SingleEnd, TypeOK
<1>11. CASE Extract
  <2>1. status = "scanned" /\ UNCHANGED <<src, row, line, mode, lines>> /\ Source'
    BY <1>1, <1>11, SameSource DEF Extract
  <2>2. CASE attrs' = attrs /\ status' \in {"bad_lexical_cast", "ParsingError"}
    BY <1>1, <2>1, <2>2 DEF TypeOK
  <2>3. CASE /\ attrs' = [a \in DOMAIN attrs |-> IF Matches(a) = {} THEN 0
                                                ELSE lines[CHOOSE i \in Matches(a) : TRUE].row]
             /\ status' = "done"
    <3>1. DOMAIN attrs = {"id", "hint", "help"} /\ Len(src) \in Nat
      BY <1>1, SourceIs DEF TypeOK
    <3> DEFINE E == [row : 1..Len(src), text : Seq(Token)]
    <3>2. lines \in Seq(E)
      BY <1>1 DEF TypeOK
    <3>3. ASSUME NEW a \in {"id", "hint", "help"}, Matches(a) # {}
          PROVE  lines[CHOOSE i \in Matches(a) : TRUE].row \in 0..Len(src)
      <4> DEFINE i == CHOOSE k \in Matches(a) : TRUE
      <4>1. i \in Matches(a)
        BY <3>3
      <4> HIDE DEF i, E
      <4>2. i \in 1..Len(lines)
        BY <3>2, <4>1, ParamsIs DEF Matches
      <4>3. lines[i] \in E
        BY <3>2, <4>2, ElementOfSeq
      <4> QED
        BY <3>1, <4>3 DEF i, E
    <3>4. attrs' \in [{"id", "hint", "help"} -> 0..Len(src)]
      BY <2>3, <3>1, <3>3
    <3> QED
      BY <1>1, <2>1, <2>3, <3>4 DEF TypeOK
  <2> QED
    BY <1>11, <2>2, <2>3 DEF Extract
<1>12. CASE UNCHANGED vars
  BY <1>1, <1>12, SameSource DEF vars, TypeOK
<1> QED
  BY <1>3, <1>4, <1>5, <1>6, <1>7, <1>8, <1>9, <1>10, <1>11, <1>12 DEF Next

LEMMA InitScan ==
    ASSUME Init
    PROVE  ScanInv
<1>1. src # << >> /\ DOMAIN src = 1..Len(src) /\ Len(src) \in Nat
  BY InitRow, SourceIs DEF RowInv, Source
<1>2. SeekInv
  BY <1>1 DEF Init, SeekInv
<1> QED
  BY <1>2 DEF Init, ScanInv, MultiInv, SingleInv, EndInv

\* The statement follows a block comment.
LEMMA SeekBlockEndStep ==
    ASSUME RowInv, CleanSource, SeekInv, SeekBlockEnd
    PROVE  MultiInv'
<1> DEFINE r == row
           l == SubSeq(line, 1, Len(line) - 1)
<1>1. /\ r \in DOMAIN src /\ line = src[r] /\ lines = << >> /\ EndsWith(src[r], "*/")
      /\ \A k \in DOMAIN src : r < k => src[k] = << >>
  BY DEF RowInv, SeekInv, SeekBlockEnd
<1>2. Source /\ Len(src[r]) \in Nat \ {0} /\ src[r][Len(src[r])] = "*/" /\ r \in Filled
  BY <1>1, SourceIs DEF RowInv, EndsWith, Filled
<1>3. LastFilled = r /\ r \in 1..LastFilled
  BY <1>1, <1>2, LastFilledIs, SourceIs
<1>4. Mode(r, Len(src[r])) = "block"
  <2>1. Len(src[r]) \in 1..Len(src[r])
    BY <1>2
  <2> QED
    BY <1>1, <1>2, <2>1, TokenMode
<1>5. l = Body(r) /\ Len(Body(r)) + 1 = Len(src[r])
  <2>1. Body(r) = SubSeq(src[r], 1, Len(src[r]) - 1)
    BY <1>3 DEF Body
  <2>2. Len(Body(r)) = Len(src[r]) - 1
    BY <1>1, <1>2, <1>3, BodyIs DEF Filled
  <2> QED
    BY <1>1, <1>2, <2>1, <2>2
<1>6. BlockLines(r) = << >>
  <2>1. r \in Nat /\ r \in 0..LastFilled /\ LastFilled - r = 0
    BY <1>1, <1>2, <1>3, SourceIs
  <2>2. BlockLines(r) \in Seq(TextLine) /\ Len(BlockLines(r)) = 0
    BY <1>2, <1>3, <2>1, BlockLinesIs
  <2> QED
    BY <2>2, EmptySeq
<1>7. \A k \in (r + 1)..LastFilled : FALSE
  <2>1. r \in Int /\ LastFilled = r
    BY <1>1, <1>2, <1>3, SourceIs
  <2> QED
    BY <2>1
<1>8. InBlock(r, l, lines)
  BY <1>1, <1>2, <1>3, <1>4, <1>5, <1>6, <1>7 DEF InBlock
<1>9. row' = r /\ line' = l /\ lines' = lines /\ src' = src
  BY DEF SeekBlockEnd
<1>10. PICK q, m, c : q = r /\ m = l /\ c = lines
  OBVIOUS
<1>11. InBlock(q, m, c)
  BY <1>8, <1>10
<1>12. InBlock(q, m, c)'
  BY <1>9, <1>11, SameSource
<1>13. row' = q /\ line' = m /\ lines' = c
  BY <1>9, <1>10
<1> QED
  BY <1>12, <1>13 DEF MultiInv

\* The statement follows whole-line comments.
LEMMA SeekLineCommentStep ==
    ASSUME RowInv, CleanSource, SeekInv, SeekLineComment
    PROVE  SingleInv'
<1>1. /\ row \in DOMAIN src /\ line = src[row] /\ lines = << >> /\ StartsWith(src[row], "//")
      /\ \A k \in DOMAIN src : row < k => src[k] = << >>
      /\ UNCHANGED <<src, row, line, lines>>
  BY DEF RowInv, SeekInv, SeekLineComment
<1>2. Source /\ row \in Filled /\ DOMAIN src = 1..Len(src) /\ Len(src) \in Nat
  BY <1>1, SourceIs DEF RowInv, StartsWith, Filled
<1>3. Comment = WholeLines[Len(src)]
  BY <1>1, <1>2, CommentOfLines
<1>4. WholeLines[Len(src)] = WholeLines[row]
  <2> DEFINE T == {k \in row..Len(src) : WholeLines[k] # WholeLines[row]}
  <2>1. T = {}
    <3> SUFFICES ASSUME T # {} PROVE FALSE
      OBVIOUS
    <3>1. PICK k \in T : \A m \in T : k <= m
      <4>1. T \in SUBSET Nat
        BY <1>1, <1>2
      <4> HIDE DEF T
      <4> QED
        BY <4>1, FirstOf
    <3>2. k \in row..Len(src) /\ WholeLines[k] # WholeLines[row] /\ k # row
      OBVIOUS
    <3>3. k \in 1..Len(src) /\ row < k /\ k - 1 \in row..Len(src) /\ ~ (k <= k - 1)
      BY <1>1, <1>2, <3>2
    <3>4. WholeLines[k - 1] = WholeLines[row]
      BY <3>1, <3>3
    <3>5. k \notin Run
      BY <1>1, <1>2, <3>3 DEF Run, Filled
    <3> QED
      BY <1>2, <3>2, <3>3, <3>4, <3>5, WholeLinesIs
  <2>2. Len(src) \in row..Len(src)
    BY <1>1, <1>2
  <2> QED
    BY <2>1, <2>2
<1>5. WholeLines[row] \o << >> = WholeLines[row]
  <2>1. row \in 0..Len(src)
    BY <1>1, <1>2
  <2>2. WholeLines[row] \in Seq(TextLine)
    BY <1>2, <2>1, WholeLinesIs
  <2> QED
    BY <2>2, ConcatEmptySeq
<1>6. InRun(row, line, lines)
  BY <1>1, <1>3, <1>4, <1>5 DEF InRun, Filled
<1> QED
  BY <1>1, <1>6, SameSource DEF SingleInv

\* Another empty row.
LEMMA SeekBlankStep ==
    ASSUME RowInv, CleanSource, SeekInv, SeekBlank
    PROVE  SeekInv' /\ EndInv'
<1>1. /\ row \in DOMAIN src /\ src[row] = << >> /\ lines = << >> /\ status = "scanning" /\ Previous
      /\ \A k \in DOMAIN src : row < k => src[k] = << >>
      /\ UNCHANGED <<src, lines>> /\ DOMAIN src = 1..Len(src) /\ Len(src) \in Nat
  BY LineIs DEF RowInv, SeekInv, SeekBlank
<1>2. \A k \in DOMAIN src : row - 1 < k => src[k] = << >>
  <2> TAKE k \in DOMAIN src
  <2>1. row \in Int /\ k \in Int
    BY <1>1
  <2>2. CASE k = row
    BY <1>1, <2>2
  <2>3. CASE k # row
    BY <1>1, <2>1, <2>3
  <2> QED
    BY <2>2, <2>3
<1>3. row' = row - 1 /\ (\/ status' = "scanning" /\ line' = src[row']
                         \/ row = 1 /\ status' = "scanned")
  BY <1>1, PreviousRowInv
<1>4. SeekInv'
  BY <1>1, <1>2, <1>3 DEF SeekInv
<1>5. CASE status' = "scanning"
  BY <1>4, <1>5 DEF EndInv
<1>6. CASE row = 1
  <2>1. \A k \in DOMAIN src : src[k] = << >>
    BY <1>1, <1>2, <1>6
  <2>2. Comment = << >>
    BY <2>1 DEF Comment, Filled
  <2> QED
    BY <1>1, <1>4, <2>2, SameSource DEF EndInv
<1> QED
  BY <1>3, <1>5, <1>6

\* The statement follows something else.
LEMMA NoCommentStep ==
    ASSUME RowInv, CleanSource, SeekInv, NoComment
    PROVE  EndInv'
<1>1. /\ row \in DOMAIN src /\ line = src[row] /\ lines = << >> /\ UNCHANGED <<src, lines>>
      /\ \A k \in DOMAIN src : row < k => src[k] = << >>
      /\ line # << >> /\ ~ EndsWith(src[row], "*/") /\ ~ StartsWith(src[row], "//")
  BY DEF RowInv, SeekInv, NoComment
<1>2. row \in Filled
  BY <1>1 DEF Filled
<1>3. Comment = << >>
  BY <1>1, <1>2, CommentOfCode
<1> QED
  BY <1>1, <1>3, SameSource DEF EndInv

\* A row of the block comment.
LEMMA MultiLineStep ==
    ASSUME RowInv, CleanSource, MultiInv, MultiLine
    PROVE  MultiInv' /\ EndInv'
<1> DEFINE r == row
           L == LastFilled
           p == LastOpen(Body(r))
<1>1. status = "scanning" /\ mode = "multi" /\ mode' = mode /\ src' = src
  BY DEF MultiLine
<1>2. InBlock(r, line, lines)
  BY <1>1 DEF MultiInv
<1>3. /\ L \in Filled /\ r \in 1..L /\ \A k \in DOMAIN src : L < k => src[k] = << >>
      /\ Mode(L, Len(src[L])) = "block" /\ line = Body(r) /\ Mode(r, Len(line) + 1) = "block"
      /\ \A k \in (r + 1)..L : \A j \in 1..Len(src[k]) : src[k][j] # "/*"
      /\ lines = BlockLines(r)
  BY <1>2 DEF InBlock
<1>4. /\ Source /\ r \in DOMAIN src /\ DOMAIN src = 1..Len(src) /\ Len(src) \in Nat
      /\ L \in 1..Len(src) /\ src[L] # << >> /\ Len(src[L]) \in Nat /\ Len(src[r]) \in Nat
  BY <1>1, <1>3, SourceIs DEF RowInv, Filled
<1>5. /\ Body(r) \in Seq(Token) /\ Len(Body(r)) \in Nat
      /\ Len(Body(r)) = IF r = L THEN Len(src[r]) - 1 ELSE Len(src[r])
      /\ \A j \in 1..Len(Body(r)) : Body(r)[j] = src[r][j]
  <2>1. src[r] # << >> \/ r # L
    BY <1>4
  <2> QED
    BY <1>4, <2>1, BodyIs, LenProperties
<1>6. /\ p \in 0..Len(Body(r)) /\ \A j \in 1..Len(Body(r)) : Body(r)[j] = "/*" => j <= p
      /\ lines' = << [row |-> r, text |-> SubSeq(Body(r), p + 1, Len(Body(r)))] >> \o BlockLines(r)
  BY <1>3, <1>5, LastOpenIs DEF MultiLine, Push
<1>7. (p > 0 /\ status' = "scanned") \/ (p = 0 /\ Previous)
  BY <1>3 DEF MultiLine
<1> HIDE DEF p
<1>8. CASE p > 0 /\ status' = "scanned"
  <2>1. p # 0
    BY <1>6, <1>8
  <2>2. lines' = Comment
    BY <1>3, <1>6, <2>1, CommentOfBlock DEF p
  <2> QED
    BY <1>1, <1>8, <2>2, SameSource DEF MultiInv, EndInv
<1>9. CASE p = 0 /\ Previous
  <2>1. \A j \in 1..Len(Body(r)) : src[r][j] # "/*"
    BY <1>5, <1>6, <1>9
  <2>2. RowStart[r] = "block"
    <3> DEFINE n == Len(Body(r)) + 1
    <3>1. n \in 1..(Len(src[r]) + 1) /\ n - 1 = Len(Body(r))
      BY <1>4, <1>5
    <3>2. \A j \in 1..(n - 1) : src[r][j] # "/*"
      BY <2>1, <3>1
    <3>3. Mode(r, n) = "block"
      BY <1>3
    <3> HIDE DEF n
    <3> QED
      BY <1>4, <3>1, <3>2, <3>3, BlockBefore
  <2>3. r # 1 /\ r - 1 \in 1..(Len(src) - 1) /\ r - 1 \in 1..L /\ r - 1 # L /\ (r - 1) + 1 = r
    <3>1. r # 1
      BY <1>4, <2>2, RowStartIs
    <3> QED
      BY <1>3, <1>4, <3>1
  <2>4. Mode(r - 1, Len(src[r - 1]) + 1) = "block"
    <3>1. RowStart[(r - 1) + 1] = NextRow(Mode(r - 1, Len(src[r - 1]) + 1))
      BY <1>4, <2>3, ModeIs
    <3> QED
      BY <2>2, <2>3, <3>1 DEF NextRow
  <2>5. \A j \in 1..Len(src[r]) : src[r][j] # "/*"
    <3> TAKE j \in 1..Len(src[r])
    <3>1. CASE j \in 1..Len(Body(r))
      BY <2>1, <3>1
    <3>2. CASE j \notin 1..Len(Body(r))
      <4>1. r = L /\ j = Len(src[L])
        BY <1>4, <1>5, <3>2
      <4> QED
        BY <1>3, <1>4, <4>1, TokenMode
    <3> QED
      BY <3>1, <3>2
  <2>6. \A k \in ((r - 1) + 1)..L : \A j \in 1..Len(src[k]) : src[k][j] # "/*"
    <3> TAKE k \in ((r - 1) + 1)..L
    <3>1. CASE k = r
      BY <2>5, <3>1
    <3>2. CASE k # r
      <4>1. k \in (r + 1)..L
        BY <1>3, <1>4, <3>2
      <4> QED
        BY <1>3, <4>1
    <3> QED
      BY <3>1, <3>2
  <2>7. lines' = BlockLines(r - 1)
    <3>1. SubSeq(Body(r), p + 1, Len(Body(r))) = Body(r)
      BY <1>5, <1>9, SubSeqFull
    <3> QED
      BY <1>3, <1>4, <1>6, <3>1, PushRow DEF BodyLine
  <2>8. Body(r - 1) = src[r - 1]
    BY <2>3 DEF Body
  <2>9. InBlock(r - 1, src[r - 1], BlockLines(r - 1))
    BY <1>3, <2>3, <2>4, <2>6, <2>8 DEF InBlock
  <2>10. row' = r - 1 /\ status' = "scanning" /\ line' = src[r - 1]
    BY <1>1, <1>4, <1>9, <2>3, PreviousRowInv
  <2> QED
    BY <1>1, <2>7, <2>9, <2>10, SameSource DEF MultiInv, EndInv
<1> QED
  BY <1>7, <1>8, <1>9

\* The row before in a run of whole-line comments, or the top of the file.
LEMMA RunPrevious ==
    ASSUME RowInv, CleanSource, status = "scanning", Previous, UNCHANGED <<src, mode>>,
           mode = "single", NEW c \in Seq(TextLine), lines' = c,
           Comment = WholeLines[Len(src)], WholeLines[Len(src)] = WholeLines[row - 1] \o c,
           \A k \in Filled : row - 1 < k => WholeLineComment(k)
    PROVE  SingleInv' /\ EndInv'
<1> DEFINE r == row - 1
<1>1. row' = r /\ (\/ status' = "scanning" /\ line' = src[r]
                   \/ r = 0 /\ status' = "scanned")
  <2>1. row \in Int
    BY LineIs DEF RowInv
  <2> QED
    BY <2>1, PreviousRowInv
<1> HIDE DEF r
<1>2. CASE status' = "scanning" /\ line' = src[r]
  <2>1. InRun(r, src[r], c)
    BY DEF InRun, r
  <2> QED
    BY <1>1, <1>2, <2>1, SameSource DEF SingleInv, EndInv
<1>3. CASE r = 0 /\ status' = "scanned"
  <2>1. WholeLines[r] = << >>
    BY <1>3, WholeLinesIs DEF RowInv
  <2>2. << >> \o c = c
    BY ConcatEmptySeq
  <2>3. Comment = c
    BY <2>1, <2>2 DEF r
  <2> QED
    BY <1>3, <2>3, SameSource DEF SingleInv, EndInv
<1> QED
  BY <1>1, <1>2, <1>3

LEMMA InRunIs ==
    ASSUME RowInv, SingleInv, status = "scanning", mode = "single"
    PROVE  /\ Source /\ row \in 1..Len(src) /\ row \in DOMAIN src /\ Len(src) \in Nat
           /\ lines \in Seq(TextLine) /\ line = src[row]
           /\ \A k \in Filled : row < k => WholeLineComment(k)
           /\ Comment = WholeLines[Len(src)] /\ WholeLines[Len(src)] = WholeLines[row] \o lines
           /\ \A k \in Filled : k \in Int
<1>1. InRun(row, line, lines)
  BY DEF SingleInv
<1>2. lines \in Seq(TextLine)
  <2>1. lines \in Seq([row : 1..Len(src), text : Seq(Token)]) /\ DOMAIN src = 1..Len(src)
    BY LineIs DEF RowInv, TypeOK
  <2> QED
    BY <2>1 DEF TextLine
<1> QED
  BY <1>1, <1>2, LineIs DEF InRun, RowInv, Filled

\* A row of the run.
LEMMA SingleLineStep ==
    ASSUME RowInv, CleanSource, SingleInv, SingleLine
    PROVE  SingleInv' /\ EndInv'
<1>1. /\ status = "scanning" /\ mode = "single" /\ StartsWith(line, "//") /\ Previous
      /\ UNCHANGED <<src, mode>> /\ Push(Tail(line))
  BY DEF SingleLine
<1>2. /\ Source /\ row \in 1..Len(src) /\ row \in DOMAIN src
      /\ lines \in Seq(TextLine) /\ line = src[row]
      /\ \A k \in Filled : row < k => WholeLineComment(k)
      /\ Comment = WholeLines[Len(src)] /\ WholeLines[Len(src)] = WholeLines[row] \o lines
  BY <1>1, InRunIs
<1>3. src[row] # << >> /\ WholeLineComment(row)
  BY <1>1, <1>2, SlashesFirst DEF StartsWith
<1>4. \A k \in Filled : row - 1 < k => WholeLineComment(k)
  <2> TAKE k \in Filled
  <2>1. CASE k = row
    BY <1>3, <2>1
  <2>2. CASE k # row
    <3>1. k \in Int /\ row \in Int
      BY <1>1, InRunIs
    <3> QED
      BY <1>2, <2>2, <3>1
  <2> QED
    BY <2>1, <2>2
<1>5. row \in Run
  <2>1. \A k \in Filled : k >= row => WholeLineComment(k)
    <3>1. row \in Int /\ \A k \in Filled : k \in Int
      BY <1>1, InRunIs
    <3> QED
      BY <1>4, <3>1
  <2> QED
    BY <1>2, <1>3, <2>1 DEF Run, Filled
<1> DEFINE c == << Entry(row) >> \o lines
<1>6. WholeLines[Len(src)] = WholeLines[row - 1] \o c
  BY <1>2, <1>5, PushEntry
<1>7. c \in Seq(TextLine)
  <2>1. Entry(row) \in TextLine
    BY <1>2, <1>3, EntryType
  <2>2. << Entry(row) >> \in Seq(TextLine)
    BY <2>1
  <2> QED
    BY <1>2, <2>2, ConcatProperties
<1>8. lines' = c
  BY <1>1, <1>2 DEF Push, Entry
<1> HIDE DEF c
<1> QED
  BY <1>1, <1>2, <1>4, <1>6, <1>7, <1>8, RunPrevious

\* An empty row in the run.
LEMMA SingleBlankStep ==
    ASSUME RowInv, CleanSource, SingleInv, SingleBlank
    PROVE  SingleInv' /\ EndInv'
<1>1. /\ status = "scanning" /\ mode = "single" /\ line = << >> /\ Previous
      /\ UNCHANGED <<src, mode, lines>>
  BY DEF SingleBlank
<1>2. /\ Source /\ row \in 1..Len(src) /\ row \in DOMAIN src
      /\ lines \in Seq(TextLine) /\ line = src[row]
      /\ \A k \in Filled : row < k => WholeLineComment(k)
      /\ Comment = WholeLines[Len(src)] /\ WholeLines[Len(src)] = WholeLines[row] \o lines
  BY <1>1, InRunIs
<1>3. row \notin Filled /\ row \notin Run
  BY <1>1, <1>2 DEF Filled, Run
<1>4. \A k \in Filled : row - 1 < k => WholeLineComment(k)
  <2> TAKE k \in Filled
  <2>1. k \in Int /\ row \in Int /\ k # row
    BY <1>1, <1>3, InRunIs
  <2> QED
    BY <1>2, <2>1
<1>5. WholeLines[row] = WholeLines[row - 1]
  BY <1>2, <1>3, WholeLinesIs
<1> DEFINE c == lines
<1>6. c \in Seq(TextLine) /\ lines' = c /\ WholeLines[Len(src)] = WholeLines[row - 1] \o c
  BY <1>1, <1>2, <1>5
<1> HIDE DEF c
<1> QED
  BY <1>1, <1>2, <1>4, <1>6, RunPrevious

\* The row before the run.
LEMMA SingleEndStep ==
    ASSUME RowInv, CleanSource, SingleInv, SingleEnd
    PROVE  EndInv'
<1>1. /\ status = "scanning" /\ mode = "single" /\ line # << >> /\ ~ StartsWith(line, "//")
      /\ UNCHANGED <<src, lines>>
  BY DEF SingleEnd
<1>2. /\ Source /\ row \in 1..Len(src) /\ row \in DOMAIN src /\ Len(src) \in Nat
      /\ lines \in Seq(TextLine) /\ line = src[row]
      /\ Comment = WholeLines[Len(src)] /\ WholeLines[Len(src)] = WholeLines[row] \o lines
  BY <1>1, InRunIs
<1>3. row \in Filled /\ ~ WholeLineComment(row)
  BY <1>1, <1>2, SlashesFirst DEF Filled
<1>4. \A k \in 1..row : k \notin Run
  <2> TAKE k \in 1..row
  <2>1. k \in DOMAIN src /\ k <= row
    BY <1>2, SourceIs
  <2> QED
    BY <1>2, <1>3, <2>1, NoRun
<1>5. WholeLines[row] = << >>
  <2>1. row \in 0..Len(src)
    BY <1>2
  <2> QED
    BY <1>2, <1>4, <2>1, NoEntries
<1>6. << >> \o lines = lines
  BY <1>2, ConcatEmptySeq
<1> QED
  BY <1>1, <1>2, <1>5, <1>6, SameSource DEF EndInv

\* The scan ends with the comment in front of the statement.
LEMMA ScanStep ==
    ASSUME RowInv, ScanInv, [Next]_vars
    PROVE  ScanInv'
<1>1. src' = src /\ CleanSource' = CleanSource
  BY RowStep, SameSource
<1> SUFFICES ASSUME CleanSource
             PROVE  SeekInv' /\ MultiInv' /\ SingleInv' /\ EndInv'
  BY <1>1 DEF ScanInv
<1>2. SeekInv /\ MultiInv /\ SingleInv /\ EndInv
  BY DEF ScanInv
<1>3. CASE SeekBlockEnd
  BY <1>2, <1>3, SeekBlockEndStep DEF SeekBlockEnd, SeekInv, SingleInv, EndInv
<1>4. CASE SeekLineComment
  BY <1>2, <1>4, SeekLineCommentStep DEF SeekLineComment, SeekInv, MultiInv, EndInv
<1>5. CASE SeekBlank
  BY <1>2, <1>5, SeekBlankStep DEF SeekBlank, MultiInv, SingleInv
<1>6. CASE NoComment
  BY <1>2, <1>6, NoCommentStep DEF NoComment, SeekInv, MultiInv, SingleInv
<1>7. CASE MultiLine
  BY <1>2, <1>7, MultiLineStep DEF MultiLine, SeekInv, SingleInv
<1>8. CASE SingleLine
  BY <1>2, <1>8, SingleLineStep DEF SingleLine, SeekInv, MultiInv
<1>9. CASE SingleBlank
  BY <1>2, <1>9, SingleBlankStep DEF SingleBlank, SeekInv, MultiInv
<1>10. CASE SingleEnd
  BY <1>2, <1>10, SingleEndStep DEF SingleEnd, SeekInv, MultiInv, SingleInv
<1>11. CASE Extract
  BY <1>2, <1>11, SameSource DEF Extract, SeekInv, MultiInv, SingleInv, EndInv
<1>12. CASE UNCHANGED vars
  BY <1>2, <1>12, SameSource DEF vars, SeekInv, MultiInv, SingleInv, EndInv
<1> QED
  BY <1>3, <1>4, <1>5, <1>6, <1>7, <1>8, <1>9, <1>10, <1>11, <1>12 DEF Next

-----------------------------------------------------------------------------
(* What the comment says.                                                   *)

AttrNames == {"id", "hint", "help"}

\* The row of the entry that gives attribute a.
RowOf(a) == IF Matches(a) = {} THEN 0 ELSE lines[CHOOSE i \in Matches(a) : TRUE].row

\* An entry has a number that is too long.
HasBig == \E i \in DOMAIN lines : lines[i].text = << "@big" >>

\* The attributes are stored when there is at most one entry for each.
AttrInv ==
    /\ status # "done" => attrs = NoAttrs
    /\ status = "done" => /\ \A a \in AttrNames : Cardinality(Matches(a)) <= 1 /\ attrs[a] = RowOf(a)
    /\ status = "ParsingError" => \E a \in AttrNames : ~ (Cardinality(Matches(a)) <= 1)
    /\ status = "bad_lexical_cast" => HasBig

LEMMA AttrStep ==
    ASSUME RowInv, AttrInv, [Next]_vars
    PROVE  AttrInv'
<1>1. DOMAIN attrs = AttrNames
  BY DEF RowInv, TypeOK, AttrNames
<1>2. ASSUME attrs' = attrs, status = "scanning", status' \in {"scanning", "scanned"}
      PROVE  AttrInv'
  BY <1>2 DEF AttrInv
<1>3. CASE SeekBlockEnd \/ SeekLineComment \/ NoComment \/ SingleEnd
  BY <1>2, <1>3 DEF SeekBlockEnd, SeekLineComment, NoComment, SingleEnd
<1>4. CASE SeekBlank \/ SingleBlank \/ SingleLine \/ MultiLine
  <2>1. status = "scanning" /\ attrs' = attrs
    BY <1>4 DEF SeekBlank, SingleBlank, SingleLine, MultiLine
  <2>2. status' \in {"scanning", "scanned"}
    BY <1>4, <2>1 DEF SeekBlank, SingleBlank, SingleLine, MultiLine, Previous
  <2> QED
    BY <1>2, <2>1, <2>2
<1>5. CASE Extract
  <2>1. lines' = lines /\ status = "scanned" /\ attrs = NoAttrs
    BY <1>5 DEF Extract, AttrInv
  <2>2. \A a : Matches(a)' = Matches(a) /\ RowOf(a)' = RowOf(a)
    BY <2>1 DEF Matches, Params, RowOf, StartsWith
  <2>3. CASE TooBig /\ status' = "bad_lexical_cast" /\ attrs' = attrs
    <3>1. HasBig
      BY <2>3 DEF TooBig, HasBig, Matches, Params
    <3>2. HasBig'
      BY <2>1, <3>1 DEF HasBig
    <3> QED
      BY <2>1, <2>3, <3>2 DEF AttrInv, NoAttrs
  <2>4. CASE ~ Unambiguous /\ status' = "ParsingError" /\ attrs' = attrs
    <3>1. \E a \in AttrNames : ~ (Cardinality(Matches(a)) <= 1)
      BY <1>1, <2>4 DEF Unambiguous
    <3>2. PICK a \in AttrNames : ~ (Cardinality(Matches(a)) <= 1)
      BY <3>1
    <3>3. Matches(a)' = Matches(a)
      BY <2>2
    <3>4. ~ (Cardinality(Matches(a)) <= 1)'
      BY <3>2, <3>3
    <3> QED
      BY <2>1, <2>4, <3>4 DEF AttrInv, NoAttrs
  <2>5. CASE Unambiguous /\ attrs' = [a \in DOMAIN attrs |-> RowOf(a)] /\ status' = "done"
    <3>1. ASSUME NEW a \in AttrNames
          PROVE  (Cardinality(Matches(a)) <= 1)' /\ attrs'[a] = RowOf(a)'
      <4>1. Cardinality(Matches(a)) <= 1 /\ attrs'[a] = RowOf(a)
        BY <1>1, <2>5 DEF Unambiguous
      <4>2. Matches(a)' = Matches(a) /\ RowOf(a)' = RowOf(a)
        BY <2>2
      <4> QED
        BY <4>1, <4>2
    <3> QED
      BY <2>5, <3>1 DEF AttrInv
  <2> QED
    BY <1>5, <2>3, <2>4, <2>5 DEF Extract, RowOf
<1>6. CASE UNCHANGED vars
  <2>1. lines' = lines /\ status' = status /\ attrs' = attrs
    BY <1>6 DEF vars
  <2>2. \A a : Matches(a)' = Matches(a) /\ RowOf(a)' = RowOf(a)
    BY <2>1 DEF Matches, Params, RowOf, StartsWith
  <2>3. HasBig' = HasBig
    BY <2>1 DEF HasBig
  <2> QED
    BY <2>1, <2>2, <2>3 DEF AttrInv, NoAttrs
<1> QED
  BY <1>3, <1>4, <1>5, <1>6 DEF Next

\* An entry the code takes for a parameter is one, or a longer word, not both.
LEMMA MeansIs ==
    ASSUME NEW a \in AttrNames
    PROVE  Means(a) \cup Longer(a) = Params(Comment, a) /\ Means(a) \cap Longer(a) = {}
<1>1. CASE a = "id"
  BY <1>1 DEF Means, Longer, Params
<1>2. CASE a = "hint"
  <2>1. Word[a] = "@hint" /\ LongerWord[a] = "@hinting"
    BY <1>2 DEF Word, LongerWord
  <2> QED
    BY <1>2, <2>1 DEF Means, Longer, Params, StartsWith
<1>3. CASE a = "help"
  <2>1. Word[a] = "@help" /\ LongerWord[a] = "@helper"
    BY <1>3 DEF Word, LongerWord
  <2> QED
    BY <1>3, <2>1 DEF Means, Longer, Params, StartsWith
<1> QED
  BY <1>1, <1>2, <1>3 DEF AttrNames

\* The row of the chosen entry is the row of the only one.
LEMMA OnlyRow ==
    ASSUME NEW P, IsFiniteSet(P), Cardinality(P) <= 1, NEW r,
           r = (IF P = {} THEN 0 ELSE Comment[CHOOSE i \in P : TRUE].row)
    PROVE  RowIn(P, r)
<1>1. CASE P = {}
  BY <1>1 DEF RowIn
<1>2. CASE P # {}
  <2>1. Cardinality(P) = 1
    BY <1>2, FS_CardinalityType, FS_EmptySet
  <2>2. PICK x : P = {x}
    BY <2>1, FS_Singleton
  <2>3. (CHOOSE i \in P : TRUE) = x
    BY <2>2
  <2> QED
    BY <1>2, <2>2, <2>3 DEF RowIn
<1> QED
  BY <1>1, <1>2

\* The attributes are those of the comment.
LEMMA AttrsRightFrom ==
    ASSUME RowInv, Legal, ScanInv, AttrInv
    PROVE  AttrsRight
<1> SUFFICES ASSUME Clean, status \in {"done", "ParsingError", "bad_lexical_cast"}
             PROVE  AttrsRight
  BY DEF AttrsRight
<1>1. lines = Comment
  BY DEF ScanInv, EndInv, CleanSource, RowInv
<1>2. DOMAIN attrs = AttrNames
  BY DEF RowInv, TypeOK, AttrNames
<1>3. \A a : Matches(a) = Params(Comment, a)
  BY <1>1 DEF Matches
<1>4. ASSUME NEW a \in AttrNames
      PROVE  /\ IsFiniteSet(Params(Comment, a)) /\ Cardinality(Params(Comment, a)) \in Nat
  <2>1. lines \in Seq([row : 1..Len(src), text : Seq(Token)])
    BY DEF RowInv, TypeOK
  <2>2. IsFiniteSet(Params(lines, a))
    BY <2>1, ParamsIs
  <2> QED
    BY <1>1, <2>2, FS_CardinalityType
<1>5. CASE status = "done"
  <2>1. ASSUME NEW a \in AttrNames
        PROVE  IF Longer(a) = {} THEN RowIn(Means(a), attrs[a])
               ELSE Means(a) = {} /\ RowIn(Longer(a), attrs[a])
    <3> DEFINE P == Params(Comment, a)
    <3>1. Means(a) \cup Longer(a) = P /\ Means(a) \cap Longer(a) = {}
      BY MeansIs
    <3>2. attrs[a] = (IF P = {} THEN 0 ELSE Comment[CHOOSE i \in P : TRUE].row) /\ Cardinality(P) <= 1
      BY <1>1, <1>3, <1>5 DEF AttrInv, RowOf
    <3>3. IsFiniteSet(P)
      BY <1>4
    <3> HIDE DEF P
    <3>4. RowIn(P, attrs[a])
      BY <3>2, <3>3, OnlyRow
    <3>5. CASE Longer(a) = {}
      <4>1. Means(a) = P
        BY <3>1, <3>5
      <4> QED
        BY <3>4, <3>5, <4>1
    <3>6. CASE Longer(a) # {}
      <4>1. P # {}
        BY <3>1, <3>6
      <4>2. PICK x : P = {x}
        BY <3>4, <4>1 DEF RowIn
      <4>3. Longer(a) = P /\ Means(a) = {}
        BY <3>1, <3>6, <4>2
      <4> QED
        BY <3>4, <3>6, <4>3
    <3> QED
      BY <3>5, <3>6
  <2> QED
    BY <1>2, <1>5, <2>1 DEF AttrsRight
<1>6. CASE status = "ParsingError"
  <2>1. attrs = NoAttrs
    BY <1>6 DEF AttrInv
  <2>2. PICK a \in AttrNames : ~ (Cardinality(Params(Comment, a)) <= 1)
    BY <1>3, <1>6 DEF AttrInv
  <2>3. Cardinality(Params(Comment, a)) > 1
    BY <1>4, <2>2
  <2>4. Cardinality(Means(a) \cup Longer(a)) > 1
    BY <2>3, MeansIs
  <2> QED
    BY <1>2, <1>6, <2>1, <2>4 DEF AttrsRight
<1>7. CASE status = "bad_lexical_cast"
  BY <1>1, <1>7 DEF AttrsRight, AttrInv, HasBig
<1> QED
  BY <1>5, <1>6, <1>7

-----------------------------------------------------------------------------
(* The theorems.                                                            *)

ParserInv == RowInv /\ Legal /\ ScanInv /\ AttrInv

\* AttrParser::parse() keeps the inductive invariant: where it is in the file,
\* what it has found of the comment, and what it has taken from it.
THEOREM Scan == Spec => []ParserInv
<1>1. Init => ParserInv
  <2> SUFFICES ASSUME Init PROVE ParserInv
    OBVIOUS
  <2>1. AttrInv
    BY DEF Init, AttrInv
  <2> QED
    BY <2>1, InitRow, InitScan DEF ParserInv
<1>2. ParserInv /\ [Next]_vars => ParserInv'
  <2> SUFFICES ASSUME ParserInv, [Next]_vars PROVE ParserInv'
    OBVIOUS
  <2>1. RowInv /\ Legal /\ ScanInv /\ AttrInv
    BY DEF ParserInv
  <2>2. RowInv' /\ src' = src
    BY <2>1, RowStep
  <2>3. Legal'
    BY <2>1, <2>2, SameSource
  <2> QED
    BY <2>1, <2>2, <2>3, ScanStep, AttrStep DEF ParserInv
<1> QED
  BY <1>1, <1>2, PTL DEF Spec

\* AttrParser::parse() stays within the source file, whatever the file says.
THEOREM Types == Spec => []TypeOK
<1>1. ParserInv => TypeOK
  BY DEF ParserInv, RowInv
<1> QED
  BY <1>1, Scan, PTL

\* AttrParser::parse() finds the comment in front of the statement, all of it
\* and nothing else, in a source file of any length whose comments have no
\* delimiters in their text.
THEOREM Finding == Spec => []FindsCleanComment
<1>1. ParserInv => FindsCleanComment
  BY DEF ParserInv, RowInv, ScanInv, EndInv, CleanSource, FindsCleanComment
<1> QED
  BY <1>1, Scan, PTL

\* And it takes from it exactly the attributes the comment gives, or none when
\* the comment gives one twice, longer words counted in, or a number too long.
THEOREM Attributes == Spec => []AttrsRight
<1>1. ParserInv => AttrsRight
  BY AttrsRightFrom DEF ParserInv
<1> QED
  BY <1>1, Scan, PTL

=============================================================================
