--------------------------- MODULE LogPassProofs ---------------------------
(***************************************************************************)
(* Proofs about LogPass for any translation unit, any width of int and any *)
(* number of messages.                                                     *)
(*                                                                         *)
(* First, the search for a field of struct LogAttributes (findFieldDecl in *)
(* src/plugin/tree.cpp) ends, and finds a member if there is one, however  *)
(* deep anonymous structs and unions are nested.                           *)
(***************************************************************************)
EXTENDS LogPass, SequenceTheorems, FiniteSetTheorems, WellFoundedInduction, TLAPS

-----------------------------------------------------------------------------
(* Recursion over structs.                                                  *)

\* A step of a recursion over structs, to values in V: G gives the value at a
\* struct from the values at the structs inside.
Local(G, V) ==
    /\ V # {} /\ G \in [Structs \X [Structs -> V] -> V]
    /\ \A s \in Structs : \A f, g \in [Structs -> V] :
          (\A t \in Inside(s) : f[t] = g[t]) => G[<<s, f>>] = G[<<s, g>>]

\* f obeys G on A, which has what is inside of its structs.
Obeys(f, A, G) == \A s \in A : Inside(s) \subseteq A /\ f[s] = G[<<s, f>>]

\* Functions that obey G agree where they do.
LEMMA RecursionUnique ==
    ASSUME NEW V, NEW G, Local(G, V),
           NEW f \in [Structs -> V], NEW g \in [Structs -> V],
           NEW A \in SUBSET Structs, NEW B \in SUBSET Structs, Obeys(f, A, G), Obeys(g, B, G)
    PROVE  \A s \in A \cap B : f[s] = g[s]
<1> DEFINE T == {s \in A \cap B : f[s] # g[s]}
<1>1. SUFFICES ASSUME T # {} PROVE FALSE
  OBVIOUS
<1>2. T \in SUBSET Structs
  OBVIOUS
<1>3. PICK s \in T : Inside(s) \cap T = {}
  BY <1>1, <1>2, StructsAssumption
<1>4. \A t \in Inside(s) : t \in A \cap B /\ f[t] = g[t]
  BY <1>3 DEF Obeys
<1>5. G[<<s, f>>] = G[<<s, g>>]
  BY ZenonT(30), <1>3, <1>4 DEF Local
<1> QED
  BY <1>3, <1>5 DEF Obeys

\* There is a function that obeys G everywhere.
LEMMA RecursionExists ==
    ASSUME NEW V, NEW G, Local(G, V)
    PROVE  \E f \in [Structs -> V] : \A s \in Structs : f[s] = G[<<s, f>>]
<1> DEFINE Doms == {A \in SUBSET Structs : \E f \in [Structs -> V] : Obeys(f, A, G)}
           U == UNION Doms
           Is(s, v) == \E A \in Doms, f \in [Structs -> V] : s \in A /\ Obeys(f, A, G) /\ v = f[s]
           h == [s \in Structs |-> IF s \in U THEN CHOOSE v \in V : Is(s, v) ELSE CHOOSE v \in V : TRUE]
<1>1. \A s \in U : \E v \in V : Is(s, v)
  OBVIOUS
<1>2. h \in [Structs -> V]
  BY <1>1 DEF Local
<1>3. ASSUME NEW A \in Doms, NEW f \in [Structs -> V], Obeys(f, A, G), NEW s \in A
      PROVE  h[s] = f[s]
  <2>1. s \in U /\ s \in Structs
    BY <1>3
  <2>2. Is(s, h[s])
    BY <2>1, <1>1
  <2>3. PICK B \in Doms, g \in [Structs -> V] : s \in B /\ Obeys(g, B, G) /\ h[s] = g[s]
    BY <2>2
  <2>4. f[s] = g[s]
    BY <1>3, <2>3, RecursionUnique
  <2> QED
    BY <2>3, <2>4
<1>4. Obeys(h, U, G)
  <2> SUFFICES ASSUME NEW s \in U PROVE Inside(s) \subseteq U /\ h[s] = G[<<s, h>>]
    BY DEF Obeys
  <2>1. PICK A \in Doms : s \in A
    OBVIOUS
  <2>2. PICK f \in [Structs -> V] : Obeys(f, A, G)
    OBVIOUS
  <2>3. Inside(s) \subseteq A /\ f[s] = G[<<s, f>>]
    BY <2>1, <2>2 DEF Obeys
  <2>4. \A t \in Inside(s) \cup {s} : h[t] = f[t]
    BY <1>3, <2>1, <2>2, <2>3
  <2>5. G[<<s, h>>] = G[<<s, f>>]
    BY <1>2, <2>1, <2>4 DEF Local
  <2> QED
    BY <2>1, <2>3, <2>4, <2>5
<1>5. U = Structs
  <2> SUFFICES ASSUME Structs \ U # {} PROVE FALSE
    OBVIOUS
  <2>1. PICK s \in Structs \ U : Inside(s) \cap (Structs \ U) = {}
    BY StructsAssumption
  <2>2. Inside(s) \subseteq U
    BY <2>1, StructsAssumption
  <2> DEFINE f == [h EXCEPT ![s] = G[<<s, h>>]]
  <2>3. f \in [Structs -> V]
    BY <1>2, <2>1 DEF Local
  <2>4. f[s] = G[<<s, h>>] /\ \A t \in U : f[t] = h[t]
    BY <1>2, <2>1
  <2> HIDE DEF f, h, U
  <2>5. \A t \in U \cup {s} : Inside(t) \subseteq U /\ t \in Structs
    BY <1>4, <2>1, <2>2 DEF Obeys, U
  <2>6. \A t \in U \cup {s} : G[<<t, f>>] = G[<<t, h>>]
    BY ZenonT(30), <1>2, <2>3, <2>4, <2>5 DEF Local
  <2>7. Obeys(f, U \cup {s}, G)
    BY <1>4, <2>4, <2>5, <2>6 DEF Obeys
  <2>8. U \cup {s} \in Doms
    BY <2>3, <2>5, <2>7
  <2> HIDE DEF Doms
  <2>9. s \in U
    BY <2>8 DEF U
  <2> QED
    BY <2>1, <2>9
<1> HIDE DEF h, U
<1> QED
  BY <1>2, <1>4, <1>5 DEF Obeys

-----------------------------------------------------------------------------
(* The search.                                                              *)

\* What the definitions of findFieldDecl and Members do at one struct.
InnerOf(f, s, i) == IF s[i].name = "" THEN f[s[i].fields] ELSE << >>
Hits(f, s, n) == {i \in DOMAIN s : s[i].name = n \/ InnerOf(f, s, i) # << >>}
FindStep(f, s, n) ==
    IF Hits(f, s, n) = {} THEN << >>
    ELSE << Least(Hits(f, s, n)) >> \o InnerOf(f, s, Least(Hits(f, s, n)))
MembersStep(M, s, n) ==
    UNION {IF s[i].name = n THEN {<< i >>}
           ELSE IF s[i].name = "" THEN {<< i >> \o p : p \in M[s[i].fields]} ELSE {} :
           i \in DOMAIN s}

\* A set of positions has a first one.
LEMMA LeastIn ==
    ASSUME NEW S \in SUBSET Nat, S # {}
    PROVE  Least(S) \in S /\ \A i \in S : Least(S) <= i
<1>1. PICK i \in S : \A j \in S : ~ (<<j, i>> \in OpToRel(<, Nat))
  BY NatLessThanWellFounded, WFMin
<1>2. ASSUME NEW j \in S, ~ (i <= j) PROVE FALSE
  <2>1. j \in Nat /\ i \in Nat /\ j < i
    BY <1>2
  <2>2. <<j, i>> \in OpToRel(<, Nat)
    BY <2>1, Zenon DEF OpToRel
  <2> QED
    BY <1>1, <2>2
<1> QED
  BY <1>2 DEF Least

\* The structs inside are the fields of the anonymous ones.
LEMMA InsideIs ==
    ASSUME NEW s \in Structs
    PROVE  /\ DOMAIN s \subseteq Nat
           /\ \A i \in DOMAIN s : s[i].name = "" => /\ s[i].fields \in Inside(s)
                                                    /\ s[i].fields \in Structs
<1>1. s \in Seq([name : STRING, fields : Structs \cup {<< >>}])
  BY StructsAssumption
<1>2. DOMAIN s \subseteq Nat
  BY <1>1
<1>3. \A i \in DOMAIN s : s[i].name = "" => s[i].fields \in Inside(s)
  BY DEF Inside
<1> QED
  BY <1>2, <1>3, StructsAssumption

\* findFieldDecl obeys its step.
LEMMA FindRecursion ==
    ASSUME NEW n
    PROVE  \E f \in [Structs -> Seq(Nat)] :
              \A s \in Structs : f[s] = FindStep(f, s, n) /\ findFieldDecl(s, n) = f[s]
<1> DEFINE V == Seq(Nat)
           G == [a \in Structs \X [Structs -> V] |-> FindStep(a[2], a[1], n)]
<1>1. ASSUME NEW s \in Structs, NEW f \in [Structs -> V]
      PROVE  FindStep(f, s, n) \in V
  <2>1. \A i \in DOMAIN s : InnerOf(f, s, i) \in V
    <3> TAKE i \in DOMAIN s
    <3>1. s[i].name = "" => s[i].fields \in Structs
      BY InsideIs, Zenon
    <3>2. << >> \in V
      BY EmptySeq
    <3> HIDE DEF V
    <3> QED
      BY <3>1, <3>2 DEF InnerOf
  <2>2. Hits(f, s, n) # {} => Least(Hits(f, s, n)) \in DOMAIN s /\ Least(Hits(f, s, n)) \in Nat
    BY InsideIs, LeastIn DEF Hits
  <2> QED
    BY <2>1, <2>2 DEF FindStep
<1>2. ASSUME NEW s \in Structs, NEW f, NEW g, \A t \in Inside(s) : f[t] = g[t]
      PROVE  FindStep(f, s, n) = FindStep(g, s, n)
  <2>1. \A i \in DOMAIN s : InnerOf(f, s, i) = InnerOf(g, s, i)
    <3> TAKE i \in DOMAIN s
    <3>1. s[i].name = "" => s[i].fields \in Inside(s)
      BY InsideIs, Zenon
    <3> QED
      BY <1>2, <3>1 DEF InnerOf
  <2>2. Hits(f, s, n) = Hits(g, s, n)
    BY <2>1 DEF Hits
  <2>3. Hits(f, s, n) # {} => Least(Hits(f, s, n)) \in DOMAIN s
    BY InsideIs, LeastIn DEF Hits
  <2> QED
    BY <2>1, <2>2, <2>3 DEF FindStep
<1>3. Local(G, V)
  <2>1. V # {}
    BY EmptySeq
  <2>2. G \in [Structs \X [Structs -> V] -> V]
    BY <1>1
  <2>3. \A s \in Structs, f \in [Structs -> V] : G[<<s, f>>] = FindStep(f, s, n)
    OBVIOUS
  <2> HIDE DEF G, V
  <2> QED
    BY <1>2, <2>1, <2>2, <2>3 DEF Local
<1>4. PICK f \in [Structs -> V] : \A s \in Structs : f[s] = FindStep(f, s, n)
  <2> HIDE DEF G, V
  <2>1. PICK f \in [Structs -> V] : \A s \in Structs : f[s] = G[<<s, f>>]
    BY <1>3, RecursionExists
  <2> QED
    BY <2>1 DEF G
<1>5. f = [s \in Structs |-> FindStep(f, s, n)]
  BY <1>4
<1> DEFINE found == CHOOSE g : g = [s \in Structs |-> FindStep(g, s, n)]
<1>6. found = [s \in Structs |-> FindStep(found, s, n)]
  BY <1>5
<1>7. \A s : findFieldDecl(s, n) = found[s]
  BY DEF findFieldDecl, FindStep, Hits, InnerOf
<1> HIDE DEF found
<1>8. \A s \in Structs : found[s] = FindStep(found, s, n)
  BY <1>6, Zenon
<1>9. \A s \in Structs : found[s] \in V
  <2> DEFINE T == {s \in Structs : found[s] \notin V}
             g == [s \in Structs |-> IF found[s] \in V THEN found[s] ELSE << >>]
  <2> SUFFICES ASSUME T # {} PROVE FALSE
    OBVIOUS
  <2>1. PICK s \in T : Inside(s) \cap T = {}
    BY StructsAssumption
  <2>2. \A t \in Inside(s) : found[t] = g[t]
    BY <2>1, StructsAssumption
  <2>3. g \in [Structs -> V]
    BY EmptySeq
  <2> HIDE DEF g, V
  <2>4. FindStep(found, s, n) = FindStep(g, s, n)
    BY <1>2, <2>2
  <2> QED
    BY <1>1, <1>8, <2>1, <2>3, <2>4
<1>10. found \in [Structs -> V]
  BY <1>6, <1>9
<1> QED
  BY <1>7, <1>8, <1>10

\* A way through one struct more.
LEMMA Prepend ==
    ASSUME NEW i \in Nat, NEW p \in Seq(Nat)
    PROVE  /\ << i >> \in Seq(Nat) /\ << i >> # << >> /\ << i >> \o << >> = << i >>
           /\ << i >> \o p \in Seq(Nat) /\ << i >> \o p # << >>
<1>1. << i >> \in Seq(Nat) /\ Len(<< i >>) = 1
  OBVIOUS
<1>2. << i >> \o p \in Seq(Nat) /\ Len(<< i >> \o p) = 1 + Len(p) /\ Len(p) \in Nat
  BY <1>1, ConcatProperties, LenProperties
<1>3. << i >> \o << >> = << i >>
  BY <1>1, ConcatEmptySeq
<1> QED
  BY <1>1, <1>2, <1>3

\* Members obeys its step.
LEMMA MembersRecursion ==
    ASSUME NEW n
    PROVE  \E M \in [Structs -> SUBSET Seq(Nat)] :
              \A s \in Structs : M[s] = MembersStep(M, s, n) /\ Members(s, n) = M[s]
<1> DEFINE V == SUBSET Seq(Nat)
           G == [a \in Structs \X [Structs -> V] |-> MembersStep(a[2], a[1], n)]
           Ways(M, s, i) == IF s[i].name = n THEN {<< i >>}
                            ELSE IF s[i].name = "" THEN {<< i >> \o p : p \in M[s[i].fields]} ELSE {}
<1>1. ASSUME NEW s \in Structs, NEW M, \A t \in Inside(s) : M[t] \in V
      PROVE  MembersStep(M, s, n) \in V
  <2>1. ASSUME NEW i \in DOMAIN s PROVE Ways(M, s, i) \in V
    <3>1. i \in Nat /\ << i >> \in Seq(Nat)
      <4>1. i \in Nat
        BY InsideIs, Zenon
      <4> QED
        BY <4>1, Prepend, EmptySeq
    <3>2. s[i].name = "" => M[s[i].fields] \in V
      BY <1>1, InsideIs, Zenon
    <3>3. \A p \in Seq(Nat) : << i >> \o p \in Seq(Nat)
      BY <3>1, Prepend
    <3> QED
      BY <3>1, <3>2, <3>3
  <2> QED
    BY <2>1 DEF MembersStep
<1>2. ASSUME NEW s \in Structs, NEW f, NEW g, \A t \in Inside(s) : f[t] = g[t]
      PROVE  MembersStep(f, s, n) = MembersStep(g, s, n)
  <2>1. ASSUME NEW i \in DOMAIN s PROVE Ways(f, s, i) = Ways(g, s, i)
    <3>1. s[i].name = "" => f[s[i].fields] = g[s[i].fields]
      BY <1>2, InsideIs, Zenon
    <3> QED
      BY <3>1
  <2>2. MembersStep(f, s, n) = UNION {Ways(f, s, i) : i \in DOMAIN s}
    BY DEF MembersStep
  <2>3. MembersStep(g, s, n) = UNION {Ways(g, s, i) : i \in DOMAIN s}
    BY DEF MembersStep
  <2> HIDE DEF Ways
  <2> QED
    BY <2>1, <2>2, <2>3
<1>3. Local(G, V)
  <2>1. G \in [Structs \X [Structs -> V] -> V]
    BY <1>1, StructsAssumption
  <2>2. \A s \in Structs, f \in [Structs -> V] : G[<<s, f>>] = MembersStep(f, s, n)
    OBVIOUS
  <2>3. V # {}
    OBVIOUS
  <2> HIDE DEF G, V
  <2> QED
    BY <1>2, <2>1, <2>2, <2>3 DEF Local
<1>4. PICK f \in [Structs -> V] : \A s \in Structs : f[s] = MembersStep(f, s, n)
  <2> HIDE DEF G, V
  <2>1. PICK f \in [Structs -> V] : \A s \in Structs : f[s] = G[<<s, f>>]
    BY <1>3, RecursionExists
  <2> QED
    BY <2>1 DEF G
<1>5. f = [s \in Structs |-> MembersStep(f, s, n)]
  BY <1>4
<1> DEFINE M == CHOOSE g : g = [s \in Structs |-> MembersStep(g, s, n)]
<1>6. M = [s \in Structs |-> MembersStep(M, s, n)]
  BY <1>5
<1>7. \A s : Members(s, n) = M[s]
  BY DEF Members, MembersStep
<1> HIDE DEF M, V
<1>8. \A s \in Structs : M[s] = MembersStep(M, s, n)
  BY <1>6, Zenon
<1>9. \A s \in Structs : M[s] \in V
  <2> DEFINE T == {s \in Structs : M[s] \notin V}
  <2> SUFFICES ASSUME T # {} PROVE FALSE
    OBVIOUS
  <2>1. PICK s \in T : Inside(s) \cap T = {}
    BY StructsAssumption
  <2>2. \A t \in Inside(s) : M[t] \in V
    BY <2>1, StructsAssumption
  <2> QED
    BY <1>1, <1>8, <2>1, <2>2
<1>10. M \in [Structs -> V]
  BY <1>6, <1>9
<1> QED
  BY <1>7, <1>8, <1>10 DEF V

\* findFieldDecl() (src/plugin/tree.cpp) returns the way to a member of the
\* name it is asked for if the struct has one, and nothing if it has none.
THEOREM FieldSearch ==
    ASSUME NEW n, n # ""
    PROVE  \A s \in Structs :
              /\ findFieldDecl(s, n) \in Seq(Nat)
              /\ IF Members(s, n) = {} THEN findFieldDecl(s, n) = << >>
                 ELSE findFieldDecl(s, n) \in Members(s, n) /\ findFieldDecl(s, n) # << >>
<1>1. PICK found \in [Structs -> Seq(Nat)] :
              \A s \in Structs : found[s] = FindStep(found, s, n) /\ findFieldDecl(s, n) = found[s]
  BY FindRecursion, Zenon
<1>2. PICK M \in [Structs -> SUBSET Seq(Nat)] :
              \A s \in Structs : M[s] = MembersStep(M, s, n) /\ Members(s, n) = M[s]
  BY MembersRecursion, Zenon
<1> DEFINE Right(s) == /\ << >> \notin M[s]
                       /\ IF M[s] = {} THEN found[s] = << >> ELSE found[s] \in M[s]
<1>3. ASSUME NEW s \in Structs, \A t \in Inside(s) : Right(t)
      PROVE  Right(s)
  <2> DEFINE Ways(i) == IF s[i].name = n THEN {<< i >>}
                        ELSE IF s[i].name = "" THEN {<< i >> \o p : p \in M[s[i].fields]} ELSE {}
  <2>1. M[s] = UNION {Ways(i) : i \in DOMAIN s}
    BY <1>2 DEF MembersStep
  <2>2. ASSUME NEW i \in DOMAIN s
        PROVE  /\ << >> \notin Ways(i)
               /\ i \in Hits(found, s, n) <=> Ways(i) # {}
               /\ i \in Hits(found, s, n) => << i >> \o InnerOf(found, s, i) \in Ways(i)
    <3>1. i \in Nat
      BY InsideIs, Zenon
    <3>2. CASE s[i].name = n
      <4>1. InnerOf(found, s, i) = << >> /\ i \in Hits(found, s, n) /\ Ways(i) = {<< i >>}
        BY <3>2 DEF InnerOf, Hits
      <4>2. << i >> \o << >> = << i >> /\ << i >> # << >>
        BY <3>1, Prepend, EmptySeq
      <4> QED
        BY <4>1, <4>2
    <3>3. CASE s[i].name # n /\ s[i].name = ""
      <4> DEFINE t == s[i].fields
      <4>1. Right(t) /\ t \in Structs
        BY <1>3, <3>3, InsideIs, Zenon
      <4>2. InnerOf(found, s, i) = found[t] /\ Ways(i) = {<< i >> \o p : p \in M[t]}
        BY <3>3 DEF InnerOf
      <4>3. i \in Hits(found, s, n) <=> found[t] # << >>
        BY <3>3, <4>2 DEF Hits
      <4>4. \A p \in M[t] : << i >> \o p # << >>
        <5> TAKE p \in M[t]
        <5>1. M[t] \subseteq Seq(Nat)
          BY <1>2, <4>1
        <5> QED
          BY <3>1, <5>1, Prepend
      <4> HIDE DEF t, Ways
      <4> QED
        BY <4>1, <4>2, <4>3, <4>4
    <3>4. CASE s[i].name # n /\ s[i].name # ""
      BY <3>4 DEF InnerOf, Hits
    <3> QED
      BY <3>2, <3>3, <3>4
  <2>3. << >> \notin M[s]
    BY <2>1, <2>2
  <2>4. Hits(found, s, n) \subseteq DOMAIN s /\ DOMAIN s \subseteq Nat
    BY InsideIs DEF Hits
  <2>5. CASE Hits(found, s, n) = {}
    <3>1. found[s] = << >>
      BY <1>1, <2>5 DEF FindStep
    <3>2. M[s] = {}
      BY <2>1, <2>2, <2>5
    <3> QED
      BY <2>3, <3>1, <3>2
  <2>6. CASE Hits(found, s, n) # {}
    <3> DEFINE i == Least(Hits(found, s, n))
    <3>1. i \in Hits(found, s, n)
      BY <2>4, <2>6, LeastIn
    <3>2. found[s] = << i >> \o InnerOf(found, s, i)
      BY <1>1, <2>6 DEF FindStep
    <3> HIDE DEF i
    <3>3. found[s] \in Ways(i) /\ i \in DOMAIN s
      BY <2>2, <2>4, <3>1, <3>2
    <3>4. found[s] \in M[s]
      BY <2>1, <3>3
    <3> QED
      BY <2>3, <3>4
  <2> QED
    BY <2>5, <2>6
<1>4. \A s \in Structs : Right(s)
  <2> DEFINE T == {s \in Structs : ~ Right(s)}
  <2> HIDE DEF Right
  <2> SUFFICES ASSUME T # {} PROVE FALSE
    OBVIOUS
  <2>1. PICK s \in T : Inside(s) \cap T = {}
    BY StructsAssumption
  <2>2. \A t \in Inside(s) : Right(t)
    BY <2>1, StructsAssumption
  <2> QED
    BY <1>3, <2>1, <2>2
<1> QED
  BY <1>1, <1>2, <1>4

-----------------------------------------------------------------------------
(* The inductive invariant.                                                 *)

\* The pass knows where the arguments of declaration u are.
Described(u) ==
    \E i \in FmtArgIndexes(prog.decls[u]) :
        /\ i >= 0 /\ GoodSignature(prog.decls[u].params, i)
        /\ logFuncs[u].fn = makeLogFunc(prog.decls[u].params, i)

\* A compilation gets to the pass, and to an object file, without errors and
\* with all of its declarations seen.  Unless an attribute was in error, the
\* pass knows the functions that have it, and no others.
ParseInv ==
    /\ phase = "load" => ~errors /\ seen = 0
    /\ phase \in {"pass", "object"} => ~errors
    /\ phase \in {"pass", "emit", "object"} /\ ~errors => seen = Len(prog.decls)
    /\ \A u \in DOMAIN prog.decls : u > seen => logFuncs[u].status = "none"
    /\ ~errors /\ phase # "aborted" =>
          \A u \in 1..seen : IF prog.decls[u].attributed
                             THEN /\ logFuncs[u].status \in {"declared", "resolved"}
                                  /\ Described(u)
                             ELSE logFuncs[u].status = "none"

\* The calls that have been rewritten are those of the messages collected, one
\* each, and before the object file is written their IDs are registered.
PassInv ==
    /\ phase \in {"load", "parse"} => next = 1 /\ msgList = << >>
    /\ \A i \in DOMAIN unit : i >= next => stmts[i] = Untouched(i)
    /\ \A m \in DOMAIN msgList : /\ msgList[m].key = KeyOf(unit[msgList[m].call])
                                 /\ stmts[msgList[m].call].assigns # << >>
    /\ \A m, n \in DOMAIN msgList : msgList[m].call = msgList[n].call => m = n
    /\ \A i \in DOMAIN unit :
          stmts[i].assigns # << >> => \E m \in DOMAIN msgList : msgList[m].call = i
    /\ phase = "emit" /\ ~errors =>
          \A i \in DOMAIN unit : stmts[i].assigns # << >> =>
              [key |-> KeyOf(unit[i]), id |-> stmts[i].assigns[1].value] \in registry
    /\ phase = "object" => issued \subseteq registry
    /\ phase # "object" => issued = {}

\* Call i rewritten, with this ID.
Marked(i, stmt, id) ==
    LET d == prog.decls[First(unit[i].fn)]
        n == Number(d.args[2])
    IN  /\ stmt.args = [unit[i].args EXCEPT ![n] = "specs"]
        /\ \E j \in Others(d.params, n), p \in Members(prog.struct, "id"),
              q \in Members(prog.struct, "has_id") :
              stmt.assigns = << [variable |-> j, field |-> p, value |-> id],
                                [variable |-> j, field |-> q, value |-> 1] >>

\* The pass has found the fields of LogAttributes before it rewrites a call.
FoundInv == \A u \in DOMAIN prog.decls : logFuncs[u].status = "resolved" => FieldsFound

\* The pass rewrites the calls that log a message with a placeholder, and once
\* it is over they have IDs.
MarkInv ==
    InRange /\ hasIndex /\ ~errors =>
        /\ phase = "pass" =>
              \A i \in DOMAIN unit : i < next =>
                  IF LogsMessage(i) THEN Marked(i, stmts[i], INVALID_MSG_ID)
                  ELSE stmts[i] = Untouched(i)
        /\ phase \in {"emit", "object"} =>
              \A i \in DOMAIN unit :
                  IF LogsMessage(i) THEN \E id \in 1..MaxId : Marked(i, stmts[i], id)
                  ELSE stmts[i] = Untouched(i)

-----------------------------------------------------------------------------
(* The attribute.                                                           *)

\* Bounds of the integer types.
LEMMA IntRange ==
    /\ IntMax \in Nat /\ IntMin \in Int /\ Int64Max \in Int /\ IntMin = -IntMax - 1
    /\ \A n \in IntMin..IntMax : Truncate(n) = n /\ n <= Int64Max
<1>1. IntMax \in Nat /\ IntMin \in Int /\ Int64Max \in Int /\ IntMin = -IntMax - 1
  BY IntMaxAssumption DEF IntMin, Int64Max
<1>2. \A n \in IntMin..IntMax : Truncate(n) = n
  BY <1>1 DEF Truncate
<1>3. (IntMax + 1) * (IntMax + 1) >= IntMax + 1
  BY <1>1
<1>4. \A n \in IntMin..IntMax : n <= Int64Max
  BY <1>1, <1>3 DEF Int64Max
<1> QED
  BY <1>1, <1>2, <1>4

\* What toInt() does with each type.
LEMMA IntToInt ==
    ASSUME NEW v, v.type = "INT"
    PROVE  toInt(v) = {v.num}
BY SMT DEF toInt

LEMMA DoubleToInt ==
    ASSUME NEW v, v.type = "DOUBLE"
    PROVE  /\ v.num \in IntMin..IntMax => toInt(v) = {v.num}
           /\ toInt(v) \subseteq {v.num} \cup IntMin..IntMax
BY DEF toInt

LEMMA StringToInt ==
    ASSUME NEW v, v.type = "STRING"
    PROVE  toInt(v) = {Spelled[s] : s \in {v.str} \cap DOMAIN Spelled} \cap IntMin..IntMax
BY DEF toInt

\* The numbers that fit an int are read as they are written.
LEMMA NumberRead ==
    ASSUME NEW t \in Tree, Numeric(t) => Number(t) \in IntMin..IntMax
    PROVE  IF Numeric(t) THEN ~constThrows(t) /\ toInt(constVal(t)) = {Number(t)}
           ELSE constThrows(t) \/ toInt(constVal(t)) = {}
<1>1. CASE t.code = "INTEGER_CST"
  <2>1. constVal(t) = [type |-> "INT", num |-> Truncate(t.num), str |-> ""]
    BY <1>1 DEF constVal
  <2>2. Numeric(t) /\ Number(t) = t.num
    BY <1>1 DEF Numeric, Number
  <2>3. toInt(constVal(t)) = {Truncate(t.num)}
    BY <2>1, IntToInt
  <2> QED
    BY <1>1, <2>2, <2>3, IntRange DEF constThrows
<1>2. CASE t.code = "REAL_CST"
  <2>1. constVal(t) = [type |-> "DOUBLE", num |-> t.num, str |-> ""]
    BY <1>2 DEF constVal
  <2>2. Numeric(t) /\ Number(t) = t.num
    BY <1>2 DEF Numeric, Number
  <2>3. toInt(constVal(t)) = {t.num}
    BY <2>1, <2>2, DoubleToInt
  <2> QED
    BY <1>2, <2>2, <2>3 DEF constThrows
<1>3. CASE t.code = "STRING_CST"
  <2>1. constVal(t) = [type |-> "STRING", num |-> 0, str |-> t.str]
    BY <1>3 DEF constVal, String
  <2>2. toInt(constVal(t)) = {Spelled[s] : s \in {t.str} \cap DOMAIN Spelled} \cap IntMin..IntMax
    BY <2>1, StringToInt
  <2>3. Numeric(t) <=> t.str \in DOMAIN Spelled
    BY <1>3 DEF Numeric
  <2>4. Number(t) = Spelled[t.str]
    BY <1>3 DEF Number
  <2> QED
    BY <1>3, <2>2, <2>3, <2>4 DEF constThrows
<1>4. CASE t = NotConstant
  BY <1>4 DEF NotConstant, constThrows, Numeric
<1> QED
  BY <1>1, <1>2, <1>3, <1>4 DEF Tree

\* Only the string names the handler.
LEMMA DispatchIs ==
    ASSUME NEW t \in Tree
    PROVE  ~constThrows(t) /\ toString(constVal(t)) = "log_function" <=> t = Text("log_function")
<1>1. CASE t.code \in {"INTEGER_CST", "REAL_CST"}
  <2>1. constVal(t).type \in {"INT", "DOUBLE"}
    BY <1>1 DEF constVal
  <2>2. toString(constVal(t)) = "digits"
    BY <2>1 DEF toString
  <2> QED
    BY <1>1, <2>2 DEF Text
<1>2. CASE t.code = "STRING_CST"
  <2>1. constVal(t) = [type |-> "STRING", num |-> 0, str |-> t.str]
    BY <1>2 DEF constVal, String
  <2>2. toString(constVal(t)) = t.str
    BY <2>1 DEF toString
  <2>3. t \notin [code : {"INTEGER_CST", "REAL_CST"}, num : Int, str : {""}]
    BY <1>2
  <2>4. t # NotConstant
    <3>1. NotConstant.code = "OTHER"
      BY DEF NotConstant
    <3> QED
      BY <1>2, <3>1
  <2>5. t \in [code : {"STRING_CST"}, num : {0}, str : STRING]
    BY <2>3, <2>4 DEF Tree
  <2> QED
    BY <1>2, <2>2, <2>5 DEF Text, constThrows
<1>3. CASE t = NotConstant
  BY <1>3 DEF NotConstant, Text, constThrows
<1> QED
  BY <1>1, <1>2, <1>3 DEF Tree

\* A set with one element is a singleton.
LEMMA OneElement ==
    ASSUME NEW S
    PROVE  IsFiniteSet(S) /\ Cardinality(S) = 1 <=> \E x : S = {x}
BY FS_Singleton

LEMMA AttrArgsFinite ==
    ASSUME NEW ps \in Seq(ParamType), NEW i
    PROVE  IsFiniteSet(AttrArgs(ps, i)) /\ AttrArgs(ps, i) \subseteq DOMAIN ps /\ DOMAIN ps \subseteq Nat \ {0}
<1>1. DOMAIN ps = 1..Len(ps) /\ Len(ps) \in Nat
  BY LenProperties
<1>2. IsFiniteSet(1..Len(ps))
  BY <1>1, FS_Interval
<1>3. AttrArgs(ps, i) \subseteq DOMAIN ps
  BY DEF AttrArgs
<1> QED
  BY <1>1, <1>2, <1>3, FS_Subset

\* The parameter of LogAttributes* that is not the format argument.
LEMMA SignatureIs ==
    ASSUME NEW ps \in Seq(ParamType), NEW i \in Nat
    PROVE  /\ GoodSignature(ps, i) <=>
                 /\ i + 1 \in DOMAIN ps /\ ps[i + 1] \in {"const_char*", "char*", "char&"}
                 /\ \E j \in DOMAIN ps : Others(ps, i + 1) = {j}
           /\ GoodSignature(ps, i) =>
                 /\ makeLogFunc(ps, i) \in [fmtArgIndex : Nat, attrArgIndex : Nat]
                 /\ makeLogFunc(ps, i).fmtArgIndex = i
                 /\ Others(ps, i + 1) = {makeLogFunc(ps, i).attrArgIndex + 1}
<1>1. AttrArgs(ps, i) = Others(ps, i + 1)
  BY DEF AttrArgs, Others
<1>2. IsFiniteSet(AttrArgs(ps, i)) /\ AttrArgs(ps, i) \subseteq DOMAIN ps /\ DOMAIN ps \subseteq Nat \ {0}
  BY AttrArgsFinite
<1>3. Cardinality(AttrArgs(ps, i)) = 1 <=> \E j \in DOMAIN ps : Others(ps, i + 1) = {j}
  BY <1>1, <1>2, OneElement
<1>4. ASSUME GoodSignature(ps, i)
      PROVE  /\ makeLogFunc(ps, i) \in [fmtArgIndex : Nat, attrArgIndex : Nat]
             /\ makeLogFunc(ps, i).fmtArgIndex = i
             /\ Others(ps, i + 1) = {makeLogFunc(ps, i).attrArgIndex + 1}
  <2>1. PICK j \in DOMAIN ps : AttrArgs(ps, i) = {j}
    BY <1>1, <1>3, <1>4 DEF GoodSignature
  <2>2. (CHOOSE k \in AttrArgs(ps, i) : TRUE) = j
    BY <2>1
  <2>3. makeLogFunc(ps, i) = [fmtArgIndex |-> i, attrArgIndex |-> j - 1]
    BY <2>2 DEF makeLogFunc
  <2>4. j \in Nat \ {0}
    BY <1>2
  <2> QED
    BY <1>1, <2>1, <2>3, <2>4
<1> QED
  BY <1>3, <1>4 DEF GoodSignature, isConstCharPtr

\* What compiles is declared with a char there, of whatever kind.
LEMMA CompiledIs ==
    ASSUME NEW d
    PROVE  Compiled(d) <=> Declared(d, {"const_char*", "char*", "char&"})
<1> DEFINE t == d.params[Number(d.args[2])]
<1>1. t \in {"const_char*", "char*", "char&"} <=> t \in {"const_char*"} \/ t \in {"char*", "char&"}
  OBVIOUS
<1> QED
  BY <1>1 DEF Compiled, WellDeclared, CharInstead, Declared

\* A declaration the code accepts is one that compiles, and the code has the
\* argument it names.
LEMMA AcceptedIsRight ==
    ASSUME NEW d \in Decl, Len(d.params) <= IntMax,
           \A n \in DOMAIN d.args : Numeric(d.args[n]) => Number(d.args[n]) \in IntMin..IntMax,
           NEW i \in FmtArgIndexes(d), i >= 0, GoodSignature(d.params, i)
    PROVE  Compiled(d) /\ i \in Nat /\ Number(d.args[2]) = i + 1
<1> DEFINE t == d.args[2]
<1>1. d.args \in Seq(Tree) /\ d.params \in Seq(ParamType)
  BY DEF Decl
<1>2. /\ ConstantArgs(d) /\ Dispatch(d) = "log_function"
      /\ d.node = "FUNCTION_DECL" /\ Len(d.args) = 2 /\ toInt(constVal(t)) # {}
      /\ \E n \in toInt(constVal(t)) : i \in ZeroBased(n)
  <2>1. i # -1
    OBVIOUS
  <2> QED
    BY <2>1 DEF FmtArgIndexes
<1>3. 1 \in DOMAIN d.args /\ 2 \in DOMAIN d.args /\ d.args[1] \in Tree /\ t \in Tree
  BY <1>1, <1>2
<1>4. d.args[1] = Text("log_function")
  BY <1>2, <1>3, DispatchIs DEF ConstantArgs, Dispatch
<1>5. Numeric(t) /\ toInt(constVal(t)) = {Number(t)} /\ Number(t) \in IntMin..IntMax
  BY <1>2, <1>3, NumberRead DEF ConstantArgs
<1>6. i \in ZeroBased(Number(t))
  BY <1>2, <1>5
<1>7. DOMAIN d.params = 1..Len(d.params) /\ Len(d.params) \in Nat
  BY <1>1
<1>8. i + 1 \in DOMAIN d.params
  BY DEF GoodSignature
<1>9. Number(t) \in Int /\ i \in Nat /\ Number(t) = i + 1
  <2>1. Number(t) \in Int /\ IntMin \in Int /\ IntMax \in Nat
    BY <1>5, IntRange
  <2>2. CASE Number(t) = IntMin
    <3>1. i = IntMax
      BY <1>6, <2>2 DEF ZeroBased
    <3> QED
      BY <1>7, <1>8, <2>1, <3>1
  <2>3. CASE Number(t) # IntMin
    BY <1>6, <2>1, <2>3 DEF ZeroBased
  <2> QED
    BY <2>2, <2>3
<1>10. \E j \in DOMAIN d.params : Others(d.params, i + 1) = {j}
  BY <1>1, <1>9, SignatureIs
<1>11. d.params[i + 1] \in {"const_char*", "char*", "char&"}
  BY DEF GoodSignature, isConstCharPtr
<1> QED
  BY <1>2, <1>4, <1>5, <1>8, <1>9, <1>10, <1>11, CompiledIs DEF Declared

\* And what compiles is accepted.
LEMMA RightIsAccepted ==
    ASSUME NEW d \in Decl, Len(d.params) <= IntMax, Compiled(d)
    PROVE  \A i \in FmtArgIndexes(d) : i \in Nat /\ GoodSignature(d.params, i)
<1> DEFINE t == d.args[2]
           n == Number(t)
<1>1. d.args \in Seq(Tree) /\ d.params \in Seq(ParamType)
  BY DEF Decl
<1>2. /\ d.node = "FUNCTION_DECL" /\ Len(d.args) = 2 /\ d.args[1] = Text("log_function")
      /\ Numeric(t) /\ n \in DOMAIN d.params /\ d.params[n] \in {"const_char*", "char*", "char&"}
      /\ \E j \in DOMAIN d.params : Others(d.params, n) = {j}
  BY CompiledIs DEF Declared
<1>3. DOMAIN d.params = 1..Len(d.params) /\ Len(d.params) \in Nat /\ DOMAIN d.args = 1..2
  BY <1>1, <1>2
<1>4. IntMax \in Nat /\ IntMin = -IntMax - 1
  BY IntRange
<1>5. n \in 1..IntMax /\ n \in IntMin..IntMax
  BY <1>2, <1>3, <1>4
<1>6. t \in Tree /\ d.args[1] \in Tree
  BY <1>1, <1>2
<1>7. ~constThrows(t) /\ toInt(constVal(t)) = {n}
  BY <1>2, <1>5, <1>6, NumberRead
<1>8. ~constThrows(d.args[1]) /\ Dispatch(d) = "log_function"
  BY <1>2, <1>6, DispatchIs DEF Dispatch
<1>9. ConstantArgs(d)
  BY <1>3, <1>7, <1>8 DEF ConstantArgs
<1>10. ZeroBased(n) = {n - 1}
  BY <1>4, <1>5 DEF ZeroBased
<1>11. FmtArgIndexes(d) = {n - 1}
  BY <1>2, <1>7, <1>8, <1>9, <1>10 DEF FmtArgIndexes
<1>12. n - 1 \in Nat /\ (n - 1) + 1 = n
  BY <1>5
<1> HIDE DEF n
<1>13. GoodSignature(d.params, n - 1)
  <2>1. PICK i \in Nat : i = n - 1 /\ i + 1 = n
    BY <1>12
  <2>2. PICK ps : ps = d.params
    OBVIOUS
  <2>3. ps \in Seq(ParamType)
    BY <1>1, <2>2
  <2>4. i + 1 \in DOMAIN ps /\ ps[i + 1] \in {"const_char*", "char*", "char&"}
    BY <1>2, <2>1, <2>2
  <2>5. \E j \in DOMAIN ps : Others(ps, i + 1) = {j}
    BY <1>2, <2>1, <2>2
  <2>6. GoodSignature(ps, i)
    BY <2>3, <2>4, <2>5, SignatureIs
  <2> QED
    BY <2>1, <2>2, <2>6
<1> QED
  BY <1>11, <1>12, <1>13

-----------------------------------------------------------------------------
(* The translation unit.                                                    *)

\* A unit's parts have the types of one.
LEMMA UnitFacts ==
    ASSUME prog \in Programs
    PROVE  /\ prog \in Program /\ prog.struct \in Structs /\ prog.complete \in BOOLEAN
           /\ DOMAIN prog.decls = 1..Len(prog.decls) /\ Len(prog.decls) \in Nat
           /\ DOMAIN unit = 1..Len(unit) /\ Len(unit) \in Nat
           /\ \A u \in DOMAIN prog.decls : prog.decls[u] \in Decl /\ Len(prog.decls[u].params) <= IntMax
           /\ \A i \in DOMAIN unit : unit[i] \in Call
<1>1. prog \in Program
  BY ProgramsAssumption
<1>2. prog.decls \in Seq(Decl) /\ unit \in Seq(Call) /\ prog.struct \in Structs /\ prog.complete \in BOOLEAN
  BY <1>1 DEF Program, unit
<1>3. \A u \in DOMAIN prog.decls : Len(prog.decls[u].params) <= IntMax
  BY ProgramsAssumption
<1> QED
  BY <1>1, <1>2, <1>3

\* The declaration GCC keeps of a called function is one of the unit.
LEMMA CalleeIs ==
    ASSUME prog \in Programs, NEW i \in DOMAIN unit
    PROVE  First(unit[i].fn) \in DOMAIN prog.decls
<1> DEFINE S == {j \in DOMAIN prog.decls : prog.decls[j].fn = unit[i].fn}
<1>1. S # {}
  BY ProgramsAssumption DEF unit
<1>2. S \in SUBSET Nat
  BY UnitFacts
<1>3. Least(S) \in S
  BY <1>1, <1>2, LeastIn
<1> QED
  BY <1>3 DEF First

\* initAttrDecls() finds the fields that are there.
LEMMA FieldsAre ==
    ASSUME prog \in Programs
    PROVE  /\ IdField \in Seq(Nat) /\ HasIdField \in Seq(Nat)
           /\ FieldsFound <=> FieldsDeclared
           /\ FieldsFound => /\ IdField \in Members(prog.struct, "id")
                             /\ HasIdField \in Members(prog.struct, "has_id")
<1> "id" # "" /\ "has_id" # ""
  OBVIOUS
<1>1. prog.struct \in Structs
  BY UnitFacts
<1>2. /\ IdField \in Seq(Nat)
      /\ IF Members(prog.struct, "id") = {} THEN IdField = << >>
         ELSE IdField \in Members(prog.struct, "id") /\ IdField # << >>
  BY <1>1, FieldSearch, Zenon DEF IdField
<1>3. /\ HasIdField \in Seq(Nat)
      /\ IF Members(prog.struct, "has_id") = {} THEN HasIdField = << >>
         ELSE HasIdField \in Members(prog.struct, "has_id") /\ HasIdField # << >>
  BY <1>1, FieldSearch, Zenon DEF HasIdField
<1> QED
  BY <1>2, <1>3 DEF FieldsFound, FieldsDeclared

-----------------------------------------------------------------------------
(* Types.                                                                   *)

Inv == prog \in Programs /\ TypeOK /\ ParseInv /\ PassInv

\* What a call being processed is.
LEMMA AtCallFacts ==
    ASSUME prog \in Programs, TypeOK, AtCall
    PROVE  /\ next \in DOMAIN unit /\ next \in Nat \ {0} /\ next + 1 \in 1..(Len(unit) + 1)
           /\ Callee \in DOMAIN prog.decls /\ C \in Call
           /\ F \in [fmtArgIndex : Nat, attrArgIndex : Nat]
           /\ logFuncs[Callee].status \in FuncStatus
<1>1. next \in DOMAIN unit /\ next \in Nat \ {0} /\ next + 1 \in 1..(Len(unit) + 1)
  BY UnitFacts DEF AtCall
<1>2. Callee \in DOMAIN prog.decls
  BY <1>1, CalleeIs DEF Callee, C
<1>3. C \in Call
  BY <1>1, UnitFacts DEF C
<1>4. logFuncs[Callee] \in [status : FuncStatus, fn : [fmtArgIndex : Nat, attrArgIndex : Nat]]
  BY <1>2 DEF TypeOK
<1> QED
  BY <1>1, <1>2, <1>3, <1>4 DEF F

LEMMA TypeInit == Init => TypeOK /\ prog \in Programs
<1> SUFFICES ASSUME Init PROVE TypeOK /\ prog \in Programs
  OBVIOUS
<1>1. prog \in Programs
  BY DEF Init
<1>2. stmts \in [DOMAIN unit -> Stmt]
  <2>1. \A i \in DOMAIN unit : unit[i].args \in Seq(Arg)
    BY <1>1, UnitFacts DEF Call
  <2>2. \A i \in DOMAIN unit : unit[i].args \in Seq(Arg \cup {"specs"})
    BY <2>1, SeqMonotonic, Zenon
  <2>3. << >> \in Seq(Assign)
    BY EmptySeq
  <2>4. \A i \in DOMAIN unit : Untouched(i) \in Stmt
    BY <2>2, <2>3 DEF Untouched, Stmt
  <2> QED
    BY <2>4 DEF Init
<1>3. msgList \in Seq([call : 1..(next - 1), key : Keys, id : Id])
  BY EmptySeq DEF Init
<1>4. logFuncs \in [DOMAIN prog.decls -> [status : FuncStatus, fn : [fmtArgIndex : Nat, attrArgIndex : Nat]]]
  BY DEF Init, FuncStatus, NoFunc
<1>5. registry \subseteq Pair /\ issued = {}
  BY DEF Init
<1>6. seen \in 0..Len(prog.decls) /\ next \in 1..(Len(unit) + 1)
  BY <1>1, UnitFacts DEF Init
<1> QED
  BY <1>1, <1>2, <1>3, <1>4, <1>5, <1>6, UnitFacts DEF TypeOK, Init, Phases

\* Actions that change none of what declarations and calls leave behind.
LEMMA TypeFrame ==
    ASSUME TypeOK, UNCHANGED <<prog, seen, logFuncs, next, stmts, msgList>>,
           phase' \in Phases, errors' \in BOOLEAN, macro' \in {"none", "pending", "defined"},
           attribute' \in {"none", "pending", "known"}, hasIndex' \in BOOLEAN,
           registry' \subseteq Pair, issued' \subseteq [key : Keys, id : Id]
    PROVE  TypeOK'
BY DEF TypeOK, unit, Program, Untouched

\* The actions that parse a declaration.
LEMMA TypeDecl ==
    ASSUME TypeOK, prog \in Programs, AtDecl, UNCHANGED <<plugin, prog, pass, index>>,
           phase' \in Phases, errors' \in BOOLEAN,
           \/ UNCHANGED logFuncs
           \/ \E s \in FuncStatus, f \in [fmtArgIndex : Nat, attrArgIndex : Nat] : logFuncs' = Recorded(s, f)
    PROVE  TypeOK'
<1>1. seen' \in 0..Len(prog.decls)
  BY UnitFacts DEF AtDecl, Uid, TypeOK
<1>2. logFuncs' \in [DOMAIN prog.decls -> [status : FuncStatus, fn : [fmtArgIndex : Nat, attrArgIndex : Nat]]]
  <2> DEFINE R == [status : FuncStatus, fn : [fmtArgIndex : Nat, attrArgIndex : Nat]]
  <2>1. logFuncs \in [DOMAIN prog.decls -> R]
    BY DEF TypeOK
  <2>2. \A s \in FuncStatus, f \in [fmtArgIndex : Nat, attrArgIndex : Nat] : [status |-> s, fn |-> f] \in R
    OBVIOUS
  <2> HIDE DEF R
  <2>3. \A s \in FuncStatus, f \in [fmtArgIndex : Nat, attrArgIndex : Nat] :
           Recorded(s, f) \in [DOMAIN prog.decls -> R]
    BY <2>1, <2>2 DEF Recorded
  <2> QED
    BY <2>1, <2>3 DEF R
<1> QED
  BY <1>1, <1>2 DEF TypeOK, plugin, pass, index, unit

\* The actions that process a call.
LEMMA TypeCall ==
    ASSUME TypeOK, prog \in Programs, LogCall \/ AtCall, UNCHANGED <<plugin, prog, seen, index>>,
           phase' \in Phases, errors' \in BOOLEAN, NextCall \/ UNCHANGED next,
           UNCHANGED logFuncs \/ logFuncs' = [logFuncs EXCEPT ![Callee].status = "resolved"],
           stmts' \in [DOMAIN unit -> Stmt],
           \/ UNCHANGED msgList
           \/ /\ NextCall
              /\ \E m \in [call : {next}, key : Keys, id : Id] : msgList' = Append(msgList, m)
    PROVE  TypeOK'
<1>1. next \in 1..(Len(unit) + 1) /\ next' \in 1..(Len(unit) + 1) /\ next <= next' /\ next \in Nat \ {0}
  BY AtCallFacts, UnitFacts DEF LogCall, TypeOK, NextCall
<1>2. logFuncs' \in [DOMAIN prog.decls -> [status : FuncStatus, fn : [fmtArgIndex : Nat, attrArgIndex : Nat]]]
  <2> DEFINE R == [status : FuncStatus, fn : [fmtArgIndex : Nat, attrArgIndex : Nat]]
             r == [logFuncs[Callee] EXCEPT !.status = "resolved"]
  <2>1. logFuncs \in [DOMAIN prog.decls -> R]
    BY DEF TypeOK
  <2>2. logFuncs[Callee] \in R
    BY <2>1, AtCallFacts DEF LogCall
  <2>3. r \in R
    BY <2>2 DEF FuncStatus
  <2>4. logFuncs' = logFuncs \/ logFuncs' = [logFuncs EXCEPT ![Callee] = r]
    OBVIOUS
  <2> HIDE DEF R, r
  <2>5. logFuncs' \in [DOMAIN prog.decls -> R]
    BY <2>1, <2>3, <2>4
  <2> QED
    BY <2>5 DEF R
<1>3. msgList' \in Seq([call : 1..(next' - 1), key : Keys, id : Id])
  <2> DEFINE T == [call : 1..(next - 1), key : Keys, id : Id]
             U == [call : 1..(next' - 1), key : Keys, id : Id]
  <2>1. T \subseteq U /\ msgList \in Seq(T)
    BY <1>1 DEF TypeOK
  <2>2. msgList \in Seq(U)
    BY <2>1, SeqMonotonic, Zenon
  <2>3. CASE NextCall /\ \E m \in [call : {next}, key : Keys, id : Id] : msgList' = Append(msgList, m)
    <3>1. PICK m \in [call : {next}, key : Keys, id : Id] : msgList' = Append(msgList, m)
      BY <2>3
    <3>2. m \in U
      BY <1>1, <2>3 DEF NextCall
    <3> HIDE DEF U
    <3>3. Append(msgList, m) \in Seq(U)
      BY <2>2, <3>2, AppendProperties, Zenon
    <3> QED
      BY <3>1, <3>3 DEF U
  <2> QED
    BY <2>2, <2>3
<1> QED
  BY <1>1, <1>2, <1>3 DEF TypeOK, plugin, index, unit

\* A rewritten call.
LEMMA RewriteType ==
    ASSUME TypeOK, prog \in Programs, AtCall, Loggable
    PROVE  Rewrite(C) \in Stmt /\ Len(Rewrite(C).assigns) = 2
<1>1. C.args \in Seq(Arg) /\ F.fmtArgIndex \in Nat /\ F.attrArgIndex + 1 \in Nat
  BY AtCallFacts DEF Call
<1>2. C.args \in Seq(Arg \cup {"specs"})
  BY <1>1, SeqMonotonic, Zenon
<1>3. F.fmtArgIndex + 1 \in 1..Len(C.args)
  BY <1>1 DEF Loggable
<1>4. [C.args EXCEPT ![F.fmtArgIndex + 1] = "specs"] \in Seq(Arg \cup {"specs"})
  BY <1>2, <1>3, ExceptSeq
<1>5. IdField \in Seq(Nat) /\ HasIdField \in Seq(Nat)
  BY FieldsAre
<1>6. /\ [variable |-> F.attrArgIndex + 1, field |-> IdField, value |-> INVALID_MSG_ID] \in Assign
      /\ [variable |-> F.attrArgIndex + 1, field |-> HasIdField, value |-> 1] \in Assign
  BY <1>1, <1>5 DEF Assign, INVALID_MSG_ID
<1>7. Rewrite(C).assigns \in Seq(Assign) /\ Len(Rewrite(C).assigns) = 2
  BY <1>6 DEF Rewrite
<1> QED
  BY <1>4, <1>7 DEF Rewrite, Stmt

\* A placeholder replaced.
LEMMA NewIdType ==
    ASSUME NEW s \in Stmt, NEW id \in Nat
    PROVE  /\ [s EXCEPT !.assigns[1].value = id] \in Stmt
           /\ [s EXCEPT !.assigns[1].value = id].args = s.args
           /\ Len([s EXCEPT !.assigns[1].value = id].assigns) = Len(s.assigns)
           /\ s.assigns # << >> =>
                 /\ [s EXCEPT !.assigns[1].value = id].assigns[1] = [s.assigns[1] EXCEPT !.value = id]
                 /\ \A i \in 2..Len(s.assigns) : [s EXCEPT !.assigns[1].value = id].assigns[i] = s.assigns[i]
<1> DEFINE as == s.assigns
           bs == [as EXCEPT ![1] = [as[1] EXCEPT !.value = id]]
<1>1. as \in Seq(Assign) /\ s \in [args : Seq(Arg \cup {"specs"}), assigns : Seq(Assign)]
  BY DEF Stmt
<1>2. [s EXCEPT !.assigns[1].value = id] = [s EXCEPT !.assigns = bs]
  OBVIOUS
<1>3. bs \in Seq(Assign) /\ Len(bs) = Len(as)
         /\ (as # << >> => /\ bs[1] = [as[1] EXCEPT !.value = id]
                           /\ \A i \in 2..Len(as) : bs[i] = as[i])
  <2>1. CASE as = << >>
    <3>1. bs = << >>
      BY <2>1
    <3> QED
      BY <1>1, <2>1, <3>1
  <2>2. CASE as # << >>
    <3>1. 1 \in 1..Len(as) /\ Len(as) \in Nat
      BY <1>1, <2>2, EmptySeq
    <3>2. as[1] \in Assign
      BY <1>1, <3>1, ElementOfSeq
    <3>3. [as[1] EXCEPT !.value = id] \in Assign
      BY <3>2 DEF Assign
    <3> QED
      BY SMTT(30), <1>1, <3>1, <3>3, ExceptSeq
  <2> QED
    BY <2>1, <2>2
<1> HIDE DEF bs
<1> QED
  BY <1>1, <1>2, <1>3 DEF Stmt

\* The indexes of a declaration are numbers.
LEMMA IndexIsInt ==
    ASSUME NEW d \in Decl, NEW i \in FmtArgIndexes(d)
    PROVE  i \in Int
<1> DEFINE v == constVal(d.args[2])
<1>1. IntMin \in Int /\ IntMax \in Int
  BY IntRange
<1>2. ASSUME Len(d.args) = 2, ~constThrows(d.args[2]) PROVE toInt(v) \subseteq Int
  <2> DEFINE t == d.args[2]
  <2>1. d.args \in Seq(Tree)
    BY DEF Decl
  <2>2. t \in Tree
    BY <1>2, <2>1
  <2>3. CASE t.code = "STRING_CST"
    <3>1. v = [type |-> "STRING", num |-> 0, str |-> t.str]
      BY <2>3 DEF constVal, String
    <3>2. toInt(v) = {Spelled[s] : s \in {v.str} \cap DOMAIN Spelled} \cap IntMin..IntMax
      BY <3>1, StringToInt
    <3> QED
      BY <1>1, <3>2
  <2>4. CASE t.code = "INTEGER_CST" /\ t.num \in Int
    <3>1. v = [type |-> "INT", num |-> Truncate(t.num), str |-> ""]
      BY <2>4 DEF constVal
    <3>2. toInt(v) = {Truncate(t.num)}
      BY <3>1, IntToInt
    <3>3. Truncate(t.num) \in Int
      BY <2>4, IntRange DEF Truncate
    <3> QED
      BY <3>2, <3>3
  <2>5. CASE t.code = "REAL_CST" /\ t.num \in Int
    <3>1. v = [type |-> "DOUBLE", num |-> t.num, str |-> ""]
      BY <2>5 DEF constVal
    <3> HIDE DEF v, t
    <3>2. v.type = "DOUBLE" /\ v.num \in Int
      BY <2>5, <3>1
    <3>3. toInt(v) \subseteq {v.num} \cup IntMin..IntMax
      BY <3>2, DoubleToInt
    <3> QED
      BY <1>1, <3>2, <3>3
  <2>6. t # NotConstant
    <3>1. NotConstant.code = "OTHER"
      BY DEF NotConstant
    <3> QED
      BY <1>2, <3>1 DEF constThrows
  <2> QED
    BY <2>2, <2>3, <2>4, <2>5, <2>6 DEF Tree
<1>3. CASE i = -1
  BY <1>3
<1>4. CASE i # -1
  <2>1. /\ ConstantArgs(d) /\ Len(d.args) = 2
        /\ \E n \in toInt(v) : i \in ZeroBased(n)
    BY <1>4 DEF FmtArgIndexes
  <2>2. DOMAIN d.args = 1..2
    BY <2>1 DEF Decl
  <2>3. ~constThrows(d.args[2])
    BY <2>1, <2>2 DEF ConstantArgs
  <2> QED
    BY <1>1, <1>2, <2>1, <2>3 DEF ZeroBased
<1> QED
  BY <1>3, <1>4

\* Declare and the like leave a description with the types of one.
LEMMA DescriptionType ==
    ASSUME prog \in Programs, AttrSeen, NEW i \in FmtArgIndexes(D), i >= 0, GoodSignature(D.params, i)
    PROVE  makeLogFunc(D.params, i) \in [fmtArgIndex : Nat, attrArgIndex : Nat]
<1>1. D \in Decl
  BY UnitFacts DEF AttrSeen, AtDecl, D
<1>2. D.params \in Seq(ParamType)
  BY <1>1 DEF Decl
<1>3. i + 1 \in DOMAIN D.params /\ DOMAIN D.params = 1..Len(D.params)
  BY <1>2 DEF GoodSignature
<1>4. i \in Int
  BY IndexIsInt, <1>1
<1> QED
  BY <1>2, <1>4, SignatureIs

\* Every ID of the object file is one the index has registered.
LEMMA IssuedRegistered ==
    ASSUME Inv, Emit
    PROVE  phase' = "object" => issued' \subseteq registry
<1> SUFFICES ASSUME phase' = "object" PROVE issued' \subseteq registry
  OBVIOUS
<1>1. /\ phase = "emit" /\ ~errors
      /\ issued' = {[key |-> KeyOf(unit[i]), id |-> stmts[i].assigns[1].value] :
                        i \in {j \in DOMAIN stmts : stmts[j].assigns # << >>}}
  BY DEF Emit
<1>2. DOMAIN stmts = DOMAIN unit
  BY DEF Inv, TypeOK
<1> QED
  BY <1>1, <1>2 DEF Inv, PassInv

\* process() registers pairs of a message and an ID.
LEMMA RegisterType ==
    ASSUME TypeOK, NEW ids \in [Collected -> 1..MaxId], Register(ids)
    PROVE  registry' \subseteq Pair /\ registry \subseteq registry'
<1>1. Collected \subseteq Keys
  <2>1. msgList \in Seq([call : 1..(next - 1), key : Keys, id : Id])
    BY DEF TypeOK
  <2>2. DOMAIN msgList = 1..Len(msgList)
    BY <2>1
  <2>3. ASSUME NEW n \in DOMAIN msgList PROVE msgList[n].key \in Keys
    <3>1. msgList[n] \in [call : 1..(next - 1), key : Keys, id : Id]
      BY <2>1, <2>2, ElementOfSeq
    <3> QED
      BY <3>1
  <2> QED
    BY <2>3 DEF Collected
<1>2. \A k \in Collected : [key |-> k, id |-> ids[k]] \in Pair
  BY <1>1 DEF Pair
<1> QED
  BY <1>2 DEF Register, TypeOK

\* The messages have been given IDs, and the placeholders too.
LEMMA AssignTypes ==
    ASSUME TypeOK, AssignIds
    PROVE  /\ stmts' \in [DOMAIN unit -> Stmt]
           /\ msgList' \in Seq([call : 1..(next - 1), key : Keys, id : Id])
           /\ registry' \subseteq Pair /\ registry \subseteq registry'
<1>1. PICK ids \in [Collected -> 1..MaxId] :
          /\ Register(ids)
          /\ msgList' = [i \in DOMAIN msgList |-> [msgList[i] EXCEPT !.id = IdAfter(msgList[i], ids)]]
  BY DEF AssignIds
<1> DEFINE T == [call : 1..(next - 1), key : Keys, id : Id]
<1>2. msgList \in Seq(T) /\ DOMAIN msgList = 1..Len(msgList) /\ Len(msgList) \in Nat
  BY DEF TypeOK
<1>3. ASSUME NEW n \in DOMAIN msgList
      PROVE  msgList'[n] \in T /\ msgList'[n].id \in 1..MaxId /\ msgList'[n].call = msgList[n].call
  <2>1. msgList[n] \in T
    BY <1>2, ElementOfSeq
  <2>2. msgList[n].key \in Collected
    BY DEF Collected
  <2>3. ids[msgList[n].key] \in 1..MaxId
    BY <2>2
  <2>4. msgList'[n] = [msgList[n] EXCEPT !.id = ids[msgList[n].key]]
    BY <1>1 DEF IdAfter
  <2> QED
    BY <2>1, <2>3, <2>4, MaxIdAssumption DEF Id
<1>4. msgList' \in Seq(T)
  <2>1. msgList' \in [1..Len(msgList) -> T]
    BY <1>1, <1>2, <1>3
  <2> HIDE DEF T
  <2> QED
    BY <1>2, <2>1
<1>5. registry' \subseteq Pair /\ registry \subseteq registry'
  BY <1>1, RegisterType
<1>6. stmts' \in [DOMAIN unit -> Stmt]
  <2>1. stmts \in [DOMAIN unit -> Stmt]
    BY DEF TypeOK
  <2>2. ASSUME NEW i \in DOMAIN unit, NEW n \in DOMAIN msgList
        PROVE  [stmts[i] EXCEPT !.assigns[1].value = msgList'[n].id] \in Stmt
    <3>1. msgList'[n].id \in Nat
      BY <1>3, <2>2, MaxIdAssumption
    <3>2. stmts[i] \in Stmt
      BY <2>1
    <3> HIDE DEF T
    <3> QED
      BY <3>1, <3>2, NewIdType
  <2>3. ASSUME NEW i \in DOMAIN unit, \E n \in DOMAIN msgList : msgList[n].call = i
        PROVE  (CHOOSE m \in DOMAIN msgList : msgList[m].call = i) \in DOMAIN msgList
    BY <2>3
  <2>4. \A i \in DOMAIN unit : stmts'[i] \in Stmt
    BY <2>1, <2>2, <2>3 DEF AssignIds
  <2>5. stmts' = [i \in DOMAIN unit |-> stmts'[i]]
    BY <2>1 DEF AssignIds
  <2> QED
    BY <2>4, <2>5
<1> QED
  BY <1>4, <1>5, <1>6

LEMMA TypeStep ==
    ASSUME Inv, [Next]_vars
    PROVE  TypeOK'
<1> USE DEF Inv
<1>1. phase \in Phases /\ errors \in BOOLEAN /\ TypeOK
  BY DEF TypeOK
<1> phase \in Phases /\ "parse" \in Phases /\ "emit" \in Phases /\ "pass" \in Phases
    /\ "aborted" \in Phases /\ "object" \in Phases /\ "failed" \in Phases
  BY <1>1 DEF Phases
<1>2. \A p \in Phases : \A q : Report(p, q) => phase' \in Phases /\ errors' \in BOOLEAN
  BY <1>1 DEF Report
<1>3. CASE Load \/ LoadFails \/ StartUnit \/ RegisterAttrs \/ EndParse \/ NoFields \/ NothingLogged \/ Over
           \/ UNCHANGED vars
  <2> UNCHANGED <<prog, seen, logFuncs, next, stmts, msgList, registry, issued>>
    BY <1>3 DEF Load, LoadFails, StartUnit, RegisterAttrs, EndParse, NoFields, NothingLogged, Over,
                vars, plugin, funcs, pass, index
  <2>1. phase' \in Phases /\ errors' \in BOOLEAN
    BY <1>1, <1>2, <1>3 DEF Load, LoadFails, StartUnit, RegisterAttrs, EndParse, NoFields, NothingLogged, Over,
                            vars
  <2>2. macro' \in {"none", "pending", "defined"} /\ attribute' \in {"none", "pending", "known"}
        /\ hasIndex' \in BOOLEAN
    BY <1>1, <1>3 DEF TypeOK, Load, LoadFails, StartUnit, RegisterAttrs, EndParse, NoFields, NothingLogged,
                      Over, MakePass, vars, plugin
  <2>3. registry' \subseteq Pair /\ issued' \subseteq [key : Keys, id : Id]
    BY DEF TypeOK
  <2> QED
    BY <1>1, <2>1, <2>2, <2>3, TypeFrame
<1>4. CASE PlainDecl \/ NoArgs \/ Declare \/ BadAttribute \/ BadSignature \/ NullTypeName
  <2>1. AtDecl /\ UNCHANGED <<plugin, prog, pass, index>>
    BY <1>4 DEF PlainDecl, NoArgs, Declare, BadAttribute, BadSignature, NullTypeName, AttrSeen
  <2>2. phase' \in Phases /\ errors' \in BOOLEAN
    BY <1>1, <1>2, <1>4 DEF PlainDecl, NoArgs, Declare, BadAttribute, BadSignature, NullTypeName
  <2>3. UNCHANGED logFuncs
           \/ \E s \in FuncStatus, f \in [fmtArgIndex : Nat, attrArgIndex : Nat] : logFuncs' = Recorded(s, f)
    <3>1. CASE Declare
      <4>1. PICK i \in FmtArgIndexes(D) : i >= 0 /\ GoodSignature(D.params, i)
                                         /\ logFuncs' = Recorded("declared", makeLogFunc(D.params, i))
        BY <3>1 DEF Declare
      <4>2. makeLogFunc(D.params, i) \in [fmtArgIndex : Nat, attrArgIndex : Nat]
        BY <3>1, <4>1, DescriptionType DEF Declare
      <4> QED
        BY <4>1, <4>2 DEF FuncStatus
    <3>2. CASE BadSignature
      BY <3>2 DEF BadSignature, FuncStatus, NoFunc
    <3> QED
      BY <1>4, <3>1, <3>2 DEF PlainDecl, NoArgs, BadAttribute, NullTypeName
  <2> QED
    BY <1>1, <2>1, <2>2, <2>3, TypeDecl
<1>5. CASE OtherCall \/ SkipCall \/ HugeId
  <2>1. AtCall /\ UNCHANGED <<plugin, prog, seen, index, stmts, msgList>> /\ (NextCall \/ UNCHANGED next)
    BY <1>5 DEF OtherCall, SkipCall, HugeId, Resolved, LogCall, Resolve, funcs, pass
  <2>2. UNCHANGED logFuncs \/ logFuncs' = [logFuncs EXCEPT ![Callee].status = "resolved"]
    BY <1>5 DEF OtherCall, SkipCall, HugeId, Resolve, funcs
  <2>3. phase' \in Phases /\ errors' \in BOOLEAN
    BY <1>1, <1>2, <1>5 DEF OtherCall, SkipCall, HugeId
  <2>4. stmts' \in [DOMAIN unit -> Stmt]
    BY <2>1 DEF TypeOK
  <2> QED
    BY <1>1, <2>1, <2>2, <2>3, <2>4, TypeCall
<1>6. CASE RewriteCall
  <2>1. AtCall /\ Loggable /\ UNCHANGED <<plugin, prog, seen, index>> /\ NextCall
    BY <1>6 DEF RewriteCall, Resolved, LogCall, Resolve, Rewritten, funcs
  <2>2. logFuncs' = [logFuncs EXCEPT ![Callee].status = "resolved"]
    BY <1>6 DEF RewriteCall, Resolve
  <2>3. phase' \in Phases /\ errors' \in BOOLEAN
    BY <1>1, <1>6 DEF RewriteCall
  <2>4. stmts' \in [DOMAIN unit -> Stmt]
    <3>1. Rewrite(C) \in Stmt
      BY <1>1, <2>1, RewriteType
    <3>2. stmts \in [DOMAIN unit -> Stmt]
      BY DEF TypeOK
    <3> QED
      BY <1>6, <3>1, <3>2 DEF RewriteCall
  <2>5. [call |-> next, key |-> KeyOf(C), id |-> msgId(C)] \in [call : {next}, key : Keys, id : Id]
    <3>1. C \in Call
      BY <1>1, <2>1, AtCallFacts
    <3>2. KeyOf(C) \in Keys
      BY <3>1 DEF Call, KeyOf
    <3>3. msgId(C) \in Id
      BY <3>1, MaxIdAssumption DEF Call, msgId, Id, INVALID_MSG_ID
    <3> QED
      BY <3>2, <3>3
  <2>6. \E m \in [call : {next}, key : Keys, id : Id] : msgList' = Append(msgList, m)
    BY <1>6, <2>5 DEF RewriteCall
  <2> QED
    BY <1>1, <2>1, <2>2, <2>3, <2>4, <2>6, TypeCall
<1>7. CASE AssignIds
  <2>1. UNCHANGED <<errors, plugin, prog, funcs, next, issued>> /\ phase' = "emit"
    BY <1>7 DEF AssignIds
  <2>2. stmts' \in [DOMAIN unit -> Stmt] /\ msgList' \in Seq([call : 1..(next - 1), key : Keys, id : Id])
        /\ registry' \subseteq Pair
    BY <1>1, <1>7, AssignTypes
  <2> QED
    BY <1>1, <2>1, <2>2 DEF TypeOK, plugin, funcs, unit
<1>8. CASE IndexFails
  <2>1. UNCHANGED <<plugin, prog, seen, logFuncs, next, stmts, msgList, issued>>
    BY <1>8 DEF IndexFails, funcs, pass
  <2>2. phase' \in Phases /\ errors' \in BOOLEAN
    BY <1>2, <1>8 DEF IndexFails
  <2>3. registry' \subseteq Pair
    <3>1. CASE UNCHANGED registry
      BY <3>1 DEF TypeOK
    <3>2. CASE \E ids \in [Collected -> 1..MaxId] : Register(ids)
      BY <1>1, <3>2, RegisterType
    <3> QED
      BY <1>8, <3>1, <3>2 DEF IndexFails
  <2> QED
    BY <2>1, <2>2, <2>3, TypeFrame DEF TypeOK, plugin
<1>9. CASE Emit
  <2>1. UNCHANGED <<errors, plugin, prog, seen, logFuncs, next, stmts, msgList, registry>>
    BY <1>9 DEF Emit, funcs, pass
  <2>2. phase' \in Phases
    BY <1>9 DEF Emit
  <2>3. issued' \subseteq [key : Keys, id : Id]
    <3>1. issued' = issued \/ issued' \subseteq registry
      BY <1>9, IssuedRegistered DEF Emit
    <3>2. Pair \subseteq [key : Keys, id : Id]
      BY MaxIdAssumption DEF Pair, Id
    <3> QED
      BY <3>1, <3>2 DEF TypeOK
  <2> QED
    BY <2>1, <2>2, <2>3, TypeFrame DEF TypeOK, plugin
<1>10. CASE OtherCompiler
  <2>1. UNCHANGED <<phase, errors, plugin, prog, seen, logFuncs, next, stmts, msgList, issued>>
    BY <1>10 DEF OtherCompiler, funcs, pass
  <2>2. registry' \subseteq Pair
    BY <1>10 DEF OtherCompiler, TypeOK
  <2> QED
    BY <2>1, <2>2, TypeFrame DEF TypeOK, plugin
<1> QED
  BY <1>3, <1>4, <1>5, <1>6, <1>7, <1>8, <1>9, <1>10 DEF Next

-----------------------------------------------------------------------------
(* What the pass knows of the declarations.                                 *)

LEMMA ParseFrame ==
    ASSUME ParseInv, UNCHANGED <<prog, seen, logFuncs>>,
           phase' # "load",
           phase' \in {"pass", "object"} => ~errors',
           phase' \in {"pass", "emit", "object"} /\ ~errors' => seen = Len(prog.decls),
           ~errors' /\ phase' # "aborted" => ~errors /\ phase # "aborted"
    PROVE  ParseInv'
BY DEF ParseInv, Described

\* A declaration has been parsed, without an error that was not reported.
LEMMA ParseDecl ==
    ASSUME Inv, AtDecl, UNCHANGED prog, phase' \in {"parse", "aborted"}, errors => errors',
           \A u \in DOMAIN prog.decls : u # Uid => logFuncs'[u] = logFuncs[u],
           phase' = "parse" /\ ~errors' =>
              IF D.attributed
              THEN /\ logFuncs'[Uid].status = "declared"
                   /\ \E i \in FmtArgIndexes(D) : /\ i >= 0 /\ GoodSignature(D.params, i)
                                                  /\ logFuncs'[Uid].fn = makeLogFunc(D.params, i)
              ELSE logFuncs'[Uid].status = "none"
    PROVE  ParseInv'
<1>1. phase = "parse" /\ seen' = seen + 1 /\ Uid = seen + 1 /\ Uid \in DOMAIN prog.decls /\ seen \in Nat
  BY UnitFacts DEF AtDecl, Parsing, Uid, Inv, TypeOK
<1>2. ASSUME ~errors', phase' # "aborted", NEW u \in 1..seen'
      PROVE  IF prog.decls[u].attributed
             THEN logFuncs'[u].status \in {"declared", "resolved"} /\ Described(u)'
             ELSE logFuncs'[u].status = "none"
  <2>1. CASE u = Uid
    BY <1>1, <1>2, <2>1 DEF Described, D
  <2>2. CASE u # Uid
    <3>1. u \in 1..seen /\ u \in DOMAIN prog.decls
      BY <1>1, <1>2, <2>2, UnitFacts DEF Inv
    <3>2. logFuncs'[u] = logFuncs[u]
      BY <2>2, <3>1
    <3>3. IF prog.decls[u].attributed THEN logFuncs[u].status \in {"declared", "resolved"} /\ Described(u)
          ELSE logFuncs[u].status = "none"
      BY <1>1, <1>2, <3>1 DEF Inv, ParseInv
    <3> QED
      BY <3>2, <3>3 DEF Described
  <2> QED
    BY <2>1, <2>2
<1>3. ASSUME NEW u \in DOMAIN prog.decls, u > seen' PROVE logFuncs'[u].status = "none"
  <2>1. u # Uid /\ u > seen
    BY <1>1, <1>3, UnitFacts DEF Inv
  <2> QED
    BY <2>1, <1>3 DEF Inv, ParseInv
<1> QED
  BY <1>1, <1>2, <1>3 DEF ParseInv

\* A call has been processed, and the fields have been looked for.
LEMMA ParseCall ==
    ASSUME Inv, Resolved, Resolve, UNCHANGED prog, phase' \in {"pass", "emit", "aborted"},
           phase' = "pass" => ~errors', phase' = "emit" => errors'
    PROVE  ParseInv'
<1>1. phase = "pass" /\ ~errors /\ seen = Len(prog.decls) /\ Callee \in DOMAIN prog.decls
  BY AtCallFacts DEF Resolved, LogCall, AtCall, Inv, ParseInv
<1>2. DOMAIN logFuncs = DOMAIN prog.decls /\ DOMAIN prog.decls = 1..Len(prog.decls)
  BY UnitFacts DEF Inv, TypeOK
<1>3. seen' = seen /\ logFuncs' = [logFuncs EXCEPT ![Callee].status = "resolved"]
  BY DEF Resolve
<1>4. ASSUME NEW u \in DOMAIN prog.decls
      PROVE  /\ logFuncs'[u].fn = logFuncs[u].fn
             /\ logFuncs'[u].status = IF u = Callee THEN "resolved" ELSE logFuncs[u].status
  <2>1. logFuncs[u] \in [status : FuncStatus, fn : [fmtArgIndex : Nat, attrArgIndex : Nat]]
    BY DEF Inv, TypeOK
  <2> QED
    BY <1>2, <1>3, <2>1
<1>5. ASSUME NEW u \in 1..seen
      PROVE  IF prog.decls[u].attributed
             THEN logFuncs'[u].status \in {"declared", "resolved"} /\ Described(u)'
             ELSE logFuncs'[u].status = "none"
  <2>1. u \in DOMAIN prog.decls
    BY <1>1, <1>2
  <2>2. IF prog.decls[u].attributed THEN logFuncs[u].status \in {"declared", "resolved"} /\ Described(u)
        ELSE logFuncs[u].status = "none"
    BY <1>1 DEF Inv, ParseInv
  <2>3. u = Callee => logFuncs[u].status \in {"declared", "resolved"}
    BY DEF Resolved
  <2>4. logFuncs'[u].fn = logFuncs[u].fn
    BY <1>4, <2>1
  <2>5. Described(u) => Described(u)'
    BY <2>4 DEF Described
  <2> QED
    BY <1>4, <2>1, <2>2, <2>3, <2>5
<1> QED
  BY <1>1, <1>2, <1>3, <1>5 DEF ParseInv

LEMMA ParseStep ==
    ASSUME Inv, [Next]_vars
    PROVE  ParseInv'
<1> USE DEF Inv
<1>1. ParseInv
  OBVIOUS
<1>2. CASE Load
  <2>1. ~errors' /\ seen' = seen /\ seen = 0 /\ phase' = "parse" /\ UNCHANGED <<prog, logFuncs>>
    BY <1>2 DEF Load, ParseInv, funcs
  <2> QED
    BY <2>1, ParseFrame, <1>2 DEF ParseInv, Load
<1>3. CASE StartUnit \/ RegisterAttrs \/ Over \/ OtherCompiler \/ OtherCall \/ UNCHANGED vars
  <2>1. UNCHANGED <<phase, errors, prog, seen, logFuncs>>
    BY <1>3 DEF StartUnit, RegisterAttrs, Over, OtherCompiler, OtherCall, vars, funcs
  <2> QED
    BY <2>1 DEF ParseInv, Described
<1>4. CASE LoadFails
  <2>1. errors' /\ phase' = "emit" /\ UNCHANGED <<prog, seen, logFuncs>>
    BY <1>4 DEF LoadFails, Report, funcs
  <2> QED
    BY <2>1, ParseFrame
<1>5. CASE EndParse
  <2>1. /\ phase = "parse" /\ seen = Len(prog.decls) /\ UNCHANGED <<errors, prog, seen, logFuncs>>
        /\ (phase' = "pass" /\ ~errors) \/ phase' = "emit"
    BY <1>5 DEF EndParse, Parsing, funcs
  <2> QED
    BY <2>1, ParseFrame
<1>6. CASE NoFields
  <2>1. UNCHANGED <<prog, seen, logFuncs>> /\ ((phase' = "emit" /\ errors') \/ (phase' = "aborted" /\ UNCHANGED errors))
    BY <1>6 DEF NoFields, Report, funcs
  <2> QED
    BY <2>1, ParseFrame
<1>7. CASE NothingLogged \/ AssignIds
  <2>1. phase = "pass" /\ phase' = "emit" /\ UNCHANGED <<errors, prog, seen, logFuncs>>
    BY <1>7 DEF NothingLogged, AssignIds, AllCalls, funcs
  <2>2. seen = Len(prog.decls)
    BY <2>1 DEF ParseInv
  <2> QED
    BY <2>1, <2>2, ParseFrame
<1>8. CASE IndexFails
  <2>1. UNCHANGED <<prog, seen, logFuncs>> /\ ((phase' = "emit" /\ errors') \/ (phase' = "aborted" /\ UNCHANGED errors))
    BY <1>8 DEF IndexFails, Report, funcs
  <2> QED
    BY <2>1, ParseFrame
<1>9. CASE Emit
  <2>1. /\ phase = "emit" /\ UNCHANGED <<errors, prog, seen, logFuncs>>
        /\ (phase' = "object" /\ ~errors) \/ phase' = "failed"
    BY <1>9 DEF Emit, funcs
  <2>2. ~errors => seen = Len(prog.decls)
    BY <2>1 DEF ParseInv
  <2> QED
    BY <2>1, <2>2, ParseFrame
<1>10. CASE PlainDecl
  <2>1. AtDecl /\ ~D.attributed /\ phase = "parse" /\ UNCHANGED <<phase, errors, prog, logFuncs>>
    BY <1>10 DEF PlainDecl, AtDecl, Parsing
  <2>2. logFuncs'[Uid].status = "none"
    BY <2>1, UnitFacts DEF AtDecl, Uid, ParseInv, TypeOK
  <2> QED
    BY <2>1, <2>2, ParseDecl
<1>11. CASE NoArgs \/ BadAttribute \/ NullTypeName
  <2>1. AtDecl /\ phase = "parse" /\ UNCHANGED <<prog, logFuncs>>
    BY <1>11 DEF NoArgs, BadAttribute, NullTypeName, AttrSeen, AtDecl, Parsing
  <2>2. (errors' /\ phase' = "parse") \/ (UNCHANGED errors /\ phase' = "aborted")
    BY <1>11, <2>1 DEF NoArgs, BadAttribute, NullTypeName, Report
  <2> QED
    BY <2>1, <2>2, ParseDecl
<1>12. CASE BadSignature
  <2>1. AtDecl /\ phase = "parse" /\ UNCHANGED prog /\ errors' /\ phase' = "parse"
    BY <1>12 DEF BadSignature, AttrSeen, AtDecl, Parsing, Report
  <2>2. \A u \in DOMAIN prog.decls : u # Uid => logFuncs'[u] = logFuncs[u]
    BY <1>12 DEF BadSignature, Recorded, TypeOK
  <2> QED
    BY <2>1, <2>2, ParseDecl
<1>13. CASE Declare
  <2>1. AtDecl /\ phase = "parse" /\ UNCHANGED <<prog, errors, phase>> /\ D.attributed /\ Uid \in DOMAIN prog.decls
    BY <1>13 DEF Declare, AttrSeen, AtDecl, Parsing
  <2>2. PICK i \in FmtArgIndexes(D) : i >= 0 /\ GoodSignature(D.params, i)
                                     /\ logFuncs' = Recorded("declared", makeLogFunc(D.params, i))
    BY <1>13 DEF Declare
  <2>3. DOMAIN logFuncs = DOMAIN prog.decls
    BY DEF TypeOK
  <2>4. logFuncs'[Uid] = [status |-> "declared", fn |-> makeLogFunc(D.params, i)]
        /\ \A u \in DOMAIN prog.decls : u # Uid => logFuncs'[u] = logFuncs[u]
    BY <2>1, <2>2, <2>3 DEF Recorded
  <2> QED
    BY <2>1, <2>2, <2>4, ParseDecl
<1>14. CASE SkipCall \/ RewriteCall \/ HugeId
  <2>1. Resolved /\ Resolve /\ UNCHANGED prog
    BY <1>14 DEF SkipCall, RewriteCall, HugeId
  <2>2. phase = "pass" /\ ~errors
    BY <2>1 DEF Resolved, LogCall, AtCall, ParseInv
  <2>3. UNCHANGED <<phase, errors>> \/ (phase' = "emit" /\ errors') \/ (phase' = "aborted" /\ UNCHANGED errors)
    BY <1>14 DEF SkipCall, RewriteCall, HugeId, Report
  <2> QED
    BY <2>1, <2>2, <2>3, ParseCall
<1> QED
  BY <1>2, <1>3, <1>4, <1>5, <1>6, <1>7, <1>8, <1>9, <1>10, <1>11, <1>12, <1>13, <1>14 DEF Next

-----------------------------------------------------------------------------
(* What the pass has rewritten.                                             *)

LEMMA PassFrame ==
    ASSUME Inv, UNCHANGED <<prog, stmts, msgList, issued>>, registry \subseteq registry',
           next' = next \/ (NextCall /\ phase = "pass"),
           phase # "object", phase' # "object",
           phase' \in {"load", "parse"} => phase \in {"load", "parse"},
           phase' = "emit" /\ ~errors' => (phase = "emit" /\ ~errors) \/ msgList = << >>
    PROVE  PassInv'
<1>1. PassInv /\ next \in Nat
  BY UnitFacts DEF Inv, TypeOK
<1>2. next' >= next
  BY <1>1 DEF NextCall
<1>3. unit' = unit /\ \A i : Untouched(i)' = Untouched(i)
  BY DEF unit, Untouched
<1>4. ASSUME NEW i \in DOMAIN unit, i >= next' PROVE stmts[i] = Untouched(i)
  <2>1. i \in Nat /\ next' \in Nat
    BY <1>1, UnitFacts DEF Inv, NextCall
  <2>2. i >= next
    BY <1>1, <1>2, <1>4, <2>1
  <2> QED
    BY <2>2 DEF Inv, PassInv
<1>5. phase' \in {"load", "parse"} => next' = 1 /\ msgList = << >>
  BY <1>1 DEF PassInv
<1>6. ASSUME phase' = "emit", ~errors', NEW i \in DOMAIN unit, stmts[i].assigns # << >>
      PROVE  [key |-> KeyOf(unit[i]), id |-> stmts[i].assigns[1].value] \in registry'
  <2>1. msgList # << >>
    <3>1. PICK m \in DOMAIN msgList : msgList[m].call = i
      BY <1>1, <1>6 DEF PassInv
    <3> QED
      BY <3>1
  <2> QED
    BY <1>1, <1>6, <2>1 DEF PassInv
<1> QED
  BY <1>1, <1>3, <1>4, <1>5, <1>6 DEF PassInv

LEMMA PassRewrite ==
    ASSUME Inv, RewriteCall
    PROVE  PassInv'
<1>1. /\ AtCall /\ Loggable /\ phase = "pass" /\ phase' = phase /\ next' = next + 1
      /\ UNCHANGED <<prog, registry, issued>>
      /\ stmts' = [stmts EXCEPT ![next] = Rewrite(C)]
      /\ msgList' = Append(msgList, [call |-> next, key |-> KeyOf(C), id |-> msgId(C)])
  BY DEF RewriteCall, Resolved, LogCall, AtCall, NextCall, Rewritten, index
<1>2. unit' = unit /\ \A i : Untouched(i)' = Untouched(i)
  BY <1>1 DEF unit, Untouched
<1>3. next \in DOMAIN unit /\ next \in Nat /\ DOMAIN unit = 1..Len(unit) /\ C = unit[next]
  BY <1>1, AtCallFacts, UnitFacts DEF Inv, C
<1>4. DOMAIN stmts = DOMAIN unit /\ msgList \in Seq([call : 1..(next - 1), key : Keys, id : Id])
  BY DEF Inv, TypeOK
<1> DEFINE n == Len(msgList) + 1
<1>5. /\ DOMAIN msgList = 1..Len(msgList) /\ Len(msgList) \in Nat /\ DOMAIN msgList' = 1..n
      /\ \A m \in DOMAIN msgList : msgList'[m] = msgList[m] /\ msgList[m].call \in 1..(next - 1)
      /\ msgList'[n] = [call |-> next, key |-> KeyOf(C), id |-> msgId(C)]
  <2>1. DOMAIN msgList = 1..Len(msgList) /\ Len(msgList) \in Nat
    BY <1>4
  <2>2. DOMAIN msgList' = 1..n
    BY <1>1, <1>4
  <2>3. \A m \in DOMAIN msgList : msgList'[m] = msgList[m]
    BY <1>1, <1>4, <2>1
  <2>4. msgList'[n] = [call |-> next, key |-> KeyOf(C), id |-> msgId(C)]
    BY <1>1, <1>4, <2>1
  <2>5. ASSUME NEW m \in DOMAIN msgList PROVE msgList[m].call \in 1..(next - 1)
    <3>1. msgList[m] \in [call : 1..(next - 1), key : Keys, id : Id]
      BY <1>4, <2>1, ElementOfSeq
    <3> QED
      BY <3>1
  <2> QED
    BY <2>1, <2>2, <2>3, <2>4, <2>5
<1>6. stmts'[next] = Rewrite(C) /\ \A i \in DOMAIN unit : i # next => stmts'[i] = stmts[i]
  BY <1>1, <1>3, <1>4
<1>7. Rewrite(C).assigns # << >>
  BY DEF Rewrite
<1> HIDE DEF n
<1>8. n \in Nat /\ DOMAIN msgList' = DOMAIN msgList \cup {n} /\ n \notin DOMAIN msgList
  BY <1>5 DEF n
<1>9. \A i \in DOMAIN unit : i >= next' => stmts'[i] = Untouched(i)
  BY <1>1, <1>3, <1>6 DEF Inv, PassInv
<1>10. \A m \in DOMAIN msgList' : /\ msgList'[m].key = KeyOf(unit[msgList'[m].call])
                                  /\ stmts'[msgList'[m].call].assigns # << >>
  <2> TAKE m \in DOMAIN msgList'
  <2>1. CASE m = n
    BY <1>3, <1>5, <1>6, <1>7, <2>1
  <2>2. CASE m \in DOMAIN msgList
    <3>1. msgList[m].call \in DOMAIN unit /\ msgList[m].call # next
      BY <1>3, <1>5, <2>2
    <3> QED
      BY <1>5, <1>6, <2>2, <3>1 DEF Inv, PassInv
  <2> QED
    BY <1>8, <2>1, <2>2
<1>11. \A m, k \in DOMAIN msgList' : msgList'[m].call = msgList'[k].call => m = k
  <2>1. \A m \in DOMAIN msgList : msgList'[m].call # msgList'[n].call
    BY <1>3, <1>5
  <2> QED
    BY <1>5, <1>8, <2>1 DEF Inv, PassInv
<1>12. \A i \in DOMAIN unit : stmts'[i].assigns # << >> => \E m \in DOMAIN msgList' : msgList'[m].call = i
  <2> TAKE i \in DOMAIN unit
  <2>1. CASE i = next
    <3>1. n \in DOMAIN msgList' /\ msgList'[n].call = i
      BY <1>5, <1>8, <2>1
    <3> QED
      BY <3>1
  <2>2. CASE i # next
    <3>1. stmts[i].assigns # << >> => \E m \in DOMAIN msgList : msgList[m].call = i
      BY DEF Inv, PassInv
    <3>2. \A m \in DOMAIN msgList : m \in DOMAIN msgList' /\ msgList'[m].call = msgList[m].call
      BY <1>5, <1>8
    <3>3. stmts'[i] = stmts[i]
      BY <1>6, <2>2
    <3> QED
      BY <3>1, <3>2, <3>3
  <2> QED
    BY <2>1, <2>2
<1> QED
  BY <1>1, <1>2, <1>9, <1>10, <1>11, <1>12 DEF Inv, PassInv

\* What AssignIds does to each call.
LEMMA AssignEach ==
    ASSUME Inv, AssignIds
    PROVE  /\ DOMAIN msgList' = DOMAIN msgList
           /\ \A n \in DOMAIN msgList : /\ msgList'[n].call = msgList[n].call
                                        /\ msgList'[n].key = msgList[n].key
                                        /\ msgList'[n].id \in 1..MaxId
                                        /\ [key |-> msgList[n].key, id |-> msgList'[n].id] \in registry'
           /\ \A i \in DOMAIN unit :
                 IF stmts[i].assigns # << >>
                 THEN \E n \in DOMAIN msgList :
                         /\ msgList[n].call = i
                         /\ stmts'[i] = [stmts[i] EXCEPT !.assigns[1].value = msgList'[n].id]
                 ELSE stmts'[i] = stmts[i]
<1>1. PICK ids \in [Collected -> 1..MaxId] :
          /\ Register(ids)
          /\ msgList' = [i \in DOMAIN msgList |-> [msgList[i] EXCEPT !.id = IdAfter(msgList[i], ids)]]
  BY DEF AssignIds
<1>2. msgList \in Seq([call : 1..(next - 1), key : Keys, id : Id]) /\ DOMAIN stmts = DOMAIN unit
      /\ DOMAIN msgList = 1..Len(msgList)
  BY DEF Inv, TypeOK
<1>3. ASSUME NEW n \in DOMAIN msgList
      PROVE  /\ msgList'[n].call = msgList[n].call /\ msgList'[n].key = msgList[n].key
             /\ msgList'[n].id = ids[msgList[n].key] /\ msgList[n].key \in Collected
  <2>1. msgList[n] \in [call : 1..(next - 1), key : Keys, id : Id]
    BY <1>2, ElementOfSeq
  <2>2. msgList'[n] = [msgList[n] EXCEPT !.id = ids[msgList[n].key]]
    BY <1>1 DEF IdAfter
  <2>3. msgList[n].key \in Collected
    BY DEF Collected
  <2> QED
    BY <2>1, <2>2, <2>3
<1>4. \A k \in Collected : ids[k] \in 1..MaxId /\ [key |-> k, id |-> ids[k]] \in registry'
  BY <1>1 DEF Register
<1>5. ASSUME NEW i \in DOMAIN unit
      PROVE  IF stmts[i].assigns # << >>
             THEN \E n \in DOMAIN msgList :
                     /\ msgList[n].call = i
                     /\ stmts'[i] = [stmts[i] EXCEPT !.assigns[1].value = msgList'[n].id]
             ELSE stmts'[i] = stmts[i]
  <2>1. stmts[i].assigns # << >> <=> \E n \in DOMAIN msgList : msgList[n].call = i
    BY DEF Inv, PassInv
  <2>2. CASE \E n \in DOMAIN msgList : msgList[n].call = i
    <3> DEFINE n == CHOOSE m \in DOMAIN msgList : msgList[m].call = i
    <3>1. n \in DOMAIN msgList /\ msgList[n].call = i
      BY <2>2
    <3>2. stmts'[i] = [stmts[i] EXCEPT !.assigns[1].value = msgList'[n].id]
      BY <1>2, <2>2 DEF AssignIds
    <3> HIDE DEF n
    <3> QED
      BY <2>1, <2>2, <3>1, <3>2
  <2>3. CASE ~ \E n \in DOMAIN msgList : msgList[n].call = i
    <3>1. stmts'[i] = stmts[i]
      BY <1>2, <2>3 DEF AssignIds
    <3> QED
      BY <2>1, <2>3, <3>1
  <2> QED
    BY <2>2, <2>3
<1> QED
  BY <1>1, <1>3, <1>4, <1>5

LEMMA PassAssign ==
    ASSUME Inv, AssignIds
    PROVE  PassInv'
<1>1. phase = "pass" /\ phase' = "emit" /\ UNCHANGED <<errors, prog, next, issued>>
  BY DEF AssignIds, AllCalls
<1>2. unit' = unit /\ \A i : Untouched(i)' = Untouched(i)
  BY <1>1 DEF unit, Untouched
<1>3. DOMAIN msgList' = DOMAIN msgList
  BY AssignEach
<1>4. \A n \in DOMAIN msgList : /\ msgList'[n].call = msgList[n].call
                                /\ msgList'[n].key = msgList[n].key
                                /\ msgList'[n].id \in 1..MaxId
                                /\ [key |-> msgList[n].key, id |-> msgList'[n].id] \in registry'
  BY AssignEach
<1>5. \A n \in DOMAIN msgList : msgList[n].call \in DOMAIN unit
  <2>1. next \in 1..(Len(unit) + 1) /\ DOMAIN unit = 1..Len(unit) /\ Len(unit) \in Nat
    BY UnitFacts DEF Inv, TypeOK
  <2>2. ASSUME NEW n \in DOMAIN msgList PROVE msgList[n].call \in 1..(next - 1)
    <3>1. msgList \in Seq([call : 1..(next - 1), key : Keys, id : Id]) /\ DOMAIN msgList = 1..Len(msgList)
      BY DEF Inv, TypeOK
    <3>2. msgList[n] \in [call : 1..(next - 1), key : Keys, id : Id]
      BY <3>1, ElementOfSeq
    <3> QED
      BY <3>2
  <2> QED
    BY <2>1, <2>2
<1>6. ASSUME NEW i \in DOMAIN unit
      PROVE  /\ stmts[i].assigns # << >> <=> stmts'[i].assigns # << >>
             /\ stmts[i].assigns = << >> => stmts'[i] = stmts[i]
             /\ stmts[i].assigns # << >> => \E n \in DOMAIN msgList :
                   msgList[n].call = i /\ stmts'[i].assigns[1].value = msgList'[n].id
  <2>1. CASE stmts[i].assigns = << >>
    BY <2>1, AssignEach
  <2>2. CASE stmts[i].assigns # << >>
    <3>1. PICK n \in DOMAIN msgList : /\ msgList[n].call = i
                                      /\ stmts'[i] = [stmts[i] EXCEPT !.assigns[1].value = msgList'[n].id]
      BY <2>2, AssignEach
    <3>2. msgList'[n].id \in Nat /\ stmts[i] \in Stmt
      <4>1. stmts[i] \in Stmt
        BY DEF Inv, TypeOK
      <4>2. msgList'[n].id \in 1..MaxId
        BY <1>4, Zenon
      <4> QED
        BY <4>1, <4>2
    <3>3. stmts[i].assigns \in Seq(Assign) /\ 1 \in 1..Len(stmts[i].assigns)
      BY <2>2, <3>2, EmptySeq DEF Stmt
    <3>4. stmts'[i].assigns[1] = [stmts[i].assigns[1] EXCEPT !.value = msgList'[n].id]
          /\ Len(stmts'[i].assigns) = Len(stmts[i].assigns)
      <4> DEFINE s == stmts[i]
                 id == msgList'[n].id
      <4>1. s \in Stmt /\ id \in Nat /\ s.assigns # << >>
            /\ stmts'[i] = [s EXCEPT !.assigns[1].value = id]
        BY <2>2, <3>1, <3>2
      <4> HIDE DEF s, id
      <4>2. stmts'[i].assigns[1] = [s.assigns[1] EXCEPT !.value = id]
            /\ Len(stmts'[i].assigns) = Len(s.assigns)
        BY <4>1, NewIdType
      <4> QED
        BY <4>2 DEF s, id
    <3>5. stmts[i].assigns[1] \in Assign
      BY <3>3, ElementOfSeq
    <3>6. stmts'[i].assigns[1].value = msgList'[n].id
      BY <3>4, <3>5 DEF Assign
    <3>7. stmts'[i].assigns # << >>
      BY <3>3, <3>4
    <3> QED
      BY <2>2, <3>1, <3>6, <3>7
  <2> QED
    BY <2>1, <2>2
<1>7. \A i \in DOMAIN unit : i >= next' => stmts'[i] = Untouched(i)
  <2>1. \A i \in DOMAIN unit : i >= next => stmts[i] = Untouched(i)
    BY DEF Inv, PassInv
  <2> QED
    BY <1>1, <1>6, <2>1 DEF Untouched
<1>8. \A m \in DOMAIN msgList' : /\ msgList'[m].key = KeyOf(unit[msgList'[m].call])
                                 /\ stmts'[msgList'[m].call].assigns # << >>
  BY <1>3, <1>4, <1>5, <1>6 DEF Inv, PassInv
<1>9. \A m, n \in DOMAIN msgList' : msgList'[m].call = msgList'[n].call => m = n
  BY <1>3, <1>4 DEF Inv, PassInv
<1>10. ASSUME NEW i \in DOMAIN unit, stmts'[i].assigns # << >>
       PROVE  \E m \in DOMAIN msgList' : msgList'[m].call = i
  <2>1. PICK n \in DOMAIN msgList : msgList[n].call = i
    BY <1>6, <1>10
  <2>2. n \in DOMAIN msgList' /\ msgList'[n].call = i
    BY <1>3, <1>4, <2>1
  <2> QED
    BY <2>2
<1>11. ASSUME NEW i \in DOMAIN unit, stmts'[i].assigns # << >>
       PROVE  [key |-> KeyOf(unit[i]), id |-> stmts'[i].assigns[1].value] \in registry'
  <2>1. PICK n \in DOMAIN msgList : msgList[n].call = i /\ stmts'[i].assigns[1].value = msgList'[n].id
    BY <1>6, <1>11
  <2>2. msgList[n].key = KeyOf(unit[i])
    BY <2>1 DEF Inv, PassInv
  <2> QED
    BY <1>4, <2>1, <2>2
<1>12. issued = {}
  BY <1>1 DEF Inv, PassInv
<1> QED
  BY <1>1, <1>2, <1>7, <1>8, <1>9, <1>10, <1>11, <1>12 DEF PassInv

LEMMA PassStep ==
    ASSUME Inv, [Next]_vars
    PROVE  PassInv'
<1>1. CASE Over \/ UNCHANGED vars
  <2>1. UNCHANGED <<phase, errors, prog, next, stmts, msgList, registry, issued>>
    BY <1>1 DEF Over, vars, pass, index
  <2> QED
    BY <2>1 DEF Inv, PassInv, unit, Untouched
<1>2. CASE Load \/ LoadFails \/ StartUnit \/ RegisterAttrs \/ PlainDecl \/ NoArgs \/ Declare \/ BadAttribute
           \/ BadSignature \/ NullTypeName \/ EndParse
  <2>1. phase \in {"load", "parse"} /\ UNCHANGED <<prog, next, stmts, msgList, registry, issued>>
    BY <1>2 DEF Load, LoadFails, StartUnit, RegisterAttrs, PlainDecl, NoArgs, Declare, BadAttribute,
                BadSignature, NullTypeName, EndParse, AttrSeen, AtDecl, Parsing, pass, index
  <2>2. phase' # "object"
    BY <1>2, <2>1 DEF Load, LoadFails, StartUnit, RegisterAttrs, PlainDecl, NoArgs, Declare, BadAttribute,
                BadSignature, NullTypeName, EndParse, Report
  <2>3. msgList = << >>
    BY <2>1 DEF Inv, PassInv
  <2> QED
    BY <2>1, <2>2, <2>3, PassFrame
<1>3. CASE OtherCall \/ SkipCall
  <2>1. phase = "pass" /\ phase' = "pass" /\ NextCall /\ UNCHANGED <<prog, stmts, msgList, registry, issued>>
    BY <1>3 DEF OtherCall, SkipCall, Resolved, LogCall, AtCall, index
  <2> QED
    BY <2>1, PassFrame
<1>4. CASE NoFields \/ HugeId \/ IndexFails
  <2>1. phase = "pass" /\ UNCHANGED <<prog, next, stmts, msgList, issued>>
    BY <1>4 DEF NoFields, HugeId, IndexFails, Resolved, LogCall, AtCall, AllCalls, pass, index
  <2>2. (phase' = "emit" /\ errors') \/ phase' = "aborted"
    BY <1>4 DEF NoFields, HugeId, IndexFails, Report
  <2>3. registry \subseteq registry'
    BY <1>4, RegisterType DEF NoFields, HugeId, IndexFails, index, Inv
  <2> QED
    BY <2>1, <2>2, <2>3, PassFrame
<1>5. CASE NothingLogged
  <2>1. phase = "pass" /\ phase' = "emit" /\ msgList = << >> /\ UNCHANGED <<prog, next, stmts, msgList, registry, issued>>
    BY <1>5 DEF NothingLogged, AllCalls, pass, index
  <2> QED
    BY <2>1, PassFrame
<1>6. CASE OtherCompiler
  <2>1. phase # "object" /\ registry \subseteq registry' /\ UNCHANGED <<phase, errors, prog, next, stmts, msgList, issued>>
    BY <1>6 DEF OtherCompiler, pass
  <2> QED
    BY <2>1, PassFrame
<1>7. CASE Emit
  <2>1. phase = "emit" /\ UNCHANGED <<errors, prog, next, stmts, msgList, registry>>
        /\ phase' \in {"object", "failed"} /\ (phase' = "failed" => issued' = issued)
    BY <1>7 DEF Emit, pass
  <2>2. phase' = "object" => issued' \subseteq registry
    BY <1>7, IssuedRegistered
  <2> QED
    BY <2>1, <2>2 DEF Inv, PassInv, unit, Untouched
<1> QED
  BY <1>1, <1>2, <1>3, <1>4, <1>5, <1>6, <1>7, PassRewrite, PassAssign DEF Next

\* Init and the steps together.
LEMMA InvInit == Init => Inv
<1> SUFFICES ASSUME Init PROVE Inv
  OBVIOUS
<1>1. TypeOK /\ prog \in Programs
  BY TypeInit
<1>2. ParseInv
  BY <1>1, UnitFacts DEF Init, ParseInv
<1>3. msgList = << >> /\ DOMAIN msgList = {}
  BY DEF Init
<1>4. \A i \in DOMAIN unit : stmts[i] = Untouched(i)
  BY DEF Init
<1>5. PassInv
  BY <1>3, <1>4 DEF Init, PassInv, Untouched
<1> QED
  BY <1>1, <1>2, <1>5 DEF Inv

LEMMA InvStep == Inv /\ [Next]_vars => Inv'
<1> SUFFICES ASSUME Inv, [Next]_vars PROVE Inv'
  OBVIOUS
<1>1. prog' = prog
  BY DEF Next, vars, Load, LoadFails, StartUnit, RegisterAttrs, PlainDecl, NoArgs, Declare, BadAttribute,
         BadSignature, NullTypeName, EndParse, OtherCall, NoFields, SkipCall, HugeId, RewriteCall,
         NothingLogged, AssignIds, IndexFails, Emit, OtherCompiler, Over
<1> QED
  BY <1>1, TypeStep, ParseStep, PassStep DEF Inv

\* What the steps of a compilation need holds in every reachable state.
THEOREM Invariant == Spec => []Inv
BY InvInit, InvStep, PTL DEF Spec

\* The state has the types of one, and a call before the current one alone has
\* been rewritten, in any compilation.
THEOREM Types == Spec => []TypeOK
<1>1. Inv => TypeOK
  BY DEF Inv
<1> QED
  BY <1>1, Invariant, PTL

-----------------------------------------------------------------------------
(* The registry.                                                            *)

\* A compilation is one user of the registry of IDs: the object file is
\* compiled with pairs the message index has registered, whatever the comments
\* ask for and whatever fails.
THEOREM Implements == Spec => ImplementsRegistry
<1>1. \A S : Coherent(S) <=> Registry!OneToOne(S)
  BY DEF Coherent, Registry!OneToOne
<1>2. Init => Registry!Init
  BY <1>1 DEF Init, Registry!Init
<1>3. ASSUME Inv, Inv', [Next]_vars PROVE [Registry!Next]_(Registry!vars)
  <2>1. CASE registry' = registry /\ issued' = issued
    BY <2>1 DEF Registry!vars
  <2>2. CASE Coherent(registry') /\ registry \subseteq registry' /\ issued' = issued
    <3>1. registry' \subseteq Pair
      BY <1>3 DEF Inv, TypeOK
    <3> QED
      BY <1>1, <2>2, <3>1 DEF Registry!Next, Registry!Register
  <2>3. CASE Load \/ LoadFails \/ StartUnit \/ RegisterAttrs \/ PlainDecl \/ NoArgs \/ Declare \/ BadAttribute
             \/ BadSignature \/ NullTypeName \/ EndParse \/ OtherCall \/ NoFields \/ SkipCall \/ HugeId
             \/ RewriteCall \/ NothingLogged \/ Over \/ UNCHANGED vars
    BY <2>1, <2>3 DEF vars, index, Load, LoadFails, StartUnit, RegisterAttrs, PlainDecl, NoArgs, Declare,
           BadAttribute, BadSignature, NullTypeName, EndParse, OtherCall, NoFields, SkipCall, HugeId,
           RewriteCall, NothingLogged, Over
  <2>4. ASSUME NEW ids \in [Collected -> 1..MaxId], Register(ids), issued' = issued
        PROVE  Coherent(registry') /\ registry \subseteq registry'
    BY <2>4 DEF Register
  <2>5. CASE AssignIds
    BY <2>2, <2>4, <2>5 DEF AssignIds
  <2>6. CASE IndexFails
    BY <2>1, <2>2, <2>4, <2>6 DEF IndexFails
  <2>7. CASE OtherCompiler
    BY <2>2, <2>7 DEF OtherCompiler
  <2>8. CASE Emit
    <3>1. registry' = registry /\ (issued' = issued \/ phase' = "object")
      BY <2>8 DEF Emit
    <3>2. phase = "emit" /\ issued = {}
      BY <1>3, <2>8 DEF Emit, Inv, PassInv
    <3>3. phase' = "object" => issued' \subseteq registry
      BY <1>3, <2>8, IssuedRegistered
    <3> QED
      BY <2>1, <3>1, <3>2, <3>3 DEF Registry!Next, Registry!Compile
  <2> QED
    BY <1>3, <2>3, <2>5, <2>6, <2>7, <2>8 DEF Next
<1> QED
  BY <1>2, <1>3, Invariant, PTL DEF Spec, ImplementsRegistry, Registry!Spec

-----------------------------------------------------------------------------
(* Misused attributes.                                                      *)

\* A function the pass knows is one that compiles.
LEMMA DescribedIsRight ==
    ASSUME prog \in Programs, NEW u \in DOMAIN prog.decls, FitsInt(prog.decls[u]), Described(u)
    PROVE  LET d == prog.decls[u]
           IN  /\ Compiled(d)
               /\ logFuncs[u].fn.fmtArgIndex + 1 = Number(d.args[2])
               /\ logFuncs[u].fn.fmtArgIndex \in Nat /\ logFuncs[u].fn.attrArgIndex \in Nat
               /\ Others(d.params, Number(d.args[2])) = {logFuncs[u].fn.attrArgIndex + 1}
<1> DEFINE d == prog.decls[u]
<1>1. d \in Decl /\ Len(d.params) <= IntMax
  BY UnitFacts
<1>2. \A n \in DOMAIN d.args : Numeric(d.args[n]) => Number(d.args[n]) \in IntMin..IntMax
  BY DEF FitsInt
<1>3. PICK i \in FmtArgIndexes(d) : /\ i >= 0 /\ GoodSignature(d.params, i)
                                    /\ logFuncs[u].fn = makeLogFunc(d.params, i)
  BY DEF Described
<1> HIDE DEF d
<1>4. Compiled(d) /\ i \in Nat /\ Number(d.args[2]) = i + 1
  BY <1>1, <1>2, <1>3, AcceptedIsRight
<1>5. d.params \in Seq(ParamType)
  BY <1>1 DEF Decl
<1>6. /\ makeLogFunc(d.params, i) \in [fmtArgIndex : Nat, attrArgIndex : Nat]
      /\ makeLogFunc(d.params, i).fmtArgIndex = i
      /\ Others(d.params, i + 1) = {makeLogFunc(d.params, i).attrArgIndex + 1}
  BY <1>3, <1>4, <1>5, SignatureIs
<1> QED
  BY <1>3, <1>4, <1>6 DEF d

\* A misused attribute never gets into an object file unnoticed, unless it names
\* a char that is not a const char*, or a number that does not fit an int.
THEOREM Misuse == Spec => []MisuseReported
<1>1. Inv => MisuseReported
  <2> SUFFICES ASSUME Inv, phase = "object", NEW u \in DOMAIN prog.decls, prog.decls[u].attributed,
                      FitsInt(prog.decls[u])
               PROVE  WellDeclared(prog.decls[u]) \/ CharInstead(prog.decls[u])
    BY DEF MisuseReported
  <2>1. u \in 1..seen /\ ~errors
    BY UnitFacts DEF Inv, ParseInv
  <2>2. Described(u)
    BY <2>1 DEF Inv, ParseInv
  <2> QED
    BY <2>2, DescribedIsRight DEF Inv, Compiled
<1> QED
  BY <1>1, Invariant, PTL

\* What the pass knows of the function of the call it is at.
LEMMA CalleeKnown ==
    ASSUME Inv, AtCall
    PROVE  IF prog.decls[Callee].attributed
           THEN logFuncs[Callee].status \in {"declared", "resolved"} /\ Described(Callee)
           ELSE logFuncs[Callee].status = "none"
<1>1. phase = "pass" /\ Callee \in DOMAIN prog.decls
  BY AtCallFacts DEF Inv, AtCall
<1>2. ~errors /\ seen = Len(prog.decls)
  BY <1>1 DEF Inv, ParseInv
<1>3. Callee \in 1..seen
  BY <1>1, <1>2, UnitFacts DEF Inv
<1> QED
  BY <1>1, <1>2, <1>3 DEF Inv, ParseInv

\* The only ways for the compiler to abort.
LEMMA AbortStep ==
    ASSUME Inv, OtherwiseNoAborts, [Next]_vars
    PROVE  OtherwiseNoAborts'
<1> SUFFICES ASSUME phase' = "aborted"
             PROVE  \/ prog'.percent
                    \/ \E i \in DOMAIN prog'.decls : \E j \in DOMAIN prog'.decls[i].params :
                          prog'.decls[i].attributed /\ prog'.decls[i].params[j] = "unnamed*"
  BY DEF OtherwiseNoAborts
<1>1. prog' = prog
  BY DEF Next, vars, Load, LoadFails, StartUnit, RegisterAttrs, PlainDecl, NoArgs, Declare, BadAttribute,
         BadSignature, NullTypeName, EndParse, OtherCall, NoFields, SkipCall, HugeId, RewriteCall,
         NothingLogged, AssignIds, IndexFails, Emit, OtherCompiler, Over
<1>2. CASE UNCHANGED phase
  BY <1>1, <1>2 DEF OtherwiseNoAborts
<1>3. CASE BadAttribute \/ IndexFails
  BY <1>1, <1>2, <1>3 DEF BadAttribute, IndexFails, Report
<1>4. CASE NullTypeName
  <2>1. PICK i \in FmtArgIndexes(D) : NamelessStruct(D.params, i)
    BY <1>4 DEF NullTypeName
  <2>2. \E j \in DOMAIN D.params : D.params[j] = "unnamed*"
    BY <2>1 DEF NamelessStruct
  <2>3. Uid \in DOMAIN prog.decls /\ D = prog.decls[Uid] /\ D.attributed
    BY <1>4 DEF NullTypeName, AttrSeen, AtDecl, D
  <2> QED
    BY <1>1, <2>2, <2>3
<1>5. CASE LoadFails \/ BadSignature \/ HugeId
  BY <1>2, <1>5 DEF LoadFails, BadSignature, HugeId, Report
<1>6. CASE NoFields
  <2>1. logFuncs[Callee].status = "null" /\ AtCall
    BY <1>6 DEF NoFields, Report, LogCall
  <2> QED
    BY <2>1, CalleeKnown
<1>7. CASE Load \/ StartUnit \/ RegisterAttrs \/ PlainDecl \/ NoArgs \/ Declare \/ EndParse \/ OtherCall
           \/ SkipCall \/ RewriteCall \/ NothingLogged \/ AssignIds \/ Emit \/ OtherCompiler \/ Over
           \/ UNCHANGED vars
  BY <1>2, <1>7 DEF Load, StartUnit, RegisterAttrs, PlainDecl, NoArgs, Declare, EndParse, OtherCall, SkipCall,
         RewriteCall, NothingLogged, AssignIds, Emit, OtherCompiler, Over, vars
<1> QED
  BY <1>3, <1>4, <1>5, <1>6, <1>7 DEF Next

\* The compiler does not abort in the middle of a callback, unless an error
\* quotes a '%' or a parameter points to a struct without a name.
THEOREM NoAborts == Spec => []OtherwiseNoAborts
<1>1. Init => OtherwiseNoAborts
  BY DEF Init, OtherwiseNoAborts
<1>2. Inv /\ OtherwiseNoAborts /\ [Next]_vars => OtherwiseNoAborts'
  BY AbortStep
<1> QED
  BY <1>1, <1>2, Invariant, PTL DEF Spec

\* A declaration in error is not one that compiles.
LEMMA ErrorIsMisuse ==
    ASSUME prog \in Programs, AtDecl, D.attributed,
           \/ Len(D.args) < MinArgCount
           \/ \E i \in FmtArgIndexes(D) : i < 0 \/ ~GoodSignature(D.params, i)
    PROVE  \E i \in DOMAIN prog.decls : prog.decls[i].attributed /\ ~Compiled(prog.decls[i])
<1>1. Uid \in DOMAIN prog.decls /\ D = prog.decls[Uid]
  BY DEF AtDecl, D
<1>2. D \in Decl /\ Len(D.params) <= IntMax
  BY <1>1, UnitFacts
<1>3. ~Compiled(D)
  <2> SUFFICES ASSUME Compiled(D) PROVE FALSE
    OBVIOUS
  <2>1. Len(D.args) = 2
    BY CompiledIs DEF Declared
  <2>2. \A i \in FmtArgIndexes(D) : i \in Nat /\ GoodSignature(D.params, i)
    BY <1>2, RightIsAccepted
  <2>3. \A i \in FmtArgIndexes(D) : ~(i < 0)
    BY <2>2
  <2> QED
    BY <2>1, <2>2, <2>3 DEF MinArgCount
<1> QED
  BY <1>1, <1>3

\* Errors have their reason, and a compiler that did not load the plugin never
\* defines its macro.
FailInv == OnlyMisuseFails /\ (phase = "load" => macro = "none")

LEMMA FailStep ==
    ASSUME Inv, FailInv, [Next]_vars
    PROVE  FailInv'
<1> DEFINE Misused == \E i \in DOMAIN prog.decls : prog.decls[i].attributed /\ ~Compiled(prog.decls[i])
           Unsearchable == ~FieldsDeclared /\ \E i \in DOMAIN unit : prog.decls[First(unit[i].fn)].attributed
           TooLong == \E i \in DOMAIN unit : unit[i].shape = "bigId"
<1>1. prog' = prog
  BY DEF Next, vars, Load, LoadFails, StartUnit, RegisterAttrs, PlainDecl, NoArgs, Declare, BadAttribute,
         BadSignature, NullTypeName, EndParse, OtherCall, NoFields, SkipCall, HugeId, RewriteCall,
         NothingLogged, AssignIds, IndexFails, Emit, OtherCompiler, Over
<1>2. unit' = unit /\ Misused' = Misused /\ Unsearchable' = Unsearchable /\ TooLong' = TooLong
  BY <1>1 DEF unit, FieldsDeclared, First
<1>3. OnlyMisuseFails <=> (errors => \/ macro = "none" \/ (next > Len(unit) /\ msgList # << >>)
                                     \/ Misused \/ Unsearchable \/ TooLong)
  BY DEF OnlyMisuseFails
<1>4. OnlyMisuseFails' <=> (errors' => \/ macro' = "none" \/ (next' > Len(unit) /\ msgList' # << >>)
                                       \/ Misused \/ Unsearchable \/ TooLong)
  BY <1>1, <1>2 DEF OnlyMisuseFails
<1> HIDE DEF Misused, Unsearchable, TooLong
<1>5. phase \in {"load", "pass"} => ~errors
  BY DEF Inv, ParseInv
<1>6. CASE Load
  BY <1>4, <1>5, <1>6 DEF Load, FailInv
<1>7. CASE LoadFails
  BY <1>4, <1>7 DEF LoadFails, Report, plugin, FailInv
<1>8. CASE StartUnit \/ RegisterAttrs
  <2>1. UNCHANGED <<phase, errors, next, msgList>> /\ (macro' = macro \/ macro = "pending") /\ phase = "parse"
    BY <1>8 DEF StartUnit, RegisterAttrs, pass
  <2> QED
    BY <1>3, <1>4, <2>1 DEF FailInv
<1>9. CASE PlainDecl \/ Declare \/ NullTypeName \/ EndParse \/ Emit \/ OtherCompiler \/ Over \/ UNCHANGED vars
  <2>1. UNCHANGED <<errors, macro, next, msgList>> /\ (phase' = "load" => phase = "load")
    BY <1>9 DEF PlainDecl, Declare, NullTypeName, EndParse, Emit, OtherCompiler, Over, vars, plugin, pass
  <2> QED
    BY <1>3, <1>4, <2>1 DEF FailInv
<1>10. CASE NoArgs \/ BadAttribute \/ BadSignature
  <2>1. AtDecl /\ D.attributed /\ phase' # "load"
    BY <1>10 DEF NoArgs, BadAttribute, BadSignature, AttrSeen, AtDecl, Parsing, Report
  <2>2. \/ Len(D.args) < MinArgCount
        \/ \E i \in FmtArgIndexes(D) : i < 0 \/ ~GoodSignature(D.params, i)
    BY <1>10 DEF NoArgs, BadAttribute, BadSignature
  <2>3. Misused
    BY <2>1, <2>2, ErrorIsMisuse DEF Misused, Inv
  <2> QED
    BY <1>4, <2>1, <2>3 DEF FailInv
<1>11. CASE OtherCall \/ SkipCall \/ RewriteCall \/ NothingLogged \/ AssignIds
  <2>1. phase = "pass" /\ phase' # "load" /\ errors' = errors
    BY <1>11 DEF OtherCall, SkipCall, RewriteCall, NothingLogged, AssignIds, Resolved, LogCall, AtCall, AllCalls
  <2> QED
    BY <1>4, <1>5, <2>1 DEF FailInv
<1>12. CASE NoFields
  <2>1. AtCall /\ phase' # "load"
    BY <1>12 DEF NoFields, LogCall, Report
  <2>2. CASE logFuncs[Callee].status = "declared" /\ ~FieldsFound
    <3>1. prog.decls[Callee].attributed /\ next \in DOMAIN unit
      BY <2>1, <2>2, CalleeKnown DEF AtCall
    <3>2. ~FieldsDeclared
      BY <2>2, FieldsAre DEF Inv
    <3>3. Unsearchable
      BY <3>1, <3>2 DEF Unsearchable, Callee, C
    <3> QED
      BY <1>4, <2>1, <3>3 DEF FailInv
  <2>3. CASE errors' = errors
    BY <1>4, <1>5, <2>1, <2>3 DEF FailInv, AtCall
  <2> QED
    BY <1>12, <2>2, <2>3 DEF NoFields
<1>13. CASE HugeId
  <2>1. next \in DOMAIN unit /\ unit[next].shape = "bigId" /\ phase' # "load"
    BY <1>13 DEF HugeId, Resolved, LogCall, AtCall, C, Report
  <2>2. TooLong
    BY <2>1 DEF TooLong
  <2> QED
    BY <1>4, <2>1, <2>2 DEF FailInv
<1>14. CASE IndexFails
  <2>1. next = Len(unit) + 1 /\ msgList # << >> /\ UNCHANGED <<next, msgList>> /\ phase' # "load"
    BY <1>14 DEF IndexFails, AllCalls, Report, pass
  <2>2. next > Len(unit)
    BY <2>1, UnitFacts DEF Inv
  <2> QED
    BY <1>4, <2>1, <2>2 DEF FailInv
<1> QED
  BY <1>6, <1>7, <1>8, <1>9, <1>10, <1>11, <1>12, <1>13, <1>14 DEF Next

\* Nothing but a misused attribute, a struct without the fields, an ID that is
\* too long, a wrong version or a message file that cannot be processed is an
\* error, in any unit and with structs nested to any depth.
THEOREM OnlyMisuse == Spec => []OnlyMisuseFails
<1>1. Init => FailInv
  BY DEF Init, FailInv, OnlyMisuseFails
<1>2. Inv /\ FailInv /\ [Next]_vars => FailInv'
  BY FailStep
<1>3. FailInv => OnlyMisuseFails
  BY DEF FailInv
<1> QED
  BY <1>1, <1>2, <1>3, Invariant, PTL DEF Spec

-----------------------------------------------------------------------------
(* Every message is logged.                                                 *)

\* What LogsMessage asks of the current call is what processStmt() asks.
LEMMA LogsIs ==
    ASSUME Inv, InRange, AtCall
    PROVE  LogsMessage(next) <=> logFuncs[Callee].status # "none" /\ Rewritten(C)
<1> DEFINE d == prog.decls[Callee]
           n == Number(d.args[2])
<1>1. Callee = First(unit[next].fn) /\ C = unit[next] /\ Callee \in DOMAIN prog.decls
  BY AtCallFacts DEF Callee, C, Inv
<1>2. C.args \in Seq(Arg)
  BY AtCallFacts DEF Call, Inv
<1>3. DOMAIN C.args = 1..Len(C.args) /\ Len(C.args) \in Nat
  BY <1>2
<1>4. CASE ~d.attributed
  BY <1>1, <1>4, CalleeKnown DEF LogsMessage
<1>5. CASE d.attributed
  <2>1. logFuncs[Callee].status # "none" /\ Described(Callee)
    BY <1>5, CalleeKnown
  <2>2. /\ Compiled(d) /\ F.fmtArgIndex + 1 = n
        /\ F.fmtArgIndex \in Nat /\ F.attrArgIndex \in Nat /\ Others(d.params, n) = {F.attrArgIndex + 1}
    BY <1>1, <2>1, DescribedIsRight DEF F, Inv, InRange
  <2> HIDE DEF d, n
  <2>3. LogsMessage(next) <=>
           /\ n \in DOMAIN C.args /\ C.args[n] = "string"
           /\ \E j \in Others(d.params, n) : j \in DOMAIN C.args /\ C.args[j] = "variable"
           /\ C.shape \in {"good", "dupAttr"}
    BY <1>1, <1>5, <2>2 DEF LogsMessage, d, n
  <2>4. F.fmtArgIndex < Len(C.args) <=> n \in DOMAIN C.args
    BY <1>3, <2>2
  <2>5. F.attrArgIndex < Len(C.args) <=> F.attrArgIndex + 1 \in DOMAIN C.args
    BY <1>3, <2>2
  <2> QED
    BY <2>1, <2>2, <2>3, <2>4, <2>5 DEF Rewritten, Loggable
<1> QED
  BY <1>4, <1>5

\* A call that is rewritten is marked with the placeholder.
LEMMA RewriteMarks ==
    ASSUME Inv, FoundInv, InRange, RewriteCall
    PROVE  LogsMessage(next) /\ Marked(next, Rewrite(C), INVALID_MSG_ID)
<1> DEFINE d == prog.decls[Callee]
           n == Number(d.args[2])
<1>1. AtCall /\ Rewritten(C) /\ logFuncs[Callee].status # "none"
      /\ (FieldsFound \/ logFuncs[Callee].status = "resolved")
  BY DEF RewriteCall, Resolved, LogCall
<1>2. LogsMessage(next)
  BY <1>1, LogsIs
<1>3. Callee = First(unit[next].fn) /\ C = unit[next] /\ Callee \in DOMAIN prog.decls
  BY <1>1, AtCallFacts DEF Callee, C, Inv
<1>4. Described(Callee)
  BY <1>1, CalleeKnown
<1>5. F.fmtArgIndex + 1 = n /\ Others(d.params, n) = {F.attrArgIndex + 1}
  BY <1>3, <1>4, DescribedIsRight DEF F, Inv, InRange
<1>6. IdField \in Members(prog.struct, "id") /\ HasIdField \in Members(prog.struct, "has_id")
  BY <1>1, <1>3, FieldsAre DEF Inv, FoundInv
<1>7. Rewrite(C) = [args |-> [C.args EXCEPT ![F.fmtArgIndex + 1] = "specs"],
                    assigns |-> << [variable |-> F.attrArgIndex + 1, field |-> IdField, value |-> INVALID_MSG_ID],
                                   [variable |-> F.attrArgIndex + 1, field |-> HasIdField, value |-> 1] >>]
  BY DEF Rewrite
<1>8. F.attrArgIndex + 1 \in Others(d.params, n)
  BY <1>5
<1>9. Marked(next, Rewrite(C), INVALID_MSG_ID)
  <2> HIDE DEF n
  <2>1. Rewrite(C).args = [unit[next].args EXCEPT ![n] = "specs"]
    BY <1>3, <1>5, <1>7
  <2>2. \E j \in Others(d.params, n), p \in Members(prog.struct, "id"), q \in Members(prog.struct, "has_id") :
           Rewrite(C).assigns = << [variable |-> j, field |-> p, value |-> INVALID_MSG_ID],
                                   [variable |-> j, field |-> q, value |-> 1] >>
    BY <1>6, <1>7, <1>8
  <2> QED
    BY <1>3, <2>1, <2>2 DEF Marked, n
<1> QED
  BY <1>2, <1>9

\* Fields are only resolved if they are there.
LEMMA FoundStep ==
    ASSUME Inv, FoundInv, [Next]_vars
    PROVE  FoundInv'
<1>1. prog' = prog
  BY DEF Next, vars, Load, LoadFails, StartUnit, RegisterAttrs, PlainDecl, NoArgs, Declare, BadAttribute,
         BadSignature, NullTypeName, EndParse, OtherCall, NoFields, SkipCall, HugeId, RewriteCall,
         NothingLogged, AssignIds, IndexFails, Emit, OtherCompiler, Over
<1>2. FieldsFound' = FieldsFound
  BY <1>1 DEF FieldsFound, IdField, HasIdField
<1>3. DOMAIN logFuncs = DOMAIN prog.decls
  BY DEF Inv, TypeOK
<1>4. CASE UNCHANGED logFuncs
  BY <1>1, <1>2, <1>4 DEF FoundInv
<1>5. ASSUME NEW s \in {"declared", "null"}, NEW f, logFuncs' = Recorded(s, f) PROVE FoundInv'
  BY <1>1, <1>2, <1>3, <1>5 DEF FoundInv, Recorded
<1>6. CASE SkipCall \/ HugeId \/ RewriteCall
  <2>1. logFuncs' = [logFuncs EXCEPT ![Callee].status = "resolved"] /\ AtCall
        /\ (FieldsFound \/ logFuncs[Callee].status = "resolved")
    BY <1>6 DEF SkipCall, HugeId, RewriteCall, Resolve, Resolved, LogCall
  <2>2. FieldsFound
    BY <2>1, AtCallFacts DEF FoundInv, Inv
  <2> QED
    BY <1>2, <2>2 DEF FoundInv
<1>7. CASE Declare \/ BadSignature
  BY <1>4, <1>5, <1>7 DEF Declare, BadSignature
<1>8. CASE Load \/ LoadFails \/ StartUnit \/ RegisterAttrs \/ PlainDecl \/ NoArgs \/ BadAttribute \/ NullTypeName
           \/ EndParse \/ OtherCall \/ NoFields \/ NothingLogged \/ AssignIds \/ IndexFails \/ Emit
           \/ OtherCompiler \/ Over \/ UNCHANGED vars
  BY <1>4, <1>8 DEF Load, LoadFails, StartUnit, RegisterAttrs, PlainDecl, NoArgs, BadAttribute, NullTypeName,
         EndParse, OtherCall, NoFields, NothingLogged, AssignIds, IndexFails, Emit, OtherCompiler, Over, vars, funcs
<1> QED
  BY <1>6, <1>7, <1>8 DEF Next

\* A placeholder gives way to an ID.
LEMMA MarkedWithId ==
    ASSUME NEW i, NEW s \in Stmt, Marked(i, s, INVALID_MSG_ID), NEW id \in Nat
    PROVE  Marked(i, [s EXCEPT !.assigns[1].value = id], id)
<1> DEFINE d == prog.decls[First(unit[i].fn)]
           n == Number(d.args[2])
           t == [s EXCEPT !.assigns[1].value = id]
<1>1. PICK j \in Others(d.params, n), p \in Members(prog.struct, "id"), q \in Members(prog.struct, "has_id") :
              s.assigns = << [variable |-> j, field |-> p, value |-> INVALID_MSG_ID],
                             [variable |-> j, field |-> q, value |-> 1] >>
  BY DEF Marked
<1>2. Len(s.assigns) = 2 /\ s.assigns # << >>
      /\ s.assigns[1] = [variable |-> j, field |-> p, value |-> INVALID_MSG_ID]
      /\ s.assigns[2] = [variable |-> j, field |-> q, value |-> 1]
  BY <1>1
<1>3. /\ t \in Stmt /\ t.args = s.args /\ Len(t.assigns) = 2
      /\ t.assigns[1] = [s.assigns[1] EXCEPT !.value = id]
      /\ t.assigns[2] = s.assigns[2]
  BY <1>2, NewIdType
<1> HIDE DEF t
<1>4. t.assigns[1] = [variable |-> j, field |-> p, value |-> id]
  BY <1>2, <1>3
<1>5. t.assigns = << t.assigns[1], t.assigns[2] >>
  <2>1. t.assigns \in Seq(Assign)
    BY <1>3 DEF Stmt
  <2> QED
    BY <1>3, <2>1
<1>6. t.assigns = << [variable |-> j, field |-> p, value |-> id], [variable |-> j, field |-> q, value |-> 1] >>
  BY <1>2, <1>3, <1>4, <1>5
<1>7. t.args = [unit[i].args EXCEPT ![n] = "specs"]
  BY <1>3 DEF Marked
<1>8. Marked(i, t, id)
  BY <1>6, <1>7 DEF Marked
<1> QED
  BY <1>8 DEF t

\* The current call has been processed.
LEMMA MarkCall ==
    ASSUME Inv, FoundInv, MarkInv, InRange, hasIndex, OtherCall \/ SkipCall \/ RewriteCall, NEW i \in DOMAIN unit,
           i < next'
    PROVE  IF LogsMessage(i) THEN Marked(i, stmts'[i], INVALID_MSG_ID) ELSE stmts'[i] = Untouched(i)
<1>1. AtCall /\ phase = "pass" /\ ~errors /\ next' = next + 1
  BY DEF OtherCall, SkipCall, RewriteCall, Resolved, LogCall, AtCall, NextCall, Inv, ParseInv
<1>2. i \in Nat /\ next \in Nat /\ next \in DOMAIN unit
  BY <1>1, UnitFacts, AtCallFacts DEF Inv
<1>3. DOMAIN stmts = DOMAIN unit
  BY DEF Inv, TypeOK
<1>4. \A k \in DOMAIN unit : k # next => stmts'[k] = stmts[k]
  BY <1>3 DEF OtherCall, SkipCall, RewriteCall
<1>5. CASE i < next
  BY <1>1, <1>2, <1>4, <1>5 DEF MarkInv
<1>6. CASE i = next
  <2>1. CASE OtherCall \/ SkipCall
    <3>1. ~LogsMessage(next)
      BY <1>1, <2>1, LogsIs DEF OtherCall, SkipCall, Rewritten
    <3>2. stmts[next] = Untouched(next)
      BY <1>2 DEF Inv, PassInv
    <3> QED
      BY <1>6, <2>1, <3>1, <3>2 DEF OtherCall, SkipCall
  <2>2. CASE RewriteCall
    <3>1. LogsMessage(next) /\ Marked(next, Rewrite(C), INVALID_MSG_ID)
      BY <2>2, RewriteMarks
    <3>2. stmts'[next] = Rewrite(C)
      BY <1>2, <1>3, <2>2 DEF RewriteCall
    <3> QED
      BY <1>6, <3>1, <3>2
  <2> QED
    BY <2>1, <2>2
<1> QED
  BY <1>1, <1>2, <1>5, <1>6

\* The calls when the pass is over.
LEMMA MarkAssign ==
    ASSUME Inv, MarkInv, InRange, hasIndex, AssignIds, NEW i \in DOMAIN unit
    PROVE  IF LogsMessage(i) THEN \E id \in 1..MaxId : Marked(i, stmts'[i], id) ELSE stmts'[i] = Untouched(i)
<1>1. phase = "pass" /\ next = Len(unit) + 1 /\ ~errors
  BY DEF AssignIds, AllCalls, Inv, ParseInv
<1>2. i < next
  BY <1>1, UnitFacts DEF Inv
<1>3. IF LogsMessage(i) THEN Marked(i, stmts[i], INVALID_MSG_ID) ELSE stmts[i] = Untouched(i)
  BY <1>1, <1>2 DEF MarkInv
<1>4. CASE LogsMessage(i)
  <2>1. stmts[i].assigns # << >>
    <3>1. \E a, b : stmts[i].assigns = << a, b >>
      BY <1>3, <1>4 DEF Marked
    <3> QED
      BY <3>1
  <2>2. PICK n \in DOMAIN msgList : stmts'[i] = [stmts[i] EXCEPT !.assigns[1].value = msgList'[n].id]
    BY <2>1, AssignEach
  <2>3. msgList'[n].id \in 1..MaxId
    BY AssignEach
  <2>4. stmts[i] \in Stmt
    BY DEF Inv, TypeOK
  <2> DEFINE id == msgList'[n].id
             s == stmts[i]
  <2>5. id \in Nat /\ s \in Stmt /\ Marked(i, s, INVALID_MSG_ID) /\ stmts'[i] = [s EXCEPT !.assigns[1].value = id]
    BY <1>3, <1>4, <2>2, <2>3, <2>4
  <2> HIDE DEF id, s
  <2>6. Marked(i, stmts'[i], id)
    BY <2>5, MarkedWithId
  <2> QED
    BY <1>4, <2>3, <2>6 DEF id
<1>5. CASE ~LogsMessage(i)
  <2>1. stmts[i] = Untouched(i) /\ stmts[i].assigns = << >>
    BY <1>3, <1>5 DEF Untouched
  <2> QED
    BY <1>5, <2>1, AssignEach
<1> QED
  BY <1>4, <1>5

LEMMA MarkStep ==
    ASSUME Inv, FoundInv, MarkInv, [Next]_vars
    PROVE  MarkInv'
<1>1. prog' = prog
  BY DEF Next, vars, Load, LoadFails, StartUnit, RegisterAttrs, PlainDecl, NoArgs, Declare, BadAttribute,
         BadSignature, NullTypeName, EndParse, OtherCall, NoFields, SkipCall, HugeId, RewriteCall,
         NothingLogged, AssignIds, IndexFails, Emit, OtherCompiler, Over
<1>2. /\ unit' = unit /\ InRange' = InRange
      /\ \A i : Untouched(i)' = Untouched(i)
      /\ \A i : LogsMessage(i)' = LogsMessage(i)
  BY <1>1 DEF unit, InRange, Untouched, LogsMessage, First
<1>3. \A i, id : Marked(i, stmts[i], id)' <=> Marked(i, stmts'[i], id)
  BY <1>1 DEF unit, Marked, First
<1> DEFINE Marks == \A i \in DOMAIN unit :
                       i < next' => IF LogsMessage(i) THEN Marked(i, stmts'[i], INVALID_MSG_ID)
                                    ELSE stmts'[i] = Untouched(i)
           Logs == \A i \in DOMAIN unit :
                      IF LogsMessage(i) THEN \E id \in 1..MaxId : Marked(i, stmts'[i], id)
                      ELSE stmts'[i] = Untouched(i)
<1>4. SUFFICES ASSUME InRange, hasIndex', ~errors'
               PROVE  (phase' = "pass" => Marks) /\ (phase' \in {"emit", "object"} => Logs)
  BY <1>2, <1>3 DEF MarkInv, INVALID_MSG_ID
<1> HIDE DEF Marks, Logs
<1>5. CASE Load \/ LoadFails \/ StartUnit \/ RegisterAttrs \/ PlainDecl \/ NoArgs \/ Declare \/ BadAttribute
           \/ BadSignature \/ NullTypeName \/ NoFields \/ HugeId \/ IndexFails
  <2>1. phase' \in {"parse", "aborted"} \/ errors'
    BY <1>5 DEF Load, LoadFails, StartUnit, RegisterAttrs, PlainDecl, NoArgs, Declare, BadAttribute,
           BadSignature, NullTypeName, NoFields, HugeId, IndexFails, Report, AttrSeen, AtDecl, Parsing
  <2> QED
    BY <1>4, <2>1
<1>6. CASE EndParse
  <2>1. phase = "parse" /\ ~errors /\ hasIndex /\ UNCHANGED <<next, stmts>> /\ seen = Len(prog.decls)
        /\ phase' = IF Gate THEN "pass" ELSE "emit"
    BY <1>4, <1>6 DEF EndParse, Parsing, plugin, pass
  <2>2. next = 1 /\ \A i \in DOMAIN unit : i >= 1 /\ ~(i < 1) /\ stmts[i] = Untouched(i)
    BY <2>1, UnitFacts DEF Inv, PassInv
  <2>3. Marks
    BY <2>1, <2>2 DEF Marks
  <2>4. CASE ~Gate
    <3>1. \A u \in DOMAIN prog.decls : logFuncs[u].status = "none"
      BY <2>1, <2>4 DEF Gate, Inv, TypeOK
    <3>2. \A u \in DOMAIN prog.decls : ~prog.decls[u].attributed
      BY <2>1, <3>1, UnitFacts DEF Inv, ParseInv
    <3>3. \A i \in DOMAIN unit : ~LogsMessage(i)
      BY <3>2, CalleeIs DEF LogsMessage, Inv
    <3> QED
      BY <2>1, <2>2, <2>4, <3>3 DEF Logs
  <2> QED
    BY <2>1, <2>3, <2>4
<1>7. CASE OtherCall \/ SkipCall \/ RewriteCall
  <2>1. phase' = "pass" /\ hasIndex
    BY <1>4, <1>7 DEF OtherCall, SkipCall, RewriteCall, Resolved, LogCall, AtCall, plugin
  <2>2. Marks
    BY <1>4, <1>7, <2>1, MarkCall DEF Marks
  <2> QED
    BY <2>1, <2>2
<1>8. CASE AssignIds
  <2>1. phase' = "emit" /\ hasIndex
    BY <1>4, <1>8 DEF AssignIds, plugin
  <2>2. Logs
    BY <1>4, <1>8, <2>1, MarkAssign DEF Logs
  <2> QED
    BY <2>1, <2>2
<1>9. CASE NothingLogged
  <2>1. phase = "pass" /\ phase' = "emit" /\ hasIndex /\ ~errors /\ next = Len(unit) + 1 /\ msgList = << >>
        /\ stmts' = stmts
    BY <1>4, <1>9 DEF NothingLogged, AllCalls, plugin, pass
  <2>2. ASSUME NEW i \in DOMAIN unit PROVE ~LogsMessage(i) /\ stmts'[i] = Untouched(i)
    <3>1. i < next
      BY <2>1, UnitFacts DEF Inv
    <3>2. IF LogsMessage(i) THEN Marked(i, stmts[i], INVALID_MSG_ID) ELSE stmts[i] = Untouched(i)
      BY <1>4, <2>1, <3>1 DEF MarkInv
    <3>3. stmts[i].assigns = << >>
      BY <2>1 DEF Inv, PassInv
    <3> QED
      BY <2>1, <3>2, <3>3 DEF Marked
  <2> QED
    BY <2>1, <2>2 DEF Logs
<1>10. CASE Emit \/ OtherCompiler \/ Over \/ UNCHANGED vars
  <2>1. UNCHANGED <<hasIndex, errors, next, stmts>>
        /\ (phase' = phase \/ (phase = "emit" /\ phase' \in {"object", "failed"}))
    BY <1>10 DEF Emit, OtherCompiler, Over, vars, plugin, pass
  <2> QED
    BY <1>4, <2>1 DEF MarkInv, Marks, Logs
<1> QED
  BY <1>5, <1>6, <1>7, <1>8, <1>9, <1>10 DEF Next

\* In an object file compiled with an index, every message logged through a
\* logging function has been replaced by its format specs and gets an ID that
\* is set, and no other call has been touched: in any unit whose numbers fit an
\* int, with any number of calls and structs nested to any depth.
THEOREM Messages == Spec => []AllMessagesLogged
<1> DEFINE MInv == FoundInv /\ MarkInv
<1>1. Init => MInv
  BY DEF Init, FoundInv, MarkInv
<1>2. Inv /\ MInv /\ [Next]_vars => MInv'
  BY FoundStep, MarkStep
<1>3. Inv /\ MInv => AllMessagesLogged
  <2> SUFFICES ASSUME Inv, MarkInv, phase = "object", hasIndex, InRange, NEW i \in DOMAIN unit
               PROVE  IF LogsMessage(i) THEN Logged(i, stmts[i]) ELSE stmts[i] = Untouched(i)
    BY DEF AllMessagesLogged
  <2>1. ~errors
    BY DEF Inv, ParseInv
  <2>2. IF LogsMessage(i) THEN \E id \in 1..MaxId : Marked(i, stmts[i], id) ELSE stmts[i] = Untouched(i)
    BY <2>1 DEF MarkInv
  <2>3. ASSUME NEW id \in 1..MaxId, Marked(i, stmts[i], id) PROVE Logged(i, stmts[i])
    BY <2>3 DEF Marked, Logged
  <2> QED
    BY <2>2, <2>3
<1> HIDE DEF MInv
<1> QED
  BY <1>1, <1>2, <1>3, Invariant, PTL DEF Spec

=============================================================================
