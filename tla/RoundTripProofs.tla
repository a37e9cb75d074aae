-------------------------- MODULE RoundTripProofs --------------------------
(***************************************************************************)
(* What a compilation writes into a destination file is read back by the   *)
(* next one (RoundTrip), for files and units of any size.                  *)
(*                                                                         *)
(* What a document says is a function of its text: Doc takes the state of  *)
(* the document over one lexeme.  A trace is the sequence of these states  *)
(* along a text.  Two texts that begin alike have traces that begin alike, *)
(* so that what the first compilation has seen of the old part of the new  *)
(* file is what the second one sees; and the trace of the new part is      *)
(* known when it is written.                                               *)
(***************************************************************************)
EXTENDS RoundTrip, IndexReaderProofs, FiniteSetTheorems, WellFoundedInduction

-----------------------------------------------------------------------------
(* The state of the document and its steps.                                 *)

\* The variables of MsgDocument and where commas are due.
Doc == [ctx |-> ctx, name |-> name, place |-> place, at |-> at, said |-> said,
        valid |-> valid, entries |-> entries, sep |-> sep]

Start == [ctx |-> << >>, name |-> NoName, place |-> "start", at |-> 0, said |-> Nothing,
          valid |-> TRUE, entries |-> << >>, sep |-> "start"]

In(s, kind) == s.place = "inside" /\ s.ctx[Len(s.ctx)] = kind
Due(s) == s.place = "start" \/ In(s, "array") \/ (In(s, "object") /\ s.name # NoName)

\* Grammatical(l) in state s.
Fitting(s, l) ==
    \/ l.lex = "remark"
    \/ l.lex = "comma" /\ Len(s.ctx) > 0 /\ s.name = NoName /\ s.sep = "item"
    \/ l.lex \in {"value", "beginObject", "beginArray"} /\ Due(s) /\ s.sep # "item"
    \/ l.lex = "name" /\ In(s, "object") /\ s.name = NoName /\ s.sep # "item"
    \/ l.lex = "endObject" /\ In(s, "object") /\ s.name = NoName /\ s.sep # "comma"
    \/ l.lex = "endArray" /\ In(s, "array") /\ s.sep # "comma"

\* Meaning(v) in state s.
Good(s, v) ==
    /\ Len(s.ctx) = 0 => v.kind = "array"
    /\ Len(s.ctx) = 1 => v.kind = "object"
    /\ Len(s.ctx) = 2 => Fits(s.name, v)
SaidThen(s, v) ==
    IF Len(s.ctx) = 2 /\ s.name \in Attrs THEN [s.said EXCEPT ![s.name] = v] ELSE s.said

Whole(s) == s.said["id"] # Absent /\ s.said["msg"] # Absent

AfterComma(s) ==
    [ctx |-> s.ctx, name |-> s.name, place |-> s.place, at |-> s.at, said |-> s.said,
     valid |-> s.valid, entries |-> s.entries, sep |-> "comma"]
AfterName(s, n) ==
    [ctx |-> s.ctx, name |-> n, place |-> s.place, at |-> s.at + 1, said |-> s.said,
     valid |-> s.valid, entries |-> s.entries, sep |-> "start"]
AfterScalar(s, v) ==
    [ctx |-> s.ctx, name |-> NoName, place |-> IF Len(s.ctx) = 0 THEN "end" ELSE s.place,
     at |-> s.at + 1, said |-> SaidThen(s, v), valid |-> s.valid /\ Good(s, v),
     entries |-> s.entries, sep |-> "item"]
AfterBegin(s, kind) ==
    [ctx |-> Append(s.ctx, kind), name |-> NoName, place |-> "inside",
     at |-> s.at + 1, said |-> SaidThen(s, [kind |-> kind]),
     valid |-> s.valid /\ Good(s, [kind |-> kind]), entries |-> s.entries, sep |-> "start"]
AfterInner(s) ==
    [ctx |-> SubSeq(s.ctx, 1, Len(s.ctx) - 1), name |-> s.name,
     place |-> IF Len(s.ctx) = 1 THEN "end" ELSE s.place, at |-> s.at + 1, said |-> s.said,
     valid |-> s.valid, entries |-> s.entries, sep |-> "item"]
AfterObject(s) ==
    [ctx |-> SubSeq(s.ctx, 1, Len(s.ctx) - 1), name |-> s.name, place |-> s.place,
     at |-> s.at + 1, said |-> Nothing, valid |-> s.valid /\ Whole(s),
     entries |-> IF s.valid /\ Whole(s)
                 THEN Append(s.entries, [key |-> KeyOf(s.said), id |-> s.said["id"].int,
                                         end |-> s.at + 1])
                 ELSE s.entries,
     sep |-> "item"]

\* One lexeme.
After(s, l) ==
    CASE l.lex = "remark" -> s
      [] l.lex = "comma" -> AfterComma(s)
      [] l.lex = "name" -> AfterName(s, l.name)
      [] l.lex = "value" -> AfterScalar(s, l.value)
      [] l.lex = "beginObject" -> AfterBegin(s, "object")
      [] l.lex = "beginArray" -> AfterBegin(s, "array")
      [] OTHER -> IF Len(s.ctx) = 2 THEN AfterObject(s) ELSE AfterInner(s)

LEMMA GrammaticalIs ==
    ASSUME NEW l
    PROVE  Grammatical(l) <=> Fitting(Doc, l)
BY DEF Grammatical, Fitting, Doc, Depth, ItemDue, ValueDue, Due, Inside, In

\* Values that are read are values the reader knows.
LEMMA LexemeIs ==
    ASSUME NEW l \in Lexeme
    PROVE  /\ l.lex = "value" => l.value \in Scalar
           /\ l.lex = "name" => l.name \in Names
           /\ l.lex \in Marks \cup {"name", "value"}
<1>1. Written \subseteq Scalar
  BY WrittenAssumption DEF Written, Scalar
<1>2. CASE l \in {Mark(m) : m \in Marks}
  <2>1. PICK m \in Marks : l = Mark(m)
    BY <1>2
  <2>2. l.lex = m /\ m # "name" /\ m # "value"
    BY <2>1 DEF Mark, Marks
  <2> QED
    BY <2>1, <2>2
<1>3. CASE l \in {NameOf(n) : n \in Names}
  <2>1. PICK n \in Names : l = NameOf(n)
    BY <1>3
  <2>2. l.lex = "name" /\ l.name = n
    BY <2>1 DEF NameOf
  <2> QED
    BY <2>2
<1>4. CASE l \in {ValueOf(v) : v \in Scalar \cup Written}
  <2>1. PICK v \in Scalar \cup Written : l = ValueOf(v)
    BY <1>4
  <2>2. l.lex = "value" /\ l.value = v
    BY <2>1 DEF ValueOf
  <2> QED
    BY <1>1, <2>1, <2>2
<1> QED
  BY <1>2, <1>3, <1>4 DEF Lexeme

LEMMA EndStep ==
    ASSUME NEW kind, DocEnd(kind), sep' = "item"
    PROVE  Doc' = IF Depth = 2 THEN AfterObject(Doc) ELSE AfterInner(Doc)
<1>1. CASE Depth = 2
  <2>1. valid' = (valid /\ Complete) /\ said' = Nothing /\ ctx' = SubSeq(ctx, 1, Depth - 1)
        /\ place' = place /\ at' = at + 1 /\ name' = name
    BY <1>1 DEF DocEnd, Advance
  <2>2. entries' = IF valid /\ Complete
                   THEN Append(entries, [key |-> KeyOf(said), id |-> said["id"].int, end |-> at + 1])
                   ELSE entries
    BY <1>1 DEF DocEnd
  <2>3. Complete <=> Whole(Doc)
    BY DEF Complete, Whole, Doc
  <2> QED
    BY <1>1, <2>1, <2>2, <2>3 DEF AfterObject, Doc, Depth
<1>2. CASE Depth # 2
  BY <1>2 DEF DocEnd, AfterInner, Doc, Advance, Depth
<1> QED
  BY <1>1, <1>2

\* Reading a lexeme takes the document over it and is a step of the reader.
LEMMA EventStep ==
    ASSUME NEW l \in Lexeme, status = "parsing", Event(l), Grammatical(l)
    PROVE  Doc' = After(Doc, l) /\ [Next]_vars
<1>1. CASE l.lex = "remark"
  BY <1>1 DEF Event, After, Doc, vars, docVars
<1>2. CASE l.lex = "comma"
  BY <1>2 DEF Event, After, AfterComma, Doc, vars, docVars
<1>3. CASE l.lex = "beginObject"
  <2>1. BeginObject /\ sep' = "start"
    BY <1>3 DEF Event
  <2> QED
    BY <1>3, <2>1 DEF After, AfterBegin, Doc, BeginObject, DocBegin, Meaning, Allowed, Good, SaidThen,
                      Advance, Depth, Next
<1>4. CASE l.lex = "beginArray"
  <2>1. BeginArray /\ sep' = "start"
    BY <1>4 DEF Event
  <2> QED
    BY <1>4, <2>1 DEF After, AfterBegin, Doc, BeginArray, DocBegin, Meaning, Allowed, Good, SaidThen,
                      Advance, Depth, Next
<1>5. CASE l.lex = "name"
  <2>1. Name /\ name' = l.name /\ sep' = "start"
    BY <1>5 DEF Event
  <2> QED
    BY <1>5, <2>1 DEF After, AfterName, Doc, Name, DocName, Advance, Next
<1>6. CASE l.lex = "value"
  <2>1. HandleScalar(l.value) /\ sep' = "item" /\ l.value \in Scalar
    BY <1>6, LexemeIs DEF Event
  <2>2. Next
    BY <2>1 DEF Next, ScalarValue
  <2>3. DocScalar(l.value)
    BY <2>1 DEF HandleScalar
  <2> QED
    BY <1>6, <2>1, <2>2, <2>3 DEF After, AfterScalar, Doc, DocScalar, Meaning, Allowed, Good,
                                  SaidThen, Advance, Depth
<1>7. CASE l.lex = "endObject"
  <2>1. EndObject /\ sep' = "item" /\ DocEnd("object")
    BY <1>7 DEF Event, EndObject
  <2> QED
    BY <1>7, <2>1, EndStep DEF After, Doc, Depth, Next
<1>8. CASE l.lex = "endArray"
  <2>1. EndArray /\ sep' = "item" /\ DocEnd("array")
    BY <1>8 DEF Event, EndArray
  <2> QED
    BY <1>8, <2>1, EndStep DEF After, Doc, Depth, Next
<1>9. l.lex # "unterminated"
  BY DEF Event
<1> QED
  BY <1>1, <1>2, <1>3, <1>4, <1>5, <1>6, <1>7, <1>8, <1>9, LexemeIs DEF Marks

-----------------------------------------------------------------------------
(* Traces.                                                                  *)

\* h has the states along the first n lexemes of t, from state s.
Trace(h, s, t, n) ==
    /\ h[0] = s
    /\ \A i \in 1..n : Fitting(h[i - 1], t[i]) /\ h[i] = After(h[i - 1], t[i])

\* A set of numbers has a first one.
LEMMA FirstOf ==
    ASSUME NEW S \in SUBSET Nat, S # {}
    PROVE  \E i \in S : \A j \in S : i <= j
<1>1. PICK i \in S : \A j \in S : ~ (<<j, i>> \in OpToRel(<, Nat))
  BY NatLessThanWellFounded, WFMin
<1>2. ASSUME NEW j \in S, ~ (i <= j) PROVE FALSE
  <2>1. j \in Nat /\ i \in Nat /\ j < i
    BY <1>2
  <2>2. <<j, i>> \in OpToRel(<, Nat)
    BY <2>1, Zenon DEF OpToRel
  <2> QED
    BY <1>1, <2>2
<1> QED
  BY <1>2

\* Texts that begin alike have traces that begin alike.
LEMMA TraceUnique ==
    ASSUME NEW h, NEW g, NEW s, NEW t, NEW u, NEW n \in Nat, NEW m \in Nat, NEW k \in Nat,
           Trace(h, s, t, n), Trace(g, s, u, m), k <= n, k <= m, \A i \in 1..k : t[i] = u[i]
    PROVE  \A i \in 0..k : h[i] = g[i]
<1> DEFINE T == {i \in 0..k : h[i] # g[i]}
<1> SUFFICES ASSUME T # {} PROVE FALSE
  OBVIOUS
<1>1. PICK i \in T : \A j \in T : i <= j
  <2>1. T \in SUBSET Nat
    OBVIOUS
  <2> HIDE DEF T
  <2> QED
    BY <2>1, FirstOf
<1>2. i \in 0..k /\ h[i] # g[i] /\ i # 0
  BY DEF Trace
<1>3. i \in 1..k /\ i \in 1..n /\ i \in 1..m /\ i - 1 \in 0..k /\ ~ (i <= i - 1)
  BY <1>2
<1>4. h[i - 1] = g[i - 1]
  BY <1>1, <1>3
<1>5. h[i] = After(h[i - 1], t[i]) /\ g[i] = After(g[i - 1], u[i]) /\ t[i] = u[i]
  BY <1>3 DEF Trace
<1> QED
  BY <1>2, <1>4, <1>5

\* w has the first n of t and then the first m of u.
Joined(w, t, n, u, m) == (\A i \in 1..n : w[i] = t[i]) /\ (\A i \in 1..m : w[n + i] = u[i])
Followed(f, h, n, g, m) == (\A i \in 0..n : f[i] = h[i]) /\ (\A i \in 0..m : f[n + i] = g[i])

\* A trace of t and one of u from where it ends are one of both.
LEMMA TraceJoin ==
    ASSUME NEW h, NEW g, NEW s, NEW r, NEW t, NEW u, NEW w, NEW n \in Nat, NEW m \in Nat,
           Trace(h, s, t, n), h[n] = r, Trace(g, r, u, m), Joined(w, t, n, u, m)
    PROVE  \E f : Trace(f, s, w, n + m) /\ Followed(f, h, n, g, m)
<1> DEFINE f == [i \in 0..(n + m) |-> IF i <= n THEN h[i] ELSE g[i - n]]
<1>1. \A i \in 0..n : f[i] = h[i]
  OBVIOUS
<1>2. g[0] = h[n]
  BY DEF Trace
<1>3. \A i \in 0..m : f[n + i] = g[i]
  <2> TAKE i \in 0..m
  <2>1. n + i \in 0..(n + m) /\ (n + i) - n = i
    OBVIOUS
  <2>2. CASE i = 0
    BY <1>2, <2>1, <2>2
  <2>3. CASE i # 0
    <3>1. ~ (n + i <= n)
      BY <2>3
    <3> QED
      BY <2>1, <3>1
  <2> QED
    BY <2>2, <2>3
<1> HIDE DEF f
<1>4. ASSUME NEW i \in 1..(n + m)
      PROVE  Fitting(f[i - 1], w[i]) /\ f[i] = After(f[i - 1], w[i])
  <2>1. CASE i <= n
    <3>1. i \in 1..n /\ i \in 0..n /\ i - 1 \in 0..n
      BY <2>1
    <3>2. f[i] = h[i] /\ f[i - 1] = h[i - 1] /\ w[i] = t[i]
      BY <1>1, <3>1 DEF Joined
    <3>3. Fitting(h[i - 1], t[i]) /\ h[i] = After(h[i - 1], t[i])
      BY <3>1 DEF Trace
    <3> QED
      BY <3>2, <3>3
  <2>2. CASE ~ (i <= n)
    <3> DEFINE j == i - n
    <3>1. j \in 1..m /\ j \in 0..m /\ j - 1 \in 0..m /\ i = n + j /\ i - 1 = n + (j - 1)
      BY <2>2
    <3> HIDE DEF j
    <3>2. f[i] = g[j] /\ f[i - 1] = g[j - 1] /\ w[i] = u[j]
      BY <1>3, <3>1 DEF Joined
    <3>3. Fitting(g[j - 1], u[j]) /\ g[j] = After(g[j - 1], u[j])
      BY <3>1 DEF Trace
    <3> QED
      BY <3>2, <3>3
  <2> QED
    BY <2>1, <2>2
<1>5. f[0] = s
  BY <1>1 DEF Trace
<1> QED
  BY <1>1, <1>3, <1>4, <1>5 DEF Trace, Followed

\* One lexeme more.
LEMMA TraceOne ==
    ASSUME NEW h, NEW s, NEW t, NEW n \in Nat, Trace(h, s, t, n), Fitting(h[n], t[n + 1])
    PROVE  \E f : /\ Trace(f, s, t, n + 1)
                  /\ \A i \in 0..n : f[i] = h[i]
                  /\ f[n + 1] = After(h[n], t[n + 1])
<1> DEFINE f == [i \in 0..(n + 1) |-> IF i <= n THEN h[i] ELSE After(h[n], t[n + 1])]
<1>1. (\A i \in 0..n : f[i] = h[i]) /\ f[n + 1] = After(h[n], t[n + 1])
  OBVIOUS
<1> HIDE DEF f
<1>2. ASSUME NEW i \in 1..(n + 1)
      PROVE  Fitting(f[i - 1], t[i]) /\ f[i] = After(f[i - 1], t[i])
  <2>1. CASE i = n + 1
    <3>1. i - 1 = n /\ n \in 0..n
      BY <2>1
    <3> QED
      BY <1>1, <2>1, <3>1
  <2>2. CASE i # n + 1
    <3>1. i \in 1..n /\ i \in 0..n /\ i - 1 \in 0..n
      BY <2>2
    <3> QED
      BY <1>1, <3>1 DEF Trace
  <2> QED
    BY <2>1, <2>2
<1>3. f[0] = s
  BY <1>1 DEF Trace
<1> QED
  BY <1>1, <1>2, <1>3 DEF Trace

-----------------------------------------------------------------------------
(* Events.                                                                  *)

Silent == {"comma", "remark"}

\* How many of the first n lexemes of t are events.
EventsTo(t, n) == Cardinality({i \in 1..n : t[i].lex \notin Silent})

LEMMA EventsStep ==
    ASSUME NEW t, NEW n \in Nat
    PROVE  /\ EventsTo(t, 0) = 0 /\ EventsTo(t, n) \in Nat
           /\ EventsTo(t, n + 1) = EventsTo(t, n) + (IF t[n + 1].lex \in Silent THEN 0 ELSE 1)
<1> DEFINE A == {i \in 1..n : t[i].lex \notin Silent}
           B == {i \in 1..(n + 1) : t[i].lex \notin Silent}
<1>1. IsFiniteSet(A) /\ Cardinality(A) \in Nat
  <2>1. IsFiniteSet(1..n)
    BY FS_Interval
  <2>2. A \in SUBSET (1..n)
    OBVIOUS
  <2> HIDE DEF A
  <2> QED
    BY <2>1, <2>2, FS_Subset, FS_CardinalityType
<1>2. {i \in 1..0 : t[i].lex \notin Silent} = {}
  OBVIOUS
<1>3. n + 1 \notin A
  OBVIOUS
<1>4. B = IF t[n + 1].lex \in Silent THEN A ELSE A \cup {n + 1}
  <2>1. \A i \in 1..(n + 1) : i = n + 1 \/ i \in 1..n
    OBVIOUS
  <2> QED
    BY <2>1
<1> HIDE DEF A, B
<1>5. Cardinality(B) = Cardinality(A) + (IF t[n + 1].lex \in Silent THEN 0 ELSE 1)
  BY SMTT(30), <1>1, <1>3, <1>4, FS_AddElement
<1> QED
  BY <1>1, <1>2, <1>5, FS_EmptySet DEF EventsTo, A, B

\* They never become fewer.
LEMMA EventsGrow ==
    ASSUME NEW t, NEW n \in Nat, NEW m \in Nat, n <= m
    PROVE  EventsTo(t, n) <= EventsTo(t, m)
<1> DEFINE A == {i \in 1..n : t[i].lex \notin Silent}
           B == {i \in 1..m : t[i].lex \notin Silent}
<1>1. A \subseteq B
  OBVIOUS
<1>2. IsFiniteSet(B)
  <2>1. IsFiniteSet(1..m)
    BY FS_Interval
  <2>2. B \in SUBSET (1..m)
    OBVIOUS
  <2> HIDE DEF B
  <2> QED
    BY <2>1, <2>2, FS_Subset
<1> HIDE DEF A, B
<1>3. Cardinality(A) <= Cardinality(B)
  BY <1>1, <1>2, FS_Subset
<1> QED
  BY <1>3 DEF EventsTo, A, B

\* The place of an event.
LEMMA PositionIs ==
    ASSUME NEW t \in Seq(Lexeme), NEW p \in 1..Len(t), t[p].lex \notin Silent
    PROVE  Position(t, EventsTo(t, p)) = p
<1>1. Len(t) \in Nat /\ DOMAIN t = 1..Len(t)
  BY LenProperties
<1>2. ASSUME NEW q \in 1..Len(t) PROVE Events(SubSeq(t, 1, q)) = EventsTo(t, q)
  <2> DEFINE u == SubSeq(t, 1, q)
  <2>1. u \in Seq(Lexeme) /\ Len(u) = q /\ \A i \in 1..q : u[i] = t[i]
    <3>1. 1 <= q /\ (q - 1) + 1 = q /\ \A i \in 1..q : (1 + i) - 1 = i
      BY <1>1
    <3>2. \A i \in 1..q : t[i] \in Lexeme
      BY <1>1, ElementOfSeq
    <3> QED
      BY <1>1, <3>1, <3>2, SubSeqProperties
  <2>2. DOMAIN u = 1..q
    BY <2>1, LenProperties
  <2> HIDE DEF u
  <2>3. {i \in DOMAIN u : u[i].lex \notin {"comma", "remark"}} = {i \in 1..q : t[i].lex \notin {"comma", "remark"}}
    BY <2>1, <2>2
  <2> QED
    BY <2>3 DEF Events, EventsTo, Silent, u
<1>3. ASSUME NEW q \in 1..Len(t), NEW r \in 1..Len(t), q < r, t[r].lex \notin Silent
      PROVE  EventsTo(t, q) # EventsTo(t, r)
  <2>1. r - 1 \in Nat /\ (r - 1) + 1 = r /\ q <= r - 1 /\ q \in Nat
    BY <1>1, <1>3
  <2>2. EventsTo(t, (r - 1) + 1) = EventsTo(t, r - 1) + 1 /\ EventsTo(t, r - 1) \in Nat
    BY <1>3, <2>1, EventsStep
  <2>3. EventsTo(t, q) <= EventsTo(t, r - 1) /\ EventsTo(t, q) \in Nat
    BY <2>1, EventsGrow, EventsStep
  <2> QED
    BY <2>1, <2>2, <2>3
<1> DEFINE Is(q) == t[q].lex \notin {"comma", "remark"} /\ Events(SubSeq(t, 1, q)) = EventsTo(t, p)
<1>4. p \in DOMAIN t /\ Is(p)
  BY <1>1, <1>2 DEF Silent
<1>5. ASSUME NEW q \in DOMAIN t, Is(q) PROVE q = p
  <2>0. t[q].lex \notin Silent /\ Events(SubSeq(t, 1, q)) = EventsTo(t, p)
    BY <1>5 DEF Silent
  <2> HIDE DEF Is
  <2>1. q \in 1..Len(t) /\ q \in Nat /\ p \in Nat /\ t[q].lex \notin Silent
        /\ EventsTo(t, q) = EventsTo(t, p)
    BY <1>1, <1>2, <2>0
  <2>2. ~ (q < p) /\ ~ (p < q)
    BY <1>3, <2>1
  <2> QED
    BY <2>1, <2>2
<1>6. Position(t, EventsTo(t, p)) = CHOOSE q \in DOMAIN t : Is(q)
  BY DEF Position
<1> HIDE DEF Is
<1> QED
  BY <1>4, <1>5, <1>6

-----------------------------------------------------------------------------
(* The first compilation reads the file.                                    *)

\* In the array, with nothing begun.
Ready(E, n, b, mark) ==
    [ctx |-> << "array" >>, name |-> NoName, place |-> "inside", at |-> n, said |-> Nothing,
     valid |-> b, entries |-> E, sep |-> mark]

Plain == {"remark", "beginArray", "endArray"}

\* a is b, or the first part of it.
Part(a, b) == Len(a) \in Nat /\ Len(b) \in Nat /\ Len(a) <= Len(b) /\ \A i \in 1..Len(a) : a[i] = b[i]

\* The last message ends at lexeme p.
LastAt(h, p) ==
    IF entries = << >> THEN p = 0
    ELSE /\ p \in 1..cursor /\ text[p].lex = "endObject"
         /\ h[p] = Ready(entries, EventsTo(text, p), TRUE, "item")
         /\ entries[Len(entries)].end = EventsTo(text, p)

\* There is nothing behind it but comments and the end of the array.
NothingBehind(p) ==
    Len(ctx) = 0 \/ (Len(ctx) = 1 /\ sep # "comma") => \A j \in (p + 1)..cursor : text[j].lex \in Plain

ReadSoFar ==
    status # "thrown" =>
        \E h, p : /\ Trace(h, Start, text, cursor) /\ Doc = h[cursor]
                  /\ at = EventsTo(text, cursor)
                  /\ LastAt(h, p) /\ NothingBehind(p)
                  /\ \A i \in 0..cursor : Part(h[i].entries, entries)

TextTypes == text \in Seq(Lexeme) /\ cursor \in 0..Len(text) /\ sep \in {"start", "item", "comma"}

LEMMA HereIs ==
    ASSUME TextTypes, cursor < Len(text)
    PROVE  Here \in Lexeme /\ cursor \in Nat /\ cursor + 1 \in 1..Len(text)
<1>1. Len(text) \in Nat
  BY LenProperties DEF TextTypes
<1>2. cursor \in Nat /\ cursor + 1 \in 1..Len(text)
  BY <1>1 DEF TextTypes
<1> QED
  BY <1>2, ElementOfSeq DEF TextTypes, Here

LEMMA ReadDoc ==
    ASSUME TextTypes, Read
    PROVE  /\ Fitting(Doc, text[cursor + 1]) /\ Doc' = After(Doc, text[cursor + 1])
           /\ [Next]_vars /\ status = "parsing" /\ text' = text /\ cursor' = cursor + 1
           /\ text[cursor + 1] \in Lexeme /\ cursor \in Nat /\ cursor + 1 \in 1..Len(text)
<1>1. status = "parsing" /\ cursor < Len(text) /\ Grammatical(Here) /\ Event(Here)
      /\ cursor' = cursor + 1 /\ UNCHANGED fileVars
  BY DEF Read, Reading
<1>2. Here \in Lexeme /\ cursor \in Nat /\ cursor + 1 \in 1..Len(text)
  BY <1>1, HereIs
<1>3. Doc' = After(Doc, Here) /\ [Next]_vars
  BY <1>1, <1>2, EventStep
<1>4. text' = text
  BY <1>1 DEF fileVars
<1> QED
  BY <1>1, <1>2, <1>3, <1>4, GrammaticalIs DEF Here

\* The fields of the document's state.
LEMMA DocFields ==
    /\ Doc.ctx = ctx /\ Doc.name = name /\ Doc.place = place /\ Doc.at = at
    /\ Doc.said = said /\ Doc.valid = valid /\ Doc.entries = entries /\ Doc.sep = sep
    /\ Doc'.ctx = ctx' /\ Doc'.name = name' /\ Doc'.place = place' /\ Doc'.at = at'
    /\ Doc'.said = said' /\ Doc'.valid = valid' /\ Doc'.entries = entries' /\ Doc'.sep = sep'
BY DEF Doc

LEMMA AtStep ==
    ASSUME TextTypes, Read, at = EventsTo(text, cursor)
    PROVE  at' = EventsTo(text', cursor')
<1> DEFINE l == text[cursor + 1]
<1>1. Doc' = After(Doc, l) /\ text' = text /\ cursor' = cursor + 1 /\ cursor \in Nat /\ l \in Lexeme
  BY ReadDoc
<1>2. at' = After(Doc, l).at
  BY <1>1, DocFields
<1>3. After(Doc, l).at = at + (IF l.lex \in Silent THEN 0 ELSE 1)
  <2>1. at \in Nat /\ Doc.at = at
    BY <1>1, EventsStep DEF Doc
  <2>2. l.lex \in Marks \cup {"name", "value"}
    BY <1>1, LexemeIs
  <2> HIDE DEF l
  <2>3. CASE l.lex = "remark"
    <3>1. After(Doc, l) = Doc
      BY <2>3 DEF After
    <3> QED
      BY <2>1, <2>3, <3>1 DEF Silent
  <2>7. CASE l.lex = "comma"
    <3>1. After(Doc, l) = AfterComma(Doc)
      BY <2>7 DEF After
    <3>2. AfterComma(Doc).at = Doc.at
      BY DEF AfterComma
    <3>3. l.lex \in Silent
      BY <2>7 DEF Silent
    <3> QED
      BY <2>1, <3>1, <3>2, <3>3
  <2>4. CASE l.lex = "name" \/ l.lex = "value"
    BY <2>1, <2>4 DEF After, AfterName, AfterScalar, Silent
  <2>5. CASE l.lex = "beginObject" \/ l.lex = "beginArray"
    BY <2>1, <2>5 DEF After, AfterBegin, Silent
  <2>6. CASE l.lex \in {"endObject", "endArray", "unterminated"}
    BY <2>1, <2>6 DEF After, AfterObject, AfterInner, Silent
  <2> QED
    BY <2>2, <2>3, <2>4, <2>5, <2>6, <2>7 DEF Marks
<1> QED
  BY <1>1, <1>2, <1>3, EventsStep

LEMMA PartJoin ==
    ASSUME NEW a, NEW b, NEW c, Part(a, b), Part(b, c)
    PROVE  Part(a, c)
<1>1. /\ Len(a) \in Nat /\ Len(b) \in Nat /\ Len(c) \in Nat /\ Len(a) <= Len(b) /\ Len(b) <= Len(c)
      /\ \A i \in 1..Len(a) : a[i] = b[i]
      /\ \A i \in 1..Len(b) : b[i] = c[i]
  BY DEF Part
<1>2. \A i \in 1..Len(a) : i \in 1..Len(b)
  BY <1>1
<1>3. Len(a) <= Len(c) /\ \A i \in 1..Len(a) : a[i] = c[i]
  BY <1>1, <1>2
<1> QED
  BY <1>1, <1>3 DEF Part

LEMMA PartSame ==
    ASSUME NEW S, NEW a \in Seq(S)
    PROVE  Part(a, a)
BY LenProperties DEF Part

LEMMA PartAppend ==
    ASSUME NEW S, NEW a \in Seq(S), NEW e
    PROVE  Part(a, Append(a, e)) /\ Len(Append(a, e)) = Len(a) + 1 /\ Append(a, e)[Len(a) + 1] = e
<1> DEFINE n == Len(a)
           b == Append(a, e)
<1>1. n \in Nat
  BY LenProperties
<1>2. Len(b) = n + 1 /\ b[n + 1] = e /\ \A i \in 1..n : b[i] = a[i]
  BY AppendProperties
<1> HIDE DEF n, b
<1>3. n <= n + 1 /\ n + 1 \in Nat
  BY <1>1
<1> QED
  BY <1>1, <1>2, <1>3 DEF Part, n, b

LEMMA LastBracket ==
    ASSUME NEW c \in Seq({"array", "object"}), Len(c) = 2
    PROVE  SubSeq(c, 1, Len(c) - 1) = << c[1] >>
<1>1. 1 \in 1..Len(c) /\ Len(c) - 1 = 1 /\ (1 + 1) - 1 = 1 /\ (1 - 1) + 1 = 1
  OBVIOUS
<1>2. c[1] \in {"array", "object"}
  BY <1>1, ElementOfSeq
<1> DEFINE u == SubSeq(c, 1, 1)
           w == << c[1] >>
<1>3. u \in Seq({"array", "object"}) /\ Len(u) = 1 /\ u[1] = c[1]
  <2>1. \A i \in 1..1 : c[i] \in {"array", "object"}
    BY <1>2
  <2>2. 1 <= 1 /\ 1 \in Int /\ 1 \in 1..((1 - 1) + 1)
    OBVIOUS
  <2> QED
    BY <1>1, <2>1, <2>2, SubSeqProperties
<1>4. w \in Seq({"array", "object"}) /\ Len(w) = 1 /\ w[1] = c[1]
  BY <1>2
<1> HIDE DEF u, w
<1>5. u = w
  BY <1>3, <1>4, SeqEqual
<1> QED
  BY <1>1, <1>5 DEF u, w

\* An object of the array ends.
LEMMA ReadMessage ==
    ASSUME InRange, TextTypes, ReaderInv, valid', at = EventsTo(text, cursor), Read,
           text[cursor + 1].lex = "endObject", Len(ctx) = 2
    PROVE  /\ Doc' = Ready(entries', EventsTo(text, cursor + 1), TRUE, "item") /\ entries' # << >>
           /\ entries'[Len(entries')].end = EventsTo(text, cursor + 1)
           /\ Part(entries, entries')
<1> DEFINE l == text[cursor + 1]
<1>1. /\ Fitting(Doc, l) /\ Doc' = After(Doc, l) /\ status = "parsing" /\ cursor \in Nat
      /\ l.lex = "endObject"
  BY ReadDoc
<1>2. InPlace /\ DocTypeOK
  BY <1>1 DEF ReaderInv, TypeOK
<1>3. In(Doc, "object") /\ name = NoName
  BY <1>1 DEF Fitting, Doc
<1>4. Doc' = AfterObject(Doc)
  BY <1>1 DEF After, Doc
<1>5. EventsTo(text, cursor + 1) = at + 1
  BY <1>1, EventsStep DEF Silent
<1>6. SubSeq(ctx, 1, Len(ctx) - 1) = << "array" >>
  <2>1. ctx[1] = "array" /\ ctx \in Seq({"array", "object"}) /\ Len(ctx) = 2
    BY <1>2 DEF DocTypeOK, InPlace, Depth
  <2> QED
    BY <2>1, LastBracket
<1>7. place = "inside"
  BY <1>3 DEF In, Doc
<1>8. valid /\ Whole(Doc)
  BY <1>4, DocFields DEF AfterObject, Doc
<1> DEFINE e == [key |-> KeyOf(said), id |-> said["id"].int, end |-> at + 1]
<1>9. Doc' = Ready(Append(entries, e), at + 1, TRUE, "item")
  BY <1>3, <1>4, <1>6, <1>7, <1>8 DEF AfterObject, Doc, Ready
<1>10. entries' = Append(entries, e)
  BY <1>9, DocFields DEF Ready
<1>11. e.end = at + 1 /\ entries \in Seq(Entry)
  BY <1>2 DEF DocTypeOK
<1> HIDE DEF e
<1>12. /\ Part(entries, Append(entries, e)) /\ Len(Append(entries, e)) = Len(entries) + 1
       /\ Append(entries, e)[Len(entries) + 1] = e
  BY <1>11, PartAppend
<1>13. Append(entries, e) # << >>
  BY <1>11, <1>12, LenProperties
<1> QED
  BY <1>5, <1>9, <1>10, <1>11, <1>12, <1>13

\* Anything else.
LEMMA ReadBetween ==
    ASSUME InRange, TextTypes, ReaderInv, valid', Read,
           ~ (text[cursor + 1].lex = "endObject" /\ Len(ctx) = 2)
    PROVE  /\ entries' = entries
           /\ Len(ctx') = 0 \/ (Len(ctx') = 1 /\ sep' # "comma") =>
                 /\ text[cursor + 1].lex \in Plain
                 /\ Len(ctx) = 0 \/ (Len(ctx) = 1 /\ sep # "comma")
<1> DEFINE l == text[cursor + 1]
<1>1. /\ Fitting(Doc, l) /\ Doc' = After(Doc, l) /\ status = "parsing" /\ l \in Lexeme
      /\ ~ (l.lex = "endObject" /\ Len(ctx) = 2)
  BY ReadDoc
<1>2. InPlace /\ DocTypeOK
  BY <1>1 DEF ReaderInv, TypeOK
<1>3. /\ Doc.ctx = ctx /\ Doc.name = name /\ Doc.place = place /\ Doc.valid = valid
      /\ Doc.sep = sep /\ Doc.entries = entries /\ Len(ctx) \in Nat
  BY <1>2, LenProperties DEF Doc, DocTypeOK
<1>4. /\ place = "inside" <=> Len(ctx) > 0
      /\ Len(ctx) > 0 => ctx[1] = "array"
      /\ Len(ctx) > 1 => ctx[2] = "object"
  BY <1>2 DEF InPlace, Depth
<1>5. l.lex \in Marks \cup {"name", "value"}
      /\ (l.lex = "value" => l.value \in Scalar)
  BY <1>1, LexemeIs
<1>6. ctx \in Seq({"array", "object"})
  BY <1>2 DEF DocTypeOK
<1> HIDE DEF l
<1>7. CASE l.lex = "remark"
  BY <1>1, <1>3, <1>7, DocFields DEF After, Plain, l
<1>8. CASE l.lex = "comma"
  <2>1. After(Doc, l) = AfterComma(Doc)
    BY <1>8 DEF After
  <2>2. entries' = entries /\ ctx' = ctx /\ sep' = "comma" /\ (Len(ctx) > 0)
    BY <1>1, <1>3, <1>8, <2>1, DocFields DEF AfterComma, Fitting
  <2> QED
    BY <1>3, <2>2
<1>9. CASE l.lex = "name"
  <2>1. entries' = entries /\ ctx' = ctx
    BY <1>1, <1>3, <1>9, DocFields DEF After, AfterName
  <2>2. place = "inside" /\ ctx[Len(ctx)] = "object"
    BY <1>1, <1>3, <1>9 DEF Fitting, In
  <2> QED
    BY <1>3, <1>4, <2>1, <2>2
<1>10. CASE l.lex = "value"
  <2>1. After(Doc, l) = AfterScalar(Doc, l.value)
    BY <1>10 DEF After
  <2>2. entries' = entries /\ ctx' = ctx
    BY <1>1, <1>3, <2>1, DocFields DEF AfterScalar
  <2>4. Good(Doc, l.value)
    <3>1. AfterScalar(Doc, l.value).valid = (Doc.valid /\ Good(Doc, l.value))
      BY DEF AfterScalar
    <3>2. Doc'.valid
      BY DocFields
    <3> QED
      BY <1>1, <2>1, <3>1, <3>2
  <2>3. l.value.kind # "array" /\ l.value.kind # "object"
    BY <1>5, <1>10 DEF Scalar
  <2> QED
    BY <1>3, <2>2, <2>3, <2>4 DEF Good
<1>11. CASE l.lex = "beginObject" \/ l.lex = "beginArray"
  <2>1. PICK kind \in {"array", "object"} : /\ After(Doc, l) = AfterBegin(Doc, kind)
                                            /\ kind = "array" => l.lex = "beginArray"
    BY <1>11 DEF After
  <2>2. entries' = entries /\ ctx' = Append(ctx, kind)
    BY <1>1, <1>3, <2>1, DocFields DEF AfterBegin
  <2>5. Good(Doc, [kind |-> kind])
    <3>1. AfterBegin(Doc, kind).valid = (Doc.valid /\ Good(Doc, [kind |-> kind]))
      BY DEF AfterBegin
    <3>2. Doc'.valid
      BY DocFields
    <3> QED
      BY <1>1, <2>1, <3>1, <3>2
  <2>3. Len(ctx') = Len(ctx) + 1
    BY <1>3, <1>6, <2>2, AppendProperties
  <2>4. Len(ctx) = 0 => kind = "array"
    BY <1>3, <2>5 DEF Good
  <2> QED
    BY <1>3, <2>1, <2>2, <2>3, <2>4 DEF Plain, l
<1>12. CASE l.lex = "endObject" \/ l.lex = "endArray"
  <2>1. place = "inside" /\ (l.lex = "endObject" => ctx[Len(ctx)] = "object")
        /\ (l.lex = "endArray" => ctx[Len(ctx)] = "array" /\ sep # "comma")
    BY <1>1, <1>3, <1>12 DEF Fitting, In
  <2>2. ASSUME Len(ctx) = 2 PROVE FALSE
    <3>1. l.lex = "endArray" /\ ctx[2] = "object"
      BY <1>1, <1>4, <1>12, <2>2
    <3> QED
      BY <2>1, <2>2, <3>1
  <2>3. After(Doc, l) = AfterInner(Doc)
    BY <1>3, <1>12, <2>2 DEF After
  <2>4. entries' = entries /\ ctx' = SubSeq(ctx, 1, Len(ctx) - 1)
    BY <1>1, <1>3, <2>3, DocFields DEF AfterInner
  <2>5. Len(ctx) > 0
    BY <1>4, <2>1
  <2>6. Len(ctx') = Len(ctx) - 1
    <3>1. \A i \in 1..(Len(ctx) - 1) : ctx[i] \in {"array", "object"}
      BY <1>3, <1>6, <2>5, ElementOfSeq
    <3> DEFINE n == Len(ctx) - 1
    <3>2. 1 \in Int /\ n \in Int /\ n >= 0
      BY <1>3, <2>5
    <3> HIDE DEF n
    <3>3. (IF 1 <= n THEN (n - 1) + 1 ELSE 0) = n
      BY <3>2
    <3>4. Len(SubSeq(ctx, 1, n)) = n
      BY <3>1, <3>2, <3>3, SubSeqProperties DEF n
    <3> QED
      BY <2>4, <3>4 DEF n
  <2> QED
    BY <1>3, <1>4, <1>12, <2>1, <2>2, <2>4, <2>5, <2>6 DEF Plain, l
<1>13. l.lex # "unterminated"
  BY <1>1 DEF Fitting
<1> QED
  BY <1>5, <1>7, <1>8, <1>9, <1>10, <1>11, <1>12, <1>13 DEF l, Marks

LEMMA ReadSoFarStep ==
    ASSUME InRange, TextTypes, ReaderInv, ReadSoFar, Read
    PROVE  ReadSoFar'
<1> SUFFICES ASSUME status' # "thrown"
             PROVE  \E h, p : /\ Trace(h, Start, text', cursor') /\ Doc' = h[cursor']
                              /\ at' = EventsTo(text', cursor')
                              /\ LastAt(h, p)' /\ NothingBehind(p)'
                              /\ \A i \in 0..cursor' : Part(h[i].entries, entries')
  BY DEF ReadSoFar
<1> DEFINE l == text[cursor + 1]
<1>1. /\ Fitting(Doc, l) /\ Doc' = After(Doc, l) /\ [Next]_vars /\ status = "parsing"
      /\ text' = text /\ cursor' = cursor + 1 /\ cursor \in Nat
  BY ReadDoc
<1>2. valid'
  BY <1>1, ReaderStep DEF ReaderInv
<1>3. PICK h, p : /\ Trace(h, Start, text, cursor) /\ Doc = h[cursor]
                  /\ at = EventsTo(text, cursor)
                  /\ LastAt(h, p) /\ NothingBehind(p)
                  /\ \A i \in 0..cursor : Part(h[i].entries, entries)
  BY <1>1 DEF ReadSoFar
<1>4. PICK f : /\ Trace(f, Start, text, cursor + 1)
               /\ \A i \in 0..cursor : f[i] = h[i]
               /\ f[cursor + 1] = After(h[cursor], l)
  BY <1>1, <1>3, TraceOne
<1>5. Doc' = f[cursor'] /\ Trace(f, Start, text', cursor')
  BY <1>1, <1>3, <1>4
<1>6. at' = EventsTo(text', cursor')
  BY <1>3, AtStep
<1> HIDE DEF l
<1>9. ASSUME Part(entries, entries') PROVE \A i \in 0..cursor' : Part(f[i].entries, entries')
  <2> TAKE i \in 0..cursor'
  <2>1. CASE i \in 0..cursor
    BY <1>3, <1>4, <1>9, <2>1, PartJoin
  <2>2. CASE i = cursor'
    <3>1. f[i].entries = entries'
      BY <1>5, <2>2, DocFields
    <3>2. entries' \in Seq(Entry)
      BY <1>1, ReaderStep DEF ReaderInv, TypeOK, DocTypeOK
    <3> QED
      BY <3>1, <3>2, PartSame
  <2> QED
    BY <1>1, <2>1, <2>2
<1>10. entries \in Seq(Entry)
  BY DEF ReaderInv, TypeOK, DocTypeOK
<1>7. CASE l.lex = "endObject" /\ Len(ctx) = 2
  <2>1. /\ Doc' = Ready(entries', EventsTo(text, cursor + 1), TRUE, "item") /\ entries' # << >>
        /\ entries'[Len(entries')].end = EventsTo(text, cursor + 1)
        /\ Part(entries, entries')
    BY <1>2, <1>3, <1>7, ReadMessage DEF l
  <2>2. cursor + 1 \in 1..(cursor + 1) /\ (cursor + 1 + 1)..(cursor + 1) = {}
    BY <1>1
  <2>3. PICK q : q = cursor + 1
    OBVIOUS
  <2>4. LastAt(f, q)'
    <3>1. q \in 1..cursor' /\ text'[q].lex = "endObject" /\ f[q] = Doc'
      BY <1>1, <1>5, <1>7, <2>2, <2>3 DEF l
    <3>2. (entries # << >>)' /\ entries'[Len(entries')].end = EventsTo(text', q)
          /\ f[q] = Ready(entries', EventsTo(text', q), TRUE, "item")
      BY <1>1, <2>1, <2>3, <3>1
    <3> QED
      BY <3>1, <3>2 DEF LastAt
  <2>5. NothingBehind(q)'
    BY <1>1, <2>2, <2>3 DEF NothingBehind
  <2> QED
    BY <1>5, <1>6, <1>9, <2>1, <2>4, <2>5
<1>8. CASE ~ (l.lex = "endObject" /\ Len(ctx) = 2)
  <2>1. /\ entries' = entries
        /\ Len(ctx') = 0 \/ (Len(ctx') = 1 /\ sep' # "comma") =>
                 /\ l.lex \in Plain
                 /\ Len(ctx) = 0 \/ (Len(ctx) = 1 /\ sep # "comma")
    BY <1>2, <1>8, ReadBetween DEF l
  <2>2. LastAt(f, p)'
    <3>1. CASE entries = << >>
      BY <1>3, <2>1, <3>1 DEF LastAt
    <3>2. CASE entries # << >>
      <4>1. /\ p \in 1..cursor /\ text[p].lex = "endObject"
            /\ h[p] = Ready(entries, EventsTo(text, p), TRUE, "item")
            /\ entries[Len(entries)].end = EventsTo(text, p)
        BY <1>3, <3>2 DEF LastAt
      <4>2. p \in 1..(cursor + 1) /\ p \in 0..cursor
        BY <1>1, <4>1
      <4> QED
        BY <1>1, <1>4, <2>1, <3>2, <4>1, <4>2 DEF LastAt
    <3> QED
      BY <3>1, <3>2
  <2>3. p \in Nat
    <3>1. p = 0 \/ p \in 1..cursor
      BY <1>3 DEF LastAt
    <3> QED
      BY <1>1, <3>1
  <2>4. ASSUME Len(ctx') = 0 \/ (Len(ctx') = 1 /\ sep' # "comma"), NEW j \in (p + 1)..(cursor + 1)
        PROVE  text[j].lex \in Plain
    <3>1. l.lex \in Plain /\ \A i \in (p + 1)..cursor : text[i].lex \in Plain
      BY <1>3, <2>1, <2>4 DEF NothingBehind
    <3>2. j = cursor + 1 \/ j \in (p + 1)..cursor
      BY <1>1, <2>3
    <3> QED
      BY <3>1, <3>2 DEF l
  <2>5. NothingBehind(p)'
    BY <1>1, <2>4 DEF NothingBehind
  <2>6. Part(entries, entries')
    BY <1>10, <2>1, PartSame
  <2> QED
    BY <1>1, <1>5, <1>6, <1>9, <2>2, <2>5, <2>6
<1> QED
  BY <1>7, <1>8

LEMMA ReadSoFarInit ==
    ASSUME TripInit
    PROVE  ReadSoFar
<1> DEFINE h == [i \in {0} |-> Start]
<1>1. h[0] = Start /\ 1..0 = {} /\ (0 + 1)..0 = {}
  OBVIOUS
<1> HIDE DEF h
<1>2. cursor = 0 /\ sep = "start" /\ entries = << >> /\ at = 0 /\ Doc = Start
  BY DEF TripInit, Init, DocInit, Doc, Start
<1>3. Trace(h, Start, text, cursor)
  BY <1>1, <1>2 DEF Trace
<1>4. at = EventsTo(text, cursor)
  BY <1>2, EventsStep
<1>5. LastAt(h, 0) /\ NothingBehind(0)
  BY <1>1, <1>2 DEF LastAt, NothingBehind
<1>6. \A i \in 0..cursor : Part(h[i].entries, entries)
  <2>1. Start.entries = << >> /\ Part(<< >>, << >>)
    BY DEF Start, Part
  <2> QED
    BY <1>1, <1>2, <2>1
<1> QED
  BY <1>1, <1>2, <1>3, <1>4, <1>5, <1>6 DEF ReadSoFar

LEMMA ReadSoFarKept ==
    ASSUME ReadSoFar, status # "thrown",
           UNCHANGED <<docVars, sep, text, cursor>>
    PROVE  ReadSoFar'
<1>1. UNCHANGED <<ctx, name, place, at, said, valid, entries, sep, text, cursor>>
  BY DEF docVars
<1>2. PICK h, p : /\ Trace(h, Start, text, cursor) /\ Doc = h[cursor]
                  /\ at = EventsTo(text, cursor)
                  /\ LastAt(h, p) /\ NothingBehind(p)
                  /\ \A i \in 0..cursor : Part(h[i].entries, entries)
  BY DEF ReadSoFar
<1>3. Doc' = Doc
  BY <1>1 DEF Doc
<1>4. LastAt(h, p)' /\ NothingBehind(p)'
  BY <1>1, <1>2 DEF LastAt, NothingBehind
<1> QED
  BY <1>1, <1>2, <1>3, <1>4 DEF ReadSoFar

-----------------------------------------------------------------------------
(* What the writer writes for a message.                                    *)

OutLexeme == {Mark(m) : m \in Marks} \cup {NameOf(n) : n \in Names}
                 \cup {ValueOf(v) : v \in Written}

LEMMA OutIs ==
    /\ OutLexeme \subseteq Lexeme
    /\ \A l \in OutLexeme : l.lex = "value" => l.value \in Written
    /\ \A m \in Marks : Mark(m) \in OutLexeme /\ Mark(m).lex = m
    /\ \A n \in Names : NameOf(n) \in OutLexeme /\ NameOf(n).lex = "name" /\ NameOf(n).name = n
    /\ \A v \in Written : ValueOf(v) \in OutLexeme /\ ValueOf(v).lex = "value" /\ ValueOf(v).value = v
<1>1. OutLexeme \subseteq Lexeme
  BY DEF OutLexeme, Lexeme
<1>2. \A m \in Marks : Mark(m) \in OutLexeme /\ Mark(m).lex = m
  BY DEF OutLexeme, Mark
<1>3. \A n \in Names : NameOf(n) \in OutLexeme /\ NameOf(n).lex = "name" /\ NameOf(n).name = n
  BY DEF OutLexeme, NameOf
<1>4. \A v \in Written : ValueOf(v) \in OutLexeme /\ ValueOf(v).lex = "value" /\ ValueOf(v).value = v
  BY DEF OutLexeme, ValueOf
<1>5. ASSUME NEW l \in OutLexeme, l.lex = "value" PROVE l.value \in Written
  <2>1. CASE l \in {Mark(m) : m \in Marks}
    <3>1. PICK m \in Marks : l = Mark(m)
      BY <2>1
    <3> QED
      BY <1>2, <1>5, <3>1 DEF Marks
  <2>2. CASE l \in {NameOf(n) : n \in Names}
    <3>1. PICK n \in Names : l = NameOf(n)
      BY <2>2
    <3> QED
      BY <1>3, <1>5, <3>1
  <2>3. CASE l \in {ValueOf(v) : v \in Written}
    <3>1. PICK v \in Written : l = ValueOf(v)
      BY <2>3
    <3> QED
      BY <1>4, <3>1
  <2> QED
    BY <2>1, <2>2, <2>3 DEF OutLexeme
<1> QED
  BY <1>1, <1>2, <1>3, <1>4, <1>5

\* In an object of the array, E being the messages so far.
Within(s, E) ==
    /\ s.ctx = << "array", "object" >> /\ s.place = "inside"
    /\ s.name \in Attrs \cup {NoName} /\ s.entries = E

\* Text t takes the document from s to r within an object.
Leads(s, t, r, E) ==
    /\ t \in Seq(OutLexeme)
    /\ \E g : /\ Trace(g, s, t, Len(t)) /\ g[Len(t)] = r
              /\ \A i \in 1..Len(t) : Within(g[i], E)

LEMMA LeadsOne ==
    ASSUME NEW s, NEW E, NEW l \in OutLexeme, Fitting(s, l), Within(After(s, l), E)
    PROVE  Leads(s, << l >>, After(s, l), E)
<1> DEFINE t == << l >>
           g == [i \in 0..1 |-> IF i = 0 THEN s ELSE After(s, l)]
<1>1. t \in Seq(OutLexeme) /\ Len(t) = 1 /\ t[1] = l
  OBVIOUS
<1>2. g[0] = s /\ g[1] = After(s, l)
  OBVIOUS
<1> HIDE DEF t, g
<1>3. \A i \in 1..1 : i = 1 /\ i - 1 = 0
  OBVIOUS
<1>4. Trace(g, s, t, Len(t))
  BY <1>1, <1>2, <1>3 DEF Trace
<1>5. \A i \in 1..Len(t) : Within(g[i], E)
  BY <1>1, <1>2, <1>3
<1> QED
  BY <1>1, <1>2, <1>4, <1>5 DEF Leads, t

LEMMA LeadsNone ==
    ASSUME NEW s, NEW E
    PROVE  Leads(s, << >>, s, E)
<1> DEFINE g == [i \in {0} |-> s]
<1>1. g[0] = s /\ Len(<< >>) = 0 /\ 1..0 = {} /\ << >> \in Seq(OutLexeme)
  OBVIOUS
<1> HIDE DEF g
<1> QED
  BY <1>1 DEF Leads, Trace

LEMMA JoinIs ==
    ASSUME NEW S, NEW t \in Seq(S), NEW u \in Seq(S)
    PROVE  /\ t \o u \in Seq(S) /\ Len(t) \in Nat /\ Len(u) \in Nat
           /\ Len(t \o u) = Len(t) + Len(u)
           /\ \A i \in 1..Len(t) : (t \o u)[i] = t[i]
           /\ \A i \in 1..Len(u) : (t \o u)[Len(t) + i] = u[i]
<1>1. Len(t) \in Nat /\ Len(u) \in Nat
  BY LenProperties
<1> DEFINE n == Len(t)
           m == Len(u)
           w == t \o u
<1>2. w \in Seq(S) /\ Len(w) = n + m
      /\ \A i \in 1..(n + m) : w[i] = IF i <= n THEN t[i] ELSE u[i - n]
  BY ConcatProperties
<1> HIDE DEF n, m, w
<1>3. \A i \in 1..n : w[i] = t[i]
  BY <1>1, <1>2 DEF n, m
<1>4. ASSUME NEW i \in 1..m PROVE w[n + i] = u[i]
  <2>1. n + i \in 1..(n + m) /\ ~ (n + i <= n) /\ (n + i) - n = i
    BY <1>1 DEF n, m
  <2> QED
    BY <1>2, <2>1
<1> QED
  BY <1>1, <1>2, <1>3, <1>4 DEF n, m, w

LEMMA PairIs ==
    ASSUME NEW x, NEW y
    PROVE  << x >> \o << y >> = << x, y >>
<1> DEFINE S == {x, y}
           t == << x >>
           u == << y >>
           v == << x, y >>
<1>0. t \in Seq(S) /\ u \in Seq(S)
  OBVIOUS
<1>1. v \in Seq(S) /\ Len(t) = 1 /\ Len(u) = 1 /\ Len(v) = 2
      /\ t[1] = x /\ u[1] = y /\ v[1] = x /\ v[2] = y
  OBVIOUS
<1> HIDE DEF S, t, u, v
<1> DEFINE w == t \o u
<1>2. /\ w \in Seq(S) /\ Len(w) = Len(t) + Len(u) /\ \A i \in 1..Len(t) : w[i] = t[i]
      /\ \A i \in 1..Len(u) : w[Len(t) + i] = u[i]
  BY <1>0, JoinIs
<1> HIDE DEF w
<1>3. w[1] = x /\ w[2] = y /\ Len(w) = 2
  BY <1>1, <1>2
<1>4. \A i \in 1..Len(w) : w[i] = v[i]
  BY <1>1, <1>3
<1>5. w = v
  BY <1>1, <1>2, <1>3, <1>4, SeqEqual
<1> QED
  BY <1>5 DEF w, t, u, v

LEMMA LeadsJoin ==
    ASSUME NEW s, NEW t, NEW r, NEW u, NEW q, NEW E, Leads(s, t, r, E), Leads(r, u, q, E)
    PROVE  Leads(s, t \o u, q, E)
<1>1. t \in Seq(OutLexeme) /\ u \in Seq(OutLexeme)
  BY DEF Leads
<1>2. PICK h : /\ Trace(h, s, t, Len(t)) /\ h[Len(t)] = r
               /\ \A i \in 1..Len(t) : Within(h[i], E)
  BY DEF Leads
<1>3. PICK g : /\ Trace(g, r, u, Len(u)) /\ g[Len(u)] = q
               /\ \A i \in 1..Len(u) : Within(g[i], E)
  BY DEF Leads
<1> DEFINE n == Len(t)
           m == Len(u)
           w == t \o u
<1>4. /\ w \in Seq(OutLexeme) /\ n \in Nat /\ m \in Nat /\ Len(w) = n + m
      /\ \A i \in 1..n : w[i] = t[i]
      /\ \A i \in 1..m : w[n + i] = u[i]
  BY <1>1, JoinIs
<1>5. Trace(h, s, t, n) /\ h[n] = r /\ Trace(g, r, u, m)
  BY <1>2, <1>3
<1> HIDE DEF n, m, w
<1>9. Joined(w, t, n, u, m)
  BY <1>4 DEF Joined
<1>10. PICK f : Trace(f, s, w, n + m) /\ Followed(f, h, n, g, m)
  BY <1>4, <1>5, <1>9, TraceJoin
<1>6. (\A i \in 0..n : f[i] = h[i]) /\ (\A i \in 0..m : f[n + i] = g[i])
  BY <1>10 DEF Followed
<1>7. f[n + m] = q
  BY <1>3, <1>4, <1>6 DEF m
<1>8. ASSUME NEW i \in 1..(n + m) PROVE Within(f[i], E)
  <2>1. CASE i <= n
    <3>1. i \in 0..n /\ i \in 1..n
      BY <1>4, <2>1
    <3> QED
      BY <1>2, <1>6, <3>1 DEF n
  <2>2. CASE ~ (i <= n)
    <3>1. i - n \in 0..m /\ i - n \in 1..m /\ n + (i - n) = i
      BY <1>4, <2>2
    <3> QED
      BY <1>3, <1>6, <3>1 DEF m
  <2> QED
    BY <2>1, <2>2
<1> QED
  BY <1>4, <1>7, <1>8, <1>10 DEF Leads, w

\* In an object of the array that has said o.
InObject(E, n, o, b, mark) ==
    [ctx |-> << "array", "object" >>, name |-> NoName, place |-> "inside", at |-> n, said |-> o,
     valid |-> b, entries |-> E, sep |-> mark]

LEMMA InObjectIs ==
    ASSUME NEW E, NEW n, NEW o, NEW b, NEW mark
    PROVE  LET s == InObject(E, n, o, b, mark)
           IN  /\ s.ctx = << "array", "object" >> /\ Len(s.ctx) = 2 /\ s.ctx[2] = "object"
               /\ s.name = NoName /\ s.place = "inside" /\ s.at = n /\ s.said = o
               /\ s.valid = b /\ s.entries = E /\ s.sep = mark
               /\ Within(s, E) /\ In(s, "object")
<1> DEFINE s == InObject(E, n, o, b, mark)
<1>1. /\ s.ctx = << "array", "object" >>
      /\ s.name = NoName /\ s.place = "inside" /\ s.at = n /\ s.said = o
      /\ s.valid = b /\ s.entries = E /\ s.sep = mark
  BY DEF InObject
<1> HIDE DEF s
<1>2. Len(s.ctx) = 2 /\ s.ctx[2] = "object"
  BY <1>1
<1> QED
  BY <1>1, <1>2 DEF Within, In, s

\* A member.
LEMMA MemberLeads ==
    ASSUME NEW E, NEW n, NEW o, NEW b, NEW mark, mark # "item", NEW a \in Attrs,
           NEW v \in Written
    PROVE  Leads(InObject(E, n, o, b, mark), Member(a, v),
                 InObject(E, n + 1 + 1, [o EXCEPT ![a] = v], b /\ Fits(a, v), "item"), E)
<1> DEFINE s == InObject(E, n, o, b, mark)
           l == NameOf(a)
           r == AfterName(s, a)
           k == ValueOf(v)
           q == AfterScalar(r, v)
<1>1. /\ s.ctx = << "array", "object" >> /\ Len(s.ctx) = 2 /\ s.ctx[2] = "object"
      /\ s.name = NoName /\ s.place = "inside" /\ s.at = n /\ s.said = o
      /\ s.valid = b /\ s.entries = E /\ s.sep = mark /\ In(s, "object")
  BY InObjectIs
<1>2. /\ r.ctx = s.ctx /\ r.name = a /\ r.place = "inside" /\ r.at = n + 1 /\ r.said = o
      /\ r.valid = b /\ r.entries = E /\ r.sep = "start"
  BY <1>1 DEF AfterName
<1>3. l \in OutLexeme /\ k \in OutLexeme /\ l.lex = "name" /\ l.name = a /\ k.lex = "value" /\ k.value = v
  BY OutIs DEF Names
<1>4. After(s, l) = r /\ After(r, k) = q
  BY <1>3 DEF After
<1>5. a # NoName
  BY DEF Attrs, NoName
<1>6. q = InObject(E, n + 1 + 1, [o EXCEPT ![a] = v], b /\ Fits(a, v), "item")
  <2>1. SaidThen(r, v) = [o EXCEPT ![a] = v]
    BY <1>1, <1>2 DEF SaidThen
  <2>2. (r.valid /\ Good(r, v)) = (b /\ Fits(a, v))
    <3>1. Good(r, v) <=> Fits(a, v)
      BY <1>1, <1>2 DEF Good
    <3> QED
      BY <1>2, <3>1
  <2>3. Len(r.ctx) # 0
    BY <1>1, <1>2
  <2> HIDE DEF r, s
  <2> QED
    BY <1>1, <1>2, <2>1, <2>2, <2>3 DEF AfterScalar, InObject
<1> HIDE DEF s, r, q, l, k
<1>7. Fitting(s, l)
  BY <1>1, <1>3 DEF Fitting
<1>8. Fitting(r, k)
  <2>1. Due(r)
    BY <1>1, <1>2, <1>5 DEF Due, In
  <2> QED
    BY <1>2, <1>3, <2>1 DEF Fitting
<1>9. Within(r, E)
  BY <1>1, <1>2 DEF Within
<1>10. Within(q, E)
  BY <1>6, InObjectIs
<1>11. Leads(s, << l >>, r, E) /\ Leads(r, << k >>, q, E)
  BY <1>3, <1>4, <1>7, <1>8, <1>9, <1>10, LeadsOne
<1>12. << l >> \o << k >> = Member(a, v)
  BY PairIs DEF Member, l, k
<1> QED
  BY <1>6, <1>11, <1>12, LeadsJoin DEF s

\* A comma and a member, or nothing.
LEMMA FurtherLeads ==
    ASSUME NEW E, NEW n \in Nat, NEW o \in [Attrs -> Written \cup {Absent}], NEW b \in BOOLEAN,
           NEW a \in {"msg", "hint", "help"}, o[a] = Absent,
           NEW v \in [kind : {"str"}, str : Strings] \cup {Absent}
    PROVE  \E m \in Nat :
              Leads(InObject(E, n, o, b, "item"), Further(a, v),
                    InObject(E, m, [o EXCEPT ![a] = v], b, "item"), E)
<1> DEFINE s == InObject(E, n, o, b, "item")
           r == InObject(E, n, o, b, "comma")
           q == InObject(E, n + 1 + 1, [o EXCEPT ![a] = v], b, "item")
<1>1. CASE v = Absent
  <2>1. [o EXCEPT ![a] = v] = o
    BY <1>1
  <2>2. Further(a, v) = << >>
    BY <1>1 DEF Further
  <2>3. Leads(s, << >>, s, E)
    BY LeadsNone
  <2> QED
    BY <2>1, <2>2, <2>3
<1>2. CASE v # Absent
  <2>1. v \in Written /\ v.kind = "str" /\ a \in Attrs
    BY <1>2 DEF Written, Attrs
  <2>2. (b /\ Fits(a, v)) = b
    BY <2>1 DEF Fits
  <2>3. Leads(r, Member(a, v), q, E)
    <3>1. Leads(r, Member(a, v),
                InObject(E, n + 1 + 1, [o EXCEPT ![a] = v], b /\ Fits(a, v), "item"), E)
      BY <2>1, MemberLeads
    <3> QED
      BY <2>2, <3>1
  <2>4. Leads(s, << Mark("comma") >>, r, E)
    <3> DEFINE l == Mark("comma")
    <3>1. l \in OutLexeme /\ l.lex = "comma"
      BY OutIs DEF Marks
    <3>2. AfterComma(s) = r
      BY InObjectIs DEF AfterComma, InObject
    <3>3. /\ s.ctx = << "array", "object" >> /\ Len(s.ctx) = 2 /\ s.name = NoName /\ s.sep = "item"
      BY InObjectIs
    <3>4. Within(r, E)
      BY InObjectIs
    <3> HIDE DEF l, s, r
    <3>5. After(s, l) = r
      BY <3>1, <3>2 DEF After
    <3>6. Fitting(s, l)
      BY <3>1, <3>3 DEF Fitting
    <3> QED
      BY <3>1, <3>4, <3>5, <3>6, LeadsOne DEF l
  <2>5. Further(a, v) = << Mark("comma") >> \o Member(a, v)
    BY <1>2 DEF Further
  <2> HIDE DEF s, r, q
  <2>6. Leads(s, Further(a, v), q, E)
    BY <2>3, <2>4, <2>5, LeadsJoin
  <2>7. n + 1 + 1 \in Nat
    OBVIOUS
  <2> QED
    BY <2>6, <2>7 DEF s, q
<1> QED
  BY <1>1, <1>2

\* What an object that is written says.
Told(k, id) ==
    [[[[Nothing EXCEPT !["id"] = [kind |-> "int", int |-> Signed(id)]]
          EXCEPT !["msg"] = k.fmt] EXCEPT !["hint"] = k.hint] EXCEPT !["help"] = k.help]

LEMMA SignedIs ==
    ASSUME NEW id \in 1..UIntMax
    PROVE  LET v == [kind |-> "int", int |-> Signed(id)]
           IN  /\ v \in Written /\ v.int = Signed(id) /\ v # Absent
               /\ Fits("id", v) <=> id <= IntMax
               /\ id <= IntMax => Signed(id) = id
<1>1. IntMax \in Nat /\ UIntMax = 2 * IntMax + 1
  BY IntsAssumption DEF UIntMax
<1>2. Signed(id) = IF id > IntMax THEN id - (UIntMax + 1) ELSE id
  BY DEF Signed, ToInt
<1>3. Signed(id) \in (-IntMax - 1)..IntMax /\ (Signed(id) \in 1..IntMax <=> id <= IntMax)
      /\ (id <= IntMax => Signed(id) = id)
  <2>1. CASE id > IntMax
    BY <1>1, <1>2, <2>1
  <2>2. CASE ~ (id > IntMax)
    BY <1>1, <1>2, <2>2
  <2> QED
    BY <2>1, <2>2
<1> QED
  BY <1>3 DEF Written, Fits, Absent

LEMMA ToldIs ==
    ASSUME NEW k \in Key, NEW id \in 1..UIntMax
    PROVE  /\ Told(k, id)["id"] = [kind |-> "int", int |-> Signed(id)]
           /\ Told(k, id)["msg"] # Absent /\ KeyOf(Told(k, id)) = k
<1> DEFINE v == [kind |-> "int", int |-> Signed(id)]
<1> HIDE DEF v
<1>1. /\ Told(k, id)["id"] = v /\ Told(k, id)["msg"] = k.fmt /\ Told(k, id)["hint"] = k.hint
      /\ Told(k, id)["help"] = k.help
  BY DEF Told, Nothing, Attrs, v
<1>2. k.fmt # Absent /\ k = [fmt |-> k.fmt, hint |-> k.hint, help |-> k.help]
  BY DEF Key, Absent
<1> QED
  BY <1>1, <1>2 DEF KeyOf, v

LEMMA MembersLead ==
    ASSUME NEW E, NEW n \in Nat, NEW b \in BOOLEAN, NEW k \in Key, NEW id \in 1..UIntMax
    PROVE  \E m \in Nat :
              Leads(InObject(E, n, Nothing, b, "start"), Members(k, id),
                    InObject(E, m, Told(k, id), b /\ id <= IntMax, "item"), E)
<1> DEFINE v == [kind |-> "int", int |-> Signed(id)]
           o1 == [Nothing EXCEPT !["id"] = v]
           o2 == [o1 EXCEPT !["msg"] = k.fmt]
           o3 == [o2 EXCEPT !["hint"] = k.hint]
           o4 == [o3 EXCEPT !["help"] = k.help]
           c == b /\ id <= IntMax
<1>1. v \in Written /\ (Fits("id", v) <=> id <= IntMax)
  BY SignedIs
<1>2. o4 = Told(k, id)
  BY DEF Told
<1>3. /\ k.fmt \in [kind : {"str"}, str : Strings]
      /\ k.hint \in [kind : {"str"}, str : Strings] \cup {Absent}
      /\ k.help \in [kind : {"str"}, str : Strings] \cup {Absent}
  BY DEF Key
<1>4. [kind : {"str"}, str : Strings] \subseteq Written
  BY DEF Written
<1> HIDE DEF v
<1>5. Nothing \in [Attrs -> Written \cup {Absent}] /\ \A a \in Attrs : Nothing[a] = Absent
  BY DEF Nothing
<1>6. /\ o1 \in [Attrs -> Written \cup {Absent}] /\ o1["msg"] = Absent /\ o1["hint"] = Absent
      /\ o1["help"] = Absent
  BY <1>1, <1>5 DEF Attrs
<1> HIDE DEF o1
<1>7. /\ o2 \in [Attrs -> Written \cup {Absent}] /\ o2["hint"] = Absent /\ o2["help"] = Absent
  BY <1>3, <1>4, <1>6 DEF Attrs
<1> HIDE DEF o2
<1>8. o3 \in [Attrs -> Written \cup {Absent}] /\ o3["help"] = Absent
  BY <1>3, <1>4, <1>7 DEF Attrs
<1> HIDE DEF o3, o4
<1>9. c \in BOOLEAN /\ (b /\ Fits("id", v)) = c /\ n + 1 + 1 \in Nat
  BY <1>1
<1> HIDE DEF c
<1>10. Leads(InObject(E, n, Nothing, b, "start"), Member("id", v), InObject(E, n + 1 + 1, o1, c, "item"), E)
  <2>1. "id" \in Attrs /\ "start" # "item"
    BY DEF Attrs
  <2>2. Leads(InObject(E, n, Nothing, b, "start"), Member("id", v),
              InObject(E, n + 1 + 1, o1, b /\ Fits("id", v), "item"), E)
    BY <1>1, <2>1, MemberLeads DEF o1
  <2> QED
    BY <1>9, <2>2
<1>11. PICK m2 \in Nat : Leads(InObject(E, n + 1 + 1, o1, c, "item"), Further("msg", k.fmt),
                               InObject(E, m2, o2, c, "item"), E)
  BY <1>3, <1>6, <1>9, FurtherLeads DEF o2
<1>12. PICK m3 \in Nat : Leads(InObject(E, m2, o2, c, "item"), Further("hint", k.hint),
                               InObject(E, m3, o3, c, "item"), E)
  BY <1>3, <1>7, <1>9, FurtherLeads DEF o3
<1>13. PICK m4 \in Nat : Leads(InObject(E, m3, o3, c, "item"), Further("help", k.help),
                               InObject(E, m4, o4, c, "item"), E)
  BY <1>3, <1>8, <1>9, FurtherLeads DEF o4
<1>14. Leads(InObject(E, n, Nothing, b, "start"), Member("id", v) \o Further("msg", k.fmt),
             InObject(E, m2, o2, c, "item"), E)
  BY <1>10, <1>11, LeadsJoin
<1>15. Leads(InObject(E, n, Nothing, b, "start"),
             Member("id", v) \o Further("msg", k.fmt) \o Further("hint", k.hint),
             InObject(E, m3, o3, c, "item"), E)
  BY <1>12, <1>14, LeadsJoin
<1>16. Leads(InObject(E, n, Nothing, b, "start"),
             Member("id", v) \o Further("msg", k.fmt) \o Further("hint", k.hint)
                 \o Further("help", k.help),
             InObject(E, m4, o4, c, "item"), E)
  BY <1>13, <1>15, LeadsJoin
<1> QED
  BY <1>2, <1>16 DEF Members, v, c

Grown(E, k, id, m, b) == IF b THEN Append(E, [key |-> k, id |-> id, end |-> m]) ELSE E

\* The end of the object.
LEMMA ClosedObject ==
    ASSUME NEW E, NEW n \in Nat, NEW b \in BOOLEAN, NEW k \in Key, NEW id \in 1..UIntMax,
           b => id <= IntMax
    PROVE  /\ Fitting(InObject(E, n, Told(k, id), b, "item"), Mark("endObject"))
           /\ After(InObject(E, n, Told(k, id), b, "item"), Mark("endObject")) =
                 Ready(Grown(E, k, id, n + 1, b), n + 1, b, "item")
<1> DEFINE o == Told(k, id)
           s == InObject(E, n, o, b, "item")
           l == Mark("endObject")
<1>1. /\ s.ctx = << "array", "object" >> /\ Len(s.ctx) = 2 /\ s.ctx[2] = "object"
      /\ s.name = NoName /\ s.place = "inside" /\ s.at = n /\ s.said = o
      /\ s.valid = b /\ s.entries = E /\ s.sep = "item" /\ In(s, "object")
  BY InObjectIs
<1>2. l.lex = "endObject"
  BY OutIs DEF Marks
<1>3. o["id"] = [kind |-> "int", int |-> Signed(id)] /\ o["msg"] # Absent /\ KeyOf(o) = k
  BY ToldIs
<1>4. o["id"] # Absent /\ (id <= IntMax => o["id"].int = id)
  BY <1>3, SignedIs
<1> HIDE DEF o, s, l
<1>5. Fitting(s, l)
  BY <1>1, <1>2 DEF Fitting
<1>6. After(s, l) = AfterObject(s)
  BY <1>1, <1>2 DEF After
<1>7. SubSeq(s.ctx, 1, Len(s.ctx) - 1) = << "array" >>
  <2>1. << "array", "object" >> \in Seq({"array", "object"}) /\ << "array", "object" >>[1] = "array"
        /\ Len(<< "array", "object" >>) = 2
    OBVIOUS
  <2>2. SubSeq(<< "array", "object" >>, 1, Len(<< "array", "object" >>) - 1) = << << "array", "object" >>[1] >>
    BY <2>1, LastBracket
  <2> QED
    BY <1>1, <2>1, <2>2
<1>8. Whole(s) /\ (s.valid /\ Whole(s)) = b
  <2>1. Whole(s)
    BY <1>1, <1>3, <1>4 DEF Whole
  <2> QED
    BY <1>1, <2>1
<1>9. (IF s.valid /\ Whole(s)
       THEN Append(s.entries, [key |-> KeyOf(s.said), id |-> s.said["id"].int, end |-> s.at + 1])
       ELSE s.entries) = Grown(E, k, id, n + 1, b)
  <2>1. CASE b
    <3>1. s.said["id"].int = id /\ KeyOf(s.said) = k /\ s.at + 1 = n + 1 /\ s.entries = E
      BY <1>1, <1>3, <1>4, <2>1
    <3> QED
      BY <1>8, <2>1, <3>1 DEF Grown
  <2>2. CASE ~b
    BY <1>1, <1>8, <2>2 DEF Grown
  <2> QED
    BY <2>1, <2>2
<1>10. AfterObject(s) = Ready(Grown(E, k, id, n + 1, b), n + 1, b, "item")
  BY <1>1, <1>7, <1>8, <1>9 DEF AfterObject, Ready
<1> QED
  BY <1>5, <1>6, <1>10 DEF s, l, o

LEMMA ReadyIs ==
    ASSUME NEW E, NEW n, NEW b, NEW mark
    PROVE  LET s == Ready(E, n, b, mark)
           IN  /\ s.ctx = << "array" >> /\ Len(s.ctx) = 1 /\ s.ctx[1] = "array"
               /\ s.name = NoName /\ s.place = "inside" /\ s.at = n /\ s.said = Nothing
               /\ s.valid = b /\ s.entries = E /\ s.sep = mark
               /\ In(s, "array")
<1> DEFINE s == Ready(E, n, b, mark)
<1>1. /\ s.ctx = << "array" >>
      /\ s.name = NoName /\ s.place = "inside" /\ s.at = n /\ s.said = Nothing
      /\ s.valid = b /\ s.entries = E /\ s.sep = mark
  BY DEF Ready
<1> HIDE DEF s
<1>2. Len(s.ctx) = 1 /\ s.ctx[1] = "array"
  BY <1>1
<1> QED
  BY <1>1, <1>2 DEF In, s

\* An object begins.
LEMMA OpenedObject ==
    ASSUME NEW E, NEW n \in Nat, NEW b \in BOOLEAN, NEW mark, mark # "item"
    PROVE  Leads(Ready(E, n, b, mark), << Mark("beginObject") >>,
                 InObject(E, n + 1, Nothing, b, "start"), E)
<1> DEFINE s == Ready(E, n, b, mark)
           l == Mark("beginObject")
           r == InObject(E, n + 1, Nothing, b, "start")
<1>1. /\ s.ctx = << "array" >> /\ Len(s.ctx) = 1 /\ s.ctx[1] = "array"
      /\ s.name = NoName /\ s.place = "inside" /\ s.at = n /\ s.said = Nothing
      /\ s.valid = b /\ s.entries = E /\ s.sep = mark /\ In(s, "array")
  BY ReadyIs
<1>2. l \in OutLexeme /\ l.lex = "beginObject"
  BY OutIs DEF Marks
<1> HIDE DEF s, l
<1>3. Fitting(s, l)
  BY <1>1, <1>2 DEF Fitting, Due
<1>4. After(s, l) = AfterBegin(s, "object")
  BY <1>2 DEF After
<1>5. Append(s.ctx, "object") = << "array", "object" >>
  <2> DEFINE S == {"array", "object"}
  <2>2. << "array" >> \in Seq(S) /\ "object" \in S
    OBVIOUS
  <2> HIDE DEF S
  <2>1. Append(<< "array" >>, "object") = << "array", "object" >>
    BY <2>2, AppendIsConcat, PairIs
  <2> QED
    BY <1>1, <2>1
<1>6. (s.valid /\ Good(s, [kind |-> "object"])) = b
  <2>1. Good(s, [kind |-> "object"])
    BY <1>1 DEF Good
  <2> QED
    BY <1>1, <2>1
<1>7. SaidThen(s, [kind |-> "object"]) = Nothing
  BY <1>1 DEF SaidThen
<1>8. AfterBegin(s, "object") = r
  BY <1>1, <1>5, <1>6, <1>7 DEF AfterBegin, InObject
<1>9. Within(r, E)
  BY InObjectIs
<1> HIDE DEF r
<1> QED
  BY <1>2, <1>3, <1>4, <1>8, <1>9, LeadsOne DEF s, l, r

LEMMA ObjectIs ==
    ASSUME NEW k \in Key, NEW id \in 1..UIntMax
    PROVE  /\ Object(k, id) \in Seq(OutLexeme) /\ Len(Object(k, id)) > 0
           /\ Object(k, id)[1] = Mark("beginObject")
<1> DEFINE x == << Mark("beginObject") >>
           y == Members(k, id)
           z == << Mark("endObject") >>
<1>1. PICK m \in Nat : Leads(InObject(<< >>, 0, Nothing, TRUE, "start"), Members(k, id),
                             InObject(<< >>, m, Told(k, id), TRUE /\ id <= IntMax, "item"), << >>)
  <2>1. 0 \in Nat /\ TRUE \in BOOLEAN
    OBVIOUS
  <2> QED
    BY <2>1, MembersLead
<1>2. y \in Seq(OutLexeme)
  BY <1>1 DEF Leads
<1>3. x \in Seq(OutLexeme) /\ z \in Seq(OutLexeme)
  BY OutIs DEF Marks
<1>4. Len(x) = 1 /\ x[1] = Mark("beginObject")
  OBVIOUS
<1> HIDE DEF x, y, z
<1> DEFINE t == x \o y
<1>5. /\ t \in Seq(OutLexeme) /\ Len(y) \in Nat /\ Len(t) = Len(x) + Len(y)
      /\ \A i \in 1..Len(x) : t[i] = x[i]
  BY <1>2, <1>3, JoinIs
<1>6. t \in Seq(OutLexeme)
  BY <1>5
<1>7. Len(t) > 0 /\ t[1] = Mark("beginObject")
  BY <1>4, <1>5
<1> HIDE DEF t
<1>8. /\ t \o z \in Seq(OutLexeme) /\ Len(t) \in Nat /\ Len(z) \in Nat /\ Len(t \o z) = Len(t) + Len(z)
      /\ \A i \in 1..Len(t) : (t \o z)[i] = t[i]
  BY <1>3, <1>6, JoinIs
<1>9. t \o z = Object(k, id)
  BY DEF Object, t, x, y, z
<1> QED
  BY <1>7, <1>8, <1>9

\* Trace g takes the document from s over an object to r, E being the messages before.
Passes(g, s, t, E, r) ==
    /\ Trace(g, s, t, Len(t)) /\ g[Len(t)] = r
    /\ \A i \in 1..(Len(t) - 1) : Within(g[i], E)

\* The whole object.
LEMMA ObjectTrace ==
    ASSUME NEW E, NEW n \in Nat, NEW b \in BOOLEAN, NEW mark, mark # "item", NEW k \in Key,
           NEW id \in 1..UIntMax, NEW c \in BOOLEAN, c <=> b /\ id <= IntMax
    PROVE  \E m \in Nat : \E g :
              Passes(g, Ready(E, n, b, mark), Object(k, id), E, Ready(Grown(E, k, id, m, c), m, c, "item"))
<1> DEFINE s == Ready(E, n, b, mark)
           t == << Mark("beginObject") >> \o Members(k, id)
           u == << Mark("endObject") >>
           w == Object(k, id)
           l == Mark("endObject")
<1>1. n + 1 \in Nat /\ c \in BOOLEAN /\ (c => id <= IntMax)
  OBVIOUS
<1>2. PICK m \in Nat : Leads(InObject(E, n + 1, Nothing, b, "start"), Members(k, id),
                             InObject(E, m, Told(k, id), c, "item"), E)
  <2>1. PICK m \in Nat : Leads(InObject(E, n + 1, Nothing, b, "start"), Members(k, id),
                               InObject(E, m, Told(k, id), b /\ id <= IntMax, "item"), E)
    BY <1>1, MembersLead
  <2>2. (b /\ id <= IntMax) = c
    OBVIOUS
  <2> QED
    BY <2>1, <2>2
<1> DEFINE r == InObject(E, m, Told(k, id), c, "item")
           q == Ready(Grown(E, k, id, m + 1, c), m + 1, c, "item")
<1>3. Leads(s, t, r, E)
  BY <1>2, OpenedObject, LeadsJoin
<1>4. Fitting(r, l) /\ After(r, l) = q
  BY <1>1, ClosedObject
<1>5. w = t \o u
  BY DEF Object
<1>6. m + 1 \in Nat
  OBVIOUS
<1>7. u[1] = l /\ Len(u) = 1
  OBVIOUS
<1>18. u \in Seq(OutLexeme)
  <2>1. l \in OutLexeme
    BY OutIs DEF Marks
  <2> QED
    BY <2>1
<1> HIDE DEF s, r, q, t, u, w, l
<1>8. PICK h : /\ Trace(h, s, t, Len(t)) /\ h[Len(t)] = r
               /\ \A i \in 1..Len(t) : Within(h[i], E)
  BY <1>3 DEF Leads
<1>9. t \in Seq(OutLexeme)
  BY <1>3 DEF Leads
<1> DEFINE j == Len(t)
<1>10. /\ w \in Seq(OutLexeme) /\ j \in Nat /\ Len(u) \in Nat
       /\ Len(w) = j + Len(u)
       /\ \A i \in 1..j : w[i] = t[i]
       /\ \A i \in 1..Len(u) : w[j + i] = u[i]
  BY <1>5, <1>9, <1>18, JoinIs
<1> HIDE DEF j
<1>11. Len(w) = j + 1 /\ w[j + 1] = l
  BY <1>7, <1>10
<1>12. Trace(h, s, w, j)
  BY <1>8, <1>10 DEF Trace, j
<1>13. Fitting(h[j], w[j + 1]) /\ After(h[j], w[j + 1]) = q
  BY <1>4, <1>8, <1>11 DEF j
<1>14. PICK g : /\ Trace(g, s, w, j + 1)
                /\ \A i \in 0..j : g[i] = h[i]
                /\ g[j + 1] = After(h[j], w[j + 1])
  BY <1>10, <1>12, <1>13, TraceOne
<1>15. \A i \in 1..(Len(w) - 1) : Within(g[i], E)
  <2> TAKE i \in 1..(Len(w) - 1)
  <2>1. i \in 1..j /\ i \in 0..j
    BY <1>10, <1>11
  <2> QED
    BY <1>8, <1>14, <2>1 DEF j
<1>17. Trace(g, s, w, Len(w)) /\ g[Len(w)] = q
  BY <1>11, <1>13, <1>14
<1> QED
  BY <1>6, <1>15, <1>17 DEF Passes, s, q, w

-----------------------------------------------------------------------------
(* The file that is to be written.                                          *)

\* Every message has an ID, and no two have the same.
LEMMA AllFoundIs ==
    ASSUME TypeOK, Results, \A k \in Msgs : ids[k] # 0,
           \A k, j \in Msgs : ids[k] = ids[j] => k = j
    PROVE  AllFound
<1>1. ids \in [Msgs -> Nat] /\ entries \in Seq(Entry)
  BY DEF TypeOK, DocTypeOK
<1>2. \A k \in Msgs : Known[k] = 0
  BY NothingKnown DEF INVALID_MSG_ID
<1>3. \A e \in Asked : e.key \in Msgs /\ ids[e.key] = e.id
  BY DEF Results, Asked
<1>4. \A k \in Msgs : \E e \in Asked : e.key = k
  BY <1>2 DEF Results
<1>5. found = {e.id : e \in {a \in Asked : Known[a.key] = 0}}
  BY DEF Results
<1>6. found = {ids[k] : k \in Msgs}
  <2>1. ASSUME NEW i \in found PROVE i \in {ids[k] : k \in Msgs}
    BY <1>3, <1>5, <2>1
  <2>2. ASSUME NEW k \in Msgs PROVE ids[k] \in found
    <3>1. PICK e \in Asked : e.key = k
      BY <1>4
    <3>2. ids[k] = e.id /\ Known[e.key] = 0
      BY <1>2, <1>3, <3>1
    <3> QED
      BY <1>5, <3>2
  <2> QED
    BY <2>1, <2>2
<1>7. ids \in Bijection(Msgs, found)
  <2>1. ids \in [Msgs -> found]
    BY <1>1, <1>6
  <2>2. ids \in Injection(Msgs, found)
    BY <2>1 DEF Injection, IsInjective
  <2>3. ids \in Surjection(Msgs, found)
    BY <1>6, <2>1 DEF Surjection
  <2> QED
    BY <2>2, <2>3 DEF Bijection
<1> QED
  BY <1>7, MsgsAssumption, FS_Bijection DEF AllFound, ExistsBijection

\* F is E, and behind it messages of K, each once, under the IDs I gives them.
OldAndNew(F, E, K, I) ==
    /\ F \in Seq(Entry) /\ Part(E, F)
    /\ \A i \in (Len(E) + 1)..Len(F) : F[i].key \in K /\ F[i].id = I[F[i].key]
    /\ \A i, j \in (Len(E) + 1)..Len(F) : F[i].key = F[j].key => i = j

\* Where the document may be when the rest of an old file follows.
Shape(s) ==
    \/ s.ctx = << >> /\ s.place # "inside"
    \/ s.ctx = << "array" >>
    \/ s.ctx = << "array", "object" >> /\ s.place = "inside" /\ s.name \in Attrs \cup {NoName}
Shut(s, E, K, I) == s.valid => Shape(s) /\ OldAndNew(s.entries, E, K, I)

Size == WritePos + Len(out)
Opener == IF Overwrites THEN Mark("beginArray") ELSE Mark("comma")
NextMark == IF Len(out) # 1 THEN "item" ELSE IF Overwrites THEN "start" ELSE "comma"

\* The file as it will be, up to where the writer is.
Pending ==
    [i \in 1..Size |-> IF i <= WritePos THEN text[i]
                       ELSE IF i = WritePos + 1 THEN Opener ELSE out[i - WritePos]]

IdsRight ==
    /\ ids \in [Msgs -> 0..top]
    /\ \A k \in Msgs : k \in todo <=> ids[k] = 0
    /\ \A k, j \in Msgs : ids[k] = ids[j] /\ ids[k] # 0 => k = j
    /\ \A i \in DOMAIN entries : entries[i].key \in Msgs => entries[i].id = ids[entries[i].key]
    /\ top > IntMax => \E k \in Msgs : ids[k] > IntMax

TodoRight ==
    /\ todo \subseteq Msgs /\ IsFiniteSet(todo) /\ top \in Nat
    /\ top + Cardinality(todo) <= UIntMax

PlaceRight ==
    /\ WritePos \in 0..Len(text) /\ (Overwrites => WritePos = 0) /\ entries \in Seq(Entry)
    /\ \A j \in (WritePos + 1)..Len(text) : text[j].lex \in Plain

OutRight ==
    /\ out \in Seq(OutLexeme) /\ Len(out) > 0 /\ out[1] = Mark("beginArray")
    /\ Len(out) = 1 => todo # {}
    /\ Len(out) # 1 => out[2] = Mark("beginObject")

\* The trace h of the pending file, its messages F, and its last event.
TextIs(h, F, m) ==
    /\ m \in Nat /\ Trace(h, Start, Pending, Size)
    /\ h[Size] = Ready(F, m, top <= IntMax, NextMark)
    /\ \A i \in 0..Size : Part(h[i].entries, F)
    /\ \A i \in WritePos..Size : Shut(h[i], entries, Msgs \ todo, ids)
    /\ OldAndNew(F, entries, Msgs \ todo, ids)
    /\ top <= IntMax => \A k \in Msgs \ todo : \E i \in 1..Len(F) : F[i].key = k

TextRight == \E h, F, m : TextIs(h, F, m)

AtEnd == status = "done" => cursor = Len(text) /\ Len(ctx) = 0 /\ DocOver

\* Where the new messages go.
LEMMA WritePosIs ==
    ASSUME TextTypes, ReaderInv, ReadSoFar, AtEnd, status = "done"
    PROVE  /\ PlaceRight /\ (Overwrites <=> entries = << >>)
           /\ \E h, m :
                 /\ m \in Nat /\ Trace(h, Start, text, WritePos)
                 /\ h[WritePos] = IF Overwrites THEN Start ELSE Ready(entries, m, TRUE, "item")
                 /\ \A i \in 0..WritePos : Part(h[i].entries, entries)
<1>1. cursor = Len(text) /\ Len(ctx) = 0 /\ Len(text) \in Nat
  BY LenProperties DEF AtEnd, TextTypes
<1>2. /\ entries \in Seq(Entry) /\ msgCount = Len(entries)
      /\ lastEnd = IF entries = << >> THEN -1 ELSE entries[Len(entries)].end
  BY DEF ReaderInv, Results, TypeOK, DocTypeOK
<1>3. PICK h, p : /\ Trace(h, Start, text, cursor)
                  /\ LastAt(h, p) /\ NothingBehind(p)
                  /\ \A i \in 0..cursor : Part(h[i].entries, entries)
  BY DEF ReadSoFar
<1>4. Overwrites <=> entries = << >>
  <2>1. Len(entries) = 0 <=> entries = << >>
    BY <1>2, LenProperties
  <2> QED
    BY <1>2, <2>1 DEF Overwrites
<1>5. /\ WritePos = p /\ p \in 0..cursor /\ (entries = << >> => p = 0)
      /\ entries # << >> => h[p] = Ready(entries, EventsTo(text, p), TRUE, "item") /\ EventsTo(text, p) \in Nat
  <2>1. CASE entries = << >>
    <3>1. p = 0
      BY <1>3, <2>1 DEF LastAt
    <3> QED
      BY <1>1, <1>4, <2>1, <3>1 DEF WritePos
  <2>2. CASE entries # << >>
    <3>1. /\ p \in 1..cursor /\ text[p].lex = "endObject"
          /\ h[p] = Ready(entries, EventsTo(text, p), TRUE, "item")
          /\ entries[Len(entries)].end = EventsTo(text, p)
      BY <1>3, <2>2 DEF LastAt
    <3>2. text \in Seq(Lexeme) /\ p \in 1..Len(text) /\ text[p].lex \notin Silent /\ p \in Nat /\ p \in 0..cursor
      BY <1>1, <3>1 DEF TextTypes, Silent
    <3>3. Position(text, EventsTo(text, p)) = p
      BY <3>2, PositionIs
    <3>4. EventsTo(text, p) \in Nat
      BY <3>2, EventsStep
    <3> QED
      BY <1>2, <1>4, <2>2, <3>1, <3>2, <3>3, <3>4 DEF WritePos
  <2> QED
    BY <2>1, <2>2
<1>6. PlaceRight
  <2>1. \A j \in (p + 1)..cursor : text[j].lex \in Plain
    BY <1>1, <1>3 DEF NothingBehind
  <2> QED
    BY <1>1, <1>2, <1>4, <1>5, <2>1 DEF PlaceRight
<1>7. Trace(h, Start, text, p)
  <2>1. \A i \in 1..p : i \in 1..cursor
    BY <1>1, <1>5
  <2> QED
    BY <1>3, <2>1 DEF Trace
<1>8. \A i \in 0..p : Part(h[i].entries, entries)
  <2>1. \A i \in 0..p : i \in 0..cursor
    BY <1>1, <1>5
  <2> QED
    BY <1>3, <2>1
<1>9. CASE entries = << >>
  <2>1. h[p] = Start /\ 0 \in Nat
    BY <1>3, <1>5, <1>9 DEF Trace
  <2> QED
    BY <1>4, <1>5, <1>6, <1>7, <1>8, <1>9, <2>1
<1>10. CASE entries # << >>
  BY <1>4, <1>5, <1>6, <1>7, <1>8, <1>10
<1> QED
  BY <1>9, <1>10

LEMMA TraceOther ==
    ASSUME NEW h, NEW s, NEW t, NEW u, NEW n \in Nat, NEW k \in Nat, k <= n, Trace(h, s, t, n),
           \A i \in 1..k : u[i] = t[i]
    PROVE  Trace(h, s, u, k)
<1>1. \A i \in 1..k : i \in 1..n
  OBVIOUS
<1> QED
  BY <1>1 DEF Trace

LEMMA OldIs ==
    ASSUME NEW E \in Seq(Entry), NEW K, NEW I
    PROVE  OldAndNew(E, E, K, I)
<1>1. Part(E, E)
  BY PartSame
<1>2. (Len(E) + 1)..Len(E) = {}
  BY LenProperties
<1> QED
  BY <1>1, <1>2 DEF OldAndNew

LEMMA OpenerIs ==
    ASSUME NEW E, NEW m \in Nat, NEW b
    PROVE  /\ Fitting(Start, Mark("beginArray"))
           /\ After(Start, Mark("beginArray")) = Ready(<< >>, 1, TRUE, "start")
           /\ Fitting(Ready(E, m, b, "item"), Mark("comma"))
           /\ After(Ready(E, m, b, "item"), Mark("comma")) = Ready(E, m, b, "comma")
<1> DEFINE a == Mark("beginArray")
           c == Mark("comma")
           s == Ready(E, m, b, "item")
<1>1. a.lex = "beginArray" /\ c.lex = "comma"
  BY OutIs DEF Marks
<1>2. /\ Start.ctx = << >> /\ Start.name = NoName /\ Start.place = "start" /\ Start.at = 0
      /\ Start.said = Nothing /\ Start.valid = TRUE /\ Start.entries = << >> /\ Start.sep = "start"
  BY DEF Start
<1>3. /\ s.ctx = << "array" >> /\ Len(s.ctx) = 1 /\ s.ctx[1] = "array"
      /\ s.name = NoName /\ s.place = "inside" /\ s.at = m /\ s.said = Nothing
      /\ s.valid = b /\ s.entries = E /\ s.sep = "item" /\ In(s, "array")
  BY ReadyIs
<1>4. After(s, c) = Ready(E, m, b, "comma")
  BY <1>1 DEF After, AfterComma, Ready
<1> HIDE DEF a, c, s
<1>5. Fitting(s, c)
  BY <1>1, <1>3 DEF Fitting
<1>6. Fitting(Start, a)
  BY <1>1, <1>2 DEF Fitting, Due
<1>7. Len(Start.ctx) = 0 /\ Append(Start.ctx, "array") = << "array" >>
  BY <1>2
<1>8. (Start.valid /\ Good(Start, [kind |-> "array"])) = TRUE
  BY <1>2, <1>7 DEF Good
<1>9. SaidThen(Start, [kind |-> "array"]) = Nothing
  BY <1>2, <1>7 DEF SaidThen
<1>10. AfterBegin(Start, "array") = Ready(<< >>, 1, TRUE, "start")
  <2>1. Start.at + 1 = 1
    BY <1>2
  <2> QED
    BY <1>2, <1>7, <1>8, <1>9, <2>1 DEF AfterBegin, Ready
<1>11. After(Start, a) = AfterBegin(Start, "array")
  BY <1>1 DEF After
<1> QED
  BY <1>4, <1>5, <1>6, <1>10, <1>11 DEF a, c, s

LEMMA StartFacts ==
    ASSUME TypeOK, Results
    PROVE  /\ maxId \in 0..IntMax /\ ids \in [Msgs -> 0..maxId]
           /\ \A k, j \in Msgs : ids[k] = ids[j] /\ ids[k] # 0 => k = j
           /\ \A i \in DOMAIN entries : entries[i].key \in Msgs => entries[i].id = ids[entries[i].key]
           /\ \A k \in Msgs : ids[k] # 0 => \E i \in DOMAIN entries : entries[i].key = k
<1>1. ids \in [Msgs -> Nat] /\ entries \in Seq(Entry) /\ maxId \in Nat
  BY DEF TypeOK, DocTypeOK
<1>2. \A k \in Msgs : Known[k] = 0
  BY NothingKnown DEF INVALID_MSG_ID
<1>3. \A i \in DOMAIN entries : entries[i] \in Entry
  BY <1>1, ElementOfSeq, LenProperties
<1>4. \A i \in DOMAIN entries : entries[i].key \in Msgs => entries[i] \in Asked
  BY DEF Asked
<1>5. \A e \in Asked : \E i \in DOMAIN entries : e = entries[i] /\ entries[i].key \in Msgs
  BY DEF Asked
<1>6. \A e \in Asked : ids[e.key] = e.id
  BY DEF Results
<1>7. \A k \in Msgs : ids[k] # 0 => \E e \in Asked : e.key = k
  BY <1>2 DEF Results
<1>8. maxId \in 0..IntMax
  <2>1. IntMax \in Nat
    BY IntsAssumption
  <2>2. CASE maxId = 0
    BY <2>1, <2>2
  <2>3. CASE maxId # 0
    <3>1. PICK i \in DOMAIN entries : entries[i].id = maxId
      BY <2>3 DEF Results
    <3>2. entries[i].id \in 1..IntMax
      BY <1>3, <3>1 DEF Entry
    <3> QED
      BY <2>1, <3>1, <3>2
  <2> QED
    BY <2>2, <2>3
<1>9. ASSUME NEW k \in Msgs PROVE ids[k] \in 0..maxId
  <2>1. CASE ids[k] = 0
    BY <1>1, <2>1
  <2>2. CASE ids[k] # 0
    <3>1. PICK e \in Asked : e.key = k
      BY <1>7, <2>2
    <3>2. PICK i \in DOMAIN entries : e = entries[i]
      BY <1>5
    <3>3. ids[k] = entries[i].id /\ entries[i].id <= maxId
      BY <1>6, <3>1, <3>2 DEF Results
    <3> QED
      BY <1>1, <3>3
  <2> QED
    BY <2>1, <2>2
<1>10. ASSUME NEW k \in Msgs, NEW j \in Msgs, ids[k] = ids[j], ids[k] # 0 PROVE k = j
  <2>1. PICK a \in Asked : a.key = k
    BY <1>7, <1>10
  <2>2. PICK b \in Asked : b.key = j
    BY <1>7, <1>10
  <2>3. a.id = b.id /\ Known[a.key] = 0 /\ Known[b.key] = 0
    BY <1>2, <1>6, <1>10, <2>1, <2>2
  <2>4. ~Clash
    BY DEF Results
  <2> QED
    BY <2>1, <2>2, <2>3, <2>4 DEF Clash
<1>11. \A i \in DOMAIN entries : entries[i].key \in Msgs => entries[i].id = ids[entries[i].key]
  BY <1>4, <1>6
<1>12. ASSUME NEW k \in Msgs, ids[k] # 0 PROVE \E i \in DOMAIN entries : entries[i].key = k
  BY <1>5, <1>7, <1>12
<1>13. ids \in [Msgs -> 0..maxId]
  BY <1>1, <1>9
<1> QED
  BY <1>8, <1>10, <1>11, <1>12, <1>13

WritingInv ==
    /\ TypeOK /\ ids \in [Msgs -> 0..UIntMax] /\ text \in Seq(Lexeme)
    /\ IdsRight /\ TodoRight /\ PlaceRight /\ OutRight /\ TextRight

\* The first compilation has read the file and misses messages.
LEMMA StartWritingStep ==
    ASSUME InRange, TextTypes, ReaderInv, ReadSoFar, AtEnd, StartWriting
    PROVE  WritingInv'
<1>1. /\ status = "done" /\ ~AllFound /\ todo' = {k \in Msgs : ids[k] = 0} /\ top' = maxId
      /\ out' = << Mark("beginArray") >> /\ UNCHANGED <<vars, text, cursor, sep, first>>
  BY DEF StartWriting, INVALID_MSG_ID
<1>2. UNCHANGED <<ctx, name, place, at, said, valid, entries, status, state, level, attrs,
                  found, lastEnd, maxId, msgCount, ids>>
  BY <1>1 DEF vars, docVars, readerVars
<1>3. TypeOK /\ Results
  BY <1>1 DEF ReaderInv
<1>4. PlaceRight /\ (Overwrites <=> entries = << >>)
  BY <1>1, WritePosIs
<1>5. PICK h, m : /\ m \in Nat /\ Trace(h, Start, text, WritePos)
                  /\ h[WritePos] = IF Overwrites THEN Start ELSE Ready(entries, m, TRUE, "item")
                  /\ \A i \in 0..WritePos : Part(h[i].entries, entries)
  BY <1>1, WritePosIs
<1>6. PICK p, E, K, I : p = WritePos /\ E = entries /\ K = Msgs \ todo' /\ I = ids
  OBVIOUS
<1>7. p \in Nat /\ E \in Seq(Entry)
  BY <1>4, <1>6, LenProperties DEF PlaceRight
<1>8. /\ maxId \in 0..IntMax /\ ids \in [Msgs -> 0..maxId]
      /\ \A k, j \in Msgs : ids[k] = ids[j] /\ ids[k] # 0 => k = j
      /\ \A i \in DOMAIN entries : entries[i].key \in Msgs => entries[i].id = ids[entries[i].key]
      /\ \A k \in Msgs : ids[k] # 0 => \E i \in DOMAIN entries : entries[i].key = k
  BY <1>3, StartFacts
<1>9. IntMax \in Nat /\ UIntMax = 2 * IntMax + 1
  BY IntsAssumption DEF UIntMax
<1>10. TypeOK' /\ ids' \in [Msgs -> 0..UIntMax] /\ text' \in Seq(Lexeme)
  <2>1. TypeOK'
    BY <1>2, <1>3 DEF TypeOK, DocTypeOK
  <2>2. 0..maxId \subseteq 0..UIntMax
    BY <1>8, <1>9
  <2> QED
    BY <1>1, <1>2, <1>8, <2>1, <2>2 DEF TextTypes
<1>11. IdsRight'
  BY <1>1, <1>2, <1>8, <1>9 DEF IdsRight
<1>12. TodoRight'
  <2>1. todo' \in SUBSET Msgs
    BY <1>1
  <2>2. IsFiniteSet(todo') /\ Cardinality(todo') \in Nat /\ Cardinality(todo') <= IntMax + 1
    <3>1. IsFiniteSet(todo') /\ Cardinality(todo') <= Cardinality(Msgs)
      BY <2>1, MsgsAssumption, FS_Subset
    <3>2. Cardinality(todo') \in Nat /\ Cardinality(Msgs) \in Nat
      BY <3>1, MsgsAssumption, FS_CardinalityType
    <3> QED
      BY <1>9, <3>1, <3>2, MsgsAssumption
  <2> QED
    BY <1>1, <1>8, <1>9, <2>1, <2>2 DEF TodoRight
<1>13. Overwrites' = Overwrites /\ WritePos' = WritePos
  BY <1>1, <1>2 DEF Overwrites, WritePos
<1>14. PlaceRight'
  BY <1>1, <1>2, <1>4, <1>13 DEF PlaceRight
<1>15. todo' # {}
  <2>1. SUFFICES ASSUME todo' = {} PROVE FALSE
    OBVIOUS
  <2>2. \A k \in Msgs : ids[k] # 0
    BY <1>1, <2>1
  <2>3. \A k, j \in Msgs : ids[k] = ids[j] => k = j
    BY <1>8, <2>2
  <2> QED
    BY <1>1, <1>3, <2>2, <2>3, AllFoundIs
<1>16. OutRight'
  <2>1. Mark("beginArray") \in OutLexeme
    BY OutIs DEF Marks
  <2>2. out' \in Seq(OutLexeme) /\ Len(out') = 1 /\ out'[1] = Mark("beginArray")
    BY <1>1, <2>1
  <2> QED
    BY <1>15, <2>2 DEF OutRight
<1>17. TextRight'
  <2>1. PICK n, u, l, mark : n = p + 1 /\ u = Pending' /\ l = Opener /\ mark = NextMark'
    OBVIOUS
  <2>2. Len(out') = 1
    BY <1>1
  <2>3. Size' = n /\ Opener' = Opener /\ mark = IF Overwrites THEN "start" ELSE "comma"
    BY <1>6, <1>13, <2>1, <2>2 DEF Size, Opener, NextMark
  <2>4. (\A i \in 1..p : u[i] = text[i]) /\ u[n] = l
    <3>1. u = [i \in 1..n |-> IF i <= p THEN text[i] ELSE IF i = p + 1 THEN Opener ELSE out'[i - p]]
      BY <1>1, <1>6, <1>13, <2>1, <2>3 DEF Pending
    <3>2. n \in 1..n /\ ~ (n <= p) /\ \A i \in 1..p : i \in 1..n /\ i <= p
      BY <1>7, <2>1
    <3> QED
      BY <2>1, <3>1, <3>2
  <2>5. Trace(h, Start, u, p)
    BY <1>5, <1>6, <1>7, <2>4, TraceOther
  <2>6. PICK q : /\ q \in Nat /\ Fitting(h[p], l) /\ After(h[p], l) = Ready(E, q, TRUE, mark)
    <3>1. CASE Overwrites
      <4>1. h[p] = Start /\ E = << >> /\ l = Mark("beginArray") /\ mark = "start"
        BY <1>4, <1>5, <1>6, <2>1, <2>3, <3>1 DEF Opener
      <4>2. 0 \in Nat /\ 1 \in Nat
        OBVIOUS
      <4> QED
        BY <4>1, <4>2, OpenerIs
    <3>2. CASE ~Overwrites
      <4>1. h[p] = Ready(E, m, TRUE, "item") /\ l = Mark("comma") /\ mark = "comma"
        BY <1>4, <1>5, <1>6, <2>1, <2>3, <3>2 DEF Opener
      <4> QED
        BY <1>5, <4>1, OpenerIs
    <3> QED
      BY <3>1, <3>2
  <2>7. PICK f : /\ Trace(f, Start, u, p + 1)
                 /\ \A i \in 0..p : f[i] = h[i]
                 /\ f[p + 1] = After(h[p], u[p + 1])
    <3>1. Fitting(h[p], u[p + 1])
      BY <2>1, <2>4, <2>6
    <3> QED
      BY <1>7, <2>5, <3>1, TraceOne
  <2>8. f[n] = Ready(E, q, TRUE, mark) /\ Trace(f, Start, u, n)
    BY <2>1, <2>4, <2>6, <2>7
  <2>9. \A i \in 0..n : Part(f[i].entries, E)
    <3> TAKE i \in 0..n
    <3>1. CASE i \in 0..p
      BY <1>5, <1>6, <2>7, <3>1
    <3>2. CASE i = n
      <4>1. f[i].entries = E
        BY <2>8, <3>2 DEF Ready
      <4> QED
        BY <1>7, <4>1, PartSame
    <3> QED
      BY <1>7, <2>1, <3>1, <3>2
  <2>10. OldAndNew(E, E, K, I)
    BY <1>7, OldIs
  <2>11. \A i \in p..n : Shut(f[i], E, K, I)
    <3> TAKE i \in p..n
    <3>1. CASE i = p
      <4>1. f[i] = h[p]
        BY <1>7, <2>7, <3>1
      <4>2. CASE Overwrites
        BY <1>4, <1>5, <1>6, <2>10, <4>1, <4>2 DEF Shut, Shape, Start
      <4>3. CASE ~Overwrites
        BY <1>5, <1>6, <2>10, <4>1, <4>3 DEF Shut, Shape, Ready
      <4> QED
        BY <4>2, <4>3
    <3>2. CASE i = n
      BY <2>8, <2>10, <3>2 DEF Shut, Shape, Ready
    <3> QED
      BY <1>7, <2>1, <3>1, <3>2
  <2>12. (top' <= IntMax) = TRUE
    BY <1>1, <1>8, <1>9
  <2>13. \A k \in K : \E i \in 1..Len(E) : E[i].key = k
    BY <1>1, <1>6, <1>7, <1>8, LenProperties
  <2>14. f[n] = Ready(E, q, top' <= IntMax, mark)
    BY <2>8, <2>12
  <2>15. /\ Trace(f, Start, Pending', Size') /\ f[Size'] = Ready(E, q, top' <= IntMax, NextMark')
         /\ \A i \in 0..Size' : Part(f[i].entries, E)
    BY <2>1, <2>3, <2>8, <2>9, <2>14
  <2>16. /\ OldAndNew(E, entries', Msgs \ todo', ids')
         /\ \A i \in WritePos'..Size' : Shut(f[i], entries', Msgs \ todo', ids')
         /\ \A k \in Msgs \ todo' : \E i \in 1..Len(E) : E[i].key = k
    BY <1>2, <1>6, <1>13, <2>3, <2>10, <2>11, <2>13
  <2>17. TextIs(f, E, q)'
    BY <2>6, <2>15, <2>16 DEF TextIs
  <2> QED
    BY <2>17 DEF TextRight
<1> QED
  BY <1>10, <1>11, <1>12, <1>14, <1>16, <1>17 DEF WritingInv

\* More messages get IDs.
Extends(K, I, K2, I2) == K \subseteq K2 /\ \A k \in K : I2[k] = I[k]

LEMMA OldAndNewMore ==
    ASSUME NEW F, NEW E, NEW K, NEW I, NEW K2, NEW I2, OldAndNew(F, E, K, I),
           Extends(K, I, K2, I2)
    PROVE  OldAndNew(F, E, K2, I2)
BY DEF OldAndNew, Extends

HasKey(F, k) == \E i \in 1..Len(F) : F[i].key = k

LEMMA OldAndNewGrown ==
    ASSUME NEW F, NEW E \in Seq(Entry), NEW K, NEW I, NEW K2, NEW I2, OldAndNew(F, E, K, I),
           Extends(K, I, K2, I2), NEW k \in Key, k \in K2, k \notin K,
           NEW m \in Nat, NEW c \in BOOLEAN, c => I2[k] \in 1..IntMax
    PROVE  /\ OldAndNew(Grown(F, k, I2[k], m, c), E, K2, I2) /\ Part(F, Grown(F, k, I2[k], m, c))
           /\ c => HasKey(Grown(F, k, I2[k], m, c), k)
<1>1. OldAndNew(F, E, K2, I2) /\ F \in Seq(Entry)
  BY OldAndNewMore DEF OldAndNew
<1>2. CASE ~c
  BY <1>1, <1>2, PartSame DEF Grown
<1>3. CASE c
  <2> DEFINE e == [key |-> k, id |-> I2[k], end |-> m]
             G == Append(F, e)
  <2>1. e \in Entry /\ e.key = k /\ e.id = I2[k]
    BY <1>3 DEF Entry
  <2> HIDE DEF e
  <2>2. /\ G \in Seq(Entry) /\ Part(F, G) /\ Len(G) = Len(F) + 1 /\ G[Len(F) + 1] = e
    BY <1>1, <2>1, PartAppend, AppendProperties
  <2> HIDE DEF G
  <2>3. Part(E, G)
    BY <1>1, <2>2, PartJoin DEF OldAndNew
  <2>4. Len(F) \in Nat /\ Len(E) \in Nat /\ \A i \in 1..Len(F) : G[i] = F[i]
    BY <2>2, LenProperties DEF Part
  <2>5. \A i \in (Len(E) + 1)..Len(G) : i = Len(F) + 1 \/ (i \in (Len(E) + 1)..Len(F) /\ G[i] = F[i])
    BY <2>2, <2>4
  <2>6. ASSUME NEW i \in (Len(E) + 1)..Len(G) PROVE G[i].key \in K2 /\ G[i].id = I2[G[i].key]
    BY <1>1, <2>1, <2>2, <2>5 DEF OldAndNew
  <2>7. \A i \in (Len(E) + 1)..Len(F) : F[i].key \in K
    BY DEF OldAndNew
  <2>8. ASSUME NEW i \in (Len(E) + 1)..Len(G), NEW j \in (Len(E) + 1)..Len(G), G[i].key = G[j].key
        PROVE  i = j
    <3>1. CASE i = Len(F) + 1
      BY <2>1, <2>2, <2>5, <2>7, <2>8, <3>1
    <3>2. CASE j = Len(F) + 1
      BY <2>1, <2>2, <2>5, <2>7, <2>8, <3>2
    <3>3. CASE i # Len(F) + 1 /\ j # Len(F) + 1
      BY <1>1, <2>5, <2>8, <3>3 DEF OldAndNew
    <3> QED
      BY <3>1, <3>2, <3>3
  <2>9. OldAndNew(G, E, K2, I2)
    BY <2>2, <2>3, <2>6, <2>8 DEF OldAndNew
  <2>10. HasKey(G, k)
    BY <2>1, <2>2, <2>4 DEF HasKey
  <2> QED
    BY <1>3, <2>2, <2>9, <2>10 DEF Grown, G, e
<1> QED
  BY <1>2, <1>3

PendingParts ==
    /\ Size \in Nat /\ WritePos \in Nat /\ Len(out) \in Nat /\ WritePos < Size
    /\ \A i \in 1..WritePos : Pending[i] = text[i]
    /\ Pending[WritePos + 1] = Opener
    /\ \A i \in 2..Len(out) : Pending[WritePos + i] = out[i]

LEMMA PendingIs ==
    PlaceRight /\ OutRight => PendingParts
<1> SUFFICES ASSUME PlaceRight, OutRight
             PROVE  PendingParts
  OBVIOUS
<1>1. WritePos \in Nat /\ Len(out) \in Nat /\ Len(out) > 0
  BY LenProperties DEF PlaceRight, OutRight
<1>2. PICK p, n : p = WritePos /\ n = Len(out)
  OBVIOUS
<1>3. Pending = [i \in 1..(p + n) |-> IF i <= p THEN text[i]
                                      ELSE IF i = p + 1 THEN Opener ELSE out[i - p]]
  BY <1>2 DEF Pending, Size
<1>4. \A i \in 1..p : i \in 1..(p + n) /\ i <= p
  BY <1>1, <1>2
<1>5. p + 1 \in 1..(p + n) /\ ~ (p + 1 <= p)
  BY <1>1, <1>2
<1>6. \A i \in 2..n : p + i \in 1..(p + n) /\ ~ (p + i <= p) /\ p + i # p + 1 /\ (p + i) - p = i
  BY <1>1, <1>2
<1>7. /\ \A i \in 1..p : Pending[i] = text[i]
      /\ Pending[p + 1] = Opener
      /\ \A i \in 2..n : Pending[p + i] = out[i]
  BY <1>3, <1>4, <1>5, <1>6
<1>8. Size = p + n /\ p + n \in Nat /\ p < p + n
  BY <1>1, <1>2 DEF Size
<1> QED
  BY <1>1, <1>2, <1>7, <1>8 DEF PendingParts

LEMMA PendingNext ==
    PlaceRight' /\ OutRight' => PendingParts'
BY PendingIs, PTL

\* The writer appends an object, and a comma before all but the first.
Grows(u, o, t, d) ==
    /\ u \in Seq(OutLexeme) /\ Len(o) \in Nat /\ Len(t) \in Nat
    /\ Len(u) = Len(o) + d + Len(t)
    /\ \A i \in 1..Len(o) : u[i] = o[i]
    /\ Len(o) # 1 => u[Len(o) + 1] = Mark("comma")
    /\ \A i \in 1..Len(t) : u[Len(o) + d + i] = t[i]

LEMMA OutGrows ==
    ASSUME NEW o \in Seq(OutLexeme), NEW t \in Seq(OutLexeme), Len(o) > 0
    PROVE  Grows(o \o (IF Len(o) = 1 THEN << >> ELSE << Mark("comma") >>) \o t, o, t,
                 IF Len(o) = 1 THEN 0 ELSE 1)
<1> DEFINE x == IF Len(o) = 1 THEN << >> ELSE << Mark("comma") >>
           d == IF Len(o) = 1 THEN 0 ELSE 1
           v == o \o x
           u == v \o t
<1>1. Mark("comma") \in OutLexeme
  BY OutIs DEF Marks
<1>2. x \in Seq(OutLexeme) /\ Len(x) = d /\ d \in 0..1 /\ (Len(o) # 1 => d = 1 /\ x[1] = Mark("comma"))
  BY <1>1
<1>3. x \in Seq(OutLexeme)
  BY <1>2
<1> HIDE DEF x, d
<1>4. /\ v \in Seq(OutLexeme) /\ Len(o) \in Nat /\ Len(v) = Len(o) + Len(x)
      /\ \A i \in 1..Len(o) : v[i] = o[i]
      /\ \A i \in 1..Len(x) : v[Len(o) + i] = x[i]
  BY <1>3, JoinIs
<1>5. v \in Seq(OutLexeme)
  BY <1>4
<1> HIDE DEF v
<1>6. /\ u \in Seq(OutLexeme) /\ Len(t) \in Nat /\ Len(u) = Len(v) + Len(t)
      /\ \A i \in 1..Len(v) : u[i] = v[i]
      /\ \A i \in 1..Len(t) : u[Len(v) + i] = t[i]
  BY <1>5, JoinIs
<1> HIDE DEF u
<1>7. PICK n, a : n = Len(o) /\ a = Len(t)
  OBVIOUS
<1>8. n \in Nat /\ a \in Nat /\ Len(v) = n + d /\ Len(x) = d
  BY <1>2, <1>4, <1>6, <1>7
<1>9. \A i \in 1..n : u[i] = o[i]
  <2> TAKE i \in 1..n
  <2>1. i \in 1..Len(v)
    BY <1>2, <1>8
  <2> QED
    BY <1>4, <1>6, <1>7, <2>1
<1>10. n # 1 => u[n + 1] = Mark("comma")
  <2> SUFFICES ASSUME n # 1 PROVE u[n + 1] = Mark("comma")
    OBVIOUS
  <2>1. d = 1 /\ x[1] = Mark("comma") /\ n + 1 \in 1..Len(v) /\ 1 \in 1..Len(x)
    BY <1>2, <1>7, <1>8
  <2> QED
    BY <1>4, <1>6, <1>7, <2>1
<1>11. \A i \in 1..a : u[n + d + i] = t[i]
  BY <1>6, <1>7, <1>8
<1>12. Len(u) = n + d + a
  BY <1>6, <1>7, <1>8
<1> QED
  BY <1>6, <1>7, <1>8, <1>9, <1>10, <1>11, <1>12 DEF Grows, u, v, x, d

\* u begins like the pending file, and a comma follows if there is an object before.
Continues(u) ==
    /\ \A i \in 1..Size : u[i] = Pending[i]
    /\ Len(out) # 1 => u[Size + 1] = Mark("comma")

LEMMA ReadyToWrite ==
    ASSUME PlaceRight, OutRight, NEW h, NEW F, NEW m, TextIs(h, F, m), NEW u, NEW z,
           z = Size + (IF Len(out) = 1 THEN 0 ELSE 1), Continues(u)
    PROVE  \E f, mark :
              /\ mark # "item" /\ Trace(f, Start, u, z)
              /\ f[z] = Ready(F, m, top <= IntMax, mark)
              /\ \A i \in 0..z : Part(f[i].entries, F)
              /\ \A i \in WritePos..z : Shut(f[i], entries, Msgs \ todo, ids)
<1>1. Size \in Nat /\ WritePos \in Nat /\ WritePos < Size
  BY PendingIs DEF PendingParts
<1>2. PICK n, b : n = Size /\ b = (top <= IntMax)
  OBVIOUS
<1>3. /\ m \in Nat /\ Trace(h, Start, Pending, n) /\ h[n] = Ready(F, m, b, NextMark)
      /\ \A i \in 0..n : Part(h[i].entries, F)
      /\ \A i \in WritePos..n : Shut(h[i], entries, Msgs \ todo, ids)
      /\ OldAndNew(F, entries, Msgs \ todo, ids)
  BY <1>2 DEF TextIs
<1>4. Trace(h, Start, u, n)
  <2>1. n \in Nat /\ n <= n /\ \A i \in 1..n : u[i] = Pending[i]
    BY <1>1, <1>2 DEF Continues
  <2> QED
    BY <1>3, <2>1, TraceOther
<1>5. CASE Len(out) = 1
  <2>1. z = n /\ NextMark # "item"
    BY <1>1, <1>2, <1>5 DEF NextMark
  <2> QED
    BY <1>2, <1>3, <1>4, <2>1
<1>6. CASE Len(out) # 1
  <2>1. z = n + 1 /\ NextMark = "item" /\ u[n + 1] = Mark("comma")
    BY <1>2, <1>6 DEF NextMark, Continues
  <2>2. Fitting(h[n], u[n + 1]) /\ After(h[n], u[n + 1]) = Ready(F, m, b, "comma")
    BY <1>3, <2>1, OpenerIs
  <2>3. PICK f : /\ Trace(f, Start, u, n + 1)
                 /\ \A i \in 0..n : f[i] = h[i]
                 /\ f[n + 1] = After(h[n], u[n + 1])
    BY <1>1, <1>2, <1>4, <2>2, TraceOne
  <2>4. f[z] = Ready(F, m, b, "comma") /\ f[z].entries = F /\ f[z].ctx = << "array" >>
    BY <2>1, <2>2, <2>3 DEF Ready
  <2>5. F \in Seq(Entry)
    BY <1>3 DEF OldAndNew
  <2>6. \A i \in 0..z : i \in 0..n \/ i = z
    BY <1>1, <1>2, <2>1
  <2>7. \A i \in 0..z : Part(f[i].entries, F)
    BY <1>3, <2>3, <2>4, <2>5, <2>6, PartSame
  <2>8. \A i \in WritePos..z : i = z \/ (i \in WritePos..n /\ i \in 0..n)
    BY <1>1, <1>2, <2>1
  <2>9. Shut(f[z], entries, Msgs \ todo, ids)
    BY <1>3, <2>4 DEF Shut, Shape
  <2>10. \A i \in WritePos..z : Shut(f[i], entries, Msgs \ todo, ids)
    BY <1>3, <2>3, <2>8, <2>9
  <2>11. "comma" # "item"
    OBVIOUS
  <2> QED
    BY <1>2, <2>1, <2>3, <2>4, <2>7, <2>10, <2>11
<1> QED
  BY <1>5, <1>6

\* A message is serialized.
LEMMA SerializeMsgStep ==
    ASSUME WritingInv, SerializeMsg
    PROVE  WritingInv'
<1>1. PICK k \in todo : /\ top' = (top + 1) % (UIntMax + 1)
                        /\ ids' = [ids EXCEPT ![k] = top']
                        /\ out' = out \o (IF Len(out) = 1 THEN << >> ELSE << Mark("comma") >>) \o Object(k, top')
                        /\ todo' = todo \ {k}
  BY DEF SerializeMsg
<1>2. UNCHANGED <<ctx, name, place, at, said, valid, entries, status, state, level, attrs,
                  found, lastEnd, maxId, msgCount, text, cursor, sep, phase, first>>
  BY DEF SerializeMsg, docVars
<1>3. /\ TypeOK /\ ids \in [Msgs -> 0..UIntMax] /\ text \in Seq(Lexeme)
      /\ IdsRight /\ TodoRight /\ PlaceRight /\ OutRight /\ TextRight
  BY DEF WritingInv
<1>4. IntMax \in Nat /\ UIntMax = 2 * IntMax + 1 /\ UIntMax \in Nat
  BY IntsAssumption DEF UIntMax
<1>5. /\ todo \subseteq Msgs /\ IsFiniteSet(todo) /\ top \in Nat /\ k \in Msgs /\ k \in Key
      /\ IsFiniteSet(todo') /\ Cardinality(todo') = Cardinality(todo) - 1
      /\ Cardinality(todo') \in Nat /\ Cardinality(todo) \in Nat
      /\ top + Cardinality(todo) <= UIntMax
  BY <1>1, <1>3, KnownAssumption, FS_RemoveElement, FS_CardinalityType DEF TodoRight
<1>6. top' = top + 1 /\ top' \in 1..UIntMax
  <2>1. top + 1 <= UIntMax
    BY <1>4, <1>5
  <2>2. (top + 1) % (UIntMax + 1) = top + 1
    BY <1>4, <1>5, <2>1
  <2> QED
    BY <1>1, <1>4, <1>5, <2>1, <2>2
<1>7. TodoRight'
  BY <1>1, <1>5, <1>6 DEF TodoRight
<1>8. /\ ids \in [Msgs -> 0..top] /\ \A j \in Msgs : j \in todo <=> ids[j] = 0
      /\ \A j, l \in Msgs : ids[j] = ids[l] /\ ids[j] # 0 => j = l
      /\ \A i \in DOMAIN entries : entries[i].key \in Msgs => entries[i].id = ids[entries[i].key]
  BY <1>3 DEF IdsRight
<1>9. /\ ids' \in [Msgs -> 0..top'] /\ ids'[k] = top' /\ \A j \in Msgs : j # k => ids'[j] = ids[j]
  BY <1>1, <1>5, <1>6, <1>8
<1>10. IdsRight'
  <2>1. \A j \in Msgs : j \in todo' <=> ids'[j] = 0
    BY <1>1, <1>6, <1>8, <1>9
  <2>2. \A j \in Msgs : ids[j] < top'
    BY <1>5, <1>6, <1>8
  <2>3. ASSUME NEW j \in Msgs, NEW l \in Msgs, ids'[j] = ids'[l], ids'[j] # 0 PROVE j = l
    <3>1. CASE j = k \/ l = k
      <4>1. \A x \in Msgs : x # k => ids'[x] # top'
        <5> TAKE x \in Msgs
        <5> HAVE x # k
        <5>1. ids'[x] = ids[x] /\ ids[x] \in 0..top
          BY <1>8, <1>9
        <5> QED
          BY <1>5, <1>6, <5>1
      <4> QED
        BY <1>9, <2>3, <3>1, <4>1
    <3>2. CASE j # k /\ l # k
      BY <1>8, <1>9, <2>3, <3>2
    <3> QED
      BY <3>1, <3>2
  <2>4. ASSUME NEW i \in DOMAIN entries, entries[i].key \in Msgs
        PROVE  entries[i].id = ids'[entries[i].key]
    <3>1. entries[i] \in Entry
      BY <1>3, ElementOfSeq, LenProperties DEF PlaceRight
    <3>2. entries[i].id # 0
      BY <3>1 DEF Entry
    <3>3. entries[i].key # k
      BY <1>5, <1>8, <2>4, <3>2
    <3> QED
      BY <1>8, <1>9, <2>4, <3>3
  <2>5. top' > IntMax => \E j \in Msgs : ids'[j] > IntMax
    BY <1>5, <1>9
  <2> QED
    BY <1>2, <1>9, <2>1, <2>3, <2>4, <2>5 DEF IdsRight
<1>11. Overwrites' = Overwrites /\ WritePos' = WritePos
  BY <1>2 DEF Overwrites, WritePos
<1>12. PlaceRight'
  BY <1>2, <1>3, <1>11 DEF PlaceRight
<1>13. TypeOK' /\ ids' \in [Msgs -> 0..UIntMax] /\ text' \in Seq(Lexeme)
  <2>1. ids' \in [Msgs -> 0..UIntMax] /\ ids' \in [Msgs -> Nat]
    BY <1>4, <1>6, <1>9
  <2>2. TypeOK'
    BY <1>2, <1>3, <2>1 DEF TypeOK, DocTypeOK
  <2> QED
    BY <1>2, <1>3, <2>1, <2>2
<1>14. PICK t, d, n, p, o, E, K, I, K2, I2, b :
          /\ t = Object(k, top') /\ d = (IF Len(out) = 1 THEN 0 ELSE 1) /\ n = Size /\ p = WritePos
          /\ o = out /\ E = entries /\ K = Msgs \ todo /\ I = ids /\ K2 = Msgs \ todo' /\ I2 = ids'
          /\ b = (top <= IntMax)
  OBVIOUS
<1>15. PICK h, F, m : TextIs(h, F, m)
  BY <1>3 DEF TextRight
<1>16. /\ m \in Nat /\ OldAndNew(F, E, K, I) /\ b \in BOOLEAN
       /\ top <= IntMax => \A j \in K : \E i \in 1..Len(F) : F[i].key = j
  BY <1>14, <1>15 DEF TextIs
<1>17. t \in Seq(OutLexeme) /\ Len(t) > 0 /\ t[1] = Mark("beginObject")
  BY <1>5, <1>6, <1>14, ObjectIs
<1>18. /\ out' \in Seq(OutLexeme) /\ Len(o) \in Nat /\ Len(t) \in Nat /\ d \in 0..1
       /\ Len(out') = Len(o) + d + Len(t) /\ Len(o) > 0
       /\ \A i \in 1..Len(o) : out'[i] = o[i]
       /\ Len(o) # 1 => out'[Len(o) + 1] = Mark("comma") /\ d = 1
       /\ Len(o) = 1 => d = 0
       /\ \A i \in 1..Len(t) : out'[Len(o) + d + i] = t[i]
  <2>1. o \in Seq(OutLexeme) /\ Len(o) > 0
    BY <1>3, <1>14 DEF OutRight
  <2>2. out' = o \o (IF Len(o) = 1 THEN << >> ELSE << Mark("comma") >>) \o t
    BY <1>1, <1>14
  <2>3. d = IF Len(o) = 1 THEN 0 ELSE 1
    BY <1>14
  <2>4. Grows(out', o, t, d)
    BY <1>17, <2>1, <2>2, <2>3, OutGrows
  <2> QED
    BY <2>1, <2>3, <2>4 DEF Grows
<1>19. Len(out') # 1 /\ OutRight'
  <2>1. Len(out') > 1
    BY <1>17, <1>18
  <2>2. out'[1] = Mark("beginArray")
    <3>1. 1 \in 1..Len(o) /\ o[1] = Mark("beginArray")
      BY <1>3, <1>14, <1>18 DEF OutRight
    <3> QED
      BY <1>18, <3>1
  <2>3. out'[2] = Mark("beginObject")
    <3>1. CASE Len(o) = 1
      <4>1. 1 \in 1..Len(t) /\ Len(o) + d + 1 = 2
        BY <1>17, <1>18, <3>1
      <4> QED
        BY <1>17, <1>18, <4>1
    <3>2. CASE Len(o) # 1
      <4>1. 2 \in 1..Len(o)
        <5>1. Len(o) \in Nat /\ Len(o) > 0
          BY <1>18
        <5> QED
          BY <3>2, <5>1
      <4>2. o[2] = Mark("beginObject")
        BY <1>3, <1>14, <3>2 DEF OutRight
      <4> QED
        BY <1>18, <4>1, <4>2
    <3> QED
      BY <3>1, <3>2
  <2> QED
    BY <1>18, <2>1, <2>2, <2>3 DEF OutRight
<1>20. TextRight'
  <2>1. PICK u, z, T, c : /\ u = Pending' /\ z = n + d /\ T = Len(t) /\ c = (b /\ top' <= IntMax)
    OBVIOUS
  <2>2. n \in Nat /\ p \in Nat /\ p < n /\ n = p + Len(o) /\ z \in Nat /\ T \in Nat /\ T > 0 /\ n <= z
    <3>1. n \in Nat /\ p \in Nat /\ p < n /\ n = p + Len(o)
      BY <1>3, <1>14, PendingIs DEF Size, PendingParts
    <3> QED
      BY <1>17, <1>18, <2>1, <3>1
  <2>3. Size' = z + T /\ WritePos' = p /\ Opener' = Opener
    <3>1. Size' = p + Len(out')
      BY <1>11, <1>14 DEF Size
    <3>2. Size' = p + (Len(o) + d + T)
      BY <1>18, <2>1, <3>1
    <3>3. n = p + Len(o) /\ z = n + d /\ p \in Nat /\ Len(o) \in Nat /\ d \in Nat /\ T \in Nat
      BY <1>18, <2>1, <2>2
    <3>4. Size' = z + T
      BY <3>2, <3>3
    <3> QED
      BY <1>11, <1>14, <3>4 DEF Opener
  <2>4. /\ \A i \in 1..p : u[i] = text[i]
        /\ u[p + 1] = Opener
        /\ \A i \in 2..Len(out') : u[p + i] = out'[i]
    <3>1. /\ \A i \in 1..WritePos' : Pending'[i] = text'[i]
          /\ Pending'[WritePos' + 1] = Opener'
          /\ \A i \in 2..Len(out') : Pending'[WritePos' + i] = out'[i]
      BY <1>12, <1>19, PendingNext DEF PendingParts
    <3> QED
      BY <1>2, <2>1, <2>3, <3>1
  <2>5. /\ \A i \in 1..p : Pending[i] = text[i]
        /\ Pending[p + 1] = Opener
        /\ \A i \in 2..Len(o) : Pending[p + i] = o[i]
    BY <1>3, <1>14, PendingIs DEF PendingParts
  <2>6. \A i \in 1..n : u[i] = Pending[i]
    <3> TAKE i \in 1..n
    <3>1. CASE i \in 1..p
      BY <2>4, <2>5, <3>1
    <3>2. CASE i = p + 1
      BY <2>4, <2>5, <3>2
    <3>3. CASE i > p + 1
      <4>1. i - p \in 2..Len(o) /\ i - p \in 1..Len(o) /\ i - p \in 2..Len(out') /\ p + (i - p) = i
        BY <1>18, <2>2, <3>3
      <4> QED
        BY <1>18, <2>4, <2>5, <4>1
    <3> QED
      BY <2>2, <3>1, <3>2, <3>3
  <2>7. Len(o) # 1 => u[n + 1] = Mark("comma")
    <3> SUFFICES ASSUME Len(o) # 1 PROVE u[n + 1] = Mark("comma")
      OBVIOUS
    <3>1. Len(o) + 1 \in 2..Len(out') /\ p + (Len(o) + 1) = n + 1
      BY <1>18, <2>2
    <3> QED
      BY <1>18, <2>4, <3>1
  <2>8. \A i \in 1..T : u[z + i] = t[i]
    <3> TAKE i \in 1..T
    <3>1. Len(o) + d + i \in 2..Len(out') /\ p + (Len(o) + d + i) = z + i
      BY <1>18, <2>1, <2>2
    <3> QED
      BY <1>18, <2>1, <2>4, <3>1
  <2>9. PICK h1, mark : /\ mark # "item" /\ Trace(h1, Start, u, z)
                        /\ h1[z] = Ready(F, m, top <= IntMax, mark)
                        /\ \A i \in 0..z : Part(h1[i].entries, F)
                        /\ \A i \in WritePos..z : Shut(h1[i], entries, Msgs \ todo, ids)
    <3>1. z = Size + (IF Len(out) = 1 THEN 0 ELSE 1)
      BY <1>14, <2>1
    <3>2. Continues(u)
      BY <1>14, <2>6, <2>7 DEF Continues
    <3>3. PlaceRight /\ OutRight
      BY <1>3
    <3> QED
      BY <1>15, <3>1, <3>2, <3>3, ReadyToWrite
  <2>10. PICK m2, g : /\ m2 \in Nat
                      /\ Trace(g, Ready(F, m, b, mark), t, T)
                      /\ \A i \in 1..(T - 1) : Within(g[i], F)
                      /\ g[T] = Ready(Grown(F, k, top', m2, c), m2, c, "item")
    <3>1. PICK id \in 1..UIntMax : id = top'
      BY <1>6
    <3>2. /\ m \in Nat /\ b \in BOOLEAN /\ k \in Key /\ mark # "item"
          /\ c \in BOOLEAN /\ (c <=> b /\ id <= IntMax)
      BY <1>5, <1>16, <2>1, <2>9, <3>1
    <3>3. PICK m3, g3 :
             m3 \in Nat /\ Passes(g3, Ready(F, m, b, mark), Object(k, id), F, Ready(Grown(F, k, id, m3, c), m3, c, "item"))
      BY <3>2, ObjectTrace
    <3> QED
      BY <1>14, <2>1, <3>1, <3>3 DEF Passes
  <2>11. PICK f : Trace(f, Start, u, z + T) /\ Followed(f, h1, z, g, T)
    <3>1. Joined(u, u, z, t, T)
      BY <2>8 DEF Joined
    <3>2. h1[z] = Ready(F, m, b, mark)
      BY <1>14, <2>9
    <3> QED
      BY <2>2, <2>9, <2>10, <3>1, <3>2, TraceJoin
  <2>12. (\A i \in 0..z : f[i] = h1[i]) /\ (\A i \in 0..T : f[z + i] = g[i])
    BY <2>11 DEF Followed
  <2>13. PICK q, G : q = z + T /\ G = Grown(F, k, I2[k], m2, c)
    OBVIOUS
  <2>14. /\ I2[k] = top' /\ c \in BOOLEAN /\ (c <=> top' <= IntMax) /\ E \in Seq(Entry)
         /\ Extends(K, I, K2, I2) /\ k \in K2 /\ k \notin K /\ K2 = K \cup {k}
    <3>1. top' <= IntMax => top <= IntMax
      BY <1>4, <1>5, <1>6
    <3>2. K2 = K \cup {k} /\ k \notin K
      BY <1>1, <1>5, <1>14
    <3>3. \A j \in K : j \in Msgs /\ j # k
      BY <1>14, <3>2
    <3>4. E \in Seq(Entry)
      BY <1>3, <1>14 DEF PlaceRight
    <3>5. c \in BOOLEAN /\ (c <=> top' <= IntMax)
      BY <1>14, <1>16, <2>1, <3>1
    <3>6. Extends(K, I, K2, I2)
      BY <1>9, <1>14, <3>2, <3>3 DEF Extends
    <3> QED
      BY <1>9, <1>14, <3>2, <3>4, <3>5, <3>6
  <2>15. OldAndNew(G, E, K2, I2) /\ Part(F, G) /\ (c => HasKey(G, k))
    <3>1. c => I2[k] \in 1..IntMax
      BY <1>4, <1>6, <2>14
    <3>2. k \in Key /\ m2 \in Nat /\ c \in BOOLEAN
      BY <1>5, <2>10, <2>14
    <3>3. OldAndNew(F, E, K, I) /\ E \in Seq(Entry) /\ Extends(K, I, K2, I2) /\ k \in K2 /\ k \notin K
      BY <1>16, <2>14
    <3> QED
      BY <2>13, <3>1, <3>2, <3>3, OldAndNewGrown
  <2>16. f[q] = Ready(G, m2, top' <= IntMax, NextMark') /\ f[q].entries = G /\ f[q].ctx = << "array" >>
    <3>1. f[q] = Ready(G, m2, c, "item")
      <4>1. T \in 0..T
        BY <2>2
      <4> QED
        BY <2>10, <2>12, <2>13, <2>14, <4>1
    <3>2. c = (top' <= IntMax)
      BY <2>14
    <3>3. NextMark' = "item"
      BY <1>19 DEF NextMark
    <3> QED
      BY <3>1, <3>2, <3>3 DEF Ready
  <2>17. ASSUME NEW i \in 0..q
         PROVE  i \in 0..z \/ i = q \/ Within(f[i], F)
    <3>1. CASE ~ (i \in 0..z) /\ i # q
      <4>1. i - z \in 1..(T - 1) /\ i - z \in 0..T /\ z + (i - z) = i
        BY <2>2, <2>13, <3>1
      <4> QED
        BY <2>10, <2>12, <4>1
    <3> QED
      BY <3>1
  <2>18. \A i \in 0..q : Part(f[i].entries, G)
    <3> TAKE i \in 0..q
    <3>1. CASE i \in 0..z
      BY <2>9, <2>12, <2>15, <3>1, PartJoin
    <3>2. CASE i = q
      <4>1. G \in Seq(Entry)
        BY <2>15 DEF OldAndNew
      <4> QED
        BY <2>16, <3>2, <4>1, PartSame
    <3>3. CASE Within(f[i], F)
      BY <2>15, <3>3 DEF Within
    <3> QED
      BY <2>17, <3>1, <3>2, <3>3
  <2>19. \A i \in p..q : Shut(f[i], E, K2, I2)
    <3> TAKE i \in p..q
    <3>1. CASE i \in 0..z
      <4>1. i \in WritePos..z
        BY <1>14, <2>2, <3>1
      <4>2. Shut(h1[i], E, K, I) /\ f[i] = h1[i]
        BY <1>14, <2>9, <2>12, <3>1, <4>1
      <4> QED
        BY <2>14, <4>2, OldAndNewMore DEF Shut
    <3>2. CASE i = q
      BY <2>15, <2>16, <3>2 DEF Shut, Shape
    <3>3. CASE Within(f[i], F)
      <4>1. OldAndNew(F, E, K2, I2)
        BY <1>16, <2>14, OldAndNewMore
      <4> QED
        BY <3>3, <4>1 DEF Within, Shut, Shape
    <3>4. i \in 0..q
      BY <2>2, <2>13
    <3> QED
      BY <2>17, <3>1, <3>2, <3>3, <3>4
  <2>20. top' <= IntMax => \A j \in K2 : \E i \in 1..Len(G) : G[i].key = j
    <3> SUFFICES ASSUME top' <= IntMax, NEW j \in K2 PROVE \E i \in 1..Len(G) : G[i].key = j
      OBVIOUS
    <3>1. CASE j = k
      BY <2>14, <2>15, <3>1 DEF HasKey
    <3>2. CASE j \in K
      <4>0. top <= IntMax
        BY <1>4, <1>5, <1>6
      <4>1. PICK i \in 1..Len(F) : F[i].key = j
        BY <1>16, <3>2, <4>0
      <4>2. i \in 1..Len(G) /\ G[i] = F[i]
        BY <2>15, <4>1 DEF Part
      <4> QED
        BY <4>1, <4>2
    <3> QED
      BY <2>14, <3>1, <3>2
  <2>21. TextIs(f, G, m2)'
    <3>1. Size' = q /\ Pending' = u /\ WritePos' = p /\ entries' = E /\ Msgs \ todo' = K2 /\ ids' = I2
      BY <1>2, <1>14, <2>1, <2>3, <2>13
    <3>2. Trace(f, Start, Pending', Size')
      BY <2>11, <2>13, <3>1
    <3>3. \A i \in WritePos'..Size' : Shut(f[i], entries', Msgs \ todo', ids')
      BY <2>19, <3>1
    <3>4. OldAndNew(G, entries', Msgs \ todo', ids')
      BY <2>15, <3>1
    <3>5. top' <= IntMax => \A j \in Msgs \ todo' : \E i \in 1..Len(G) : G[i].key = j
      BY <2>20, <3>1
    <3>6. f[Size'] = Ready(G, m2, top' <= IntMax, NextMark') /\ \A i \in 0..Size' : Part(f[i].entries, G)
      BY <2>16, <2>18, <3>1
    <3> QED
      BY <2>10, <3>2, <3>3, <3>4, <3>5, <3>6 DEF TextIs
  <2> QED
    BY <2>21 DEF TextRight
<1> QED
  BY <1>7, <1>10, <1>12, <1>13, <1>19, <1>20 DEF WritingInv

-----------------------------------------------------------------------------
(* The new text, and the file when it has been written.                     *)

NewTextParts ==
    /\ NewText \in Seq(OutLexeme) /\ Len(out) \in Nat /\ Len(out) > 1
    /\ Len(NewText) = Len(out) + 1
    /\ NewText[1] = Opener
    /\ \A i \in 2..Len(out) : NewText[i] = out[i]
    /\ NewText[Len(out) + 1] = Mark("endArray")

LEMMA NewTextIs ==
    ASSUME OutRight, Len(out) # 1
    PROVE  NewTextParts
<1> DEFINE e == << Mark("endArray") >>
           J == Json
<1>1. PICK o, n : o = out /\ n = Len(out)
  OBVIOUS
<1>2. o \in Seq(OutLexeme) /\ n \in Nat /\ n > 1 /\ o[1] = Mark("beginArray") /\ o[2] = Mark("beginObject")
      /\ n = Len(o)
  <2>1. out \in Seq(OutLexeme) /\ Len(out) > 0 /\ Len(out) \in Nat
    BY LenProperties DEF OutRight
  <2>2. Len(out) > 1
    <3>1. n \in Nat /\ n > 0 /\ n # 1
      BY <1>1, <2>1
    <3>2. n > 1
      BY <3>1
    <3> QED
      BY <1>1, <3>2
  <2> QED
    BY <1>1, <2>1, <2>2 DEF OutRight
<1>3. e \in Seq(OutLexeme)
  <2>1. Mark("endArray") \in OutLexeme
    BY OutIs DEF Marks
  <2> QED
    BY <2>1
<1>4. Len(e) = 1 /\ e[1] = Mark("endArray")
  OBVIOUS
<1>5. J = o \o e
  BY <1>1 DEF Json
<1> HIDE DEF e, J
<1>6. /\ J \in Seq(OutLexeme) /\ Len(J) = Len(o) + Len(e)
      /\ \A i \in 1..Len(o) : J[i] = o[i]
      /\ \A i \in 1..Len(e) : J[Len(o) + i] = e[i]
  BY <1>2, <1>3, <1>5, JoinIs
<1>7. /\ J \in Seq(OutLexeme) /\ Len(J) = n + 1 /\ J[n + 1] = Mark("endArray")
      /\ \A i \in 1..n : J[i] = o[i]
  BY <1>2, <1>4, <1>6
<1>8. CASE Overwrites
  <2>1. NewText = J /\ Opener = Mark("beginArray")
    BY <1>8 DEF NewText, J, Opener
  <2>2. J[1] = Mark("beginArray") /\ \A i \in 2..n : J[i] = o[i]
    BY <1>2, <1>7
  <2> QED
    BY <1>1, <1>2, <1>7, <2>1, <2>2 DEF NewTextParts
<1>9. CASE ~Overwrites
  <2> DEFINE I == {i \in 1..Len(J) : J[i].lex = "beginObject"}
             u == SubSeq(J, 2, Len(J))
             c == << Mark("comma") >>
  <2>1. 2 \in 1..Len(J) /\ J[2].lex = "beginObject" /\ J[1].lex = "beginArray"
    <3>1. 1 \in 1..n /\ 2 \in 1..n /\ 2 \in 1..(n + 1)
      BY <1>2
    <3>2. J[1] = Mark("beginArray") /\ J[2] = Mark("beginObject")
      BY <1>2, <1>7, <3>1
    <3> QED
      BY <1>7, <3>1, <3>2, OutIs DEF Marks
  <2>2. 2 \in I /\ \A i \in I : 2 <= i
    BY <1>2, <1>7, <2>1
  <2>3. SelectInSeq(J, LAMBDA l : l.lex = "beginObject") = 2
    <3>1. SelectInSeq(J, LAMBDA l : l.lex = "beginObject") = IF I # {} THEN Min(I) ELSE 0
      BY DEF SelectInSeq
    <3>2. I \in SUBSET Nat
      OBVIOUS
    <3> HIDE DEF I
    <3>3. Min(I) = 2
      <4>1. \A x \in I : (\A y \in I : x <= y) => x = 2
        BY <2>2, <3>2
      <4>2. Min(I) \in I /\ \A y \in I : Min(I) <= y
        BY <2>2 DEF Min
      <4> QED
        BY <4>1, <4>2
    <3> QED
      BY <2>2, <3>1, <3>3
  <2>4. NewText = c \o u /\ Opener = Mark("comma")
    BY <1>9, <2>3 DEF NewText, Appended, J, Opener
  <2> HIDE DEF I
  <2>5. u \in Seq(OutLexeme) /\ Len(u) = n /\ \A i \in 1..n : u[i] = J[i + 1]
    <3>1. 2 \in Int /\ Len(J) \in Int /\ 2 <= Len(J) /\ (Len(J) - 2) + 1 = n /\ \A i \in 1..n : (2 + i) - 1 = i + 1
      BY <1>2, <1>7
    <3>2. \A i \in 2..Len(J) : J[i] \in OutLexeme
      <4> TAKE i \in 2..Len(J)
      <4>1. i \in 1..Len(J)
        BY <3>1
      <4> QED
        BY <1>7, <4>1, ElementOfSeq
    <3> QED
      BY <3>1, <3>2, SubSeqProperties
  <2>6. u \in Seq(OutLexeme)
    BY <2>5
  <2>7. c \in Seq(OutLexeme)
    <3>1. Mark("comma") \in OutLexeme
      BY OutIs DEF Marks
    <3> QED
      BY <3>1
  <2>8. Len(c) = 1 /\ c[1] = Mark("comma")
    OBVIOUS
  <2> HIDE DEF u, c
  <2> DEFINE w == c \o u
  <2>9. /\ w \in Seq(OutLexeme) /\ Len(w) = Len(c) + Len(u)
        /\ \A i \in 1..Len(c) : w[i] = c[i]
        /\ \A i \in 1..Len(u) : w[Len(c) + i] = u[i]
    BY <2>6, <2>7, JoinIs
  <2>10. w = NewText
    BY <2>4
  <2> HIDE DEF w
  <2>11. Len(w) = n + 1 /\ w[1] = Mark("comma") /\ \A i \in 1..n : w[1 + i] = J[i + 1]
    BY <1>2, <2>5, <2>8, <2>9
  <2>12. \A i \in 2..n : w[i] = o[i]
    <3> TAKE i \in 2..n
    <3>1. i - 1 \in 1..n /\ 1 + (i - 1) = i /\ (i - 1) + 1 = i /\ i \in 1..n
      BY <1>2
    <3> QED
      BY <1>7, <2>11, <3>1
  <2>13. w[n + 1] = Mark("endArray")
    <3>1. n \in 1..n /\ 1 + n = n + 1
      BY <1>2
    <3> QED
      BY <1>7, <2>11, <3>1
  <2> QED
    BY <1>1, <1>2, <2>4, <2>9, <2>10, <2>11, <2>12, <2>13 DEF NewTextParts
<1> QED
  BY <1>8, <1>9

\* The first p elements, and what is behind them.
LEMMA FrontIs ==
    ASSUME NEW S, NEW t \in Seq(S), NEW p \in 0..Len(t)
    PROVE  /\ SubSeq(t, 1, p) \in Seq(S) /\ Len(SubSeq(t, 1, p)) = p
           /\ \A i \in 1..p : SubSeq(t, 1, p)[i] = t[i]
<1>1. Len(t) \in Nat
  BY LenProperties
<1>2. 1 \in Int /\ p \in Int /\ (IF 1 <= p THEN (p - 1) + 1 ELSE 0) = p /\ (p - 1) + 1 = p
  BY <1>1
<1>3. \A i \in 1..p : t[i] \in S /\ (1 + i) - 1 = i
  <2> TAKE i \in 1..p
  <2>1. i \in 1..Len(t) /\ (1 + i) - 1 = i
    BY <1>1
  <2> QED
    BY <2>1, ElementOfSeq
<1> QED
  BY <1>2, <1>3, SubSeqProperties

LEMMA BackIs ==
    ASSUME NEW S, NEW t \in Seq(S), NEW p \in 0..Len(t)
    PROVE  /\ SubSeq(t, p + 1, Len(t)) \in Seq(S) /\ Len(SubSeq(t, p + 1, Len(t))) = Len(t) - p
           /\ \A i \in 1..(Len(t) - p) : SubSeq(t, p + 1, Len(t))[i] = t[p + i]
<1>1. Len(t) \in Nat
  BY LenProperties
<1>2. PICK n : n = Len(t)
  OBVIOUS
<1>3. /\ p + 1 \in Int /\ n \in Int /\ (n - (p + 1)) + 1 = n - p
      /\ (IF p + 1 <= n THEN (n - (p + 1)) + 1 ELSE 0) = n - p
  BY <1>1, <1>2
<1>4. \A i \in (p + 1)..n : t[i] \in S
  <2> TAKE i \in (p + 1)..n
  <2>1. i \in 1..Len(t)
    BY <1>1, <1>2
  <2> QED
    BY <2>1, ElementOfSeq
<1>5. \A i \in 1..(n - p) : ((p + 1) + i) - 1 = p + i
  BY <1>1, <1>2
<1> DEFINE u == SubSeq(t, p + 1, n)
<1>6. /\ u \in Seq(S) /\ Len(u) = IF p + 1 <= n THEN (n - (p + 1)) + 1 ELSE 0
      /\ \A i \in 1..((n - (p + 1)) + 1) : u[i] = t[((p + 1) + i) - 1]
  BY <1>3, <1>4, SubSeqProperties
<1> HIDE DEF u
<1>7. u \in Seq(S) /\ Len(u) = n - p /\ \A i \in 1..(n - p) : u[i] = t[p + i]
  BY <1>3, <1>5, <1>6
<1> QED
  BY <1>2, <1>7 DEF u

\* A document is never broken where it has a trace, and once it is no message file,
\* it never is again.
LEMMA AfterValid ==
    ASSUME NEW s, NEW l, After(s, l).valid
    PROVE  s.valid
<1>1. CASE l.lex = "remark"
  BY <1>1 DEF After
<1>2. CASE l.lex = "comma"
  BY <1>2 DEF After, AfterComma
<1>3. CASE l.lex = "name"
  BY <1>3 DEF After, AfterName
<1>4. CASE l.lex = "value"
  BY <1>4 DEF After, AfterScalar
<1>5. CASE l.lex = "beginObject"
  BY <1>5 DEF After, AfterBegin
<1>6. CASE l.lex = "beginArray"
  BY <1>6 DEF After, AfterBegin
<1>7. CASE l.lex \notin {"remark", "comma", "name", "value", "beginObject", "beginArray"}
  <2>1. After(s, l) = IF Len(s.ctx) = 2 THEN AfterObject(s) ELSE AfterInner(s)
    BY <1>7 DEF After
  <2>2. AfterObject(s).valid = (s.valid /\ Whole(s)) /\ AfterInner(s).valid = s.valid
    BY DEF AfterObject, AfterInner
  <2> QED
    BY <2>1, <2>2
<1> QED
  BY <1>1, <1>2, <1>3, <1>4, <1>5, <1>6, <1>7

LEMMA AfterPlace ==
    ASSUME NEW s, NEW l, s.place # "broken"
    PROVE  After(s, l).place # "broken"
<1>1. CASE l.lex = "remark"
  BY <1>1 DEF After
<1>2. CASE l.lex = "comma"
  BY <1>2 DEF After, AfterComma
<1>3. CASE l.lex = "name"
  BY <1>3 DEF After, AfterName
<1>4. CASE l.lex = "value"
  BY <1>4 DEF After, AfterScalar
<1>5. CASE l.lex = "beginObject"
  BY <1>5 DEF After, AfterBegin
<1>6. CASE l.lex = "beginArray"
  BY <1>6 DEF After, AfterBegin
<1>7. CASE l.lex \notin {"remark", "comma", "name", "value", "beginObject", "beginArray"}
  <2>1. After(s, l) = IF Len(s.ctx) = 2 THEN AfterObject(s) ELSE AfterInner(s)
    BY <1>7 DEF After
  <2> QED
    BY <2>1 DEF AfterObject, AfterInner
<1> QED
  BY <1>1, <1>2, <1>3, <1>4, <1>5, <1>6, <1>7

LEMMA TraceValid ==
    ASSUME NEW h, NEW s, NEW t, NEW n \in Nat, Trace(h, s, t, n), h[n].valid, NEW i \in 0..n
    PROVE  h[i].valid
<1> SUFFICES ASSUME ~ h[i].valid PROVE FALSE
  OBVIOUS
<1> DEFINE T == {j \in i..n : h[j].valid}
<1>1. T \in SUBSET Nat /\ n \in T
  OBVIOUS
<1>2. PICK j \in T : \A m \in T : j <= m
  <2> HIDE DEF T
  <2> QED
    BY <1>1, FirstOf
<1>3. j \in i..n /\ h[j].valid /\ j # i
  OBVIOUS
<1>4. j \in 1..n /\ j - 1 \in i..n /\ ~ (j <= j - 1)
  BY <1>3
<1>5. ~ h[j - 1].valid
  BY <1>2, <1>4
<1>6. h[j] = After(h[j - 1], t[j])
  BY <1>4 DEF Trace
<1> QED
  BY <1>3, <1>5, <1>6, AfterValid

LEMMA TracePlace ==
    ASSUME NEW h, NEW t, NEW n \in Nat, Trace(h, Start, t, n), NEW i \in 0..n
    PROVE  h[i].place # "broken"
<1> DEFINE T == {j \in 0..n : h[j].place = "broken"}
<1> SUFFICES ASSUME i \in T PROVE FALSE
  OBVIOUS
<1>1. T \in SUBSET Nat
  OBVIOUS
<1>2. PICK j \in T : \A m \in T : j <= m
  <2> HIDE DEF T
  <2> QED
    BY <1>1, FirstOf
<1>3. j \in 0..n /\ h[j].place = "broken"
  OBVIOUS
<1>7. j # 0
  BY <1>3 DEF Trace, Start
<1>4. j \in 1..n /\ j - 1 \in 0..n /\ ~ (j <= j - 1)
  BY <1>3, <1>7
<1>5. h[j - 1].place # "broken"
  BY <1>2, <1>4
<1>6. h[j] = After(h[j - 1], t[j])
  BY <1>4 DEF Trace
<1> QED
  BY <1>3, <1>5, <1>6, AfterPlace

LEMMA ClosingArray ==
    ASSUME NEW F, NEW m, NEW b
    PROVE  LET s == Ready(F, m, b, "item")
               l == Mark("endArray")
           IN  /\ Fitting(s, l) /\ After(s, l).ctx = << >> /\ After(s, l).place = "end"
               /\ After(s, l).valid = b /\ After(s, l).entries = F
<1> DEFINE s == Ready(F, m, b, "item")
           l == Mark("endArray")
<1>1. /\ s.ctx = << "array" >> /\ Len(s.ctx) = 1
      /\ s.name = NoName /\ s.place = "inside"
      /\ s.valid = b /\ s.entries = F /\ s.sep = "item" /\ In(s, "array")
  BY ReadyIs
<1>2. l.lex = "endArray"
  BY OutIs DEF Marks
<1> HIDE DEF s, l
<1>3. Fitting(s, l)
  BY <1>1, <1>2 DEF Fitting
<1>4. After(s, l) = AfterInner(s)
  BY <1>1, <1>2 DEF After
<1>5. SubSeq(s.ctx, 1, Len(s.ctx) - 1) = << >>
  <2>1. Len(s.ctx) - 1 \in Int /\ 1 \in Int /\ Len(s.ctx) - 1 < 1
    BY <1>1
  <2> QED
    BY <2>1, SubSeqEmpty
<1> QED
  BY <1>1, <1>3, <1>4, <1>5 DEF AfterInner, s, l

-----------------------------------------------------------------------------
(* The next compilation reads the new file.                                 *)

\* What the first compilation has left: every message has an ID of its own, and the
\* messages of the old file keep theirs.
FirstRight ==
    /\ first.entries \in Seq(Entry) /\ first.ids \in [Msgs -> 1..UIntMax]
    /\ \A k, j \in Msgs : first.ids[k] = first.ids[j] => k = j
    /\ \A i \in 1..Len(first.entries) :
          first.entries[i].key \in Msgs => first.entries[i].id = first.ids[first.entries[i].key]

AllFit == \A k \in Msgs : first.ids[k] <= IntMax

\* The trace h of the whole file, and its messages F.
AgainIs(h, F) ==
    /\ Trace(h, Start, text, Len(text))
    /\ h[Len(text)].place = "end" /\ h[Len(text)].entries = F /\ (h[Len(text)].valid <=> AllFit)
    /\ \A i \in 0..Len(text) : Part(h[i].entries, F)
    /\ OldAndNew(F, first.entries, Msgs, first.ids)
    /\ AllFit => \A k \in Msgs : HasKey(F, k)

AgainInv ==
    /\ FirstRight
    /\ \E h, F : AgainIs(h, F) /\ (status # "thrown" => Doc = h[cursor])
    /\ AllFit => status # "thrown"

\* A reader starts again.
LEMMA Anew ==
    ASSUME ReadAnew, TypeOK
    PROVE  /\ Init' /\ Doc' = Start /\ cursor' = 0 /\ sep' = "start" /\ status' = "parsing"
           /\ first' = [entries |-> entries, ids |-> ids]
<1>1. Doc' = Start
  BY DEF ReadAnew, Doc, Start
<1>2. Init'
  BY DEF ReadAnew, Init, DocInit
<1> QED
  BY <1>1, <1>2 DEF ReadAnew

\* What the writer leaves behind.
LEMMA FirstIs ==
    ASSUME WritingInv, todo = {}, first' = [entries |-> entries, ids |-> ids]
    PROVE  /\ FirstRight' /\ (AllFit' <=> top <= IntMax) /\ first'.entries = entries /\ first'.ids = ids
           /\ Len(out) # 1
<1>1. PICK E, I : E = entries /\ I = ids
  OBVIOUS
<1>2. first'.entries = E /\ first'.ids = I
  BY <1>1
<1>3. IdsRight /\ I \in [Msgs -> 0..UIntMax] /\ PlaceRight /\ OutRight /\ top \in Nat
  BY <1>1 DEF WritingInv, TodoRight
<1>4. /\ I \in [Msgs -> 0..top] /\ (\A k \in Msgs : I[k] # 0)
      /\ \A k, j \in Msgs : I[k] = I[j] => k = j
      /\ \A i \in DOMAIN E : E[i].key \in Msgs => E[i].id = I[E[i].key]
      /\ top > IntMax => \E k \in Msgs : I[k] > IntMax
  BY <1>1, <1>3 DEF IdsRight
<1>5. E \in Seq(Entry) /\ DOMAIN E = 1..Len(E)
  BY <1>1, <1>3, LenProperties DEF PlaceRight
<1>6. IntMax \in Nat /\ UIntMax \in Nat
  BY IntsAssumption DEF UIntMax
<1>7. I \in [Msgs -> 1..UIntMax]
  <2>1. \A k \in Msgs : I[k] \in 1..UIntMax
    BY <1>3, <1>4, <1>6
  <2> QED
    BY <1>3, <2>1
<1>8. (\A k \in Msgs : I[k] <= IntMax) <=> top <= IntMax
  <2>1. \A k \in Msgs : I[k] \in 0..top
    BY <1>4
  <2>2. ASSUME top <= IntMax, NEW k \in Msgs PROVE I[k] <= IntMax
    BY <1>3, <1>6, <2>1, <2>2
  <2>3. ASSUME ~ (top <= IntMax) PROVE \E k \in Msgs : ~ (I[k] <= IntMax)
    <3>1. top > IntMax
      BY <1>3, <1>6, <2>3
    <3>2. PICK k \in Msgs : I[k] > IntMax
      BY <1>4, <3>1
    <3>3. ~ (I[k] <= IntMax)
      BY <1>3, <1>6, <2>1, <3>2
    <3> QED
      BY <3>3
  <2> QED
    BY <2>2, <2>3
<1>9. AllFit' <=> top <= IntMax
  BY <1>2, <1>8 DEF AllFit
<1>10. FirstRight'
  BY <1>2, <1>4, <1>5, <1>7 DEF FirstRight
<1>11. Len(out) # 1
  BY <1>3 DEF OutRight
<1> QED
  BY <1>1, <1>2, <1>9, <1>10, <1>11

\* The file is written.
LEMMA WriteFileStep ==
    ASSUME WritingInv, WriteFile
    PROVE  AgainInv' /\ Init' /\ TextTypes'
<1>1. /\ todo = {} /\ text' = SubSeq(text, 1, WritePos) \o NewText /\ ReadAnew
  BY DEF WriteFile
<1>2. /\ TypeOK /\ text \in Seq(Lexeme) /\ PlaceRight /\ OutRight /\ TextRight
  BY DEF WritingInv
<1>3. /\ Init' /\ Doc' = Start /\ cursor' = 0 /\ sep' = "start" /\ status' = "parsing"
      /\ first' = [entries |-> entries, ids |-> ids]
  BY <1>1, <1>2, Anew
<1>4. /\ FirstRight' /\ (AllFit' <=> top <= IntMax) /\ first'.entries = entries /\ first'.ids = ids
      /\ Len(out) # 1
  BY <1>1, <1>3, FirstIs
<1>5. NewTextParts /\ PendingParts
  BY <1>2, <1>4, NewTextIs, PendingIs
<1>6. PICK p, n, o, w, y, b, a : /\ p = WritePos /\ n = Size /\ o = Len(out) /\ w = text'
                                 /\ y = NewText /\ b = (top <= IntMax) /\ a = SubSeq(text, 1, p)
  OBVIOUS
<1>7. /\ a \in Seq(Lexeme) /\ Len(a) = p /\ \A i \in 1..p : a[i] = text[i]
  BY <1>2, <1>6, FrontIs DEF PlaceRight
<1>8. a \in Seq(Lexeme) /\ y \in Seq(Lexeme)
  <2>1. y \in Seq(OutLexeme)
    BY <1>5, <1>6 DEF NewTextParts
  <2> QED
    BY <1>7, <2>1, OutIs
<1>9. /\ w \in Seq(Lexeme) /\ Len(w) = Len(a) + Len(y)
      /\ \A i \in 1..Len(a) : w[i] = a[i]
      /\ \A i \in 1..Len(y) : w[Len(a) + i] = y[i]
  <2>1. w = a \o y
    BY <1>1, <1>6
  <2> QED
    BY <1>8, <2>1, JoinIs
<1>10. p \in Nat /\ n \in Nat /\ o \in Nat /\ n = p + o /\ Len(y) = o + 1 /\ o > 1
  BY <1>5, <1>6 DEF NewTextParts, PendingParts, Size
<1>11. \A i \in 1..n : w[i] = Pending[i]
  <2> TAKE i \in 1..n
  <2>1. CASE i \in 1..p
    BY <1>5, <1>6, <1>7, <1>9, <2>1 DEF PendingParts
  <2>2. CASE i = p + 1
    <3>1. w[p + 1] = y[1]
      BY <1>7, <1>9, <1>10
    <3> QED
      BY <1>5, <1>6, <2>2, <3>1 DEF PendingParts, NewTextParts
  <2>3. CASE i > p + 1
    <3>1. i - p \in 2..o /\ i - p \in 1..Len(y) /\ p + (i - p) = i
      BY <1>10, <2>3
    <3>2. w[i] = y[i - p]
      BY <1>7, <1>9, <3>1
    <3> QED
      BY <1>5, <1>6, <3>1, <3>2 DEF PendingParts, NewTextParts
  <2> QED
    BY <1>10, <2>1, <2>2, <2>3
<1>12. Len(w) = n + 1 /\ w[n + 1] = Mark("endArray")
  <2>1. Len(w) = n + 1 /\ p + (o + 1) = n + 1 /\ o + 1 \in 1..Len(y)
    BY <1>7, <1>9, <1>10
  <2>2. w[n + 1] = y[o + 1]
    BY <1>7, <1>9, <2>1
  <2> QED
    BY <1>5, <1>6, <2>1, <2>2 DEF NewTextParts
<1>13. PICK h, F, m : TextIs(h, F, m)
  BY <1>2 DEF TextRight
<1>14. /\ Trace(h, Start, Pending, n) /\ h[n] = Ready(F, m, b, "item")
       /\ \A i \in 0..n : Part(h[i].entries, F)
       /\ OldAndNew(F, entries, Msgs, ids)
       /\ b => \A k \in Msgs : HasKey(F, k)
  <2>1. Msgs \ todo = Msgs /\ NextMark = "item"
    BY <1>1, <1>4 DEF NextMark
  <2> QED
    BY <1>6, <1>13, <2>1 DEF TextIs, HasKey
<1>15. PICK f : /\ Trace(f, Start, w, n + 1)
                /\ \A i \in 0..n : f[i] = h[i]
                /\ f[n + 1] = After(h[n], w[n + 1])
  <2>1. n <= n
    BY <1>10
  <2>2. Trace(h, Start, w, n)
    BY <1>10, <1>11, <1>14, <2>1, TraceOther
  <2>3. Fitting(h[n], w[n + 1])
    BY <1>12, <1>14, ClosingArray
  <2> QED
    BY <1>10, <2>2, <2>3, TraceOne
<1>16. f[n + 1].place = "end" /\ f[n + 1].valid = b /\ f[n + 1].entries = F
  BY <1>12, <1>14, <1>15, ClosingArray
<1>17. \A i \in 0..(n + 1) : Part(f[i].entries, F)
  <2> TAKE i \in 0..(n + 1)
  <2>1. CASE i \in 0..n
    BY <1>14, <1>15, <2>1
  <2>2. CASE i = n + 1
    <3>1. F \in Seq(Entry)
      BY <1>14 DEF OldAndNew
    <3> QED
      BY <1>16, <2>2, <3>1, PartSame
  <2> QED
    BY <1>10, <2>1, <2>2
<1>18. AgainIs(f, F)'
  <2>1. Len(text') = n + 1 /\ text' = w
    BY <1>6, <1>12
  <2>2. (f[n + 1].valid <=> AllFit') /\ (AllFit' => b)
    BY <1>4, <1>6, <1>16
  <2> QED
    BY <1>4, <1>14, <1>15, <1>16, <1>17, <2>1, <2>2 DEF AgainIs
<1>19. Doc' = f[cursor']
  BY <1>3, <1>15 DEF Trace
<1>20. AgainInv'
  BY <1>3, <1>4, <1>18, <1>19 DEF AgainInv
<1>21. TextTypes'
  BY <1>3, <1>6, <1>9, <1>10, <1>12 DEF TextTypes
<1> QED
  BY <1>3, <1>20, <1>21

\* The IDs in the new file are the ones that were compiled in.
LEMMA KeysFit ==
    ASSUME FirstRight, NEW F, OldAndNew(F, first.entries, Msgs, first.ids),
           NEW i \in 1..Len(F), F[i].key \in Msgs
    PROVE  F[i].id = first.ids[F[i].key]
<1>1. PICK E, I : E = first.entries /\ I = first.ids
  OBVIOUS
<1>2. OldAndNew(F, E, Msgs, I)
  BY <1>1
<1>3. CASE i \in 1..Len(E)
  <2>1. F[i] = E[i]
    BY <1>2, <1>3 DEF OldAndNew, Part
  <2>2. E[i].key \in Msgs => E[i].id = I[E[i].key]
    BY <1>1, <1>3 DEF FirstRight
  <2> QED
    BY <1>1, <2>1, <2>2
<1>4. CASE ~ (i \in 1..Len(E))
  <2>1. Len(E) \in Nat /\ Len(F) \in Nat
    BY <1>2 DEF OldAndNew, Part
  <2>2. i \in (Len(E) + 1)..Len(F)
    BY <1>4, <2>1
  <2> QED
    BY <1>1, <1>2, <2>2 DEF OldAndNew
<1> QED
  BY <1>3, <1>4

\* The reader does not throw if the IDs fit.
LEMMA NoThrow ==
    ASSUME FirstRight, AllFit, NEW h, NEW F, AgainIs(h, F), NEW c \in 0..Len(text), text \in Seq(Lexeme),
           Doc' = h[c], ReaderInv'
    PROVE  status' # "thrown"
<1>1. /\ Trace(h, Start, text, Len(text)) /\ h[Len(text)].valid
      /\ Part(h[c].entries, F) /\ OldAndNew(F, first.entries, Msgs, first.ids)
  BY DEF AgainIs
<1>2. Len(text) \in Nat
  BY LenProperties
<1>3. h[c].valid /\ h[c].place # "broken"
  BY <1>1, <1>2, TraceValid, TracePlace
<1>4. valid' /\ place' # "broken" /\ Part(entries', F)
  BY <1>1, <1>3, DocFields
<1>5. entries' \in Seq(Entry) /\ ThrowsOnlyAtErrors'
  BY DEF ReaderInv, TypeOK, DocTypeOK
<1>6. PICK E : E = entries'
  OBVIOUS
<1>7. DOMAIN E = 1..Len(E)
  BY <1>5, <1>6, LenProperties
<1>8. ASSUME NEW a \in Asked' PROVE a.key \in Msgs /\ a.id = first.ids[a.key]
  <2>1. PICK i \in DOMAIN E : a = E[i] /\ E[i].key \in Msgs
    BY <1>6 DEF Asked
  <2>2. i \in 1..Len(F) /\ E[i] = F[i]
    BY <1>4, <1>6, <1>7 DEF Part
  <2> QED
    BY <1>1, <2>1, <2>2, KeysFit
<1>9. \A k \in Msgs : Known[k] = 0
  BY NothingKnown DEF INVALID_MSG_ID
<1>10. ASSUME Clash' PROVE FALSE
  <2>1. PICK a \in Asked', b \in Asked' :
           \/ a.key = b.key /\ a.id # b.id
           \/ a.key # b.key /\ a.id = b.id /\ Known[a.key] = 0 /\ Known[b.key] = 0
           \/ Known[a.key] \notin {0, a.id}
    BY <1>10 DEF Clash
  <2>2. a.key \in Msgs /\ b.key \in Msgs /\ a.id = first.ids[a.key] /\ b.id = first.ids[b.key]
    BY <1>8
  <2>3. first.ids[a.key] = first.ids[b.key] => a.key = b.key
    BY <2>2 DEF FirstRight
  <2>4. Known[a.key] = 0
    BY <1>9, <2>2
  <2> QED
    BY <2>1, <2>2, <2>3, <2>4
<1> QED
  BY <1>4, <1>5, <1>10 DEF ThrowsOnlyAtErrors

LEMMA AgainKept ==
    ASSUME UNCHANGED <<text, first>>
    PROVE  FirstRight' = FirstRight /\ AllFit' = AllFit /\ \A h, F : AgainIs(h, F)' = AgainIs(h, F)
BY DEF FirstRight, AllFit, AgainIs

LEMMA AgainRead ==
    ASSUME InRange, TextTypes, ReaderInv, AgainInv, Read
    PROVE  AgainInv'
<1>1. /\ Doc' = After(Doc, text[cursor + 1]) /\ [Next]_vars /\ status = "parsing"
      /\ cursor' = cursor + 1 /\ cursor \in Nat /\ cursor + 1 \in 1..Len(text)
  BY ReadDoc
<1>2. UNCHANGED <<text, first>>
  BY DEF Read, fileVars
<1>3. PICK h, F : AgainIs(h, F) /\ Doc = h[cursor]
  BY <1>1 DEF AgainInv
<1>4. Doc' = h[cursor + 1]
  <2>1. (cursor + 1) - 1 = cursor
    BY <1>1
  <2>2. h[cursor + 1] = After(h[(cursor + 1) - 1], text[cursor + 1])
    BY <1>1, <1>3 DEF AgainIs, Trace
  <2> QED
    BY <1>1, <1>3, <2>1, <2>2
<1>5. ReaderInv'
  BY <1>1, ReaderStep
<1>6. FirstRight /\ (AllFit => status' # "thrown")
  <2>1. cursor + 1 \in 0..Len(text) /\ text \in Seq(Lexeme) /\ FirstRight
    BY <1>1 DEF TextTypes, AgainInv
  <2> QED
    BY <1>3, <1>4, <1>5, <2>1, NoThrow
<1>7. FirstRight' /\ AllFit' = AllFit /\ AgainIs(h, F)'
  BY <1>2, <1>3, <1>6, AgainKept
<1> QED
  BY <1>1, <1>4, <1>6, <1>7 DEF AgainInv

\* It meets no syntax error.
LEMMA AgainError ==
    ASSUME TextTypes, AgainInv, ReadError
    PROVE  FALSE
<1>1. status = "parsing" /\ IF cursor < Len(text) THEN ~Grammatical(Here) ELSE ~DocOver
  BY DEF ReadError, Reading
<1>2. PICK h, F : AgainIs(h, F) /\ Doc = h[cursor]
  BY <1>1 DEF AgainInv
<1>3. cursor \in 0..Len(text) /\ Len(text) \in Nat
  BY LenProperties DEF TextTypes
<1>4. CASE cursor < Len(text)
  <2>1. cursor + 1 \in 1..Len(text) /\ (cursor + 1) - 1 = cursor
    BY <1>3, <1>4
  <2>2. Fitting(h[(cursor + 1) - 1], text[cursor + 1])
    BY <1>2, <2>1 DEF AgainIs, Trace
  <2>3. Fitting(Doc, Here)
    BY <1>2, <2>1, <2>2 DEF Here
  <2> QED
    BY <1>1, <1>4, <2>3, GrammaticalIs
<1>5. CASE ~ (cursor < Len(text))
  <2>1. cursor = Len(text)
    BY <1>3, <1>5
  <2>2. place = "end"
    BY <1>2, <2>1, DocFields DEF AgainIs
  <2> QED
    BY <1>1, <1>5, <2>2 DEF DocOver
<1> QED
  BY <1>4, <1>5

LEMMA AgainEnd ==
    ASSUME InRange, TextTypes, ReaderInv, AgainInv, ReadEnd
    PROVE  AgainInv'
<1>1. Finish /\ status = "parsing" /\ UNCHANGED <<text, first, cursor, sep>> /\ UNCHANGED docVars
  BY DEF ReadEnd, Finish, fileVars
<1>2. Doc' = Doc
  BY <1>1 DEF Doc, docVars
<1>3. PICK h, F : AgainIs(h, F) /\ Doc = h[cursor]
  BY <1>1 DEF AgainInv
<1>4. ReaderInv'
  BY <1>1, ReaderStep DEF Next
<1>5. FirstRight /\ (AllFit => status' # "thrown")
  <2>1. cursor \in 0..Len(text) /\ text \in Seq(Lexeme) /\ FirstRight /\ Doc' = h[cursor]
    BY <1>2, <1>3 DEF TextTypes, AgainInv
  <2> QED
    BY <1>3, <1>4, <2>1, NoThrow
<1>6. FirstRight' /\ AllFit' = AllFit /\ AgainIs(h, F)'
  BY <1>1, <1>3, <1>5, AgainKept
<1> QED
  BY <1>1, <1>2, <1>3, <1>5, <1>6 DEF AgainInv

LEMMA PrefixIs ==
    ASSUME NEW S, NEW a \in Seq(S), NEW b \in Seq(S), Part(a, b)
    PROVE  IsPrefix(a, b)
<1> DEFINE n == Len(a)
           u == SubSeq(a, 1, n)
           w == SubSeq(b, 1, n)
<1>1. n \in 0..Len(a) /\ n \in 0..Len(b) /\ n <= Len(b) /\ \A i \in 1..n : a[i] = b[i]
  BY LenProperties DEF Part
<1> HIDE DEF n
<1>2. /\ u \in Seq(S) /\ Len(u) = n /\ \A i \in 1..n : u[i] = a[i]
      /\ w \in Seq(S) /\ Len(w) = n /\ \A i \in 1..n : w[i] = b[i]
  BY <1>1, FrontIs
<1> HIDE DEF u, w
<1>3. u = w
  BY <1>1, <1>2, SeqEqual
<1> QED
  BY <1>1, <1>3 DEF IsPrefix, u, w, n

\* The next compilation has read the file.
LEMMA AgainDone ==
    ASSUME AgainInv, ReaderInv, AtEnd, status = "done"
    PROVE  /\ AllFit /\ OldAndNew(entries, first.entries, Msgs, first.ids)
           /\ \A k \in Msgs : HasKey(entries, k)
<1>1. PICK h, F : AgainIs(h, F) /\ Doc = h[cursor]
  BY DEF AgainInv
<1>2. cursor = Len(text) /\ valid
  BY DEF AtEnd, ReaderInv
<1>3. entries = F /\ AllFit
  BY <1>1, <1>2, DocFields DEF AgainIs
<1> QED
  BY <1>1, <1>3 DEF AgainIs

LEMMA ReadsBackIs ==
    ASSUME AgainInv, ReaderInv, AtEnd
    PROVE  ReadsBack
<1> SUFFICES ASSUME status # "parsing"
             PROVE  IF AllFit THEN status = "done" /\ AllFound /\ ids = first.ids ELSE status = "thrown"
  BY DEF ReadsBack, AllFit
<1>1. status \in {"done", "thrown"} /\ TypeOK
  BY DEF ReaderInv, TypeOK
<1>2. CASE ~AllFit
  BY <1>1, <1>2, AgainDone
<1>3. CASE AllFit
  <2>1. status = "done"
    BY <1>1, <1>3 DEF AgainInv
  <2>2. OldAndNew(entries, first.entries, Msgs, first.ids) /\ \A k \in Msgs : HasKey(entries, k)
    BY <2>1, AgainDone
  <2>3. Results /\ FirstRight
    BY <2>1 DEF ReaderInv, AgainInv
  <2>4. ids \in [Msgs -> Nat] /\ entries \in Seq(Entry) /\ DOMAIN entries = 1..Len(entries)
    BY <1>1, LenProperties DEF TypeOK, DocTypeOK
  <2>5. ASSUME NEW k \in Msgs PROVE ids[k] = first.ids[k]
    <3>1. PICK i \in 1..Len(entries) : entries[i].key = k
      BY <2>2 DEF HasKey
    <3>2. entries[i] \in Asked
      BY <2>4, <3>1 DEF Asked
    <3>3. ids[entries[i].key] = entries[i].id
      BY <2>3, <3>2 DEF Results
    <3>4. entries[i].key \in Msgs
      BY <3>1
    <3>5. entries[i].id = first.ids[entries[i].key]
      BY <2>2, <2>3, <3>4, KeysFit
    <3> QED
      BY <3>1, <3>3, <3>5
  <2>6. first.ids \in [Msgs -> 1..UIntMax] /\ \A k, j \in Msgs : first.ids[k] = first.ids[j] => k = j
    BY <2>3 DEF FirstRight
  <2>7. ids = first.ids
    BY <2>4, <2>5, <2>6
  <2>8. (\A k \in Msgs : ids[k] # 0) /\ \A k, j \in Msgs : ids[k] = ids[j] => k = j
    BY <2>6, <2>7
  <2> QED
    BY <1>1, <1>3, <2>1, <2>3, <2>7, <2>8, AllFoundIs
<1> QED
  BY <1>2, <1>3

LEMMA KeepsEntriesIs ==
    ASSUME AgainInv, ReaderInv, AtEnd
    PROVE  KeepsEntries
<1> SUFFICES ASSUME status = "done"
             PROVE  /\ IsPrefix(first.entries, entries)
                    /\ \A i, j \in (Len(first.entries) + 1)..Len(entries) :
                          entries[i].key = entries[j].key => i = j
                    /\ {entries[i].key : i \in DOMAIN entries} =
                          Msgs \cup {first.entries[i].key : i \in DOMAIN first.entries}
  BY DEF KeepsEntries
<1>1. PICK E, F : E = first.entries /\ F = entries
  OBVIOUS
<1>2. OldAndNew(F, E, Msgs, first.ids) /\ \A k \in Msgs : HasKey(F, k)
  BY <1>1, AgainDone
<1>3. F \in Seq(Entry) /\ E \in Seq(Entry)
  BY <1>1, <1>2 DEF OldAndNew, AgainInv, FirstRight
<1>4. DOMAIN E = 1..Len(E) /\ DOMAIN F = 1..Len(F)
  BY <1>3, LenProperties
<1>5. IsPrefix(E, F)
  BY <1>2, <1>3, PrefixIs DEF OldAndNew
<1>6. /\ Len(E) \in Nat /\ Len(F) \in Nat /\ Len(E) <= Len(F) /\ \A i \in 1..Len(E) : E[i] = F[i]
      /\ \A i \in (Len(E) + 1)..Len(F) : F[i].key \in Msgs
      /\ \A i, j \in (Len(E) + 1)..Len(F) : F[i].key = F[j].key => i = j
  BY <1>2 DEF OldAndNew, Part
<1>7. ASSUME NEW i \in 1..Len(F) PROVE F[i].key \in Msgs \/ \E j \in 1..Len(E) : E[j].key = F[i].key
  <2>1. i \in 1..Len(E) \/ i \in (Len(E) + 1)..Len(F)
    BY <1>6
  <2> QED
    BY <1>6, <2>1
<1>8. \A j \in 1..Len(E) : j \in 1..Len(F) /\ F[j].key = E[j].key
  BY <1>6
<1>9. {F[i].key : i \in DOMAIN F} = Msgs \cup {E[i].key : i \in DOMAIN E}
  <2>1. {F[i].key : i \in 1..Len(F)} \subseteq Msgs \cup {E[i].key : i \in 1..Len(E)}
    BY <1>7
  <2>2. \A k \in Msgs : k \in {F[i].key : i \in 1..Len(F)}
    BY <1>2 DEF HasKey
  <2>3. \A i \in 1..Len(E) : E[i].key \in {F[j].key : j \in 1..Len(F)}
    BY <1>8
  <2> QED
    BY <1>4, <2>1, <2>2, <2>3
<1> QED
  BY <1>1, <1>5, <1>6, <1>9

-----------------------------------------------------------------------------
(* The next compilation reads a file whose writer was killed.               *)

\* Up to c the text is what the writer would have written; behind c nothing follows
\* that says anything.
TornIs(h, c) ==
    /\ c \in 0..Len(text) /\ Trace(h, Start, text, c)
    /\ Shut(h[c], first.entries, Msgs, first.ids)
    /\ \A j \in (c + 1)..Len(text) : text[j].lex \in Plain \cup {"value", "unterminated"}

TornInv ==
    \E h, c :
       /\ TornIs(h, c)
       /\ status # "thrown" => /\ cursor <= c => Doc = h[cursor]
                               /\ cursor >= c => Shut(Doc, first.entries, Msgs, first.ids)

\* What says nothing leaves it so.
LEMMA ShutKept ==
    ASSUME NEW s, NEW E, NEW K, NEW I, Shut(s, E, K, I), NEW l \in Lexeme, Fitting(s, l),
           l.lex \in Plain \cup {"value", "unterminated"}
    PROVE  Shut(After(s, l), E, K, I)
<1> SUFFICES ASSUME After(s, l).valid
             PROVE  Shape(After(s, l)) /\ OldAndNew(After(s, l).entries, E, K, I)
  BY DEF Shut
<1>1. s.valid
  BY AfterValid
<1>2. Shape(s) /\ OldAndNew(s.entries, E, K, I)
  BY <1>1 DEF Shut
<1>3. CASE l.lex = "remark"
  BY <1>2, <1>3 DEF After
<1>4. CASE l.lex = "endArray"
  <2>1. s.place = "inside" /\ s.ctx[Len(s.ctx)] = "array"
    BY <1>4 DEF Fitting, In
  <2>2. s.ctx = << "array" >>
    <3>1. ASSUME s.ctx = << "array", "object" >> PROVE FALSE
      <4>1. Len(s.ctx) = 2 /\ s.ctx[2] = "object"
        BY <3>1
      <4> QED
        BY <2>1, <4>1
    <3> QED
      BY <1>2, <2>1, <3>1 DEF Shape
  <2>3. Len(s.ctx) = 1
    BY <2>2
  <2>4. After(s, l) = AfterInner(s)
    BY <1>4, <2>3 DEF After
  <2>5. SubSeq(s.ctx, 1, Len(s.ctx) - 1) = << >>
    <3>1. Len(s.ctx) - 1 \in Int /\ 1 \in Int /\ Len(s.ctx) - 1 < 1
      BY <2>3
    <3> QED
      BY <3>1, SubSeqEmpty
  <2>6. AfterInner(s).ctx = << >> /\ AfterInner(s).place = "end" /\ AfterInner(s).entries = s.entries
    BY <2>3, <2>5 DEF AfterInner
  <2> QED
    BY <1>2, <2>4, <2>6 DEF Shape
<1>5. CASE l.lex = "beginArray"
  <2>1. After(s, l) = AfterBegin(s, "array") /\ Due(s)
    BY <1>5 DEF After, Fitting
  <2> DEFINE v == [kind |-> "array"]
  <2>2. Good(s, v)
    <3>1. AfterBegin(s, "array").valid = (s.valid /\ Good(s, v))
      BY DEF AfterBegin
    <3> QED
      BY <2>1, <3>1
  <2>3. v.kind = "array"
    OBVIOUS
  <2> HIDE DEF v
  <2>4. Len(s.ctx) # 1 /\ (Len(s.ctx) = 2 => Fits(s.name, v))
    BY <2>2, <2>3 DEF Good
  <2>5. s.ctx = << >>
    <3>1. s.ctx # << "array" >>
      BY <2>4
    <3>2. ASSUME s.ctx = << "array", "object" >> PROVE FALSE
      <4>1. Len(s.ctx) = 2 /\ s.ctx[2] = "object"
        BY <3>2
      <4>2. s.place = "inside" /\ s.name \in Attrs \cup {NoName}
        BY <1>2, <3>1, <3>2 DEF Shape
      <4>3. s.name # NoName
        BY <2>1, <4>1, <4>2 DEF Due, In
      <4>4. Fits(s.name, v)
        BY <2>4, <4>1
      <4> QED
        BY <2>3, <4>2, <4>3, <4>4 DEF Fits, Attrs
    <3> QED
      BY <1>2, <3>1, <3>2 DEF Shape
  <2>6. AfterBegin(s, "array").ctx = << "array" >> /\ AfterBegin(s, "array").entries = s.entries
    BY <2>5 DEF AfterBegin
  <2> QED
    BY <1>2, <2>1, <2>6 DEF Shape
<1>6. CASE l.lex = "value"
  <2>1. After(s, l) = AfterScalar(s, l.value)
    BY <1>6 DEF After
  <2>2. /\ After(s, l).ctx = s.ctx /\ After(s, l).entries = s.entries /\ After(s, l).name = NoName
        /\ After(s, l).place = IF Len(s.ctx) = 0 THEN "end" ELSE s.place
    BY <2>1 DEF AfterScalar
  <2>3. CASE s.ctx = << >>
    <3>1. Len(s.ctx) = 0
      BY <2>3
    <3> QED
      BY <1>2, <2>2, <2>3, <3>1 DEF Shape
  <2>4. CASE s.ctx = << "array" >>
    BY <1>2, <2>2, <2>4 DEF Shape
  <2>5. CASE s.ctx = << "array", "object" >>
    <3>1. Len(s.ctx) = 2
      BY <2>5
    <3>2. s.ctx # << >> /\ s.ctx # << "array" >>
      BY <2>5, <3>1
    <3>3. s.place = "inside"
      BY <1>2, <3>2 DEF Shape
    <3> QED
      BY <1>2, <2>2, <2>5, <3>1, <3>3 DEF Shape
  <2> QED
    BY <1>2, <2>3, <2>4, <2>5 DEF Shape
<1>7. l.lex # "unterminated"
  BY DEF Fitting
<1> QED
  BY <1>3, <1>4, <1>5, <1>6, <1>7 DEF Plain

LEMMA TornKept ==
    ASSUME UNCHANGED <<text, first>>
    PROVE  \A h, c : TornIs(h, c)' = TornIs(h, c)
BY DEF TornIs

LEMMA TornRead ==
    ASSUME TextTypes, TornInv, Read
    PROVE  TornInv'
<1>1. /\ Fitting(Doc, text[cursor + 1]) /\ Doc' = After(Doc, text[cursor + 1]) /\ status = "parsing"
      /\ text[cursor + 1] \in Lexeme
      /\ cursor' = cursor + 1 /\ cursor \in Nat /\ cursor + 1 \in 1..Len(text)
  BY ReadDoc
<1>2. UNCHANGED <<text, first>>
  BY DEF Read, fileVars
<1>3. PICK h, c : /\ TornIs(h, c)
                  /\ cursor <= c => Doc = h[cursor]
                  /\ cursor >= c => Shut(Doc, first.entries, Msgs, first.ids)
  BY <1>1 DEF TornInv
<1>4. TornIs(h, c)'
  BY <1>2, <1>3, TornKept
<1>5. /\ c \in Nat /\ Trace(h, Start, text, c) /\ Shut(h[c], first.entries, Msgs, first.ids)
      /\ \A j \in (c + 1)..Len(text) : text[j].lex \in Plain \cup {"value", "unterminated"}
  <2>1. Len(text) \in Nat
    BY LenProperties DEF TextTypes
  <2> QED
    BY <1>3, <2>1 DEF TornIs
<1>6. cursor' <= c => Doc' = h[cursor']
  <2> SUFFICES ASSUME cursor + 1 <= c PROVE Doc' = h[cursor + 1]
    BY <1>1
  <2>1. cursor + 1 \in 1..c /\ (cursor + 1) - 1 = cursor /\ cursor <= c
    BY <1>1, <1>5
  <2>2. h[cursor + 1] = After(h[(cursor + 1) - 1], text[cursor + 1])
    BY <1>5, <2>1 DEF Trace
  <2> QED
    BY <1>1, <1>3, <2>1, <2>2
<1>7. cursor' >= c => Shut(Doc', first.entries, Msgs, first.ids)
  <2> SUFFICES ASSUME cursor + 1 >= c PROVE Shut(Doc', first.entries, Msgs, first.ids)
    BY <1>1
  <2>1. CASE cursor + 1 = c
    <3>1. Doc' = h[c]
      BY <1>1, <1>5, <1>6, <2>1
    <3> QED
      BY <1>5, <3>1
  <2>2. CASE cursor + 1 # c
    <3>1. cursor >= c /\ cursor + 1 \in (c + 1)..Len(text)
      BY <1>1, <1>5, <2>2
    <3>2. text[cursor + 1].lex \in Plain \cup {"value", "unterminated"}
      BY <1>5, <3>1
    <3>3. Shut(Doc, first.entries, Msgs, first.ids)
      BY <1>3, <3>1
    <3> QED
      BY <1>1, <3>2, <3>3, ShutKept
  <2> QED
    BY <2>1, <2>2
<1> QED
  BY <1>2, <1>4, <1>6, <1>7 DEF TornInv

LEMMA TornError ==
    ASSUME TornInv, ReadError
    PROVE  TornInv'
<1>1. status' = "thrown" /\ UNCHANGED <<text, first>>
  BY DEF ReadError, SyntaxError, Throw, fileVars
<1>2. PICK h, c : TornIs(h, c)
  BY DEF TornInv
<1>3. TornIs(h, c)'
  BY <1>1, <1>2, TornKept
<1> QED
  BY <1>1, <1>3 DEF TornInv

LEMMA TornEnd ==
    ASSUME TornInv, ReadEnd
    PROVE  TornInv'
<1>1. status = "parsing" /\ UNCHANGED <<text, first, cursor, sep>> /\ UNCHANGED docVars
  BY DEF ReadEnd, Finish, fileVars
<1>2. Doc' = Doc
  BY <1>1 DEF Doc, docVars
<1>3. PICK h, c : /\ TornIs(h, c)
                  /\ cursor <= c => Doc = h[cursor]
                  /\ cursor >= c => Shut(Doc, first.entries, Msgs, first.ids)
  BY <1>1 DEF TornInv
<1>4. TornIs(h, c)'
  BY <1>1, <1>3, TornKept
<1> QED
  BY <1>1, <1>2, <1>3, <1>4 DEF TornInv

LEMMA TornSafeIs ==
    ASSUME TornInv, ReaderInv, AtEnd, TextTypes, first.entries \in Seq(Entry)
    PROVE  TornFileSafe
<1> SUFFICES ASSUME status = "done"
             PROVE  /\ IsPrefix(first.entries, entries)
                    /\ \A i \in (Len(first.entries) + 1)..Len(entries) :
                          entries[i].key \in Msgs /\ entries[i].id = first.ids[entries[i].key]
  BY DEF TornFileSafe
<1>1. PICK h, c : TornIs(h, c) /\ (cursor >= c => Shut(Doc, first.entries, Msgs, first.ids))
  BY DEF TornInv
<1>2. cursor >= c
  <2>1. cursor = Len(text) /\ Len(text) \in Nat /\ c \in 0..Len(text)
    BY <1>1, LenProperties DEF AtEnd, TextTypes, TornIs
  <2> QED
    BY <2>1
<1>3. OldAndNew(entries, first.entries, Msgs, first.ids)
  <2>1. Doc.valid /\ Doc.entries = entries
    BY DocFields DEF ReaderInv
  <2> QED
    BY <1>1, <1>2, <2>1 DEF Shut
<1>4. IsPrefix(first.entries, entries)
  BY <1>3, PrefixIs DEF OldAndNew
<1> QED
  BY <1>3, <1>4 DEF OldAndNew

LEMMA HalvesIs ==
    ASSUME NEW l \in OutLexeme, NEW half \in Halves(l)
    PROVE  /\ half \in Seq(Lexeme)
           /\ \A i \in 1..Len(half) : half[i].lex \in {"value", "unterminated"}
<1>1. ASSUME NEW x \in OutLexeme, x.lex \in {"value", "unterminated"}
      PROVE  << x >> \in Seq(Lexeme) /\ \A i \in 1..Len(<< x >>) : << x >>[i].lex \in {"value", "unterminated"}
  <2>1. x \in Lexeme
    BY <1>1, OutIs
  <2>2. Len(<< x >>) = 1 /\ << x >>[1] = x /\ << x >> \in Seq(Lexeme)
    BY <2>1
  <2>3. \A i \in 1..1 : i = 1
    OBVIOUS
  <2> QED
    BY <1>1, <2>2, <2>3
<1>2. CASE half = << >>
  <2>1. << >> \in Seq(Lexeme) /\ Len(<< >>) = 0 /\ 1..0 = {}
    OBVIOUS
  <2> QED
    BY <1>2, <2>1
<1>3. CASE half = << Mark("unterminated") >>
  <2>1. Mark("unterminated") \in OutLexeme /\ Mark("unterminated").lex = "unterminated"
    BY OutIs DEF Marks
  <2> QED
    BY <1>1, <1>3, <2>1
<1>4. CASE half # << >> /\ half # << Mark("unterminated") >>
  <2>1. /\ l.lex = "value" /\ l.value.kind = "int"
        /\ half \in {<< ValueOf([kind |-> "int", int |-> i]) >> : i \in 0..(l.value.int - 1)}
    BY <1>4 DEF Halves
  <2>2. PICK i \in 0..(l.value.int - 1) : half = << ValueOf([kind |-> "int", int |-> i]) >>
    BY <2>1
  <2>3. l.value \in Written
    BY <2>1, OutIs
  <2>4. l.value.int \in (-IntMax - 1)..IntMax
    BY <2>1, <2>3 DEF Written
  <2>5. IntMax \in Nat
    BY IntsAssumption
  <2>6. i \in (-IntMax - 1)..IntMax
    BY <2>4, <2>5
  <2> DEFINE v == [kind |-> "int", int |-> i]
  <2>7. v \in Written
    BY <2>6 DEF Written
  <2> HIDE DEF v
  <2>8. ValueOf(v) \in OutLexeme /\ ValueOf(v).lex = "value"
    BY <2>7, OutIs
  <2>9. half = << ValueOf(v) >>
    BY <2>2 DEF v
  <2> QED
    BY <1>1, <2>8, <2>9
<1> QED
  BY <1>2, <1>3, <1>4

\* The writer is killed.
LEMMA KilledStep ==
    ASSUME WritingInv, KilledWriting
    PROVE  TornInv' /\ Init' /\ TextTypes'
<1>1. todo = {} /\ ReadAnew
  BY DEF KilledWriting
<1>2. /\ TypeOK /\ text \in Seq(Lexeme) /\ PlaceRight /\ OutRight /\ TextRight
  BY DEF WritingInv
<1>3. /\ Init' /\ Doc' = Start /\ cursor' = 0 /\ sep' = "start" /\ status' = "parsing"
      /\ first' = [entries |-> entries, ids |-> ids]
  BY <1>1, <1>2, Anew
<1>4. first'.entries = entries /\ first'.ids = ids /\ Len(out) # 1
  BY <1>1, <1>3, FirstIs
<1>5. NewTextParts /\ PendingParts
  BY <1>2, <1>4, NewTextIs, PendingIs
<1>6. PICK n \in 0..(Len(NewText) - 1), rest \in WritePos..Len(text) :
      \E half \in Pieces(n) :
          text' = SubSeq(text, 1, WritePos) \o SubSeq(NewText, 1, n) \o half
                      \o SubSeq(text, rest + 1, Len(text))
  BY DEF KilledWriting
<1>7. PICK half \in Pieces(n) :
          text' = SubSeq(text, 1, WritePos) \o SubSeq(NewText, 1, n) \o half
                      \o SubSeq(text, rest + 1, Len(text))
  BY <1>6
<1>8. PICK p, o, y, t, w, a, b, d, r :
         /\ p = WritePos /\ o = Len(out) /\ y = NewText /\ t = text /\ w = text'
         /\ a = SubSeq(t, 1, p) /\ b = SubSeq(y, 1, n) /\ d = half /\ r = SubSeq(t, rest + 1, Len(t))
  OBVIOUS
<1>9. /\ p \in Nat /\ o \in Nat /\ Len(y) = o + 1 /\ n \in 0..o /\ n \in 0..Len(y) /\ rest \in p..Len(t)
      /\ p \in 0..Len(t) /\ rest \in 0..Len(t) /\ Len(t) \in Nat /\ y \in Seq(OutLexeme) /\ t \in Seq(Lexeme)
      /\ n + 1 \in 1..Len(y) /\ Size = p + o
  <2>1. p \in Nat /\ o \in Nat /\ Len(y) = o + 1 /\ Len(t) \in Nat /\ p \in 0..Len(t)
        /\ y \in Seq(OutLexeme) /\ t \in Seq(Lexeme)
    BY <1>2, <1>5, <1>8, LenProperties DEF NewTextParts, PendingParts, PlaceRight
  <2>2. n \in 0..(Len(y) - 1) /\ rest \in p..Len(t)
    BY <1>6, <1>8
  <2>3. n \in 0..o /\ n \in 0..Len(y) /\ n + 1 \in 1..Len(y) /\ rest \in 0..Len(t)
    BY <2>1, <2>2
  <2> QED
    BY <1>8, <2>1, <2>2, <2>3 DEF Size
<1>10. a \in Seq(Lexeme) /\ Len(a) = p /\ \A i \in 1..p : a[i] = t[i]
  BY <1>8, <1>9, FrontIs
<1>11. b \in Seq(OutLexeme) /\ Len(b) = n /\ \A i \in 1..n : b[i] = y[i]
  BY <1>8, <1>9, FrontIs
<1>12. d \in Seq(Lexeme) /\ \A i \in 1..Len(d) : d[i].lex \in {"value", "unterminated", "endArray"}
  <2>1. y[n + 1] \in OutLexeme
    BY <1>9, ElementOfSeq
  <2>2. CASE d \in Halves(y[n + 1])
    BY <2>1, <2>2, HalvesIs
  <2>3. CASE d \notin Halves(y[n + 1])
    <3>1. n + 1 = Len(y) /\ d = << y[n + 1] >>
      BY <1>7, <1>8, <2>3 DEF Pieces
    <3>2. n + 1 = o + 1
      BY <1>9, <3>1
    <3>3. y[o + 1] = Mark("endArray")
      BY <1>5, <1>8 DEF NewTextParts
    <3>4. Mark("endArray") \in Lexeme /\ Mark("endArray").lex = "endArray"
      BY OutIs DEF Marks
    <3>5. d = << Mark("endArray") >>
      BY <3>1, <3>2, <3>3
    <3>6. d \in Seq(Lexeme) /\ Len(d) = 1 /\ d[1] = Mark("endArray")
      BY <3>4, <3>5
    <3>7. \A i \in 1..1 : i = 1
      OBVIOUS
    <3> QED
      BY <3>4, <3>6, <3>7
  <2> QED
    BY <2>2, <2>3
<1>13. r \in Seq(Lexeme) /\ Len(r) = Len(t) - rest /\ \A i \in 1..(Len(t) - rest) : r[i] = t[rest + i]
  BY <1>8, <1>9, BackIs
<1>14. a \in Seq(Lexeme) /\ b \in Seq(Lexeme) /\ d \in Seq(Lexeme) /\ r \in Seq(Lexeme)
  BY <1>10, <1>11, <1>12, <1>13, OutIs
<1> DEFINE x == a \o b
           z == x \o d
<1>15. /\ x \in Seq(Lexeme) /\ Len(x) = Len(a) + Len(b)
       /\ \A i \in 1..Len(a) : x[i] = a[i]
       /\ \A i \in 1..Len(b) : x[Len(a) + i] = b[i]
  BY SMTT(30), <1>14, JoinIs
<1>16. x \in Seq(Lexeme)
  BY <1>15
<1> HIDE DEF x
<1>17. /\ z \in Seq(Lexeme) /\ Len(z) = Len(x) + Len(d) /\ Len(d) \in Nat
       /\ \A i \in 1..Len(x) : z[i] = x[i]
       /\ \A i \in 1..Len(d) : z[Len(x) + i] = d[i]
  BY <1>14, <1>16, JoinIs
<1>18. z \in Seq(Lexeme)
  BY <1>17
<1>19. w = z \o r
  BY <1>7, <1>8 DEF x
<1> HIDE DEF z
<1>20. /\ w \in Seq(Lexeme) /\ Len(w) = Len(z) + Len(r)
       /\ \A i \in 1..Len(z) : w[i] = z[i]
       /\ \A i \in 1..Len(r) : w[Len(z) + i] = r[i]
  BY <1>14, <1>18, <1>19, JoinIs
<1>21. PICK c, e, f : c = p + n /\ e = Len(d) /\ f = Len(t) - rest
  OBVIOUS
<1>22. /\ c \in Nat /\ e \in Nat /\ f \in Nat /\ Len(x) = c /\ Len(z) = c + e /\ Len(w) = c + e + f
       /\ c \in 0..Len(w) /\ c \in p..Size /\ c <= Size /\ Size \in Nat
  <2>1. n \in Nat /\ n <= o /\ p \in Nat /\ o \in Nat /\ rest \in Nat /\ rest <= Len(t) /\ Size = p + o
        /\ Len(t) \in Nat
    BY <1>9
  <2>2. c \in Nat /\ e \in Nat /\ f \in Nat /\ c \in p..Size /\ c <= Size /\ Size \in Nat
    BY <1>17, <1>21, <2>1
  <2>3. Len(x) = c /\ Len(z) = c + e /\ Len(w) = c + e + f
    BY <1>10, <1>11, <1>13, <1>15, <1>17, <1>20, <1>21
  <2> QED
    BY <2>2, <2>3
<1>23. \A i \in 1..c : w[i] = Pending[i]
  <2> TAKE i \in 1..c
  <2>0. i \in 1..Len(x) /\ i \in 1..Len(z)
    BY <1>22
  <2>1. w[i] = x[i]
    BY <1>17, <1>20, <2>0
  <2>2. CASE i \in 1..p
    <3>1. x[i] = t[i]
      BY <1>10, <1>15, <2>2
    <3> QED
      BY <1>5, <1>8, <2>1, <2>2, <3>1 DEF PendingParts
  <2>3. CASE i > p
    <3>1. i - p \in 1..n /\ p + (i - p) = i
      BY <1>9, <1>21, <2>3
    <3>2. x[i] = y[i - p]
      BY <1>10, <1>11, <1>15, <3>1
    <3>3. CASE i - p = 1
      <4>1. i = p + 1
        BY <1>9, <3>3
      <4> QED
        BY <1>5, <1>8, <2>1, <3>2, <3>3, <4>1 DEF PendingParts, NewTextParts
    <3>4. CASE i - p # 1
      <4>1. i - p \in 2..o
        BY <1>9, <3>1, <3>4
      <4>2. y[i - p] = out[i - p]
        BY <1>5, <1>8, <4>1 DEF NewTextParts
      <4>3. Pending[p + (i - p)] = out[i - p]
        BY <1>5, <1>8, <4>1 DEF PendingParts
      <4> QED
        BY <2>1, <3>1, <3>2, <4>2, <4>3
    <3> QED
      BY <3>3, <3>4
  <2> QED
    BY <1>9, <1>21, <2>2, <2>3
<1>24. \A j \in (c + 1)..Len(w) : w[j].lex \in Plain \cup {"value", "unterminated"}
  <2> TAKE j \in (c + 1)..Len(w)
  <2>1. CASE j <= c + e
    <3>1. j - c \in 1..e /\ c + (j - c) = j /\ j \in 1..Len(z)
      BY <1>22, <2>1
    <3>2. w[j] = d[j - c]
      BY <1>17, <1>20, <1>21, <1>22, <3>1
    <3>3. d[j - c].lex \in {"value", "unterminated", "endArray"}
      BY <1>12, <1>21, <3>1
    <3> QED
      BY <3>2, <3>3 DEF Plain
  <2>2. CASE ~ (j <= c + e)
    <3>1. j - (c + e) \in 1..f /\ (c + e) + (j - (c + e)) = j
      BY <1>22, <2>2
    <3>2. w[j] = r[j - (c + e)]
      BY <1>13, <1>20, <1>21, <1>22, <3>1
    <3>3. r[j - (c + e)] = t[rest + (j - (c + e))]
      BY <1>13, <1>21, <3>1
    <3>4. rest + (j - (c + e)) \in (p + 1)..Len(t)
      BY <1>9, <1>21, <1>22, <3>1
    <3>5. t[rest + (j - (c + e))].lex \in Plain
      BY <1>2, <1>8, <3>4 DEF PlaceRight
    <3> QED
      BY <3>2, <3>3, <3>5
  <2> QED
    BY <2>1, <2>2
<1>25. PICK h, F, m : TextIs(h, F, m)
  BY <1>2 DEF TextRight
<1>26. Trace(h, Start, Pending, Size) /\ Shut(h[c], entries, Msgs, ids)
  <2>1. Msgs \ todo = Msgs
    BY <1>1
  <2> QED
    BY <1>8, <1>22, <1>25, <2>1 DEF TextIs
<1>27. Trace(h, Start, w, c)
  BY <1>22, <1>23, <1>26, TraceOther
<1>28. TornIs(h, c)'
  BY <1>4, <1>8, <1>22, <1>24, <1>26, <1>27 DEF TornIs
<1>29. Doc' = h[cursor'] /\ (cursor' >= c => Shut(Doc', first'.entries, Msgs, first'.ids))
  <2>1. Doc' = h[0] /\ cursor' = 0
    BY <1>3, <1>27 DEF Trace
  <2>2. 0 >= c => c = 0
    BY <1>22
  <2> QED
    BY <1>4, <1>26, <2>1, <2>2
<1>30. TornInv'
  BY <1>28, <1>29 DEF TornInv
<1>31. TextTypes'
  <2>1. 0 \in 0..Len(w)
    BY <1>22
  <2> QED
    BY <1>3, <1>8, <1>20, <2>1 DEF TextTypes
<1> QED
  BY <1>3, <1>30, <1>31

-----------------------------------------------------------------------------
(* The inductive invariant.                                                 *)

FirstTypes ==
    /\ todo \subseteq Msgs /\ top \in 0..UIntMax /\ out \in Seq(OutLexeme)
    /\ first.entries \in Seq(Entry) /\ first.ids \in [Msgs -> 0..UIntMax]

TripInv ==
    /\ TextTypes /\ FirstTypes /\ phase \in {"reading", "writing", "rereading", "torn"}
    /\ phase # "writing" => ReaderInv /\ AtEnd
    /\ phase = "reading" => ReadSoFar
    /\ phase = "writing" => WritingInv
    /\ phase = "rereading" => AgainInv
    /\ phase = "torn" => TornInv

LEMMA ReaderStart == Init => ReaderInv
BY ReaderInit

LEMMA ReaderRestart == Init' => ReaderInv'
BY ReaderStart, PTL

LEMMA TripInitial ==
    ASSUME TripInit
    PROVE  TripInv
<1>1. /\ Init /\ text \in Texts /\ cursor = 0 /\ sep = "start" /\ phase = "reading"
      /\ todo = {} /\ top = 0 /\ out = << >> /\ first = [entries |-> << >>, ids |-> Known]
  BY DEF TripInit
<1>2. text \in Seq(Lexeme) /\ Len(text) \in Nat
  BY <1>1, TextsAssumption, LenProperties
<1>3. TextTypes
  BY <1>1, <1>2 DEF TextTypes
<1>4. IntMax \in Nat /\ UIntMax = 2 * IntMax + 1
  BY IntsAssumption DEF UIntMax
<1>5. FirstTypes
  <2>1. 0 \in 0..UIntMax /\ 0..IntMax \subseteq 0..UIntMax
    BY <1>4
  <2>2. Known \in [Msgs -> 0..UIntMax]
    BY <2>1, KnownAssumption
  <2>3. << >> \in Seq(Entry) /\ << >> \in Seq(OutLexeme)
    OBVIOUS
  <2>4. first.entries = << >> /\ first.ids = Known
    BY <1>1
  <2> QED
    BY <1>1, <2>1, <2>2, <2>3, <2>4 DEF FirstTypes
<1>6. ReaderInv /\ AtEnd
  BY <1>1, ReaderInit DEF AtEnd, Init
<1>7. ReadSoFar
  BY ReadSoFarInit
<1> QED
  BY <1>1, <1>3, <1>5, <1>6, <1>7 DEF TripInv

\* Reading a lexeme, the parser does not return.
LEMMA ReadTypes ==
    ASSUME TextTypes, Read
    PROVE  TextTypes' /\ status' # "done"
<1> DEFINE l == text[cursor + 1]
<1>1. /\ status = "parsing" /\ text' = text /\ cursor' = cursor + 1 /\ cursor \in Nat
      /\ cursor + 1 \in 1..Len(text)
  BY ReadDoc
<1>2. Event(l)
  BY DEF Read, Here
<1> HIDE DEF l
<1>3. sep' \in {"start", "item", "comma"}
  BY <1>2 DEF Event, TextTypes
<1>4. status' # "done"
  <2>1. status' = status \/ status' = "thrown"
    <3>1. CASE UNCHANGED vars
      BY <3>1 DEF vars
    <3>2. CASE BeginObject
      BY <3>2 DEF BeginObject, Checked, Throw
    <3>3. CASE BeginArray
      BY <3>3 DEF BeginArray, Checked, Throw
    <3>4. CASE Name
      BY <3>4 DEF Name, Checked, Throw
    <3>5. CASE HandleScalar(l.value)
      BY <3>5 DEF HandleScalar, Checked, Throw
    <3>6. CASE EndObject
      BY <3>6 DEF EndObject, EndMsgObject, Throw
    <3>7. CASE EndArray
      BY <3>7 DEF EndArray
    <3> QED
      BY <1>2, <3>1, <3>2, <3>3, <3>4, <3>5, <3>6, <3>7 DEF Event
  <2> QED
    BY <1>1, <2>1
<1>5. cursor + 1 \in 0..Len(text)
  BY <1>1
<1> QED
  BY <1>1, <1>3, <1>4, <1>5 DEF TextTypes

LEMMA FirstKept ==
    ASSUME FirstTypes, UNCHANGED <<todo, top, out, first>>
    PROVE  FirstTypes'
BY DEF FirstTypes

\* The steps.
LEMMA TripRead ==
    ASSUME InRange, TripInv, Read
    PROVE  TripInv'
<1>1. UNCHANGED <<text, phase, todo, top, out, first>> /\ phase # "writing"
  BY DEF Read, Reading, fileVars
<1>2. TextTypes /\ FirstTypes /\ ReaderInv /\ phase \in {"reading", "writing", "rereading", "torn"}
  BY <1>1 DEF TripInv
<1>3. ReaderInv'
  BY <1>2, ReadDoc, ReaderStep
<1>4. TextTypes' /\ AtEnd' /\ FirstTypes'
  BY <1>1, <1>2, ReadTypes, FirstKept DEF AtEnd
<1>5. phase = "reading" => ReadSoFar'
  BY <1>2, ReadSoFarStep DEF TripInv
<1>6. phase = "rereading" => AgainInv'
  BY <1>2, AgainRead DEF TripInv
<1>7. phase = "torn" => TornInv'
  BY <1>2, TornRead DEF TripInv
<1> QED
  BY <1>1, <1>2, <1>3, <1>4, <1>5, <1>6, <1>7 DEF TripInv

LEMMA TripError ==
    ASSUME InRange, TripInv, ReadError
    PROVE  TripInv'
<1>1. /\ UNCHANGED <<text, phase, todo, top, out, first, cursor, sep>> /\ phase # "writing"
      /\ SyntaxError /\ status' = "thrown"
  BY DEF ReadError, Reading, fileVars, SyntaxError, Throw
<1>2. TextTypes /\ FirstTypes /\ ReaderInv /\ phase \in {"reading", "writing", "rereading", "torn"}
  BY <1>1 DEF TripInv
<1>3. ReaderInv'
  BY <1>1, <1>2, ReaderStep DEF Next
<1>4. TextTypes' /\ AtEnd' /\ FirstTypes'
  BY <1>1, <1>2, FirstKept DEF AtEnd, TextTypes
<1>5. ReadSoFar'
  BY <1>1 DEF ReadSoFar
<1>6. phase # "rereading"
  BY <1>2, AgainError DEF TripInv
<1>7. phase = "torn" => TornInv'
  BY TornError DEF TripInv
<1> QED
  BY <1>1, <1>2, <1>3, <1>4, <1>5, <1>6, <1>7 DEF TripInv

LEMMA TripEnd ==
    ASSUME InRange, TripInv, ReadEnd
    PROVE  TripInv'
<1>1. /\ UNCHANGED <<text, phase, todo, top, out, first, cursor, sep>> /\ phase # "writing"
      /\ Finish /\ cursor = Len(text) /\ status = "parsing" /\ UNCHANGED docVars
  BY DEF ReadEnd, Reading, fileVars, Finish
<1>2. TextTypes /\ FirstTypes /\ ReaderInv /\ phase \in {"reading", "writing", "rereading", "torn"}
  BY <1>1 DEF TripInv
<1>3. ReaderInv'
  BY <1>1, <1>2, ReaderStep DEF Next
<1>4. AtEnd'
  <2>1. DocOver /\ UNCHANGED <<ctx, place>>
    BY <1>1 DEF Finish, docVars
  <2>2. InPlace /\ Depth \in Nat
    BY <1>1, <1>2, LenProperties DEF ReaderInv, TypeOK, DocTypeOK, Depth
  <2>3. ~ (Depth > 0)
    BY <2>1, <2>2 DEF InPlace, DocOver
  <2>4. Len(ctx) = 0
    BY <2>2, <2>3 DEF Depth
  <2> QED
    BY <1>1, <2>1, <2>4 DEF AtEnd, DocOver
<1>5. TextTypes' /\ FirstTypes'
  BY <1>1, <1>2, FirstKept DEF TextTypes
<1>6. phase = "reading" => ReadSoFar'
  BY <1>1, ReadSoFarKept DEF TripInv
<1>7. phase = "rereading" => AgainInv'
  BY <1>2, AgainEnd DEF TripInv
<1>8. phase = "torn" => TornInv'
  BY TornEnd DEF TripInv
<1> QED
  BY <1>1, <1>2, <1>3, <1>4, <1>5, <1>6, <1>7, <1>8 DEF TripInv

\* What the writer has is well typed.
WriterTypes ==
    /\ todo \subseteq Msgs /\ top \in 0..UIntMax /\ out \in Seq(OutLexeme)
    /\ entries \in Seq(Entry) /\ ids \in [Msgs -> 0..UIntMax]

LEMMA WritingTypes == WritingInv => WriterTypes
<1> SUFFICES ASSUME WritingInv
             PROVE  WriterTypes
  OBVIOUS
<1>1. /\ todo \subseteq Msgs /\ IsFiniteSet(todo) /\ top \in Nat
      /\ top + Cardinality(todo) <= UIntMax
  BY DEF WritingInv, TodoRight
<1>2. Cardinality(todo) \in Nat /\ UIntMax \in Nat
  BY <1>1, FS_CardinalityType, IntsAssumption DEF UIntMax
<1>3. top \in 0..UIntMax
  BY <1>1, <1>2
<1> QED
  BY <1>1, <1>3 DEF WriterTypes, WritingInv, OutRight, PlaceRight

LEMMA WritingTypesNext == WritingInv' => WriterTypes'
BY WritingTypes, PTL

LEMMA TripStart ==
    ASSUME InRange, TripInv, StartWriting
    PROVE  TripInv'
<1>1. /\ phase = "reading" /\ phase' = "writing" /\ status = "done"
      /\ UNCHANGED <<vars, text, cursor, sep, first>>
  BY DEF StartWriting
<1>2. TextTypes /\ FirstTypes /\ ReaderInv /\ AtEnd /\ ReadSoFar
  BY <1>1 DEF TripInv
<1>3. WritingInv'
  BY <1>2, StartWritingStep
<1>4. TextTypes' /\ FirstTypes'
  BY <1>1, <1>2, <1>3, WritingTypesNext DEF TextTypes, FirstTypes, WriterTypes
<1> QED
  BY <1>1, <1>3, <1>4 DEF TripInv

LEMMA TripSerialize ==
    ASSUME TripInv, SerializeMsg
    PROVE  TripInv'
<1>1. phase = "writing" /\ UNCHANGED <<phase, text, cursor, sep, first>>
  BY DEF SerializeMsg
<1>2. TextTypes /\ FirstTypes /\ WritingInv
  BY <1>1 DEF TripInv
<1>3. WritingInv'
  BY <1>2, SerializeMsgStep
<1>4. TextTypes' /\ FirstTypes'
  BY <1>1, <1>2, <1>3, WritingTypesNext DEF TextTypes, FirstTypes, WriterTypes
<1> QED
  BY <1>1, <1>3, <1>4 DEF TripInv

LEMMA Restarted ==
    ASSUME WritingInv, ReadAnew
    PROVE  FirstTypes'
<1>1. /\ todo \subseteq Msgs /\ entries \in Seq(Entry) /\ ids \in [Msgs -> 0..UIntMax]
  BY WritingTypes DEF WriterTypes
<1>2. /\ out' = << >> /\ top' = 0 /\ todo' = todo /\ first' = [entries |-> entries, ids |-> ids]
  BY DEF ReadAnew
<1>3. first'.entries = entries /\ first'.ids = ids
  BY <1>2
<1>4. 0 \in 0..UIntMax /\ << >> \in Seq(OutLexeme)
  BY IntsAssumption DEF UIntMax
<1> QED
  BY <1>1, <1>2, <1>3, <1>4 DEF FirstTypes

LEMMA TripWrite ==
    ASSUME TripInv, WriteFile \/ KilledWriting
    PROVE  TripInv'
<1>1. phase = "writing" /\ ReadAnew
  BY DEF WriteFile, KilledWriting
<1>2. WritingInv
  BY <1>1 DEF TripInv
<1>3. FirstTypes' /\ status' = "parsing"
  BY <1>1, <1>2, Restarted DEF ReadAnew
<1>4. CASE WriteFile
  <2>1. AgainInv' /\ Init' /\ TextTypes' /\ phase' = "rereading"
    BY <1>2, <1>4, WriteFileStep DEF WriteFile
  <2> QED
    BY <1>3, <2>1, ReaderRestart DEF TripInv, AtEnd
<1>5. CASE KilledWriting
  <2>1. TornInv' /\ Init' /\ TextTypes' /\ phase' = "torn"
    BY <1>2, <1>5, KilledStep DEF KilledWriting
  <2> QED
    BY <1>3, <2>1, ReaderRestart DEF TripInv, AtEnd
<1> QED
  BY <1>4, <1>5

LEMMA TripStutter ==
    ASSUME InRange, TripInv, UNCHANGED tripVars
    PROVE  TripInv'
<1>1. UNCHANGED <<text, phase, todo, top, out, first, cursor, sep>> /\ UNCHANGED vars
  BY DEF tripVars, fileVars
<1>2. UNCHANGED <<ctx, name, place, at, said, valid, entries, status, state, level, attrs,
                  found, lastEnd, maxId, msgCount, ids>>
  BY <1>1 DEF vars, docVars, readerVars
<1>3. Doc' = Doc /\ TextTypes' = TextTypes /\ FirstTypes' = FirstTypes /\ AtEnd' = AtEnd
  BY <1>1, <1>2 DEF Doc, TextTypes, FirstTypes, AtEnd, DocOver
<1>4. ReaderInv => ReaderInv'
  BY <1>1, ReaderStep
<1>5. ReadSoFar => ReadSoFar'
  BY <1>1, <1>2, ReadSoFarKept DEF ReadSoFar, docVars
<1>6. AgainInv => AgainInv'
  BY <1>1, <1>2, <1>3, AgainKept DEF AgainInv
<1>7. TornInv => TornInv'
  BY <1>1, <1>2, <1>3, TornKept DEF TornInv
<1>8. WritingInv => WritingInv'
  <2>1. WritePos' = WritePos /\ Overwrites' = Overwrites /\ TypeOK' = TypeOK /\ IdsRight' = IdsRight
        /\ TodoRight' = TodoRight /\ OutRight' = OutRight
    BY <1>1, <1>2 DEF WritePos, Overwrites, TypeOK, DocTypeOK, IdsRight, TodoRight, OutRight
  <2>2. PlaceRight' = PlaceRight /\ Size' = Size /\ Opener' = Opener /\ NextMark' = NextMark
    BY <1>1, <1>2, <2>1 DEF PlaceRight, Size, Opener, NextMark
  <2>3. Pending' = Pending
    BY <1>1, <2>1, <2>2 DEF Pending
  <2>4. TextRight' = TextRight
    BY <1>1, <1>2, <2>1, <2>2, <2>3 DEF TextRight, TextIs
  <2> QED
    BY <1>1, <1>2, <2>1, <2>2, <2>4 DEF WritingInv
<1> QED
  BY <1>1, <1>3, <1>4, <1>5, <1>6, <1>7, <1>8 DEF TripInv

LEMMA TripStep ==
    ASSUME InRange, TripInv, [TripNext]_tripVars
    PROVE  TripInv'
BY TripRead, TripError, TripEnd, TripStart, TripSerialize, TripWrite, TripStutter DEF TripNext

-----------------------------------------------------------------------------
(* The theorems.                                                            *)

\* What is known of the file, the reader and the writer in each phase holds in all of
\* the run: of reading, of writing, and of reading again the whole file or a torn one.
THEOREM TripKeeps == InRange => (TripSpec => []TripInv)
<1> SUFFICES ASSUME InRange
             PROVE  TripSpec => []TripInv
  OBVIOUS
<1>1. TripInit => TripInv
  BY TripInitial
<1>2. TripInv /\ [TripNext]_tripVars => TripInv'
  BY TripStep
<1> QED
  BY <1>1, <1>2, PTL DEF TripSpec

\* The types of the reader's members, the writer's and the file's.
THEOREM TripTypes == InRange => (TripSpec => []TripTypeOK)
<1>1. TripInv => TripTypeOK
  <2> SUFFICES ASSUME TripInv
               PROVE  TripTypeOK
    OBVIOUS
  <2>1. TypeOK
    BY DEF TripInv, ReaderInv, WritingInv
  <2>2. \A i \in DOMAIN out : out[i].lex = "value" => out[i].value \in Written
    <3>1. out \in Seq(OutLexeme)
      BY DEF TripInv, FirstTypes
    <3>2. \A i \in DOMAIN out : out[i] \in OutLexeme
      BY <3>1, ElementOfSeq, LenProperties
    <3> QED
      BY <3>2, OutIs
  <2> QED
    BY <2>1, <2>2 DEF TripInv, TextTypes, FirstTypes, TripTypeOK
<1> QED
  BY <1>1, TripKeeps, PTL

\* The next compilation finds each message under the ID that was compiled in, unless
\* an ID did not fit an int.
THEOREM FileReadsBack == InRange => (TripSpec => []ReadsBack)
<1>1. TripInv => ReadsBack
  BY ReadsBackIs DEF TripInv, ReadsBack, Again
<1> QED
  BY <1>1, TripKeeps, PTL

\* A compilation leaves the messages of the file as they are, and adds its own once.
THEOREM FileGrows == InRange => (TripSpec => []KeepsEntries)
<1>1. TripInv => KeepsEntries
  BY KeepsEntriesIs DEF TripInv, KeepsEntries, Again
<1> QED
  BY <1>1, TripKeeps, PTL

\* A file whose writer was killed says nothing else, if it can be read.
THEOREM TornFileHolds == InRange => (TripSpec => []TornFileSafe)
<1>1. TripInv => TornFileSafe
  BY TornSafeIs DEF TripInv, FirstTypes, TornFileSafe
<1> QED
  BY <1>1, TripKeeps, PTL

=============================================================================
