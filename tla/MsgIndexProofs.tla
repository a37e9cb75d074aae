--------------------------- MODULE MsgIndexProofs ---------------------------
(***************************************************************************)
(* Type correctness of MsgIndex, for any messages, processes, files and    *)
(* faults, and the lemmas on message files that all its proofs use.        *)
(***************************************************************************)
EXTENDS MsgIndex, FiniteSetTheorems, SequenceTheorems, TLAPS

-----------------------------------------------------------------------------
(* What the file operations of IndexFile return.                            *)

\* A message object of a file has a key and an int for an ID.
LEMMA MsgIsMsgBlock ==
    ASSUME NEW b \in Block, b.kind = "msg"
    PROVE  b \in MsgBlock
BY DEF Block, MarkBlock

\* The constant blocks are blocks.
LEMMA BlockTypes ==
    /\ End \in Block
    /\ Torn \in Block
    /\ \A k \in Keys, i \in (-IntMax - 1)..IntMax : Msg(k, i) \in Block
BY DEF Block, MsgBlock, MarkBlock, End, Torn, Msg

\* An ID written as an int and read back: the casts of Variant lose nothing.
LEMMA IntCasts ==
    ASSUME NEW id \in MsgId
    PROVE  /\ ToInt(id) \in (-IntMax - 1)..IntMax
           /\ ToUnsigned(ToInt(id)) = id
BY IntMaxAssumption DEF MsgId, MsgIdMax, ToInt, ToUnsigned

\* A read ID is an unsigned of the right width.
LEMMA UnsignedType ==
    ASSUME NEW i \in (-IntMax - 1)..IntMax
    PROVE  ToUnsigned(i) \in MsgId
BY IntMaxAssumption DEF MsgId, MsgIdMax, ToUnsigned

\* Writing into a file, or past its end, leaves a file.
LEMMA OverlayType ==
    ASSUME NEW f \in Seq(Block), NEW n \in Nat, NEW bs \in Seq(Block)
    PROVE  /\ Overlay(f, n, bs) \in Seq(Block)
           /\ Len(Overlay(f, n, bs)) = IF n + Len(bs) > Len(f) THEN n + Len(bs) ELSE Len(f)
           /\ \A i \in 1..Len(Overlay(f, n, bs)) :
                 Overlay(f, n, bs)[i] = IF i \in (n + 1)..(n + Len(bs)) THEN bs[i - n]
                                        ELSE IF i <= Len(f) THEN f[i] ELSE Torn
<1> DEFINE last == IF n + Len(bs) > Len(f) THEN n + Len(bs) ELSE Len(f)
           e(i) == IF i \in (n + 1)..(n + Len(bs)) THEN bs[i - n]
                   ELSE IF i <= Len(f) THEN f[i] ELSE Torn
           g == [i \in 1..last |-> e(i)]
<1>1. last \in Nat /\ Len(f) \in Nat /\ Len(bs) \in Nat
  BY LenProperties
<1>2. \A i \in 1..last : e(i) \in Block
  BY <1>1, ElementOfSeq, BlockTypes
<1>3. g \in [1..last -> Block]
  BY <1>2
<1>4. g \in Seq(Block) /\ Len(g) = last
  BY <1>1, <1>3
<1>5. Overlay(f, n, bs) = g
  BY DEF Overlay
<1> QED
  BY <1>4, <1>5

\* Cutting a file leaves a file.
LEMMA TruncatedType ==
    ASSUME NEW f \in Seq(Block), NEW n \in Nat
    PROVE  /\ Truncated(f, n) \in Seq(Block)
           /\ Len(Truncated(f, n)) = IF Len(f) > n THEN n ELSE Len(f)
           /\ \A i \in 1..Len(Truncated(f, n)) : Truncated(f, n)[i] = f[i]
<1>1. CASE Len(f) > n
  <2>1. \A i \in 1..n : f[i] \in Block
    BY <1>1, ElementOfSeq
  <2> QED
    BY <1>1, <2>1, SubSeqProperties DEF Truncated
<1>2. CASE ~(Len(f) > n)
  BY <1>2 DEF Truncated
<1> QED
  BY <1>1, <1>2

\* A write cut short is a run of blocks, the last one maybe torn.
LEMMA PartialType ==
    ASSUME NEW bs \in Seq(Block), NEW w \in Partial(bs)
    PROVE  /\ w \in Seq(Block)
           /\ Len(w) <= Len(bs)
           /\ \A i \in 1..Len(w) : w[i] = bs[i] \/ w[i] = Torn
<1>1. \A n \in 0..Len(bs) : /\ SubSeq(bs, 1, n) \in Seq(Block)
                            /\ Len(SubSeq(bs, 1, n)) = n
                            /\ \A i \in 1..n : SubSeq(bs, 1, n)[i] = bs[i]
  <2> TAKE n \in 0..Len(bs)
  <2>1. \A i \in 1..n : bs[i] \in Block
    BY ElementOfSeq
  <2> QED
    BY <2>1, SubSeqProperties
<1>2. CASE \E n \in 0..Len(bs) : w = SubSeq(bs, 1, n)
  BY <1>1, <1>2
<1>3. CASE \E n \in 0..(Len(bs) - 1) : w = SubSeq(bs, 1, n) \o << Torn >>
  <2>1. PICK n \in 0..(Len(bs) - 1) : w = SubSeq(bs, 1, n) \o << Torn >>
    BY <1>3
  <2>2. << Torn >> \in Seq(Block) /\ Len(<< Torn >>) = 1 /\ << Torn >>[1] = Torn
    BY BlockTypes
  <2>3. n \in 0..Len(bs)
    BY LenProperties
  <2> DEFINE s == SubSeq(bs, 1, n)
  <2>4. s \in Seq(Block) /\ Len(s) = n /\ \A i \in 1..n : s[i] = bs[i]
    BY <1>1, <2>3
  <2> HIDE DEF s
  <2>5. /\ s \o << Torn >> \in Seq(Block)
        /\ Len(s \o << Torn >>) = n + 1
        /\ \A i \in 1..(n + 1) : (s \o << Torn >>)[i] = IF i <= n THEN s[i] ELSE << Torn >>[i - n]
    BY <2>2, <2>4, ConcatProperties
  <2> QED
    BY <2>1, <2>2, <2>4, <2>5 DEF s
<1> QED
  BY <1>2, <1>3 DEF Partial

\* The messages that lead a file are as many as its length at most.
LEMMA LeadType ==
    ASSUME NEW f \in Seq(Block)
    PROVE  /\ IsFiniteSet(Lead(f))
           /\ Cardinality(Lead(f)) \in 0..Len(f)
<1>1. Lead(f) \subseteq 1..Len(f) /\ Len(f) \in Nat
  BY LenProperties DEF Lead
<1>2. IsFiniteSet(1..Len(f)) /\ Cardinality(1..Len(f)) = Len(f)
  <2>1. ASSUME NEW n \in Nat
        PROVE  IsFiniteSet(1..n) /\ Cardinality(1..n) = n
    <3>1. 1 \in Int /\ n \in Int
      OBVIOUS
    <3>2. IsFiniteSet(1..n) /\ Cardinality(1..n) = IF 1 > n THEN 0 ELSE n - 1 + 1
      BY <3>1, FS_Interval
    <3> QED
      BY <3>2
  <2> QED
    BY <1>1, <2>1
<1> QED
  BY <1>1, <1>2, FS_Subset, FS_CardinalityType

-----------------------------------------------------------------------------
(* What the file operations do to the messages a file records.              *)

\* Nothing before a leading message is anything else.
LEMMA LeadMembers ==
    ASSUME NEW f \in Seq(Block), NEW i \in Lead(f)
    PROVE  /\ i \in 1..Len(f)
           /\ f[i] \in MsgBlock
           /\ 1..i \subseteq Lead(f)
<1>1. i \in 1..Len(f) /\ \A j \in 1..i : f[j].kind = "msg"
  BY DEF Lead
<1>2. f[i] \in MsgBlock
  BY <1>1, ElementOfSeq, MsgIsMsgBlock
<1>3. 1..i \subseteq Lead(f)
  BY <1>1, LenProperties DEF Lead
<1> QED
  BY <1>1, <1>2, <1>3

\* What a file registers are pairs of a key and an ID.
LEMMA RegisteredType ==
    ASSUME NEW f \in Seq(Block)
    PROVE  Registered(f) \subseteq [key : Keys, id : MsgId]
<1> SUFFICES ASSUME NEW i \in Lead(f) PROVE EntryOf(f[i]) \in [key : Keys, id : MsgId]
  BY DEF Registered
<1>1. f[i].key \in Keys /\ f[i].id \in (-IntMax - 1)..IntMax
  BY LeadMembers DEF MsgBlock
<1> QED
  BY <1>1, UnsignedType DEF EntryOf

\* The leading messages are the first n blocks if these are messages and the
\* next block, if there is one, is not.
LEMMA LeadIs ==
    ASSUME NEW f \in Seq(Block), NEW n \in 0..Len(f),
           \A i \in 1..n : f[i].kind = "msg",
           n < Len(f) => f[n + 1].kind # "msg"
    PROVE  Lead(f) = 1..n
BY LenProperties DEF Lead

\* A message appended to nothing but messages.
LEMMA AppendMsg ==
    ASSUME NEW f \in Seq(Block), Lead(f) = 1..Len(f), NEW b \in Block, b.kind = "msg"
    PROVE  /\ Lead(Append(f, b)) = 1..Len(Append(f, b))
           /\ Registered(Append(f, b)) = Registered(f) \cup {EntryOf(b)}
<1> DEFINE g == Append(f, b)
<1>1. /\ g \in Seq(Block) /\ Len(g) = Len(f) + 1 /\ Len(f) \in Nat
      /\ \A i \in 1..Len(f) : g[i] = f[i]
      /\ g[Len(f) + 1] = b
  BY AppendProperties, LenProperties
<1> HIDE DEF g
<1>2. \A i \in 1..Len(f) : f[i].kind = "msg"
  BY DEF Lead
<1>3. \A i \in 1..Len(g) : g[i].kind = "msg"
  BY <1>1, <1>2
<1>4. Lead(g) = 1..Len(g)
  BY <1>1, <1>3 DEF Lead
<1>5. Registered(g) = Registered(f) \cup {EntryOf(b)}
  BY <1>1, <1>4 DEF Registered
<1> QED
  BY <1>4, <1>5 DEF g

\* The closing bracket appended to nothing but messages.
LEMMA AppendEnd ==
    ASSUME NEW f \in Seq(Block), Lead(f) = 1..Len(f)
    PROVE  Registered(Append(f, End)) = Registered(f)
<1> DEFINE g == Append(f, End)
<1>1. /\ g \in Seq(Block) /\ Len(g) = Len(f) + 1 /\ Len(f) \in Nat
      /\ \A i \in 1..Len(f) : g[i] = f[i]
      /\ g[Len(f) + 1] = End
  BY AppendProperties, LenProperties, BlockTypes
<1> HIDE DEF g
<1>2. \A i \in 1..Len(f) : g[i].kind = "msg"
  BY <1>1 DEF Lead
<1>3. End.kind # "msg"
  BY DEF End
<1>4. Lead(g) = 1..Len(f)
  BY <1>1, <1>2, <1>3, LeadIs
<1> QED
  BY <1>1, <1>4 DEF Registered, g

\* A file whose messages are its first n blocks, with w written after them,
\* records what it did and what w records.
LEMMA OverlayRegistered ==
    ASSUME NEW f \in Seq(Block), NEW n \in 0..Len(f), Lead(f) = 1..n,
           \A i \in (n + 1)..Len(f) : f[i].kind # "msg",
           NEW w \in Seq(Block)
    PROVE  /\ Registered(Overlay(f, n, w)) = Registered(f) \cup Registered(w)
           /\ Lead(Overlay(f, n, w)) \subseteq 1..(n + Len(w))
<1> DEFINE g == Overlay(f, n, w)
<1>1. Len(f) \in Nat /\ Len(w) \in Nat
  BY LenProperties
<1>2. /\ g \in Seq(Block)
      /\ Len(g) = IF n + Len(w) > Len(f) THEN n + Len(w) ELSE Len(f)
      /\ \A i \in 1..Len(g) : g[i] = IF i \in (n + 1)..(n + Len(w)) THEN w[i - n]
                                     ELSE IF i <= Len(f) THEN f[i] ELSE Torn
  BY <1>1, OverlayType
<1> HIDE DEF g
<1>3. \A i \in 1..n : i \in 1..Len(g) /\ g[i] = f[i] /\ f[i].kind = "msg"
  BY SMTT(30), <1>1, <1>2 DEF Lead
<1>4. \A i \in 1..Len(w) : n + i \in 1..Len(g) /\ g[n + i] = w[i]
  <2> TAKE i \in 1..Len(w)
  <2>1. n + i \in 1..Len(g) /\ n + i \in (n + 1)..(n + Len(w)) /\ (n + i) - n = i
    BY <1>1, <1>2
  <2> QED
    BY <1>2, <2>1
<1>5. \A i \in (n + Len(w) + 1)..Len(g) : g[i].kind # "msg"
  <2> TAKE i \in (n + Len(w) + 1)..Len(g)
  <2>1. i \in (n + 1)..Len(f) /\ g[i] = f[i]
    BY <1>1, <1>2
  <2> QED
    BY <2>1
<1>6. Lead(g) = 1..n \cup {n + i : i \in Lead(w)}
  <2>1. ASSUME NEW i \in Lead(g) PROVE i \in 1..n \cup {n + j : j \in Lead(w)}
    <3>1. i \in 1..Len(g) /\ \A j \in 1..i : g[j].kind = "msg"
      BY DEF Lead
    <3>2. CASE i \in 1..n
      BY <3>2
    <3>3. CASE i \notin 1..n
      <4>1. i - n \in 1..Len(w)
        <5>1. i \notin (n + Len(w) + 1)..Len(g)
          BY <1>5, <3>1, <1>1
        <5> QED
          BY <1>1, <1>2, <3>1, <3>3, <5>1
      <4>2. \A j \in 1..(i - n) : w[j].kind = "msg"
        <5> TAKE j \in 1..(i - n)
        <5>1. j \in 1..Len(w) /\ n + j \in 1..i
          BY <1>1, <3>1, <4>1
        <5> QED
          BY <1>4, <3>1, <5>1
      <4>3. i - n \in Lead(w)
        BY <4>1, <4>2 DEF Lead
      <4>4. i = n + (i - n)
        BY <3>1, <1>1
      <4> QED
        BY <4>3, <4>4
    <3> QED
      BY <3>2, <3>3
  <2>2. ASSUME NEW i \in 1..n PROVE i \in Lead(g)
    BY <1>1, <1>3 DEF Lead
  <2>3. ASSUME NEW i \in Lead(w) PROVE n + i \in Lead(g)
    <3>1. i \in 1..Len(w) /\ \A j \in 1..i : w[j].kind = "msg"
      BY DEF Lead
    <3>2. \A j \in 1..(n + i) : g[j].kind = "msg"
      <4> TAKE j \in 1..(n + i)
      <4>1. CASE j \in 1..n
        BY <1>3, <4>1
      <4>2. CASE j \notin 1..n
        <5>1. j - n \in 1..i /\ j - n \in 1..Len(w) /\ j = n + (j - n)
          BY <1>1, <3>1, <4>2
        <5> QED
          BY <1>4, <3>1, <5>1
      <4> QED
        BY <4>1, <4>2
    <3> QED
      BY <1>4, <3>1, <3>2 DEF Lead
  <2> QED
    BY <2>1, <2>2, <2>3
<1>7. \A i \in Lead(w) : i \in 1..Len(w)
  BY DEF Lead
<1>8. Registered(g) = Registered(f) \cup Registered(w)
  <2>1. \A i \in Lead(g) : EntryOf(g[i]) \in Registered(f) \cup Registered(w)
    BY <1>3, <1>4, <1>6, <1>7 DEF Registered
  <2>2. \A i \in Lead(f) : EntryOf(f[i]) \in Registered(g)
    BY <1>3, <1>6 DEF Registered
  <2>3. \A i \in Lead(w) : EntryOf(w[i]) \in Registered(g)
    BY <1>4, <1>6, <1>7 DEF Registered
  <2> QED
    BY <2>1, <2>2, <2>3 DEF Registered
<1>9. Lead(g) \subseteq 1..(n + Len(w))
  BY <1>1, <1>6, <1>7
<1> QED
  BY <1>8, <1>9 DEF g

\* Cutting a file after its messages leaves them.
LEMMA TruncatedRegistered ==
    ASSUME NEW f \in Seq(Block), NEW n \in Nat, Lead(f) \subseteq 1..n
    PROVE  /\ Lead(Truncated(f, n)) = Lead(f)
           /\ Registered(Truncated(f, n)) = Registered(f)
<1> DEFINE g == Truncated(f, n)
<1>1. Len(f) \in Nat
  BY LenProperties
<1>2. /\ g \in Seq(Block) /\ Len(g) = IF Len(f) > n THEN n ELSE Len(f)
      /\ \A i \in 1..Len(g) : g[i] = f[i]
  BY TruncatedType
<1> HIDE DEF g
<1>3. \A i \in Lead(f) : i \in 1..Len(g)
  BY <1>1, <1>2 DEF Lead
<1>4. Lead(g) = Lead(f)
  BY SMTT(30), <1>1, <1>2, <1>3 DEF Lead
<1>5. Registered(g) = Registered(f)
  BY <1>2, <1>3, <1>4 DEF Registered
<1> QED
  BY <1>4, <1>5 DEF g

\* A write cut short records nothing the whole write would not.
LEMMA PartialRegistered ==
    ASSUME NEW bs \in Seq(Block), NEW w \in Partial(bs)
    PROVE  Registered(w) \subseteq Registered(bs)
<1>1. /\ w \in Seq(Block) /\ Len(w) <= Len(bs) /\ Len(w) \in Nat /\ Len(bs) \in Nat
      /\ \A i \in 1..Len(w) : w[i] = bs[i] \/ w[i] = Torn
  BY PartialType, LenProperties
<1>2. ASSUME NEW i \in Lead(w) PROVE i \in Lead(bs) /\ w[i] = bs[i]
  <2>1. i \in 1..Len(w) /\ \A j \in 1..i : w[j].kind = "msg"
    BY DEF Lead
  <2>2. \A j \in 1..i : w[j] = bs[j]
    BY <1>1, <2>1 DEF Torn
  <2> QED
    BY <1>1, <2>1, <2>2 DEF Lead
<1> QED
  BY <1>2 DEF Registered

\* Where a document may end, after n messages, there are no more messages.
LEMMA EndOfMessages ==
    ASSUME NEW f \in Seq(Block), NEW n \in 0..Len(f), 1..n \subseteq Lead(f),
           \/ f = << >>
           \/ n < Len(f) /\ f[n + 1] = End /\ TailOK(f, n + 1)
    PROVE  /\ Lead(f) = 1..n
           /\ \A i \in (n + 1)..Len(f) : f[i].kind # "msg"
<1>1. \A i \in 1..n : f[i].kind = "msg"
  BY DEF Lead
<1>2. CASE f = << >>
  BY <1>2 DEF Lead
<1>3. CASE n < Len(f) /\ f[n + 1] = End /\ TailOK(f, n + 1)
  <2>1. Len(f) \in Nat /\ f[n + 1].kind # "msg"
    BY <1>3, LenProperties DEF End
  <2>2. Lead(f) = 1..n
    BY <1>1, <2>1, LeadIs
  <2>3. CASE Len(f) = n + 1
    BY <2>1, <2>2, <2>3
  <2>4. CASE SubSeq(f, n + 2, Len(f)) = Remark
    <3>1. \A i \in (n + 2)..Len(f) : f[i] \in Block
      BY <2>1, ElementOfSeq
    <3> DEFINE t == SubSeq(f, n + 2, Len(f))
    <3>2. /\ Len(t) = IF n + 2 <= Len(f) THEN Len(f) - (n + 2) + 1 ELSE 0
          /\ \A i \in 1..(Len(f) - (n + 2) + 1) : t[i] = f[n + 2 + i - 1]
      BY <2>1, <3>1, SubSeqProperties
    <3>a. t = Remark
      BY <2>4
    <3> HIDE DEF t
    <3>3. Len(t) = 2 /\ t[1].kind # "msg" /\ t[2].kind # "msg"
      BY <3>a DEF Remark
    <3>4. Len(f) = n + 3
      <4>1. (IF n + 2 <= Len(f) THEN Len(f) - (n + 2) + 1 ELSE 0) = 2
        BY <3>2, <3>3
      <4> QED
        BY <2>1, <4>1
    <3>5. f[n + 2].kind # "msg" /\ f[n + 3].kind # "msg"
      <4>1. 1 \in 1..(Len(f) - (n + 2) + 1) /\ 2 \in 1..(Len(f) - (n + 2) + 1)
        BY <3>4
      <4>2. t[1] = f[n + 2 + 1 - 1] /\ t[2] = f[n + 2 + 2 - 1]
        BY <3>2, <4>1
      <4>3. n + 2 + 1 - 1 = n + 2 /\ n + 2 + 2 - 1 = n + 3
        OBVIOUS
      <4> QED
        BY <3>3, <4>2, <4>3
    <3>6. \A i \in (n + 1)..Len(f) : i = n + 1 \/ i = n + 2 \/ i = n + 3
      BY <3>4
    <3> QED
      BY <2>1, <2>2, <3>5, <3>6
  <2> QED
    BY <1>3, <2>3, <2>4 DEF TailOK
<1> QED
  BY <1>2, <1>3

-----------------------------------------------------------------------------
(* Type correctness.                                                        *)

\* A process goes to a source file only while one is left.
SrcLeft == \A p \in Procs : pc[p] = "opensrc" => rdr[p] < Len(SrcFiles)

TypeInv == TypeOK /\ SrcLeft

USE DEF INVALID_MSG_ID

\* The stream a reader reads is a file.
LEMMA StreamType ==
    ASSUME TypeOK, NEW p \in Procs
    PROVE  Stream(p) \in Seq(Block)
<1>1. rdr[p] \in 0..Len(srcs) /\ file \in Seq(Block) /\ srcs \in Seq(Seq(Block))
  BY DEF TypeOK
<1>2. rdr[p] # 0 => rdr[p] \in 1..Len(srcs)
  BY <1>1, LenProperties
<1> QED
  BY <1>1, <1>2, ElementOfSeq DEF Stream

\* The next ID is an unsigned, also after the last one.
LEMMA NextIdType ==
    ASSUME NEW m \in MsgId
    PROVE  NextId(m) \in MsgId
BY IntMaxAssumption DEF NextId, MsgId, MsgIdMax

\* The message object a reader is at has a key and an int for an ID.
LEMMA BlockAtType ==
    ASSUME TypeOK, NEW p \in Procs, AtMsg(p)
    PROVE  Stream(p)[pos[p] + 1] \in MsgBlock
<1>1. Stream(p) \in Seq(Block) /\ pos[p] \in Nat
  BY StreamType DEF TypeOK
<1>2. pos[p] + 1 \in 1..Len(Stream(p))
  BY <1>1, LenProperties DEF AtMsg
<1>3. Stream(p)[pos[p] + 1] \in Block
  BY <1>1, <1>2, ElementOfSeq
<1> QED
  BY <1>3, MsgIsMsgBlock DEF AtMsg

\* A good ID is an unsigned below INT_MAX.
LEMMA GoodIdType ==
    ASSUME NEW b \in MsgBlock, GoodId(b)
    PROVE  b.key \in Keys /\ b.id \in MsgId /\ b.id \in 1..IntMax
BY IntMaxAssumption DEF MsgBlock, GoodId, MsgId, MsgIdMax

\* Where the writer writes, and the file after its write.
LEMMA WriteType ==
    ASSUME TypeOK, NEW p \in Procs
    PROVE  /\ WritePos(p) \in Nat
           /\ TellP(p) \in Nat
           /\ Overlay(file, WritePos(p), out[p]) \in Seq(Block)
           /\ Flushed(p) \in Seq(Block)
           /\ \A w \in Partial(out[p]) : Overlay(file, WritePos(p), w) \in Seq(Block)
           /\ Truncated(file, TellP(p)) \in Seq(Block)
<1>1. WritePos(p) \in Nat /\ out[p] \in Seq(Block) /\ file \in Seq(Block)
  BY DEF TypeOK, WritePos
<1>2. TellP(p) \in Nat
  BY <1>1, LenProperties DEF TellP
<1>3. Overlay(file, WritePos(p), out[p]) \in Seq(Block)
  BY <1>1, OverlayType
<1>4. ASSUME NEW w \in Partial(out[p])
      PROVE  Overlay(file, WritePos(p), w) \in Seq(Block)
  BY <1>1, PartialType, OverlayType
<1>5. Truncated(file, TellP(p)) \in Seq(Block)
  BY <1>1, <1>2, TruncatedType
<1> QED
  BY <1>1, <1>2, <1>3, <1>4, <1>5 DEF Flushed

\* At first every variable has its type.
LEMMA TypeInit == Init => TypeInv
<1> SUFFICES ASSUME Init PROVE TypeInv
  OBVIOUS
<1>1. Len(SrcFiles) \in Nat
  BY FilesAssumption, LenProperties
<1>2. 0 \in MsgId /\ NewData \in [id : MsgId, src : MsgSrc]
  BY IntMaxAssumption DEF MsgId, MsgIdMax, NewData, MsgSrc
<1>3. << >> \in Seq(Block)
  OBVIOUS
<1>4. TypeOK
  BY <1>1, <1>2, <1>3, FilesAssumption, MaxRunsAssumption DEF Init, TypeOK, Phases
<1>5. SrcLeft
  BY DEF Init, SrcLeft
<1> QED
  BY <1>4, <1>5 DEF TypeInv

\* The locals of a process that has ended have their types.
LEMMA ForgetType ==
    ASSUME TypeOK, NEW p \in Procs, Forget(p)
    PROVE  /\ tu' \in [Procs -> SUBSET Keys]
           /\ data' \in [Procs -> [Keys -> [id : MsgId, src : MsgSrc]]]
           /\ rdr' \in [Procs -> 0..Len(SrcFiles)]
           /\ pos' \in [Procs -> Nat]
           /\ found' \in [Procs -> SUBSET MsgId]
           /\ endPos' \in [Procs -> Nat \cup {-1}]
           /\ maxId' \in [Procs -> MsgId]
           /\ todo' \in [Procs -> SUBSET Keys]
           /\ out' \in [Procs -> Seq(Block)]
           /\ dirty' \in [Procs -> BOOLEAN]
<1>1. Len(SrcFiles) \in Nat
  BY FilesAssumption, LenProperties
<1>2. 0 \in MsgId /\ NewData \in [id : MsgId, src : MsgSrc]
  BY IntMaxAssumption DEF MsgId, MsgIdMax, NewData, MsgSrc
<1> QED
  BY <1>1, <1>2 DEF Forget, TypeOK

\* Every step of a process or of the environment keeps the types.
LEMMA TypeStep == TypeInv /\ [Next]_vars => TypeInv'
<1> SUFFICES ASSUME TypeInv, [Next]_vars PROVE TypeInv'
  OBVIOUS
<1> USE DEF TypeInv
<1> USE DEF readVars, writeVars, localVars
<1>0. lock \in Procs \cup {NoProc} /\ \A p \in Procs :
        LockAfterClose(p) \in Procs \cup {NoProc} /\ LockAfterUnlock(p) \in Procs \cup {NoProc}
  BY DEF TypeOK, LockAfterClose, LockAfterUnlock
<1>1. ASSUME NEW p \in Procs, StartCompile(p) PROVE TypeInv'
  BY <1>1 DEF TypeOK, SrcLeft, StartCompile, Goto, Phases
<1>2. ASSUME NEW p \in Procs, OpenDest(p) PROVE TypeInv'
  BY <1>2 DEF TypeOK, SrcLeft, OpenDest, Goto, Phases
<1>3. ASSUME NEW p \in Procs, LockDest(p) PROVE TypeInv'
  BY <1>3 DEF TypeOK, SrcLeft, LockDest, Goto, Phases
<1>4. ASSUME NEW p \in Procs, ReopenDest(p) PROVE TypeInv'
  BY <1>4, <1>0 DEF TypeOK, SrcLeft, ReopenDest, Goto, Phases
<1>5. ASSUME NEW p \in Procs, OpenFails(p) PROVE TypeInv'
  BY <1>5, <1>0 DEF TypeOK, SrcLeft, OpenFails, Goto, Phases
<1>6. ASSUME NEW p \in Procs, ReadObject(p) PROVE TypeInv'
  <2> DEFINE b == Stream(p)[pos[p] + 1]
  <2>1. b.key \in Keys /\ b.id \in MsgId
    BY <1>6, BlockAtType, GoodIdType DEF ReadObject
  <2>2. SrcTag(p) \in MsgSrc
    BY DEF SrcTag, MsgSrc
  <2>3. \A m \in MsgId : Greater(m, b.id) \in MsgId
    BY <2>1 DEF Greater
  <2> HIDE DEF b
  <2>4. /\ data' = [data EXCEPT ![p][b.key] = [id |-> b.id, src |-> SrcTag(p)]] \/ data' = data
        /\ found' = [found EXCEPT ![p] = @ \cup {b.id}] \/ found' = found
        /\ maxId' = [maxId EXCEPT ![p] = Greater(@, b.id)]
    BY <1>6 DEF ReadObject, b
  <2>5. data' \in [Procs -> [Keys -> [id : MsgId, src : MsgSrc]]]
    <3> DEFINE d == [id |-> b.id, src |-> SrcTag(p)]
    <3>1. d \in [id : MsgId, src : MsgSrc]
      BY <2>1, <2>2
    <3>2. data' = [data EXCEPT ![p][b.key] = d] \/ data' = data
      BY <2>4
    <3> HIDE DEF d
    <3> DEFINE row == [data[p] EXCEPT ![b.key] = d]
    <3>3. row \in [Keys -> [id : MsgId, src : MsgSrc]]
      BY <2>1, <3>1 DEF TypeOK
    <3>4. data' = [data EXCEPT ![p] = row] \/ data' = data
      BY <3>2
    <3> HIDE DEF row
    <3> QED
      BY <3>3, <3>4 DEF TypeOK
  <2>6. found' \in [Procs -> SUBSET MsgId]
    <3>1. found' = [found EXCEPT ![p] = found[p] \cup {b.id}] \/ found' = found
      BY <2>4
    <3>2. found[p] \cup {b.id} \in SUBSET MsgId
      BY <2>1 DEF TypeOK
    <3> QED
      BY <3>1, <3>2 DEF TypeOK
  <2>7. maxId' \in [Procs -> MsgId]
    <3>1. maxId[p] \in MsgId
      BY DEF TypeOK
    <3>2. maxId' = [maxId EXCEPT ![p] = Greater(maxId[p], b.id)]
      BY <2>4
    <3>3. Greater(maxId[p], b.id) \in MsgId
      BY <2>3, <3>1
    <3> QED
      BY <3>2, <3>3 DEF TypeOK
  <2>8. pos' \in [Procs -> Nat] /\ endPos' \in [Procs -> Nat \cup {-1}]
    BY <1>6 DEF TypeOK, ReadObject
  <2> QED
    BY <1>6, <2>5, <2>6, <2>7, <2>8 DEF TypeOK, SrcLeft, ReadObject
<1>7. ASSUME NEW p \in Procs, ReadEnd(p) PROVE TypeInv'
  <2>1. PICK to \in {"unlock", "opensrc", "serialize"} :
            pc' = [pc EXCEPT ![p] = to] /\ (to = "opensrc" => rdr[p] < Len(srcs))
    BY <1>7, SMTT(20) DEF ReadEnd, Goto
  <2>2. todo' = todo \/ todo' = [todo EXCEPT ![p] = ToWrite(p)]
    BY <1>7 DEF ReadEnd
  <2>3. pc' \in [Procs -> Phases]
    BY <2>1 DEF TypeOK, Phases
  <2>5. todo' \in [Procs -> SUBSET Keys]
    <3>1. ToWrite(p) \in SUBSET Keys
      BY DEF TypeOK, ToWrite
    <3> QED
      BY <2>2, <3>1 DEF TypeOK
  <2>4. SrcLeft'
    BY <1>7, <2>1 DEF TypeOK, SrcLeft, ReadEnd
  <2> QED
    BY <1>7, <2>3, <2>4, <2>5 DEF TypeOK, ReadEnd
<1>8. ASSUME NEW p \in Procs, ReadThrows(p) PROVE TypeInv'
  BY <1>8 DEF TypeOK, SrcLeft, ReadThrows, Goto, Phases
<1>9. ASSUME NEW p \in Procs, OpenSrc(p) PROVE TypeInv'
  <2>1. Len(SrcFiles) \in Nat /\ rdr[p] < Len(SrcFiles)
    BY <1>9, FilesAssumption, LenProperties DEF SrcLeft, OpenSrc
  <2>2. rdr' \in [Procs -> 0..Len(SrcFiles)]
    BY SMTT(30), <1>9, <2>1 DEF TypeOK, OpenSrc
  <2> QED
    BY <1>9, <2>2 DEF TypeOK, SrcLeft, OpenSrc, Goto, Phases
<1>10. ASSUME NEW p \in Procs, SerializeMsg(p) PROVE TypeInv'
  <2>1. PICK k \in todo[p], id \in MsgId :
          /\ data' = [data EXCEPT ![p][k] = [id |-> id, src |-> @.src]]
          /\ maxId' = [maxId EXCEPT ![p] = id] \/ maxId' = maxId
          /\ out' = [out EXCEPT ![p] = Append(@, Msg(k, ToInt(id)))]
          /\ todo' = [todo EXCEPT ![p] = @ \ {k}]
    <3>1. PICK k \in todo[p] :
            LET isNew == data[p][k].id = INVALID_MSG_ID
                id == IF isNew THEN NextId(maxId[p]) ELSE data[p][k].id
            IN  /\ data' = [data EXCEPT ![p][k] = [id |-> id, src |-> @.src]]
                /\ maxId' = IF isNew THEN [maxId EXCEPT ![p] = id] ELSE maxId
                /\ out' = [out EXCEPT ![p] = Append(@, Msg(k, ToInt(id)))]
                /\ todo' = [todo EXCEPT ![p] = @ \ {k}]
      BY <1>10 DEF SerializeMsg
    <3> DEFINE id == IF data[p][k].id = INVALID_MSG_ID THEN NextId(maxId[p]) ELSE data[p][k].id
    <3>2. id \in MsgId
      BY NextIdType DEF TypeOK
    <3> QED
      BY <3>1, <3>2
  <2>2. k \in Keys /\ Msg(k, ToInt(id)) \in Block
    BY IntCasts, BlockTypes DEF TypeOK
  <2>3. data' \in [Procs -> [Keys -> [id : MsgId, src : MsgSrc]]]
    BY <2>1, <2>2 DEF TypeOK
  <2>4. maxId' \in [Procs -> MsgId] /\ todo' \in [Procs -> SUBSET Keys]
    BY <2>1, <2>2 DEF TypeOK
  <2>5. out' \in [Procs -> Seq(Block)]
    BY <2>1, <2>2, AppendProperties DEF TypeOK
  <2> QED
    BY <1>10, <2>3, <2>4, <2>5 DEF TypeOK, SrcLeft, SerializeMsg
<1>11. ASSUME NEW p \in Procs, SerializeEnd(p) PROVE TypeInv'
  <2>1. out' \in [Procs -> Seq(Block)]
    BY <1>11, BlockTypes, AppendProperties DEF TypeOK, SerializeEnd
  <2> QED
    BY <1>11, <2>1 DEF TypeOK, SrcLeft, SerializeEnd, Goto, Phases
<1>12. ASSUME NEW p \in Procs, WriteDest(p) PROVE TypeInv'
  <2>1. file' \in Seq(Block)
    BY <1>12, WriteType DEF WriteDest, TypeOK
  <2> QED
    BY <1>12, <2>1 DEF TypeOK, SrcLeft, WriteDest, Goto, Phases
<1>13. ASSUME NEW p \in Procs, WriteThrows(p) PROVE TypeInv'
  <2>1. file' \in Seq(Block)
    BY <1>13, WriteType DEF WriteThrows
  <2> QED
    BY <1>13, <2>1 DEF TypeOK, SrcLeft, WriteThrows, Goto, Phases
<1>14. ASSUME NEW p \in Procs, ResizeDest(p) PROVE TypeInv'
  <2>1. file' \in Seq(Block)
    BY <1>14, WriteType DEF ResizeDest
  <2> QED
    BY <1>14, <2>1 DEF TypeOK, SrcLeft, ResizeDest, Goto, Phases
<1>15. ASSUME NEW p \in Procs, ResizeThrows(p) PROVE TypeInv'
  BY <1>15 DEF TypeOK, SrcLeft, ResizeThrows, Goto, Phases
<1>16. ASSUME NEW p \in Procs, CloseDest(p) PROVE TypeInv'
  <2>1. file' \in Seq(Block)
    BY <1>16, WriteType DEF CloseDest
  <2> QED
    BY <1>16, <1>0, <2>1 DEF TypeOK, SrcLeft, CloseDest, Goto, Phases
<1>17. ASSUME NEW p \in Procs, Unlock(p) PROVE TypeInv'
  BY <1>17, <1>0 DEF TypeOK, SrcLeft, Unlock, Goto, Phases
<1>18. ASSUME NEW p \in Procs, Emit(p) PROVE TypeInv'
  <2>1. issued' \subseteq [key : Keys, id : MsgId]
    BY <1>18 DEF TypeOK, Emit
  <2>2. SrcLeft'
    BY <1>18, <2>1 DEF SrcLeft, TypeOK, Emit, Forget, Goto
  <2> QED
    BY <1>18, <2>1, <2>2, ForgetType DEF TypeOK, Emit, Goto, Phases
<1>19. ASSUME NEW p \in Procs, Unwind(p) PROVE TypeInv'
  BY <1>19, <1>0 DEF TypeOK, SrcLeft, Unwind, Goto, Phases
<1>20. ASSUME NEW p \in Procs, CloseUnwound(p) PROVE TypeInv'
  <2>1. file' \in Seq(Block)
    BY <1>20, WriteType DEF CloseUnwound
  <2>2. SrcLeft'
    BY <1>20 DEF SrcLeft, TypeOK, CloseUnwound, Forget, Goto
  <2> QED
    BY <1>20, <2>1, <2>2, ForgetType DEF TypeOK, CloseUnwound, Goto, Phases
<1>21. ASSUME NEW p \in Procs, Crash(p) PROVE TypeInv'
  <2>1. file' \in Seq(Block)
    BY <1>21, WriteType DEF Crash, TypeOK
  <2>2. SrcLeft'
    BY <1>21 DEF SrcLeft, TypeOK, Crash, Forget, Goto
  <2> QED
    BY <1>21, <1>0, <2>1, <2>2, ForgetType DEF TypeOK, Crash, Goto, Phases
<1>22. ASSUME NEW i \in DOMAIN srcs, NEW k \in Keys, Publish(i, k) PROVE TypeInv'
  <2> DEFINE f == srcs[i]
             c == Cardinality(Lead(f))
  <2>1. i \in 1..Len(srcs) /\ f \in Seq(Block)
    BY LenProperties, ElementOfSeq DEF TypeOK
  <2>2. c \in 0..Len(f) /\ Len(f) \in Nat
    BY <2>1, LeadType, LenProperties
  <2>3. PICK top \in 0..(IntMax - 1) :
          srcs' = [srcs EXCEPT ![i] = SubSeq(f, 1, c) \o << Msg(k, top + 1), End >>]
    BY <1>22 DEF Publish, TypeOK
  <2> HIDE DEF c, f
  <2>4. SubSeq(f, 1, c) \in Seq(Block)
    <3>1. \A j \in 1..c : f[j] \in Block
      BY <2>1, <2>2, ElementOfSeq
    <3> QED
      BY <2>2, <3>1, SubSeqProperties
  <2>5. << Msg(k, top + 1), End >> \in Seq(Block)
    BY SMTT(30), <2>3, BlockTypes, IntMaxAssumption
  <2>6. SubSeq(f, 1, c) \o << Msg(k, top + 1), End >> \in Seq(Block)
    BY <2>4, <2>5, ConcatProperties
  <2>7. srcs' \in Seq(Seq(Block)) /\ Len(srcs') = Len(srcs)
    BY <2>1, <2>3, <2>6, ExceptSeq DEF TypeOK
  <2> QED
    BY <1>22, <2>7 DEF TypeOK, SrcLeft, Publish
<1>23. ASSUME UNCHANGED vars PROVE TypeInv'
  BY <1>23 DEF TypeOK, SrcLeft, vars
<1> QED
  BY <1>1, <1>2, <1>3, <1>4, <1>5, <1>6, <1>7, <1>8, <1>9, <1>10, <1>11, <1>12, <1>13,
     <1>14, <1>15, <1>16, <1>17, <1>18, <1>19, <1>20, <1>21, <1>22, <1>23
  DEF Next, Step, BuildDone

\* The type invariant holds in every run of the compilations: IDs stay
\* unsigneds, the file stays a sequence of blocks and no reader runs past the
\* source files of MsgIndex::process(), for any files, processes and faults.
THEOREM TypeCorrect == Spec => []TypeOK
<1>1. Spec => []TypeInv
  BY TypeInit, TypeStep, PTL DEF Spec
<1>2. TypeInv => TypeOK
  BY DEF TypeInv
<1> QED
  BY <1>1, <1>2, PTL

=============================================================================
