--------------------------- MODULE MsgIndexSafety ---------------------------
(***************************************************************************)
(* Safety of the message index, for any messages, processes and files: the *)
(* compilations implement IdRegistry as long as locks exclude, nothing but *)
(* crashes and failing opens goes wrong, and the message files agree with  *)
(* one another at first (Exclusive, Benign and CoherentStart).             *)
(***************************************************************************)
EXTENDS MsgIndexInv, MsgIndexProofs

USE DEF INVALID_MSG_ID

-----------------------------------------------------------------------------
(* Facts about coherent sets and about what processes know.                 *)

\* Part of a coherent set of pairs is coherent.
LEMMA CoherentSubset ==
    ASSUME NEW S, Coherent(S), NEW T \in SUBSET S
    PROVE  Coherent(T)
BY DEF Coherent

\* A pair with a new key and a new ID leaves a set coherent.
LEMMA CoherentAdd ==
    ASSUME NEW S, Coherent(S), NEW e, \A s \in S : s.key # e.key /\ s.id # e.id
    PROVE  Coherent(S \cup {e})
BY DEF Coherent

\* What a process knows are pairs of a key and an ID.
LEMMA KnownType ==
    ASSUME TypeOK, NEW p \in Procs
    PROVE  Known(p) \subseteq [key : Keys, id : MsgId]
BY DEF TypeOK, Known

\* What the message files record are pairs of a key and an ID.
LEMMA RecordedType ==
    ASSUME TypeOK
    PROVE  /\ Registered(file) \subseteq [key : Keys, id : MsgId]
           /\ \A i \in DOMAIN srcs : /\ srcs[i] \in Seq(Block)
                                     /\ Registered(srcs[i]) \subseteq [key : Keys, id : MsgId]
           /\ Recorded \subseteq [key : Keys, id : MsgId]
<1>1. file \in Seq(Block) /\ \A i \in DOMAIN srcs : srcs[i] \in Seq(Block)
  BY LenProperties, ElementOfSeq DEF TypeOK
<1>2. Registered(file) \subseteq [key : Keys, id : MsgId]
  BY <1>1, RegisteredType
<1>3. \A i \in DOMAIN srcs : Registered(srcs[i]) \subseteq [key : Keys, id : MsgId]
  BY <1>1, RegisteredType
<1> QED
  BY <1>1, <1>2, <1>3 DEF Recorded

-----------------------------------------------------------------------------
(* A step of one process leaves the others alone.                           *)

\* q's part of the state is the same after the step.
Kept(q) ==
    /\ pc'[q] = pc[q] /\ tu'[q] = tu[q] /\ data'[q] = data[q]
    /\ rdr'[q] = rdr[q] /\ pos'[q] = pos[q] /\ found'[q] = found[q]
    /\ endPos'[q] = endPos[q] /\ maxId'[q] = maxId[q]
    /\ todo'[q] = todo[q] /\ out'[q] = out[q] /\ dirty'[q] = dirty[q]

ProcStep(p) == StartCompile(p) \/ Step(p) \/ Crash(p)

\* A step of one process leaves what belongs to another alone.
LEMMA StepKeeps ==
    ASSUME TypeOK, NEW p \in Procs, NEW q \in Procs, q # p, ProcStep(p)
    PROVE  Kept(q) /\ (lock = q => lock' = q)
<1> USE DEF TypeOK, Kept, Goto, readVars, writeVars, localVars
<1>1. CASE StartCompile(p) BY <1>1 DEF StartCompile
<1>2. CASE OpenDest(p) BY <1>2 DEF OpenDest
<1>3. CASE LockDest(p) BY <1>3, NoProcAssumption DEF LockDest
<1>4. CASE ReopenDest(p) BY <1>4 DEF ReopenDest, LockAfterClose
<1>5. CASE OpenFails(p) BY <1>5 DEF OpenFails, LockAfterClose
<1>6. CASE ReadObject(p)
  <2>1. /\ data'[q] = data[q] /\ found'[q] = found[q]
        /\ pos'[q] = pos[q] /\ maxId'[q] = maxId[q] /\ endPos'[q] = endPos[q]
    BY <1>6 DEF ReadObject
  <2> QED
    BY <1>6, <2>1 DEF ReadObject
<1>7. CASE ReadEnd(p)
  <2>1. pc'[q] = pc[q] /\ todo'[q] = todo[q]
    BY <1>7 DEF ReadEnd
  <2> QED
    BY <1>7, <2>1 DEF ReadEnd
<1>8. CASE ReadThrows(p) BY <1>8 DEF ReadThrows
<1>9. CASE OpenSrc(p) BY <1>9 DEF OpenSrc
<1>10. CASE SerializeMsg(p)
  <2>1. data'[q] = data[q] /\ maxId'[q] = maxId[q] /\ out'[q] = out[q] /\ todo'[q] = todo[q]
    BY <1>10 DEF SerializeMsg
  <2> QED
    BY <1>10, <2>1 DEF SerializeMsg
<1>11. CASE SerializeEnd(p) BY <1>11 DEF SerializeEnd
<1>12. CASE WriteDest(p) BY <1>12 DEF WriteDest
<1>13. CASE WriteThrows(p) BY <1>13 DEF WriteThrows
<1>14. CASE ResizeDest(p) BY <1>14 DEF ResizeDest
<1>15. CASE ResizeThrows(p) BY <1>15 DEF ResizeThrows
<1>16. CASE CloseDest(p) BY <1>16 DEF CloseDest, LockAfterClose
<1>17. CASE Unlock(p) BY <1>17 DEF Unlock, LockAfterUnlock
<1>18. CASE Emit(p) BY <1>18 DEF Emit, Forget
<1>19. CASE Unwind(p) BY <1>19 DEF Unwind, LockAfterUnlock
<1>20. CASE CloseUnwound(p) BY <1>20 DEF CloseUnwound, Forget
<1>21. CASE Crash(p) BY <1>21 DEF Crash, Forget, LockAfterUnlock
<1> QED
  BY <1>1, <1>2, <1>3, <1>4, <1>5, <1>6, <1>7, <1>8, <1>9, <1>10, <1>11, <1>12, <1>13,
     <1>14, <1>15, <1>16, <1>17, <1>18, <1>19, <1>20, <1>21 DEF ProcStep, Step

\* What q knows depends on its own part of the state and the message files.
LEMMA KeptOperators ==
    ASSUME NEW q \in Procs, Kept(q)
    PROVE  /\ Known(q)' = Known(q)
           /\ WritePos(q)' = WritePos(q)
           /\ TellP(q)' = TellP(q)
           /\ UNCHANGED <<file, srcs>> =>
                 /\ Recorded' = Recorded
                 /\ Stream(q)' = Stream(q)
                 /\ SeenHere(q)' = SeenHere(q)
                 /\ SeenBefore(q)' = SeenBefore(q)
                 /\ Appendable(q)' <=> Appendable(q)
<1>1. Known(q)' = Known(q)
  BY DEF Kept, Known
<1>2. WritePos(q)' = WritePos(q)
  BY DEF Kept, WritePos
<1>3. TellP(q)' = TellP(q)
  BY <1>2 DEF Kept, TellP
<1>4. ASSUME UNCHANGED <<file, srcs>>
      PROVE  /\ Recorded' = Recorded /\ Stream(q)' = Stream(q)
             /\ Appendable(q)' <=> Appendable(q)
  BY <1>2, <1>4 DEF Kept, Recorded, Stream, Appendable
<1>5. ASSUME UNCHANGED <<file, srcs>>
      PROVE  SeenHere(q)' = SeenHere(q) /\ SeenBefore(q)' = SeenBefore(q)
  BY <1>4, <1>5 DEF Kept, SeenHere, SeenBefore
<1> QED
  BY <1>1, <1>2, <1>3, <1>4, <1>5

\* A step that changes nothing of q and no message file, or that only adds to
\* the destination file while q is neither reading nor writing.
LEMMA Frame ==
    ASSUME NEW q \in Procs, ProcInv(q), Kept(q), lock = q => lock' = q,
           \/ UNCHANGED <<file, srcs>>
           \/ pc[q] \notin Critical /\ Registered(file) \subseteq Registered(file')
    PROVE  ProcInv(q)'
<1> USE KeptOperators DEF Kept
<1>1. LockInv(q)'
  BY DEF ProcInv, LockInv
<1>2. FlushInv(q)' /\ FreshInv(q)'
  BY DEF ProcInv, FlushInv, FreshInv
<1>3. ReadInv(q)'
  BY DEF ProcInv, ReadInv, Critical
<1>4. SerializeInv(q)'
  BY DEF ProcInv, SerializeInv, Critical
<1>5. WriteInv(q)'
  BY DEF ProcInv, WriteInv, Critical
<1>6. DoneInv(q)'
  BY DEF ProcInv, DoneInv
<1> QED
  BY <1>1, <1>2, <1>3, <1>4, <1>5, <1>6 DEF ProcInv

-----------------------------------------------------------------------------
(* The steps of one process: opening, failing and dying.                    *)

\* What a step of p does to the destination file: it adds pairs p knows, and
\* only while p is in the middle of its work.
FileEffect(p) ==
    /\ Registered(file) \subseteq Registered(file')
    /\ Registered(file') \subseteq Registered(file) \cup Known(p)
    /\ file' # file => pc[p] \in Critical

\* A step that leaves the file alone does no harm to it.
LEMMA NoFileEffect ==
    ASSUME NEW p \in Procs, UNCHANGED file
    PROVE  FileEffect(p)
BY DEF FileEffect

\* Phases nothing but the lock and the buffer is said about.
LEMMA PlainStep ==
    ASSUME NEW p \in Procs, pc'[p] \in {"fail", "dtor"}, ~dirty'[p]
    PROVE  ProcInv(p)'
BY DEF ProcInv, LockInv, FlushInv, FreshInv, ReadInv, SerializeInv, WriteInv, DoneInv, Critical

\* A process that has ended knows nothing and owes nothing.
LEMMA ForgetStep ==
    ASSUME TypeOK, NEW p \in Procs, Forget(p), Goto(p, "idle")
    PROVE  ProcInv(p)'
<1>1. pc'[p] = "idle"
  BY DEF Goto, TypeOK
<1>2. FreshInv(p)'
  BY DEF FreshInv, Forget, TypeOK
<1>3. FlushInv(p)'
  BY DEF FlushInv, Forget, TypeOK
<1> QED
  BY <1>1, <1>2, <1>3 DEF ProcInv, LockInv, ReadInv, SerializeInv, WriteInv, DoneInv, Critical

\* A new compilation starts with nothing.
LEMMA StartCompileStep ==
    ASSUME TypeOK, NEW p \in Procs, ProcInv(p), StartCompile(p)
    PROVE  ProcInv(p)'
<1>1. pc[p] = "idle" /\ pc'[p] = "open"
  BY DEF StartCompile, Goto, TypeOK
<1>2. FreshInv(p)' /\ FlushInv(p)'
  BY <1>1 DEF ProcInv, FreshInv, FlushInv, StartCompile, readVars, writeVars
<1> QED
  BY <1>1, <1>2 DEF ProcInv, LockInv, ReadInv, SerializeInv, WriteInv, DoneInv, Critical

\* Opening the file to append teaches the process nothing.
LEMMA OpenDestStep ==
    ASSUME TypeOK, NEW p \in Procs, ProcInv(p), OpenDest(p)
    PROVE  ProcInv(p)'
<1>1. pc[p] = "open" /\ pc'[p] = "lock"
  BY DEF OpenDest, Goto, TypeOK
<1>2. FreshInv(p)' /\ FlushInv(p)'
  BY <1>1 DEF ProcInv, FreshInv, FlushInv, OpenDest, readVars, writeVars, localVars
<1> QED
  BY <1>1, <1>2 DEF ProcInv, LockInv, ReadInv, SerializeInv, WriteInv, DoneInv, Critical

\* The process that waited for the lock has it.
LEMMA LockDestStep ==
    ASSUME TypeOK, NEW p \in Procs, ProcInv(p), LockDest(p)
    PROVE  ProcInv(p)'
<1>1. pc[p] = "lock" /\ pc'[p] = "reopen" /\ lock' = p
  BY DEF LockDest, Goto, TypeOK
<1>2. FreshInv(p)' /\ FlushInv(p)'
  BY <1>1 DEF ProcInv, FreshInv, FlushInv, LockDest, readVars, writeVars, localVars
<1> QED
  BY <1>1, <1>2 DEF ProcInv, LockInv, ReadInv, SerializeInv, WriteInv, DoneInv, Critical

\* The reader starts with nothing seen and nothing known.
LEMMA ReopenDestStep ==
    ASSUME TypeOK, NEW p \in Procs, ProcInv(p), ReopenDest(p)
    PROVE  ProcInv(p)'
<1>1. pc[p] = "reopen" /\ pc'[p] = "read" /\ UNCHANGED <<file, srcs, localVars>>
  BY DEF ReopenDest, Goto, TypeOK
<1>2. LockInv(p)'
  BY <1>1 DEF ProcInv, LockInv, ReopenDest, LockAfterClose, Critical
<1>3. FlushInv(p)'
  BY <1>1 DEF ProcInv, FlushInv, localVars, writeVars
<1>4. ReadInv(p)'
  <2>1. /\ rdr'[p] = 0 /\ pos'[p] = 0 /\ endPos'[p] = -1 /\ maxId'[p] = 0
        /\ found'[p] = {} /\ out'[p] = << >> /\ \A k \in Keys : data'[p][k] = NewData
    BY <1>1 DEF ProcInv, FreshInv, localVars, readVars, writeVars
  <2>2. tu'[p] \subseteq Keys /\ Len(Stream(p)') \in Nat
    BY <1>1, StreamType, LenProperties DEF TypeOK, localVars, Stream, readVars
  <2>3. Known(p)' = {}
    BY <2>1, <2>2 DEF Known, NewData
  <2>4. SeenHere(p)' = {} /\ SeenBefore(p)' = {}
    BY <2>1 DEF SeenHere, SeenBefore
  <2> QED
    BY <1>1, <2>1, <2>2, <2>3, <2>4, IntMaxAssumption DEF ReadInv, NewData
<1> QED
  BY <1>1, <1>2, <1>3, <1>4
  DEF ProcInv, FreshInv, SerializeInv, WriteInv, DoneInv

-----------------------------------------------------------------------------
(* Reading.                                                                 *)

\* The reader takes over or confirms one ID.
LEMMA ReadObjectStep ==
    ASSUME TypeOK, NEW p \in Procs, ProcInv(p), ReadObject(p)
    PROVE  ProcInv(p)'
<1> DEFINE b == Stream(p)[pos[p] + 1]
           e == EntryOf(b)
<1>1. /\ pc[p] = "read" /\ pc'[p] = "read"
      /\ UNCHANGED <<file, srcs, lock, tu, rdr, todo, out, dirty>>
      /\ AtMsg(p) /\ GoodId(b) /\ Agrees(p, b)
      /\ pos' = [pos EXCEPT ![p] = pos[p] + 1]
      /\ endPos' = IF rdr[p] = 0 THEN [endPos EXCEPT ![p] = pos[p] + 1] ELSE endPos
      /\ maxId' = [maxId EXCEPT ![p] = Greater(maxId[p], b.id)]
  BY DEF ReadObject, writeVars
<1>2. b \in MsgBlock /\ b.key \in Keys /\ b.id \in 1..IntMax /\ b.id \in MsgId
  BY <1>1, BlockAtType, GoodIdType
<1>3. e.key = b.key /\ e.id = b.id
  BY <1>2 DEF EntryOf, ToUnsigned
<1>4. Stream(p) \in Seq(Block) /\ Len(Stream(p)) \in Nat /\ pos[p] \in Nat
  BY StreamType, LenProperties DEF TypeOK
<1>5. pos[p] + 1 <= Len(Stream(p)) /\ 1..(pos[p] + 1) \subseteq Lead(Stream(p))
  <2>1. 1..pos[p] \subseteq Lead(Stream(p))
    BY <1>1 DEF ProcInv, ReadInv
  <2>2. pos[p] < Len(Stream(p)) /\ b.kind = "msg"
    BY <1>1 DEF AtMsg
  <2>3. \A j \in 1..pos[p] : Stream(p)[j].kind = "msg"
    BY <2>1 DEF Lead
  <2>4. \A j \in 1..(pos[p] + 1) : Stream(p)[j].kind = "msg"
    BY <1>4, <2>2, <2>3
  <2> QED
    BY <1>4, <2>2, <2>4 DEF Lead
<1>6. e \in Registered(Stream(p))
  BY <1>4, <1>5 DEF Registered
<1>7. /\ Stream(p)' = Stream(p)
      /\ WritePos(p)' = WritePos(p) \/ rdr[p] = 0
      /\ Recorded' = Recorded
  BY <1>1 DEF Stream, WritePos, Recorded
<1>8. SeenHere(p)' = SeenHere(p) \cup {e} /\ SeenBefore(p)' = SeenBefore(p)
  <2>1. Stream(p)' = Stream(p) /\ pos'[p] = pos[p] + 1 /\ rdr' = rdr
    BY <1>1 DEF Stream, TypeOK
  <2>2. SeenHere(p)' = {EntryOf(Stream(p)[i]) : i \in 1..(pos[p] + 1)}
    BY <2>1 DEF SeenHere
  <2>3. {EntryOf(Stream(p)[i]) : i \in 1..(pos[p] + 1)} = SeenHere(p) \cup {e}
    BY <1>4 DEF SeenHere
  <2> QED
    BY <1>1, <1>7, <2>1, <2>2, <2>3 DEF SeenBefore
<1> HIDE DEF b, e
<1>9. \/ /\ b.key \in tu[p] /\ data[p][b.key].id = 0
         /\ data'[p] = [data[p] EXCEPT ![b.key] = [id |-> b.id, src |-> SrcTag(p)]]
         /\ found'[p] = found[p] \cup {b.id}
         /\ Known(p)' = Known(p) \cup {e}
      \/ /\ b.key \notin tu[p] \/ data[p][b.key].id # 0
         /\ data'[p] = data[p] /\ found'[p] = found[p]
         /\ Known(p)' = Known(p)
  <2>1. CASE b.key \in tu[p] /\ data[p][b.key].id = 0
    <3>1. /\ data'[p] = [data[p] EXCEPT ![b.key] = [id |-> b.id, src |-> SrcTag(p)]]
          /\ found'[p] = found[p] \cup {b.id}
      BY <2>1 DEF ReadObject, b, TypeOK
    <3>2. /\ data'[p][b.key].id = b.id /\ b.id # 0
          /\ \A k \in Keys \ {b.key} : data'[p][k] = data[p][k]
      BY <1>2, <3>1 DEF TypeOK
    <3>3. tu[p] \subseteq Keys /\ tu' = tu
      BY <1>1 DEF TypeOK
    <3>4. e = [key |-> b.key, id |-> b.id]
      BY <1>2, <1>3 DEF e, EntryOf
    <3>5. Known(p)' = Known(p) \cup {e}
      <4>1. \A k \in tu[p] : data'[p][k].id # 0 => [key |-> k, id |-> data'[p][k].id] \in Known(p) \cup {e}
        BY <3>2, <3>3, <3>4 DEF Known
      <4>2. \A k \in tu[p] : data[p][k].id # 0 => data'[p][k] = data[p][k]
        BY <2>1, <3>2, <3>3
      <4>3. Known(p)' \subseteq Known(p) \cup {e}
        BY <3>3, <4>1 DEF Known
      <4>4. Known(p) \subseteq Known(p)'
        BY <3>3, <4>2 DEF Known
      <4>5. e \in Known(p)'
        BY <2>1, <3>2, <3>3, <3>4 DEF Known
      <4> QED
        BY <4>3, <4>4, <4>5
    <3> QED
      BY <2>1, <3>1, <3>5
  <2>2. CASE ~(b.key \in tu[p] /\ data[p][b.key].id = 0)
    <3>1. UNCHANGED <<data, found>>
      BY <2>2 DEF ReadObject, b
    <3>2. Known(p)' = Known(p)
      BY <1>1, <3>1 DEF Known
    <3> QED
      BY <2>2, <3>1, <3>2
  <2> QED
    BY <2>1, <2>2
<1>10. maxId'[p] >= maxId[p] /\ maxId'[p] >= b.id /\ maxId'[p] <= IntMax /\ maxId[p] \in Nat
  <2>1. maxId[p] \in Nat /\ maxId[p] <= IntMax
    BY <1>1 DEF ProcInv, ReadInv, TypeOK, MsgId
  <2>2. maxId'[p] = Greater(maxId[p], b.id)
    BY <1>1 DEF TypeOK
  <2> QED
    BY <1>2, <2>1, <2>2 DEF Greater
<1>11. ReadInv(p)'
  <2>1. /\ pos'[p] <= Len(Stream(p)') /\ 1..pos'[p] \subseteq Lead(Stream(p)')
        /\ pos'[p] = pos[p] + 1 /\ pos'[p] # 0
    <3>1. pos'[p] = pos[p] + 1
      BY <1>1 DEF TypeOK
    <3>2. Stream(p)' = Stream(p)
      BY <1>7
    <3> QED
      BY <1>4, <1>5, <3>1, <3>2
  <2>2. rdr'[p] = 0 => endPos'[p] = pos'[p]
    BY <1>1, <2>1 DEF TypeOK
  <2>3. rdr'[p] = 0 => found'[p] \subseteq {x.id : x \in Known(p)'}
    BY <1>1, <1>3, <1>9 DEF ProcInv, ReadInv
  <2>4. rdr'[p] > 0 => Appendable(p)'
    <3> SUFFICES ASSUME rdr[p] > 0 PROVE Appendable(p)'
      BY <1>1
    <3>1. Appendable(p) /\ rdr[p] # 0
      BY <1>1 DEF ProcInv, ReadInv, TypeOK
    <3>2. WritePos(p)' = WritePos(p)
      BY <1>7, <3>1
    <3> QED
      BY <1>1, <3>1, <3>2 DEF Appendable
  <2>5. \A x \in SeenHere(p)' \cup SeenBefore(p)' :
           x.id <= maxId'[p] /\ (x.key \in tu'[p] => data'[p][x.key].id # 0)
    <3> TAKE x \in SeenHere(p)' \cup SeenBefore(p)'
    <3>1. CASE x = e
      <4>1. x.id <= maxId'[p]
        BY <1>2, <1>3, <1>10, <3>1
      <4>2. b.key \in tu[p] => data'[p][b.key].id # 0
        BY <1>2, <1>9 DEF TypeOK
      <4> QED
        BY <1>1, <1>3, <3>1, <4>1, <4>2
    <3>2. CASE x \in SeenHere(p) \cup SeenBefore(p)
      <4>1. /\ x.id <= maxId[p] /\ (x.key \in tu[p] => data[p][x.key].id # 0)
        BY <1>1, <3>2 DEF ProcInv, ReadInv
      <4>2. x.id <= maxId'[p]
        <5>1. x.id \in Nat
          <6>1. CASE x \in SeenHere(p)
            <7>1. PICK i \in 1..pos[p] : x = EntryOf(Stream(p)[i])
              BY <6>1 DEF SeenHere
            <7>2. i \in Lead(Stream(p))
              BY <1>1 DEF ProcInv, ReadInv
            <7>3. x \in Registered(Stream(p))
              BY <7>1, <7>2 DEF Registered
            <7> QED
              BY <1>4, <7>3, RegisteredType DEF MsgId
          <6>2. CASE x \in SeenBefore(p)
            BY <6>2, RecordedType DEF SeenBefore, MsgId
          <6> QED
            BY <3>2, <6>1, <6>2
        <5>2. maxId'[p] \in Int
          BY <1>2, <1>10, <1>1 DEF TypeOK, Greater
        <5> QED
          BY <1>10, <4>1, <5>1, <5>2
      <4>3. x.key \in tu[p] => data'[p][x.key].id # 0
        BY ZenonT(30), <1>2, <1>9, <4>1 DEF TypeOK
      <4> QED
        BY <1>1, <4>2, <4>3
    <3> QED
      BY <1>8, <3>1, <3>2
  <2>6. Known(p)' \subseteq SeenHere(p)' \cup SeenBefore(p)'
    BY <1>1, <1>8, <1>9 DEF ProcInv, ReadInv
  <2>7. \A k \in tu'[p] : IF data'[p][k].id = 0 THEN data'[p][k].src = "NEW"
                          ELSE \/ data'[p][k].src = "SRC"
                               \/ [key |-> k, id |-> data'[p][k].id] \in Registered(file')
    <3> TAKE k \in tu'[p]
    <3>1. k \in tu[p] /\ k \in Keys /\ file' = file
      BY <1>1 DEF TypeOK
    <3>2. IF data[p][k].id = 0 THEN data[p][k].src = "NEW"
          ELSE \/ data[p][k].src = "SRC"
               \/ [key |-> k, id |-> data[p][k].id] \in Registered(file)
      BY <1>1, <3>1 DEF ProcInv, ReadInv
    <3>3. CASE data'[p][k] = data[p][k]
      BY <3>1, <3>2, <3>3
    <3>4. CASE data'[p][k] # data[p][k]
      <4>1. k = b.key /\ data'[p][k].id = b.id /\ data'[p][k].src = SrcTag(p)
        BY <1>2, <1>9, <3>1, <3>4 DEF TypeOK
      <4>2. CASE rdr[p] = 0
        <5>1. e \in Registered(file)
          BY <1>6, <4>2 DEF Stream
        <5>2. e = [key |-> k, id |-> data'[p][k].id]
          BY <1>2, <1>3, <4>1 DEF e, EntryOf
        <5> QED
          BY <1>2, <3>1, <4>1, <5>1, <5>2
      <4>3. CASE rdr[p] # 0
        BY <1>2, <4>1, <4>3 DEF SrcTag
      <4> QED
        BY <4>2, <4>3
    <3> QED
      BY <3>3, <3>4
  <2>8. out'[p] = << >> /\ maxId'[p] <= IntMax
    BY <1>1, <1>10 DEF ProcInv, ReadInv
  <2> QED
    BY <1>1, <2>1, <2>2, <2>3, <2>4, <2>5, <2>6, <2>7, <2>8 DEF ReadInv
<1>12. LockInv(p)' /\ FlushInv(p)'
  BY <1>1 DEF ProcInv, LockInv, FlushInv, Critical
<1> QED
  BY <1>1, <1>11, <1>12 DEF ProcInv, FreshInv, SerializeInv, WriteInv, DoneInv


\* At the end of a document the reader has seen all of it, and the messages
\* of the destination file end where the writer will write.
LEMMA AllSeen ==
    ASSUME TypeOK, NEW p \in Procs, ProcInv(p), pc[p] = "read", AtEnd(p)
    PROVE  /\ Lead(Stream(p)) = 1..pos[p]
           /\ SeenHere(p) = Registered(Stream(p))
           /\ Appendable(p)
           /\ rdr[p] = Len(srcs) => Recorded = SeenHere(p) \cup SeenBefore(p)
<1>1. Stream(p) \in Seq(Block) /\ Len(Stream(p)) \in Nat /\ pos[p] \in Nat
  BY StreamType, LenProperties DEF TypeOK
<1>2. pos[p] \in 0..Len(Stream(p)) /\ 1..pos[p] \subseteq Lead(Stream(p))
  BY <1>1 DEF ProcInv, ReadInv
<1>3. /\ Lead(Stream(p)) = 1..pos[p]
      /\ \A i \in (pos[p] + 1)..Len(Stream(p)) : Stream(p)[i].kind # "msg"
  <2> DEFINE f == Stream(p)
             n == pos[p]
  <2>1. \/ f = << >>
        \/ n < Len(f) /\ f[n + 1] = End /\ TailOK(f, n + 1)
    BY DEF AtEnd
  <2> HIDE DEF f, n
  <2>2. f \in Seq(Block) /\ n \in 0..Len(f) /\ 1..n \subseteq Lead(f)
    BY <1>1, <1>2 DEF f, n
  <2>3. Lead(f) = 1..n /\ \A i \in (n + 1)..Len(f) : f[i].kind # "msg"
    BY <2>1, <2>2, EndOfMessages
  <2> QED
    BY <2>3 DEF f, n
<1>4. SeenHere(p) = Registered(Stream(p))
  BY <1>3 DEF SeenHere, Registered
<1>5. Appendable(p)
  <2>1. CASE rdr[p] = 0
    <3>1. Stream(p) = file /\ WritePos(p) = pos[p]
      BY <1>1, <2>1 DEF ProcInv, ReadInv, Stream, WritePos
    <3> QED
      BY <1>2, <1>3, <3>1 DEF Appendable
  <2>2. CASE rdr[p] # 0
    BY <2>2 DEF ProcInv, ReadInv, TypeOK
  <2> QED
    BY <2>1, <2>2
<1>6. ASSUME rdr[p] = Len(srcs) PROVE Recorded = SeenHere(p) \cup SeenBefore(p)
  <2>1. Len(srcs) \in Nat /\ DOMAIN srcs = 1..Len(srcs)
    BY LenProperties DEF TypeOK
  <2>2. SeenHere(p) \cup SeenBefore(p) \subseteq Recorded
    <3>1. Registered(Stream(p)) \subseteq Recorded
      BY <1>6, <2>1 DEF Stream, Recorded
    <3> QED
      BY <1>4, <3>1 DEF SeenBefore
  <2>3. ASSUME NEW e \in Registered(file) PROVE e \in SeenHere(p) \cup SeenBefore(p)
    <3>1. CASE rdr[p] = 0
      BY <1>4, <3>1 DEF Stream
    <3>2. CASE rdr[p] # 0
      BY <1>6, <2>1, <3>2 DEF SeenBefore, Recorded
    <3> QED
      BY <3>1, <3>2
  <2>4. ASSUME NEW i \in DOMAIN srcs, NEW e \in Registered(srcs[i])
        PROVE  e \in SeenHere(p) \cup SeenBefore(p)
    <3>1. CASE i = rdr[p]
      BY <1>4, <2>1, <3>1 DEF Stream
    <3>2. CASE i # rdr[p]
      <4>1. i \in 1..(rdr[p] - 1) /\ rdr[p] > 0
        BY <1>6, <2>1, <3>2
      <4>2. e \in Recorded
        BY DEF Recorded
      <4> QED
        BY <4>1, <4>2 DEF SeenBefore
    <3> QED
      BY <3>1, <3>2
  <2> QED
    BY <2>2, <2>3, <2>4 DEF Recorded
<1> QED
  BY <1>3, <1>4, <1>5, <1>6

\* If the reader of the destination file found as many IDs as there are
\* messages, then it found one for every message.
LEMMA AllFoundAll ==
    ASSUME TypeOK, NEW p \in Procs, ProcInv(p), pc[p] = "read", AllFound(p)
    PROVE  \A k \in tu[p] : data[p][k].id # INVALID_MSG_ID
<1> DEFINE F == {k \in tu[p] : data[p][k].id # INVALID_MSG_ID}
           I == {data[p][k].id : k \in F}
<1>1. IsFiniteSet(tu[p]) /\ F \in SUBSET tu[p]
  <2>1. tu[p] \in SUBSET Keys
    BY DEF TypeOK
  <2> QED
    BY <2>1, KeysAssumption, FS_Subset
<1>2. /\ IsFiniteSet(F) /\ Cardinality(F) <= Cardinality(tu[p])
      /\ Cardinality(tu[p]) = Cardinality(F) => tu[p] = F
  BY <1>1, FS_Subset
<1>3. IsFiniteSet(I) /\ Cardinality(I) <= Cardinality(F)
  <2>1. PICK g : g = [k \in F |-> data[p][k].id]
    OBVIOUS
  <2>2. g \in Surjection(F, I)
    BY <2>1 DEF Surjection
  <2> HIDE DEF F, I
  <2> QED
    BY <1>2, <2>2, FS_Surjection
<1>4. found[p] \in SUBSET I
  BY DEF ProcInv, ReadInv, AllFound, Known
<1>5. Cardinality(found[p]) <= Cardinality(I)
  BY <1>3, <1>4, FS_Subset
<1>6. Cardinality(found[p]) = Cardinality(tu[p])
  BY DEF AllFound
<1>7. Cardinality(F) \in Nat /\ Cardinality(I) \in Nat /\ Cardinality(tu[p]) \in Nat
  BY <1>1, <1>2, <1>3, FS_CardinalityType
<1>8. Cardinality(tu[p]) = Cardinality(F)
  BY <1>2, <1>3, <1>5, <1>6, <1>7
<1> QED
  BY <1>2, <1>8


\* Having read the last file, the process knows an ID bound for everything
\* recorded, and a pair for every message that is not to be written.
LEMMA ReadEndStep ==
    ASSUME TypeOK, NEW p \in Procs, ProcInv(p), Coherent(Recorded), ReadEnd(p)
    PROVE  ProcInv(p)'
<1>1. /\ pc[p] = "read" /\ AtEnd(p)
      /\ UNCHANGED <<file, srcs, lock, tu, data, readVars, out, dirty>>
  BY DEF ReadEnd
<1>2. /\ Known(p)' = Known(p) /\ WritePos(p)' = WritePos(p) /\ Stream(p)' = Stream(p)
      /\ Recorded' = Recorded /\ SeenHere(p)' = SeenHere(p) /\ SeenBefore(p)' = SeenBefore(p)
      /\ Appendable(p)' <=> Appendable(p)
  BY <1>1 DEF readVars, Known, WritePos, Stream, Recorded, SeenHere, SeenBefore, Appendable
<1>3. FlushInv(p)'
  BY <1>1 DEF ProcInv, FlushInv
<1>4. /\ Lead(Stream(p)) = 1..pos[p] /\ Appendable(p)
      /\ rdr[p] = Len(srcs) => Recorded = SeenHere(p) \cup SeenBefore(p)
  BY <1>1, AllSeen
<1>5. CASE AllFound(p) /\ pc' = [pc EXCEPT ![p] = "unlock"]
  <2>1. \A k \in tu[p] : data[p][k].id # 0 /\ data[p][k].src # "SRC" =>
                         [key |-> k, id |-> data[p][k].id] \in Registered(file)
    BY <1>1 DEF ProcInv, ReadInv
  <2>2. Known(p) \subseteq Registered(file)
    <3>1. rdr[p] = 0
      BY <1>5 DEF AllFound
    <3>2. Known(p) \subseteq SeenHere(p) \cup SeenBefore(p)
      BY <1>1 DEF ProcInv, ReadInv
    <3>3. SeenBefore(p) = {}
      BY <3>1 DEF SeenBefore
    <3>4. SeenHere(p) = Registered(file)
      BY <1>1, <3>1, AllSeen DEF Stream
    <3> QED
      BY <3>2, <3>3, <3>4
  <2>3. \A k \in tu[p] : data[p][k].id # 0
    BY <1>1, <1>5, AllFoundAll
  <2>4. DoneInv(p)'
    BY <1>1, <1>2, <2>2, <2>3 DEF DoneInv
  <2>5. pc'[p] = "unlock"
    BY <1>5 DEF TypeOK
  <2> QED
    BY <1>3, <2>4, <2>5
    DEF ProcInv, LockInv, FreshInv, ReadInv, SerializeInv, WriteInv, Critical
<1>6. CASE rdr[p] < Len(srcs) /\ pc' = [pc EXCEPT ![p] = "opensrc"]
  <2>1. pc'[p] = "opensrc"
    BY <1>6 DEF TypeOK
  <2>2. ReadInv(p)'
    BY <1>1, <1>2, <1>4, <2>1 DEF ReadInv, ProcInv, readVars
  <2>3. LockInv(p)'
    BY <1>1, <2>1 DEF ProcInv, LockInv, Critical
  <2> QED
    BY <1>3, <2>1, <2>2, <2>3
    DEF ProcInv, FreshInv, SerializeInv, WriteInv, DoneInv
<1>7. CASE rdr[p] = Len(srcs) /\ pc' = [pc EXCEPT ![p] = "serialize"]
              /\ todo' = [todo EXCEPT ![p] = ToWrite(p)]
  <2>1. pc'[p] = "serialize" /\ todo'[p] = ToWrite(p)
    BY <1>7 DEF TypeOK
  <2>2. ToWrite(p) \in SUBSET tu[p] /\ tu[p] \in SUBSET Keys /\ tu'[p] = tu[p]
    BY <1>1 DEF ToWrite, TypeOK
  <2>3. maxId[p] + Cardinality(ToWrite(p)) <= MsgIdMax
    <3>1. /\ Cardinality(ToWrite(p)) <= Cardinality(Keys)
          /\ Cardinality(ToWrite(p)) \in Nat /\ Cardinality(Keys) \in Nat
      BY <2>2, KeysAssumption, FS_Subset, FS_CardinalityType
    <3>2. maxId[p] <= IntMax /\ maxId[p] \in Nat
      BY <1>1 DEF ProcInv, ReadInv, TypeOK, MsgId
    <3> QED
      BY <3>1, <3>2, IntMaxAssumption DEF MsgIdMax
  <2>4. Recorded = SeenHere(p) \cup SeenBefore(p) /\ Known(p) \subseteq Recorded
    BY <1>1, <1>4, <1>7 DEF ProcInv, ReadInv
  <2>5. \A e \in Recorded : e.id <= maxId[p] /\ (e.key \in tu[p] => data[p][e.key].id # 0)
    BY <1>1, <2>4 DEF ProcInv, ReadInv
  <2>6. Coherent(Recorded \cup Known(p)) /\ Recorded \cup Known(p) = Recorded
    <3>1. Recorded \cup Known(p) = Recorded
      BY <2>4
    <3> QED
      BY <3>1
  <2>7. \A k \in tu[p] \ ToWrite(p) :
           /\ data[p][k].id # 0
           /\ [key |-> k, id |-> data[p][k].id] \in Registered(file)
    <3> TAKE k \in tu[p] \ ToWrite(p)
    <3>1. data[p][k].src \notin {"NEW", "SRC"}
      BY DEF ToWrite
    <3> QED
      BY <1>1, <3>1 DEF ProcInv, ReadInv
  <2>8. out'[p] = << >>
    BY <1>1 DEF ProcInv, ReadInv
  <2>9. Lead(out'[p]) = 1..Len(out'[p]) /\ Registered(out'[p]) = {}
    BY <2>8 DEF Lead, Registered
  <2>10. /\ todo'[p] \subseteq tu'[p]
         /\ maxId'[p] + Cardinality(todo'[p]) <= MsgIdMax
         /\ maxId'[p] = maxId[p] /\ data'[p] = data[p] /\ file' = file
    BY <1>1, <2>1, <2>2, <2>3 DEF readVars
  <2>11. /\ \A e \in Recorded' : e.key \in tu'[p] => data'[p][e.key].id # 0
         /\ \A e \in Recorded' \cup Known(p)' : e.id <= maxId'[p]
    BY <1>2, <2>2, <2>4, <2>5, <2>10
  <2>12. Coherent(Recorded \cup Known(p))'
    BY <1>2, <2>6
  <2>13. \A k \in tu'[p] \ todo'[p] :
            /\ data'[p][k].id # 0
            /\ [key |-> k, id |-> data'[p][k].id] \in Registered(file') \cup Registered(out'[p])
    BY <2>1, <2>2, <2>7, <2>10
  <2>14. SerializeInv(p)'
    BY <1>2, <1>4, <2>9, <2>10, <2>11, <2>12, <2>13 DEF SerializeInv
  <2>15. LockInv(p)'
    BY <1>1, <2>1 DEF ProcInv, LockInv, Critical
  <2> QED
    BY <1>3, <2>1, <2>14, <2>15 DEF ProcInv, FreshInv, ReadInv, WriteInv, DoneInv
<1> QED
  BY <1>5, <1>6, <1>7 DEF ReadEnd, Goto

\* On to the next source file, with the current one seen.
LEMMA OpenSrcStep ==
    ASSUME TypeInv, NEW p \in Procs, ProcInv(p), OpenSrc(p)
    PROVE  ProcInv(p)'
<1>1. /\ pc[p] = "opensrc" /\ pc'[p] = "read"
      /\ rdr'[p] = rdr[p] + 1 /\ pos'[p] = 0 /\ found'[p] = {}
      /\ UNCHANGED <<file, srcs, lock, tu, data, endPos, maxId, todo, out, dirty>>
  BY DEF OpenSrc, Goto, TypeInv, TypeOK, writeVars
<1>2. /\ rdr[p] \in Nat /\ rdr[p] + 1 \in 1..Len(srcs) /\ Len(srcs) \in Nat
      /\ DOMAIN srcs = 1..Len(srcs)
  BY SMTT(30), <1>1, LenProperties DEF TypeInv, TypeOK, SrcLeft
<1>3. /\ Known(p)' = Known(p) /\ WritePos(p)' = WritePos(p)
      /\ Recorded' = Recorded /\ (Appendable(p)' <=> Appendable(p))
  BY <1>1 DEF Known, WritePos, Recorded, Appendable
<1>4. SeenHere(p)' = {}
  BY <1>1 DEF SeenHere
<1>5. SeenBefore(p)' = SeenHere(p) \cup SeenBefore(p)
  <2>1. SeenHere(p) = Registered(Stream(p))
    BY <1>1 DEF ProcInv, ReadInv, SeenHere, Registered
  <2>2. \A e : e \in SeenBefore(p)' <=>
                  /\ e \in Recorded
                  /\ \/ e \in Registered(file)
                     \/ \E j \in 1..rdr[p] : e \in Registered(srcs[j])
    <3>1. rdr'[p] > 0 /\ 1..(rdr'[p] - 1) = 1..rdr[p]
      BY <1>1, <1>2
    <3>2. \A e : e \in SeenBefore(p)' <=>
                  /\ e \in Recorded'
                  /\ rdr'[p] > 0
                  /\ \/ e \in Registered(file')
                     \/ \E j \in 1..(rdr'[p] - 1) : e \in Registered(srcs'[j])
      BY DEF SeenBefore
    <3> QED
      BY <1>1, <1>3, <3>1, <3>2
  <2>3. CASE rdr[p] = 0
    <3>1. SeenHere(p) = Registered(file) /\ SeenBefore(p) = {}
      BY <2>1, <2>3 DEF Stream, SeenBefore
    <3>2. Registered(file) \subseteq Recorded
      BY DEF Recorded
    <3> QED
      BY <2>2, <2>3, <3>1, <3>2
  <2>4. CASE rdr[p] # 0
    <3>1. SeenHere(p) = Registered(srcs[rdr[p]])
      BY <2>1, <2>4 DEF Stream
    <3>2. Registered(srcs[rdr[p]]) \subseteq Recorded
      BY <1>2, <2>4 DEF Recorded
    <3>3. 1..rdr[p] = 1..(rdr[p] - 1) \cup {rdr[p]} /\ rdr[p] > 0
      BY <1>2, <2>4
    <3>4. \A e : e \in SeenBefore(p) <=>
                  /\ e \in Recorded
                  /\ \/ e \in Registered(file)
                     \/ \E j \in 1..(rdr[p] - 1) : e \in Registered(srcs[j])
      BY <3>3 DEF SeenBefore
    <3>5. \A e : e \in SeenBefore(p)' <=> e \in SeenHere(p) \/ e \in SeenBefore(p)
      BY <2>2, <3>1, <3>2, <3>3, <3>4
    <3> QED
      BY <3>5
  <2> QED
    BY <2>3, <2>4
<1>6. Len(Stream(p)') \in Nat
  <2>1. Stream(p)' = srcs[rdr[p] + 1]
    BY <1>1, <1>2 DEF Stream
  <2>2. srcs[rdr[p] + 1] \in Seq(Block)
    BY <1>2, RecordedType DEF TypeInv
  <2> QED
    BY <2>1, <2>2, LenProperties
<1>7. ReadInv(p)'
  <2>1. /\ pos'[p] <= Len(Stream(p)') /\ 1..pos'[p] \subseteq Lead(Stream(p)')
        /\ rdr'[p] # 0 /\ Appendable(p)'
    BY <1>1, <1>2, <1>3, <1>6 DEF ProcInv, ReadInv
  <2>2. \A e \in SeenHere(p)' \cup SeenBefore(p)' :
           e.id <= maxId'[p] /\ (e.key \in tu'[p] => data'[p][e.key].id # 0)
    BY <1>1, <1>4, <1>5 DEF ProcInv, ReadInv
  <2>3. Known(p)' \subseteq SeenHere(p)' \cup SeenBefore(p)'
    BY <1>1, <1>3, <1>4, <1>5 DEF ProcInv, ReadInv
  <2> QED
    BY <1>1, <2>1, <2>2, <2>3 DEF ProcInv, ReadInv
<1>8. LockInv(p)' /\ FlushInv(p)'
  BY <1>1 DEF ProcInv, LockInv, FlushInv, Critical
<1> QED
  BY <1>1, <1>7, <1>8 DEF ProcInv, FreshInv, SerializeInv, WriteInv, DoneInv


-----------------------------------------------------------------------------
(* Writing.                                                                 *)

\* A message that has no ID gets one nothing else has.
LEMMA SerializeMsgStep ==
    ASSUME TypeOK, NEW p \in Procs, ProcInv(p), SerializeMsg(p)
    PROVE  ProcInv(p)'
<1>1. /\ pc[p] = "serialize" /\ pc'[p] = "serialize"
      /\ UNCHANGED <<file, srcs, lock, pc, tu, rdr, endPos, dirty>>
  BY DEF SerializeMsg
<1>2. SerializeInv(p)
  BY <1>1 DEF ProcInv
<1>3. PICK k \in todo[p] :
        LET isNew == data[p][k].id = INVALID_MSG_ID
            id == IF isNew THEN NextId(maxId[p]) ELSE data[p][k].id
        IN  /\ data' = [data EXCEPT ![p][k] = [id |-> id, src |-> @.src]]
            /\ maxId' = IF isNew THEN [maxId EXCEPT ![p] = id] ELSE maxId
            /\ out' = [out EXCEPT ![p] = Append(@, Msg(k, ToInt(id)))]
            /\ todo' = [todo EXCEPT ![p] = @ \ {k}]
  BY DEF SerializeMsg
<1> DEFINE id == IF data[p][k].id = 0 THEN NextId(maxId[p]) ELSE data[p][k].id
           e == [key |-> k, id |-> id]
           b == Msg(k, ToInt(id))
<1>4. k \in tu[p] /\ tu[p] \subseteq Keys /\ k \in Keys /\ todo[p] \subseteq tu[p]
  BY <1>1, <1>2 DEF SerializeInv, TypeOK
<1>5. /\ Cardinality(todo[p] \ {k}) = Cardinality(todo[p]) - 1
      /\ Cardinality(todo[p]) \in Nat /\ Cardinality(todo[p]) > 0
  <2>1. IsFiniteSet(todo[p])
    BY <1>4, KeysAssumption, FS_Subset
  <2>2. Cardinality(todo[p]) \in Nat /\ Cardinality(todo[p]) # 0
    BY <2>1, FS_CardinalityType, FS_EmptySet
  <2>3. Cardinality(todo[p] \ {k}) = Cardinality(todo[p]) - 1
    BY <2>1, FS_RemoveElement
  <2> QED
    BY <2>2, <2>3
<1>6. maxId[p] \in MsgId /\ maxId[p] < MsgIdMax /\ MsgIdMax \in Nat
  <2>1. maxId[p] \in MsgId /\ maxId[p] \in Nat /\ MsgIdMax \in Nat
    BY IntMaxAssumption DEF TypeOK, MsgId, MsgIdMax
  <2>2. maxId[p] + Cardinality(todo[p]) <= MsgIdMax
    BY <1>1, <1>2 DEF SerializeInv
  <2> QED
    BY <1>5, <2>1, <2>2
<1>7. /\ id \in MsgId /\ id # 0
      /\ data[p][k].id = 0 => id = maxId[p] + 1
      /\ data[p][k].id # 0 => id = data[p][k].id
  BY SMTT(30), <1>4, <1>6 DEF NextId, TypeOK, MsgId
<1>8. b \in Block /\ b.kind = "msg" /\ EntryOf(b) = e
  BY <1>4, <1>7, IntCasts, BlockTypes DEF Msg, EntryOf
<1>9. /\ data'[p][k].id = id /\ \A j \in Keys \ {k} : data'[p][j] = data[p][j]
      /\ maxId'[p] = IF data[p][k].id = 0 THEN id ELSE maxId[p]
      /\ out'[p] = Append(out[p], b)
      /\ todo'[p] = todo[p] \ {k}
  BY <1>3, <1>4 DEF TypeOK
<1> HIDE DEF b
<1>10. Known(p)' = Known(p) \cup {e}
  <2>1. \A j \in tu[p] : data'[p][j].id # 0 => [key |-> j, id |-> data'[p][j].id] \in Known(p) \cup {e}
    BY <1>4, <1>9 DEF Known
  <2>2. \A j \in tu[p] : data[p][j].id # 0 => data'[p][j].id = data[p][j].id
    BY <1>4, <1>7, <1>9
  <2>3. Known(p)' \subseteq Known(p) \cup {e}
    BY <1>1, <2>1 DEF Known
  <2>4. Known(p) \subseteq Known(p)'
    BY <1>1, <2>2 DEF Known
  <2>5. e \in Known(p)'
    BY <1>1, <1>4, <1>7, <1>9 DEF Known
  <2> QED
    BY <2>3, <2>4, <2>5
<1>11. /\ Recorded' = Recorded /\ WritePos(p)' = WritePos(p)
       /\ Appendable(p)' <=> Appendable(p)
  BY <1>1 DEF Recorded, WritePos, Appendable
<1>12. data[p][k].id # 0 => e \in Known(p)
  BY <1>4, <1>7 DEF Known
<1>13. \A x \in Recorded \cup Known(p) : x.id \in Nat /\ x.id <= maxId[p]
  BY <1>1, <1>2, KnownType, RecordedType DEF SerializeInv, MsgId
<1>14. Coherent(Recorded \cup Known(p))'
  <2>1. CASE data[p][k].id # 0
    BY <1>1, <1>2, <1>10, <1>11, <1>12, <2>1 DEF SerializeInv
  <2>2. CASE data[p][k].id = 0
    <3> DEFINE S == Recorded \cup Known(p)
    <3>1. Coherent(S)
      BY <1>1, <1>2 DEF SerializeInv
    <3>2. \A x \in Recorded : x.key # k
      BY <1>1, <1>2, <1>4, <2>2 DEF SerializeInv
    <3>3. \A x \in Known(p) : x.key # k
      BY <2>2 DEF Known
    <3>4. \A x \in S : x.id # id
      BY <1>6, <1>7, <1>13, <2>2 DEF MsgId
    <3>5. Coherent(S \cup {e})
      <4> HIDE DEF S
      <4>1. \A x \in S : x.key # e.key /\ x.id # e.id
        BY <3>2, <3>3, <3>4 DEF S
      <4> HIDE DEF e
      <4> QED
        BY <3>1, <4>1, CoherentAdd
    <3> HIDE DEF e
    <3>6. Recorded' \cup Known(p)' = S \cup {e}
      BY <1>10, <1>11
    <3> QED
      BY <3>5, <3>6
  <2> QED
    BY <2>1, <2>2
<1>15. /\ todo'[p] \subseteq tu'[p]
       /\ maxId'[p] + Cardinality(todo'[p]) <= MsgIdMax
  <2>1. todo'[p] \subseteq tu'[p] /\ Cardinality(todo'[p]) = Cardinality(todo[p]) - 1
    BY <1>1, <1>4, <1>5, <1>9
  <2>2. maxId'[p] \in Nat /\ (maxId'[p] = maxId[p] \/ maxId'[p] = maxId[p] + 1) /\ maxId[p] \in Nat
    BY <1>6, <1>7, <1>9 DEF MsgId
  <2>3. maxId[p] + Cardinality(todo[p]) <= MsgIdMax
    BY <1>1, <1>2 DEF SerializeInv
  <2> QED
    BY <1>5, <1>6, <2>1, <2>2, <2>3
<1>16. /\ \A x \in Recorded' : x.key \in tu'[p] => data'[p][x.key].id # 0
       /\ \A x \in Recorded' \cup Known(p)' : x.id <= maxId'[p]
  <2>1. \A j \in tu[p] : data[p][j].id # 0 => data'[p][j].id # 0
    BY <1>4, <1>7, <1>9
  <2>2. maxId'[p] >= maxId[p] /\ maxId'[p] \in Nat /\ maxId[p] \in Nat
    BY <1>6, <1>7, <1>9 DEF MsgId
  <2>3. \A x \in Recorded \cup Known(p) : x.id <= maxId'[p]
    BY <1>13, <2>2
  <2>4. e.id <= maxId'[p]
    <3>1. CASE data[p][k].id # 0
      BY <1>12, <2>3, <3>1
    <3>2. CASE data[p][k].id = 0
      BY <1>7, <1>9, <2>2, <3>2 DEF MsgId
    <3> QED
      BY <3>1, <3>2
  <2>5. \A x \in Recorded : x.key \in tu[p] => data[p][x.key].id # 0
    BY <1>1, <1>2 DEF SerializeInv
  <2> HIDE DEF e
  <2> QED
    BY <1>1, <1>10, <1>11, <2>1, <2>3, <2>4, <2>5
<1>17. /\ Lead(out'[p]) = 1..Len(out'[p])
       /\ Registered(out'[p]) = Registered(out[p]) \cup {e}
  <2>1. out[p] \in Seq(Block) /\ Lead(out[p]) = 1..Len(out[p])
    BY <1>1, <1>2 DEF SerializeInv, TypeOK
  <2> HIDE DEF e
  <2> QED
    BY <1>8, <1>9, <2>1, AppendMsg
<1>18. Registered(out'[p]) \subseteq Known(p)'
  BY <1>1, <1>2, <1>10, <1>17 DEF SerializeInv
<1>19. \A j \in tu'[p] \ todo'[p] :
          /\ data'[p][j].id # 0
          /\ [key |-> j, id |-> data'[p][j].id] \in Registered(file') \cup Registered(out'[p])
  <2> TAKE j \in tu'[p] \ todo'[p]
  <2>1. CASE j = k
    BY <1>7, <1>9, <1>17, <2>1
  <2>2. CASE j # k
    <3>1. j \in tu[p] \ todo[p] /\ data'[p][j] = data[p][j]
      BY <1>1, <1>4, <1>9, <2>2
    <3>2. /\ data[p][j].id # 0
          /\ [key |-> j, id |-> data[p][j].id] \in Registered(file) \cup Registered(out[p])
      BY <1>1, <1>2, <3>1 DEF SerializeInv
    <3> QED
      BY <1>1, <1>17, <3>1, <3>2
  <2> QED
    BY <2>1, <2>2
<1>20. SerializeInv(p)'
  <2>1. Appendable(p)'
    BY <1>1, <1>2, <1>11 DEF SerializeInv
  <2> QED
    BY <1>14, <1>15, <1>16, <1>17, <1>18, <1>19, <2>1 DEF SerializeInv
<1>21. LockInv(p)' /\ FlushInv(p)'
  BY <1>1 DEF ProcInv, LockInv, FlushInv, Critical
<1> QED
  BY <1>1, <1>20, <1>21 DEF ProcInv, FreshInv, ReadInv, WriteInv, DoneInv

\* When every message has been serialized, the output and the file have them all.
LEMMA SerializeEndStep ==
    ASSUME TypeOK, NEW p \in Procs, ProcInv(p), SerializeEnd(p)
    PROVE  ProcInv(p)'
<1>1. /\ pc[p] = "serialize" /\ pc'[p] = "write" /\ todo[p] = {}
      /\ UNCHANGED <<file, srcs, lock, tu, data, endPos, dirty>>
      /\ out'[p] = Append(out[p], End)
  BY DEF SerializeEnd, Goto, TypeOK, readVars
<1>2. SerializeInv(p)
  BY <1>1 DEF ProcInv
<1>3. /\ Known(p)' = Known(p) /\ Recorded' = Recorded
      /\ WritePos(p)' = WritePos(p) /\ (Appendable(p)' <=> Appendable(p))
  BY <1>1 DEF Known, Recorded, WritePos, Appendable
<1>4. Registered(out'[p]) = Registered(out[p])
  <2>1. out[p] \in Seq(Block)
    BY DEF TypeOK
  <2>2. Lead(out[p]) = 1..Len(out[p])
    BY <1>1, <1>2 DEF SerializeInv
  <2> QED
    BY <1>1, <2>1, <2>2, AppendEnd
<1>5. \A k \in tu[p] :
         /\ data[p][k].id # 0
         /\ [key |-> k, id |-> data[p][k].id] \in Registered(file) \cup Registered(out[p])
  BY <1>1, <1>2 DEF SerializeInv
<1>6. Known(p) \subseteq Registered(file) \cup Registered(out[p])
  BY <1>5 DEF Known
<1>7. WriteInv(p)'
  <2>1. \A k \in tu'[p] : data'[p][k].id # 0
    BY <1>1, <1>5
  <2>2. Coherent(Recorded \cup Known(p))'
    <3>1. Coherent(Recorded \cup Known(p))
      BY <1>1, <1>2 DEF SerializeInv
    <3> QED
      BY <1>3, <3>1
  <2>3. /\ Registered(out'[p]) \subseteq Known(p)'
        /\ Known(p)' \subseteq Registered(file') \cup Registered(out'[p])
        /\ Appendable(p)'
    BY <1>1, <1>2, <1>3, <1>4, <1>6 DEF SerializeInv
  <2> QED
    BY <1>1, <2>1, <2>2, <2>3 DEF WriteInv
<1>8. LockInv(p)' /\ FlushInv(p)'
  BY <1>1 DEF ProcInv, LockInv, FlushInv, Critical
<1> QED
  BY <1>1, <1>7, <1>8 DEF ProcInv, FreshInv, ReadInv, SerializeInv, DoneInv


\* Writing something the process knows after the messages of the file.
LEMMA WriteAfter ==
    ASSUME TypeOK, NEW p \in Procs, Appendable(p), NEW w \in Seq(Block),
           Registered(w) \subseteq Known(p)
    PROVE  LET f == Overlay(file, WritePos(p), w)
           IN  /\ Registered(f) = Registered(file) \cup Registered(w)
               /\ Registered(file) \subseteq Registered(f)
               /\ Registered(f) \subseteq Registered(file) \cup Known(p)
               /\ Lead(f) \subseteq 1..(WritePos(p) + Len(w))
<1> DEFINE n == WritePos(p)
           f == Overlay(file, n, w)
<1>1. /\ file \in Seq(Block) /\ n \in 0..Len(file) /\ Lead(file) = 1..n
      /\ \A i \in (n + 1)..Len(file) : file[i].kind # "msg"
  BY WriteType, LenProperties DEF Appendable, TypeOK
<1> HIDE DEF n
<1>2. Registered(f) = Registered(file) \cup Registered(w) /\ Lead(f) \subseteq 1..(n + Len(w))
  BY <1>1, OverlayRegistered
<1> QED
  BY <1>2 DEF n

\* What a coherent writer adds leaves the message files coherent.
LEMMA EffectCoherent ==
    ASSUME NEW p \in Procs, FileEffect(p), UNCHANGED srcs, Coherent(Recorded \cup Known(p))
    PROVE  /\ Coherent(Recorded)'
           /\ Known(p)' = Known(p) => Coherent(Recorded \cup Known(p))'
<1>1. Recorded' \subseteq Recorded \cup Known(p)
  BY DEF FileEffect, Recorded
<1>2. Coherent(Recorded')
  BY <1>1, CoherentSubset
<1>3. Coherent(Recorded' \cup Known(p))
  <2>1. Recorded' \cup Known(p) \subseteq Recorded \cup Known(p)
    BY <1>1
  <2> QED
    BY <2>1, CoherentSubset
<1> QED
  BY <1>2, <1>3

\* The write goes behind the last message of the file, or waits in the buffer.
LEMMA WriteDestStep ==
    ASSUME TypeOK, NEW p \in Procs, ProcInv(p), WriteDest(p)
    PROVE  ProcInv(p)' /\ FileEffect(p)
<1>1. /\ pc[p] = "write" /\ pc'[p] = "resize"
      /\ UNCHANGED <<srcs, lock, tu, data, endPos, out>>
      /\ ~dirty[p]
  BY DEF WriteDest, Goto, TypeOK, readVars, ProcInv, FlushInv
<1>2. WriteInv(p) /\ Appendable(p)
  BY <1>1 DEF ProcInv, WriteInv
<1>3. /\ Known(p)' = Known(p) /\ WritePos(p)' = WritePos(p) /\ TellP(p)' = TellP(p)
      /\ \A k \in tu'[p] : data'[p][k].id # 0
      /\ out[p] \in Seq(Block)
  BY <1>1, <1>2 DEF Known, WritePos, TellP, WriteInv, TypeOK
<1>4. LockInv(p)'
  BY <1>1 DEF ProcInv, LockInv, Critical
<1>5. Registered(out[p]) \subseteq Known(p) /\ Coherent(Recorded \cup Known(p))
      /\ Known(p) \subseteq Registered(file) \cup Registered(out[p])
  BY <1>1, <1>2 DEF WriteInv
<1>6. CASE dirty' = [dirty EXCEPT ![p] = TRUE] /\ UNCHANGED file
  <2>1. dirty'[p] /\ Recorded' = Recorded /\ Appendable(p)'
    BY <1>1, <1>2, <1>3, <1>6 DEF TypeOK, Recorded, Appendable
  <2>2. WriteInv(p)'
    <3>1. Coherent(Recorded \cup Known(p))'
      BY <1>3, <1>5, <2>1
    <3>2. /\ Registered(out'[p]) \subseteq Known(p)'
          /\ Known(p)' \subseteq Registered(file') \cup Registered(out'[p])
      BY <1>1, <1>3, <1>5, <1>6
    <3> QED
      BY <1>1, <1>3, <2>1, <3>1, <3>2 DEF WriteInv
  <2>3. FlushInv(p)'
    BY <1>1 DEF FlushInv
  <2> QED
    BY <1>1, <1>4, <1>6, <2>2, <2>3, NoFileEffect
    DEF ProcInv, FreshInv, ReadInv, SerializeInv, DoneInv
<1>7. CASE file' = Overlay(file, WritePos(p), out[p]) /\ UNCHANGED dirty
  <2>1. /\ Registered(file') = Registered(file) \cup Registered(out[p])
        /\ Registered(file) \subseteq Registered(file')
        /\ Registered(file') \subseteq Registered(file) \cup Known(p)
        /\ Lead(file') \subseteq 1..(WritePos(p) + Len(out[p]))
    BY <1>2, <1>3, <1>5, <1>7, WriteAfter
  <2>2. FileEffect(p)
    BY <1>1, <2>1 DEF FileEffect, Critical
  <2>3. WriteInv(p)'
    <3>1. Coherent(Recorded \cup Known(p))'
      BY <1>1, <1>3, <1>5, <2>2, EffectCoherent
    <3>2. /\ Registered(out'[p]) \subseteq Known(p)'
          /\ Known(p)' \subseteq Registered(file')
          /\ Lead(file') \subseteq 1..TellP(p)'
      BY <1>1, <1>3, <1>5, <2>1 DEF TellP
    <3> QED
      BY <1>1, <1>3, <1>7, <3>1, <3>2 DEF WriteInv
  <2>4. FlushInv(p)'
    BY <1>1, <1>7 DEF FlushInv
  <2> QED
    BY <1>1, <1>4, <2>2, <2>3, <2>4 DEF ProcInv, FreshInv, ReadInv, SerializeInv, DoneInv
<1> QED
  BY <1>6, <1>7 DEF WriteDest

\* Cutting the file never cuts a message off.
LEMMA ResizeDestStep ==
    ASSUME TypeOK, NEW p \in Procs, ProcInv(p), ResizeDest(p)
    PROVE  ProcInv(p)' /\ FileEffect(p)
<1>1. /\ pc[p] = "resize" /\ pc'[p] = "close"
      /\ UNCHANGED <<srcs, lock, tu, data, endPos, out, dirty>>
      /\ file' = Truncated(file, TellP(p))
  BY DEF ResizeDest, Goto, TypeOK, localVars, readVars, writeVars
<1>2. WriteInv(p)
  BY <1>1 DEF ProcInv
<1>3. /\ Known(p)' = Known(p) /\ WritePos(p)' = WritePos(p) /\ TellP(p)' = TellP(p)
      /\ \A k \in tu'[p] : data'[p][k].id # 0
  BY <1>1, <1>2 DEF Known, WritePos, TellP, WriteInv
<1>4. /\ TellP(p) \in Nat /\ WritePos(p) \in Nat /\ file \in Seq(Block) /\ Len(file) \in Nat
      /\ WritePos(p) <= TellP(p)
  <2>1. Len(out[p]) \in Nat
    BY LenProperties DEF TypeOK
  <2> QED
    BY <2>1, WriteType, LenProperties DEF TypeOK, TellP
<1>5. Lead(file) \subseteq 1..TellP(p)
  BY <1>1, <1>2, <1>4 DEF WriteInv, Appendable
<1>6. Lead(file') = Lead(file) /\ Registered(file') = Registered(file)
  BY <1>1, <1>4, <1>5, TruncatedRegistered
<1>7. FileEffect(p)
  BY <1>1, <1>6 DEF FileEffect, Critical
<1>8. ASSUME Appendable(p) PROVE Appendable(p)'
  <2>1. /\ Len(file') = IF Len(file) > TellP(p) THEN TellP(p) ELSE Len(file)
        /\ \A i \in 1..Len(file') : file'[i] = file[i]
    BY <1>1, <1>4, TruncatedType
  <2>2. WritePos(p) <= Len(file')
    BY <1>4, <1>8, <2>1 DEF Appendable
  <2>3. \A i \in (WritePos(p) + 1)..Len(file') : file'[i].kind # "msg"
    <3> TAKE i \in (WritePos(p) + 1)..Len(file')
    <3>1. i \in 1..Len(file') /\ i \in (WritePos(p) + 1)..Len(file)
      BY <1>4, <2>1
    <3> QED
      BY <1>8, <2>1, <3>1 DEF Appendable
  <2> QED
    BY <1>3, <1>6, <1>8, <2>2, <2>3 DEF Appendable
<1>9. WriteInv(p)'
  <2>1. Coherent(Recorded \cup Known(p))
    BY <1>1, <1>2 DEF WriteInv
  <2>2. Coherent(Recorded \cup Known(p))'
    BY <1>1, <1>3, <1>7, <2>1, EffectCoherent
  <2>3. /\ Registered(out'[p]) \subseteq Known(p)'
        /\ Known(p)' \subseteq Registered(file') \cup Registered(out'[p])
    BY <1>1, <1>2, <1>3, <1>6 DEF WriteInv
  <2>4. IF dirty[p] THEN Appendable(p)
        ELSE Known(p) \subseteq Registered(file)
    BY <1>1, <1>2 DEF WriteInv
  <2>5. IF dirty'[p] THEN Appendable(p)'
        ELSE Known(p)' \subseteq Registered(file') /\ Lead(file') \subseteq 1..TellP(p)'
    BY <1>1, <1>3, <1>5, <1>6, <1>8, <2>4
  <2> QED
    BY <1>1, <1>3, <2>2, <2>3, <2>5 DEF WriteInv
<1>10. LockInv(p)' /\ FlushInv(p)'
  BY <1>1 DEF ProcInv, LockInv, FlushInv, Critical
<1> QED
  BY <1>1, <1>7, <1>9, <1>10 DEF ProcInv, FreshInv, ReadInv, SerializeInv, DoneInv

\* After the last flush everything the process knows is in the file.
LEMMA CloseDestStep ==
    ASSUME TypeOK, NEW p \in Procs, ProcInv(p), "diskFull" \notin Faults, CloseDest(p)
    PROVE  ProcInv(p)' /\ FileEffect(p)
<1>1. /\ pc[p] = "close" /\ pc'[p] = "unlock" /\ ~dirty'[p]
      /\ UNCHANGED <<srcs, tu, data, out>>
      /\ file' = Flushed(p)
  BY DEF CloseDest, Goto, TypeOK, readVars
<1>2. WriteInv(p)
  BY <1>1 DEF ProcInv
<1>3. /\ Known(p)' = Known(p) /\ \A k \in tu'[p] : data'[p][k].id # 0
      /\ out[p] \in Seq(Block)
  BY <1>1, <1>2 DEF Known, WriteInv, TypeOK
<1>4. Known(p) \subseteq Registered(file') /\ FileEffect(p)
  <2>1. CASE dirty[p]
    <3>1. /\ Appendable(p) /\ Registered(out[p]) \subseteq Known(p)
          /\ Known(p) \subseteq Registered(file) \cup Registered(out[p])
      BY <1>1, <1>2, <2>1 DEF WriteInv
    <3>2. file' = Overlay(file, WritePos(p), out[p])
      BY <1>1, <2>1 DEF Flushed
    <3> QED
      BY <1>1, <1>3, <3>1, <3>2, WriteAfter DEF FileEffect, Critical
  <2>2. CASE ~dirty[p]
    <3>1. file' = file /\ Known(p) \subseteq Registered(file)
      BY <1>1, <1>2, <2>2 DEF WriteInv, Flushed
    <3> QED
      BY <3>1, NoFileEffect
  <2> QED
    BY <2>1, <2>2
<1>5. DoneInv(p)'
  BY <1>1, <1>3, <1>4 DEF DoneInv
<1> QED
  BY <1>1, <1>4, <1>5
  DEF ProcInv, LockInv, FlushInv, FreshInv, ReadInv, SerializeInv, WriteInv, Critical

\* What the file records outlives the lock.
LEMMA UnlockStep ==
    ASSUME TypeOK, NEW p \in Procs, ProcInv(p), Unlock(p)
    PROVE  ProcInv(p)'
<1>1. pc[p] = "unlock" /\ pc'[p] = "emit" /\ UNCHANGED <<file, srcs, localVars>>
  BY DEF Unlock, Goto, TypeOK
<1>2. DoneInv(p)'
  BY <1>1 DEF ProcInv, DoneInv, Known, localVars
<1>3. FlushInv(p)'
  BY <1>1 DEF ProcInv, FlushInv, localVars, writeVars
<1> QED
  BY <1>1, <1>2, <1>3
  DEF ProcInv, LockInv, FreshInv, ReadInv, SerializeInv, WriteInv, Critical

\* A killed writer has written some of what it knows, or nothing.
LEMMA CrashStep ==
    ASSUME TypeOK, NEW p \in Procs, ProcInv(p), Crash(p)
    PROVE  /\ ProcInv(p)' /\ FileEffect(p)
           /\ file' # file => Coherent(Recorded \cup Known(p))
<1>1. ProcInv(p)'
  BY ForgetStep DEF Crash
<1>2. CASE UNCHANGED file
  BY <1>1, <1>2, NoFileEffect
<1>3. CASE /\ pc[p] = "write" \/ (pc[p] \in {"close", "dtor"} /\ dirty[p])
           /\ \E w \in Partial(out[p]) : file' = Overlay(file, WritePos(p), w)
  <2>1. pc[p] \in {"write", "close"} /\ (pc[p] = "write" \/ dirty[p])
    BY <1>3 DEF ProcInv, FlushInv
  <2>2. /\ Appendable(p) /\ Registered(out[p]) \subseteq Known(p)
        /\ Coherent(Recorded \cup Known(p))
    BY <2>1 DEF ProcInv, WriteInv
  <2>3. PICK w \in Partial(out[p]) : file' = Overlay(file, WritePos(p), w)
    BY <1>3
  <2>4. w \in Seq(Block) /\ Registered(w) \subseteq Known(p)
    <3>1. out[p] \in Seq(Block)
      BY DEF TypeOK
    <3> QED
      BY <2>2, <3>1, PartialType, PartialRegistered
  <2>5. FileEffect(p)
    BY <2>1, <2>2, <2>3, <2>4, WriteAfter DEF FileEffect, Critical
  <2> QED
    BY <1>1, <2>2, <2>5
<1> QED
  BY <1>2, <1>3 DEF Crash

-----------------------------------------------------------------------------
(* The invariant.                                                           *)

\* The invariant holds before the first compilation.
LEMMA SafetyInit == ASSUME CoherentStart PROVE Init => IndInv
<1> SUFFICES ASSUME Init PROVE IndInv
  OBVIOUS
<1>1. Recorded = Registered(file) \cup UNION {Registered(SrcFiles[i]) : i \in DOMAIN SrcFiles}
  BY DEF Init, Recorded
<1>2. Coherent(Recorded)
  BY <1>1 DEF CoherentStart, Init
<1>3. ASSUME NEW p \in Procs PROVE ProcInv(p)
  <2>1. pc[p] = "idle" /\ ~dirty[p]
    BY DEF Init
  <2>2. FreshInv(p)
    BY DEF Init, FreshInv
  <2> QED
    BY <2>1, <2>2
    DEF ProcInv, LockInv, FlushInv, ReadInv, SerializeInv, WriteInv, DoneInv, Critical
<1> QED
  BY <1>2, <1>3 DEF IndInv, Init

\* One process's step: it keeps its own part of the invariant, extends the
\* file coherently, and issues only what the file has.
LEMMA OwnStep ==
    ASSUME Benign, TypeInv, IndInv, NEW p \in Procs, ProcStep(p)
    PROVE  /\ ProcInv(p)' /\ FileEffect(p) /\ UNCHANGED srcs
           /\ file' # file => Coherent(Recorded \cup Known(p))
           /\ \/ UNCHANGED issued
              \/ /\ UNCHANGED file
                 /\ issued' \subseteq issued \cup Registered(file)
                 /\ issued \subseteq issued'
<1> USE DEF TypeInv
<1>0. /\ ProcInv(p) /\ Coherent(Recorded)
      /\ "diskFull" \notin Faults /\ "resize" \notin Faults
  BY DEF IndInv, Benign
<1>1. CASE StartCompile(p)
  BY <1>0, <1>1, StartCompileStep, NoFileEffect DEF StartCompile
<1>2. CASE OpenDest(p)
  BY <1>0, <1>2, OpenDestStep, NoFileEffect DEF OpenDest
<1>3. CASE LockDest(p)
  BY <1>0, <1>3, LockDestStep, NoFileEffect DEF LockDest
<1>4. CASE ReopenDest(p)
  BY <1>0, <1>4, ReopenDestStep, NoFileEffect DEF ReopenDest
<1>5. CASE OpenFails(p)
  <2>1. pc'[p] = "fail" /\ ~dirty'[p]
    BY <1>0, <1>5
    DEF OpenFails, Goto, TypeOK, ProcInv, FlushInv, localVars, writeVars
  <2> QED
    BY <1>5, <2>1, PlainStep, NoFileEffect DEF OpenFails
<1>6. CASE ReadObject(p)
  BY <1>0, <1>6, ReadObjectStep, NoFileEffect DEF ReadObject
<1>7. CASE ReadEnd(p)
  BY <1>0, <1>7, ReadEndStep, NoFileEffect DEF ReadEnd
<1>8. CASE ReadThrows(p)
  <2>1. pc'[p] = "fail" /\ ~dirty'[p]
    BY <1>0, <1>8
    DEF ReadThrows, Goto, TypeOK, ProcInv, FlushInv, localVars, writeVars
  <2> QED
    BY <1>8, <2>1, PlainStep, NoFileEffect DEF ReadThrows
<1>9. CASE OpenSrc(p)
  BY <1>0, <1>9, OpenSrcStep, NoFileEffect DEF OpenSrc
<1>10. CASE SerializeMsg(p)
  BY <1>0, <1>10, SerializeMsgStep, NoFileEffect DEF SerializeMsg
<1>11. CASE SerializeEnd(p)
  BY <1>0, <1>11, SerializeEndStep, NoFileEffect DEF SerializeEnd
<1>12. CASE WriteDest(p)
  <2>1. Coherent(Recorded \cup Known(p))
    BY <1>0, <1>12 DEF WriteDest, ProcInv, WriteInv
  <2> QED
    BY <1>0, <1>12, <2>1, WriteDestStep DEF WriteDest
<1>13. CASE WriteThrows(p)
  BY <1>0, <1>13 DEF WriteThrows
<1>14. CASE ResizeDest(p)
  <2>1. Coherent(Recorded \cup Known(p))
    BY <1>0, <1>14 DEF ResizeDest, ProcInv, WriteInv
  <2> QED
    BY <1>0, <1>14, <2>1, ResizeDestStep DEF ResizeDest
<1>15. CASE ResizeThrows(p)
  BY <1>0, <1>15 DEF ResizeThrows
<1>16. CASE CloseDest(p)
  <2>1. Coherent(Recorded \cup Known(p))
    BY <1>0, <1>16 DEF CloseDest, ProcInv, WriteInv
  <2> QED
    BY <1>0, <1>16, <2>1, CloseDestStep DEF CloseDest
<1>17. CASE Unlock(p)
  BY <1>0, <1>17, UnlockStep, NoFileEffect DEF Unlock
<1>18. CASE Emit(p)
  <2>1. /\ \A k \in tu[p] : data[p][k].id # 0
        /\ Known(p) \subseteq Registered(file)
    BY <1>0, <1>18 DEF Emit, ProcInv, DoneInv
  <2>2. issued' = issued \cup Known(p) /\ UNCHANGED <<file, srcs>>
    BY <1>18, <2>1 DEF Emit, Known
  <2>3. ProcInv(p)'
    BY <1>18, ForgetStep DEF Emit
  <2> QED
    BY <2>1, <2>2, <2>3, NoFileEffect
<1>19. CASE Unwind(p)
  <2>1. pc'[p] = "dtor" /\ ~dirty'[p]
    BY <1>0, <1>19
    DEF Unwind, Goto, TypeOK, ProcInv, FlushInv, localVars, writeVars
  <2> QED
    BY <1>19, <2>1, PlainStep, NoFileEffect DEF Unwind
<1>20. CASE CloseUnwound(p)
  <2>1. UNCHANGED <<file, srcs, issued>>
    BY <1>0, <1>20 DEF CloseUnwound, ProcInv, FlushInv, Flushed
  <2>2. ProcInv(p)'
    BY <1>20, ForgetStep DEF CloseUnwound
  <2> QED
    BY <2>1, <2>2, NoFileEffect
<1>21. CASE Crash(p)
  BY <1>0, <1>21, CrashStep DEF Crash
<1> QED
  BY <1>1, <1>2, <1>3, <1>4, <1>5, <1>6, <1>7, <1>8, <1>9, <1>10, <1>11, <1>12, <1>13,
     <1>14, <1>15, <1>16, <1>17, <1>18, <1>19, <1>20, <1>21 DEF ProcStep, Step

\* Two processes are never both between the reading and the last write.
LEMMA Exclusion ==
    ASSUME Exclusive, IndInv, NEW p \in Procs, NEW q \in Procs,
           pc[p] \in Critical, pc[q] \in Critical
    PROVE  p = q
BY SwitchAssumption DEF Exclusive, IndInv, ProcInv, LockInv

\* No step of a process breaks the invariant of any process.
LEMMA SafetyStep ==
    ASSUME Exclusive, Benign
    PROVE  TypeInv /\ IndInv /\ [Next]_vars => IndInv'
<1> SUFFICES ASSUME TypeInv, IndInv, [Next]_vars PROVE IndInv'
  OBVIOUS
<1>1. ASSUME NEW p \in Procs, ProcStep(p) PROVE IndInv'
  <2>1. /\ ProcInv(p)' /\ FileEffect(p) /\ UNCHANGED srcs
        /\ file' # file => Coherent(Recorded \cup Known(p))
        /\ \/ UNCHANGED issued
           \/ /\ UNCHANGED file
              /\ issued' \subseteq issued \cup Registered(file)
    BY <1>1, OwnStep
  <2>2. ASSUME NEW q \in Procs, q # p PROVE ProcInv(q)'
    <3>1. Kept(q) /\ (lock = q => lock' = q)
      BY <1>1, <2>2, StepKeeps DEF TypeInv
    <3>2. ProcInv(q)
      BY DEF IndInv
    <3>3. \/ UNCHANGED <<file, srcs>>
          \/ pc[q] \notin Critical /\ Registered(file) \subseteq Registered(file')
      BY <2>1, <2>2, Exclusion DEF FileEffect
    <3> QED
      BY <3>1, <3>2, <3>3, Frame
  <2>3. Coherent(Recorded)'
    <3>1. CASE file' = file
      BY <2>1, <3>1 DEF IndInv, Recorded
    <3>2. CASE file' # file
      BY <2>1, <3>2, EffectCoherent
    <3> QED
      BY <3>1, <3>2
  <2>4. (issued \subseteq Registered(file))'
    BY <2>1 DEF IndInv, FileEffect
  <2> QED
    BY <2>1, <2>2, <2>3, <2>4 DEF IndInv
<1>2. ASSUME NEW i \in DOMAIN srcs, NEW k \in Keys, Publish(i, k) PROVE IndInv'
  BY <1>2 DEF Publish, Benign
<1>3. ASSUME UNCHANGED vars PROVE IndInv'
  <2>1. \A q \in Procs : Kept(q)
    BY <1>3 DEF vars, localVars, readVars, writeVars, Kept
  <2>2. UNCHANGED <<file, srcs, lock, issued>>
    BY <1>3 DEF vars
  <2>3. \A q \in Procs : ProcInv(q)'
    BY <2>1, <2>2, Frame DEF IndInv
  <2> QED
    BY <2>2, <2>3 DEF IndInv, Recorded
<1> QED
  BY <1>1, <1>2, <1>3 DEF Next, ProcStep, BuildDone

-----------------------------------------------------------------------------
(* Theorems.                                                                *)

\* The inductive invariant of MsgIndex holds in every reachable state.
THEOREM Invariance ==
    ASSUME Exclusive, Benign, CoherentStart
    PROVE  Spec => [](TypeInv /\ IndInv)
<1>1. Init => TypeInv /\ IndInv
  BY TypeInit, SafetyInit
<1>2. TypeInv /\ IndInv /\ [Next]_vars => (TypeInv /\ IndInv)'
  BY TypeStep, SafetyStep
<1> QED
  BY <1>1, <1>2, PTL DEF Spec

\* At most one compilation is between reading the destination file and the
\* last write to it, although the lock is only taken after the first open.
THEOREM Mutex ==
    ASSUME Exclusive, Benign, CoherentStart
    PROVE  Spec => []OneWriter
<1>1. IndInv => OneWriter
  BY Exclusion DEF OneWriter
<1> QED
  BY <1>1, Invariance, PTL

\* No ID goes into object files for two different messages.
THEOREM Uniqueness ==
    ASSUME Exclusive, Benign, CoherentStart
    PROVE  Spec => []IssuedUnique
<1>1. IndInv => IssuedUnique
  BY DEF IndInv, IssuedUnique, Coherent, Recorded
<1> QED
  BY <1>1, Invariance, PTL

\* Every ID that went into an object file is recorded in the destination
\* file, also while a compilation is rewriting it.
THEOREM Durability ==
    ASSUME Exclusive, Benign, CoherentStart
    PROVE  Spec => []IssuedDurable
<1>1. IndInv => IssuedDurable
  BY DEF IndInv, IssuedDurable
<1> QED
  BY <1>1, Invariance, PTL

\* The compilations implement the registry of IDs: every step of process(),
\* a crash in the middle of a write included, registers new pairs, compiles
\* registered ones into an object file, or does not touch the registry.
THEOREM Refinement ==
    ASSUME Exclusive, Benign, CoherentStart
    PROVE  Spec => ImplementsRegistry
<1>1. TypeInv /\ IndInv /\ Init => Registry!Init
  <2>1. Coherent(Registered(file)) = Registry!OneToOne(Registered(file))
    BY DEF Coherent, Registry!OneToOne
  <2>2. IndInv => Coherent(Registered(file))
    BY CoherentSubset DEF IndInv, Recorded
  <2> QED
    BY <2>1, <2>2, RecordedType DEF Registry!Init, Init, TypeInv
<1>2. TypeInv /\ IndInv /\ TypeInv' /\ IndInv' /\ [Next]_vars
        => [Registry!Next]_(Registry!vars)
  <2> SUFFICES ASSUME TypeInv, IndInv, TypeInv', IndInv', [Next]_vars
               PROVE  [Registry!Next]_(Registry!vars)
    OBVIOUS
  <2>1. ASSUME NEW p \in Procs, ProcStep(p) PROVE Registry!Next
    <3>1. /\ Registered(file) \subseteq Registered(file')
          /\ \/ UNCHANGED issued
             \/ /\ UNCHANGED file
                /\ issued \subseteq issued'
      BY <2>1, OwnStep DEF FileEffect
    <3>2. CASE UNCHANGED issued
      <4>1. Registered(file)' \subseteq [key : Keys, id : MsgId]
        BY RegisteredType DEF TypeInv, TypeOK
      <4>2. Coherent(Registered(file))'
        BY CoherentSubset DEF IndInv, Recorded
      <4>3. Registry!OneToOne(Registered(file))'
        BY <4>2 DEF Coherent, Registry!OneToOne
      <4> QED
        BY <3>1, <3>2, <4>1, <4>3 DEF Registry!Next, Registry!Register
    <3>3. CASE UNCHANGED file /\ issued \subseteq issued'
      <4>1. issued' \subseteq Registered(file)
        BY <3>3 DEF IndInv
      <4> QED
        BY <3>3, <4>1 DEF Registry!Next, Registry!Compile
    <3> QED
      BY <3>1, <3>2, <3>3
  <2>2. ASSUME NEW i \in DOMAIN srcs, NEW k \in Keys, Publish(i, k) PROVE FALSE
    BY <2>2 DEF Publish, Benign
  <2>3. CASE UNCHANGED vars
    BY <2>3 DEF vars, Registry!vars
  <2> QED
    BY <2>1, <2>2, <2>3 DEF Next, ProcStep, BuildDone
<1> QED
  BY <1>1, <1>2, Invariance, PTL DEF Spec, ImplementsRegistry, Registry!Spec


\* The file changes only by a step of the process that holds its lock, the
\* last flush included, if closing a file does not drop the lock.
THEOREM WriterHoldsLock ==
    ASSUME ~LockDiesOnClose, Benign, CoherentStart
    PROVE  Spec => WritesUnderLock
<1>1. Exclusive
  BY DEF Exclusive
<1>2. TypeInv /\ IndInv /\ [Next]_vars =>
        [file' # file => \E p \in Procs : lock = p /\ pc'[p] # pc[p]]_vars
  <2> SUFFICES ASSUME TypeInv, IndInv, [Next]_vars, file' # file
               PROVE  \E p \in Procs : lock = p /\ pc'[p] # pc[p]
    OBVIOUS
  <2>1. ASSUME NEW p \in Procs, ProcStep(p) PROVE lock = p /\ pc'[p] # pc[p]
    <3>1. pc[p] \in Critical /\ ProcInv(p)
      BY <2>1, OwnStep DEF FileEffect, IndInv
    <3>2. lock = p
      BY <3>1 DEF ProcInv, LockInv
    <3>3. WriteDest(p) \/ ResizeDest(p) \/ CloseDest(p) \/ Crash(p) \/ pc[p] \notin Critical
      BY <2>1 DEF ProcStep, Step, StartCompile, OpenDest, LockDest, ReopenDest, OpenFails,
           ReadObject, ReadEnd, ReadThrows, OpenSrc, SerializeMsg, SerializeEnd,
           WriteThrows, ResizeThrows, Unlock, Emit, Unwind, CloseUnwound, Benign, Critical
    <3>4. pc'[p] # pc[p]
      BY <3>1, <3>3 DEF TypeInv, TypeOK, Goto, WriteDest, ResizeDest, CloseDest, Crash, Critical
    <3> QED
      BY <3>2, <3>4
  <2>2. CASE UNCHANGED vars \/ \E i \in DOMAIN srcs, k \in Keys : Publish(i, k)
    BY <2>2 DEF vars, Publish
  <2> QED
    BY <2>1, <2>2 DEF Next, ProcStep, BuildDone
<1> QED
  BY <1>1, <1>2, Invariance, PTL DEF Spec, WritesUnderLock

=============================================================================
