--------------------------- MODULE MsgIndexFaults ---------------------------
(***************************************************************************)
(* What holds of MsgIndex::process() whatever fails, and what holds if     *)
(* nothing does.  The asserts of the code only depend on what a process    *)
(* has itself: they hold for any files, processes and faults, with or      *)
(* without a lock (CountInv).  If compilations run one at a time, no fault *)
(* harms a message that the destination file has (FileInv).  Without       *)
(* faults every compilation can read the file (LimitInv).                  *)
(***************************************************************************)
EXTENDS MsgIndexSafety

USE DEF INVALID_MSG_ID

-----------------------------------------------------------------------------
(* Counting.                                                                *)

\* The messages of a unit are finitely many.
LEMMA UnitFinite ==
    ASSUME TypeOK, NEW p \in Procs, NEW S \in SUBSET tu[p]
    PROVE  /\ IsFiniteSet(S) /\ Cardinality(S) \in Nat
           /\ Cardinality(S) <= Cardinality(tu[p])
           /\ Cardinality(S) = Cardinality(tu[p]) => S = tu[p]
           /\ Cardinality(S) <= IntMax + 1
<1>1. tu[p] \in SUBSET Keys
  BY DEF TypeOK
<1>2. IsFiniteSet(tu[p]) /\ IsFiniteSet(S)
  BY <1>1, KeysAssumption, FS_Subset
<1>3. /\ Cardinality(S) <= Cardinality(tu[p])
      /\ Cardinality(tu[p]) = Cardinality(S) => tu[p] = S
      /\ Cardinality(tu[p]) <= Cardinality(Keys)
  BY <1>1, <1>2, KeysAssumption, FS_Subset
<1>4. Cardinality(S) \in Nat /\ Cardinality(tu[p]) \in Nat /\ Cardinality(Keys) \in Nat
  BY <1>2, KeysAssumption, FS_CardinalityType
<1> QED
  BY <1>2, <1>3, <1>4, IntMaxAssumption

\* The messages the destination file had are as many as their IDs.
LEMMA OldCount ==
    ASSUME TypeOK, NEW p \in Procs, OldInv(p)
    PROVE  Cardinality({data[p][k].id : k \in Old(p)}) = Cardinality(Old(p))
<1> DEFINE I == {data[p][k].id : k \in Old(p)}
           g == [k \in Old(p) |-> data[p][k].id]
<1>1. g \in [Old(p) -> I] /\ \A k, l \in Old(p) : g[k] = g[l] => k = l
  BY DEF OldInv
<1>2. \A i \in I : \E k \in Old(p) : g[k] = i
  OBVIOUS
<1>3. g \in Bijection(Old(p), I)
  <2> HIDE DEF g, I
  <2> QED
    BY <1>1, <1>2 DEF Bijection, Injection, Surjection, IsInjective
<1>4. Old(p) \in SUBSET tu[p]
  BY DEF Old
<1>5. IsFiniteSet(Old(p))
  BY <1>4, UnitFinite
<1>6. ExistsBijection(Old(p), I)
  BY <1>3 DEF ExistsBijection
<1> HIDE DEF I, g
<1>7. Cardinality(I) = Cardinality(Old(p))
  BY <1>5, <1>6, FS_Bijection
<1> QED
  BY <1>7 DEF I

\* Every message of the unit is either old or to be written.
LEMMA OldOrWritten ==
    ASSUME TypeOK, NEW p \in Procs
    PROVE  Cardinality(Old(p)) + Cardinality(ToWrite(p)) = Cardinality(tu[p])
<1>1. Old(p) \in SUBSET tu[p] /\ ToWrite(p) \in SUBSET tu[p]
  BY DEF Old, ToWrite
<1>2. \A k \in tu[p] : data[p][k].src \in {"NEW", "DEST", "SRC"}
  BY DEF TypeOK, MsgSrc
<1>3. Old(p) \cup ToWrite(p) = tu[p] /\ Old(p) \cap ToWrite(p) = {}
  BY <1>1, <1>2 DEF Old, ToWrite
<1>4. IsFiniteSet(Old(p)) /\ IsFiniteSet(ToWrite(p))
  BY <1>1, UnitFinite
<1>5. Cardinality(Old(p) \cup ToWrite(p)) =
        Cardinality(Old(p)) + Cardinality(ToWrite(p)) - Cardinality(Old(p) \cap ToWrite(p))
  BY <1>4, FS_Union
<1>6. Cardinality(Old(p)) \in Nat /\ Cardinality(ToWrite(p)) \in Nat
  BY <1>1, UnitFinite
<1>7. Cardinality({}) = 0
  BY FS_EmptySet
<1>8. Cardinality(Old(p) \cap ToWrite(p)) = 0
  BY <1>3, <1>7
<1>9. Cardinality(Old(p) \cup ToWrite(p)) = Cardinality(tu[p])
  BY <1>3
<1> QED
  BY <1>5, <1>6, <1>8, <1>9

-----------------------------------------------------------------------------
(* The steps of one process.                                                *)

\* A process that has ended counts nothing.
LEMMA ForgetCount ==
    ASSUME TypeOK, NEW p \in Procs, Forget(p), Goto(p, "idle")
    PROVE  CountInv(p)'
<1>1. pc'[p] = "idle" /\ tu'[p] = {} /\ data'[p] = [k \in Keys |-> NewData]
  BY DEF Goto, Forget, TypeOK
<1>2. FreshInv(p)'
  BY DEF FreshInv, Forget, TypeOK
<1>3. OldInv(p)'
  BY <1>1 DEF OldInv, Old, NewData
<1> QED
  BY <1>1, <1>2, <1>3 DEF CountInv, ReadCount, SerializeCount, WriteCount

\* A step that leaves the process's messages alone and opens or closes files.
LEMMA OtherCount ==
    ASSUME TypeOK, NEW p \in Procs, CountInv(p),
           StartCompile(p) \/ OpenDest(p) \/ LockDest(p) \/ ReopenDest(p) \/ OpenFails(p)
           \/ ReadThrows(p) \/ WriteDest(p) \/ WriteThrows(p) \/ ResizeDest(p) \/ ResizeThrows(p)
           \/ CloseDest(p) \/ Unlock(p) \/ Unwind(p)
    PROVE  CountInv(p)'
<1> USE DEF Goto, TypeOK, readVars, writeVars, localVars
<1>1. /\ UNCHANGED <<data, rdr, pos, found, endPos, maxId, todo, out>>
      /\ UNCHANGED tu \/ StartCompile(p)
  BY DEF StartCompile, OpenDest, LockDest, ReopenDest, OpenFails, ReadThrows,
     WriteDest, WriteThrows, ResizeDest, ResizeThrows, CloseDest, Unlock, Unwind
<1>2. \/ /\ pc[p] \in {"idle", "open", "lock"} /\ pc'[p] \in {"open", "lock", "reopen"}
      \/ pc[p] = "reopen" /\ pc'[p] = "read"
      \/ pc'[p] \in {"fail", "dtor"}
      \/ /\ pc[p] \in {"write", "resize", "close", "unlock"}
         /\ pc'[p] \in {"resize", "close", "unlock", "emit"}
  BY DEF StartCompile, OpenDest, LockDest, ReopenDest, OpenFails, ReadThrows,
     WriteDest, WriteThrows, ResizeDest, ResizeThrows, CloseDest, Unlock, Unwind
<1>3. StartCompile(p) => pc[p] = "idle" /\ pc'[p] = "open"
  BY DEF StartCompile
<1>4. FreshInv(p)'
  BY <1>1, <1>2 DEF CountInv, FreshInv
<1>5. OldInv(p)'
  <2>1. CASE UNCHANGED tu
    BY <1>1, <2>1 DEF CountInv, OldInv, Old
  <2>2. CASE StartCompile(p)
    <3>1. \A k \in Keys : data'[p][k] = NewData
      BY <1>1, <1>3, <2>2 DEF CountInv, FreshInv
    <3>2. tu'[p] \subseteq Keys
      BY <2>2 DEF StartCompile
    <3> QED
      BY <3>1, <3>2 DEF OldInv, Old, NewData
  <2> QED
    BY <1>1, <2>1, <2>2
<1>6. ReadCount(p)'
  <2>1. CASE pc[p] = "reopen" /\ pc'[p] = "read"
    <3>1. /\ out[p] = << >> /\ maxId[p] = 0 /\ found[p] = {}
          /\ \A k \in Keys : data[p][k] = NewData
      BY <2>1 DEF CountInv, FreshInv
    <3>2. Old(p)' = {}
      BY <1>1, <1>3, <2>1, <3>1 DEF Old, NewData
    <3> QED
      BY <1>1, <2>1, <3>1, <3>2, IntMaxAssumption DEF ReadCount
  <2> QED
    BY <1>2, <2>1 DEF ReadCount
<1>7. SerializeCount(p)'
  BY <1>2 DEF SerializeCount
<1>8. WriteCount(p)'
  <2>1. pc'[p] # "write"
    BY <1>2
  <2>2. ASSUME pc'[p] \in {"write", "resize", "close", "unlock", "emit"}
        PROVE  \A k \in tu'[p] : data'[p][k].id # 0
    <3>1. UNCHANGED <<tu, data>> /\ pc[p] \in {"write", "resize", "close", "unlock"}
      BY <1>1, <1>2, <1>3, <2>2
    <3> QED
      BY <3>1 DEF CountInv, WriteCount
  <2> QED
    BY <2>1, <2>2 DEF WriteCount
<1> QED
  BY <1>4, <1>5, <1>6, <1>7, <1>8 DEF CountInv

\* The reader counts a message it has not seen, under an ID of its own.
LEMMA ReadObjectCount ==
    ASSUME TypeOK, NEW p \in Procs, CountInv(p), ReadObject(p)
    PROVE  CountInv(p)'
<1> DEFINE b == Stream(p)[pos[p] + 1]
<1>1. /\ pc[p] = "read" /\ pc'[p] = "read" /\ UNCHANGED <<tu, rdr, out>>
      /\ AtMsg(p) /\ GoodId(b) /\ Agrees(p, b)
      /\ maxId'[p] = Greater(maxId[p], b.id)
  BY DEF ReadObject, writeVars, TypeOK
<1>2. b.key \in Keys /\ b.id \in 1..IntMax
  BY <1>1, BlockAtType, GoodIdType
<1>3. \/ /\ b.key \in tu[p] /\ data[p][b.key].id = 0
         /\ data'[p] = [data[p] EXCEPT ![b.key] = [id |-> b.id, src |-> SrcTag(p)]]
         /\ found'[p] = found[p] \cup {b.id}
      \/ data'[p] = data[p] /\ found'[p] = found[p]
  BY DEF ReadObject, TypeOK, b
<1>4. Agrees(p, b)
  BY <1>1
<1> HIDE DEF b
<1>5. CASE data'[p] = data[p] /\ found'[p] = found[p]
  <2>1. Old(p)' = Old(p)
    BY <1>1, <1>5 DEF Old
  <2>2. OldInv(p)'
    BY <1>5, <2>1 DEF CountInv, OldInv
  <2>3. rdr'[p] = 0 => found'[p] = {data'[p][k].id : k \in Old(p)'}
    BY <1>1, <1>5, <2>1 DEF CountInv, ReadCount
  <2> QED
    BY <1>1, <1>2, <2>2, <2>3
    DEF CountInv, FreshInv, ReadCount, SerializeCount, WriteCount, Greater
<1>6. CASE /\ b.key \in tu[p] /\ data[p][b.key].id = 0
           /\ data'[p] = [data[p] EXCEPT ![b.key] = [id |-> b.id, src |-> SrcTag(p)]]
           /\ found'[p] = found[p] \cup {b.id}
  <2>1. /\ data'[p][b.key].id = b.id /\ data'[p][b.key].src = SrcTag(p) /\ b.id # 0
        /\ \A k \in Keys \ {b.key} : data'[p][k] = data[p][k]
    BY <1>2, <1>6 DEF TypeOK
  <2>2. tu[p] \subseteq Keys /\ b.key \notin Old(p)
    BY <1>2, <1>6 DEF TypeOK, CountInv, OldInv, Old
  <2>3. Old(p)' = IF rdr[p] = 0 THEN Old(p) \cup {b.key} ELSE Old(p)
    <3>1. \A k \in tu[p] \ {b.key} : data'[p][k] = data[p][k]
      BY <2>1, <2>2
    <3> QED
      BY <1>1, <1>6, <2>1, <2>2, <3>1 DEF Old, SrcTag
  <2>4. \A k \in Old(p) : data'[p][k] = data[p][k]
    BY <2>1, <2>2 DEF Old
  <2>5. \A k \in Keys : data'[p][k].id = 0 => data'[p][k].src = "NEW"
    BY <2>1 DEF CountInv, OldInv
  <2>6. b.id \notin found[p]
    BY <1>4, <1>6, <2>1 DEF Agrees
  <2>7. rdr[p] = 0 => found[p] = {data[p][k].id : k \in Old(p)}
    BY <1>1 DEF CountInv, ReadCount
  <2>8. \A k, l \in Old(p)' : data'[p][k].id = data'[p][l].id => k = l
    BY <2>1, <2>3, <2>4, <2>6, <2>7 DEF CountInv, OldInv
  <2>9. OldInv(p)'
    BY <2>5, <2>8 DEF OldInv
  <2>10. rdr'[p] = 0 => found'[p] = {data'[p][k].id : k \in Old(p)'}
    BY <1>1, <1>6, <2>1, <2>3, <2>4, <2>7
  <2> QED
    BY <1>1, <1>2, <2>9, <2>10
    DEF CountInv, FreshInv, ReadCount, SerializeCount, WriteCount, Greater
<1> QED
  BY <1>3, <1>5, <1>6

\* Either all messages have been found, or there are IDs for those to write.
LEMMA ReadEndCount ==
    ASSUME TypeOK, NEW p \in Procs, CountInv(p), ReadEnd(p)
    PROVE  CountInv(p)'
<1>1. /\ pc[p] = "read" /\ UNCHANGED <<tu, data, rdr, found, maxId, out>>
      /\ \/ AllFound(p) /\ pc'[p] = "unlock"
         \/ pc'[p] = "opensrc"
         \/ pc'[p] = "serialize" /\ todo'[p] = ToWrite(p)
  BY DEF ReadEnd, readVars, Goto, TypeOK
<1>2. Old(p)' = Old(p) /\ ToWrite(p)' = ToWrite(p)
  BY <1>1 DEF Old, ToWrite
<1>3. FreshInv(p)' /\ OldInv(p)' /\ ReadCount(p)'
  BY <1>1, <1>2 DEF CountInv, FreshInv, OldInv, ReadCount
<1>4. SerializeCount(p)'
  <2> SUFFICES ASSUME pc'[p] = "serialize" PROVE SerializeCount(p)'
    BY DEF SerializeCount
  <2>1. todo'[p] = ToWrite(p) /\ out[p] = << >> /\ maxId[p] <= IntMax /\ maxId[p] \in Nat
    BY <1>1 DEF CountInv, ReadCount, TypeOK, MsgId
  <2>2. ToWrite(p) \in SUBSET tu[p]
    BY DEF ToWrite
  <2>3. Cardinality(ToWrite(p)) \in Nat /\ Cardinality(ToWrite(p)) <= IntMax + 1
    BY <2>2, UnitFinite
  <2>4. \A k \in tu[p] \ ToWrite(p) : data[p][k].id # 0
    <3>1. tu[p] \subseteq Keys
      BY DEF TypeOK
    <3> QED
      BY <3>1 DEF CountInv, OldInv, ToWrite
  <2> QED
    BY <1>1, <1>2, <2>1, <2>3, <2>4, IntMaxAssumption DEF SerializeCount, MsgIdMax
<1>5. WriteCount(p)'
  <2> SUFFICES ASSUME AllFound(p), pc'[p] = "unlock"
               PROVE  \A k \in tu[p] : data[p][k].id # 0
    BY <1>1 DEF WriteCount
  <2>1. found[p] = {data[p][k].id : k \in Old(p)} /\ Cardinality(found[p]) = Cardinality(tu[p])
    BY <1>1 DEF CountInv, ReadCount, AllFound
  <2>2. Cardinality(Old(p)) = Cardinality(tu[p])
    BY <2>1, OldCount DEF CountInv
  <2>3. Old(p) \in SUBSET tu[p] /\ tu[p] \in SUBSET Keys
    BY DEF Old, TypeOK
  <2>4. Old(p) = tu[p]
    BY <2>2, <2>3, UnitFinite
  <2> QED
    BY <2>3, <2>4 DEF CountInv, OldInv, Old
<1> QED
  BY <1>3, <1>4, <1>5 DEF CountInv

\* The next file is no destination file: its messages do not count.
LEMMA OpenSrcCount ==
    ASSUME TypeOK, NEW p \in Procs, CountInv(p), OpenSrc(p)
    PROVE  CountInv(p)'
<1>1. /\ pc[p] = "opensrc" /\ pc'[p] = "read" /\ rdr'[p] = rdr[p] + 1
      /\ UNCHANGED <<tu, data, maxId, out>>
  BY DEF OpenSrc, Goto, TypeOK, writeVars
<1>2. rdr'[p] # 0
  BY <1>1 DEF TypeOK
<1> QED
  BY <1>1, <1>2 DEF CountInv, FreshInv, OldInv, Old, ReadCount, SerializeCount, WriteCount

\* One message more is serialized, and one less is to do.
LEMMA SerializeMsgCount ==
    ASSUME TypeOK, NEW p \in Procs, CountInv(p), SerializeMsg(p)
    PROVE  CountInv(p)'
<1>1. pc[p] = "serialize" /\ pc'[p] = "serialize" /\ UNCHANGED tu /\ SerializeCount(p)
  BY DEF SerializeMsg, CountInv
<1>2. PICK k \in todo[p] :
        LET isNew == data[p][k].id = INVALID_MSG_ID
            id == IF isNew THEN NextId(maxId[p]) ELSE data[p][k].id
        IN  /\ data' = [data EXCEPT ![p][k] = [id |-> id, src |-> @.src]]
            /\ maxId' = IF isNew THEN [maxId EXCEPT ![p] = id] ELSE maxId
            /\ out' = [out EXCEPT ![p] = Append(@, Msg(k, ToInt(id)))]
            /\ todo' = [todo EXCEPT ![p] = @ \ {k}]
  BY DEF SerializeMsg
<1> DEFINE isNew == data[p][k].id = 0
           id == IF isNew THEN NextId(maxId[p]) ELSE data[p][k].id
<1>3. /\ data'[p] = [data[p] EXCEPT ![k] = [id |-> id, src |-> data[p][k].src]]
      /\ maxId'[p] = IF isNew THEN id ELSE maxId[p]
      /\ out'[p] = Append(out[p], Msg(k, ToInt(id)))
      /\ todo'[p] = todo[p] \ {k}
  BY <1>2 DEF TypeOK
<1>4. /\ todo[p] \in SUBSET tu[p] /\ tu[p] \subseteq Keys
      /\ k \in tu[p] /\ k \in Keys /\ data[p][k].src \in {"NEW", "SRC"}
  BY <1>1 DEF SerializeCount, ToWrite, TypeOK
<1>5. /\ IsFiniteSet(todo[p]) /\ Cardinality(todo[p]) \in Nat
      /\ Cardinality(todo'[p]) = Cardinality(todo[p]) - 1 /\ Cardinality(todo'[p]) \in Nat
  <2>1. IsFiniteSet(todo[p]) /\ Cardinality(todo[p]) \in Nat
    BY <1>4, UnitFinite
  <2>2. IsFiniteSet(todo'[p]) /\ Cardinality(todo'[p]) = Cardinality(todo[p]) - 1
    BY SMTT(30), <1>3, <2>1, FS_RemoveElement
  <2>3. Cardinality(todo'[p]) \in Nat
    BY <2>2, FS_CardinalityType
  <2> QED
    BY <2>1, <2>2, <2>3
<1>6. /\ id # 0 /\ maxId'[p] + Cardinality(todo'[p]) <= MsgIdMax
  <2>1. maxId[p] \in Nat /\ maxId[p] + Cardinality(todo[p]) <= MsgIdMax /\ MsgIdMax \in Nat
    BY <1>1, IntMaxAssumption DEF TypeOK, MsgId, SerializeCount, MsgIdMax
  <2>2. maxId[p] + 1 <= MsgIdMax /\ NextId(maxId[p]) = maxId[p] + 1
    BY <1>5, <2>1 DEF NextId
  <2>3. id # 0
    BY <2>1, <2>2
  <2>4. maxId'[p] <= maxId[p] + 1 /\ maxId'[p] \in Nat
    BY <1>3, <2>1, <2>2
  <2> QED
    BY <1>5, <2>1, <2>3, <2>4
<1>7. Len(out'[p]) = Len(out[p]) + 1 /\ Len(out[p]) \in Nat
  <2>1. out[p] \in Seq(Block)
    BY DEF TypeOK
  <2> HIDE DEF id
  <2>2. Len(Append(out[p], Msg(k, ToInt(id)))) = Len(out[p]) + 1 /\ Len(out[p]) \in Nat
    BY <2>1
  <2> QED
    BY <1>3, <2>2
<1> HIDE DEF id, isNew
<1>8. /\ data'[p][k].id = id /\ data'[p][k].src = data[p][k].src
      /\ \A j \in Keys \ {k} : data'[p][j] = data[p][j]
  BY <1>3, <1>4 DEF TypeOK
<1>9. Old(p)' = Old(p) /\ ToWrite(p)' = ToWrite(p) /\ k \notin Old(p)
  <2>1. \A j \in tu[p] : data'[p][j].src = data[p][j].src
    BY <1>4, <1>8
  <2> QED
    BY <1>1, <1>4, <2>1 DEF Old, ToWrite
<1>10. OldInv(p)'
  <2>1. \A j \in Old(p) : data'[p][j] = data[p][j]
    BY <1>4, <1>8, <1>9 DEF Old
  <2>2. \A j \in Keys : data'[p][j].id = 0 => data'[p][j].src = "NEW"
    BY <1>6, <1>8 DEF CountInv, OldInv
  <2> QED
    BY <1>9, <2>1, <2>2 DEF CountInv, OldInv
<1>11. SerializeCount(p)'
  <2>1. todo'[p] \subseteq ToWrite(p)'
    BY <1>1, <1>3, <1>9 DEF SerializeCount
  <2>2. Len(out'[p]) + Cardinality(todo'[p]) = Cardinality(ToWrite(p)')
    BY <1>1, <1>5, <1>7, <1>9 DEF SerializeCount
  <2>3. \A j \in tu'[p] \ todo'[p] : data'[p][j].id # 0
    BY <1>1, <1>3, <1>4, <1>6, <1>8 DEF SerializeCount
  <2> QED
    BY <1>6, <2>1, <2>2, <2>3 DEF SerializeCount
<1> QED
  BY <1>1, <1>10, <1>11 DEF CountInv, FreshInv, ReadCount, WriteCount

\* The closing bracket is one block more.
LEMMA SerializeEndCount ==
    ASSUME TypeOK, NEW p \in Procs, CountInv(p), SerializeEnd(p)
    PROVE  CountInv(p)'
<1>1. /\ pc[p] = "serialize" /\ pc'[p] = "write" /\ todo[p] = {}
      /\ UNCHANGED <<tu, data, todo>> /\ out'[p] = Append(out[p], End)
  BY DEF SerializeEnd, Goto, TypeOK
<1>2. Len(out'[p]) = Len(out[p]) + 1 /\ Len(out[p]) \in Nat
  BY <1>1 DEF TypeOK
<1>3. Cardinality(todo[p]) = 0
  BY <1>1, FS_EmptySet
<1>4. ToWrite(p)' = ToWrite(p) /\ Old(p)' = Old(p)
  BY <1>1 DEF ToWrite, Old
<1>5. /\ Len(out[p]) + Cardinality(todo[p]) = Cardinality(ToWrite(p))
      /\ \A k \in tu[p] : data[p][k].id # 0
  BY <1>1 DEF CountInv, SerializeCount
<1>6. Len(out'[p]) = Cardinality(ToWrite(p)') + 1
  BY <1>2, <1>3, <1>4, <1>5
<1>7. WriteCount(p)'
  BY <1>1, <1>5, <1>6 DEF WriteCount
<1>8. OldInv(p)'
  BY <1>1, <1>4 DEF CountInv, OldInv
<1> QED
  BY <1>1, <1>7, <1>8 DEF CountInv, FreshInv, ReadCount, SerializeCount

-----------------------------------------------------------------------------
(* The asserts.                                                             *)

AllCount == \A p \in Procs : CountInv(p)

\* At first nobody has counted anything.
LEMMA CountInit == Init => AllCount
BY DEF Init, AllCount, CountInv, FreshInv, OldInv, Old, ReadCount, SerializeCount, WriteCount, NewData

\* A step keeps the counts of the process that takes it, and of the others.
LEMMA CountStep == TypeInv /\ AllCount /\ [Next]_vars => AllCount'
<1> SUFFICES ASSUME TypeOK, AllCount, [Next]_vars, NEW q \in Procs PROVE CountInv(q)'
  BY DEF TypeInv, AllCount
<1>1. CountInv(q)
  BY DEF AllCount
<1>2. ASSUME Kept(q) PROVE CountInv(q)'
  BY <1>1, <1>2 DEF Kept, CountInv, FreshInv, OldInv, Old, ReadCount, SerializeCount, WriteCount, ToWrite
<1>3. CASE ProcStep(q)
  <2>1. CASE ReadObject(q)
    BY <1>1, <2>1, ReadObjectCount
  <2>2. CASE ReadEnd(q)
    BY <1>1, <2>2, ReadEndCount
  <2>3. CASE OpenSrc(q)
    BY <1>1, <2>3, OpenSrcCount
  <2>4. CASE SerializeMsg(q)
    BY <1>1, <2>4, SerializeMsgCount
  <2>5. CASE SerializeEnd(q)
    BY <1>1, <2>5, SerializeEndCount
  <2>6. CASE Emit(q) \/ CloseUnwound(q) \/ Crash(q)
    BY <2>6, ForgetCount DEF Emit, CloseUnwound, Crash
  <2> QED
    BY <1>1, <1>3, <2>1, <2>2, <2>3, <2>4, <2>5, <2>6, OtherCount DEF ProcStep, Step
<1>4. ASSUME NEW p \in Procs, p # q, ProcStep(p) PROVE CountInv(q)'
  BY <1>2, <1>4, StepKeeps
<1>5. ASSUME NEW i \in DOMAIN srcs, NEW k \in Keys, Publish(i, k) PROVE CountInv(q)'
  BY <1>2, <1>5 DEF Publish, Kept, localVars, readVars, writeVars
<1>6. CASE UNCHANGED vars
  BY <1>2, <1>6 DEF vars, Kept, localVars, readVars, writeVars
<1> QED
  BY <1>3, <1>4, <1>5, <1>6 DEF Next, ProcStep, BuildDone

\* The asserts of process() and of the writer never fire: what has no ID is
\* new, found and written messages add up to the unit, and every message of the
\* unit has an ID in the end; also where the lock does not exclude, whatever is
\* in the files and whichever faults occur.
THEOREM Asserts == Spec => []AssertsHold
<1>1. TypeInv /\ AllCount => AssertsHold
  <2> SUFFICES ASSUME TypeOK, AllCount, NEW p \in Procs
      PROVE  /\ \A k \in tu[p] : data[p][k].id = 0 => data[p][k].src = "NEW"
             /\ pc[p] = "write" => LET old == {k \in tu[p] : data[p][k].src = "DEST"}
                                   IN  Len(out[p]) - 1 + Cardinality({data[p][k].id : k \in old})
                                           = Cardinality(tu[p])
             /\ pc[p] = "emit" => \A k \in tu[p] : data[p][k].id # 0
    BY DEF AssertsHold, TypeInv
  <2>1. CountInv(p) /\ tu[p] \subseteq Keys
    BY DEF AllCount, TypeOK
  <2>2. \A k \in tu[p] : data[p][k].id = 0 => data[p][k].src = "NEW"
    BY <2>1 DEF CountInv, OldInv
  <2>3. ASSUME pc[p] = "write"
        PROVE  Len(out[p]) - 1 + Cardinality({data[p][k].id : k \in Old(p)}) = Cardinality(tu[p])
    <3>1. Cardinality({data[p][k].id : k \in Old(p)}) = Cardinality(Old(p))
      BY <2>1, OldCount DEF CountInv
    <3>2. Len(out[p]) = Cardinality(ToWrite(p)) + 1
      BY <2>1, <2>3 DEF CountInv, WriteCount
    <3>3. Old(p) \in SUBSET tu[p] /\ ToWrite(p) \in SUBSET tu[p]
      BY DEF Old, ToWrite
    <3>4. Cardinality(Old(p)) \in Nat /\ Cardinality(ToWrite(p)) \in Nat
      BY <3>3, UnitFinite
    <3> QED
      BY <3>1, <3>2, <3>4, OldOrWritten
  <2>4. pc[p] = "emit" => \A k \in tu[p] : data[p][k].id # 0
    BY <2>1 DEF CountInv, WriteCount
  <2> QED
    BY <2>2, <2>3, <2>4 DEF Old
<1>2. Spec => [](TypeInv /\ AllCount)
  <2>1. Init => TypeInv /\ AllCount
    BY TypeInit, CountInit
  <2>2. TypeInv /\ AllCount /\ [Next]_vars => (TypeInv /\ AllCount)'
    BY TypeStep, CountStep
  <2> QED
    BY <2>1, <2>2, PTL DEF Spec
<1> QED
  BY <1>1, <1>2, PTL

-----------------------------------------------------------------------------
(* Files.                                                                   *)

\* The messages at the head of f are at the head of g, where they were.
Keeps(f, g) == \A i \in Lead(f) : i \in Lead(g) /\ g[i] = f[i]

\* The messages of a partial write are the first ones of the whole.
LEMMA PartialLead ==
    ASSUME NEW bs \in Seq(Block), NEW w \in Partial(bs), NEW i \in Lead(w)
    PROVE  i \in Lead(bs) /\ w[i] = bs[i]
<1>1. /\ w \in Seq(Block) /\ Len(w) <= Len(bs) /\ Len(w) \in Nat /\ Len(bs) \in Nat
      /\ \A j \in 1..Len(w) : w[j] = bs[j] \/ w[j] = Torn
  BY PartialType, LenProperties
<1>2. i \in 1..Len(w) /\ \A j \in 1..i : w[j].kind = "msg"
  BY DEF Lead
<1>3. \A j \in 1..i : w[j] = bs[j]
  BY <1>1, <1>2 DEF Torn
<1> QED
  BY <1>1, <1>2, <1>3 DEF Lead

\* What is written after the messages of a file stays after them.
LEMMA OverlayLead ==
    ASSUME NEW f \in Seq(Block), NEW n \in 0..Len(f), Lead(f) = 1..n,
           \A i \in (n + 1)..Len(f) : f[i].kind # "msg",
           NEW w \in Seq(Block)
    PROVE  LET g == Overlay(f, n, w)
           IN  /\ Keeps(f, g)
               /\ \A i \in Lead(g) : i \in Lead(f) \/ (i - n \in Lead(w) /\ g[i] = w[i - n])
<1> DEFINE g == Overlay(f, n, w)
<1>1. Len(f) \in Nat /\ Len(w) \in Nat /\ n \in Nat
  BY LenProperties
<1>2. /\ Len(g) = IF n + Len(w) > Len(f) THEN n + Len(w) ELSE Len(f)
      /\ \A i \in 1..Len(g) : g[i] = IF i \in (n + 1)..(n + Len(w)) THEN w[i - n]
                                     ELSE IF i <= Len(f) THEN f[i] ELSE Torn
  BY OverlayType
<1>3. Lead(g) \subseteq 1..(n + Len(w))
  BY OverlayRegistered
<1> HIDE DEF g
<1>4. \A i \in 1..n : i \in 1..Len(g) /\ g[i] = f[i] /\ f[i].kind = "msg"
  BY <1>1, <1>2 DEF Lead
<1>5. Keeps(f, g)
  BY <1>1, <1>4 DEF Keeps, Lead
<1>6. ASSUME NEW i \in Lead(g), i \notin Lead(f) PROVE i - n \in Lead(w) /\ g[i] = w[i - n]
  <2>1. i \in (n + 1)..(n + Len(w)) /\ \A j \in 1..i : g[j].kind = "msg"
    BY <1>1, <1>3, <1>6 DEF Lead
  <2>2. \A j \in (n + 1)..i : j \in 1..Len(g) /\ g[j] = w[j - n]
    BY <1>1, <1>2, <2>1
  <2>3. ASSUME NEW j \in 1..(i - n) PROVE w[j].kind = "msg"
    <3>1. j + n \in (n + 1)..i /\ j + n \in 1..i /\ (j + n) - n = j
      BY <1>1, <2>1
    <3>2. g[j + n] = w[j + n - n]
      BY <2>2, <3>1
    <3> QED
      BY <2>1, <3>1, <3>2
  <2> QED
    BY <1>1, <2>1, <2>2, <2>3 DEF Lead
<1> QED
  BY <1>5, <1>6 DEF g

\* Cutting a file behind its messages leaves them where they are.
LEMMA TruncatedKeeps ==
    ASSUME NEW f \in Seq(Block), NEW n \in Nat, Lead(f) \subseteq 1..n
    PROVE  Keeps(f, Truncated(f, n)) /\ Lead(Truncated(f, n)) = Lead(f)
<1>1. Lead(Truncated(f, n)) = Lead(f)
  BY TruncatedRegistered
<1>2. \A i \in 1..Len(Truncated(f, n)) : Truncated(f, n)[i] = f[i]
  BY TruncatedType
<1>3. \A i \in Lead(f) : i \in 1..Len(Truncated(f, n))
  BY <1>1 DEF Lead
<1> QED
  BY <1>1, <1>2, <1>3 DEF Keeps

\* A file whose messages all stay, and to which none are added, stays distinct.
LEMMA KeepsDistinct ==
    ASSUME NEW f, NEW g, Distinct(f), Keeps(f, g), Lead(g) = Lead(f)
    PROVE  Distinct(g)
BY DEF Distinct, Keeps

-----------------------------------------------------------------------------
(* The steps of one process, under any faults.                              *)

\* What a step of p does to the destination file.
FileStep(p) ==
    /\ Keeps(file, file') /\ Distinct(file')
    /\ file' # file => \/ pc[p] \in Critical
                       \/ pc[p] = "dtor" /\ "resize" \in Faults

\* A step that leaves the file alone does it no harm.
LEMMA NoFileStep ==
    ASSUME NEW p \in Procs, Distinct(file), UNCHANGED file
    PROVE  FileStep(p)
BY DEF FileStep, Keeps

\* p writes behind the file's messages, and no message that the file has.
Writable(p) ==
    /\ Appendable(p) /\ Distinct(out[p])
    /\ \A i \in Lead(file), j \in Lead(out[p]) : file[i].key # out[p][j].key

\* Such a write, complete or cut short, keeps the messages and adds no duplicate.
LEMMA WriteKeeps ==
    ASSUME TypeOK, NEW p \in Procs, Distinct(file), Writable(p), NEW w \in Seq(Block),
           \A i \in Lead(w) : i \in Lead(out[p]) /\ w[i] = out[p][i]
    PROVE  LET g == Overlay(file, WritePos(p), w)
           IN  Keeps(file, g) /\ Distinct(g) /\ Lead(g) \subseteq 1..(WritePos(p) + Len(w))
<1> DEFINE n == WritePos(p)
           g == Overlay(file, n, w)
<1>1. /\ file \in Seq(Block) /\ n \in 0..Len(file) /\ Lead(file) = 1..n
      /\ \A i \in (n + 1)..Len(file) : file[i].kind # "msg"
  BY SMTT(30), WriteType, LenProperties DEF Writable, Appendable, TypeOK
<1> HIDE DEF n
<1>2. /\ Keeps(file, g)
      /\ \A i \in Lead(g) : i \in Lead(file) \/ (i - n \in Lead(w) /\ g[i] = w[i - n])
  BY <1>1, OverlayLead
<1>3. Lead(g) \subseteq 1..(n + Len(w))
  BY <1>1, OverlayRegistered
<1>4. \A i \in Lead(g) : i \in Int /\ n \in Int
  BY <1>1, <1>3
<1> HIDE DEF g
<1>5. Distinct(g)
  <2> SUFFICES ASSUME NEW i \in Lead(g), NEW j \in Lead(g), g[i].key = g[j].key PROVE i = j
    BY DEF Distinct
  <2>1. CASE i \in Lead(file) /\ j \in Lead(file)
    BY <1>2, <2>1 DEF Keeps, Distinct
  <2>2. CASE i \in Lead(file) /\ j \notin Lead(file)
    BY <1>2, <2>2 DEF Keeps, Writable
  <2>3. CASE i \notin Lead(file) /\ j \in Lead(file)
    BY <1>2, <2>3 DEF Keeps, Writable
  <2>4. CASE i \notin Lead(file) /\ j \notin Lead(file)
    <3>1. /\ i - n \in Lead(out[p]) /\ g[i] = out[p][i - n]
          /\ j - n \in Lead(out[p]) /\ g[j] = out[p][j - n]
      BY <1>2, <2>4
    <3>2. i - n = j - n
      BY <3>1 DEF Writable, Distinct
    <3> QED
      BY <1>4, <3>2
  <2> QED
    BY <2>1, <2>2, <2>3, <2>4
<1> QED
  BY <1>2, <1>3, <1>5 DEF g, n

\* The same for the whole output, the flush of the buffer, and part of either.
LEMMA OutputKeeps ==
    ASSUME TypeOK, NEW p \in Procs, Distinct(file), Writable(p)
    PROVE  /\ Keeps(file, Overlay(file, WritePos(p), out[p]))
           /\ Distinct(Overlay(file, WritePos(p), out[p]))
           /\ Lead(Overlay(file, WritePos(p), out[p])) \subseteq 1..TellP(p)
           /\ \A w \in Partial(out[p]) : /\ Keeps(file, Overlay(file, WritePos(p), w))
                                         /\ Distinct(Overlay(file, WritePos(p), w))
<1>1. out[p] \in Seq(Block)
  BY DEF TypeOK
<1>2. ASSUME NEW w \in Partial(out[p])
      PROVE  /\ Keeps(file, Overlay(file, WritePos(p), w))
             /\ Distinct(Overlay(file, WritePos(p), w))
  <2>1. w \in Seq(Block) /\ \A i \in Lead(w) : i \in Lead(out[p]) /\ w[i] = out[p][i]
    BY <1>1, PartialType, PartialLead
  <2> QED
    BY <2>1, WriteKeeps
<1> QED
  BY <1>1, <1>2, WriteKeeps DEF TellP

\* A process that has ended knows nothing and owes nothing.
LEMMA ForgetStable ==
    ASSUME TypeOK, NEW p \in Procs, Forget(p), Goto(p, "idle")
    PROVE  StableInv(p)'
<1>1. pc'[p] = "idle" /\ ~dirty'[p]
  BY DEF Goto, Forget, TypeOK
<1>2. FreshInv(p)'
  BY DEF FreshInv, Forget, TypeOK
<1> QED
  BY <1>1, <1>2 DEF StableInv, LockInv, BufferInv, ReadStable, SerializeStable, WriteStable, Critical

\* Up to the second opening of the file the process knows nothing of it.
LEMMA OpenStable ==
    ASSUME TypeOK, NEW p \in Procs, StableInv(p),
           StartCompile(p) \/ OpenDest(p) \/ LockDest(p)
    PROVE  StableInv(p)'
<1> USE DEF Goto, TypeOK, readVars, writeVars, localVars
<1>1. /\ UNCHANGED <<data, rdr, pos, found, endPos, maxId, out, dirty>>
      /\ \/ pc[p] = "idle" /\ pc'[p] = "open"
         \/ pc[p] = "open" /\ pc'[p] = "lock"
         \/ pc[p] = "lock" /\ pc'[p] = "reopen" /\ lock' = p
  BY DEF StartCompile, OpenDest, LockDest
<1>2. FreshInv(p)'
  BY <1>1 DEF StableInv, FreshInv
<1>3. ~dirty'[p]
  BY <1>1 DEF StableInv, BufferInv
<1> QED
  BY <1>1, <1>2, <1>3
  DEF StableInv, LockInv, BufferInv, ReadStable, SerializeStable, WriteStable, Critical

\* The reader of the destination file starts at its head.
LEMMA ReopenStable ==
    ASSUME TypeOK, NEW p \in Procs, StableInv(p), ReopenDest(p)
    PROVE  StableInv(p)'
<1> USE DEF Goto, TypeOK, readVars, writeVars, localVars
<1>1. /\ UNCHANGED <<file, tu, data, rdr, pos, endPos, out, dirty>>
      /\ pc[p] = "reopen" /\ pc'[p] = "read" /\ lock' = LockAfterClose(p)
  BY DEF ReopenDest
<1>2. LockInv(p)'
  BY <1>1 DEF StableInv, LockInv, LockAfterClose
<1>3. ~dirty'[p]
  BY <1>1 DEF StableInv, BufferInv
<1>4. ReadStable(p)'
  <2>1. /\ rdr'[p] = 0 /\ pos'[p] = 0 /\ endPos'[p] = -1 /\ out'[p] = << >>
        /\ \A k \in Keys : data'[p][k] = NewData
    BY <1>1 DEF StableInv, FreshInv
  <2>2. tu'[p] \subseteq Keys /\ Len(file') \in Nat /\ 1..0 = {}
    BY <1>1, LenProperties
  <2>3. \A k \in tu'[p] : data'[p][k].id = 0
    BY <2>1, <2>2 DEF NewData
  <2> QED
    BY <1>1, <2>1, <2>2, <2>3 DEF ReadStable, Covered
<1> QED
  BY <1>1, <1>2, <1>3, <1>4
  DEF StableInv, FreshInv, BufferInv, SerializeStable, WriteStable, Critical

\* An exception leaves at most the buffer, and the process unlocks and is done.
LEMMA ThrowStable ==
    ASSUME TypeOK, NEW p \in Procs, StableInv(p),
           OpenFails(p) \/ ReadThrows(p) \/ ResizeThrows(p) \/ Unwind(p) \/ Unlock(p)
    PROVE  StableInv(p)' /\ UNCHANGED file
<1> USE DEF Goto, TypeOK, readVars, writeVars, localVars
<1>1. /\ UNCHANGED <<file, tu, data, endPos, out, dirty>>
      /\ pc'[p] \in {"fail", "dtor", "emit"}
      /\ dirty[p] => pc[p] \in {"resize", "close", "fail", "dtor"}
      /\ pc[p] = "resize" => "resize" \in Faults
      /\ pc[p] # "close" /\ pc[p] # "dtor"
  BY DEF OpenFails, ReadThrows, ResizeThrows, Unwind, Unlock, StableInv, BufferInv
<1>2. dirty[p] => pc[p] \in {"resize", "fail"} /\ "resize" \in Faults /\ pc'[p] # "emit"
  BY <1>1 DEF OpenFails, ReadThrows, ResizeThrows, Unwind, Unlock, StableInv, BufferInv
<1>3. WriteStable(p)'
  <2>1. ASSUME dirty[p]
        PROVE  /\ Appendable(p)' /\ Distinct(out'[p])
               /\ \A i \in Lead(file'), j \in Lead(out'[p]) : file'[i].key # out'[p][j].key
    BY <1>1, <2>1 DEF StableInv, WriteStable, Appendable, WritePos
  <2> QED
    BY <1>1, <2>1 DEF WriteStable
<1> QED
  BY <1>1, <1>2, <1>3
  DEF StableInv, LockInv, BufferInv, FreshInv, ReadStable, SerializeStable, Critical

\* Reading the destination file, a message of the unit becomes known as one
\* that the file has; reading another file does not change that.
LEMMA ReadObjectStable ==
    ASSUME TypeOK, NEW p \in Procs, Distinct(file), StableInv(p), ReadObject(p)
    PROVE  StableInv(p)'
<1> DEFINE b == Stream(p)[pos[p] + 1]
<1>1. /\ pc[p] = "read" /\ pc'[p] = "read" /\ UNCHANGED <<file, lock, tu, rdr, out, dirty>>
      /\ AtMsg(p) /\ GoodId(b) /\ Agrees(p, b)
      /\ pos'[p] = pos[p] + 1
      /\ endPos'[p] = IF rdr[p] = 0 THEN pos[p] + 1 ELSE endPos[p]
  BY DEF ReadObject, writeVars, TypeOK
<1>2. b.key \in Keys /\ b.id # 0 /\ tu[p] \subseteq Keys
  BY SMTT(30), <1>1, BlockAtType, GoodIdType DEF TypeOK
<1>3. \/ /\ b.key \in tu[p] /\ data[p][b.key].id = 0
         /\ data'[p] = [data[p] EXCEPT ![b.key] = [id |-> b.id, src |-> SrcTag(p)]]
      \/ data'[p] = data[p] /\ (b.key \in tu[p] => data[p][b.key].id # 0)
  BY DEF ReadObject, TypeOK, b
<1>4. ASSUME NEW k \in tu[p]
      PROVE  /\ data[p][k].id # 0 => data'[p][k] = data[p][k]
             /\ k = b.key => data'[p][k].id # 0
             /\ k # b.key => data'[p][k] = data[p][k]
             /\ data[p][k].id = 0 /\ k = b.key => data'[p][k].src = SrcTag(p)
  BY <1>2, <1>3 DEF TypeOK
<1>5. ReadStable(p)
  BY <1>1 DEF StableInv
<1>6. CASE rdr[p] = 0
  <2>1. /\ out[p] = << >> /\ pos[p] \in Nat /\ 1..pos[p] \subseteq Lead(file)
        /\ Covered(p, 1..pos[p])
        /\ \A k \in tu[p] : data[p][k].id # 0 => data[p][k].src = "DEST"
    BY <1>1, <1>5, <1>6 DEF ReadStable, TypeOK
  <2>2. Len(file) \in Nat /\ pos[p] < Len(file) /\ b = file[pos[p] + 1] /\ b.kind = "msg"
    BY <1>1, <1>6, LenProperties DEF AtMsg, Stream, TypeOK
  <2>3. \A j \in 1..(pos[p] + 1) : file[j].kind = "msg"
    BY <2>1, <2>2 DEF Lead
  <2>4. 1..(pos[p] + 1) \subseteq Lead(file)
    BY <2>1, <2>2, <2>3 DEF Lead
  <2>5. SrcTag(p) = "DEST"
    BY <1>6 DEF SrcTag
  <2>6. ASSUME NEW i \in 1..(pos[p] + 1), file[i].key \in tu[p]
        PROVE  data'[p][file[i].key].src = "DEST" /\ data'[p][file[i].key].id # 0
    <3>1. CASE i = pos[p] + 1
      <4>1. file[i].key = b.key
        BY <2>2, <3>1
      <4> HIDE DEF b
      <4> QED
        BY <1>4, <2>1, <2>5, <2>6, <4>1
    <3>2. CASE i \in 1..pos[p]
      <4>1. data[p][file[i].key].src = "DEST" /\ data[p][file[i].key].id # 0
        BY <2>1, <2>6, <3>2 DEF Covered
      <4> QED
        BY <1>4, <2>6, <4>1
    <3> QED
      BY <2>1, <3>1, <3>2
  <2>7. Covered(p, 1..pos[p])'
    BY <1>1, <2>6 DEF Covered
  <2>8. \A k \in tu[p] : data'[p][k].id # 0 => data'[p][k].src = "DEST"
    <3> HIDE DEF b
    <3> QED
      BY <1>4, <2>1, <2>5
  <2>9. pos'[p] # 0 /\ pos'[p] <= Len(file)
    BY <1>1, <2>1, <2>2
  <2>10. ReadStable(p)'
    BY <1>1, <1>6, <2>1, <2>4, <2>7, <2>8, <2>9 DEF ReadStable, Covered
  <2> QED
    BY <1>1, <2>10
    DEF StableInv, LockInv, FreshInv, BufferInv, SerializeStable, WriteStable, Critical
<1>7. CASE rdr[p] # 0
  <2>1. out[p] = << >> /\ Appendable(p) /\ Covered(p, Lead(file))
    BY <1>1, <1>5, <1>7 DEF ReadStable
  <2>2. Appendable(p)'
    BY <1>1, <1>7, <2>1 DEF Appendable, WritePos
  <2>3. Covered(p, Lead(file))'
    BY <1>1, <1>4, <2>1 DEF Covered
  <2>4. ReadStable(p)'
    BY <1>1, <1>7, <2>1, <2>2, <2>3 DEF ReadStable
  <2> QED
    BY <1>1, <2>4
    DEF StableInv, LockInv, FreshInv, BufferInv, SerializeStable, WriteStable, Critical
<1> QED
  BY <1>6, <1>7

\* At the end of the destination file the process knows where its messages end
\* and will write none of them.
LEMMA ReadEndStable ==
    ASSUME TypeOK, NEW p \in Procs, StableInv(p), ReadEnd(p)
    PROVE  StableInv(p)'
<1>1. /\ pc[p] = "read" /\ UNCHANGED <<file, lock, tu, data, rdr, pos, endPos, out, dirty>>
      /\ AtEnd(p)
      /\ \/ pc'[p] = "unlock"
         \/ pc'[p] = "opensrc"
         \/ pc'[p] = "serialize" /\ todo'[p] = ToWrite(p)
  BY DEF ReadEnd, readVars, Goto, TypeOK
<1>2. ReadStable(p) /\ ~dirty[p]
  BY <1>1 DEF StableInv, BufferInv
<1>3. Appendable(p) /\ Covered(p, Lead(file)) /\ out[p] = << >>
  <2>1. CASE rdr[p] = 0
    <3>1. /\ pos[p] \in 0..Len(file) /\ 1..pos[p] \subseteq Lead(file) /\ file \in Seq(Block)
          /\ endPos[p] = (IF pos[p] = 0 THEN -1 ELSE pos[p])
          /\ Covered(p, 1..pos[p]) /\ out[p] = << >>
      BY <1>1, <1>2, <2>1, LenProperties DEF ReadStable, TypeOK
    <3>2. \/ file = << >>
          \/ /\ pos[p] < Len(file) /\ file[pos[p] + 1] = End
             /\ TailOK(file, pos[p] + 1)
      BY <1>1, <2>1 DEF AtEnd, Stream
    <3>3. Lead(file) = 1..pos[p] /\ \A i \in (pos[p] + 1)..Len(file) : file[i].kind # "msg"
      BY <3>1, <3>2, EndOfMessages
    <3>4. WritePos(p) = pos[p]
      BY <3>1 DEF WritePos
    <3> QED
      BY <3>1, <3>3, <3>4 DEF Appendable
  <2>2. CASE rdr[p] # 0
    BY <1>1, <1>2, <2>2 DEF ReadStable
  <2> QED
    BY <2>1, <2>2
<1>4. Appendable(p)' /\ Covered(p, Lead(file))' /\ ToWrite(p)' = ToWrite(p)
  BY <1>1, <1>3 DEF Appendable, WritePos, Covered, ToWrite
<1>5. ReadStable(p)'
  BY <1>1, <1>3, <1>4 DEF ReadStable
<1>6. SerializeStable(p)'
  <2> SUFFICES ASSUME pc'[p] = "serialize" PROVE SerializeStable(p)'
    BY DEF SerializeStable
  <2>1. Lead(out'[p]) = {} /\ 1..Len(out'[p]) = {}
    BY <1>1, <1>3 DEF Lead
  <2>2. todo'[p] = ToWrite(p)'
    BY <1>1, <1>4
  <2> QED
    BY <1>4, <2>1, <2>2 DEF SerializeStable, Distinct
<1> QED
  BY <1>1, <1>2, <1>5, <1>6
  DEF StableInv, LockInv, FreshInv, BufferInv, WriteStable, Critical

\* Another file to read changes nothing of that.
LEMMA OpenSrcStable ==
    ASSUME TypeOK, NEW p \in Procs, StableInv(p), OpenSrc(p)
    PROVE  StableInv(p)'
<1>1. /\ pc[p] = "opensrc" /\ pc'[p] = "read" /\ rdr'[p] = rdr[p] + 1 /\ rdr[p] \in Nat
      /\ UNCHANGED <<file, lock, tu, data, endPos, out, dirty>>
  BY DEF OpenSrc, Goto, TypeOK, writeVars
<1>2. ReadStable(p) /\ ~dirty[p]
  BY <1>1 DEF StableInv, BufferInv
<1>3. out[p] = << >> /\ Appendable(p) /\ Covered(p, Lead(file))
  BY <1>1, <1>2 DEF ReadStable
<1>4. Appendable(p)' /\ Covered(p, Lead(file))'
  BY <1>1, <1>3 DEF Appendable, WritePos, Covered
<1>5. ReadStable(p)'
  BY <1>1, <1>3, <1>4 DEF ReadStable
<1> QED
  BY <1>1, <1>2, <1>5
  DEF StableInv, LockInv, FreshInv, BufferInv, SerializeStable, WriteStable, Critical

\* The writer only writes messages that the file does not have, each once.
LEMMA SerializeMsgStable ==
    ASSUME TypeOK, NEW p \in Procs, StableInv(p), SerializeMsg(p)
    PROVE  StableInv(p)'
<1>1. /\ pc[p] = "serialize" /\ pc'[p] = "serialize"
      /\ UNCHANGED <<file, lock, tu, endPos, dirty>>
      /\ SerializeStable(p)
  BY DEF SerializeMsg, StableInv
<1>2. PICK k \in todo[p] :
        LET isNew == data[p][k].id = INVALID_MSG_ID
            id == IF isNew THEN NextId(maxId[p]) ELSE data[p][k].id
        IN  /\ data' = [data EXCEPT ![p][k] = [id |-> id, src |-> @.src]]
            /\ out' = [out EXCEPT ![p] = Append(@, Msg(k, ToInt(id)))]
            /\ todo' = [todo EXCEPT ![p] = @ \ {k}]
  BY DEF SerializeMsg
<1> DEFINE id == IF data[p][k].id = 0 THEN NextId(maxId[p]) ELSE data[p][k].id
           b == Msg(k, ToInt(id))
<1>3. /\ data'[p] = [data[p] EXCEPT ![k] = [id |-> id, src |-> data[p][k].src]]
      /\ out'[p] = Append(out[p], b)
      /\ todo'[p] = todo[p] \ {k}
  BY <1>2 DEF TypeOK
<1>4. /\ todo[p] \subseteq ToWrite(p) /\ ToWrite(p) \subseteq tu[p] /\ tu[p] \subseteq Keys
      /\ k \in ToWrite(p) /\ k \in Keys /\ data[p][k].src # "DEST"
  BY <1>1 DEF SerializeStable, ToWrite, TypeOK
<1>5. id \in MsgId
  BY <1>4, NextIdType DEF TypeOK
<1>6. b \in Block /\ b.kind = "msg" /\ b.key = k
  BY <1>4, <1>5, IntCasts, BlockTypes DEF Msg
<1> HIDE DEF id, b
<1>7. /\ data'[p][k].src = data[p][k].src
      /\ \A j \in Keys \ {k} : data'[p][j] = data[p][j]
  BY <1>3, <1>4 DEF TypeOK
<1>8. ToWrite(p)' = ToWrite(p)
  <2>1. \A j \in tu[p] : data'[p][j].src = data[p][j].src
    BY <1>4, <1>7
  <2> QED
    BY <1>1, <2>1 DEF ToWrite
<1>9. Appendable(p)'
  BY <1>1 DEF SerializeStable, Appendable, WritePos
<1>10. Covered(p, Lead(file))'
  <2> SUFFICES ASSUME NEW i \in Lead(file), file[i].key \in tu[p]
               PROVE  data'[p][file[i].key].src = "DEST" /\ data'[p][file[i].key].id # 0
    BY <1>1 DEF Covered
  <2>1. data[p][file[i].key].src = "DEST" /\ data[p][file[i].key].id # 0
    BY <1>1 DEF SerializeStable, Covered
  <2>2. file[i].key \in Keys \ {k}
    BY <1>4, <2>1
  <2> QED
    BY <1>7, <2>1, <2>2
<1>11. /\ out[p] \in Seq(Block) /\ Lead(out[p]) = 1..Len(out[p]) /\ Distinct(out[p])
       /\ \A i \in Lead(out[p]) : out[p][i].key \in ToWrite(p) \ todo[p]
  BY <1>1 DEF SerializeStable, TypeOK
<1>12. /\ Len(out'[p]) = Len(out[p]) + 1 /\ Len(out[p]) \in Nat
       /\ \A i \in 1..Len(out[p]) : out'[p][i] = out[p][i]
       /\ out'[p][Len(out[p]) + 1] = b
  BY <1>3, <1>6, <1>11, AppendProperties, LenProperties
<1>13. Lead(out'[p]) = 1..Len(out'[p])
  BY <1>3, <1>6, <1>11, AppendMsg
<1>14. \A i \in Lead(out'[p]) : \/ i \in Lead(out[p]) /\ out'[p][i] = out[p][i]
                                \/ i = Len(out[p]) + 1 /\ out'[p][i] = b
  BY <1>11, <1>12, <1>13
<1>15. Distinct(out'[p])
  <2> SUFFICES ASSUME NEW i \in Lead(out'[p]), NEW j \in Lead(out'[p]),
                      out'[p][i].key = out'[p][j].key
               PROVE  i = j
    BY DEF Distinct
  <2> QED
    BY <1>6, <1>11, <1>14 DEF Distinct
<1>16. \A i \in Lead(out'[p]) : out'[p][i].key \in ToWrite(p) \ todo'[p]
  BY <1>3, <1>4, <1>6, <1>11, <1>14
<1>17. SerializeStable(p)'
  <2>1. todo'[p] \subseteq ToWrite(p)
    BY <1>3, <1>4
  <2> QED
    BY <1>8, <1>9, <1>10, <1>13, <1>15, <1>16, <2>1 DEF SerializeStable
<1> QED
  BY <1>1, <1>17
  DEF StableInv, LockInv, FreshInv, BufferInv, ReadStable, WriteStable, Critical

\* The closing bracket is no message.
LEMMA SerializeEndStable ==
    ASSUME TypeOK, NEW p \in Procs, StableInv(p), SerializeEnd(p)
    PROVE  StableInv(p)'
<1>1. /\ pc[p] = "serialize" /\ pc'[p] = "write"
      /\ UNCHANGED <<file, lock, tu, data, endPos, dirty>>
      /\ out'[p] = Append(out[p], End)
      /\ SerializeStable(p)
  BY DEF SerializeEnd, Goto, TypeOK, readVars, StableInv
<1>2. out[p] \in Seq(Block) /\ Lead(out[p]) = 1..Len(out[p])
  BY <1>1 DEF SerializeStable, TypeOK
<1>3. /\ out'[p] \in Seq(Block) /\ Len(out'[p]) = Len(out[p]) + 1 /\ Len(out[p]) \in Nat
      /\ \A i \in 1..Len(out[p]) : out'[p][i] = out[p][i]
      /\ out'[p][Len(out[p]) + 1] = End
  BY <1>1, <1>2, AppendProperties, LenProperties, BlockTypes
<1>4. Lead(out'[p]) = Lead(out[p])
  <2>1. \A i \in 1..Len(out[p]) : out'[p][i].kind = "msg"
    BY <1>2, <1>3 DEF Lead
  <2>2. out'[p][Len(out[p]) + 1].kind # "msg" /\ Len(out[p]) \in 0..Len(out'[p])
    BY <1>3 DEF End
  <2> QED
    BY <1>2, <1>3, <2>1, <2>2, LeadIs
<1>5. Distinct(out'[p])
  BY <1>1, <1>2, <1>3, <1>4 DEF SerializeStable, Distinct
<1>6. ASSUME NEW i \in Lead(file), NEW j \in Lead(out[p])
      PROVE  file[i].key # out[p][j].key
  <2>1. out[p][j].key \in tu[p] /\ data[p][out[p][j].key].src # "DEST"
    BY <1>1 DEF SerializeStable, ToWrite
  <2> QED
    BY <1>1, <2>1 DEF SerializeStable, Covered
<1>7. \A i \in Lead(file'), j \in Lead(out'[p]) : file'[i].key # out'[p][j].key
  BY <1>1, <1>2, <1>3, <1>4, <1>6
<1>8. Appendable(p)'
  BY <1>1 DEF SerializeStable, Appendable, WritePos
<1>9. ~dirty'[p]
  BY <1>1 DEF StableInv, BufferInv
<1> QED
  BY <1>1, <1>5, <1>7, <1>8, <1>9
  DEF StableInv, LockInv, FreshInv, BufferInv, ReadStable, SerializeStable, WriteStable, Critical

\* Writing, to the buffer or to the file.
LEMMA WriteStep ==
    ASSUME TypeOK, NEW p \in Procs, Distinct(file), StableInv(p),
           WriteDest(p) \/ WriteThrows(p)
    PROVE  StableInv(p)' /\ FileStep(p)
<1>1. /\ pc[p] = "write" /\ UNCHANGED <<lock, tu, endPos, out>> /\ ~dirty[p]
  BY DEF WriteDest, WriteThrows, localVars, readVars, writeVars, StableInv, BufferInv
<1>2. Writable(p) /\ TellP(p)' = TellP(p) /\ WritePos(p)' = WritePos(p)
  BY <1>1 DEF StableInv, WriteStable, Writable, TellP, WritePos
<1>3. CASE dirty'[p] /\ pc'[p] = "resize" /\ UNCHANGED file
  <2>1. Writable(p)'
    BY <1>1, <1>2, <1>3 DEF Writable, Appendable, WritePos
  <2>2. Lead(file) \subseteq 1..TellP(p)
    <3>1. Len(out[p]) \in Nat /\ WritePos(p) \in Nat /\ Lead(file) = 1..WritePos(p)
      BY <1>2, WriteType, LenProperties DEF TypeOK, Writable, Appendable
    <3> QED
      BY <3>1 DEF TellP
  <2>3. WriteStable(p)'
    BY <1>2, <1>3, <2>1, <2>2 DEF WriteStable, Writable
  <2>4. FileStep(p)
    BY <1>3, NoFileStep
  <2> QED
    BY <1>1, <1>3, <2>3, <2>4
    DEF StableInv, LockInv, FreshInv, BufferInv, ReadStable, SerializeStable, Critical
<1>4. CASE ~dirty'[p] /\ pc'[p] = "resize" /\ file' = Overlay(file, WritePos(p), out[p])
  <2>1. Keeps(file, file') /\ Distinct(file') /\ Lead(file') \subseteq 1..TellP(p)
    BY <1>2, <1>4, OutputKeeps
  <2>2. WriteStable(p)'
    BY <1>2, <1>4, <2>1 DEF WriteStable
  <2>3. FileStep(p)
    BY <1>1, <2>1 DEF FileStep, Critical
  <2> QED
    BY <1>1, <1>4, <2>2, <2>3
    DEF StableInv, LockInv, FreshInv, BufferInv, ReadStable, SerializeStable, Critical
<1>5. CASE ~dirty'[p] /\ pc'[p] = "fail" /\ \E w \in Partial(out[p]) : file' = Overlay(file, WritePos(p), w)
  <2>1. Keeps(file, file') /\ Distinct(file')
    BY <1>2, <1>5, OutputKeeps
  <2>2. FileStep(p)
    BY <1>1, <2>1 DEF FileStep, Critical
  <2> QED
    BY <1>1, <1>5, <2>2
    DEF StableInv, LockInv, FreshInv, BufferInv, ReadStable, SerializeStable, WriteStable, Critical
<1>6. \/ dirty'[p] /\ pc'[p] = "resize" /\ UNCHANGED file
      \/ ~dirty'[p] /\ pc'[p] = "resize" /\ file' = Overlay(file, WritePos(p), out[p])
      \/ /\ ~dirty'[p] /\ pc'[p] = "fail"
         /\ \E w \in Partial(out[p]) : file' = Overlay(file, WritePos(p), w)
  BY <1>1 DEF WriteDest, WriteThrows, Goto, TypeOK, localVars, writeVars
<1> QED
  BY <1>3, <1>4, <1>5, <1>6

\* Cutting the file behind the write position cuts no message off.
LEMMA ResizeStep ==
    ASSUME TypeOK, NEW p \in Procs, Distinct(file), StableInv(p), ResizeDest(p)
    PROVE  StableInv(p)' /\ FileStep(p)
<1>1. /\ pc[p] = "resize" /\ pc'[p] = "close"
      /\ UNCHANGED <<lock, tu, data, endPos, out, dirty>>
      /\ file' = Truncated(file, TellP(p))
  BY DEF ResizeDest, Goto, TypeOK, localVars, readVars, writeVars
<1>2. /\ TellP(p) \in Nat /\ WritePos(p) \in Nat /\ file \in Seq(Block) /\ Len(file) \in Nat
      /\ WritePos(p) <= TellP(p) /\ Lead(file) \subseteq 1..TellP(p)
  <2>1. Len(out[p]) \in Nat
    BY LenProperties DEF TypeOK
  <2>2. Lead(file) \subseteq 1..TellP(p)
    BY <1>1 DEF StableInv, WriteStable
  <2> QED
    BY <2>1, <2>2, WriteType, LenProperties DEF TypeOK, TellP
<1>3. Keeps(file, file') /\ Lead(file') = Lead(file)
  BY <1>1, <1>2, TruncatedKeeps
<1>4. FileStep(p)
  BY <1>1, <1>3, KeepsDistinct DEF FileStep, Critical
<1>5. ASSUME dirty[p] PROVE Writable(p)'
  <2>1. Writable(p)
    BY <1>5 DEF StableInv, WriteStable, Writable
  <2>2. /\ Len(file') = IF Len(file) > TellP(p) THEN TellP(p) ELSE Len(file)
        /\ \A i \in 1..Len(file') : file'[i] = file[i]
    BY <1>1, <1>2, TruncatedType
  <2>3. WritePos(p) <= Len(file')
    BY <1>2, <2>1, <2>2 DEF Writable, Appendable
  <2>4. \A i \in (WritePos(p) + 1)..Len(file') : file'[i].kind # "msg"
    <3> TAKE i \in (WritePos(p) + 1)..Len(file')
    <3>1. i \in 1..Len(file') /\ i \in (WritePos(p) + 1)..Len(file)
      BY <1>2, <2>2
    <3> QED
      BY <2>1, <2>2, <3>1 DEF Writable, Appendable
  <2>5. Appendable(p)'
    BY <1>1, <1>3, <2>1, <2>3, <2>4 DEF Writable, Appendable, WritePos
  <2> QED
    BY <1>1, <1>3, <2>1, <2>5 DEF Writable, Keeps
<1>6. WriteStable(p)'
  BY <1>1, <1>5 DEF WriteStable, Writable
<1> QED
  BY <1>1, <1>4, <1>6
  DEF StableInv, LockInv, FreshInv, BufferInv, ReadStable, SerializeStable, Critical

\* Closing the file, also by a destructor or the end of the process.
LEMMA CloseStep ==
    ASSUME TypeOK, NEW p \in Procs, Distinct(file), StableInv(p),
           CloseDest(p) \/ CloseUnwound(p) \/ Crash(p)
    PROVE  StableInv(p)' /\ FileStep(p)
<1>1. \/ UNCHANGED file
      \/ /\ pc[p] = "write" \/ (dirty[p] /\ pc[p] \in {"close", "dtor"})
         /\ \/ file' = Overlay(file, WritePos(p), out[p])
            \/ \E w \in Partial(out[p]) : file' = Overlay(file, WritePos(p), w)
  BY DEF CloseDest, CloseUnwound, Crash, Flushed
<1>2. FileStep(p)
  <2>1. CASE UNCHANGED file
    BY <2>1, NoFileStep
  <2>2. CASE /\ pc[p] = "write" \/ (dirty[p] /\ pc[p] \in {"close", "dtor"})
             /\ \/ file' = Overlay(file, WritePos(p), out[p])
                \/ \E w \in Partial(out[p]) : file' = Overlay(file, WritePos(p), w)
    <3>1. Writable(p)
      BY <2>2 DEF StableInv, WriteStable, Writable
    <3>2. Keeps(file, file') /\ Distinct(file')
      BY <2>2, <3>1, OutputKeeps
    <3>3. pc[p] \in Critical \/ (pc[p] = "dtor" /\ "resize" \in Faults)
      BY <2>2 DEF StableInv, BufferInv, Critical
    <3> QED
      BY <3>2, <3>3 DEF FileStep
  <2> QED
    BY <1>1, <2>1, <2>2
<1>3. StableInv(p)'
  <2>1. CASE CloseDest(p)
    <3>1. pc'[p] = "unlock" /\ ~dirty'[p]
      BY <2>1 DEF CloseDest, Goto, TypeOK
    <3> QED
      BY <3>1
      DEF StableInv, LockInv, FreshInv, BufferInv, ReadStable, SerializeStable, WriteStable, Critical
  <2>2. CASE CloseUnwound(p) \/ Crash(p)
    BY <2>2, ForgetStable DEF CloseUnwound, Crash
  <2> QED
    BY <2>1, <2>2
<1> QED
  BY <1>2, <1>3

\* Every step of a process, for the process itself.
LEMMA StableOwn ==
    ASSUME TypeOK, NEW p \in Procs, Distinct(file), StableInv(p), ProcStep(p)
    PROVE  StableInv(p)' /\ FileStep(p)
<1>1. CASE StartCompile(p) \/ OpenDest(p) \/ LockDest(p)
  BY <1>1, OpenStable, NoFileStep DEF StartCompile, OpenDest, LockDest
<1>2. CASE ReopenDest(p)
  BY <1>2, ReopenStable, NoFileStep DEF ReopenDest
<1>3. CASE OpenFails(p) \/ ReadThrows(p) \/ ResizeThrows(p) \/ Unwind(p) \/ Unlock(p)
  BY <1>3, ThrowStable, NoFileStep
<1>4. CASE ReadObject(p)
  BY <1>4, ReadObjectStable, NoFileStep DEF ReadObject
<1>5. CASE ReadEnd(p)
  BY <1>5, ReadEndStable, NoFileStep DEF ReadEnd
<1>6. CASE OpenSrc(p)
  BY <1>6, OpenSrcStable, NoFileStep DEF OpenSrc
<1>7. CASE SerializeMsg(p)
  BY <1>7, SerializeMsgStable, NoFileStep DEF SerializeMsg
<1>8. CASE SerializeEnd(p)
  BY <1>8, SerializeEndStable, NoFileStep DEF SerializeEnd
<1>9. CASE WriteDest(p) \/ WriteThrows(p)
  BY <1>9, WriteStep
<1>10. CASE ResizeDest(p)
  BY <1>10, ResizeStep
<1>11. CASE CloseDest(p) \/ CloseUnwound(p) \/ Crash(p)
  BY <1>11, CloseStep
<1>12. CASE Emit(p)
  BY <1>12, ForgetStable, NoFileStep DEF Emit
<1> QED
  BY <1>1, <1>2, <1>3, <1>4, <1>5, <1>6, <1>7, <1>8, <1>9, <1>10, <1>11, <1>12
  DEF ProcStep, Step

\* What a process that does nothing knows stays true, if the file stays the
\* same or the process has not read it.
LEMMA StableFrame ==
    ASSUME NEW q \in Procs, StableInv(q), Kept(q), lock = q => lock' = q,
           UNCHANGED file \/ (pc[q] \notin Critical /\ ~dirty[q])
    PROVE  StableInv(q)'
<1>1. LockInv(q)' /\ FreshInv(q)' /\ BufferInv(q)'
  BY DEF Kept, StableInv, LockInv, FreshInv, BufferInv
<1>2. CASE UNCHANGED file
  <2>1. /\ Appendable(q)' <=> Appendable(q)
        /\ TellP(q)' = TellP(q) /\ ToWrite(q)' = ToWrite(q)
    BY <1>2 DEF Kept, Appendable, WritePos, TellP, ToWrite
  <2>2. ReadStable(q)'
    BY <1>2, <2>1 DEF Kept, StableInv, ReadStable, Covered
  <2>3. SerializeStable(q)'
    BY <1>2, <2>1 DEF Kept, StableInv, SerializeStable, Covered
  <2>4. WriteStable(q)'
    BY <1>2, <2>1 DEF Kept, StableInv, WriteStable
  <2> QED
    BY <1>1, <2>2, <2>3, <2>4 DEF StableInv
<1>3. CASE pc[q] \notin Critical /\ ~dirty[q]
  BY <1>1, <1>3 DEF Kept, StableInv, ReadStable, SerializeStable, WriteStable, Critical
<1> QED
  BY <1>2, <1>3

\* At first nobody has read or written anything.
LEMMA StableInit == ASSUME DistinctStart PROVE Init => FileInv
BY DEF DistinctStart, Init, FileInv, StableInv, LockInv, BufferInv, FreshInv, ReadStable,
   SerializeStable, WriteStable, Critical

\* While one process changes the file, no other has read it.
LEMMA StableStep ==
    ASSUME OneAtATime
    PROVE  TypeInv /\ FileInv /\ [Next]_vars => FileInv' /\ Keeps(file, file')
<1> SUFFICES ASSUME TypeOK, FileInv, [Next]_vars PROVE FileInv' /\ Keeps(file, file')
  BY DEF TypeInv
<1>1. Distinct(file) /\ \A q \in Procs : StableInv(q)
  BY DEF FileInv
<1>2. ASSUME NEW p \in Procs, ProcStep(p) PROVE FileInv' /\ Keeps(file, file')
  <2>1. StableInv(p)' /\ FileStep(p)
    BY <1>1, <1>2, StableOwn
  <2>2. ASSUME NEW q \in Procs, q # p PROVE StableInv(q)'
    <3>1. Kept(q) /\ (lock = q => lock' = q)
      BY <1>2, <2>2, StepKeeps
    <3>2. ~LockDiesOnClose /\ "resize" \notin Faults
      BY <2>2 DEF OneAtATime
    <3>3. ASSUME file' # file PROVE pc[q] \notin Critical /\ ~dirty[q]
      <4>1. pc[p] \in Critical
        BY <2>1, <3>2, <3>3 DEF FileStep
      <4>2. lock = p
        BY <1>1, <3>2, <4>1 DEF StableInv, LockInv
      <4>3. pc[q] \notin Critical
        BY <1>1, <2>2, <3>2, <4>2 DEF StableInv, LockInv
      <4> QED
        BY <1>1, <3>2, <4>3 DEF StableInv, BufferInv, Critical
    <3> QED
      BY <1>1, <3>1, <3>3, StableFrame
  <2> QED
    BY <2>1, <2>2 DEF FileInv, FileStep
<1>3. ASSUME NEW i \in DOMAIN srcs, NEW k \in Keys, Publish(i, k)
      PROVE  FileInv' /\ Keeps(file, file')
  <2>1. /\ \A q \in Procs : Kept(q)
        /\ UNCHANGED <<file, lock>>
    BY <1>3 DEF Publish, Kept, localVars, readVars, writeVars
  <2> QED
    BY <1>1, <2>1, StableFrame DEF FileInv, Keeps
<1>4. CASE UNCHANGED vars
  <2>1. /\ \A q \in Procs : Kept(q)
        /\ UNCHANGED <<file, lock>>
    BY <1>4 DEF vars, Kept, localVars, readVars, writeVars
  <2> QED
    BY <1>1, <2>1, StableFrame DEF FileInv, Keeps
<1> QED
  BY <1>2, <1>3, <1>4 DEF Next, ProcStep, BuildDone

\* The inductive invariant of the files holds in every reachable state.
LEMMA StableAlways ==
    ASSUME OneAtATime, DistinctStart
    PROVE  Spec => [](TypeInv /\ FileInv)
<1>1. Init => TypeInv /\ FileInv
  BY TypeInit, StableInit
<1>2. TypeInv /\ FileInv /\ [Next]_vars => (TypeInv /\ FileInv)'
  BY TypeStep, StableStep
<1> QED
  BY <1>1, <1>2, PTL DEF Spec

\* Whatever fails while process() reads, extends, cuts or closes the destination
\* file, and wherever the compiler is killed, the file never has a message
\* twice, so that no later compilation ends with "Conflicting message": as long
\* as compilers handle it one at a time.
THEOREM KeysUnique ==
    ASSUME OneAtATime, DistinctStart
    PROVE  Spec => []FileKeysUnique
<1>1. FileInv => FileKeysUnique
  BY DEF FileInv, FileKeysUnique, Distinct
<1> QED
  BY <1>1, StableAlways, PTL

\* And what it has stays where it was, under the same ID.
THEOREM Stability ==
    ASSUME OneAtATime, DistinctStart
    PROVE  Spec => EntriesStable
<1>1. TypeInv /\ FileInv /\ [Next]_vars =>
        [\A i \in Lead(file) : i \in Lead(file') /\ file'[i] = file[i]]_vars
  BY StableStep DEF Keeps
<1> QED
  BY <1>1, StableAlways, PTL DEF Spec, EntriesStable

-----------------------------------------------------------------------------
(* Without faults: the files can be read.                                   *)

\* A file that is nothing but an array is a good one.
LEMMA ClosedWellFormed ==
    ASSUME NEW f \in Seq(Block), NEW n, Closed(f, n), Len(f) = n
    PROVE  WellFormed(f)
<1>1. n \in 1..Len(f) /\ f[n] = End /\ n - 1 \in Lead(f) \cup {0} /\ TailOK(f, n)
  BY LenProperties DEF Closed, TailOK
<1> QED
  BY <1>1 DEF WellFormed

\* An array written behind the messages of a file makes one array of both.
LEMMA ClosedOverlay ==
    ASSUME NEW f \in Seq(Block), NEW n \in 0..Len(f), Lead(f) = 1..n,
           NEW w \in Seq(Block), Closed(w, Len(w))
    PROVE  /\ Closed(Overlay(f, n, w), n + Len(w))
           /\ Len(f) <= n + Len(w) => Len(Overlay(f, n, w)) = n + Len(w)
<1> DEFINE g == Overlay(f, n, w)
           m == n + Len(w)
<1>1. Len(f) \in Nat /\ Len(w) \in Nat /\ n \in Nat /\ Len(w) >= 1
  BY LenProperties DEF Closed
<1>2. /\ g \in Seq(Block)
      /\ Len(g) = IF n + Len(w) > Len(f) THEN n + Len(w) ELSE Len(f)
      /\ \A i \in 1..Len(g) : g[i] = IF i \in (n + 1)..(n + Len(w)) THEN w[i - n]
                                     ELSE IF i <= Len(f) THEN f[i] ELSE Torn
  BY OverlayType
<1> HIDE DEF g
<1>3. m \in 1..Len(g) /\ m - 1 \in 0..Len(g) /\ m \in (n + 1)..(n + Len(w)) /\ m - n = Len(w)
  BY <1>1, <1>2
<1>4. g[m] = End
  BY <1>2, <1>3 DEF Closed
<1>5. ASSUME NEW i \in 1..(m - 1) PROVE g[i].kind = "msg"
  <2>1. CASE i \in 1..n
    <3>1. i \in 1..Len(g) /\ i \notin (n + 1)..(n + Len(w)) /\ i <= Len(f)
      BY <1>1, <1>3, <2>1
    <3>2. g[i] = f[i]
      BY <1>2, <3>1
    <3> QED
      BY <2>1, <3>2 DEF Lead
  <2>2. CASE i \in (n + 1)..(m - 1)
    <3>1. g[i] = w[i - n] /\ i - n \in 1..(Len(w) - 1)
      BY <1>1, <1>2, <1>3, <2>2
    <3>2. w[i - n].kind = "msg"
      BY <1>1, <3>1 DEF Closed, Lead
    <3> QED
      BY <3>1, <3>2
  <2> QED
    BY <1>1, <2>1, <2>2
<1>6. Lead(g) = 1..(m - 1)
  <2> DEFINE k == m - 1
  <2>1. k \in 0..Len(g) /\ \A i \in 1..k : g[i].kind = "msg"
    BY <1>3, <1>5
  <2>2. k < Len(g) => g[k + 1].kind # "msg"
    BY <1>1, <1>4 DEF End
  <2> HIDE DEF k
  <2>3. Lead(g) = 1..k
    BY <1>2, <2>1, <2>2, LeadIs
  <2> QED
    BY <2>3 DEF k
<1> QED
  BY <1>1, <1>2, <1>3, <1>4, <1>6 DEF Closed, g

\* Cutting a file after its array leaves nothing else.
LEMMA ClosedTruncated ==
    ASSUME NEW f \in Seq(Block), NEW n \in Nat, Closed(f, n)
    PROVE  Closed(Truncated(f, n), n) /\ Len(Truncated(f, n)) = n
<1>1. n \in 1..Len(f) /\ Lead(f) = 1..(n - 1) /\ Len(f) \in Nat
  BY LenProperties DEF Closed
<1>2. /\ Len(Truncated(f, n)) = n
      /\ \A i \in 1..n : Truncated(f, n)[i] = f[i]
  BY <1>1, TruncatedType
<1>3. Lead(f) \subseteq 1..n
  BY <1>1
<1>4. Lead(Truncated(f, n)) = Lead(f)
  BY <1>3, TruncatedRegistered
<1> QED
  BY <1>1, <1>2, <1>4 DEF Closed

\* A reader that has passed only messages of a good file is at a message or
\* where the document ends.
LEMMA GoodFileEnd ==
    ASSUME NEW f \in Seq(Block), WellFormed(f), NEW n \in 0..Len(f), 1..n \subseteq Lead(f),
           ~(n < Len(f) /\ f[n + 1].kind = "msg")
    PROVE  \/ f = << >> /\ n = 0
           \/ n < Len(f) /\ f[n + 1] = End /\ TailOK(f, n + 1)
<1>1. CASE f = << >>
  BY <1>1
<1>2. CASE f # << >>
  <2>1. PICK m \in 1..Len(f) : m - 1 \in Lead(f) \cup {0} /\ f[m] = End /\ TailOK(f, m)
    BY <1>2 DEF WellFormed
  <2>2. Len(f) \in Nat /\ n \in Nat /\ m \in Nat
    BY LenProperties
  <2>3. m \notin Lead(f)
    BY <2>1, <2>2 DEF Lead, End
  <2>4. n <= m - 1
    <3>1. ~(m \in 1..n)
      BY <2>3
    <3> QED
      BY <2>2, <3>1
  <2>5. n >= m - 1
    <3> SUFFICES ASSUME n < m - 1 PROVE FALSE
      BY <2>2
    <3>1. m - 1 \in Lead(f) /\ n + 1 \in 1..(m - 1)
      BY <2>1, <2>2
    <3>2. f[n + 1].kind = "msg"
      BY <3>1 DEF Lead
    <3> QED
      BY <2>2, <3>2
  <2>6. m = n + 1
    BY <2>2, <2>4, <2>5
  <2> QED
    BY <2>1, <2>2, <2>6
<1> QED
  BY <1>1, <1>2

\* No fault, and the files are good ones and agree at first.
Faultless == Exclusive /\ Faults = {} /\ CoherentStart /\ GoodStart

\* A message whose ID the reader rejects has one beyond INT_MAX, or none.
LEMMA BadId ==
    ASSUME NEW b \in MsgBlock, ~GoodId(b)
    PROVE  EntryOf(b).id = 0 \/ EntryOf(b).id > IntMax
BY IntMaxAssumption DEF MsgBlock, GoodId, EntryOf, ToUnsigned, MsgIdMax

\* What the readers have seen is recorded.
LEMMA SeenRecorded ==
    ASSUME TypeOK, NEW p \in Procs, pc[p] = "read", ProcInv(p)
    PROVE  Known(p) \subseteq Recorded /\ Registered(Stream(p)) \subseteq Recorded
<1>1. DOMAIN srcs = 1..Len(srcs) /\ Len(srcs) \in Nat
  BY LenProperties DEF TypeOK
<1>2. Registered(Stream(p)) \subseteq Recorded
  BY <1>1 DEF TypeOK, Stream, Recorded
<1>3. ReadInv(p)
  BY DEF ProcInv
<1>4. SeenHere(p) \subseteq Registered(Stream(p))
  BY <1>3 DEF ReadInv, SeenHere, Registered
<1> QED
  BY <1>2, <1>3, <1>4 DEF ReadInv, SeenBefore

\* A reader throws nothing but at an ID beyond INT_MAX in the destination file.
LEMMA ThrowsAtLimit ==
    ASSUME Faultless, TypeOK, IndInv, LimitInv, NEW p \in Procs, ReadThrows(p)
    PROVE  LimitPassed
<1> DEFINE f == Stream(p)
           n == pos[p]
           b == f[n + 1]
<1>1. /\ pc[p] = "read" /\ ~AtEnd(p) /\ (AtMsg(p) => ~GoodId(b) \/ ~Agrees(p, b))
      /\ ProcInv(p) /\ ReadInv(p) /\ FoundKnown(p) /\ Coherent(Recorded)
      /\ found[p] \subseteq {e.id : e \in Known(p)}
  BY DEF ReadThrows, IndInv, ProcInv, LimitInv, FoundKnown
<1>2. /\ f \in Seq(Block) /\ Len(f) \in Nat /\ n \in 0..Len(f) /\ 1..n \subseteq Lead(f)
  BY <1>1, StreamType, LenProperties DEF ReadInv, TypeOK
<1>3. DOMAIN srcs = 1..Len(srcs) /\ (rdr[p] # 0 => rdr[p] \in DOMAIN srcs)
  BY LenProperties DEF TypeOK
<1>4. WellFormed(f)
  <2>1. CASE rdr[p] = 0
    <3>1. \A q \in Procs : pc[q] \notin {"resize", "close"}
      BY <1>1, Exclusion DEF Critical, Faultless
    <3> QED
      BY <2>1, <3>1 DEF LimitInv, Stream
  <2>2. CASE rdr[p] # 0
    BY <1>3, <2>2 DEF Faultless, GoodStart, LimitInv, Stream
  <2> QED
    BY <2>1, <2>2
<1> HIDE DEF f, n, b
<1>5. AtMsg(p)
  <2>1. ASSUME ~(n < Len(f) /\ f[n + 1].kind = "msg") PROVE FALSE
    <3>1. \/ f = << >> /\ n = 0
          \/ n < Len(f) /\ f[n + 1] = End /\ TailOK(f, n + 1)
      BY <1>2, <1>4, <2>1, GoodFileEnd
    <3> QED
      BY <1>1, <3>1 DEF AtEnd, f, n
  <2> QED
    BY <2>1 DEF AtMsg, f, n
<1>6. /\ b \in MsgBlock /\ n + 1 \in Lead(f)
      /\ EntryOf(b) \in Registered(f) /\ EntryOf(b).key = b.key
  <2>1. b \in MsgBlock
    BY <1>5, BlockAtType DEF b, f, n
  <2>2. n + 1 \in 1..Len(f) /\ f[n + 1].kind = "msg"
    BY <1>2, <1>5 DEF AtMsg, f, n
  <2>3. n + 1 \in Lead(f)
    BY <1>2, <2>2 DEF Lead
  <2>4. EntryOf(b) \in Registered(f)
    BY <2>3 DEF Registered, b
  <2> QED
    BY <2>1, <2>3, <2>4 DEF EntryOf
<1>7. CASE ~GoodId(b)
  <2>1. EntryOf(b).id = 0 \/ EntryOf(b).id > IntMax
    BY <1>6, <1>7, BadId
  <2>2. CASE rdr[p] = 0
    BY <1>6, <2>1, <2>2 DEF LimitInv, LimitPassed, Stream, f
  <2>3. CASE rdr[p] # 0
    <3>1. EntryOf(b).id \in 1..IntMax
      BY <1>3, <1>6, <2>3 DEF Faultless, GoodStart, LimitInv, Stream, f
    <3> QED
      BY <2>1, <3>1, IntMaxAssumption
  <2> QED
    BY <2>2, <2>3
<1>8. CASE GoodId(b) /\ ~Agrees(p, b)
  <2>1. EntryOf(b) \in Recorded /\ Known(p) \subseteq Recorded
    BY <1>1, <1>6, SeenRecorded DEF f
  <2>2. EntryOf(b).id = b.id
    BY <1>6, <1>8, IntMaxAssumption DEF GoodId, EntryOf, ToUnsigned, MsgBlock
  <2>3. b.key \in tu[p]
    BY <1>8 DEF Agrees
  <2>4. CASE data[p][b.key].id = 0
    <3>1. b.id \in found[p]
      BY <1>8, <2>3, <2>4 DEF Agrees
    <3>2. PICK e \in Known(p) : e.id = b.id
      BY <1>1, <3>1
    <3>3. e.key = b.key
      BY <1>1, <1>6, <2>1, <2>2, <3>2 DEF Coherent
    <3>4. data[p][e.key].id # 0
      BY <3>2 DEF Known
    <3> QED
      BY <2>4, <3>3, <3>4
  <2>5. CASE data[p][b.key].id # 0
    <3>1. [key |-> b.key, id |-> data[p][b.key].id] \in Known(p)
      BY <2>3, <2>5 DEF Known
    <3> DEFINE e == [key |-> b.key, id |-> data[p][b.key].id]
    <3>2. e \in Recorded /\ e.key = b.key /\ e.id = data[p][b.key].id
      BY <2>1, <3>1
    <3> HIDE DEF e
    <3>3. e.id = EntryOf(b).id
      BY <1>1, <1>6, <2>1, <3>2 DEF Coherent
    <3> QED
      BY <1>8, <2>2, <2>3, <2>5, <3>2, <3>3 DEF Agrees
  <2> QED
    BY <2>4, <2>5
<1> QED
  BY <1>1, <1>5, <1>7, <1>8

\* The IDs a reader has found in its file are those of messages it knows.
LEMMA FoundStep ==
    ASSUME TypeOK, NEW p \in Procs, ProcInv(p), FoundKnown(p), ProcStep(p)
    PROVE  FoundKnown(p)'
<1> SUFFICES ASSUME pc'[p] = "read"
             PROVE  found'[p] \subseteq {e.id : e \in Known(p)'}
  BY DEF FoundKnown
<1>1. ReopenDest(p) \/ ReadObject(p) \/ OpenSrc(p)
  BY DEF ProcStep, Step, StartCompile, OpenDest, LockDest, OpenFails, ReadEnd, ReadThrows,
     SerializeMsg, SerializeEnd, WriteDest, WriteThrows, ResizeDest, ResizeThrows,
     CloseDest, Unlock, Emit, Unwind, CloseUnwound, Crash, Goto, TypeOK
<1>2. CASE ReopenDest(p)
  <2>1. found'[p] = found[p] /\ pc[p] = "reopen"
    BY <1>2 DEF ReopenDest, localVars, readVars
  <2> QED
    BY <2>1 DEF ProcInv, FreshInv
<1>3. CASE OpenSrc(p)
  BY <1>3 DEF OpenSrc, TypeOK
<1>4. CASE ReadObject(p)
  <2> DEFINE b == Stream(p)[pos[p] + 1]
  <2>1. pc[p] = "read" /\ UNCHANGED tu /\ AtMsg(p) /\ GoodId(b)
    BY <1>4 DEF ReadObject
  <2>2. b.key \in Keys /\ b.id # 0 /\ tu[p] \subseteq Keys
    BY <2>1, BlockAtType, GoodIdType DEF TypeOK
  <2>3. \/ /\ b.key \in tu[p] /\ data[p][b.key].id = 0
           /\ data'[p] = [data[p] EXCEPT ![b.key] = [id |-> b.id, src |-> SrcTag(p)]]
           /\ found'[p] = found[p] \cup {b.id}
        \/ data'[p] = data[p] /\ found'[p] = found[p]
    BY <1>4 DEF ReadObject, TypeOK, b
  <2> HIDE DEF b
  <2>4. found[p] \subseteq {e.id : e \in Known(p)}
    BY <2>1 DEF FoundKnown
  <2>5. CASE data'[p] = data[p] /\ found'[p] = found[p]
    <3>1. Known(p)' = Known(p)
      BY <2>1, <2>5 DEF Known
    <3> QED
      BY <2>4, <2>5, <3>1
  <2>6. CASE /\ b.key \in tu[p] /\ data[p][b.key].id = 0
             /\ data'[p] = [data[p] EXCEPT ![b.key] = [id |-> b.id, src |-> SrcTag(p)]]
             /\ found'[p] = found[p] \cup {b.id}
    <3>1. data'[p][b.key].id = b.id /\ \A k \in Keys \ {b.key} : data'[p][k] = data[p][k]
      BY <2>2, <2>6 DEF TypeOK
    <3>2. [key |-> b.key, id |-> b.id] \in Known(p)'
      BY <2>1, <2>2, <2>6, <3>1 DEF Known
    <3>3. \A k \in tu[p] : data[p][k].id # 0 => data'[p][k] = data[p][k]
      BY <2>2, <2>6, <3>1
    <3>4. Known(p) \subseteq Known(p)'
      BY <2>1, <3>3 DEF Known
    <3>5. [key |-> b.key, id |-> b.id].id = b.id
      OBVIOUS
    <3>6. b.id \in {e.id : e \in Known(p)'}
      BY <3>2, <3>5
    <3>7. found[p] \subseteq {e.id : e \in Known(p)'}
      BY <2>4, <3>4
    <3> QED
      BY <2>6, <3>6, <3>7
  <2> QED
    BY <2>3, <2>5, <2>6
<1> QED
  BY <1>1, <1>2, <1>3, <1>4

\* The output ends with the closing bracket, and so does the file that the
\* process leaves.
LEMMA CutStep ==
    ASSUME Faultless, TypeOK, NEW p \in Procs, ProcInv(p), OutClosed(p), CutInv(p), ProcStep(p)
    PROVE  /\ OutClosed(p)' /\ CutInv(p)'
           /\ IF pc[p] \in {"resize", "close"}
              THEN pc'[p] \in {"resize", "close"} \/ WellFormed(file')
              ELSE pc'[p] \in {"resize", "close"} \/ UNCHANGED file
<1> USE DEF Goto, readVars, writeVars, localVars
<1>0. /\ Faults = {}
      /\ out[p] \in Seq(Block) /\ file \in Seq(Block)
      /\ WritePos(p) \in Nat /\ TellP(p) \in Nat /\ Len(out[p]) \in Nat /\ Len(file) \in Nat
  BY WriteType, LenProperties DEF Faultless, TypeOK
<1>1. CASE SerializeEnd(p)
  <2>1. pc[p] = "serialize" /\ pc'[p] = "write" /\ UNCHANGED file /\ out'[p] = Append(out[p], End)
    BY <1>1 DEF SerializeEnd, TypeOK
  <2>2. Lead(out[p]) = 1..Len(out[p])
    BY <2>1 DEF ProcInv, SerializeInv
  <2>3. /\ out'[p] \in Seq(Block) /\ Len(out'[p]) = Len(out[p]) + 1
        /\ \A i \in 1..Len(out[p]) : out'[p][i] = out[p][i]
        /\ out'[p][Len(out[p]) + 1] = End
    BY <1>0, <2>1, AppendProperties, BlockTypes
  <2>4. Lead(out'[p]) = 1..Len(out[p])
    <3>1. \A i \in 1..Len(out[p]) : out'[p][i].kind = "msg"
      BY <2>2, <2>3 DEF Lead
    <3>2. out'[p][Len(out[p]) + 1].kind # "msg" /\ Len(out[p]) \in 0..Len(out'[p])
      BY <1>0, <2>3 DEF End
    <3> QED
      BY <2>3, <3>1, <3>2, LeadIs
  <2>5. Closed(out'[p], Len(out'[p]))
    <3>1. Len(out'[p]) - 1 = Len(out[p]) /\ Len(out'[p]) \in 1..Len(out'[p])
      BY <1>0, <2>3
    <3> QED
      BY <2>3, <2>4, <3>1 DEF Closed
  <2> QED
    BY <2>1, <2>5 DEF OutClosed, CutInv
<1>2. CASE WriteDest(p)
  <2>1. /\ pc[p] = "write" /\ pc'[p] = "resize" /\ UNCHANGED <<endPos, out>> /\ ~dirty[p]
        /\ \/ dirty'[p]
           \/ file' = Overlay(file, WritePos(p), out[p]) /\ ~dirty'[p]
    BY <1>2 DEF WriteDest, TypeOK, ProcInv, FlushInv
  <2>2. OutClosed(p)' /\ TellP(p)' = TellP(p) /\ Closed(out[p], Len(out[p])) /\ Appendable(p)
    BY <2>1 DEF OutClosed, TellP, WritePos, ProcInv, WriteInv
  <2>3. ~dirty'[p] => Closed(file', TellP(p))
    <3> DEFINE n == WritePos(p)
    <3>1. n \in 0..Len(file) /\ Lead(file) = 1..n
      BY <1>0, <2>2 DEF Appendable
    <3> HIDE DEF n
    <3>2. Closed(Overlay(file, n, out[p]), n + Len(out[p]))
      BY <1>0, <2>2, <3>1, ClosedOverlay
    <3> QED
      BY <2>1, <3>2 DEF TellP, n
  <2> QED
    BY <2>1, <2>2, <2>3 DEF CutInv
<1>3. CASE ResizeDest(p)
  <2>1. /\ pc[p] = "resize" /\ pc'[p] = "close" /\ UNCHANGED <<endPos, out, dirty>>
        /\ file' = Truncated(file, TellP(p))
    BY <1>3 DEF ResizeDest, TypeOK
  <2>2. OutClosed(p)' /\ TellP(p)' = TellP(p)
    BY <2>1 DEF OutClosed, TellP, WritePos
  <2>3. ~dirty[p] => Closed(file', TellP(p)) /\ Len(file') = TellP(p)
    <3>1. ~dirty[p] => Closed(file, TellP(p))
      BY <2>1 DEF CutInv
    <3> QED
      BY <1>0, <2>1, <3>1, ClosedTruncated
  <2>4. Len(file') <= TellP(p)
    BY <1>0, <2>1, TruncatedType
  <2> QED
    BY <2>1, <2>2, <2>3, <2>4 DEF CutInv
<1>4. CASE CloseDest(p)
  <2>1. pc[p] = "close" /\ pc'[p] = "unlock" /\ file' = Flushed(p)
    BY <1>0, <1>4 DEF CloseDest, TypeOK
  <2>2. Closed(file', TellP(p)) /\ Len(file') = TellP(p)
    <3>1. CASE dirty[p]
      <4>1. /\ file' = Overlay(file, WritePos(p), out[p]) /\ Len(file) <= TellP(p)
            /\ Closed(out[p], Len(out[p])) /\ Appendable(p)
        BY <2>1, <3>1 DEF Flushed, CutInv, OutClosed, ProcInv, WriteInv
      <4> DEFINE n == WritePos(p)
      <4>2. n \in 0..Len(file) /\ Lead(file) = 1..n /\ Len(file) <= n + Len(out[p])
        BY <1>0, <4>1 DEF Appendable, TellP
      <4> HIDE DEF n
      <4>3. /\ Closed(Overlay(file, n, out[p]), n + Len(out[p]))
            /\ Len(Overlay(file, n, out[p])) = n + Len(out[p])
        BY <1>0, <4>1, <4>2, ClosedOverlay
      <4> QED
        BY <4>1, <4>3 DEF TellP, n
    <3>2. CASE ~dirty[p]
      BY <2>1, <3>2 DEF Flushed, CutInv
    <3> QED
      BY <3>1, <3>2
  <2>3. file' \in Seq(Block)
    BY <2>1, WriteType
  <2>4. WellFormed(file')
    BY <2>2, <2>3, ClosedWellFormed
  <2> QED
    BY <2>1, <2>4 DEF OutClosed, CutInv
<1>5. ASSUME ~SerializeEnd(p), ~WriteDest(p), ~ResizeDest(p), ~CloseDest(p)
      PROVE  /\ pc[p] \notin {"resize", "close"} /\ UNCHANGED file
             /\ pc'[p] \notin {"write", "resize", "close"}
  <2>1. ~dirty[p] \/ pc[p] \in {"resize", "close"}
    BY DEF ProcInv, FlushInv
  <2> QED
    BY <1>0, <1>5, <2>1
    DEF ProcStep, Step, StartCompile, OpenDest, LockDest, ReopenDest, OpenFails,
        ReadObject, ReadEnd, ReadThrows, OpenSrc, SerializeMsg, WriteThrows, ResizeThrows,
        Unlock, Emit, Unwind, CloseUnwound, Flushed, Crash, TypeOK
<1> QED
  BY <1>1, <1>2, <1>3, <1>4, <1>5 DEF OutClosed, CutInv

\* At first all files are good, and nobody has failed.
LEMMA LimitInit == ASSUME Faultless PROVE Init => LimitInv
BY DEF Faultless, GoodStart, Init, LimitInv, OutClosed, FoundKnown, CutInv, FailsOnlyAtLimit

\* Only a process that is rewriting the file keeps it from being a good one.
LEMMA LimitStep ==
    ASSUME Faultless
    PROVE  TypeInv /\ IndInv /\ LimitInv /\ [Next]_vars => LimitInv'
<1> SUFFICES ASSUME TypeInv, TypeOK, IndInv, LimitInv, [Next]_vars PROVE LimitInv'
  BY DEF TypeInv
<1>0. Exclusive /\ Benign /\ Faults = {}
  BY DEF Faultless, Benign
<1>1. ASSUME NEW p \in Procs, ProcStep(p) PROVE LimitInv'
  <2>1. FileEffect(p) /\ UNCHANGED srcs /\ ProcInv(p)
    BY <1>0, <1>1, OwnStep DEF IndInv
  <2>2. /\ OutClosed(p)' /\ CutInv(p)'
        /\ IF pc[p] \in {"resize", "close"}
           THEN pc'[p] \in {"resize", "close"} \/ WellFormed(file')
           ELSE pc'[p] \in {"resize", "close"} \/ UNCHANGED file
    BY <1>1, <2>1, CutStep DEF LimitInv
  <2>3. FoundKnown(p)'
    BY <1>1, <2>1, FoundStep DEF LimitInv
  <2>4. \A q \in Procs \ {p} : Kept(q)
    BY <1>1, StepKeeps
  <2>5. ASSUME NEW q \in Procs, q # p PROVE OutClosed(q)' /\ FoundKnown(q)' /\ CutInv(q)'
    <3>1. OutClosed(q) /\ FoundKnown(q) /\ CutInv(q) /\ Kept(q)
      BY <2>4, <2>5 DEF LimitInv
    <3>2. OutClosed(q)'
      BY <3>1 DEF OutClosed, Kept
    <3>3. FoundKnown(q)'
      BY <3>1, KeptOperators DEF FoundKnown, Kept
    <3>4. CASE UNCHANGED file
      <4>1. TellP(q)' = TellP(q)
        BY <3>1, KeptOperators
      <4> QED
        BY <3>1, <3>2, <3>3, <3>4, <4>1 DEF CutInv, Kept
    <3>5. CASE file' # file
      <4>1. pc[q] \notin {"resize", "close"}
        BY <1>0, <2>1, <2>5, <3>5, Exclusion DEF FileEffect, Critical
      <4> QED
        BY <3>1, <3>2, <3>3, <4>1 DEF CutInv, Kept
    <3> QED
      BY <3>4, <3>5
  <2>6. \A e \in Registered(file') : e.id # 0
    BY <2>1 DEF FileEffect, LimitInv, Known
  <2>7. WellFormed(file') \/ \E q \in Procs : pc'[q] \in {"resize", "close"}
    <3>1. CASE pc'[p] \in {"resize", "close"}
      BY <3>1
    <3>2. CASE pc[p] \in {"resize", "close"} /\ WellFormed(file')
      BY <3>2
    <3>3. CASE pc[p] \notin {"resize", "close"} /\ UNCHANGED file
      BY <2>4, <3>3 DEF LimitInv, Kept
    <3> QED
      BY <2>2, <3>1, <3>2, <3>3
  <2>8. FailsOnlyAtLimit'
    <3> SUFFICES ASSUME NEW q \in Procs, pc'[q] = "fail" PROVE LimitPassed'
      BY DEF FailsOnlyAtLimit, LimitPassed
    <3>1. LimitPassed => LimitPassed'
      BY <2>1 DEF LimitPassed, FileEffect
    <3>2. CASE q # p
      BY <2>4, <3>1, <3>2 DEF LimitInv, FailsOnlyAtLimit, LimitPassed, Kept
    <3>3. CASE q = p
      <4>1. ReadThrows(p)
        BY <1>0, <1>1, <3>3
        DEF ProcStep, Step, StartCompile, OpenDest, LockDest, ReopenDest, OpenFails,
            ReadObject, ReadEnd, OpenSrc, SerializeMsg, SerializeEnd, WriteDest, WriteThrows,
            ResizeDest, ResizeThrows, CloseDest, Unlock, Emit, Unwind, CloseUnwound, Crash,
            Goto, TypeOK
      <4>2. LimitPassed
        BY <4>1, ThrowsAtLimit
      <4> QED
        BY <3>1, <4>2
    <3> QED
      BY <3>2, <3>3
  <2> QED
    BY <2>1, <2>2, <2>3, <2>5, <2>6, <2>7, <2>8 DEF LimitInv
<1>2. ASSUME NEW i \in DOMAIN srcs, NEW k \in Keys, Publish(i, k) PROVE LimitInv'
  BY <1>0, <1>2 DEF Publish
<1>3. CASE UNCHANGED vars
  <2>1. /\ \A q \in Procs : Kept(q) /\ Known(q)' = Known(q) /\ TellP(q)' = TellP(q)
        /\ UNCHANGED <<file, srcs>>
    BY <1>3, KeptOperators DEF vars, Kept, localVars, readVars, writeVars
  <2>2. \A q \in Procs : OutClosed(q)' /\ FoundKnown(q)' /\ CutInv(q)'
    BY <2>1 DEF LimitInv, OutClosed, FoundKnown, CutInv, Kept
  <2>3. FailsOnlyAtLimit'
    BY <2>1 DEF LimitInv, FailsOnlyAtLimit, Kept
  <2>4. WellFormed(file') \/ \E q \in Procs : pc'[q] \in {"resize", "close"}
    BY <2>1 DEF LimitInv, Kept
  <2> QED
    BY <2>1, <2>2, <2>3, <2>4 DEF LimitInv
<1> QED
  BY <1>1, <1>2, <1>3 DEF Next, ProcStep, BuildDone

\* Compilations that nothing disturbs never make one another fail: the file one
\* of them leaves is one that all others can read, until it has an ID beyond
\* INT_MAX.
THEOREM FailsAtLimit ==
    ASSUME Exclusive, Faults = {}, CoherentStart, GoodStart
    PROVE  Spec => []FailsOnlyAtLimit
<1>1. Faultless /\ Benign
  BY DEF Faultless, Benign
<1>2. Init => LimitInv
  BY <1>1, LimitInit
<1>3. TypeInv /\ IndInv /\ LimitInv /\ [Next]_vars => LimitInv'
  BY <1>1, LimitStep
<1>4. Spec => [](TypeInv /\ IndInv)
  BY <1>1, Invariance
<1>5. LimitInv => FailsOnlyAtLimit
  BY DEF LimitInv
<1> QED
  BY <1>2, <1>3, <1>4, <1>5, PTL DEF Spec

=============================================================================
