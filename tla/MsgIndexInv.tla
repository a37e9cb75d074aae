---------------------------- MODULE MsgIndexInv ----------------------------
(***************************************************************************)
(* The inductive invariants behind the safety of MsgIndex: what each phase *)
(* of MsgIndex::process() knows about the message files.                   *)
(***************************************************************************)
EXTENDS MsgIndex

\* When IDs are safe: no two processes run at once where closing a file drops
\* its lock, nothing fails between the first write and the last flush, and
\* the message files agree with one another at first.
Exclusive == LockDiesOnClose => \A p, q \in Procs : p = q
Benign == Faults \subseteq {"crash", "open"}
CoherentStart == \A f \in InitFiles :
    Coherent(Registered(f) \cup UNION {Registered(SrcFiles[i]) : i \in DOMAIN SrcFiles})

\* Every pair some message file records.
Recorded == Registered(file) \cup UNION {Registered(srcs[i]) : i \in DOMAIN srcs}

\* The messages of p's translation unit that have an ID, and their pairs.
Known(p) == {[key |-> k, id |-> data[p][k].id] :
                k \in {j \in tu[p] : data[p][j].id # INVALID_MSG_ID}}

\* The pairs p's readers have seen: the files before the current one, and the
\* current one up to the reader's position.
SeenHere(p) == {EntryOf(Stream(p)[i]) : i \in 1..pos[p]}
SeenBefore(p) ==
    {e \in Recorded : /\ rdr[p] > 0
                      /\ \/ e \in Registered(file)
                         \/ \E j \in 1..(rdr[p] - 1) : e \in Registered(srcs[j])}

\* The messages of the destination file end where p will write.
Appendable(p) ==
    /\ WritePos(p) <= Len(file)
    /\ Lead(file) = 1..WritePos(p)
    /\ \A i \in (WritePos(p) + 1)..Len(file) : file[i].kind # "msg"

-----------------------------------------------------------------------------

\* From the reopening of the file to its last write, p has the lock.
LockInv(p) == pc[p] \in Critical \cup {"reopen"} => LockDiesOnClose \/ lock = p

\* Only the last steps leave output in the stream's buffer.
FlushInv(p) == dirty[p] => pc[p] \in {"resize", "close"}

\* A compilation starts with nothing.
FreshInv(p) == pc[p] \in {"idle", "open", "lock", "reopen"} =>
    /\ rdr[p] = 0 /\ pos[p] = 0 /\ endPos[p] = -1
    /\ maxId[p] = INVALID_MSG_ID /\ found[p] = {} /\ out[p] = << >>
    /\ \A k \in Keys : data[p][k] = NewData

\* A reader accounts for everything it has passed.
ReadInv(p) == pc[p] \in {"read", "opensrc"} =>
    /\ pos[p] <= Len(Stream(p))
    /\ 1..pos[p] \subseteq Lead(Stream(p))
    /\ rdr[p] = 0 => endPos[p] = IF pos[p] = 0 THEN -1 ELSE pos[p]
    /\ rdr[p] = 0 => found[p] \subseteq {e.id : e \in Known(p)}
    /\ pc[p] = "opensrc" => Lead(Stream(p)) = 1..pos[p]
    /\ rdr[p] > 0 \/ pc[p] = "opensrc" => Appendable(p)
    /\ maxId[p] <= IntMax
    /\ \A e \in SeenHere(p) \cup SeenBefore(p) :
          e.id <= maxId[p] /\ (e.key \in tu[p] => data[p][e.key].id # INVALID_MSG_ID)
    /\ Known(p) \subseteq SeenHere(p) \cup SeenBefore(p)
    /\ \A k \in tu[p] : IF data[p][k].id = INVALID_MSG_ID
                        THEN data[p][k].src = "NEW"
                        ELSE \/ data[p][k].src = "SRC"
                             \/ [key |-> k, id |-> data[p][k].id] \in Registered(file)
    /\ out[p] = << >>

\* The writer's IDs are new, and there are enough of them.
SerializeInv(p) == pc[p] = "serialize" =>
    /\ Appendable(p)
    /\ todo[p] \subseteq tu[p]
    /\ maxId[p] + Cardinality(todo[p]) <= MsgIdMax
    /\ \A e \in Recorded : e.key \in tu[p] => data[p][e.key].id # INVALID_MSG_ID
    /\ \A e \in Recorded \cup Known(p) : e.id <= maxId[p]
    /\ Coherent(Recorded \cup Known(p))
    /\ Lead(out[p]) = 1..Len(out[p])
    /\ Registered(out[p]) \subseteq Known(p)
    /\ \A k \in tu[p] \ todo[p] :
          /\ data[p][k].id # INVALID_MSG_ID
          /\ [key |-> k, id |-> data[p][k].id] \in Registered(file) \cup Registered(out[p])

\* What is written, or waits in the buffer, has every message.
WriteInv(p) == pc[p] \in {"write", "resize", "close"} =>
    /\ \A k \in tu[p] : data[p][k].id # INVALID_MSG_ID
    /\ Coherent(Recorded \cup Known(p))
    /\ Registered(out[p]) \subseteq Known(p)
    /\ Known(p) \subseteq Registered(file) \cup Registered(out[p])
    /\ IF pc[p] = "write" \/ dirty[p]
       THEN Appendable(p)
       ELSE Known(p) \subseteq Registered(file) /\ Lead(file) \subseteq 1..TellP(p)

\* What goes into the object file is in the destination file.
DoneInv(p) == pc[p] \in {"unlock", "emit"} =>
    /\ \A k \in tu[p] : data[p][k].id # INVALID_MSG_ID
    /\ Known(p) \subseteq Registered(file)

ProcInv(p) ==
    /\ LockInv(p)  /\ FlushInv(p)     /\ FreshInv(p) /\ ReadInv(p)
    /\ SerializeInv(p) /\ WriteInv(p) /\ DoneInv(p)

IndInv ==
    /\ Coherent(Recorded)
    /\ issued \subseteq Registered(file)
    /\ \A p \in Procs : ProcInv(p)

-----------------------------------------------------------------------------
(* What a process knows of its own messages, whatever others do to the      *)
(* files meanwhile: the invariant behind the asserts of the code.           *)

\* The messages of the unit that the destination file had.
Old(p) == {k \in tu[p] : data[p][k].src = "DEST"}

\* No two of them have one ID, and what a file had has an ID.
OldInv(p) ==
    /\ \A k \in Keys : data[p][k].id = INVALID_MSG_ID => data[p][k].src = "NEW"
    /\ \A k, l \in Old(p) : data[p][k].id = data[p][l].id => k = l

\* A reader counts what it has found, and all IDs it has seen are ints.
ReadCount(p) == pc[p] \in {"read", "opensrc"} =>
    /\ out[p] = << >> /\ maxId[p] <= IntMax
    /\ rdr[p] = 0 => found[p] = {data[p][k].id : k \in Old(p)}

\* A writer has serialized all but what it has to do, and has IDs enough.
SerializeCount(p) == pc[p] = "serialize" =>
    /\ todo[p] \subseteq ToWrite(p)
    /\ Len(out[p]) + Cardinality(todo[p]) = Cardinality(ToWrite(p))
    /\ maxId[p] + Cardinality(todo[p]) <= MsgIdMax
    /\ \A k \in tu[p] \ todo[p] : data[p][k].id # INVALID_MSG_ID

WriteCount(p) ==
    /\ pc[p] = "write" => Len(out[p]) = Cardinality(ToWrite(p)) + 1
    /\ pc[p] \in {"write", "resize", "close", "unlock", "emit"} =>
          \A k \in tu[p] : data[p][k].id # INVALID_MSG_ID

CountInv(p) == FreshInv(p) /\ OldInv(p) /\ ReadCount(p) /\ SerializeCount(p) /\ WriteCount(p)

-----------------------------------------------------------------------------
(* What keeps the recorded messages where they are, under any fault if      *)
(* there is one process.                                                    *)

Distinct(f) == \A i, j \in Lead(f) : f[i].key = f[j].key => i = j
DistinctStart == \A f \in InitFiles : Distinct(f)

\* Either no two processes run at once, or the lock excludes and no exception
\* makes a process unlock before it flushes.
OneAtATime ==
    \/ \A p, q \in Procs : p = q
    \/ ~LockDiesOnClose /\ "resize" \notin Faults

\* A message of the unit that the file has will not be written.
Covered(p, S) == \A i \in S : file[i].key \in tu[p] =>
    data[p][file[i].key].src = "DEST" /\ data[p][file[i].key].id # INVALID_MSG_ID

\* An exception may leave output in the stream's buffer, too.
BufferInv(p) == dirty[p] => \/ pc[p] \in {"resize", "close"}
                            \/ pc[p] \in {"fail", "dtor"} /\ "resize" \in Faults

ReadStable(p) == pc[p] \in {"read", "opensrc"} =>
    /\ out[p] = << >>
    /\ IF rdr[p] = 0 /\ pc[p] = "read"
       THEN /\ pos[p] <= Len(file) /\ 1..pos[p] \subseteq Lead(file)
            /\ endPos[p] = IF pos[p] = 0 THEN -1 ELSE pos[p]
            /\ Covered(p, 1..pos[p])
            /\ \A k \in tu[p] : data[p][k].id # INVALID_MSG_ID => data[p][k].src = "DEST"
       ELSE Appendable(p) /\ Covered(p, Lead(file))

SerializeStable(p) == pc[p] = "serialize" =>
    /\ Appendable(p) /\ Covered(p, Lead(file))
    /\ todo[p] \subseteq ToWrite(p)
    /\ Lead(out[p]) = 1..Len(out[p]) /\ Distinct(out[p])
    /\ \A i \in Lead(out[p]) : out[p][i].key \in ToWrite(p) \ todo[p]

WriteStable(p) ==
    /\ pc[p] = "write" \/ dirty[p] =>
          /\ Appendable(p) /\ Distinct(out[p])
          /\ \A i \in Lead(file), j \in Lead(out[p]) : file[i].key # out[p][j].key
    /\ pc[p] = "resize" => Lead(file) \subseteq 1..TellP(p)

StableInv(p) ==
    /\ LockInv(p) /\ BufferInv(p) /\ FreshInv(p)
    /\ ReadStable(p) /\ SerializeStable(p) /\ WriteStable(p)

FileInv == Distinct(file) /\ \A p \in Procs : StableInv(p)

-----------------------------------------------------------------------------
(* What keeps the message files readable, without faults.                   *)

\* At first the files are message files with good IDs.
GoodStart ==
    /\ \A f \in InitFiles : WellFormed(f) /\ \A e \in Registered(f) : e.id # INVALID_MSG_ID
    /\ \A i \in DOMAIN SrcFiles : /\ WellFormed(SrcFiles[i])
                                  /\ \A e \in Registered(SrcFiles[i]) : e.id \in 1..IntMax

\* The IDs have run out.
LimitPassed == \E e \in Registered(file) : e.id > IntMax

\* f ends in an array of n - 1 messages.
Closed(f, n) == n \in 1..Len(f) /\ f[n] = End /\ Lead(f) = 1..(n - 1)

OutClosed(p) == pc[p] \in {"write", "resize", "close"} => Closed(out[p], Len(out[p]))

FoundKnown(p) == pc[p] = "read" => found[p] \subseteq {e.id : e \in Known(p)}

CutInv(p) ==
    /\ pc[p] = "resize" /\ ~dirty[p] => Closed(file, TellP(p))
    /\ pc[p] = "close" => IF dirty[p] THEN Len(file) <= TellP(p)
                          ELSE Closed(file, TellP(p)) /\ Len(file) = TellP(p)

LimitInv ==
    /\ srcs = SrcFiles
    /\ \A e \in Registered(file) : e.id # INVALID_MSG_ID
    /\ WellFormed(file) \/ \E p \in Procs : pc[p] \in {"resize", "close"}
    /\ \A p \in Procs : OutClosed(p) /\ FoundKnown(p) /\ CutInv(p)
    /\ FailsOnlyAtLimit

=============================================================================
