------------------------------ MODULE MsgIndex ------------------------------
(***************************************************************************)
(* Compilations assigning IDs to their log messages.                       *)
(*                                                                         *)
(* Every compilation of a translation unit runs MsgIndex::process()        *)
(* (src/logging/msg_index.cpp) in a compiler process of its own.  All of   *)
(* them share one destination message file, which process() reads, extends *)
(* and writes back under a file lock; IDs may also come from source        *)
(* message files, which are read without one.  The IDs end up as constants *)
(* in the object files (LogPass::updateMsgIds).                            *)
(*                                                                         *)
(* Procs are compiler processes that may run at the same time; each runs   *)
(* one compilation after another.  A step is a library call or one message *)
(* object read or serialized.                                              *)
(***************************************************************************)
EXTENDS IndexFile

CONSTANTS
    Procs,
    NoProc,         \* nobody holds the lock
    InitFiles,      \* what the destination file may contain at first
    SrcFiles,       \* the contents of the source message files, a sequence
    LockDiesOnClose,\* closing any descriptor of a file drops the process's lock on it
    Faults,         \* the faults that may occur, a subset of FaultKinds
    MaxRuns         \* bound: compilations started

FaultKinds == {"crash",     \* a compiler process is killed
               "open",      \* a message file cannot be opened
               "diskFull",  \* a write to the destination file is cut short
               "resize",    \* fs::file_size() or fs::resize_file() throws
               "publish"}   \* another project adds a message to a source file

ASSUME NoProcAssumption == NoProc \notin Procs
ASSUME SwitchAssumption == LockDiesOnClose \in BOOLEAN /\ Faults \subseteq FaultKinds
ASSUME MaxRunsAssumption == MaxRuns \in Nat
ASSUME FilesAssumption == /\ InitFiles \subseteq Seq(Block)
                          /\ SrcFiles \in Seq(Seq(Block))

VARIABLES
    file,       \* the destination message file
    srcs,       \* the source message files
    lock,       \* the process holding the file lock
    pc,         \* where each process is in process()
    tu,         \* the keys of msgMap, the messages of the translation unit
    data,       \* the values of msgMap: ID and source of each message
    rdr,        \* the file being read: 0 the destination, i the i-th source
    pos,        \* position of the IndexReader in that file
    found,      \* IndexReader::foundMsgIds_ of that file
    endPos,     \* IndexReader::lastMsgEndPos_ of the destination file
    maxId,      \* the greatest ID read or assigned so far
    todo,       \* the messages IndexWriter has still to visit
    out,        \* newJson: what IndexWriter has serialized
    dirty,      \* destStrm holds out in its buffer, not yet written to disk
    issued,     \* key/ID pairs compiled into object files
    runs        \* compilations still to start

readVars  == <<rdr, pos, found, endPos, maxId>>
writeVars == <<todo, out, dirty>>
localVars == <<tu, data, readVars, writeVars>>
vars == <<file, srcs, lock, pc, localVars, issued, runs>>

Phases == {"idle", "open", "lock", "reopen", "read", "opensrc", "serialize",
           "write", "resize", "close", "unlock", "emit", "fail", "dtor"}

\* Between the reopening of the destination file and its last write.
Critical == {"read", "opensrc", "serialize", "write", "resize", "close"}

MsgSrc == {"NEW", "DEST", "SRC"}
NewData == [id |-> INVALID_MSG_ID, src |-> "NEW"]

-----------------------------------------------------------------------------
(* Helpers.                                                                 *)

Goto(p, phase) == pc' = [pc EXCEPT ![p] = phase]

\* file_lock is fcntl(F_SETLKW) on POSIX systems: the lock belongs to the
\* process and goes with the first of its descriptors for the file to close.
LockAfterClose(p) == IF LockDiesOnClose /\ lock = p THEN NoProc ELSE lock

\* Unlocking, or the end of the process, releases what the process holds.
LockAfterUnlock(p) == IF lock = p THEN NoProc ELSE lock

\* The stream under the current IndexReader and the MsgSrc it gives.
Stream(p) == IF rdr[p] = 0 THEN file ELSE srcs[rdr[p]]
SrcTag(p) == IF rdr[p] = 0 THEN "DEST" ELSE "SRC"

\* Mutant: the reader keeps its first ID instead of the greatest.
KeepFirst(a, b) == IF a = INVALID_MSG_ID THEN b ELSE a

Greater(a, b) == IF b > a THEN b ELSE a

\* ++maxMsgId_ on an unsigned.
NextId(m) == IF m = MsgIdMax THEN 0 ELSE m + 1

\* Mutant: the file is always overwritten, never appended to.
WritePosAtStart(p) == 0

\* seekp(0) if the destination had no message, else seekp(lastMsgEndPos()).
WritePos(p) == IF endPos[p] = -1 THEN 0 ELSE endPos[p]

\* destStrm.tellp() after the write.
TellP(p) == WritePos(p) + Len(out[p])

\* Mutants: the writer's mask is left at 0, or lets only NEW through.
ToWriteAll(p) == tu[p]
ToWriteNew(p) == {k \in tu[p] : data[p][k].src = "NEW"}

\* The messages the writer's mask MsgSrc::NEW | MsgSrc::SRC lets through.
ToWrite(p) == {k \in tu[p] : data[p][k].src \in {"NEW", "SRC"}}

\* The destination file once the stream's buffer is flushed.
Flushed(p) == IF dirty[p] THEN Overlay(file, WritePos(p), out[p]) ELSE file

\* The locals of process() go out of scope.
Forget(p) ==
    /\ tu' = [tu EXCEPT ![p] = {}]
    /\ data' = [data EXCEPT ![p] = [k \in Keys |-> NewData]]
    /\ rdr' = [rdr EXCEPT ![p] = 0]
    /\ pos' = [pos EXCEPT ![p] = 0]
    /\ found' = [found EXCEPT ![p] = {}]
    /\ endPos' = [endPos EXCEPT ![p] = -1]
    /\ maxId' = [maxId EXCEPT ![p] = INVALID_MSG_ID]
    /\ todo' = [todo EXCEPT ![p] = {}]
    /\ out' = [out EXCEPT ![p] = << >>]
    /\ dirty' = [dirty EXCEPT ![p] = FALSE]

Init ==
    /\ file \in InitFiles
    /\ srcs = SrcFiles
    /\ lock = NoProc
    /\ pc = [p \in Procs |-> "idle"]
    /\ tu = [p \in Procs |-> {}]
    /\ data = [p \in Procs |-> [k \in Keys |-> NewData]]
    /\ rdr = [p \in Procs |-> 0]
    /\ pos = [p \in Procs |-> 0]
    /\ found = [p \in Procs |-> {}]
    /\ endPos = [p \in Procs |-> -1]
    /\ maxId = [p \in Procs |-> INVALID_MSG_ID]
    /\ todo = [p \in Procs |-> {}]
    /\ out = [p \in Procs |-> << >>]
    /\ dirty = [p \in Procs |-> FALSE]
    /\ issued = {}
    /\ runs = MaxRuns

-----------------------------------------------------------------------------
(* Opening and locking the destination file.                                *)

\* The pass has collected the messages of a translation unit and calls
\* process(begin, end), which builds msgMap from them.
StartCompile(p) ==
    /\ pc[p] = "idle"
    /\ runs > 0
    /\ runs' = runs - 1
    /\ \E ks \in SUBSET Keys \ {{}} : tu' = [tu EXCEPT ![p] = ks]
    /\ Goto(p, "open")
    /\ UNCHANGED <<file, srcs, lock, data, readVars, writeVars, issued>>

\* open(destFile, app) creates the file if it is missing: an empty document.
OpenDest(p) ==
    /\ pc[p] = "open"
    /\ Goto(p, "lock")
    /\ UNCHANGED <<file, srcs, lock, localVars, issued, runs>>

\* Mutant: a sharable lock.
LockShared(p) ==
    /\ pc[p] = "lock"
    /\ lock' = p
    /\ Goto(p, "reopen")
    /\ UNCHANGED <<file, srcs, localVars, issued, runs>>

LockDest(p) ==
    /\ pc[p] = "lock"
    /\ lock = NoProc
    /\ lock' = p
    /\ Goto(p, "reopen")
    /\ UNCHANGED <<file, srcs, localVars, issued, runs>>

\* Mutant: the guard lives no longer than the opening of the file.
ReopenUnlocked(p) ==
    /\ pc[p] = "reopen"
    /\ lock' = LockAfterUnlock(p)
    /\ Goto(p, "read")
    /\ UNCHANGED <<file, srcs, localVars, issued, runs>>

\* destStrm.close(), then open() for reading and writing.
ReopenDest(p) ==
    /\ pc[p] = "reopen"
    /\ lock' = LockAfterClose(p)
    /\ Goto(p, "read")
    /\ UNCHANGED <<file, srcs, localVars, issued, runs>>

\* One of the three opens fails, or the system refuses the lock: file_lock's
\* constructor, lock() or process() throws.
OpenFails(p) ==
    /\ "open" \in Faults
    /\ pc[p] \in {"open", "lock", "reopen", "opensrc"}
    /\ lock' = IF pc[p] = "reopen" THEN LockAfterClose(p) ELSE lock
    /\ Goto(p, "fail")
    /\ UNCHANGED <<file, srcs, localVars, issued, runs>>

-----------------------------------------------------------------------------
(* Reading: IndexReader, one message object per step.                       *)

AtMsg(p) == pos[p] < Len(Stream(p)) /\ Stream(p)[pos[p] + 1].kind = "msg"

\* Mutant: the messages of other units are compared, too.
AgreesWithAll(p, b) == \/ data[p][b.key].id = INVALID_MSG_ID /\ b.id \notin found[p]
                       \/ data[p][b.key].id = b.id

\* endObject() finds nothing to throw about in message object b: no
\* "Duplicate message ID", no "Conflicting message".
Agrees(p, b) ==
    b.key \in tu[p] => \/ /\ data[p][b.key].id = INVALID_MSG_ID
                          /\ b.id \notin found[p]
                       \/ data[p][b.key].id = b.id

\* Mutant: value() only rejects INVALID_MSG_ID.
NonzeroId(b) == b.id # INVALID_MSG_ID

\* value() has accepted the ID: neither negative nor INVALID_MSG_ID.
GoodId(b) == b.id > 0

ReadObject(p) ==
    /\ pc[p] = "read"
    /\ AtMsg(p)
    /\ LET b == Stream(p)[pos[p] + 1]
       IN  /\ GoodId(b)
           /\ Agrees(p, b)
           /\ IF b.key \in tu[p] /\ data[p][b.key].id = INVALID_MSG_ID
              THEN /\ data' = [data EXCEPT ![p][b.key] = [id |-> b.id, src |-> SrcTag(p)]]
                   /\ found' = [found EXCEPT ![p] = @ \cup {b.id}]
              ELSE UNCHANGED <<data, found>>
           /\ maxId' = [maxId EXCEPT ![p] = Greater(@, b.id)]
    /\ pos' = [pos EXCEPT ![p] = @ + 1]
    /\ endPos' = IF rdr[p] = 0 THEN [endPos EXCEPT ![p] = pos[p] + 1] ELSE endPos
    /\ UNCHANGED <<file, srcs, lock, pc, tu, rdr, writeVars, issued, runs>>

\* The document ends where a document may end.
AtEnd(p) ==
    \/ Stream(p) = << >> /\ pos[p] = 0
    \/ /\ pos[p] < Len(Stream(p))
       /\ Stream(p)[pos[p] + 1] = End
       /\ TailOK(Stream(p), pos[p] + 1)

\* Mutant: the early return is taken after a source file too.
FoundHere(p) == Cardinality(found[p]) = Cardinality(tu[p])

\* process() returns early when the destination file had every message, goes
\* on to the next source file, or starts to serialize.
AllFound(p) == rdr[p] = 0 /\ Cardinality(found[p]) = Cardinality(tu[p])

ReadEnd(p) ==
    /\ pc[p] = "read"
    /\ AtEnd(p)
    /\ \/ AllFound(p) /\ Goto(p, "unlock") /\ UNCHANGED todo
       \/ ~AllFound(p) /\ rdr[p] < Len(srcs) /\ Goto(p, "opensrc") /\ UNCHANGED todo
       \/ /\ ~AllFound(p) /\ rdr[p] = Len(srcs)
          /\ Goto(p, "serialize")
          /\ todo' = [todo EXCEPT ![p] = ToWrite(p)]
    /\ UNCHANGED <<file, srcs, lock, tu, data, readVars, out, dirty, issued, runs>>

\* The parser, value() or endObject() throws.
ReadThrows(p) ==
    /\ pc[p] = "read"
    /\ ~AtEnd(p)
    /\ AtMsg(p) => LET b == Stream(p)[pos[p] + 1] IN ~GoodId(b) \/ ~Agrees(p, b)
    /\ Goto(p, "fail")
    /\ UNCHANGED <<file, srcs, lock, localVars, issued, runs>>

\* Mutant: the loop over the source files does not advance.
OpenSrcAgain(p) ==
    /\ pc[p] = "opensrc"
    /\ pos' = [pos EXCEPT ![p] = 0]
    /\ found' = [found EXCEPT ![p] = {}]
    /\ Goto(p, "read")
    /\ UNCHANGED <<file, srcs, lock, tu, data, rdr, endPos, maxId, writeVars, issued, runs>>

\* A new IndexReader on the next source file, opened without a lock.
OpenSrc(p) ==
    /\ pc[p] = "opensrc"
    /\ rdr' = [rdr EXCEPT ![p] = @ + 1]
    /\ pos' = [pos EXCEPT ![p] = 0]
    /\ found' = [found EXCEPT ![p] = {}]
    /\ Goto(p, "read")
    /\ UNCHANGED <<file, srcs, lock, tu, data, endPos, maxId, writeVars, issued, runs>>

-----------------------------------------------------------------------------
(* Writing.                                                                 *)

\* IndexWriter::serialize() visits the messages in the order of an unordered
\* map and gives those without an ID the next one.
SerializeMsg(p) ==
    /\ pc[p] = "serialize"
    /\ \E k \in todo[p] :
          LET isNew == data[p][k].id = INVALID_MSG_ID
              id == IF isNew THEN NextId(maxId[p]) ELSE data[p][k].id
          IN  /\ data' = [data EXCEPT ![p][k] = [id |-> id, src |-> @.src]]
              /\ maxId' = IF isNew THEN [maxId EXCEPT ![p] = id] ELSE maxId
              /\ out' = [out EXCEPT ![p] = Append(@, Msg(k, ToInt(id)))]
              /\ todo' = [todo EXCEPT ![p] = @ \ {k}]
    /\ UNCHANGED <<file, srcs, lock, pc, tu, rdr, pos, found, endPos, dirty, issued, runs>>

SerializeEnd(p) ==
    /\ pc[p] = "serialize"
    /\ todo[p] = {}
    /\ out' = [out EXCEPT ![p] = Append(@, End)]
    /\ Goto(p, "write")
    /\ UNCHANGED <<file, srcs, lock, tu, data, readVars, todo, dirty, issued, runs>>

\* destStrm.write(): short output stays in the stream's buffer, long output
\* goes to the file at once.
WriteDest(p) ==
    /\ pc[p] = "write"
    /\ \/ dirty' = [dirty EXCEPT ![p] = TRUE] /\ UNCHANGED file
       \/ file' = Overlay(file, WritePos(p), out[p]) /\ UNCHANGED dirty
    /\ Goto(p, "resize")
    /\ UNCHANGED <<srcs, lock, tu, data, readVars, todo, out, issued, runs>>

\* The file system takes part of a long write: badbit, so write() throws.
WriteThrows(p) ==
    /\ "diskFull" \in Faults
    /\ pc[p] = "write"
    /\ \E w \in Partial(out[p]) : file' = Overlay(file, WritePos(p), w)
    /\ Goto(p, "fail")
    /\ UNCHANGED <<srcs, lock, localVars, issued, runs>>

\* Whatever the file has beyond the write position is cut off.
ResizeDest(p) ==
    /\ pc[p] = "resize"
    /\ file' = Truncated(file, TellP(p))
    /\ Goto(p, "close")
    /\ UNCHANGED <<srcs, lock, localVars, issued, runs>>

ResizeThrows(p) ==
    /\ "resize" \in Faults
    /\ pc[p] = "resize"
    /\ Goto(p, "fail")
    /\ UNCHANGED <<file, srcs, lock, localVars, issued, runs>>

\* destStrm.close() flushes the buffer.  A flush cut short by a full disk sets
\* failbit, for which exceptions() is not enabled: process() goes on.
CloseDest(p) ==
    /\ pc[p] = "close"
    /\ \/ file' = Flushed(p)
       \/ /\ "diskFull" \in Faults /\ dirty[p]
          /\ \E w \in Partial(out[p]) : file' = Overlay(file, WritePos(p), w)
    /\ lock' = LockAfterClose(p)
    /\ dirty' = [dirty EXCEPT ![p] = FALSE]
    /\ Goto(p, "unlock")
    /\ UNCHANGED <<srcs, tu, data, readVars, todo, out, issued, runs>>

\* ~lock_guard on return.
Unlock(p) ==
    /\ pc[p] = "unlock"
    /\ lock' = LockAfterUnlock(p)
    /\ Goto(p, "emit")
    /\ UNCHANGED <<file, srcs, localVars, issued, runs>>

\* The messages and then the logging statements get their IDs, and the
\* compiler writes the object file.
Emit(p) ==
    /\ pc[p] = "emit"
    /\ issued' = issued \cup {[key |-> k, id |-> data[p][k].id] : k \in tu[p]}
    /\ Forget(p)
    /\ Goto(p, "idle")
    /\ UNCHANGED <<file, srcs, lock, runs>>

-----------------------------------------------------------------------------
(* Failing.                                                                 *)

\* An exception leaves process(): ~lock_guard runs first, as the guard was
\* declared after destStrm.
Unwind(p) ==
    /\ pc[p] = "fail"
    /\ lock' = LockAfterUnlock(p)
    /\ Goto(p, "dtor")
    /\ UNCHANGED <<file, srcs, localVars, issued, runs>>

\* ~fstream then flushes what is left; LogPass::execute() reports the error
\* and no object file is written.
CloseUnwound(p) ==
    /\ pc[p] = "dtor"
    /\ file' = Flushed(p)
    /\ Forget(p)
    /\ Goto(p, "idle")
    /\ UNCHANGED <<srcs, lock, issued, runs>>

\* The compiler process is killed; a write under way may be cut short.
Crash(p) ==
    /\ "crash" \in Faults
    /\ pc[p] # "idle"
    /\ \/ UNCHANGED file
       \/ /\ pc[p] = "write" \/ (pc[p] \in {"close", "dtor"} /\ dirty[p])
          /\ \E w \in Partial(out[p]) : file' = Overlay(file, WritePos(p), w)
    /\ lock' = LockAfterUnlock(p)
    /\ Forget(p)
    /\ Goto(p, "idle")
    /\ UNCHANGED <<srcs, issued, runs>>

-----------------------------------------------------------------------------
(* The environment.                                                         *)

\* Another project, whose destination file is one of our source files,
\* compiles message k for the first time.
Publish(i, k) ==
    /\ "publish" \in Faults
    /\ WellFormed(srcs[i])
    /\ \A e \in Registered(srcs[i]) : e.key # k
    /\ \E top \in 0..(IntMax - 1) :
          /\ \A e \in Registered(srcs[i]) : e.id <= top
          /\ top = 0 \/ \E e \in Registered(srcs[i]) : e.id = top
          /\ srcs' = [srcs EXCEPT ![i] =
                SubSeq(@, 1, Cardinality(Lead(@))) \o << Msg(k, top + 1), End >>]
    /\ UNCHANGED <<file, lock, pc, localVars, issued, runs>>

\* Every compilation of the build is over.
BuildDone ==
    /\ runs = 0
    /\ \A p \in Procs : pc[p] = "idle"
    /\ UNCHANGED vars

Step(p) ==
    \/ OpenDest(p) \/ LockDest(p) \/ ReopenDest(p) \/ OpenFails(p)
    \/ ReadObject(p) \/ ReadEnd(p) \/ ReadThrows(p) \/ OpenSrc(p)
    \/ SerializeMsg(p) \/ SerializeEnd(p)
    \/ WriteDest(p) \/ WriteThrows(p) \/ ResizeDest(p) \/ ResizeThrows(p)
    \/ CloseDest(p) \/ Unlock(p) \/ Emit(p) \/ Unwind(p) \/ CloseUnwound(p)

Next ==
    \/ \E p \in Procs : StartCompile(p) \/ Step(p) \/ Crash(p)
    \/ \E i \in DOMAIN srcs, k \in Keys : Publish(i, k)
    \/ BuildDone

Spec == Init /\ [][Next]_vars

\* A compiler process that is not blocked keeps running; nothing makes the
\* build start another compilation or a process die.
Fairness == \A p \in Procs : WF_vars(Step(p))
FairSpec == Spec /\ Fairness

-----------------------------------------------------------------------------
(* Properties.                                                              *)

\* The type invariant.
TypeOK ==
    /\ file \in Seq(Block)
    /\ srcs \in Seq(Seq(Block)) /\ Len(srcs) = Len(SrcFiles)
    /\ lock \in Procs \cup {NoProc}
    /\ pc \in [Procs -> Phases]
    /\ tu \in [Procs -> SUBSET Keys]
    /\ data \in [Procs -> [Keys -> [id : MsgId, src : MsgSrc]]]
    /\ rdr \in [Procs -> 0..Len(SrcFiles)]
    /\ pos \in [Procs -> Nat]
    /\ found \in [Procs -> SUBSET MsgId]
    /\ endPos \in [Procs -> Nat \cup {-1}]
    /\ maxId \in [Procs -> MsgId]
    /\ todo \in [Procs -> SUBSET Keys]
    /\ out \in [Procs -> Seq(Block)]
    /\ dirty \in [Procs -> BOOLEAN]
    /\ issued \subseteq [key : Keys, id : MsgId]
    /\ runs \in Nat

\* No ID stands for two different messages in the object files of the build,
\* whichever compilations overlapped and whichever were killed.  The code says
\* so where it throws "Duplicate message ID" (msg_index.cpp:110).
IssuedUnique == \A a, b \in issued : a.id = b.id => a.key = b.key

\* Every ID that went into an object file is recorded in the destination file
\* for that message, also while the file is being rewritten or is left broken
\* by a killed compiler: a later compilation can only reuse it.
IssuedDurable == issued \subseteq Registered(file)

\* The asserts of msg_index.cpp:113 (a message without an ID is NEW),
\* msg_index.cpp:371 (every message is either found in the destination file or
\* written) and msg_index.h:133 (every message has an ID when process() ends).
AssertsHold ==
    \A p \in Procs :
        /\ \A k \in tu[p] : data[p][k].id = INVALID_MSG_ID => data[p][k].src = "NEW"
        /\ pc[p] = "write" =>
              LET old == {k \in tu[p] : data[p][k].src = "DEST"}
              IN  Len(out[p]) - 1 + Cardinality({data[p][k].id : k \in old})
                      = Cardinality(tu[p])
        /\ pc[p] = "emit" => \A k \in tu[p] : data[p][k].id # INVALID_MSG_ID

\* At most one compilation is between reading the destination file and writing
\* it back.
OneWriter ==
    \A p, q \in Procs : pc[p] \in Critical /\ pc[q] \in Critical => p = q

\* "Flush stream before releasing the file lock" (msg_index.cpp:385): the file
\* changes only by a step of the process that holds the lock.
WritesUnderLock ==
    [][file' # file => \E p \in Procs : lock = p /\ pc'[p] # pc[p]]_vars

\* A message recorded in the destination file keeps its place and its ID,
\* whatever goes wrong while later compilations read and extend the file.
EntriesStable ==
    [][\A i \in Lead(file) : i \in Lead(file') /\ file'[i] = file[i]]_vars

\* The destination file never holds a message twice (msg_index.cpp:117 would
\* make every compilation that needs it fail with "Conflicting message").
FileKeysUnique ==
    \A i, j \in Lead(file) : file[i].key = file[j].key => i = j

\* Without faults a compilation fails only once the IDs are used up: an
\* earlier one went past INT_MAX, and the file has a negative ID ever since.
FailsOnlyAtLimit ==
    \A p \in Procs : pc[p] = "fail" => \E e \in Registered(file) : e.id > IntMax

\* The message files disagree about the messages ks: one of them has two IDs,
\* or one file has two of them under one ID.
Records == {Registered(file)} \cup {Registered(srcs[i]) : i \in DOMAIN srcs}
Disagree(ks) ==
    \E R, S \in Records : \E a \in R, b \in S :
        /\ {a.key, b.key} \subseteq ks
        /\ \/ a.key = b.key /\ a.id # b.id
           \/ R = S /\ a.id = b.id /\ a.key # b.key

\* A compilation refuses a whole message file only because the message files
\* disagree (msg_index.cpp:110 and 117) about its own messages, or IDs have gone
\* past INT_MAX: what other units or projects registered for theirs never stops
\* it, also when source files grow while a build goes on.
RefusesOnlyConflicts ==
    [][\A p \in Procs :
          pc[p] = "read" /\ pc'[p] = "fail" /\ WellFormed(Stream(p)) =>
              (\E e \in Registered(file) : e.id > IntMax) \/ Disagree(tu[p])]_vars

\* A compilation that has started comes to an end, also while others hold the
\* lock, and when they leave process() by an exception.
CompilationsEnd == \A p \in Procs : pc[p] # "idle" ~> pc[p] = "idle"

\* The compilations together are one registry of IDs: what the destination
\* file records, and what object files were compiled with.
Registry == INSTANCE IdRegistry WITH
                Entry <- [key : Keys, id : MsgId],
                reg <- Registered(file)

ImplementsRegistry == Registry!Spec

=============================================================================
