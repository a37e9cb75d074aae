# Verification of the Particle GCC plugin

The plugin takes the texts of log messages out of a program. While GCC compiles a translation unit, a pass finds the
calls of logging functions, replaces each format string by its conversion specifications, and sets the ID of the
message in the call's `LogAttributes`. IDs come from a *destination message file* that all compilations of a build
share; a JSON array of message objects. A device that logs an ID can only be understood if that ID names one message,
for ever, in that file. This directory has TLA+ models of the plugin, TLC runs that check them on small instances and
proofs of the most important results for every instance.

Paths are relative to the repository: `src/logging/msg_index.cpp` is its file of that name.

## The system

| Part | Source | State | Operations | Model |
|---|---|---|---|---|
| Message index | `logging/msg_index.*` | `MsgDataMap`, the destination file, its lock, source files | `MsgIndex::process()` | `MsgIndex`, `IndexFile`, `IdRegistry` |
| Message file reader | `logging/msg_index.cpp:60-257`, `util/json.cpp:42-146` | `state_`, `level_`, `attrs_`, `foundMsgIds_`, `lastMsgEndPos_`, `maxMsgId_` | `beginObject()` ... `value()`, `parse()` | `IndexReader`, `MsgDocument` |
| Message file writer | `logging/msg_index.cpp:45-56,259-308`, `util/json.cpp:148-205` | `maxMsgId_`, output | `serialize()`, `appendJsonIndex()` | in `MsgIndex`, as text in `RoundTrip` |
| Attribute parser | `logging/attr_parser.*` | position in the source file, lines found, attributes | `parse()` | `AttrParser` |
| Format parser | `logging/fmt_parser.*` | position, specs | `parse()` | `FmtParser` |
| Log pass | `logging/log_pass.*` | `logFuncs_`, list of messages, the statements | `attrHandler()`, `gate()`, `execute()` | `LogFunc`, `LogPass` |
| Plugin, callbacks | `plugin.cpp`, `plugin/plugin_base.*` | macros, attributes, arguments | `init()`, `startUnit()`, `registerAttrs()`, `attrHandler()` | `LogFunc`, `LogPass` |
| Variant, GCC wrappers | `util/variant.*`, `plugin/tree.*` | none | constants and their conversions, types | `Variant`, `LogFunc`; `ToInt` in the index |
| Strings, errors | `util/string.h`, `error.h` | none | `boost::format`, `fromStr()` | where they change a result: `Report`, `toInt`, `TooBig` |
| Descriptions, build files | `plugin/attr_spec.h`, `pass_reg_info.h`, ... | none | setters | but for `MinArgCount` not modelled |

How they interact. GCC loads the plugin and calls its callbacks in one thread: the macro is defined at the start of
the unit, the attribute is registered, and each declaration with `__attribute__((particle(log_function, n)))` enters a
function in `logFuncs_`. After parsing, GCC asks `gate()` and runs `execute()`, which visits the calls, runs the two
parsers on each logging call, rewrites it, and then hands all messages to `MsgIndex::process()`. That reads the
destination file, and if it lacks a message the source files as well, gives new IDs, and writes the file back.
Compilers of a parallel build meet in the destination file only.

What is hard about it, and what should hold:

* *Concurrency.* Compilers read, extend and rewrite one file under a lock. No two may give an ID to different messages
  (`IssuedUnique`), only one may be between reading and writing (`OneWriter`), and only the lock's holder may write
  (`WritesUnderLock`).
* *Crashes and failing calls.* A killed compiler, a full disk, a file that cannot be opened or cut: what is compiled
  into an object file must be on record (`IssuedDurable`), what is on record stays (`EntriesStable`).
* *Exceptions.* Destructors run in an order, some errors are not exceptions, error reports can throw.
* *Attributes.* Which function logs, which argument is the format string and which members of which variable get the ID
  depends on constants, types and declarations the programmer writes in any order; a misuse must be an error
  (`MisuseReported`), and nothing else (`OnlyMisuseFails`).
* *Parsing.* A state machine driven by parser events, a backward scan over source lines, and a greedy scan of format
  strings, each with a definition of what it should find.
* *Numbers.* IDs are unsigned but travel through an `int`; JSON integers may have 64 bits.

## The modules

| Module | What it is |
|---|---|
| `IdRegistry` | what the index promises: a set of (message, ID) pairs that only grows and stays one-to-one, from which object files take theirs |
| `IndexFile` | message files as sequences of blocks (a message object, the closing bracket, a remark, a torn end): what a reader makes of one, and writing into it, over its end and cutting it |
| `MsgIndex` | any number of compiler processes running `process()`, a step for each library call and each message read or serialized, with faults |
| `MsgIndexInv` | its inductive invariants |
| `MsgIndexProofs` | lemmas on files, and the type invariant |
| `MsgIndexSafety`, `MsgIndexFaults` | the safety theorems: of many compilers, and of one under any fault |
| `MsgDocument` | a JSON document as a sequence of parser events, and what it means as a message file |
| `IndexReader` | the handler of these events, whose `Next` runs along a `MsgDocument` |
| `IndexReaderProofs` | proofs about the reader, for documents of any length |
| `RoundTrip` | the text of a destination file: read, written over or behind, and read again; `IndexReader` driven by lexemes |
| `RoundTripProofs` | that what is written is read back, for files and units of any size |
| `AttrParser`, `FmtParser` | the two parsers, step by step, and the grammars they are compared with |
| `AttrParserProofs`, `FmtParserProofs` | that they find what the grammars say |
| `Variant` | constants of the compiler's tree, what becomes of them as a `Variant`, and what its users get |
| `LogFunc` | how a declaration with the attribute becomes a logging function, and the search for a field; extends `Variant` |
| `LogPass` | one compilation: callbacks, the pass, errors, the object file; `process()` is one step on an `IdRegistry`; extends `LogFunc` |
| `LogPassProofs` | the field search of `LogFunc` on structs of any depth, and the theorems about `LogPass` |
| `MC...` | the instances TLC checks |

### MsgIndex and the code

Each process has a program counter and the locals of `process()`: `tu` and `data` are the keys and values of `msgMap`;
`rdr`, `pos`, `found`, `endPos`, `maxId` are the `IndexReader` at work; `todo` and `out` the `IndexWriter`; `dirty`
says whether `destStrm` still holds the output in its buffer. `file` is what is on disk.

| Action | Code (`msg_index.cpp`) |
|---|---|
| `StartCompile` | `msg_index.h:114-130`: a map from the messages of the unit |
| `OpenDest`, `LockDest`, `ReopenDest` | 329-331, 333-334, 336-340; closing a descriptor may release the lock (`LockDiesOnClose`) |
| `ReadObject`, `ReadEnd`, `ReadThrows` | one message object, the end of the document with the early return of 344, and every exception of a reader |
| `OpenSrc` | 349-358, without a lock |
| `SerializeMsg`, `SerializeEnd` | 271-292, messages in any order as in an `unordered_map` |
| `WriteDest`, `ResizeDest`, `CloseDest`, `Unlock` | 373-380, 381-383, 384-385, the guard of 334 |
| `Emit` | `msg_index.h:131-138` and the object file |
| `OpenFails` | 331-340, 354-357: one of the three opens fails, or the system refuses the lock |
| `WriteThrows`, `ResizeThrows`, `Unwind`, `CloseUnwound` | exceptions: the guard's destructor, then the stream's |
| `Crash`, `Publish` | a process is killed; another project adds a message to a source file |

JSON text is abstracted to blocks: comments and white space are "remarks", and a torn block is what a write cut short
leaves. An ID is an unsigned modulo `2 * (IntMax + 1)` and is written as an int (`ToInt`), as `Variant(unsigned)` does.

### IndexReader and the code

An event of the document is one action with the handler `HandlerAdapter` calls for it. The document keeps what it has
said so far and whether it is a message file; the reader has its own members and never looks at those, so that the
properties compare the two. `Ints` are the integers documents contain: all within 32 bits in `reader`, one beyond in
`reader_int64`.

### RoundTrip and the code

A text is a sequence of lexemes: brackets, commas, names, values and comments. `Read` takes one lexeme and runs the
action of `IndexReader` for its event; `Grammatical` says where RapidJSON accepts it, `ReadError` is everything else.
When the reader is done and a message is missing, `SerializeMsg` writes one object (`msg_index.cpp:271-291`) through
`JsonWriter`, and `WriteFile` puts the array over the file (`Overwrites`) or joins it to the last message (`Appended`),
at the lexeme that `lastMsgEndPos()` stands for (`Position`). `KilledWriting` is a compiler that dies on the way: some
of the new text, perhaps a part of a lexeme or all of the last one (`Pieces`), then what is left of the old. Then a
fresh reader reads the result. The document that `MsgDocument` keeps along the way is what the properties compare.

### LogPass and the code

A program is a command line, a sequence of declarations, the struct `LogAttributes` and a sequence of calls. `Load`,
`StartUnit`, `RegisterAttrs` are the callbacks of the plugin; `Declare`, `BadAttribute`, `BadSignature`, `NullTypeName`,
`NoArgs` are what becomes of a declaration with the attribute. `LogFunc` has the way there: `FmtArgIndexes` follows the
arguments through `PluginBase`, `Plugin` and `LogPass::attrHandler()`, `GoodSignature` and `AttrArgs` are
`makeLogFunc()`, `findFieldDecl` is the search of that name. `OtherCall`, `SkipCall`, `NoFields`, `HugeId` and
`RewriteCall` are `processStmt()` at one call; `AssignIds`, `NothingLogged` and `IndexFails` are `updateMsgIds()`.
`Report` is a catch block that calls `error()`. What the two parsers make of the call's format string and comment is the
call's `shape`, an input. `OtherCompiler` is what the rest of a build does to the registry meanwhile.

The properties do not use these operators. `WellDeclared` says which declarations are right, by the words of the
errors: the number names a `const char*`, and `LogAttributes*` is elsewhere, once. `CharInstead` is the one misuse that
the code compiles against its words, another char in that place. `Members` and `LogsMessage` say what a programmer means
by a struct and a call.

### AttrParser, FmtParser and the code

`AttrParser` walks rows of tokens, one action for each branch of the loop of `attr_parser.cpp:56-103`, then extracts
the parameters. Its reference, `Comment`, reads the source forwards as a compiler does. `FmtParser` has an action for
each turn of the loop of `fmt_parser.cpp:57-110`; its reference, `Readings`, is the set of all ways to read a string by
the grammar of `printf()`.

## The runs

| Run | Instance | Shows |
|---|---|---|
| `parallel` | two processes, three messages, three compilations, killed processes and failing opens, a lock that survives closing | `IssuedUnique`, `IssuedDurable`, `AssertsHold`, `OneWriter`, `WritesUnderLock`; `MsgIndex` implements `IdRegistry` |
| `serial_faults` | one process on a POSIX lock, three compilations, every fault | `FileKeysUnique`, `EntriesStable`: no message is recorded twice, and recorded ones keep place and ID; `RefusesOnlyConflicts`: a whole file is refused only where message files disagree about messages of the unit, or an ID has passed `INT_MAX` |
| `faultless` | two processes, three compilations, IDs up to `INT_MAX` = 3, no faults, fair | `TypeOK`; `CompilationsEnd`; `FailsOnlyAtLimit`: a compilation fails only when an ID has passed `INT_MAX` |
| `reader` | documents of up to 18 events, nested as deep as they allow, two strings, five integers | `AcceptsMessages`, `ReadsRight`, `ThrowsOnlyAtErrors` |
| `round_trip` | 7443 texts: lists of up to two messages with comments and nested members, one with all three, and every text of up to four lexemes; a unit of three messages | `ReadsBack`: the next compilation reads what one has written, and gets the same IDs; `KeepsEntries`: old messages stay; `TornFileSafe`: what a killed writer leaves is no message file, or has the old messages and some new ones under their IDs |
| `fmt` | all strings of up to 6 of 9 characters | `FindsSpecs`, `ThrowsOnlyAtBadFormat` |
| `attr` | 68015 sources: all of 3 lines of 2 tokens, 4 lines of comments, 2 lines of 4 tokens; all comments of up to 4 entries, with IDs, hints, help IDs and words like `@hinting` and `@helper` next to each other | `FindsCleanComment`; `AttrsRight`: the message gets what the comment gives, and loses it only to an entry given twice, a longer word counted in, or a number too long |
| `log_pass` | 2932 programs, each with every registry, that vary one thing each: the attribute's arguments, the parameters, the order of declarations, the struct, two calls, or the options | `AllMessagesLogged`, `MisuseReported`, `OnlyMisuseFails`, `OtherwiseNoAborts`; IDs in object files are registered (`ImplementsRegistry`) |

Runs that end in a violation, each a disagreement of the code with what it says (`findings` in `PROJECT.json`):

| Run | Disagreement |
|---|---|
| `posix_race` | `close()` at `msg_index.cpp:336` drops the `fcntl` lock taken two lines before; two compilers then give one ID to two messages |
| `unwind_flush` | when `file_size()` or `resize_file()` throws, the guard unlocks before the stream's destructor writes |
| `disk_full` | the flush in `close()` sets failbit, for which exceptions are off: IDs are compiled that were not recorded |
| `reader_int64` | 64-bit integers have no handler: the message object is dropped silently |

More limits of the code are conditions or exceptions of properties instead. The first four are wrong in the code, too:

* *Nested delimiters.* A `/*` in the text of a block comment ends the backward scan (`attr_parser.cpp:59`), and the
  parameters above it are lost, though the code means to "extract the comments block" (`attr_parser.cpp:49`).
  `FindsCleanComment` is about comments without comment delimiters in their text (`Clean`).
* *Longer words.* `@hinting` is taken for a hint and `@helper` for a help ID (`attr_parser.cpp:110-111`). Next to a real
  one such a word is a "duplicate", and the message loses all attributes of its comment, its ID as well. `AttrsRight`
  says what does hold: a longer word is never taken for an ID, and for a hint or a help ID only where the comment gives
  none; and all is lost only if there are two entries, real or longer words, for one parameter, or a number is too long.
* *Misuse that is not reported.* A format parameter that is a `char*` or a `char&` is compiled, though the error asks
  for a `const char*` (`tree.cpp:125-130`, `log_pass.cpp:308`); and `constVal()` cuts the number of the format argument
  to an int before it is checked (`tree.cpp:90`), so that 4294967297 is compiled as 1. These are the two exceptions of
  `MisuseReported`, which says that no other misuse is compiled. `OnlyMisuseFails` and `AllMessagesLogged` count
  functions with some other char among those that are compiled: what their calls log is rewritten right.
* *Aborts.* `error(e.what())` uses a finished message as a format string (`plugin_base.cpp:159`, `log_pass.cpp:121`), so
  that a `%` in a text of the user throws out of the callback instead of producing an error; and in C, a parameter that
  points to a struct without a name makes `typeName()` follow a null pointer (`tree.cpp:122`), also in a declaration
  that is right otherwise. `OtherwiseNoAborts` says that the compiler aborts nowhere else.
* `AllMessagesLogged` is about units whose attribute arguments fit an int (`InRange`). A logging function is one from
  its first declaration on: an attribute that only a redeclaration has is recorded under the UID of a node that GCC
  gives up. That GCC does so is an assumption (`First`), which no property tests.
* `IssuedUnique` is about source files that stay as they are and agree with the destination file at first: an ID a
  source file brings later may belong to another message of the destination file, as the check behind "Duplicate
  message ID" (`msg_index.cpp:108`) only compares the IDs of one file. With source files that grow, a compilation may
  also refuse a file, as a message may get one ID from the destination file and another one in a source file;
  `RefusesOnlyConflicts` says that a whole file is refused for no other reason, and only for messages of the unit.
* `ReadsBack` is about IDs that fit an int. A file with integers beyond 32 bits (`reader_int64`) is outside
  `round_trip`. `TornFileSafe` takes a remark as one lexeme: that a cut string or a write into a remark exposes what the
  remark says is left out.

### Bounds

`MaxRuns` bounds compilations. A compilation sees only the files, so what matters is which files one can leave for the
next: three compilations let a message be recorded, another one be added by a compiler that dies, and a third meet the
result; two processes suffice for every race over one lock. The initial destination files are an empty file, an empty
list with a remark behind it, and a list with one message, with and without a remark, so that the writer appends to a
list, starts one, and overwrites a longer tail. There is one source file, with a message under an ID that leaves a gap,
and in `serial_faults` another project adds messages to it. It may give out an ID that the destination file has for
another message, so that the third compilation meets a file with one ID for two. Three messages allow one known to the
destination, one known to the source and one new. `IntMax` = 3 is the smallest width at which IDs run out after a good
compilation; 12 in the run with `Publish`, which picks an ID among all, is more than they can use up. `MaxEvents` = 18
is a document with two complete messages, or one with a member nested three deep; 5 is an integer that fits an unsigned
but no int where `IntMax` = 2. Six characters hold a spec with a flag or width, a precision and a length, or two short
specs. Four lines let a comment have lines above, in and below it. Two calls show what one call does to the next, three
declarations what a redeclaration and one of another function do, and three parameters a format argument, an attributes
argument and one more of either kind. Structs nest three deep. With an int of 3 bits, the indexes -4 and 40 are
`INT_MIN` and a number that no `int64_t` holds, and 10 is one that is cut to 2. A comment of four entries can give three
parameters and one of them twice. In `round_trip` an int has 4 bits and the file IDs up to 5, so that three new messages
may pass `INT_MAX` or not; `MaxEvents` = 60 is more than any text has, and the comments stand in every kind of gap.

Deadlock is checked except where the modelled algorithm ends: in the readers, `RoundTrip` and the parsers. In
`MsgIndex` and `LogPass` the end of the build has a stuttering action (`BuildDone`, `Over`), so every other state must
have a step.

### Fairness

`FairSpec` asks for weak fairness of the steps of each process, that is, that the operating system goes on running a
compiler that can run. The step that takes the lock is disabled while another holds it and becomes continuously enabled
when nobody does; a bounded number of compilations makes weak fairness enough. The start of compilations is not fair. No
other run assumes fairness. Holders give the lock back when they return and, once IDs have run out, when they leave by
an exception. Kills are not among the faults of that run: `Crash` releases the lock as the kernel does, so that a killed
holder keeps nobody waiting.

## The proofs

The theorems hold for any number of processes, messages, source files and compilations, and any width of an ID.

* `TypeCorrect` (`MsgIndexProofs`): `Spec => []TypeOK`, from `TypeInv`, which adds what the steps need of locals.
* `Invariance` (`MsgIndexSafety`): `IndInv` holds in every reachable state. It rests on three named assumptions, each as
  weak as the runs that end in a violation allow: `Exclusive` (either the lock survives the closing of a descriptor, or
  there is only one process), `Benign` (nothing fails between the first write and the last flush: only kills and failing
  opens) and `CoherentStart` (the message files agree with one another at first).
* From it `Mutex` (`OneWriter`), `Uniqueness` (`IssuedUnique`), `Durability` (`IssuedDurable`), `Refinement`
  (`ImplementsRegistry`), and, if the lock survives closing, `WriterHoldsLock` (`WritesUnderLock`).

Why an inductive invariant: that the pairs in object files are one-to-one says nothing of a process that is about to
choose an ID. `IndInv` says of each phase what the process knows. While it reads (`ReadInv`), it has accounted for all
messages up to its position and its `maxId` bounds their IDs. While it serializes (`SerializeInv`), all recorded IDs
are at most `maxId` and those it has given are above them, so that the pairs on file and its own are coherent
together, and the IDs left suffice. When it has written (`WriteInv`, `DoneInv`), all it knows is on file or in its
buffer and will be written behind the last message. The proof of a step has one lemma for each action
(`ReadObjectStep`, `SerializeMsgStep`, ...), and `Frame` shows that a step of one process cannot disturb what another
knows, as only the holder of the lock changes the file. `MsgIndexProofs` begins with what is used of files: writing
behind the messages of a file (`OverlayRegistered`), a write cut short (`PartialRegistered`) and cutting a tail
(`TruncatedRegistered`) lose no message.

`MsgIndexFaults` has what `IndInv` does not say, with three more invariants (`MsgIndexInv`):

* `Asserts` (`AssertsHold`) needs no assumption at all: no lock, no number of processes, no absence of faults. The
  asserts of the code compare what a process has counted with what it has in its own map, and nobody else writes that.
  `CountInv` follows the counts from the reader (`ReadCount`) through the writer (`SerializeCount`, `WriteCount`).
* `KeysUnique` (`FileKeysUnique`) and `Stability` (`EntriesStable`) hold under any fault if compilations run one at a
  time, and among many compilers if the lock survives closing and `resize_file()` does not throw (`OneAtATime`), and if
  the file has no message twice at first (`DistinctStart`). `FileInv` says where the output may go in each phase and
  that it has none of the messages of the file, and (`BufferInv`) when there may be output in the stream's buffer: an
  exception leaves some there until a destructor writes it.
* `FailsAtLimit` (`FailsOnlyAtLimit`) is about systems without faults whose files are readable at first (`GoodStart`).
  `LimitInv` says that the destination file is a message file whenever somebody may open it, and that the array on its
  way to the disk is closed (`CutInv`), so that a reader that fails has met an ID beyond `INT_MAX`.

`IndexReaderProofs` has the reader, for documents of any length and depth, any units and any IDs known before, as long
as integers fit 32 bits (`InRange`; `reader_int64` shows why it is needed): `ReaderTypes` (`TypeOK`), `Acceptance`
(`AcceptsMessages`), `Rejection` (`ThrowsOnlyAtErrors`) and `ResultsRight` (`ReadsRight`), all from `KeepsStep`. Its
inductive invariant `ReaderInv` says that while the document is a message file the reader's `state` is a function of the
depth and of the member whose value is due (`StateAt`), that `attrs` is what the current object has said, and that the
results are those of the objects passed. The handlers never see the document, so the invariant has to relate the two
after every event; a handler that throws must have met something that makes the document invalid, or a message that
clashes with an earlier one (`RefusedClashes`), and the message it takes must not (`NewMessage`).

The result joins the two models: `MsgIndex` takes a message file one message at a time (`ReadObject`), which is what
`ResultsRight` says the handlers make of a whole file.

`RoundTripProofs` has the text of the file, for any texts and any units. Besides `InRange` it assumes, by assumptions
`RoundTrip` names, that every int the plugin writes is one the reader's model knows (`WrittenAssumption`), and that a
unit has no more messages than there are ints from 0 on (`MsgsAssumption`); with more, `++maxMsgId_` would wrap around
to an ID in use. No ID is known before, as the plugin reads the destination first (`NothingKnown`). What has to be
compared are two readings of texts that are alike in parts. So the proof makes the document a function of the text:
`Doc` is the state of the document, `After` its next state, and a trace is the sequence of these states along a text.
Texts that begin alike have traces that begin alike (`TraceUnique`), and traces join where texts do (`TraceJoin`). The
invariant `TripInv` (`TripKeeps`) says for each phase what is known of them:

* While the file is read first, the document is the last state of its trace, and nothing but comments and the end of
  the array is behind the last message once the array may close (`ReadSoFar`). So the writer finds the place behind the
  last message at a lexeme after which the document waits for a comma or the end (`WritePosIs`).
* While messages are serialized, there is a trace of the old text up to that place and on through the output
  (`WritingInv`): it ends in a list that waits for more, its messages are the old ones and those serialized, once each,
  and it is still a message file as long as the IDs fit an int (`TextIs`). One more object takes that state to the next
  (`ObjectTrace`).
* Reading again follows that trace to its end, and fails only at an ID beyond `INT_MAX` (`AgainInv`).
* A torn file has such a trace up to the cut. What is behind it are comments, closing brackets and what was cut in two,
  none of which makes a message (`TornInv`, `ShutKept`).

From it `TripTypes` (`TripTypeOK`), `FileReadsBack` (`ReadsBack`), `FileGrows` (`KeepsEntries`) and `TornFileHolds`
(`TornFileSafe`). `TripInv` says that traces exist, which TLC could not search for; it checks the four properties.

`LogPassProofs` has the pass, for any program, registry and width of an int. What it assumes of programs is in `LogPass`
and `LogFunc`: GCC has a declaration for every call, no function has more parameters than an int counts
(`ProgramsAssumption`), and no struct contains itself (`StructsAssumption`). `Invariant` says what the pass knows of the
declarations it has seen (`ParseInv`), and that the calls rewritten are those of the messages collected, one each
(`PassInv`). From it `Types` (`TypeOK`), `Implements` (`ImplementsRegistry`), `Misuse` (`MisuseReported`), `NoAborts`
(`OtherwiseNoAborts`), and with a reason for every error (`FailInv`) `OnlyMisuse` (`OnlyMisuseFails`). `Messages`
(`AllMessagesLogged`) needs to know what the calls before the current one look like (`MarkInv`): the specs in place of
the text and the ID in both members, or nothing changed. It rests on `FieldSearch`:
`findFieldDecl` finds a member of that name if and only if there is one, at any depth of anonymous structs.

`FmtParserProofs` has the format parser, for strings of any length. `ParserInv` says that the ways to read the string
are the specs found, followed by a way to read what is left. It is inductive because the grammar leaves no choice where
the parser is greedy: at most one spec starts at a '%' (`Scan`, `Types`, `Finding`, `Throwing`). Format strings are C
strings, without a NUL (`FormatsAssumption`).

`AttrParserProofs` has the attribute parser, for sources of any length. The parser reads backwards and the reference
forwards, so that the invariant of each mode says where a compiler would be at the current row: nothing but empty rows
behind it (`SeekInv`), inside the block comment in front of the statement (`MultiInv`), or in the run of whole-line
comments (`SingleInv`), in each case with what the parser has collected. Where a row has no start of a comment and is
inside one, so is the end of the row before (`BlockBefore`), which is why the scan never leaves the top of the file in a
block comment. Of these follow `Types` (`TypeOK`), `Finding` (`FindsCleanComment`) and `Attributes` (`AttrsRight`),
which relates what the expressions match to the entries that are parameters and those that only start like one.

Induction over data. The provers cannot instantiate a theorem with an operator as its parameter, and so no theorem on
recursive definitions. `ReadingsFrom`, `RowStart`, `ModesFrom`, `WholeLines` and `findFieldDecl` are recursive
functions; what they satisfy is proved by hand. First a function with these values exists (`RecursionExists`), then what
holds of it everywhere does because there is no first place where it does not (`FirstOf`).

Only model-checked: `CompilationsEnd`, as liveness is out of the reach of the prover, and `RefusesOnlyConflicts`, whose
invariant would have to follow the IDs a process has read through files that change under it. Every other property of a
run that passes is a theorem.

## Not modelled

* White space, escapes and encodings of JSON, and RapidJSON itself: which texts it accepts is `Grammatical`. The
  position of the last message assumes a parser that consumes what it has parsed and no more, as version 1.1.0 does.
* The regular expressions of the attribute parser beyond what its tokens tell apart.
* GCC: its trees and statements are what `Program` says of them, that it merges redeclarations (`First`) and counts
  arguments (`NoArgs`) is taken from its documented behaviour. The field search of a C++ struct with base classes,
  whose members are fields without a name, differs from C++'s rules; structs in `log_pass` have none.
* Warnings do not fail a compilation here; with `-Werror` they do.
* `toBool()`, `toDouble()`, the setters of `AttrSpec` and `PassRegInfo`, locations, debug output and the build files:
  no state, and no result a property could tell apart.

## The plan

In this order; the first ten are done.

1. `IndexFile`, `MsgIndex` and `IdRegistry`, their runs, the type theorem and the safety theorems: the most important
   behaviour of the plugin.
2. `MsgDocument` and `IndexReader`: that one step "read a message object" of `MsgIndex` is what the handler does.
3. `FmtParser` and `AttrParser`: what decides that two messages are the same.
4. `LogPass`: that nothing but complete rewriting reaches an object file.
5. `Variant` and `LogFunc`: the search for the fields of `LogAttributes` and for the arguments of a logging function
   against a definition of where they are, and the conversions on the way.
6. `RoundTrip`: that what is written as text is read back.
7. Proofs about `LogPass` and the field search for any program.
8. Proofs about `MsgIndex` under any fault for compilations that run one at a time, about its asserts for many, and of
   `FailsOnlyAtLimit` without faults.
9. Proofs that the two parsers find what the grammars say, in texts of any length.
10. Proofs about `RoundTrip` for files and units of any size.
11. A composition of `LogPass` with `MsgIndex` in which several compilers run the pass. Both implement `IdRegistry`, the
    one as its user and the other as its keeper, which is what joins them now.
