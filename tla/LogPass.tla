------------------------------ MODULE LogPass ------------------------------
(***************************************************************************)
(* One compilation as the plugin sees it (src/plugin.cpp,                  *)
(* src/plugin/plugin_base.cpp, src/logging/log_pass.cpp): GCC loads the    *)
(* plugin, calls its callbacks while it parses the translation unit, runs  *)
(* the logging pass over the calls of the unit and writes an object file,  *)
(* unless an error was reported.  MsgIndex::process() is one step here,    *)
(* the registry of IDs it keeps is IdRegistry.                             *)
(***************************************************************************)
EXTENDS LogFunc

CONSTANTS
    Keys,       \* the messages: what MsgIndex::MsgKey tells apart
    Programs,   \* the compilations: command line, declarations and calls
    MaxId       \* bound: the IDs in use

ASSUME MaxIdAssumption == MaxId \in Nat /\ IsFiniteSet(Keys) /\ Cardinality(Keys) <= MaxId

INVALID_MSG_ID == 0
Id == 0..MaxId

\* What processStmt() tells apart in an argument of a call: the address of a
\* string constant, empty or not, the address of a variable, or something else.
Arg == {"string", "empty", "variable", "other"}

\* What the parsers make of the format string and the comment of a call.
Shape == {"good",
          "badFormat",      \* FmtParser throws: a warning and an early return
          "dupAttr",        \* AttrParser throws ParsingError: a warning
          "bigId"}          \* AttrParser throws bad_lexical_cast

\* A call, the message of its format string (by its text alone, and with the
\* hint and the help ID of its comment) and the ID its comment asks for.
Call == [fn : Funcs, args : Seq(Arg), shape : Shape, text : Keys, key : Keys, wanted : Id]

\* percent: file names or attribute arguments have a '%' in them.
Option == [key : STRING, value : [type : {"NONE", "STRING"}, num : {0}, str : STRING]]
Program == [options : Seq(Option), decls : Seq(Decl), complete : BOOLEAN, struct : Structs,
            calls : Seq(Call), percent : BOOLEAN]

\* GCC has a declaration of every function it sees a call of, and no function
\* has more parameters than an int counts.
ASSUME ProgramsAssumption ==
    /\ Programs \subseteq Program
    /\ \A p \in Programs :
          /\ \A i \in DOMAIN p.calls : \E j \in DOMAIN p.decls : p.decls[j].fn = p.calls[i].fn
          /\ \A j \in DOMAIN p.decls : Len(p.decls[j].params) <= IntMax

VARIABLES
    phase,      \* what the compiler is doing
    errors,     \* an error has been reported
    macro,      \* PARTICLE_GCC_PLUGIN: "none", "pending" in macros_, or "defined"
    attribute,  \* the particle attribute: "none", "pending" in attrSpecs_, or "known"
    hasIndex,   \* msgIndex_ is set
    prog,       \* what is compiled
    seen,       \* the declarations parsed so far
    logFuncs,   \* logFuncs_: what the pass knows about declarations, by UID
    next,       \* the call the pass is at
    stmts,      \* for each call its arguments and the assignments before it
    msgList,    \* the messages collected: call, key and ID
    registry,   \* the pairs the message index has registered
    issued      \* the pairs in the object file

plugin == <<macro, attribute, hasIndex>>
funcs == <<seen, logFuncs>>
pass == <<next, stmts, msgList>>
index == <<registry, issued>>
vars == <<phase, errors, plugin, prog, funcs, pass, index>>

unit == prog.calls

Phases == {"load", "parse", "pass", "emit", "object", "failed", "aborted"}

\* Positions of arguments count from 1, the plugin's indexes from 0.
Assign == [variable : Nat, field : Seq(Nat), value : Nat]
Stmt == [args : Seq(Arg \cup {"specs"}), assigns : Seq(Assign)]
Untouched(i) == [args |-> unit[i].args, assigns |-> << >>]

\* logFuncs_ has no entry, an empty one, or one whose fields are known or not.
FuncStatus == {"none", "null", "declared", "resolved"}
NoFunc == [fmtArgIndex |-> 0, attrArgIndex |-> 0]

Pair == [key : Keys, id : 1..MaxId]
Coherent(S) == \A a, b \in S : a.key = b.key <=> a.id = b.id

Init ==
    /\ phase = "load" /\ errors = FALSE
    /\ macro = "none" /\ attribute = "none" /\ hasIndex = FALSE
    /\ prog \in Programs
    /\ seen = 0 /\ logFuncs = [i \in DOMAIN prog.decls |-> [status |-> "none", fn |-> NoFunc]]
    /\ next = 1 /\ stmts = [i \in DOMAIN unit |-> Untouched(i)] /\ msgList = << >>
    /\ registry \in {R \in SUBSET Pair : Coherent(R)} /\ issued = {}

-----------------------------------------------------------------------------
(* Errors.                                                                  *)

\* Mutant: the exception is caught and nobody hears of it.
Swallow(after, quoted) == phase' = after /\ UNCHANGED errors

\* A catch block reports an error.  The message is used as a format string,
\* which throws out of the catch block, through the frames of the compiler,
\* when it quotes a text with a '%' in it.
Report(after, quoted) ==
    \/ phase' = after /\ errors' = TRUE
    \/ quoted /\ prog.percent /\ phase' = "aborted" /\ UNCHANGED errors

-----------------------------------------------------------------------------
(* The plugin and its callbacks.                                            *)

\* parsePluginArgs(): of two arguments with one name the later counts.
PluginArg(k) ==
    LET P == {i \in DOMAIN prog.options : prog.options[i].key = k}
    IN  IF P = {} THEN None ELSE prog.options[CHOOSE i \in P : \A j \in P : j <= i].value

\* LogPass has an index if the plugin has a dest-msg-file argument.
MakePass == hasIndex' = (toString(PluginArg("dest-msg-file")) # "")

\* plugin_init(): the compiler is of the right version.  Plugin::init() defines
\* the macro, registers the attribute, creates the pass and registers it; then
\* come the callbacks.
Load ==
    /\ phase = "load"
    /\ macro' = "pending" /\ attribute' = "pending"
    /\ MakePass
    /\ phase' = "parse"
    /\ UNCHANGED <<errors, prog, funcs, pass, index>>

\* The wrong version.
LoadFails ==
    /\ phase = "load"
    /\ Report("emit", FALSE)
    /\ UNCHANGED <<plugin, prog, funcs, pass, index>>

StartUnit ==
    /\ phase = "parse" /\ macro = "pending"
    /\ macro' = "defined"
    /\ UNCHANGED <<phase, errors, attribute, hasIndex, prog, funcs, pass, index>>

RegisterAttrs ==
    /\ phase = "parse" /\ attribute = "pending"
    /\ attribute' = "known"
    /\ UNCHANGED <<phase, errors, macro, hasIndex, prog, funcs, pass, index>>

\* The next declaration, in code that sees the macro.  Until GCC has merged it
\* with an earlier one of its function it is a node with a UID of its own.
Parsing == phase = "parse" /\ macro = "defined" /\ attribute = "known"
Uid == seen + 1
AtDecl == Parsing /\ Uid \in DOMAIN prog.decls /\ seen' = Uid
D == prog.decls[Uid]
AttrSeen == AtDecl /\ D.attributed /\ Len(D.args) >= MinArgCount

PlainDecl ==
    /\ AtDecl /\ ~D.attributed
    /\ UNCHANGED <<phase, errors, plugin, prog, logFuncs, pass, index>>

\* GCC itself counts the arguments.
NoArgs ==
    /\ AtDecl /\ D.attributed /\ Len(D.args) < MinArgCount
    /\ errors' = TRUE
    /\ UNCHANGED <<phase, plugin, prog, logFuncs, pass, index>>

\* logFuncs_[DECL_UID(t)]
Recorded(status, f) == [logFuncs EXCEPT ![Uid] = [status |-> status, fn |-> f]]

Declare ==
    /\ AttrSeen
    /\ \E i \in FmtArgIndexes(D) :
          /\ i >= 0 /\ ~NamelessStruct(D.params, i) /\ GoodSignature(D.params, i)
          /\ logFuncs' = Recorded("declared", makeLogFunc(D.params, i))
    /\ UNCHANGED <<phase, errors, plugin, prog, pass, index>>

\* An argument is not a constant, not known, or not what log_function needs.
BadAttribute ==
    /\ AttrSeen
    /\ \E i \in FmtArgIndexes(D) : i < 0
    /\ Report(phase, QuotesArg(D))
    /\ UNCHANGED <<plugin, prog, logFuncs, pass, index>>

\* makeLogFunc() throws.  Operands of = are evaluated in either order: a new
\* entry of logFuncs_ may be left with no declaration in it.
BadSignature ==
    /\ AttrSeen
    /\ \E i \in FmtArgIndexes(D) :
          i >= 0 /\ ~NamelessStruct(D.params, i) /\ ~GoodSignature(D.params, i)
    /\ Report(phase, FALSE)
    /\ logFuncs' \in {logFuncs, Recorded("null", NoFunc)}
    /\ UNCHANGED <<plugin, prog, pass, index>>

NullTypeName ==
    /\ AttrSeen
    /\ \E i \in FmtArgIndexes(D) : i >= 0 /\ NamelessStruct(D.params, i)
    /\ phase' = "aborted"
    /\ UNCHANGED <<errors, plugin, prog, logFuncs, pass, index>>

-----------------------------------------------------------------------------
(* The pass.                                                                *)

Gate == hasIndex /\ \E i \in DOMAIN logFuncs : logFuncs[i].status # "none"

\* GCC compiles what it has parsed without errors, and runs the pass first.
EndParse ==
    /\ Parsing /\ seen = Len(prog.decls)
    /\ phase' = IF ~errors /\ Gate THEN "pass" ELSE "emit"
    /\ UNCHANGED <<errors, plugin, prog, funcs, pass, index>>

\* A call has the declaration GCC keeps: the first of its function.
First(f) == Least({i \in DOMAIN prog.decls : prog.decls[i].fn = f})

\* processStmt() at the next call.
AtCall == phase = "pass" /\ next \in DOMAIN unit
C == unit[next]
Callee == First(C.fn)
LogCall == AtCall /\ logFuncs[Callee].status # "none"
F == logFuncs[Callee].fn

\* Mutant: the statements inserted before a call are skipped after it.
SkipNext == next' = next + 2

NextCall == next' = next + 1

OtherCall ==
    /\ AtCall /\ logFuncs[Callee].status = "none"
    /\ NextCall
    /\ UNCHANGED <<phase, errors, plugin, prog, funcs, stmts, msgList, index>>

IdField == findFieldDecl(prog.struct, "id")
HasIdField == findFieldDecl(prog.struct, "has_id")

\* Both fields are there, so that initAttrDecls() finds them.
FieldsFound == prog.complete /\ IdField # << >> /\ HasIdField # << >>

\* initAttrDecls() throws, or follows the null pointer of an empty entry.
NoFields ==
    /\ LogCall
    /\ \/ logFuncs[Callee].status = "declared" /\ ~FieldsFound /\ Report("emit", FALSE)
       \/ logFuncs[Callee].status = "null" /\ phase' = "aborted" /\ UNCHANGED errors
    /\ UNCHANGED <<plugin, prog, funcs, pass, index>>

\* initAttrDecls() has found the fields of LogAttributes, now or before.
Resolved ==
    /\ LogCall
    /\ \/ logFuncs[Callee].status = "declared" /\ FieldsFound
       \/ logFuncs[Callee].status = "resolved"
Resolve == logFuncs' = [logFuncs EXCEPT ![Callee].status = "resolved"] /\ UNCHANGED seen

\* The arguments are there, and are what a message needs.
Loggable ==
    /\ F.fmtArgIndex < Len(C.args) /\ F.attrArgIndex < Len(C.args)
    /\ C.args[F.fmtArgIndex + 1] = "string"
    /\ C.args[F.attrArgIndex + 1] = "variable"

\* The call is rewritten, also after a warning about its comment.
Rewritten(c) == Loggable /\ c.shape \in {"good", "dupAttr"}

\* An early return of processStmt(), for some of them with a warning.
SkipCall ==
    /\ Resolved
    /\ ~Loggable \/ C.shape = "badFormat"
    /\ Resolve /\ NextCall
    /\ UNCHANGED <<phase, errors, plugin, prog, stmts, msgList, index>>

\* The number of an @id is too long for MsgId.
HugeId ==
    /\ Resolved /\ Loggable /\ C.shape = "bigId"
    /\ Resolve
    /\ Report("emit", FALSE)
    /\ UNCHANGED <<plugin, prog, pass, index>>

\* The message, with the attributes of a comment that is in order.
KeyOf(c) == IF c.shape = "good" THEN c.key ELSE c.text
msgId(c) == IF c.shape = "good" THEN c.wanted ELSE INVALID_MSG_ID

\* The format string gives way to its specs, and two assignments to fields of
\* the variable are inserted, the one of the ID with a placeholder.
Rewrite(c) ==
    LET Set(field, v) == [variable |-> F.attrArgIndex + 1, field |-> field, value |-> v]
    IN  [args |-> [c.args EXCEPT ![F.fmtArgIndex + 1] = "specs"],
         assigns |-> << Set(IdField, INVALID_MSG_ID), Set(HasIdField, 1) >>]

RewriteCall ==
    /\ Resolved /\ Rewritten(C)
    /\ stmts' = [stmts EXCEPT ![next] = Rewrite(C)]
    /\ msgList' = Append(msgList, [call |-> next, key |-> KeyOf(C), id |-> msgId(C)])
    /\ Resolve /\ NextCall
    /\ UNCHANGED <<phase, errors, plugin, prog, index>>

-----------------------------------------------------------------------------
(* updateMsgIds().                                                          *)

AllCalls == phase = "pass" /\ next = Len(unit) + 1
Collected == {msgList[i].key : i \in DOMAIN msgList}

NothingLogged ==
    /\ AllCalls /\ msgList = << >>
    /\ phase' = "emit"
    /\ UNCHANGED <<errors, plugin, prog, funcs, pass, index>>

\* Mutant: a message keeps the ID its comment asks for.
WantedFirst(m, ids) == IF m.id # INVALID_MSG_ID THEN m.id ELSE ids[m.key]

\* The ID of a message after process(): the one of its key in msgMap.
IdAfter(m, ids) == ids[m.key]

\* MsgIndex::process() registers what has been collected.
Register(ids) ==
    /\ registry' = registry \cup {[key |-> k, id |-> ids[k]] : k \in Collected}
    /\ Coherent(registry')

\* process() has registered every message, and the placeholders get the IDs.
AssignIds ==
    /\ AllCalls /\ msgList # << >>
    /\ \E ids \in [Collected -> 1..MaxId] :
          /\ Register(ids)
          /\ msgList' = [i \in DOMAIN msgList |-> [msgList[i] EXCEPT !.id = IdAfter(msgList[i], ids)]]
    /\ stmts' = [i \in DOMAIN stmts |->
                    IF \E n \in DOMAIN msgList : msgList[n].call = i
                    THEN LET n == CHOOSE m \in DOMAIN msgList : msgList[m].call = i
                         IN  [stmts[i] EXCEPT !.assigns[1].value = msgList'[n].id]
                    ELSE stmts[i]]
    /\ phase' = "emit"
    /\ UNCHANGED <<errors, plugin, prog, funcs, next, issued>>

\* process() throws, before or after it has written the message file.
IndexFails ==
    /\ AllCalls /\ msgList # << >>
    /\ Report("emit", TRUE)
    /\ \/ UNCHANGED registry
       \/ \E ids \in [Collected -> 1..MaxId] : Register(ids)
    /\ UNCHANGED <<plugin, prog, funcs, pass, issued>>

\* GCC goes on to write the object file, or ends with an error.
Emit ==
    /\ phase = "emit"
    /\ \/ /\ ~errors /\ phase' = "object"
          /\ issued' = {[key |-> KeyOf(unit[i]), id |-> stmts[i].assigns[1].value] :
                            i \in {j \in DOMAIN stmts : stmts[j].assigns # << >>}}
       \/ errors /\ phase' = "failed" /\ UNCHANGED issued
    /\ UNCHANGED <<errors, plugin, prog, funcs, pass, registry>>

Over == phase \in {"object", "failed", "aborted"} /\ UNCHANGED vars

\* Compilers of other units register their messages.
OtherCompiler ==
    /\ phase \notin {"object", "failed", "aborted"}
    /\ \E p \in Pair \ registry : registry' = registry \cup {p}
    /\ Coherent(registry')
    /\ UNCHANGED <<phase, errors, plugin, prog, funcs, pass, issued>>

Next ==
    \/ Load \/ LoadFails \/ StartUnit \/ RegisterAttrs
    \/ PlainDecl \/ NoArgs \/ Declare \/ BadAttribute \/ BadSignature \/ NullTypeName
    \/ EndParse \/ OtherCall \/ NoFields \/ SkipCall \/ HugeId \/ RewriteCall
    \/ NothingLogged \/ AssignIds \/ IndexFails
    \/ Emit \/ OtherCompiler \/ Over

Spec == Init /\ [][Next]_vars

-----------------------------------------------------------------------------
(* What a programmer means by the attribute.                                *)

\* The number of the format argument, counted from 1, as it is written.
Number(t) == IF t.code = "STRING_CST" THEN Spelled[t.str] ELSE t.num
Numeric(t) == \/ t.code \in {"INTEGER_CST", "REAL_CST"}
              \/ t.code = "STRING_CST" /\ t.str \in DOMAIN Spelled

\* No number is out of the range of an int (log_pass.cpp takes 2^32 + 1 for 1).
FitsInt(d) == \A n \in DOMAIN d.args : Numeric(d.args[n]) => Number(d.args[n]) \in IntMin..IntMax
InRange == \A i \in DOMAIN prog.decls : FitsInt(prog.decls[i])

\* The function takes one of the types there and LogAttributes* elsewhere, once.
Others(ps, n) == {j \in DOMAIN ps : ps[j] = "LogAttributes*" /\ j # n}
Declared(d, types) ==
    /\ d.node = "FUNCTION_DECL" /\ Len(d.args) = 2
    /\ d.args[1] = Text("log_function") /\ Numeric(d.args[2])
    /\ LET n == Number(d.args[2])
       IN  /\ n \in DOMAIN d.params /\ d.params[n] \in types
           /\ \E j \in DOMAIN d.params : Others(d.params, n) = {j}

\* The attribute is right, or all that is wrong is that the format argument is
\* a char that could be written to, or no pointer, which isConstCharPtr() takes
\* against its name (tree.cpp:125-130).
WellDeclared(d) == Declared(d, {"const_char*"})
CharInstead(d) == Declared(d, {"char*", "char&"})
Compiled(d) == WellDeclared(d) \/ CharInstead(d)

\* The ways to a member of that name, which C++ tells apart by base classes.
Members(struct, n) ==
    LET M[fs \in Structs] ==
            UNION {IF fs[i].name = n THEN {<< i >>}
                   ELSE IF fs[i].name = "" THEN {<< i >> \o p : p \in M[fs[i].fields]} ELSE {} :
                   i \in DOMAIN fs}
    IN  M[struct]

FieldsDeclared == prog.complete /\ \A n \in {"id", "has_id"} : Members(prog.struct, n) # {}

\* Call i logs a message: its function is compiled as a logging function from
\* its first declaration on, and its arguments and format string are in order.
LogsMessage(i) ==
    LET d == prog.decls[First(unit[i].fn)]
        n == Number(d.args[2])
        as == unit[i].args
    IN  /\ d.attributed /\ Compiled(d)
        /\ n \in DOMAIN as /\ as[n] = "string"
        /\ \E j \in Others(d.params, n) : j \in DOMAIN as /\ as[j] = "variable"
        /\ unit[i].shape \in {"good", "dupAttr"}

\* Call i with the argument the attribute names replaced, and a valid ID and
\* the flag assigned to members of the variable it passes.
Logged(i, stmt) ==
    LET d == prog.decls[First(unit[i].fn)]
        n == Number(d.args[2])
    IN  /\ stmt.args = [unit[i].args EXCEPT ![n] = "specs"]
        /\ \E j \in Others(d.params, n), p \in Members(prog.struct, "id"),
              q \in Members(prog.struct, "has_id"), id \in 1..MaxId :
              stmt.assigns = << [variable |-> j, field |-> p, value |-> id],
                                [variable |-> j, field |-> q, value |-> 1] >>

-----------------------------------------------------------------------------
(* Properties.                                                              *)

\* The type invariant: calls before the current one alone have been rewritten.
TypeOK ==
    /\ phase \in Phases /\ errors \in BOOLEAN
    /\ macro \in {"none", "pending", "defined"}
    /\ attribute \in {"none", "pending", "known"} /\ hasIndex \in BOOLEAN
    /\ prog \in Program
    /\ seen \in 0..Len(prog.decls)
    /\ logFuncs \in [DOMAIN prog.decls ->
                        [status : FuncStatus, fn : [fmtArgIndex : Nat, attrArgIndex : Nat]]]
    /\ next \in 1..(Len(unit) + 1)
    /\ stmts \in [DOMAIN unit -> Stmt]
    /\ msgList \in Seq([call : 1..(next - 1), key : Keys, id : Id])
    /\ registry \subseteq Pair /\ issued \subseteq [key : Keys, id : Id]

\* In an object file compiled with an index, every message logged through a
\* logging function has been replaced by its format specs, in the argument the
\* attribute names, and its LogAttributes variable gets an ID that is set
\* (log_pass.cpp:268 asserts it is valid); no other call has been touched.  A
\* pass that an exception cut short leaves no half-rewritten object behind.
AllMessagesLogged ==
    phase = "object" /\ hasIndex /\ InRange =>
        \A i \in DOMAIN unit : IF LogsMessage(i) THEN Logged(i, stmts[i])
                               ELSE stmts[i] = Untouched(i)

\* A misused attribute never gets into an object file unnoticed, whatever it is
\* applied to and whatever its arguments are ("This attribute can be applied
\* only to function declarations", "Invalid number of attribute arguments",
\* "Invalid index of the format string argument", log_pass.cpp:143-150), on any
\* declaration of a unit.  There are two exceptions, in both of which the code
\* compiles what it says it refuses: a char argument that is not a const char*
\* ("Format argument is not a `const char*` string", log_pass.cpp:308), and an
\* argument whose number does not fit an int and is cut (tree.cpp:90).
MisuseReported ==
    phase = "object" =>
        \A i \in DOMAIN prog.decls :
            LET d == prog.decls[i]
            IN  d.attributed /\ FitsInt(d) => WellDeclared(d) \/ CharInstead(d)

\* And nothing else is an error: a unit whose attributes, struct and comments
\* are in order, or have some other char for a format argument, is compiled,
\* unless the plugin cannot be loaded or the message
\* file cannot be processed.  In particular struct LogAttributes may stay
\* incomplete in a unit that logs nothing (log_pass.cpp:312).
OnlyMisuseFails ==
    errors => \/ macro = "none"
              \/ next > Len(unit) /\ msgList # << >>
              \/ \E i \in DOMAIN prog.decls : prog.decls[i].attributed /\ ~Compiled(prog.decls[i])
              \/ ~FieldsDeclared /\ \E i \in DOMAIN unit : prog.decls[First(unit[i].fn)].attributed
              \/ \E i \in DOMAIN unit : unit[i].shape = "bigId"

\* Whatever is wrong with the unit or the message file is reported as an error
\* of the compilation ("Produces fatal compiler error", plugin_base.h:56); in
\* particular nobody follows an entry without a declaration.  The compiler only
\* aborts in the middle of a callback when an error quotes a '%' of the user,
\* or when a parameter points to a struct without a name.
OtherwiseNoAborts ==
    phase = "aborted" =>
        \/ prog.percent
        \/ \E i \in DOMAIN prog.decls : \E j \in DOMAIN prog.decls[i].params :
              prog.decls[i].attributed /\ prog.decls[i].params[j] = "unnamed*"

\* An object file is only compiled with pairs of message and ID that the message
\* index has registered, whatever IDs the comments ask for.
Registry == INSTANCE IdRegistry WITH Entry <- Pair, reg <- registry

ImplementsRegistry == Registry!Spec

=============================================================================
