------------------------------ MODULE LogFunc ------------------------------
(***************************************************************************)
(* How a declaration becomes a logging function: the particle attribute    *)
(* goes from PluginBase::attrHandler() (src/plugin/plugin_base.cpp) to     *)
(* Plugin::attrHandler() (src/plugin.cpp) to LogPass::attrHandler(), which *)
(* describes the function by makeLogFunc() (src/logging/log_pass.cpp); and *)
(* how the members of struct LogAttributes are looked up.                  *)
(***************************************************************************)
EXTENDS Variant, Sequences, FiniteSets

CONSTANTS
    Funcs,      \* the functions of the translation unit
    Structs     \* the structs and unions there are: sequences of fields

\* Of a parameter's type the plugin sees whether it points or refers to a char,
\* constant or not, and whether it points to a struct of that name or, in C, of
\* no name.
ParamType == {"const_char*", "char*", "char&", "LogAttributes*", "LogAttributes&", "unnamed*",
              "other"}
Decl == [fn : Funcs, node : {"FUNCTION_DECL", "OTHER"}, attributed : BOOLEAN,
         args : Seq(Tree), params : Seq(ParamType)]

\* A field without a name may be an anonymous struct or union.
Field(n) == [name |-> n, fields |-> << >>]
Anonymous(fs) == [name |-> "", fields |-> fs]

\* The anonymous structs and unions in a struct; none contains itself.
Inside(struct) == {struct[i].fields : i \in {j \in DOMAIN struct : struct[j].name = ""}}

ASSUME StructsAssumption ==
    /\ Structs \subseteq Seq([name : STRING, fields : Structs \cup {<< >>}])
    /\ \A s \in Structs : Inside(s) \subseteq Structs
    /\ \A T \in SUBSET Structs : T # {} => \E s \in T : Inside(s) \cap T = {}

-----------------------------------------------------------------------------
(* The attribute.                                                           *)

\* AttrSpec: one argument at least, and any number of them.
MinArgCount == 1

ConstantArgs(d) == \A i \in DOMAIN d.args : ~constThrows(d.args[i])
Dispatch(d) == toString(constVal(d.args[1]))

\* The error quotes the argument.
QuotesArg(d) == ConstantArgs(d) /\ Dispatch(d) # "log_function"

\* Mutant: the index stays 1-based.
OneBased(n) == {n}

\* toInt() - 1, which overflows at INT_MIN: to INT_MAX, or to what no
\* comparison takes for a number.
ZeroBased(n) == IF n = IntMin THEN {-1, IntMax} ELSE {n - 1}

\* The indexes LogPass::attrHandler() may get from the arguments, -1 among them
\* if it or a handler before it throws.
FmtArgIndexes(d) ==
    IF /\ ConstantArgs(d) /\ Dispatch(d) = "log_function"
       /\ d.node = "FUNCTION_DECL" /\ Len(d.args) = 2
       /\ toInt(constVal(d.args[2])) # {}
    THEN UNION {ZeroBased(n) : n \in toInt(constVal(d.args[2]))}
    ELSE {-1}

-----------------------------------------------------------------------------
(* makeLogFunc() with the 0-based index i of the format argument.           *)

AttrArgs(ps, i) == {j \in DOMAIN ps : j # i + 1 /\ ps[j] = "LogAttributes*"}

\* typeName() follows a null pointer, unless the loop has ended before.
NamelessStruct(ps, i) ==
    \E j \in DOMAIN ps : /\ j # i + 1 /\ ps[j] = "unnamed*"
                         /\ Cardinality({k \in AttrArgs(ps, i) : k < j}) <= 1

\* Mutant: any pointer will do.
isPointer(type) == type # "other"

\* Despite its name it takes a reference for a pointer, and never looks for
\* the const.
isConstCharPtr(type) == type \in {"const_char*", "char*", "char&"}

\* Behind the last parameter there is one of type void, or nothing.
GoodSignature(ps, i) ==
    /\ i + 1 \in DOMAIN ps /\ isConstCharPtr(ps[i + 1])
    /\ Cardinality(AttrArgs(ps, i)) = 1

makeLogFunc(ps, i) ==
    [fmtArgIndex |-> i, attrArgIndex |-> (CHOOSE j \in AttrArgs(ps, i) : TRUE) - 1]

-----------------------------------------------------------------------------
(* The fields of struct LogAttributes.                                      *)

Least(S) == CHOOSE i \in S : \A j \in S : i <= j

\* Mutant: fields of anonymous members are not looked at.
findOwnField(struct, n) ==
    LET P == {i \in DOMAIN struct : struct[i].name = n}
    IN  IF P = {} THEN << >> ELSE << Least(P) >>

\* The way to the first field called n, depth first through anonymous members;
\* empty if there is none.
findFieldDecl(struct, n) ==
    LET F[fs \in Structs] ==
            LET Inner(i) == IF fs[i].name = "" THEN F[fs[i].fields] ELSE << >>
                P == {i \in DOMAIN fs : fs[i].name = n \/ Inner(i) # << >>}
            IN  IF P = {} THEN << >> ELSE << Least(P) >> \o Inner(Least(P))
    IN  F[struct]

=============================================================================
