------------------------------ MODULE MCLogPass ------------------------------
(***************************************************************************)
(* Instances of LogPass for TLC, with an int of 3 bits.  Each set of       *)
(* programs varies one thing: the attribute's arguments, the parameters,   *)
(* the order of declarations, the fields of LogAttributes, the calls, or   *)
(* the command line.                                                       *)
(***************************************************************************)
EXTENDS LogPass

CONSTANTS log, k1, k2

Spellings == [s \in {"2", "9"} |-> IF s = "2" THEN 2 ELSE 9]

\* Structs: id and has_id at the top, or in anonymous members next to others.
Inner == << Field("other"), Field("has_id") >>
Deep == << Anonymous(Inner) >>
Flat == << Field("id"), Field("has_id") >>
Nested == << Field("other"), Anonymous(<< >>), Anonymous(Deep), Field("id") >>
NoHasId == << Field("id"), Anonymous(<< Field("other") >>) >>
StructSet == {<< >>, << Field("other") >>, Inner, Deep, Flat, Nested, NoHasId}

LogArgs(n) == << Text("log_function"), Integer(n) >>
GoodParams == << "const_char*", "const_char*", "LogAttributes*" >>
Declares(f, as, ps) ==
    [fn |-> f, node |-> "FUNCTION_DECL", attributed |-> TRUE, args |-> as, params |-> ps]
Plain(f) == [Declares(f, << >>, GoodParams) EXCEPT !.attributed = FALSE]
Good == Declares(log, LogArgs(2), GoodParams)

GoodCall == [fn |-> log, args |-> << "string", "string", "variable" >>, shape |-> "good",
             text |-> k1, key |-> k1, wanted |-> 0]
GoodProgram ==
    [options |-> << [key |-> "dest-msg-file", value |-> String("file")] >>, decls |-> << Good >>,
     complete |-> TRUE, struct |-> Flat, calls |-> << GoodCall >>, percent |-> FALSE]

SomeArgs ==
    {LogArgs(n) : n \in {-4, -1, 0, 1, 2, 3, 10, 40}}
    \cup {<< Text("log_function"), t >> :
             t \in {Real(2), Real(9), Text("2"), Text("9"), Text("word"), NotConstant}}
    \cup {<< >>, << Text("log_function") >>, << Text("other") >>, << Integer(2), Integer(2) >>,
          << Text("log_function"), Integer(2), Integer(2) >>}

ShortParams == UNION {[1..n -> ParamType] : n \in 0..3}

ByArgs == {[GoodProgram EXCEPT !.decls = << [Good EXCEPT !.args = as, !.node = n] >>, !.percent = p] :
              as \in SomeArgs, n \in {"FUNCTION_DECL", "OTHER"}, p \in BOOLEAN}

ByParams == {[GoodProgram EXCEPT !.decls = << Declares(log, LogArgs(n), ps) >>] :
                ps \in ShortParams, n \in {1, 2}}

SomeDecls == {Plain(log), Good, Declares(log, LogArgs(1), GoodParams), Declares(log, LogArgs(3), GoodParams),
              Declares("other", LogArgs(2), GoodParams)}
ByOrder == {[GoodProgram EXCEPT !.decls = << d, e, Plain(log) >>] : d, e \in SomeDecls}

ByStruct == {[GoodProgram EXCEPT !.struct = s, !.complete = c, !.calls = cs] :
                s \in StructSet, c \in BOOLEAN, cs \in {<< >>, << GoodCall >>}}

SomeCalls ==
    {[GoodCall EXCEPT !.shape = s, !.key = k, !.wanted = w] :
        s \in {"good", "dupAttr"}, k \in {k1, k2}, w \in {0, 1}}
    \cup {[GoodCall EXCEPT !.fn = f, !.shape = s] : f \in Funcs, s \in Shape}
    \cup {[GoodCall EXCEPT !.args = << "other", a, b >>] : a, b \in Arg}
    \cup {[GoodCall EXCEPT !.args = << "string", "string" >>]}

ByCalls == {[GoodProgram EXCEPT !.decls = << Good, Plain("other") >>, !.calls = cs, !.percent = p] :
               cs \in UNION {[1..n -> SomeCalls] : n \in 0..2}, p \in BOOLEAN}

SomeOptions == [key : {"dest-msg-file", "src-msg-file"}, value : {None, String("file")}]
ByOptions == {[GoodProgram EXCEPT !.options = os] : os \in UNION {[1..n -> SomeOptions] : n \in 0..2}}

SomePrograms == ByArgs \cup ByParams \cup ByOrder \cup ByStruct \cup ByCalls \cup ByOptions

=============================================================================
