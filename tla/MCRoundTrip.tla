---------------------------- MODULE MCRoundTrip ----------------------------
(***************************************************************************)
(* Instances of RoundTrip for TLC: files of up to two messages with or     *)
(* without comments around them, and short texts of which most are no      *)
(* message files; a unit with three messages.  An int has 4 bits.          *)
(***************************************************************************)
EXTENDS RoundTrip

IntSet == -8..15
Str(s) == [kind |-> "str", str |-> s]
Int1(i) == [kind |-> "int", int |-> i]
Plain == [fmt |-> Str("a"), hint |-> Absent, help |-> Absent]
Hinted == [fmt |-> Str("a"), hint |-> Str("b"), help |-> Absent]
Helped == [fmt |-> Str("b"), hint |-> Str("a"), help |-> Str("b")]
ThreeMsgs == {Plain, Hinted, Helped}
Unknown == [k \in ThreeMsgs |-> 0]

Pair(n, v) == << NameOf(n), ValueOf(v) >>
Comma == << Mark("comma") >>
Remark == << Mark("remark") >>

\* Messages in an order of their own, and with members that mean nothing.
Braces(s) == << Mark("beginObject") >> \o s \o << Mark("endObject") >>
Nested ==
    << NameOf("other"), Mark("beginArray"), Mark("beginObject") >> \o Pair("id", Int1(2))
        \o << Mark("endObject"), Mark("endArray") >>
Objects ==
    {Braces(Pair("id", Int1(1)) \o Comma \o Pair("msg", Str("a"))),
     Braces(Pair("hint", Str("b")) \o Comma \o Pair("msg", Str("a")) \o Comma \o Pair("id", Int1(2)))}
    \cup {Braces(Pair("id", Int1(i)) \o Comma \o Nested \o Remark \o Comma \o Pair("msg", Str("b"))) : i \in {1, 5}}
Broken == {Braces(Pair("id", Int1(1)) \o Comma), Braces(Pair("id", Int1(1)) \o Pair("msg", Str("a")))}

Gap == {<< >>, Remark}
Array(s) == << Mark("beginArray") >> \o s \o << Mark("endArray") >>
AllThree ==
    Array(Braces(Pair("id", Int1(3)) \o Comma \o Pair("msg", Str("a"))) \o Comma
          \o Braces(Pair("id", Int1(2)) \o Comma \o Pair("msg", Str("a")) \o Comma \o Pair("hint", Str("b"))) \o Comma
          \o Braces(Pair("id", Int1(1)) \o Comma \o Pair("help", Str("b")) \o Comma \o Pair("msg", Str("b"))
                    \o Comma \o Pair("hint", Str("a"))))
Lists ==
    {Array(g \o s \o g) \o h : s \in {<< >>} \cup Objects \cup Broken, g, h \in Gap}
    \cup {Array(o \o Comma \o p) : o, p \in Objects} \cup {Array(o \o Remark \o Comma \o o) : o \in Objects}
    \cup {Array(o \o p) : o, p \in Objects} \cup {AllThree}
ShortTexts ==
    UNION {[1..n -> {Mark(m) : m \in Marks}
                       \cup {NameOf("other"), ValueOf(Int1(1))}] : n \in 0..4}

SomeTexts == Lists \cup ShortTexts

=============================================================================
