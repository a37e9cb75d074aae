--------------------------- MODULE MCAttrParser ---------------------------
(***************************************************************************)
(* Instances of AttrParser for TLC: every source of three lines of up to   *)
(* two tokens of a kind, every source of four such lines with comments and *)
(* hints alone, every source of two lines of up to four tokens, where a    *)
(* line has room for two comments, and every comment of up to four entries *)
(* with all kinds of parameters next to each other.                        *)
(***************************************************************************)
EXTENDS AttrParser

Delimiters == {"/*", "*/", "//"}
Parameters == {"@id", "@big", "@hint", "@hinting", "@help", "@helper"}

Lines(n, tokens) == UNION {[1..m -> tokens] : m \in 0..n}

Scattered == [1..3 -> Lines(2, Delimiters \cup {"word", "@id", "@big", "@hint"})]
                 \cup [1..3 -> Lines(2, Delimiters \cup {"@help", "@helper"})]
                 \cup [1..4 -> Lines(2, Delimiters \cup {"@hint"})]
                 \cup [1..2 -> Lines(4, {"/*", "*/", "@hint"})]

Entries == [1..4 -> {<< >>} \cup {<< t >> : t \in Parameters}]
LineComments == {[i \in 1..5 |-> IF i = 5 THEN << >> ELSE << "//" >> \o e[i]] : e \in Entries}
BlockComments == {<< << "/*" >> >> \o e \o << << "*/" >> >> : e \in Entries}

ShortSources == Scattered \cup LineComments \cup BlockComments

=============================================================================
