----------------------------- MODULE AttrParser -----------------------------
(***************************************************************************)
(* AttrParser::parse() (src/logging/attr_parser.cpp): walking backwards    *)
(* from a logging statement through the lines of the source file to find   *)
(* the comment in front of it, and the @id, @hint and @help it contains.   *)
(*                                                                         *)
(* A line is a sequence of tokens; white space and the stars and slashes   *)
(* that decorate comments are not tokens (the code trims them).  The last  *)
(* line of the source is the part of the statement's own line that is      *)
(* before the statement.                                                   *)
(***************************************************************************)
EXTENDS Integers, Sequences, FiniteSets

CONSTANTS
    Sources     \* the source texts

\* "@id" stands for a parameter with a number, "@big" for one with a number
\* that no unsigned holds, "@hint" and "@help" for the start of a text, and
\* "@hinting" and "@helper" for longer words that start like them.
Token == {"/*", "*/", "//", "word", "@id", "@big", "@hint", "@hinting", "@help", "@helper"}

ASSUME SourcesAssumption == Sources \subseteq Seq(Seq(Token)) /\ << >> \notin Sources

VARIABLES
    src,        \* the lines up to the statement
    row,        \* expLoc.line
    line,       \* what is left of that line
    mode,       \* neither flag set, singleLine or multiLine
    lines,      \* the comment found so far: rows and their text
    status, attrs

vars == <<src, row, line, mode, lines, status, attrs>>

NoAttrs == [a \in {"id", "hint", "help"} |-> 0]

EndsWith(l, t) == l # << >> /\ l[Len(l)] = t
StartsWith(l, t) == l # << >> /\ l[1] = t

-----------------------------------------------------------------------------
(* What the source means to a compiler.                                     *)

After(m, t) == CASE m = "code" /\ t = "/*" -> "block"
                 [] m = "code" /\ t = "//" -> "line"
                 [] m = "block" /\ t = "*/" -> "code"
                 [] OTHER -> m

\* Being inside a comment or not, before each token of row i and after the last.
ModesFrom(i, m) ==
    LET M[j \in 1..(Len(src[i]) + 1)] == IF j = 1 THEN m ELSE After(M[j - 1], src[i][j - 1])
    IN  M

RowStart ==
    LET R[i \in DOMAIN src] ==
            IF i = 1 THEN "code"
            ELSE LET m == ModesFrom(i - 1, R[i - 1])[Len(src[i - 1]) + 1]
                 IN  IF m = "line" THEN "code" ELSE m
    IN  R

Mode(i, j) == ModesFrom(i, RowStart[i])[j]

Positions == UNION {{<<i, j>> : j \in DOMAIN src[i]} : i \in DOMAIN src}

\* The statement is code, and no comment is closed that was not opened.
Legal ==
    /\ Mode(Len(src), Len(src[Len(src)]) + 1) = "code"
    /\ \A x \in Positions : Mode(x[1], x[2]) = "code" => src[x[1]][x[2]] # "*/"

\* No comment has comment delimiters in its text.
Clean ==
    \A x \in Positions :
        /\ Mode(x[1], x[2]) = "block" => src[x[1]][x[2]] \notin {"/*", "//"}
        /\ Mode(x[1], x[2]) = "line" => src[x[1]][x[2]] \notin {"/*", "*/"}

WholeLineComment(i) == RowStart[i] = "code" /\ StartsWith(src[i], "//")

\* The rows that are not empty, and those that belong to a run of whole-line
\* comments in front of the statement.
Filled == {i \in DOMAIN src : src[i] # << >>}
Run == {i \in Filled : \A k \in Filled : k >= i => WholeLineComment(k)}

\* The entries that the rows up to i contribute to that run.
WholeLines[i \in 0..Len(src)] ==
    IF i = 0 THEN << >>
    ELSE IF i \in Run THEN Append(WholeLines[i - 1], [row |-> i, text |-> Tail(src[i])])
    ELSE WholeLines[i - 1]

\* The last token in front of the statement, and the last start of a block
\* comment.
LastFilled == CHOOSE i \in Filled : \A k \in Filled : k <= i
LastToken == <<LastFilled, Len(src[LastFilled])>>

Opens == {x \in Positions : src[x[1]][x[2]] = "/*" /\ Mode(x[1], x[2]) = "code"}
LastOpens == CHOOSE x \in Opens : \A y \in Opens : y[1] < x[1] \/ (y[1] = x[1] /\ y[2] <= x[2])

\* The part of row i strictly between positions p and q of the source.
Between(i, p, q) ==
    LET from == IF i = p[1] THEN p[2] + 1 ELSE 1
        to == IF i = q[1] THEN q[2] - 1 ELSE Len(src[i])
    IN  [row |-> i, text |-> SubSeq(src[i], from, to)]

\* The comment in front of the statement: the block comment it follows, or the
\* whole-line comments it follows, with nothing but white space in between.
Comment ==
    IF Filled = {} THEN << >>
    ELSE IF Mode(LastToken[1], LastToken[2]) = "block"
    THEN [n \in 1..(LastToken[1] - LastOpens[1] + 1) |->
             Between(LastOpens[1] + n - 1, LastOpens, LastToken)]
    ELSE WholeLines[Len(src)]

-----------------------------------------------------------------------------
(* The parser.                                                              *)

Init ==
    /\ src \in Sources /\ Legal
    /\ row = Len(src) /\ line = src[Len(src)]
    /\ mode = "seek" /\ lines = << >>
    /\ status = "scanning" /\ attrs = NoAttrs

\* Mutant: rows end at 0.
PreviousRow ==
    /\ row' = row - 1
    /\ IF row' < 0 THEN status' = "scanned" /\ UNCHANGED line
                   ELSE line' = (IF row' = 0 THEN << >> ELSE src[row']) /\ UNCHANGED status

\* Get the previous line, or leave the loop at the top of the file.
Previous ==
    /\ row' = row - 1
    /\ IF row' <= 0 THEN status' = "scanned" /\ UNCHANGED line
                    ELSE line' = src[row'] /\ UNCHANGED status

\* lines.push_front()
Push(text) == lines' = << [row |-> row, text |-> text] >> \o lines

SeekBlockEnd ==
    /\ status = "scanning" /\ mode = "seek"
    /\ EndsWith(line, "*/")
    /\ line' = SubSeq(line, 1, Len(line) - 1)
    /\ mode' = "multi"
    /\ UNCHANGED <<src, row, lines, status, attrs>>

SeekLineComment ==
    /\ status = "scanning" /\ mode = "seek"
    /\ ~EndsWith(line, "*/") /\ StartsWith(line, "//")
    /\ mode' = "single"
    /\ UNCHANGED <<src, row, line, lines, status, attrs>>

SeekBlank ==
    /\ status = "scanning" /\ mode = "seek"
    /\ line = << >>
    /\ Previous
    /\ UNCHANGED <<src, mode, lines, attrs>>

NoComment ==
    /\ status = "scanning" /\ mode = "seek"
    /\ line # << >> /\ ~EndsWith(line, "*/") /\ ~StartsWith(line, "//")
    /\ status' = "scanned"
    /\ UNCHANGED <<src, row, line, mode, lines, attrs>>

\* Mutant: find() instead of rfind().
FirstOpen(l) == LET P == {j \in DOMAIN l : l[j] = "/*"}
                IN  IF P = {} THEN 0 ELSE CHOOSE j \in P : \A k \in P : k >= j

\* line.rfind("/*"), or 0.
LastOpen(l) == LET P == {j \in DOMAIN l : l[j] = "/*"}
               IN  IF P = {} THEN 0 ELSE CHOOSE j \in P : \A k \in P : k <= j

MultiLine ==
    /\ status = "scanning" /\ mode = "multi"
    /\ LET p == LastOpen(line)
       IN  /\ Push(SubSeq(line, p + 1, Len(line)))
           /\ \/ p > 0 /\ status' = "scanned" /\ UNCHANGED <<row, line>>
              \/ p = 0 /\ Previous
    /\ UNCHANGED <<src, mode, attrs>>

SingleLine ==
    /\ status = "scanning" /\ mode = "single"
    /\ StartsWith(line, "//")
    /\ Push(Tail(line))
    /\ Previous
    /\ UNCHANGED <<src, mode, attrs>>

SingleBlank ==
    /\ status = "scanning" /\ mode = "single"
    /\ line = << >>
    /\ Previous
    /\ UNCHANGED <<src, mode, lines, attrs>>

SingleEnd ==
    /\ status = "scanning" /\ mode = "single"
    /\ line # << >> /\ ~StartsWith(line, "//")
    /\ status' = "scanned"
    /\ UNCHANGED <<src, row, line, mode, lines, attrs>>

\* The entries of a comment that one of the three expressions matches: the
\* number must be all there is on the line, a text is the rest of the line, and
\* it need not be a word of its own ("er" is the text of "@helper").
Params(comment, a) ==
    {i \in DOMAIN comment :
        LET l == comment[i].text
        IN  CASE a = "id" -> l \in {<< "@id" >>, << "@big" >>}
              [] a = "hint" -> StartsWith(l, "@hint") \/ StartsWith(l, "@hinting")
              [] a = "help" -> StartsWith(l, "@help") \/ StartsWith(l, "@helper")}
Matches(a) == Params(lines, a)

\* Mutant: of two parameters of a kind the first counts.
NoDuplicate == TRUE

Unambiguous == \A a \in DOMAIN attrs : Cardinality(Matches(a)) <= 1

\* fromStr<MsgId>() throws before a later line is looked at.
TooBig == \E i \in Matches("id") : lines[i].text = << "@big" >> /\
             \A a \in DOMAIN attrs : Cardinality({j \in Matches(a) : j <= i}) <= 1

\* The attributes are only stored when all went well; each has the row it was
\* found in.
Extract ==
    /\ status = "scanned"
    /\ \/ /\ TooBig
          /\ status' = "bad_lexical_cast" /\ UNCHANGED attrs
       \/ /\ ~TooBig /\ ~Unambiguous
          /\ status' = "ParsingError" /\ UNCHANGED attrs
       \/ /\ ~TooBig /\ Unambiguous
          /\ attrs' = [a \in DOMAIN attrs |->
                          IF Matches(a) = {} THEN 0
                          ELSE lines[CHOOSE i \in Matches(a) : TRUE].row]
          /\ status' = "done"
    /\ UNCHANGED <<src, row, line, mode, lines>>

Next ==
    \/ SeekBlockEnd \/ SeekLineComment \/ SeekBlank \/ NoComment
    \/ MultiLine \/ SingleLine \/ SingleBlank \/ SingleEnd
    \/ Extract

Spec == Init /\ [][Next]_vars

-----------------------------------------------------------------------------
(* Properties.                                                              *)

\* "Extract the comments block preceeding the logging statement"
\* (attr_parser.cpp:49): the scan ends with the comment in front of the
\* statement, when no comment has delimiters in its text.  Without Clean it
\* does not: it takes the last "/*" of a line for the start of the comment.
FindsCleanComment == status = "scanned" /\ Clean => lines = Comment

\* What the entries of a comment mean if parameters are whole words, and the
\* entries that only start like one.
Word == [hint |-> "@hint", help |-> "@help"]
LongerWord == [hint |-> "@hinting", help |-> "@helper"]
Means(a) ==
    {i \in DOMAIN Comment :
        LET l == Comment[i].text
        IN  IF a = "id" THEN l \in {<< "@id" >>, << "@big" >>} ELSE StartsWith(l, Word[a])}
Longer(a) == {i \in DOMAIN Comment : a # "id" /\ StartsWith(Comment[i].text, LongerWord[a])}

\* r is the row of the only entry of S, or 0.
RowIn(S, r) == IF S = {} THEN r = 0 ELSE \E i \in S : S = {i} /\ r = Comment[i].row

\* The message gets exactly the attributes the comment in front of the
\* statement gives.  A longer word is never taken for an ID, and for a hint or
\* a help ID only when the comment gives none; and when all attributes are lost
\* to an error, the comment gives one of them twice, a longer word counted in
\* (the expressions ask for no end of the word), or an ID with a number no MsgId holds.
AttrsRight ==
    Clean => /\ status = "done" =>
                   \A a \in DOMAIN attrs :
                      IF Longer(a) = {} THEN RowIn(Means(a), attrs[a])
                      ELSE Means(a) = {} /\ RowIn(Longer(a), attrs[a])
             /\ status = "ParsingError" =>
                   /\ attrs = NoAttrs
                   /\ \E a \in DOMAIN attrs : Cardinality(Means(a) \cup Longer(a)) > 1
             /\ status = "bad_lexical_cast" =>
                   attrs = NoAttrs /\ \E i \in DOMAIN Comment : Comment[i].text = << "@big" >>

\* The type invariant: the scan stays within the file.
TypeOK ==
    /\ src \in Seq(Seq(Token))
    /\ row \in 0..Len(src)
    /\ line \in Seq(Token)
    /\ mode \in {"seek", "multi", "single"}
    /\ lines \in Seq([row : 1..Len(src), text : Seq(Token)])
    /\ status \in {"scanning", "scanned", "done", "ParsingError", "bad_lexical_cast"}
    /\ attrs \in [{"id", "hint", "help"} -> 0..Len(src)]

=============================================================================
