----------------------------- MODULE MCMsgIndex -----------------------------
(***************************************************************************)
(* Instances of MsgIndex for TLC: two or three messages, a source file     *)
(* that already has one of them, and destination files as a first build,   *)
(* an earlier build or a hand edit (trailing comment) leaves them.         *)
(***************************************************************************)
EXTENDS MsgIndex

CONSTANTS k1, k2

\* A first build: the destination file does not exist yet.
FirstBuild == {<< >>}

\* Any of the destination files a build may start from.
AnyBuild == {<< >>,
             << End >> \o Remark,
             << Msg(k1, 1), End >>,
             << Msg(k1, 1), End >> \o Remark}

NoSource == << >>

\* The source file has k2 under an ID that leaves a gap.
OneSource == << << Msg(k2, 3), End >> >>

=============================================================================
