----------------------------- MODULE IdRegistry -----------------------------
(***************************************************************************)
(* What the message index promises to the users of the plugin.             *)
(*                                                                         *)
(* There is one registry of message IDs.  It only grows, it never holds    *)
(* one ID for two messages or two IDs for one message, and an object file  *)
(* is only ever compiled with IDs the registry holds.  Reading, locking,   *)
(* writing and dying compilers are not visible at this level.              *)
(***************************************************************************)
CONSTANTS
    Entry       \* key/ID pairs

VARIABLES
    reg,        \* the registered pairs
    issued      \* the pairs compiled into object files

OneToOne(S) == \A a, b \in S : a.key = b.key <=> a.id = b.id

Init ==
    /\ reg \subseteq Entry
    /\ OneToOne(reg)
    /\ issued = {}

\* New messages get IDs.
Register ==
    /\ reg' \subseteq Entry
    /\ reg \subseteq reg'
    /\ OneToOne(reg')
    /\ UNCHANGED issued

\* An object file is compiled with registered IDs.
Compile ==
    /\ issued \subseteq issued'
    /\ issued' \subseteq reg
    /\ UNCHANGED reg

Next == Register \/ Compile

vars == <<reg, issued>>

Spec == Init /\ [][Next]_vars

=============================================================================
