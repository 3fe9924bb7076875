---------------------------- MODULE MCEmailEvents ----------------------------
(***************************************************************************)
(* A small instance of EmailEvents for TLC.                                *)
(***************************************************************************)
EXTENDS EmailEvents

\* Every rank the code knows, two event types of the gravest of its three,
\* and a type it does not know.
EveryRank == (Relevant \ {"email.failed"}) \cup {"email.opened"}
=============================================================================
