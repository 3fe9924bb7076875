----------------------------- MODULE MCAuditTrail -----------------------------
(***************************************************************************)
(* Small instances of AuditTrail for TLC.                                  *)
(***************************************************************************)
EXTENDS AuditTrail, TLC

CONSTANTS a1, a2, a3

Symmetry == Permutations(Action)
=============================================================================
