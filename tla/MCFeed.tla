-------------------------------- MODULE MCFeed --------------------------------
(***************************************************************************)
(* A small instance of Feed for TLC: the user has no access to the         *)
(* resource of row 2.                                                      *)
(***************************************************************************)
EXTENDS Feed

MCResourceOf == [n \in Row |-> IF n = 2 THEN "invoice" ELSE "order"]
MCAccessible == {"order"}
=============================================================================
