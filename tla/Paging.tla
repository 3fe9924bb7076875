-------------------------------- MODULE Paging --------------------------------
(***************************************************************************)
(* How the list endpoints page: the query's parameters and the envelope    *)
(* every answer carries (src/controllers/audit.go), used by the user's     *)
(* feed and by the audit trail.                                            *)
(***************************************************************************)
EXTENDS Naturals

(* Slips: definitions below with a plausible bug each *)

\* The last page is left out unless it is full.
TotalPagesFloor(total, size) == total \div size

\* Pages overlap by one row.
OffsetOverlapping(page, size) == IF page = 1 THEN 0 ELSE (page - 1) * size - 1
-----------------------------------------------------------------------------
\* A size that is missing or out of range is the default one.
SizeOf(asked, default, max) == IF asked \in 1..max THEN asked ELSE default

Offset(page, size) == (page - 1) * size

TotalPages(total, size) == (total + size - 1) \div size

HasMore(page, total, size) == page < TotalPages(total, size)
=============================================================================
