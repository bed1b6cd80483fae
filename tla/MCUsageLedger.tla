--------------------------- MODULE MCUsageLedger ---------------------------
(* An instance of UsageLedger: one request of one tenant, which may be     *)
(* deleted under it.  Requests share nothing else.                         *)
EXTENDS UsageLedger

CONSTANT q1
=============================================================================
