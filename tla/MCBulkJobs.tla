---------------------------- MODULE MCBulkJobs ----------------------------
(* Instances of BulkJobs: bulk requests of one tenant and one or two       *)
(* workers.  JobTimeout and StaleAfter are equal, as 1800 seconds and 30   *)
(* minutes are, and the in-progress key lives a little longer.             *)
EXTENDS BulkJobs

CONSTANTS r1, r2, w1, w2

(* r1 has its job, and r2 may come while that is active.                   *)
OneJobSpec ==
  Init /\ [][Next /\ req'[r2] \in {"new", "joined"}]_vars /\ Fairness({r1})
=============================================================================
