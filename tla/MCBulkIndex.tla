---------------------------- MODULE MCBulkIndex ----------------------------
(* Instances of BulkIndex: a run of a bulk job, beside a task that serves  *)
(* web requests or is another run, on two pages of one chunk each.         *)
EXTENDS BulkIndex

CONSTANTS web, worker, p1, p2, old, new

HashOf == [v \in Versions |-> v]
ChunksOf == [v \in Versions |-> 1]

\* The site has one page left, in its new version, or neither.
Only(p) == [q \in Pages |-> IF q = p THEN new ELSE None]
OneOrNone == {Only(p1), Only(p2), Only(None)}

\* Pages share nothing but wipes and runs, so requests are about p2, in its
\* old version, and only the worker's threads at p2 come late.  The other run
\* lists p1, which this one does not.
Parts ==
  /\ op'[web].pc \in Waiting =>
       Running(web) \/ (op'[web].page \in {p2, None} /\ op'[web].ver # new)
  /\ bulk'[web].pc = "pages" => bulk'[web].list = Only(p1)
  /\ bulk'[worker].pc = "pages" => bulk'[worker].list # Only(p1)
  /\ late' # late => ~(Running(web) /\ ~Running(web)') /\ \A l \in late' : l.page = p2

PartsSpec == BulkInit /\ [][BulkNext /\ Parts]_bulkVars
=============================================================================
