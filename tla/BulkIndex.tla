------------------------------ MODULE BulkIndex ------------------------------
(***************************************************************************)
(* Bulk runs over the two stores of PageIndex: run_bulk_index_job of       *)
(* app/services/index_service.py goes through the list of the request, one *)
(* index_single_page after the other, then removes the pages the list does *)
(* not have, and all the while web requests index, delete and wipe.  The   *)
(* row and the delivery of the job are module BulkJobs.                    *)
(*                                                                         *)
(* The calls of a run are the calls of PageIndex, on the run's own         *)
(* session.  A run is cancelled by arq (timeout, shutdown) or dies with    *)
(* its process.  Cancelling stops the coroutine and not the thread of the  *)
(* pool that is busy with a Pinecone call (_run_sync): the thread goes on. *)
(***************************************************************************)
EXTENDS PageIndex

CONSTANTS
  Web,      \* the tasks that may serve a web request
  Workers,  \* the tasks that may be the run of a bulk job
  Lists,    \* what a request may list: a version of each page, None for no page
  MaxLate   \* bound on the threads cancelled runs left behind

ASSUME BulkIndexAssumption ==
  /\ Web \subseteq Tasks /\ Workers \subseteq Tasks /\ MaxLate \in Nat
  /\ Lists \subseteq [Pages -> Versions \cup {None}]

VARIABLES
  bulk,  \* bulk[w]: the run that is task w
  late   \* Pinecone calls, as of op, whose coroutine has been cancelled

bulkVars == <<row, vecs, op, held, damaged, bulk, late>>

-----------------------------------------------------------------------------
Run == [pc      : {"off", "pages", "removal", "complete", "broken"},
        list    : [Pages -> Versions \cup {None}],  \* None: not listed
        todo    : SUBSET Pages,  \* listed pages the loop has not come to
        failed  : SUBSET Pages,  \* listed pages counted in pages_failed
        skipped : SUBSET Pages,  \* listed pages counted in pages_skipped
        found   : SUBSET Pages,  \* rows deletion detection is to remove
        left    : SUBSET Pages,  \* those whose vectors it has not come to
        crossed : SUBSET Pages,  \* ghost: found pages others have worked on
        alone   : BOOLEAN]       \* ghost: nothing else happened since it began

Off == [pc |-> "off", list |-> [p \in Pages |-> None], todo |-> {}, failed |-> {},
        skipped |-> {}, found |-> {}, left |-> {}, crossed |-> {}, alone |-> FALSE]

Running(t) == t \in Workers /\ bulk[t].pc # "off"
Listed(list) == {p \in Pages : list[p] # None}

\* Removed from Pinecone, with the row still to go.
Removing(w) == IF bulk[w].pc = "removal" THEN bulk[w].found \ bulk[w].left ELSE {}

BulkInit ==
  /\ Init
  /\ bulk = [w \in Workers |-> Off]
  /\ late = {}

\* Work of another task on pages, as the ghosts of run v see it.
Noted(v, pages) ==
  IF Running(v) THEN [bulk[v] EXCEPT !.alone = FALSE,
                                     !.crossed = @ \cup (bulk[v].found \cap pages)]
  ELSE bulk[v]

\* Run w becomes run, having worked on pages.
Becomes(w, run, pages) ==
  bulk' = [v \in Workers |-> IF v = w THEN run ELSE Noted(v, pages)]

-----------------------------------------------------------------------------
(* The loop over the pages                                                 *)

BeginRun(w, list) ==
  /\ ~Running(w) /\ op[w] = Idle
  /\ Becomes(w, [Off EXCEPT !.pc = "pages", !.list = list, !.todo = Listed(list),
                   !.alone = /\ \A t \in Tasks : ~Active(t)
                             /\ \A x \in Workers : ~Running(x)
                             /\ late = {}], {})
  /\ UNCHANGED <<vars, late>>

\* index_single_page for a page of the list.
TakePage(w, p) ==
  /\ bulk[w].pc = "pages" /\ p \in bulk[w].todo
  /\ LET v == bulk[w].list[p] IN SkipUnchanged(w, p, v) \/ StartIndex(w, p, v)
  /\ Becomes(w, [bulk[w] EXCEPT !.todo = @ \ {p}], {p})
  /\ UNCHANGED late

\* The call the run is in goes on.
WorkOn(w) ==
  /\ bulk[w].pc \in {"pages", "removal"}
  /\ \/ ListVectors(w) \/ EraseBatch(w) \/ EraseFails(w)
     \/ CallOpenAI(w) \/ OpenAIFails(w) \/ Upsert(w) \/ UpsertFails(w)
     \/ CommitIndex(w)
  /\ UNCHANGED <<bulk, late>>

PageIf(w, result) == IF op[w].result = result THEN {op[w].page} ELSE {}

\* The page is counted as indexed, skipped or failed.
CountPage(w) ==
  /\ bulk[w].pc = "pages"
  /\ Respond(w)
  /\ Becomes(w, [bulk[w] EXCEPT !.failed = @ \cup PageIf(w, "failed"),
                                !.skipped = @ \cup PageIf(w, "unchanged")], {})
  /\ UNCHANGED late

\* After a commit that failed the session cannot count the page: it would
\* have to be rolled back first.
PageBreaks(w) ==
  /\ bulk[w].pc = "pages"
  /\ CommitConflict(w) \/ CommitFails(w)
  /\ Becomes(w, [bulk[w] EXCEPT !.pc = "broken"], {})
  /\ UNCHANGED late

-----------------------------------------------------------------------------
(* Deletion detection                                                      *)

\* Mutant of ToRemove: nothing is removed when pages have failed.
ToRemoveIfClean(run) ==
  {p \in Pages : row[p] # None /\ run.list[p] = None /\ run.failed = {}}

\* The rows of the tenant whose page is not in the list of the request.
ToRemove(run) == {p \in Pages : row[p] # None /\ run.list[p] = None}

SelectRows(w) ==
  /\ bulk[w].pc = "pages" /\ bulk[w].todo = {} /\ op[w] = Idle
  /\ LET found == ToRemove(bulk[w]) IN
     /\ Becomes(w, [bulk[w] EXCEPT !.pc = "removal", !.found = found, !.left = found,
                                   !.crossed = {p \in found : ~Quiet(p)}], {})
     /\ held' = [held EXCEPT ![w] = found]
  /\ UNCHANGED <<row, vecs, op, damaged, late>>

RemoveVectors(w, p) ==
  /\ bulk[w].pc = "removal" /\ p \in bulk[w].left /\ op[w] = Idle
  /\ Enter(w, Call("delete", p, None, "list", TRUE))
  /\ Becomes(w, [bulk[w] EXCEPT !.left = @ \ {p}], {p})
  /\ UNCHANGED <<row, vecs, held, late>>

\* The vectors are gone; db.delete only marks the row.
MarkRow(w) ==
  /\ bulk[w].pc = "removal" /\ op[w].pc = "commit"
  /\ op' = [op EXCEPT ![w] = Idle]
  /\ Becomes(w, IF op[w].alone THEN bulk[w]
                ELSE [bulk[w] EXCEPT !.crossed = @ \cup {op[w].page}], {})
  /\ UNCHANGED <<row, vecs, held, damaged, late>>

\* Mutant of AllMarked: the rows are committed before all vectors are gone.
AllMarkedEarly(w) == op[w] = Idle

AllMarked(w) == bulk[w].left = {} /\ op[w] = Idle

\* One commit deletes every marked row that is there still.
CommitRemoval(w) ==
  /\ bulk[w].pc = "removal" /\ AllMarked(w)
  /\ row' = [p \in Pages |-> IF p \in held[w] THEN None ELSE row[p]]
  /\ damaged' = (damaged \ held[w]) \cup bulk[w].crossed
  /\ held' = [u \in Tasks |-> held[u] \ held[w]]
  /\ Becomes(w, [bulk[w] EXCEPT !.pc = "complete"], held[w])
  /\ UNCHANGED <<vecs, op, late>>

-----------------------------------------------------------------------------
(* How a run ends                                                          *)

Complete(w) ==
  /\ bulk[w].pc = "complete"
  /\ Becomes(w, Off, {})
  /\ UNCHANGED <<vars, late>>

\* The run is over, its session rolled back and closed.
Abandon(w, uneven) ==
  /\ op' = [op EXCEPT ![w] = Idle]
  /\ held' = [held EXCEPT ![w] = {}]
  /\ damaged' = damaged \cup Removing(w) \cup uneven
  /\ Becomes(w, Off, {})
  /\ UNCHANGED <<row, vecs>>

\* The except clause around the loop: a broken session, an exception in
\* deletion detection, Postgres.  The job is marked failed.
RunFails(w) ==
  /\ \/ bulk[w].pc = "broken"
     \/ bulk[w].pc = "removal" /\ op[w].pc = "returned"
     \/ Failures /\ Running(w) /\ op[w] = Idle
  /\ Abandon(w, {})
  /\ UNCHANGED late

Written(w) == IF Active(w) /\ op[w].wrote THEN {op[w].page} ELSE {}

\* The process that runs w stops, perhaps with threads of earlier runs.
WorkerDies(w) ==
  /\ Failures /\ Running(w)
  /\ Abandon(w, Written(w))
  /\ late' \in {late, {}}

InThread == {"list", "erase", "upsert"}
Thread(o) == [pc |-> o.pc, page |-> o.page, ver |-> o.ver, ids |-> o.ids]

LeftBehind(w) == IF op[w].pc \in InThread THEN {Thread(op[w])} ELSE {}

\* arq cancels the run; CancelledError passes by both except clauses.
Cancel(w) ==
  /\ Failures /\ Running(w)
  /\ late' = late \cup LeftBehind(w) /\ Cardinality(late') <= MaxLate
  /\ Abandon(w, Written(w))

\* A thread without its coroutine does the rest of its call, or fails in it.
ThreadGoesOn(l) ==
  /\ \/ /\ l.pc = "upsert"
        /\ vecs' = [vecs EXCEPT ![l.page] =
                      [i \in Slots |-> IF i < Chunks[l.ver] THEN l.ver ELSE @[i]]]
        /\ late' = late \ {l}
     \/ /\ l.pc # "upsert"
        /\ LET ids == IF l.pc = "list" THEN Occupied(l.page) ELSE l.ids IN
           \E b \in Batches(ids) :
             /\ vecs' = [vecs EXCEPT ![l.page] =
                           [i \in Slots |-> IF i \in b THEN None ELSE @[i]]]
             /\ late' = (late \ {l}) \cup
                   {k \in {[l EXCEPT !.pc = "erase", !.ids = ids \ b]} : k.ids # {}}
     \/ /\ late' = late \ {l}
        /\ UNCHANGED vecs
  /\ op' = [t \in Tasks |-> IF Active(t) /\ l.page \in Scope(op[t])
                            THEN [op[t] EXCEPT !.alone = FALSE] ELSE op[t]]
  /\ damaged' = damaged \cup {l.page}
  /\ bulk' = [v \in Workers |-> Noted(v, {l.page})]
  /\ UNCHANGED <<row, held>>

-----------------------------------------------------------------------------
(* Web requests                                                            *)

WebStarts(t) ==
  /\ ~Running(t)
  /\ Start(t)
  /\ bulk' = IF op'[t].pc \in Waiting
             THEN [v \in Workers |-> Noted(v, Scope(op'[t]))] ELSE bulk
  /\ UNCHANGED late

WebGoesOn(t) ==
  /\ ~Running(t)
  /\ Step(t) \/ Crash(t) \/ Respond(t)
  /\ UNCHANGED <<bulk, late>>

RunStep(w) ==
  \/ \E list \in Lists : BeginRun(w, list)
  \/ \E p \in Pages : TakePage(w, p) \/ RemoveVectors(w, p)
  \/ WorkOn(w) \/ CountPage(w) \/ PageBreaks(w)
  \/ SelectRows(w) \/ MarkRow(w) \/ CommitRemoval(w)
  \/ Complete(w) \/ RunFails(w) \/ WorkerDies(w) \/ Cancel(w)

BulkNext ==
  \/ \E w \in Workers : RunStep(w)
  \/ \E t \in Web : WebStarts(t) \/ WebGoesOn(t)
  \/ \E l \in late : ThreadGoesOn(l)

BulkSpec == BulkInit /\ [][BulkNext]_bulkVars

-----------------------------------------------------------------------------
BulkTypeOK ==
  /\ TypeOK
  /\ bulk \in [Workers -> Run]
  /\ late \in SUBSET [pc : InThread, page : Pages, ver : Versions \cup {None},
                      ids : SUBSET Slots]

(* The two stores agree on every page that no call and no removal is       *)
(* working on, unless calls on it overlapped, one failed after it had      *)
(* touched Pinecone, or the thread of a cancelled run came late to it, and *)
(* no clean call or removal has repaired it since.                         *)
StoresAgree ==
  \A p \in Pages \ damaged :
    (Quiet(p) /\ \A w \in Workers : p \notin Removing(w)) => Exact(p)

(* "Pages in content_pages that are NOT in the incoming list are detected  *)
(* as deleted": what a run that nothing overlapped leaves when it          *)
(* completes, whatever earlier runs left.  A page it has indexed has its   *)
(* row and every chunk of the version in the list.  A page it has skipped  *)
(* has a row with the hash of that version; its vectors nobody looks at,   *)
(* so they are those of the row only if nothing has damaged the page.  An  *)
(* unlisted page has no row, and no vectors if it had a row.               *)
Filled(p, v) == row[p] = v /\ \A i \in 0..(Chunks[v] - 1) : vecs[p][i] = v

RunMirrorsSite ==
  \A w \in Workers :
    (bulk[w].pc = "complete" /\ bulk[w].alone) =>
      LET run == bulk[w] IN
      /\ \A p \in Listed(run.list) \ run.failed :
           IF p \in run.skipped
           THEN Indexed(p, run.list[p]) /\ (p \in damaged \/ Exact(p))
           ELSE Filled(p, run.list[p])
      /\ \A p \in Pages \ Listed(run.list) :
           row[p] = None /\ (p \in run.found => vecs[p] = Blank)

(* A removal that stops half-way is found again: wherever it is, a page it *)
(* is to remove and nobody else worked on has its row still, or is gone    *)
(* from both stores.                                                       *)
RemovalFoundAgain ==
  \A w \in Workers : \A p \in bulk[w].found \ bulk[w].crossed :
    row[p] = None => vecs[p] = Blank
=============================================================================
