------------------------------ MODULE BulkJobs ------------------------------
(***************************************************************************)
(* Bulk indexing of one tenant: process_bulk_index in the web service      *)
(* writes an indexing_jobs row and enqueues a task, Redis and arq deliver  *)
(* the task at least once, and run_bulk_index_job in the worker process    *)
(* goes through the pages and keeps the row.  What indexing does to a page *)
(* is module PageIndex; here a page succeeds, fails, or breaks the         *)
(* session.                                                                *)
(*                                                                         *)
(* arq, as WorkerSettings configures it: a task stays in the queue until   *)
(* it has finished; a worker that starts it sets an in-progress key that   *)
(* expires after LockTtl, and counts the try.  A task that raises or times *)
(* out has finished.  A task that its worker's shutdown cancels, or whose  *)
(* worker dies, is still queued and is started again, MaxTries times at    *)
(* most.                                                                   *)
(*                                                                         *)
(* Time is counted in ticks since each event, up to the largest age that   *)
(* matters.                                                                *)
(***************************************************************************)
EXTENDS Naturals, Sequences, FiniteSets

CONSTANTS
  Requests,    \* POST /index/bulk calls; the job a call creates has its name
  Workers,     \* arq worker processes
  MaxJobs,     \* WORKER_MAX_JOBS
  MaxTries,    \* max_tries
  Total,       \* pages of a job
  JobTimeout,  \* WORKER_JOB_TIMEOUT
  LockTtl,     \* arq's in-progress key lives job_timeout + 10 seconds
  StaleAfter,  \* STALE_JOB_MINUTES
  MaxStops,    \* bound on how often web requests and workers are stopped
  Outages      \* whether Postgres and Redis may fail

ASSUME BulkJobsAssumption ==
  /\ MaxJobs \in Nat \ {0} /\ MaxTries \in Nat \ {0} /\ Total \in Nat \ {0}
  /\ JobTimeout \in Nat \ {0} /\ LockTtl \in Nat /\ JobTimeout < LockTtl
  /\ StaleAfter \in Nat /\ JobTimeout <= StaleAfter
  /\ MaxStops \in Nat /\ Outages \in BOOLEAN

VARIABLES
  req,      \* req[r]: where the web request is
  job,      \* job[r]: the indexing_jobs row
  started,  \* started[r]: age of started_at while the row is "processing"
  queue,    \* tasks in arq's queue
  tries,    \* tries[r]: arq's retry counter
  lock,     \* lock[r]: ticks until the in-progress key expires, 0 if none
  worker,   \* worker[w]: "down", "sweeping" or "up"
  stale,    \* stale[w]: the ids sweep_stale_jobs selected
  run,      \* run[w][r]: worker w's run of the task
  stops,    \* stops so far
  spoiled   \* ghost: jobs something befell that keeps them from their end

webVars == <<req>>
rowVars == <<job, started>>
arqVars == <<queue, tries, lock>>
vars == <<req, job, started, queue, tries, lock, worker, stale, run, stops, spoiled>>

-----------------------------------------------------------------------------
NoJob == [status |-> "none", done |-> 0, bad |-> 0, errors |-> <<>>]
Off == [pc |-> "off", page |-> 0, age |-> 0]
InTask == {"begin", "page", "detect", "complete", "fail"}  \* inside the coroutine
Live(w, r) == run[w][r].pc # "off"
Runs(w) == {r \in Requests : Live(w, r)}
Active(r) == job[r].status \in {"queued", "processing"}
Terminal == {"completed", "failed"}

Init ==
  /\ req = [r \in Requests |-> "new"]
  /\ job = [r \in Requests |-> NoJob]
  /\ started = [r \in Requests |-> 0]
  /\ queue = {}
  /\ tries = [r \in Requests |-> 0]
  /\ lock = [r \in Requests |-> 0]
  /\ worker = [w \in Workers |-> "down"]
  /\ stale = [w \in Workers |-> {}]
  /\ run = [w \in Workers |-> [r \in Requests |-> Off]]
  /\ stops = 0
  /\ spoiled = {}

-----------------------------------------------------------------------------
(* process_bulk_index, and the request around it                           *)

\* An active job of the tenant is answered instead of a new one.
Join(r) ==
  /\ req[r] = "new" /\ \E q \in Requests : Active(q)
  /\ req' = [req EXCEPT ![r] = "joined"]
  /\ UNCHANGED <<rowVars, arqVars, worker, stale, run, stops, spoiled>>

Check(r) ==
  /\ req[r] = "new" /\ \A q \in Requests : ~Active(q)
  /\ req' = [req EXCEPT ![r] = "insert"]
  /\ UNCHANGED <<rowVars, arqVars, worker, stale, run, stops, spoiled>>

Insert(r) ==
  /\ req[r] = "insert"
  /\ req' = [req EXCEPT ![r] = "enqueue"]
  /\ job' = [job EXCEPT ![r].status = "queued"]
  /\ started' = [started EXCEPT ![r] = 0]
  /\ UNCHANGED <<arqVars, worker, stale, run, stops, spoiled>>

Enqueue(r) ==
  /\ req[r] = "enqueue"
  /\ req' = [req EXCEPT ![r] = "accepted"]
  /\ queue' = queue \cup {r}
  /\ UNCHANGED <<rowVars, tries, lock, worker, stale, run, stops, spoiled>>

\* The INSERT or the enqueue raises (500), with no effect on what is committed.
RequestFails(r) ==
  /\ Outages /\ req[r] \in {"insert", "enqueue"}
  /\ req' = [req EXCEPT ![r] = "lost"]
  /\ UNCHANGED <<rowVars, arqVars, worker, stale, run, stops, spoiled>>

\* The web process stops between two awaits.
RequestStops(r) ==
  /\ stops < MaxStops /\ req[r] \in {"insert", "enqueue"}
  /\ req' = [req EXCEPT ![r] = "lost"]
  /\ stops' = stops + 1
  /\ UNCHANGED <<rowVars, arqVars, worker, stale, run, spoiled>>

-----------------------------------------------------------------------------
(* arq: starting and ending a task                                         *)

\* Mutant of CanPick: the in-progress key is not looked at.
CanPickLocked(w, r) ==
  /\ worker[w] = "up" /\ r \in queue /\ ~Live(w, r)
  /\ Cardinality(Runs(w)) < MaxJobs

CanPick(w, r) ==
  /\ worker[w] = "up" /\ r \in queue /\ lock[r] = 0
  /\ Cardinality(Runs(w)) < MaxJobs

\* Mutants of TriesLeft: one try too many, one too few.
TriesLeftOneMore(r) == tries[r] <= MaxTries
TriesLeftOneLess(r) == tries[r] + 1 < MaxTries

TriesLeft(r) == tries[r] < MaxTries

Pick(w, r) ==
  /\ CanPick(w, r) /\ TriesLeft(r)
  /\ tries' = [tries EXCEPT ![r] = @ + 1]
  /\ lock' = [lock EXCEPT ![r] = LockTtl]
  /\ run' = [run EXCEPT ![w][r] = [Off EXCEPT !.pc = "begin"]]
  /\ UNCHANGED <<webVars, rowVars, queue, worker, stale, stops, spoiled>>

\* Tried too often: arq drops the task without calling it.
Drop(w, r) ==
  /\ CanPick(w, r) /\ ~TriesLeft(r)
  /\ queue' = queue \ {r}
  /\ UNCHANGED <<webVars, rowVars, tries, lock, worker, stale, run, stops>>
  /\ spoiled' = spoiled \cup {r}

\* Mutant of Finish: the task is queued still, as if arq retried exceptions.
FinishQueued(w, r) ==
  /\ run[w][r].pc = "finish"
  /\ lock' = [lock EXCEPT ![r] = 0]
  /\ run' = [run EXCEPT ![w][r] = Off]
  /\ UNCHANGED <<webVars, rowVars, queue, tries, worker, stale, stops, spoiled>>

\* The coroutine has ended and arq records it.
Finish(w, r) ==
  /\ run[w][r].pc = "finish"
  /\ queue' = queue \ {r}
  /\ lock' = [lock EXCEPT ![r] = 0]
  /\ run' = [run EXCEPT ![w][r] = Off]
  /\ UNCHANGED <<webVars, rowVars, tries, worker, stale, stops, spoiled>>

\* wait_for cancels the coroutine.  CancelledError is not an Exception, so
\* run_bulk_index_job does not mark the row; arq sees TimeoutError: finished.
Timeout(w, r) ==
  /\ run[w][r].pc \in InTask /\ run[w][r].age = JobTimeout
  /\ run' = [run EXCEPT ![w][r].pc = "finish"]
  /\ UNCHANGED <<webVars, rowVars, arqVars, worker, stale, stops>>
  /\ spoiled' = spoiled \cup {r}

-----------------------------------------------------------------------------
(* run_bulk_index_job                                                      *)

To(w, r, pc) == run' = [run EXCEPT ![w][r].pc = pc]

BeginRow(row) == [row EXCEPT !.status = "processing"]

Begin(w, r) ==
  /\ run[w][r].pc = "begin"
  /\ job' = [job EXCEPT ![r] = BeginRow(@)]
  /\ started' = [started EXCEPT ![r] = 0]
  /\ To(w, r, "page")
  /\ UNCHANGED <<webVars, arqVars, worker, stale, stops, spoiled>>

\* The commit before the try block raises: arq sees the exception, finished.
BeginFails(w, r) ==
  /\ Outages /\ run[w][r].pc = "begin"
  /\ To(w, r, "finish")
  /\ UNCHANGED <<webVars, rowVars, arqVars, worker, stale, stops>>
  /\ spoiled' = spoiled \cup {r}

\* Mutant of IsLast: the loop ends one page early.
IsLastEarly(page) == page + 1 >= Total

IsLast(page) == page = Total

NextPage(w, r) ==
  LET page == run[w][r].page + 1 IN
  run' = [run EXCEPT ![w][r].page = page,
                     ![w][r].pc = IF IsLast(page) THEN "detect" ELSE "page"]

\* Mutant of AddError: the list is only ever changed in place.
AddErrorInPlace(errors, e) == errors

\* The list is changed in place, which SQLAlchemy notices only when the
\* column held no list or an empty one: [] or [] makes a new list.
AddError(errors, e) == IF errors = <<>> THEN <<e>> ELSE errors

PageDone(w, r) ==       \* indexed or skipped
  /\ run[w][r].pc = "page"
  /\ job' = [job EXCEPT ![r].done = @ + 1]
  /\ NextPage(w, r)
  /\ UNCHANGED <<webVars, started, arqVars, worker, stale, stops, spoiled>>

PageFails(w, r) ==      \* Pinecone or OpenAI gave up on this page
  /\ run[w][r].pc = "page"
  /\ job' = [job EXCEPT ![r].bad = @ + 1, ![r].errors = AddError(@, "page_error")]
  /\ NextPage(w, r)
  /\ UNCHANGED <<webVars, started, arqVars, worker, stale, stops, spoiled>>

\* Deletion detection removed the pages that the site no longer has.
Detect(w, r) ==
  /\ run[w][r].pc = "detect"
  /\ To(w, r, "complete")
  /\ UNCHANGED <<webVars, rowVars, arqVars, worker, stale, stops, spoiled>>

CompletedRow(row) == [row EXCEPT !.status = "completed"]

Complete(w, r) ==
  /\ run[w][r].pc = "complete"
  /\ job' = [job EXCEPT ![r] = CompletedRow(@)]
  /\ To(w, r, "finish")
  /\ UNCHANGED <<webVars, started, arqVars, worker, stale, stops, spoiled>>

\* An exception in deletion detection, or one of a page that the handler in
\* the loop cannot refresh after: a commit that conflicted with another
\* request's, or Postgres, breaks the session until it is rolled back.
BreaksOff(w, r) ==
  /\ \/ run[w][r].pc \in {"page", "detect"}
     \/ Outages /\ run[w][r].pc = "complete"
  /\ To(w, r, "fail")
  /\ UNCHANGED <<webVars, rowVars, arqVars, worker, stale, stops, spoiled>>

FailedRow(row) ==
  [row EXCEPT !.status = "failed", !.errors = AddError(@, "job_error")]

MarkFailed(w, r) ==
  /\ run[w][r].pc = "fail"
  /\ job' = [job EXCEPT ![r] = FailedRow(@)]
  /\ To(w, r, "finish")
  /\ UNCHANGED <<webVars, started, arqVars, worker, stale, stops, spoiled>>

MarkFails(w, r) ==
  /\ Outages /\ run[w][r].pc = "fail"
  /\ To(w, r, "finish")
  /\ UNCHANGED <<webVars, rowVars, arqVars, worker, stale, stops>>
  /\ spoiled' = spoiled \cup {r}

-----------------------------------------------------------------------------
(* get_job_status                                                          *)

\* The errors that are JobErrors, with a page and a text.
JobErrors == {"page_error"}

\* JobStatusResponse validates each stored error; one that is no JobError
\* makes the call raise.
StatusReturns(r) == \A i \in DOMAIN job[r].errors : job[r].errors[i] \in JobErrors

-----------------------------------------------------------------------------
(* Worker processes                                                        *)

\* Mutant of IsStale: the cutoff itself is stale already.
IsStaleAtCutoff(r) == job[r].status = "processing" /\ started[r] >= StaleAfter

IsStale(r) == job[r].status = "processing" /\ started[r] > StaleAfter

\* on_startup, first half: SELECT the stale ids.
StartWorker(w) ==
  /\ worker[w] = "down"
  /\ worker' = [worker EXCEPT ![w] = "sweeping"]
  /\ stale' = [stale EXCEPT ![w] = {r \in Requests : IsStale(r)}]
  /\ UNCHANGED <<webVars, rowVars, arqVars, run, stops, spoiled>>

\* Second half: UPDATE them by id.
Sweep(w) ==
  /\ worker[w] = "sweeping"
  /\ job' = [r \in Requests |->
               IF r \in stale[w] THEN [job[r] EXCEPT !.status = "failed"] ELSE job[r]]
  /\ worker' = [worker EXCEPT ![w] = "up"]
  /\ stale' = [stale EXCEPT ![w] = {}]
  /\ UNCHANGED <<webVars, started, arqVars, run, stops, spoiled>>

StopWorker(w) ==
  /\ stops < MaxStops /\ worker[w] # "down"
  /\ stops' = stops + 1
  /\ worker' = [worker EXCEPT ![w] = "down"]
  /\ stale' = [stale EXCEPT ![w] = {}]
  /\ run' = [run EXCEPT ![w] = [r \in Requests |-> Off]]
  /\ UNCHANGED <<webVars, rowVars, queue, tries, spoiled>>

\* SIGTERM: the runs are cancelled, arq lets go of their in-progress keys.
Shutdown(w) ==
  /\ StopWorker(w)
  /\ lock' = [r \in Requests |-> IF Live(w, r) THEN 0 ELSE lock[r]]

\* SIGKILL: the in-progress keys stay until they expire.
Crash(w) ==
  /\ StopWorker(w)
  /\ UNCHANGED lock

-----------------------------------------------------------------------------
Min2(a, b) == IF a < b THEN a ELSE b

\* Mutant of Expiring: the in-progress key has no time to live.
ExpiringNever(ticks) == ticks

Expiring(ticks) == IF ticks = 0 THEN 0 ELSE ticks - 1

\* A timeout fires when it is due, so no run gets older than JobTimeout.
Tick ==
  /\ \A w \in Workers, r \in Requests :
       Live(w, r) => run[w][r].age < JobTimeout
  /\ started' = [r \in Requests |-> IF job[r].status = "processing"
                                   THEN Min2(started[r] + 1, StaleAfter + 1) ELSE 0]
  /\ lock' = [r \in Requests |-> Expiring(lock[r])]
  /\ run' = [w \in Workers |-> [r \in Requests |->
               IF Live(w, r) THEN [run[w][r] EXCEPT !.age = @ + 1] ELSE Off]]
  /\ UNCHANGED <<webVars, job, queue, tries, worker, stale, stops, spoiled>>

WebStep(r) == Join(r) \/ Check(r) \/ Insert(r) \/ Enqueue(r) \/ RequestFails(r)

TaskStep(w, r) ==
  \/ Begin(w, r) \/ BeginFails(w, r)
  \/ PageDone(w, r) \/ PageFails(w, r) \/ Detect(w, r) \/ Complete(w, r)
  \/ BreaksOff(w, r) \/ MarkFailed(w, r) \/ MarkFails(w, r)
  \/ Timeout(w, r) \/ Finish(w, r)

WorkerStep(w) ==
  \/ StartWorker(w) \/ Sweep(w)
  \/ \E r \in Requests : Pick(w, r) \/ Drop(w, r)

Next ==
  \/ \E r \in Requests : WebStep(r) \/ RequestStops(r)
  \/ \E w \in Workers : WorkerStep(w) \/ Shutdown(w) \/ Crash(w)
  \/ \E w \in Workers, r \in Requests : TaskStep(w, r)
  \/ Tick

Spec == Init /\ [][Next]_vars

\* The event loops run, the platform starts a stopped worker again, and time
\* goes on.
Fairness(requests) ==
  /\ \A r \in requests : WF_vars(WebStep(r))
  /\ \A w \in Workers : WF_vars(StartWorker(w) \/ Sweep(w))
  /\ \A w \in Workers, r \in Requests :
       WF_vars(TaskStep(w, r)) /\ WF_vars(Pick(w, r) \/ Drop(w, r))
  /\ WF_vars(Tick)

-----------------------------------------------------------------------------
Run == [pc : InTask \cup {"off", "finish"}, page : 0..Total, age : 0..JobTimeout]

TypeOK ==
  /\ req \in [Requests -> {"new", "joined", "insert", "enqueue", "accepted", "lost"}]
  /\ job \in [Requests -> [status : {"none", "queued", "processing"} \cup Terminal,
                           done : Nat, bad : Nat,
                           errors : Seq({"page_error", "job_error"})]]
  /\ started \in [Requests -> 0..(StaleAfter + 1)]
  /\ queue \in SUBSET Requests
  /\ tries \in [Requests -> 0..MaxTries]
  /\ lock \in [Requests -> 0..LockTtl]
  /\ worker \in [Workers -> {"down", "sweeping", "up"}]
  /\ stale \in [Workers -> SUBSET Requests]
  /\ run \in [Workers -> [Requests -> Run]]
  /\ stops \in 0..MaxStops
  /\ spoiled \in SUBSET Requests

(* Two workers never run the same job at once, although the in-progress    *)
(* key expires by itself: a run has timed out before its key has.          *)
RunsExclusive ==
  \A w, x \in Workers, r \in Requests : Live(w, r) /\ Live(x, r) => w = x

(* The row's counters are never reset, so a job that was run again counts  *)
(* pages again, but at most once per try; and a completed job has counted  *)
(* every page, exactly once each when it was run once.                     *)
CountersTrue ==
  \A r \in Requests :
    LET counted == job[r].done + job[r].bad IN
    /\ counted <= tries[r] * Total
    /\ job[r].status = "completed" => counted >= Total

(* What a failed page leaves to be read of it.  Appending in place keeps   *)
(* the first error alone: a job with failed pages shows one page's error,  *)
(* in one try always; only a run that an earlier try had already marked    *)
(* failed shows the job's error in its place, and none of its pages'.      *)
FailuresTold ==
  \A r \in Requests : job[r].bad > 0 =>
    \/ job[r].errors = <<"page_error">>
    \/ tries[r] > 1 /\ job[r].errors = <<"job_error">>

(* What the startup sweep selects is orphaned: no worker is in a run that  *)
(* has begun the job.  STALE_JOB_MINUTES is no less than the job timeout,  *)
(* and a run that begins a job sets its started_at again.                  *)
HasBegun(w, r) == run[w][r].pc \in InTask \ {"begin"}

SelectsOrphans ==
  [][\A w \in Workers : StartWorker(w) =>
       \A v \in Workers : \A r \in stale'[w] : ~HasBegun(v, r)]_vars

(* An end is final, unless arq has delivered the task again because a      *)
(* worker stopped: neither the run that ended the job nor a sweep gives a  *)
(* "completed" or "failed" job another status in the task's first try.     *)
(* (In a later one a worker that starts may do so: it sweeps by id what    *)
(* was "processing" when it looked.)  No exception reopens a job, as the   *)
(* comment in run_bulk_index_job expects of its raise.                     *)
ReopenedOnlyByRetry ==
  [][\A r \in Requests :
       (job[r].status \in Terminal /\ job'[r].status # job[r].status)
         => tries[r] > 1 /\ stops > 0]_vars

(* An accepted job comes to its end, through every crash and shutdown that *)
(* max_tries allows, whichever worker is started again.  Nothing but these *)
(* four can leave it "queued" or "processing" for ever: the job timeout, a *)
(* task dropped after too many tries, and Postgres failing just when a run *)
(* begins or when its failure is to be marked.                             *)
AcceptedResolves ==
  \A r \in Requests :
    req[r] = "accepted" ~> job[r].status \in Terminal \/ r \in spoiled

-----------------------------------------------------------------------------
(* What comments and docs say of bulk jobs, and the code does not do.      *)

(* "Nothing gets lost: queued work resumes safely if anything restarts"    *)
(* (worker-architecture): a queued job is on its way to Redis or in it.    *)
QueuedIsInRedis ==
  \A r \in Requests : job[r].status = "queued" => req[r] = "enqueue" \/ r \in queue

(* Any unhandled error marks the job failed "instead of leaving it stuck   *)
(* 'processing' forever" (run_bulk_index_job): once arq is done with the   *)
(* task the row is not "processing".                                       *)
EndedIsNotProcessing ==
  \A r \in Requests : job[r].status = "processing" => r \in queue

(* "Bulk indexing job fails: mark job as failed, return errors in status   *)
(* endpoint" (docs/01): the status of a failed job can be returned.        *)
FailedJobsTold ==
  \A r \in Requests : job[r].status = "failed" => StatusReturns(r)
=============================================================================
