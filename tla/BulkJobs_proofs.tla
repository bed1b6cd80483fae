-------------------------- MODULE BulkJobs_proofs --------------------------
(***************************************************************************)
(* Proofs about BulkJobs, for any requests, workers, pages of a job, tries *)
(* and timeouts that the assumption allows, and any number of stops: its   *)
(* types, that runs exclude each other, that the row tells the truth about *)
(* pages and failures, and that what the sweep selects and what is         *)
(* reopened is what the code means to.                                     *)
(***************************************************************************)
EXTENDS BulkJobs, TLAPS

-----------------------------------------------------------------------------
(* The inductive invariant, request by request.                            *)

\* A run starts at the first page; one that is in the loop has a page to go,
\* and one behind it has none.
InBounds(w, r) ==
  /\ run[w][r].pc = "begin" => run[w][r].page = 0
  /\ run[w][r].pc = "page" => run[w][r].page < Total
  /\ run[w][r].pc \in {"detect", "complete"} => run[w][r].page = Total

Typed == TypeOK /\ \A w \in Workers, r \in Requests : InBounds(w, r)

\* Runs of r exclude each other because the in-progress key of a run has as
\* long to live as the run is old.
Exclusive(r) == \A w, x \in Workers : Live(w, r) /\ Live(x, r) => w = x

Holds(w, r) ==
  Live(w, r) => /\ lock[r] + run[w][r].age = LockTtl
                /\ r \in queue /\ tries[r] > 0

\* started_at is set no earlier than the run that sets it was picked.
StartedInRun(w, r) == HasBegun(w, r) => started[r] <= run[w][r].age

\* A run has counted the pages behind it, and the tries before it no more
\* than all pages each.
Counted(r) == job[r].done + job[r].bad

Budget(r) == tries[r] * Total

CountedBy(w, r) ==
  Live(w, r) => /\ run[w][r].page <= Counted(r)
                /\ Counted(r) + Total <= Budget(r) + run[w][r].page

Counts(r) ==
  /\ Counted(r) <= Budget(r)
  /\ job[r].status = "completed" => Counted(r) >= Total

\* A failed page leaves the first error of the row.  In the first try that is
\* a page's error unless the task has come to its end, with no page failed.
Tells(r) ==
  /\ job[r].errors \in {<<>>, <<"page_error">>, <<"job_error">>}
  /\ job[r].bad > 0 => job[r].errors # <<>>
  /\ tries[r] = 0 => job[r].errors = <<>>
  /\ job[r].errors = <<"job_error">> /\ tries[r] = 1 =>
       job[r].bad = 0 /\ \A w \in Workers : run[w][r].pc \notin InTask

\* A task is queued and tried only after its request, and its row is begun
\* and swept only after a try.
Ordered(r) ==
  /\ req[r] \in {"new", "joined", "insert"} => job[r].status = "none"
  /\ req[r] # "accepted" => r \notin queue /\ tries[r] = 0
  /\ tries[r] = 0 => /\ job[r].status \in {"none", "queued"}
                     /\ \A w \in Workers : r \notin stale[w]

\* Only a stop leaves a tried task in the queue without a run.
Stopped(r) ==
  /\ tries[r] > 1 => stops > 0
  /\ r \in queue /\ tries[r] > 0 /\ stops = 0 => \E w \in Workers : Live(w, r)

\* Nobody but the run of the first try changes the row while it lasts.
FirstTry(w, r) ==
  tries[r] = 1 =>
    /\ run[w][r].pc = "begin" => job[r].status \in {"none", "queued"}
    /\ HasBegun(w, r) => job[r].status = "processing"
    /\ r \in stale[w] => /\ job[r].status \in {"processing", "failed"}
                         /\ \A v \in Workers : run[v][r].pc \notin InTask

ByWorker(w, r) ==
  Holds(w, r) /\ StartedInRun(w, r) /\ CountedBy(w, r) /\ FirstTry(w, r)

Sound(r) ==
  /\ Exclusive(r) /\ Counts(r) /\ Tells(r) /\ Ordered(r) /\ Stopped(r)
  /\ \A w \in Workers : ByWorker(w, r)

Inv == Typed /\ \A r \in Requests : Sound(r)

-----------------------------------------------------------------------------
(* What steps do to rows and runs, without the records.                    *)
Pcs == InTask \cup {"off", "finish"}

Row == [status : {"none", "queued", "processing"} \cup Terminal,
        done : Nat, bad : Nat, errors : Seq({"page_error", "job_error"})]

\* Only worker w's run of r changes, and remains a run.
OnlyRun(w, r) ==
  /\ run' \in [Workers -> [Requests -> Run]]
  /\ \A v \in Workers, q \in Requests : v # w \/ q # r => run'[v][q] = run[v][q]

\* Only the row of r changes, and remains a row.
OnlyRow(r) ==
  /\ job' \in [Requests -> Row]
  /\ \A q \in Requests : q # r => job'[q] = job[q]

\* A run that is picked, that goes on, or that ends.
LEMMA SetRunEffect ==
  ASSUME TypeOK, NEW w \in Workers, NEW r \in Requests, NEW x \in Run,
         run' = [run EXCEPT ![w] = [run[w] EXCEPT ![r] = x]]
  PROVE  OnlyRun(w, r) /\ run'[w][r] = x
<1> USE DEF TypeOK
<1>1. run[w] \in [Requests -> Run]
  OBVIOUS
<1>2. [run[w] EXCEPT ![r] = x] \in [Requests -> Run]
  BY <1>1
<1>3. run'[w] = [run[w] EXCEPT ![r] = x]
  OBVIOUS
<1>4. run' \in [Workers -> [Requests -> Run]]
  BY <1>2
<1>5. ASSUME NEW v \in Workers, NEW q \in Requests, v # w \/ q # r
      PROVE  run'[v][q] = run[v][q]
  BY <1>1, <1>3, <1>5
<1>6. run'[w][r] = x
  BY <1>1, <1>3
<1> QED
  BY <1>4, <1>5, <1>6 DEF OnlyRun

\* A step of the task that is not the next page.
LEMMA ToEffect ==
  ASSUME TypeOK, NEW w \in Workers, NEW r \in Requests, NEW pc \in Pcs, To(w, r, pc)
  PROVE  /\ OnlyRun(w, r)
         /\ run'[w][r].pc = pc
         /\ run'[w][r].page = run[w][r].page
         /\ run'[w][r].age = run[w][r].age
<1>1. PICK o \in Run : o = run[w][r]
  BY DEF TypeOK
<1> DEFINE x == [o EXCEPT !.pc = pc]
<1>2. x \in Run /\ x.pc = pc /\ x.page = o.page /\ x.age = o.age
  BY DEF Run, Pcs
<1>3. run' = [run EXCEPT ![w] = [run[w] EXCEPT ![r] = x]]
  BY <1>1 DEF To
<1> HIDE DEF x
<1> QED
  BY <1>1, <1>2, <1>3, SetRunEffect

\* The next page of the task, or the end of the loop.
LEMMA NextPageEffect ==
  ASSUME Typed, NEW w \in Workers, NEW r \in Requests, run[w][r].pc = "page",
         NextPage(w, r)
  PROVE  /\ OnlyRun(w, r)
         /\ run'[w][r].page = run[w][r].page + 1
         /\ run'[w][r].age = run[w][r].age
         /\ \/ run'[w][r].pc = "page" /\ run'[w][r].page < Total
            \/ run'[w][r].pc = "detect" /\ run'[w][r].page = Total
<1>1. PICK o \in Run : o = run[w][r]
  BY DEF Typed, TypeOK
<1> DEFINE page == o.page + 1
           pc == IF IsLast(page) THEN "detect" ELSE "page"
           y == [o EXCEPT !.page = page]
           x == [y EXCEPT !.pc = pc]
<1>2. o.page < Total
  BY <1>1 DEF Typed, InBounds
<1>3. page \in 0..Total /\ pc \in Pcs
  BY <1>2, BulkJobsAssumption DEF Run, Pcs, InTask
<1>4. x \in Run /\ x.pc = pc /\ x.page = page /\ x.age = o.age
  <2> HIDE DEF page, pc
  <2>1. y \in Run /\ y.page = page /\ y.age = o.age
    BY <1>3 DEF Run
  <2> HIDE DEF y
  <2> QED
    BY <2>1, <1>3 DEF Run, Pcs
<1>5. run' = [run EXCEPT ![w] = [run[w] EXCEPT ![r] = x]]
  BY <1>1 DEF NextPage
<1>6. (pc = "page" /\ page < Total) \/ (pc = "detect" /\ page = Total)
  BY <1>3, BulkJobsAssumption DEF IsLast
<1> HIDE DEF x
<1> QED
  BY <1>1, <1>4, <1>5, <1>6, SetRunEffect DEF Typed

\* A row that is changed as a whole.
LEMMA SetRowEffect ==
  ASSUME TypeOK, NEW r \in Requests, NEW row \in Row, job' = [job EXCEPT ![r] = row]
  PROVE  OnlyRow(r) /\ job'[r] = row
BY DEF TypeOK, OnlyRow, Row

\* The list of errors after one more is a list that is not empty.
LEMMA AddErrorEffect ==
  ASSUME NEW errors \in Seq({"page_error", "job_error"}),
         NEW e \in {"page_error", "job_error"}
  PROVE  /\ AddError(errors, e) \in Seq({"page_error", "job_error"})
         /\ errors = <<>> => AddError(errors, e) = <<e>>
         /\ errors # <<>> => AddError(errors, e) = errors
<1>1. <<e>> \in Seq({"page_error", "job_error"})
  OBVIOUS
<1> QED
  BY <1>1 DEF AddError

\* What begins, completes or fails a row leaves its counters alone, and only
\* failing it adds to its errors.
LEMMA RowEffect ==
  ASSUME NEW row \in Row
  PROVE  /\ \A x \in {BeginRow(row), CompletedRow(row), FailedRow(row)} :
              x \in Row /\ x.done = row.done /\ x.bad = row.bad
         /\ BeginRow(row).status = "processing"
         /\ CompletedRow(row).status = "completed"
         /\ FailedRow(row).status = "failed"
         /\ BeginRow(row).errors = row.errors
         /\ CompletedRow(row).errors = row.errors
         /\ FailedRow(row).errors = AddError(row.errors, "job_error")
<1>1. AddError(row.errors, "job_error") \in Seq({"page_error", "job_error"})
  BY AddErrorEffect DEF Row
<1> QED
  BY <1>1 DEF Row, BeginRow, CompletedRow, FailedRow, Terminal

-----------------------------------------------------------------------------
(* What a step of a task changes, whichever it is.                         *)

\* A run that moves on inside its task counts the page it goes past, adds an
\* error for a failed one or for the job as it ends, and changes the row's
\* status only as it begins the job or ends it.
Goes(w, r) ==
  /\ run[w][r].pc \in InTask /\ run'[w][r].pc \in Pcs \ {"off", "begin"}
  /\ run'[w][r].age = run[w][r].age /\ InBounds(w, r)'
  /\ UNCHANGED <<queue, lock>>
  /\ \/ /\ run'[w][r].page = run[w][r].page /\ Counted(r)' = Counted(r)
     \/ /\ run'[w][r].page = run[w][r].page + 1 /\ Counted(r)' = Counted(r) + 1
  /\ \/ job'[r].bad = job[r].bad /\ job'[r].errors = job[r].errors
     \/ job'[r].errors = AddError(job[r].errors, "page_error")
     \/ /\ job'[r].bad = job[r].bad /\ run'[w][r].pc = "finish"
        /\ job'[r].errors = AddError(job[r].errors, "job_error")
  /\ \/ /\ job'[r].status = job[r].status /\ started' = started
        /\ HasBegun(w, r)' => HasBegun(w, r)
     \/ /\ job'[r].status = "processing" /\ started' = [started EXCEPT ![r] = 0]
        /\ run[w][r].pc = "begin"
     \/ /\ job'[r].status \in Terminal /\ started' = started
        /\ HasBegun(w, r) /\ ~HasBegun(w, r)'
        /\ job'[r].status = "completed" => run[w][r].pc = "complete"

\* A run that arq records as finished leaves the queue with its key.
Ends(w, r) ==
  /\ run[w][r].pc = "finish" /\ run'[w][r].pc = "off" /\ InBounds(w, r)'
  /\ queue' = queue \ {r} /\ lock' = [lock EXCEPT ![r] = 0]
  /\ UNCHANGED <<job, started>>

Moves(w, r) ==
  /\ OnlyRun(w, r) /\ OnlyRow(r)
  /\ UNCHANGED <<req, tries, worker, stale, stops>> /\ spoiled' \in SUBSET Requests
  /\ Goes(w, r) \/ Ends(w, r)

\* A row that stays the same is still a row.
LEMMA SameRow ==
  ASSUME TypeOK, NEW r \in Requests, job' = job
  PROVE  OnlyRow(r)
BY DEF TypeOK, OnlyRow, Row

\* A step that only goes to another place in the task.
LEMMA QuietMoves ==
  ASSUME Typed, NEW w \in Workers, NEW r \in Requests, NEW pc \in Pcs,
         run[w][r].pc \in InTask, pc \notin {"off", "begin", "page", "detect"},
         pc = "complete" => run[w][r].pc = "detect",
         run[w][r].pc = "begin" => pc = "finish",
         To(w, r, pc), spoiled' \in SUBSET Requests,
         UNCHANGED <<webVars, rowVars, arqVars, worker, stale, stops>>
  PROVE  Moves(w, r)
<1>1. OnlyRun(w, r) /\ run'[w][r].pc = pc /\ run'[w][r].page = run[w][r].page
      /\ run'[w][r].age = run[w][r].age
  BY ToEffect DEF Typed
<1>2. InBounds(w, r)'
  BY <1>1 DEF Typed, InBounds
<1>3. Counted(r)' = Counted(r)
  BY DEF Counted, rowVars
<1>4. HasBegun(w, r)' => HasBegun(w, r)
  BY <1>1 DEF HasBegun, InTask
<1>5. OnlyRow(r)
  BY SameRow DEF Typed, rowVars
<1> QED
  BY <1>1, <1>2, <1>3, <1>4, <1>5 DEF Moves, Goes, webVars, rowVars, arqVars

\* A step that writes the row, a whole one, and goes on.
LEMMA WriteMoves ==
  ASSUME Typed, NEW w \in Workers, NEW r \in Requests, NEW pc \in {"page", "finish"},
         NEW row \in Row, row.done = job[r].done, row.bad = job[r].bad,
         \/ row.errors = job[r].errors
         \/ row.errors = AddError(job[r].errors, "job_error") /\ pc = "finish",
         \/ /\ row.status = "processing" /\ started' = [started EXCEPT ![r] = 0]
            /\ run[w][r].pc = "begin"
         \/ /\ row.status \in Terminal /\ started' = started
            /\ run[w][r].pc \in {"complete", "fail"} /\ pc = "finish"
            /\ row.status = "completed" => run[w][r].pc = "complete",
         job' = [job EXCEPT ![r] = row],
         To(w, r, pc), UNCHANGED <<webVars, arqVars, worker, stale, stops, spoiled>>
  PROVE  Moves(w, r)
<1>1. OnlyRun(w, r) /\ run'[w][r].pc = pc /\ run'[w][r].page = run[w][r].page
      /\ run'[w][r].age = run[w][r].age
  BY ToEffect DEF Typed, Pcs, InTask
<1>2. InBounds(w, r)'
  BY <1>1, BulkJobsAssumption DEF Typed, InBounds
<1>3. OnlyRow(r) /\ job'[r] = row
  BY SetRowEffect DEF Typed
<1>4. Counted(r)' = Counted(r)
  BY <1>3 DEF Counted
<1>5. run[w][r].pc \in InTask /\ pc \in Pcs \ {"off", "begin"}
  BY DEF InTask, Pcs
<1>6. run[w][r].pc \in {"complete", "fail"} => HasBegun(w, r)
  BY DEF HasBegun, InTask
<1>7. pc = "finish" => ~HasBegun(w, r)'
  BY <1>1 DEF HasBegun, InTask
<1>8. spoiled' \in SUBSET Requests
  BY DEF Typed, TypeOK
<1> QED
  BY <1>1, <1>2, <1>3, <1>4, <1>5, <1>6, <1>7, <1>8 DEF Moves, Goes, webVars, arqVars

\* A page that is done or fails.
LEMMA PageMoves ==
  ASSUME Typed, NEW w \in Workers, NEW r \in Requests, PageDone(w, r) \/ PageFails(w, r)
  PROVE  Moves(w, r)
<1>1. PICK row \in Row : row = job[r]
  BY DEF Typed, TypeOK, Row
<1> DEFINE errs == AddError(row.errors, "page_error")
           more == [row EXCEPT !.done = @ + 1]
           worse == [row EXCEPT !.bad = @ + 1]
           told == [worse EXCEPT !.errors = errs]
<1>2. errs \in Seq({"page_error", "job_error"})
  BY AddErrorEffect DEF Row
<1>3. /\ more \in Row /\ more.done = row.done + 1 /\ more.bad = row.bad
      /\ more.errors = row.errors /\ more.status = row.status
  BY DEF Row
<1>4. /\ told \in Row /\ told.done = row.done /\ told.bad = row.bad + 1
      /\ told.errors = errs /\ told.status = row.status
  <2>1. /\ worse \in Row /\ worse.done = row.done /\ worse.bad = row.bad + 1
        /\ worse.status = row.status
    BY DEF Row
  <2> HIDE DEF worse, errs
  <2> QED
    BY <2>1, <1>2 DEF Row
<1>5. job' = [job EXCEPT ![r] = more] \/ job' = [job EXCEPT ![r] = told]
  <2>1. CASE PageDone(w, r)
    BY <2>1, <1>1 DEF PageDone
  <2>2. CASE PageFails(w, r)
    BY <2>2, <1>1 DEF PageFails
  <2> QED
    BY <2>1, <2>2
<1> HIDE DEF more, told, errs
<1>6. OnlyRow(r) /\ (job'[r] = more \/ job'[r] = told)
  BY <1>3, <1>4, <1>5, SetRowEffect DEF Typed
<1>7. run[w][r].pc = "page" /\ NextPage(w, r)
      /\ UNCHANGED <<webVars, started, arqVars, worker, stale, stops, spoiled>>
  BY DEF PageDone, PageFails
<1>8. /\ OnlyRun(w, r)
      /\ run'[w][r].page = run[w][r].page + 1
      /\ run'[w][r].age = run[w][r].age
      /\ \/ run'[w][r].pc = "page" /\ run'[w][r].page < Total
         \/ run'[w][r].pc = "detect" /\ run'[w][r].page = Total
  BY <1>7, NextPageEffect
<1>9. InBounds(w, r)' /\ HasBegun(w, r)
  BY <1>7, <1>8 DEF InBounds, HasBegun, InTask
<1>10. Counted(r)' = Counted(r) + 1
  <2>1. row.done \in Nat /\ row.bad \in Nat
    BY DEF Row
  <2> QED
    BY <2>1, <1>1, <1>3, <1>4, <1>6 DEF Counted
<1>11. spoiled' \in SUBSET Requests
  BY <1>7 DEF Typed, TypeOK
<1>12. run[w][r].pc \in InTask /\ run'[w][r].pc \in Pcs \ {"off", "begin"}
  BY <1>7, <1>8 DEF InTask, Pcs
<1>13. \/ job'[r].bad = job[r].bad /\ job'[r].errors = job[r].errors
       \/ job'[r].errors = AddError(job[r].errors, "page_error")
  BY <1>1, <1>3, <1>4, <1>6 DEF errs
<1>14. job'[r].status = job[r].status
  BY <1>1, <1>3, <1>4, <1>6
<1> QED
  BY <1>6, <1>7, <1>8, <1>9, <1>10, <1>11, <1>12, <1>13, <1>14
     DEF Moves, Goes, webVars, arqVars

\* A run that arq records as finished.
LEMMA FinishMoves ==
  ASSUME Typed, NEW w \in Workers, NEW r \in Requests, Finish(w, r)
  PROVE  Moves(w, r)
<1>1. Off \in Run
  BY BulkJobsAssumption DEF Off, Run, InTask
<1>2. run' = [run EXCEPT ![w] = [run[w] EXCEPT ![r] = Off]]
  BY DEF Finish
<1>3. OnlyRun(w, r) /\ run'[w][r] = Off
  BY <1>1, <1>2, SetRunEffect DEF Typed
<1>4. InBounds(w, r)' /\ run'[w][r].pc = "off"
  BY <1>3 DEF InBounds, Off
<1>5. OnlyRow(r) /\ spoiled' \in SUBSET Requests
  BY SameRow DEF Finish, Typed, TypeOK, rowVars
<1> QED
  BY <1>3, <1>4, <1>5 DEF Finish, Moves, Ends, webVars, rowVars

\* Every step of a task is such a move.
LEMMA TaskMoves ==
  ASSUME Typed, NEW w \in Workers, NEW r \in Requests, TaskStep(w, r)
  PROVE  Moves(w, r)
<1> USE DEF Pcs, InTask
<1>0. spoiled \in SUBSET Requests /\ spoiled \cup {r} \in SUBSET Requests
      /\ job[r] \in Row
  BY DEF Typed, TypeOK, Row
<1>1. CASE Begin(w, r)
  BY <1>0, <1>1, RowEffect, WriteMoves DEF Begin
<1>2. CASE BeginFails(w, r)
  BY <1>0, <1>2, QuietMoves DEF BeginFails
<1>3. CASE PageDone(w, r) \/ PageFails(w, r)
  BY <1>3, PageMoves
<1>4. CASE Detect(w, r)
  BY <1>0, <1>4, QuietMoves DEF Detect
<1>5. CASE Complete(w, r)
  BY <1>0, <1>5, RowEffect, WriteMoves DEF Complete, Terminal
<1>6. CASE BreaksOff(w, r)
  BY <1>0, <1>6, QuietMoves DEF BreaksOff
<1>7. CASE MarkFailed(w, r)
  BY <1>0, <1>7, RowEffect, WriteMoves DEF MarkFailed, Terminal
<1>8. CASE MarkFails(w, r)
  BY <1>0, <1>8, QuietMoves DEF MarkFails
<1>9. CASE Timeout(w, r)
  <2>1. To(w, r, "finish")
    BY <1>9 DEF Timeout, To
  <2> QED
    BY <1>0, <1>9, <2>1, QuietMoves DEF Timeout
<1>10. CASE Finish(w, r)
  BY <1>10, FinishMoves
<1> QED
  BY <1>1, <1>2, <1>3, <1>4, <1>5, <1>6, <1>7, <1>8, <1>9, <1>10 DEF TaskStep

-----------------------------------------------------------------------------
(* Requests that a step has nothing to do with.                            *)
Same(r) ==
  /\ req'[r] = req[r] /\ job'[r] = job[r] /\ started'[r] = started[r]
  /\ r \in queue' <=> r \in queue
  /\ tries'[r] = tries[r] /\ lock'[r] = lock[r]
  /\ \A w \in Workers : run'[w][r] = run[w][r] /\ (r \in stale'[w] => r \in stale[w])

\* What is said of a request outlasts steps about other requests, and stops.
LEMMA SameSound ==
  ASSUME TypeOK, TypeOK', NEW r \in Requests, Sound(r), Same(r), stops <= stops'
  PROVE  Sound(r)'
<1> USE DEF Sound, Same
<1>1. Exclusive(r)'
  BY DEF Exclusive, Live
<1>2. Counted(r)' = Counted(r) /\ Budget(r)' = Budget(r)
  BY DEF Counted, Budget
<1>3. Counts(r)' /\ Tells(r)'
  BY <1>2 DEF Counts, Tells
<1>4. Ordered(r)'
  BY DEF Ordered
<1>5. stops \in Nat /\ stops' \in Nat
  BY BulkJobsAssumption DEF TypeOK
<1>6. Stopped(r)'
  BY <1>5 DEF Stopped, Live
<1>7. ASSUME NEW w \in Workers
      PROVE  ByWorker(w, r)'
  <2>1. Holds(w, r)' /\ StartedInRun(w, r)'
    BY DEF ByWorker, Holds, StartedInRun, Live, HasBegun
  <2>2. CountedBy(w, r)'
    BY <1>2 DEF ByWorker, CountedBy, Live
  <2>3. FirstTry(w, r)'
    BY DEF ByWorker, FirstTry, HasBegun
  <2> QED
    BY <2>1, <2>2, <2>3 DEF ByWorker
<1> QED
  BY <1>1, <1>3, <1>4, <1>6, <1>7

-----------------------------------------------------------------------------
(* The invariant through each step.                                        *)

\* A task's step keeps the types.
LEMMA MovesTyped ==
  ASSUME Typed, NEW w \in Workers, NEW r \in Requests, Moves(w, r)
  PROVE  Typed'
<1>1. TypeOK'
  <2>1. /\ req' \in [Requests -> {"new", "joined", "insert", "enqueue", "accepted", "lost"}]
        /\ job' \in [Requests -> Row] /\ run' \in [Workers -> [Requests -> Run]]
        /\ tries' \in [Requests -> 0..MaxTries] /\ stops' \in 0..MaxStops
        /\ worker' \in [Workers -> {"down", "sweeping", "up"}]
        /\ stale' \in [Workers -> SUBSET Requests] /\ spoiled' \in SUBSET Requests
    BY DEF Moves, OnlyRow, OnlyRun, Typed, TypeOK
  <2>2. started' \in [Requests -> 0..(StaleAfter + 1)]
    <3>1. started' = started \/ started' = [started EXCEPT ![r] = 0]
      BY DEF Moves, Goes, Ends
    <3>2. started \in [Requests -> 0..(StaleAfter + 1)] /\ 0 \in 0..(StaleAfter + 1)
      BY BulkJobsAssumption DEF Typed, TypeOK
    <3> QED
      BY <3>1, <3>2
  <2>3. queue' \in SUBSET Requests
    BY DEF Moves, Goes, Ends, Typed, TypeOK
  <2>4. lock' \in [Requests -> 0..LockTtl]
    <3>1. lock' = lock \/ lock' = [lock EXCEPT ![r] = 0]
      BY DEF Moves, Goes, Ends
    <3>2. lock \in [Requests -> 0..LockTtl] /\ 0 \in 0..LockTtl
      BY BulkJobsAssumption DEF Typed, TypeOK
    <3> QED
      BY <3>1, <3>2
  <2> QED
    BY <2>1, <2>2, <2>3, <2>4 DEF TypeOK, Row
<1>2. ASSUME NEW v \in Workers, NEW q \in Requests
      PROVE  InBounds(v, q)'
  <2>1. CASE v = w /\ q = r
    BY <2>1 DEF Moves, Goes, Ends
  <2>2. CASE v # w \/ q # r
    BY <2>2 DEF Moves, OnlyRun, InBounds, Typed
  <2> QED
    BY <2>1, <2>2
<1> QED
  BY <1>1, <1>2 DEF Typed

\* Going on inside the task keeps what is said of its request.
LEMMA GoesSound ==
  ASSUME Inv, Typed', NEW w \in Workers, NEW r \in Requests, Moves(w, r), Goes(w, r)
  PROVE  Sound(r)'
<1>1. Sound(r) /\ Typed
  BY DEF Inv
<1>2. \A v \in Workers : v # w => run'[v][r] = run[v][r]
  BY DEF Moves, OnlyRun
<1>3. \A v \in Workers : Live(v, r)' <=> Live(v, r)
  BY <1>2 DEF Goes, Live, InTask
<1>4. Live(w, r) /\ ~(\E v \in Workers : v # w /\ Live(v, r))
  BY <1>1 DEF Sound, Exclusive, Goes, Live, InTask
<1>5. tries' = tries /\ queue' = queue /\ lock' = lock /\ stops' = stops /\ req' = req
      /\ stale' = stale
  BY DEF Moves, Goes
<1>6. tries[r] \in Nat \ {0} /\ r \in queue
  BY <1>1, <1>4 DEF Sound, ByWorker, Holds, Typed, TypeOK
<1>7. Budget(r)' = Budget(r) /\ Budget(r) \in Nat
  BY <1>5, <1>6, BulkJobsAssumption DEF Budget
<1>8. Counted(r) \in Nat /\ Counted(r)' \in Nat
  BY DEF Counted, Inv, Typed, TypeOK
<1>9. run[w][r] \in Run /\ run'[w][r] \in Run
  BY DEF Inv, Typed, TypeOK
<1>10. run[w][r].page \in 0..Total /\ run'[w][r].page \in 0..Total
  BY <1>9 DEF Run
<1>11. CountedBy(w, r)
  BY <1>1 DEF Sound, ByWorker
<1>12. CountedBy(w, r)'
  <2>1. \/ run'[w][r].page = run[w][r].page /\ Counted(r)' = Counted(r)
        \/ run'[w][r].page = run[w][r].page + 1 /\ Counted(r)' = Counted(r) + 1
    BY DEF Goes
  <2>2. /\ run[w][r].page <= Counted(r)
        /\ Counted(r) + Total <= Budget(r) + run[w][r].page
    BY <1>4, <1>11 DEF CountedBy
  <2>3. run'[w][r].page <= Counted(r)'
    BY <2>1, <2>2, <1>8, <1>10, BulkJobsAssumption
  <2>4. Counted(r)' + Total <= Budget(r) + run'[w][r].page
    BY <2>1, <2>2, <1>7, <1>8, <1>10, BulkJobsAssumption
  <2> QED
    BY <2>3, <2>4, <1>7 DEF CountedBy
<1>13. Counts(r)'
  <2>1. Counted(r)' <= Budget(r)'
    BY <1>3, <1>4, <1>7, <1>8, <1>10, <1>12, BulkJobsAssumption DEF CountedBy
  <2>2. ASSUME job'[r].status = "completed"
        PROVE  Counted(r)' >= Total
    <3>1. CASE job'[r].status = job[r].status
      BY <2>2, <3>1, <1>1, <1>8, BulkJobsAssumption DEF Sound, Counts, Goes
    <3>2. CASE run[w][r].pc = "complete"
      <4>1. run[w][r].page = Total
        BY <3>2, <1>1 DEF Typed, InBounds
      <4> QED
        BY <4>1, <1>4, <1>8, <1>11, BulkJobsAssumption DEF CountedBy, Goes
    <3> QED
      BY <2>2, <3>1, <3>2 DEF Goes
  <2> QED
    BY <2>1, <2>2 DEF Counts
<1>14. Tells(r)'
  <2> DEFINE errors == job[r].errors
             errors2 == job'[r].errors
             one == <<"page_error">>
             end == <<"job_error">>
  <2>1. /\ errors \in {<<>>, one, end} /\ (job[r].bad > 0 => errors # <<>>)
        /\ tries[r] = 1 => errors # end
    BY <1>1 DEF Sound, Tells, Goes
  <2>2. one # <<>> /\ end # <<>> /\ one # end
    OBVIOUS
  <2>3. \A v \in Workers : v # w => run'[v][r].pc \notin InTask
    BY <1>2, <1>4 DEF Live, InTask
  <2>4. job[r].bad \in Nat /\ errors \in Seq({"page_error", "job_error"})
    BY <1>1 DEF Typed, TypeOK
  <2> SUFFICES /\ errors2 \in {<<>>, one, end} /\ (job'[r].bad > 0 => errors2 # <<>>)
               /\ errors2 = end /\ tries[r] = 1 =>
                    job'[r].bad = 0 /\ run'[w][r].pc \notin InTask
    BY <2>3, <1>5, <1>6 DEF Tells
  <2>5. CASE job'[r].bad = job[r].bad /\ errors2 = errors
    BY <2>1, <2>5
  <2>6. CASE errors2 = AddError(errors, "page_error")
    <3>1. errors2 = IF errors = <<>> THEN one ELSE errors
      BY <2>6 DEF AddError
    <3> HIDE DEF errors, errors2, one, end
    <3> QED
      BY <3>1, <2>1, <2>2
  <2>7. CASE /\ job'[r].bad = job[r].bad /\ run'[w][r].pc = "finish"
             /\ errors2 = AddError(errors, "job_error")
    <3>1. errors2 = IF errors = <<>> THEN end ELSE errors
      BY <2>7 DEF AddError
    <3>2. run'[w][r].pc \notin InTask
      BY <2>7 DEF InTask
    <3> HIDE DEF errors, errors2, one, end
    <3> QED
      BY <3>1, <3>2, <2>1, <2>2, <2>4, <2>7
  <2> QED
    BY <2>5, <2>6, <2>7 DEF Goes
<1>15. Exclusive(r)'
  BY <1>1, <1>3 DEF Sound, Exclusive
<1>16. Ordered(r)'
  BY <1>1, <1>5, <1>6 DEF Sound, Ordered
<1>17. Stopped(r)'
  BY <1>1, <1>3, <1>5 DEF Sound, Stopped
<1>18. ASSUME NEW v \in Workers
       PROVE  Holds(v, r)' /\ StartedInRun(v, r)' /\ CountedBy(v, r)'
  <2>1. Holds(v, r)'
    BY <1>1, <1>2, <1>3, <1>5 DEF Sound, ByWorker, Holds, Goes
  <2>2. CASE v = w
    <3>1. StartedInRun(w, r)'
      <4>1. run[w][r].age \in Nat /\ started'[r] \in Nat
        BY <1>9, BulkJobsAssumption DEF Run, Typed, TypeOK
      <4>2. StartedInRun(w, r)
        BY <1>1 DEF Sound, ByWorker
      <4>3. CASE started' = started /\ (HasBegun(w, r)' => HasBegun(w, r))
        BY <4>2, <4>3 DEF StartedInRun, Goes
      <4>4. CASE started' = [started EXCEPT ![r] = 0]
        <5>1. started'[r] = 0
          BY <4>4, <1>1 DEF Typed, TypeOK
        <5> QED
          BY <5>1, <4>1 DEF StartedInRun, Goes
      <4>5. CASE ~HasBegun(w, r)'
        BY <4>5 DEF StartedInRun
      <4> QED
        BY <4>3, <4>4, <4>5 DEF Goes
    <3> QED
      BY <2>1, <2>2, <3>1, <1>12
  <2>3. CASE v # w
    <3>1. ~Live(v, r)'
      BY <2>3, <1>3, <1>4
    <3> QED
      BY <2>1, <3>1 DEF StartedInRun, CountedBy, HasBegun, Live, InTask
  <2> QED
    BY <2>2, <2>3
<1>19. ASSUME NEW v \in Workers
       PROVE  FirstTry(v, r)'
  <2> SUFFICES ASSUME tries[r] = 1
               PROVE  FirstTry(v, r)'
    BY <1>5 DEF FirstTry
  <2>1. FirstTry(w, r) /\ FirstTry(v, r)
    BY <1>1 DEF Sound, ByWorker
  <2>2. ~(run'[v][r].pc = "begin")
    BY <1>2, <1>4 DEF Goes, Live
  <2>3. HasBegun(v, r)' => job'[r].status = "processing"
    <3>1. CASE v # w
      <4>1. ~Live(v, r)'
        BY <3>1, <1>3, <1>4
      <4> QED
        BY <4>1 DEF HasBegun, Live, InTask
    <3>2. CASE v = w
      BY <3>2, <2>1 DEF FirstTry, Goes
    <3> QED
      BY <3>1, <3>2
  <2>4. r \notin stale[v]
    BY <2>1 DEF FirstTry, Goes
  <2> QED
    BY <2>2, <2>3, <2>4, <1>5 DEF FirstTry
<1> QED
  BY <1>13, <1>14, <1>15, <1>16, <1>17, <1>18, <1>19 DEF Sound, ByWorker

\* So does ending the task, which takes it out of the queue for good.
LEMMA EndsSound ==
  ASSUME Inv, Typed', NEW w \in Workers, NEW r \in Requests, Moves(w, r), Ends(w, r)
  PROVE  Sound(r)'
<1>1. Sound(r) /\ Typed
  BY DEF Inv
<1>2. \A v \in Workers : v # w => run'[v][r] = run[v][r]
  BY DEF Moves, OnlyRun
<1>3. \A v \in Workers : ~Live(v, r)'
  BY <1>1, <1>2 DEF Ends, Live, Sound, Exclusive
<1>4. r \notin queue' /\ job' = job /\ req' = req /\ tries' = tries /\ stops' = stops
      /\ stale' = stale
  BY DEF Moves, Ends
<1>5. Counts(r)' /\ Tells(r)'
  <2>1. \A v \in Workers : run'[v][r].pc \notin InTask
    BY <1>3 DEF Live, InTask
  <2> QED
    BY <2>1, <1>1, <1>4 DEF Sound, Counts, Tells, Counted, Budget
<1>6. Exclusive(r)' /\ Stopped(r)'
  BY <1>1, <1>3, <1>4 DEF Exclusive, Stopped, Sound
<1>7. Ordered(r)'
  BY <1>1, <1>4 DEF Sound, Ordered
<1>8. ASSUME NEW v \in Workers
      PROVE  ByWorker(v, r)'
  <2>1. FirstTry(v, r)
    BY <1>1 DEF Sound, ByWorker
  <2> QED
    BY <2>1, <1>3, <1>4 DEF ByWorker, Holds, StartedInRun, CountedBy, FirstTry,
                            HasBegun, Live, InTask
<1> QED
  BY <1>5, <1>6, <1>7, <1>8 DEF Sound

\* A task's step keeps the invariant.
LEMMA TaskKeeps ==
  ASSUME Inv, NEW w \in Workers, NEW r \in Requests, TaskStep(w, r)
  PROVE  Inv'
<1>1. Moves(w, r)
  BY TaskMoves DEF Inv
<1>2. Typed'
  BY <1>1, MovesTyped DEF Inv
<1>3. Sound(r)'
  BY <1>1, <1>2, GoesSound, EndsSound DEF Moves
<1>4. ASSUME NEW q \in Requests, q # r
      PROVE  Sound(q)'
  <2>1. started'[q] = started[q] /\ lock'[q] = lock[q] /\ (q \in queue' <=> q \in queue)
    BY <1>1, <1>4 DEF Moves, Goes, Ends, Inv, Typed, TypeOK
  <2>2. Same(q)
    BY <1>1, <1>4, <2>1 DEF Moves, OnlyRow, OnlyRun, Same
  <2>3. stops <= stops'
    BY <1>1, BulkJobsAssumption DEF Moves, Inv, Typed, TypeOK
  <2> QED
    BY <2>2, <2>3, <1>2, SameSound DEF Inv, Typed
<1> QED
  BY <1>2, <1>3, <1>4 DEF Inv

\* A web request's step, or its end with its process.
LEMMA WebKeeps ==
  ASSUME Inv, NEW r \in Requests, WebStep(r) \/ RequestStops(r)
  PROVE  Inv'
<1>0. Typed /\ TypeOK /\ Sound(r)
  BY DEF Inv, Typed
<1>1. /\ UNCHANGED <<tries, lock, worker, stale, run, spoiled>>
      /\ req' \in [Requests -> {"new", "joined", "insert", "enqueue", "accepted", "lost"}]
      /\ \A q \in Requests : q # r => req'[q] = req[q]
      /\ req[r] # "accepted" /\ req'[r] # "new"
  BY <1>0 DEF WebStep, Join, Check, Insert, Enqueue, RequestFails, RequestStops,
              arqVars, TypeOK
<1>2. stops' \in 0..MaxStops /\ stops <= stops'
  BY <1>0, BulkJobsAssumption
     DEF WebStep, Join, Check, Insert, Enqueue, RequestFails, RequestStops, TypeOK
<1>3. \/ job' = job /\ started' = started /\ (req'[r] = "insert" => req[r] = "new")
         /\ (req'[r] \in {"joined"} => req[r] = "new")
      \/ /\ job' = [job EXCEPT ![r].status = "queued"]
         /\ started' = [started EXCEPT ![r] = 0]
         /\ req'[r] = "enqueue"
  BY <1>0 DEF WebStep, Join, Check, Insert, Enqueue, RequestFails, RequestStops,
              rowVars, TypeOK
<1>4. queue' = queue \/ (queue' = queue \cup {r} /\ req'[r] = "accepted")
  BY <1>0 DEF WebStep, Join, Check, Insert, Enqueue, RequestFails, RequestStops,
              arqVars, TypeOK
<1>5. r \notin queue /\ tries[r] = 0 /\ \A w \in Workers : r \notin stale[w]
  BY <1>0, <1>1 DEF Sound, Ordered
<1>6. PICK row \in Row : row = job[r]
  BY <1>0 DEF TypeOK, Row
<1> DEFINE x == [row EXCEPT !.status = "queued"]
<1>7. x \in Row /\ x.status = "queued" /\ x.done = row.done /\ x.bad = row.bad
      /\ x.errors = row.errors
  BY DEF Row
<1>8. job' = job \/ (job' = [job EXCEPT ![r] = x] /\ req'[r] = "enqueue")
  BY <1>3, <1>6
<1> HIDE DEF x
<1>9. OnlyRow(r) /\ (job' = job \/ (job'[r] = x /\ req'[r] = "enqueue"))
  BY <1>0, <1>7, <1>8, SameRow, SetRowEffect
<1>10. started' \in [Requests -> 0..(StaleAfter + 1)]
       /\ \A q \in Requests : q # r => started'[q] = started[q]
  <2>1. 0 \in 0..(StaleAfter + 1)
    BY BulkJobsAssumption
  <2> QED
    BY <1>0, <1>3, <2>1 DEF TypeOK
<1>11. TypeOK'
  <2>1. job' \in [Requests -> Row]
    BY <1>9 DEF OnlyRow
  <2> QED
    BY <1>0, <1>1, <1>2, <1>4, <1>10, <2>1 DEF TypeOK, Row
<1>12. Typed'
  BY <1>0, <1>1, <1>11 DEF Typed, InBounds
<1>13. ASSUME NEW q \in Requests, q # r
       PROVE  Sound(q)'
  <2>1. Same(q)
    BY <1>1, <1>4, <1>9, <1>10, <1>13 DEF Same, OnlyRow
  <2> QED
    BY <2>1, <1>0, <1>2, <1>11, SameSound DEF Inv
<1>14. Sound(r)'
  <2>1. \A w \in Workers : ~Live(w, r) /\ ~Live(w, r)'
    BY <1>0, <1>1, <1>5 DEF Sound, ByWorker, Holds, Live
  <2>2. Exclusive(r)'
    BY <2>1 DEF Exclusive
  <2>3. Counted(r)' = Counted(r) /\ Budget(r)' = Budget(r)
    BY <1>1, <1>6, <1>7, <1>9 DEF Counted, Budget
  <2>4. Counts(r)' /\ Tells(r)'
    <3>1. /\ job'[r].bad = job[r].bad /\ job'[r].errors = job[r].errors
          /\ job'[r].status = "completed" => job[r].status = "completed"
      BY <1>6, <1>7, <1>9
    <3>2. tries' = tries /\ run' = run
      BY <1>1
    <3> QED
      BY <2>3, <3>1, <3>2, <1>0 DEF Sound, Counts, Tells
  <2>5. Ordered(r)'
    <3>1. req'[r] \in {"joined", "insert"} => job' = job /\ req[r] = "new"
      BY <1>3
    <3>2. req'[r] \in {"new", "joined", "insert"} => job'[r].status = "none"
      BY <3>1, <1>0, <1>1 DEF Sound, Ordered
    <3>3. req'[r] # "accepted" => r \notin queue'
      BY <1>4, <1>5
    <3>4. job'[r].status \in {"none", "queued"}
      BY <1>0, <1>5, <1>7, <1>9 DEF Sound, Ordered
    <3> QED
      BY <3>2, <3>3, <3>4, <1>1, <1>5 DEF Ordered
  <2>6. Stopped(r)'
    BY <1>1, <1>5 DEF Stopped
  <2>7. ASSUME NEW w \in Workers
        PROVE  ByWorker(w, r)'
    BY <2>1, <1>1, <1>5 DEF ByWorker, Holds, StartedInRun, CountedBy, FirstTry,
                            HasBegun, Live, InTask
  <2> QED
    BY <2>2, <2>4, <2>5, <2>6, <2>7 DEF Sound
<1> QED
  BY <1>12, <1>13, <1>14 DEF Inv

\* One more try's worth of pages.
LEMMA OneMoreTry ==
  \A n \in Nat : n * Total \in Nat /\ (n + 1) * Total = n * Total + Total
BY BulkJobsAssumption

\* A worker picks a task: nobody has a run of it, for its key would be there.
LEMMA PickKeeps ==
  ASSUME Inv, NEW w \in Workers, NEW r \in Requests, Pick(w, r)
  PROVE  Inv'
<1>0. Typed /\ TypeOK /\ Sound(r)
  BY DEF Inv, Typed
<1> DEFINE first == [Off EXCEPT !.pc = "begin"]
<1>1. PICK x \in Run : x = first /\ x.pc = "begin" /\ x.page = 0 /\ x.age = 0
  <2>1. first \in Run /\ first.pc = "begin" /\ first.page = 0 /\ first.age = 0
    BY BulkJobsAssumption DEF Off, Run, InTask
  <2> HIDE DEF first
  <2> QED
    BY <2>1
<1>2. run' = [run EXCEPT ![w] = [run[w] EXCEPT ![r] = x]]
  <2>1. run' = [run EXCEPT ![w] = [run[w] EXCEPT ![r] = first]]
    BY DEF Pick
  <2> HIDE DEF first
  <2> QED
    BY <1>1, <2>1
<1>3. OnlyRun(w, r) /\ run'[w][r] = x
  BY <1>0, <1>2, SetRunEffect
<1>4. /\ UNCHANGED <<req, job, started, queue, worker, stale, stops, spoiled>>
      /\ tries[r] < MaxTries /\ tries' = [tries EXCEPT ![r] = tries[r] + 1]
      /\ lock' = [lock EXCEPT ![r] = LockTtl]
      /\ r \in queue /\ lock[r] = 0
  BY DEF Pick, CanPick, TriesLeft, webVars, rowVars
<1>5. tries[r] \in Nat /\ tries[r] + 1 \in 0..MaxTries
      /\ tries' \in [Requests -> 0..MaxTries] /\ tries'[r] = tries[r] + 1
  BY <1>0, <1>4, BulkJobsAssumption DEF TypeOK
<1>6. lock' \in [Requests -> 0..LockTtl] /\ lock'[r] = LockTtl
  BY <1>0, <1>4, BulkJobsAssumption DEF TypeOK
<1>7. TypeOK'
  BY <1>0, <1>3, <1>4, <1>5, <1>6 DEF TypeOK, OnlyRun
<1>8. Typed'
  <2>1. ASSUME NEW v \in Workers, NEW q \in Requests
        PROVE  InBounds(v, q)'
    <3>1. CASE v = w /\ q = r
      BY <3>1, <1>1, <1>3 DEF InBounds
    <3>2. CASE v # w \/ q # r
      BY <3>2, <1>0, <1>3 DEF Typed, InBounds, OnlyRun
    <3> QED
      BY <3>1, <3>2
  <2> QED
    BY <2>1, <1>7 DEF Typed
<1>9. stops <= stops' /\ stops \in Nat
  BY <1>0, <1>4, BulkJobsAssumption DEF TypeOK
<1>10. ASSUME NEW q \in Requests, q # r
       PROVE  Sound(q)'
  <2>1. Same(q)
    BY <1>0, <1>3, <1>4, <1>10 DEF Same, OnlyRun, TypeOK
  <2> QED
    BY <2>1, <1>0, <1>7, <1>9, SameSound DEF Inv
<1>11. \A v \in Workers : ~Live(v, r)
  <2>1. ASSUME NEW v \in Workers, Live(v, r)
        PROVE  FALSE
    <3>1. lock[r] + run[v][r].age = LockTtl
      BY <2>1, <1>0 DEF Sound, ByWorker, Holds
    <3>2. run[v][r].age \in 0..JobTimeout
      BY <1>0 DEF TypeOK, Run
    <3> QED
      BY <3>1, <3>2, <1>4, BulkJobsAssumption
  <2> QED
    BY <2>1
<1>12. \A v \in Workers : v # w => ~Live(v, r)'
  BY <1>3, <1>11 DEF OnlyRun, Live
<1>13. Live(w, r)'
  BY <1>1, <1>3 DEF Live
<1>14. Sound(r)'
  <2>1. Exclusive(r)'
    BY <1>12 DEF Exclusive
  <2>2. Counted(r)' = Counted(r) /\ Budget(r)' = Budget(r) + Total
        /\ Counted(r) \in Nat /\ Budget(r) \in Nat
    <3>1. Counted(r)' = Counted(r) /\ Counted(r) \in Nat
      BY <1>0, <1>4 DEF Counted, TypeOK
    <3> QED
      BY <3>1, <1>5, OneMoreTry DEF Budget
  <2>3. Counts(r) /\ Tells(r)
    BY <1>0 DEF Sound
  <2>4. Counts(r)' /\ Tells(r)'
    <3>1. Counts(r)'
      BY <2>2, <2>3, <1>4, BulkJobsAssumption DEF Counts
    <3>2. job[r].errors = <<"job_error">> => tries[r] # 0
      <4>1. <<"job_error">> # <<>>
        OBVIOUS
      <4> QED
        BY <4>1, <2>3 DEF Tells
    <3>3. tries'[r] # 0 /\ (job[r].errors = <<"job_error">> => tries'[r] # 1)
      BY <3>2, <1>5
    <3> QED
      BY <3>1, <3>3, <2>3, <1>4 DEF Tells
  <2>5. Ordered(r)'
    BY <1>0, <1>4, <1>5 DEF Sound, Ordered
  <2>6. Stopped(r)'
    <3>1. tries[r] > 0 => stops > 0
      BY <1>0, <1>4, <1>9, <1>11 DEF Sound, Stopped
    <3> QED
      BY <3>1, <1>4, <1>5, <1>13 DEF Stopped
  <2>7. ASSUME NEW v \in Workers
        PROVE  Holds(v, r)' /\ StartedInRun(v, r)' /\ CountedBy(v, r)'
    <3>1. CASE v = w
      <4>1. Holds(w, r)'
        BY <1>1, <1>3, <1>4, <1>5, <1>6, BulkJobsAssumption DEF Holds
      <4>2. StartedInRun(w, r)'
        BY <1>1, <1>3 DEF StartedInRun, HasBegun
      <4>3. CountedBy(w, r)'
        BY <1>1, <1>3, <2>2, <2>3, BulkJobsAssumption DEF CountedBy, Counts
      <4> QED
        BY <3>1, <4>1, <4>2, <4>3
    <3>2. CASE v # w
      BY <3>2, <1>12 DEF Holds, StartedInRun, CountedBy, HasBegun, Live, InTask
    <3> QED
      BY <3>1, <3>2
  <2>8. ASSUME NEW v \in Workers
        PROVE  FirstTry(v, r)'
    <3> SUFFICES ASSUME tries[r] = 0
                 PROVE  FirstTry(v, r)'
      BY <1>5 DEF FirstTry
    <3>1. job[r].status \in {"none", "queued"} /\ r \notin stale[v]
      BY <1>0 DEF Sound, Ordered
    <3>2. ~HasBegun(v, r)'
      BY <1>1, <1>3, <1>12 DEF HasBegun, Live, InTask
    <3> QED
      BY <3>1, <3>2, <1>4 DEF FirstTry
  <2> QED
    BY <2>1, <2>4, <2>5, <2>6, <2>7, <2>8 DEF Sound, ByWorker
<1> QED
  BY <1>8, <1>10, <1>14 DEF Inv

\* A task tried too often leaves the queue; nobody has a run of it either.
LEMMA DropKeeps ==
  ASSUME Inv, NEW w \in Workers, NEW r \in Requests, Drop(w, r)
  PROVE  Inv'
<1>0. Typed /\ TypeOK /\ Sound(r)
  BY DEF Inv, Typed
<1>1. /\ UNCHANGED <<req, job, started, tries, lock, worker, stale, run, stops>>
      /\ queue' = queue \ {r} /\ spoiled' = spoiled \cup {r} /\ lock[r] = 0
  BY DEF Drop, CanPick, webVars, rowVars
<1>2. TypeOK'
  BY <1>0, <1>1 DEF TypeOK
<1>3. Typed'
  BY <1>0, <1>1, <1>2 DEF Typed, InBounds
<1>4. stops <= stops'
  BY <1>0, <1>1, BulkJobsAssumption DEF TypeOK
<1>5. ASSUME NEW q \in Requests, q # r
      PROVE  Sound(q)'
  <2>1. Same(q)
    BY <1>1, <1>5 DEF Same
  <2> QED
    BY <2>1, <1>0, <1>2, <1>4, SameSound DEF Inv
<1>6. \A v \in Workers : ~Live(v, r)
  <2>1. ASSUME NEW v \in Workers, Live(v, r)
        PROVE  FALSE
    <3>1. lock[r] + run[v][r].age = LockTtl
      BY <2>1, <1>0 DEF Sound, ByWorker, Holds
    <3>2. run[v][r].age \in 0..JobTimeout
      BY <1>0 DEF TypeOK, Run
    <3> QED
      BY <3>1, <3>2, <1>1, BulkJobsAssumption
  <2> QED
    BY <2>1
<1>7. Sound(r)'
  <2>1. Exclusive(r)' /\ Stopped(r)'
    BY <1>0, <1>1, <1>6 DEF Sound, Exclusive, Stopped, Live
  <2>2. Counts(r)' /\ Tells(r)' /\ Ordered(r)'
    BY <1>0, <1>1 DEF Sound, Counts, Counted, Budget, Tells, Ordered
  <2>3. ASSUME NEW v \in Workers
        PROVE  ByWorker(v, r)'
    BY <1>0, <1>1, <1>6 DEF Sound, ByWorker, Holds, StartedInRun, CountedBy, Counted,
                            Budget, FirstTry, HasBegun, Live
  <2> QED
    BY <2>1, <2>2, <2>3 DEF Sound
<1> QED
  BY <1>3, <1>5, <1>7 DEF Inv

\* A stale job is orphaned: a run that has begun it is younger than the
\* cutoff, and it began the job no earlier than it was picked.
LEMMA StaleIsOrphaned ==
  ASSUME Inv, NEW r \in Requests, IsStale(r), NEW v \in Workers
  PROVE  ~HasBegun(v, r)
<1> SUFFICES ASSUME HasBegun(v, r)
             PROVE  FALSE
  OBVIOUS
<1>1. started[r] <= run[v][r].age
  BY DEF Inv, Sound, ByWorker, StartedInRun
<1>2. run[v][r].age \in 0..JobTimeout /\ started[r] \in 0..(StaleAfter + 1)
  BY DEF Inv, Typed, TypeOK, Run
<1> QED
  BY <1>1, <1>2, BulkJobsAssumption DEF IsStale

\* A worker that starts selects what is stale.
LEMMA StartWorkerKeeps ==
  ASSUME Inv, NEW w \in Workers, StartWorker(w)
  PROVE  Inv'
<1>0. Typed /\ TypeOK
  BY DEF Inv, Typed
<1>1. /\ UNCHANGED <<req, job, started, queue, tries, lock, run, stops, spoiled>>
      /\ worker' = [worker EXCEPT ![w] = "sweeping"]
      /\ stale' = [stale EXCEPT ![w] = {r \in Requests : IsStale(r)}]
  BY DEF StartWorker, webVars, rowVars, arqVars
<1>2. TypeOK'
  BY <1>0, <1>1 DEF TypeOK
<1>3. Typed'
  BY <1>0, <1>1, <1>2 DEF Typed, InBounds
<1>4. \A v \in Workers, r \in Requests :
        r \in stale'[v] => r \in stale[v] \/ (v = w /\ IsStale(r))
  BY <1>0, <1>1 DEF TypeOK
<1>5. ASSUME NEW r \in Requests
      PROVE  Sound(r)'
  <2>0. Sound(r)
    BY DEF Inv
  <2>1. Exclusive(r)' /\ Counts(r)' /\ Tells(r)' /\ Stopped(r)'
    BY <2>0, <1>1 DEF Sound, Exclusive, Live, Counts, Counted, Budget, Tells, Stopped
  <2>2. Ordered(r)'
    BY <2>0, <1>1, <1>4 DEF Sound, Ordered, IsStale
  <2>3. ASSUME NEW v \in Workers
        PROVE  ByWorker(v, r)'
    <3>1. Holds(v, r)' /\ StartedInRun(v, r)' /\ CountedBy(v, r)'
      BY <2>0, <1>1 DEF Sound, ByWorker, Holds, StartedInRun, CountedBy, Counted,
                        Budget, HasBegun, Live
    <3>2. FirstTry(v, r)'
      <4> SUFFICES ASSUME tries[r] = 1
                   PROVE  FirstTry(v, r)'
        BY <1>1 DEF FirstTry
      <4>1. \A u \in Workers : FirstTry(u, r)
        BY <2>0 DEF Sound, ByWorker
      <4>2. IsStale(r) => \A u \in Workers : run[u][r].pc \notin InTask
        BY <4>1, StaleIsOrphaned DEF FirstTry, IsStale, HasBegun
      <4> QED
        BY <4>1, <4>2, <1>1, <1>4 DEF FirstTry, HasBegun, IsStale
    <3> QED
      BY <3>1, <3>2 DEF ByWorker
  <2> QED
    BY <2>0, <2>1, <2>2, <2>3 DEF Sound
<1> QED
  BY <1>3, <1>5 DEF Inv

\* It fails what it selected, which no run of a first try has in hand.
LEMMA SweepKeeps ==
  ASSUME Inv, NEW w \in Workers, Sweep(w)
  PROVE  Inv'
<1>0. Typed /\ TypeOK
  BY DEF Inv, Typed
<1>1. /\ UNCHANGED <<req, started, queue, tries, lock, run, stops, spoiled>>
      /\ worker' = [worker EXCEPT ![w] = "up"] /\ stale' = [stale EXCEPT ![w] = {}]
  BY DEF Sweep, webVars, arqVars
<1>2. job' \in [Requests -> Row]
      /\ \A r \in Requests :
           /\ job'[r].done = job[r].done /\ job'[r].bad = job[r].bad
           /\ job'[r].errors = job[r].errors
           /\ job'[r].status = IF r \in stale[w] THEN "failed" ELSE job[r].status
  <2>1. job' = [r \in Requests |->
                  IF r \in stale[w] THEN [job[r] EXCEPT !.status = "failed"] ELSE job[r]]
    BY DEF Sweep
  <2>2. ASSUME NEW row \in Row
        PROVE  LET x == [row EXCEPT !.status = "failed"] IN
               /\ x \in Row /\ x.done = row.done /\ x.bad = row.bad
               /\ x.errors = row.errors /\ x.status = "failed"
    BY DEF Row, Terminal
  <2>3. ASSUME NEW r \in Requests
        PROVE  /\ job'[r] \in Row /\ job'[r].done = job[r].done
               /\ job'[r].bad = job[r].bad /\ job'[r].errors = job[r].errors
               /\ job'[r].status = IF r \in stale[w] THEN "failed" ELSE job[r].status
    <3>1. PICK row \in Row : row = job[r]
      BY <1>0 DEF TypeOK, Row
    <3>2. job'[r] = IF r \in stale[w] THEN [row EXCEPT !.status = "failed"] ELSE row
      BY <2>1, <3>1
    <3>3. CASE r \in stale[w]
      BY <3>1, <3>2, <3>3, <2>2
    <3>4. CASE r \notin stale[w]
      BY <3>1, <3>2, <3>4
    <3> QED
      BY <3>3, <3>4
  <2>4. job' \in [Requests -> Row]
    BY <2>1, <2>3
  <2> QED
    BY <2>3, <2>4
<1>3. TypeOK'
  BY <1>0, <1>1, <1>2 DEF TypeOK, Row
<1>4. Typed'
  BY <1>0, <1>1, <1>3 DEF Typed, InBounds
<1>5. \A v \in Workers, r \in Requests : r \in stale'[v] => r \in stale[v]
  BY <1>0, <1>1 DEF TypeOK
<1>6. ASSUME NEW r \in Requests
      PROVE  Sound(r)'
  <2>0. Sound(r)
    BY DEF Inv
  <2>1. Exclusive(r)' /\ Stopped(r)' /\ Tells(r)'
    BY <2>0, <1>1, <1>2 DEF Sound, Exclusive, Live, Stopped, Tells
  <2>2. Counted(r)' = Counted(r) /\ Budget(r)' = Budget(r)
    BY <1>1, <1>2 DEF Counted, Budget
  <2>3. Counts(r)'
    BY <2>0, <2>2, <1>2 DEF Sound, Counts
  <2>4. Ordered(r)'
    <3>1. req[r] \in {"new", "joined", "insert"} => r \notin stale[w]
      BY <2>0 DEF Sound, Ordered
    <3>2. tries[r] = 0 => r \notin stale[w]
      BY <2>0 DEF Sound, Ordered
    <3> QED
      BY <2>0, <3>1, <3>2, <1>1, <1>2, <1>5 DEF Sound, Ordered
  <2>5. ASSUME NEW v \in Workers
        PROVE  ByWorker(v, r)'
    <3>1. Holds(v, r)' /\ StartedInRun(v, r)'
      BY <2>0, <1>1 DEF Sound, ByWorker, Holds, StartedInRun, HasBegun, Live
    <3>2. CountedBy(v, r)'
      BY <2>0, <2>2, <1>1 DEF Sound, ByWorker, CountedBy, Live
    <3>3. FirstTry(v, r)'
      <4> SUFFICES ASSUME tries[r] = 1
                   PROVE  FirstTry(v, r)'
        BY <1>1 DEF FirstTry
      <4>1. FirstTry(v, r) /\ FirstTry(w, r)
        BY <2>0 DEF Sound, ByWorker
      <4>2. CASE r \in stale[w]
        <5>1. run[v][r].pc \notin InTask /\ job'[r].status = "failed"
              /\ \A u \in Workers : run[u][r].pc \notin InTask
          BY <4>1, <4>2, <1>2 DEF FirstTry
        <5> QED
          BY <5>1, <1>1 DEF FirstTry, HasBegun, InTask
      <4>3. CASE r \notin stale[w]
        BY <4>1, <4>3, <1>1, <1>2, <1>5 DEF FirstTry, HasBegun
      <4> QED
        BY <4>2, <4>3
    <3> QED
      BY <3>1, <3>2, <3>3 DEF ByWorker
  <2> QED
    BY <2>0, <2>1, <2>3, <2>4, <2>5 DEF Sound
<1> QED
  BY <1>4, <1>6 DEF Inv

\* A worker that stops leaves tasks in the queue, with their keys or without.
LEMMA StopKeeps ==
  ASSUME Inv, NEW w \in Workers, Shutdown(w) \/ Crash(w)
  PROVE  Inv'
<1>0. Typed /\ TypeOK
  BY DEF Inv, Typed
<1>1. /\ UNCHANGED <<req, job, started, queue, tries, spoiled>>
      /\ stops < MaxStops /\ stops' = stops + 1
      /\ worker' = [worker EXCEPT ![w] = "down"] /\ stale' = [stale EXCEPT ![w] = {}]
      /\ run' = [run EXCEPT ![w] = [r \in Requests |-> Off]]
  BY DEF Shutdown, Crash, StopWorker, webVars, rowVars
<1>2. lock' = lock \/ lock' = [r \in Requests |-> IF Live(w, r) THEN 0 ELSE lock[r]]
  BY DEF Shutdown, Crash
<1>3. Off \in Run /\ Off.pc = "off"
  BY BulkJobsAssumption DEF Off, Run, InTask
<1>4. /\ run' \in [Workers -> [Requests -> Run]]
      /\ \A v \in Workers, r \in Requests :
           run'[v][r] = IF v = w THEN Off ELSE run[v][r]
  <2> HIDE DEF Off
  <2> QED
    BY <1>0, <1>1, <1>3 DEF TypeOK
<1>5. /\ lock' \in [Requests -> 0..LockTtl]
      /\ \A r \in Requests : ~Live(w, r) => lock'[r] = lock[r]
  <2>1. 0 \in 0..LockTtl /\ lock \in [Requests -> 0..LockTtl]
    BY <1>0, BulkJobsAssumption DEF TypeOK
  <2> QED
    BY <2>1, <1>2
<1>6. stops' \in 0..MaxStops /\ stops' > 0
  BY <1>0, <1>1, BulkJobsAssumption DEF TypeOK
<1>7. TypeOK'
  BY <1>0, <1>1, <1>4, <1>5, <1>6 DEF TypeOK
<1>8. \A v \in Workers, r \in Requests : InBounds(v, r)'
  BY <1>0, <1>3, <1>4 DEF Typed, InBounds
<1>9. Typed'
  BY <1>7, <1>8 DEF Typed
<1>10. \A v \in Workers, r \in Requests : r \in stale'[v] => r \in stale[v]
  BY <1>0, <1>1 DEF TypeOK
<1>11. ASSUME NEW r \in Requests
       PROVE  Sound(r)'
  <2>0. Sound(r)
    BY DEF Inv
  <2>1. \A v \in Workers : Live(v, r)' <=> v # w /\ Live(v, r)
    BY <1>3, <1>4 DEF Live
  <2>2. Exclusive(r)'
    BY <2>0, <2>1 DEF Sound, Exclusive
  <2>3. Counts(r)' /\ Tells(r)'
    <3>1. \A v \in Workers : run'[v][r].pc \in InTask => run[v][r].pc \in InTask
      BY <1>3, <1>4 DEF InTask
    <3> QED
      BY <3>1, <2>0, <1>1 DEF Sound, Counts, Counted, Budget, Tells
  <2>4. Ordered(r)' /\ Stopped(r)'
    BY <2>0, <1>1, <1>6, <1>10 DEF Sound, Ordered, Stopped
  <2>5. ASSUME NEW v \in Workers
        PROVE  ByWorker(v, r)'
    <3>1. CASE v = w
      <4>1. Holds(w, r)' /\ StartedInRun(w, r)' /\ CountedBy(w, r)'
        BY <2>1, <1>3, <1>4 DEF Holds, StartedInRun, CountedBy, HasBegun, InTask
      <4>2. FirstTry(w, r)'
        BY <1>0, <1>1, <1>3, <1>4 DEF FirstTry, HasBegun, InTask, TypeOK
      <4> QED
        BY <3>1, <4>1, <4>2 DEF ByWorker
    <3>2. CASE v # w
      <4>1. ByWorker(v, r)
        BY <2>0 DEF Sound
      <4>2. run'[v][r] = run[v][r]
        BY <3>2, <1>4
      <4>3. Live(v, r) => lock'[r] = lock[r]
        BY <2>0, <3>2, <1>5 DEF Sound, Exclusive
      <4>4. Holds(v, r)' /\ StartedInRun(v, r)' /\ CountedBy(v, r)'
        BY <4>1, <4>2, <4>3, <1>1 DEF ByWorker, Holds, StartedInRun, CountedBy, Counted,
                                      Budget, HasBegun, Live
      <4>5. FirstTry(v, r)'
        <5>1. \A u \in Workers : run'[u][r].pc \in InTask => run[u][r].pc \in InTask
          BY <1>3, <1>4 DEF InTask
        <5> QED
          BY <4>1, <4>2, <5>1, <1>1, <1>10 DEF ByWorker, FirstTry, HasBegun
      <4> QED
        BY <4>4, <4>5 DEF ByWorker
    <3> QED
      BY <3>1, <3>2
  <2> QED
    BY <2>2, <2>3, <2>4, <2>5 DEF Sound
<1> QED
  BY <1>9, <1>11 DEF Inv

\* Time passes, a tick less for every key and a tick more for every run.
LEMMA TickKeeps ==
  ASSUME Inv, Tick
  PROVE  Inv'
<1>0. Typed /\ TypeOK
  BY DEF Inv, Typed
<1>1. /\ UNCHANGED <<req, job, queue, tries, worker, stale, stops, spoiled>>
      /\ \A w \in Workers, r \in Requests : Live(w, r) => run[w][r].age < JobTimeout
      /\ started' = [r \in Requests |-> IF job[r].status = "processing"
                                       THEN Min2(started[r] + 1, StaleAfter + 1) ELSE 0]
      /\ lock' = [r \in Requests |-> Expiring(lock[r])]
      /\ run' = [w \in Workers |-> [r \in Requests |->
                   IF Live(w, r) THEN [run[w][r] EXCEPT !.age = @ + 1] ELSE Off]]
  BY DEF Tick, webVars
<1>2. /\ started' \in [Requests -> 0..(StaleAfter + 1)]
      /\ \A r \in Requests : started'[r] <= started[r] + 1
  <2>1. \A r \in Requests : started[r] \in 0..(StaleAfter + 1)
    BY <1>0 DEF TypeOK
  <2> QED
    BY <2>1, <1>1, BulkJobsAssumption DEF Min2
<1>3. /\ lock' \in [Requests -> 0..LockTtl]
      /\ \A r \in Requests : lock[r] > 0 => lock'[r] = lock[r] - 1
  <2>1. \A r \in Requests : lock[r] \in 0..LockTtl
    BY <1>0 DEF TypeOK
  <2>2. ASSUME NEW ticks \in 0..LockTtl
        PROVE  /\ Expiring(ticks) \in 0..LockTtl
               /\ ticks > 0 => Expiring(ticks) = ticks - 1
    BY BulkJobsAssumption DEF Expiring
  <2>3. \A r \in Requests : lock'[r] = Expiring(lock[r])
    BY <1>1
  <2>4. lock' \in [Requests -> 0..LockTtl]
    BY <1>1, <2>1, <2>2
  <2> QED
    BY <2>1, <2>2, <2>3, <2>4
<1>4. ASSUME NEW w \in Workers, NEW r \in Requests
      PROVE  /\ run'[w][r] \in Run /\ run'[w][r].pc = run[w][r].pc
             /\ Live(w, r) => /\ run'[w][r].page = run[w][r].page
                              /\ run'[w][r].age = run[w][r].age + 1
  <2>1. PICK o \in Run : o = run[w][r]
    BY <1>0 DEF TypeOK
  <2>2. run'[w][r] = IF Live(w, r) THEN [o EXCEPT !.age = @ + 1] ELSE Off
    BY <1>1, <2>1
  <2>3. CASE Live(w, r)
    <3>1. o.age \in Nat /\ o.age < JobTimeout
      BY <1>1, <2>1, <2>3 DEF Run
    <3> DEFINE x == [o EXCEPT !.age = @ + 1]
    <3>2. x \in Run /\ x.pc = o.pc /\ x.page = o.page /\ x.age = o.age + 1
      BY <3>1, BulkJobsAssumption DEF Run
    <3> HIDE DEF x
    <3>3. run'[w][r] = x
      BY <2>2, <2>3 DEF x
    <3> QED
      BY <2>1, <3>2, <3>3
  <2>4. CASE ~Live(w, r)
    <3>1. Off \in Run /\ Off.pc = "off"
      BY BulkJobsAssumption DEF Off, Run, InTask
    <3> QED
      BY <3>1, <2>2, <2>4 DEF Live
  <2> QED
    BY <2>3, <2>4
<1>5. run' \in [Workers -> [Requests -> Run]]
  <2> DEFINE at(w, r) == IF Live(w, r) THEN [run[w][r] EXCEPT !.age = @ + 1] ELSE Off
  <2>1. run' = [w \in Workers |-> [r \in Requests |-> at(w, r)]]
    BY <1>1
  <2> HIDE DEF at
  <2>2. \A w \in Workers, r \in Requests : run'[w][r] = at(w, r)
    BY <2>1
  <2>3. \A w \in Workers, r \in Requests : at(w, r) \in Run
    BY <2>2, <1>4
  <2> QED
    BY <2>1, <2>3
<1>6. TypeOK'
  BY <1>0, <1>1, <1>2, <1>3, <1>5 DEF TypeOK
<1>7. \A w \in Workers, r \in Requests : InBounds(w, r)'
  BY <1>0, <1>4 DEF Typed, InBounds, Live
<1>8. Typed'
  BY <1>6, <1>7 DEF Typed
<1>9. ASSUME NEW r \in Requests
      PROVE  Sound(r)'
  <2>0. Sound(r)
    BY DEF Inv
  <2>1. \A w \in Workers : Live(w, r)' <=> Live(w, r)
    BY <1>4 DEF Live
  <2>2. Exclusive(r)' /\ Stopped(r)'
    BY <2>0, <2>1, <1>1 DEF Sound, Exclusive, Stopped
  <2>3. Counts(r)' /\ Tells(r)' /\ Ordered(r)'
    BY <2>0, <1>1, <1>4 DEF Sound, Counts, Counted, Budget, Tells, Ordered
  <2>4. ASSUME NEW w \in Workers
        PROVE  ByWorker(w, r)'
    <3>0. ByWorker(w, r)
      BY <2>0 DEF Sound
    <3>1. run[w][r].age \in 0..JobTimeout /\ started[r] \in Nat /\ started'[r] \in Nat
          /\ lock[r] \in Nat
      BY <1>0, <1>2, BulkJobsAssumption DEF TypeOK, Run
    <3>2. Holds(w, r)'
      <4> SUFFICES ASSUME Live(w, r)
                   PROVE  /\ lock'[r] + run'[w][r].age = LockTtl
                          /\ r \in queue' /\ tries'[r] > 0
        BY <2>1 DEF Holds
      <4>1. lock[r] + run[w][r].age = LockTtl /\ r \in queue /\ tries[r] > 0
        BY <3>0 DEF ByWorker, Holds
      <4>2. lock[r] > 0
        BY <4>1, <3>1, BulkJobsAssumption
      <4>3. lock'[r] = lock[r] - 1 /\ run'[w][r].age = run[w][r].age + 1
        BY <4>2, <1>3, <1>4
      <4>4. lock'[r] + run'[w][r].age = LockTtl
        BY <4>1, <4>3, <3>1, BulkJobsAssumption
      <4>5. r \in queue' /\ tries'[r] > 0
        BY <4>1, <1>1
      <4> QED
        BY <4>4, <4>5
    <3>3. StartedInRun(w, r)'
      <4> SUFFICES ASSUME HasBegun(w, r)
                   PROVE  started'[r] <= run'[w][r].age
        BY <1>4 DEF StartedInRun, HasBegun
      <4>1. Live(w, r) /\ started[r] <= run[w][r].age
        BY <3>0 DEF ByWorker, StartedInRun, HasBegun, Live, InTask
      <4> QED
        BY <4>1, <3>1, <1>2, <1>4
    <3>4. CountedBy(w, r)'
      BY <3>0, <2>1, <1>1, <1>4 DEF ByWorker, CountedBy, Counted, Budget
    <3>5. FirstTry(w, r)'
      BY <3>0, <1>1, <1>4 DEF ByWorker, FirstTry, HasBegun
    <3> QED
      BY <3>2, <3>3, <3>4, <3>5 DEF ByWorker
  <2> QED
    BY <2>2, <2>3, <2>4 DEF Sound
<1> QED
  BY <1>8, <1>9 DEF Inv

\* No request has been made and no worker has started.
LEMMA InvInit == Init => Inv
<1> SUFFICES ASSUME Init
             PROVE  Inv
  OBVIOUS
<1>1. Off \in Run /\ Off.pc = "off" /\ NoJob \in Row /\ NoJob.status = "none"
      /\ NoJob.done = 0 /\ NoJob.bad = 0 /\ NoJob.errors = <<>>
  <2>1. <<>> \in Seq({"page_error", "job_error"})
    OBVIOUS
  <2> QED
    BY <2>1, BulkJobsAssumption DEF Off, Run, InTask, NoJob, Row
<1>2. TypeOK
  <2> HIDE DEF Off, NoJob
  <2> QED
    BY <1>1, BulkJobsAssumption DEF Init, TypeOK, Row
<1>3. ASSUME NEW w \in Workers, NEW r \in Requests
      PROVE  /\ run[w][r].pc = "off" /\ job[r].status = "none"
             /\ job[r].done = 0 /\ job[r].bad = 0
             /\ tries[r] = 0 /\ r \notin queue /\ stale[w] = {}
  BY <1>1 DEF Init
<1>4. ASSUME NEW w \in Workers, NEW r \in Requests
      PROVE  InBounds(w, r) /\ ByWorker(w, r)
  BY <1>3 DEF InBounds, ByWorker, Holds, StartedInRun, CountedBy, FirstTry, HasBegun,
              Live, InTask
<1>5. ASSUME NEW r \in Requests
      PROVE  /\ job[r].status = "none" /\ job[r].done = 0 /\ job[r].bad = 0
             /\ tries[r] = 0 /\ r \notin queue /\ job[r].errors = <<>>
  BY <1>1 DEF Init
<1>6. ASSUME NEW r \in Requests
      PROVE  Exclusive(r) /\ Counts(r) /\ Tells(r) /\ Ordered(r) /\ Stopped(r)
  <2>1. Counted(r) = 0 /\ Budget(r) = 0
    BY <1>5, BulkJobsAssumption DEF Counted, Budget
  <2>2. Exclusive(r) /\ Counts(r) /\ Tells(r)
    <3>1. <<"job_error">> # <<>>
      OBVIOUS
    <3> QED
      BY <3>1, <1>3, <1>5, <2>1 DEF Exclusive, Live, Counts, Tells
  <2>3. Ordered(r) /\ Stopped(r)
    BY <1>3, <1>5 DEF Ordered, Stopped
  <2> QED
    BY <2>2, <2>3
<1> QED
  BY <1>2, <1>4, <1>6 DEF Inv, Typed, Sound

\* Every step keeps the invariant.
LEMMA InvNext == Inv /\ [Next]_vars => Inv'
<1> SUFFICES ASSUME Inv, [Next]_vars
             PROVE  Inv'
  OBVIOUS
<1>1. ASSUME NEW r \in Requests, WebStep(r) \/ RequestStops(r)
      PROVE  Inv'
  BY <1>1, WebKeeps
<1>2. ASSUME NEW w \in Workers, WorkerStep(w) \/ Shutdown(w) \/ Crash(w)
      PROVE  Inv'
  <2>1. ASSUME NEW r \in Requests, Pick(w, r) \/ Drop(w, r)
        PROVE  Inv'
    BY <2>1, PickKeeps, DropKeeps
  <2> QED
    BY <1>2, <2>1, StartWorkerKeeps, SweepKeeps, StopKeeps DEF WorkerStep
<1>3. ASSUME NEW w \in Workers, NEW r \in Requests, TaskStep(w, r)
      PROVE  Inv'
  BY <1>3, TaskKeeps
<1>4. CASE Tick
  BY <1>4, TickKeeps
<1>5. CASE UNCHANGED vars
  <2>1. Typed'
    BY <1>5 DEF Inv, Typed, TypeOK, InBounds, vars
  <2>2. ASSUME NEW r \in Requests
        PROVE  Sound(r)'
    <3>1. Same(r)
      BY <1>5 DEF Same, vars
    <3>2. stops <= stops'
      BY <1>5, BulkJobsAssumption DEF Inv, Typed, TypeOK, vars
    <3> QED
      BY <3>1, <3>2, <2>1, SameSound DEF Inv, Typed
  <2> QED
    BY <2>1, <2>2 DEF Inv
<1> QED
  BY <1>1, <1>2, <1>3, <1>4, <1>5 DEF Next

(* The invariant holds of every behaviour.                                 *)
LEMMA InvAlways == Spec => []Inv
BY InvInit, InvNext, PTL DEF Spec

-----------------------------------------------------------------------------
(* The results.                                                            *)

(* The rows, tasks, keys and runs have their types for any number of       *)
(* requests, workers, pages and stops: no run goes past its last page, no  *)
(* task is tried more than MaxTries times, no run outlives its timeout and *)
(* no in-progress key lives longer than arq gives it.                      *)
THEOREM TypesHold == Spec => []TypeOK
<1>1. Inv => TypeOK
  BY DEF Inv, Typed
<1> QED
  BY <1>1, InvAlways, PTL

(* run_bulk_index_job is never run twice at once for one job, whatever the *)
(* number of workers and however they stop, as long as the key outlives    *)
(* the job timeout.                                                        *)
THEOREM NoRunTwice == Spec => []RunsExclusive
<1>1. Inv => RunsExclusive
  BY DEF Inv, Sound, Exclusive, RunsExclusive
<1> QED
  BY <1>1, InvAlways, PTL

(* completed_pages and failed_pages count every page of a completed job,   *)
(* and no page more than once per try.                                     *)
THEOREM PagesAreCounted == Spec => []CountersTrue
<1>1. Inv => CountersTrue
  BY DEF Inv, Sound, Counts, Counted, Budget, CountersTrue
<1> QED
  BY <1>1, InvAlways, PTL

(* Whatever run_bulk_index_job's appends in place lose, the first error of *)
(* a job with failed pages stays, and it is a page's: the job's own error  *)
(* stands in its place only when an earlier try had marked the job failed. *)
THEOREM FailedPagesAreTold == Spec => []FailuresTold
<1>1. ASSUME Inv, NEW r \in Requests, job[r].bad > 0
      PROVE  \/ job[r].errors = <<"page_error">>
             \/ tries[r] > 1 /\ job[r].errors = <<"job_error">>
  <2>1. Tells(r) /\ tries[r] \in Nat /\ job[r].bad # 0
    BY <1>1 DEF Inv, Sound, Typed, TypeOK
  <2>2. CASE job[r].errors = <<"job_error">>
    <3>1. tries[r] # 1
      BY <2>1, <2>2 DEF Tells
    <3>2. tries[r] # 0
      <4>1. <<"job_error">> # <<>>
        OBVIOUS
      <4> QED
        BY <4>1, <2>1, <2>2 DEF Tells
    <3> QED
      BY <3>1, <3>2, <2>1, <2>2
  <2> QED
    BY <1>1, <2>1, <2>2 DEF Tells
<1>2. Inv => FailuresTold
  BY <1>1 DEF FailuresTold
<1> QED
  BY <1>2, InvAlways, PTL

(* What sweep_stale_jobs selects as it starts is in no worker's hands.     *)
THEOREM SweepFindsOrphans == Spec => SelectsOrphans
<1>1. ASSUME Inv, NEW w \in Workers, StartWorker(w), NEW v \in Workers,
             NEW r \in stale'[w]
      PROVE  ~HasBegun(v, r)
  <2>1. stale'[w] = {q \in Requests : IsStale(q)}
    BY <1>1 DEF StartWorker, Inv, Typed, TypeOK
  <2> QED
    BY <1>1, <2>1, StaleIsOrphaned
<1>2. Inv /\ [Next]_vars =>
        [\A w \in Workers : StartWorker(w) =>
           \A v \in Workers : \A r \in stale'[w] : ~HasBegun(v, r)]_vars
  BY <1>1
<1> QED
  BY <1>2, InvAlways, PTL DEF Spec, SelectsOrphans

\* A run of the first try finds the row as it left it, and a later one is
\* there because a worker stopped.
LEMMA TaskReopens ==
  ASSUME Inv, NEW w \in Workers, NEW q \in Requests, TaskStep(w, q), NEW r \in Requests,
         job[r].status \in Terminal, job'[r].status # job[r].status
  PROVE  tries[r] > 1 /\ stops > 0
<1>1. Moves(w, q)
  BY TaskMoves DEF Inv
<1>2. r = q /\ Goes(w, q)
  BY <1>1 DEF Moves, OnlyRow, Ends
<1>3. Sound(r) /\ ByWorker(w, r) /\ tries[r] \in Nat
  BY DEF Inv, Sound, Typed, TypeOK
<1>4. tries[r] > 0
  BY <1>2, <1>3 DEF ByWorker, Holds, Live, Goes, InTask
<1>5. tries[r] # 1
  BY <1>2, <1>3 DEF ByWorker, FirstTry, Goes, Terminal
<1>6. tries[r] > 1
  BY <1>3, <1>4, <1>5
<1> QED
  BY <1>3, <1>6 DEF Sound, Stopped

(* An end of a job is final unless arq has delivered its task again after  *)
(* a worker stopped: in the task's first try neither the run that ended    *)
(* it, nor a sweep that had selected it, nor a request gives it another    *)
(* status, and no exception that run_bulk_index_job raises again does.     *)
THEOREM EndsAreFinal == Spec => ReopenedOnlyByRetry
<1>1. ASSUME Inv, [Next]_vars, NEW r \in Requests,
             job[r].status \in Terminal, job'[r].status # job[r].status
      PROVE  tries[r] > 1 /\ stops > 0
  <2>0. Sound(r) /\ tries[r] \in Nat /\ TypeOK
    BY <1>1 DEF Inv, Typed, TypeOK
  <2>1. ASSUME NEW q \in Requests, WebStep(q) \/ RequestStops(q)
        PROVE  FALSE
    <3>1. job' = job \/ (req[q] = "insert" /\ job' = [job EXCEPT ![q].status = "queued"])
      BY <2>1 DEF WebStep, Join, Check, Insert, Enqueue, RequestFails, RequestStops,
                  rowVars
    <3>2. req[q] = "insert" => job[q].status = "none"
      BY <1>1 DEF Inv, Sound, Ordered
    <3> QED
      BY <3>1, <3>2, <1>1, <2>0 DEF Terminal, TypeOK
  <2>2. ASSUME NEW w \in Workers, Sweep(w)
        PROVE  tries[r] > 1 /\ stops > 0
    <3>1. r \in stale[w] /\ job'[r].status = "failed"
      <4>1. job' = [q \in Requests |->
                      IF q \in stale[w] THEN [job[q] EXCEPT !.status = "failed"]
                                        ELSE job[q]]
        BY <2>2 DEF Sweep
      <4>2. PICK row \in Row : row = job[r]
        BY <2>0 DEF TypeOK, Row
      <4>3. [row EXCEPT !.status = "failed"].status = "failed"
        BY DEF Row
      <4> QED
        BY <4>1, <4>2, <4>3, <1>1
    <3>2. job[r].status = "completed"
      BY <3>1, <1>1 DEF Terminal
    <3>3. tries[r] # 0 /\ tries[r] # 1
      BY <3>1, <3>2, <2>0 DEF Sound, Ordered, ByWorker, FirstTry
    <3> QED
      BY <3>3, <2>0 DEF Sound, Stopped
  <2>3. ASSUME NEW w \in Workers, NEW q \in Requests, TaskStep(w, q)
        PROVE  tries[r] > 1 /\ stops > 0
    BY <2>3, <1>1, TaskReopens
  <2>4. ASSUME job' = job
        PROVE  FALSE
    BY <2>4, <1>1
  <2>5. ASSUME NEW w \in Workers, NEW q \in Requests, Pick(w, q) \/ Drop(w, q)
        PROVE  job' = job
    BY <2>5 DEF Pick, Drop, rowVars
  <2>6. ASSUME NEW w \in Workers, StartWorker(w) \/ Shutdown(w) \/ Crash(w)
        PROVE  job' = job
    BY <2>6 DEF StartWorker, Shutdown, Crash, StopWorker, rowVars
  <2>7. Tick \/ UNCHANGED vars => job' = job
    BY DEF Tick, vars
  <2> QED
    BY <1>1, <2>1, <2>2, <2>3, <2>4, <2>5, <2>6, <2>7 DEF Next, WorkerStep
<1>2. Inv /\ [Next]_vars =>
        [\A r \in Requests :
           (job[r].status \in Terminal /\ job'[r].status # job[r].status)
             => tries[r] > 1 /\ stops > 0]_vars
  BY <1>1
<1> QED
  BY <1>2, InvAlways, PTL DEF Spec, ReopenedOnlyByRetry
=============================================================================
