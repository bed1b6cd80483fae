-------------------------- MODULE BulkIndex_proofs --------------------------
(***************************************************************************)
(* Proofs about BulkIndex, for any tasks, web tasks and workers, pages,    *)
(* versions, lists, batch size and number of attempts: its type invariant, *)
(* that the two stores agree beside bulk runs and their late threads, that *)
(* a removal cut short is found again, and that a run which nothing        *)
(* overlapped leaves the index of the site in its list.                    *)
(***************************************************************************)
EXTENDS BulkIndex, PageIndex_proofs

-----------------------------------------------------------------------------
(* The inductive invariant: that of PageIndex, but for the pages a removal *)
(* has taken from Pinecone and not from Postgres, and for the runs whose   *)
(* session holds all the rows they remove; and, for each run, where it is  *)
(* and what it can rely on while others work on the same pages.            *)
Marked == {p \in Pages : \E w \in Workers : p \in Removing(w)}

InRemoval == {w \in Workers : bulk[w].pc = "removal"}

\* Calls that a thread goes on with when its coroutine is gone.
Threads == [pc : InThread, page : Pages, ver : Versions \cup {None}, ids : SUBSET Slots]

\* M and B name the two sets for the lemmas of PageIndex_proofs.
Stores == \E M \in {Marked}, B \in {InRemoval} : Inv(M, B)

\* The call a run is in is one that its loop or its removal makes.
Placed(w) ==
  LET run == bulk[w] IN
  /\ run.left \subseteq run.found /\ run.todo \subseteq Listed(run.list)
  /\ run.pc \notin {"removal", "complete"} => run.found = {}
  /\ run.pc = "pages" /\ op[w].pc # "idle" =>
       /\ op[w].kind = "index" /\ op[w].page \in Listed(run.list)
       /\ Active(w) => op[w].ver = run.list[op[w].page]
  /\ run.pc = "removal" /\ Active(w) =>
       op[w].kind = "delete" /\ op[w].page \in run.found \ run.left
  /\ run.pc = "complete" => op[w] = Idle
  /\ run.pc = "broken" => ~Active(w)

\* Nobody works on a page that a run removes without being noticed.
Noticed(w) ==
  \A t \in Tasks \ {w}, p \in bulk[w].found : Touches(t, p) => p \in bulk[w].crossed

Unseen(w) == bulk[w].found \ bulk[w].crossed

\* What a removal finds of the pages that it has to itself.
Removed(w) ==
  /\ bulk[w].pc = "removal" =>
       /\ held[w] \subseteq bulk[w].found
       /\ op[w].pc # "returned" => Unseen(w) \subseteq held[w]
       /\ \A p \in Unseen(w) : row[p] # None
       /\ \A p \in Unseen(w) \ bulk[w].left :
            Touches(w, p) \/ op[w].pc = "returned" \/ vecs[p] = Blank
  /\ bulk[w].pc = "complete" =>
       \A p \in Unseen(w) : row[p] = None /\ vecs[p] = Blank

Single(w) == Running(w) /\ bulk[w].alone

\* A run that nothing has overlapped is the only one at work.
Solitary(w) ==
  Single(w) =>
    /\ \A t \in Tasks \ {w} : ~Active(t)
    /\ \A x \in Workers \ {w} : ~Running(x)
    /\ late = {} /\ bulk[w].crossed = {}
    /\ Active(w) => op[w].alone

\* How far such a run has brought the index to the site of its list.
Mirrors(w) ==
  LET run == bulk[w] IN
  Single(w) =>
    /\ run.pc = "pages" =>
         \A p \in Listed(run.list) \ (run.failed \cup run.todo) :
           \/ Indexed(p, run.list[p])
           \/ op[w].pc # "idle" /\ op[w].page = p
                /\ (op[w].pc = "returned" => op[w].result = "failed")
    /\ run.pc \in {"removal", "complete"} =>
         \A p \in Listed(run.list) \ run.failed : Indexed(p, run.list[p])
    /\ run.pc = "removal" =>
         /\ run.found \cap Listed(run.list) = {}
         /\ \A p \in Pages \ Listed(run.list) : row[p] = None \/ p \in run.found
    /\ run.pc = "complete" => \A p \in Pages \ Listed(run.list) : row[p] = None

Sound(w) == Placed(w) /\ Noticed(w) /\ Removed(w) /\ Solitary(w) /\ Mirrors(w)

BulkInv == BulkTypeOK /\ Stores /\ \A w \in Workers : Sound(w)

-----------------------------------------------------------------------------
(* What the others' steps leave of a run.                                  *)

\* A call is the same, though it may have been overlapped.
Flagged(u) ==
  \/ op'[u] = op[u]
  \/ Active(u) /\ op'[u] = [op[u] EXCEPT !.alone = FALSE]

SameCall(u) ==
  /\ op'[u].pc = op[u].pc
  /\ op[u].pc # "idle" => op'[u].kind = op[u].kind /\ op'[u].page = op[u].page
  /\ op[u].pc = "returned" => op'[u].result = op[u].result
  /\ Active(u) => op'[u].ver = op[u].ver
  /\ op[u] = Idle => op'[u] = Idle
  /\ \A p \in Pages : Touches(u, p)' <=> Touches(u, p)

SameRun(v) ==
  /\ bulk'[v].pc = bulk[v].pc /\ bulk'[v].list = bulk[v].list
  /\ bulk'[v].todo = bulk[v].todo /\ bulk'[v].failed = bulk[v].failed
  /\ bulk'[v].found = bulk[v].found /\ bulk'[v].left = bulk[v].left
  /\ bulk[v].crossed \subseteq bulk'[v].crossed

\* The invariant's types.
LEMMA Given ==
  ASSUME BulkInv
  PROVE  /\ Workers \subseteq Tasks /\ Typed /\ TypeOK
         /\ bulk \in [Workers -> Run]
         /\ \A w \in Workers : bulk[w] \in Run /\ Sound(w)
BY BulkIndexAssumption DEF BulkInv, BulkTypeOK, Stores, Inv

\* Being overlapped changes nothing else of a call.
LEMMA FlaggedCall ==
  ASSUME TypeOK, NEW u \in Tasks, Flagged(u)
  PROVE  SameCall(u)
<1>1. CASE op'[u] = op[u]
  BY <1>1 DEF SameCall, Touches, Active, Scope
<1>2. CASE Active(u) /\ op'[u] = [op[u] EXCEPT !.alone = FALSE]
  <2>1. op[u] \in Op
    BY <1>2, ActiveType
  <2>2. op'[u].pc = op[u].pc /\ op'[u].kind = op[u].kind /\ op'[u].page = op[u].page
        /\ op'[u].ver = op[u].ver
    BY <1>2, <2>1 DEF Op
  <2>3. op[u].pc # "returned" /\ op[u] # Idle
    BY <1>2 DEF Active, Waiting, Idle
  <2> QED
    BY <2>2, <2>3 DEF SameCall, Touches, Active, Scope
<1> QED
  BY <1>1, <1>2 DEF Flagged

\* The ghosts of a run note the work of others, and nothing else changes.
LEMMA NotedRun ==
  ASSUME NEW v \in Workers, NEW pages, bulk[v] \in Run, Placed(v),
         bulk'[v] = Noted(v, pages)
  PROVE  /\ bulk'[v] \in Run /\ SameRun(v) /\ ~Single(v)'
         /\ bulk[v].found \cap pages \subseteq bulk'[v].crossed
<1>1. CASE Running(v)
  <2> DEFINE n == [bulk[v] EXCEPT !.alone = FALSE,
                                  !.crossed = @ \cup (bulk[v].found \cap pages)]
  <2>1. /\ n \in Run /\ n.pc = bulk[v].pc /\ n.list = bulk[v].list
        /\ n.todo = bulk[v].todo /\ n.failed = bulk[v].failed
        /\ n.found = bulk[v].found /\ n.left = bulk[v].left
        /\ n.crossed = bulk[v].crossed \cup (bulk[v].found \cap pages)
        /\ n.alone = FALSE
    BY DEF Run
  <2>2. bulk'[v] = n
    BY <1>1 DEF Noted
  <2> HIDE DEF n
  <2> QED
    BY <2>1, <2>2 DEF SameRun, Single
<1>2. CASE ~Running(v)
  <2>1. bulk'[v] = bulk[v] /\ bulk[v].pc = "off" /\ bulk[v].found = {}
    BY <1>2 DEF Noted, Running, Placed
  <2> QED
    BY <2>1 DEF SameRun, Single, Running
<1> QED
  BY <1>1, <1>2

\* A run whose call, rows and unseen pages are left alone goes on as it was.
LEMMA Spared ==
  ASSUME NEW v \in Workers, Workers \subseteq Tasks, bulk[v] \in Run, Sound(v),
         SameRun(v), SameCall(v), held'[v] \subseteq held[v],
         \A t \in Tasks \ {v}, p \in bulk[v].found :
           Touches(t, p)' => Touches(t, p) \/ p \in bulk'[v].crossed,
         \A p \in bulk[v].found \ bulk'[v].crossed :
           row'[p] = row[p] /\ vecs'[p] = vecs[p] /\ (p \in held[v] => p \in held'[v]),
         Single(v)' => Solitary(v)' /\ Mirrors(v)'
  PROVE  Sound(v)'
<1>1. Active(v)' <=> Active(v)
  BY DEF SameCall, Active
<1>2. Placed(v)'
  <2>1. Placed(v)
    BY DEF Sound
  <2>2. Active(v) => op[v].pc # "idle"
    BY DEF Active, Waiting
  <2> QED
    BY <1>1, <2>1, <2>2 DEF Placed, SameRun, SameCall, Listed
<1>3. Noticed(v)'
  BY DEF Sound, Noticed, SameRun
<1>4. Unseen(v)' \subseteq Unseen(v) /\ Unseen(v)' = bulk[v].found \ bulk'[v].crossed
      /\ Unseen(v) \subseteq Pages
  BY DEF Unseen, SameRun, Run
<1>5. Removed(v)'
  <2>1. Removed(v)
    BY DEF Sound
  <2>2. ASSUME bulk'[v].pc = "removal"
        PROVE  /\ held'[v] \subseteq bulk'[v].found
               /\ op'[v].pc # "returned" => Unseen(v)' \subseteq held'[v]
               /\ \A p \in Unseen(v)' : row'[p] # None
               /\ \A p \in Unseen(v)' \ bulk'[v].left :
                    Touches(v, p)' \/ op'[v].pc = "returned" \/ vecs'[p] = Blank
    <3>1. bulk[v].pc = "removal"
      BY <2>2 DEF SameRun
    <3> QED
      BY <1>4, <2>1, <3>1 DEF Removed, SameRun, SameCall
  <2>3. ASSUME bulk'[v].pc = "complete", NEW p \in Unseen(v)'
        PROVE  row'[p] = None /\ vecs'[p] = Blank
    BY <1>4, <2>1, <2>3 DEF Removed, SameRun
  <2> QED
    BY <2>2, <2>3 DEF Removed
<1>6. Solitary(v)' /\ Mirrors(v)'
  BY DEF Solitary, Mirrors
<1> QED
  BY <1>2, <1>3, <1>5, <1>6 DEF Sound

\* What the others do on pages, a run notes on those it removes.
LEMMA Bystander ==
  ASSUME BulkInv, NEW v \in Workers, NEW pages, bulk'[v] = Noted(v, pages),
         Flagged(v), held'[v] \subseteq held[v], held[v] \ pages \subseteq held'[v],
         \A p \in Pages \ pages : row'[p] = row[p] /\ vecs'[p] = vecs[p],
         \A t \in Tasks \ {v}, p \in Pages :
           Touches(t, p)' => Touches(t, p) \/ p \in pages
  PROVE  Sound(v)' /\ bulk'[v] \in Run /\ SameRun(v)
<1>1. /\ v \in Tasks /\ Workers \subseteq Tasks /\ TypeOK /\ bulk[v] \in Run
      /\ Sound(v) /\ Placed(v)
  BY Given DEF Sound
<1>2. /\ bulk'[v] \in Run /\ SameRun(v) /\ ~Single(v)'
      /\ bulk[v].found \cap pages \subseteq bulk'[v].crossed
  BY <1>1, NotedRun
<1>3. SameCall(v)
  BY <1>1, FlaggedCall
<1>4. bulk[v].found \subseteq Pages
  BY <1>1 DEF Run
<1>5. \A p \in bulk[v].found \ bulk'[v].crossed : p \in Pages \ pages
  BY <1>2, <1>4
<1> QED
  BY <1>1, <1>2, <1>3, <1>4, <1>5, Spared

-----------------------------------------------------------------------------
(* From the invariant of the stores to that of the runs.                   *)

\* More pages may be without their vectors, and other sessions hold rows.
LEMMA Wider ==
  ASSUME NEW M, NEW B, Inv(M, B)', NEW N, M \subseteq N,
         NEW C, \A t \in Tasks : t \in B /\ Active(t)' => t \in C
  PROVE  Inv(N, C)'
<1>1. Typed' /\ Alone'
  BY DEF Inv
<1>2. ASSUME NEW t \in Tasks, NEW p \in Pages, Sole(t, p)'
      PROVE  Progress(t, p, N, C)'
  <2>1. Progress(t, p, M, B)' /\ Active(t)'
    BY <1>2 DEF Inv, InProgress, Sole, Touches
  <2> QED
    BY <2>1 DEF Progress, Untouched, Even, Emptied
<1>3. QuietEven(N)'
  BY DEF Inv, QuietEven, Even
<1>4. \A t \in Tasks : Holds(t, C)'
  BY DEF Inv, Holds
<1> QED
  BY <1>1, <1>2, <1>3, <1>4 DEF Inv, InProgress

\* The sets of pages and workers after a step of w.
LEMMA StoresNow ==
  ASSUME Workers \subseteq Tasks, NEW w \in Tasks, NEW M, NEW B, Inv(M, B)',
         \A v \in Workers \ {w} : SameRun(v),
         M \subseteq Pages,
         \A p \in M : \/ \E v \in Workers \ {w} : p \in Removing(v)
                      \/ w \in Workers /\ p \in Removing(w)',
         \A t \in B : Active(t)' =>
           /\ t \in Workers
           /\ bulk[t].pc = "removal" \/ t = w
           /\ t = w => bulk'[w].pc = "removal"
  PROVE  Stores'
<1>1. PICK N, C : N = Marked' /\ C = InRemoval'
  OBVIOUS
<1>2. \A v \in Workers \ {w} : Removing(v)' = Removing(v) /\ bulk'[v].pc = bulk[v].pc
  BY DEF SameRun, Removing
<1>3. M \subseteq N
  BY <1>1, <1>2 DEF Marked
<1>4. \A t \in Tasks : t \in B /\ Active(t)' => t \in C
  BY <1>1, <1>2 DEF InRemoval
<1>5. Inv(N, C)'
  BY <1>3, <1>4, Wider
<1> QED
  BY <1>1, <1>5 DEF Stores

\* A run that moves on, and what the others see of it.
LEMMA RunMoves ==
  ASSUME BulkInv, NEW w \in Workers, NEW run \in Run, NEW pages, Becomes(w, run, pages),
         late' \in SUBSET Threads,
         \A u \in Tasks \ {w} :
           Flagged(u) /\ held'[u] \subseteq held[u] /\ held[u] \ pages \subseteq held'[u],
         \A p \in Pages \ pages : row'[p] = row[p] /\ vecs'[p] = vecs[p],
         \A p \in Pages : Touches(w, p)' => Touches(w, p) \/ p \in pages,
         NEW M, NEW B, Inv(M, B)', M \subseteq Pages,
         \A p \in M : p \in Removing(w)' \/ \E v \in Workers \ {w} : p \in Removing(v),
         \A t \in B : Active(t)' =>
           /\ t \in Workers
           /\ bulk[t].pc = "removal" \/ t = w
           /\ t = w => run.pc = "removal",
         bulk'[w] = run => Sound(w)'
  PROVE  BulkInv'
<1>1. w \in Tasks /\ Workers \subseteq Tasks /\ TypeOK
  BY Given
<1>2. bulk'[w] = run /\ \A v \in Workers \ {w} : bulk'[v] = Noted(v, pages)
  BY DEF Becomes
<1>3. ASSUME NEW v \in Workers \ {w}
      PROVE  Sound(v)' /\ bulk'[v] \in Run /\ SameRun(v)
  <2>1. v \in Tasks \ {w}
    BY <1>1
  <2>2. ASSUME NEW t \in Tasks \ {v}, NEW p \in Pages, Touches(t, p)'
        PROVE  Touches(t, p) \/ p \in pages
    <3>1. CASE t = w
      BY <2>2, <3>1
    <3>2. CASE t # w
      BY <1>1, <2>2, <3>2, FlaggedCall DEF SameCall
    <3> QED
      BY <3>1, <3>2
  <2> QED
    BY <1>2, <2>1, <2>2, Bystander
<1>4. Stores'
  BY <1>1, <1>2, <1>3, StoresNow
<1>5. bulk' \in [Workers -> Run]
  BY <1>2, <1>3 DEF Becomes
<1>6. TypeOK'
  BY DEF Inv, Typed
<1> QED
  BY <1>2, <1>3, <1>4, <1>5, <1>6 DEF BulkInv, BulkTypeOK, Threads

-----------------------------------------------------------------------------
(* The loop over the pages.                                                *)

\* Every page without its vectors is one of w's, or another run's.
LEMMA MarkedBy ==
  ASSUME NEW w \in Workers, NEW p \in Marked
  PROVE  p \in Pages /\ (p \in Removing(w) \/ \E v \in Workers \ {w} : p \in Removing(v))
BY DEF Marked

\* A run begins: if nothing else is at work it has the site to itself.
LEMMA BeginKeeps ==
  ASSUME BulkInv, NEW w \in Workers, NEW list \in Lists, BeginRun(w, list)
  PROVE  BulkInv'
<1> DEFINE solo == /\ \A t \in Tasks : ~Active(t)
                   /\ \A x \in Workers : ~Running(x)
                   /\ late = {}
           run == [Off EXCEPT !.pc = "pages", !.list = list, !.todo = Listed(list),
                              !.alone = solo]
<1>1. w \in Tasks /\ Workers \subseteq Tasks /\ TypeOK /\ bulk \in [Workers -> Run] /\ Sound(w)
  BY Given
<1>2. Becomes(w, run, {}) /\ UNCHANGED vars /\ late' = late /\ ~Running(w) /\ op[w] = Idle
  BY DEF BeginRun
<1>3. run \in Run /\ run.pc = "pages" /\ run.list = list /\ run.todo = Listed(list)
      /\ run.found = {} /\ run.left = {} /\ run.crossed = {} /\ run.alone = solo
  BY BulkIndexAssumption DEF Run, Off, Listed
<1> HIDE DEF run
<1>4. PICK M, B : M = Marked /\ B = InRemoval /\ Inv(M, B)
  BY DEF BulkInv, Stores
<1>5. Inv(M, B)'
  BY <1>2, <1>4, InvStutters
<1>6. Removing(w) = {} /\ w \notin B
  BY <1>2, <1>4 DEF Running, Removing, InRemoval
<1>7. \A u \in Tasks : op'[u] = op[u] /\ (Active(u)' <=> Active(u))
  BY <1>2 DEF vars, Active
<1>8. ASSUME bulk'[w] = run
      PROVE  Sound(w)'
  <2>1. Placed(w)' /\ Noticed(w)' /\ Removed(w)'
    BY <1>2, <1>3, <1>7, <1>8, <1>1 DEF Placed, Noticed, Removed, Idle, Active, Waiting
  <2>2. ASSUME Single(w)'
        PROVE  solo
    BY <1>3, <1>8, <2>2 DEF Single
  <2>3. \A x \in Workers \ {w} : ~Running(x) => ~Running(x)'
    BY <1>2 DEF Becomes, Noted, Running
  <2>4. Solitary(w)'
    BY <1>2, <1>3, <1>7, <1>8, <2>2, <2>3, <1>1 DEF Solitary
  <2>5. Mirrors(w)'
    BY <1>3, <1>8 DEF Mirrors
  <2> QED
    BY <2>1, <2>4, <2>5 DEF Sound
<1>9. \A p \in M : p \in Pages /\ \E v \in Workers \ {w} : p \in Removing(v)
  BY <1>4, <1>6, MarkedBy
<1>10. \A p \in Pages : Touches(w, p)' => Touches(w, p)
  BY <1>2 DEF vars, Touches, Active, Scope
<1>11. \A t \in B : t \in Workers /\ bulk[t].pc = "removal" /\ t # w
  BY <1>4, <1>6 DEF InRemoval
<1>12. late' \in SUBSET Threads
  BY <1>2 DEF BulkInv, BulkTypeOK, Threads
<1> QED
  BY <1>1, <1>2, <1>3, <1>5, <1>8, <1>9, <1>10, <1>11, <1>12, RunMoves DEF vars, Flagged

\* The row of p has the hash of v after the step.
IndexedNow(p, v) == row'[p] # None /\ Hash[row'[p]] = Hash[v]

\* A call that begins leaves the other calls the same.
LEMMA EnterFlags ==
  ASSUME NEW t \in Tasks, NEW o, Enter(t, o), NEW u \in Tasks \ {t}
  PROVE  Flagged(u)
BY DEF Enter, Flagged, Rivals

\* The next page is skipped, or its call begins.
LEMMA TakeKeeps ==
  ASSUME BulkInv, NEW w \in Workers, NEW p \in Pages, TakePage(w, p)
  PROVE  BulkInv'
<1> DEFINE run == [bulk[w] EXCEPT !.todo = @ \ {p}]
           v == bulk[w].list[p]
           skip == SkipUnchanged(w, p, v)
<1>1. /\ w \in Tasks /\ Workers \subseteq Tasks /\ TypeOK /\ Typed
      /\ bulk[w] \in Run /\ Sound(w)
  BY Given
<1>2. /\ Becomes(w, run, {p}) /\ late' = late /\ (skip \/ StartIndex(w, p, v))
      /\ bulk[w].pc = "pages" /\ p \in bulk[w].todo /\ op[w] = Idle
  BY DEF TakePage, SkipUnchanged, StartIndex
<1>3. /\ run \in Run /\ run.pc = "pages" /\ run.list = bulk[w].list
      /\ run.todo = bulk[w].todo \ {p} /\ run.failed = bulk[w].failed
      /\ run.found = bulk[w].found /\ run.left = bulk[w].left
      /\ run.crossed = bulk[w].crossed /\ run.alone = bulk[w].alone
  BY <1>1, <1>2 DEF Run
<1> HIDE DEF run
<1>4. bulk[w].found = {} /\ bulk[w].left = {} /\ p \in Listed(bulk[w].list) /\ v \in Versions
  BY <1>1, <1>2 DEF Sound, Placed, Listed, Run
<1>5. PICK M, B : M = Marked /\ B = InRemoval /\ Inv(M, B)
  BY DEF BulkInv, Stores
<1>6. Start(w) /\ Typed' /\ Inv(M, B)'
  <2>1. Start(w)
    BY <1>2, <1>4 DEF Start
  <2> QED
    BY <1>1, <1>5, <2>1, StartKeeps, StartTyped
<1> DEFINE o == Call("index", p, v, IF row[p] = None THEN "embed" ELSE "list",
                     row[p] # None)
<1>7. ASSUME ~skip
      PROVE  /\ Enter(w, o) /\ op'[w].kind = "index" /\ op'[w].page = p /\ op'[w].ver = v
             /\ op'[w].pc \in {"embed", "list"}
             /\ op'[w].alone <=> Rivals(w, o) = {}
  <2>1. o \in Op /\ o.kind = "index" /\ o.page = p /\ o.ver = v /\ o.pc \in {"embed", "list"}
    BY <1>4, PageIndexAssumption DEF Call, Op, Kinds, Waiting
  <2>2. Enter(w, o)
    BY <1>2, <1>7 DEF StartIndex
  <2> HIDE DEF o
  <2>3. op'[w] = [o EXCEPT !.alone = (Rivals(w, o) = {})]
    BY <1>1, <2>2 DEF Enter, TypeOK
  <2> QED
    BY <2>1, <2>2, <2>3 DEF Op
<1> HIDE DEF o
<1>8. ASSUME skip
      PROVE  /\ op'[w] = Answered("index", p, "unchanged") /\ Indexed(p, v)
             /\ \A u \in Tasks \ {w} : op'[u] = op[u]
  BY <1>1, <1>8 DEF SkipUnchanged, TypeOK
<1>9. \A u \in Tasks \ {w} : Flagged(u) /\ held'[u] = held[u]
  <2>1. \A u \in Tasks \ {w} : Flagged(u)
    <3>1. CASE skip
      BY <1>8, <3>1 DEF Flagged
    <3>2. CASE ~skip
      BY <1>1, <1>7, <3>2, EnterFlags
    <3> QED
      BY <3>1, <3>2
  <2>2. held' = held \/ \E x : held' = [held EXCEPT ![w] = x]
    BY <1>2 DEF SkipUnchanged, StartIndex
  <2> QED
    BY <1>1, <2>1, <2>2 DEF TypeOK
<1>10. UNCHANGED <<row, vecs>>
  BY <1>2 DEF SkipUnchanged, StartIndex
<1>11. \A q \in Pages : Touches(w, q)' => q = p
  BY <1>7, <1>8 DEF Touches, Scope, Active, Answered, Waiting
<1>12. ASSUME bulk'[w] = run
       PROVE  Sound(w)'
  <2>1. Placed(w)'
    BY <1>1, <1>2, <1>3, <1>4, <1>7, <1>8, <1>12
    DEF Sound, Placed, Answered, Active, Waiting, Listed
  <2>2. Noticed(w)' /\ Removed(w)'
    BY <1>2, <1>3, <1>4, <1>12 DEF Noticed, Removed
  <2>3. ASSUME Single(w)'
        PROVE  Single(w) /\ \A u \in Tasks \ {w} : ~Active(u)
    BY <1>1, <1>2, <1>3, <1>12, <2>3 DEF Single, Running, Sound, Solitary
  <2>4. \A x \in Workers \ {w} : ~Running(x) => ~Running(x)'
    BY <1>2 DEF Becomes, Noted, Running
  <2>5. \A u \in Tasks \ {w} : ~Active(u) => ~Active(u)'
    BY <1>1, <1>9, FlaggedCall DEF SameCall, Active
  <2>6. Solitary(w)'
    <3>1. Single(w)' /\ Active(w)' => op'[w].alone
      BY <1>7, <1>8, <2>3 DEF Rivals, Answered, Active, Waiting
    <3> QED
      BY <1>1, <1>2, <1>3, <1>12, <2>3, <2>4, <2>5, <3>1 DEF Sound, Solitary
  <2>7. Mirrors(w)'
    <3> SUFFICES ASSUME Single(w)', NEW q \in Listed(run.list) \ (run.failed \cup run.todo)
                 PROVE  \/ IndexedNow(q, run.list[q])
                        \/ op'[w].pc # "idle" /\ op'[w].page = q
                             /\ (op'[w].pc = "returned" => op'[w].result = "failed")
      BY <1>3, <1>12 DEF Mirrors, Indexed, IndexedNow
    <3>1. CASE q = p
      BY <1>3, <1>7, <1>8, <1>10, <3>1 DEF Indexed, IndexedNow, Answered
    <3>2. CASE q # p
      <4>1. q \in Listed(bulk[w].list) \ (bulk[w].failed \cup bulk[w].todo)
        BY <1>3, <3>2
      <4>2. Indexed(q, run.list[q])
        BY <1>1, <1>2, <1>3, <2>3, <4>1 DEF Sound, Mirrors, Idle
      <4> QED
        BY <1>10, <4>2 DEF Indexed, IndexedNow
    <3> QED
      BY <3>1, <3>2
  <2> QED
    BY <2>1, <2>2, <2>6, <2>7 DEF Sound
<1>13. \A q \in M : q \in Pages /\ \E x \in Workers \ {w} : q \in Removing(x)
  BY <1>2, <1>5, MarkedBy DEF Removing
<1>14. \A t \in B : t \in Workers /\ bulk[t].pc = "removal" /\ t # w
  BY <1>2, <1>5 DEF InRemoval
<1>15. late' \in SUBSET Threads
  BY <1>2 DEF BulkInv, BulkTypeOK, Threads
<1> QED
  BY <1>1, <1>2, <1>3, <1>6, <1>9, <1>10, <1>11, <1>12, <1>13, <1>14, <1>15, RunMoves

\* A page is counted: one that failed stays out of what the run has mirrored.
LEMMA CountKeeps ==
  ASSUME BulkInv, NEW w \in Workers, CountPage(w)
  PROVE  BulkInv'
<1> DEFINE failed == bulk[w].failed \cup PageIf(w, "failed")
           skipped == bulk[w].skipped \cup PageIf(w, "unchanged")
           told == [bulk[w] EXCEPT !.failed = failed]
           run == [told EXCEPT !.skipped = skipped]
<1>1. /\ w \in Tasks /\ Workers \subseteq Tasks /\ TypeOK /\ Typed
      /\ bulk[w] \in Run /\ Sound(w)
  BY Given
<1>2. /\ Becomes(w, run, {}) /\ late' = late /\ Respond(w) /\ bulk[w].pc = "pages"
      /\ op[w].pc = "returned" /\ UNCHANGED <<row, vecs, held, damaged>>
  BY <1>1 DEF CountPage, Respond, Run
<1>3. op'[w] = Idle /\ (\A u \in Tasks \ {w} : op'[u] = op[u]) /\ ~Active(w) /\ ~Active(w)'
  BY <1>1, <1>2 DEF Respond, TypeOK, Active, Idle, Waiting
<1>4. bulk[w].found = {} /\ bulk[w].left = {} /\ op[w].page \in Pages
  BY <1>1, <1>2 DEF Sound, Placed, Listed
<1>5. /\ run \in Run /\ run.pc = "pages" /\ run.list = bulk[w].list
      /\ run.todo = bulk[w].todo /\ run.found = {} /\ run.left = {}
      /\ run.failed = IF op[w].result = "failed" THEN bulk[w].failed \cup {op[w].page}
                      ELSE bulk[w].failed
      /\ run.crossed = bulk[w].crossed /\ run.alone = bulk[w].alone
  <2>1. failed \in SUBSET Pages /\ skipped \in SUBSET Pages
        /\ failed = IF op[w].result = "failed" THEN bulk[w].failed \cup {op[w].page}
                    ELSE bulk[w].failed
    BY <1>1, <1>4 DEF Run, PageIf
  <2> HIDE DEF failed, skipped
  <2>2. /\ told \in Run /\ told.pc = bulk[w].pc /\ told.list = bulk[w].list
        /\ told.todo = bulk[w].todo /\ told.found = bulk[w].found
        /\ told.left = bulk[w].left /\ told.failed = failed
        /\ told.crossed = bulk[w].crossed /\ told.alone = bulk[w].alone
    BY <1>1, <2>1 DEF Run
  <2> HIDE DEF told
  <2> QED
    BY <1>2, <1>4, <2>1, <2>2 DEF Run
<1> HIDE DEF run
<1>6. PICK M, B : M = Marked /\ B = InRemoval /\ Inv(M, B)
  BY DEF BulkInv, Stores
<1>7. Inv(M, B)'
  <2>1. Typed'
    BY <1>1, <1>2, AnswerTyped DEF Respond, TypeOK
  <2> QED
    BY <1>2, <1>1, <1>3, <1>6, <2>1, IdleKeeps
<1>8. ASSUME bulk'[w] = run
      PROVE  Sound(w)'
  <2>1. Placed(w)' /\ Noticed(w)' /\ Removed(w)'
    BY <1>1, <1>2, <1>3, <1>5, <1>8 DEF Sound, Placed, Noticed, Removed, Idle
  <2>2. Single(w)' => Single(w)
    BY <1>2, <1>5, <1>8 DEF Single, Running
  <2>3. \A x \in Workers \ {w} : ~Running(x) => ~Running(x)'
    BY <1>2 DEF Becomes, Noted, Running
  <2>4. Solitary(w)'
    BY <1>1, <1>2, <1>3, <1>5, <1>8, <2>2, <2>3 DEF Sound, Solitary, Active
  <2>5. Mirrors(w)'
    BY <1>1, <1>2, <1>5, <1>8, <2>2 DEF Sound, Mirrors, Indexed
  <2> QED
    BY <2>1, <2>4, <2>5 DEF Sound
<1>9. \A q \in M : q \in Pages /\ \E x \in Workers \ {w} : q \in Removing(x)
  BY <1>2, <1>6, MarkedBy DEF Removing
<1>10. \A t \in B : t \in Workers /\ bulk[t].pc = "removal" /\ t # w
  BY <1>2, <1>6 DEF InRemoval
<1>11. late' \in SUBSET Threads
  BY <1>2 DEF BulkInv, BulkTypeOK, Threads
<1>12. \A p \in Pages : ~Touches(w, p)'
  BY <1>3 DEF Touches
<1> QED
  BY <1>1, <1>2, <1>3, <1>5, <1>7, <1>8, <1>9, <1>10, <1>11, <1>12, RunMoves DEF Flagged

\* A commit that failed breaks the session, and the run with it.
LEMMA BreakKeeps ==
  ASSUME BulkInv, NEW w \in Workers, PageBreaks(w)
  PROVE  BulkInv'
<1> DEFINE run == [bulk[w] EXCEPT !.pc = "broken"]
<1>1. /\ w \in Tasks /\ Workers \subseteq Tasks /\ TypeOK /\ Typed
      /\ bulk[w] \in Run /\ Sound(w)
  BY Given
<1>2. /\ Becomes(w, run, {}) /\ late' = late /\ Step(w) /\ bulk[w].pc = "pages"
      /\ Raise(w, op[w]) /\ UNCHANGED <<row, vecs>>
  BY DEF PageBreaks, Step, CommitConflict, CommitFails
<1>3. /\ ~Active(w)' /\ \A u \in Tasks \ {w} : op'[u] = op[u] /\ held'[u] = held[u]
  BY <1>1, <1>2 DEF Raise, Answered, TypeOK, Active, Waiting
<1>4. bulk[w].found = {} /\ bulk[w].left = {}
  BY <1>1, <1>2 DEF Sound, Placed
<1>5. /\ run \in Run /\ run.pc = "broken" /\ run.list = bulk[w].list
      /\ run.todo = bulk[w].todo /\ run.found = {} /\ run.left = {}
      /\ run.crossed = bulk[w].crossed /\ run.alone = bulk[w].alone
  BY <1>1, <1>4 DEF Run
<1> HIDE DEF run
<1>6. PICK M, B : M = Marked /\ B = InRemoval /\ Inv(M, B)
  BY DEF BulkInv, Stores
<1>7. w \notin B
  BY <1>2, <1>6 DEF InRemoval
<1>8. Inv(M, B)'
  BY <1>1, <1>2, <1>6, <1>7, StepIsTyped, StepKeeps
<1>9. ASSUME bulk'[w] = run
      PROVE  Sound(w)'
  <2>1. Placed(w)' /\ Noticed(w)' /\ Removed(w)' /\ Mirrors(w)'
    BY <1>1, <1>2, <1>3, <1>5, <1>9 DEF Sound, Placed, Noticed, Removed, Mirrors
  <2>2. Single(w)' => Single(w)
    BY <1>2, <1>5, <1>9 DEF Single, Running
  <2>3. \A x \in Workers \ {w} : ~Running(x) => ~Running(x)'
    BY <1>2 DEF Becomes, Noted, Running
  <2>4. Solitary(w)'
    BY <1>1, <1>2, <1>3, <1>5, <1>9, <2>2, <2>3 DEF Sound, Solitary, Active
  <2> QED
    BY <2>1, <2>4 DEF Sound
<1>10. \A q \in M : q \in Pages /\ \E x \in Workers \ {w} : q \in Removing(x)
  BY <1>2, <1>6, MarkedBy DEF Removing
<1>11. \A t \in B : t \in Workers /\ bulk[t].pc = "removal" /\ t # w
  BY <1>6, <1>7 DEF InRemoval
<1>12. late' \in SUBSET Threads
  BY <1>2 DEF BulkInv, BulkTypeOK, Threads
<1>13. \A p \in Pages : ~Touches(w, p)'
  BY <1>3 DEF Touches
<1> QED
  BY <1>1, <1>2, <1>3, <1>5, <1>8, <1>9, <1>10, <1>11, <1>12, <1>13, RunMoves DEF Flagged

-----------------------------------------------------------------------------
(* The calls, of runs and of the web.                                      *)

\* A call works on the pages it has worked on, until it ends.
LEMMA StepTouches ==
  ASSUME TypeOK, NEW t \in Tasks, Active(t), Step(t) \/ Crash(t), NEW p, Touches(t, p)'
  PROVE  Touches(t, p) /\ GoesOn(t)
<1>1. CASE Crash(t)
  BY <1>1 DEF Crash, TypeOK, Touches, Active, Idle, Waiting
<1>2. CASE CommitIndex(t) \/ CommitDelete(t) \/ WipeRows(t)
  <2>1. op'[t].pc = "returned"
    BY <1>2 DEF CommitIndex, CommitDelete, WipeRows, Return, Answered, TypeOK
  <2> QED
    BY <2>1 DEF Touches, Active, Waiting
<1>3. CASE HasFailed(t)
  BY <1>3 DEF HasFailed, Touches, Active, Waiting
<1>4. CASE GoesOn(t)
  BY <1>4 DEF GoesOn, Touches, Scope
<1> QED
  BY <1>1, <1>2, <1>3, <1>4, StepEnds

\* No run is alone while another task has a call; it has noticed it.
LEMMA OthersSpared ==
  ASSUME BulkInv, bulk' = bulk, NEW M, NEW B, Inv(M, B), NEW t \in Tasks,
         Step(t) \/ Crash(t), t \in B => ~CommitDelete(t),
         NEW v \in Workers, v # t
  PROVE  Sound(v)'
<1>1. /\ Workers \subseteq Tasks /\ TypeOK /\ bulk[v] \in Run
      /\ Sound(v) /\ Noticed(v) /\ Solitary(v)
  BY Given DEF Sound
<1>2. /\ Active(t)
      /\ \A u \in Tasks \ {t} : op'[u] = op[u]
      /\ \A p \in Pages \ Scope(op[t]) : row'[p] = row[p] /\ vecs'[p] = vecs[p]
  BY OutsideScope
<1>3. held'[v] \subseteq held[v] /\ held[v] \ Scope(op[t]) \subseteq held'[v]
  BY <1>1, OthersHold
<1>4. SameRun(v) /\ Flagged(v) /\ SameCall(v)
  BY <1>1, <1>2, FlaggedCall DEF SameRun, Flagged
<1>5. ASSUME NEW u \in Tasks \ {v}, NEW p, Touches(u, p)'
      PROVE  Touches(u, p)
  <2>1. CASE u = t
    BY <1>1, <1>2, <1>5, <2>1, StepTouches
  <2>2. CASE u # t
    BY <1>2, <1>5, <2>2 DEF Touches, Active, Scope
  <2> QED
    BY <2>1, <2>2
<1>6. bulk[v].found \subseteq Pages
  BY <1>1 DEF Run
<1>7. ASSUME NEW p \in bulk[v].found \ bulk'[v].crossed
      PROVE  p \in Pages \ Scope(op[t])
  BY <1>1, <1>2, <1>6, <1>7 DEF Noticed, Touches
<1>8. ~Single(v)'
  BY <1>1, <1>2 DEF Solitary, Single, Running
<1> QED
  BY <1>1, <1>2, <1>3, <1>4, <1>5, <1>7, <1>8, Spared

\* The ghosts of the runs are as they were.
LEMMA RunStays ==
  ASSUME BulkInv, bulk' = bulk, late' = late, \A v \in Workers : Sound(v)',
         NEW M, NEW B, M = Marked, B = InRemoval, Inv(M, B)'
  PROVE  BulkInv'
<1>1. Marked' = Marked /\ InRemoval' = InRemoval
  BY DEF Marked, InRemoval, Removing
<1>2. Stores'
  BY <1>1 DEF Stores
<1>3. BulkTypeOK'
  BY DEF BulkInv, BulkTypeOK, Inv, Typed
<1> QED
  BY <1>2, <1>3 DEF BulkInv

\* The run's own call goes on: its loop has an index call, its removal a delete.
LEMMA WorkKeeps ==
  ASSUME BulkInv, NEW w \in Workers, WorkOn(w)
  PROVE  BulkInv'
<1>1. /\ w \in Tasks /\ Workers \subseteq Tasks /\ TypeOK /\ Typed
      /\ bulk[w] \in Run /\ Sound(w)
  BY Given
<1>2. Step(w) /\ bulk' = bulk /\ late' = late /\ bulk[w].pc \in {"pages", "removal"}
      /\ ~CommitDelete(w) /\ ~WipeRows(w)
  <2>1. ~CommitDelete(w) /\ ~WipeRows(w)
    BY DEF WorkOn, CommitDelete, WipeRows, ListVectors, EraseBatch, EraseFails,
      CallOpenAI, OpenAIFails, Upsert, UpsertFails, CommitIndex
  <2> QED
    BY <2>1 DEF WorkOn, Step
<1>3. PICK M, B : M = Marked /\ B = InRemoval /\ Inv(M, B)
  BY DEF BulkInv, Stores
<1>4. /\ Active(w) /\ op[w] \in Op /\ Follows(op[w])
      /\ \A u \in Tasks \ {w} : op'[u] = op[u]
      /\ \A p \in Pages \ Scope(op[w]) : row'[p] = row[p] /\ vecs'[p] = vecs[p]
  <2>1. Active(w)
    BY <1>1, <1>2, <1>3, OutsideScope
  <2> QED
    BY <1>1, <1>2, <1>3, <2>1, OutsideScope, InFlight
<1>5. Typed' /\ Inv(M, B)'
  BY <1>1, <1>2, <1>3, StepIsTyped, StepKeeps
<1>6. \A v \in Workers \ {w} : Sound(v)'
  BY <1>1, <1>2, <1>3, OthersSpared
<1>7. GoesOn(w) \/ HasFailed(w) \/ CommitIndex(w)
  BY <1>1, <1>2, <1>4, StepEnds
<1>8. /\ op[w].kind # "wipe" /\ op[w].page \in Pages /\ Scope(op[w]) = {op[w].page}
      /\ bulk[w].pc = "pages" => op[w].kind = "index"
      /\ bulk[w].pc = "removal" => op[w].kind = "delete" /\ ~CommitIndex(w)
  BY <1>1, <1>2, <1>4 DEF Sound, Placed, Active, Waiting, Follows, Scope, CommitIndex
<1>9. ASSUME CommitIndex(w)
      PROVE  /\ op'[w].pc = "returned" /\ op'[w].kind = op[w].kind
             /\ op'[w].page = op[w].page /\ row'[op[w].page] = op[w].ver
             /\ op[w].ver \in Versions
  BY <1>1, <1>4, <1>8, <1>9 DEF CommitIndex, Return, Answered, TypeOK, Follows
<1>10. op'[w].pc # "idle" /\ op'[w].kind = op[w].kind /\ op'[w].page = op[w].page
       /\ (Active(w)' => GoesOn(w))
  BY <1>7, <1>9 DEF GoesOn, HasFailed, Active, Waiting
<1>11. Placed(w)'
  BY <1>1, <1>2, <1>4, <1>10 DEF Sound, Placed, GoesOn, Active, Waiting
<1>12. Noticed(w)'
  BY <1>1, <1>2, <1>4 DEF Sound, Noticed, Touches, Active, Scope
<1>13. Removed(w)'
  <2> SUFFICES ASSUME bulk[w].pc = "removal"
               PROVE  Removed(w)'
    BY <1>2 DEF Removed
  <2>1. Removed(w) /\ Unseen(w)' = Unseen(w) /\ Unseen(w) \subseteq Pages
        /\ op[w].pc # "returned"
    BY <1>1, <1>2, <1>4 DEF Sound, Unseen, Run, Active, Waiting
  <2>2. GoesOn(w) \/ HasFailed(w)
    BY <1>7, <1>8
  <2>3. row' = row /\ held'[w] \subseteq held[w]
        /\ (op'[w].pc # "returned" => held'[w] = held[w])
    <3>1. held' = held \/ held' = [held EXCEPT ![w] = {}]
      BY <1>2, <1>8 DEF WorkOn, ListVectors, EraseBatch, EraseFails, CallOpenAI, OpenAIFails,
        Upsert, UpsertFails, RetryFrom, Raise
    <3> QED
      BY <1>1, <2>2, <3>1 DEF GoesOn, HasFailed, TypeOK
  <2>4. ASSUME NEW p \in Unseen(w) \ bulk[w].left
        PROVE  Touches(w, p)' \/ op'[w].pc = "returned" \/ vecs'[p] = Blank
    <3>1. CASE p = op[w].page
      BY <1>8, <2>2, <3>1 DEF GoesOn, HasFailed, Touches, Scope
    <3>2. CASE p # op[w].page
      BY <1>4, <1>8, <2>1, <2>4, <3>2 DEF Removed, Touches
    <3> QED
      BY <3>1, <3>2
  <2> QED
    BY <1>2, <2>1, <2>3, <2>4 DEF Removed
<1>14. Solitary(w)'
  BY <1>1, <1>2, <1>4, <1>10 DEF Sound, Solitary, Single, Running, GoesOn, Active
<1>15. Mirrors(w)'
  <2> SUFFICES ASSUME Single(w)
               PROVE  Mirrors(w)'
    BY <1>2 DEF Mirrors, Single, Running
  <2>1. CASE bulk[w].pc = "removal"
    <3>1. row' = row
      BY <1>7, <1>8, <2>1 DEF GoesOn, HasFailed
    <3> QED
      BY <1>1, <1>2, <2>1, <3>1 DEF Sound, Mirrors, Indexed
  <2>2. CASE bulk[w].pc = "pages"
    <3> DEFINE list == bulk[w].list
    <3> SUFFICES ASSUME NEW q \in Listed(list) \ (bulk[w].failed \cup bulk[w].todo)
                 PROVE  \/ IndexedNow(q, list[q])
                        \/ op'[w].pc # "idle" /\ op'[w].page = q
                             /\ (op'[w].pc = "returned" => op'[w].result = "failed")
      BY <1>2, <2>2 DEF Mirrors, Indexed, IndexedNow
    <3>1. CASE q = op[w].page
      <4>1. CASE CommitIndex(w)
        <5>1. op[w].ver = list[q]
          BY <1>1, <1>4, <2>2, <3>1 DEF Sound, Placed, Active, Waiting
        <5> QED
          BY <1>9, <3>1, <4>1, <5>1, PageIndexAssumption DEF IndexedNow
      <4>2. CASE GoesOn(w) \/ HasFailed(w)
        BY <1>10, <3>1, <4>2 DEF GoesOn, HasFailed, Active, Waiting
      <4> QED
        BY <1>7, <4>1, <4>2
    <3>2. CASE q # op[w].page
      <4>1. Indexed(q, list[q]) /\ q \in Pages
        BY <1>1, <2>2, <3>2 DEF Sound, Mirrors, Listed
      <4> QED
        BY <1>4, <1>8, <3>2, <4>1 DEF Indexed, IndexedNow
    <3> QED
      BY <3>1, <3>2
  <2> QED
    BY <1>2, <2>1, <2>2
<1> QED
  BY <1>2, <1>3, <1>5, <1>6, <1>11, <1>12, <1>13, <1>14, <1>15, RunStays DEF Sound

\* A request that is answered, or begins and is answered at once, is no
\* concern of a run.
LEMMA Unbothered ==
  ASSUME BulkInv, bulk' = bulk, late' = late, UNCHANGED <<row, vecs>>,
         NEW t \in Tasks, ~Active(t)',
         \A u \in Tasks \ {t} : op'[u] = op[u] /\ held'[u] = held[u],
         NEW v \in Workers, v # t
  PROVE  Sound(v)'
<1>1. /\ v \in Tasks /\ SameRun(v) /\ SameCall(v) /\ Sound(v) /\ bulk[v] \in Run
      /\ Workers \subseteq Tasks
  BY Given, FlaggedCall DEF Flagged, SameRun
<1>2. \A u \in Tasks, p \in Pages : Touches(u, p)' => Touches(u, p)
  BY DEF Touches, Active, Scope
<1>3. \A u \in Tasks : ~Active(u) => ~Active(u)'
  BY DEF Active
<1>4. Single(v)' => Single(v)
  BY DEF Single, Running
<1>5. Solitary(v)'
  BY <1>1, <1>3, <1>4 DEF Sound, Solitary, Running, Active
<1>6. Mirrors(v)'
  BY <1>1, <1>4 DEF Sound, Mirrors, Indexed
<1>7. bulk[v].found \subseteq Pages
  BY <1>1 DEF Run
<1> QED
  BY <1>1, <1>2, <1>5, <1>6, <1>7, Spared

\* A web request goes on, crashes or is answered; the runs noticed its start.
LEMMA WebKeeps ==
  ASSUME BulkInv, NEW t \in Tasks, WebGoesOn(t)
  PROVE  BulkInv'
<1>1. /\ Workers \subseteq Tasks /\ TypeOK /\ Typed
      /\ \A v \in Workers : bulk[v] \in Run /\ Sound(v)
  BY Given
<1>2. bulk' = bulk /\ late' = late /\ ~Running(t) /\ (Step(t) \/ Crash(t) \/ Respond(t))
  BY DEF WebGoesOn
<1>3. PICK M, B : M = Marked /\ B = InRemoval /\ Inv(M, B)
  BY DEF BulkInv, Stores
<1>4. t \notin B
  BY <1>2, <1>3 DEF InRemoval, Running
<1>5. ASSUME t \in Workers
      PROVE  Sound(t)'
  <2>1. bulk[t].pc = "off" /\ Sound(t)
    BY <1>1, <1>2, <1>5 DEF Running
  <2> QED
    BY <1>2, <2>1
    DEF Sound, Placed, Noticed, Removed, Solitary, Mirrors, Single, Running
<1>6. CASE Step(t) \/ Crash(t)
  <2>1. \A v \in Workers : Sound(v)'
    BY <1>2, <1>3, <1>4, <1>5, <1>6, OthersSpared
  <2>2. Inv(M, B)'
    <3>1. CASE Step(t)
      BY <1>1, <1>3, <1>4, <3>1, StepIsTyped, StepKeeps
    <3>2. CASE Crash(t)
      <4>1. Typed'
        <5>1. op[t] \in Op /\ Follows(op[t])
          BY <1>1, <3>2, InFlight DEF Crash
        <5>2. damaged' \subseteq Pages
          BY <1>1, <3>2, <5>1, ScopeType DEF Crash, TypeOK
        <5> QED
          BY <1>1, <3>2, <5>2, AnswerTyped DEF Crash, TypeOK
      <4> QED
        BY <1>3, <3>2, <4>1, CrashKeeps
    <3> QED
      BY <1>6, <3>1, <3>2
  <2> QED
    BY <1>2, <1>3, <2>1, <2>2, RunStays
<1>7. CASE Respond(t)
  <2>1. UNCHANGED <<row, vecs, held, damaged>> /\ op' = [op EXCEPT ![t] = Idle]
        /\ op[t].pc = "returned"
    BY <1>7 DEF Respond
  <2>2. op'[t] = Idle /\ ~Active(t) /\ ~Active(t)' /\ \A u \in Tasks \ {t} : op'[u] = op[u]
    BY <1>1, <2>1 DEF TypeOK, Active, Idle, Waiting
  <2>3. Inv(M, B)'
    <3>1. Typed'
      BY <1>1, <2>1, AnswerTyped DEF TypeOK
    <3> QED
      BY <1>3, <2>1, <2>2, <3>1, IdleKeeps
  <2>4. ASSUME NEW v \in Workers, v # t
        PROVE  Sound(v)'
    BY <1>1, <1>2, <2>1, <2>2, <2>4, Unbothered
  <2> QED
    BY <1>2, <1>3, <1>5, <2>3, <2>4, RunStays
<1> QED
  BY <1>2, <1>6, <1>7

\* A handler that begins enters a call or answers at once.
LEMMA StartFlags ==
  ASSUME TypeOK, NEW t \in Tasks, Start(t)
  PROVE  /\ op[t] = Idle /\ UNCHANGED <<row, vecs>>
         /\ \A u \in Tasks \ {t} : Flagged(u) /\ held'[u] = held[u]
         /\ Active(t)' \/ \A u \in Tasks \ {t} : op'[u] = op[u]
<1>1. op[t] = Idle /\ UNCHANGED <<row, vecs>>
  BY DEF Start, SkipUnchanged, StartIndex, DeleteNotFound, StartDelete, StartWipe
<1>2. \A u \in Tasks \ {t} : held'[u] = held[u]
  <2>1. held' = held \/ \E x : held' = [held EXCEPT ![t] = x]
    BY DEF Start, SkipUnchanged, StartIndex, DeleteNotFound, StartDelete, StartWipe
  <2> QED
    BY <2>1 DEF TypeOK
<1>3. ASSUME NEW k, NEW p, NEW v, NEW pc \in Waiting, NEW e, Enter(t, Call(k, p, v, pc, e))
      PROVE  Active(t)' /\ \A u \in Tasks \ {t} : Flagged(u)
  <2>1. op'[t] = [Call(k, p, v, pc, e) EXCEPT !.alone = (Rivals(t, Call(k, p, v, pc, e)) = {})]
    BY <1>3 DEF Enter, TypeOK
  <2>2. op'[t].pc = pc
    BY <2>1 DEF Call
  <2> QED
    BY <1>3, <2>2, EnterFlags DEF Active
<1>4. ASSUME NEW x, op' = [op EXCEPT ![t] = x], NEW u \in Tasks \ {t}
      PROVE  op'[u] = op[u] /\ Flagged(u)
  BY <1>4 DEF TypeOK, Flagged
<1>5. {"list", "embed", "namespace"} \subseteq Waiting
  BY DEF Waiting
<1>6. CASE \E p \in Pages, v \in Versions : StartIndex(t, p, v)
  <2>1. PICK p \in Pages, v \in Versions :
          Enter(t, Call("index", p, v, IF row[p] = None THEN "embed" ELSE "list",
                        row[p] # None))
    BY <1>6 DEF StartIndex
  <2> QED
    BY <1>1, <1>2, <1>3, <1>5, <2>1
<1>7. CASE (\E p \in Pages : StartDelete(t, p)) \/ StartWipe(t)
  BY <1>1, <1>2, <1>3, <1>5, <1>7 DEF StartDelete, StartWipe
<1>8. CASE \/ \E p \in Pages, v \in Versions : SkipUnchanged(t, p, v)
           \/ \E p \in Pages : DeleteNotFound(t, p)
  <2>1. \E x : op' = [op EXCEPT ![t] = x]
    BY <1>8 DEF SkipUnchanged, DeleteNotFound
  <2> QED
    BY <1>1, <1>2, <1>4, <2>1
<1> QED
  BY <1>6, <1>7, <1>8 DEF Start

\* A web request begins: the runs note the pages it is to work on.
LEMMA WebStartKeeps ==
  ASSUME BulkInv, NEW t \in Tasks, WebStarts(t)
  PROVE  BulkInv'
<1>1. /\ Workers \subseteq Tasks /\ TypeOK /\ Typed
      /\ \A v \in Workers : bulk[v] \in Run /\ Sound(v)
  BY Given
<1>2. ~Running(t) /\ Start(t) /\ late' = late /\ op[t] = Idle /\ UNCHANGED <<row, vecs>>
  BY DEF WebStarts, Start, SkipUnchanged, StartIndex, DeleteNotFound, StartDelete, StartWipe
<1>3. PICK M, B : M = Marked /\ B = InRemoval /\ Inv(M, B)
  BY DEF BulkInv, Stores
<1>4. Typed' /\ Inv(M, B)'
  BY <1>1, <1>2, <1>3, StartTyped, StartKeeps
<1>5. /\ \A u \in Tasks \ {t} : Flagged(u) /\ held'[u] = held[u]
      /\ Active(t)' \/ \A u \in Tasks \ {t} : op'[u] = op[u]
  BY <1>1, <1>2, StartFlags
<1>6. ASSUME t \in Workers, bulk'[t] = bulk[t]
      PROVE  Sound(t)'
  <2>1. bulk[t].pc = "off" /\ Sound(t)
    BY <1>1, <1>2, <1>6 DEF Running
  <2> QED
    BY <1>6, <2>1
    DEF Sound, Placed, Noticed, Removed, Solitary, Mirrors, Single, Running
<1>7. CASE op'[t].pc \in Waiting
  <2>1. PICK pages : pages = Scope(op'[t])
    OBVIOUS
  <2>2. bulk' = [v \in Workers |-> Noted(v, pages)]
    BY <1>7, <2>1 DEF WebStarts
  <2>3. ASSUME NEW v \in Workers
        PROVE  Sound(v)' /\ bulk'[v] \in Run /\ SameRun(v)
    <3>1. CASE v = t
      <4>1. bulk'[v] = bulk[v]
        BY <1>2, <2>2, <3>1 DEF Noted
      <4> QED
        BY <1>1, <1>6, <3>1, <4>1 DEF SameRun
    <3>2. CASE v # t
      <4>1. ASSUME NEW u \in Tasks \ {v}, NEW p \in Pages, Touches(u, p)'
            PROVE  Touches(u, p) \/ p \in pages
        <5>1. CASE u = t
          BY <2>1, <4>1, <5>1 DEF Touches
        <5>2. CASE u # t
          BY <1>1, <1>5, <4>1, <5>2, FlaggedCall DEF SameCall
        <5> QED
          BY <5>1, <5>2
      <4>2. v \in Tasks
        BY <1>1
      <4> QED
        BY <1>2, <1>5, <2>2, <3>2, <4>1, <4>2, Bystander
    <3> QED
      BY <3>1, <3>2
  <2>4. Marked' = Marked /\ InRemoval' = InRemoval
    BY <2>3 DEF SameRun, Marked, InRemoval, Removing
  <2>5. Stores'
    BY <1>3, <1>4, <2>4 DEF Stores
  <2>6. BulkTypeOK'
    BY <1>2, <1>4, <2>2, <2>3 DEF BulkInv, BulkTypeOK, Typed
  <2> QED
    BY <2>3, <2>5, <2>6 DEF BulkInv
<1>8. CASE op'[t].pc \notin Waiting
  <2>1. bulk' = bulk
    BY <1>8 DEF WebStarts
  <2>2. ~Active(t)' /\ \A u \in Tasks \ {t} : op'[u] = op[u]
    BY <1>5, <1>8 DEF Active
  <2>3. ASSUME NEW v \in Workers, v # t
        PROVE  Sound(v)'
    BY <1>1, <1>2, <1>5, <2>1, <2>2, <2>3, Unbothered
  <2> QED
    BY <1>2, <1>3, <1>4, <1>6, <2>1, <2>3, RunStays
<1> QED
  BY <1>7, <1>8

-----------------------------------------------------------------------------
(* Deletion detection.                                                     *)

\* The rows to remove are loaded, with whatever calls are at work on them.
LEMMA SelectKeeps ==
  ASSUME BulkInv, NEW w \in Workers, SelectRows(w)
  PROVE  BulkInv'
<1> DEFINE found == ToRemove(bulk[w])
           busy == {p \in found : ~Quiet(p)}
           run == [bulk[w] EXCEPT !.pc = "removal", !.found = found, !.left = found,
                                  !.crossed = busy]
<1>1. /\ w \in Tasks /\ Workers \subseteq Tasks /\ TypeOK /\ Typed
      /\ bulk[w] \in Run /\ Sound(w)
  BY Given
<1>2. /\ Becomes(w, run, {}) /\ late' = late /\ bulk[w].pc = "pages" /\ op[w] = Idle
      /\ bulk[w].todo = {} /\ held' = [held EXCEPT ![w] = found]
      /\ UNCHANGED <<row, vecs, op, damaged>>
  BY DEF SelectRows
<1>3. /\ run \in Run /\ run.pc = "removal" /\ run.list = bulk[w].list
      /\ run.todo = {} /\ run.failed = bulk[w].failed /\ run.found = found
      /\ run.left = found /\ run.crossed = busy /\ run.alone = bulk[w].alone
  BY <1>1, <1>2 DEF Run, ToRemove
<1> HIDE DEF run
<1>4. found \subseteq Pages /\ \A p \in found : row[p] # None /\ p \notin Listed(bulk[w].list)
  BY DEF ToRemove, Listed
<1>5. ~Active(w) /\ ~Active(w)' /\ held'[w] = found
      /\ \A u \in Tasks : op'[u] = op[u] /\ (Active(u)' <=> Active(u))
                          /\ (u # w => held'[u] = held[u])
  BY <1>1, <1>2 DEF Active, Idle, Waiting, TypeOK
<1>6. PICK M, B : M = Marked /\ B = InRemoval /\ Inv(M, B)
  BY DEF BulkInv, Stores
<1>7. Inv(M, B)'
  <2>1. Typed'
    <3>1. op' = [op EXCEPT ![w] = Idle]
      BY <1>1, <1>2 DEF TypeOK
    <3> QED
      BY <1>1, <1>2, <1>4, <3>1, AnswerTyped DEF TypeOK
  <2> QED
    BY <1>1, <1>2, <1>5, <1>6, <2>1, IdleKeeps
<1>8. ASSUME bulk'[w] = run
      PROVE  Sound(w)'
  <2>1. Placed(w)'
    BY <1>2, <1>3, <1>5, <1>8 DEF Placed
  <2>2. Noticed(w)'
    BY <1>2, <1>3, <1>4, <1>5, <1>8 DEF Noticed, Touches, Quiet, Active, Scope
  <2>3. Removed(w)'
    BY <1>2, <1>3, <1>4, <1>5, <1>8 DEF Removed, Unseen
  <2>4. Single(w)' => Single(w)
    BY <1>2, <1>3, <1>8 DEF Single, Running
  <2>5. \A x \in Workers \ {w} : ~Running(x) => ~Running(x)'
    BY <1>2 DEF Becomes, Noted, Running
  <2>6. Single(w) => busy = {}
    BY <1>1, <1>5 DEF Sound, Solitary, Quiet
  <2>7. Solitary(w)'
    BY <1>1, <1>2, <1>3, <1>5, <1>8, <2>4, <2>5, <2>6 DEF Sound, Solitary
  <2>8. Mirrors(w)'
    <3> SUFFICES ASSUME Single(w)
                 PROVE  Mirrors(w)'
      BY <2>4 DEF Mirrors
    <3>1. \A p \in Listed(run.list) \ run.failed : Indexed(p, run.list[p])
      BY <1>1, <1>2, <1>3 DEF Sound, Mirrors, Idle
    <3>2. \A p \in Pages \ Listed(run.list) : row[p] = None \/ p \in found
      BY <1>3 DEF ToRemove, Listed
    <3> HIDE DEF found
    <3> QED
      BY <1>2, <1>3, <1>4, <1>8, <3>1, <3>2 DEF Mirrors, Indexed
  <2> QED
    BY <2>1, <2>2, <2>3, <2>7, <2>8 DEF Sound
<1>9. \A q \in M : q \in Pages /\ \E x \in Workers \ {w} : q \in Removing(x)
  BY <1>2, <1>6, MarkedBy DEF Removing
<1>10. \A t \in B : t \in Workers /\ bulk[t].pc = "removal" /\ t # w
  BY <1>2, <1>6 DEF InRemoval
<1>11. late' \in SUBSET Threads
  BY <1>2 DEF BulkInv, BulkTypeOK, Threads
<1>12. \A p \in Pages : ~Touches(w, p)'
  BY <1>5 DEF Touches
<1>13. \A u \in Tasks \ {w} : Flagged(u) /\ held'[u] \subseteq held[u]
                              /\ held[u] \ {} \subseteq held'[u]
  BY <1>5 DEF Flagged
<1> HIDE DEF found
<1> QED
  BY <1>1, <1>2, <1>3, <1>7, <1>8, <1>9, <1>10, <1>11, <1>12, <1>13, RunMoves

\* The delete of a page's vectors begins: until the commit its row may stay
\* without them.
LEMMA RemoveKeeps ==
  ASSUME BulkInv, NEW w \in Workers, NEW p \in Pages, RemoveVectors(w, p)
  PROVE  BulkInv'
<1> DEFINE run == [bulk[w] EXCEPT !.left = @ \ {p}]
           o == Call("delete", p, None, "list", TRUE)
<1>1. /\ w \in Tasks /\ Workers \subseteq Tasks /\ TypeOK /\ Typed
      /\ bulk[w] \in Run /\ Sound(w)
  BY Given
<1>2. /\ Becomes(w, run, {p}) /\ late' = late /\ bulk[w].pc = "removal" /\ op[w] = Idle
      /\ p \in bulk[w].left /\ Enter(w, o) /\ UNCHANGED <<row, vecs, held>>
  BY DEF RemoveVectors
<1>3. /\ run \in Run /\ run.pc = "removal" /\ run.list = bulk[w].list
      /\ run.todo = bulk[w].todo /\ run.failed = bulk[w].failed
      /\ run.found = bulk[w].found /\ run.left = bulk[w].left \ {p}
      /\ run.crossed = bulk[w].crossed /\ run.alone = bulk[w].alone
  BY <1>1, <1>2 DEF Run
<1> HIDE DEF run
<1>4. /\ o \in Op /\ Scope(o) = {p} /\ o.kind = "delete" /\ ~o.wrote /\ o.pc = "list"
      /\ o.page = p
  BY PageIndexAssumption DEF Call, Op, Kinds, Waiting, Scope
<1> HIDE DEF o
<1>5. PICK M, B : M = Marked /\ B = InRemoval /\ Inv(M, B)
  BY DEF BulkInv, Stores
<1>6. Inv(M, B)'
  <2>1. Typed'
    BY <1>1, <1>2, <1>4, EnterTyped DEF TypeOK, Follows
  <2>2. w \in B /\ ~Active(w)
    BY <1>2, <1>5 DEF InRemoval, Active, Idle, Waiting
  <2> QED
    BY <1>1, <1>2, <1>4, <1>5, <2>1, <2>2, EnterKeeps
<1>7. /\ op'[w].kind = "delete" /\ op'[w].page = p /\ op'[w].pc = "list"
      /\ op'[w].alone <=> Rivals(w, o) = {}
  <2>1. op'[w] = [o EXCEPT !.alone = (Rivals(w, o) = {})]
    BY <1>1, <1>2 DEF Enter, TypeOK
  <2> QED
    BY <1>4, <2>1 DEF Op
<1>8. Active(w)' /\ \A q : Touches(w, q)' <=> q = p
  BY <1>7 DEF Touches, Active, Scope, Waiting
<1>9. \A u \in Tasks \ {w} : Flagged(u) /\ SameCall(u)
  BY <1>1, <1>2, EnterFlags, FlaggedCall
<1>10. \A u \in Tasks \ {w}, q \in Pages : Touches(u, q)' <=> Touches(u, q)
  BY <1>9 DEF SameCall
<1>11. bulk[w].left \subseteq bulk[w].found /\ bulk[w].found \subseteq Pages
  BY <1>1 DEF Sound, Placed, Run
<1>12. ASSUME bulk'[w] = run
       PROVE  Sound(w)'
  <2>1. Placed(w)'
    BY <1>1, <1>2, <1>3, <1>7, <1>11, <1>12 DEF Sound, Placed, Listed
  <2>2. Noticed(w)'
    BY <1>1, <1>3, <1>10, <1>11, <1>12 DEF Sound, Noticed
  <2>3. Removed(w)'
    <3>1. Removed(w) /\ \A q : ~Touches(w, q)
      BY <1>1, <1>2 DEF Sound, Touches, Active, Idle, Waiting
    <3>2. Unseen(w)' = Unseen(w)
      BY <1>3, <1>12 DEF Unseen
    <3>3. op[w].pc # "returned" /\ op'[w].pc # "returned"
      BY <1>2, <1>7 DEF Idle
    <3> QED
      BY <1>2, <1>3, <1>8, <1>12, <3>1, <3>2, <3>3 DEF Removed
  <2>4. Single(w)' => Single(w)
    BY <1>2, <1>3, <1>12 DEF Single, Running
  <2>5. \A x \in Workers \ {w} : ~Running(x) => ~Running(x)'
    BY <1>2 DEF Becomes, Noted, Running
  <2>6. \A u \in Tasks \ {w} : ~Active(u) => ~Active(u)'
    BY <1>9 DEF SameCall, Active
  <2>7. Single(w) => Rivals(w, o) = {}
    BY <1>1 DEF Sound, Solitary, Rivals
  <2>8. Solitary(w)'
    BY <1>1, <1>2, <1>3, <1>7, <1>12, <2>4, <2>5, <2>6, <2>7 DEF Sound, Solitary
  <2>9. Mirrors(w)'
    BY <1>1, <1>2, <1>3, <1>12, <2>4 DEF Sound, Mirrors, Indexed
  <2> QED
    BY <2>1, <2>2, <2>3, <2>8, <2>9 DEF Sound
<1>13. Removing(w) \subseteq bulk[w].found \ (bulk[w].left \ {p})
  BY <1>2 DEF Removing
<1>14. ASSUME bulk'[w] = run, NEW q \in M
       PROVE  q \in Pages /\ (q \in Removing(w)' \/ \E x \in Workers \ {w} : q \in Removing(x))
  BY <1>3, <1>5, <1>13, <1>14, MarkedBy DEF Removing
<1>15. bulk'[w] = run
  BY <1>2 DEF Becomes
<1>16. \A t \in B : t \in Workers /\ bulk[t].pc = "removal"
  BY <1>5 DEF InRemoval
<1>17. late' \in SUBSET Threads
  BY <1>2 DEF BulkInv, BulkTypeOK, Threads
<1> QED
  BY <1>1, <1>2, <1>3, <1>6, <1>8, <1>9, <1>12, <1>14, <1>15, <1>16, <1>17, RunMoves

\* The vectors of a page are gone; a run that was overlapped there knows.
LEMMA MarkKeeps ==
  ASSUME BulkInv, NEW w \in Workers, MarkRow(w)
  PROVE  BulkInv'
<1> DEFINE p == op[w].page
           run == IF op[w].alone THEN bulk[w]
                  ELSE [bulk[w] EXCEPT !.crossed = @ \cup {p}]
<1>1. /\ w \in Tasks /\ Workers \subseteq Tasks /\ TypeOK /\ Typed
      /\ bulk[w] \in Run /\ Sound(w)
  BY Given
<1>2. /\ Becomes(w, run, {}) /\ late' = late /\ bulk[w].pc = "removal"
      /\ op[w].pc = "commit" /\ op' = [op EXCEPT ![w] = Idle]
      /\ UNCHANGED <<row, vecs, held, damaged>>
  BY DEF MarkRow
<1>3. /\ Active(w) /\ op[w].kind = "delete" /\ p \in bulk[w].found \ bulk[w].left
      /\ op[w] \in Op /\ Scope(op[w]) = {p} /\ p \in Pages
  BY <1>1, <1>2, InFlight DEF Sound, Placed, Active, Waiting, Scope, Run
<1>4. /\ run \in Run /\ run.pc = "removal" /\ run.list = bulk[w].list
      /\ run.todo = bulk[w].todo /\ run.failed = bulk[w].failed
      /\ run.found = bulk[w].found /\ run.left = bulk[w].left
      /\ run.crossed = IF op[w].alone THEN bulk[w].crossed ELSE bulk[w].crossed \cup {p}
      /\ run.alone = bulk[w].alone
  BY <1>1, <1>2, <1>3 DEF Run
<1> HIDE DEF run
<1>5. op'[w] = Idle /\ ~Active(w)' /\ \A u \in Tasks \ {w} : op'[u] = op[u]
  BY <1>1, <1>2 DEF TypeOK, Active, Idle, Waiting
<1>6. PICK M, B : M = Marked /\ B = InRemoval /\ Inv(M, B)
  BY DEF BulkInv, Stores
<1>7. Sole(w, p) => vecs[p] = Blank
  BY <1>1, <1>2, <1>3, <1>6, SoleProgress DEF Progress, Emptied
<1>8. Inv(M, B)'
  <2>1. Typed'
    BY <1>1, <1>2, AnswerTyped DEF TypeOK
  <2>2. p \in M
    BY <1>2, <1>3, <1>6 DEF Marked, Removing
  <2>3. ASSUME NEW q \in Pages, Sole(w, q)
        PROVE  Even(q, M)'
    <3>1. q = p
      BY <1>3, <2>3 DEF Sole, Touches
    <3> QED
      BY <1>2, <1>7, <2>2, <2>3, <3>1 DEF Even
  <2> QED
    BY <1>1, <1>2, <1>3, <1>5, <1>6, <2>1, <2>3, Local
<1>9. ASSUME bulk'[w] = run
      PROVE  Sound(w)'
  <2>1. Placed(w)'
    BY <1>1, <1>2, <1>4, <1>5, <1>9 DEF Sound, Placed, Idle
  <2>2. Noticed(w)'
    <3>1. Noticed(w)
      BY <1>1 DEF Sound
    <3>2. \A t \in Tasks \ {w}, q \in bulk[w].found : Touches(t, q)' => Touches(t, q)
      BY <1>5 DEF Touches, Active, Scope
    <3> QED
      BY <1>4, <1>9, <3>1, <3>2 DEF Noticed
  <2>3. Removed(w)'
    <3>1. Removed(w) /\ Unseen(w)' \subseteq Unseen(w) /\ op[w].pc # "returned"
          /\ Unseen(w) \subseteq Pages
      BY <1>1, <1>2, <1>4, <1>9 DEF Sound, Unseen, Run
    <3>2. ASSUME NEW q \in Unseen(w)' \ bulk[w].left
          PROVE  vecs[q] = Blank
      <4>1. CASE Touches(w, q)
        <5>1. q = p /\ op[w].alone
          BY <1>3, <1>4, <1>9, <3>2, <4>1 DEF Touches, Unseen
        <5> QED
          BY <1>7, <4>1, <5>1 DEF Sole
      <4>2. CASE ~Touches(w, q)
        BY <1>2, <3>1, <3>2, <4>2 DEF Removed
      <4> QED
        BY <4>1, <4>2
    <3> QED
      BY <1>2, <1>4, <1>9, <3>1, <3>2 DEF Removed
  <2>4. Single(w)' => Single(w)
    BY <1>2, <1>4, <1>9 DEF Single, Running
  <2>5. \A x \in Workers \ {w} : ~Running(x) => ~Running(x)'
    BY <1>2 DEF Becomes, Noted, Running
  <2>6. Solitary(w)'
    BY <1>1, <1>2, <1>3, <1>4, <1>5, <1>9, <2>4, <2>5 DEF Sound, Solitary, Active
  <2>7. Mirrors(w)'
    BY <1>1, <1>2, <1>4, <1>9, <2>4 DEF Sound, Mirrors, Indexed
  <2> QED
    BY <2>1, <2>2, <2>3, <2>6, <2>7 DEF Sound
<1>10. bulk'[w] = run
  BY <1>2 DEF Becomes
<1>11. \A q \in M :
         q \in Pages /\ (q \in Removing(w)' \/ \E x \in Workers \ {w} : q \in Removing(x))
  BY <1>2, <1>4, <1>6, <1>10, MarkedBy DEF Removing
<1>12. \A t \in B : t \in Workers /\ bulk[t].pc = "removal"
  BY <1>6 DEF InRemoval
<1>13. late' \in SUBSET Threads
  BY <1>2 DEF BulkInv, BulkTypeOK, Threads
<1>14. \A q \in Pages : ~Touches(w, q)'
  BY <1>5 DEF Touches
<1>15. \A u \in Tasks \ {w} : Flagged(u)
  BY <1>5 DEF Flagged
<1> HIDE DEF p
<1> QED
  BY <1>1, <1>2, <1>4, <1>8, <1>9, <1>11, <1>12, <1>13, <1>14, <1>15, RunMoves

\* When the rows go their vectors have gone before, but for pages that others
\* have worked on since they were found: these are damaged.
LEMMA CommitKeepsStores ==
  ASSUME BulkInv, NEW w \in Workers, CommitRemoval(w),
         NEW M, NEW B, M = Marked, B = InRemoval, Inv(M, B),
         NEW N, N = {p \in Pages : \E v \in Workers \ {w} : p \in Removing(v)}
  PROVE  Inv(N, B)'
<1> DEFINE found == bulk[w].found
           crossed == bulk[w].crossed
<1>1. /\ w \in Tasks /\ TypeOK /\ Typed /\ bulk[w] \in Run
      /\ Placed(w) /\ Noticed(w) /\ Removed(w)
  BY Given DEF Sound
<1>2. /\ bulk[w].pc = "removal" /\ bulk[w].left = {} /\ op[w] = Idle
      /\ row' = [p \in Pages |-> IF p \in held[w] THEN None ELSE row[p]]
      /\ damaged' = (damaged \ held[w]) \cup crossed
      /\ held' = [u \in Tasks |-> held[u] \ held[w]]
      /\ vecs' = vecs /\ op' = op
  BY DEF CommitRemoval, AllMarked
<1>3. /\ found \subseteq Pages /\ crossed \subseteq Pages /\ held[w] \subseteq found
      /\ found \ crossed \subseteq held[w]
      /\ \A p \in found \ crossed : vecs[p] = Blank
  <2>1. ~Active(w) /\ op[w].pc # "returned"
    BY <1>2 DEF Active, Idle, Waiting
  <2> QED
    BY <1>1, <1>2, <2>1 DEF Removed, Unseen, Run, Touches
<1>4. \A u \in Tasks : (Active(u)' <=> Active(u)) /\ \A p : Touches(u, p)' <=> Touches(u, p)
  BY <1>2 DEF Active, Touches, Scope
<1>5. ASSUME NEW u \in Tasks, NEW p \in found, Touches(u, p)
      PROVE  p \in damaged'
  <2>1. u # w
    BY <1>2, <1>5 DEF Touches, Active, Idle, Waiting
  <2> QED
    BY <1>1, <1>2, <1>5, <2>1 DEF Noticed
<1>6. ASSUME NEW p \in Pages \ found
      PROVE  /\ row'[p] = row[p] /\ (p \in damaged => p \in damaged')
             /\ p \in M => p \in N
             /\ \A u \in Tasks : p \in held[u] => p \in held'[u]
  <2>1. p \notin Removing(w)
    BY <1>6 DEF Removing
  <2>2. p \in M => p \in N
    BY <1>6, <2>1, MarkedBy
  <2> QED
    BY <1>1, <1>2, <1>3, <1>6, <2>2 DEF TypeOK
<1>7. ASSUME NEW p \in found, p \notin damaged'
      PROVE  row'[p] = None /\ vecs'[p] = Blank
  BY <1>2, <1>3, <1>7
<1>8. Typed'
  <2>1. TypeOK'
    <3>1. row' \in [Pages -> Versions \cup {None}]
      BY <1>1, <1>2 DEF TypeOK
    <3>2. held' \in [Tasks -> SUBSET Pages]
      BY <1>1, <1>2 DEF TypeOK
    <3> QED
      BY <1>1, <1>2, <1>3, <3>1, <3>2 DEF TypeOK
  <2> QED
    BY <1>1, <1>2, <2>1 DEF Typed, Shape, Active
<1> HIDE DEF found, crossed
<1>9. ASSUME NEW u \in Tasks, NEW p \in Pages, Sole(u, p)'
      PROVE  Sole(u, p) /\ (p \in found => op[u].alone /\ p \in damaged')
  <2>1. Touches(u, p)
    BY <1>4, <1>9 DEF Sole
  <2>2. CASE p \in found
    BY <1>2, <1>5, <1>9, <2>1, <2>2 DEF Sole
  <2>3. CASE p \notin found
    BY <1>2, <1>6, <1>9, <2>1, <2>3 DEF Sole
  <2> QED
    BY <2>2, <2>3
<1>10. Alone'
  BY <1>4, <1>9 DEF Inv, Alone
<1>11. ASSUME NEW u \in Tasks, NEW p \in Pages, Sole(u, p)'
       PROVE  Progress(u, p, N, B)'
  <2>1. Progress(u, p, M, B) /\ (p \in found => p \in damaged')
    BY <1>9, <1>11, SoleProgress
  <2>2. CASE p \in found
    <3>1. p \in held[w] => row'[p] = None
      BY <1>2, <1>11
    <3>2. p \notin held[w] => row'[p] = row[p] /\ (p \in held[u] => p \in held'[u])
      BY <1>1, <1>2, <1>11 DEF TypeOK
    <3> QED
      BY <1>2, <2>1, <2>2, <3>1, <3>2
      DEF Progress, Untouched, ListsAll, Built, Emptied, Occupied, Cleared
  <2>3. CASE p \notin found
    BY <1>2, <1>6, <1>11, <2>1, <2>3
    DEF Progress, Untouched, ListsAll, Built, Emptied, Exact, Even, Occupied, Cleared
  <2> QED
    BY <2>2, <2>3
<1>12. QuietEven(N)'
  <2> SUFFICES ASSUME NEW p \in Pages \ damaged', Quiet(p)'
               PROVE  Even(p, N)'
    BY DEF QuietEven
  <2>1. CASE p \in found
    BY <1>7, <2>1 DEF Even, Exact, Blank
  <2>2. CASE p \notin found
    <3>1. Quiet(p) /\ p \notin damaged
      BY <1>2, <1>6, <2>2 DEF Quiet, Active, Scope
    <3> QED
      BY <1>2, <1>6, <2>2, <3>1 DEF Inv, QuietEven, Even, Exact
  <2> QED
    BY <2>1, <2>2
<1>13. \A u \in Tasks : Holds(u, B)'
  BY <1>2, <1>4 DEF Inv, Holds
<1> QED
  BY <1>8, <1>10, <1>11, <1>12, <1>13 DEF Inv, InProgress

\* The removal is complete: what the run has to itself is gone from both stores.
LEMMA CommitKeeps ==
  ASSUME BulkInv, NEW w \in Workers, CommitRemoval(w)
  PROVE  BulkInv'
<1> DEFINE run == [bulk[w] EXCEPT !.pc = "complete"]
<1>1. /\ w \in Tasks /\ Workers \subseteq Tasks /\ TypeOK /\ Typed
      /\ bulk[w] \in Run /\ Sound(w)
  BY Given
<1>2. /\ Becomes(w, run, held[w]) /\ late' = late /\ bulk[w].pc = "removal"
      /\ bulk[w].left = {} /\ op[w] = Idle
      /\ row' = [p \in Pages |-> IF p \in held[w] THEN None ELSE row[p]]
      /\ held' = [u \in Tasks |-> held[u] \ held[w]]
      /\ vecs' = vecs /\ op' = op
  BY DEF CommitRemoval, AllMarked
<1>3. /\ run \in Run /\ run.pc = "complete" /\ run.list = bulk[w].list
      /\ run.todo = bulk[w].todo /\ run.failed = bulk[w].failed
      /\ run.found = bulk[w].found /\ run.left = {}
      /\ run.crossed = bulk[w].crossed /\ run.alone = bulk[w].alone
  BY <1>1, <1>2 DEF Run
<1> HIDE DEF run
<1>4. PICK M, B : M = Marked /\ B = InRemoval /\ Inv(M, B)
  BY DEF BulkInv, Stores
<1>5. PICK N : N = {p \in Pages : \E v \in Workers \ {w} : p \in Removing(v)}
  OBVIOUS
<1>6. Inv(N, B)'
  BY <1>4, <1>5, CommitKeepsStores
<1>7. /\ held[w] \subseteq bulk[w].found /\ Unseen(w) \subseteq held[w]
      /\ \A p \in Unseen(w) : vecs[p] = Blank
      /\ bulk[w].found \subseteq Pages
  BY <1>1, <1>2 DEF Sound, Removed, Unseen, Run, Touches, Active, Idle, Waiting
<1>8. ASSUME bulk'[w] = run
      PROVE  Sound(w)'
  <2>1. Placed(w)'
    BY <1>1, <1>2, <1>3, <1>8 DEF Sound, Placed
  <2>2. Noticed(w)'
    BY <1>1, <1>2, <1>3, <1>8 DEF Sound, Noticed, Touches, Active, Scope
  <2>3. Removed(w)'
    <3>1. Unseen(w)' = Unseen(w)
      BY <1>3, <1>8 DEF Unseen
    <3> QED
      BY <1>2, <1>3, <1>7, <1>8, <3>1 DEF Removed
  <2>4. Single(w)' => Single(w)
    BY <1>2, <1>3, <1>8 DEF Single, Running
  <2>5. \A x \in Workers \ {w} : ~Running(x) => ~Running(x)'
    BY <1>2 DEF Becomes, Noted, Running
  <2>6. Solitary(w)'
    BY <1>1, <1>2, <1>3, <1>8, <2>4, <2>5 DEF Sound, Solitary, Active
  <2>7. Mirrors(w)'
    <3> SUFFICES ASSUME Single(w)
                 PROVE  Mirrors(w)'
      BY <2>4 DEF Mirrors
    <3>1. bulk[w].crossed = {} /\ bulk[w].found = held[w]
      BY <1>1, <1>7 DEF Sound, Solitary, Unseen
    <3>2. /\ \A p \in Listed(run.list) \ run.failed :
               Indexed(p, run.list[p]) /\ p \notin held[w]
          /\ \A p \in Pages \ Listed(run.list) : row[p] = None \/ p \in held[w]
      BY <1>1, <1>2, <1>3, <3>1 DEF Sound, Mirrors
    <3>3. \A p \in Listed(run.list) \ run.failed : IndexedNow(p, run.list[p])
      BY <1>2, <3>2 DEF Indexed, IndexedNow, Listed
    <3>4. \A p \in Pages \ Listed(run.list) : row'[p] = None
      BY <1>2, <3>2
    <3> QED
      BY <1>3, <1>8, <3>3, <3>4 DEF Mirrors, Indexed, IndexedNow
  <2> QED
    BY <2>1, <2>2, <2>3, <2>6, <2>7 DEF Sound
<1>9. \A u \in Tasks \ {w} : Flagged(u) /\ held'[u] \subseteq held[u]
                             /\ held[u] \ held[w] \subseteq held'[u]
  BY <1>1, <1>2 DEF Flagged, TypeOK
<1>10. \A p \in Pages \ held[w] : row'[p] = row[p] /\ vecs'[p] = vecs[p]
  BY <1>2
<1>11. \A p \in Pages : Touches(w, p)' => Touches(w, p)
  BY <1>2 DEF Touches, Active, Scope
<1>12. \A t \in B : Active(t)' => t \in Workers /\ bulk[t].pc = "removal" /\ t # w
  BY <1>2, <1>4 DEF InRemoval, Active, Idle, Waiting
<1>13. late' \in SUBSET Threads
  BY <1>2 DEF BulkInv, BulkTypeOK, Threads
<1>14. N \subseteq Pages /\ \A p \in N : \E v \in Workers \ {w} : p \in Removing(v)
  BY <1>5
<1>15. PICK pages : pages = held[w]
  OBVIOUS
<1> QED
  BY <1>1, <1>2, <1>3, <1>6, <1>8, <1>9, <1>10, <1>11, <1>12, <1>13, <1>14, <1>15, RunMoves

-----------------------------------------------------------------------------
(* How a run ends.                                                         *)

\* A run that is over promises nothing.
LEMMA OffIsSound ==
  ASSUME NEW w \in Workers, bulk'[w] = Off
  PROVE  Sound(w)'
BY DEF Off, Sound, Placed, Noticed, Removed, Solitary, Mirrors, Single, Running

\* A run that is complete ends; its ghosts were the last of it.
LEMMA CompleteKeeps ==
  ASSUME BulkInv, NEW w \in Workers, Complete(w)
  PROVE  BulkInv'
<1>1. /\ w \in Tasks /\ Workers \subseteq Tasks /\ TypeOK /\ Sound(w)
  BY Given
<1>2. Becomes(w, Off, {}) /\ UNCHANGED vars /\ late' = late /\ bulk[w].pc = "complete"
  BY DEF Complete
<1>3. PICK M, B : M = Marked /\ B = InRemoval /\ Inv(M, B)
  BY DEF BulkInv, Stores
<1>4. Inv(M, B)'
  BY <1>2, <1>3, InvStutters
<1>5. Off \in Run /\ Off.pc = "off" /\ Off.found = {} /\ Off.left = {} /\ Off.todo = {}
  BY DEF Off, Run
<1>6. bulk'[w] = Off => Sound(w)'
  BY <1>5, OffIsSound
<1>7. \A q \in M : q \in Pages /\ \E x \in Workers \ {w} : q \in Removing(x)
  BY <1>2, <1>3, MarkedBy DEF Removing
<1>8. \A t \in B : t \in Workers /\ bulk[t].pc = "removal" /\ t # w
  BY <1>2, <1>3 DEF InRemoval
<1>9. late' \in SUBSET Threads
  BY <1>2 DEF BulkInv, BulkTypeOK, Threads
<1>10. \A p \in Pages : Touches(w, p)' => Touches(w, p)
  BY <1>2 DEF vars, Touches, Active, Scope
<1> QED
  BY <1>1, <1>2, <1>4, <1>5, <1>6, <1>7, <1>8, <1>9, <1>10, RunMoves DEF vars, Flagged

\* A run cut short damages the pages it has half removed, and the one its
\* call has changed.
LEMMA AbandonKeeps ==
  ASSUME BulkInv, NEW w \in Workers, Running(w), NEW uneven \in SUBSET Pages,
         Abandon(w, uneven), Active(w) /\ op[w].wrote => op[w].page \in uneven,
         late' \in SUBSET Threads
  PROVE  BulkInv'
<1>1. /\ w \in Tasks /\ Workers \subseteq Tasks /\ TypeOK /\ Typed
      /\ bulk[w] \in Run /\ Sound(w)
  BY Given
<1>2. /\ Becomes(w, Off, {}) /\ op' = [op EXCEPT ![w] = Idle]
      /\ held' = [held EXCEPT ![w] = {}] /\ UNCHANGED <<row, vecs>>
      /\ damaged' = damaged \cup Removing(w) \cup uneven
  BY DEF Abandon
<1>3. /\ ~Active(w)' /\ \A u \in Tasks \ {w} : op'[u] = op[u] /\ held'[u] = held[u]
  BY <1>1, <1>2 DEF TypeOK, Active, Idle, Waiting
<1>4. PICK M, B : M = Marked /\ B = InRemoval /\ Inv(M, B)
  BY DEF BulkInv, Stores
<1>5. PICK N : N = {p \in Pages : \E v \in Workers \ {w} : p \in Removing(v)}
  OBVIOUS
<1>6. \A p \in Pages \ damaged' : p \in M => p \in N
  BY <1>2, <1>4, <1>5, MarkedBy
<1>7. Typed'
  <2>1. Removing(w) \subseteq Pages
    BY <1>1 DEF Removing, Run
  <2> QED
    BY <1>1, <1>2, <2>1, AnswerTyped DEF TypeOK
<1>8. Inv(N, B)'
  <2>1. CASE ~Active(w)
    BY <1>1, <1>2, <1>3, <1>4, <1>6, <1>7, <2>1, IdleKeeps
  <2>2. CASE Active(w)
    <3>1. op[w] \in Op /\ op[w].kind \in {"index", "delete"} /\ Scope(op[w]) = {op[w].page}
      <4>1. op[w] # Idle /\ op[w].pc # "idle"
        BY <2>2 DEF Active, Waiting, Idle
      <4>2. bulk[w].pc \in {"pages", "removal"}
        BY <1>1, <2>2, <4>1 DEF Running, Run, Sound, Placed
      <4> QED
        BY <1>1, <2>2, <4>1, <4>2, InFlight DEF Sound, Placed, Scope
    <3>2. ASSUME NEW p \in Pages, Sole(w, p), p \notin damaged'
          PROVE  Even(p, N)'
      <4>1. p = op[w].page /\ p \notin damaged /\ ~op[w].wrote
        BY <1>2, <2>2, <3>1, <3>2 DEF Sole, Touches
      <4>2. Even(p, M)
        BY <1>1, <1>4, <3>2, <4>1, SoleProgress DEF Progress, Untouched
      <4> QED
        BY <1>2, <1>6, <3>2, <4>2 DEF Even, Exact
    <3> QED
      BY <1>1, <1>2, <1>3, <1>4, <1>6, <1>7, <2>2, <3>2, Local
  <2> QED
    BY <2>1, <2>2
<1>9. Off \in Run
  BY DEF Off, Run
<1>10. bulk'[w] = Off => Sound(w)'
  BY OffIsSound
<1>11. \A t \in B : Active(t)' => t \in Workers /\ bulk[t].pc = "removal" /\ t # w
  BY <1>3, <1>4 DEF InRemoval
<1>12. \A p \in Pages : ~Touches(w, p)'
  BY <1>3 DEF Touches
<1>13. \A u \in Tasks \ {w} : Flagged(u)
  BY <1>3 DEF Flagged
<1>14. N \subseteq Pages /\ \A p \in N : \E v \in Workers \ {w} : p \in Removing(v)
  BY <1>5
<1> QED
  BY <1>1, <1>2, <1>3, <1>8, <1>9, <1>10, <1>11, <1>12, <1>13, <1>14, RunMoves

\* A run fails, dies with its process, or is cancelled.
LEMMA EndKeeps ==
  ASSUME BulkInv, NEW w \in Workers, RunFails(w) \/ WorkerDies(w) \/ Cancel(w)
  PROVE  BulkInv'
<1>1. /\ w \in Tasks /\ Workers \subseteq Tasks /\ TypeOK /\ Typed /\ Sound(w)
      /\ late \in SUBSET Threads
  BY Given DEF BulkInv, BulkTypeOK, Threads
<1>2. ASSUME RunFails(w)
      PROVE  Running(w) /\ ~Active(w) /\ Abandon(w, {}) /\ late' = late
  BY <1>1, <1>2 DEF RunFails, Running, Sound, Placed, Active, Idle, Waiting
<1>3. ASSUME Running(w), Active(w)
      PROVE  op[w] \in Op /\ op[w].page \in Pages
  <2>1. op[w].kind \in {"index", "delete"}
    <3>1. bulk[w].pc \in {"pages", "broken", "removal", "complete"} /\ op[w].pc # "idle"
      BY <1>3, Given DEF Running, Run, Active, Waiting
    <3> QED
      BY <1>1, <1>3, <3>1 DEF Sound, Placed, Idle
  <2> QED
    BY <1>1, <1>3, <2>1, InFlight DEF Follows
<1>4. ASSUME Running(w)
      PROVE  Written(w) \in SUBSET Pages /\ LeftBehind(w) \in SUBSET Threads
  <2>1. Written(w) \in SUBSET Pages
    BY <1>3, <1>4 DEF Written
  <2>2. ASSUME op[w].pc \in InThread
        PROVE  Thread(op[w]) \in Threads
    <3>1. Active(w)
      BY <2>2 DEF InThread, Active, Waiting
    <3> QED
      BY <1>3, <1>4, <2>2, <3>1 DEF Thread, Threads, Op
  <2> QED
    BY <2>1, <2>2 DEF LeftBehind
<1>5. Active(w) /\ op[w].wrote => op[w].page \in Written(w)
  BY DEF Written
<1>6. CASE RunFails(w)
  BY <1>1, <1>2, <1>6, AbandonKeeps
<1>7. CASE WorkerDies(w)
  BY <1>1, <1>4, <1>5, <1>7, AbandonKeeps DEF WorkerDies
<1>8. CASE Cancel(w)
  BY <1>1, <1>4, <1>5, <1>8, AbandonKeeps DEF Cancel
<1> QED
  BY <1>6, <1>7, <1>8

\* A thread that comes late changes one page under everybody's feet.
LEMMA ThreadChanges ==
  ASSUME TypeOK, NEW l \in Threads, ThreadGoesOn(l), late \in SUBSET Threads
  PROVE  /\ vecs' \in [Pages -> [Slots -> Versions \cup {None}]]
         /\ \A q \in Pages \ {l.page} : vecs'[q] = vecs[q]
         /\ late' \in SUBSET Threads
<1>1. l.page \in Pages /\ l.ver \in Versions \cup {None} /\ l.ids \subseteq Slots
  BY DEF Threads
<1>2. CASE vecs' = vecs /\ late' = late \ {l}
  BY <1>2 DEF TypeOK
<1>3. CASE /\ vecs' = [vecs EXCEPT ![l.page] =
                      [i \in Slots |-> IF i < Chunks[l.ver] THEN l.ver ELSE @[i]]]
           /\ late' = late \ {l}
  BY <1>1, <1>3 DEF TypeOK
<1>4. ASSUME NEW ids \in SUBSET Slots, NEW b,
             vecs' = [vecs EXCEPT ![l.page] =
                        [i \in Slots |-> IF i \in b THEN None ELSE @[i]]],
             late' = (late \ {l}) \cup
                {k \in {[l EXCEPT !.pc = "erase", !.ids = ids \ b]} : k.ids # {}}
      PROVE  /\ vecs' \in [Pages -> [Slots -> Versions \cup {None}]]
             /\ \A q \in Pages \ {l.page} : vecs'[q] = vecs[q]
             /\ late' \in SUBSET Threads
  <2>1. [l EXCEPT !.pc = "erase", !.ids = ids \ b] \in Threads
    BY DEF Threads, InThread
  <2>2. late' \in SUBSET Threads
    BY <1>4, <2>1
  <2> QED
    BY <1>1, <1>4, <2>2 DEF TypeOK
<1>5. (IF l.pc = "list" THEN Occupied(l.page) ELSE l.ids) \in SUBSET Slots
  BY <1>1 DEF Occupied
<1> QED
  BY <1>2, <1>3, <1>4, <1>5 DEF ThreadGoesOn

\* It leaves the page damaged, and no call there alone.
LEMMA ThreadKeepsStores ==
  ASSUME NEW M, NEW B, Inv(M, B), NEW l \in Threads, ThreadGoesOn(l),
         late \in SUBSET Threads
  PROVE  Inv(M, B)' /\ \A t \in Tasks : Flagged(t)
<1>1. TypeOK /\ Typed /\ l.page \in Pages
  BY DEF Inv, Typed, Threads
<1>2. /\ op' = [t \in Tasks |-> IF Active(t) /\ l.page \in Scope(op[t])
                                THEN [op[t] EXCEPT !.alone = FALSE] ELSE op[t]]
      /\ damaged' = damaged \cup {l.page} /\ row' = row /\ held' = held
      /\ vecs' \in [Pages -> [Slots -> Versions \cup {None}]]
      /\ \A q \in Pages \ {l.page} : vecs'[q] = vecs[q]
  BY <1>1, ThreadChanges DEF ThreadGoesOn
<1>3. \A t \in Tasks : Flagged(t)
  BY <1>2 DEF Flagged
<1>4. ASSUME NEW t \in Tasks, Active(t)
      PROVE  /\ op[t] \in Op /\ op'[t] \in Op /\ Active(t)'
             /\ op'[t].pc = op[t].pc /\ op'[t].kind = op[t].kind
             /\ op'[t].page = op[t].page /\ op'[t].ver = op[t].ver
             /\ op'[t].wrote = op[t].wrote /\ op'[t].existing = op[t].existing
             /\ op'[t].ids = op[t].ids /\ op'[t].nsOk = op[t].nsOk
             /\ Scope(op'[t]) = Scope(op[t])
             /\ op'[t].alone => op[t].alone /\ l.page \notin Scope(op[t])
  <2>1. op[t] \in Op
    BY <1>1, <1>4, ActiveType
  <2>2. op'[t] = IF l.page \in Scope(op[t]) THEN [op[t] EXCEPT !.alone = FALSE] ELSE op[t]
    BY <1>2, <1>4
  <2> QED
    BY <1>4, <2>1, <2>2 DEF Op, Scope, Active
<1>5. ASSUME NEW t \in Tasks, ~Active(t)
      PROVE  op'[t] = op[t] /\ ~Active(t)'
  BY <1>2, <1>5 DEF Active
<1>6. Typed'
  <2>1. TypeOK'
    <3>1. \A t \in Tasks : op'[t] \in Op \cup Answer \cup {Idle}
      BY <1>1, <1>4, <1>5 DEF TypeOK
    <3>2. op' \in [Tasks -> Op \cup Answer \cup {Idle}]
      BY <1>2, <3>1
    <3> QED
      BY <1>1, <1>2, <3>2 DEF TypeOK
  <2>2. Shape'
    BY <1>1, <1>4, <1>5 DEF Typed, Shape, Follows
  <2> QED
    BY <2>1, <2>2 DEF Typed
<1>7. ASSUME NEW t \in Tasks, NEW p
      PROVE  Touches(t, p)' <=> Touches(t, p)
  BY <1>4, <1>5, <1>7 DEF Touches
<1>8. ASSUME NEW t \in Tasks, NEW p \in Pages, Sole(t, p)'
      PROVE  Sole(t, p) /\ p # l.page /\ Active(t)
  <2>1. Active(t) /\ Touches(t, p)
    BY <1>7, <1>8 DEF Sole, Touches
  <2> QED
    BY <1>2, <1>4, <1>8, <2>1 DEF Sole, Touches
<1>9. Alone'
  BY <1>7, <1>8 DEF Inv, Alone
<1>10. ASSUME NEW t \in Tasks, NEW p \in Pages, Sole(t, p)'
       PROVE  Progress(t, p, M, B)'
  <2>1. Progress(t, p, M, B) /\ p # l.page /\ Active(t)
    BY <1>8, <1>10, SoleProgress
  <2>2. row'[p] = row[p] /\ vecs'[p] = vecs[p] /\ held'[t] = held[t]
        /\ (p \in damaged' <=> p \in damaged)
    BY <1>2, <2>1
  <2> QED
    BY <1>4, <2>1, <2>2 DEF Progress, Untouched, ListsAll, Built, Emptied, Exact, Even,
                            Occupied, Cleared, Contents
<1>11. QuietEven(M)'
  <2> SUFFICES ASSUME NEW p \in Pages \ damaged', Quiet(p)'
               PROVE  Even(p, M)'
    BY DEF QuietEven
  <2>1. p # l.page /\ p \notin damaged /\ Quiet(p)
    BY <1>2, <1>7 DEF Quiet, Touches
  <2> QED
    BY <1>2, <2>1 DEF Inv, QuietEven, Even, Exact
<1>12. \A t \in Tasks : Holds(t, B)'
  BY <1>2, <1>4, <1>5 DEF Inv, Holds
<1> QED
  BY <1>3, <1>6, <1>9, <1>10, <1>11, <1>12 DEF Inv, InProgress

\* The runs note the page it has changed.
LEMMA ThreadKeeps ==
  ASSUME BulkInv, NEW l \in late, ThreadGoesOn(l)
  PROVE  BulkInv'
<1>1. /\ Workers \subseteq Tasks /\ TypeOK
      /\ late \in SUBSET Threads /\ \A v \in Workers : bulk[v] \in Run /\ Sound(v)
  BY Given DEF BulkInv, BulkTypeOK, Threads
<1>2. PICK M, B : M = Marked /\ B = InRemoval /\ Inv(M, B)
  BY DEF BulkInv, Stores
<1>3. Inv(M, B)' /\ \A t \in Tasks : Flagged(t) /\ SameCall(t)
  BY <1>1, <1>2, ThreadKeepsStores, FlaggedCall
<1>4. /\ bulk' = [v \in Workers |-> Noted(v, {l.page})] /\ UNCHANGED <<row, held>>
      /\ \A q \in Pages \ {l.page} : vecs'[q] = vecs[q]
      /\ late' \in SUBSET Threads
  BY <1>1, ThreadChanges DEF ThreadGoesOn
<1>5. ASSUME NEW v \in Workers
      PROVE  Sound(v)' /\ bulk'[v] \in Run /\ SameRun(v)
  <2>1. \A t \in Tasks, p \in Pages : Touches(t, p)' => Touches(t, p)
    BY <1>3 DEF SameCall
  <2> QED
    BY <1>1, <1>3, <1>4, <2>1, Bystander
<1>6. Marked' = Marked /\ InRemoval' = InRemoval
  BY <1>5 DEF SameRun, Marked, InRemoval, Removing
<1>7. Stores'
  BY <1>2, <1>3, <1>6 DEF Stores
<1>8. BulkTypeOK'
  BY <1>3, <1>4, <1>5 DEF BulkTypeOK, Inv, Typed, Threads
<1> QED
  BY <1>5, <1>7, <1>8 DEF BulkInv

-----------------------------------------------------------------------------
(* The theorems.                                                           *)

\* Every step of the system keeps the invariant.
LEMMA BulkInvNext == BulkInv /\ [BulkNext]_bulkVars => BulkInv'
<1> SUFFICES ASSUME BulkInv, [BulkNext]_bulkVars
             PROVE  BulkInv'
  OBVIOUS
<1>1. ASSUME NEW w \in Workers, RunStep(w)
      PROVE  BulkInv'
  BY <1>1, BeginKeeps, TakeKeeps, RemoveKeeps, WorkKeeps, CountKeeps, BreakKeeps,
     SelectKeeps, MarkKeeps, CommitKeeps, CompleteKeeps, EndKeeps
  DEF RunStep
<1>2. ASSUME NEW t \in Web, WebStarts(t) \/ WebGoesOn(t)
      PROVE  BulkInv'
  BY <1>2, WebKeeps, WebStartKeeps, BulkIndexAssumption
<1>3. CASE UNCHANGED bulkVars
  <2>1. UNCHANGED vars /\ bulk' = bulk /\ late' = late
    BY <1>3 DEF bulkVars, vars
  <2>2. PICK M, B : M = Marked /\ B = InRemoval /\ Inv(M, B)
    BY DEF BulkInv, Stores
  <2>3. Inv(M, B)'
    BY <2>1, <2>2, InvStutters
  <2>4. ASSUME NEW v \in Workers
        PROVE  Sound(v)'
    <3>1. Sound(v)
      BY DEF BulkInv
    <3>2. Placed(v)' /\ Noticed(v)' /\ Removed(v)'
      BY <2>1, <3>1 DEF vars, Sound, Placed, Noticed, Removed, Unseen, Touches, Active, Scope
    <3>3. Solitary(v)' /\ Mirrors(v)'
      BY <2>1, <3>1 DEF vars, Sound, Solitary, Mirrors, Single, Running, Active, Indexed
    <3> QED
      BY <3>2, <3>3 DEF Sound
  <2> QED
    BY <2>1, <2>2, <2>3, <2>4, RunStays
<1> QED
  BY <1>1, <1>2, <1>3, ThreadKeeps DEF BulkNext

\* At first there is no run and no thread.
LEMMA BulkInvInit == BulkInit => BulkInv
<1> SUFFICES ASSUME BulkInit
             PROVE  BulkInv
  OBVIOUS
<1>1. Inv(Marked, InRemoval)
  BY InvInit DEF BulkInit
<1>2. Off \in Run /\ Off.pc = "off" /\ Off.found = {} /\ Off.left = {} /\ Off.todo = {}
  BY DEF Off, Run
<1>3. BulkTypeOK
  BY <1>1, <1>2 DEF BulkInit, BulkTypeOK, Inv, Typed
<1>4. \A w \in Workers : Sound(w)
  BY <1>2 DEF BulkInit, Sound, Placed, Noticed, Removed, Solitary, Mirrors, Single, Running
<1> QED
  BY <1>1, <1>3, <1>4 DEF BulkInv, Stores

\* The invariant always holds.
LEMMA BulkInvHolds == BulkSpec => []BulkInv
BY BulkInvInit, BulkInvNext, PTL DEF BulkSpec

(* Runs, and the threads they leave behind, keep the fields and values     *)
(* that the code gives them.                                               *)
THEOREM BulkTypes == BulkSpec => []BulkTypeOK
<1>1. BulkInv => BulkTypeOK
  BY DEF BulkInv
<1> QED
  BY <1>1, BulkInvHolds, PTL

(* Whatever runs, web requests, cancellations, crashes and late threads do *)
(* to each other, the two stores agree on a page that no call and no       *)
(* removal is at work on, unless an overlap, a failure or a late thread    *)
(* damaged it and nothing has repaired it since.                           *)
THEOREM StoresAgreeBesideRuns == BulkSpec => []StoresAgree
<1>1. BulkInv => StoresAgree
  <2> SUFFICES ASSUME BulkInv, NEW p \in Pages \ damaged, Quiet(p),
                      \A w \in Workers : p \notin Removing(w)
               PROVE  Exact(p)
    BY DEF StoresAgree
  <2>1. PICK M, B : M = Marked /\ Inv(M, B)
    BY DEF BulkInv, Stores
  <2> QED
    BY <2>1 DEF Inv, QuietEven, Even, Marked
<1> QED
  BY <1>1, BulkInvHolds, PTL

(* A removal that stops at any point has left, of each page nobody else    *)
(* worked on, the row by which the next run finds it, or nothing at all.   *)
THEOREM RemovalIsFoundAgain == BulkSpec => []RemovalFoundAgain
<1>1. BulkInv => RemovalFoundAgain
  <2> SUFFICES ASSUME BulkInv, NEW w \in Workers,
                      NEW p \in bulk[w].found \ bulk[w].crossed, row[p] = None
               PROVE  vecs[p] = Blank
    BY DEF RemovalFoundAgain
  <2>1. Placed(w) /\ Removed(w) /\ p \in Unseen(w)
    BY DEF BulkInv, Sound, Unseen
  <2> QED
    BY <2>1 DEF Placed, Removed
<1> QED
  BY <1>1, BulkInvHolds, PTL

-----------------------------------------------------------------------------
(* What a run that nothing overlapped has written.                         *)

\* The pages it is to have written: neither failed nor skipped.
ToFill(run) == Listed(run.list) \ (run.failed \cup run.skipped)

\* A page that it has counted as indexed is filled; the page it is at, before
\* its row is committed, has its vectors.
Fills(w) ==
  LET run == bulk[w] IN
  Single(w) =>
    /\ run.pc = "pages" /\ op[w].pc = "commit" =>
         \A i \in 0..(Chunks[op[w].ver] - 1) : vecs[op[w].page][i] = op[w].ver
    /\ run.pc = "pages" =>
         \A p \in ToFill(run) \ run.todo :
           \/ Filled(p, run.list[p])
           \/ op[w].pc # "idle" /\ op[w].page = p
                /\ (op[w].pc = "returned" => op[w].result \in {"failed", "unchanged"})
    /\ run.pc \in {"removal", "complete"} => \A p \in ToFill(run) : Filled(p, run.list[p])

\* An index call comes to its commit from the upsert that went through.
LEMMA CommitComesFromUpsert ==
  ASSUME TypeOK, NEW w \in Workers, w \in Tasks, op[w] \in Op, op[w].kind = "index",
         WorkOn(w), op'[w].pc = "commit"
  PROVE  Upsert(w)
<1>1. ASSUME NEW y, NEW pc, "pc" \in DOMAIN y, Goto(w, y, pc)
      PROVE  op'[w].pc = pc
  BY <1>1 DEF Goto, TypeOK
<1>2. ASSUME NEW y, Raise(w, y)
      PROVE  op'[w].pc = "returned"
  BY <1>2 DEF Raise, Answered, TypeOK
<1>3. ASSUME NEW y, NEW pc, DOMAIN y = DOMAIN op[w], RetryFrom(w, y, pc)
      PROVE  op'[w].pc \in {pc, "returned"}
  <2>1. {"pc", "tries"} \subseteq DOMAIN y
    BY <1>3 DEF Op
  <2>2. "pc" \in DOMAIN [y EXCEPT !.tries = @ + 1]
    BY <2>1
  <2> QED
    BY <1>1, <1>2, <1>3, <2>2 DEF RetryFrom
<1>4. CASE ListVectors(w)
  <2> DEFINE n == IF op[w].kind = "delete" THEN Cardinality(Occupied(op[w].page)) ELSE 0
             y == [op[w] EXCEPT !.ids = Occupied(op[w].page), !.removed = n]
  <2>1. "pc" \in DOMAIN y /\ y.kind = "index"
    BY DEF Op
  <2>2. Goto(w, y, IF Occupied(op[w].page) = {} THEN AfterErase(y) ELSE "erase")
    BY <1>4 DEF ListVectors
  <2> HIDE DEF y
  <2> QED
    BY <1>1, <2>1, <2>2 DEF AfterErase
<1>5. CASE EraseBatch(w)
  <2>1. PICK b \in Batches(op[w].ids) :
          LET y == [op[w] EXCEPT !.ids = Remaining(@, b), !.wrote = TRUE]
          IN  Goto(w, y, IF y.ids = {} THEN AfterErase(y) ELSE "erase")
    BY <1>5 DEF EraseBatch
  <2> DEFINE y == [op[w] EXCEPT !.ids = Remaining(@, b), !.wrote = TRUE]
  <2>2. "pc" \in DOMAIN y /\ y.kind = "index"
    BY DEF Op
  <2>3. Goto(w, y, IF y.ids = {} THEN AfterErase(y) ELSE "erase")
    BY <2>1
  <2> HIDE DEF y
  <2> QED
    BY <1>1, <2>2, <2>3 DEF AfterErase
<1>6. CASE EraseFails(w)
  <2> DEFINE y == [op[w] EXCEPT !.ids = {}]
             z == [op[w] EXCEPT !.ids = {}, !.wrote = TRUE]
  <2>1. DOMAIN y = DOMAIN op[w] /\ DOMAIN z = DOMAIN op[w]
    BY DEF Op
  <2>2. RetryFrom(w, y, "list") \/ RetryFrom(w, z, "list")
    BY <1>6 DEF EraseFails
  <2> HIDE DEF y, z
  <2> QED
    BY <1>3, <2>1, <2>2
<1>7. CASE CallOpenAI(w)
  <2>1. "pc" \in DOMAIN [op[w] EXCEPT !.tries = 0]
    BY DEF Op
  <2> QED
    BY <1>1, <1>7, <2>1 DEF CallOpenAI
<1>8. CASE OpenAIFails(w)
  BY <1>2, <1>8 DEF OpenAIFails
<1>9. CASE UpsertFails(w)
  BY <1>3, <1>9 DEF UpsertFails
<1>10. CASE CommitIndex(w)
  BY <1>10 DEF CommitIndex, Return, Answered, TypeOK
<1> QED
  BY <1>4, <1>5, <1>6, <1>7, <1>8, <1>9, <1>10 DEF WorkOn

\* That upsert has written every chunk of the version.
LEMMA UpsertFills ==
  ASSUME TypeOK, NEW w \in Tasks, op[w] \in Op, op[w].page \in Pages,
         op[w].ver \in Versions, Upsert(w)
  PROVE  \A i \in 0..(Chunks[op[w].ver] - 1) : vecs'[op[w].page][i] = op[w].ver
<1>1. vecs'[op[w].page] = [i \in Slots |-> IF i < Chunks[op[w].ver] THEN op[w].ver
                                           ELSE vecs[op[w].page][i]]
  BY DEF Upsert, Upserted, TypeOK
<1>2. Chunks[op[w].ver] \in 1..MaxChunks /\ MaxChunks \in Nat
  BY PageIndexAssumption
<1> QED
  BY <1>1, <1>2 DEF Slots

\* The run's call goes on; the other pages of the list stay as they are.
LEMMA WorkFills ==
  ASSUME BulkInv, NEW w \in Workers, WorkOn(w), Single(w), Fills(w)
  PROVE  Fills(w)'
<1> DEFINE run == bulk[w]
           list == run.list
           page == op[w].page
<1>1. /\ w \in Tasks /\ Workers \subseteq Tasks /\ TypeOK /\ Typed
      /\ run \in Run /\ Sound(w)
  BY Given
<1>2. Step(w) /\ bulk' = bulk /\ run.pc \in {"pages", "removal"} /\ ~CommitDelete(w)
      /\ ~WipeRows(w)
  <2>1. ~CommitDelete(w) /\ ~WipeRows(w)
    BY DEF WorkOn, CommitDelete, WipeRows, ListVectors, EraseBatch, EraseFails,
      CallOpenAI, OpenAIFails, Upsert, UpsertFails, CommitIndex
  <2> QED
    BY <2>1 DEF WorkOn, Step
<1>3. PICK M, B : M = Marked /\ B = InRemoval /\ Inv(M, B)
  BY DEF BulkInv, Stores
<1>4. /\ Active(w) /\ op[w] \in Op /\ Follows(op[w])
      /\ \A p \in Pages \ Scope(op[w]) : row'[p] = row[p] /\ vecs'[p] = vecs[p]
  <2>1. Active(w)
    BY <1>1, <1>2, <1>3, OutsideScope
  <2> QED
    BY <1>1, <1>2, <1>3, <2>1, OutsideScope, InFlight
<1>5. GoesOn(w) \/ HasFailed(w) \/ CommitIndex(w)
  BY <1>1, <1>2, <1>4, StepEnds
<1>6. /\ page \in Pages /\ Scope(op[w]) = {page}
      /\ run.pc = "pages" => op[w].kind = "index" /\ op[w].ver = list[page]
      /\ run.pc = "removal" => page \in run.found
  BY <1>1, <1>2, <1>4 DEF Sound, Placed, Active, Waiting, Follows, Scope
<1>7. ASSUME NEW p \in Listed(list), p # page
      PROVE  row'[p] = row[p] /\ vecs'[p] = vecs[p]
  BY <1>4, <1>6, <1>7 DEF Listed
<1>8. CASE run.pc = "removal"
  <2>1. run.found \cap Listed(list) = {}
    BY <1>1, <1>8 DEF Sound, Mirrors
  <2>2. \A p \in ToFill(run) : Filled(p, list[p]) /\ p \in Listed(list) /\ p # page
    BY <1>6, <1>8, <2>1 DEF Fills, ToFill
  <2>3. \A p \in ToFill(run) : row'[p] = row[p] /\ vecs'[p] = vecs[p]
    BY <1>7, <2>2
  <2> QED
    BY <1>2, <1>8, <2>2, <2>3 DEF Fills, Filled
<1>9. CASE run.pc = "pages"
  <2>1. op'[w].pc = "commit" =>
          \A i \in 0..(Chunks[op'[w].ver] - 1) : vecs'[op'[w].page][i] = op'[w].ver
    <3> SUFFICES ASSUME op'[w].pc = "commit"
                 PROVE  \A i \in 0..(Chunks[op'[w].ver] - 1) :
                          vecs'[op'[w].page][i] = op'[w].ver
      OBVIOUS
    <3>1. Upsert(w)
      BY <1>1, <1>4, <1>6, <1>9, CommitComesFromUpsert
    <3>2. op'[w].page = page /\ op'[w].ver = op[w].ver
      <4>1. op'[w].pc # "returned"
        OBVIOUS
      <4> QED
        BY <1>5, <4>1, <3>1 DEF GoesOn, HasFailed, Upsert, CommitIndex
    <3> QED
      BY <1>1, <1>4, <1>6, <1>9, <3>1, <3>2, UpsertFills DEF Follows
  <2>2. ASSUME NEW p \in ToFill(run) \ run.todo
        PROVE  \/ row'[p] = list[p] /\ \A i \in 0..(Chunks[list[p]] - 1) :
                                         vecs'[p][i] = list[p]
               \/ op'[w].pc # "idle" /\ op'[w].page = p
                    /\ (op'[w].pc = "returned" => op'[w].result \in {"failed", "unchanged"})
    <3>1. CASE p # page
      <4>1. Filled(p, list[p]) /\ p \in Listed(list)
        BY <1>9, <2>2, <3>1 DEF Fills, ToFill
      <4> QED
        BY <1>7, <3>1, <4>1 DEF Filled
    <3>2. CASE p = page /\ CommitIndex(w)
      <4>1. row'[p] = op[w].ver /\ vecs' = vecs /\ op[w].pc = "commit"
        BY <1>1, <1>6, <3>2 DEF CommitIndex, TypeOK
      <4> QED
        BY <1>6, <1>9, <3>2, <4>1 DEF Fills
    <3>3. CASE p = page /\ (GoesOn(w) \/ HasFailed(w))
      BY <3>3 DEF GoesOn, HasFailed, Active, Waiting
    <3> QED
      BY <1>5, <3>1, <3>2, <3>3
  <2> QED
    BY <1>2, <1>9, <2>1, <2>2 DEF Fills, Filled
<1> QED
  BY <1>2, <1>8, <1>9

\* The run takes, counts and selects; it removes only what its list has not.
LEMMA OwnFills ==
  ASSUME BulkInv, NEW w \in Workers, RunStep(w), Single(w)', Fills(w)
  PROVE  Fills(w)'
<1>1. /\ w \in Tasks /\ TypeOK /\ bulk[w] \in Run /\ Sound(w) /\ bulk \in [Workers -> Run]
  BY Given
<1>2. ASSUME NEW run, NEW pages, Becomes(w, run, pages)
      PROVE  bulk'[w] = run
  BY <1>2 DEF Becomes
<1>3. ASSUME NEW list \in Lists, BeginRun(w, list)
      PROVE  Fills(w)'
  <2> DEFINE run == [Off EXCEPT !.pc = "pages", !.list = list, !.todo = Listed(list),
                                !.alone = /\ \A t \in Tasks : ~Active(t)
                                          /\ \A x \in Workers : ~Running(x)
                                          /\ late = {}]
  <2>1. run.pc = "pages" /\ run.list = list /\ run.todo = Listed(list)
    BY DEF Off
  <2>2. bulk'[w] = run /\ op'[w] = Idle
    BY <1>2, <1>3 DEF BeginRun, vars
  <2> HIDE DEF run
  <2> QED
    BY <2>1, <2>2 DEF Fills, ToFill, Idle
<1>4. ASSUME NEW p \in Pages, TakePage(w, p)
      PROVE  Fills(w)'
  <2> DEFINE run == [bulk[w] EXCEPT !.todo = @ \ {p}]
             v == bulk[w].list[p]
             o == Call("index", p, v, IF row[p] = None THEN "embed" ELSE "list",
                       row[p] # None)
  <2>1. /\ run.pc = "pages" /\ run.list = bulk[w].list /\ run.todo = bulk[w].todo \ {p}
        /\ run.failed = bulk[w].failed /\ run.skipped = bulk[w].skipped
        /\ run.alone = bulk[w].alone
    BY <1>1, <1>4 DEF TakePage, Run
  <2>2. /\ bulk'[w] = run /\ bulk[w].pc = "pages" /\ op[w].pc = "idle"
        /\ row' = row /\ vecs' = vecs
    BY <1>2, <1>4 DEF TakePage, SkipUnchanged, StartIndex, Idle
  <2> HIDE DEF run
  <2>3. /\ op'[w].pc \in {"embed", "list", "returned"} /\ op'[w].page = p
        /\ op'[w].pc = "returned" => op'[w].result = "unchanged"
    <3>1. CASE SkipUnchanged(w, p, v)
      BY <1>1, <3>1 DEF SkipUnchanged, Answered, TypeOK
    <3>2. CASE StartIndex(w, p, v)
      <4>1. o.pc \in {"embed", "list"} /\ o.page = p
            /\ {"pc", "page", "alone"} \subseteq DOMAIN o
        BY DEF Call
      <4>2. Enter(w, o)
        BY <3>2 DEF StartIndex
      <4> HIDE DEF o
      <4>3. op'[w] = [o EXCEPT !.alone = (Rivals(w, o) = {})]
        BY <1>1, <4>2 DEF Enter, TypeOK
      <4> QED
        BY <4>1, <4>3
    <3> QED
      BY <1>4, <3>1, <3>2 DEF TakePage
  <2>4. Single(w)
    BY <2>1, <2>2 DEF Single, Running
  <2>5. ToFill(run) = ToFill(bulk[w])
    BY <2>1 DEF ToFill
  <2>6. \A q \in ToFill(run) \ run.todo : q = p \/ Filled(q, bulk[w].list[q])
    BY <2>1, <2>2, <2>4, <2>5 DEF Fills
  <2> QED
    BY <2>1, <2>2, <2>3, <2>6 DEF Fills, Filled
<1>5. ASSUME WorkOn(w)
      PROVE  Fills(w)'
  <2>1. Single(w)
    BY <1>5 DEF WorkOn, Single, Running
  <2> QED
    BY <1>5, <2>1, WorkFills
<1>6. ASSUME CountPage(w)
      PROVE  Fills(w)'
  <2> DEFINE failed == bulk[w].failed \cup PageIf(w, "failed")
             skipped == bulk[w].skipped \cup PageIf(w, "unchanged")
             run == [bulk[w] EXCEPT !.failed = failed, !.skipped = skipped]
  <2>1. /\ run.pc = bulk[w].pc /\ run.list = bulk[w].list /\ run.todo = bulk[w].todo
        /\ run.failed = failed /\ run.skipped = skipped /\ run.alone = bulk[w].alone
    BY <1>1 DEF Run
  <2>2. bulk'[w] = run /\ bulk[w].pc = "pages"
    <3>1. bulk'[w] = [bulk[w] EXCEPT !.failed = @ \cup PageIf(w, "failed"),
                                     !.skipped = @ \cup PageIf(w, "unchanged")]
      BY <1>2, <1>6 DEF CountPage
    <3> QED
      BY <1>1, <1>6, <3>1 DEF Run, CountPage
  <2> HIDE DEF run
  <2>3. row' = row /\ vecs' = vecs /\ op'[w].pc = "idle" /\ op[w].pc = "returned"
    BY <1>1, <1>6 DEF CountPage, Respond, TypeOK, Idle
  <2>4. Single(w)
    BY <2>1, <2>2 DEF Single, Running
  <2>5. ASSUME NEW p \in ToFill(run) \ run.todo
        PROVE  Filled(p, run.list[p])
    <3>1. p \in ToFill(bulk[w]) \ bulk[w].todo /\ p \notin PageIf(w, "failed")
          /\ p \notin PageIf(w, "unchanged")
      BY <2>1, <2>5 DEF ToFill
    <3> QED
      BY <2>1, <2>2, <2>3, <2>4, <3>1 DEF Fills, PageIf
  <2> QED
    BY <2>1, <2>2, <2>3, <2>5 DEF Fills, Filled
<1>7. ASSUME PageBreaks(w)
      PROVE  Fills(w)'
  <2>1. bulk'[w].pc = "broken"
    BY <1>1, <1>2, <1>7 DEF PageBreaks, Run
  <2> QED
    BY <2>1 DEF Fills
<1>8. ASSUME SelectRows(w)
      PROVE  Fills(w)'
  <2> DEFINE run == [bulk[w] EXCEPT !.pc = "removal", !.found = ToRemove(bulk[w]),
                        !.left = ToRemove(bulk[w]),
                        !.crossed = {p \in ToRemove(bulk[w]) : ~Quiet(p)}]
  <2>1. /\ run.pc = "removal" /\ run.list = bulk[w].list /\ run.failed = bulk[w].failed
        /\ run.skipped = bulk[w].skipped /\ run.alone = bulk[w].alone
    BY <1>1 DEF Run
  <2>2. bulk'[w] = run
    BY <1>2, <1>8 DEF SelectRows
  <2> HIDE DEF run
  <2>3. row' = row /\ vecs' = vecs /\ bulk[w].pc = "pages" /\ bulk[w].todo = {}
        /\ op[w].pc = "idle"
    BY <1>8 DEF SelectRows, Idle
  <2>4. Single(w) /\ ToFill(run) = ToFill(bulk[w])
    BY <2>1, <2>2, <2>3 DEF Single, Running, ToFill
  <2> QED
    BY <2>1, <2>2, <2>3, <2>4 DEF Fills, Filled
<1>9. ASSUME NEW run, bulk'[w] = run, run.pc \in {"removal", "complete"},
             run.list = bulk[w].list, run.failed = bulk[w].failed,
             run.skipped = bulk[w].skipped, run.alone = bulk[w].alone,
             bulk[w].pc = "removal", vecs' = vecs,
             \A p \in Listed(bulk[w].list) : row'[p] = row[p]
      PROVE  Fills(w)'
  <2>1. Single(w) /\ ToFill(run) = ToFill(bulk[w])
    BY <1>9 DEF Single, Running, ToFill
  <2>2. \A p \in ToFill(run) : p \in Listed(bulk[w].list)
    BY <2>1 DEF ToFill
  <2> QED
    BY <1>9, <2>1, <2>2 DEF Fills, Filled
<1>10. ASSUME NEW p \in Pages, RemoveVectors(w, p)
       PROVE  Fills(w)'
  <2> DEFINE run == [bulk[w] EXCEPT !.left = @ \ {p}]
  <2>1. /\ run.pc = bulk[w].pc /\ run.list = bulk[w].list /\ run.failed = bulk[w].failed
        /\ run.skipped = bulk[w].skipped /\ run.alone = bulk[w].alone
    BY <1>1 DEF Run
  <2>2. bulk'[w] = run /\ bulk[w].pc = "removal" /\ row' = row /\ vecs' = vecs
    BY <1>2, <1>10 DEF RemoveVectors
  <2> HIDE DEF run
  <2> QED
    BY <1>9, <2>1, <2>2
<1>11. ASSUME MarkRow(w)
       PROVE  Fills(w)'
  <2> DEFINE run == IF op[w].alone THEN bulk[w]
                    ELSE [bulk[w] EXCEPT !.crossed = @ \cup {op[w].page}]
  <2>1. /\ run.pc = bulk[w].pc /\ run.list = bulk[w].list /\ run.failed = bulk[w].failed
        /\ run.skipped = bulk[w].skipped /\ run.alone = bulk[w].alone
    BY <1>1 DEF Run
  <2>2. bulk'[w] = run /\ bulk[w].pc = "removal" /\ row' = row /\ vecs' = vecs
    BY <1>2, <1>11 DEF MarkRow
  <2> HIDE DEF run
  <2> QED
    BY <1>9, <2>1, <2>2
<1>12. ASSUME CommitRemoval(w)
       PROVE  Fills(w)'
  <2> DEFINE run == [bulk[w] EXCEPT !.pc = "complete"]
  <2>1. /\ run.pc = "complete" /\ run.list = bulk[w].list /\ run.failed = bulk[w].failed
        /\ run.skipped = bulk[w].skipped /\ run.alone = bulk[w].alone
    BY <1>1 DEF Run
  <2>2. bulk'[w] = run /\ bulk[w].pc = "removal" /\ vecs' = vecs
        /\ row' = [p \in Pages |-> IF p \in held[w] THEN None ELSE row[p]]
    BY <1>2, <1>12 DEF CommitRemoval
  <2> HIDE DEF run
  <2>3. Single(w)
    BY <2>1, <2>2 DEF Single, Running
  <2>4. held[w] \subseteq bulk[w].found /\ bulk[w].found \cap Listed(bulk[w].list) = {}
    BY <1>1, <2>2, <2>3 DEF Sound, Removed, Mirrors
  <2>5. \A p \in Listed(bulk[w].list) : row'[p] = row[p]
    BY <2>2, <2>4 DEF Listed
  <2> QED
    BY <1>9, <2>1, <2>2, <2>5
<1>13. ASSUME Complete(w) \/ RunFails(w) \/ WorkerDies(w) \/ Cancel(w)
       PROVE  FALSE
  <2>1. bulk'[w] = Off
    BY <1>2, <1>13 DEF Complete, RunFails, WorkerDies, Cancel, Abandon
  <2> QED
    BY <2>1 DEF Single, Running, Off
<1> QED
  BY <1>3, <1>4, <1>5, <1>6, <1>7, <1>8, <1>10, <1>11, <1>12, <1>13 DEF RunStep

\* What others do beside a run that nothing overlapped is to answer.
LEMMA OthersFill ==
  ASSUME BulkInv, NEW w \in Workers, Single(w)', Fills(w),
         \/ \E x \in Workers \ {w} : RunStep(x)
         \/ \E t \in Web : WebStarts(t) \/ WebGoesOn(t)
         \/ \E l \in late : ThreadGoesOn(l)
         \/ UNCHANGED bulkVars
  PROVE  Fills(w)'
<1>1. /\ w \in Tasks /\ Workers \subseteq Tasks /\ TypeOK /\ bulk[w] \in Run /\ Sound(w)
  BY Given
<1>2. ASSUME NEW pages, bulk'[w] = Noted(w, pages)
      PROVE  FALSE
  BY <1>1, <1>2, NotedRun DEF Sound
<1>3. ASSUME bulk'[w] = bulk[w], op'[w] = op[w], row' = row, vecs' = vecs
      PROVE  Fills(w)'
  BY <1>3 DEF Fills, Single, Running, Filled
<1>4. ASSUME Single(w)
      PROVE  /\ \A t \in Tasks \ {w} : ~Active(t)
             /\ \A x \in Workers \ {w} : ~Running(x)
             /\ late = {}
  BY <1>1, <1>4 DEF Sound, Solitary
<1>5. ASSUME NEW x \in Workers \ {w}, RunStep(x)
      PROVE  Fills(w)'
  <2>1. ASSUME NEW run, NEW pages, Becomes(x, run, pages)
        PROVE  FALSE
    BY <1>2, <2>1 DEF Becomes
  <2>2. WorkOn(x)
    BY <1>5, <2>1 DEF RunStep, BeginRun, TakePage, CountPage, PageBreaks, SelectRows,
      RemoveVectors, MarkRow, CommitRemoval, Complete, RunFails, WorkerDies, Cancel, Abandon
  <2>3. Running(x) /\ bulk' = bulk
    BY <2>2 DEF WorkOn, Running
  <2>4. Single(w)
    BY <2>3 DEF Single, Running
  <2> QED
    BY <1>4, <2>3, <2>4
<1>6. ASSUME NEW t \in Web, WebStarts(t) \/ WebGoesOn(t)
      PROVE  Fills(w)'
  <2>1. t \in Tasks /\ ~Running(t)
    BY <1>6, BulkIndexAssumption DEF WebStarts, WebGoesOn
  <2>2. CASE bulk' = bulk
    <3>1. Single(w) /\ t # w
      BY <2>1, <2>2 DEF Single, Running
    <3>2. ~Active(t)
      BY <1>4, <2>1, <3>1
    <3>3. CASE WebStarts(t)
      <4>1. Start(t)
        BY <3>3 DEF WebStarts
      <4>2. ~Active(t)'
        <5>1. ASSUME op'[t].pc \in Waiting
              PROVE  FALSE
          <6>1. bulk'[w] = Noted(w, Scope(op'[t]))
            BY <3>3, <5>1 DEF WebStarts
          <6> QED
            BY <1>2, <6>1
        <5> QED
          BY <5>1 DEF Active
      <4>3. UNCHANGED <<row, vecs>> /\ op'[w] = op[w]
        BY <1>1, <2>1, <3>1, <4>1, <4>2, StartFlags
      <4> QED
        BY <1>3, <2>2, <4>3
    <3>4. CASE WebGoesOn(t)
      <4>1. Respond(t)
        <5>1. ~Step(t)
          BY <3>2 DEF Step, ListVectors, EraseBatch, EraseFails, CallOpenAI, OpenAIFails,
            Upsert, UpsertFails, CommitIndex, CommitConflict, CommitDelete, CommitFails,
            WipeNamespace, NamespaceFails, WipeRows, Active, Waiting
        <5> QED
          BY <3>2, <3>4, <5>1 DEF WebGoesOn, Crash
      <4>2. op'[w] = op[w] /\ row' = row /\ vecs' = vecs
        BY <1>1, <2>1, <3>1, <4>1 DEF Respond, TypeOK
      <4> QED
        BY <1>3, <2>2, <4>2
    <3> QED
      BY <1>6, <3>3, <3>4
  <2>3. CASE bulk' # bulk
    <3>1. bulk' = [v \in Workers |-> Noted(v, Scope(op'[t]))]
      BY <1>6, <2>3 DEF WebStarts, WebGoesOn
    <3> QED
      BY <1>2, <3>1
  <2> QED
    BY <2>2, <2>3
<1>7. ASSUME NEW l \in late, ThreadGoesOn(l)
      PROVE  FALSE
  <2>1. bulk'[w] = Noted(w, {l.page})
    BY <1>7 DEF ThreadGoesOn
  <2> QED
    BY <1>2, <2>1
<1>8. ASSUME UNCHANGED bulkVars
      PROVE  Fills(w)'
  BY <1>3, <1>8 DEF bulkVars
<1> QED
  BY <1>5, <1>6, <1>7, <1>8

\* At every step of the system the run's pages stay filled.
LEMMA FillsNext ==
  BulkInv /\ (\A w \in Workers : Fills(w)) /\ [BulkNext]_bulkVars
    => \A w \in Workers : Fills(w)'
<1> SUFFICES ASSUME BulkInv, [BulkNext]_bulkVars, NEW w \in Workers, Fills(w)
             PROVE  Fills(w)'
  OBVIOUS
<1>1. CASE ~Single(w)'
  BY <1>1 DEF Fills
<1>2. CASE Single(w)' /\ RunStep(w)
  BY <1>2, OwnFills
<1>3. CASE Single(w)' /\ ~RunStep(w)
  BY <1>3, OthersFill DEF BulkNext
<1> QED
  BY <1>1, <1>2, <1>3

FilledInv == BulkInv /\ \A w \in Workers : Fills(w)

\* The pages of a run stay filled in every behaviour.
LEMMA FilledInvHolds == BulkSpec => []FilledInv
<1>1. BulkInit => FilledInv
  BY BulkInvInit DEF FilledInv, BulkInit, Fills, Single, Running, Off
<1>2. FilledInv /\ [BulkNext]_bulkVars => FilledInv'
  BY BulkInvNext, FillsNext DEF FilledInv
<1> QED
  BY <1>1, <1>2, PTL DEF BulkSpec

(* A run that completes and that nothing overlapped leaves of each page of *)
(* its list that it has indexed the row and every chunk, of each that it   *)
(* has skipped the row with the same hash and, unless something damaged    *)
(* the page before, its vectors; and of the other pages nothing.           *)
THEOREM RunsMirrorTheSite == BulkSpec => []RunMirrorsSite
<1>1. ASSUME FilledInv, NEW w \in Workers, bulk[w].pc = "complete", bulk[w].alone
      PROVE  LET run == bulk[w] IN
             /\ \A p \in Listed(run.list) \ run.failed :
                  IF p \in run.skipped
                  THEN Indexed(p, run.list[p]) /\ (p \in damaged \/ Exact(p))
                  ELSE Filled(p, run.list[p])
             /\ \A p \in Pages \ Listed(run.list) :
                  row[p] = None /\ (p \in run.found => vecs[p] = Blank)
  <2>1. /\ Placed(w) /\ Removed(w) /\ Solitary(w) /\ Mirrors(w) /\ Single(w) /\ Fills(w)
        /\ BulkInv /\ w \in Tasks
    BY <1>1, Given DEF FilledInv, BulkInv, Sound, Single, Running
  <2>2. Unseen(w) = bulk[w].found
    BY <2>1 DEF Solitary, Unseen
  <2>3. \A p \in Listed(bulk[w].list) \ (bulk[w].failed \cup bulk[w].skipped) :
          Filled(p, bulk[w].list[p])
    BY <1>1, <2>1 DEF Fills, ToFill
  <2>4. ASSUME NEW p \in Pages \ damaged
        PROVE  Exact(p)
    <3>1. Quiet(p)
      <4>1. ~Active(w)
        BY <1>1, <2>1 DEF Placed, Active, Idle, Waiting
      <4> QED
        BY <2>1, <4>1 DEF Solitary, Quiet
    <3>2. \A x \in Workers : Removing(x) = {}
      BY <1>1, <2>1 DEF Solitary, Removing, Running
    <3>3. PICK M, B : M = Marked /\ Inv(M, B)
      BY <2>1 DEF BulkInv, Stores
    <3> QED
      BY <2>4, <3>1, <3>2, <3>3 DEF Inv, QuietEven, Even, Marked
  <2>5. \A p \in Listed(bulk[w].list) \ bulk[w].failed :
          Indexed(p, bulk[w].list[p]) /\ p \in Pages
    BY <1>1, <2>1 DEF Mirrors, Listed
  <2> QED
    BY <1>1, <2>1, <2>2, <2>3, <2>4, <2>5 DEF Removed, Mirrors
<1>2. FilledInv => RunMirrorsSite
  BY <1>1 DEF RunMirrorsSite
<1> QED
  BY <1>2, FilledInvHolds, PTL

=============================================================================
