------------------------- MODULE PageAnswers_proofs -------------------------
(***************************************************************************)
(* Proofs about PageIndex, continued: what a handler answers is true when  *)
(* nothing overlapped its call, for any tasks, pages, versions, batch size *)
(* and number of attempts, and whatever state earlier calls left behind.   *)
(***************************************************************************)
EXTENDS PageIndex_proofs

-----------------------------------------------------------------------------
(* What a call that nothing overlapped has done so far, on a page that     *)
(* earlier calls may have damaged.                                         *)

\* Every chunk of its version has been sent.
Sent(t) ==
  op[t].pc = "commit" /\ op[t].kind = "index" =>
    \A i \in 0..(Chunks[op[t].ver] - 1) : vecs[op[t].page][i] = op[t].ver

\* It has found the vectors of the row it is to delete, at the first attempt
\* and if the page was in step.
Removes(t) ==
  op[t].kind = "delete" =>
    /\ row[op[t].page] # None
    /\ op[t].tries = 0 =>
         /\ op[t].pc = "list" => ~op[t].wrote
         /\ op[t].pc \in {"erase", "commit"} /\ op[t].page \notin damaged
              => op[t].removed = Chunks[row[op[t].page]]

Own(t) == Active(t) /\ op[t].alone => Sent(t) /\ Removes(t)

SoloInv == Inv({}, {}) /\ \A t \in Tasks : Own(t)

-----------------------------------------------------------------------------
(* What a call has done so far is not undone by the others.                *)

\* A call whose pages are left alone has done what it had done before.
LEMMA OwnKept ==
  ASSUME TypeOK, NEW u \in Tasks, Active(u) => op[u] \in Op, Own(u), op'[u] = op[u],
         Active(u) /\ op[u].alone =>
           \A p \in Scope(op[u]) :
             row'[p] = row[p] /\ vecs'[p] = vecs[p] /\ (p \in damaged => p \in damaged')
  PROVE  Own(u)'
<1> SUFFICES ASSUME Active(u)', op'[u].alone
             PROVE  Sent(u)' /\ Removes(u)'
  BY DEF Own
<1>1. Active(u) /\ op[u].alone /\ Sent(u) /\ Removes(u)
  BY DEF Active, Own
<1>2. op[u].kind # "wipe" => op[u].page \in Scope(op[u])
  BY DEF Scope
<1>3. Sent(u)'
  BY <1>1, <1>2 DEF Sent
<1>4. Removes(u)'
  BY <1>1, <1>2 DEF Removes
<1> QED
  BY <1>3, <1>4

\* A step of t is no concern of a call that nothing overlaps.
LEMMA OwnOfOthers ==
  ASSUME SoloInv, NEW t \in Tasks, Step(t) \/ Crash(t), NEW u \in Tasks, u # t
  PROVE  Own(u)'
<1>1. Inv({}, {}) /\ TypeOK /\ Own(u)
  BY DEF SoloInv, Inv, Typed
<1>2. /\ Active(t) /\ op'[u] = op[u]
      /\ \A p \in Pages \ Scope(op[t]) :
           row'[p] = row[p] /\ vecs'[p] = vecs[p] /\ (p \in damaged' <=> p \in damaged)
  BY <1>1, OutsideScope
<1>3. ASSUME Active(u), op[u].alone, NEW p \in Scope(op[u])
      PROVE  p \in Pages \ Scope(op[t])
  <2>1. p \in Pages
    BY <1>1, <1>3, InFlight, ScopeType DEF Inv
  <2>2. Sole(u, p)
    BY <1>3 DEF Sole, Touches
  <2> QED
    BY <1>1, <1>2, <2>1, <2>2 DEF Inv, Alone, Touches
<1>4. Active(u) => op[u] \in Op
  BY <1>1, ActiveType
<1> QED
  BY <1>1, <1>2, <1>3, <1>4, OwnKept

\* A call that begins leaves the others what they have done, or alone no more.
LEMMA OwnWhenEntered ==
  ASSUME SoloInv, NEW t \in Tasks, NEW o, Enter(t, o),
         row' = row, vecs' = vecs, NEW u \in Tasks, u # t
  PROVE  Own(u)'
<1>1. Inv({}, {}) /\ TypeOK /\ Own(u) /\ damaged \subseteq damaged'
  BY DEF SoloInv, Inv, Typed, Enter
<1>2. CASE u \in Rivals(t, o)
  <2>1. op'[u] = [op[u] EXCEPT !.alone = FALSE] /\ op[u] \in Op
    BY <1>1, <1>2, ActiveType DEF Enter, Rivals
  <2>2. ~op'[u].alone
    BY <2>1 DEF Op
  <2> QED
    BY <2>2 DEF Own
<1>3. CASE u \notin Rivals(t, o)
  <2>1. op'[u] = op[u]
    BY <1>3 DEF Enter
  <2>2. Active(u) => op[u] \in Op
    BY <1>1, ActiveType
  <2> QED
    BY <1>1, <2>1, <2>2, OwnKept
<1> QED
  BY <1>2, <1>3

-----------------------------------------------------------------------------
(* What a call adds to it.                                                 *)

\* A call that raised or returned has nothing to account for.
LEMMA OwnEnded ==
  ASSUME TypeOK, NEW t \in Tasks, NEW y, NEW r, Raise(t, y) \/ Return(t, y, r)
  PROVE  Own(t)'
<1>1. op'[t].pc = "returned"
  BY DEF Raise, Return, Answered, TypeOK
<1> QED
  BY <1>1 DEF Own, Active, Waiting

\* A call made again is not at its first attempt, nor at its commit.
LEMMA OwnRetried ==
  ASSUME TypeOK, NEW t \in Tasks, NEW y \in Op, NEW pc, RetryFrom(t, y, pc),
         pc # "commit", y.kind = "delete" => row'[y.page] # None
  PROVE  Own(t)'
<1>1. CASE Raise(t, y)
  BY <1>1, OwnEnded
<1>2. CASE y.tries + 1 < MaxAttempts /\ Goto(t, [y EXCEPT !.tries = @ + 1], pc)
  <2> DEFINE z == [y EXCEPT !.tries = @ + 1]
  <2>1. z \in Op /\ z.tries # 0 /\ z.kind = y.kind /\ z.page = y.page
    BY <1>2, PageIndexAssumption DEF Op
  <2>2. Goto(t, z, pc)
    BY <1>2
  <2> HIDE DEF z
  <2>3. op'[t] = [z EXCEPT !.pc = pc]
    BY <2>2 DEF Goto, TypeOK
  <2>4. op'[t].tries # 0 /\ op'[t].pc = pc /\ op'[t].kind = y.kind /\ op'[t].page = y.page
    BY <2>1, <2>3 DEF Op
  <2> QED
    BY <2>4 DEF Own, Sent, Removes
<1> QED
  BY <1>1, <1>2 DEF RetryFrom

\* A page in step has as many vectors as its version has chunks.
LEMMA VectorsOfPage ==
  ASSUME TypeOK, NEW p \in Pages, row[p] # None, Exact(p)
  PROVE  Cardinality(Occupied(p)) = Chunks[row[p]]
<1>1. row[p] \in Versions /\ vecs[p] = Contents(row[p])
  BY DEF TypeOK, Exact
<1>2. Chunks[row[p]] \in 1..MaxChunks /\ row[p] # None /\ MaxChunks \in Nat
  BY <1>1, PageIndexAssumption
<1> DEFINE n == Chunks[row[p]]
<1>3. Occupied(p) = 0..(n - 1)
  BY <1>1, <1>2 DEF Occupied, Contents, Slots
<1>4. Cardinality(0..(n - 1)) = n
  <2> HIDE DEF n
  <2>1. n \in Nat \ {0}
    BY <1>2 DEF n
  <2> QED
    BY <2>1, FS_Interval
<1> QED
  BY <1>3, <1>4

\* Listing a page in step finds the vectors of its row, and counts them.
LEMMA OwnWhenListed ==
  ASSUME SoloInv, NEW t \in Tasks, ListVectors(t)
  PROVE  Own(t)'
<1> DEFINE o == op[t]
<1>1. Inv({}, {}) /\ TypeOK /\ o.pc = "list" /\ Active(t) /\ o \in Op /\ Own(t)
  BY ActiveType DEF ListVectors, SoloInv, Inv, Typed, Active, Waiting
<1>2. PICK p \in Pages : Scope(o) = {p} /\ o.page = p /\ o.kind \in {"index", "delete"}
  BY <1>1, PageScope
<1> DEFINE found == Occupied(p)
           n == IF o.kind = "delete" THEN Cardinality(found) ELSE 0
           y == [o EXCEPT !.ids = found, !.removed = n]
           next == IF found = {} THEN AfterErase(y) ELSE "erase"
<1>3. Goto(t, y, next) /\ row' = row /\ vecs' = vecs
  BY <1>2 DEF ListVectors
<1>4. /\ y.kind = o.kind /\ y.page = p /\ y.tries = o.tries /\ y.alone = o.alone
      /\ y.removed = n
  BY <1>1, <1>2 DEF Op
<1>5. op'[t] = [y EXCEPT !.pc = next] /\ damaged' = damaged
  BY <1>1, <1>3 DEF Goto, TypeOK
<1>6. next \in {"erase", "embed", "commit"} /\ (next = "commit" => o.kind = "delete")
  BY <1>2, <1>4 DEF AfterErase
<1>7. /\ op'[t].pc = next /\ op'[t].kind = o.kind /\ op'[t].page = p
      /\ op'[t].tries = o.tries /\ op'[t].alone = o.alone /\ op'[t].removed = n
  <2>1. DOMAIN y = DOMAIN o
    BY <1>1
  <2>2. {"kind", "pc", "page", "tries", "alone", "removed"} \subseteq DOMAIN o
    BY <1>1 DEF Op
  <2> HIDE DEF y, next
  <2> QED
    BY <1>4, <1>5, <2>1, <2>2
<1> HIDE DEF y, next
<1>8. ASSUME o.alone
      PROVE  Removes(t)'
  <2>1. Removes(t)
    BY <1>1, <1>8 DEF Own
  <2>2. ASSUME o.kind = "delete"
        PROVE  row[p] # None
    BY <1>2, <2>1, <2>2 DEF Removes
  <2>3. ASSUME o.kind = "delete", o.tries = 0, p \notin damaged
        PROVE  n = Chunks[row[p]]
    <3>1. Sole(t, p)
      BY <1>1, <1>2, <1>8 DEF Sole, Touches
    <3>2. ~o.wrote
      BY <1>1, <1>2, <2>1, <2>3 DEF Removes
    <3>3. Exact(p)
      BY <1>1, <2>3, <3>1, <3>2, SoleProgress DEF Progress, Untouched, Even
    <3> QED
      BY <1>1, <2>2, <2>3, <3>3, VectorsOfPage
  <2> HIDE DEF n
  <2> QED
    BY <1>3, <1>5, <1>6, <1>7, <2>2, <2>3 DEF Removes
<1> QED
  BY <1>6, <1>7, <1>8 DEF Own, Sent

\* Deleting a batch changes neither the count nor the attempt.
LEMMA OwnWhenErased ==
  ASSUME SoloInv, NEW t \in Tasks, EraseBatch(t)
  PROVE  Own(t)'
<1> DEFINE o == op[t]
<1>1. Inv({}, {}) /\ TypeOK /\ o.pc = "erase" /\ Active(t) /\ o \in Op /\ Own(t)
  BY ActiveType DEF EraseBatch, SoloInv, Inv, Typed, Active, Waiting
<1>2. o.kind \in {"index", "delete"}
  BY <1>1, PageScope
<1>3. PICK b :
        Goto(t, [o EXCEPT !.ids = Remaining(@, b), !.wrote = TRUE],
             IF [o EXCEPT !.ids = Remaining(@, b), !.wrote = TRUE].ids = {}
             THEN AfterErase([o EXCEPT !.ids = Remaining(@, b), !.wrote = TRUE])
             ELSE "erase")
  BY DEF EraseBatch
<1> DEFINE y == [o EXCEPT !.ids = Remaining(@, b), !.wrote = TRUE]
           next == IF y.ids = {} THEN AfterErase(y) ELSE "erase"
<1>4. Goto(t, y, next) /\ row' = row
  BY <1>3 DEF EraseBatch
<1>5. /\ y.kind = o.kind /\ y.page = o.page /\ y.tries = o.tries /\ y.alone = o.alone
      /\ y.removed = o.removed
  BY <1>1 DEF Op
<1>6. op'[t] = [y EXCEPT !.pc = next] /\ damaged' = damaged
  BY <1>1, <1>4 DEF Goto, TypeOK
<1>7. next \in {"erase", "embed", "commit"} /\ (next = "commit" => o.kind = "delete")
  BY <1>2, <1>5 DEF AfterErase
<1>8. /\ op'[t].pc = next /\ op'[t].kind = o.kind /\ op'[t].page = o.page
      /\ op'[t].tries = o.tries /\ op'[t].alone = o.alone /\ op'[t].removed = o.removed
  <2>1. DOMAIN y = DOMAIN o
    BY <1>1
  <2>2. {"kind", "pc", "page", "tries", "alone", "removed"} \subseteq DOMAIN o
    BY <1>1 DEF Op
  <2> HIDE DEF y, next
  <2> QED
    BY <1>5, <1>6, <2>1, <2>2
<1> HIDE DEF y, next
<1> QED
  BY <1>1, <1>4, <1>6, <1>7, <1>8 DEF Own, Sent, Removes

\* A delete whose attempt fails lists again, or raises.
LEMMA OwnWhenEraseFails ==
  ASSUME SoloInv, NEW t \in Tasks, EraseFails(t)
  PROVE  Own(t)'
<1> DEFINE o == op[t]
<1>1. Inv({}, {}) /\ TypeOK /\ Active(t) /\ o \in Op /\ Own(t) /\ row' = row
  BY ActiveType DEF EraseFails, SoloInv, Inv, Typed, Active, Waiting
<1>2. ASSUME NEW y \in Op, y.kind = o.kind, y.page = o.page, y.alone = o.alone,
             RetryFrom(t, y, "list")
      PROVE  Own(t)'
  <2>1. CASE o.alone
    <3>1. y.kind = "delete" => row'[y.page] # None
      BY <1>1, <1>2, <2>1 DEF Own, Removes
    <3> QED
      BY <1>1, <1>2, <3>1, OwnRetried
  <2>2. CASE ~o.alone
    <3>1. CASE Raise(t, y)
      BY <1>1, <3>1, OwnEnded
    <3>2. CASE Goto(t, [y EXCEPT !.tries = @ + 1], "list")
      <4>1. op'[t] = [y EXCEPT !.tries = @ + 1, !.pc = "list"]
        BY <1>1, <3>2 DEF Goto, TypeOK
      <4>2. op'[t].alone = y.alone
        BY <4>1 DEF Op
      <4> QED
        BY <1>2, <2>2, <4>2 DEF Own
    <3> QED
      BY <1>2, <3>1, <3>2 DEF RetryFrom
  <2> QED
    BY <2>1, <2>2
<1>3. /\ [o EXCEPT !.ids = {}] \in Op
      /\ [o EXCEPT !.ids = {}].kind = o.kind /\ [o EXCEPT !.ids = {}].page = o.page
      /\ [o EXCEPT !.ids = {}].alone = o.alone
  BY <1>1 DEF Op
<1>4. /\ [o EXCEPT !.ids = {}, !.wrote = TRUE] \in Op
      /\ [o EXCEPT !.ids = {}, !.wrote = TRUE].kind = o.kind
      /\ [o EXCEPT !.ids = {}, !.wrote = TRUE].page = o.page
      /\ [o EXCEPT !.ids = {}, !.wrote = TRUE].alone = o.alone
  BY <1>1 DEF Op
<1>5. \/ RetryFrom(t, [o EXCEPT !.ids = {}], "list")
      \/ RetryFrom(t, [o EXCEPT !.ids = {}, !.wrote = TRUE], "list")
  BY DEF EraseFails
<1> QED
  BY <1>2, <1>3, <1>4, <1>5

\* The embeddings come before the chunks are sent.
LEMMA OwnWhenEmbedded ==
  ASSUME SoloInv, NEW t \in Tasks, CallOpenAI(t) \/ OpenAIFails(t)
  PROVE  Own(t)'
<1> DEFINE o == op[t]
           y == [o EXCEPT !.tries = 0]
<1>1. Inv({}, {}) /\ TypeOK /\ o.pc = "embed" /\ Active(t) /\ o \in Op
  BY ActiveType DEF CallOpenAI, OpenAIFails, SoloInv, Inv, Typed, Active, Waiting
<1>2. o.kind = "index"
  BY <1>1, InFlight DEF Inv, Follows
<1>3. CASE CallOpenAI(t)
  <2>1. y \in Op /\ y.kind = "index"
    BY <1>1, <1>2, PageIndexAssumption DEF Op
  <2>2. Goto(t, y, "upsert")
    BY <1>3 DEF CallOpenAI
  <2> HIDE DEF y
  <2>3. op'[t] = [y EXCEPT !.pc = "upsert"]
    BY <1>1, <2>2 DEF Goto, TypeOK
  <2>4. op'[t].kind = "index" /\ op'[t].pc = "upsert"
    BY <2>1, <2>3 DEF Op
  <2> QED
    BY <2>4 DEF Own, Sent, Removes
<1>4. CASE OpenAIFails(t)
  BY <1>1, <1>4, OwnEnded DEF OpenAIFails
<1> QED
  BY <1>3, <1>4

\* The upsert sends every chunk of the version.
LEMMA OwnWhenUpserted ==
  ASSUME SoloInv, NEW t \in Tasks, Upsert(t) \/ UpsertFails(t)
  PROVE  Own(t)'
<1> DEFINE o == op[t]
           y == [o EXCEPT !.wrote = TRUE]
<1>1. Inv({}, {}) /\ TypeOK /\ o.pc = "upsert" /\ Active(t) /\ o \in Op
  BY ActiveType DEF Upsert, UpsertFails, SoloInv, Inv, Typed, Active, Waiting
<1>2. o.kind = "index" /\ o.page \in Pages /\ o.ver \in Versions
  BY <1>1, InFlight DEF Inv, Follows
<1>3. y \in Op /\ y.kind = "index" /\ y.page = o.page /\ y.ver = o.ver
  BY <1>1, <1>2 DEF Op
<1>4. CASE Upsert(t)
  <2>1. Goto(t, y, "commit") /\ vecs' = Upserted(t)
    BY <1>4 DEF Upsert
  <2> HIDE DEF y
  <2>2. op'[t] = [y EXCEPT !.pc = "commit"]
    BY <1>1, <2>1 DEF Goto, TypeOK
  <2>3. op'[t].kind = "index" /\ op'[t].page = o.page /\ op'[t].ver = o.ver
    BY <1>3, <2>2 DEF Op
  <2>4. vecs'[o.page] = [i \in Slots |-> IF i < Chunks[o.ver] THEN o.ver ELSE vecs[o.page][i]]
    BY <1>1, <1>2, <2>1 DEF Upserted, TypeOK
  <2>5. Chunks[o.ver] \in 1..MaxChunks /\ MaxChunks \in Nat
    BY <1>2, PageIndexAssumption
  <2>6. \A i \in 0..(Chunks[o.ver] - 1) : vecs'[o.page][i] = o.ver
    BY <2>4, <2>5 DEF Slots
  <2> QED
    BY <2>3, <2>6 DEF Own, Sent, Removes
<1>5. CASE UpsertFails(t)
  <2>1. RetryFrom(t, y, "upsert") \/ RetryFrom(t, o, "upsert")
    BY <1>5 DEF UpsertFails
  <2> HIDE DEF y
  <2> QED
    BY <1>1, <1>2, <1>3, <2>1, OwnRetried
<1> QED
  BY <1>4, <1>5

\* A tenant wipe sends nothing and deletes no single row.
LEMMA OwnWhenWiped ==
  ASSUME SoloInv, NEW t \in Tasks,
         WipeNamespace(t) \/ NamespaceFails(t) \/ WipeRows(t)
  PROVE  Own(t)'
<1> DEFINE o == op[t]
           y == [o EXCEPT !.wrote = TRUE]
<1>1. Inv({}, {}) /\ TypeOK /\ o.pc \in {"namespace", "rows"} /\ Active(t)
  BY DEF WipeNamespace, NamespaceFails, WipeRows, SoloInv, Inv, Typed, Active, Waiting
<1>2. o \in Op /\ o.kind = "wipe"
  BY <1>1, WipeScope
<1>3. CASE WipeNamespace(t) \/ NamespaceFails(t)
  <2>1. \E z \in Op : \E pc : z.kind = "wipe" /\ Goto(t, z, pc)
    <3>1. y \in Op /\ y.kind = "wipe" /\ y.tries = o.tries
      BY <1>2 DEF Op
    <3>2. CASE Goto(t, y, "rows")
      BY <3>1, <3>2
    <3>3. CASE y.tries + 1 < MaxAttempts /\ Goto(t, [y EXCEPT !.tries = @ + 1], "namespace")
      <4> HIDE DEF y
      <4>1. [y EXCEPT !.tries = @ + 1] \in Op /\ [y EXCEPT !.tries = @ + 1].kind = "wipe"
        BY <3>1, <3>3, PageIndexAssumption DEF Op
      <4> QED
        BY <3>3, <4>1
    <3>4. CASE Goto(t, [y EXCEPT !.nsOk = FALSE], "rows")
      <4> HIDE DEF y
      <4>1. [y EXCEPT !.nsOk = FALSE] \in Op /\ [y EXCEPT !.nsOk = FALSE].kind = "wipe"
        BY <3>1 DEF Op
      <4> QED
        BY <3>4, <4>1
    <3> QED
      BY <1>3, <3>2, <3>3, <3>4 DEF WipeNamespace, NamespaceFails
  <2>2. PICK z \in Op : z.kind = "wipe" /\ \E pc : Goto(t, z, pc)
    BY <2>1
  <2>3. \E pc : op'[t] = [z EXCEPT !.pc = pc]
    BY <1>1, <2>2 DEF Goto, TypeOK
  <2>4. op'[t].kind = "wipe"
    BY <2>2, <2>3 DEF Op
  <2> QED
    BY <2>4 DEF Own, Sent, Removes
<1>4. CASE WipeRows(t)
  <2>1. op'[t].pc = "returned"
    BY <1>1, <1>4 DEF WipeRows, Return, Answered, TypeOK
  <2> QED
    BY <2>1 DEF Own, Active, Waiting
<1> QED
  BY <1>3, <1>4

\* What a step of a call accounts for.
LEMMA OwnNow ==
  ASSUME SoloInv, NEW t \in Tasks, Step(t) \/ Crash(t)
  PROVE  Own(t)'
<1>1. TypeOK
  BY DEF SoloInv, Inv, Typed
<1>2. CASE CommitIndex(t) \/ CommitConflict(t) \/ CommitDelete(t) \/ CommitFails(t)
  BY <1>1, <1>2, OwnEnded DEF CommitIndex, CommitConflict, CommitDelete, CommitFails
<1>3. CASE Crash(t)
  <2>1. op'[t] = Idle
    BY <1>1, <1>3 DEF Crash, TypeOK
  <2> QED
    BY <2>1 DEF Own, Active, Idle, Waiting
<1> QED
  BY <1>2, <1>3, OwnWhenListed, OwnWhenErased, OwnWhenEraseFails, OwnWhenEmbedded,
     OwnWhenUpserted, OwnWhenWiped DEF Step

-----------------------------------------------------------------------------
(* The account holds at every step.                                        *)

\* A call that begins has nothing to account for, but a delete its row.
LEMMA OwnStart ==
  ASSUME SoloInv, NEW t \in Tasks, Start(t), NEW u \in Tasks
  PROVE  Own(u)'
<1>1. Inv({}, {}) /\ TypeOK /\ Own(u)
  BY DEF SoloInv, Inv, Typed
<1>2. Active(u) => op[u] \in Op
  BY <1>1, ActiveType
<1>3. ASSUME NEW x, op' = [op EXCEPT ![t] = x], x.pc = "returned",
             UNCHANGED <<row, vecs, held, damaged>>
      PROVE  Own(u)'
  <2>1. CASE u = t
    BY <1>1, <1>3, <2>1 DEF TypeOK, Own, Active, Waiting
  <2>2. CASE u # t
    <3>1. op'[u] = op[u]
      BY <1>1, <1>3, <2>2 DEF TypeOK
    <3> QED
      BY <1>1, <1>2, <1>3, <3>1, OwnKept
  <2> QED
    BY <2>1, <2>2
<1>4. ASSUME NEW o \in Op, Enter(t, o), row' = row, vecs' = vecs,
             o.pc # "commit", o.kind = "delete" =>
               row[o.page] # None /\ ~o.wrote /\ o.pc = "list"
      PROVE  Own(u)'
  <2>1. CASE u = t
    <3>1. op'[t] = [o EXCEPT !.alone = (Rivals(t, o) = {})]
      BY <1>1, <1>4 DEF Enter, TypeOK
    <3>2. /\ op'[t].pc = o.pc /\ op'[t].kind = o.kind /\ op'[t].page = o.page
          /\ op'[t].wrote = o.wrote
      BY <3>1 DEF Op
    <3> QED
      BY <1>4, <2>1, <3>2 DEF Own, Sent, Removes
  <2>2. CASE u # t
    BY <1>4, <2>2, OwnWhenEntered
  <2> QED
    BY <2>1, <2>2
<1>5. ASSUME NEW p \in Pages, NEW v \in Versions, StartIndex(t, p, v)
      PROVE  Own(u)'
  <2> DEFINE o == Call("index", p, v, IF row[p] = None THEN "embed" ELSE "list",
                       row[p] # None)
  <2>1. o \in Op /\ o.kind = "index" /\ o.pc # "commit"
    BY PageIndexAssumption DEF Call, Op, Kinds, Waiting
  <2>2. Enter(t, o) /\ row' = row /\ vecs' = vecs
    BY <1>5 DEF StartIndex
  <2> HIDE DEF o
  <2> QED
    BY <1>4, <2>1, <2>2
<1>6. ASSUME NEW p \in Pages, StartDelete(t, p)
      PROVE  Own(u)'
  <2> DEFINE o == Call("delete", p, None, "list", TRUE)
  <2>1. o \in Op /\ o.page = p /\ o.pc = "list" /\ ~o.wrote
    BY PageIndexAssumption DEF Call, Op, Kinds, Waiting
  <2>2. Enter(t, o) /\ row' = row /\ vecs' = vecs /\ row[p] # None
    BY <1>6 DEF StartDelete
  <2> HIDE DEF o
  <2> QED
    BY <1>4, <2>1, <2>2
<1>7. CASE StartWipe(t)
  <2> DEFINE o == Call("wipe", None, None, "namespace", FALSE)
  <2>1. o \in Op /\ o.kind = "wipe" /\ o.pc = "namespace"
    BY PageIndexAssumption DEF Call, Op, Kinds, Waiting
  <2>2. Enter(t, o) /\ row' = row /\ vecs' = vecs
    BY <1>7 DEF StartWipe
  <2> HIDE DEF o
  <2> QED
    BY <1>4, <2>1, <2>2
<1>8. ASSUME NEW p \in Pages, NEW v \in Versions, SkipUnchanged(t, p, v)
      PROVE  Own(u)'
  BY <1>3, <1>8 DEF SkipUnchanged, Answered
<1>9. ASSUME NEW p \in Pages, DeleteNotFound(t, p)
      PROVE  Own(u)'
  BY <1>3, <1>9 DEF DeleteNotFound, Answered
<1> QED
  BY <1>5, <1>6, <1>7, <1>8, <1>9 DEF Start

\* Every step of the system keeps the invariant.
LEMMA SoloNext == SoloInv /\ [Next]_vars => SoloInv'
<1> SUFFICES ASSUME SoloInv, [Next]_vars
             PROVE  SoloInv'
  OBVIOUS
<1>1. Inv({}, {})' /\ TypeOK
  BY InvNext DEF SoloInv, IndexInv, Inv, Typed
<1>2. ASSUME NEW u \in Tasks
      PROVE  Own(u)'
  <2>1. ASSUME NEW t \in Tasks, Step(t) \/ Crash(t)
        PROVE  Own(u)'
    BY <2>1, OwnNow, OwnOfOthers
  <2>2. ASSUME NEW t \in Tasks, Start(t)
        PROVE  Own(u)'
    BY <2>2, OwnStart
  <2>3. Own(u) /\ (Active(u) => op[u] \in Op)
    BY <1>1, ActiveType DEF SoloInv
  <2>4. ASSUME NEW t \in Tasks, Respond(t)
        PROVE  Own(u)'
    <3>1. op'[t] = Idle /\ (u # t => op'[u] = op[u]) /\ UNCHANGED <<row, vecs, damaged>>
      BY <1>1, <2>4 DEF Respond, TypeOK
    <3>2. CASE u = t
      BY <3>1, <3>2 DEF Own, Active, Idle, Waiting
    <3>3. CASE u # t
      BY <1>1, <2>3, <3>1, <3>3, OwnKept
    <3> QED
      BY <3>2, <3>3
  <2>5. CASE UNCHANGED vars
    BY <1>1, <2>3, <2>5, OwnKept DEF vars
  <2> QED
    BY <2>1, <2>2, <2>4, <2>5 DEF Next
<1> QED
  BY <1>1, <1>2 DEF SoloInv

\* The empty index has no calls.
LEMMA SoloInit == Init => SoloInv
<1> SUFFICES ASSUME Init
             PROVE  SoloInv
  OBVIOUS
<1>1. \A t \in Tasks : ~Active(t)
  BY DEF Init, Active, Idle, Waiting
<1> QED
  BY <1>1, InvInit DEF SoloInv, Own

-----------------------------------------------------------------------------
(* What a call answers.                                                    *)

\* Only a call's own step makes it return.
LEMMA ReturnsItself ==
  ASSUME SoloInv, [Next]_vars, NEW t \in Tasks, Active(t), op'[t].pc = "returned"
  PROVE  Step(t)
<1>1. Inv({}, {}) /\ TypeOK
  BY DEF SoloInv, Inv, Typed
<1>2. op[t] \in Op /\ op[t].pc # "returned" /\ op[t].pc # "idle"
  BY <1>1, ActiveType DEF Active, Waiting
<1>3. ASSUME NEW u \in Tasks, Step(u) \/ Crash(u), u # t
      PROVE  FALSE
  BY <1>1, <1>2, <1>3, OutsideScope
<1>4. ASSUME Crash(t)
      PROVE  FALSE
  <2>1. op'[t] = Idle
    BY <1>1, <1>4 DEF Crash, TypeOK
  <2> QED
    BY <2>1 DEF Idle
<1>5. ASSUME NEW u \in Tasks, Respond(u)
      PROVE  FALSE
  BY <1>1, <1>2, <1>5 DEF Respond, Idle, TypeOK
<1>6. ASSUME NEW u \in Tasks, Start(u)
      PROVE  FALSE
  <2>0. op[u] = Idle
    BY <1>6 DEF Start, SkipUnchanged, StartIndex, DeleteNotFound, StartDelete, StartWipe
  <2>1. u # t
    BY <1>2, <2>0 DEF Idle
  <2>2. ASSUME NEW o, Enter(u, o)
        PROVE  FALSE
    <3>1. op'[t] = op[t] \/ op'[t] = [op[t] EXCEPT !.alone = FALSE]
      BY <2>1, <2>2 DEF Enter
    <3>2. op'[t].pc = op[t].pc
      BY <1>2, <3>1 DEF Op
    <3> QED
      BY <1>2, <3>2
  <2>3. ASSUME NEW x, op' = [op EXCEPT ![u] = x]
        PROVE  FALSE
    BY <1>1, <1>2, <2>1, <2>3 DEF TypeOK
  <2> QED
    BY <1>6, <2>2, <2>3 DEF Start, SkipUnchanged, StartIndex, DeleteNotFound,
                            StartDelete, StartWipe
<1>7. CASE UNCHANGED vars
  BY <1>2, <1>7 DEF vars
<1> QED
  BY <1>3, <1>4, <1>5, <1>6, <1>7 DEF Next

\* What a call that was alone answers is so.
LEMMA AnswerIsTrue ==
  ASSUME SoloInv, [Next]_vars, NEW t \in Tasks, Active(t), op[t].alone,
         op'[t].pc = "returned"
  PROVE  /\ op'[t].result = "indexed" =>
              LET p == op[t].page  v == op[t].ver
              IN  row'[p] = v /\ \A i \in 0..(Chunks[v] - 1) : vecs'[p][i] = v
         /\ op'[t].result \in {"deleted", "wiped"} =>
              \A p \in Scope(op[t]) : row'[p] = None /\ vecs'[p] = Blank
         /\ op'[t].result = "deleted" =>
              LET p == op[t].page
              IN  (op[t].tries = 0 /\ p \notin damaged) => op[t].removed = Chunks[row[p]]
         /\ op'[t].result = "wiped_rows_only" => \A p \in Pages : row'[p] = None
<1> DEFINE o == op[t]
<1>1. Inv({}, {}) /\ TypeOK /\ o \in Op /\ Sent(t) /\ Removes(t) /\ Scope(o) \subseteq Pages
  BY ActiveType, InFlight, ScopeType DEF SoloInv, Inv, Typed, Own
<1>2. ASSUME NEW p \in Scope(o)
      PROVE  p \in Pages /\ Emptied(t, p, {})
  <2>1. p \in Pages /\ Sole(t, p)
    BY <1>1, <1>2 DEF Sole, Touches
  <2> QED
    BY <1>1, <2>1, SoleProgress DEF Progress
<1>3. CASE CommitIndex(t)
  <2>1. op'[t].result = "indexed" /\ o.page \in Pages /\ o.kind = "index"
        /\ o.pc = "commit"
    <3>1. op'[t].result = "indexed" /\ o.kind = "index" /\ o.pc = "commit"
      BY <1>1, <1>3 DEF CommitIndex, Return, Answered, TypeOK
    <3> QED
      BY <1>1, <3>1, InFlight DEF Inv, Follows
  <2>2. row'[o.page] = o.ver /\ vecs' = vecs
    BY <1>1, <1>3, <2>1 DEF CommitIndex, TypeOK
  <2> QED
    BY <1>1, <2>1, <2>2 DEF Sent
<1>4. CASE CommitDelete(t)
  <2>1. op'[t].result = "deleted" /\ o.kind = "delete" /\ o.pc = "commit"
    BY <1>1, <1>4 DEF CommitDelete, Return, Answered, TypeOK
  <2>2. row' = [p \in Pages |-> IF p \in held[t] THEN None ELSE row[p]] /\ vecs' = vecs
    BY <1>4 DEF CommitDelete
  <2>3. \A p \in Scope(o) : row'[p] = None /\ vecs'[p] = Blank
    BY <1>2, <2>1, <2>2 DEF Emptied
  <2>4. (o.tries = 0 /\ o.page \notin damaged) => o.removed = Chunks[row[o.page]]
    BY <1>1, <2>1 DEF Removes
  <2> QED
    BY <2>1, <2>3, <2>4
<1>5. CASE WipeRows(t)
  <2>1. row' = [p \in Pages |-> None] /\ vecs' = vecs /\ o.pc = "rows"
    BY <1>5 DEF WipeRows
  <2>2. op'[t].result = IF o.nsOk THEN "wiped" ELSE "wiped_rows_only"
    BY <1>1, <1>5 DEF WipeRows, Return, Answered, TypeOK
  <2>3. o.nsOk => \A p \in Scope(o) : vecs'[p] = Blank
    BY <1>2, <2>1 DEF Emptied
  <2> QED
    BY <1>1, <2>1, <2>2, <2>3
<1>6. CASE op'[t].result = "failed"
  BY <1>6
<1> QED
  <2>1. Step(t)
    BY ReturnsItself
  <2>2. ~Active(t)' /\ TypeOK /\ Active(t)
    BY DEF Active, Waiting, SoloInv, Inv, Typed
  <2> QED
    BY <1>1, <1>3, <1>4, <1>5, <1>6, <2>1, <2>2, StepEnds DEF GoesOn, HasFailed

(* A handler that nothing overlapped answers the truth, whatever earlier   *)
(* calls, failures and crashes left behind: "indexed" means that the row   *)
(* and every chunk of the version are there, "deleted" and "wiped" that    *)
(* neither store has anything of the pages, the vectors_deleted of a first *)
(* attempt on a page in step is the number of the chunks of its row, and a *)
(* wipe without its namespace has deleted every row.                       *)
THEOREM AnswersAreTrue == Spec => SoloAnswersTrue
<1> DEFINE True(t) ==
       /\ Returns(t, {"indexed"}) =>
            LET p == op[t].page  v == op[t].ver
            IN  row'[p] = v /\ \A i \in 0..(Chunks[v] - 1) : vecs'[p][i] = v
       /\ Returns(t, {"deleted", "wiped"}) =>
            \A p \in Scope(op[t]) : row'[p] = None /\ vecs'[p] = Blank
       /\ Returns(t, {"deleted"}) =>
            LET p == op[t].page
            IN  (op[t].tries = 0 /\ p \notin damaged) => op[t].removed = Chunks[row[p]]
       /\ Returns(t, {"wiped_rows_only"}) => \A p \in Pages : row'[p] = None
<1>1. SoloInv /\ [Next]_vars => [\A t \in Tasks : True(t)]_vars
  <2> SUFFICES ASSUME SoloInv, [Next]_vars, NEW t \in Tasks
               PROVE  True(t)
    OBVIOUS
  <2>1. CASE Active(t) /\ op[t].alone /\ op'[t].pc = "returned"
    BY <2>1, AnswerIsTrue DEF Returns
  <2>2. CASE ~(Active(t) /\ op[t].alone /\ op'[t].pc = "returned")
    BY <2>2 DEF Returns
  <2> QED
    BY <2>1, <2>2
<1>2. Spec => [][\A t \in Tasks : True(t)]_vars
  BY <1>1, SoloInit, SoloNext, PTL DEF Spec
<1> QED
  BY <1>2 DEF SoloAnswersTrue

=============================================================================
