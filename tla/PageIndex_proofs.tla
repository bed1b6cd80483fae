-------------------------- MODULE PageIndex_proofs --------------------------
(***************************************************************************)
(* Proofs about PageIndex, for any tasks, pages, versions, batch size and  *)
(* number of attempts: its type invariant, and that the two stores agree   *)
(* on every quiet page that no overlap and no failure has damaged.         *)
(***************************************************************************)
EXTENDS PageIndex, FiniteSetTheorems, TLAPS

-----------------------------------------------------------------------------
(* The inductive invariant.  A call has p to itself when nothing overlaps  *)
(* it on p, or when what overlapped it spared p; how far the call has come *)
(* then tells what the vectors of p are.                                   *)
(*                                                                         *)
(* For the use of bulk runs, which commit a removal of many pages once,    *)
(* the invariant is stated for a set M of pages that may be without their  *)
(* vectors and still have their row, and a set B of tasks whose session    *)
(* holds more than the page they are at.  PageIndex by itself has neither. *)
Touches(t, p) == Active(t) /\ p \in Scope(op[t])

Sole(t, p) == Touches(t, p) /\ (op[t].alone \/ p \notin damaged)

\* Old vectors of p are gone or were never there.
Cleared(o, p) == o.existing \/ p \notin damaged

Even(p, M) == Exact(p) \/ (p \in M /\ vecs[p] = Blank)

Untouched(t, p, M) == (p \notin damaged /\ ~op[t].wrote) => Even(p, M)

ListsAll(t, p) == op[t].pc = "erase" => Occupied(p) \subseteq op[t].ids

Built(t, p) ==
  /\ op[t].pc = "embed" /\ Cleared(op[t], p) => vecs[p] = Blank
  /\ op[t].pc = "upsert" /\ Cleared(op[t], p) => vecs[p] \in {Blank, Contents(op[t].ver)}
  /\ op[t].pc = "commit" /\ op[t].kind = "index" /\ Cleared(op[t], p)
       => vecs[p] = Contents(op[t].ver)

Emptied(t, p, B) ==
  /\ op[t].kind = "delete" /\ t \notin B => p \in held[t] \/ row[p] = None
  /\ op[t].pc = "commit" /\ op[t].kind = "delete" => vecs[p] = Blank
  /\ op[t].pc = "rows" /\ op[t].nsOk => vecs[p] = Blank

Progress(t, p, M, B) ==
  Untouched(t, p, M) /\ ListsAll(t, p) /\ Built(t, p) /\ Emptied(t, p, B)

\* A call's steps are those of its handler.
Follows(o) ==
  /\ o.pc \in {"embed", "upsert"} => o.kind = "index"
  /\ o.pc \in {"namespace", "rows"} <=> o.kind = "wipe"
  /\ o.kind = "index" => o.ver \in Versions
  /\ o.kind # "wipe" => o.page \in Pages

Shape == \A t \in Tasks : Active(t) => Follows(op[t])

Typed == TypeOK /\ Shape

Alone == \A t, u \in Tasks, p \in Pages : Sole(t, p) /\ Touches(u, p) => u = t

InProgress(M, B) ==
  \A t \in Tasks, p \in Pages : Sole(t, p) => Progress(t, p, M, B)

\* A delete's session holds the row of its page and no other.
Holds(t, B) ==
  Active(t) /\ op[t].kind = "delete" /\ t \notin B => held[t] \subseteq {op[t].page}

QuietEven(M) == \A p \in Pages \ damaged : Quiet(p) => Even(p, M)

Inv(M, B) ==
  /\ Typed /\ Alone /\ InProgress(M, B) /\ QuietEven(M)
  /\ \A t \in Tasks : Holds(t, B)

-----------------------------------------------------------------------------
(* Types                                                                   *)

\* A task with a call in flight has the whole record of a call.
LEMMA ActiveType ==
  ASSUME TypeOK, NEW t \in Tasks, Active(t)
  PROVE  op[t] \in Op
BY DEF TypeOK, Active, Op, Answer, Idle, Waiting

\* The listed ids of a page are finitely many, MaxChunks at most.
LEMMA ChunksFit ==
  /\ Slots \subseteq Nat
  /\ IsFiniteSet(Slots)
  /\ \A T \in SUBSET Slots : Cardinality(T) \in 0..MaxChunks
<1> USE PageIndexAssumption
<1>1. IsFiniteSet(Slots) /\ Cardinality(Slots) = MaxChunks
  BY FS_Interval DEF Slots
<1>2. ASSUME NEW T \in SUBSET Slots
      PROVE  Cardinality(T) \in 0..MaxChunks
  BY <1>1, FS_Subset, FS_CardinalityType
<1> QED
  BY <1>1, <1>2 DEF Slots

\* A page without vectors.
LEMMA BlankType == Blank \in [Slots -> Versions \cup {None}]
BY DEF Blank

\* A page with one version's vectors.
LEMMA ContentsType ==
  ASSUME NEW v \in Versions
  PROVE  Contents(v) \in [Slots -> Versions \cup {None}]
BY DEF Contents

\* The empty index has its type.
LEMMA InitType == Init => TypeOK
BY BlankType DEF Init, TypeOK

\* A call works on pages.
LEMMA ScopeType ==
  ASSUME NEW o \in Op, Follows(o)
  PROVE  Scope(o) \subseteq Pages
BY DEF Scope, Follows, Op

\* What an action has to show of the task that takes it.
LEMMA StepTyped ==
  ASSUME Typed, NEW t \in Tasks, NEW x \in Op \cup Answer \cup {Idle},
         op' = [op EXCEPT ![t] = x],
         row' \in [Pages -> Versions \cup {None}],
         vecs' \in [Pages -> [Slots -> Versions \cup {None}]],
         damaged' \subseteq Pages,
         held' \in [Tasks -> SUBSET Pages],
         Active(t)' => Follows(op[t])'
  PROVE  Typed'
<1>1. TypeOK'
  BY DEF Typed, TypeOK
<1>2. ASSUME NEW u \in Tasks, u # t
      PROVE  Active(u)' => Follows(op[u])'
  <2>1. op'[u] = op[u]
    BY <1>2 DEF Typed, TypeOK
  <2> QED
    BY <2>1 DEF Typed, Shape, Active
<1> QED
  BY <1>1, <1>2 DEF Typed, Shape

\* A call that begins, and those it overlaps, keep their types.
LEMMA EnterTyped ==
  ASSUME Typed, NEW t \in Tasks, NEW o \in Op, Follows(o), Enter(t, o),
         row' = row, vecs' = vecs, held' \in [Tasks -> SUBSET Pages]
  PROVE  Typed'
<1>1. Scope(o) \subseteq Pages
  BY ScopeType
<1>2. [o EXCEPT !.alone = (Rivals(t, o) = {})] \in Op
  BY DEF Op
<1>3. ASSUME NEW u \in Rivals(t, o)
      PROVE  /\ u \in Tasks /\ Active(u) /\ op[u] \in Op
             /\ [op[u] EXCEPT !.alone = FALSE] \in Op
  BY <1>3, ActiveType DEF Rivals, Op, Typed
<1>4. TypeOK'
  BY <1>1, <1>2, <1>3 DEF Enter, TypeOK, Typed
<1>5. Follows(op[t])'
  <2>1. op'[t] = [o EXCEPT !.alone = (Rivals(t, o) = {})]
    BY DEF Enter, Typed, TypeOK
  <2> QED
    BY <2>1 DEF Follows, Op
<1>6. ASSUME NEW u \in Tasks, u # t, Active(u)'
      PROVE  Follows(op[u])'
  <2>1. CASE u \in Rivals(t, o)
    <3>1. op'[u] = [op[u] EXCEPT !.alone = FALSE]
      BY <1>6, <2>1 DEF Enter
    <3>2. op[u] \in Op /\ Follows(op[u])
      BY <1>3, <2>1 DEF Typed, Shape
    <3> QED
      BY <3>1, <3>2 DEF Follows, Op
  <2>2. CASE u \notin Rivals(t, o)
    <3>1. op'[u] = op[u]
      BY <1>6, <2>2 DEF Enter
    <3> QED
      BY <1>6, <3>1 DEF Typed, Shape, Active
  <2> QED
    BY <2>1, <2>2
<1> QED
  BY <1>4, <1>5, <1>6 DEF Typed, Shape

\* So does a call that goes on.
LEMMA GotoTyped ==
  ASSUME Typed, NEW t \in Tasks, NEW o \in Op, NEW pc \in Waiting, Goto(t, o, pc),
         row' = row, vecs' \in [Pages -> [Slots -> Versions \cup {None}]],
         held' = held, Follows([o EXCEPT !.pc = pc])
  PROVE  Typed'
<1> DEFINE x == [o EXCEPT !.pc = pc]
<1>1. x \in Op /\ Follows(x)
  BY DEF Op
<1>2. op' = [op EXCEPT ![t] = x] /\ op'[t] = x /\ damaged' = damaged
  BY DEF Goto, Typed, TypeOK
<1> HIDE DEF x
<1> QED
  BY <1>1, <1>2, StepTyped DEF Typed, TypeOK

\* So does a task whose call has ended.
LEMMA AnswerTyped ==
  ASSUME Typed, NEW t \in Tasks, NEW x \in Answer \cup {Idle},
         op' = [op EXCEPT ![t] = x],
         row' \in [Pages -> Versions \cup {None}],
         vecs' \in [Pages -> [Slots -> Versions \cup {None}]],
         damaged' \subseteq Pages,
         held' \in [Tasks -> SUBSET Pages]
  PROVE  Typed'
<1>1. op'[t] = x /\ x.pc \notin Waiting
  BY DEF Typed, TypeOK, Answer, Idle, Waiting
<1> QED
  BY <1>1, StepTyped DEF Active

\* So does a call that raises.
LEMMA RaiseTyped ==
  ASSUME Typed, NEW t \in Tasks, NEW o \in Op, Follows(o), Raise(t, o),
         row' = row, vecs' \in [Pages -> [Slots -> Versions \cup {None}]]
  PROVE  Typed'
<1>1. Scope(o) \subseteq Pages
  BY ScopeType
<1>2. Answered(o.kind, o.page, "failed") \in Answer
  BY DEF Op, Answered, Answer, Results
<1>3. damaged' \subseteq Pages
  BY <1>1 DEF Raise, Typed, TypeOK
<1> QED
  BY <1>2, <1>3, AnswerTyped DEF Raise, Typed, TypeOK

\* So does a Pinecone call that is made again: its tries stay bounded.
LEMMA RetryTyped ==
  ASSUME Typed, NEW t \in Tasks, NEW o \in Op, NEW pc \in Waiting,
         RetryFrom(t, o, pc), Follows(o), Follows([o EXCEPT !.pc = pc]),
         row' = row, vecs' \in [Pages -> [Slots -> Versions \cup {None}]]
  PROVE  Typed'
<1>1. CASE o.tries + 1 < MaxAttempts
  <2> DEFINE y == [o EXCEPT !.tries = @ + 1]
  <2>1. y \in Op /\ Scope(y) = Scope(o)
    BY <1>1, PageIndexAssumption DEF Op, Scope
  <2>2. Follows([y EXCEPT !.pc = pc])
    BY DEF Follows, Op
  <2>3. Goto(t, y, pc) /\ held' = held
    BY <1>1 DEF RetryFrom
  <2> HIDE DEF y
  <2> QED
    BY <2>1, <2>2, <2>3, GotoTyped
<1>2. CASE ~(o.tries + 1 < MaxAttempts)
  BY <1>2, RaiseTyped DEF RetryFrom
<1> QED
  BY <1>1, <1>2

-----------------------------------------------------------------------------
(* Every action keeps the types.                                           *)

\* An upsert writes vectors of the version at hand.
LEMMA UpsertedType ==
  ASSUME TypeOK, NEW t \in Tasks, op[t].ver \in Versions
  PROVE  Upserted(t) \in [Pages -> [Slots -> Versions \cup {None}]]
BY DEF Upserted, TypeOK

\* A delete leaves the remaining vectors.
LEMMA ErasedType ==
  ASSUME TypeOK, NEW t \in Tasks, NEW b
  PROVE  Erased(t, b) \in [Pages -> [Slots -> Versions \cup {None}]]
BY DEF Erased, TypeOK

\* The call in flight that a step of t starts from.
LEMMA InFlight ==
  ASSUME Typed, NEW t \in Tasks, Active(t)
  PROVE  op[t] \in Op /\ Follows(op[t])
BY ActiveType DEF Typed, Shape

\* index_single_page begins.
LEMMA IndexTyped ==
  ASSUME Typed, NEW t \in Tasks, NEW p \in Pages, NEW v \in Versions,
         SkipUnchanged(t, p, v) \/ StartIndex(t, p, v)
  PROVE  Typed'
<1>1. CASE SkipUnchanged(t, p, v)
  <2>1. Answered("index", p, "unchanged") \in Answer
    BY DEF Answered, Answer, Kinds, Results
  <2> QED
    BY <1>1, <2>1, AnswerTyped DEF SkipUnchanged, Typed, TypeOK
<1>2. CASE StartIndex(t, p, v)
  <2> DEFINE o == Call("index", p, v, IF row[p] = None THEN "embed" ELSE "list",
                       row[p] # None)
  <2>1. o \in Op /\ Follows(o) /\ Scope(o) = {p}
    BY PageIndexAssumption DEF Call, Op, Kinds, Waiting, Follows, Scope
  <2>2. Enter(t, o) /\ row' = row /\ vecs' = vecs
    BY <1>2 DEF StartIndex
  <2>3. held' \in [Tasks -> SUBSET Pages]
    BY <1>2 DEF StartIndex, Typed, TypeOK
  <2> HIDE DEF o
  <2> QED
    BY <2>1, <2>2, <2>3, EnterTyped
<1> QED
  BY <1>1, <1>2

\* delete_page_index begins.
LEMMA DeleteTyped ==
  ASSUME Typed, NEW t \in Tasks, NEW p \in Pages,
         DeleteNotFound(t, p) \/ StartDelete(t, p)
  PROVE  Typed'
<1>1. CASE DeleteNotFound(t, p)
  <2>1. Answered("delete", p, "not_found") \in Answer
    BY DEF Answered, Answer, Kinds, Results
  <2> QED
    BY <1>1, <2>1, AnswerTyped DEF DeleteNotFound, Typed, TypeOK
<1>2. CASE StartDelete(t, p)
  <2> DEFINE o == Call("delete", p, None, "list", TRUE)
  <2>1. o \in Op /\ Follows(o) /\ Scope(o) = {p}
    BY PageIndexAssumption DEF Call, Op, Kinds, Waiting, Follows, Scope
  <2>2. Enter(t, o) /\ row' = row /\ vecs' = vecs /\ held' \in [Tasks -> SUBSET Pages]
    BY <1>2 DEF StartDelete, Typed, TypeOK
  <2> HIDE DEF o
  <2> QED
    BY <2>1, <2>2, EnterTyped
<1> QED
  BY <1>1, <1>2

\* Any handler begins.
LEMMA StartTyped ==
  ASSUME Typed, NEW t \in Tasks, Start(t)
  PROVE  Typed'
<1>1. CASE StartWipe(t)
  <2> DEFINE o == Call("wipe", None, None, "namespace", FALSE)
  <2>1. o \in Op /\ Follows(o)
    BY PageIndexAssumption DEF Call, Op, Kinds, Waiting, Follows
  <2>2. Enter(t, o) /\ row' = row /\ vecs' = vecs /\ held' \in [Tasks -> SUBSET Pages]
    BY <1>1 DEF StartWipe, Typed, TypeOK
  <2> HIDE DEF o
  <2> QED
    BY <2>1, <2>2, EnterTyped
<1> QED
  BY <1>1, IndexTyped, DeleteTyped DEF Start

\* A handler makes a step.
LEMMA StepIsTyped ==
  ASSUME Typed, NEW t \in Tasks, Step(t)
  PROVE  Typed'
<1> DEFINE o == op[t]
<1>0. Active(t)
  BY DEF Step, ListVectors, EraseBatch, EraseFails, CallOpenAI, OpenAIFails, Upsert,
         UpsertFails, CommitIndex, CommitConflict, CommitDelete, CommitFails,
         WipeNamespace, NamespaceFails, WipeRows, Active, Waiting
<1>1. o \in Op /\ Follows(o)
  BY <1>0, InFlight
<1>2. /\ row \in [Pages -> Versions \cup {None}]
      /\ vecs \in [Pages -> [Slots -> Versions \cup {None}]]
      /\ TypeOK
  BY DEF Typed, TypeOK
<1>3. CASE ListVectors(t)
  <2> DEFINE found == Occupied(o.page)
             y == [o EXCEPT !.ids = found,
                     !.removed = IF o.kind = "delete" THEN Cardinality(found) ELSE 0]
  <2>1. found \subseteq Slots
    BY DEF Occupied
  <2>2. Cardinality(found) \in 0..MaxChunks /\ 0 \in 0..MaxChunks
    BY <2>1, ChunksFit, PageIndexAssumption
  <2>3. y \in Op /\ Scope(y) = Scope(o)
    BY <1>1, <2>1, <2>2 DEF Op, Scope
  <2>4. y.kind = o.kind /\ y.page = o.page /\ y.ver = o.ver
    BY <1>1 DEF Op
  <2>5. Goto(t, y, IF found = {} THEN AfterErase(y) ELSE "erase")
        /\ UNCHANGED <<row, vecs, held>> /\ o.pc = "list"
    BY <1>3 DEF ListVectors
  <2> HIDE DEF y, found
  <2>6. Follows([y EXCEPT !.pc = IF found = {} THEN AfterErase(y) ELSE "erase"])
        /\ (IF found = {} THEN AfterErase(y) ELSE "erase") \in Waiting
    BY <1>1, <2>3, <2>4, <2>5 DEF Follows, Op, AfterErase, Waiting, Kinds
  <2> QED
    BY <1>1, <1>2, <2>3, <2>5, <2>6, GotoTyped
<1>4. CASE EraseBatch(t)
  <2>1. PICK b \in Batches(o.ids) :
          /\ vecs' = Erased(t, b)
          /\ LET y == [op[t] EXCEPT !.ids = Remaining(@, b), !.wrote = TRUE]
             IN  Goto(t, y, IF y.ids = {} THEN AfterErase(y) ELSE "erase")
    BY <1>4 DEF EraseBatch
  <2> DEFINE y == [o EXCEPT !.ids = Remaining(@, b), !.wrote = TRUE]
  <2>2. y \in Op /\ Scope(y) = Scope(o)
    BY <1>1 DEF Op, Scope, Remaining
  <2>3. y.kind = o.kind /\ y.page = o.page /\ y.ver = o.ver
    BY <1>1 DEF Op
  <2>4. Goto(t, y, IF y.ids = {} THEN AfterErase(y) ELSE "erase")
        /\ UNCHANGED <<row, held>> /\ o.pc = "erase"
    BY <1>4, <2>1 DEF EraseBatch
  <2> HIDE DEF y
  <2>5. Follows([y EXCEPT !.pc = IF y.ids = {} THEN AfterErase(y) ELSE "erase"])
        /\ (IF y.ids = {} THEN AfterErase(y) ELSE "erase") \in Waiting
    BY <1>1, <2>2, <2>3, <2>4 DEF Follows, Op, AfterErase, Waiting, Kinds
  <2> QED
    BY <1>1, <1>2, <2>1, <2>2, <2>4, <2>5, ErasedType, GotoTyped
<1>5. CASE EraseFails(t)
  <2>1. \E w \in BOOLEAN : RetryFrom(t, [o EXCEPT !.ids = {}, !.wrote = w], "list")
    <3>1. [o EXCEPT !.ids = {}] = [o EXCEPT !.ids = {}, !.wrote = o.wrote]
          /\ o.wrote \in BOOLEAN
      BY <1>1 DEF Op
    <3>2. CASE RetryFrom(t, [o EXCEPT !.ids = {}], "list")
      BY <3>1, <3>2
    <3>3. CASE RetryFrom(t, [o EXCEPT !.ids = {}, !.wrote = TRUE], "list")
      BY <3>3
    <3> QED
      BY <1>5, <3>2, <3>3 DEF EraseFails
  <2>2. PICK w \in BOOLEAN : RetryFrom(t, [o EXCEPT !.ids = {}, !.wrote = w], "list")
    BY <2>1
  <2> DEFINE y == [o EXCEPT !.ids = {}, !.wrote = w]
  <2>3. y \in Op /\ Scope(y) = Scope(o) /\ y.pc = o.pc
        /\ y.kind = o.kind /\ y.page = o.page /\ y.ver = o.ver
    BY <1>1 DEF Op, Scope
  <2> HIDE DEF y
  <2>4. Follows(y) /\ Follows([y EXCEPT !.pc = "list"]) /\ "list" \in Waiting
    BY <1>1, <1>5, <2>3 DEF Follows, Op, Waiting, EraseFails
  <2>5. row' = row /\ vecs' \in [Pages -> [Slots -> Versions \cup {None}]]
    BY <1>2, <1>5, ErasedType DEF EraseFails
  <2>6. RetryFrom(t, y, "list")
    BY <2>2 DEF y
  <2> QED
    BY <1>1, <2>3, <2>4, <2>5, <2>6, RetryTyped
<1>6. CASE CallOpenAI(t)
  <2> DEFINE y == [o EXCEPT !.tries = 0]
  <2>1. y \in Op /\ Scope(y) = Scope(o) /\ y.kind = o.kind /\ y.page = o.page
        /\ y.ver = o.ver
    BY <1>1, PageIndexAssumption DEF Op, Scope
  <2>2. Goto(t, y, "upsert") /\ UNCHANGED <<row, vecs, held>> /\ o.pc = "embed"
    BY <1>6 DEF CallOpenAI
  <2> HIDE DEF y
  <2>3. Follows([y EXCEPT !.pc = "upsert"]) /\ "upsert" \in Waiting
    BY <1>1, <2>1, <2>2 DEF Follows, Op, Waiting
  <2> QED
    BY <1>1, <1>2, <2>1, <2>2, <2>3, GotoTyped
<1>7. CASE OpenAIFails(t)
  BY <1>1, <1>2, <1>7, RaiseTyped DEF OpenAIFails
<1>8. CASE Upsert(t)
  <2> DEFINE y == [o EXCEPT !.wrote = TRUE]
  <2>1. y \in Op /\ Scope(y) = Scope(o) /\ y.kind = o.kind /\ y.page = o.page
        /\ y.ver = o.ver
    BY <1>1 DEF Op, Scope
  <2>2. Goto(t, y, "commit") /\ UNCHANGED <<row, held>> /\ o.pc = "upsert"
    BY <1>8 DEF Upsert
  <2> HIDE DEF y
  <2>3. Follows([y EXCEPT !.pc = "commit"]) /\ "commit" \in Waiting
    BY <1>1, <2>1, <2>2 DEF Follows, Op, Waiting
  <2>4. vecs' \in [Pages -> [Slots -> Versions \cup {None}]]
    BY <1>1, <1>2, <1>8, <2>2, UpsertedType DEF Upsert, Follows
  <2> QED
    BY <1>1, <1>2, <2>1, <2>2, <2>3, <2>4, GotoTyped
<1>9. CASE UpsertFails(t)
  <2>1. \E w \in BOOLEAN : RetryFrom(t, [o EXCEPT !.wrote = w], "upsert")
    <3>1. o = [o EXCEPT !.wrote = o.wrote] /\ o.wrote \in BOOLEAN
      BY <1>1 DEF Op
    <3>2. CASE RetryFrom(t, o, "upsert")
      BY <3>1, <3>2
    <3>3. CASE RetryFrom(t, [o EXCEPT !.wrote = TRUE], "upsert")
      BY <3>3
    <3> QED
      BY <1>9, <3>2, <3>3 DEF UpsertFails
  <2>2. PICK w \in BOOLEAN : RetryFrom(t, [o EXCEPT !.wrote = w], "upsert")
    BY <2>1
  <2> DEFINE y == [o EXCEPT !.wrote = w]
  <2>3. y \in Op /\ Scope(y) = Scope(o) /\ y.pc = o.pc
        /\ y.kind = o.kind /\ y.page = o.page /\ y.ver = o.ver
    BY <1>1 DEF Op, Scope
  <2> HIDE DEF y
  <2>4. Follows(y) /\ Follows([y EXCEPT !.pc = "upsert"]) /\ "upsert" \in Waiting
    BY <1>1, <1>9, <2>3 DEF Follows, Op, Waiting, UpsertFails
  <2>5. row' = row /\ vecs' \in [Pages -> [Slots -> Versions \cup {None}]]
    BY <1>1, <1>2, <1>9, UpsertedType DEF UpsertFails, Follows
  <2>6. RetryFrom(t, y, "upsert")
    BY <2>2 DEF y
  <2> QED
    BY <1>1, <2>3, <2>4, <2>5, <2>6, RetryTyped
<1>10. CASE CommitIndex(t)
  <2>1. Answered(o.kind, o.page, "indexed") \in Answer
    BY <1>1 DEF Op, Answered, Answer, Results
  <2>2. damaged' \subseteq Pages
    BY <1>2, <1>10 DEF CommitIndex, Return, TypeOK
  <2>3. row' \in [Pages -> Versions \cup {None}]
    BY <1>1, <1>2, <1>10 DEF CommitIndex, Follows
  <2>4. held' = [held EXCEPT ![t] = {}] /\ vecs' = vecs
        /\ op' = [op EXCEPT ![t] = Answered(o.kind, o.page, "indexed")]
    BY <1>10 DEF CommitIndex, Return
  <2> QED
    BY <1>2, <2>1, <2>2, <2>3, <2>4, AnswerTyped DEF TypeOK
<1>11. CASE CommitConflict(t)
  BY <1>1, <1>2, <1>11, RaiseTyped DEF CommitConflict
<1>12. CASE CommitDelete(t)
  <2>1. Answered(o.kind, o.page, "deleted") \in Answer
    BY <1>1 DEF Op, Answered, Answer, Results
  <2>2. damaged' \subseteq Pages
    BY <1>2, <1>12 DEF CommitDelete, Return, TypeOK
  <2>3. row' \in [Pages -> Versions \cup {None}]
    BY <1>2, <1>12 DEF CommitDelete
  <2>4. held' = [u \in Tasks |-> held[u] \ held[t]] /\ vecs' = vecs
        /\ op' = [op EXCEPT ![t] = Answered(o.kind, o.page, "deleted")]
    BY <1>12 DEF CommitDelete, Return
  <2>5. held' \in [Tasks -> SUBSET Pages] 
    BY <1>2, <2>4 DEF TypeOK
  <2> QED
    BY <1>2, <2>1, <2>2, <2>3, <2>4, <2>5, AnswerTyped
<1>13. CASE CommitFails(t)
  BY <1>1, <1>2, <1>13, RaiseTyped DEF CommitFails
<1>14. CASE WipeNamespace(t)
  <2> DEFINE y == [o EXCEPT !.wrote = TRUE]
  <2>1. y \in Op /\ Scope(y) = Scope(o) /\ y.kind = o.kind /\ y.page = o.page
        /\ y.ver = o.ver
    BY <1>1 DEF Op, Scope
  <2>2. Goto(t, y, "rows") /\ UNCHANGED <<row, held>> /\ o.pc = "namespace"
    BY <1>14 DEF WipeNamespace
  <2> HIDE DEF y
  <2>3. Follows([y EXCEPT !.pc = "rows"]) /\ "rows" \in Waiting
    BY <1>1, <2>1, <2>2 DEF Follows, Op, Waiting
  <2>4. vecs' \in [Pages -> [Slots -> Versions \cup {None}]]
    BY <1>14, BlankType DEF WipeNamespace
  <2> QED
    BY <1>1, <1>2, <2>1, <2>2, <2>3, <2>4, GotoTyped
<1>15. CASE NamespaceFails(t)
  <2>1. vecs' \in [Pages -> [Slots -> Versions \cup {None}]] /\ o.pc = "namespace"
        /\ UNCHANGED <<row, held>>
    BY <1>2, <1>15, BlankType DEF NamespaceFails
  <2>2. \/ /\ o.tries + 1 < MaxAttempts
           /\ Goto(t, [[o EXCEPT !.wrote = TRUE] EXCEPT !.tries = @ + 1], "namespace")
        \/ Goto(t, [[o EXCEPT !.wrote = TRUE] EXCEPT !.nsOk = FALSE], "rows")
    BY <1>15 DEF NamespaceFails
  <2>3. CASE Goto(t, [[o EXCEPT !.wrote = TRUE] EXCEPT !.nsOk = FALSE], "rows")
    <3> DEFINE y == [[o EXCEPT !.wrote = TRUE] EXCEPT !.nsOk = FALSE]
    <3>1. y \in Op /\ Scope(y) = Scope(o) /\ y.kind = o.kind /\ y.page = o.page
          /\ y.ver = o.ver
      BY <1>1 DEF Op, Scope
    <3> HIDE DEF y
    <3>2. Follows([y EXCEPT !.pc = "rows"]) /\ "rows" \in Waiting
      BY <1>1, <2>1, <3>1 DEF Follows, Op, Waiting
    <3>3. Goto(t, y, "rows")
      BY <2>3 DEF y
    <3> QED
      BY <1>1, <2>1, <3>1, <3>2, <3>3, GotoTyped
  <2>4. CASE /\ o.tries + 1 < MaxAttempts
             /\ Goto(t, [[o EXCEPT !.wrote = TRUE] EXCEPT !.tries = @ + 1], "namespace")
    <3> DEFINE z == [o EXCEPT !.wrote = TRUE]
               y == [z EXCEPT !.tries = @ + 1]
    <3>0. z \in Op /\ Scope(z) = Scope(o) /\ z.kind = o.kind /\ z.page = o.page
          /\ z.ver = o.ver /\ z.tries = o.tries
      BY <1>1 DEF Op, Scope
    <3> HIDE DEF z
    <3>a. z.tries + 1 \in 0..(MaxAttempts - 1)
      BY <2>4, <3>0, PageIndexAssumption DEF Op
    <3>1. y \in Op /\ Scope(y) = Scope(o) /\ y.kind = o.kind /\ y.page = o.page
          /\ y.ver = o.ver
      BY <3>0, <3>a DEF Op, Scope
    <3> HIDE DEF y
    <3>2. Follows([y EXCEPT !.pc = "namespace"]) /\ "namespace" \in Waiting
      BY <1>1, <2>1, <3>1 DEF Follows, Op, Waiting
    <3>3. Goto(t, y, "namespace")
      BY <2>4 DEF y, z
    <3> QED
      BY <1>1, <2>1, <3>1, <3>2, <3>3, GotoTyped
  <2> QED
    BY <2>2, <2>3, <2>4
<1>16. CASE WipeRows(t)
  <2>1. \/ op' = [op EXCEPT ![t] = Answered(o.kind, o.page, "wiped")]
        \/ op' = [op EXCEPT ![t] = Answered("wipe", None, "wiped_rows_only")]
    BY <1>16 DEF WipeRows, Return
  <2>2. /\ Answered(o.kind, o.page, "wiped") \in Answer
        /\ Answered("wipe", None, "wiped_rows_only") \in Answer
    BY <1>1 DEF Op, Answered, Answer, Results, Kinds
  <2>3. damaged' \subseteq Pages
    BY <1>2, <1>16 DEF WipeRows, Return, TypeOK
  <2>4. held' = [u \in Tasks |-> {}] /\ vecs' = vecs /\ row' = [p \in Pages |-> None]
    BY <1>16 DEF WipeRows
  <2> QED
    BY <1>2, <2>1, <2>2, <2>3, <2>4, AnswerTyped
<1> QED
  BY <1>3, <1>4, <1>5, <1>6, <1>7, <1>8, <1>9, <1>10, <1>11, <1>12, <1>13, <1>14,
     <1>15, <1>16 DEF Step

\* Every step of the system keeps the types.
LEMMA TypedNext == Typed /\ [Next]_vars => Typed'
<1> SUFFICES ASSUME Typed, [Next]_vars
             PROVE  Typed'
  OBVIOUS
<1>1. ASSUME NEW t \in Tasks, Crash(t)
      PROVE  Typed'
  <2>1. op[t] \in Op /\ Follows(op[t])
    BY <1>1, InFlight DEF Crash
  <2>2. damaged' \subseteq Pages
    BY <1>1, <2>1, ScopeType DEF Crash, Typed, TypeOK
  <2> QED
    BY <1>1, <2>2, AnswerTyped DEF Crash, Typed, TypeOK
<1>2. ASSUME NEW t \in Tasks, Respond(t)
      PROVE  Typed'
  BY <1>2, AnswerTyped DEF Respond, Typed, TypeOK
<1>3. CASE UNCHANGED vars
  BY <1>3 DEF vars, Typed, TypeOK, Shape, Active
<1> QED
  BY <1>1, <1>2, <1>3, StartTyped, StepIsTyped DEF Next

\* The types, and the order of the handlers, always hold.
LEMMA TypedHolds == Spec => []Typed
<1>1. Init => Typed
  BY InitType DEF Init, Typed, Shape, Active, Idle, Waiting
<1> QED
  BY <1>1, TypedNext, PTL DEF Spec

(* A row, a vector and a call always have the fields and values that the   *)
(* handlers give them; in particular no call makes more than MaxAttempts   *)
(* attempts.                                                               *)
THEOREM TypeCorrect == Spec => []TypeOK
<1>1. Typed => TypeOK
  BY DEF Typed
<1> QED
  BY <1>1, TypedHolds, PTL

-----------------------------------------------------------------------------
(* A step of one call leaves the other calls and their pages as they were. *)

\* What holds of p while t has it to itself.
LEMMA SoleProgress ==
  ASSUME NEW M, NEW B, Inv(M, B), NEW t \in Tasks, NEW p \in Pages, Sole(t, p)
  PROVE  Progress(t, p, M, B) /\ \A u \in Tasks \ {t} : ~Touches(u, p)
BY DEF Inv, InProgress, Alone

\* What another call had to itself before t's step it still has.
LEMMA OtherCalls ==
  ASSUME NEW M, NEW B, Inv(M, B), NEW t \in Tasks, NEW u \in Tasks, u # t,
         NEW p \in Pages, op'[u] = op[u],
         p \in damaged /\ p \notin damaged' => op[t].alone /\ Touches(t, p),
         Sole(u, p)'
  PROVE  Sole(u, p) /\ Progress(u, p, M, B) /\ ~Touches(t, p)
<1>1. Touches(u, p)
  BY DEF Sole, Touches, Active, Scope
<1>2. Sole(u, p)
  BY <1>1 DEF Sole, Inv, Alone, Active, Touches
<1> QED
  BY <1>2, SoleProgress DEF Inv, Alone

\* A step within the pages of a call keeps the invariant if it keeps it there.
LEMMA Local ==
  ASSUME NEW M, NEW B, Inv(M, B), Typed', NEW t \in Tasks, Active(t),
         NEW N, \A p \in Pages \ damaged' : p \in M => p \in N,
         \A u \in Tasks \ {t} : op'[u] = op[u],
         \A u \in Tasks \ {t} :
           held[u] \ Scope(op[t]) \subseteq held'[u] /\ held'[u] \subseteq held[u],
         \A p \in Pages \ Scope(op[t]) :
           row'[p] = row[p] /\ vecs'[p] = vecs[p] /\ (p \in damaged => p \in damaged'),
         \A p \in Pages : p \in damaged /\ p \notin damaged' => op[t].alone,
         Active(t)' => /\ op'[t].kind = op[t].kind
                       /\ Scope(op[t])' = Scope(op[t])
                       /\ op'[t].alone = op[t].alone
                       /\ damaged' = damaged /\ held'[t] = held[t],
         \A p \in Pages : Sole(t, p) =>
           IF Active(t)' THEN Progress(t, p, N, B)' ELSE p \notin damaged' => Even(p, N)'
  PROVE  Inv(N, B)'
<1>1. ASSUME NEW u \in Tasks, u # t, NEW p \in Pages, Sole(u, p)'
      PROVE  Sole(u, p) /\ Progress(u, p, M, B) /\ p \notin Scope(op[t])
  BY <1>1, OtherCalls DEF Touches
<1>2. ASSUME NEW p \in Pages, Sole(t, p)'
      PROVE  Active(t)' /\ Sole(t, p)
  BY <1>2 DEF Sole, Touches
<1>3. InProgress(N, B)'
  <2>1. ASSUME NEW u \in Tasks, u # t, NEW p \in Pages, Sole(u, p)'
        PROVE  Progress(u, p, N, B)'
    <3>1. Progress(u, p, M, B) /\ p \notin Scope(op[t]) /\ op'[u] = op[u]
      BY <1>1, <2>1
    <3>2. row'[p] = row[p] /\ vecs'[p] = vecs[p] /\ (p \in damaged => p \in damaged')
          /\ (p \in held[u] => p \in held'[u])
      BY <2>1, <3>1
    <3> QED
      BY <3>1, <3>2 DEF Progress, Untouched, ListsAll, Built, Emptied, Exact, Even,
                        Occupied, Cleared
  <2>2. ASSUME NEW p \in Pages, Sole(t, p)'
        PROVE  Progress(t, p, N, B)'
    BY <1>2, <2>2
  <2> QED
    BY <2>1, <2>2 DEF InProgress
<1>4. Alone'
  <2> SUFFICES ASSUME NEW u \in Tasks, NEW w \in Tasks, NEW p \in Pages,
                      Sole(u, p)', Touches(w, p)', u # w
               PROVE  FALSE
    BY DEF Alone
  <2>1. Sole(u, p)
    BY <1>1, <1>2
  <2>2. Touches(w, p)
    BY DEF Touches, Active, Scope
  <2> QED
    BY <2>1, <2>2 DEF Inv, Alone
<1>5. QuietEven(N)'
  <2> SUFFICES ASSUME NEW p \in Pages, p \notin damaged', Quiet(p)'
               PROVE  Even(p, N)'
    BY DEF QuietEven
  <2>1. CASE p \in Scope(op[t])
    <3>1. ~Active(t)'
      BY <2>1 DEF Quiet
    <3>2. Sole(t, p)
      BY <2>1 DEF Sole, Touches
    <3> QED
      BY <3>1, <3>2
  <2>2. CASE p \notin Scope(op[t])
    <3>1. Quiet(p)
      BY <2>2 DEF Quiet, Active, Scope
    <3>2. row'[p] = row[p] /\ vecs'[p] = vecs[p] /\ p \notin damaged
      BY <2>2
    <3> QED
      BY <3>1, <3>2 DEF Inv, QuietEven, Exact, Even
  <2> QED
    BY <2>1, <2>2
<1>6. ASSUME NEW u \in Tasks
      PROVE  Holds(u, B)'
  <2>1. CASE u = t
    BY <2>1, InFlight DEF Inv, Holds, Follows, Scope
  <2>2. CASE u # t
    BY <2>2 DEF Inv, Holds, Active
  <2> QED
    BY <2>1, <2>2
<1> QED
  BY <1>3, <1>4, <1>5, <1>6 DEF Inv

\* The call goes on: it is enough to know its own pages.
LEMMA GotoLocal ==
  ASSUME NEW M, NEW B, Inv(M, B), Typed', NEW t \in Tasks,
         Active(t), NEW y \in Op, NEW pc \in Waiting,
         Goto(t, y, pc), Scope(y) = Scope(op[t]), y.alone = op[t].alone,
         y.kind = op[t].kind,
         row' = row, held' = held,
         \A p \in Pages \ Scope(op[t]) : vecs'[p] = vecs[p],
         \A p \in Pages : Sole(t, p) => Progress(t, p, M, B)'
  PROVE  Inv(M, B)'
<1>1. op' = [op EXCEPT ![t] = [y EXCEPT !.pc = pc]] /\ damaged' = damaged
  BY DEF Goto
<1>2. op'[t] = [y EXCEPT !.pc = pc] /\ \A u \in Tasks \ {t} : op'[u] = op[u]
  BY <1>1 DEF Inv, Typed, TypeOK
<1>3. Active(t)' /\ Scope(op[t])' = Scope(op[t]) /\ op'[t].alone = op[t].alone
      /\ op'[t].kind = op[t].kind
  BY <1>2 DEF Active, Scope, Op
<1> QED
  BY <1>1, <1>2, <1>3, Local

\* The call ends with an exception.
LEMMA RaiseLocal ==
  ASSUME NEW M, NEW B, Inv(M, B), Typed', NEW t \in Tasks,
         Active(t), NEW y \in Op, Raise(t, y),
         Scope(y) = Scope(op[t]), y.wrote \/ (~op[t].wrote /\ vecs' = vecs),
         row' = row,
         \A p \in Pages \ Scope(op[t]) : vecs'[p] = vecs[p]
  PROVE  Inv(M, B)'
<1>1. op' = [op EXCEPT ![t] = Answered(y.kind, y.page, "failed")]
      /\ held' = [held EXCEPT ![t] = {}]
      /\ damaged' = IF y.wrote THEN damaged \cup Scope(op[t]) ELSE damaged
  BY DEF Raise
<1>2. ~Active(t)' /\ \A u \in Tasks \ {t} : op'[u] = op[u] /\ held'[u] = held[u]
  BY <1>1 DEF Active, Answered, Waiting, Inv, Typed, TypeOK
<1>3. ASSUME NEW p \in Pages, Sole(t, p), p \notin damaged'
      PROVE  Even(p, M)'
  <2>1. p \in Scope(op[t]) /\ Untouched(t, p, M)
    BY <1>3, SoleProgress DEF Sole, Touches, Progress
  <2> QED
    BY <1>1, <1>3, <2>1 DEF Untouched, Exact, Even
<1> QED
  BY <1>1, <1>2, <1>3, Local

\* The call is made again or has failed for good.
LEMMA RetryLocal ==
  ASSUME NEW M, NEW B, Inv(M, B), Typed', NEW t \in Tasks,
         Active(t), NEW y \in Op, NEW pc \in Waiting,
         RetryFrom(t, y, pc), Scope(y) = Scope(op[t]), y.alone = op[t].alone,
         y.kind = op[t].kind,
         y.wrote \/ (~op[t].wrote /\ vecs' = vecs),
         row' = row,
         \A p \in Pages \ Scope(op[t]) : vecs'[p] = vecs[p],
         ASSUME NEW p \in Pages, Sole(t, p), damaged' = damaged, held' = held,
                op'[t] = [y EXCEPT !.tries = @ + 1, !.pc = pc]
         PROVE  Progress(t, p, M, B)'
  PROVE  Inv(M, B)'
<1>1. CASE y.tries + 1 < MaxAttempts
  <2> DEFINE z == [y EXCEPT !.tries = @ + 1]
  <2>1. y.tries + 1 \in 0..(MaxAttempts - 1)
    BY <1>1, PageIndexAssumption DEF Op
  <2>2. z \in Op /\ Scope(z) = Scope(op[t]) /\ z.alone = op[t].alone
        /\ z.kind = op[t].kind
    BY <2>1 DEF Op, Scope
  <2>3. Goto(t, z, pc) /\ held' = held /\ damaged' = damaged
    BY <1>1 DEF RetryFrom, Goto
  <2>4. op'[t] = [y EXCEPT !.tries = @ + 1, !.pc = pc]
    BY <2>3 DEF Goto, Inv, Typed, TypeOK, Op
  <2> HIDE DEF z
  <2> QED
    BY <2>2, <2>3, <2>4, GotoLocal
<1>2. CASE ~(y.tries + 1 < MaxAttempts)
  BY <1>2, RaiseLocal DEF RetryFrom
<1> QED
  BY <1>1, <1>2

\* The call answers: its pages must be exact unless they stay damaged.
LEMMA ReturnLocal ==
  ASSUME NEW M, NEW B, Inv(M, B), Typed', NEW t \in Tasks,
         Active(t), NEW r, Return(t, op[t], r),
         \A u \in Tasks \ {t} :
           held[u] \ Scope(op[t]) \subseteq held'[u] /\ held'[u] \subseteq held[u],
         \A p \in Pages \ Scope(op[t]) : row'[p] = row[p],
         vecs' = vecs,
         ASSUME NEW p \in Pages, Sole(t, p), p \notin damaged'
         PROVE  Even(p, M)'
  PROVE  Inv(M, B)'
<1>1. op' = [op EXCEPT ![t] = Answered(op[t].kind, op[t].page, r)]
      /\ damaged' = IF op[t].alone /\ (op[t].existing \/ r = "wiped")
                    THEN damaged \ Scope(op[t]) ELSE damaged
  BY DEF Return
<1>2. ~Active(t)' /\ \A u \in Tasks \ {t} : op'[u] = op[u]
  BY <1>1 DEF Active, Answered, Waiting, Inv, Typed, TypeOK
<1> QED
  BY <1>1, <1>2, Local

-----------------------------------------------------------------------------
(* Every step of a call keeps the invariant.                               *)

\* A page with no listed ids has no vectors.
LEMMA NoVectors ==
  ASSUME TypeOK, NEW p \in Pages, Occupied(p) = {}
  PROVE  vecs[p] = Blank
<1>1. vecs[p] \in [Slots -> Versions \cup {None}] /\ \A i \in Slots : vecs[p][i] = None
  BY DEF TypeOK, Occupied
<1> QED
  BY <1>1 DEF Blank

\* A page call is alone in its scope.
LEMMA PageScope ==
  ASSUME NEW M, NEW B, Inv(M, B), NEW t \in Tasks, Active(t),
         op[t].pc \notin {"namespace", "rows"}
  PROVE  \E p \in Pages :
           /\ Scope(op[t]) = {p} /\ op[t].page = p
           /\ op[t].kind \in {"index", "delete"}
           /\ op[t].kind = "index" => op[t].ver \in Versions
BY InFlight DEF Inv, Follows, Scope, Op, Kinds

\* Listing the ids finds every vector there is.
LEMMA ListKeeps ==
  ASSUME NEW M, NEW B, Inv(M, B), Typed', NEW t \in Tasks, ListVectors(t)
  PROVE  Inv(M, B)'
<1> DEFINE o == op[t]
<1>1. o \in Op /\ o.pc = "list" /\ Active(t) /\ TypeOK
  BY ActiveType DEF ListVectors, Inv, Typed, Active, Waiting
<1>2. PICK p \in Pages : Scope(o) = {p} /\ o.page = p /\ o.kind \in {"index", "delete"}
  BY <1>1, PageScope
<1> DEFINE found == Occupied(p)
           y == [o EXCEPT !.ids = found,
                   !.removed = IF o.kind = "delete" THEN Cardinality(found) ELSE 0]
           next == IF found = {} THEN AfterErase(y) ELSE "erase"
<1>3. Goto(t, y, next) /\ row' = row /\ vecs' = vecs /\ held' = held
  BY <1>2 DEF ListVectors
<1>4. found \subseteq Slots /\ Cardinality(found) \in 0..MaxChunks /\ 0 \in 0..MaxChunks
  BY ChunksFit, PageIndexAssumption DEF Occupied
<1>5. y \in Op /\ Scope(y) = Scope(o) /\ y.alone = o.alone /\ y.wrote = o.wrote
      /\ y.kind = o.kind /\ y.ids = found /\ y.existing = o.existing
  BY <1>1, <1>4 DEF Op, Scope
<1> HIDE DEF y
<1>6. next \in Waiting /\ next \in {"erase", "embed", "commit"}
      /\ (next # "erase" => found = {})
      /\ (next = "commit" <=> found = {} /\ o.kind = "delete")
  BY <1>2, <1>5 DEF AfterErase, Waiting
<1>7. op'[t] = [y EXCEPT !.pc = next] /\ damaged' = damaged
  BY <1>1, <1>3 DEF Goto, TypeOK
<1>8. op'[t].pc = next /\ op'[t].wrote = o.wrote /\ op'[t].kind = o.kind
      /\ op'[t].ids = found
  BY <1>5, <1>7 DEF Op
<1>9. found = {} => vecs[p] = Blank
  BY <1>1, <1>2, NoVectors
<1> HIDE DEF next, found
<1>10. ASSUME Sole(t, p)
       PROVE  Progress(t, p, M, B)'
  <2>1. Untouched(t, p, M) /\ Emptied(t, p, B)
    BY <1>2, <1>10, SoleProgress DEF Progress
  <2>2. Untouched(t, p, M)'
    BY <1>3, <1>7, <1>8, <2>1 DEF Untouched, Exact, Even
  <2>3. ListsAll(t, p)'
    BY <1>3, <1>8 DEF ListsAll, Occupied, found
  <2>4. Built(t, p)'
    BY <1>2, <1>3, <1>6, <1>8, <1>9 DEF Built
  <2>5. Emptied(t, p, B)'
    BY <1>3, <1>6, <1>8, <1>9, <2>1 DEF Emptied
  <2> QED
    BY <2>2, <2>3, <2>4, <2>5 DEF Progress
<1> QED
  BY <1>1, <1>2, <1>3, <1>5, <1>6, <1>10, GotoLocal DEF Sole, Touches

\* Deleting a batch leaves vectors among the ids still to be deleted.
LEMMA EraseKeeps ==
  ASSUME NEW M, NEW B, Inv(M, B), Typed', NEW t \in Tasks, EraseBatch(t)
  PROVE  Inv(M, B)'
<1> DEFINE o == op[t]
<1>1. o \in Op /\ o.pc = "erase" /\ Active(t) /\ TypeOK
  BY ActiveType DEF EraseBatch, Inv, Typed, Active, Waiting
<1>2. PICK p \in Pages : Scope(o) = {p} /\ o.page = p /\ o.kind \in {"index", "delete"}
  BY <1>1, PageScope
<1>3. PICK b \in Batches(o.ids) :
        /\ vecs' = Erased(t, b)
        /\ LET y == [op[t] EXCEPT !.ids = Remaining(@, b), !.wrote = TRUE]
           IN  Goto(t, y, IF y.ids = {} THEN AfterErase(y) ELSE "erase")
  BY DEF EraseBatch
<1> DEFINE y == [o EXCEPT !.ids = Remaining(@, b), !.wrote = TRUE]
           next == IF y.ids = {} THEN AfterErase(y) ELSE "erase"
<1>4. Goto(t, y, next) /\ row' = row /\ held' = held
  BY <1>3 DEF EraseBatch
<1>5. y \in Op /\ Scope(y) = Scope(o) /\ y.alone = o.alone /\ y.wrote = TRUE
      /\ y.kind = o.kind /\ y.ids = o.ids \ b
  BY <1>1 DEF Op, Scope, Remaining
<1> HIDE DEF y
<1>6. next \in Waiting /\ next \in {"erase", "embed", "commit"}
      /\ (next # "erase" => y.ids = {})
  BY <1>2, <1>5 DEF AfterErase, Waiting
<1>7. op'[t] = [y EXCEPT !.pc = next] /\ damaged' = damaged
  BY <1>1, <1>4 DEF Goto, TypeOK
<1> HIDE DEF next
<1>8. op'[t].pc = next /\ op'[t].wrote = TRUE /\ op'[t].kind = o.kind
      /\ op'[t].ids = o.ids \ b
  BY <1>5, <1>7 DEF Op
<1>9. /\ \A q \in Pages \ {p} : vecs'[q] = vecs[q]
      /\ vecs'[p] = [i \in Slots |-> IF i \in b THEN None ELSE vecs[p][i]]
  BY <1>1, <1>2, <1>3 DEF Erased, TypeOK
<1>10. Occupied(p)' = Occupied(p) \ b
  BY <1>9 DEF Occupied
<1>11. ASSUME Sole(t, p)
       PROVE  Progress(t, p, M, B)'
  <2>1. Occupied(p) \subseteq o.ids
        /\ (o.kind = "delete" /\ t \notin B => p \in held[t] \/ row[p] = None)
    BY <1>1, <1>2, <1>11, SoleProgress DEF Progress, ListsAll, Emptied
  <2>2. Occupied(p)' \subseteq o.ids \ b
    BY <1>10, <2>1
  <2>3. next # "erase" => vecs'[p] = Blank
    <3>1. next # "erase" => Occupied(p)' = {}
      BY <1>5, <1>6, <2>2
    <3>2. TypeOK' => (Occupied(p)' = {} => vecs'[p] = Blank)
      <4>1. SUFFICES ASSUME TypeOK', Occupied(p)' = {}
                     PROVE  vecs'[p] = Blank
        OBVIOUS
      <4>2. vecs'[p] \in [Slots -> Versions \cup {None}]
            /\ \A i \in Slots : vecs'[p][i] = None
        BY <1>2, <4>1 DEF TypeOK, Occupied
      <4> QED
        BY <4>2 DEF Blank
    <3> QED
      BY <3>1, <3>2 DEF Typed
  <2>4. Untouched(t, p, M)'
    BY <1>8 DEF Untouched
  <2>5. ListsAll(t, p)'
    BY <1>8, <2>2 DEF ListsAll
  <2>6. Built(t, p)'
    BY <1>2, <1>6, <1>8, <2>3, <1>5 DEF Built, AfterErase, next
  <2>7. Emptied(t, p, B)'
    BY <1>4, <1>6, <1>8, <2>1, <2>3 DEF Emptied
  <2> QED
    BY <2>4, <2>5, <2>6, <2>7 DEF Progress
<1>12. \A q \in Pages : Sole(t, q) => Progress(t, q, M, B)'
  BY <1>2, <1>11 DEF Sole, Touches
<1>13. \A q \in Pages \ Scope(o) : vecs'[q] = vecs[q]
  BY <1>2, <1>9
<1> QED
  BY <1>1, <1>4, <1>5, <1>6, <1>12, <1>13, GotoLocal

\* A failed delete, with or without effect, starts over or damages the page.
LEMMA EraseFailsKeeps ==
  ASSUME NEW M, NEW B, Inv(M, B), Typed', NEW t \in Tasks, EraseFails(t)
  PROVE  Inv(M, B)'
<1> DEFINE o == op[t]
<1>1. o \in Op /\ o.pc \in {"list", "erase"} /\ Active(t) /\ TypeOK
  BY ActiveType DEF EraseFails, Inv, Typed, Active, Waiting
<1>2. PICK p \in Pages : Scope(o) = {p} /\ o.page = p /\ o.kind \in {"index", "delete"}
  BY <1>1, PageScope
<1>3. "list" \in Waiting /\ row' = row
  BY DEF Waiting, EraseFails
<1>4. CASE vecs' = vecs /\ RetryFrom(t, [o EXCEPT !.ids = {}], "list")
  <2> DEFINE y == [o EXCEPT !.ids = {}]
  <2>1. y \in Op /\ Scope(y) = Scope(o) /\ y.alone = o.alone /\ y.wrote = o.wrote
        /\ y.kind = o.kind
    BY <1>1 DEF Op, Scope
  <2>2. RetryFrom(t, y, "list") /\ vecs' = vecs
    BY <1>4
  <2> HIDE DEF y
  <2>3. ASSUME NEW q \in Pages, Sole(t, q), damaged' = damaged, held' = held,
               op'[t] = [y EXCEPT !.tries = @ + 1, !.pc = "list"]
        PROVE  Progress(t, q, M, B)'
    <3>1. op'[t].pc = "list" /\ op'[t].wrote = o.wrote /\ op'[t].kind = o.kind
      BY <2>1, <2>3 DEF Op
    <3>2. Untouched(t, q, M) /\ Emptied(t, q, B)
      BY <2>3, SoleProgress DEF Progress
    <3> QED
      BY <1>3, <2>2, <2>3, <3>1, <3>2
      DEF Progress, Untouched, Exact, Even, ListsAll, Built, Emptied
  <2>4. y.wrote \/ (~o.wrote /\ vecs' = vecs)
    BY <2>1, <2>2
  <2> QED
    BY <1>1, <1>3, <2>1, <2>2, <2>3, <2>4, RetryLocal
<1>5. CASE /\ \E b \in Batches(o.ids) : vecs' = Erased(t, b)
           /\ RetryFrom(t, [o EXCEPT !.ids = {}, !.wrote = TRUE], "list")
  <2> DEFINE y == [o EXCEPT !.ids = {}, !.wrote = TRUE]
  <2>1. y \in Op /\ Scope(y) = Scope(o) /\ y.alone = o.alone /\ y.wrote
        /\ y.kind = o.kind
    BY <1>1 DEF Op, Scope
  <2>2. RetryFrom(t, y, "list")
    BY <1>5
  <2> HIDE DEF y
  <2>3. \A q \in Pages \ Scope(o) : vecs'[q] = vecs[q]
    BY <1>1, <1>2, <1>5 DEF Erased, TypeOK
  <2>4. ASSUME NEW q \in Pages, Sole(t, q), damaged' = damaged, held' = held,
               op'[t] = [y EXCEPT !.tries = @ + 1, !.pc = "list"]
        PROVE  Progress(t, q, M, B)'
    <3>1. op'[t].pc = "list" /\ op'[t].wrote = TRUE /\ op'[t].kind = o.kind
      BY <2>1, <2>4 DEF Op
    <3>2. Emptied(t, q, B)
      BY <2>4, SoleProgress DEF Progress
    <3> QED
      BY <1>3, <2>4, <3>1, <3>2 DEF Progress, Untouched, ListsAll, Built, Emptied
  <2> QED
    BY <1>1, <1>3, <2>1, <2>2, <2>3, <2>4, RetryLocal
<1> QED
  BY <1>4, <1>5 DEF EraseFails

\* OpenAI leaves the stores alone.
LEMMA EmbedKeeps ==
  ASSUME NEW M, NEW B, Inv(M, B), Typed', NEW t \in Tasks,
         CallOpenAI(t) \/ OpenAIFails(t)
  PROVE  Inv(M, B)'
<1> DEFINE o == op[t]
<1>1. o \in Op /\ o.pc = "embed" /\ Active(t) /\ TypeOK
  BY ActiveType DEF CallOpenAI, OpenAIFails, Inv, Typed, Active, Waiting
<1>2. PICK p \in Pages : Scope(o) = {p} /\ o.page = p
  BY <1>1, PageScope
<1>3. CASE CallOpenAI(t)
  <2> DEFINE y == [o EXCEPT !.tries = 0]
  <2>1. y \in Op /\ Scope(y) = Scope(o) /\ y.alone = o.alone /\ y.wrote = o.wrote
        /\ y.kind = o.kind /\ y.existing = o.existing /\ y.ver = o.ver
    BY <1>1, PageIndexAssumption DEF Op, Scope
  <2>2. Goto(t, y, "upsert") /\ "upsert" \in Waiting
        /\ row' = row /\ vecs' = vecs /\ held' = held
    BY <1>3 DEF CallOpenAI, Waiting
  <2> HIDE DEF y
  <2>3. op'[t] = [y EXCEPT !.pc = "upsert"] /\ damaged' = damaged
    BY <1>1, <2>2 DEF Goto, TypeOK
  <2>4. op'[t].pc = "upsert" /\ op'[t].wrote = o.wrote /\ op'[t].kind = o.kind
        /\ op'[t].existing = o.existing /\ op'[t].ver = o.ver
    BY <2>1, <2>3 DEF Op
  <2>5. ASSUME Sole(t, p)
        PROVE  Progress(t, p, M, B)'
    <3>1. Untouched(t, p, M) /\ Built(t, p) /\ Emptied(t, p, B)
      BY <2>5, SoleProgress DEF Progress
    <3>2. Untouched(t, p, M)' /\ ListsAll(t, p)'
      BY <2>2, <2>3, <2>4, <3>1 DEF Untouched, Exact, Even, ListsAll
    <3>3. Built(t, p)'
      BY <1>1, <2>2, <2>3, <2>4, <3>1 DEF Built, Cleared
    <3>4. Emptied(t, p, B)'
      BY <2>2, <2>4, <3>1 DEF Emptied
    <3> QED
      BY <3>2, <3>3, <3>4 DEF Progress
  <2> QED
    BY <1>1, <1>2, <2>1, <2>2, <2>5, GotoLocal DEF Sole, Touches
<1>4. CASE OpenAIFails(t)
  <2>1. Raise(t, o) /\ row' = row /\ vecs' = vecs
    BY <1>4 DEF OpenAIFails
  <2> QED
    BY <1>1, <2>1, RaiseLocal DEF Op
<1> QED
  BY <1>3, <1>4

\* After the upsert the vectors of a page cleared before are the version's.
LEMMA UpsertWrites ==
  ASSUME NEW M, NEW B, Inv(M, B), NEW t \in Tasks, NEW p \in Pages,
         op[t].pc = "upsert", Active(t), op[t].page = p, op[t].ver \in Versions, vecs' = Upserted(t)
  PROVE  /\ \A q \in Pages \ {p} : vecs'[q] = vecs[q]
         /\ Sole(t, p) /\ Cleared(op[t], p) => vecs'[p] = Contents(op[t].ver)
<1> DEFINE v == op[t].ver
<1>1. TypeOK
  BY DEF Inv, Typed
<1>2. /\ \A q \in Pages \ {p} : vecs'[q] = vecs[q]
      /\ vecs'[p] = [i \in Slots |-> IF i < Chunks[v] THEN v ELSE vecs[p][i]]
  BY <1>1 DEF Upserted, TypeOK
<1>3. ASSUME vecs[p] \in {Blank, Contents(v)}
      PROVE  vecs'[p] = Contents(v)
  <2>1. \A i \in Slots : ~(i < Chunks[v]) => vecs[p][i] = None
    BY <1>3 DEF Blank, Contents
  <2> HIDE DEF v
  <2> QED
    BY <1>2, <2>1 DEF Contents
<1>4. Sole(t, p) /\ Cleared(op[t], p) => vecs[p] \in {Blank, Contents(v)}
  BY SoleProgress DEF Progress, Built
<1> QED
  BY <1>2, <1>3, <1>4

\* An upsert on a cleared page makes its vectors those of the version.
LEMMA UpsertKeeps ==
  ASSUME NEW M, NEW B, Inv(M, B), Typed', NEW t \in Tasks, Upsert(t)
  PROVE  Inv(M, B)'
<1> DEFINE o == op[t]
           y == [o EXCEPT !.wrote = TRUE]
<1>1. o \in Op /\ o.pc = "upsert" /\ Active(t) /\ TypeOK
  BY ActiveType DEF Upsert, Inv, Typed, Active, Waiting
<1>2. PICK p \in Pages :
        Scope(o) = {p} /\ o.page = p /\ o.kind = "index" /\ o.ver \in Versions
  BY <1>1, PageScope, InFlight DEF Inv, Follows
<1>3. y \in Op /\ Scope(y) = Scope(o) /\ y.alone = o.alone /\ y.wrote = TRUE
      /\ y.kind = o.kind /\ y.existing = o.existing /\ y.ver = o.ver
  BY <1>1 DEF Op, Scope
<1>4. Goto(t, y, "commit") /\ "commit" \in Waiting
      /\ row' = row /\ held' = held /\ vecs' = Upserted(t)
  BY DEF Upsert, Waiting
<1> HIDE DEF y
<1>5. op'[t] = [y EXCEPT !.pc = "commit"] /\ damaged' = damaged
  BY <1>1, <1>4 DEF Goto, TypeOK
<1>6. op'[t].pc = "commit" /\ op'[t].wrote = TRUE /\ op'[t].kind = "index"
      /\ op'[t].existing = o.existing /\ op'[t].ver = o.ver
  BY <1>2, <1>3, <1>5 DEF Op
<1>7. /\ \A q \in Pages \ {p} : vecs'[q] = vecs[q]
      /\ Sole(t, p) /\ Cleared(o, p) => vecs'[p] = Contents(o.ver)
  BY <1>1, <1>2, <1>4, UpsertWrites
<1>8. ASSUME Sole(t, p)
      PROVE  Progress(t, p, M, B)'
  <2>1. Built(t, p)'
    BY <1>5, <1>6, <1>7, <1>8 DEF Built, Cleared, Contents
  <2> QED
    BY <1>6, <2>1 DEF Progress, Untouched, ListsAll, Emptied
<1> QED
  BY <1>1, <1>2, <1>3, <1>4, <1>7, <1>8, GotoLocal DEF Sole, Touches

\* An upsert that seems to fail may be made twice, to the same effect.
LEMMA UpsertFailsKeeps ==
  ASSUME NEW M, NEW B, Inv(M, B), Typed', NEW t \in Tasks, UpsertFails(t)
  PROVE  Inv(M, B)'
<1> DEFINE o == op[t]
<1>1. o \in Op /\ o.pc = "upsert" /\ Active(t) /\ TypeOK
  BY ActiveType DEF UpsertFails, Inv, Typed, Active, Waiting
<1>2. PICK p \in Pages :
        Scope(o) = {p} /\ o.page = p /\ o.kind = "index" /\ o.ver \in Versions
  BY <1>1, PageScope, InFlight DEF Inv, Follows
<1>3. row' = row /\ "upsert" \in Waiting
  BY DEF UpsertFails, Waiting
<1>4. CASE vecs' = Upserted(t) /\ RetryFrom(t, [o EXCEPT !.wrote = TRUE], "upsert")
  <2> DEFINE y == [o EXCEPT !.wrote = TRUE]
  <2>1. y \in Op /\ Scope(y) = Scope(o) /\ y.alone = o.alone /\ y.wrote
        /\ y.kind = o.kind /\ y.existing = o.existing /\ y.ver = o.ver
    BY <1>1 DEF Op, Scope
  <2>2. RetryFrom(t, y, "upsert")
    BY <1>4
  <2> HIDE DEF y
  <2>3. /\ \A q \in Pages \ {p} : vecs'[q] = vecs[q]
        /\ Sole(t, p) /\ Cleared(o, p) => vecs'[p] = Contents(o.ver)
    BY <1>1, <1>2, <1>4, UpsertWrites
  <2>4. ASSUME NEW q \in Pages, Sole(t, q), damaged' = damaged, held' = held,
               op'[t] = [y EXCEPT !.tries = @ + 1, !.pc = "upsert"]
        PROVE  Progress(t, q, M, B)'
    <3>1. op'[t].pc = "upsert" /\ op'[t].wrote = TRUE /\ op'[t].kind = "index"
          /\ op'[t].existing = o.existing /\ op'[t].ver = o.ver
      BY <1>2, <2>1, <2>4 DEF Op
    <3>2. q = p
      BY <1>2, <2>4 DEF Sole, Touches
    <3>3. Built(t, q)'
      BY <2>3, <2>4, <3>1, <3>2 DEF Built, Cleared, Contents
    <3> QED
      BY <3>1, <3>3 DEF Progress, Untouched, ListsAll, Emptied
  <2>5. \A q \in Pages \ Scope(o) : vecs'[q] = vecs[q]
    BY <1>2, <2>3
  <2> QED
    BY <1>1, <1>3, <2>1, <2>2, <2>4, <2>5, RetryLocal
<1>5. CASE vecs' = vecs /\ RetryFrom(t, o, "upsert")
  <2>1. ASSUME NEW q \in Pages, Sole(t, q), damaged' = damaged, held' = held,
               op'[t] = [o EXCEPT !.tries = @ + 1, !.pc = "upsert"]
        PROVE  Progress(t, q, M, B)'
    <3>1. op'[t].pc = "upsert" /\ op'[t].wrote = o.wrote /\ op'[t].kind = o.kind
          /\ op'[t].existing = o.existing /\ op'[t].ver = o.ver
      BY <1>1, <2>1 DEF Op
    <3>2. Untouched(t, q, M) /\ Built(t, q) /\ Emptied(t, q, B)
      BY <2>1, SoleProgress DEF Progress
    <3>3. Untouched(t, q, M)' /\ ListsAll(t, q)' /\ Emptied(t, q, B)'
      BY <1>3, <1>5, <2>1, <3>1, <3>2 DEF Untouched, Exact, Even, ListsAll, Emptied
    <3>4. Built(t, q)'
      BY <1>1, <1>5, <2>1, <3>1, <3>2 DEF Built, Cleared, Contents
    <3> QED
      BY <3>3, <3>4 DEF Progress
  <2>2. o.wrote \/ (~o.wrote /\ vecs' = vecs)
    BY <1>1, <1>5 DEF Op
  <2>3. RetryFrom(t, o, "upsert") /\ vecs' = vecs
    BY <1>5
  <2> HIDE DEF o
  <2>4. op[t] = o
    BY DEF o
  <2> QED
    BY <1>1, <1>3, <2>1, <2>2, <2>3, <2>4, RetryLocal
<1> QED
  BY <1>4, <1>5 DEF UpsertFails

\* The commit makes the row agree with the vectors.
LEMMA CommitIndexKeeps ==
  ASSUME NEW M, NEW B, Inv(M, B), Typed', NEW t \in Tasks,
         CommitIndex(t) \/ CommitConflict(t)
  PROVE  Inv(M, B)'
<1> DEFINE o == op[t]
<1>1. o \in Op /\ o.pc = "commit" /\ o.kind = "index" /\ Active(t) /\ TypeOK
  BY ActiveType DEF CommitIndex, CommitConflict, Inv, Typed, Active, Waiting
<1>2. PICK p \in Pages : Scope(o) = {p} /\ o.page = p /\ o.ver \in Versions
  BY <1>1, PageScope
<1>3. CASE CommitIndex(t)
  <2>1. Return(t, o, "indexed") /\ row' = [row EXCEPT ![p] = o.ver] /\ vecs' = vecs
        /\ held' = [held EXCEPT ![t] = {}]
    BY <1>2, <1>3 DEF CommitIndex
  <2>2. ASSUME NEW q \in Pages, Sole(t, q), q \notin damaged'
        PROVE  Even(q, M)'
    <3>1. q = p
      BY <1>2, <2>2 DEF Sole, Touches
    <3>2. Cleared(o, p)
      BY <2>1, <2>2, <3>1 DEF Return, Cleared
    <3>3. vecs[p] = Contents(o.ver)
      BY <1>1, <2>2, <3>1, <3>2, SoleProgress DEF Progress, Built
    <3>4. row'[p] = o.ver /\ o.ver # None
      BY <1>1, <1>2, <2>1, PageIndexAssumption DEF TypeOK
    <3> QED
      BY <2>1, <3>1, <3>3, <3>4 DEF Exact, Even, Contents
  <2>3. \A q \in Pages \ Scope(o) : row'[q] = row[q]
    BY <1>1, <1>2, <2>1 DEF TypeOK
  <2>4. \A u \in Tasks \ {t} :
          held[u] \ Scope(o) \subseteq held'[u] /\ held'[u] \subseteq held[u]
    BY <1>1, <2>1 DEF TypeOK
  <2> QED
    BY <1>1, <2>1, <2>2, <2>3, <2>4, ReturnLocal
<1>4. CASE CommitConflict(t)
  <2>1. Raise(t, o) /\ row' = row /\ vecs' = vecs /\ o.wrote \in BOOLEAN
    BY <1>1, <1>4 DEF CommitConflict, Op
  <2> QED
    BY <1>1, <2>1, RaiseLocal
<1> QED
  BY <1>3, <1>4

\* The commit deletes the row of a page that has no vectors left.
LEMMA CommitDeleteKeeps ==
  ASSUME NEW M, NEW B, Inv(M, B), Typed', NEW t \in Tasks \ B, CommitDelete(t)
  PROVE  Inv(M, B)'
<1> DEFINE o == op[t]
<1>1. o \in Op /\ o.pc = "commit" /\ o.kind = "delete" /\ Active(t) /\ TypeOK
  BY ActiveType DEF CommitDelete, Inv, Typed, Active, Waiting
<1>2. PICK p \in Pages : Scope(o) = {p} /\ o.page = p
  BY <1>1, PageScope
<1>3. held[t] \subseteq {p}
  BY <1>1, <1>2 DEF Inv, Holds
<1>4. /\ Return(t, o, "deleted") /\ vecs' = vecs
      /\ row' = [q \in Pages |-> IF q \in held[t] THEN None ELSE row[q]]
      /\ held' = [u \in Tasks |-> held[u] \ held[t]]
  BY DEF CommitDelete
<1>5. ASSUME NEW q \in Pages, Sole(t, q), q \notin damaged'
      PROVE  Even(q, M)'
  <2>1. q = p
    BY <1>2, <1>5 DEF Sole, Touches
  <2>2. vecs[p] = Blank /\ (p \in held[t] \/ row[p] = None)
    BY <1>1, <1>5, <2>1, SoleProgress DEF Progress, Emptied
  <2> QED
    BY <1>4, <2>1, <2>2 DEF Exact, Even, Blank
<1>6. \A q \in Pages \ Scope(o) : row'[q] = row[q]
  BY <1>1, <1>2, <1>3, <1>4 DEF TypeOK
<1>7. \A u \in Tasks \ {t} : held[u] \ Scope(o) \subseteq held'[u] /\ held'[u] \subseteq held[u]
  BY <1>1, <1>2, <1>3, <1>4 DEF TypeOK
<1> QED
  BY <1>1, <1>4, <1>5, <1>6, <1>7, ReturnLocal

\* A commit that fails leaves a page damaged that was changed in Pinecone.
LEMMA CommitFailsKeeps ==
  ASSUME NEW M, NEW B, Inv(M, B), Typed', NEW t \in Tasks, CommitFails(t)
  PROVE  Inv(M, B)'
<1>1. op[t] \in Op /\ Active(t)
  BY ActiveType DEF CommitFails, Inv, Typed, Active, Waiting
<1>2. Raise(t, op[t]) /\ row' = row /\ vecs' = vecs /\ op[t].wrote \in BOOLEAN
  BY <1>1 DEF CommitFails, Op
<1> QED
  BY <1>1, <1>2, RaiseLocal

\* A tenant wipe works on every page.
LEMMA WipeScope ==
  ASSUME NEW M, NEW B, Inv(M, B), NEW t \in Tasks, Active(t),
         op[t].pc \in {"namespace", "rows"}
  PROVE  op[t] \in Op /\ op[t].kind = "wipe" /\ Scope(op[t]) = Pages
BY InFlight DEF Inv, Follows, Scope

\* The namespace is emptied, or the failure is remembered.
LEMMA NamespaceKeeps ==
  ASSUME NEW M, NEW B, Inv(M, B), Typed', NEW t \in Tasks,
         WipeNamespace(t) \/ NamespaceFails(t)
  PROVE  Inv(M, B)'
<1> DEFINE o == op[t]
           z == [o EXCEPT !.wrote = TRUE]
           more == [z EXCEPT !.tries = @ + 1]
           failed == [z EXCEPT !.nsOk = FALSE]
<1>1. Active(t) /\ o.pc = "namespace" /\ TypeOK
  BY DEF WipeNamespace, NamespaceFails, Active, Waiting, Inv, Typed
<1>2. o \in Op /\ o.kind = "wipe" /\ Scope(o) = Pages
  BY <1>1, WipeScope
<1>3. row' = row /\ held' = held /\ "rows" \in Waiting /\ "namespace" \in Waiting
  BY DEF WipeNamespace, NamespaceFails, Waiting
<1>4. z \in Op /\ z.kind = "wipe" /\ z.alone = o.alone /\ z.wrote = TRUE /\ z.tries = o.tries
  BY <1>2 DEF Op
<1> HIDE DEF z
<1>5. ASSUME NEW y \in Op, NEW pc \in {"namespace", "rows"}, Goto(t, y, pc),
             y.kind = "wipe", y.alone = o.alone, y.wrote = TRUE,
             pc = "rows" /\ y.nsOk => vecs' = [q \in Pages |-> Blank]
      PROVE  Inv(M, B)'
  <2>1. Scope(y) = Pages
    BY <1>5 DEF Scope
  <2>2. op'[t] = [y EXCEPT !.pc = pc]
    BY <1>1, <1>5 DEF Goto, TypeOK
  <2>3. op'[t].pc = pc /\ op'[t].kind = "wipe" /\ op'[t].wrote = TRUE
        /\ op'[t].nsOk = y.nsOk
    BY <1>5, <2>2 DEF Op
  <2>4. ASSUME NEW q \in Pages
        PROVE  Progress(t, q, M, B)'
    <3>1. pc = "rows" /\ y.nsOk => vecs'[q] = Blank
      BY <1>5
    <3> QED
      BY <1>5, <2>3, <3>1 DEF Progress, Untouched, ListsAll, Built, Emptied, Blank
  <2> QED
    BY <1>1, <1>2, <1>3, <1>5, <2>1, <2>4, GotoLocal
<1>6. CASE WipeNamespace(t)
  BY <1>4, <1>5, <1>6 DEF WipeNamespace, z
<1>7. CASE NamespaceFails(t)
  <2>1. \/ o.tries + 1 < MaxAttempts /\ Goto(t, more, "namespace")
        \/ Goto(t, failed, "rows")
    BY <1>4, <1>7 DEF NamespaceFails, z
  <2>2. CASE o.tries + 1 < MaxAttempts /\ Goto(t, more, "namespace")
    <3>1. z.tries + 1 \in 0..(MaxAttempts - 1)
      BY <1>4, <2>2, PageIndexAssumption DEF Op
    <3>2. more \in Op /\ more.kind = "wipe" /\ more.alone = o.alone /\ more.wrote = TRUE
      BY <1>4, <3>1 DEF Op
    <3> HIDE DEF more
    <3> QED
      BY <1>5, <2>2, <3>2
  <2>3. CASE Goto(t, failed, "rows")
    <3>1. failed \in Op /\ failed.kind = "wipe" /\ failed.alone = o.alone
          /\ failed.wrote = TRUE /\ failed.nsOk = FALSE
      BY <1>4 DEF Op
    <3> HIDE DEF failed
    <3> QED
      BY <1>5, <2>3, <3>1
  <2> QED
    BY <2>1, <2>2, <2>3
<1> QED
  BY <1>6, <1>7

\* Every row goes; the vectors went before or every page is damaged.
LEMMA WipeRowsKeeps ==
  ASSUME NEW M, NEW B, Inv(M, B), Typed', NEW t \in Tasks, WipeRows(t)
  PROVE  Inv(M, B)'
<1> DEFINE o == op[t]
<1>1. Active(t) /\ o.pc = "rows" /\ TypeOK
  BY DEF WipeRows, Active, Waiting, Inv, Typed
<1>2. o \in Op /\ Scope(o) = Pages
  BY <1>1, WipeScope
<1>3. vecs' = vecs /\ row' = [p \in Pages |-> None] /\ held' = [u \in Tasks |-> {}]
  BY DEF WipeRows
<1>4. \A u \in Tasks \ {t} : held[u] \ Scope(o) \subseteq held'[u] /\ held'[u] \subseteq held[u]
  BY <1>1, <1>2, <1>3 DEF TypeOK
<1>5. CASE o.nsOk
  <2>1. Return(t, o, "wiped")
    BY <1>5 DEF WipeRows
  <2>2. ASSUME NEW p \in Pages, Sole(t, p)
        PROVE  Even(p, M)'
    <3>1. vecs[p] = Blank
      BY <1>1, <1>5, <2>2, SoleProgress DEF Progress, Emptied
    <3> QED
      BY <1>3, <3>1 DEF Exact, Even, Blank
  <2> QED
    BY <1>1, <1>2, <1>3, <1>4, <2>1, <2>2, ReturnLocal
<1>6. CASE ~o.nsOk
  <2>1. op' = [op EXCEPT ![t] = Answered("wipe", None, "wiped_rows_only")]
        /\ damaged' = damaged \cup Pages
    BY <1>6 DEF WipeRows
  <2>2. ~Active(t)' /\ \A u \in Tasks \ {t} : op'[u] = op[u]
    BY <1>1, <2>1 DEF Active, Answered, Waiting, TypeOK
  <2> QED
    BY <1>1, <1>2, <1>4, <2>1, <2>2, Local
<1> QED
  BY <1>5, <1>6

\* A process that stops damages the pages its call had changed.
LEMMA CrashKeeps ==
  ASSUME NEW M, NEW B, Inv(M, B), Typed', NEW t \in Tasks, Crash(t)
  PROVE  Inv(M, B)'
<1>1. op[t] \in Op /\ Active(t) /\ TypeOK
  BY ActiveType DEF Crash, Inv, Typed
<1>2. /\ op' = [op EXCEPT ![t] = Idle] /\ row' = row /\ vecs' = vecs
      /\ held' = [held EXCEPT ![t] = {}]
      /\ damaged' = IF op[t].wrote THEN damaged \cup Scope(op[t]) ELSE damaged
  BY DEF Crash
<1>3. /\ ~Active(t)'
      /\ \A u \in Tasks \ {t} : op'[u] = op[u] /\ held'[u] = held[u]
  BY <1>1, <1>2 DEF Active, Idle, Waiting, TypeOK
<1>4. ASSUME NEW p \in Pages, Sole(t, p), p \notin damaged'
      PROVE  Even(p, M)'
  <2>1. p \in Scope(op[t]) /\ Untouched(t, p, M)
    BY <1>4, SoleProgress DEF Sole, Touches, Progress
  <2> QED
    BY <1>2, <1>4, <2>1 DEF Untouched, Exact, Even
<1> QED
  BY <1>1, <1>2, <1>3, <1>4, Local

\* Any step of a handler.
LEMMA StepKeeps ==
  ASSUME NEW M, NEW B, Inv(M, B), Typed', NEW t \in Tasks, Step(t),
         t \in B => ~CommitDelete(t)
  PROVE  Inv(M, B)'
BY ListKeeps, EraseKeeps, EraseFailsKeeps, EmbedKeeps, UpsertKeeps, UpsertFailsKeeps,
   CommitIndexKeeps, CommitDeleteKeeps, CommitFailsKeeps, NamespaceKeeps, WipeRowsKeeps
DEF Step

-----------------------------------------------------------------------------
(* A call that begins takes its pages from those already at work on them.  *)

\* A quiet page is exact when a call takes it; a busy one becomes damaged.
LEMMA EnterKeeps ==
  ASSUME NEW M, NEW B, Inv(M, B), Typed', NEW t \in Tasks, ~Active(t),
         NEW o \in Op, o.pc \in {"list", "embed", "namespace"},
         ~o.wrote, Enter(t, o), row' = row, vecs' = vecs,
         \A u \in Tasks \ {t} : held'[u] = held[u],
         o.kind = "delete" /\ t \notin B => held'[t] = Scope(o),
         \A p \in Scope(o) : o.pc = "embed" => row[p] = None /\ ~o.existing
  PROVE  Inv(M, B)'
<1>0. TypeOK
  BY DEF Inv, Typed
<1>1. op'[t] = [o EXCEPT !.alone = (Rivals(t, o) = {})]
  BY <1>0 DEF Enter, TypeOK
<1>2. /\ op'[t].pc = o.pc /\ op'[t].kind = o.kind /\ op'[t].wrote = o.wrote
      /\ op'[t].existing = o.existing /\ Scope(op'[t]) = Scope(o)
      /\ op'[t].alone => Rivals(t, o) = {}
  BY <1>1 DEF Op, Scope
<1>3. ASSUME NEW u \in Tasks, u # t, Active(u)
      PROVE  /\ op'[u].pc = op[u].pc /\ op'[u].kind = op[u].kind
             /\ op'[u].wrote = op[u].wrote /\ op'[u].existing = op[u].existing
             /\ op'[u].ids = op[u].ids /\ op'[u].ver = op[u].ver
             /\ op'[u].nsOk = op[u].nsOk /\ Scope(op'[u]) = Scope(op[u])
             /\ op'[u].alone => op[u].alone
             /\ u \in Rivals(t, o) => ~op'[u].alone
  <2>1. op[u] \in Op
    BY <1>0, <1>3, ActiveType
  <2>2. op'[u] = IF u \in Rivals(t, o) THEN [op[u] EXCEPT !.alone = FALSE] ELSE op[u]
    BY <1>3 DEF Enter
  <2> QED
    BY <2>1, <2>2 DEF Op, Scope
<1>4. ASSUME NEW u \in Tasks, u # t, ~Active(u)
      PROVE  op'[u] = op[u] /\ ~Active(u)'
  BY <1>4 DEF Enter, Rivals, Active
<1>5. damaged \subseteq damaged'
  BY DEF Enter
<1>6. ASSUME NEW u \in Tasks, u # t, NEW p \in Pages
      PROVE  Touches(u, p)' <=> Touches(u, p)
  <2>1. CASE Active(u)
    BY <1>3, <1>6, <2>1 DEF Touches, Active
  <2>2. CASE ~Active(u)
    BY <1>4, <1>6, <2>2 DEF Touches
  <2> QED
    BY <2>1, <2>2
<1>7. ASSUME NEW u \in Tasks, u # t, NEW p \in Pages, Touches(u, p), p \in Scope(o)
      PROVE  u \in Rivals(t, o) /\ p \in damaged' /\ ~Sole(u, p)' /\ ~Sole(t, p)'
  <2>1. u \in Rivals(t, o)
    BY <1>7 DEF Rivals, Touches
  <2>2. p \in damaged'
    BY <1>7, <2>1 DEF Enter, Touches
  <2>3. ~op'[u].alone /\ ~op'[t].alone
    BY <1>2, <1>3, <2>1 DEF Rivals
  <2> QED
    BY <2>1, <2>2, <2>3 DEF Sole
<1>8. ASSUME NEW u \in Tasks, u # t, NEW p \in Pages, Sole(u, p)'
      PROVE  Sole(u, p) /\ p \notin Scope(o)
  <2>1. Touches(u, p)
    BY <1>6, <1>8 DEF Sole
  <2> QED
    BY <1>3, <1>5, <1>7, <1>8, <2>1 DEF Sole, Touches
<1>9. ASSUME NEW p \in Pages, Sole(t, p)'
      PROVE  p \in Scope(o) /\ \A u \in Tasks \ {t} : ~Touches(u, p)
  BY <1>2, <1>7, <1>9 DEF Sole, Touches
<1>10. Alone'
  <2> SUFFICES ASSUME NEW u \in Tasks, NEW w \in Tasks, NEW p \in Pages,
                      Sole(u, p)', Touches(w, p)', w # u
               PROVE  FALSE
    BY DEF Alone
  <2>1. CASE u = t
    BY <1>6, <1>9, <2>1
  <2>2. CASE u # t /\ w = t
    BY <1>2, <1>8, <2>2 DEF Touches
  <2>3. CASE u # t /\ w # t
    BY <1>6, <1>8, <2>3 DEF Inv, Alone
  <2> QED
    BY <2>1, <2>2, <2>3
<1>11. InProgress(M, B)'
  <2>1. ASSUME NEW u \in Tasks, u # t, NEW p \in Pages, Sole(u, p)'
        PROVE  Progress(u, p, M, B)'
    <3>1. Sole(u, p) /\ Active(u) /\ Progress(u, p, M, B)
      BY <1>8, <2>1, SoleProgress DEF Sole, Touches
    <3> QED
      BY <1>3, <1>5, <2>1, <3>1
      DEF Progress, Untouched, ListsAll, Built, Emptied, Exact, Even, Occupied, Cleared, Contents
  <2>2. ASSUME NEW p \in Pages, Sole(t, p)'
        PROVE  Progress(t, p, M, B)'
    <3>1. p \in Scope(o) /\ \A u \in Tasks \ {t} : ~Touches(u, p)
      BY <1>9, <2>2
    <3>2. p \notin damaged' => p \notin damaged /\ Even(p, M)
      BY <1>5, <2>2, <3>1 DEF Inv, QuietEven, Quiet, Touches
    <3>3. Untouched(t, p, M)'
      BY <3>2 DEF Untouched, Exact, Even
    <3>4. Built(t, p)'
      BY <1>2, <3>1, <3>2 DEF Built, Cleared, Exact, Even, Blank
    <3> QED
      BY <1>2, <3>1, <3>3, <3>4 DEF Progress, ListsAll, Emptied
  <2> QED
    BY <2>1, <2>2 DEF InProgress
<1>12. QuietEven(M)'
  <2> SUFFICES ASSUME NEW p \in Pages, p \notin damaged', Quiet(p)'
               PROVE  Even(p, M)'
    BY DEF QuietEven
  <2>1. Quiet(p)
    <3> SUFFICES ASSUME NEW u \in Tasks, Touches(u, p)
                 PROVE  FALSE
      BY DEF Quiet, Touches
    <3>1. Touches(u, p)'
      BY <1>6 DEF Touches
    <3> QED
      BY <3>1 DEF Touches, Quiet
  <2> QED
    BY <1>5, <2>1 DEF Inv, QuietEven, Exact, Even
<1>13. ASSUME NEW u \in Tasks
       PROVE  Holds(u, B)'
  <2>1. CASE u = t
    <3>1. op'[t].page = o.page
      BY <1>1 DEF Op
    <3> QED
      BY <1>2, <2>1, <3>1 DEF Holds, Scope
  <2>2. CASE u # t /\ Active(u)
    <3>1. op'[u].kind = op[u].kind /\ op'[u].page = op[u].page
      <4>1. op[u] \in Op
        BY <1>0, <2>2, ActiveType
      <4>2. op'[u] = IF u \in Rivals(t, o) THEN [op[u] EXCEPT !.alone = FALSE] ELSE op[u]
        BY <2>2 DEF Enter
      <4> QED
        BY <4>1, <4>2 DEF Op
    <3> QED
      BY <2>2, <3>1 DEF Inv, Holds
  <2>3. CASE u # t /\ ~Active(u)
    BY <1>4, <2>3 DEF Holds
  <2> QED
    BY <2>1, <2>2, <2>3
<1> QED
  BY <1>10, <1>11, <1>12, <1>13 DEF Inv

\* A task that is in no call before or after a step.  It may leave pages
\* damaged, and take such pages from M.
LEMMA IdleKeeps ==
  ASSUME NEW M, NEW B, Inv(M, B), Typed', NEW t \in Tasks,
         ~Active(t), ~Active(t)',
         NEW N, \A p \in Pages \ damaged' : p \in M => p \in N,
         \A u \in Tasks \ {t} : op'[u] = op[u] /\ held'[u] = held[u],
         damaged \subseteq damaged', UNCHANGED <<row, vecs>>
  PROVE  Inv(N, B)'
<1>1. \A u \in Tasks, p \in Pages :
        /\ Touches(u, p)' <=> Touches(u, p)
        /\ Sole(u, p)' => Sole(u, p)
        /\ Touches(u, p) => op'[u] = op[u] /\ held'[u] = held[u]
  BY DEF Touches, Sole, Active, Scope
<1>2. Alone'
  BY <1>1 DEF Inv, Alone
<1>3. ASSUME NEW u \in Tasks, NEW p \in Pages, Sole(u, p)'
      PROVE  Progress(u, p, N, B)'
  <2>1. op'[u] = op[u] /\ held'[u] = held[u] /\ Progress(u, p, M, B)
    BY <1>1, <1>3 DEF Inv, InProgress, Sole
  <2>2. row' = row /\ vecs' = vecs /\ (p \notin damaged' => p \notin damaged)
    OBVIOUS
  <2> QED
    BY <2>1, <2>2 DEF Progress, Untouched, ListsAll, Built, Emptied, Exact, Even,
                      Occupied, Cleared
<1>4. QuietEven(N)'
  <2> SUFFICES ASSUME NEW p \in Pages \ damaged', Quiet(p)'
               PROVE  Even(p, N)'
    BY DEF QuietEven
  <2>1. Quiet(p)
    BY <1>1 DEF Quiet, Touches
  <2> QED
    BY <2>1 DEF Inv, QuietEven, Exact, Even
<1>5. ASSUME NEW u \in Tasks
      PROVE  Holds(u, B)'
  BY <1>5 DEF Inv, Holds, Active
<1> QED
  BY <1>2, <1>3, <1>4, <1>5 DEF Inv, InProgress

\* Any handler that begins.
LEMMA StartKeeps ==
  ASSUME NEW M, NEW B, Inv(M, B), Typed', NEW t \in Tasks, Start(t)
  PROVE  Inv(M, B)'
<1>1. TypeOK /\ Typed
  BY DEF Inv, Typed
<1>2. op[t] = Idle /\ ~Active(t)
  <2>1. op[t] = Idle
    BY DEF Start, SkipUnchanged, StartIndex, DeleteNotFound, StartDelete, StartWipe
  <2> QED
    BY <2>1 DEF Active, Idle, Waiting
<1>3. ASSUME NEW p \in Pages, NEW v \in Versions, StartIndex(t, p, v)
      PROVE  Inv(M, B)'
  <2> DEFINE o == Call("index", p, v, IF row[p] = None THEN "embed" ELSE "list",
                       row[p] # None)
  <2>1. /\ o \in Op /\ Scope(o) = {p} /\ o.kind = "index" /\ ~o.wrote
        /\ o.pc = (IF row[p] = None THEN "embed" ELSE "list")
        /\ o.existing = (row[p] # None)
    BY PageIndexAssumption DEF Call, Op, Kinds, Waiting, Scope
  <2>2. Enter(t, o) /\ row' = row /\ vecs' = vecs
        /\ \A u \in Tasks \ {t} : held'[u] = held[u]
    BY <1>1, <1>3 DEF StartIndex, TypeOK
  <2> HIDE DEF o
  <2> QED
    BY <1>2, <2>1, <2>2, EnterKeeps
<1>4. ASSUME NEW p \in Pages, StartDelete(t, p)
      PROVE  Inv(M, B)'
  <2> DEFINE o == Call("delete", p, None, "list", TRUE)
  <2>1. o \in Op /\ Scope(o) = {p} /\ o.kind = "delete" /\ ~o.wrote /\ o.pc = "list"
    BY PageIndexAssumption DEF Call, Op, Kinds, Waiting, Scope
  <2>2. Enter(t, o) /\ row' = row /\ vecs' = vecs /\ held'[t] = {p}
        /\ \A u \in Tasks \ {t} : held'[u] = held[u]
    BY <1>1, <1>4 DEF StartDelete, TypeOK
  <2> HIDE DEF o
  <2> QED
    BY <1>2, <2>1, <2>2, EnterKeeps
<1>5. CASE StartWipe(t)
  <2> DEFINE o == Call("wipe", None, None, "namespace", FALSE)
  <2>1. o \in Op /\ o.kind = "wipe" /\ ~o.wrote /\ o.pc = "namespace"
    BY PageIndexAssumption DEF Call, Op, Kinds, Waiting
  <2>2. Enter(t, o) /\ row' = row /\ vecs' = vecs /\ held' = held
    BY <1>5 DEF StartWipe
  <2> HIDE DEF o
  <2> QED
    BY <1>2, <2>1, <2>2, EnterKeeps
<1>6. ASSUME NEW p \in Pages, NEW v \in Versions, SkipUnchanged(t, p, v)
      PROVE  Inv(M, B)'
  BY <1>1, <1>2, <1>6, IdleKeeps DEF SkipUnchanged, TypeOK, Answered, Active, Waiting
<1>7. ASSUME NEW p \in Pages, DeleteNotFound(t, p)
      PROVE  Inv(M, B)'
  BY <1>1, <1>2, <1>7, IdleKeeps DEF DeleteNotFound, TypeOK, Answered, Active, Waiting
<1> QED
  BY <1>3, <1>4, <1>5, <1>6, <1>7 DEF Start

\* Nothing changes.
LEMMA InvStutters ==
  ASSUME NEW M, NEW B, Inv(M, B), UNCHANGED vars
  PROVE  Inv(M, B)'
<1>1. Typed'
  BY DEF vars, Inv, Typed, TypeOK, Shape, Active
<1>2. Alone'
  BY DEF vars, Inv, Alone, Sole, Touches, Active, Scope
<1>3. InProgress(M, B)'
  BY DEF vars, Inv, InProgress, Sole, Touches, Active, Scope, Progress,
    Untouched, ListsAll, Built, Emptied, Exact, Even, Occupied, Cleared
<1>4. QuietEven(M)' /\ \A t \in Tasks : Holds(t, B)'
  BY DEF vars, Inv, QuietEven, Quiet, Exact, Even, Active, Scope, Holds
<1> QED
  BY <1>1, <1>2, <1>3, <1>4 DEF Inv

-----------------------------------------------------------------------------
(* What a step does to its own call, and what it leaves alone.             *)

\* A call that goes on, ends or is made again touches its own pages only.
LEMMA OneCallMoves ==
  ASSUME TypeOK, NEW t \in Tasks, NEW y, NEW pc, NEW r,
         \/ Goto(t, y, pc) \/ Raise(t, y) \/ RetryFrom(t, y, pc) \/ Return(t, y, r)
  PROVE  /\ \A u \in Tasks \ {t} : op'[u] = op[u]
         /\ \A p \in Pages \ Scope(y) : p \in damaged' <=> p \in damaged
<1>1. PICK x : op' = [op EXCEPT ![t] = x]
  BY DEF Goto, Raise, RetryFrom, Return
<1>2. \A p \in Pages \ Scope(y) : p \in damaged' <=> p \in damaged
  BY DEF Goto, Raise, RetryFrom, Return
<1> QED
  BY <1>1, <1>2 DEF TypeOK

\* A step of a call, or its crash, changes nothing outside of its scope.
LEMMA OutsideScope ==
  ASSUME NEW M, NEW B, Inv(M, B), NEW t \in Tasks, Step(t) \/ Crash(t),
         t \in B => ~CommitDelete(t)
  PROVE  /\ Active(t)
         /\ \A u \in Tasks \ {t} : op'[u] = op[u]
         /\ \A p \in Pages \ Scope(op[t]) :
              row'[p] = row[p] /\ vecs'[p] = vecs[p] /\ (p \in damaged' <=> p \in damaged)
<1> DEFINE o == op[t]
           Outside(x) == \A p \in Pages \ Scope(x) :
              row'[p] = row[p] /\ vecs'[p] = vecs[p] /\ (p \in damaged' <=> p \in damaged)
           Others == \A u \in Tasks \ {t} : op'[u] = op[u]
<1>0. Active(t) /\ o \in Op /\ TypeOK /\ Follows(o)
  <2>1. Active(t)
    BY DEF Step, ListVectors, EraseBatch, EraseFails, CallOpenAI, OpenAIFails, Upsert,
           UpsertFails, CommitIndex, CommitConflict, CommitDelete, CommitFails,
           WipeNamespace, NamespaceFails, WipeRows, Crash, Active, Waiting
  <2> QED
    BY <2>1, InFlight DEF Inv, Typed
<1>1. CASE ListVectors(t)
  <2>1. PICK y : Scope(y) = Scope(o) /\ \E pc : Goto(t, y, pc)
    <3> DEFINE y == [o EXCEPT !.ids = Occupied(o.page),
                 !.removed = IF o.kind = "delete" THEN Cardinality(Occupied(o.page)) ELSE 0]
    <3>1. Scope(y) = Scope(o)
      BY <1>0 DEF Op, Scope
    <3>2. \E pc : Goto(t, y, pc)
      BY <1>1 DEF ListVectors
    <3> HIDE DEF y
    <3> QED
      BY <3>1, <3>2
  <2> QED
    BY <1>0, <1>1, <2>1, OneCallMoves DEF ListVectors
<1>2. CASE EraseBatch(t)
  <2>1. PICK b : /\ vecs' = Erased(t, b)
                 /\ \E pc : Goto(t, [o EXCEPT !.ids = Remaining(@, b), !.wrote = TRUE], pc)
    BY <1>2 DEF EraseBatch
  <2>2. Scope([o EXCEPT !.ids = Remaining(@, b), !.wrote = TRUE]) = Scope(o)
    BY <1>0 DEF Op, Scope
  <2>3. \A p \in Pages \ Scope(o) : vecs'[p] = vecs[p]
    BY <1>0, <1>2, <2>1 DEF Erased, Scope, TypeOK, EraseBatch, Follows
  <2> QED
    BY <1>0, <1>2, <2>1, <2>2, <2>3, OneCallMoves DEF EraseBatch
<1>3. CASE EraseFails(t)
  <2>1. \E y : Scope(y) = Scope(o) /\ RetryFrom(t, y, "list")
    <3>1. Scope([o EXCEPT !.ids = {}]) = Scope(o)
          /\ Scope([o EXCEPT !.ids = {}, !.wrote = TRUE]) = Scope(o)
      BY <1>0 DEF Op, Scope
    <3> QED
      BY <1>3, <3>1 DEF EraseFails
  <2>2. vecs' = vecs \/ \E b : vecs' = Erased(t, b)
    BY <1>3 DEF EraseFails
  <2>3. o.kind # "wipe"
    BY <1>0, <1>3 DEF EraseFails, Follows, Op, Kinds
  <2>4. \A p \in Pages \ Scope(o) : vecs'[p] = vecs[p]
    BY <1>0, <2>2, <2>3 DEF Erased, Scope, TypeOK
  <2> QED
    BY <1>0, <1>3, <2>1, <2>4, OneCallMoves DEF EraseFails
<1>4. CASE CallOpenAI(t)
  <2>1. Scope([o EXCEPT !.tries = 0]) = Scope(o)
    BY <1>0 DEF Op, Scope
  <2> QED
    BY <1>0, <1>4, <2>1, OneCallMoves DEF CallOpenAI
<1>5. CASE OpenAIFails(t) \/ CommitConflict(t) \/ CommitFails(t)
  BY <1>0, <1>5, OneCallMoves DEF OpenAIFails, CommitConflict, CommitFails
<1>6. CASE Upsert(t) \/ UpsertFails(t)
  <2>1. \E y, pc : Scope(y) = Scope(o) /\ (Goto(t, y, pc) \/ RetryFrom(t, y, pc))
    <3>1. Scope([o EXCEPT !.wrote = TRUE]) = Scope(o)
      BY <1>0 DEF Op, Scope
    <3> QED
      BY <1>6, <3>1 DEF Upsert, UpsertFails
  <2>2. vecs' = vecs \/ vecs' = Upserted(t)
    BY <1>6 DEF Upsert, UpsertFails
  <2>3. o.kind # "wipe"
    BY <1>0, <1>6 DEF Upsert, UpsertFails, Follows, Op, Kinds
  <2>4. \A p \in Pages \ Scope(o) : vecs'[p] = vecs[p]
    BY <1>0, <2>2, <2>3 DEF Upserted, Scope, TypeOK
  <2>5. row' = row
    BY <1>6 DEF Upsert, UpsertFails
  <2> QED
    BY <1>0, <2>1, <2>4, <2>5, OneCallMoves
<1>7. CASE CommitIndex(t)
  <2>1. \A p \in Pages \ Scope(o) : row'[p] = row[p]
    BY <1>0, <1>7 DEF CommitIndex, Scope, TypeOK
  <2> QED
    BY <1>0, <1>7, <2>1, OneCallMoves DEF CommitIndex
<1>8. CASE CommitDelete(t)
  <2>1. held[t] \subseteq Scope(o)
    BY <1>0, <1>8 DEF CommitDelete, Inv, Holds, Scope
  <2>2. \A p \in Pages \ Scope(o) : row'[p] = row[p]
    BY <1>8, <2>1 DEF CommitDelete
  <2> QED
    BY <1>0, <1>8, <2>2, OneCallMoves DEF CommitDelete
<1>9. CASE WipeNamespace(t) \/ NamespaceFails(t) \/ WipeRows(t)
  <2>1. Scope(o) = Pages
    BY <1>9, <1>0, WipeScope DEF WipeNamespace, NamespaceFails, WipeRows
  <2>2. \E x : op' = [op EXCEPT ![t] = x]
    BY <1>9 DEF WipeNamespace, NamespaceFails, WipeRows, Goto, Return
  <2>3. Others
    BY <1>0, <2>2 DEF TypeOK
  <2> QED
    BY <1>0, <2>1, <2>3
<1>10. CASE Crash(t)
  BY <1>0, <1>10 DEF Crash, TypeOK
<1> QED
  BY <1>1, <1>2, <1>3, <1>4, <1>5, <1>6, <1>7, <1>8, <1>9, <1>10 DEF Step

\* Another session loses loaded rows only of the call's pages.
LEMMA OthersHold ==
  ASSUME NEW M, NEW B, Inv(M, B), NEW t \in Tasks, Step(t) \/ Crash(t),
         t \in B => ~CommitDelete(t), NEW u \in Tasks, u # t
  PROVE  held'[u] \subseteq held[u] /\ held[u] \ Scope(op[t]) \subseteq held'[u]
<1>0. Active(t) /\ TypeOK
  BY OutsideScope DEF Inv, Typed
<1>1. CASE CommitDelete(t)
  <2>1. held[t] \subseteq Scope(op[t])
    BY <1>0, <1>1 DEF CommitDelete, Inv, Holds, Scope
  <2> QED
    BY <1>0, <1>1, <2>1 DEF CommitDelete
<1>2. CASE WipeRows(t)
  <2>1. Scope(op[t]) = Pages
    BY <1>0, <1>2, WipeScope DEF WipeRows
  <2> QED
    BY <1>0, <1>2, <2>1 DEF WipeRows, TypeOK
<1>3. CASE ~CommitDelete(t) /\ ~WipeRows(t)
  <2>1. held' = held \/ held' = [held EXCEPT ![t] = {}]
    BY <1>3 DEF Step, Crash, ListVectors, EraseBatch, EraseFails, CallOpenAI, OpenAIFails,
      Upsert, UpsertFails, CommitIndex, CommitConflict, CommitFails, WipeNamespace,
      NamespaceFails, RetryFrom, Raise
  <2> QED
    BY <1>0, <2>1 DEF TypeOK
<1> QED
  BY <1>1, <1>2, <1>3

\* The call is still the same, and has committed nothing.
GoesOn(t) ==
  /\ Active(t)' /\ op'[t].kind = op[t].kind /\ op'[t].page = op[t].page
  /\ op'[t].ver = op[t].ver /\ op'[t].alone = op[t].alone
  /\ row' = row /\ held' = held

\* The call has raised.
HasFailed(t) ==
  /\ op'[t].pc = "returned" /\ op'[t].result = "failed"
  /\ op'[t].kind = op[t].kind /\ op'[t].page = op[t].page
  /\ row' = row

\* A step goes on with the call, fails, or is the commit that it answers with.
LEMMA StepEnds ==
  ASSUME TypeOK, NEW t \in Tasks, Active(t), Step(t)
  PROVE  GoesOn(t) \/ HasFailed(t) \/ CommitIndex(t) \/ CommitDelete(t) \/ WipeRows(t)
<1> DEFINE Same(y) ==
       /\ DOMAIN y = DOMAIN op[t]
       /\ y.kind = op[t].kind /\ y.page = op[t].page
       /\ y.ver = op[t].ver /\ y.alone = op[t].alone
<1>0. op[t] \in Op
  BY ActiveType
<1>1. ASSUME NEW y, NEW pc, Same(y), pc \in Waiting, Goto(t, y, pc),
             row' = row, held' = held
      PROVE  GoesOn(t)
  <2>1. op'[t] = [y EXCEPT !.pc = pc]
    BY <1>1 DEF Goto, TypeOK
  <2>2. {"pc", "kind", "page", "ver", "alone"} \subseteq DOMAIN y
    BY <1>0, <1>1 DEF Op
  <2>3. /\ op'[t].pc = pc /\ op'[t].kind = y.kind /\ op'[t].page = y.page
        /\ op'[t].ver = y.ver /\ op'[t].alone = y.alone
    BY <2>1, <2>2
  <2> QED
    BY <1>1, <2>3 DEF GoesOn, Active
<1>2. ASSUME NEW y, Same(y), Raise(t, y), row' = row
      PROVE  HasFailed(t)
  BY <1>2 DEF Raise, Answered, TypeOK, HasFailed
<1>3. ASSUME NEW y, NEW pc, Same(y), pc \in Waiting, RetryFrom(t, y, pc), row' = row
      PROVE  GoesOn(t) \/ HasFailed(t)
  <2>1. {"tries", "kind", "page", "ver", "alone"} \subseteq DOMAIN y
    BY <1>0, <1>3 DEF Op
  <2>2. Same([y EXCEPT !.tries = @ + 1])
    BY <1>3, <2>1
  <2> QED
    BY <1>1, <1>2, <1>3, <2>2 DEF RetryFrom
<1>4. ASSUME ListVectors(t)
      PROVE  GoesOn(t)
  <2> DEFINE n == IF op[t].kind = "delete" THEN Cardinality(Occupied(op[t].page)) ELSE 0
             y == [op[t] EXCEPT !.ids = Occupied(op[t].page), !.removed = n]
  <2>1. Same(y)
    BY <1>0 DEF Op
  <2>2. (\E pc \in Waiting : Goto(t, y, pc)) /\ row' = row /\ held' = held
    BY <1>4 DEF ListVectors, AfterErase, Waiting
  <2> HIDE DEF y
  <2> QED
    BY <1>1, <2>1, <2>2
<1>5. ASSUME EraseBatch(t)
      PROVE  GoesOn(t)
  <2>1. row' = row /\ held' = held
    BY <1>5 DEF EraseBatch
  <2>2. PICK b : \E pc \in Waiting :
          Goto(t, [op[t] EXCEPT !.ids = Remaining(@, b), !.wrote = TRUE], pc)
    BY <1>5 DEF EraseBatch, AfterErase, Waiting
  <2> DEFINE y == [op[t] EXCEPT !.ids = Remaining(@, b), !.wrote = TRUE]
  <2>3. Same(y) /\ \E pc \in Waiting : Goto(t, y, pc)
    BY <1>0, <2>2 DEF Op
  <2> HIDE DEF y
  <2> QED
    BY <1>1, <2>1, <2>3
<1>6. Same([op[t] EXCEPT !.ids = {}]) /\ Same([op[t] EXCEPT !.ids = {}, !.wrote = TRUE])
      /\ Same([op[t] EXCEPT !.tries = 0]) /\ Same([op[t] EXCEPT !.wrote = TRUE])
      /\ Same(op[t])
  BY <1>0 DEF Op
<1>7. ASSUME EraseFails(t)
      PROVE  GoesOn(t) \/ HasFailed(t)
  BY <1>3, <1>6, <1>7 DEF EraseFails, Waiting
<1>8. ASSUME CallOpenAI(t) \/ Upsert(t) \/ WipeNamespace(t)
      PROVE  GoesOn(t)
  BY <1>1, <1>6, <1>8 DEF CallOpenAI, Upsert, WipeNamespace, Waiting
<1>9. ASSUME UpsertFails(t)
      PROVE  GoesOn(t) \/ HasFailed(t)
  BY <1>3, <1>6, <1>9 DEF UpsertFails, Waiting
<1>10. ASSUME OpenAIFails(t) \/ CommitConflict(t) \/ CommitFails(t)
       PROVE  HasFailed(t)
  BY <1>2, <1>6, <1>10 DEF OpenAIFails, CommitConflict, CommitFails
<1>11. ASSUME NamespaceFails(t)
       PROVE  GoesOn(t)
  <2> DEFINE o == [op[t] EXCEPT !.wrote = TRUE]
             more == [o EXCEPT !.tries = @ + 1]
             failed == [o EXCEPT !.nsOk = FALSE]
  <2>1. Goto(t, more, "namespace") \/ Goto(t, failed, "rows")
    BY <1>11 DEF NamespaceFails
  <2>2. Same(more) /\ Same(failed)
    BY <1>0 DEF Op
  <2>3. row' = row /\ held' = held
    BY <1>11 DEF NamespaceFails
  <2> HIDE DEF more, failed
  <2> QED
    BY <1>1, <2>1, <2>2, <2>3 DEF Waiting
<1> QED
  BY <1>4, <1>5, <1>7, <1>8, <1>9, <1>10, <1>11 DEF Step

-----------------------------------------------------------------------------
(* PageIndex by itself: no page is excused and no session holds more.      *)
IndexInv == Inv({}, {})

\* Every step of the system keeps the invariant.
LEMMA InvNext == IndexInv /\ [Next]_vars => IndexInv'
<1> SUFFICES ASSUME IndexInv, [Next]_vars
             PROVE  IndexInv'
  OBVIOUS
<1>1. Typed' /\ TypeOK /\ Inv({}, {})
  BY TypedNext DEF IndexInv, Inv, Typed
<1>2. ASSUME NEW t \in Tasks, Respond(t)
      PROVE  Inv({}, {})'
  BY <1>1, <1>2, IdleKeeps DEF Respond, TypeOK, Active, Waiting, Idle
<1>3. CASE UNCHANGED vars
  BY <1>1, <1>3, InvStutters DEF IndexInv
<1>4. ASSUME NEW t \in Tasks, Start(t) \/ Step(t) \/ Crash(t)
      PROVE  Inv({}, {})'
  BY <1>1, <1>4, StartKeeps, StepKeeps, CrashKeeps
<1> QED
  BY <1>2, <1>3, <1>4 DEF IndexInv, Next

\* The empty index is exact.
LEMMA InvInit ==
  ASSUME NEW M, NEW B, Init
  PROVE  Inv(M, B)
<1>1. \A t \in Tasks : ~Active(t)
  BY DEF Init, Active, Idle, Waiting
<1>2. Typed
  BY <1>1, InitType DEF Typed, Shape
<1> QED
  BY <1>1, <1>2 DEF Inv, Alone, InProgress, Sole, Touches, QuietEven, Exact, Even, Holds,
                    Init

(* Whatever the interleaving of calls, retries, failures and crashes, the  *)
(* vectors of a page that no call works on are those of its row, unless an *)
(* overlap or a failure damaged it and no clean call has repaired it.      *)
THEOREM QuietPagesAreExact == Spec => []QuietPagesExact
<1>1. Init => IndexInv
  BY InvInit DEF IndexInv
<1>2. IndexInv => QuietPagesExact
  BY DEF IndexInv, Inv, QuietEven, Even, QuietPagesExact
<1> QED
  BY <1>1, <1>2, InvNext, PTL DEF Spec

=============================================================================
