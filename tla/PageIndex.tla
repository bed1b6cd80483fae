------------------------------ MODULE PageIndex ------------------------------
(***************************************************************************)
(* The index of one tenant, kept in two stores: the content_pages table    *)
(* (row) and the vectors in the tenant's Pinecone namespace (vecs).        *)
(* app/services/index_service.py changes both, with no transaction across  *)
(* them, in three handlers: index_single_page, delete_page_index and       *)
(* delete_tenant_index.  A handler is a coroutine, so a step here is what  *)
(* it does between two awaits on a store; other handlers run in between.   *)
(*                                                                         *)
(* A call on Pinecone is retried as a whole up to MaxAttempts times        *)
(* (core/retry.py).  It may fail before it has an effect, or have the      *)
(* effect and lose the answer.                                             *)
(***************************************************************************)
EXTENDS Naturals, FiniteSets

CONSTANTS
  Tasks,        \* coroutines that run handlers, web requests and bulk runs
  Pages,        \* the wp_post_ids
  Versions,     \* the payloads a page can be sent with: title, content, url
  Hash,         \* Hash[v]: sha256 of title and content, which leaves url out
  Chunks,       \* Chunks[v]: how many chunks chunk_text makes of v's content
  MaxChunks,    \* bound on Chunks
  BatchSize,    \* ids in one Pinecone delete call, 1000 in the code
  MaxAttempts,  \* EXTERNAL_RETRY_ATTEMPTS
  Failures,     \* whether Pinecone, OpenAI, Postgres and processes may fail
  None          \* no row, no vector, no page

(* Content has at least one character (schemas/index.py), so chunk_text    *)
(* yields at least one chunk (Chunking!FirstChunkKept) and the empty body  *)
(* branch of index_single_page is never taken.                             *)
ASSUME PageIndexAssumption ==
  /\ None \notin Pages \cup Versions
  /\ MaxChunks \in Nat \ {0}
  /\ Chunks \in [Versions -> 1..MaxChunks]
  /\ \A v, w \in Versions : Hash[v] = Hash[w] => Chunks[v] = Chunks[w]
  /\ BatchSize \in Nat \ {0}
  /\ MaxAttempts \in Nat \ {0}
  /\ Failures \in BOOLEAN

VARIABLES
  row,      \* row[p]: the version the content_pages row of p was written for
  vecs,     \* vecs[p][i]: the version whose vector has id page_p_chunk_i
  op,       \* op[t]: the call task t is in, with its local variables
  held,     \* held[t]: rows t's session loaded that have not been deleted since
  damaged   \* ghost: pages an overlap or a failed call may have left uneven

vars == <<row, vecs, op, held, damaged>>

-----------------------------------------------------------------------------
Slots == 0..(MaxChunks - 1)
Blank == [i \in Slots |-> None]
Contents(v) == [i \in Slots |-> IF i < Chunks[v] THEN v ELSE None]
Occupied(p) == {i \in Slots : vecs[p][i] # None}

\* The vectors of p are those of the version its row names, and no others.
Exact(p) == vecs[p] = IF row[p] = None THEN Blank ELSE Contents(row[p])

Waiting == {"list", "erase", "embed", "upsert", "commit", "namespace", "rows"}
Results == {"indexed", "unchanged", "deleted", "not_found",
            "wiped", "wiped_rows_only", "failed"}

Kinds == {"index", "delete", "wipe"}

\* A call in flight.
Op == [kind     : Kinds,
       pc       : Waiting,
       page     : Pages \cup {None},
       ver      : Versions \cup {None},
       existing : BOOLEAN,             \* the handler's SELECT found a row
       ids      : SUBSET Slots,        \* listed ids still to be deleted
       removed  : 0..MaxChunks,        \* what delete_vectors_by_page returns
       tries    : 0..(MaxAttempts - 1),
       nsOk     : BOOLEAN,             \* namespace_ok of delete_tenant_index
       alone    : BOOLEAN,             \* ghost: nothing overlapped the call
       wrote    : BOOLEAN]             \* ghost: it may have changed Pinecone

\* A call that returned or raised.
Answer == [kind : Kinds, pc : {"returned"}, page : Pages \cup {None}, result : Results]

Idle == [pc |-> "idle"]
Active(t) == op[t].pc \in Waiting
Scope(o) == IF o.kind = "wipe" THEN Pages ELSE {o.page}

Call(k, p, v, pc, existing) ==
  [kind |-> k, pc |-> pc, page |-> p, ver |-> v, existing |-> existing,
   ids |-> {}, removed |-> 0, tries |-> 0, nsOk |-> TRUE,
   alone |-> TRUE, wrote |-> FALSE]

Answered(k, p, result) ==
  [kind |-> k, pc |-> "returned", page |-> p, result |-> result]

Init ==
  /\ row = [p \in Pages |-> None]
  /\ vecs = [p \in Pages |-> Blank]
  /\ op = [t \in Tasks |-> Idle]
  /\ held = [t \in Tasks |-> {}]
  /\ damaged = {}

-----------------------------------------------------------------------------
(* How a call enters, goes on and returns.                                 *)

Rivals(t, o) == {u \in Tasks \ {t} : Active(u) /\ Scope(op[u]) \cap Scope(o) # {}}

\* t's call o begins; calls in flight on a page of o are no longer alone.
Enter(t, o) ==
  /\ op' = [u \in Tasks |->
              IF u = t THEN [o EXCEPT !.alone = (Rivals(t, o) = {})]
              ELSE IF u \in Rivals(t, o) THEN [op[u] EXCEPT !.alone = FALSE]
              ELSE op[u]]
  /\ damaged' = damaged \cup
                {p \in Scope(o) : \E u \in Rivals(t, o) : p \in Scope(op[u])}

Goto(t, o, pc) ==
  /\ op' = [op EXCEPT ![t] = [o EXCEPT !.pc = pc]]
  /\ UNCHANGED damaged

\* A call that succeeds alone leaves its pages even, except that indexing a
\* page without a row does not look for old vectors of the page.
Return(t, o, result) ==
  /\ op' = [op EXCEPT ![t] = Answered(o.kind, o.page, result)]
  /\ damaged' = IF o.alone /\ (o.existing \/ result = "wiped")
                THEN damaged \ Scope(o) ELSE damaged

\* An exception leaves the handler; the session is rolled back and closed.
Raise(t, o) ==
  /\ op' = [op EXCEPT ![t] = Answered(o.kind, o.page, "failed")]
  /\ damaged' = IF o.wrote THEN damaged \cup Scope(o) ELSE damaged
  /\ held' = [held EXCEPT ![t] = {}]

\* Mutants of RetryFrom: one attempt too many, and attempts without end.
RetryOnceMore(t, o, pc) ==
  IF o.tries < MaxAttempts
  THEN /\ Goto(t, [o EXCEPT !.tries = @ + 1], pc)
       /\ UNCHANGED held
  ELSE Raise(t, o)

RetryForever(t, o, pc) ==
  /\ Goto(t, o, pc)
  /\ UNCHANGED held

\* tenacity calls the wrapped function again, from its start, or gives up.
RetryFrom(t, o, pc) ==
  IF o.tries + 1 < MaxAttempts
  THEN /\ Goto(t, [o EXCEPT !.tries = @ + 1], pc)
       /\ UNCHANGED held
  ELSE Raise(t, o)

-----------------------------------------------------------------------------
(* index_single_page                                                       *)

Indexed(p, v) == row[p] # None /\ Hash[row[p]] = Hash[v]

SkipUnchanged(t, p, v) ==
  /\ op[t] = Idle
  /\ Indexed(p, v)
  /\ op' = [op EXCEPT ![t] = Answered("index", p, "unchanged")]
  /\ UNCHANGED <<row, vecs, held, damaged>>

\* The hash differs: delete the page's vectors first if it has a row.
StartIndex(t, p, v) ==
  /\ op[t] = Idle
  /\ ~Indexed(p, v)
  /\ Enter(t, Call("index", p, v, IF row[p] = None THEN "embed" ELSE "list",
                   row[p] # None))
  /\ held' = [held EXCEPT ![t] = {p} \ {q \in Pages : row[q] = None}]
  /\ UNCHANGED <<row, vecs>>

\* chunk_text, the embeddings and the search card; neither store is touched.
CallOpenAI(t) ==
  /\ op[t].pc = "embed"
  /\ Goto(t, [op[t] EXCEPT !.tries = 0], "upsert")
  /\ UNCHANGED <<row, vecs, held>>

OpenAIFails(t) ==
  /\ Failures /\ op[t].pc = "embed"
  /\ Raise(t, op[t])
  /\ UNCHANGED <<row, vecs>>

\* Mutant of Upserted: the last chunk is left out.
UpsertedAllButLast(t) ==
  [vecs EXCEPT ![op[t].page] =
     [i \in Slots |-> IF i + 1 < Chunks[op[t].ver] THEN op[t].ver ELSE @[i]]]

\* One upsert call writes every chunk; a higher slot keeps what it had.
Upserted(t) ==
  [vecs EXCEPT ![op[t].page] =
     [i \in Slots |-> IF i < Chunks[op[t].ver] THEN op[t].ver ELSE @[i]]]

Upsert(t) ==
  /\ op[t].pc = "upsert"
  /\ vecs' = Upserted(t)
  /\ Goto(t, [op[t] EXCEPT !.wrote = TRUE], "commit")
  /\ UNCHANGED <<row, held>>

UpsertFails(t) ==
  /\ Failures /\ op[t].pc = "upsert"
  /\ \/ /\ vecs' = Upserted(t)
        /\ RetryFrom(t, [op[t] EXCEPT !.wrote = TRUE], "upsert")
     \/ /\ UNCHANGED vecs
        /\ RetryFrom(t, op[t], "upsert")
  /\ UNCHANGED row

\* UPDATE by primary key needs the loaded row to exist still (otherwise
\* StaleDataError); INSERT needs that there is no row (otherwise IntegrityError).
CanWriteRow(t) ==
  IF op[t].existing THEN op[t].page \in held[t] ELSE row[op[t].page] = None

CommitIndex(t) ==
  /\ op[t].pc = "commit" /\ op[t].kind = "index"
  /\ CanWriteRow(t)
  /\ row' = [row EXCEPT ![op[t].page] = op[t].ver]
  /\ Return(t, op[t], "indexed")
  /\ held' = [held EXCEPT ![t] = {}]
  /\ UNCHANGED vecs

CommitConflict(t) ==
  /\ op[t].pc = "commit" /\ op[t].kind = "index"
  /\ ~CanWriteRow(t)
  /\ Raise(t, op[t])
  /\ UNCHANGED <<row, vecs>>

-----------------------------------------------------------------------------
(* delete_vectors_by_page, used by index_single_page and delete_page_index *)

AfterErase(o) == IF o.kind = "index" THEN "embed" ELSE "commit"

ListVectors(t) ==
  /\ op[t].pc = "list"
  /\ LET found == Occupied(op[t].page)
         o == [op[t] EXCEPT !.ids = found,
                 !.removed = IF op[t].kind = "delete" THEN Cardinality(found) ELSE 0]
     IN  Goto(t, o, IF found = {} THEN AfterErase(o) ELSE "erase")
  /\ UNCHANGED <<row, vecs, held>>

Batches(ids) ==
  {b \in SUBSET ids :
     Cardinality(b) = IF Cardinality(ids) < BatchSize THEN Cardinality(ids) ELSE BatchSize}

\* Mutant of Erased: the prefix of the ids matches other pages, too.
ErasedEverywhere(t, b) ==
  [p \in Pages |-> [i \in Slots |-> IF i \in b THEN None ELSE vecs[p][i]]]

Erased(t, b) ==
  [vecs EXCEPT ![op[t].page] = [i \in Slots |-> IF i \in b THEN None ELSE @[i]]]

\* Mutant of Remaining: the loop over the batches ends after the first one.
RemainingNone(ids, b) == {}

\* What the loop over the batches has left to delete.
Remaining(ids, b) == ids \ b

EraseBatch(t) ==
  /\ op[t].pc = "erase"
  /\ \E b \in Batches(op[t].ids) :
       /\ vecs' = Erased(t, b)
       /\ LET o == [op[t] EXCEPT !.ids = Remaining(@, b), !.wrote = TRUE]
          IN  Goto(t, o, IF o.ids = {} THEN AfterErase(o) ELSE "erase")
  /\ UNCHANGED <<row, held>>

\* The whole function runs again, so the next attempt lists what is left.
EraseFails(t) ==
  /\ Failures
  /\ \/ /\ op[t].pc \in {"list", "erase"}
        /\ UNCHANGED vecs
        /\ RetryFrom(t, [op[t] EXCEPT !.ids = {}], "list")
     \/ /\ op[t].pc = "erase"
        /\ \E b \in Batches(op[t].ids) : vecs' = Erased(t, b)
        /\ RetryFrom(t, [op[t] EXCEPT !.ids = {}, !.wrote = TRUE], "list")
  /\ UNCHANGED row

-----------------------------------------------------------------------------
(* delete_page_index                                                       *)

DeleteNotFound(t, p) ==
  /\ op[t] = Idle
  /\ row[p] = None
  /\ op' = [op EXCEPT ![t] = Answered("delete", p, "not_found")]
  /\ UNCHANGED <<row, vecs, held, damaged>>

\* Mutant of StartDelete: the row is deleted and the vectors forgotten.
StartDeleteRowOnly(t, p) ==
  /\ op[t] = Idle
  /\ row[p] # None
  /\ Enter(t, Call("delete", p, None, "commit", TRUE))
  /\ held' = [held EXCEPT ![t] = {p}]
  /\ UNCHANGED <<row, vecs>>

StartDelete(t, p) ==
  /\ op[t] = Idle
  /\ row[p] # None
  /\ Enter(t, Call("delete", p, None, "list", TRUE))
  /\ held' = [held EXCEPT ![t] = {p}]
  /\ UNCHANGED <<row, vecs>>

\* DELETE by primary key; if the loaded row is gone it matches nothing and
\* the handler still answers success.
CommitDelete(t) ==
  /\ op[t].pc = "commit" /\ op[t].kind = "delete"
  /\ row' = [p \in Pages |-> IF p \in held[t] THEN None ELSE row[p]]
  /\ Return(t, op[t], "deleted")
  /\ held' = [u \in Tasks |-> held[u] \ held[t]]
  /\ UNCHANGED vecs

-----------------------------------------------------------------------------
(* delete_tenant_index                                                     *)

StartWipe(t) ==
  /\ op[t] = Idle
  /\ Enter(t, Call("wipe", None, None, "namespace", FALSE))
  /\ UNCHANGED <<row, vecs, held>>

WipeNamespace(t) ==
  /\ op[t].pc = "namespace"
  /\ vecs' = [p \in Pages |-> Blank]
  /\ Goto(t, [op[t] EXCEPT !.wrote = TRUE], "rows")
  /\ UNCHANGED <<row, held>>

\* Pinecone answers 404 for a namespace that has no vectors.
NamespaceAbsent == \A p \in Pages : vecs[p] = Blank

\* Every PineconeException is retried and then becomes ServiceUnavailableError
\* ("Search index"), in whose text delete_tenant_index finds no "404"; it
\* notes the failure and goes on to the rows.
NamespaceFails(t) ==
  /\ op[t].pc = "namespace"
  /\ \/ (Failures \/ NamespaceAbsent) /\ UNCHANGED vecs
     \/ Failures /\ vecs' = [p \in Pages |-> Blank]
  /\ LET o == [op[t] EXCEPT !.wrote = TRUE]
     IN  IF o.tries + 1 < MaxAttempts
         THEN Goto(t, [o EXCEPT !.tries = @ + 1], "namespace")
         ELSE Goto(t, [o EXCEPT !.nsOk = FALSE], "rows")
  /\ UNCHANGED <<row, held>>

WipeRows(t) ==
  /\ op[t].pc = "rows"
  /\ row' = [p \in Pages |-> None]
  /\ IF op[t].nsOk
     THEN Return(t, op[t], "wiped")
     ELSE /\ op' = [op EXCEPT ![t] = Answered("wipe", None, "wiped_rows_only")]
          /\ damaged' = damaged \cup Pages
  /\ held' = [u \in Tasks |-> {}]
  /\ UNCHANGED vecs

-----------------------------------------------------------------------------
(* Failures of the database and of processes                               *)

CommitFails(t) ==
  /\ Failures /\ op[t].pc \in {"commit", "rows"}
  /\ Raise(t, op[t])
  /\ UNCHANGED <<row, vecs>>

\* The process that runs t stops; nobody receives t's answer.
Crash(t) ==
  /\ Failures /\ Active(t)
  /\ op' = [op EXCEPT ![t] = Idle]
  /\ damaged' = IF op[t].wrote THEN damaged \cup Scope(op[t]) ELSE damaged
  /\ held' = [held EXCEPT ![t] = {}]
  /\ UNCHANGED <<row, vecs>>

\* The response is sent and the task may serve another request.
Respond(t) ==
  /\ op[t].pc = "returned"
  /\ op' = [op EXCEPT ![t] = Idle]
  /\ UNCHANGED <<row, vecs, held, damaged>>

Start(t) ==
  \/ \E p \in Pages, v \in Versions : SkipUnchanged(t, p, v) \/ StartIndex(t, p, v)
  \/ \E p \in Pages : DeleteNotFound(t, p) \/ StartDelete(t, p)
  \/ StartWipe(t)

Step(t) ==
  \/ ListVectors(t) \/ EraseBatch(t) \/ EraseFails(t)
  \/ CallOpenAI(t) \/ OpenAIFails(t) \/ Upsert(t) \/ UpsertFails(t)
  \/ CommitIndex(t) \/ CommitConflict(t) \/ CommitDelete(t) \/ CommitFails(t)
  \/ WipeNamespace(t) \/ NamespaceFails(t) \/ WipeRows(t)

Next == \E t \in Tasks : Start(t) \/ Step(t) \/ Crash(t) \/ Respond(t)

Spec == Init /\ [][Next]_vars

\* Every awaited call returns or raises, so a call in flight keeps moving.
FairSpec == Spec /\ \A t \in Tasks : WF_vars(Step(t))

-----------------------------------------------------------------------------
TypeOK ==
  /\ row \in [Pages -> Versions \cup {None}]
  /\ vecs \in [Pages -> [Slots -> Versions \cup {None}]]
  /\ op \in [Tasks -> Op \cup Answer \cup {Idle}]
  /\ held \in [Tasks -> SUBSET Pages]
  /\ damaged \in SUBSET Pages

Quiet(p) == \A t \in Tasks : Active(t) => p \notin Scope(op[t])

(* The two stores agree on every page that no call is working on, unless   *)
(* calls on the page overlapped or a call on it failed after it had        *)
(* touched Pinecone, and that no re-index, delete or tenant wipe has       *)
(* repaired since: one clean call alone brings any page back in step.      *)
QuietPagesExact == \A p \in Pages \ damaged : Quiet(p) => Exact(p)

(* What a handler answers is true at the moment it answers, when nothing   *)
(* overlapped it, whatever state earlier calls left behind: an indexed     *)
(* page has its row and every one of its chunks; after a delete or a wipe  *)
(* neither store has anything of the page; a delete that was not retried   *)
(* counts the vectors it removed from a page in step; a wipe whose         *)
(* namespace delete failed still leaves no row.                            *)
Returns(t, results) ==
  Active(t) /\ op[t].alone /\ op'[t].pc = "returned" /\ op'[t].result \in results

SoloAnswersTrue ==
  [][\A t \in Tasks :
       /\ Returns(t, {"indexed"}) =>
            LET p == op[t].page  v == op[t].ver
            IN  row'[p] = v /\ \A i \in 0..(Chunks[v] - 1) : vecs'[p][i] = v
       /\ Returns(t, {"deleted", "wiped"}) =>
            \A p \in Scope(op[t]) : row'[p] = None /\ vecs'[p] = Blank
       /\ Returns(t, {"deleted"}) =>
            LET p == op[t].page
            IN  (op[t].tries = 0 /\ p \notin damaged) => op[t].removed = Chunks[row[p]]
       /\ Returns(t, {"wiped_rows_only"}) => \A p \in Pages : row'[p] = None]_vars

(* Every call ends: retries are bounded, so each handler answers, or its   *)
(* process stops.                                                          *)
EveryCallEnds == \A t \in Tasks : Active(t) ~> ~Active(t)

-----------------------------------------------------------------------------
(* What comments and docs say of the index, and the code does not do.      *)

(* "Content sync fails: keep existing index" (docs/01): when an index call *)
(* fails, the vectors of the version the page was indexed with are there.  *)
FailedSyncKeepsIndex ==
  \A t \in Tasks :
    (op[t].pc = "returned" /\ op[t].kind = "index" /\ op[t].result = "failed")
      => LET p == op[t].page
         IN  row[p] # None => \A i \in 0..(Chunks[row[p]] - 1) : vecs[p][i] = row[p]

(* "Prevents the concurrent delete-then-upsert race in index_single_page"  *)
(* (process_bulk_index): once no call is in flight the vectors of each     *)
(* page are those its row names.                                           *)
NoReindexRace == \A p \in Pages : Quiet(p) => Exact(p)
=============================================================================
