# A verification project for the HeroIQ AI backend

The HeroIQ backend indexes the pages of WordPress sites ("tenants") and answers
searches over them. It is a FastAPI web service, run as several Gunicorn
processes, and an arq worker; it keeps its state in Postgres, Pinecone and Redis
and calls OpenAI for embeddings and search cards. Single handlers are short. What
is hard is that almost every one of them changes two stores with no transaction
across them, that several run at once, and that each awaited call may fail.

This directory holds TLA+ modules of the parts where that matters, TLC
configurations that check them, and proofs of the main results for every value of
the constants.

## 1. Inventory

| Part (under `src/app/`) | State | Operations | Interacts with | What is hard | What makes it correct |
|---|---|---|---|---|---|
| Page index: `services/index_service.py`, `pinecone_service.py`, `models/content_page.py`, `api/v1/index.py` | row per page in `content_pages`; vectors `page_<id>_chunk_<i>` in the tenant's Pinecone namespace | index a page, delete a page, wipe a tenant | OpenAI, Pinecone, Postgres; run by web requests and by bulk runs | two stores, no transaction; overlapping calls on a page; retries of calls that did take effect; crashes | row and vectors agree whenever nothing is at work and nothing went wrong; one clean call repairs; answers are true |
| Bulk jobs: `index_service.py`, `worker.py`, `queue.py`, `models/indexing_job.py` | `indexing_jobs` row; arq's queue, try counter and in-progress key in Redis | request, run, complete, fail, sweep at start-up, status | page index for every page; arq | delivery at least once, timeouts by cancellation that leave a thread behind, worker restarts, two workers, two runs of a tenant, removals whose rows go last | a job runs once at a time, ends, counts every page, is swept only when orphaned; what a run indexed is there, what it removed is gone, an interrupted removal is found again |
| Chunking: `services/chunking_service.py` | none | cut a text into windows | page index | boundaries of window, overlap and minimum | every page has a chunk, little or nothing is lost |
| Rate limiter: `services/rate_limiter.py` | bucket per tenant and category in Redis | consume a token | every tenant endpoint | clocks of several processes, expiry, outages | sustained rate and burst; honest Retry-After |
| Search: `services/search_service.py` | none | search, debug trace | OpenAI, Pinecone | raw and rounded scores | best chunk per page, right order, trace tells the truth |
| External retry: `core/retry.py`, `core/exceptions.py`, `embedding_service.py`, `llm_service.py` | none | call with retries | OpenAI, Pinecone | lost answers, which errors are retried | bounded attempts, 503 at the end |
| Usage ledger: `models/api_usage_log.py`, `openai_pricing.py` | `api_usage_logs` | log a call's tokens and cost | page index, search, brand colours | handlers that fail after the call; two levels of retry; a tenant deleted on the way | no row is made up, every answer agrees with the rows it left, what a call can cost is bounded |
| Clients: `queue.py`, `rate_limiter.py`, `main.py` | lazily created pools | get, close | bulk jobs, limiter | two first requests | one pool, closed at shutdown |
| Brand colours: `services/brand_color_*.py`, `image_input.py`, `api/v1/brand.py` | none | pixel, LLM and hybrid extraction | OpenAI, usage ledger | an odd answer of the model; the tenant checked before the row is written | exact colours survive a failed labelling; a cost is named exactly when it is logged |
| Gate: `api/deps.py` | none (reads `Tenant`) | check token and tenant | all endpoints | little | only active tenants pass |
| Session, migrations, health, settings, app | connections | wiring | all | little | |

`PROJECT.json` lists the hazards of the code, each at its line, with the
properties that watch it.

## 2. Modules

    PageIndex      <- MCPageIndex,     PageIndex_proofs <- PageAnswers_proofs
    PageIndex      <- BulkIndex   <- MCBulkIndex, BulkIndex_proofs (-> PageIndex_proofs)
    BulkJobs       <- MCBulkJobs,      BulkJobs_proofs
    Chunking       <- MCAlgorithms,    Chunking_proofs
    SearchRanking  <- MCAlgorithms,    SearchRanking_proofs
    TokenBucket    <- RateLimiter <- MCRateLimiter, RateLimiter_proofs
    UsageLedger    <- MCUsageLedger,   UsageLedger_proofs

An `MC` module EXTENDS its specification and only adds model values and the
definitions its `.cfg` files substitute for constants, or a specification that
restricts it to part of its behaviours. A `_proofs` module
EXTENDS the specification and TLAPS. Definitions marked *Mutant* in a module are
plausible mistakes in the definition below them; nothing uses them, and each
breaks a property when it takes that definition's place.

### PageIndex

One tenant. `row[p]` is the version (title, content, url) the `content_pages` row
of page `p` was written for; `vecs[p][i]` the version whose vector has the id
`page_p_chunk_i`. `op[t]` is the call task `t` is in, with its local variables;
a task is a coroutine of a web process or of the worker. `held[t]` are the rows
`t`'s session loaded and nobody has deleted since, which decides whether a later
UPDATE by primary key finds them. `Hash[v]` leaves out the url, as
`_hash_content` does.

A step is what a handler does between two awaits on a store:

| Code | Actions |
|---|---|
| `index_single_page`: SELECT and hash check | `SkipUnchanged`, `StartIndex` |
| `delete_vectors_by_page` (list, then batches) | `ListVectors`, `EraseBatch`, `EraseFails` |
| chunking, embedding, search card | `CallOpenAI`, `OpenAIFails` |
| `upsert_vectors` | `Upsert`, `UpsertFails` |
| the row and its commit | `CommitIndex`, `CommitConflict`, `CommitFails` |
| `delete_page_index` | `DeleteNotFound`, `StartDelete`, then the deletion steps, `CommitDelete` |
| `delete_tenant_index` | `StartWipe`, `WipeNamespace`, `NamespaceFails`, `WipeRows` |
| `_pinecone_call` and tenacity | `RetryFrom`, `Raise` |
| process death, response | `Crash`, `Respond` |

A Pinecone call that fails may have had its effect already; the retry runs the
whole wrapped function again, which for a delete means from the listing. The
upsert of one page and the deletion of one batch are atomic at Pinecone. CallOpenAI
stands for both OpenAI calls, which touch neither store.

Three fields are ghost state: `damaged` (pages that overlapping calls or a failed
call may have left uneven), `op[t].alone` and `op[t].wrote`. No guard reads them.

### BulkJobs

One tenant's bulk jobs. `req`, `job` and `started` are the web request, the
`indexing_jobs` row and the age of `started_at`; `queue`, `tries` and `lock` what
arq keeps in Redis; `worker`, `stale` and `run` the worker processes, the ids
their start-up sweep selected, and the runs in progress. Time is counted in ticks
of ages and expiries. arq is outside the repository and is modelled from the way
`WorkerSettings` configures it: delivery at least once, `max_tries`, an
in-progress key that outlives `job_timeout`, cancellation at the timeout and at
shutdown. Indexing a page is one step that succeeds, fails or breaks the session;
what it does to the stores is in `BulkIndex`.

| Code | Actions |
|---|---|
| `process_bulk_index` | `Join`, `Check`, `Insert`, `Enqueue`, `RequestFails`, `RequestStops` |
| arq: start, drop, end, time out a task | `Pick`, `Drop`, `Finish`, `Timeout` |
| `run_bulk_index_job` | `Begin`, `PageDone`, `PageFails`, `Detect`, `Complete`, `BreaksOff`, `MarkFailed`, and the failing commits `BeginFails`, `MarkFails` |
| `get_job_status` | `StatusReturns` (it changes nothing) |
| `sweep_stale_jobs`, worker start and stop | `StartWorker`, `Sweep`, `Shutdown`, `Crash` |

`spoiled` is ghost state: the jobs that one of four things befell which can keep
them from their end.

### BulkIndex

The composition of a bulk run with `PageIndex`: the calls a run makes are the calls
of `PageIndex`, by a task that holds one session for the whole run, between web
requests by other tasks. `bulk[w]` is the run that is task `w`: the list of the
request (a version for each listed page; a list that names a page twice is not
modelled), the pages still to do, those that failed and those that were skipped,
and what deletion detection found and has still to come to. The row of
the job and its delivery stay in `BulkJobs`; here a run begins, and ends in one
of four ways.

| Code | Actions |
|---|---|
| the page loop, `index_single_page` for each | `BeginRun`, `TakePage`, `WorkOn`, `CountPage` |
| a commit of a page fails: no rollback, so the refresh raises too | `PageBreaks`, then `RunFails` |
| deletion detection: SELECT, vectors page by page, one commit for all rows | `SelectRows`, `RemoveVectors`, `WorkOn`, `MarkRow`, `CommitRemoval` |
| completed; the outer except clause | `Complete`, `RunFails` |
| the worker is killed; arq cancels (timeout, SIGTERM) | `WorkerDies`, `Cancel` |
| `run_in_executor` under a cancelled coroutine | `late`, `ThreadGoesOn` |
| the endpoints of `api/v1/index.py` | `WebStarts`, `WebGoesOn` |

Cancelling a coroutine that waits for `run_in_executor` does not stop the thread:
the upsert or the batches of a delete go on after the run is over, and no handler
sees their result. Such threads are the set `late`.

Ghost state: `crossed` (found pages that others have worked on since), `alone`
(nothing else happened since the run began); the ghosts of `PageIndex` are kept
up by every action here.

### Chunking, SearchRanking

Algorithms, as state machines of their loops; `MCAlgorithms` steps through either.
`Chunking` knows a window by its first token.

`SearchRanking` runs the dedup loops of `search_pages` and of `debug_search_pages`
side by side. `matches` is how the namespace ranks for the query. The two ask
Pinecone for different numbers of matches: the search for `SearchTopK`
(`SEARCH_TOP_K`, 20), whose positions are `Live`, the trace for its caller's `topK`
(1 to 100). A match without a `wp_post_id` raises in the search (`raised`, the
KeyError of `search_service.py:50`) and is passed over by the trace (`DebugKept`
is not reached). Scores are integers in parts of which `Unit` make 0.01. `Order` is
the stable sort of Python: positions decide between equal scores. That a query for
more matches begins with the matches of a query for fewer is an assumption about
Pinecone, whose search is approximate; nothing in the repository says it.

### RateLimiter and TokenBucket

`TokenBucket` is what the docstring promises, as far as the times that requests
bring allow: a level that fills between the times of two requests and from which a
passing request takes one token, and that is never forgotten. `RateLimiter` is the
code: a worker reads its clock (`Send`), Redis runs the script atomically with that
time, up to `MaxDelay` ticks later and in any order with the scripts of others
(`Grant`, `Refuse`), the key is refilled only when used and expires when not, or
Redis is down (`Unavailable`). The refinement maps `level` to the key's `tokens`
and `time` to its `ts`, as the last script left them, and what has expired is shown
to be what would have been full. Time and tokens are integers: a tick is a fraction
of a second, and `Cost` parts make one token, so that no division is needed. The
ghost `twice` is the time that scripts with an older time than the one before have
set `ts` back by, all together.

### UsageLedger

One tenant and the requests that call OpenAI: `search`, `debug` (the search
trace), `index` (`POST /index`), `bulkPage` (a page of a bulk run), `colors` and
`hybrid`. `logged[r]` counts the rows of request `r` in `api_usage_logs`;
`op[r].pending` those in its session that are not committed. A page stands for one
that is really indexed: what skips it or fails before its first OpenAI call is in
`PageIndex` and leaves no usage.

| Code | Actions |
|---|---|
| `get_active_tenant_id`, start of a handler | `Start` |
| `resolve_image_bytes`, `validate_and_sniff`, and for hybrid `extract_pixel_colors` | `AcceptImage`, `RefuseImage`, `ImageBreaks`, `NoColours` |
| one attempt of an `@openai_retry` call | `AttemptFails`, `Rejected`, or one of the answers |
| `OPENAI_RETRYABLE` caught after the last attempt | `GivesUp`: 503, or the fallback of hybrid |
| the model's answer read, `_log_usage` | `HearUsable`, `HearUnusable`, `HearOddShape` |
| `_maybe_log_usage`: SELECT, then INSERT and commit | `LookForTenant`, `Commit`, `CommitFails` |
| Pinecone query or upsert | `CallPinecone`, `PineconeFails` |
| the except clause of the bulk loop and its commit | `Failed`, `Commit` |
| a response that cannot be built after the commit | `Outcomes` |
| delete of the tenant by the super-admin, process death | `TenantDeleted`, `Crash` |

`op[r].billed` is ghost state: how many completions OpenAI made for the request.
A request that timed out may have been completed, and the OpenAI client sends
again on its own (twice, by default) within one attempt of tenacity.

## 3. Properties

*PageIndex.* `QuietPagesExact`: the row and the vectors of a page no call is
working on agree, unless overlapping calls or a failed call left it uneven and no
clean call has repaired it. The exception is in the ghost set `damaged`, and the
weight of the property is in when a page leaves it: after one successful re-index,
delete or wipe that ran alone, whatever came before. `SoloAnswersTrue`: what a
call that nothing overlapped answers is true at that moment, with retries and lost
answers on the way, `chunks_removed` included when the delete was not retried. `EveryCallEnds`: every call answers or its process stops.

*BulkJobs.* `RunsExclusive`, `SelectsOrphans`, `CountersTrue`. `FailuresTold`: of a
job with failed pages exactly one error is left, that of a page, unless an earlier
try had marked the job failed, when it is the job's own and the page's is lost.
`ReopenedOnlyByRetry`: an end is final in the first try of a task, exceptions
included. `AcceptedResolves`: every accepted job ends, unless it timed
out, was dropped after too many tries, or Postgres failed when a run began or when
its failure was to be marked; nothing else keeps a job from its end.

*BulkIndex.* `StoresAgree`: `QuietPagesExact` for runs, removals and late threads,
with a clean removal as one more way back. `RunMirrorsSite`: what a run that nothing
overlapped leaves. A page it indexed has its row and every chunk of the version in the
list, whatever earlier failures left behind. A page it skipped has a row with
that version's hash and no more is looked at, so its vectors are right only if
the page was not damaged before. An unlisted page has no row, and no vectors if the
run found it by its row. Listed pages that failed are excepted, and so are vectors
of an unlisted page without a row, which no later call finds. `RemovalFoundAgain`: at
no step of a removal, the cut-off ones included, is there a page whose row is gone
and whose vectors are not, so the next run's SELECT finds what is left to do. This
is why the rows go in one commit after all vectors.

*Chunking.* `FirstChunkKept`, `OnlyTailLost`, `ChunksOverlap`.

*RateLimiter.* `RateBound`: grants never exceed the burst, the sustained rate over the
time there was, and the time that came in twice because a script set `ts` back; in
particular expired keys add nothing, however late the scripts are.
`SustainedRate` is the docstring's promise, without `twice`, and does not hold.
`ImplementsBucket`, `RetryAfterHonest`.

*SearchRanking.* `RanksByBestChunk`. `LiveRankTrue`: a `live_rank` up to the limit is
the page's place in a search if the chunk that has it is among the
`SEARCH_TOP_K` best matches; if it is not, a search does not show the page at all.
Both speak of searches that do not raise.

*UsageLedger.* `LedgerTrue`: whatever was retried, a request has no more rows than
calls that were answered, and nothing is logged for a tenant that is gone.
`UsageLogged`: for every kind of request and every answer, which rows there are
when it is answered; a refused image costs nothing. It says where usage is lost, too:
`POST /index` loses all of it when a service fails it, while a page of a bulk run
keeps it. It is what the code does, and less than the schema document says (4.). `SpendBounded`:
the two retries multiply, and no more than that.

Each is stated in words above its definition.

## 4. Runs

Bounds, and why they suffice:

* `PageIndexFaults`: two tasks on one page, versions `long` (two chunks), `longUrl`
  (same hash as `long`) and `short` (one chunk); `BatchSize` 1, so a delete takes
  two batches; two attempts, so there is a first, a last and a retried call. Calls
  on different pages share nothing but the wipe, so overlaps need one page;
  `QuietPagesExact` is proved for any pages.
* `BulkIndex`: two tasks on two pages of one chunk, in an old and a new version.
  One task is the worker's run; the other serves web requests or is another run of
  the tenant, so there are pages listed and unlisted, a removal of two pages, and
  two runs with different lists. `Parts` of `MCBulkIndex` keeps one of each set of
  like cases: pages share nothing but wipes and runs, so web requests are about
  `p2` alone, the other run lists `p1` alone, and threads come late at `p2` alone.
  One attempt and one chunk: retries and batches are checked in `PageIndexFaults`.
* `BulkJobsFaults`: one request that gets its job and one that may join it, two
  workers, two tries and two stops, so that the tries can be used up and a worker
  can start while another runs; two pages, so that a run has a middle. `JobTimeout`
  equals `StaleAfter`, as 1800 seconds and 30 minutes are, and the in-progress key
  lives one tick longer. With three tries, as in the code, and three stops it
  passes as well, in five times the time.
* `Algorithms`: for `Chunking` the settings of `config.py` and all lengths from 0 to
  700 tokens, more than three windows, which covers every position of the last
  window. For `SearchRanking` up to four matches over three pages or without one;
  `SearchTopK` 3 and a `topK` from 1 to 4, so that the trace asks for less, as many
  or more than the search; four scores that
  round down to 0.84 and up to 0.85, so raw and rounded scores compare in every
  way. Rounding ties do not occur.
* `RateLimiter`: a bucket of two tokens of five parts that gains three parts a
  second, so it needs three and a third to fill and its key lives six (`Slack` 3);
  scripts up to two seconds late (`MaxDelay` 2, the most that `Slack` allows). 13
  seconds are enough for it to run dry, for its key to expire twice, and for a
  script sent before an expiry to run after it.
* `UsageLedger`: three attempts, as in `config.py`, of three sends, the client's
  default. Requests share nothing but the tenant's row, so one request of any kind
  beside the deletion of the tenant reaches every case; the theorems are about any
  set of requests.

Deadlock is checked except in `Algorithms`, whose loops end, and in `UsageLedger`,
whose requests are made once. Symmetry is used only in
runs without liveness.

### Where the code and what is said of it differ

Each of these runs checks one property, taken from a doc or a comment, and TLC
finds a behaviour of the code that violates it.

| Run | What happens |
|---|---|
| `PageIndexFailedSync` | Old vectors are deleted before new ones exist; a failing sync leaves a page that search cannot find. The docs say the old index is kept. Sending the old content again then answers "content_unchanged", for the row still has its hash. |
| `PageIndexRace` | Single-flight of bulk runs does not keep `POST /index` away from a page the worker is re-indexing. |
| `BulkJobsLostJob` | Committed, not enqueued: queued for ever, and every later request joins it. |
| `BulkJobsTimedOut` | Cancellation passes by `except Exception`; the row stays "processing". |
| `BulkJobsStatus` | `{"job_error": ...}` is not a `JobError`: asking for the status of a failed job raises. The docs say its errors are returned. |
| `RateLimiterOutOfOrder` | An older time sets `ts` back, time counts twice, and more is granted than the sustained rate and the burst (`SustainedRate`). |

The modules have these further differences in their actions; no run of their own
states them.

* Single-flight: `Check` and `Insert` are two steps, so two jobs of a tenant may be
  active at once (`index_service.py:216-229`), where the docstring (203) has only one
  run of a tenant at a time. `BulkIndex` has the two runs: each removes what the
  other's list has and its own has not.
* An exception in a run ends its job. The comment at `index_service.py:320-322` says
  that "Arq will retry the task up to max_tries"; arq ends a task whose function raised
  (unless it raised `Retry`), and tries again only tasks whose worker stopped.
  `Finish` follows `MarkFailed`, and `ReopenedOnlyByRetry` says it.
* A page whose vectors were lost and whose row was not, as after a failed re-index,
  is skipped as unchanged by every later run that lists the row's version
  (`SkipUnchanged`). `RunMirrorsSite` excepts such pages.
* A page that `POST /index` adds while a bulk run is under way is removed at its end
  (`ToRemove`).
* One failed commit of a page ends the whole job, for the session is not rolled back
  before it is used again (`PageBreaks`).
* The thread of a cancelled run goes on (`ThreadGoesOn`).
* `chunks_removed` of a retried delete is what the last attempt found (`EraseFails`).
* A wipe of an absent namespace reports failure: the 404 has become "Search index"
  before `delete_tenant_index` looks for "404" in it (`NamespaceFails`).
* Only the first error of a job is stored, because the JSONB list is changed in
  place (`AddError`), where `docs/03-api-endpoints.md:106-121` shows failed pages with
  their errors and `docs/01-technical-architecture.md:251` has them returned. After a
  try that ended in `failed` and a stop, the one error that stays is the job's, and
  none of the pages that fail in the next try is told; nor can the status be returned
  (`BulkJobsStatus`).
* `search_service.py:118-120` and `api/v1/search.py:55-56` say that `live_rank` is what
  the live search would have kept. With `top_k` above `SEARCH_TOP_K` a page of which
  only later chunks match has a rank and is in no search; and where a match has no
  `wp_post_id` the trace gives ranks and the search raises.
* `docs/02-database-schema.md:76` says that `api_usage_logs` "Logs every OpenAI API call
  for cost monitoring". A `POST /index` that is answered 503 after an embedding was
  billed logs nothing (`Failed`, `Answered`); nor does the search trace, by its own
  docstring (`search_service.py:86-90`), nor an attempt that timed out although
  OpenAI completed it. A page that a bulk run failed keeps its rows.
* A broken image that `verify()` lets pass, or for which Pillow or httpx raises an
  error nobody expects, is a 500 (`ImageBreaks`) where `image_input.py:11-12` says
  that validation failures are a clean 400.
* The sweep updates by id what another worker may have begun again (`Sweep`).
  docker-compose starts one worker; two run side by side while a deploy replaces
  one by the other.
* A later window of 41 to 49 tokens is dropped with up to nine tokens that no chunk
  has. `config.py:46-47` says that `MIN_CHUNK_SIZE` "only drops the redundant trailing
  tail", which would need 41 and not 50 with an overlap of 40; `OnlyTailLost` says how
  much goes.
* `label_pixel_colors` says that any LLM or parse failure returns the exact colours
  (`brand_color_llm_service.py:202-204`); a permanent OpenAI error (`Rejected`) and
  JSON like `{"labels": null}` (`HearOddShape`) end in a 500 instead.
* A slow search card fails the page (`GivesUp`); `docs/01-technical-architecture.md:249`
  says that the card is skipped and title and content are used.
* A chunk may replace a better one of its page whose score was rounded down
  (`Beats`); `RanksByBestChunk` bounds the harm to scores that round to the same.

## 5. Fairness

* `PageIndex!FairSpec`: weak fairness of `Step(t)`. Every call on a store or on
  OpenAI returns or raises (clients have timeouts and tenacity a bounded number of
  attempts), so a coroutine keeps moving. For Pinecone this leans on its SDK: `_run_sync`
  awaits the executor with no timeout of its own, and a call that the SDK never
  returned from would hold the handler for ever. Nothing says that calls succeed, that a
  failure does not happen, or that new calls arrive.
* `BulkJobs!Fairness(requests)`, of `MCBulkJobs!OneJobSpec`: weak fairness of the
  event loops (`WebStep` of the request, `TaskStep`, `Pick`/`Drop`), of
  `StartWorker`/`Sweep` (the platform restarts a stopped container) and of time.
  Weak is enough: a task stays pickable until it is picked. Nothing says that
  Postgres and Redis answer, that a run fits in its timeout, or that no process
  stops; what these can do to a job is in `spoiled`, and `AcceptedResolves` holds of
  all others. A job whose request stopped before the enqueue was never accepted:
  that is `BulkJobsLostJob`.

## 6. Proofs

All theorems hold for every value of the constants that the `ASSUME` of their
module allows; a theorem that needs more names it in its own `ASSUME`. Every safety
property that a passing run checks is stated by one of them, for the full
specification also where the run takes a restriction of it (`PartsSpec`,
`OneJobSpec`, `CutsText`/`RanksAnswer`).

### PageIndex_proofs, PageAnswers_proofs

* `TypeCorrect`, `Spec => []TypeOK`. The types of fields depend on the kind of a
  call, so the induction is over `Typed`, which adds to `TypeOK` what page, version
  and pc go with each kind.
* `QuietPagesAreExact`, `Spec => []QuietPagesExact`. The property is not
  inductive: it says nothing while a call is at work. `Inv` adds two parts.
  `Alone`: a call has a page to itself when nothing overlapped it, or when the page
  is not in `damaged`; then no other call touches the page. `InProgress`: what such a
  call has done to the page so far, at each pc - before its first write the page is as it
  was; after the listing, every occupied slot is among the ids left to delete;
  after the deletion no slot is; after the upsert the slots are those of the
  version. Two lemmas, `Local` and `OthersHold`, say that a step of one task leaves
  the claims about the other tasks alone; then there is one lemma per action.
* `Inv(M, B)` has two parameters that the bulk runs need: `M`, pages whose vectors
  are gone and whose row is still there, and `B`, tasks whose session holds more
  rows than that of the page they delete. A lemma per action holds for any `M` and `B`;
  `PageIndex` by itself has `Inv({}, {})`.
* `AnswersAreTrue`, `Spec => SoloAnswersTrue`. What an answer says is decided
  steps before it is given, so `SoloInv` adds to `Inv({}, {})` what a call that
  nothing overlapped has done on a page that may be damaged: at its commit every
  chunk of its version has been sent (`Sent`), and a delete at its first attempt has
  counted all vectors of the row it found (`Removes`). `StepEnds` shows that a step of a
  handler goes on, fails, or ends with the answer its action says.

### BulkIndex_proofs

`BulkTypes`, `StoresAgreeBesideRuns`, `RemovalIsFoundAgain` and `RunsMirrorTheSite`,
the four invariants of `BulkIndex`, all from `BulkInv`:

* `Stores`: `Inv(M, B)` of `PageIndex_proofs`, with `M` the pages that a removal has
  marked and `B` the runs in their removal. So the lemmas about the calls serve here
  unchanged, and what is left is what a run does between its calls, and late threads,
  which are calls of nobody.
* For each run, `Placed`: the call it is in is one of its loop or of its removal;
  `Noticed`: nobody works on a page that it has found without the page being in
  `crossed`; `Removed`: of the pages it has to itself, each has its row until the
  commit, is in its session, and has no vectors once the removal has passed it;
  `Solitary`: a run that nothing overlapped is the only one at work; `Mirrors`:
  how much of the list such a run has brought into the index. `Fills`, in a
  second induction on top of the first, is the part about vectors: the pages an
  undisturbed run has counted as indexed have every chunk of their version. A commit
  comes from an upsert of the same call (`CommitComesFromUpsert`), and nothing in the
  rest of the run touches the page again (`OwnFills`, `OthersFill`).

`Noticed` is what makes `Removed` inductive - without it a page could get a new
row while the removal waits - and `Solitary` does the same for `Mirrors`. The proof
goes by action; what others may do to a run is in one place (`Flagged`,
`SameRun`). TLC checked every part on the instance of `BulkIndex.cfg`, and in random
behaviours of a larger one, before it was proved.

### BulkJobs_proofs

`TypesHold`, `NoRunTwice`, `PagesAreCounted`, `FailedPagesAreTold`, and the two
action properties `SweepFindsOrphans` and `EndsAreFinal`, from
`Inv == Typed /\ \A r : Sound(r)`:

* `Holds` is why a job is not run twice: while a run lives, the age of the run and
  the time its in-progress key has left are `LockTtl` together, and a run ends before
  it is older than `JobTimeout < LockTtl`; so the key is there.
* `StartedInRun` is why the sweep spares live runs: `started_at` is no older than the
  run that set it, which has not reached the age the sweep asks for.
* `CountedBy` ties the counters to the page a run is at: what earlier tries counted
  is at most `Total` pages each. Only with it does `Counted >= Total` at completion
  follow.
* `Stopped` and `FirstTry` say that on the first try nobody but the run changes the
  row, so what reopens an end is a later try, and there was a stop before it.
* `Ordered` is what the parts above lean on: no task before its request. `Tells` says
  which error stays: a failed page leaves one, and in the first try the job's own
  stands alone only when no page has failed and the run is over.

### RateLimiter_proofs, Chunking_proofs, SearchRanking_proofs, UsageLedger_proofs

* `RateLimiter_proofs!TypesHold`, `RetryAfterIsHonest`, `RateBoundHolds` and
  `Implementation` hold in whatever order scripts run. The last two need
  `DelayAssumption`: no script is under way for longer than the slack of the ttl less a
  second, 59 seconds in the code. Then the refill of an expired key is the refill it would have
  had, even for a script that was sent before the expiry, because the ttl is the time
  to fill and the slack (`TtlRefills`). The assumption is not the code's: the Redis
  client has no socket timeout, so it is one about the network, the event loops and
  one host clock. Requests let through while Redis is down (`FailOpen`) are not
  counted in `granted`.
* `Chunking_proofs!FirstChunkIsKept` and `TailLossBounded`, for any settings.
  `ChunksHangTogether` assumes `CHUNK_OVERLAP <= MIN_CHUNK_SIZE`, which is so of the
  configured 40 and 50: otherwise a last window that is shorter than the overlap, and
  all inside the one before, may be kept.
* `SearchRanking_proofs!SearchShowsTheBest` and `TraceTellsRank`, for any scores,
  rounding, number of matches, limit, `SEARCH_TOP_K` and `top_k` of the trace. Matches come best first, so the first chunk
  of a page is its best; rounding keeps the order (`RoundMonotone`), and a score
  above a rounded one does not round to less (`RoundAbove`), so a chunk that
  replaces another rounds to the same. The pages are in both dictionaries in the
  order of their best scores, and neither sort moves anything
  (`SortsMoveNothing`): a growing function of `1..n` into itself is the identity, by
  counting. If Pinecone returned matches in another order none of this would hold.
* `UsageLedger_proofs`: `LedgerTypeCorrect`, `LedgerIsTrue`, `AnswersMatchLedger` and
  `SpendIsBounded`, all from one invariant `Inv`. The properties speak of answered
  requests or of totals; `Inv` says of each request, by its pc, where it is
  (`Placed`), how many rows are pending and logged against the calls answered
  (`True`), and how much of the allowance of the current call is used up (`Paid`:
  `Sends` for each failed attempt, on top of the calls answered).

Model-checked only: liveness (`EveryCallEnds`, `AcceptedResolves`), which rests on
ENABLED; and the six violations, which are behaviours, not theorems.

## 7. Not modelled, and why

The pixel endpoint, the quantising of colours and the label merge of the brand
colours: functions of one image that keep no state. The lazily created pool and
clients: a module of their own is planned. The tenant
gate beyond the row it reads, health, wiring: stateless or pure I/O. The database
connection a request holds while it waits for OpenAI: the pool is SQLAlchemy's. Payloads,
prompts, prices and messages: no property tells them apart. Postgres isolation:
each handler writes one row in one commit, or deletes by key. Pinecone's eventual
consistency: a listing here shows every vector upserted before. Its listing by
prefix: a listing finds the vectors of the page, and of no other. Clocks of web
workers that differ or step: they are taken to read one clock, and only the order and
the delay of scripts are modelled. A bulk list that names a page
twice. The empty-body
branch of `index_single_page`, which requests cannot reach because `content` has
at least one character.

## 8. Plan

1. Proofs: that the run of `BulkIndex` and the run of `BulkJobs` go through the same
   ends; the action properties of `PageIndex` that the lemmas of single actions
   already hold (what a failed call leaves); `AcceptedResolves` up to its safety
   part, that a job which is in nobody's hands has ended or is in `spoiled`.
2. `ClientPool`: lazy creation of the arq pool and the limiter's client by
   concurrent requests, and shutdown.
3. `BulkIndex` without `Parts`, on larger instances.
