----------------------------- MODULE UsageLedger -----------------------------
(***************************************************************************)
(* The handlers that call OpenAI, from the call and its retries (app/core/ *)
(* retry.py) to the usage row in api_usage_logs and the answer: search,    *)
(* the search trace, indexing a page by POST /index or in a bulk run, and  *)
(* the two brand-colour endpoints that ask a model, from the image they    *)
(* are sent.  One tenant.                                                  *)
(***************************************************************************)
EXTENDS Integers

CONSTANTS
  Requests, \* each is made once
  Attempts, \* EXTERNAL_RETRY_ATTEMPTS
  Sends     \* requests the OpenAI client itself makes in one attempt

ASSUME UsageLedgerAssumption ==
  Attempts \in Nat \ {0} /\ Sends \in Nat \ {0}

Pages == {"index", "bulkPage"}
Brand == {"colors", "hybrid"}
Kinds == Pages \cup Brand \cup {"search", "debug"}

\* How many OpenAI calls a handler makes: a page needs its embeddings, then its card.
Calls == [kind \in Kinds |-> IF kind \in Pages THEN 2 ELSE 1]

\* Behind get_active_tenant_id.
Gated == {"search", "index"}

VARIABLES
  tenant, \* whether the Tenant row exists
  logged, \* how many rows each request has in api_usage_logs
  op      \* each request: see Fresh

vars == <<tenant, logged, op>>

-----------------------------------------------------------------------------
(* named: an X-Tenant-Id was sent; tries: failed attempts of the current     *)
(* call; heard: calls OpenAI answered; pending: usage rows in the session;   *)
(* told: the answer names a cost.  billed is ghost state: completions OpenAI *)
(* made, answered or not.                                                    *)
Fresh(kind, named) ==
  [kind |-> kind, named |-> named, pc |-> IF kind \in Brand THEN "image" ELSE "call",
   tries |-> 0, heard |-> 0, pending |-> 0, billed |-> 0, code |-> "ok", told |-> FALSE]

Idle == [Fresh("debug", FALSE) EXCEPT !.pc = "idle"]

Init ==
  /\ tenant \in BOOLEAN
  /\ logged = [r \in Requests |-> 0]
  /\ op = [r \in Requests |-> Idle]

Become(r, o) == op' = [op EXCEPT ![r] = o] /\ UNCHANGED <<tenant, logged>>

\* The session closes and what is pending in it is gone.
Answered(o, code) == [o EXCEPT !.pc = "answered", !.code = code, !.pending = 0]

\* A bulk run counts the failed page and commits, with all the session holds.
Failed(o, code) ==
  IF o.kind = "bulkPage" THEN [o EXCEPT !.pc = "commit", !.code = code]
                         ELSE Answered(o, code)

\* hybrid answers the exact colours with labels of its own, at no cost.
Fallback(o) == Answered(o, "ok")

Start(r) ==
  /\ op[r].pc = "idle"
  /\ \E kind \in Kinds, named \in BOOLEAN :
       /\ kind \in Gated => tenant
       /\ kind \notin Brand => named
       /\ Become(r, Fresh(kind, named))

-----------------------------------------------------------------------------
(* The image of a brand-colour request: a file, a data: URI or what a URL  *)
(* answers, checked by Pillow without being decoded.                       *)
AcceptImage(r) ==
  /\ op[r].pc = "image"
  /\ Become(r, [op[r] EXCEPT !.pc = "call"])

(* No image, an SVG, too large a one, or one that is not read: a 400.      *)
RefuseImage(r) ==
  /\ op[r].pc = "image"
  /\ Become(r, Answered(op[r], "400"))

(* An error of httpx or Pillow that nobody expects; or hybrid, which       *)
(* decodes the image before it asks for labels, cannot.                    *)
ImageBreaks(r) ==
  /\ op[r].pc = "image"
  /\ Become(r, Answered(op[r], "500"))

(* hybrid has nothing to ask about an image without colours.               *)
NoColours(r) ==
  /\ op[r].pc = "image" /\ op[r].kind = "hybrid"
  /\ Become(r, Fallback(op[r]))

-----------------------------------------------------------------------------
Billed(r, n) == [op[r] EXCEPT !.billed = @ + n]
Heard(r, n) == [Billed(r, n) EXCEPT !.heard = @ + 1, !.tries = 0]

\* Mutant of CanRetry: one attempt more than configured.
CanRetryOnceMore(o) == o.tries < Attempts
CanRetry(o) == o.tries + 1 < Attempts

\* Mutant of Retried: every attempt adds its row.
RetriedLogged(o) == [o EXCEPT !.tries = @ + 1, !.pending = @ + 1]
Retried(o) == [o EXCEPT !.tries = @ + 1]

\* Mutant of GivesUp: a bulk run tries the page again at once.
GivesUpNot(o) == IF o.kind = "bulkPage" THEN [o EXCEPT !.tries = 0]
                                        ELSE Failed(o, "503")
GivesUp(o) == IF o.kind = "hybrid" THEN Fallback(o) ELSE Failed(o, "503")

(* A transient error.  OpenAI may have completed, and billed, what it did  *)
(* not get to answer in time.                                              *)
AttemptFails(r) ==
  /\ op[r].pc = "call"
  /\ \E n \in 0..Sends :
       LET o == Billed(r, n)
       IN  Become(r, IF CanRetry(o) THEN Retried(o) ELSE GivesUp(o))

(* A permanent error is not retried and no handler expects it.             *)
Rejected(r) ==
  /\ op[r].pc = "call"
  /\ \E n \in 0..(Sends - 1) : Become(r, Failed(Billed(r, n), "500"))

\* The session gets a row at once; the brand handlers look for the tenant first.
Logs(o) == o.kind \in Pages \cup {"search"}

After(o) ==
  IF o.kind \in Pages /\ o.heard < Calls[o.kind] THEN "call"
  ELSE IF o.kind = "search" THEN "commit"
  ELSE IF o.kind \in Brand THEN "tenant"
  ELSE "pinecone"

(* A usable answer.  Of a search card that is any text that is no JSON,    *)
(* too: the card is then made from title and content.                      *)
HearUsable(r) ==
  /\ op[r].pc = "call"
  /\ \E n \in 1..Sends :
       LET o == Heard(r, n)
       IN  Become(r, [o EXCEPT !.pc = After(o),
                               !.pending = IF Logs(o) THEN @ + 1 ELSE @])

\* Mutant of Unusable: hybrid logs before it looks at the labels.
UnusableLogged(o) ==
  IF o.kind = "hybrid" THEN [o EXCEPT !.pc = "commit", !.pending = 1]
                       ELSE Answered(o, "502")
Unusable(o) == IF o.kind = "hybrid" THEN Fallback(o) ELSE Answered(o, "502")

(* No usable colour or label in the answer.                                *)
HearUnusable(r) ==
  /\ op[r].pc = "call" /\ op[r].kind \in Brand
  /\ \E n \in 1..Sends : Become(r, Unusable(Heard(r, n)))

(* JSON of another shape than the handler reads: an array for a card, null *)
(* for the colours or the labels.                                          *)
HearOddShape(r) ==
  /\ op[r].pc = "call"
  /\ op[r].kind \in Brand \/ (op[r].kind \in Pages /\ op[r].heard = 1)
  /\ \E n \in 1..Sends : Become(r, Failed(Heard(r, n), "500"))

-----------------------------------------------------------------------------
(* _maybe_log_usage: without a tenant the colours are free.                *)
LookForTenant(r) ==
  /\ op[r].pc = "tenant"
  /\ LET o == [op[r] EXCEPT !.told = TRUE]
     IN  Become(r, IF op[r].named /\ tenant
                   THEN [o EXCEPT !.pc = "commit", !.pending = 1]
                   ELSE Answered(o, "ok"))

\* A card whose fields are no texts is found out when the response is built.
Outcomes(o) == IF o.kind \in Pages /\ o.code = "ok" THEN {"ok", "500"} ELSE {o.code}

\* search_pages goes on to its query; everything else is over.
Committed(o, code) ==
  IF o.kind = "search" THEN [o EXCEPT !.pc = "pinecone", !.pending = 0]
                       ELSE Answered(o, code)

(* Usage, pages and jobs all refer to the tenant.                          *)
Commit(r) ==
  /\ op[r].pc = "commit" /\ tenant
  /\ logged' = [logged EXCEPT ![r] = @ + op[r].pending]
  /\ \E code \in Outcomes(op[r]) : op' = [op EXCEPT ![r] = Committed(op[r], code)]
  /\ UNCHANGED tenant

(* Postgres is down, or the tenant is gone.                                *)
CommitFails(r) ==
  /\ op[r].pc = "commit"
  /\ Become(r, Answered([op[r] EXCEPT !.told = FALSE], "500"))

(* The query of a search, or the upsert of a page, which is committed then. *)
CallPinecone(r) ==
  /\ op[r].pc = "pinecone"
  /\ Become(r, IF op[r].kind \in Pages THEN [op[r] EXCEPT !.pc = "commit"]
                                       ELSE Answered(op[r], "ok"))

PineconeFails(r) ==
  /\ op[r].pc = "pinecone"
  /\ Become(r, Failed(op[r], "503"))

-----------------------------------------------------------------------------
(* The super-admin deletes the tenant, and Postgres its rows with it.      *)
TenantDeleted ==
  /\ tenant
  /\ tenant' = FALSE
  /\ logged' = [r \in Requests |-> 0]
  /\ UNCHANGED op

(* The process stops.                                                      *)
Crash(r) ==
  /\ op[r].pc \notin {"idle", "answered"}
  /\ Become(r, Answered([op[r] EXCEPT !.told = FALSE], "none"))

ImageStep(r) == AcceptImage(r) \/ RefuseImage(r) \/ ImageBreaks(r) \/ NoColours(r)

Step(r) ==
  \/ ImageStep(r)
  \/ AttemptFails(r) \/ Rejected(r)
  \/ HearUsable(r) \/ HearUnusable(r) \/ HearOddShape(r)
  \/ LookForTenant(r) \/ Commit(r) \/ CommitFails(r)
  \/ CallPinecone(r) \/ PineconeFails(r)

Next ==
  \/ \E r \in Requests : Start(r) \/ Step(r) \/ Crash(r)
  \/ TenantDeleted

Spec == Init /\ [][Next]_vars

-----------------------------------------------------------------------------
Request ==
  [kind : Kinds, named : BOOLEAN, told : BOOLEAN,
   pc : {"idle", "image", "call", "tenant", "commit", "pinecone", "answered"},
   code : {"ok", "400", "500", "502", "503", "none"},
   tries : 0..(Attempts - 1), heard : 0..2, pending : 0..2, billed : Nat]

TypeOK ==
  /\ tenant \in BOOLEAN
  /\ logged \in [Requests -> 0..2]
  /\ op \in [Requests -> Request]

(* No row is made up: whatever was retried, a request has no more rows     *)
(* than calls OpenAI answered, and has answers for calls it made only.     *)
(* Nothing is logged for a tenant that is gone.                            *)
LedgerTrue ==
  \A r \in Requests :
    /\ logged[r] + op[r].pending <= op[r].heard
    /\ op[r].heard <= Calls[op[r].kind]
    /\ op[r].heard <= op[r].billed
    /\ ~tenant => logged[r] = 0

(* What an answer says of the ledger, as long as the tenant exists.  A     *)
(* search or an indexed page has a row for each of its calls; a search     *)
(* that Pinecone failed keeps its row; POST /index has all its rows or     *)
(* none, and none when a service failed it, while a page that a bulk run   *)
(* failed has those of the calls that were answered.  A brand-colour       *)
(* answer names a cost to a known tenant exactly when it is logged, and an *)
(* image that was refused costs nothing.  The trace logs nothing, as       *)
(* debug_search_pages says of itself.  So this is not the "every OpenAI    *)
(* API call" that docs/02-database-schema.md:76 has in api_usage_logs:     *)
(* a call of a POST /index that fails later is billed and not logged.      *)
UsageLogged ==
  \A r \in Requests :
    LET o == op[r]
    IN  o.pc = "answered" /\ tenant =>
          /\ o.kind \in Pages \cup {"search"} /\ o.code = "ok" => logged[r] = Calls[o.kind]
          /\ o.kind = "search" /\ o.code = "503" => logged[r] = o.heard
          /\ o.kind = "index" => logged[r] \in {0, Calls[o.kind]}
          /\ o.kind = "index" /\ o.code = "503" => logged[r] = 0
          /\ o.kind = "bulkPage" /\ o.code = "503" => logged[r] = o.heard
          /\ o.kind \in Brand /\ o.named => (o.told <=> logged[r] = 1)
          /\ o.code = "400" => o.billed = 0
          /\ o.kind = "debug" => logged[r] = 0

(* The two retries multiply: a call, and the one row it may get, can stand *)
(* for Attempts * Sends completions, and for no more.                      *)
SpendBounded ==
  \A r \in Requests : op[r].billed <= Attempts * Sends * Calls[op[r].kind]
=============================================================================
