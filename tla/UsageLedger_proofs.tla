------------------------- MODULE UsageLedger_proofs -------------------------
(***************************************************************************)
(* Proofs about UsageLedger, for any requests, attempts and sends: types,  *)
(* that no row is made up, what answers say of the ledger, and the bound   *)
(* on what a request can cost.                                             *)
(***************************************************************************)
EXTENDS UsageLedger, TLAPS

-----------------------------------------------------------------------------
(* The inductive invariant says of each request o, with n rows, where it   *)
(* has come: how many rows are in its session and in the ledger, and what  *)
(* its calls may have cost.                                                *)
Rows(o) == IF Logs(o) THEN o.heard ELSE 0

Pictured(o, n) ==
  /\ o.kind \in Brand /\ o.heard = 0 /\ o.tries = 0 /\ o.pending = 0 /\ o.billed = 0
  /\ o.code = "ok" /\ ~o.told /\ n = 0

Calling(o, n) ==
  /\ o.heard < Calls[o.kind] /\ o.pending = Rows(o)
  /\ o.code = "ok" /\ ~o.told /\ n = 0

Looking(o, n) ==
  /\ o.kind \in Brand /\ o.heard = 1 /\ o.pending = 0
  /\ o.code = "ok" /\ ~o.told /\ n = 0

Committing(o, n) ==
  /\ o.kind # "debug" /\ n = 0 /\ o.code # "400"
  /\ o.kind \in Brand => o.named /\ o.told /\ o.heard = 1 /\ o.pending = 1
  /\ o.kind \in {"search", "index"} \/ o.code = "ok" => o.heard = Calls[o.kind]
  /\ o.kind \in {"search", "index"} => o.pending = o.heard
  /\ o.kind = "bulkPage" /\ o.code \in {"ok", "503"} => o.pending = o.heard
  /\ o.pending <= o.heard
  /\ o.kind # "bulkPage" => o.code = "ok"
  /\ o.kind \notin Brand => ~o.told

Querying(o, n, present) ==
  /\ o.kind \notin Brand /\ o.heard = Calls[o.kind] /\ o.code = "ok" /\ ~o.told
  /\ o.kind = "search" => o.pending = 0 /\ (present => n = 1)
  /\ o.kind # "search" => n = 0 /\ o.pending = Rows(o)

Over(o, n) ==
  /\ o.kind \in Pages \cup {"search"} /\ o.code = "ok" => n = Calls[o.kind]
  /\ o.kind = "search" /\ o.code = "503" => n = o.heard
  /\ o.kind = "index" => n \in {0, Calls[o.kind]}
  /\ o.kind = "index" /\ o.code = "503" => n = 0
  /\ o.kind = "bulkPage" /\ o.code = "503" => n = o.heard
  /\ o.kind \in Brand /\ o.named => (o.told <=> n = 1)
  /\ o.code = "400" => o.billed = 0
  /\ o.kind = "debug" => n = 0

Placed(o, n, present) ==
  /\ o.pc = "idle" => n = 0 /\ o.heard = 0 /\ o.pending = 0
  /\ o.pc = "image" => Pictured(o, n)
  /\ o.pc = "call" => Calling(o, n)
  /\ o.pc = "tenant" => Looking(o, n)
  /\ o.pc = "commit" => Committing(o, n)
  /\ o.pc = "pinecone" => Querying(o, n, present)
  /\ o.pc = "answered" => o.pending = 0 /\ (present => Over(o, n))

True(o, n, present) ==
  /\ n + o.pending <= o.heard
  /\ o.heard <= Calls[o.kind]
  /\ o.heard <= o.billed
  /\ ~present => n = 0

\* A call may have cost Attempts * Sends once it is over, Sends an attempt before.
Cost == Attempts * Sends

Paid(o) ==
  /\ o.billed <= Cost * Calls[o.kind]
  /\ o.pc = "call" => o.billed <= Cost * o.heard + Sends * o.tries

Good(o, n, present) == Placed(o, n, present) /\ True(o, n, present) /\ Paid(o)

Inv == TypeOK /\ \A r \in Requests : Good(op[r], logged[r], tenant)

-----------------------------------------------------------------------------
LEMMA CostIsNat ==
  /\ Cost \in Nat
  /\ \A k \in 0..(Attempts - 1) : Sends * k + Sends <= Cost /\ Sends * k \in Nat
<1>1. Attempts \in Nat \ {0} /\ Sends \in Nat \ {0}
  BY UsageLedgerAssumption
<1>2. ASSUME NEW k \in 0..(Attempts - 1)
      PROVE  Sends * k + Sends <= Attempts * Sends /\ Sends * k \in Nat
  <2>1. Sends * k + Sends = Sends * (k + 1)
    BY <1>1, <1>2, SMT
  <2>2. Sends * (k + 1) <= Sends * Attempts
    BY <1>1, <1>2, SMT
  <2> QED
    BY <1>1, <1>2, <2>1, <2>2, SMT
<1> QED
  BY <1>1, <1>2, SMT DEF Cost

\* What a step of r must do: leave r's request good.
LEMMA BecomeGood ==
  ASSUME Inv, NEW r \in Requests, NEW o \in Request, Good(o, logged[r], tenant),
         Become(r, o)
  PROVE  Inv'
<1>1. op' = [op EXCEPT ![r] = o] /\ UNCHANGED <<tenant, logged>>
  BY DEF Become
<1>2. TypeOK'
  BY <1>1 DEF Inv, TypeOK
<1>3. ASSUME NEW q \in Requests PROVE Good(op'[q], logged'[q], tenant')
  BY <1>1, <1>3 DEF Inv, TypeOK
<1> QED
  BY <1>2, <1>3 DEF Inv

LEMMA AnsweredFields ==
  ASSUME NEW o \in Request, NEW code \in {"ok", "400", "500", "502", "503", "none"}
  PROVE  LET a == Answered(o, code)
         IN  /\ a \in Request
             /\ a.kind = o.kind /\ a.named = o.named /\ a.told = o.told
             /\ a.heard = o.heard /\ a.billed = o.billed /\ a.tries = o.tries
             /\ a.code = code /\ a.pc = "answered" /\ a.pending = 0
<1> DEFINE a == Answered(o, code)
           b == [o EXCEPT !.pc = "answered", !.code = code]
<1>1. /\ b \in Request
      /\ b.kind = o.kind /\ b.named = o.named /\ b.told = o.told
      /\ b.heard = o.heard /\ b.billed = o.billed /\ b.tries = o.tries
      /\ b.code = code /\ b.pc = "answered"
  BY DEF Request
<1>2. a = [b EXCEPT !.pending = 0]
  BY DEF Answered
<1> HIDE DEF a, b
<1>3. /\ a \in Request
      /\ a.kind = b.kind /\ a.named = b.named /\ a.told = b.told
      /\ a.heard = b.heard /\ a.billed = b.billed /\ a.tries = b.tries
      /\ a.code = b.code /\ a.pc = b.pc /\ a.pending = 0
  BY <1>1, <1>2 DEF Request
<1> QED
  BY <1>1, <1>3 DEF a

\* Giving up is good wherever a call, or Pinecone, failed.
LEMMA FailedGood ==
  ASSUME NEW o \in Request, NEW n \in 0..2, NEW present \in BOOLEAN,
         o.pc \in {"call", "pinecone"}, o.code = "ok", ~o.told,
         o.kind \in Pages => n = 0 /\ o.pending <= o.heard,
         o.kind = "search" => o.pending + n <= o.heard /\ (present => n = o.heard),
         o.kind = "debug" => n = 0, o.kind \in Brand => n = 0,
         o.heard <= Calls[o.kind], o.heard <= o.billed, ~present => n = 0,
         o.billed <= Cost * Calls[o.kind],
         NEW code \in {"500", "502", "503"},
         code = "503" /\ o.kind = "bulkPage" => o.pending = o.heard
  PROVE  Failed(o, code) \in Request /\ Good(Failed(o, code), n, present)
<1> DEFINE f == Failed(o, code)
<1>1. /\ f.kind = o.kind /\ f.named = o.named /\ f.told = o.told
      /\ f.heard = o.heard /\ f.billed = o.billed /\ f.tries = o.tries
      /\ f.code = code
      /\ o.kind = "bulkPage" => f.pc = "commit" /\ f.pending = o.pending
      /\ o.kind # "bulkPage" => f.pc = "answered" /\ f.pending = 0
      /\ f \in Request
  <2>1. CASE o.kind = "bulkPage"
    <3>1. f = [o EXCEPT !.pc = "commit", !.code = code]
      BY <2>1 DEF Failed
    <3> HIDE DEF f
    <3> QED
      BY <2>1, <3>1 DEF Request
  <2>2. CASE o.kind # "bulkPage"
    <3>1. f = Answered(o, code)
      BY <2>2 DEF Failed
    <3> HIDE DEF f
    <3> QED
      BY <2>2, <3>1, AnsweredFields
  <2> QED
    BY <2>1, <2>2
<1>2. o.heard \in 0..2 /\ o.pending \in 0..2 /\ o.billed \in Nat /\ o.kind \in Kinds
  BY DEF Request
<1> HIDE DEF f
<1>3. True(f, n, present)
  <2>1. n + f.pending <= f.heard
    BY <1>1, <1>2 DEF Kinds, Pages, Brand
  <2> QED
    BY <1>1, <1>2, <2>1 DEF True
<1>4. Paid(f)
  BY <1>1 DEF Paid
<1>5. Placed(f, n, present)
  <2>1. CASE o.kind = "bulkPage"
    BY <1>1, <2>1 DEF Placed, Committing, Pages, Brand
  <2>2. CASE o.kind # "bulkPage"
    <3>1. f.pc = "answered" /\ f.pending = 0 /\ f.code # "ok" /\ f.told = FALSE
      BY <1>1, <2>2
    <3>2. present => Over(f, n)
      BY <1>1, <1>2, <2>2, <3>1 DEF Over, Kinds, Pages, Brand
    <3> QED
      BY <3>1, <3>2 DEF Placed
  <2> QED
    BY <2>1, <2>2
<1> QED
  BY <1>1, <1>3, <1>4, <1>5 DEF Good, f

\* What a call of r may have cost, and the fields of r's request.
LEMMA CallCost ==
  ASSUME Inv, NEW r \in Requests, op[r].pc = "call", NEW n \in 0..Sends
  PROVE  /\ op[r].billed + n \in Nat
         /\ op[r].billed + n <= Cost * Calls[op[r].kind]
         /\ op[r].billed + n <= Cost * (op[r].heard + 1)
         /\ op[r].billed + n <= Cost * op[r].heard + Sends * (op[r].tries + 1)
<1> DEFINE o == op[r]
<1>1. /\ o.heard \in 0..2 /\ o.tries \in 0..(Attempts - 1) /\ o.billed \in Nat
      /\ o.kind \in Kinds
  BY DEF Inv, TypeOK, Request
<1>2. o.heard < Calls[o.kind] /\ o.billed <= Cost * o.heard + Sends * o.tries
  BY DEF Inv, Good, Placed, Paid, Calling
<1>3. Calls[o.kind] \in 1..2
  BY <1>1 DEF Calls
<1> HIDE DEF o
<1>4. Sends \in Nat /\ Cost \in Nat /\ Sends * o.tries + Sends <= Cost /\ Sends * o.tries \in Nat
  BY <1>1, CostIsNat, UsageLedgerAssumption
<1>5. Sends * (o.tries + 1) = Sends * o.tries + Sends
  BY <1>1, <1>4, SMT
<1>6. o.heard \in {0, 1}
  BY <1>1, <1>2, <1>3
<1>7. /\ o.billed + n \in Nat
      /\ o.billed + n <= Cost * Calls[o.kind]
      /\ o.billed + n <= Cost * (o.heard + 1)
      /\ o.billed + n <= Cost * o.heard + Sends * (o.tries + 1)
  <2>1. CASE o.heard = 0
    <3>1. Calls[o.kind] = 1 \/ Calls[o.kind] = 2
      BY <1>3
    <3> QED
      BY <1>1, <1>2, <1>4, <1>5, <2>1, <3>1, SMT
  <2>2. CASE o.heard = 1
    <3>1. Calls[o.kind] = 2
      BY <1>2, <1>3, <2>2
    <3> QED
      BY <1>1, <1>2, <1>4, <1>5, <2>2, <3>1, SMT
  <2> QED
    BY <1>6, <2>1, <2>2
<1> QED
  BY <1>7 DEF o

-----------------------------------------------------------------------------
LEMMA InitInv == Init => Inv
<1> SUFFICES ASSUME Init PROVE Inv
  OBVIOUS
<1>1. Idle \in Request /\ Idle.pc = "idle" /\ Idle.heard = 0 /\ Idle.pending = 0
      /\ Idle.billed = 0 /\ Idle.kind = "debug"
  <2>1. 0 \in 0..(Attempts - 1)
    BY UsageLedgerAssumption
  <2>2. Fresh("debug", FALSE) \in Request
    BY <2>1 DEF Fresh, Request, Kinds
  <2> QED
    BY <2>2 DEF Idle, Fresh, Request
<1>2. TypeOK
  BY <1>1 DEF Init, TypeOK
<1>3. Calls["debug"] = 1
  BY DEF Calls, Kinds, Pages
<1>4. ASSUME NEW r \in Requests PROVE Good(op[r], logged[r], tenant)
  <2>1. op[r] = Idle /\ logged[r] = 0
    BY DEF Init
  <2>2. 0 <= Cost * 1
    BY CostIsNat
  <2> HIDE DEF Idle
  <2> QED
    BY <1>1, <1>3, <2>1, <2>2 DEF Good, Placed, True, Paid
<1> QED
  BY <1>2, <1>4 DEF Inv

LEMMA StartInv ==
  ASSUME Inv, NEW r \in Requests, Start(r)
  PROVE  Inv'
<1>1. PICK kind \in Kinds, named \in BOOLEAN :
        (kind \notin Brand => named) /\ Become(r, Fresh(kind, named))
  BY DEF Start
<1> DEFINE o == Fresh(kind, named)
<1>2. /\ o \in Request /\ o.kind = kind /\ o.tries = 0 /\ o.heard = 0
      /\ (o.pc = "image" /\ kind \in Brand) \/ o.pc = "call"
      /\ o.pending = 0 /\ o.billed = 0 /\ o.code = "ok" /\ ~o.told
  BY UsageLedgerAssumption DEF Fresh, Request
<1>3. logged[r] = 0
  BY DEF Start, Inv, Good, Placed
<1>4. Calls[kind] \in 1..2
  BY DEF Calls
<1>5. Cost * Calls[kind] \in Nat /\ Cost * 0 = 0 /\ Sends * 0 = 0
  BY <1>4, CostIsNat, UsageLedgerAssumption, SMT
<1> HIDE DEF o
<1>6. Good(o, logged[r], tenant)
  BY <1>2, <1>3, <1>4, <1>5 DEF Good, Placed, Pictured, Calling, Rows, True, Paid
<1> QED
  BY <1>1, <1>2, <1>6, BecomeGood DEF o

-----------------------------------------------------------------------------
(* The parts the actions are made of.                                      *)
LEMMA AnsweredGood ==
  ASSUME NEW o \in Request, NEW n \in 0..2, NEW present \in BOOLEAN,
         NEW code \in {"ok", "400", "500", "502", "503", "none"},
         n <= o.heard, o.heard <= Calls[o.kind], o.heard <= o.billed,
         ~present => n = 0, o.billed <= Cost * Calls[o.kind],
         present => Over(Answered(o, code), n)
  PROVE  Good(Answered(o, code), n, present)
<1> DEFINE a == Answered(o, code)
<1>1. /\ a.kind = o.kind /\ a.heard = o.heard /\ a.billed = o.billed
      /\ a.pc = "answered" /\ a.pending = 0
  BY AnsweredFields
<1>2. o.heard \in 0..2
  BY DEF Request
<1> HIDE DEF a
<1>3. Paid(a)
  BY <1>1 DEF Paid
<1>4. True(a, n, present)
  BY <1>1, <1>2 DEF True
<1>5. Placed(a, n, present)
  BY <1>1 DEF Placed, a
<1> QED
  BY <1>3, <1>4, <1>5 DEF Good, a

\* A request that calls OpenAI.
LEMMA CallState ==
  ASSUME Inv, NEW r \in Requests, op[r].pc = "call"
  PROVE  /\ op[r] \in Request /\ op[r].kind \in Kinds /\ logged[r] = 0
         /\ op[r].heard \in 0..2 /\ op[r].tries \in 0..(Attempts - 1)
         /\ op[r].billed \in Nat /\ op[r].pending \in 0..2
         /\ op[r].heard < Calls[op[r].kind] /\ op[r].pending = Rows(op[r])
         /\ op[r].heard <= op[r].billed
         /\ op[r].code = "ok" /\ ~op[r].told /\ tenant \in BOOLEAN
<1>1. op[r] \in Request /\ tenant \in BOOLEAN /\ Good(op[r], logged[r], tenant)
  BY DEF Inv, TypeOK
<1>2. Calling(op[r], logged[r]) /\ op[r].heard <= op[r].billed
  BY <1>1 DEF Good, Placed, True
<1> QED
  BY <1>1, <1>2 DEF Calling, Request

LEMMA BilledFields ==
  ASSUME Inv, NEW r \in Requests, op[r].pc = "call", NEW n \in 0..Sends
  PROVE  LET b == Billed(r, n)
         IN  /\ b \in Request
             /\ b.kind = op[r].kind /\ b.pc = "call" /\ b.code = "ok" /\ ~b.told
             /\ b.heard = op[r].heard /\ b.pending = op[r].pending
             /\ b.tries = op[r].tries /\ b.billed = op[r].billed + n
<1>1. op[r] \in Request /\ op[r].billed + n \in Nat /\ op[r].code = "ok" /\ ~op[r].told
  BY CallState, CallCost
<1> DEFINE b == Billed(r, n)
<1>2. b = [op[r] EXCEPT !.billed = @ + n]
  BY DEF Billed
<1> HIDE DEF b
<1> QED
  BY <1>1, <1>2 DEF Request, b

LEMMA HeardFields ==
  ASSUME Inv, NEW r \in Requests, op[r].pc = "call", NEW n \in 1..Sends
  PROVE  LET h == Heard(r, n)
         IN  /\ h \in Request
             /\ h.kind = op[r].kind /\ h.pc = "call" /\ h.code = "ok" /\ ~h.told
             /\ h.heard = op[r].heard + 1 /\ h.pending = op[r].pending
             /\ h.tries = 0 /\ h.billed = op[r].billed + n
             /\ h.heard \in 1..2 /\ h.heard <= Calls[h.kind] /\ h.heard <= h.billed
             /\ h.billed <= Cost * Calls[h.kind] /\ h.billed <= Cost * h.heard
<1> DEFINE b == Billed(r, n)
           c == [b EXCEPT !.heard = @ + 1]
           h == Heard(r, n)
<1>0. n \in 0..Sends
  BY UsageLedgerAssumption
<1>1. /\ b \in Request
      /\ b.kind = op[r].kind /\ b.pc = "call" /\ b.code = "ok" /\ ~b.told
      /\ b.heard = op[r].heard /\ b.pending = op[r].pending
      /\ b.tries = op[r].tries /\ b.billed = op[r].billed + n
  BY <1>0, BilledFields
<1>2. /\ op[r].heard \in 0..2 /\ op[r].heard < Calls[op[r].kind] /\ op[r].kind \in Kinds
      /\ op[r].heard <= op[r].billed /\ op[r].billed \in Nat
  BY CallState
<1>3. Calls[op[r].kind] \in 1..2
  BY <1>2 DEF Calls
<1>4. op[r].heard + 1 \in 1..2 /\ op[r].heard + 1 <= Calls[op[r].kind]
      /\ op[r].heard + 1 <= op[r].billed + n
  BY <1>0, <1>2, <1>3, UsageLedgerAssumption
<1>5. 0 \in 0..(Attempts - 1)
  BY UsageLedgerAssumption
<1>6. h = [c EXCEPT !.tries = 0]
  BY DEF Heard
<1>7. /\ op[r].billed + n <= Cost * Calls[op[r].kind]
      /\ op[r].billed + n <= Cost * (op[r].heard + 1)
  BY <1>0, CallCost
<1> HIDE DEF b
<1>8. b.heard + 1 \in 0..2
  BY <1>1, <1>4
<1>9. /\ c \in Request
       /\ c.kind = b.kind /\ c.pc = b.pc /\ c.code = b.code /\ c.told = b.told
       /\ c.heard = b.heard + 1 /\ c.pending = b.pending /\ c.billed = b.billed
  BY <1>1, <1>8 DEF Request
<1> HIDE DEF c, h
<1>10. /\ h \in Request
      /\ h.kind = b.kind /\ h.pc = b.pc /\ h.code = b.code /\ h.told = b.told
      /\ h.heard = op[r].heard + 1 /\ h.pending = b.pending
      /\ h.tries = 0 /\ h.billed = b.billed
  <2>1. /\ h \in Request
        /\ h.kind = c.kind /\ h.pc = c.pc /\ h.code = c.code /\ h.told = c.told
        /\ h.heard = c.heard /\ h.pending = c.pending
        /\ h.tries = 0 /\ h.billed = c.billed
    BY <1>5, <1>6, <1>9 DEF Request
  <2> QED
    BY <1>1, <1>9, <2>1
<1> QED
  BY <1>1, <1>4, <1>7, <1>10 DEF h

LEMMA FallbackGood ==
  ASSUME NEW o \in Request, NEW present \in BOOLEAN, o.kind \in Brand, ~o.told,
         o.heard <= Calls[o.kind], o.heard <= o.billed,
         o.billed <= Cost * Calls[o.kind],
         NEW code \in {"ok", "400", "500", "502"}, code = "400" => o.billed = 0
  PROVE  Answered(o, code) \in Request /\ Good(Answered(o, code), 0, present)
<1>1. /\ Answered(o, code) \in Request /\ Answered(o, code).kind = o.kind
      /\ Answered(o, code).told = o.told /\ Answered(o, code).code = code
      /\ Answered(o, code).billed = o.billed
  BY AnsweredFields
<1>2. Over(Answered(o, code), 0)
  BY <1>1 DEF Over, Brand, Pages
<1>3. 0 <= o.heard
  BY DEF Request
<1> QED
  BY <1>1, <1>2, <1>3, AnsweredGood

-----------------------------------------------------------------------------
(* One lemma for each action.                                              *)
LEMMA AttemptFailsInv ==
  ASSUME Inv, NEW r \in Requests, AttemptFails(r)
  PROVE  Inv'
<1>1. PICK n \in 0..Sends :
        Become(r, IF CanRetry(Billed(r, n)) THEN Retried(Billed(r, n))
                                            ELSE GivesUp(Billed(r, n)))
  BY DEF AttemptFails
<1> DEFINE b == Billed(r, n)
<1>2. op[r].pc = "call"
  BY DEF AttemptFails
<1>3. /\ b \in Request
      /\ b.kind = op[r].kind /\ b.pc = "call" /\ b.code = "ok" /\ ~b.told
      /\ b.heard = op[r].heard /\ b.pending = op[r].pending
      /\ b.tries = op[r].tries /\ b.billed = op[r].billed + n
  BY <1>2, BilledFields
<1>4. /\ logged[r] = 0 /\ b.kind \in Kinds /\ tenant \in BOOLEAN
      /\ b.heard \in 0..2 /\ b.tries \in 0..(Attempts - 1) /\ b.pending \in 0..2
      /\ b.heard < Calls[b.kind] /\ b.pending = Rows(b) /\ b.heard <= b.billed
  BY <1>2, <1>3, CallState DEF Rows, Logs
<1>5. /\ b.billed <= Cost * Calls[b.kind]
      /\ b.billed <= Cost * b.heard + Sends * (b.tries + 1)
      /\ b.heard <= Calls[b.kind]
  <2>1. b.heard <= Calls[b.kind]
    BY <1>4 DEF Calls
  <2> QED
    BY <1>2, <1>3, <2>1, CallCost
<1> HIDE DEF b
<1>6. CASE CanRetry(b)
  <2> DEFINE t == Retried(b)
  <2>1. b.tries + 1 \in 0..(Attempts - 1)
    BY <1>4, <1>6, UsageLedgerAssumption DEF CanRetry
  <2>2. t = [b EXCEPT !.tries = @ + 1]
    BY DEF Retried
  <2> HIDE DEF t
  <2>3. /\ t \in Request
        /\ t.kind = b.kind /\ t.pc = "call" /\ t.code = "ok" /\ t.told = b.told
        /\ t.heard = b.heard /\ t.pending = b.pending
        /\ t.tries = b.tries + 1 /\ t.billed = b.billed
    BY <1>3, <2>1, <2>2 DEF Request
  <2>4. Paid(t)
    BY <1>5, <2>3 DEF Paid
  <2>5. Placed(t, logged[r], tenant)
    BY <1>3, <1>4, <2>3 DEF Placed, Calling, Rows, Logs
  <2>6. 0 + t.pending <= t.heard
    BY <1>4, <2>3 DEF Rows
  <2>7. True(t, logged[r], tenant)
    BY <1>4, <1>5, <2>3, <2>6 DEF True
  <2>8. Become(r, t)
    BY <1>1, <1>6 DEF b, t
  <2> QED
    BY <2>3, <2>4, <2>5, <2>7, <2>8, BecomeGood DEF Good
<1>7. CASE ~CanRetry(b) /\ b.kind = "hybrid"
  <2>1. Become(r, Answered(b, "ok"))
    BY <1>1, <1>7 DEF b, GivesUp, Fallback
  <2>2. Answered(b, "ok") \in Request /\ Good(Answered(b, "ok"), logged[r], tenant)
    BY <1>3, <1>4, <1>5, <1>7, FallbackGood DEF Brand
  <2> QED
    BY <2>1, <2>2, BecomeGood
<1>8. CASE ~CanRetry(b) /\ b.kind # "hybrid"
  <2>1. Become(r, Failed(b, "503"))
    BY <1>1, <1>8 DEF b, GivesUp
  <2>2. b.pending <= b.heard
    BY <1>4 DEF Rows
  <2>3. b.kind = "search" => b.heard = 0
    BY <1>4 DEF Calls, Pages
  <2>4. b.kind = "bulkPage" => b.pending = b.heard
    BY <1>4 DEF Rows, Logs, Pages
  <2>5. Failed(b, "503") \in Request /\ Good(Failed(b, "503"), logged[r], tenant)
    BY <1>3, <1>4, <1>5, <2>2, <2>3, <2>4, FailedGood
  <2> QED
    BY <2>1, <2>5, BecomeGood
<1> QED
  BY <1>6, <1>7, <1>8

LEMMA RejectedInv ==
  ASSUME Inv, NEW r \in Requests, Rejected(r)
  PROVE  Inv'
<1>1. PICK n \in 0..(Sends - 1) : Become(r, Failed(Billed(r, n), "500"))
  BY DEF Rejected
<1> DEFINE b == Billed(r, n)
<1>2. op[r].pc = "call" /\ n \in 0..Sends
  BY UsageLedgerAssumption DEF Rejected
<1>3. /\ b \in Request
      /\ b.kind = op[r].kind /\ b.pc = "call" /\ b.code = "ok" /\ ~b.told
      /\ b.heard = op[r].heard /\ b.pending = op[r].pending
      /\ b.billed = op[r].billed + n
  BY <1>2, BilledFields
<1>4. /\ logged[r] = 0 /\ b.kind \in Kinds /\ tenant \in BOOLEAN
      /\ b.heard \in 0..2 /\ b.pending \in 0..2 /\ b.heard <= b.billed
      /\ b.heard < Calls[b.kind] /\ b.pending = Rows(b)
  BY <1>2, <1>3, CallState DEF Rows, Logs
<1>5. b.billed <= Cost * Calls[b.kind]
  BY <1>2, <1>3, CallCost
<1> HIDE DEF b
<1>6. /\ b.pending <= b.heard /\ b.heard <= Calls[b.kind]
      /\ b.kind = "search" => b.heard = 0
  BY <1>4 DEF Rows, Calls, Pages
<1>7. Failed(b, "500") \in Request /\ Good(Failed(b, "500"), logged[r], tenant)
  BY <1>3, <1>4, <1>5, <1>6, FailedGood
<1>8. Become(r, Failed(b, "500"))
  BY <1>1 DEF b
<1> QED
  BY <1>7, <1>8, BecomeGood

LEMMA HearUsableInv ==
  ASSUME Inv, NEW r \in Requests, HearUsable(r)
  PROVE  Inv'
<1> DEFINE New(h) == [h EXCEPT !.pc = After(h),
                               !.pending = IF Logs(h) THEN @ + 1 ELSE @]
<1>1. PICK n \in 1..Sends : Become(r, New(Heard(r, n)))
  BY DEF HearUsable
<1> DEFINE h == Heard(r, n)
           o == New(h)
<1>2. op[r].pc = "call"
  BY DEF HearUsable
<1>3. /\ h \in Request
      /\ h.kind = op[r].kind /\ h.code = "ok" /\ ~h.told
      /\ h.heard = op[r].heard + 1 /\ h.pending = op[r].pending
      /\ h.tries = 0 /\ h.heard \in 1..2 /\ h.heard <= Calls[h.kind] /\ h.heard <= h.billed
      /\ h.billed <= Cost * Calls[h.kind] /\ h.billed <= Cost * h.heard
  BY <1>2, HeardFields
<1>4. /\ logged[r] = 0 /\ h.kind \in Kinds /\ tenant \in BOOLEAN
      /\ op[r].heard \in 0..2 /\ op[r].pending = Rows(op[r])
  BY <1>2, <1>3, CallState
<1>5. (IF Logs(h) THEN h.pending + 1 ELSE h.pending) = Rows(h)
  BY <1>3, <1>4 DEF Rows, Logs
<1>6. Rows(h) \in 0..2 /\ Rows(h) <= h.heard
  BY <1>3 DEF Rows
<1>7. After(h) \in {"call", "tenant", "commit", "pinecone"}
  BY DEF After
<1> HIDE DEF h
<1>8. o = [h EXCEPT !.pc = After(h), !.pending = Rows(h)]
  BY <1>5
<1> HIDE DEF o, New
<1>9. /\ o \in Request
      /\ o.kind = h.kind /\ o.code = "ok" /\ o.told = h.told
      /\ o.heard = h.heard /\ o.pending = Rows(h) /\ o.tries = 0
      /\ o.billed = h.billed /\ o.pc = After(h)
  BY <1>3, <1>6, <1>7, <1>8 DEF Request
<1>10. Paid(o)
  <2>1. Sends * 0 = 0 /\ Cost * o.heard + 0 = Cost * o.heard
    BY <1>3, <1>9, UsageLedgerAssumption, CostIsNat, SMT
  <2> QED
    BY <1>3, <1>9, <2>1 DEF Paid
<1>11. True(o, logged[r], tenant)
  BY <1>3, <1>4, <1>6, <1>9 DEF True
<1>12. Placed(o, logged[r], tenant)
  <2>1. Rows(o) = Rows(h)
    BY <1>9 DEF Rows, Logs
  <2>2. CASE h.kind \in Pages /\ h.heard < Calls[h.kind]
    BY <1>3, <1>4, <1>9, <2>1, <2>2 DEF After, Placed, Calling
  <2>3. CASE h.kind \in Pages /\ ~(h.heard < Calls[h.kind])
    <3>1. h.heard = Calls[h.kind]
      BY <1>3, <1>4, <2>3 DEF Calls
    <3>2. o.pc = "pinecone"
      BY <1>9, <2>3 DEF After, Pages, Brand
    <3> QED
      BY <1>3, <1>4, <1>9, <2>1, <2>3, <3>1, <3>2 DEF Placed, Querying, Pages, Brand
  <2>4. CASE h.kind = "search"
    <3>1. Calls[h.kind] = 1 /\ o.pc = "commit" /\ Rows(h) = h.heard
      BY <1>9, <2>4 DEF Calls, Kinds, After, Pages, Rows, Logs
    <3>2. h.heard = Calls[h.kind]
      BY <1>3, <3>1
    <3> QED
      BY <1>3, <1>4, <1>9, <2>4, <3>1, <3>2 DEF Placed, Committing, Brand
  <2>5. CASE h.kind \in Brand
    <3>1. Calls[h.kind] = 1 /\ o.pc = "tenant" /\ Rows(h) = 0
      BY <1>9, <2>5 DEF Calls, Kinds, After, Pages, Brand, Rows, Logs
    <3> QED
      BY <1>3, <1>4, <1>9, <2>5, <3>1 DEF Placed, Looking
  <2>6. CASE h.kind = "debug"
    <3>1. Calls[h.kind] = 1 /\ o.pc = "pinecone"
      BY <1>9, <2>6 DEF Calls, Kinds, After, Pages, Brand
    <3>2. h.heard = Calls[h.kind]
      BY <1>3, <3>1
    <3> QED
      BY <1>3, <1>4, <1>9, <2>1, <2>6, <3>1, <3>2 DEF Placed, Querying, Brand
  <2> QED
    BY <1>4, <2>2, <2>3, <2>4, <2>5, <2>6 DEF Kinds
<1>13. Become(r, o)
  BY <1>1 DEF o, h
<1> QED
  BY <1>9, <1>10, <1>11, <1>12, <1>13, BecomeGood DEF Good

LEMMA HearUnusableInv ==
  ASSUME Inv, NEW r \in Requests, HearUnusable(r)
  PROVE  Inv'
<1>1. PICK n \in 1..Sends : Become(r, Unusable(Heard(r, n)))
  BY DEF HearUnusable
<1> DEFINE h == Heard(r, n)
<1>2. op[r].pc = "call" /\ op[r].kind \in Brand
  BY DEF HearUnusable
<1>3. /\ h \in Request /\ h.kind \in Brand /\ ~h.told
      /\ h.heard <= Calls[h.kind] /\ h.heard <= h.billed
      /\ h.billed <= Cost * Calls[h.kind]
  BY <1>2, HeardFields
<1>4. logged[r] = 0 /\ tenant \in BOOLEAN
  BY <1>2, CallState
<1> HIDE DEF h
<1>5. PICK code \in {"ok", "502"} : Unusable(h) = Answered(h, code)
  BY DEF Unusable, Fallback
<1>6. Unusable(h) \in Request /\ Good(Unusable(h), logged[r], tenant)
  BY <1>3, <1>4, <1>5, FallbackGood
<1>7. Become(r, Unusable(h))
  BY <1>1 DEF h
<1> QED
  BY <1>6, <1>7, BecomeGood

LEMMA HearOddShapeInv ==
  ASSUME Inv, NEW r \in Requests, HearOddShape(r)
  PROVE  Inv'
<1>1. PICK n \in 1..Sends : Become(r, Failed(Heard(r, n), "500"))
  BY DEF HearOddShape
<1> DEFINE h == Heard(r, n)
<1>2. op[r].pc = "call" /\ op[r].kind \in Brand \cup Pages
  BY DEF HearOddShape
<1>3. /\ h \in Request /\ h.kind = op[r].kind
      /\ h.pc = "call" /\ h.code = "ok" /\ ~h.told
      /\ h.heard = op[r].heard + 1 /\ h.pending = op[r].pending
      /\ h.heard <= Calls[h.kind] /\ h.heard <= h.billed
      /\ h.billed <= Cost * Calls[h.kind]
  BY <1>2, HeardFields
<1>4. /\ logged[r] = 0 /\ tenant \in BOOLEAN
      /\ op[r].heard \in 0..2 /\ op[r].pending = Rows(op[r])
  BY <1>2, CallState
<1>5. h.pending <= h.heard /\ h.kind # "search"
  BY <1>2, <1>3, <1>4 DEF Rows, Brand, Pages
<1> HIDE DEF h
<1>6. Failed(h, "500") \in Request /\ Good(Failed(h, "500"), logged[r], tenant)
  BY <1>3, <1>4, <1>5, FailedGood
<1>7. Become(r, Failed(h, "500"))
  BY <1>1 DEF h
<1> QED
  BY <1>6, <1>7, BecomeGood

\* What Inv says of the types of any request and its place.
LEMMA GoodState ==
  ASSUME Inv, NEW r \in Requests
  PROVE  /\ op[r] \in Request /\ op[r].kind \in Kinds
         /\ logged[r] \in 0..2 /\ tenant \in BOOLEAN
         /\ op[r].heard \in 0..2 /\ op[r].pending \in 0..2 /\ op[r].billed \in Nat
         /\ Placed(op[r], logged[r], tenant) /\ Paid(op[r])
         /\ logged[r] + op[r].pending <= op[r].heard /\ op[r].heard <= Calls[op[r].kind]
         /\ op[r].heard <= op[r].billed /\ (~tenant => logged[r] = 0)
         /\ logged[r] <= op[r].heard /\ op[r].pending <= op[r].heard
<1>1. /\ op[r] \in Request /\ logged[r] \in 0..2 /\ tenant \in BOOLEAN
      /\ Placed(op[r], logged[r], tenant) /\ Paid(op[r]) /\ True(op[r], logged[r], tenant)
  BY DEF Inv, TypeOK, Good
<1>2. /\ op[r].kind \in Kinds /\ op[r].heard \in 0..2 /\ op[r].pending \in 0..2
      /\ op[r].billed \in Nat
  BY <1>1 DEF Request
<1>3. /\ logged[r] + op[r].pending <= op[r].heard /\ op[r].heard <= Calls[op[r].kind]
      /\ op[r].heard <= op[r].billed /\ (~tenant => logged[r] = 0)
  BY <1>1 DEF True
<1>4. logged[r] <= op[r].heard /\ op[r].pending <= op[r].heard
  BY <1>1, <1>2, <1>3
<1> QED
  BY <1>1, <1>2, <1>3, <1>4

LEMMA ToldFields ==
  ASSUME NEW o \in Request, NEW b \in BOOLEAN
  PROVE  LET t == [o EXCEPT !.told = b]
         IN  /\ t \in Request /\ t.told = b
             /\ t.kind = o.kind /\ t.named = o.named /\ t.heard = o.heard
             /\ t.billed = o.billed /\ t.pc = o.pc /\ t.code = o.code
             /\ t.pending = o.pending /\ t.tries = o.tries
BY DEF Request

\* An image is accepted, or its request is answered without a call.
LEMMA ImageStepInv ==
  ASSUME Inv, NEW r \in Requests, ImageStep(r)
  PROVE  Inv'
<1> DEFINE o == op[r]
           c == [o EXCEPT !.pc = "call"]
<1>1. o.pc = "image"
  BY DEF ImageStep, AcceptImage, RefuseImage, ImageBreaks, NoColours
<1>2. Pictured(o, logged[r])
  BY <1>1, GoodState DEF Placed
<1>3. /\ o \in Request /\ o.kind \in Brand /\ o.heard = 0 /\ o.tries = 0 /\ o.pending = 0
      /\ o.billed = 0 /\ o.code = "ok" /\ ~o.told /\ logged[r] = 0 /\ tenant \in BOOLEAN
      /\ o.heard <= Calls[o.kind] /\ o.billed <= Cost * Calls[o.kind]
  BY <1>2, GoodState DEF Pictured, Paid
<1> HIDE DEF o
<1>4. CASE Become(r, c)
  <2>1. /\ c \in Request /\ c.kind = o.kind /\ c.heard = 0 /\ c.tries = 0 /\ c.pending = 0
        /\ c.billed = 0 /\ c.code = "ok" /\ ~c.told /\ c.pc = "call"
    BY <1>3 DEF Request
  <2> HIDE DEF c
  <2>2. Calls[o.kind] = 1 /\ ~Logs(c) /\ o.kind \in Kinds
    BY <1>3, <2>1 DEF Calls, Kinds, Brand, Pages, Logs
  <2>3. Cost * 1 \in Nat /\ Cost * 0 = 0 /\ Sends * 0 = 0
    BY CostIsNat, UsageLedgerAssumption
  <2>4. Placed(c, logged[r], tenant)
    BY <1>3, <2>1, <2>2 DEF Placed, Calling, Rows
  <2>5. True(c, logged[r], tenant) /\ Paid(c)
    BY <1>3, <2>1, <2>2, <2>3 DEF True, Paid
  <2> QED
    BY <1>4, <2>1, <2>4, <2>5, BecomeGood DEF Good
<1>5. ASSUME NEW code \in {"ok", "400", "500"}, Become(r, Answered(o, code))
      PROVE  Inv'
  <2>1. o.heard <= o.billed
    BY <1>3
  <2>2. Answered(o, code) \in Request /\ Good(Answered(o, code), logged[r], tenant)
    BY <1>3, <2>1, FallbackGood
  <2> QED
    BY <1>5, <2>2, BecomeGood
<1>6. Become(r, c) \/ \E code \in {"ok", "400", "500"} : Become(r, Answered(o, code))
  BY DEF ImageStep, AcceptImage, RefuseImage, ImageBreaks, NoColours, Fallback, o
<1> QED
  BY <1>4, <1>5, <1>6

LEMMA LookForTenantInv ==
  ASSUME Inv, NEW r \in Requests, LookForTenant(r)
  PROVE  Inv'
<1> DEFINE o == [op[r] EXCEPT !.told = TRUE]
           c == [o EXCEPT !.pc = "commit", !.pending = 1]
<1>1. /\ op[r].pc = "tenant"
      /\ Become(r, IF op[r].named /\ tenant THEN c ELSE Answered(o, "ok"))
  BY DEF LookForTenant
<1>2. Looking(op[r], logged[r])
  BY <1>1, GoodState DEF Placed
<1>3. /\ o \in Request /\ o.told = TRUE /\ o.kind = op[r].kind /\ o.named = op[r].named
      /\ o.heard = 1 /\ o.billed = op[r].billed /\ o.code = "ok" /\ o.kind \in Brand
      /\ logged[r] = 0 /\ tenant \in BOOLEAN
  BY <1>2, GoodState, ToldFields DEF Looking
<1>4. o.heard <= Calls[o.kind] /\ o.heard <= o.billed /\ o.billed <= Cost * Calls[o.kind]
  BY <1>3, GoodState DEF Paid
<1>5. CASE op[r].named /\ tenant
  <2> HIDE DEF o
  <2>1. /\ c \in Request
        /\ c.kind = o.kind /\ c.named = o.named /\ c.told = o.told /\ c.code = o.code
        /\ c.heard = o.heard /\ c.billed = o.billed /\ c.pc = "commit" /\ c.pending = 1
    BY <1>3 DEF Request
  <2>2. Become(r, c)
    BY <1>1, <1>5
  <2> HIDE DEF c
  <2>3. o.kind \notin {"search", "index", "bulkPage", "debug"}
    BY <1>3 DEF Brand
  <2>4. Calls[o.kind] = 1
    BY <1>3 DEF Calls, Kinds, Brand, Pages
  <2>5. Placed(c, logged[r], tenant)
    BY <1>3, <1>5, <2>1, <2>3, <2>4 DEF Placed, Committing
  <2>6. True(c, logged[r], tenant)
    BY <1>3, <1>4, <1>5, <2>1 DEF True
  <2>7. Paid(c)
    BY <1>4, <2>1 DEF Paid
  <2> QED
    BY <2>1, <2>2, <2>5, <2>6, <2>7, BecomeGood DEF Good
<1>6. CASE ~(op[r].named /\ tenant)
  <2> HIDE DEF o
  <2>1. /\ Answered(o, "ok") \in Request /\ Answered(o, "ok").kind = o.kind
        /\ Answered(o, "ok").named = o.named /\ Answered(o, "ok").code = "ok"
    BY <1>3, AnsweredFields
  <2>2. tenant => Over(Answered(o, "ok"), logged[r])
    BY <1>3, <1>6, <2>1 DEF Over, Brand, Pages
  <2>3. Good(Answered(o, "ok"), logged[r], tenant)
    BY <1>3, <1>4, <2>2, AnsweredGood
  <2>4. Become(r, Answered(o, "ok"))
    BY <1>1, <1>6
  <2> QED
    BY <2>1, <2>3, <2>4, BecomeGood
<1> QED
  BY <1>5, <1>6

\* CommitFails and Crash: an answer, or none, that leaves the ledger as it is.
LEMMA BrokenOffGood ==
  ASSUME Inv, NEW r \in Requests, NEW code \in {"500", "none"},
         op[r].pc \notin {"idle", "answered"},
         Become(r, Answered([op[r] EXCEPT !.told = FALSE], code))
  PROVE  Inv'
<1> DEFINE o == [op[r] EXCEPT !.told = FALSE]
           a == Answered(o, code)
<1>1. /\ o \in Request /\ o.told = FALSE /\ o.kind = op[r].kind
      /\ o.heard = op[r].heard /\ o.billed = op[r].billed
  BY GoodState, ToldFields
<1>2. /\ o.heard <= Calls[o.kind] /\ o.heard <= o.billed /\ o.billed <= Cost * Calls[o.kind]
      /\ logged[r] \in 0..2 /\ tenant \in BOOLEAN /\ (~tenant => logged[r] = 0)
      /\ logged[r] <= o.heard /\ o.kind \in Kinds
  BY <1>1, GoodState DEF Paid
<1>3. o.kind # "search" => logged[r] = 0
  <2>1. op[r].pc \in {"image", "call", "tenant", "commit", "pinecone"}
    BY GoodState DEF Request
  <2> QED
    BY <1>1, <2>1, GoodState DEF Placed, Pictured, Calling, Looking, Committing, Querying
<1>4. Become(r, a)
  OBVIOUS
<1> HIDE DEF o
<1>5. a \in Request /\ a.kind = o.kind /\ a.told = FALSE /\ a.code = code
  BY <1>1, AnsweredFields
<1>6. Over(a, logged[r])
  <2> HIDE DEF a
  <2> QED
    BY <1>2, <1>3, <1>5 DEF Over, Brand, Pages
<1>7. Good(a, logged[r], tenant)
  BY <1>1, <1>2, <1>6, AnsweredGood
<1> QED
  BY <1>4, <1>5, <1>7, BecomeGood

LEMMA CommitInv ==
  ASSUME Inv, NEW r \in Requests, Commit(r)
  PROVE  Inv'
<1> DEFINE o == op[r]
           n == logged[r] + o.pending
<1> PICK code \in Outcomes(o) : op' = [op EXCEPT ![r] = Committed(o, code)]
  BY DEF Commit
<1> DEFINE c == Committed(o, code)
<1>1. /\ o.pc = "commit" /\ tenant = TRUE /\ tenant' = tenant
      /\ logged' = [logged EXCEPT ![r] = n] /\ op' = [op EXCEPT ![r] = c]
  BY GoodState DEF Commit
<1>2. Committing(o, logged[r])
  BY <1>1, GoodState DEF Placed
<1>3. /\ o \in Request /\ o.kind \in Kinds /\ o.heard \in 0..2 /\ o.pending \in 0..2
      /\ n = o.pending /\ o.pending <= o.heard /\ n \in 0..2
      /\ o.heard <= Calls[o.kind] /\ o.heard <= o.billed /\ o.billed <= Cost * Calls[o.kind]
  BY <1>2, GoodState DEF Committing, Paid
<1> HIDE DEF o, n
<1>4. c \in Request /\ Good(c, n, TRUE)
  <2>1. CASE o.kind = "search"
    <3>1. c = [o EXCEPT !.pc = "pinecone", !.pending = 0]
      BY <2>1 DEF Committed
    <3>2. o.pending = o.heard /\ o.heard = Calls[o.kind] /\ o.code = "ok" /\ o.kind \notin Brand
      BY <1>2, <2>1 DEF Committing, Brand
    <3>3. Calls[o.kind] = 1
      BY <2>1 DEF Calls, Kinds, Pages
    <3> HIDE DEF c
    <3>4. /\ c \in Request
          /\ c.kind = o.kind /\ c.told = o.told /\ c.code = o.code /\ c.heard = o.heard
          /\ c.billed = o.billed /\ c.pc = "pinecone" /\ c.pending = 0
      <4> DEFINE b == [o EXCEPT !.pc = "pinecone"]
      <4>1. /\ b \in Request
            /\ b.kind = o.kind /\ b.told = o.told /\ b.code = o.code
            /\ b.heard = o.heard /\ b.billed = o.billed /\ b.pc = "pinecone"
        BY <1>3 DEF Request
      <4>2. c = [b EXCEPT !.pending = 0]
        BY <3>1
      <4> HIDE DEF b
      <4>3. /\ c \in Request
            /\ c.kind = b.kind /\ c.told = b.told /\ c.code = b.code
            /\ c.heard = b.heard /\ c.billed = b.billed /\ c.pc = b.pc
            /\ c.pending = 0
        BY <4>1, <4>2 DEF Request
      <4> QED
        BY <4>1, <4>3
    <3>5. ~o.told
      BY <1>2, <2>1, <3>2 DEF Committing
    <3>6. Placed(c, n, TRUE)
      BY <1>3, <2>1, <3>2, <3>3, <3>4, <3>5 DEF Placed, Querying
    <3>7. True(c, n, TRUE)
      BY <1>3, <3>4 DEF True
    <3>8. Paid(c)
      BY <1>3, <3>4 DEF Paid
    <3> QED
      BY <3>4, <3>6, <3>7, <3>8 DEF Good
  <2>2. CASE o.kind # "search"
    <3>1. c = Answered(o, code) /\ code \in {"ok", "500", "502", "503", "none"}
      BY <1>2, <1>3, <2>2 DEF Committed, Outcomes, Committing, Request
    <3>2. /\ c \in Request /\ c.kind = o.kind /\ c.named = o.named /\ c.told = o.told
          /\ c.heard = o.heard /\ c.code = code
      BY <1>3, <3>1, AnsweredFields
    <3> HIDE DEF c
    <3>3. Over(c, n)
      <4>1. code = o.code \/ (o.code = "ok" /\ code = "500" /\ o.kind \in Pages)
        BY DEF Outcomes
      <4> QED
        BY <1>2, <1>3, <2>2, <3>2, <4>1 DEF Over, Committing, Brand, Pages
    <3>4. Good(c, n, TRUE)
      BY <1>3, <3>1, <3>3, AnsweredGood
    <3> QED
      BY <3>2, <3>4
  <2> QED
    BY <2>1, <2>2
<1>5. TypeOK'
  BY <1>1, <1>3, <1>4 DEF Inv, TypeOK
<1>6. ASSUME NEW q \in Requests PROVE Good(op'[q], logged'[q], tenant')
  <2>1. CASE q = r
    BY <1>1, <1>4, <2>1 DEF Inv, TypeOK
  <2>2. CASE q # r
    BY <1>1, <2>2 DEF Inv, TypeOK
  <2> QED
    BY <2>1, <2>2
<1> QED
  BY <1>5, <1>6 DEF Inv

LEMMA CallPineconeInv ==
  ASSUME Inv, NEW r \in Requests, CallPinecone(r)
  PROVE  Inv'
<1> DEFINE o == op[r]
           c == [o EXCEPT !.pc = "commit"]
<1>1. /\ o.pc = "pinecone"
      /\ Become(r, IF o.kind \in Pages THEN c ELSE Answered(o, "ok"))
  BY DEF CallPinecone
<1>2. Querying(o, logged[r], tenant)
  BY <1>1, GoodState DEF Placed
<1>3. /\ o \in Request /\ o.kind \in Kinds /\ o.heard \in 0..2 /\ o.pending \in 0..2
      /\ logged[r] \in 0..2 /\ tenant \in BOOLEAN /\ (~tenant => logged[r] = 0)
      /\ logged[r] <= o.heard /\ logged[r] + o.pending <= o.heard
      /\ o.heard <= Calls[o.kind] /\ o.heard <= o.billed /\ o.billed <= Cost * Calls[o.kind]
  BY GoodState DEF Paid
<1> HIDE DEF o
<1>4. CASE o.kind \in Pages
  <2>1. /\ c \in Request
        /\ c.kind = o.kind /\ c.told = o.told /\ c.code = o.code /\ c.heard = o.heard
        /\ c.billed = o.billed /\ c.pc = "commit" /\ c.pending = o.pending
    BY <1>3 DEF Request
  <2> HIDE DEF c
  <2>2. o.pending = o.heard /\ logged[r] = 0 /\ o.kind \notin {"search", "debug"}
    BY <1>2, <1>4 DEF Querying, Rows, Logs, Pages
  <2>3. Placed(c, logged[r], tenant)
    BY <1>2, <1>3, <1>4, <2>1, <2>2 DEF Placed, Committing, Querying, Pages, Brand
  <2>4. True(c, logged[r], tenant)
    BY <1>3, <2>1 DEF True
  <2>5. Paid(c)
    BY <1>3, <2>1 DEF Paid
  <2> QED
    BY <1>1, <1>4, <2>1, <2>3, <2>4, <2>5, BecomeGood DEF Good
<1>5. CASE o.kind \notin Pages
  <2>1. /\ Answered(o, "ok") \in Request /\ Answered(o, "ok").kind = o.kind
        /\ Answered(o, "ok").code = "ok"
    BY <1>3, AnsweredFields
  <2>2. o.kind = "search" \/ o.kind = "debug"
    BY <1>2, <1>3, <1>5 DEF Querying, Kinds
  <2>3. o.kind = "search" => Calls[o.kind] = 1
    BY DEF Calls, Kinds, Pages
  <2>4. tenant => Over(Answered(o, "ok"), logged[r])
    BY <1>2, <2>1, <2>2, <2>3 DEF Over, Querying, Brand, Pages
  <2>5. Good(Answered(o, "ok"), logged[r], tenant)
    BY <1>3, <2>4, AnsweredGood
  <2> QED
    BY <1>1, <1>5, <2>1, <2>5, BecomeGood
<1> QED
  BY <1>4, <1>5

LEMMA PineconeFailsInv ==
  ASSUME Inv, NEW r \in Requests, PineconeFails(r)
  PROVE  Inv'
<1> DEFINE o == op[r]
<1>1. o.pc = "pinecone" /\ Become(r, Failed(o, "503"))
  BY DEF PineconeFails
<1>2. Querying(o, logged[r], tenant)
  BY <1>1, GoodState DEF Placed
<1>3. /\ o \in Request /\ o.kind \in Kinds /\ o.heard \in 0..2 /\ o.pending \in 0..2
      /\ logged[r] \in 0..2 /\ tenant \in BOOLEAN /\ (~tenant => logged[r] = 0)
      /\ logged[r] + o.pending <= o.heard /\ o.pending <= o.heard
      /\ o.heard <= Calls[o.kind] /\ o.heard <= o.billed /\ o.billed <= Cost * Calls[o.kind]
  BY GoodState DEF Paid
<1> HIDE DEF o
<1>4. /\ o.code = "ok" /\ ~o.told
      /\ o.kind \in Pages => logged[r] = 0 /\ o.pending = o.heard
      /\ o.kind = "search" => o.pending = 0 /\ (tenant => logged[r] = o.heard)
      /\ o.kind = "debug" => logged[r] = 0
      /\ o.kind \notin Brand
  <2>1. o.kind = "search" => Calls[o.kind] = 1
    BY DEF Calls, Kinds, Pages
  <2> QED
    BY <1>2, <2>1 DEF Querying, Rows, Logs, Pages
<1>5. o.kind = "bulkPage" => o.pending = o.heard
  BY <1>4 DEF Pages
<1>6. o.kind = "search" => o.pending + logged[r] <= o.heard
  BY <1>3, <1>4
<1>7. Failed(o, "503") \in Request /\ Good(Failed(o, "503"), logged[r], tenant)
  BY <1>1, <1>3, <1>4, <1>5, <1>6, FailedGood
<1> QED
  BY <1>1, <1>7, BecomeGood DEF o

LEMMA TenantDeletedInv ==
  ASSUME Inv, TenantDeleted
  PROVE  Inv'
<1>1. /\ tenant = TRUE /\ tenant' = FALSE
      /\ logged' = [r \in Requests |-> 0] /\ op' = op
  BY DEF TenantDeleted, Inv, TypeOK
<1>2. TypeOK'
  <2>1. logged' \in [Requests -> 0..2]
    <3>1. 0 \in 0..2
      OBVIOUS
    <3> QED
      BY <1>1, <3>1
  <2> QED
    BY <1>1, <2>1 DEF Inv, TypeOK
<1>3. ASSUME NEW r \in Requests PROVE Good(op'[r], logged'[r], tenant')
  <2> DEFINE o == op[r]
  <2>1. /\ o \in Request /\ o.heard \in 0..2 /\ o.pending \in 0..2
        /\ Placed(o, logged[r], TRUE) /\ Paid(o) /\ o.pending <= o.heard
        /\ o.heard <= Calls[o.kind] /\ o.heard <= o.billed
    BY <1>1, GoodState
  <2> HIDE DEF o
  <2>2. True(o, 0, FALSE)
    BY <2>1 DEF True
  <2>3. Placed(o, 0, FALSE)
    BY <2>1 DEF Placed, Pictured, Calling, Looking, Committing, Querying
  <2>4. op'[r] = o /\ logged'[r] = 0 /\ tenant' = FALSE
    BY <1>1, <1>3 DEF o
  <2> QED
    BY <2>1, <2>2, <2>3, <2>4 DEF Good
<1> QED
  BY <1>2, <1>3 DEF Inv

-----------------------------------------------------------------------------
LEMMA NextInv == Inv /\ [Next]_vars => Inv'
<1> SUFFICES ASSUME Inv, [Next]_vars PROVE Inv'
  OBVIOUS
<1>1. ASSUME NEW r \in Requests, Start(r) \/ Step(r) \/ Crash(r) PROVE Inv'
  <2>1. CASE CommitFails(r)
    BY <2>1, BrokenOffGood DEF CommitFails
  <2>2. CASE Crash(r)
    BY <2>2, BrokenOffGood DEF Crash
  <2> QED
    BY <1>1, <2>1, <2>2, StartInv, ImageStepInv, AttemptFailsInv, RejectedInv, HearUsableInv,
       HearUnusableInv, HearOddShapeInv, LookForTenantInv, CommitInv,
       CallPineconeInv, PineconeFailsInv DEF Step
<1>2. CASE TenantDeleted
  BY <1>2, TenantDeletedInv
<1>3. CASE UNCHANGED vars
  BY <1>3 DEF vars, Inv, TypeOK
<1> QED
  BY <1>1, <1>2, <1>3 DEF Next

(* Whatever is retried, lost, refused or interrupted, the state keeps its  *)
(* types: app/core/retry.py never counts past its attempts.                *)
THEOREM LedgerTypeCorrect == Spec => []TypeOK
<1>1. Inv => TypeOK
  BY DEF Inv
<1> QED
  BY <1>1, InitInv, NextInv, PTL DEF Spec

(* No handler writes a usage row for a call that OpenAI did not answer.    *)
THEOREM LedgerIsTrue == Spec => []LedgerTrue
<1>1. Inv => LedgerTrue
  BY DEF Inv, Good, True, LedgerTrue
<1> QED
  BY <1>1, InitInv, NextInv, PTL DEF Spec

(* What an answer says of the usage rows is so, for every handler.         *)
THEOREM AnswersMatchLedger == Spec => []UsageLogged
<1>1. Inv => UsageLogged
  BY DEF Inv, Good, Placed, Over, UsageLogged
<1> QED
  BY <1>1, InitInv, NextInv, PTL DEF Spec

(* The retries of tenacity and of the OpenAI client together cannot make a *)
(* call cost more than Attempts * Sends completions.                       *)
THEOREM SpendIsBounded == Spec => []SpendBounded
<1>1. Inv => SpendBounded
  BY DEF Inv, Good, Paid, Cost, SpendBounded
<1> QED
  BY <1>1, InitInv, NextInv, PTL DEF Spec
=============================================================================
