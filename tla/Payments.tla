------------------------------ MODULE Payments ------------------------------
(***************************************************************************)
(* Paying an invoice: the pay handler (services/payments.rs), the client   *)
(* of the payment provider (workers/payment.rs), the reconciliation worker *)
(* (workers/payment_status_worker.rs) and the provider as they see it.     *)
(*                                                                         *)
(* A payment attempt is named by the request whose claim inserts it: a     *)
(* request inserts at most one.  A transaction is one step when the row    *)
(* lock taken by its first UPDATE serialises it with every other writer of *)
(* the rows it touches; statements outside a transaction are steps of      *)
(* their own.  One business owns everything.                               *)
(***************************************************************************)
EXTENDS Naturals, FiniteSets

CONSTANTS
  Invoices,      \* invoices that were finalized before anybody pays
  Keys,          \* idempotency keys clients send
  Requests,      \* POST /invoices/{id}/pay calls, each made once
  Versions,      \* values clients send in the field "versioning"
  OpenVersion,   \* the versioning of a finalized invoice
  MaxCrashes,    \* bound on the crashes of the process and the provider's restarts
  NoRow          \* "no such row", "no such answer"

ASSUME VersionsAssumption == Versions \subseteq Nat /\ OpenVersion \in Nat
ASSUME CrashAssumption == MaxCrashes \in Nat
ASSUME NoRowAssumption == NoRow \notin Requests

VARIABLES
  invState,   \* invoices.state
  invVer,     \* invoices.versioning
  req,        \* what each request asks
  pc,         \* where the handler of each request is
  attempt,    \* payment_attempts.status; "expired" is 'failed' by the 24h rule
  waiting,    \* attempts with next_retry_at in the future
  old,        \* attempts (and their key rows) created 24 hours ago or more
  idem,       \* idempotency_keys: whose claim inserted the row, or NoRow
  body,       \* idempotency_keys.response_body of that row
  answer,     \* the response a request got
  psp,        \* the provider's outcome for the attempt
  forgotten,  \* outcomes the provider no longer has: it keeps them in memory
  phase,      \* where the reconciliation worker is in its tick
  batch,      \* the rows its last SELECT returned, not yet handled
  spawned,    \* the webhook dispatch tasks handlers and worker have spawned
  stale,      \* history: attempts the worker settled behind their handler's back
  crashes     \* history: crashes and restarts so far

invoiceVars == <<invState, invVer>>
attemptVars == <<attempt, waiting, old>>
keyVars == <<idem, body>>
workerVars == <<phase, batch>>
pspVars == <<psp, forgotten>>
vars == <<invState, invVer, req, pc, attempt, waiting, old, idem, body, answer,
          psp, forgotten, phase, batch, spawned, stale, crashes>>

InvoiceStates == {"open", "processing", "paid"}
\* What the client of the provider makes of an answer it can read: succeeded, or failed.
Outcomes == {"succeeded", "failed"}
Settled == Outcomes \cup {"expired"}
AttemptStates == {"none", "pending"} \cup Settled
PspStates == {"none", "charging", "refused"} \cup Outcomes
Answers == [attempt : Requests \cup {NoRow}, status : {"none", "pending"} \cup Outcomes]
Tasks == [attempt : Requests, event : Outcomes, by : {"handler", "worker"}]
RequestShape == [invoice : Invoices, key : Keys, versioning : Versions]

InFlightPcs == {"claim", "charge", "await"}
InFlight(r) == pc[r] \in InFlightPcs
Row(r) == idem[req[r].key][req[r].invoice]
NoAnswer == [attempt |-> NoRow, status |-> "none"]

\* The types of all but the invoices' rows.
AttemptTypes ==
  /\ req \in [Requests -> RequestShape]
  /\ pc \in [Requests -> {"idle", "answered", "refused"} \cup InFlightPcs]
  /\ attempt \in [Requests -> AttemptStates]
  /\ waiting \subseteq Requests
  /\ old \subseteq Requests
  /\ idem \in [Keys -> [Invoices -> Requests \cup {NoRow}]]
  /\ body \in [Requests -> {"none", "pending"} \cup Outcomes]
  /\ answer \in [Requests -> Answers]
  /\ psp \in [Requests -> PspStates]
  /\ forgotten \subseteq Requests
  /\ phase \in {"sleep", "reconcile", "stalled", "expire"}
  /\ batch \subseteq Requests
  /\ spawned \subseteq Tasks
  /\ stale \subseteq Requests
  /\ crashes \in 0..MaxCrashes

TypeOK ==
  /\ invState \in [Invoices -> InvoiceStates]
  /\ invVer \in [Invoices -> Nat]
  /\ AttemptTypes

\* Before anybody pays.
NothingPaid ==
  /\ req \in [Requests -> RequestShape]
  /\ pc = [r \in Requests |-> "idle"]
  /\ attempt = [r \in Requests |-> "none"]
  /\ waiting = {}
  /\ old = {}
  /\ idem = [k \in Keys |-> [i \in Invoices |-> NoRow]]
  /\ body = [r \in Requests |-> "none"]
  /\ answer = [r \in Requests |-> NoAnswer]
  /\ psp = [r \in Requests |-> "none"]
  /\ forgotten = {}
  /\ phase = "sleep"
  /\ batch = {}
  /\ spawned = {}
  /\ stale = {}
  /\ crashes = 0

Init ==
  /\ invState = [i \in Invoices |-> "open"]
  /\ invVer = [i \in Invoices |-> OpenVersion]
  /\ NothingPaid

-----------------------------------------------------------------------------
(* The pay handler.                                                        *)

\* The lookup sees a key row only during the row's first 24 hours.
Fresh(row) == row # NoRow /\ row \notin old

ReplayStored(r) ==
  /\ pc[r] = "idle"
  /\ Fresh(Row(r))
  /\ answer' = [answer EXCEPT ![r] = [attempt |-> Row(r), status |-> body[Row(r)]]]
  /\ pc' = [pc EXCEPT ![r] = "answered"]
  /\ UNCHANGED <<invoiceVars, req, attemptVars, keyVars, pspVars, workerVars,
                 spawned, stale, crashes>>

MissStored(r) ==
  /\ pc[r] = "idle"
  /\ ~Fresh(Row(r))
  /\ pc' = [pc EXCEPT ![r] = "claim"]
  /\ UNCHANGED <<invoiceVars, req, attemptVars, keyVars, answer, pspVars, workerVars,
                 spawned, stale, crashes>>

\* Mutants of Claimable: the optimistic lock without the version, or the state.
ClaimableAnyVersion(i, v) == invState[i] = "open"

ClaimableAnyState(i, v) == invVer[i] = v

Claimable(i, v) == invState[i] = "open" /\ invVer[i] = v

\* Mutant of KeyTaken: the claim trusts the lookup's 24 hours instead of the index.
KeyTakenToday(r) == Fresh(Row(r))

\* 409 when the UPDATE matches no row; 500 when the unique index on
\* (key, business, invoice) rejects the key row and the claim rolls back.
KeyTaken(r) == Row(r) # NoRow

ClaimRefused(r) ==
  /\ pc[r] = "claim"
  /\ ~Claimable(req[r].invoice, req[r].versioning) \/ KeyTaken(r)
  /\ pc' = [pc EXCEPT ![r] = "refused"]
  /\ UNCHANGED <<invoiceVars, req, attemptVars, keyVars, answer, pspVars, workerVars,
                 spawned, stale, crashes>>

ClaimAttempt(r) ==
  /\ pc[r] = "claim"
  /\ Claimable(req[r].invoice, req[r].versioning)
  /\ ~KeyTaken(r)
  /\ invState' = [invState EXCEPT ![req[r].invoice] = "processing"]
  /\ invVer' = [invVer EXCEPT ![req[r].invoice] = @ + 1]
  /\ attempt' = [attempt EXCEPT ![r] = "pending"]
  /\ idem' = [idem EXCEPT ![req[r].key][req[r].invoice] = r]
  /\ body' = [body EXCEPT ![r] = "pending"]
  /\ pc' = [pc EXCEPT ![r] = "charge"]
  /\ UNCHANGED <<req, waiting, old, answer, pspVars, workerVars, spawned, stale, crashes>>

SendCharge(r) ==
  /\ pc[r] = "charge"
  /\ psp' = [psp EXCEPT ![r] = "charging"]
  /\ pc' = [pc EXCEPT ![r] = "await"]
  /\ UNCHANGED <<invoiceVars, req, attemptVars, keyVars, answer, forgotten, workerVars,
                 spawned, stale, crashes>>

Answer(r, s) ==
  /\ body' = [body EXCEPT ![r] = s]
  /\ answer' = [answer EXCEPT ![r] = [attempt |-> r, status |-> s]]
  /\ pc' = [pc EXCEPT ![r] = "answered"]

\* The second transaction: attempt, invoice (whatever its state is by now)
\* and key row, then the webhook task.
Settle(r, outcome, state) ==
  /\ pc[r] = "await"
  /\ psp[r] = outcome
  /\ attempt' = [attempt EXCEPT ![r] = outcome]
  /\ invState' = [invState EXCEPT ![req[r].invoice] = state]
  /\ invVer' = [invVer EXCEPT ![req[r].invoice] = @ + 1]
  /\ Answer(r, outcome)
  /\ spawned' = spawned \cup {[attempt |-> r, event |-> outcome, by |-> "handler"]}
  /\ UNCHANGED <<req, waiting, old, idem, pspVars, workerVars, stale, crashes>>

SettleSucceeded(r) == Settle(r, "succeeded", "paid")

SettleFailed(r) == Settle(r, "failed", "open")

\* Mutants of SettleUnknown: a timeout taken for a failure, in the answer or in
\* the event announced.
SettleUnknownAsFailed(r) ==
  /\ pc[r] = "await"
  /\ Answer(r, "failed")
  /\ UNCHANGED <<invoiceVars, req, attemptVars, idem, pspVars, workerVars, spawned,
                 stale, crashes>>

SettleUnknownAnnounced(r) ==
  /\ pc[r] = "await"
  /\ Answer(r, "pending")
  /\ spawned' = spawned \cup {[attempt |-> r, event |-> "failed", by |-> "handler"]}
  /\ UNCHANGED <<invoiceVars, req, attemptVars, idem, pspVars, workerVars, stale, crashes>>

\* The 5 second timeout, a transport error or an unusable answer, whatever the
\* provider did.
SettleUnknown(r) ==
  /\ pc[r] = "await"
  /\ Answer(r, "pending")
  /\ UNCHANGED <<invoiceVars, req, attemptVars, idem, pspVars, workerVars, spawned,
                 stale, crashes>>

\* The client hangs up and the handler's future is dropped, or one of its
\* statements fails: the open transaction rolls back.
RequestLost(r) ==
  /\ InFlight(r)
  /\ pc' = [pc EXCEPT ![r] = "refused"]
  /\ UNCHANGED <<invoiceVars, req, attemptVars, keyVars, answer, pspVars, workerVars,
                 spawned, stale, crashes>>

-----------------------------------------------------------------------------
(* The provider: it decides once, before or after the handler gives up.    *)

PspDecide(r) ==
  /\ psp[r] = "charging"
  /\ \E o \in Outcomes \cup {"refused"} : psp' = [psp EXCEPT ![r] = o]
  /\ UNCHANGED <<invoiceVars, req, pc, attemptVars, keyVars, answer, forgotten, workerVars,
                 spawned, stale, crashes>>

\* Its store does not survive a restart.  A charge under way has no outcome yet, and
\* gets one only if its request arrives after the restart.
PspRestart ==
  /\ crashes < MaxCrashes
  /\ crashes' = crashes + 1
  /\ forgotten' = forgotten \cup {r \in Requests : psp[r] \in Outcomes}
  /\ UNCHANGED <<invoiceVars, req, pc, attemptVars, keyVars, answer, psp, workerVars,
                 spawned, stale>>

-----------------------------------------------------------------------------
(* The reconciliation worker.                                              *)

Due == {r \in Requests : attempt[r] = "pending" /\ r \notin waiting /\ r \notin old}

\* Mutants of Expired: the query forgets the status, or waits for the backoff.
ExpiredAnyStatus == {r \in Requests : attempt[r] # "none" /\ r \in old}

ExpiredWhenDue == {r \in Requests : attempt[r] = "pending" /\ r \in old /\ r \notin waiting}

Expired == {r \in Requests : attempt[r] = "pending" /\ r \in old}

Tick ==
  /\ phase = "sleep"
  /\ phase' = "reconcile"
  /\ batch' = Due
  /\ UNCHANGED <<invoiceVars, req, pc, attemptVars, keyVars, answer, pspVars,
                 spawned, stale, crashes>>

Take(r) ==
  /\ phase = "reconcile"
  /\ r \in batch
  /\ batch' = batch \ {r}
  /\ phase' = phase

\* Mutants of ReleaseProcessing: the attempt's status written for the invoice's, or
\* no write at all.
ReleaseAsAttempt(i, state) ==
  invState' = [invState EXCEPT ![i] = IF @ # "processing" THEN @
                                      ELSE IF state = "paid" THEN "succeeded" ELSE state]

ReleaseNothing(i, state) == UNCHANGED invState

ReleaseProcessing(i, state) ==
  invState' = [invState EXCEPT ![i] = IF @ = "processing" THEN state ELSE @]

\* The attempt row is written whatever its status is by now.  The provider's
\* answer does not change once given, so the GET and the transaction are one
\* step.  No webhook when the query for the business fails after the commit.
Reconcile(r, outcome, state) ==
  /\ Take(r)
  /\ psp[r] = outcome
  /\ r \notin forgotten
  /\ attempt' = [attempt EXCEPT ![r] = outcome]
  /\ ReleaseProcessing(req[r].invoice, state)
  /\ stale' = IF InFlight(r) \/ attempt[r] # "pending" THEN stale \cup {r} ELSE stale
  /\ \E lost \in BOOLEAN :
       spawned' = IF lost THEN spawned
                  ELSE spawned \cup {[attempt |-> r, event |-> outcome, by |-> "worker"]}
  /\ UNCHANGED <<invVer, req, pc, waiting, old, keyVars, answer, pspVars, crashes>>

ReconcileSucceeded(r) == Reconcile(r, "succeeded", "paid")

\* Mutant of ReconcileFailed: both branches pay the invoice.
ReconcileFailedAsPaid(r) == Reconcile(r, "failed", "paid")

ReconcileFailed(r) == Reconcile(r, "failed", "open")

\* 404: no outcome stored, or no longer.  The retry count and its schedule are abstracted to
\* "not due until BackoffElapsed".
ReconcileNotFound(r) ==
  /\ Take(r)
  /\ psp[r] \notin Outcomes \/ r \in forgotten
  /\ waiting' = waiting \cup {r}
  /\ UNCHANGED <<invoiceVars, req, pc, attempt, old, keyVars, answer, pspVars,
                 spawned, stale, crashes>>

\* Timeout, transport error, unexpected answer or a failed statement.
ReconcileNoAnswer(r) ==
  /\ Take(r)
  /\ UNCHANGED <<invoiceVars, req, pc, attemptVars, keyVars, answer, pspVars,
                 spawned, stale, crashes>>

\* The answer has come within its 5 seconds, its body has not and no timeout is on
\* it: the worker waits for ever, the rest of its batch with it.
Stall(r) ==
  /\ phase = "reconcile"
  /\ r \in batch
  /\ psp[r] \in Outcomes
  /\ r \notin forgotten
  /\ phase' = "stalled"
  /\ batch' = {}
  /\ UNCHANGED <<invoiceVars, req, pc, attemptVars, keyVars, answer, pspVars,
                 spawned, stale, crashes>>

SelectExpired ==
  /\ phase = "reconcile"
  /\ batch = {}
  /\ phase' = "expire"
  /\ batch' = Expired
  /\ UNCHANGED <<invoiceVars, req, pc, attemptVars, keyVars, answer, pspVars,
                 spawned, stale, crashes>>

\* Mutant of Expire: the attempt fails and the invoice is left as it is.
ExpireAttemptOnly(r) ==
  /\ phase = "expire"
  /\ r \in batch
  /\ batch' = batch \ {r}
  /\ attempt' = [attempt EXCEPT ![r] = "expired"]
  /\ UNCHANGED <<invoiceVars, req, pc, waiting, old, keyVars, answer, pspVars, phase,
                 spawned, stale, crashes>>

Expire(r) ==
  /\ phase = "expire"
  /\ r \in batch
  /\ batch' = batch \ {r}
  /\ attempt' = [attempt EXCEPT ![r] = "expired"]
  /\ invState' = [invState EXCEPT ![req[r].invoice] = "open"]
  /\ UNCHANGED <<invVer, req, pc, waiting, old, keyVars, answer, pspVars, phase,
                 spawned, stale, crashes>>

\* The second loop is over, or a failed statement leaves the tick early.
TickEnd ==
  /\ phase = "expire" \/ (phase = "reconcile" /\ batch = {})
  /\ phase' = "sleep"
  /\ batch' = {}
  /\ UNCHANGED <<invoiceVars, req, pc, attemptVars, keyVars, answer, pspVars,
                 spawned, stale, crashes>>

-----------------------------------------------------------------------------
(* Time and crashes.                                                       *)

BackoffElapsed(r) ==
  /\ r \in waiting
  /\ waiting' = waiting \ {r}
  /\ UNCHANGED <<invoiceVars, req, pc, attempt, old, keyVars, answer, pspVars,
                 workerVars, spawned, stale, crashes>>

\* A handler is taken to be over before its attempt is 24 hours old.  It waits 5
\* seconds for the provider's answer to begin and 30 for a connection; the answer's
\* body and the database have no timeout and are assumed to end within the day.
Age(r) ==
  /\ attempt[r] # "none"
  /\ ~InFlight(r)
  /\ r \notin old
  /\ old' = old \cup {r}
  /\ UNCHANGED <<invoiceVars, req, pc, attempt, waiting, keyVars, answer, pspVars,
                 workerVars, spawned, stale, crashes>>

\* The database survives; the handlers and the worker's batch do not.  A shutdown on
\* a signal is a crash that waits for the handlers first.
Crash ==
  /\ crashes < MaxCrashes
  /\ crashes' = crashes + 1
  /\ pc' = [r \in Requests |-> IF InFlight(r) THEN "refused" ELSE pc[r]]
  /\ phase' = "sleep"
  /\ batch' = {}
  /\ UNCHANGED <<invoiceVars, req, attemptVars, keyVars, answer, pspVars, spawned, stale>>

-----------------------------------------------------------------------------
Handler(r) ==
  \/ ReplayStored(r)
  \/ MissStored(r)
  \/ ClaimRefused(r)
  \/ ClaimAttempt(r)
  \/ SendCharge(r)
  \/ SettleSucceeded(r)
  \/ SettleFailed(r)
  \/ SettleUnknown(r)

WorkerOn(r) ==
  \/ ReconcileSucceeded(r)
  \/ ReconcileFailed(r)
  \/ ReconcileNotFound(r)
  \/ ReconcileNoAnswer(r)
  \/ Expire(r)

Next ==
  \/ \E r \in Requests :
       Handler(r) \/ RequestLost(r) \/ PspDecide(r) \/ WorkerOn(r)
                  \/ Stall(r) \/ BackoffElapsed(r) \/ Age(r)
  \/ PspRestart
  \/ Tick
  \/ SelectExpired
  \/ TickEnd
  \/ Crash

Spec == Init /\ [][Next]_vars

(***************************************************************************)
(* A handler that runs goes on to its next await and is not starved; the   *)
(* worker loops for ever; time passes.  A database error may end any one   *)
(* tick early, or any one reconciliation without effect, but not every one *)
(* of them: hence strong fairness for the expiry's select and updates.     *)
(* The provider may stay silent or undecided for ever, and the worker may  *)
(* stall on its answer's body; for a handler that is the same as being     *)
(* dropped.                                                                *)
(***************************************************************************)
Fairness ==
  /\ \A r \in Requests :
       /\ WF_vars(InFlight(r) /\ Handler(r))
       /\ WF_vars(phase = "reconcile" /\ WorkerOn(r))
       /\ SF_vars(Expire(r))
       /\ WF_vars(Age(r))
  /\ WF_vars(Tick)
  /\ SF_vars(SelectExpired)
  /\ WF_vars(TickEnd)

FairSpec == Spec /\ Fairness

-----------------------------------------------------------------------------
(* Safety.                                                                 *)

Claimed(r) == attempt[r] # "none"
On(i) == {r \in Requests : Claimed(r) /\ req[r].invoice = i}
Charged(r) == psp[r] = "succeeded"

\* A retry under the same idempotency key never makes a second attempt, not
\* even once the key row is older than the window its lookup looks back.
OneAttemptPerKey ==
  \A r, s \in Requests :
    Claimed(r) /\ Claimed(s) /\ req[r].key = req[s].key
               /\ req[r].invoice = req[s].invoice => r = s

\* Optimistic locking: no version of an invoice is paid for twice, although the
\* worker and the expiry reopen an invoice without touching its version.
OneClaimPerVersion ==
  \A r, s \in Requests :
    Claimed(r) /\ Claimed(s) /\ req[r].invoice = req[s].invoice
               /\ req[r].versioning = req[s].versioning => r = s

\* An invoice in "processing" is some pending attempt's: whoever was to finish
\* it may be gone, but the worker's SELECT still finds it.
ProcessingHasPending ==
  \A i \in Invoices :
    invState[i] = "processing" => \E r \in On(i) : attempt[r] = "pending"

\* A "paid" invoice was paid: the provider took money for an attempt on it, and
\* the attempt's row says so.
PaidIsCharged ==
  \A i \in Invoices :
    invState[i] = "paid" => \E r \in On(i) : attempt[r] = "succeeded" /\ Charged(r)

\* Every record of an attempt's outcome is the provider's verdict: the attempt's
\* row, the response stored for replays, what clients were told and the events
\* announced.
RecordsTellTheVerdict ==
  /\ \A r \in Requests :
       /\ attempt[r] \in Outcomes => psp[r] = attempt[r]
       /\ body[r] \in Outcomes => psp[r] = body[r]
       /\ answer[r].status \in Outcomes => psp[answer[r].attempt] = answer[r].status
  /\ \A t \in spawned : psp[t.attempt] = t.event /\ attempt[t.attempt] = t.event

\* Every client that used one key on one invoice and got an answer heard of the
\* same attempt, the one the key row belongs to.
AnswersAgree ==
  \A r \in Requests :
    pc[r] = "answered" => /\ answer[r].attempt = Row(r)
                          /\ Claimed(Row(r))

Clean(i) == \A r \in On(i) : r \notin stale /\ attempt[r] # "expired"

\* What takes a customer's money twice: only the worker settling an attempt
\* behind its handler's back, or the 24 hour expiry.  Without them an invoice is
\* charged at most once and is "paid" exactly when a charge is recorded.
CleanInvoiceIsExact ==
  \A i \in Invoices : Clean(i) =>
    /\ \A r, s \in On(i) : Charged(r) /\ Charged(s) => r = s
    /\ invState[i] = "paid" <=> \E r \in On(i) : attempt[r] = "succeeded"

\* One event is announced per attempt, unless the worker settled it behind its
\* handler's back.
AnnouncedOnce ==
  \A t, u \in spawned : t.attempt = u.attempt => t = u \/ t.attempt \in stale

\* A settled attempt is settled for good, although neither of its two writers
\* looks at the status it overwrites.
SettledForGood ==
  [][\A r \in Requests : attempt[r] \in Settled => attempt'[r] = attempt[r]]_vars

(* Statements of the documentation.                                        *)

\* README: "At-most-one successful payment per invoice".
AtMostOneCharge ==
  \A i \in Invoices : \A r, s \in On(i) : Charged(r) /\ Charged(s) => r = s

\* API_DOC: "paid" is a terminal state.
PaidIsTerminal ==
  [][\A i \in Invoices : invState[i] = "paid" => invState'[i] = "paid"]_vars

(* Liveness.                                                               *)

\* Whatever becomes of the client, the handler, the provider and its memory, every
\* attempt leaves "pending", unless the worker waits for an answer without end.
PendingResolved ==
  \A r \in Requests :
    attempt[r] = "pending" ~> attempt[r] \in Settled \/ phase = "stalled"

\* and no invoice stays in "processing" unless it does.
ProcessingReleased ==
  \A i \in Invoices :
    invState[i] = "processing" ~> invState[i] # "processing" \/ phase = "stalled"
=============================================================================
