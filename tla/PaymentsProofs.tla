--------------------------- MODULE PaymentsProofs ---------------------------
(***************************************************************************)
(* The safety properties of Payments hold for every set of invoices, keys, *)
(* requests and versions and for any number of crashes.  What concerns     *)
(* attempts, keys, answers and events is shown without regard to what the  *)
(* rows of invoices hold, so that it holds in every composition.           *)
(***************************************************************************)
EXTENDS Payments, TLAPS

USE VersionsAssumption, CrashAssumption, NoRowAssumption

-----------------------------------------------------------------------------
(* The type invariant.                                                     *)

\* The types hold before anybody pays.
LEMMA InitTypeOK == Init => TypeOK
  BY DEF Init, NothingPaid, TypeOK, AttemptTypes, InvoiceStates, AttemptStates, Settled, Outcomes, PspStates,
         Answers, NoAnswer, InFlightPcs, Tasks

\* Every step keeps the types of attempts, handlers and worker, whatever the rows of
\* invoices hold.
LEMMA NextAttemptTypes == AttemptTypes /\ [Next]_vars => AttemptTypes'
<1> SUFFICES ASSUME AttemptTypes, [Next]_vars PROVE AttemptTypes'
  OBVIOUS
<1> USE DEF AttemptTypes, AttemptStates, Settled, Outcomes, PspStates,
            InFlightPcs, RequestShape, invoiceVars, attemptVars, keyVars, workerVars,
            pspVars
<1>1. ASSUME NEW r \in Requests, ReplayStored(r) PROVE AttemptTypes'
  BY <1>1 DEF ReplayStored, Fresh, Row, Answers
<1>2. ASSUME NEW r \in Requests, MissStored(r) PROVE AttemptTypes'
  BY <1>2 DEF MissStored
<1>3. ASSUME NEW r \in Requests, ClaimRefused(r) PROVE AttemptTypes'
  BY <1>3 DEF ClaimRefused
<1>4. ASSUME NEW r \in Requests, ClaimAttempt(r) PROVE AttemptTypes'
  BY <1>4 DEF ClaimAttempt
<1>5. ASSUME NEW r \in Requests, SendCharge(r) PROVE AttemptTypes'
  BY <1>5 DEF SendCharge
<1>6. ASSUME NEW r \in Requests, NEW o \in Outcomes, NEW s, Settle(r, o, s)
      PROVE AttemptTypes'
  BY <1>6 DEF Settle, Answer, Answers, Tasks
<1>7. ASSUME NEW r \in Requests, SettleUnknown(r) PROVE AttemptTypes'
  BY <1>7 DEF SettleUnknown, Answer, Answers
<1>8. ASSUME NEW r \in Requests, RequestLost(r) PROVE AttemptTypes'
  BY <1>8 DEF RequestLost
<1>9. ASSUME NEW r \in Requests, PspDecide(r) PROVE AttemptTypes'
  BY <1>9 DEF PspDecide
<1>10. ASSUME NEW r \in Requests, NEW o \in Outcomes, NEW s,
              Reconcile(r, o, s)
       PROVE AttemptTypes'
  <2>1. PICK lost \in BOOLEAN :
          spawned' = IF lost THEN spawned
                     ELSE spawned \cup {[attempt |-> r, event |-> o, by |-> "worker"]}
    BY <1>10 DEF Reconcile
  <2>2. spawned' \subseteq Tasks
    BY <2>1 DEF Tasks
  <2>3. QED
    BY <1>10, <2>2 DEF Reconcile, Take, ReleaseProcessing
<1>11. ASSUME NEW r \in Requests, ReconcileNotFound(r) PROVE AttemptTypes'
  BY <1>11 DEF ReconcileNotFound, Take
<1>12. ASSUME NEW r \in Requests, ReconcileNoAnswer(r) PROVE AttemptTypes'
  BY <1>12 DEF ReconcileNoAnswer, Take
<1>13. ASSUME NEW r \in Requests, Expire(r) PROVE AttemptTypes'
  BY <1>13 DEF Expire
<1>14. ASSUME NEW r \in Requests, BackoffElapsed(r) PROVE AttemptTypes'
  BY <1>14 DEF BackoffElapsed
<1>15. ASSUME NEW r \in Requests, Age(r) PROVE AttemptTypes'
  BY <1>15 DEF Age
<1>16. CASE Tick
  BY <1>16 DEF Tick, Due
<1>17. CASE SelectExpired
  BY <1>17 DEF SelectExpired, Expired
<1>18. CASE TickEnd
  BY <1>18 DEF TickEnd
<1>19. CASE Crash
  BY <1>19 DEF Crash, InFlight
<1>20. CASE UNCHANGED vars
  BY <1>20 DEF vars
<1>21. ASSUME NEW r \in Requests, Stall(r) PROVE AttemptTypes'
  BY <1>21 DEF Stall
<1>22. CASE PspRestart
  BY <1>22 DEF PspRestart
<1>23. QED
  BY <1>1, <1>2, <1>3, <1>4, <1>5, <1>6, <1>7, <1>8, <1>9, <1>10, <1>11, <1>12,
     <1>13, <1>14, <1>15, <1>16, <1>17, <1>18, <1>19, <1>20, <1>21, <1>22
     DEF Next, Handler, WorkerOn, SettleSucceeded, SettleFailed, ReconcileSucceeded,
         ReconcileFailed

\* ... and the versions of invoices are numbers.
LEMMA NextVersions ==
  ASSUME AttemptTypes, invVer \in [Invoices -> Nat], [Next]_vars
  PROVE  invVer' \in [Invoices -> Nat]
<1> USE DEF invoiceVars
<1>1. ASSUME NEW r \in Requests,
             ClaimAttempt(r) \/ SettleSucceeded(r) \/ SettleFailed(r)
      PROVE  invVer' \in [Invoices -> Nat]
  BY <1>1 DEF ClaimAttempt, SettleSucceeded, SettleFailed, Settle
<1>2. ASSUME NEW r \in Requests,
             \/ ReplayStored(r) \/ MissStored(r) \/ ClaimRefused(r) \/ SendCharge(r)
             \/ SettleUnknown(r) \/ RequestLost(r) \/ PspDecide(r) \/ WorkerOn(r)
             \/ Stall(r) \/ BackoffElapsed(r) \/ Age(r)
      PROVE  invVer' = invVer
  BY <1>2 DEF ReplayStored, MissStored, ClaimRefused, SendCharge, SettleUnknown, RequestLost,
              PspDecide, WorkerOn, ReconcileSucceeded, ReconcileFailed, Reconcile,
              ReconcileNotFound, ReconcileNoAnswer, Expire, Stall, BackoffElapsed, Age
<1>3. CASE PspRestart \/ Tick \/ SelectExpired \/ TickEnd \/ Crash \/ UNCHANGED vars
  BY <1>3 DEF PspRestart, Tick, SelectExpired, TickEnd, Crash, vars
<1>4. QED
  BY <1>1, <1>2, <1>3 DEF Next, Handler

\* Invoices stay open, in processing or paid.
LEMMA NextTypeOK == TypeOK /\ [Next]_vars => TypeOK'
<1> SUFFICES ASSUME TypeOK, [Next]_vars PROVE TypeOK'
  OBVIOUS
<1>0. AttemptTypes' /\ invVer' \in [Invoices -> Nat]
  BY NextAttemptTypes, NextVersions DEF TypeOK
<1> USE DEF TypeOK, InvoiceStates, invoiceVars
<1>1. ASSUME NEW r \in Requests,
             \/ ClaimAttempt(r) \/ SettleSucceeded(r) \/ SettleFailed(r)
             \/ ReconcileSucceeded(r) \/ ReconcileFailed(r) \/ Expire(r)
      PROVE  invState' \in [Invoices -> InvoiceStates]
  BY <1>1 DEF ClaimAttempt, SettleSucceeded, SettleFailed, Settle, ReconcileSucceeded,
              ReconcileFailed, Reconcile, ReleaseProcessing, Expire
<1>2. ASSUME NEW r \in Requests,
             \/ ReplayStored(r) \/ MissStored(r) \/ ClaimRefused(r) \/ SendCharge(r)
             \/ SettleUnknown(r) \/ RequestLost(r) \/ PspDecide(r) \/ ReconcileNotFound(r)
             \/ ReconcileNoAnswer(r) \/ Stall(r) \/ BackoffElapsed(r) \/ Age(r)
      PROVE  invState' = invState
  BY <1>2 DEF ReplayStored, MissStored, ClaimRefused, SendCharge, SettleUnknown, RequestLost,
              PspDecide, ReconcileNotFound, ReconcileNoAnswer, Stall, BackoffElapsed, Age
<1>3. CASE PspRestart \/ Tick \/ SelectExpired \/ TickEnd \/ Crash \/ UNCHANGED vars
  BY <1>0, <1>3 DEF PspRestart, Tick, SelectExpired, TickEnd, Crash, vars
<1>4. QED
  BY <1>0, <1>1, <1>2, <1>3 DEF Next, Handler, WorkerOn

\* Every variable keeps its type.
THEOREM TypeCorrect == Spec => []TypeOK
<1>1. Init => TypeOK
  BY InitTypeOK
<1>2. TypeOK /\ [Next]_vars => TypeOK'
  BY NextTypeOK
<1>3. QED
  BY <1>1, <1>2, PTL DEF Spec

-----------------------------------------------------------------------------
(* Where handlers and worker can be, given the rows.                       *)

\* A handler touches its attempt only between its claim and its answer, and is
\* over before the attempt is 24 hours old; until the worker has interfered, the
\* attempt of a handler in flight is pending.
HandlerInv ==
  \A r \in Requests :
    /\ pc[r] \in {"idle", "claim"} => ~Claimed(r)
    /\ pc[r] \in {"charge", "await"} =>
         Claimed(r) /\ r \notin old /\ (r \in stale \/ attempt[r] = "pending")
    /\ pc[r] = "charge" => psp[r] = "none"
    /\ ~Claimed(r) => /\ psp[r] = "none" /\ body[r] = "none"
                      /\ r \notin old /\ r \notin stale /\ r \notin batch
    /\ attempt[r] = "expired" => r \in old

\* The rows the worker holds: it never reconciles an expired attempt, and what it
\* expires is still pending, since no handler is left to settle it.
WorkerInv ==
  /\ phase = "reconcile" => \A r \in batch : attempt[r] # "expired"
  /\ phase = "expire" => batch \subseteq Expired

\* Every step keeps handlers and worker where the rows allow them to be.
LEMMA NextControl ==
  AttemptTypes /\ HandlerInv /\ WorkerInv /\ [Next]_vars => HandlerInv' /\ WorkerInv'
<1> SUFFICES ASSUME AttemptTypes, HandlerInv, WorkerInv, [Next]_vars
             PROVE HandlerInv' /\ WorkerInv'
  OBVIOUS
<1> USE DEF AttemptTypes, HandlerInv, WorkerInv, Claimed, Expired, invoiceVars, attemptVars,
            keyVars, workerVars, pspVars, Outcomes
<1>1. ASSUME NEW r \in Requests, ReplayStored(r) PROVE HandlerInv' /\ WorkerInv'
  BY <1>1 DEF ReplayStored
<1>2. ASSUME NEW r \in Requests, MissStored(r) PROVE HandlerInv' /\ WorkerInv'
  BY <1>2 DEF MissStored
<1>3. ASSUME NEW r \in Requests, ClaimRefused(r) PROVE HandlerInv' /\ WorkerInv'
  BY <1>3 DEF ClaimRefused
<1>4. ASSUME NEW r \in Requests, ClaimAttempt(r) PROVE HandlerInv' /\ WorkerInv'
  BY <1>4 DEF ClaimAttempt
<1>5. ASSUME NEW r \in Requests, SendCharge(r) PROVE HandlerInv' /\ WorkerInv'
  BY <1>5 DEF SendCharge
<1>6. ASSUME NEW r \in Requests, NEW o \in Outcomes, NEW s, Settle(r, o, s)
      PROVE HandlerInv' /\ WorkerInv'
  BY <1>6 DEF Settle, Answer
<1>7. ASSUME NEW r \in Requests, SettleUnknown(r) PROVE HandlerInv' /\ WorkerInv'
  BY <1>7 DEF SettleUnknown, Answer
<1>8. ASSUME NEW r \in Requests, RequestLost(r) PROVE HandlerInv' /\ WorkerInv'
  BY <1>8 DEF RequestLost
<1>9. ASSUME NEW r \in Requests, PspDecide(r) PROVE HandlerInv' /\ WorkerInv'
  BY <1>9 DEF PspDecide
<1>10. ASSUME NEW r \in Requests, NEW o \in Outcomes, NEW s, Reconcile(r, o, s)
       PROVE HandlerInv' /\ WorkerInv'
  BY <1>10 DEF Reconcile, Take, InFlight, InFlightPcs
<1>11. ASSUME NEW r \in Requests, ReconcileNotFound(r) PROVE HandlerInv' /\ WorkerInv'
  BY <1>11 DEF ReconcileNotFound, Take
<1>12. ASSUME NEW r \in Requests, ReconcileNoAnswer(r) PROVE HandlerInv' /\ WorkerInv'
  BY <1>12 DEF ReconcileNoAnswer, Take
<1>13. ASSUME NEW r \in Requests, Expire(r) PROVE HandlerInv' /\ WorkerInv'
  BY <1>13 DEF Expire
<1>14. ASSUME NEW r \in Requests, BackoffElapsed(r) PROVE HandlerInv' /\ WorkerInv'
  BY <1>14 DEF BackoffElapsed
<1>15. ASSUME NEW r \in Requests, Age(r) PROVE HandlerInv' /\ WorkerInv'
  BY <1>15 DEF Age, InFlight, InFlightPcs
<1>16. CASE Tick
  BY <1>16 DEF Tick, Due
<1>17. CASE SelectExpired
  BY <1>17 DEF SelectExpired
<1>18. CASE TickEnd
  BY <1>18 DEF TickEnd
<1>19. CASE Crash
  BY <1>19 DEF Crash, InFlight, InFlightPcs
<1>20. CASE UNCHANGED vars
  BY <1>20 DEF vars
<1>21. ASSUME NEW r \in Requests, Stall(r) PROVE HandlerInv' /\ WorkerInv'
  BY <1>21 DEF Stall
<1>22. CASE PspRestart
  BY <1>22 DEF PspRestart
<1>23. QED
  BY <1>1, <1>2, <1>3, <1>4, <1>5, <1>6, <1>7, <1>8, <1>9, <1>10, <1>11, <1>12,
     <1>13, <1>14, <1>15, <1>16, <1>17, <1>18, <1>19, <1>20, <1>21, <1>22
     DEF Next, Handler, WorkerOn, SettleSucceeded, SettleFailed, ReconcileSucceeded,
         ReconcileFailed

-----------------------------------------------------------------------------
(* The steps that matter to records, and the quiet rest.                   *)

Quiet ==
  /\ UNCHANGED <<invState, invVer, attempt, idem, body, answer, psp, spawned, stale>>
  /\ \A r \in Requests : pc'[r] = "answered" <=> pc[r] = "answered"

\* A step is one of those that write a record, or it is quiet.
LEMMA Steps ==
  ASSUME AttemptTypes, [Next]_vars
  PROVE  /\ req' = req
         /\ \/ \E r \in Requests :
                \/ ReplayStored(r) \/ ClaimAttempt(r) \/ SendCharge(r)
                \/ SettleSucceeded(r) \/ SettleFailed(r) \/ SettleUnknown(r)
                \/ PspDecide(r) \/ Expire(r)
                \/ ReconcileSucceeded(r) \/ ReconcileFailed(r)
            \/ Quiet
<1> USE DEF AttemptTypes, Quiet, invoiceVars, attemptVars, keyVars, workerVars, pspVars
<1>1. ASSUME NEW r \in Requests, MissStored(r) \/ ClaimRefused(r) \/ RequestLost(r)
      PROVE Quiet /\ req' = req
  BY <1>1 DEF MissStored, ClaimRefused, RequestLost, InFlight, InFlightPcs
<1>2. ASSUME NEW r \in Requests,
             ReconcileNotFound(r) \/ ReconcileNoAnswer(r) \/ BackoffElapsed(r) \/ Age(r)
      PROVE Quiet /\ req' = req
  BY <1>2 DEF ReconcileNotFound, ReconcileNoAnswer, BackoffElapsed, Age
<1>3. ASSUME Tick \/ SelectExpired \/ TickEnd \/ PspRestart \/ UNCHANGED vars
             \/ \E r \in Requests : Stall(r)
      PROVE Quiet /\ req' = req
  BY <1>3 DEF Tick, SelectExpired, TickEnd, PspRestart, Stall, vars
<1>4. ASSUME Crash PROVE Quiet /\ req' = req
  BY <1>4 DEF Crash, InFlight, InFlightPcs
<1>5. ASSUME NEW r \in Requests,
             \/ ReplayStored(r) \/ ClaimAttempt(r) \/ SendCharge(r)
             \/ SettleSucceeded(r) \/ SettleFailed(r) \/ SettleUnknown(r)
             \/ PspDecide(r) \/ Expire(r) \/ ReconcileSucceeded(r) \/ ReconcileFailed(r)
      PROVE req' = req
  BY <1>5 DEF ReplayStored, ClaimAttempt, SendCharge, SettleSucceeded, SettleFailed,
              Settle, SettleUnknown, PspDecide, Expire, ReconcileSucceeded,
              ReconcileFailed, Reconcile
<1>6. QED
  BY <1>1, <1>2, <1>3, <1>4, <1>5 DEF Next, Handler, WorkerOn

-----------------------------------------------------------------------------
(* Idempotency keys and versions.                                          *)

\* Only a claim makes a row of payment_attempts or idempotency_keys.
LEMMA OnlyClaimsInsert ==
  ASSUME AttemptTypes, HandlerInv, [Next]_vars
  PROVE  \/ \E r \in Requests : ClaimAttempt(r)
         \/ /\ idem' = idem
            /\ \A r \in Requests : (attempt'[r] = "none") <=> (attempt[r] = "none")
<1> DEFINE Kept == /\ idem' = idem
                   /\ \A r \in Requests : (attempt'[r] = "none") <=> (attempt[r] = "none")
<1> USE DEF AttemptTypes, invoiceVars, attemptVars, keyVars, workerVars, pspVars, Outcomes
<1>1. ASSUME NEW r \in Requests,
             ReplayStored(r) \/ SendCharge(r) \/ SettleUnknown(r) \/ PspDecide(r)
      PROVE Kept
  BY <1>1 DEF ReplayStored, SendCharge, SettleUnknown, PspDecide
<1>2. ASSUME NEW r \in Requests, NEW o \in Outcomes, NEW s, Settle(r, o, s) PROVE Kept
  <2>1. attempt[r] # "none"
    BY <1>2 DEF Settle, HandlerInv, Claimed
  <2>2. QED
    BY <1>2, <2>1 DEF Settle, RequestShape
<1>3. ASSUME NEW r \in Requests, NEW o \in Outcomes, NEW s, Reconcile(r, o, s) PROVE Kept
  <2>1. attempt[r] # "none"
    BY <1>3 DEF Reconcile, Take, HandlerInv, Claimed
  <2>2. QED
    BY <1>3, <2>1 DEF Reconcile
<1>4. ASSUME NEW r \in Requests, Expire(r) PROVE Kept
  <2>1. attempt[r] # "none"
    BY <1>4 DEF Expire, HandlerInv, Claimed
  <2>2. QED
    BY <1>4, <2>1 DEF Expire
<1>5. CASE Quiet
  BY <1>5 DEF Quiet
<1>6. QED
  BY <1>1, <1>2, <1>3, <1>4, <1>5, Steps
     DEF SettleSucceeded, SettleFailed, ReconcileSucceeded, ReconcileFailed

\* A key row belongs to the one attempt claimed under its key on its invoice.
KeyInv ==
  /\ \A r \in Requests : Claimed(r) => Row(r) = r
  /\ \A k \in Keys, i \in Invoices : idem[k][i] # NoRow =>
       /\ Claimed(idem[k][i])
       /\ req[idem[k][i]].key = k
       /\ req[idem[k][i]].invoice = i

\* Two attempts of one key row are one.
LEMMA KeyInvImplies == AttemptTypes /\ KeyInv => OneAttemptPerKey
  BY DEF AttemptTypes, KeyInv, OneAttemptPerKey, Row, RequestShape

\* Key rows are inserted with their attempts and never replaced.
LEMMA NextKeyInv == AttemptTypes /\ HandlerInv /\ KeyInv /\ [Next]_vars => KeyInv'
<1> SUFFICES ASSUME AttemptTypes, HandlerInv, KeyInv, [Next]_vars PROVE KeyInv'
  OBVIOUS
<1>0. req' = req
  BY Steps
<1>1. ASSUME NEW r \in Requests, ClaimAttempt(r) PROVE KeyInv'
  <2>1. idem' = [idem EXCEPT ![req[r].key][req[r].invoice] = r]
    BY <1>1 DEF ClaimAttempt
  <2>2. attempt' = [attempt EXCEPT ![r] = "pending"] /\ Row(r) = NoRow
    BY <1>1 DEF ClaimAttempt, KeyTaken
  <2>3. \A s \in Requests : Claimed(s)' => Row(s)' = s
    BY <1>0, <2>1, <2>2, NoRowAssumption DEF KeyInv, Claimed, Row, AttemptTypes, RequestShape
  <2>4. ASSUME NEW k \in Keys, NEW i \in Invoices, idem'[k][i] # NoRow
        PROVE /\ Claimed(idem[k][i])'
              /\ req[idem'[k][i]].key = k
              /\ req[idem'[k][i]].invoice = i
    BY <2>1, <2>2, <2>4 DEF KeyInv, Claimed, AttemptTypes, RequestShape
  <2>5. QED
    BY <1>0, <2>3, <2>4 DEF KeyInv
<1>2. ASSUME idem' = idem,
             \A r \in Requests : (attempt'[r] = "none") <=> (attempt[r] = "none")
      PROVE KeyInv'
  BY <1>0, <1>2 DEF KeyInv, AttemptTypes, Claimed, Row
<1>3. QED
  BY <1>1, <1>2, OnlyClaimsInsert

\* The version a claim used up is below the invoice's version from then on.
VersionInv ==
  /\ OneClaimPerVersion
  /\ \A r \in Requests : Claimed(r) => req[r].versioning < invVer[req[r].invoice]

\* No step counts a version down.
LEMMA VersionsGrow ==
  ASSUME AttemptTypes, invVer \in [Invoices -> Nat], [Next]_vars
  PROVE  \A i \in Invoices : invVer'[i] >= invVer[i]
<1>1. ASSUME NEW r \in Requests, ClaimAttempt(r) PROVE \A i \in Invoices : invVer'[i] >= invVer[i]
  BY <1>1 DEF ClaimAttempt
<1>2. ASSUME NEW r \in Requests, SettleSucceeded(r) \/ SettleFailed(r)
      PROVE  \A i \in Invoices : invVer'[i] >= invVer[i]
  BY <1>2 DEF SettleSucceeded, SettleFailed, Settle
<1>3. ASSUME NEW r \in Requests,
             \/ ReplayStored(r) \/ SendCharge(r) \/ SettleUnknown(r) \/ PspDecide(r)
             \/ Expire(r) \/ ReconcileSucceeded(r) \/ ReconcileFailed(r)
      PROVE  invVer' = invVer
  BY <1>3 DEF ReplayStored, SendCharge, SettleUnknown, PspDecide, Expire, ReconcileSucceeded,
              ReconcileFailed, Reconcile, invoiceVars
<1>4. CASE Quiet
  BY <1>4 DEF Quiet
<1>5. QED
  BY <1>1, <1>2, <1>3, <1>4, Steps

\* A claim uses its version up.
LEMMA NextVersionInv ==
  ASSUME AttemptTypes, HandlerInv, invVer \in [Invoices -> Nat], VersionInv, [Next]_vars
  PROVE  VersionInv'
<1>a. \A r \in Requests : req[r].invoice \in Invoices /\ req[r].versioning \in Nat
  BY VersionsAssumption DEF AttemptTypes, RequestShape
<1>b. \A i \in Invoices : invVer[i] \in Nat /\ invVer'[i] \in Nat /\ invVer'[i] >= invVer[i]
  BY NextVersions, VersionsGrow
<1>0. req' = req
  BY Steps
<1>1. ASSUME NEW r \in Requests, ClaimAttempt(r) PROVE VersionInv'
  <2>1. \A s \in Requests : Claimed(s)' <=> Claimed(s) \/ s = r
    BY <1>1 DEF ClaimAttempt, Claimed, AttemptTypes
  <2>2. \A i \in Invoices : invVer'[i] = IF i = req[r].invoice THEN invVer[i] + 1 ELSE invVer[i]
    BY <1>1 DEF ClaimAttempt
  <2>3. invVer[req[r].invoice] = req[r].versioning
    BY <1>1 DEF ClaimAttempt, Claimable
  <2>4. ASSUME NEW s \in Requests, Claimed(s)'
        PROVE  req[s].versioning < invVer'[req[s].invoice]
    BY <1>a, <1>b, <2>1, <2>2, <2>3, <2>4 DEF VersionInv
  <2>5. ASSUME NEW s \in Requests, NEW t \in Requests, Claimed(s)', Claimed(t)', s # t,
               req[s].invoice = req[t].invoice
        PROVE  req[s].versioning # req[t].versioning
    BY <1>a, <1>b, <2>1, <2>3, <2>5 DEF VersionInv, OneClaimPerVersion
  <2>6. QED
    BY <1>0, <2>4, <2>5 DEF VersionInv, OneClaimPerVersion
<1>2. ASSUME \A r \in Requests : (attempt'[r] = "none") <=> (attempt[r] = "none")
      PROVE VersionInv'
  <2>1. \A s \in Requests : Claimed(s)' <=> Claimed(s)
    BY <1>2 DEF Claimed
  <2>2. ASSUME NEW s \in Requests, Claimed(s)'
        PROVE  req[s].versioning < invVer'[req[s].invoice]
    BY <1>a, <1>b, <1>2, <2>1, <2>2 DEF VersionInv
  <2>3. QED
    BY <1>0, <2>1, <2>2 DEF VersionInv, OneClaimPerVersion
<1>3. QED
  BY <1>1, <1>2, OnlyClaimsInsert

-----------------------------------------------------------------------------
(* Outcomes.                                                               *)

\* The provider decides an attempt once, and what is settled stays settled: the
\* only second writer of an attempt writes the same verdict again.
LEMMA OutcomesAreFinal ==
  ASSUME AttemptTypes, HandlerInv, WorkerInv, RecordsTellTheVerdict, [Next]_vars
  PROVE  /\ \A r \in Requests : psp[r] \in Outcomes => psp'[r] = psp[r]
         /\ \A r \in Requests : attempt[r] \in Settled => attempt'[r] = attempt[r]
<1> DEFINE Final == /\ \A r \in Requests : psp[r] \in Outcomes => psp'[r] = psp[r]
                    /\ \A r \in Requests : attempt[r] \in Settled => attempt'[r] = attempt[r]
<1> USE DEF AttemptTypes, HandlerInv, Outcomes, Settled, invoiceVars, attemptVars, keyVars,
            workerVars, pspVars, Claimed
<1>1. ASSUME NEW r \in Requests,
             ReplayStored(r) \/ SendCharge(r) \/ SettleUnknown(r) \/ PspDecide(r)
      PROVE Final
  BY <1>1 DEF ReplayStored, SendCharge, SettleUnknown, PspDecide
<1>2. ASSUME NEW r \in Requests, ClaimAttempt(r) PROVE Final
  BY <1>2 DEF ClaimAttempt
<1>3. ASSUME NEW r \in Requests, NEW o \in Outcomes, NEW s, Settle(r, o, s) PROVE Final
  BY <1>3 DEF Settle, RecordsTellTheVerdict
<1>4. ASSUME NEW r \in Requests, NEW o \in Outcomes, NEW s, Reconcile(r, o, s) PROVE Final
  BY <1>4 DEF Reconcile, Take, RecordsTellTheVerdict, WorkerInv
<1>5. ASSUME NEW r \in Requests, Expire(r) PROVE Final
  BY <1>5 DEF Expire, WorkerInv, Expired
<1>6. CASE Quiet
  BY <1>6 DEF Quiet
<1>7. QED
  BY <1>1, <1>2, <1>3, <1>4, <1>5, <1>6, Steps
     DEF SettleSucceeded, SettleFailed, ReconcileSucceeded, ReconcileFailed

\* Who has been answered has been told about an attempt that exists.
AnswerInv ==
  \A r \in Requests :
    /\ pc[r] = "answered" => answer[r].attempt = Row(r) /\ Row(r) # NoRow
    /\ pc[r] # "answered" => answer[r].status = "none"

\* Answers that name the key row's attempt agree.
LEMMA AnswersImplies == AttemptTypes /\ KeyInv /\ AnswerInv => AnswersAgree
  BY DEF AttemptTypes, RequestShape, KeyInv, AnswerInv, AnswersAgree, Row

\* Whoever answers, answers with the key row's attempt.
LEMMA NextAnswerInv ==
  AttemptTypes /\ HandlerInv /\ KeyInv /\ AnswerInv /\ [Next]_vars => AnswerInv'
<1> SUFFICES ASSUME AttemptTypes, HandlerInv, KeyInv, AnswerInv, [Next]_vars PROVE AnswerInv'
  OBVIOUS
<1>0. req' = req
  BY Steps
<1> USE DEF AttemptTypes, AnswerInv, Row, RequestShape, invoiceVars, attemptVars, keyVars,
            workerVars, pspVars
<1>1. ASSUME NEW r \in Requests, ReplayStored(r) PROVE AnswerInv'
  BY <1>0, <1>1 DEF ReplayStored, Fresh
<1>2. ASSUME NEW r \in Requests, ClaimAttempt(r) PROVE AnswerInv'
  BY <1>0, <1>2, NoRowAssumption DEF ClaimAttempt, KeyTaken
<1>3. ASSUME NEW r \in Requests, NEW o, pc[r] = "await", Answer(r, o), idem' = idem
      PROVE AnswerInv'
  <2>1. Row(r) = r
    BY <1>3 DEF HandlerInv, KeyInv
  <2>2. QED
    BY <1>0, <1>3, <2>1, NoRowAssumption DEF Answer
<1>4. ASSUME NEW r \in Requests,
             \/ SendCharge(r) \/ PspDecide(r) \/ Expire(r)
             \/ ReconcileSucceeded(r) \/ ReconcileFailed(r)
      PROVE AnswerInv'
  BY <1>0, <1>4 DEF SendCharge, PspDecide, Expire, ReconcileSucceeded, ReconcileFailed,
                    Reconcile
<1>5. CASE Quiet
  BY <1>0, <1>5 DEF Quiet
<1>6. QED
  BY <1>1, <1>2, <1>3, <1>4, <1>5, Steps
     DEF SettleSucceeded, SettleFailed, SettleUnknown, Settle

\* Every record written repeats the provider's verdict.
LEMMA NextVerdicts ==
  ASSUME AttemptTypes, HandlerInv, WorkerInv, AnswerInv, RecordsTellTheVerdict, [Next]_vars
  PROVE  RecordsTellTheVerdict'
<1>0. req' = req
  BY Steps
<1>a. /\ \A r \in Requests : psp[r] \in Outcomes => psp'[r] = psp[r]
      /\ \A r \in Requests : attempt[r] \in Settled => attempt'[r] = attempt[r]
  BY OutcomesAreFinal
<1>b. \A t \in spawned : t.attempt \in Requests /\ t.event \in Outcomes
  BY DEF AttemptTypes, Tasks
<1>c. \A t \in spawned : psp'[t.attempt] = t.event /\ attempt'[t.attempt] = t.event
  BY <1>a, <1>b DEF RecordsTellTheVerdict, Settled
<1>d. ASSUME NEW r \in Requests, answer[r].status \in Outcomes
      PROVE  answer[r].attempt \in Requests /\ psp'[answer[r].attempt] = answer[r].status
  <2>1. answer[r].attempt \in Requests
    BY <1>d DEF AnswerInv, AttemptTypes, Row, RequestShape, Outcomes
  <2>2. QED
    BY <1>a, <1>d, <2>1 DEF RecordsTellTheVerdict
<1>1. ASSUME NEW r \in Requests, ReplayStored(r) PROVE RecordsTellTheVerdict'
  <2>1. Row(r) \in Requests
    BY <1>1 DEF ReplayStored, Fresh, Row, AttemptTypes, RequestShape
  <2>2. /\ answer' = [answer EXCEPT ![r] = [attempt |-> Row(r), status |-> body[Row(r)]]]
        /\ attempt' = attempt /\ body' = body /\ psp' = psp /\ spawned' = spawned
    BY <1>1 DEF ReplayStored, attemptVars, keyVars, pspVars
  <2>3. QED
    BY <2>1, <2>2 DEF RecordsTellTheVerdict, AttemptTypes
<1>2. ASSUME NEW r \in Requests, ClaimAttempt(r) PROVE RecordsTellTheVerdict'
  <2>1. /\ attempt' = [attempt EXCEPT ![r] = "pending"]
        /\ body' = [body EXCEPT ![r] = "pending"]
        /\ answer' = answer /\ psp' = psp /\ spawned' = spawned
    BY <1>2 DEF ClaimAttempt, pspVars
  <2>2. QED
    BY <2>1, <1>c, <1>d DEF RecordsTellTheVerdict, AttemptTypes, Outcomes
<1>3. ASSUME NEW r \in Requests, SendCharge(r) \/ PspDecide(r) PROVE RecordsTellTheVerdict'
  <2>1. attempt' = attempt /\ body' = body /\ answer' = answer /\ spawned' = spawned
    BY <1>3 DEF SendCharge, PspDecide, attemptVars, keyVars
  <2>2. QED
    BY <2>1, <1>a, <1>c, <1>d DEF RecordsTellTheVerdict
<1>4. ASSUME NEW r \in Requests, NEW o \in Outcomes, NEW s, Settle(r, o, s)
      PROVE RecordsTellTheVerdict'
  <2>1. /\ attempt' = [attempt EXCEPT ![r] = o]
        /\ body' = [body EXCEPT ![r] = o]
        /\ answer' = [answer EXCEPT ![r] = [attempt |-> r, status |-> o]]
        /\ psp' = psp /\ psp[r] = o
        /\ spawned' = spawned \cup {[attempt |-> r, event |-> o, by |-> "handler"]}
    BY <1>4 DEF Settle, Answer, pspVars
  <2>2. QED
    BY <2>1, <1>c, <1>d DEF RecordsTellTheVerdict, AttemptTypes
<1>5. ASSUME NEW r \in Requests, SettleUnknown(r) PROVE RecordsTellTheVerdict'
  <2>1. /\ body' = [body EXCEPT ![r] = "pending"]
        /\ answer' = [answer EXCEPT ![r] = [attempt |-> r, status |-> "pending"]]
        /\ attempt' = attempt /\ psp' = psp /\ spawned' = spawned
    BY <1>5 DEF SettleUnknown, Answer, attemptVars, pspVars
  <2>2. QED
    BY <2>1 DEF RecordsTellTheVerdict, AttemptTypes, Outcomes
<1>6. ASSUME NEW r \in Requests, NEW o \in Outcomes, NEW s, Reconcile(r, o, s)
      PROVE RecordsTellTheVerdict'
  <2>1. /\ attempt' = [attempt EXCEPT ![r] = o]
        /\ body' = body /\ answer' = answer /\ psp' = psp /\ psp[r] = o
        /\ spawned' \in {spawned,
             spawned \cup {[attempt |-> r, event |-> o, by |-> "worker"]}}
    BY <1>6 DEF Reconcile, keyVars, pspVars
  <2>2. QED
    BY <2>1, <1>c, <1>d DEF RecordsTellTheVerdict, AttemptTypes
<1>7. ASSUME NEW r \in Requests, Expire(r) PROVE RecordsTellTheVerdict'
  <2>1. /\ attempt' = [attempt EXCEPT ![r] = "expired"]
        /\ body' = body /\ answer' = answer /\ psp' = psp /\ spawned' = spawned
    BY <1>7 DEF Expire, keyVars, pspVars
  <2>2. QED
    BY <2>1, <1>c, <1>d DEF RecordsTellTheVerdict, AttemptTypes, Outcomes
<1>8. CASE Quiet
  BY <1>8 DEF Quiet, RecordsTellTheVerdict
<1>9. QED
  BY <1>1, <1>2, <1>3, <1>4, <1>5, <1>6, <1>7, <1>8, Steps
     DEF SettleSucceeded, SettleFailed, ReconcileSucceeded, ReconcileFailed, Outcomes

-----------------------------------------------------------------------------
(* Invoices.                                                               *)

\* The invoice's side: someone pending holds a "processing" invoice, a recorded
\* charge backs a "paid" one.
InvoiceInv == ProcessingHasPending /\ PaidIsCharged

\* A step that leaves a pending attempt, or enters paid, has what backs it.
LEMMA NextInvoiceInv ==
  ASSUME AttemptTypes, HandlerInv, WorkerInv, RecordsTellTheVerdict,
         NEW S, invState \in [Invoices -> S], InvoiceInv, [Next]_vars
  PROVE  InvoiceInv'
<1>0. req' = req
  BY Steps
<1>a. \A r \in Requests : req[r].invoice \in Invoices
  BY DEF AttemptTypes, RequestShape
<1>b. \A r \in Requests : attempt[r] = "succeeded" /\ psp[r] = "succeeded"
                         => attempt'[r] = "succeeded" /\ psp'[r] = "succeeded"
  BY OutcomesAreFinal DEF Outcomes, Settled
<1>c. ASSUME NEW i \in Invoices, invState[i] = "paid"
      PROVE  \E r \in On(i)' : attempt'[r] = "succeeded" /\ psp'[r] = "succeeded"
  BY <1>0, <1>b, <1>c DEF InvoiceInv, PaidIsCharged, On, Claimed, Charged
<1> USE DEF InvoiceInv, ProcessingHasPending, PaidIsCharged, On, Claimed, Charged
<1>1. ASSUME NEW r \in Requests, ClaimAttempt(r) PROVE InvoiceInv'
  <2>1. /\ attempt' = [attempt EXCEPT ![r] = "pending"]
        /\ invState' = [invState EXCEPT ![req[r].invoice] = "processing"]
    BY <1>1 DEF ClaimAttempt
  <2>2. QED
    BY <1>0, <1>a, <1>c, <2>1 DEF AttemptTypes
<1>2. ASSUME NEW r \in Requests,
             attempt' = attempt /\ invState' = invState
      PROVE InvoiceInv'
  BY <1>0, <1>c, <1>2
<1>3. ASSUME NEW r \in Requests, NEW o, NEW s,
             attempt' = [attempt EXCEPT ![r] = o],
             \A i \in Invoices \ {req[r].invoice} : invState'[i] = invState[i],
             invState'[req[r].invoice] # "processing",
             invState'[req[r].invoice] = "paid" =>
               \/ invState[req[r].invoice] = "paid"
               \/ o = "succeeded" /\ psp'[r] = "succeeded"
      PROVE InvoiceInv'
  <2>1. ASSUME NEW i \in Invoices, invState'[i] = "processing"
        PROVE  \E q \in On(i)' : attempt'[q] = "pending"
    <3>1. i # req[r].invoice /\ invState[i] = "processing"
      BY <1>3, <2>1
    <3>2. PICK q \in On(i) : attempt[q] = "pending"
      BY <3>1
    <3>3. q # r /\ attempt'[q] = "pending" /\ q \in Requests
      BY <1>3, <3>1, <3>2 DEF AttemptTypes
    <3>4. QED
      BY <1>0, <3>2, <3>3
  <2>2. ASSUME NEW i \in Invoices, invState'[i] = "paid"
        PROVE  \E q \in On(i)' : attempt'[q] = "succeeded" /\ psp'[q] = "succeeded"
    <3>1. CASE invState[i] = "paid"
      BY <1>c, <3>1
    <3>2. CASE invState[i] # "paid"
      <4>1. i = req[r].invoice /\ o = "succeeded" /\ psp'[r] = "succeeded"
        BY <1>3, <2>2, <3>2
      <4>2. attempt'[r] = "succeeded"
        BY <1>3, <4>1 DEF AttemptTypes
      <4>3. QED
        BY <1>0, <4>1, <4>2
    <3>3. QED
      BY <3>1, <3>2
  <2>3. QED
    BY <2>1, <2>2
<1>4. ASSUME NEW r \in Requests,
             \/ ReplayStored(r) \/ SendCharge(r) \/ SettleUnknown(r) \/ PspDecide(r)
      PROVE InvoiceInv'
  BY <1>2, <1>4 DEF ReplayStored, SendCharge, SettleUnknown, PspDecide, invoiceVars,
                    attemptVars, pspVars
<1>5. ASSUME NEW r \in Requests, SettleSucceeded(r) \/ SettleFailed(r) PROVE InvoiceInv'
  BY <1>3, <1>5, <1>a DEF SettleSucceeded, SettleFailed, Settle, AttemptTypes, pspVars
<1>6. ASSUME NEW r \in Requests, ReconcileSucceeded(r) \/ ReconcileFailed(r)
      PROVE InvoiceInv'
  BY <1>3, <1>6, <1>a DEF ReconcileSucceeded, ReconcileFailed, Reconcile,
                          ReleaseProcessing, AttemptTypes, pspVars
<1>7. ASSUME NEW r \in Requests, Expire(r) PROVE InvoiceInv'
  BY <1>3, <1>7, <1>a DEF Expire, AttemptTypes, pspVars
<1>8. CASE Quiet
  BY <1>0, <1>c, <1>8 DEF Quiet
<1>9. QED
  BY <1>1, <1>4, <1>5, <1>6, <1>7, <1>8, Steps

\* The second event for an attempt needs a stale settlement.
LEMMA NextAnnouncedOnce ==
  ASSUME AttemptTypes, HandlerInv, RecordsTellTheVerdict, AnnouncedOnce, [Next]_vars
  PROVE  AnnouncedOnce'
<1>1. ASSUME NEW r \in Requests, NEW t \in Tasks, t.attempt = r,
             attempt[r] = "pending" \/ r \in stale',
             spawned' \in {spawned, spawned \cup {t}}, stale \subseteq stale'
      PROVE AnnouncedOnce'
  <2>1. \A u \in spawned : attempt[u.attempt] # "pending"
    BY DEF RecordsTellTheVerdict, AttemptTypes, Tasks, Outcomes
  <2>2. QED
    BY <1>1, <2>1 DEF AnnouncedOnce
<1>2. ASSUME NEW r \in Requests, NEW o \in Outcomes, NEW s, Settle(r, o, s)
      PROVE AnnouncedOnce'
  <2>1. attempt[r] = "pending" \/ r \in stale'
    BY <1>2 DEF Settle, HandlerInv
  <2>2. [attempt |-> r, event |-> o, by |-> "handler"] \in Tasks
    BY DEF Tasks
  <2>3. QED
    BY <1>1, <1>2, <2>1, <2>2 DEF Settle
<1>3. ASSUME NEW r \in Requests, NEW o \in Outcomes, NEW s, Reconcile(r, o, s)
      PROVE AnnouncedOnce'
  <2>1. attempt[r] = "pending" \/ r \in stale'
    BY <1>3 DEF Reconcile
  <2>2. [attempt |-> r, event |-> o, by |-> "worker"] \in Tasks
    BY DEF Tasks
  <2>3. QED
    BY <1>1, <1>3, <2>1, <2>2 DEF Reconcile
<1>4. ASSUME NEW r \in Requests,
             \/ ReplayStored(r) \/ ClaimAttempt(r) \/ SendCharge(r) \/ SettleUnknown(r)
             \/ PspDecide(r) \/ Expire(r)
      PROVE AnnouncedOnce'
  BY <1>4 DEF AnnouncedOnce, ReplayStored, ClaimAttempt, SendCharge, SettleUnknown,
              PspDecide, Expire
<1>5. CASE Quiet
  BY <1>5 DEF Quiet, AnnouncedOnce
<1>6. QED
  BY <1>2, <1>3, <1>4, <1>5, Steps
     DEF SettleSucceeded, SettleFailed, ReconcileSucceeded, ReconcileFailed, Outcomes

-----------------------------------------------------------------------------
(* What an invoice is worth while nobody has raced on it.                  *)

Live(r) == attempt[r] \in {"pending", "succeeded"}

\* On a clean invoice one attempt at most is live, and the invoice's state shows
\* which kind it is: this is what makes the unconditional second writes harmless.
CleanInv ==
  \A i \in Invoices : Clean(i) =>
    /\ \A r, s \in On(i) : Live(r) /\ Live(s) => r = s
    /\ \A r \in On(i) : attempt[r] = "pending" => invState[i] = "processing"
    /\ \A r \in On(i) : attempt[r] = "succeeded" => invState[i] = "paid"

\* One live attempt at most means one charge at most.
LEMMA CleanInvImplies ==
  AttemptTypes /\ RecordsTellTheVerdict /\ InvoiceInv /\ CleanInv => CleanInvoiceIsExact
<1> SUFFICES ASSUME AttemptTypes, RecordsTellTheVerdict, InvoiceInv, CleanInv,
                    NEW i \in Invoices, Clean(i)
             PROVE  /\ \A r, s \in On(i) : Charged(r) /\ Charged(s) => r = s
                    /\ invState[i] = "paid" <=> \E r \in On(i) : attempt[r] = "succeeded"
  BY DEF CleanInvoiceIsExact
<1>1. \A r \in On(i) : Charged(r) => Live(r)
  BY DEF Live, Clean, On, Claimed, Charged, RecordsTellTheVerdict, AttemptTypes, AttemptStates,
         Settled, Outcomes
<1>2. invState[i] = "paid" => \E r \in On(i) : attempt[r] = "succeeded"
  BY DEF InvoiceInv, PaidIsCharged
<1>3. QED
  BY <1>1, <1>2 DEF CleanInv

\* Without stale settlements and expiry, one attempt at a time is live.
LEMMA NextCleanInv ==
  ASSUME AttemptTypes, HandlerInv, WorkerInv, RecordsTellTheVerdict,
         NEW S, invState \in [Invoices -> S], CleanInv, [Next]_vars
  PROVE  CleanInv'
<1>0. req' = req
  BY Steps
<1>a. \A r \in Requests : req[r].invoice \in Invoices
  BY DEF AttemptTypes, RequestShape
<1>b. \A r \in Requests : attempt[r] = "expired" => attempt'[r] = "expired"
  BY OutcomesAreFinal DEF Settled
<1>1. ASSUME NEW r \in Requests, ClaimAttempt(r) PROVE CleanInv'
  <2>1. /\ attempt' = [attempt EXCEPT ![r] = "pending"]
        /\ invState' = [invState EXCEPT ![req[r].invoice] = "processing"]
        /\ invState[req[r].invoice] = "open"
        /\ stale' = stale
    BY <1>1 DEF ClaimAttempt, Claimable
  <2>2. ~Claimed(r)
    BY <1>1 DEF ClaimAttempt, HandlerInv
  <2>3. ASSUME NEW i \in Invoices, Clean(i)'
        PROVE  /\ Clean(i)
               /\ \A s \in On(i)' : s = r \/ (s \in On(i) /\ attempt'[s] = attempt[s])
               /\ r \in On(i)' <=> i = req[r].invoice
    BY <1>0, <2>1, <2>2, <2>3 DEF Clean, On, Claimed, AttemptTypes
  <2>4. ASSUME NEW i \in Invoices, Clean(i)', i # req[r].invoice
        PROVE  On(i)' = On(i) /\ invState'[i] = invState[i]
    BY <1>0, <2>1, <2>2, <2>4 DEF On, Claimed, AttemptTypes
  <2>5. ASSUME NEW i \in Invoices, Clean(i)', i = req[r].invoice
        PROVE  (\A s \in On(i)' : Live(s)' => s = r) /\ invState'[i] = "processing"
    BY <2>1, <2>3, <2>5 DEF CleanInv, Live, AttemptTypes
  <2>6. attempt'[r] = "pending"
    BY <2>1 DEF AttemptTypes
  <2>7. QED
    BY <2>3, <2>4, <2>5, <2>6 DEF CleanInv, Live
<1>2. ASSUME NEW r \in Requests, NEW o \in Outcomes,
             Claimed(r),
             attempt' = [attempt EXCEPT ![r] = o],
             \A i \in Invoices \ {req[r].invoice} : invState'[i] = invState[i],
             Clean(req[r].invoice)' =>
               /\ attempt[r] = "pending"
               /\ invState[req[r].invoice] = "processing" =>
                    invState'[req[r].invoice] = IF o = "succeeded" THEN "paid" ELSE "open",
             stale \subseteq stale'
      PROVE CleanInv'
  <2>1. \A i \in Invoices : On(i)' = On(i)
    BY <1>0, <1>2 DEF On, Claimed, AttemptTypes, Outcomes
  <2>2. \A i \in Invoices : Clean(i)' => Clean(i)
    BY <1>b, <1>2, <2>1 DEF Clean, On
  <2>3. \A s \in Requests : attempt'[s] = IF s = r THEN o ELSE attempt[s]
    BY <1>2 DEF AttemptTypes
  <2>4. ASSUME NEW i \in Invoices, Clean(i)', i = req[r].invoice
        PROVE  /\ \A s \in On(i)' : Live(s)' => s = r
               /\ invState'[i] = IF o = "succeeded" THEN "paid" ELSE "open"
    <3>1. Clean(req[r].invoice)'
      BY <1>0, <2>4 DEF Clean, On
    <3>2. attempt[r] = "pending"
      BY <1>2, <3>1
    <3>3. r \in On(i) /\ Live(r)
      BY <1>2, <2>4, <3>2 DEF On, Live
    <3>4. invState[i] = "processing" /\ \A s \in On(i) : Live(s) => s = r
      BY <2>2, <2>4, <3>2, <3>3 DEF CleanInv
    <3>5. QED
      BY <1>2, <2>1, <2>3, <2>4, <3>1, <3>4 DEF Live, On
  <2>5. ASSUME NEW i \in Invoices, Clean(i)', i # req[r].invoice
        PROVE  \A s \in On(i) : attempt'[s] = attempt[s]
    BY <2>3, <2>5 DEF On
  <2>6. QED
    BY <1>2, <2>1, <2>2, <2>3, <2>4, <2>5 DEF CleanInv, Live, Outcomes
<1>3. ASSUME NEW r \in Requests, NEW o \in Outcomes,
             Settle(r, o, IF o = "succeeded" THEN "paid" ELSE "open")
      PROVE CleanInv'
  <2>1. Claimed(r) /\ (r \in stale \/ attempt[r] = "pending")
    BY <1>3 DEF Settle, HandlerInv
  <2>2. r \in On(req[r].invoice)' /\ stale' = stale
    BY <1>0, <1>3 DEF Settle, On, Claimed, AttemptTypes, Outcomes
  <2>3. QED
    BY <1>2, <1>3, <1>a, <2>1, <2>2 DEF Settle, Clean, AttemptTypes
<1>4. ASSUME NEW r \in Requests, NEW o \in Outcomes,
             Reconcile(r, o, IF o = "succeeded" THEN "paid" ELSE "open")
      PROVE CleanInv'
  <2>1. Claimed(r) /\ (r \in stale' \/ attempt[r] = "pending")
    BY <1>4 DEF Reconcile, Take, HandlerInv
  <2>2. r \in On(req[r].invoice)' /\ stale \subseteq stale'
    BY <1>0, <1>4 DEF Reconcile, On, Claimed, AttemptTypes, Outcomes
  <2>3. QED
    BY <1>2, <1>4, <1>a, <2>1, <2>2 DEF Reconcile, ReleaseProcessing, Clean, AttemptTypes
<1>5. ASSUME NEW r \in Requests, Expire(r) PROVE CleanInv'
  <2>1. /\ attempt' = [attempt EXCEPT ![r] = "expired"]
        /\ invState' = [invState EXCEPT ![req[r].invoice] = "open"]
        /\ stale' = stale
    BY <1>5 DEF Expire
  <2>2. Claimed(r)
    BY <1>5 DEF Expire, HandlerInv
  <2>3. \A i \in Invoices : On(i)' = On(i)
    BY <1>0, <2>1, <2>2 DEF On, Claimed, AttemptTypes
  <2>4. \A i \in Invoices : Clean(i)' => i # req[r].invoice
    BY <1>0, <2>1, <2>2, <2>3 DEF Clean, On, AttemptTypes
  <2>5. ASSUME NEW i \in Invoices, Clean(i)'
        PROVE  /\ invState'[i] = invState[i]
               /\ \A s \in On(i) : attempt'[s] = attempt[s]
               /\ Clean(i)
    BY <2>1, <2>3, <2>4, <2>5 DEF Clean, On, AttemptTypes
  <2>6. QED
    BY <2>3, <2>5 DEF CleanInv, Live
<1>6. ASSUME attempt' = attempt, invState' = invState, stale' = stale PROVE CleanInv'
  BY <1>0, <1>6 DEF CleanInv, Clean, On, Claimed, Live
<1>7. ASSUME NEW r \in Requests,
             \/ ReplayStored(r) \/ SendCharge(r) \/ SettleUnknown(r) \/ PspDecide(r)
      PROVE CleanInv'
  BY <1>6, <1>7 DEF ReplayStored, SendCharge, SettleUnknown, PspDecide, invoiceVars,
                    attemptVars
<1>8. CASE Quiet
  BY <1>6, <1>8 DEF Quiet
<1>9. QED
  BY <1>1, <1>3, <1>4, <1>5, <1>7, <1>8, Steps
     DEF SettleSucceeded, SettleFailed, ReconcileSucceeded, ReconcileFailed, Outcomes

-----------------------------------------------------------------------------
(* The theorems.                                                           *)

\* What attempts, keys, answers and events satisfy, whatever becomes of the rows of
\* invoices beside them ...
AttemptInv ==
  /\ AttemptTypes
  /\ HandlerInv
  /\ WorkerInv
  /\ KeyInv
  /\ AnswerInv
  /\ RecordsTellTheVerdict
  /\ AnnouncedOnce

\* ... and what the rows satisfy.
RowInv == VersionInv /\ InvoiceInv /\ CleanInv

IInv == TypeOK /\ AttemptInv /\ RowInv

\* The attempts' part holds before anybody pays.
LEMMA InitAttemptInv == NothingPaid => AttemptInv
<1> SUFFICES ASSUME NothingPaid PROVE AttemptInv
  OBVIOUS
<1>1. AttemptTypes
  BY DEF NothingPaid, AttemptTypes, AttemptStates, Settled, Outcomes, PspStates, Answers,
         NoAnswer, InFlightPcs, Tasks
<1>2. HandlerInv /\ WorkerInv /\ AnswerInv
  BY DEF NothingPaid, HandlerInv, WorkerInv, AnswerInv, Claimed, NoAnswer
<1>3. KeyInv
  BY DEF NothingPaid, KeyInv, Claimed
<1>4. RecordsTellTheVerdict /\ AnnouncedOnce
  BY DEF NothingPaid, RecordsTellTheVerdict, AnnouncedOnce, Outcomes, NoAnswer
<1>5. QED
  BY <1>1, <1>2, <1>3, <1>4 DEF AttemptInv

\* Without a claim there is nothing to ask of the rows, but that they are neither in
\* processing nor paid.
LEMMA InitRowInv ==
  ASSUME \A r \in Requests : ~Claimed(r),
         \A i \in Invoices : invState[i] \notin {"processing", "paid"}
  PROVE  RowInv
  BY DEF RowInv, VersionInv, OneClaimPerVersion, InvoiceInv, ProcessingHasPending,
         PaidIsCharged, CleanInv, On

\* The inductive invariant holds before anybody pays.
LEMMA InitIInv == Init => IInv
  BY InitTypeOK, InitAttemptInv, InitRowInv DEF Init, NothingPaid, IInv, Claimed

\* Every step keeps the attempts' part.
LEMMA NextAttemptInv == AttemptInv /\ [Next]_vars => AttemptInv'
  BY NextAttemptTypes, NextControl, NextKeyInv, NextAnswerInv, NextVerdicts,
     NextAnnouncedOnce DEF AttemptInv

\* Every step keeps the inductive invariant.
LEMMA NextIInv == IInv /\ [Next]_vars => IInv'
<1> SUFFICES ASSUME IInv, [Next]_vars PROVE IInv'
  OBVIOUS
<1>1. TypeOK' /\ AttemptInv'
  BY NextTypeOK, NextAttemptInv DEF IInv
<1>2. invState \in [Invoices -> InvoiceStates] /\ invVer \in [Invoices -> Nat]
  BY DEF IInv, TypeOK
<1>3. VersionInv'
  BY <1>2, NextVersionInv DEF IInv, AttemptInv, RowInv
<1>4. InvoiceInv'
  BY <1>2, NextInvoiceInv DEF IInv, AttemptInv, RowInv
<1>5. CleanInv'
  BY <1>2, NextCleanInv DEF IInv, AttemptInv, RowInv
<1>6. QED
  BY <1>1, <1>3, <1>4, <1>5 DEF IInv, RowInv

\* The inductive invariant: what the handler, the worker, keys, versions, answers,
\* records, events and clean invoices satisfy together in every reachable state.
THEOREM Invariance == Spec => []IInv
  BY InitIInv, NextIInv, PTL DEF Spec

\* One attempt per idempotency key and invoice, whatever the keys' age.
THEOREM KeysAreIdempotent == Spec => []OneAttemptPerKey
<1>1. IInv => OneAttemptPerKey
  BY KeyInvImplies DEF IInv, AttemptInv, RowInv
<1>2. QED
  BY <1>1, Invariance, PTL

\* No version of an invoice is claimed twice.
THEOREM VersionsAreClaimedOnce == Spec => []OneClaimPerVersion
<1>1. IInv => OneClaimPerVersion
  BY DEF IInv, RowInv, VersionInv
<1>2. QED
  BY <1>1, Invariance, PTL

\* An invoice in processing is never orphaned.
THEOREM NoOrphans == Spec => []ProcessingHasPending
<1>1. IInv => ProcessingHasPending
  BY DEF IInv, RowInv, InvoiceInv
<1>2. QED
  BY <1>1, Invariance, PTL

\* A paid invoice has been paid.
THEOREM PaidMeansCharged == Spec => []PaidIsCharged
<1>1. IInv => PaidIsCharged
  BY DEF IInv, RowInv, InvoiceInv
<1>2. QED
  BY <1>1, Invariance, PTL

\* Rows, stored responses, answers and events repeat the provider's verdict.
THEOREM RecordsAreTrue == Spec => []RecordsTellTheVerdict
<1>1. IInv => RecordsTellTheVerdict
  BY DEF IInv, AttemptInv, RowInv
<1>2. QED
  BY <1>1, Invariance, PTL

\* All answers under a key name its attempt.
THEOREM AnswersNameOneAttempt == Spec => []AnswersAgree
<1>1. IInv => AnswersAgree
  BY AnswersImplies DEF IInv, AttemptInv, RowInv
<1>2. QED
  BY <1>1, Invariance, PTL

\* Two events for an attempt only when worker and handler both settled it.
THEOREM EventsAreAnnouncedOnce == Spec => []AnnouncedOnce
<1>1. IInv => AnnouncedOnce
  BY DEF IInv, AttemptInv, RowInv
<1>2. QED
  BY <1>1, Invariance, PTL

\* Without the race with the worker and without expiry, an invoice is charged at
\* most once and is paid exactly when a charge is recorded.
THEOREM CleanInvoicesAreExact == Spec => []CleanInvoiceIsExact
<1>1. IInv => CleanInvoiceIsExact
  BY CleanInvImplies DEF IInv, AttemptInv, RowInv
<1>2. QED
  BY <1>1, Invariance, PTL

\* No step changes the status of a settled attempt.
THEOREM SettlementIsFinal == Spec => SettledForGood
<1>1. IInv /\ [Next]_vars =>
        [\A r \in Requests : attempt[r] \in Settled => attempt'[r] = attempt[r]]_vars
  BY OutcomesAreFinal DEF IInv, AttemptInv, RowInv
<1>2. QED
  BY <1>1, Invariance, PTL DEF Spec, SettledForGood
=============================================================================
