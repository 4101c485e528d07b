---------------------------- MODULE SystemProofs ----------------------------
(***************************************************************************)
(* The composition implements InvoiceLifecycle and the payments' ledger,   *)
(* for any calls, requests, keys, versions and crashes; and what Payments  *)
(* promises it keeps beside the calls, whatever versions clients guess.    *)
(***************************************************************************)
EXTENDS System, TLAPS

\* What the steps of Payments need to know of its own state: a request that has been
\* charged and a row the worker has selected belong to a claimed attempt.
PayInv ==
  /\ ver \in Nat
  /\ req \in [Requests -> P!RequestShape]
  /\ at \in [Requests -> {"idle", "answered", "refused"} \cup P!InFlightPcs]
  /\ attempt \in [Requests -> P!AttemptStates]
  /\ \A r \in Requests : at[r] \in {"charge", "await"} => attempt[r] # "none"
  /\ batch \subseteq {r \in Requests : attempt[r] # "none"}

\* Steps of Payments that leave the invoice's row alone.
Aside(r) ==
  \/ P!ReplayStored(r) \/ P!MissStored(r) \/ P!ClaimRefused(r) \/ P!SendCharge(r)
  \/ P!SettleUnknown(r) \/ P!RequestLost(r) \/ P!PspDecide(r) \/ P!ReconcileNotFound(r)
  \/ P!ReconcileNoAnswer(r) \/ P!Stall(r) \/ P!BackoffElapsed(r) \/ P!Age(r)
AsideAll == P!PspRestart \/ P!Tick \/ P!SelectExpired \/ P!TickEnd \/ P!Crash

SameInvoice == [i \in {inv} |-> state'] = [i \in {inv} |-> state]
            /\ [i \in {inv} |-> ver'] = [i \in {inv} |-> ver]

\* These steps leave attempts alone, and hold none that is not claimed.
LEMMA AsideIsQuiet ==
  ASSUME PayInv, AsideAll \/ \E r \in Requests : Aside(r)
  PROVE  /\ SameInvoice /\ attempt' = attempt /\ req' = req
         /\ at' \in [Requests -> {"idle", "answered", "refused"} \cup P!InFlightPcs]
         /\ \A r \in Requests : at'[r] \in {"charge", "await"} => at[r] \in {"charge", "await"}
         /\ batch' \subseteq batch \cup {r \in Requests : attempt[r] = "pending"}
<1> USE DEF SameInvoice, PayInv, P!invoiceVars, P!attemptVars, P!keyVars, P!pspVars, P!workerVars
<1>1. CASE P!PspRestart
  BY <1>1 DEF P!PspRestart
<1>2. CASE P!Tick
  BY <1>2 DEF P!Tick, P!Due
<1>3. CASE P!SelectExpired
  BY <1>3 DEF P!SelectExpired, P!Expired
<1>4. CASE P!TickEnd
  BY <1>4 DEF P!TickEnd
<1>5. CASE P!Crash
  BY <1>5 DEF P!Crash, P!InFlight, P!InFlightPcs
<1>6. ASSUME NEW r \in Requests, P!ReplayStored(r) \/ P!SettleUnknown(r)
      PROVE SameInvoice /\ attempt' = attempt /\ req' = req /\ batch' = batch
            /\ at' = [at EXCEPT ![r] = "answered"]
  BY <1>6 DEF P!ReplayStored, P!SettleUnknown, P!Answer
<1>7. ASSUME NEW r \in Requests, P!MissStored(r)
      PROVE SameInvoice /\ attempt' = attempt /\ req' = req /\ batch' = batch
            /\ at' = [at EXCEPT ![r] = "claim"]
  BY <1>7 DEF P!MissStored
<1>8. ASSUME NEW r \in Requests, P!ClaimRefused(r) \/ P!RequestLost(r)
      PROVE SameInvoice /\ attempt' = attempt /\ req' = req /\ batch' = batch
            /\ at' = [at EXCEPT ![r] = "refused"]
  BY <1>8 DEF P!ClaimRefused, P!RequestLost
<1>9. ASSUME NEW r \in Requests, P!SendCharge(r)
      PROVE SameInvoice /\ attempt' = attempt /\ req' = req /\ batch' = batch
            /\ at' = [at EXCEPT ![r] = "await"] /\ at[r] = "charge"
  BY <1>9 DEF P!SendCharge
<1>10. ASSUME NEW r \in Requests,
              \/ P!PspDecide(r) \/ P!ReconcileNotFound(r) \/ P!ReconcileNoAnswer(r)
              \/ P!Stall(r) \/ P!BackoffElapsed(r) \/ P!Age(r)
       PROVE SameInvoice /\ attempt' = attempt /\ req' = req /\ at' = at /\ batch' \subseteq batch
  BY <1>10 DEF P!PspDecide, P!ReconcileNotFound, P!ReconcileNoAnswer, P!Take, P!Stall,
               P!BackoffElapsed, P!Age
<1>11. QED
  BY <1>1, <1>2, <1>3, <1>4, <1>5, <1>6, <1>7, <1>8, <1>9, <1>10
     DEF Aside, AsideAll, P!InFlightPcs

\* The invoice's row seen as Payments' functions.
LEMMA OneInvoice ==
  ASSUME NEW s, NEW v, [i \in {inv} |-> state'] = [[i \in {inv} |-> state] EXCEPT ![inv] = s],
         [i \in {inv} |-> ver'] = [[i \in {inv} |-> ver] EXCEPT ![inv] = v]
  PROVE  state' = s /\ ver' = v
<1>1. [i \in {inv} |-> state'][inv] = s /\ [i \in {inv} |-> ver'][inv] = v
  BY Zenon
<1>2. QED
  BY <1>1

\* ... left alone.
LEMMA SameRowOfInvoice == SameInvoice => state' = state /\ ver' = ver
<1>1. ASSUME SameInvoice
      PROVE  [i \in {inv} |-> state'][inv] = [i \in {inv} |-> state][inv]
             /\ [i \in {inv} |-> ver'][inv] = [i \in {inv} |-> ver][inv]
  BY <1>1 DEF SameInvoice
<1>2. QED
  BY <1>1

\* What the other steps of Payments do to the row, to attempts and to handlers.
ClaimEffect(r) ==
  /\ state = "open" /\ state' = "processing"
  /\ ver = req[r].versioning /\ ver' = ver + 1
  /\ attempt' = [attempt EXCEPT ![r] = "pending"]
  /\ at' = [at EXCEPT ![r] = "charge"]
  /\ batch' = batch /\ req' = req
SettleEffect(r) ==
  /\ attempt[r] # "none"
  /\ state' \in {state, "paid", "open"}
  /\ ver' = ver + 1 \/ ver' = ver
  /\ state' = state \/ state' \in {"paid", "open"}
  /\ ver' = ver + 1 => state' \in {"paid", "open"}
  /\ \E o \in {"succeeded", "failed", "expired"} : attempt' = [attempt EXCEPT ![r] = o]
  /\ at' = at \/ at' = [at EXCEPT ![r] = "answered"]
  /\ batch' \subseteq batch /\ req' = req

\* The actions that write the row have these effects.
LEMMA Writers ==
  ASSUME PayInv, NEW r \in Requests
  PROVE  /\ P!ClaimAttempt(r) => ClaimEffect(r)
         /\ P!SettleSucceeded(r) \/ P!SettleFailed(r) => SettleEffect(r)
         /\ P!ReconcileSucceeded(r) \/ P!ReconcileFailed(r) => SettleEffect(r)
         /\ P!Expire(r) => SettleEffect(r)
<1>0. req[r].invoice = inv
  BY DEF PayInv, P!RequestShape
<1>1. ASSUME P!ClaimAttempt(r) PROVE ClaimEffect(r)
  <2>1. state = "open" /\ state' = "processing" /\ ver = req[r].versioning /\ ver' = ver + 1
    BY <1>0, <1>1, OneInvoice DEF P!ClaimAttempt, P!Claimable
  <2>2. QED
    BY <1>1, <2>1 DEF P!ClaimAttempt, P!workerVars, ClaimEffect
<1>2. ASSUME NEW o \in {"succeeded", "failed"}, NEW s \in {"paid", "open"}, P!Settle(r, o, s)
      PROVE  SettleEffect(r)
  <2>1. state' = s /\ ver' = ver + 1
    BY <1>0, <1>2, OneInvoice DEF P!Settle
  <2>2. QED
    BY <1>2, <2>1 DEF P!Settle, P!Answer, P!workerVars, SettleEffect, PayInv
<1>3. ASSUME NEW o \in {"succeeded", "failed"}, NEW s \in {"paid", "open"}, P!Reconcile(r, o, s)
      PROVE  SettleEffect(r)
  <2>1. /\ [i \in {inv} |-> state'] = [[i \in {inv} |-> state] EXCEPT ![inv] =
                                         IF @ = "processing" THEN s ELSE @]
        /\ [i \in {inv} |-> ver'] = [[i \in {inv} |-> ver] EXCEPT ![inv] = ver]
    BY <1>0, <1>3 DEF P!Reconcile, P!ReleaseProcessing
  <2>2. [i \in {inv} |-> state][inv] = state
    OBVIOUS
  <2>3. state' = (IF state = "processing" THEN s ELSE state) /\ ver' = ver
    BY <2>1, <2>2, OneInvoice
  <2>4. /\ batch' \subseteq batch /\ at' = at /\ req' = req
        /\ attempt[r] # "none" /\ attempt' = [attempt EXCEPT ![r] = o]
    BY <1>3 DEF P!Reconcile, P!Take, PayInv
  <2>5. ver' # ver + 1
    BY <2>3 DEF PayInv
  <2>6. QED
    BY <2>3, <2>4, <2>5 DEF SettleEffect
<1>4. ASSUME P!Expire(r) PROVE SettleEffect(r)
  <2>1. state' = "open" /\ ver' = ver
    BY <1>0, <1>4, OneInvoice DEF P!Expire
  <2>2. QED
    BY <1>4, <2>1 DEF P!Expire, SettleEffect, PayInv
<1>5. QED
  BY <1>1, <1>2, <1>3, <1>4
     DEF P!SettleSucceeded, P!SettleFailed, P!ReconcileSucceeded, P!ReconcileFailed

\* The actions of Payments by what they do to the row.
LEMMA PaySteps ==
  ASSUME P!Next
  PROVE  \/ AsideAll
         \/ \E r \in Requests :
              \/ Aside(r) \/ P!ClaimAttempt(r)
              \/ P!SettleSucceeded(r) \/ P!SettleFailed(r) \/ P!ReconcileSucceeded(r)
              \/ P!ReconcileFailed(r) \/ P!Expire(r)
  BY DEF P!Next, P!Handler, P!WorkerOn, Aside, AsideAll

\* A step of payments is one of Payments', within the bound on versions.
LEMMA PayStepIsNext ==
  ASSUME PayInv, PayStep
  PROVE  P!Next /\ ver' \in {ver, ver + 1} /\ (ver' = ver + 1 => ver < MaxVersion)
<1>1. CASE UNCHANGED row /\ P!Next
  BY <1>1 DEF row, PayInv
<1>2. CASE \E r \in Requests : P!Handler(r) \/ P!WorkerOn(r)
  <2>1. P!Next
    BY <1>2 DEF P!Next
  <2>2. QED
    BY <2>1, BoundsAssumption DEF PayStep, row, PayInv
<1>3. QED
  BY <1>1, <1>2 DEF PayStep

\* The three things a step of Payments can be to the invoice.
LEMMA PayEffects ==
  ASSUME PayInv, P!Next
  PROVE  \/ /\ state' = state /\ ver' = ver /\ attempt' = attempt /\ req' = req
            /\ at' \in [Requests -> {"idle", "answered", "refused"} \cup P!InFlightPcs]
            /\ \A r \in Requests :
                 at'[r] \in {"charge", "await"} => at[r] \in {"charge", "await"}
            /\ batch' \subseteq batch \cup {r \in Requests : attempt[r] = "pending"}
         \/ \E r \in Requests : ClaimEffect(r)
         \/ \E r \in Requests : SettleEffect(r)
<1>1. CASE AsideAll \/ \E r \in Requests : Aside(r)
  BY <1>1, AsideIsQuiet, SameRowOfInvoice
<1>2. ASSUME NEW r \in Requests, P!ClaimAttempt(r) PROVE ClaimEffect(r)
  BY <1>2, Writers
<1>3. ASSUME NEW r \in Requests,
             \/ P!SettleSucceeded(r) \/ P!SettleFailed(r) \/ P!ReconcileSucceeded(r)
             \/ P!ReconcileFailed(r) \/ P!Expire(r)
      PROVE SettleEffect(r)
  BY <1>3, Writers
<1>4. QED
  BY <1>1, <1>2, <1>3, PaySteps

-----------------------------------------------------------------------------
\* Nothing is claimed at first.
LEMMA InitPayInv == Init => PayInv
  BY DEF Init, L!Init, P!NothingPaid, PayInv, P!InFlightPcs, P!AttemptStates

\* Every step keeps what is known of Payments' state.
LEMMA NextPayInv == PayInv /\ [Next]_vars => PayInv'
<1> SUFFICES ASSUME PayInv, [Next]_vars PROVE PayInv'
  OBVIOUS
<1>1. CASE CallStep
  <2>1. ver' \in Nat
    BY <1>1 DEF CallStep, PayInv, L!Service, L!CreateInvoice, L!Send, L!Get, L!GetRow,
       L!GetItems, L!Edit, L!EditBump, L!EditConflict, L!EditSelect, L!EditDueDate,
       L!EditKeepItems, L!EditReply, L!DeleteStart, L!DeleteEnd, L!EditCommit,
       L!EditAborted, L!Finalize, L!FinalizeSelect, L!FinalizeUpdate, L!Void,
       L!VoidSelect, L!VoidUpdate, L!UpdateConflict, L!Bump, L!row
  <2>2. QED
    BY <1>1, <2>1 DEF CallStep, payVars, PayInv
<1>2. CASE PayStep
  <2>1. P!Next /\ ver' \in Nat
    BY <1>2, PayStepIsNext DEF PayInv
  <2>2. ASSUME NEW r \in Requests, ClaimEffect(r) PROVE PayInv'
    BY <2>1, <2>2 DEF ClaimEffect, PayInv, P!InFlightPcs, P!AttemptStates
  <2>3. ASSUME NEW r \in Requests, SettleEffect(r) PROVE PayInv'
    BY <2>1, <2>3 DEF SettleEffect, PayInv, P!AttemptStates, P!Settled, P!Outcomes
  <2>4. QED
    BY <1>2, <2>1, <2>2, <2>3, PayEffects DEF PayStep, PayInv
<1>3. CASE UNCHANGED vars
  BY <1>3 DEF vars, row, payVars, PayInv
<1>4. QED
  BY <1>1, <1>2, <1>3 DEF Next

\* Every step is one of InvoiceLifecycle's or leaves what it sees alone.
LEMMA NextImplements == PayInv /\ [Next]_vars => [L!Next]_(L!vars)
<1> SUFFICES ASSUME PayInv, [Next]_vars PROVE [L!Next]_(L!vars)
  OBVIOUS
<1>1. CASE CallStep
  BY <1>1 DEF CallStep, L!Next
<1>2. CASE PayStep
  <2>1. UNCHANGED callVars /\ (row' # row => rowLock = NoCall)
        /\ (ver' = ver + 1 => ver < MaxVersion /\ row' # row)
    BY <1>2, PayStepIsNext DEF PayStep, WritesRow, PayInv, row
  <2>2. ASSUME state' = state, ver' = ver, attempt' = attempt PROVE UNCHANGED L!vars
    BY <2>1, <2>2 DEF L!vars, callVars, Claimed
  <2>3. ASSUME NEW r \in Requests, ClaimEffect(r) PROVE L!PayClaim
    BY <2>1, <2>3 DEF ClaimEffect, L!PayClaim, L!Bump, L!history, callVars, Claimed, PayInv, row
  <2>4. ASSUME NEW r \in Requests, SettleEffect(r) PROVE L!PaySettle \/ UNCHANGED L!vars
    <3>1. Claimed /\ Claimed'
      BY <2>4 DEF SettleEffect, PayInv, Claimed
    <3>2. CASE row' = row
      BY <2>1, <3>1, <3>2 DEF L!vars, callVars, row
    <3>3. CASE row' # row
      BY <2>1, <2>4, <3>1, <3>3
         DEF SettleEffect, L!PaySettle, L!Bump, L!history, callVars, row
    <3>4. QED
      BY <3>2, <3>3
  <2>5. QED
    BY <1>2, <2>2, <2>3, <2>4, PayEffects, PayStepIsNext DEF L!Next
<1>3. CASE UNCHANGED vars
  BY <1>3 DEF vars, row, callVars, payVars, L!vars, Claimed
<1>4. QED
  BY <1>1, <1>2, <1>3 DEF Next

\* Every behaviour of the composition is one of InvoiceLifecycle: what holds of an
\* invoice there holds while it is really paid.
THEOREM SystemImplementsLifecycle == Spec => ImplementsLifecycle
<1>1. Init => L!Init
  BY DEF Init
<1>2. QED
  BY <1>1, InitPayInv, NextPayInv, NextImplements, PTL
     DEF Spec, ImplementsLifecycle, L!Spec

-----------------------------------------------------------------------------
(* What is proved of the two modules, said of their composition.           *)

LP == INSTANCE LifecycleProofs WITH claimed <- Claimed

PP == INSTANCE LedgerProofs WITH
        Invoices <- {inv}, OpenVersion <- 2, pc <- at,
        invState <- [i \in {inv} |-> state], invVer <- [i \in {inv} |-> ver]

\* The assumptions of the two modules are the composition's.
LEMMA Assumptions ==
  /\ LP!BoundsAssumption /\ LP!NamesAssumption
  /\ PP!VersionsAssumption /\ PP!CrashAssumption /\ PP!NoRowAssumption
  BY BoundsAssumption, NamesAssumption, VersionsAssumption
     DEF LP!BoundsAssumption, LP!NamesAssumption, PP!VersionsAssumption, PP!CrashAssumption,
         PP!NoRowAssumption

\* The two instances of InvoiceLifecycle are one ...
LEMMA SameService == L!Service => LP!Service
<1>1. L!CreateInvoice => LP!CreateInvoice
  BY DEF L!CreateInvoice, LP!CreateInvoice, L!history, LP!history
<1>2. ASSUME NEW c \in Calls
      PROVE  /\ L!Send(c) => LP!Send(c)
             /\ L!Get(c) => LP!Get(c)
             /\ L!UpdateConflict(c) => LP!UpdateConflict(c)
  BY DEF L!Send, LP!Send, L!Get, LP!Get, L!GetRow, LP!GetRow, L!GetItems, LP!GetItems,
         L!UpdateConflict, LP!UpdateConflict, L!Goto, LP!Goto, L!row, LP!row, L!history,
         LP!history, L!Sent, LP!Sent, L!Plain, LP!Plain, L!Ops, LP!Ops
<1>3. ASSUME NEW c \in Calls PROVE L!Edit(c) => LP!Edit(c)
  BY DEF L!Edit, LP!Edit, L!EditBump, LP!EditBump, L!EditConflict, LP!EditConflict,
         L!EditSelect, LP!EditSelect, L!EditDueDate, LP!EditDueDate, L!EditKeepItems,
         LP!EditKeepItems, L!EditReply, LP!EditReply, L!DeleteStart, LP!DeleteStart,
         L!DeleteEnd, LP!DeleteEnd, L!EditCommit, LP!EditCommit, L!EditAborted,
         LP!EditAborted, L!Goto, LP!Goto, L!row, LP!row, L!history, LP!history, L!Sent,
         LP!Sent, L!Current, LP!Current, L!Bump, LP!Bump, L!Unlock, LP!Unlock,
         L!Overtakes, LP!Overtakes, L!EditPcs, LP!EditPcs
<1>4. ASSUME NEW c \in Calls
      PROVE (L!Finalize(c) => LP!Finalize(c)) /\ (L!Void(c) => LP!Void(c))
  BY DEF L!Finalize, LP!Finalize, L!Void, LP!Void, L!FinalizeSelect, LP!FinalizeSelect,
         L!FinalizeUpdate, LP!FinalizeUpdate, L!VoidSelect, LP!VoidSelect, L!VoidUpdate,
         LP!VoidUpdate, L!Goto, LP!Goto, L!row, LP!row, L!history, LP!history, L!Sent,
         LP!Sent, L!Current, LP!Current, L!Bump, LP!Bump, L!CanTransition,
         LP!CanTransition, L!VoidTarget, LP!VoidTarget
<1>5. QED
  BY <1>1, <1>2, <1>3, <1>4 DEF L!Service, LP!Service

\* ... from their first state on.
LEMMA SameLife == (L!Init => LP!Init) /\ ([L!Next]_(L!vars) => [LP!Next]_(LP!vars))
<1>1. L!Init => LP!Init
  BY DEF L!Init, LP!Init, L!Plain, LP!Plain
<1>2. (L!PayClaim => LP!PayClaim) /\ (L!PaySettle => LP!PaySettle)
  BY DEF L!PayClaim, LP!PayClaim, L!PaySettle, LP!PaySettle, L!history, LP!history,
         L!Bump, LP!Bump
<1>3. UNCHANGED L!vars => UNCHANGED LP!vars
  BY DEF L!vars, LP!vars
<1>4. QED
  BY <1>1, <1>2, <1>3, SameService DEF L!Next, LP!Next

\* What InvoiceLifecycle keeps, the composition keeps.
LifeInv == LP!TypeOK /\ LP!VersionInv /\ LP!DraftInv

\* The composition keeps InvoiceLifecycle's invariants, since it implements it.
LEMMA LifeInvariance == Spec => []LifeInv
<1>1. LP!Spec => [](LP!TypeOK /\ LP!VersionInv /\ LP!DraftInv)
  BY Assumptions, LP!DraftInvariance
<1>2. Spec => LP!Spec
  BY SystemImplementsLifecycle, SameLife, PTL DEF ImplementsLifecycle, L!Spec, LP!Spec
<1>3. QED
  BY <1>1, <1>2, PTL DEF LifeInv

\* ... and so are the two instances of Payments.
LEMMA SamePayments == (P!Next => PP!Next) /\ P!vars = PP!vars
<1> USE DEF P!invoiceVars, PP!invoiceVars, P!attemptVars, PP!attemptVars, P!keyVars,
            PP!keyVars, P!workerVars, PP!workerVars, P!pspVars, PP!pspVars
<1>1. ASSUME NEW r \in Requests
      PROVE  /\ P!ReplayStored(r) => PP!ReplayStored(r)
             /\ P!MissStored(r) => PP!MissStored(r)
             /\ P!ClaimRefused(r) => PP!ClaimRefused(r)
             /\ P!ClaimAttempt(r) => PP!ClaimAttempt(r)
             /\ P!SendCharge(r) => PP!SendCharge(r)
  BY DEF P!ReplayStored, PP!ReplayStored, P!MissStored, PP!MissStored, P!ClaimRefused,
         PP!ClaimRefused, P!ClaimAttempt, PP!ClaimAttempt, P!SendCharge, PP!SendCharge,
         P!Fresh, PP!Fresh, P!Row, PP!Row, P!Claimable, PP!Claimable, P!KeyTaken, PP!KeyTaken
<1>2. ASSUME NEW r \in Requests
      PROVE  /\ P!SettleSucceeded(r) => PP!SettleSucceeded(r)
             /\ P!SettleFailed(r) => PP!SettleFailed(r)
             /\ P!SettleUnknown(r) => PP!SettleUnknown(r)
  BY DEF P!SettleSucceeded, PP!SettleSucceeded, P!SettleFailed, PP!SettleFailed,
         P!SettleUnknown, PP!SettleUnknown, P!Settle, PP!Settle, P!Answer, PP!Answer
<1>3. ASSUME NEW r \in Requests PROVE P!WorkerOn(r) => PP!WorkerOn(r)
  BY DEF P!WorkerOn, PP!WorkerOn, P!ReconcileSucceeded, PP!ReconcileSucceeded,
         P!ReconcileFailed, PP!ReconcileFailed, P!Reconcile, PP!Reconcile, P!Take, PP!Take,
         P!ReleaseProcessing, PP!ReleaseProcessing, P!InFlight, PP!InFlight, P!InFlightPcs,
         PP!InFlightPcs, P!ReconcileNotFound, PP!ReconcileNotFound, P!ReconcileNoAnswer,
         PP!ReconcileNoAnswer, P!Expire, PP!Expire, P!Outcomes, PP!Outcomes
<1>4. ASSUME NEW r \in Requests
      PROVE  /\ P!RequestLost(r) => PP!RequestLost(r)
             /\ P!PspDecide(r) => PP!PspDecide(r)
             /\ P!Stall(r) => PP!Stall(r)
             /\ P!BackoffElapsed(r) => PP!BackoffElapsed(r)
             /\ P!Age(r) => PP!Age(r)
  BY DEF P!RequestLost, PP!RequestLost, P!PspDecide, PP!PspDecide, P!Stall, PP!Stall,
         P!BackoffElapsed, PP!BackoffElapsed, P!Age, PP!Age, P!InFlight, PP!InFlight,
         P!InFlightPcs, PP!InFlightPcs, P!Outcomes, PP!Outcomes
<1>5. /\ P!PspRestart => PP!PspRestart
      /\ P!Tick => PP!Tick
      /\ P!SelectExpired => PP!SelectExpired
      /\ P!TickEnd => PP!TickEnd
      /\ P!Crash => PP!Crash
  BY DEF P!PspRestart, PP!PspRestart, P!Tick, PP!Tick, P!SelectExpired, PP!SelectExpired,
         P!TickEnd, PP!TickEnd, P!Crash, PP!Crash, P!Due, PP!Due, P!Expired, PP!Expired,
         P!InFlight, PP!InFlight, P!InFlightPcs, PP!InFlightPcs, P!Outcomes, PP!Outcomes
<1>6. P!vars = PP!vars
  BY DEF P!vars, PP!vars
<1>7. QED
  BY <1>1, <1>2, <1>3, <1>4, <1>5, <1>6 DEF P!Next, PP!Next, P!Handler, PP!Handler

-----------------------------------------------------------------------------
(* Payments beside the calls.                                              *)

\* What Payments keeps of the invoice's row: all but the exactness of clean invoices
\* is beyond the reach of calls.
RowSafe == PP!VersionInv /\ PP!InvoiceInv /\ (PP!CleanInv \/ Reopened)

\* The invariant of the composition.
SafeInv == PayInv /\ LifeInv /\ PP!AttemptInv /\ RowSafe

\* What a call can do to the row: create the invoice, let an edit in, or end the draft
\* with the version the row has.
CallEffect ==
  \/ state' = state /\ ver' = ver
  \/ state = "absent" /\ state' = "draft"
  \/ state = "draft" /\ state' = "draft" /\ ver' = ver + 1
  \/ /\ state' \in {"open", "void"} /\ ver' = ver + 1
     /\ \E c \in Calls : L!EndsDraft(c)' /\ call'[c].versioning = ver

\* Calls have these effects.
LEMMA CallEffects == ASSUME LifeInv, CallStep PROVE CallEffect
<1> USE DEF L!row
<1>1. CASE L!CreateInvoice
  BY <1>1 DEF L!CreateInvoice, CallEffect
<1>2. ASSUME NEW c \in Calls, L!EditBump(c) PROVE CallEffect
  BY <1>2 DEF L!EditBump, L!Bump, CallEffect
<1>3. ASSUME NEW c \in Calls, L!FinalizeUpdate(c) \/ L!VoidUpdate(c) PROVE CallEffect
  <2>1. /\ call' = call /\ pc' = [pc EXCEPT ![c] = "done"] /\ call[c].versioning = ver
        /\ call[c].op \in {"finalize", "void"} /\ state' \in {"open", "void"} /\ ver' = ver + 1
    BY <1>3 DEF L!FinalizeUpdate, L!VoidUpdate, L!Bump, L!Goto, L!Current
  <2>2. L!EndsDraft(c)'
    BY <2>1 DEF L!EndsDraft, L!Won, LifeInv, LP!TypeOK
  <2>3. QED
    BY <2>1, <2>2 DEF CallEffect
<1>4. ASSUME NEW c \in Calls,
             \/ L!Send(c) \/ L!Get(c) \/ L!EditConflict(c) \/ L!EditSelect(c)
             \/ L!EditDueDate(c) \/ L!EditKeepItems(c) \/ L!EditReply(c) \/ L!DeleteStart(c)
             \/ L!DeleteEnd(c) \/ L!EditCommit(c) \/ L!EditAborted(c) \/ L!FinalizeSelect(c)
             \/ L!VoidSelect(c) \/ L!UpdateConflict(c)
      PROVE  state' = state /\ ver' = ver
  BY <1>4 DEF L!Send, L!Get, L!GetRow, L!GetItems, L!EditConflict, L!EditSelect, L!EditDueDate,
     L!EditKeepItems, L!EditReply, L!DeleteStart, L!DeleteEnd, L!EditCommit, L!EditAborted,
     L!FinalizeSelect, L!VoidSelect, L!UpdateConflict
<1>5. QED
  BY <1>1, <1>2, <1>3, <1>4
     DEF CallStep, L!Service, L!Edit, L!Finalize, L!Void, CallEffect

\* A finalize or void that has won has won for good.
LEMMA EndsStay ==
  ASSUME LifeInv, [Next]_vars, NEW c \in Calls, L!EndsDraft(c)
  PROVE  L!EndsDraft(c)' /\ call'[c] = call[c]
<1>1. pc[c] = "done" /\ call[c].op # "edit"
  BY DEF L!EndsDraft, L!Won, L!EditPcs, LifeInv, LP!DraftInv, LP!EditPcs
<1>2. CASE UNCHANGED <<call, pc>>
  BY <1>2 DEF L!EndsDraft, L!Won
<1>3. CASE L!Service
  <2>1. ASSUME NEW w \in Calls, NEW l, pc[w] # "done", pc' = [pc EXCEPT ![w] = l],
               call'[c] = call[c]
        PROVE  L!EndsDraft(c)' /\ call'[c] = call[c]
    BY <1>1, <2>1 DEF L!EndsDraft, L!Won, LifeInv, LP!TypeOK
  <2>2. ASSUME NEW w \in Calls, L!Send(w) PROVE L!EndsDraft(c)' /\ call'[c] = call[c]
    <3>1. c # w /\ pc[w] = "idle" /\ pc' = [pc EXCEPT ![w] = "sent"]
      BY <1>1, <2>2 DEF L!Send, L!Goto
    <3>2. call'[c] = call[c]
      BY <2>2, <3>1 DEF L!Send, LifeInv, LP!TypeOK
    <3>3. QED
      BY <2>1, <3>1, <3>2
  <2>3. ASSUME NEW w \in Calls, L!Edit(w) PROVE L!EndsDraft(c)' /\ call'[c] = call[c]
    <3>1. call' = call /\ pc[w] # "done" /\ \E l : pc' = [pc EXCEPT ![w] = l]
      BY <2>3 DEF L!Edit, L!EditBump, L!EditConflict, L!EditSelect, L!EditDueDate,
         L!EditKeepItems, L!EditReply, L!DeleteStart, L!DeleteEnd, L!EditCommit, L!EditAborted,
         L!Goto, L!Sent, L!EditPcs
    <3>2. QED
      BY <2>1, <3>1
  <2>4. ASSUME NEW w \in Calls, L!Get(w) \/ L!Finalize(w) \/ L!Void(w) \/ L!UpdateConflict(w)
        PROVE  L!EndsDraft(c)' /\ call'[c] = call[c]
    <3>1. call' = call /\ pc[w] # "done" /\ \E l : pc' = [pc EXCEPT ![w] = l]
      BY <2>4 DEF L!Get, L!GetRow, L!GetItems, L!Finalize, L!FinalizeSelect, L!FinalizeUpdate,
         L!Void, L!VoidSelect, L!VoidUpdate, L!UpdateConflict, L!Goto, L!Sent
    <3>2. QED
      BY <2>1, <3>1
  <2>5. CASE L!CreateInvoice
    BY <1>2, <2>5 DEF L!CreateInvoice
  <2>6. QED
    BY <1>3, <2>2, <2>3, <2>4, <2>5 DEF L!Service
<1>4. QED
  BY <1>2, <1>3 DEF Next, CallStep, PayStep, vars, callVars

\* What is known of attempts does not depend on the invoice's row.
LEMMA AttemptsAside == PP!AttemptInv /\ UNCHANGED payVars => PP!AttemptInv'
<1> SUFFICES ASSUME PP!AttemptInv, UNCHANGED payVars PROVE PP!AttemptInv'
  OBVIOUS
<1> USE DEF PP!AttemptInv, payVars
<1>1. PP!AttemptTypes'
  BY DEF PP!AttemptTypes, PP!Tasks, PP!Answers, PP!RequestShape
<1>2. PP!HandlerInv' /\ PP!WorkerInv'
  BY DEF PP!HandlerInv, PP!WorkerInv, PP!Claimed, PP!Expired
<1>3. PP!KeyInv' /\ PP!AnswerInv'
  BY DEF PP!KeyInv, PP!AnswerInv, PP!Row, PP!Claimed
<1>4. PP!RecordsTellTheVerdict' /\ PP!AnnouncedOnce'
  BY DEF PP!RecordsTellTheVerdict, PP!AnnouncedOnce
<1>5. QED
  BY <1>1, <1>2, <1>3, <1>4

\* Claims stay claims.
LEMMA ClaimsStay ==
  ASSUME PayInv, [Next]_vars
  PROVE  req' = req /\ \A r \in Requests : attempt[r] # "none" => attempt'[r] # "none"
<1>1. CASE CallStep \/ UNCHANGED vars
  BY <1>1 DEF CallStep, payVars, vars
<1>2. CASE PayStep
  BY <1>2, PayStepIsNext, PayEffects DEF ClaimEffect, SettleEffect, PayInv
<1>3. QED
  BY <1>1, <1>2 DEF Next

\* An invoice reopened after a claim stays so marked.
LEMMA ReopenedStays ==
  ASSUME PayInv, LifeInv, Reopened, [Next]_vars PROVE Reopened'
  BY EndsStay, ClaimsStay DEF Reopened

\* A call that ends the draft after a claim has a later version in hand; any other
\* leaves a claimed invoice's row alone.
LEMMA CallsKeepRow ==
  ASSUME PayInv, LifeInv, PP!AttemptInv, RowSafe, CallStep
  PROVE  RowSafe'
<1>0. UNCHANGED payVars /\ [Next]_vars
  BY DEF CallStep, Next
<1>a. ver \in Nat /\ \A r \in Requests : req[r].invoice = inv /\ req[r].versioning \in Nat
  BY VersionsAssumption DEF PayInv, P!RequestShape
<1>b. \A r \in Requests : PP!Claimed(r)' <=> PP!Claimed(r)
  BY <1>0 DEF PP!Claimed, payVars
<1>c. \A i \in {inv} : PP!On(i)' = PP!On(i) /\ (PP!Clean(i)' <=> PP!Clean(i))
  BY <1>0, <1>b DEF PP!On, PP!Clean, payVars
<1>d. state \in {"absent", "draft"} => \A r \in Requests : ~PP!Claimed(r)
  BY DEF LifeInv, LP!DraftInv, Claimed, PP!Claimed
<1>e. CallEffect
  BY CallEffects
<1>1. PP!VersionInv'
  <2>1. PP!OneClaimPerVersion'
    BY <1>0, <1>b DEF RowSafe, PP!VersionInv, PP!OneClaimPerVersion, payVars
  <2>2. ASSUME NEW r \in Requests, PP!Claimed(r) PROVE req[r].versioning < ver'
    <3>1. req[r].versioning < ver
      BY <1>a, <2>2 DEF RowSafe, PP!VersionInv
    <3>2. ver' = ver \/ ver' = ver + 1
      BY <1>d, <1>e, <2>2 DEF CallEffect
    <3>3. QED
      BY <1>a, <3>1, <3>2
  <2>3. QED
    BY <1>0, <1>a, <1>b, <2>1, <2>2 DEF PP!VersionInv, payVars
<1>2. PP!InvoiceInv'
  <2>1. state' \in {"processing", "paid"} => state' = state
    BY <1>e DEF CallEffect
  <2>2. QED
    BY <1>0, <1>c, <2>1 DEF RowSafe, PP!InvoiceInv, PP!ProcessingHasPending, PP!PaidIsCharged,
       PP!Charged, payVars
<1>3. PP!CleanInv' \/ Reopened'
  <2>1. CASE \A r \in Requests : ~PP!Claimed(r)
    <3>1. \A i \in {inv} : PP!On(i)' = {}
      BY <1>c, <2>1 DEF PP!On
    <3>2. QED
      BY <3>1 DEF PP!CleanInv
  <2>2. CASE state' = state
    <3>1. PP!CleanInv => PP!CleanInv'
      BY <1>0, <1>c, <2>2 DEF PP!CleanInv, PP!Live, payVars
    <3>2. QED
      BY <1>0, <3>1, ReopenedStays DEF RowSafe
  <2>3. ASSUME NEW r \in Requests, PP!Claimed(r), state' # state PROVE Reopened'
    <3>1. PICK c \in Calls : L!EndsDraft(c)' /\ call'[c].versioning = ver
      BY <1>d, <1>e, <2>3 DEF CallEffect
    <3>2. ver > req[r].versioning
      BY <1>a, <2>3 DEF RowSafe, PP!VersionInv
    <3>3. attempt'[r] # "none" /\ req' = req
      BY <1>0, <2>3 DEF PP!Claimed, payVars
    <3>4. QED
      BY <3>1, <3>2, <3>3 DEF Reopened
  <2>4. QED
    BY <2>1, <2>2, <2>3
<1>4. QED
  BY <1>1, <1>2, <1>3 DEF RowSafe

\* Payments keeps the row as it does on its own.
LEMMA PaymentsKeepRow ==
  ASSUME PayInv, LifeInv, PP!AttemptInv, RowSafe, PayStep
  PROVE  RowSafe'
<1>0. [Next]_vars /\ [PP!Next]_(PP!vars)
  BY PayStepIsNext, SamePayments DEF Next
<1>1. /\ [i \in {inv} |-> state] \in [{inv} -> LP!States \cup {"absent"}]
      /\ [i \in {inv} |-> ver] \in [{inv} -> Nat]
  BY DEF LifeInv, LP!TypeOK
<1>2. PP!VersionInv'
  BY <1>0, <1>1, Assumptions, PP!NextVersionInv DEF PP!AttemptInv, RowSafe
<1>3. PP!InvoiceInv'
  BY <1>0, <1>1, Assumptions, PP!NextInvoiceInv DEF PP!AttemptInv, RowSafe
<1>4. PP!CleanInv => PP!CleanInv'
  BY <1>0, <1>1, Assumptions, PP!NextCleanInv DEF PP!AttemptInv
<1>5. QED
  BY <1>0, <1>2, <1>3, <1>4, ReopenedStays DEF RowSafe

\* Every step keeps what Payments keeps.
LEMMA NextSafeInv ==
  ASSUME PayInv, LifeInv, PP!AttemptInv, RowSafe, [Next]_vars
  PROVE  PP!AttemptInv' /\ RowSafe'
<1>1. CASE CallStep
  BY <1>1, AttemptsAside, CallsKeepRow DEF CallStep
<1>2. CASE PayStep
  <2>1. PP!AttemptInv'
    BY <1>2, PayStepIsNext, SamePayments, Assumptions, PP!NextAttemptInv
  <2>2. QED
    BY <1>2, <2>1, PaymentsKeepRow
<1>3. CASE UNCHANGED vars
  <2>1. UNCHANGED PP!vars /\ UNCHANGED payVars
    BY <1>3 DEF vars, row, payVars, PP!vars
  <2>2. PP!AttemptInv'
    BY <2>1, AttemptsAside
  <2>3. (PP!VersionInv <=> PP!VersionInv') /\ (PP!InvoiceInv <=> PP!InvoiceInv')
    BY <2>1 DEF PP!vars, PP!VersionInv, PP!OneClaimPerVersion, PP!InvoiceInv, PP!Claimed,
       PP!ProcessingHasPending, PP!PaidIsCharged, PP!On, PP!Charged
  <2>4. PP!CleanInv <=> PP!CleanInv'
    BY <2>1 DEF PP!vars, PP!CleanInv, PP!Clean, PP!Live, PP!On, PP!Claimed
  <2>5. QED
    BY <2>2, <2>3, <2>4, ReopenedStays DEF RowSafe
<1>4. QED
  BY <1>1, <1>2, <1>3 DEF Next

\* The invariants of the two modules always hold of the composition.
LEMMA SafeInvariance == Spec => []SafeInv
<1>1. Init => PP!AttemptInv /\ RowSafe
  <2>1. Init => PP!NothingPaid
    BY DEF Init, P!NothingPaid, PP!NothingPaid, P!RequestShape, PP!RequestShape, P!NoAnswer,
       PP!NoAnswer
  <2>2. Init => PP!AttemptInv
    BY <2>1, Assumptions, PP!InitAttemptInv
  <2>3. Init => PP!RowInv
    <3>1. ASSUME Init
          PROVE  /\ \A r \in Requests : ~PP!Claimed(r)
                 /\ \A i \in {inv} : [j \in {inv} |-> state][i] \notin {"processing", "paid"}
      BY <3>1 DEF Init, L!Init, P!NothingPaid, PP!Claimed
    <3>2. QED
      BY <3>1, Assumptions, PP!InitRowInv
  <2>4. QED
    BY <2>2, <2>3 DEF PP!RowInv, RowSafe
<1>2. PayInv /\ LifeInv /\ PP!AttemptInv /\ RowSafe /\ [Next]_vars
        => PP!AttemptInv' /\ RowSafe'
  BY NextSafeInv
<1>3. PayInv /\ LifeInv /\ PP!AttemptInv /\ RowSafe => SafeInv
  BY DEF SafeInv
<1>4. QED
  BY <1>1, <1>2, <1>3, InitPayInv, NextPayInv, LifeInvariance, PTL DEF Spec

\* Whatever versions clients guess: keys and versions are claimed once, "processing"
\* has its pending attempt and "paid" its charge, records, answers and events tell the
\* verdict, and a clean invoice that no guessed version has reopened is exact, while the
\* invoice is created, edited, finalized and voided beside its payments.
THEOREM PaymentsAreSafe == Spec => []PaymentsStaySafe
<1>a. PP!Outcomes = P!Outcomes
  BY DEF PP!Outcomes, P!Outcomes
<1>1. ASSUME SafeInv PROVE PaymentsStaySafe
  <2>1. /\ PP!OneClaimPerVersion /\ PP!ProcessingHasPending /\ PP!PaidIsCharged
        /\ PP!RecordsTellTheVerdict /\ PP!AnnouncedOnce
    BY <1>1 DEF SafeInv, PP!AttemptInv, RowSafe, PP!VersionInv, PP!InvoiceInv
  <2>2. PP!OneAttemptPerKey /\ PP!AnswersAgree
    BY <1>1, Assumptions, PP!KeyInvImplies, PP!AnswersImplies DEF SafeInv, PP!AttemptInv
  <2>3. PP!CleanInvoiceIsExact \/ Reopened
    BY <1>1, Assumptions, PP!CleanInvImplies DEF SafeInv, RowSafe, PP!AttemptInv
  <2>4. P!OneAttemptPerKey /\ P!OneClaimPerVersion
    BY <2>1, <2>2 DEF P!OneAttemptPerKey, PP!OneAttemptPerKey, P!OneClaimPerVersion,
       PP!OneClaimPerVersion, P!Claimed, PP!Claimed
  <2>5. P!ProcessingHasPending /\ P!PaidIsCharged
    BY <2>1 DEF P!ProcessingHasPending, PP!ProcessingHasPending, P!PaidIsCharged,
       PP!PaidIsCharged, P!Claimed, PP!Claimed, P!On, PP!On, P!Charged, PP!Charged
  <2>6. P!CleanInvoiceIsExact \/ Reopened
    BY <2>3 DEF P!CleanInvoiceIsExact, PP!CleanInvoiceIsExact, P!Claimed, PP!Claimed, P!On,
       PP!On, P!Charged, PP!Charged, P!Clean, PP!Clean
  <2>7. P!RecordsTellTheVerdict /\ P!AnswersAgree /\ P!AnnouncedOnce
    BY <1>a, <2>1, <2>2 DEF P!RecordsTellTheVerdict, PP!RecordsTellTheVerdict, P!AnswersAgree,
       PP!AnswersAgree, P!AnnouncedOnce, PP!AnnouncedOnce, P!Claimed, PP!Claimed, P!Row, PP!Row
  <2>8. QED
    BY <2>4, <2>5, <2>6, <2>7 DEF PaymentsStaySafe
<1>2. QED
  BY <1>1, SafeInvariance, PTL

\* The instance's ledger is the composition's.
LEMMA SameLedger ==
  PP!LedgerStep => [P!Ledger!Next]_<<P!LedgerEntry, P!LedgerVerdict>>
<1> USE DEF P!LedgerEntry, PP!LedgerEntry, P!LedgerVerdict, PP!LedgerVerdict, P!EntryOf,
            PP!EntryOf, P!VerdictOf, PP!VerdictOf, P!Slots, PP!Slots
<1>1. P!LedgerEntry = PP!LedgerEntry /\ P!LedgerVerdict = PP!LedgerVerdict
  OBVIOUS
<1>2. PP!Ledger!Next => P!Ledger!Next
  BY DEF PP!Ledger!Next, P!Ledger!Next, PP!Ledger!Open, P!Ledger!Open, PP!Ledger!Charge,
     P!Ledger!Charge, PP!Ledger!Decide, P!Ledger!Decide, PP!Ledger!Resolve, P!Ledger!Resolve,
     PP!Ledger!GiveUp, P!Ledger!GiveUp, PP!Ledger!Outcomes, P!Ledger!Outcomes
<1>3. QED
  BY <1>1, <1>2 DEF PP!LedgerStep

\* Every step of the composition is a step of the ledger or leaves it alone.
LEMMA NextLedger ==
  ASSUME SafeInv, [Next]_vars
  PROVE  [P!Ledger!Next]_<<P!LedgerEntry, P!LedgerVerdict>>
<1>1. ASSUME UNCHANGED <<idem, attempt, psp>>
      PROVE  UNCHANGED <<P!LedgerEntry, P!LedgerVerdict>>
  BY <1>1 DEF P!LedgerEntry, P!LedgerVerdict, P!EntryOf, P!VerdictOf
<1>2. CASE CallStep \/ UNCHANGED vars
  BY <1>1, <1>2 DEF CallStep, payVars, vars
<1>3. CASE PayStep
  BY <1>3, PayStepIsNext, SamePayments, Assumptions, PP!NextRefines, SameLedger DEF SafeInv
<1>4. QED
  BY <1>2, <1>3 DEF Next

\* What a client names by an idempotency key of the invoice is attempted, charged and
\* resolved once, whatever becomes of the invoice beside it and whatever versions
\* clients guess.
THEOREM SystemImplementsLedger == Spec => ImplementsLedger
<1>1. Init => P!Ledger!Init
  BY DEF Init, P!NothingPaid, P!Ledger!Init, P!LedgerEntry, P!LedgerVerdict, P!Slots,
     P!EntryOf, P!VerdictOf
<1>2. SafeInv /\ [Next]_vars => [P!Ledger!Next]_<<P!LedgerEntry, P!LedgerVerdict>>
  BY NextLedger
<1>3. QED
  BY <1>1, <1>2, SafeInvariance, PTL
     DEF Spec, ImplementsLedger, P!ImplementsLedger, P!Ledger!Spec

-----------------------------------------------------------------------------
(* The versions before the payment.                                        *)

\* After a claim only a finalization wins.
LEMMA LateWins ==
  ASSUME PayInv, LifeInv, Claimed, CallStep, NEW c \in Calls, L!Won(c)'
  PROVE  (L!Won(c) /\ call'[c] = call[c]) \/ call'[c].op = "finalize"
<1>a. state \notin {"absent", "draft"}
  BY DEF LifeInv, LP!DraftInv
<1>b. pc \in [Calls -> LP!Pcs]
  BY DEF LifeInv, LP!TypeOK
<1> USE DEF L!Won, L!Goto, L!EditPcs
<1>1. ASSUME NEW w \in Calls, L!Send(w) PROVE L!Won(c) /\ call'[c] = call[c]
  <2>1. c # w
    BY <1>b, <1>1 DEF L!Send
  <2>2. call'[c] = call[c]
    BY <1>1, <2>1 DEF L!Send, LifeInv, LP!TypeOK
  <2>3. QED
    BY <1>b, <1>1, <2>1, <2>2 DEF L!Send
<1>2. ASSUME NEW w \in Calls, L!EditBump(w) \/ L!CreateInvoice PROVE FALSE
  BY <1>a, <1>2 DEF L!EditBump, L!CreateInvoice
<1>3. ASSUME NEW w \in Calls, L!VoidUpdate(w) PROVE FALSE
  BY <1>a, <1>3 DEF L!VoidUpdate, LifeInv, LP!DraftInv, L!Current, LP!Current
<1>4. ASSUME NEW w \in Calls, L!FinalizeUpdate(w)
      PROVE  (L!Won(c) /\ call'[c] = call[c]) \/ call'[c].op = "finalize"
  BY <1>b, <1>4 DEF L!FinalizeUpdate
<1>5. ASSUME NEW w \in Calls,
             \/ L!EditConflict(w) \/ L!EditSelect(w) \/ L!EditDueDate(w) \/ L!EditKeepItems(w)
             \/ L!EditReply(w) \/ L!DeleteStart(w) \/ L!DeleteEnd(w) \/ L!EditCommit(w)
             \/ L!EditAborted(w)
      PROVE  L!Won(c) /\ call'[c] = call[c]
  BY <1>b, <1>5 DEF L!EditConflict, L!EditSelect, L!EditDueDate, L!EditKeepItems, L!EditReply,
     L!DeleteStart, L!DeleteEnd, L!EditCommit, L!EditAborted, L!Sent
<1>6. ASSUME NEW w \in Calls,
             L!Get(w) \/ L!FinalizeSelect(w) \/ L!VoidSelect(w) \/ L!UpdateConflict(w)
      PROVE  L!Won(c) /\ call'[c] = call[c]
  BY <1>b, <1>6 DEF L!Get, L!GetRow, L!GetItems, L!FinalizeSelect, L!VoidSelect,
     L!UpdateConflict
<1>7. CASE L!CreateInvoice
  BY <1>a, <1>7 DEF L!CreateInvoice
<1>8. QED
  BY <1>1, <1>2, <1>3, <1>4, <1>5, <1>6, <1>7
     DEF CallStep, L!Service, L!Edit, L!Finalize, L!Void

\* A claim takes the version every winner is below, and finds a finalization among them.
LEMMA NextFinalized ==
  ASSUME PayInv, LifeInv, FinalizedBeforePaid, [Next]_vars PROVE FinalizedBeforePaid'
<1>0. \A f \in Calls : L!EndsDraft(f) => L!EndsDraft(f)' /\ call'[f] = call[f]
  BY EndsStay
<1>a. req' = req
  BY ClaimsStay
<1>1. ASSUME \A r \in Requests : attempt'[r] # "none" => attempt[r] # "none",
             Claimed => \A c \in Calls : L!Won(c)' =>
               (L!Won(c) /\ call'[c] = call[c]) \/ call'[c].op = "finalize"
      PROVE  FinalizedBeforePaid'
  BY <1>0, <1>a, <1>1 DEF FinalizedBeforePaid, Claimed
<1>2. CASE CallStep
  BY <1>1, <1>2, LateWins DEF CallStep, payVars
<1>3. ASSUME call' = call, pc' = pc PROVE \A c \in Calls : L!Won(c)' <=> L!Won(c)
  BY <1>3 DEF L!Won
<1>4. ASSUME PayStep, NEW r \in Requests, ClaimEffect(r) PROVE FinalizedBeforePaid'
  <2>1. call' = call /\ pc' = pc /\ ver = req[r].versioning /\ state = "open"
        /\ \A s \in Requests : attempt'[s] # "none" => s = r \/ attempt[s] # "none"
    BY <1>4 DEF PayStep, callVars, ClaimEffect, PayInv
  <2>2. \A c \in Calls : L!Won(c) => call[c].versioning < req[r].versioning
    BY <2>1 DEF LifeInv, LP!VersionInv, LP!Won, L!Won, LP!EditPcs, L!EditPcs
  <2>3. \E f \in Calls : /\ L!EndsDraft(f) /\ call[f].op = "finalize"
                         /\ call[f].versioning < req[r].versioning
    BY <2>1, <2>2 DEF LifeInv, LP!DraftInv, LP!PaymentStates, LP!EndsDraft, L!EndsDraft, LP!Won,
       L!Won, LP!EditPcs, L!EditPcs
  <2>4. QED
    BY <1>0, <1>3, <1>a, <2>1, <2>2, <2>3 DEF FinalizedBeforePaid
<1>5. CASE PayStep
  <2>1. \A c \in Calls : (L!Won(c)' <=> L!Won(c)) /\ call'[c] = call[c]
    BY <1>3, <1>5 DEF PayStep, callVars
  <2>2. CASE \E r \in Requests : ClaimEffect(r)
    BY <1>4, <1>5, <2>2
  <2>3. CASE attempt' = attempt \/ \E r \in Requests : SettleEffect(r)
    BY <1>1, <2>1, <2>3 DEF SettleEffect, PayInv
  <2>4. QED
    BY <1>5, <2>2, <2>3, PayEffects, PayStepIsNext
<1>6. CASE UNCHANGED vars
  BY <1>1, <1>3, <1>6 DEF vars, callVars, payVars
<1>7. QED
  BY <1>2, <1>5, <1>6 DEF Next

\* A payment is claimed with a later version in hand than some finalization that won,
\* than every voiding that won and than every edit let in, whatever versions clients
\* guess.
THEOREM PaidAfterFinalization == Spec => []FinalizedBeforePaid
<1>1. Init => FinalizedBeforePaid
  BY DEF Init, P!NothingPaid, FinalizedBeforePaid
<1>2. PayInv /\ LifeInv /\ FinalizedBeforePaid /\ [Next]_vars => FinalizedBeforePaid'
  BY NextFinalized
<1>3. QED
  BY <1>1, <1>2, InitPayInv, NextPayInv, LifeInvariance, PTL DEF Spec
=============================================================================
