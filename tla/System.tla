------------------------------- MODULE System -------------------------------
(***************************************************************************)
(* One invoice from its creation to its payment: InvoiceLifecycle and      *)
(* Payments run side by side on the same row of invoices.  Payments starts *)
(* from a finalized invoice and InvoiceLifecycle knows payments by what    *)
(* they do to the row; here the calls of services/invoices.rs really       *)
(* compete with the pay handler and the reconciliation worker.             *)
(***************************************************************************)
EXTENDS Naturals, FiniteSets

CONSTANTS
  inv,                                    \* the invoice
  Calls, MaxVersion, Ahead, Created, NoCall,       \* see InvoiceLifecycle
  Asked,                                  \* what the calls may ask, for the model checker
  Keys, Requests, Versions, MaxCrashes, NoRow      \* see Payments

ASSUME BoundsAssumption == MaxVersion \in Nat /\ Ahead \in Nat /\ MaxCrashes \in Nat
ASSUME NamesAssumption ==
  Created \notin Calls /\ NoCall \notin Calls /\ NoRow \notin Requests
ASSUME VersionsAssumption == Versions \subseteq Nat

VARIABLES
  state, ver, total, items, rowLock, call, pc, seen, heard, raced, torn,
  req, at, attempt, waiting, old, idem, body, answer, psp, forgotten, phase, batch,
  spawned, stale, crashes

row == <<state, ver>>
callVars == <<total, items, rowLock, call, pc, seen, heard, raced, torn>>
payVars == <<req, at, attempt, waiting, old, idem, body, answer, psp, forgotten, phase,
             batch, spawned, stale, crashes>>
vars == <<row, callVars, payVars>>

\* Whether a payment of the invoice was ever claimed.
Claimed == \E r \in Requests : attempt[r] # "none"

L == INSTANCE InvoiceLifecycle WITH claimed <- Claimed

P == INSTANCE PaymentsRefinement WITH
       Invoices <- {inv}, OpenVersion <- 2, pc <- at,
       invState <- [i \in {inv} |-> state], invVer <- [i \in {inv} |-> ver]

Init == P!NothingPaid /\ L!Init

\* A client calls the service.
CallStep ==
  /\ UNCHANGED payVars
  /\ L!Service
  /\ call' # call => \E c \in Calls : call'[c] # call[c] /\ call'[c] \in Asked

\* An UPDATE of the invoice row waits for the edit that has locked it.  The expiry's
\* writes the row even when it is "open" already.
WritesRow == row' # row \/ (phase = "expire" /\ attempt' # attempt)

\* Payments can be asked for once the client has the invoice's id.  Handlers and worker
\* may write the row, no other step of Payments does.
PayStep ==
  /\ state # "absent"
  /\ \/ UNCHANGED row /\ P!Next
     \/ /\ state' \in L!PaymentStates
        /\ ver' \in {ver, ver + 1} \cap 0..MaxVersion
        /\ row' # row
        /\ \E r \in Requests : P!Handler(r) \/ P!WorkerOn(r)
  /\ WritesRow => rowLock = NoCall
  /\ UNCHANGED callVars

Next == CallStep \/ PayStep

Spec == Init /\ [][Next]_vars

-----------------------------------------------------------------------------
\* What InvoiceLifecycle assumes of payments is what pay handler, worker and expiry
\* do: every step of the composition is a step of it, or changes nothing it sees.
ImplementsLifecycle == L!Spec

\* Every payment was claimed with a version that is above the version of a finalization
\* that won, of every edit let in and of every voiding that won, whatever versions
\* clients guess.  This is about versions, not about what is paid: an edit let in
\* before the finalization may still change items and total after the payment
\* (ChangesWereLetIn), and a guessed version may finalize the invoice once more.
FinalizedBeforePaid ==
  \A r \in Requests : attempt[r] # "none" =>
    /\ \E f \in Calls : /\ L!EndsDraft(f) /\ call[f].op = "finalize"
                       /\ call[f].versioning < req[r].versioning
    /\ \A c \in Calls : L!Won(c) /\ call[c].op # "finalize" =>
         call[c].versioning < req[r].versioning

\* A finalize or void has won after a payment was claimed.
Reopened ==
  \E c \in Calls, r \in Requests :
    L!EndsDraft(c) /\ attempt[r] # "none" /\ call[c].versioning > req[r].versioning

\* What Payments promises of invoices that are finalized beforehand, it keeps while
\* they are created, edited, finalized and voided beside it, whatever versions clients
\* guess: all of it but the exactness of clean invoices, which a finalization with a
\* guessed version, the one call that can still win then, undoes by opening an
\* invoice that is being paid or has been ...
PaymentsStaySafe ==
  /\ P!OneAttemptPerKey
  /\ P!OneClaimPerVersion
  /\ P!ProcessingHasPending
  /\ P!PaidIsCharged
  /\ P!RecordsTellTheVerdict
  /\ P!AnswersAgree
  /\ P!AnnouncedOnce
  /\ P!CleanInvoiceIsExact \/ Reopened

\* ... and so it does with the ledger: per idempotency key of the invoice one attempt,
\* charged at most once and resolved once, whatever calls are made beside it.
ImplementsLedger == P!ImplementsLedger
=============================================================================
