---------------------------- MODULE LedgerProofs ----------------------------
(***************************************************************************)
(* Payments implements AttemptLedger, for any constants.                   *)
(***************************************************************************)
EXTENDS PaymentsRefinement, PaymentsProofs

Slot(r) == <<req[r].key, req[r].invoice>>

\* A request names a place of the ledger by its key and invoice.
LEMMA SlotsAreSlots == ASSUME AttemptTypes, NEW r \in Requests PROVE Slot(r) \in Slots
  BY DEF AttemptTypes, RequestShape, Slot, Slots

\* Without key rows the ledger is empty.
LEMMA InitRefines == Init => Ledger!Init
  BY DEF Init, NothingPaid, Ledger!Init, LedgerEntry, LedgerVerdict, Slots, EntryOf, VerdictOf

\* A step that touches one attempt touches one place of the ledger.
LEMMA OnePlace ==
  ASSUME AttemptTypes, KeyInv, NEW r \in Requests, Claimed(r), idem' = idem,
         \A s \in Requests \ {r} : attempt'[s] = attempt[s] /\ psp'[s] = psp[s]
  PROVE  /\ LedgerEntry' = [LedgerEntry EXCEPT ![Slot(r)] = attempt'[r]]
         /\ LedgerVerdict' = [LedgerVerdict EXCEPT ![Slot(r)] = psp'[r]]
         /\ LedgerEntry[Slot(r)] = attempt[r]
         /\ LedgerVerdict[Slot(r)] = psp[r]
<1>1. Slot(r) \in Slots /\ r # NoRow /\ idem[Slot(r)[1]][Slot(r)[2]] = r
  BY SlotsAreSlots, NoRowAssumption DEF Slot, KeyInv, Row
<1>2. \A s \in Slots : s[1] \in Keys /\ s[2] \in Invoices /\ s = <<s[1], s[2]>>
  BY DEF Slots
<1>3. ASSUME NEW s \in Slots, idem[s[1]][s[2]] # NoRow
      PROVE  idem[s[1]][s[2]] \in Requests /\ (idem[s[1]][s[2]] = r => s = Slot(r))
  BY <1>2, <1>3 DEF KeyInv, AttemptTypes, Slot
<1>4. ASSUME NEW s \in Slots
      PROVE  EntryOf(idem[s[1]][s[2]])' = IF s = Slot(r) THEN attempt'[r]
                                          ELSE EntryOf(idem[s[1]][s[2]])
  BY <1>1, <1>3 DEF EntryOf
<1>5. ASSUME NEW s \in Slots
      PROVE  VerdictOf(idem[s[1]][s[2]])' = IF s = Slot(r) THEN psp'[r]
                                            ELSE VerdictOf(idem[s[1]][s[2]])
  BY <1>1, <1>3 DEF VerdictOf
<1>6. LedgerEntry' = [LedgerEntry EXCEPT ![Slot(r)] = attempt'[r]]
  BY <1>1, <1>4 DEF LedgerEntry
<1>7. LedgerVerdict' = [LedgerVerdict EXCEPT ![Slot(r)] = psp'[r]]
  BY <1>1, <1>5 DEF LedgerVerdict
<1>8. QED
  BY <1>1, <1>6, <1>7 DEF LedgerEntry, LedgerVerdict, EntryOf, VerdictOf

\* Without a new row, statuses that stay keep their places.
LEMMA SameEntry == idem' = idem /\ attempt' = attempt => LedgerEntry' = LedgerEntry
  BY DEF LedgerEntry, EntryOf

\* Without a new row, verdicts that stay keep their places.
LEMMA SameVerdict == idem' = idem /\ psp' = psp => LedgerVerdict' = LedgerVerdict
  BY DEF LedgerVerdict, VerdictOf

LedgerStep == [Ledger!Next]_<<LedgerEntry, LedgerVerdict>>

\* A claim opens its place, which was empty.
LEMMA ClaimOpens ==
  ASSUME AttemptInv, NEW r \in Requests, ClaimAttempt(r) PROVE Ledger!Open(Slot(r))
<1> DEFINE t == Slot(r)
<1>1. /\ t \in Slots /\ t[1] = req[r].key /\ t[2] = req[r].invoice
      /\ idem[t[1]][t[2]] = NoRow /\ r # NoRow /\ psp[r] = "none"
      /\ idem' = [idem EXCEPT ![t[1]][t[2]] = r]
      /\ attempt' = [attempt EXCEPT ![r] = "pending"] /\ psp' = psp /\ attempt[r] = "none"
  BY SlotsAreSlots, NoRowAssumption
     DEF AttemptInv, HandlerInv, Claimed, ClaimAttempt, KeyTaken, Row, Slot, pspVars
<1>2. \A s \in Slots : s[1] \in Keys /\ s[2] \in Invoices /\ s = <<s[1], s[2]>>
  BY DEF Slots
<1>3. ASSUME NEW s \in Slots
      PROVE  idem'[s[1]][s[2]] = IF s = t THEN r ELSE idem[s[1]][s[2]]
  BY <1>1, <1>2 DEF AttemptInv, AttemptTypes
<1>4. ASSUME NEW s \in Slots, idem[s[1]][s[2]] # NoRow
      PROVE  idem[s[1]][s[2]] \in Requests \ {r}
  BY <1>1, <1>2, <1>4 DEF AttemptInv, KeyInv, AttemptTypes, Claimed
<1>5. ASSUME NEW s \in Slots
      PROVE  /\ EntryOf(idem[s[1]][s[2]])' = IF s = t THEN "pending"
                                              ELSE EntryOf(idem[s[1]][s[2]])
             /\ VerdictOf(idem[s[1]][s[2]])' = VerdictOf(idem[s[1]][s[2]])
  <2>1. CASE s = t
    BY <1>1, <1>3, <2>1 DEF EntryOf, VerdictOf, AttemptInv, AttemptTypes
  <2>2. CASE s # t
    BY <1>1, <1>3, <1>4, <2>2 DEF EntryOf, VerdictOf, AttemptInv, AttemptTypes
  <2>3. QED
    BY <2>1, <2>2
<1>6. LedgerEntry' = [LedgerEntry EXCEPT ![t] = "pending"] /\ LedgerEntry[t] = "none"
  BY <1>1, <1>5 DEF LedgerEntry, EntryOf
<1>7. LedgerVerdict' = LedgerVerdict
  BY <1>5 DEF LedgerVerdict
<1>8. QED
  BY <1>6, <1>7 DEF Ledger!Open

\* What handler or worker writes over a pending attempt resolves its place; over a
\* settled one it changes nothing.
LEMMA OutcomeResolves ==
  ASSUME AttemptInv, [Next]_vars, NEW r \in Requests, NEW o \in Outcomes, Claimed(r),
         psp[r] = o, attempt' = [attempt EXCEPT ![r] = o], psp' = psp, idem' = idem
  PROVE  LedgerStep
<1>1. CASE attempt[r] = "pending"
  <2>1. /\ LedgerEntry' = [LedgerEntry EXCEPT ![Slot(r)] = o]
        /\ LedgerEntry[Slot(r)] = "pending" /\ LedgerVerdict[Slot(r)] = o
    BY <1>1, OnePlace DEF AttemptInv, AttemptTypes
  <2>2. Slot(r) \in Slots /\ LedgerVerdict' = LedgerVerdict
    BY SlotsAreSlots, SameVerdict DEF AttemptInv
  <2>3. Ledger!Resolve(Slot(r))
    BY <2>1, <2>2 DEF Ledger!Resolve, Ledger!Outcomes, Outcomes
  <2>4. QED
    BY <2>2, <2>3 DEF LedgerStep, Ledger!Next
<1>2. CASE attempt[r] # "pending"
  <2>1. attempt[r] \in Settled
    BY <1>2 DEF AttemptInv, AttemptTypes, AttemptStates, Claimed
  <2>2. attempt'[r] = attempt[r]
    BY <2>1, OutcomesAreFinal DEF AttemptInv
  <2>3. attempt' = attempt
    BY <2>2 DEF AttemptInv, AttemptTypes
  <2>4. QED
    BY <2>3, SameEntry, SameVerdict DEF LedgerStep
<1>3. QED
  BY <1>1, <1>2

\* Every step of Payments is a step of the ledger, or none.
LEMMA NextRefines == ASSUME AttemptInv, [Next]_vars PROVE LedgerStep
<1>0. AttemptTypes /\ HandlerInv /\ WorkerInv /\ KeyInv
  BY DEF AttemptInv
<1>1. ASSUME NEW r \in Requests, ReplayStored(r) \/ SettleUnknown(r) PROVE LedgerStep
  BY <1>1, SameEntry, SameVerdict
     DEF ReplayStored, SettleUnknown, attemptVars, keyVars, pspVars, LedgerStep
<1>2. ASSUME NEW r \in Requests, ClaimAttempt(r) PROVE LedgerStep
  BY <1>0, <1>2, ClaimOpens, SlotsAreSlots DEF LedgerStep, Ledger!Next
<1>3. ASSUME NEW r \in Requests, SendCharge(r) PROVE LedgerStep
  <2>1. /\ Claimed(r) /\ psp[r] = "none" /\ psp' = [psp EXCEPT ![r] = "charging"]
        /\ attempt' = attempt /\ idem' = idem
    BY <1>0, <1>3 DEF HandlerInv, SendCharge, attemptVars, keyVars
  <2>2. /\ LedgerVerdict' = [LedgerVerdict EXCEPT ![Slot(r)] = "charging"]
        /\ LedgerVerdict[Slot(r)] = "none" /\ LedgerEntry[Slot(r)] # "none"
    BY <1>0, <2>1, OnePlace DEF AttemptTypes, Claimed
  <2>3. Slot(r) \in Slots /\ LedgerEntry' = LedgerEntry
    BY <1>0, <2>1, SlotsAreSlots, SameEntry
  <2>4. QED
    BY <2>2, <2>3 DEF LedgerStep, Ledger!Next, Ledger!Charge
<1>4. ASSUME NEW r \in Requests, PspDecide(r) PROVE LedgerStep
  <2>1. PICK o \in Outcomes \cup {"refused"} : psp' = [psp EXCEPT ![r] = o]
    BY <1>4 DEF PspDecide
  <2>2. /\ Claimed(r) /\ psp[r] = "charging" /\ attempt' = attempt /\ idem' = idem
    BY <1>0, <1>4 DEF HandlerInv, PspDecide, attemptVars, keyVars
  <2>3. /\ LedgerVerdict' = [LedgerVerdict EXCEPT ![Slot(r)] = o]
        /\ LedgerVerdict[Slot(r)] = "charging"
    BY <1>0, <2>1, <2>2, OnePlace DEF AttemptTypes
  <2>4. Slot(r) \in Slots /\ LedgerEntry' = LedgerEntry
    BY <1>0, <2>2, SlotsAreSlots, SameEntry
  <2>5. Ledger!Decide(Slot(r))
    BY <2>3, <2>4 DEF Ledger!Decide, Ledger!Outcomes, Outcomes
  <2>6. QED
    BY <2>4, <2>5 DEF LedgerStep, Ledger!Next
<1>5. ASSUME NEW r \in Requests, NEW o \in Outcomes, NEW s, Settle(r, o, s) PROVE LedgerStep
  BY <1>0, <1>5, OutcomeResolves DEF HandlerInv, Settle, pspVars
<1>6. ASSUME NEW r \in Requests, NEW o \in Outcomes, NEW s, Reconcile(r, o, s)
      PROVE LedgerStep
  <2>1. Claimed(r)
    BY <1>0, <1>6 DEF HandlerInv, Reconcile, Take
  <2>2. QED
    BY <1>6, <2>1, OutcomeResolves DEF Reconcile, keyVars, pspVars
<1>7. ASSUME NEW r \in Requests, Expire(r) PROVE LedgerStep
  <2>1. /\ Claimed(r) /\ attempt[r] = "pending" /\ psp' = psp /\ idem' = idem
        /\ attempt' = [attempt EXCEPT ![r] = "expired"]
    BY <1>0, <1>7 DEF WorkerInv, Expired, Claimed, Expire, keyVars, pspVars
  <2>2. /\ LedgerEntry' = [LedgerEntry EXCEPT ![Slot(r)] = "expired"]
        /\ LedgerEntry[Slot(r)] = "pending"
    BY <1>0, <2>1, OnePlace DEF AttemptTypes
  <2>3. Slot(r) \in Slots /\ LedgerVerdict' = LedgerVerdict
    BY <1>0, <2>1, SlotsAreSlots, SameVerdict
  <2>4. QED
    BY <2>2, <2>3 DEF LedgerStep, Ledger!Next, Ledger!GiveUp
<1>8. CASE Quiet
  BY <1>8, SameEntry, SameVerdict DEF Quiet, LedgerStep
<1>9. QED
  BY <1>0, <1>1, <1>2, <1>3, <1>4, <1>5, <1>6, <1>7, <1>8, Steps
     DEF SettleSucceeded, SettleFailed, ReconcileSucceeded, ReconcileFailed, Outcomes

\* Payments implements the ledger: what a key names on an invoice is attempted
\* once, charged once and resolved once, whatever else happens.
THEOREM PaymentsImplementLedger == Spec => ImplementsLedger
<1>1. IInv /\ [Next]_vars => [Ledger!Next]_<<LedgerEntry, LedgerVerdict>>
  BY NextRefines DEF LedgerStep, IInv
<1>2. QED
  BY <1>1, InitRefines, Invariance, PTL DEF Spec, ImplementsLedger, Ledger!Spec
=============================================================================
