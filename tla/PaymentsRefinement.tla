------------------------- MODULE PaymentsRefinement -------------------------
(* Payments implements AttemptLedger: the ledger is read off the key rows. *)
EXTENDS Payments

EntryOf(row) == IF row = NoRow THEN "none" ELSE attempt[row]
VerdictOf(row) == IF row = NoRow THEN "none" ELSE psp[row]

Slots == Keys \X Invoices
LedgerEntry == [s \in Slots |-> EntryOf(idem[s[1]][s[2]])]
LedgerVerdict == [s \in Slots |-> VerdictOf(idem[s[1]][s[2]])]

Ledger == INSTANCE AttemptLedger WITH entry <- LedgerEntry, verdict <- LedgerVerdict

\* Whatever handlers, worker, provider, time and crashes do, seen through the key
\* rows it is one attempt per key and invoice, charged once and resolved once.
ImplementsLedger == Ledger!Spec
=============================================================================
