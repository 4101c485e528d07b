-------------------------- MODULE InvoiceLifecycle --------------------------
(***************************************************************************)
(* The life of an invoice (services/invoices.rs): created, edited, read,   *)
(* finalized, voided, and paid as far as its row shows it.                 *)
(*                                                                         *)
(* Transactions run at the database's default level, READ COMMITTED: each  *)
(* statement sees what was committed when it started, an UPDATE waits for  *)
(* the row's lock and looks at its condition again.  So a transaction is   *)
(* one step per statement up to the one that takes the invoice row's lock. *)
(***************************************************************************)
EXTENDS Naturals, FiniteSets

CONSTANTS
  Calls,        \* get, edit, finalize and void calls on the invoice, each made once
  MaxVersion,   \* bound on the invoice's version, for the model checker
  Ahead,        \* how far ahead of the current version a client may guess
  Created,      \* names the line items the invoice was created with
  NoCall        \* "nobody holds the lock"

ASSUME BoundsAssumption == MaxVersion \in Nat /\ Ahead \in Nat
ASSUME NamesAssumption == Created \notin Calls /\ NoCall \notin Calls

VARIABLES
  state,     \* invoices.state, "absent" before the row exists
  ver,       \* invoices.versioning
  total,     \* invoices.total_cents: whose line items it is the sum of
  items,     \* invoice_line_items: whose line items are there
  rowLock,   \* the edit whose transaction has locked the invoice row
  call,      \* what each call asks
  pc,        \* where it is
  seen,      \* the line items an edit's DELETE or a call's SELECT has found
  heard,     \* the total a call that answers with the stored line items has read
  claimed,   \* whether a payment of the invoice was ever claimed
  raced,     \* history: an edit committed between another's DELETE and its end
  torn       \* history: calls between whose two SELECTs an edit committed

row == <<state, ver, total>>
history == <<raced, torn>>
vars == <<state, ver, total, items, rowLock, call, pc, seen, heard, claimed, raced, torn>>

States == {"draft", "open", "processing", "paid", "void"}
Ops == {"get", "edit", "finalize", "void"}
CallShape == [op : Ops, versioning : Nat, own : BOOLEAN,
              due : {"none", "valid", "past"}, items : BOOLEAN]
Plain(op, v) == [op |-> op, versioning |-> v, own |-> TRUE, due |-> "none", items |-> FALSE]

\* Where an edit is inside its transaction.
EditPcs == {"begin", "due", "items", "deleting", "insert", "reply"}
Pcs == {"idle", "sent", "rows", "got", "update", "done", "refused"} \cup EditPcs

TypeOK ==
  /\ state \in States \cup {"absent"}
  /\ ver \in Nat
  /\ total \in Calls \cup {Created}
  /\ items \subseteq Calls \cup {Created}
  /\ rowLock \in Calls \cup {NoCall}
  /\ call \in [Calls -> CallShape]
  /\ pc \in [Calls -> Pcs]
  /\ seen \in [Calls -> SUBSET (Calls \cup {Created})]
  /\ heard \in [Calls -> Calls \cup {Created}]
  /\ claimed \in BOOLEAN
  /\ raced \in BOOLEAN
  /\ torn \subseteq Calls

Init ==
  /\ state = "absent"
  /\ ver = 0
  /\ total = Created
  /\ items = {}
  /\ rowLock = NoCall
  /\ call = [c \in Calls |-> Plain("void", 0)]
  /\ pc = [c \in Calls |-> "idle"]
  /\ seen = [c \in Calls |-> {}]
  /\ heard = [c \in Calls |-> Created]
  /\ claimed = FALSE
  /\ raced = FALSE
  /\ torn = {}

\* InvoiceState::can_transition_to, without the state nothing ever enters.
CanTransition(from, to) ==
  <<from, to>> \in {<<"draft", "open">>, <<"draft", "void">>, <<"open", "processing">>,
                    <<"processing", "paid">>, <<"open", "void">>}

-----------------------------------------------------------------------------
(* Creation.  The row and its line items are inserted in one transaction;  *)
(* a refused creation leaves nothing behind.                               *)

CreateInvoice ==
  /\ state = "absent"
  /\ state' = "draft"
  /\ ver' = 1
  /\ total' = Created
  /\ items' = {Created}
  /\ UNCHANGED <<rowLock, call, pc, seen, heard, claimed, history>>

Goto(c, label) == pc' = [pc EXCEPT ![c] = label]

\* A client sends a version it has read or, when Ahead allows it, guessed; by the
\* time the call is served the row may have moved on.  An edit asks for a new due
\* date, new line items, both or neither, possibly of another business's invoice.
Send(c) ==
  /\ pc[c] = "idle"
  /\ state # "absent"
  /\ \E v \in 1..ver + Ahead :
       call' \in {[call EXCEPT ![c] = r] :
                   r \in {Plain(op, v) : op \in Ops \ {"edit"}} \cup
                         {q \in [op : {"edit"}, versioning : {v}, own : BOOLEAN,
                                 due : {"none", "valid", "past"}, items : BOOLEAN] :
                            q.own \/ (q.items /\ q.due = "none")}}
  /\ Goto(c, "sent")
  /\ UNCHANGED <<row, items, rowLock, seen, heard, claimed, history>>

Sent(c, op) == pc[c] = "sent" /\ call[c].op = op

\* Mutant of Current: an older version will do.
CurrentOrOlder(c) == ver >= call[c].versioning

Current(c) == ver = call[c].versioning

Bump == ver < MaxVersion /\ ver' = ver + 1

-----------------------------------------------------------------------------
(* GET /invoices/{id}: two statements, no transaction.                     *)

GetRow(c) ==
  /\ Sent(c, "get")
  /\ heard' = [heard EXCEPT ![c] = total]
  /\ Goto(c, "rows")
  /\ UNCHANGED <<row, items, rowLock, call, seen, claimed, history>>

GetItems(c) ==
  /\ pc[c] = "rows"
  /\ seen' = [seen EXCEPT ![c] = items]
  /\ Goto(c, "got")
  /\ UNCHANGED <<row, items, rowLock, call, heard, claimed, history>>

-----------------------------------------------------------------------------
(* PATCH /invoices/{id}                                                    *)

\* The optimistic lock is a statement of its own, committed before the
\* transaction begins, and does not look at the business.
EditBump(c) ==
  /\ Sent(c, "edit")
  /\ rowLock = NoCall
  /\ Current(c)
  /\ state = "draft"
  /\ Bump
  /\ Goto(c, "begin")
  /\ UNCHANGED <<state, total, items, rowLock, call, seen, heard, claimed, history>>

EditConflict(c) ==
  /\ Sent(c, "edit")
  /\ ~(Current(c) /\ state = "draft")
  /\ Goto(c, "refused")
  /\ UNCHANGED <<row, items, rowLock, call, seen, heard, claimed, history>>

\* 404 for another business's invoice, 422 for one no longer a draft.  The
\* SELECT takes no lock.
EditSelect(c) ==
  /\ pc[c] = "begin"
  /\ Goto(c, IF call[c].own /\ state = "draft" THEN "due" ELSE "refused")
  /\ UNCHANGED <<row, items, rowLock, call, seen, heard, claimed, history>>

\* Mutant of EditDueDate: written through the pool, not in the transaction.
EditDueDateApart(c) ==
  /\ pc[c] = "due"
  /\ \/ call[c].due = "past" /\ Goto(c, "refused")
     \/ call[c].due # "past" /\ Goto(c, "items") /\ rowLock = NoCall
  /\ UNCHANGED <<row, items, rowLock, call, seen, heard, claimed, history>>

\* A due date is checked, then written: the write locks the invoice row.
EditDueDate(c) ==
  /\ pc[c] = "due"
  /\ \/ call[c].due = "none" /\ Goto(c, "items") /\ UNCHANGED rowLock
     \/ call[c].due = "past" /\ Goto(c, "refused") /\ UNCHANGED rowLock
     \/ call[c].due = "valid" /\ Goto(c, "items") /\ rowLock = NoCall /\ rowLock' = c
  /\ UNCHANGED <<row, items, call, seen, heard, claimed, history>>

Unlock(c) == rowLock' = IF rowLock = c THEN NoCall ELSE rowLock

\* No line items in the request: the response has the stored ones ...
EditKeepItems(c) ==
  /\ pc[c] = "items"
  /\ ~call[c].items
  /\ seen' = [seen EXCEPT ![c] = items]
  /\ Goto(c, "reply")
  /\ UNCHANGED <<row, items, rowLock, call, heard, claimed, history>>

\* ... and the row read after them, before the commit.
EditReply(c) ==
  /\ pc[c] = "reply"
  /\ heard' = [heard EXCEPT ![c] = total]
  /\ Goto(c, "done")
  /\ Unlock(c)
  /\ UNCHANGED <<row, items, call, seen, claimed, history>>

\* Mutant of DeleteStart: the old line items are never looked for.
DeleteNothing(c) ==
  /\ pc[c] = "items"
  /\ call[c].items
  /\ seen' = [seen EXCEPT ![c] = {}]
  /\ Goto(c, "deleting")
  /\ UNCHANGED <<row, items, rowLock, call, heard, claimed, history>>

\* DELETE FROM invoice_line_items: what it sees is fixed when it starts ...
DeleteStart(c) ==
  /\ pc[c] = "items"
  /\ call[c].items
  /\ seen' = [seen EXCEPT ![c] = items]
  /\ Goto(c, "deleting")
  /\ UNCHANGED <<row, items, rowLock, call, heard, claimed, history>>

\* ... and it waits for whoever has deleted the same rows and not ended yet.
DeleteEnd(c) ==
  /\ pc[c] = "deleting"
  /\ \A d \in Calls : pc[d] = "insert" => seen[d] \cap seen[c] = {}
  /\ Goto(c, "insert")
  /\ UNCHANGED <<row, items, rowLock, call, seen, heard, claimed, history>>

\* A commit comes between the two statements of others.
Overtakes(c) ==
  /\ raced' = (raced \/ \E d \in Calls \ {c} : pc[d] \in {"deleting", "insert"})
  /\ torn' = torn \cup {d \in Calls : pc[d] \in {"rows", "reply"}}

\* Mutant of EditCommit: the line items are replaced, the total is not.
EditCommitItemsOnly(c) ==
  /\ pc[c] = "insert"
  /\ rowLock \in {NoCall, c}
  /\ items' = (items \ seen[c]) \cup {c}
  /\ rowLock' = NoCall
  /\ Overtakes(c)
  /\ Goto(c, "done")
  /\ UNCHANGED <<row, call, seen, heard, claimed>>

\* The inserts, the UPDATE of total_cents and the commit.
EditCommit(c) ==
  /\ pc[c] = "insert"
  /\ rowLock \in {NoCall, c}
  /\ items' = (items \ seen[c]) \cup {c}
  /\ total' = c
  /\ rowLock' = NoCall
  /\ Overtakes(c)
  /\ Goto(c, "done")
  /\ UNCHANGED <<state, ver, call, seen, heard, claimed>>

\* A failed statement, the victim of a deadlock or a dropped request rolls back
\* the transaction, but not the version.
EditAborted(c) ==
  /\ pc[c] \in EditPcs
  /\ Goto(c, "refused")
  /\ Unlock(c)
  /\ UNCHANGED <<row, items, call, seen, heard, claimed, history>>

-----------------------------------------------------------------------------
(* POST /invoices/{id}/finalize                                            *)

\* The state is read without looking at the version ...
FinalizeSelect(c) ==
  /\ Sent(c, "finalize")
  /\ Goto(c, IF CanTransition(state, "open") THEN "update" ELSE "refused")
  /\ UNCHANGED <<row, items, rowLock, call, seen, heard, claimed, history>>

\* Mutant of FinalizeUpdate: the write does not look at the version either.
FinalizeAnyVersion(c) ==
  /\ pc[c] = "update"
  /\ call[c].op = "finalize"
  /\ rowLock = NoCall
  /\ state' = "open"
  /\ Bump
  /\ Goto(c, "done")
  /\ UNCHANGED <<total, items, rowLock, call, seen, heard, claimed, history>>

\* ... and written without looking at the state.
FinalizeUpdate(c) ==
  /\ pc[c] = "update"
  /\ call[c].op = "finalize"
  /\ rowLock = NoCall
  /\ Current(c)
  /\ state' = "open"
  /\ Bump
  /\ Goto(c, "done")
  /\ UNCHANGED <<total, items, rowLock, call, seen, heard, claimed, history>>

(* POST /invoices/{id}/void                                                *)

\* The transition asked about is the one to "open".
VoidTarget == "open"

VoidSelect(c) ==
  /\ Sent(c, "void")
  /\ Goto(c, IF Current(c) /\ CanTransition(state, VoidTarget) THEN "update" ELSE "refused")
  /\ UNCHANGED <<row, items, rowLock, call, seen, heard, claimed, history>>

VoidUpdate(c) ==
  /\ pc[c] = "update"
  /\ call[c].op = "void"
  /\ rowLock = NoCall
  /\ Current(c)
  /\ state' = "void"
  /\ Bump
  /\ Goto(c, "done")
  /\ UNCHANGED <<total, items, rowLock, call, seen, heard, claimed, history>>

\* 409, or the request is dropped and the transaction rolls back.
UpdateConflict(c) ==
  /\ pc[c] = "update"
  /\ Goto(c, "refused")
  /\ UNCHANGED <<row, items, rowLock, call, seen, heard, claimed, history>>

-----------------------------------------------------------------------------
(* What the payments do to the row: Payments has them in full.             *)

PayClaim ==
  /\ state = "open"
  /\ rowLock = NoCall
  /\ state' = "processing"
  /\ Bump
  /\ claimed' = TRUE
  /\ UNCHANGED <<total, items, rowLock, call, pc, seen, heard, history>>

\* Mutant of PaySettle: the attempt's status written for the invoice's.
PaySettleAsAttempt ==
  /\ claimed
  /\ rowLock = NoCall
  /\ state' \in {"paid", "failed"}
  /\ Bump \/ UNCHANGED ver
  /\ UNCHANGED <<total, items, rowLock, call, pc, seen, heard, claimed, history>>

\* Handler and expiry write the state whatever it is by now, the worker only over
\* "processing"; the handler counts the version up, the other two do not.
PaySettle ==
  /\ claimed
  /\ rowLock = NoCall
  /\ state' \in {"paid", "open"}
  /\ Bump \/ UNCHANGED ver
  /\ UNCHANGED <<total, items, rowLock, call, pc, seen, heard, claimed, history>>

Edit(c) ==
  \/ EditBump(c)
  \/ EditConflict(c)
  \/ EditSelect(c)
  \/ EditDueDate(c)
  \/ EditKeepItems(c)
  \/ EditReply(c)
  \/ DeleteStart(c)
  \/ DeleteEnd(c)
  \/ EditCommit(c)
  \/ EditAborted(c)

Get(c) == GetRow(c) \/ GetItems(c)

Finalize(c) == FinalizeSelect(c) \/ FinalizeUpdate(c)

Void(c) == VoidSelect(c) \/ VoidUpdate(c)

Service ==
  \/ CreateInvoice
  \/ \E c \in Calls :
       Send(c) \/ Get(c) \/ Edit(c) \/ Finalize(c) \/ Void(c) \/ UpdateConflict(c)

Next == Service \/ PayClaim \/ PaySettle

Spec == Init /\ [][Next]_vars

-----------------------------------------------------------------------------
\* Whatever edits race, the total is the sum of a list of line items that is
\* there in full: the commit that wrote the total put it there, and every commit
\* that takes it away writes the total anew.
TotalIsBacked == state # "absent" => total \in items

\* The line items are exactly those the total was computed from, unless an edit
\* committed while another's DELETE had already looked.
ItemsMatchUnlessRaced == state # "absent" => items = {total} \/ raced

\* The optimistic lock: an edit that got past its check and a finalize or void
\* that succeeded never had the same version in hand.
Won(c) == pc[c] = "done" \/ pc[c] \in EditPcs
OneWinnerPerVersion ==
  \A c, d \in Calls :
    Won(c) /\ Won(d) /\ call[c].versioning = call[d].versioning => c = d

\* What an invoice is for may still change after it was finalized, voided or paid:
\* the edit's check of the version and its commit are transactions of their own.  But
\* only an edit let in with an older version than the call that ended the draft
\* changes it, whatever versions clients guess.
EndsDraft(c) == Won(c) /\ call[c].op \in {"finalize", "void"}
ChangesWereLetIn ==
  [][state # "absent" /\ <<items, total>>' # <<items, total>> =>
       \E c \in Calls :
         /\ pc[c] = "insert"
         /\ \A f \in Calls :
              EndsDraft(f) => call[c].versioning < call[f].versioning]_vars

\* A read answers with the line items its total was computed from, unless an edit
\* committed between its two statements or edits have raced before.  The answer
\* to an edit that moved the due date is never torn: its transaction has locked
\* the row every other edit writes before it commits.
ReadsMatchUnlessTorn ==
  \A c \in Calls :
    pc[c] = "got" \/ (pc[c] = "done" /\ call[c].op = "edit" /\ ~call[c].items)
      => \/ seen[c] = {heard[c]}
         \/ raced
         \/ c \in torn /\ call[c].due # "valid"

\* The state machine, although no UPDATE of finalize, void or a settlement looks at
\* the state: as long as clients send versions they have read, a finalize or void
\* finds the draft it saw, nothing becomes a draft again or leaves "void", and
\* payments, however late, move the invoice between open, processing and paid.
PaymentStates == {"open", "processing", "paid"}
LegalTransitions ==
  [][state' # state =>
       \/ CanTransition(state, state')
       \/ <<state, state'>> = <<"absent", "draft">>
       \/ claimed /\ {state, state'} \subseteq PaymentStates]_vars

(* Statements of the documentation.                                        *)

\* API_DOC: the total is recomputed from the new items, which replace the old
\* ones wholesale.
ItemsMatchTotal == state # "absent" => items = {total}
=============================================================================
