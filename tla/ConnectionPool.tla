--------------------------- MODULE ConnectionPool ---------------------------
(***************************************************************************)
(* The pool of database connections (main.rs) and the row locks of the     *)
(* transactions that run on them.  Requests, both workers and the dispatch *)
(* tasks share the pool; all of them work on one invoice, the case with    *)
(* the most contention.  A task is the list of its steps: take a           *)
(* connection, wait for a row's lock, give connection and locks back (the  *)
(* end of a transaction or of a statement outside one), talk HTTP.         *)
(***************************************************************************)
EXTENDS Naturals, FiniteSets, Sequences

CONSTANTS
  Tasks,         \* requests, a tick of each worker, webhook dispatches
  Connections    \* size of the pool

ASSUME ConnectionsAssumption == Connections \in Nat \ {0}

VARIABLES
  kind,   \* what each task is
  mine,   \* whose attempt it settles: a pay request's own, any for the worker
  at,     \* its next step
  busy,   \* the tasks that have a connection
  held    \* the rows each has locked

vars == <<kind, mine, at, busy, held>>

Rows == {"attempt", "invoice", "items", "key"}

\* Every program begins with statements that lock nothing others write, one or several
\* in a row, such as the request's authentication.  What only reads or inserts
\* (get_invoice, a dispatch, customers, endpoints) is any program that ends there.

\* Mutants of Pay: the provider is called before the claim is committed; the second
\* transaction begins with the invoice.
PayInOneGo ==
  <<"get", "put", "get", "invoice", "key", "http", "put",
    "get", "attempt", "invoice", "key", "put">>

PayInvoiceFirst ==
  <<"get", "put", "get", "invoice", "key", "put", "http",
    "get", "invoice", "attempt", "key", "put">>

\* The claim, the charge, the settlement.
Pay ==
  <<"get", "put", "get", "invoice", "key", "put", "http",
    "get", "attempt", "invoice", "key", "put">>

\* The payment worker on one attempt, to reconcile and announce it or (the same locks)
\* to expire it.
Tick ==
  <<"get", "put", "http", "get", "attempt", "invoice", "put", "get", "put">>

\* The version; then the due date, the line items and the total in a transaction.
Edit ==
  <<"get", "put", "get", "invoice", "put",
    "get", "invoice", "items", "invoice", "put">>

\* Finalize and void.
Update == <<"get", "put", "get", "invoice", "put">>

\* The webhook worker on one delivery.
Deliver == <<"get", "put", "http", "get", "put">>

Program ==
  [pay |-> Pay, tick |-> Tick, edit |-> Edit, update |-> Update, deliver |-> Deliver]

Kinds == DOMAIN Program

Ended(t) == at[t] > Len(Program[kind[t]])
Step(t) == IF Ended(t) THEN "end" ELSE Program[kind[t]][at[t]]

TypeOK ==
  /\ kind \in [Tasks -> Kinds]
  /\ mine \in [Tasks -> Tasks]
  /\ \A t \in Tasks : at[t] \in 1..(Len(Program[kind[t]]) + 1)
  /\ busy \subseteq Tasks
  /\ Cardinality(busy) <= Connections
  /\ held \in [Tasks -> SUBSET Rows]

\* Each worker is one task.
Init ==
  /\ kind \in [Tasks -> Kinds]
  /\ \A t, u \in Tasks : kind[t] = kind[u] /\ kind[t] \in {"tick", "deliver"} => t = u
  /\ mine \in [Tasks -> Tasks]
  /\ \A t \in Tasks :
       IF kind[t] = "tick" THEN kind[mine[t]] \in {"pay", "tick"} ELSE mine[t] = t
  /\ at = [t \in Tasks |-> 1]
  /\ busy = {}
  /\ held = [t \in Tasks |-> {}]

-----------------------------------------------------------------------------
Advance(t) == at' = [at EXCEPT ![t] = @ + 1] /\ UNCHANGED <<kind, mine>>

\* Mutant of Acquire: the pool opens another connection when all are taken.
AcquireAnyway(t) ==
  /\ Step(t) = "get"
  /\ busy' = busy \cup {t}
  /\ Advance(t)
  /\ UNCHANGED held

Acquire(t) ==
  /\ Step(t) = "get"
  /\ Cardinality(busy) < Connections
  /\ busy' = busy \cup {t}
  /\ Advance(t)
  /\ UNCHANGED held

\* Everyone works on the same invoice, its line items and its key row.
SameRow(t, u, row) == row # "attempt" \/ mine[t] = mine[u]

WaitsFor(t, u) ==
  /\ t # u
  /\ Step(t) \in held[u]
  /\ SameRow(t, u, Step(t))

Lock(t) ==
  /\ Step(t) \in Rows
  /\ \A u \in Tasks : ~WaitsFor(t, u)
  /\ held' = [held EXCEPT ![t] = @ \cup {Step(t)}]
  /\ Advance(t)
  /\ UNCHANGED busy

\* Not on this task's path: an edit without a due date or line items, an answer of the
\* provider that is no verdict; or the UPDATE finds no row.
Skip(t) ==
  /\ Step(t) \in Rows
  /\ Advance(t)
  /\ UNCHANGED <<busy, held>>

GiveBack(t) ==
  /\ busy' = busy \ {t}
  /\ held' = [held EXCEPT ![t] = {}]

Release(t) ==
  /\ Step(t) = "put"
  /\ GiveBack(t)
  /\ Advance(t)

\* The provider or the subscriber answers, or the 5 seconds are over.
Http(t) ==
  /\ Step(t) = "http"
  /\ Advance(t)
  /\ UNCHANGED <<busy, held>>

Over(t) ==
  /\ at' = [at EXCEPT ![t] = Len(Program[kind[t]]) + 1]
  /\ GiveBack(t)
  /\ UNCHANGED <<kind, mine>>

\* An early return, a failed statement, the 30 seconds a task waits for a connection
\* or a client that hangs up: the transaction rolls back.
Leave(t) == ~Ended(t) /\ Over(t)

\* A ring of tasks, each waiting for another of them.
Ring(S) ==
  /\ S # {}
  /\ \A t \in S : (\E u \in S : WaitsFor(t, u)) /\ (\E u \in S : WaitsFor(u, t))

\* The database breaks a ring by the abort of one of its transactions.
DeadlockAbort(t) ==
  /\ \E S \in SUBSET Tasks : t \in S /\ Ring(S)
  /\ Over(t)

Work(t) == Acquire(t) \/ Lock(t) \/ Release(t)

Next == \E t \in Tasks : Work(t) \/ Skip(t) \/ Http(t) \/ Leave(t) \/ DeadlockAbort(t)

Spec == Init /\ [][Next]_vars

(***************************************************************************)
(* Pool and database serve their waiters in turn, so none is passed over   *)
(* for ever.  Nothing makes a provider or a subscriber answer: the client  *)
(* of the provider reads its bodies without a timeout.                     *)
(***************************************************************************)
FairSpec ==
  /\ Spec
  /\ \A t \in Tasks : SF_vars(Work(t))
  /\ WF_vars(\E t \in Tasks : DeadlockAbort(t))

-----------------------------------------------------------------------------
\* Transactions can lock each other out only when an edit that has moved the due date
\* wants the line items another edit has deleted, which wants the invoice's row:
\* handlers and workers that settle or claim payments are never the cause.
StuckSet(S) == S # {} /\ \A t \in S : \E u \in S : WaitsFor(t, u)
DeadlocksAreEdits ==
  \A S \in SUBSET Tasks : StuckSet(S) =>
    \E t, u \in S : /\ kind[t] = "edit" /\ Step(t) = "items" /\ WaitsFor(t, u)
                    /\ kind[u] = "edit" /\ Step(u) = "invoice" /\ WaitsFor(u, t)

\* A provider or a subscriber that never answers holds up nobody but the tasks that
\* talk to it: whoever has not ended is talking HTTP again and again, or for ever.
SilenceHoldsUpNobody ==
  \A t \in Tasks : []<>(Ended(t) \/ Step(t) = "http")
=============================================================================
