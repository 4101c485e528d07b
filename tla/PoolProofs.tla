----------------------------- MODULE PoolProofs -----------------------------
(***************************************************************************)
(* Who can lock out whom, for any number of tasks and connections.  The    *)
(* proof reads off each program in which order it locks rows; what a task  *)
(* holds then tells what it can still wait for, and three links of a chain *)
(* of waiting tasks lead to the two edits.                                 *)
(***************************************************************************)
EXTENDS ConnectionPool, FiniteSetTheorems, TLAPS

-----------------------------------------------------------------------------
(* The order of locks.                                                     *)

\* What follows a lock in program p.
Order(p, isEdit) ==
  /\ Len(p) \in Nat \ {0}
  /\ p[Len(p)] = "put"
  /\ \A i \in 1..Len(p) :
       /\ p[i] \in Rows \cup {"get", "put", "http"}
       /\ p[i] \in Rows => i + 1 \in 1..Len(p)
       /\ p[i] = "attempt" => p[i + 1] = "invoice" /\ ~isEdit
       /\ p[i] = "key" => p[i + 1] = "put"
       /\ p[i] = "invoice" => p[i + 1] \in {"key", "put"} \/ (isEdit /\ i = 7)
       /\ p[i] = "items" => isEdit /\ i = 8
  /\ isEdit => Len(p) = 10 /\ p[8] = "items" /\ p[9] = "invoice" /\ p[10] = "put"

\* The pay handler locks attempt, invoice, key row, in this order.
LEMMA PayOrder == Order(Pay, FALSE)
<1>1. Len(Pay) = 12
  BY DEF Pay
<1>2. /\ Pay[1] = "get" /\ Pay[2] = "put" /\ Pay[3] = "get" /\ Pay[4] = "invoice"
      /\ Pay[5] = "key" /\ Pay[6] = "put" /\ Pay[7] = "http" /\ Pay[8] = "get"
      /\ Pay[9] = "attempt" /\ Pay[10] = "invoice" /\ Pay[11] = "key" /\ Pay[12] = "put"
  BY DEF Pay
<1>3. \A i \in 1..12 : i \in {1, 2, 3, 4, 5, 6, 7, 8, 9, 10, 11, 12}
  OBVIOUS
<1>4. QED
  BY <1>1, <1>2, <1>3 DEF Order, Rows

\* So does the payment worker, as far as it goes.
LEMMA TickOrder == Order(Tick, FALSE)
<1>1. Len(Tick) = 9
  BY DEF Tick
<1>2. /\ Tick[1] = "get" /\ Tick[2] = "put" /\ Tick[3] = "http" /\ Tick[4] = "get"
      /\ Tick[5] = "attempt" /\ Tick[6] = "invoice" /\ Tick[7] = "put"
      /\ Tick[8] = "get" /\ Tick[9] = "put"
  BY DEF Tick
<1>3. \A i \in 1..9 : i \in {1, 2, 3, 4, 5, 6, 7, 8, 9}
  OBVIOUS
<1>4. QED
  BY <1>1, <1>2, <1>3 DEF Order, Rows

\* An edit locks the invoice if it moves the due date, the line items, and the invoice again.
LEMMA EditOrder == Order(Edit, TRUE)
<1>1. Len(Edit) = 10
  BY DEF Edit
<1>2. /\ Edit[1] = "get" /\ Edit[2] = "put" /\ Edit[3] = "get" /\ Edit[4] = "invoice"
      /\ Edit[5] = "put" /\ Edit[6] = "get" /\ Edit[7] = "invoice" /\ Edit[8] = "items"
      /\ Edit[9] = "invoice" /\ Edit[10] = "put"
  BY DEF Edit
<1>3. \A i \in 1..10 : i \in {1, 2, 3, 4, 5, 6, 7, 8, 9, 10}
  OBVIOUS
<1>4. QED
  BY <1>1, <1>2, <1>3 DEF Order, Rows

\* Finalize and void lock the invoice only.
LEMMA UpdateOrder == Order(Update, FALSE)
<1>1. /\ Len(Update) = 5 /\ Update[1] = "get" /\ Update[2] = "put" /\ Update[3] = "get"
      /\ Update[4] = "invoice" /\ Update[5] = "put"
  BY DEF Update
<1>2. \A i \in 1..5 : i \in {1, 2, 3, 4, 5}
  OBVIOUS
<1>3. QED
  BY <1>1, <1>2 DEF Order, Rows

\* The webhook worker locks its delivery only.
LEMMA DeliverOrder == Order(Deliver, FALSE)
<1>1. /\ Len(Deliver) = 5 /\ Deliver[1] = "get" /\ Deliver[2] = "put"
      /\ Deliver[3] = "http" /\ Deliver[4] = "get" /\ Deliver[5] = "put"
  BY DEF Deliver
<1>2. \A i \in 1..5 : i \in {1, 2, 3, 4, 5}
  OBVIOUS
<1>3. QED
  BY <1>1, <1>2 DEF Order, Rows

\* Only edits may lock against the order.
LEMMA ProgramOrder == ASSUME NEW k \in Kinds PROVE Order(Program[k], k = "edit")
<1>1. Program["pay"] = Pay /\ Program["tick"] = Tick /\ Program["edit"] = Edit
      /\ Program["update"] = Update /\ Program["deliver"] = Deliver
  BY DEF Program
<1>2. k \in {"pay", "tick", "edit", "update", "deliver"}
  BY DEF Kinds, Program
<1>3. CASE k = "edit"
  BY <1>1, <1>3, EditOrder DEF Order
<1>4. CASE k # "edit"
  BY <1>1, <1>2, <1>4, PayOrder, TickOrder, UpdateOrder, DeliverOrder DEF Order
<1>5. QED
  BY <1>3, <1>4

-----------------------------------------------------------------------------
(* Types.                                                                  *)

\* Where tasks are, and the rows they hold.
PlaceOK ==
  /\ kind \in [Tasks -> Kinds]
  /\ mine \in [Tasks -> Tasks]
  /\ at \in [Tasks -> Nat]
  /\ \A t \in Tasks : at[t] \in 1..(Len(Program[kind[t]]) + 1)
  /\ held \in [Tasks -> SUBSET Rows]

\* The programs' lengths.
LEMMA Lengths == ASSUME PlaceOK, NEW t \in Tasks PROVE Len(Program[kind[t]]) \in Nat \ {0}
  BY ProgramOrder DEF PlaceOK, Order

\* A task that has not ended is at a step of its program.
LEMMA StepOK ==
  ASSUME PlaceOK, NEW t \in Tasks, Step(t) # "end"
  PROVE  at[t] \in 1..Len(Program[kind[t]]) /\ Step(t) = Program[kind[t]][at[t]]
  BY Lengths DEF PlaceOK, Step, Ended

\* What a step does to places and rows held.
Moves(t) ==
  /\ at' = [at EXCEPT ![t] = @ + 1]
  /\ Step(t) # "end"
  /\ \/ Step(t) = "put" /\ held' = [held EXCEPT ![t] = {}]
     \/ Step(t) \in {"get", "http"} \cup Rows /\ held' = held
     \/ /\ Step(t) \in Rows
        /\ \A u \in Tasks : ~WaitsFor(t, u)
        /\ held' = [held EXCEPT ![t] = @ \cup {Step(t)}]
Quits(t) ==
  /\ at' = [at EXCEPT ![t] = Len(Program[kind[t]]) + 1]
  /\ held' = [held EXCEPT ![t] = {}]

\* A step of the system moves one task on, ends one, or moves none.
LEMMA Steps ==
  ASSUME [Next]_vars
  PROVE  /\ kind' = kind /\ mine' = mine
         /\ \/ at' = at /\ held' = held
            \/ \E t \in Tasks : Moves(t) \/ Quits(t)
<1>1. ASSUME NEW t \in Tasks, Work(t) \/ Skip(t) \/ Http(t)
      PROVE kind' = kind /\ mine' = mine /\ Moves(t)
  BY <1>1 DEF Work, Acquire, Lock, Release, Skip, Http, Advance, GiveBack, Moves, Rows
<1>2. ASSUME NEW t \in Tasks, Leave(t) \/ DeadlockAbort(t)
      PROVE kind' = kind /\ mine' = mine /\ Quits(t)
  BY <1>2 DEF Leave, DeadlockAbort, Over, GiveBack, Quits
<1>3. QED
  BY <1>1, <1>2 DEF Next, vars

\* Tasks begin at their first step with no row.
LEMMA InitPlaceOK == Init => PlaceOK
  BY ProgramOrder DEF Init, PlaceOK, Order

\* Tasks stay within their programs.
LEMMA NextPlaceOK == PlaceOK /\ [Next]_vars => PlaceOK'
<1> SUFFICES ASSUME PlaceOK, [Next]_vars PROVE PlaceOK'
  OBVIOUS
<1>1. kind' = kind /\ mine' = mine
  BY Steps
<1>2. CASE at' = at /\ held' = held
  BY <1>1, <1>2 DEF PlaceOK
<1>3. ASSUME NEW t \in Tasks, Moves(t) PROVE PlaceOK'
  <2>1. at[t] + 1 \in 1..(Len(Program[kind[t]]) + 1)
    BY <1>3, StepOK, Lengths DEF Moves
  <2>2. held' \in [Tasks -> SUBSET Rows]
    <3>1. ASSUME NEW h \in SUBSET Rows PROVE [held EXCEPT ![t] = h] \in [Tasks -> SUBSET Rows]
      BY DEF PlaceOK
    <3>2. {} \in SUBSET Rows /\ (Step(t) \in Rows => held[t] \cup {Step(t)} \in SUBSET Rows)
      BY DEF PlaceOK
    <3>3. \/ held' = held
          \/ held' = [held EXCEPT ![t] = {}]
          \/ held' = [held EXCEPT ![t] = held[t] \cup {Step(t)}] /\ Step(t) \in Rows
      BY <1>3 DEF Moves
    <3>4. QED
      BY <3>1, <3>2, <3>3 DEF PlaceOK
  <2>3. at' \in [Tasks -> Nat] /\ \A u \in Tasks : at'[u] = IF u = t THEN at[t] + 1 ELSE at[u]
    BY <1>3 DEF PlaceOK, Moves
  <2>4. QED
    BY <1>1, <2>1, <2>2, <2>3 DEF PlaceOK
<1>4. ASSUME NEW t \in Tasks, Quits(t) PROVE PlaceOK'
  BY <1>1, <1>4, Lengths DEF PlaceOK, Quits
<1>5. QED
  BY <1>2, <1>3, <1>4, Steps

-----------------------------------------------------------------------------
(* What a task holds and where it then is.                                 *)

HeldInv ==
  \A t \in Tasks :
    /\ Ended(t) => held[t] = {}
    /\ "key" \in held[t] => Step(t) = "put"
    /\ "attempt" \in held[t] => kind[t] # "edit" /\ Step(t) \in {"invoice", "key", "put"}
    /\ "items" \in held[t] => kind[t] = "edit" /\ at[t] \in {9, 10}
    /\ "invoice" \in held[t] =>
         Step(t) \in {"key", "put"} \/ (kind[t] = "edit" /\ at[t] \in {8, 9, 10})

\* No row has two holders.
Exclusive ==
  \A t, u \in Tasks : \A x \in Rows :
    t # u /\ x \in held[t] /\ x \in held[u] => ~SameRow(t, u, x)

LockInv == PlaceOK /\ HeldInv /\ Exclusive

\* No row is locked at first.
LEMMA InitLockInv == Init => LockInv
  BY InitPlaceOK DEF LockInv, Init, HeldInv, Exclusive

\* A lock is only given when nobody holds the row.
LEMMA NextExclusive == PlaceOK /\ Exclusive /\ [Next]_vars => Exclusive'
<1> SUFFICES ASSUME PlaceOK, Exclusive, [Next]_vars PROVE Exclusive'
  OBVIOUS
<1>1. kind' = kind /\ mine' = mine
  BY Steps
<1>2. ASSUME NEW t \in Tasks, NEW x \in Rows, \A u \in Tasks : ~WaitsFor(t, u),
             x = Step(t), held' = [held EXCEPT ![t] = @ \cup {x}]
      PROVE Exclusive'
  <2>1. \A u \in Tasks : SameRow(t, u, x)' = SameRow(t, u, x)
                        /\ SameRow(u, t, x)' = SameRow(t, u, x)
    BY <1>1 DEF SameRow
  <2>2. \A u \in Tasks : u # t /\ x \in held[u] => ~SameRow(t, u, x)
    BY <1>2 DEF WaitsFor
  <2>3. ASSUME NEW u \in Tasks, NEW v \in Tasks, NEW y \in Rows, u # v,
               y \in held'[u], y \in held'[v]
        PROVE  ~SameRow(u, v, y)'
    <3>1. CASE y \in held[u] /\ y \in held[v]
      BY <1>1, <2>3, <3>1 DEF Exclusive, SameRow
    <3>2. CASE u = t /\ y = x
      BY <1>2, <2>1, <2>2, <2>3, <3>2 DEF PlaceOK
    <3>3. CASE v = t /\ y = x
      BY <1>2, <2>1, <2>2, <2>3, <3>3 DEF PlaceOK
    <3>4. QED
      BY <1>2, <2>3, <3>1, <3>2, <3>3 DEF PlaceOK
  <2>4. QED
    BY <2>3 DEF Exclusive
<1>3. ASSUME NEW t \in Tasks, held' = [held EXCEPT ![t] = {}] PROVE Exclusive'
  BY <1>1, <1>3 DEF PlaceOK, Exclusive, SameRow
<1>4. CASE held' = held
  BY <1>1, <1>4 DEF Exclusive, SameRow
<1>5. QED
  BY <1>2, <1>3, <1>4, Steps DEF Moves, Quits

\* What a task holds follows from where it is.
LEMMA NextHeldInv == PlaceOK /\ HeldInv /\ [Next]_vars => HeldInv'
<1> SUFFICES ASSUME PlaceOK, HeldInv, [Next]_vars PROVE HeldInv'
  OBVIOUS
<1>1. kind' = kind /\ mine' = mine
  BY Steps
<1>2. CASE at' = at /\ held' = held
  BY <1>1, <1>2 DEF HeldInv, Step, Ended
<1>3. ASSUME NEW t \in Tasks, Moves(t) PROVE HeldInv'
  <2>1. ASSUME NEW u \in Tasks \ {t}
        PROVE  held'[u] = held[u] /\ at'[u] = at[u] /\ Step(u)' = Step(u) /\ Ended(u)' = Ended(u)
    BY <1>1, <1>3 DEF PlaceOK, Moves, Step, Ended
  <2>2. /\ at'[t] = at[t] + 1 /\ at[t] \in 1..Len(Program[kind[t]])
        /\ Step(t) = Program[kind[t]][at[t]]
    BY <1>3, StepOK DEF PlaceOK, Moves
  <2>3. Order(Program[kind[t]], kind[t] = "edit") /\ Len(Program[kind[t]]) \in Nat
    BY ProgramOrder, Lengths DEF PlaceOK
  <2>4. CASE held'[t] = {}
    BY <1>1, <2>1, <2>4 DEF HeldInv
  <2>5. CASE held'[t] # {}
    <3>1. held'[t] \subseteq held[t] \cup ({Step(t)} \cap Rows)
      BY <1>3 DEF Moves, PlaceOK
    <3>a. kind[t] = "edit" /\ at[t] \in {8, 9, 10} => Step(t) \in {"items", "invoice", "put"}
      BY <2>2, <2>3 DEF Order
    <3>b. held[t] # {} => Step(t) \in {"attempt", "invoice", "items", "key", "put"}
      BY <3>a DEF HeldInv, PlaceOK, Rows
    <3>c. Step(t) # "put"
      BY <1>3, <2>5 DEF Moves, PlaceOK, Rows
    <3>2. Step(t) # "put" /\ Step(t) \in Rows
      BY <2>5, <3>1, <3>b, <3>c DEF Rows
    <3>3. at[t] + 1 \in 1..Len(Program[kind[t]])
      BY <2>2, <2>3, <3>2 DEF Order
    <3>4. ~Ended(t)'
      BY <1>1, <2>2, <2>3, <3>3 DEF Ended
    <3>5. Step(t)' = Program[kind[t]][at[t] + 1]
      BY <1>1, <2>2, <3>4 DEF Step
    <3>6. /\ Step(t) = "attempt" => Step(t)' = "invoice" /\ kind[t] # "edit"
          /\ Step(t) = "key" => Step(t)' = "put"
          /\ Step(t) = "invoice" =>
               Step(t)' \in {"key", "put"} \/ (kind[t] = "edit" /\ at[t] = 7)
          /\ Step(t) = "items" => kind[t] = "edit" /\ at[t] = 8
          /\ kind[t] = "edit" /\ at[t] = 10 => Step(t) = "put"
      BY <2>2, <2>3, <3>5 DEF Order
    <3>7. /\ "key" \in held'[t] => Step(t)' = "put"
          /\ "attempt" \in held'[t] =>
               kind[t] # "edit" /\ Step(t)' \in {"invoice", "key", "put"}
      BY <3>1, <3>2, <3>6 DEF HeldInv, Rows
    <3>8. "items" \in held'[t] => kind[t] = "edit" /\ at'[t] \in {9, 10}
      BY <2>2, <3>1, <3>2, <3>6 DEF HeldInv
    <3>9. "invoice" \in held'[t] =>
            Step(t)' \in {"key", "put"} \/ (kind[t] = "edit" /\ at'[t] \in {8, 9, 10})
      BY <2>2, <3>1, <3>2, <3>6 DEF HeldInv
    <3>10. QED
      BY <1>1, <2>1, <3>4, <3>7, <3>8, <3>9 DEF HeldInv
  <2>6. QED
    BY <2>4, <2>5
<1>4. ASSUME NEW t \in Tasks, Quits(t) PROVE HeldInv'
  BY <1>1, <1>4 DEF PlaceOK, HeldInv, Quits, Step, Ended
<1>5. QED
  BY <1>2, <1>3, <1>4, Steps

\* The invariant the theorem follows from.
THEOREM LocksInOrder == Spec => []LockInv
<1>1. LockInv /\ [Next]_vars => LockInv'
  BY NextPlaceOK, NextHeldInv, NextExclusive DEF LockInv
<1>2. QED
  BY <1>1, InitLockInv, PTL DEF Spec

-----------------------------------------------------------------------------
(* The pool.                                                               *)

BusyInv == busy \subseteq Tasks /\ IsFiniteSet(busy) /\ Cardinality(busy) <= Connections

\* Connections are only given out while there are some.
LEMMA NextBusyInv == BusyInv /\ [Next]_vars => BusyInv'
<1> SUFFICES ASSUME BusyInv, [Next]_vars PROVE BusyInv'
  OBVIOUS
<1>0. Cardinality(busy) \in Nat
  BY FS_CardinalityType DEF BusyInv
<1>1. ASSUME NEW t \in Tasks, Acquire(t) PROVE BusyInv'
  <2>1. IsFiniteSet(busy') /\ Cardinality(busy') <= Cardinality(busy) + 1
    BY <1>0, <1>1, FS_AddElement DEF BusyInv, Acquire
  <2>2. QED
    BY <1>0, <1>1, <2>1, FS_CardinalityType, ConnectionsAssumption DEF BusyInv, Acquire
<1>2. ASSUME NEW t \in Tasks, busy' = busy \ {t} PROVE BusyInv'
  <2>1. IsFiniteSet(busy') /\ Cardinality(busy') <= Cardinality(busy)
    BY <1>0, <1>2, FS_RemoveElement DEF BusyInv
  <2>2. QED
    BY <1>0, <1>2, <2>1, FS_CardinalityType, ConnectionsAssumption DEF BusyInv
<1>3. CASE busy' = busy
  BY <1>3 DEF BusyInv
<1>4. QED
  BY <1>1, <1>2, <1>3 DEF Next, Work, Lock, Release, Skip, Http, Leave, DeadlockAbort,
                          Over, GiveBack, vars

\* Every variable keeps its type, and no more tasks have a connection than the pool has
\* connections.
THEOREM TypeCorrect == Spec => []TypeOK
<1>1. Init => BusyInv
  BY FS_EmptySet, ConnectionsAssumption DEF Init, BusyInv
<1>2. PlaceOK /\ BusyInv => TypeOK
  BY DEF PlaceOK, BusyInv, TypeOK
<1>3. LockInv => PlaceOK
  BY DEF LockInv
<1>4. QED
  BY <1>1, <1>2, <1>3, NextBusyInv, LocksInOrder, PTL DEF Spec

-----------------------------------------------------------------------------
(* Chains of waiting tasks.                                                *)

\* What a waiting task holds tells what it waits for.
LEMMA Links ==
  ASSUME LockInv, NEW S \in SUBSET Tasks, StuckSet(S), NEW t \in S
  PROVE  /\ Step(t) \in {"attempt", "invoice", "items"}
         /\ "invoice" \in held[t] => kind[t] = "edit" /\ Step(t) = "items"
         /\ "items" \in held[t] => kind[t] = "edit" /\ Step(t) = "invoice"
         /\ "attempt" \in held[t] => Step(t) = "invoice"
<1> DEFINE waits(w, u) == u \in S /\ WaitsFor(w, u)
<1>1. \A w \in S : w \in Tasks /\ \E u \in S : waits(w, u)
  BY DEF StuckSet
<1>2. ASSUME NEW w \in S PROVE Step(w) \in Rows /\ "key" \notin held[w]
  BY <1>1, <1>2 DEF WaitsFor, LockInv, HeldInv, PlaceOK, Rows
<1>3. ASSUME NEW w \in S PROVE Step(w) # "key"
  BY <1>1, <1>2, <1>3 DEF WaitsFor
<1>4. Step(t) \in {"attempt", "invoice", "items"}
  BY <1>2, <1>3 DEF Rows
<1>5. ~("invoice" \in held[t] /\ Step(t) = "invoice")
  BY <1>1 DEF WaitsFor, LockInv, Exclusive, SameRow, Rows
<1>6. kind[t] = "edit" /\ at[t] \in {8, 9, 10} =>
        Step(t) = IF at[t] = 8 THEN "items" ELSE IF at[t] = 9 THEN "invoice" ELSE "put"
  <2>1. t \in Tasks /\ kind[t] \in Kinds /\ at[t] \in Nat
    BY <1>1 DEF LockInv, PlaceOK
  <2>2. kind[t] = "edit" => Order(Program[kind[t]], TRUE)
    BY <2>1, ProgramOrder
  <2>3. kind[t] = "edit" =>
          /\ Len(Program[kind[t]]) = 10 /\ Program[kind[t]][8] = "items"
          /\ Program[kind[t]][9] = "invoice" /\ Program[kind[t]][10] = "put"
    BY <2>2 DEF Order
  <2>4. QED
    BY <2>1, <2>3 DEF Step, Ended
<1>7. QED
  BY <1>1, <1>4, <1>5, <1>6 DEF LockInv, HeldInv

\* The two edits at the end of the chain.
LEMMA StuckIsEdits == LockInv => DeadlocksAreEdits
<1> SUFFICES ASSUME LockInv, NEW S \in SUBSET Tasks, StuckSet(S)
             PROVE  \E t, u \in S :
                      /\ kind[t] = "edit" /\ Step(t) = "items" /\ WaitsFor(t, u)
                      /\ kind[u] = "edit" /\ Step(u) = "invoice" /\ WaitsFor(u, t)
  BY DEF DeadlocksAreEdits
<1>1. ASSUME NEW t \in S PROVE t \in Tasks /\ \E u \in S : WaitsFor(t, u)
  BY DEF StuckSet
<1>2. \E t \in S : Step(t) = "items"
  <2>1. PICK a \in S : TRUE
    BY DEF StuckSet
  <2>2. PICK b \in S : WaitsFor(a, b)
    BY <1>1
  <2>3. PICK c \in S : WaitsFor(b, c)
    BY <1>1
  <2>4. QED
    BY <2>2, <2>3, Links DEF WaitsFor
<1>3. PICK t \in S : Step(t) = "items"
  BY <1>2
<1>4. PICK u \in S : WaitsFor(t, u)
  BY <1>1
<1>5. kind[u] = "edit" /\ Step(u) = "invoice"
  BY <1>3, <1>4, Links DEF WaitsFor
<1>6. PICK v \in S : WaitsFor(u, v)
  BY <1>1
<1>7. kind[v] = "edit" /\ Step(v) = "items" /\ "invoice" \in held[v]
  BY <1>5, <1>6, Links DEF WaitsFor
<1>8. PICK w \in S : WaitsFor(v, w)
  BY <1>1
<1>9. w = u
  BY <1>1, <1>3, <1>4, <1>7, <1>8 DEF WaitsFor, LockInv, Exclusive, SameRow, Rows
<1>10. QED
  BY <1>5, <1>6, <1>7, <1>8, <1>9

\* Transactions lock each other out only when one edit has the invoice's row and wants
\* the line items another edit has deleted and wants the row.
THEOREM OnlyEditsDeadlock == Spec => []DeadlocksAreEdits
  BY LocksInOrder, StuckIsEdits, PTL
=============================================================================
