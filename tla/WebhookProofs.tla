---------------------------- MODULE WebhookProofs ----------------------------
(***************************************************************************)
(* The safety properties of WebhookDelivery hold for any events, endpoints,*)
(* batch sizes and retry limits.                                           *)
(***************************************************************************)
EXTENDS WebhookDelivery, TLAPS

USE BoundsAssumption, NothingAssumption

-----------------------------------------------------------------------------
(* The type invariant.                                                     *)

\* The types, but for the bound on attempt_count, which needs the status.
Types ==
  /\ endpoint \in [Endpoints -> {"absent", "active", "deleted"}]
  /\ task \in [Events -> {"none", "spawned", "inserting", "complete", "dead"}]
  /\ todo \in [Events -> SUBSET Endpoints]
  /\ status \in [Deliveries -> {"none", "pending", "delivered", "failed"}]
  /\ count \in [Deliveries -> Nat]
  /\ due \subseteq Deliveries
  /\ working \in BOOLEAN
  /\ batch \subseteq Deliveries
  /\ posting \in Deliveries \cup {Nothing}
  /\ result \in BOOLEAN
  /\ posts \in [Deliveries -> Nat]
  /\ received \subseteq Deliveries
  /\ lost \in [Deliveries -> Nat]

\* A batch is taken from the rows that are ready.
LEMMA BatchIsReady == SelectBatch => batch' \subseteq Ready
  BY DEF SelectBatch

\* Every step keeps the types.
LEMMA NextTypes == Types /\ [Next]_vars => Types'
<1> SUFFICES ASSUME Types, [Next]_vars PROVE Types'
  OBVIOUS
<1> USE DEF Types, taskVars, rowVars, workerVars, subscriberVars, Record
<1>1. ASSUME NEW p \in Endpoints, CreateEndpoint(p) \/ DeleteEndpoint(p) PROVE Types'
  BY <1>1 DEF CreateEndpoint, DeleteEndpoint
<1>2. ASSUME NEW e \in Events, Spawn(e) \/ DispatchSelect(e) \/ DispatchFailed(e)
      PROVE Types'
  BY <1>2 DEF Spawn, DispatchSelect, DispatchFailed, Subscribed
<1>3. ASSUME NEW e \in Events, NEW p \in Endpoints, DispatchInsert(e, p) PROVE Types'
  BY <1>3 DEF DispatchInsert, Deliveries
<1>4. CASE SelectBatch
  <2>1. batch' \subseteq Deliveries
    BY <1>4, BatchIsReady DEF Ready
  <2>2. working' \in BOOLEAN /\ result' \in BOOLEAN
    BY <1>4, Zenon DEF SelectBatch
  <2>3. QED
    BY <1>4, <2>1, <2>2 DEF SelectBatch
<1>5. ASSUME NEW d \in Deliveries, Post(d) PROVE Types'
  <2>1. working' \in BOOLEAN /\ result' \in BOOLEAN
    BY <1>5, Zenon DEF Post
  <2>2. posts' \in [Deliveries -> Nat]
    BY <1>5 DEF Post
  <2>3. received' \subseteq Deliveries
    BY <1>5 DEF Post
  <2>4. batch' \subseteq Deliveries /\ posting' \in Deliveries \cup {Nothing}
    BY <1>5 DEF Post
  <2>5. QED
    BY <1>5, <2>1, <2>2, <2>3, <2>4, Zenon DEF Post
<1>6. ASSUME NEW d \in Deliveries, RecordDelivered(d) \/ RecordFailed(d) \/ RecordLost(d)
      PROVE Types'
  <2>1. working' \in BOOLEAN /\ result' \in BOOLEAN
    BY <1>6, Zenon DEF RecordDelivered, RecordFailed, RecordLost
  <2>2. /\ count' \in [Deliveries -> Nat]
        /\ lost' \in [Deliveries -> Nat]
        /\ status' \in [Deliveries -> {"none", "pending", "delivered", "failed"}]
        /\ due' \subseteq Deliveries
    BY <1>6 DEF RecordDelivered, RecordFailed, RecordLost
  <2>3. QED
    BY <1>6, <2>1, <2>2, Zenon DEF RecordDelivered, RecordFailed, RecordLost
<1>7. ASSUME NEW d \in Deliveries, RetryDue(d) PROVE Types'
  BY <1>7 DEF RetryDue
<1>8. CASE BatchDone \/ Crash
  <2>1. working' \in BOOLEAN /\ result' \in BOOLEAN
    BY <1>8, Zenon DEF BatchDone, Crash
  <2>2. lost' \in [Deliveries -> Nat]
    BY <1>8 DEF BatchDone, Crash
  <2>3. task' \in [Events -> {"none", "spawned", "inserting", "complete", "dead"}]
    BY <1>8 DEF BatchDone, Crash
  <2>4. QED
    BY <1>8, <2>1, <2>2, <2>3, Zenon DEF BatchDone, Crash
<1>9. CASE UNCHANGED vars
  BY <1>9 DEF vars
<1>10. QED
  BY <1>1, <1>2, <1>3, <1>4, <1>5, <1>6, <1>7, <1>8, <1>9 DEF Next

-----------------------------------------------------------------------------
(* What the dispatch tasks and the worker hold.                            *)

\* A task inserts into rows that do not exist: no other task has its event.
FreshInv ==
  \A e \in Events, p \in Endpoints :
    /\ task[e] \in {"none", "spawned"} => status[<<e, p>>] = "none"
    /\ task[e] = "inserting" /\ p \in todo[e] => status[<<e, p>>] = "none"

\* The worker's rows are pending: only the worker ends a delivery, and it holds
\* each row once.  A POST that succeeded has been received.
HeldInv ==
  /\ \A d \in batch : status[d] = "pending" /\ d # posting
  /\ posting # Nothing => status[posting] = "pending" /\ working
  /\ ~working => batch = {}
  /\ result => posting \in received

\* Posts made are attempts counted, results lost and the result on its way; the
\* count ends at the limit, and with it the delivery.
BudgetInv ==
  \A d \in Deliveries :
    /\ posts[d] <= count[d] + lost[d] + (IF d = posting THEN 1 ELSE 0)
    /\ status[d] \in {"none", "pending"} => count[d] <= LastRetry
    /\ count[d] <= LastRetry + 1
    /\ status[d] = "failed" => count[d] = LastRetry + 1
    /\ status[d] = "delivered" => d \in received

Inv == Types /\ FreshInv /\ HeldInv /\ BudgetInv

\* Every row a task has still to insert is missing.
LEMMA NextFresh == Types /\ HeldInv /\ FreshInv /\ [Next]_vars => FreshInv'
<1> SUFFICES ASSUME Types, HeldInv, FreshInv, [Next]_vars,
                    NEW e \in Events, NEW p \in Endpoints
             PROVE  /\ task'[e] \in {"none", "spawned"} => status'[<<e, p>>] = "none"
                    /\ task'[e] = "inserting" /\ p \in todo'[e] => status'[<<e, p>>] = "none"
  BY DEF FreshInv
<1> DEFINE Goal == /\ task'[e] \in {"none", "spawned"} => status'[<<e, p>>] = "none"
                   /\ task'[e] = "inserting" /\ p \in todo'[e] => status'[<<e, p>>] = "none"
<1>0. <<e, p>> \in Deliveries
  BY DEF Deliveries
<1> USE DEF taskVars, rowVars, workerVars, subscriberVars, Types
<1>1. CASE UNCHANGED <<task, todo, status>>
  BY <1>1 DEF FreshInv
<1>2. ASSUME NEW f \in Events, Spawn(f) \/ DispatchSelect(f) \/ DispatchFailed(f)
      PROVE Goal
  BY <1>2 DEF Spawn, DispatchSelect, DispatchFailed, Subscribed, FreshInv
<1>3. ASSUME NEW f \in Events, NEW q \in Endpoints, DispatchInsert(f, q) PROVE Goal
  BY <1>0, <1>3 DEF DispatchInsert, FreshInv, Deliveries
<1>4. ASSUME NEW d \in Deliveries, RecordDelivered(d) \/ RecordFailed(d) PROVE Goal
  <2>1. status[d] = "pending" /\ d = posting
    BY <1>4 DEF RecordDelivered, RecordFailed, Record, HeldInv
  <2>2. d # <<e, p>> => status'[<<e, p>>] = status[<<e, p>>]
    BY <1>0, <1>4 DEF RecordDelivered, RecordFailed
  <2>3. task' = task /\ todo' = todo
    BY <1>4 DEF RecordDelivered, RecordFailed
  <2>4. QED
    BY <1>0, <2>1, <2>2, <2>3 DEF FreshInv
<1>5. CASE Crash
  BY <1>5 DEF Crash, FreshInv
<1>6. QED
  BY <1>1, <1>2, <1>3, <1>4, <1>5 DEF Next, vars, CreateEndpoint, DeleteEndpoint,
     SelectBatch, Post, RecordLost, RetryDue, BatchDone

\* What the worker holds stays pending until it is recorded.
LEMMA NextHeld == Types /\ FreshInv /\ HeldInv /\ [Next]_vars => HeldInv'
<1> SUFFICES ASSUME Types, FreshInv, HeldInv, [Next]_vars PROVE HeldInv'
  OBVIOUS
<1> USE DEF taskVars, rowVars, workerVars, subscriberVars, Types
<1>1. CASE UNCHANGED <<status, working, batch, posting, result, received>>
  BY <1>1 DEF HeldInv
<1>2. ASSUME NEW e \in Events, NEW p \in Endpoints, DispatchInsert(e, p) PROVE HeldInv'
  <2>1. \A d \in Deliveries : status[d] = "pending" => status'[d] = "pending"
    BY <1>2 DEF DispatchInsert, Deliveries
  <2>2. QED
    BY <1>2, <2>1 DEF DispatchInsert, HeldInv
<1>3. CASE SelectBatch
  <2>1. batch' \subseteq Ready /\ posting = Nothing
    BY <1>3, BatchIsReady DEF SelectBatch, HeldInv
  <2>2. \A d \in batch' : status'[d] = "pending" /\ d # posting'
    BY <1>3, <2>1 DEF SelectBatch, Ready
  <2>3. QED
    BY <1>3, <2>1, <2>2, Zenon DEF SelectBatch, HeldInv
<1>4. ASSUME NEW d \in Deliveries, Post(d) PROVE HeldInv'
  <2>1. result' => d \in received'
    BY <1>4, Zenon DEF Post
  <2>2. posting' = d /\ d \in batch /\ batch' = batch \ {d} /\ status' = status
    BY <1>4 DEF Post
  <2>3. working' /\ (result' => posting' \in received')
    BY <1>4, <2>1, <2>2, Zenon DEF Post
  <2>4. \A c \in batch' : status'[c] = "pending" /\ c # posting'
    BY <2>2 DEF HeldInv
  <2>5. status'[posting'] = "pending"
    BY <2>2 DEF HeldInv
  <2>6. QED
    BY <2>3, <2>4, <2>5, Zenon DEF HeldInv
<1>5. ASSUME NEW d \in Deliveries, RecordDelivered(d) \/ RecordFailed(d) \/ RecordLost(d)
      PROVE HeldInv'
  <2>1. posting' = Nothing /\ ~result' /\ d = posting
    BY <1>5, Zenon DEF RecordDelivered, RecordFailed, RecordLost, Record
  <2>2. batch' = batch /\ working' = working
    BY <1>5, Zenon DEF RecordDelivered, RecordFailed, RecordLost
  <2>3. \A c \in Deliveries : c # d => status'[c] = status[c]
    BY <1>5 DEF RecordDelivered, RecordFailed, RecordLost
  <2>4. \A c \in batch' : status'[c] = "pending" /\ c # posting'
    BY <2>1, <2>2, <2>3 DEF HeldInv
  <2>5. QED
    BY <2>1, <2>2, <2>4, Zenon DEF HeldInv
<1>6. CASE BatchDone
  BY <1>6, Zenon DEF BatchDone, HeldInv
<1>7. CASE Crash
  BY <1>7, Zenon DEF Crash, HeldInv
<1>8. QED
  BY <1>1, <1>2, <1>3, <1>4, <1>5, <1>6, <1>7 DEF Next, vars, CreateEndpoint,
     DeleteEndpoint, Spawn, DispatchSelect, DispatchFailed, RetryDue

\* Every post is paid for.
LEMMA NextBudget == Types /\ FreshInv /\ HeldInv /\ BudgetInv /\ [Next]_vars => BudgetInv'
<1> SUFFICES ASSUME Types, FreshInv, HeldInv, BudgetInv, [Next]_vars PROVE BudgetInv'
  OBVIOUS
<1> USE DEF taskVars, rowVars, workerVars, subscriberVars, Types
<1>1. CASE UNCHANGED <<status, count, posting, posts, received, lost>>
  BY <1>1 DEF BudgetInv
<1>2. ASSUME NEW e \in Events, NEW p \in Endpoints, DispatchInsert(e, p) PROVE BudgetInv'
  <2>1. <<e, p>> \in Deliveries /\ status[<<e, p>>] = "none"
    BY <1>2 DEF DispatchInsert, Deliveries, FreshInv
  <2>2. QED
    BY <1>2, <2>1 DEF DispatchInsert, BudgetInv
<1>3. ASSUME NEW d \in Deliveries, Post(d) PROVE BudgetInv'
  <2>1. received \subseteq received'
    BY <1>3 DEF Post
  <2>2. /\ posting = Nothing /\ posting' = d /\ posts' = [posts EXCEPT ![d] = @ + 1]
        /\ UNCHANGED <<status, count, lost>>
    BY <1>3 DEF Post
  <2>3. QED
    BY <2>1, <2>2 DEF BudgetInv
<1>4. ASSUME NEW d \in Deliveries, RecordDelivered(d) PROVE BudgetInv'
  <2>1. /\ d = posting /\ posting' = Nothing /\ count' = [count EXCEPT ![d] = @ + 1]
        /\ status' = [status EXCEPT ![d] = "delivered"]
        /\ UNCHANGED <<posts, received, lost>>
    BY <1>4 DEF RecordDelivered, Record
  <2>2. d \in received /\ status[d] = "pending"
    BY <1>4, <2>1, Zenon DEF RecordDelivered, HeldInv
  <2>3. QED
    BY <2>1, <2>2 DEF BudgetInv
<1>5. ASSUME NEW d \in Deliveries, RecordFailed(d) PROVE BudgetInv'
  <2>1. /\ d = posting /\ posting' = Nothing /\ count' = [count EXCEPT ![d] = @ + 1]
        /\ status' = [status EXCEPT ![d] = IF count[d] >= LastRetry THEN "failed" ELSE "pending"]
        /\ UNCHANGED <<posts, received, lost>>
    BY <1>5 DEF RecordFailed, Record
  <2>2. status[d] = "pending"
    BY <2>1 DEF HeldInv
  <2>3. QED
    BY <2>1, <2>2 DEF BudgetInv
<1>6. ASSUME NEW d \in Deliveries, RecordLost(d) PROVE BudgetInv'
  BY <1>6 DEF RecordLost, BudgetInv
<1>7. CASE Crash
  BY <1>7 DEF Crash, BudgetInv
<1>8. QED
  BY <1>1, <1>2, <1>3, <1>4, <1>5, <1>6, <1>7 DEF Next, vars, CreateEndpoint,
     DeleteEndpoint, Spawn, DispatchSelect, DispatchFailed, SelectBatch, RetryDue, BatchDone

\* The inductive invariant holds of every reachable state.
LEMMA Inductive == Spec => []Inv
<1>1. Init => Inv
  <2>1. Init => Types
    <3>1. Init => working \in BOOLEAN /\ result \in BOOLEAN
      BY Zenon DEF Init
    <3>2. QED
      BY <3>1 DEF Init, Types
  <2>2. Init => FreshInv /\ BudgetInv
    BY DEF Init, FreshInv, BudgetInv, Deliveries
  <2>3. Init => HeldInv
    BY Zenon DEF Init, HeldInv
  <2>4. QED
    BY <2>1, <2>2, <2>3 DEF Inv
<1>2. Inv /\ [Next]_vars => Inv'
  BY NextTypes, NextFresh, NextHeld, NextBudget DEF Inv
<1>3. QED
  BY <1>1, <1>2, PTL DEF Spec

-----------------------------------------------------------------------------
(* The theorems.                                                           *)

\* Deliveries, dispatch tasks and the worker keep their types, and no
\* attempt_count passes the limit (workers/webhook_worker.rs).
THEOREM TypeCorrect == Spec => []TypeOK
<1>1. Inv => TypeOK
  BY DEF Inv, Types, BudgetInv, TypeOK
<1>2. QED
  BY <1>1, Inductive, PTL

\* A delivery row that says "delivered" was taken by its subscriber: the worker
\* records only an answer it has.
THEOREM DeliveredMeansReceived == Spec => []DeliveredIsReceived
<1>1. Inv => DeliveredIsReceived
  BY DEF Inv, BudgetInv, DeliveredIsReceived
<1>2. QED
  BY <1>1, Inductive, PTL

\* The retry budget of a delivery is spent exactly, whatever is lost and
\* whenever the process crashes.
THEOREM BudgetIsKept == Spec => []RetryBudget
<1>1. Inv => RetryBudget
  <2> SUFFICES ASSUME Inv, NEW d \in Deliveries
               PROVE  /\ posts[d] <= LastRetry + 1 + lost[d]
                      /\ status[d] = "failed" => count[d] = LastRetry + 1
                      /\ count[d] = LastRetry + 1 => status[d] \in {"delivered", "failed"}
    BY DEF RetryBudget
  <2>1. posting = d => status[d] = "pending"
    BY DEF Inv, HeldInv
  <2>2. QED
    BY <2>1 DEF Inv, Types, BudgetInv
<1>2. QED
  BY <1>1, Inductive, PTL

\* A delivery is not posted again once its row says how it ended.
THEOREM EndedStaysEnded == Spec => EndedIsNotPosted
<1>1. Inv /\ [Next]_vars =>
        [\A d \in Deliveries :
           status[d] \in {"delivered", "failed"} => posts'[d] = posts[d]]_vars
  <2> SUFFICES ASSUME Inv, Next, NEW d \in Deliveries, status[d] \in {"delivered", "failed"}
               PROVE  posts'[d] = posts[d]
    OBVIOUS
  <2>1. CASE posts' = posts
    BY <2>1
  <2>2. ASSUME NEW c \in Deliveries, Post(c) PROVE posts'[d] = posts[d]
    BY <2>2 DEF Post, Inv, HeldInv, Types
  <2>3. QED
    BY <2>1, <2>2 DEF Next, taskVars, rowVars, workerVars, subscriberVars, CreateEndpoint,
       DeleteEndpoint, Spawn, DispatchSelect, DispatchFailed, DispatchInsert, SelectBatch,
       RecordDelivered, RecordFailed, RecordLost, RetryDue, BatchDone, Crash
<1>2. QED
  BY <1>1, Inductive, PTL DEF Spec, EndedIsNotPosted
=============================================================================
