--------------------------- MODULE WebhookDelivery --------------------------
(***************************************************************************)
(* Webhooks from the spawned dispatch task (workers/webhook.rs) to the     *)
(* subscriber's endpoint: deliveries are rows, posted and retried by one   *)
(* worker (workers/webhook_worker.rs).  Endpoints come and go meanwhile    *)
(* (services/webhook.rs).                                                  *)
(***************************************************************************)
EXTENDS Naturals, FiniteSets, FiniteSetsExt

CONSTANTS
  Events,       \* dispatch tasks: one per finalized invoice or settled attempt
  Endpoints,    \* endpoint rows of the business
  BatchSize,    \* LIMIT of the worker's SELECT: 10 in the code
  LastRetry,    \* attempt_count from which a failure is final: 4 in the code
  MaxLost,      \* bound on results of a POST that never reach the database
  Nothing       \* "the worker is not posting"

ASSUME BoundsAssumption == BatchSize \in Nat \ {0} /\ LastRetry \in Nat /\ MaxLost \in Nat

Deliveries == Events \X Endpoints
ASSUME NothingAssumption == Nothing \notin Deliveries

VARIABLES
  endpoint,  \* webhook_endpoints: "absent", "active" or "deleted"
  task,      \* the dispatch task of an event
  todo,      \* endpoints the task has selected and not inserted yet
  status,    \* webhook_deliveries.status, "none" without a row
  count,     \* webhook_deliveries.attempt_count
  due,       \* deliveries with next_retry_at in the past
  working,   \* the worker is in its loop over a batch
  batch,     \* deliveries selected and not posted yet
  posting,   \* the delivery whose POST has ended and is not recorded yet
  result,    \* whether that POST returned a 2xx in time
  posts,     \* history: POSTs made for a delivery
  received,  \* history: deliveries the subscriber has taken
  lost       \* history: results that never reached the database

subscriberVars == <<posts, received>>
taskVars == <<task, todo>>
rowVars == <<status, count, due>>
workerVars == <<working, batch, posting, result>>
vars == <<endpoint, task, todo, status, count, due, working, batch, posting, result,
          posts, received, lost>>

TypeOK ==
  /\ endpoint \in [Endpoints -> {"absent", "active", "deleted"}]
  /\ task \in [Events -> {"none", "spawned", "inserting", "complete", "dead"}]
  /\ todo \in [Events -> SUBSET Endpoints]
  /\ status \in [Deliveries -> {"none", "pending", "delivered", "failed"}]
  /\ count \in [Deliveries -> 0..LastRetry + 1]
  /\ due \subseteq Deliveries
  /\ working \in BOOLEAN
  /\ batch \subseteq Deliveries
  /\ posting \in Deliveries \cup {Nothing}
  /\ result \in BOOLEAN
  /\ posts \in [Deliveries -> Nat]
  /\ received \subseteq Deliveries
  /\ lost \in [Deliveries -> Nat]

Init ==
  /\ endpoint = [p \in Endpoints |-> "absent"]
  /\ task = [e \in Events |-> "none"]
  /\ todo = [e \in Events |-> {}]
  /\ status = [d \in Deliveries |-> "none"]
  /\ count = [d \in Deliveries |-> 0]
  /\ due = {}
  /\ working = FALSE
  /\ batch = {}
  /\ posting = Nothing
  /\ result = FALSE
  /\ posts = [d \in Deliveries |-> 0]
  /\ received = {}
  /\ lost = [d \in Deliveries |-> 0]

-----------------------------------------------------------------------------
(* Endpoints.                                                              *)

CreateEndpoint(p) ==
  /\ endpoint[p] = "absent"
  /\ endpoint' = [endpoint EXCEPT ![p] = "active"]
  /\ UNCHANGED <<taskVars, rowVars, workerVars, subscriberVars, lost>>

DeleteEndpoint(p) ==
  /\ endpoint[p] = "active"
  /\ endpoint' = [endpoint EXCEPT ![p] = "deleted"]
  /\ UNCHANGED <<taskVars, rowVars, workerVars, subscriberVars, lost>>

-----------------------------------------------------------------------------
(* The dispatch task, outside any transaction.                             *)

Spawn(e) ==
  /\ task[e] = "none"
  /\ task' = [task EXCEPT ![e] = "spawned"]
  /\ UNCHANGED <<endpoint, todo, rowVars, workerVars, subscriberVars, lost>>

Subscribed == {p \in Endpoints : endpoint[p] = "active"}

DispatchSelect(e) ==
  /\ task[e] = "spawned"
  /\ todo' = [todo EXCEPT ![e] = Subscribed]
  /\ task' = [task EXCEPT ![e] = IF Subscribed = {} THEN "complete" ELSE "inserting"]
  /\ UNCHANGED <<endpoint, rowVars, workerVars, subscriberVars, lost>>

DispatchInsert(e, p) ==
  /\ task[e] = "inserting"
  /\ p \in todo[e]
  /\ todo' = [todo EXCEPT ![e] = @ \ {p}]
  /\ task' = [task EXCEPT ![e] = IF todo[e] = {p} THEN "complete" ELSE @]
  /\ status' = [status EXCEPT ![<<e, p>>] = "pending"]
  /\ due' = due \cup {<<e, p>>}
  /\ UNCHANGED <<endpoint, count, workerVars, subscriberVars, lost>>

\* A failed statement ends the task with some deliveries missing.
DispatchFailed(e) ==
  /\ task[e] \in {"spawned", "inserting"}
  /\ task' = [task EXCEPT ![e] = "dead"]
  /\ UNCHANGED <<endpoint, todo, rowVars, workerVars, subscriberVars, lost>>

-----------------------------------------------------------------------------
(* The worker.                                                             *)

\* Mutants of Ready: the query forgets the status, or the last retry.
ReadyAnyStatus == {d \in Deliveries : status[d] # "none" /\ d \in due}

ReadyBeforeLast == {d \in Deliveries : status[d] = "pending" /\ d \in due /\ count[d] < LastRetry}

Ready == {d \in Deliveries : status[d] = "pending" /\ d \in due}

\* LIMIT without ORDER BY: any rows will do.
SelectBatch ==
  /\ ~working
  /\ working' = TRUE
  /\ batch' \in {b \in SUBSET Ready : Cardinality(b) = Min({BatchSize, Cardinality(Ready)})}
  /\ UNCHANGED <<endpoint, taskVars, rowVars, posting, result, subscriberVars, lost>>

\* The subscriber may take a delivery whose answer is late or not a 2xx.
Post(d) ==
  /\ working
  /\ posting = Nothing
  /\ d \in batch
  /\ batch' = batch \ {d}
  /\ posting' = d
  /\ posts' = [posts EXCEPT ![d] = @ + 1]
  /\ \/ result' = TRUE /\ received' = received \cup {d}
     \/ result' = FALSE /\ received' \in {received, received \cup {d}}
  /\ UNCHANGED <<endpoint, taskVars, rowVars, working, lost>>

Record(d) ==
  /\ d = posting
  /\ posting' = Nothing
  /\ result' = FALSE
  /\ count' = [count EXCEPT ![d] = @ + 1]

\* Mutant of RecordDelivered: any answer will do.
RecordDeliveredAlways(d) ==
  /\ Record(d)
  /\ status' = [status EXCEPT ![d] = "delivered"]
  /\ UNCHANGED <<endpoint, taskVars, due, working, batch, subscriberVars, lost>>

RecordDelivered(d) ==
  /\ result
  /\ Record(d)
  /\ status' = [status EXCEPT ![d] = "delivered"]
  /\ UNCHANGED <<endpoint, taskVars, due, working, batch, subscriberVars, lost>>

\* Mutants of RecordFailed: one retry too many, or one too few.
RecordFailedLate(d) ==
  /\ ~result
  /\ Record(d)
  /\ status' = [status EXCEPT ![d] = IF count[d] > LastRetry THEN "failed" ELSE "pending"]
  /\ due' = due \ {d}
  /\ UNCHANGED <<endpoint, taskVars, working, batch, subscriberVars, lost>>

RecordFailedEarly(d) ==
  /\ ~result
  /\ Record(d)
  /\ status' = [status EXCEPT ![d] = IF count[d] + 1 >= LastRetry THEN "failed" ELSE "pending"]
  /\ due' = due \ {d}
  /\ UNCHANGED <<endpoint, taskVars, working, batch, subscriberVars, lost>>

\* next_retry_at moves on by 2 to the old count minutes, even for the last try.
RecordFailed(d) ==
  /\ ~result
  /\ Record(d)
  /\ status' = [status EXCEPT ![d] = IF count[d] >= LastRetry THEN "failed" ELSE "pending"]
  /\ due' = due \ {d}
  /\ UNCHANGED <<endpoint, taskVars, working, batch, subscriberVars, lost>>

\* The UPDATE fails: the row still is due.
RecordLost(d) ==
  /\ d = posting
  /\ lost[d] < MaxLost
  /\ lost' = [lost EXCEPT ![d] = @ + 1]
  /\ posting' = Nothing
  /\ result' = FALSE
  /\ UNCHANGED <<endpoint, taskVars, rowVars, working, batch, subscriberVars>>

BatchDone ==
  /\ working
  /\ batch = {}
  /\ posting = Nothing
  /\ working' = FALSE
  /\ UNCHANGED <<endpoint, taskVars, rowVars, batch, posting, result, subscriberVars, lost>>

RetryDue(d) ==
  /\ status[d] = "pending"
  /\ d \notin due
  /\ due' = due \cup {d}
  /\ UNCHANGED <<endpoint, taskVars, status, count, workerVars, subscriberVars, lost>>

\* Tasks, batch and an unrecorded result are gone with the process.
Crash ==
  /\ posting # Nothing => lost[posting] < MaxLost
  /\ lost' = IF posting = Nothing THEN lost ELSE [lost EXCEPT ![posting] = @ + 1]
  /\ task' = [e \in Events |-> IF task[e] \in {"spawned", "inserting"} THEN "dead" ELSE task[e]]
  /\ working' = FALSE
  /\ batch' = {}
  /\ posting' = Nothing
  /\ result' = FALSE
  /\ UNCHANGED <<endpoint, todo, rowVars, subscriberVars>>

Next ==
  \/ \E p \in Endpoints : CreateEndpoint(p) \/ DeleteEndpoint(p)
  \/ \E e \in Events : Spawn(e) \/ DispatchSelect(e) \/ DispatchFailed(e)
  \/ \E e \in Events, p \in Endpoints : DispatchInsert(e, p)
  \/ SelectBatch
  \/ \E d \in Deliveries :
       Post(d) \/ RecordDelivered(d) \/ RecordFailed(d) \/ RecordLost(d) \/ RetryDue(d)
  \/ BatchDone
  \/ Crash

Spec == Init /\ [][Next]_vars

(***************************************************************************)
(* The worker loops for ever and time passes.  A crash can abandon every   *)
(* batch before it is posted, so posting needs strong fairness: the process*)
(* stays up long enough again and again.  Results are lost finitely often  *)
(* per delivery (MaxLost).  Nothing is assumed of subscribers.             *)
(***************************************************************************)
Fairness ==
  /\ WF_vars(SelectBatch)
  /\ WF_vars(BatchDone)
  /\ \A d \in Deliveries :
       /\ SF_vars(Post(d))
       /\ WF_vars(RecordDelivered(d) \/ RecordFailed(d))
       /\ WF_vars(RetryDue(d))

FairSpec == Spec /\ Fairness

-----------------------------------------------------------------------------
\* A row that says "delivered" is a webhook its subscriber has taken.
DeliveredIsReceived == \A d \in Deliveries : status[d] = "delivered" => d \in received

\* The retry budget: a delivery is posted LastRetry + 1 times at most, plus once
\* for every result that never reached its row; and it fails only with the whole
\* budget spent.
RetryBudget ==
  \A d \in Deliveries :
    /\ posts[d] <= LastRetry + 1 + lost[d]
    /\ status[d] = "failed" => count[d] = LastRetry + 1
    /\ count[d] = LastRetry + 1 => status[d] \in {"delivered", "failed"}

\* A webhook is taken twice only if an answer or a record was lost: nothing posts
\* a delivery again once its row says how it ended.
EndedIsNotPosted ==
  [][\A d \in Deliveries :
       status[d] \in {"delivered", "failed"} => posts'[d] = posts[d]]_vars

\* Every delivery comes to an end.
DeliveriesEnd ==
  \A d \in Deliveries : status[d] = "pending" ~> status[d] \in {"delivered", "failed"}
=============================================================================
