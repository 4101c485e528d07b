--------------------------- MODULE RetrySchedule ---------------------------
(***************************************************************************)
(* When the reconciliation worker (workers/payment_status_worker.rs) asks  *)
(* the provider about one pending attempt: its minutes, from the attempt's *)
(* creation to its expiry.  Payments has what the answers do; here only    *)
(* retry_count and next_retry_at matter.                                   *)
(***************************************************************************)
EXTENDS Naturals, FiniteSetsExt

CONSTANTS
  Width,  \* bits of the integer the backoff is computed in: 64 in the code
  Cap,    \* the exponent of the longest backoff: 2^4 is 16 minutes
  Day     \* age in minutes at which an attempt expires: 1440 in the code

VARIABLES
  now,            \* minutes since created_at; bounded by Day
  status,         \* payment_attempts.status
  retry_count,    \* payment_attempts.retry_count
  wait,           \* minutes to payment_attempts.next_retry_at: 0 if past or NULL
  asleep          \* the worker is in its sleep of 60 seconds

vars == <<now, status, retry_count, wait, asleep>>

Init ==
  /\ now = 0
  /\ status = "pending"
  /\ retry_count = 0
  /\ wait = 0
  /\ asleep = FALSE

\* 2_i64.pow(n).min(16) as i32, built without overflow checks (cargo build
\* --release): from n = Width - 1 on, the power is the least integer of the width,
\* then 0, and the low half of both is 0.  min(2^n, 2^Cap) is 2^min(n, Cap).
Backoff(n) == IF n < Width - 1 THEN 2 ^ Min({n, Cap}) ELSE 0

Selected == status = "pending" /\ wait = 0 /\ now < Day

\* The provider does not know the attempt.
NotFound ==
  /\ ~asleep
  /\ Selected
  /\ retry_count' = retry_count + 1
  /\ wait' = Backoff(retry_count)
  /\ asleep' = TRUE
  /\ UNCHANGED <<now, status>>

Answered ==
  /\ ~asleep
  /\ Selected
  /\ status' \in {"succeeded", "failed"}
  /\ asleep' = TRUE
  /\ UNCHANGED <<now, retry_count, wait>>

Expire ==
  /\ ~asleep
  /\ status = "pending"
  /\ now >= Day
  /\ status' = "failed"
  /\ asleep' = TRUE
  /\ UNCHANGED <<now, retry_count, wait>>

\* Nothing is due, or the query times out or is answered with an error: the
\* attempt is asked about in the next tick.
TickInVain ==
  /\ ~asleep
  /\ asleep' = TRUE
  /\ UNCHANGED <<now, status, retry_count, wait>>

\* Once the attempt is settled the worker does not select it again.
Minute ==
  /\ asleep
  /\ status = "pending"
  /\ now < Day
  /\ now' = now + 1
  /\ wait' = IF wait = 0 THEN 0 ELSE wait - 1
  /\ asleep' = FALSE
  /\ UNCHANGED <<status, retry_count>>

Next == NotFound \/ Answered \/ Expire \/ TickInVain \/ Minute

Spec == Init /\ [][Next]_vars

-----------------------------------------------------------------------------
(* Statement of the documentation.                                         *)

DocumentedDelay(attempt) ==
  CASE attempt = 1 -> 1
    [] attempt = 2 -> 2
    [] attempt = 3 -> 4
    [] attempt = 4 -> 8
    [] attempt >= 5 -> 16

\* API_DOC, Retry Schedule: the delay after the nth retry is 1, 2, 4, 8 minutes, and
\* 16 from the fifth on, until the attempt expires after 24 hours.
DelaysAsDocumented ==
  [][retry_count' # retry_count => wait' = DocumentedDelay(retry_count')]_vars
=============================================================================
