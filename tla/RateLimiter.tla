---------------------------- MODULE RateLimiter -----------------------------
(***************************************************************************)
(* The sliding-log rate limiter (middleware/rate_limiter.rs) for one key,  *)
(* an address or a business.  A request reads the clock in the server and  *)
(* runs the script in Redis later, so scripts may run out of the order of  *)
(* their timestamps.  The script itself is atomic.                         *)
(***************************************************************************)
EXTENDS Integers, FiniteSets

CONSTANTS
  Requests,     \* requests under the key
  Window,       \* WINDOW_MS
  MaxRequests,  \* MAX_REQUESTS
  Grace,        \* what PEXPIRE adds to the window: 1000 ms in the code
  MaxDelay,     \* bound on the time between reading the clock and the script
  MaxTime       \* bound on the clock, for the model checker

ASSUME RateAssumption ==
  /\ Window \in Nat \ {0} /\ MaxRequests \in Nat \ {0}
  /\ Grace \in Nat /\ MaxDelay \in Nat /\ MaxTime \in Nat \ {0}

VARIABLES
  clock,    \* the time, the same for server and Redis
  pc,       \* "idle", "asked", then "allowed" or "denied"
  now,      \* the time a request read
  log,      \* the key's sorted set: who is in it; the score is the time it read
  expires,  \* when Redis drops the key; 0 without one
  ran       \* history: when a request's script let it in; 0 if none did

vars == <<clock, pc, now, log, expires, ran>>

TypeOK ==
  /\ clock \in 1..MaxTime
  /\ pc \in [Requests -> {"idle", "asked", "allowed", "denied"}]
  /\ now \in [Requests -> 0..MaxTime]
  /\ log \subseteq Requests
  /\ expires \in Nat
  /\ ran \in [Requests -> 0..MaxTime]

Init ==
  /\ clock = 1
  /\ pc = [r \in Requests |-> "idle"]
  /\ now = [r \in Requests |-> 0]
  /\ log = {}
  /\ expires = 0
  /\ ran = [r \in Requests |-> 0]

-----------------------------------------------------------------------------
Ask(r) ==
  /\ pc[r] = "idle"
  /\ pc' = [pc EXCEPT ![r] = "asked"]
  /\ now' = [now EXCEPT ![r] = clock]
  /\ UNCHANGED <<clock, log, expires, ran>>

\* Mutant of Kept: nothing is ever removed from the log.
KeptForever(r) == log

\* ZREMRANGEBYSCORE from 0 up to and including the cutoff.
Kept(r) == {s \in log : now[s] > now[r] - Window}

\* Mutant of Full: one request too many.
FullLate(r) == Cardinality(Kept(r)) > MaxRequests

Full(r) == Cardinality(Kept(r)) >= MaxRequests

\* Mutant of Allow: the key lives for less than the window.
AllowShortLived(r) ==
  /\ pc[r] = "asked"
  /\ ~Full(r)
  /\ log' = Kept(r) \cup {r}
  /\ expires' = clock + Grace
  /\ pc' = [pc EXCEPT ![r] = "allowed"]
  /\ ran' = [ran EXCEPT ![r] = clock]
  /\ UNCHANGED <<clock, now>>

Allow(r) ==
  /\ pc[r] = "asked"
  /\ ~Full(r)
  /\ log' = Kept(r) \cup {r}
  /\ expires' = clock + Window + Grace
  /\ pc' = [pc EXCEPT ![r] = "allowed"]
  /\ ran' = [ran EXCEPT ![r] = clock]
  /\ UNCHANGED <<clock, now>>

Deny(r) ==
  /\ pc[r] = "asked"
  /\ Full(r)
  /\ log' = Kept(r)
  /\ pc' = [pc EXCEPT ![r] = "denied"]
  /\ UNCHANGED <<clock, now, expires, ran>>

\* Mutant of FailOpen: the error is remembered as a verdict of its own.
FailWithError(r) ==
  /\ pc[r] = "asked"
  /\ pc' = [pc EXCEPT ![r] = "error"]
  /\ UNCHANGED <<clock, now, log, expires, ran>>

\* Redis does not answer or fails: the request goes through unlogged.
FailOpen(r) ==
  /\ pc[r] = "asked"
  /\ pc' = [pc EXCEPT ![r] = "allowed"]
  /\ UNCHANGED <<clock, now, log, expires, ran>>

\* Nobody waits for Redis longer than MaxDelay; an expired key is gone at once.
TimePasses ==
  /\ clock < MaxTime
  /\ \A r \in Requests : pc[r] = "asked" => clock < now[r] + MaxDelay
  /\ clock' = clock + 1
  /\ log' = IF clock + 1 >= expires THEN {} ELSE log
  /\ UNCHANGED <<pc, now, expires, ran>>

Next ==
  \/ \E r \in Requests : Ask(r) \/ Allow(r) \/ Deny(r) \/ FailOpen(r)
  \/ TimePasses

Spec == Init /\ [][Next]_vars

-----------------------------------------------------------------------------
\* Requests the script let in at times in (t - w, t].
AllowedWithin(t, w) == {r \in Requests : ran[r] > 0 /\ t - w < ran[r] /\ ran[r] <= t}

\* The limit, when scripts run out of order: no window shorter by the delay
\* between clock and script admits more than the limit through the script.
RateWithinDelay ==
  \A t \in 1..clock : Cardinality(AllowedWithin(t, Window - MaxDelay)) <= MaxRequests

\* Dropping the key never forgets a request that still counts: everything let in
\* and read after the last cutoff is in the log.
LogIsComplete ==
  \A r \in Requests : ran[r] > 0 /\ now[r] > clock - Window => r \in log

\* A denial is justified: there are as many admissions as the limit among the
\* requests that read the clock in the window before the denied one, or while it
\* was on its way.
DenialsAreJustified ==
  [][\A r \in Requests : pc[r] = "asked" /\ pc'[r] = "denied" =>
       Cardinality({s \in Requests :
          ran[s] > 0 /\ now[s] > now[r] - Window /\ now[s] <= now[r] + MaxDelay})
         >= MaxRequests]_vars

=============================================================================
