----------------------------- MODULE RateProofs -----------------------------
(***************************************************************************)
(* The rate limiter for any requests, window, limit, delay and grace.  The *)
(* argument is about times: a request in flight has read the clock at most *)
(* MaxDelay ago, a script counts by the time its request read, the key     *)
(* outlives every window it is needed for.  So what the log has lost is    *)
(* out of every window to come, and the script sees all that count.        *)
(***************************************************************************)
EXTENDS RateLimiter, FiniteSetTheorems, TLAPS

Admitted == {r \in Requests : ran[r] > 0}

\* When requests read the clock, and when their scripts ran.
Times ==
  \A r \in Requests :
    /\ pc[r] = "asked" => 0 < now[r] /\ now[r] <= clock /\ clock <= now[r] + MaxDelay
    /\ ran[r] > 0 =>
         /\ pc[r] = "allowed"
         /\ now[r] <= ran[r] /\ ran[r] <= now[r] + MaxDelay /\ ran[r] <= clock

\* The log holds admitted requests only, and the key lives on for a window after each.
LogHolds ==
  /\ log \subseteq Admitted
  /\ \A r \in Admitted : ran[r] + Window + Grace <= expires

IInv ==
  /\ TypeOK
  /\ Times
  /\ LogHolds
  /\ LogIsComplete
  /\ IsFiniteSet(Admitted)
  /\ RateWithinDelay

-----------------------------------------------------------------------------
\* What a script leaves in the log is finite, and so its count a number.
LEMMA KeptIsFinite ==
  ASSUME IInv, NEW r \in Requests
  PROVE  IsFiniteSet(Kept(r)) /\ Cardinality(Kept(r)) \in Nat
<1>1. Kept(r) \in SUBSET Admitted
  BY DEF Kept, IInv, LogHolds
<1>2. QED
  BY <1>1, FS_Subset, FS_CardinalityType DEF IInv

\* A script loses nothing that any later window can reach.
LEMMA KeptIsComplete ==
  ASSUME IInv, NEW r \in Requests, pc[r] = "asked", NEW s \in Requests,
         ran[s] > 0, now[s] > clock - Window
  PROVE  s \in Kept(r)
  BY RateAssumption DEF IInv, TypeOK, Times, LogIsComplete, Kept

\* Where a request is let in, the last window holds it and requests of the log.
LEMMA WindowIsKept ==
  ASSUME IInv, NEW r \in Requests, Allow(r)
  PROVE  AllowedWithin(clock, Window - MaxDelay)' \subseteq Kept(r) \cup {r}
<1> SUFFICES ASSUME NEW s \in Requests, s # r, ran'[s] > 0,
                    clock - (Window - MaxDelay) < ran'[s]
             PROVE  s \in Kept(r)
  BY DEF AllowedWithin, Allow
<1>1. ran'[s] = ran[s]
  BY DEF Allow, IInv, TypeOK
<1>2. now[s] > clock - Window
  BY <1>1, RateAssumption DEF IInv, TypeOK, Times
<1>3. QED
  BY <1>1, <1>2, KeptIsComplete DEF Allow

-----------------------------------------------------------------------------
\* Nobody has been admitted at first.
LEMMA InitIInv == Init => IInv
<1> SUFFICES ASSUME Init PROVE IInv
  OBVIOUS
<1>1. Admitted = {} /\ \A t, w : AllowedWithin(t, w) = {}
  BY DEF Init, Admitted, AllowedWithin
<1>2. IsFiniteSet(Admitted) /\ RateWithinDelay
  BY <1>1, FS_EmptySet, RateAssumption DEF RateWithinDelay
<1>3. QED
  BY <1>1, <1>2, RateAssumption
     DEF Init, IInv, TypeOK, Times, LogHolds, LogIsComplete, Admitted

\* Every step keeps the types.
LEMMA NextTypeOK == TypeOK /\ [Next]_vars => TypeOK'
  BY RateAssumption
     DEF TypeOK, Next, vars, Ask, Allow, Deny, FailOpen, TimePasses, Kept

\* A script runs when its request has read the clock, and no later than the delay.
LEMMA NextTimes == TypeOK /\ Times /\ [Next]_vars => Times'
<1> SUFFICES ASSUME TypeOK, Times, [Next]_vars PROVE Times'
  OBVIOUS
<1> USE RateAssumption DEF TypeOK, Times
<1>1. ASSUME NEW r \in Requests, Ask(r) PROVE Times'
  BY <1>1 DEF Ask
<1>2. ASSUME NEW r \in Requests, Allow(r) PROVE Times'
  BY <1>2 DEF Allow
<1>3. ASSUME NEW r \in Requests, Deny(r) \/ FailOpen(r) PROVE Times'
  BY <1>3 DEF Deny, FailOpen
<1>4. CASE TimePasses
  BY <1>4 DEF TimePasses
<1>5. CASE UNCHANGED vars
  BY <1>5 DEF vars
<1>6. QED
  BY <1>1, <1>2, <1>3, <1>4, <1>5 DEF Next

\* Only admissions are logged, and each prolongs the key's life.
LEMMA NextLogHolds == TypeOK /\ Times /\ LogHolds /\ [Next]_vars => LogHolds'
<1> SUFFICES ASSUME TypeOK, Times, LogHolds, [Next]_vars PROVE LogHolds'
  OBVIOUS
<1> USE RateAssumption DEF TypeOK, LogHolds, Admitted
<1>1. ASSUME NEW r \in Requests, Ask(r) \/ Deny(r) \/ FailOpen(r) PROVE LogHolds'
  BY <1>1 DEF Ask, Deny, FailOpen, Kept
<1>2. ASSUME NEW r \in Requests, Allow(r) PROVE LogHolds'
  BY <1>2 DEF Allow, Kept, Times
<1>3. CASE TimePasses
  BY <1>3 DEF TimePasses
<1>4. CASE UNCHANGED vars
  BY <1>4 DEF vars
<1>5. QED
  BY <1>1, <1>2, <1>3, <1>4 DEF Next

\* What a script or the expiry removes is too old to count.
LEMMA NextLogIsComplete == IInv /\ [Next]_vars => LogIsComplete'
<1> SUFFICES ASSUME IInv, [Next]_vars PROVE LogIsComplete'
  OBVIOUS
<1> USE RateAssumption DEF IInv, TypeOK, LogIsComplete
<1>1. ASSUME NEW r \in Requests, Ask(r) PROVE LogIsComplete'
  BY <1>1 DEF Ask, Times
<1>2. ASSUME NEW r \in Requests, Allow(r) PROVE LogIsComplete'
  BY <1>2, KeptIsComplete DEF Allow
<1>3. ASSUME NEW r \in Requests, Deny(r) PROVE LogIsComplete'
  BY <1>3, KeptIsComplete DEF Deny
<1>4. ASSUME NEW r \in Requests, FailOpen(r) PROVE LogIsComplete'
  BY <1>4 DEF FailOpen
<1>5. CASE TimePasses
  BY <1>5 DEF TimePasses, Times, LogHolds, Admitted
<1>6. CASE UNCHANGED vars
  BY <1>6 DEF vars
<1>7. QED
  BY <1>1, <1>2, <1>3, <1>4, <1>5, <1>6 DEF Next

\* Each step admits one request at the most.
LEMMA NextFinite == IInv /\ [Next]_vars => IsFiniteSet(Admitted')
<1> SUFFICES ASSUME IInv, [Next]_vars PROVE IsFiniteSet(Admitted')
  OBVIOUS
<1>1. CASE ran' = ran
  BY <1>1 DEF IInv, Admitted
<1>2. ASSUME NEW r \in Requests, Allow(r) PROVE IsFiniteSet(Admitted')
  <2>1. Admitted' \in SUBSET (Admitted \cup {r})
    BY <1>2 DEF Allow, IInv, TypeOK, Admitted
  <2>2. QED
    BY <2>1, FS_AddElement, FS_Subset DEF IInv
<1>3. QED
  BY <1>1, <1>2 DEF Next, vars, Ask, Deny, FailOpen, TimePasses

\* The windows as a function of when the scripts ran, so that both states can be named.
InWindow(f, t) == {r \in Requests : f[r] > 0 /\ t - (Window - MaxDelay) < f[r] /\ f[r] <= t}

\* An admission finds all that its window holds in the log, which is not full.
LEMMA NextRate == IInv /\ [Next]_vars => RateWithinDelay'
<1> SUFFICES ASSUME IInv, [Next]_vars PROVE RateWithinDelay'
  OBVIOUS
<1>1. \A t \in 1..clock : Cardinality(InWindow(ran, t)) <= MaxRequests
  BY DEF IInv, RateWithinDelay, AllowedWithin, InWindow
<1>2. SUFFICES \A t \in 1..clock' : Cardinality(InWindow(ran', t)) <= MaxRequests
  BY DEF RateWithinDelay, AllowedWithin, InWindow
<1>3. CASE ran' = ran /\ clock' = clock
  BY <1>1, <1>3
<1>4. ASSUME NEW r \in Requests, Allow(r), NEW t \in 1..clock'
      PROVE  Cardinality(InWindow(ran', t)) <= MaxRequests
  <2>1. clock' = clock /\ clock \in Nat
    BY <1>4 DEF Allow, IInv, TypeOK
  <2>2. CASE t = clock
    <3>1. IsFiniteSet(Kept(r)) /\ Cardinality(Kept(r)) \in Nat
      BY KeptIsFinite
    <3>2. /\ IsFiniteSet(Kept(r) \cup {r})
          /\ Cardinality(Kept(r) \cup {r}) \in Nat
          /\ Cardinality(Kept(r) \cup {r}) <= MaxRequests
      <4>1. Cardinality(Kept(r)) < MaxRequests
        BY <1>4, <3>1, RateAssumption DEF Allow, Full
      <4>2. /\ IsFiniteSet(Kept(r) \cup {r})
            /\ \/ Cardinality(Kept(r) \cup {r}) = Cardinality(Kept(r))
               \/ Cardinality(Kept(r) \cup {r}) = Cardinality(Kept(r)) + 1
        BY <3>1, FS_AddElement
      <4>3. QED
        BY <3>1, <4>1, <4>2, RateAssumption
    <3>3. InWindow(ran', t) \in SUBSET (Kept(r) \cup {r})
      BY <1>4, <2>1, <2>2, WindowIsKept DEF InWindow, AllowedWithin
    <3>4. /\ IsFiniteSet(InWindow(ran', t))
          /\ Cardinality(InWindow(ran', t)) <= Cardinality(Kept(r) \cup {r})
      BY <3>2, <3>3, FS_Subset
    <3>5. Cardinality(InWindow(ran', t)) \in Nat
      BY <3>4, FS_CardinalityType
    <3>6. QED
      BY <3>2, <3>4, <3>5, RateAssumption
  <2>3. CASE t # clock
    <3>1. InWindow(ran', t) = InWindow(ran, t)
      BY <1>4, <2>1, <2>3 DEF InWindow, Allow, IInv, TypeOK, Times
    <3>2. QED
      BY <1>1, <2>1, <3>1
  <2>4. QED
    BY <2>2, <2>3
<1>5. ASSUME TimePasses, NEW t \in 1..clock'
      PROVE  Cardinality(InWindow(ran', t)) <= MaxRequests
  <2>1. clock' = clock + 1 /\ ran' = ran /\ clock \in 1..MaxTime
    BY <1>5 DEF TimePasses, IInv, TypeOK
  <2>2. CASE t # clock + 1
    BY <1>1, <2>1, <2>2
  <2>3. CASE t = clock + 1
    <3>1. InWindow(ran, clock) \in SUBSET Admitted
      BY DEF InWindow, Admitted
    <3>2. IsFiniteSet(InWindow(ran, clock))
      BY <3>1, FS_Subset DEF IInv
    <3>3. InWindow(ran', t) \in SUBSET InWindow(ran, clock)
      BY <2>1, <2>3, RateAssumption DEF InWindow, IInv, TypeOK, Times
    <3>4. /\ Cardinality(InWindow(ran', t)) <= Cardinality(InWindow(ran, clock))
          /\ Cardinality(InWindow(ran', t)) \in Nat
          /\ Cardinality(InWindow(ran, clock)) \in Nat
      BY <3>2, <3>3, FS_Subset, FS_CardinalityType
    <3>5. Cardinality(InWindow(ran, clock)) <= MaxRequests
      BY <1>1, <2>1
    <3>6. QED
      BY <3>4, <3>5, RateAssumption
  <2>4. QED
    BY <2>2, <2>3
<1>6. QED
  BY <1>3, <1>4, <1>5 DEF Next, vars, Ask, Deny, FailOpen

\* Every step keeps the inductive invariant.
LEMMA NextIInv == IInv /\ [Next]_vars => IInv'
<1>1. IInv /\ [Next]_vars => IsFiniteSet(Admitted)'
  BY NextFinite
<1>2. QED
  BY <1>1, NextTypeOK, NextTimes, NextLogHolds, NextLogIsComplete, NextRate DEF IInv

\* The inductive invariant always holds.
LEMMA Invariance == Spec => []IInv
  BY InitIInv, NextIInv, PTL DEF Spec

-----------------------------------------------------------------------------
\* The variables keep their types.
THEOREM TypeCorrect == Spec => []TypeOK
  BY Invariance, PTL DEF IInv

\* Neither a script nor the key's expiry forgets a request that still counts.
THEOREM LogComplete == Spec => []LogIsComplete
  BY Invariance, PTL DEF IInv

\* However the scripts are reordered, no window shorter by the delay admits more than
\* the limit.
THEOREM RateLimited == Spec => []RateWithinDelay
  BY Invariance, PTL DEF IInv

\* A request is only denied for as many admissions as the limit, all of them read in the
\* window before it or while it was on its way.
THEOREM DenialsJustified == Spec => DenialsAreJustified
<1> DEFINE Counted(r) == {s \in Requests : ran[s] > 0 /\ now[s] > now[r] - Window
                                             /\ now[s] <= now[r] + MaxDelay}
<1> DEFINE Justified == \A r \in Requests : pc[r] = "asked" /\ pc'[r] = "denied" =>
                          Cardinality(Counted(r)) >= MaxRequests
<1>1. IInv /\ [Next]_vars => [Justified]_vars
  <2> SUFFICES ASSUME IInv, Next, NEW r \in Requests, pc[r] = "asked", pc'[r] = "denied"
               PROVE  Cardinality(Counted(r)) >= MaxRequests
    OBVIOUS
  <2>1. Deny(r)
    BY DEF Next, Ask, Allow, Deny, FailOpen, TimePasses, IInv, TypeOK
  <2>2. Kept(r) \in SUBSET Counted(r)
    BY RateAssumption DEF IInv, TypeOK, Times, LogHolds, Admitted, Kept
  <2>3. Counted(r) \in SUBSET Admitted
    BY DEF Admitted
  <2>4. IsFiniteSet(Counted(r)) /\ Cardinality(Counted(r)) \in Nat
    BY <2>3, FS_Subset, FS_CardinalityType DEF IInv
  <2>5. Cardinality(Kept(r)) <= Cardinality(Counted(r))
    BY <2>2, <2>4, FS_Subset
  <2>6. QED
    BY <2>1, <2>4, <2>5, KeptIsFinite, RateAssumption DEF Deny, Full
<1>2. QED
  BY <1>1, Invariance, PTL DEF Spec, DenialsAreJustified
=============================================================================
