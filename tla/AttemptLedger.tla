--------------------------- MODULE AttemptLedger ----------------------------
(***************************************************************************)
(* What the pay endpoint promises, with no invoice, version, handler or    *)
(* worker in sight: per idempotency key and invoice there is one attempt,  *)
(* charged at most once, that leaves "pending" once and for good, with the *)
(* provider's verdict or by expiry.                                        *)
(***************************************************************************)
CONSTANT Slots   \* what a client names an attempt by: key and invoice

VARIABLES
  entry,    \* the attempt's status
  verdict   \* what the provider made of its charge

Outcomes == {"succeeded", "failed"}

Init ==
  /\ entry = [s \in Slots |-> "none"]
  /\ verdict = [s \in Slots |-> "none"]

Open(s) ==
  /\ entry[s] = "none"
  /\ entry' = [entry EXCEPT ![s] = "pending"]
  /\ UNCHANGED verdict

Charge(s) ==
  /\ entry[s] # "none"
  /\ verdict[s] = "none"
  /\ verdict' = [verdict EXCEPT ![s] = "charging"]
  /\ UNCHANGED entry

Decide(s) ==
  /\ verdict[s] = "charging"
  /\ \E o \in Outcomes \cup {"refused"} : verdict' = [verdict EXCEPT ![s] = o]
  /\ UNCHANGED entry

Resolve(s) ==
  /\ entry[s] = "pending"
  /\ verdict[s] \in Outcomes
  /\ entry' = [entry EXCEPT ![s] = verdict[s]]
  /\ UNCHANGED verdict

GiveUp(s) ==
  /\ entry[s] = "pending"
  /\ entry' = [entry EXCEPT ![s] = "expired"]
  /\ UNCHANGED verdict

Next ==
  \E s \in Slots :
    Open(s) \/ Charge(s) \/ Decide(s) \/ Resolve(s) \/ GiveUp(s)

Spec == Init /\ [][Next]_<<entry, verdict>>
=============================================================================
