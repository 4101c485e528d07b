----------------------------- MODULE MCPayments -----------------------------
(* Payments on a small instance.                                           *)
EXTENDS PaymentsRefinement, Sequences, TLC

LOCAL INSTANCE SequencesExt

\* Requests and keys are interchangeable.
RequestSymmetry == Permutations(Requests)
Symmetry == RequestSymmetry \cup Permutations(Keys)

\* With two keys and an odd number of requests, more requests have one key than the
\* other: it may as well be this one.
FirstKey == CHOOSE k \in Keys : TRUE
MostlyFirstKey == 2 * Cardinality({r \in Requests : req[r].key = FirstKey}) > Cardinality(Requests)

InitMostlyFirstKey == Init /\ MostlyFirstKey
SpecMostlyFirstKey == InitMostlyFirstKey /\ [][Next]_vars

\* TLC checks no liveness under symmetry.  It is enough to look at requests in the order
\* of the versions they send, then of their keys, the first one with the first key.
Queue == SetToSeq(Requests)
InOrder ==
  /\ req[Queue[1]].key = FirstKey
  /\ \A n \in 1..(Len(Queue) - 1) :
       LET a == req[Queue[n]]  b == req[Queue[n + 1]] IN
         \/ a.versioning < b.versioning
         \/ /\ a.versioning = b.versioning
            /\ b.key = FirstKey => a.key = FirstKey

InitInOrder == Init /\ InOrder
FairSpecInOrder == InitInOrder /\ [][Next]_vars /\ Fairness
=============================================================================
