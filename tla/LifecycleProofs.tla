-------------------------- MODULE LifecycleProofs ---------------------------
(***************************************************************************)
(* The safety properties of InvoiceLifecycle hold for any number of calls, *)
(* any versions and any interleaving of their statements.                  *)
(***************************************************************************)
EXTENDS InvoiceLifecycle, TLAPS

USE BoundsAssumption, NamesAssumption

-----------------------------------------------------------------------------
(* The type invariant.                                                     *)

\* A finalize or void call has the shape of a call.
LEMMA PlainShape ==
  ASSUME NEW op \in Ops, NEW v \in Nat PROVE Plain(op, v) \in CallShape
  BY DEF Plain, CallShape

\* The types hold before the invoice exists.
LEMMA InitTypeOK == Init => TypeOK
<1>1. Plain("void", 0) \in CallShape
  BY PlainShape DEF Ops
<1> SUFFICES ASSUME Init PROVE TypeOK
  OBVIOUS
<1>2. call \in [Calls -> CallShape]
  BY <1>1 DEF Init
<1>3. /\ pc \in [Calls -> Pcs]
      /\ seen \in [Calls -> SUBSET (Calls \cup {Created})]
      /\ heard \in [Calls -> Calls \cup {Created}]
  BY DEF Init, Pcs
<1>4. QED
  BY <1>2, <1>3 DEF Init, TypeOK

\* Every statement keeps the types.
LEMMA NextTypeOK == TypeOK /\ [Next]_vars => TypeOK'
<1> SUFFICES ASSUME TypeOK, [Next]_vars PROVE TypeOK'
  OBVIOUS
<1> USE DEF TypeOK, States, Pcs, EditPcs, row, history, Goto, Bump, Unlock, Overtakes
<1>1. CASE CreateInvoice
  BY <1>1 DEF CreateInvoice
<1>2. ASSUME NEW c \in Calls, Send(c) PROVE TypeOK'
  <2>1. PICK v \in 1..ver + Ahead :
          call' \in {[call EXCEPT ![c] = r] :
                     r \in {Plain(op, v) : op \in Ops \ {"edit"}} \cup
                           {q \in [op : {"edit"}, versioning : {v}, own : BOOLEAN,
                                   due : {"none", "valid", "past"}, items : BOOLEAN] :
                              q.own \/ (q.items /\ q.due = "none")}}
    BY <1>2 DEF Send
  <2>2. v \in Nat /\ \A op \in Ops : Plain(op, v) \in CallShape
    BY PlainShape
  <2>3. [op : {"edit"}, versioning : {v}, own : BOOLEAN,
         due : {"none", "valid", "past"}, items : BOOLEAN] \subseteq CallShape
    BY <2>2 DEF CallShape, Ops
  <2>4. \E r \in CallShape : call' = [call EXCEPT ![c] = r]
    BY <2>1, <2>2, <2>3
  <2>5. QED
    BY <1>2, <2>4 DEF Send
<1>3. ASSUME NEW c \in Calls, EditBump(c) \/ EditConflict(c) \/ EditSelect(c) PROVE TypeOK'
  BY <1>3 DEF EditBump, EditConflict, EditSelect
<1>4. ASSUME NEW c \in Calls, EditDueDate(c) \/ EditKeepItems(c) \/ EditReply(c) PROVE TypeOK'
  BY <1>4 DEF EditDueDate, EditKeepItems, EditReply
<1>5. ASSUME NEW c \in Calls, DeleteStart(c) \/ DeleteEnd(c) PROVE TypeOK'
  BY <1>5 DEF DeleteStart, DeleteEnd
<1>6. ASSUME NEW c \in Calls, EditCommit(c) PROVE TypeOK'
  BY <1>6 DEF EditCommit
<1>7. ASSUME NEW c \in Calls, EditAborted(c) PROVE TypeOK'
  BY <1>7 DEF EditAborted
<1>8. ASSUME NEW c \in Calls, FinalizeSelect(c) \/ FinalizeUpdate(c) PROVE TypeOK'
  BY <1>8 DEF FinalizeSelect, FinalizeUpdate
<1>9. ASSUME NEW c \in Calls, VoidSelect(c) \/ VoidUpdate(c) \/ UpdateConflict(c)
      PROVE TypeOK'
  BY <1>9 DEF VoidSelect, VoidUpdate, UpdateConflict
<1>10. CASE PayClaim \/ PaySettle
  <2>1. claimed' \in BOOLEAN
    BY <1>10, Zenon DEF PayClaim, PaySettle
  <2>2. QED
    BY <1>10, <2>1 DEF PayClaim, PaySettle
<1>11. CASE UNCHANGED vars
  BY <1>11 DEF vars
<1>12. ASSUME NEW c \in Calls, Get(c) PROVE TypeOK'
  BY <1>12 DEF Get, GetRow, GetItems
<1>13. QED
  BY <1>1, <1>2, <1>3, <1>4, <1>5, <1>6, <1>7, <1>8, <1>9, <1>10, <1>11, <1>12
     DEF Next, Service, Edit, Finalize, Void

\* Every variable keeps its type.
THEOREM TypeCorrect == Spec => []TypeOK
  BY InitTypeOK, NextTypeOK, PTL DEF Spec

-----------------------------------------------------------------------------
(* Line items and total.                                                   *)

\* Calls wait for the row; while nothing has raced, every DELETE that has started
\* has seen exactly the line items there are.
ItemsInv ==
  /\ TotalIsBacked
  /\ \A c \in Calls : pc[c] # "idle" => state # "absent"
  /\ state = "absent" => total = Created
  /\ claimed => state # "absent"
  /\ ~raced /\ state # "absent" => items = {total}
  /\ ~raced => \A c \in Calls : pc[c] \in {"deleting", "insert"} => seen[c] = items

\* Every statement keeps line items and total as ItemsInv has them.
LEMMA NextItemsInv == TypeOK /\ ItemsInv /\ [Next]_vars => ItemsInv'
<1> SUFFICES ASSUME TypeOK, ItemsInv, [Next]_vars PROVE ItemsInv'
  OBVIOUS
<1> USE DEF TypeOK, ItemsInv, TotalIsBacked, row, history, Goto, EditPcs
<1>1. CASE CreateInvoice
  BY <1>1 DEF CreateInvoice
<1>2. ASSUME NEW c \in Calls, Send(c) PROVE ItemsInv'
  BY <1>2 DEF Send
<1>3. ASSUME NEW c \in Calls, EditBump(c) \/ EditConflict(c) \/ EditSelect(c)
      PROVE ItemsInv'
  BY <1>3 DEF EditBump, EditConflict, EditSelect, Sent
<1>4. ASSUME NEW c \in Calls, EditDueDate(c) \/ EditKeepItems(c) \/ EditReply(c) PROVE ItemsInv'
  BY <1>4 DEF EditDueDate, EditKeepItems, EditReply
<1>5. ASSUME NEW c \in Calls, DeleteStart(c) \/ DeleteEnd(c) PROVE ItemsInv'
  BY <1>5 DEF DeleteStart, DeleteEnd
<1>6. ASSUME NEW c \in Calls, EditCommit(c) PROVE ItemsInv'
  <2>1. ~raced' => items = seen[c] /\ \A d \in Calls \ {c} : pc[d] \notin {"deleting", "insert"}
    BY <1>6 DEF EditCommit, Overtakes
  <2>2. total' = c /\ c \in items' /\ (~raced' => items' = {c}) /\ state' = state
    BY <1>6, <2>1 DEF EditCommit
  <2>3. pc' = [pc EXCEPT ![c] = "done"] /\ state # "absent" /\ seen' = seen
    BY <1>6 DEF EditCommit
  <2>4. QED
    BY <2>1, <2>2, <2>3
<1>7. ASSUME NEW c \in Calls, EditAborted(c) \/ UpdateConflict(c) PROVE ItemsInv'
  BY <1>7 DEF EditAborted, UpdateConflict
<1>8. ASSUME NEW c \in Calls, Finalize(c) PROVE ItemsInv'
  BY <1>8 DEF Finalize, FinalizeSelect, FinalizeUpdate, Sent
<1>9. ASSUME NEW c \in Calls, Void(c) PROVE ItemsInv'
  BY <1>9 DEF Void, VoidSelect, VoidUpdate, Sent
<1>10. CASE PayClaim \/ PaySettle
  <2>1. state # "absent" => state' # "absent"
    BY <1>10 DEF PayClaim, PaySettle
  <2>2. state = "absent" => state' = state \/ claimed
    BY <1>10 DEF PayClaim, PaySettle
  <2>3. state' = "absent" => state = "absent"
    BY <1>10 DEF PayClaim, PaySettle
  <2>4. QED
    BY <1>10, <2>1, <2>2, <2>3 DEF PayClaim, PaySettle
<1>11. CASE UNCHANGED vars
  BY <1>11 DEF vars
<1>12. ASSUME NEW c \in Calls, Get(c) PROVE ItemsInv'
  BY <1>12 DEF Get, GetRow, GetItems, Sent
<1>13. QED
  BY <1>1, <1>2, <1>3, <1>4, <1>5, <1>6, <1>7, <1>8, <1>9, <1>10, <1>11, <1>12
     DEF Next, Service, Edit

\* ItemsInv always holds.
LEMMA ItemsInvariance == Spec => [](TypeOK /\ ItemsInv)
<1>1. Init => ItemsInv
  BY DEF Init, ItemsInv, TotalIsBacked
<1>2. QED
  BY <1>1, InitTypeOK, NextTypeOK, NextItemsInv, PTL DEF Spec

\* The total is always that of a complete list of line items.
THEOREM TotalsAreBacked == Spec => []TotalIsBacked
<1>1. ItemsInv => TotalIsBacked
  BY DEF ItemsInv
<1>2. QED
  BY <1>1, ItemsInvariance, PTL

\* Line items and total agree unless a DELETE overlapped another edit's commit.
THEOREM ItemsMatch == Spec => []ItemsMatchUnlessRaced
<1>1. ItemsInv => ItemsMatchUnlessRaced
  BY DEF ItemsInv, ItemsMatchUnlessRaced
<1>2. QED
  BY <1>1, ItemsInvariance, PTL

-----------------------------------------------------------------------------
(* Reads.                                                                  *)

\* A call halfway through its two SELECTs has in hand what is still there, unless an
\* edit has committed since; and none can while the call holds the row's lock.
ReadInv(c) ==
  /\ pc[c] = "rows" => call[c].op = "get"
  /\ pc[c] = "rows" => raced \/ (c \in torn /\ call[c].due # "valid") \/ heard[c] = total
  /\ pc[c] = "reply" => raced \/ c \in torn \/ seen[c] = items
  /\ pc[c] \in {"deleting", "insert"} => call[c].items
  /\ pc[c] \in {"items", "deleting", "insert", "reply"} /\ call[c].due = "valid"
       => rowLock = c
  /\ call[c].op = "get" => call[c].due = "none"
  /\ c \in torn => pc[c] \notin {"idle", "sent", "begin", "due", "items"}
  /\ c \in torn /\ pc[c] = "reply" => call[c].due # "valid"

ReadsInv == ReadsMatchUnlessTorn /\ \A c \in Calls : ReadInv(c)

\* Every statement keeps what reads have found as ReadsInv has it.
LEMMA NextReadsInv == TypeOK /\ ItemsInv /\ ReadsInv /\ [Next]_vars => ReadsInv'
<1> SUFFICES ASSUME TypeOK, ItemsInv, ReadsInv, [Next]_vars PROVE ReadsInv'
  OBVIOUS
<1>a. ASSUME NEW w \in Calls, pc' = [pc EXCEPT ![w] = pc'[w]],
             UNCHANGED <<total, items, call, raced, torn>>,
             \A c \in Calls \ {w} : seen'[c] = seen[c] /\ heard'[c] = heard[c],
             \A c \in Calls \ {w} : rowLock = c => rowLock' = c,
             ReadInv(w)',
             pc'[w] \notin {"got", "done"}
      PROVE ReadsInv'
  BY <1>a DEF ReadsInv, ReadInv, ReadsMatchUnlessTorn, TypeOK
<1> USE DEF TypeOK, ReadInv, row, history, Goto, EditPcs, Sent
<1>1. CASE CreateInvoice
  <2>1. \A c \in Calls : pc[c] = "idle"
    BY <1>1 DEF CreateInvoice, ItemsInv
  <2>2. QED
    BY <1>1, <2>1 DEF CreateInvoice, ReadsInv, ReadsMatchUnlessTorn
<1>2. ASSUME NEW c \in Calls, Send(c) PROVE ReadsInv'
  <2>1. PICK v \in 1..ver + Ahead :
          call' \in {[call EXCEPT ![c] = r] :
                     r \in {Plain(op, v) : op \in Ops \ {"edit"}} \cup
                           {q \in [op : {"edit"}, versioning : {v}, own : BOOLEAN,
                                   due : {"none", "valid", "past"}, items : BOOLEAN] :
                              q.own \/ (q.items /\ q.due = "none")}}
    BY <1>2 DEF Send
  <2>2. call'[c].op = "get" => call'[c].due = "none"
    BY <2>1 DEF Plain
  <2>3. \A d \in Calls : d # c => call'[d] = call[d]
    BY <2>1
  <2>4. /\ pc' = [pc EXCEPT ![c] = "sent"] /\ pc[c] = "idle"
        /\ UNCHANGED <<total, items, rowLock, seen, heard, raced, torn>>
    BY <1>2 DEF Send
  <2>5. QED
    BY <2>2, <2>3, <2>4 DEF ReadsInv, ReadsMatchUnlessTorn
<1>3. ASSUME NEW c \in Calls, GetRow(c) \/ EditKeepItems(c) PROVE ReadsInv'
  BY <1>a, <1>3 DEF GetRow, EditKeepItems, ReadsInv
<1>4. ASSUME NEW c \in Calls, GetItems(c) PROVE ReadsInv'
  <2>1. raced \/ (c \in torn /\ call[c].due # "valid") \/ seen'[c] = {heard'[c]}
    BY <1>4 DEF GetItems, ReadsInv, ItemsInv
  <2>2. QED
    BY <1>4, <2>1 DEF GetItems, ReadsInv, ReadsMatchUnlessTorn
<1>5. ASSUME NEW c \in Calls, EditReply(c) PROVE ReadsInv'
  <2>1. raced \/ (c \in torn /\ call[c].due # "valid") \/ seen'[c] = {heard'[c]}
    BY <1>5 DEF EditReply, ReadsInv, ItemsInv
  <2>2. QED
    BY <1>5, <2>1 DEF EditReply, Unlock, ReadsInv, ReadsMatchUnlessTorn
<1>6. ASSUME NEW c \in Calls, EditBump(c) \/ EditConflict(c) \/ EditSelect(c) \/ EditDueDate(c)
      PROVE ReadsInv'
  BY <1>a, <1>6 DEF EditBump, EditConflict, EditSelect, EditDueDate, ReadsInv
<1>7. ASSUME NEW c \in Calls, DeleteStart(c) \/ DeleteEnd(c) PROVE ReadsInv'
  BY <1>a, <1>7 DEF DeleteStart, DeleteEnd, ReadsInv
<1>8. ASSUME NEW c \in Calls, EditCommit(c) PROVE ReadsInv'
  <2>1. /\ pc' = [pc EXCEPT ![c] = "done"] /\ pc[c] = "insert" /\ rowLock \in {NoCall, c}
        /\ torn' = torn \cup {d \in Calls : pc[d] \in {"rows", "reply"}}
        /\ raced => raced'
        /\ UNCHANGED <<call, seen, heard>>
    BY <1>8 DEF EditCommit, Overtakes
  <2>2. \A d \in Calls \ {c} : pc[d] = "reply" => call[d].due # "valid"
    BY <2>1 DEF ReadsInv
  <2>3. \A d \in Calls : pc[d] = "rows" => call[d].due # "valid"
    BY DEF ReadsInv
  <2>4. \A d \in Calls \ {c} : pc[d] \in {"items", "deleting", "insert", "reply"} => call[d].due # "valid"
    BY <2>1 DEF ReadsInv
  <2>5. \A d \in Calls : ReadInv(d)'
    BY <2>1, <2>2, <2>3, <2>4 DEF ReadsInv
  <2>6. ReadsMatchUnlessTorn'
    BY <2>1 DEF ReadsInv, ReadsMatchUnlessTorn
  <2>7. QED
    BY <2>5, <2>6 DEF ReadsInv
<1>9. ASSUME NEW c \in Calls, EditAborted(c) \/ UpdateConflict(c) PROVE ReadsInv'
  BY <1>a, <1>9 DEF EditAborted, Unlock, UpdateConflict, ReadsInv
<1>10. ASSUME NEW c \in Calls, FinalizeSelect(c) \/ VoidSelect(c) PROVE ReadsInv'
  BY <1>a, <1>10 DEF FinalizeSelect, VoidSelect, ReadsInv
<1>11. ASSUME NEW c \in Calls, FinalizeUpdate(c) \/ VoidUpdate(c) PROVE ReadsInv'
  BY <1>11 DEF FinalizeUpdate, VoidUpdate, ReadsInv, ReadsMatchUnlessTorn
<1>12. CASE PayClaim \/ PaySettle
  BY <1>12 DEF PayClaim, PaySettle, ReadsInv, ReadsMatchUnlessTorn
<1>13. CASE UNCHANGED vars
  BY <1>13 DEF vars, ReadsInv, ReadsMatchUnlessTorn
<1>14. QED
  BY <1>1, <1>2, <1>3, <1>4, <1>5, <1>6, <1>7, <1>8, <1>9, <1>10, <1>11, <1>12, <1>13
     DEF Next, Service, Get, Edit, Finalize, Void

\* Answers have the line items of their total, unless an edit came between the two
\* SELECTs of a call that had not locked the row.
THEOREM ReadsMatch == Spec => []ReadsMatchUnlessTorn
<1>1. Init => ReadsInv
  BY DEF Init, ReadsInv, ReadInv, ReadsMatchUnlessTorn, Plain
<1>2. ReadsInv => ReadsMatchUnlessTorn
  BY DEF ReadsInv
<1>3. QED
  BY <1>1, <1>2, NextReadsInv, ItemsInvariance, PTL DEF Spec

-----------------------------------------------------------------------------
(* Versions.                                                               *)

\* A winner's version is used up.
VersionInv ==
  /\ OneWinnerPerVersion
  /\ \A c \in Calls : Won(c) => call[c].versioning < ver

\* Every winner counts the version up, so nobody else can win with it.
LEMMA NextVersionInv == TypeOK /\ ItemsInv /\ VersionInv /\ [Next]_vars => VersionInv'
<1> SUFFICES ASSUME TypeOK, ItemsInv, VersionInv, [Next]_vars PROVE VersionInv'
  OBVIOUS
<1>a. \A c \in Calls : call[c].versioning \in Nat
  BY DEF TypeOK, CallShape
<1>b. ver \in Nat /\ ver' \in Nat
  BY NextTypeOK DEF TypeOK
<1>1. ASSUME ver' >= ver, \A c \in Calls : Won(c)' => Won(c) /\ call'[c] = call[c]
      PROVE VersionInv'
  BY <1>1, <1>a, <1>b DEF VersionInv, OneWinnerPerVersion
<1>2. ASSUME NEW w \in Calls, Current(w), Bump, call' = call,
             \A c \in Calls : Won(c)' => Won(c) \/ c = w
      PROVE VersionInv'
  <2>1. ver' = ver + 1 /\ call[w].versioning = ver
    BY <1>2 DEF Bump, Current
  <2>2. ASSUME NEW c \in Calls, Won(c)' PROVE call[c].versioning < ver'
    BY <1>2, <1>a, <1>b, <2>1, <2>2 DEF VersionInv
  <2>3. ASSUME NEW c \in Calls, NEW d \in Calls, Won(c)', Won(d)',
               call[c].versioning = call[d].versioning
        PROVE c = d
    BY <1>2, <1>a, <1>b, <2>1, <2>3 DEF VersionInv, OneWinnerPerVersion
  <2>4. QED
    BY <1>2, <2>2, <2>3 DEF VersionInv, OneWinnerPerVersion
<1> USE DEF TypeOK, Goto, row, history, EditPcs
<1>3. ASSUME NEW w \in Calls, EditBump(w) \/ FinalizeUpdate(w) \/ VoidUpdate(w)
      PROVE VersionInv'
  BY <1>2, <1>3 DEF EditBump, FinalizeUpdate, VoidUpdate, Won
<1>4. ASSUME NEW w \in Calls, Send(w) PROVE VersionInv'
  <2>1. \A c \in Calls : Won(c)' => c # w /\ Won(c)
    BY <1>4 DEF Send, Won
  <2>2. \A c \in Calls : c # w => call'[c] = call[c]
    BY <1>4 DEF Send
  <2>3. QED
    BY <1>1, <1>4, <1>b, <2>1, <2>2 DEF Send
<1>5. ASSUME NEW w \in Calls,
             \/ EditConflict(w) \/ EditSelect(w) \/ EditDueDate(w) \/ EditKeepItems(w)
             \/ EditReply(w) \/ DeleteStart(w) \/ DeleteEnd(w) \/ EditAborted(w)
      PROVE VersionInv'
  BY <1>1, <1>5, <1>b DEF EditConflict, EditSelect, EditDueDate, EditKeepItems, EditReply,
                    DeleteStart, DeleteEnd, EditAborted, Sent, Won
<1>6. ASSUME NEW w \in Calls,
             EditCommit(w) \/ FinalizeSelect(w) \/ VoidSelect(w) \/ UpdateConflict(w)
      PROVE VersionInv'
  BY <1>1, <1>6, <1>b DEF EditCommit, FinalizeSelect, VoidSelect, UpdateConflict, Sent, Won
<1>7. CASE CreateInvoice
  BY <1>7 DEF CreateInvoice, ItemsInv, Won, VersionInv, OneWinnerPerVersion
<1>8. CASE PayClaim \/ PaySettle
  BY <1>1, <1>8, <1>b DEF PayClaim, PaySettle, Bump, Won
<1>9. CASE UNCHANGED vars
  BY <1>1, <1>9, <1>b DEF vars, Won
<1>10. ASSUME NEW w \in Calls, Get(w) PROVE VersionInv'
  BY <1>1, <1>10, <1>b DEF Get, GetRow, GetItems, Sent, Won
<1>11. QED
  BY <1>3, <1>4, <1>5, <1>6, <1>7, <1>8, <1>9, <1>10 DEF Next, Service, Edit, Finalize, Void

\* VersionInv always holds.
LEMMA VersionInvariance == Spec => [](TypeOK /\ VersionInv)
<1>1. Init => VersionInv
  BY DEF Init, VersionInv, OneWinnerPerVersion, Won, EditPcs
<1>2. QED
  BY <1>1, InitTypeOK, NextTypeOK, NextVersionInv, ItemsInvariance, PTL DEF Spec

\* No two edits, finalizations or voidings win with the same version.
THEOREM WinnersDiffer == Spec => []OneWinnerPerVersion
<1>1. VersionInv => OneWinnerPerVersion
  BY DEF VersionInv
<1>2. QED
  BY <1>1, VersionInvariance, PTL

-----------------------------------------------------------------------------
(* The state machine.                                                      *)

\* Versions on their way have been read; a call about to write the state has
\* either read a draft that still is one or comes too late.
StateInv ==
  \A c \in Calls :
    /\ pc[c] # "idle" => call[c].versioning <= ver /\ state # "absent"
    /\ pc[c] = "update" /\ Current(c) => state = "draft"

\* A claimed invoice is the payments' for good.
ClaimInv == claimed => state \in PaymentStates

\* A call that found a draft loses its version as soon as the draft is gone.
LEMMA NextStateInv ==
  ASSUME Ahead = 0, TypeOK, StateInv, ClaimInv, [Next]_vars
  PROVE  StateInv'
<1>a. \A c \in Calls : call[c].versioning \in Nat
  BY DEF TypeOK, CallShape
<1>b. ver \in Nat /\ ver' \in Nat
  BY NextTypeOK DEF TypeOK
<1> USE DEF TypeOK, StateInv, Current, Goto, row, history
<1>1. CASE CreateInvoice
  BY <1>1 DEF CreateInvoice
<1>2. ASSUME NEW w \in Calls, Send(w) PROVE StateInv'
  <2>1. PICK v \in 1..ver + Ahead :
          call' \in {[call EXCEPT ![w] = r] :
                     r \in {Plain(op, v) : op \in Ops \ {"edit"}} \cup
                           {q \in [op : {"edit"}, versioning : {v}, own : BOOLEAN,
                                   due : {"none", "valid", "past"}, items : BOOLEAN] :
                              q.own \/ (q.items /\ q.due = "none")}}
    BY <1>2 DEF Send
  <2>2. call'[w].versioning = v
    BY <2>1 DEF Plain
  <2>3. v <= ver
    BY <1>b
  <2>4. \A c \in Calls : c # w => call'[c] = call[c]
    BY <2>1
  <2>5. pc' = [pc EXCEPT ![w] = "sent"] /\ ver' = ver /\ state' = state /\ state # "absent"
    BY <1>2 DEF Send
  <2>6. QED
    BY <2>2, <2>3, <2>4, <2>5
<1>3. ASSUME call' = call, ver' = ver, state' = state, state # "absent",
             \A c \in Calls : pc'[c] # "idle" => pc[c] # "idle",
             \A c \in Calls : pc'[c] = "update" => pc[c] = "update" \/ state = "draft"
      PROVE StateInv'
  BY <1>3
<1>4. ASSUME call' = call, ver' = ver + 1, state # "absent", state' # "absent",
             \A c \in Calls : pc'[c] # "idle" => pc[c] # "idle"
      PROVE StateInv'
  BY <1>4, <1>a, <1>b
<1>5. ASSUME NEW w \in Calls, EditBump(w) \/ FinalizeUpdate(w) \/ VoidUpdate(w)
      PROVE StateInv'
  BY <1>4, <1>5 DEF EditBump, FinalizeUpdate, VoidUpdate, Bump, Sent
<1>6. ASSUME NEW w \in Calls,
             \/ EditConflict(w) \/ EditSelect(w) \/ EditDueDate(w) \/ EditKeepItems(w)
             \/ EditReply(w) \/ DeleteStart(w) \/ DeleteEnd(w) \/ EditCommit(w)
             \/ EditAborted(w) \/ Get(w)
      PROVE StateInv'
  BY <1>3, <1>6 DEF EditConflict, EditSelect, EditDueDate, EditKeepItems, EditReply,
                    DeleteStart, DeleteEnd, EditCommit, EditAborted, Get, GetRow, GetItems,
                    Sent, EditPcs
<1>7. ASSUME NEW w \in Calls, FinalizeSelect(w) \/ VoidSelect(w) \/ UpdateConflict(w)
      PROVE StateInv'
  BY <1>3, <1>7 DEF FinalizeSelect, VoidSelect, UpdateConflict, Sent, CanTransition, VoidTarget
<1>8. CASE PayClaim
  BY <1>4, <1>8 DEF PayClaim, Bump
<1>9. CASE PaySettle
  <2>1. state \notin {"draft", "absent"} /\ state' \notin {"draft", "absent"}
    BY <1>9 DEF PaySettle, ClaimInv, PaymentStates
  <2>2. \A c \in Calls : ~(pc[c] = "update" /\ Current(c))
    BY <2>1
  <2>3. call' = call /\ pc' = pc /\ (ver' = ver \/ ver' = ver + 1)
    BY <1>9 DEF PaySettle, Bump
  <2>4. QED
    BY <2>1, <2>2, <2>3, <1>a, <1>b
<1>10. CASE UNCHANGED vars
  BY <1>10 DEF vars
<1>11. QED
  BY <1>1, <1>2, <1>5, <1>6, <1>7, <1>8, <1>9, <1>10 DEF Next, Service, Edit, Finalize, Void

\* Nobody creates, finalizes or voids a claimed invoice.
LEMMA NextClaimInv == StateInv /\ ClaimInv /\ [Next]_vars => ClaimInv'
<1> SUFFICES ASSUME StateInv, ClaimInv, [Next]_vars, claimed' PROVE state' \in PaymentStates
  BY DEF ClaimInv
<1> USE DEF PaymentStates, ClaimInv, row
<1>1. CASE CreateInvoice
  BY <1>1 DEF CreateInvoice
<1>2. ASSUME NEW c \in Calls, FinalizeUpdate(c) \/ VoidUpdate(c) PROVE state' \in PaymentStates
  BY <1>2 DEF FinalizeUpdate, VoidUpdate, StateInv
<1>3. CASE PayClaim \/ PaySettle
  BY <1>3 DEF PayClaim, PaySettle
<1>4. ASSUME NEW c \in Calls,
             \/ Send(c) \/ Get(c) \/ Edit(c) \/ FinalizeSelect(c) \/ VoidSelect(c)
             \/ UpdateConflict(c)
      PROVE state' = state /\ claimed' = claimed
  BY <1>4 DEF Send, Get, GetRow, GetItems, Edit, EditBump, EditConflict, EditSelect,
              EditDueDate, EditKeepItems, EditReply, DeleteStart, DeleteEnd, EditCommit,
              EditAborted, FinalizeSelect, VoidSelect, UpdateConflict
<1>5. CASE UNCHANGED vars
  BY <1>5 DEF vars
<1>6. QED
  BY <1>1, <1>2, <1>3, <1>4, <1>5, Zenon DEF Next, Service, Finalize, Void

\* A change of state is a transition of the state machine or a payment's.
LEMMA StepIsLegal ==
  ASSUME TypeOK, StateInv, ClaimInv, [Next]_vars, state' # state
  PROVE  \/ CanTransition(state, state')
         \/ <<state, state'>> = <<"absent", "draft">>
         \/ claimed /\ {state, state'} \subseteq PaymentStates
<1>1. CASE CreateInvoice
  BY <1>1 DEF CreateInvoice
<1>2. ASSUME NEW c \in Calls, FinalizeUpdate(c) \/ VoidUpdate(c)
      PROVE CanTransition(state, state')
  <2>1. state = "draft" /\ state' \in {"open", "void"}
    BY <1>2 DEF FinalizeUpdate, VoidUpdate, StateInv
  <2>2. QED
    BY <2>1 DEF CanTransition
<1>3. CASE PayClaim
  BY <1>3 DEF PayClaim, CanTransition
<1>4. CASE PaySettle
  <2>1. state \in PaymentStates /\ state' \in PaymentStates
    BY <1>4 DEF PaySettle, ClaimInv, PaymentStates
  <2>2. claimed
    BY <1>4, Zenon DEF PaySettle
  <2>3. QED
    BY <2>1, <2>2
<1>5. ASSUME NEW c \in Calls,
             \/ Send(c) \/ Get(c) \/ Edit(c) \/ FinalizeSelect(c) \/ VoidSelect(c)
             \/ UpdateConflict(c)
      PROVE state' = state
  BY <1>5 DEF Send, Get, GetRow, GetItems, Edit, EditBump, EditConflict, EditSelect,
              EditDueDate, EditKeepItems, EditReply, DeleteStart, DeleteEnd, EditCommit,
              EditAborted, FinalizeSelect, VoidSelect, UpdateConflict, row
<1>6. QED
  BY <1>1, <1>2, <1>3, <1>4, <1>5 DEF Next, Service, Finalize, Void, vars

\* StateInv and ClaimInv always hold.
LEMMA StateInvariance == ASSUME Ahead = 0 PROVE Spec => [](TypeOK /\ StateInv /\ ClaimInv)
<1>1. Init => StateInv /\ ClaimInv
  BY DEF Init, StateInv, ClaimInv
<1>2. TypeOK /\ StateInv /\ ClaimInv /\ [Next]_vars => StateInv' /\ ClaimInv'
  BY NextStateInv, NextClaimInv
<1>3. QED
  BY <1>1, <1>2, InitTypeOK, NextTypeOK, PTL DEF Spec

\* Among clients that send versions they have read, every change of state is one
\* the state machine allows, or a payment's on an invoice that was claimed.
THEOREM StatesAreLegal == ASSUME Ahead = 0 PROVE Spec => LegalTransitions
<1>1. TypeOK /\ StateInv /\ ClaimInv /\ [Next]_vars =>
        [state' # state =>
           \/ CanTransition(state, state')
           \/ <<state, state'>> = <<"absent", "draft">>
           \/ claimed /\ {state, state'} \subseteq PaymentStates]_vars
  BY StepIsLegal
<1>2. QED
  BY <1>1, StateInvariance, PTL DEF Spec, LegalTransitions

-----------------------------------------------------------------------------
(* The end of the draft, whatever versions clients guess.                  *)

\* While the invoice is a draft nobody has ended it, or paid; payments find it
\* finalized; a void whose version is still current has the draft before it; edits
\* were let in with older versions than the call that ended the draft.
DraftInv ==
  /\ \A c \in Calls : pc[c] \in EditPcs => call[c].op = "edit"
  /\ state \in {"absent", "draft"} => ~claimed /\ \A c \in Calls : ~EndsDraft(c)
  /\ claimed \/ state \in PaymentStates =>
       \E f \in Calls : EndsDraft(f) /\ call[f].op = "finalize"
  /\ \A c \in Calls : pc[c] = "update" /\ call[c].op = "void" =>
       call[c].versioning <= ver /\ (Current(c) => state = "draft")
  /\ \A e, f \in Calls : Won(e) /\ call[e].op = "edit" /\ EndsDraft(f) =>
       call[e].versioning < call[f].versioning

\* The version bump lets edits into a draft only, and every end of the draft uses up
\* a version that is above theirs.
LEMMA NextDraftInv ==
  ASSUME TypeOK, ItemsInv, VersionInv, DraftInv, [Next]_vars
  PROVE  DraftInv'
<1>a. \A c \in Calls : call[c].versioning \in Nat
  BY DEF TypeOK, CallShape
<1>b. ver \in Nat
  BY DEF TypeOK
<1> USE DEF DraftInv, EndsDraft, TypeOK, Goto, row, EditPcs, Won, Current
<1>1. CASE CreateInvoice
  <2>1. \A c \in Calls : pc[c] = "idle"
    BY <1>1 DEF CreateInvoice, ItemsInv
  <2>2. QED
    BY <1>1, <2>1 DEF CreateInvoice, PaymentStates
<1>2. ASSUME NEW w \in Calls, Send(w) PROVE DraftInv'
  <2>1. \A c \in Calls : c # w => call'[c] = call[c]
    BY <1>2 DEF Send
  <2>2. /\ pc[w] = "idle" /\ pc' = [pc EXCEPT ![w] = "sent"]
        /\ state' = state /\ ver' = ver /\ claimed' = claimed
    BY <1>2 DEF Send
  <2>3. \A c \in Calls : (pc[c] # "idle" \/ pc'[c] \notin {"idle", "sent"}) =>
                          pc'[c] = pc[c] /\ call'[c] = call[c]
    BY <2>1, <2>2
  <2>4. \A c \in Calls : (Won(c)' <=> Won(c)) /\ (EndsDraft(c)' <=> EndsDraft(c))
    BY <2>2, <2>3
  <2>5. QED
    BY <2>2, <2>3, <2>4
<1>3. ASSUME NEW w \in Calls, call' = call, state' = state, ver' = ver, claimed' = claimed,
             \A c \in Calls \ {w} : pc'[c] = pc[c],
             pc'[w] \in EditPcs \cup {"done"} => pc[w] \in EditPcs,
             pc[w] # "done",
             pc'[w] = "update" /\ call[w].op = "void" => Current(w) /\ state = "draft"
      PROVE DraftInv'
  BY <1>3, <1>a, <1>b
<1>4. ASSUME NEW w \in Calls, EditBump(w) PROVE DraftInv'
  <2>1. /\ state = "draft" /\ state' = state /\ claimed' = claimed /\ call' = call
        /\ ver' = ver + 1 /\ pc' = [pc EXCEPT ![w] = "begin"] /\ call[w].op = "edit"
    BY <1>4 DEF EditBump, Bump, Sent
  <2>2. \A c \in Calls : ~EndsDraft(c)'
    BY <2>1
  <2>3. QED
    BY <2>1, <2>2, <1>a, <1>b
<1>5. ASSUME NEW w \in Calls,
             \/ EditConflict(w) \/ EditSelect(w) \/ EditDueDate(w)
             \/ EditKeepItems(w) \/ EditReply(w) \/ DeleteStart(w) \/ DeleteEnd(w)
             \/ EditCommit(w) \/ EditAborted(w)
      PROVE DraftInv'
  BY <1>3, <1>5 DEF EditConflict, EditSelect, EditDueDate, EditKeepItems,
              EditReply, DeleteStart, DeleteEnd, EditCommit, EditAborted, Sent
<1>6. ASSUME NEW w \in Calls,
             Get(w) \/ FinalizeSelect(w) \/ VoidSelect(w) \/ UpdateConflict(w)
      PROVE DraftInv'
  BY <1>3, <1>6 DEF Get, GetRow, GetItems, FinalizeSelect, VoidSelect, UpdateConflict, Sent,
                    CanTransition, VoidTarget
<1>7. ASSUME NEW w \in Calls, FinalizeUpdate(w) \/ VoidUpdate(w) PROVE DraftInv'
  <2>1. /\ call' = call /\ pc' = [pc EXCEPT ![w] = "done"] /\ call[w].op \in {"finalize", "void"}
        /\ pc[w] = "update" /\ call[w].versioning = ver /\ ver' = ver + 1 /\ claimed' = claimed
        /\ state' = IF call[w].op = "finalize" THEN "open" ELSE "void"
    BY <1>7 DEF FinalizeUpdate, VoidUpdate, Bump
  <2>2. \A c \in Calls : /\ EndsDraft(c)' <=> EndsDraft(c) \/ c = w
                        /\ c # w => (Won(c)' <=> Won(c))
    BY <2>1
  <2>3. \A c \in Calls : Won(c) => call[c].versioning < ver
    BY DEF VersionInv
  <2>4. \A c \in Calls : pc'[c] = "update" /\ call[c].op = "void" => call[c].versioning < ver'
    BY <2>1, <1>a, <1>b
  <2>5. \A e, f \in Calls : Won(e)' /\ call'[e].op = "edit" /\ EndsDraft(f)' =>
                             call'[e].versioning < call'[f].versioning
    BY <2>1, <2>2, <2>3
  <2>6. claimed' \/ state' \in PaymentStates =>
          \E f \in Calls : EndsDraft(f)' /\ call'[f].op = "finalize"
    BY <2>1, <2>2 DEF PaymentStates
  <2>7. QED
    BY <2>1, <2>4, <2>5, <2>6, <1>a, <1>b
<1>8. CASE PayClaim \/ PaySettle
  <2>1. /\ claimed' /\ (claimed \/ state \in PaymentStates) /\ call' = call /\ pc' = pc
        /\ state' \in PaymentStates
    BY <1>8, Zenon DEF PayClaim, PaySettle, PaymentStates
  <2>2. ver' = ver \/ ver' = ver + 1
    BY <1>8 DEF PayClaim, PaySettle, Bump
  <2>3. state # "draft"
    BY <2>1 DEF PaymentStates
  <2>4. \A c \in Calls : (Won(c)' <=> Won(c)) /\ (EndsDraft(c)' <=> EndsDraft(c))
    BY <2>1
  <2>5. \A c \in Calls : pc'[c] = "update" /\ call'[c].op = "void" => call'[c].versioning < ver'
    BY <2>1, <2>2, <2>3, <1>a, <1>b
  <2>6. state' \notin {"absent", "draft"}
    BY <2>1 DEF PaymentStates
  <2>7. QED
    BY <2>1, <2>2, <2>4, <2>5, <2>6, <1>a, <1>b
<1>9. CASE UNCHANGED vars
  BY <1>9 DEF vars
<1>10. QED
  BY <1>1, <1>2, <1>4, <1>5, <1>6, <1>7, <1>8, <1>9 DEF Next, Service, Edit, Finalize, Void

\* DraftInv always holds.
LEMMA DraftInvariance == Spec => [](TypeOK /\ VersionInv /\ DraftInv)
<1>1. Init => DraftInv
  BY DEF Init, DraftInv, EndsDraft, Won, EditPcs, PaymentStates
<1>2. QED
  BY <1>1, NextDraftInv, VersionInvariance, ItemsInvariance, PTL DEF Spec

\* Line items and total change at the commit of an edit only.
LEMMA OnlyCommitsChange ==
  ASSUME [Next]_vars, state # "absent", <<items, total>>' # <<items, total>>
  PROVE  \E c \in Calls : EditCommit(c)
<1> USE DEF row
<1>1. ASSUME NEW c \in Calls,
             \/ Send(c) \/ Get(c) \/ Finalize(c) \/ Void(c) \/ UpdateConflict(c)
      PROVE  items' = items /\ total' = total
  BY <1>1 DEF Send, Get, GetRow, GetItems, Finalize, FinalizeSelect, FinalizeUpdate, Void,
              VoidSelect, VoidUpdate, UpdateConflict
<1>2. ASSUME NEW c \in Calls, Edit(c), ~EditCommit(c)
      PROVE  items' = items /\ total' = total
  BY <1>2 DEF Edit, EditBump, EditConflict, EditSelect, EditDueDate, EditKeepItems, EditReply,
              DeleteStart, DeleteEnd, EditAborted
<1>3. CASE PayClaim \/ PaySettle \/ UNCHANGED vars
  BY <1>3 DEF PayClaim, PaySettle, vars
<1>4. QED
  BY <1>1, <1>2, <1>3 DEF Next, Service, CreateInvoice

\* Whoever changes what an invoice is for was let in before the draft ended, whatever
\* versions clients guess and however late the change comes.
THEOREM OnlyThoseLetInChange == Spec => ChangesWereLetIn
<1>1. ASSUME DraftInv, [Next]_vars, state # "absent", <<items, total>>' # <<items, total>>
      PROVE  \E c \in Calls :
               /\ pc[c] = "insert"
               /\ \A f \in Calls : EndsDraft(f) => call[c].versioning < call[f].versioning
  <2>1. PICK c \in Calls : EditCommit(c)
    BY <1>1, OnlyCommitsChange
  <2>2. pc[c] = "insert" /\ Won(c) /\ call[c].op = "edit"
    BY <1>1, <2>1 DEF EditCommit, Won, EditPcs, DraftInv
  <2>3. QED
    BY <1>1, <2>2 DEF DraftInv
<1>2. DraftInv /\ [Next]_vars =>
        [state # "absent" /\ <<items, total>>' # <<items, total>> =>
           \E c \in Calls :
             /\ pc[c] = "insert"
             /\ \A f \in Calls :
                  EndsDraft(f) => call[c].versioning < call[f].versioning]_vars
  BY <1>1
<1>3. QED
  BY <1>2, DraftInvariance, PTL DEF Spec, ChangesWereLetIn
=============================================================================
