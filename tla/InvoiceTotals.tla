---------------------------- MODULE InvoiceTotals ----------------------------
(***************************************************************************)
(* The arithmetic of an invoice (services/invoices.rs): what create and    *)
(* edit make of the line items they are sent, in the order they check      *)
(* them.  Quantities are i32 and amounts i64; products and sums are i64    *)
(* and wrap in the release build.  Here a word runs from -Half to Half - 1.*)
(* One invoice, one edit at a time; what the other calls do between the    *)
(* two transactions of an edit is told by what the second one meets.       *)
(* InvoiceLifecycle has the interleavings.                                 *)
(***************************************************************************)
EXTENDS Integers, Sequences

CONSTANTS
  Half,          \* half the number of values of an i64: 2^63
  Quantities,    \* what clients send as quantity
  Amounts,       \* and as unit_amount_cents
  MaxItems,      \* bound on the length of a list
  MaxVersion     \* bound on the invoice's version

Words == -Half..(Half - 1)

ASSUME WidthAssumption == Half \in Nat \ {0}
ASSUME InputAssumption == Quantities \subseteq Words /\ Amounts \subseteq Words
ASSUME BoundsAssumption == MaxItems \in Nat /\ MaxVersion \in Nat \ {0}

VARIABLES
  list,     \* the line items a client is about to send
  stored,   \* invoice_line_items, <<>> before the invoice exists
  total,    \* invoices.total_cents
  ver,      \* invoices.versioning, 0 before the invoice exists
  left,     \* whether the invoice has been finalized or voided
  reply     \* what became of the last call

vars == <<list, stored, total, ver, left, reply>>

Item == [quantity : Quantities, amount : Amounts]
ListOK(l) == l \in Seq(Item) /\ Len(l) <= MaxItems

TypeOK ==
  /\ ListOK(list)
  /\ ListOK(stored)
  /\ total \in Words
  /\ ver \in 0..MaxVersion
  /\ left \in BOOLEAN
  /\ reply \in {"none", "ok", "refused"}

Init ==
  /\ list = <<>> /\ stored = <<>> /\ total = 0
  /\ ver = 0 /\ left = FALSE /\ reply = "none"

\* Mutant of Wrap: numbers without end.
WrapNever(n) == n

Wrap(n) == ((n + Half) % (2 * Half)) - Half

\* Mutant of Sums: the quantities are forgotten.
SumsOfAmounts(l) ==
  LET s[n \in 0..Len(l)] == IF n = 0 THEN 0 ELSE Wrap(s[n - 1] + l[n].amount) IN s

\* The sums over the first items of a list: each product and each sum wraps.
Sums(l) ==
  LET s[n \in 0..Len(l)] ==
        IF n = 0 THEN 0 ELSE Wrap(s[n - 1] + Wrap(l[n].quantity * l[n].amount))
  IN  s

Sum(l) == Sums(l)[Len(l)]

\* The handler of a creation turns an empty list away.
NotEmpty(l) == l # <<>>

Positive(i) == i.quantity > 0 /\ i.amount > 0

\* Mutant of ItemsChecked: the table's CHECK constraints are left to do it.
ItemsUnchecked(l) == l # <<>>

\* What an edit looks at before anything else.
ItemsChecked(l) == l # <<>> /\ \A k \in DOMAIN l : Positive(l[k])

-----------------------------------------------------------------------------
\* The client writes the list for its next call.
Compose(i) ==
  /\ Len(list) < MaxItems
  /\ list' = Append(list, i)
  /\ UNCHANGED <<stored, total, ver, left, reply>>

Refuse == reply' = "refused" /\ list' = <<>>

\* Mutant of CreateRefused: no transaction, so what was inserted before the bad item
\* stays.
CreateStopped(l) ==
  /\ Refuse
  /\ IF l # <<>> /\ Sum(l) > 0 /\ ~Positive(l[Len(l)])
     THEN stored' = SubSeq(l, 1, Len(l) - 1) /\ total' = Sum(l) /\ ver' = 1
     ELSE UNCHANGED <<stored, total, ver>>
  /\ UNCHANGED left

\* No such customer, no items, the total, a past due date, and last the items one by
\* one: all that was inserted by then is rolled back.
CreateRefused(l) ==
  /\ Refuse
  /\ UNCHANGED <<stored, total, ver, left>>

Create(ownCustomer, due) ==
  /\ ver = 0
  /\ IF /\ NotEmpty(list) /\ ownCustomer /\ Sum(list) > 0 /\ due # "past"
        /\ \A k \in DOMAIN list : Positive(list[k])
     THEN /\ stored' = list
          /\ total' = Sum(list)
          /\ ver' = 1
          /\ reply' = "ok"
          /\ list' = <<>>
          /\ UNCHANGED left
     ELSE CreateRefused(list)

\* The invoice is finalized or voided.
Leave ==
  /\ ver \in 1..(MaxVersion - 1)
  /\ ~left
  /\ left' = TRUE
  /\ ver' = ver + 1
  /\ UNCHANGED <<list, stored, total, reply>>

\* Refused before the version is counted up: a list that fails the check, a stale
\* version, or an invoice that is no longer a draft.
EditRefused ==
  /\ ver > 0
  /\ Refuse
  /\ UNCHANGED <<stored, total, ver, left>>

\* The version is counted up and committed without a look at the business.  What the
\* edit's transaction then meets: the caller's own draft; another business's invoice;
\* one that has been finalized or voided since; or the failure of one of its
\* statements.
Meetings == {"draft", "others", "left", "failure"}

SpendVersion(meets) ==
  /\ ver > 0
  /\ ~left
  /\ ver' = IF meets = "left" THEN ver + 2 ELSE ver + 1
  /\ ver' <= MaxVersion
  /\ left' = (meets = "left")

\* An edit without line items.
EditDueDate(due, meets) ==
  /\ SpendVersion(meets)
  /\ reply' = IF meets = "draft" /\ due # "past" THEN "ok" ELSE "refused"
  /\ list' = <<>>
  /\ UNCHANGED <<stored, total>>

\* After the version the due date and the total are looked at, and the table looks at
\* the items.
EditItems(due, meets) ==
  /\ ItemsChecked(list)
  /\ SpendVersion(meets)
  /\ IF /\ meets = "draft" /\ due # "past" /\ Sum(list) > 0
        /\ \A k \in DOMAIN list : Positive(list[k])
     THEN /\ stored' = list
          /\ total' = Sum(list)
          /\ reply' = "ok"
          /\ list' = <<>>
     ELSE Refuse /\ UNCHANGED <<stored, total>>

DueDates == {"none", "valid", "past"}

Next ==
  \/ \E i \in Item : Compose(i)
  \/ \E ownCustomer \in BOOLEAN, due \in DueDates \ {"none"} : Create(ownCustomer, due)
  \/ Leave
  \/ EditRefused
  \/ \E due \in DueDates, meets \in Meetings : EditDueDate(due, meets) \/ EditItems(due, meets)

Spec == Init /\ [][Next]_vars

-----------------------------------------------------------------------------
\* The sum as a reader of the invoice would compute it.
TrueSums(l) ==
  LET s[n \in 0..Len(l)] ==
        IF n = 0 THEN 0 ELSE s[n - 1] + l[n].quantity * l[n].amount
  IN  s

TrueSum(l) == TrueSums(l)[Len(l)]

\* An invoice that exists has line items, all positive, and a positive total, although
\* create looks at the total before it has looked at a single item and inserts the
\* row before it rejects one.
StoredIsSound ==
  IF ver = 0 THEN stored = <<>>
  ELSE stored # <<>> /\ total > 0 /\ \A k \in DOMAIN stored : Positive(stored[k])

\* The stored total is the sum of the stored items unless that is beyond twice the
\* range of an i64: the check against 0 catches every smaller overflow.
TotalIsTheSum ==
  ver > 0 => total = TrueSum(stored) \/ TrueSum(stored) > 2 * Half

\* An edit with line items that is refused after it has used up its version was refused
\* for what its transaction met (another business's invoice, the end of the draft, a
\* failed statement), for a past due date, or for a sum that is out of range: whatever
\* else is wrong with the items is told before the version is spent.
SpentInVain ==
  [][\A due \in DueDates, meets \in Meetings :
       EditItems(due, meets) /\ reply' = "refused" =>
         meets # "draft" \/ due = "past" \/ TrueSum(list) >= Half]_vars
=============================================================================
