---------------------------- MODULE TotalsProofs ----------------------------
(***************************************************************************)
(* The arithmetic of an invoice for any word size and any items.  The      *)
(* running sums are recursive functions; what they compute is shown by     *)
(* induction over the length, in the form of a set of lengths that is      *)
(* closed under taking one more item.                                      *)
(***************************************************************************)
EXTENDS InvoiceTotals, WellFoundedInduction, TLAPS

\* Induction up to n over a set of numbers.
LEMMA UpTo ==
  ASSUME NEW n \in Nat, NEW T, 0 \in T, \A k \in 1..n : k - 1 \in T => k \in T
  PROVE  0..n \subseteq T
<1> DEFINE missing == {k \in 0..n : k \notin T}
<1>1. SUFFICES ASSUME missing # {} PROVE FALSE
  OBVIOUS
<1>2. missing \subseteq Nat
  OBVIOUS
<1>3. PICK k \in missing : \A j \in missing : ~ (<<j, k>> \in OpToRel(<, Nat))
  BY <1>1, <1>2, NatLessThanWellFounded, WFMin
<1>4. k \in 1..n
  OBVIOUS
<1>5. k - 1 \in missing
  BY <1>4
<1>6. <<k - 1, k>> \in OpToRel(<, Nat)
  BY <1>4 DEF OpToRel
<1>7. QED
  BY <1>3, <1>5, <1>6

\* A running computation over m items: from 0, step by step, by G.
IsRun(s, m, G) ==
  s \in [0..m -> Int] /\ s[0] = 0 /\ \A k \in 1..m : s[k] = G[<<s[k - 1], k>>]

\* A running computation exists for any number of items.
LEMMA RunExists ==
  ASSUME NEW n \in Nat, NEW G \in [Int \X (1..n) -> Int]
  PROVE  \E s : IsRun(s, n, G)
<1> DEFINE T == {m \in 0..n : \E s : IsRun(s, m, G)}
<1>1. 0 \in T
  <2>1. IsRun([k \in 0..0 |-> 0], 0, G)
    BY DEF IsRun
  <2>2. QED
    BY <2>1
<1>2. ASSUME NEW k \in 1..n, k - 1 \in T PROVE k \in T
  <2>1. PICK s : IsRun(s, k - 1, G)
    BY <1>2
  <2>2. s[k - 1] \in Int /\ G[<<s[k - 1], k>>] \in Int
    BY <2>1 DEF IsRun
  <2>3. PICK more : more = [j \in 0..k |-> IF j = k THEN G[<<s[k - 1], k>>] ELSE s[j]]
    OBVIOUS
  <2>4. more \in [0..k -> Int]
    BY <2>1, <2>2, <2>3 DEF IsRun
  <2>5. \A j \in 0..(k - 1) : more[j] = s[j]
    BY <2>3
  <2>6. more[k] = G[<<more[k - 1], k>>]
    <3>1. more[k] = G[<<s[k - 1], k>>]
      BY <2>3
    <3>2. more[k - 1] = s[k - 1]
      BY <2>5
    <3>3. QED
      BY <3>1, <3>2
  <2>7. more[0] = 0 /\ \A j \in 1..(k - 1) : more[j] = G[<<more[j - 1], j>>]
    BY <2>1, <2>5 DEF IsRun
  <2>8. IsRun(more, k, G)
    <3>1. \A j \in 1..k : j = k \/ j \in 1..(k - 1)
      OBVIOUS
    <3>2. QED
      BY <2>4, <2>6, <2>7, <3>1 DEF IsRun
  <2>9. QED
    BY <2>8
<1> HIDE DEF T
<1>3. 0..n \subseteq T
  BY <1>1, <1>2, UpTo
<1>4. QED
  BY <1>3 DEF T

-----------------------------------------------------------------------------
\* Words wrap: the result is a word and differs by a multiple of the range.
LEMMA WrapIsWord ==
  ASSUME NEW n \in Int
  PROVE  Wrap(n) \in Words /\ \E k \in Int : n = Wrap(n) + k * (2 * Half)
<1>1. 2 * Half \in Nat \ {0} /\ n + Half \in Int
  BY WidthAssumption
<1> DEFINE d == 2 * Half
<1> DEFINE x == n + Half
<1> HIDE DEF d, x
<1>2. x % d \in 0..(d - 1) /\ x \div d \in Int /\ x = d * (x \div d) + (x % d)
  <2>1. x \in Int /\ d \in Nat \ {0}
    BY <1>1 DEF x, d
  <2>2. QED
    BY <2>1
<1>3. Wrap(n) = (x % d) - Half
  BY DEF Wrap, x, d
<1>4. n = Wrap(n) + (x \div d) * d
  BY <1>2, <1>3, <1>1, WidthAssumption DEF x, d
<1>5. Wrap(n) \in Words
  BY <1>1, <1>2, <1>3, WidthAssumption DEF d, Words
<1>6. QED
  BY <1>2, <1>4, <1>5 DEF d

\* Line items are of numbers.
LEMMA ItemsAreNumbers ==
  ASSUME NEW l, ListOK(l), NEW k \in 1..Len(l)
  PROVE  l[k].quantity \in Int /\ l[k].amount \in Int /\ l[k].quantity * l[k].amount \in Int
<1>1. l[k] \in Item
  BY DEF ListOK
<1>2. l[k].quantity \in Words /\ l[k].amount \in Words
  BY <1>1, InputAssumption DEF Item
<1>3. l[k].quantity \in Int /\ l[k].amount \in Int
  BY <1>2, WidthAssumption DEF Words
<1>4. QED
  BY <1>3

-----------------------------------------------------------------------------
\* The running sums of the code: the equations they are defined by have a solution, and
\* every sum is a word.
LEMMA SumsAreWords ==
  ASSUME NEW l, ListOK(l)
  PROVE  /\ Sums(l)[0] = 0
         /\ \A k \in 1..Len(l) :
              Sums(l)[k] = Wrap(Sums(l)[k - 1] + Wrap(l[k].quantity * l[k].amount))
         /\ \A k \in 0..Len(l) : Sums(l)[k] \in Words
<1> DEFINE N == Len(l)
<1> DEFINE Term(k) == Wrap(l[k].quantity * l[k].amount)
<1> DEFINE Solves(f) == f = [n \in 0..N |-> IF n = 0 THEN 0 ELSE Wrap(f[n - 1] + Term(n))]
<1>1. N \in Nat
  BY DEF ListOK
<1>2. \A x \in Int : Wrap(x) \in Words /\ Wrap(x) \in Int
  BY WrapIsWord, WidthAssumption DEF Words
<1>3. ASSUME NEW k \in 1..N PROVE Term(k) \in Int
  BY <1>2, ItemsAreNumbers
<1> HIDE DEF Term
<1>4. \E f : Solves(f)
  <2> DEFINE G == [p \in Int \X (1..N) |-> Wrap(p[1] + Term(p[2]))]
  <2>1. G \in [Int \X (1..N) -> Int]
    BY <1>2, <1>3
  <2>2. \A x \in Int, k \in 1..N : G[<<x, k>>] = Wrap(x + Term(k))
    OBVIOUS
  <2> HIDE DEF G, N
  <2>3. PICK f : IsRun(f, N, G)
    BY <1>1, <2>1, RunExists
  <2>4. ASSUME NEW k \in 1..N PROVE f[k] = Wrap(f[k - 1] + Term(k))
    <3>1. f[k - 1] \in Int /\ f[k] = G[<<f[k - 1], k>>]
      BY <1>1, <2>3 DEF IsRun
    <3>2. QED
      BY <2>2, <3>1
  <2>5. f = [n \in 0..N |-> IF n = 0 THEN 0 ELSE Wrap(f[n - 1] + Term(n))]
    BY <2>3, <2>4, <1>1 DEF IsRun
  <2>6. QED
    BY <2>5
<1>5. Sums(l) = CHOOSE f : Solves(f)
  BY DEF Sums, Term
<1>6. Solves(Sums(l))
  BY <1>4, <1>5
<1> HIDE DEF N
<1>7. Sums(l)[0] = 0 /\ \A k \in 1..N : Sums(l)[k] = Wrap(Sums(l)[k - 1] + Term(k))
  BY <1>1, <1>6
<1> DEFINE T == {k \in 0..N : Sums(l)[k] \in Words}
<1>8. 0 \in T
  BY <1>1, <1>7, WidthAssumption DEF Words
<1>9. ASSUME NEW k \in 1..N, k - 1 \in T PROVE k \in T
  <2>1. Sums(l)[k - 1] + Term(k) \in Int
    BY <1>3, <1>9, WidthAssumption DEF Words
  <2>2. QED
    BY <1>1, <1>2, <1>7, <2>1
<1> HIDE DEF T
<1>10. 0..N \subseteq T
  BY <1>1, <1>8, <1>9, UpTo
<1>11. QED
  BY <1>7, <1>10 DEF T, N, Term

\* The same of the sums without a word size.
LEMMA TrueSumsAreNumbers ==
  ASSUME NEW l, ListOK(l)
  PROVE  /\ TrueSums(l)[0] = 0
         /\ \A k \in 1..Len(l) :
              TrueSums(l)[k] = TrueSums(l)[k - 1] + l[k].quantity * l[k].amount
         /\ \A k \in 0..Len(l) : TrueSums(l)[k] \in Int
<1> DEFINE N == Len(l)
<1> DEFINE Term(k) == l[k].quantity * l[k].amount
<1> DEFINE Solves(f) == f = [n \in 0..N |-> IF n = 0 THEN 0 ELSE f[n - 1] + Term(n)]
<1>1. N \in Nat
  BY DEF ListOK
<1>2. ASSUME NEW k \in 1..N PROVE Term(k) \in Int
  BY ItemsAreNumbers
<1> HIDE DEF Term
<1>3. \E f : Solves(f)
  <2> DEFINE G == [p \in Int \X (1..N) |-> p[1] + Term(p[2])]
  <2>1. G \in [Int \X (1..N) -> Int]
    BY <1>2
  <2>2. \A x \in Int, k \in 1..N : G[<<x, k>>] = x + Term(k)
    OBVIOUS
  <2> HIDE DEF G, N
  <2>3. PICK f : IsRun(f, N, G)
    BY <1>1, <2>1, RunExists
  <2>4. ASSUME NEW k \in 1..N PROVE f[k] = f[k - 1] + Term(k)
    <3>1. f[k - 1] \in Int /\ f[k] = G[<<f[k - 1], k>>]
      BY <1>1, <2>3 DEF IsRun
    <3>2. QED
      BY <2>2, <3>1
  <2>5. f = [n \in 0..N |-> IF n = 0 THEN 0 ELSE f[n - 1] + Term(n)]
    BY <2>3, <2>4, <1>1 DEF IsRun
  <2>6. QED
    BY <2>5
<1>4. TrueSums(l) = CHOOSE f : Solves(f)
  BY DEF TrueSums, Term
<1>5. Solves(TrueSums(l))
  BY <1>3, <1>4
<1> HIDE DEF N
<1>6. TrueSums(l)[0] = 0 /\ \A k \in 1..N : TrueSums(l)[k] = TrueSums(l)[k - 1] + Term(k)
  BY <1>1, <1>5
<1> DEFINE T == {k \in 0..N : TrueSums(l)[k] \in Int}
<1>7. 0 \in T
  BY <1>1, <1>6
<1>8. ASSUME NEW k \in 1..N, k - 1 \in T PROVE k \in T
  BY <1>1, <1>2, <1>6, <1>8
<1> HIDE DEF T
<1>9. 0..N \subseteq T
  BY <1>1, <1>7, <1>8, UpTo
<1>10. QED
  BY <1>6, <1>9 DEF T, N, Term

\* What wraps is congruent to what does not.
Congruent(a, b) == \E k \in Int : b = a + k * (2 * Half)

\* Wrapping changes a number by a multiple of the number of words.
LEMMA WrapIsCongruent ==
  ASSUME NEW n \in Int
  PROVE  Wrap(n) \in Int /\ Congruent(Wrap(n), n)
<1>1. Wrap(n) \in Int
  BY WrapIsWord, WidthAssumption DEF Words
<1>2. QED
  BY <1>1, WrapIsWord DEF Congruent

\* Two such changes make one.
LEMMA CongruentSums ==
  ASSUME NEW a \in Int, NEW b \in Int, NEW c \in Int, Congruent(a, b), Congruent(b, c)
  PROVE  Congruent(a, c)
<1>1. PICK j \in Int : b = a + j * (2 * Half)
  BY DEF Congruent
<1>2. PICK k \in Int : c = b + k * (2 * Half)
  BY DEF Congruent
<1>3. c = a + (j + k) * (2 * Half)
  BY <1>1, <1>2, WidthAssumption
<1>4. QED
  BY <1>3 DEF Congruent

\* Sums of numbers changed so are changed so.
LEMMA CongruentPlus ==
  ASSUME NEW a \in Int, NEW b \in Int, NEW x \in Int, NEW y \in Int,
         Congruent(a, b), Congruent(x, y)
  PROVE  Congruent(a + x, b + y)
<1>1. PICK j \in Int : b = a + j * (2 * Half)
  BY DEF Congruent
<1>2. PICK k \in Int : y = x + k * (2 * Half)
  BY DEF Congruent
<1>3. b + y = (a + x) + (j + k) * (2 * Half)
  BY <1>1, <1>2, WidthAssumption
<1>4. QED
  BY <1>3 DEF Congruent

\* The code's sum is the true one up to multiples of the range.
LEMMA SumIsCongruent ==
  ASSUME NEW l, ListOK(l)
  PROVE  Sum(l) \in Words /\ TrueSum(l) \in Int /\ Congruent(Sum(l), TrueSum(l))
<1> DEFINE T == {k \in 0..Len(l) : Congruent(Sums(l)[k], TrueSums(l)[k])}
<1>1. Len(l) \in Nat
  BY DEF ListOK
<1>2. 0 \in T
  <2>1. 0 = 0 + 0 * (2 * Half)
    BY WidthAssumption
  <2>2. QED
    BY <1>1, <2>1, SumsAreWords, TrueSumsAreNumbers DEF Congruent
<1>3. ASSUME NEW k \in 1..Len(l), k - 1 \in T PROVE k \in T
  <2> DEFINE s == Sums(l)[k - 1]
  <2> DEFINE t == TrueSums(l)[k - 1]
  <2> DEFINE p == l[k].quantity * l[k].amount
  <2>1. s \in Int /\ t \in Int /\ p \in Int /\ Congruent(s, t)
    BY <1>1, <1>3, SumsAreWords, TrueSumsAreNumbers, ItemsAreNumbers, WidthAssumption DEF Words
  <2>2. Sums(l)[k] = Wrap(s + Wrap(p)) /\ TrueSums(l)[k] = t + p
    BY SumsAreWords, TrueSumsAreNumbers
  <2> HIDE DEF s, t, p
  <2>3. Wrap(p) \in Int /\ Congruent(Wrap(p), p)
    BY <2>1, WrapIsCongruent
  <2>4. s + Wrap(p) \in Int /\ t + p \in Int /\ Congruent(s + Wrap(p), t + p)
    <3>1. s + Wrap(p) \in Int /\ t + p \in Int
      BY <2>1, <2>3
    <3>2. QED
      BY <2>1, <2>3, <3>1, CongruentPlus
  <2>5. Wrap(s + Wrap(p)) \in Int /\ Congruent(Wrap(s + Wrap(p)), s + Wrap(p))
    BY <2>4, WrapIsCongruent
  <2>6. Congruent(Sums(l)[k], TrueSums(l)[k])
    BY <2>2, <2>4, <2>5, CongruentSums
  <2>7. QED
    BY <2>6
<1> HIDE DEF T
<1>4. Len(l) \in T
  <2>1. 0..Len(l) \subseteq T
    BY <1>1, <1>2, <1>3, UpTo
  <2>2. QED
    BY <1>1, <2>1
<1>5. QED
  BY <1>1, <1>4, SumsAreWords, TrueSumsAreNumbers DEF T, Sum, TrueSum

\* Positive items have a positive sum.
LEMMA TrueSumIsPositive ==
  ASSUME NEW l, ListOK(l), l # <<>>, \A k \in DOMAIN l : Positive(l[k])
  PROVE  TrueSum(l) > 0
<1> DEFINE T == {k \in 0..Len(l) : k > 0 => TrueSums(l)[k] > 0}
<1>1. Len(l) \in Nat \ {0} /\ DOMAIN l = 1..Len(l)
  BY DEF ListOK
<1>2. 0 \in T
  BY <1>1
<1>3. ASSUME NEW k \in 1..Len(l), k - 1 \in T PROVE k \in T
  <2>1. l[k].quantity * l[k].amount > 0
    <3>1. \A x, y \in Int : x > 0 /\ y > 0 => x * y > 0
      OBVIOUS
    <3>2. QED
      BY <1>1, <3>1, ItemsAreNumbers DEF Positive
  <2>2. TrueSums(l)[k - 1] >= 0 /\ TrueSums(l)[k - 1] \in Int
    BY <1>1, <1>3, TrueSumsAreNumbers
  <2>3. TrueSums(l)[k] = TrueSums(l)[k - 1] + l[k].quantity * l[k].amount
    BY TrueSumsAreNumbers
  <2>4. TrueSums(l)[k] > 0
    BY <2>1, <2>2, <2>3, ItemsAreNumbers
  <2>5. QED
    BY <1>1, <2>4
<1> HIDE DEF T
<1>4. Len(l) \in T
  <2>1. 0..Len(l) \subseteq T
    BY <1>1, <1>2, <1>3, UpTo
  <2>2. QED
    BY <1>1, <2>1
<1>5. QED
  BY <1>1, <1>4 DEF T, TrueSum

\* Two numbers that are congruent and less than the range apart are the same.
LEMMA CongruentIsEqual ==
  ASSUME NEW a \in Int, NEW b \in Int, Congruent(a, b),
         b - a < 2 * Half, a - b < 2 * Half
  PROVE  a = b
<1>1. PICK k \in Int : b = a + k * (2 * Half)
  BY DEF Congruent
<1>2. CASE k >= 1
  <2>1. k * (2 * Half) >= 2 * Half
    BY <1>2, WidthAssumption
  <2>2. QED
    BY <1>1, <2>1, WidthAssumption
<1>3. CASE k <= -1
  <2>1. k * (2 * Half) <= -(2 * Half)
    BY <1>3, WidthAssumption
  <2>2. QED
    BY <1>1, <2>1, WidthAssumption
<1>4. CASE k = 0
  BY <1>1, <1>4, WidthAssumption
<1>5. QED
  BY <1>2, <1>3, <1>4

-----------------------------------------------------------------------------
\* What create and edit store together.
Stored ==
  ver > 0 => total = Sum(stored) /\ total > 0

IInv == TypeOK /\ StoredIsSound /\ Stored

\* The sum of a client's list is a word.
LEMMA SumOfList == TypeOK => Sum(list) \in Words
  BY SumIsCongruent DEF TypeOK

\* A list within the bound grows to a list within the bound.
LEMMA ListsGrow ==
  ASSUME TypeOK, NEW i \in Item, Compose(i)
  PROVE  ListOK(list')
<1>1. list \in Seq(Item) /\ Len(list) < MaxItems /\ list' = Append(list, i)
  BY DEF TypeOK, ListOK, Compose
<1>2. list' \in Seq(Item) /\ Len(list') = Len(list) + 1
  BY <1>1
<1>3. QED
  BY <1>1, <1>2, BoundsAssumption DEF ListOK

\* The empty list is a list.
LEMMA EmptyListOK == ListOK(<<>>)
  BY BoundsAssumption DEF ListOK

\* There is no invoice at first.
LEMMA InitIInv == Init => IInv
<1>1. Init => left \in BOOLEAN
  BY Zenon DEF Init
<1>2. QED
  BY <1>1, EmptyListOK, WidthAssumption, BoundsAssumption
     DEF Init, IInv, TypeOK, StoredIsSound, Stored, Words

\* Every step keeps the inductive invariant.
LEMMA NextIInv == IInv /\ [Next]_vars => IInv'
<1> SUFFICES ASSUME IInv, [Next]_vars PROVE IInv'
  OBVIOUS
<1>1. total \in Int /\ ver \in Nat /\ Sum(list) \in Words /\ ListOK(<<>>)
  BY SumOfList, EmptyListOK, WidthAssumption, BoundsAssumption DEF IInv, TypeOK, Words
<1> USE DEF IInv, TypeOK, StoredIsSound, Stored
<1>2. ASSUME NEW i \in Item, Compose(i) PROVE IInv'
  BY <1>2, ListsGrow DEF Compose
<1>3. ASSUME NEW own \in BOOLEAN, NEW due \in DueDates, Create(own, due) PROVE IInv'
  <2>1. CASE ~ CreateRefused(list)
    <3>1. /\ stored' = list /\ total' = Sum(list) /\ Sum(list) > 0 /\ ver' = 1
          /\ reply' = "ok" /\ list' = <<>> /\ ver = 0 /\ left' = left
          /\ list # <<>> /\ \A k \in DOMAIN list : Positive(list[k])
      BY <1>3, <2>1 DEF Create, NotEmpty
    <3>2. QED
      BY <1>1, <3>1, BoundsAssumption
  <2>2. CASE CreateRefused(list)
    BY <1>1, <2>2 DEF CreateRefused, Refuse
  <2>3. QED
    BY <1>3, <2>1, <2>2 DEF Create
<1>4. CASE EditRefused
  BY <1>1, <1>4 DEF EditRefused, Refuse
<1>a. ASSUME NEW meets \in Meetings, SpendVersion(meets)
      PROVE  ver > 0 /\ ver' > 0 /\ ver' \in 0..MaxVersion /\ left' \in BOOLEAN
  BY <1>1, <1>a, BoundsAssumption DEF SpendVersion
<1>5. ASSUME NEW due \in DueDates, NEW meets \in Meetings, EditDueDate(due, meets) PROVE IInv'
  BY <1>1, <1>5, <1>a DEF EditDueDate
<1>6. ASSUME NEW due \in DueDates, NEW meets \in Meetings, EditItems(due, meets) PROVE IInv'
  BY <1>1, <1>6, <1>a DEF EditItems, ItemsChecked, Refuse
<1>7. CASE UNCHANGED vars
  BY <1>7 DEF vars
<1>8. CASE Leave
  BY <1>1, <1>8, BoundsAssumption DEF Leave
<1>9. QED
  BY <1>2, <1>3, <1>4, <1>5, <1>6, <1>7, <1>8 DEF Next

\* The inductive invariant always holds.
LEMMA Invariance == Spec => []IInv
  BY InitIInv, NextIInv, PTL DEF Spec

\* Totals are words, the lists are lists of items.
THEOREM TypeCorrect == Spec => []TypeOK
  BY Invariance, PTL DEF IInv

\* An invoice that exists has items, all of them positive, and a positive total.
THEOREM StoredSound == Spec => []StoredIsSound
  BY Invariance, PTL DEF IInv

\* The check of the total against 0 catches every overflow of a sum up to twice the
\* range of a word, at any word size.
THEOREM TotalsAreSums == Spec => []TotalIsTheSum
<1>1. IInv => TotalIsTheSum
  <2> SUFFICES ASSUME IInv, ver > 0, ~ (TrueSum(stored) > 2 * Half)
               PROVE  total = TrueSum(stored)
    BY DEF TotalIsTheSum
  <2>1. ListOK(stored) /\ total = Sum(stored) /\ total > 0
    BY DEF IInv, TypeOK, Stored
  <2>2. TrueSum(stored) > 0
    <3>1. stored # <<>> /\ \A k \in DOMAIN stored : Positive(stored[k])
      BY BoundsAssumption DEF IInv, TypeOK, StoredIsSound
    <3>2. QED
      BY <2>1, <3>1, TrueSumIsPositive
  <2>3. /\ total \in Int /\ TrueSum(stored) \in Int /\ Congruent(total, TrueSum(stored))
        /\ total < Half
    BY <2>1, SumIsCongruent, WidthAssumption DEF Words
  <2>4. TrueSum(stored) - total < 2 * Half /\ total - TrueSum(stored) < 2 * Half
    BY <2>1, <2>2, <2>3, WidthAssumption
  <2>5. QED
    BY <2>3, <2>4, CongruentIsEqual
<1>2. QED
  BY <1>1, Invariance, PTL

\* An edit with items that is refused at the cost of its version was refused for another
\* business's invoice, the end of the draft, a failed statement, a past due date, or a
\* sum that is no word.
THEOREM RefusalsAreJustified == Spec => SpentInVain
<1> DEFINE Justified == \A due \in DueDates, meets \in Meetings :
                          EditItems(due, meets) /\ reply' = "refused" =>
                            meets # "draft" \/ due = "past" \/ TrueSum(list) >= Half
<1>1. IInv /\ [Next]_vars => [Justified]_vars
  <2> SUFFICES ASSUME IInv, NEW due \in DueDates, EditItems(due, "draft"), reply' = "refused",
                      due # "past", ~ (TrueSum(list) >= Half)
               PROVE  FALSE
    OBVIOUS
  <2>1. /\ ListOK(list) /\ list # <<>> /\ \A k \in DOMAIN list : Positive(list[k])
        /\ ~ (Sum(list) > 0)
    BY DEF IInv, TypeOK, EditItems, ItemsChecked
  <2>2. TrueSum(list) > 0
    BY <2>1, TrueSumIsPositive
  <2>3. /\ Sum(list) \in Int /\ TrueSum(list) \in Int /\ -Half <= Sum(list)
        /\ Congruent(Sum(list), TrueSum(list))
    BY <2>1, SumIsCongruent, WidthAssumption DEF Words
  <2>4. /\ TrueSum(list) - Sum(list) < 2 * Half /\ Sum(list) - TrueSum(list) < 2 * Half
    BY <2>1, <2>2, <2>3, WidthAssumption
  <2>5. QED
    BY <2>1, <2>2, <2>3, <2>4, CongruentIsEqual
<1>2. QED
  BY <1>1, Invariance, PTL DEF Spec, SpentInVain
=============================================================================
