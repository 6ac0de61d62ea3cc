-------------------------- MODULE PaginationProofs --------------------------
(***************************************************************************)
(* What the page arithmetic of the listings gives for every page, size and *)
(* number of rows, however many bits an int has.                           *)
(***************************************************************************)
EXTENDS Pagination, FiniteSetTheorems, TLAPS

\* A quotient, without its remainder.
LEMMA Quotient ==
  ASSUME NEW a \in Nat, NEW b \in Nat \ {0}
  PROVE  /\ a \div b \in Nat
         /\ (a \div b) * b <= a
         /\ a < (a \div b) * b + b
  BY SMT

LEMMA Monotone ==
  ASSUME NEW a \in Nat, NEW b \in Nat, NEW c \in Nat, a <= b
  PROVE  a * c <= b * c
  BY SMT

LEMMA Distributes ==
  ASSUME NEW a \in Int, NEW c \in Int
  PROVE  (a - 1) * c = a * c - c /\ (a + 1) * c = a * c + c
  BY SMT

\* An int keeps what fits into it.
LEMMA WrappedKeeps ==
  ASSUME NEW n \in 0..MaxInt
  PROVE  Wrapped(n) = n
  BY PaginationAssumption DEF Wrapped

LEMMA WrappedFits ==
  ASSUME NEW n \in Int
  PROVE  Wrapped(n) \in Int /\ Wrapped(n) <= MaxInt
  BY PaginationAssumption DEF Wrapped

-----------------------------------------------------------------------------
(* Offsets *)

LEMMA Sizes ==
  ASSUME NEW page \in Int, NEW size \in Int, ActivityListable(page, size)
  PROVE  /\ PageOf(page) \in Nat \ {0} /\ SizeOf(size) \in 1..MaxSize
         /\ SizeOf(size) \in Nat \ {0} /\ SizeOf(size) <= MaxInt
  BY PaginationAssumption DEF ActivityListable, InBounds, PageOf, SizeOf

\* The guard of List and of the users' listing does what it is for: whatever page
\* and size a request names, the product is computed only when it fits
\* (issues.go:81-84, users.go:174-177).
THEOREM OffsetFits ==
  ASSUME NEW page \in Int, NEW size \in Int, Listable(page, size)
  PROVE  Offset(PageOf(page), SizeOf(size)) = (PageOf(page) - 1) * SizeOf(size)
<1> DEFINE p == PageOf(page)  s == SizeOf(size)
<1>1. p \in Nat \ {0} /\ s \in Nat \ {0} /\ s <= MaxInt
  BY Sizes DEF Listable, ActivityListable
<1>2. p - 1 <= MaxInt \div s
  <2>1. ~TooLarge(p, s)  BY DEF Listable
  <2> HIDE DEF p, s
  <2>2. MaxInt \div s \in Int  BY <1>1, PaginationAssumption, Quotient
  <2> QED  BY <1>1, <2>1, <2>2 DEF TooLarge
<1> HIDE DEF p, s
<1>3. MaxInt \div s \in Nat /\ (MaxInt \div s) * s <= MaxInt
  BY <1>1, PaginationAssumption, Quotient
<1>4. p - 1 \in Nat  BY <1>1
<1>5. (p - 1) * s <= (MaxInt \div s) * s
  <2> DEFINE a == p - 1  b == MaxInt \div s
  <2>1. a \in Nat /\ b \in Nat /\ s \in Nat /\ a <= b  BY <1>1, <1>2, <1>3, <1>4
  <2> HIDE DEF a, b
  <2>2. a * s <= b * s  BY <2>1, Monotone
  <2> QED  BY <2>2 DEF a, b
<1>6. (p - 1) * s \in Nat  BY <1>1, <1>4
<1>7. (MaxInt \div s) * s \in Nat  BY <1>1, <1>3
<1>8. (p - 1) * s \in 0..MaxInt  BY <1>3, <1>5, <1>6, <1>7, PaginationAssumption
<1>9. Offset(p, s) = (p - 1) * s  BY <1>8, WrappedKeeps DEF Offset
<1> QED  BY <1>9 DEF p, s

\* ListActivity has no such guard: there are pages whose offset is another one
\* (issues.go:230-247).
THEOREM ActivityOffsetWraps ==
  ASSUME MaxSize >= 2, MaxInt >= 3
  PROVE  \E page, size \in Int :
           /\ ActivityListable(page, size)
           /\ Offset(PageOf(page), SizeOf(size)) # (PageOf(page) - 1) * SizeOf(size)
<1>1. ActivityListable(MaxInt, 2)
  BY PaginationAssumption DEF ActivityListable, InBounds, PageOf, SizeOf
<1>2. PageOf(MaxInt) = MaxInt /\ SizeOf(2) = 2
  BY PaginationAssumption DEF PageOf, SizeOf
<1>3. (MaxInt - 1) * 2 \in Int /\ (MaxInt - 1) * 2 > MaxInt  BY PaginationAssumption
<1>4. Offset(MaxInt, 2) <= MaxInt /\ Offset(MaxInt, 2) \in Int
  BY <1>3, WrappedFits DEF Offset
<1>5. Offset(MaxInt, 2) # (MaxInt - 1) * 2  BY <1>3, <1>4, PaginationAssumption
<1> QED  BY <1>1, <1>2, <1>5, PaginationAssumption

LEMMA PagesCover ==
  ASSUME NEW total \in Nat \ {0}, NEW s \in Nat \ {0}
  PROVE  /\ TotalPages(total, s) \in Nat \ {0}
         /\ total <= TotalPages(total, s) * s
         /\ TotalPages(total, s) * s < total + s
<1> DEFINE q == (total + s - 1) \div s
<1>1. total + s - 1 \in Nat  BY SMT
<1>2. q \in Nat /\ q * s <= total + s - 1 /\ total + s - 1 < q * s + s
  BY <1>1, Quotient
<1>3. TotalPages(total, s) = q  BY DEF TotalPages
<1> HIDE DEF q
<1>4. q * s \in Int  BY <1>2
<1>5. q # 0  BY <1>2
<1> QED  BY <1>2, <1>3, <1>4, <1>5

\* And yet no wrong page is answered: when the offset has wrapped, the page is
\* beyond the last one and is refused after the rows were read (issues.go:247-257).
THEOREM ActivityAnswersExact ==
  ASSUME NEW page \in Int, NEW size \in Int, NEW total \in 0..MaxInt,
         ActivityListable(page, size), Answerable(page, total, size)
  PROVE  Offset(PageOf(page), SizeOf(size)) = (PageOf(page) - 1) * SizeOf(size)
<1> DEFINE p == PageOf(page)  s == SizeOf(size)
<1>1. p \in Nat \ {0} /\ s \in Nat \ {0}  BY Sizes
<1>2. InRange(p, TotalPages(total, s))  BY DEF Answerable
<1> HIDE DEF p, s
<1>3. (p - 1) * s \in 0..MaxInt
  <2>1. CASE p = 1
    <3>1. (p - 1) * s = 0  BY <1>1, <2>1
    <3> QED  BY <3>1, PaginationAssumption
  <2>2. CASE p # 1
    <3> DEFINE t == TotalPages(total, s)
    <3>1. total # 0
      <4>1. ASSUME total = 0 PROVE FALSE
        <5>1. t = 0  BY <4>1 DEF TotalPages
        <5> QED  BY <5>1, <1>1, <1>2, <2>2 DEF InRange, Larger
      <4> QED  BY <4>1
    <3>2. total \in Nat \ {0}  BY <3>1, PaginationAssumption
    <3>3. t \in Nat \ {0} /\ t * s < total + s  BY <3>2, <1>1, PagesCover
    <3>4. p <= t  BY <1>1, <1>2, <3>3 DEF InRange, Larger
    <3> HIDE DEF t
    <3>5. p * s <= t * s  BY <1>1, <3>3, <3>4, Monotone
    <3>6. (p - 1) * s = p * s - s  BY <1>1, Distributes
    <3>7. p * s \in Int /\ t * s \in Int  BY <1>1, <3>3
    <3>8. (p - 1) * s < total  BY <1>1, <3>2, <3>3, <3>5, <3>6, <3>7
    <3>9. p - 1 \in Nat  BY <1>1
    <3>10. (p - 1) * s \in Nat  BY <1>1, <3>9
    <3> QED  BY <3>2, <3>8, <3>10, PaginationAssumption
  <2> QED  BY <2>1, <2>2
<1>4. Offset(p, s) = (p - 1) * s  BY <1>3, WrappedKeeps DEF Offset
<1> QED  BY <1>4 DEF p, s

-----------------------------------------------------------------------------
(* Pages *)

LEMMA RankBounds ==
  ASSUME NEW S \in SUBSET Int, IsFiniteSet(S), NEW i \in Int
  PROVE  /\ Rank(i, S) \in Nat /\ Rank(i, S) <= Cardinality(S)
         /\ i \in S => Rank(i, S) < Cardinality(S)
<1> DEFINE B == {j \in S : j < i}
<1>1. B \subseteq S  OBVIOUS
<1>2. IsFiniteSet(B) /\ Cardinality(B) <= Cardinality(S)  BY <1>1, FS_Subset
<1>3. Cardinality(B) \in Nat /\ Cardinality(S) \in Nat  BY <1>2, FS_CardinalityType
<1>4. ASSUME i \in S PROVE B # S
  <2>1. ~(i < i)  BY SMT
  <2>2. i \notin B  BY <2>1
  <2> QED  BY <1>4, <2>2
<1>5. ASSUME i \in S PROVE Cardinality(B) < Cardinality(S)
  <2>1. Cardinality(B) # Cardinality(S)  BY <1>1, <1>4, <1>5, FS_Subset
  <2> QED  BY <2>1, <1>2, <1>3
<1> QED  BY <1>2, <1>3, <1>5 DEF Rank

\* Where a page of a listing begins and ends.
LEMMA PageRows ==
  ASSUME NEW S \in SUBSET Int, IsFiniteSet(S), NEW s \in 1..MaxSize, NEW p \in Nat \ {0},
         (p - 1) * s \in 0..MaxInt, NEW i \in S
  PROVE  i \in Page(S, p, s) <=> (p - 1) * s <= Rank(i, S) /\ Rank(i, S) < p * s
<1> DEFINE k == (p - 1) * s
<1>1. s \in Nat \ {0}  BY PaginationAssumption
<1>2. PageOf(p) = p /\ SizeOf(s) = s  BY <1>1 DEF PageOf, SizeOf
<1>3. Offset(p, s) = k  BY WrappedKeeps DEF Offset
<1>4. Page(S, p, s) = Slice(S, s, k)  BY <1>2, <1>3 DEF Page
<1>5. k \in Nat  BY PaginationAssumption
<1>6. k + s = p * s
  <2>1. k = p * s - s  BY <1>1, Distributes
  <2>2. p * s \in Int  BY <1>1
  <2> QED  BY <2>1, <2>2, <1>1, <1>5
<1> HIDE DEF k
<1>7. Larger(0, k) = k  BY <1>5 DEF Larger
<1>8. i \in Slice(S, s, k) <=> k <= Rank(i, S) /\ Rank(i, S) < k + s
  BY <1>7 DEF Slice
<1> QED  BY <1>4, <1>6, <1>8 DEF k

\* Every row of a listing is on one of its pages, and on one only
\* (issues.go:119-145, issue_repository.go:52-84).
THEOREM PagesPartition ==
  ASSUME NEW S \in SUBSET Int, IsFiniteSet(S), Cardinality(S) + MaxSize <= MaxInt,
         NEW s \in 1..MaxSize, NEW i \in S
  PROVE  /\ \E p \in 1..TotalPages(Cardinality(S), s) : i \in Page(S, p, s)
         /\ \A p, q \in 1..TotalPages(Cardinality(S), s) :
              i \in Page(S, p, s) /\ i \in Page(S, q, s) => p = q
<1> DEFINE n == Cardinality(S)  t == TotalPages(n, s)  r == Rank(i, S)
<1>1. s \in Nat \ {0} /\ s <= MaxSize /\ MaxSize \in Nat /\ MaxInt \in Nat
  BY PaginationAssumption
<1>2. r \in Nat /\ r < n /\ n \in Nat
  <2>1. n \in Nat  BY FS_CardinalityType
  <2>2. i \in Int  OBVIOUS
  <2> QED  BY <2>1, <2>2, RankBounds
<1>3. n + MaxSize <= MaxInt  OBVIOUS
<1> HIDE DEF n, r
<1>3a. n \in Nat \ {0}  BY <1>2
<1>4. t \in Nat \ {0} /\ n <= t * s /\ t * s < n + s  BY <1>1, <1>3a, PagesCover
<1> HIDE DEF t
<1>5. ASSUME NEW p \in 1..t
      PROVE  /\ (p - 1) * s \in 0..MaxInt
             /\ i \in Page(S, p, s) <=> (p - 1) * s <= r /\ r < p * s
  <2>1. p \in Nat \ {0} /\ p - 1 \in Nat /\ p - 1 <= t  BY <1>4
  <2>2. (p - 1) * s \in Nat /\ (p - 1) * s <= t * s
    <3> DEFINE a == p - 1
    <3>1. a \in Nat /\ a <= t /\ s \in Nat  BY <2>1, <1>1
    <3> HIDE DEF a
    <3>2. a * s <= t * s /\ a * s \in Nat  BY <3>1, <1>4, Monotone
    <3> QED  BY <3>2 DEF a
  <2>3. t * s \in Int  BY <1>1, <1>4
  <2>4. (p - 1) * s \in 0..MaxInt  BY <1>1, <1>2, <1>3, <1>4, <2>2, <2>3
  <2> QED  BY <2>1, <2>4, PageRows DEF r
<1>6. \E p \in 1..t : (p - 1) * s <= r /\ r < p * s
  <2> DEFINE q == r \div s  p == q + 1
  <2>1. q \in Nat /\ q * s <= r /\ r < q * s + s  BY <1>1, <1>2, Quotient
  <2> HIDE DEF q
  <2>2. p * s = q * s + s  BY <2>1, <1>1, Distributes
  <2>3. p - 1 = q  BY <2>1
  <2>4. (p - 1) * s <= r /\ r < p * s  BY <2>1, <2>2, <2>3
  <2>5. p <= t
    <3>1. SUFFICES ASSUME t <= q PROVE FALSE  BY <2>1, <1>4
    <3>2. t * s <= q * s  BY <3>1, <2>1, <1>1, <1>4, Monotone
    <3>3. t * s \in Int /\ q * s \in Int  BY <2>1, <1>1, <1>4
    <3> QED  BY <3>2, <3>3, <2>1, <1>2, <1>4
  <2>6. p \in 1..t  BY <2>1, <2>5, <1>4
  <2> QED  BY <2>4, <2>6
<1>7. ASSUME NEW p \in 1..t, NEW q \in 1..t, p < q, r < p * s, (q - 1) * s <= r
      PROVE  FALSE
  <2> DEFINE a == q - 1
  <2>1. p \in Nat /\ a \in Nat /\ p <= a  BY <1>4, <1>7
  <2>2. (q - 1) * s <= r  BY <1>7
  <2>3. a * s <= r  BY <2>2
  <2> HIDE DEF a
  <2>4. p * s <= a * s  BY <2>1, <1>1, Monotone
  <2>5. p * s \in Int /\ a * s \in Int  BY <2>1, <1>1
  <2> QED  BY <1>7, <2>3, <2>4, <2>5, <1>2
<1>8. \A p, q \in 1..t : i \in Page(S, p, s) /\ i \in Page(S, q, s) => p = q
  <2> SUFFICES ASSUME NEW p \in 1..t, NEW q \in 1..t, i \in Page(S, p, s), i \in Page(S, q, s)
               PROVE  p = q
    OBVIOUS
  <2>1. (p - 1) * s <= r /\ r < p * s /\ (q - 1) * s <= r /\ r < q * s  BY <1>5
  <2>2. ~(p < q) /\ ~(q < p)  BY <2>1, <1>7
  <2> QED  BY <2>2, <1>4
<1> QED  BY <1>5, <1>6, <1>8 DEF t, n
=============================================================================
