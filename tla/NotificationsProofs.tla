------------------------ MODULE NotificationsProofs ------------------------
(***************************************************************************)
(* Theorems about Notifications and NotificationReads, for any number of   *)
(* users, pages, ids and clicks, any limits and any interleaving of        *)
(* commits, polls, streams and requests.                                   *)
(***************************************************************************)
EXTENDS NotificationReads, SequenceTheorems, FiniteSetTheorems, TLAPS

-----------------------------------------------------------------------------
(* What the queries return *)

LEMMA Assumed ==
  /\ Ids = 1..MaxID /\ MaxID \in Nat /\ MaxTime \in Nat
  /\ ListLimit \in Nat \ {0} /\ InboxLimit \in Nat \ {0}
  /\ Pages \subseteq Users /\ IsFiniteSet(Users) /\ NoUser \notin Users
BY NotificationAssumption DEF Ids

\* What a limited listing leaves out comes after all that it lists.
LEMMA OldestFirst ==
  ASSUME NEW S \in SUBSET Ids, NEW k \in Nat,
         NEW n \in S \ Oldest(S, k), NEW m \in Oldest(S, k)
  PROVE  m < n
<1>1. m \in Int /\ n \in Int /\ m \in S  BY Assumed DEF Oldest
<1> SUFFICES ASSUME ~(m < n) PROVE FALSE
  OBVIOUS
<1>2. n <= m  BY <1>1
<1> DEFINE A == {x \in S : x < n}  B == {x \in S : x < m}
<1>3. IsFiniteSet(B)
  <2>1. 1 \in Int /\ MaxID \in Int  BY Assumed
  <2>2. IsFiniteSet(1..MaxID)  BY <2>1, FS_Interval
  <2>3. B \in SUBSET (1..MaxID)  BY Assumed
  <2> QED  BY <2>2, <2>3, FS_Subset
<1>4. A \in SUBSET B
  <2>1. \A x \in S : x \in Int  BY Assumed
  <2>2. \A x \in S : x < n => x < m  BY <1>1, <1>2, <2>1
  <2> QED  BY <2>2
<1>5. Cardinality(A) \in Nat /\ Cardinality(B) \in Nat /\ Cardinality(A) <= Cardinality(B)
  BY <1>3, <1>4, FS_Subset, FS_CardinalityType
<1>6. Cardinality(B) < k /\ ~(Cardinality(A) < k)  BY DEF Oldest
<1> QED  BY <1>5, <1>6

Distinctly(s) == s \in Seq(Ids) /\ Distinct(s)

\* An inbox has all notifications of its user, or as many as a page keeps.
LEMMA InboxFacts ==
  ASSUME stored \in SUBSET Ids, NEW u, NEW s \in List(u)
  PROVE  /\ Distinctly(s) /\ Listed(s) \subseteq Own(u)
         /\ Listed(s) = Own(u) \/ Len(s) = InboxLimit
<1>1. PICK k \in 0..InboxLimit : s \in [1..k -> Own(u)]  BY DEF List
<1>2. Own(u) \subseteq Ids  BY DEF Own
<1>3. s \in Seq(Ids)
  <2>1. k \in Nat /\ s \in [1..k -> Ids]  BY <1>1, <1>2, Assumed
  <2> QED  BY <2>1, SeqDef
<1>4. Distinct(s)
  <2>1. \A i, j \in DOMAIN s : i < j => s[i] > s[j]  BY DEF List
  <2>2. \A i \in DOMAIN s : i \in Int /\ s[i] \in Int  BY <1>1, <1>2, Assumed
  <2> QED  BY <2>1, <2>2 DEF Distinct
<1>5. Listed(s) \subseteq Own(u)  BY <1>1 DEF Listed
<1> QED  BY <1>3, <1>4, <1>5 DEF List, Distinctly

\* A new notification is listed, unless the page keeps no more.
LEMMA ReceivedFacts ==
  ASSUME NEW s, Distinctly(s), NEW n \in Ids
  PROVE  /\ Distinctly(Received(n, s))
         /\ Len(s) = InboxLimit => Len(Received(n, s)) = InboxLimit
         /\ Listed(Received(n, s)) \subseteq Listed(s) \union {n}
         /\ \/ Listed(Received(n, s)) = Listed(s) \union {n}
            \/ Len(Received(n, s)) = InboxLimit
<1>1. s \in Seq(Ids) /\ Distinct(s)  BY DEF Distinctly
<1>2. CASE n \in Listed(s)  BY <1>1, <1>2 DEF Received, Distinctly
<1>3. CASE n \notin Listed(s)
  <2> DEFINE l == <<n>> \o s
  <2>1. /\ l \in Seq(Ids) /\ Len(l) = Len(s) + 1 /\ l[1] = n
        /\ \A i \in 1..Len(s) : l[i + 1] = s[i]
    BY <1>1
  <2>2. \A i \in 2..Len(l) : i - 1 \in 1..Len(s) /\ l[i] = s[i - 1]
    BY <1>1, <2>1
  <2>3. \A i \in 1..Len(s) : s[i] # n  BY <1>1, <1>3 DEF Listed
  <2> HIDE DEF l
  <2>4. \A i, j \in 1..Len(l) : l[i] = l[j] => i = j
    <3> SUFFICES ASSUME NEW i \in 1..Len(l), NEW j \in 1..Len(l), l[i] = l[j] PROVE i = j
      OBVIOUS
    <3>1. \A x \in 1..Len(l) : x = 1 \/ x \in 2..Len(l)  BY <1>1, <2>1
    <3>2. CASE i = 1 /\ j = 1  BY <3>2
    <3>3. CASE i = 1 /\ j \in 2..Len(l)  BY <2>1, <2>2, <2>3, <3>3
    <3>4. CASE i \in 2..Len(l) /\ j = 1  BY <2>1, <2>2, <2>3, <3>4
    <3>5. CASE i \in 2..Len(l) /\ j \in 2..Len(l)
      <4>1. i - 1 = j - 1  BY <1>1, <2>2, <3>5 DEF Distinct
      <4> QED  BY <3>5, <4>1
    <3> QED  BY <3>1, <3>2, <3>3, <3>4, <3>5
  <2>5. Listed(l) = Listed(s) \union {n}
    <3>1. \A i \in 1..Len(l) : i = 1 \/ i \in 2..Len(l)  BY <1>1, <2>1
    <3>2. Listed(l) \subseteq Listed(s) \union {n}  BY <1>1, <2>1, <2>2, <3>1 DEF Listed
    <3>3. \A i \in 1..Len(s) : i + 1 \in 1..Len(l) /\ l[i + 1] = s[i]  BY <1>1, <2>1
    <3>4. Listed(s) \subseteq Listed(l)  BY <1>1, <2>1, <3>3 DEF Listed
    <3>5. n \in Listed(l)  BY <1>1, <2>1 DEF Listed
    <3> QED  BY <3>2, <3>4, <3>5
  <2>6. CASE Len(l) > InboxLimit
    <3> DEFINE r == SubSeq(l, 1, InboxLimit)
    <3>1. Received(n, s) = r  BY <1>3, <2>6 DEF Received, Unshift, l
    <3>2. /\ r \in Seq(Ids) /\ Len(r) = InboxLimit
          /\ \A i \in 1..InboxLimit : r[i] = l[i]
      BY <2>1, <2>6, Assumed
    <3>3. Distinct(r)  BY <2>1, <2>4, <2>6, <3>2, Assumed DEF Distinct
    <3>4. Listed(r) \subseteq Listed(l)
      <4>1. \A i \in 1..Len(r) : i \in 1..Len(l)  BY <2>1, <2>6, <3>2, Assumed
      <4> HIDE DEF r
      <4> QED  BY <2>1, <3>2, <4>1 DEF Listed
    <3> HIDE DEF r
    <3> QED  BY <2>5, <3>1, <3>2, <3>3, <3>4 DEF Distinctly
  <2>7. CASE ~(Len(l) > InboxLimit)
    <3>1. Received(n, s) = l  BY <1>3, <2>7 DEF Received, Unshift, l
    <3>2. Distinct(l)  BY <2>1, <2>4 DEF Distinct
    <3>3. Len(s) # InboxLimit  BY <1>1, <2>1, <2>7, Assumed
    <3> QED  BY <2>1, <2>5, <3>1, <3>2, <3>3 DEF Distinctly
  <2> QED  BY <2>6, <2>7
<1> QED  BY <1>2, <1>3

-----------------------------------------------------------------------------
(* The invariant in parts *)

RTyped ==
  /\ drawn \in 0..MaxID /\ owner \in [Ids -> Users \union {NoUser}]
  /\ pending \in SUBSET SUBSET Ids /\ stored \in SUBSET Ids
  /\ now \in 0..MaxTime

PTyped ==
  /\ polling \in BOOLEAN /\ cursor \in 0..MaxID
  /\ found \in SUBSET Ids /\ published \in SUBSET Ids /\ passed \in SUBSET Ids

CTyped ==
  /\ conn \in [Pages -> {"off", "open", "loaded", "live"}]
  /\ topic \in [Pages -> SUBSET Ids]
  /\ answer \in [Pages -> Seq(Ids)]
  /\ shown \in [Pages -> Seq(Ids)]
  /\ late \in [Pages -> Load]
  /\ lost \in [Pages -> SUBSET Ids]

\* Complete, of values.
Covers(own, s, t, c, p, l) ==
  \A n \in own : \/ n \in Listed(s) \/ Len(s) = InboxLimit
                 \/ n \in t \/ (n > c /\ n \notin p) \/ n \in l

PageOK(own, pc, a, s, t, c, p, l) ==
  /\ pc = "loaded" => Covers(own, a, t, c, p, l)
  /\ pc = "live" => Covers(own, s, t, c, p, l)

PagesOK ==
  \A u \in Pages :
    PageOK(Own(u), conn[u], answer[u], shown[u], topic[u], cursor, passed, lost[u])

LEMMA InvParts ==
  IInv <=> /\ RTyped /\ PTyped /\ CTyped /\ IdsDrawnOnce /\ CursorParts
           /\ ListsDistinct /\ ListsOwn /\ PagesOK
<1>1. TypeOK <=> RTyped /\ PTyped /\ CTyped  BY DEF TypeOK, RTyped, PTyped, CTyped
<1>2. NoGap /\ NoGapWhileLoading <=> PagesOK
  BY DEF NoGap, NoGapWhileLoading, PagesOK, PageOK, Covers, Complete, Excused
<1> QED  BY <1>1, <1>2 DEF IInv

LEMMA InvPartsNext ==
  ASSUME RTyped', PTyped', CTyped', IdsDrawnOnce', CursorParts', ListsDistinct', ListsOwn',
         PagesOK'
  PROVE  IInv'
<1>1. TypeOK'  BY DEF TypeOK, RTyped, PTyped, CTyped
<1>2. NoGap' /\ NoGapWhileLoading'
  BY DEF NoGap, NoGapWhileLoading, PagesOK, PageOK, Covers, Complete, Excused
<1> QED  BY <1>1, <1>2 DEF IInv

\* A page stays covered when its user gets only rows that are excused.
LEMMA StillCovered ==
  ASSUME NEW own, NEW own2, NEW s, NEW t, NEW t2, NEW c, NEW c2, NEW p, NEW p2, NEW l, NEW l2,
         Covers(own, s, t, c, p, l), t \subseteq t2, l \subseteq l2,
         \A n \in own : n > c /\ n \notin p => (n > c2 /\ n \notin p2) \/ n \in t2 \/ n \in l2,
         \A n \in own2 \ own : (n > c2 /\ n \notin p2) \/ n \in l2
  PROVE  Covers(own2, s, t2, c2, p2, l2)
BY DEF Covers

-----------------------------------------------------------------------------
(* The table *)

\* The page has read its inbox.
HasInbox(u) == conn[u] \in {"loaded", "live"}

\* What steps of the table leave alone, and what a page that has its inbox may miss
\* of the rows they store.
LEMMA TableStep ==
  ASSUME IInv, RTyped', IdsDrawnOnce', PTyped', CursorParts',
         UNCHANGED <<cursor, conn, topic, answer, shown, late>>,
         lost' \in [Pages -> SUBSET Ids], \A u \in Pages : lost[u] \subseteq lost'[u],
         \A n \in stored : /\ n \in stored' /\ owner'[n] = owner[n]
                           /\ n \notin passed => n \notin passed',
         \A n \in stored' \ stored :
            \/ n > cursor /\ n \notin passed'
            \/ \A u \in Pages : HasInbox(u) /\ owner'[n] = u => n \in lost'[u]
  PROVE  IInv'
<1>1. CTyped /\ ListsDistinct /\ ListsOwn /\ PagesOK /\ RTyped  BY InvParts
<1>2. CTyped' /\ ListsDistinct'  BY <1>1 DEF CTyped, ListsDistinct
<1>3. ListsOwn'
  <2>1. \A u \in Pages : Own(u) \subseteq Own(u)'  BY DEF Own
  <2> QED  BY <1>1, <2>1 DEF ListsOwn
<1>4. PagesOK'
  <2> SUFFICES ASSUME NEW u \in Pages, HasInbox(u)
               PROVE  PageOK(Own(u)', conn[u], answer[u], shown[u], topic[u], cursor, passed', lost'[u])
    BY DEF PagesOK, PageOK, HasInbox
  <2>1. PageOK(Own(u), conn[u], answer[u], shown[u], topic[u], cursor, passed, lost[u])
    BY <1>1 DEF PagesOK
  <2>2. \A n \in Own(u)' \ Own(u) : (n > cursor /\ n \notin passed') \/ n \in lost'[u]  BY DEF Own
  <2>3. \A n \in Own(u) : n \notin passed => n \notin passed'  BY DEF Own
  <2> QED  BY <2>1, <2>2, <2>3, StillCovered DEF PageOK
<1> QED  BY <1>2, <1>3, <1>4, InvPartsNext

LEMMA CreateStep ==
  ASSUME IInv, NEW to \in SUBSET Users, CreateMany(to)
  PROVE  IInv'
<1>1. RTyped /\ PTyped /\ IdsDrawnOnce /\ CursorParts  BY InvParts
<1> DEFINE k == Cardinality(to)  new == drawn + 1 .. drawn + k
<1>2. k \in Nat \ {0}
  <2>1. IsFiniteSet(to) /\ to # {}
    <3>1. IsFiniteSet(Users)  BY Assumed
    <3> QED  BY <3>1, FS_Subset DEF CreateMany
  <2> QED  BY <2>1, FS_CardinalityType, FS_EmptySet
<1>3. /\ new \subseteq Ids
      /\ drawn' = drawn + k /\ pending' = pending \union {new}
      /\ UNCHANGED <<stored, now, pvars, cvars>>
  BY DEF CreateMany
<1>4. PICK row \in [new -> to] :
        owner' = [n \in Ids |-> IF n \in new THEN row[n] ELSE owner[n]]
  BY DEF CreateMany
<1> HIDE DEF k
<1>5. /\ drawn \in Nat /\ drawn + k \in new
      /\ \A n \in new : n \notin 1..drawn
      /\ 1..drawn \subseteq 1..(drawn + k) /\ new \subseteq 1..(drawn + k)
  BY <1>1, <1>2, Assumed DEF RTyped
<1> HIDE DEF new
<1>6. RTyped'
  <2>1. drawn' \in 0..MaxID  BY <1>3, <1>5, Assumed
  <2>2. owner' \in [Ids -> Users \union {NoUser}]  BY <1>1, <1>4 DEF RTyped
  <2>3. pending' \in SUBSET SUBSET Ids  BY <1>1, <1>3 DEF RTyped
  <2> QED  BY <1>1, <1>3, <2>1, <2>2, <2>3 DEF RTyped
<1>7. IdsDrawnOnce'
  <2>1. stored' \subseteq 1..drawn'  BY <1>1, <1>3, <1>5 DEF IdsDrawnOnce
  <2>2. new \intersect stored = {} /\ \A b \in pending : b \intersect new = {}
    BY <1>1, <1>5 DEF IdsDrawnOnce
  <2>3. \A b \in pending' : b \subseteq 1..drawn' /\ b \intersect stored' = {}
    <3> TAKE b \in pending'
    <3>1. CASE b = new  BY <1>3, <1>5, <2>2, <3>1
    <3>2. CASE b \in pending
      <4>1. b \subseteq 1..drawn /\ b \intersect stored = {}
        BY <1>1, <3>2 DEF IdsDrawnOnce
      <4> QED  BY <1>3, <1>5, <4>1
    <3> QED  BY <1>3, <3>1, <3>2
  <2>4. \A b, c \in pending' : b = c \/ b \intersect c = {}
    BY <1>1, <1>3, <2>2 DEF IdsDrawnOnce
  <2> QED  BY <2>1, <2>3, <2>4 DEF IdsDrawnOnce
<1>8. PTyped' /\ CursorParts'
  BY <1>1, <1>3 DEF PTyped, CursorParts, pvars
<1>9. \A n \in stored : n \in stored' /\ owner'[n] = owner[n]
  BY <1>1, <1>3, <1>4, <1>5 DEF IdsDrawnOnce, RTyped
<1>10. CTyped  BY InvParts
<1> QED  BY <1>3, <1>6, <1>7, <1>8, <1>9, <1>10, TableStep DEF pvars, cvars, CTyped

\* Rows that are passed are missed by the pages of their users that have an inbox.
LEMMA MissingFacts ==
  ASSUME CTyped, NEW S \in SUBSET Ids
  PROVE  /\ Missing(S) \in [Pages -> SUBSET Ids]
         /\ \A u \in Pages :
              /\ lost[u] \subseteq Missing(S)[u]
              /\ HasInbox(u) => \A n \in S : owner[n] = u => n \in Missing(S)[u]
BY DEF CTyped, Missing, HasInbox

LEMMA CommitSteps ==
  ASSUME IInv, NEW b \in pending, Commit(b) \/ Rollback(b)
  PROVE  IInv'
<1>1. RTyped /\ PTyped /\ CTyped /\ IdsDrawnOnce /\ CursorParts  BY InvParts
<1>2. CASE Commit(b)
  <2>1. /\ pending' = pending \ {b} /\ stored' = stored \union b
        /\ passed' = passed \union {n \in b : n <= cursor \/ \E m \in found : n < m}
        /\ lost' = Missing(passed' \ passed)
        /\ UNCHANGED <<drawn, owner, now, polling, cursor, found, published,
                       conn, topic, answer, shown, late>>
    BY <1>2 DEF Commit
  <2>2. b \subseteq Ids /\ b \subseteq 1..drawn /\ b \intersect stored = {}
    BY <1>1 DEF RTyped, IdsDrawnOnce
  <2>3. RTyped' /\ PTyped'
    <3>1. passed' \in SUBSET Ids  BY <1>1, <2>1, <2>2 DEF PTyped
    <3>2. PTyped'  BY <1>1, <2>1, <3>1 DEF PTyped
    <3>3. pending' \in SUBSET SUBSET Ids /\ stored' \in SUBSET Ids
      BY <1>1, <2>1, <2>2 DEF RTyped
    <3> QED  BY <1>1, <2>1, <3>2, <3>3 DEF RTyped
  <2>4. IdsDrawnOnce'
    <3>1. \A c \in pending' : c \intersect stored' = {}  BY <1>1, <2>1 DEF IdsDrawnOnce
    <3> QED  BY <1>1, <2>1, <2>2, <3>1 DEF IdsDrawnOnce
  <2>5. \A n \in b : n \in passed' \/ (n > cursor /\ \A m \in found : n > m)
    <3> SUFFICES ASSUME NEW n \in b, n \notin passed'
                 PROVE  n > cursor /\ \A m \in found : n > m
      OBVIOUS
    <3>1. ~(n <= cursor) /\ \A m \in found : ~(n < m)  BY <2>1
    <3>2. n \in Int /\ cursor \in Int /\ \A m \in found : m \in Int /\ m # n
      BY <1>1, <2>2, Assumed DEF PTyped, CursorParts
    <3> QED  BY <3>1, <3>2
  <2>6. CursorParts'
    <3>1. \A n \in stored' : \/ n \in published' \union passed' \union found'
                             \/ n > cursor' /\ \A m \in found' : n > m
      BY <1>1, <2>1, <2>5 DEF CursorParts
    <3>2. ~polling' => passed' = {}
      <4>1. ASSUME ~polling PROVE \A n \in b : ~(n <= cursor) /\ found = {}
        <5>1. \A n \in b : n \in Nat \ {0}  BY <2>2, Assumed
        <5> QED  BY <1>1, <4>1, <5>1 DEF CursorParts
      <4> QED  BY <1>1, <2>1, <4>1 DEF CursorParts
    <3> QED  BY <1>1, <2>1, <3>1, <3>2 DEF CursorParts
  <2>7. /\ lost' \in [Pages -> SUBSET Ids]
        /\ \A u \in Pages : /\ lost[u] \subseteq lost'[u]
                            /\ HasInbox(u) =>
                                 \A n \in passed' \ passed : owner[n] = u => n \in lost'[u]
    BY <1>1, <2>1, <2>3, MissingFacts DEF PTyped
  <2>8. \A n \in b : n \notin passed' \/ n \in passed' \ passed
    BY <1>1, <2>2 DEF CursorParts
  <2>9. \A n \in stored : n \notin passed => n \notin passed'  BY <2>1, <2>2
  <2> QED  BY <2>1, <2>3, <2>4, <2>5, <2>6, <2>7, <2>8, <2>9, TableStep
<1>3. CASE Rollback(b)
  <2>1. pending' = pending \ {b} /\ UNCHANGED <<drawn, owner, stored, now, pvars, cvars>>
    BY <1>3 DEF Rollback
  <2>2. RTyped' /\ PTyped'  BY <1>1, <2>1 DEF RTyped, PTyped, pvars
  <2>3. IdsDrawnOnce' /\ CursorParts'  BY <1>1, <2>1 DEF IdsDrawnOnce, CursorParts, pvars
  <2> QED  BY <1>1, <2>1, <2>2, <2>3, TableStep DEF pvars, cvars, CTyped
<1> QED  BY <1>2, <1>3

-----------------------------------------------------------------------------
(* The poller *)

LEMMA PollerSteps ==
  ASSUME IInv, StartPolling \/ Poll
  PROVE  IInv'
<1>1. /\ RTyped /\ PTyped /\ CTyped /\ IdsDrawnOnce /\ CursorParts
      /\ ListsDistinct /\ ListsOwn /\ PagesOK
  BY InvParts
<1>2. UNCHANGED <<now, rvars, conn, topic, answer, shown, late>>
  BY DEF StartPolling, Poll, cvars
<1>3. RTyped' /\ IdsDrawnOnce' /\ ListsDistinct' /\ ListsOwn'
  <2>1. RTyped' /\ IdsDrawnOnce'  BY <1>1, <1>2 DEF RTyped, IdsDrawnOnce, rvars
  <2>2. ListsDistinct' /\ ListsOwn'  BY <1>1, <1>2 DEF ListsDistinct, ListsOwn, Own, rvars
  <2> QED  BY <2>1, <2>2
<1>4. CASE StartPolling
  <2>1. /\ ~polling /\ polling' = TRUE /\ cursor' \in LatestID /\ passed' = stored
        /\ lost' = Missing(stored) /\ UNCHANGED <<found, published>>
    BY <1>4 DEF StartPolling
  <2>2. found = {} /\ published = {}  BY <1>1, <2>1 DEF CursorParts
  <2>3. PTyped'  BY <1>1, <2>1, <2>2, Assumed DEF PTyped, RTyped, LatestID
  <2>4. CursorParts'
    BY <1>2, <2>1, <2>2 DEF CursorParts, rvars
  <2>5. /\ lost' \in [Pages -> SUBSET Ids]
        /\ \A u \in Pages : HasInbox(u) => \A n \in stored : owner[n] = u => n \in lost'[u]
    BY <1>1, <2>1, MissingFacts DEF RTyped
  <2>6. CTyped'  BY <1>1, <1>2, <2>5 DEF CTyped
  <2>7. PagesOK'
    BY <1>2, <2>5 DEF PagesOK, PageOK, Covers, Own, HasInbox, rvars
  <2> QED  BY <1>3, <2>3, <2>4, <2>6, <2>7, InvPartsNext
<1>5. CASE Poll
  <2> DEFINE S == {n \in stored : n > cursor}
  <2>1. /\ polling /\ found = {} /\ found' = Oldest(S, ListLimit)
        /\ UNCHANGED <<polling, cursor, published, passed>>
    BY <1>5 DEF Poll, ListAfter
  <2>2. S \in SUBSET Ids /\ found' \subseteq S  BY <1>1, <2>1 DEF RTyped, Oldest
  <2>3. \A n \in S \ found', m \in found' : n > m
    <3> TAKE n \in S \ found', m \in found'
    <3>1. m < n  BY <2>1, <2>2, Assumed, OldestFirst
    <3>2. m \in Int /\ n \in Int  BY <2>2, Assumed
    <3> QED  BY <3>1, <3>2
  <2>4. PTyped'  BY <1>1, <2>1, <2>2 DEF PTyped
  <2>5. stored' = stored  BY <1>2 DEF rvars
  <2>6. CursorParts'
    <3>1. \A n \in stored : n \in published \union passed \/ n \in S
      BY <1>1, <2>1 DEF CursorParts
    <3>2. \A n \in stored' : \/ n \in published' \union passed' \union found'
                             \/ n > cursor' /\ \A m \in found' : n > m
      BY <2>1, <2>3, <2>5, <3>1
    <3> QED  BY <1>1, <2>1, <2>2, <2>5, <3>2 DEF CursorParts
  <2>7. lost' = lost  BY <1>5 DEF Poll, cvars
  <2>8. CTyped' /\ PagesOK'
    BY <1>1, <1>2, <2>1, <2>7 DEF CTyped, PagesOK, PageOK, Covers, Own, rvars
  <2> QED  BY <1>3, <2>4, <2>6, <2>8, InvPartsNext
<1> QED  BY <1>4, <1>5

LEMMA PublishStep ==
  ASSUME IInv, NEW n \in found, Publish(n)
  PROVE  IInv'
<1>1. /\ RTyped /\ PTyped /\ CTyped /\ IdsDrawnOnce /\ CursorParts
      /\ ListsDistinct /\ ListsOwn /\ PagesOK
  BY InvParts
<1> DEFINE v == owner[n]
           open == v \in Pages /\ conn[v] # "off"
           room == Cardinality(topic[v]) < HubBuffer
<1>2. /\ \A m \in found : n <= m
      /\ cursor' = n /\ found' = found \ {n} /\ published' = published \union {n}
      /\ topic' = IF open /\ room THEN [topic EXCEPT ![v] = @ \union {n}] ELSE topic
      /\ lost' = IF open /\ ~room THEN [lost EXCEPT ![v] = @ \union {n}] ELSE lost
      /\ UNCHANGED <<polling, passed, conn, answer, shown, late, now, rvars>>
  BY DEF Publish, IsLeast
<1>3. n \in Ids /\ n \in Int /\ n \in stored /\ n > cursor /\ cursor \in Int /\ found # {}
  BY <1>1, Assumed DEF PTyped, CursorParts
<1>4. \A m \in Ids : m \in Int  BY Assumed
<1>5. RTyped' /\ IdsDrawnOnce'  BY <1>1, <1>2 DEF RTyped, IdsDrawnOnce, rvars
<1>6. PTyped'
  <2>1. cursor' \in 0..MaxID  BY <1>2, <1>3, Assumed
  <2> QED  BY <1>1, <1>2, <1>3, <2>1 DEF PTyped
<1>7. /\ topic' \in [Pages -> SUBSET Ids] /\ lost' \in [Pages -> SUBSET Ids]
      /\ \A u \in Pages : topic[u] \subseteq topic'[u] /\ lost[u] \subseteq lost'[u]
      /\ \A u \in Pages : \A m \in topic'[u] : m \in topic[u] \/ (m = n /\ u = v)
      /\ v \in Pages /\ conn[v] # "off" => n \in topic'[v] \/ n \in lost'[v]
  <2>1. topic \in [Pages -> SUBSET Ids] /\ lost \in [Pages -> SUBSET Ids]  BY <1>1 DEF CTyped
  <2> HIDE DEF v, room
  <2> QED  BY <1>2, <1>3, <2>1
<1> HIDE DEF open, room
<1>8. CTyped' /\ ListsDistinct'  BY <1>1, <1>2, <1>7 DEF CTyped, ListsDistinct
<1>9. stored' = stored /\ owner' = owner  BY <1>2 DEF rvars
<1>10. CursorParts'
  <2>1. \A m \in found' : m > cursor' /\ m \in stored
    <3> TAKE m \in found'
    <3>1. m \in found /\ m # n /\ n <= m /\ m \in Int /\ m \in stored
      BY <1>1, <1>2, <1>4 DEF PTyped, CursorParts
    <3> QED  BY <1>2, <1>3, <3>1
  <2>2. \A m \in published' : m <= cursor' /\ m \in stored
    <3> TAKE m \in published'
    <3>1. CASE m = n  BY <1>2, <1>3, <3>1
    <3>2. CASE m \in published
      <4>1. m <= cursor /\ m \in stored /\ m \in Int  BY <1>1, <1>4, <3>2 DEF PTyped, CursorParts
      <4> QED  BY <1>2, <1>3, <4>1
    <3> QED  BY <1>2, <3>1, <3>2
  <2>3. \A m \in stored : \/ m \in published' \union passed' \union found'
                          \/ m > cursor' /\ \A k \in found' : m > k
    BY <1>1, <1>2, <1>3 DEF CursorParts
  <2> QED  BY <1>1, <1>2, <1>3, <1>9, <2>1, <2>2, <2>3 DEF CursorParts
<1>11. PagesOK'
  <2> SUFFICES ASSUME NEW u \in Pages
               PROVE  PageOK(Own(u), conn[u], answer[u], shown[u], topic'[u], n, passed, lost'[u])
    BY <1>2, <1>9 DEF PagesOK, Own
  <2>1. PageOK(Own(u), conn[u], answer[u], shown[u], topic[u], cursor, passed, lost[u])
    BY <1>1 DEF PagesOK
  <2>2. ASSUME conn[u] # "off", NEW m \in Own(u), m > cursor, m \notin passed
        PROVE  m > n \/ m \in topic'[u] \/ m \in lost'[u]
    <3>1. m \in stored /\ owner[m] = u /\ m \in Int  BY <1>1, <1>4 DEF Own, RTyped
    <3>2. CASE m \in published
      <4>1. m <= cursor  BY <1>1, <3>2 DEF CursorParts
      <4> QED  BY <1>3, <2>2, <3>1, <4>1
    <3>3. CASE m \in found
      <4>1. n <= m  BY <1>2, <3>3
      <4>2. CASE m = n  BY <1>7, <2>2, <3>1, <4>2
      <4> QED  BY <1>3, <3>1, <4>1, <4>2
    <3>4. CASE \A k \in found : m > k  BY <3>4
    <3> QED  BY <1>1, <2>2, <3>1, <3>2, <3>3, <3>4 DEF CursorParts
  <2> QED  BY <1>7, <2>1, <2>2, StillCovered DEF PageOK
<1>12. ListsOwn'
  <2>1. \A u \in Pages : topic[u] \subseteq Own(u)  BY <1>1 DEF ListsOwn
  <2>2. n \in Own(v)  BY <1>3 DEF Own
  <2> HIDE DEF v
  <2>3. \A u \in Pages : topic'[u] \subseteq Own(u)  BY <1>7, <2>1, <2>2
  <2> QED  BY <1>1, <1>2, <1>9, <2>3 DEF ListsOwn, Own
<1> QED  BY <1>5, <1>6, <1>8, <1>10, <1>11, <1>12, InvPartsNext

-----------------------------------------------------------------------------
(* A page *)

\* A step of page u leaves the others, the table and the poller as they are.
Only(u) ==
  /\ conn' = [conn EXCEPT ![u] = conn'[u]] /\ topic' = [topic EXCEPT ![u] = topic'[u]]
  /\ answer' = [answer EXCEPT ![u] = answer'[u]] /\ shown' = [shown EXCEPT ![u] = shown'[u]]
  /\ late' = [late EXCEPT ![u] = late'[u]] /\ lost' = [lost EXCEPT ![u] = lost'[u]]
  /\ UNCHANGED <<rvars, pvars>> /\ now' \in 0..MaxTime

LEMMA OnePage ==
  ASSUME IInv, NEW u \in Pages, Only(u),
         conn'[u] \in {"off", "open", "loaded", "live"}, topic'[u] \in SUBSET Ids,
         Distinctly(answer'[u]), Distinctly(shown'[u]),
         late'[u] \in Load, Distinct(late'[u].items), lost'[u] \in SUBSET Ids,
         topic'[u] \union Listed(answer'[u]) \union Listed(shown'[u])
           \union Listed(late'[u].items) \subseteq Own(u),
         PageOK(Own(u), conn'[u], answer'[u], shown'[u], topic'[u], cursor, passed, lost'[u])
  PROVE  IInv'
<1>1. /\ RTyped /\ PTyped /\ CTyped /\ IdsDrawnOnce /\ CursorParts
      /\ ListsDistinct /\ ListsOwn /\ PagesOK
  BY InvParts
<1>2. /\ answer'[u] \in Seq(Ids) /\ shown'[u] \in Seq(Ids)
      /\ Distinct(answer'[u]) /\ Distinct(shown'[u])
  BY DEF Distinctly
<1>3. RTyped' /\ PTyped' /\ IdsDrawnOnce' /\ CursorParts'
  BY <1>1 DEF Only, RTyped, PTyped, IdsDrawnOnce, CursorParts, rvars, pvars
<1>4. CTyped'  BY <1>1, <1>2 DEF Only, CTyped
<1>5. \A p \in Pages \ {u} :
        /\ conn'[p] = conn[p] /\ topic'[p] = topic[p] /\ answer'[p] = answer[p]
        /\ shown'[p] = shown[p] /\ late'[p] = late[p] /\ lost'[p] = lost[p]
  BY <1>1 DEF Only, CTyped
<1>6. ListsDistinct'  BY <1>1, <1>2, <1>5 DEF ListsDistinct
<1>7. PagesOK'
  <2>1. \A p : Own(p)' = Own(p)  BY DEF Own, Only, rvars
  <2>2. cursor' = cursor /\ passed' = passed  BY DEF Only, pvars
  <2>3. ASSUME NEW p \in Pages
        PROVE  PageOK(Own(p), conn'[p], answer'[p], shown'[p], topic'[p], cursor, passed, lost'[p])
    <3>1. CASE p = u  BY <3>1
    <3>2. CASE p # u  BY <1>1, <1>5, <3>2 DEF PagesOK
    <3> QED  BY <3>1, <3>2
  <2> QED  BY <2>1, <2>2, <2>3 DEF PagesOK
<1>8. ListsOwn'
  <2>1. \A p : Own(p)' = Own(p)  BY DEF Own, Only, rvars
  <2>2. \A p \in Pages : p = u \/ p # u  OBVIOUS
  <2> QED  BY <1>1, <1>5, <2>1, <2>2 DEF ListsOwn
<1> QED  BY <1>3, <1>4, <1>6, <1>7, <1>8, InvPartsNext

\* What is known of a page before its step.
AtHand(u) ==
  /\ conn[u] \in {"off", "open", "loaded", "live"} /\ topic[u] \in SUBSET Ids
  /\ Distinctly(answer[u]) /\ Distinctly(shown[u])
  /\ late[u] \in Load /\ Distinct(late[u].items) /\ lost[u] \in SUBSET Ids
  /\ PageOK(Own(u), conn[u], answer[u], shown[u], topic[u], cursor, passed, lost[u])
  /\ now \in 0..MaxTime /\ stored \in SUBSET Ids
  /\ topic[u] \union Listed(answer[u]) \union Listed(shown[u])
       \union Listed(late[u].items) \subseteq Own(u)
  /\ Distinctly(<<>>) /\ Listed(<<>>) = {}

LEMMA PageAtHand ==
  ASSUME IInv, NEW u \in Pages
  PROVE  CTyped /\ AtHand(u)
<1>1. CTyped /\ RTyped /\ ListsDistinct /\ ListsOwn /\ PagesOK  BY InvParts
<1>2. Distinctly(<<>>) /\ Listed(<<>>) = {}  BY DEF Distinctly, Distinct, Listed
<1> QED
  BY <1>1, <1>2 DEF CTyped, RTyped, ListsDistinct, ListsOwn, PagesOK, Distinctly, AtHand

LEMMA InboxCovers ==
  ASSUME NEW u, NEW s, Listed(s) = Own(u) \/ Len(s) = InboxLimit,
         NEW t, NEW c, NEW p, NEW l
  PROVE  Covers(Own(u), s, t, c, p, l)
BY DEF Covers

\* Connecting, loading the inbox and showing it.
LEMMA LoadSteps ==
  ASSUME IInv, NEW u \in Pages, Connect(u) \/ ReadInbox(u) \/ ShowInbox(u)
  PROVE  IInv'
<1>0. CTyped /\ AtHand(u)  BY PageAtHand
<1>1. CASE Connect(u)
  <2>1. /\ Only(u) /\ conn'[u] = "open" /\ lost'[u] = lost[u]
        /\ topic'[u] = topic[u] /\ answer'[u] = answer[u] /\ shown'[u] = shown[u]
        /\ late'[u] = late[u]
    BY <1>0, <1>1 DEF Connect, Only, CTyped, AtHand
  <2>2. PageOK(Own(u), "open", answer[u], shown[u], topic[u], cursor, passed, lost[u])
    BY DEF PageOK
  <2> QED  BY <1>0, <2>1, <2>2, OnePage DEF AtHand
<1>2. CASE ReadInbox(u)
  <2>1. PICK s \in List(u) : answer' = [answer EXCEPT ![u] = s]  BY <1>2 DEF ReadInbox
  <2>2. /\ Distinctly(s) /\ Listed(s) \subseteq Own(u)
        /\ Listed(s) = Own(u) \/ Len(s) = InboxLimit
    <3>1. stored \in SUBSET Ids  BY <1>0 DEF AtHand
    <3> QED  BY <3>1, InboxFacts
  <2>3. /\ Only(u) /\ conn'[u] = "loaded" /\ answer'[u] = s
        /\ topic'[u] = topic[u] /\ shown'[u] = shown[u] /\ late'[u] = late[u]
        /\ lost'[u] = {}
    BY <1>0, <1>2, <2>1 DEF ReadInbox, Only, CTyped, AtHand
  <2>4. PageOK(Own(u), "loaded", s, shown[u], topic[u], cursor, passed, {})
    BY <2>2, InboxCovers DEF PageOK
  <2> QED  BY <1>0, <2>2, <2>3, <2>4, OnePage DEF AtHand
<1>3. CASE ShowInbox(u)
  <2>1. /\ Only(u) /\ conn[u] = "loaded" /\ conn'[u] = "live"
        /\ shown'[u] = answer[u] /\ answer'[u] = <<>>
        /\ topic'[u] = topic[u] /\ late'[u] = late[u] /\ lost'[u] = lost[u]
    BY <1>0, <1>3 DEF ShowInbox, Only, CTyped, AtHand
  <2>2. PageOK(Own(u), "live", <<>>, answer[u], topic[u], cursor, passed, lost[u])
    BY <1>0, <2>1 DEF AtHand, PageOK
  <2> QED  BY <1>0, <2>1, <2>2, OnePage DEF AtHand
<1> QED  BY <1>1, <1>2, <1>3

LEMMA DeliverStep ==
  ASSUME IInv, NEW u \in Pages, NEW n \in topic[u], Deliver(u, n)
  PROVE  IInv'
<1> DEFINE s == Received(n, shown[u])  t == topic[u] \ {n}
<1>1. CTyped /\ AtHand(u)  BY PageAtHand
<1>2. /\ Only(u) /\ conn[u] = "live" /\ conn'[u] = "live" /\ topic'[u] = t /\ shown'[u] = s
      /\ answer'[u] = answer[u] /\ late'[u] = late[u] /\ lost'[u] = lost[u]
  <2> HIDE DEF s
  <2>1. shown' = [shown EXCEPT ![u] = s]  BY <1>1 DEF Deliver, CTyped, s
  <2> QED  BY <1>1, <2>1 DEF Deliver, Only, CTyped, AtHand
<1>3. n \in Ids /\ t \in SUBSET Ids /\ Distinctly(shown[u])  BY <1>1 DEF AtHand
<1>4. /\ Distinctly(s)
      /\ Len(shown[u]) = InboxLimit => Len(s) = InboxLimit
      /\ Listed(s) \subseteq Listed(shown[u]) \union {n}
      /\ Listed(s) = Listed(shown[u]) \union {n} \/ Len(s) = InboxLimit
  BY <1>3, ReceivedFacts
<1>5. Covers(Own(u), shown[u], topic[u], cursor, passed, lost[u])
  BY <1>1, <1>2 DEF AtHand, PageOK
<1> HIDE DEF s
<1>6. Covers(Own(u), s, t, cursor, passed, lost[u])
  <2> SUFFICES ASSUME NEW m \in Own(u), Len(s) # InboxLimit
               PROVE  m \in Listed(s) \/ m \in t \/ (m > cursor /\ m \notin passed) \/ m \in lost[u]
    BY DEF Covers
  <2>1. \/ m \in Listed(shown[u]) \/ m \in topic[u] \/ (m > cursor /\ m \notin passed)
        \/ m \in lost[u]
    BY <1>4, <1>5 DEF Covers
  <2> QED  BY <1>4, <2>1
<1> HIDE DEF t
<1>7. PageOK(Own(u), "live", answer[u], s, t, cursor, passed, lost[u])
  BY <1>6 DEF PageOK
<1>8. t \union Listed(answer[u]) \union Listed(s) \union Listed(late[u].items) \subseteq Own(u)
  BY <1>1, <1>4 DEF AtHand, t
<1> QED  BY <1>1, <1>2, <1>3, <1>4, <1>7, <1>8, OnePage DEF AtHand

LEMMA DisconnectStep ==
  ASSUME IInv, NEW u \in Pages, NEW error \in BOOLEAN, Disconnect(u, error)
  PROVE  IInv'
<1>0. CTyped /\ AtHand(u)  BY PageAtHand
<1>1. now' \in 0..MaxTime  BY <1>0, Assumed DEF Disconnect, Tick, AtHand
<1>2. /\ late' = [late EXCEPT ![u] = late'[u]]
      /\ late'[u] \in {late[u], [late[u] EXCEPT !.pc = "asked"]}
  BY <1>0 DEF Disconnect, CTyped
<1>3. late'[u] \in Load /\ late'[u].items = late[u].items
  <2>1. late[u] \in Load  BY <1>0 DEF AtHand
  <2>2. \A w \in Load : /\ [w EXCEPT !.pc = "asked"] \in Load
                        /\ [w EXCEPT !.pc = "asked"].items = w.items
    BY DEF Load
  <2> QED  BY <1>2, <2>1, <2>2
<1>4. /\ Only(u) /\ conn'[u] = "off" /\ topic'[u] = {} /\ answer'[u] = <<>>
      /\ shown'[u] = shown[u] /\ lost'[u] = lost[u]
  BY <1>0, <1>1, <1>2 DEF Disconnect, Only, CTyped
<1>5. PageOK(Own(u), "off", <<>>, shown[u], {}, cursor, passed, lost[u])  BY DEF PageOK
<1> QED  BY <1>0, <1>3, <1>4, <1>5, OnePage DEF AtHand

\* The load that no connection waits for.
LEMMA LateSteps ==
  ASSUME IInv, NEW u \in Pages, ReadLate(u) \/ ShowLate(u)
  PROVE  IInv'
<1>0. CTyped /\ AtHand(u)  BY PageAtHand
<1>1. CASE ReadLate(u)
  <2>1. PICK s \in List(u) : late' = [late EXCEPT ![u] = [pc |-> "read", items |-> s]]
    BY <1>1 DEF ReadLate
  <2>2. Distinctly(s) /\ Listed(s) \subseteq Own(u)  BY <1>0, InboxFacts DEF AtHand
  <2> DEFINE w == [pc |-> "read", items |-> s]
  <2>3. w \in Load /\ Distinct(w.items) /\ Listed(w.items) \subseteq Own(u)  BY <2>2 DEF Load, Distinctly
  <2>4. late' = [late EXCEPT ![u] = w]  BY <2>1
  <2> HIDE DEF w
  <2>5. /\ Only(u) /\ conn'[u] = conn[u] /\ topic'[u] = topic[u] /\ answer'[u] = answer[u]
        /\ shown'[u] = shown[u] /\ lost'[u] = lost[u] /\ late'[u] = w
    BY <1>0, <1>1, <2>4 DEF ReadLate, Only, CTyped, AtHand
  <2> QED  BY <1>0, <2>3, <2>5, OnePage DEF AtHand
<1>2. CASE ShowLate(u)
  <2> DEFINE s == late[u].items  l == lost[u] \union (Own(u) \ Listed(s))
  <2>1. Distinctly(s) /\ Listed(s) \subseteq Own(u) /\ l \in SUBSET Ids
    BY <1>0 DEF AtHand, Distinctly, Load, Own
  <2>2. NoLoad \in Load /\ Distinct(NoLoad.items) /\ Listed(NoLoad.items) = {}
    BY DEF NoLoad, Load, Distinct, Listed
  <2>3. Covers(Own(u), s, topic[u], cursor, passed, l)  BY DEF Covers
  <2>4. conn[u] = "loaded" => Covers(Own(u), answer[u], topic[u], cursor, passed, l)
    BY <1>0 DEF AtHand, PageOK, Covers
  <2>5. lost' = [lost EXCEPT ![u] = l]  BY <1>0, <1>2 DEF ShowLate, CTyped
  <2> HIDE DEF l
  <2>6. /\ Only(u) /\ conn'[u] = conn[u] /\ topic'[u] = topic[u] /\ answer'[u] = answer[u]
        /\ shown'[u] = s /\ lost'[u] = l /\ late'[u] = NoLoad
    BY <1>0, <1>2, <2>5 DEF ShowLate, Only, CTyped, AtHand
  <2> HIDE DEF s
  <2>7. PageOK(Own(u), conn[u], answer[u], s, topic[u], cursor, passed, l)
    BY <2>3, <2>4 DEF PageOK
  <2> QED  BY <1>0, <2>1, <2>2, <2>6, <2>7, OnePage DEF AtHand
<1> QED  BY <1>1, <1>2

-----------------------------------------------------------------------------
(* Start and restart *)

LEMMA NothingListed ==
  /\ <<>> \in Seq(Ids) /\ Distinct(<<>>) /\ Listed(<<>>) = {}
  /\ NoLoad \in Load /\ Distinct(NoLoad.items) /\ Listed(NoLoad.items) = {}
BY DEF NoLoad, Load, Distinct, Listed

LEMMA RestartStep ==
  ASSUME IInv, Restart
  PROVE  IInv'
<1>1. RTyped /\ PTyped /\ CTyped /\ IdsDrawnOnce /\ CursorParts /\ ListsDistinct /\ ListsOwn
  BY InvParts
<1>2. /\ now' \in 0..MaxTime /\ pending' = {}
      /\ polling' = FALSE /\ cursor' = 0 /\ found' = {} /\ published' = {} /\ passed' = {}
      /\ conn' = [u \in Pages |-> "off"]
      /\ topic' = [u \in Pages |-> {}]
      /\ answer' = [u \in Pages |-> <<>>]
      /\ late' = [u \in Pages |-> NoLoad]
      /\ UNCHANGED <<drawn, owner, stored, shown, lost>>
  BY <1>1, Assumed DEF Restart, Tick, RTyped
<1>3. RTyped' /\ IdsDrawnOnce'  BY <1>1, <1>2 DEF RTyped, IdsDrawnOnce
<1>4. PTyped'
  <2>1. 0 \in 0..MaxID  BY Assumed
  <2> QED  BY <1>2, <2>1 DEF PTyped
<1>5. CTyped'  BY <1>1, <1>2, NothingListed DEF CTyped
<1>6. ListsDistinct' /\ ListsOwn'
  BY <1>1, <1>2, NothingListed DEF ListsDistinct, ListsOwn, Own
<1>7. CursorParts'
  <2>1. \A n \in stored : n > 0  BY <1>1, Assumed DEF RTyped
  <2> QED  BY <1>2, <2>1 DEF CursorParts
<1>8. PagesOK'  BY <1>2 DEF PagesOK, PageOK
<1> QED  BY <1>3, <1>4, <1>5, <1>6, <1>7, <1>8, InvPartsNext

LEMMA Initial == Init => IInv
<1> SUFFICES ASSUME Init PROVE IInv
  OBVIOUS
<1>1. 0 \in 0..MaxID /\ 0 \in 0..MaxTime  BY Assumed
<1>2. RTyped  BY <1>1 DEF Init, RTyped
<1>3. PTyped  BY <1>1 DEF Init, PTyped
<1>4. CTyped /\ ListsDistinct /\ ListsOwn
  BY NothingListed DEF Init, CTyped, ListsDistinct, ListsOwn
<1>5. IdsDrawnOnce /\ CursorParts /\ PagesOK
  BY DEF Init, IdsDrawnOnce, CursorParts, PagesOK, PageOK
<1> QED  BY <1>2, <1>3, <1>4, <1>5, InvParts

-----------------------------------------------------------------------------
(* The theorems *)

LEMMA Step == IInv /\ [Next]_vars => IInv'
<1> SUFFICES ASSUME IInv, [Next]_vars PROVE IInv'
  OBVIOUS
<1>1. ASSUME NEW actor \in Users, NEW creator \in Users, NEW others \in SUBSET Users,
             NotifyIssue(actor, creator, others)
      PROVE  IInv'
  <2>1. Recipients({creator} \union others, actor) \in SUBSET Users  BY DEF Recipients
  <2> QED  BY <1>1, <2>1, CreateStep DEF NotifyIssue
<1>2. ASSUME NEW actor \in Users, NEW u \in Users, NotifyMember(actor, u) PROVE IInv'
  <2>1. Recipients({u}, actor) \in SUBSET Users  BY DEF Recipients
  <2> QED  BY <1>2, <2>1, CreateStep DEF NotifyMember
<1>3. ASSUME NEW b \in pending, Commit(b) \/ Rollback(b) PROVE IInv'
  BY <1>3, CommitSteps
<1>4. CASE StartPolling \/ Poll  BY <1>4, PollerSteps
<1>5. ASSUME NEW n \in found, Publish(n) PROVE IInv'  BY <1>5, PublishStep
<1>6. ASSUME NEW u \in Pages, Connect(u) \/ ReadInbox(u) \/ ShowInbox(u) PROVE IInv'
  BY <1>6, LoadSteps
<1>7. ASSUME NEW u \in Pages, NEW n \in topic[u], Deliver(u, n) PROVE IInv'
  BY <1>7, DeliverStep
<1>8. ASSUME NEW u \in Pages, NEW error \in BOOLEAN, Disconnect(u, error) PROVE IInv'
  BY <1>8, DisconnectStep
<1>9. ASSUME NEW u \in Pages, ReadLate(u) \/ ShowLate(u) PROVE IInv'
  BY <1>9, LateSteps
<1>10. CASE Restart  BY <1>10, RestartStep
<1>11. CASE UNCHANGED vars
  <2>1. /\ RTyped /\ PTyped /\ CTyped /\ IdsDrawnOnce /\ CursorParts
        /\ ListsDistinct /\ ListsOwn /\ PagesOK
    BY InvParts
  <2>2. UNCHANGED <<rvars, pvars, cvars, now>>  BY <1>11 DEF vars, rvars, pvars, cvars
  <2>3. RTyped' /\ IdsDrawnOnce'  BY <2>1, <2>2 DEF RTyped, IdsDrawnOnce, rvars
  <2>4. PTyped' /\ CursorParts'  BY <2>1, <2>2 DEF PTyped, CursorParts, pvars, rvars
  <2>5. CTyped' /\ ListsDistinct' /\ ListsOwn'
    BY <2>1, <2>2 DEF CTyped, ListsDistinct, ListsOwn, Own, rvars, cvars
  <2>6. PagesOK'  BY <2>1, <2>2 DEF PagesOK, PageOK, Covers, Own, rvars, pvars, cvars
  <2> QED  BY <2>3, <2>4, <2>5, <2>6, InvPartsNext
<1> QED
  BY <1>1, <1>2, <1>3, <1>4, <1>5, <1>6, <1>7, <1>8, <1>9, <1>10, <1>11
  DEF Next, ServerNext, PageNext

\* The inductive invariant: what every row and id still owes the cursor, the hub,
\* the tickets and the lists (notification_realtime.go, notifications.js).
THEOREM Invariance == Spec => []IInv
<1> QED  BY Initial, Step, PTL DEF Spec

\* Every variable keeps its type (notification_realtime.go, notifications.js).
THEOREM NotificationTypes == Spec => []TypeOK
<1>1. IInv => TypeOK  BY DEF IInv
<1> QED  BY Invariance, <1>1, PTL

\* However commits, polls, reconnects and restarts interleave, a page that is
\* connected misses only what, since its inbox was read, the cursor passed, the hub
\* dropped, a late answer took away or its limit cut off: all that was missed before
\* is in the inbox (notifications.js:77-96, notification_realtime.go:14-40).
THEOREM PagesHaveNoGap == Spec => []NoGap
<1>1. IInv => NoGap  BY DEF IInv
<1> QED  BY Invariance, <1>1, PTL

\* What comes with the inbox and with the stream is listed once
\* (notifications.js:109-121).
THEOREM NotificationsShownOnce == Spec => []ShownOnce
<1>1. IInv => ShownOnce  BY DEF IInv, ListsDistinct, Distinct, ShownOnce
<1> QED  BY Invariance, <1>1, PTL

\* A process publishes no row twice (notification_realtime.go:31-32).
THEOREM RowsPublishedOnce == Spec => PublishedOnce
<1>1. IInv => \A n \in found : n \notin published
  <2> SUFFICES ASSUME IInv, NEW n \in found, n \in published PROVE FALSE
    OBVIOUS
  <2>1. n > cursor /\ n <= cursor /\ n \in Int /\ cursor \in Int
    BY Assumed DEF IInv, TypeOK, CursorParts
  <2> QED  BY <2>1
<1>2. IInv /\ [Next]_vars => [\A n \in found \ found' : polling' => n \notin published]_vars
  BY <1>1
<1> QED  BY Invariance, <1>2, PTL DEF Spec, PublishedOnce

-----------------------------------------------------------------------------
(* What is read: NotificationReads *)

\* A step of the table or the poller takes no row from its user.
LEMMA RowsStay ==
  ASSUME IInv, ServerNext \/ Restart, NEW u
  PROVE  Own(u) \subseteq Own(u)'
<1>1. IdsDrawnOnce /\ RTyped  BY InvParts
<1>2. ASSUME NEW to, CreateMany(to) PROVE Own(u) \subseteq Own(u)'
  <2> DEFINE new == drawn + 1 .. drawn + Cardinality(to)
  <2>1. PICK row : owner' = [n \in Ids |-> IF n \in new THEN row[n] ELSE owner[n]]
    BY <1>2 DEF CreateMany
  <2>2. \A n \in stored : n \in Ids /\ n \notin new
    BY <1>1, Assumed DEF IdsDrawnOnce, RTyped
  <2>3. stored' = stored  BY <1>2 DEF CreateMany
  <2> HIDE DEF new
  <2> QED  BY <2>1, <2>2, <2>3 DEF Own
<1>3. CASE \E b \in pending : Commit(b)  BY <1>3 DEF Commit, Own
<1>4. CASE \E b \in pending : Rollback(b)  BY <1>4 DEF Rollback, Own
<1>5. CASE StartPolling \/ Poll \/ \E n \in found : Publish(n)
  BY <1>5 DEF StartPolling, Poll, Publish, Own, rvars
<1>6. CASE Restart  BY <1>6 DEF Restart, Own
<1> QED  BY <1>2, <1>3, <1>4, <1>5, <1>6 DEF ServerNext, NotifyIssue, NotifyMember

\* NotificationReads takes the steps of Notifications, and others of its own.
LEMMA ReadsStepIsStep == ReadsNext => [Next]_vars
BY DEF ReadsNext, Next, PageNext, ReadInboxItems, ShowInboxItems, ReadLateItems, ShowLateItems,
       DeliverItem, DisconnectItems, RestartWithClicks, Click, ClickAll, MarkRead, Match, MarkAllRead,
       Answer, AnswerAll, End

\* Own, of values.
RowsOf(st, ow, u) == {n \in st : ow[n] = u}

\* What is known of a request, of values.
ClickOK(q, own, rd) ==
  q.pc # "idle" =>
    /\ q.page \in Pages
    /\ q.item # 0 => q.item \in own
    /\ q.pc = "sent" => q.saw = {}
    /\ q.pc = "matched" => q.item = 0
    /\ q.pc = "written" => q.saw \union ({q.item} \ {0}) \subseteq rd

LEMMA CoverParts == ClicksCover <=> \A r \in Clicks : ClickOK(req[r], Own(req[r].page), read)
BY DEF ClicksCover, ClickOK

LEMMA CoverPartsNext ==
  ASSUME \A r \in Clicks : ClickOK(req'[r], RowsOf(stored', owner', req'[r].page), read')
  PROVE  ClicksCover'
BY DEF ClicksCover, ClickOK, RowsOf, Own

\* It stays true while rows are added and read.
LEMMA ClicksKept ==
  ASSUME ClicksCover, \A u \in Pages : Own(u) \subseteq Own(u)', read \subseteq read',
         \A r \in Clicks :
           /\ req'[r].pc = req[r].pc /\ req'[r].page = req[r].page
           /\ req'[r].item = req[r].item /\ req'[r].saw = req[r].saw
  PROVE  ClicksCover'
<1> SUFFICES ASSUME NEW r \in Clicks
             PROVE  ClickOK(req'[r], RowsOf(stored', owner', req'[r].page), read')
  BY CoverPartsNext
<1>1. ClickOK(req[r], Own(req[r].page), read)  BY CoverParts
<1>2. req[r].page \in Pages => Own(req[r].page) \subseteq RowsOf(stored', owner', req[r].page)
  BY DEF Own, RowsOf
<1> QED  BY <1>1, <1>2 DEF ClickOK

\* Only a step that leaves the clicks to themselves.
LEMMA Undisturbed ==
  ASSUME ReadsInv, \A u \in Pages : Own(u) \subseteq Own(u)', UNCHANGED tvars
  PROVE  ReadsInv'
<1>1. ReadsTypeOK' /\ LoadsAreRead' /\ ShownReadIsRead'
  BY DEF ReadsInv, ReadsTypeOK, LoadsAreRead, ShownReadIsRead, tvars
<1>2. ClicksCover'
  <2>1. ClicksCover /\ req' = req /\ read' = read  BY DEF ReadsInv, tvars
  <2> QED  BY <2>1, ClicksKept
<1> QED  BY <1>1, <1>2 DEF ReadsInv

\* What comes to a page.
LEMMA ItemSteps ==
  ASSUME IInv, ReadsInv, NEW u \in Pages,
         \/ ReadInboxItems(u) \/ ShowInboxItems(u) \/ ReadLateItems(u) \/ ShowLateItems(u)
         \/ \E n \in topic[u] : DeliverItem(u, n)
         \/ \E error \in BOOLEAN : DisconnectItems(u, error)
  PROVE  ReadsInv'
<1>1. ReadsTypeOK /\ LoadsAreRead /\ ClicksCover /\ ShownReadIsRead  BY DEF ReadsInv
<1>2. read' = read /\ \A v : Own(v)' = Own(v)
  BY DEF ReadInboxItems, ShowInboxItems, ReadLateItems, ShowLateItems, DeliverItem,
         DisconnectItems, ReadInbox, ShowInbox, ReadLate, ShowLate, Deliver, Disconnect, rvars, Own
<1>3. \A r \in Clicks : req'[r] = req[r] \/ req'[r] = [req[r] EXCEPT !.fresh = FALSE]
  BY DEF ReadInboxItems, ShowInboxItems, ReadLateItems, ShowLateItems, DeliverItem,
         DisconnectItems, Replaced
<1>4. req' \in [Clicks -> Request]
  <2>1. \A r \in Clicks : req[r] \in Request /\ [req[r] EXCEPT !.fresh = FALSE] \in Request
    BY <1>1 DEF ReadsTypeOK, Request
  <2>2. req' \in [Clicks -> Request] \/ req' = req
    BY <2>1 DEF ReadInboxItems, ShowInboxItems, ReadLateItems, ShowLateItems, DeliverItem,
         DisconnectItems, Replaced
  <2> QED  BY <1>1, <2>2 DEF ReadsTypeOK
<1>5. ClicksCover'
  <2>1. \A r \in Clicks :
          /\ req'[r].pc = req[r].pc /\ req'[r].page = req[r].page
          /\ req'[r].item = req[r].item /\ req'[r].saw = req[r].saw
    <3> TAKE r \in Clicks
    <3>1. req[r] \in Request  BY <1>1 DEF ReadsTypeOK
    <3> QED  BY <1>3, <3>1 DEF Request
  <2> QED  BY <1>1, <1>2, <2>1, ClicksKept
<1>6. CASE ReadInboxItems(u)
  <2>1. /\ answerSeen' = [answerSeen EXCEPT ![u] = Listed(answer'[u]) \intersect read]
        /\ UNCHANGED <<read, seen, lateSeen, tooNew>>
    BY <1>6 DEF ReadInboxItems
  <2>2. ReadsTypeOK'  BY <1>1, <1>4, <2>1 DEF ReadsTypeOK
  <2>3. LoadsAreRead' /\ ShownReadIsRead'
    BY <1>1, <2>1 DEF ReadsTypeOK, LoadsAreRead, ShownReadIsRead
  <2> QED  BY <1>5, <2>2, <2>3 DEF ReadsInv
<1>7. CASE ReadLateItems(u)
  <2>1. /\ lateSeen' = [lateSeen EXCEPT ![u] = Listed(late'[u].items) \intersect read]
        /\ UNCHANGED <<read, seen, answerSeen, tooNew>>
    BY <1>7 DEF ReadLateItems
  <2>2. ReadsTypeOK'  BY <1>1, <1>4, <2>1 DEF ReadsTypeOK
  <2>3. LoadsAreRead' /\ ShownReadIsRead'
    BY <1>1, <2>1 DEF ReadsTypeOK, LoadsAreRead, ShownReadIsRead
  <2> QED  BY <1>5, <2>2, <2>3 DEF ReadsInv
<1>8. CASE ShowInboxItems(u) \/ ShowLateItems(u)
  <2>1. PICK items \in {answerSeen[u], lateSeen[u]} : Replaced(u, items)
    BY <1>8 DEF ShowInboxItems, ShowLateItems
  <2>2. items \in SUBSET Ids /\ items \subseteq read
    BY <1>1 DEF ReadsTypeOK, LoadsAreRead
  <2>3. /\ answerSeen' \in {answerSeen, [answerSeen EXCEPT ![u] = {}]}
        /\ lateSeen' \in {lateSeen, [lateSeen EXCEPT ![u] = {}]}
    BY <1>8 DEF ShowInboxItems, ShowLateItems
  <2>4. seen' = [seen EXCEPT ![u] = items] /\ tooNew' = [tooNew EXCEPT ![u] = {}]
    BY <2>1 DEF Replaced
  <2>5. ReadsTypeOK'
    <3>1. answerSeen' \in [Pages -> SUBSET Ids] /\ lateSeen' \in [Pages -> SUBSET Ids]
      BY <1>1, <2>3 DEF ReadsTypeOK
    <3> QED  BY <1>1, <1>2, <1>4, <2>2, <2>4, <3>1 DEF ReadsTypeOK
  <2>6. LoadsAreRead'
    <3>1. \A v \in Pages : answerSeen'[v] \subseteq answerSeen[v] /\ lateSeen'[v] \subseteq lateSeen[v]
      BY <1>1, <2>3 DEF ReadsTypeOK
    <3> QED  BY <1>1, <1>2, <3>1 DEF LoadsAreRead
  <2>7. ShownReadIsRead'
    BY <1>1, <1>2, <2>2, <2>4 DEF ReadsTypeOK, ShownReadIsRead
  <2> QED  BY <1>5, <2>5, <2>6, <2>7 DEF ReadsInv
<1>9. CASE \E n \in topic[u] : DeliverItem(u, n)
  <2>1. PICK n \in topic[u] : DeliverItem(u, n)  BY <1>9
  <2>2. PICK items \in SUBSET (({n} \intersect read) \ Listed(shown[u])) :
          seen' = [seen EXCEPT ![u] = (@ \union items) \intersect Listed(shown'[u])]
    BY <2>1 DEF DeliverItem
  <2>3. /\ tooNew' = [tooNew EXCEPT ![u] = @ \intersect Listed(shown'[u])]
        /\ UNCHANGED <<read, answerSeen, lateSeen>>
    BY <2>1 DEF DeliverItem
  <2>4. ReadsTypeOK'  BY <1>1, <1>4, <2>2, <2>3 DEF ReadsTypeOK
  <2>5. LoadsAreRead'  BY <1>1, <2>3 DEF LoadsAreRead
  <2>6. ShownReadIsRead'
    BY <1>1, <2>2, <2>3 DEF ReadsTypeOK, ShownReadIsRead
  <2> QED  BY <1>5, <2>4, <2>5, <2>6 DEF ReadsInv
<1>10. CASE \E error \in BOOLEAN : DisconnectItems(u, error)
  <2>1. /\ answerSeen' = [answerSeen EXCEPT ![u] = {}]
        /\ UNCHANGED <<read, seen, lateSeen, tooNew>>
    BY <1>10 DEF DisconnectItems
  <2>2. ReadsTypeOK'  BY <1>1, <1>4, <2>1 DEF ReadsTypeOK
  <2>3. LoadsAreRead' /\ ShownReadIsRead'
    BY <1>1, <2>1 DEF ReadsTypeOK, LoadsAreRead, ShownReadIsRead
  <2> QED  BY <1>5, <2>2, <2>3 DEF ReadsInv
<1> QED  BY <1>6, <1>7, <1>8, <1>9, <1>10

\* A request is sent, its UPDATE is made, it is answered or fails.
LEMMA ClickSteps ==
  ASSUME IInv, ReadsInv, NEW r \in Clicks,
         \/ \E u \in Pages : ClickAll(r, u) \/ \E n \in Ids : Click(r, u, n)
         \/ MarkRead(r) \/ Match(r) \/ MarkAllRead(r) \/ Answer(r) \/ AnswerAll(r) \/ End(r)
  PROVE  ReadsInv'
<1>1. ReadsTypeOK /\ LoadsAreRead /\ ClicksCover /\ ShownReadIsRead  BY DEF ReadsInv
<1>2. UNCHANGED vars /\ \A u : Own(u)' = Own(u)
  BY DEF ClickAll, Click, MarkRead, Match, MarkAllRead, Answer, AnswerAll, End, vars, Own
<1>3. req[r] \in Request /\ Idle \in Request /\ Idle.pc = "idle"
  BY <1>1 DEF ReadsTypeOK, Request, Idle
<1>4. RTyped /\ ListsOwn /\ \A u : Own(u) \subseteq Ids
  BY InvParts DEF RTyped, Own
\* The other requests stay as they are, and so it is enough to look at this one.
<1>5. ASSUME NEW q \in Request, req' = [req EXCEPT ![r] = q], read \subseteq read',
             ClickOK(q, Own(q.page), read')
      PROVE  req' \in [Clicks -> Request] /\ ClicksCover'
  <2>1. req' \in [Clicks -> Request]  BY <1>1, <1>5 DEF ReadsTypeOK
  <2>2. \A p \in Clicks : req'[p] = IF p = r THEN q ELSE req[p]
    BY <1>1, <1>5 DEF ReadsTypeOK
  <2>3. \A u : RowsOf(stored', owner', u) = Own(u)  BY <1>2 DEF RowsOf, Own, vars
  <2>4. \A p \in Clicks : ClickOK(req'[p], Own(req'[p].page), read')
    <3> TAKE p \in Clicks
    <3>1. CASE p = r  BY <1>5, <2>2, <3>1
    <3>2. CASE p # r
      <4>1. req'[p] = req[p]  BY <2>2, <3>2
      <4>2. ClickOK(req[p], Own(req[p].page), read)  BY <1>1, CoverParts
      <4> QED  BY <1>5, <4>1, <4>2 DEF ClickOK
    <3> QED  BY <3>1, <3>2
  <2>5. ClicksCover'  BY <2>3, <2>4, CoverPartsNext
  <2> QED  BY <2>1, <2>5
<1>6. ASSUME UNCHANGED <<seen, answerSeen, lateSeen, tooNew>>, read' \in SUBSET Ids,
             read \subseteq read', req' \in [Clicks -> Request], ClicksCover'
      PROVE  ReadsInv'
  BY <1>1, <1>6 DEF ReadsInv, ReadsTypeOK, LoadsAreRead, ShownReadIsRead
<1>7. CASE \E u \in Pages : ClickAll(r, u) \/ \E n \in Ids : Click(r, u, n)
  <2>1. PICK u \in Pages, n \in Ids \union {0} :
          /\ req' = [req EXCEPT ![r] = Sent(u, n)] /\ (n # 0 => n \in Own(u))
          /\ UNCHANGED <<read, seen, answerSeen, lateSeen, tooNew>>
    <3>1. CASE \E u \in Pages : ClickAll(r, u)  BY <3>1 DEF ClickAll
    <3>2. CASE \E u \in Pages, n \in Ids : Click(r, u, n)
      BY <1>4, <3>2 DEF Click, ListsOwn
    <3> QED  BY <1>7, <3>1, <3>2
  <2>2. /\ Sent(u, n) \in Request /\ Sent(u, n).pc = "sent"
        /\ Sent(u, n).page = u /\ Sent(u, n).item = n /\ Sent(u, n).saw = {}
    BY <2>1, Assumed DEF Sent, Idle, Request
  <2>3. req' \in [Clicks -> Request] /\ ClicksCover'  BY <1>5, <2>1, <2>2 DEF ClickOK
  <2>4. read' \in SUBSET Ids  BY <1>1, <2>1 DEF ReadsTypeOK
  <2> QED  BY <1>6, <2>1, <2>3, <2>4
<1>8. CASE Match(r)
  <2> DEFINE q == [req[r] EXCEPT !.pc = "matched", !.saw = Own(req[r].page)]
  <2>1. /\ req[r].pc = "sent" /\ req' = [req EXCEPT ![r] = q]
        /\ req[r].item = 0 /\ UNCHANGED <<read, seen, answerSeen, lateSeen, tooNew>>
    BY <1>8 DEF Match
  <2>2. /\ q \in Request /\ q.pc = "matched" /\ q.page = req[r].page /\ q.item = req[r].item
    BY <1>3, <1>4 DEF Request
  <2> HIDE DEF q
  <2>3. q.page \in Pages /\ (q.item # 0 => q.item \in Own(q.page))
    BY <1>1, <2>1, <2>2 DEF ClicksCover
  <2>4. req' \in [Clicks -> Request] /\ ClicksCover'  BY <1>5, <2>1, <2>2, <2>3 DEF ClickOK
  <2>5. read' \in SUBSET Ids  BY <1>1, <2>1 DEF ReadsTypeOK
  <2> QED  BY <1>6, <2>1, <2>4, <2>5
<1>9. CASE MarkRead(r) \/ MarkAllRead(r)
  <2> DEFINE q == [req[r] EXCEPT !.pc = "written"]
             rows == {req[r].item} \intersect Own(req[r].page)
  <2>1. /\ req[r].pc # "idle" /\ req' = [req EXCEPT ![r] = q]
        /\ UNCHANGED <<seen, answerSeen, lateSeen, tooNew>>
    BY <1>9 DEF MarkRead, MarkAllRead
  <2>2. /\ q \in Request /\ q.pc = "written" /\ q.page = req[r].page
        /\ q.item = req[r].item /\ q.saw = req[r].saw
    BY <1>3 DEF Request
  <2> HIDE DEF q
  <2>3. q.page \in Pages /\ (q.item # 0 => q.item \in Own(q.page))
    BY <1>1, <2>1, <2>2 DEF ClicksCover
  <2>4. /\ read \subseteq read' /\ read' \in SUBSET Ids
        /\ q.saw \union ({q.item} \ {0}) \subseteq read'
    <3>1. CASE MarkRead(r)
      <4>1. req[r].pc = "sent" /\ req[r].item # 0 /\ read' = read \union rows
        BY <3>1 DEF MarkRead
      <4>2. req[r].saw = {}  BY <1>1, <4>1 DEF ClicksCover
      <4> QED  BY <1>1, <1>4, <2>2, <2>3, <4>1, <4>2 DEF ReadsTypeOK
    <3>2. CASE MarkAllRead(r)
      <4>1. req[r].pc = "matched" /\ read' = read \union req[r].saw
        BY <3>2 DEF MarkAllRead
      <4>2. req[r].item = 0  BY <1>1, <4>1 DEF ClicksCover
      <4> QED  BY <1>1, <1>3, <2>2, <4>1, <4>2 DEF ReadsTypeOK, Request
    <3> QED  BY <1>9, <3>1, <3>2
  <2>5. req' \in [Clicks -> Request] /\ ClicksCover'  BY <1>5, <2>1, <2>2, <2>3, <2>4 DEF ClickOK
  <2> QED  BY <1>6, <2>1, <2>4, <2>5
<1>10. CASE End(r)
  <2>1. /\ req' = [req EXCEPT ![r] = Idle]
        /\ UNCHANGED <<read, seen, answerSeen, lateSeen, tooNew>>
    BY <1>10 DEF End
  <2>2. req' \in [Clicks -> Request] /\ ClicksCover'  BY <1>3, <1>5, <2>1 DEF ClickOK
  <2>3. read' \in SUBSET Ids  BY <1>1, <2>1 DEF ReadsTypeOK
  <2> QED  BY <1>6, <2>1, <2>2, <2>3
<1>11. CASE Answer(r)
  <2> DEFINE u == req[r].page  n == req[r].item
  <2>1. /\ req[r].pc = "written" /\ n # 0
        /\ seen' = seen \/ seen' = [seen EXCEPT ![u] = @ \union {n}]
        /\ req' = [req EXCEPT ![r] = Idle]
        /\ UNCHANGED <<read, answerSeen, lateSeen, tooNew>>
    BY <1>11 DEF Answer
  <2>2. u \in Pages /\ n \in Ids /\ n \in read
    BY <1>1, <1>4, <2>1 DEF ClicksCover
  <2>3. req' \in [Clicks -> Request] /\ ClicksCover'  BY <1>3, <1>5, <2>1 DEF ClickOK
  <2> HIDE DEF u, n
  <2>4. ReadsTypeOK' /\ LoadsAreRead'
    BY <1>1, <2>1, <2>2, <2>3 DEF ReadsTypeOK, LoadsAreRead
  <2>5. ShownReadIsRead'
    BY <1>1, <2>1, <2>2 DEF ReadsTypeOK, ShownReadIsRead
  <2> QED  BY <2>3, <2>4, <2>5 DEF ReadsInv
<1>12. CASE AnswerAll(r)
  <2> DEFINE u == req[r].page  items == Listed(shown[u])
  <2>1. /\ req[r].pc = "written"
        /\ seen' = [seen EXCEPT ![u] = @ \union items]
        /\ tooNew' = [tooNew EXCEPT ![u] = (@ \union (items \ seen[u])) \ req[r].saw]
        /\ req' = [req EXCEPT ![r] = Idle]
        /\ UNCHANGED <<read, answerSeen, lateSeen>>
    BY <1>12 DEF AnswerAll
  <2>2. u \in Pages /\ req[r].saw \subseteq read
    BY <1>1, <2>1 DEF ClicksCover
  <2>3. items \subseteq Ids  BY <1>4, <2>2 DEF ListsOwn
  <2>4. req' \in [Clicks -> Request] /\ ClicksCover'  BY <1>3, <1>5, <2>1 DEF ClickOK
  <2> HIDE DEF u, items
  <2>5. ReadsTypeOK' /\ LoadsAreRead'
    BY <1>1, <2>1, <2>2, <2>3, <2>4 DEF ReadsTypeOK, LoadsAreRead
  <2>6. ShownReadIsRead'
    BY <1>1, <2>1, <2>2 DEF ReadsTypeOK, ShownReadIsRead
  <2> QED  BY <2>4, <2>5, <2>6 DEF ReadsInv
<1> QED  BY <1>7, <1>8, <1>9, <1>10, <1>11, <1>12

LEMMA ReadsStep == IInv /\ ReadsInv /\ [ReadsNext]_readsvars => ReadsInv'
<1> SUFFICES ASSUME IInv, ReadsInv, [ReadsNext]_readsvars PROVE ReadsInv'
  OBVIOUS
<1>1. CASE ServerNext /\ UNCHANGED tvars  BY <1>1, RowsStay, Undisturbed
<1>2. ASSUME NEW u \in Pages, Connect(u), UNCHANGED tvars
      PROVE  ReadsInv'
  <2>1. \A v : Own(v)' = Own(v)  BY <1>2 DEF Connect, rvars, Own
  <2> QED  BY <1>2, <2>1, Undisturbed
<1>3. ASSUME NEW u \in Pages,
             \/ ReadInboxItems(u) \/ ShowInboxItems(u) \/ ReadLateItems(u) \/ ShowLateItems(u)
             \/ \E n \in topic[u] : DeliverItem(u, n)
             \/ \E error \in BOOLEAN : DisconnectItems(u, error)
      PROVE  ReadsInv'
  BY <1>3, ItemSteps
<1>4. ASSUME NEW r \in Clicks,
             \/ \E u \in Pages : ClickAll(r, u) \/ \E n \in Ids : Click(r, u, n)
             \/ MarkRead(r) \/ Match(r) \/ MarkAllRead(r) \/ Answer(r) \/ AnswerAll(r) \/ End(r)
      PROVE  ReadsInv'
  BY <1>4, ClickSteps
<1>5. CASE UNCHANGED readsvars
  <2>1. UNCHANGED tvars /\ \A v : Own(v)' = Own(v)  BY <1>5 DEF readsvars, vars, Own
  <2> QED  BY <2>1, Undisturbed
<1>6. CASE RestartWithClicks
  <2>1. /\ UNCHANGED <<read, seen, tooNew>> /\ req' = [r \in Clicks |-> Idle]
        /\ answerSeen' = [u \in Pages |-> {}] /\ lateSeen' = [u \in Pages |-> {}]
    BY <1>6 DEF RestartWithClicks
  <2>2. Idle \in Request /\ Idle.pc = "idle"  BY DEF Idle, Request
  <2> QED
    BY <2>1, <2>2 DEF ReadsInv, ReadsTypeOK, LoadsAreRead, ClicksCover, ShownReadIsRead
<1> QED  BY <1>1, <1>2, <1>3, <1>4, <1>5, <1>6 DEF ReadsNext

LEMMA ReadsInitial == ReadsInit => ReadsInv
<1> SUFFICES ASSUME ReadsInit PROVE ReadsInv
  OBVIOUS
<1>1. Idle \in Request /\ Idle.pc = "idle"  BY DEF Idle, Request
<1> QED
  BY <1>1 DEF ReadsInit, ReadsInv, ReadsTypeOK, LoadsAreRead, ClicksCover, ShownReadIsRead

\* The steps of the clicks are none of Notifications, so its invariant holds here too,
\* and with it what a page knows of its requests (notifications.js:21-48).
THEOREM ReadsInvariance == ReadsSpec => [](IInv /\ ReadsInv)
<1>1. ReadsInit => IInv /\ ReadsInv  BY Initial, ReadsInitial DEF ReadsInit
<1>2. [ReadsNext]_readsvars => [Next]_vars  BY ReadsStepIsStep DEF readsvars
<1>3. (IInv /\ ReadsInv) /\ [ReadsNext]_readsvars => (IInv /\ ReadsInv)'
  BY <1>2, Step, ReadsStep
<1> QED  BY <1>1, <1>3, PTL DEF ReadsSpec

\* Whatever clicks, loads, frames, failures and restarts cross, what a page shows as
\* read is read in the table, but for items that came between the UPDATE of a "mark
\* all" and its answer (notifications.js:21-48, notification_repository.go:56-80).
THEOREM ShownReadIsTrue == ReadsSpec => []ShownReadIsRead
<1>1. ReadsInv => ShownReadIsRead  BY DEF ReadsInv
<1> QED  BY ReadsInvariance, <1>1, PTL
=============================================================================
