--------------------------- MODULE ExportsProofs ---------------------------
(***************************************************************************)
(* The server's invariant, for any number of exports and issues, any size  *)
(* of a page and any number of attempts.                                   *)
(***************************************************************************)
EXTENDS Exports, PaginationProofs, WellFoundedInduction

-----------------------------------------------------------------------------
(* Views and ranks *)

LEMMA ViewsFinite ==
  ASSUME NEW V \in SUBSET Ids
  PROVE  /\ V \in SUBSET Int /\ IsFiniteSet(V)
         /\ Cardinality(V) \in Nat /\ Cardinality(V) <= MaxIssue
<1>1. MaxIssue \in Nat /\ Ids = 1..MaxIssue  BY ExportAssumption DEF Ids
<1>2. IsFiniteSet(Ids) /\ Cardinality(Ids) = MaxIssue
  <2>1. IsFiniteSet(1..MaxIssue) /\ Cardinality(1..MaxIssue) = IF 1 > MaxIssue THEN 0 ELSE MaxIssue - 1 + 1
    BY <1>1, FS_Interval
  <2> QED  BY <1>1, <2>1
<1>3. IsFiniteSet(V) /\ Cardinality(V) <= Cardinality(Ids)  BY <1>2, FS_Subset
<1>4. V \in SUBSET Int  BY <1>1
<1> QED  BY <1>2, <1>3, <1>4, FS_CardinalityType

\* The first issue of a view has rank 0.
LEMMA FirstIssue ==
  ASSUME NEW V \in SUBSET Ids, V # {}
  PROVE  \E i \in V : Rank(i, V) = 0
<1>1. V \subseteq Nat  BY ExportAssumption DEF Ids
<1>2. PICK i \in V : \A j \in V : ~(<<j, i>> \in OpToRel(<, Nat))
  BY <1>1, WFMin, NatLessThanWellFounded
<1>3. \A j \in V : ~(j < i)  BY <1>1, <1>2 DEF OpToRel
<1>4. {j \in V : j < i} = {}  BY <1>3
<1> QED  BY <1>4, FS_EmptySet DEF Rank

\* An issue behind all others moves none of them and is last.
LEMMA RankBehind ==
  ASSUME NEW V \in SUBSET Ids, NEW i \in Ids, i \notin V, ~\E j \in V : i < j
  PROVE  /\ \A k \in V : Rank(k, V \union {i}) = Rank(k, V)
         /\ Rank(i, V \union {i}) = Cardinality(V)
         /\ Cardinality(V \union {i}) = Cardinality(V) + 1
<1>1. V \subseteq Int /\ i \in Int  BY ExportAssumption DEF Ids
<1>2. ASSUME NEW k \in V PROVE {j \in V \union {i} : j < k} = {j \in V : j < k}
  <2>1. ~(i < k)  OBVIOUS
  <2> QED  BY <2>1
<1>3. {j \in V \union {i} : j < i} = V
  <2>1. \A j \in V : j < i
    <3> TAKE j \in V
    <3>1. j # i /\ ~(i < j) /\ j \in Int  BY <1>1
    <3> QED  BY <3>1, <1>1
  <2>2. ~(i < i)  BY <1>1
  <2> QED  BY <2>1, <2>2
<1>4. Cardinality(V \union {i}) = Cardinality(V) + 1
  <2>1. IsFiniteSet(V)  BY ViewsFinite
  <2> QED  BY <2>1, FS_AddElement
<1> QED  BY <1>2, <1>3, <1>4 DEF Rank

-----------------------------------------------------------------------------
(* Types *)

LEMMA NoJobTyped == NoJob \in Job /\ NoRows \in [Ids -> Nat]
BY DEF NoJob, NoRows, Job

LEMMA ShiftedTyped ==
  ASSUME ServerTypeOK
  PROVE  /\ Shifted \in [Ops -> Job]
         /\ \A o \in Ops : /\ Reading(o) => Shifted[o] = [job[o] EXCEPT !.shifted = TRUE]
                           /\ ~Reading(o) => Shifted[o] = job[o]
<1>1. \A o \in Ops : job[o] \in Job  BY DEF ServerTypeOK
<1>2. \A j \in Job : [j EXCEPT !.shifted = TRUE] \in Job  BY DEF Job
<1> QED  BY <1>1, <1>2 DEF Shifted

LEMMA WrittenTyped ==
  ASSUME NEW rows \in [Ids -> Nat], NEW S
  PROVE  /\ Written(rows, S) \in [Ids -> Nat]
         /\ \A i \in Ids : Written(rows, S)[i] = IF i \in S THEN rows[i] + 1 ELSE rows[i]
BY DEF Written

LEMMA Assumed ==
  /\ PageSize \in Nat \ {0} /\ PageSize \in 1..MaxSize
  /\ MaxIssue \in Nat /\ MaxInt \in Nat /\ MaxAttempts \in Nat \ {0}
  /\ MaxIssue + PageSize <= MaxInt
BY ExportAssumption, PaginationAssumption

\* The rows that an attempt reads with a page.
LEMMA PageOfExport ==
  ASSUME NEW V \in SUBSET Ids, NEW page \in Nat \ {0},
         (page - 1) * PageSize < Larger(1, Cardinality(V)), NEW i \in Ids
  PROVE  i \in Page(V, page, PageSize) <=>
           /\ i \in V
           /\ (page - 1) * PageSize <= Rank(i, V) /\ Rank(i, V) < page * PageSize
<1>1. Cardinality(V) \in Nat /\ Cardinality(V) <= MaxIssue /\ V \in SUBSET Int /\ IsFiniteSet(V)
  BY ViewsFinite
<1>2. page - 1 \in Nat /\ (page - 1) * PageSize \in Nat
  <2>1. page - 1 \in Nat  OBVIOUS
  <2> QED  BY <2>1, Assumed
<1>3. (page - 1) * PageSize \in 0..MaxInt
  <2> DEFINE n == (page - 1) * PageSize
  <2>1. n \in Nat /\ n < Larger(1, Cardinality(V))  BY <1>2
  <2> HIDE DEF n
  <2>2. n \in 0..MaxInt  BY <1>1, <2>1, Assumed DEF Larger
  <2> QED  BY <2>2 DEF n
<1>4. Page(V, page, PageSize) \subseteq V  BY DEF Page, Slice
<1>5. CASE i \in V  BY <1>1, <1>3, <1>5, Assumed, PageRows
<1> QED  BY <1>4, <1>5

-----------------------------------------------------------------------------
(* The invariant, export by export *)

OpOK(st, n, j, f, V) ==
  /\ st = "running" => j.pc # "off"
  /\ st \in {"none", "pending", "retrying", "succeeded"} => j.pc = "off"
  /\ st = "none" => n = 0
  /\ st \in {"pending", "retrying"} => n < MaxAttempts
  /\ j.pc \in {"count", "select"} /\ ~j.shifted => WrittenSoFar(j, V)
  /\ j.pc = "select" /\ ~j.shifted => PagesSuffice(j, V)
  /\ (j.pc \in {"save", "end"} \/ st = "succeeded") /\ ~j.shifted => Exact(j.rows, j.from)
  /\ j.pc = "end" => f = j.rows
  /\ st = "succeeded" => f = j.rows

LEMMA InvByOp ==
  ServerInv <=> /\ ServerTypeOK
                /\ \A o \in Ops : OpOK(status[o], attempt[o], job[o], file[o], visible)
BY DEF ServerInv, OpOK, WorkerOfStatus, PagesWritten, AllWritten, FileWritten, FileOfResult, Reading

LEMMA Same ==
  ASSUME NEW A, NEW B, NEW f \in [A -> B], NEW a \in A
  PROVE  f = [f EXCEPT ![a] = f[a]] /\ f[a] \in B
OBVIOUS

\* A step of one export leaves the others as they are.
LEMMA OneOp ==
  ASSUME ServerInv, NEW o \in Ops,
         NEW st \in Statuses, NEW n \in 0..MaxAttempts, NEW j \in Job, NEW f \in [Ids -> Nat],
         status' = [status EXCEPT ![o] = st], attempt' = [attempt EXCEPT ![o] = n],
         job' = [job EXCEPT ![o] = j], file' = [file EXCEPT ![o] = f],
         UNCHANGED <<visible, changes>>,
         OpOK(st, n, j, f, visible)
  PROVE  ServerInv'
<1>1. ServerTypeOK  BY DEF ServerInv
<1>2. ServerTypeOK'  BY <1>1 DEF ServerTypeOK
<1>3. \A p \in Ops \ {o} : /\ status'[p] = status[p] /\ attempt'[p] = attempt[p]
                           /\ job'[p] = job[p] /\ file'[p] = file[p]
  BY <1>1 DEF ServerTypeOK
<1>4. status'[o] = st /\ attempt'[o] = n /\ job'[o] = j /\ file'[o] = f
  BY <1>1 DEF ServerTypeOK
<1>5. visible' = visible  OBVIOUS
<1>6. \A p \in Ops : OpOK(status[p], attempt[p], job[p], file[p], visible)  BY InvByOp
<1>7. \A p \in Ops : OpOK(status'[p], attempt'[p], job'[p], file'[p], visible')
  BY <1>3, <1>4, <1>5, <1>6
<1> QED
  BY <1>2, <1>7 DEF ServerInv, OpOK, WorkerOfStatus, PagesWritten, AllWritten, FileWritten,
                    FileOfResult, Reading

\* What a step starts from.
LEMMA OpTyped ==
  ASSUME ServerInv, NEW o \in Ops
  PROVE  /\ status[o] \in Statuses /\ attempt[o] \in 0..MaxAttempts /\ job[o] \in Job
         /\ file[o] \in [Ids -> Nat] /\ visible \in SUBSET Ids
         /\ status = [status EXCEPT ![o] = status[o]]
         /\ attempt = [attempt EXCEPT ![o] = attempt[o]]
         /\ job = [job EXCEPT ![o] = job[o]]
         /\ file = [file EXCEPT ![o] = file[o]]
         /\ OpOK(status[o], attempt[o], job[o], file[o], visible)
<1>1. ServerTypeOK  BY DEF ServerInv
<1>2. /\ status \in [Ops -> Statuses] /\ attempt \in [Ops -> 0..MaxAttempts]
      /\ job \in [Ops -> Job] /\ file \in [Ops -> [Ids -> Nat]] /\ visible \in SUBSET Ids
  BY <1>1 DEF ServerTypeOK
<1> QED  BY <1>2, Same, InvByOp

-----------------------------------------------------------------------------
(* The steps of the view *)

\* A step that changes the view alone.
LEMMA ViewStep ==
  ASSUME ServerInv, NEW V \in SUBSET Ids, NEW jobs \in [Ops -> Job],
         visible' = V, changes' \in 0..MaxChanges, job' = jobs,
         UNCHANGED <<status, attempt, file>>,
         \A o \in Ops : OpOK(status[o], attempt[o], jobs[o], file[o], V)
  PROVE  ServerInv'
<1>1. ServerTypeOK  BY DEF ServerInv
<1>2. ServerTypeOK'  BY <1>1 DEF ServerTypeOK
<1> QED
  BY <1>2 DEF ServerInv, OpOK, WorkerOfStatus, PagesWritten, AllWritten, FileWritten,
              FileOfResult, Reading

\* Attempts that are reading remember it: then nothing is said of their rows.
LEMMA ShiftedOK ==
  ASSUME ServerInv, NEW V, NEW o \in Ops
  PROVE  OpOK(status[o], attempt[o], Shifted[o], file[o], V)
<1> DEFINE j == job[o]  k == Shifted[o]
<1>1. ServerTypeOK  BY DEF ServerInv
<1>2. j \in Job /\ OpOK(status[o], attempt[o], j, file[o], visible)  BY OpTyped
<1>3. CASE j.pc \in {"count", "select"}
  <2>1. k = [j EXCEPT !.shifted = TRUE]  BY <1>1, <1>3, ShiftedTyped DEF Reading
  <2>2. k.pc = j.pc /\ k.rows = j.rows /\ k.shifted  BY <2>1, <1>2 DEF Job
  <2> HIDE DEF j, k
  <2> QED  BY <2>2, <1>2, <1>3 DEF OpOK, k
<1>4. CASE j.pc \notin {"count", "select"}
  <2>1. k = j  BY <1>1, <1>4, ShiftedTyped DEF Reading
  <2> HIDE DEF j, k
  <2>2. OpOK(status[o], attempt[o], k, file[o], V)  BY <2>1, <1>2, <1>4 DEF OpOK
  <2> QED  BY <2>2 DEF k
<1> QED  BY <1>3, <1>4

\* An issue behind all others changes nothing of what has been written.
LEMMA BehindOK ==
  ASSUME ServerInv, NEW o \in Ops, NEW i \in Ids, i \notin visible, ~\E k \in visible : i < k
  PROVE  OpOK(status[o], attempt[o], job[o], file[o], visible \union {i})
<1> DEFINE j == job[o]  V == visible  W == visible \union {i}
<1>1. j \in Job /\ OpOK(status[o], attempt[o], j, file[o], V) /\ V \in SUBSET Ids  BY OpTyped
<1>2. /\ \A k \in V : Rank(k, W) = Rank(k, V)
      /\ Rank(i, W) = Cardinality(V)
      /\ Cardinality(W) = Cardinality(V) + 1
  BY <1>1, RankBehind
<1>3. Cardinality(V) \in Nat  BY <1>1, ViewsFinite
<1>4. ASSUME WrittenSoFar(j, V) PROVE WrittenSoFar(j, W)
  <2> DEFINE read == (j.page - 1) * PageSize
  <2>1. read \in Nat
    <3>1. j.page - 1 \in Nat  BY <1>1 DEF Job
    <3> QED  BY <3>1, Assumed
  <2>2. j.from \subseteq V /\ read < Larger(1, Cardinality(V))
    BY <1>4 DEF WrittenSoFar
  <2>3. \A k \in Ids : j.rows[k] = IF k \in V /\ Rank(k, V) < read THEN 1 ELSE 0
    BY <1>4 DEF WrittenSoFar
  <2> HIDE DEF read
  <2>4. read < Larger(1, Cardinality(W))  BY <2>1, <2>2, <1>2, <1>3 DEF Larger
  <2>5. ~(Rank(i, W) < read)  BY <2>1, <2>2, <1>2, <1>3 DEF Larger
  <2>6. \A k \in Ids : j.rows[k] = IF k \in W /\ Rank(k, W) < read THEN 1 ELSE 0
    BY <2>3, <2>5, <1>2
  <2> QED  BY <2>2, <2>4, <2>6 DEF WrittenSoFar, read
<1>5. ASSUME j.from \subseteq V, PagesSuffice(j, V) PROVE PagesSuffice(j, W)
  <2> DEFINE last == (j.pages - 1) * PageSize
  <2>1. last \in Int
    <3>1. j.pages - 1 \in Int  BY <1>1 DEF Job
    <3> QED  BY <3>1, Assumed
  <2>2. /\ \A k \in j.from : Rank(k, V) < j.pages * PageSize
        /\ j.pages > 0 => last < Cardinality(V)
    BY <1>5 DEF PagesSuffice
  <2> HIDE DEF last
  <2>3. j.pages > 0 => last < Cardinality(W)  BY <2>1, <2>2, <1>2, <1>3
  <2>4. \A k \in j.from : Rank(k, W) < j.pages * PageSize  BY <2>2, <1>2, <1>5
  <2> QED  BY <2>3, <2>4 DEF PagesSuffice, last
<1>6. WrittenSoFar(j, V) => j.from \subseteq V  BY DEF WrittenSoFar
<1> HIDE DEF j, V, W
<1>7. OpOK(status[o], attempt[o], j, file[o], W)
  BY <1>1, <1>4, <1>5, <1>6 DEF OpOK
<1> QED  BY <1>7 DEF j, W, V

LEMMA EnterStep ==
  ASSUME ServerInv, NEW i \in Ids, Enter(i)
  PROVE  ServerInv'
<1> DEFINE W == visible \union {i}
<1>1. ServerTypeOK  BY DEF ServerInv
<1>2. /\ W \in SUBSET Ids /\ job \in [Ops -> Job] /\ Shifted \in [Ops -> Job]
      /\ changes \in 0..MaxChanges
  BY <1>1, ShiftedTyped DEF ServerTypeOK
<1>3. visible' = W /\ i \notin visible /\ UNCHANGED <<status, attempt, file>>  BY DEF Enter
<1>4. changes' \in 0..MaxChanges  BY <1>2, ExportAssumption DEF Enter
<1>5. CASE \E j \in visible : i < j
  <2>1. job' = Shifted  BY <1>5 DEF Enter
  <2> QED  BY <1>2, <1>3, <1>4, <2>1, ShiftedOK, ViewStep
<1>6. CASE ~\E j \in visible : i < j
  <2>1. job' = job  BY <1>6 DEF Enter
  <2>2. \A o \in Ops : OpOK(status[o], attempt[o], job[o], file[o], W)
    BY <1>3, <1>6, BehindOK
  <2> HIDE DEF W
  <2> QED  BY <1>2, <1>3, <1>4, <2>1, <2>2, ViewStep
<1> QED  BY <1>5, <1>6

LEMMA LeaveStep ==
  ASSUME ServerInv, NEW i \in Ids, Leave(i)
  PROVE  ServerInv'
<1> DEFINE W == visible \ {i}
<1>1. ServerTypeOK  BY DEF ServerInv
<1>2. W \in SUBSET Ids /\ Shifted \in [Ops -> Job] /\ changes \in 0..MaxChanges
  BY <1>1, ShiftedTyped DEF ServerTypeOK
<1>3. visible' = W /\ job' = Shifted /\ UNCHANGED <<status, attempt, file>>  BY DEF Leave
<1>4. changes' \in 0..MaxChanges  BY <1>2, ExportAssumption DEF Leave
<1> HIDE DEF W
<1> QED  BY <1>2, <1>3, <1>4, ShiftedOK, ViewStep

-----------------------------------------------------------------------------
(* The steps of an attempt *)

LEMMA BeginStep ==
  ASSUME ServerInv, NEW o \in Ops, Begin(o)
  PROVE  ServerInv'
<1> DEFINE V == visible  j == [NoJob EXCEPT !.pc = "count", !.from = V]  n == attempt[o] + 1
<1>1. /\ attempt[o] \in 0..MaxAttempts /\ V \in SUBSET Ids /\ file[o] \in [Ids -> Nat]
      /\ file = [file EXCEPT ![o] = file[o]]
      /\ OpOK(status[o], attempt[o], job[o], file[o], V)
  BY OpTyped
<1>2. /\ status[o] \in {"pending", "retrying"}
      /\ status' = [status EXCEPT ![o] = "running"] /\ attempt' = [attempt EXCEPT ![o] = n]
      /\ job' = [job EXCEPT ![o] = j] /\ file' = file
      /\ UNCHANGED <<visible, changes>>
  <2>1. ServerTypeOK  BY DEF ServerInv
  <2> QED  BY <2>1 DEF Begin, ServerTypeOK
<1>3. n \in 0..MaxAttempts  BY <1>1, <1>2, Assumed DEF OpOK
<1>4. /\ j \in Job /\ j.pc = "count" /\ j.page = 1 /\ j.from = V
      /\ j.rows = [k \in Ids |-> 0]
  <2>1. NoJob \in Job /\ NoJob.page = 1 /\ NoJob.rows = NoRows  BY NoJobTyped DEF NoJob
  <2>2. j \in Job /\ j.pc = "count" /\ j.from = V /\ j.page = NoJob.page /\ j.rows = NoJob.rows
    BY <1>1, <2>1 DEF Job
  <2> QED  BY <2>1, <2>2 DEF NoRows
<1> HIDE DEF j, n
<1>5. WrittenSoFar(j, V)
  <2>1. (j.page - 1) * PageSize = 0
    <3>1. (1 - 1) * PageSize = 0  BY Assumed
    <3> QED  BY <3>1, <1>4
  <2>2. Cardinality(V) \in Nat  BY <1>1, ViewsFinite
  <2>3. \A k \in Ids : Rank(k, V) \in Nat
    <3>1. IsFiniteSet(V) /\ V \in SUBSET Int /\ Ids \subseteq Int
      BY <1>1, ViewsFinite DEF Ids
    <3> QED  BY <3>1, RankBounds
  <2>4. 0 < Larger(1, Cardinality(V))  BY <2>2 DEF Larger
  <2>5. \A k \in Ids : j.rows[k] = 0 /\ ~(Rank(k, V) < 0)  BY <1>4, <2>3
  <2> QED  BY <1>4, <2>1, <2>4, <2>5 DEF WrittenSoFar
<1>6. OpOK("running", n, j, file[o], V)  BY <1>4, <1>5 DEF OpOK
<1>7. "running" \in Statuses  BY DEF Statuses
<1> QED  BY <1>1, <1>2, <1>3, <1>4, <1>6, <1>7, OneOp DEF V

LEMMA CountStep ==
  ASSUME ServerInv, NEW o \in Ops, Count(o)
  PROVE  ServerInv'
<1> DEFINE V == visible  m == Cardinality(V)  t == TotalPages(m, PageSize)
           j == [job[o] EXCEPT !.pc = "select", !.pages = t]
<1>1. /\ status[o] \in Statuses /\ attempt[o] \in 0..MaxAttempts /\ job[o] \in Job
      /\ V \in SUBSET Ids /\ file[o] \in [Ids -> Nat]
      /\ status = [status EXCEPT ![o] = status[o]]
      /\ attempt = [attempt EXCEPT ![o] = attempt[o]]
      /\ file = [file EXCEPT ![o] = file[o]]
      /\ OpOK(status[o], attempt[o], job[o], file[o], V)
  BY OpTyped
<1>2. /\ job[o].pc = "count" /\ job' = [job EXCEPT ![o] = j]
      /\ UNCHANGED <<visible, changes, status, attempt, file>>
  <2>1. ServerTypeOK  BY DEF ServerInv
  <2> QED  BY <2>1 DEF Count, ServerTypeOK
<1>3. m \in Nat /\ IsFiniteSet(V) /\ V \in SUBSET Int  BY <1>1, ViewsFinite
<1> HIDE DEF m
<1>4. /\ t \in Nat
      /\ m > 0 => m <= t * PageSize /\ t * PageSize < m + PageSize
      /\ m = 0 => t = 0
  <2>1. CASE m = 0  BY <2>1 DEF TotalPages
  <2>2. CASE m \in Nat \ {0}  BY <2>2, Assumed, PagesCover
  <2> QED  BY <2>1, <2>2, <1>3
<1> HIDE DEF t
<1>5. /\ j \in Job /\ j.pc = "select" /\ j.pages = t /\ j.page = job[o].page
      /\ j.from = job[o].from /\ j.rows = job[o].rows /\ j.shifted = job[o].shifted
  BY <1>1, <1>4 DEF Job
<1> HIDE DEF j
<1>6. WrittenSoFar(job[o], V) => WrittenSoFar(j, V)  BY <1>5 DEF WrittenSoFar
<1>7. ASSUME j.from \subseteq V PROVE PagesSuffice(j, V)
  <2>1. ASSUME NEW i \in j.from PROVE Rank(i, V) < t * PageSize
    <3>1. i \in V /\ i \in Int  BY <1>3, <1>7
    <3>2. Rank(i, V) < m /\ Rank(i, V) \in Nat  BY <1>3, <3>1, RankBounds DEF m
    <3>3. t * PageSize \in Int  BY <1>4, Assumed
    <3> QED  BY <3>2, <3>3, <1>3, <1>4
  <2>2. ASSUME t > 0 PROVE (t - 1) * PageSize < m
    <3>1. m > 0  BY <2>2, <1>3, <1>4
    <3>2. (t - 1) * PageSize = t * PageSize - PageSize  BY <1>4, Assumed, Distributes
    <3>3. t * PageSize \in Int  BY <1>4, Assumed
    <3> QED  BY <3>1, <3>2, <3>3, <1>3, <1>4, Assumed
  <2> QED  BY <2>1, <2>2, <1>5 DEF PagesSuffice, m
<1>8. OpOK(status[o], attempt[o], j, file[o], V)
  <2>1. j.pc = "select" /\ job[o].pc = "count"  BY <1>2, <1>5
  <2>2. WrittenSoFar(j, V) => j.from \subseteq V  BY DEF WrittenSoFar
  <2> QED  BY <1>1, <1>5, <1>6, <1>7, <2>1, <2>2 DEF OpOK
<1> QED  BY <1>1, <1>2, <1>5, <1>8, OneOp DEF V

\* Saving, ending, failing and refusing.
LEMMA LastSteps ==
  ASSUME ServerInv, NEW o \in Ops, Save(o) \/ Finish(o) \/ Fail(o) \/ RefuseOwner(o)
  PROVE  ServerInv'
<1> DEFINE V == visible
<1>0. ServerTypeOK  BY DEF ServerInv
<1>1. /\ status[o] \in Statuses /\ attempt[o] \in 0..MaxAttempts /\ job[o] \in Job
      /\ V \in SUBSET Ids /\ file[o] \in [Ids -> Nat]
      /\ status = [status EXCEPT ![o] = status[o]]
      /\ attempt = [attempt EXCEPT ![o] = attempt[o]]
      /\ file = [file EXCEPT ![o] = file[o]]
      /\ OpOK(status[o], attempt[o], job[o], file[o], V)
  BY OpTyped
<1>2. NoJob \in Job /\ NoJob.pc = "off"  BY NoJobTyped DEF NoJob
<1>3. CASE Save(o)
  <2> DEFINE j == [job[o] EXCEPT !.pc = "end"]  f == job[o].rows
  <2>1. /\ job[o].pc = "save" /\ job' = [job EXCEPT ![o] = j] /\ file' = [file EXCEPT ![o] = f]
        /\ UNCHANGED <<visible, changes, status, attempt>>
    BY <1>0, <1>3 DEF Save, Saved, ServerTypeOK
  <2>2. /\ j \in Job /\ f \in [Ids -> Nat] /\ j.pc = "end" /\ j.rows = f
        /\ j.from = job[o].from /\ j.shifted = job[o].shifted
    BY <1>1 DEF Job
  <2> HIDE DEF j, f
  <2>3. OpOK(status[o], attempt[o], j, f, V)
    <3>1. f = job[o].rows  BY DEF f
    <3> QED  BY <1>1, <2>1, <2>2, <3>1 DEF OpOK
  <2> QED  BY <1>1, <2>1, <2>2, <2>3, OneOp DEF V
<1>4. CASE Finish(o) /\ status[o] = "running"
  <2> DEFINE j == [job[o] EXCEPT !.pc = "off"]
  <2>1. /\ job[o].pc = "end" /\ job' = [job EXCEPT ![o] = j]
        /\ status' = [status EXCEPT ![o] = "succeeded"]
        /\ UNCHANGED <<visible, changes, attempt, file>>
    BY <1>0, <1>4 DEF Finish, ServerTypeOK
  <2>2. /\ j \in Job /\ j.pc = "off" /\ j.rows = job[o].rows
        /\ j.from = job[o].from /\ j.shifted = job[o].shifted
    BY <1>1 DEF Job
  <2>3. "succeeded" \in Statuses  BY DEF Statuses, Ended
  <2> HIDE DEF j
  <2>4. OpOK("succeeded", attempt[o], j, file[o], V)  BY <1>1, <2>1, <2>2 DEF OpOK
  <2> QED  BY <1>1, <2>1, <2>2, <2>3, <2>4, OneOp DEF V
<1>5. CASE Finish(o) /\ status[o] # "running"
  <2>1. /\ job[o].pc = "end" /\ job' = [job EXCEPT ![o] = NoJob] /\ status' = status
        /\ UNCHANGED <<visible, changes, attempt, file>>
    BY <1>5 DEF Finish
  <2>2. OpOK(status[o], attempt[o], NoJob, file[o], V)
    BY <1>1, <1>2, <1>5, <2>1 DEF OpOK
  <2> QED  BY <1>1, <1>2, <2>1, <2>2, OneOp DEF V
<1>6. CASE Fail(o)
  <2> DEFINE st == AfterFailure(o)
  <2>1. /\ job[o].pc # "off" /\ job' = [job EXCEPT ![o] = NoJob]
        /\ status' = [status EXCEPT ![o] = st]
        /\ UNCHANGED <<visible, changes, attempt, file>>
    BY <1>6 DEF Fail
  <2>2. st \in Statuses  BY <1>1 DEF AfterFailure, Statuses, Ended
  <2>3. OpOK(st, attempt[o], NoJob, file[o], V)
    BY <1>1, <1>2, <2>1, <2>2 DEF OpOK, AfterFailure
  <2> HIDE DEF st
  <2> QED  BY <1>1, <1>2, <2>1, <2>2, <2>3, OneOp DEF V
<1>7. CASE RefuseOwner(o)
  <2>1. /\ job' = [job EXCEPT ![o] = NoJob] /\ status' = [status EXCEPT ![o] = "failed"]
        /\ UNCHANGED <<visible, changes, attempt, file>>
    BY <1>7 DEF RefuseOwner
  <2>2. "failed" \in Statuses  BY DEF Statuses, Ended
  <2>3. OpOK("failed", attempt[o], NoJob, file[o], V)  BY <1>2 DEF OpOK
  <2> QED  BY <1>1, <1>2, <2>1, <2>2, <2>3, OneOp DEF V
<1> QED  BY <1>3, <1>4, <1>5, <1>6, <1>7

LEMMA RequestSteps ==
  ASSUME ServerInv, NEW o \in Ops, Submit(o) \/ Cancel(o)
  PROVE  ServerInv'
<1> DEFINE V == visible
<1>1. /\ status[o] \in Statuses /\ attempt[o] \in 0..MaxAttempts /\ job[o] \in Job
      /\ V \in SUBSET Ids /\ file[o] \in [Ids -> Nat]
      /\ status = [status EXCEPT ![o] = status[o]]
      /\ attempt = [attempt EXCEPT ![o] = attempt[o]]
      /\ job = [job EXCEPT ![o] = job[o]]
      /\ file = [file EXCEPT ![o] = file[o]]
      /\ OpOK(status[o], attempt[o], job[o], file[o], V)
  BY OpTyped
<1>2. PICK st \in {status[o], "pending", "cancelled"} :
        /\ status' = [status EXCEPT ![o] = st]
        /\ st = "pending" => status[o] \in {"none", "pending"}
  BY <1>1 DEF Submit, Cancel
<1>3. UNCHANGED <<visible, changes, attempt, job, file>>  BY DEF Submit, Cancel
<1>4. st \in Statuses  BY <1>1, <1>2 DEF Statuses, Ended
<1>5. OpOK(st, attempt[o], job[o], file[o], V)
  BY <1>1, <1>2, Assumed DEF OpOK
<1> QED  BY <1>1, <1>2, <1>3, <1>4, <1>5, OneOp DEF V

\* What an undisturbed attempt has written once it has read a page, too.
LEMMA PageWritten ==
  ASSUME NEW V \in SUBSET Ids, NEW j \in Job, WrittenSoFar(j, V)
  PROVE  \A i \in Ids : Written(j.rows, Page(V, j.page, PageSize))[i] =
                          IF i \in V /\ Rank(i, V) < j.page * PageSize THEN 1 ELSE 0
<1> DEFINE read == (j.page - 1) * PageSize  P == Page(V, j.page, PageSize)
<1>1. /\ j.page \in Nat \ {0} /\ j.page - 1 \in Nat /\ j.rows \in [Ids -> Nat]
  BY DEF Job
<1>2. read \in Nat /\ read + PageSize = j.page * PageSize
  <2>1. read \in Nat  BY <1>1, Assumed
  <2>2. read = j.page * PageSize - PageSize  BY <1>1, Assumed, Distributes
  <2>3. j.page * PageSize \in Int  BY <1>1, Assumed
  <2> QED  BY <2>1, <2>2, <2>3, Assumed
<1>3. /\ read < Larger(1, Cardinality(V))
      /\ \A i \in Ids : j.rows[i] = IF i \in V /\ Rank(i, V) < read THEN 1 ELSE 0
  BY DEF WrittenSoFar
<1>4. \A i \in Ids : i \in P <=> /\ i \in V /\ read <= Rank(i, V)
                                 /\ Rank(i, V) < j.page * PageSize
  BY <1>1, <1>3, PageOfExport
<1>5. \A i \in Ids : Rank(i, V) \in Nat
  <2>1. IsFiniteSet(V) /\ V \in SUBSET Int /\ Ids \subseteq Int  BY ViewsFinite DEF Ids
  <2> QED  BY <2>1, RankBounds
<1>6. \A i \in Ids : Written(j.rows, P)[i] = IF i \in P THEN j.rows[i] + 1 ELSE j.rows[i]
  BY <1>1, WrittenTyped
<1> HIDE DEF read, P
<1>7. j.page * PageSize \in Int /\ read < j.page * PageSize  BY <1>1, <1>2, Assumed
<1> SUFFICES ASSUME NEW i \in Ids
             PROVE  Written(j.rows, P)[i] = IF i \in V /\ Rank(i, V) < j.page * PageSize
                                            THEN 1 ELSE 0
  BY DEF P
<1>8. CASE i \in P
  <2>1. j.rows[i] = 0  BY <1>2, <1>3, <1>4, <1>5, <1>8
  <2> QED  BY <1>4, <1>6, <1>8, <2>1
<1>9. CASE i \notin P /\ i \in V /\ Rank(i, V) < j.page * PageSize
  <2>1. Rank(i, V) < read  BY <1>2, <1>4, <1>5, <1>9
  <2> QED  BY <1>3, <1>6, <1>9, <2>1
<1>10. CASE i \notin P /\ ~(i \in V /\ Rank(i, V) < j.page * PageSize)
  <2>1. ~(i \in V /\ Rank(i, V) < read)  BY <1>2, <1>5, <1>7, <1>10
  <2> QED  BY <1>3, <1>6, <1>10, <2>1
<1> QED  BY <1>8, <1>9, <1>10

LEMMA SelectStep ==
  ASSUME ServerInv, NEW o \in Ops, Select(o)
  PROVE  ServerInv'
<1> DEFINE V == visible  j == job[o]  p == j.page  t == j.pages
           rows == Written(j.rows, Page(V, p, PageSize))
           pc == IF p >= t THEN "save" ELSE "count"
           page == IF p >= t THEN p ELSE p + 1
           k == [j EXCEPT !.rows = rows, !.pc = pc, !.page = page]
<1>1. /\ status[o] \in Statuses /\ attempt[o] \in 0..MaxAttempts /\ j \in Job
      /\ V \in SUBSET Ids /\ file[o] \in [Ids -> Nat]
      /\ status = [status EXCEPT ![o] = status[o]]
      /\ attempt = [attempt EXCEPT ![o] = attempt[o]]
      /\ file = [file EXCEPT ![o] = file[o]]
      /\ OpOK(status[o], attempt[o], j, file[o], V)
  BY OpTyped
<1>2. /\ j.pc = "select" /\ t > 0 /\ job' = [job EXCEPT ![o] = k]
      /\ UNCHANGED <<visible, changes, status, attempt, file>>
  <2>1. job \in [Ops -> Job]  BY DEF ServerInv, ServerTypeOK
  <2> QED  BY <2>1 DEF Select, PageOldestFirst
<1>3. p \in Nat \ {0} /\ t \in Nat /\ rows \in [Ids -> Nat]
  <2>1. j.rows \in [Ids -> Nat] /\ p \in Nat \ {0} /\ t \in Nat  BY <1>1 DEF Job
  <2> QED  BY <2>1, WrittenTyped
<1>4. /\ k \in Job /\ k.pc = pc /\ k.page = page /\ k.rows = rows
      /\ k.from = j.from /\ k.shifted = j.shifted
  <2> HIDE DEF j, rows
  <2>1. pc \in {"save", "count"} /\ page \in Nat \ {0}  BY <1>3
  <2> HIDE DEF pc, page
  <2> QED  BY <1>1, <1>3, <2>1 DEF Job
<1> HIDE DEF k
<1>5. ASSUME ~j.shifted PROVE IF p >= t THEN Exact(k.rows, k.from) ELSE WrittenSoFar(k, V)
  <2>1. WrittenSoFar(j, V) /\ PagesSuffice(j, V)  BY <1>1, <1>2, <1>5 DEF OpOK
  <2>2. \A i \in Ids : rows[i] = IF i \in V /\ Rank(i, V) < p * PageSize THEN 1 ELSE 0
    BY <1>1, <2>1, PageWritten
  <2>3. /\ j.from \subseteq V
        /\ \A i \in j.from : Rank(i, V) < t * PageSize
        /\ (t - 1) * PageSize < Cardinality(V)
    BY <1>2, <2>1 DEF WrittenSoFar, PagesSuffice
  <2>4. /\ Cardinality(V) \in Nat
        /\ \A i \in Ids : Rank(i, V) \in Nat
    <3>1. Cardinality(V) \in Nat /\ IsFiniteSet(V) /\ V \in SUBSET Int /\ Ids \subseteq Int
      BY <1>1, ViewsFinite DEF Ids
    <3> QED  BY <3>1, RankBounds
  <2> HIDE DEF V, j, p, t, rows
  <2>5. p * PageSize \in Int /\ t * PageSize \in Int /\ (t - 1) * PageSize \in Int
    BY <1>3, Assumed
  <2>6. CASE p >= t
    <3>1. t * PageSize <= p * PageSize  BY <1>3, <2>6, Assumed, Monotone
    <3>2. \A i \in j.from : rows[i] = 1
      <4> TAKE i \in j.from
      <4>1. i \in V /\ i \in Ids /\ Rank(i, V) < t * PageSize  BY <1>1, <2>3
      <4>2. Rank(i, V) < p * PageSize  BY <2>4, <2>5, <3>1, <4>1
      <4> QED  BY <2>2, <4>1, <4>2
    <3>3. \A i \in Ids : rows[i] <= 1  BY <2>2
    <3>4. \E i \in Ids : rows[i] = 1
      <4>1. V # {}
        <5>1. (t - 1) * PageSize >= 0
          <6>1. t - 1 \in Nat  BY <1>2, <1>3
          <6>2. (t - 1) * PageSize \in Nat  BY <6>1, Assumed
          <6> QED  BY <6>2
        <5>2. Cardinality(V) # 0  BY <5>1, <2>3, <2>4, <2>5
        <5> QED  BY <5>2, FS_EmptySet
      <4>2. PICK i \in V : Rank(i, V) = 0  BY <1>1, <4>1, FirstIssue
      <4>3. 0 < p * PageSize
        <5>1. 1 * PageSize <= p * PageSize  BY <1>3, Assumed, Monotone
        <5>2. 1 * PageSize = PageSize  BY Assumed
        <5> QED  BY <5>1, <5>2, <2>5, Assumed
      <4>4. i \in Ids /\ rows[i] = 1  BY <1>1, <2>2, <4>2, <4>3
      <4> QED  BY <4>4
    <3> QED  BY <1>4, <2>6, <3>2, <3>3, <3>4 DEF Exact
  <2>7. CASE ~(p >= t)
    <3>1. page = p + 1  BY <2>7
    <3>2. (page - 1) * PageSize = p * PageSize  BY <1>3, <3>1
    <3>3. p * PageSize <= (t - 1) * PageSize
      <4> DEFINE last == t - 1
      <4>1. p \in Nat /\ last \in Nat /\ p <= last  BY <1>3, <2>7
      <4> HIDE DEF last
      <4>2. p * PageSize <= last * PageSize  BY <4>1, Assumed, Monotone
      <4> QED  BY <4>2 DEF last
    <3>4. (page - 1) * PageSize < Larger(1, Cardinality(V))
      BY <2>3, <2>4, <2>5, <3>2, <3>3 DEF Larger
    <3>5. WrittenSoFar(k, V)  BY <1>4, <2>2, <2>3, <3>2, <3>4 DEF WrittenSoFar
    <3> QED  BY <2>7, <3>5
  <2> QED  BY <2>6, <2>7
<1>6. OpOK(status[o], attempt[o], k, file[o], V)
  <2> HIDE DEF j, V, rows, page, p, t
  <2>1. k.pc \in {"save", "count"} /\ (k.pc = "save" <=> p >= t)  BY <1>4
  <2>2. status[o] # "succeeded"  BY <1>1, <1>2 DEF OpOK
  <2> QED  BY <1>1, <1>2, <1>4, <1>5, <2>1, <2>2 DEF OpOK
<1> HIDE DEF j, rows, pc, page
<1> QED  BY <1>1, <1>2, <1>4, <1>6, OneOp DEF V

-----------------------------------------------------------------------------
(* The server implements ExportOutcome *)

\* A step that moves one export at most, and how.
LEMMA OutcomeStep ==
  ASSUME NEW o \in Ops,
         \A p \in Ops \ {o} : status'[p] = status[p] /\ file'[p] = file[p],
         \/ /\ OutcomeOf(status'[o]) = OutcomeOf(status[o])
            /\ status[o] = "succeeded" => file'[o] = file[o]
         \/ status[o] = "none" /\ status'[o] = "pending"
         \/ /\ OutcomeOf(status[o]) = "working"
            /\ status'[o] \in Ended
            /\ file'[o] \in [Ids -> Nat]
  PROVE  [Promise!OutcomeNext]_(Promise!ovars)
<1> DEFINE outcome == [p \in Ops |-> OutcomeOf(status[p])]
           outcomeN == [p \in Ops |-> OutcomeOf(status'[p])]
           download == [p \in Ops |-> Downloadable(p)]
           downloadN == [p \in Ops |-> Downloadable(p)']
<1>1. \A p \in Ops \ {o} : OutcomeOf(status'[p]) = OutcomeOf(status[p]) /\ Downloadable(p)' = Downloadable(p)
  BY DEF Downloadable
<1>2. outcomeN = [outcome EXCEPT ![o] = OutcomeOf(status'[o])]  BY <1>1
<1>3. \A p \in Ops \ {o} : downloadN[p] = download[p]  BY <1>1
<1>4. Downloadable(o)' = Downloadable(o) => downloadN = download  BY <1>1
<1>5. CASE OutcomeOf(status'[o]) = OutcomeOf(status[o]) /\ (status[o] = "succeeded" => file'[o] = file[o])
  <2>1. status'[o] = "succeeded" <=> status[o] = "succeeded"  BY <1>5 DEF OutcomeOf
  <2>2. Downloadable(o)' = Downloadable(o)  BY <1>5, <2>1 DEF Downloadable
  <2>3. outcomeN = outcome  BY <1>1, <1>5
  <2>4. downloadN = download  BY <1>4, <2>2
  <2> QED  BY <2>3, <2>4 DEF Promise!ovars
<1>6. CASE status[o] = "none" /\ status'[o] = "pending"
  <2>1. downloadN = download  BY <1>4, <1>6 DEF Downloadable
  <2>2. outcome[o] = "none" /\ outcomeN = [outcome EXCEPT ![o] = "working"]
    BY <1>2, <1>6 DEF OutcomeOf
  <2>3. Promise!Ask(o)  BY <2>1, <2>2 DEF Promise!Ask, Promise!Become
  <2> QED  BY <2>3 DEF Promise!OutcomeNext
<1>7. CASE OutcomeOf(status[o]) = "working" /\ status'[o] = "succeeded" /\ file'[o] \in [Ids -> Nat]
  <2>1. outcome[o] = "working" /\ outcomeN = [outcome EXCEPT ![o] = "succeeded"]
    BY <1>2, <1>7 DEF OutcomeOf
  <2>2. downloadN[o] \in [Ids -> Nat]  BY <1>7 DEF Downloadable
  <2>3. Promise!Succeed(o)  BY <1>3, <2>1, <2>2 DEF Promise!Succeed, Promise!Become
  <2> QED  BY <2>3 DEF Promise!OutcomeNext
<1>8. CASE OutcomeOf(status[o]) = "working" /\ status'[o] \in {"failed", "cancelled"}
  <2>1. status[o] # "succeeded"  BY <1>8 DEF OutcomeOf
  <2>2. downloadN = download  BY <1>4, <1>8, <2>1 DEF Downloadable
  <2>3. outcome[o] = "working" /\ outcomeN = [outcome EXCEPT ![o] = status'[o]]
    BY <1>2, <1>8 DEF OutcomeOf
  <2>4. Promise!EndWithout(o, status'[o])  BY <2>2, <2>3 DEF Promise!EndWithout, Promise!Become
  <2> QED  BY <1>8, <2>4 DEF Promise!OutcomeNext
<1> QED  BY <1>5, <1>6, <1>7, <1>8 DEF Ended

LEMMA QuietOutcome ==
  ASSUME UNCHANGED <<status, file>>
  PROVE  UNCHANGED Promise!ovars
BY DEF Promise!ovars, Downloadable

\* A worker stores its file only before an end that it did not bring about.
LEMMA WorkOutcome ==
  ASSUME ServerInv, NEW o \in Ops, Work(o)
  PROVE  [Promise!OutcomeNext]_(Promise!ovars)
<1>1. /\ status \in [Ops -> Statuses] /\ file \in [Ops -> [Ids -> Nat]] /\ job \in [Ops -> Job]
      /\ OpOK(status[o], attempt[o], job[o], file[o], visible)
  BY OpTyped DEF ServerInv, ServerTypeOK
<1>2. \A p \in Ops \ {o} : status'[p] = status[p] /\ file'[p] = file[p]
  BY <1>1 DEF Work, Begin, Count, Select, Save, Finish, Fail, RefuseOwner
<1>3. CASE Count(o) \/ Select(o)
  BY <1>3, QuietOutcome DEF Count, Select
<1>4. CASE Begin(o)
  <2>1. OutcomeOf(status'[o]) = OutcomeOf(status[o]) /\ file' = file
    BY <1>1, <1>4 DEF Begin, OutcomeOf
  <2> QED  BY <1>2, <2>1, OutcomeStep
<1>5. CASE Save(o)
  <2>1. status[o] # "succeeded" /\ status' = status  BY <1>1, <1>5 DEF Save, OpOK
  <2> QED  BY <1>2, <2>1, OutcomeStep
<1>6. CASE Finish(o)
  <2>1. \/ status' = status
        \/ status[o] = "running" /\ status'[o] = "succeeded"
    BY <1>1, <1>6 DEF Finish
  <2>2. file' = file  BY <1>6 DEF Finish
  <2> QED  BY <1>1, <1>2, <2>1, <2>2, OutcomeStep DEF OutcomeOf, Ended
<1>7. CASE Fail(o)
  <2>1. \/ status'[o] = status[o]
        \/ status[o] = "running" /\ status'[o] \in {"retrying", "failed"}
    BY <1>1, <1>7 DEF Fail, AfterFailure
  <2>2. file' = file  BY <1>7 DEF Fail
  <2> QED  BY <1>1, <1>2, <2>1, <2>2, OutcomeStep DEF OutcomeOf, Ended
<1>8. CASE RefuseOwner(o)
  <2>1. status[o] = "running" /\ status'[o] = "failed" /\ file' = file
    BY <1>1, <1>8 DEF RefuseOwner
  <2> QED  BY <1>1, <1>2, <2>1, OutcomeStep DEF OutcomeOf, Ended
<1> QED  BY <1>3, <1>4, <1>5, <1>6, <1>7, <1>8 DEF Work

LEMMA ServerOutcome == ServerInv /\ [ServerNext]_svars => [Promise!OutcomeNext]_(Promise!ovars)
<1> SUFFICES ASSUME ServerInv, [ServerNext]_svars
             PROVE  [Promise!OutcomeNext]_(Promise!ovars)
  OBVIOUS
<1>1. /\ status \in [Ops -> Statuses] /\ file \in [Ops -> [Ids -> Nat]]
  BY DEF ServerInv, ServerTypeOK
<1>2. CASE UNCHANGED svars \/ \E i \in Ids : Enter(i) \/ Leave(i)
  BY <1>2, QuietOutcome DEF svars, Enter, Leave
<1>3. ASSUME NEW o \in Ops, Submit(o) \/ Cancel(o)
      PROVE  [Promise!OutcomeNext]_(Promise!ovars)
  <2>1. /\ \A p \in Ops \ {o} : status'[p] = status[p]
        /\ file' = file
        /\ \/ status'[o] = status[o]
           \/ status[o] = "none" /\ status'[o] = "pending"
           \/ OutcomeOf(status[o]) = "working" /\ status'[o] = "cancelled"
    BY <1>1, <1>3 DEF Submit, Cancel, Unfinished, OutcomeOf, Statuses, Ended
  <2> QED  BY <1>1, <2>1, OutcomeStep DEF Ended
<1> QED  BY <1>2, <1>3, WorkOutcome DEF ServerNext, Background

-----------------------------------------------------------------------------
(* The theorems *)

LEMMA ServerInitial == ServerInit => ServerInv
<1> SUFFICES ASSUME ServerInit PROVE ServerInv
  OBVIOUS
<1>1. ServerTypeOK
  BY NoJobTyped, Assumed, ExportAssumption DEF ServerInit, ServerTypeOK, Statuses
<1>2. NoJob.pc = "off"  BY DEF NoJob
<1>3. \A o \in Ops : status[o] = "none" /\ attempt[o] = 0 /\ job[o] = NoJob
  BY DEF ServerInit
<1>4. \A o \in Ops : OpOK(status[o], attempt[o], job[o], file[o], visible)
  BY <1>2, <1>3 DEF OpOK
<1> QED  BY <1>1, <1>4, InvByOp

LEMMA ServerStep == ServerInv /\ [ServerNext]_svars => ServerInv'
<1> SUFFICES ASSUME ServerInv, [ServerNext]_svars PROVE ServerInv'
  OBVIOUS
<1>1. ASSUME NEW i \in Ids, Enter(i) \/ Leave(i) PROVE ServerInv'
  BY <1>1, EnterStep, LeaveStep
<1>2. ASSUME NEW o \in Ops, Work(o) PROVE ServerInv'
  BY <1>2, BeginStep, CountStep, SelectStep, LastSteps DEF Work
<1>3. ASSUME NEW o \in Ops, Submit(o) \/ Cancel(o) PROVE ServerInv'
  BY <1>3, RequestSteps
<1>4. CASE UNCHANGED svars
  BY <1>4 DEF svars, ServerInv, ServerTypeOK, WorkerOfStatus, PagesWritten, WrittenSoFar,
              PagesSuffice, AllWritten, FileWritten, FileOfResult, Reading
<1> QED  BY <1>1, <1>2, <1>3, <1>4 DEF ServerNext, Background

LEMMA ServerAlways == ServerSpec => []ServerInv
<1> QED  BY ServerInitial, ServerStep, PTL DEF ServerSpec

LEMMA InvGivesSteady == ServerInv => SteadyExported
BY DEF ServerInv, AllWritten, FileOfResult, SteadyExported

\* With any number of exports and issues and any size of a page, whoever submits
\* and cancels, an undisturbed export that succeeds is exact
\* (exports_job.go:44-65, issues.go:119-145).
THEOREM SteadyExportsExact == ServerSpec => []SteadyExported
<1> QED  BY ServerAlways, InvGivesSteady, PTL

\* The stored file is the one of the attempt that succeeded (exports_job.go:68-78).
THEOREM StoredFileIsResult == ServerSpec => []FileOfResult
<1>1. ServerInv => FileOfResult  BY DEF ServerInv
<1> QED  BY ServerAlways, <1>1, PTL

\* Whatever fails, is retried or is cancelled under a worker, an export ends once
\* and its file never changes after that (exports_job.go:23-79,
\* exports_store.go:20-40, exports_api.go:70-97).
THEOREM ServerKeepsPromise == ServerSpec => ImplementsOutcome
<1>1. ServerInit => Promise!OutcomeInit
  BY DEF ServerInit, Promise!OutcomeInit, OutcomeOf, Downloadable
<1> QED  BY <1>1, ServerOutcome, ServerAlways, PTL
         DEF ServerSpec, ImplementsOutcome, Promise!OutcomeSpec
=============================================================================
