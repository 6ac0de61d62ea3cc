------------------------------ MODULE Exports ------------------------------
(***************************************************************************)
(* Issue exports on the server: the job of exports_job.go, its stored file *)
(* and the requests of exports_api.go.                                     *)
(*                                                                         *)
(* An attempt reads its owner's issues page by page, a COUNT and a SELECT  *)
(* each, while issues enter and leave the owner's view.  The executor that *)
(* runs attempts is an external library: it keeps one operation per        *)
(* idempotency key, starts an attempt when the last one is over, gives up  *)
(* after MaxAttempts and never changes an operation that has ended.        *)
(***************************************************************************)
EXTENDS Pagination

CONSTANTS
  Ops,          \* exports, each named by its idempotency key
  NoOp,
  MaxIssue,     \* bound: issues, numbered in the order they were created
  PageSize,     \* rows of a page of the export (100)
  MaxAttempts,  \* (3)
  MaxChanges    \* bound: issues that enter or leave the owner's view

Ids == 1..MaxIssue

ASSUME ExportAssumption ==
  /\ NoOp \notin Ops
  /\ MaxIssue \in Nat /\ MaxAttempts \in Nat \ {0} /\ MaxChanges \in Nat
  /\ PageSize \in 1..MaxSize /\ MaxIssue + PageSize <= MaxInt

VARIABLES
  visible,   \* the issues in the owner's view
  changes,
  status,    \* of the operation, in the executor's table
  attempt,   \* attempts started
  job,       \* the worker's attempt, or the last one if it succeeded
  file       \* issue_exports: how many rows each issue has in the file

svars == <<visible, changes, status, attempt, job, file>>

Ended == {"succeeded", "failed", "cancelled"}
Statuses == {"none", "pending", "running", "retrying"} \union Ended

Unfinished(o) == status[o] \notin Ended \union {"none"}

NoRows == [i \in Ids |-> 0]
NoJob == [pc |-> "off", page |-> 1, pages |-> 0, rows |-> NoRows, from |-> {}, shifted |-> FALSE]

-----------------------------------------------------------------------------
(* The owner's view *)

Reading(o) == job[o].pc \in {"count", "select"}

\* Attempts that are reading remember that issues have moved to other pages.
Shifted == [o \in Ops |-> IF Reading(o) THEN [job[o] EXCEPT !.shifted = TRUE] ELSE job[o]]

\* An issue is created or assigned; only behind all others does it move none.
Enter(i) ==
  /\ changes < MaxChanges /\ changes' = changes + 1
  /\ i \notin visible /\ visible' = visible \union {i}
  /\ job' = IF \E j \in visible : i < j THEN Shifted ELSE job
  /\ UNCHANGED <<status, attempt, file>>

\* An issue is deleted, or taken from the owner.
Leave(i) ==
  /\ changes < MaxChanges /\ changes' = changes + 1
  /\ i \in visible /\ visible' = visible \ {i}
  /\ job' = Shifted
  /\ UNCHANGED <<status, attempt, file>>

-----------------------------------------------------------------------------
(* generate: an attempt of the job *)

Begin(o) ==
  /\ status[o] \in {"pending", "retrying"} /\ job[o].pc = "off"
  /\ status' = [status EXCEPT ![o] = "running"]
  /\ attempt' = [attempt EXCEPT ![o] = @ + 1]
  /\ job' = [job EXCEPT ![o] = [NoJob EXCEPT !.pc = "count", !.from = visible]]
  /\ UNCHANGED <<visible, changes, file>>

\* List: SELECT count(*)
Count(o) ==
  /\ job[o].pc = "count" /\ Listable(job[o].page, PageSize)
  /\ job' = [job EXCEPT ![o].pc = "select",
                        ![o].pages = TotalPages(Cardinality(visible), PageSize)]
  /\ UNCHANGED <<visible, changes, status, attempt, file>>

\* Slip: the newest issue comes first.
PageNewestFirst(page) ==
  {i \in visible : \E k \in Page(1..Cardinality(visible), page, PageSize) :
     k = Cardinality({j \in visible : j >= i})}

\* createdAt, asc: a row is a place in the order of the listing already.
PageOldestFirst(page) == Page(visible, page, PageSize)

Written(rows, S) == [i \in Ids |-> IF i \in S THEN rows[i] + 1 ELSE rows[i]]

\* List: SELECT ... LIMIT OFFSET, and the rows written.  A page out of range is
\* an error, and without pages the progress is a division by zero.
Select(o) ==
  LET j == job[o] IN
  /\ j.pc = "select" /\ InRange(j.page, j.pages) /\ j.pages > 0
  /\ job' = [job EXCEPT
       ![o].rows = Written(j.rows, PageOldestFirst(j.page)),
       ![o].pc = IF j.page >= j.pages THEN "save" ELSE "count",
       ![o].page = IF j.page >= j.pages THEN j.page ELSE j.page + 1]
  /\ UNCHANGED <<visible, changes, status, attempt, file>>

\* Slip: a file that is there already is kept.
SavedOnce(o) == IF file[o] = NoRows THEN job[o].rows ELSE file[o]

\* ON CONFLICT (operation_id) DO UPDATE
Saved(o) == job[o].rows

Save(o) ==
  /\ job[o].pc = "save"
  /\ file' = [file EXCEPT ![o] = Saved(o)]
  /\ job' = [job EXCEPT ![o].pc = "end"]
  /\ UNCHANGED <<visible, changes, status, attempt>>

\* Slip: the result counts though the operation was cancelled.
FinishAnyway(o) ==
  /\ job[o].pc = "end"
  /\ status' = [status EXCEPT ![o] = "succeeded"]
  /\ job' = [job EXCEPT ![o].pc = "off"]
  /\ UNCHANGED <<visible, changes, attempt, file>>

Finish(o) ==
  /\ job[o].pc = "end"
  /\ IF status[o] = "running"
     THEN /\ status' = [status EXCEPT ![o] = "succeeded"]
          /\ job' = [job EXCEPT ![o].pc = "off"]
     ELSE /\ status' = status
          /\ job' = [job EXCEPT ![o] = NoJob]
  /\ UNCHANGED <<visible, changes, attempt, file>>

\* Slip: one attempt more.
AfterFailureOnceMore(o) ==
  IF status[o] # "running" THEN status[o]
  ELSE IF attempt[o] <= MaxAttempts THEN "retrying" ELSE "failed"

AfterFailure(o) ==
  IF status[o] # "running" THEN status[o]
  ELSE IF attempt[o] < MaxAttempts THEN "retrying" ELSE "failed"

\* An error, a panic, a worker that died, or a cancellation that was noticed.
Fail(o) ==
  /\ job[o].pc # "off"
  /\ status' = [status EXCEPT ![o] = AfterFailure(o)]
  /\ job' = [job EXCEPT ![o] = NoJob]
  /\ UNCHANGED <<visible, changes, attempt, file>>

\* The owner is gone or not active any more.
RefuseOwner(o) ==
  /\ job[o].pc = "count" /\ job[o].page = 1 /\ status[o] = "running"
  /\ status' = [status EXCEPT ![o] = "failed"]
  /\ job' = [job EXCEPT ![o] = NoJob]
  /\ UNCHANGED <<visible, changes, attempt, file>>

Work(o) == Begin(o) \/ Count(o) \/ Select(o) \/ Save(o) \/ Finish(o) \/ Fail(o) \/ RefuseOwner(o)

-----------------------------------------------------------------------------
(* Requests *)

\* submit: the operation of the key, a new one or the one there is.
Submit(o) ==
  /\ status' = IF status[o] = "none" THEN [status EXCEPT ![o] = "pending"] ELSE status
  /\ UNCHANGED <<visible, changes, attempt, job, file>>

\* The executor cancels what has not ended; the worker may not notice at once.
Cancel(o) ==
  /\ status' = IF Unfinished(o) THEN [status EXCEPT ![o] = "cancelled"] ELSE status
  /\ UNCHANGED <<visible, changes, attempt, job, file>>

-----------------------------------------------------------------------------
ServerInit ==
  /\ visible \in SUBSET Ids /\ changes \in 0..MaxChanges
  /\ status = [o \in Ops |-> "none"]
  /\ attempt = [o \in Ops |-> 0]
  /\ job = [o \in Ops |-> NoJob]
  /\ file = [o \in Ops |-> NoRows]

Background ==
  \/ \E i \in Ids : Enter(i) \/ Leave(i)
  \/ \E o \in Ops : Work(o)

ServerNext == Background \/ \E o \in Ops : Submit(o) \/ Cancel(o)

ServerSpec == ServerInit /\ [][ServerNext]_svars

-----------------------------------------------------------------------------
(* Properties *)

Job == [pc : {"off", "count", "select", "save", "end"}, page : Nat \ {0}, pages : Nat,
        rows : [Ids -> Nat], from : SUBSET Ids, shifted : BOOLEAN]

ServerTypeOK ==
  /\ visible \in SUBSET Ids /\ changes \in 0..MaxChanges
  /\ status \in [Ops -> Statuses]
  /\ attempt \in [Ops -> 0..MaxAttempts]
  /\ job \in [Ops -> Job]
  /\ file \in [Ops -> [Ids -> Nat]]

\* The rows of a file, when it has some, none twice, and all of the issues in from.
Exact(rows, from) ==
  /\ \E i \in Ids : rows[i] = 1
  /\ \A i \in Ids : rows[i] <= 1
  /\ \A i \in from : rows[i] = 1

\* When no issue moved to another page during the attempt, the file of an export
\* that succeeded has rows, none twice, and every issue that was in the owner's
\* view from first to last (exports_job.go:44-65, issues.go:119-145).
SteadyExported ==
  \A o \in Ops : status[o] = "succeeded" /\ ~job[o].shifted =>
    Exact(file[o], job[o].from)

\* Whatever failed, was cancelled or stored a file before: the file that can be
\* downloaded is the one of the attempt that succeeded, whose rows the result
\* counts (exports_job.go:68-78, exports_store.go:20-28).
FileOfResult == \A o \in Ops : status[o] = "succeeded" => file[o] = job[o].rows

-----------------------------------------------------------------------------
(* Why they hold *)

\* A worker of an operation that runs is in an attempt; one of an operation that
\* waits is not.
WorkerOfStatus ==
  \A o \in Ops :
    /\ status[o] = "running" => job[o].pc # "off"
    /\ status[o] \in {"none", "pending", "retrying", "succeeded"} => job[o].pc = "off"
    /\ status[o] = "none" => attempt[o] = 0
    /\ status[o] \in {"pending", "retrying"} => attempt[o] < MaxAttempts

\* What an undisturbed attempt has written before it reads a page of view V.
WrittenSoFar(j, V) ==
  LET read == (j.page - 1) * PageSize IN
  /\ j.from \subseteq V
  /\ read < Larger(1, Cardinality(V))
  /\ \A i \in Ids : j.rows[i] = IF i \in V /\ Rank(i, V) < read THEN 1 ELSE 0

\* That the pages counted are enough for it, and not too many.
PagesSuffice(j, V) ==
  /\ \A i \in j.from : Rank(i, V) < j.pages * PageSize
  /\ j.pages > 0 => (j.pages - 1) * PageSize < Cardinality(V)

PagesWritten ==
  \A o \in Ops : Reading(o) /\ ~job[o].shifted =>
    /\ WrittenSoFar(job[o], visible)
    /\ job[o].pc = "select" => PagesSuffice(job[o], visible)

\* What it has written when it has read the last page.
AllWritten ==
  \A o \in Ops : (job[o].pc \in {"save", "end"} \/ status[o] = "succeeded") /\ ~job[o].shifted =>
    Exact(job[o].rows, job[o].from)

FileWritten == \A o \in Ops : job[o].pc = "end" => file[o] = job[o].rows

\* The inductive invariant of the server (exports_job.go:23-79).
ServerInv ==
  /\ ServerTypeOK
  /\ WorkerOfStatus
  /\ PagesWritten
  /\ AllWritten
  /\ FileWritten
  /\ FileOfResult

-----------------------------------------------------------------------------
(* The server implements ExportOutcome *)

\* The states before an end differ in what the executor does next.
OutcomeOf(s) == IF s \in {"pending", "running", "retrying"} THEN "working" ELSE s

\* download: only what has succeeded is answered.
Downloadable(o) == IF status[o] = "succeeded" THEN file[o] ELSE NoRows

Promise == INSTANCE ExportOutcome
             WITH Files <- [Ids -> Nat], NoFile <- NoRows,
                  outcome <- [o \in Ops |-> OutcomeOf(status[o])],
                  download <- [o \in Ops |-> Downloadable(o)]

\* Attempts, retries, dead workers and cancellations that a worker does not notice
\* come to one end of an export, and its file stays as it was then
\* (exports_job.go:23-79, exports_store.go:20-40, exports_api.go:70-97).
ImplementsOutcome == Promise!OutcomeSpec
=============================================================================
