# Vialboard: specifications, model checking and proofs

Vialboard is an issue board: a Go server on PostgreSQL (package `vial` for HTTP,
gorm for SQL) and a dashboard in plain JavaScript. This directory holds TLA+
modules that model what the server does when its requests run concurrently, the
TLC configurations that check them, and proofs that TLAPS checks.

Paths below are relative to `src/`; `README.MD` is the program's own.

## 1. Inventory

One process (`cmd/vialboard/main.go`) wires four layers: `internal/domain` (records
and their validation), `internal/application` (services), `internal/infrastructure/postgres`
(repositories, and migrations with triggers and constraints) and
`internal/transport/httpapi` (handlers, middleware, the dashboard). Every request is a
goroutine; all shared state but the event hub is in PostgreSQL, at its default isolation,
READ COMMITTED. By the comment at `httpapi/app.go:62` the hub keeps
the service to one process until it is replaced; nothing else does.

| Component | State | Operations | What is hard | What makes it correct |
|---|---|---|---|---|
| Accounts and sessions (`application/users.go`, `user_repository.go`, `auth_*.go`, `users_api.go`) | rows of `users` and `sessions` | register, login, authenticate, logout, change and reset a password, change role and activation, create an account | the password, the role and the whole row are read before the transaction that uses them; row locks; stamps taken before the lock | one current session per user; a deactivated account is signed out; a password change signs out; a closed token stays closed; PATCH changes only what it names |
| Teams and membership (`application/teams.go`, `team_repository.go`, `user_repository.go` SetTeam, migrations 00011, 00013) | rows of `teams`, `users.team_id`, `issues.team_id` and `assignee_id` | create a team, assign its manager, create, add and remove a member, PATCH of a member or manager | triggers that read without locking; a foreign key that waits; membership checked before the lock | members are viewers; assignees of a team's issues are its members; a manager is not demoted away from a team; managers do not take each other's members |
| Issues (`application/issues.go`, `issue_repository.go`) | rows of `issues` and `issue_activities` | create, update, delete, comment, list, list activity, seed | updates from a copy read before the transaction; the scope is evaluated again by the statement; placement checked before the write; lock order against SetTeam | a worker writes only the issues assigned to them, and only their status; no activity without an issue; assignees belong |
| Notifications (`application/notifications.go`, `notification_repository.go`, `notification_realtime.go`, `notifications_api.go`) | rows of `notifications`; the poller's cursor; the hub's subscriptions | notify, list, mark read, mark all read, poll and publish, stream | ids drawn before commit; dropped events; restarts; an inbox loaded beside its stream; best effort after the commit; clicks on their way among frames and loads | no gap between inbox and stream; nothing shown or published twice; what is stored is shown in the end; what is shown as read is read |
| Exports (`exports_api.go`, `exports_job.go`, `exports_store.go`) | operations of the executor; rows of `issue_exports` | submit, run, store, cancel, download, watch | attempts of a job, a crash between storing and succeeding, paging over a changing set, an empty board; a page that polls and listens at once | an undisturbed export is exact; the file is that of the attempt that succeeded; one download; no second export beside the first; an end |
| Pagination (`users.go` List, `issues.go` List and ListActivity) | none | offsets and page counts | `int` overflow, page 0, an empty last page | offsets never wrap; pages cover the rows |
| Dashboard (`httpapi/dashboard/static/*.js`) | `state` of `core.js` | sign in and out, load the board, edit, comment, inbox, export | answers out of order, state read before an `await`, session cleared during a request | what is shown belongs to the selected filter, issue and user |
| Seeding and command line (`main.go`, `IssueRepository.Seed`) | rows of `issues` | `seed`, `user create`, `migrate`, `healthcheck` | two seeds at once | running it again adds nothing |
| Migrations, password hashing, HTTP wiring | schema; none; rate-limit windows | goose up and down; hash, verify; routes | external libraries | - |

Interactions: the middleware reads the actor (sessions joined with users) once for every
request; issue and team services call the user repository; `Update` and `SetTeam` of the
user repository write issues and sessions in the same transaction; issue and team services
call the notification service after their commit and ignore its failure; the poller reads
the notifications table and publishes to the hub; the export job reads issues through the
issue service as its owner.

The hazards of this code, line by line, are in `PROJECT.json` with the properties that
would catch them.

## 2. Plan

In this order, the most important behaviour first:

1. `Sessions`, with the abstract `SessionSlot` - done; invariants, two action properties, the
   refinement and the condition of finding 1 proved.
2. `Teams` - done; invariants, two action properties and the condition of finding 2 proved.
3. `Issues`: create, update, delete, comment, scopes, activity, composed with the membership
   steps of `Teams` on the same tables; PostgreSQL's deadlock detector - done; invariants,
   two action properties and the condition of finding 3 proved, and for the composition
   (`BoardProofs`) what `Teams` keeps of members, and the condition of finding 4.
4. `Notifications`: table, poller, hub, stream and page, and `NotificationReads`, what the page
   shows as read, on top of it - done; invariants and an action property proved.
5. `Pagination`, operators over w-bit integers - done; four theorems about every width.
6. `Exports`, the server's side with any client, with the abstract `ExportOutcome`, and
   `ExportPage`, the dashboard's side on top of it - done; both refinements and the invariants
   proved.
7. Open: a composition of `Sessions` with `Teams`, whose requests both save whole rows of
   `users`, and the theorems about it; the board of the dashboard, if more of the page is to be
   modelled than its inbox and its export.

## 3. How a request is modelled

A request is a record in `req`: a program counter, what the handler has read and what it is
about to write. A step is one stretch of code between points where other requests can
change what it depends on:

* a read (one SELECT, or a check that follows one) ends a step, because what it read is
  stale from then on;
* a transaction is two or three steps: it takes its row lock and reads under it, it passes
  a trigger, it commits. Its writes become visible at the commit, all at once. Statements
  between the lock and the commit touch rows the lock already protects, or wait for a lock,
  which is a guard of the step;
* `SELECT ... FOR UPDATE` and `UPDATE` exclude each other on a row; the check of a foreign key
  takes FOR KEY SHARE, which waits for FOR UPDATE and not the other way round for reads.
  Unlocked reads see what is committed, as READ COMMITTED gives every statement (and every
  statement of a trigger function) a snapshot of its own;
* `End` stands for every way a request ends with nothing more written: a refusal by the
  service, a failing statement, a client that goes away, a process that dies. A transaction
  in progress rolls back. What was committed before stays.

## 4. Modules

### SessionSlot
What the session store promises: `slot[u]` is the one token open for user `u`, `closed` the
tokens that were open once, `enabled` the users that may have one. `Open` replaces the token,
`Close` closes it, `Disable` closes it and forbids more.

### Sessions
`users` and `sessions` are the tables (`userRecord`, `sessionRecord`), `now` the clock. Login,
registration and the bearer check start a request; `ChangePassword`, `ResetPassword`,
`UpdateAccess`, `CreateUser` and `Logout` are the handlers; `Stamp` takes the time that the
repository will write; `Lock` or `Refuse`, then `CommitSession`, `CommitPassword` or
`CommitSave`, are `ReplaceSession`, `UpdatePassword` and `Update`. A password stands for its
hash and a username for its id. `now` counts from 1 so that 0 can stand for NULL.

### Teams
`users`, `teams` and `issues` carry what membership is about: role, activation and team of an
account; the manager of a team; team and assignee of an issue. `CheckManager` and
`CommitManager` are the two halves of an INSERT or UPDATE of `teams`: the trigger's read, and
the foreign key that waits for the manager's row. `LockForMove` and `CommitMove` are
`SetTeam`; `LockForSave`, `CheckManaged` and `CommitSave` are `Update`, its trigger and its
commit. Who may send a request is simplified to an active account (the token is the
subject of `Sessions`).

### Issues
Composes `Teams` (`Membership == INSTANCE Teams`): its steps run on the same `users`, `teams`
and `issues`, with `moves` for its requests. `issues` says where an issue is placed, `cards`
holds the rest of the row (title, description, priority and due date are one text) and `log`
the accounts that have an activity or a comment on the issue. A handler finds the issue in the
actor's scope (`Find`), applies and checks what was sent (`Create`, `Update`, `CheckTeam`,
`CheckAssignee`, `Delete`) and then runs the statements of `IssueRepository`: `LockIssue` is
the scoped UPDATE finding and locking its row, `CommitUpdate` its foreign keys, the
activities and the commit; a `Member` step waits for the issues it changes (`Clears`). `Abort` is
PostgreSQL's deadlock detector: a transaction in a circle of waits is rolled back.

Three simplifications: a transaction takes the keys of all accounts it refers to together, at
its end; a manager's scope, a subquery on teams, is evaluated when the row is locked, where
PostgreSQL may use the teams of the moment the statement began to wait; and the
notification after a commit, whose failure is ignored, is left out.

### Notifications
The table is `drawn`, `owner`, `pending` and `stored`: an INSERT draws its ids (`CreateMany`)
before it commits (`Commit`) or fails (`Rollback`), so ids become visible out of order. The ids of
one INSERT are drawn as a block, where those of two INSERTs of several rows may interleave in
PostgreSQL; every property treats the ids one by one. `cursor` is the poller's `latestID`, `found`
what its last query returned; `Publish` hands one row to the hub, which puts it in `topic[u]` or
drops it (`DropEvent`). `conn[u]` says how far a page has come: `open` when the handler has
subscribed, `loaded` when the inbox has been read, `live` when the page shows it and reads frames.
`late[u]` is the load of `notifications.js:99`, which nobody awaits. `passed` and `lost` are
history variables. `passed` has the rows that this process will never publish, because they were
stored when the cursor had read on or before it started; `lost` has what a page misses since its
inbox was read: rows of its user that the cursor passed, the hub dropped or a late answer took
away. Reading the inbox empties `lost`, so `NoGap` and `StoredIsShown` demand that the inbox makes
good all that went wrong before it; what goes wrong after it stays missing until the next one, in
the code as in the model. An id stands for its row; kind, text, issue and team are left out. Who
may be notified is any set of users, because `Issues` and `Teams` decide it after their commit and
`Notify` drops the actor and duplicates.

### NotificationReads
Extends `Notifications` with what is read. `read` has the rows with a `read_at`, `seen[u]` the
items of the page that have a `readAt`; `req` has the requests of the clicks, each a PATCH for one
item or the POST for all. A request is sent, its UPDATE is made (`MarkRead`; for all in two steps,
the snapshot in `Match` and the rows in `MarkAllRead`, because rows may be stored in between) and
it is answered; it may fail in between (`End`) or break with the process (`RestartWithClicks`).
The steps of `Notifications` that bring items to a page bring their `readAt` with them. An answer
touches what the page has by then: `fresh` says that the list still holds the item clicked on and
not one that a load has put in its place. `tooNew[u]` is a history variable, the items that got
their `readAt` from the answer of a "mark all" whose UPDATE had not seen them (`saw`). Left out
are the time in `read_at`, which no step looks at, and the badge; without its guard
(`notifications.js:22`) the model makes more clicks than the page. A frame has a `readAt` or not
when its row is read now, since the poller may have listed the row before.

### Pagination
The operators of the three listings: what is accepted (`PageOf`, `SizeOf`, `InBounds`,
`TooLarge`), the offset as an `int` of the given width (`Offset`, `Wrapped`), the number of
pages, the range check after the query, and what LIMIT and OFFSET select (`Slice`). `TooLarge`
guards the issue and user listings; `ListActivity` has no such guard.

### ExportOutcome
What an export promises: under way once asked for, then one end, and a download that never
changes after it. No attempts, pages or workers.

### Exports
The server's side of exports. `visible` is the owner's view of the board, an issue being its place in
the order of creation; `status`, `attempt` and `job` are the operation, its attempts and the
worker's progress (`generate`, page by page, a COUNT and a SELECT each); `file` is the row
of `issue_exports`. `Enter` and `Leave` move the board and mark the attempts they disturb
(`shifted`). `Fail` is everything that ends an attempt early: an error, a panic (the progress
of an empty board divides by zero), a dead worker, a cancellation that was noticed.
`ServerSpec` is the server with any client: for the page it is the abstract specification. It
implements `ExportOutcome` (`Promise`): `OutcomeOf` forgets what the executor does next, and
`Downloadable` is what `download` answers, the row of `issue_exports` of a succeeded operation only.

### ExportPage
The client of `exports.js` on top of `Exports`: `click` is the POST under way, `key` the
idempotency key, `current` and `url` the operation the page shows and the one whose `status_url`
it holds (a status answer has none, so it keeps the URL of the last POST, `exports.js:99`),
`polls` the answers on their way, `watch` the stream, `timer` the next poll. `client` says whether
the page or a script uses the API. `stale` records that an answer for an earlier export was taken
for the current one, after which the page may show one export as ended while it polls another.

### MCSessions, MCTeams, MCIssues, MCNotifications, MCExports
Symmetry sets, model values, and the boards that the runs start from. `MCExports` splits the start
in two: a page over a board of one issue that rests, and a script over any board that moves once;
both at once would multiply states without a new interaction, since a page only submits and
cancels (which `PageUsesServer` proves). `MCNotifications` runs `NotificationReads`, and each
behaviour chooses its bounds at the start: more notifications, more breaks, one click and a break,
or two clicks; where there are clicks, all notifications are for the page's user. No step of a
click changes what `Notifications` keeps, and `ShownReadIsTrue` holds without these bounds.

### SessionsProofs, TeamsProofs, IssuesProofs, NotificationsProofs, PaginationProofs, ExportsProofs, ExportPageProofs
The theorems.

### BoardProofs
The theorems about `Issues` and `Teams` together. It reads `TeamsProofs` over the variables of
`Issues` (`Roster`), so that its lemmas about steps can be cited there.

## 5. Runs

| Run | Question | Bounds | Result |
|---|---|---|---|
| sessions_races | who ends up signed in, when logins, password changes, deactivations and logouts race | 2 accounts, 2 passwords, 3 tokens, 2 requests, 1 instant | IInv, OneCurrentSession, InactiveSignedOut, PasswordChangeSignsOut hold, and the store implements SessionSlot (ImplementsSlot) |
| sessions_clock | stamps of transactions that commit out of order, expiry; are queued requests answered | 1 account, 2 tokens, 2 requests, 3 instants | RevokedNotBeforeCreated, IInv and Served hold |
| sessions_overwrite | does a PATCH change only what it names | 2 accounts, 2 requests | violated: finding 1 |
| teams_members | membership, roles and assignments under races | admin, manager, worker, 1 team and 1 to be created, 1 issue, 2 requests | all hold |
| teams_served | team statements and demotions wait for each other; when does a team keep its active manager | 3 accounts and 1 to be created, 1 team, 2 requests | Served and ActiveUnlessSkewed hold |
| teams_skew | does every team keep an active manager | 3 accounts and 1 to be created, 1 team, 2 requests | violated: finding 2 |
| issues_editors | what may concurrent edits, comments and deletions of an issue do to each other | admin, worker, no team, 2 issue ids, 1 text, 2 issue requests | IInv, HistoryKept, DeletedStays, WorkersWriteOwn hold |
| issues_members | the same against a request that clears assignments and locks in the opposite order; when do assignments follow membership | manager, worker, 1 team, 1 issue, 1 issue request, 1 membership request | IInv, UnassignedUnlessCrossing, Served hold |
| issues_status | does a worker's update change only the status | admin, worker, 1 issue, 2 texts, 2 issue requests | violated: finding 3 |
| issues_removed | do assignments end with membership | as issues_members | violated: finding 4 |
| notifications_pages | what may a page miss, see twice, or show as read | 1 user with a page, 1 without and 1 who acts, polls of 2 rows, inbox of 2, room for 1 event; 3 ids and 1 break or restart, or 2 ids and 2 breaks, or 2 ids, 1 break and 1 click on its way, or 2 ids and 2 clicks | all invariants, PublishedOnce and StoredIsShown hold |
| exports_page | is a file exact and the right one, and does it stay; does a page keep to one export, download it once and come to an end | 2 exports, 3 issues, pages of 2 rows, 2 attempts, 1 move of the board during a script | all invariants and ExportEnds hold, and the server implements ExportOutcome (ImplementsOutcome) |

Bounds. Every race stated here is between two transactions on one row or on a pair of rows that
point at each other, so two requests in flight show each one; tokens and clock readings are as
many as a login, the login that replaces it and, in `sessions_races`, a third need. TLC explores
sequences of requests of any length within them. The proofs of section 6 remove the bounds for the
invariants. `MaxTime` and `MaxID` are the only caps on counters, and `bound` in `MCNotifications`
lowers them; an issue id is drawn once, so a set of one or two ids bounds the creations of a run
(`OutOfIds` ends a create that finds none left). Three notifications are an INSERT of two beside
one of one, so the later may commit first, and they overflow a poll, an inbox and the hub, each of
which holds one or two (100, 50 and the hub's buffer in the code: what matters is that the limit
is reached). Two exports are what it takes to tell an answer of the earlier from one of the later;
three issues make two pages of two rows, the last not full; two attempts are one retry and giving
up (the code allows three). Symmetry (of tokens and requests) is used in safety runs only. All
runs allow deadlock: requests come from outside, and with every account inactive nobody can send
one.

Fairness. A handler that has started goes on by itself, and a transaction that holds its lock
waits for nothing more, so their steps are weakly fair. A statement that waits for a row is
strongly fair, because PostgreSQL queues the waiters of a row lock and hands it to them in turn.
The deadlock detector is weakly fair: PostgreSQL runs it `deadlock_timeout` after a wait began.
`issues_members` needs it, because `SetTeam` holds the account and waits for the issue while a
worker's update holds the issue and waits for the account. Arrivals, ticks and the choice to fail
are not fair.

The poller's ticker fires for ever, a page reconnects two seconds after its stream ended
(`notifications.js:105`), and the hub, the handlers and the page's awaits go on: `StoredIsShown`
needs no more, since `MaxTime` bounds the breaks. Commits are not fair. For `ExportEnds` the executor's
workers go on, the page's timer fires, and a request that is made again and again gets
through in the end (strong fairness of `HearStatus`); the stream is not needed and not fair.

Each property is also checked to be violated by a plausible mistake in the code (the
definitions marked "Slip", listed under "mutants" in `PROJECT.json`).

## 6. Proofs

For every value of the constants (any number of users, tokens, teams, issues and concurrent
requests), from the assumptions named in the modules: the sentinel values are not elements
of the sets they stand beside, and the inputs and the start have their types. `Teams` also
assumes of the board it starts from that members are viewers and assignees belong
(`StartAssumption`), `Issues` that members are viewers (`MemberAssumption`), that an issue that is
there has a creator and that one that is not is nowhere (`BoardAssumption`). An empty board
satisfies them all, and TLC evaluates them on the boards of the runs.

### Sessions

`Invariance` (`Spec => []IInv`), and from it `TypeCorrect`,
`AtMostOneSession`, `DeactivationSignsOut`, `StampsInOrder`. `OneCurrentSession` alone is not
inductive: a login about to commit must know that the sessions it will revoke are still all
of the user's current sessions. `ReadsHold` says so, `Exclusive` (one transaction at a time
holds a user's row) keeps it true against other transactions, and `SessionRowFree` keeps
logout from interfering. `StampsPast` bounds every stamp by the clock. The proof has one
lemma for each group of steps (`ReadersKeepIInv`, `MoversKeepIInv`, `LockKeepsIInv`,
`LogoutKeepsIInv`, `WriteKeepsIInv`, `SessionKeepsIInv`, `TickKeepsIInv`) over shared lemmas
about the helpers. Two more theorems rest on the same invariant: `PasswordChangesSignOut` (a
step that changes a password leaves its user no current session) and `StoreImplementsSlot`,
the refinement of `SessionSlot`. The latter reads the slot off the table (`Fits`: a user's current
sessions are the one in the slot, or none, which is `OneCurrentSession` again), and `SlotStep`
gives what each commit then has to show: it leaves the sessions of others alone, and closes
what it takes out of the slot. `RevokedForGood` (a revoked session is never current again) is
then a fact about `SessionSlot` alone.

### Teams

`Invariance`, and from it `TypeCorrect`, `OnlyViewersBelong` and `LeavingUnassigns`; and the
action property `ManagersAreKept`. `ChecksHold` is the strengthening: what a transaction
checked under its row lock (the member is a viewer; the account to be demoted manages
no team) is still so when it commits. The second half holds because `CommitManager` waits for
the row of a manager it newly names. `TransfersAreAdmins` needs one more invariant, `Authorized`:
who moves a member of one team to another acts as an admin, and a member whose row is locked for
a move is still in the team the service read.

The invariant is in two parts. `MemberInv` does not depend on what is assigned to whom, so it
is inductive whoever else writes issues; `AssigneesBelong` is kept by every step that starts
in `MemberInv` (`Keeps`). `BoardProofs` needs them apart, because issue requests break the second.

### Issues

`Invariance`, and from it `TypeCorrect`, `HistoryIsKept`, and the action properties
`WorkersStayInScope` and `DeletionIsFinal`. What makes the invariant inductive is `ScopeHolds`:
an issue whose row an UPDATE has locked exists and, for a worker, is still assigned to them;
`Exclusive` keeps it true against other updates and deletions, and the row lock against
membership steps, of which `MemberStepTyped` shows that they only ever clear an assignee. `OwnersKept`
says that an update's copy carries the creator the row has, also when the issue was deleted
meanwhile.

### The board

`BoardProofs` shows that what `Teams` keeps survives the composition, although issue requests
write the same table and deadlocks are broken: `OnlyViewersBelong`, `ManagersAreKept` and
`TransfersAreAdmins` again, now of `Issues`. Every step of the board is a step of the membership
requests (an aborted one gives up like a client that goes away: `AbortEnds`) or leaves accounts,
teams and membership requests alone (`BoardSteps`); then the lemmas of `TeamsProofs` apply. Those
lemmas hold from any board, so `Roster` instantiates them with an empty one. No run repeats these
three: their invariants are checked in `teams_members`, and the composition by `issues_members`.

### What the findings come down to

Each promise that section 7 shows broken is broken by one overlap of two requests, and is
kept in every behaviour without it, whatever else races. This is what a repair has to rule
out, and no more:

| Finding | Overlap | Theorem | Invariant it needs |
|---|---|---|---|
| 1 | `Outdating`: a password change commits while a PATCH of the account has read the row and not written it | `PasswordsAreOwn` | the copy of a PATCH under way has the password of the row (`CopiesFresh`) |
| 2 | `Skewed`: a statement that has checked its manager meets the PATCH that demotes them, past its own check | `ActiveManagersUnlessSkewed` | a manager whom a statement has checked is still active (`StillActive`) |
| 3 | `Overtaking`: an update of an issue is about to commit while a worker's update of it is under way | `WorkersOwnStatus` | a worker's copy has the text and placement of the row, or the worker has lost the issue (`CopiesCurrent`) |
| 4 | `Crossing`: a member is about to leave a team while a create or update that has read or checked the assignment gives them an issue of it | `WorkersAreUnassigned` | such a copy's assignee is in its team (`PlacesBelong`) |

The second and the fourth are also checked by TLC (`ActiveUnlessSkewed`,
`UnassignedUnlessCrossing`); the first and third are action properties under a condition, which
TLC cannot evaluate. 2 and 4 ask that the promise holds at the start. For 3, the membership steps
and deletions are why the invariant has its second half: they take an issue away from a worker,
and the scope of the UPDATE then finds no row.

### Notifications

`Invariance`, and from it `NotificationTypes`, `PagesHaveNoGap`, `NotificationsShownOnce` and
`RowsPublishedOnce`.
`NoGap` speaks of live pages only and is not inductive: `NoGapWhileLoading` says the same of the
answer on its way, from the moment the inbox was read, and holds because the page subscribes
first. `CursorParts` says that every stored row is published, found, above the cursor or
passed, and gives `PublishedOnce`; `IdsDrawnOnce` keeps a row from being stored twice. `ListsOwn` says
that a page is sent and shown its own user's notifications only.

`ReadsInvariance` is about `NotificationReads`: its steps are steps of `Notifications` or leave it
alone (`ReadsStepIsStep`), so `IInv` holds there too, and `ReadsInv` is inductive beside it.
`ShownReadIsRead` alone is not: an item is shown as read by an answer or a load that is under way,
so `LoadsAreRead` says that what was loaded as read is read, and `ClicksCover` that a request is
for a row of its page's user (by `ListsOwn`) and that after its UPDATE all it was for is read.
`ShownReadIsTrue` follows.

### Pagination

For every width of an int, page size and number of rows: `OffsetFits` (what `TooLarge` lets
through has an exact offset), `ActivityOffsetWraps` (without it some page wraps),
`ActivityAnswersExact` (such a page is refused by the range check all the same, so no answer shows
wrong rows) and `PagesPartition` (each row is on exactly one page). These are statements about
operators, so no run repeats them.

### Exports

`ExportsProofs`, for the server with any client: `SteadyExportsExact` and `StoredFileIsResult`.
`PagesWritten` is the strengthening: an undisturbed attempt has written exactly the rows
before its page, and the pages it counted are enough; the last step is `PagesPartition` again.
`ServerKeepsPromise` is the refinement of `ExportOutcome`: `OutcomeStep` says how one export may
move, and `WorkOutcome` that each step of a worker moves it so, because by `WorkerOfStatus` no
worker is left to store a file once an operation has succeeded.

`ExportPageProofs`: `PageUsesServer`, the refinement (every step of page and network is a step of
`ServerSpec` or leaves the server alone), which carries the server's theorems over (`PageExportsExact`,
`PageIsPromised`); `PageInvariance`, and from it
`PageTypes`, `PageFetchesOnce` and `PageRunsOne`. `OneAtATime` (a key is drawn when the last
export has ended) and `ActedOnce` (only an export that was not handled may be acted on) make
the invariant inductive, and `HeardIsTrue` says that what a page has heard of an end stays true.

### Only model-checked

Liveness (`Served`, `StoredIsShown`, `ExportEnds`), which is out of the
prover's reach. `Sessions` and `Teams` run on parts of one table each; only `Issues` and `Teams`
are composed.

## 7. Where the code and its documents disagree

1. `sessions_overwrite`: PATCH of role or activation saves the whole row it read before
   the lock, and so undoes a password change that committed in between.
2. `teams_skew`: the trigger that requires an active manager reads the manager's row
   without locking it; a demotion in progress, which sees no team yet, commits, and the
   team's statement, which waits for it only at the foreign key, commits as well.
3. `issues_status`: an issue update writes all columns of a copy read before the transaction,
   so a worker who changes the status writes back a title or a placement that was
   changed in between.
4. `issues_removed`: an update that read or checked the assignee before the removal of that
   worker writes the assignee after it, and nothing checks again.

Section 6 shows that in each case the overlap described is the only way.

Beside these, three things that no document contradicts and a reader should know of. An export of
an owner who sees no issue fails in every attempt: the progress divides by the number of pages
(`exports_job.go:59`). And a page that hears late of an earlier export may show that export as
ended, and offer to start a third, while the second runs (`stale` in `ExportPage`). A third: the
answer of a "mark all" gives a `readAt` to every item the page has by then
(`notifications.js:25`), also to one that arrived after the UPDATE and is unread in the table; it
shows as unread again with the next inbox (`tooNew` in `NotificationReads`).

## 8. Not modelled

* The unread badge of the inbox, which is a second query and a counter of the page; a change of
  user while an inbox is loading.
* The executor inside: leases and heartbeats of workers. It is taken to run one attempt of an
  operation at a time and to keep one operation per key; retries are delayed by nothing. A worker
  that lost its lease and goes on beside the retry is therefore not covered: `store.save` has no
  fence against it.
* The session of an export's owner; sign-out during an export (`stopIssueExport`). Two polls of
  the same export with the same answer count as one, and a poll chain that `cancel` or a download
  started beside the timer's is part of it.
* The board, the editors and the account pages of the dashboard. Their one hazard that is not a
  matter of rendering, answers of two loads out of order, is listed.
* Seeding, run by hand. Read-only listings of accounts and teams, and the filters and orders of
  the issue listing, which change no state.
* Password hashing, the migration runner, the HTTP framework with its hub and its rate limiter:
  external. The hub is modelled from how it is configured and used.
* Formatting, validation of the shape of inputs and error texts: a request with invalid input
  changes nothing. The one whose validation matters, a notification that is too long, is a step of
  `Notifications` that does nothing.
