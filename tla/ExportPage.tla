----------------------------- MODULE ExportPage -----------------------------
(***************************************************************************)
(* The dashboard's side of an export (dashboard/static/exports.js): it     *)
(* submits one, polls its status every second, reads its stream beside the *)
(* polls, cancels it, and downloads it when it has succeeded.  Requests    *)
(* and answers take their time and may be lost.  The server is Exports; a  *)
(* script may use it instead of the page.                                  *)
(***************************************************************************)
EXTENDS Exports

VARIABLES
  client,    \* who uses the API: "page" or "script"
  click,     \* the POST of the page, and what its answer says
  key,       \* state.issueExportIdempotencyKey
  current,   \* state.issueExport
  url,       \* the operation whose status_url the page holds
  handled,   \* state.issueExportCompletionHandled
  timer,     \* state.issueExportPollTimer is set
  polls,     \* answers to GETs of a status on their way to the page
  watch,     \* the operation whose stream the page reads
  fetched,   \* downloads that the page has started
  stale      \* an answer arrived for another export than the page's

uvars == <<click, key, current, url, handled, timer, polls, watch, fetched, stale>>
vars == <<visible, changes, status, attempt, job, file, client, click, key, current,
          url, handled, timer, polls, watch, fetched, stale>>

\* What a page tells apart; the other states differ in their wording.
Outcomes == {"ready", "over"}
Views == {"none", "working"} \union Outcomes

View(s) ==
  CASE s = "succeeded" -> "ready"
    [] s \in {"failed", "cancelled"} -> "over"
    [] OTHER -> "working"

NoExport == [op |-> NoOp, got |-> "none"]

Idle == [pc |-> "idle", got |-> "none"]

Busy == current.got = "working"

\* pollIssueExport: what the server answers is on its way.
Poll(o) == polls' = polls \union {[op |-> o, got |-> View(status[o])]}

-----------------------------------------------------------------------------
\* Slip: whoever hears of the end acts on it.
ActAgain(got, already) == got \in Outcomes

\* updateIssueExport: acts once on an operation that has ended.
Act(got, already) == got \in Outcomes /\ ~already

\* Only the answer to a POST has a status_url: the page keeps the one it holds.
Update(o, got, already) ==
  /\ current' = [op |-> o, got |-> got]
  /\ handled' = (already \/ Act(got, already))
  /\ fetched' = IF Act(got, already) /\ got = "ready"
                THEN [fetched EXCEPT ![o] = @ + 1] ELSE fetched

\* startIssueExport.  A key that no answer has confirmed is used again.
Click ==
  /\ client = "page" /\ click = Idle /\ ~Busy
  /\ click' = [Idle EXCEPT !.pc = "asked"]
  /\ IF key # NoOp THEN key' = key ELSE \E o \in Ops : status[o] = "none" /\ key' = o
  /\ UNCHANGED <<svars, client, current, url, handled, timer, polls, watch, fetched, stale>>

SubmitKey ==
  /\ click.pc = "asked"
  /\ Submit(key)
  /\ click' = [pc |-> "answered", got |-> View(status'[key])]
  /\ UNCHANGED <<client, key, current, url, handled, timer, polls, watch, fetched, stale>>

\* Slip: the key goes with the request.
SubmitFailsAndForgets ==
  /\ click # Idle
  /\ click' = Idle /\ key' = NoOp
  /\ UNCHANGED <<svars, client, current, url, handled, timer, polls, watch, fetched, stale>>

\* The request or its answer is lost.
SubmitFails ==
  /\ click # Idle
  /\ click' = Idle
  /\ UNCHANGED <<svars, client, key, current, url, handled, timer, polls, watch, fetched, stale>>

\* The answer: at once a first poll and the stream, unless it has ended.
Started ==
  /\ click.pc = "answered"
  /\ click' = Idle /\ key' = NoOp
  /\ Update(key, click.got, FALSE) /\ url' = key
  /\ timer' = FALSE
  /\ IF click.got \in Outcomes
     THEN watch' = NoOp /\ polls' = polls
     ELSE watch' = key /\ Poll(key)
  /\ UNCHANGED <<svars, client, stale>>

AskStatus ==
  /\ timer /\ timer' = FALSE
  /\ IF Busy THEN Poll(url) ELSE polls' = polls
  /\ UNCHANGED <<svars, client, click, key, current, url, handled, watch, fetched, stale>>

HearStatus(p) ==
  /\ polls' = polls \ {p}
  /\ stale' = (stale \/ p.op # current.op)
  /\ Update(p.op, p.got, handled)
  /\ timer' = (p.got = "working" \/ (timer /\ ~Act(p.got, handled)))
  /\ watch' = IF Act(p.got, handled) THEN NoOp ELSE watch
  /\ UNCHANGED <<svars, client, click, key, url>>

\* Slip: a poll that fails is the last one.
PollFailsForGood(p) ==
  /\ polls' = polls \ {p}
  /\ UNCHANGED <<svars, client, click, key, current, url, handled, timer, watch, fetched, stale>>

PollFails(p) ==
  /\ polls' = polls \ {p}
  /\ timer' = (timer \/ Busy)
  /\ UNCHANGED <<svars, client, click, key, current, url, handled, watch, fetched, stale>>

\* events, and watchIssueExportCompletion: one frame when the operation has ended.
HearCompletion ==
  /\ watch # NoOp /\ View(status[watch]) \in Outcomes
  /\ watch' = NoOp
  /\ stale' = (stale \/ watch # current.op)
  /\ Update(watch, View(status[watch]), handled)
  /\ timer' = (timer /\ ~Act(View(status[watch]), handled))
  /\ UNCHANGED <<svars, client, click, key, url, polls>>

\* The session or the connection ends; the stream is not opened again.
StreamBreaks ==
  /\ watch # NoOp /\ watch' = NoOp
  /\ UNCHANGED <<svars, client, click, key, current, url, handled, timer, polls, fetched, stale>>

\* cancelIssueExport: once the DELETE is answered, if it is, a poll follows.
CancelCurrent ==
  /\ Busy
  /\ Cancel(url)
  /\ \/ timer' = FALSE /\ polls' = polls \union {[op |-> url, got |-> View(status'[url])]}
     \/ UNCHANGED <<timer, polls>>
  /\ UNCHANGED <<client, click, key, current, url, handled, watch, fetched, stale>>

-----------------------------------------------------------------------------
Init ==
  /\ ServerInit
  /\ client \in {"page", "script"}
  /\ click = Idle /\ key = NoOp
  /\ current = NoExport /\ url = NoOp /\ handled = FALSE
  /\ timer = FALSE /\ polls = {} /\ watch = NoOp
  /\ fetched = [o \in Ops |-> 0]
  /\ stale = FALSE

Dashboard ==
  \/ Click \/ SubmitKey \/ SubmitFails \/ Started
  \/ AskStatus
  \/ \E p \in polls : HearStatus(p) \/ PollFails(p)
  \/ HearCompletion \/ StreamBreaks
  \/ CancelCurrent

Script == client = "script" /\ \E o \in Ops : Submit(o) \/ Cancel(o)

Next ==
  \/ (Background \/ Script) /\ UNCHANGED <<client, uvars>>
  \/ Dashboard

\* The executor's workers go on; the page's timer fires; requests that are made
\* again and again get through.
Fairness ==
  /\ \A o \in Ops : WF_vars(Work(o) /\ UNCHANGED <<client, uvars>>)
  /\ WF_vars(AskStatus)
  /\ SF_vars(\E p \in polls : HearStatus(p))

Spec == Init /\ [][Next]_vars
FairSpec == Spec /\ Fairness

-----------------------------------------------------------------------------
(* Properties *)

TypeOK ==
  /\ ServerTypeOK
  /\ client \in {"page", "script"}
  /\ click \in [pc : {"idle", "asked", "answered"}, got : Views]
  /\ key \in Ops \union {NoOp}
  /\ current \in [op : Ops \union {NoOp}, got : Views]
  /\ url \in Ops \union {NoOp}
  /\ handled \in BOOLEAN /\ timer \in BOOLEAN /\ stale \in BOOLEAN
  /\ polls \in SUBSET [op : Ops, got : Views]
  /\ watch \in Ops \union {NoOp}
  /\ fetched \in [Ops -> Nat]

\* A page downloads an export only when it has succeeded, and once, though it
\* hears of the end from polls and from the stream, unless an answer for an
\* earlier export came late (exports.js:98-114).
FetchedOnce ==
  \A o \in Ops : /\ fetched[o] > 0 => status[o] = "succeeded"
                 /\ ~stale => fetched[o] <= 1

\* Lost answers and second clicks never leave a page with two exports that run,
\* unless an answer for an earlier export came late (exports.js:4-21,
\* exports_api.go:42-54).
OneUnfinished ==
  client = "page" /\ ~stale => \A o, p \in Ops : Unfinished(o) /\ Unfinished(p) => o = p

\* A page that says "exporting" comes to an end (exports.js:51-63).
ExportEnds == Busy ~> ~Busy

-----------------------------------------------------------------------------
(* Why they hold *)

\* The operations that a page knows of have been submitted.
Known ==
  /\ current.got = "none" <=> current.op = NoOp
  /\ current.op # NoOp => status[current.op] # "none"
  /\ url # NoOp => status[url] # "none"
  /\ url = NoOp => current.op = NoOp /\ polls = {} /\ watch = NoOp
  /\ \A p \in polls : p.got # "none" /\ status[p.op] # "none"
  /\ watch # NoOp => status[watch] # "none"
  /\ click # Idle => key # NoOp
  /\ click.pc = "answered" => click.got # "none" /\ status[key] # "none"

\* What a page has heard of an end is true.
HeardIsTrue ==
  /\ \A p \in polls : p.got \in Outcomes => p.got = View(status[p.op])
  /\ current.got \in Outcomes => current.got = View(status[current.op])
  /\ click.pc = "answered" /\ click.got \in Outcomes => click.got = View(status[key])

\* A page asks for an export when the last one has ended.
OneAtATime ==
  ~stale =>
    /\ url = current.op
    /\ key # NoOp /\ current.op # NoOp => key # current.op /\ status[current.op] \in Ended
    /\ client = "page" => \A o \in Ops : Unfinished(o) => o \in {key, current.op}

\* Only the page's last export may be acted on, and the next one.
ActedOnce ==
  ~stale => /\ key # NoOp => fetched[key] = 0
            /\ current.op # NoOp /\ ~handled => fetched[current.op] = 0

\* The inductive invariant of the page (exports.js).
IInv ==
  /\ TypeOK
  /\ ServerInv
  /\ Known
  /\ HeardIsTrue
  /\ OneAtATime
  /\ ActedOnce
  /\ FetchedOnce
=============================================================================
