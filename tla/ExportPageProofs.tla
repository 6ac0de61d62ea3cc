-------------------------- MODULE ExportPageProofs --------------------------
(***************************************************************************)
(* The page is a client of the server, and what it hears and does, for any *)
(* number of exports and however its polls and its stream interleave.      *)
(***************************************************************************)
EXTENDS ExportPage, ExportsProofs

-----------------------------------------------------------------------------
(* Statuses *)

LEMMA ViewFacts ==
  ASSUME NEW s \in Statuses
  PROVE  /\ View(s) \in Views \ {"none"}
         /\ View(s) \in Outcomes <=> s \in Ended
         /\ View(s) = "ready" <=> s = "succeeded"
BY DEF View, Views, Outcomes, Statuses, Ended

\* What has been submitted stays so, and what has ended stays as it is.
Onward ==
  \A o \in Ops : /\ status'[o] = "none" => status[o] = "none"
                 /\ status[o] \in Ended => status'[o] = status[o]

\* Nothing is submitted.
Nothing == \A o \in Ops : status[o] = "none" => status'[o] = "none"

LEMMA BackgroundMoves ==
  ASSUME ServerInv, Background
  PROVE  Onward /\ Nothing
<1>1. status \in [Ops -> Statuses] /\ job \in [Ops -> Job]  BY DEF ServerInv, ServerTypeOK
<1>2. \A o \in Ops : status[o] \in {"none", "pending", "retrying", "succeeded"} => job[o].pc = "off"
  BY DEF ServerInv, WorkerOfStatus
<1>3. ASSUME NEW i \in Ids, Enter(i) \/ Leave(i) PROVE status' = status
  BY <1>3 DEF Enter, Leave
<1>4. ASSUME NEW o \in Ops, Work(o)
      PROVE  \E st \in Statuses : /\ status' = [status EXCEPT ![o] = st]
                                  /\ st = "none" <=> status[o] = "none"
                                  /\ status[o] \in Ended => st = status[o]
  <2>1. CASE Begin(o)  BY <1>1, <2>1 DEF Begin, Statuses, Ended
  <2>2. CASE Count(o) \/ Select(o) \/ Save(o)
    BY <1>1, <2>2 DEF Count, Select, Save
  <2>3. CASE Finish(o)
    <3>1. status[o] # "none"  BY <1>2, <2>3 DEF Finish
    <3> QED  BY <1>1, <2>3, <3>1 DEF Finish, Statuses, Ended
  <2>4. CASE Fail(o)
    <3>1. status[o] # "none"  BY <1>2, <2>4 DEF Fail
    <3>2. AfterFailure(o) \in Statuses \ {"none"}
      BY <1>1, <3>1 DEF AfterFailure, Statuses, Ended
    <3>3. status[o] \in Ended => AfterFailure(o) = status[o]  BY DEF AfterFailure, Ended
    <3> QED  BY <2>4, <3>1, <3>2, <3>3 DEF Fail
  <2>5. CASE RefuseOwner(o)  BY <1>1, <2>5 DEF RefuseOwner, Statuses, Ended
  <2> QED  BY <1>4, <2>1, <2>2, <2>3, <2>4, <2>5 DEF Work
<1>5. CASE status' = status  BY <1>5 DEF Onward, Nothing
<1>6. CASE \E o \in Ops : Work(o)  BY <1>1, <1>4, <1>6 DEF Onward, Nothing
<1> QED  BY <1>3, <1>5, <1>6 DEF Background

LEMMA CancelMoves ==
  ASSUME ServerInv, NEW o \in Ops, Cancel(o)
  PROVE  Onward /\ Nothing
<1>1. status \in [Ops -> Statuses]  BY DEF ServerInv, ServerTypeOK
<1> QED  BY <1>1 DEF Cancel, Unfinished, Ended, Onward, Nothing

LEMMA SubmitMoves ==
  ASSUME ServerInv, NEW o \in Ops, Submit(o)
  PROVE  /\ Onward /\ status'[o] # "none"
         /\ \A p \in Ops \ {o} : status'[p] = status[p]
<1>1. status \in [Ops -> Statuses]  BY DEF ServerInv, ServerTypeOK
<1> QED  BY <1>1 DEF Submit, Ended, Onward

-----------------------------------------------------------------------------
(* The page is a client *)

PageTyped ==
  /\ client \in {"page", "script"}
  /\ click \in [pc : {"idle", "asked", "answered"}, got : Views]
  /\ key \in Ops \union {NoOp}
  /\ current \in [op : Ops \union {NoOp}, got : Views]
  /\ url \in Ops \union {NoOp}
  /\ handled \in BOOLEAN /\ timer \in BOOLEAN /\ stale \in BOOLEAN
  /\ polls \in SUBSET [op : Ops, got : Views]
  /\ watch \in Ops \union {NoOp}
  /\ fetched \in [Ops -> Nat]

PageInv == PageTyped /\ Known /\ HeardIsTrue /\ OneAtATime /\ ActedOnce /\ FetchedOnce

LEMMA InvSplit == IInv <=> ServerInv /\ PageInv
BY DEF IInv, PageInv, TypeOK, PageTyped, ServerInv

\* Whoever the page is waiting for is an export.
LEMMA Named ==
  ASSUME IInv
  PROVE  /\ click # Idle => key \in Ops
         /\ Busy => current.op \in Ops /\ url \in Ops
         /\ watch # NoOp => watch \in Ops
         /\ current.op # NoOp => current.op \in Ops
         /\ key # NoOp => key \in Ops
         /\ url # NoOp => url \in Ops
BY DEF IInv, TypeOK, Known, Busy

LEMMA PageIsClient == IInv /\ [Next]_vars => [ServerNext]_svars
<1> SUFFICES ASSUME IInv, [Next]_vars PROVE [ServerNext]_svars
  OBVIOUS
<1>1. CASE UNCHANGED vars  BY <1>1 DEF vars, svars
<1>2. CASE Background  BY <1>2 DEF ServerNext
<1>3. CASE Script  BY <1>3 DEF Script, ServerNext
<1>4. CASE SubmitKey
  <2>1. click # Idle  BY <1>4 DEF SubmitKey, Idle
  <2>2. key \in Ops  BY <2>1, Named
  <2> QED  BY <1>4, <2>2 DEF SubmitKey, ServerNext
<1>5. CASE CancelCurrent
  <2>1. url \in Ops  BY <1>5, Named DEF CancelCurrent
  <2> QED  BY <1>5, <2>1 DEF CancelCurrent, ServerNext
<1>6. CASE Click \/ SubmitFails \/ Started \/ AskStatus \/ HearCompletion \/ StreamBreaks
  BY <1>6 DEF Click, SubmitFails, Started, AskStatus, HearCompletion, StreamBreaks
<1>7. ASSUME NEW p \in polls, HearStatus(p) \/ PollFails(p) PROVE UNCHANGED svars
  BY <1>7 DEF HearStatus, PollFails
<1> QED  BY <1>1, <1>2, <1>3, <1>4, <1>5, <1>6, <1>7 DEF Next, Dashboard

-----------------------------------------------------------------------------
(* What the page knows stays true *)

\* Steps of the server that the page has no part in.
LEMMA ServerMoves ==
  ASSUME IInv, Background \/ Script, UNCHANGED <<client, uvars>>
  PROVE  PageInv'
<1>1. ServerInv /\ PageInv  BY InvSplit
<1>2. status \in [Ops -> Statuses] /\ status' \in [Ops -> Statuses]
  <2>1. [ServerNext]_svars  BY DEF ServerNext, Script
  <2>2. ServerInv'  BY <1>1, <2>1, ServerStep
  <2> QED  BY <1>1, <2>2 DEF ServerInv, ServerTypeOK
<1>3. Onward
  BY <1>1, BackgroundMoves, CancelMoves, SubmitMoves DEF Script
<1>4. client = "page" => Nothing
  BY <1>1, BackgroundMoves DEF Script
<1>5. /\ PageTyped /\ Known /\ HeardIsTrue /\ OneAtATime /\ ActedOnce /\ FetchedOnce
      /\ UNCHANGED <<client, click, key, current, url, handled, timer, polls, watch, fetched, stale>>
  BY <1>1 DEF PageInv, uvars
<1>6. PageTyped'  BY <1>5 DEF PageTyped
<1>7. Known'
  <2>1. \A o \in Ops : status[o] # "none" => status'[o] # "none"  BY <1>3 DEF Onward
  <2>2. \A p \in polls : p.op \in Ops  BY <1>5 DEF PageTyped
  <2>3. click.pc = "answered" => key \in Ops  BY Named DEF Idle
  <2> QED  BY <1>5, <2>1, <2>2, <2>3, Named DEF Known
<1>8. HeardIsTrue'
  <2>1. \A o \in Ops : View(status[o]) \in Outcomes => View(status'[o]) = View(status[o])
    BY <1>2, <1>3, ViewFacts DEF Onward
  <2>2. \A p \in polls : p.op \in Ops  BY <1>5 DEF PageTyped
  <2>3. current.got \in Outcomes => current.op \in Ops
    BY <1>5, Named DEF Known, Outcomes
  <2>4. click.pc = "answered" => key \in Ops  BY Named DEF Idle
  <2> QED  BY <1>5, <2>1, <2>2, <2>3, <2>4 DEF HeardIsTrue
<1>9. OneAtATime'
  <2>1. \A o \in Ops : status[o] \in Ended => status'[o] \in Ended  BY <1>3 DEF Onward
  <2>2. client = "page" => \A o \in Ops : Unfinished(o)' => Unfinished(o)
    BY <1>2, <1>3, <1>4 DEF Unfinished, Onward, Nothing
  <2> QED  BY <1>5, <2>1, <2>2, Named DEF OneAtATime
<1>10. ActedOnce'  BY <1>5 DEF ActedOnce
<1>11. FetchedOnce'
  <2>1. \A o \in Ops : status[o] = "succeeded" => status'[o] = "succeeded"
    BY <1>3 DEF Onward, Ended
  <2> QED  BY <1>5, <2>1 DEF FetchedOnce
<1> QED  BY <1>6, <1>7, <1>8, <1>9, <1>10, <1>11 DEF PageInv

\* What the page keeps of an answer that names o and is true.
LEMMA UpdateFacts ==
  ASSUME IInv, NEW o \in Ops, NEW got \in Views \ {"none"}, NEW already \in BOOLEAN,
         Update(o, got, already), UNCHANGED svars,
         got \in Outcomes => got = View(status[o])
  PROVE  /\ current' = [op |-> o, got |-> got] /\ handled' \in BOOLEAN
         /\ fetched' \in [Ops -> Nat]
         /\ \A p \in Ops : fetched'[p] > 0 => status[p] = "succeeded"
         /\ \A p \in Ops \ {o} : fetched'[p] = fetched[p]
         /\ already => fetched'[o] = fetched[o]
         /\ ~already /\ fetched[o] = 0 => fetched'[o] <= 1
         /\ ~handled' => fetched'[o] = fetched[o] /\ ~already
         /\ already => handled'
<1>1. /\ fetched \in [Ops -> Nat] /\ \A p \in Ops : fetched[p] > 0 => status[p] = "succeeded"
      /\ status \in [Ops -> Statuses]
  BY DEF IInv, TypeOK, FetchedOnce, ServerTypeOK
<1>2. got = "ready" => status[o] = "succeeded"
  BY <1>1, ViewFacts DEF Outcomes
<1>3. handled' = (already \/ Act(got, already))  BY DEF Update
<1>4. CASE Act(got, already) /\ got = "ready"
  <2>1. fetched' = [fetched EXCEPT ![o] = @ + 1] /\ ~already /\ handled'
    BY <1>3, <1>4 DEF Update, Act
  <2> QED  BY <1>1, <1>2, <1>3, <1>4, <2>1 DEF Update
<1>5. CASE ~(Act(got, already) /\ got = "ready")
  BY <1>1, <1>3, <1>5 DEF Update
<1> QED  BY <1>4, <1>5

\* An answer to a poll that statuses st bear out.
PollOK(p, st) ==
  /\ p \in [op : Ops, got : Views] /\ p.got # "none"
  /\ st[p.op] # "none"
  /\ p.got \in Outcomes => p.got = View(st[p.op])

LEMMA PollsOK == IInv => \A p \in polls : PollOK(p, status)
BY DEF IInv, TypeOK, Known, HeardIsTrue, PollOK

LEMMA NewPoll ==
  ASSUME NEW st \in [Ops -> Statuses], NEW o \in Ops, st[o] # "none"
  PROVE  PollOK([op |-> o, got |-> View(st[o])], st)
<1>1. View(st[o]) \in Views \ {"none"}  BY ViewFacts
<1> QED  BY <1>1 DEF PollOK

\* The facts at hand in each step of the page.
LEMMA AtHand ==
  ASSUME IInv
  PROVE  /\ ServerInv /\ PageTyped /\ Known /\ HeardIsTrue /\ OneAtATime /\ ActedOnce /\ FetchedOnce
         /\ status \in [Ops -> Statuses] /\ fetched \in [Ops -> Nat]
         /\ NoOp \notin Ops
         /\ \A p \in polls : PollOK(p, status)
BY InvSplit, PollsOK, ExportAssumption DEF PageInv, IInv, TypeOK, ServerTypeOK

LEMMA ClickStep ==
  ASSUME IInv, Click
  PROVE  PageInv'
<1>1. /\ PageTyped /\ Known /\ HeardIsTrue /\ OneAtATime /\ ActedOnce /\ FetchedOnce
      /\ status \in [Ops -> Statuses] /\ fetched \in [Ops -> Nat] /\ NoOp \notin Ops
  BY AtHand
<1>2. /\ click' = [Idle EXCEPT !.pc = "asked"] /\ ~Busy
      /\ UNCHANGED <<status, client, current, url, handled, timer, polls, watch, fetched, stale>>
  BY DEF Click, svars
<1>3. /\ key' \in Ops
      /\ key' = key \/ (key = NoOp /\ status[key'] = "none")
  BY <1>1, Named DEF Click
<1>4. click' \in [pc : {"idle", "asked", "answered"}, got : Views] /\ click'.pc = "asked"
  BY <1>2 DEF Idle, Views
<1>5. PageTyped'  BY <1>1, <1>2, <1>3, <1>4 DEF PageTyped
<1>6. Known'  BY <1>1, <1>2, <1>3, <1>4 DEF Known
<1>7. HeardIsTrue'  BY <1>1, <1>2, <1>4 DEF HeardIsTrue
<1>8. OneAtATime'
  <2>1. ASSUME current.op # NoOp PROVE status[current.op] \in Ended /\ status[current.op] # "none"
    <3>1. current.op \in Ops /\ current.got \in Outcomes
      BY <1>1, <1>2, <2>1, Named DEF PageTyped, Known, Busy, Views
    <3>2. View(status[current.op]) \in Outcomes  BY <1>1, <3>1 DEF HeardIsTrue
    <3>3. status[current.op] \in Statuses  BY <1>1, <3>1
    <3> QED  BY <3>2, <3>3, ViewFacts DEF Ended
  <2>2. current.op # NoOp => key' # current.op \/ key' = key  BY <1>3, <2>1
  <2> QED  BY <1>1, <1>2, <1>3, <2>1, <2>2 DEF OneAtATime, Unfinished
<1>9. ActedOnce'
  <2>1. status[key'] = "none" => fetched[key'] = 0  BY <1>1, <1>3 DEF FetchedOnce
  <2> QED  BY <1>1, <1>2, <1>3, <2>1 DEF ActedOnce
<1>10. FetchedOnce'  BY <1>1, <1>2 DEF FetchedOnce
<1> QED  BY <1>5, <1>6, <1>7, <1>8, <1>9, <1>10 DEF PageInv

LEMMA SubmitKeyStep ==
  ASSUME IInv, SubmitKey
  PROVE  PageInv'
<1>1. /\ ServerInv /\ PageTyped /\ Known /\ HeardIsTrue /\ OneAtATime /\ ActedOnce /\ FetchedOnce
      /\ status \in [Ops -> Statuses] /\ fetched \in [Ops -> Nat] /\ NoOp \notin Ops
      /\ \A p \in polls : PollOK(p, status)
  BY AtHand
<1>2. /\ key \in Ops /\ Submit(key) /\ click.pc = "asked"
      /\ click' = [pc |-> "answered", got |-> View(status'[key])]
      /\ UNCHANGED <<client, key, current, url, handled, timer, polls, watch, fetched, stale>>
  BY Named DEF SubmitKey, Idle
<1>3. /\ Onward /\ status'[key] # "none"
      /\ \A o \in Ops \ {key} : status'[o] = status[o]
  BY <1>1, <1>2, SubmitMoves
<1>4. status' \in [Ops -> Statuses]
  BY <1>1, <1>2 DEF Submit, Statuses
<1>5. click'.pc = "answered" /\ click'.got = View(status'[key]) /\ click'.got \in Views \ {"none"}
  BY <1>2, <1>4, ViewFacts
<1>6. PageTyped'
  <2>1. click' \in [pc : {"idle", "asked", "answered"}, got : Views]  BY <1>2, <1>5
  <2> QED  BY <1>1, <1>2, <2>1 DEF PageTyped
<1>7. \A o \in Ops : /\ status[o] # "none" => status'[o] # "none"
                     /\ View(status[o]) \in Outcomes => View(status'[o]) = View(status[o])
  BY <1>1, <1>3, ViewFacts DEF Onward
<1>8. Known'
  <2>1. \A p \in polls : p.op \in Ops  BY <1>1 DEF PollOK
  <2>2. key # NoOp  BY <1>1, <1>2
  <2> QED  BY <1>1, <1>2, <1>3, <1>5, <1>7, <2>1, <2>2, Named DEF Known
<1>9. HeardIsTrue'
  <2>1. \A p \in polls : p.op \in Ops  BY <1>1 DEF PollOK
  <2>2. current.got \in Outcomes => current.op \in Ops  BY <1>1, Named DEF Known, Outcomes
  <2> QED  BY <1>1, <1>2, <1>5, <1>7, <2>1, <2>2 DEF HeardIsTrue
<1>10. OneAtATime'
  <2>1. \A o \in Ops : status[o] \in Ended => status'[o] \in Ended  BY <1>3 DEF Onward
  <2>2. \A o \in Ops : Unfinished(o)' => Unfinished(o) \/ o = key  BY <1>3 DEF Unfinished
  <2> QED  BY <1>1, <1>2, <2>1, <2>2, Named DEF OneAtATime
<1>11. ActedOnce'  BY <1>1, <1>2 DEF ActedOnce
<1>12. FetchedOnce'
  <2>1. \A o \in Ops : status[o] = "succeeded" => status'[o] = "succeeded"
    BY <1>3 DEF Onward, Ended
  <2> QED  BY <1>1, <1>2, <2>1 DEF FetchedOnce
<1> QED  BY <1>6, <1>8, <1>9, <1>10, <1>11, <1>12 DEF PageInv

\* Requests that fail and streams that break teach the page nothing.
LEMMA LostSteps ==
  ASSUME IInv, SubmitFails \/ StreamBreaks \/ \E p \in polls : PollFails(p)
  PROVE  PageInv'
<1>1. /\ PageTyped /\ Known /\ HeardIsTrue /\ OneAtATime /\ ActedOnce /\ FetchedOnce
  BY AtHand
<1>2. /\ click' \in {click, Idle} /\ watch' \in {watch, NoOp} /\ polls' \subseteq polls
      /\ timer' \in {timer, timer \/ Busy}
      /\ UNCHANGED <<status, client, key, current, url, handled, fetched, stale>>
  BY DEF SubmitFails, StreamBreaks, PollFails, svars
<1>3. Idle \in [pc : {"idle", "asked", "answered"}, got : Views] /\ Idle.pc = "idle"
  BY DEF Idle, Views
<1>4. PageTyped'
  <2>1. timer' \in BOOLEAN  BY <1>1, <1>2 DEF PageTyped
  <2> QED  BY <1>1, <1>2, <1>3, <2>1 DEF PageTyped
<1>5. Known'  BY <1>1, <1>2, <1>3 DEF Known
<1>6. HeardIsTrue'  BY <1>1, <1>2, <1>3 DEF HeardIsTrue
<1>7. OneAtATime'  BY <1>1, <1>2 DEF OneAtATime, Unfinished
<1>8. ActedOnce' /\ FetchedOnce'  BY <1>1, <1>2 DEF ActedOnce, FetchedOnce
<1> QED  BY <1>4, <1>5, <1>6, <1>7, <1>8 DEF PageInv

\* An answer for o, late or not, from a poll or from the stream.
LEMMA HeardStep ==
  ASSUME IInv, NEW o \in Ops, NEW got \in Views \ {"none"},
         status[o] # "none", got \in Outcomes => got = View(status[o]), url # NoOp,
         Update(o, got, handled), stale' = (stale \/ o # current.op),
         timer' \in BOOLEAN, watch' \in {watch, NoOp}, polls' \subseteq polls,
         UNCHANGED <<svars, client, click, key, url>>
  PROVE  PageInv'
<1>1. /\ PageTyped /\ Known /\ HeardIsTrue /\ OneAtATime /\ ActedOnce /\ FetchedOnce
      /\ status \in [Ops -> Statuses] /\ fetched \in [Ops -> Nat] /\ NoOp \notin Ops
      /\ handled \in BOOLEAN
  BY AtHand DEF PageTyped
<1>2. /\ current' = [op |-> o, got |-> got] /\ handled' \in BOOLEAN
      /\ fetched' \in [Ops -> Nat]
      /\ \A p \in Ops : fetched'[p] > 0 => status[p] = "succeeded"
      /\ \A p \in Ops \ {o} : fetched'[p] = fetched[p]
      /\ handled => fetched'[o] = fetched[o]
      /\ ~handled /\ fetched[o] = 0 => fetched'[o] <= 1
      /\ ~handled' => fetched'[o] = fetched[o] /\ ~handled
      /\ handled => handled'
  BY <1>1, UpdateFacts
<1>3. current'.op = o /\ current'.got = got /\ o # NoOp  BY <1>1, <1>2
<1>4. status' = status  BY DEF svars
<1>5. stale' \in BOOLEAN  BY <1>1 DEF PageTyped
<1>6. ~stale' => ~stale /\ o = current.op  OBVIOUS
<1>7. PageTyped'
  <2>1. current' \in [op : Ops \union {NoOp}, got : Views]  BY <1>2
  <2> QED  BY <1>1, <1>2, <1>5, <2>1 DEF PageTyped
<1>8. Known'  BY <1>1, <1>3, <1>4 DEF Known
<1>9. HeardIsTrue'  BY <1>1, <1>3, <1>4 DEF HeardIsTrue
<1>10. OneAtATime'
  <2>1. ~stale' => current'.op = current.op  BY <1>3, <1>6
  <2> QED  BY <1>1, <1>4, <1>6, <2>1 DEF OneAtATime, Unfinished
<1>11. ActedOnce'
  <2>1. ASSUME ~stale', key # NoOp PROVE fetched'[key] = 0
    <3>1. key \in Ops /\ key # o  BY <1>1, <1>3, <1>6, <2>1, Named DEF OneAtATime
    <3> QED  BY <1>1, <1>2, <1>6, <2>1, <3>1 DEF ActedOnce
  <2>2. ASSUME ~stale', ~handled' PROVE fetched'[o] = 0
    BY <1>1, <1>2, <1>3, <1>6, <2>2 DEF ActedOnce
  <2> QED  BY <1>3, <2>1, <2>2 DEF ActedOnce
<1>12. FetchedOnce'
  <2>1. ASSUME ~stale', NEW p \in Ops PROVE fetched'[p] <= 1
    <3>1. fetched[p] <= 1  BY <1>1, <1>6, <2>1 DEF FetchedOnce
    <3>2. p = o /\ ~handled => fetched[p] = 0  BY <1>1, <1>3, <1>6, <2>1 DEF ActedOnce
    <3> QED  BY <1>1, <1>2, <3>1, <3>2
  <2> QED  BY <1>2, <1>4, <2>1 DEF FetchedOnce
<1> QED  BY <1>7, <1>8, <1>9, <1>10, <1>11, <1>12 DEF PageInv

LEMMA HearSteps ==
  ASSUME IInv, HearCompletion \/ \E p \in polls : HearStatus(p)
  PROVE  PageInv'
<1>1. /\ PageTyped /\ Known /\ status \in [Ops -> Statuses] /\ \A p \in polls : PollOK(p, status)
  BY AtHand
<1>2. \A got \in Views : Act(got, handled) \in BOOLEAN  BY DEF Act
<1>3. ASSUME NEW p \in polls, HearStatus(p) PROVE PageInv'
  <2>1. /\ p.op \in Ops /\ p.got \in Views \ {"none"} /\ status[p.op] # "none" /\ url # NoOp
        /\ p.got \in Outcomes => p.got = View(status[p.op])
    BY <1>1 DEF PollOK, Known
  <2>2. /\ Update(p.op, p.got, handled) /\ stale' = (stale \/ p.op # current.op)
        /\ timer' = (p.got = "working" \/ (timer /\ ~Act(p.got, handled)))
        /\ watch' \in {watch, NoOp} /\ polls' \subseteq polls
        /\ UNCHANGED <<svars, client, click, key, url>>
    BY <1>3 DEF HearStatus
  <2>3. timer' \in BOOLEAN  BY <2>2
  <2> QED  BY <2>1, <2>2, <2>3, HeardStep
<1>4. CASE HearCompletion
  <2>1. /\ watch \in Ops /\ status[watch] # "none" /\ View(status[watch]) \in Views \ {"none"}
        /\ url # NoOp
    BY <1>1, <1>4, Named, ViewFacts DEF HearCompletion, Known
  <2>2. /\ Update(watch, View(status[watch]), handled) /\ stale' = (stale \/ watch # current.op)
        /\ timer' = (timer /\ ~Act(View(status[watch]), handled))
        /\ watch' \in {watch, NoOp} /\ polls' \subseteq polls
        /\ UNCHANGED <<svars, client, click, key, url>>
    BY <1>4 DEF HearCompletion
  <2>3. timer' \in BOOLEAN  BY <2>2
  <2> QED  BY <2>1, <2>2, <2>3, HeardStep
<1> QED  BY <1>3, <1>4

LEMMA StartedStep ==
  ASSUME IInv, Started
  PROVE  PageInv'
<1>1. /\ PageTyped /\ Known /\ HeardIsTrue /\ OneAtATime /\ ActedOnce /\ FetchedOnce
      /\ status \in [Ops -> Statuses] /\ fetched \in [Ops -> Nat] /\ NoOp \notin Ops
      /\ \A p \in polls : PollOK(p, status)
  BY AtHand
<1>2. /\ click.pc = "answered" /\ click' = Idle /\ key' = NoOp /\ url' = key /\ timer' = FALSE
      /\ Update(key, click.got, FALSE)
      /\ watch' \in {key, NoOp} /\ (polls' = polls \/ Poll(key))
      /\ UNCHANGED <<svars, client, stale>>
  BY DEF Started
<1>3. /\ key \in Ops /\ key # NoOp /\ status[key] # "none" /\ click.got \in Views \ {"none"}
      /\ click.got \in Outcomes => click.got = View(status[key])
  BY <1>1, <1>2, Named DEF PageTyped, Known, HeardIsTrue, Idle
<1>4. /\ current' = [op |-> key, got |-> click.got] /\ handled' \in BOOLEAN
      /\ fetched' \in [Ops -> Nat]
      /\ \A p \in Ops : fetched'[p] > 0 => status[p] = "succeeded"
      /\ \A p \in Ops \ {key} : fetched'[p] = fetched[p]
      /\ fetched[key] = 0 => fetched'[key] <= 1
      /\ ~handled' => fetched'[key] = fetched[key]
  BY <1>2, <1>3, UpdateFacts
<1>5. current'.op = key /\ current'.got = click.got  BY <1>4
<1>6. status' = status  BY <1>2 DEF svars
<1>7. \A p \in polls' : PollOK(p, status)
  BY <1>1, <1>2, <1>3, NewPoll DEF Poll
<1>8. Idle \in [pc : {"idle", "asked", "answered"}, got : Views] /\ Idle.pc = "idle"
  BY DEF Idle, Views
<1>9. PageTyped'
  <2>1. current' \in [op : Ops \union {NoOp}, got : Views]  BY <1>3, <1>4
  <2>2. polls' \in SUBSET [op : Ops, got : Views]  BY <1>7 DEF PollOK
  <2> QED  BY <1>1, <1>2, <1>4, <1>8, <2>1, <2>2 DEF PageTyped
<1>10. Known'
  <2>1. \A p \in polls' : p.got # "none" /\ status[p.op] # "none"  BY <1>7 DEF PollOK
  <2> QED  BY <1>2, <1>3, <1>5, <1>6, <1>8, <2>1 DEF Known
<1>11. HeardIsTrue'
  <2>1. \A p \in polls' : p.got \in Outcomes => p.got = View(status[p.op])  BY <1>7 DEF PollOK
  <2> QED  BY <1>2, <1>3, <1>5, <1>6, <1>8, <2>1 DEF HeardIsTrue
<1>12. OneAtATime'
  <2>1. ASSUME ~stale, client = "page", NEW o \in Ops, Unfinished(o) PROVE o = key
    BY <1>1, <1>3, <2>1 DEF OneAtATime, Unfinished
  <2> QED  BY <1>2, <1>5, <1>6, <2>1 DEF OneAtATime, Unfinished
<1>13. ~stale => fetched[key] = 0  BY <1>1, <1>3 DEF ActedOnce
<1>14. ActedOnce'  BY <1>2, <1>4, <1>5, <1>13 DEF ActedOnce
<1>15. FetchedOnce'
  <2>1. ASSUME ~stale', NEW p \in Ops PROVE fetched'[p] <= 1
    <3>1. fetched[p] <= 1  BY <1>1, <1>2, <2>1 DEF FetchedOnce
    <3> QED  BY <1>2, <1>3, <1>4, <1>13, <2>1, <3>1
  <2> QED  BY <1>4, <1>6, <2>1 DEF FetchedOnce
<1> QED  BY <1>9, <1>10, <1>11, <1>12, <1>14, <1>15 DEF PageInv

\* A poll is sent; behind a DELETE, or when the timer fires.
LEMMA PollSteps ==
  ASSUME IInv, AskStatus \/ CancelCurrent
  PROVE  PageInv'
<1>1. /\ ServerInv /\ PageTyped /\ Known /\ HeardIsTrue /\ OneAtATime /\ ActedOnce /\ FetchedOnce
      /\ status \in [Ops -> Statuses] /\ fetched \in [Ops -> Nat] /\ NoOp \notin Ops
      /\ \A p \in polls : PollOK(p, status)
  BY AtHand
<1>2. /\ status' \in [Ops -> Statuses] /\ Onward /\ Nothing
      /\ UNCHANGED <<client, click, key, current, url, handled, watch, fetched, stale>>
      /\ timer' \in {timer, FALSE}
      /\ \/ polls' = polls
         \/ /\ polls' = polls \union {[op |-> url, got |-> View(status'[url])]}
            /\ Busy
  <2>1. CASE AskStatus
    <3>1. status' = status  BY <2>1 DEF AskStatus, svars
    <3> QED  BY <1>1, <2>1, <3>1 DEF AskStatus, Poll, Onward, Nothing
  <2>2. CASE CancelCurrent
    <3>1. Busy /\ Cancel(url) /\ url \in Ops  BY <2>2, Named DEF CancelCurrent
    <3>2. Onward /\ Nothing  BY <1>1, <3>1, CancelMoves
    <3>3. status' \in [Ops -> Statuses]  BY <1>1, <3>1 DEF Cancel, Statuses, Ended
    <3> QED  BY <2>2, <3>1, <3>2, <3>3 DEF CancelCurrent
  <2> QED  BY <2>1, <2>2
<1>3. \A o \in Ops : /\ status[o] # "none" => status'[o] # "none"
                     /\ View(status[o]) \in Outcomes => View(status'[o]) = View(status[o])
  BY <1>1, <1>2, ViewFacts DEF Onward
<1>4. \A p \in polls' : PollOK(p, status')
  <2>1. \A p \in polls : PollOK(p, status')  BY <1>1, <1>3 DEF PollOK
  <2>2. Busy => url \in Ops /\ status'[url] # "none"
    BY <1>1, <1>3, Named DEF Known
  <2> QED  BY <1>2, <2>1, <2>2, NewPoll
<1>5. PageTyped'
  <2>1. polls' \in SUBSET [op : Ops, got : Views]  BY <1>4 DEF PollOK
  <2> QED  BY <1>1, <1>2, <2>1 DEF PageTyped
<1>6. Known'
  <2>1. \A p \in polls' : p.got # "none" /\ status'[p.op] # "none"  BY <1>4 DEF PollOK
  <2>2. click.pc = "answered" => key \in Ops  BY Named DEF Idle
  <2> QED  BY <1>1, <1>2, <1>3, <2>1, <2>2, Named DEF Known
<1>7. HeardIsTrue'
  <2>1. \A p \in polls' : p.got \in Outcomes => p.got = View(status'[p.op])  BY <1>4 DEF PollOK
  <2>2. click.pc = "answered" => key \in Ops  BY Named DEF Idle
  <2>3. current.got \in Outcomes => current.op \in Ops  BY <1>1, Named DEF Known, Outcomes
  <2> QED  BY <1>1, <1>2, <1>3, <2>1, <2>2, <2>3 DEF HeardIsTrue
<1>8. OneAtATime'
  <2>1. \A o \in Ops : status[o] \in Ended => status'[o] \in Ended  BY <1>2 DEF Onward
  <2>2. \A o \in Ops : Unfinished(o)' => Unfinished(o)  BY <1>2 DEF Unfinished, Onward, Nothing
  <2> QED  BY <1>1, <1>2, <2>1, <2>2, Named DEF OneAtATime
<1>9. ActedOnce'  BY <1>1, <1>2 DEF ActedOnce
<1>10. FetchedOnce'
  <2>1. \A o \in Ops : status[o] = "succeeded" => status'[o] = "succeeded"
    BY <1>2 DEF Onward, Ended
  <2> QED  BY <1>1, <1>2, <2>1 DEF FetchedOnce
<1> QED  BY <1>5, <1>6, <1>7, <1>8, <1>9, <1>10 DEF PageInv

-----------------------------------------------------------------------------
(* The theorems *)

LEMMA PageInitial == Init => IInv
<1> SUFFICES ASSUME Init PROVE IInv
  OBVIOUS
<1>1. ServerInv  BY ServerInitial DEF Init
<1>2. PageTyped
  BY DEF Init, PageTyped, Idle, NoExport, Views
<1>3. \A o \in Ops : status[o] = "none"  BY DEF Init, ServerInit
<1>4. Known /\ HeardIsTrue  BY DEF Init, Known, HeardIsTrue, Idle, NoExport, Outcomes
<1>5. OneAtATime  BY <1>3 DEF Init, OneAtATime, Unfinished, NoExport
<1>6. ActedOnce /\ FetchedOnce  BY DEF Init, ActedOnce, FetchedOnce, NoExport
<1> QED  BY <1>1, <1>2, <1>4, <1>5, <1>6, InvSplit DEF PageInv

LEMMA PageStep == IInv /\ [Next]_vars => IInv'
<1> SUFFICES ASSUME IInv, [Next]_vars PROVE ServerInv' /\ PageInv'
  BY DEF IInv, PageInv, TypeOK, PageTyped, ServerInv
<1>1. ServerInv'
  <2>1. ServerInv /\ [ServerNext]_svars  BY PageIsClient, InvSplit
  <2> QED  BY <2>1, ServerStep
<1>2. PageInv'
  <2>1. CASE (Background \/ Script) /\ UNCHANGED <<client, uvars>>
    <3>1. (Background \/ Script) /\ UNCHANGED <<client, uvars>>  BY <2>1
    <3> QED  BY <3>1, ServerMoves
  <2>2. CASE Dashboard
    BY <2>2, ClickStep, SubmitKeyStep, LostSteps, StartedStep, HearSteps, PollSteps DEF Dashboard
  <2>3. CASE UNCHANGED vars
    <3>1. PageInv  BY InvSplit
    <3>2. UNCHANGED <<status, client, click, key, current, url, handled, timer, polls, watch, fetched, stale>>
      BY <2>3 DEF vars
    <3>3. PageTyped'  BY <3>1, <3>2 DEF PageInv, PageTyped
    <3>4. Known' /\ HeardIsTrue'  BY <3>1, <3>2 DEF PageInv, Known, HeardIsTrue
    <3>5. OneAtATime' /\ ActedOnce' /\ FetchedOnce'
      BY <3>1, <3>2 DEF PageInv, OneAtATime, ActedOnce, FetchedOnce, Unfinished
    <3> QED  BY <3>3, <3>4, <3>5 DEF PageInv
  <2> QED  BY <2>1, <2>2, <2>3 DEF Next
<1> QED  BY <1>1, <1>2

\* The page's inductive invariant: one key or one unfinished export at a time, and
\* what the page has heard is so (exports.js).
THEOREM PageInvariance == Spec => []IInv
<1> QED  BY PageInitial, PageStep, PTL DEF Spec

\* A page with its polls, its stream, its lost answers and its cancellations does
\* nothing to the server but submit and cancel, so what holds of the server with
\* any client holds with this one (exports.js, exports_api.go:37-57).
THEOREM PageUsesServer == Spec => ServerSpec
<1>1. Init => ServerInit  BY DEF Init
<1> QED  BY PageInvariance, PageIsClient, <1>1, PTL DEF Spec, ServerSpec

\* The variables of the page and of the server keep their types (exports.js).
THEOREM PageTypes == Spec => []TypeOK
<1>1. IInv => TypeOK  BY DEF IInv
<1> QED  BY PageInvariance, <1>1, PTL

\* Unless an answer came late, an export is downloaded once, and never before it
\* has succeeded, whoever the page hears it from first (exports.js:98-114).
THEOREM PageFetchesOnce == Spec => []FetchedOnce
<1>1. IInv => FetchedOnce  BY DEF IInv
<1> QED  BY PageInvariance, <1>1, PTL

\* A key that is kept until an answer confirms it never leaves two exports of a
\* page unfinished (exports.js:4-21).
THEOREM PageRunsOne == Spec => []OneUnfinished
<1>1. IInv => OneUnfinished
  <2> SUFFICES ASSUME IInv, client = "page", ~stale,
                      NEW o \in Ops, NEW p \in Ops, Unfinished(o), Unfinished(p)
               PROVE  o = p
    BY DEF OneUnfinished
  <2>1. o \in {key, current.op} /\ p \in {key, current.op}  BY DEF IInv, OneAtATime
  <2>2. key # NoOp /\ current.op # NoOp => ~Unfinished(current.op)
    BY DEF IInv, OneAtATime, Unfinished
  <2>3. o # NoOp /\ p # NoOp  BY ExportAssumption
  <2> QED  BY <2>1, <2>2, <2>3
<1> QED  BY PageInvariance, <1>1, PTL

\* Exports that a page asked for are exact, too, if nothing moved
\* (exports_job.go:44-65).
THEOREM PageExportsExact == Spec => []SteadyExported
<1> QED  BY PageUsesServer, SteadyExportsExact, PTL

\* What the page asked for ends once, and its download stays the same
\* (exports.js, exports_api.go:70-97).
THEOREM PageIsPromised == Spec => ImplementsOutcome
<1> QED  BY PageUsesServer, ServerKeepsPromise, PTL
=============================================================================
