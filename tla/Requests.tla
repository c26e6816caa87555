------------------------------- MODULE Requests -------------------------------
(***************************************************************************)
(* The request engine of AsyncBridgeClient (client.py): _send_request, the *)
(* table _pending of futures it keeps, the deadline timers, the background *)
(* send tasks, and the half of the reader that settles futures.            *)
(*                                                                         *)
(* A coroutine runs between two awaits without interruption, so each       *)
(* action is one such stretch of code.  A future that is set only makes    *)
(* the task that awaits it runnable: the task's own step comes later, and  *)
(* anything may happen in between.  Task.cancel() likewise takes effect at *)
(* the task's next step.                                                   *)
(***************************************************************************)
EXTENDS Naturals, Sequences

CONSTANTS
  Req,        \* the request ids one client hands out
  Timed,      \* the requests sent with a deadline (timeout is not None)
  MaxAnswers  \* bound: answers the bridge gives to one request

ASSUME TimedAssumption == Timed \subseteq Req
ASSUME MaxAnswersAssumption == MaxAnswers \in Nat

VARIABLES
  state,       \* _state, from the moment connect() has succeeded
  link,        \* the socket: "up" or "down"
  task,        \* the coroutine _send_request of each request
  future,      \* the future in its _Pending record
  interrupted, \* tasks that have been cancelled and will raise at their next step
  pending,     \* the keys of _pending
  timer,       \* the requests whose timer handle is armed
  send,        \* the background task running ws.send
  outcome,     \* what _send_request returned or raised
  asked,       \* the requests whose frame the bridge has received
  said,        \* per request: the answers the bridge has given, in order
  inbox,       \* answer frames on their way to the reader
  late         \* late_responses

clientVars == <<state, task, future, interrupted, pending, timer, send, outcome, late>>
bridgeVars == <<asked, said, inbox>>
vars == <<clientVars, link, bridgeVars>>

AnswerKinds == {"result", "error"}

\* A future that is neither absent nor unset is done.
FutureDone(r) == future[r] \notin {"none", "unset"}

Running(r) == task[r] \in {"waiting", "awaiting"}

TypeOK ==
  /\ state \in {"open", "closing", "closed"}
  /\ link \in {"up", "down"}
  /\ task \in [Req -> {"new", "waiting", "awaiting", "done"}]
  /\ future \in [Req -> {"none", "unset", "result", "error", "timeout", "closed", "cancelled"}]
  /\ interrupted \in SUBSET Req
  /\ pending \in SUBSET Req
  /\ timer \in SUBSET Timed
  /\ send \in [Req -> {"none", "running", "sent", "closed", "failed"}]
  /\ outcome \in [Req -> {"none", "refused", "too_large", "result", "error", "timeout",
                          "closed", "cancelled", "send_error"}]
  /\ asked \in SUBSET Req
  /\ said \in [Req -> Seq(AnswerKinds)]
  /\ inbox \in Seq([id : Req, kind : AnswerKinds])
  /\ late \in Nat

Init ==
  /\ state = "open"
  /\ link = "up"
  /\ task = [r \in Req |-> "new"]
  /\ future = [r \in Req |-> "none"]
  /\ interrupted = {}
  /\ pending = {}
  /\ timer = {}
  /\ send = [r \in Req |-> "none"]
  /\ outcome = [r \in Req |-> "none"]
  /\ asked = {}
  /\ said = [r \in Req |-> <<>>]
  /\ inbox = <<>>
  /\ late = 0

-------------------------------------------------------------------------------
(* The caller's side *)

\* Start, had it armed a timer although timeout is None.
StartAlwaysTimed(r) ==
  /\ task[r] = "new"
  /\ state = "open"
  /\ task' = [task EXCEPT ![r] = "waiting"]
  /\ future' = [future EXCEPT ![r] = "unset"]
  /\ pending' = pending \cup {r}
  /\ timer' = timer \cup {r}
  /\ send' = [send EXCEPT ![r] = "running"]
  /\ UNCHANGED <<state, link, interrupted, outcome, late, bridgeVars>>

\* _require_open passes, the frame fits: the future is registered, its timer
\* armed and the send task created before the first await.
Start(r) ==
  /\ task[r] = "new"
  /\ state = "open"
  /\ task' = [task EXCEPT ![r] = "waiting"]
  /\ future' = [future EXCEPT ![r] = "unset"]
  /\ pending' = pending \cup {r}
  /\ timer' = timer \cup ({r} \cap Timed)
  /\ send' = [send EXCEPT ![r] = "running"]
  /\ UNCHANGED <<state, link, interrupted, outcome, late, bridgeVars>>

\* _require_open raises, or the frame exceeds max_request_size: nothing is
\* registered and nothing is sent.
Refuse(r) ==
  /\ task[r] = "new"
  /\ \/ /\ state # "open"
        /\ outcome' = [outcome EXCEPT ![r] = "refused"]
     \/ /\ state = "open"
        /\ outcome' = [outcome EXCEPT ![r] = "too_large"]
  /\ task' = [task EXCEPT ![r] = "done"]
  /\ UNCHANGED <<state, link, future, interrupted, pending, timer, send, late, bridgeVars>>

\* Finish, had the finally clause left the entry of a cancelled request.
FinishKeepingEntry(r, how) ==
  /\ task' = [task EXCEPT ![r] = "done"]
  /\ outcome' = [outcome EXCEPT ![r] = how]
  /\ timer' = timer \ {r}
  /\ pending' = IF how = "cancelled" THEN pending ELSE pending \ {r}
  /\ future' = [future EXCEPT ![r] = IF @ = "unset" THEN "cancelled" ELSE @]
  /\ interrupted' = interrupted \ {r}

\* The finally clause: the timer is cancelled, the entry dropped, a future
\* nobody set is cancelled; the coroutine ends with `how`.
Finish(r, how) ==
  /\ task' = [task EXCEPT ![r] = "done"]
  /\ outcome' = [outcome EXCEPT ![r] = how]
  /\ timer' = timer \ {r}
  /\ pending' = pending \ {r}
  /\ future' = [future EXCEPT ![r] = IF @ = "unset" THEN "cancelled" ELSE @]
  /\ interrupted' = interrupted \ {r}

\* WaitReturns, had it raised the ConnectionClosed of the send at once instead
\* of leaving the verdict to the reader.
WaitReturnsOnClosedSend(r) ==
  /\ task[r] = "waiting"
  /\ r \notin interrupted
  /\ \/ send[r] = "closed" /\ Finish(r, "closed")
     \/ send[r] # "closed" /\ FutureDone(r) /\ Finish(r, future[r])
  /\ UNCHANGED <<state, link, send, late, bridgeVars>>

\* asyncio.wait returns: the send has finished or the future is set.
WaitReturns(r) ==
  /\ task[r] = "waiting"
  /\ r \notin interrupted
  /\ send[r] # "running" \/ FutureDone(r)
  /\ \/ /\ send[r] = "failed"
        /\ Finish(r, "send_error")
     \/ /\ send[r] # "failed"
        /\ FutureDone(r)
        /\ Finish(r, future[r])
     \/ /\ send[r] # "failed"
        /\ ~FutureDone(r)
        /\ task' = [task EXCEPT ![r] = "awaiting"]
        /\ UNCHANGED <<future, interrupted, pending, timer, outcome>>
  /\ UNCHANGED <<state, link, send, late, bridgeVars>>

\* `return await pending.future` resumes with the future's outcome.
AwaitReturns(r) ==
  /\ task[r] = "awaiting"
  /\ r \notin interrupted
  /\ FutureDone(r)
  /\ Finish(r, future[r])
  /\ UNCHANGED <<state, link, send, late, bridgeVars>>

\* The caller's task is cancelled.  While it awaits the future itself, the
\* cancellation goes to the future first; otherwise it only marks the task.
Cancel(r) ==
  /\ Running(r)
  /\ r \notin interrupted
  /\ interrupted' = interrupted \cup {r}
  /\ future' = [future EXCEPT ![r] = IF task[r] = "awaiting" /\ @ = "unset" THEN "cancelled" ELSE @]
  /\ UNCHANGED <<state, link, task, pending, timer, send, outcome, late, bridgeVars>>

\* The CancelledError is raised inside _send_request.
RaiseCancelled(r) ==
  /\ Running(r)
  /\ r \in interrupted
  /\ Finish(r, "cancelled")
  /\ UNCHANGED <<state, link, send, late, bridgeVars>>

\* _expire, run by the loop when the deadline passes.
Expire(r) ==
  /\ r \in timer
  /\ timer' = timer \ {r}
  /\ pending' = pending \ {r}
  /\ future' = [future EXCEPT ![r] = IF r \in pending /\ @ = "unset" THEN "timeout" ELSE @]
  /\ UNCHANGED <<state, link, task, interrupted, send, outcome, late, bridgeVars>>

-------------------------------------------------------------------------------
(* The background send task: it may be held back by a full socket *)

SendCompletes(r) ==
  /\ send[r] = "running"
  /\ \/ /\ link = "up"
        /\ send' = [send EXCEPT ![r] = "sent"]
        /\ asked' = asked \cup {r}
     \/ /\ link = "down" \/ state = "closing"
        /\ send' = [send EXCEPT ![r] = "closed"]
        /\ UNCHANGED asked
     \/ /\ send' = [send EXCEPT ![r] = "failed"]
        /\ UNCHANGED asked
  /\ UNCHANGED <<state, link, task, future, interrupted, pending, timer, outcome, late, said, inbox>>

-------------------------------------------------------------------------------
(* The bridge: answers in any order, perhaps twice, perhaps never *)

BridgeAnswers(r) ==
  /\ link = "up"
  /\ r \in asked
  /\ Len(said[r]) < MaxAnswers
  /\ \E k \in AnswerKinds :
        /\ said' = [said EXCEPT ![r] = Append(@, k)]
        /\ inbox' = Append(inbox, [id |-> r, kind |-> k])
  /\ UNCHANGED <<clientVars, link, asked>>

-------------------------------------------------------------------------------
(* The reader *)

\* Receive, had _dispatch looked the entry up instead of popping it, and kept
\* the answer in the entry until the coroutine takes it.
ReceiveWithoutPop ==
  /\ state # "closed"
  /\ inbox # <<>>
  /\ inbox' = Tail(inbox)
  /\ future' = [future EXCEPT ![Head(inbox).id] = IF Head(inbox).id \in pending THEN Head(inbox).kind ELSE @]
  /\ UNCHANGED <<state, link, task, interrupted, pending, timer, send, outcome, late, asked, said>>

\* _dispatch of a response frame.
Receive ==
  /\ state # "closed"
  /\ inbox # <<>>
  /\ inbox' = Tail(inbox)
  /\ LET r == Head(inbox).id IN
       /\ pending' = pending \ {r}
       /\ IF r \in pending
            THEN /\ timer' = timer \ {r}
                 /\ future' = [future EXCEPT ![r] = IF @ = "unset" THEN Head(inbox).kind ELSE @]
                 /\ UNCHANGED late
            ELSE /\ late' = late + 1
                 /\ UNCHANGED <<timer, future>>
  /\ UNCHANGED <<state, link, task, interrupted, send, outcome, asked, said>>

\* The socket goes down; the frames the reader has not buffered are lost.
LinkDown ==
  /\ link = "up"
  /\ link' = "down"
  /\ \E n \in 0 .. Len(inbox) : inbox' = SubSeq(inbox, 1, n)
  /\ UNCHANGED <<clientVars, asked, said>>

\* aclose() starts the closing handshake; the reader lives on until it ends.
AClose ==
  /\ state = "open"
  /\ state' = "closing"
  /\ UNCHANGED <<task, future, interrupted, pending, timer, send, outcome, late, link, bridgeVars>>

\* OnDisconnect, had it left the requests whose send has not finished to the
\* failure of that send.
OnDisconnectSentOnly ==
  /\ state' = "closed"
  /\ future' = [r \in Req |-> IF r \in pending /\ future[r] = "unset" /\ send[r] # "running"
                              THEN "closed" ELSE future[r]]
  /\ timer' = timer \ pending
  /\ pending' = {}
  /\ UNCHANGED <<task, interrupted, send, outcome, late, asked, said>>

\* _on_disconnect: every future still in the table is settled.
OnDisconnect ==
  /\ state' = "closed"
  /\ future' = [r \in Req |-> IF r \in pending /\ future[r] = "unset" THEN "closed" ELSE future[r]]
  /\ timer' = timer \ pending
  /\ pending' = {}
  /\ UNCHANGED <<task, interrupted, send, outcome, late, asked, said>>

\* recv() raises once what was buffered has been read.
ReaderEnds ==
  /\ state # "closed"
  /\ link = "down"
  /\ inbox = <<>>
  /\ OnDisconnect
  /\ UNCHANGED <<link, inbox>>

\* The reader task is cancelled (the loop is being torn down): it aborts the
\* transport and disconnects at once.
ReaderCancelled ==
  /\ state # "closed"
  /\ OnDisconnect
  /\ link' = "down"
  /\ inbox' = <<>>

-------------------------------------------------------------------------------

Caller(r) == Start(r) \/ Refuse(r) \/ Cancel(r)

TaskStep(r) == WaitReturns(r) \/ AwaitReturns(r) \/ RaiseCancelled(r)

Next ==
  \/ \E r \in Req :
        \/ Caller(r) \/ TaskStep(r) \/ Expire(r)
        \/ SendCompletes(r) \/ BridgeAnswers(r)
  \/ Receive
  \/ LinkDown
  \/ AClose
  \/ ReaderEnds
  \/ ReaderCancelled

Spec == Init /\ [][Next]_vars

\* The event loop runs every ready task and every due timer, and the reader
\* is one of its tasks.  Nothing is assumed of the bridge, of the socket (a
\* send may be stuck for ever) or of the callers.
Fairness ==
  /\ \A r \in Req : WF_vars(TaskStep(r)) /\ WF_vars(Expire(r))
  /\ WF_vars(Receive)
  /\ WF_vars(ReaderEnds)

FairSpec == Spec /\ Fairness

-------------------------------------------------------------------------------
(* Properties *)

\* No caller waits on a future that nothing will set: while _send_request is
\* suspended on an unset future, the reader can still find that future in
\* _pending, and the connection has not ended.  The ways to break it are a
\* response, a timer and a disconnect that overlap.
NoOrphanedWaiter ==
  \A r \in Req : Running(r) /\ future[r] = "unset" => r \in pending /\ state # "closed"

\* in_flight returns to zero: the table holds only requests whose coroutine
\* is still suspended, and a timer is armed only for such a request, so a
\* deadline can never strike a request that was settled before.
NothingLeaks ==
  /\ \A r \in pending : Running(r)
  /\ timer \subseteq pending

\* When the bridge answers a request twice, the first answer is the one the
\* caller gets; a later one never overwrites it.
FirstAnswerWins ==
  \A r \in Req : outcome[r] \in AnswerKinds => said[r] # <<>> /\ outcome[r] = Head(said[r])

\* What the caller can observe of a request: the phase it is in, and the
\* kinds of answer the bridge has given it.
PhaseOf(r) ==
  IF task[r] = "new" THEN "idle" ELSE IF Running(r) THEN "live" ELSE "settled"

Said(r) == {said[r][i] : i \in 1 .. Len(said[r])}

\* The request engine keeps the promise RequestContract states.
Contract == INSTANCE RequestContract WITH
  phase   <- [r \in Req |-> PhaseOf(r)],
  verdict <- outcome,
  said    <- [r \in Req |-> Said(r)],
  ended   <- state = "closed"

ImplementsContract == Contract!FairSpec

\* Its safety part alone.
ImplementsContractSafely == Contract!Spec
===============================================================================
