-------------------------------- MODULE Portal --------------------------------
(***************************************************************************)
(* BlockingPortal (portal.py): blocking calls from any thread, run as      *)
(* tasks of a private event loop that stop() tears down.                   *)
(*                                                                         *)
(* Threads interleave at every action.  The loop thread is modelled at the *)
(* grain of asyncio's handles: run_forever() takes the handles that are    *)
(* ready, runs them in order, and looks at its stop flag only then.  What  *)
(* was posted meanwhile waits for the next lap, if there is one.           *)
(***************************************************************************)
EXTENDS Naturals, Sequences

CONSTANTS
  Call,  \* the blocking calls made over the life of the portal
  Timed  \* those made with call_with_timeout() and a timeout

ASSUME TimedAssumption == Timed \subseteq Call

VARIABLES
  stopped,   \* _PortalCore.stopped
  stopper,   \* the thread in shutdown(): how far it is
  loop,      \* what the loop thread is doing
  halting,   \* the loop's own stop flag
  ready,     \* the handles waiting to be run
  batch,     \* how many of them belong to the current lap
  caller,    \* per call: the calling thread
  outcome,   \* per call: what the caller got
  future,    \* per call: the concurrent future the caller waits on
  task,      \* per call: its task on the loop
  torn,      \* the tasks the teardown has cancelled
  laps,      \* the laps left before the loop is closed
  overtaken  \* the calls posted after stop() had begun

loopVars == <<loop, halting, ready, batch, task, torn, laps>>
callVars == <<caller, outcome, overtaken>>
vars == <<stopped, stopper, loopVars, callVars, future>>

\* shutdown_asyncgens() and shutdown_default_executor(), with nothing to shut
\* down: two laps each.
DrainLaps == 4

Over(c) == task[c] \in {"finished", "cancelled"}

Unfinished == {c \in Call : task[c] \in {"scheduled", "suspended", "cancelling"}}

\* A handle names what it does and to which call.
Handles == ({"create", "step", "cancel", "settle"} \X Call) \cup {<<"stop">>}

TypeOK ==
  /\ stopped \in BOOLEAN
  /\ stopper \in {"idle", "marked", "posted"}
  /\ loop \in {"running", "cancelling", "gathering", "draining", "closed"}
  /\ halting \in BOOLEAN
  /\ ready \in Seq(Handles)
  /\ batch \in Nat /\ batch <= Len(ready)
  /\ caller \in [Call -> {"idle", "checked", "waiting", "returned"}]
  /\ outcome \in [Call -> {"none", "refused", "result", "stopped", "cancelled", "timeout"}]
  /\ future \in [Call -> {"none", "pending", "result", "cancelled"}]
  /\ task \in [Call -> {"none", "scheduled", "suspended", "cancelling", "finished", "cancelled"}]
  /\ torn \in SUBSET Call
  /\ laps \in 0 .. DrainLaps
  /\ overtaken \in SUBSET Call

Init ==
  /\ stopped = FALSE
  /\ stopper = "idle"
  /\ loop = "running"
  /\ halting = FALSE
  /\ ready = <<>>
  /\ batch = 0
  /\ caller = [c \in Call |-> "idle"]
  /\ outcome = [c \in Call |-> "none"]
  /\ future = [c \in Call |-> "none"]
  /\ task = [c \in Call |-> "none"]
  /\ torn = {}
  /\ laps = 0
  /\ overtaken = {}

Return(c, how) ==
  /\ caller' = [caller EXCEPT ![c] = "returned"]
  /\ outcome' = [outcome EXCEPT ![c] = how]

-------------------------------------------------------------------------------
(* The calling threads *)

\* _check_stopped: nothing keeps the portal from being stopped afterwards.
Check(c) ==
  /\ caller[c] = "idle"
  /\ \/ /\ ~stopped
        /\ caller' = [caller EXCEPT ![c] = "checked"]
        /\ UNCHANGED outcome
     \/ /\ stopped
        /\ Return(c, "refused")
  /\ UNCHANGED <<stopped, stopper, loopVars, future, overtaken>>

\* run_coroutine_threadsafe; on a closed loop it raises RuntimeError, which
\* submit() turns into PortalStopped.
Post(c) ==
  /\ caller[c] = "checked"
  /\ \/ /\ loop # "closed"
        /\ ready' = Append(ready, <<"create", c>>)
        /\ future' = [future EXCEPT ![c] = "pending"]
        /\ caller' = [caller EXCEPT ![c] = "waiting"]
        /\ overtaken' = IF stopped THEN overtaken \cup {c} ELSE overtaken
        /\ UNCHANGED outcome
     \/ /\ loop = "closed"
        /\ Return(c, "refused")
        /\ UNCHANGED <<ready, future, overtaken>>
  /\ UNCHANGED <<stopped, stopper, loop, halting, batch, task, torn, laps>>

\* The timeout passes: the future is cancelled, and with it the task, which
\* takes a handle of its own once the task exists.
TimesOut(c) ==
  /\ c \in Timed
  /\ caller[c] = "waiting"
  /\ future[c] = "pending"
  /\ future' = [future EXCEPT ![c] = "cancelled"]
  /\ ready' = IF task[c] # "none" /\ loop # "closed" THEN Append(ready, <<"cancel", c>>) ELSE ready
  /\ Return(c, "timeout")
  /\ UNCHANGED <<stopped, stopper, loop, halting, batch, task, torn, laps, overtaken>>

\* The future is done: its result is returned; a cancellation becomes
\* PortalStopped if the portal is stopped.
Returns(c) ==
  /\ caller[c] = "waiting"
  /\ \/ future[c] = "result" /\ Return(c, "result")
     \/ future[c] = "cancelled" /\ Return(c, IF stopped THEN "stopped" ELSE "cancelled")
  /\ UNCHANGED <<stopped, stopper, loopVars, future, overtaken>>

-------------------------------------------------------------------------------
(* stop() *)

\* Only the first caller of shutdown() gets past the lock.
MarkStopped ==
  /\ stopper = "idle"
  /\ stopper' = "marked"
  /\ stopped' = TRUE
  /\ UNCHANGED <<loopVars, callVars, future>>

\* PostStop, had it waited for the calls under way.
PostStopWhenIdle ==
  /\ stopper = "marked"
  /\ Unfinished = {}
  /\ stopper' = "posted"
  /\ ready' = Append(ready, <<"stop">>)
  /\ UNCHANGED <<stopped, loop, halting, batch, task, torn, laps, callVars, future>>

PostStop ==
  /\ stopper = "marked"
  /\ stopper' = "posted"
  /\ ready' = Append(ready, <<"stop">>)
  /\ UNCHANGED <<stopped, loop, halting, batch, task, torn, laps, callVars, future>>

-------------------------------------------------------------------------------
(* The loop thread *)

Settling(c) == \E i \in DOMAIN ready : ready[i] = <<"settle", c>>

\* gather() is done once the tasks it waits for are, and the callbacks they
\* had before have run.
GatherDone == \A c \in torn : Over(c) /\ ~Settling(c)

\* Lap, had the last run of the loop been one lap longer than its handles take.
LapOneMore ==
  /\ batch = 0
  /\ \/ loop = "running" /\ ~halting /\ ready # <<>> /\ UNCHANGED laps
     \/ loop = "gathering" /\ ~GatherDone /\ ready # <<>> /\ UNCHANGED laps
     \/ loop = "draining" /\ laps >= 0 /\ laps' = laps - 1
  /\ batch' = Len(ready)
  /\ UNCHANGED <<stopped, stopper, loop, halting, ready, task, torn, callVars, future>>

\* A lap takes what is ready now.
Lap ==
  /\ batch = 0
  /\ \/ loop = "running" /\ ~halting /\ ready # <<>> /\ UNCHANGED laps
     \/ loop = "gathering" /\ ~GatherDone /\ ready # <<>> /\ UNCHANGED laps
     \/ loop = "draining" /\ laps > 0 /\ laps' = laps - 1
  /\ batch' = Len(ready)
  /\ UNCHANGED <<stopped, stopper, loop, halting, ready, task, torn, callVars, future>>

\* The next handle of the lap, with the handles it schedules in turn.
Runs(op, c, scheduled) ==
  /\ batch > 0
  /\ Head(ready) = <<op, c>>
  /\ ready' = Tail(ready) \o scheduled
  /\ batch' = batch - 1
  /\ UNCHANGED <<stopped, stopper, loop, halting, torn, laps, callVars>>

\* The task is created and tied to the future; if that is already cancelled
\* the task will be, though only after its first step.
CreateTask(c) ==
  /\ Runs("create", c,
       IF future[c] = "cancelled" THEN <<<<"step", c>>, <<"cancel", c>>>> ELSE <<<<"step", c>>>>)
  /\ task' = [task EXCEPT ![c] = "scheduled"]
  /\ UNCHANGED future

\* A step of the coroutine: it ends, or waits for something; a cancelled one
\* raises.
StepTask(c) ==
  /\ \/ /\ task[c] = "scheduled"
        /\ \/ Runs("step", c, <<<<"settle", c>>>>) /\ task' = [task EXCEPT ![c] = "finished"]
           \/ Runs("step", c, <<>>) /\ task' = [task EXCEPT ![c] = "suspended"]
     \/ /\ task[c] = "cancelling"
        /\ Runs("step", c, <<<<"settle", c>>>>)
        /\ task' = [task EXCEPT ![c] = "cancelled"]
  /\ UNCHANGED future

\* Task.cancel(): a task that waits is made ready.
CancelTask(c) ==
  /\ Runs("cancel", c, IF task[c] = "suspended" THEN <<<<"step", c>>>> ELSE <<>>)
  /\ task' = [task EXCEPT ![c] = IF Over(c) THEN @ ELSE "cancelling"]
  /\ UNCHANGED future

\* SettleFuture, had it passed results on and left cancellations alone.
SettleResults(c) ==
  /\ Runs("settle", c, <<>>)
  /\ future' = [future EXCEPT ![c] = IF @ = "pending" /\ task[c] = "finished" THEN "result" ELSE @]
  /\ UNCHANGED task

\* SettleFuture, had it cancelled the future of any call once stop() has begun.
SettleUnlessStopped(c) ==
  /\ Runs("settle", c, <<>>)
  /\ future' = [future EXCEPT ![c] = IF @ # "pending" THEN @
                                     ELSE IF task[c] = "finished" /\ ~stopped THEN "result" ELSE "cancelled"]
  /\ UNCHANGED task

\* The outcome of the task becomes that of the future.
SettleFuture(c) ==
  /\ Runs("settle", c, <<>>)
  /\ future' = [future EXCEPT ![c] = IF @ # "pending" THEN @
                                     ELSE IF task[c] = "finished" THEN "result" ELSE "cancelled"]
  /\ UNCHANGED task

StopLoop ==
  /\ batch > 0
  /\ Head(ready) = <<"stop">>
  /\ ready' = Tail(ready)
  /\ batch' = batch - 1
  /\ halting' = TRUE
  /\ UNCHANGED <<stopped, stopper, loop, task, torn, laps, callVars, future>>

\* What the coroutine waits for happens.
Wake(c) ==
  /\ loop # "closed"
  /\ task[c] = "suspended"
  /\ task' = [task EXCEPT ![c] = "scheduled"]
  /\ ready' = Append(ready, <<"step", c>>)
  /\ UNCHANGED <<stopped, stopper, loop, halting, batch, torn, laps, callVars, future>>

\* run_forever() returns at the end of the lap; the teardown begins.
LeaveLoop ==
  /\ loop = "running"
  /\ halting /\ batch = 0
  /\ loop' = "cancelling"
  /\ UNCHANGED <<stopped, stopper, halting, ready, batch, task, torn, laps, callVars, future>>

\* _run_loop cancels every task there is, in no particular order.
TearDown(c) ==
  /\ loop = "cancelling"
  /\ c \in Unfinished \ torn
  /\ torn' = torn \cup {c}
  /\ task' = [task EXCEPT ![c] = "cancelling"]
  /\ ready' = IF task[c] = "suspended" THEN Append(ready, <<"step", c>>) ELSE ready
  /\ UNCHANGED <<stopped, stopper, loop, halting, batch, laps, callVars, future>>

\* All are cancelled; run_until_complete(gather) runs the loop again.
GatherTasks ==
  /\ loop = "cancelling"
  /\ Unfinished \subseteq torn
  /\ loop' = "gathering"
  /\ UNCHANGED <<stopped, stopper, halting, ready, batch, task, torn, laps, callVars, future>>

\* The loop is run a last time, to shut down generators and executors.
Gathered ==
  /\ loop = "gathering"
  /\ batch = 0
  /\ GatherDone
  /\ loop' = "draining"
  /\ laps' = DrainLaps
  /\ UNCHANGED <<stopped, stopper, halting, ready, batch, task, torn, callVars, future>>

\* loop.close() drops the handles that are left.
CloseLoop ==
  /\ loop = "draining"
  /\ laps = 0 /\ batch = 0
  /\ loop' = "closed"
  /\ ready' = <<>>
  /\ UNCHANGED <<stopped, stopper, halting, batch, task, torn, laps, callVars, future>>

-------------------------------------------------------------------------------

RunHandle ==
  \/ \E c \in Call : CreateTask(c) \/ StepTask(c) \/ CancelTask(c) \/ SettleFuture(c)
  \/ StopLoop

LoopThread ==
  \/ Lap \/ RunHandle
  \/ LeaveLoop \/ (\E c \in Call : TearDown(c)) \/ GatherTasks \/ Gathered \/ CloseLoop

Next ==
  \/ \E c \in Call : Check(c) \/ Post(c) \/ TimesOut(c) \/ Returns(c) \/ Wake(c)
  \/ MarkStopped \/ PostStop
  \/ LoopThread

Spec == Init /\ [][Next]_vars

\* Every thread that can run does.  A coroutine may wait for ever, and nobody
\* has to call stop().
Fairness ==
  /\ WF_vars(LoopThread)
  /\ WF_vars(PostStop)
  /\ \A c \in Call : WF_vars(Returns(c))

FairSpec == Spec /\ Fairness

-------------------------------------------------------------------------------
(* Properties *)

Waiting(c) == caller[c] = "waiting" /\ future[c] = "pending"

\* When the loop is closed, no thread is left waiting for a call it had made
\* before stop() began: each of those has its outcome, however many laps its
\* task, its timeout and its result were behind, and nothing of such a call is
\* left on the closed loop.
StopEndsCalls ==
  loop = "closed" => \A c \in Call : Waiting(c) \/ c \in Unfinished => c \in overtaken

\* A call that was refused has never run, and one that returns a result was
\* carried out to the end.  After a timeout the coroutine does not run on:
\* while the loop runs, its task is over or about to be cancelled.
OutcomeIsTrue ==
  \A c \in Call :
    /\ outcome[c] = "refused" => task[c] = "none" /\ stopped
    /\ outcome[c] = "result" => task[c] = "finished"
    /\ outcome[c] = "stopped" => task[c] = "cancelled" /\ stopped
    /\ outcome[c] # "cancelled"
    /\ outcome[c] = "timeout" /\ loop # "closed" =>
         \/ Over(c)
         \/ task[c] = "cancelling"
         \/ \E i \in DOMAIN ready : ready[i] \in {<<"create", c>>, <<"cancel", c>>}

\* Once stop() has been called, every blocking call made before returns.
StopReleasesCallers ==
  \A c \in Call :
    stopped /\ caller[c] = "waiting" /\ c \notin overtaken ~> caller[c] = "returned"

\* portal.py:361 says of stop(): "Stop the loop (cancelling its tasks) and the
\* dispatch thread."; tests/unit/test_portal.py:272 expects of a call that is
\* blocked when stop() runs that it ends: test_stop_ends_blocked_calls.
StopEndsEveryCall == loop = "closed" => \A c \in Call : ~Waiting(c)
===============================================================================
