--------------------------------- MODULE Pump ---------------------------------
(***************************************************************************)
(* PumpHandle and the dispatch thread of BlockingPortal (portal.py): one   *)
(* coroutine on the loop thread reads a source and queues its items, the   *)
(* dispatch thread hands them to a callback, any thread may cancel the     *)
(* handle, and stop() may come at any moment.                              *)
(*                                                                         *)
(* Three threads and a stopper interleave between any two accesses to what *)
(* they share: the stopped flag, the queue, the handle's lock, its         *)
(* cancelled flag and its finished event.                                  *)
(***************************************************************************)
EXTENDS Naturals, Sequences

CONSTANT MaxItems  \* bound: items the source yields

ASSUME MaxItemsAssumption == MaxItems \in Nat

VARIABLES
  stopped,   \* _PortalCore.stopped
  stopper,   \* the thread in shutdown()
  queue,     \* the dispatch queue
  run,       \* the coroutine _run
  job,       \* what it is about to queue
  interrupted, \* its task has been cancelled
  produced,  \* items the source has yielded
  posted,    \* items that have been queued
  runner,    \* the dispatch thread
  taken,     \* the job it has taken from the queue
  lock,      \* the owner of the handle's lock
  heard,     \* the items the callback was called with
  cancelled, \* PumpHandle._cancelled
  finished,  \* PumpHandle._finished
  canceller, \* per thread: its cancel() call
  hooked,    \* on_cancel has been posted to the loop
  atStop     \* items queued when stop() began

loopVars == <<run, job, interrupted, produced, posted>>
dispatchVars == <<runner, taken, heard>>
cancelVars == <<cancelled, canceller, hooked>>
stopVars == <<stopped, stopper, atStop>>
vars == <<stopVars, loopVars, dispatchVars, cancelVars, queue, lock, finished>>

Thread == {"user", "loop", "dispatch"}

Deliveries == {<<"item", n>> : n \in 1 .. MaxItems} \cup {<<"failure">>}
Jobs == Deliveries \cup {<<"finish">>, <<"exit">>}

TypeOK ==
  /\ stopped \in BOOLEAN
  /\ stopper \in {"idle", "marked", "halted", "done"}
  /\ queue \in Seq(Jobs)
  /\ run \in {"new", "next", "posting", "putting", "over", "never"}
  /\ job \in Jobs
  /\ interrupted \in BOOLEAN
  /\ produced \in 0 .. MaxItems
  /\ posted \in 0 .. produced
  /\ runner \in {"idle", "entering", "calling", "reporting", "exited"}
  /\ taken \in Jobs
  /\ lock \in {"none", "dispatch"}
  /\ heard \in Seq(1 .. MaxItems)
  /\ cancelled \in BOOLEAN
  /\ finished \in BOOLEAN
  /\ canceller \in [Thread -> {"no", "first", "again", "flagged", "locked", "done"}]
  /\ hooked \in BOOLEAN
  /\ atStop \in 0 .. posted

Init ==
  /\ stopped = FALSE
  /\ stopper = "idle"
  /\ queue = <<>>
  /\ run = "new"
  /\ job = <<"finish">>
  /\ interrupted = FALSE
  /\ produced = 0
  /\ posted = 0
  /\ runner = "idle"
  /\ taken = <<"finish">>
  /\ lock = "none"
  /\ heard = <<>>
  /\ cancelled = FALSE
  /\ finished = FALSE
  /\ canceller = [t \in Thread |-> "no"]
  /\ hooked = FALSE
  /\ atStop = 0

-------------------------------------------------------------------------------
(* _run, on the loop thread *)

\* The first step of the task, before the loop has stopped.
Start ==
  /\ run = "new"
  /\ run' = "next"
  /\ UNCHANGED <<stopVars, job, interrupted, produced, posted, dispatchVars, cancelVars, queue,
                 lock, finished>>

\* The loop stopped before that: the cancelled task never runs at all.
NeverStart ==
  /\ run = "new"
  /\ stopper \in {"halted", "done"}
  /\ run' = "never"
  /\ UNCHANGED <<stopVars, job, interrupted, produced, posted, dispatchVars, cancelVars, queue,
                 lock, finished>>

\* Go on to queue a job: dispatch() is two steps away.
ToPost(j) == run' = "posting" /\ job' = j

\* The source yields; the item is dropped if the handle is cancelled.
ItemArrives ==
  /\ run = "next" /\ ~interrupted
  /\ produced < MaxItems
  /\ produced' = produced + 1
  /\ ToPost(IF cancelled THEN <<"finish">> ELSE <<"item", produced + 1>>)
  /\ UNCHANGED <<stopVars, interrupted, posted, dispatchVars, cancelVars, queue, lock, finished>>

\* The source ends, or fails, or the task is cancelled.
SourceEnds ==
  /\ run = "next"
  /\ \/ interrupted /\ ToPost(<<"finish">>)
     \/ ~interrupted /\ ToPost(<<"finish">>)
     \/ ~interrupted /\ ToPost(IF cancelled THEN <<"finish">> ELSE <<"failure">>)
  /\ UNCHANGED <<stopVars, interrupted, produced, posted, dispatchVars, cancelVars, queue, lock,
                 finished>>

\* CheckStopped, had _run set the event itself whenever it is done.
CheckStoppedDirect ==
  /\ run = "posting"
  /\ \/ /\ ~stopped /\ job # <<"finish">>
        /\ run' = "putting"
        /\ UNCHANGED <<job, finished>>
     \/ /\ stopped /\ job # <<"finish">>
        /\ ToPost(<<"finish">>)
        /\ UNCHANGED finished
     \/ /\ job = <<"finish">>
        /\ run' = "over"
        /\ finished' = TRUE
        /\ UNCHANGED job
  /\ UNCHANGED <<stopVars, interrupted, produced, posted, dispatchVars, cancelVars, queue, lock>>

\* dispatch() looks at stopped.  PortalStopped ends the loop over the source;
\* in the finally clause it is caught, and the event is set at once.
CheckStopped ==
  /\ run = "posting"
  /\ \/ /\ ~stopped
        /\ run' = "putting"
        /\ UNCHANGED <<job, finished>>
     \/ /\ stopped /\ job # <<"finish">>
        /\ ToPost(<<"finish">>)
        /\ UNCHANGED finished
     \/ /\ stopped /\ job = <<"finish">>
        /\ run' = "over"
        /\ finished' = TRUE
        /\ UNCHANGED job
  /\ UNCHANGED <<stopVars, interrupted, produced, posted, dispatchVars, cancelVars, queue, lock>>

\* Put, had the coroutine put an item again instead of going on.
PutAgain ==
  /\ run = "putting"
  /\ queue' = Append(queue, job)
  /\ posted' = posted + 1
  /\ UNCHANGED <<stopVars, run, job, interrupted, produced, dispatchVars, cancelVars, lock, finished>>

\* ... and then puts the job, whatever has happened since.
Put ==
  /\ run = "putting"
  /\ queue' = Append(queue, job)
  /\ \/ /\ job[1] = "item"
        /\ run' = "next"
        /\ posted' = posted + 1
        /\ UNCHANGED job
     \/ /\ job = <<"failure">>
        /\ ToPost(<<"finish">>)
        /\ UNCHANGED posted
     \/ /\ job = <<"finish">>
        /\ run' = "over"
        /\ UNCHANGED <<job, posted>>
  /\ UNCHANGED <<stopVars, interrupted, produced, dispatchVars, cancelVars, lock, finished>>

\* The teardown of the loop cancels the task where it waits for the source.
TearDown ==
  /\ stopper \in {"halted", "done"}
  /\ run = "next" /\ ~interrupted
  /\ interrupted' = TRUE
  /\ UNCHANGED <<stopVars, run, job, produced, posted, dispatchVars, cancelVars, queue, lock, finished>>

-------------------------------------------------------------------------------
(* The dispatch thread *)

\* Take, had the last job been the first to be served.
TakeLast ==
  /\ runner = "idle"
  /\ queue # <<>>
  /\ LET j == queue[Len(queue)] IN
       /\ queue' = SubSeq(queue, 1, Len(queue) - 1)
       /\ runner' = CASE j = <<"exit">> -> "exited" [] j = <<"finish">> -> "idle" [] OTHER -> "entering"
       /\ taken' = j
       /\ finished' = (finished \/ j = <<"finish">>)
  /\ UNCHANGED <<stopVars, loopVars, heard, cancelVars, lock>>

\* _run_dispatch takes the next job.
Take ==
  /\ runner = "idle"
  /\ queue # <<>>
  /\ queue' = Tail(queue)
  /\ taken' = Head(queue)
  /\ \/ /\ Head(queue) = <<"exit">>
        /\ runner' = "exited"
        /\ UNCHANGED finished
     \/ /\ Head(queue) = <<"finish">>
        /\ finished' = TRUE
        /\ UNCHANGED runner
     \/ /\ Head(queue) \in Deliveries
        /\ runner' = "entering"
        /\ UNCHANGED finished
  /\ UNCHANGED <<stopVars, loopVars, heard, cancelVars, lock>>

\* Enter, had the flag been read before the lock was taken, and the lock left
\* to the callback.
EnterUnlocked ==
  /\ runner = "entering"
  /\ \/ /\ cancelled
        /\ runner' = "idle"
        /\ UNCHANGED heard
     \/ /\ ~cancelled
        /\ runner' = IF taken = <<"failure">> THEN "reporting" ELSE "calling"
        /\ heard' = IF taken = <<"failure">> THEN heard ELSE Append(heard, taken[2])
  /\ UNCHANGED <<stopVars, loopVars, taken, cancelVars, queue, lock, finished>>

\* _deliver and _report_failure: take the lock, and only then look whether
\* the handle is cancelled.
Enter ==
  /\ runner = "entering"
  /\ lock = "none"
  /\ \/ /\ cancelled
        /\ runner' = "idle"
        /\ UNCHANGED <<lock, heard>>
     \/ /\ ~cancelled /\ taken[1] = "item"
        /\ runner' = "calling"
        /\ lock' = "dispatch"
        /\ heard' = Append(heard, taken[2])
     \/ /\ ~cancelled /\ taken = <<"failure">>
        /\ runner' = "reporting"
        /\ lock' = "dispatch"
        /\ UNCHANGED heard
  /\ UNCHANGED <<stopVars, loopVars, taken, cancelVars, queue, finished>>

\* A callback is over only after the cancel() it may have called.
InCancel(t) == canceller[t] \notin {"no", "done"}

CallbackEnds ==
  /\ runner \in {"calling", "reporting"}
  /\ ~InCancel("dispatch")
  /\ runner' = "idle"
  /\ lock' = "none"
  /\ UNCHANGED <<stopVars, loopVars, taken, heard, cancelVars, queue, finished>>

\* The callback raises: the error callback is called under the same lock.
CallbackRaises ==
  /\ runner = "calling"
  /\ ~InCancel("dispatch")
  /\ runner' = "reporting"
  /\ UNCHANGED <<stopVars, loopVars, taken, heard, cancelVars, queue, lock, finished>>

-------------------------------------------------------------------------------
(* cancel(), from another thread, from the loop or from inside a callback *)

\* Where a thread may call cancel(): the loop thread between two steps of
\* _run, the dispatch thread inside a callback.
MayCancel(t) ==
  \/ t = "user"
  \/ t = "loop" /\ run \notin {"posting", "putting"}
  \/ t = "dispatch" /\ runner \in {"calling", "reporting"}

\* `first = not self._cancelled`
CancelReads(t) ==
  /\ canceller[t] = "no"
  /\ MayCancel(t)
  /\ canceller' = [canceller EXCEPT ![t] = IF cancelled THEN "again" ELSE "first"]
  /\ UNCHANGED <<stopVars, loopVars, dispatchVars, cancelled, hooked, queue, lock, finished>>

\* The flag goes up; a later call has nothing to do but wait for the lock.
CancelFlags(t) ==
  /\ canceller[t] \in {"first", "again"}
  /\ cancelled' = TRUE
  /\ canceller' = [canceller EXCEPT ![t] = IF @ = "first" THEN "flagged" ELSE "locked"]
  /\ UNCHANGED <<stopVars, loopVars, dispatchVars, hooked, queue, lock, finished>>

\* Any thread but the loop thread waits for the lock; inside a callback it is
\* the thread's own.
LockFree(t) == t = "user" => lock = "none"

\* CancelFinishes, had it left the coroutine to notice the flag by itself.
CancelFlagOnly(t) ==
  /\ LockFree(t)
  /\ canceller[t] \in {"flagged", "locked"}
  /\ hooked' = (hooked \/ (canceller[t] = "flagged" /\ ~stopped))
  /\ canceller' = [canceller EXCEPT ![t] = "done"]
  /\ UNCHANGED <<stopVars, loopVars, dispatchVars, cancelled, queue, lock, finished>>

\* The first call cancels the future, hence the task, and posts on_cancel.
CancelFinishes(t) ==
  /\ LockFree(t)
  /\ \/ /\ canceller[t] = "flagged"
        /\ interrupted' = TRUE
        /\ hooked' = (hooked \/ ~stopped)
     \/ /\ canceller[t] = "locked"
        /\ UNCHANGED <<interrupted, hooked>>
  /\ canceller' = [canceller EXCEPT ![t] = "done"]
  /\ UNCHANGED <<stopVars, run, job, produced, posted, dispatchVars, cancelled, queue, lock, finished>>

-------------------------------------------------------------------------------
(* stop() *)

MarkStopped ==
  /\ stopper = "idle"
  /\ stopper' = "marked"
  /\ stopped' = TRUE
  /\ atStop' = posted
  /\ UNCHANGED <<loopVars, dispatchVars, cancelVars, queue, lock, finished>>

\* loop.stop() is posted; the loop tears its tasks down from here on.
HaltLoop ==
  /\ stopper = "marked"
  /\ stopper' = "halted"
  /\ UNCHANGED <<stopped, atStop, loopVars, dispatchVars, cancelVars, queue, lock, finished>>

PutExit ==
  /\ stopper = "halted"
  /\ stopper' = "done"
  /\ queue' = Append(queue, <<"exit">>)
  /\ UNCHANGED <<stopped, atStop, loopVars, dispatchVars, cancelVars, lock, finished>>

-------------------------------------------------------------------------------

LoopThread == Start \/ NeverStart \/ CheckStopped \/ Put \/ (interrupted /\ SourceEnds)

DispatchThread == Take \/ Enter \/ CallbackEnds

CancelStep(t) == CancelFlags(t) \/ CancelFinishes(t)

Next ==
  \/ LoopThread \/ ItemArrives \/ SourceEnds \/ TearDown
  \/ DispatchThread \/ CallbackRaises
  \/ \E t \in Thread : CancelReads(t) \/ CancelStep(t)
  \/ MarkStopped \/ HaltLoop \/ PutExit

Spec == Init /\ [][Next]_vars

\* Every thread that can run does, and callbacks return.
Fairness ==
  /\ WF_vars(LoopThread) /\ WF_vars(TearDown)
  /\ WF_vars(DispatchThread)
  /\ \A t \in Thread : WF_vars(CancelFlags(t)) /\ WF_vars(CancelFinishes(t))
  /\ WF_vars(HaltLoop) /\ WF_vars(PutExit)

FairSpec == Spec /\ Fairness

-------------------------------------------------------------------------------
(* Properties *)

\* Once cancel() has returned to a thread other than the loop's and the
\* callback's own, no callback runs, neither the one that was running when it
\* was called nor any of those still queued.
CancelSilences ==
  canceller["user"] = "done" => runner \notin {"calling", "reporting"}

\* The callback hears the items in the order of the source, none twice and
\* none left out; and a pump that has finished without being cancelled or
\* stopped has handed over all of them.
DeliveredInOrder ==
  /\ heard = [i \in 1 .. Len(heard) |-> i]
  /\ finished /\ ~cancelled /\ ~stopped => Len(heard) = produced

Delivering ==
  \/ runner \in {"entering", "calling", "reporting"}
  \/ \E i \in DOMAIN queue : queue[i] \in Deliveries

\* While the portal is not stopped, finished is set only after everything the
\* pump has queued has been dealt with, and stop() lets the callbacks run that
\* were queued before it began.
FinishedIsLast ==
  /\ finished /\ ~stopped => ~Delivering
  /\ runner = "exited" /\ ~cancelled => Len(heard) >= atStop

\* A cancelled pump finishes, and its on_cancel is called, unless the portal
\* is stopped meanwhile.
CancelledPumpFinishes ==
  cancelled ~> (finished /\ hooked) \/ stopped

===============================================================================
