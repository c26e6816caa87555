------------------------------ MODULE SyncClient ------------------------------
(***************************************************************************)
(* BridgeClient (sync.py): the blocking client, whose on_event(), close()  *)
(* and call() run on any thread, those of its own event callbacks          *)
(* included, over a portal that it owns or shares.                         *)
(*                                                                         *)
(* Three kinds of waiting meet here: the lock of the client, the lock of   *)
(* each PumpHandle, which the dispatch thread holds while a callback runs, *)
(* and portal.call(), which waits for the loop thread.  The portal and the *)
(* pump are taken as the modules Portal and Pump have them: a call ends    *)
(* with its result, or with PortalStopped once the loop has stopped, and   *)
(* queued jobs run in order.                                               *)
(***************************************************************************)
EXTENDS Naturals, Sequences

CONSTANTS
  User,         \* threads of the application
  Callers,      \* bound: the threads that call call(), request(), ping() and the like
  Openers,      \* bound: the threads that call on_event()
  Closers,      \* bound: the threads that call close()
  Cancellers,   \* bound: the threads that cancel a handle
  Handle,       \* bound: the calls of on_event()
  MaxItems,     \* bound: events per subscription
  EarlyReentry  \* a callback may want the client's lock before on_event() has returned its handle

ASSUME SyncAssumption ==
  /\ MaxItems \in Nat /\ EarlyReentry \in BOOLEAN
  /\ Callers \cup Openers \cup Closers \cup Cancellers \subseteq User \cup {"dispatch"}

VARIABLES
  owned,     \* BridgeClient._owns_portal
  lock,      \* the thread that waits while it owns BridgeClient._lock
  closed,    \* BridgeClient._closed
  handles,   \* BridgeClient._handles
  step,      \* per thread: where it is in the method it runs
  subject,   \* per thread: the handle it is opening or cancelling
  todo,      \* per thread: the handles its close() has still to cancel
  socket,    \* the connection: open, lost, or closed by aclose()
  stopped,   \* the portal's flag
  loopOver,  \* the loop thread has left its loop
  pump,      \* per handle: its coroutine on the loop
  sent,      \* per handle: the events it has queued
  queue,     \* the dispatch queue
  running,   \* the handle whose callback the dispatch thread runs, holding its lock
  cancelled, \* per handle: PumpHandle._cancelled
  forgotten, \* the cancelled handles on_event() has dropped from the list
  taken,     \* the handles close() found
  isOver,    \* the close() that found them has returned
  own        \* the handle whose running callback called it

clientVars == <<owned, lock, closed, handles>>
threadVars == <<step, subject, todo>>
portalVars == <<stopped, loopOver, pump, sent, queue>>
closeVars == <<forgotten, taken, isOver, own>>
vars == <<clientVars, threadVars, portalVars, closeVars, socket, running, cancelled>>

Thread == User \cup {"dispatch"}
None == "none"

\* Neither None nor the sentinel of the dispatch queue (portal.py:124) is a
\* thread or a handle.
ASSUME NamesAssumption == None \notin Thread /\ Handle \cap {None, "exit", "exited"} = {}

Init ==
  /\ owned \in BOOLEAN
  /\ lock = None /\ closed = FALSE /\ handles = {}
  /\ step = [t \in Thread |-> "out"]
  /\ subject = [t \in Thread |-> None]
  /\ todo = [t \in Thread |-> {}]
  /\ socket = "open"
  /\ stopped = FALSE /\ loopOver = FALSE
  /\ pump = [h \in Handle |-> "none"]
  /\ sent = [h \in Handle |-> 0]
  /\ queue = <<>>
  /\ running = None
  /\ cancelled = [h \in Handle |-> FALSE]
  /\ forgotten = {} /\ taken = {} /\ isOver = FALSE /\ own = None

-------------------------------------------------------------------------------
(* Calls *)

Goto(t, where) == step' = [step EXCEPT ![t] = where]

\* A handle that some on_event() has not returned yet.
Opening(h) == \E t \in Thread : subject[t] = h /\ step[t] \in {"opening", "adding", "late"}

\* A thread calls the client; the dispatch thread does so inside a callback.
MayEnter(t) == step[t] = "out" /\ (t = "dispatch" => running \in Handle)
MayLock(t) == t = "dispatch" => EarlyReentry \/ ~Opening(running)

\* portal.call() of an operation: request(), call(), ping(), schema(), module(), ...
Call(t) ==
  /\ t \in Callers /\ MayEnter(t) /\ ~stopped
  /\ Goto(t, "calling")
  /\ UNCHANGED <<clientVars, subject, todo, portalVars, closeVars, socket, running, cancelled>>

CallReturns(t) ==
  /\ step[t] = "calling"
  /\ Goto(t, "out")
  /\ UNCHANGED <<clientVars, subject, todo, portalVars, closeVars, socket, running, cancelled>>

-------------------------------------------------------------------------------
(* PumpHandle.cancel, in two steps *)

\* The flag; from now on no callback of the handle begins.
Flag(h) == cancelled' = [cancelled EXCEPT ![h] = TRUE]

\* LockFree, had the lock of the handle not been re-entrant.
LockFreeOnce(t, h) == running # h

\* The handle's lock can be taken: at once by the thread that runs the callback.
LockFree(t, h) == running # h \/ t = "dispatch"

Cancel(t, h) ==
  /\ t \in Cancellers /\ MayEnter(t) /\ pump[h] # "none" /\ ~Opening(h) /\ ~cancelled[h]
  /\ Flag(h)
  /\ Goto(t, "flagged")
  /\ subject' = [subject EXCEPT ![t] = h]
  /\ UNCHANGED <<clientVars, todo, portalVars, closeVars, socket, running>>

CancelReturns(t) ==
  /\ step[t] = "flagged" /\ LockFree(t, subject[t])
  /\ Goto(t, "out")
  /\ subject' = [subject EXCEPT ![t] = None]
  /\ UNCHANGED <<clientVars, todo, portalVars, closeVars, socket, running, cancelled>>

-------------------------------------------------------------------------------
(* on_event *)

OnEvent(t, h) ==
  /\ t \in Openers /\ MayEnter(t) /\ MayLock(t) /\ ~stopped
  /\ pump[h] = "none" /\ ~Opening(h)
  /\ Goto(t, "opening")
  /\ subject' = [subject EXCEPT ![t] = h]
  /\ UNCHANGED <<clientVars, todo, portalVars, closeVars, socket, running, cancelled>>

\* subscribe() and pump(): events may be delivered before on_event() goes on.
Opened(t) ==
  /\ step[t] = "opening" /\ socket = "open" /\ ~stopped
  /\ pump' = [pump EXCEPT ![subject[t]] = "running"]
  /\ Goto(t, "adding")
  /\ UNCHANGED <<clientVars, subject, todo, stopped, loopOver, sent, queue, closeVars, socket, running, cancelled>>

\* subscribe() fails, or the portal is stopped.
OpenFails(t) ==
  /\ step[t] = "opening"
  /\ Goto(t, "out")
  /\ subject' = [subject EXCEPT ![t] = None]
  /\ UNCHANGED <<clientVars, todo, portalVars, closeVars, socket, running, cancelled>>

\* Register, had on_event() not looked at `closed`.
RegisterAlways(t) ==
  /\ step[t] = "adding" /\ lock = None
  /\ handles' = {h \in handles : ~cancelled[h]} \cup {subject[t]}
  /\ forgotten' = forgotten \cup {h \in handles : cancelled[h]}
  /\ Goto(t, "out")
  /\ subject' = [subject EXCEPT ![t] = None]
  /\ UNCHANGED <<owned, lock, closed, todo, portalVars, taken, isOver, own, socket, running, cancelled>>

\* The block under the lock: the handle joins those that are not cancelled.
Register(t) ==
  /\ step[t] = "adding" /\ lock = None /\ ~closed
  /\ handles' = {h \in handles : ~cancelled[h]} \cup {subject[t]}
  /\ forgotten' = forgotten \cup {h \in handles : cancelled[h]}
  /\ Goto(t, "out")
  /\ subject' = [subject EXCEPT ![t] = None]
  /\ UNCHANGED <<owned, lock, closed, todo, portalVars, taken, isOver, own, socket, running, cancelled>>

\* The client is closed: the new handle is cancelled while the lock is held.
CancelLate(t) ==
  /\ step[t] = "adding" /\ lock = None /\ closed
  /\ lock' = t
  /\ Flag(subject[t])
  /\ Goto(t, "late")
  /\ UNCHANGED <<owned, closed, handles, subject, todo, portalVars, closeVars, socket, running>>

\* CancelLateReturns, had the lock not been released.
CancelLateKeepsLock(t) ==
  /\ step[t] = "late" /\ LockFree(t, subject[t])
  /\ Goto(t, "out")
  /\ subject' = [subject EXCEPT ![t] = None]
  /\ UNCHANGED <<clientVars, todo, portalVars, closeVars, socket, running, cancelled>>

CancelLateReturns(t) ==
  /\ step[t] = "late" /\ LockFree(t, subject[t])
  /\ lock' = None
  /\ Goto(t, "out")
  /\ subject' = [subject EXCEPT ![t] = None]
  /\ UNCHANGED <<owned, closed, handles, todo, portalVars, closeVars, socket, running, cancelled>>

-------------------------------------------------------------------------------
(* close *)

\* The block under the lock; a second close() returns at once.
Close(t) ==
  /\ t \in Closers /\ MayEnter(t) /\ MayLock(t)
  /\ Goto(t, "locking")
  /\ UNCHANGED <<clientVars, subject, todo, portalVars, closeVars, socket, running, cancelled>>

CloseAgain(t) ==
  /\ step[t] = "locking" /\ lock = None /\ closed
  /\ Goto(t, "out")
  /\ UNCHANGED <<clientVars, subject, todo, portalVars, closeVars, socket, running, cancelled>>

TakeHandles(t) ==
  /\ step[t] = "locking" /\ lock = None /\ ~closed
  /\ closed' = TRUE
  /\ handles' = {}
  /\ todo' = [todo EXCEPT ![t] = handles]
  /\ taken' = handles
  /\ own' = IF t = "dispatch" THEN running ELSE None
  /\ Goto(t, "closing")
  /\ UNCHANGED <<owned, lock, subject, portalVars, forgotten, isOver, socket, running, cancelled>>

CloseCancels(t, h) ==
  /\ step[t] = "closing" /\ h \in todo[t]
  /\ Flag(h)
  /\ todo' = [todo EXCEPT ![t] = @ \ {h}]
  /\ subject' = [subject EXCEPT ![t] = h]
  /\ Goto(t, "closeFlagged")
  /\ UNCHANGED <<clientVars, portalVars, closeVars, socket, running>>

CloseCancelReturns(t) ==
  /\ step[t] = "closeFlagged" /\ LockFree(t, subject[t])
  /\ subject' = [subject EXCEPT ![t] = None]
  /\ Goto(t, "closing")
  /\ UNCHANGED <<clientVars, todo, portalVars, closeVars, socket, running, cancelled>>

\* Disconnect, had close() not waited for the handles.
DisconnectAtOnce(t) ==
  /\ step[t] \in {"closing", "closeFlagged"}
  /\ Goto(t, IF stopped THEN "finally" ELSE "aclosing")
  /\ UNCHANGED <<clientVars, subject, todo, portalVars, closeVars, socket, running, cancelled>>

\* portal.call(aclose), unless the portal is stopped.
Disconnect(t) ==
  /\ step[t] = "closing" /\ todo[t] = {}
  /\ Goto(t, IF stopped THEN "finally" ELSE "aclosing")
  /\ UNCHANGED <<clientVars, subject, todo, portalVars, closeVars, socket, running, cancelled>>

Disconnected(t) ==
  /\ step[t] = "aclosing"
  /\ \/ ~loopOver /\ socket' = "closed"
     \/ stopped /\ UNCHANGED socket
  /\ Goto(t, "finally")
  /\ UNCHANGED <<clientVars, subject, todo, portalVars, closeVars, running, cancelled>>

\* An owned portal is stopped, a shared one left alone.
StopPortal(t) ==
  /\ step[t] = "finally" /\ owned
  /\ stopped' = TRUE
  /\ queue' = IF stopped THEN queue ELSE Append(queue, "exit")
  /\ Goto(t, "joining")
  /\ UNCHANGED <<clientVars, subject, todo, loopOver, pump, sent, closeVars, socket, running, cancelled>>

\* The portal's threads have ended, or five seconds have passed.
CloseReturns(t) ==
  /\ step[t] = "joining" \/ (step[t] = "finally" /\ ~owned)
  /\ isOver' = TRUE
  /\ Goto(t, "out")
  /\ UNCHANGED <<clientVars, subject, todo, portalVars, forgotten, taken, own, socket, running, cancelled>>

-------------------------------------------------------------------------------
(* The portal, the pumps and the connection *)

ConnectionLost ==
  /\ socket = "open"
  /\ socket' = "lost"
  /\ UNCHANGED <<clientVars, threadVars, portalVars, closeVars, running, cancelled>>

\* Whoever owns a shared portal may stop it.
OwnerStops ==
  /\ ~owned /\ ~stopped
  /\ stopped' = TRUE
  /\ queue' = Append(queue, "exit")
  /\ UNCHANGED <<clientVars, threadVars, loopOver, pump, sent, closeVars, socket, running, cancelled>>

LoopStops ==
  /\ stopped /\ ~loopOver
  /\ loopOver' = TRUE
  /\ pump' = [h \in Handle |-> IF pump[h] = "running" THEN "over" ELSE pump[h]]
  /\ UNCHANGED <<clientVars, threadVars, stopped, sent, queue, closeVars, socket, running, cancelled>>

EventArrives(h) ==
  /\ pump[h] = "running" /\ socket = "open" /\ ~stopped /\ ~cancelled[h]
  /\ sent[h] < MaxItems
  /\ sent' = [sent EXCEPT ![h] = @ + 1]
  /\ queue' = Append(queue, h)
  /\ UNCHANGED <<clientVars, threadVars, stopped, loopOver, pump, closeVars, socket, running, cancelled>>

\* The pump ends: cancelled, or with the error of the connection, for the error callback.
PumpEnds(h) ==
  /\ pump[h] = "running"
  /\ cancelled[h] \/ socket # "open"
  /\ pump' = [pump EXCEPT ![h] = "over"]
  /\ queue' = IF cancelled[h] \/ stopped THEN queue ELSE Append(queue, h)
  /\ UNCHANGED <<clientVars, threadVars, stopped, loopOver, sent, closeVars, socket, running, cancelled>>

\* The dispatch thread takes a job; a cancelled handle's is passed over.
Dispatch ==
  /\ running = None /\ queue # <<>>
  /\ queue' = Tail(queue)
  /\ running' = IF Head(queue) = "exit" THEN "exited"
                ELSE IF cancelled[Head(queue)] THEN None ELSE Head(queue)
  /\ UNCHANGED <<clientVars, threadVars, stopped, loopOver, pump, sent, closeVars, socket, cancelled>>

CallbackReturns ==
  /\ running \in Handle /\ step["dispatch"] = "out"
  /\ running' = None
  /\ own' = None
  /\ UNCHANGED <<clientVars, threadVars, portalVars, forgotten, taken, isOver, socket, cancelled>>

-------------------------------------------------------------------------------

Enter(t) == Call(t) \/ Close(t) \/ \E h \in Handle : OnEvent(t, h) \/ Cancel(t, h)

GoOn(t) ==
  \/ CallReturns(t) \/ CancelReturns(t)
  \/ Opened(t) \/ OpenFails(t) \/ Register(t) \/ CancelLate(t) \/ CancelLateReturns(t)
  \/ CloseAgain(t) \/ TakeHandles(t) \/ CloseCancelReturns(t) \/ Disconnect(t) \/ Disconnected(t)
  \/ StopPortal(t) \/ CloseReturns(t)
  \/ \E h \in Handle : CloseCancels(t, h)

Next ==
  \/ \E t \in Thread : Enter(t) \/ GoOn(t)
  \/ \E h \in Handle : EventArrives(h) \/ PumpEnds(h)
  \/ ConnectionLost \/ OwnerStops \/ LoopStops \/ Dispatch \/ CallbackReturns

Spec == Init /\ [][Next]_vars

\* Threads run, the loop serves what it is given, and callbacks end (the
\* strong fairness: a callback does not call the client over and over).
FairSpec ==
  /\ Spec
  /\ \A t \in Thread : WF_vars(GoOn(t))
  /\ \A h \in Handle : WF_vars(PumpEnds(h))
  /\ WF_vars(LoopStops) /\ WF_vars(Dispatch) /\ SF_vars(CallbackReturns)

-------------------------------------------------------------------------------
(* Properties *)

\* Every variable has its type, and the lock of the client is held across a
\* wait by on_event() alone.
TypeOK ==
  /\ {owned, closed, stopped, loopOver, isOver} \subseteq BOOLEAN
  /\ handles \cup taken \cup forgotten \subseteq Handle
  /\ step \in [Thread -> {"out", "calling", "flagged", "opening", "adding", "late", "locking", "closing",
                          "closeFlagged", "aclosing", "finally", "joining"}]
  /\ subject \in [Thread -> Handle \cup {None}]
  /\ todo \in [Thread -> SUBSET Handle]
  /\ socket \in {"open", "lost", "closed"}
  /\ pump \in [Handle -> {"none", "running", "over"}]
  /\ sent \in [Handle -> 0 .. MaxItems]
  /\ queue \in Seq(Handle \cup {"exit"})
  /\ running \in Handle \cup {None, "exited"}
  /\ cancelled \in [Handle -> BOOLEAN]
  /\ own \in Handle \cup {None}
  /\ {t \in Thread : step[t] = "late"} = {lock} \ {None}

\* close() cancels the event callbacks for good: once it has returned, and
\* the on_event() calls it raced with have too, none runs but the one that
\* called close() itself, or one whose handle had been cancelled and dropped
\* from the list before (sync.py:220, 329-332).
CloseSilences ==
  isOver /\ running \in Handle => running \in {own} \cup forgotten \/ Opening(running)

\* "Close order: event callbacks are cancelled first, then the connection is
\* closed, then an owned portal is stopped" (sync.py:143-144): when aclose()
\* runs no callback of a handle that close() found is running or will, and an
\* owned portal outlives the connection.
ClosesInOrder ==
  /\ (\E t \in Thread : step[t] \in {"aclosing", "finally", "joining"}) \/ isOver =>
       \A h \in taken : cancelled[h] /\ (running = h => own = h)
  /\ owned /\ stopped => socket = "closed"

\* No call of the client blocks for ever, whatever the other threads and the
\* callbacks do (sync.py:328-330, 221-230).
CallersReturn == \A t \in Thread : step[t] # "out" ~> step[t] = "out"

\* "Callbacks may call this client" (sync.py:321).
CallbacksMayCall == step["dispatch"] # "out" ~> step["dispatch"] = "out"
===============================================================================
