------------------------------ MODULE EventStream ------------------------------
(***************************************************************************)
(* The queue behind an AsyncSubscription (_Stream in subscription.py): the *)
(* reader pushes events and ends the stream, consumer tasks get() them and *)
(* wait on futures of their own when there are none.                       *)
(*                                                                         *)
(* Each action is what one task or one callback of the loop does between   *)
(* two awaits.  Setting a waiter only makes its task runnable; by the time *)
(* it runs, another consumer may have taken the event.                     *)
(***************************************************************************)
EXTENDS Naturals, Sequences

CONSTANTS
  Getter,     \* the consumer tasks
  Timed,      \* those that call get() with a timeout
  MaxPending, \* max_pending
  MaxEvents   \* bound: events that arrive

ASSUME TimedAssumption == Timed \subseteq Getter
ASSUME LimitsAssumption == MaxPending \in Nat \ {0} /\ MaxEvents \in Nat

VARIABLES
  items,       \* the queue, by number
  pushed,      \* received
  ended,       \* ended
  getter,      \* per consumer: "idle" or suspended in get()
  waiter,      \* per consumer: the future it waits on
  waiters,     \* the consumers whose future is in _waiters
  timer,       \* the consumers whose call_at handle is armed
  due,         \* the consumers whose deadline has passed
  interrupted, \* the consumers that have been cancelled
  answer       \* per consumer: what its last get() returned or raised

queueVars == <<items, pushed, ended>>
waitVars == <<getter, waiter, waiters, timer, due, interrupted>>
vars == <<queueVars, waitVars, answer>>

Answers == {<<"none">>, <<"ended">>, <<"timeout">>, <<"cancelled">>}
             \cup ({"event"} \X (1 .. MaxEvents))

TypeOK ==
  /\ items \in Seq(1 .. MaxEvents) /\ Len(items) <= MaxPending
  /\ pushed \in 0 .. MaxEvents
  /\ ended \in BOOLEAN
  /\ getter \in [Getter -> {"idle", "waiting"}]
  /\ waiter \in [Getter -> {"none", "unset", "set", "cancelled"}]
  /\ waiters \in SUBSET Getter
  /\ timer \in SUBSET Timed
  /\ due \in SUBSET Timed
  /\ interrupted \in SUBSET Getter
  /\ answer \in [Getter -> Answers]

Init ==
  /\ items = <<>>
  /\ pushed = 0
  /\ ended = FALSE
  /\ getter = [g \in Getter |-> "idle"]
  /\ waiter = [g \in Getter |-> "none"]
  /\ waiters = {}
  /\ timer = {}
  /\ due = {}
  /\ interrupted = {}
  /\ answer = [g \in Getter |-> <<"none">>]

-------------------------------------------------------------------------------
(* The reader's side *)

\* _wake: every future in _waiters is set, unless it is done already.
Wake ==
  /\ waiter' = [g \in Getter |-> IF g \in waiters /\ waiter[g] = "unset" THEN "set" ELSE waiter[g]]
  /\ waiters' = {}

\* Arrive, had the limit been one too high.
ArriveOneMore ==
  /\ ~ended
  /\ pushed < MaxEvents
  /\ \/ /\ Len(items) <= MaxPending
        /\ items' = Append(items, pushed + 1)
        /\ pushed' = pushed + 1
        /\ UNCHANGED ended
     \/ /\ Len(items) > MaxPending
        /\ ended' = TRUE
        /\ UNCHANGED <<items, pushed>>
  /\ Wake
  /\ UNCHANGED <<getter, timer, due, interrupted, answer>>

\* An event for a stream that has not ended: _route_event ends a full stream
\* and pushes to any other.
Arrive ==
  /\ ~ended
  /\ pushed < MaxEvents
  /\ \/ /\ Len(items) < MaxPending
        /\ items' = Append(items, pushed + 1)
        /\ pushed' = pushed + 1
        /\ UNCHANGED ended
     \/ /\ Len(items) >= MaxPending
        /\ ended' = TRUE
        /\ UNCHANGED <<items, pushed>>
  /\ Wake
  /\ UNCHANGED <<getter, timer, due, interrupted, answer>>

\* end(), had it relied on the next push to wake the consumers.
EndQuietly ==
  /\ ~ended
  /\ ended' = TRUE
  /\ UNCHANGED <<items, pushed, waitVars, answer>>

\* end(): by unsubscribe(), a termination or the end of the connection.
End ==
  /\ ~ended
  /\ ended' = TRUE
  /\ Wake
  /\ UNCHANGED <<items, pushed, getter, timer, due, interrupted, answer>>

-------------------------------------------------------------------------------
(* The consumers *)

\* Leave, had the finally clause left the waiter of a timeout in the list.
LeaveListed(g, what) ==
  /\ answer' = [answer EXCEPT ![g] = what]
  /\ getter' = [getter EXCEPT ![g] = "idle"]
  /\ waiter' = [waiter EXCEPT ![g] = "none"]
  /\ waiters' = IF what = <<"timeout">> THEN waiters ELSE waiters \ {g}
  /\ timer' = timer \ {g}
  /\ due' = due \ {g}
  /\ interrupted' = interrupted \ {g}

\* get() returns or raises: nothing of its wait is left behind.
Leave(g, what) ==
  /\ answer' = [answer EXCEPT ![g] = what]
  /\ getter' = [getter EXCEPT ![g] = "idle"]
  /\ waiter' = [waiter EXCEPT ![g] = "none"]
  /\ waiters' = waiters \ {g}
  /\ timer' = timer \ {g}
  /\ due' = due \ {g}
  /\ interrupted' = interrupted \ {g}

\* One turn of the loop in get(), had it looked at the deadline first.
TurnDeadlineFirst(g, late) ==
  /\ \/ /\ late
        /\ Leave(g, <<"timeout">>)
        /\ UNCHANGED items
     \/ /\ ~late /\ items # <<>>
        /\ items' = Tail(items)
        /\ Leave(g, <<"event", Head(items)>>)
     \/ /\ ~late /\ items = <<>> /\ ended
        /\ Leave(g, <<"ended">>)
        /\ UNCHANGED items
     \/ /\ ~late /\ items = <<>> /\ ~ended
        /\ getter' = [getter EXCEPT ![g] = "waiting"]
        /\ waiter' = [waiter EXCEPT ![g] = "unset"]
        /\ waiters' = waiters \cup {g}
        /\ timer' = timer \cup ({g} \cap Timed)
        /\ UNCHANGED <<items, due, interrupted, answer>>
  /\ UNCHANGED <<pushed, ended>>

\* One turn of the loop in get(): the queue first, then the end of the
\* stream, then the deadline, and only then a new wait.
Turn(g, late) ==
  /\ \/ /\ items # <<>>
        /\ items' = Tail(items)
        /\ Leave(g, <<"event", Head(items)>>)
     \/ /\ items = <<>> /\ ended
        /\ Leave(g, <<"ended">>)
        /\ UNCHANGED items
     \/ /\ items = <<>> /\ ~ended /\ late
        /\ Leave(g, <<"timeout">>)
        /\ UNCHANGED items
     \/ /\ items = <<>> /\ ~ended /\ ~late
        /\ getter' = [getter EXCEPT ![g] = "waiting"]
        /\ waiter' = [waiter EXCEPT ![g] = "unset"]
        /\ waiters' = waiters \cup {g}
        /\ timer' = timer \cup ({g} \cap Timed)
        /\ UNCHANGED <<items, due, interrupted, answer>>
  /\ UNCHANGED <<pushed, ended>>

\* get() is called; with a timeout of zero the deadline has passed already.
Get(g) ==
  /\ getter[g] = "idle"
  /\ \E late \in BOOLEAN : (late => g \in Timed) /\ Turn(g, late)

\* The waiter is set: its handle is cancelled, and the loop turns again.
Resume(g) ==
  /\ getter[g] = "waiting"
  /\ g \notin interrupted
  /\ waiter[g] = "set"
  /\ Turn(g, g \in due)

\* The deadline passes.
DeadlinePasses(g) ==
  /\ getter[g] = "waiting"
  /\ g \in Timed \ due
  /\ due' = due \cup {g}
  /\ UNCHANGED <<queueVars, getter, waiter, waiters, timer, interrupted, answer>>

\* The call_at handle runs; the loop's clock may be a little early.
TimerFires(g) ==
  /\ g \in timer
  /\ timer' = timer \ {g}
  /\ waiter' = [waiter EXCEPT ![g] = IF @ = "unset" THEN "set" ELSE @]
  /\ UNCHANGED <<queueVars, getter, waiters, due, interrupted, answer>>

\* The consumer's task is cancelled: its future too, if it is not set.
Cancel(g) ==
  /\ getter[g] = "waiting"
  /\ g \notin interrupted
  /\ interrupted' = interrupted \cup {g}
  /\ waiter' = [waiter EXCEPT ![g] = IF @ = "unset" THEN "cancelled" ELSE @]
  /\ UNCHANGED <<queueVars, getter, waiters, timer, due, answer>>

\* CancelledError is raised in get(): the finally clause runs.
RaiseCancelled(g) ==
  /\ g \in interrupted
  /\ Leave(g, <<"cancelled">>)
  /\ UNCHANGED queueVars

-------------------------------------------------------------------------------

Next ==
  \/ Arrive \/ End
  \/ \E g \in Getter :
        \/ Get(g) \/ Resume(g) \/ DeadlinePasses(g) \/ TimerFires(g)
        \/ Cancel(g) \/ RaiseCancelled(g)

Spec == Init /\ [][Next]_vars

\* The loop runs its ready tasks and due timers, and time passes.
Fairness ==
  \A g \in Getter :
    /\ WF_vars(Resume(g) \/ RaiseCancelled(g))
    /\ WF_vars(DeadlinePasses(g))
    /\ WF_vars(TimerFires(g))

FairSpec == Spec /\ Fairness

-------------------------------------------------------------------------------
(* Properties *)

\* No wakeup is lost: while there is an event, or the stream has ended, no
\* consumer is suspended on a future that is still unset; and one that is
\* suspended on an unset future can be found by the next push.
NoLostWakeup ==
  \A g \in Getter : getter[g] = "waiting" /\ waiter[g] = "unset" =>
    /\ items = <<>> /\ ~ended
    /\ g \in waiters
    /\ g \in Timed => g \in timer

\* _waiters does not grow: a consumer that is not waiting is not in it.
NoStaleWaiter == waiters \cup timer \cup due \cup interrupted \subseteq {g \in Getter : getter[g] = "waiting"}

\* The stream keeps the promise of EventFeed to its consumers.
Feed == INSTANCE EventFeed WITH
  backlog <- items,
  sent    <- pushed,
  over    <- ended,
  asking  <- {g \in Getter : getter[g] = "waiting"}

ImplementsFeed == Feed!FairSpec

\* Its safety part alone.
ImplementsFeedSafely == Feed!Spec
================================================================================
