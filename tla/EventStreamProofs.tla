-------------------------- MODULE EventStreamProofs --------------------------
(***************************************************************************)
(* Proofs about EventStream, for every set of consumers, every limit on    *)
(* the queue and any number of events.                                     *)
(*                                                                         *)
(* SInv is the inductive invariant: the wakeup property and the list of    *)
(* waiters each need the other, and both need the link between a consumer  *)
(* that is suspended and its future (Futures).                             *)
(***************************************************************************)
EXTENDS EventStream, TLAPS

\* A consumer has a future exactly while it is suspended, and its future is
\* cancelled only with its task.
Futures ==
  \A g \in Getter :
    /\ waiter[g] = "none" <=> getter[g] = "idle"
    /\ waiter[g] = "cancelled" => g \in interrupted

SInv == TypeOK /\ Futures /\ NoLostWakeup /\ NoStaleWaiter

-------------------------------------------------------------------------------
(* The queue *)

LEMMA PushType ==
  ASSUME NEW S, NEW s \in Seq(S), NEW x \in S
  PROVE  Append(s, x) \in Seq(S) /\ Len(Append(s, x)) = Len(s) + 1
  OBVIOUS

LEMMA PopType ==
  ASSUME NEW S, NEW s \in Seq(S), s # <<>>
  PROVE  Tail(s) \in Seq(S) /\ Len(Tail(s)) <= Len(s) /\ Head(s) \in S
  OBVIOUS

-------------------------------------------------------------------------------
(* What the two helpers preserve. *)

\* After a push or an end nobody is suspended on an unset future.
LEMMA WakeAll ==
  ASSUME SInv, Wake
  PROVE  /\ waiter' \in [Getter -> {"none", "unset", "set", "cancelled"}]
         /\ waiters' = {}
         /\ \A g \in Getter : /\ waiter'[g] = "none" <=> waiter[g] = "none"
                              /\ waiter'[g] = "cancelled" <=> waiter[g] = "cancelled"
                              /\ getter[g] = "waiting" => waiter'[g] # "unset"
  BY DEF SInv, TypeOK, NoLostWakeup, Futures, Wake

LEMMA EventsComeLater ==
  ASSUME SInv, Wake, UNCHANGED <<getter, timer, due, interrupted>>
  PROVE  Futures' /\ NoLostWakeup' /\ NoStaleWaiter'
  BY WakeAll DEF SInv, TypeOK, Futures, NoLostWakeup, NoStaleWaiter

LEMMA LeaveClean ==
  ASSUME SInv, NEW g \in Getter, NEW what \in Answers, Leave(g, what),
         ended' = ended, items' = items \/ items # <<>>
  PROVE  /\ getter' \in [Getter -> {"idle", "waiting"}]
         /\ waiter' \in [Getter -> {"none", "unset", "set", "cancelled"}]
         /\ waiters' \in SUBSET Getter
         /\ timer' \in SUBSET Timed /\ due' \in SUBSET Timed
         /\ interrupted' \in SUBSET Getter
         /\ answer' \in [Getter -> Answers]
         /\ Futures' /\ NoLostWakeup' /\ NoStaleWaiter'
<1>1. /\ getter' \in [Getter -> {"idle", "waiting"}]
      /\ waiter' \in [Getter -> {"none", "unset", "set", "cancelled"}]
      /\ waiters' \in SUBSET Getter
      /\ timer' \in SUBSET Timed /\ due' \in SUBSET Timed
      /\ interrupted' \in SUBSET Getter
      /\ answer' \in [Getter -> Answers]
  BY DEF SInv, TypeOK, Leave
<1>2. Futures'
  BY DEF SInv, TypeOK, Leave, Futures
<1>3. NoLostWakeup'
  BY DEF SInv, TypeOK, Leave, NoLostWakeup
<1>4. NoStaleWaiter'
  BY DEF SInv, TypeOK, Leave, NoStaleWaiter
<1> QED BY <1>1, <1>2, <1>3, <1>4

\* A consumer that is woken takes the same turn as one that arrives.
LEMMA ResumeTurns ==
  ASSUME SInv, NEW g \in Getter, Resume(g)
  PROVE  \E late \in BOOLEAN : (late => g \in Timed) /\ Turn(g, late)
<1>1. g \in due => g \in Timed
  BY DEF SInv, TypeOK
<1>2. CASE g \in due
  <2>1. Turn(g, TRUE)
    BY <1>2 DEF Resume, Turn
  <2> QED BY <1>1, <1>2, <2>1
<1>3. CASE g \notin due
  <2>1. Turn(g, FALSE)
    BY <1>3 DEF Resume, Turn
  <2> QED BY <2>1
<1> QED BY <1>2, <1>3

LEMMA TurnKeeps ==
  ASSUME SInv, NEW g \in Getter, NEW late \in BOOLEAN, Turn(g, late)
  PROVE  SInv'
<1> USE DEF SInv
<1>1. CASE items # <<>> /\ items' = Tail(items) /\ Leave(g, <<"event", Head(items)>>)
  <2>1. /\ items' \in Seq(1 .. MaxEvents) /\ Len(items') <= MaxPending
        /\ <<"event", Head(items)>> \in Answers
    BY <1>1, PopType, LimitsAssumption DEF TypeOK, Answers
  <2>2. pushed' = pushed /\ ended' = ended
    BY DEF Turn
  <2> QED BY <1>1, <2>1, <2>2, LeaveClean DEF TypeOK
<1>2. CASE \E what \in {<<"ended">>, <<"timeout">>} : Leave(g, what) /\ UNCHANGED items
  <2>1. PICK what \in {<<"ended">>, <<"timeout">>} : Leave(g, what) /\ UNCHANGED items
    BY <1>2
  <2>2. what \in Answers
    BY DEF Answers
  <2>3. pushed' = pushed /\ ended' = ended
    BY DEF Turn
  <2> QED BY <2>1, <2>2, <2>3, LeaveClean DEF TypeOK
<1>3. CASE /\ items = <<>> /\ ~ended
           /\ getter' = [getter EXCEPT ![g] = "waiting"]
           /\ waiter' = [waiter EXCEPT ![g] = "unset"]
           /\ waiters' = waiters \cup {g}
           /\ timer' = timer \cup ({g} \cap Timed)
           /\ UNCHANGED <<items, due, interrupted, answer>>
  <2>1. pushed' = pushed /\ ended' = ended
    BY DEF Turn
  <2>2. TypeOK'
    BY <1>3, <2>1, TimedAssumption DEF TypeOK
  <2>3. Futures'
    BY <1>3 DEF TypeOK, Futures
  <2>4. NoLostWakeup'
    BY <1>3, <2>1 DEF TypeOK, NoLostWakeup
  <2>5. NoStaleWaiter'
    BY <1>3 DEF TypeOK, NoStaleWaiter
  <2> QED BY <2>2, <2>3, <2>4, <2>5
<1> QED BY <1>1, <1>2, <1>3 DEF Turn

-------------------------------------------------------------------------------
(* The inductive invariant *)

LEMMA SInvInit == Init => SInv
<1> SUFFICES ASSUME Init PROVE SInv
  OBVIOUS
<1>1. items \in Seq(1 .. MaxEvents) /\ Len(items) <= MaxPending
  BY LimitsAssumption DEF Init
<1>2. TypeOK
  <2>1. answer \in [Getter -> Answers]
    BY DEF Init, Answers
  <2>2. pushed \in 0 .. MaxEvents
    BY LimitsAssumption, SMT DEF Init
  <2>3. ended \in BOOLEAN
    BY Zenon DEF Init
  <2> QED BY <1>1, <2>1, <2>2, <2>3 DEF Init, TypeOK
<1>3. Futures /\ NoLostWakeup /\ NoStaleWaiter
  BY DEF Init, Futures, NoLostWakeup, NoStaleWaiter
<1> QED BY <1>2, <1>3 DEF SInv

LEMMA SInvNext == SInv /\ [Next]_vars => SInv'
<1> SUFFICES ASSUME SInv, [Next]_vars PROVE SInv'
  OBVIOUS
<1>1. CASE Arrive
  <2>1. Futures' /\ NoLostWakeup' /\ NoStaleWaiter'
    BY <1>1, EventsComeLater DEF Arrive
  <2>2. CASE Len(items) < MaxPending /\ items' = Append(items, pushed + 1)
             /\ pushed' = pushed + 1 /\ UNCHANGED ended
    <3>1. pushed + 1 \in 1 .. MaxEvents
      BY <1>1, LimitsAssumption DEF Arrive, SInv, TypeOK
    <3>2. items' \in Seq(1 .. MaxEvents) /\ Len(items') <= MaxPending
      BY <2>2, <3>1, PushType, LimitsAssumption DEF SInv, TypeOK
    <3> QED BY <1>1, <2>1, <2>2, <3>1, <3>2, WakeAll DEF Arrive, SInv, TypeOK
  <2>3. CASE ended' = TRUE /\ UNCHANGED <<items, pushed>>
    BY <1>1, <2>1, <2>3, WakeAll DEF Arrive, SInv, TypeOK
  <2> QED BY <1>1, <2>2, <2>3 DEF Arrive
<1>2. CASE End
  <2>1. Futures' /\ NoLostWakeup' /\ NoStaleWaiter'
    BY <1>2, EventsComeLater DEF End
  <2> QED BY <1>2, <2>1, WakeAll DEF End, SInv, TypeOK
<1>3. ASSUME NEW g \in Getter, Get(g) PROVE SInv'
  BY <1>3, TurnKeeps DEF Get
<1>4. ASSUME NEW g \in Getter, Resume(g) PROVE SInv'
  BY <1>4, ResumeTurns, TurnKeeps
<1>5. ASSUME NEW g \in Getter, DeadlinePasses(g) PROVE SInv'
  BY <1>5 DEF DeadlinePasses, queueVars, SInv, TypeOK, Futures, NoLostWakeup, NoStaleWaiter
<1>6. ASSUME NEW g \in Getter, TimerFires(g) PROVE SInv'
  BY <1>6 DEF TimerFires, queueVars, SInv, TypeOK, Futures, NoLostWakeup, NoStaleWaiter
<1>7. ASSUME NEW g \in Getter, Cancel(g) PROVE SInv'
  BY <1>7 DEF Cancel, queueVars, SInv, TypeOK, Futures, NoLostWakeup, NoStaleWaiter
<1>8. ASSUME NEW g \in Getter, RaiseCancelled(g) PROVE SInv'
  <2>1. <<"cancelled">> \in Answers
    BY DEF Answers
  <2> QED BY <1>8, <2>1, LeaveClean DEF RaiseCancelled, queueVars, SInv, TypeOK
<1>9. CASE UNCHANGED vars
  BY <1>9 DEF vars, queueVars, waitVars, SInv, TypeOK, Futures, NoLostWakeup, NoStaleWaiter
<1> QED BY <1>1, <1>2, <1>3, <1>4, <1>5, <1>6, <1>7, <1>8, <1>9 DEF Next

LEMMA SInvAlways == Spec => []SInv
  BY SInvInit, SInvNext, PTL DEF Spec

\* Every variable keeps its type, and the queue its limit (_Stream).
THEOREM EventStreamTypeCorrect == Spec => []TypeOK
<1>1. SInv => TypeOK
  BY DEF SInv
<1> QED BY <1>1, SInvAlways, PTL

\* No consumer sleeps on an unset future beside an event or after the end of
\* the stream, and every sleeper is found by the next push (_Stream.get).
THEOREM NoLostWakeupHolds == Spec => []NoLostWakeup
<1>1. SInv => NoLostWakeup
  BY DEF SInv
<1> QED BY <1>1, SInvAlways, PTL

\* A consumer that has left get() has left nothing in the list of waiters nor
\* among the timers (the finally clause of _Stream.get).
THEOREM NoStaleWaiterHolds == Spec => []NoStaleWaiter
<1>1. SInv => NoStaleWaiter
  BY DEF SInv
<1> QED BY <1>1, SInvAlways, PTL

-------------------------------------------------------------------------------
(* The promise of EventFeed *)

LEMMA FeedInit == Init => Feed!Init
  BY DEF Init, Feed!Init

LEMMA FeedTurn ==
  ASSUME SInv, NEW g \in Getter, NEW late \in BOOLEAN, late => g \in Timed, Turn(g, late)
  PROVE  Feed!Next \/ UNCHANGED Feed!vars
<1> DEFINE asking == {h \in Getter : getter[h] = "waiting"}
<1>0. UNCHANGED <<pushed, ended>>
  BY DEF Turn
<1>1. ASSUME NEW what, Leave(g, what)
      PROVE  asking' = asking \ {g} /\ answer' = [answer EXCEPT ![g] = what]
  BY <1>1 DEF Leave, SInv, TypeOK
<1>2. CASE items # <<>> /\ items' = Tail(items) /\ Leave(g, <<"event", Head(items)>>)
  <2>1. Feed!Deliver(g)
    BY <1>0, <1>1, <1>2 DEF Feed!Deliver, Feed!Give
  <2> QED BY <2>1 DEF Feed!Next, Feed!Served
<1>3. CASE items = <<>> /\ ended /\ Leave(g, <<"ended">>) /\ UNCHANGED items
  <2>1. Feed!SayOver(g)
    BY <1>0, <1>1, <1>3 DEF Feed!SayOver, Feed!Give
  <2> QED BY <2>1 DEF Feed!Next, Feed!Served
<1>4. CASE items = <<>> /\ ~ended /\ late /\ Leave(g, <<"timeout">>) /\ UNCHANGED items
  <2>1. Feed!SayNotYet(g)
    BY <1>0, <1>1, <1>4 DEF Feed!SayNotYet, Feed!Give
  <2> QED BY <2>1 DEF Feed!Next
<1>5. CASE /\ items = <<>> /\ ~ended
           /\ getter' = [getter EXCEPT ![g] = "waiting"]
           /\ UNCHANGED <<items, answer>>
  <2>1. asking' = asking \cup {g}
    BY <1>5 DEF SInv, TypeOK
  <2>2. CASE g \in asking
    BY <1>0, <1>5, <2>1, <2>2 DEF Feed!vars
  <2>3. CASE g \notin asking
    <3>1. Feed!Ask(g)
      BY <1>0, <1>5, <2>1, <2>3 DEF Feed!Ask
    <3> QED BY <3>1 DEF Feed!Next
  <2> QED BY <2>2, <2>3
<1> QED BY <1>2, <1>3, <1>4, <1>5 DEF Turn

LEMMA FeedNext == SInv /\ [Next]_vars => [Feed!Next]_(Feed!vars)
<1> SUFFICES ASSUME SInv, [Next]_vars PROVE Feed!Next \/ UNCHANGED Feed!vars
  OBVIOUS
<1>1. CASE Arrive
  <2>1. Feed!Arrive \/ Feed!Finish
    BY <1>1 DEF Arrive, Feed!Arrive, Feed!Finish
  <2> QED BY <2>1 DEF Feed!Next
<1>2. CASE End
  <2>1. Feed!Finish
    BY <1>2 DEF End, Feed!Finish
  <2> QED BY <2>1 DEF Feed!Next
<1>3. ASSUME NEW g \in Getter, Get(g) PROVE Feed!Next \/ UNCHANGED Feed!vars
  BY <1>3, FeedTurn DEF Get
<1>4. ASSUME NEW g \in Getter, Resume(g) PROVE Feed!Next \/ UNCHANGED Feed!vars
  BY <1>4, ResumeTurns, FeedTurn
<1>5. ASSUME NEW g \in Getter, DeadlinePasses(g) \/ TimerFires(g) \/ Cancel(g)
      PROVE  Feed!Next \/ UNCHANGED Feed!vars
  BY <1>5 DEF DeadlinePasses, TimerFires, Cancel, queueVars, Feed!vars
<1>6. ASSUME NEW g \in Getter, RaiseCancelled(g) PROVE Feed!Next \/ UNCHANGED Feed!vars
  <2>1. Feed!Abandon(g)
    BY <1>6 DEF RaiseCancelled, Leave, queueVars, SInv, TypeOK, NoStaleWaiter, Feed!Abandon, Feed!Give
  <2> QED BY <2>1 DEF Feed!Next
<1>7. CASE UNCHANGED vars
  BY <1>7 DEF vars, queueVars, waitVars, Feed!vars
<1> QED BY <1>1, <1>2, <1>3, <1>4, <1>5, <1>6, <1>7 DEF Next

\* Every behaviour of the queue, seen from its consumers, is one of EventFeed:
\* each event to one consumer and in order, "ended" and "timeout" only when
\* they are true, nothing taken by a cancelled consumer (_Stream).
THEOREM EventStreamImplementsFeed == Spec => ImplementsFeedSafely
  BY FeedInit, FeedNext, SInvAlways, PTL DEF Spec, Feed!Spec, ImplementsFeedSafely
================================================================================
