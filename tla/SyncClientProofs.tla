--------------------------- MODULE SyncClientProofs ---------------------------
(***************************************************************************)
(* The safety properties of SyncClient, for every set of threads and       *)
(* handles and every number of events.                                     *)
(*                                                                         *)
(* The invariant comes in three layers.  TypeInv adds to the types which   *)
(* threads are busy with a handle, and that the dispatch thread stays in   *)
(* its callback while that is in a call of the client: close() notes the   *)
(* handle whose callback it was called from.  OpenInv says that every      *)
(* handle is opened by one thread.  CloseInv says who is closing the       *)
(* client, where every handle that may deliver has gone (Placed), and what *)
(* the close() still has to do about it (Pursued).                         *)
(***************************************************************************)
EXTENDS SyncClient, TLAPS

Opens(t) == step[t] \in {"opening", "adding", "late"}
Closes(t) == step[t] \in {"closing", "closeFlagged", "aclosing", "finally", "joining"}

\* A thread that opens or cancels a handle has one.
Busy == \A t \in Thread : Opens(t) \/ step[t] \in {"flagged", "closeFlagged"} => subject[t] \in Handle

\* Only a callback that runs makes the dispatch thread call the client.
Inside == step["dispatch"] # "out" => running \in Handle

TypeInv == TypeOK /\ Busy /\ Inside

\* What is queued or runs has been opened.
Known ==
  /\ running \in Handle => pump[running] # "none"
  /\ \A i \in 1 .. Len(queue) : queue[i] \in Handle => pump[queue[i]] # "none"

\* Every handle is opened by one thread, whose subscription comes once.
Alone ==
  /\ \A t, u \in Thread : Opens(t) /\ Opens(u) /\ subject[t] = subject[u] => t = u
  /\ \A t \in Thread : step[t] = "opening" => pump[subject[t]] = "none"

\* A callback opens another handle than its own.
Elsewhere == Opens("dispatch") => subject["dispatch"] # running

OpenInv == Known /\ Alone /\ Elsewhere

\* One close() does the work, and only after it has set the flag.
OneCloser ==
  /\ \A t, u \in Thread : Closes(t) /\ Closes(u) => t = u
  /\ ~closed => taken = {} /\ ~isOver /\ \A t \in Thread : ~Closes(t)
  /\ closed => handles = {}
  /\ isOver => \A t \in Thread : ~Closes(t)
  /\ Closes("dispatch") => own = running

\* A handle that was opened is being registered, is registered, was dropped or
\* taken from the list, or came too late and is silent.
Placed ==
  /\ \A h \in Handle :
       pump[h] # "none" =>
          \/ Opening(h)
          \/ h \in handles \cup forgotten \cup taken
          \/ cancelled[h] /\ running # h
  /\ \A t \in Thread : step[t] = "late" => cancelled[subject[t]]

Silent(h) == cancelled[h] /\ (running = h => own = h)

\* Each handle that close() found is silent, or close() has yet to see to it.
Pursued ==
  \A h \in taken :
    \/ Silent(h)
    \/ \E t \in Thread :
         \/ step[t] \in {"closing", "closeFlagged"} /\ h \in todo[t]
         \/ step[t] = "closeFlagged" /\ subject[t] = h /\ cancelled[h]

\* An owned portal outlives the connection.
Outlived ==
  owned /\ (stopped \/ \E t \in Thread : step[t] \in {"finally", "joining"}) => socket = "closed"

CloseInv == OneCloser /\ Placed /\ Pursued /\ Outlived

SyncInv == TypeInv /\ OpenInv /\ CloseInv

-------------------------------------------------------------------------------
(* Types *)

LEMMA TypeInit == Init => TypeInv
<1> SUFFICES ASSUME Init
             PROVE  TypeInv
  OBVIOUS
<1>1. \A t \in Thread : step[t] = "out"
  BY DEF Init
<1>2. queue \in Seq(Handle \cup {"exit"})
  BY DEF Init
<1>3. sent \in [Handle -> 0 .. MaxItems]
  BY SyncAssumption DEF Init
<1>4. {t \in Thread : step[t] = "late"} = {lock} \ {None}
  BY <1>1 DEF Init
<1>5. TypeOK
  BY <1>2, <1>3, <1>4, NamesAssumption DEF Init, TypeOK
<1>6. Busy /\ Inside
  BY <1>1 DEF Busy, Inside, Opens, Thread
<1> QED
  BY <1>5, <1>6 DEF TypeInv

LEMMA TypeStep == TypeInv /\ [Next]_vars => TypeInv'
<1> SUFFICES ASSUME TypeInv, [Next]_vars
             PROVE  TypeInv'
  OBVIOUS
<1> USE DEF clientVars, threadVars, portalVars, closeVars, Goto, Flag
<1>t. TypeOK /\ Busy /\ Inside
  BY DEF TypeInv
<1>1. ASSUME NEW t \in Thread, Call(t)
      PROVE  TypeInv'
  BY <1>1, <1>t, SyncAssumption, NamesAssumption DEF Call, MayEnter, TypeInv, TypeOK, Busy, Inside, Opens, Thread
<1>2. ASSUME NEW t \in Thread, CallReturns(t)
      PROVE  TypeInv'
  BY <1>2, <1>t, SyncAssumption, NamesAssumption DEF CallReturns, TypeInv, TypeOK, Busy, Inside, Opens, Thread
<1>3. ASSUME NEW t \in Thread, CancelReturns(t)
      PROVE  TypeInv'
  BY <1>3, <1>t, SyncAssumption, NamesAssumption DEF CancelReturns, TypeInv, TypeOK, Busy, Inside, Opens, Thread
<1>4. ASSUME NEW t \in Thread, Opened(t)
      PROVE  TypeInv'
  BY <1>4, <1>t, SyncAssumption, NamesAssumption DEF Opened, TypeInv, TypeOK, Busy, Inside, Opens, Thread
<1>5. ASSUME NEW t \in Thread, OpenFails(t)
      PROVE  TypeInv'
  BY <1>5, <1>t, SyncAssumption, NamesAssumption DEF OpenFails, TypeInv, TypeOK, Busy, Inside, Opens, Thread
<1>6. ASSUME NEW t \in Thread, Register(t)
      PROVE  TypeInv'
  BY <1>6, <1>t, SyncAssumption, NamesAssumption DEF Register, TypeInv, TypeOK, Busy, Inside, Opens, Thread
<1>7. ASSUME NEW t \in Thread, CancelLate(t)
      PROVE  TypeInv'
  BY <1>7, <1>t, SyncAssumption, NamesAssumption DEF CancelLate, TypeInv, TypeOK, Busy, Inside, Opens, Thread
<1>8. ASSUME NEW t \in Thread, CancelLateReturns(t)
      PROVE  TypeInv'
  BY <1>8, <1>t, SyncAssumption, NamesAssumption DEF CancelLateReturns, TypeInv, TypeOK, Busy, Inside, Opens, Thread
<1>9. ASSUME NEW t \in Thread, Close(t)
      PROVE  TypeInv'
  BY <1>9, <1>t, SyncAssumption, NamesAssumption DEF Close, MayEnter, TypeInv, TypeOK, Busy, Inside, Opens, Thread
<1>10. ASSUME NEW t \in Thread, CloseAgain(t)
       PROVE  TypeInv'
  BY <1>10, <1>t, SyncAssumption, NamesAssumption DEF CloseAgain, TypeInv, TypeOK, Busy, Inside, Opens, Thread
<1>11. ASSUME NEW t \in Thread, TakeHandles(t)
       PROVE  TypeInv'
  BY <1>11, <1>t, SyncAssumption, NamesAssumption DEF TakeHandles, TypeInv, TypeOK, Busy, Inside, Opens, Thread
<1>12. ASSUME NEW t \in Thread, CloseCancelReturns(t)
       PROVE  TypeInv'
  BY <1>12, <1>t, SyncAssumption, NamesAssumption DEF CloseCancelReturns, TypeInv, TypeOK, Busy, Inside, Opens, Thread
<1>13. ASSUME NEW t \in Thread, Disconnect(t)
       PROVE  TypeInv'
  BY <1>13, <1>t, SyncAssumption, NamesAssumption DEF Disconnect, TypeInv, TypeOK, Busy, Inside, Opens, Thread
<1>14. ASSUME NEW t \in Thread, Disconnected(t)
       PROVE  TypeInv'
  BY <1>14, <1>t, SyncAssumption, NamesAssumption DEF Disconnected, TypeInv, TypeOK, Busy, Inside, Opens, Thread
<1>15. ASSUME NEW t \in Thread, StopPortal(t)
       PROVE  TypeInv'
  BY <1>15, <1>t, SyncAssumption, NamesAssumption DEF StopPortal, TypeInv, TypeOK, Busy, Inside, Opens, Thread
<1>16. ASSUME NEW t \in Thread, CloseReturns(t)
       PROVE  TypeInv'
  BY <1>16, <1>t, SyncAssumption, NamesAssumption DEF CloseReturns, TypeInv, TypeOK, Busy, Inside, Opens, Thread
<1>17. ASSUME NEW t \in Thread, NEW h \in Handle, Cancel(t, h)
       PROVE  TypeInv'
  BY <1>17, <1>t, SyncAssumption, NamesAssumption DEF Cancel, MayEnter, TypeInv, TypeOK, Busy, Inside, Opens, Thread
<1>18. ASSUME NEW t \in Thread, NEW h \in Handle, OnEvent(t, h)
       PROVE  TypeInv'
  BY <1>18, <1>t, SyncAssumption, NamesAssumption DEF OnEvent, MayEnter, TypeInv, TypeOK, Busy, Inside, Opens, Thread
<1>19. ASSUME NEW t \in Thread, NEW h \in Handle, CloseCancels(t, h)
       PROVE  TypeInv'
  BY <1>19, <1>t, SyncAssumption, NamesAssumption DEF CloseCancels, TypeInv, TypeOK, Busy, Inside, Opens, Thread
<1>20. ASSUME NEW h \in Handle, EventArrives(h)
       PROVE  TypeInv'
  BY <1>20, <1>t, SyncAssumption, NamesAssumption DEF EventArrives, TypeInv, TypeOK, Busy, Inside, Opens, Thread
<1>21. ASSUME NEW h \in Handle, PumpEnds(h)
       PROVE  TypeInv'
  BY <1>21, <1>t, SyncAssumption, NamesAssumption DEF PumpEnds, TypeInv, TypeOK, Busy, Inside, Opens, Thread
<1>22. CASE ConnectionLost
  BY <1>22, <1>t, SyncAssumption, NamesAssumption DEF ConnectionLost, TypeInv, TypeOK, Busy, Inside, Opens, Thread
<1>23. CASE OwnerStops
  BY <1>23, <1>t, SyncAssumption, NamesAssumption DEF OwnerStops, TypeInv, TypeOK, Busy, Inside, Opens, Thread
<1>24. CASE LoopStops
  BY <1>24, <1>t, SyncAssumption, NamesAssumption DEF LoopStops, TypeInv, TypeOK, Busy, Inside, Opens, Thread
<1>25. CASE Dispatch
  BY <1>25, <1>t, SyncAssumption, NamesAssumption DEF Dispatch, TypeInv, TypeOK, Busy, Inside, Opens, Thread
<1>26. CASE CallbackReturns
  BY <1>26, <1>t, SyncAssumption, NamesAssumption DEF CallbackReturns, TypeInv, TypeOK, Busy, Inside, Opens, Thread
<1>27. CASE UNCHANGED vars
  BY <1>27, <1>t, SyncAssumption, NamesAssumption DEF vars, TypeInv, TypeOK, Busy, Inside, Opens, Thread
<1> QED
  BY <1>1, <1>2, <1>3, <1>4, <1>5, <1>6, <1>7, <1>8, <1>9, <1>10, <1>11, <1>12, <1>13,
     <1>14, <1>15, <1>16, <1>17, <1>18, <1>19, <1>20, <1>21, <1>22, <1>23, <1>24, <1>25, <1>26, <1>27 DEF Next, Enter, GoOn

\* Every variable of the client has its type, and at most one thread waits
\* while it holds the client's lock, in on_event() (sync.py:328-330).
THEOREM TypeCorrect == Spec => []TypeOK
<1>1. TypeInv => TypeOK
  BY DEF TypeInv
<1> QED
  BY <1>1, TypeInit, TypeStep, PTL DEF Spec

-------------------------------------------------------------------------------
(* Opening *)

LEMMA OpenInit == Init => OpenInv
<1> SUFFICES ASSUME Init
             PROVE  OpenInv
  OBVIOUS
<1>1. \A t \in Thread : step[t] = "out"
  BY DEF Init
<1>2. running \notin Handle /\ \A i \in 1 .. Len(queue) : FALSE
  BY NamesAssumption DEF Init
<1> QED
  BY <1>1, <1>2 DEF OpenInv, Known, Alone, Elsewhere, Opens, Thread

\* A job is added to the dispatch queue.
LEMMA KnownAdds ==
  ASSUME TypeOK, Known, NEW x \in Handle \cup {"exit"}, queue' = Append(queue, x), running' = running,
         x \in Handle => pump[x] # "none",
         \A h \in Handle : pump[h] # "none" => pump'[h] # "none"
  PROVE  Known'
<1>1. queue \in Seq(Handle \cup {"exit"})
  BY DEF TypeOK
<1>2. Len(queue') = Len(queue) + 1 /\ Len(queue) \in Nat /\ queue'[Len(queue) + 1] = x
  BY <1>1
<1>3. \A i \in 1 .. Len(queue) : queue'[i] = queue[i]
  BY <1>1
<1>4. ASSUME NEW i \in 1 .. Len(queue'), queue'[i] \in Handle
      PROVE  pump'[queue'[i]] # "none"
  <2>1. i \in 1 .. Len(queue) \/ i = Len(queue) + 1
    BY <1>2
  <2> QED
    BY <2>1, <1>2, <1>3, <1>4 DEF Known
<1>5. running' \in Handle => pump'[running'] # "none"
  BY DEF Known
<1> QED
  BY <1>4, <1>5 DEF Known

\* The queue is the same, or has lost its first job.
LEMMA KnownKeeps ==
  ASSUME Known, queue' = queue, running' \in Handle => running' = running,
         \A h \in Handle : pump[h] # "none" => pump'[h] # "none"
  PROVE  Known'
  BY DEF Known

LEMMA OpenStep == TypeInv /\ TypeInv' /\ OpenInv /\ [Next]_vars => OpenInv'
<1> SUFFICES ASSUME TypeInv, TypeInv', OpenInv, [Next]_vars
             PROVE  OpenInv'
  OBVIOUS
<1> USE DEF clientVars, threadVars, portalVars, closeVars, Goto, Flag
<1>t. TypeOK /\ Busy /\ Inside /\ Known /\ Alone /\ Elsewhere
  BY DEF TypeInv, OpenInv
<1>1. ASSUME NEW t \in Thread, Call(t)
      PROVE  OpenInv'
  <2>1. Known'
    BY <1>1, <1>t, KnownKeeps DEF Call, TypeOK
  <2>2. Alone'
    BY <1>1, <1>t, NamesAssumption DEF Call, MayEnter, Alone, Opens, Busy, TypeOK
  <2>3. Elsewhere'
    BY <1>1, <1>t, NamesAssumption DEF Call, MayEnter, Elsewhere, Known, Opens, Inside, Busy, TypeOK, Thread
  <2> QED
    BY <2>1, <2>2, <2>3 DEF OpenInv
<1>2. ASSUME NEW t \in Thread, CallReturns(t)
      PROVE  OpenInv'
  <2>1. Known'
    BY <1>2, <1>t, KnownKeeps DEF CallReturns, TypeOK
  <2>2. Alone'
    BY <1>2, <1>t, NamesAssumption DEF CallReturns, Alone, Opens, Busy, TypeOK
  <2>3. Elsewhere'
    BY <1>2, <1>t, NamesAssumption DEF CallReturns, Elsewhere, Known, Opens, Inside, Busy, TypeOK, Thread
  <2> QED
    BY <2>1, <2>2, <2>3 DEF OpenInv
<1>3. ASSUME NEW t \in Thread, CancelReturns(t)
      PROVE  OpenInv'
  <2>1. Known'
    BY <1>3, <1>t, KnownKeeps DEF CancelReturns, TypeOK
  <2>2. Alone'
    BY <1>3, <1>t, NamesAssumption DEF CancelReturns, Alone, Opens, Busy, TypeOK
  <2>3. Elsewhere'
    BY <1>3, <1>t, NamesAssumption DEF CancelReturns, Elsewhere, Known, Opens, Inside, Busy, TypeOK, Thread
  <2> QED
    BY <2>1, <2>2, <2>3 DEF OpenInv
<1>4. ASSUME NEW t \in Thread, Opened(t)
      PROVE  OpenInv'
  <2>1. Known'
    BY <1>4, <1>t, KnownKeeps DEF Opened, TypeOK
  <2>2. Alone'
    BY <1>4, <1>t, NamesAssumption DEF Opened, Alone, Opens, Busy, TypeOK
  <2>3. Elsewhere'
    BY <1>4, <1>t, NamesAssumption DEF Opened, Elsewhere, Known, Opens, Inside, Busy, TypeOK, Thread
  <2> QED
    BY <2>1, <2>2, <2>3 DEF OpenInv
<1>5. ASSUME NEW t \in Thread, OpenFails(t)
      PROVE  OpenInv'
  <2>1. Known'
    BY <1>5, <1>t, KnownKeeps DEF OpenFails, TypeOK
  <2>2. Alone'
    BY <1>5, <1>t, NamesAssumption DEF OpenFails, Alone, Opens, Busy, TypeOK
  <2>3. Elsewhere'
    BY <1>5, <1>t, NamesAssumption DEF OpenFails, Elsewhere, Known, Opens, Inside, Busy, TypeOK, Thread
  <2> QED
    BY <2>1, <2>2, <2>3 DEF OpenInv
<1>6. ASSUME NEW t \in Thread, Register(t)
      PROVE  OpenInv'
  <2>1. Known'
    BY <1>6, <1>t, KnownKeeps DEF Register, TypeOK
  <2>2. Alone'
    BY <1>6, <1>t, NamesAssumption DEF Register, Alone, Opens, Busy, TypeOK
  <2>3. Elsewhere'
    BY <1>6, <1>t, NamesAssumption DEF Register, Elsewhere, Known, Opens, Inside, Busy, TypeOK, Thread
  <2> QED
    BY <2>1, <2>2, <2>3 DEF OpenInv
<1>7. ASSUME NEW t \in Thread, CancelLate(t)
      PROVE  OpenInv'
  <2>1. Known'
    BY <1>7, <1>t, KnownKeeps DEF CancelLate, TypeOK
  <2>2. Alone'
    BY <1>7, <1>t, NamesAssumption DEF CancelLate, Alone, Opens, Busy, TypeOK
  <2>3. Elsewhere'
    BY <1>7, <1>t, NamesAssumption DEF CancelLate, Elsewhere, Known, Opens, Inside, Busy, TypeOK, Thread
  <2> QED
    BY <2>1, <2>2, <2>3 DEF OpenInv
<1>8. ASSUME NEW t \in Thread, CancelLateReturns(t)
      PROVE  OpenInv'
  <2>1. Known'
    BY <1>8, <1>t, KnownKeeps DEF CancelLateReturns, TypeOK
  <2>2. Alone'
    BY <1>8, <1>t, NamesAssumption DEF CancelLateReturns, Alone, Opens, Busy, TypeOK
  <2>3. Elsewhere'
    BY <1>8, <1>t, NamesAssumption DEF CancelLateReturns, Elsewhere, Known, Opens, Inside, Busy, TypeOK, Thread
  <2> QED
    BY <2>1, <2>2, <2>3 DEF OpenInv
<1>9. ASSUME NEW t \in Thread, Close(t)
      PROVE  OpenInv'
  <2>1. Known'
    BY <1>9, <1>t, KnownKeeps DEF Close, TypeOK
  <2>2. Alone'
    BY <1>9, <1>t, NamesAssumption DEF Close, MayEnter, Alone, Opens, Busy, TypeOK
  <2>3. Elsewhere'
    BY <1>9, <1>t, NamesAssumption DEF Close, MayEnter, Elsewhere, Known, Opens, Inside, Busy, TypeOK, Thread
  <2> QED
    BY <2>1, <2>2, <2>3 DEF OpenInv
<1>10. ASSUME NEW t \in Thread, CloseAgain(t)
       PROVE  OpenInv'
  <2>1. Known'
    BY <1>10, <1>t, KnownKeeps DEF CloseAgain, TypeOK
  <2>2. Alone'
    BY <1>10, <1>t, NamesAssumption DEF CloseAgain, Alone, Opens, Busy, TypeOK
  <2>3. Elsewhere'
    BY <1>10, <1>t, NamesAssumption DEF CloseAgain, Elsewhere, Known, Opens, Inside, Busy, TypeOK, Thread
  <2> QED
    BY <2>1, <2>2, <2>3 DEF OpenInv
<1>11. ASSUME NEW t \in Thread, TakeHandles(t)
       PROVE  OpenInv'
  <2>1. Known'
    BY <1>11, <1>t, KnownKeeps DEF TakeHandles, TypeOK
  <2>2. Alone'
    BY <1>11, <1>t, NamesAssumption DEF TakeHandles, Alone, Opens, Busy, TypeOK
  <2>3. Elsewhere'
    BY <1>11, <1>t, NamesAssumption DEF TakeHandles, Elsewhere, Known, Opens, Inside, Busy, TypeOK, Thread
  <2> QED
    BY <2>1, <2>2, <2>3 DEF OpenInv
<1>12. ASSUME NEW t \in Thread, CloseCancelReturns(t)
       PROVE  OpenInv'
  <2>1. Known'
    BY <1>12, <1>t, KnownKeeps DEF CloseCancelReturns, TypeOK
  <2>2. Alone'
    BY <1>12, <1>t, NamesAssumption DEF CloseCancelReturns, Alone, Opens, Busy, TypeOK
  <2>3. Elsewhere'
    BY <1>12, <1>t, NamesAssumption DEF CloseCancelReturns, Elsewhere, Known, Opens, Inside, Busy, TypeOK, Thread
  <2> QED
    BY <2>1, <2>2, <2>3 DEF OpenInv
<1>13. ASSUME NEW t \in Thread, Disconnect(t)
       PROVE  OpenInv'
  <2>1. Known'
    BY <1>13, <1>t, KnownKeeps DEF Disconnect, TypeOK
  <2>2. Alone'
    BY <1>13, <1>t, NamesAssumption DEF Disconnect, Alone, Opens, Busy, TypeOK
  <2>3. Elsewhere'
    BY <1>13, <1>t, NamesAssumption DEF Disconnect, Elsewhere, Known, Opens, Inside, Busy, TypeOK, Thread
  <2> QED
    BY <2>1, <2>2, <2>3 DEF OpenInv
<1>14. ASSUME NEW t \in Thread, Disconnected(t)
       PROVE  OpenInv'
  <2>1. Known'
    BY <1>14, <1>t, KnownKeeps DEF Disconnected, TypeOK
  <2>2. Alone'
    BY <1>14, <1>t, NamesAssumption DEF Disconnected, Alone, Opens, Busy, TypeOK
  <2>3. Elsewhere'
    BY <1>14, <1>t, NamesAssumption DEF Disconnected, Elsewhere, Known, Opens, Inside, Busy, TypeOK, Thread
  <2> QED
    BY <2>1, <2>2, <2>3 DEF OpenInv
<1>15. ASSUME NEW t \in Thread, StopPortal(t)
       PROVE  OpenInv'
  <2>1. Known'
    <3>1. CASE stopped
      BY <1>15, <3>1, <1>t, KnownKeeps DEF StopPortal
    <3>2. CASE ~stopped
      <4>1. /\ queue' = Append(queue, "exit") /\ UNCHANGED <<running, pump>>
            /\ "exit" \in Handle \cup {"exit"} /\ "exit" \notin Handle
        BY <1>15, <3>2, NamesAssumption DEF StopPortal
      <4> QED
        BY <4>1, <1>t, KnownAdds
    <3> QED
      BY <3>1, <3>2
  <2>2. Alone'
    BY <1>15, <1>t, NamesAssumption DEF StopPortal, Alone, Opens, Busy, TypeOK
  <2>3. Elsewhere'
    BY <1>15, <1>t, NamesAssumption DEF StopPortal, Elsewhere, Known, Opens, Inside, Busy, TypeOK, Thread
  <2> QED
    BY <2>1, <2>2, <2>3 DEF OpenInv
<1>16. ASSUME NEW t \in Thread, CloseReturns(t)
       PROVE  OpenInv'
  <2>1. Known'
    BY <1>16, <1>t, KnownKeeps DEF CloseReturns, TypeOK
  <2>2. Alone'
    BY <1>16, <1>t, NamesAssumption DEF CloseReturns, Alone, Opens, Busy, TypeOK
  <2>3. Elsewhere'
    BY <1>16, <1>t, NamesAssumption DEF CloseReturns, Elsewhere, Known, Opens, Inside, Busy, TypeOK, Thread
  <2> QED
    BY <2>1, <2>2, <2>3 DEF OpenInv
<1>17. ASSUME NEW t \in Thread, NEW h \in Handle, Cancel(t, h)
       PROVE  OpenInv'
  <2>1. Known'
    BY <1>17, <1>t, KnownKeeps DEF Cancel, TypeOK
  <2>2. Alone'
    BY <1>17, <1>t, NamesAssumption DEF Cancel, MayEnter, Alone, Opens, Busy, TypeOK
  <2>3. Elsewhere'
    BY <1>17, <1>t, NamesAssumption DEF Cancel, MayEnter, Elsewhere, Known, Opens, Inside, Busy, TypeOK, Thread
  <2> QED
    BY <2>1, <2>2, <2>3 DEF OpenInv
<1>18. ASSUME NEW t \in Thread, NEW h \in Handle, OnEvent(t, h)
       PROVE  OpenInv'
  <2>1. Known'
    BY <1>18, <1>t, KnownKeeps DEF OnEvent, TypeOK
  <2>2. Alone'
    BY <1>18, <1>t, NamesAssumption DEF OnEvent, MayEnter, Opening, Alone, Opens, Busy, TypeOK
  <2>3. Elsewhere'
    BY <1>18, <1>t, NamesAssumption DEF OnEvent, MayEnter, Opening, Elsewhere, Known, Opens, Inside, Busy, TypeOK, Thread
  <2> QED
    BY <2>1, <2>2, <2>3 DEF OpenInv
<1>19. ASSUME NEW t \in Thread, NEW h \in Handle, CloseCancels(t, h)
       PROVE  OpenInv'
  <2>1. Known'
    BY <1>19, <1>t, KnownKeeps DEF CloseCancels, TypeOK
  <2>2. Alone'
    BY <1>19, <1>t, NamesAssumption DEF CloseCancels, Alone, Opens, Busy, TypeOK
  <2>3. Elsewhere'
    BY <1>19, <1>t, NamesAssumption DEF CloseCancels, Elsewhere, Known, Opens, Inside, Busy, TypeOK, Thread
  <2> QED
    BY <2>1, <2>2, <2>3 DEF OpenInv
<1>20. ASSUME NEW h \in Handle, EventArrives(h)
       PROVE  OpenInv'
  <2>1. Known'
    <3>1. queue' = Append(queue, h) /\ UNCHANGED <<running, pump>> /\ pump[h] # "none" /\ h \in Handle \cup {"exit"}
      BY <1>20 DEF EventArrives
    <3> QED
      BY <3>1, <1>t, KnownAdds
  <2>2. Alone'
    BY <1>20, <1>t, NamesAssumption DEF EventArrives, Alone, Opens, Busy, TypeOK
  <2>3. Elsewhere'
    BY <1>20, <1>t, NamesAssumption DEF EventArrives, Elsewhere, Known, Opens, Inside, Busy, TypeOK, Thread
  <2> QED
    BY <2>1, <2>2, <2>3 DEF OpenInv
<1>21. ASSUME NEW h \in Handle, PumpEnds(h)
       PROVE  OpenInv'
  <2>1. Known'
    <3>1. /\ running' = running /\ pump[h] # "none" /\ h \in Handle \cup {"exit"}
          /\ \A g \in Handle : pump[g] # "none" => pump'[g] # "none"
      BY <1>21, <1>t DEF PumpEnds, TypeOK
    <3>2. CASE queue' = queue
      BY <3>1, <3>2, <1>t, KnownKeeps
    <3>3. CASE queue' = Append(queue, h)
      BY <3>1, <3>3, <1>t, KnownAdds
    <3> QED
      BY <1>21, <3>2, <3>3 DEF PumpEnds
  <2>2. Alone'
    BY <1>21, <1>t, NamesAssumption DEF PumpEnds, Alone, Opens, Busy, TypeOK
  <2>3. Elsewhere'
    BY <1>21, <1>t, NamesAssumption DEF PumpEnds, Elsewhere, Known, Opens, Inside, Busy, TypeOK, Thread
  <2> QED
    BY <2>1, <2>2, <2>3 DEF OpenInv
<1>22. CASE ConnectionLost
  <2>1. Known'
    BY <1>22, <1>t, KnownKeeps DEF ConnectionLost, TypeOK
  <2>2. Alone'
    BY <1>22, <1>t, NamesAssumption DEF ConnectionLost, Alone, Opens, Busy, TypeOK
  <2>3. Elsewhere'
    BY <1>22, <1>t, NamesAssumption DEF ConnectionLost, Elsewhere, Known, Opens, Inside, Busy, TypeOK, Thread
  <2> QED
    BY <2>1, <2>2, <2>3 DEF OpenInv
<1>23. CASE OwnerStops
  <2>1. Known'
    <3>1. /\ queue' = Append(queue, "exit") /\ UNCHANGED <<running, pump>>
          /\ "exit" \in Handle \cup {"exit"} /\ "exit" \notin Handle
      BY <1>23, NamesAssumption DEF OwnerStops
    <3> QED
      BY <3>1, <1>t, KnownAdds
  <2>2. Alone'
    BY <1>23, <1>t, NamesAssumption DEF OwnerStops, Alone, Opens, Busy, TypeOK
  <2>3. Elsewhere'
    BY <1>23, <1>t, NamesAssumption DEF OwnerStops, Elsewhere, Known, Opens, Inside, Busy, TypeOK, Thread
  <2> QED
    BY <2>1, <2>2, <2>3 DEF OpenInv
<1>24. CASE LoopStops
  <2>1. Known'
    BY <1>24, <1>t, KnownKeeps DEF LoopStops, TypeOK
  <2>2. Alone'
    BY <1>24, <1>t, NamesAssumption DEF LoopStops, Alone, Opens, Busy, TypeOK
  <2>3. Elsewhere'
    BY <1>24, <1>t, NamesAssumption DEF LoopStops, Elsewhere, Known, Opens, Inside, Busy, TypeOK, Thread
  <2> QED
    BY <2>1, <2>2, <2>3 DEF OpenInv
<1>25. CASE Dispatch
  <2>1. Known'
    <3>1. /\ queue \in Seq(Handle \cup {"exit"}) /\ queue # <<>> /\ queue' = Tail(queue) /\ pump' = pump
          /\ running' = IF Head(queue) = "exit" THEN "exited"
                        ELSE IF cancelled[Head(queue)] THEN None ELSE Head(queue)
      BY <1>25, <1>t DEF Dispatch, TypeOK
    <3>2. /\ Len(queue') = Len(queue) - 1 /\ Len(queue) \in Nat /\ Len(queue) > 0 /\ Head(queue) = queue[1]
          /\ \A i \in 1 .. Len(queue') : queue'[i] = queue[i + 1]
      BY <3>1
    <3>3. ASSUME NEW i \in 1 .. Len(queue'), queue'[i] \in Handle
          PROVE  pump'[queue'[i]] # "none"
      <4>1. i + 1 \in 1 .. Len(queue)
        BY <3>2
      <4> QED
        BY <4>1, <3>1, <3>2, <3>3, <1>t DEF Known
    <3>4. running' \in Handle => pump'[running'] # "none"
      <4>1. 1 \in 1 .. Len(queue)
        BY <3>2
      <4>2. running' \in Handle => running' = queue[1]
        BY <3>1, <3>2, NamesAssumption
      <4> QED
        BY <4>1, <4>2, <3>1, <1>t DEF Known
    <3> QED
      BY <3>3, <3>4 DEF Known
  <2>2. Alone'
    BY <1>25, <1>t, NamesAssumption DEF Dispatch, Alone, Opens, Busy, TypeOK
  <2>3. Elsewhere'
    BY <1>25, <1>t, NamesAssumption DEF Dispatch, Elsewhere, Known, Opens, Inside, Busy, TypeOK, Thread
  <2> QED
    BY <2>1, <2>2, <2>3 DEF OpenInv
<1>26. CASE CallbackReturns
  <2>1. Known'
    <3>1. queue' = queue /\ pump' = pump /\ running' \notin Handle
      BY <1>26, NamesAssumption DEF CallbackReturns
    <3> QED
      BY <3>1, <1>t, KnownKeeps
  <2>2. Alone'
    BY <1>26, <1>t, NamesAssumption DEF CallbackReturns, Alone, Opens, Busy, TypeOK
  <2>3. Elsewhere'
    BY <1>26, <1>t, NamesAssumption DEF CallbackReturns, Elsewhere, Known, Opens, Inside, Busy, TypeOK, Thread
  <2> QED
    BY <2>1, <2>2, <2>3 DEF OpenInv
<1>27. CASE UNCHANGED vars
  <2>1. Known'
    BY <1>27, <1>t, KnownKeeps DEF vars, TypeOK
  <2>2. Alone'
    BY <1>27, <1>t, NamesAssumption DEF vars, Alone, Opens, Busy, TypeOK
  <2>3. Elsewhere'
    BY <1>27, <1>t, NamesAssumption DEF vars, Elsewhere, Known, Opens, Inside, Busy, TypeOK, Thread
  <2> QED
    BY <2>1, <2>2, <2>3 DEF OpenInv
<1> QED
  BY <1>1, <1>2, <1>3, <1>4, <1>5, <1>6, <1>7, <1>8, <1>9, <1>10, <1>11, <1>12, <1>13,
     <1>14, <1>15, <1>16, <1>17, <1>18, <1>19, <1>20, <1>21, <1>22, <1>23, <1>24, <1>25, <1>26, <1>27 DEF Next, Enter, GoOn

-------------------------------------------------------------------------------
(* Closing *)

LEMMA CloseInit == Init => CloseInv
<1> SUFFICES ASSUME Init
             PROVE  CloseInv
  OBVIOUS
<1>1. \A t \in Thread : step[t] = "out"
  BY DEF Init
<1>2. taken = {} /\ ~isOver /\ ~closed /\ handles = {} /\ ~stopped /\ \A h \in Handle : pump[h] = "none"
  BY DEF Init
<1> QED
  BY <1>1, <1>2 DEF CloseInv, OneCloser, Placed, Pursued, Outlived, Closes, Thread

LEMMA CloseStep == TypeInv /\ TypeInv' /\ OpenInv /\ CloseInv /\ [Next]_vars => CloseInv'
<1> SUFFICES ASSUME TypeInv, TypeInv', OpenInv, CloseInv, [Next]_vars
             PROVE  CloseInv'
  OBVIOUS
<1> USE DEF clientVars, threadVars, portalVars, closeVars, Goto, Flag
<1>t. /\ TypeOK /\ Busy /\ Inside /\ Known /\ Alone /\ Elsewhere
      /\ OneCloser /\ Placed /\ Pursued /\ Outlived
  BY DEF TypeInv, OpenInv, CloseInv
<1>1. ASSUME NEW t \in Thread, Call(t)
      PROVE  CloseInv'
  <2>1. OneCloser'
    BY <1>1, <1>t, NamesAssumption DEF Call, MayEnter, OneCloser, Closes, Inside, TypeOK, Thread
  <2>2. Placed'
    BY <1>1, <1>t, NamesAssumption DEF Call, MayEnter, Placed, Opening, Alone, Opens, Busy, TypeOK
  <2>3. Pursued'
    BY <1>1, <1>t, NamesAssumption DEF Call, MayEnter, Pursued, Silent, Busy, TypeOK
  <2>4. Outlived'
    BY <1>1, <1>t, NamesAssumption DEF Call, MayEnter, Outlived, OneCloser, Closes, TypeOK
  <2> QED
    BY <2>1, <2>2, <2>3, <2>4 DEF CloseInv
<1>2. ASSUME NEW t \in Thread, CallReturns(t)
      PROVE  CloseInv'
  <2>1. OneCloser'
    BY <1>2, <1>t, NamesAssumption DEF CallReturns, OneCloser, Closes, Inside, TypeOK, Thread
  <2>2. Placed'
    BY <1>2, <1>t, NamesAssumption DEF CallReturns, Placed, Opening, Alone, Opens, Busy, TypeOK
  <2>3. Pursued'
    BY <1>2, <1>t, NamesAssumption DEF CallReturns, Pursued, Silent, Busy, TypeOK
  <2>4. Outlived'
    BY <1>2, <1>t, NamesAssumption DEF CallReturns, Outlived, OneCloser, Closes, TypeOK
  <2> QED
    BY <2>1, <2>2, <2>3, <2>4 DEF CloseInv
<1>3. ASSUME NEW t \in Thread, CancelReturns(t)
      PROVE  CloseInv'
  <2>1. OneCloser'
    BY <1>3, <1>t, NamesAssumption DEF CancelReturns, OneCloser, Closes, Inside, TypeOK, Thread
  <2>2. Placed'
    BY <1>3, <1>t, NamesAssumption DEF CancelReturns, Placed, Opening, Alone, Opens, Busy, TypeOK
  <2>3. Pursued'
    BY <1>3, <1>t, NamesAssumption DEF CancelReturns, Pursued, Silent, Busy, TypeOK
  <2>4. Outlived'
    BY <1>3, <1>t, NamesAssumption DEF CancelReturns, Outlived, OneCloser, Closes, TypeOK
  <2> QED
    BY <2>1, <2>2, <2>3, <2>4 DEF CloseInv
<1>4. ASSUME NEW t \in Thread, Opened(t)
      PROVE  CloseInv'
  <2>1. OneCloser'
    BY <1>4, <1>t, NamesAssumption DEF Opened, OneCloser, Closes, Inside, TypeOK, Thread
  <2>2. Placed'
    BY <1>4, <1>t, NamesAssumption DEF Opened, Placed, Opening, Alone, Opens, Busy, TypeOK
  <2>3. Pursued'
    BY <1>4, <1>t, NamesAssumption DEF Opened, Pursued, Silent, Busy, TypeOK
  <2>4. Outlived'
    BY <1>4, <1>t, NamesAssumption DEF Opened, Outlived, OneCloser, Closes, TypeOK
  <2> QED
    BY <2>1, <2>2, <2>3, <2>4 DEF CloseInv
<1>5. ASSUME NEW t \in Thread, OpenFails(t)
      PROVE  CloseInv'
  <2>1. OneCloser'
    BY <1>5, <1>t, NamesAssumption DEF OpenFails, OneCloser, Closes, Inside, TypeOK, Thread
  <2>2. Placed'
    BY <1>5, <1>t, NamesAssumption DEF OpenFails, Placed, Opening, Alone, Opens, Busy, TypeOK
  <2>3. Pursued'
    BY <1>5, <1>t, NamesAssumption DEF OpenFails, Pursued, Silent, Busy, TypeOK
  <2>4. Outlived'
    BY <1>5, <1>t, NamesAssumption DEF OpenFails, Outlived, OneCloser, Closes, TypeOK
  <2> QED
    BY <2>1, <2>2, <2>3, <2>4 DEF CloseInv
<1>6. ASSUME NEW t \in Thread, Register(t)
      PROVE  CloseInv'
  <2>1. OneCloser'
    BY <1>6, <1>t, NamesAssumption DEF Register, OneCloser, Closes, Inside, TypeOK, Thread
  <2>2. Placed'
    BY <1>6, <1>t, NamesAssumption DEF Register, Placed, Opening, Alone, Opens, Busy, TypeOK
  <2>3. Pursued'
    BY <1>6, <1>t, NamesAssumption DEF Register, Pursued, Silent, Busy, TypeOK
  <2>4. Outlived'
    BY <1>6, <1>t, NamesAssumption DEF Register, Outlived, OneCloser, Closes, TypeOK
  <2> QED
    BY <2>1, <2>2, <2>3, <2>4 DEF CloseInv
<1>7. ASSUME NEW t \in Thread, CancelLate(t)
      PROVE  CloseInv'
  <2>1. OneCloser'
    BY <1>7, <1>t, NamesAssumption DEF CancelLate, OneCloser, Closes, Inside, TypeOK, Thread
  <2>2. Placed'
    BY <1>7, <1>t, NamesAssumption DEF CancelLate, Placed, Opening, Alone, Opens, Busy, TypeOK
  <2>3. Pursued'
    BY <1>7, <1>t, NamesAssumption DEF CancelLate, Pursued, Silent, Busy, TypeOK
  <2>4. Outlived'
    BY <1>7, <1>t, NamesAssumption DEF CancelLate, Outlived, OneCloser, Closes, TypeOK
  <2> QED
    BY <2>1, <2>2, <2>3, <2>4 DEF CloseInv
<1>8. ASSUME NEW t \in Thread, CancelLateReturns(t)
      PROVE  CloseInv'
  <2>1. OneCloser'
    BY <1>8, <1>t, NamesAssumption DEF CancelLateReturns, OneCloser, Closes, Inside, TypeOK, Thread
  <2>2. Placed'
    <3>1. cancelled[subject[t]] /\ running # subject[t]
      BY <1>8, <1>t DEF CancelLateReturns, LockFree, Placed, Elsewhere, Opens
    <3>2. ASSUME NEW h \in Handle, pump[h] # "none", h # subject[t], Opening(h)
          PROVE  Opening(h)'
      BY <1>8, <1>t, <3>2 DEF CancelLateReturns, Opening, TypeOK
    <3>3. /\ UNCHANGED <<pump, handles, forgotten, taken, cancelled, running>>
          /\ \A u \in Thread : step'[u] = "late" => step[u] = "late" /\ subject'[u] = subject[u]
      BY <1>8, <1>t DEF CancelLateReturns, TypeOK
    <3> QED
      BY <3>1, <3>2, <3>3, <1>t DEF Placed
  <2>3. Pursued'
    BY <1>8, <1>t, NamesAssumption DEF CancelLateReturns, Pursued, Silent, Busy, TypeOK
  <2>4. Outlived'
    BY <1>8, <1>t, NamesAssumption DEF CancelLateReturns, Outlived, OneCloser, Closes, TypeOK
  <2> QED
    BY <2>1, <2>2, <2>3, <2>4 DEF CloseInv
<1>9. ASSUME NEW t \in Thread, Close(t)
      PROVE  CloseInv'
  <2>1. OneCloser'
    BY <1>9, <1>t, NamesAssumption DEF Close, MayEnter, OneCloser, Closes, Inside, TypeOK, Thread
  <2>2. Placed'
    BY <1>9, <1>t, NamesAssumption DEF Close, MayEnter, Placed, Opening, Alone, Opens, Busy, TypeOK
  <2>3. Pursued'
    BY <1>9, <1>t, NamesAssumption DEF Close, MayEnter, Pursued, Silent, Busy, TypeOK
  <2>4. Outlived'
    BY <1>9, <1>t, NamesAssumption DEF Close, MayEnter, Outlived, OneCloser, Closes, TypeOK
  <2> QED
    BY <2>1, <2>2, <2>3, <2>4 DEF CloseInv
<1>10. ASSUME NEW t \in Thread, CloseAgain(t)
       PROVE  CloseInv'
  <2>1. OneCloser'
    BY <1>10, <1>t, NamesAssumption DEF CloseAgain, OneCloser, Closes, Inside, TypeOK, Thread
  <2>2. Placed'
    BY <1>10, <1>t, NamesAssumption DEF CloseAgain, Placed, Opening, Alone, Opens, Busy, TypeOK
  <2>3. Pursued'
    BY <1>10, <1>t, NamesAssumption DEF CloseAgain, Pursued, Silent, Busy, TypeOK
  <2>4. Outlived'
    BY <1>10, <1>t, NamesAssumption DEF CloseAgain, Outlived, OneCloser, Closes, TypeOK
  <2> QED
    BY <2>1, <2>2, <2>3, <2>4 DEF CloseInv
<1>11. ASSUME NEW t \in Thread, TakeHandles(t)
       PROVE  CloseInv'
  <2>1. OneCloser'
    BY <1>11, <1>t, NamesAssumption DEF TakeHandles, OneCloser, Closes, Inside, TypeOK, Thread
  <2>2. Placed'
    BY <1>11, <1>t DEF TakeHandles, Placed, Opening, OneCloser, TypeOK
  <2>3. Pursued'
    BY <1>11, <1>t, NamesAssumption DEF TakeHandles, Pursued, Silent, Busy, TypeOK
  <2>4. Outlived'
    BY <1>11, <1>t, NamesAssumption DEF TakeHandles, Outlived, OneCloser, Closes, TypeOK
  <2> QED
    BY <2>1, <2>2, <2>3, <2>4 DEF CloseInv
<1>12. ASSUME NEW t \in Thread, CloseCancelReturns(t)
       PROVE  CloseInv'
  <2>1. OneCloser'
    BY <1>12, <1>t, NamesAssumption DEF CloseCancelReturns, OneCloser, Closes, Inside, TypeOK, Thread
  <2>2. Placed'
    BY <1>12, <1>t, NamesAssumption DEF CloseCancelReturns, Placed, Opening, Alone, Opens, Busy, TypeOK
  <2>3. Pursued'
    <3>1. ASSUME cancelled[subject[t]]
          PROVE  Silent(subject[t])
      BY <1>12, <1>t, <3>1 DEF CloseCancelReturns, LockFree, OneCloser, Closes, Silent
    <3>2. /\ UNCHANGED <<taken, cancelled, running, own, todo>> /\ step[t] = "closeFlagged" /\ step'[t] = "closing"
          /\ \A u \in Thread \ {t} : step'[u] = step[u] /\ subject'[u] = subject[u]
      BY <1>12, <1>t DEF CloseCancelReturns, TypeOK
    <3>3. ASSUME NEW h \in taken, ~Silent(h)
          PROVE  \E u \in Thread :
                   \/ step'[u] \in {"closing", "closeFlagged"} /\ h \in todo[u]
                   \/ step'[u] = "closeFlagged" /\ subject'[u] = h /\ cancelled[h]
      <4>1. PICK u \in Thread :
              \/ step[u] \in {"closing", "closeFlagged"} /\ h \in todo[u]
              \/ step[u] = "closeFlagged" /\ subject[u] = h /\ cancelled[h]
        BY <3>3, <1>t DEF Pursued
      <4>2. CASE u = t
        BY <4>1, <4>2, <3>1, <3>2, <3>3
      <4>3. CASE u # t
        BY <4>1, <4>3, <3>2
      <4> QED
        BY <4>2, <4>3
    <3> QED
      BY <3>2, <3>3 DEF Pursued, Silent
  <2>4. Outlived'
    BY <1>12, <1>t, NamesAssumption DEF CloseCancelReturns, Outlived, OneCloser, Closes, TypeOK
  <2> QED
    BY <2>1, <2>2, <2>3, <2>4 DEF CloseInv
<1>13. ASSUME NEW t \in Thread, Disconnect(t)
       PROVE  CloseInv'
  <2>1. OneCloser'
    BY <1>13, <1>t, NamesAssumption DEF Disconnect, OneCloser, Closes, Inside, TypeOK, Thread
  <2>2. Placed'
    BY <1>13, <1>t, NamesAssumption DEF Disconnect, Placed, Opening, Alone, Opens, Busy, TypeOK
  <2>3. Pursued'
    BY <1>13, <1>t, NamesAssumption DEF Disconnect, Pursued, Silent, Busy, TypeOK
  <2>4. Outlived'
    BY <1>13, <1>t, NamesAssumption DEF Disconnect, Outlived, OneCloser, Closes, TypeOK
  <2> QED
    BY <2>1, <2>2, <2>3, <2>4 DEF CloseInv
<1>14. ASSUME NEW t \in Thread, Disconnected(t)
       PROVE  CloseInv'
  <2>1. OneCloser'
    BY <1>14, <1>t, NamesAssumption DEF Disconnected, OneCloser, Closes, Inside, TypeOK, Thread
  <2>2. Placed'
    BY <1>14, <1>t, NamesAssumption DEF Disconnected, Placed, Opening, Alone, Opens, Busy, TypeOK
  <2>3. Pursued'
    BY <1>14, <1>t, NamesAssumption DEF Disconnected, Pursued, Silent, Busy, TypeOK
  <2>4. Outlived'
    BY <1>14, <1>t, NamesAssumption DEF Disconnected, Outlived, OneCloser, Closes, TypeOK
  <2> QED
    BY <2>1, <2>2, <2>3, <2>4 DEF CloseInv
<1>15. ASSUME NEW t \in Thread, StopPortal(t)
       PROVE  CloseInv'
  <2>1. OneCloser'
    BY <1>15, <1>t, NamesAssumption DEF StopPortal, OneCloser, Closes, Inside, TypeOK, Thread
  <2>2. Placed'
    BY <1>15, <1>t, NamesAssumption DEF StopPortal, Placed, Opening, Alone, Opens, Busy, TypeOK
  <2>3. Pursued'
    BY <1>15, <1>t, NamesAssumption DEF StopPortal, Pursued, Silent, Busy, TypeOK
  <2>4. Outlived'
    BY <1>15, <1>t, NamesAssumption DEF StopPortal, Outlived, OneCloser, Closes, TypeOK
  <2> QED
    BY <2>1, <2>2, <2>3, <2>4 DEF CloseInv
<1>16. ASSUME NEW t \in Thread, CloseReturns(t)
       PROVE  CloseInv'
  <2>1. OneCloser'
    BY <1>16, <1>t, NamesAssumption DEF CloseReturns, OneCloser, Closes, Inside, TypeOK, Thread
  <2>2. Placed'
    BY <1>16, <1>t, NamesAssumption DEF CloseReturns, Placed, Opening, Alone, Opens, Busy, TypeOK
  <2>3. Pursued'
    BY <1>16, <1>t, NamesAssumption DEF CloseReturns, Pursued, Silent, Busy, TypeOK
  <2>4. Outlived'
    BY <1>16, <1>t, NamesAssumption DEF CloseReturns, Outlived, OneCloser, Closes, TypeOK
  <2> QED
    BY <2>1, <2>2, <2>3, <2>4 DEF CloseInv
<1>17. ASSUME NEW t \in Thread, NEW h \in Handle, Cancel(t, h)
       PROVE  CloseInv'
  <2>1. OneCloser'
    BY <1>17, <1>t, NamesAssumption DEF Cancel, MayEnter, OneCloser, Closes, Inside, TypeOK, Thread
  <2>2. Placed'
    BY <1>17, <1>t, NamesAssumption DEF Cancel, MayEnter, Placed, Opening, Alone, Opens, Busy, TypeOK
  <2>3. Pursued'
    BY <1>17, <1>t, NamesAssumption DEF Cancel, MayEnter, Pursued, Silent, Busy, TypeOK
  <2>4. Outlived'
    BY <1>17, <1>t, NamesAssumption DEF Cancel, MayEnter, Outlived, OneCloser, Closes, TypeOK
  <2> QED
    BY <2>1, <2>2, <2>3, <2>4 DEF CloseInv
<1>18. ASSUME NEW t \in Thread, NEW h \in Handle, OnEvent(t, h)
       PROVE  CloseInv'
  <2>1. OneCloser'
    BY <1>18, <1>t, NamesAssumption DEF OnEvent, MayEnter, OneCloser, Closes, Inside, TypeOK, Thread
  <2>2. Placed'
    BY <1>18, <1>t, NamesAssumption DEF OnEvent, MayEnter, Placed, Opening, Alone, Opens, Busy, TypeOK
  <2>3. Pursued'
    BY <1>18, <1>t, NamesAssumption DEF OnEvent, MayEnter, Pursued, Silent, Busy, TypeOK
  <2>4. Outlived'
    BY <1>18, <1>t, NamesAssumption DEF OnEvent, MayEnter, Outlived, OneCloser, Closes, TypeOK
  <2> QED
    BY <2>1, <2>2, <2>3, <2>4 DEF CloseInv
<1>19. ASSUME NEW t \in Thread, NEW h \in Handle, CloseCancels(t, h)
       PROVE  CloseInv'
  <2>1. OneCloser'
    BY <1>19, <1>t, NamesAssumption DEF CloseCancels, OneCloser, Closes, Inside, TypeOK, Thread
  <2>2. Placed'
    BY <1>19, <1>t, NamesAssumption DEF CloseCancels, Placed, Opening, Alone, Opens, Busy, TypeOK
  <2>3. Pursued'
    BY <1>19, <1>t, NamesAssumption DEF CloseCancels, Pursued, Silent, Busy, TypeOK
  <2>4. Outlived'
    BY <1>19, <1>t, NamesAssumption DEF CloseCancels, Outlived, OneCloser, Closes, TypeOK
  <2> QED
    BY <2>1, <2>2, <2>3, <2>4 DEF CloseInv
<1>20. ASSUME NEW h \in Handle, EventArrives(h)
       PROVE  CloseInv'
  <2>1. OneCloser'
    BY <1>20, <1>t, NamesAssumption DEF EventArrives, OneCloser, Closes, Inside, TypeOK, Thread
  <2>2. Placed'
    BY <1>20, <1>t, NamesAssumption DEF EventArrives, Placed, Opening, Alone, Opens, Busy, TypeOK
  <2>3. Pursued'
    BY <1>20, <1>t, NamesAssumption DEF EventArrives, Pursued, Silent, Busy, TypeOK
  <2>4. Outlived'
    BY <1>20, <1>t, NamesAssumption DEF EventArrives, Outlived, OneCloser, Closes, TypeOK
  <2> QED
    BY <2>1, <2>2, <2>3, <2>4 DEF CloseInv
<1>21. ASSUME NEW h \in Handle, PumpEnds(h)
       PROVE  CloseInv'
  <2>1. OneCloser'
    BY <1>21, <1>t, NamesAssumption DEF PumpEnds, OneCloser, Closes, Inside, TypeOK, Thread
  <2>2. Placed'
    BY <1>21, <1>t, NamesAssumption DEF PumpEnds, Placed, Opening, Alone, Opens, Busy, TypeOK
  <2>3. Pursued'
    BY <1>21, <1>t, NamesAssumption DEF PumpEnds, Pursued, Silent, Busy, TypeOK
  <2>4. Outlived'
    BY <1>21, <1>t, NamesAssumption DEF PumpEnds, Outlived, OneCloser, Closes, TypeOK
  <2> QED
    BY <2>1, <2>2, <2>3, <2>4 DEF CloseInv
<1>22. CASE ConnectionLost
  <2>1. OneCloser'
    BY <1>22, <1>t, NamesAssumption DEF ConnectionLost, OneCloser, Closes, Inside, TypeOK, Thread
  <2>2. Placed'
    BY <1>22, <1>t, NamesAssumption DEF ConnectionLost, Placed, Opening, Alone, Opens, Busy, TypeOK
  <2>3. Pursued'
    BY <1>22, <1>t, NamesAssumption DEF ConnectionLost, Pursued, Silent, Busy, TypeOK
  <2>4. Outlived'
    BY <1>22, <1>t, NamesAssumption DEF ConnectionLost, Outlived, OneCloser, Closes, TypeOK
  <2> QED
    BY <2>1, <2>2, <2>3, <2>4 DEF CloseInv
<1>23. CASE OwnerStops
  <2>1. OneCloser'
    BY <1>23, <1>t, NamesAssumption DEF OwnerStops, OneCloser, Closes, Inside, TypeOK, Thread
  <2>2. Placed'
    BY <1>23, <1>t, NamesAssumption DEF OwnerStops, Placed, Opening, Alone, Opens, Busy, TypeOK
  <2>3. Pursued'
    BY <1>23, <1>t, NamesAssumption DEF OwnerStops, Pursued, Silent, Busy, TypeOK
  <2>4. Outlived'
    BY <1>23, <1>t, NamesAssumption DEF OwnerStops, Outlived, OneCloser, Closes, TypeOK
  <2> QED
    BY <2>1, <2>2, <2>3, <2>4 DEF CloseInv
<1>24. CASE LoopStops
  <2>1. OneCloser'
    BY <1>24, <1>t, NamesAssumption DEF LoopStops, OneCloser, Closes, Inside, TypeOK, Thread
  <2>2. Placed'
    BY <1>24, <1>t, NamesAssumption DEF LoopStops, Placed, Opening, Alone, Opens, Busy, TypeOK
  <2>3. Pursued'
    BY <1>24, <1>t, NamesAssumption DEF LoopStops, Pursued, Silent, Busy, TypeOK
  <2>4. Outlived'
    BY <1>24, <1>t, NamesAssumption DEF LoopStops, Outlived, OneCloser, Closes, TypeOK
  <2> QED
    BY <2>1, <2>2, <2>3, <2>4 DEF CloseInv
<1>25. CASE Dispatch
  <2>1. OneCloser'
    BY <1>25, <1>t, NamesAssumption DEF Dispatch, OneCloser, Closes, Inside, TypeOK, Thread
  <2>2. Placed'
    BY <1>25, <1>t, NamesAssumption DEF Dispatch, Placed, Opening, Alone, Opens, Busy, TypeOK
  <2>3. Pursued'
    BY <1>25, <1>t, NamesAssumption DEF Dispatch, Pursued, Silent, Busy, TypeOK
  <2>4. Outlived'
    BY <1>25, <1>t, NamesAssumption DEF Dispatch, Outlived, OneCloser, Closes, TypeOK
  <2> QED
    BY <2>1, <2>2, <2>3, <2>4 DEF CloseInv
<1>26. CASE CallbackReturns
  <2>1. OneCloser'
    BY <1>26, <1>t, NamesAssumption DEF CallbackReturns, OneCloser, Closes, Inside, TypeOK, Thread
  <2>2. Placed'
    BY <1>26, <1>t, NamesAssumption DEF CallbackReturns, Placed, Opening, Alone, Opens, Busy, TypeOK
  <2>3. Pursued'
    BY <1>26, <1>t, NamesAssumption DEF CallbackReturns, Pursued, Silent, Busy, TypeOK
  <2>4. Outlived'
    BY <1>26, <1>t, NamesAssumption DEF CallbackReturns, Outlived, OneCloser, Closes, TypeOK
  <2> QED
    BY <2>1, <2>2, <2>3, <2>4 DEF CloseInv
<1>27. CASE UNCHANGED vars
  <2>1. OneCloser'
    BY <1>27, <1>t, NamesAssumption DEF vars, OneCloser, Closes, Inside, TypeOK, Thread
  <2>2. Placed'
    BY <1>27, <1>t, NamesAssumption DEF vars, Placed, Opening, Alone, Opens, Busy, TypeOK
  <2>3. Pursued'
    BY <1>27, <1>t, NamesAssumption DEF vars, Pursued, Silent, Busy, TypeOK
  <2>4. Outlived'
    BY <1>27, <1>t, NamesAssumption DEF vars, Outlived, OneCloser, Closes, TypeOK
  <2> QED
    BY <2>1, <2>2, <2>3, <2>4 DEF CloseInv
<1> QED
  BY <1>1, <1>2, <1>3, <1>4, <1>5, <1>6, <1>7, <1>8, <1>9, <1>10, <1>11, <1>12, <1>13,
     <1>14, <1>15, <1>16, <1>17, <1>18, <1>19, <1>20, <1>21, <1>22, <1>23, <1>24, <1>25, <1>26, <1>27 DEF Next, Enter, GoOn
\* The invariant of the client.
LEMMA Invariant == Spec => []SyncInv
<1> USE DEF SyncInv
<1>1. Init => SyncInv
  BY TypeInit, OpenInit, CloseInit
<1>2. SyncInv /\ [Next]_vars => SyncInv'
  BY TypeStep, OpenStep, CloseStep
<1> QED
  BY <1>1, <1>2, PTL DEF Spec

\* Once the close() that did the work has returned, no callback runs but that
\* which called it, one whose handle had been dropped from the list as
\* cancelled, and those of on_event() calls that have still to find the client
\* closed (sync.py:219-233, 326-334).
THEOREM ClosedIsSilent == Spec => []CloseSilences
<1>1. SyncInv => CloseSilences
  <2> SUFFICES ASSUME SyncInv, isOver, running \in Handle
               PROVE  running \in {own} \cup forgotten \/ Opening(running)
    BY DEF CloseSilences
  <2>1. TypeOK /\ Known /\ OneCloser /\ Placed /\ Pursued
    BY DEF SyncInv, TypeInv, OpenInv, CloseInv
  <2>2. handles = {} /\ \A t \in Thread : ~Closes(t)
    BY <2>1 DEF OneCloser, TypeOK
  <2>3. Opening(running) \/ running \in forgotten \cup taken
    BY <2>1, <2>2 DEF Known, Placed
  <2>4. running \in taken => running = own
    BY <2>1, <2>2 DEF Pursued, Silent, Closes
  <2> QED
    BY <2>3, <2>4
<1> QED
  BY <1>1, Invariant, PTL

\* When aclose() runs, every handle that close() found is cancelled and no
\* callback of it is running, but the one close() was called from; and an
\* owned portal is stopped only after the connection has been closed
\* (sync.py:226-233).
THEOREM ClosedInOrder == Spec => []ClosesInOrder
<1>1. SyncInv => ClosesInOrder
  <2> SUFFICES ASSUME SyncInv
               PROVE  ClosesInOrder
    OBVIOUS
  <2>1. OneCloser /\ Pursued /\ Outlived
    BY DEF SyncInv, CloseInv
  <2>2. ASSUME (\E t \in Thread : step[t] \in {"aclosing", "finally", "joining"}) \/ isOver, NEW h \in taken
        PROVE  cancelled[h] /\ (running = h => own = h)
    <3>1. \A t \in Thread : step[t] \notin {"closing", "closeFlagged"}
      <4>1. CASE isOver
        BY <4>1, <2>1 DEF OneCloser, Closes
      <4>2. CASE \E t \in Thread : step[t] \in {"aclosing", "finally", "joining"}
        BY <4>2, <2>1 DEF OneCloser, Closes
      <4> QED
        BY <2>2, <4>1, <4>2
    <3> QED
      BY <3>1, <2>1 DEF Pursued, Silent
  <2>3. owned /\ stopped => socket = "closed"
    BY <2>1 DEF Outlived
  <2> QED
    BY <2>2, <2>3 DEF ClosesInOrder
<1> QED
  BY <1>1, Invariant, PTL

===============================================================================
