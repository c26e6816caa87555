--------------------------- MODULE LifecycleProofs ---------------------------
(***************************************************************************)
(* Proofs about Lifecycle, for every set of tasks that connect, close and  *)
(* wait, and every set of background tasks.                                *)
(*                                                                         *)
(* LInv is the inductive invariant.  That "closed" is true when it is said *)
(* needs to know which states go with which socket and reader (Stages) and *)
(* that one task at most is dialling (Dials); that nothing runs after      *)
(* aclose() needs to know what its callers wait for (Closers).             *)
(***************************************************************************)
EXTENDS Lifecycle, TLAPS

\* What the state says of the socket, the reader and the background.
Stages ==
  /\ closed <=> state = "closed"
  /\ state \in {"new", "connecting"} => socket = "none" /\ reader = "none"
  /\ state = "open" => socket # "none" /\ reader = "running"
  /\ state = "closed" => socket \in {"none", "down"} /\ reader # "running"
  /\ reader = "done" => state = "closed"
  /\ reader = "none" => background = {} /\ socket # "up"

\* The task that dials is alone, and holds the only socket there may be.
Dials ==
  \A o \in Opener :
    /\ opener[o] = "dialling" => state \in {"connecting", "closing"} /\ socket = "none" /\ reader = "none"
    /\ opener[o] = "discarding" => state = "closing" /\ socket # "none" /\ reader = "none"

\* What a caller of aclose() waits for is what is left of the connection.
Closers ==
  \A c \in Closer :
    /\ closer[c] \in Waiting \cup {"returned"} => state \in {"closing", "closed"}
    /\ closer[c] = "event" => reader = "none"
    /\ closer[c] = "handshake" => reader # "none"
    /\ closer[c] = "background" => reader # "running" /\ background \subseteq awaited[c]
    /\ closer[c] \in {"background", "returned"} => state = "closed" \/ reader = "none"
    /\ closer[c] = "returned" => reader # "running" /\ background = {}

LInv == TypeOK /\ Stages /\ Dials /\ Closers

-------------------------------------------------------------------------------
(* connect() *)

LEMMA ConnectKeeps == ASSUME LInv, NEW o \in Opener, Connect(o) PROVE LInv'
<1> USE DEF LInv
<1>1. \A p \in Opener : opener[p] \in Dialling => state \notin {"new", "open"}
  BY DEF TypeOK, Dials, Stages, Dialling
<1>2. TypeOK'
  BY <1>1 DEF Connect, TypeOK, Dialling
<1>3. Stages'
  BY DEF Connect, TypeOK, Stages
<1>4. Dials'
  BY <1>1 DEF Connect, TypeOK, Stages, Dials, Dialling
<1>5. Closers'
  BY DEF Connect, TypeOK, Closers, Waiting
<1> QED BY <1>2, <1>3, <1>4, <1>5

\* While one task dials, no other does.
LEMMA OneDials ==
  ASSUME LInv, NEW o \in Opener, opener[o] \in Dialling,
         NEW how \in {"connected", "discarding", "failed", "cancelled", "closed", "abandoned"},
         opener' = [opener EXCEPT ![o] = how]
  PROVE  /\ opener'[o] = how
         /\ \A p \in Opener : p # o => opener'[p] = opener[p] /\ opener[p] \notin Dialling
         /\ opener' \in [Opener -> Dialling \cup {"idle", "connected", "refused", "failed",
                                                 "closed", "cancelled", "abandoned"}]
         /\ \A p, q \in Opener : {opener'[p], opener'[q]} \subseteq Dialling => p = q
  BY DEF LInv, TypeOK, Dialling

LEMMA DialledKeeps == ASSUME LInv, NEW o \in Opener, Dialled(o) PROVE LInv'
<1> USE DEF LInv
<1>1. /\ opener[o] = "dialling" /\ opener[o] \in Dialling
      /\ socket = "none" /\ reader = "none" /\ state \in {"connecting", "closing"}
      /\ UNCHANGED <<closed, background, closer, awaited, waiter>>
  BY DEF Dialled, Dials, Dialling
<1>2. CASE /\ state = "connecting" /\ state' = "open" /\ socket' = "up" /\ reader' = "running"
           /\ opener' = [opener EXCEPT ![o] = "connected"]
  <2>1. TypeOK' /\ Dials'
    BY <1>1, <1>2, OneDials DEF TypeOK, Dials, Dialling
  <2>2. Stages'
    BY <1>1, <1>2 DEF TypeOK, Stages
  <2>3. Closers'
    BY <1>1, <1>2 DEF TypeOK, Closers, Waiting
  <2> QED BY <2>1, <2>2, <2>3
<1>3. CASE /\ state # "connecting" /\ socket' = "closing"
           /\ opener' = [opener EXCEPT ![o] = "discarding"] /\ UNCHANGED <<state, reader>>
  <2>1. TypeOK' /\ Dials'
    BY <1>1, <1>3, OneDials DEF TypeOK, Dials, Dialling
  <2>2. Stages'
    BY <1>1, <1>3 DEF TypeOK, Stages
  <2>3. Closers'
    BY <1>1, <1>3 DEF TypeOK, Closers, Waiting
  <2> QED BY <2>1, <2>2, <2>3
<1> QED BY <1>2, <1>3 DEF Dialled

LEMMA GivesUpKeeps ==
  ASSUME LInv, NEW o \in Opener, DialFails(o) \/ Discarded(o)
  PROVE  LInv'
<1> USE DEF LInv
<1>1. /\ opener[o] \in Dialling
      /\ reader = "none" /\ socket \in {"none", "down"} /\ state # "open"
      /\ state' = "closed" /\ closed' = TRUE
      /\ UNCHANGED <<socket, reader, background, closer, awaited, waiter>>
  BY DEF DialFails, Discarded, MarkClosed, Dials, Dialling
<1>2. PICK how \in {"failed", "cancelled", "closed"} : opener' = [opener EXCEPT ![o] = how]
  BY DEF DialFails, Discarded
<1>3. TypeOK' /\ Dials'
  BY <1>1, <1>2, OneDials DEF TypeOK, Dials, Dialling
<1>4. Stages'
  BY <1>1 DEF TypeOK, Stages
<1>5. Closers'
  BY <1>1 DEF TypeOK, Closers, Waiting
<1> QED BY <1>3, <1>4, <1>5

LEMMA AbandonKeeps == ASSUME LInv, NEW o \in Opener, Abandon(o) PROVE LInv'
<1> USE DEF LInv
<1>1. /\ opener[o] \in Dialling
      /\ opener' = [opener EXCEPT ![o] = "abandoned"]
      /\ UNCHANGED <<state, reader, closed, background, socket, closer, awaited, waiter>>
  BY DEF Abandon, client, Dialling
<1>2. TypeOK' /\ Dials'
  BY <1>1, OneDials DEF TypeOK, Dials, Dialling
<1>3. Stages' /\ Closers'
  BY <1>1 DEF Stages, Closers
<1> QED BY <1>2, <1>3

-------------------------------------------------------------------------------
(* aclose() *)

\* Whatever ProceedTo chooses, it is right for a client that is closing.
LEMMA ProceedKeeps ==
  ASSUME LInv, NEW c \in Closer, ProceedTo(c), state \in {"closing", "closed"},
         UNCHANGED <<client, socket, opener, waiter>>
  PROVE  LInv'
<1> USE DEF LInv
<1>1. UNCHANGED <<state, reader, closed, background>>
  BY DEF client
<1>2. TypeOK'
  BY <1>1 DEF ProceedTo, TypeOK, Waiting
<1>3. Stages' /\ Dials'
  BY <1>1 DEF Stages, Dials
<1>4. Closers'
  BY <1>1 DEF ProceedTo, TypeOK, Stages, Closers, Waiting
<1> QED BY <1>2, <1>3, <1>4

LEMMA AcloseKeeps == ASSUME LInv, NEW c \in Closer, Aclose(c) PROVE LInv'
<1> USE DEF LInv
<1>0. UNCHANGED <<reader, background, opener, waiter>>
  BY DEF Aclose
<1>1. CASE /\ state = "new" /\ MarkClosed
           /\ closer' = [closer EXCEPT ![c] = "returned"] /\ UNCHANGED <<socket, awaited>>
  <2>1. \A o \in Opener : opener[o] \notin Dialling
    BY <1>1 DEF Dials, Dialling
  <2>2. TypeOK' /\ Stages'
    BY <1>0, <1>1 DEF MarkClosed, TypeOK, Stages, Waiting
  <2>3. Dials' /\ Closers'
    BY <1>0, <1>1, <2>1 DEF MarkClosed, TypeOK, Stages, Dials, Dialling, Closers, Waiting
  <2> QED BY <2>2, <2>3
<1>2. CASE /\ state = "connecting" /\ state' = "closing"
           /\ closer' = [closer EXCEPT ![c] = "event"] /\ UNCHANGED <<socket, closed, awaited>>
  <2>1. TypeOK' /\ Stages' /\ Dials'
    BY <1>0, <1>2 DEF TypeOK, Stages, Dials, Waiting
  <2>2. Closers'
    BY <1>0, <1>2 DEF TypeOK, Stages, Closers, Waiting
  <2> QED BY <2>1, <2>2
<1>3. CASE /\ state = "open" /\ state' = "closing"
           /\ socket' = IF socket = "up" THEN "closing" ELSE socket
           /\ closer' = [closer EXCEPT ![c] = "handshake"] /\ UNCHANGED <<closed, awaited>>
  <2>1. \A o \in Opener : opener[o] \notin Dialling
    BY <1>3 DEF Dials, Dialling
  <2>2. TypeOK' /\ Stages' /\ Dials'
    BY <1>0, <1>3, <2>1 DEF TypeOK, Stages, Dials, Dialling, Waiting
  <2>3. Closers'
    BY <1>0, <1>3 DEF TypeOK, Stages, Closers, Waiting
  <2> QED BY <2>2, <2>3
<1>4. CASE state \in {"closing", "closed"} /\ ProceedTo(c) /\ UNCHANGED <<state, socket, closed>>
  BY <1>0, <1>4, ProceedKeeps DEF client
<1> QED BY <1>1, <1>2, <1>3, <1>4 DEF Aclose

LEMMA CloserKeeps ==
  ASSUME LInv, NEW c \in Closer,
         ConnectGaveUp(c) \/ ReaderNext(c) \/ BackgroundOver(c) \/ CancelAclose(c)
  PROVE  LInv'
<1> USE DEF LInv
<1>1. CASE ReaderNext(c)
  <2>1. state \in {"closing", "closed"}
    BY <1>1 DEF ReaderNext, Closers, Waiting
  <2> QED BY <1>1, <2>1, ProceedKeeps DEF ReaderNext
<1>2. CASE ConnectGaveUp(c) \/ BackgroundOver(c) \/ CancelAclose(c)
  <2>1. UNCHANGED <<state, reader, closed, background, socket, opener, awaited, waiter>>
    BY <1>2 DEF ConnectGaveUp, BackgroundOver, CancelAclose, client
  <2>2. TypeOK'
    BY <1>2, <2>1 DEF ConnectGaveUp, BackgroundOver, CancelAclose, TypeOK, Waiting
  <2>3. Stages' /\ Dials'
    BY <2>1 DEF Stages, Dials
  <2>4. CASE ConnectGaveUp(c)
    <3>1. Closers'
      BY <2>1, <2>4 DEF ConnectGaveUp, TypeOK, Stages, Closers, Waiting
    <3> QED BY <2>2, <2>3, <3>1
  <2>5. CASE BackgroundOver(c)
    <3>1. background = {}
      BY <2>5 DEF BackgroundOver, Closers
    <3>2. Closers'
      BY <2>1, <2>5, <3>1 DEF BackgroundOver, TypeOK, Stages, Closers, Waiting
    <3> QED BY <2>2, <2>3, <3>2
  <2>6. CASE CancelAclose(c)
    <3>1. Closers'
      BY <2>1, <2>6 DEF CancelAclose, TypeOK, Closers, Waiting
    <3> QED BY <2>2, <2>3, <3>1
  <2> QED BY <1>2, <2>4, <2>5, <2>6
<1> QED BY <1>1, <1>2

-------------------------------------------------------------------------------
(* wait_closed(), the connection and the background *)

LEMMA WaiterKeeps ==
  ASSUME LInv, NEW w \in Waiter, WaitClosed(w) \/ WaiterWakes(w) \/ CancelWait(w)
  PROVE  LInv'
<1>1. UNCHANGED <<state, reader, closed, background, socket, opener, closer, awaited>>
  BY DEF WaitClosed, WaiterWakes, CancelWait, client
<1>2. waiter' \in [Waiter -> {"idle", "waiting", "returned", "cancelled"}]
  BY DEF LInv, TypeOK, WaitClosed, WaiterWakes, CancelWait
<1> QED BY <1>1, <1>2 DEF LInv, TypeOK, Stages, Dials, Closers

LEMMA SocketKeeps == ASSUME LInv, SocketEnds PROVE LInv'
  BY DEF LInv, SocketEnds, client, callers, TypeOK, Stages, Dials, Closers

LEMMA ReaderKeeps == ASSUME LInv, ReaderEnds \/ ReaderFails PROVE LInv'
<1> USE DEF LInv
<1>1. /\ reader = "running" /\ reader' = "done" /\ state' = "closed" /\ closed' = TRUE
      /\ socket' = "down"
      /\ UNCHANGED <<background, opener, closer, awaited, waiter>>
  BY DEF ReaderEnds, ReaderFails, OnDisconnect, callers
<1>2. \A o \in Opener : opener[o] \notin Dialling
  BY <1>1 DEF Dials, Dialling
<1>3. TypeOK' /\ Stages' /\ Dials'
  BY <1>1, <1>2 DEF TypeOK, Stages, Dials, Dialling
<1>4. Closers'
  BY <1>1 DEF TypeOK, Closers, Waiting
<1> QED BY <1>3, <1>4

LEMMA BackgroundKeeps ==
  ASSUME LInv, NEW b \in Background, Spawn(b) \/ BackgroundEnds(b)
  PROVE  LInv'
<1> USE DEF LInv
<1>1. UNCHANGED <<state, reader, closed, socket, opener, closer, awaited, waiter>>
  BY DEF Spawn, BackgroundEnds, callers
<1>2. TypeOK' /\ Stages' /\ Dials'
  BY <1>1 DEF Spawn, BackgroundEnds, TypeOK, Stages, Dials
<1>3. Closers'
  BY <1>1 DEF Spawn, BackgroundEnds, Closers, Waiting
<1> QED BY <1>2, <1>3

-------------------------------------------------------------------------------
(* The inductive invariant *)

LEMMA LInvInit == Init => LInv
<1> SUFFICES ASSUME Init PROVE LInv
  OBVIOUS
<1>1. closed \in BOOLEAN
  BY Zenon DEF Init
<1>2. TypeOK
  BY <1>1 DEF Init, TypeOK, Dialling, Waiting
<1>3. Stages /\ Dials /\ Closers
  BY DEF Init, Stages, Dials, Closers, Waiting
<1> QED BY <1>2, <1>3 DEF LInv

LEMMA LInvNext == LInv /\ [Next]_vars => LInv'
<1> SUFFICES ASSUME LInv, [Next]_vars PROVE LInv'
  OBVIOUS
<1>1. CASE UNCHANGED vars
  BY <1>1 DEF vars, client, callers, LInv, TypeOK, Stages, Dials, Closers
<1> QED BY <1>1, ConnectKeeps, DialledKeeps, GivesUpKeeps, AbandonKeeps, AcloseKeeps, CloserKeeps,
           WaiterKeeps, SocketKeeps, ReaderKeeps, BackgroundKeeps DEF Next

LEMMA LInvAlways == Spec => []LInv
  BY LInvInit, LInvNext, PTL DEF Spec

\* Every variable keeps its type, and one task at most is in the handshake
\* (AsyncBridgeClient.connect).
THEOREM LifecycleTypeCorrect == Spec => []TypeOK
<1>1. LInv => TypeOK
  BY DEF LInv
<1> QED BY <1>1, LInvAlways, PTL

\* Whoever finds the client closed finds no live socket and no running reader
\* (_closed_event, set by _mark_closed and _on_disconnect), and an open socket
\* always has a reader (AsyncBridgeClient.connect).
THEOREM ClosedIsOverHolds == Spec => []ClosedIsOver
<1>1. LInv => ClosedIsOver
  BY DEF LInv, TypeOK, Stages, ClosedIsOver
<1> QED BY <1>1, LInvAlways, PTL

\* When aclose() has returned, neither the reader nor a background task runs
\* (AsyncBridgeClient.aclose).
THEOREM NothingRunsAfterAcloseHolds == Spec => []NothingRunsAfterAclose
<1>1. LInv => NothingRunsAfterAclose
  BY DEF LInv, Closers, NothingRunsAfterAclose
<1> QED BY <1>1, LInvAlways, PTL

\* The state of a client only advances: a connect() that comes back after
\* aclose() does not open it again (AsyncBridgeClient.connect).
THEOREM StateOnlyAdvancesHolds == Spec => StateOnlyAdvances
<1>1. LInv /\ [Next]_vars => [Rank[state'] >= Rank[state]]_vars
  <2> SUFFICES ASSUME LInv, Next PROVE Rank[state'] >= Rank[state]
    OBVIOUS
  <2>1. \/ state' = state
        \/ state = "new" /\ state' \in {"connecting", "closed"}
        \/ state = "connecting" /\ state' \in {"open", "closing", "closed"}
        \/ state = "open" /\ state' = "closing"
        \/ state' = "closed"
    BY DEF LInv, Dials, Next, Connect, Dialled, DialFails, Discarded, Abandon, MarkClosed, Aclose,
           ConnectGaveUp, ReaderNext, BackgroundOver, CancelAclose, WaitClosed, WaiterWakes,
           CancelWait, SocketEnds, ReaderEnds, ReaderFails, OnDisconnect, Spawn, BackgroundEnds,
           client, callers
  <2>2. /\ Rank["new"] = 0 /\ Rank["connecting"] = 1 /\ Rank["open"] = 2
        /\ Rank["closing"] = 3 /\ Rank["closed"] = 4
    BY DEF Rank
  <2> QED BY <2>1, <2>2 DEF LInv, TypeOK
<1> QED BY <1>1, LInvAlways, PTL DEF Spec, StateOnlyAdvances
================================================================================
