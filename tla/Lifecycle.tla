------------------------------- MODULE Lifecycle -------------------------------
(***************************************************************************)
(* The life of one AsyncBridgeClient: connect(), aclose() and              *)
(* wait_closed(), called by any number of tasks, around one WebSocket and  *)
(* the reader that owns it.                                                *)
(*                                                                         *)
(* Each action is what one task does between two awaits.  What travels     *)
(* over the connection is the business of Requests and Subscriptions; here *)
(* only the tasks of the background, which aclose() awaits, are left of    *)
(* it.                                                                     *)
(***************************************************************************)
EXTENDS Naturals

CONSTANTS
  Opener,    \* tasks that call connect()
  Closer,    \* tasks that call aclose()
  Waiter,    \* tasks that call wait_closed()
  Background \* tasks that may be in _background

VARIABLES
  state,      \* _state
  socket,     \* the WebSocket: "none", "up", "closing" (close frame sent) or "down"
  reader,     \* _reader: "none", "running" or "done"
  closed,     \* _closed_event is set
  background, \* _background
  opener,     \* per task: where it is in connect(), or how that ended
  closer,     \* per task: what it awaits in aclose(), or how that ended
  awaited,    \* per task: the background tasks its aclose() waits for
  waiter      \* per task: where it is in wait_closed()

client == <<state, reader, closed, background>>
callers == <<opener, closer, awaited, waiter>>
vars == <<client, socket, callers>>

Dialling == {"dialling", "discarding"}
Waiting == {"event", "handshake", "reader", "background"}

TypeOK ==
  /\ state \in {"new", "connecting", "open", "closing", "closed"}
  /\ socket \in {"none", "up", "closing", "down"}
  /\ reader \in {"none", "running", "done"}
  /\ closed \in BOOLEAN
  /\ background \in SUBSET Background
  /\ opener \in [Opener -> Dialling \cup {"idle", "connected", "refused", "failed",
                                         "closed", "cancelled", "abandoned"}]
  /\ \A o, p \in Opener : {opener[o], opener[p]} \subseteq Dialling => o = p
  /\ closer \in [Closer -> Waiting \cup {"idle", "returned", "cancelled"}]
  /\ awaited \in [Closer -> SUBSET Background]
  /\ waiter \in [Waiter -> {"idle", "waiting", "returned", "cancelled"}]

Init ==
  /\ state = "new"
  /\ socket = "none"
  /\ reader = "none"
  /\ closed = FALSE
  /\ background = {}
  /\ opener = [o \in Opener |-> "idle"]
  /\ closer = [c \in Closer |-> "idle"]
  /\ awaited = [c \in Closer |-> {}]
  /\ waiter = [w \in Waiter |-> "idle"]

MarkClosed == state' = "closed" /\ closed' = TRUE

-------------------------------------------------------------------------------
(* connect() *)

\* Connect, had it refused only a client that is closing or closed.
ConnectTwice(o) ==
  /\ opener[o] = "idle"
  /\ \/ /\ state \in {"new", "connecting"}
        /\ state' = "connecting"
        /\ opener' = [opener EXCEPT ![o] = "dialling"]
     \/ /\ state = "open"
        /\ opener' = [opener EXCEPT ![o] = "connected"]
        /\ UNCHANGED state
     \/ /\ state \in {"closing", "closed"}
        /\ opener' = [opener EXCEPT ![o] = "refused"]
        /\ UNCHANGED state
  /\ UNCHANGED <<socket, reader, closed, background, closer, awaited, waiter>>

\* Only a new client connects; an open one is returned as it is.
Connect(o) ==
  /\ opener[o] = "idle"
  /\ \/ /\ state = "new"
        /\ state' = "connecting"
        /\ opener' = [opener EXCEPT ![o] = "dialling"]
     \/ /\ state = "open"
        /\ opener' = [opener EXCEPT ![o] = "connected"]
        /\ UNCHANGED state
     \/ /\ state \notin {"new", "open"}
        /\ opener' = [opener EXCEPT ![o] = "refused"]
        /\ UNCHANGED state
  /\ UNCHANGED <<socket, reader, closed, background, closer, awaited, waiter>>

\* Dialled, had connect() not looked at the state again.
DialledUnchecked(o) ==
  /\ opener[o] = "dialling"
  /\ state' = "open"
  /\ socket' = "up"
  /\ reader' = "running"
  /\ opener' = [opener EXCEPT ![o] = "connected"]
  /\ UNCHANGED <<closed, background, closer, awaited, waiter>>

\* ws_connect() returns.  If aclose() ran meanwhile the new socket is closed
\* again; otherwise the reader takes it.
Dialled(o) ==
  /\ opener[o] = "dialling"
  /\ \/ /\ state = "connecting"
        /\ state' = "open"
        /\ socket' = "up"
        /\ reader' = "running"
        /\ opener' = [opener EXCEPT ![o] = "connected"]
     \/ /\ state # "connecting"
        /\ socket' = "closing"
        /\ opener' = [opener EXCEPT ![o] = "discarding"]
        /\ UNCHANGED <<state, reader>>
  /\ UNCHANGED <<closed, background, closer, awaited, waiter>>

\* DialFails, had the callers of aclose() been left to the reader.
DialFailsQuietly(o) ==
  /\ opener[o] = "dialling"
  /\ state' = "closed"
  /\ \E how \in {"failed", "cancelled"} : opener' = [opener EXCEPT ![o] = how]
  /\ UNCHANGED <<socket, reader, closed, background, closer, awaited, waiter>>

\* ws_connect() raises, or the task is cancelled while it dials.
DialFails(o) ==
  /\ opener[o] = "dialling"
  /\ MarkClosed
  /\ \E how \in {"failed", "cancelled"} : opener' = [opener EXCEPT ![o] = how]
  /\ UNCHANGED <<socket, reader, background, closer, awaited, waiter>>

\* ws.close() of the unwanted socket is over.
Discarded(o) ==
  /\ opener[o] = "discarding"
  /\ socket = "down"
  /\ MarkClosed
  /\ opener' = [opener EXCEPT ![o] = "closed"]
  /\ UNCHANGED <<socket, reader, background, closer, awaited, waiter>>

\* The task is cancelled during that ws.close(): nothing marks the client.
Abandon(o) ==
  /\ opener[o] = "discarding"
  /\ opener' = [opener EXCEPT ![o] = "abandoned"]
  /\ UNCHANGED <<client, socket, closer, awaited, waiter>>

-------------------------------------------------------------------------------
(* aclose() *)

\* ProceedTo, had aclose() not waited for the background.
ProceedToReader(c) ==
  /\ closer' = [closer EXCEPT ![c] = IF reader = "running" THEN "reader" ELSE "returned"]
  /\ UNCHANGED awaited

\* After the handshake aclose() waits for the reader, then for the tasks that
\* are in the background at that moment.
ProceedTo(c) ==
  IF reader = "running"
  THEN closer' = [closer EXCEPT ![c] = "reader"] /\ UNCHANGED awaited
  ELSE /\ closer' = [closer EXCEPT ![c] = IF background # {} THEN "background" ELSE "returned"]
       /\ awaited' = [awaited EXCEPT ![c] = background]

Aclose(c) ==
  /\ closer[c] = "idle"
  /\ \/ /\ state = "new"
        /\ MarkClosed
        /\ closer' = [closer EXCEPT ![c] = "returned"]
        /\ UNCHANGED <<socket, awaited>>
     \/ /\ state = "connecting"
        /\ state' = "closing"
        /\ closer' = [closer EXCEPT ![c] = "event"]
        /\ UNCHANGED <<socket, closed, awaited>>
     \/ /\ state = "open"
        /\ state' = "closing"
        /\ socket' = IF socket = "up" THEN "closing" ELSE socket
        /\ closer' = [closer EXCEPT ![c] = "handshake"]
        /\ UNCHANGED <<closed, awaited>>
     \/ /\ state \in {"closing", "closed"}
        /\ ProceedTo(c)
        /\ UNCHANGED <<state, socket, closed>>
  /\ UNCHANGED <<reader, background, opener, waiter>>

\* The connect() that was under way has marked the client.
ConnectGaveUp(c) ==
  /\ closer[c] = "event"
  /\ closed
  /\ closer' = [closer EXCEPT ![c] = "returned"]
  /\ UNCHANGED <<client, socket, opener, awaited, waiter>>

\* ws.close() returns once the socket is gone; asyncio.wait() once the reader
\* is done.
ReaderNext(c) ==
  /\ \/ closer[c] = "handshake" /\ socket = "down"
     \/ closer[c] = "reader" /\ reader = "done"
  /\ ProceedTo(c)
  /\ UNCHANGED <<client, socket, opener, waiter>>

BackgroundOver(c) ==
  /\ closer[c] = "background"
  /\ awaited[c] \cap background = {}
  /\ closer' = [closer EXCEPT ![c] = "returned"]
  /\ UNCHANGED <<client, socket, opener, awaited, waiter>>

CancelAclose(c) ==
  /\ closer[c] \in Waiting
  /\ closer' = [closer EXCEPT ![c] = "cancelled"]
  /\ UNCHANGED <<client, socket, opener, awaited, waiter>>

-------------------------------------------------------------------------------
(* wait_closed() *)

WaitClosed(w) ==
  /\ waiter[w] = "idle"
  /\ waiter' = [waiter EXCEPT ![w] = IF closed THEN "returned" ELSE "waiting"]
  /\ UNCHANGED <<client, socket, opener, closer, awaited>>

WaiterWakes(w) ==
  /\ waiter[w] = "waiting"
  /\ closed
  /\ waiter' = [waiter EXCEPT ![w] = "returned"]
  /\ UNCHANGED <<client, socket, opener, closer, awaited>>

CancelWait(w) ==
  /\ waiter[w] = "waiting"
  /\ waiter' = [waiter EXCEPT ![w] = "cancelled"]
  /\ UNCHANGED <<client, socket, opener, closer, awaited>>

-------------------------------------------------------------------------------
(* The connection and the tasks around it *)

\* The bridge closes or the network fails; once the close frame is sent the
\* answer of the bridge or close_timeout ends the socket.
SocketEnds ==
  /\ socket \in {"up", "closing"}
  /\ socket' = "down"
  /\ UNCHANGED <<client, callers>>

\* OnDisconnect, had the waiters been told before the connection was over.
OnDisconnectEarly ==
  /\ reader' = "running"
  /\ state' = "closed"
  /\ closed' = TRUE

\* _on_disconnect: the last thing the reader does.
OnDisconnect ==
  /\ reader' = "done"
  /\ state' = "closed"
  /\ closed' = TRUE

\* recv() raises: the connection is closed.
ReaderEnds ==
  /\ reader = "running"
  /\ socket = "down"
  /\ OnDisconnect
  /\ UNCHANGED <<socket, background, callers>>

\* The reader fails or is cancelled: it aborts the transport first.
ReaderFails ==
  /\ reader = "running"
  /\ socket' = "down"
  /\ OnDisconnect
  /\ UNCHANGED <<background, callers>>

\* A send, or the unsubscribe of a subscription nobody wants, is started:
\* both need an open client.
Spawn(b) ==
  /\ state = "open"
  /\ background' = background \cup {b}
  /\ UNCHANGED <<state, reader, closed, socket, callers>>

BackgroundEnds(b) ==
  /\ b \in background
  /\ background' = background \ {b}
  /\ UNCHANGED <<state, reader, closed, socket, callers>>

-------------------------------------------------------------------------------

Next ==
  \/ SocketEnds \/ ReaderEnds \/ ReaderFails
  \/ \E o \in Opener : Connect(o) \/ Dialled(o) \/ DialFails(o) \/ Discarded(o) \/ Abandon(o)
  \/ \E c \in Closer :
        Aclose(c) \/ ConnectGaveUp(c) \/ ReaderNext(c) \/ BackgroundOver(c) \/ CancelAclose(c)
  \/ \E w \in Waiter : WaitClosed(w) \/ WaiterWakes(w) \/ CancelWait(w)
  \/ \E b \in Background : Spawn(b) \/ BackgroundEnds(b)

Spec == Init /\ [][Next]_vars

\* open_timeout ends the dialling, close_timeout the handshake (and a failed
\* send ends with the socket); the loop runs every task that can run.  An
\* open connection may stay open for ever.
Fairness ==
  /\ WF_vars(socket = "closing" /\ SocketEnds)
  /\ WF_vars(ReaderEnds)
  /\ \A o \in Opener : WF_vars(Dialled(o) \/ DialFails(o)) /\ WF_vars(Discarded(o))
  /\ \A c \in Closer : WF_vars(ConnectGaveUp(c) \/ ReaderNext(c) \/ BackgroundOver(c))
  /\ \A w \in Waiter : WF_vars(WaiterWakes(w))
  /\ \A b \in Background : WF_vars(state = "closed" /\ BackgroundEnds(b))

FairSpec == Spec /\ Fairness

-------------------------------------------------------------------------------
(* Properties *)

Rank == [new |-> 0, connecting |-> 1, open |-> 2, closing |-> 3, closed |-> 4]

\* A client is one connection: its state only advances.  A connect() that
\* comes back after aclose() does not open it again.
StateOnlyAdvances == [][Rank[state'] >= Rank[state]]_vars

\* Whoever is told that the client is closed finds neither a live socket nor
\* a running reader, and a closed client tells everyone.  Before that, no
\* socket stays open without a reader that would notice its end, whatever
\* aclose() did while connect() dialled.
ClosedIsOver ==
  /\ closed => socket \in {"none", "down"} /\ reader # "running"
  /\ closed <=> state = "closed"
  /\ socket = "up" => reader = "running"

\* When aclose() has returned, nothing of the connection runs any more: no
\* reader and no background task.  The client is closed, unless it had never
\* been open: a second aclose() does not wait for a connect() under way.
NothingRunsAfterAclose ==
  \A c \in Closer : closer[c] = "returned" =>
    /\ reader # "running" /\ background = {}
    /\ state = "closed" \/ reader = "none"

Abandoned == \E o \in Opener : opener[o] = "abandoned"

\* Every aclose() ends, and every wait_closed() once the client is closing,
\* unless a connect() was cancelled while it discarded its socket.
EveryoneIsReleased ==
  /\ \A c \in Closer : closer[c] \in Waiting ~> (closer[c] \notin Waiting \/ Abandoned)
  /\ \A w \in Waiter : (waiter[w] = "waiting" /\ state \in {"closing", "closed"})
                          ~> (waiter[w] # "waiting" \/ Abandoned)

\* client.py:363 says of wait_closed(): "Return once the connection has
\* ended, for any reason".
WaitClosedReturns ==
  \A w \in Waiter : (waiter[w] = "waiting" /\ socket = "down" /\ (\A o \in Opener : opener[o] \notin Dialling))
                       ~> waiter[w] # "waiting"
================================================================================
