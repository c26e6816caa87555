---------------------------- MODULE Subscriptions ----------------------------
(***************************************************************************)
(* subscribe(), subscribe_many() and unsubscribe() of AsyncBridgeClient,   *)
(* composed with the bridge's subscription table over two FIFO channels.   *)
(*                                                                         *)
(* A stream is one queue of events fed by one or more parts; each part is  *)
(* one bridge subscription id (_SubEntry).  subscribe() asks for the parts *)
(* one after the other and hands the stream to the caller once all are     *)
(* acknowledged.  Meanwhile events, terminations, an overflow, a deadline, *)
(* a cancellation or the end of the connection may reach any part.         *)
(*                                                                         *)
(* The engine under the requests is the subject of Requests; here a        *)
(* request is its frame in toBridge and its future.  As there, setting a   *)
(* future only makes the task that awaits it runnable.                     *)
(***************************************************************************)
EXTENDS Naturals, Sequences

CONSTANTS
  Stream,     \* the streams asked for over the life of one connection
  Sid,        \* the subscription ids; every part has one of its own
  Parts,      \* per stream: the ids of its parts, in the order they are asked for
  MaxPending, \* per stream: max_pending
  MaxEvents   \* bound, per id: events the bridge emits for it

ASSUME PartsAssumption ==
  /\ Parts \in [Stream -> Seq(Sid)]
  /\ \A s \in Stream : Parts[s] # <<>>
  /\ \A s, t \in Stream : \A i \in DOMAIN Parts[s], j \in DOMAIN Parts[t] :
        Parts[s][i] = Parts[t][j] => s = t /\ i = j
  /\ \A e \in Sid : \E s \in Stream : \E i \in DOMAIN Parts[s] : Parts[s][i] = e
ASSUME LimitsAssumption == MaxPending \in [Stream -> Nat \ {0}] /\ MaxEvents \in [Sid -> Nat]

VARIABLES
  state,       \* _state, once connected
  link,        \* the socket: "up" or "down"
  phase,       \* per stream: where its subscribe() coroutine is
  cur,         \* per stream: index of the part it is asking for
  interrupted, \* subscribe() calls that have been cancelled
  entry,       \* per id: _SubEntry.state
  routed,      \* the keys of _subs
  ask,         \* per id: the future of its rpc.subscribe request
  release,     \* per id: its rpc.unsubscribe request
  ended,       \* per stream: why it ended, or "no"
  items,       \* per stream: queued events, as <<id, number>>
  read,        \* per id: events the caller has taken
  closing,     \* per stream: the first unsubscribe() call
  toBridge,    \* frames on their way to the bridge
  toClient,    \* frames on their way to the reader
  held,        \* ids in the bridge's subscriber table
  ackDue,      \* ids the bridge has registered but not answered yet
  emitted      \* per id: events the bridge has emitted

streamVars == <<phase, cur, interrupted, ended, items, read, closing>>
entryVars == <<entry, routed, ask, release>>
bridgeVars == <<held, ackDue, emitted>>
vars == <<state, link, streamVars, entryVars, bridgeVars, toBridge, toClient>>

PartSet(s) == {Parts[s][i] : i \in DOMAIN Parts[s]}
StreamOf(e) == CHOOSE s \in Stream : e \in PartSet(s)
Current(s) == Parts[s][cur[s]]

Live == {"pending", "active"}

Frame(kind, e) == [kind |-> kind, sid |-> e, n |-> 0]
EventFrame(e, n) == [kind |-> "event", sid |-> e, n |-> n]

TypeOK ==
  /\ state \in {"open", "closing", "closed"}
  /\ link \in {"up", "down"}
  /\ phase \in [Stream -> {"new", "asking", "handed", "failed"}]
  /\ cur \in [Stream -> Nat]
  /\ interrupted \in SUBSET Stream
  /\ entry \in [Sid -> {"none", "pending", "active", "doomed", "zombie", "failed",
                        "released", "terminated"}]
  /\ routed \in SUBSET Sid
  /\ ask \in [Sid -> {"none", "unset", "ok", "error", "timeout", "closed"}]
  /\ release \in [Sid -> {"none", "spawned", "gathered", "sent", "acked", "settled", "over",
                          "lapsed", "dropped"}]
  /\ ended \in [Stream -> {"no", "client", "overflow", "terminated", "closed"}]
  /\ DOMAIN items = Stream
  /\ \A s \in Stream : items[s] \in Seq(PartSet(s) \X Nat) /\ Len(items[s]) <= MaxPending[s]
  /\ read \in [Sid -> Nat]
  /\ closing \in [Stream -> {"no", "waiting", "returned", "raised"}]
  /\ toBridge \in Seq([op : {"subscribe", "unsubscribe"}, sid : Sid])
  /\ toClient \in Seq([kind : {"ack", "error", "unsubscribed", "event", "terminated"},
                       sid : Sid, n : Nat])
  /\ held \in SUBSET Sid
  /\ ackDue \in SUBSET Sid
  /\ emitted \in [Sid -> Nat] /\ \A e \in Sid : emitted[e] <= MaxEvents[e]

Init ==
  /\ state = "open"
  /\ link = "up"
  /\ phase = [s \in Stream |-> "new"]
  /\ cur = [s \in Stream |-> 0]
  /\ interrupted = {}
  /\ entry = [e \in Sid |-> "none"]
  /\ routed = {}
  /\ ask = [e \in Sid |-> "none"]
  /\ release = [e \in Sid |-> "none"]
  /\ ended = [s \in Stream |-> "no"]
  /\ items = [s \in Stream |-> <<>>]
  /\ read = [e \in Sid |-> 0]
  /\ closing = [s \in Stream |-> "no"]
  /\ toBridge = <<>>
  /\ toClient = <<>>
  /\ held = {}
  /\ ackDue = {}
  /\ emitted = [e \in Sid |-> 0]

-------------------------------------------------------------------------------
(* Shared helpers *)

\* A request frame goes to the socket; on a dead socket it is lost, and the
\* future stays unset until the reader notices.
Send(op, e) ==
  toBridge' = IF link = "up" THEN Append(toBridge, [op |-> op, sid |-> e]) ELSE toBridge

\* _spawn_unsubscribe for the ids in S: nothing unless the client is open.
Spawn(S) == [e \in Sid |-> IF e \in S /\ state = "open" THEN "spawned" ELSE release[e]]

\* _Stream.end: only the first cause counts.
End(s, cause) == [ended EXCEPT ![s] = IF @ = "no" THEN cause ELSE @]

\* Detach, had it left the parts not acknowledged to their subscribe().
DetachActiveOnly(s) ==
  [e \in Sid |-> IF e \in PartSet(s) /\ entry[e] = "active" THEN "released" ELSE entry[e]]

\* _detach: acknowledged parts are let go, parts not acknowledged are doomed.
ActiveParts(s) == {e \in PartSet(s) : entry[e] = "active"}
Detach(s) ==
  [e \in Sid |-> CASE e \in PartSet(s) /\ entry[e] = "active"  -> "released"
                   [] e \in PartSet(s) /\ entry[e] = "pending" -> "doomed"
                   [] OTHER -> entry[e]]

-------------------------------------------------------------------------------
(* subscribe() *)

\* _subscribe up to its first await: every part is registered before the
\* first request goes out.
Subscribe(s) ==
  /\ phase[s] = "new"
  /\ state = "open"
  /\ phase' = [phase EXCEPT ![s] = "asking"]
  /\ cur' = [cur EXCEPT ![s] = 1]
  /\ entry' = [e \in Sid |-> IF e \in PartSet(s) THEN "pending" ELSE entry[e]]
  /\ routed' = routed \cup PartSet(s)
  /\ ask' = [ask EXCEPT ![Parts[s][1]] = "unset"]
  /\ Send("subscribe", Parts[s][1])
  /\ UNCHANGED <<state, link, interrupted, release, ended, items, read, closing,
                 bridgeVars, toClient>>

\* The deadline of the request passes before its answer.
AskTimesOut(s) ==
  /\ phase[s] = "asking"
  /\ ask[Current(s)] = "unset"
  /\ ask' = [ask EXCEPT ![Current(s)] = "timeout"]
  /\ UNCHANGED <<state, link, streamVars, entry, routed, release, bridgeVars, toBridge, toClient>>

\* The caller's task is cancelled.
CancelSubscribe(s) ==
  /\ phase[s] = "asking"
  /\ interrupted' = interrupted \cup {s}
  /\ UNCHANGED <<state, link, phase, cur, ended, items, read, closing, entryVars,
                 bridgeVars, toBridge, toClient>>

\* The entry after a good answer: a part doomed meanwhile is let go.
Acked(s) ==
  [entry EXCEPT ![Current(s)] = CASE @ = "doomed" -> "released"
                                  [] @ = "pending" -> "active"
                                  [] OTHER -> @]

\* The parts still to be asked for, and those to pass over because the stream
\* has ended before they were sent.
StillPending(s) == {i \in DOMAIN Parts[s] : i > cur[s] /\ entry[Parts[s][i]] = "pending"}
Skipped(s) == {Parts[s][i] : i \in {j \in DOMAIN Parts[s] : j > cur[s] /\ entry[Parts[s][j]] = "doomed"}}

\* LetGo, had a part doomed before its answer not been unsubscribed after it.
LetGoNothing(s) == {}

\* A part doomed before its answer is unsubscribed after it.
LetGo(s) == {e \in {Current(s)} : entry[e] = "doomed"}

\* _abort_subscribe: nothing of a stream that was never handed out stays
\* routed, except a part the bridge may still register (a zombie).
Abort(s, c, ent, unsure) ==
  LET zombie == {e \in {c} : unsure /\ ent[e] \in {"pending", "doomed"}}
      active == {e \in PartSet(s) : ent[e] = "active"}
      failed == {e \in PartSet(s) \ zombie : ent[e] \in {"pending", "doomed"}}
  IN  /\ ended' = End(s, "client")
      /\ entry' = [e \in Sid |-> CASE e \in zombie -> "zombie"
                                   [] e \in active -> "released"
                                   [] e \in failed -> "failed"
                                   [] OTHER -> ent[e]]
      /\ routed' = routed \ (active \cup failed \cup {e \in PartSet(s) : ent[e] = "released"}
                               \cup {e \in zombie : state # "open"})
      /\ release' = Spawn(zombie \cup active)
      /\ phase' = [phase EXCEPT ![s] = "failed"]

\* The answer was good and no part is left to ask for.
Hand(s) ==
  /\ phase[s] = "asking" /\ s \notin interrupted
  /\ ask[Current(s)] = "ok"
  /\ StillPending(s) = {}
  /\ entry' = [e \in Sid |-> IF e \in Skipped(s) THEN "released" ELSE Acked(s)[e]]
  /\ routed' = routed \ (LetGo(s) \cup Skipped(s))
  /\ release' = Spawn(LetGo(s))
  /\ phase' = [phase EXCEPT ![s] = "handed"]
  /\ UNCHANGED <<state, link, cur, interrupted, ask, ended, items, read, closing,
                 bridgeVars, toBridge, toClient>>

\* The answer was good and the next pending part is asked for; _require_open
\* refuses that once the client is closing.
AskNext(s) ==
  /\ phase[s] = "asking" /\ s \notin interrupted
  /\ ask[Current(s)] = "ok"
  /\ StillPending(s) # {}
  /\ LET i == CHOOSE j \in StillPending(s) : \A k \in StillPending(s) : j <= k
         e == Parts[s][i]
     IN  \/ /\ state = "open"
            /\ cur' = [cur EXCEPT ![s] = i]
            /\ entry' = Acked(s)
            /\ routed' = routed \ LetGo(s)
            /\ release' = Spawn(LetGo(s))
            /\ ask' = [ask EXCEPT ![e] = "unset"]
            /\ Send("subscribe", e)
            /\ UNCHANGED <<phase, ended>>
         \/ /\ state # "open"
            /\ Abort(s, e, Acked(s), FALSE)
            /\ UNCHANGED <<cur, ask, toBridge>>
  /\ UNCHANGED <<state, link, interrupted, items, read, closing, bridgeVars, toClient>>

\* AskFails, had a cancelled request been taken for one that failed.
AskFailsForSure(s) ==
  /\ phase[s] = "asking"
  /\ \/ s \in interrupted
     \/ ask[Current(s)] \in {"error", "timeout", "closed"}
  /\ Abort(s, Current(s), entry, ask[Current(s)] = "timeout")
  /\ interrupted' = interrupted \ {s}
  /\ UNCHANGED <<state, link, cur, ask, items, read, closing, bridgeVars, toBridge, toClient>>

\* The request failed: a refusal or the end of the connection leaves nothing
\* behind; after a timeout or a cancellation the bridge may have registered it.
AskFails(s) ==
  /\ phase[s] = "asking"
  /\ \/ s \in interrupted
     \/ ask[Current(s)] \in {"error", "timeout", "closed"}
  /\ Abort(s, Current(s), entry, s \in interrupted \/ ask[Current(s)] = "timeout")
  /\ interrupted' = interrupted \ {s}
  /\ UNCHANGED <<state, link, cur, ask, items, read, closing, bridgeVars, toBridge, toClient>>

-------------------------------------------------------------------------------
(* unsubscribe(), cancel() and the rpc.unsubscribe requests *)

\* Unsubscribe, had it sent its requests in the background as cancel() does.
UnsubscribeNowait(s) ==
  /\ phase[s] = "handed"
  /\ ended[s] = "no"
  /\ ended' = End(s, "client")
  /\ entry' = Detach(s)
  /\ routed' = routed \ ActiveParts(s)
  /\ release' = Spawn(ActiveParts(s))
  /\ closing' = [closing EXCEPT ![s] = "waiting"]
  /\ UNCHANGED <<state, link, phase, cur, interrupted, items, read, ask, bridgeVars,
                 toBridge, toClient>>

\* _close_stream: the requests are child tasks of gather, not started yet.
\* A later call finds the stream ended and returns at once.
Unsubscribe(s) ==
  /\ phase[s] = "handed"
  /\ ended[s] = "no"
  /\ ended' = End(s, "client")
  /\ entry' = Detach(s)
  /\ routed' = routed \ ActiveParts(s)
  /\ release' = [e \in Sid |-> IF e \in ActiveParts(s) THEN "gathered" ELSE release[e]]
  /\ closing' = [closing EXCEPT ![s] = "waiting"]
  /\ UNCHANGED <<state, link, phase, cur, interrupted, items, read, ask, bridgeVars, toBridge, toClient>>

\* cancel(): _close_stream_nowait.
CancelStream(s) ==
  /\ phase[s] = "handed"
  /\ ended[s] = "no"
  /\ ended' = End(s, "client")
  /\ entry' = Detach(s)
  /\ routed' = routed \ ActiveParts(s)
  /\ release' = Spawn(ActiveParts(s))
  /\ UNCHANGED <<state, link, phase, cur, interrupted, items, read, closing, ask,
                 bridgeVars, toBridge, toClient>>

\* The coroutine of an unsubscribe request is over; _unsubscribe_quietly
\* forgets its zombie.
ReleaseOver(e, how) ==
  /\ release' = [release EXCEPT ![e] = how]
  /\ routed' = IF entry[e] = "zombie" THEN routed \ {e} ELSE routed

\* The task of an unsubscribe request starts: _require_open, then the frame.
ReleaseStarts(e) ==
  /\ release[e] \in {"spawned", "gathered"}
  /\ \/ /\ state = "open"
        /\ release' = [release EXCEPT ![e] = "sent"]
        /\ Send("unsubscribe", e)
        /\ UNCHANGED routed
     \/ /\ state # "open"
        /\ ReleaseOver(e, "over")
        /\ UNCHANGED toBridge
  /\ UNCHANGED <<state, link, streamVars, entry, ask, bridgeVars, toClient>>

\* The request is answered, or refused by the end of the connection, or its
\* deadline passes.
ReleaseReturns(e) ==
  /\ \/ release[e] \in {"acked", "settled"} /\ ReleaseOver(e, "over")
     \/ release[e] = "sent" /\ ReleaseOver(e, "lapsed")
  /\ UNCHANGED <<state, link, streamVars, entry, ask, bridgeVars, toBridge, toClient>>

\* gather returns once every child is over; unsubscribe() raises the
\* ClientTimeout of a child, if there is one.
UnsubscribeReturns(s) ==
  /\ closing[s] = "waiting"
  /\ \A e \in PartSet(s) : release[e] \notin {"gathered", "sent", "acked", "settled"}
  /\ closing' = [closing EXCEPT ![s] =
                   IF \E e \in PartSet(s) : release[e] = "lapsed" THEN "raised" ELSE "returned"]
  /\ UNCHANGED <<state, link, phase, cur, interrupted, ended, items, read, entryVars,
                 bridgeVars, toBridge, toClient>>

\* The caller of unsubscribe() is cancelled, and gather cancels its children:
\* one that had not started never sends its request.
CancelUnsubscribe(s) ==
  /\ closing[s] = "waiting"
  /\ closing' = [closing EXCEPT ![s] = "raised"]
  /\ release' = [e \in Sid |-> IF e \notin PartSet(s) THEN release[e]
                               ELSE CASE release[e] = "gathered" -> "dropped"
                                      [] release[e] \in {"sent", "acked", "settled"} -> "over"
                                      [] OTHER -> release[e]]
  /\ UNCHANGED <<state, link, phase, cur, interrupted, ended, items, read, entry, routed,
                 ask, bridgeVars, toBridge, toClient>>

\* The caller takes an event from a stream it was handed.
Take(s) ==
  /\ phase[s] = "handed"
  /\ items[s] # <<>>
  /\ items' = [items EXCEPT ![s] = Tail(@)]
  /\ read' = [read EXCEPT ![Head(items[s])[1]] = @ + 1]
  /\ UNCHANGED <<state, link, phase, cur, interrupted, ended, closing, entryVars,
                 bridgeVars, toBridge, toClient>>

-------------------------------------------------------------------------------
(* The reader *)

\* The answer to rpc.subscribe or rpc.unsubscribe settles its future, unless
\* nobody waits for it any more.
RouteAnswer(f) ==
  /\ ask' = [ask EXCEPT ![f.sid] =
               IF @ # "unset" THEN @
               ELSE CASE f.kind = "ack" -> "ok" [] f.kind = "error" -> "error" [] OTHER -> @]
  /\ release' = [release EXCEPT ![f.sid] = IF f.kind = "unsubscribed" /\ @ = "sent" THEN "acked" ELSE @]
  /\ UNCHANGED <<entry, routed, ended, items>>

\* RouteEvent, had the limit been one too high.
RouteEventOneMore(f) ==
  LET e == f.sid
      s == StreamOf(e)
  IN  /\ \/ /\ e \notin routed \/ entry[e] \notin Live \/ ended[s] # "no"
            /\ UNCHANGED <<entry, routed, release, ended, items>>
         \/ /\ e \in routed /\ entry[e] \in Live /\ ended[s] = "no"
            /\ Len(items[s]) > MaxPending[s]
            /\ ended' = End(s, "overflow")
            /\ entry' = Detach(s)
            /\ routed' = routed \ ActiveParts(s)
            /\ release' = Spawn(ActiveParts(s))
            /\ UNCHANGED items
         \/ /\ e \in routed /\ entry[e] \in Live /\ ended[s] = "no"
            /\ Len(items[s]) <= MaxPending[s]
            /\ items' = [items EXCEPT ![s] = Append(@, <<e, f.n>>)]
            /\ UNCHANGED <<entry, routed, release, ended>>
      /\ UNCHANGED ask

\* RouteEvent, had it dropped what precedes the acknowledgement.
RouteEventOnceActive(f) ==
  LET e == f.sid
      s == StreamOf(e)
  IN  /\ \/ /\ e \notin routed \/ entry[e] # "active" \/ ended[s] # "no"
            /\ UNCHANGED <<entry, routed, release, ended, items>>
         \/ /\ e \in routed /\ entry[e] = "active" /\ ended[s] = "no"
            /\ Len(items[s]) >= MaxPending[s]
            /\ ended' = End(s, "overflow")
            /\ entry' = Detach(s)
            /\ routed' = routed \ ActiveParts(s)
            /\ release' = Spawn(ActiveParts(s))
            /\ UNCHANGED items
         \/ /\ e \in routed /\ entry[e] = "active" /\ ended[s] = "no"
            /\ Len(items[s]) < MaxPending[s]
            /\ items' = [items EXCEPT ![s] = Append(@, <<e, f.n>>)]
            /\ UNCHANGED <<entry, routed, release, ended>>
      /\ UNCHANGED ask

\* _route_event.
RouteEvent(f) ==
  LET e == f.sid
      s == StreamOf(e)
  IN  /\ \/ /\ e \notin routed \/ entry[e] \notin Live \/ ended[s] # "no"
            /\ UNCHANGED <<entry, routed, release, ended, items>>
         \/ /\ e \in routed /\ entry[e] \in Live /\ ended[s] = "no"
            /\ Len(items[s]) >= MaxPending[s]
            /\ ended' = End(s, "overflow")
            /\ entry' = Detach(s)
            /\ routed' = routed \ ActiveParts(s)
            /\ release' = Spawn(ActiveParts(s))
            /\ UNCHANGED items
         \/ /\ e \in routed /\ entry[e] \in Live /\ ended[s] = "no"
            /\ Len(items[s]) < MaxPending[s]
            /\ items' = [items EXCEPT ![s] = Append(@, <<e, f.n>>)]
            /\ UNCHANGED <<entry, routed, release, ended>>
      /\ UNCHANGED ask

\* _route_termination: the stream ends, its other parts are released.
RouteTermination(f) ==
  LET e == f.sid
      s == StreamOf(e)
      others == ActiveParts(s) \ {e}
  IN  /\ \/ /\ e \notin routed
            /\ UNCHANGED <<entry, routed, release, ended>>
         \/ /\ e \in routed /\ entry[e] = "zombie"
            /\ routed' = routed \ {e}
            /\ entry' = [entry EXCEPT ![e] = "terminated"]
            /\ UNCHANGED <<release, ended>>
         \/ /\ e \in routed /\ entry[e] # "zombie"
            /\ ended' = End(s, "terminated")
            /\ entry' = [Detach(s) EXCEPT ![e] = "terminated"]
            /\ routed' = routed \ (others \cup {e})
            /\ release' = Spawn(others)
      /\ UNCHANGED <<ask, items>>

\* One frame of _read_loop.
Receive ==
  /\ state # "closed"
  /\ toClient # <<>>
  /\ toClient' = Tail(toClient)
  /\ LET f == Head(toClient) IN
       \/ f.kind \in {"ack", "error", "unsubscribed"} /\ RouteAnswer(f)
       \/ f.kind = "event" /\ RouteEvent(f)
       \/ f.kind = "terminated" /\ RouteTermination(f)
  /\ UNCHANGED <<state, link, phase, cur, interrupted, read, closing, bridgeVars, toBridge>>

\* _on_disconnect, once what was buffered has been read.
ReaderEnds ==
  /\ state # "closed"
  /\ link = "down"
  /\ toClient = <<>>
  /\ state' = "closed"
  /\ ask' = [e \in Sid |-> IF ask[e] = "unset" THEN "closed" ELSE ask[e]]
  /\ release' = [e \in Sid |-> IF release[e] = "sent" THEN "settled" ELSE release[e]]
  /\ entry' = [e \in Sid |-> IF e \in routed /\ entry[e] \in {"pending", "active", "doomed"}
                             THEN "released" ELSE entry[e]]
  /\ ended' = [s \in Stream |-> IF ended[s] = "no" /\ PartSet(s) \cap routed # {} THEN "closed" ELSE ended[s]]
  /\ routed' = {}
  /\ UNCHANGED <<link, phase, cur, interrupted, items, read, closing, bridgeVars,
                 toBridge, toClient>>

\* aclose() starts: no request is accepted any more.
AClose ==
  /\ state = "open"
  /\ state' = "closing"
  /\ UNCHANGED <<link, streamVars, entryVars, bridgeVars, toBridge, toClient>>

-------------------------------------------------------------------------------
(* The bridge *)

\* rpc.subscribe is refused or registered; rpc.unsubscribe is idempotent.
BridgeReads ==
  /\ toBridge # <<>>
  /\ toBridge' = Tail(toBridge)
  /\ LET e == Head(toBridge).sid IN
       \/ /\ Head(toBridge).op = "subscribe"
          /\ held' = held \cup {e}
          /\ ackDue' = ackDue \cup {e}
          /\ UNCHANGED toClient
       \/ /\ Head(toBridge).op = "subscribe"
          /\ toClient' = Append(toClient, Frame("error", e))
          /\ UNCHANGED <<held, ackDue>>
       \/ /\ Head(toBridge).op = "unsubscribe"
          /\ held' = held \ {e}
          /\ toClient' = Append(toClient, Frame("unsubscribed", e))
          /\ UNCHANGED ackDue
  /\ UNCHANGED <<state, link, streamVars, entryVars, emitted>>

\* The registration is acknowledged, or fails after all.
BridgeAnswers(e) ==
  /\ e \in ackDue
  /\ ackDue' = ackDue \ {e}
  /\ \/ /\ toClient' = Append(toClient, Frame("ack", e))
        /\ UNCHANGED held
     \/ /\ toClient' = Append(toClient, Frame("error", e))
        /\ held' = held \ {e}
  /\ UNCHANGED <<state, link, streamVars, entryVars, emitted, toBridge>>

\* emit() queues the event for a subscriber, acknowledged or not.
Emit(e) ==
  /\ e \in held
  /\ emitted[e] < MaxEvents[e]
  /\ emitted' = [emitted EXCEPT ![e] = @ + 1]
  /\ toClient' = Append(toClient, EventFrame(e, emitted[e] + 1))
  /\ UNCHANGED <<state, link, streamVars, entryVars, held, ackDue, toBridge>>

\* terminate(): the provider is gone, the bridge drops the subscription.
Terminate(e) ==
  /\ e \in held
  /\ held' = held \ {e}
  /\ toClient' = Append(toClient, Frame("terminated", e))
  /\ UNCHANGED <<state, link, streamVars, entryVars, ackDue, emitted, toBridge>>

\* The socket goes down; the bridge forgets the connection's subscriptions,
\* and frames the reader has not buffered are lost.
LinkDown ==
  /\ link = "up"
  /\ link' = "down"
  /\ held' = {}
  /\ ackDue' = {}
  /\ toBridge' = <<>>
  /\ \E n \in 0 .. Len(toClient) : toClient' = SubSeq(toClient, 1, n)
  /\ UNCHANGED <<state, streamVars, entryVars, emitted>>

-------------------------------------------------------------------------------

SubscribeStep(s) == Hand(s) \/ AskNext(s) \/ AskFails(s)

Next ==
  \/ \E s \in Stream :
        \/ Subscribe(s) \/ AskTimesOut(s) \/ CancelSubscribe(s) \/ SubscribeStep(s)
        \/ Unsubscribe(s) \/ CancelStream(s) \/ UnsubscribeReturns(s) \/ CancelUnsubscribe(s)
        \/ Take(s)
  \/ \E e \in Sid :
        \/ ReleaseStarts(e) \/ ReleaseReturns(e)
        \/ BridgeAnswers(e) \/ Emit(e) \/ Terminate(e)
  \/ Receive \/ ReaderEnds \/ AClose
  \/ BridgeReads \/ LinkDown

Spec == Init /\ [][Next]_vars

\* The loop runs the tasks that are ready, the reader among them, and the
\* bridge reads and answers what it is sent while the socket is up.
Fairness ==
  /\ \A s \in Stream : WF_vars(SubscribeStep(s)) /\ WF_vars(UnsubscribeReturns(s))
  /\ \A e \in Sid : WF_vars(ReleaseStarts(e)) /\ WF_vars(ReleaseReturns(e)) /\ WF_vars(BridgeAnswers(e))
  /\ WF_vars(Receive) /\ WF_vars(ReaderEnds) /\ WF_vars(BridgeReads)

FairSpec == Spec /\ Fairness

-------------------------------------------------------------------------------
(* Properties *)

Started(s) == phase[s] \in {"asking", "handed"}

\* A stream that has not ended hears every part of it that was asked for:
\* each is routed and waiting or active, and the connection is there.  One
\* that has ended has no part left that takes events.  The end of the
\* connection reaches every stream, and leaves nothing routed and no id in a
\* state that expects an answer; no stream is told so before it is true.
LiveStreamsAreRouted ==
  \A s \in Stream :
    /\ Started(s) /\ ended[s] = "no" =>
         /\ state # "closed"
         /\ \A e \in PartSet(s) : e \in routed /\ entry[e] \in Live
         /\ phase[s] = "handed" => \A e \in PartSet(s) : entry[e] = "active"
    /\ ended[s] # "no" => \A e \in PartSet(s) : entry[e] \notin Live
    /\ ended[s] = "closed" => state = "closed"
    /\ state = "closed" =>
         /\ routed = {}
         /\ \A e \in PartSet(s) : entry[e] \notin Live \cup {"doomed"}
         /\ phase[s] # "new" => ended[s] # "no"

\* The numbers of the events of e in the queue and on their way, by position.
Queued(e) ==
  LET q == items[StreamOf(e)]
  IN  [i \in {j \in DOMAIN q : q[j][1] = e} |-> q[i][2]]
Coming(e) ==
  [i \in {j \in DOMAIN toClient : toClient[j].kind = "event" /\ toClient[j].sid = e} |->
     toClient[i].n]

\* The numbers at these positions are, in this order, m + 1, m + 2 and so on.
Follows(num, m) ==
  \A i \in DOMAIN num :
    /\ num[i] > m
    /\ num[i] = m + 1 \/ \E j \in DOMAIN num : j < i /\ num[j] + 1 = num[i]
    /\ \A j \in DOMAIN num : j < i => num[j] < num[i]

\* They go as far as n, where they follow m.
Reaches(num, m, n) ==
  /\ \A i \in DOMAIN num : num[i] <= n
  /\ n = m \/ \E i \in DOMAIN num : num[i] = n

\* Events are neither lost, duplicated nor reordered.  What the caller has
\* taken, what is queued and what is on its way are, in this order, all that
\* the bridge emitted, for as long as the stream lives; what is queued on an
\* ended stream still follows what was taken without a gap.  A stream ended by
\* a termination was terminated by one of its parts, and all that the bridge
\* emitted for that part before is readable.
NothingLostOrReordered ==
  \A s \in Stream : \A e \in PartSet(s) :
    /\ \E heard \in read[e] .. emitted[e] :
         /\ Follows(Queued(e), read[e]) /\ Reaches(Queued(e), read[e], heard)
         /\ Started(s) /\ ended[s] = "no" =>
              /\ Follows(Coming(e), heard)
              /\ link = "up" => Reaches(Coming(e), heard, emitted[e])
    /\ ended[s] = "terminated" =>
         \E d \in PartSet(s) : entry[d] = "terminated" /\ Reaches(Queued(d), read[d], emitted[d])

InFlight(op, e) == \E i \in DOMAIN toBridge : toBridge[i] = [op |-> op, sid |-> e]

\* The bridge holds no subscription this client has forgotten: while the
\* client is open, an id the bridge holds or is about to register is either
\* wanted, or still to be settled by its subscribe(), or an unsubscribe for
\* it is under way.  The one exception is an unsubscribe() cancelled before
\* its requests started.
Forgotten(e) ==
  /\ e \in held \/ InFlight("subscribe", e)
  /\ entry[e] \notin Live
  /\ ~(entry[e] = "doomed" /\ phase[StreamOf(e)] = "asking")
  /\ release[e] \notin {"spawned", "gathered"}
  /\ ~InFlight("unsubscribe", e)

NoOrphan ==
  state = "open" /\ link = "up" => \A e \in Sid : Forgotten(e) => release[e] = "dropped"

\* When unsubscribe() returns without an error to the caller that ended the
\* stream, the bridge no longer holds any of its ids.
UnsubscribeAcknowledged ==
  \A s \in Stream :
    closing[s] = "returned" /\ state = "open" => PartSet(s) \cap held = {}

\* A subscription the client no longer wants is released in the end.
UnwantedIsReleased ==
  \A e \in Sid :
    e \in held /\ entry[e] \notin Live
      ~> e \notin held \/ state # "open" \/ release[e] = "dropped"
===============================================================================
