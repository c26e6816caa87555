------------------------- MODULE SubscriptionsProofs -------------------------
(***************************************************************************)
(* Proofs about Subscriptions, for every set of streams and of parts,      *)
(* every queue limit and any number of events.                             *)
(*                                                                         *)
(* ClientInv is what the client knows of its own streams and parts.        *)
(* LiveStreamsAreRouted does not carry itself: that a stream handed out    *)
(* has every part active needs the order in which subscribe() asks for     *)
(* them (InTurn), and that the end of the connection reaches every stream  *)
(* needs what the parts of a stream are before it is asked for (Untouched) *)
(* and who may be doomed (Routing).                                        *)
(*                                                                         *)
(* WireInv relates the parts to the bridge's table and to the frames under *)
(* way: a request is sent once, and an id that was refused, terminated or  *)
(* unsubscribed is not registered again.  OrderInv counts the events:      *)
(* taken, queued, under way.  Each rests on the layers before it.          *)
(***************************************************************************)
EXTENDS Subscriptions, WellFoundedInduction, TLAPS

EntryState == {"none", "pending", "active", "doomed", "zombie", "failed", "released",
               "terminated"}
ReleaseState == {"none", "spawned", "gathered", "sent", "acked", "settled", "over",
                 "lapsed", "dropped"}

USE DEF EntryState, ReleaseState

-------------------------------------------------------------------------------
(* What the client knows *)

\* A stream nobody has asked for has left no trace.
Untouched(s) ==
  phase[s] = "new" =>
    /\ ended[s] = "no" /\ items[s] = <<>>
    /\ \A e \in PartSet(s) : entry[e] = "none" /\ e \notin routed /\ ask[e] = "none"

\* The parts are asked for in their order: those before the current one are
\* settled, those after it have not been asked for.
InTurn(s) ==
  /\ phase[s] # "new" => cur[s] \in DOMAIN Parts[s]
  /\ phase[s] = "asking" =>
       /\ ask[Current(s)] # "none"
       /\ \A i \in DOMAIN Parts[s] :
            /\ i < cur[s] => entry[Parts[s][i]] \notin {"pending", "doomed"}
            /\ i > cur[s] => ask[Parts[s][i]] = "none"

\* A part takes events only for a stream that has begun and not ended, and is
\* doomed only while its subscribe() runs; either way it is routed.  One that
\* is active has been asked for, and those of a stream handed out are active
\* until it ends.
Routing(s) ==
  /\ phase[s] = "failed" => ended[s] # "no"
  /\ closing[s] # "no" => phase[s] = "handed" /\ ended[s] # "no"
  /\ ended[s] # "no" => \A e \in PartSet(s) : entry[e] \notin Live
  /\ Started(s) /\ ended[s] = "no" => \A e \in PartSet(s) : e \in routed /\ entry[e] \in Live
  /\ \A e \in PartSet(s) :
       /\ entry[e] \in {"pending", "doomed"} => phase[s] = "asking"
       /\ entry[e] = "doomed" => e \in routed
       /\ entry[e] = "active" => ask[e] # "none"

\* The end of the connection reaches every stream, and explains what it settled.
Closed(s) ==
  /\ state = "closed" =>
       /\ \A e \in PartSet(s) : e \notin routed /\ entry[e] \notin Live \cup {"doomed"}
       /\ phase[s] # "new" => ended[s] # "no"
  /\ state # "closed" =>
       /\ ended[s] # "closed"
       /\ \A e \in PartSet(s) : ask[e] # "closed" /\ release[e] # "settled"

StreamInv(s) == Untouched(s) /\ InTurn(s) /\ Routing(s) /\ Closed(s)

ClientInv == TypeOK /\ \A s \in Stream : StreamInv(s)

-------------------------------------------------------------------------------
(* Streams and their parts *)

\* Every id is a part of one stream, and of no other.
LEMMA StreamOfPart ==
  ASSUME NEW e \in Sid
  PROVE  StreamOf(e) \in Stream /\ e \in PartSet(StreamOf(e))
<1>1. PICK s \in Stream : \E i \in DOMAIN Parts[s] : Parts[s][i] = e
  BY PartsAssumption, Zenon
<1>2. e \in PartSet(s)
  BY <1>1, Zenon DEF PartSet
<1> QED BY <1>2, Zenon DEF StreamOf

LEMMA PartOfStream ==
  ASSUME NEW s \in Stream
  PROVE  /\ PartSet(s) \subseteq Sid
         /\ PartSet(s) # {}
         /\ \A e \in PartSet(s) : StreamOf(e) = s
         /\ \A i \in DOMAIN Parts[s] : Parts[s][i] \in PartSet(s)
         /\ \A i, j \in DOMAIN Parts[s] : Parts[s][i] = Parts[s][j] => i = j
         /\ 1 \in DOMAIN Parts[s] /\ DOMAIN Parts[s] \subseteq Nat \ {0}
<1>1. Parts[s] \in Seq(Sid) /\ Parts[s] # <<>>
  BY PartsAssumption
<1>2. DOMAIN Parts[s] = 1 .. Len(Parts[s]) /\ Len(Parts[s]) \in Nat /\ Len(Parts[s]) > 0
  BY <1>1
<1>3. PartSet(s) \subseteq Sid
  BY <1>1 DEF PartSet
<1>4. PartSet(s) # {}
  <2>1. 1 \in DOMAIN Parts[s]
    BY <1>2
  <2>2. Parts[s][1] \in PartSet(s)
    BY <2>1 DEF PartSet
  <2> QED BY <2>2
<1>5. ASSUME NEW e \in PartSet(s) PROVE StreamOf(e) = s
  <2>1. StreamOf(e) \in Stream /\ e \in PartSet(StreamOf(e))
    BY <1>3, <1>5, StreamOfPart
  <2>2. PICK i \in DOMAIN Parts[s] : Parts[s][i] = e
    BY <1>5 DEF PartSet
  <2>3. PICK j \in DOMAIN Parts[StreamOf(e)] : Parts[StreamOf(e)][j] = e
    BY <2>1 DEF PartSet
  <2> QED BY <2>1, <2>2, <2>3, PartsAssumption, Zenon
<1>6. \A i, j \in DOMAIN Parts[s] : Parts[s][i] = Parts[s][j] => i = j
  BY PartsAssumption
<1>7. \A i \in DOMAIN Parts[s] : Parts[s][i] \in PartSet(s)
  BY DEF PartSet
<1>8. 1 \in DOMAIN Parts[s] /\ DOMAIN Parts[s] \subseteq Nat \ {0}
  BY <1>2
<1> QED BY <1>3, <1>4, <1>5, <1>6, <1>7, <1>8

-------------------------------------------------------------------------------
(* The client's layer *)

\* What a step leaves alone stays as it was.
LEMMA OtherStream ==
  ASSUME NEW s \in Stream, StreamInv(s),
         phase'[s] = phase[s], cur'[s] = cur[s], ended'[s] = ended[s],
         items'[s] = items[s] \/ phase[s] # "new",
         closing'[s] # "no" => closing[s] # "no" \/ (phase[s] = "handed" /\ ended[s] # "no"),
         \A e \in PartSet(s) : /\ entry'[e] = entry[e]
                               /\ e \in routed' <=> e \in routed
                               /\ ask'[e] = "none" <=> ask[e] = "none"
                               /\ ask'[e] = "closed" => ask[e] = "closed"
                               /\ release'[e] = "settled" => release[e] = "settled",
         state' = "closed" <=> state = "closed"
  PROVE  StreamInv(s)'
<1>1. cur[s] \in DOMAIN Parts[s] => Current(s) \in PartSet(s)
  BY DEF Current, PartSet
<1>2. \A i \in DOMAIN Parts[s] : Parts[s][i] \in PartSet(s)
  BY DEF PartSet
<1>3. Untouched(s)'
  BY DEF StreamInv, Untouched
<1>4. InTurn(s)'
  BY <1>1, <1>2 DEF StreamInv, InTurn, Current
<1>5. Routing(s)'
  BY DEF StreamInv, Routing, Started
<1>6. Closed(s)'
  BY DEF StreamInv, Closed
<1> QED BY <1>3, <1>4, <1>5, <1>6 DEF StreamInv

LEMMA ClientInit == Init => ClientInv
<1> SUFFICES ASSUME Init PROVE ClientInv
  OBVIOUS
<1>1. TypeOK
  <2>1. ASSUME NEW s \in Stream
        PROVE  items[s] \in Seq(PartSet(s) \X Nat) /\ Len(items[s]) <= MaxPending[s]
    <3>1. items[s] = <<>> /\ MaxPending[s] \in Nat
      BY LimitsAssumption DEF Init
    <3>2. Len(items[s]) = 0
      BY <3>1
    <3> QED BY <3>1, <3>2
  <2>2. \A e \in Sid : emitted[e] <= MaxEvents[e]
    BY LimitsAssumption DEF Init
  <2> QED BY <2>1, <2>2 DEF Init, TypeOK
<1>2. ASSUME NEW s \in Stream PROVE StreamInv(s)
  <2>1. Untouched(s) /\ InTurn(s) /\ Closed(s)
    BY PartOfStream DEF Init, Untouched, InTurn, Closed
  <2>2. Routing(s)
    BY PartOfStream DEF Init, Routing, Started, Live
  <2> QED BY <2>1, <2>2 DEF StreamInv
<1> QED BY <1>1, <1>2 DEF ClientInv

LEMMA CurrentPart ==
  ASSUME ClientInv, NEW s \in Stream, phase[s] # "new"
  PROVE  /\ cur[s] \in DOMAIN Parts[s]
         /\ Current(s) \in PartSet(s) /\ Current(s) \in Sid
         /\ StreamOf(Current(s)) = s
         /\ phase[s] = "asking" => ask[Current(s)] # "none"
<1>1. cur[s] \in DOMAIN Parts[s]
  BY DEF ClientInv, StreamInv, InTurn
<1>2. Current(s) \in PartSet(s)
  BY <1>1 DEF PartSet, Current
<1>3. phase[s] = "asking" => ask[Current(s)] # "none"
  BY DEF ClientInv, StreamInv, InTurn
<1> QED BY <1>1, <1>2, <1>3, PartOfStream

LEMMA AppendFrame ==
  ASSUME NEW S, NEW q \in Seq(S), NEW f \in S
  PROVE  Append(q, f) \in Seq(S) /\ Len(Append(q, f)) = Len(q) + 1
  OBVIOUS

LEMMA TailFrames ==
  ASSUME NEW S, NEW q \in Seq(S), q # <<>>
  PROVE  Tail(q) \in Seq(S) /\ Head(q) \in S /\ Len(Tail(q)) = Len(q) - 1
  OBVIOUS

LEMMA SendType ==
  ASSUME TypeOK, NEW e \in Sid, NEW op \in {"subscribe", "unsubscribe"}, Send(op, e)
  PROVE  toBridge' \in Seq([op : {"subscribe", "unsubscribe"}, sid : Sid])
  BY AppendFrame DEF TypeOK, Send

LEMMA SubscribeKeepsClient ==
  ASSUME ClientInv, NEW s \in Stream, Subscribe(s)
  PROVE  ClientInv'
<1> USE DEF ClientInv
<1>0. /\ PartSet(s) \subseteq Sid /\ 1 \in DOMAIN Parts[s] /\ DOMAIN Parts[s] \subseteq Nat \ {0}
      /\ \A i \in DOMAIN Parts[s] : Parts[s][i] \in PartSet(s)
      /\ \A i, j \in DOMAIN Parts[s] : Parts[s][i] = Parts[s][j] => i = j
  BY PartOfStream
<1>1. TypeOK'
  BY <1>0, SendType DEF TypeOK, Subscribe, bridgeVars
<1>2. StreamInv(s)'
  <2>1. Untouched(s)'
    BY DEF TypeOK, Subscribe, Untouched
  <2>4. Closed(s)'
    BY <1>0 DEF TypeOK, Subscribe, StreamInv, Untouched, Closed
  <2>2. InTurn(s)'
    <3>1. /\ cur'[s] = 1
          /\ ask'[Parts[s][1]] = "unset"
          /\ \A e \in PartSet(s) : e # Parts[s][1] => ask'[e] = "none"
      BY <1>0 DEF TypeOK, Subscribe, StreamInv, Untouched
    <3> QED BY <1>0, <3>1 DEF InTurn, Current
  <2>3. Routing(s)'
    BY <1>0 DEF TypeOK, Subscribe, StreamInv, Untouched, Routing, Started, Live
  <2> QED BY <2>1, <2>2, <2>3, <2>4 DEF StreamInv
<1>3. ASSUME NEW t \in Stream, t # s PROVE StreamInv(t)'
  <2>1. \A e \in PartSet(t) : e \in Sid /\ e \notin PartSet(s)
    BY <1>3, PartOfStream
  <2> QED BY <1>0, <1>3, <2>1, OtherStream, ZenonT(30) DEF TypeOK, Subscribe
<1> QED BY <1>1, <1>2, <1>3

LEMMA AskTimesOutKeepsClient ==
  ASSUME ClientInv, NEW s \in Stream, AskTimesOut(s)
  PROVE  ClientInv'
<1> USE DEF ClientInv
<1>0. phase[s] = "asking" /\ Current(s) \in PartSet(s) /\ Current(s) \in Sid
  BY CurrentPart DEF AskTimesOut
<1>1. TypeOK'
  BY <1>0 DEF TypeOK, AskTimesOut, bridgeVars, streamVars
<1>2. \A e \in Sid : /\ ask'[e] = "none" <=> ask[e] = "none"
                    /\ ask'[e] = "closed" => ask[e] = "closed"
  BY <1>0 DEF TypeOK, AskTimesOut
<1>3. ASSUME NEW t \in Stream PROVE StreamInv(t)'
  <2>1. \A e \in PartSet(t) : e \in Sid
    BY PartOfStream
  <2> QED BY <1>2, <2>1, OtherStream DEF AskTimesOut, streamVars
<1> QED BY <1>1, <1>3

LEMMA CancelSubscribeKeepsClient ==
  ASSUME ClientInv, NEW s \in Stream, CancelSubscribe(s)
  PROVE  ClientInv'
<1> USE DEF ClientInv
<1>1. TypeOK'
  BY DEF TypeOK, CancelSubscribe, entryVars, bridgeVars
<1>2. ASSUME NEW t \in Stream PROVE StreamInv(t)'
  <2>1. /\ UNCHANGED <<phase, cur, ended, entry, ask>>
        /\ UNCHANGED <<routed, release, items, closing, state>>
    BY DEF CancelSubscribe, entryVars
  <2> QED BY <2>1, OtherStream
<1> QED BY <1>1, <1>2

-------------------------------------------------------------------------------
(* Streams that end *)

LEMMA SpawnType ==
  ASSUME TypeOK, NEW S
  PROVE  /\ Spawn(S) \in [Sid -> ReleaseState]
         /\ \A e \in Sid : Spawn(S)[e] = "spawned" \/ Spawn(S)[e] = release[e]
         /\ \A e \in Sid : e \in S /\ state = "open" => Spawn(S)[e] = "spawned"
         /\ \A e \in Sid : e \notin S => Spawn(S)[e] = release[e]
<1>1. ASSUME NEW e \in Sid
      PROVE  Spawn(S)[e] = IF e \in S /\ state = "open" THEN "spawned" ELSE release[e]
  BY DEF Spawn
<1>2. Spawn(S) \in [Sid -> ReleaseState]
  BY DEF Spawn, TypeOK
<1> QED BY <1>1, <1>2

LEMMA EndType ==
  ASSUME TypeOK, NEW s \in Stream, NEW cause \in {"client", "overflow", "terminated"}
  PROVE  /\ End(s, cause) \in [Stream -> {"no", "client", "overflow", "terminated", "closed"}]
         /\ End(s, cause)[s] = IF ended[s] = "no" THEN cause ELSE ended[s]
         /\ \A t \in Stream : t # s => End(s, cause)[t] = ended[t]
  BY DEF TypeOK, End

LEMMA DetachType ==
  ASSUME TypeOK, NEW s \in Stream
  PROVE  /\ Detach(s) \in [Sid -> EntryState]
         /\ \A e \in Sid : e \notin PartSet(s) => Detach(s)[e] = entry[e]
         /\ \A e \in PartSet(s) :
               /\ Detach(s)[e] \notin Live
               /\ Detach(s)[e] = "doomed" => entry[e] \in {"pending", "doomed"}
               /\ e \notin ActiveParts(s) => Detach(s)[e] # "released" \/ entry[e] = "released"
<1>1. Detach(s) \in [Sid -> EntryState]
  BY DEF TypeOK, Detach
<1>2. \A e \in Sid : e \notin PartSet(s) => Detach(s)[e] = entry[e]
  BY DEF Detach
<1>3. \A e \in PartSet(s) : e \in Sid
  BY PartOfStream
<1>4. ASSUME NEW e \in PartSet(s)
      PROVE  /\ Detach(s)[e] \notin Live
             /\ Detach(s)[e] = "doomed" => entry[e] \in {"pending", "doomed"}
             /\ e \notin ActiveParts(s) => Detach(s)[e] # "released" \/ entry[e] = "released"
  <2>1. CASE entry[e] = "active"
    BY <1>3, <2>1 DEF Detach, Live, ActiveParts
  <2>2. CASE entry[e] = "pending"
    BY <1>3, <2>2 DEF Detach, Live, ActiveParts
  <2>3. CASE entry[e] \notin {"active", "pending"}
    BY <1>3, <2>3 DEF Detach, Live, ActiveParts
  <2> QED BY <2>1, <2>2, <2>3
<1> QED BY <1>1, <1>2, <1>4

\* The stream ends: what is left of its parts takes no events.
LEMMA StreamEnds ==
  ASSUME ClientInv, NEW s \in Stream, phase[s] # "new",
         phase'[s] = phase[s], cur'[s] = cur[s], ended'[s] \notin {"no", "closed"},
         closing'[s] = closing[s] \/ phase[s] = "handed",
         state # "closed", state' = state,
         \A e \in PartSet(s) :
           /\ entry'[e] \notin Live
           /\ entry'[e] = "doomed" => entry[e] \in {"pending", "doomed"} /\ e \in routed'
           /\ ask'[e] = ask[e]
           /\ release'[e] = "settled" => release[e] = "settled"
  PROVE  StreamInv(s)'
<1> USE DEF ClientInv
<1>1. Untouched(s)'
  BY DEF Untouched
<1>2. InTurn(s)'
  <2>1. \A i \in DOMAIN Parts[s] : Parts[s][i] \in PartSet(s)
    BY PartOfStream
  <2> QED BY <2>1, CurrentPart DEF StreamInv, InTurn, Current, Live
<1>3. Routing(s)'
  BY DEF StreamInv, Routing, Started, Live
<1>4. Closed(s)'
  BY DEF StreamInv, Closed
<1> QED BY <1>1, <1>2, <1>3, <1>4 DEF StreamInv

\* What becomes of the parts of a subscribe() that is aborted.
LEMMA AbortSettles ==
  ASSUME TypeOK, NEW s \in Stream, NEW c \in PartSet(s), NEW unsure,
         NEW ent \in [Sid -> EntryState], Abort(s, c, ent, unsure)
  PROVE  /\ entry' \in [Sid -> EntryState]
         /\ \A e \in Sid :
              entry'[e] = IF e = c /\ unsure /\ ent[e] \in {"pending", "doomed"} THEN "zombie"
                          ELSE IF e \in PartSet(s) /\ ent[e] = "active" THEN "released"
                          ELSE IF e \in PartSet(s) /\ ent[e] \in {"pending", "doomed"} THEN "failed"
                          ELSE ent[e]
         /\ release' = Spawn({e \in {c} : unsure /\ ent[e] \in {"pending", "doomed"}}
                               \cup {e \in PartSet(s) : ent[e] = "active"})
<1>0. PartSet(s) \subseteq Sid
  BY PartOfStream
<1>1. \A e \in Sid :
        entry'[e] = IF e = c /\ unsure /\ ent[e] \in {"pending", "doomed"} THEN "zombie"
                    ELSE IF e \in PartSet(s) /\ ent[e] = "active" THEN "released"
                    ELSE IF e \in PartSet(s) /\ ent[e] \in {"pending", "doomed"} THEN "failed"
                    ELSE ent[e]
  BY <1>0 DEF Abort
<1>2. entry' = [e \in Sid |-> entry'[e]]
  BY DEF Abort
<1>3. entry' \in [Sid -> EntryState]
  BY <1>1, <1>2
<1> QED BY <1>1, <1>3 DEF Abort

\* An aborted subscribe() leaves no part that takes events or expects an answer.
LEMMA AbortKeeps ==
  ASSUME ClientInv, NEW s \in Stream, phase[s] = "asking",
         NEW c \in PartSet(s), NEW unsure,
         NEW ent \in [Sid -> EntryState],
         \A e \in Sid : e \notin PartSet(s) => ent[e] = entry[e],
         Abort(s, c, ent, unsure), cur' = cur, ask' = ask, closing' = closing, items' = items,
         state' = state
  PROVE  /\ phase' \in [Stream -> {"new", "asking", "handed", "failed"}]
         /\ entry' \in [Sid -> EntryState]
         /\ routed' \in SUBSET Sid
         /\ release' \in [Sid -> ReleaseState]
         /\ ended' \in [Stream -> {"no", "client", "overflow", "terminated", "closed"}]
         /\ \A t \in Stream : StreamInv(t)'
<1> USE DEF ClientInv
<1>0. PartSet(s) \subseteq Sid
  BY PartOfStream
<1>1. /\ phase' = [phase EXCEPT ![s] = "failed"]
      /\ ended' = End(s, "client")
      /\ routed' \subseteq routed
      /\ \A e \in routed : e \notin PartSet(s) => e \in routed'
      /\ release' = Spawn({e \in {c} : unsure /\ ent[e] \in {"pending", "doomed"}}
                            \cup {e \in PartSet(s) : ent[e] = "active"})
  BY DEF Abort
<1>2. /\ entry' \in [Sid -> EntryState]
      /\ \A e \in PartSet(s) : entry'[e] \notin Live \cup {"doomed"}
      /\ \A e \in Sid : e \notin PartSet(s) => entry'[e] = entry[e]
  <2>1. /\ entry' \in [Sid -> EntryState]
        /\ \A e \in Sid :
             entry'[e] = IF e = c /\ unsure /\ ent[e] \in {"pending", "doomed"} THEN "zombie"
                         ELSE IF e \in PartSet(s) /\ ent[e] = "active" THEN "released"
                         ELSE IF e \in PartSet(s) /\ ent[e] \in {"pending", "doomed"} THEN "failed"
                         ELSE ent[e]
    BY AbortSettles, ZenonT(30)
  <2> QED BY <1>0, <2>1 DEF Live
<1>3. /\ \A t \in Stream : t # s => phase'[t] = phase[t] /\ ended'[t] = ended[t]
      /\ phase'[s] = "failed" /\ ended'[s] # "no"
      /\ ended[s] # "no" => ended'[s] = ended[s]
      /\ ended[s] = "no" => ended'[s] = "client"
  <2>1. phase'[s] = "failed" /\ \A t \in Stream : t # s => phase'[t] = phase[t]
    BY <1>1 DEF TypeOK
  <2>2. /\ ended'[s] = IF ended[s] = "no" THEN "client" ELSE ended[s]
        /\ \A t \in Stream : t # s => ended'[t] = ended[t]
    BY <1>1, EndType
  <2> QED BY <2>1, <2>2
<1>4. \A e \in Sid : release'[e] = "settled" => release[e] = "settled"
  BY <1>1, SpawnType
<1>5. StreamInv(s)'
  <2>1. Untouched(s)' /\ InTurn(s)'
    BY <1>3 DEF StreamInv, Untouched, InTurn
  <2>2. Routing(s)'
    BY <1>2, <1>3 DEF StreamInv, Routing, Started, Live
  <2>3. Closed(s)'
    BY <1>0, <1>1, <1>2, <1>3, <1>4 DEF StreamInv, Closed
  <2> QED BY <2>1, <2>2, <2>3 DEF StreamInv
<1>6. ASSUME NEW t \in Stream, t # s PROVE StreamInv(t)'
  <2>1. \A e \in PartSet(t) : e \in Sid /\ e \notin PartSet(s)
    BY <1>6, PartOfStream
  <2> QED BY <1>1, <1>2, <1>3, <1>4, <1>6, <2>1, OtherStream
<1>7. /\ phase' \in [Stream -> {"new", "asking", "handed", "failed"}]
      /\ routed' \in SUBSET Sid
      /\ ended' \in [Stream -> {"no", "client", "overflow", "terminated", "closed"}]
  BY <1>1, EndType DEF TypeOK
<1>8. release' \in [Sid -> ReleaseState]
  BY <1>1, SpawnType
<1> QED BY <1>2, <1>5, <1>6, <1>7, <1>8

LEMMA AckedType ==
  ASSUME ClientInv, NEW s \in Stream, phase[s] = "asking"
  PROVE  /\ Acked(s) \in [Sid -> EntryState]
         /\ \A e \in Sid : e # Current(s) => Acked(s)[e] = entry[e]
         /\ Acked(s)[Current(s)] = CASE entry[Current(s)] = "doomed" -> "released"
                                      [] entry[Current(s)] = "pending" -> "active"
                                      [] OTHER -> entry[Current(s)]
<1>1. Current(s) \in Sid
  BY CurrentPart
<1> QED BY <1>1 DEF ClientInv, TypeOK, Acked

LEMMA AskFailsKeepsClient ==
  ASSUME ClientInv, NEW s \in Stream, AskFails(s)
  PROVE  ClientInv'
<1>1. /\ phase[s] = "asking" /\ UNCHANGED <<cur, ask, items, closing, state>>
      /\ Abort(s, Current(s), entry, s \in interrupted \/ ask[Current(s)] = "timeout")
  BY DEF AskFails
<1>2. Current(s) \in PartSet(s)
  BY <1>1, CurrentPart
<1>3. /\ phase' \in [Stream -> {"new", "asking", "handed", "failed"}]
      /\ entry' \in [Sid -> EntryState]
      /\ routed' \in SUBSET Sid
      /\ release' \in [Sid -> ReleaseState]
      /\ ended' \in [Stream -> {"no", "client", "overflow", "terminated", "closed"}]
      /\ \A t \in Stream : StreamInv(t)'
  BY <1>1, <1>2, AbortKeeps DEF ClientInv, TypeOK
<1>4. TypeOK'
  BY <1>3 DEF ClientInv, TypeOK, AskFails, bridgeVars
<1> QED BY <1>3, <1>4 DEF ClientInv

\* The first part that is still to be asked for.
LEMMA Least ==
  ASSUME NEW T \in SUBSET Nat, T # {}
  PROVE  \E x \in T : \A y \in T : x <= y
<1>1. PICK x \in T : \A y \in T : ~ (<<y, x>> \in OpToRel(<, Nat))
  BY NatLessThanWellFounded, WFMin, Zenon
<1>2. \A y \in T : ~ (y < x)
  BY <1>1 DEF OpToRel
<1> QED BY <1>2

NextPart(s) == CHOOSE j \in StillPending(s) : \A k \in StillPending(s) : j <= k

LEMMA NextPartIsFirst ==
  ASSUME ClientInv, NEW s \in Stream, phase[s] = "asking", StillPending(s) # {}
  PROVE  /\ NextPart(s) \in StillPending(s)
         /\ \A k \in StillPending(s) : NextPart(s) <= k
         /\ NextPart(s) \in DOMAIN Parts[s] /\ NextPart(s) > cur[s]
         /\ Parts[s][NextPart(s)] \in PartSet(s) /\ Parts[s][NextPart(s)] \in Sid
         /\ ask[Parts[s][NextPart(s)]] = "none"
         /\ ended[s] = "no" /\ LetGo(s) = {}
         /\ \A e \in PartSet(s) : e \in routed /\ entry[e] \in Live
<1>1. StillPending(s) \in SUBSET Nat
  BY PartOfStream DEF StillPending
<1>2. /\ NextPart(s) \in StillPending(s)
      /\ \A k \in StillPending(s) : NextPart(s) <= k
  BY <1>1, Least DEF NextPart
<1>3. /\ NextPart(s) \in DOMAIN Parts[s] /\ NextPart(s) > cur[s]
      /\ entry[Parts[s][NextPart(s)]] = "pending"
  BY <1>2 DEF StillPending
<1>4. Parts[s][NextPart(s)] \in PartSet(s) /\ Parts[s][NextPart(s)] \in Sid
  BY <1>3, PartOfStream
<1>5. ask[Parts[s][NextPart(s)]] = "none"
  BY <1>3 DEF ClientInv, StreamInv, InTurn
<1>6. /\ ended[s] = "no"
      /\ \A e \in PartSet(s) : e \in routed /\ entry[e] \in Live
  BY <1>3, <1>4 DEF ClientInv, StreamInv, Routing, Live, Started
<1>7. LetGo(s) = {}
  BY <1>6, CurrentPart DEF LetGo, Live
<1> QED BY <1>2, <1>3, <1>4, <1>5, <1>6, <1>7

\* The last answer settles the current part and the parts passed over.
LEMMA HandSettles ==
  ASSUME ClientInv, NEW s \in Stream, Hand(s)
  PROVE  /\ \A e \in Sid : e \notin PartSet(s) => entry'[e] = entry[e]
         /\ \A e \in PartSet(s) :
              /\ entry'[e] \notin {"pending", "doomed"}
              /\ entry[e] = "pending" => e = Current(s) /\ entry'[e] = "active"
              /\ entry[e] = "doomed" => entry'[e] = "released" /\ (e = Current(s) \/ ask[e] = "none")
              /\ entry[e] \notin {"pending", "doomed"} => entry'[e] = entry[e]
<1> USE DEF ClientInv
<1>0. /\ phase[s] = "asking" /\ Current(s) \in PartSet(s) /\ Current(s) \in Sid
      /\ PartSet(s) \subseteq Sid
  BY CurrentPart, PartOfStream DEF Hand
<1>1. \A e \in Sid : entry'[e] = IF e \in Skipped(s) THEN "released" ELSE Acked(s)[e]
  BY DEF Hand
<1>2. \A e \in Skipped(s) : e \in PartSet(s) /\ entry[e] = "doomed"
  BY PartOfStream DEF Skipped
<1>3. ASSUME NEW e \in PartSet(s), e # Current(s), entry[e] \in {"pending", "doomed"}
      PROVE  entry[e] = "doomed" /\ e \in Skipped(s) /\ ask[e] = "none"
  <2>1. PICK i \in DOMAIN Parts[s] : Parts[s][i] = e
    BY DEF PartSet
  <2>2. ~ (i < cur[s]) /\ i # cur[s] /\ i \in Nat /\ cur[s] \in Nat
    BY <1>0, <1>3, <2>1, CurrentPart, PartOfStream DEF StreamInv, InTurn, Current
  <2>3. i > cur[s]
    BY <2>2
  <2>4. entry[e] # "pending"
    BY <2>1, <2>3 DEF Hand, StillPending
  <2>5. ask[e] = "none"
    BY <1>0, <2>1, <2>3 DEF StreamInv, InTurn
  <2> QED BY <1>3, <2>1, <2>3, <2>4, <2>5 DEF Skipped
<1>4. \A e \in Sid : e \notin PartSet(s) => entry'[e] = entry[e]
  BY <1>0, <1>1, <1>2, AckedType
<1>5. \A e \in PartSet(s) : e # Current(s) /\ entry[e] \in {"pending", "doomed"}
                             => entry[e] = "doomed" /\ entry'[e] = "released" /\ ask[e] = "none"
  BY <1>0, <1>1, <1>3
<1>6. \A e \in PartSet(s) : entry[e] \notin {"pending", "doomed"} => entry'[e] = entry[e]
  BY <1>0, <1>1, <1>2, AckedType
<1>7. /\ entry[Current(s)] = "pending" => entry'[Current(s)] = "active"
      /\ entry[Current(s)] = "doomed" => entry'[Current(s)] = "released"
  BY <1>0, <1>1, <1>2, AckedType
<1> QED BY <1>0, <1>4, <1>5, <1>6, <1>7

LEMMA HandKeepsClient ==
  ASSUME ClientInv, NEW s \in Stream, Hand(s)
  PROVE  ClientInv'
<1> USE DEF ClientInv
<1>0. /\ phase[s] = "asking" /\ Current(s) \in PartSet(s) /\ Current(s) \in Sid
      /\ PartSet(s) \subseteq Sid /\ ask[Current(s)] = "ok"
  BY CurrentPart, PartOfStream DEF Hand
<1>1. /\ \A e \in Sid : e \notin PartSet(s) => entry'[e] = entry[e]
      /\ \A e \in PartSet(s) :
           /\ entry'[e] \notin {"pending", "doomed"}
           /\ entry[e] = "pending" => e = Current(s) /\ entry'[e] = "active"
           /\ entry[e] = "doomed" => entry'[e] = "released"
           /\ entry[e] \notin {"pending", "doomed"} => entry'[e] = entry[e]
  BY HandSettles
<1>2. /\ routed' \subseteq routed /\ release' = Spawn(LetGo(s))
      /\ \A e \in routed : e \notin PartSet(s) \/ entry[e] # "doomed" => e \in routed'
      /\ phase' = [phase EXCEPT ![s] = "handed"]
      /\ UNCHANGED <<state, link, cur, interrupted, ask, ended, items, read, closing, held,
                     ackDue, emitted, toBridge, toClient>>
  BY <1>0 DEF Hand, LetGo, Skipped, PartSet, bridgeVars
<1>3. \A e \in Sid : release'[e] = "settled" => release[e] = "settled"
  BY <1>2, SpawnType
<1>4. TypeOK'
  <2>1. entry' \in [Sid -> EntryState]
    BY <1>0, AckedType DEF Hand
  <2>2. release' \in [Sid -> ReleaseState]
    BY <1>2, SpawnType
  <2> QED BY <1>2, <2>1, <2>2 DEF TypeOK
<1>5. StreamInv(s)'
  <2>0. phase'[s] = "handed"
    BY <1>2 DEF TypeOK
  <2>1. Untouched(s)' /\ InTurn(s)'
    BY <1>0, <1>2, <2>0, CurrentPart DEF Untouched, InTurn
  <2>2. Routing(s)'
    <3>1. closing[s] = "no"
      BY <1>0 DEF StreamInv, Routing, TypeOK
    <3>2. \A e \in PartSet(s) : entry'[e] \in Live => entry[e] \in Live
      BY <1>1 DEF Live
    <3>3. Started(s) /\ ended[s] = "no" =>
             \A e \in PartSet(s) : e \in routed' /\ entry'[e] \in Live
      BY <1>1, <1>2 DEF StreamInv, Routing, Live
    <3>4. Started(s)
      BY <1>0 DEF Started
    <3>5. \A e \in PartSet(s) : entry'[e] = "active" => ask[e] # "none"
      BY <1>0, <1>1 DEF StreamInv, Routing
    <3> QED BY <1>1, <1>2, <2>0, <3>1, <3>2, <3>3, <3>4, <3>5 DEF StreamInv, Routing
  <2>3. Closed(s)'
    <3>1. \A e \in PartSet(s) : entry[e] \notin Live => entry'[e] \notin Live
      BY <1>1 DEF Live
    <3> QED BY <1>0, <1>1, <1>2, <1>3, <3>1 DEF StreamInv, Closed
  <2> QED BY <2>1, <2>2, <2>3 DEF StreamInv
<1>6. ASSUME NEW t \in Stream, t # s PROVE StreamInv(t)'
  <2>1. \A e \in PartSet(t) : e \in Sid /\ e \notin PartSet(s)
    BY <1>6, PartOfStream
  <2>2. phase'[t] = phase[t]
    BY <1>2, <1>6 DEF TypeOK
  <2>3. \A e \in PartSet(t) : /\ entry'[e] = entry[e]
                              /\ e \in routed' <=> e \in routed
                              /\ release'[e] = "settled" => release[e] = "settled"
    BY <1>1, <1>2, <1>3, <2>1
  <2> QED BY <1>2, <2>2, <2>3, OtherStream
<1> QED BY <1>4, <1>5, <1>6

LEMMA AskNextKeepsClient ==
  ASSUME ClientInv, NEW s \in Stream, AskNext(s)
  PROVE  ClientInv'
<1> USE DEF ClientInv
<1>0. /\ phase[s] = "asking" /\ Current(s) \in PartSet(s) /\ Current(s) \in Sid
      /\ PartSet(s) \subseteq Sid /\ ask[Current(s)] = "ok" /\ StillPending(s) # {}
      /\ UNCHANGED <<link, interrupted, read, held, ackDue, emitted, toClient>>
      /\ UNCHANGED <<state, items, closing>>
  BY CurrentPart, PartOfStream DEF AskNext, bridgeVars
<1> DEFINE i == NextPart(s)
           e == Parts[s][i]
<1>1. /\ i \in DOMAIN Parts[s] /\ i > cur[s] /\ e \in PartSet(s) /\ e \in Sid
      /\ ask[e] = "none" /\ ended[s] = "no" /\ LetGo(s) = {}
      /\ \A d \in PartSet(s) : d \in routed /\ entry[d] \in Live
      /\ \A k \in StillPending(s) : i <= k
  BY <1>0, NextPartIsFirst
<1> HIDE DEF i
<1>2. CASE state # "open"
  <2>1. /\ Abort(s, e, Acked(s), FALSE)
        /\ UNCHANGED <<cur, ask, toBridge>>
    BY <1>2 DEF AskNext, NextPart, i
  <2>2. /\ phase' \in [Stream -> {"new", "asking", "handed", "failed"}]
        /\ entry' \in [Sid -> EntryState]
        /\ routed' \in SUBSET Sid
        /\ release' \in [Sid -> ReleaseState]
        /\ ended' \in [Stream -> {"no", "client", "overflow", "terminated", "closed"}]
        /\ \A t \in Stream : StreamInv(t)'
    BY <1>0, <1>1, <2>1, AckedType, AbortKeeps
  <2>3. TypeOK'
    BY <1>0, <2>1, <2>2 DEF TypeOK
  <2> QED BY <2>2, <2>3
<1>3. CASE state = "open"
  <2>1. /\ cur' = [cur EXCEPT ![s] = i]
        /\ entry' = Acked(s)
        /\ routed' = routed \ LetGo(s)
        /\ release' = Spawn(LetGo(s))
        /\ ask' = [ask EXCEPT ![e] = "unset"]
        /\ Send("subscribe", e)
        /\ UNCHANGED <<phase, ended>>
    BY <1>3 DEF AskNext, NextPart, i
  <2>2. routed' = routed /\ \A d \in Sid : release'[d] = release[d]
    BY <1>1, <2>1, SpawnType
  <2>3. /\ entry' \in [Sid -> EntryState]
        /\ \A d \in Sid : d # Current(s) => entry'[d] = entry[d]
        /\ entry'[Current(s)] = "active"
    BY <1>0, <1>1, <2>1, AckedType DEF Live
  <2>4. cur'[s] = i /\ \A t \in Stream : t # s => cur'[t] = cur[t]
    BY <2>1 DEF TypeOK
  <2>5. ask'[e] = "unset" /\ \A d \in Sid : d # e => ask'[d] = ask[d]
    BY <1>1, <2>1 DEF TypeOK
  <2>6. TypeOK'
    <3>1. toBridge' \in Seq([op : {"subscribe", "unsubscribe"}, sid : Sid])
      BY <1>1, <2>1, SendType
    <3>2. release' \in [Sid -> ReleaseState]
      BY <2>1, SpawnType
    <3>3. cur' \in [Stream -> Nat]
      BY <1>1, <2>1, PartOfStream DEF TypeOK
    <3>4. ask' \in [Sid -> {"none", "unset", "ok", "error", "timeout", "closed"}]
      BY <1>1, <2>1 DEF TypeOK
    <3> QED BY <1>0, <2>1, <2>2, <2>3, <3>1, <3>2, <3>3, <3>4 DEF TypeOK
  <2>7. StreamInv(s)'
    <3>1. Untouched(s)'
      BY <1>0, <2>1 DEF Untouched
    <3>2. InTurn(s)'
      <4>1. Current(s)' = e
        BY <2>4 DEF Current
      <4>2. ASSUME NEW j \in DOMAIN Parts[s], j < i
            PROVE  entry'[Parts[s][j]] \notin {"pending", "doomed"}
        <5>0. Parts[s][j] \in PartSet(s) /\ j \in Nat /\ cur[s] \in Nat /\ i \in Nat
          BY <1>0, <1>1, CurrentPart, PartOfStream
        <5>1. CASE Parts[s][j] = Current(s)
          BY <2>3, <5>1
        <5>2. CASE j < cur[s] /\ Parts[s][j] # Current(s)
          BY <1>0, <2>3, <5>0, <5>2 DEF StreamInv, InTurn
        <5>3. CASE j > cur[s] /\ Parts[s][j] # Current(s)
          <6>1. j \notin StillPending(s)
            BY <1>1, <4>2, <5>0
          <6>2. entry[Parts[s][j]] # "pending"
            BY <5>3, <6>1 DEF StillPending
          <6> QED BY <1>0, <1>1, <2>3, <5>0, <5>3, <6>2 DEF Live
        <5> QED BY <5>0, <5>1, <5>2, <5>3 DEF Current
      <4>3. ASSUME NEW j \in DOMAIN Parts[s], j > i
            PROVE  ask'[Parts[s][j]] = "none"
        <5>0. Parts[s][j] \in PartSet(s) /\ j \in Nat /\ cur[s] \in Nat /\ i \in Nat
          BY <1>0, <1>1, CurrentPart, PartOfStream
        <5>1. j > cur[s] /\ Parts[s][j] # e
          BY <1>1, <4>3, <5>0, PartOfStream
        <5> QED BY <1>0, <2>5, <5>0, <5>1 DEF StreamInv, InTurn
      <4> QED BY <1>1, <2>4, <2>5, <4>1, <4>2, <4>3 DEF InTurn
    <3>3. Routing(s)'
      <4>1. \A d \in PartSet(s) : d \in routed' /\ entry'[d] \in Live
        BY <1>0, <1>1, <2>2, <2>3 DEF Live
      <4>2. \A d \in PartSet(s) : entry'[d] = "active" => ask'[d] # "none"
        BY <1>0, <2>3, <2>5 DEF StreamInv, Routing
      <4> QED BY <1>0, <1>1, <2>1, <4>1, <4>2 DEF StreamInv, Routing, Started, Live
    <3>4. Closed(s)'
      BY <1>0, <1>1, <1>3, <2>1, <2>2, <2>5 DEF StreamInv, Closed
    <3> QED BY <3>1, <3>2, <3>3, <3>4 DEF StreamInv
  <2>8. ASSUME NEW t \in Stream, t # s PROVE StreamInv(t)'
    <3>1. \A d \in PartSet(t) : d \in Sid /\ d # Current(s) /\ d # e
      BY <1>0, <1>1, <2>8, PartOfStream
    <3> QED BY <1>0, <2>1, <2>2, <2>3, <2>4, <2>5, <2>8, <3>1, OtherStream
  <2> QED BY <2>6, <2>7, <2>8
<1> QED BY <1>2, <1>3

\* unsubscribe(), cancel() and an overflow let go of the parts in the same way.
LEMMA EndKeeps ==
  ASSUME ClientInv, NEW s \in Stream, phase[s] \in {"asking", "handed"}, ended[s] = "no",
         NEW cause \in {"client", "overflow"},
         ended' = End(s, cause), entry' = Detach(s), routed' = routed \ ActiveParts(s),
         \A e \in Sid : release'[e] = "settled" => release[e] = "settled",
         \A t \in Stream : t # s => closing'[t] = closing[t],
         closing'[s] = closing[s] \/ phase[s] = "handed",
         phase' = phase, cur' = cur, ask' = ask, items' = items, state' = state
  PROVE  /\ ended' \in [Stream -> {"no", "client", "overflow", "terminated", "closed"}]
         /\ entry' \in [Sid -> EntryState]
         /\ routed' \in SUBSET Sid
         /\ \A t \in Stream : StreamInv(t)'
<1> USE DEF ClientInv
<1>0. PartSet(s) \subseteq Sid
  BY PartOfStream
<1>1. state # "closed"
  BY DEF StreamInv, Closed
<1>2. ended'[s] = cause /\ \A t \in Stream : t # s => ended'[t] = ended[t]
  BY EndType
<1>3. \A e \in PartSet(s) :
        /\ entry'[e] \notin Live
        /\ entry'[e] = "doomed" => entry[e] \in {"pending", "doomed"} /\ e \in routed'
  <2>1. \A e \in PartSet(s) : e \in routed
    BY DEF StreamInv, Routing, Started
  <2>2. \A e \in PartSet(s) : entry[e] \in {"pending", "doomed"} => e \notin ActiveParts(s)
    BY DEF ActiveParts
  <2> QED BY <2>1, <2>2, DetachType
<1>4. StreamInv(s)'
  BY <1>0, <1>1, <1>2, <1>3, StreamEnds
<1>5. ASSUME NEW t \in Stream, t # s PROVE StreamInv(t)'
  <2>1. \A e \in PartSet(t) : e \in Sid /\ e \notin PartSet(s) /\ e \notin ActiveParts(s)
    BY <1>5, PartOfStream DEF ActiveParts
  <2>2. \A e \in PartSet(t) : /\ entry'[e] = entry[e]
                              /\ e \in routed' <=> e \in routed
                              /\ release'[e] = "settled" => release[e] = "settled"
    BY <2>1, DetachType
  <2> QED BY <1>2, <1>5, <2>2, OtherStream
<1>6. /\ ended' \in [Stream -> {"no", "client", "overflow", "terminated", "closed"}]
      /\ entry' \in [Sid -> EntryState]
      /\ routed' \in SUBSET Sid
  BY EndType, DetachType DEF TypeOK
<1> QED BY <1>4, <1>5, <1>6

LEMMA UnsubscribeKeepsClient ==
  ASSUME ClientInv, NEW s \in Stream, Unsubscribe(s)
  PROVE  ClientInv'
<1> USE DEF ClientInv
<1>1. /\ phase[s] = "handed" /\ ended[s] = "no"
      /\ ended' = End(s, "client") /\ entry' = Detach(s) /\ routed' = routed \ ActiveParts(s)
      /\ UNCHANGED <<state, link, phase, cur, interrupted, items, read, ask, held, ackDue,
                     emitted, toBridge, toClient>>
      /\ release' = [e \in Sid |-> IF e \in ActiveParts(s) THEN "gathered" ELSE release[e]]
      /\ closing' = [closing EXCEPT ![s] = "waiting"]
  BY DEF Unsubscribe, bridgeVars
<1>2. \A e \in Sid : release'[e] = "settled" => release[e] = "settled"
  BY <1>1
<1>3. \A t \in Stream : t # s => closing'[t] = closing[t]
  BY <1>1 DEF TypeOK
<1>4. /\ ended' \in [Stream -> {"no", "client", "overflow", "terminated", "closed"}]
      /\ entry' \in [Sid -> EntryState]
      /\ routed' \in SUBSET Sid
      /\ \A t \in Stream : StreamInv(t)'
  BY <1>1, <1>2, <1>3, EndKeeps
<1>5. TypeOK'
  BY <1>1, <1>4 DEF TypeOK
<1> QED BY <1>4, <1>5

LEMMA CancelStreamKeepsClient ==
  ASSUME ClientInv, NEW s \in Stream, CancelStream(s)
  PROVE  ClientInv'
<1> USE DEF ClientInv
<1>1. /\ phase[s] = "handed" /\ ended[s] = "no"
      /\ ended' = End(s, "client") /\ entry' = Detach(s) /\ routed' = routed \ ActiveParts(s)
      /\ UNCHANGED <<state, link, phase, cur, interrupted, items, read, ask, held, ackDue,
                     emitted, toBridge, toClient, closing>>
      /\ release' = Spawn(ActiveParts(s))
  BY DEF CancelStream, bridgeVars
<1>2. release' \in [Sid -> ReleaseState] /\ \A e \in Sid : release'[e] = "settled" => release[e] = "settled"
  BY <1>1, SpawnType
<1>3. /\ ended' \in [Stream -> {"no", "client", "overflow", "terminated", "closed"}]
      /\ entry' \in [Sid -> EntryState]
      /\ routed' \in SUBSET Sid
      /\ \A t \in Stream : StreamInv(t)'
  BY <1>1, <1>2, EndKeeps
<1>4. TypeOK'
  BY <1>1, <1>2, <1>3 DEF TypeOK
<1> QED BY <1>3, <1>4

LEMMA UnsubscribeReturnsKeepsClient ==
  ASSUME ClientInv, NEW s \in Stream, UnsubscribeReturns(s)
  PROVE  ClientInv'
<1> USE DEF ClientInv
<1>1. TypeOK'
  BY DEF TypeOK, UnsubscribeReturns, entryVars, bridgeVars
<1>2. closing[s] # "no" /\ \A t \in Stream : t # s => closing'[t] = closing[t]
  BY DEF TypeOK, UnsubscribeReturns
<1>3. UNCHANGED <<state, phase, cur, ended, items, entry, routed, ask, release>>
  BY DEF UnsubscribeReturns, entryVars
<1>4. ASSUME NEW t \in Stream PROVE StreamInv(t)'
  <2>1. closing'[t] # "no" => closing[t] # "no"
    BY <1>2
  <2> QED BY <1>3, <2>1, OtherStream
<1> QED BY <1>1, <1>4

LEMMA CancelUnsubscribeKeepsClient ==
  ASSUME ClientInv, NEW s \in Stream, CancelUnsubscribe(s)
  PROVE  ClientInv'
<1> USE DEF ClientInv
<1>1. /\ release' \in [Sid -> ReleaseState]
      /\ \A e \in Sid : release'[e] = "settled" => release[e] = "settled"
  BY DEF TypeOK, CancelUnsubscribe
<1>2. closing[s] # "no" /\ \A t \in Stream : t # s => closing'[t] = closing[t]
  BY DEF TypeOK, CancelUnsubscribe
<1>3. UNCHANGED <<state, phase, cur, ended, items, entry, routed, ask>>
  BY DEF CancelUnsubscribe
<1>4. ASSUME NEW t \in Stream PROVE StreamInv(t)'
  <2>1. closing'[t] # "no" => closing[t] # "no"
    BY <1>2
  <2>2. \A e \in PartSet(t) : e \in Sid
    BY PartOfStream
  <2> QED BY <1>1, <1>3, <2>1, <2>2, OtherStream
<1>5. TypeOK'
  BY <1>1 DEF TypeOK, CancelUnsubscribe, bridgeVars
<1> QED BY <1>4, <1>5

LEMMA TakeKeepsClient ==
  ASSUME ClientInv, NEW s \in Stream, Take(s)
  PROVE  ClientInv'
<1> USE DEF ClientInv
<1>1. /\ phase[s] = "handed" /\ items[s] # <<>>
      /\ items' = [items EXCEPT ![s] = Tail(@)]
      /\ read' = [read EXCEPT ![Head(items[s])[1]] = @ + 1]
      /\ UNCHANGED <<state, link, phase, cur, interrupted, ended, closing, entry, routed, ask,
                     release, held, ackDue, emitted, toBridge, toClient>>
  BY DEF Take, entryVars, bridgeVars
<1>2. ASSUME NEW t \in Stream
      PROVE  items'[t] \in Seq(PartSet(t) \X Nat) /\ Len(items'[t]) <= MaxPending[t]
  <2>1. CASE t = s
    <3>1. items'[t] = Tail(items[t])
      BY <1>1, <2>1 DEF TypeOK
    <3>2. items[t] \in Seq(PartSet(t) \X Nat) /\ Len(items[t]) <= MaxPending[t]
          /\ MaxPending[t] \in Nat /\ items[t] # <<>>
      BY <1>1, <2>1, LimitsAssumption DEF TypeOK
    <3> QED BY <3>1, <3>2, TailFrames
  <2>2. CASE t # s
    BY <1>1, <2>2 DEF TypeOK
  <2> QED BY <2>1, <2>2
<1>3. read' \in [Sid -> Nat]
  <2>1. Head(items[s]) \in PartSet(s) \X Nat
    BY <1>1, TailFrames DEF TypeOK
  <2>2. Head(items[s])[1] \in Sid
    BY <2>1, PartOfStream
  <2> QED BY <1>1, <2>2 DEF TypeOK
<1>4. TypeOK'
  <2>1. DOMAIN items' = DOMAIN items
    BY <1>1
  <2> QED BY <1>1, <1>2, <1>3, <2>1 DEF TypeOK
<1>5. ASSUME NEW t \in Stream PROVE StreamInv(t)'
  <2>1. items'[t] = items[t] \/ phase[t] # "new"
    BY <1>1 DEF TypeOK
  <2> QED BY <1>1, <2>1, OtherStream
<1> QED BY <1>4, <1>5

-------------------------------------------------------------------------------
(* Requests to release a part, and the bridge *)

\* A zombie may be forgotten at any time.
LEMMA ZombieForgotten ==
  ASSUME ClientInv, NEW s \in Stream, NEW e, routed' = routed \/ (routed' = routed \ {e} /\ entry[e] = "zombie"),
         UNCHANGED <<state, phase, cur, ended, items, closing, entry, ask>>,
         \A d \in Sid : release'[d] = "settled" => release[d] = "settled"
  PROVE  StreamInv(s)'
<1> USE DEF ClientInv
<1>0. \A d \in PartSet(s) : d \in Sid
  BY PartOfStream
<1>1. \A d \in routed : entry[d] # "zombie" => d \in routed'
  OBVIOUS
<1>2. routed' \subseteq routed
  OBVIOUS
<1>3. Untouched(s)'
  BY <1>2 DEF StreamInv, Untouched
<1>4. InTurn(s)'
  BY DEF StreamInv, InTurn, Current
<1>5. Routing(s)'
  BY <1>1 DEF StreamInv, Routing, Started, Live
<1>6. Closed(s)'
  BY <1>0, <1>2 DEF StreamInv, Closed
<1> QED BY <1>3, <1>4, <1>5, <1>6 DEF StreamInv

LEMMA ReleaseStartsKeepsClient ==
  ASSUME ClientInv, NEW e \in Sid, ReleaseStarts(e)
  PROVE  ClientInv'
<1> USE DEF ClientInv
<1>1. UNCHANGED <<state, link, phase, cur, interrupted, ended, items, read, closing, entry, ask,
                  held, ackDue, emitted, toClient>>
  BY DEF ReleaseStarts, streamVars, bridgeVars
<1>2. /\ release' \in [Sid -> ReleaseState]
      /\ \A d \in Sid : release'[d] = "settled" => release[d] = "settled"
  BY ZenonT(30) DEF TypeOK, ReleaseStarts, ReleaseOver
<1>3. routed' = routed \/ (routed' = routed \ {e} /\ entry[e] = "zombie")
  BY DEF ReleaseStarts, ReleaseOver
<1>4. toBridge' \in Seq([op : {"subscribe", "unsubscribe"}, sid : Sid])
  BY SendType DEF ReleaseStarts, TypeOK
<1>5. TypeOK'
  BY <1>1, <1>2, <1>3, <1>4 DEF TypeOK
<1>6. ASSUME NEW t \in Stream PROVE StreamInv(t)'
  BY <1>1, <1>2, <1>3, ZombieForgotten
<1> QED BY <1>5, <1>6

LEMMA ReleaseReturnsKeepsClient ==
  ASSUME ClientInv, NEW e \in Sid, ReleaseReturns(e)
  PROVE  ClientInv'
<1> USE DEF ClientInv
<1>1. UNCHANGED <<state, link, phase, cur, interrupted, ended, items, read, closing, entry, ask,
                  held, ackDue, emitted, toBridge, toClient>>
  BY DEF ReleaseReturns, streamVars, bridgeVars
<1>2. /\ release' \in [Sid -> ReleaseState]
      /\ \A d \in Sid : release'[d] = "settled" => release[d] = "settled"
  BY ZenonT(30) DEF TypeOK, ReleaseReturns, ReleaseOver
<1>3. routed' = routed \/ (routed' = routed \ {e} /\ entry[e] = "zombie")
  BY DEF ReleaseReturns, ReleaseOver
<1>4. TypeOK'
  BY <1>1, <1>2, <1>3 DEF TypeOK
<1>5. ASSUME NEW t \in Stream PROVE StreamInv(t)'
  BY <1>1, <1>2, <1>3, ZombieForgotten
<1> QED BY <1>4, <1>5

AnyKind == {"ack", "error", "unsubscribed", "event", "terminated"}
FrameSet == [kind : AnyKind, sid : Sid, n : Nat]
RequestSet == [op : {"subscribe", "unsubscribe"}, sid : Sid]

LEMMA FrameType ==
  ASSUME NEW e \in Sid
  PROVE  /\ \A kind \in AnyKind : Frame(kind, e) \in FrameSet
         /\ \A n \in Nat : EventFrame(e, n) \in FrameSet
  BY DEF Frame, EventFrame, AnyKind, FrameSet

LEMMA WireType ==
  TypeOK => toClient \in Seq(FrameSet) /\ toBridge \in Seq(RequestSet)
  BY DEF TypeOK, FrameSet, AnyKind, RequestSet

LEMMA PrefixType ==
  ASSUME NEW S, NEW q \in Seq(S), NEW n \in 0 .. Len(q)
  PROVE  SubSeq(q, 1, n) \in Seq(S)
  OBVIOUS

\* The steps of the bridge and of the socket.
BridgeStep ==
  \/ BridgeReads \/ LinkDown
  \/ \E e \in Sid : BridgeAnswers(e) \/ Emit(e) \/ Terminate(e)

LEMMA BridgeTypes ==
  ASSUME TypeOK, BridgeStep
  PROVE  TypeOK' /\ UNCHANGED <<state, streamVars, entryVars>>
<1> DEFINE Rest == /\ toClient' \in Seq(FrameSet) /\ toBridge' \in Seq(RequestSet)
                   /\ link' \in {"up", "down"}
                   /\ held' \in SUBSET Sid /\ ackDue' \in SUBSET Sid
                   /\ emitted' \in [Sid -> Nat] /\ \A e \in Sid : emitted'[e] <= MaxEvents[e]
<1>0. /\ toClient \in Seq(FrameSet) /\ toBridge \in Seq(RequestSet)
      /\ "error" \in AnyKind /\ "ack" \in AnyKind /\ "unsubscribed" \in AnyKind
      /\ "terminated" \in AnyKind
  BY WireType DEF AnyKind
<1>1. ASSUME BridgeReads PROVE Rest
  <2>1. Head(toBridge) \in RequestSet /\ toBridge' \in Seq(RequestSet)
    BY <1>0, <1>1, TailFrames DEF BridgeReads
  <2>2. Head(toBridge).sid \in Sid
    BY <2>1 DEF RequestSet
  <2>3. \/ toClient' = toClient
        \/ toClient' = Append(toClient, Frame("error", Head(toBridge).sid))
        \/ toClient' = Append(toClient, Frame("unsubscribed", Head(toBridge).sid))
    BY <1>1 DEF BridgeReads
  <2>4. toClient' \in Seq(FrameSet)
    BY <1>0, <2>2, <2>3, FrameType, AppendFrame
  <2>5. held' \in SUBSET Sid /\ ackDue' \in SUBSET Sid
    BY <1>1, <2>2 DEF BridgeReads, TypeOK
  <2> QED BY <1>1, <2>1, <2>4, <2>5 DEF BridgeReads, TypeOK
<1>2. ASSUME LinkDown PROVE Rest
  <2>1. toClient' \in Seq(FrameSet)
    BY <1>0, <1>2, PrefixType DEF LinkDown
  <2>2. toBridge' \in Seq(RequestSet)
    BY <1>2 DEF LinkDown
  <2> QED BY <1>2, <2>1, <2>2 DEF LinkDown, TypeOK
<1>3. ASSUME NEW e \in Sid, BridgeAnswers(e) PROVE Rest
  <2>1. \/ toClient' = Append(toClient, Frame("ack", e))
        \/ toClient' = Append(toClient, Frame("error", e))
    BY <1>3 DEF BridgeAnswers
  <2>2. toClient' \in Seq(FrameSet)
    BY <1>0, <2>1, FrameType, AppendFrame
  <2> QED BY <1>0, <1>3, <2>2 DEF BridgeAnswers, TypeOK
<1>4. ASSUME NEW e \in Sid, Emit(e) PROVE Rest
  <2>1. emitted[e] \in Nat /\ MaxEvents[e] \in Nat /\ emitted[e] < MaxEvents[e]
    BY <1>4, LimitsAssumption DEF Emit, TypeOK
  <2>2. emitted[e] + 1 \in Nat /\ emitted[e] + 1 <= MaxEvents[e]
    BY <2>1
  <2>3. toClient' = Append(toClient, EventFrame(e, emitted[e] + 1))
    BY <1>4 DEF Emit
  <2>4. toClient' \in Seq(FrameSet)
    BY <1>0, <2>2, <2>3, FrameType, AppendFrame
  <2> QED BY <1>0, <1>4, <2>2, <2>4 DEF Emit, TypeOK
<1>5. ASSUME NEW e \in Sid, Terminate(e) PROVE Rest
  <2>1. toClient' = Append(toClient, Frame("terminated", e))
    BY <1>5 DEF Terminate
  <2>2. toClient' \in Seq(FrameSet)
    BY <1>0, <2>1, FrameType, AppendFrame
  <2> QED BY <1>0, <1>5, <2>2 DEF Terminate, TypeOK
<1>6. UNCHANGED <<state, streamVars, entryVars>>
  BY DEF BridgeStep, BridgeReads, LinkDown, BridgeAnswers, Emit, Terminate
<1>7. Rest
  BY <1>1, <1>2, <1>3, <1>4, <1>5 DEF BridgeStep
<1> QED BY <1>6, <1>7 DEF TypeOK, streamVars, entryVars, FrameSet, RequestSet, AnyKind

LEMMA BridgeKeepsClient ==
  ASSUME ClientInv, BridgeStep
  PROVE  ClientInv'
<1> USE DEF ClientInv
<1>1. TypeOK' /\ UNCHANGED <<state, phase, cur, interrupted, ended, items, read, closing,
                            entry, routed, ask, release>>
  BY BridgeTypes DEF streamVars, entryVars
<1>2. ASSUME NEW t \in Stream PROVE StreamInv(t)'
  BY <1>1, OtherStream
<1> QED BY <1>1, <1>2

LEMMA ACloseKeepsClient ==
  ASSUME ClientInv, AClose
  PROVE  ClientInv'
<1> USE DEF ClientInv
<1>1. TypeOK'
  BY DEF TypeOK, AClose, streamVars, entryVars, bridgeVars
<1>2. UNCHANGED <<phase, cur, ended, items, closing, entry, routed, ask, release>>
      /\ (state' = "closed" <=> state = "closed")
  BY DEF AClose, streamVars, entryVars
<1>3. ASSUME NEW t \in Stream PROVE StreamInv(t)'
  BY <1>2, OtherStream
<1> QED BY <1>1, <1>3

-------------------------------------------------------------------------------
(* The reader *)

LEMMA ReaderEndsKeepsClient ==
  ASSUME ClientInv, ReaderEnds
  PROVE  ClientInv'
<1> USE DEF ClientInv
<1>1. /\ state # "closed" /\ state' = "closed" /\ routed' = {}
      /\ UNCHANGED <<link, phase, cur, interrupted, items, read, closing, held, ackDue, emitted,
                     toBridge, toClient>>
      /\ entry' = [e \in Sid |-> IF e \in routed /\ entry[e] \in {"pending", "active", "doomed"}
                                THEN "released" ELSE entry[e]]
      /\ ask' = [e \in Sid |-> IF ask[e] = "unset" THEN "closed" ELSE ask[e]]
      /\ release' = [e \in Sid |-> IF release[e] = "sent" THEN "settled" ELSE release[e]]
      /\ ended' = [s \in Stream |-> IF ended[s] = "no" /\ PartSet(s) \cap routed # {}
                                   THEN "closed" ELSE ended[s]]
  BY DEF ReaderEnds, bridgeVars
<1>2. TypeOK'
  BY <1>1 DEF TypeOK
<1>3. ASSUME NEW s \in Stream PROVE StreamInv(s)'
  <2>0. PartSet(s) \subseteq Sid /\ PartSet(s) # {}
    BY PartOfStream
  <2>1. \A e \in PartSet(s) : entry[e] \in Live \cup {"doomed"} => e \in routed
    <3>1. ASSUME NEW e \in PartSet(s), entry[e] \in Live PROVE e \in routed
      <4>1. phase[s] # "new" /\ ended[s] = "no"
        BY <3>1 DEF StreamInv, Untouched, Routing, Live
      <4>2. Started(s)
        BY <4>1 DEF StreamInv, Routing, Started, TypeOK
      <4> QED BY <4>1, <4>2 DEF StreamInv, Routing
    <3> QED BY <3>1 DEF StreamInv, Routing
  <2>2. \A e \in PartSet(s) : entry'[e] \notin Live \cup {"doomed"}
    BY <1>1, <2>0, <2>1 DEF Live
  <2>3. phase[s] # "new" => ended'[s] # "no"
    <3>1. Started(s) /\ ended[s] = "no" => PartSet(s) \cap routed # {}
      BY <2>0 DEF StreamInv, Routing
    <3>2. phase[s] \in {"new", "failed"} \/ Started(s)
      BY DEF TypeOK, Started
    <3>3. phase[s] = "failed" => ended[s] # "no"
      BY DEF StreamInv, Routing
    <3>4. ended'[s] = IF ended[s] = "no" /\ PartSet(s) \cap routed # {} THEN "closed" ELSE ended[s]
      BY <1>1
    <3> QED BY <3>1, <3>2, <3>3, <3>4
  <2>4. ended[s] # "no" => ended'[s] # "no"
    BY <1>1
  <2>5. phase[s] = "new" => ended'[s] = "no"
    BY <1>1 DEF StreamInv, Untouched
  <2>6. \A e \in PartSet(s) : /\ entry[e] = "none" => entry'[e] = "none"
                              /\ ask[e] = "none" <=> ask'[e] = "none"
    BY <1>1, <2>0
  <2>7. Untouched(s)'
    BY <1>1, <2>5, <2>6 DEF StreamInv, Untouched
  <2>8. InTurn(s)'
    <3>1. \A i \in DOMAIN Parts[s] : Parts[s][i] \in PartSet(s)
      BY PartOfStream
    <3>2. cur' = cur /\ phase' = phase
      BY <1>1
    <3>3. phase[s] = "asking" => ask'[Current(s)] # "none"
      BY <2>6, CurrentPart DEF StreamInv, InTurn
    <3> QED BY <2>2, <2>6, <3>1, <3>2, <3>3 DEF StreamInv, InTurn, Current, Live
  <2>9. Routing(s)'
    BY <1>1, <2>2, <2>3, <2>4 DEF StreamInv, Routing, Started, Live
  <2>10. Closed(s)'
    BY <1>1, <2>2, <2>3 DEF Closed
  <2> QED BY <2>7, <2>8, <2>9, <2>10 DEF StreamInv
<1> QED BY <1>2, <1>3

\* One frame of the reader, whatever its kind.
LEMMA ReadsFrame ==
  ASSUME TypeOK, Receive
  PROVE  /\ toClient # <<>> /\ toClient' = Tail(toClient) /\ toClient' \in Seq(FrameSet)
         /\ Head(toClient) \in FrameSet /\ Head(toClient).sid \in Sid
         /\ StreamOf(Head(toClient).sid) \in Stream
         /\ Head(toClient).sid \in PartSet(StreamOf(Head(toClient).sid))
         /\ state # "closed"
         /\ UNCHANGED <<state, link, phase, cur, interrupted, read, closing, held, ackDue, emitted,
                        toBridge>>
<1>1. toClient # <<>> /\ toClient \in Seq(FrameSet) /\ toClient' = Tail(toClient)
  BY WireType DEF Receive
<1>2. Head(toClient) \in FrameSet /\ toClient' \in Seq(FrameSet)
  BY <1>1, TailFrames
<1>3. Head(toClient).sid \in Sid
  BY <1>2 DEF FrameSet
<1> QED BY <1>1, <1>2, <1>3, StreamOfPart DEF Receive, bridgeVars

LEMMA AnswerKeepsClient ==
  ASSUME ClientInv, Receive, RouteAnswer(Head(toClient))
  PROVE  ClientInv'
<1> USE DEF ClientInv
<1> DEFINE f == Head(toClient)
<1>1. f.sid \in Sid
  BY ReadsFrame
<1>2. UNCHANGED <<state, link, phase, cur, interrupted, entry, routed, ended, items, read, closing,
                  held, ackDue, emitted, toBridge>>
      /\ toClient' \in Seq(FrameSet)
  BY ReadsFrame DEF RouteAnswer
<1> HIDE DEF f
<1>3. /\ ask' \in [Sid -> {"none", "unset", "ok", "error", "timeout", "closed"}]
      /\ \A e \in Sid : /\ ask'[e] = "none" <=> ask[e] = "none"
                        /\ ask'[e] = "closed" => ask[e] = "closed"
  <2>1. ask' = [ask EXCEPT ![f.sid] =
                  IF @ # "unset" THEN @
                  ELSE CASE f.kind = "ack" -> "ok" [] f.kind = "error" -> "error" [] OTHER -> @]
    BY DEF RouteAnswer, f
  <2>2. ask'[f.sid] = ask[f.sid] \/ (ask[f.sid] = "unset" /\ ask'[f.sid] \in {"ok", "error"})
    <3>1. ask'[f.sid] = IF ask[f.sid] # "unset" THEN ask[f.sid]
                        ELSE CASE f.kind = "ack" -> "ok" [] f.kind = "error" -> "error"
                               [] OTHER -> ask[f.sid]
      BY <1>1, <2>1 DEF TypeOK
    <3>2. CASE ask[f.sid] # "unset"
      BY <3>1, <3>2
    <3>3. CASE ask[f.sid] = "unset" /\ f.kind = "ack"
      BY <3>1, <3>3
    <3>4. CASE ask[f.sid] = "unset" /\ f.kind = "error"
      BY <3>1, <3>4
    <3>5. CASE f.kind \notin {"ack", "error"}
      BY <3>1, <3>5
    <3> QED BY <3>2, <3>3, <3>4, <3>5
  <2>3. \A e \in Sid : e # f.sid => ask'[e] = ask[e]
    BY <2>1 DEF TypeOK
  <2>4. ask' = [e \in Sid |-> ask'[e]]
    BY <2>1 DEF TypeOK
  <2>5. \A e \in Sid : ask'[e] = ask[e] \/ (ask[e] = "unset" /\ ask'[e] \in {"ok", "error"})
    BY <2>2, <2>3
  <2>6. \A e \in Sid : ask'[e] \in {"none", "unset", "ok", "error", "timeout", "closed"}
    BY <2>5 DEF TypeOK
  <2> QED BY <2>4, <2>5, <2>6
<1>4. /\ release' \in [Sid -> ReleaseState]
      /\ \A e \in Sid : release'[e] = "settled" => release[e] = "settled"
  BY <1>1 DEF TypeOK, RouteAnswer, f
<1>5. TypeOK'
  BY <1>2, <1>3, <1>4 DEF TypeOK, FrameSet, AnyKind
<1>6. ASSUME NEW t \in Stream PROVE StreamInv(t)'
  <2>1. \A e \in PartSet(t) : e \in Sid
    BY PartOfStream
  <2> QED BY <1>2, <1>3, <1>4, <2>1, OtherStream
<1> QED BY <1>5, <1>6

LEMMA LiveMeans ==
  ASSUME ClientInv, NEW s \in Stream, NEW e \in PartSet(s), entry[e] \in Live
  PROVE  phase[s] \in {"asking", "handed"} /\ ended[s] = "no" /\ e \in routed
<1>1. phase[s] # "new" /\ ended[s] = "no"
  BY DEF ClientInv, StreamInv, Untouched, Routing, Live
<1>2. phase[s] \in {"asking", "handed"}
  BY <1>1 DEF ClientInv, StreamInv, Routing, TypeOK
<1> QED BY <1>1, <1>2 DEF ClientInv, StreamInv, Routing, Started

LEMMA EventKeepsClient ==
  ASSUME ClientInv, Receive, RouteEvent(Head(toClient))
  PROVE  ClientInv'
<1> USE DEF ClientInv
<1> DEFINE e == Head(toClient).sid
           n == Head(toClient).n
           s == StreamOf(e)
<1>1. /\ e \in Sid /\ s \in Stream /\ e \in PartSet(s) /\ n \in Nat
      /\ UNCHANGED <<state, link, phase, cur, interrupted, read, closing, held, ackDue, emitted,
                     toBridge>>
      /\ ask' = ask /\ toClient' \in Seq(FrameSet)
  BY ReadsFrame DEF RouteEvent, FrameSet
<1>2. \/ UNCHANGED <<entry, routed, release, ended, items>>
      \/ /\ e \in routed /\ entry[e] \in Live /\ ended[s] = "no"
         /\ ended' = End(s, "overflow") /\ entry' = Detach(s)
         /\ routed' = routed \ ActiveParts(s) /\ release' = Spawn(ActiveParts(s))
         /\ items' = items
      \/ /\ e \in routed /\ entry[e] \in Live /\ ended[s] = "no"
         /\ Len(items[s]) < MaxPending[s]
         /\ items' = [items EXCEPT ![s] = Append(@, <<e, n>>)]
         /\ UNCHANGED <<entry, routed, release, ended>>
  BY DEF RouteEvent
<1> HIDE DEF e, n, s
<1>3. CASE UNCHANGED <<entry, routed, release, ended, items>>
  <2>1. TypeOK'
    BY <1>1, <1>3 DEF TypeOK, FrameSet, AnyKind
  <2>2. ASSUME NEW t \in Stream PROVE StreamInv(t)'
    BY <1>1, <1>3, OtherStream
  <2> QED BY <2>1, <2>2
<1>4. CASE /\ entry[e] \in Live /\ ended[s] = "no"
           /\ ended' = End(s, "overflow") /\ entry' = Detach(s)
           /\ routed' = routed \ ActiveParts(s) /\ release' = Spawn(ActiveParts(s))
           /\ items' = items
  <2>1. phase[s] \in {"asking", "handed"}
    BY <1>1, <1>4, LiveMeans
  <2>2. release' \in [Sid -> ReleaseState]
        /\ \A d \in Sid : release'[d] = "settled" => release[d] = "settled"
    BY <1>4, SpawnType
  <2>3. /\ ended' \in [Stream -> {"no", "client", "overflow", "terminated", "closed"}]
        /\ entry' \in [Sid -> EntryState]
        /\ routed' \in SUBSET Sid
        /\ \A t \in Stream : StreamInv(t)'
    BY <1>1, <1>4, <2>1, <2>2, EndKeeps
  <2>4. TypeOK'
    BY <1>1, <1>4, <2>2, <2>3 DEF TypeOK, FrameSet, AnyKind
  <2> QED BY <2>3, <2>4
<1>5. CASE /\ entry[e] \in Live /\ Len(items[s]) < MaxPending[s]
           /\ items' = [items EXCEPT ![s] = Append(@, <<e, n>>)]
           /\ UNCHANGED <<entry, routed, release, ended>>
  <2>1. phase[s] \in {"asking", "handed"}
    BY <1>1, <1>5, LiveMeans
  <2>2. DOMAIN items' = Stream /\ items'[s] = Append(items[s], <<e, n>>)
        /\ \A t \in Stream : t # s => items'[t] = items[t]
    BY <1>1, <1>5 DEF TypeOK
  <2>3. items'[s] \in Seq(PartSet(s) \X Nat) /\ Len(items'[s]) <= MaxPending[s]
    <3>1. <<e, n>> \in PartSet(s) \X Nat
      BY <1>1
    <3>2. items[s] \in Seq(PartSet(s) \X Nat) /\ MaxPending[s] \in Nat
      BY <1>1, LimitsAssumption DEF TypeOK
    <3> QED BY <1>5, <2>2, <3>1, <3>2, AppendFrame
  <2>4. TypeOK'
    BY <1>1, <1>5, <2>2, <2>3 DEF TypeOK, FrameSet, AnyKind
  <2>5. ASSUME NEW t \in Stream PROVE StreamInv(t)'
    <3>1. items'[t] = items[t] \/ phase[t] # "new"
      BY <2>1, <2>2
    <3> QED BY <1>1, <1>5, <3>1, OtherStream
  <2> QED BY <2>4, <2>5
<1> QED BY <1>2, <1>3, <1>4, <1>5

LEMMA TerminationKeepsClient ==
  ASSUME ClientInv, Receive, RouteTermination(Head(toClient))
  PROVE  ClientInv'
<1> USE DEF ClientInv
<1>0. PICK e \in Sid, s \in Stream : e = Head(toClient).sid /\ s = StreamOf(e)
  BY ReadsFrame
<1> DEFINE others == ActiveParts(s) \ {e}
<1>1. /\ e \in Sid /\ s \in Stream /\ e \in PartSet(s) /\ PartSet(s) \subseteq Sid
      /\ UNCHANGED <<link, phase, cur, interrupted, read, closing, held, ackDue, emitted,
                     toBridge>>
      /\ UNCHANGED <<state, ask, items>> /\ toClient' \in Seq(FrameSet) /\ state # "closed"
  BY <1>0, ReadsFrame, PartOfStream DEF RouteTermination
<1>2. \/ UNCHANGED <<entry, routed, release, ended>>
      \/ /\ e \in routed /\ entry[e] = "zombie"
         /\ routed' = routed \ {e} /\ entry' = [entry EXCEPT ![e] = "terminated"]
         /\ UNCHANGED <<release, ended>>
      \/ /\ e \in routed
         /\ ended' = End(s, "terminated")
         /\ entry' = [Detach(s) EXCEPT ![e] = "terminated"]
         /\ routed' = routed \ (others \cup {e})
         /\ release' = Spawn(others)
  BY <1>0 DEF RouteTermination
<1>3. CASE UNCHANGED <<entry, routed, release, ended>>
  <2>1. TypeOK'
    BY <1>1, <1>3 DEF TypeOK, FrameSet, AnyKind
  <2>2. ASSUME NEW t \in Stream PROVE StreamInv(t)'
    BY <1>1, <1>3, OtherStream
  <2> QED BY <2>1, <2>2
<1>4. ASSUME e \in routed
      PROVE  phase[s] # "new"
  BY <1>1, <1>4 DEF StreamInv, Untouched
<1>5. CASE /\ e \in routed /\ entry[e] = "zombie"
           /\ routed' = routed \ {e} /\ entry' = [entry EXCEPT ![e] = "terminated"]
           /\ UNCHANGED <<release, ended>>
  <2>1. TypeOK'
    BY <1>1, <1>5 DEF TypeOK, FrameSet, AnyKind
  <2>2. ended[s] \notin {"no", "closed"}
    <3>1. ~ (Started(s) /\ ended[s] = "no")
      BY <1>1, <1>5 DEF StreamInv, Routing, Live
    <3>2. ended[s] # "no"
      BY <1>1, <1>4, <1>5, <3>1 DEF StreamInv, Routing, Started, TypeOK
    <3> QED BY <1>1, <3>2 DEF StreamInv, Closed
  <2>3. entry'[e] = "terminated" /\ \A d \in Sid : d # e => entry'[d] = entry[d]
    BY <1>1, <1>5 DEF TypeOK
  <2>4. \A d \in PartSet(s) : /\ entry'[d] \notin Live
                              /\ entry'[d] = "doomed" => entry[d] = "doomed" /\ d \in routed'
    BY <1>1, <1>5, <2>2, <2>3 DEF StreamInv, Routing, Live
  <2>5. StreamInv(s)'
    <3>1. /\ phase[s] # "new" /\ phase'[s] = phase[s] /\ cur'[s] = cur[s]
          /\ closing'[s] = closing[s] /\ state' = state /\ state # "closed"
          /\ ended'[s] \notin {"no", "closed"}
      BY <1>1, <1>4, <1>5, <2>2
    <3>2. \A d \in PartSet(s) : ask'[d] = ask[d] /\ (release'[d] = "settled" => release[d] = "settled")
      BY <1>1, <1>5
    <3> QED BY <1>1, <2>4, <3>1, <3>2, StreamEnds
  <2>6. ASSUME NEW t \in Stream, t # s PROVE StreamInv(t)'
    <3>1. \A d \in PartSet(t) : d \in Sid /\ d # e
      BY <1>1, <2>6, PartOfStream
    <3>2. \A d \in PartSet(t) : entry'[d] = entry[d] /\ (d \in routed' <=> d \in routed)
      BY <1>5, <2>3, <3>1
    <3>3. /\ phase'[t] = phase[t] /\ cur'[t] = cur[t] /\ ended'[t] = ended[t]
          /\ items'[t] = items[t] /\ closing'[t] = closing[t] /\ state' = state
          /\ \A d \in PartSet(t) : ask'[d] = ask[d] /\ release'[d] = release[d]
      BY <1>1, <1>5
    <3> QED BY <3>2, <3>3, OtherStream
  <2> QED BY <2>1, <2>5, <2>6
<1>6. CASE /\ e \in routed
           /\ ended' = End(s, "terminated")
           /\ entry' = [Detach(s) EXCEPT ![e] = "terminated"]
           /\ routed' = routed \ (others \cup {e})
           /\ release' = Spawn(others)
  <2>1. /\ release' \in [Sid -> ReleaseState]
        /\ \A d \in Sid : release'[d] = "settled" => release[d] = "settled"
    BY <1>6, SpawnType
  <2>2. /\ ended' \in [Stream -> {"no", "client", "overflow", "terminated", "closed"}]
        /\ \A t \in Stream : t # s => ended'[t] = ended[t]
        /\ ended'[s] \notin {"no", "closed"}
    <3>1. ended[s] # "closed"
      BY <1>1 DEF StreamInv, Closed
    <3>2. ended'[s] = IF ended[s] = "no" THEN "terminated" ELSE ended[s]
      BY <1>1, <1>6, EndType
    <3>3. /\ ended' \in [Stream -> {"no", "client", "overflow", "terminated", "closed"}]
          /\ \A t \in Stream : t # s => ended'[t] = ended[t]
      BY <1>1, <1>6, EndType
    <3> QED BY <3>1, <3>2, <3>3
  <2>3. /\ entry' \in [Sid -> EntryState]
        /\ entry'[e] = "terminated" /\ \A d \in Sid : d # e => entry'[d] = Detach(s)[d]
    BY <1>1, <1>6, DetachType
  <2>4. TypeOK'
    BY <1>1, <1>6, <2>1, <2>2, <2>3 DEF TypeOK, FrameSet, AnyKind
  <2>5. ASSUME NEW d \in PartSet(s)
        PROVE  /\ entry'[d] \notin Live
               /\ entry'[d] = "doomed" => entry[d] \in {"pending", "doomed"} /\ d \in routed'
    <3>1. CASE d = e
      BY <2>3, <3>1 DEF Live
    <3>2. CASE d # e
      <4>1. entry'[d] = Detach(s)[d] /\ entry'[d] \notin Live
        BY <1>1, <2>3, <3>2, DetachType
      <4>2. entry'[d] = "doomed" => entry[d] \in {"pending", "doomed"}
        BY <1>1, <4>1, DetachType
      <4>3. entry[d] \in {"pending", "doomed"} => d \in routed /\ d \notin ActiveParts(s)
        BY <1>1, LiveMeans DEF StreamInv, Routing, Live, ActiveParts
      <4> QED BY <1>6, <3>2, <4>1, <4>2, <4>3
    <3> QED BY <3>1, <3>2
  <2>6. StreamInv(s)'
    <3>1. /\ phase[s] # "new" /\ phase'[s] = phase[s] /\ cur'[s] = cur[s]
          /\ closing'[s] = closing[s] /\ state' = state /\ state # "closed"
          /\ ended'[s] \notin {"no", "closed"}
      BY <1>1, <1>4, <1>6, <2>2
    <3>2. \A d \in PartSet(s) : ask'[d] = ask[d] /\ (release'[d] = "settled" => release[d] = "settled")
      BY <1>1, <2>1
    <3> QED BY <1>1, <2>5, <3>1, <3>2, StreamEnds
  <2>7. ASSUME NEW t \in Stream, t # s PROVE StreamInv(t)'
    <3>1. \A d \in PartSet(t) : d \in Sid /\ d # e /\ d \notin PartSet(s) /\ d \notin ActiveParts(s)
      BY <1>1, <2>7, PartOfStream DEF ActiveParts
    <3>2. \A d \in PartSet(t) : entry'[d] = entry[d] /\ (d \in routed' <=> d \in routed)
      BY <1>1, <1>6, <2>3, <3>1, DetachType
    <3>3. /\ phase'[t] = phase[t] /\ cur'[t] = cur[t] /\ ended'[t] = ended[t]
          /\ items'[t] = items[t] /\ closing'[t] = closing[t] /\ state' = state
          /\ \A d \in PartSet(t) : ask'[d] = ask[d] /\ (release'[d] = "settled" => release[d] = "settled")
      BY <1>1, <2>1, <2>2, <2>7, <3>1
    <3> QED BY <3>2, <3>3, OtherStream
  <2> QED BY <2>4, <2>6, <2>7
<1> QED BY <1>2, <1>3, <1>5, <1>6

-------------------------------------------------------------------------------
(* The client's layer holds *)

LEMMA ClientNext == ClientInv /\ [Next]_vars => ClientInv'
<1> SUFFICES ASSUME ClientInv, [Next]_vars PROVE ClientInv'
  OBVIOUS
<1>1. ASSUME NEW s \in Stream,
             \/ Subscribe(s) \/ AskTimesOut(s) \/ CancelSubscribe(s) \/ SubscribeStep(s)
             \/ Unsubscribe(s) \/ CancelStream(s) \/ UnsubscribeReturns(s) \/ CancelUnsubscribe(s)
             \/ Take(s)
      PROVE  ClientInv'
  BY <1>1, SubscribeKeepsClient, AskTimesOutKeepsClient, CancelSubscribeKeepsClient,
     HandKeepsClient, AskNextKeepsClient, AskFailsKeepsClient, UnsubscribeKeepsClient,
     CancelStreamKeepsClient, UnsubscribeReturnsKeepsClient, CancelUnsubscribeKeepsClient,
     TakeKeepsClient DEF SubscribeStep
<1>2. ASSUME NEW e \in Sid, ReleaseStarts(e) \/ ReleaseReturns(e)
      PROVE  ClientInv'
  BY <1>2, ReleaseStartsKeepsClient, ReleaseReturnsKeepsClient
<1>3. ASSUME BridgeStep PROVE ClientInv'
  BY <1>3, BridgeKeepsClient
<1>4. ASSUME Receive PROVE ClientInv'
  BY <1>4, AnswerKeepsClient, EventKeepsClient, TerminationKeepsClient DEF Receive
<1>5. ASSUME ReaderEnds \/ AClose PROVE ClientInv'
  BY <1>5, ReaderEndsKeepsClient, ACloseKeepsClient
<1>6. ASSUME UNCHANGED vars PROVE ClientInv'
  <2>1. TypeOK'
    BY <1>6 DEF ClientInv, TypeOK, vars, streamVars, entryVars, bridgeVars
  <2>2. ASSUME NEW t \in Stream PROVE StreamInv(t)'
    BY <1>6, OtherStream DEF ClientInv, vars, streamVars, entryVars
  <2> QED BY <2>1, <2>2 DEF ClientInv
<1> QED BY <1>1, <1>2, <1>3, <1>4, <1>5, <1>6 DEF Next, BridgeStep

LEMMA ClientAlways == Spec => []ClientInv
  BY ClientInit, ClientNext, PTL DEF Spec

\* Every variable of _subscribe, of the reader and of the bridge keeps to its
\* type, and no queue outgrows its limit.
THEOREM TypeCorrect == Spec => []TypeOK
<1>1. ClientInv => TypeOK
  BY DEF ClientInv
<1> QED BY <1>1, ClientAlways, PTL

\* _route_event, _route_termination and _on_disconnect find every part of a
\* live stream routed, and leave none of an ended one waiting.
THEOREM RoutedWhileLive == Spec => []LiveStreamsAreRouted
<1>1. ASSUME ClientInv PROVE LiveStreamsAreRouted
  <2>1. ASSUME NEW s \in Stream, Started(s), ended[s] = "no"
        PROVE  /\ state # "closed"
               /\ \A e \in PartSet(s) : e \in routed /\ entry[e] \in Live
               /\ phase[s] = "handed" => \A e \in PartSet(s) : entry[e] = "active"
    <3>1. \A e \in PartSet(s) : e \in routed /\ entry[e] \in Live
      BY <1>1, <2>1 DEF ClientInv, StreamInv, Routing
    <3>2. phase[s] = "handed" => \A e \in PartSet(s) : entry[e] # "pending"
      BY <1>1 DEF ClientInv, StreamInv, Routing
    <3>3. state # "closed"
      BY <1>1, <2>1 DEF ClientInv, StreamInv, Closed, Started
    <3> QED BY <3>1, <3>2, <3>3 DEF Live
  <2>2. ASSUME NEW s \in Stream
        PROVE  /\ ended[s] # "no" => \A e \in PartSet(s) : entry[e] \notin Live
               /\ ended[s] = "closed" => state = "closed"
               /\ state = "closed" =>
                    /\ \A e \in PartSet(s) : entry[e] \notin Live \cup {"doomed"}
                    /\ phase[s] # "new" => ended[s] # "no"
    BY <1>1 DEF ClientInv, StreamInv, Routing, Closed
  <2>3. ASSUME state = "closed" PROVE routed = {}
    <3>1. ASSUME NEW e \in routed PROVE FALSE
      <4>1. e \in Sid
        BY <1>1 DEF ClientInv, TypeOK
      <4>2. StreamOf(e) \in Stream /\ e \in PartSet(StreamOf(e))
        BY <4>1, StreamOfPart
      <4> QED BY <1>1, <2>3, <4>2 DEF ClientInv, StreamInv, Closed
    <3> QED BY <3>1
  <2> QED BY <2>1, <2>2, <2>3 DEF LiveStreamsAreRouted
<1> QED BY <1>1, ClientAlways, PTL

-------------------------------------------------------------------------------
(* What is under way *)

\* A frame of one of these kinds is on its way to the client for e.
Told(kinds, e) == \E i \in DOMAIN toClient : toClient[i].kind \in kinds /\ toClient[i].sid = e

\* The bridge does not have e and will not register it.
Away(e) == e \notin held /\ ~InFlight("subscribe", e)

Last == {"error", "terminated", "unsubscribed"}

\* An id is requested once, and released only after that.
RequestsOnce ==
  \A i, j \in DOMAIN toBridge :
    toBridge[j].op = "subscribe" /\ toBridge[i].sid = toBridge[j].sid =>
      /\ toBridge[i].op = "subscribe" => i = j
      /\ toBridge[i].op = "unsubscribe" => j < i

\* A dead socket carries nothing to the bridge, which has forgotten the client.
DeadLink == link = "down" => held = {} /\ ackDue = {} /\ toBridge = <<>>

\* Nothing is known of an id that has not been asked for.
Unasked(e) ==
  ask[e] = "none" =>
    /\ Away(e) /\ e \notin ackDue /\ emitted[e] = 0 /\ release[e] = "none"
    /\ ~InFlight("unsubscribe", e) /\ ~Told(AnyKind, e)

\* An id is not registered before its request arrives.
NotYet(e) == InFlight("subscribe", e) => e \notin held /\ e \notin ackDue

\* A refusal, a termination and the answer to an unsubscribe are final.
Final(e) ==
  Told(Last, e) \/ ask[e] = "error" \/ release[e] = "acked" \/ entry[e] = "terminated" => Away(e)

\* NoOrphan, said of one id.
Accounted(e) ==
  state = "open" /\ link = "up" =>
    \/ Away(e)
    \/ entry[e] \in Live
    \/ entry[e] = "doomed" /\ phase[StreamOf(e)] = "asking"
    \/ release[e] \in {"spawned", "gathered", "dropped"}
    \/ InFlight("unsubscribe", e)

\* Where unsubscribe() stands with the request for an id.
Gathered(e) ==
  closing[StreamOf(e)] \in {"waiting", "returned"} =>
    /\ release[e] \in {"gathered", "sent", "acked", "settled", "over", "lapsed"}
    /\ closing[StreamOf(e)] = "returned" => release[e] = "over"
    /\ release[e] = "over" /\ state = "open" => Away(e)

PartWire(e) == Unasked(e) /\ NotYet(e) /\ Final(e) /\ Accounted(e) /\ Gathered(e)

WireInv == RequestsOnce /\ DeadLink /\ \A e \in Sid : PartWire(e)

-------------------------------------------------------------------------------
(* What has been heard *)

\* The stream of e has begun and not ended.
Hears(e) == Started(StreamOf(e)) /\ ended[StreamOf(e)] = "no"

\* The frame tells that e is terminated.
Ends(f, e) == f.kind = "terminated" /\ f.sid = e

\* An event frame under way is not news to the bridge, and behind the
\* termination of a part there is nothing left to hear of it.
Heard(e, h) ==
  /\ Follows(Queued(e), read[e]) /\ Reaches(Queued(e), read[e], h)
  /\ Hears(e) =>
       /\ Follows(Coming(e), h)
       /\ link = "up" => Reaches(Coming(e), h, emitted[e])
       /\ \A i \in DOMAIN toClient : Ends(toClient[i], e) =>
            h = emitted[e] \/ \E j \in DOMAIN Coming(e) : j < i /\ Coming(e)[j] = emitted[e]

Tallied(e) ==
  /\ \A i \in DOMAIN Coming(e) : Coming(e)[i] <= emitted[e]
  /\ \E h \in read[e] .. emitted[e] : Heard(e, h)

\* A termination is told after all that was emitted.
ToldAll(s) ==
  ended[s] = "terminated" =>
    \E d \in PartSet(s) : entry[d] = "terminated" /\ Reaches(Queued(d), read[d], emitted[d])

OrderInv == (\A e \in Sid : Tallied(e)) /\ \A s \in Stream : ToldAll(s)

-------------------------------------------------------------------------------
(* Frames *)

LEMMA AppendIndex ==
  ASSUME NEW S, NEW q \in Seq(S), NEW f
  PROVE  /\ DOMAIN Append(q, f) = DOMAIN q \cup {Len(q) + 1}
         /\ \A i \in DOMAIN q : Append(q, f)[i] = q[i] /\ i < Len(q) + 1
         /\ Append(q, f)[Len(q) + 1] = f
         /\ Len(q) + 1 \notin DOMAIN q
  OBVIOUS

LEMMA TailIndex ==
  ASSUME NEW S, NEW q \in Seq(S), q # <<>>
  PROVE  /\ DOMAIN q \subseteq Nat \ {0} /\ 1 \in DOMAIN q /\ q[1] = Head(q)
         /\ DOMAIN Tail(q) \subseteq Nat \ {0}
         /\ \A i \in Nat \ {0} : i \in DOMAIN Tail(q) <=> i + 1 \in DOMAIN q
         /\ \A i \in DOMAIN Tail(q) : Tail(q)[i] = q[i + 1]
         /\ \A i \in DOMAIN q : i # 1 => i - 1 \in DOMAIN Tail(q) /\ Tail(q)[i - 1] = q[i]
  OBVIOUS

LEMMA PrefixIndex ==
  ASSUME NEW S, NEW q \in Seq(S), NEW n \in 0 .. Len(q)
  PROVE  /\ DOMAIN SubSeq(q, 1, n) = {i \in DOMAIN q : i <= n}
         /\ \A i \in DOMAIN SubSeq(q, 1, n) : SubSeq(q, 1, n)[i] = q[i]
  OBVIOUS

\* What a request frame adds to those under way.
LEMMA SendInFlight ==
  ASSUME TypeOK, NEW op \in {"subscribe", "unsubscribe"}, NEW e \in Sid, Send(op, e)
  PROVE  /\ link # "up" => toBridge' = toBridge
         /\ \A o \in {"subscribe", "unsubscribe"}, d \in Sid :
               InFlight(o, d)' <=> InFlight(o, d) \/ (link = "up" /\ o = op /\ d = e)
<1>1. toBridge \in Seq(RequestSet)
  BY WireType
<1>2. CASE link # "up"
  BY <1>2 DEF Send, InFlight
<1>3. CASE link = "up"
  <2>1. toBridge' = Append(toBridge, [op |-> op, sid |-> e])
    BY <1>3 DEF Send
  <2>2. /\ DOMAIN toBridge' = DOMAIN toBridge \cup {Len(toBridge) + 1}
        /\ \A i \in DOMAIN toBridge : toBridge'[i] = toBridge[i]
        /\ toBridge'[Len(toBridge) + 1] = [op |-> op, sid |-> e]
    BY <1>1, <2>1, AppendIndex
  <2>3. ASSUME NEW o \in {"subscribe", "unsubscribe"}, NEW d \in Sid
        PROVE  InFlight(o, d)' <=> InFlight(o, d) \/ (o = op /\ d = e)
    <3>1. [op |-> o, sid |-> d] = [op |-> op, sid |-> e] <=> o = op /\ d = e
      OBVIOUS
    <3> QED BY <2>2, <3>1 DEF InFlight
  <2> QED BY <1>3, <2>3
<1> QED BY <1>2, <1>3

LEMMA SendOnce ==
  ASSUME TypeOK, RequestsOnce, NEW op \in {"subscribe", "unsubscribe"}, NEW e \in Sid, Send(op, e),
         op = "subscribe" => ~InFlight("subscribe", e) /\ ~InFlight("unsubscribe", e)
  PROVE  RequestsOnce'
<1>1. toBridge \in Seq(RequestSet)
  BY WireType
<1>2. CASE link # "up"
  BY <1>2 DEF Send, RequestsOnce
<1>3. CASE link = "up"
  <2>1. toBridge' = Append(toBridge, [op |-> op, sid |-> e])
    BY <1>3 DEF Send
  <2>2. /\ DOMAIN toBridge' = DOMAIN toBridge \cup {Len(toBridge) + 1}
        /\ \A i \in DOMAIN toBridge : toBridge'[i] = toBridge[i] /\ i < Len(toBridge) + 1
        /\ toBridge'[Len(toBridge) + 1] = [op |-> op, sid |-> e]
    BY <1>1, <2>1, AppendIndex
  <2>3. ASSUME NEW i \in DOMAIN toBridge, op = "subscribe" PROVE toBridge[i].sid # e
    <3>1. toBridge[i] \in RequestSet
      BY <1>1
    <3>2. toBridge[i] = [op |-> toBridge[i].op, sid |-> toBridge[i].sid]
          /\ toBridge[i].op \in {"subscribe", "unsubscribe"}
      BY <3>1 DEF RequestSet
    <3> QED BY <2>3, <3>2 DEF InFlight
  <2> QED BY <2>2, <2>3 DEF RequestsOnce
<1> QED BY <1>2, <1>3

\* What the bridge leaves of them when it reads one.
LEMMA ReadRequest ==
  ASSUME TypeOK, RequestsOnce, toBridge # <<>>, toBridge' = Tail(toBridge)
  PROVE  /\ RequestsOnce'
         /\ Head(toBridge) \in RequestSet
         /\ InFlight(Head(toBridge).op, Head(toBridge).sid)
         /\ \A o \in {"subscribe", "unsubscribe"}, d \in Sid :
               /\ InFlight(o, d)' => InFlight(o, d)
               /\ InFlight(o, d) => InFlight(o, d)' \/ Head(toBridge) = [op |-> o, sid |-> d]
         /\ \A d \in Sid : d = Head(toBridge).sid => ~InFlight("subscribe", d)'
<1>1. toBridge \in Seq(RequestSet)
  BY WireType
<1>2. /\ 1 \in DOMAIN toBridge /\ toBridge[1] = Head(toBridge) /\ DOMAIN toBridge \subseteq Nat \ {0}
      /\ DOMAIN toBridge' \subseteq Nat \ {0}
      /\ \A i \in DOMAIN toBridge' : i + 1 \in DOMAIN toBridge /\ toBridge'[i] = toBridge[i + 1]
      /\ \A i \in DOMAIN toBridge : i # 1 => i - 1 \in DOMAIN toBridge' /\ toBridge'[i - 1] = toBridge[i]
  BY <1>1, TailIndex
<1>3. Head(toBridge) \in RequestSet
  BY <1>1, TailFrames
<1>4. /\ Head(toBridge) = [op |-> Head(toBridge).op, sid |-> Head(toBridge).sid]
      /\ Head(toBridge).op \in {"subscribe", "unsubscribe"}
  BY <1>3 DEF RequestSet
<1>5. RequestsOnce'
  <2>1. ASSUME NEW i \in DOMAIN toBridge', NEW j \in DOMAIN toBridge',
               toBridge'[j].op = "subscribe", toBridge'[i].sid = toBridge'[j].sid
        PROVE  /\ toBridge'[i].op = "subscribe" => i = j
               /\ toBridge'[i].op = "unsubscribe" => j < i
    <3>1. i \in Nat /\ j \in Nat
      BY <1>2
    <3> QED BY <1>2, <2>1, <3>1 DEF RequestsOnce
  <2> QED BY <2>1 DEF RequestsOnce
<1>6. InFlight(Head(toBridge).op, Head(toBridge).sid)
  BY <1>2, <1>4 DEF InFlight
<1>7. \A o \in {"subscribe", "unsubscribe"}, d \in Sid :
        /\ InFlight(o, d)' => InFlight(o, d)
        /\ InFlight(o, d) => InFlight(o, d)' \/ Head(toBridge) = [op |-> o, sid |-> d]
  <2> SUFFICES ASSUME NEW o \in {"subscribe", "unsubscribe"}, NEW d \in Sid
               PROVE  /\ InFlight(o, d)' => InFlight(o, d)
                      /\ InFlight(o, d) => InFlight(o, d)' \/ Head(toBridge) = [op |-> o, sid |-> d]
    OBVIOUS
  <2>1. InFlight(o, d)' => InFlight(o, d)
    BY <1>2 DEF InFlight
  <2>2. ASSUME NEW i \in DOMAIN toBridge, toBridge[i] = [op |-> o, sid |-> d]
        PROVE  InFlight(o, d)' \/ Head(toBridge) = [op |-> o, sid |-> d]
    <3>1. CASE i = 1
      BY <1>2, <2>2, <3>1
    <3>2. CASE i # 1
      BY <1>2, <2>2, <3>2, ZenonT(30) DEF InFlight
    <3> QED BY <3>1, <3>2
  <2> QED BY <2>1, <2>2 DEF InFlight
<1>8. ASSUME NEW d \in Sid, d = Head(toBridge).sid, InFlight("subscribe", d)' PROVE FALSE
  <2>1. PICK i \in DOMAIN toBridge' : toBridge'[i] = [op |-> "subscribe", sid |-> d]
    BY <1>8 DEF InFlight
  <2>2. i + 1 \in DOMAIN toBridge /\ toBridge[i + 1] = [op |-> "subscribe", sid |-> d] /\ i \in Nat \ {0}
    BY <1>2, <2>1
  <2>3. toBridge[i + 1].op = "subscribe" /\ toBridge[i + 1].sid = d
    BY <2>2
  <2>4. /\ toBridge[1].op = "subscribe" => 1 = i + 1
        /\ toBridge[1].op = "unsubscribe" => i + 1 < 1
    BY <1>2, <1>8, <2>2, <2>3 DEF RequestsOnce
  <2> QED BY <1>2, <1>4, <2>2, <2>4
<1> QED BY <1>3, <1>5, <1>6, <1>7, <1>8

\* Frames to the client.
LEMMA TellsMore ==
  ASSUME TypeOK, NEW f, toClient' = Append(toClient, f)
  PROVE  \A kinds, d : Told(kinds, d)' <=> Told(kinds, d) \/ (f.kind \in kinds /\ f.sid = d)
<1>1. toClient \in Seq(FrameSet)
  BY WireType
<1>2. /\ DOMAIN toClient' = DOMAIN toClient \cup {Len(toClient) + 1}
      /\ \A i \in DOMAIN toClient : toClient'[i] = toClient[i]
      /\ toClient'[Len(toClient) + 1] = f
  BY <1>1, AppendIndex
<1> QED BY <1>2 DEF Told

LEMMA TellsLess ==
  ASSUME TypeOK,
         \/ toClient # <<>> /\ toClient' = Tail(toClient)
         \/ \E n \in 0 .. Len(toClient) : toClient' = SubSeq(toClient, 1, n)
  PROVE  \A kinds, d : Told(kinds, d)' => Told(kinds, d)
<1>1. toClient \in Seq(FrameSet)
  BY WireType
<1>2. \A i \in DOMAIN toClient' : \E j \in DOMAIN toClient : toClient'[i] = toClient[j]
  <2>1. CASE toClient # <<>> /\ toClient' = Tail(toClient)
    <3>1. /\ \A i \in DOMAIN toClient' : i + 1 \in DOMAIN toClient /\ toClient'[i] = toClient[i + 1]
      BY <1>1, <2>1, TailIndex
    <3> QED BY <3>1
  <2>2. ASSUME NEW n \in 0 .. Len(toClient), toClient' = SubSeq(toClient, 1, n)
        PROVE  \A i \in DOMAIN toClient' : \E j \in DOMAIN toClient : toClient'[i] = toClient[j]
    BY <1>1, <2>2, PrefixIndex
  <2> QED BY <2>1, <2>2
<1> QED BY <1>2 DEF Told

-------------------------------------------------------------------------------
(* What a step leaves alone *)

LEMMA OtherPart ==
  ASSUME NEW e \in Sid, PartWire(e),
         state' = "open" => state = "open", link' = "up" => link = "up",
         ask'[e] = "none" => ask[e] = "none",
         ask'[e] = "error" => ask[e] = "error" \/ Told(Last, e),
         release'[e] = release[e], entry'[e] = entry[e],
         entry[e] = "doomed" => phase'[StreamOf(e)] = phase[StreamOf(e)],
         closing'[StreamOf(e)] # closing[StreamOf(e)] => closing'[StreamOf(e)] = "raised",
         e \in held' => e \in held, e \in ackDue' => e \in ackDue, emitted'[e] = emitted[e],
         InFlight("subscribe", e)' => InFlight("subscribe", e),
         InFlight("unsubscribe", e)' <=> InFlight("unsubscribe", e),
         Told(AnyKind, e)' => Told(AnyKind, e), Told(Last, e)' => Told(Last, e)
  PROVE  PartWire(e)'
<1>1. Away(e) => Away(e)'
  BY DEF Away
<1>2. Unasked(e)'
  BY <1>1 DEF PartWire, Unasked
<1>3. NotYet(e)'
  BY DEF PartWire, NotYet
<1>4. Final(e)'
  BY <1>1 DEF PartWire, Final
<1>5. Accounted(e)'
  BY <1>1 DEF PartWire, Accounted
<1>6. Gathered(e)'
  BY <1>1 DEF PartWire, Gathered
<1> QED BY <1>2, <1>3, <1>4, <1>5, <1>6 DEF PartWire

\* The bridge and the sockets stay as they are while the client acts; a frame
\* may have been read.
Quiet == /\ UNCHANGED <<link, bridgeVars, toBridge>>
         /\ \A kinds, d : Told(kinds, d)' => Told(kinds, d)

LEMMA QuietPart ==
  ASSUME NEW e \in Sid, PartWire(e), Quiet,
         state' = "open" => state = "open",
         ask'[e] = "none" => ask[e] = "none" /\ release'[e] = release[e],
         ask'[e] = "error" \/ release'[e] = "acked" \/ entry'[e] = "terminated" => Away(e),
         Accounted(e)', Gathered(e)'
  PROVE  PartWire(e)'
<1>1. /\ Away(e)' <=> Away(e)
      /\ InFlight("unsubscribe", e)' <=> InFlight("unsubscribe", e)
      /\ InFlight("subscribe", e)' <=> InFlight("subscribe", e)
      /\ held' = held /\ ackDue' = ackDue /\ emitted' = emitted
      /\ Told(AnyKind, e)' => Told(AnyKind, e)
      /\ Told(Last, e)' => Told(Last, e)
  BY DEF Quiet, Away, InFlight, bridgeVars
<1>2. Unasked(e)'
  BY <1>1 DEF PartWire, Unasked
<1>3. NotYet(e)'
  BY <1>1 DEF PartWire, NotYet
<1>4. Final(e)'
  BY <1>1 DEF PartWire, Final
<1> QED BY <1>2, <1>3, <1>4 DEF PartWire

LEMMA QuietOther ==
  ASSUME NEW e \in Sid, PartWire(e), Quiet,
         state' = "open" => state = "open",
         ask'[e] = "none" => ask[e] = "none",
         ask'[e] = "error" => ask[e] = "error",
         release'[e] = release[e], entry'[e] = entry[e],
         entry[e] = "doomed" => phase'[StreamOf(e)] = phase[StreamOf(e)],
         closing'[StreamOf(e)] = closing[StreamOf(e)] \/ closing'[StreamOf(e)] = "raised"
  PROVE  PartWire(e)'
<1>1. /\ InFlight("unsubscribe", e)' <=> InFlight("unsubscribe", e)
      /\ InFlight("subscribe", e)' <=> InFlight("subscribe", e)
      /\ held' = held /\ ackDue' = ackDue /\ emitted' = emitted /\ link' = link
      /\ Told(AnyKind, e)' => Told(AnyKind, e)
      /\ Told(Last, e)' => Told(Last, e)
  BY DEF Quiet, InFlight, bridgeVars
<1> QED BY <1>1, OtherPart

LEMMA QuietWire ==
  ASSUME WireInv, Quiet
  PROVE  RequestsOnce' /\ DeadLink'
  BY DEF WireInv, Quiet, RequestsOnce, DeadLink, bridgeVars

LEMMA SameTold ==
  ASSUME toClient' = toClient
  PROVE  \A kinds, d : Told(kinds, d)' => Told(kinds, d)
  BY DEF Told

-------------------------------------------------------------------------------
(* subscribe() on the wire *)

LEMMA SubscribeKeepsWire ==
  ASSUME ClientInv, WireInv, NEW s \in Stream, Subscribe(s)
  PROVE  WireInv'
<1> DEFINE first == Parts[s][1]
<1>0. first \in PartSet(s) /\ first \in Sid /\ PartSet(s) \subseteq Sid
  BY PartOfStream
<1>1. /\ phase[s] = "new" /\ state = "open" /\ Send("subscribe", first)
      /\ UNCHANGED <<state, link, release, closing, held, ackDue, emitted, toClient>>
  BY DEF Subscribe, bridgeVars
<1>2. \A e \in PartSet(s) : ask[e] = "none" /\ closing[s] = "no" /\ StreamOf(e) = s
  BY <1>1, PartOfStream DEF ClientInv, StreamInv, Untouched, Routing, TypeOK
<1>3. /\ ask'[first] = "unset" /\ \A e \in Sid : e # first => ask'[e] = ask[e]
      /\ \A e \in PartSet(s) : entry'[e] = "pending"
      /\ \A e \in Sid : e \notin PartSet(s) => entry'[e] = entry[e]
      /\ \A t \in Stream : t # s => phase'[t] = phase[t]
  BY <1>0 DEF ClientInv, TypeOK, Subscribe
<1> HIDE DEF first
<1>4. PartWire(first) /\ Unasked(first) /\ Away(first) /\ ~InFlight("unsubscribe", first)
  BY <1>0, <1>2 DEF WireInv, PartWire, Unasked
<1>5. RequestsOnce' /\ DeadLink'
  <2>1. RequestsOnce'
    BY <1>0, <1>1, <1>4, SendOnce DEF ClientInv, WireInv, Away
  <2>2. DeadLink'
    BY <1>0, <1>1, SendInFlight DEF ClientInv, WireInv, DeadLink
  <2> QED BY <2>1, <2>2
<1>6. \A o \in {"subscribe", "unsubscribe"}, d \in Sid :
        InFlight(o, d)' <=> InFlight(o, d) \/ (link = "up" /\ o = "subscribe" /\ d = first)
  BY <1>0, <1>1, SendInFlight DEF ClientInv
<1>7. \A kinds, d : Told(kinds, d)' => Told(kinds, d)
  BY <1>1, SameTold
<1>8. ASSUME NEW e \in PartSet(s) PROVE PartWire(e)'
  <2>1. /\ Unasked(e) /\ Away(e) /\ e \notin ackDue /\ emitted[e] = 0 /\ release[e] = "none"
        /\ ~InFlight("unsubscribe", e) /\ ~Told(AnyKind, e)
    BY <1>0, <1>2 DEF WireInv, PartWire, Unasked
  <2>2. ~Told(Last, e)
    BY <2>1 DEF Told, Last, AnyKind
  <2>3. Unasked(e)'
    BY <1>0, <1>1, <1>3, <1>6, <1>7, <2>1 DEF Unasked, Away
  <2>4. NotYet(e)'
    BY <1>1, <2>1 DEF NotYet, Away
  <2>5. Final(e)'
    BY <1>0, <1>1, <1>2, <1>3, <1>7, <2>1, <2>2 DEF Final
  <2>6. Accounted(e)' /\ Gathered(e)'
    BY <1>1, <1>2, <1>3 DEF Accounted, Gathered, Live
  <2> QED BY <2>3, <2>4, <2>5, <2>6 DEF PartWire
<1>9. ASSUME NEW e \in Sid, e \notin PartSet(s) PROVE PartWire(e)'
  <2>1. e # first /\ StreamOf(e) \in Stream /\ StreamOf(e) # s
    BY <1>0, <1>9, StreamOfPart
  <2>2. /\ InFlight("subscribe", e)' => InFlight("subscribe", e)
        /\ InFlight("unsubscribe", e)' <=> InFlight("unsubscribe", e)
    BY <1>6, <2>1
  <2>3. PartWire(e)
    BY DEF WireInv
  <2> QED BY <1>1, <1>3, <1>7, <1>9, <2>1, <2>2, <2>3, OtherPart
<1> QED BY <1>5, <1>8, <1>9 DEF WireInv

LEMMA AskTimesOutKeepsWire ==
  ASSUME ClientInv, WireInv, NEW s \in Stream, AskTimesOut(s)
  PROVE  WireInv'
<1>1. Quiet
  BY SameTold DEF AskTimesOut, Quiet
<1>2. UNCHANGED <<state, phase, closing, entry, release>>
  BY DEF AskTimesOut, streamVars
<1>3. \A e \in Sid : ask'[e] = ask[e] \/ ask'[e] = "timeout"
  BY DEF ClientInv, TypeOK, AskTimesOut
<1>4. ASSUME NEW e \in Sid PROVE PartWire(e)'
  <2>1. PartWire(e)
    BY DEF WireInv
  <2>2. ask'[e] = "none" => ask[e] = "none"
    BY <1>3
  <2>3. ask'[e] = "error" => ask[e] = "error"
    BY <1>3
  <2> QED BY <1>1, <1>2, <2>1, <2>2, <2>3, QuietOther
<1> QED BY <1>1, <1>4, QuietWire DEF WireInv

LEMMA HandKeepsWire ==
  ASSUME ClientInv, WireInv, NEW s \in Stream, Hand(s)
  PROVE  WireInv'
<1>0. /\ phase[s] = "asking" /\ Current(s) \in PartSet(s) /\ Current(s) \in Sid
      /\ PartSet(s) \subseteq Sid /\ ask[Current(s)] = "ok"
      /\ release' = Spawn(LetGo(s))
      /\ UNCHANGED <<state, ask, closing>>
  BY CurrentPart, PartOfStream DEF Hand
<1>1. Quiet
  BY SameTold DEF Hand, Quiet
<1>2. /\ \A e \in Sid : e \notin PartSet(s) => entry'[e] = entry[e]
      /\ \A e \in PartSet(s) :
           /\ entry'[e] \notin {"pending", "doomed"}
           /\ entry[e] = "pending" => e = Current(s) /\ entry'[e] = "active"
           /\ entry[e] = "doomed" => entry'[e] = "released" /\ (e = Current(s) \/ ask[e] = "none")
           /\ entry[e] \notin {"pending", "doomed"} => entry'[e] = entry[e]
  BY HandSettles
<1>3. \A t \in Stream : t # s => phase'[t] = phase[t]
  BY DEF ClientInv, TypeOK, Hand
<1>4. closing[s] = "no"
  BY <1>0 DEF ClientInv, StreamInv, Routing, TypeOK
<1>5. /\ \A e \in Sid : e # Current(s) => release'[e] = release[e]
      /\ release'[Current(s)] \in {"spawned", release[Current(s)]}
      /\ entry[Current(s)] = "doomed" /\ state = "open" => release'[Current(s)] = "spawned"
  BY <1>0, SpawnType DEF LetGo, ClientInv
<1>6. ASSUME NEW e \in PartSet(s) PROVE PartWire(e)'
  <2>0. PartWire(e) /\ StreamOf(e) = s /\ e \in Sid
    BY <1>0, PartOfStream DEF WireInv
  <2>1. ask'[e] = "none" => ask[e] = "none" /\ release'[e] = release[e]
    BY <1>0, <1>5, <2>0
  <2>2. ask'[e] = "error" \/ release'[e] = "acked" \/ entry'[e] = "terminated" => Away(e)
    BY <1>0, <1>2, <1>5, <2>0 DEF PartWire, Final
  <2>3. Accounted(e)'
    <3>1. /\ Away(e)' <=> Away(e)
          /\ InFlight("unsubscribe", e)' <=> InFlight("unsubscribe", e)
          /\ link' = link
      BY <1>1 DEF Quiet, Away, InFlight, bridgeVars
    <3>2. entry[e] = "doomed" /\ e # Current(s) => Away(e)
      BY <1>2, <2>0 DEF PartWire, Unasked
    <3>3. entry[e] = "active" => entry'[e] = "active"
      BY <1>2
    <3> QED BY <1>0, <1>2, <1>5, <2>0, <3>1, <3>2, <3>3 DEF PartWire, Accounted, Live
  <2>4. Gathered(e)'
    BY <1>0, <1>4, <2>0 DEF Gathered
  <2> QED BY <1>0, <1>1, <2>0, <2>1, <2>2, <2>3, <2>4, QuietPart
<1>7. ASSUME NEW e \in Sid, e \notin PartSet(s) PROVE PartWire(e)'
  <2>1. e # Current(s) /\ StreamOf(e) \in Stream /\ StreamOf(e) # s
    BY <1>0, <1>7, StreamOfPart
  <2>2. PartWire(e)
    BY DEF WireInv
  <2> QED BY <1>0, <1>1, <1>2, <1>3, <1>5, <1>7, <2>1, <2>2, QuietOther
<1> QED BY <1>1, <1>6, <1>7, QuietWire DEF WireInv

LEMMA AskNextKeepsWire ==
  ASSUME ClientInv, WireInv, NEW s \in Stream, AskNext(s)
  PROVE  WireInv'
<1>0. /\ phase[s] = "asking" /\ Current(s) \in PartSet(s) /\ Current(s) \in Sid
      /\ PartSet(s) \subseteq Sid /\ ask[Current(s)] = "ok" /\ StillPending(s) # {}
      /\ UNCHANGED <<state, link, closing, held, ackDue, emitted, toClient>>
  BY CurrentPart, PartOfStream DEF AskNext, bridgeVars
<1>1. closing[s] = "no"
  BY <1>0 DEF ClientInv, StreamInv, Routing, TypeOK
<1>2. \A kinds, d : Told(kinds, d)' => Told(kinds, d)
  BY <1>0, SameTold
<1>8. PICK e \in Sid : e = Parts[s][NextPart(s)]
  BY <1>0, NextPartIsFirst
<1>3. /\ e \in PartSet(s) /\ e \in Sid /\ ask[e] = "none" /\ LetGo(s) = {}
      /\ ended[s] = "no" /\ e # Current(s)
      /\ \A d \in PartSet(s) : entry[d] \in Live
  BY <1>0, <1>8, NextPartIsFirst
<1>4. /\ Acked(s) \in [Sid -> EntryState]
      /\ \A d \in Sid : d # Current(s) => Acked(s)[d] = entry[d]
      /\ Acked(s)[Current(s)] = "active"
  BY <1>0, <1>3, AckedType DEF Live
<1>5. /\ state = "open" => /\ cur' = [cur EXCEPT ![s] = NextPart(s)]
                          /\ entry' = Acked(s)
                          /\ release' = Spawn(LetGo(s))
                          /\ ask' = [ask EXCEPT ![e] = "unset"]
                          /\ Send("subscribe", e)
                          /\ phase' = phase
      /\ state # "open" => /\ Abort(s, e, Acked(s), FALSE)
                          /\ ask' = ask /\ toBridge' = toBridge
  BY <1>8 DEF AskNext, NextPart
<1>6. CASE state = "open"
  <2>1. \A d \in Sid : release'[d] = release[d]
    BY <1>3, <1>5, <1>6, SpawnType DEF ClientInv
  <2>2. ask'[e] = "unset" /\ \A d \in Sid : d # e => ask'[d] = ask[d]
    BY <1>3, <1>5, <1>6 DEF ClientInv, TypeOK
  <2>3. \A o \in {"subscribe", "unsubscribe"}, d \in Sid :
          InFlight(o, d)' <=> InFlight(o, d) \/ (link = "up" /\ o = "subscribe" /\ d = e)
    BY <1>3, <1>5, <1>6, SendInFlight DEF ClientInv
  <2>4. /\ Unasked(e) /\ Away(e) /\ e \notin ackDue /\ release[e] = "none"
        /\ ~InFlight("unsubscribe", e) /\ ~Told(AnyKind, e)
    BY <1>3 DEF WireInv, PartWire, Unasked
  <2>5. RequestsOnce'
    BY <1>3, <1>5, <1>6, <2>4, SendOnce DEF ClientInv, WireInv, Away
  <2>6. DeadLink'
    BY <1>0, <1>3, <1>5, <1>6, SendInFlight DEF ClientInv, WireInv, DeadLink
  <2>7. PartWire(e)'
    <3>1. ~Told(Last, e)
      BY <2>4 DEF Told, Last, AnyKind
    <3>2. Unasked(e)'
      BY <2>2 DEF Unasked
    <3>3. NotYet(e)'
      BY <1>0, <2>4 DEF NotYet, Away
    <3>4. Final(e)'
      BY <1>2, <1>3, <1>4, <1>5, <1>6, <2>1, <2>2, <2>4, <3>1 DEF Final, Live
    <3>5. Accounted(e)' /\ Gathered(e)'
      <4>1. entry'[e] \in Live
        BY <1>3, <1>4, <1>5, <1>6
      <4>2. StreamOf(e) = s
        BY <1>3, PartOfStream
      <4> QED BY <1>0, <1>1, <4>1, <4>2 DEF Accounted, Gathered
    <3> QED BY <3>2, <3>3, <3>4, <3>5 DEF PartWire
  <2>8. ASSUME NEW d \in Sid, d # e PROVE PartWire(d)'
    <3>0. PartWire(d)
      BY DEF WireInv
    <3>1. /\ InFlight("subscribe", d)' <=> InFlight("subscribe", d)
          /\ InFlight("unsubscribe", d)' <=> InFlight("unsubscribe", d)
          /\ ask'[d] = ask[d] /\ release'[d] = release[d]
      BY <2>1, <2>2, <2>3, <2>8
    <3>2. CASE d # Current(s)
      <4>1. entry'[d] = entry[d]
        BY <1>4, <1>5, <1>6, <3>2
      <4> QED BY <1>0, <1>2, <1>5, <1>6, <3>0, <3>1, <4>1, OtherPart
    <3>3. CASE d = Current(s)
      <4>1. entry'[d] = "active" /\ StreamOf(d) = s
        BY <1>0, <1>4, <1>5, <1>6, <3>3, PartOfStream
      <4>2. Away(d)' <=> Away(d)
        BY <1>0, <3>1 DEF Away
      <4>3. Unasked(d)' /\ NotYet(d)'
        BY <1>0, <3>1, <3>3, <3>0 DEF PartWire, Unasked, NotYet
      <4>4. Final(d)'
        BY <1>2, <3>0, <3>1, <4>1, <4>2 DEF PartWire, Final
      <4>5. Accounted(d)' /\ Gathered(d)'
        BY <1>0, <1>1, <4>1 DEF Accounted, Gathered, Live
      <4> QED BY <4>3, <4>4, <4>5 DEF PartWire
    <3> QED BY <3>2, <3>3
  <2> QED BY <2>5, <2>6, <2>7, <2>8 DEF WireInv
<1>7. CASE state # "open"
  <2>1. Quiet
    BY <1>0, <1>2, <1>5, <1>7 DEF Quiet, bridgeVars
  <2>2. /\ \A d \in Sid : entry'[d] = "terminated" => entry[d] = "terminated"
        /\ \A d \in Sid : release'[d] = release[d]
    <3>1. \A d \in Sid : entry'[d] = "terminated" => Acked(s)[d] = "terminated"
      BY <1>5, <1>7 DEF Abort
    <3>2. \A d \in Sid : release'[d] = release[d]
      BY <1>5, <1>7 DEF Abort, Spawn
    <3> QED BY <1>4, <3>1, <3>2
  <2>3. ASSUME NEW d \in Sid PROVE PartWire(d)'
    <3>0. PartWire(d)
      BY DEF WireInv
    <3>1. ask'[d] = "none" => ask[d] = "none" /\ release'[d] = release[d]
      BY <1>5, <1>7, <2>2
    <3>2. ask'[d] = "error" \/ release'[d] = "acked" \/ entry'[d] = "terminated" => Away(d)
      BY <1>5, <1>7, <2>2, <3>0 DEF PartWire, Final
    <3>3. Accounted(d)'
      BY <1>0, <1>7 DEF Accounted
    <3>4. Gathered(d)'
      BY <1>0, <1>7, <2>2, <3>0 DEF PartWire, Gathered
    <3> QED BY <1>0, <2>1, <3>0, <3>1, <3>2, <3>3, <3>4, QuietPart
  <2> QED BY <2>1, <2>3, QuietWire DEF WireInv
<1> QED BY <1>6, <1>7

LEMMA AskFailsKeepsWire ==
  ASSUME ClientInv, WireInv, NEW s \in Stream, AskFails(s)
  PROVE  WireInv'
<1>9. PICK c \in Sid : c = Current(s)
  BY CurrentPart DEF AskFails
<1> DEFINE unsure == s \in interrupted \/ ask[c] = "timeout"
<1>0. /\ phase[s] = "asking" /\ c \in PartSet(s) /\ c \in Sid
      /\ PartSet(s) \subseteq Sid /\ ask[c] # "none"
      /\ Abort(s, c, entry, unsure)
      /\ ~unsure => ask[c] \in {"error", "closed"}
      /\ UNCHANGED <<state, ask, closing>>
  BY <1>9, CurrentPart, PartOfStream DEF AskFails
<1> HIDE DEF unsure
<1>1. Quiet
  BY SameTold DEF AskFails, Quiet
<1>2. closing[s] = "no"
  BY <1>0 DEF ClientInv, StreamInv, Routing, TypeOK
<1>3. \A t \in Stream : t # s => phase'[t] = phase[t]
  BY <1>0 DEF ClientInv, TypeOK, Abort
<1>4. /\ \A d \in Sid :
            entry'[d] = IF d = c /\ unsure /\ entry[d] \in {"pending", "doomed"} THEN "zombie"
                        ELSE IF d \in PartSet(s) /\ entry[d] = "active" THEN "released"
                        ELSE IF d \in PartSet(s) /\ entry[d] \in {"pending", "doomed"} THEN "failed"
                        ELSE entry[d]
      /\ release' = Spawn({d \in {c} : unsure /\ entry[d] \in {"pending", "doomed"}}
                            \cup {d \in PartSet(s) : entry[d] = "active"})
  <2>1. TypeOK
    BY DEF ClientInv
  <2>2. entry \in [Sid -> EntryState]
    BY <2>1 DEF TypeOK
  <2>3. \A d \in Sid :
          entry'[d] = IF d = c /\ unsure /\ entry[d] \in {"pending", "doomed"} THEN "zombie"
                      ELSE IF d \in PartSet(s) /\ entry[d] = "active" THEN "released"
                      ELSE IF d \in PartSet(s) /\ entry[d] \in {"pending", "doomed"} THEN "failed"
                      ELSE entry[d]
    BY <1>0, <2>1, <2>2, AbortSettles, ZenonT(30)
  <2>4. release' = Spawn({d \in {c} : unsure /\ entry[d] \in {"pending", "doomed"}}
                           \cup {d \in PartSet(s) : entry[d] = "active"})
    BY <1>0 DEF Abort
  <2> QED BY <2>3, <2>4
<1>5. /\ \A d \in Sid : release'[d] \in {"spawned", release[d]}
      /\ \A d \in Sid : d \notin PartSet(s) => release'[d] = release[d]
      /\ \A d \in PartSet(s) : entry[d] = "active" /\ state = "open" => release'[d] = "spawned"
      /\ unsure /\ entry[c] \in {"pending", "doomed"} /\ state = "open" => release'[c] = "spawned"
      /\ \A d \in PartSet(s) : d # c /\ entry[d] # "active" => release'[d] = release[d]
  BY <1>0, <1>4, SpawnType DEF ClientInv
<1>6. ASSUME NEW e \in PartSet(s), e # c, entry[e] \in {"pending", "doomed"}
      PROVE  ask[e] = "none"
  <2>1. PICK i \in DOMAIN Parts[s] : Parts[s][i] = e
    BY DEF PartSet
  <2>2. ~ (i < cur[s]) /\ i # cur[s] /\ i \in Nat /\ cur[s] \in Nat
    BY <1>0, <1>6, <1>9, <2>1, CurrentPart, PartOfStream DEF ClientInv, StreamInv, InTurn, Current
  <2>3. i > cur[s]
    BY <2>2
  <2> QED BY <1>0, <2>1, <2>3 DEF ClientInv, StreamInv, InTurn
<1>7. ASSUME NEW e \in PartSet(s) PROVE PartWire(e)'
  <2>0. PartWire(e) /\ StreamOf(e) = s /\ e \in Sid
    BY <1>0, PartOfStream DEF WireInv
  <2>1. ask'[e] = "none" => ask[e] = "none" /\ release'[e] = release[e]
    <3>1. entry[e] = "active" => ask[e] # "none"
      BY DEF ClientInv, StreamInv, Routing
    <3> QED BY <1>0, <1>5, <3>1
  <2>2. ask'[e] = "error" \/ release'[e] = "acked" \/ entry'[e] = "terminated" => Away(e)
    BY <1>0, <1>4, <1>5, <2>0 DEF PartWire, Final
  <2>3. Accounted(e)'
    <3>1. /\ Away(e)' <=> Away(e)
          /\ InFlight("unsubscribe", e)' <=> InFlight("unsubscribe", e)
          /\ link' = link
      BY <1>1 DEF Quiet, Away, InFlight, bridgeVars
    <3>2. CASE e # c /\ entry[e] \in {"pending", "doomed"}
      <4>1. Away(e)
        BY <1>6, <2>0, <3>2 DEF PartWire, Unasked
      <4> QED BY <3>1, <4>1 DEF Accounted
    <3>3. CASE e = c /\ entry[e] \in {"pending", "doomed"} /\ ~unsure
      <4>1. ask[c] = "closed" => state = "closed"
        BY <1>0 DEF ClientInv, StreamInv, Closed
      <4>2. ask[c] = "error" => Away(e)
        BY <2>0, <3>3 DEF PartWire, Final
      <4> QED BY <1>0, <3>1, <3>3, <4>1, <4>2 DEF Accounted
    <3>4. CASE e = c /\ entry[e] \in {"pending", "doomed"} /\ unsure
      BY <1>0, <1>5, <3>4 DEF Accounted
    <3>5. CASE entry[e] = "active"
      BY <1>0, <1>5, <3>5 DEF Accounted
    <3>6. CASE entry[e] \notin {"pending", "doomed", "active"}
      BY <1>0, <1>5, <2>0, <3>1, <3>6 DEF PartWire, Accounted, Live
    <3> QED BY <3>2, <3>3, <3>4, <3>5, <3>6
  <2>4. Gathered(e)'
    BY <1>0, <1>2, <2>0 DEF Gathered
  <2> QED BY <1>0, <1>1, <2>0, <2>1, <2>2, <2>3, <2>4, QuietPart
<1>8. ASSUME NEW e \in Sid, e \notin PartSet(s) PROVE PartWire(e)'
  <2>1. e # c /\ StreamOf(e) \in Stream /\ StreamOf(e) # s
    BY <1>0, <1>8, StreamOfPart
  <2>2. PartWire(e) /\ entry'[e] = entry[e]
    BY <1>4, <1>8, <2>1 DEF WireInv
  <2> QED BY <1>0, <1>1, <1>3, <1>5, <1>8, <2>1, <2>2, QuietOther
<1> QED BY <1>1, <1>7, <1>8, QuietWire DEF WireInv

\* Steps of the client that leave every part, or every part's request, alone.
LEMMA SameParts ==
  ASSUME WireInv, Quiet, UNCHANGED <<phase, closing, entry, ask, release>>,
         state' = "open" => state = "open"
  PROVE  WireInv'
<1>1. ASSUME NEW e \in Sid PROVE PartWire(e)'
  <2>1. PartWire(e)
    BY DEF WireInv
  <2> QED BY <2>1, QuietOther
<1> QED BY <1>1, QuietWire DEF WireInv

LEMMA StepsAsideKeepWire ==
  ASSUME ClientInv, WireInv,
         \/ \E s \in Stream : CancelSubscribe(s) \/ Take(s)
         \/ AClose
         \/ UNCHANGED vars
  PROVE  WireInv'
<1>1. UNCHANGED <<link, bridgeVars, toBridge, toClient, phase, closing, entry, ask, release>>
      /\ (state' = "open" => state = "open")
  BY DEF CancelSubscribe, Take, AClose, vars, streamVars, entryVars, bridgeVars
<1>2. Quiet
  BY <1>1, SameTold DEF Quiet
<1> QED BY <1>1, <1>2, SameParts

\* A part whose stream ends: it is let go, or left to its subscribe().
LEMMA EndedPart ==
  ASSUME ClientInv, WireInv, NEW s \in Stream, NEW e \in PartSet(s), Quiet,
         UNCHANGED <<state, phase, ask, closing>>,
         entry'[e] = Detach(s)[e], release'[e] = Spawn(ActiveParts(s))[e]
  PROVE  PartWire(e)'
<1>0. /\ PartWire(e) /\ e \in Sid /\ StreamOf(e) = s /\ TypeOK /\ StreamInv(s)
  BY PartOfStream DEF WireInv, ClientInv
<1>1. entry[e] \in Live => closing[s] = "no"
  BY <1>0 DEF StreamInv, Routing, TypeOK
<1>2. /\ Away(e)' <=> Away(e)
      /\ InFlight("unsubscribe", e)' <=> InFlight("unsubscribe", e)
      /\ link' = link
  BY DEF Quiet, Away, InFlight, bridgeVars
<1>3. /\ entry[e] = "active" => entry'[e] = "released"
      /\ entry[e] = "pending" => entry'[e] = "doomed"
      /\ entry[e] \notin Live => entry'[e] = entry[e]
  BY <1>0 DEF Detach, Live
<1>4. /\ entry[e] = "active" /\ state = "open" => release'[e] = "spawned"
      /\ entry[e] = "active" => release'[e] = "spawned" \/ release'[e] = release[e]
      /\ entry[e] # "active" => release'[e] = release[e]
  BY <1>0, SpawnType DEF ActiveParts
<1>5. CASE entry[e] = "active"
  <2>1. ask[e] # "none"
    BY <1>0, <1>5 DEF StreamInv, Routing
  <2>2. ask'[e] = "error" \/ release'[e] = "acked" \/ entry'[e] = "terminated" => Away(e)
    BY <1>0, <1>3, <1>4, <1>5 DEF PartWire, Final
  <2>3. Accounted(e)'
    BY <1>4, <1>5 DEF Accounted
  <2>4. Gathered(e)'
    BY <1>0, <1>1, <1>5 DEF Gathered, Live
  <2> QED BY <1>0, <2>1, <2>2, <2>3, <2>4, QuietPart
<1>6. CASE entry[e] = "pending"
  <2>1. phase[s] = "asking"
    BY <1>0, <1>6 DEF StreamInv, Routing
  <2>2. ask'[e] = "error" \/ release'[e] = "acked" \/ entry'[e] = "terminated" => Away(e)
    BY <1>0, <1>3, <1>4, <1>6 DEF PartWire, Final
  <2>3. Accounted(e)'
    BY <1>0, <1>3, <1>6, <2>1 DEF Accounted
  <2>4. Gathered(e)'
    BY <1>0, <1>1, <1>6 DEF Gathered, Live
  <2>5. ask'[e] = "none" => ask[e] = "none" /\ release'[e] = release[e]
    BY <1>4, <1>6
  <2> QED BY <1>0, <2>2, <2>3, <2>4, <2>5, QuietPart
<1>7. CASE entry[e] \notin Live
  <2>1. entry'[e] = entry[e] /\ release'[e] = release[e]
    BY <1>3, <1>4, <1>7 DEF Live
  <2> QED BY <1>0, <2>1, QuietOther
<1> QED BY <1>5, <1>6, <1>7 DEF Live

\* The others, and the parts of other streams.
LEMMA EndedStream ==
  ASSUME ClientInv, WireInv, NEW s \in Stream, Quiet,
         UNCHANGED <<state, phase, ask, closing>>,
         entry' = Detach(s), release' = Spawn(ActiveParts(s))
  PROVE  WireInv'
<1>1. ASSUME NEW e \in Sid PROVE PartWire(e)'
  <2>0. PartWire(e) /\ TypeOK
    BY DEF WireInv, ClientInv
  <2>1. CASE e \in PartSet(s)
    BY <2>1, EndedPart
  <2>2. CASE e \notin PartSet(s)
    <3>1. entry'[e] = entry[e]
      BY <2>0, <2>2, DetachType
    <3>2. release'[e] = release[e]
      BY <2>0, <2>2, SpawnType DEF ActiveParts
    <3> QED BY <2>0, <3>1, <3>2, QuietOther
  <2> QED BY <2>1, <2>2
<1> QED BY <1>1, QuietWire DEF WireInv

LEMMA CancelStreamKeepsWire ==
  ASSUME ClientInv, WireInv, NEW s \in Stream, CancelStream(s)
  PROVE  WireInv'
<1>1. Quiet
  BY SameTold DEF CancelStream, Quiet
<1> QED BY <1>1, EndedStream DEF CancelStream

LEMMA UnsubscribeKeepsWire ==
  ASSUME ClientInv, WireInv, NEW s \in Stream, Unsubscribe(s)
  PROVE  WireInv'
<1>1. Quiet /\ UNCHANGED <<state, phase, ask>> /\ TypeOK
  BY SameTold DEF Unsubscribe, Quiet, ClientInv
<1>2. /\ closing'[s] = "waiting"
      /\ \A t \in Stream : t # s => closing'[t] = closing[t]
  BY <1>1 DEF Unsubscribe, TypeOK
<1>3. ASSUME NEW e \in PartSet(s) PROVE PartWire(e)'
  <2>0. PartWire(e) /\ e \in Sid /\ StreamOf(e) = s
    BY PartOfStream DEF WireInv
  <2>1. entry[e] = "active" /\ ask[e] # "none"
    BY DEF ClientInv, StreamInv, Routing, Live, Started, Unsubscribe
  <2>2. e \in ActiveParts(s)
    BY <2>1 DEF ActiveParts
  <2>3. release'[e] = "gathered"
    BY <2>0, <2>2 DEF Unsubscribe
  <2>4. entry'[e] = "released"
    BY <2>0, <2>1 DEF Unsubscribe, Detach
  <2>5. Accounted(e)' /\ Gathered(e)'
    BY <1>2, <2>0, <2>3 DEF Accounted, Gathered
  <2>6. ask'[e] = "error" \/ release'[e] = "acked" \/ entry'[e] = "terminated" => Away(e)
    BY <1>1, <2>0, <2>3, <2>4 DEF PartWire, Final
  <2> QED BY <1>1, <2>0, <2>1, <2>5, <2>6, QuietPart
<1>4. ASSUME NEW e \in Sid, e \notin PartSet(s) PROVE PartWire(e)'
  <2>1. PartWire(e) /\ StreamOf(e) \in Stream /\ StreamOf(e) # s
    BY <1>4, StreamOfPart DEF WireInv
  <2>2. entry'[e] = entry[e]
    BY <1>1, <1>4, DetachType DEF Unsubscribe
  <2>3. release'[e] = release[e]
    BY <1>4 DEF Unsubscribe, ActiveParts
  <2> QED BY <1>1, <1>2, <2>1, <2>2, <2>3, QuietOther
<1> QED BY <1>1, <1>3, <1>4, QuietWire DEF WireInv

LEMMA UnsubscribeReturnsKeepsWire ==
  ASSUME ClientInv, WireInv, NEW s \in Stream, UnsubscribeReturns(s)
  PROVE  WireInv'
<1>1. Quiet /\ UNCHANGED <<state, phase, ask, entry, release>> /\ TypeOK
  BY SameTold DEF UnsubscribeReturns, Quiet, ClientInv, entryVars
<1>2. \A t \in Stream : t # s => closing'[t] = closing[t]
  BY <1>1 DEF UnsubscribeReturns, TypeOK
<1>3. ASSUME NEW e \in PartSet(s) PROVE PartWire(e)'
  <2>0. PartWire(e) /\ e \in Sid /\ StreamOf(e) = s
    BY PartOfStream DEF WireInv
  <2>1. /\ release[e] \notin {"gathered", "sent", "acked", "settled"}
        /\ closing'[s] = "returned" => release[e] # "lapsed"
        /\ closing[s] = "waiting"
    BY <1>1 DEF UnsubscribeReturns, TypeOK
  <2>2. Away(e)' <=> Away(e)
    BY <1>1 DEF Quiet, Away, InFlight, bridgeVars
  <2>3. Gathered(e)'
    BY <1>1, <2>0, <2>1, <2>2 DEF PartWire, Gathered
  <2>4. Accounted(e)'
    BY <1>1, <2>0, <2>2 DEF PartWire, Accounted, Quiet, InFlight
  <2>5. ask'[e] = "error" \/ release'[e] = "acked" \/ entry'[e] = "terminated" => Away(e)
    BY <1>1, <2>0 DEF PartWire, Final
  <2> QED BY <1>1, <2>0, <2>3, <2>4, <2>5, QuietPart
<1>4. ASSUME NEW e \in Sid, e \notin PartSet(s) PROVE PartWire(e)'
  <2>1. PartWire(e) /\ StreamOf(e) \in Stream /\ StreamOf(e) # s
    BY <1>4, StreamOfPart DEF WireInv
  <2> QED BY <1>1, <1>2, <2>1, QuietOther
<1> QED BY <1>1, <1>3, <1>4, QuietWire DEF WireInv

LEMMA CancelUnsubscribeKeepsWire ==
  ASSUME ClientInv, WireInv, NEW s \in Stream, CancelUnsubscribe(s)
  PROVE  WireInv'
<1>1. Quiet /\ UNCHANGED <<state, phase, ask, entry>> /\ TypeOK
  BY SameTold DEF CancelUnsubscribe, Quiet, ClientInv
<1>2. closing'[s] = "raised" /\ \A t \in Stream : t # s => closing'[t] = closing[t]
  BY <1>1 DEF CancelUnsubscribe, TypeOK
<1>3. ASSUME NEW e \in PartSet(s) PROVE PartWire(e)'
  <2>0. PartWire(e) /\ e \in Sid /\ StreamOf(e) = s
    BY PartOfStream DEF WireInv
  <2>1. /\ release[e] = "gathered" => release'[e] = "dropped"
        /\ release[e] \in {"sent", "acked", "settled"} => release'[e] = "over"
        /\ release[e] \notin {"gathered", "sent", "acked", "settled"} => release'[e] = release[e]
    BY <2>0 DEF CancelUnsubscribe
  <2>2. Away(e)' <=> Away(e)
    BY <1>1 DEF Quiet, Away, InFlight, bridgeVars
  <2>3. Gathered(e)'
    BY <1>2, <2>0 DEF Gathered
  <2>4. Accounted(e)'
    BY <1>1, <2>0, <2>1, <2>2 DEF PartWire, Accounted, Quiet, InFlight
  <2>5. ask'[e] = "error" \/ release'[e] = "acked" \/ entry'[e] = "terminated" => Away(e)
    BY <1>1, <2>0, <2>1 DEF PartWire, Final
  <2>6. ask'[e] = "none" => ask[e] = "none" /\ release'[e] = release[e]
    BY <1>1, <2>0, <2>1 DEF PartWire, Unasked
  <2> QED BY <1>1, <2>0, <2>3, <2>4, <2>5, <2>6, QuietPart
<1>4. ASSUME NEW e \in Sid, e \notin PartSet(s) PROVE PartWire(e)'
  <2>1. PartWire(e) /\ StreamOf(e) \in Stream /\ StreamOf(e) # s
    BY <1>4, StreamOfPart DEF WireInv
  <2>2. release'[e] = release[e]
    BY <1>4 DEF CancelUnsubscribe
  <2> QED BY <1>1, <1>2, <2>1, <2>2, QuietOther
<1> QED BY <1>1, <1>3, <1>4, QuietWire DEF WireInv

-------------------------------------------------------------------------------
(* Requests to release a part *)

LEMMA ReleaseStartsKeepsWire ==
  ASSUME ClientInv, WireInv, NEW e \in Sid, ReleaseStarts(e)
  PROVE  WireInv'
<1>0. /\ TypeOK /\ PartWire(e)
      /\ release[e] \in {"spawned", "gathered"}
      /\ UNCHANGED <<state, link, phase, closing, entry, ask, held, ackDue, emitted, toClient>>
  BY DEF ReleaseStarts, ClientInv, WireInv, streamVars, bridgeVars
<1>1. ask[e] # "none" /\ closing[StreamOf(e)] # "returned"
  BY <1>0 DEF PartWire, Unasked, Gathered
<1>2. \A kinds, d : Told(kinds, d)' => Told(kinds, d)
  BY <1>0, SameTold
<1>3. CASE state = "open"
  <2>1. release' = [release EXCEPT ![e] = "sent"] /\ Send("unsubscribe", e)
    BY <1>3 DEF ReleaseStarts
  <2>2. release'[e] = "sent" /\ \A d \in Sid : d # e => release'[d] = release[d]
    BY <1>0, <2>1 DEF TypeOK
  <2>3. /\ link # "up" => toBridge' = toBridge
        /\ \A o \in {"subscribe", "unsubscribe"}, d \in Sid :
             InFlight(o, d)' <=> InFlight(o, d) \/ (link = "up" /\ o = "unsubscribe" /\ d = e)
    BY <1>0, <2>1, SendInFlight
  <2>4. RequestsOnce'
    BY <1>0, <2>1, SendOnce DEF WireInv
  <2>5. DeadLink'
    BY <1>0, <2>3 DEF WireInv, DeadLink
  <2>6. PartWire(e)'
    <3>1. Away(e)' <=> Away(e)
      BY <1>0, <2>3 DEF Away
    <3>2. Unasked(e)' /\ NotYet(e)'
      BY <1>0, <1>1, <2>3 DEF PartWire, Unasked, NotYet
    <3>3. Final(e)'
      BY <1>0, <1>2, <2>2, <3>1 DEF PartWire, Final
    <3>4. Accounted(e)'
      BY <1>0, <2>3 DEF Accounted
    <3>5. Gathered(e)'
      BY <1>0, <1>1, <2>2 DEF Gathered
    <3> QED BY <3>2, <3>3, <3>4, <3>5 DEF PartWire
  <2>7. ASSUME NEW d \in Sid, d # e PROVE PartWire(d)'
    <3>1. PartWire(d) /\ release'[d] = release[d]
      BY <2>2, <2>7 DEF WireInv
    <3>2. /\ InFlight("subscribe", d)' => InFlight("subscribe", d)
          /\ InFlight("unsubscribe", d)' <=> InFlight("unsubscribe", d)
      BY <2>3, <2>7
    <3> QED BY <1>0, <1>2, <3>1, <3>2, OtherPart
  <2> QED BY <2>4, <2>5, <2>6, <2>7 DEF WireInv
<1>4. CASE state # "open"
  <2>1. release' = [release EXCEPT ![e] = "over"] /\ toBridge' = toBridge
    BY <1>4 DEF ReleaseStarts, ReleaseOver
  <2>2. release'[e] = "over" /\ \A d \in Sid : d # e => release'[d] = release[d]
    BY <1>0, <2>1 DEF TypeOK
  <2>3. Quiet
    BY <1>0, <1>2, <2>1 DEF Quiet, bridgeVars
  <2>4. PartWire(e)'
    <3>1. Accounted(e)' /\ Gathered(e)'
      BY <1>0, <1>4, <2>2 DEF Accounted, Gathered
    <3>2. ask'[e] = "error" \/ release'[e] = "acked" \/ entry'[e] = "terminated" => Away(e)
      BY <1>0, <2>2 DEF PartWire, Final
    <3> QED BY <1>0, <1>1, <2>3, <3>1, <3>2, QuietPart
  <2>5. ASSUME NEW d \in Sid, d # e PROVE PartWire(d)'
    <3>1. PartWire(d) /\ release'[d] = release[d]
      BY <2>2, <2>5 DEF WireInv
    <3> QED BY <1>0, <2>3, <3>1, QuietOther
  <2> QED BY <2>3, <2>4, <2>5, QuietWire DEF WireInv
<1> QED BY <1>3, <1>4

LEMMA ReleaseReturnsKeepsWire ==
  ASSUME ClientInv, WireInv, NEW e \in Sid, ReleaseReturns(e)
  PROVE  WireInv'
<1>0. /\ TypeOK /\ PartWire(e)
      /\ release[e] \in {"acked", "settled", "sent"}
      /\ UNCHANGED <<state, link, phase, closing, entry, ask, held, ackDue, emitted, toBridge,
                     toClient>>
  BY DEF ReleaseReturns, ClientInv, WireInv, streamVars, bridgeVars
<1>1. ask[e] # "none" /\ closing[StreamOf(e)] # "returned"
  BY <1>0 DEF PartWire, Unasked, Gathered
<1>2. Quiet
  BY <1>0, SameTold DEF Quiet, bridgeVars
<1>3. /\ release[e] = "sent" => release'[e] = "lapsed"
      /\ release[e] # "sent" => release'[e] = "over"
      /\ \A d \in Sid : d # e => release'[d] = release[d]
  BY <1>0 DEF ReleaseReturns, ReleaseOver, TypeOK
<1>4. PartWire(e)'
  <2>1. release[e] = "settled" => state # "open"
    <3>1. StreamOf(e) \in Stream /\ e \in PartSet(StreamOf(e))
      BY StreamOfPart
    <3> QED BY <3>1 DEF ClientInv, StreamInv, Closed
  <2>2. release[e] = "acked" => Away(e)
    BY <1>0 DEF PartWire, Final
  <2>3. Away(e)' <=> Away(e)
    BY <1>0 DEF Away, InFlight
  <2>4. Accounted(e)'
    BY <1>0, <1>3, <2>3 DEF PartWire, Accounted, InFlight
  <2>5. Gathered(e)'
    BY <1>0, <1>1, <1>3, <2>1, <2>2, <2>3 DEF Gathered
  <2>6. ask'[e] = "error" \/ release'[e] = "acked" \/ entry'[e] = "terminated" => Away(e)
    BY <1>0, <1>3 DEF PartWire, Final
  <2> QED BY <1>0, <1>1, <1>2, <2>4, <2>5, <2>6, QuietPart
<1>5. ASSUME NEW d \in Sid, d # e PROVE PartWire(d)'
  <2>1. PartWire(d) /\ release'[d] = release[d]
    BY <1>3, <1>5 DEF WireInv
  <2> QED BY <1>0, <1>2, <2>1, QuietOther
<1> QED BY <1>2, <1>4, <1>5, QuietWire DEF WireInv

-------------------------------------------------------------------------------
(* The reader *)

LEMMA ReadsQuietly ==
  ASSUME ClientInv, Receive
  PROVE  /\ Quiet /\ TypeOK
         /\ UNCHANGED <<state, phase, closing>>
         /\ \E e \in Sid : /\ e = Head(toClient).sid
                           /\ Head(toClient).kind \in Last => Told(Last, e)
<1>1. TypeOK
  BY DEF ClientInv
<1>2. /\ toClient # <<>> /\ toClient' = Tail(toClient) /\ Head(toClient).sid \in Sid
      /\ UNCHANGED <<state, link, phase, closing, held, ackDue, toBridge, emitted>>
  BY <1>1, ReadsFrame DEF Receive, bridgeVars
<1>3. \A kinds, d : Told(kinds, d)' => Told(kinds, d)
  BY <1>1, <1>2, TellsLess
<1>4. 1 \in DOMAIN toClient /\ toClient[1] = Head(toClient)
  BY <1>1, <1>2, WireType, TailIndex
<1>5. Head(toClient).kind \in Last => Told(Last, Head(toClient).sid)
  BY <1>4 DEF Told
<1> QED BY <1>1, <1>2, <1>3, <1>5 DEF Quiet, bridgeVars

LEMMA AnswerKeepsWire ==
  ASSUME ClientInv, WireInv, Receive, RouteAnswer(Head(toClient))
  PROVE  WireInv'
<1>1. /\ Quiet /\ TypeOK /\ UNCHANGED <<state, phase, closing, entry>>
  BY ReadsQuietly DEF RouteAnswer
<1>2. PICK e \in Sid : e = Head(toClient).sid /\ (Head(toClient).kind \in Last => Told(Last, e))
  BY ReadsQuietly
<1>3. PICK kind \in AnyKind : kind = Head(toClient).kind
  BY <1>1, ReadsFrame DEF FrameSet
<1>4. /\ ask' = [ask EXCEPT ![e] =
                   IF @ # "unset" THEN @
                   ELSE CASE kind = "ack" -> "ok" [] kind = "error" -> "error" [] OTHER -> @]
      /\ release' = [release EXCEPT ![e] = IF kind = "unsubscribed" /\ @ = "sent" THEN "acked" ELSE @]
  BY <1>2, <1>3 DEF RouteAnswer
<1>5. /\ \A d \in Sid : d # e => ask'[d] = ask[d] /\ release'[d] = release[d]
      /\ release'[e] = IF kind = "unsubscribed" /\ release[e] = "sent" THEN "acked" ELSE release[e]
      /\ ask'[e] = IF ask[e] # "unset" THEN ask[e]
                   ELSE CASE kind = "ack" -> "ok" [] kind = "error" -> "error" [] OTHER -> ask[e]
  BY <1>1, <1>4 DEF TypeOK
<1>6. PartWire(e)'
  <2>0. PartWire(e)
    BY DEF WireInv
  <2>1. kind \in Last => Away(e)
    BY <1>2, <1>3, <2>0 DEF PartWire, Final
  <2>2. /\ ask'[e] = "error" => ask[e] = "error" \/ kind \in Last
        /\ ask'[e] = "none" => ask[e] = "none"
    <3>1. CASE ask[e] # "unset"
      BY <1>5, <3>1
    <3>2. CASE ask[e] = "unset" /\ kind = "ack"
      BY <1>5, <3>2
    <3>3. CASE ask[e] = "unset" /\ kind = "error"
      BY <1>5, <3>3 DEF Last
    <3>4. CASE ask[e] = "unset" /\ kind \notin {"ack", "error"}
      BY <1>5, <3>4
    <3> QED BY <3>1, <3>2, <3>3, <3>4
  <2>3. /\ release'[e] = "acked" => release[e] = "acked" \/ kind \in Last
        /\ release'[e] # release[e] => release[e] = "sent" /\ release'[e] = "acked"
    BY <1>5 DEF Last
  <2>4. ask'[e] = "none" => release'[e] = release[e]
    BY <2>0, <2>2, <2>3 DEF PartWire, Unasked
  <2>5. ask'[e] = "error" \/ release'[e] = "acked" \/ entry'[e] = "terminated" => Away(e)
    BY <1>1, <2>0, <2>1, <2>2, <2>3 DEF PartWire, Final
  <2>6. /\ Away(e)' <=> Away(e)
        /\ InFlight("unsubscribe", e)' <=> InFlight("unsubscribe", e)
        /\ link' = link
    BY <1>1 DEF Quiet, Away, InFlight, bridgeVars
  <2>7. Accounted(e)'
    BY <1>1, <2>0, <2>3, <2>6 DEF PartWire, Accounted
  <2>8. Gathered(e)'
    BY <1>1, <2>0, <2>3, <2>6 DEF PartWire, Gathered
  <2> QED BY <1>1, <2>0, <2>2, <2>4, <2>5, <2>7, <2>8, QuietPart
<1>7. ASSUME NEW d \in Sid, d # e PROVE PartWire(d)'
  <2>1. PartWire(d) /\ ask'[d] = ask[d] /\ release'[d] = release[d] /\ entry'[d] = entry[d]
    BY <1>1, <1>5, <1>7 DEF WireInv
  <2> QED BY <1>1, <2>1, QuietOther
<1> QED BY <1>1, <1>6, <1>7, QuietWire DEF WireInv

LEMMA EventKeepsWire ==
  ASSUME ClientInv, WireInv, Receive, RouteEvent(Head(toClient))
  PROVE  WireInv'
<1>1. /\ Quiet /\ UNCHANGED <<state, phase, closing, ask>>
  BY ReadsQuietly DEF RouteEvent
<1>2. PICK s \in Stream : s = StreamOf(Head(toClient).sid)
  BY ReadsFrame DEF ClientInv
<1>3. \/ UNCHANGED <<entry, release>>
      \/ entry' = Detach(s) /\ release' = Spawn(ActiveParts(s))
  BY <1>2 DEF RouteEvent
<1>4. CASE UNCHANGED <<entry, release>>
  BY <1>1, <1>4, SameParts
<1>5. CASE entry' = Detach(s) /\ release' = Spawn(ActiveParts(s))
  BY <1>1, <1>5, EndedStream
<1> QED BY <1>3, <1>4, <1>5

\* The part the bridge has dropped.
LEMMA TerminatedPart ==
  ASSUME WireInv, NEW e \in Sid, Told(Last, e), Quiet,
         UNCHANGED <<state, closing, ask>>, release'[e] = release[e]
  PROVE  PartWire(e)'
<1>1. PartWire(e)
  BY DEF WireInv
<1>2. Away(e) /\ Away(e)'
  BY <1>1 DEF PartWire, Final, Quiet, Away, InFlight, bridgeVars
<1>3. Accounted(e)' /\ Gathered(e)'
  BY <1>1, <1>2 DEF PartWire, Accounted, Gathered
<1> QED BY <1>1, <1>2, <1>3, QuietPart

LEMMA TerminationKeepsWire ==
  ASSUME ClientInv, WireInv, Receive, Head(toClient).kind = "terminated",
         RouteTermination(Head(toClient))
  PROVE  WireInv'
<1>1. /\ Quiet /\ TypeOK /\ UNCHANGED <<state, phase, closing, ask>>
  BY ReadsQuietly DEF RouteTermination
<1>2. PICK e \in Sid : e = Head(toClient).sid /\ Told(Last, e)
  BY ReadsQuietly DEF Last
<1>3. PICK s \in Stream : s = StreamOf(e)
  BY StreamOfPart
<1>4. \/ UNCHANGED <<entry, release>>
      \/ entry' = [entry EXCEPT ![e] = "terminated"] /\ release' = release
      \/ /\ entry' = [Detach(s) EXCEPT ![e] = "terminated"]
         /\ release' = Spawn(ActiveParts(s) \ {e})
  BY <1>2, <1>3 DEF RouteTermination
<1>5. release'[e] = release[e]
  BY <1>1, <1>4, SpawnType
<1>6. PartWire(e)'
  BY <1>1, <1>2, <1>5, TerminatedPart
<1>7. ASSUME NEW d \in Sid, d # e PROVE PartWire(d)'
  <2>0. PartWire(d)
    BY DEF WireInv
  <2>1. CASE entry' = [entry EXCEPT ![e] = "terminated"] /\ release' = release
    <3>1. entry'[d] = entry[d]
      BY <1>1, <1>7, <2>1 DEF TypeOK
    <3> QED BY <1>1, <2>0, <2>1, <3>1, QuietOther
  <2>2. CASE /\ entry' = [Detach(s) EXCEPT ![e] = "terminated"]
             /\ release' = Spawn(ActiveParts(s) \ {e})
    <3>1. entry'[d] = Detach(s)[d]
      BY <1>1, <1>7, <2>2, DetachType
    <3>2. release'[d] = Spawn(ActiveParts(s))[d]
      BY <1>7, <2>2 DEF Spawn
    <3>3. CASE d \in PartSet(s)
      BY <1>1, <3>1, <3>2, <3>3, EndedPart
    <3>4. CASE d \notin PartSet(s)
      <4>1. entry'[d] = entry[d]
        BY <1>1, <3>1, <3>4, DetachType
      <4>2. release'[d] = release[d]
        BY <1>1, <3>2, <3>4, SpawnType DEF ActiveParts
      <4> QED BY <1>1, <2>0, <4>1, <4>2, QuietOther
    <3> QED BY <3>3, <3>4
  <2>3. CASE UNCHANGED <<entry, release>>
    BY <1>1, <2>0, <2>3, QuietOther
  <2> QED BY <1>4, <2>1, <2>2, <2>3
<1> QED BY <1>1, <1>6, <1>7, QuietWire DEF WireInv

LEMMA ReaderEndsKeepsWire ==
  ASSUME ClientInv, WireInv, ReaderEnds
  PROVE  WireInv'
<1>1. /\ state' = "closed" /\ UNCHANGED <<phase, closing>>
      /\ Quiet
  BY SameTold DEF ReaderEnds, Quiet
<1>2. ASSUME NEW e \in Sid PROVE PartWire(e)'
  <2>0. PartWire(e)
    BY DEF WireInv
  <2>1. /\ ask'[e] = "none" => ask[e] = "none"
        /\ ask'[e] = "error" => ask[e] = "error"
    BY DEF ReaderEnds
  <2>2. /\ release[e] = "sent" => release'[e] = "settled"
        /\ release[e] # "sent" => release'[e] = release[e]
    BY DEF ReaderEnds
  <2>3. entry'[e] = "terminated" => entry[e] = "terminated"
    BY DEF ReaderEnds
  <2>4. ask'[e] = "none" => release'[e] = release[e]
    BY <2>0, <2>1, <2>2 DEF PartWire, Unasked
  <2>5. ask'[e] = "error" \/ release'[e] = "acked" \/ entry'[e] = "terminated" => Away(e)
    BY <2>0, <2>1, <2>2, <2>3 DEF PartWire, Final
  <2>6. Accounted(e)'
    BY <1>1 DEF Accounted
  <2>7. Gathered(e)'
    BY <1>1, <2>0, <2>2 DEF PartWire, Gathered
  <2> QED BY <1>1, <2>0, <2>1, <2>4, <2>5, <2>6, <2>7, QuietPart
<1> QED BY <1>1, <1>2, QuietWire DEF WireInv

-------------------------------------------------------------------------------
(* The bridge *)

\* A part the bridge no longer has is in order whatever is told of it.
LEMMA GonePart ==
  ASSUME NEW e \in Sid, PartWire(e), ask[e] # "none", Away(e)',
         UNCHANGED <<state, closing, ask, release>>
  PROVE  PartWire(e)'
<1>1. Unasked(e)' /\ NotYet(e)' /\ Final(e)'
  BY DEF Unasked, NotYet, Final, Away
<1>2. Accounted(e)' /\ Gathered(e)'
  BY DEF PartWire, Accounted, Gathered
<1> QED BY <1>1, <1>2 DEF PartWire

LEMMA BridgeReadsKeepsWire ==
  ASSUME ClientInv, WireInv, BridgeReads
  PROVE  WireInv'
<1>0. /\ TypeOK /\ RequestsOnce /\ DeadLink
      /\ toBridge # <<>> /\ toBridge' = Tail(toBridge)
      /\ UNCHANGED <<state, link, phase, closing, entry, ask, release, emitted>>
  BY DEF BridgeReads, ClientInv, WireInv, streamVars, entryVars
<1>1. /\ RequestsOnce' /\ Head(toBridge) \in RequestSet
      /\ InFlight(Head(toBridge).op, Head(toBridge).sid)
      /\ \A o \in {"subscribe", "unsubscribe"}, d \in Sid :
               /\ InFlight(o, d)' => InFlight(o, d)
               /\ InFlight(o, d) => InFlight(o, d)' \/ Head(toBridge) = [op |-> o, sid |-> d]
      /\ \A d \in Sid : d = Head(toBridge).sid => ~InFlight("subscribe", d)'
  BY <1>0, ReadRequest
<1>2. PICK op \in {"subscribe", "unsubscribe"}, e \in Sid : Head(toBridge) = [op |-> op, sid |-> e]
  BY <1>1 DEF RequestSet
<1>3. /\ InFlight(op, e) /\ ~InFlight("subscribe", e)'
      /\ \A o \in {"subscribe", "unsubscribe"}, d \in Sid :
           /\ InFlight(o, d)' => InFlight(o, d)
           /\ InFlight(o, d) => InFlight(o, d)' \/ (o = op /\ d = e)
  BY <1>1, <1>2
<1>4. DeadLink'
  BY <1>0 DEF DeadLink
<1>5. PartWire(e) /\ ask[e] # "none"
  BY <1>3 DEF WireInv, PartWire, Unasked, Away
<1>6. \/ /\ op = "subscribe" /\ held' = held \cup {e} /\ ackDue' = ackDue \cup {e}
         /\ toClient' = toClient
      \/ /\ op = "subscribe" /\ toClient' = Append(toClient, Frame("error", e))
         /\ UNCHANGED <<held, ackDue>>
      \/ /\ op = "unsubscribe" /\ held' = held \ {e} /\ ackDue' = ackDue
         /\ toClient' = Append(toClient, Frame("unsubscribed", e))
  BY <1>2 DEF BridgeReads
<1>7. PartWire(e)'
  <2>1. CASE /\ op = "subscribe" /\ held' = held \cup {e} /\ toClient' = toClient
    <3>1. ~Away(e)
      BY <1>3, <2>1 DEF Away
    <3>2. \A kinds : Told(kinds, e)' => Told(kinds, e)
      BY <2>1, SameTold
    <3>3. Unasked(e)' /\ NotYet(e)'
      BY <1>0, <1>3, <1>5 DEF Unasked, NotYet
    <3>4. Final(e)'
      BY <1>0, <1>5, <3>1, <3>2 DEF PartWire, Final
    <3>5. InFlight("unsubscribe", e) => InFlight("unsubscribe", e)'
      BY <1>3, <2>1
    <3>6. Accounted(e)'
      BY <1>0, <1>5, <3>1, <3>5 DEF PartWire, Accounted
    <3>7. Gathered(e)'
      BY <1>0, <1>5, <3>1 DEF PartWire, Gathered
    <3> QED BY <3>3, <3>4, <3>6, <3>7 DEF PartWire
  <2>2. CASE op = "subscribe" /\ held' = held
    <3>1. e \notin held
      BY <1>3, <1>5, <2>2 DEF PartWire, NotYet
    <3>2. Away(e)'
      BY <1>3, <2>2, <3>1 DEF Away
    <3> QED BY <1>0, <1>5, <3>2, GonePart
  <2>3. CASE held' = held \ {e}
    <3>1. Away(e)'
      BY <1>3, <2>3 DEF Away
    <3> QED BY <1>0, <1>5, <3>1, GonePart
  <2> QED BY <1>6, <2>1, <2>2, <2>3
<1>8. ASSUME NEW d \in Sid, d # e PROVE PartWire(d)'
  <2>1. PartWire(d)
    BY DEF WireInv
  <2>2. /\ InFlight("subscribe", d)' => InFlight("subscribe", d)
        /\ InFlight("unsubscribe", d)' <=> InFlight("unsubscribe", d)
    BY <1>3, <1>8
  <2>3. (d \in held' => d \in held) /\ (d \in ackDue' => d \in ackDue)
    BY <1>6, <1>8
  <2>4. \A kinds : Told(kinds, d)' => Told(kinds, d)
    <3>1. CASE toClient' = toClient
      BY <3>1, SameTold
    <3>2. ASSUME NEW kind, toClient' = Append(toClient, Frame(kind, e))
          PROVE  \A kinds : Told(kinds, d)' => Told(kinds, d)
      BY <1>0, <1>8, <3>2, TellsMore DEF Frame
    <3> QED BY <1>6, <3>1, <3>2
  <2> QED BY <1>0, <2>1, <2>2, <2>3, <2>4, OtherPart
<1> QED BY <1>1, <1>4, <1>7, <1>8 DEF WireInv

\* What the bridge says of one part leaves the others alone.
LEMMA BridgeTells ==
  ASSUME TypeOK, WireInv, NEW e \in Sid, NEW f, f.sid = e, toClient' = Append(toClient, f),
         UNCHANGED <<state, link, phase, closing, entry, ask, release, toBridge>>,
         e \in held \/ e \in ackDue,
         held' \subseteq held, ackDue' \subseteq ackDue,
         \A d \in Sid : d # e => emitted'[d] = emitted[d],
         f.kind \in Last \/ held' # held => e \notin held'
  PROVE  WireInv'
<1>1. RequestsOnce'
  BY DEF WireInv, RequestsOnce
<1>2. DeadLink'
  BY DEF WireInv, DeadLink
<1>3. \A o, d : InFlight(o, d)' <=> InFlight(o, d)
  BY DEF InFlight
<1>4. PartWire(e) /\ ask[e] # "none" /\ ~InFlight("subscribe", e)
  BY DEF WireInv, PartWire, Unasked, NotYet, Away
<1>5. PartWire(e)'
  <2>1. CASE e \notin held'
    <3>1. Away(e)'
      BY <1>3, <1>4, <2>1 DEF Away
    <3> QED BY <1>4, <3>1, GonePart
  <2>2. CASE held' = held /\ f.kind \notin Last
    <3>1. Told(Last, e)' => Told(Last, e)
      BY <2>2, TellsMore
    <3>2. Away(e)' <=> Away(e)
      BY <1>3, <2>2 DEF Away
    <3>3. Unasked(e)' /\ NotYet(e)'
      BY <1>3, <1>4 DEF Unasked, NotYet
    <3>4. Final(e)'
      BY <1>4, <3>1, <3>2 DEF PartWire, Final
    <3>5. Accounted(e)' /\ Gathered(e)'
      BY <1>3, <1>4, <3>2 DEF PartWire, Accounted, Gathered
    <3> QED BY <3>3, <3>4, <3>5 DEF PartWire
  <2> QED BY <2>1, <2>2
<1>6. ASSUME NEW d \in Sid, d # e PROVE PartWire(d)'
  <2>1. PartWire(d)
    BY DEF WireInv
  <2>2. \A kinds : Told(kinds, d)' => Told(kinds, d)
    BY <1>6, TellsMore
  <2> QED BY <1>3, <1>6, <2>1, <2>2, OtherPart
<1> QED BY <1>1, <1>2, <1>5, <1>6 DEF WireInv

LEMMA BridgeTellsKeepsWire ==
  ASSUME ClientInv, WireInv, NEW e \in Sid, BridgeAnswers(e) \/ Emit(e) \/ Terminate(e)
  PROVE  WireInv'
<1>0. /\ TypeOK /\ (e \in held \/ e \in ackDue)
      /\ UNCHANGED <<state, link, phase, closing, entry, ask, release, toBridge>>
  BY DEF BridgeAnswers, Emit, Terminate, ClientInv, streamVars, entryVars
<1>1. ASSUME BridgeAnswers(e) PROVE WireInv'
  <2>1. emitted' = emitted /\ ackDue' \subseteq ackDue
    BY <1>1 DEF BridgeAnswers
  <2>2. CASE toClient' = Append(toClient, Frame("ack", e)) /\ held' = held
    <3>1. Frame("ack", e).sid = e /\ Frame("ack", e).kind \notin Last
      BY DEF Frame, Last
    <3>2. held' \subseteq held
      BY <2>2
    <3> QED BY <1>0, <2>1, <2>2, <3>1, <3>2, BridgeTells
  <2>3. CASE toClient' = Append(toClient, Frame("error", e)) /\ held' = held \ {e}
    <3>1. Frame("error", e).sid = e
      BY DEF Frame
    <3>2. held' \subseteq held /\ e \notin held'
      BY <2>3
    <3> QED BY <1>0, <2>1, <2>3, <3>1, <3>2, BridgeTells
  <2> QED BY <1>1, <2>2, <2>3 DEF BridgeAnswers
<1>2. ASSUME Emit(e) PROVE WireInv'
  <2>1. /\ toClient' = Append(toClient, EventFrame(e, emitted[e] + 1)) /\ UNCHANGED <<held, ackDue>>
        /\ \A d \in Sid : d # e => emitted'[d] = emitted[d]
    BY <1>0, <1>2 DEF Emit, TypeOK
  <2>2. EventFrame(e, emitted[e] + 1).sid = e /\ EventFrame(e, emitted[e] + 1).kind \notin Last
    BY DEF EventFrame, Last
  <2>3. held' \subseteq held /\ ackDue' \subseteq ackDue
    BY <2>1
  <2> QED BY <1>0, <2>1, <2>2, <2>3, BridgeTells
<1>3. ASSUME Terminate(e) PROVE WireInv'
  <2>1. /\ toClient' = Append(toClient, Frame("terminated", e)) /\ UNCHANGED <<emitted, ackDue>>
        /\ held' \subseteq held /\ held' # held /\ e \notin held'
    BY <1>3 DEF Terminate
  <2>2. Frame("terminated", e).sid = e
    BY DEF Frame
  <2> QED BY <1>0, <2>1, <2>2, BridgeTells
<1> QED BY <1>1, <1>2, <1>3

LEMMA LinkDownKeepsWire ==
  ASSUME ClientInv, WireInv, LinkDown
  PROVE  WireInv'
<1>0. /\ TypeOK /\ link' = "down" /\ held' = {} /\ ackDue' = {} /\ toBridge' = <<>>
      /\ UNCHANGED <<state, phase, closing, entry, ask, release, emitted>>
  BY DEF LinkDown, ClientInv, streamVars, entryVars
<1>1. \A kinds, d : Told(kinds, d)' => Told(kinds, d)
  BY <1>0, TellsLess DEF LinkDown
<1>2. \A op, d : ~InFlight(op, d)'
  BY <1>0 DEF InFlight
<1>3. RequestsOnce' /\ DeadLink'
  BY <1>0 DEF RequestsOnce, DeadLink
<1>4. ASSUME NEW e \in Sid PROVE PartWire(e)'
  <2>1. PartWire(e) /\ Away(e)'
    BY <1>0, <1>2 DEF WireInv, Away
  <2>2. Unasked(e)'
    BY <1>0, <1>1, <1>2, <2>1 DEF PartWire, Unasked
  <2>3. NotYet(e)' /\ Final(e)' /\ Accounted(e)'
    BY <1>2, <2>1 DEF NotYet, Final, Accounted
  <2>4. Gathered(e)'
    BY <1>0, <2>1 DEF PartWire, Gathered
  <2> QED BY <2>2, <2>3, <2>4 DEF PartWire
<1> QED BY <1>3, <1>4 DEF WireInv

-------------------------------------------------------------------------------
(* The wire's layer holds *)

LEMMA WireInit == Init => WireInv
<1> SUFFICES ASSUME Init PROVE WireInv
  OBVIOUS
<1>1. /\ toBridge = <<>> /\ toClient = <<>> /\ held = {} /\ ackDue = {}
      /\ \A op, e : ~InFlight(op, e)
      /\ \A kinds, e : ~Told(kinds, e)
  BY DEF Init, InFlight, Told
<1>2. RequestsOnce /\ DeadLink
  BY <1>1 DEF RequestsOnce, DeadLink
<1>3. ASSUME NEW e \in Sid PROVE PartWire(e)
  <2>1. StreamOf(e) \in Stream
    BY StreamOfPart
  <2>2. Away(e)
    BY <1>1 DEF Away
  <2>3. Unasked(e) /\ NotYet(e) /\ Final(e) /\ Accounted(e)
    BY <1>1, <2>2 DEF Init, Unasked, NotYet, Final, Accounted
  <2>4. Gathered(e)
    BY <2>1 DEF Init, Gathered
  <2> QED BY <2>3, <2>4 DEF PartWire
<1> QED BY <1>2, <1>3 DEF WireInv

LEMMA WireNext == ClientInv /\ WireInv /\ [Next]_vars => WireInv'
<1> SUFFICES ASSUME ClientInv, WireInv, [Next]_vars PROVE WireInv'
  OBVIOUS
<1>1. ASSUME NEW s \in Stream,
             \/ Subscribe(s) \/ AskTimesOut(s) \/ CancelSubscribe(s) \/ SubscribeStep(s)
             \/ Unsubscribe(s) \/ CancelStream(s) \/ UnsubscribeReturns(s) \/ CancelUnsubscribe(s)
             \/ Take(s)
      PROVE  WireInv'
  BY <1>1, SubscribeKeepsWire, AskTimesOutKeepsWire, StepsAsideKeepWire, HandKeepsWire,
     AskNextKeepsWire, AskFailsKeepsWire, UnsubscribeKeepsWire, CancelStreamKeepsWire,
     UnsubscribeReturnsKeepsWire, CancelUnsubscribeKeepsWire DEF SubscribeStep
<1>2. ASSUME NEW e \in Sid, ReleaseStarts(e) \/ ReleaseReturns(e)
      PROVE  WireInv'
  BY <1>2, ReleaseStartsKeepsWire, ReleaseReturnsKeepsWire
<1>3. ASSUME NEW e \in Sid, BridgeAnswers(e) \/ Emit(e) \/ Terminate(e)
      PROVE  WireInv'
  BY <1>3, BridgeTellsKeepsWire
<1>4. ASSUME Receive PROVE WireInv'
  BY <1>4, AnswerKeepsWire, EventKeepsWire, TerminationKeepsWire DEF Receive
<1>5. ASSUME ReaderEnds \/ AClose \/ UNCHANGED vars PROVE WireInv'
  BY <1>5, ReaderEndsKeepsWire, StepsAsideKeepWire
<1>6. ASSUME BridgeReads \/ LinkDown PROVE WireInv'
  BY <1>6, BridgeReadsKeepsWire, LinkDownKeepsWire
<1> QED BY <1>1, <1>2, <1>3, <1>4, <1>5, <1>6 DEF Next

LEMMA WireAlways == Spec => []WireInv
<1>1. Init => ClientInv /\ WireInv
  BY ClientInit, WireInit
<1>2. ClientInv /\ WireInv /\ [Next]_vars => ClientInv' /\ WireInv'
  BY ClientNext, WireNext
<1> QED BY <1>1, <1>2, PTL DEF Spec

\* Whatever ended a subscription while the client is open, the bridge is told,
\* or never had it: _abort_subscribe, _detach and _unsubscribe_quietly leave
\* no id behind but those of an unsubscribe() cancelled before it began.
THEOREM NothingOrphaned == Spec => []NoOrphan
<1>1. ASSUME WireInv, state = "open", link = "up", NEW e \in Sid, Forgotten(e)
      PROVE  release[e] = "dropped"
  BY <1>1 DEF WireInv, PartWire, Accounted, Forgotten, Away
<1>2. WireInv => NoOrphan
  BY <1>1 DEF NoOrphan
<1> QED BY <1>2, WireAlways, PTL

\* _close_stream returns without an error only when the bridge has let go of
\* every part of the stream.
THEOREM UnsubscribeIsTrue == Spec => []UnsubscribeAcknowledged
<1>1. ASSUME WireInv, NEW s \in Stream, closing[s] = "returned", state = "open",
             NEW e \in PartSet(s)
      PROVE  e \notin held
  <2>1. e \in Sid /\ StreamOf(e) = s
    BY PartOfStream
  <2> QED BY <1>1, <2>1 DEF WireInv, PartWire, Gathered, Away
<1>2. WireInv => UnsubscribeAcknowledged
  BY <1>1 DEF UnsubscribeAcknowledged
<1> QED BY <1>2, WireAlways, PTL

-------------------------------------------------------------------------------
(* Numbers by position *)

\* A number comes in at the end,
LEMMA NumberAdded ==
  ASSUME NEW num, DOMAIN num \in SUBSET Nat, \A i \in DOMAIN num : num[i] \in Nat,
         NEW m \in Nat, NEW n \in Nat, Follows(num, m), Reaches(num, m, n),
         NEW p \in Nat, \A i \in DOMAIN num : i < p,
         NEW more, DOMAIN more = DOMAIN num \cup {p}, more[p] = n + 1,
         \A i \in DOMAIN num : more[i] = num[i]
  PROVE  Follows(more, m) /\ Reaches(more, m, n + 1)
<1>1. n = m \/ \E i \in DOMAIN num : num[i] = n
  BY DEF Reaches
<1>2. n >= m
  BY <1>1 DEF Follows
<1>3. ASSUME NEW i \in DOMAIN more
      PROVE  /\ more[i] > m
             /\ more[i] = m + 1 \/ \E j \in DOMAIN more : j < i /\ more[j] + 1 = more[i]
             /\ \A j \in DOMAIN more : j < i => more[j] < more[i]
             /\ more[i] <= n + 1
  <2>1. CASE i = p
    <3>1. more[i] > m /\ more[i] <= n + 1
      BY <1>2, <2>1
    <3>2. more[i] = m + 1 \/ \E j \in DOMAIN more : j < i /\ more[j] + 1 = more[i]
      BY <1>1, <2>1
    <3>3. \A j \in DOMAIN more : j < i => more[j] < more[i]
      BY <2>1 DEF Reaches
    <3> QED BY <3>1, <3>2, <3>3
  <2>2. CASE i \in DOMAIN num
    <3>1. /\ more[i] = num[i] /\ num[i] > m /\ num[i] <= n
          /\ num[i] = m + 1 \/ \E j \in DOMAIN num : j < i /\ num[j] + 1 = num[i]
          /\ \A j \in DOMAIN num : j < i => num[j] < num[i]
      BY <2>2 DEF Follows, Reaches
    <3> QED BY <2>2, <3>1
  <2> QED BY <2>1, <2>2
<1> QED BY <1>3 DEF Follows, Reaches

\* the first leaves and the others move up, or they only move up.
LEMMA FirstTaken ==
  ASSUME NEW num, DOMAIN num \in SUBSET (Nat \ {0}), \A i \in DOMAIN num : num[i] \in Nat,
         NEW m \in Nat, Follows(num, m), 1 \in DOMAIN num,
         NEW rest, DOMAIN rest \in SUBSET (Nat \ {0}),
         \A i \in Nat \ {0} : i \in DOMAIN rest <=> i + 1 \in DOMAIN num,
         \A i \in DOMAIN rest : rest[i] = num[i + 1]
  PROVE  /\ num[1] = m + 1 /\ Follows(rest, m + 1)
         /\ \A n \in Nat : Reaches(num, m, n) => n > m /\ Reaches(rest, m + 1, n)
<1>1. num[1] = m + 1
  BY DEF Follows
<1>2. \A i \in DOMAIN num : i # 1 => i - 1 \in DOMAIN rest /\ rest[i - 1] = num[i]
  <2> SUFFICES ASSUME NEW i \in DOMAIN num, i # 1
               PROVE  i - 1 \in DOMAIN rest /\ rest[i - 1] = num[i]
    OBVIOUS
  <2>1. i - 1 \in Nat \ {0} /\ (i - 1) + 1 = i
    OBVIOUS
  <2> QED BY <2>1
<1>3. ASSUME NEW i \in DOMAIN rest
      PROVE  /\ rest[i] > m + 1
             /\ rest[i] = (m + 1) + 1 \/ \E j \in DOMAIN rest : j < i /\ rest[j] + 1 = rest[i]
             /\ \A j \in DOMAIN rest : j < i => rest[j] < rest[i]
  <2>0. i \in Nat \ {0} /\ i + 1 \in DOMAIN num /\ rest[i] = num[i + 1] /\ rest[i] \in Nat
    OBVIOUS
  <2>1. /\ num[i + 1] = m + 1 \/ \E j \in DOMAIN num : j < i + 1 /\ num[j] + 1 = num[i + 1]
        /\ \A j \in DOMAIN num : j < i + 1 => num[j] < num[i + 1]
    BY <2>0 DEF Follows
  <2>2. rest[i] > m + 1
    BY <1>1, <2>0, <2>1
  <2>3. PICK j \in DOMAIN num : j < i + 1 /\ num[j] + 1 = num[i + 1]
    BY <2>0, <2>1, <2>2
  <2>4. rest[i] = (m + 1) + 1 \/ \E k \in DOMAIN rest : k < i /\ rest[k] + 1 = rest[i]
    <3>1. CASE j = 1
      BY <1>1, <2>0, <2>3, <3>1
    <3>2. CASE j # 1
      <4>1. j - 1 \in DOMAIN rest /\ rest[j - 1] = num[j] /\ j - 1 < i
        BY <1>2, <2>0, <2>3, <3>2
      <4> QED BY <2>0, <2>3, <4>1
    <3> QED BY <3>1, <3>2
  <2>5. ASSUME NEW k \in DOMAIN rest, k < i PROVE rest[k] < rest[i]
    <3>1. k + 1 \in DOMAIN num /\ k + 1 < i + 1 /\ rest[k] = num[k + 1]
      BY <2>0, <2>5
    <3> QED BY <2>0, <2>1, <3>1
  <2> QED BY <2>2, <2>4, <2>5
<1>4. ASSUME NEW n \in Nat, Reaches(num, m, n) PROVE n > m /\ Reaches(rest, m + 1, n)
  <2>1. \A i \in DOMAIN rest : rest[i] <= n
    BY <1>4 DEF Reaches
  <2>2. n > m /\ \E i \in DOMAIN num : num[i] = n
    BY <1>1, <1>4 DEF Reaches
  <2>3. n = m + 1 \/ \E i \in DOMAIN rest : rest[i] = n
    BY <1>1, <1>2, <2>2
  <2> QED BY <2>1, <2>2, <2>3 DEF Reaches
<1> QED BY <1>1, <1>3, <1>4 DEF Follows

LEMMA MovedUp ==
  ASSUME NEW num, DOMAIN num \in SUBSET (Nat \ {0}), \A i \in DOMAIN num : num[i] \in Nat,
         1 \notin DOMAIN num,
         NEW rest, DOMAIN rest \in SUBSET (Nat \ {0}),
         \A i \in Nat \ {0} : i \in DOMAIN rest <=> i + 1 \in DOMAIN num,
         \A i \in DOMAIN rest : rest[i] = num[i + 1]
  PROVE  /\ \A m \in Nat : Follows(num, m) => Follows(rest, m)
         /\ \A m, n \in Nat : Reaches(num, m, n) => Reaches(rest, m, n)
<1>1. \A i \in DOMAIN num : i - 1 \in DOMAIN rest /\ rest[i - 1] = num[i] /\ i \in Nat \ {0}
  <2> SUFFICES ASSUME NEW i \in DOMAIN num
               PROVE  i - 1 \in DOMAIN rest /\ rest[i - 1] = num[i] /\ i \in Nat \ {0}
    OBVIOUS
  <2>1. i \in Nat \ {0} /\ i - 1 \in Nat \ {0} /\ (i - 1) + 1 = i
    OBVIOUS
  <2> QED BY <2>1
<1>2. ASSUME NEW m \in Nat, Follows(num, m), NEW i \in DOMAIN rest
      PROVE  /\ rest[i] > m
             /\ rest[i] = m + 1 \/ \E j \in DOMAIN rest : j < i /\ rest[j] + 1 = rest[i]
             /\ \A j \in DOMAIN rest : j < i => rest[j] < rest[i]
  <2>0. i \in Nat \ {0} /\ i + 1 \in DOMAIN num /\ rest[i] = num[i + 1]
    OBVIOUS
  <2>1. /\ num[i + 1] > m
        /\ num[i + 1] = m + 1 \/ \E j \in DOMAIN num : j < i + 1 /\ num[j] + 1 = num[i + 1]
        /\ \A j \in DOMAIN num : j < i + 1 => num[j] < num[i + 1]
    BY <1>2, <2>0 DEF Follows
  <2>2. ASSUME NEW j \in DOMAIN num, j < i + 1, num[j] + 1 = num[i + 1]
        PROVE  \E k \in DOMAIN rest : k < i /\ rest[k] + 1 = rest[i]
    <3>1. j - 1 \in DOMAIN rest /\ rest[j - 1] = num[j] /\ j - 1 < i
      BY <1>1, <2>0, <2>2
    <3> QED BY <2>0, <2>2, <3>1
  <2>3. ASSUME NEW k \in DOMAIN rest, k < i PROVE rest[k] < rest[i]
    <3>1. k + 1 \in DOMAIN num /\ k + 1 < i + 1 /\ rest[k] = num[k + 1]
      BY <2>0, <2>3
    <3> QED BY <2>0, <2>1, <3>1
  <2> QED BY <2>0, <2>1, <2>2, <2>3
<1>3. ASSUME NEW m \in Nat, NEW n \in Nat, Reaches(num, m, n) PROVE Reaches(rest, m, n)
  <2>1. \A i \in DOMAIN rest : rest[i] <= n
    BY <1>3 DEF Reaches
  <2>2. n = m \/ \E i \in DOMAIN rest : rest[i] = n
    BY <1>1, <1>3 DEF Reaches
  <2> QED BY <2>1, <2>2 DEF Reaches
<1> QED BY <1>2, <1>3 DEF Follows

\* What is cut off at the end leaves no gap.
LEMMA CutOff ==
  ASSUME NEW num, NEW m \in Nat, Follows(num, m), NEW n \in Nat, DOMAIN num \in SUBSET Nat,
         NEW less, DOMAIN less = {i \in DOMAIN num : i <= n}, \A i \in DOMAIN less : less[i] = num[i]
  PROVE  Follows(less, m)
<1>1. ASSUME NEW i \in DOMAIN less
      PROVE  /\ less[i] > m
             /\ less[i] = m + 1 \/ \E j \in DOMAIN less : j < i /\ less[j] + 1 = less[i]
             /\ \A j \in DOMAIN less : j < i => less[j] < less[i]
  <2>1. /\ i \in DOMAIN num /\ i <= n /\ less[i] = num[i] /\ num[i] > m
        /\ num[i] = m + 1 \/ \E j \in DOMAIN num : j < i /\ num[j] + 1 = num[i]
        /\ \A j \in DOMAIN num : j < i => num[j] < num[i]
    BY DEF Follows
  <2>2. \A j \in DOMAIN num : j < i => j \in DOMAIN less
    BY <2>1
  <2> QED BY <2>1, <2>2
<1> QED BY <1>1 DEF Follows

-------------------------------------------------------------------------------
(* Events under way and in the queue *)

LEMMA ComingType ==
  ASSUME TypeOK, NEW e
  PROVE  /\ DOMAIN Coming(e) = {j \in DOMAIN toClient :
                                  toClient[j].kind = "event" /\ toClient[j].sid = e}
         /\ DOMAIN Coming(e) \in SUBSET (Nat \ {0})
         /\ \A i \in DOMAIN Coming(e) : Coming(e)[i] = toClient[i].n /\ Coming(e)[i] \in Nat
<1>1. toClient \in Seq(FrameSet)
  BY WireType
<1>2. DOMAIN toClient \subseteq Nat \ {0} /\ \A i \in DOMAIN toClient : toClient[i] \in FrameSet
  BY <1>1
<1>3. DOMAIN Coming(e) = {j \in DOMAIN toClient :
                            toClient[j].kind = "event" /\ toClient[j].sid = e}
  BY DEF Coming
<1>4. \A i \in DOMAIN Coming(e) : Coming(e)[i] = toClient[i].n
  BY DEF Coming
<1> QED BY <1>2, <1>3, <1>4 DEF FrameSet

\* A frame is added: nothing new for e, or its next event.
LEMMA ComingAdded ==
  ASSUME TypeOK, NEW e, NEW f, toClient' = Append(toClient, f)
  PROVE  /\ f.kind # "event" \/ f.sid # e => Coming(e)' = Coming(e)
         /\ f.kind = "event" /\ f.sid = e =>
              /\ DOMAIN Coming(e)' = DOMAIN Coming(e) \cup {Len(toClient) + 1}
              /\ Coming(e)'[Len(toClient) + 1] = f.n
              /\ \A i \in DOMAIN Coming(e) : Coming(e)'[i] = Coming(e)[i]
         /\ Len(toClient) + 1 \in Nat
         /\ \A i \in DOMAIN Coming(e) : i < Len(toClient) + 1
<1>1. toClient \in Seq(FrameSet)
  BY WireType
<1>2. /\ DOMAIN toClient' = DOMAIN toClient \cup {Len(toClient) + 1}
      /\ \A i \in DOMAIN toClient : toClient'[i] = toClient[i] /\ i < Len(toClient) + 1
      /\ toClient'[Len(toClient) + 1] = f
      /\ Len(toClient) + 1 \notin DOMAIN toClient
  BY <1>1, AppendIndex
<1> DEFINE old == {j \in DOMAIN toClient : toClient[j].kind = "event" /\ toClient[j].sid = e}
           new == {j \in DOMAIN toClient' : toClient'[j].kind = "event" /\ toClient'[j].sid = e}
<1>3. Coming(e) = [i \in old |-> toClient[i].n] /\ Coming(e)' = [i \in new |-> toClient'[i].n]
  BY DEF Coming
<1>4. CASE f.kind # "event" \/ f.sid # e
  <2>1. new = old
    BY <1>2, <1>4
  <2>2. \A i \in old : toClient'[i].n = toClient[i].n
    BY <1>2
  <2>3. [i \in new |-> toClient'[i].n] = [i \in old |-> toClient[i].n]
    BY <2>1, <2>2
  <2>4. \A i \in DOMAIN Coming(e) : i < Len(toClient) + 1
    BY <1>2, <1>3
  <2> QED BY <1>1, <1>3, <1>4, <2>3, <2>4
<1>5. CASE f.kind = "event" /\ f.sid = e
  <2>1. new = old \cup {Len(toClient) + 1}
    BY <1>2, <1>5
  <2>2. \A i \in old : toClient'[i].n = toClient[i].n /\ i < Len(toClient) + 1
    BY <1>2
  <2> HIDE DEF old, new
  <2>3. Coming(e)'[Len(toClient) + 1] = f.n
    BY <1>2, <1>3, <2>1
  <2>4. DOMAIN Coming(e) = old /\ DOMAIN Coming(e)' = new
    BY <1>3
  <2>5. \A i \in old : Coming(e)'[i] = Coming(e)[i] /\ i < Len(toClient) + 1
    BY <1>3, <2>1, <2>2
  <2> QED BY <1>1, <1>5, <2>1, <2>3, <2>4, <2>5
<1> QED BY <1>4, <1>5

\* The first frame is read.
LEMMA ComingRead ==
  ASSUME TypeOK, NEW e, toClient # <<>>, toClient' = Tail(toClient)
  PROVE  /\ DOMAIN Coming(e)' \in SUBSET (Nat \ {0})
         /\ \A i \in Nat \ {0} : i \in DOMAIN Coming(e)' <=> i + 1 \in DOMAIN Coming(e)
         /\ \A i \in DOMAIN Coming(e)' : Coming(e)'[i] = Coming(e)[i + 1]
         /\ 1 \in DOMAIN Coming(e) <=> Head(toClient).kind = "event" /\ Head(toClient).sid = e
         /\ 1 \in DOMAIN Coming(e) => Coming(e)[1] = Head(toClient).n
<1>1. toClient \in Seq(FrameSet)
  BY WireType
<1>2. /\ 1 \in DOMAIN toClient /\ toClient[1] = Head(toClient)
      /\ DOMAIN toClient' \subseteq Nat \ {0}
      /\ \A i \in Nat \ {0} : i \in DOMAIN toClient' <=> i + 1 \in DOMAIN toClient
      /\ \A i \in DOMAIN toClient' : toClient'[i] = toClient[i + 1]
  BY <1>1, TailIndex
<1> DEFINE old == {j \in DOMAIN toClient : toClient[j].kind = "event" /\ toClient[j].sid = e}
           new == {j \in DOMAIN toClient' : toClient'[j].kind = "event" /\ toClient'[j].sid = e}
<1>3. Coming(e) = [i \in old |-> toClient[i].n] /\ Coming(e)' = [i \in new |-> toClient'[i].n]
  BY DEF Coming
<1>4. /\ new \in SUBSET (Nat \ {0})
      /\ \A i \in Nat \ {0} : i \in new <=> i + 1 \in old
      /\ \A i \in new : toClient'[i].n = toClient[i + 1].n
      /\ 1 \in old <=> Head(toClient).kind = "event" /\ Head(toClient).sid = e
  BY <1>2
<1> HIDE DEF old, new
<1>5. DOMAIN Coming(e) = old /\ DOMAIN Coming(e)' = new
  BY <1>3
<1>6. ASSUME NEW i \in new PROVE Coming(e)'[i] = Coming(e)[i + 1]
  <2>1. i + 1 \in old
    BY <1>4
  <2>2. Coming(e)'[i] = toClient'[i].n
    BY <1>3
  <2>3. Coming(e)[i + 1] = toClient[i + 1].n
    BY <1>3, <2>1
  <2> QED BY <1>4, <2>2, <2>3
<1>7. 1 \in old => Coming(e)[1] = Head(toClient).n
  BY <1>2, <1>3
<1> QED BY <1>4, <1>5, <1>6, <1>7

\* The last frames are lost.
LEMMA ComingCut ==
  ASSUME TypeOK, NEW e, NEW n \in 0 .. Len(toClient), toClient' = SubSeq(toClient, 1, n)
  PROVE  /\ DOMAIN Coming(e)' = {i \in DOMAIN Coming(e) : i <= n}
         /\ \A i \in DOMAIN Coming(e)' : Coming(e)'[i] = Coming(e)[i]
<1>1. toClient \in Seq(FrameSet)
  BY WireType
<1>2. /\ DOMAIN toClient' = {i \in DOMAIN toClient : i <= n}
      /\ \A i \in DOMAIN toClient' : toClient'[i] = toClient[i]
  BY <1>1, PrefixIndex
<1> DEFINE old == {j \in DOMAIN toClient : toClient[j].kind = "event" /\ toClient[j].sid = e}
           new == {j \in DOMAIN toClient' : toClient'[j].kind = "event" /\ toClient'[j].sid = e}
<1>3. Coming(e) = [i \in old |-> toClient[i].n] /\ Coming(e)' = [i \in new |-> toClient'[i].n]
  BY DEF Coming
<1>4. new = {i \in old : i <= n} /\ \A i \in new : toClient'[i].n = toClient[i].n
  BY <1>2
<1> HIDE DEF old, new
<1> QED BY <1>3, <1>4

LEMMA QueuedType ==
  ASSUME TypeOK, NEW e \in Sid
  PROVE  /\ DOMAIN Queued(e) = {j \in DOMAIN items[StreamOf(e)] : items[StreamOf(e)][j][1] = e}
         /\ DOMAIN Queued(e) \in SUBSET (Nat \ {0})
         /\ \A i \in DOMAIN Queued(e) :
              Queued(e)[i] = items[StreamOf(e)][i][2] /\ Queued(e)[i] \in Nat
<1>1. PICK q : q = items[StreamOf(e)]
  OBVIOUS
<1>2. q \in Seq(PartSet(StreamOf(e)) \X Nat)
  BY <1>1, StreamOfPart DEF TypeOK
<1>3. DOMAIN q \subseteq Nat \ {0} /\ \A i \in DOMAIN q : q[i][2] \in Nat
  BY <1>2
<1>4. Queued(e) = [i \in {j \in DOMAIN q : q[j][1] = e} |-> q[i][2]]
  BY <1>1 DEF Queued
<1> QED BY <1>1, <1>3, <1>4

LEMMA QueuedSame ==
  ASSUME NEW e, items'[StreamOf(e)] = items[StreamOf(e)]
  PROVE  Queued(e)' = Queued(e)
  BY DEF Queued

\* An event is pushed: nothing new for the other parts.
Pushed(s, d, n) == items'[s] = Append(items[s], <<d, n>>)

LEMMA QueuedAdded ==
  ASSUME TypeOK, NEW e \in Sid, NEW d \in Sid, NEW n, Pushed(StreamOf(e), d, n)
  PROVE  /\ d # e => Queued(e)' = Queued(e)
         /\ d = e => /\ DOMAIN Queued(e)' = DOMAIN Queued(e) \cup {Len(items[StreamOf(e)]) + 1}
                     /\ Queued(e)'[Len(items[StreamOf(e)]) + 1] = n
                     /\ \A i \in DOMAIN Queued(e) : Queued(e)'[i] = Queued(e)[i]
         /\ Len(items[StreamOf(e)]) + 1 \in Nat
         /\ \A i \in DOMAIN Queued(e) : i < Len(items[StreamOf(e)]) + 1
<1>1. PICK q, r : q = items[StreamOf(e)] /\ r = items'[StreamOf(e)]
  OBVIOUS
<1>2. q \in Seq(PartSet(StreamOf(e)) \X Nat)
  BY <1>1, StreamOfPart DEF TypeOK
<1>3. /\ DOMAIN r = DOMAIN q \cup {Len(q) + 1}
      /\ \A i \in DOMAIN q : r[i] = q[i] /\ i < Len(q) + 1
      /\ r[Len(q) + 1] = <<d, n>>
      /\ Len(q) + 1 \notin DOMAIN q
  BY <1>1, <1>2, AppendIndex, SMTT(15) DEF Pushed
<1> DEFINE old == {j \in DOMAIN q : q[j][1] = e}
           new == {j \in DOMAIN r : r[j][1] = e}
<1>4. Queued(e) = [i \in old |-> q[i][2]] /\ Queued(e)' = [i \in new |-> r[i][2]]
  BY <1>1 DEF Queued
<1>5. CASE d # e
  <2>1. new = old
    BY <1>3, <1>5
  <2>2. [i \in new |-> r[i][2]] = [i \in old |-> q[i][2]]
    BY <1>3, <2>1
  <2>3. \A i \in DOMAIN Queued(e) : i < Len(q) + 1
    BY <1>3, <1>4
  <2> QED BY <1>1, <1>2, <1>4, <1>5, <2>2, <2>3
<1>6. CASE d = e
  <2>1. new = old \cup {Len(q) + 1}
    BY <1>3, <1>6
  <2>2. \A i \in old : r[i][2] = q[i][2] /\ i < Len(q) + 1
    BY <1>3
  <2>3. r[Len(q) + 1][2] = n
    BY <1>3
  <2> HIDE DEF old, new
  <2>4. DOMAIN Queued(e) = old /\ DOMAIN Queued(e)' = new
    BY <1>4
  <2>5. \A i \in old : Queued(e)'[i] = Queued(e)[i] /\ i < Len(q) + 1
    BY <1>4, <2>1, <2>2
  <2>6. Queued(e)'[Len(q) + 1] = n
    BY <1>4, <2>1, <2>3
  <2>7. Len(q) + 1 \in Nat
    BY <1>2
  <2> QED BY <1>1, <1>6, <2>1, <2>4, <2>5, <2>6, <2>7
<1> QED BY <1>5, <1>6

\* The caller takes the first event.
LEMMA QueuedTaken ==
  ASSUME TypeOK, NEW e \in Sid, items[StreamOf(e)] # <<>>,
         items'[StreamOf(e)] = Tail(items[StreamOf(e)])
  PROVE  /\ DOMAIN Queued(e)' \in SUBSET (Nat \ {0})
         /\ \A i \in Nat \ {0} : i \in DOMAIN Queued(e)' <=> i + 1 \in DOMAIN Queued(e)
         /\ \A i \in DOMAIN Queued(e)' : Queued(e)'[i] = Queued(e)[i + 1]
         /\ 1 \in DOMAIN Queued(e) <=> Head(items[StreamOf(e)])[1] = e
<1>1. PICK q, r : q = items[StreamOf(e)] /\ r = items'[StreamOf(e)]
  OBVIOUS
<1>2. q \in Seq(PartSet(StreamOf(e)) \X Nat)
  BY <1>1, StreamOfPart DEF TypeOK
<1>3. /\ 1 \in DOMAIN q /\ q[1] = Head(q)
      /\ DOMAIN r \subseteq Nat \ {0}
      /\ \A i \in Nat \ {0} : i \in DOMAIN r <=> i + 1 \in DOMAIN q
      /\ \A i \in DOMAIN r : r[i] = q[i + 1]
  BY <1>1, <1>2, TailIndex
<1> DEFINE old == {j \in DOMAIN q : q[j][1] = e}
           new == {j \in DOMAIN r : r[j][1] = e}
<1>4. Queued(e) = [i \in old |-> q[i][2]] /\ Queued(e)' = [i \in new |-> r[i][2]]
  BY <1>1 DEF Queued
<1>5. /\ new \in SUBSET (Nat \ {0})
      /\ \A i \in Nat \ {0} : i \in new <=> i + 1 \in old
      /\ \A i \in new : r[i][2] = q[i + 1][2]
      /\ 1 \in old <=> Head(q)[1] = e
  BY <1>3
<1> HIDE DEF old, new
<1> QED BY <1>1, <1>4, <1>5

-------------------------------------------------------------------------------
(* What a step leaves of the count *)

LEMMA SameTally ==
  ASSUME NEW e \in Sid, Tallied(e), Queued(e)' = Queued(e), Coming(e)' = Coming(e),
         read'[e] = read[e], emitted'[e] = emitted[e], link' = "up" => link = "up",
         Hears(e)' => Hears(e),
         \A i \in DOMAIN toClient' : Ends(toClient'[i], e) =>
           i \in DOMAIN toClient /\ Ends(toClient[i], e)
  PROVE  Tallied(e)'
<1>1. PICK h \in read[e] .. emitted[e] : Heard(e, h)
  BY DEF Tallied
<1>2. Heard(e, h)'
  BY <1>1 DEF Heard
<1>3. \A i \in DOMAIN Coming(e)' : Coming(e)'[i] <= emitted'[e]
  BY DEF Tallied
<1> QED BY <1>1, <1>2, <1>3 DEF Tallied

LEMMA SameToldAll ==
  ASSUME NEW s \in Stream, ToldAll(s), ended'[s] = "terminated" => ended[s] = "terminated",
         \A d \in PartSet(s) : /\ entry[d] = "terminated" => entry'[d] = "terminated"
                               /\ Queued(d)' = Queued(d)
                               /\ read'[d] = read[d]
                               /\ entry[d] = "terminated" => emitted'[d] = emitted[d]
  PROVE  ToldAll(s)'
  BY DEF ToldAll

\* The client acts without touching a queue, or a frame.
LEMMA IdleKeepsOrder ==
  ASSUME OrderInv, UNCHANGED <<link, items, read, emitted, toClient>>,
         \A s \in Stream : /\ Started(s)' /\ ended'[s] = "no" => Started(s) /\ ended[s] = "no"
                           /\ ended'[s] = "terminated" => ended[s] = "terminated",
         \A e \in Sid : entry[e] = "terminated" => entry'[e] = "terminated"
  PROVE  OrderInv'
<1>1. \A e : Queued(e)' = Queued(e) /\ Coming(e)' = Coming(e)
  BY DEF Queued, Coming
<1>2. ASSUME NEW e \in Sid PROVE Tallied(e)'
  <2>1. Hears(e)' => Hears(e)
    BY StreamOfPart DEF Hears
  <2> QED BY <1>1, <2>1, SameTally DEF OrderInv
<1>3. ASSUME NEW s \in Stream PROVE ToldAll(s)'
  BY <1>1, PartOfStream, SameToldAll DEF OrderInv
<1> QED BY <1>2, <1>3 DEF OrderInv

\* A frame is read that is no event of e, or comes too late for it.
LEMMA ReadTally ==
  ASSUME TypeOK, NEW e \in Sid, Tallied(e), toClient # <<>>, toClient' = Tail(toClient),
         Queued(e)' = Queued(e), link' = link, read'[e] = read[e], emitted'[e] = emitted[e],
         Hears(e)' => Hears(e) /\ ~(Head(toClient).kind = "event" /\ Head(toClient).sid = e)
  PROVE  Tallied(e)'
<1>0. /\ DOMAIN Coming(e)' \in SUBSET (Nat \ {0})
      /\ \A i \in Nat \ {0} : i \in DOMAIN Coming(e)' <=> i + 1 \in DOMAIN Coming(e)
      /\ \A i \in DOMAIN Coming(e)' : Coming(e)'[i] = Coming(e)[i + 1]
      /\ 1 \in DOMAIN Coming(e) <=> Head(toClient).kind = "event" /\ Head(toClient).sid = e
  BY ComingRead
<1>1. PICK h \in read[e] .. emitted[e] : Heard(e, h)
  BY DEF Tallied
<1>2. \A i \in DOMAIN Coming(e)' : Coming(e)'[i] <= emitted'[e]
  BY <1>0 DEF Tallied
<1>3. h \in Nat /\ read[e] \in Nat /\ emitted[e] \in Nat
  BY <1>1 DEF TypeOK
<1>4. ASSUME Hears(e)'
      PROVE  /\ Follows(Coming(e)', h)
             /\ link' = "up" => Reaches(Coming(e)', h, emitted[e])
             /\ \A i \in DOMAIN toClient' : Ends(toClient'[i], e) =>
                  h = emitted[e] \/ \E j \in DOMAIN Coming(e)' : j < i /\ Coming(e)'[j] = emitted[e]
  <2>1. /\ Hears(e) /\ 1 \notin DOMAIN Coming(e)
        /\ Follows(Coming(e), h)
        /\ link = "up" => Reaches(Coming(e), h, emitted[e])
        /\ \A i \in DOMAIN toClient : Ends(toClient[i], e) =>
             h = emitted[e] \/ \E j \in DOMAIN Coming(e) : j < i /\ Coming(e)[j] = emitted[e]
    BY <1>0, <1>1, <1>4 DEF Heard
  <2>2. /\ DOMAIN Coming(e) \in SUBSET (Nat \ {0})
        /\ \A i \in DOMAIN Coming(e) : Coming(e)[i] \in Nat
    BY ComingType
  <2>3. /\ \A m \in Nat : Follows(Coming(e), m) => Follows(Coming(e)', m)
        /\ \A m, n \in Nat : Reaches(Coming(e), m, n) => Reaches(Coming(e)', m, n)
    BY <1>0, <2>1, <2>2, MovedUp
  <2>4. ASSUME NEW i \in DOMAIN toClient', Ends(toClient'[i], e), h # emitted[e]
        PROVE  \E j \in DOMAIN Coming(e)' : j < i /\ Coming(e)'[j] = emitted[e]
    <3>1. i \in Nat \ {0} /\ i + 1 \in DOMAIN toClient /\ Ends(toClient[i + 1], e)
      BY <2>4, WireType, TailIndex
    <3>2. PICK j \in DOMAIN Coming(e) : j < i + 1 /\ Coming(e)[j] = emitted[e]
      BY <2>1, <2>4, <3>1
    <3>3. j \in Nat \ {0} /\ j # 1
      BY <2>1, <2>2, <3>2
    <3>4. j - 1 \in Nat \ {0} /\ (j - 1) + 1 = j /\ j - 1 < i
      BY <3>1, <3>2, <3>3
    <3>5. j - 1 \in DOMAIN Coming(e)' /\ Coming(e)'[j - 1] = Coming(e)[j]
      BY <1>0, <3>2, <3>4
    <3> QED BY <3>2, <3>4, <3>5
  <2> QED BY <1>3, <2>1, <2>3, <2>4
<1>5. Follows(Queued(e)', read[e]) /\ Reaches(Queued(e)', read[e], h)
  BY <1>1 DEF Heard
<1>6. Heard(e, h)'
  BY <1>4, <1>5 DEF Heard
<1> QED BY <1>1, <1>2, <1>6 DEF Tallied

\* The next event of e is read and pushed.
LEMMA PushTally ==
  ASSUME TypeOK, NEW e \in Sid, Tallied(e), toClient # <<>>, toClient' = Tail(toClient),
         Head(toClient).kind = "event", Head(toClient).sid = e,
         Pushed(StreamOf(e), e, Head(toClient).n),
         Hears(e), link' = link, read'[e] = read[e], emitted'[e] = emitted[e]
  PROVE  Tallied(e)'
<1>0. /\ DOMAIN Coming(e)' \in SUBSET (Nat \ {0})
      /\ \A i \in Nat \ {0} : i \in DOMAIN Coming(e)' <=> i + 1 \in DOMAIN Coming(e)
      /\ \A i \in DOMAIN Coming(e)' : Coming(e)'[i] = Coming(e)[i + 1]
      /\ 1 \in DOMAIN Coming(e) /\ Coming(e)[1] = Head(toClient).n
  BY ComingRead
<1>1. PICK h \in read[e] .. emitted[e] : Heard(e, h)
  BY DEF Tallied
<1>2. \A i \in DOMAIN Coming(e)' : Coming(e)'[i] <= emitted'[e]
  BY <1>0 DEF Tallied
<1>3. h \in Nat /\ read[e] \in Nat /\ emitted[e] \in Nat
  BY <1>1 DEF TypeOK
<1>4. /\ Follows(Coming(e), h)
      /\ link = "up" => Reaches(Coming(e), h, emitted[e])
      /\ \A i \in DOMAIN toClient : Ends(toClient[i], e) =>
           h = emitted[e] \/ \E j \in DOMAIN Coming(e) : j < i /\ Coming(e)[j] = emitted[e]
  BY <1>1 DEF Heard
<1>5. /\ DOMAIN Coming(e) \in SUBSET (Nat \ {0})
      /\ \A i \in DOMAIN Coming(e) : Coming(e)[i] \in Nat
  BY ComingType
<1>6. /\ Coming(e)[1] = h + 1
      /\ Follows(Coming(e)', h + 1)
      /\ \A n \in Nat : Reaches(Coming(e), h, n) => Reaches(Coming(e)', h + 1, n)
  BY <1>0, <1>3, <1>4, <1>5, FirstTaken
<1>7. h + 1 \in read'[e] .. emitted'[e]
  <2>1. Coming(e)[1] <= emitted[e]
    BY <1>0 DEF Tallied
  <2> QED BY <1>1, <1>3, <1>6, <2>1
<1>8. Follows(Queued(e)', read'[e]) /\ Reaches(Queued(e)', read'[e], h + 1)
  <2>1. Follows(Queued(e), read[e]) /\ Reaches(Queued(e), read[e], h)
    BY <1>1 DEF Heard
  <2>2. /\ DOMAIN Queued(e) \in SUBSET (Nat \ {0})
        /\ \A i \in DOMAIN Queued(e) : Queued(e)[i] \in Nat
    BY QueuedType
  <2>3. PICK n : n = Head(toClient).n
    OBVIOUS
  <2>4. Pushed(StreamOf(e), e, n) /\ n = h + 1
    BY <1>0, <1>6, <2>3
  <2>5. /\ DOMAIN Queued(e)' = DOMAIN Queued(e) \cup {Len(items[StreamOf(e)]) + 1}
        /\ Queued(e)'[Len(items[StreamOf(e)]) + 1] = n
        /\ \A i \in DOMAIN Queued(e) : Queued(e)'[i] = Queued(e)[i]
        /\ Len(items[StreamOf(e)]) + 1 \in Nat
        /\ \A i \in DOMAIN Queued(e) : i < Len(items[StreamOf(e)]) + 1
    BY <2>4, QueuedAdded
  <2>6. PICK p \in Nat :
          /\ DOMAIN Queued(e)' = DOMAIN Queued(e) \cup {p}
          /\ Queued(e)'[p] = n
          /\ \A i \in DOMAIN Queued(e) : Queued(e)'[i] = Queued(e)[i] /\ i < p
    BY <2>5
  <2>7. DOMAIN Queued(e) \in SUBSET Nat
    BY <2>2
  <2>8. PICK num, more : num = Queued(e) /\ more = Queued(e)'
    OBVIOUS
  <2>9. PICK r \in Nat, k \in Nat : r = read[e] /\ k = h
    BY <1>3
  <2>10. Follows(more, r) /\ Reaches(more, r, k + 1)
    <3>1. /\ DOMAIN num \in SUBSET Nat /\ \A i \in DOMAIN num : num[i] \in Nat
          /\ Follows(num, r) /\ Reaches(num, r, k)
      BY <2>1, <2>2, <2>7, <2>8, <2>9
    <3>2. /\ p \in Nat /\ \A i \in DOMAIN num : i < p
          /\ DOMAIN more = DOMAIN num \cup {p} /\ more[p] = k + 1
          /\ \A i \in DOMAIN num : more[i] = num[i]
      BY <2>4, <2>6, <2>8, <2>9
    <3> QED BY <1>3, <3>1, <3>2, NumberAdded, ZenonT(30)
  <2> QED BY <2>8, <2>10, <2>9
<1>9. ASSUME NEW i \in DOMAIN toClient', Ends(toClient'[i], e), h + 1 # emitted[e]
      PROVE  \E j \in DOMAIN Coming(e)' : j < i /\ Coming(e)'[j] = emitted[e]
  <2>1. i \in Nat \ {0} /\ i + 1 \in DOMAIN toClient /\ Ends(toClient[i + 1], e)
    BY <1>9, WireType, TailIndex
  <2>2. h # emitted[e]
    BY <1>3, <1>7
  <2>3. PICK j \in DOMAIN Coming(e) : j < i + 1 /\ Coming(e)[j] = emitted[e]
    BY <1>4, <2>1, <2>2
  <2>4. j \in Nat \ {0} /\ j # 1
    BY <1>5, <1>6, <1>9, <2>3
  <2>5. j - 1 \in Nat \ {0} /\ (j - 1) + 1 = j /\ j - 1 < i
    BY <2>1, <2>3, <2>4
  <2>6. j - 1 \in DOMAIN Coming(e)' /\ Coming(e)'[j - 1] = Coming(e)[j]
    BY <1>0, <2>3, <2>5
  <2> QED BY <2>3, <2>5, <2>6
<1>10. Heard(e, h + 1)'
  <2>1. link' = "up" => Reaches(Coming(e)', h + 1, emitted'[e])
    BY <1>3, <1>4, <1>6
  <2> QED BY <1>6, <1>8, <1>9, <2>1 DEF Heard
<1> QED BY <1>2, <1>7, <1>10 DEF Tallied

-------------------------------------------------------------------------------
(* The client counts *)

LEMMA SubscribeKeepsOrder ==
  ASSUME ClientInv, WireInv, OrderInv, NEW s \in Stream, Subscribe(s)
  PROVE  OrderInv'
<1>0. /\ TypeOK /\ phase[s] = "new"
      /\ UNCHANGED <<link, ended, items, read, emitted, toClient>>
      /\ \A t \in Stream : t # s => phase'[t] = phase[t]
  BY DEF Subscribe, ClientInv, TypeOK, bridgeVars
<1>1. ended[s] = "no" /\ items[s] = <<>> /\ \A e \in PartSet(s) : entry[e] = "none" /\ ask[e] = "none"
  BY <1>0 DEF ClientInv, StreamInv, Untouched
<1>2. \A e : Queued(e)' = Queued(e) /\ Coming(e)' = Coming(e)
  BY <1>0 DEF Queued, Coming
<1>3. ASSUME NEW e \in PartSet(s) PROVE Tallied(e)'
  <2>0. e \in Sid /\ StreamOf(e) = s
    BY PartOfStream
  <2>1. emitted[e] = 0 /\ ~Told(AnyKind, e)
    BY <1>1, <2>0 DEF WireInv, PartWire, Unasked
  <2>2. \A i \in DOMAIN toClient : toClient[i].sid # e
    <3>1. toClient \in Seq(FrameSet)
      BY <1>0, WireType
    <3>2. \A i \in DOMAIN toClient : toClient[i] \in FrameSet
      BY <3>1
    <3>3. \A i \in DOMAIN toClient : toClient[i].kind \in AnyKind
      BY <3>2 DEF FrameSet
    <3> QED BY <2>1, <3>3 DEF Told
  <2>3. DOMAIN Coming(e) = {}
    BY <2>2 DEF Coming
  <2>4. DOMAIN Queued(e) = {}
    BY <1>1, <2>0 DEF Queued
  <2>5. read[e] = 0
    <3>1. PICK h \in read[e] .. emitted[e] : Heard(e, h)
      BY <2>0 DEF OrderInv, Tallied
    <3> QED BY <1>0, <2>0, <2>1, <3>1 DEF TypeOK
  <2>6. \A i \in DOMAIN toClient : ~Ends(toClient[i], e)
    BY <2>2 DEF Ends
  <2>7. Heard(e, 0)'
    BY <1>0, <1>2, <2>1, <2>3, <2>4, <2>5, <2>6 DEF Heard, Follows, Reaches
  <2>8. 0 \in read'[e] .. emitted'[e]
    BY <1>0, <2>1, <2>5
  <2>9. \A i \in DOMAIN Coming(e)' : Coming(e)'[i] <= emitted'[e]
    BY <1>2, <2>3
  <2> QED BY <2>7, <2>8, <2>9 DEF Tallied
<1>4. ASSUME NEW e \in Sid, e \notin PartSet(s) PROVE Tallied(e)'
  <2>1. StreamOf(e) \in Stream /\ StreamOf(e) # s
    BY <1>4, StreamOfPart
  <2>2. Hears(e)' => Hears(e)
    BY <1>0, <2>1 DEF Hears, Started
  <2> QED BY <1>0, <1>2, <1>4, <2>2, SameTally DEF OrderInv
<1>5. ASSUME NEW t \in Stream PROVE ToldAll(t)'
  <2>1. CASE t = s
    BY <1>0, <1>1, <2>1 DEF ToldAll
  <2>2. CASE t # s
    <3>1. \A d \in PartSet(t) : d \in Sid /\ d \notin PartSet(s)
      BY <2>2, PartOfStream
    <3>2. \A d \in PartSet(t) : entry'[d] = entry[d]
      BY <3>1 DEF Subscribe
    <3> QED BY <1>0, <1>2, <3>2, SameToldAll DEF OrderInv
  <2> QED BY <2>1, <2>2
<1> QED BY <1>3, <1>4, <1>5 DEF OrderInv

\* The caller takes an event: the count of its part moves on.
LEMMA TakeKeepsOrder ==
  ASSUME ClientInv, OrderInv, NEW s \in Stream, Take(s)
  PROVE  OrderInv'
<1>0. /\ TypeOK /\ items[s] # <<>>
      /\ UNCHANGED <<link, phase, ended, entry, emitted, toClient>>
      /\ items'[s] = Tail(items[s]) /\ \A t \in Stream : t # s => items'[t] = items[t]
  BY DEF Take, ClientInv, TypeOK, bridgeVars, entryVars
<1>1. PICK e \in PartSet(s) : e = Head(items[s])[1]
  <2>1. items[s] \in Seq(PartSet(s) \X Nat)
    BY <1>0 DEF TypeOK
  <2>2. Head(items[s]) \in PartSet(s) \X Nat
    BY <1>0, <2>1, TailFrames
  <2> QED BY <2>2
<1>2. e \in Sid /\ StreamOf(e) = s
  BY PartOfStream
<1>3. read'[e] = read[e] + 1 /\ \A d \in Sid : d # e => read'[d] = read[d]
  BY <1>0, <1>1, <1>2 DEF Take, TypeOK
<1>4. \A d : Coming(d)' = Coming(d)
  BY <1>0 DEF Coming
<1>5. \A d \in Sid : Hears(d)' <=> Hears(d)
  BY <1>0 DEF Hears, Started
<1>6. ASSUME NEW d \in PartSet(s)
      PROVE  /\ d # e => /\ \A m \in Nat : Follows(Queued(d), m) => Follows(Queued(d)', m)
                         /\ \A m, n \in Nat : Reaches(Queued(d), m, n) => Reaches(Queued(d)', m, n)
             /\ d = e => \A m \in Nat :
                  Follows(Queued(d), m) =>
                    /\ Follows(Queued(d)', m + 1)
                    /\ \A n \in Nat : Reaches(Queued(d), m, n) => n > m /\ Reaches(Queued(d)', m + 1, n)
  <2>0. d \in Sid /\ StreamOf(d) = s
    BY PartOfStream
  <2>1. /\ DOMAIN Queued(d) \in SUBSET (Nat \ {0})
        /\ \A i \in DOMAIN Queued(d) : Queued(d)[i] \in Nat
    BY <1>0, <2>0, QueuedType
  <2>2. /\ DOMAIN Queued(d)' \in SUBSET (Nat \ {0})
        /\ \A i \in Nat \ {0} : i \in DOMAIN Queued(d)' <=> i + 1 \in DOMAIN Queued(d)
        /\ \A i \in DOMAIN Queued(d)' : Queued(d)'[i] = Queued(d)[i + 1]
        /\ 1 \in DOMAIN Queued(d) <=> Head(items[s])[1] = d
    BY <1>0, <2>0, QueuedTaken
  <2>3. CASE d # e
    BY <1>1, <2>1, <2>2, <2>3, MovedUp
  <2>4. CASE d = e
    <3>1. 1 \in DOMAIN Queued(d)
      BY <1>1, <2>2, <2>4
    <3> QED BY <2>1, <2>2, <2>4, <3>1, FirstTaken
  <2> QED BY <2>3, <2>4
<1>7. ASSUME NEW d \in PartSet(s) PROVE Tallied(d)'
  <2>0. d \in Sid /\ StreamOf(d) = s /\ read[d] \in Nat /\ emitted[d] \in Nat
    BY <1>0, PartOfStream DEF TypeOK
  <2>1. PICK h \in read[d] .. emitted[d] : Heard(d, h)
    BY <2>0 DEF OrderInv, Tallied
  <2>2. h \in Nat
    BY <2>0, <2>1
  <2>3. Follows(Queued(d), read[d]) /\ Reaches(Queued(d), read[d], h)
    BY <2>1 DEF Heard
  <2>4. /\ Follows(Queued(d)', read'[d]) /\ Reaches(Queued(d)', read'[d], h)
        /\ h \in read'[d] .. emitted'[d]
    <3>1. PICK r \in Nat, k \in Nat : r = read[d] /\ k = h
      BY <2>0, <2>2
    <3>2. CASE d # e
      BY <1>0, <1>3, <1>6, <2>0, <2>1, <2>3, <3>1, <3>2
    <3>3. CASE d = e
      <4>1. Follows(Queued(d), r) /\ Reaches(Queued(d), r, k)
        BY <2>3, <3>1
      <4>2. Follows(Queued(d)', r + 1) /\ k > r /\ Reaches(Queued(d)', r + 1, k)
        BY <1>6, <3>3, <4>1
      <4>3. read'[d] = r + 1
        BY <1>3, <3>1, <3>3
      <4> QED BY <1>0, <2>0, <2>1, <3>1, <4>2, <4>3
    <3> QED BY <3>2, <3>3
  <2>5. Heard(d, h)'
    BY <1>0, <1>4, <1>5, <2>0, <2>1, <2>4 DEF Heard
  <2>6. \A i \in DOMAIN Coming(d)' : Coming(d)'[i] <= emitted'[d]
    BY <1>0, <1>4, <2>0 DEF OrderInv, Tallied
  <2> QED BY <2>4, <2>5, <2>6 DEF Tallied
<1>8. ASSUME NEW d \in Sid, d \notin PartSet(s) PROVE Tallied(d)'
  <2>1. StreamOf(d) \in Stream /\ StreamOf(d) # s /\ d # e
    BY <1>1, <1>8, StreamOfPart
  <2>2. Queued(d)' = Queued(d)
    BY <1>0, <2>1, QueuedSame
  <2> QED BY <1>0, <1>3, <1>4, <1>5, <2>1, <2>2, SameTally DEF OrderInv
<1>9. ASSUME NEW t \in Stream PROVE ToldAll(t)'
  <2>1. CASE t # s
    <3>1. \A d \in PartSet(t) : d \in Sid /\ StreamOf(d) = t /\ d # e
      BY <1>1, <2>1, PartOfStream
    <3>2. \A d \in PartSet(t) : Queued(d)' = Queued(d) /\ read'[d] = read[d]
      BY <1>0, <1>3, <2>1, <3>1, QueuedSame
    <3> QED BY <1>0, <3>2, SameToldAll DEF OrderInv
  <2>2. ASSUME t = s, ended[s] = "terminated"
        PROVE  \E d \in PartSet(s) : entry[d] = "terminated" /\ Reaches(Queued(d)', read'[d], emitted[d])
    <3>1. PICK d \in PartSet(s) : entry[d] = "terminated" /\ Reaches(Queued(d), read[d], emitted[d])
      BY <2>2 DEF OrderInv, ToldAll
    <3>2. d \in Sid /\ read[d] \in Nat /\ emitted[d] \in Nat
      BY <1>0, PartOfStream DEF TypeOK
    <3>3. PICK r \in Nat, k \in Nat : r = read[d] /\ k = emitted[d]
      BY <3>2
    <3>4. Follows(Queued(d), r) /\ Reaches(Queued(d), r, k)
      BY <3>1, <3>2, <3>3 DEF OrderInv, Tallied, Heard
    <3>5. CASE d # e
      <4>1. Reaches(Queued(d)', r, k)
        BY <1>6, <3>4, <3>5
      <4> QED BY <1>3, <3>1, <3>2, <3>3, <3>5, <4>1
    <3>6. CASE d = e
      <4>1. Reaches(Queued(d)', r + 1, k)
        BY <1>6, <3>4, <3>6
      <4> QED BY <1>3, <3>1, <3>2, <3>3, <3>6, <4>1
    <3> QED BY <3>5, <3>6
  <2> QED BY <1>0, <2>1, <2>2 DEF ToldAll
<1> QED BY <1>7, <1>8, <1>9 DEF OrderInv

\* A stream that is ended here did not end by a termination.
LEMMA EndedByClient ==
  ASSUME TypeOK, NEW s \in Stream, ended' = End(s, "client")
  PROVE  \A t \in Stream : /\ ended'[t] = "no" => ended[t] = "no"
                           /\ ended'[t] = "terminated" => ended[t] = "terminated"
<1>1. /\ ended'[s] = IF ended[s] = "no" THEN "client" ELSE ended[s]
      /\ \A t \in Stream : t # s => ended'[t] = ended[t]
  BY EndType
<1> QED BY <1>1

\* Parts are let go, doomed or given up; what was terminated stays so.
LEMMA AbortKeepsOrder ==
  ASSUME ClientInv, OrderInv, NEW s \in Stream, phase[s] = "asking", NEW c \in PartSet(s), NEW unsure,
         NEW ent \in [Sid -> EntryState], Abort(s, c, ent, unsure),
         \A e \in Sid : entry[e] = "terminated" => ent[e] = "terminated",
         UNCHANGED <<link, items, read, emitted, toClient>>
  PROVE  OrderInv'
<1>0. TypeOK
  BY DEF ClientInv
<1>1. ended' = End(s, "client") /\ phase' = [phase EXCEPT ![s] = "failed"]
  BY DEF Abort
<1>2. \A t \in Stream : /\ ended'[t] = "no" => ended[t] = "no"
                        /\ ended'[t] = "terminated" => ended[t] = "terminated"
  BY <1>0, <1>1, EndedByClient
<1>3. \A t \in Stream : Started(t)' => Started(t)
  BY <1>0, <1>1 DEF TypeOK, Started
<1>4. \A e \in Sid :
        entry'[e] = IF e = c /\ unsure /\ ent[e] \in {"pending", "doomed"} THEN "zombie"
                    ELSE IF e \in PartSet(s) /\ ent[e] = "active" THEN "released"
                    ELSE IF e \in PartSet(s) /\ ent[e] \in {"pending", "doomed"} THEN "failed"
                    ELSE ent[e]
  BY <1>0, AbortSettles
<1>5. \A e \in Sid : entry[e] = "terminated" => entry'[e] = "terminated"
  BY <1>4
<1> QED BY <1>2, <1>3, <1>5, IdleKeepsOrder

LEMMA HandKeepsOrder ==
  ASSUME ClientInv, OrderInv, NEW s \in Stream, Hand(s)
  PROVE  OrderInv'
<1>0. /\ TypeOK /\ phase[s] = "asking" /\ phase' = [phase EXCEPT ![s] = "handed"]
      /\ UNCHANGED <<link, ended, items, read, emitted, toClient>>
  BY DEF Hand, ClientInv, bridgeVars
<1>1. \A t \in Stream : Started(t)' => Started(t)
  BY <1>0 DEF TypeOK, Started
<1>2. ASSUME NEW e \in Sid, entry[e] = "terminated" PROVE entry'[e] = "terminated"
  <2>1. e \notin Skipped(s)
    BY <1>2 DEF Skipped
  <2>2. Acked(s)[e] = "terminated"
    BY <1>0, <1>2, AckedType
  <2> QED BY <2>1, <2>2 DEF Hand
<1> QED BY <1>0, <1>1, <1>2, IdleKeepsOrder

LEMMA AskNextKeepsOrder ==
  ASSUME ClientInv, OrderInv, NEW s \in Stream, AskNext(s)
  PROVE  OrderInv'
<1>0. phase[s] = "asking" /\ UNCHANGED <<link, items, read, emitted, toClient>>
  BY DEF AskNext, bridgeVars
<1>1. /\ Acked(s) \in [Sid -> EntryState]
      /\ \A e \in Sid : entry[e] = "terminated" => Acked(s)[e] = "terminated"
  BY <1>0, AckedType
<1>2. CASE UNCHANGED <<phase, ended>> /\ entry' = Acked(s)
  <2>1. \A t \in Stream : Started(t)' => Started(t)
    BY <1>2 DEF Started
  <2> QED BY <1>0, <1>1, <1>2, <2>1, IdleKeepsOrder
<1>3. ASSUME NEW c \in PartSet(s), Abort(s, c, Acked(s), FALSE) PROVE OrderInv'
  BY <1>0, <1>1, <1>3, AbortKeepsOrder
<1>4. \/ UNCHANGED <<phase, ended>> /\ entry' = Acked(s)
      \/ \E c \in PartSet(s) : Abort(s, c, Acked(s), FALSE)
  <2>1. PICK i : /\ i = CHOOSE j \in StillPending(s) : \A k \in StillPending(s) : j <= k
                 /\ \/ UNCHANGED <<phase, ended>> /\ entry' = Acked(s)
                    \/ Abort(s, Parts[s][i], Acked(s), FALSE)
    BY DEF AskNext
  <2>2. i \in StillPending(s)
    BY <1>0, <2>1, NextPartIsFirst DEF AskNext
  <2> QED BY <2>1, <2>2, PartOfStream DEF StillPending
<1> QED BY <1>2, <1>3, <1>4

LEMMA AskFailsKeepsOrder ==
  ASSUME ClientInv, OrderInv, NEW s \in Stream, AskFails(s)
  PROVE  OrderInv'
<1>0. phase[s] = "asking" /\ UNCHANGED <<link, items, read, emitted, toClient>>
  BY DEF AskFails, bridgeVars
<1>1. Current(s) \in PartSet(s)
  BY <1>0, CurrentPart
<1>2. PICK unsure : Abort(s, Current(s), entry, unsure)
  BY DEF AskFails
<1>3. entry \in [Sid -> EntryState]
  BY DEF ClientInv, TypeOK
<1> QED BY <1>0, <1>1, <1>2, <1>3, AbortKeepsOrder

LEMMA ClosingKeepsOrder ==
  ASSUME ClientInv, OrderInv, NEW s \in Stream, Unsubscribe(s) \/ CancelStream(s)
  PROVE  OrderInv'
<1>0. /\ TypeOK /\ ended' = End(s, "client") /\ entry' = Detach(s)
      /\ UNCHANGED <<link, phase, items, read, emitted, toClient>>
  BY DEF Unsubscribe, CancelStream, ClientInv, bridgeVars
<1>1. \A t \in Stream : /\ ended'[t] = "no" => ended[t] = "no"
                        /\ ended'[t] = "terminated" => ended[t] = "terminated"
  BY <1>0, EndedByClient
<1>2. \A t \in Stream : Started(t)' => Started(t)
  BY <1>0 DEF Started
<1>3. \A e \in Sid : entry[e] = "terminated" => entry'[e] = "terminated"
  BY <1>0 DEF Detach
<1> QED BY <1>0, <1>1, <1>2, <1>3, IdleKeepsOrder

\* The steps that end no stream and settle no part.
LEMMA StepsAsideKeepOrder ==
  ASSUME ClientInv, OrderInv,
         \/ \E s \in Stream : \/ AskTimesOut(s) \/ CancelSubscribe(s)
                              \/ UnsubscribeReturns(s) \/ CancelUnsubscribe(s)
         \/ \E e \in Sid : ReleaseStarts(e) \/ ReleaseReturns(e)
         \/ AClose
         \/ UNCHANGED vars
  PROVE  OrderInv'
<1>1. UNCHANGED <<link, phase, ended, entry, items, read, emitted, toClient>>
  BY DEF AskTimesOut, CancelSubscribe, UnsubscribeReturns, CancelUnsubscribe, ReleaseStarts,
         ReleaseReturns, AClose, vars, streamVars, entryVars, bridgeVars
<1>2. \A s \in Stream : Started(s)' => Started(s)
  BY <1>1 DEF Started
<1> QED BY <1>1, <1>2, IdleKeepsOrder

LEMMA ReaderEndsKeepsOrder ==
  ASSUME OrderInv, ReaderEnds
  PROVE  OrderInv'
<1>1. UNCHANGED <<link, phase, items, read, emitted, toClient>>
  BY DEF ReaderEnds, bridgeVars
<1>2. \A s \in Stream : /\ Started(s)' => Started(s)
                        /\ ended'[s] = "no" => ended[s] = "no"
                        /\ ended'[s] = "terminated" => ended[s] = "terminated"
  BY <1>1 DEF ReaderEnds, Started
<1>3. \A e \in Sid : entry[e] = "terminated" => entry'[e] = "terminated"
  BY DEF ReaderEnds
<1> QED BY <1>1, <1>2, <1>3, IdleKeepsOrder

-------------------------------------------------------------------------------
(* The reader counts *)

\* A frame that is no event, and no termination.
LEMMA AnswerKeepsOrder ==
  ASSUME ClientInv, OrderInv, Receive, Head(toClient).kind # "event", RouteAnswer(Head(toClient))
  PROVE  OrderInv'
<1>0. TypeOK
  BY DEF ClientInv
<1>1. /\ toClient # <<>> /\ toClient' = Tail(toClient)
      /\ UNCHANGED <<link, phase, ended, entry, items, read, emitted>>
  BY <1>0, ReadsFrame DEF RouteAnswer
<1>2. ASSUME NEW e \in Sid PROVE Queued(e)' = Queued(e) /\ Tallied(e)'
  <2>1. Hears(e)' <=> Hears(e)
    BY <1>1 DEF Hears, Started
  <2>2. Queued(e)' = Queued(e)
    BY <1>1, QueuedSame
  <2>3. Tallied(e)
    BY DEF OrderInv
  <2> QED BY <1>0, <1>1, <2>1, <2>2, <2>3, ReadTally
<1>3. ASSUME NEW s \in Stream PROVE ToldAll(s)'
  BY <1>1, <1>2, PartOfStream, SameToldAll DEF OrderInv
<1> QED BY <1>2, <1>3 DEF OrderInv

\* An event is pushed, or finds its stream ended, or ends it.
LEMMA EventKeepsOrder ==
  ASSUME ClientInv, OrderInv, Receive, Head(toClient).kind = "event", RouteEvent(Head(toClient))
  PROVE  OrderInv'
<1>0. TypeOK
  BY DEF ClientInv
<1>1. /\ toClient # <<>> /\ toClient' = Tail(toClient)
      /\ UNCHANGED <<link, phase, read, emitted>>
  BY <1>0, ReadsFrame
<1>2. PICK e \in Sid, s \in Stream, n \in Nat :
        e = Head(toClient).sid /\ s = StreamOf(e) /\ n = Head(toClient).n /\ e \in PartSet(s)
  BY <1>0, ReadsFrame DEF FrameSet
<1>3. \/ /\ e \notin routed \/ entry[e] \notin Live \/ ended[s] # "no"
         /\ UNCHANGED <<entry, ended, items>>
      \/ /\ ended' = End(s, "overflow") /\ entry' = Detach(s) /\ ended[s] = "no"
         /\ UNCHANGED items
      \/ /\ entry[e] \in Live
         /\ items' = [items EXCEPT ![s] = Append(@, <<e, n>>)]
         /\ UNCHANGED <<entry, ended>>
  BY <1>2 DEF RouteEvent
<1>4. CASE \/ /\ e \notin routed \/ entry[e] \notin Live \/ ended[s] # "no"
              /\ UNCHANGED <<entry, ended, items>>
           \/ /\ ended' = End(s, "overflow") /\ entry' = Detach(s) /\ ended[s] = "no"
              /\ UNCHANGED items
  <2>1. /\ \A t \in Stream : /\ ended'[t] = "no" => ended[t] = "no"
                             /\ ended'[t] = "terminated" => ended[t] = "terminated"
        /\ UNCHANGED items
        /\ Hears(e)' => FALSE
    <3>1. CASE /\ e \notin routed \/ entry[e] \notin Live \/ ended[s] # "no"
               /\ UNCHANGED <<entry, ended, items>>
      BY <1>1, <1>2, <3>1 DEF ClientInv, StreamInv, Routing, Hears, Started
    <3>2. CASE /\ ended' = End(s, "overflow") /\ entry' = Detach(s) /\ ended[s] = "no"
               /\ UNCHANGED items
      <4>1. /\ ended'[s] = IF ended[s] = "no" THEN "overflow" ELSE ended[s]
            /\ \A t \in Stream : t # s => ended'[t] = ended[t]
        BY <1>0, <3>2, EndType
      <4> QED BY <1>2, <3>2, <4>1 DEF Hears
    <3> QED BY <1>4, <3>1, <3>2
  <2>2. \A d \in Sid : entry[d] = "terminated" => entry'[d] = "terminated"
    BY <1>4 DEF Detach
  <2>3. ASSUME NEW d \in Sid PROVE Queued(d)' = Queued(d) /\ Tallied(d)'
    <3>1. Hears(d)' => Hears(d) /\ ~(Head(toClient).kind = "event" /\ Head(toClient).sid = d)
      BY <1>1, <1>2, <2>1, StreamOfPart DEF Hears, Started
    <3>2. Queued(d)' = Queued(d)
      BY <2>1, QueuedSame
    <3>3. Tallied(d)
      BY DEF OrderInv
    <3> QED BY <1>0, <1>1, <3>1, <3>2, <3>3, ReadTally
  <2>4. ASSUME NEW t \in Stream PROVE ToldAll(t)'
    BY <1>1, <2>1, <2>2, <2>3, PartOfStream, SameToldAll DEF OrderInv
  <2> QED BY <2>3, <2>4 DEF OrderInv
<1>5. CASE /\ entry[e] \in Live
           /\ items' = [items EXCEPT ![s] = Append(@, <<e, n>>)]
           /\ UNCHANGED <<entry, ended>>
  <2>1. Pushed(s, e, n) /\ \A t \in Stream : t # s => items'[t] = items[t]
    BY <1>0, <1>5 DEF TypeOK, Pushed
  <2>2. Hears(e) /\ ended[s] = "no"
    BY <1>2, <1>5, LiveMeans DEF Hears, Started
  <2>3. \A d \in Sid : Hears(d)' <=> Hears(d)
    BY <1>1, <1>5 DEF Hears, Started
  <2>4. ASSUME NEW d \in Sid, d # e PROVE Queued(d)' = Queued(d)
    <3>1. CASE StreamOf(d) = s
      BY <1>0, <2>1, <2>4, <3>1, QueuedAdded
    <3>2. CASE StreamOf(d) # s
      BY <2>1, <3>2, StreamOfPart, QueuedSame
    <3> QED BY <3>1, <3>2
  <2>5. ASSUME NEW d \in Sid PROVE Tallied(d)'
    <3>0. Tallied(d) /\ read'[d] = read[d] /\ emitted'[d] = emitted[d] /\ link' = link
      BY <1>1 DEF OrderInv
    <3>1. CASE d = e
      <4>1. Pushed(StreamOf(d), d, Head(toClient).n) /\ Head(toClient).sid = d /\ Hears(d)
        BY <1>2, <2>1, <2>2, <3>1
      <4> QED BY <1>0, <1>1, <3>0, <4>1, PushTally
    <3>2. CASE d # e
      <4>1. Queued(d)' = Queued(d)
        BY <2>4, <3>2
      <4>2. Hears(d)' => Hears(d) /\ ~(Head(toClient).kind = "event" /\ Head(toClient).sid = d)
        BY <1>2, <2>3, <3>2
      <4> QED BY <1>0, <1>1, <3>0, <4>1, <4>2, ReadTally
    <3> QED BY <3>1, <3>2
  <2>6. ASSUME NEW t \in Stream PROVE ToldAll(t)'
    <3>1. CASE t = s
      BY <1>5, <2>2, <3>1 DEF ToldAll
    <3>2. CASE t # s
      <4>1. \A d \in PartSet(t) : d \in Sid /\ d # e
        BY <1>2, <3>2, PartOfStream
      <4> QED BY <1>1, <1>5, <2>4, <4>1, SameToldAll DEF OrderInv
    <3> QED BY <3>1, <3>2
  <2> QED BY <2>5, <2>6 DEF OrderInv
<1> QED BY <1>3, <1>4, <1>5

\* Nothing was emitted for the part after its termination: if the stream
\* lives, all of it is in the queue.
LEMMA TerminationKeepsOrder ==
  ASSUME ClientInv, OrderInv, Receive, Head(toClient).kind = "terminated",
         RouteTermination(Head(toClient))
  PROVE  OrderInv'
<1>0. TypeOK
  BY DEF ClientInv
<1>1. /\ toClient # <<>> /\ toClient' = Tail(toClient) /\ toClient \in Seq(FrameSet)
      /\ Head(toClient) \in FrameSet
      /\ UNCHANGED <<link, phase, read, emitted, items>>
  BY <1>0, ReadsFrame, WireType DEF RouteTermination
<1>2. PICK e \in Sid, s \in Stream :
        e = Head(toClient).sid /\ s = StreamOf(e) /\ e \in PartSet(s)
  BY <1>0, ReadsFrame
<1>3. \/ UNCHANGED <<entry, ended>>
      \/ entry' = [entry EXCEPT ![e] = "terminated"] /\ ended' = ended
      \/ /\ e \in routed /\ ended' = End(s, "terminated")
         /\ entry' = [Detach(s) EXCEPT ![e] = "terminated"]
  BY <1>2 DEF RouteTermination
<1>4. /\ \A d \in Sid : entry[d] = "terminated" => entry'[d] = "terminated"
      /\ ended' = ended \/ entry'[e] = "terminated"
  <2>1. CASE UNCHANGED <<entry, ended>>
    BY <2>1
  <2>2. CASE entry' = [entry EXCEPT ![e] = "terminated"] /\ ended' = ended
    BY <1>0, <2>2 DEF TypeOK
  <2>3. CASE entry' = [Detach(s) EXCEPT ![e] = "terminated"]
    <3>1. Detach(s) \in [Sid -> EntryState]
      BY <1>0, DetachType
    <3>2. \A d \in Sid : entry[d] = "terminated" => Detach(s)[d] = "terminated"
      BY DEF Detach
    <3> QED BY <2>3, <3>1, <3>2
  <2> QED BY <1>3, <2>1, <2>2, <2>3
<1>5. /\ \A t \in Stream : ended'[t] = "no" => ended[t] = "no"
      /\ \A t \in Stream : t # s => ended'[t] = ended[t]
      /\ ended[s] # "no" => ended'[s] = ended[s]
  <2>1. CASE ended' = ended
    BY <2>1
  <2>2. CASE ended' = End(s, "terminated")
    <3>1. /\ End(s, "terminated")[s] = IF ended[s] = "no" THEN "terminated" ELSE ended[s]
          /\ \A t \in Stream : t # s => End(s, "terminated")[t] = ended[t]
      BY <1>0, EndType
    <3> QED BY <2>2, <3>1
  <2> QED BY <1>3, <2>1, <2>2
<1>6. ASSUME NEW d \in Sid PROVE Queued(d)' = Queued(d) /\ Tallied(d)'
  <2>1. Hears(d)' => Hears(d)
    BY <1>1, <1>5, StreamOfPart DEF Hears, Started
  <2>2. Queued(d)' = Queued(d)
    BY <1>1, QueuedSame
  <2>3. Tallied(d)
    BY DEF OrderInv
  <2> QED BY <1>0, <1>1, <2>1, <2>2, <2>3, ReadTally
<1>7. ASSUME ended[s] = "no", ended'[s] = "terminated" PROVE ToldAll(s)'
  <2>1. e \in routed /\ entry'[e] = "terminated"
    BY <1>3, <1>4, <1>7
  <2>2. Hears(e)
    <3>1. phase[s] \notin {"new", "failed"}
      BY <1>2, <1>7, <2>1 DEF ClientInv, StreamInv, Untouched, Routing
    <3>2. phase[s] \in {"new", "asking", "handed", "failed"}
      BY <1>0 DEF TypeOK
    <3> QED BY <1>2, <1>7, <3>1, <3>2 DEF Hears, Started
  <2>3. 1 \in DOMAIN toClient /\ toClient[1] = Head(toClient)
    BY <1>1, TailIndex
  <2>4. PICK h \in read[e] .. emitted[e] : Heard(e, h)
    BY DEF OrderInv, Tallied
  <2>5. \A i \in DOMAIN toClient : Ends(toClient[i], e) =>
          h = emitted[e] \/ \E j \in DOMAIN Coming(e) : j < i /\ Coming(e)[j] = emitted[e]
    BY <2>2, <2>4 DEF Heard
  <2>6. DOMAIN Coming(e) \subseteq Nat \ {0}
    BY <1>0, ComingType
  <2>7. h = emitted[e]
    <3>1. Ends(toClient[1], e)
      BY <1>2, <2>3 DEF Ends
    <3> QED BY <2>3, <2>5, <2>6, <3>1
  <2>8. Reaches(Queued(e), read[e], emitted[e])
    BY <2>4, <2>7 DEF Heard
  <2> QED BY <1>1, <1>2, <1>6, <2>1, <2>8 DEF ToldAll
<1>8. ASSUME NEW t \in Stream, t # s \/ ended[s] # "no" PROVE ToldAll(t)'
  <2>1. ended'[t] = ended[t]
    BY <1>5, <1>8
  <2>2. \A d \in PartSet(t) : /\ entry[d] = "terminated" => entry'[d] = "terminated"
                              /\ Queued(d)' = Queued(d)
                              /\ read'[d] = read[d] /\ emitted'[d] = emitted[d]
    BY <1>1, <1>4, <1>6, PartOfStream
  <2>3. ToldAll(t)
    BY DEF OrderInv
  <2> QED BY <2>1, <2>2, <2>3, SameToldAll
<1>9. ASSUME NEW t \in Stream PROVE ToldAll(t)'
  BY <1>7, <1>8 DEF ToldAll
<1> QED BY <1>6, <1>9 DEF OrderInv

-------------------------------------------------------------------------------
(* The bridge and the socket count *)

\* The bridge tells something else than an event.
LEMMA ToldKeepsOrder ==
  ASSUME ClientInv, OrderInv, NEW e \in Sid, NEW f, f.sid = e, f.kind # "event",
         toClient' = Append(toClient, f), f.kind = "terminated" => link = "up",
         UNCHANGED <<link, phase, ended, entry, items, read, emitted>>
  PROVE  OrderInv'
<1>0. TypeOK /\ toClient \in Seq(FrameSet)
  BY WireType DEF ClientInv
<1>1. /\ DOMAIN toClient' = DOMAIN toClient \cup {Len(toClient) + 1}
      /\ \A i \in DOMAIN toClient : toClient'[i] = toClient[i]
      /\ toClient'[Len(toClient) + 1] = f
  BY <1>0, AppendIndex
<1>2. ASSUME NEW d \in Sid PROVE Queued(d)' = Queued(d) /\ Tallied(d)'
  <2>1. Queued(d)' = Queued(d) /\ Coming(d)' = Coming(d)
    BY <1>0, ComingAdded, QueuedSame
  <2>2. \A i \in DOMAIN Coming(d) : i < Len(toClient) + 1
    BY <1>0, ComingAdded
  <2>3. PICK h \in read[d] .. emitted[d] : Heard(d, h)
    BY DEF OrderInv, Tallied
  <2>4. Hears(d)' <=> Hears(d)
    BY DEF Hears, Started
  <2>5. ASSUME Hears(d), NEW i \in DOMAIN toClient', Ends(toClient'[i], d), h # emitted[d]
        PROVE  \E j \in DOMAIN Coming(d) : j < i /\ Coming(d)[j] = emitted[d]
    <3>1. CASE i \in DOMAIN toClient
      BY <1>1, <2>3, <2>5, <3>1 DEF Heard
    <3>2. CASE i = Len(toClient) + 1
      <4>1. link = "up"
        BY <1>1, <2>5, <3>2 DEF Ends
      <4>2. Reaches(Coming(d), h, emitted[d])
        BY <2>3, <2>5, <4>1 DEF Heard
      <4>3. PICK j \in DOMAIN Coming(d) : Coming(d)[j] = emitted[d]
        BY <2>5, <4>2 DEF Reaches
      <4> QED BY <2>2, <3>2, <4>3
    <3> QED BY <1>1, <3>1, <3>2
  <2>6. Heard(d, h)'
    BY <2>1, <2>3, <2>4, <2>5 DEF Heard
  <2>7. \A i \in DOMAIN Coming(d)' : Coming(d)'[i] <= emitted'[d]
    BY <2>1 DEF OrderInv, Tallied
  <2> QED BY <2>1, <2>3, <2>6, <2>7 DEF Tallied
<1>3. ASSUME NEW s \in Stream PROVE ToldAll(s)'
  BY <1>2, PartOfStream, SameToldAll DEF OrderInv
<1> QED BY <1>2, <1>3 DEF OrderInv

LEMMA BridgeReadsKeepsOrder ==
  ASSUME ClientInv, OrderInv, BridgeReads
  PROVE  OrderInv'
<1>0. /\ TypeOK /\ UNCHANGED <<link, phase, ended, entry, items, read, emitted>>
      /\ toBridge # <<>>
  BY DEF BridgeReads, ClientInv, streamVars, entryVars
<1>1. PICK e \in Sid : e = Head(toBridge).sid
  <2>1. Head(toBridge) \in RequestSet
    BY <1>0, WireType, TailFrames
  <2> QED BY <2>1 DEF RequestSet
<1>2. \/ toClient' = toClient
      \/ \E kind \in {"error", "unsubscribed"} : toClient' = Append(toClient, Frame(kind, e))
  BY <1>1 DEF BridgeReads
<1>3. CASE toClient' = toClient
  <2>1. \A s \in Stream : Started(s)' => Started(s)
    BY <1>0 DEF Started
  <2> QED BY <1>0, <1>3, <2>1, IdleKeepsOrder
<1>4. ASSUME NEW kind \in {"error", "unsubscribed"}, toClient' = Append(toClient, Frame(kind, e))
      PROVE  OrderInv'
  <2>1. PICK f : f = Frame(kind, e)
    OBVIOUS
  <2>2. f.sid = e /\ f.kind # "event" /\ f.kind # "terminated" /\ toClient' = Append(toClient, f)
    BY <1>4, <2>1 DEF Frame
  <2> QED BY <1>0, <2>2, ToldKeepsOrder
<1> QED BY <1>2, <1>3, <1>4

LEMMA BridgeAnswersKeepsOrder ==
  ASSUME ClientInv, OrderInv, NEW e \in Sid, BridgeAnswers(e)
  PROVE  OrderInv'
<1>0. UNCHANGED <<link, phase, ended, entry, items, read, emitted>>
  BY DEF BridgeAnswers, streamVars, entryVars
<1>1. PICK f : f \in {Frame("ack", e), Frame("error", e)} /\ toClient' = Append(toClient, f)
  BY DEF BridgeAnswers
<1>2. f.sid = e /\ f.kind # "event" /\ f.kind # "terminated"
  BY <1>1 DEF Frame
<1> QED BY <1>0, <1>1, <1>2, ToldKeepsOrder

\* The bridge terminates a part on a socket that is up: all that it emitted
\* for it is on its way, or has arrived.
LEMMA TerminateKeepsOrder ==
  ASSUME ClientInv, WireInv, OrderInv, NEW e \in Sid, Terminate(e)
  PROVE  OrderInv'
<1>0. UNCHANGED <<link, phase, ended, entry, items, read, emitted>>
  BY DEF Terminate, streamVars, entryVars
<1>1. PICK f : f = Frame("terminated", e) /\ toClient' = Append(toClient, f)
  BY DEF Terminate
<1>2. f.sid = e /\ f.kind # "event"
  BY <1>1 DEF Frame
<1>3. link = "up"
  BY DEF Terminate, WireInv, DeadLink, ClientInv, TypeOK
<1> QED BY <1>0, <1>1, <1>2, <1>3, ToldKeepsOrder

\* The bridge emits the next event of a part that it has not dropped.
LEMMA EmitKeepsOrder ==
  ASSUME ClientInv, WireInv, OrderInv, NEW e \in Sid, Emit(e)
  PROVE  OrderInv'
<1>0. /\ TypeOK /\ toClient \in Seq(FrameSet) /\ emitted[e] \in Nat /\ e \in held
      /\ UNCHANGED <<link, phase, ended, entry, items, read>>
      /\ emitted'[e] = emitted[e] + 1 /\ \A d \in Sid : d # e => emitted'[d] = emitted[d]
  BY WireType DEF Emit, ClientInv, TypeOK, streamVars, entryVars
<1>1. PICK f : f = EventFrame(e, emitted[e] + 1) /\ toClient' = Append(toClient, f)
  BY DEF Emit
<1>2. f.sid = e /\ f.kind = "event" /\ f.n = emitted[e] + 1
  BY <1>1 DEF EventFrame
<1>3. ~Told(Last, e) /\ entry[e] # "terminated" /\ link = "up"
  BY <1>0 DEF WireInv, PartWire, Final, Away, DeadLink, TypeOK
<1>4. /\ DOMAIN toClient' = DOMAIN toClient \cup {Len(toClient) + 1}
      /\ \A i \in DOMAIN toClient : toClient'[i] = toClient[i]
      /\ toClient'[Len(toClient) + 1] = f
  BY <1>0, <1>1, AppendIndex
<1>5. \A d \in Sid : Queued(d)' = Queued(d) /\ (Hears(d)' <=> Hears(d))
  BY <1>0, QueuedSame DEF Hears, Started
<1>6. ASSUME NEW d \in Sid, d # e PROVE Tallied(d)'
  <2>1. Coming(d)' = Coming(d)
    BY <1>0, <1>1, <1>2, <1>6, ComingAdded
  <2>2. \A i \in DOMAIN toClient' : Ends(toClient'[i], d) =>
          i \in DOMAIN toClient /\ Ends(toClient[i], d)
    BY <1>2, <1>4 DEF Ends
  <2>3. Tallied(d)
    BY DEF OrderInv
  <2> QED BY <1>0, <1>5, <1>6, <2>1, <2>2, <2>3, SameTally
<1>7. Tallied(e)'
  <2>1. PICK h \in read[e] .. emitted[e] : Heard(e, h)
    BY DEF OrderInv, Tallied
  <2>2. h \in Nat /\ h \in read'[e] .. emitted'[e]
    BY <1>0, <2>1 DEF TypeOK
  <2>3. /\ DOMAIN Coming(e)' = DOMAIN Coming(e) \cup {Len(toClient) + 1}
        /\ Coming(e)'[Len(toClient) + 1] = f.n
        /\ \A i \in DOMAIN Coming(e) : Coming(e)'[i] = Coming(e)[i]
        /\ Len(toClient) + 1 \in Nat
        /\ \A i \in DOMAIN Coming(e) : i < Len(toClient) + 1
    BY <1>0, <1>1, <1>2, ComingAdded
  <2>4. /\ DOMAIN Coming(e) \in SUBSET (Nat \ {0})
        /\ \A i \in DOMAIN Coming(e) : Coming(e)[i] \in Nat
    BY <1>0, ComingType
  <2>5. \A i \in DOMAIN Coming(e)' : Coming(e)'[i] <= emitted'[e]
    <3>1. \A i \in DOMAIN Coming(e) : Coming(e)[i] <= emitted[e]
      BY DEF OrderInv, Tallied
    <3> QED BY <1>0, <1>2, <2>3, <2>4, <3>1
  <2>6. \A i \in DOMAIN toClient' : ~Ends(toClient'[i], e)
    <3>1. \A i \in DOMAIN toClient : ~Ends(toClient[i], e)
      BY <1>3 DEF Told, Last, Ends
    <3> QED BY <1>2, <1>4, <3>1 DEF Ends
  <2>7. ASSUME Hears(e) PROVE Follows(Coming(e)', h) /\ Reaches(Coming(e)', h, emitted'[e])
    <3>1. PICK num, more : num = Coming(e) /\ more = Coming(e)'
      OBVIOUS
    <3>2. PICK n \in Nat, p \in Nat : n = emitted[e] /\ p = Len(toClient) + 1
      BY <1>0, <2>3
    <3>3. /\ DOMAIN num \in SUBSET Nat /\ \A i \in DOMAIN num : num[i] \in Nat
          /\ Follows(num, h) /\ Reaches(num, h, n)
      BY <1>3, <2>1, <2>4, <2>7, <3>1, <3>2 DEF Heard
    <3>4. /\ \A i \in DOMAIN num : i < p
          /\ DOMAIN more = DOMAIN num \cup {p} /\ more[p] = n + 1
          /\ \A i \in DOMAIN num : more[i] = num[i]
      BY <1>2, <2>3, <3>1, <3>2
    <3>5. Follows(more, h) /\ Reaches(more, h, n + 1)
      BY <2>2, <3>2, <3>3, <3>4, NumberAdded
    <3> QED BY <1>0, <3>1, <3>2, <3>5
  <2>8. Heard(e, h)'
    BY <1>0, <1>5, <2>1, <2>6, <2>7 DEF Heard
  <2> QED BY <2>2, <2>5, <2>8 DEF Tallied
<1>8. ASSUME NEW s \in Stream PROVE ToldAll(s)'
  <2>1. \A d \in PartSet(s) : d \in Sid /\ (entry[d] = "terminated" => d # e)
    BY <1>3, PartOfStream
  <2>2. \A d \in PartSet(s) : /\ entry[d] = "terminated" => entry'[d] = "terminated"
                              /\ Queued(d)' = Queued(d) /\ read'[d] = read[d]
                              /\ entry[d] = "terminated" => emitted'[d] = emitted[d]
    BY <1>0, <1>5, <2>1
  <2> QED BY <1>0, <2>2, SameToldAll DEF OrderInv
<1> QED BY <1>6, <1>7, <1>8 DEF OrderInv

\* The socket goes down: the frames that are lost are the last ones.
LEMMA LinkDownKeepsOrder ==
  ASSUME ClientInv, OrderInv, LinkDown
  PROVE  OrderInv'
<1>0. /\ TypeOK /\ toClient \in Seq(FrameSet) /\ link' = "down"
      /\ UNCHANGED <<phase, ended, entry, items, read, emitted>>
  BY WireType DEF LinkDown, ClientInv, streamVars, entryVars
<1>1. PICK n \in 0 .. Len(toClient) : toClient' = SubSeq(toClient, 1, n)
  BY DEF LinkDown
<1>2. /\ DOMAIN toClient' = {i \in DOMAIN toClient : i <= n}
      /\ \A i \in DOMAIN toClient' : toClient'[i] = toClient[i]
      /\ DOMAIN toClient \subseteq Nat
  BY <1>0, <1>1, PrefixIndex
<1>3. ASSUME NEW e \in Sid PROVE Queued(e)' = Queued(e) /\ Tallied(e)'
  <2>1. Queued(e)' = Queued(e) /\ (Hears(e)' <=> Hears(e))
    BY <1>0, QueuedSame DEF Hears, Started
  <2>2. PICK h \in read[e] .. emitted[e] : Heard(e, h)
    BY DEF OrderInv, Tallied
  <2>3. h \in Nat
    BY <1>0, <2>2 DEF TypeOK
  <2>4. /\ DOMAIN Coming(e)' = {i \in DOMAIN Coming(e) : i <= n}
        /\ \A i \in DOMAIN Coming(e)' : Coming(e)'[i] = Coming(e)[i]
    BY <1>0, <1>1, ComingCut
  <2>5. DOMAIN Coming(e) \in SUBSET (Nat \ {0})
    BY <1>0, ComingType
  <2>6. ASSUME Hears(e) PROVE Follows(Coming(e)', h)
    <3>1. Follows(Coming(e), h)
      BY <2>2, <2>6 DEF Heard
    <3>2. DOMAIN Coming(e) \in SUBSET Nat /\ n \in Nat
      BY <1>0, <1>1, <2>5
    <3> QED BY <2>3, <2>4, <3>1, <3>2, CutOff
  <2>7. ASSUME Hears(e), NEW i \in DOMAIN toClient', Ends(toClient'[i], e), h # emitted[e]
        PROVE  \E j \in DOMAIN Coming(e)' : j < i /\ Coming(e)'[j] = emitted[e]
    <3>1. i \in DOMAIN toClient /\ i <= n /\ Ends(toClient[i], e)
      BY <1>2, <2>7
    <3>2. PICK j \in DOMAIN Coming(e) : j < i /\ Coming(e)[j] = emitted[e]
      BY <2>2, <2>7, <3>1 DEF Heard
    <3>3. j <= n
      BY <1>0, <1>1, <1>2, <2>5, <3>1, <3>2
    <3> QED BY <2>4, <3>2, <3>3
  <2>8. Heard(e, h)'
    BY <1>0, <2>1, <2>2, <2>6, <2>7 DEF Heard
  <2>9. \A i \in DOMAIN Coming(e)' : Coming(e)'[i] <= emitted'[e]
    BY <1>0, <2>4 DEF OrderInv, Tallied
  <2> QED BY <1>0, <2>1, <2>2, <2>8, <2>9 DEF Tallied
<1>4. ASSUME NEW s \in Stream PROVE ToldAll(s)'
  BY <1>0, <1>3, PartOfStream, SameToldAll DEF OrderInv
<1> QED BY <1>3, <1>4 DEF OrderInv

-------------------------------------------------------------------------------
(* The order holds *)

LEMMA OrderInit == Init => OrderInv
<1> SUFFICES ASSUME Init PROVE OrderInv
  OBVIOUS
<1>1. ASSUME NEW e \in Sid PROVE Tallied(e)
  <2>1. StreamOf(e) \in Stream
    BY StreamOfPart
  <2>2. items[StreamOf(e)] = <<>> /\ toClient = <<>> /\ ~Hears(e)
    BY <2>1 DEF Init, Hears, Started
  <2>3. DOMAIN Queued(e) = {} /\ DOMAIN Coming(e) = {}
    BY <2>2 DEF Queued, Coming
  <2>4. read[e] = 0 /\ emitted[e] = 0
    BY DEF Init
  <2>5. Heard(e, 0)
    BY <2>2, <2>3, <2>4 DEF Heard, Follows, Reaches
  <2> QED BY <2>3, <2>4, <2>5 DEF Tallied
<1>2. ASSUME NEW s \in Stream PROVE ToldAll(s)
  BY DEF Init, ToldAll
<1> QED BY <1>1, <1>2 DEF OrderInv

LEMMA OrderNext == ClientInv /\ WireInv /\ OrderInv /\ [Next]_vars => OrderInv'
<1> SUFFICES ASSUME ClientInv, WireInv, OrderInv, [Next]_vars PROVE OrderInv'
  OBVIOUS
<1>1. ASSUME NEW s \in Stream,
             \/ Subscribe(s) \/ AskTimesOut(s) \/ CancelSubscribe(s) \/ SubscribeStep(s)
             \/ Unsubscribe(s) \/ CancelStream(s) \/ UnsubscribeReturns(s) \/ CancelUnsubscribe(s)
             \/ Take(s)
      PROVE  OrderInv'
  BY <1>1, SubscribeKeepsOrder, HandKeepsOrder, AskNextKeepsOrder, AskFailsKeepsOrder,
     ClosingKeepsOrder, StepsAsideKeepOrder, TakeKeepsOrder DEF SubscribeStep
<1>2. ASSUME NEW e \in Sid, ReleaseStarts(e) \/ ReleaseReturns(e)
      PROVE  OrderInv'
  BY <1>2, StepsAsideKeepOrder
<1>3. ASSUME NEW e \in Sid, BridgeAnswers(e) \/ Emit(e) \/ Terminate(e)
      PROVE  OrderInv'
  BY <1>3, BridgeAnswersKeepsOrder, EmitKeepsOrder, TerminateKeepsOrder
<1>4. ASSUME Receive PROVE OrderInv'
  BY <1>4, AnswerKeepsOrder, EventKeepsOrder, TerminationKeepsOrder DEF Receive
<1>5. ASSUME ReaderEnds \/ AClose \/ UNCHANGED vars PROVE OrderInv'
  BY <1>5, ReaderEndsKeepsOrder, StepsAsideKeepOrder
<1>6. ASSUME BridgeReads \/ LinkDown PROVE OrderInv'
  BY <1>6, BridgeReadsKeepsOrder, LinkDownKeepsOrder
<1> QED BY <1>1, <1>2, <1>3, <1>4, <1>5, <1>6 DEF Next

LEMMA OrderAlways == Spec => []OrderInv
<1>1. Init => ClientInv /\ WireInv /\ OrderInv
  BY ClientInit, WireInit, OrderInit
<1>2. ClientInv /\ WireInv /\ OrderInv /\ [Next]_vars => ClientInv' /\ WireInv' /\ OrderInv'
  BY ClientNext, WireNext, OrderNext
<1> QED BY <1>1, <1>2, PTL DEF Spec

\* From emit() over the socket and the queue to the caller, the events of a
\* part arrive in their order and without a gap; a stream ends by a
\* termination only with all that was emitted for the terminated part readable.
THEOREM EventsInOrder == Spec => []NothingLostOrReordered
<1>1. ASSUME OrderInv, NEW s \in Stream, NEW e \in PartSet(s)
      PROVE  /\ \E heard \in read[e] .. emitted[e] :
                  /\ Follows(Queued(e), read[e]) /\ Reaches(Queued(e), read[e], heard)
                  /\ Started(s) /\ ended[s] = "no" =>
                       /\ Follows(Coming(e), heard)
                       /\ link = "up" => Reaches(Coming(e), heard, emitted[e])
             /\ ended[s] = "terminated" =>
                  \E d \in PartSet(s) :
                    entry[d] = "terminated" /\ Reaches(Queued(d), read[d], emitted[d])
  <2>1. e \in Sid /\ StreamOf(e) = s
    BY PartOfStream
  <2>2. PICK h \in read[e] .. emitted[e] : Heard(e, h)
    BY <1>1, <2>1 DEF OrderInv, Tallied
  <2>3. ToldAll(s)
    BY <1>1 DEF OrderInv
  <2> QED BY <2>1, <2>2, <2>3 DEF Heard, Hears, ToldAll
<1>2. OrderInv => NothingLostOrReordered
  BY <1>1 DEF NothingLostOrReordered
<1> QED BY <1>2, OrderAlways, PTL
===============================================================================
