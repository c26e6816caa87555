---------------------------- MODULE RequestsProofs ----------------------------
(***************************************************************************)
(* Proofs about Requests, for every set of requests, every choice of those *)
(* with a deadline and any number of answers per request.                  *)
(*                                                                         *)
(* RInv is the inductive invariant.  NoOrphanedWaiter and NothingLeaks are *)
(* not inductive alone: that a response or a timer cannot take an entry    *)
(* away from a waiting caller needs the link between the phase of the      *)
(* coroutine, its future and its entry (Shape), the contract needs to know *)
(* why each future was set (Reasons), and that the first answer wins needs *)
(* the order of the frames that have not been read yet (First).            *)
(***************************************************************************)
EXTENDS Requests, TLAPS

\* How the phase of a coroutine goes with its future and its table entry.
Shape ==
  \A r \in Req :
    /\ task[r] = "new" => future[r] = "none" /\ send[r] = "none" /\ outcome[r] = "none"
    /\ task[r] = "done" => future[r] # "unset" /\ outcome[r] # "none"
    /\ Running(r) => future[r] # "none" /\ outcome[r] = "none"
    /\ r \in pending => Running(r)
    /\ r \in interrupted => Running(r)
    /\ Running(r) /\ future[r] = "unset" => r \in pending /\ state # "closed"

\* Why a future is done, and where an answer on its way comes from.
Reasons ==
  /\ timer \subseteq pending
  /\ \A r \in Req :
       /\ future[r] \in AnswerKinds => future[r] \in Said(r)
       /\ future[r] = "timeout" => r \in Timed
       /\ future[r] = "closed" => state = "closed"
       /\ r \in asked => task[r] # "new"
  /\ \A i \in 1 .. Len(inbox) : inbox[i].kind \in Said(inbox[i].id)

\* The reader has not yet seen an answer to a request that is in the table:
\* its first frame still to be read is the first answer given.
First ==
  /\ \A r \in Req :
       /\ future[r] \in AnswerKinds => said[r] # <<>> /\ future[r] = said[r][1]
       /\ outcome[r] \in AnswerKinds => outcome[r] = future[r]
       /\ said[r] # <<>> => r \in asked
  /\ \A r \in pending :
       /\ \A i \in 1 .. Len(inbox) :
            inbox[i].id = r /\ (\A j \in 1 .. i - 1 : inbox[j].id # r) => inbox[i].kind = said[r][1]
       /\ link = "up" /\ (\A i \in 1 .. Len(inbox) : inbox[i].id # r) => said[r] = <<>>

RInv == TypeOK /\ Shape /\ Reasons /\ First

-------------------------------------------------------------------------------
(* Sequences: what Append and a suffix or prefix do to the members. *)

LEMMA AppendMembers ==
  ASSUME NEW S, NEW s \in Seq(S), NEW x \in S
  PROVE  {Append(s, x)[i] : i \in 1 .. Len(Append(s, x))} = {s[i] : i \in 1 .. Len(s)} \cup {x}
  OBVIOUS

LEMMA IndexMember ==
  ASSUME NEW S, NEW s \in Seq(S), NEW i \in 1 .. Len(s)
  PROVE  s[i] \in S
  OBVIOUS

LEMMA AppendHead ==
  ASSUME NEW S, NEW s \in Seq(S), NEW x \in S
  PROVE  /\ Append(s, x) # <<>>
         /\ s # <<>> => Append(s, x)[1] = s[1]
         /\ s = <<>> => Append(s, x)[1] = x
  OBVIOUS

LEMMA AppendIndex ==
  ASSUME NEW S, NEW s \in Seq(S), NEW x \in S, NEW i \in 1 .. Len(Append(s, x))
  PROVE  \/ i = Len(s) + 1 /\ Append(s, x)[i] = x
         \/ i \in 1 .. Len(s) /\ Append(s, x)[i] = s[i] /\ s[i] \in S
  OBVIOUS

LEMMA TailMembers ==
  ASSUME NEW S, NEW s \in Seq(S), s # <<>>
  PROVE  /\ Tail(s) \in Seq(S)
         /\ Head(s) \in S
         /\ Len(Tail(s)) = Len(s) - 1
         /\ \A i \in 1 .. Len(Tail(s)) : Tail(s)[i] = s[i + 1]
  OBVIOUS

LEMMA PrefixMembers ==
  ASSUME NEW S, NEW s \in Seq(S), NEW n \in 0 .. Len(s)
  PROVE  /\ SubSeq(s, 1, n) \in Seq(S)
         /\ Len(SubSeq(s, 1, n)) = n
         /\ \A i \in 1 .. n : SubSeq(s, 1, n)[i] = s[i]
  OBVIOUS

-------------------------------------------------------------------------------
(* What Receive does, told for the frame it reads. *)

Reads(q, k) ==
  /\ state # "closed"
  /\ Len(inbox) > 0 /\ inbox[1].id = q /\ inbox[1].kind = k
  /\ inbox' \in Seq([id : Req, kind : AnswerKinds])
  /\ Len(inbox') = Len(inbox) - 1
  /\ \A i \in 1 .. Len(inbox') : inbox'[i] = inbox[i + 1]
  /\ pending' = pending \ {q}
  /\ \/ /\ q \in pending
        /\ timer' = timer \ {q}
        /\ future' = [future EXCEPT ![q] = IF future[q] = "unset" THEN k ELSE future[q]]
        /\ late' = late
     \/ /\ q \notin pending
        /\ late' = late + 1
        /\ UNCHANGED <<timer, future>>
  /\ UNCHANGED <<state, link, task, interrupted, send, outcome, asked, said>>

LEMMA ReceiveReads ==
  ASSUME TypeOK, Receive
  PROVE  \E q \in Req, k \in AnswerKinds : Reads(q, k)
<1> DEFINE q == Head(inbox).id
           k == Head(inbox).kind
<1>1. /\ inbox \in Seq([id : Req, kind : AnswerKinds])
      /\ inbox # <<>>
  BY DEF Receive, TypeOK
<1>2. /\ Tail(inbox) \in Seq([id : Req, kind : AnswerKinds])
      /\ Head(inbox) \in [id : Req, kind : AnswerKinds]
      /\ Len(Tail(inbox)) = Len(inbox) - 1
      /\ \A i \in 1 .. Len(Tail(inbox)) : Tail(inbox)[i] = inbox[i + 1]
  BY <1>1, TailMembers
<1>3. q \in Req /\ k \in AnswerKinds
  BY <1>2
<1>4. Len(inbox) > 0 /\ inbox[1] = Head(inbox)
  BY <1>1
<1>5. Reads(q, k)
  BY <1>2, <1>4 DEF Receive, Reads
<1> QED BY <1>3, <1>5

-------------------------------------------------------------------------------
(* The type invariant *)

LEMMA FinishType ==
  ASSUME TypeOK, NEW r \in Req, NEW how \in {"result", "error", "timeout", "closed",
                                            "cancelled", "send_error"},
         Finish(r, how)
  PROVE  /\ task' \in [Req -> {"new", "waiting", "awaiting", "done"}]
         /\ future' \in [Req -> {"none", "unset", "result", "error", "timeout", "closed", "cancelled"}]
         /\ interrupted' \in SUBSET Req
         /\ pending' \in SUBSET Req
         /\ timer' \in SUBSET Timed
         /\ outcome' \in [Req -> {"none", "refused", "too_large", "result", "error", "timeout",
                                 "closed", "cancelled", "send_error"}]
  BY DEF Finish, TypeOK

LEMMA InitType == Init => TypeOK
  BY MaxAnswersAssumption DEF Init, TypeOK

LEMMA NextType == TypeOK /\ [Next]_vars => TypeOK'
<1> SUFFICES ASSUME TypeOK, [Next]_vars PROVE TypeOK'
  OBVIOUS
<1> USE DEF AnswerKinds
<1>1. ASSUME NEW r \in Req, Start(r) PROVE TypeOK'
  BY <1>1 DEF Start, TypeOK, bridgeVars
<1>2. ASSUME NEW r \in Req, Refuse(r) PROVE TypeOK'
  BY <1>2 DEF Refuse, TypeOK, bridgeVars
<1>3. ASSUME NEW r \in Req, Cancel(r) PROVE TypeOK'
  BY <1>3 DEF Cancel, TypeOK, bridgeVars
<1>4. ASSUME NEW r \in Req, WaitReturns(r) PROVE TypeOK'
  <2>1. CASE Finish(r, "send_error")
    BY <1>4, <2>1, FinishType DEF WaitReturns, TypeOK, bridgeVars
  <2>2. CASE FutureDone(r) /\ Finish(r, future[r])
    <3>1. future[r] \in {"result", "error", "timeout", "closed", "cancelled", "send_error"}
      BY <2>2 DEF TypeOK, FutureDone
    <3> QED BY <1>4, <2>2, <3>1, FinishType DEF WaitReturns, TypeOK, bridgeVars
  <2>3. CASE /\ task' = [task EXCEPT ![r] = "awaiting"]
             /\ UNCHANGED <<future, interrupted, pending, timer, outcome>>
    BY <1>4, <2>3 DEF WaitReturns, TypeOK, bridgeVars
  <2> QED BY <1>4, <2>1, <2>2, <2>3 DEF WaitReturns
<1>5. ASSUME NEW r \in Req, AwaitReturns(r) PROVE TypeOK'
  <2>1. future[r] \in {"result", "error", "timeout", "closed", "cancelled", "send_error"}
    BY <1>5 DEF AwaitReturns, TypeOK, FutureDone
  <2> QED BY <1>5, <2>1, FinishType DEF AwaitReturns, TypeOK, bridgeVars
<1>6. ASSUME NEW r \in Req, RaiseCancelled(r) PROVE TypeOK'
  BY <1>6, FinishType DEF RaiseCancelled, TypeOK, bridgeVars
<1>7. ASSUME NEW r \in Req, Expire(r) PROVE TypeOK'
  BY <1>7 DEF Expire, TypeOK, bridgeVars
<1>8. ASSUME NEW r \in Req, SendCompletes(r) PROVE TypeOK'
  BY <1>8 DEF SendCompletes, TypeOK, bridgeVars
<1>9. ASSUME NEW r \in Req, BridgeAnswers(r) PROVE TypeOK'
  BY <1>9 DEF BridgeAnswers, TypeOK, clientVars
<1>10. ASSUME Receive PROVE TypeOK'
  <2>1. PICK q \in Req, k \in AnswerKinds : Reads(q, k)
    BY <1>10, ReceiveReads
  <2>2. future' \in [Req -> {"none", "unset", "result", "error", "timeout", "closed", "cancelled"}]
    <3>1. \/ future' = [future EXCEPT ![q] = IF future[q] = "unset" THEN k ELSE future[q]]
          \/ future' = future
      BY <2>1 DEF Reads
    <3> QED BY <3>1, ZenonT(30) DEF TypeOK
  <2>3. late' \in Nat /\ timer' \in SUBSET Timed /\ pending' \in SUBSET Req
    BY <2>1 DEF Reads, TypeOK
  <2> QED BY <2>1, <2>2, <2>3 DEF Reads, TypeOK
<1>11. ASSUME LinkDown PROVE TypeOK'
  <2>1. PICK n \in 0 .. Len(inbox) : inbox' = SubSeq(inbox, 1, n)
    BY <1>11 DEF LinkDown
  <2>2. inbox' \in Seq([id : Req, kind : AnswerKinds])
    BY <2>1, PrefixMembers DEF TypeOK
  <2> QED BY <1>11, <2>2 DEF LinkDown, TypeOK, clientVars
<1>12. ASSUME AClose PROVE TypeOK'
  BY <1>12 DEF AClose, TypeOK, bridgeVars
<1>13. ASSUME ReaderEnds PROVE TypeOK'
  BY <1>13 DEF ReaderEnds, OnDisconnect, TypeOK
<1>14. ASSUME ReaderCancelled PROVE TypeOK'
  BY <1>14 DEF ReaderCancelled, OnDisconnect, TypeOK
<1>15. CASE UNCHANGED vars
  BY <1>15 DEF vars, clientVars, bridgeVars, TypeOK
<1> QED
  BY <1>1, <1>2, <1>3, <1>4, <1>5, <1>6, <1>7, <1>8, <1>9, <1>10, <1>11, <1>12, <1>13, <1>14, <1>15
  DEF Next, Caller, TaskStep

\* Every variable of the request engine keeps its type; in particular a timer
\* is only ever armed for a request that has a deadline.
THEOREM RequestsTypeCorrect == Spec => []TypeOK
  BY InitType, NextType, PTL DEF Spec

-------------------------------------------------------------------------------
(* No waiter is orphaned and nothing leaks *)

\* Finish leaves the other requests alone and closes its own.
LEMMA FinishShape ==
  ASSUME TypeOK, Shape, NEW r \in Req, Running(r), Finish(r, outcome'[r]), outcome'[r] # "none",
         UNCHANGED <<state, send>>
  PROVE  Shape'
<1> SUFFICES ASSUME NEW q \in Req
             PROVE  /\ task'[q] = "new" => future'[q] = "none" /\ send'[q] = "none" /\ outcome'[q] = "none"
                    /\ task'[q] = "done" => future'[q] # "unset" /\ outcome'[q] # "none"
                    /\ task'[q] \in {"waiting", "awaiting"} => future'[q] # "none" /\ outcome'[q] = "none"
                    /\ q \in pending' => task'[q] \in {"waiting", "awaiting"}
                    /\ q \in interrupted' => task'[q] \in {"waiting", "awaiting"}
                    /\ task'[q] \in {"waiting", "awaiting"} /\ future'[q] = "unset"
                          => q \in pending' /\ state' # "closed"
  BY DEF Shape, Running
<1>1. CASE q = r
  BY <1>1 DEF Finish, TypeOK, Shape, Running
<1>2. CASE q # r
  BY <1>2 DEF Finish, TypeOK, Shape, Running
<1> QED BY <1>1, <1>2

LEMMA InitShape == Init => Shape
  BY DEF Init, Shape, Running

LEMMA NextShape == TypeOK /\ Shape /\ [Next]_vars => Shape'
<1> SUFFICES ASSUME TypeOK, Shape, [Next]_vars PROVE Shape'
  OBVIOUS
<1>1. ASSUME NEW r \in Req, Start(r) PROVE Shape'
  BY <1>1 DEF Start, TypeOK, Shape, Running
<1>2. ASSUME NEW r \in Req, Refuse(r) PROVE Shape'
  BY <1>2 DEF Refuse, TypeOK, Shape, Running
<1>3. ASSUME NEW r \in Req, Cancel(r) PROVE Shape'
  BY <1>3 DEF Cancel, TypeOK, Shape, Running
<1>4. ASSUME NEW r \in Req, WaitReturns(r) PROVE Shape'
  <2>1. CASE Finish(r, "send_error")
    <3>1. outcome'[r] = "send_error"
      BY <2>1 DEF Finish, TypeOK
    <3> QED BY <1>4, <2>1, <3>1, FinishShape DEF WaitReturns, Running
  <2>2. CASE FutureDone(r) /\ Finish(r, future[r])
    <3>1. outcome'[r] = future[r] /\ future[r] # "none"
      BY <2>2 DEF Finish, TypeOK, FutureDone
    <3> QED BY <1>4, <2>2, <3>1, FinishShape DEF WaitReturns, Running
  <2>3. CASE /\ task' = [task EXCEPT ![r] = "awaiting"]
             /\ UNCHANGED <<future, interrupted, pending, timer, outcome>>
    BY <1>4, <2>3 DEF WaitReturns, TypeOK, Shape, Running
  <2> QED BY <1>4, <2>1, <2>2, <2>3 DEF WaitReturns
<1>5. ASSUME NEW r \in Req, AwaitReturns(r) PROVE Shape'
  <2>1. outcome'[r] = future[r] /\ future[r] # "none"
    BY <1>5 DEF AwaitReturns, Finish, TypeOK, FutureDone
  <2> QED BY <1>5, <2>1, FinishShape DEF AwaitReturns, Running
<1>6. ASSUME NEW r \in Req, RaiseCancelled(r) PROVE Shape'
  <2>1. outcome'[r] = "cancelled"
    BY <1>6 DEF RaiseCancelled, Finish, TypeOK
  <2> QED BY <1>6, <2>1, FinishShape DEF RaiseCancelled
<1>7. ASSUME NEW r \in Req, Expire(r) PROVE Shape'
  BY <1>7 DEF Expire, TypeOK, Shape, Running
<1>8. ASSUME NEW r \in Req, SendCompletes(r) PROVE Shape'
  BY <1>8 DEF SendCompletes, TypeOK, Shape, Running
<1>9. ASSUME NEW r \in Req, BridgeAnswers(r) PROVE Shape'
  BY <1>9 DEF BridgeAnswers, clientVars, TypeOK, Shape, Running
<1>10. ASSUME Receive PROVE Shape'
  <2>1. PICK q \in Req, k \in AnswerKinds : Reads(q, k)
    BY <1>10, ReceiveReads
  <2>2. k # "unset" /\ k # "none"
    BY DEF AnswerKinds
  <2>3. CASE q \in pending
    BY <2>1, <2>2, <2>3 DEF Reads, TypeOK, Shape, Running
  <2>4. CASE q \notin pending
    BY <2>1, <2>2, <2>4 DEF Reads, TypeOK, Shape, Running
  <2> QED BY <2>3, <2>4
<1>11. ASSUME LinkDown PROVE Shape'
  BY <1>11 DEF LinkDown, clientVars, Shape, Running
<1>12. ASSUME AClose PROVE Shape'
  BY <1>12 DEF AClose, Shape, Running
<1>13. ASSUME OnDisconnect PROVE Shape'
  BY <1>13 DEF OnDisconnect, TypeOK, Shape, Running
<1>14. CASE UNCHANGED vars
  BY <1>14 DEF vars, clientVars, bridgeVars, Shape, Running
<1> QED
  BY <1>1, <1>2, <1>3, <1>4, <1>5, <1>6, <1>7, <1>8, <1>9, <1>10, <1>11, <1>12, <1>13, <1>14
  DEF Next, Caller, TaskStep, ReaderEnds, ReaderCancelled

LEMMA NextTimers == TypeOK /\ Shape /\ timer \subseteq pending /\ [Next]_vars => (timer \subseteq pending)'
<1> SUFFICES ASSUME TypeOK, Shape, timer \subseteq pending, [Next]_vars PROVE timer' \subseteq pending'
  OBVIOUS
<1>1. CASE Receive
  BY <1>1, ReceiveReads DEF Reads
<1>2. CASE Next /\ ~Receive
  BY <1>2 DEF Next, Caller, TaskStep, Start, Refuse, Cancel, WaitReturns, AwaitReturns, RaiseCancelled,
     Finish, Expire, SendCompletes, BridgeAnswers, LinkDown, AClose, ReaderEnds, ReaderCancelled,
     OnDisconnect, clientVars, bridgeVars, TypeOK
<1>3. CASE UNCHANGED vars
  BY <1>3 DEF vars, clientVars
<1> QED BY <1>1, <1>2, <1>3

\* No caller waits on a future that nothing will set, whatever the order of
\* responses, deadlines, cancellations and the end of the connection.
THEOREM NoOrphanedWaiterHolds == Spec => []NoOrphanedWaiter
<1>1. Shape => NoOrphanedWaiter
  BY DEF Shape, NoOrphanedWaiter
<1> QED BY <1>1, InitShape, NextShape, RequestsTypeCorrect, PTL DEF Spec

\* _pending and the timers hold nothing of a request that is over.
THEOREM NothingLeaksHolds == Spec => []NothingLeaks
<1>1. Init => timer \subseteq pending
  BY DEF Init
<1>2. Spec => [](timer \subseteq pending)
  BY <1>1, InitShape, NextShape, NextTimers, RequestsTypeCorrect, PTL DEF Spec
<1>3. TypeOK /\ Shape /\ timer \subseteq pending => NothingLeaks
  BY DEF TypeOK, Shape, NothingLeaks
<1> QED BY <1>2, <1>3, InitShape, NextShape, RequestsTypeCorrect, PTL DEF Spec

-------------------------------------------------------------------------------
(* Why a future is done *)

LEMMA InitReasons == Init => Reasons
  BY DEF Init, Reasons, AnswerKinds

\* Appending an answer only adds to the set of answers given.
LEMMA AnswerAdds ==
  ASSUME TypeOK, NEW r \in Req, NEW k \in AnswerKinds,
         said' = [said EXCEPT ![r] = Append(@, k)]
  PROVE  /\ Said(r)' = Said(r) \cup {k}
         /\ \A q \in Req \ {r} : Said(q)' = Said(q)
         /\ \A q \in Req : Said(q) \subseteq Said(q)'
<1>1. said[r] \in Seq(AnswerKinds) /\ said'[r] = Append(said[r], k)
  BY DEF TypeOK
<1>2. Said(r)' = Said(r) \cup {k}
  BY <1>1, AppendMembers DEF Said
<1>3. \A q \in Req \ {r} : Said(q)' = Said(q)
  BY DEF TypeOK, Said
<1> QED BY <1>2, <1>3

LEMMA NextReasons == TypeOK /\ Shape /\ Reasons /\ [Next]_vars => Reasons'
<1> SUFFICES ASSUME TypeOK, Shape, Reasons, [Next]_vars PROVE Reasons'
  OBVIOUS
<1> DEFINE Futures ==
      \A r \in Req :
        /\ future[r] \in AnswerKinds => future[r] \in Said(r)
        /\ future[r] = "timeout" => r \in Timed
        /\ future[r] = "closed" => state = "closed"
        /\ r \in asked => task[r] # "new"
      Frames == \A i \in 1 .. Len(inbox) : inbox[i].kind \in Said(inbox[i].id)
<1>0. (timer \subseteq pending)'
  BY NextTimers DEF Reasons
<1>a. Futures /\ Frames
  BY DEF Reasons
<1> SUFFICES Futures' /\ Frames'
  BY <1>0 DEF Reasons
\* Actions of the client's tasks leave said and inbox alone.
<1>1. ASSUME UNCHANGED <<said, inbox>> PROVE Frames'
  BY <1>1, <1>a DEF Said
<1>2. ASSUME NEW r \in Req, Start(r) \/ Refuse(r) \/ Cancel(r) PROVE Futures' /\ Frames'
  <2>1. UNCHANGED <<said, inbox>>
    BY <1>2 DEF Start, Refuse, Cancel, bridgeVars
  <2>2. UNCHANGED <<said, asked, state>>
    BY <1>2 DEF Start, Refuse, Cancel, bridgeVars
  <2>3. \A q \in Req : future'[q] = future[q] \/ future'[q] \in {"unset", "cancelled"}
    BY <1>2 DEF Start, Refuse, Cancel, TypeOK
  <2>4. \A q \in Req : task[q] # "new" => task'[q] # "new"
    BY <1>2 DEF Start, Refuse, Cancel, TypeOK
  <2>5. Futures'
    BY <2>2, <2>3, <2>4, <1>a DEF Said, AnswerKinds
  <2> QED BY <1>1, <2>1, <2>5
<1>3. ASSUME NEW r \in Req, TaskStep(r) PROVE Futures' /\ Frames'
  <2>1. UNCHANGED <<said, inbox, asked, state>>
    BY <1>3 DEF TaskStep, WaitReturns, AwaitReturns, RaiseCancelled, bridgeVars
  <2>2. \A q \in Req : future'[q] = future[q] \/ future'[q] = "cancelled"
    BY <1>3 DEF TaskStep, WaitReturns, AwaitReturns, RaiseCancelled, Finish, TypeOK
  <2>3. \A q \in Req : task[q] # "new" => task'[q] # "new"
    BY <1>3 DEF TaskStep, WaitReturns, AwaitReturns, RaiseCancelled, Finish, TypeOK
  <2>4. Futures'
    BY <2>1, <2>2, <2>3, <1>a DEF Said, AnswerKinds
  <2> QED BY <1>1, <2>1, <2>4
<1>4. ASSUME NEW r \in Req, Expire(r) PROVE Futures' /\ Frames'
  <2>1. UNCHANGED <<said, inbox, asked, state, task>>
    BY <1>4 DEF Expire, bridgeVars
  <2>2. r \in Timed
    BY <1>4 DEF Expire, TypeOK
  <2>3. \A q \in Req : future'[q] = future[q] \/ (q = r /\ future'[q] = "timeout")
    BY <1>4 DEF Expire, TypeOK
  <2>4. Futures'
    BY <2>1, <2>2, <2>3, <1>a DEF Said, AnswerKinds
  <2> QED BY <1>1, <2>1, <2>4
<1>5. ASSUME NEW r \in Req, SendCompletes(r) PROVE Futures' /\ Frames'
  <2>1. UNCHANGED <<said, inbox, future, state, task>> /\ asked' \subseteq asked \cup {r}
    BY <1>5 DEF SendCompletes
  <2>2. task[r] # "new"
    BY <1>5 DEF SendCompletes, Shape
  <2>3. Futures'
    BY <2>1, <2>2, <1>a DEF Said
  <2> QED BY <1>1, <2>1, <2>3
<1>6. ASSUME NEW r \in Req, BridgeAnswers(r) PROVE Futures' /\ Frames'
  <2>1. PICK k \in AnswerKinds :
           /\ said' = [said EXCEPT ![r] = Append(@, k)]
           /\ inbox' = Append(inbox, [id |-> r, kind |-> k])
    BY <1>6 DEF BridgeAnswers
  <2>2. Said(r)' = Said(r) \cup {k} /\ \A q \in Req : Said(q) \subseteq Said(q)'
    BY <2>1, AnswerAdds
  <2>3. Futures'
    BY <1>6, <1>a, <2>2 DEF BridgeAnswers, clientVars
  <2>4. inbox \in Seq([id : Req, kind : AnswerKinds])
    BY DEF TypeOK
  <2>5. ASSUME NEW i \in 1 .. Len(inbox') PROVE (inbox[i].kind \in Said(inbox[i].id))'
    <3>1. \/ i = Len(inbox) + 1 /\ inbox'[i] = [id |-> r, kind |-> k]
          \/ i \in 1 .. Len(inbox) /\ inbox'[i] = inbox[i] /\ inbox[i] \in [id : Req, kind : AnswerKinds]
      <4>1. [id |-> r, kind |-> k] \in [id : Req, kind : AnswerKinds]
        OBVIOUS
      <4> DEFINE S == [id : Req, kind : AnswerKinds]
                 x == [id |-> r, kind |-> k]
      <4>2. inbox' = Append(inbox, x) /\ i \in 1 .. Len(Append(inbox, x))
        BY <2>1
      <4> HIDE DEF x, S
      <4>3. \/ i = Len(inbox) + 1 /\ Append(inbox, x)[i] = x
            \/ i \in 1 .. Len(inbox) /\ Append(inbox, x)[i] = inbox[i] /\ inbox[i] \in S
        BY <4>1, <4>2, <2>4, AppendIndex DEF x, S
      <4> QED BY <4>2, <4>3 DEF x, S
    <3>2. CASE i = Len(inbox) + 1 /\ inbox'[i] = [id |-> r, kind |-> k]
      <4>1. inbox'[i].id = r /\ inbox'[i].kind = k
        BY <3>2
      <4> QED BY <4>1, <2>2 DEF Said
    <3>3. CASE i \in 1 .. Len(inbox) /\ inbox'[i] = inbox[i] /\ inbox[i] \in [id : Req, kind : AnswerKinds]
      <4>1. PICK q \in Req, j \in AnswerKinds : inbox[i] = [id |-> q, kind |-> j]
        BY <3>3
      <4>2. j \in Said(q)
        BY <4>1, <3>3, <1>a
      <4>3. j \in Said(q)'
        BY <4>2, <2>2
      <4>4. inbox'[i].id = q /\ inbox'[i].kind = j
        BY <3>3, <4>1
      <4> QED BY <4>3, <4>4 DEF Said
    <3> QED BY <3>1, <3>2, <3>3
  <2> QED BY <2>3, <2>5
<1>7. ASSUME Receive PROVE Futures' /\ Frames'
  <2>1. PICK q \in Req, k \in AnswerKinds : Reads(q, k)
    BY <1>7, ReceiveReads
  <2>2. k \in Said(q)
    BY <2>1, <1>a DEF Reads
  <2>3. UNCHANGED <<said, asked, task, state>> /\ \A r \in Req : future'[r] = future[r] \/ (r = q /\ future'[r] = k)
    BY <2>1 DEF Reads, TypeOK
  <2>4. Futures'
    BY <2>2, <2>3, <1>a DEF Said, AnswerKinds
  <2>5. ASSUME NEW i \in 1 .. Len(inbox') PROVE (inbox[i].kind \in Said(inbox[i].id))'
    <3>1. inbox'[i] = inbox[i + 1] /\ i + 1 \in 1 .. Len(inbox)
      BY <2>1 DEF Reads, TypeOK
    <3> QED BY <2>3, <3>1, <1>a DEF Said
  <2> QED BY <2>4, <2>5
<1>8. ASSUME LinkDown PROVE Futures' /\ Frames'
  <2>1. PICK n \in 0 .. Len(inbox) : inbox' = SubSeq(inbox, 1, n)
    BY <1>8 DEF LinkDown
  <2>2. Len(inbox') = n /\ \A i \in 1 .. n : inbox'[i] = inbox[i]
    BY <2>1, PrefixMembers DEF TypeOK
  <2>3. n \in 0 .. Len(inbox) /\ Len(inbox) \in Nat
    BY <2>1 DEF TypeOK
  <2>4. Frames'
    BY <1>8, <1>a, <2>2, <2>3 DEF LinkDown, clientVars, Said
  <2>5. Futures'
    BY <1>8, <1>a DEF LinkDown, clientVars, Said
  <2> QED BY <2>4, <2>5
<1>9. ASSUME AClose PROVE Futures' /\ Frames'
  <2>1. UNCHANGED <<said, inbox>>
    BY <1>9 DEF AClose, bridgeVars
  <2>2. Futures'
    BY <1>9, <1>a DEF AClose, bridgeVars, Said
  <2> QED BY <1>1, <2>1, <2>2
<1>10. ASSUME OnDisconnect, inbox' = inbox \/ inbox' = <<>> PROVE Futures' /\ Frames'
  <2>1. UNCHANGED <<said, asked, task>> /\ state' = "closed"
    BY <1>10 DEF OnDisconnect
  <2>2. \A r \in Req : future'[r] = future[r] \/ future'[r] = "closed"
    BY <1>10 DEF OnDisconnect
  <2>3. Futures'
    BY <2>1, <2>2, <1>a DEF Said, AnswerKinds
  <2>4. Frames'
    BY <1>10, <2>1, <1>a DEF Said
  <2> QED BY <2>3, <2>4
<1>11. CASE UNCHANGED vars
  BY <1>11, <1>a DEF vars, clientVars, bridgeVars, Said
<1> QED
  BY <1>2, <1>3, <1>4, <1>5, <1>6, <1>7, <1>8, <1>9, <1>10, <1>11
  DEF Next, Caller, ReaderEnds, ReaderCancelled

-------------------------------------------------------------------------------
(* The refinement *)

LEMMA InitRefines == Init => Contract!Init
  BY DEF Init, Contract!Init, PhaseOf, Said

\* A step that changes no phase, outcome, answer or the end of the connection
\* is a stutter of the contract.
LEMMA Stutters ==
  ASSUME UNCHANGED <<outcome, said>>, (state' = "closed") = (state = "closed"),
         \A r \in Req : PhaseOf(r)' = PhaseOf(r)
  PROVE  UNCHANGED Contract!vars
  BY DEF Contract!vars, Said

\* The coroutine of r ends with a verdict that is true.
LEMMA FinishRefines ==
  ASSUME TypeOK, Shape, NEW r \in Req, Running(r), NEW v \in Contract!Verdicts, Finish(r, v),
         v \in AnswerKinds => v \in Said(r), v = "timeout" => r \in Timed,
         v = "closed" => state = "closed",
         UNCHANGED <<state, said>>
  PROVE  Contract!Settle(r)
<1>1. PhaseOf(r) = "live" /\ PhaseOf(r)' = "settled"
  BY DEF PhaseOf, Running, Finish, TypeOK
<1>2. \A q \in Req \ {r} : PhaseOf(q)' = PhaseOf(q)
  BY DEF PhaseOf, Running, Finish, TypeOK
<1>3. outcome' = [outcome EXCEPT ![r] = v]
  BY DEF Finish
<1>4. \A q \in Req : Said(q)' = Said(q)
  BY DEF Said
<1> QED BY <1>1, <1>2, <1>3, <1>4 DEF Contract!Settle, AnswerKinds

LEMMA StepRefines == TypeOK /\ Shape /\ Reasons /\ [Next]_vars => [Contract!Next]_Contract!vars
<1> SUFFICES ASSUME TypeOK, Shape, Reasons, [Next]_vars PROVE [Contract!Next]_Contract!vars
  OBVIOUS
<1>1. ASSUME NEW r \in Req, Start(r) PROVE Contract!Ask(r)
  <2>1. PhaseOf(r) = "idle" /\ PhaseOf(r)' = "live" /\ \A q \in Req \ {r} : PhaseOf(q)' = PhaseOf(q)
    BY <1>1 DEF Start, PhaseOf, Running, TypeOK
  <2>2. \A q \in Req : Said(q)' = Said(q)
    BY <1>1 DEF Start, Said, bridgeVars
  <2> QED BY <1>1, <2>1, <2>2 DEF Start, Contract!Ask
<1>2. ASSUME NEW r \in Req, Refuse(r) PROVE Contract!Refuse(r)
  <2>1. PhaseOf(r) = "idle" /\ PhaseOf(r)' = "settled" /\ \A q \in Req \ {r} : PhaseOf(q)' = PhaseOf(q)
    BY <1>2 DEF Refuse, PhaseOf, Running, TypeOK
  <2>2. \A q \in Req : Said(q)' = Said(q)
    BY <1>2 DEF Refuse, Said, bridgeVars
  <2>3. \E v \in Contract!Refusals : (v = "too_large" => state # "closed") /\ outcome' = [outcome EXCEPT ![r] = v]
    BY <1>2 DEF Refuse, Contract!Refusals
  <2> QED BY <1>2, <2>1, <2>2, <2>3 DEF Refuse, Contract!Refuse
<1>3. ASSUME NEW r \in Req, Cancel(r) PROVE UNCHANGED Contract!vars
  BY <1>3, Stutters DEF Cancel, PhaseOf, Running, bridgeVars
<1>4. ASSUME NEW r \in Req, FutureDone(r), Running(r), Finish(r, future[r]), UNCHANGED <<state, said>>
      PROVE Contract!Settle(r)
  <2>1. future[r] \in Contract!Verdicts
    BY <1>4 DEF FutureDone, Contract!Verdicts, TypeOK
  <2> QED BY <1>4, <2>1, FinishRefines DEF Reasons
<1>5. ASSUME NEW r \in Req, NEW v \in {"send_error", "cancelled"}, Running(r), Finish(r, v),
             UNCHANGED <<state, said>>
      PROVE Contract!Settle(r)
  BY <1>5, FinishRefines DEF Contract!Verdicts, AnswerKinds
<1>6. ASSUME NEW r \in Req, TaskStep(r) PROVE Contract!Settle(r) \/ UNCHANGED Contract!vars
  <2>1. Running(r) /\ UNCHANGED <<state, said>>
    BY <1>6 DEF TaskStep, WaitReturns, AwaitReturns, RaiseCancelled, Running, bridgeVars
  <2>2. CASE \/ FutureDone(r) /\ Finish(r, future[r])
             \/ Finish(r, "send_error")
             \/ Finish(r, "cancelled")
    BY <2>1, <2>2, <1>4, <1>5
  <2>3. CASE /\ task[r] = "waiting"
             /\ task' = [task EXCEPT ![r] = "awaiting"]
             /\ UNCHANGED outcome
    <3>1. \A q \in Req : PhaseOf(q)' = PhaseOf(q)
      BY <2>3 DEF PhaseOf, Running, TypeOK
    <3> QED BY <2>1, <2>3, <3>1, Stutters
  <2> QED BY <1>6, <2>2, <2>3 DEF TaskStep, WaitReturns, AwaitReturns, RaiseCancelled
<1>7. ASSUME NEW r \in Req, Expire(r) PROVE UNCHANGED Contract!vars
  BY <1>7, Stutters DEF Expire, PhaseOf, Running, bridgeVars
<1>8. ASSUME NEW r \in Req, SendCompletes(r) PROVE UNCHANGED Contract!vars
  BY <1>8, Stutters DEF SendCompletes, PhaseOf, Running
<1>9. ASSUME NEW r \in Req, BridgeAnswers(r) PROVE Contract!Answer(r)
  <2>1. PICK k \in AnswerKinds : said' = [said EXCEPT ![r] = Append(@, k)]
    BY <1>9 DEF BridgeAnswers
  <2>2. Said(r)' = Said(r) \cup {k} /\ \A q \in Req \ {r} : Said(q)' = Said(q)
    BY <2>1, AnswerAdds
  <2>3. \A q \in Req : PhaseOf(q)' = PhaseOf(q)
    BY <1>9 DEF BridgeAnswers, clientVars, PhaseOf, Running
  <2>4. PhaseOf(r) # "idle"
    BY <1>9 DEF BridgeAnswers, Reasons, PhaseOf
  <2> QED BY <1>9, <2>2, <2>3, <2>4 DEF BridgeAnswers, clientVars, Contract!Answer, AnswerKinds
<1>10. ASSUME Receive PROVE UNCHANGED Contract!vars
  BY <1>10, Stutters DEF Receive, PhaseOf, Running
<1>11. ASSUME LinkDown \/ AClose PROVE UNCHANGED Contract!vars
  BY <1>11, Stutters DEF LinkDown, AClose, PhaseOf, Running, clientVars, bridgeVars
<1>12. ASSUME state # "closed", OnDisconnect PROVE Contract!End
  <2>1. \A q \in Req : PhaseOf(q)' = PhaseOf(q) /\ Said(q)' = Said(q)
    BY <1>12 DEF OnDisconnect, PhaseOf, Running, Said
  <2> QED BY <1>12, <2>1 DEF OnDisconnect, Contract!End
<1>13. ASSUME UNCHANGED vars PROVE UNCHANGED Contract!vars
  BY <1>13, Stutters DEF vars, clientVars, bridgeVars, PhaseOf, Running
<1> QED
  BY <1>1, <1>2, <1>3, <1>6, <1>7, <1>8, <1>9, <1>10, <1>11, <1>12, <1>13
  DEF Next, Caller, ReaderEnds, ReaderCancelled, Contract!Next

\* Each request is settled at most once, with a verdict that is true when it
\* is given: the request engine implements the contract.
THEOREM RequestsImplementContract == Spec => ImplementsContractSafely
<1>1. Init => TypeOK /\ Shape /\ Reasons
  BY InitType, InitShape, InitReasons
<1>2. TypeOK /\ Shape /\ Reasons /\ [Next]_vars => (TypeOK /\ Shape /\ Reasons)'
  BY NextType, NextShape, NextReasons
<1> QED BY <1>1, <1>2, InitRefines, StepRefines, PTL DEF Spec, ImplementsContractSafely, Contract!Spec

-------------------------------------------------------------------------------
(* The first answer wins *)

\* The part of First about a request whose future may be set.
Kept ==
  \A r \in Req :
    /\ future[r] \in AnswerKinds => said[r] # <<>> /\ future[r] = said[r][1]
    /\ outcome[r] \in AnswerKinds => outcome[r] = future[r]
    /\ said[r] # <<>> => r \in asked

\* The part of First about the answers to r that the reader has not seen.
Unread(r) ==
  /\ \A i \in 1 .. Len(inbox) :
       inbox[i].id = r /\ (\A j \in 1 .. i - 1 : inbox[j].id # r) => inbox[i].kind = said[r][1]
  /\ link = "up" /\ (\A i \in 1 .. Len(inbox) : inbox[i].id # r) => said[r] = <<>>

LEMMA FirstParts == First <=> Kept /\ \A r \in pending : Unread(r)
  BY DEF First, Kept, Unread

LEMMA InitFirst == Init => First
  BY DEF Init, First, AnswerKinds

\* A frame on its way was sent for an answer that was given.
LEMMA FrameWasSaid ==
  ASSUME TypeOK, Reasons, NEW i \in 1 .. Len(inbox)
  PROVE  said[inbox[i].id] # <<>>
<1>1. inbox[i].kind \in Said(inbox[i].id)
  BY DEF Reasons
<1>2. PICK j \in 1 .. Len(said[inbox[i].id]) : TRUE
  BY <1>1 DEF Said
<1>3. inbox[i] \in [id : Req, kind : AnswerKinds]
  BY IndexMember DEF TypeOK
<1>4. said[inbox[i].id] \in Seq(AnswerKinds)
  BY <1>3 DEF TypeOK
<1> QED BY <1>2, <1>4

LEMMA NextFirst == TypeOK /\ Shape /\ Reasons /\ First /\ [Next]_vars => First'
<1> SUFFICES ASSUME TypeOK, Shape, Reasons, Kept, \A r \in pending : Unread(r), [Next]_vars
             PROVE  Kept' /\ \A r \in pending' : Unread(r)'
  BY FirstParts DEF First, Kept, Unread
<1>0. ASSUME UNCHANGED <<said, inbox, link>>, pending' \subseteq pending PROVE \A r \in pending' : Unread(r)'
  BY <1>0 DEF Unread
<1>1. ASSUME NEW r \in Req, Start(r) PROVE Kept' /\ \A q \in pending' : Unread(q)'
  <2>1. UNCHANGED <<said, inbox, link, asked, outcome>> /\ future' = [future EXCEPT ![r] = "unset"]
    BY <1>1 DEF Start, bridgeVars
  <2>2. r \notin asked /\ outcome[r] = "none"
    BY <1>1 DEF Start, Reasons, Shape
  <2>3. said[r] = <<>>
    BY <2>2 DEF Kept
  <2>4. \A i \in 1 .. Len(inbox) : inbox[i].id # r
    BY <2>3, FrameWasSaid
  <2>5. Unread(r)'
    BY <2>1, <2>3, <2>4 DEF Unread
  <2>6. \A q \in pending : Unread(q)'
    BY <2>1 DEF Unread
  <2>7. Kept'
    BY <2>1, <2>2 DEF Kept, AnswerKinds, TypeOK
  <2> QED BY <1>1, <2>5, <2>6, <2>7 DEF Start
<1>2. ASSUME NEW r \in Req, Refuse(r) PROVE Kept' /\ \A q \in pending' : Unread(q)'
  <2>1. UNCHANGED <<said, inbox, link, asked, future, pending>>
    BY <1>2 DEF Refuse, bridgeVars
  <2>2. \A q \in Req : outcome'[q] = outcome[q] \/ outcome'[q] \notin AnswerKinds
    BY <1>2 DEF Refuse, AnswerKinds, TypeOK
  <2>3. Kept'
    BY <2>1, <2>2 DEF Kept
  <2> QED BY <1>0, <2>1, <2>3
<1>3. ASSUME NEW r \in Req, Cancel(r) PROVE Kept' /\ \A q \in pending' : Unread(q)'
  <2>1. \A q \in Req : future'[q] = future[q] \/ future'[q] = "cancelled"
    BY <1>3 DEF Cancel, TypeOK
  <2>2. UNCHANGED <<said, inbox, link, asked, outcome, pending>>
    BY <1>3 DEF Cancel, bridgeVars
  <2>3. \A q \in Req : Running(q) => outcome[q] = "none"
    BY DEF Shape
  <2>4. \A q \in Req \ {r} : future'[q] = future[q]
    BY <1>3 DEF Cancel, TypeOK
  <2>5. Kept'
    BY <1>3, <2>1, <2>2, <2>3, <2>4 DEF Cancel, Kept, AnswerKinds
  <2> QED BY <1>0, <2>2, <2>5
<1>4. ASSUME NEW r \in Req, TaskStep(r) PROVE Kept' /\ \A q \in pending' : Unread(q)'
  <2>1. UNCHANGED <<said, inbox, link, asked>> /\ pending' \subseteq pending
    BY <1>4 DEF TaskStep, WaitReturns, AwaitReturns, RaiseCancelled, Finish, bridgeVars
  <2>2. \A q \in Req : future'[q] = future[q] \/ (future[q] = "unset" /\ future'[q] = "cancelled")
    BY <1>4 DEF TaskStep, WaitReturns, AwaitReturns, RaiseCancelled, Finish, TypeOK
  <2>3. \A q \in Req : outcome'[q] \in AnswerKinds => outcome'[q] = future[q]
    <3>1. \A q \in Req \ {r} : outcome'[q] = outcome[q]
      BY <1>4 DEF TaskStep, WaitReturns, AwaitReturns, RaiseCancelled, Finish, TypeOK
    <3>2. outcome'[r] \in {outcome[r], future[r], "send_error", "cancelled"}
      BY <1>4 DEF TaskStep, WaitReturns, AwaitReturns, RaiseCancelled, Finish, TypeOK
    <3> QED BY <3>1, <3>2 DEF Kept, AnswerKinds
  <2>4. Kept'
    BY <2>1, <2>2, <2>3 DEF Kept, AnswerKinds
  <2> QED BY <1>0, <2>1, <2>4
<1>5. ASSUME NEW r \in Req, Expire(r) PROVE Kept' /\ \A q \in pending' : Unread(q)'
  <2>1. UNCHANGED <<said, inbox, link, asked, outcome>> /\ pending' \subseteq pending
    BY <1>5 DEF Expire, bridgeVars
  <2>2. \A q \in Req : future'[q] = future[q] \/ (future[q] = "unset" /\ future'[q] = "timeout")
    BY <1>5 DEF Expire, TypeOK
  <2>3. Kept'
    BY <2>1, <2>2 DEF Kept, AnswerKinds
  <2> QED BY <1>0, <2>1, <2>3
<1>6. ASSUME NEW r \in Req, SendCompletes(r) PROVE Kept' /\ \A q \in pending' : Unread(q)'
  <2>1. UNCHANGED <<said, inbox, link, future, outcome, pending>> /\ asked \subseteq asked'
    BY <1>6 DEF SendCompletes
  <2> QED BY <1>0, <2>1 DEF Kept
<1>7. ASSUME NEW r \in Req, BridgeAnswers(r) PROVE Kept' /\ \A q \in pending' : Unread(q)'
  <2>1. PICK k \in AnswerKinds :
           /\ said' = [said EXCEPT ![r] = Append(@, k)]
           /\ inbox' = Append(inbox, [id |-> r, kind |-> k])
    BY <1>7 DEF BridgeAnswers
  <2>2. /\ UNCHANGED <<future, outcome, pending, link, asked>>
        /\ link = "up" /\ r \in asked
    BY <1>7 DEF BridgeAnswers, clientVars
  <2>3. /\ said'[r] = Append(said[r], k)
        /\ \A q \in Req \ {r} : said'[q] = said[q]
        /\ said'[r] # <<>>
        /\ said[r] # <<>> => said'[r][1] = said[r][1]
        /\ said[r] = <<>> => said'[r][1] = k
    <3>1. said[r] \in Seq(AnswerKinds)
      BY DEF TypeOK
    <3>2. said'[r] = Append(said[r], k) /\ \A q \in Req \ {r} : said'[q] = said[q]
      BY <2>1 DEF TypeOK
    <3> QED BY <3>1, <3>2, AppendHead
  <2>4. Kept'
    BY <2>2, <2>3 DEF Kept
  <2>5. /\ Len(inbox') = Len(inbox) + 1
        /\ inbox'[Len(inbox) + 1].id = r /\ inbox'[Len(inbox) + 1].kind = k
        /\ \A i \in 1 .. Len(inbox) : inbox'[i] = inbox[i]
        /\ Len(inbox) \in Nat
    BY <2>1 DEF TypeOK
  <2>6. ASSUME NEW q \in pending, q # r PROVE Unread(q)'
    <3>1. q \in Req /\ Unread(q) /\ said'[q] = said[q]
      BY <2>3, <2>6 DEF TypeOK
    <3>2. ASSUME NEW i \in 1 .. Len(inbox'), inbox'[i].id = q, \A j \in 1 .. i - 1 : inbox'[j].id # q
          PROVE inbox'[i].kind = said'[q][1]
      <4>1. i \in 1 .. Len(inbox)
        BY <2>5, <2>6, <3>2
      <4>2. \A j \in 1 .. i - 1 : inbox[j].id # q
        BY <2>5, <3>2, <4>1
      <4> QED BY <2>5, <3>1, <3>2, <4>1, <4>2 DEF Unread
    <3>3. ASSUME \A i \in 1 .. Len(inbox') : inbox'[i].id # q PROVE said'[q] = <<>>
      <4>1. \A i \in 1 .. Len(inbox) : inbox[i].id # q
        BY <2>5, <3>3
      <4> QED BY <2>2, <3>1, <4>1 DEF Unread
    <3> QED BY <3>2, <3>3 DEF Unread
  <2>7. ASSUME r \in pending PROVE Unread(r)'
    <3>1. Unread(r)
      BY <2>7
    <3>2. ASSUME NEW i \in 1 .. Len(inbox'), inbox'[i].id = r, \A j \in 1 .. i - 1 : inbox'[j].id # r
          PROVE inbox'[i].kind = said'[r][1]
      <4>1. CASE i \in 1 .. Len(inbox)
        <5>1. inbox[i].id = r /\ \A j \in 1 .. i - 1 : inbox[j].id # r
          BY <2>5, <3>2, <4>1
        <5>2. inbox[i].kind = said[r][1]
          BY <3>1, <4>1, <5>1 DEF Unread
        <5>3. said[r] # <<>>
          BY <4>1, <5>1, FrameWasSaid
        <5> QED BY <2>3, <2>5, <4>1, <5>2, <5>3
      <4>2. CASE i = Len(inbox) + 1
        <5>1. \A j \in 1 .. Len(inbox) : inbox[j].id # r
          BY <2>5, <3>2, <4>2
        <5>2. said[r] = <<>>
          BY <2>2, <3>1, <5>1 DEF Unread
        <5> QED BY <2>3, <2>5, <4>2, <5>2
      <4> QED BY <2>5, <4>1, <4>2
    <3>3. ~ \A i \in 1 .. Len(inbox') : inbox'[i].id # r
      BY <2>5
    <3> QED BY <3>2, <3>3 DEF Unread
  <2> QED BY <2>2, <2>4, <2>6, <2>7
<1>8. ASSUME Receive PROVE Kept' /\ \A q \in pending' : Unread(q)'
  <2>1. PICK q \in Req, k \in AnswerKinds : Reads(q, k)
    BY <1>8, ReceiveReads
  <2>2. q \in pending => k = said[q][1] /\ said[q] # <<>>
    BY <2>1 DEF Reads, Unread, Reasons, Said
  <2>3. UNCHANGED <<said, asked, outcome, link>>
    BY <2>1 DEF Reads
  <2>4. \A r \in Req : \/ future'[r] = future[r]
                       \/ r = q /\ q \in pending /\ future'[r] = k
    BY <2>1 DEF Reads, TypeOK
  <2>5. q \in pending => outcome[q] = "none"
    BY DEF Shape
  <2>6. Kept'
    BY <2>2, <2>3, <2>4, <2>5 DEF Kept, AnswerKinds
  <2>7. ASSUME NEW r \in pending' PROVE Unread(r)'
    <3>1. r \in pending /\ r # q /\ Unread(r)
      BY <2>1, <2>7 DEF Reads
    <3>2. /\ Len(inbox) \in Nat /\ Len(inbox) > 0
          /\ Len(inbox') = Len(inbox) - 1
          /\ \A i \in 1 .. Len(inbox') : inbox'[i] = inbox[i + 1]
          /\ inbox[1].id # r
      BY <2>1, <3>1 DEF Reads, TypeOK
    <3>3. ASSUME NEW i \in 1 .. Len(inbox'), inbox'[i].id = r, \A j \in 1 .. i - 1 : inbox'[j].id # r
          PROVE inbox'[i].kind = said'[r][1]
      <4>1. i + 1 \in 1 .. Len(inbox) /\ inbox[i + 1].id = r /\ inbox'[i] = inbox[i + 1]
        BY <3>2, <3>3
      <4>2. ASSUME NEW j \in 1 .. (i + 1) - 1 PROVE inbox[j].id # r
        <5>1. CASE j = 1
          BY <3>2, <5>1
        <5>2. CASE j # 1
          <6>1. j - 1 \in 1 .. i - 1 /\ j - 1 \in 1 .. Len(inbox') /\ (j - 1) + 1 = j
            BY <3>2, <5>2
          <6>2. inbox'[j - 1] = inbox[(j - 1) + 1] /\ inbox'[j - 1].id # r
            BY <3>2, <3>3, <6>1
          <6> QED BY <6>1, <6>2
        <5> QED BY <5>1, <5>2
      <4> QED BY <2>3, <3>1, <4>1, <4>2 DEF Unread
    <3>4. ASSUME link' = "up", \A i \in 1 .. Len(inbox') : inbox'[i].id # r PROVE said'[r] = <<>>
      <4>1. ASSUME NEW j \in 1 .. Len(inbox) PROVE inbox[j].id # r
        <5>1. CASE j = 1
          BY <3>2, <5>1
        <5>2. CASE j # 1
          <6>1. j - 1 \in 1 .. Len(inbox') /\ (j - 1) + 1 = j
            BY <3>2, <5>2
          <6>2. inbox'[j - 1] = inbox[(j - 1) + 1] /\ inbox'[j - 1].id # r
            BY <3>2, <3>4, <6>1
          <6> QED BY <6>1, <6>2
        <5> QED BY <5>1, <5>2
      <4> QED BY <2>3, <3>1, <3>4, <4>1 DEF Unread
    <3> QED BY <3>3, <3>4 DEF Unread
  <2> QED BY <2>6, <2>7
<1>9. ASSUME LinkDown PROVE Kept' /\ \A q \in pending' : Unread(q)'
  <2>1. PICK n \in 0 .. Len(inbox) : inbox' = SubSeq(inbox, 1, n)
    BY <1>9 DEF LinkDown
  <2>2. Len(inbox') = n /\ (\A i \in 1 .. n : inbox'[i] = inbox[i]) /\ n \in 0 .. Len(inbox) /\ Len(inbox) \in Nat
    BY <2>1, PrefixMembers DEF TypeOK
  <2>3. UNCHANGED <<said, asked, future, outcome, pending>> /\ link' = "down"
    BY <1>9 DEF LinkDown, clientVars
  <2>4. Kept'
    BY <2>3 DEF Kept
  <2>5. \A q \in pending' : Unread(q)'
    BY <2>2, <2>3 DEF Unread
  <2> QED BY <2>4, <2>5
<1>10. ASSUME AClose PROVE Kept' /\ \A q \in pending' : Unread(q)'
  BY <1>0, <1>10 DEF AClose, bridgeVars, Kept
<1>11. ASSUME OnDisconnect PROVE Kept' /\ \A q \in pending' : Unread(q)'
  <2>1. \A q \in Req : \/ future'[q] = future[q]
                       \/ q \in pending /\ future'[q] = "closed"
    BY <1>11 DEF OnDisconnect
  <2>2. UNCHANGED <<said, asked, outcome>> /\ pending' = {}
    BY <1>11 DEF OnDisconnect
  <2>3. \A q \in pending : outcome[q] = "none"
    BY DEF Shape, TypeOK
  <2> QED BY <2>1, <2>2, <2>3 DEF Kept, AnswerKinds
<1>12. ASSUME UNCHANGED vars PROVE Kept' /\ \A q \in pending' : Unread(q)'
  BY <1>0, <1>12 DEF vars, clientVars, bridgeVars, Kept
<1> QED
  BY <1>1, <1>2, <1>3, <1>4, <1>5, <1>6, <1>7, <1>8, <1>9, <1>10, <1>11, <1>12
  DEF Next, Caller, ReaderEnds, ReaderCancelled

\* The inductive invariant.
LEMMA RInvHolds == Spec => []RInv
<1>1. Init => RInv
  BY InitType, InitShape, InitReasons, InitFirst DEF RInv
<1>2. RInv /\ [Next]_vars => RInv'
  BY NextType, NextShape, NextReasons, NextFirst DEF RInv
<1> QED BY <1>1, <1>2, PTL DEF Spec

\* A bridge that answers twice cannot change what the caller was told.
THEOREM FirstAnswerWinsHolds == Spec => []FirstAnswerWins
<1>1. RInv => FirstAnswerWins
  BY DEF RInv, TypeOK, First, FirstAnswerWins
<1> QED BY <1>1, RInvHolds, PTL

===============================================================================
