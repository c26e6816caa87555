------------------------------ MODULE PumpProofs ------------------------------
(***************************************************************************)
(* Proofs about Pump, for every number of items.                           *)
(*                                                                         *)
(* PumpInv is the inductive invariant.  That the callback hears the items  *)
(* in order says nothing of the queue; PumpInv does: up to the exit        *)
(* sentinel, what is queued continues what the dispatch thread has taken   *)
(* (InOrder, Covered), and behind the job that sets the finished event     *)
(* there is nothing to deliver (Feed, Closing).  Cancelling empties no     *)
(* queue, so all of that is said of pumps not cancelled; a cancelled one   *)
(* is silent because the flag is read under the lock (Guarded).            *)
(***************************************************************************)
EXTENDS Pump, TLAPS

-------------------------------------------------------------------------------
(* The inductive invariant *)

IsItem(j) == j[1] = "item"

\* No exit sentinel stands before position i, none in the queue at all.
Open(i) == \A k \in DOMAIN queue : k < i => queue[k] # <<"exit">>
NoExit == \A k \in DOMAIN queue : queue[k] # <<"exit">>

\* Items the dispatch thread has taken, the one it is about to deliver included.
Ahead == IF runner = "entering" /\ IsItem(taken) THEN Len(heard) + 1 ELSE Len(heard)

\* stop() marks the portal before it queues the sentinel.
Stopping ==
  /\ stopped <=> stopper # "idle"
  /\ ~NoExit \/ runner = "exited" => stopper = "done"
  /\ run = "never" => stopped

\* A callback runs under the handle's lock, and a cancel() that is past the
\* lock has raised the flag before.
Guarded ==
  /\ lock = "dispatch" <=> runner \in {"calling", "reporting"}
  /\ \A t \in Thread : canceller[t] \in {"flagged", "locked", "done"} => cancelled
  /\ canceller["user"] = "done" => lock = "none"

\* What the coroutine has produced and not queued yet.
Feed ==
  /\ run \in {"new", "next"} => posted = produced
  /\ run \in {"posting", "putting"} /\ IsItem(job) =>
       job = <<"item", produced>> /\ produced = posted + 1
  /\ run \in {"posting", "putting"} /\ job = <<"failure">> => posted = produced
  /\ run \in {"posting", "putting"} => job # <<"exit">>
  /\ run \in {"posting", "putting", "over"} /\ ~cancelled /\ ~stopped /\ ~IsItem(job) =>
       posted = produced
  /\ run = "over" => job = <<"finish">>

\* Before the coroutine queues its last jobs the queue holds items only, and
\* the job that sets the event is the last one.
Closing ==
  /\ run \in {"new", "next"} \/ (run \in {"posting", "putting"} /\ job # <<"finish">>) =>
       \A i \in DOMAIN queue : IsItem(queue[i]) \/ queue[i] = <<"exit">>
  /\ finished \/ (\E i \in DOMAIN queue : queue[i] = <<"finish">>) => run = "over"
  /\ \A i, k \in DOMAIN queue : queue[i] = <<"finish">> /\ i < k => queue[k] = <<"exit">>
  /\ finished /\ ~stopped => ~Delivering
  /\ runner = "entering" => taken \in Deliveries

\* Up to the sentinel the queue continues what the dispatch thread has taken,
InOrder ==
  /\ Ahead <= posted
  /\ runner = "entering" /\ IsItem(taken) => taken[2] = Len(heard) + 1
  /\ \A i \in DOMAIN queue : IsItem(queue[i]) /\ Open(i) =>
       /\ queue[i][2] = Ahead + i /\ queue[i][2] <= posted
       /\ \A k \in DOMAIN queue : k < i => IsItem(queue[k])

\* and reaches item n.
Reached(n) ==
  n <= Ahead \/ \E i \in DOMAIN queue : IsItem(queue[i]) /\ queue[i][2] = n /\ Open(i)

Covered ==
  /\ NoExit => Reached(posted)
  /\ stopped => Reached(atStop)

Counted == ~cancelled /\ runner # "exited" => InOrder /\ Covered

\* What was queued before stop() has been handed over before the thread ends.
Heeded == runner = "exited" /\ ~cancelled => Len(heard) >= atStop

PumpInv ==
  TypeOK /\ Stopping /\ Guarded /\ Feed /\ Closing /\ Counted /\ DeliveredInOrder /\ Heeded

-------------------------------------------------------------------------------
(* Jobs and queues *)

LEMMA JobKinds ==
  /\ <<"exit">> # <<"finish">> /\ <<"exit">> # <<"failure">> /\ <<"finish">> # <<"failure">>
  /\ ~IsItem(<<"exit">>) /\ ~IsItem(<<"finish">>) /\ ~IsItem(<<"failure">>)
  /\ \A n : IsItem(<<"item", n>>) /\ <<"item", n>>[2] = n
  /\ {<<"exit">>, <<"finish">>, <<"failure">>} \subseteq Jobs
  /\ \A n \in 1 .. MaxItems : <<"item", n>> \in Jobs
  /\ \A j \in Jobs : IsItem(j) \/ j \in {<<"failure">>, <<"finish">>, <<"exit">>}
  /\ \A j \in Jobs : IsItem(j) => j = <<"item", j[2]>> /\ j[2] \in 1 .. MaxItems
  /\ \A j \in Jobs : j \in Deliveries <=> IsItem(j) \/ j = <<"failure">>
<1>1. /\ <<"exit">>[1] = "exit" /\ <<"finish">>[1] = "finish" /\ <<"failure">>[1] = "failure"
      /\ \A n : <<"item", n>>[1] = "item" /\ <<"item", n>>[2] = n
  OBVIOUS
<1>2. /\ <<"exit">> # <<"finish">> /\ <<"exit">> # <<"failure">> /\ <<"finish">> # <<"failure">>
      /\ ~IsItem(<<"exit">>) /\ ~IsItem(<<"finish">>) /\ ~IsItem(<<"failure">>)
      /\ \A n : IsItem(<<"item", n>>) /\ <<"item", n>>[2] = n
  BY <1>1 DEF IsItem
<1>3. /\ {<<"exit">>, <<"finish">>, <<"failure">>} \subseteq Jobs
      /\ \A n \in 1 .. MaxItems : <<"item", n>> \in Jobs
  BY DEF Jobs, Deliveries
<1>4. ASSUME NEW j \in Jobs
      PROVE  \/ j \in {<<"failure">>, <<"finish">>, <<"exit">>}
             \/ \E n \in 1 .. MaxItems : j = <<"item", n>>
  BY DEF Jobs, Deliveries
<1>5. ASSUME NEW j \in Jobs
      PROVE  j \in Deliveries <=> (\E n \in 1 .. MaxItems : j = <<"item", n>>) \/ j = <<"failure">>
  BY DEF Deliveries
<1> QED BY <1>2, <1>3, <1>4, <1>5

LEMMA Appended ==
  ASSUME NEW S, NEW q \in Seq(S), NEW f \in S
  PROVE  /\ Append(q, f) \in Seq(S)
         /\ DOMAIN Append(q, f) = DOMAIN q \cup {Len(q) + 1}
         /\ DOMAIN q = 1 .. Len(q) /\ Len(q) \in Nat
         /\ \A i \in DOMAIN q : Append(q, f)[i] = q[i]
         /\ Append(q, f)[Len(q) + 1] = f
         /\ Len(Append(q, f)) = Len(q) + 1
  OBVIOUS

LEMMA Taken ==
  ASSUME NEW S, NEW q \in Seq(S), q # <<>>
  PROVE  /\ Tail(q) \in Seq(S) /\ Head(q) \in S
         /\ 1 \in DOMAIN q /\ q[1] = Head(q)
         /\ DOMAIN q \subseteq Nat \ {0} /\ DOMAIN Tail(q) \subseteq Nat \ {0}
         /\ \A i \in Nat \ {0} : i \in DOMAIN Tail(q) <=> i + 1 \in DOMAIN q
         /\ \A i \in DOMAIN Tail(q) : Tail(q)[i] = q[i + 1]
  OBVIOUS

\* What is handed over, put into the form of heard.
LEMMA NextHeard ==
  ASSUME NEW h \in Seq(1 .. MaxItems), h = [i \in 1 .. Len(h) |-> i], Len(h) + 1 \in 1 .. MaxItems
  PROVE  /\ Append(h, Len(h) + 1) = [i \in 1 .. Len(Append(h, Len(h) + 1)) |-> i]
         /\ Append(h, Len(h) + 1) \in Seq(1 .. MaxItems)
         /\ Len(Append(h, Len(h) + 1)) = Len(h) + 1
<1>1. PICK g : g = Append(h, Len(h) + 1)
  OBVIOUS
<1>2. /\ g \in Seq(1 .. MaxItems) /\ Len(g) = Len(h) + 1 /\ Len(h) \in Nat
      /\ \A i \in 1 .. Len(h) : g[i] = h[i]
      /\ g[Len(h) + 1] = Len(h) + 1
  BY <1>1
<1>3. \A i \in 1 .. Len(g) : g[i] = i
  BY <1>2
<1>4. g = [i \in 1 .. Len(g) |-> g[i]]
  BY <1>2
<1> QED BY <1>1, <1>2, <1>3, <1>4

-------------------------------------------------------------------------------
(* Steps *)

LEMMA PumpInit == Init => PumpInv
<1> SUFFICES ASSUME Init PROVE PumpInv
  OBVIOUS
<1>1. /\ queue = <<>> /\ heard = <<>> /\ DOMAIN queue = {} /\ Len(heard) = 0
  BY DEF Init
<1>2. TypeOK
  <2>1. queue \in Seq(Jobs) /\ heard \in Seq(1 .. MaxItems)
    BY <1>1
  <2>2. job \in Jobs /\ taken \in Jobs
    BY JobKinds DEF Init
  <2>3. produced \in 0 .. MaxItems /\ posted \in 0 .. produced /\ atStop \in 0 .. posted
    BY MaxItemsAssumption DEF Init
  <2>4. canceller \in [Thread -> {"no", "first", "again", "flagged", "locked", "done"}]
    BY DEF Init
  <2> QED BY <2>1, <2>2, <2>3, <2>4 DEF Init, TypeOK
<1>3. Stopping /\ Guarded /\ Feed
  BY <1>1, JobKinds DEF Init, Stopping, Guarded, Feed, NoExit
<1>4. Closing
  BY <1>1 DEF Init, Closing, Delivering
<1>5. InOrder /\ Covered
  BY <1>1 DEF Init, InOrder, Covered, Reached, Ahead
<1>6. heard = [i \in 1 .. Len(heard) |-> i]
  BY <1>1
<1>7. Counted /\ Heeded /\ DeliveredInOrder
  BY <1>1, <1>5, <1>6 DEF Init, Counted, Heeded, DeliveredInOrder
<1> QED BY <1>2, <1>3, <1>4, <1>7 DEF PumpInv

\* The queue, and what was taken from it, stay.
LEMMA SameCount ==
  ASSUME Counted, UNCHANGED <<queue, heard, posted, atStop>>, Ahead' = Ahead,
         runner' = "entering" => runner = "entering" /\ taken' = taken,
         cancelled => cancelled', runner = "exited" => runner' = "exited",
         stopped' => stopped
  PROVE  Counted'
<1> SUFFICES ASSUME ~cancelled', runner' # "exited" PROVE InOrder' /\ Covered'
  BY DEF Counted
<1>1. InOrder /\ Covered
  BY DEF Counted
<1>2. \A i : Open(i)' <=> Open(i)
  BY DEF Open
<1>3. InOrder'
  BY <1>1, <1>2 DEF InOrder
<1>4. \A n : Reached(n)' <=> Reached(n)
  BY <1>2 DEF Reached
<1>5. NoExit' <=> NoExit
  BY DEF NoExit
<1> QED BY <1>1, <1>3, <1>4, <1>5 DEF Covered

\* The coroutine between two jobs.
LEMMA LoopStepsKeepPump ==
  ASSUME PumpInv,
         Start \/ NeverStart \/ ItemArrives \/ SourceEnds \/ CheckStopped \/ TearDown
  PROVE  PumpInv'
<1> USE DEF PumpInv
<1>0. /\ UNCHANGED <<stopped, stopper, atStop, runner, taken, heard, cancelled, canceller, hooked>>
      /\ UNCHANGED <<queue, lock, posted>>
  BY DEF Start, NeverStart, ItemArrives, SourceEnds, CheckStopped, TearDown, ToPost, stopVars,
         dispatchVars, cancelVars
<1>1. /\ run \in {"new", "next", "posting"} /\ run' \in {"next", "posting", "putting", "over", "never"}
      /\ produced' \in 0 .. MaxItems /\ posted' \in 0 .. produced'
      /\ interrupted' \in BOOLEAN /\ finished' \in BOOLEAN
  <2>1. run \in {"new", "next", "posting"} /\ run' \in {"next", "posting", "putting", "over", "never"}
    BY DEF Start, NeverStart, ItemArrives, SourceEnds, CheckStopped, TearDown, ToPost
  <2>2. produced' = produced \/ (produced < MaxItems /\ produced' = produced + 1)
    BY DEF Start, NeverStart, ItemArrives, SourceEnds, CheckStopped, TearDown
  <2>3. produced' \in 0 .. MaxItems /\ posted' \in 0 .. produced'
    BY <1>0, <2>2, MaxItemsAssumption DEF TypeOK
  <2>4. interrupted' \in BOOLEAN /\ finished' \in BOOLEAN
    BY DEF TypeOK, Start, NeverStart, ItemArrives, SourceEnds, CheckStopped, TearDown
  <2> QED BY <2>1, <2>3, <2>4
<1>2. /\ run' \in {"posting", "putting"} =>
           \/ run = "posting" /\ run' = "putting" /\ job' = job /\ ~stopped /\ produced' = produced
           \/ run = "posting" /\ run' = "posting" /\ job' = <<"finish">> /\ stopped
              /\ produced' = produced
           \/ run = "next" /\ job' = <<"finish">> /\ (produced' = produced \/ cancelled)
           \/ run = "next" /\ job' = <<"item", produced + 1>> /\ produced' = produced + 1
           \/ run = "next" /\ job' = <<"failure">> /\ produced' = produced
      /\ run' \notin {"posting", "putting"} =>
           /\ job' = job /\ produced' = produced
           /\ run' = "over" => job = <<"finish">> /\ stopped
           /\ run' = "never" => stopped
           /\ run' = "next" => run \in {"new", "next"}
      /\ finished' # finished => stopped /\ run' = "over"
  BY DEF TypeOK, Stopping, Start, NeverStart, ItemArrives, SourceEnds, CheckStopped, TearDown, ToPost
<1>3. job' \in Jobs
  <2>1. job' = <<"item", produced + 1>> /\ produced' = produced + 1 => produced + 1 \in 1 .. MaxItems
    BY <1>1, MaxItemsAssumption DEF TypeOK
  <2>2. \/ job' = job \/ job' \in {<<"finish">>, <<"failure">>}
        \/ job' = <<"item", produced + 1>> /\ produced' = produced + 1
    BY <1>1, <1>2
  <2> QED BY <2>1, <2>2, JobKinds DEF TypeOK
<1>4. TypeOK'
  BY <1>0, <1>1, <1>3 DEF TypeOK
<1>5. Stopping' /\ Guarded'
  BY <1>0, <1>1, <1>2 DEF Stopping, Guarded, NoExit
<1>6. Feed'
  BY <1>0, <1>1, <1>2, JobKinds DEF TypeOK, Feed
<1>7. Delivering' <=> Delivering
  BY <1>0 DEF Delivering
<1>8. finished = FALSE /\ \A i \in DOMAIN queue : queue[i] # <<"finish">>
  BY <1>1 DEF Closing, TypeOK
<1>9. Closing'
  <2>1. run' \in {"new", "next"} \/ (run' \in {"posting", "putting"} /\ job' # <<"finish">>) =>
          run \in {"new", "next"} \/ (run \in {"posting", "putting"} /\ job # <<"finish">>)
    BY <1>1, <1>2
  <2> QED BY <1>0, <1>1, <1>2, <1>7, <1>8, <2>1 DEF Closing
<1>10. Counted'
  <2>1. Ahead' = Ahead
    BY <1>0 DEF Ahead
  <2> QED BY <1>0, <2>1, SameCount
<1>11. DeliveredInOrder' /\ Heeded'
  BY <1>0, <1>2, <1>8 DEF DeliveredInOrder, Heeded
<1> QED BY <1>4, <1>5, <1>6, <1>9, <1>10, <1>11

\* A job is queued: an item continues the queue.
LEMMA PutKeepsPump ==
  ASSUME PumpInv, Put
  PROVE  PumpInv'
<1> USE DEF PumpInv
<1>0. /\ UNCHANGED <<stopped, stopper, atStop, runner, taken, heard, cancelled, canceller, hooked>>
      /\ UNCHANGED <<lock, finished, produced, interrupted>>
      /\ run = "putting" /\ queue' = Append(queue, job) /\ queue \in Seq(Jobs) /\ job \in Jobs
  BY DEF Put, TypeOK, stopVars, dispatchVars, cancelVars
<1>1. \/ /\ IsItem(job) /\ run' = "next" /\ posted' = posted + 1 /\ job' = job
      \/ /\ job = <<"failure">> /\ run' = "posting" /\ job' = <<"finish">> /\ posted' = posted
      \/ /\ job = <<"finish">> /\ run' = "over" /\ UNCHANGED <<job, posted>>
  BY DEF Put, ToPost, IsItem
<1>2. PICK p \in Nat :
        /\ queue' \in Seq(Jobs)
        /\ DOMAIN queue' = DOMAIN queue \cup {p}
        /\ DOMAIN queue \subseteq 1 .. p /\ p \notin DOMAIN queue
        /\ \A i \in DOMAIN queue : queue'[i] = queue[i]
        /\ queue'[p] = job
        /\ p = 1 \/ (p > 1 /\ p - 1 \in DOMAIN queue)
  <2>1. /\ queue' \in Seq(Jobs)
        /\ DOMAIN queue' = DOMAIN queue \cup {Len(queue) + 1}
        /\ DOMAIN queue = 1 .. Len(queue) /\ Len(queue) \in Nat
        /\ \A i \in DOMAIN queue : queue'[i] = queue[i]
        /\ queue'[Len(queue) + 1] = job
    BY <1>0, Appended
  <2>2. PICK n \in Nat : n = Len(queue)
    BY <2>1
  <2>3. n + 1 \in Nat /\ (n = 0 \/ n \in 1 .. n) /\ (n + 1) - 1 = n /\ n + 1 \notin 1 .. n
    OBVIOUS
  <2> QED BY <2>1, <2>2, <2>3
<1>3. IsItem(job) => job = <<"item", posted + 1>> /\ produced = posted + 1 /\ job[2] = posted + 1
  BY <1>0, JobKinds DEF Feed
<1>4. job # <<"exit">> /\ finished = FALSE /\ \A i \in DOMAIN queue : queue[i] # <<"finish">>
  BY <1>0 DEF Feed, Closing, TypeOK
<1>5. posted \in Nat /\ posted' \in Nat /\ atStop \in Nat /\ Len(heard) \in Nat
  BY <1>1 DEF TypeOK
<1>6. TypeOK'
  <2>1. posted' \in 0 .. produced' /\ atStop' \in 0 .. posted'
    BY <1>0, <1>1, <1>3 DEF TypeOK
  <2>2. job' \in Jobs
    BY <1>0, <1>1, JobKinds
  <2> QED BY <1>0, <1>1, <1>2, <2>1, <2>2 DEF TypeOK
<1>7. /\ NoExit' <=> NoExit
      /\ \A i \in DOMAIN queue : Open(i)' <=> Open(i)
      /\ Open(p)' <=> NoExit
      /\ Ahead' = Ahead /\ Ahead \in Nat
  <2>1. NoExit' <=> NoExit
    BY <1>2, <1>4 DEF NoExit
  <2>2. ~(p < p) /\ \A i \in DOMAIN queue : i < p /\ ~(p < i)
    BY <1>2
  <2>3. \A i \in DOMAIN queue : Open(i)' <=> Open(i)
    BY <1>2, <2>2 DEF Open
  <2>4. Open(p)' <=> NoExit
    BY <1>2, <2>2 DEF Open, NoExit
  <2>5. Ahead' = Ahead /\ Ahead \in Nat
    BY <1>0, <1>5 DEF Ahead, IsItem
  <2> QED BY <2>1, <2>3, <2>4, <2>5
<1>8. Stopping' /\ Guarded'
  BY <1>0, <1>1, <1>7 DEF Stopping, Guarded
<1>9. Feed'
  BY <1>0, <1>1, <1>3, JobKinds DEF TypeOK, Feed
<1>10. Closing'
  <2>1. run' \in {"new", "next"} \/ (run' \in {"posting", "putting"} /\ job' # <<"finish">>) =>
          \A i \in DOMAIN queue' : IsItem(queue'[i]) \/ queue'[i] = <<"exit">>
    <3>1. CASE IsItem(job)
      BY <1>0, <1>2, <3>1, JobKinds DEF Closing
    <3>2. CASE ~IsItem(job)
      BY <1>1, <3>2
    <3> QED BY <3>1, <3>2
  <2>2. (\E i \in DOMAIN queue' : queue'[i] = <<"finish">>) => run' = "over"
    BY <1>1, <1>2, <1>4, JobKinds, SMTT(15)
  <2>3. \A i, k \in DOMAIN queue' : queue'[i] = <<"finish">> /\ i < k => queue'[k] = <<"exit">>
    <3>1. \A i \in DOMAIN queue' : queue'[i] = <<"finish">> => i = p
      BY <1>2, <1>4
    <3>2. \A k \in DOMAIN queue' : ~(p < k)
      BY <1>2
    <3> QED BY <3>1, <3>2
  <2> QED BY <1>0, <1>4, <2>1, <2>2, <2>3 DEF Closing
<1>11. ASSUME ~cancelled', runner' # "exited" PROVE InOrder' /\ Covered'
  <2>1. InOrder /\ Covered
    BY <1>0, <1>11 DEF Counted
  <2>2. \A n \in Nat : Reached(n) => Reached(n)'
    BY <1>2, <1>7 DEF Reached
  <2>3. ASSUME NoExit, IsItem(job)
        PROVE  Ahead + p = posted + 1 /\ \A i \in DOMAIN queue : IsItem(queue[i])
    <3>1. \A i \in DOMAIN queue : IsItem(queue[i]) /\ Open(i)
      BY <1>0, <2>3, JobKinds DEF Closing, NoExit, Open
    <3>2. \A i \in DOMAIN queue : queue[i][2] = Ahead + i /\ Ahead + i <= posted
      BY <2>1, <3>1 DEF InOrder
    <3>3. posted <= Ahead \/ \E i \in DOMAIN queue : Ahead + i = posted
      BY <2>1, <2>3, <3>2 DEF Covered, Reached
    <3>4. PICK a \in Nat, r \in Nat : a = Ahead /\ r = posted
      BY <1>5, <1>7
    <3>5. CASE p = 1
      <4>1. DOMAIN queue = {} /\ a <= r
        BY <1>2, <2>1, <3>4, <3>5 DEF InOrder
      <4> QED BY <3>3, <3>4, <3>5, <4>1
    <3>6. CASE p > 1 /\ p - 1 \in DOMAIN queue
      <4>1. a + (p - 1) <= r
        BY <3>2, <3>4, <3>6
      <4>2. PICK i \in DOMAIN queue : a + i = r
        BY <3>3, <3>4, <3>6, <4>1
      <4>3. i \in Nat /\ i < p
        BY <1>2
      <4>4. a + p = r + 1
        BY <3>6, <4>1, <4>2, <4>3
      <4> QED BY <3>1, <3>4, <4>4
    <3> QED BY <1>2, <3>1, <3>5, <3>6
  <2>4. InOrder'
    <3>1. Ahead' <= posted'
      BY <1>1, <1>5, <1>7, <2>1 DEF InOrder
    <3>2. runner' = "entering" /\ IsItem(taken)' => taken'[2] = Len(heard)' + 1
      BY <1>0, <2>1 DEF InOrder, IsItem
    <3>3. ASSUME NEW i \in DOMAIN queue', IsItem(queue'[i]), Open(i)'
          PROVE  /\ queue'[i][2] = Ahead + i /\ queue'[i][2] <= posted'
                 /\ \A k \in DOMAIN queue' : k < i => IsItem(queue'[k])
      <4>1. CASE i \in DOMAIN queue
        <5>1. /\ queue[i][2] = Ahead + i /\ queue[i][2] <= posted
              /\ \A k \in DOMAIN queue : k < i => IsItem(queue[k])
          BY <1>2, <1>7, <2>1, <3>3, <4>1 DEF InOrder
        <5> QED BY <1>1, <1>2, <1>5, <1>7, <4>1, <5>1
      <4>2. CASE i = p
        <5>1. NoExit /\ IsItem(job)
          BY <1>2, <1>7, <3>3, <4>2
        <5>2. job[2] = posted + 1 /\ posted' = posted + 1
          BY <1>1, <1>3, <5>1, JobKinds
        <5>3. Ahead + p = posted + 1 /\ \A k \in DOMAIN queue : IsItem(queue[k])
          BY <2>3, <5>1
        <5>4. \A k \in DOMAIN queue' : k < i => k \in DOMAIN queue
          BY <1>2, <4>2
        <5>5. posted + 1 <= posted'
          BY <1>5, <5>2
        <5> QED BY <1>2, <4>2, <5>2, <5>3, <5>4, <5>5
      <4> QED BY <1>2, <3>3, <4>1, <4>2
    <3> QED BY <1>7, <3>1, <3>2, <3>3 DEF InOrder
  <2>5. Covered'
    <3>1. ASSUME NoExit' PROVE Reached(posted)'
      <4>1. CASE IsItem(job)
        <5>1. posted' = posted + 1 /\ job[2] = posted + 1
          BY <1>1, <1>3, <4>1, JobKinds
        <5>2. Open(p)'
          BY <1>7, <3>1
        <5> QED BY <1>2, <4>1, <5>1, <5>2 DEF Reached
      <4>2. CASE ~IsItem(job)
        <5>1. posted' = posted
          BY <1>1, <4>2
        <5>2. PICK n \in Nat : n = posted
          BY <1>5
        <5>3. Reached(n)'
          BY <1>7, <2>1, <2>2, <3>1, <5>2 DEF Covered
        <5> QED BY <5>1, <5>2, <5>3 DEF Reached
      <4> QED BY <4>1, <4>2
    <3>2. ASSUME stopped' PROVE Reached(atStop)'
      <4>1. PICK n \in Nat : n = atStop
        BY <1>5
      <4>2. Reached(n)'
        BY <1>0, <2>1, <2>2, <3>2, <4>1 DEF Covered
      <4> QED BY <1>0, <4>1, <4>2 DEF Reached
    <3> QED BY <3>1, <3>2 DEF Covered
  <2> QED BY <2>4, <2>5
<1>12. DeliveredInOrder' /\ Heeded' /\ Counted'
  BY <1>0, <1>4, <1>11 DEF DeliveredInOrder, Heeded, Counted
<1> QED BY <1>6, <1>8, <1>9, <1>10, <1>12

\* The dispatch thread takes the first job.
LEMMA TakeKeepsPump ==
  ASSUME PumpInv, Take
  PROVE  PumpInv'
<1> USE DEF PumpInv
<1>0. /\ UNCHANGED <<stopped, stopper, atStop, heard, cancelled, canceller, hooked>>
      /\ UNCHANGED <<lock, produced, posted, interrupted, run, job>>
      /\ runner = "idle" /\ queue # <<>> /\ queue' = Tail(queue) /\ queue \in Seq(Jobs)
  BY DEF Take, TypeOK, stopVars, loopVars, cancelVars
<1>1. PICK j \in Jobs :
        /\ taken' = j /\ queue' \in Seq(Jobs)
        /\ 1 \in DOMAIN queue /\ queue[1] = j
        /\ DOMAIN queue \subseteq Nat \ {0} /\ DOMAIN queue' \subseteq Nat \ {0}
        /\ \A i \in Nat \ {0} : i \in DOMAIN queue' <=> i + 1 \in DOMAIN queue
        /\ \A i \in DOMAIN queue' : queue'[i] = queue[i + 1]
        /\ \/ j = <<"exit">> /\ runner' = "exited" /\ finished' = finished
           \/ j = <<"finish">> /\ finished' = TRUE /\ runner' = "idle"
           \/ j \in Deliveries /\ runner' = "entering" /\ finished' = finished
  <2>1. PICK j : j = Head(queue)
    OBVIOUS
  <2>2. /\ j \in Jobs /\ queue' \in Seq(Jobs)
        /\ 1 \in DOMAIN queue /\ queue[1] = j
        /\ DOMAIN queue \subseteq Nat \ {0} /\ DOMAIN queue' \subseteq Nat \ {0}
        /\ \A i \in Nat \ {0} : i \in DOMAIN queue' <=> i + 1 \in DOMAIN queue
        /\ \A i \in DOMAIN queue' : queue'[i] = queue[i + 1]
    BY <1>0, <2>1, Taken
  <2>3. /\ taken' = j
        /\ \/ j = <<"exit">> /\ runner' = "exited" /\ finished' = finished
           \/ j = <<"finish">> /\ finished' = TRUE /\ runner' = "idle"
           \/ j \in Deliveries /\ runner' = "entering" /\ finished' = finished
    BY <1>0, <2>1 DEF Take
  <2> QED BY <2>2, <2>3
<1>2. /\ \A i \in DOMAIN queue' : i + 1 \in DOMAIN queue /\ i \in Nat \ {0} /\ 1 < i + 1
      /\ \A i \in DOMAIN queue : i # 1 => i - 1 \in DOMAIN queue' /\ queue'[i - 1] = queue[i]
  <2>1. ASSUME NEW i \in DOMAIN queue, i # 1
        PROVE  i - 1 \in DOMAIN queue' /\ queue'[i - 1] = queue[i]
    <3>1. i - 1 \in Nat \ {0} /\ (i - 1) + 1 = i
      BY <1>1, <2>1
    <3> QED BY <1>1, <3>1
  <2> QED BY <1>1, <2>1
<1>3. posted \in Nat /\ atStop \in Nat /\ Len(heard) \in Nat
  BY DEF TypeOK
<1>4. TypeOK'
  <2>1. /\ runner' \in {"idle", "entering", "calling", "reporting", "exited"}
        /\ finished' \in BOOLEAN /\ taken' \in Jobs /\ queue' \in Seq(Jobs)
    BY <1>1 DEF TypeOK
  <2> QED BY <1>0, <2>1 DEF TypeOK
<1>5. NoExit => NoExit' /\ j # <<"exit">>
  BY <1>1, <1>2 DEF NoExit
<1>6. Stopping' /\ Guarded'
  BY <1>0, <1>1, <1>5, JobKinds DEF Stopping, Guarded, NoExit
<1>7. Feed'
  BY <1>0 DEF Feed
<1>8. Closing'
  <2>1. \A i \in DOMAIN queue : j = <<"finish">> /\ i # 1 => queue[i] = <<"exit">>
    <3>1. \A i \in DOMAIN queue : i # 1 => 1 < i
      BY <1>1
    <3> QED BY <1>1, <3>1 DEF Closing
  <2>2. ~stopped => \A i \in DOMAIN queue : queue[i] # <<"exit">>
    BY <1>0 DEF Stopping, NoExit, TypeOK
  <2>3. finished' => run = "over"
    BY <1>1 DEF Closing
  <2>4. ASSUME finished', ~stopped PROVE ~Delivering'
    <3>1. CASE j = <<"finish">>
      <4>1. ASSUME NEW i \in DOMAIN queue' PROVE FALSE
        <5>1. i + 1 \in DOMAIN queue /\ i + 1 # 1
          BY <1>2
        <5> QED BY <2>1, <2>2, <2>4, <3>1, <5>1
      <4> QED BY <1>1, <3>1, <4>1, JobKinds DEF Delivering
    <3>2. CASE j # <<"finish">>
      BY <1>0, <1>1, <1>2, <2>4, <3>2 DEF Closing, Delivering
    <3> QED BY <3>1, <3>2
  <2>5. \A i, k \in DOMAIN queue' : queue'[i] = <<"finish">> /\ i < k => queue'[k] = <<"exit">>
    <3> SUFFICES ASSUME NEW i \in DOMAIN queue', NEW k \in DOMAIN queue',
                        queue'[i] = <<"finish">>, i < k
                 PROVE  queue'[k] = <<"exit">>
      OBVIOUS
    <3>1. /\ i + 1 \in DOMAIN queue /\ k + 1 \in DOMAIN queue /\ i + 1 < k + 1
          /\ queue[i + 1] = <<"finish">>
      <4>1. i \in Nat /\ k \in Nat
        BY <1>2, Zenon
      <4>2. i + 1 \in DOMAIN queue /\ k + 1 \in DOMAIN queue
        BY <1>2, Zenon
      <4>3. queue[i + 1] = <<"finish">>
        BY <1>1, Zenon
      <4>4. i + 1 < k + 1
        BY <4>1
      <4> QED BY <4>2, <4>3, <4>4, Zenon
    <3>2. \A a, b \in DOMAIN queue : queue[a] = <<"finish">> /\ a < b => queue[b] = <<"exit">>
      BY Zenon DEF Closing
    <3>3. queue[k + 1] = <<"exit">>
      BY <3>1, <3>2, Zenon
    <3> QED BY <1>1, <3>3, Zenon
  <2>6. \/ run' \in {"new", "next"} \/ (run' \in {"posting", "putting"} /\ job' # <<"finish">>)
         => \A i \in DOMAIN queue' : IsItem(queue'[i]) \/ queue'[i] = <<"exit">>
    BY <1>0, <1>1, <1>2 DEF Closing
  <2>7. (\E i \in DOMAIN queue' : queue'[i] = <<"finish">>) => run' = "over"
    BY <1>0, <1>1, <1>2 DEF Closing
  <2>8. runner' = "entering" => taken' \in Deliveries
    BY <1>1
  <2> QED BY <1>0, <2>3, <2>4, <2>5, <2>6, <2>7, <2>8 DEF Closing
<1>9. ASSUME ~cancelled
      PROVE  /\ Ahead = Len(heard) /\ Ahead <= posted
             /\ IsItem(j) => j[2] = Len(heard) + 1 /\ j[2] <= posted
             /\ \A i \in DOMAIN queue : i # 1 /\ IsItem(queue[i]) /\ Open(i) =>
                  IsItem(j) /\ queue[i][2] = Ahead + i /\ queue[i][2] <= posted
             /\ \A n \in Nat : Reached(n) =>
                  \/ n <= Len(heard)
                  \/ IsItem(j) /\ n <= Len(heard) + 1
                  \/ \E i \in DOMAIN queue : i # 1 /\ IsItem(queue[i]) /\ queue[i][2] = n /\ Open(i)
             /\ (NoExit => Reached(posted)) /\ (stopped => Reached(atStop))
  <2>1. InOrder /\ Covered /\ Ahead = Len(heard)
    BY <1>0, <1>9 DEF Counted, Ahead
  <2>2. Open(1)
    BY <1>1 DEF Open
  <2>3. IsItem(j) => j[2] = Len(heard) + 1 /\ j[2] <= posted
    BY <1>1, <2>1, <2>2 DEF InOrder
  <2>4. ASSUME NEW i \in DOMAIN queue, i # 1, IsItem(queue[i]), Open(i)
        PROVE  IsItem(j) /\ queue[i][2] = Ahead + i /\ queue[i][2] <= posted
    <3>1. 1 < i
      BY <1>1, <2>4
    <3> QED BY <1>1, <2>1, <2>4, <3>1 DEF InOrder
  <2>5. ASSUME NEW n \in Nat, Reached(n)
        PROVE  \/ n <= Len(heard)
               \/ IsItem(j) /\ n <= Len(heard) + 1
               \/ \E i \in DOMAIN queue : i # 1 /\ IsItem(queue[i]) /\ queue[i][2] = n /\ Open(i)
    <3>1. n <= Len(heard) \/ \E i \in DOMAIN queue : IsItem(queue[i]) /\ queue[i][2] = n /\ Open(i)
      BY <2>1, <2>5 DEF Reached
    <3>2. IsItem(queue[1]) /\ queue[1][2] = n => IsItem(j) /\ n <= Len(heard) + 1
      BY <1>1, <1>3, <2>3
    <3> QED BY <3>1, <3>2
  <2> QED BY <2>1, <2>3, <2>4, <2>5 DEF InOrder, Covered
<1>10. Counted'
  <2> SUFFICES ASSUME ~cancelled', runner' # "exited" PROVE InOrder' /\ Covered'
    BY DEF Counted
  <2>0. ~cancelled /\ j # <<"exit">>
    BY <1>0, <1>1, JobKinds
  <2>1. Ahead' = IF IsItem(j) THEN Len(heard) + 1 ELSE Len(heard)
    BY <1>0, <1>1, <2>0, JobKinds DEF Ahead
  <2>2. ASSUME NEW i \in DOMAIN queue' PROVE Open(i)' <=> Open(i + 1)
    <3>1. ASSUME Open(i)', NEW k \in DOMAIN queue, k < i + 1 PROVE queue[k] # <<"exit">>
      <4>1. CASE k = 1
        BY <1>1, <2>0, <4>1
      <4>2. CASE k # 1
        <5>1. k - 1 \in DOMAIN queue' /\ queue'[k - 1] = queue[k] /\ k - 1 < i
          BY <1>1, <1>2, <3>1, <4>2
        <5> QED BY <3>1, <5>1 DEF Open
      <4> QED BY <4>1, <4>2
    <3>2. ASSUME Open(i + 1), NEW k \in DOMAIN queue', k < i PROVE queue'[k] # <<"exit">>
      <4>1. k + 1 \in DOMAIN queue /\ queue'[k] = queue[k + 1] /\ k + 1 < i + 1
        BY <1>1, <1>2, <3>2
      <4> QED BY <3>2, <4>1 DEF Open
    <3> QED BY <3>1, <3>2 DEF Open
  <2>3. InOrder'
    <3>1. Ahead' <= posted'
      BY <1>0, <1>3, <1>9, <2>0, <2>1
    <3>2. runner' = "entering" /\ IsItem(taken)' => taken'[2] = Len(heard)' + 1
      BY <1>0, <1>1, <1>9, <2>0 DEF IsItem
    <3>3. ASSUME NEW i \in DOMAIN queue', IsItem(queue'[i]), Open(i)'
          PROVE  /\ queue'[i][2] = Ahead' + i /\ queue'[i][2] <= posted'
                 /\ \A k \in DOMAIN queue' : k < i => IsItem(queue'[k])
      <4>1. /\ i + 1 \in DOMAIN queue /\ i + 1 # 1 /\ i \in Nat /\ queue'[i] = queue[i + 1]
            /\ IsItem(queue[i + 1]) /\ Open(i + 1)
        BY <1>1, <1>2, <2>2, <3>3
      <4>2. IsItem(j) /\ queue[i + 1][2] = Len(heard) + (i + 1) /\ queue[i + 1][2] <= posted
        BY <1>9, <2>0, <4>1
      <4>3. Ahead' = Len(heard) + 1
        BY <2>1, <4>2
      <4>4. Len(heard) + (i + 1) = (Len(heard) + 1) + i
        BY <1>3, <4>1
      <4>5. ASSUME NEW k \in DOMAIN queue', k < i PROVE IsItem(queue'[k])
        <5>1. k + 1 \in DOMAIN queue /\ queue'[k] = queue[k + 1] /\ k + 1 < i + 1
          BY <1>1, <1>2, <4>5
        <5>2. InOrder
          BY <1>0, <2>0 DEF Counted
        <5> QED BY <4>1, <5>1, <5>2 DEF InOrder
      <4> QED BY <1>0, <4>1, <4>2, <4>3, <4>4, <4>5
    <3> QED BY <3>1, <3>2, <3>3 DEF InOrder
  <2>4. ASSUME NEW n \in Nat, Reached(n) PROVE Reached(n)'
    <3>1. CASE n <= Len(heard)
      BY <1>3, <2>1, <3>1 DEF Reached
    <3>2. CASE IsItem(j) /\ n <= Len(heard) + 1
      BY <2>1, <3>2 DEF Reached
    <3>3. ASSUME NEW i \in DOMAIN queue, i # 1, IsItem(queue[i]), queue[i][2] = n, Open(i)
          PROVE  Reached(n)'
      <4>1. PICK k \in DOMAIN queue' : k = i - 1 /\ k + 1 = i
        BY <1>1, <1>2, <3>3
      <4>2. queue'[k] = queue[i] /\ Open(k)'
        BY <1>1, <2>2, <3>3, <4>1
      <4> QED BY <3>3, <4>2 DEF Reached
    <3> QED BY <1>9, <2>0, <2>4, <3>1, <3>2, <3>3
  <2>5. NoExit' => NoExit
    BY <1>1, <1>2, <2>0 DEF NoExit
  <2>6. PICK r \in Nat, a \in Nat : r = posted /\ a = atStop
    BY <1>3
  <2>7. (NoExit' => Reached(r)') /\ (stopped' => Reached(a)')
    BY <1>0, <1>9, <2>0, <2>4, <2>5, <2>6
  <2>8. Covered'
    BY <1>0, <2>6, <2>7 DEF Covered, Reached
  <2> QED BY <2>3, <2>8
<1>11. DeliveredInOrder'
  <2>1. ASSUME finished', ~cancelled', ~stopped', ~finished PROVE Len(heard) = produced
    <3>1. j = <<"finish">> /\ NoExit
      BY <1>0, <1>1, <2>1 DEF Stopping, TypeOK
    <3>2. ~IsItem(j) /\ Reached(posted) /\ posted \in Nat
      BY <1>0, <1>3, <1>9, <2>1, <3>1, JobKinds
    <3>3. posted <= Len(heard) /\ Len(heard) <= posted
      BY <1>0, <1>9, <2>1, <3>2
    <3>4. run = "over" /\ job = <<"finish">>
      BY <1>1, <3>1 DEF Closing, Feed
    <3>5. posted = produced
      BY <1>0, <2>1, <3>4, JobKinds DEF Feed
    <3> QED BY <1>3, <3>3, <3>5
  <2> QED BY <1>0, <2>1 DEF DeliveredInOrder
<1>12. Heeded'
  <2>1. ASSUME runner' = "exited", ~cancelled' PROVE Len(heard) >= atStop
    <3>1. j = <<"exit">> /\ stopped /\ ~IsItem(j)
      <4>1. j = <<"exit">>
        BY <1>1, <2>1
      <4> QED BY <1>1, <4>1, JobKinds DEF Stopping, NoExit
    <3>2. \A i \in DOMAIN queue : i # 1 => ~Open(i)
      BY <1>1, <3>1 DEF Open
    <3>3. atStop <= Len(heard)
      BY <1>0, <1>3, <1>9, <2>1, <3>1, <3>2
    <3> QED BY <1>3, <3>3
  <2> QED BY <1>0, <2>1 DEF Heeded
<1> QED BY <1>4, <1>6, <1>7, <1>8, <1>10, <1>11, <1>12

\* The job is delivered under the lock, or dropped by a cancelled pump.
LEMMA EnterKeepsPump ==
  ASSUME PumpInv, Enter
  PROVE  PumpInv'
<1> USE DEF PumpInv
<1>0. /\ UNCHANGED <<stopped, stopper, atStop, cancelled, canceller, hooked>>
      /\ UNCHANGED <<produced, posted, interrupted, run, job, taken, queue, finished>>
      /\ runner = "entering" /\ lock = "none" /\ taken \in Deliveries /\ taken \in Jobs
  BY DEF Enter, TypeOK, Closing, stopVars, loopVars, cancelVars
<1>1. \/ cancelled /\ runner' = "idle" /\ UNCHANGED <<lock, heard>>
      \/ /\ ~cancelled /\ IsItem(taken) /\ runner' = "calling" /\ lock' = "dispatch"
         /\ heard' = Append(heard, Len(heard) + 1)
      \/ /\ ~cancelled /\ ~IsItem(taken) /\ runner' = "reporting" /\ lock' = "dispatch"
         /\ heard' = heard
  <2>1. ~cancelled /\ IsItem(taken) => taken[2] = Len(heard) + 1
    BY <1>0 DEF Counted, InOrder
  <2>2. taken = <<"failure">> => ~IsItem(taken)
    BY JobKinds
  <2> QED BY <2>1, <2>2 DEF Enter, IsItem
<1>2. /\ heard' \in Seq(1 .. MaxItems) /\ heard' = [i \in 1 .. Len(heard') |-> i]
      /\ Len(heard) <= Len(heard') /\ Len(heard) \in Nat
      /\ ~cancelled => Ahead' = Ahead
  <2>0. heard \in Seq(1 .. MaxItems) /\ heard = [i \in 1 .. Len(heard) |-> i] /\ Len(heard) \in Nat
    <3>1. heard \in Seq(1 .. MaxItems)
      BY DEF TypeOK
    <3>2. heard = [i \in 1 .. Len(heard) |-> i]
      BY DEF DeliveredInOrder
    <3> QED BY <3>1, <3>2
  <2>1. CASE heard' = heard /\ (cancelled \/ (~IsItem(taken) /\ runner' = "reporting"))
    <3>1. ~cancelled => Ahead' = Ahead
      BY <1>0, <1>1, <2>0, <2>1 DEF Ahead, IsItem
    <3>2. Len(heard') = Len(heard)
      BY <2>1
    <3> QED BY <2>0, <2>1, <3>1, <3>2
  <2>2. CASE ~cancelled /\ IsItem(taken) /\ heard' = Append(heard, Len(heard) + 1)
    <3>1. Len(heard) + 1 \in 1 .. MaxItems
      BY <1>0, <2>2, JobKinds DEF Counted, InOrder
    <3>2. /\ heard' \in Seq(1 .. MaxItems) /\ heard' = [i \in 1 .. Len(heard') |-> i]
          /\ Len(heard') = Len(heard) + 1
      BY <2>0, <2>2, <3>1, NextHeard
    <3>3. Ahead' = Ahead
      BY <1>0, <1>1, <2>2, <3>2 DEF Ahead, IsItem
    <3> QED BY <2>0, <3>2, <3>3
  <2> QED BY <1>1, <2>1, <2>2
<1>3. TypeOK'
  BY <1>0, <1>1, <1>2, ZenonT(30) DEF TypeOK
<1>4. Stopping' /\ Feed'
  BY <1>0, <1>1 DEF Stopping, Feed, NoExit
<1>5. Guarded'
  BY <1>0, <1>1 DEF Guarded, Thread
<1>6. Delivering
  BY <1>0 DEF Delivering
<1>7. Closing'
  BY <1>0, <1>1, <1>6 DEF Closing
<1>8. ASSUME ~cancelled', runner' # "exited" PROVE InOrder' /\ Covered'
  <2>1. InOrder /\ Covered /\ Ahead' = Ahead
    BY <1>0, <1>2, <1>8 DEF Counted
  <2>2. (\A i : Open(i)' <=> Open(i)) /\ (NoExit' <=> NoExit)
    BY <1>0 DEF Open, NoExit
  <2>3. InOrder'
    BY <1>0, <1>1, <2>1, <2>2 DEF InOrder
  <2>4. Covered'
    BY <1>0, <2>1, <2>2 DEF Covered, Reached
  <2> QED BY <2>3, <2>4
<1>9. DeliveredInOrder' /\ Heeded' /\ Counted'
  BY <1>0, <1>1, <1>2, <1>6, <1>8 DEF DeliveredInOrder, Heeded, Counted, Closing
<1> QED BY <1>3, <1>4, <1>5, <1>7, <1>9

LEMMA CallbackKeepsPump ==
  ASSUME PumpInv, CallbackEnds \/ CallbackRaises
  PROVE  PumpInv'
<1> USE DEF PumpInv
<1>0. /\ UNCHANGED <<stopped, stopper, atStop, cancelled, canceller, hooked, heard>>
      /\ UNCHANGED <<produced, posted, interrupted, run, job, taken, queue, finished>>
      /\ runner \in {"calling", "reporting"}
      /\ \/ runner' = "idle" /\ lock' = "none"
         \/ runner' = "reporting" /\ lock' = lock
  BY DEF CallbackEnds, CallbackRaises, stopVars, loopVars, cancelVars
<1>1. TypeOK'
  BY <1>0 DEF TypeOK
<1>2. Stopping' /\ Feed'
  BY <1>0 DEF Stopping, Feed, NoExit
<1>3. Guarded'
  BY <1>0 DEF Guarded, Thread
<1>4. Delivering' => Delivering
  BY <1>0 DEF Delivering
<1>5. Closing'
  BY <1>0, <1>4 DEF Closing
<1>6. Ahead' = Ahead
  BY <1>0 DEF Ahead
<1>7. Counted'
  BY <1>0, <1>6, SameCount
<1>8. DeliveredInOrder' /\ Heeded'
  BY <1>0 DEF DeliveredInOrder, Heeded
<1> QED BY <1>1, <1>2, <1>3, <1>5, <1>7, <1>8

\* cancel(): only the flag matters to the others.
LEMMA CancelKeepsPump ==
  ASSUME PumpInv, NEW t \in Thread, CancelReads(t) \/ CancelFlags(t) \/ CancelFinishes(t)
  PROVE  PumpInv'
<1> USE DEF PumpInv
<1>0. /\ UNCHANGED <<stopped, stopper, atStop, runner, taken, heard, lock>>
      /\ UNCHANGED <<produced, posted, run, job, queue, finished>>
      /\ cancelled' \in BOOLEAN /\ (cancelled => cancelled')
      /\ interrupted' \in BOOLEAN /\ hooked' \in BOOLEAN
  BY DEF CancelReads, CancelFlags, CancelFinishes, TypeOK, stopVars, loopVars, dispatchVars
<1>1. PICK c \in {"first", "again", "flagged", "locked", "done"} :
        /\ canceller' = [canceller EXCEPT ![t] = c]
        /\ c \in {"flagged", "locked", "done"} => cancelled'
        /\ c = "done" /\ t = "user" => lock = "none"
  <2>1. CASE CancelReads(t)
    BY <2>1 DEF CancelReads
  <2>2. CASE CancelFlags(t)
    BY <2>2 DEF CancelFlags, TypeOK
  <2>3. CASE CancelFinishes(t)
    BY <2>3 DEF CancelFinishes, Guarded, LockFree
  <2> QED BY <2>1, <2>2, <2>3
<1>2. /\ canceller' \in [Thread -> {"no", "first", "again", "flagged", "locked", "done"}]
      /\ canceller'[t] = c /\ \A u \in Thread : u # t => canceller'[u] = canceller[u]
  BY <1>1 DEF TypeOK
<1>3. TypeOK'
  BY <1>0, <1>2 DEF TypeOK
<1>4. Stopping' /\ Feed'
  BY <1>0 DEF Stopping, Feed, NoExit
<1>5. Guarded'
  BY <1>0, <1>1, <1>2 DEF Guarded, Thread, TypeOK
<1>6. Delivering' <=> Delivering
  BY <1>0 DEF Delivering
<1>7. Closing'
  BY <1>0, <1>6 DEF Closing
<1>8. Ahead' = Ahead
  BY <1>0 DEF Ahead
<1>9. Counted'
  BY <1>0, <1>8, SameCount
<1>10. DeliveredInOrder' /\ Heeded'
  BY <1>0 DEF DeliveredInOrder, Heeded
<1> QED BY <1>3, <1>4, <1>5, <1>7, <1>9, <1>10

\* stop(): the portal is marked, and in the end the sentinel is queued.
LEMMA StopKeepsPump ==
  ASSUME PumpInv, MarkStopped \/ HaltLoop
  PROVE  PumpInv'
<1> USE DEF PumpInv
<1>0. /\ UNCHANGED <<produced, posted, interrupted, run, job, runner, taken, heard>>
      /\ UNCHANGED <<cancelled, canceller, hooked, queue, lock, finished>>
      /\ stopped' = TRUE /\ stopper' \in {"marked", "halted"} /\ stopper # "done"
      /\ \/ stopped /\ atStop' = atStop
         \/ ~stopped /\ atStop' = posted
  BY DEF MarkStopped, HaltLoop, TypeOK, Stopping, loopVars, dispatchVars, cancelVars
<1>1. TypeOK'
  BY <1>0 DEF TypeOK
<1>2. Stopping' /\ NoExit /\ NoExit' /\ runner # "exited"
  BY <1>0 DEF Stopping, NoExit
<1>3. Guarded' /\ Feed'
  BY <1>0 DEF Guarded, Feed
<1>4. Closing'
  BY <1>0 DEF Closing
<1>5. ASSUME ~cancelled PROVE InOrder' /\ Covered'
  <2>1. InOrder /\ Covered /\ Ahead' = Ahead /\ \A i : Open(i)' <=> Open(i)
    BY <1>0, <1>2, <1>5 DEF Counted, Ahead, Open
  <2>2. InOrder'
    BY <1>0, <2>1 DEF InOrder
  <2>3. Covered'
    BY <1>0, <1>2, <2>1 DEF Covered, Reached
  <2> QED BY <2>2, <2>3
<1>6. Counted' /\ DeliveredInOrder' /\ Heeded'
  BY <1>0, <1>2, <1>5 DEF Counted, DeliveredInOrder, Heeded
<1> QED BY <1>1, <1>2, <1>3, <1>4, <1>6

LEMMA PutExitKeepsPump ==
  ASSUME PumpInv, PutExit
  PROVE  PumpInv'
<1> USE DEF PumpInv
<1>0. /\ UNCHANGED <<produced, posted, interrupted, run, job, runner, taken, heard, stopped, atStop>>
      /\ UNCHANGED <<cancelled, canceller, hooked, lock, finished>>
      /\ stopped /\ stopper' = "done" /\ queue' = Append(queue, <<"exit">>) /\ queue \in Seq(Jobs)
  BY DEF PutExit, TypeOK, Stopping, loopVars, dispatchVars, cancelVars
<1>1. PICK p \in Nat :
        /\ queue' \in Seq(Jobs)
        /\ DOMAIN queue' = DOMAIN queue \cup {p}
        /\ \A i \in DOMAIN queue : i < p /\ ~(p < i) /\ queue'[i] = queue[i]
        /\ ~(p < p) /\ queue'[p] = <<"exit">>
  <2>1. /\ queue' \in Seq(Jobs)
        /\ DOMAIN queue' = DOMAIN queue \cup {Len(queue) + 1}
        /\ DOMAIN queue = 1 .. Len(queue) /\ Len(queue) \in Nat
        /\ \A i \in DOMAIN queue : queue'[i] = queue[i]
        /\ queue'[Len(queue) + 1] = <<"exit">>
    BY <1>0, Appended, JobKinds
  <2> QED BY <2>1
<1>2. TypeOK'
  BY <1>0, <1>1 DEF TypeOK
<1>3. ~NoExit' /\ Stopping' /\ Guarded' /\ Feed'
  BY <1>0, <1>1 DEF Stopping, NoExit, Guarded, Feed
<1>4. Closing'
  BY <1>0, <1>1, JobKinds DEF Closing
<1>5. ASSUME ~cancelled, runner # "exited" PROVE InOrder' /\ Covered'
  <2>1. InOrder /\ Covered /\ Ahead' = Ahead /\ \A i \in DOMAIN queue : Open(i)' <=> Open(i)
    BY <1>0, <1>1, <1>5 DEF Counted, Ahead, Open
  <2>2. InOrder'
    BY <1>0, <1>1, <2>1, JobKinds DEF InOrder
  <2>3. Covered'
    BY <1>0, <1>1, <1>3, <2>1 DEF Covered, Reached
  <2> QED BY <2>2, <2>3
<1>6. Counted' /\ DeliveredInOrder' /\ Heeded'
  BY <1>0, <1>5 DEF Counted, DeliveredInOrder, Heeded
<1> QED BY <1>2, <1>3, <1>4, <1>6

-------------------------------------------------------------------------------
(* The pump's promises *)

LEMMA PumpNext == PumpInv /\ [Next]_vars => PumpInv'
<1> SUFFICES ASSUME PumpInv, [Next]_vars PROVE PumpInv'
  OBVIOUS
<1>1. ASSUME LoopThread \/ ItemArrives \/ SourceEnds \/ TearDown PROVE PumpInv'
  BY <1>1, LoopStepsKeepPump, PutKeepsPump DEF LoopThread
<1>2. ASSUME DispatchThread \/ CallbackRaises PROVE PumpInv'
  BY <1>2, TakeKeepsPump, EnterKeepsPump, CallbackKeepsPump DEF DispatchThread
<1>3. ASSUME NEW t \in Thread, CancelReads(t) \/ CancelStep(t) PROVE PumpInv'
  BY <1>3, CancelKeepsPump DEF CancelStep
<1>4. ASSUME MarkStopped \/ HaltLoop \/ PutExit PROVE PumpInv'
  BY <1>4, StopKeepsPump, PutExitKeepsPump
<1>5. ASSUME UNCHANGED vars PROVE PumpInv'
  <2>1. /\ UNCHANGED <<produced, posted, interrupted, run, job, runner, taken, heard, stopped, atStop>>
        /\ UNCHANGED <<stopper, cancelled, canceller, hooked, lock, finished, queue>>
    BY <1>5 DEF vars, stopVars, loopVars, dispatchVars, cancelVars
  <2>2. TypeOK' /\ Stopping' /\ Guarded' /\ Feed'
    BY <2>1 DEF PumpInv, TypeOK, Stopping, Guarded, Feed, NoExit
  <2>3. Closing' /\ DeliveredInOrder' /\ Heeded'
    BY <2>1 DEF PumpInv, Closing, DeliveredInOrder, Heeded, Delivering
  <2>4. Ahead' = Ahead
    BY <2>1 DEF Ahead
  <2>5. Counted'
    BY <2>1, <2>4, SameCount DEF PumpInv
  <2> QED BY <2>2, <2>3, <2>5 DEF PumpInv
<1> QED BY <1>1, <1>2, <1>3, <1>4, <1>5 DEF Next

LEMMA PumpAlways == Spec => []PumpInv
BY PumpInit, PumpNext, PTL DEF Spec

\* Queue, flags and the states of the three threads keep their types.
THEOREM TypeCorrect == Spec => []TypeOK
<1>1. PumpInv => TypeOK
  BY DEF PumpInv
<1> QED BY <1>1, PumpAlways, PTL

\* cancel() has returned to another thread: no callback runs any more.
THEOREM CancelledIsSilent == Spec => []CancelSilences
<1>1. PumpInv => CancelSilences
  BY DEF PumpInv, Guarded, CancelSilences
<1> QED BY <1>1, PumpAlways, PTL

\* The callback hears the items of the source in order, none twice and none
\* left out, and all of them when the pump finishes by itself.
THEOREM ItemsInOrder == Spec => []DeliveredInOrder
<1>1. PumpInv => DeliveredInOrder
  BY DEF PumpInv
<1> QED BY <1>1, PumpAlways, PTL

\* The finished event is set behind every delivery, and stop() lets run what
\* was queued before it.
THEOREM FinishedAtTheEnd == Spec => []FinishedIsLast
<1>1. PumpInv => FinishedIsLast
  BY DEF PumpInv, Closing, Heeded, FinishedIsLast
<1> QED BY <1>1, PumpAlways, PTL
===============================================================================
