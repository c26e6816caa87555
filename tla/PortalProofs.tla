----------------------------- MODULE PortalProofs -----------------------------
(***************************************************************************)
(* The safety properties of Portal, for every set of calls.                *)
(*                                                                         *)
(* All of them are about the handles of the loop: which are pending for a  *)
(* call says how far its task is, and where they lie in the queue says     *)
(* what runs before the loop is closed.  Four relations between a handle   *)
(* and a queue carry the proof (Held, Once, Precedes, Within); the lemmas  *)
(* of the first part say what taking a handle and adding one do to them,   *)
(* and the proofs about the actions never look into the queue again.       *)
(*                                                                         *)
(* PortalInv relates each caller to its future (Paired), the future to the *)
(* task and its handles (Worked), the flags of stop() to each other        *)
(* (Marked), the calls made in time to the stop handle (Swept), and the    *)
(* teardown to the tasks it must have ended (Torn, Drained).               *)
(***************************************************************************)
EXTENDS Portal, TLAPS

\* h is in the queue q.
Held(h, q) == \E i \in 1 .. Len(q) : q[i] = h

\* h is in q at most once.
Once(h, q) == \A i, j \in 1 .. Len(q) : q[i] = h /\ q[j] = h => i = j

\* q after its first handle has been taken and those of s have been added.
Taken(q, s) == Tail(q) \o s

\* q with x added.
Added(q, x) == Append(q, x)

\* Every h in q lies before every g.
Precedes(h, g, q) == \A i, j \in 1 .. Len(q) : q[i] = h /\ q[j] = g => i < j

\* Every h in q is among the first n.
Within(h, n, q) == \A i \in 1 .. Len(q) : q[i] = h => i <= n

\* The handle that does op to c is pending; the loop has one to create c's
\* task at most; the stop of the loop is pending.
Pending(op, c) == Held(<<op, c>>, ready)
CreatedOnce(c) == Once(<<"create", c>>, ready)
StopPending == Held(<<"stop">>, ready)

PairedAt(c) ==
  /\ caller[c] \in {"idle", "checked"} => future[c] = "none"
  /\ caller[c] = "waiting" => future[c] # "none"
  /\ caller[c] # "returned" => outcome[c] = "none"
  /\ outcome[c] = "refused" => future[c] = "none"
  /\ outcome[c] = "timeout" => future[c] = "cancelled"

\* The caller and its future agree.
Paired == \A c \in Call : PairedAt(c)

WorkedAt(c) ==
  /\ future[c] = "none" => task[c] = "none" /\ ~Pending("create", c)
  /\ task[c] # "none" => ~Pending("create", c)
  /\ CreatedOnce(c)
  /\ future[c] = "result" => task[c] = "finished"
  /\ future[c] = "cancelled" /\ outcome[c] # "timeout" => task[c] = "cancelled"
  /\ Pending("settle", c) => Over(c)
  /\ Pending("cancel", c) => outcome[c] = "timeout" /\ task[c] # "none"
  /\ loop # "closed" /\ future[c] = "pending" /\ task[c] = "none" => Pending("create", c)
  /\ loop # "closed" /\ future[c] = "pending" /\ Over(c) => Pending("settle", c)
  /\ task[c] \in {"cancelling", "cancelled"} => stopped \/ outcome[c] = "timeout"

\* The future, the task and the pending handles of a call agree.
Worked == \A c \in Call : WorkedAt(c)

TruthAt(c) ==
  /\ outcome[c] = "refused" => task[c] = "none" /\ stopped
  /\ outcome[c] = "result" => task[c] = "finished"
  /\ outcome[c] = "stopped" => task[c] = "cancelled" /\ stopped
  /\ outcome[c] # "cancelled"
  /\ outcome[c] = "timeout" /\ loop # "closed" =>
       Over(c) \/ task[c] = "cancelling" \/ Pending("create", c) \/ Pending("cancel", c)

\* OutcomeIsTrue, in these words.
Truth == \A c \in Call : TruthAt(c)

\* Nothing of the stop happens before the flag is set.
Marked ==
  /\ stopper # "idle" => stopped
  /\ StopPending => stopped
  /\ halting => stopped
  /\ loop # "running" => halting
  /\ loop = "closed" => batch = 0

CallInv == TypeOK /\ Paired /\ Worked /\ Truth /\ Marked

SweptAt(c) ==
  c \notin overtaken =>
    /\ Precedes(<<"create", c>>, <<"stop">>, ready)
    /\ halting => ~Pending("create", c)

\* A call made before stop() began has its task before the loop looks at its
\* stop flag.
Swept == \A c \in Call : SweptAt(c)

\* The teardown waits for every task of such a call.
Torn ==
  /\ loop = "gathering" => Unfinished \subseteq torn \cup overtaken
  /\ loop \in {"draining", "closed"} => Unfinished \subseteq overtaken

\* Once the last laps have begun, the results of such calls are in the lap.
Drained ==
  loop = "draining" /\ laps < DrainLaps =>
    \A c \in Call : c \notin overtaken => Within(<<"settle", c>>, batch, ready)

\* What the calls made before stop() began are owed.
StopInv == Swept /\ Torn /\ Drained /\ StopEndsCalls

PortalInv == CallInv /\ StopInv

-------------------------------------------------------------------------------
(* Handles and queues of them *)

\* Handles are equal when what they do and their calls are.
LEMMA HandleKinds ==
  ASSUME NEW op \in {"create", "step", "cancel", "settle"}, NEW c \in Call,
         NEW other \in {"create", "step", "cancel", "settle"}, NEW d \in Call
  PROVE  /\ <<op, c>> = <<other, d>> => op = other /\ c = d
         /\ <<op, c>> # <<"stop">>
         /\ <<op, c>> \in Handles /\ <<"stop">> \in Handles
<1>1. <<op, c>> = <<other, d>> => op = other /\ c = d
  OBVIOUS
<1>2. <<op, c>>[1] = op /\ <<"stop">>[1] = "stop"
  OBVIOUS
<1>3. op # "stop"
  OBVIOUS
<1>4. <<op, c>> # <<"stop">>
  BY <1>2, <1>3
<1>5. <<op, c>> \in Handles /\ <<"stop">> \in Handles
  BY DEF Handles
<1> QED
  BY <1>1, <1>4, <1>5

\* Where the handles of a queue are after its first has been taken and more
\* have been added.
LEMMA TakenAt ==
  ASSUME NEW H, NEW q \in Seq(H), Len(q) > 0, NEW s \in Seq(H), NEW r, r = Taken(q, s)
  PROVE  /\ r \in Seq(H) /\ Len(r) = Len(q) - 1 + Len(s) /\ Len(r) \in Nat
         /\ \A i \in 1 .. Len(q) - 1 : r[i] = q[i + 1]
         /\ \A i \in 1 .. Len(s) : r[Len(q) - 1 + i] = s[i]
         /\ Head(q) = q[1]
<1>1. Tail(q) \in Seq(H) /\ Len(Tail(q)) = Len(q) - 1 /\ \A i \in 1 .. Len(q) - 1 : Tail(q)[i] = q[i + 1]
  OBVIOUS
<1>2. r \in Seq(H) /\ Len(r) = Len(Tail(q)) + Len(s)
  BY <1>1 DEF Taken
<1>3. \A i \in 1 .. Len(r) : r[i] = IF i <= Len(Tail(q)) THEN Tail(q)[i] ELSE s[i - Len(Tail(q))]
  BY <1>1, <1>2 DEF Taken
<1>4. ASSUME NEW i \in 1 .. Len(q) - 1
      PROVE  r[i] = q[i + 1]
  <2>1. i \in 1 .. Len(r) /\ i <= Len(Tail(q))
    BY <1>1, <1>2
  <2>2. r[i] = Tail(q)[i]
    BY <2>1, <1>3
  <2> QED
    BY <2>2, <1>1
<1>5. ASSUME NEW i \in 1 .. Len(s)
      PROVE  r[Len(q) - 1 + i] = s[i]
  <2>1. Len(q) - 1 + i \in 1 .. Len(r) /\ Len(q) - 1 + i > Len(Tail(q)) /\ (Len(q) - 1 + i) - Len(Tail(q)) = i
    BY <1>1, <1>2
  <2> QED
    BY <2>1, <1>3
<1> QED
  BY <1>1, <1>2, <1>4, <1>5

\* Taking the first handle of q and adding those of s: what it does to the
\* handle h, of which s adds none or some.
LEMMA TakenHeld ==
  ASSUME NEW H, NEW q \in Seq(H), Len(q) > 0, NEW s \in Seq(H), NEW r, r = Taken(q, s), NEW h
  PROVE  /\ Held(h, r) => Held(h, q) \/ Held(h, s)
         /\ Held(h, q) => h = Head(q) \/ Held(h, r)
         /\ Held(h, s) => Held(h, r)
         /\ Once(h, q) /\ ~Held(h, s) => Once(h, r)
         /\ Once(h, q) /\ ~Held(h, s) /\ h = Head(q) => ~Held(h, r)
         /\ Held(Head(q), q)
<1>1. /\ Len(r) = Len(q) - 1 + Len(s)
      /\ \A i \in 1 .. Len(q) - 1 : r[i] = q[i + 1]
      /\ \A i \in 1 .. Len(s) : r[Len(q) - 1 + i] = s[i]
      /\ Head(q) = q[1]
  <2>1. Len(r) = Len(q) - 1 + Len(s)
    BY TakenAt
  <2>2. \A i \in 1 .. Len(q) - 1 : r[i] = q[i + 1]
    BY TakenAt
  <2>3. \A i \in 1 .. Len(s) : r[Len(q) - 1 + i] = s[i]
    BY TakenAt
  <2>4. Head(q) = q[1]
    OBVIOUS
  <2> QED
    BY <2>1, <2>2, <2>3, <2>4, Zenon
<1>2. Len(q) \in Nat /\ Len(s) \in Nat
  OBVIOUS
<1>3. ASSUME NEW i \in 1 .. Len(r)
      PROVE  \/ i \in 1 .. Len(q) - 1 /\ i + 1 \in 1 .. Len(q) /\ r[i] = q[i + 1]
             \/ \E k \in 1 .. Len(s) : r[i] = s[k]
  <2>1. CASE i <= Len(q) - 1
    BY <2>1, <1>1, <1>2
  <2>2. CASE ~(i <= Len(q) - 1)
    <3>1. i - (Len(q) - 1) \in 1 .. Len(s) /\ Len(q) - 1 + (i - (Len(q) - 1)) = i
      BY <2>2, <1>1, <1>2
    <3>2. r[i] = s[i - (Len(q) - 1)]
      BY <3>1, <1>1
    <3> QED
      BY <3>1, <3>2
  <2> QED
    BY <2>1, <2>2
<1>4. Held(h, r) => Held(h, q) \/ Held(h, s)
  BY <1>3 DEF Held
<1>5. ASSUME NEW i \in 1 .. Len(q), q[i] = h, h # Head(q)
      PROVE  Held(h, r)
  <2>0. i # 1
    BY <1>5, <1>1
  <2>1. i - 1 \in 1 .. Len(q) - 1 /\ (i - 1) + 1 = i /\ i - 1 \in 1 .. Len(r)
    BY <2>0, <1>1, <1>2
  <2> QED
    BY <2>1, <1>5, <1>1 DEF Held
<1>6. ASSUME NEW i \in 1 .. Len(s), s[i] = h
      PROVE  Held(h, r)
  <2>1. Len(q) - 1 + i \in 1 .. Len(r)
    BY <1>1, <1>2
  <2> QED
    BY <2>1, <1>6, <1>1 DEF Held
<1>7. ASSUME Once(h, q), ~Held(h, s)
      PROVE  Once(h, r)
  <2> SUFFICES ASSUME NEW i \in 1 .. Len(r), NEW j \in 1 .. Len(r), r[i] = h, r[j] = h
               PROVE  i = j
    BY DEF Once
  <2>1. i + 1 \in 1 .. Len(q) /\ q[i + 1] = h /\ j + 1 \in 1 .. Len(q) /\ q[j + 1] = h
    BY <1>3, <1>7 DEF Held
  <2>2. i + 1 = j + 1
    BY <2>1, <1>7 DEF Once
  <2> QED
    BY <2>2
<1>8. ASSUME Once(h, q), ~Held(h, s), h = Head(q), Held(h, r)
      PROVE  FALSE
  <2>1. PICK i \in 1 .. Len(r) : r[i] = h
    BY <1>8 DEF Held
  <2>2. i + 1 \in 1 .. Len(q) /\ q[i + 1] = h
    BY <2>1, <1>3, <1>8 DEF Held
  <2>3. 1 \in 1 .. Len(q) /\ q[1] = h
    BY <1>8, <1>1, <1>2
  <2>4. i + 1 = 1
    BY <2>2, <2>3, <1>8 DEF Once
  <2> QED
    BY <2>4
<1>9. Held(Head(q), q)
  <2>1. 1 \in 1 .. Len(q) /\ q[1] = Head(q)
    BY <1>1, <1>2
  <2> QED
    BY <2>1 DEF Held
<1> QED
  BY <1>4, <1>5, <1>6, <1>7, <1>8, <1>9 DEF Held

\* The same for where h lies.
LEMMA TakenPlace ==
  ASSUME NEW H, NEW q \in Seq(H), Len(q) > 0, NEW s \in Seq(H), NEW r, r = Taken(q, s),
         NEW h, ~Held(h, s), NEW g, ~Held(g, s), g # h, NEW n \in Nat, n > 0
  PROVE  /\ Precedes(h, g, q) => Precedes(h, g, r)
         /\ Precedes(h, g, q) /\ g = Head(q) => ~Held(h, r)
         /\ Within(h, n, q) => Within(h, n - 1, r)
<1>1. /\ Len(r) = Len(q) - 1 + Len(s)
      /\ \A i \in 1 .. Len(q) - 1 : r[i] = q[i + 1]
      /\ \A i \in 1 .. Len(s) : r[Len(q) - 1 + i] = s[i]
      /\ Head(q) = q[1]
  <2>1. Len(r) = Len(q) - 1 + Len(s)
    BY TakenAt
  <2>2. \A i \in 1 .. Len(q) - 1 : r[i] = q[i + 1]
    BY TakenAt
  <2>3. \A i \in 1 .. Len(s) : r[Len(q) - 1 + i] = s[i]
    BY TakenAt
  <2>4. Head(q) = q[1]
    OBVIOUS
  <2> QED
    BY <2>1, <2>2, <2>3, <2>4, Zenon
<1>2. Len(q) \in Nat /\ Len(s) \in Nat
  OBVIOUS
<1>3. ASSUME NEW i \in 1 .. Len(r), NEW k, ~Held(k, s), r[i] = k
      PROVE  i + 1 \in 1 .. Len(q) /\ q[i + 1] = k
  <2>1. CASE i <= Len(q) - 1
    BY <2>1, <1>1, <1>2, <1>3
  <2>2. CASE ~(i <= Len(q) - 1)
    <3>1. i - (Len(q) - 1) \in 1 .. Len(s) /\ Len(q) - 1 + (i - (Len(q) - 1)) = i
      BY <2>2, <1>1, <1>2
    <3>2. s[i - (Len(q) - 1)] = k
      BY <3>1, <1>1, <1>3
    <3> QED
      BY <3>1, <3>2, <1>3 DEF Held
  <2> QED
    BY <2>1, <2>2
<1>4. ASSUME Precedes(h, g, q)
      PROVE  Precedes(h, g, r)
  <2> SUFFICES ASSUME NEW i \in 1 .. Len(r), NEW j \in 1 .. Len(r), r[i] = h, r[j] = g
               PROVE  i < j
    BY DEF Precedes
  <2>1. i + 1 \in 1 .. Len(q) /\ q[i + 1] = h /\ j + 1 \in 1 .. Len(q) /\ q[j + 1] = g
    BY <1>3
  <2>2. i + 1 < j + 1
    BY <2>1, <1>4 DEF Precedes
  <2> QED
    BY <2>2
<1>5. ASSUME Precedes(h, g, q), g = Head(q), Held(h, r)
      PROVE  FALSE
  <2>1. PICK i \in 1 .. Len(r) : r[i] = h
    BY <1>5 DEF Held
  <2>2. i + 1 \in 1 .. Len(q) /\ q[i + 1] = h
    BY <2>1, <1>3
  <2>3. 1 \in 1 .. Len(q) /\ q[1] = g
    BY <1>5, <1>1, <1>2
  <2>4. i + 1 < 1
    BY <2>2, <2>3, <1>5 DEF Precedes
  <2> QED
    BY <2>4
<1>6. ASSUME Within(h, n, q)
      PROVE  Within(h, n - 1, r)
  <2> SUFFICES ASSUME NEW i \in 1 .. Len(r), r[i] = h
               PROVE  i <= n - 1
    BY DEF Within
  <2>1. i + 1 \in 1 .. Len(q) /\ q[i + 1] = h
    BY <1>3
  <2>2. i + 1 <= n
    BY <2>1, <1>6 DEF Within
  <2> QED
    BY <2>2
<1> QED
  BY <1>4, <1>5, <1>6

\* Adding one handle at the end.
LEMMA AddedAt ==
  ASSUME NEW H, NEW q \in Seq(H), NEW x \in H, NEW r, r = Added(q, x)
  PROVE  /\ r \in Seq(H) /\ Len(r) = Len(q) + 1 /\ Len(q) \in Nat
         /\ \A i \in 1 .. Len(q) : r[i] = q[i]
         /\ r[Len(q) + 1] = x
  BY DEF Added

LEMMA AddedHeld ==
  ASSUME NEW H, NEW q \in Seq(H), NEW x \in H, NEW r, r = Added(q, x), NEW h
  PROVE  /\ Held(h, r) <=> Held(h, q) \/ h = x
         /\ Once(h, q) /\ (h # x \/ ~Held(h, q)) => Once(h, r)
<1>1. Len(r) = Len(q) + 1 /\ Len(q) \in Nat /\ r[Len(q) + 1] = x
  BY DEF Added
<1>2. ASSUME NEW i \in 1 .. Len(q)
      PROVE  r[i] = q[i] /\ i \in 1 .. Len(r)
  BY <1>1 DEF Added
<1>3. ASSUME NEW i \in 1 .. Len(r)
      PROVE  i \in 1 .. Len(q) \/ i = Len(q) + 1
  BY <1>1
<1>4. Held(h, r) <=> Held(h, q) \/ h = x
  <2>1. Len(q) + 1 \in 1 .. Len(r)
    BY <1>1
  <2> QED
    BY <2>1, <1>1, <1>2, <1>3 DEF Held
<1>5. Once(h, q) /\ (h # x \/ ~Held(h, q)) => Once(h, r)
  BY <1>1, <1>2, <1>3 DEF Once, Held
<1> QED
  BY <1>4, <1>5

LEMMA AddedPlace ==
  ASSUME NEW H, NEW q \in Seq(H), NEW x \in H, NEW r, r = Added(q, x), NEW h, h # x, NEW g, g # h, NEW n \in Nat
  PROVE  /\ Precedes(h, g, q) => Precedes(h, g, r)
         /\ Within(h, n, q) => Within(h, n, r)
<1>1. Len(r) = Len(q) + 1 /\ Len(q) \in Nat /\ r[Len(q) + 1] = x
  BY DEF Added
<1>2. ASSUME NEW i \in 1 .. Len(q)
      PROVE  r[i] = q[i]
  BY <1>1 DEF Added
<1>3. ASSUME NEW i \in 1 .. Len(r)
      PROVE  i \in 1 .. Len(q) \/ i = Len(q) + 1
  BY <1>1
<1>4. Precedes(h, g, q) => Precedes(h, g, r)
  BY <1>1, <1>2, <1>3 DEF Precedes
<1>5. Within(h, n, q) => Within(h, n, r)
  BY <1>1, <1>2, <1>3 DEF Within
<1> QED
  BY <1>4, <1>5

\* What the loop schedules at once is none, one or two handles.
LEMMA FewHeld ==
  ASSUME NEW a, NEW b, NEW h
  PROVE  /\ ~Held(h, <<>>)
         /\ Held(h, <<a>>) <=> h = a
         /\ Held(h, <<a, b>>) <=> h = a \/ h = b
<1>1. Len(<<>>) = 0 /\ Len(<<a>>) = 1 /\ Len(<<a, b>>) = 2
  OBVIOUS
<1>2. <<a>>[1] = a /\ <<a, b>>[1] = a /\ <<a, b>>[2] = b
  OBVIOUS
<1>3. 1 .. 0 = {} /\ 1 .. 1 = {1} /\ 1 .. 2 = {1, 2}
  OBVIOUS
<1>4. ~Held(h, <<>>)
  BY <1>1, <1>3 DEF Held
<1>5. Held(h, <<a>>) <=> h = a
  BY <1>1, <1>2, <1>3 DEF Held
<1>6. Held(h, <<a, b>>) <=> h = a \/ h = b
  BY <1>1, <1>2, <1>3 DEF Held
<1> QED
  BY <1>4, <1>5, <1>6

-------------------------------------------------------------------------------
(* The two ways an action changes the queue *)

LEMMA Adds ==
  ASSUME ready \in Seq(Handles), NEW x \in Handles, ready' = Append(ready, x), NEW h
  PROVE  /\ ready' \in Seq(Handles) /\ Len(ready') = Len(ready) + 1
         /\ Held(h, ready') <=> Held(h, ready) \/ h = x
         /\ Once(h, ready) /\ (h # x \/ ~Held(h, ready)) => Once(h, ready')
<1> DEFINE q == ready  r == ready'
<1>1. r = Added(q, x) /\ q \in Seq(Handles)
  BY DEF Added
<1> HIDE DEF q, r
<1>2. r \in Seq(Handles) /\ Len(r) = Len(q) + 1
  BY <1>1, AddedAt
<1>3. Held(h, r) <=> Held(h, q) \/ h = x
  BY <1>1, AddedHeld
<1>4. Once(h, q) /\ (h # x \/ ~Held(h, q)) => Once(h, r)
  BY <1>1, AddedHeld
<1> QED
  BY <1>2, <1>3, <1>4 DEF q, r

LEMMA AddsPlace ==
  ASSUME ready \in Seq(Handles), NEW x \in Handles, ready' = Append(ready, x), NEW h, h # x, NEW g, g # h, NEW n \in Nat
  PROVE  /\ Precedes(h, g, ready) => Precedes(h, g, ready')
         /\ Within(h, n, ready) => Within(h, n, ready')
<1> DEFINE q == ready  r == ready'
<1>1. r = Added(q, x) /\ q \in Seq(Handles)
  BY DEF Added
<1> HIDE DEF q, r
<1>2. Precedes(h, g, q) => Precedes(h, g, r)
  BY <1>1, AddedPlace
<1>3. Within(h, n, q) => Within(h, n, r)
  BY <1>1, AddedPlace
<1> QED
  BY <1>2, <1>3 DEF q, r

LEMMA Takes ==
  ASSUME TypeOK, NEW x, NEW s \in Seq(Handles),
         batch > 0, Head(ready) = x, ready' = Tail(ready) \o s, batch' = batch - 1, NEW h
  PROVE  /\ ready' \in Seq(Handles) /\ batch' \in Nat /\ batch' <= Len(ready')
         /\ Held(x, ready)
         /\ Held(h, ready') => Held(h, ready) \/ Held(h, s)
         /\ Held(h, ready) => h = x \/ Held(h, ready')
         /\ Held(h, s) => Held(h, ready')
         /\ Once(h, ready) /\ ~Held(h, s) => Once(h, ready')
         /\ Once(h, ready) /\ ~Held(h, s) /\ h = x => ~Held(h, ready')
<1> DEFINE q == ready  r == ready'
<1>1. r = Taken(q, s) /\ q \in Seq(Handles) /\ Len(q) > 0 /\ Head(q) = x
  BY DEF Taken, TypeOK
<1>2. batch \in Nat /\ batch <= Len(q) /\ Len(q) \in Nat /\ Len(s) \in Nat
  BY DEF TypeOK
<1> HIDE DEF q, r
<1>3. r \in Seq(Handles)
  BY <1>1, TakenAt
<1>4. Len(r) = Len(q) - 1 + Len(s)
  BY <1>1, TakenAt
<1>5. batch' \in Nat /\ batch' <= Len(r)
  BY <1>2, <1>4
<1>6. Held(x, q)
  BY <1>1, TakenHeld
<1>7. Held(h, r) => Held(h, q) \/ Held(h, s)
  BY <1>1, TakenHeld
<1>8. Held(h, q) => h = x \/ Held(h, r)
  BY <1>1, TakenHeld
<1>9. Held(h, s) => Held(h, r)
  BY <1>1, TakenHeld
<1>10. Once(h, q) /\ ~Held(h, s) => Once(h, r)
  BY <1>1, TakenHeld
<1>11. Once(h, q) /\ ~Held(h, s) /\ h = x => ~Held(h, r)
  BY <1>1, TakenHeld
<1> QED
  BY <1>3, <1>5, <1>6, <1>7, <1>8, <1>9, <1>10, <1>11 DEF q, r

LEMMA TakesPlace ==
  ASSUME TypeOK, NEW x, NEW s \in Seq(Handles),
         batch > 0, Head(ready) = x, ready' = Tail(ready) \o s, batch' = batch - 1,
         NEW h, NEW g, ~Held(h, s), ~Held(g, s), g # h
  PROVE  /\ Precedes(h, g, ready) => Precedes(h, g, ready')
         /\ Precedes(h, g, ready) /\ g = x => ~Held(h, ready')
         /\ Within(h, batch, ready) => Within(h, batch', ready')
<1> DEFINE q == ready  r == ready'
<1>1. r = Taken(q, s) /\ q \in Seq(Handles) /\ Len(q) > 0 /\ Head(q) = x
  BY DEF Taken, TypeOK
<1>2. batch \in Nat
  BY DEF TypeOK
<1> HIDE DEF q, r
<1>3. Precedes(h, g, q) => Precedes(h, g, r)
  BY <1>1, <1>2, TakenPlace
<1>4. Precedes(h, g, q) /\ g = x => ~Held(h, r)
  BY <1>1, <1>2, TakenPlace
<1>5. PICK n \in Nat : n = batch
  BY <1>2
<1>6. Within(h, n, q) => Within(h, n - 1, r)
  <2>1. n > 0
    BY <1>5
  <2> QED
    BY <1>1, <2>1, TakenPlace
<1> QED
  BY <1>3, <1>4, <1>5, <1>6 DEF q, r

-------------------------------------------------------------------------------
(* Types *)

LEMMA TypeInit == Init => TypeOK
<1> SUFFICES ASSUME Init
             PROVE  TypeOK
  OBVIOUS
<1>1. ready \in Seq(Handles) /\ batch \in Nat /\ batch <= Len(ready)
  BY DEF Init
<1>2. laps \in 0 .. DrainLaps
  BY DEF Init, DrainLaps
<1> QED
  BY <1>1, <1>2 DEF Init, TypeOK

\* A handle is run: what becomes of the queue and of the lap.
LEMMA TypeRuns ==
  ASSUME TypeOK, NEW op, NEW c \in Call, NEW s \in Seq(Handles), Runs(op, c, s),
         future' \in [Call -> {"none", "pending", "result", "cancelled"}],
         task' \in [Call -> {"none", "scheduled", "suspended", "cancelling", "finished", "cancelled"}]
  PROVE  TypeOK'
<1>1. batch > 0 /\ Head(ready) = <<op, c>> /\ ready' = Tail(ready) \o s /\ batch' = batch - 1
  BY DEF Runs
<1>2. ready' \in Seq(Handles) /\ batch' \in Nat /\ batch' <= Len(ready')
  BY <1>1, Takes
<1> QED
  BY <1>2 DEF TypeOK, Runs, callVars

LEMMA Scheduled ==
  ASSUME NEW c \in Call
  PROVE  /\ <<>> \in Seq(Handles)
         /\ <<<<"step", c>>>> \in Seq(Handles)
         /\ <<<<"settle", c>>>> \in Seq(Handles)
         /\ <<<<"step", c>>, <<"cancel", c>>>> \in Seq(Handles)
<1>1. <<"step", c>> \in Handles /\ <<"settle", c>> \in Handles /\ <<"cancel", c>> \in Handles
  BY DEF Handles
<1> HIDE DEF Handles
<1> QED
  BY <1>1

LEMMA TypeStep == TypeOK /\ [Next]_vars => TypeOK'
<1> SUFFICES ASSUME TypeOK, [Next]_vars
             PROVE  TypeOK'
  OBVIOUS
<1> USE DEF callVars, loopVars
<1>0. ASSUME NEW x \in Handles, ready' = Append(ready, x), UNCHANGED batch
      PROVE  ready' \in Seq(Handles) /\ batch' \in Nat /\ batch' <= Len(ready')
  <2>1. ready \in Seq(Handles) /\ batch \in Nat /\ batch <= Len(ready) /\ Len(ready) \in Nat
    BY DEF TypeOK
  <2>2. ready' \in Seq(Handles) /\ Len(ready') = Len(ready) + 1
    BY <1>0, <2>1, Adds
  <2> QED
    BY <1>0, <2>1, <2>2
<1>1. ASSUME NEW c \in Call, Check(c)
      PROVE  TypeOK'
  BY <1>1 DEF Check, Return, TypeOK
<1>2. ASSUME NEW c \in Call, Post(c)
      PROVE  TypeOK'
  <2>1. <<"create", c>> \in Handles
    BY DEF Handles
  <2>2. CASE loop # "closed"
    <3>1. ready' = Append(ready, <<"create", c>>) /\ UNCHANGED batch
      BY <1>2, <2>2 DEF Post
    <3>2. ready' \in Seq(Handles) /\ batch' \in Nat /\ batch' <= Len(ready')
      BY <3>1, <2>1, <1>0
    <3> QED
      BY <1>2, <2>2, <3>2 DEF Post, TypeOK
  <2>3. CASE loop = "closed"
    BY <1>2, <2>3 DEF Post, Return, TypeOK
  <2> QED
    BY <2>2, <2>3
<1>3. ASSUME NEW c \in Call, TimesOut(c)
      PROVE  TypeOK'
  <2>1. <<"cancel", c>> \in Handles
    BY DEF Handles
  <2>2. ready' \in Seq(Handles) /\ batch' \in Nat /\ batch' <= Len(ready')
    <3>1. CASE task[c] # "none" /\ loop # "closed"
      <4>1. ready' = Append(ready, <<"cancel", c>>) /\ UNCHANGED batch
        BY <1>3, <3>1 DEF TimesOut
      <4> QED
        BY <4>1, <2>1, <1>0
    <3>2. CASE ~(task[c] # "none" /\ loop # "closed")
      BY <1>3, <3>2 DEF TimesOut, TypeOK
    <3> QED
      BY <3>1, <3>2
  <2> QED
    BY <1>3, <2>2 DEF TimesOut, Return, TypeOK
<1>4. ASSUME NEW c \in Call, Returns(c)
      PROVE  TypeOK'
  BY <1>4 DEF Returns, Return, TypeOK
<1>5. ASSUME NEW c \in Call, Wake(c)
      PROVE  TypeOK'
  <2>1. <<"step", c>> \in Handles
    BY DEF Handles
  <2>2. ready' \in Seq(Handles) /\ batch' \in Nat /\ batch' <= Len(ready')
    BY <1>5, <2>1, <1>0 DEF Wake
  <2> QED
    BY <1>5, <2>2 DEF Wake, TypeOK
<1>6. CASE MarkStopped
  BY <1>6 DEF MarkStopped, TypeOK
<1>7. CASE PostStop
  <2>1. <<"stop">> \in Handles
    BY DEF Handles
  <2>2. ready' \in Seq(Handles) /\ batch' \in Nat /\ batch' <= Len(ready')
    BY <1>7, <2>1, <1>0 DEF PostStop
  <2> QED
    BY <1>7, <2>2 DEF PostStop, TypeOK
<1>8. CASE Lap
  <2>1. laps' \in 0 .. DrainLaps
    BY <1>8 DEF Lap, TypeOK, DrainLaps
  <2>2. batch' \in Nat /\ batch' <= Len(ready')
    BY <1>8 DEF Lap, TypeOK
  <2> QED
    BY <1>8, <2>1, <2>2 DEF Lap, TypeOK
<1>9. ASSUME NEW c \in Call, CreateTask(c)
      PROVE  TypeOK'
  <2>1. /\ future' \in [Call -> {"none", "pending", "result", "cancelled"}]
        /\ task' \in [Call -> {"none", "scheduled", "suspended", "cancelling", "finished", "cancelled"}]
    BY <1>9 DEF CreateTask, TypeOK
  <2>2. PICK s \in Seq(Handles) : Runs("create", c, s)
    BY <1>9, Scheduled DEF CreateTask
  <2> QED
    BY <2>1, <2>2, TypeRuns
<1>10. ASSUME NEW c \in Call, StepTask(c)
       PROVE  TypeOK'
  <2>1. /\ future' \in [Call -> {"none", "pending", "result", "cancelled"}]
        /\ task' \in [Call -> {"none", "scheduled", "suspended", "cancelling", "finished", "cancelled"}]
    BY <1>10 DEF StepTask, TypeOK
  <2>2. PICK s \in Seq(Handles) : Runs("step", c, s)
    BY <1>10, Scheduled DEF StepTask
  <2> QED
    BY <2>1, <2>2, TypeRuns
<1>11. ASSUME NEW c \in Call, CancelTask(c)
       PROVE  TypeOK'
  <2>1. /\ future' \in [Call -> {"none", "pending", "result", "cancelled"}]
        /\ task' \in [Call -> {"none", "scheduled", "suspended", "cancelling", "finished", "cancelled"}]
    BY <1>11 DEF CancelTask, TypeOK
  <2>2. PICK s \in Seq(Handles) : Runs("cancel", c, s)
    BY <1>11, Scheduled DEF CancelTask
  <2> QED
    BY <2>1, <2>2, TypeRuns
<1>12. ASSUME NEW c \in Call, SettleFuture(c)
       PROVE  TypeOK'
  <2>1. /\ future' \in [Call -> {"none", "pending", "result", "cancelled"}]
        /\ task' \in [Call -> {"none", "scheduled", "suspended", "cancelling", "finished", "cancelled"}]
    BY <1>12 DEF SettleFuture, TypeOK
  <2>2. PICK s \in Seq(Handles) : Runs("settle", c, s)
    BY <1>12, Scheduled DEF SettleFuture
  <2> QED
    BY <2>1, <2>2, TypeRuns
<1>13. CASE StopLoop
  <2>1. ready \in Seq(Handles) /\ batch \in Nat /\ batch <= Len(ready) /\ batch > 0
    BY <1>13 DEF StopLoop, TypeOK
  <2>2. ready' \in Seq(Handles) /\ Len(ready') = Len(ready) - 1
    BY <1>13, <2>1 DEF StopLoop
  <2>3. batch' \in Nat /\ batch' <= Len(ready')
    BY <1>13, <2>1, <2>2 DEF StopLoop
  <2> QED
    BY <1>13, <2>2, <2>3 DEF StopLoop, TypeOK
<1>14. CASE LeaveLoop
  BY <1>14 DEF LeaveLoop, TypeOK
<1>15. ASSUME NEW c \in Call, TearDown(c)
       PROVE  TypeOK'
  <2>1. <<"step", c>> \in Handles
    BY DEF Handles
  <2>2. ready' \in Seq(Handles) /\ batch' \in Nat /\ batch' <= Len(ready')
    <3>1. CASE task[c] = "suspended"
      <4>1. ready' = Append(ready, <<"step", c>>) /\ UNCHANGED batch
        BY <1>15, <3>1 DEF TearDown
      <4> QED
        BY <4>1, <2>1, <1>0
    <3>2. CASE task[c] # "suspended"
      BY <1>15, <3>2 DEF TearDown, TypeOK
    <3> QED
      BY <3>1, <3>2
  <2> QED
    BY <1>15, <2>2 DEF TearDown, TypeOK
<1>16. CASE GatherTasks
  BY <1>16 DEF GatherTasks, TypeOK
<1>17. CASE Gathered
  <2>1. laps' \in 0 .. DrainLaps
    BY <1>17 DEF Gathered, DrainLaps
  <2> QED
    BY <1>17, <2>1 DEF Gathered, TypeOK
<1>18. CASE CloseLoop
  <2>1. ready' \in Seq(Handles) /\ batch' \in Nat /\ batch' <= Len(ready')
    BY <1>18 DEF CloseLoop
  <2> QED
    BY <1>18, <2>1 DEF CloseLoop, TypeOK
<1>19. CASE UNCHANGED vars
  BY <1>19 DEF vars, TypeOK
<1> QED
  BY <1>1, <1>2, <1>3, <1>4, <1>5, <1>6, <1>7, <1>8, <1>9, <1>10, <1>11, <1>12, <1>13, <1>14,
     <1>15, <1>16, <1>17, <1>18, <1>19 DEF Next, LoopThread, RunHandle

\* Every variable of the portal has its type.
THEOREM TypeCorrect == Spec => []TypeOK
<1> QED
  BY TypeInit, TypeStep, PTL DEF Spec

-------------------------------------------------------------------------------
(* The pending handles of a call *)

Ops == {"create", "step", "cancel", "settle"}

LEMMA PendingAdds ==
  ASSUME TypeOK, NEW op \in Ops, NEW c \in Call, ready' = Append(ready, <<op, c>>), NEW k \in Ops, NEW d \in Call
  PROVE  /\ Pending(k, d)' <=> Pending(k, d) \/ (k = op /\ d = c)
         /\ StopPending' <=> StopPending
         /\ CreatedOnce(d) /\ ~(op = "create" /\ d = c /\ Pending("create", d)) => CreatedOnce(d)'
<1>1. ready \in Seq(Handles)
  BY DEF TypeOK
<1>2. <<op, c>> \in Handles /\ <<op, c>> # <<"stop">>
  BY HandleKinds DEF Ops
<1>3. Held(<<k, d>>, ready') <=> Held(<<k, d>>, ready) \/ <<k, d>> = <<op, c>>
  BY <1>1, <1>2, Adds
<1>4. Held(<<"stop">>, ready') <=> Held(<<"stop">>, ready) \/ <<"stop">> = <<op, c>>
  BY <1>1, <1>2, Adds
<1>5. Once(<<"create", d>>, ready) /\ (<<"create", d>> # <<op, c>> \/ ~Held(<<"create", d>>, ready))
        => Once(<<"create", d>>, ready')
  BY <1>1, <1>2, Adds
<1>6. <<k, d>> = <<op, c>> <=> k = op /\ d = c
  BY HandleKinds DEF Ops
<1>7. <<"create", d>> = <<op, c>> => op = "create" /\ d = c
  OBVIOUS
<1> QED
  BY <1>2, <1>3, <1>4, <1>5, <1>6, <1>7 DEF Pending, StopPending, CreatedOnce

LEMMA PendingRuns ==
  ASSUME TypeOK, NEW op \in Ops, NEW c \in Call, NEW s \in Seq(Handles), Runs(op, c, s), NEW k \in Ops, NEW d \in Call
  PROVE  /\ Pending(op, c)
         /\ Pending(k, d)' => Pending(k, d) \/ Held(<<k, d>>, s)
         /\ Pending(k, d) => (k = op /\ d = c) \/ Pending(k, d)'
         /\ Held(<<k, d>>, s) => Pending(k, d)'
         /\ StopPending' => StopPending \/ Held(<<"stop">>, s)
         /\ CreatedOnce(d) /\ ~Held(<<"create", d>>, s) =>
              CreatedOnce(d)' /\ (op = "create" /\ d = c => ~Pending("create", d)')
<1>1. batch > 0 /\ Head(ready) = <<op, c>> /\ ready' = Tail(ready) \o s /\ batch' = batch - 1
  BY DEF Runs
<1>2. Held(<<op, c>>, ready)
  BY <1>1, Takes
<1>3. /\ Held(<<k, d>>, ready') => Held(<<k, d>>, ready) \/ Held(<<k, d>>, s)
      /\ Held(<<k, d>>, ready) => <<k, d>> = <<op, c>> \/ Held(<<k, d>>, ready')
      /\ Held(<<k, d>>, s) => Held(<<k, d>>, ready')
  BY <1>1, Takes
<1>4. Held(<<"stop">>, ready') => Held(<<"stop">>, ready) \/ Held(<<"stop">>, s)
  BY <1>1, Takes
<1>5. Once(<<"create", d>>, ready) /\ ~Held(<<"create", d>>, s) => Once(<<"create", d>>, ready')
  BY <1>1, Takes
<1>6. Once(<<"create", d>>, ready) /\ ~Held(<<"create", d>>, s) /\ <<"create", d>> = <<op, c>>
        => ~Held(<<"create", d>>, ready')
  BY <1>1, Takes
<1>7. <<k, d>> = <<op, c>> => k = op /\ d = c
  OBVIOUS
<1>8. op = "create" /\ d = c => <<"create", d>> = <<op, c>>
  OBVIOUS
<1> QED
  BY <1>2, <1>3, <1>4, <1>5, <1>6, <1>7, <1>8 DEF Pending, StopPending, CreatedOnce

\* What the loop schedules when it runs a handle.
LEMMA ScheduledHeld ==
  ASSUME NEW c \in Call, NEW k \in Ops, NEW d \in Call
  PROVE  /\ ~Held(<<k, d>>, <<>>)
         /\ Held(<<k, d>>, <<<<"step", c>>>>) <=> k = "step" /\ d = c
         /\ Held(<<k, d>>, <<<<"settle", c>>>>) <=> k = "settle" /\ d = c
         /\ Held(<<k, d>>, <<<<"step", c>>, <<"cancel", c>>>>) <=> (k = "step" \/ k = "cancel") /\ d = c
         /\ ~Held(<<"stop">>, <<>>)
         /\ ~Held(<<"stop">>, <<<<"step", c>>>>)
         /\ ~Held(<<"stop">>, <<<<"settle", c>>>>)
         /\ ~Held(<<"stop">>, <<<<"step", c>>, <<"cancel", c>>>>)
<1>1. ASSUME NEW o \in Ops
      PROVE  (<<k, d>> = <<o, c>> <=> k = o /\ d = c) /\ <<"stop">> # <<o, c>>
  BY HandleKinds DEF Ops
<1>2. ASSUME NEW h, NEW o \in Ops, NEW p \in Ops
      PROVE  /\ ~Held(h, <<>>)
             /\ Held(h, <<<<o, c>>>>) <=> h = <<o, c>>
             /\ Held(h, <<<<o, c>>, <<p, c>>>>) <=> h = <<o, c>> \/ h = <<p, c>>
  BY FewHeld
<1>3. "step" \in Ops /\ "settle" \in Ops /\ "cancel" \in Ops
  BY DEF Ops
<1>4. ~Held(<<k, d>>, <<>>) /\ ~Held(<<"stop">>, <<>>)
  BY <1>2, <1>3
<1>5. Held(<<k, d>>, <<<<"step", c>>>>) <=> k = "step" /\ d = c
  BY <1>1, <1>2, <1>3
<1>6. Held(<<k, d>>, <<<<"settle", c>>>>) <=> k = "settle" /\ d = c
  BY <1>1, <1>2, <1>3
<1>7. Held(<<k, d>>, <<<<"step", c>>, <<"cancel", c>>>>) <=> (k = "step" \/ k = "cancel") /\ d = c
  BY <1>1, <1>2, <1>3
<1>8. ~Held(<<"stop">>, <<<<"step", c>>>>)
  BY <1>1, <1>2, <1>3
<1>9. ~Held(<<"stop">>, <<<<"settle", c>>>>)
  BY <1>1, <1>2, <1>3
<1>10. ~Held(<<"stop">>, <<<<"step", c>>, <<"cancel", c>>>>)
  BY <1>1, <1>2, <1>3
<1> QED
  BY <1>4, <1>5, <1>6, <1>7, <1>8, <1>9, <1>10

-------------------------------------------------------------------------------
(* Callers, futures and tasks *)

LEMMA CallInit == Init => CallInv
<1> SUFFICES ASSUME Init
             PROVE  CallInv
  OBVIOUS
<1>1. TypeOK
  BY TypeInit
<1>2. ASSUME NEW h
      PROVE  ~Held(h, ready) /\ Once(h, ready)
  <2>1. ready = <<>> /\ Len(<<>>) = 0
    BY DEF Init
  <2>2. \A i \in 1 .. Len(ready) : FALSE
    BY <2>1
  <2> QED
    BY <2>2 DEF Held, Once
<1>3. ASSUME NEW c \in Call
      PROVE  PairedAt(c) /\ WorkedAt(c) /\ TruthAt(c)
  BY <1>2 DEF Init, PairedAt, WorkedAt, TruthAt, Over, Pending, CreatedOnce
<1>4. Marked
  BY <1>2 DEF Init, Marked, StopPending
<1> QED
  BY <1>1, <1>3, <1>4 DEF CallInv, Paired, Worked, Truth

\* A handle has been run: what that means for the flags of the stop.
LEMMA MarkedRuns ==
  ASSUME CallInv, NEW op \in Ops, NEW c \in Call, NEW s \in Seq(Handles), Runs(op, c, s), ~Held(<<"stop">>, s)
  PROVE  Marked'
<1>1. StopPending' => StopPending
  BY PendingRuns DEF CallInv, Ops
<1>2. loop # "closed"
  <2>1. batch > 0
    BY DEF Runs
  <2> QED
    BY <2>1 DEF CallInv, Marked
<1>3. UNCHANGED <<stopper, stopped, halting, loop>>
  BY DEF Runs
<1> QED
  BY <1>1, <1>2, <1>3 DEF CallInv, Marked

\* A handle of a call has been added: the same.
LEMMA MarkedAdds ==
  ASSUME CallInv, NEW op \in Ops, NEW c \in Call, ready' = Append(ready, <<op, c>>),
         UNCHANGED <<stopper, stopped, halting, loop, batch>>
  PROVE  Marked'
<1>1. StopPending' <=> StopPending
  BY PendingAdds DEF CallInv, Ops
<1> QED
  BY <1>1 DEF CallInv, Marked

\* Nothing the relations between callers, futures and tasks speak of has
\* changed for d.
LEMMA CallFrame ==
  ASSUME NEW d \in Call, PairedAt(d), WorkedAt(d), TruthAt(d),
         UNCHANGED <<caller[d], future[d], outcome[d], task[d]>>,
         stopped => stopped', loop = "closed" => loop' = "closed",
         loop' # "closed" =>
            /\ Pending("create", d)' <=> Pending("create", d)
            /\ Pending("settle", d)' <=> Pending("settle", d)
            /\ Pending("cancel", d)' <=> Pending("cancel", d),
         Pending("create", d)' => Pending("create", d),
         Pending("settle", d)' => Pending("settle", d),
         Pending("cancel", d)' => Pending("cancel", d),
         CreatedOnce(d)'
  PROVE  PairedAt(d)' /\ WorkedAt(d)' /\ TruthAt(d)'
  BY DEF PairedAt, WorkedAt, TruthAt, Over

LEMMA CallStep == CallInv /\ TypeOK' /\ [Next]_vars => CallInv'
<1> SUFFICES ASSUME CallInv, TypeOK', [Next]_vars
             PROVE  (\A d \in Call : PairedAt(d)' /\ WorkedAt(d)' /\ TruthAt(d)') /\ Marked'
  BY DEF CallInv, Paired, Worked, Truth
<1> USE DEF callVars, loopVars
<1>h. ASSUME NEW d \in Call
      PROVE  PairedAt(d) /\ WorkedAt(d) /\ TruthAt(d)
  BY DEF CallInv, Paired, Worked, Truth
<1>t. TypeOK /\ Marked
  BY DEF CallInv
<1>o. {"create", "step", "cancel", "settle"} = Ops
  BY DEF Ops
<1>q. ASSUME ready' = ready, NEW d \in Call
      PROVE  /\ Pending("create", d)' <=> Pending("create", d)
             /\ Pending("settle", d)' <=> Pending("settle", d)
             /\ Pending("cancel", d)' <=> Pending("cancel", d)
             /\ CreatedOnce(d) => CreatedOnce(d)'
             /\ StopPending' <=> StopPending
  BY <1>q DEF Pending, CreatedOnce, StopPending
<1>1. ASSUME NEW c \in Call, Check(c)
      PROVE  (\A d \in Call : PairedAt(d)' /\ WorkedAt(d)' /\ TruthAt(d)') /\ Marked'
  <2>1. ready' = ready /\ UNCHANGED <<stopped, stopper, halting, loop, batch, task, future>>
    BY <1>1 DEF Check
  <2>2. ASSUME NEW d \in Call
        PROVE  PairedAt(d)' /\ WorkedAt(d)' /\ TruthAt(d)'
    <3>1. CASE d = c
      <4>1. /\ caller[c] = "idle" /\ caller'[c] \in {"checked", "returned"}
            /\ caller'[c] = "checked" => outcome'[c] = outcome[c]
            /\ caller'[c] = "returned" => outcome'[c] = "refused" /\ stopped
        BY <1>1 DEF Check, Return, TypeOK, CallInv
      <4> QED
        BY <4>1, <3>1, <2>1, <1>h, <1>q DEF PairedAt, WorkedAt, TruthAt, Over
    <3>2. CASE d # c
      <4>1. UNCHANGED <<caller[d], outcome[d], future[d], task[d]>>
        BY <1>1, <3>2 DEF Check, Return, TypeOK, CallInv
      <4> QED
        BY <4>1, <2>1, <1>h, <1>q, CallFrame DEF WorkedAt
    <3> QED
      BY <3>1, <3>2
  <2> QED
    BY <2>1, <2>2, <1>t, <1>q DEF Marked, StopPending
<1>2. ASSUME NEW c \in Call, Post(c)
      PROVE  (\A d \in Call : PairedAt(d)' /\ WorkedAt(d)' /\ TruthAt(d)') /\ Marked'
  <2>1. UNCHANGED <<stopped, stopper, halting, loop, batch, task>> /\ caller[c] = "checked"
    BY <1>2 DEF Post
  <2>2. CASE loop # "closed"
    <3>1. ready' = Append(ready, <<"create", c>>) /\ UNCHANGED outcome
      BY <1>2, <2>2 DEF Post
    <3>2. future[c] = "none" /\ future'[c] = "pending" /\ caller'[c] = "waiting"
      BY <1>2, <2>2, <1>h DEF Post, CallInv, TypeOK, PairedAt
    <3>3. ASSUME NEW d \in Call
          PROVE  /\ Pending("create", d)' <=> Pending("create", d) \/ d = c
                 /\ Pending("settle", d)' <=> Pending("settle", d)
                 /\ Pending("cancel", d)' <=> Pending("cancel", d)
                 /\ CreatedOnce(d)'
      BY <3>1, <3>2, <1>t, <1>o, <1>h, PendingAdds DEF WorkedAt
    <3>4. ASSUME NEW d \in Call
          PROVE  PairedAt(d)' /\ WorkedAt(d)' /\ TruthAt(d)'
      <4>1. CASE d = c
        BY <4>1, <3>1, <3>2, <3>3, <2>1, <2>2, <1>h DEF PairedAt, WorkedAt, TruthAt, Over
      <4>2. CASE d # c
        <5>1. UNCHANGED <<caller[d], outcome[d], future[d], task[d]>>
          BY <1>2, <2>2, <4>2 DEF Post, TypeOK, CallInv
        <5> QED
          BY <5>1, <4>2, <3>3, <2>1, <1>h, CallFrame
      <4> QED
        BY <4>1, <4>2
    <3>5. Marked'
      BY <3>1, <2>1, <1>o, MarkedAdds
    <3> QED
      BY <3>4, <3>5
  <2>3. CASE loop = "closed"
    <3>1. ready' = ready /\ UNCHANGED future
      BY <1>2, <2>3 DEF Post
    <3>2. ASSUME NEW d \in Call
          PROVE  PairedAt(d)' /\ WorkedAt(d)' /\ TruthAt(d)'
      <4>1. CASE d = c
        <5>1. caller'[c] = "returned" /\ outcome'[c] = "refused" /\ stopped
          BY <1>2, <2>3, <1>t DEF Post, Return, TypeOK, Marked
        <5>2. future[c] = "none" /\ outcome[c] = "none" /\ task[c] = "none"
          BY <2>1, <1>h DEF PairedAt, WorkedAt
        <5> QED
          BY <5>1, <5>2, <4>1, <3>1, <2>1, <1>h, <1>q DEF PairedAt, WorkedAt, TruthAt, Over
      <4>2. CASE d # c
        <5>1. UNCHANGED <<caller[d], outcome[d], future[d], task[d]>>
          BY <1>2, <2>3, <4>2 DEF Post, Return, TypeOK, CallInv
        <5> QED
          BY <5>1, <3>1, <2>1, <1>h, <1>q, CallFrame DEF WorkedAt
      <4> QED
        BY <4>1, <4>2
    <3> QED
      BY <3>1, <3>2, <2>1, <1>t, <1>q DEF Marked, StopPending
  <2> QED
    BY <2>2, <2>3
<1>3. ASSUME NEW c \in Call, TimesOut(c)
      PROVE  (\A d \in Call : PairedAt(d)' /\ WorkedAt(d)' /\ TruthAt(d)') /\ Marked'
  <2>1. UNCHANGED <<stopped, stopper, halting, loop, batch, task>>
    BY <1>3 DEF TimesOut
  <2>2. caller[c] = "waiting" /\ future[c] = "pending" /\ outcome[c] = "none"
    BY <1>3, <1>h DEF TimesOut, PairedAt
  <2>3. caller'[c] = "returned" /\ future'[c] = "cancelled" /\ outcome'[c] = "timeout"
    BY <1>3, <1>t DEF TimesOut, Return, TypeOK
  <2>4. ASSUME NEW d \in Call
        PROVE  /\ Pending("create", d)' <=> Pending("create", d)
               /\ Pending("settle", d)' <=> Pending("settle", d)
               /\ Pending("cancel", d)' <=>
                    Pending("cancel", d) \/ (d = c /\ task[c] # "none" /\ loop # "closed")
               /\ CreatedOnce(d)'
    <3>1. CASE task[c] # "none" /\ loop # "closed"
      <4>1. ready' = Append(ready, <<"cancel", c>>)
        BY <1>3, <3>1 DEF TimesOut
      <4> QED
        BY <4>1, <3>1, <1>t, <1>o, <1>h, PendingAdds DEF WorkedAt
    <3>2. CASE ~(task[c] # "none" /\ loop # "closed")
      <4>1. ready' = ready
        BY <1>3, <3>2 DEF TimesOut
      <4> QED
        BY <4>1, <3>2, <1>q, <1>h DEF WorkedAt
    <3> QED
      BY <3>1, <3>2
  <2>5. ASSUME NEW d \in Call
        PROVE  PairedAt(d)' /\ WorkedAt(d)' /\ TruthAt(d)'
    <3>1. CASE d = c
      BY <3>1, <2>1, <2>2, <2>3, <2>4, <1>h DEF PairedAt, WorkedAt, TruthAt, Over
    <3>2. CASE d # c
      <4>1. UNCHANGED <<caller[d], outcome[d], future[d], task[d]>>
        BY <1>3, <3>2 DEF TimesOut, Return, TypeOK, CallInv
      <4> QED
        BY <4>1, <3>2, <2>1, <2>4, <1>h, CallFrame
    <3> QED
      BY <3>1, <3>2
  <2>6. Marked'
    <3>1. CASE task[c] # "none" /\ loop # "closed"
      <4>1. ready' = Append(ready, <<"cancel", c>>)
        BY <1>3, <3>1 DEF TimesOut
      <4> QED
        BY <4>1, <2>1, <1>o, MarkedAdds
    <3>2. CASE ~(task[c] # "none" /\ loop # "closed")
      <4>1. ready' = ready
        BY <1>3, <3>2 DEF TimesOut
      <4> QED
        BY <4>1, <2>1, <1>t DEF Marked, StopPending
    <3> QED
      BY <3>1, <3>2
  <2> QED
    BY <2>5, <2>6
<1>4. ASSUME NEW c \in Call, Returns(c)
      PROVE  (\A d \in Call : PairedAt(d)' /\ WorkedAt(d)' /\ TruthAt(d)') /\ Marked'
  <2>1. ready' = ready /\ UNCHANGED <<stopped, stopper, halting, loop, batch, task, future>>
    BY <1>4 DEF Returns
  <2>2. ASSUME NEW d \in Call
        PROVE  PairedAt(d)' /\ WorkedAt(d)' /\ TruthAt(d)'
    <3>1. CASE d = c
      <4>1. caller[c] = "waiting" /\ outcome[c] = "none" /\ caller'[c] = "returned"
        BY <1>4, <1>h, <1>t DEF Returns, Return, PairedAt, TypeOK
      <4>2. \/ future[c] = "result" /\ outcome'[c] = "result"
            \/ future[c] = "cancelled" /\ outcome'[c] = IF stopped THEN "stopped" ELSE "cancelled"
        BY <1>4, <1>t DEF Returns, Return, TypeOK
      <4>3. CASE future[c] = "result" /\ outcome'[c] = "result"
        BY <4>1, <4>3, <3>1, <2>1, <1>h, <1>q DEF PairedAt, WorkedAt, TruthAt, Over
      <4>4. CASE future[c] = "cancelled" /\ outcome'[c] = IF stopped THEN "stopped" ELSE "cancelled"
        <5>1. task[c] = "cancelled" /\ stopped
          BY <4>1, <4>4, <1>h DEF WorkedAt
        <5> QED
          BY <5>1, <4>1, <4>4, <3>1, <2>1, <1>h, <1>q DEF PairedAt, WorkedAt, TruthAt, Over
      <4> QED
        BY <4>2, <4>3, <4>4
    <3>2. CASE d # c
      <4>1. UNCHANGED <<caller[d], outcome[d], future[d], task[d]>>
        BY <1>4, <3>2 DEF Returns, Return, TypeOK, CallInv
      <4> QED
        BY <4>1, <2>1, <1>h, <1>q, CallFrame DEF WorkedAt
    <3> QED
      BY <3>1, <3>2
  <2> QED
    BY <2>1, <2>2, <1>t, <1>q DEF Marked, StopPending
<1>5. ASSUME NEW c \in Call, Wake(c)
      PROVE  (\A d \in Call : PairedAt(d)' /\ WorkedAt(d)' /\ TruthAt(d)') /\ Marked'
  <2>1. UNCHANGED <<stopped, stopper, halting, loop, batch, caller, outcome, future>>
    BY <1>5 DEF Wake
  <2>2. task[c] = "suspended" /\ task'[c] = "scheduled" /\ ready' = Append(ready, <<"step", c>>)
    BY <1>5, <1>t DEF Wake, TypeOK
  <2>3. ASSUME NEW d \in Call
        PROVE  /\ Pending("create", d)' <=> Pending("create", d)
               /\ Pending("settle", d)' <=> Pending("settle", d)
               /\ Pending("cancel", d)' <=> Pending("cancel", d)
               /\ CreatedOnce(d)'
    BY <2>2, <1>t, <1>o, <1>h, PendingAdds DEF WorkedAt
  <2>4. ASSUME NEW d \in Call
        PROVE  PairedAt(d)' /\ WorkedAt(d)' /\ TruthAt(d)'
    <3>1. CASE d = c
      BY <3>1, <2>1, <2>2, <2>3, <1>h DEF PairedAt, WorkedAt, TruthAt, Over
    <3>2. CASE d # c
      <4>1. UNCHANGED <<caller[d], outcome[d], future[d], task[d]>>
        BY <1>5, <3>2, <1>t DEF Wake, TypeOK
      <4> QED
        BY <4>1, <2>1, <2>3, <1>h, CallFrame
    <3> QED
      BY <3>1, <3>2
  <2>5. Marked'
    BY <2>1, <2>2, <1>o, MarkedAdds
  <2> QED
    BY <2>4, <2>5
<1>6. CASE MarkStopped
  <2>1. ready' = ready /\ stopped' /\ UNCHANGED <<halting, loop, batch, caller, outcome, future, task>>
    BY <1>6 DEF MarkStopped
  <2>2. ASSUME NEW d \in Call
        PROVE  PairedAt(d)' /\ WorkedAt(d)' /\ TruthAt(d)'
    BY <2>1, <1>h, <1>q, CallFrame DEF WorkedAt
  <2> QED
    BY <2>1, <2>2, <1>t DEF Marked
<1>7. CASE PostStop
  <2>1. UNCHANGED <<stopped, halting, loop, batch, caller, outcome, future, task>> /\ stopped
    BY <1>7, <1>t DEF PostStop, Marked
  <2>2. ready' = Append(ready, <<"stop">>) /\ <<"stop">> \in Handles /\ ready \in Seq(Handles)
    BY <1>7, <1>t DEF PostStop, TypeOK, Handles
  <2>3. ASSUME NEW d \in Call, NEW k \in Ops
        PROVE  (Pending(k, d)' <=> Pending(k, d)) /\ CreatedOnce(d)'
    <3>1. <<k, d>> # <<"stop">> /\ <<"create", d>> # <<"stop">>
      BY HandleKinds DEF Ops
    <3>2. Held(<<k, d>>, ready') <=> Held(<<k, d>>, ready)
      BY <3>1, <2>2, Adds
    <3>3. Once(<<"create", d>>, ready) => Once(<<"create", d>>, ready')
      BY <3>1, <2>2, Adds
    <3> QED
      BY <3>2, <3>3, <1>h DEF Pending, CreatedOnce, WorkedAt
  <2>4. ASSUME NEW d \in Call
        PROVE  PairedAt(d)' /\ WorkedAt(d)' /\ TruthAt(d)'
    <3>1. /\ Pending("create", d)' <=> Pending("create", d)
          /\ Pending("settle", d)' <=> Pending("settle", d)
          /\ Pending("cancel", d)' <=> Pending("cancel", d)
          /\ CreatedOnce(d)'
      BY <2>3 DEF Ops
    <3> QED
      BY <3>1, <2>1, <1>h, CallFrame
  <2> QED
    BY <2>1, <2>4, <1>t DEF Marked
<1>8. CASE Lap
  <2>1. ready' = ready /\ UNCHANGED <<stopped, stopper, halting, loop, caller, outcome, future, task>>
    BY <1>8 DEF Lap
  <2>2. loop # "closed"
    BY <1>8 DEF Lap
  <2>3. ASSUME NEW d \in Call
        PROVE  PairedAt(d)' /\ WorkedAt(d)' /\ TruthAt(d)'
    BY <2>1, <1>h, <1>q, CallFrame DEF WorkedAt
  <2> QED
    BY <2>1, <2>2, <2>3, <1>t DEF Marked, StopPending
<1>9. ASSUME NEW c \in Call, CreateTask(c)
      PROVE  (\A d \in Call : PairedAt(d)' /\ WorkedAt(d)' /\ TruthAt(d)') /\ Marked'
  <2>1. PICK s \in {<<<<"step", c>>>>, <<<<"step", c>>, <<"cancel", c>>>>} :
          /\ s \in Seq(Handles) /\ Runs("create", c, s)
          /\ s = <<<<"step", c>>, <<"cancel", c>>>> <=> future[c] = "cancelled"
    <3>1. <<<<"step", c>>>> # <<<<"step", c>>, <<"cancel", c>>>>
      OBVIOUS
    <3> QED
      BY <1>9, <3>1, Scheduled DEF CreateTask
  <2>2. ASSUME NEW k \in Ops, NEW d \in Call
        PROVE  /\ Held(<<k, d>>, s) <=> d = c /\ (k = "step" \/ (k = "cancel" /\ future[c] = "cancelled"))
               /\ ~Held(<<"stop">>, s)
    <3>1. CASE s = <<<<"step", c>>, <<"cancel", c>>>>
      BY <3>1, <2>1, <1>o, ScheduledHeld
    <3>2. CASE s # <<<<"step", c>>, <<"cancel", c>>>>
      <4>1. s = <<<<"step", c>>>> /\ future[c] # "cancelled"
        BY <3>2, <2>1
      <4>2. (Held(<<k, d>>, <<<<"step", c>>>>) <=> k = "step" /\ d = c) /\ ~Held(<<"stop">>, <<<<"step", c>>>>)
        BY ScheduledHeld
      <4> QED
        BY <4>1, <4>2
    <3> QED
      BY <3>1, <3>2
  <2>3. UNCHANGED <<stopped, stopper, loop, halting, caller, outcome, future>> /\ task'[c] = "scheduled"
    BY <1>9, <2>1, <1>t DEF CreateTask, Runs, TypeOK
  <2>4. ASSUME NEW d \in Call
        PROVE  /\ Pending("create", d)' <=> Pending("create", d) /\ d # c
               /\ Pending("settle", d)' <=> Pending("settle", d)
               /\ Pending("cancel", d)' <=> Pending("cancel", d) \/ (d = c /\ future[c] = "cancelled")
               /\ CreatedOnce(d)'
               /\ Pending("create", c)
    <3>1. ASSUME NEW k \in Ops
          PROVE  /\ Pending("create", c)
                 /\ Pending(k, d)' => Pending(k, d) \/ Held(<<k, d>>, s)
                 /\ Pending(k, d) => (k = "create" /\ d = c) \/ Pending(k, d)'
                 /\ Held(<<k, d>>, s) => Pending(k, d)'
                 /\ CreatedOnce(d) /\ ~Held(<<"create", d>>, s) =>
                      CreatedOnce(d)' /\ ("create" = "create" /\ d = c => ~Pending("create", d)')
      <4>1. "create" \in Ops
        BY DEF Ops
      <4> HIDE DEF Ops
      <4> QED
        BY <4>1, <2>1, <1>t, PendingRuns
    <3>2. CreatedOnce(d)
      BY <1>h DEF WorkedAt
    <3> QED
      BY <3>1, <3>2, <2>2 DEF Ops
  <2>5. ASSUME NEW d \in Call
        PROVE  PairedAt(d)' /\ WorkedAt(d)' /\ TruthAt(d)'
    <3>1. CASE d = c
      <4>1. task[c] = "none" /\ future[c] # "none" /\ future[c] # "result"
        BY <2>4, <1>h DEF WorkedAt
      <4> QED
        BY <4>1, <3>1, <2>3, <2>4, <1>h, <1>t DEF PairedAt, WorkedAt, TruthAt, Over, TypeOK
    <3>2. CASE d # c
      <4>1. task'[d] = task[d]
        BY <1>9, <3>2, <1>t DEF CreateTask, TypeOK
      <4> QED
        BY <4>1, <3>2, <2>3, <2>4, <1>h, CallFrame
    <3> QED
      BY <3>1, <3>2
  <2>6. Marked'
    BY <2>1, <2>2, <1>o, MarkedRuns DEF Ops
  <2> QED
    BY <2>5, <2>6
<1>10. ASSUME NEW c \in Call, StepTask(c)
       PROVE  (\A d \in Call : PairedAt(d)' /\ WorkedAt(d)' /\ TruthAt(d)') /\ Marked'
  <2>1. PICK s \in Seq(Handles) :
          /\ Runs("step", c, s)
          /\ \/ task[c] = "scheduled" /\ task'[c] = "finished" /\ s = <<<<"settle", c>>>>
             \/ task[c] = "scheduled" /\ task'[c] = "suspended" /\ s = <<>>
             \/ task[c] = "cancelling" /\ task'[c] = "cancelled" /\ s = <<<<"settle", c>>>>
    <3>1. \/ /\ Runs("step", c, <<<<"settle", c>>>>)
             /\ task[c] = "scheduled" /\ task'[c] = "finished"
          \/ /\ Runs("step", c, <<>>)
             /\ task[c] = "scheduled" /\ task'[c] = "suspended"
          \/ /\ Runs("step", c, <<<<"settle", c>>>>)
             /\ task[c] = "cancelling" /\ task'[c] = "cancelled"
      BY <1>10, <1>t DEF StepTask, TypeOK
    <3>2. CASE Runs("step", c, <<>>) /\ task[c] = "scheduled" /\ task'[c] = "suspended"
      <4>1. <<>> \in Seq(Handles)
        BY Scheduled
      <4> QED
        BY <3>2, <4>1
    <3>3. CASE /\ Runs("step", c, <<<<"settle", c>>>>)
               /\ \/ task[c] = "scheduled" /\ task'[c] = "finished"
                  \/ task[c] = "cancelling" /\ task'[c] = "cancelled"
      <4>1. <<<<"settle", c>>>> \in Seq(Handles)
        BY Scheduled
      <4> QED
        BY <3>3, <4>1
    <3> QED
      BY <3>1, <3>2, <3>3
  <2>2. ASSUME NEW k \in Ops, NEW d \in Call
        PROVE  /\ Held(<<k, d>>, s) <=> d = c /\ k = "settle" /\ task'[c] # "suspended"
               /\ ~Held(<<"stop">>, s)
    <3>1. CASE s = <<<<"settle", c>>>>
      <4>1. <<>> # <<<<"settle", c>>>>
        OBVIOUS
      <4>2. task'[c] # "suspended"
        BY <3>1, <4>1, <2>1
      <4>3. (Held(<<k, d>>, <<<<"settle", c>>>>) <=> k = "settle" /\ d = c) /\ ~Held(<<"stop">>, <<<<"settle", c>>>>)
        BY ScheduledHeld
      <4> QED
        BY <4>2, <4>3, <3>1
    <3>2. CASE s # <<<<"settle", c>>>>
      <4>1. s = <<>> /\ task'[c] = "suspended"
        BY <3>2, <2>1
      <4>2. ~Held(<<k, d>>, <<>>) /\ ~Held(<<"stop">>, <<>>)
        BY ScheduledHeld
      <4> QED
        BY <4>1, <4>2
    <3> QED
      BY <3>1, <3>2
  <2>3. UNCHANGED <<stopped, stopper, loop, halting, caller, outcome, future>>
    BY <1>10, <2>1 DEF StepTask, Runs
  <2>4. ASSUME NEW d \in Call
        PROVE  /\ Pending("create", d)' <=> Pending("create", d)
               /\ Pending("settle", d)' <=> Pending("settle", d) \/ (d = c /\ task'[c] # "suspended")
               /\ Pending("cancel", d)' <=> Pending("cancel", d)
               /\ CreatedOnce(d)'
    <3>1. ASSUME NEW k \in Ops
          PROVE  /\ Pending("step", c)
                 /\ Pending(k, d)' => Pending(k, d) \/ Held(<<k, d>>, s)
                 /\ Pending(k, d) => (k = "step" /\ d = c) \/ Pending(k, d)'
                 /\ Held(<<k, d>>, s) => Pending(k, d)'
                 /\ CreatedOnce(d) /\ ~Held(<<"create", d>>, s) =>
                      CreatedOnce(d)' /\ ("step" = "create" /\ d = c => ~Pending("create", d)')
      <4>1. "step" \in Ops
        BY DEF Ops
      <4> HIDE DEF Ops
      <4> QED
        BY <4>1, <2>1, <1>t, PendingRuns
    <3>2. CreatedOnce(d)
      BY <1>h DEF WorkedAt
    <3> QED
      BY <3>1, <3>2, <2>2 DEF Ops
  <2>5. ASSUME NEW d \in Call
        PROVE  PairedAt(d)' /\ WorkedAt(d)' /\ TruthAt(d)'
    <3>1. CASE d = c
      BY <3>1, <2>1, <2>3, <2>4, <1>h DEF PairedAt, WorkedAt, TruthAt, Over
    <3>2. CASE d # c
      <4>1. task'[d] = task[d]
        BY <1>10, <3>2, <1>t DEF StepTask, TypeOK
      <4> QED
        BY <4>1, <3>2, <2>3, <2>4, <1>h, CallFrame
    <3> QED
      BY <3>1, <3>2
  <2>6. Marked'
    BY <2>1, <2>2, <1>o, MarkedRuns DEF Ops
  <2> QED
    BY <2>5, <2>6
<1>11. ASSUME NEW c \in Call, CancelTask(c)
       PROVE  (\A d \in Call : PairedAt(d)' /\ WorkedAt(d)' /\ TruthAt(d)') /\ Marked'
  <2>1. PICK s \in {<<>>, <<<<"step", c>>>>} : s \in Seq(Handles) /\ Runs("cancel", c, s)
    BY <1>11, Scheduled DEF CancelTask
  <2>2. ASSUME NEW k \in Ops, NEW d \in Call
        PROVE  (Held(<<k, d>>, s) => k = "step") /\ ~Held(<<"stop">>, s)
    <3>1. s = <<>> \/ s = <<<<"step", c>>>>
      BY <2>1
    <3>2. ~Held(<<k, d>>, <<>>) /\ ~Held(<<"stop">>, <<>>)
      BY ScheduledHeld
    <3>3. (Held(<<k, d>>, <<<<"step", c>>>>) <=> k = "step" /\ d = c) /\ ~Held(<<"stop">>, <<<<"step", c>>>>)
      BY ScheduledHeld
    <3> QED
      BY <3>1, <3>2, <3>3
  <2>3. /\ UNCHANGED <<stopped, stopper, loop, halting, caller, outcome, future>>
        /\ task'[c] = IF Over(c) THEN task[c] ELSE "cancelling"
    BY <1>11, <2>1, <1>t DEF CancelTask, Runs, TypeOK
  <2>4. ASSUME NEW d \in Call
        PROVE  /\ Pending("create", d)' <=> Pending("create", d)
               /\ Pending("settle", d)' <=> Pending("settle", d)
               /\ Pending("cancel", d)' => Pending("cancel", d)
               /\ d # c => (Pending("cancel", d)' <=> Pending("cancel", d))
               /\ CreatedOnce(d)'
               /\ Pending("cancel", c)
    <3>1. ASSUME NEW k \in Ops
          PROVE  /\ Pending("cancel", c)
                 /\ Pending(k, d)' => Pending(k, d) \/ Held(<<k, d>>, s)
                 /\ Pending(k, d) => (k = "cancel" /\ d = c) \/ Pending(k, d)'
                 /\ Held(<<k, d>>, s) => Pending(k, d)'
                 /\ CreatedOnce(d) /\ ~Held(<<"create", d>>, s) =>
                      CreatedOnce(d)' /\ ("cancel" = "create" /\ d = c => ~Pending("create", d)')
      <4>1. "cancel" \in Ops
        BY DEF Ops
      <4> HIDE DEF Ops
      <4> QED
        BY <4>1, <2>1, <1>t, PendingRuns
    <3>2. CreatedOnce(d)
      BY <1>h DEF WorkedAt
    <3> QED
      BY <3>1, <3>2, <2>2 DEF Ops
  <2>5. ASSUME NEW d \in Call
        PROVE  PairedAt(d)' /\ WorkedAt(d)' /\ TruthAt(d)'
    <3>1. CASE d = c
      <4>1. outcome[c] = "timeout" /\ future[c] = "cancelled"
        BY <2>4, <1>h DEF WorkedAt, PairedAt
      <4>2. CASE Over(c)
        BY <4>1, <4>2, <3>1, <2>3, <2>4, <1>h DEF PairedAt, WorkedAt, TruthAt, Over
      <4>3. CASE ~Over(c)
        <5>1. ~Pending("settle", c) /\ ~Pending("create", c)
          BY <4>3, <2>4, <1>h DEF WorkedAt
        <5> QED
          BY <5>1, <4>1, <4>3, <3>1, <2>3, <2>4, <1>h DEF PairedAt, WorkedAt, TruthAt, Over
      <4> QED
        BY <4>2, <4>3
    <3>2. CASE d # c
      <4>1. task'[d] = task[d]
        BY <1>11, <3>2, <1>t DEF CancelTask, TypeOK
      <4> QED
        BY <4>1, <3>2, <2>3, <2>4, <1>h, CallFrame
    <3> QED
      BY <3>1, <3>2
  <2>6. Marked'
    BY <2>1, <2>2, <1>o, MarkedRuns DEF Ops
  <2> QED
    BY <2>5, <2>6
<1>12. ASSUME NEW c \in Call, SettleFuture(c)
       PROVE  (\A d \in Call : PairedAt(d)' /\ WorkedAt(d)' /\ TruthAt(d)') /\ Marked'
  <2>1. Runs("settle", c, <<>>) /\ <<>> \in Seq(Handles)
    BY <1>12, Scheduled DEF SettleFuture
  <2>2. ASSUME NEW k \in Ops, NEW d \in Call
        PROVE  ~Held(<<k, d>>, <<>>) /\ ~Held(<<"stop">>, <<>>)
    BY <1>o, ScheduledHeld
  <2>3. /\ UNCHANGED <<stopped, stopper, loop, halting, caller, outcome, task>>
        /\ future'[c] = IF future[c] # "pending" THEN future[c]
                        ELSE IF task[c] = "finished" THEN "result" ELSE "cancelled"
    BY <1>12, <2>1, <1>t DEF SettleFuture, Runs, TypeOK
  <2>4. ASSUME NEW d \in Call
        PROVE  /\ Pending("create", d)' <=> Pending("create", d)
               /\ Pending("settle", d)' => Pending("settle", d)
               /\ d # c => (Pending("settle", d)' <=> Pending("settle", d))
               /\ Pending("cancel", d)' <=> Pending("cancel", d)
               /\ CreatedOnce(d)'
               /\ Pending("settle", c)
    <3>1. ASSUME NEW k \in Ops
          PROVE  /\ Pending("settle", c)
                 /\ Pending(k, d)' => Pending(k, d) \/ Held(<<k, d>>, <<>>)
                 /\ Pending(k, d) => (k = "settle" /\ d = c) \/ Pending(k, d)'
                 /\ Held(<<k, d>>, <<>>) => Pending(k, d)'
                 /\ CreatedOnce(d) /\ ~Held(<<"create", d>>, <<>>) =>
                      CreatedOnce(d)' /\ ("settle" = "create" /\ d = c => ~Pending("create", d)')
      <4>1. "settle" \in Ops
        BY DEF Ops
      <4> HIDE DEF Ops
      <4> QED
        BY <4>1, <2>1, <1>t, PendingRuns
    <3>2. CreatedOnce(d)
      BY <1>h DEF WorkedAt
    <3> QED
      BY <3>1, <3>2, <2>2 DEF Ops
  <2>5. ASSUME NEW d \in Call
        PROVE  PairedAt(d)' /\ WorkedAt(d)' /\ TruthAt(d)'
    <3>1. CASE d = c
      <4>1. task[c] \in {"finished", "cancelled"} /\ future[c] # "none"
        BY <2>4, <1>h DEF WorkedAt, Over
      <4> QED
        BY <4>1, <3>1, <2>3, <2>4, <1>h DEF PairedAt, WorkedAt, TruthAt, Over
    <3>2. CASE d # c
      <4>1. future'[d] = future[d]
        BY <1>12, <3>2, <1>t DEF SettleFuture, TypeOK
      <4> QED
        BY <4>1, <3>2, <2>3, <2>4, <1>h, CallFrame
    <3> QED
      BY <3>1, <3>2
  <2>6. Marked'
    BY <2>1, <2>2, <1>o, MarkedRuns DEF Ops
  <2> QED
    BY <2>5, <2>6
<1>13. CASE StopLoop
  <2>1. /\ ready' = Tail(ready) /\ Head(ready) = <<"stop">> /\ batch > 0 /\ batch' = batch - 1
        /\ UNCHANGED <<stopped, stopper, loop, caller, outcome, future, task>> /\ halting'
    BY <1>13 DEF StopLoop
  <2>2. ready' = Tail(ready) \o <<>> /\ <<>> \in Seq(Handles)
    <3>1. Tail(ready) \in Seq(Handles)
      BY <1>t, <2>1 DEF TypeOK
    <3> QED
      BY <3>1, <2>1
  <2>3. Held(<<"stop">>, ready)
    BY <2>1, <2>2, <1>t, Takes
  <2>4. ASSUME NEW d \in Call, NEW k \in Ops
        PROVE  (Pending(k, d)' <=> Pending(k, d)) /\ CreatedOnce(d)'
    <3>1. <<k, d>> # <<"stop">> /\ ~Held(<<k, d>>, <<>>) /\ ~Held(<<"create", d>>, <<>>)
      BY <1>o, HandleKinds, ScheduledHeld DEF Ops
    <3>2. Held(<<k, d>>, ready') => Held(<<k, d>>, ready) \/ Held(<<k, d>>, <<>>)
      BY <2>1, <2>2, <1>t, Takes
    <3>3. Held(<<k, d>>, ready) => <<k, d>> = <<"stop">> \/ Held(<<k, d>>, ready')
      BY <2>1, <2>2, <1>t, Takes
    <3>4. Once(<<"create", d>>, ready) /\ ~Held(<<"create", d>>, <<>>) => Once(<<"create", d>>, ready')
      BY <2>1, <2>2, <1>t, Takes
    <3> QED
      BY <3>1, <3>2, <3>3, <3>4, <1>h DEF Pending, CreatedOnce, WorkedAt
  <2>5. ASSUME NEW d \in Call
        PROVE  PairedAt(d)' /\ WorkedAt(d)' /\ TruthAt(d)'
    <3>1. /\ Pending("create", d)' <=> Pending("create", d)
          /\ Pending("settle", d)' <=> Pending("settle", d)
          /\ Pending("cancel", d)' <=> Pending("cancel", d)
          /\ CreatedOnce(d)'
      BY <2>4 DEF Ops
    <3> QED
      BY <3>1, <2>1, <1>h, CallFrame
  <2>6. Marked'
    <3>1. stopped
      BY <2>3, <1>t DEF Marked, StopPending
    <3>2. loop # "closed"
      BY <2>1, <1>t DEF Marked
    <3> QED
      BY <3>1, <3>2, <2>1, <1>t DEF Marked
  <2> QED
    BY <2>5, <2>6
<1>14. CASE LeaveLoop
  <2>1. ready' = ready /\ UNCHANGED <<stopped, stopper, halting, batch, caller, outcome, future, task>>
    BY <1>14 DEF LeaveLoop
  <2>2. loop = "running" /\ loop' = "cancelling" /\ halting
    BY <1>14 DEF LeaveLoop
  <2>3. ASSUME NEW d \in Call
        PROVE  PairedAt(d)' /\ WorkedAt(d)' /\ TruthAt(d)'
    BY <2>1, <2>2, <1>h, <1>q, CallFrame DEF WorkedAt
  <2> QED
    BY <2>1, <2>2, <2>3, <1>t DEF Marked, StopPending
<1>15. ASSUME NEW c \in Call, TearDown(c)
       PROVE  (\A d \in Call : PairedAt(d)' /\ WorkedAt(d)' /\ TruthAt(d)') /\ Marked'
  <2>1. UNCHANGED <<stopped, stopper, halting, loop, batch, caller, outcome, future>> /\ loop = "cancelling"
    BY <1>15 DEF TearDown
  <2>2. task[c] \in {"scheduled", "suspended", "cancelling"} /\ task'[c] = "cancelling"
    BY <1>15, <1>t DEF TearDown, TypeOK, Unfinished
  <2>3. stopped
    BY <2>1, <1>t DEF Marked
  <2>4. ASSUME NEW d \in Call
        PROVE  /\ Pending("create", d)' <=> Pending("create", d)
               /\ Pending("settle", d)' <=> Pending("settle", d)
               /\ Pending("cancel", d)' <=> Pending("cancel", d)
               /\ CreatedOnce(d)'
    <3>1. CASE task[c] = "suspended"
      <4>1. ready' = Append(ready, <<"step", c>>)
        BY <1>15, <3>1 DEF TearDown
      <4> QED
        BY <4>1, <1>t, <1>o, <1>h, PendingAdds DEF WorkedAt
    <3>2. CASE task[c] # "suspended"
      <4>1. ready' = ready
        BY <1>15, <3>2 DEF TearDown
      <4> QED
        BY <4>1, <1>q, <1>h DEF WorkedAt
    <3> QED
      BY <3>1, <3>2
  <2>5. ASSUME NEW d \in Call
        PROVE  PairedAt(d)' /\ WorkedAt(d)' /\ TruthAt(d)'
    <3>1. CASE d = c
      BY <3>1, <2>1, <2>2, <2>3, <2>4, <1>h DEF PairedAt, WorkedAt, TruthAt, Over
    <3>2. CASE d # c
      <4>1. task'[d] = task[d]
        BY <1>15, <3>2, <1>t DEF TearDown, TypeOK
      <4> QED
        BY <4>1, <2>1, <2>4, <1>h, CallFrame
    <3> QED
      BY <3>1, <3>2
  <2>6. Marked'
    BY <2>1, <2>3, <1>t DEF Marked
  <2> QED
    BY <2>5, <2>6
<1>16. CASE GatherTasks
  <2>1. ready' = ready /\ UNCHANGED <<stopped, stopper, halting, batch, caller, outcome, future, task>>
    BY <1>16 DEF GatherTasks
  <2>2. loop = "cancelling" /\ loop' = "gathering"
    BY <1>16 DEF GatherTasks
  <2>3. ASSUME NEW d \in Call
        PROVE  PairedAt(d)' /\ WorkedAt(d)' /\ TruthAt(d)'
    BY <2>1, <2>2, <1>h, <1>q, CallFrame DEF WorkedAt
  <2> QED
    BY <2>1, <2>2, <2>3, <1>t DEF Marked, StopPending
<1>17. CASE Gathered
  <2>1. ready' = ready /\ UNCHANGED <<stopped, stopper, halting, batch, caller, outcome, future, task>>
    BY <1>17 DEF Gathered
  <2>2. loop = "gathering" /\ loop' = "draining"
    BY <1>17 DEF Gathered
  <2>3. ASSUME NEW d \in Call
        PROVE  PairedAt(d)' /\ WorkedAt(d)' /\ TruthAt(d)'
    BY <2>1, <2>2, <1>h, <1>q, CallFrame DEF WorkedAt
  <2> QED
    BY <2>1, <2>2, <2>3, <1>t DEF Marked, StopPending
<1>18. CASE CloseLoop
  <2>1. ready' = <<>> /\ UNCHANGED <<stopped, stopper, halting, batch, caller, outcome, future, task>>
    BY <1>18 DEF CloseLoop
  <2>2. loop = "draining" /\ loop' = "closed" /\ batch = 0
    BY <1>18 DEF CloseLoop
  <2>3. ASSUME NEW h
        PROVE  ~Held(h, ready') /\ Once(h, ready')
    <3>1. \A i \in 1 .. Len(ready') : FALSE
      BY <2>1
    <3> QED
      BY <3>1 DEF Held, Once
  <2>4. ASSUME NEW d \in Call
        PROVE  PairedAt(d)' /\ WorkedAt(d)' /\ TruthAt(d)'
    <3>1. ~Pending("create", d)' /\ ~Pending("settle", d)' /\ ~Pending("cancel", d)' /\ CreatedOnce(d)'
      BY <2>3 DEF Pending, CreatedOnce
    <3> QED
      BY <3>1, <2>1, <2>2, <1>h, CallFrame
  <2> QED
    BY <2>1, <2>2, <2>4, <1>t DEF Marked
<1>19. CASE UNCHANGED vars
  <2>1. ASSUME NEW d \in Call
        PROVE  PairedAt(d)' /\ WorkedAt(d)' /\ TruthAt(d)'
    BY <1>19, <1>h, <1>q, CallFrame DEF vars, WorkedAt
  <2> QED
    BY <2>1, <1>19, <1>t DEF vars, Marked, StopPending
<1> QED
  BY <1>1, <1>2, <1>3, <1>4, <1>5, <1>6, <1>7, <1>8, <1>9, <1>10, <1>11, <1>12, <1>13, <1>14,
     <1>15, <1>16, <1>17, <1>18, <1>19 DEF Next, LoopThread, RunHandle

(* A caller, its future, the task on the loop and the handles pending for  *)
(* it always agree: the pairing that the outcomes and stop() rest on.      *)
THEOREM CallsAgree == Spec => []CallInv
<1> USE DEF CallInv
<1>1. Init => CallInv
  BY CallInit
<1>2. CallInv /\ [Next]_vars => CallInv'
  BY TypeStep, CallStep
<1> QED
  BY <1>1, <1>2, PTL DEF Spec

LEMMA TruthIsEnough == CallInv => OutcomeIsTrue
<1> SUFFICES ASSUME CallInv, NEW c \in Call
             PROVE  /\ outcome[c] = "refused" => task[c] = "none" /\ stopped
                    /\ outcome[c] = "result" => task[c] = "finished"
                    /\ outcome[c] = "stopped" => task[c] = "cancelled" /\ stopped
                    /\ outcome[c] # "cancelled"
                    /\ outcome[c] = "timeout" /\ loop # "closed" =>
                         \/ Over(c)
                         \/ task[c] = "cancelling"
                         \/ \E i \in DOMAIN ready : ready[i] \in {<<"create", c>>, <<"cancel", c>>}
  BY DEF OutcomeIsTrue
<1>1. TruthAt(c)
  BY DEF CallInv, Truth
<1>2. Pending("create", c) \/ Pending("cancel", c) =>
        \E i \in DOMAIN ready : ready[i] \in {<<"create", c>>, <<"cancel", c>>}
  <2>1. DOMAIN ready = 1 .. Len(ready)
    BY DEF CallInv, TypeOK
  <2> QED
    BY <2>1 DEF Pending, Held
<1> QED
  BY <1>1, <1>2 DEF TruthAt

\* A refused call never ran, a result is the result of a finished task, a call
\* ends with PortalStopped only if it was cancelled by the stop, and a call
\* that timed out is cancelled on the loop as well (portal.py:259-300).
THEOREM OutcomesAreTrue == Spec => []OutcomeIsTrue
<1> QED
  BY CallsAgree, TruthIsEnough, PTL

-------------------------------------------------------------------------------
(* The stop *)

LEMMA StopInit == Init => StopInv
<1> SUFFICES ASSUME Init
             PROVE  StopInv
  OBVIOUS
<1>1. \A i \in 1 .. Len(ready) : FALSE
  BY DEF Init
<1>2. \A c \in Call : SweptAt(c)
  BY <1>1 DEF Init, SweptAt, Precedes, Pending, Held
<1>3. loop = "running"
  BY DEF Init
<1> QED
  BY <1>2, <1>3 DEF StopInv, Swept, Torn, Drained, StopEndsCalls

\* Where the handles of d lie has not changed for the worse: a handle of a
\* call has been added.
LEMMA SweptAdds ==
  ASSUME TypeOK, NEW op \in Ops, NEW c \in Call, ready' = Append(ready, <<op, c>>),
         UNCHANGED <<halting, batch>>, NEW d \in Call, SweptAt(d), d \in overtaken => d \in overtaken',
         ~(op = "create" /\ d = c)
  PROVE  SweptAt(d)' /\ (op # "settle" \/ d # c => (Within(<<"settle", d>>, batch, ready) => Within(<<"settle", d>>, batch, ready)'))
<1>1. ready \in Seq(Handles) /\ batch \in Nat
  BY DEF TypeOK
<1>2. <<op, c>> \in Handles /\ <<"create", d>> # <<op, c>> /\ <<"stop">> # <<"create", d>>
  BY HandleKinds DEF Ops
<1>3. Precedes(<<"create", d>>, <<"stop">>, ready) => Precedes(<<"create", d>>, <<"stop">>, ready')
  BY <1>1, <1>2, AddsPlace
<1>4. Pending("create", d)' => Pending("create", d)
  BY <1>2, PendingAdds DEF Ops
<1>5. ASSUME op # "settle" \/ d # c
      PROVE  Within(<<"settle", d>>, batch, ready) => Within(<<"settle", d>>, batch, ready)'
  <2>1. <<"settle", d>> # <<op, c>> /\ <<"stop">> # <<"settle", d>>
    BY <1>5, HandleKinds DEF Ops
  <2>2. PICK n \in Nat : n = batch
    BY <1>1
  <2>3. Within(<<"settle", d>>, n, ready) => Within(<<"settle", d>>, n, ready')
    BY <2>1, <1>1, <1>2, AddsPlace
  <2> QED
    BY <2>2, <2>3
<1> QED
  BY <1>3, <1>4, <1>5 DEF SweptAt

\* The same when a handle has been run.
LEMMA SweptRuns ==
  ASSUME TypeOK, NEW op \in Ops, NEW c \in Call, NEW s \in Seq(Handles), Runs(op, c, s),
         NEW d \in Call, SweptAt(d), ~Held(<<"create", d>>, s), ~Held(<<"stop">>, s)
  PROVE  /\ SweptAt(d)'
         /\ ~Held(<<"settle", d>>, s) =>
              (Within(<<"settle", d>>, batch, ready) => Within(<<"settle", d>>, batch, ready)')
<1>1. /\ batch > 0 /\ Head(ready) = <<op, c>> /\ ready' = Tail(ready) \o s /\ batch' = batch - 1
      /\ UNCHANGED <<halting, overtaken>>
  BY DEF Runs, callVars
<1>2. <<"stop">> # <<"create", d>> /\ <<"stop">> # <<"settle", d>>
  BY HandleKinds
<1>3. Precedes(<<"create", d>>, <<"stop">>, ready) => Precedes(<<"create", d>>, <<"stop">>, ready')
  BY <1>1, <1>2, TakesPlace
<1>4. Pending("create", d)' => Pending("create", d)
  <2>1. "create" \in Ops
    BY DEF Ops
  <2> QED
    BY <2>1, PendingRuns
<1>5. ~Held(<<"settle", d>>, s) =>
        (Within(<<"settle", d>>, batch, ready) => Within(<<"settle", d>>, batch', ready'))
  BY <1>1, <1>2, TakesPlace
<1> QED
  BY <1>1, <1>3, <1>4, <1>5 DEF SweptAt
\* An action that leaves the loop in its phase and takes nothing from what a
\* call made in time is owed.
LEMMA StopFrame ==
  ASSUME CallInv, StopInv, \A d \in Call : SweptAt(d)',
         UNCHANGED <<loop, laps>>, torn \subseteq torn', overtaken \subseteq overtaken',
         loop \in {"gathering", "draining", "closed"} => Unfinished' \subseteq Unfinished \cup overtaken,
         loop = "closed" => \A d \in Call : Waiting(d)' => Waiting(d),
         loop = "draining" => \A d \in Call : d \notin overtaken =>
            (Within(<<"settle", d>>, batch, ready) => Within(<<"settle", d>>, batch, ready)')
  PROVE  StopInv'
<1>1. Swept'
  BY DEF Swept
<1>2. Torn'
  BY DEF StopInv, Torn
<1>3. Drained'
  BY DEF StopInv, Drained
<1>4. StopEndsCalls'
  <2> SUFFICES ASSUME loop = "closed", NEW d \in Call, Waiting(d)' \/ d \in Unfinished'
               PROVE  d \in overtaken'
    BY DEF StopEndsCalls
  <2> QED
    BY DEF StopInv, StopEndsCalls
<1> QED
  BY <1>1, <1>2, <1>3, <1>4 DEF StopInv

LEMMA StopStep == CallInv /\ CallInv' /\ StopInv /\ [Next]_vars => StopInv'
<1> SUFFICES ASSUME CallInv, CallInv', StopInv, [Next]_vars
             PROVE  StopInv'
  OBVIOUS
<1> USE DEF callVars, loopVars
<1>t. TypeOK /\ Marked /\ Torn /\ ready \in Seq(Handles) /\ batch \in Nat
  BY DEF CallInv, StopInv, TypeOK
<1>h. ASSUME NEW d \in Call
      PROVE  WorkedAt(d) /\ SweptAt(d)
  BY DEF CallInv, Worked, StopInv, Swept
<1>o. {"create", "step", "cancel", "settle"} = Ops
  BY DEF Ops
<1>q. ASSUME UNCHANGED <<ready, halting>>, overtaken \subseteq overtaken', NEW d \in Call
      PROVE  /\ SweptAt(d)'
             /\ batch' = batch => (Within(<<"settle", d>>, batch, ready) => Within(<<"settle", d>>, batch, ready)')
  BY <1>q, <1>h DEF SweptAt, Pending
<1>1. ASSUME NEW c \in Call, Check(c)
      PROVE  StopInv'
  <2>1. UNCHANGED <<loop, laps, torn, overtaken, ready, batch, halting, task, future>>
    BY <1>1 DEF Check
  <2>2. Unfinished' = Unfinished
    BY <2>1 DEF Unfinished
  <2>3. ASSUME NEW d \in Call, Waiting(d)'
        PROVE  Waiting(d)
    BY <1>1, <1>t, <2>1, <2>3 DEF Check, Return, Waiting, TypeOK
  <2> QED
    BY <2>1, <2>2, <2>3, <1>q, StopFrame
<1>2. ASSUME NEW c \in Call, Post(c)
      PROVE  StopInv'
  <2>1. UNCHANGED <<loop, laps, torn, batch, halting, task, stopped>>
    BY <1>2 DEF Post
  <2>2. Unfinished' = Unfinished
    BY <2>1 DEF Unfinished
  <2>3. CASE loop # "closed"
    <3>1. ready' = Append(ready, <<"create", c>>) /\ overtaken \subseteq overtaken' /\ (stopped => c \in overtaken')
      BY <1>2, <2>3 DEF Post
    <3>2. ASSUME NEW d \in Call
          PROVE  SweptAt(d)' /\ (Within(<<"settle", d>>, batch, ready) => Within(<<"settle", d>>, batch, ready)')
      <4>1. "create" \in Ops /\ "create" # "settle"
        BY DEF Ops
      <4>2. Within(<<"settle", d>>, batch, ready) => Within(<<"settle", d>>, batch, ready)'
        <5>1. PICK n \in Nat : n = batch
          BY <1>t
        <5>2. <<"settle", d>> # <<"create", c>> /\ <<"stop">> # <<"settle", d>> /\ <<"create", c>> \in Handles
          BY HandleKinds
        <5>3. Within(<<"settle", d>>, n, ready) => Within(<<"settle", d>>, n, ready')
          BY <5>2, <3>1, <1>t, AddsPlace
        <5> QED
          BY <5>1, <5>3, <2>1
      <4>3. CASE d = c /\ ~stopped
        <5>1. ~StopPending /\ ~halting
          BY <4>3, <1>t DEF Marked
        <5>2. ~StopPending'
          BY <5>1, <4>1, <3>1, <1>t, PendingAdds
        <5>3. Precedes(<<"create", d>>, <<"stop">>, ready')
          BY <5>2 DEF StopPending, Held, Precedes
        <5> QED
          BY <5>1, <5>3, <4>2, <2>1 DEF SweptAt
      <4>4. CASE d = c /\ stopped
        <5>1. d \in overtaken'
          BY <3>1, <4>4
        <5> QED
          BY <5>1, <4>2 DEF SweptAt
      <4>5. CASE d # c
        BY <4>5, <4>1, <4>2, <3>1, <2>1, <1>t, <1>h, SweptAdds
      <4> QED
        BY <4>3, <4>4, <4>5
    <3> QED
      BY <2>1, <2>2, <2>3, <3>1, <3>2, StopFrame
  <2>4. CASE loop = "closed"
    <3>1. UNCHANGED <<ready, future, overtaken>>
      BY <1>2, <2>4 DEF Post
    <3>2. ASSUME NEW d \in Call, Waiting(d)'
          PROVE  Waiting(d)
      BY <1>2, <1>t, <2>4, <3>1, <3>2 DEF Post, Return, Waiting, TypeOK
    <3> QED
      BY <2>1, <2>2, <2>4, <3>1, <3>2, <1>q, StopFrame
  <2> QED
    BY <2>3, <2>4
<1>3. ASSUME NEW c \in Call, TimesOut(c)
      PROVE  StopInv'
  <2>1. UNCHANGED <<loop, laps, torn, batch, halting, task, overtaken>>
    BY <1>3 DEF TimesOut
  <2>2. Unfinished' = Unfinished
    BY <2>1 DEF Unfinished
  <2>3. ASSUME NEW d \in Call, Waiting(d)'
        PROVE  Waiting(d)
    BY <1>3, <1>t, <2>3 DEF TimesOut, Return, Waiting, TypeOK
  <2>4. CASE task[c] # "none" /\ loop # "closed"
    <3>1. ready' = Append(ready, <<"cancel", c>>)
      BY <1>3, <2>4 DEF TimesOut
    <3>2. ASSUME NEW d \in Call
          PROVE  SweptAt(d)' /\ (Within(<<"settle", d>>, batch, ready) => Within(<<"settle", d>>, batch, ready)')
      <4>1. "cancel" \in Ops /\ "cancel" # "settle" /\ "cancel" # "create"
        BY DEF Ops
      <4> QED
        BY <4>1, <3>1, <2>1, <1>t, <1>h, SweptAdds
    <3> QED
      BY <2>1, <2>2, <2>3, <3>2, StopFrame
  <2>5. CASE ~(task[c] # "none" /\ loop # "closed")
    <3>1. ready' = ready
      BY <1>3, <2>5 DEF TimesOut
    <3> QED
      BY <2>1, <2>2, <2>3, <3>1, <1>q, StopFrame
  <2> QED
    BY <2>4, <2>5
<1>4. ASSUME NEW c \in Call, Returns(c)
      PROVE  StopInv'
  <2>1. UNCHANGED <<loop, laps, torn, overtaken, ready, batch, halting, task, future>>
    BY <1>4 DEF Returns
  <2>2. Unfinished' = Unfinished
    BY <2>1 DEF Unfinished
  <2>3. ASSUME NEW d \in Call, Waiting(d)'
        PROVE  Waiting(d)
    BY <1>4, <1>t, <2>1, <2>3 DEF Returns, Return, Waiting, TypeOK
  <2> QED
    BY <2>1, <2>2, <2>3, <1>q, StopFrame
<1>5. ASSUME NEW c \in Call, Wake(c)
      PROVE  StopInv'
  <2>1. UNCHANGED <<loop, laps, torn, batch, halting, overtaken, caller, future>> /\ loop # "closed"
    BY <1>5 DEF Wake
  <2>2. Unfinished' \subseteq Unfinished
    <3>1. c \in Unfinished /\ \A d \in Call \ {c} : task'[d] = task[d]
      BY <1>5, <1>t DEF Wake, TypeOK, Unfinished
    <3> QED
      BY <3>1 DEF Unfinished
  <2>3. ASSUME NEW d \in Call
        PROVE  SweptAt(d)' /\ (Within(<<"settle", d>>, batch, ready) => Within(<<"settle", d>>, batch, ready)')
    <3>1. "step" \in Ops /\ "step" # "settle" /\ "step" # "create" /\ ready' = Append(ready, <<"step", c>>)
      BY <1>5 DEF Ops, Wake
    <3> QED
      BY <3>1, <2>1, <1>t, <1>h, SweptAdds
  <2> QED
    BY <2>1, <2>2, <2>3, StopFrame
<1>6. CASE MarkStopped
  <2>1. UNCHANGED <<loop, laps, torn, overtaken, ready, batch, halting, task, future, caller>>
    BY <1>6 DEF MarkStopped
  <2>2. Unfinished' = Unfinished /\ \A d \in Call : Waiting(d)' => Waiting(d)
    BY <2>1 DEF Unfinished, Waiting
  <2> QED
    BY <2>1, <2>2, <1>q, StopFrame
<1>7. CASE PostStop
  <2>1. UNCHANGED <<loop, laps, torn, overtaken, batch, halting, task, future, caller>>
    BY <1>7 DEF PostStop
  <2>2. Unfinished' = Unfinished /\ \A d \in Call : Waiting(d)' => Waiting(d)
    BY <2>1 DEF Unfinished, Waiting
  <2>3. ready' = Append(ready, <<"stop">>) /\ <<"stop">> \in Handles
    BY <1>7 DEF PostStop, Handles
  <2>4. ASSUME NEW d \in Call
        PROVE  SweptAt(d)' /\ (Within(<<"settle", d>>, batch, ready) => Within(<<"settle", d>>, batch, ready)')
    <3>1. <<"create", d>> # <<"stop">> /\ <<"settle", d>> # <<"stop">>
      BY HandleKinds
    <3>2. PICK n \in Nat : n = batch
      BY <1>t
    <3>3. Precedes(<<"create", d>>, <<"stop">>, ready) => Precedes(<<"create", d>>, <<"stop">>, ready')
      BY <3>1, <2>3, <1>t, AddsPlace
    <3>4. Within(<<"settle", d>>, n, ready) => Within(<<"settle", d>>, n, ready')
      BY <3>1, <2>3, <1>t, AddsPlace
    <3>5. Held(<<"create", d>>, ready') <=> Held(<<"create", d>>, ready)
      BY <3>1, <2>3, <1>t, Adds
    <3> QED
      BY <3>2, <3>3, <3>4, <3>5, <2>1, <1>h DEF SweptAt, Pending
  <2> QED
    BY <2>1, <2>2, <2>4, StopFrame
<1>8. CASE Lap
  <2>1. UNCHANGED <<loop, torn, overtaken, ready, halting, task, future, caller>> /\ batch' = Len(ready) /\ loop # "closed"
    BY <1>8 DEF Lap
  <2>2. Unfinished' = Unfinished
    BY <2>1 DEF Unfinished
  <2>3. Swept' /\ Torn'
    BY <2>1, <2>2, <1>q, <1>t DEF Swept, Torn
  <2>4. Drained'
    <3>1. \A d \in Call : Within(<<"settle", d>>, batch', ready')
      BY <2>1 DEF Within
    <3> QED
      BY <3>1 DEF Drained
  <2> QED
    BY <2>1, <2>3, <2>4 DEF StopInv, StopEndsCalls
<1>9. ASSUME NEW c \in Call, CreateTask(c)
      PROVE  StopInv'
  <2>1. PICK s \in {<<<<"step", c>>>>, <<<<"step", c>>, <<"cancel", c>>>>} :
          s \in Seq(Handles) /\ Runs("create", c, s)
    BY <1>9, Scheduled DEF CreateTask
  <2>2. ASSUME NEW d \in Call
        PROVE  ~Held(<<"create", d>>, s) /\ ~Held(<<"settle", d>>, s) /\ ~Held(<<"stop">>, s)
    <3>1. ASSUME NEW k \in {"create", "settle"}
          PROVE  /\ ~Held(<<k, d>>, <<<<"step", c>>>>) /\ ~Held(<<"stop">>, <<<<"step", c>>>>)
                 /\ ~Held(<<k, d>>, <<<<"step", c>>, <<"cancel", c>>>>)
                 /\ ~Held(<<"stop">>, <<<<"step", c>>, <<"cancel", c>>>>)
      <4>1. k \in Ops /\ k # "step" /\ k # "cancel"
        BY DEF Ops
      <4> QED
        BY <4>1, ScheduledHeld
    <3> QED
      BY <2>1, <3>1
  <2>3. UNCHANGED <<loop, laps, torn, overtaken, halting, caller, future>> /\ loop # "closed"
    <3>1. batch > 0
      BY <2>1 DEF Runs
    <3> QED
      BY <1>9, <2>1, <3>1, <1>t DEF CreateTask, Runs, Marked
  <2>4. ASSUME NEW d \in Call
        PROVE  SweptAt(d)' /\ (Within(<<"settle", d>>, batch, ready) => Within(<<"settle", d>>, batch, ready)')
    BY <2>1, <2>2, <1>t, <1>o, <1>h, SweptRuns
  <2>5. Unfinished' \subseteq Unfinished \cup {c}
    BY <1>9, <1>t DEF CreateTask, Unfinished, TypeOK
  <2>6. halting => c \in overtaken
    <3>1. Pending("create", c)
      BY <2>1, <1>t, <1>o, PendingRuns
    <3> QED
      BY <3>1, <1>h DEF SweptAt
  <2>7. loop \in {"gathering", "draining", "closed"} => Unfinished' \subseteq Unfinished \cup overtaken
    BY <2>5, <2>6, <1>t DEF Marked
  <2> QED
    BY <2>3, <2>4, <2>7, StopFrame
<1>10. ASSUME NEW c \in Call, StepTask(c)
       PROVE  StopInv'
  <2>1. PICK s \in {<<>>, <<<<"settle", c>>>>} : s \in Seq(Handles) /\ Runs("step", c, s)
    BY <1>10, Scheduled DEF StepTask
  <2>2. ASSUME NEW d \in Call
        PROVE  /\ ~Held(<<"create", d>>, s) /\ ~Held(<<"stop">>, s)
               /\ Held(<<"settle", d>>, s) => d = c
    <3>1. "create" \in Ops /\ "settle" \in Ops
      BY DEF Ops
    <3>2. /\ ~Held(<<"create", d>>, <<>>) /\ ~Held(<<"settle", d>>, <<>>) /\ ~Held(<<"stop">>, <<>>)
          /\ ~Held(<<"create", d>>, <<<<"settle", c>>>>) /\ ~Held(<<"stop">>, <<<<"settle", c>>>>)
          /\ Held(<<"settle", d>>, <<<<"settle", c>>>>) => d = c
      BY <3>1, ScheduledHeld
    <3> QED
      BY <2>1, <3>2
  <2>3. UNCHANGED <<loop, laps, torn, overtaken, halting, caller, future>> /\ loop # "closed"
    <3>1. batch > 0
      BY <2>1 DEF Runs
    <3> QED
      BY <1>10, <2>1, <3>1, <1>t DEF StepTask, Runs, Marked
  <2>4. ASSUME NEW d \in Call
        PROVE  /\ SweptAt(d)'
               /\ d # c => (Within(<<"settle", d>>, batch, ready) => Within(<<"settle", d>>, batch, ready)')
    BY <2>1, <2>2, <1>t, <1>o, <1>h, SweptRuns
  <2>5. Unfinished' \subseteq Unfinished /\ c \in Unfinished
    <3>1. c \in Unfinished /\ \A d \in Call \ {c} : task'[d] = task[d]
      BY <1>10, <1>t DEF StepTask, TypeOK, Unfinished
    <3> QED
      BY <3>1 DEF Unfinished
  <2>6. loop = "draining" => c \in overtaken
    BY <2>5, <1>t DEF Torn
  <2> QED
    BY <2>3, <2>4, <2>5, <2>6, StopFrame
<1>11. ASSUME NEW c \in Call, CancelTask(c)
       PROVE  StopInv'
  <2>1. PICK s \in {<<>>, <<<<"step", c>>>>} : s \in Seq(Handles) /\ Runs("cancel", c, s)
    BY <1>11, Scheduled DEF CancelTask
  <2>2. ASSUME NEW d \in Call
        PROVE  ~Held(<<"create", d>>, s) /\ ~Held(<<"settle", d>>, s) /\ ~Held(<<"stop">>, s)
    <3>1. "create" \in Ops /\ "settle" \in Ops
      BY DEF Ops
    <3>2. /\ ~Held(<<"create", d>>, <<>>) /\ ~Held(<<"settle", d>>, <<>>) /\ ~Held(<<"stop">>, <<>>)
          /\ ~Held(<<"create", d>>, <<<<"step", c>>>>) /\ ~Held(<<"stop">>, <<<<"step", c>>>>)
          /\ ~Held(<<"settle", d>>, <<<<"step", c>>>>)
      BY <3>1, ScheduledHeld
    <3> QED
      BY <2>1, <3>2
  <2>3. UNCHANGED <<loop, laps, torn, overtaken, halting, caller, future>> /\ loop # "closed"
    <3>1. batch > 0
      BY <2>1 DEF Runs
    <3> QED
      BY <1>11, <2>1, <3>1, <1>t DEF CancelTask, Runs, Marked
  <2>4. ASSUME NEW d \in Call
        PROVE  SweptAt(d)' /\ (Within(<<"settle", d>>, batch, ready) => Within(<<"settle", d>>, batch, ready)')
    BY <2>1, <2>2, <1>t, <1>o, <1>h, SweptRuns
  <2>5. Unfinished' \subseteq Unfinished
    <3>1. task[c] # "none"
      <4>1. Pending("cancel", c)
        BY <2>1, <1>t, <1>o, PendingRuns
      <4> QED
        BY <4>1, <1>h DEF WorkedAt
    <3>2. task' = [task EXCEPT ![c] = IF Over(c) THEN @ ELSE "cancelling"]
      BY <1>11 DEF CancelTask
    <3>3. c \in Unfinished \/ task' = task
      BY <3>1, <3>2, <1>t DEF Over, Unfinished, TypeOK
    <3>4. \A d \in Call \ {c} : task'[d] = task[d]
      BY <3>2, <1>t DEF TypeOK
    <3> QED
      BY <3>3, <3>4 DEF Unfinished
  <2> QED
    BY <2>3, <2>4, <2>5, StopFrame
<1>12. ASSUME NEW c \in Call, SettleFuture(c)
       PROVE  StopInv'
  <2>1. Runs("settle", c, <<>>) /\ <<>> \in Seq(Handles)
    BY <1>12, Scheduled DEF SettleFuture
  <2>2. ASSUME NEW d \in Call
        PROVE  ~Held(<<"create", d>>, <<>>) /\ ~Held(<<"settle", d>>, <<>>) /\ ~Held(<<"stop">>, <<>>)
    BY <1>o, ScheduledHeld
  <2>3. UNCHANGED <<loop, laps, torn, overtaken, halting, caller, task>> /\ loop # "closed"
    <3>1. batch > 0
      BY <2>1 DEF Runs
    <3> QED
      BY <1>12, <2>1, <3>1, <1>t DEF SettleFuture, Runs, Marked
  <2>4. ASSUME NEW d \in Call
        PROVE  SweptAt(d)' /\ (Within(<<"settle", d>>, batch, ready) => Within(<<"settle", d>>, batch, ready)')
    BY <2>1, <2>2, <1>t, <1>o, <1>h, SweptRuns
  <2>5. Unfinished' = Unfinished
    BY <2>3 DEF Unfinished
  <2> QED
    BY <2>3, <2>4, <2>5, StopFrame
<1>13. CASE StopLoop
  <2>1. /\ ready' = Tail(ready) /\ Head(ready) = <<"stop">> /\ batch > 0 /\ batch' = batch - 1
        /\ UNCHANGED <<loop, laps, torn, overtaken, task, future, caller>>
    BY <1>13 DEF StopLoop
  <2>2. Unfinished' = Unfinished /\ \A d \in Call : Waiting(d)' => Waiting(d)
    BY <2>1 DEF Unfinished, Waiting
  <2>3. ready' = Tail(ready) \o <<>> /\ <<>> \in Seq(Handles)
    <3>1. Tail(ready) \in Seq(Handles)
      BY <1>t, <2>1 DEF TypeOK
    <3> QED
      BY <3>1, <2>1
  <2>4. ASSUME NEW d \in Call
        PROVE  SweptAt(d)' /\ (Within(<<"settle", d>>, batch, ready) => Within(<<"settle", d>>, batch, ready)')
    <3>1. <<"create", d>> # <<"stop">> /\ <<"settle", d>> # <<"stop">>
      BY HandleKinds
    <3>2. ~Held(<<"create", d>>, <<>>) /\ ~Held(<<"settle", d>>, <<>>) /\ ~Held(<<"stop">>, <<>>)
      BY <1>o, ScheduledHeld
    <3>3. /\ Precedes(<<"create", d>>, <<"stop">>, ready) => Precedes(<<"create", d>>, <<"stop">>, ready')
          /\ Precedes(<<"create", d>>, <<"stop">>, ready) => ~Held(<<"create", d>>, ready')
      BY <3>1, <3>2, <2>1, <2>3, <1>t, TakesPlace
    <3>4. Within(<<"settle", d>>, batch, ready) => Within(<<"settle", d>>, batch', ready')
      BY <3>1, <3>2, <2>1, <2>3, <1>t, TakesPlace
    <3> QED
      BY <3>3, <3>4, <2>1, <1>h DEF SweptAt, Pending
  <2> QED
    BY <2>1, <2>2, <2>4, StopFrame
<1>14. CASE LeaveLoop
  <2>1. UNCHANGED <<overtaken, ready, halting>> /\ loop' = "cancelling"
    BY <1>14 DEF LeaveLoop
  <2> QED
    BY <2>1, <1>q DEF StopInv, Swept, Torn, Drained, StopEndsCalls
<1>15. ASSUME NEW c \in Call, TearDown(c)
       PROVE  StopInv'
  <2>1. UNCHANGED <<loop, laps, batch, halting, overtaken, caller, future>> /\ loop = "cancelling"
    BY <1>15 DEF TearDown
  <2>2. ASSUME NEW d \in Call
        PROVE  SweptAt(d)'
    <3>1. CASE task[c] = "suspended"
      <4>1. "step" \in Ops /\ "step" # "create" /\ ready' = Append(ready, <<"step", c>>)
        BY <1>15, <3>1 DEF Ops, TearDown
      <4> QED
        BY <4>1, <2>1, <1>t, <1>h, SweptAdds
    <3>2. CASE task[c] # "suspended"
      <4>1. ready' = ready
        BY <1>15, <3>2 DEF TearDown
      <4> QED
        BY <4>1, <2>1, <1>q
    <3> QED
      BY <3>1, <3>2
  <2> QED
    BY <2>1, <2>2 DEF StopInv, Swept, Torn, Drained, StopEndsCalls
<1>16. CASE GatherTasks
  <2>1. UNCHANGED <<overtaken, ready, halting, task, torn>> /\ loop' = "gathering" /\ Unfinished \subseteq torn
    BY <1>16 DEF GatherTasks
  <2>2. Unfinished' = Unfinished
    BY <2>1 DEF Unfinished
  <2> QED
    BY <2>1, <2>2, <1>q DEF StopInv, Swept, Torn, Drained, StopEndsCalls
<1>17. CASE Gathered
  <2>1. /\ UNCHANGED <<overtaken, ready, halting, task, torn>>
        /\ loop = "gathering" /\ loop' = "draining" /\ laps' = DrainLaps /\ GatherDone
    BY <1>17 DEF Gathered
  <2>2. Unfinished \subseteq overtaken
    <3> SUFFICES ASSUME NEW d \in Unfinished
                 PROVE  d \in overtaken
      OBVIOUS
    <3>1. ~Over(d)
      BY DEF Unfinished, Over
    <3>2. d \notin torn
      BY <3>1, <2>1 DEF GatherDone
    <3> QED
      BY <3>2, <2>1, <1>t DEF Torn
  <2>3. Unfinished' = Unfinished
    BY <2>1 DEF Unfinished
  <2>4. ~(laps' < DrainLaps)
    BY <2>1 DEF DrainLaps
  <2> QED
    BY <2>1, <2>2, <2>3, <2>4, <1>q DEF StopInv, Swept, Torn, Drained, StopEndsCalls
<1>18. CASE CloseLoop
  <2>1. /\ UNCHANGED <<overtaken, halting, task, caller, future>> /\ ready' = <<>>
        /\ loop = "draining" /\ loop' = "closed" /\ laps = 0 /\ batch = 0
    BY <1>18 DEF CloseLoop
  <2>2. Unfinished' = Unfinished /\ Unfinished \subseteq overtaken
    BY <2>1, <1>t DEF Unfinished, Torn
  <2>3. Swept'
    <3>1. \A i \in 1 .. Len(ready') : FALSE
      BY <2>1
    <3> QED
      BY <3>1 DEF Swept, SweptAt, Precedes, Pending, Held
  <2>4. ASSUME NEW d \in Call, d \notin overtaken
        PROVE  ~Waiting(d)
    <3>1. Within(<<"settle", d>>, batch, ready)
      <4>1. laps < DrainLaps
        BY <2>1 DEF DrainLaps
      <4> QED
        BY <4>1, <2>1, <2>4 DEF StopInv, Drained
    <3>2. ~Pending("settle", d)
      <4>1. \A i \in 1 .. Len(ready) : ready[i] # <<"settle", d>>
        BY <3>1, <2>1 DEF Within
      <4> QED
        BY <4>1 DEF Pending, Held
    <3>3. ~Pending("create", d)
      BY <2>1, <2>4, <1>t, <1>h DEF Marked, SweptAt
    <3>4. task[d] = "none" \/ Over(d)
      BY <2>2, <2>4, <1>t DEF Unfinished, Over, TypeOK
    <3> QED
      BY <3>2, <3>3, <3>4, <2>1, <1>h DEF WorkedAt, Waiting
  <2> QED
    BY <2>1, <2>2, <2>3, <2>4 DEF StopInv, Torn, Drained, StopEndsCalls, Waiting
<1>19. CASE UNCHANGED vars
  <2>1. UNCHANGED <<loop, laps, torn, overtaken, ready, batch, halting, task, future, caller>>
    BY <1>19 DEF vars
  <2>2. Unfinished' = Unfinished /\ \A d \in Call : Waiting(d)' => Waiting(d)
    BY <2>1 DEF Unfinished, Waiting
  <2> QED
    BY <2>1, <2>2, <1>q, StopFrame
<1> QED
  BY <1>1, <1>2, <1>3, <1>4, <1>5, <1>6, <1>7, <1>8, <1>9, <1>10, <1>11, <1>12, <1>13, <1>14,
     <1>15, <1>16, <1>17, <1>18, <1>19 DEF Next, LoopThread, RunHandle

\* When the loop is closed no thread is left waiting for a call it made before
\* stop() began, and no task of such a call is left (portal.py:69-90, 104-125):
\* its task was created before the loop looked at its stop flag, the teardown
\* waited for it, and its result was passed on in the laps that followed.
THEOREM StopIsComplete == Spec => []StopEndsCalls
<1> USE DEF PortalInv
<1>1. Init => PortalInv
  BY CallInit, StopInit
<1>2. PortalInv /\ [Next]_vars => PortalInv'
  <2> SUFFICES ASSUME PortalInv, [Next]_vars
               PROVE  PortalInv'
    OBVIOUS
  <2>1. TypeOK'
    BY TypeStep DEF CallInv
  <2>2. CallInv'
    BY <2>1, CallStep
  <2> QED
    BY <2>2, StopStep
<1>3. PortalInv => StopEndsCalls
  BY DEF StopInv
<1> QED
  BY <1>1, <1>2, <1>3, PTL DEF Spec

===============================================================================
