------------------------------- MODULE EventFeed -------------------------------
(***************************************************************************)
(* What an AsyncSubscription promises its consumers: every event goes to   *)
(* exactly one of them, in order; "no more" and "not yet" are said only    *)
(* when they are true; and nobody waits for what is already there.         *)
(* EventStream implements this specification.                              *)
(***************************************************************************)
EXTENDS Naturals, Sequences

CONSTANTS
  Getter, \* the consumer tasks
  Timed   \* those that call get() with a timeout

VARIABLES
  backlog, \* the events nobody has taken, by number
  sent,    \* how many there have been
  over,    \* no further event will come
  asking,  \* the consumers that are waiting
  answer   \* per consumer: what its last get() gave

vars == <<backlog, sent, over, asking, answer>>

Init ==
  /\ backlog = <<>>
  /\ sent = 0
  /\ over = FALSE
  /\ asking = {}
  /\ answer = [g \in Getter |-> <<"none">>]

Arrive ==
  /\ ~over
  /\ sent' = sent + 1
  /\ backlog' = Append(backlog, sent + 1)
  /\ UNCHANGED <<over, asking, answer>>

Finish ==
  /\ ~over
  /\ over' = TRUE
  /\ UNCHANGED <<backlog, sent, asking, answer>>

Ask(g) ==
  /\ g \notin asking
  /\ backlog = <<>> /\ ~over
  /\ asking' = asking \cup {g}
  /\ UNCHANGED <<backlog, sent, over, answer>>

Give(g, what) ==
  /\ asking' = asking \ {g}
  /\ answer' = [answer EXCEPT ![g] = what]
  /\ UNCHANGED <<sent, over>>

\* A consumer that asks, or has asked, takes the oldest event.
Deliver(g) ==
  /\ backlog # <<>>
  /\ backlog' = Tail(backlog)
  /\ Give(g, <<"event", Head(backlog)>>)

\* The stream has ended and is drained.
SayOver(g) ==
  /\ backlog = <<>> /\ over
  /\ Give(g, <<"ended">>)
  /\ UNCHANGED backlog

\* The timeout has passed and nothing is there.
SayNotYet(g) ==
  /\ g \in Timed
  /\ backlog = <<>> /\ ~over
  /\ Give(g, <<"timeout">>)
  /\ UNCHANGED backlog

\* A consumer is cancelled; it takes nothing with it.
Abandon(g) ==
  /\ g \in asking
  /\ Give(g, <<"cancelled">>)
  /\ UNCHANGED backlog

Served(g) == Deliver(g) \/ SayOver(g)

Next ==
  \/ Arrive \/ Finish
  \/ \E g \in Getter : Ask(g) \/ Served(g) \/ SayNotYet(g) \/ Abandon(g)

Spec == Init /\ [][Next]_vars

\* Once the stream has ended every waiting consumer is told; one with a
\* timeout does not wait for ever in any case.
FairSpec ==
  /\ Spec
  /\ \A g \in Getter : WF_vars(over /\ g \in asking /\ (Served(g) \/ Abandon(g)))
  /\ \A g \in Timed : WF_vars(g \in asking /\ (Served(g) \/ SayNotYet(g) \/ Abandon(g)))
================================================================================
