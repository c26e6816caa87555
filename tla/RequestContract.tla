--------------------------- MODULE RequestContract ---------------------------
(***************************************************************************)
(* What AsyncBridgeClient promises of one request, whatever the socket,    *)
(* the bridge, the deadline and the caller's own cancellation do: it is    *)
(* settled once, for a reason that is true at that moment, and the verdict *)
(* never changes afterwards.  Requests implements this specification.      *)
(***************************************************************************)

CONSTANTS
  Req,    \* the requests made over the life of one client
  Timed   \* those sent with a deadline

VARIABLES
  phase,   \* per request: "idle", "live" or "settled"
  verdict, \* per request: how it was settled
  said,    \* per request: the kinds of answer the bridge has given
  ended    \* the connection has ended

vars == <<phase, verdict, said, ended>>

\* Verdicts reached without the request ever being live.
Refusals == {"refused", "too_large"}

\* Verdicts a live request may reach.
Verdicts == {"result", "error", "timeout", "closed", "cancelled", "send_error"}

Init ==
  /\ phase = [r \in Req |-> "idle"]
  /\ verdict = [r \in Req |-> "none"]
  /\ said = [r \in Req |-> {}]
  /\ ended = FALSE

Ask(r) ==
  /\ phase[r] = "idle"
  /\ ~ended
  /\ phase' = [phase EXCEPT ![r] = "live"]
  /\ UNCHANGED <<verdict, said, ended>>

Refuse(r) ==
  /\ phase[r] = "idle"
  /\ \E v \in Refusals :
        /\ v = "too_large" => ~ended
        /\ verdict' = [verdict EXCEPT ![r] = v]
  /\ phase' = [phase EXCEPT ![r] = "settled"]
  /\ UNCHANGED <<said, ended>>

\* The bridge answers, rightly or not, and perhaps more than once.
Answer(r) ==
  /\ phase[r] # "idle"
  /\ \E k \in {"result", "error"} : said' = [said EXCEPT ![r] = @ \cup {k}]
  /\ UNCHANGED <<phase, verdict, ended>>

\* A verdict is true: an answer was given, the deadline existed, the
\* connection has ended.
Settle(r) ==
  /\ phase[r] = "live"
  /\ \E v \in Verdicts :
        /\ v \in {"result", "error"} => v \in said[r]
        /\ v = "timeout" => r \in Timed
        /\ v = "closed" => ended
        /\ verdict' = [verdict EXCEPT ![r] = v]
  /\ phase' = [phase EXCEPT ![r] = "settled"]
  /\ UNCHANGED <<said, ended>>

\* The connection ends once.
End ==
  /\ ~ended
  /\ ended' = TRUE
  /\ UNCHANGED <<phase, verdict, said>>

Next ==
  \/ \E r \in Req : Ask(r) \/ Refuse(r) \/ Answer(r) \/ Settle(r)
  \/ End

Spec == Init /\ [][Next]_vars

\* A request with a deadline is settled in the end, and so is every request
\* once the connection has ended.
FairSpec ==
  /\ Spec
  /\ \A r \in Timed : WF_vars(Settle(r))
  /\ \A r \in Req : WF_vars(ended /\ Settle(r))
==============================================================================
