------------------------------- MODULE Readiness -------------------------------
(***************************************************************************)
(* wait_for_module (client.py): the client asks for the view of a module   *)
(* until its interface_status is no longer "pending", with pauses that     *)
(* grow from 50 ms to 500 ms and end at the deadline.  Meanwhile the       *)
(* discovery of the bridge ends, or the module is replaced by another      *)
(* build, which is discovered anew.                                        *)
(*                                                                         *)
(* The view of the bridge is external.  A time unit is 50 ms; a round trip *)
(* takes up to MaxRoundTrip of them, or fails.                             *)
(***************************************************************************)
EXTENDS Integers, JsonValues

CONSTANTS
  Clients,          \* records with a timeout: units of time, or Never
  Builds,           \* build of the module -> what it serves
  MaxReplacements,  \* bound: how often the module is replaced
  MaxChecks,        \* bound: how often a client begins to wait
  MaxRoundTrip      \* the duration of a request, at most

VARIABLES
  client,        \* which client
  build,         \* the build behind the bridge
  status,        \* interface_status of its view
  replacements,
  checks,
  wait,          \* [phase, left (until the deadline), delay]
  view           \* the ModuleInfo last received: [status, build]

bridge == <<build, status, replacements>>
readyVars == <<client, build, status, replacements, checks, wait, view>>

Never == -1  \* no deadline

ASSUME RoundTripAssumption == MaxRoundTrip \in Nat
\* _check_timeout refuses a negative timeout.
ASSUME TimeoutAssumption == \A c \in Clients : c.timeout \in Nat \cup {Never}

ReadyInit ==
  /\ client \in Clients
  /\ build \in DOMAIN Builds
  /\ status \in {"ok", "pending", "untyped"}
  /\ replacements = 0 /\ checks = 0
  /\ wait = [phase |-> "idle", left |-> 0, delay |-> 1]
  /\ view = Absent

WaitBegins ==
  /\ wait.phase \notin {"asking", "asleep"}
  /\ checks < MaxChecks
  /\ checks' = checks + 1
  /\ wait' = [phase |-> "asking", left |-> IF client.timeout = Never THEN 0 ELSE client.timeout, delay |-> 1]
  /\ view' = Absent
  /\ UNCHANGED <<client, bridge>>

\* TimeUp, had it been after the deadline.
TimeUpLate(left) == left < 0
TimeUp(left) == left <= 0

Least(a, b) == IF a <= b THEN a ELSE b

\* Pause, had it not been cut at the deadline.
PauseUncut(w, timeout) == w.delay
Pause(w, timeout) == IF timeout = Never THEN w.delay ELSE Least(w.delay, w.left)

\* The answer to rpc.schema, as the view is when it is given.
Asks ==
  /\ wait.phase = "asking"
  /\ \/ /\ view' = [status |-> status, build |-> build]
        /\ \E d \in 0 .. MaxRoundTrip :
             LET left == IF client.timeout = Never THEN 0 ELSE wait.left - d
             IN  wait' = [wait EXCEPT !.left = left,
                                      !.phase = IF status # "pending" THEN "ended"
                                                ELSE IF client.timeout # Never /\ TimeUp(left) THEN "gaveup" ELSE "asleep"]
     \/ wait' = [wait EXCEPT !.phase = "failed"] /\ UNCHANGED view
  /\ UNCHANGED <<client, bridge, checks>>

Sleeps ==
  /\ wait.phase = "asleep"
  /\ wait' = [phase |-> "asking", delay |-> Least(2 * wait.delay, 10),
              left |-> IF client.timeout = Never THEN 0 ELSE wait.left - Pause(wait, client.timeout)]
  /\ UNCHANGED <<client, bridge, checks, view>>

\* Discovery ends.
Discovers ==
  /\ status = "pending" /\ status' \in {"ok", "untyped"}
  /\ UNCHANGED <<client, build, replacements, checks, wait, view>>

\* The provider is replaced and discovery runs again.
IsReplaced ==
  /\ replacements < MaxReplacements
  /\ build' \in DOMAIN Builds \ {build} /\ status' = "pending" /\ replacements' = replacements + 1
  /\ UNCHANGED <<client, checks, wait, view>>

ReadyNext == WaitBegins \/ Asks \/ Sleeps \/ Discovers \/ IsReplaced

ReadySpec == ReadyInit /\ [][ReadyNext]_readyVars

-------------------------------------------------------------------------------
(* Properties *)

(* wait_for_module gives up at the deadline and no earlier: its last       *)
(* request is sent at it or before, and the view was still pending.        *)
WaitEndsInTime ==
  /\ client.timeout # Never => wait.left >= -MaxRoundTrip
  /\ wait.phase = "gaveup" => client.timeout # Never /\ wait.left <= 0 /\ view.status = "pending"

(* With a deadline, wait_for_module returns or raises.                     *)
WaitTerminates ==
  client.timeout # Never => (wait.phase = "asking" ~> wait.phase \in {"ended", "gaveup", "failed"})
===============================================================================
