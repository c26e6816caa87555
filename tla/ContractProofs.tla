---------------------------- MODULE ContractProofs ----------------------------
(***************************************************************************)
(* Proofs about the uses of a contract, whatever it says: the generator's  *)
(* run (Codegen) and the wait for a module's view (Readiness).             *)
(***************************************************************************)
EXTENDS Codegen, Readiness, TLAPS

-------------------------------------------------------------------------------
(* Readiness *)

\* The deadline as it is met: a request begins before it or at it, and a
\* pause only where there is time left.
Within ==
  client.timeout # Never =>
    /\ wait.left >= -MaxRoundTrip
    /\ wait.phase \in {"idle", "asking"} => wait.left >= 0
    /\ wait.phase = "asleep" => wait.left > 0

ReadyInv ==
  /\ client \in Clients
  /\ wait \in [phase : {"idle", "asking", "asleep", "ended", "gaveup", "failed"}, left : Int, delay : Int]
  /\ Within
  /\ WaitEndsInTime

-------------------------------------------------------------------------------
(* Codegen: the target *)

Loading == {"parse", "ast", "lidl", "lgx", "bridge", "json", "fmt", "call", "served", "check"}
Writing == {"write", "fill", "replace", "failed"}

\* The target is untouched until it is replaced, and then by the whole text.
WholeInv ==
  /\ args \in Invocations
  /\ pc \in Loading \cup Writing \cup {"compare", "written", "done"}
  /\ pc # "done" => exit = "running"
  /\ pc \notin {"written", "done"} => target = before
  /\ pc \in Loading => output = Absent
  /\ pc = "compare" => args.check
  /\ pc \in Writing => ~args.check
  /\ pc = "replace" => tmp = output
  /\ pc = "written" => target = output
  /\ TargetIsWhole

-------------------------------------------------------------------------------
(* Codegen: the text and the interface *)

\* The view is one that the bridge served of some text.
Viewed(v) ==
  \E t \in DOMAIN Ast :
    /\ ViewOf(t) # Bad
    /\ v \in [interface : {ViewOf(t), Absent}, contract_sha256 : {t, Absent},
              interface_sha256 : {ServedDigest(ViewOf(t)), Absent}]

IsLoaded(s) == \E i, c, r, n : s = Loaded(i, c, r, n)

\* The interface of a loaded contract was read from the text that it carries,
\* and the tool's reading was held against the view's.
Read(s) == LET doc == ReadBy(s.reader, s.contract) IN doc # Bad /\ s.interface \in Readings(doc) \ {Bad}
Compared(s) ==
  args.kind = "bridge" /\ s.reader # "bridge" =>
    /\ info.contract_sha256 \in {Absent, s.contract}
    /\ args.identity /\ s.notes = <<>> => info.interface_sha256 \in {Absent, Digest(s.interface)}

Agrees(s) ==
  s.contract # Absent =>
    /\ s.contract \in DOMAIN Ast
    /\ s.reader = "bridge" => args.kind = "bridge" /\ s.notes # <<>>
    /\ (s.reader = "bridge" => info.contract_sha256 # Absent) => Read(s)
    /\ Compared(s)

\* The text that is parsed is the text that is kept, and a text that the view
\* vouches for is the one that was viewed.
Asking == {"parse", "ast", "lidl", "lgx", "bridge", "json", "call", "served"}
TextInv ==
  /\ args \in Invocations
  /\ held \in DOMAIN Ast \cup {Absent}
  /\ pc \in Asking => source = Absent
  /\ pc \in {"ast", "lidl", "lgx", "bridge"} => args.kind = pc
  /\ pc \in {"call", "served"} => args.kind = "bridge"
  /\ pc = "json" => args.kind # "ast"
  /\ pc = "fmt" => args.kind \in {"lidl", "lgx"}
  /\ pc \in {"json", "fmt", "served"} => text \in DOMAIN Ast
  /\ pc \in {"json", "served"} /\ args.kind = "bridge" => info.contract_sha256 \in {Absent, text}
  /\ args.kind = "bridge" /\ (pc \in {"call", "json", "served"} \/ source # Absent) => Viewed(info)
  /\ source # Absent \/ pc = "fmt" => IsLoaded(source) /\ (args.kind # "lidl" => Agrees(source))

-------------------------------------------------------------------------------
(* wait_for_module *)

LEMMA ReadyStarts == ReadyInit => ReadyInv
  BY RoundTripAssumption DEF ReadyInit, ReadyInv, Within, WaitEndsInTime

LEMMA ReadyStep == ReadyInv /\ [ReadyNext]_readyVars => ReadyInv'
<1> SUFFICES ASSUME ReadyInv, [ReadyNext]_readyVars PROVE ReadyInv'
  OBVIOUS
<1>t. client.timeout \in Nat \cup {Never} /\ MaxRoundTrip \in Nat
  BY RoundTripAssumption, TimeoutAssumption DEF ReadyInv
<1>1. CASE WaitBegins
  <2>1. wait' = [phase |-> "asking", left |-> IF client.timeout = Never THEN 0 ELSE client.timeout, delay |-> 1]
    BY <1>1 DEF WaitBegins
  <2>2. client' = client
    BY <1>1 DEF WaitBegins
  <2> QED BY <1>t, <2>1, <2>2 DEF ReadyInv, Within, WaitEndsInTime, Never
<1>2. CASE Asks
  <2>0. client' = client /\ wait.phase = "asking"
    BY <1>2 DEF Asks
  <2>1. ASSUME NEW d \in 0 .. MaxRoundTrip, NEW left,
               left = (IF client.timeout = Never THEN 0 ELSE wait.left - d),
               view' = [status |-> status, build |-> build],
               wait' = [wait EXCEPT !.left = left,
                                    !.phase = IF status # "pending" THEN "ended"
                                              ELSE IF client.timeout # Never /\ TimeUp(left) THEN "gaveup" ELSE "asleep"]
        PROVE  ReadyInv'
    <3>1. left \in Int /\ (client.timeout # Never => left >= -MaxRoundTrip)
      BY <1>t, <2>0, <2>1 DEF ReadyInv, Within, Never
    <3>2. /\ wait'.left = left /\ wait'.delay = wait.delay
          /\ wait'.phase \in {"ended", "gaveup", "asleep"}
          /\ wait'.phase = "gaveup" => status = "pending" /\ client.timeout # Never /\ left <= 0
          /\ wait'.phase = "asleep" /\ client.timeout # Never => ~(left <= 0)
      BY <2>1 DEF ReadyInv, TimeUp
    <3>3. wait' \in [phase : {"idle", "asking", "asleep", "ended", "gaveup", "failed"}, left : Int, delay : Int]
      BY <2>1, <3>1, <3>2 DEF ReadyInv
    <3>4. Within' /\ WaitEndsInTime'
      BY <1>t, <2>0, <2>1, <3>1, <3>2 DEF Within, WaitEndsInTime
    <3> QED BY <2>0, <3>3, <3>4 DEF ReadyInv
  <2>2. ASSUME wait' = [wait EXCEPT !.phase = "failed"], UNCHANGED view
        PROVE  ReadyInv'
    BY <2>0, <2>2 DEF ReadyInv, Within, WaitEndsInTime
  <2> QED BY <1>2, <2>1, <2>2 DEF Asks
<1>3. CASE Sleeps
  <2>1. /\ client' = client /\ wait.phase = "asleep"
        /\ wait' = [phase |-> "asking", delay |-> Least(2 * wait.delay, 10),
                    left |-> IF client.timeout = Never THEN 0 ELSE wait.left - Pause(wait, client.timeout)]
    BY <1>3 DEF Sleeps
  <2>2. Least(2 * wait.delay, 10) \in Int
    BY DEF ReadyInv, Least
  <2>3. client.timeout # Never => wait.left - Pause(wait, client.timeout) \in Nat
    BY <2>1 DEF ReadyInv, Within, Pause, Least
  <2> QED BY <1>t, <2>1, <2>2, <2>3 DEF ReadyInv, Within, WaitEndsInTime
<1>4. CASE Discovers \/ IsReplaced \/ UNCHANGED readyVars
  <2>1. UNCHANGED <<client, wait, view>>
    BY <1>4 DEF Discovers, IsReplaced, readyVars
  <2> QED BY <2>1 DEF ReadyInv, Within, WaitEndsInTime
<1> QED BY <1>1, <1>2, <1>3, <1>4 DEF ReadyNext

(* wait_for_module gives up at the deadline and no earlier, and its last   *)
(* request is sent at it or before, for any timeout and any duration of    *)
(* requests.                                                               *)
THEOREM DeadlineIsMet == ReadySpec => []WaitEndsInTime
<1>1. ReadyInv => WaitEndsInTime
  BY DEF ReadyInv
<1> QED BY <1>1, ReadyStarts, ReadyStep, PTL DEF ReadySpec

-------------------------------------------------------------------------------
(* The generator's target *)

LEMMA WholeStarts == Init => WholeInv
  BY DEF Init, WholeInv, Loading, Writing, TargetIsWhole, EXIT_OK

LEMMA WholeStep == WholeInv /\ [Next]_vars => WholeInv'
<1> SUFFICES ASSUME WholeInv, [Next]_vars PROVE WholeInv'
  OBVIOUS
<1>a. args.kind \in {"ast", "lidl", "lgx", "bridge"} /\ args.check \in BOOLEAN
  BY InvocationAssumption DEF WholeInv
<1> DEFINE Moves == \E n \in Loading : Step(n)
           Fails == \E s \in {EXIT_USAGE, EXIT_UNAVAILABLE, EXIT_REJECTED} : Exit(s)
\* While the contract is loaded, a step goes on or ends with an error.
<1>1. ASSUME pc \in Loading, Moves \/ Fails, UNCHANGED <<args, before, output, target, tmp>>
      PROVE  WholeInv'
  <2>1. pc # "done" /\ target = before /\ exit = "running" /\ output = Absent
    BY <1>1 DEF WholeInv, Loading
  <2>2. CASE Moves
    <3>1. pc' \in Loading /\ exit' = exit
      BY <2>2 DEF Step
    <3> QED BY <1>1, <2>1, <3>1 DEF WholeInv, TargetIsWhole, Loading, Writing, EXIT_OK
  <2>3. CASE Fails
    <3>1. pc' = "done" /\ exit' # EXIT_OK
      BY <2>3 DEF Exit, EXIT_OK, EXIT_USAGE, EXIT_UNAVAILABLE, EXIT_REJECTED
    <3> QED BY <1>1, <2>1, <3>1 DEF WholeInv, TargetIsWhole, Loading, Writing
  <2> QED BY <1>1, <2>2, <2>3
<1>2. ASSUME NEW doc, NEW identity, NEW contract, NEW reader, NEW notes, NEW next \in Loading,
             Finish(doc, identity, contract, reader, notes, next)
      PROVE  Moves \/ Fails
  BY <1>2 DEF Finish
<1>3. CASE Parse
  BY <1>1, <1>3, <1>a DEF Parse, loading, Loading
<1>4. CASE LoadAst
  BY <1>1, <1>2, <1>4 DEF LoadAst, loading, Loading
<1>5. CASE ReadLidl
  BY <1>1, <1>5 DEF ReadLidl, loading, Loading
<1>6. CASE ExtractLgx
  BY <1>1, <1>6 DEF ExtractLgx, PackageFails, loading, Loading
<1>7. CASE RunLidl
  <2>1. (IF args.kind = "bridge" THEN "check" ELSE "fmt") \in Loading
    BY DEF Loading
  <2>2. Moves \/ Fails
    BY <1>2, <1>7, <2>1 DEF RunLidl
  <2> QED BY <1>1, <1>7, <2>2 DEF RunLidl, loading, Loading
<1>8. CASE RunFmt
  BY <1>1, <1>8 DEF RunFmt, loading, Loading
<1>9. CASE WaitForModule
  BY <1>1, <1>9 DEF WaitForModule, loading, Loading
<1>10. CASE CallLidl
  <2>1. Moves \/ Fails
    BY <1>10 DEF CallLidl, Loading
  <2> QED BY <1>1, <1>10, <2>1 DEF CallLidl, loading, Loading
<1>11. CASE UseServed
  BY <1>1, <1>2, <1>11 DEF UseServed, loading, Loading
<1>12. CASE CheckAndName
  <2>1. /\ UNCHANGED <<args, before, target, tmp>>
        /\ target = before /\ output = Absent /\ exit = "running"
    BY <1>12 DEF CheckAndName, loaded, WholeInv, Loading
  <2>2. \/ pc' = "done" /\ UNCHANGED output
        \/ pc' = (IF args.check THEN "compare" ELSE "write") /\ exit' = exit
    BY <1>12 DEF CheckAndName, Exit, Step
  <2> QED BY <1>a, <2>1, <2>2 DEF WholeInv, TargetIsWhole, Loading, Writing, EXIT_OK
<1>13. CASE Compare
  BY <1>13 DEF Compare, Exit, loaded, WholeInv, TargetIsWhole, Loading, Writing
<1>14. CASE Write
  BY <1>14 DEF Write, OpenTmp, Exit, Step, loaded, WholeInv, TargetIsWhole, Loading, Writing, EXIT_OK
<1>15. CASE Fill
  BY <1>15 DEF Fill, Step, loaded, WholeInv, TargetIsWhole, Loading, Writing, EXIT_OK
<1>16. CASE Replace
  BY <1>16 DEF Replace, Step, loaded, WholeInv, TargetIsWhole, Loading, Writing, EXIT_OK
<1>17. CASE WriteFails
  BY <1>17 DEF WriteFails, Step, loaded, WholeInv, TargetIsWhole, Loading, Writing, EXIT_OK
<1>18. CASE Change
  BY <1>18 DEF Change, WholeInv, TargetIsWhole
<1>19. CASE Kill
  BY <1>19 DEF Kill, WholeInv, TargetIsWhole, Loading, Writing, EXIT_OK
<1>20. CASE UNCHANGED vars
  BY <1>20 DEF vars, WholeInv, TargetIsWhole
<1>21. CASE Report
  BY <1>21 DEF Report, Exit, loaded, WholeInv, TargetIsWhole, Loading, Writing, EXIT_OK, EXIT_WRITE
<1> QED
  BY <1>3, <1>4, <1>5, <1>6, <1>7, <1>8, <1>9, <1>10, <1>11, <1>12, <1>13, <1>14, <1>15, <1>16, <1>17, <1>18,
     <1>19, <1>20, <1>21 DEF Next, Finished

(* At every step of the generator, wherever it fails or is killed, the     *)
(* target holds what it held or the whole new text; status 0 means the new *)
(* text and an error the old.  This is so for every contract, every        *)
(* command line and whatever the file held before.                         *)
THEOREM NeverHalfWritten == Spec => []TargetIsWhole
<1>1. WholeInv => TargetIsWhole
  BY DEF WholeInv
<1> QED BY <1>1, WholeStarts, WholeStep, PTL DEF Spec

-------------------------------------------------------------------------------
(* The text and the interface *)

LEMMA TextStarts == Init => TextInv
  BY DEF Init, TextInv, Asking

\* What the tool prints of a text.
LEMMA ToolReads ==
  ASSUME NEW t, NEW identity \in BOOLEAN, LidlJson(t, identity) # Absent, LidlJson(t, identity) # Bad
  PROVE  Ast[t] # Bad /\ LidlJson(t, identity) \in {Ast[t], Identified(Ast[t])} \ {Bad}
BY DEF LidlJson

\* What is said of a contract depends on the command line and the view only.
LEMMA AgreesKept ==
  ASSUME UNCHANGED <<args, info>>, NEW s, source' = s, Agrees(s)
  PROVE  Agrees(source)'
BY DEF Agrees, Read, ReadBy, Compared, Readings

LEMMA ViewKept == ASSUME UNCHANGED info, Viewed(info) PROVE Viewed(info)'
BY DEF Viewed

\* The part of the invariant that a step which leaves the contract alone may
\* disturb is where it goes on.
LEMMA ContractKept ==
  ASSUME TextInv, UNCHANGED <<args, info, source>>,
         held' \in DOMAIN Ast \cup {Absent},
         pc' \in {"check", "compare", "write", "fill", "replace", "written", "failed", "done", pc},
         pc' = pc => text' = text
  PROVE  TextInv'
<1>1. args.kind = "bridge" /\ (pc' \in {"call", "json", "served"} \/ source' # Absent) => Viewed(info)'
  <2>1. args.kind = "bridge" /\ (pc' \in {"call", "json", "served"} \/ source' # Absent) => Viewed(info)
    BY DEF TextInv
  <2> QED BY <2>1, ViewKept
<1>2. source' # Absent \/ pc' = "fmt" => IsLoaded(source)' /\ (args.kind # "lidl" => Agrees(source)')
  BY AgreesKept DEF TextInv, IsLoaded
<1> QED BY <1>1, <1>2 DEF TextInv, Asking

\* _finish keeps the invariant, if the contract that it makes agrees.
LEMMA FinishKeeps ==
  ASSUME TextInv, UNCHANGED <<args, held, info, text>>,
         NEW doc, NEW identity \in BOOLEAN, NEW contract, NEW reader, NEW notes, NEW next \in {"check", "fmt"},
         Finish(doc, identity, contract, reader, notes, next),
         next = "fmt" => text \in DOMAIN Ast /\ args.kind \in {"lidl", "lgx"},
         args.kind = "bridge" => Viewed(info),
         args.kind # "lidl" /\ doc # Absent /\ doc # Bad /\ Reading(doc, identity) # Bad =>
           Agrees(Loaded(Reading(doc, identity), contract, reader, notes))
  PROVE  TextInv'
<1>1. CASE pc' = "done" /\ UNCHANGED source
  BY <1>1, ContractKept DEF TextInv
<1>2. CASE /\ doc # Absent /\ doc # Bad /\ Reading(doc, identity) # Bad
           /\ pc' = next /\ source' = Loaded(Reading(doc, identity), contract, reader, notes)
  <2>1. IsLoaded(source)'
    BY <1>2 DEF IsLoaded
  <2>2. args.kind # "lidl" => Agrees(source)'
    BY <1>2, AgreesKept
  <2>3. args.kind = "bridge" => Viewed(info)'
    BY ViewKept
  <2> QED BY <1>2, <2>1, <2>2, <2>3 DEF TextInv, Asking
<1> QED BY <1>1, <1>2 DEF Finish, Exit, Step

\* A contract that the tool read.
LEMMA ToolAgrees ==
  ASSUME TextInv, pc = "json", args.kind # "lidl", NEW identity \in BOOLEAN,
         NEW doc, doc = LidlJson(text, identity), doc # Absent, doc # Bad, Reading(doc, FALSE) # Bad
  PROVE  Agrees(Loaded(Reading(doc, FALSE), text, "lidl", ReaderNotes(doc)))
<1> DEFINE i == Reading(doc, FALSE)
           s == Loaded(i, text, "lidl", ReaderNotes(doc))
<1>1. s.interface = i /\ s.contract = text /\ s.reader = "lidl" /\ s.notes = ReaderNotes(doc)
  BY DEF Loaded
<1>2. text \in DOMAIN Ast
  BY DEF TextInv
<1>3. Read(s)
  <2>1. ReadBy(s.reader, s.contract) = Ast[text]
    BY <1>1 DEF ReadBy
  <2>2. Ast[text] # Bad /\ doc \in {Ast[text], Identified(Ast[text]), Served(Ast[text])} \ {Bad}
    BY ToolReads
  <2>3. i \in Readings(Ast[text]) \ {Bad}
    <3>1. \A b \in BOOLEAN : Reading(doc, b) \in Readings(Ast[text])
      BY <2>2 DEF Readings
    <3> QED BY <3>1, Zenon
  <2> QED BY <1>1, <2>1, <2>2, <2>3 DEF Read
<1>4. Compared(s)
  <2> SUFFICES ASSUME args.kind = "bridge"
               PROVE  /\ info.contract_sha256 \in {Absent, text}
                      /\ args.identity /\ ReaderNotes(doc) = <<>> => info.interface_sha256 \in {Absent, Digest(i)}
    BY <1>1 DEF Compared
  <2>1. info.contract_sha256 \in {Absent, text}
    BY DEF TextInv
  <2>2. ASSUME args.identity, ReaderNotes(doc) = <<>>
        PROVE  info.interface_sha256 \in {Absent, Digest(i)}
    <3>1. <<"readers differ">> # << >>
      OBVIOUS
    <3>2. ~ReadersDiffer(i)
      BY <2>2, <3>1 DEF ReaderNotes
    <3> QED BY <2>2, <3>2 DEF ReadersDiffer
  <2> QED BY <2>1, <2>2
<1>5. s.reader # "bridge"
  BY <1>1
<1>6. Agrees(s)
  <2> HIDE DEF s
  <2> QED BY <1>1, <1>2, <1>3, <1>4, <1>5 DEF Agrees
<1> QED BY <1>6

\* A contract that the bridge read.
LEMMA ServedAgrees ==
  ASSUME TextInv, pc = "served", NEW identity \in BOOLEAN,
         info.interface # Absent, info.interface # Bad, Reading(info.interface, identity) # Bad
  PROVE  Agrees(Loaded(Reading(info.interface, identity), text, "bridge", <<"served">>))
<1> DEFINE i == Reading(info.interface, identity)
           s == Loaded(i, text, "bridge", <<"served">>)
<1>1. s.interface = i /\ s.contract = text /\ s.reader = "bridge" /\ s.notes = <<"served">>
  BY DEF Loaded
<1>2. text \in DOMAIN Ast /\ args.kind = "bridge" /\ info.contract_sha256 \in {Absent, text} /\ Viewed(info)
  BY DEF TextInv
<1>3. ASSUME info.contract_sha256 # Absent
      PROVE  Read(s)
  <2>1. PICK t \in DOMAIN Ast :
          /\ ViewOf(t) # Bad
          /\ info \in [interface : {ViewOf(t), Absent}, contract_sha256 : {t, Absent},
                       interface_sha256 : {ServedDigest(ViewOf(t)), Absent}]
    BY <1>2 DEF Viewed
  <2>2. t = text /\ info.interface = ViewOf(t)
    BY <1>2, <1>3, <2>1
  <2>3. BridgeAst[text] # Bad /\ info.interface = Served(BridgeAst[text])
    BY <2>1, <2>2 DEF ViewOf
  <2>4. i \in Readings(BridgeAst[text]) \ {Bad}
    BY <2>3 DEF Readings
  <2> QED BY <1>1, <2>3, <2>4 DEF Read, ReadBy
<1>4. Compared(s)
  BY <1>1 DEF Compared
<1>5. <<"served">> # << >>
  OBVIOUS
<1>6. Agrees(s)
  <2> HIDE DEF s
  <2> QED BY <1>1, <1>2, <1>3, <1>4, <1>5 DEF Agrees
<1> QED BY <1>6

LEMMA TextStep == TextInv /\ [Next]_vars => TextInv'
<1> SUFFICES ASSUME TextInv, [Next]_vars PROVE TextInv'
  OBVIOUS
<1>a. args.kind \in {"ast", "lidl", "lgx", "bridge"} /\ args.identity \in BOOLEAN
  BY InvocationAssumption DEF TextInv
<1>b. held \in DOMAIN Ast \cup {Absent}
  BY DEF TextInv
<1> USE DEF loading, loaded, Exit, Step
\* A step that ends the run, or goes on with a contract.
<1>1. ASSUME UNCHANGED <<args, held, info, source>>,
             pc' \in {"check", "compare", "write", "fill", "replace", "written", "failed", "done"}, pc' = pc => text' = text
      PROVE  TextInv'
  BY <1>1, <1>b, ContractKept
<1>2. CASE Parse
  <2>1. CASE pc' = "done"
    BY <1>1, <1>2, <2>1 DEF Parse
  <2>2. CASE pc' = args.kind
    BY <1>a, <1>2, <2>2 DEF Parse, TextInv, Asking
  <2> QED BY <1>2, <2>1, <2>2 DEF Parse
<1>3. CASE LoadAst
  <2>1. args.kind = "ast"
    BY <1>3 DEF LoadAst, TextInv
  <2>2. \A i : Agrees(Loaded(i, Absent, Absent, <<>>))
    BY DEF Agrees, Loaded
  <2> QED BY <1>3, <1>a, <2>1, <2>2, FinishKeeps DEF LoadAst
<1>4. CASE ReadLidl \/ ExtractLgx
  <2>1. /\ UNCHANGED <<args, held, info, source>> /\ pc \in {"lidl", "lgx"}
        /\ \/ pc' = "done" /\ UNCHANGED text
           \/ pc' = "json" /\ text' = held /\ held # Absent
    BY <1>4 DEF ReadLidl, ExtractLgx, PackageFails
  <2>2. CASE pc' = "done"
    BY <1>1, <2>1, <2>2
  <2>3. CASE pc' = "json" /\ text' = held /\ held # Absent
    BY <2>1, <2>3 DEF TextInv, Asking
  <2> QED BY <2>1, <2>2, <2>3
<1>5. CASE RunLidl
  <2> DEFINE doc == LidlJson(ParsedText, args.identity)
             next == IF args.kind = "bridge" THEN "check" ELSE "fmt"
  <2>1. /\ UNCHANGED <<args, held, info, text>> /\ pc = "json" /\ text \in DOMAIN Ast /\ args.kind # "ast"
        /\ args.kind = "bridge" => Viewed(info)
    BY <1>5 DEF RunLidl, TextInv
  <2>2. CASE Exit(EXIT_UNAVAILABLE) /\ UNCHANGED source
    BY <1>1, <2>1, <2>2
  <2>3. CASE Finish(doc, FALSE, text, "lidl", ReaderNotes(doc), next)
    <3>1. ASSUME args.kind # "lidl", doc # Absent, doc # Bad, Reading(doc, FALSE) # Bad
          PROVE  Agrees(Loaded(Reading(doc, FALSE), text, "lidl", ReaderNotes(doc)))
      <4>1. doc = LidlJson(text, args.identity)
        BY <3>1 DEF ParsedText
      <4> HIDE DEF doc
      <4> QED BY <1>a, <2>1, <3>1, <4>1, ToolAgrees
    <3>2. next \in {"check", "fmt"} /\ (next = "fmt" => args.kind \in {"lidl", "lgx"})
      BY <1>a, <2>1
    <3> HIDE DEF doc, next
    <3> QED BY <2>1, <2>3, <3>1, <3>2, FinishKeeps
  <2> QED BY <1>5, <2>2, <2>3 DEF RunLidl
<1>6. CASE RunFmt
  <2>1. /\ UNCHANGED <<args, held, info, text>> /\ pc = "fmt" /\ args.kind \in {"lidl", "lgx"}
        /\ IsLoaded(source) /\ (args.kind # "lidl" => Agrees(source))
    BY <1>6 DEF RunFmt, TextInv
  <2>2. CASE pc' = "done" /\ UNCHANGED source
    BY <1>1, <2>1, <2>2
  <2>3. ASSUME pc' = "check", NEW n, source' = [source EXCEPT !.notes = n]
        PROVE  TextInv'
    <3>1. PICK i, c, r, m : source = Loaded(i, c, r, m)
      BY <2>1 DEF IsLoaded
    <3>2. source' = Loaded(i, c, r, n)
      BY <2>3, <3>1 DEF Loaded
    <3>3. IsLoaded(source)'
      BY <3>2 DEF IsLoaded
    <3>4. Agrees(source) => Agrees(Loaded(i, c, r, n))
      BY <2>1, <3>1 DEF Agrees, Read, Compared, Loaded
    <3>5. args.kind # "lidl" => Agrees(source)'
      BY <2>1, <3>2, <3>4, AgreesKept
    <3> QED BY <2>1, <2>3, <3>3, <3>5 DEF TextInv, Asking
  <2> QED BY <1>6, <2>2, <2>3 DEF RunFmt
<1>7. CASE WaitForModule
  <2>1. UNCHANGED <<args, held, text, source>> /\ args.kind = "bridge" /\ source = Absent
    BY <1>7 DEF WaitForModule, TextInv, Asking
  <2>2. CASE pc' = "done" /\ UNCHANGED info
    BY <1>1, <2>1, <2>2
  <2>3. CASE /\ ViewOf(held) # Bad /\ pc' = "call"
             /\ info' \in [interface : {ViewOf(held), Absent}, contract_sha256 : {held, Absent},
                           interface_sha256 : {ServedDigest(ViewOf(held)), Absent}]
    <3>1. held \in DOMAIN Ast
      BY <1>b, <2>3 DEF ViewOf
    <3>2. Viewed(info)'
      BY <2>3, <3>1 DEF Viewed, ViewOf
    <3> QED BY <2>1, <2>3, <3>2 DEF TextInv, Asking
  <2> QED BY <1>7, <2>2, <2>3 DEF WaitForModule
<1>8. CASE CallLidl
  <2>1. /\ UNCHANGED <<args, held, info, source>> /\ args.kind = "bridge" /\ source = Absent /\ Viewed(info)
    BY <1>8 DEF CallLidl, TextInv, Asking
  <2>2. CASE pc' = "done"
    BY <1>1, <1>8, <2>1, <2>2 DEF CallLidl
  <2>3. CASE pc' \in {"json", "served"} /\ text' = held /\ held # Absent /\ info.contract_sha256 \in {Absent, held}
    BY <1>b, <2>1, <2>3, ViewKept DEF TextInv, Asking
  <2> QED BY <1>8, <2>2, <2>3 DEF CallLidl, AcceptText
<1>9. CASE UseServed
  <2>1. /\ UNCHANGED <<args, held, info, text>> /\ pc = "served" /\ Viewed(info)
        /\ Finish(info.interface, args.identity, text, "bridge", <<"served">>, "check")
    BY <1>9 DEF UseServed, TextInv
  <2> QED BY <1>a, <2>1, ServedAgrees, FinishKeeps
<1>10. CASE CheckAndName \/ Compare \/ Write \/ Fill \/ Replace \/ WriteFails \/ Report \/ Kill
  <2>1. UNCHANGED <<args, held, info, text, source>>
    BY <1>10 DEF CheckAndName, Compare, Write, Fill, Replace, WriteFails, Report, Kill
  <2>2. pc' \in {"compare", "write", "fill", "replace", "written", "failed", "done"}
    BY <1>10 DEF CheckAndName, Compare, Write, Fill, Replace, WriteFails, Report, Kill
  <2> QED BY <1>1, <2>1, <2>2
<1>11. CASE Change
  <2>1. UNCHANGED <<args, info, text, source, pc>> /\ held' \in DOMAIN Ast \cup {Absent}
    BY <1>11 DEF Change
  <2> QED BY <2>1, ContractKept
<1>12. CASE UNCHANGED vars
  BY <1>12, <1>b, ContractKept DEF vars
<1> QED
  BY <1>2, <1>3, <1>4, <1>5, <1>6, <1>7, <1>8, <1>9, <1>10, <1>11, <1>12 DEF Next, Finished

(* The interface that is generated from is what its reader makes of the    *)
(* text whose digest is written next to it, and without a note the bridge  *)
(* reads that text as the tool does, for every contract, any two readers   *)
(* and however often the module is published anew between the view, the    *)
(* call and the tool.  The one exception is Vouched's: a served interface  *)
(* whose view had no contract_sha256.                                      *)
THEOREM DigestsOfOneText == Spec => []TextMatchesInterface
<1>1. TextInv => TextMatchesInterface
  <2> SUFFICES ASSUME TextInv, source # Absent, source.contract # Absent, args.kind # "lidl"
               PROVE  OfItsText /\ ReadersAgree
    BY DEF TextMatchesInterface
  <2>1. Agrees(source) /\ source.contract \in DOMAIN Ast
    BY DEF TextInv, Agrees
  <2>2. OfItsText
    <3> SUFFICES ASSUME Vouched
                 PROVE  Digest(source.interface) = Digest(Reading(ReadBy(source.reader, source.contract), FALSE))
      BY DEF OfItsText
    <3>1. Read(source)
      BY <2>1 DEF Agrees, Vouched
    <3>2. ReadBy(source.reader, source.contract) \in {Ast[source.contract], BridgeAst[source.contract]} \ {Bad}
      BY <3>1 DEF Read, ReadBy
    <3> QED BY <2>1, <3>1, <3>2, ReadingAssumption DEF Read
  <2>3. ReadersAgree
    <3> SUFFICES ASSUME args.kind = "bridge", args.identity, source.notes = <<>>,
                        info.contract_sha256 # Absent, info.interface_sha256 # Absent
                 PROVE  Digest(source.interface) = ServedDigest(ViewOf(source.contract))
      BY DEF ReadersAgree
    <3>1. info.contract_sha256 = source.contract /\ info.interface_sha256 = Digest(source.interface)
      BY <2>1 DEF Agrees, Compared
    <3>2. PICK t \in DOMAIN Ast :
            info \in [interface : {ViewOf(t), Absent}, contract_sha256 : {t, Absent},
                      interface_sha256 : {ServedDigest(ViewOf(t)), Absent}]
      BY DEF TextInv, Viewed
    <3> QED BY <3>1, <3>2
  <2> QED BY <2>2, <2>3
<1> QED BY <1>1, TextStarts, TextStep, PTL DEF Spec
===============================================================================
