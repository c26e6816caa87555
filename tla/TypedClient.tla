------------------------------ MODULE TypedClient ------------------------------
(***************************************************************************)
(* A typed client against a bridge: it waits for the module's view         *)
(* (Readiness), compares the contract it was generated from with the one   *)
(* that is served (compat.py), or builds a dynamic module from the served  *)
(* one (dynamic.py), and then calls a method or reads an event through the *)
(* plans of typed/_plans.py.                                               *)
(*                                                                         *)
(* The provider is the one of testing/_provider.py, which decodes its      *)
(* arguments leniently.                                                    *)
(***************************************************************************)
EXTENDS Codecs, Readiness

CONSTANTS
  Hidden,          \* the members the policy of the bridge does not expose
  Values(_, _, _)  \* sample Python values: of an interface, dynamic or not, of a type

VARIABLES
  report,  \* the CompatReport, or what the dynamic module is: [level, missing, mismatched, hidden]
  call     \* the call or event in progress: [phase, member, wire, build, ...]

vars == <<readyVars, report, call>>

Idle == [phase |-> "none"]

\* The contract as the bridge serves it.
Interfaces == [b \in DOMAIN Builds |-> WithIdentity(FromJson(Builds[b]))]

\* The contract a client was generated from, and what its module embeds of it.
Contract(c) == IF c.identity THEN Interfaces[c.contract] ELSE FromJson(Builds[c.contract])
Embedded == [c \in {c \in Clients : c.kind = "generated"} |-> FromShape(Shape(Contract(c)))]

Init == ReadyInit /\ report = Absent /\ call = Idle

-------------------------------------------------------------------------------
(* wait_for_module: a check_compat() or module() of the application, when  *)
(* it has come to the end of the last.                                     *)

Begin ==
  /\ WaitBegins
  /\ wait.phase = "ended" => report # Absent
  /\ call.phase \notin {"sent", "answered"}
  /\ report' = Absent /\ call' = Idle

Ask == Asks /\ UNCHANGED <<report, call>>
Sleep == Sleeps /\ UNCHANGED <<report, call>>

-------------------------------------------------------------------------------
(* compare, and DynamicModule.from_module_info *)

Kinds == {"methods", "events"}
TypedLevels == {"exact", "shape", "structural"}
NoMembers == [methods |-> {}, events |-> {}]

\* The members of one kind, by name: what the two comparisons look at.
Signatures(i, kind) == [n \in NamesOf(i[kind]) |-> MemberSignature(i, Find(i[kind], n))]
Structures(i, kind) == [n \in NamesOf(i[kind]) |-> StructuralSignature(i, Find(i[kind], n))]

Differing(mine, theirs) == {n \in DOMAIN mine \cap DOMAIN theirs : mine[n] # theirs[n]}

Unexposed(present) == [k \in Kinds |-> present[k] \cap Hidden]

CompareServed(expected, digest, served) ==
  LET missing == [k \in Kinds |-> NamesOf(expected[k]) \ NamesOf(served[k])]
      shape == [k \in Kinds |-> Differing(Signatures(expected, k), Signatures(served, k))]
      structural == [k \in Kinds |-> Differing(Structures(expected, k), Structures(served, k))]
  IN  [level |-> CASE digest = InterfaceDigest(served) -> "exact"
                   [] digest # InterfaceDigest(served) /\ (missing # NoMembers \/ structural # NoMembers) -> "none"
                   [] OTHER -> IF expected.name = served.name /\ shape = NoMembers THEN "shape" ELSE "structural",
       missing |-> missing, mismatched |-> structural,
       hidden |-> Unexposed([k \in Kinds |-> NamesOf(expected[k]) \ missing[k]])]

\* Without a contract: the live names that the bridge exposes.
CompareNames(expected, live, strict) ==
  LET missing == [k \in Kinds |-> NamesOf(expected[k]) \ (NamesOf(live[k]) \ Hidden)]
  IN  [level |-> IF strict THEN "none" ELSE "names", missing |-> missing, mismatched |-> NoMembers,
       hidden |-> Unexposed([k \in Kinds |-> NamesOf(expected[k]) \ missing[k]])]

Comparison(c, v) ==
  IF v.status = "ok"
  THEN CompareServed(Embedded[c], InterfaceDigest(Contract(c)), Interfaces[v.build])
  ELSE CompareNames(Embedded[c], FromJson(Builds[v.build]), c.strict)

\* A contract that fails the local checks makes an untyped module.
Dynamic(c, v) ==
  [level |-> IF v.status = "ok" /\ Passes(Interfaces[v.build], TRUE) THEN "dynamic"
             ELSE IF c.strict THEN "none" ELSE "names",
   missing |-> NoMembers, mismatched |-> NoMembers, hidden |-> NoMembers]

\* A level of "none" is raised as an exception.
Judge ==
  /\ wait.phase = "ended" /\ report = Absent
  /\ report' = IF client.kind = "generated" THEN Comparison(client, view) ELSE Dynamic(client, view)
  /\ UNCHANGED <<readyVars, call>>

-------------------------------------------------------------------------------
(* Calls and events *)

IsDynamic == client.kind = "dynamic"
Ready == report # Absent /\ report.level # "none" /\ call.phase = "none"

\* The contract the client encodes and decodes by.
Own == IF IsDynamic THEN Interfaces[view.build] ELSE Embedded[client]

\* The argument lists for some parameters, and those that leave out the last ones.
RECURSIVE Arguments(_, _, _)
Arguments(i, dynamic, slots) ==
  IF slots = <<>> THEN {<<>>}
  ELSE {Append(args, v) : args \in Arguments(i, dynamic, Front(slots)), v \in Values(i, dynamic, SlotType(Last(slots)))}
ShortArguments(i, dynamic, slots) == UNION {Arguments(i, dynamic, SubSeq(slots, 1, n)) : n \in 0 .. Len(slots)}

\* A call that is over before anything is sent.
Local(member, outcome) == [phase |-> "done", member |-> member, outcome |-> outcome, sent |-> FALSE]
Sent(member, wire) == [phase |-> "sent", member |-> member, wire |-> wire]
Encoded(member, encoded) == IF encoded[1] = "wire" THEN Sent(member, encoded[2]) ELSE Local(member, encoded[1])

\* What the client has a method for: those of the contract.
Declared == ToSet(Own.methods)

\* A generated method has the contract's parameters: the optional ones default to None.
CallGenerated ==
  /\ Ready /\ ~IsDynamic
  /\ \E m \in Declared : \E args \in Arguments(Own, FALSE, m.params) :
       call' = Encoded(m.name, EncodeArgs(Own, FALSE, m.params, args))
  /\ UNCHANGED <<readyVars, report>>

\* A dynamic method takes arguments by name as well, in any order and with gaps.
CallDynamic ==
  /\ Ready /\ report.level = "dynamic"
  /\ \E m \in Declared :
       IF m.name \in Hidden THEN call' = Local(m.name, "not exposed")
       ELSE \E args \in ShortArguments(Own, TRUE, m.params) : \E positional \in 0 .. Len(args), by \in SUBSET DOMAIN args :
              LET named == [n \in {m.params[k].name : k \in by} |-> args[SelectInSeq(m.params, LAMBDA p : p.name = n)]]
                  bound == Bind(m.params, SubSeq(args, 1, positional), named)
              IN  call' = IF bound[1] = "values" THEN Encoded(m.name, EncodeArgs(Own, TRUE, m.params, bound[2]))
                          ELSE Local(m.name, bound[1])
  /\ UNCHANGED <<readyVars, report>>

\* Names only: the arguments as they are, by position.
CallUntyped ==
  /\ Ready /\ IsDynamic /\ report.level = "names"
  /\ \E m \in Declared : \E args \in ShortArguments(Own, TRUE, m.params) :
       LET wire == [k \in DOMAIN args |-> EncodeValue(args[k])]
       IN  call' = IF Refused \in ToSet(wire) THEN Local(m.name, "argument") ELSE Sent(m.name, wire)
  /\ UNCHANGED <<readyVars, report>>

\* The provider: what it takes the arguments for, or why it refuses them.
Taken(i, method, wire) ==
  [k \in DOMAIN method.params |->
     Decode(i, TRUE, SlotType(method.params[k]), IF k <= Len(wire) THEN wire[k] ELSE Null, TRUE)]

Answered(answer, accepted, refused) ==
  [phase |-> "answered", member |-> call.member, answer |-> answer, build |-> build, accepted |-> accepted, refused |-> refused]

\* The arguments were taken as they were meant: they encode to what was sent.
Faithful(i, method, taken, wire) ==
  EncodeArgs(i, TRUE, method.params, taken) = <<"wire", wire>>

Handle ==
  /\ call.phase = "sent"
  /\ LET i == Interfaces[build]
         method == Find(i.methods, call.member)
         taken == Taken(i, method, call.wire)
     IN  CASE call.member \in Hidden -> call' = Local(call.member, "not found")
           [] call.member \notin Hidden \cup NamesOf(i.methods) -> call' = Answered(Null, FALSE, FALSE)
           [] OTHER ->
                IF ~ArityOK(method.params, Len(call.wire)) \/ Refused \in ToSet(taken)
                THEN \E code \in RejectionCodes : call' = Answered(Rejection(code), FALSE, TRUE)
                ELSE LET accepted == Faithful(i, method, taken, call.wire)
                     IN  \/ \E code \in RejectionCodes : call' = Answered(Rejection(code), accepted, TRUE)
                         \/ /\ method.returns = <<>>
                            /\ call' = Answered(<<"bool", TRUE>>, accepted, FALSE)
                         \/ /\ method.returns # <<>>
                            /\ \E v \in Values(i, TRUE, SlotType(method.returns[1])) :
                                 LET answer == Encode(i, TRUE, SlotType(method.returns[1]), v)
                                 IN  answer # Refused /\ call' = Answered(answer, accepted, FALSE)
  /\ UNCHANGED <<readyVars, report>>

\* The caller of an untyped method gets bytes for bytes tags.
UntypedResult(answer) ==
  IF IsRejection(answer) THEN <<"rejected">>
  ELSE LET v == DecodeTags(answer) IN IF v = Refused THEN <<"undecodable">> ELSE <<"result", v>>

Receive ==
  /\ call.phase = "answered"
  /\ LET result == IF IsDynamic /\ report.level = "names" THEN UntypedResult(call.answer)
                   ELSE DecodeMethodResult(Own, IsDynamic, Find(Own.methods, call.member).returns, call.answer)
     IN  call' = [call EXCEPT !.phase = "done"] @@ [outcome |-> result[1], value |-> result, sent |-> TRUE]
  /\ UNCHANGED <<readyVars, report>>

\* An event of the provider: its values encoded there, decoded here.
Receives(e) == IF IsDynamic THEN report.level = "dynamic" /\ e \notin Hidden ELSE TRUE
ReceiveEvent ==
  /\ Ready
  /\ LET i == Interfaces[build]
     IN  \E e \in ToSet(i.events) : \E args \in ShortArguments(i, TRUE, e.params) :
           LET encoded == EncodeArgs(i, TRUE, e.params, args)
               data == <<"list", encoded[2]>>
           IN  /\ e.name \in NamesOf(Own.events) /\ Receives(e.name)
               /\ encoded[1] = "wire"
               /\ LET v == DecodeEvent(Own, IsDynamic, Find(Own.events, e.name).params, data)
                  IN  call' = [phase |-> "done", member |-> e.name, sent |-> FALSE, build |-> build,
                               outcome |-> IF v = Refused THEN "undecodable" ELSE "event",
                               same |-> v # Refused /\ EncodeArgs(Own, IsDynamic, Find(Own.events, e.name).params, v[2]) = encoded]
  /\ UNCHANGED <<readyVars, report>>

-------------------------------------------------------------------------------
(* The module *)

Discovered == Discovers /\ UNCHANGED <<report, call>>
Replaced == IsReplaced /\ UNCHANGED <<report, call>>

Next ==
  \/ Begin \/ Ask \/ Sleep \/ Judge
  \/ CallGenerated \/ CallDynamic \/ CallUntyped \/ Handle \/ Receive \/ ReceiveEvent
  \/ Discovered \/ Replaced

\* Requests are answered and timers fire; discovery need not end.
Spec == Init /\ [][Next]_vars /\ WF_vars(Ask) /\ WF_vars(Sleep)

-------------------------------------------------------------------------------
(* Properties *)

(* A client generated from the contract that is served finds it exact, or, *)
(* without the identity methods, of the same shape: what it embeds says    *)
(* all that its comparison looks at.                                       *)
OwnContractIsCompatible ==
  report # Absent /\ client.kind = "generated" /\ view.status = "ok" /\ view.build = client.contract =>
    /\ report.level = IF client.identity THEN "exact" ELSE "shape"
    /\ report.missing = NoMembers /\ report.mismatched = NoMembers

\* Whatever build answered, a result is a value that the client's own types have.
OfOwnType ==
  report.level \in TypedLevels \cup {"dynamic"} /\ call.sent /\ call.outcome = "result" =>
    LET returns == Find(Own.methods, call.member).returns
    IN  returns # <<>> => Encode(Own, IsDynamic, SlotType(returns[1]), call.value[2]) # Refused

\* The report, or the contract of the dynamic module, vouches for the member.
Vouched ==
  /\ call.build = view.build
  /\ report.level \in TypedLevels \cup {"dynamic"}

CallAgrees ==
  IF call.sent
  THEN /\ call.accepted
       /\ call.outcome \in {"result", "rejected"}
       /\ LET returns == Find(Own.methods, call.member).returns
          IN  /\ call.refused => call.outcome = "rejected"
              /\ call.outcome = "rejected" /\ ~call.refused =>
                   returns # <<>> /\ (RejectionAmbiguous(Own, returns[1].type) \/ CodecOf(returns[1].valueType) = "any")
              /\ call.outcome = "result" /\ returns # <<>> =>
                   Encode(Own, IsDynamic, SlotType(returns[1]), call.value[2]) = call.answer
  ELSE call.same

(* As long as the provider is the one that was looked at, a typed member   *)
(* works: the provider takes the arguments for what was sent, its result   *)
(* decodes to what it sent, and an event does too.  A refusal that is      *)
(* reported was one, unless its result type cannot be told from a refusal  *)
(* (a type that this version does not know is such a one, too).            *)
(* When it was replaced since, a result is still one of the type that the  *)
(* application was promised, or is reported as undecodable.                *)
TypedCallsAgree ==
  call.phase = "done" /\ "build" \in DOMAIN call =>
    /\ OfOwnType
    /\ Vouched => CallAgrees
===============================================================================
