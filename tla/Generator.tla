------------------------------- MODULE Generator -------------------------------
(***************************************************************************)
(* The code generator as a function: the Python names of a contract's      *)
(* members (codegen/naming.py), the module generated for it                *)
(* (codegen/python.py), and what importing that module does                *)
(* (typed/_binding.py).                                                    *)
(*                                                                         *)
(* A Python name is a sequence of words and underscores.  WordsOf cuts the *)
(* names of the contract before capitals and around underscores, as far as *)
(* a rule can tell, and UpperOf capitalises a word.  Text, layout,         *)
(* docstrings and annotations (never evaluated) are left out.              *)
(***************************************************************************)
EXTENDS Codecs

CONSTANTS
  WordsOf,   \* name of the contract -> its words
  UpperOf,   \* word -> the word with a capital
  Keywords,  \* Python's keywords
  NotPython  \* the sequences of words that are no identifier

-------------------------------------------------------------------------------
(* Names *)

ClientMembers ==
  <<<<"bridge">>, <<"module">>, <<"events">>, <<"check", "_", "compat">>, <<"aio">>, <<"portal">>,
    <<"_", "bridge">>, <<"_", "module">>, <<"_", "portal">>, <<"_", "aio">>>>
MethodParams == <<<<"self">>, <<"timeout">>>>
ModuleConstants ==
  <<<<"MODULE_NAME">>, <<"INTERFACE">>, <<"INTERFACE_SHA256">>, <<"CONTRACT_SHA256">>, <<"SHAPE_SHA256">>,
    <<"EVENT_NAMES">>, <<"RECORD_TYPES">>, <<"EVENT_TYPES">>>>

Lowercase(word) == CHOOSE w \in DOMAIN UpperOf : UpperOf[w] = word
Capital(word) == \E w \in DOMAIN UpperOf : w # word /\ UpperOf[w] = word
Uppercase(word) == IF word \in DOMAIN UpperOf THEN UpperOf[word] ELSE word

\* storage_module -> StorageModule: each part between underscores gets a capital.
Pascal(words) ==
  LET Part(k) == IF words[k] = "_" THEN <<>>
                 ELSE <<IF k = 1 \/ words[k - 1] = "_" THEN Uppercase(words[k]) ELSE words[k]>>
  IN  FlattenSeq([k \in DOMAIN words |-> Part(k)])

\* whoAmI -> who_am_i: a capital starts a new part.
Snake(words) ==
  LET Part(k) == IF ~Capital(words[k]) THEN <<words[k]>>
                 ELSE (IF k > 1 THEN <<"_">> ELSE <<>>) \o <<Lowercase(words[k])>>
  IN  FlattenSeq([k \in DOMAIN words |-> Part(k)])

IsIdentifier(words) == words # <<>> /\ words \notin NotPython

Escape(words, reserved) ==
  CASE ~IsIdentifier(words) -> <<"lidl", "_">> \o words
    [] IsIdentifier(words) /\ Len(words) > 1 /\ words[1] = "_" /\ words[2] = "_" -> <<"lidl">> \o words
    [] OTHER -> IF words \in Keywords \cup reserved THEN Append(words, "_") ELSE words

\* A --rename: its kind, what it is applied to, split at the dots, and a Python name.
RenameKinds == {"method", "event", "type", "field", "param", "eparam"}
Parses(rename) ==
  /\ rename.kind \in RenameKinds
  /\ rename.target # <<>>
  /\ rename.kind \in {"field", "param", "eparam"} => Len(rename.target) = 2
  /\ IsIdentifier(rename.name) /\ rename.name \notin Keywords

\* The last rename of a member wins.
Pick(renames, kind, target, default) ==
  LET k == SelectLastInSeq(renames, LAMBDA r : r.kind = kind /\ r.target = target)
  IN  IF k = 0 THEN default ELSE renames[k].name

RecordClass(renames, record) ==
  LET words == Pascal(WordsOf[record.name])
  IN  Pick(renames, "type", <<record.name>>, Escape(IF words = <<>> THEN WordsOf[record.name] ELSE words, {}))

Members(renames, kind, owner, slots, reserved) ==
  [k \in DOMAIN slots |->
     Pick(renames, kind, <<owner.name, slots[k].name>>, Escape(Snake(WordsOf[slots[k].name]), reserved))]

Fields(renames, record) == Members(renames, "field", record, record.fields, {})
Params(renames, method) == Members(renames, "param", method, method.params, ToSet(MethodParams))
EventFields(renames, event) == Members(renames, "eparam", event, event.params, {<<"meta">>})

MethodName(renames, method) ==
  Pick(renames, "method", <<method.name>>, Escape(Snake(WordsOf[method.name]), ToSet(ClientMembers)))
Stem(renames, event) == Pick(renames, "event", <<event.name>>, Snake(WordsOf[event.name]))
EventClass(renames, event) == Escape(Pascal(Stem(renames, event)) \o <<"Event">>, {})

BaseName(i, className) == IF className = <<>> THEN Pascal(WordsOf[i.name]) ELSE className
GeneratedClasses(base) ==
  <<<<"Async">> \o base \o <<"Client">>, base \o <<"Client">>, base \o <<"Event">>, base \o <<"Event", "Name">>>>

Each(members, Name(_)) == [k \in DOMAIN members |-> Name(members[k])]

\* ModuleClaims, had the classes of events not been claimed.
ModuleClaimsWithoutEvents(i, base, renames) ==
  ModuleConstants \o GeneratedClasses(base) \o Each(i.types, LAMBDA r : RecordClass(renames, r))

\* The names claimed in each scope; a name claimed twice is a collision.
ModuleClaims(i, base, renames) ==
  ModuleConstants \o GeneratedClasses(base) \o Each(i.types, LAMBDA r : RecordClass(renames, r))
    \o Each(i.events, LAMBDA e : EventClass(renames, e))

ClientClaims(i, renames) ==
  ClientMembers \o Each(i.methods, LAMBDA m : MethodName(renames, m))
    \o Each(i.events, LAMBDA e : <<"on", "_">> \o Stem(renames, e))
    \o Each(i.events, LAMBDA e : <<"decode", "_">> \o Stem(renames, e))

Claims(i, base, renames) ==
  {ModuleClaims(i, base, renames), ClientClaims(i, renames)}
    \cup {Fields(renames, r) : r \in ToSet(i.types)}
    \cup {MethodParams \o Params(renames, m) : m \in ToSet(i.methods)}
    \cup {<<<<"meta">>>> \o EventFields(renames, e) : e \in ToSet(i.events)}

Renameable(i) ==
  {<<"type", <<r.name>>>> : r \in ToSet(i.types)} \cup {<<"method", <<m.name>>>> : m \in ToSet(i.methods)}
    \cup {<<"event", <<e.name>>>> : e \in ToSet(i.events)}
    \cup UNION {{<<"field", <<r.name, f.name>>>> : f \in ToSet(r.fields)} : r \in ToSet(i.types)}
    \cup UNION {{<<"param", <<m.name, p.name>>>> : p \in ToSet(m.params)} : m \in ToSet(i.methods)}
    \cup UNION {{<<"eparam", <<e.name, p.name>>>> : p \in ToSet(e.params)} : e \in ToSet(i.events)}

\* plan_names: "usage", "collision" or "ok".
PlanNames(i, className, renames) ==
  LET base == BaseName(i, className)
  IN  CASE ~IsIdentifier(base) \/ base \in Keywords -> "usage"
        [] \E r \in ToSet(renames) : <<r.kind, r.target>> \notin Renameable(i) -> "usage"
        [] \E claims \in Claims(i, base, renames) : ~IsInjective(claims) -> "collision"
        [] OTHER -> "ok"

-------------------------------------------------------------------------------
(* The generated module *)

Unmappable(t) ==
  {n \in Nodes(t) : \/ ~NodeWellFormed(n)
                    \/ n.kind = "primitive" /\ n.name \notin Primitives
                    \/ n.kind = "map" /\ ~IsTstr(n.elements[1])}

UnmappableNodes(i) == UNION {Unmappable(s.type) : s \in SlotsOf(i)}
HasUnmappable(i) == UnmappableNodes(i) # {}

\* What the text of the module says: its digests and shape, and the names
\* of every class, attribute, method and parameter in the order written.
GeneratePython(i, contract, className, renames) ==
  [moduleName |-> i.name,
   interfaceDigest |-> InterfaceDigest(i), contractDigest |-> contract,
   shape |-> Shape(i), shapeDigest |-> ShapeDigest(Shape(i)),
   records |-> Each(i.types, LAMBDA r : <<r.name, RecordClass(renames, r), Fields(renames, r)>>),
   events |-> Each(i.events, LAMBDA e :
                <<e.name, EventClass(renames, e), Append(EventFields(renames, e), <<"meta">>)>>),
   clients |-> GeneratedClasses(BaseName(i, className)),
   methods |-> Each(i.methods, LAMBDA m : <<m.name, MethodName(renames, m), Params(renames, m), m.returns>>),
   streams |-> Each(i.events, LAMBDA e : Stem(renames, e))]

MarkdownPage(i, renames) ==
  [module |-> i.name, interface |-> InterfaceDigest(i),
   names |-> <<Each(i.methods, LAMBDA m : MethodName(renames, m)), Each(i.events, LAMBDA e : Stem(renames, e))>>]

\* What it imports and defines for its own use.
PrivateNames ==
  <<<<"_", "builtins">>, <<"_", "dataclasses">>, <<"_", "typing">>, <<"_", "abc">>, <<"_", "t">>, <<"_BINDING">>,
   <<"_AsyncBridgeClient">>, <<"_CompatReport">>, <<"_Event">>, <<"_BlockingPortal">>, <<"_BridgeClient">>>>

ModuleDefinitions(module) ==
  ModuleConstants \o PrivateNames \o module.clients
    \o Each(module.records, LAMBDA r : r[2]) \o Each(module.events, LAMBDA e : e[2])

AsyncMembers(module) ==
  <<<<"_", "bridge">>, <<"_", "module">>, <<"bridge">>, <<"module">>, <<"events">>, <<"check", "_", "compat">>>>
    \o Each(module.methods, LAMBDA m : m[2])
    \o Each(module.streams, LAMBDA s : <<"on", "_">> \o s) \o Each(module.streams, LAMBDA s : <<"decode", "_">> \o s)

SyncMembers(module) ==
  AsyncMembers(module) \o <<<<"_", "portal">>, <<"_", "aio">>, <<"portal">>, <<"aio">>>>

\* The default of a field is computed where the fields before it are names.
FieldsShadow(attributes) ==
  \E k \in DOMAIN attributes : attributes[k] = <<"_", "dataclasses">> /\ k < Len(attributes)

\* A method of the asynchronous client looks up _BINDING, and _typing for its result.
ParamsShadow(method) ==
  \/ <<"_BINDING">> \in ToSet(method[3])
  \/ <<"_", "typing">> \in ToSet(method[3]) /\ method[4] # <<>> /\ CodecOf(method[4][1].valueType) # "any"

Shadows(module) ==
  \/ \E r \in ToSet(module.records) : FieldsShadow(r[3])
  \/ \E e \in ToSet(module.events) : \E k \in 1 .. Len(e[3]) - 2 : e[3][k] = <<"_", "dataclasses">>
  \/ \E m \in ToSet(module.methods) : ParamsShadow(m)

Distinct(module) ==
  /\ \A names \in {ModuleDefinitions(module), AsyncMembers(module), SyncMembers(module)} : IsInjective(names)
  /\ \A class \in ToSet(module.records \o module.events) : IsInjective(class[3])
  /\ \A m \in ToSet(module.methods) : IsInjective(MethodParams \o m[3])

\* Importing it: the binding reads the shape back, hashes it, and builds the plans.
Bound(module) == FromShape(module.shape)
BindingChecks(module) ==
  /\ ShapeDigest(module.shape) = module.shapeDigest
  /\ PlansBuild(Bound(module))
  /\ {e[1] : e \in ToSet(module.events)} \subseteq NamesOf(Bound(module).events)

\* Importable: no name hides another, and the shape read back builds.
\* A contract that uses a name which the module imports for itself is excepted.
ImportsWell(module) == Shadows(module) \/ (Distinct(module) /\ BindingChecks(module))
===============================================================================
