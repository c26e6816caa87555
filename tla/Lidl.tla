--------------------------------- MODULE Lidl ---------------------------------
(***************************************************************************)
(* The contract model of lidl.py: reading a JSON AST, validating it, the   *)
(* identity methods, the shape form that a generated client embeds, and    *)
(* the digests and signatures by which two contracts are compared.         *)
(*                                                                         *)
(* A JSON document is a tree of records whose keys hold a value of the     *)
(* right JSON type, Absent, or Bad (a value of another JSON type).  The    *)
(* text of a compact type is the tree of its tokens.  Descriptions and     *)
(* metadata are left out: no digest, signature or codec but the two        *)
(* whole-document digests depends on them, and the order of declarations   *)
(* and the spelling of an optional tell those apart as well.               *)
(***************************************************************************)
EXTENDS Integers, SequencesExt, JsonValues

CONSTANT NotIdentifiers  \* the names outside [A-Za-z_][A-Za-z0-9_]*

-------------------------------------------------------------------------------
(* Types *)

Primitives == {"tstr", "bstr", "int", "uint", "float64", "bool", "result", "any"}
IdentityMethods == <<"name", "version", "lidl">>

Type(kind, name, elements) == [kind |-> kind, name |-> name, elements |-> elements]
Prim(name) == Type("primitive", name, <<>>)
Named(name) == Type("named", name, <<>>)
ArrayOf(element) == Type("array", "", <<element>>)
MapOf(key, value) == Type("map", "", <<key, value>>)
OptionalOf(inner) == Type("optional", "", <<inner>>)

ElementCount == [primitive |-> 0, named |-> 0, array |-> 1, map |-> 2, optional |-> 1]

RECURSIVE Walk(_)
Walk(t) == <<t>> \o FlattenSeq([k \in DOMAIN t.elements |-> Walk(t.elements[k])])
Nodes(t) == ToSet(Walk(t))

NodeWellFormed(n) == n.kind \in DOMAIN ElementCount /\ Len(n.elements) = ElementCount[n.kind]
WellFormed(t) == \A n \in Nodes(t) : NodeWellFormed(n)

IsTstr(t) == t.kind = "primitive" /\ t.name = "tstr"
IsAny(t) == t.kind = "primitive" /\ t.name = "any"

Known(t) ==
  /\ WellFormed(t)
  /\ \A n \in Nodes(t) : /\ n.kind = "primitive" => n.name \in Primitives
                         /\ n.kind = "map" => IsTstr(n.elements[1])

\* ??T and ?T have the same value type T.
RECURSIVE ValueType(_)
ValueType(t) == IF t.kind = "optional" /\ t.elements # <<>> THEN ValueType(t.elements[1]) ELSE t

-------------------------------------------------------------------------------
(* Reading: what a document must hold to be read, and what is read from it. *)

RECURSIVE ReadType(_)
ReadType(j) == Type(Default(j.kind, "primitive"), j.name, [k \in DOMAIN j.elements |-> ReadType(j.elements[k])])

Slot(name, type, optional, valueType, flag, raw) ==
  [name |-> name, type |-> type, optional |-> optional, valueType |-> valueType, flag |-> flag, raw |-> raw]

MakeSlot(name, type, flag) == Slot(name, type, flag \/ type.kind = "optional", ValueType(type), flag, FALSE)

DerivedConsistent(s) ==
  /\ s.optional = (s.flag \/ s.type.kind = "optional")
  /\ s.valueType = ValueType(s.type)

SlotReadable(j, isField) ==
  /\ j # Bad
  /\ j.name # Bad /\ j.type \notin {Absent, Bad}
  /\ isField => j.optional # Bad
  /\ j.isOptional # Bad /\ j.valueType # Bad

ReadSlot(j, isField) ==
  LET type == ReadType(j.type)
      flag == isField /\ Default(j.optional, FALSE)
  IN  Slot(j.name, type,
           Default(j.isOptional, flag \/ type.kind = "optional"),
           IF j.valueType = Absent THEN ValueType(type) ELSE ReadType(j.valueType),
           flag, TRUE)

IsVoid(j) == j.kind \in {Absent, "primitive", "named"} /\ j.name = "void" /\ j.elements = <<>>

\* A method that returns nothing, by omission or by the legacy spelling, has no return slot.
ReadReturn(j) ==
  IF j.returnType = Absent \/ IsVoid(j.returnType) THEN <<>>
  ELSE LET type == ReadType(j.returnType)
       IN  <<Slot("", type, Default(j.returnIsOptional, type.kind = "optional"),
                  IF j.returnValueType = Absent THEN ValueType(type) ELSE ReadType(j.returnValueType),
                  FALSE, FALSE)>>

MethodReadable(j) ==
  /\ \A k \in DOMAIN j.params : SlotReadable(j.params[k], FALSE)
  /\ j.name # Bad /\ j.derived # Bad /\ j.returnType # Bad
  /\ j.returnType # Absent => \/ IsVoid(j.returnType)
                              \/ j.returnIsOptional # Bad /\ j.returnValueType # Bad

ReadSlots(js, isField) == [k \in DOMAIN js |-> ReadSlot(js[k], isField)]

ReadMethod(j) ==
  [name |-> j.name, params |-> ReadSlots(j.params, FALSE), returns |-> ReadReturn(j),
   derived |-> Default(j.derived, FALSE), raw |-> j]
ReadEvent(j) == [name |-> j.name, params |-> ReadSlots(j.params, FALSE), raw |-> j]
ReadRecord(j) == [name |-> j.name, fields |-> ReadSlots(j.fields, TRUE), raw |-> j]

\* Interface.from_json raises LidlFormatError on a document that is not Readable.
Readable(doc) ==
  /\ doc # Bad
  /\ doc.name # Bad
  /\ \A k \in DOMAIN doc.types : \A f \in ToSet(doc.types[k].fields) : SlotReadable(f, TRUE)
  /\ \A k \in DOMAIN doc.methods : MethodReadable(doc.methods[k])
  /\ \A k \in DOMAIN doc.events : \A p \in ToSet(doc.events[k].params) : SlotReadable(p, FALSE)

FromJson(doc) ==
  [name |-> doc.name,
   types |-> [k \in DOMAIN doc.types |-> ReadRecord(doc.types[k])],
   methods |-> [k \in DOMAIN doc.methods |-> ReadMethod(doc.methods[k])],
   events |-> [k \in DOMAIN doc.events |-> ReadEvent(doc.events[k])]]

\* The digest of the document: of the JSON its parts were read from, in their order.
InterfaceDigest(i) ==
  [name |-> i.name,
   types |-> [k \in DOMAIN i.types |-> i.types[k].raw],
   methods |-> [k \in DOMAIN i.methods |-> i.methods[k].raw],
   events |-> [k \in DOMAIN i.events |-> i.events[k].raw]]

-------------------------------------------------------------------------------
(* Lookup *)

NamesOf(members) == {members[k].name : k \in DOMAIN members}
Find(members, name) == members[SelectInSeq(members, LAMBDA m : m.name = name)]

HasDuplicates(members) == \E a, b \in DOMAIN members : a < b /\ members[a].name = members[b].name

\* The arguments a provider requires: through the last parameter that is not optional.
MinArgs(params) == SelectLastInSeq(params, LAMBDA p : ~p.optional)

SlotsOf(i) ==
  UNION {ToSet(i.types[k].fields) : k \in DOMAIN i.types}
    \cup UNION {ToSet(i.methods[k].params) \cup ToSet(i.methods[k].returns) : k \in DOMAIN i.methods}
    \cup UNION {ToSet(i.events[k].params) : k \in DOMAIN i.events}

-------------------------------------------------------------------------------
(* Validation: the codes of the issues found. *)

UnmappableCodes == {"unknown_kind", "unknown_primitive", "malformed_type", "map_key_not_string"}
WarningCodes == {"optional_twice", "optional_any", "redundant_optional", "infinite_record"}

If(condition, code) == IF condition THEN {code} ELSE {}

RECURSIVE TypeIssues(_, _, _, _)
TypeIssues(i, t, inMapKey, underOptional) ==
  IF t.kind \notin DOMAIN ElementCount THEN {"unknown_kind"}
  ELSE If(Len(t.elements) # ElementCount[t.kind], "malformed_type") \cup
    CASE t.kind = "primitive" -> If(t.name \notin Primitives, "unknown_primitive")
      [] t.kind = "named" -> If(t.name \notin NamesOf(i.types), "unknown_type")
      [] t.kind = "array" ->
           IF t.elements = <<>> THEN {} ELSE TypeIssues(i, t.elements[1], FALSE, FALSE)
      [] t.kind = "map" ->
           IF Len(t.elements) < 2 THEN {}
           ELSE TypeIssues(i, t.elements[1], TRUE, FALSE) \cup TypeIssues(i, t.elements[2], FALSE, FALSE)
                  \cup If(~IsTstr(t.elements[1]), "map_key_not_string")
      [] t.kind = "optional" ->
           If(inMapKey, "optional_map_key") \cup If(underOptional, "redundant_optional") \cup
             IF t.elements = <<>> THEN {}
             ELSE If(IsAny(t.elements[1]), "optional_any") \cup TypeIssues(i, t.elements[1], FALSE, TRUE)

NameIssues(members) == If(NamesOf(members) \cap NotIdentifiers # {}, "invalid_identifier")
DuplicateIssues(members, code) == If(HasDuplicates(members), code)

SlotIssues(i, s) ==
  If(s.raw /\ ~DerivedConsistent(s), "derived_key_mismatch") \cup TypeIssues(i, s.type, FALSE, FALSE)

FieldIssues(i, f) ==
  If(f.flag /\ f.type.kind = "optional", "optional_twice") \cup If(f.flag /\ IsAny(f.type), "optional_any")

\* The records that required fields of records alone lead from one record to.
RequiredRefs(i, record) ==
  {f.type.name : f \in {g \in ToSet(record.fields) :
                          ~g.optional /\ g.type.kind = "named" /\ g.type.name \in NamesOf(i.types)}}

\* X, had the search been for self-references alone.
SelfReferences(i) == {n \in NamesOf(i.types) : n \in RequiredRefs(i, Find(i.types, n))}

RECURSIVE Closure(_, _)
Closure(i, names) ==
  LET next == names \cup UNION {RequiredRefs(i, Find(i.types, n)) : n \in names}
  IN  IF next = names THEN names ELSE Closure(i, next)

InfiniteRecords(i) ==
  {n \in NamesOf(i.types) : n \in Closure(i, RequiredRefs(i, Find(i.types, n)))}

MemberIssues(i, members, code, paramCode) ==
  NameIssues(members) \cup DuplicateIssues(members, code)
    \cup UNION {NameIssues(m.params) \cup DuplicateIssues(m.params, paramCode) : m \in ToSet(members)}

\* Fields may be declared twice: nothing looks for it.
TypeDeclIssues(i) ==
  NameIssues(i.types) \cup DuplicateIssues(i.types, "duplicate_type")
    \cup If(NamesOf(i.types) \cap Primitives # {}, "type_shadows_builtin")
    \cup UNION {NameIssues(r.fields) \cup UNION {FieldIssues(i, f) : f \in ToSet(r.fields)} : r \in ToSet(i.types)}

Issues(i) ==
  If(i.name = "", "module_name_empty") \cup If(i.name \in NotIdentifiers, "invalid_identifier")
    \cup TypeDeclIssues(i)
    \cup MemberIssues(i, i.methods, "duplicate_method", "duplicate_param")
    \cup MemberIssues(i, i.events, "duplicate_event", "duplicate_event_param")
    \cup UNION {SlotIssues(i, s) : s \in SlotsOf(i)}
    \cup If(InfiniteRecords(i) # {}, "infinite_record")

Errors(i) == Issues(i) \ WarningCodes

\* Interface.check: what is left of the errors blocks.
Passes(i, allowUnknown) == Errors(i) \ (IF allowUnknown THEN UnmappableCodes ELSE {}) = {}

-------------------------------------------------------------------------------
(* Identity *)

IdentityJson(name) ==
  [name |-> name, params |-> <<>>, derived |-> TRUE, returnType |-> Prim("tstr"),
   returnIsOptional |-> FALSE, returnValueType |-> Prim("tstr")]
IdentityMethod(name) == ReadMethod(IdentityJson(name))

IdentitySignature(m) == m.params = <<>> /\ m.returns # <<>> /\ IsTstr(m.returns[1].type)

IdentityRefused(i) ==
  \E k \in DOMAIN i.methods :
    LET m == i.methods[k]
    IN  /\ m.name \in ToSet(IdentityMethods) /\ ~m.derived
        /\ m.name = "lidl" \/ ~IdentitySignature(m)

WithIdentity(i) ==
  [i EXCEPT !.methods = @ \o [k \in DOMAIN SelectSeq(IdentityMethods, LAMBDA n : n \notin NamesOf(i.methods)) |->
     IdentityMethod(SelectSeq(IdentityMethods, LAMBDA n : n \notin NamesOf(i.methods))[k])]]

IdentityDigest(i) == InterfaceDigest(WithIdentity(i))
DocumentDigest(doc) == InterfaceDigest(FromJson(doc))

\* `lidl json --identity`: the derived methods come last.
IdentifiedJson(doc) ==
  LET missing == SelectSeq(IdentityMethods, LAMBDA n : n \notin NamesOf(doc.methods))
  IN  IF Readable(doc) /\ IdentityRefused(FromJson(doc)) THEN Bad
      ELSE [doc EXCEPT !.methods = @ \o [k \in DOMAIN missing |-> IdentityJson(missing[k])]]

\* The bridge's own reading, identity methods included.
ServedJson(doc) == IF Readable(doc) THEN IdentifiedJson(doc) ELSE Bad

\* _finish: the contract of a document, if it is one.
ReadContract(doc, identity) ==
  LET i == FromJson(doc)
      contract == IF identity THEN WithIdentity(i) ELSE i
  IN  IF Readable(doc) /\ (identity => ~IdentityRefused(i)) /\ Passes(contract, TRUE) THEN contract ELSE Bad

-------------------------------------------------------------------------------
(* Shape: the form a generated client embeds, and what it is read back as. *)

Text(token, name, parts) == [token |-> token, name |-> name, parts |-> parts]

Compactable(t) ==
  /\ WellFormed(t)
  /\ \A n \in Nodes(t) : /\ n.kind = "primitive" => n.name \in Primitives
                         /\ n.kind = "named" => n.name \notin Primitives \cup NotIdentifiers

RECURSIVE ShapeType(_, _)
Compact(t) ==
  CASE t.kind \in {"primitive", "named"} -> Text("name", t.name, <<>>)
    [] t.kind = "array" -> Text("[]", "", <<ShapeType(t.elements[1], FALSE)>>)
    [] t.kind = "map" -> Text("{}", "", <<ShapeType(t.elements[1], FALSE), ShapeType(t.elements[2], FALSE)>>)
    [] OTHER -> ShapeType(t, FALSE)

\* An optional is spelled once; ?any denotes the same values as any.
Spelled(value, optional) == IF optional /\ ~IsAny(value) THEN Text("?", "", <<Compact(value)>>) ELSE Compact(value)

ShapeType(t, optional) ==
  IF ~Compactable(t) THEN Text("ast", "", <<t>>) ELSE Spelled(ValueType(t), optional \/ t.kind = "optional")

ShapeSlot(s) ==
  IF Compactable(s.type) /\ Compactable(s.valueType) THEN Spelled(s.valueType, s.optional) ELSE ShapeType(s.type, FALSE)

ShapeSlots(slots) == [k \in DOMAIN slots |-> <<slots[k].name, ShapeSlot(slots[k])>>]

Shape(i) ==
  [module |-> i.name,
   records |-> [k \in DOMAIN i.types |-> <<i.types[k].name, ShapeSlots(i.types[k].fields)>>],
   methods |-> [k \in DOMAIN i.methods |->
                  <<i.methods[k].name, ShapeSlots(i.methods[k].params), ShapeSlots(i.methods[k].returns)>>],
   events |-> [k \in DOMAIN i.events |-> <<i.events[k].name, ShapeSlots(i.events[k].params)>>]]

\* canonical_json sorts keys: declarations and fields are sets, parameters stay sequences.
ShapeDigest(shape) ==
  [shape EXCEPT !.records = {<<shape.records[k][1], ToSet(shape.records[k][2])>> : k \in DOMAIN shape.records},
                !.methods = ToSet(@), !.events = ToSet(@)]

RECURSIVE ParseShapeType(_)
ParseShapeType(text) ==
  CASE text.token = "ast" -> ReadType(text.parts[1])
    [] text.token = "?" -> OptionalOf(ParseShapeType(text.parts[1]))
    [] text.token = "[]" -> ArrayOf(ParseShapeType(text.parts[1]))
    [] text.token = "{}" -> MapOf(ParseShapeType(text.parts[1]), ParseShapeType(text.parts[2]))
    [] text.token = "name" -> IF text.name \in Primitives THEN Prim(text.name) ELSE Named(text.name)

\* ParseSlots, had an optional been read as its value type.
ParseSlotsRequired(pairs) == [k \in DOMAIN pairs |-> MakeSlot(pairs[k][1], ValueType(ParseShapeType(pairs[k][2])), FALSE)]
ParseSlots(pairs) == [k \in DOMAIN pairs |-> MakeSlot(pairs[k][1], ParseShapeType(pairs[k][2]), FALSE)]

\* The shape drops `derived`: a method with the name and signature of a built-in is one.
ParseMethod(entry) ==
  LET m == [name |-> entry[1], params |-> ParseSlots(entry[2]), returns |-> ParseSlots(entry[3]),
            derived |-> FALSE, raw |-> Absent]
  IN  IF m.name \in ToSet(IdentityMethods) /\ IdentitySignature(m) THEN IdentityMethod(m.name) ELSE m

FromShape(shape) ==
  [name |-> shape.module,
   types |-> [k \in DOMAIN shape.records |->
                [name |-> shape.records[k][1], fields |-> ParseSlots(shape.records[k][2]), raw |-> Absent]],
   methods |-> [k \in DOMAIN shape.methods |-> ParseMethod(shape.methods[k])],
   events |-> [k \in DOMAIN shape.events |->
                 [name |-> shape.events[k][1], params |-> ParseSlots(shape.events[k][2]), raw |-> Absent]]]

-------------------------------------------------------------------------------
(* Signatures of one member, with the records it reaches. *)

\* Fields sorted by name; the order of the names itself does not matter.
SortedFields(record) == LET names == SetToSeq(NamesOf(record.fields)) IN [k \in DOMAIN names |-> Find(record.fields, names[k])]

RefsOf(slots) ==
  LET nodes == FlattenSeq([k \in DOMAIN slots |-> Walk(slots[k].type)])
      named == SelectSeq(nodes, LAMBDA n : n.kind = "named")
  IN  [k \in DOMAIN named |-> named[k].name]

\* The declared records in the order in which a depth-first reading first meets them.
RECURSIVE ReachedFrom(_, _, _)
ReachedFrom(i, reached, refs) ==
  IF refs = <<>> THEN reached
  ELSE IF Head(refs) \in ToSet(reached) \/ Head(refs) \notin NamesOf(i.types)
       THEN ReachedFrom(i, reached, Tail(refs))
       ELSE ReachedFrom(i, Append(reached, Head(refs)), RefsOf(SortedFields(Find(i.types, Head(refs)))) \o Tail(refs))

\* Records become R0, R1, ... in compact text; an AST keeps its names.
RecordNames == <<"R0", "R1", "R2", "R3">>

RECURSIVE Renamed(_, _)
Renamed(text, order) ==
  CASE text.token = "ast" -> text
    [] text.token = "name" /\ Contains(order, text.name) -> Text("name", RecordNames[SelectInSeq(order, LAMBDA n : n = text.name)], <<>>)
    [] OTHER -> [text EXCEPT !.parts = [k \in DOMAIN text.parts |-> Renamed(text.parts[k], order)]]

MemberSlots(member) == member.params \o (IF "returns" \in DOMAIN member THEN member.returns ELSE <<>>)

MemberSignature(i, member) ==
  LET reached == ToSet(ReachedFrom(i, <<>>, RefsOf(MemberSlots(member))))
  IN  [params |-> ShapeSlots(member.params),
       returns |-> IF "returns" \in DOMAIN member THEN ShapeSlots(member.returns) ELSE <<>>,
       records |-> {<<n, ToSet(ShapeSlots(Find(i.types, n).fields))>> : n \in reached}]

\* StructuralSignature, had the fields of the records not been compared.
SignatureWithoutRecords(i, member) ==
  LET order == ReachedFrom(i, <<>>, RefsOf(MemberSlots(member)))
  IN  [k \in DOMAIN MemberSlots(member) |-> Renamed(ShapeSlot(MemberSlots(member)[k]), order)]

StructuralSignature(i, member) ==
  LET order == ReachedFrom(i, <<>>, RefsOf(MemberSlots(member)))
      Renames(slots) == [k \in DOMAIN slots |-> Renamed(ShapeSlot(slots[k]), order)]
  IN  [params |-> Renames(member.params),
       returns |-> IF "returns" \in DOMAIN member THEN Renames(member.returns) ELSE <<>>,
       records |-> [k \in DOMAIN order |->
                      {<<f.name, Renamed(ShapeSlot(f), order)>> : f \in ToSet(Find(i.types, order[k]).fields)}]]
===============================================================================
