-------------------------------- MODULE Codecs --------------------------------
(***************************************************************************)
(* The typed runtime: the codec of every LIDL type (typed/_codecs.py), the *)
(* plans of methods and events (typed/_plans.py), the bytes tag and the    *)
(* provider rejection (codec.py).                                          *)
(*                                                                         *)
(* A value is a tuple <<kind, payload>>.  JSON has null, bool, str, num,   *)
(* float, list and obj (a function from keys); Python adds bytes, inf,     *)
(* inst (an instance of a generated record class), result (a LogosResult)  *)
(* and other (an object with no JSON form).  Integers have IntBits bits    *)
(* for the 64 of the wire, a float counts halves, and Base64 tabulates the *)
(* encoding over the few byte strings there are.                           *)
(***************************************************************************)
EXTENDS Lidl, TLC

CONSTANTS
  IntBits,        \* bound: the width of int and uint
  Base64,         \* byte string -> its unpadded base64url text
  RejectionCodes  \* the codes of a provider's refusal

Null == <<"null">>
Refused == <<"refused">>  \* a CodecError
IsA(v, kind) == v[1] = kind

Int64Min == -(2 ^ (IntBits - 1))
Int64Max == 2 ^ (IntBits - 1) - 1
UInt64Max == 2 ^ IntBits - 1

AllOrRefused(kind, values) ==
  IF \E k \in DOMAIN values : values[k] = Refused THEN Refused ELSE <<kind, values>>

-------------------------------------------------------------------------------
(* Bytes and untyped values *)

BytesTag(b) == <<"obj", ("_bytes" :> <<"str", Base64[b]>>)>>
IsBytesTag(w) == IsA(w, "obj") /\ DOMAIN w[2] = {"_bytes"} /\ IsA(w[2]["_bytes"], "str")
ValidBase64(text) == \E b \in DOMAIN Base64 : Base64[b] = text
DecodeBytesTag(w) ==
  IF ValidBase64(w[2]["_bytes"][2])
  THEN <<"bytes", CHOOSE b \in DOMAIN Base64 : Base64[b] = w[2]["_bytes"][2]>>
  ELSE Refused

\* decode_bytes_tags, the whole tree refused for one bad tag.
RECURSIVE DecodeTags(_)
DecodeTags(w) ==
  CASE IsBytesTag(w) -> DecodeBytesTag(w)
    [] IsA(w, "obj") /\ ~IsBytesTag(w) -> AllOrRefused("obj", [k \in DOMAIN w[2] |-> DecodeTags(w[2][k])])
    [] IsA(w, "list") -> AllOrRefused("list", [k \in DOMAIN w[2] |-> DecodeTags(w[2][k])])
    [] OTHER -> w

\* `any` checks the range of integers, an untyped argument does not.
RECURSIVE EncodeTree(_, _)
EncodeTree(v, bounded) ==
  CASE v[1] \in {"null", "bool", "str", "float"} -> v
    [] IsA(v, "num") -> IF bounded => v[2] \in Int64Min .. UInt64Max THEN v ELSE Refused
    [] IsA(v, "bytes") -> BytesTag(v[2])
    [] IsA(v, "obj") ->
         IF "_bytes" \in DOMAIN v[2]
         THEN IF IsBytesTag(v) /\ ValidBase64(v[2]["_bytes"][2]) THEN v ELSE Refused
         ELSE AllOrRefused("obj", [k \in DOMAIN v[2] |-> EncodeTree(v[2][k], bounded)])
    [] IsA(v, "list") -> AllOrRefused("list", [k \in DOMAIN v[2] |-> EncodeTree(v[2][k], bounded)])
    [] OTHER -> Refused

EncodeJson(v) == EncodeTree(v, TRUE)
EncodeValue(v) == EncodeTree(v, FALSE)

-------------------------------------------------------------------------------
(* The codec built for a type, and what it does *)

CodecOf(t) ==
  IF ~NodeWellFormed(t) THEN "any"
  ELSE CASE t.kind = "primitive" -> IF t.name \in Primitives THEN t.name ELSE "any"
         [] t.kind = "named" -> "record"
         [] t.kind = "array" -> "array"
         [] t.kind = "map" -> IF IsTstr(t.elements[1]) THEN "map" ELSE "any"
         [] t.kind = "optional" -> "optional"

AcceptsNull(t) == CodecOf(t) \in {"any", "optional"}

\* The record types the builder asks for: ValueError if one is not declared.
RECURSIVE BuildRefs(_)
BuildRefs(t) ==
  CASE CodecOf(t) = "record" -> {t.name}
    [] CodecOf(t) = "array" -> BuildRefs(t.elements[1])
    [] CodecOf(t) = "map" -> BuildRefs(t.elements[2])
    [] CodecOf(t) = "optional" -> BuildRefs(ValueType(t))
    [] OTHER -> {}

FieldRefs(record) == UNION {BuildRefs(f.valueType) : f \in ToSet(record.fields)}

RECURSIVE BuiltRecords(_, _)
BuiltRecords(i, names) ==
  LET next == names \cup UNION {FieldRefs(Find(i.types, n)) : n \in names \cap NamesOf(i.types)}
  IN  IF next = names THEN names ELSE BuiltRecords(i, next)

PlansBuild(i) ==
  LET asked == UNION {BuildRefs(s.valueType) : s \in UNION {ToSet(MemberSlots(m)) : m \in ToSet(i.methods) \cup ToSet(i.events)}}
  IN  BuiltRecords(i, asked) \subseteq NamesOf(i.types)

InRange(unsigned, n) == n \in (IF unsigned THEN 0 .. UInt64Max ELSE Int64Min .. Int64Max)
AsInt(unsigned, v) == IF IsA(v, "num") /\ InRange(unsigned, v[2]) THEN v ELSE Refused

\* logos_codec.h: a whole-valued float is an integer.
AsIntLeniently(unsigned, w) ==
  IF IsA(w, "float") THEN IF w[2] % 2 = 0 THEN AsInt(unsigned, <<"num", w[2] \div 2>>) ELSE Refused
  ELSE AsInt(unsigned, w)

AsFloat(v) == CASE IsA(v, "num") -> <<"float", 2 * v[2]>> [] IsA(v, "float") -> v [] OTHER -> Refused

\* A provider takes a string, a number or a list for bytes: which ones is left open.
AsBytes(w, lenient) ==
  CASE IsBytesTag(w) /\ (ValidBase64(w[2]["_bytes"][2]) \/ ~lenient) -> DecodeBytesTag(w)
    [] lenient /\ (IsBytesTag(w) \/ w[1] \in {"str", "num", "float", "list"}) -> <<"other">>
    [] OTHER -> Refused

ResultKeys == {"success", "value", "error"}
IsLogosResult(w) ==
  /\ IsA(w, "obj") /\ DOMAIN w[2] = ResultKeys
  /\ IsA(w[2]["success"], "bool") /\ w[2]["error"][1] \in {"null", "str"}

EncodeResult(v, dynamic) ==
  LET obj == <<"obj", v[2]>>
      value == EncodeJson(v[2]["value"])
  IN  IF (IsA(v, "result") \/ (dynamic /\ IsA(v, "obj"))) /\ IsLogosResult(obj) /\ value # Refused
      THEN <<"obj", [v[2] EXCEPT !["value"] = value]>>
      ELSE Refused

DecodeResultObject(w) == IF IsLogosResult(w) THEN <<"result", w[2]>> ELSE Refused

RECURSIVE Encode(_, _, _, _)

\* A field that is None is omitted if it is optional, refused unless its codec takes null.
EncodeRecord(i, dynamic, record, v) ==
  LET Item(f) == IF f.name \in DOMAIN v[2] THEN v[2][f.name] ELSE Null
      fields == ToSet(record.fields)
      sent == {f \in fields : ~(f.optional /\ Item(f) = Null)}
  IN  IF \/ ~IsA(v, IF dynamic THEN "obj" ELSE "inst")
         \/ DOMAIN v[2] \ NamesOf(record.fields) # {}
         \/ \E f \in sent : Item(f) = Null /\ ~AcceptsNull(f.valueType)
      THEN Refused
      ELSE AllOrRefused("obj", [n \in {f.name : f \in sent} |->
             LET f == Find(record.fields, n) IN Encode(i, dynamic, f.valueType, Item(f))])

Encode(i, dynamic, t, v) ==
  LET codec == CodecOf(t)
  IN  CASE codec = "tstr" -> IF IsA(v, "str") THEN v ELSE Refused
        [] codec = "bstr" -> IF IsA(v, "bytes") THEN BytesTag(v[2]) ELSE Refused
        [] codec \in {"int", "uint"} -> AsInt(codec = "uint", v)
        [] codec = "float64" -> AsFloat(v)
        [] codec = "bool" -> IF IsA(v, "bool") THEN v ELSE Refused
        [] codec = "any" -> EncodeJson(v)
        [] codec = "result" -> IF v[1] \in {"obj", "result"} /\ ResultKeys \subseteq DOMAIN v[2] THEN EncodeResult(v, dynamic) ELSE Refused
        [] codec = "array" ->
             IF IsA(v, "list") THEN AllOrRefused("list", [k \in DOMAIN v[2] |-> Encode(i, dynamic, t.elements[1], v[2][k])]) ELSE Refused
        [] codec = "map" ->
             IF IsA(v, "obj") THEN AllOrRefused("obj", [k \in DOMAIN v[2] |-> Encode(i, dynamic, t.elements[2], v[2][k])]) ELSE Refused
        [] codec = "record" -> IF v[1] \in {"obj", "inst"} THEN EncodeRecord(i, dynamic, Find(i.types, t.name), v) ELSE Refused
        [] codec = "optional" -> IF v = Null THEN Null ELSE Encode(i, dynamic, ValueType(t), v)

RECURSIVE Decode(_, _, _, _, _)

\* Unknown keys are ignored; a dict leaves out the optional fields that are empty.
DecodeRecord(i, dynamic, record, w, lenient) ==
  LET Item(f) == IF f.name \in DOMAIN w[2] THEN w[2][f.name] ELSE Null
      Value(f) == IF Item(f) = Null THEN IF f.optional \/ AcceptsNull(f.valueType) THEN Null ELSE Refused
                  ELSE Decode(i, dynamic, f.valueType, Item(f), lenient)
      kept == {f \in ToSet(record.fields) : ~(dynamic /\ f.optional /\ Value(f) = Null)}
  IN  AllOrRefused(IF dynamic THEN "obj" ELSE "inst", [n \in {f.name : f \in kept} |-> Value(Find(record.fields, n))])

Decode(i, dynamic, t, w, lenient) ==
  LET codec == CodecOf(t)
  IN  CASE codec = "tstr" -> IF IsA(w, "str") THEN w ELSE Refused
        [] codec = "bstr" -> AsBytes(w, lenient)
        [] codec \in {"int", "uint"} -> IF lenient THEN AsIntLeniently(codec = "uint", w) ELSE AsInt(codec = "uint", w)
        [] codec = "float64" -> AsFloat(w)
        [] codec = "bool" -> IF IsA(w, "bool") THEN w ELSE Refused
        [] codec = "any" -> w
        [] codec = "result" -> DecodeResultObject(w)
        [] codec = "array" ->
             IF IsA(w, "list") THEN AllOrRefused("list", [k \in DOMAIN w[2] |-> Decode(i, dynamic, t.elements[1], w[2][k], lenient)]) ELSE Refused
        [] codec = "map" ->
             IF IsA(w, "obj") THEN AllOrRefused("obj", [k \in DOMAIN w[2] |-> Decode(i, dynamic, t.elements[2], w[2][k], lenient)]) ELSE Refused
        [] codec = "record" -> IF IsA(w, "obj") THEN DecodeRecord(i, dynamic, Find(i.types, t.name), w, lenient) ELSE Refused
        [] codec = "optional" -> IF w = Null THEN Null ELSE Decode(i, dynamic, ValueType(t), w, lenient)

SlotType(s) == IF s.optional THEN OptionalOf(s.valueType) ELSE s.valueType

-------------------------------------------------------------------------------
(* Plans *)

ArityOK(params, count) == count \in MinArgs(params) .. Len(params)

\* Every parameter is sent: the optional ones left out at the end as null.
EncodeArgs(i, dynamic, params, args) ==
  IF ~ArityOK(params, Len(args)) THEN <<"arity">>
  ELSE LET wire == [k \in DOMAIN params |->
                      Encode(i, dynamic, SlotType(params[k]), IF k <= Len(args) THEN args[k] ELSE Null)]
       IN  IF Refused \in ToSet(wire) THEN <<"argument">> ELSE <<"wire", wire>>

\* The positional values of a call that may name parameters.
Bind(params, args, named) ==
  LET Index(n) == IF n \in NamesOf(params) THEN SelectInSeq(params, LAMBDA p : p.name = n) ELSE 0
      count == Max({Len(args)} \cup {Index(n) : n \in DOMAIN named})
      Given(k) == k <= Len(args) \/ params[k].name \in DOMAIN named
  IN  CASE Len(args) > Len(params) -> <<"arity">>
        [] \E n \in DOMAIN named : Index(n) = 0 \/ Index(n) <= Len(args) -> <<"type">>
        [] \E k \in 1 .. count : ~Given(k) /\ ~params[k].optional -> <<"arity">>
        [] OTHER -> <<"values", [k \in 1 .. count |-> IF k <= Len(args) THEN args[k]
                                   ELSE IF Given(k) THEN named[params[k].name] ELSE Null]>>

\* An event may leave out trailing optional values.
DecodeEvent(i, dynamic, params, data) ==
  IF ~IsA(data, "list") \/ ~ArityOK(params, Len(data[2])) THEN Refused
  ELSE AllOrRefused("list", [k \in DOMAIN params |->
         Decode(i, dynamic, SlotType(params[k]), IF k <= Len(data[2]) THEN data[2][k] ELSE Null, FALSE)])

IsRejection(w) ==
  /\ IsA(w, "obj") /\ DOMAIN w[2] = {"code", "message", "origin"}
  /\ \A k \in DOMAIN w[2] : IsA(w[2][k], "str")
  /\ w[2]["code"][2] \in RejectionCodes

Rejection(code) ==
  <<"obj", ("code" :> <<"str", code>>) @@ ("message" :> <<"str", "s">>) @@ ("origin" :> <<"str", "s">>)>>

DecodeMethodResult(i, dynamic, returns, w) ==
  CASE IsRejection(w) -> <<"rejected">>
    [] ~IsRejection(w) /\ returns = <<>> -> <<"result", Null>>
    [] OTHER -> LET v == Decode(i, dynamic, SlotType(returns[1]), w, FALSE)
                IN  IF v = Refused THEN <<"undecodable">> ELSE <<"result", v>>

StringCapable(t) == LET v == ValueType(t) IN v.kind = "primitive" /\ v.name \in {"tstr", "any"}

\* Whether a value of the type may look like a refusal.
RejectionAmbiguous(i, t) ==
  LET v == ValueType(t)
  IN  CASE v.kind = "primitive" -> v.name = "any"
        [] v.kind = "map" /\ Len(v.elements) = 2 -> StringCapable(v.elements[2])
        [] v.kind = "named" /\ v.name \in NamesOf(i.types) ->
             LET fields == Find(i.types, v.name).fields
             IN  NamesOf(fields) = {"code", "message", "origin"} /\ \A f \in ToSet(fields) : StringCapable(f.type)
        [] OTHER -> FALSE
===============================================================================
