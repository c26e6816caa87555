----------------------------- MODULE MCTypedClient -----------------------------
EXTENDS MCContracts, TypedClient

CONSTANT Depth  \* bound: how deep a sample value nests

\* The same contract with a method more, its fields in another order and its optional spelled as a type.
Respelt ==
  [Vault EXCEPT !.types[1].fields = <<JSlot("tag", OptionalOf(tstr)), Blob.fields[1], Blob.fields[2]>>,
                !.methods = Append(@, JMethod("clear", <<>>, Absent))]
\* Its record and its parameter under other names.
Renaming ==
  JDoc(<<[Blob EXCEPT !.name = "Chunk"]>>,
       <<[Store EXCEPT !.params[1] = JSlot("chunk", Named("Chunk"))], [Fetch EXCEPT !.returnType = OptionalOf(Named("Chunk"))]>>,
       <<Stored>>)
\* A field of another type; MCContracts' Rebuilt has a result of another type.
Retyped == [Vault EXCEPT !.types[1].fields[2].type = tstr]

\* Every type there is: a record of itself, results that look like refusals, a type of a later version.
Node == JRecord("Node", <<JField("next", OptionalOf(Named("Node")), Absent), JField("extra", any, Absent)>>)
Refusal == JRecord("Refusal", <<JSlot("code", tstr), JSlot("message", tstr), JSlot("origin", tstr)>>)
Wide ==
  JDoc(<<Node, Refusal>>,
       <<JMethod("link", <<JSlot("node", Named("Node")), JSlot("weight", float64)>>, Named("Node")),
         JMethod("sum", <<JSlot("parts", ArrayOf(uint)), JSlot("by", MapOf(tstr, OptionalOf(bool)))>>, Prim("result")),
         JMethod("why", <<>>, Named("Refusal")), JMethod("what", <<JSlot("it", OptionalOf(any))>>, any),
         JMethod("price", <<>>, Prim("decimal")), JMethod("note", <<JSlot("text", ArrayOf(bstr))>>, Absent)>>,
       <<JEvent("linked", <<JSlot("node", Named("Node")), JSlot("at", OptionalOf(uint))>>)>>)
\* Two methods of one name are no contract, and `fetch` is missing.
Twice == [Vault EXCEPT !.methods = <<Store, Store>>]

MCBuilds ==
  [vault |-> Vault, respelt |-> Respelt, renamed |-> Renaming, retyped |-> Retyped, rebuilt |-> Rebuilt,
   wide |-> Wide, twice |-> Twice]
MCHidden == {"fetch"}

Str(s) == <<"str", s>>
Obj(keys, f(_)) == <<"obj", [k \in keys |-> f(k)]>>

RECURSIVE Sample(_, _, _, _)
Sample(i, dynamic, t, depth) ==
  LET codec == CodecOf(t)
      Field(f) == IF f.optional \/ depth = 0 THEN {Null} \cup (IF depth = 0 THEN {} ELSE Sample(i, dynamic, f.valueType, depth - 1))
                  ELSE Sample(i, dynamic, f.valueType, depth - 1)
      record == Find(i.types, t.name)
      names == NamesOf(record.fields)
  IN  CASE codec = "tstr" -> {Str("s")}
        [] codec = "bstr" -> {<<"bytes", "aa">>}
        [] codec = "int" -> {<<"num", Int64Min>>, <<"num", Int64Max + 1>>}
        [] codec = "uint" -> {<<"num", UInt64Max>>, <<"num", -1>>}
        [] codec = "float64" -> {<<"num", 1>>, <<"float", 1>>}
        [] codec = "bool" -> {<<"bool", TRUE>>}
        [] codec = "any" -> {Null, <<"bytes", "aa">>} \cup (IF depth = Depth THEN {Rejection("dispatch_failed")} ELSE {})
        [] codec = "result" ->
             {<<IF dynamic THEN "obj" ELSE "result",
                [success |-> <<"bool", FALSE>>, value |-> v, error |-> Str("s")]>> : v \in {Null, <<"other">>, <<"bytes", "aa">>}}
        [] codec = "array" -> {<<"list", <<>>>>} \cup {<<"list", <<v>>>> : v \in Sample(i, dynamic, t.elements[1], depth)}
        [] codec = "map" -> {<<"obj", [k \in {} |-> Null]>>} \cup {Obj({"k"}, LAMBDA k : v) : v \in Sample(i, dynamic, t.elements[2], depth)}
        [] codec = "optional" -> {Null} \cup Sample(i, dynamic, ValueType(t), depth)
        [] codec = "record" ->
             {<<IF dynamic THEN "obj" ELSE "inst", v>> :
                v \in {v \in [names -> UNION {Field(f) : f \in ToSet(record.fields)}] :
                         \A n \in names : v[n] \in Field(Find(record.fields, n))}}

MCValues(i, dynamic, t) == Sample(i, dynamic, t, Depth)

Generated(contract, identity, strict, timeout) ==
  [kind |-> "generated", contract |-> contract, identity |-> identity, strict |-> strict, timeout |-> timeout]
DynamicClient(strict, timeout) ==
  [kind |-> "dynamic", contract |-> "vault", identity |-> TRUE, strict |-> strict, timeout |-> timeout]
MCClients ==
  {Generated("vault", TRUE, TRUE, 3), Generated("vault", FALSE, FALSE, Never), Generated("wide", TRUE, TRUE, 0),
   DynamicClient(TRUE, 4), DynamicClient(FALSE, 0)}
===============================================================================
