------------------------------ MODULE MCContracts ------------------------------
(***************************************************************************)
(* The contracts of the small instances, as the JSON ASTs a reader prints. *)
(***************************************************************************)
EXTENDS Codecs

JSlot(name, type) ==
  [name |-> name, type |-> type, optional |-> Absent, isOptional |-> Absent, valueType |-> Absent]
JField(name, type, optional) == [JSlot(name, type) EXCEPT !.optional = optional]
JMethod(name, params, type) ==
  [name |-> name, params |-> params, returnType |-> type, returnIsOptional |-> Absent, returnValueType |-> Absent,
   derived |-> Absent]
JNamed(name, slots, fields) == IF fields THEN [name |-> name, fields |-> slots] ELSE [name |-> name, params |-> slots]
JRecord(name, fields) == JNamed(name, fields, TRUE)
JEvent(name, params) == JNamed(name, params, FALSE)
JDoc(types, methods, events) == [name |-> "vault", types |-> types, methods |-> methods, events |-> events]

tstr == Prim("tstr")
bstr == Prim("bstr")
int == Prim("int")
uint == Prim("uint")
bool == Prim("bool")
float64 == Prim("float64")
any == Prim("any")

Blob == JRecord("Blob", <<JField("id", int, Absent), JField("data", bstr, Absent), JField("tag", tstr, TRUE)>>)
Store == JMethod("store", <<JSlot("blob", Named("Blob")), JSlot("from", OptionalOf(tstr))>>, bool)
Fetch == JMethod("fetch", <<JSlot("id", int)>>, OptionalOf(Named("Blob")))
Stored == JEvent("stored", <<JSlot("id", int), JSlot("note", OptionalOf(tstr))>>)

Vault == JDoc(<<Blob>>, <<Store, Fetch>>, <<Stored>>)

MCBase64 == "aa" :> "YWE"

\* Another build: `store` answers a number.
Rebuilt == [Vault EXCEPT !.methods[1].returnType = uint]
===============================================================================
