------------------------------- MODULE MCCodegen -------------------------------
EXTENDS MCContracts, Generator, Codegen

\* storeBlob and store_blob; a record and an event whose classes have one name.
TwoMethods == [Vault EXCEPT !.methods = @ \o <<JMethod("storeBlob", <<>>, Absent), JMethod("store_blob", <<>>, Absent)>>]
TwoClasses == [Vault EXCEPT !.types = Append(@, JRecord("StoredEvent", <<>>))]
TwoParams == [Vault EXCEPT !.methods[2].params = <<JSlot("timeout", int), JSlot("timeout_", int)>>]
\* Keywords, reserved names, and a name Python does not take.
Escaped == [Vault EXCEPT !.types = Append(@, JRecord("_2x", <<JField("class", int, Absent), JField("__id", int, Absent)>>)),
                         !.methods = Append(@, JMethod("module", <<JSlot("timeout", int)>>, Absent)),
                         !.events[1].params[1].name = "meta"]
Shadowing == [Vault EXCEPT !.types[1].fields = <<JField("_dataclasses", int, TRUE)>> \o @]
Decimal == [Vault EXCEPT !.methods[2].params[1].type = Prim("decimal")]
Twice == [Vault EXCEPT !.methods = @ \o @]
LidlMethod == [Vault EXCEPT !.methods = Append(@, JMethod("lidl", <<>>, tstr))]
NoType == [Vault EXCEPT !.methods[1].params[1].type = Bad]
Unnamed == [Vault EXCEPT !.methods[2].params[1].type = Named("Missing")]

MCAst ==
  [vault |-> Vault, rebuilt |-> Rebuilt, twoMethods |-> TwoMethods, twoClasses |-> TwoClasses, twoParams |-> TwoParams,
   escaped |-> Escaped, decimal |-> Decimal, twice |-> Twice, lidlMethod |-> LidlMethod, noType |-> NoType,
   unnamed |-> Unnamed, shadowing |-> Shadowing, garbled |-> Bad]
\* A bridge that knows one type of integers.
MCBridgeAst == [MCAst EXCEPT !.rebuilt.methods[1].returnType = int]
MCCanonical == {"vault"}

MCWordsOf ==
  [vault |-> <<"vault">>, Blob |-> <<"Blob">>, id |-> <<"id">>, data |-> <<"data">>, tag |-> <<"tag">>,
   store |-> <<"store">>, blob |-> <<"blob">>, from |-> <<"from">>, fetch |-> <<"fetch">>, stored |-> <<"stored">>,
   note |-> <<"note">>, name |-> <<"name">>, version |-> <<"version">>, lidl |-> <<"lidl">>,
   storeBlob |-> <<"store", "Blob">>, store_blob |-> <<"store", "_", "blob">>, StoredEvent |-> <<"Stored", "Event">>,
   timeout |-> <<"timeout">>, timeout_ |-> <<"timeout", "_">>, _2x |-> <<"_", "2", "x">>, class |-> <<"class">>,
   __id |-> <<"_", "_", "id">>, module |-> <<"module">>, meta |-> <<"meta">>, _dataclasses |-> <<"_", "dataclasses">>]

MCUpperOf ==
  [vault |-> "Vault", blob |-> "Blob", stored |-> "Stored", store |-> "Store", event |-> "Event", put |-> "Put"]
MCKeywords == {<<"from">>, <<"class">>}
MCNotPython == {<<"2", "x">>}

MCRename(k, owner, n) == [kind |-> k, target |-> owner, name |-> n]

Plain ==
  [command |-> "python", kind |-> "ast", module |-> "vault", identity |-> TRUE, allow |-> FALSE, renames |-> <<>>,
   className |-> <<>>, check |-> FALSE, strict |-> FALSE, output |-> "file", tool |-> "installed", digest |-> "shape"]

MCInvocations ==
  {[Plain EXCEPT !.kind = k, !.tool = t] : k \in {"lidl", "lgx", "bridge"}, t \in {"installed", "missing", "broken"}}
    \cup {[Plain EXCEPT !.kind = k, !.module = Absent] : k \in {"ast", "lgx", "bridge"}}
    \cup {Plain, [Plain EXCEPT !.identity = FALSE], [Plain EXCEPT !.module = "other"], [Plain EXCEPT !.allow = TRUE],
          [Plain EXCEPT !.kind = "bridge", !.tool = "missing", !.identity = FALSE],
          [Plain EXCEPT !.output = "-"], [Plain EXCEPT !.check = TRUE], [Plain EXCEPT !.check = TRUE, !.strict = TRUE],
          [Plain EXCEPT !.check = TRUE, !.output = "-"], [Plain EXCEPT !.className = <<"class">>],
          [Plain EXCEPT !.command = "markdown"], [Plain EXCEPT !.command = "digest"],
          [Plain EXCEPT !.command = "digest", !.digest = "contract"],
          [Plain EXCEPT !.renames = <<MCRename("method", <<"storeBlob">>, <<"put", "_", "blob">>)>>],
          [Plain EXCEPT !.renames = <<MCRename("event", <<"stored">>, <<"put">>), MCRename("field", <<"Blob", "id">>, <<"data">>)>>],
          [Plain EXCEPT !.renames = <<MCRename("event", <<"stored">>, <<"put">>)>>],
          [Plain EXCEPT !.renames = <<MCRename("field", <<"Blob">>, <<"x">>)>>]}

\* The client of the contract as it is, from another source.
Current ==
  [body |-> GeneratePython(WithIdentity(FromJson(Vault)), Absent, <<>>, <<>>), provenance |-> <<"lidl", "lidl">>]
MCFiles == {Absent, Bad, Current}
===============================================================================
