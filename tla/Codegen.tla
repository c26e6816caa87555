-------------------------------- MODULE Codegen --------------------------------
(***************************************************************************)
(* One run of logos-bridge-codegen (codegen/cli.py): a contract is loaded  *)
(* from one of four sources (lidl_sources.py), checked, named, turned into *)
(* text, and compared with a file or written to it.                        *)
(*                                                                         *)
(* A location (a file, a package, a module behind a bridge) holds a text;  *)
(* what it holds may change between two steps.  The lidl and lgx tools,    *)
(* the bridge and the file system are external: each step that uses them   *)
(* may fail, and the process may be killed between two steps.              *)
(*                                                                         *)
(* What is read from a text and made of a contract are parameters here:    *)
(* the run gives them the definitions of Lidl, Codecs and Generator.       *)
(***************************************************************************)
EXTENDS Naturals, Sequences, JsonValues

CONSTANTS
  Invocations,  \* the command lines: records of the options below
  Ast,          \* text -> the JSON AST it is, or that the lidl tool reads from it; or Bad
  BridgeAst,    \* text -> the one that the bridge's own reader has of it; or Bad
  Canonical,    \* the texts that `lidl fmt` leaves alone
  Files,        \* what the target may hold before
  MaxChanges    \* bound: how often the location's text changes

CONSTANTS
  RenameOK(_),              \* Rename.parse takes a --rename
  Identified(_),            \* AST -> what `lidl json --identity` prints of it, or Bad where it refuses
  Served(_),                \* AST -> the interface of an "ok" view of it, or Bad where there is none
  Reading(_, _),            \* AST, identity methods added or not -> the Interface read from it, or Bad where it is refused
  Legal(_, _),              \* Interface, --allow-unknown-types or not -> it passes the check
  Naming(_, _, _),          \* Interface, --class-name, --rename's -> "ok", "collision" or "usage"
  Unmapped(_),              \* Interface -> a type of it has no Python
  PythonText(_, _, _, _),   \* Interface, contract digest, --class-name, --rename's -> the module
  MarkdownText(_, _),       \* Interface, --rename's -> the page
  Imports(_),               \* the module can be imported and says what the contract says
  Digest(_),                \* Interface -> the digest of the interface, identity methods included
  ServedDigest(_)           \* served interface -> the interface_sha256 of its view

ASSUME InvocationAssumption ==
  \A a \in Invocations : /\ a.kind \in {"ast", "lidl", "lgx", "bridge"}
                         /\ a.identity \in BOOLEAN /\ a.check \in BOOLEAN

\* What a reader makes of its AST has one digest: the identity methods are added once.
Readings(doc) == {Reading(d, identity) : d \in {doc, Identified(doc), Served(doc)} \ {Bad}, identity \in BOOLEAN}
ASSUME ReadingAssumption ==
  \A t \in DOMAIN Ast : \A doc \in {Ast[t], BridgeAst[t]} \ {Bad} :
    \A i \in Readings(doc) \ {Bad} : Digest(i) = Digest(Reading(doc, FALSE))

VARIABLES
  args,      \* the command line: [command, kind, module, identity, allow, renames, className, check, strict, output, tool, digest]
  held,      \* what the location holds: a text, or Absent
  changes,   \* how often that has changed
  pc,        \* the next step
  info,      \* the module's view: [interface, contract_sha256 (the text), interface_sha256], each maybe Absent
  text,      \* the text of the contract that was read
  source,    \* the loaded contract: [interface, contract (its digest), reader, notes]
  output,    \* the generated text: [body, provenance]
  target,    \* what the output file holds: Absent, Bad (unreadable) or a text
  tmp,       \* what its temporary neighbour holds
  before,    \* history: what the target held at first
  exit       \* the exit status, or "running", or "killed"

vars == <<args, held, changes, pc, info, text, source, output, target, tmp, before, exit>>
loading == <<args, held, changes, before, output, target, tmp>>
loaded == <<args, held, changes, before, info, text>>

EXIT_OK == "0 ok"
EXIT_DRIFT == "1 drift"
EXIT_USAGE == "2 usage"
EXIT_UNAVAILABLE == "3 unavailable"
EXIT_REJECTED == "4 rejected"
EXIT_WRITE == "5 write"

Partial == [partial |-> TRUE]  \* a file that is open for writing

Init ==
  /\ args \in Invocations
  /\ held \in DOMAIN Ast \cup {Absent}
  /\ before \in Files
  /\ changes = 0 /\ pc = "parse"
  /\ info = Absent /\ text = Absent /\ source = Absent /\ output = Absent
  /\ target = before /\ tmp = Absent
  /\ exit = "running"

Exit(status) == pc' = "done" /\ exit' = status
Step(next) == pc' = next /\ exit' = exit

-------------------------------------------------------------------------------
(* Loading *)

Parse ==
  /\ pc = "parse"
  /\ IF \/ \E k \in DOMAIN args.renames : ~RenameOK(args.renames[k])
        \/ args.kind \in {"lgx", "bridge"} /\ args.module = Absent
     THEN Exit(EXIT_USAGE) ELSE Step(args.kind)
  /\ UNCHANGED <<loading, info, text, source>>

\* The document that `lidl json [--identity]` prints; there is none of a missing text, and a bad one is refused.
LidlJson(t, identity) ==
  CASE t = Absent -> Absent
    [] t # Absent /\ Ast[t] = Bad -> Bad
    [] OTHER -> IF identity THEN Identified(Ast[t]) ELSE Ast[t]

Loaded(i, contract, reader, notes) == [interface |-> i, contract |-> contract, reader |-> reader, notes |-> notes]

\* _finish: the contract of a document, or a rejection.
Finish(doc, identity, contract, reader, notes, next) ==
  IF doc = Absent THEN Exit(EXIT_UNAVAILABLE) /\ UNCHANGED source
  ELSE IF doc = Bad \/ Reading(doc, identity) = Bad \/ args.module \notin {Absent, Reading(doc, identity).name}
  THEN Exit(EXIT_REJECTED) /\ UNCHANGED source
  ELSE Step(next) /\ source' = Loaded(Reading(doc, identity), contract, reader, notes)

\* load_ast: the file is read once, and has no contract text.
LoadAst ==
  /\ pc = "ast"
  /\ Finish(LidlJson(held, FALSE), args.identity, Absent, Absent, <<>>, "check")
  /\ UNCHANGED <<loading, info, text>>

ToolFound == args.tool = "installed"

\* load_lidl: the tool is looked for first, and the text is read before it runs.
ReadLidl ==
  /\ pc = "lidl"
  /\ IF ToolFound /\ held # Absent
     THEN Step("json") /\ text' = held
     ELSE Exit(EXIT_UNAVAILABLE) /\ UNCHANGED text
  /\ UNCHANGED <<loading, info, source>>

\* lgx refuses the package, or takes too long, or the package carries no contract of the module.
PackageFails == Exit(EXIT_REJECTED) \/ Exit(EXIT_UNAVAILABLE)

\* load_lgx: the package is verified and its contract extracted, then read like a file.
ExtractLgx ==
  /\ pc = "lgx"
  /\ IF ToolFound /\ held # Absent
     THEN (PackageFails /\ UNCHANGED text) \/ (Step("json") /\ text' = held)
     ELSE Exit(EXIT_UNAVAILABLE) /\ UNCHANGED text
  /\ UNCHANGED <<loading, info, source>>

\* The file that the tool parses: the user's own, or a temporary copy of the text.
ParsedText == IF args.kind = "lidl" THEN held ELSE text

\* The tool reads the text otherwise than the bridge: a note says so, and no more.
ReadersDiffer(i) ==
  /\ args.kind = "bridge" /\ args.identity
  /\ info.interface_sha256 \notin {Absent, Digest(i)}
ReaderNotes(doc) ==
  IF doc \notin {Absent, Bad} /\ Reading(doc, FALSE) # Bad /\ ReadersDiffer(Reading(doc, FALSE))
  THEN <<"readers differ">> ELSE <<>>

RunLidl ==
  /\ pc = "json"
  /\ \/ LET doc == LidlJson(ParsedText, args.identity)
        IN  Finish(doc, FALSE, text, "lidl", ReaderNotes(doc), IF args.kind = "bridge" THEN "check" ELSE "fmt")
     \/ Exit(EXIT_UNAVAILABLE) /\ UNCHANGED source  \* the tool fails, or takes too long
  /\ UNCHANGED <<loading, info, text>>

Formatted == ParsedText \in Canonical /\ ParsedText = text

RunFmt ==
  /\ pc = "fmt"
  /\ LET doc == LidlJson(ParsedText, FALSE)
     IN  \/ /\ doc \notin {Absent, Bad} /\ Step("check")
            /\ source' = [source EXCEPT !.notes = IF Formatted THEN @ ELSE Append(@, "fmt")]
         \/ doc = Bad /\ Exit(EXIT_REJECTED) /\ UNCHANGED source
         \/ Exit(EXIT_UNAVAILABLE) /\ UNCHANGED source
  /\ UNCHANGED <<loading, info, text>>

\* load_from_bridge: the view of the module first, then its text.
ViewOf(t) == IF t = Absent \/ BridgeAst[t] = Bad THEN Bad ELSE Served(BridgeAst[t])

\* An "ok" view, each of whose further keys may be missing.
WaitForModule ==
  /\ pc = "bridge"
  /\ \/ /\ ViewOf(held) # Bad /\ Step("call")
        /\ info' \in [interface : {ViewOf(held), Absent}, contract_sha256 : {held, Absent},
                     interface_sha256 : {ServedDigest(ViewOf(held)), Absent}]
     \/ Exit(EXIT_UNAVAILABLE) /\ UNCHANGED info  \* no connection, pending too long, or not "ok"
  /\ UNCHANGED <<loading, text, source>>

\* AcceptText, had the hash of the text not been compared with the view's.
AcceptAny(answer) == TRUE
\* The text must hash to the view's contract_sha256, if the view has one.
AcceptText(answer) == info.contract_sha256 \in {Absent, answer}

CallLidl ==
  /\ pc = "call"
  /\ \/ /\ held # Absent
        /\ IF AcceptText(held)
           THEN text' = held /\ IF args.tool = "broken" THEN Exit(EXIT_UNAVAILABLE)
                                ELSE Step(IF args.tool = "missing" THEN "served" ELSE "json")
           ELSE Exit(EXIT_REJECTED) /\ UNCHANGED text
     \/ Exit(EXIT_REJECTED) /\ UNCHANGED text     \* not a string
     \/ Exit(EXIT_UNAVAILABLE) /\ UNCHANGED text  \* the call fails
  /\ UNCHANGED <<loading, info, source>>

\* Without a tool, the served interface: the bridge's own reading, identity methods included.
UseServed ==
  /\ pc = "served"
  /\ Finish(info.interface, args.identity, text, "bridge", <<"served">>, "check")
  /\ UNCHANGED <<loading, info, text>>

-------------------------------------------------------------------------------
(* Generating *)

\* The text, and the lines of it that say where it comes from.
GeneratedText(command) ==
  [body |-> IF command = "python" THEN PythonText(source.interface, source.contract, args.className, args.renames)
            ELSE MarkdownText(source.interface, args.renames),
   provenance |-> <<args.kind, source.reader>>]

CheckAndName ==
  /\ pc = "check"
  /\ LET i == source.interface
         names == Naming(i, args.className, args.renames)
     IN  IF ~Legal(i, args.allow) THEN Exit(EXIT_REJECTED) /\ UNCHANGED output
         ELSE IF args.command = "digest"
         THEN /\ Exit(IF args.digest = "contract" /\ source.contract = Absent THEN EXIT_UNAVAILABLE ELSE EXIT_OK)
              /\ UNCHANGED output
         ELSE IF names # "ok" THEN Exit(IF names = "usage" THEN EXIT_USAGE ELSE EXIT_REJECTED) /\ UNCHANGED output
         ELSE IF args.command = "python" /\ Unmapped(i) /\ ~args.allow
         THEN Exit(EXIT_REJECTED) /\ UNCHANGED output
         ELSE Step(IF args.check THEN "compare" ELSE "write") /\ output' = GeneratedText(args.command)
  /\ UNCHANGED <<loaded, source, target, tmp>>

\* --check: a missing or unreadable file has drifted as well.
Compare ==
  /\ pc = "compare"
  /\ LET Same == /\ target.body = output.body
                 /\ args.strict => target.provenance = output.provenance
     IN  Exit(IF args.output = "-" THEN EXIT_USAGE
              ELSE IF target \in {Absent, Bad} THEN EXIT_DRIFT
              ELSE IF Same THEN EXIT_OK ELSE EXIT_DRIFT)
  /\ UNCHANGED <<loaded, source, output, target, tmp>>

\* OpenTmp, had the target itself been opened.
OpenTarget ==
  /\ target' = Partial /\ tmp' = output
OpenTmp ==
  /\ tmp' = Partial /\ UNCHANGED target

Write ==
  /\ pc = "write"
  /\ IF args.output = "-" THEN Exit(EXIT_OK) /\ UNCHANGED <<target, tmp>> ELSE Step("fill") /\ OpenTmp
  /\ UNCHANGED <<loaded, source, output>>

Fill ==
  /\ pc = "fill"
  /\ Step("replace") /\ tmp' = output
  /\ UNCHANGED <<loaded, source, output, target>>

Replace ==
  /\ pc = "replace"
  /\ Step("written")
  /\ target' = tmp /\ tmp' = Absent
  /\ UNCHANGED <<loaded, source, output>>

\* An OSError of any of the three: the temporary file is removed, if that works.
WriteFails ==
  /\ pc \in {"write", "fill", "replace"} /\ args.output # "-"
  /\ Step("failed")
  /\ tmp' \in {Absent, tmp}
  /\ UNCHANGED <<loaded, source, output, target>>

\* The process says how the writing ended.
Report ==
  /\ \/ pc = "written" /\ Exit(EXIT_OK)
     \/ pc = "failed" /\ Exit(EXIT_WRITE)
  /\ UNCHANGED <<loaded, source, output, target, tmp>>

-------------------------------------------------------------------------------
(* The environment *)

Change ==
  /\ exit = "running" /\ changes < MaxChanges
  /\ \E t \in DOMAIN Ast \cup {Absent} : t # held /\ held' = t
  /\ changes' = changes + 1
  /\ UNCHANGED <<args, pc, info, text, source, output, target, tmp, before, exit>>

Kill ==
  /\ exit = "running"
  /\ pc' = "done" /\ exit' = "killed"
  /\ UNCHANGED <<args, held, changes, info, text, source, output, target, tmp, before>>

Finished == pc = "done" /\ UNCHANGED vars

Next ==
  \/ Parse \/ LoadAst \/ ReadLidl \/ ExtractLgx \/ RunLidl \/ RunFmt
  \/ WaitForModule \/ CallLidl \/ UseServed
  \/ CheckAndName \/ Compare \/ Write \/ Fill \/ Replace \/ WriteFails \/ Report
  \/ Change \/ Kill \/ Finished

Spec == Init /\ [][Next]_vars

-------------------------------------------------------------------------------
(* Properties *)

(* A module that was written can be imported and says what the contract    *)
(* says: no class, attribute, method or parameter has the name of another, *)
(* and the shape read back builds.  A contract that uses a name which the  *)
(* module imports for itself is excepted: escape() does not know those.    *)
Importable ==
  exit = EXIT_OK /\ args.command = "python" /\ ~args.check => Imports(output.body)

\* A served interface whose view had no digest of the text was never held against the text.
Vouched == source.reader = "bridge" => info.contract_sha256 # Absent
ReadBy(reader, t) == IF reader = "bridge" THEN BridgeAst[t] ELSE Ast[t]

OfItsText ==
  Vouched => Digest(source.interface) = Digest(Reading(ReadBy(source.reader, source.contract), FALSE))

ReadersAgree ==
  /\ args.kind = "bridge" /\ args.identity /\ source.notes = <<>>
  /\ info.contract_sha256 # Absent /\ info.interface_sha256 # Absent
  => Digest(source.interface) = ServedDigest(ViewOf(source.contract))

(* The contract digest and the interface of a loaded contract are of one   *)
(* text, whatever was published between the view, the call and the tool;   *)
(* and unless a note says otherwise, the bridge reads that text as the     *)
(* tool does, if its view says how it was read.  (A file that is edited    *)
(* while the tool runs is another matter, and so is a view without         *)
(* contract_sha256 where there is no tool to read the text.)               *)
TextMatchesInterface ==
  source # Absent /\ source.contract # Absent /\ args.kind # "lidl" => OfItsText /\ ReadersAgree

(* At every step the output file holds what it held before or the whole    *)
(* new text, wherever the process is killed.  A run that says it wrote it  *)
(* did, and one that reports an error has left the file alone.             *)
TargetIsWhole ==
  /\ target \in {before, output}
  /\ exit = EXIT_OK /\ output # Absent /\ ~args.check /\ args.output # "-" => target = output
  /\ exit \notin {"running", "killed", EXIT_OK} => target = before
===============================================================================
