# TLA+ specifications of logos-json-rpc-bridge-py

`logos_bridge` is a Python client for the JSON-RPC bridge of a Logos node: one
WebSocket carries calls, subscriptions and events between the client and the
bridge. This directory holds TLA+ models of the client, the TLC configurations
that check them on small instances, and TLAPS proofs of what matters most. Paths
below are relative to `src/src/logos_bridge/`.

## The system

### Parts, their state and how they interact

| part | code | state | operations | interacts with |
|---|---|---|---|---|
| connection lifecycle | `client.py:290-365` | `_state`, `_ws`, `_reader`, `_closed_event`, `_background` | `connect`, `aclose`, `wait_closed` | the WebSocket library; starts and awaits the reader |
| reader | `client.py:367-535` | none of its own | one turn per frame; `_on_disconnect` at the end | settles futures, pushes into streams, changes `_state` |
| request engine | `client.py:524-600` | `_pending`: id to future and timer | `_send_request`, `_expire` | a send task per request; the reader |
| subscriptions | `client.py:436-500`, `745-832` | `_subs`: id to `_SubEntry` (pending, active, doomed, zombie, released, failed) | `subscribe`, `subscribe_many`, `unsubscribe`, `cancel` | the request engine; the reader; the bridge's own table |
| event stream | `subscription.py:45-125` | `_Stream`: items, waiters, end | `push`, `end`, `get` | reader on one side, consumer tasks on the other |
| blocking portal | `portal.py:205-367` | `_PortalCore`: loop, threads, `stopped` | `submit`, `call`, `call_with_timeout`, `stop` | any thread; the loop thread |
| event pump | `portal.py:55-203` | dispatch queue, `PumpHandle` (lock, cancelled, finished) | `pump`, `cancel`, `wait` | loop thread, dispatch thread, any thread |
| blocking client | `sync.py` | lock, closed flag, handles | every client operation through the portal; `on_event`, `close` | portal, pump, async client |
| framing | `_protocol.py` | none | make requests, sort frames | request engine, reader |
| HTTP client | `http.py` | none | one exchange per call | the bridge's HTTP side |
| readiness | `client.py:718-745` | none of its own | `wait_for_module` | discovery at the bridge |
| contracts | `lidl.py`, `compat.py`, `digest.py` | immutable trees | read, validate, embed, compare, digest | dynamic and generated clients |
| sources of contracts | `lidl_sources.py` | none | read a text from a file, a package or the bridge, and its interface through the `lidl` tool | subprocesses, the bridge |
| typed and dynamic access | `typed/`, `dynamic.py` | immutable plans | encode arguments, decode results and events | client, streams |
| code generator | `codegen/` | the output file and its temporary neighbour | name, generate, compare, write | sources of contracts, the file system |
| fake bridge, test support | `testing/` | `FakeBridge`: connections, subscriptions, faults | the bridge's side of the protocol | client over a socket |

### What is hard

* **One loop, many suspended coroutines.** Setting a future does not run its
  task. Between the two, the reader may read another frame, a timer may fire, the
  task may be cancelled, the connection may end. Most of the hazards are in that
  gap.
* **The bridge is asynchronous too.** It registers a subscription, may emit events
  for it, and only then acknowledges it. The client may have given up by the time
  the acknowledgement is read; the id must then be given back.
* **Partial failure.** `subscribe_many` asks for several ids one after the other.
* **Threads.** The portal's loop stops at the end of a lap, whatever has been
  posted meanwhile; the pump is shared by three threads.
* **Three kinds of waiting.** The blocking client waits for a lock of its own, for the
  lock of a handle, which the dispatch thread holds during a callback, and for the loop.
  Callbacks call the client.
* **What was looked at may have changed.** A typed client judges a contract and calls
  later, maybe another build; the generator asks for a text and for its interface in two
  calls; it may be killed while it writes.
* **Names and values cross two conversions.** A contract becomes Python names and back, a
  value becomes JSON and back, each on its own side.
* **Limits.** A stream holds `max_pending` events and ends when one more comes.

### What makes each part correct

* Requests: each is settled once, for a reason that is true, and leaves nothing
  behind; a caller never waits on what nobody will set.
* Subscriptions: a stream that has not ended hears every part of it; events are
  neither lost, duplicated nor reordered before it ends; whatever the client does
  not want any more is given back to the bridge.
* Streams: no wakeup is lost and an event goes to one consumer.
* Lifecycle: the state only advances; whoever is told "closed" finds it true; every
  `aclose()` and `wait_closed()` ends.
* Portal and pump: `stop()` releases every caller; `cancel()` silences the callback;
  callbacks come in order and `finished` last.
* Blocking client: no call blocks for ever; `close()` silences the callbacks, then closes
  the connection, then stops its own portal.
* Contracts and typed access: a client finds the contract it was generated from compatible, and as
  long as the provider is the one it looked at, the two sides take each value for the same.
* Generator: what it wrote is whole, can be imported, and belongs to one text.

`PROJECT.json` lists the hazards of the code at their lines, with the properties
that would catch each.

## The modules

| module | models | check | proof |
|---|---|---|---|
| `RequestContract` | what a caller may rely on: one truthful verdict, in time (abstract) | as a property of `requests` | |
| `Requests` | `_send_request`, deadlines, cancellation, the background send, the reader, `_on_disconnect` | `requests` | `RequestsProofs` |
| `Subscriptions` | subscribe, unsubscribe, cancel, routing, overflow, termination, disconnect; the bridge's table and two FIFO channels | `subscriptions` | `SubscriptionsProofs` |
| `MCSubscriptions` | instances of it for TLC | | |
| `EventFeed` | what consumers of a stream may rely on (abstract) | as a property of `event_stream` | |
| `EventStream` | `_Stream`: push, end, get with and without timeout | `event_stream` | `EventStreamProofs` |
| `Portal` | blocking calls against `stop()`, handle by handle | `portal`, `stop_late_call` | `PortalProofs` |
| `Pump` | `PumpHandle` and the dispatch thread | `pump` | `PumpProofs` |
| `Lifecycle` | `connect`, `aclose`, `wait_closed` | `lifecycle`, `connect_abandoned` | `LifecycleProofs` |
| `SyncClient` | `BridgeClient`: `on_event`, `close`, `cancel`, calls, from threads and from callbacks | `sync_client`, `sync_deadlock` | `SyncClientProofs` |
| `JsonValues` | what stands for a missing value and for an unreadable one | | |
| `Lidl` | the contract model as functions: reading, validity, identity methods, shape, digests, signatures | under `codegen`, `typed_client` | |
| `Codecs` | the typed runtime as functions: codec of each type, plans, bytes tag, rejection | under `codegen`, `typed_client` | |
| `Generator` | the code generator as a function: names, generated module, its import | under `codegen` | |
| `Codegen` | one run of `logos-bridge-codegen`: sources, tools, `--check`, writing | `codegen` | `ContractProofs` |
| `Readiness` | `wait_for_module`: polling, pauses, deadline, discovery, replacement | under `typed_client` | `ContractProofs` |
| `TypedClient` | the compatibility check, calls and events of generated, dynamic and untyped clients on top of `Readiness` | `typed_client` | |
| `MCContracts`, `MCCodegen`, `MCTypedClient` | contracts and command lines for TLC | | |

`Lidl` and `Readiness` extend `JsonValues`, `Codecs` extends `Lidl`, `Generator` extends `Codecs`, and `TypedClient` extends
`Codecs` and `Readiness`. `Codegen` extends only `JsonValues`: what is read from a text and made of a contract are constant
operators of it, to which `codegen.cfg` gives the functions of `Lidl` and `Generator`. So TLC runs the real functions,
and the proofs about `Codegen` hold whatever they compute.
`RequestContract` and `EventFeed` are abstract specifications that `Requests` and `EventStream`
implement. `SyncClient` takes the portal and the pump as `Portal` and `Pump` show them.

The modules follow the code in one way: an action is what one task or one loop
callback does between two awaits, or what one thread does between two accesses to
shared state. The map in `PROJECT.json` names the lines of each definition. Operators such
as `ArriveOneMore` or `DialledUnchecked`, each placed before the definition it
imitates and introduced by "had it ...", are variants of that definition with a
plausible mistake. No specification uses them; each makes one property fail when it is put in
place of the original.

**Requests.** `task` is the coroutine (suspended in `asyncio.wait`, then in
`await pending.future`), `future` and `timer` are the fields of `_Pending`, `pending` is the table, `send`
the send task, `interrupted` the tasks whose `cancel()` has not been delivered yet. `inbox`
holds the frames that are on their way; `link` is the socket. The bridge may answer a
request twice. A request id is never reused in the code (`itertools.count`), so a request and its id are
one model value. The frame itself is left out; the check of its size is the choice of `Start` between the
request and `too_large`.

**Subscriptions.** `entry` is `_SubEntry.state`, `routed` the keys of `_subs`, `ask`
and `release` the `rpc.subscribe` and `rpc.unsubscribe` requests of an id (the engine below them
is `Requests`). The bridge side is `held`, `ackDue` and `emitted`: the bridge registers an id when it reads
the request and answers a turn later, as `testing/_fake.py` does and the tests expect, and the events it emits
in between overtake the acknowledgement. `read` and `emitted` count the events, so
that a queue with a gap or a swap differs from one without. A `subscribe()` that fails gives back, in one step,
what the bridge acknowledged and what it may still acknowledge (`Abort`).

**EventStream.** `waiters` is `_waiters`; `waiter[g]` is the future of consumer `g`;
`due` says that its deadline has passed, which the loop's timer may precede a little.

**Portal.** `ready` is the loop's queue of handles and `batch` how many of them belong
to the current lap. The stop flag is looked at between laps, as `run_forever()` does. After it come the
cancellation of the remaining tasks, their gathering, `DrainLaps` laps and the
closing of the loop, which drops whatever is still in the queue.

**Pump.** `run` is the coroutine on the loop, `runner` the dispatch thread, `canceller` the
`cancel()` call of each of the three threads. The handle's lock is held while a
callback runs; it is reentrant, so a callback may cancel its own handle.

**Lifecycle.** `opener`, `closer` and `waiter` are the tasks in the three operations;
`socket` is the WebSocket with its closing handshake. It leaves out the frames
(they belong to `Requests` and `Subscriptions`). The reader is taken to have made its
first step before it can be cancelled: an earlier cancellation needs the loop itself to be torn down.

**SyncClient.** `step` is where a thread is in the method it runs, `lock` the owner of
`BridgeClient._lock` when it waits while it holds it (only `on_event()` does, in `sync.py:330`), `running` the handle
whose callback runs, and thereby the owner of that handle's lock. The portal is reduced to `stopped`, `loopOver` and
the dispatch queue. Left to `Portal` and `Pump`: the race of a call with `stop()`, and the jobs of one
pump. The joins of the threads have no timeout here. In `sync_client` a callback does not want the client's lock before
`on_event()` has returned its handle; `sync_deadlock` drops that.

**Lidl, Codecs, Generator.** Functions, written from the code that computes them. A JSON document is a tree
whose keys hold a value, `Absent`, or `Bad` (another JSON type); a digest is the document itself, so that equal digests
mean equal documents. Integers have `IntBits` bits instead of 64, and the bounds are those of the code at that width.
A Python name is a sequence of words. Layout, docstrings, annotations and
descriptions are left out.

**Codegen.** `pc` walks through `codegen/cli.py`; `held` is what the location (file, package or
module) holds, which changes at most `MaxChanges` times between steps. Tools, bridge and file system may fail at
each use; `Kill` may come at any step, also between the replacing of the file and the exit status (`Report`). `Reading`, `Identified` and `Served` are what the reader, the tool and the bridge make of a
text, `Naming`, `PythonText` and `MarkdownText` what the generator makes of the contract. A refusal is a value
of these functions, or a step of its own where it depends on the outside. `Ast` is what the tool reads from a text and `BridgeAst` what
the bridge reads from it; for one text of the instance they differ. `info` is the view, each of whose keys `interface`, `contract_sha256` and
`interface_sha256` may be missing; those that are there are true.

**Readiness.** `wait` is the loop of `wait_for_module()` in units of 50 ms: a request takes up to `MaxRoundTrip` of
them or fails, a pause doubles up to ten and is cut at the deadline. `view` is the `ModuleInfo` received last; `build` and `status` are
what the bridge would answer now.

**TypedClient.** Each step of `Readiness`, and with it `report`, the verdict on the view, and `call`, one call or event from
encoding to decoding. What `Readiness` promises therefore holds of it. The provider is that of `testing/_provider.py`. It is taken to send all parameters of an event, to declare
true digests and to resolve the names it serves live.

## The runs

| run | shows | instance | distinct states |
|---|---|---|---|
| `requests` | `NoOrphanedWaiter`, `NothingLeaks`, `FirstAnswerWins`; it implements `RequestContract`, liveness included | two requests, one with a deadline, two answers each | 370,000 |
| `subscriptions` | a live stream is routed, its events are in order and complete, a termination comes after them, no id is orphaned, `unsubscribe()` is acknowledged, a disconnect reaches all, an unwanted id does not stay registered | one stream of two parts, a queue of one, two events of the first part | 436,000 |
| `event_stream` | no lost wakeup, no stale waiter; implements `EventFeed` | two consumers, one timed, queue of two, three events | 11,000 |
| `portal` | `stop()` ends calls and leaves no task, outcomes are true, a timeout ends its coroutine | two calls, one timed | 18,500 |
| `pump` | a cancelled handle is silent, order, `finished` last, queued callbacks still run | two items, three cancelling threads, `stop()` | 159,000 |
| `lifecycle` | the state only advances, "closed" is true, no socket without a reader, nothing runs after `aclose()`, everyone is released | two openers, two closers, one waiter, one background task | 3,900 |
| `sync_client` | no call blocks for ever, `close()` silences and goes in its order | two threads and the dispatch thread, two handles, one event each | 185,000 |
| `codegen` | what was written is whole, importable and of one text | 29 command lines, thirteen texts, two readers, one change, three earlier files | 230,000 |
| `typed_client` | `wait_for_module()` ends in time, the own contract is compatible, typed calls and events agree with the build that was looked at, and results have the declared type whatever build answers | seven builds, five clients, one replacement, values nested once | 321,000 |

The bounds. Two requests suffice for every interaction of the engine, since two
requests share only the table, the connection and the order of frames; the proofs remove this bound. Two parts are
needed for partial failure and for an overflow that ends a part which is still being
asked for; a queue of one makes the overflow happen on the second event. Both parts can be terminated, but only the
first emits: the parts of a stream share its queue and are asked for in order, so what an event does to a
part that is still pending shows on the first. Two consumers are
needed for one to take the event that woke the other. Two calls are enough to have one in each position relative to
the last lap. Two closers and two openers are what the
states of the client tell apart. In `sync_client` one thread opens and one closes while the dispatch thread does both,
cancels and calls: each pair of methods meets, and a second handle is needed for `on_event()` to prune the first.
The texts of `codegen` include each way of being refused (unreadable, not valid, unmappable) and each collision of
names, and one that the bridge reads otherwise than the tool. The builds of `typed_client` include one that differs in
nothing the comparison looks at, one that differs in names only, one in the type of a field, one in a result, one with
every type there is and one that is no contract; three bits leave integers on both sides of each bound. `MaxAnswers`,
`MaxEvents`, `MaxItems`, `MaxChanges`, `MaxReplacements`, `MaxChecks`, `MaxRoundTrip` and `Depth`
are the counters with a bound; each appears in a guard or in the set of sample values.
Deadlock is checked in `codegen`, which ends in a state that repeats. It is not checked elsewhere: those systems come to
rest once their calls have returned and their connection has ended, and a typed client may stop asking.

### Where the code departs from its documentation

| run | what it shows |
|---|---|
| `stop_late_call` | a blocking call checked before `stop()` and posted after the last lap is never ended |
| `connect_abandoned` | a `connect()` cancelled while it discards its socket leaves `wait_closed()` waiting for ever |
| `sync_deadlock` | when `close()` of another thread falls into `on_event()`, the latter cancels its handle under the client's lock; the callback of that handle, if it calls `close()` or `on_event()`, and `on_event()` wait for each other |

The passing runs of the same modules contain these behaviours: `EveryoneIsReleased`,
for instance, excepts an abandoned `connect()` by name and says nothing weaker of all others.

Smaller departures, met while the code was translated; the models have the behaviour of the code, and
no run is spent on them:

* `unsubscribe()` (`subscription.py:206`, "Idempotent"): a second call returns at once, before the bridge has
  acknowledged the first (`client.py:815`).
* `aclose()` (`client.py:338`, "Idempotent"): a second call on a connecting client returns before the client is closed
  (`client.py:350`). A second `BridgeClient.close()` returns before the first is done, and `close()` does not wait for a
  callback that cancelled its own handle and was dropped from the list.
* `finished` (`portal.py:146`, "no callback is queued"): set at once when the portal was stopped, although callbacks
  queued before still run (`portal.py:165`). A job put behind the exit sentinel, or a pump that never made its first
  step, never sets it.
* Generated names (`codegen/naming.py:5`): "one the generated code already uses, gets a trailing `_`". `escape()`
  (`naming.py:69`) knows keywords and reserved members, not the names the module imports for itself. A field
  `_dataclasses` before another field hides the import that the next field needs (`python.py:297`), and importing the module raises
  `AttributeError`; `compile()` does not see it. `Importable` excepts such a contract by name (`Shadows`).
* `compat.require()` takes names that the expected contract does not have (`compat.py:103`).
* `lidl.py:412` reads a return without its raw keys, so that the rule about derived keys never applies to returns.
* The test for results that look like a refusal (`typed/_codecs.py:552-570`) misses types decoded as `any` because this version
  does not know them, and records with further optional fields; `TypedCallsAgree` excepts the former by name, the
  instance has none of the latter.
* The shape drops the `optional` of a parameter of type `?any`, so that the contract read back asks for it.
* Two parameters `timeout` and `timeout_` of a dynamic method get one Python name.
* `load_from_bridge` (`lidl_sources.py:398`: "the text must hash to `contract_sha256`") compares only when the view has that
  key (`lidl_sources.py:414`; it is optional in `models.py:149`). For a view without it, where there is no `lidl` tool
  either, a text that was published after the view is taken with the interface that was served before it, and the contract digest in the
  generated file is not that of its interface. `TextMatchesInterface` excepts this case by name (`Vouched`). With a tool
  the text that was read is the one that is parsed, whatever the view says.
* Where the bridge and the tool read one text differently, the generator goes on with the tool's reading and writes a note (`lidl_sources.py:436`).
* The generator may be killed after it has replaced its output file: the new text is there, and no exit status says so.
* The generator's temporary file has one name per target: two generators at once share it. `load_lidl` digests the
  text it read and lets the tool read the file again. `--check` of a file that is not UTF-8 ends with status 70.

### Fairness

* `Requests`, `Subscriptions`, `EventStream`, `Lifecycle`: weak fairness of every step of a
  task or a timer that is ready (asyncio runs its ready queue in order, so a handle that stays ready is
  run) and of the reader, which is such a task. Nothing is assumed of callers.
* `Requests` assumes nothing of the bridge or of the socket: a send may hang, an answer may
  never come. That is why the contract promises a verdict only to calls with a deadline and after the
  end of the connection.
* `Subscriptions` assumes, for `UnwantedIsReleased`, that the bridge reads and answers what it receives while the link
  is up.
* `Lifecycle` assumes that a dial ends (`open_timeout`, 10 s) and that a
  connection whose close frame was sent ends (`close_timeout`, 5 s, or the keepalive); these are the defaults of
  `AsyncBridgeClient`. An open connection may stay open for ever.
* `Portal`, `Pump` and `SyncClient`: weak fairness of each thread's next step (threads are
  scheduled), and a user callback returns.
* `TypedClient`: a status request is answered or fails, and a timer fires. Discovery at the bridge need not end.
* `Codegen` states no fairness: it has only safety properties.

## What is proved

`tlapm` checks the theorems for every value of the constants.

**`RequestsProofs`** (any set of requests, any of them with a deadline, any number of
answers). The inductive invariant is

    RInv == TypeOK /\ Shape /\ Reasons /\ First

`NoOrphanedWaiter` and `NothingLeaks` are not inductive alone. A response removes an
entry from the table; that this cannot strand a caller needs the link between the phase of
the coroutine, its future and its entry (`Shape`). That a verdict is true needs the origin
of each settled future and of each frame (`Reasons`). That the first answer wins needs the order of the
frames still to be read: as long as a request is in the table, its first frame in `inbox` is
the first answer the bridge gave (`First`). Each action has a step of its own in the
lemmas about `RInv`. From it follow `RequestsTypeCorrect`, `NoOrphanedWaiterHolds`,
`NothingLeaksHolds`, `FirstAnswerWinsHolds`, and `RequestsImplementContract`: the initial
state maps to one of `RequestContract`, and every step to a step or a stutter.

**`EventStreamProofs`** (any set of consumers, limit and number of events). The
invariant is `SInv == TypeOK /\ Futures /\ NoLostWakeup /\ NoStaleWaiter`. A wakeup can be
lost only if a sleeper is not in the list, so the first property needs the second; both need
`Futures` (a consumer has a future exactly while it is suspended). `WakeAll` and `LeaveClean`
say what the two helpers establish. From it follow the three invariants and
`EventStreamImplementsFeed`.

**`LifecycleProofs`** (any number of tasks in each operation). The invariant is
`LInv == TypeOK /\ Stages /\ Dials /\ Closers`: which socket and reader go with which state, that the
task that dials is alone and holds the only socket, and what each caller of `aclose()` waits
for. `ClosedIsOver` needs the second, since the task that gives up a dial marks the client closed without
looking at the reader; `NothingRunsAfterAclose` needs the third. From it follow the type theorem,
`ClosedIsOverHolds`, `NothingRunsAfterAcloseHolds` and, for
the steps, `StateOnlyAdvancesHolds`.

**`SubscriptionsProofs`** (any streams of any parts, any queue limit, any number of
events). The invariant has three layers, each of which uses those before it.

    ClientInv == TypeOK /\ \A s \in Stream : StreamInv(s)
    WireInv   == RequestsOnce /\ DeadLink /\ \A e \in Sid : PartWire(e)
    OrderInv  == (\A e \in Sid : Tallied(e)) /\ \A s \in Stream : ToldAll(s)

`ClientInv` is about the client alone. That a stream handed out has all its parts active (`LiveStreamsAreRouted`)
needs the order in which `subscribe()` asks for them (`InTurn`): those before the current one are settled, those after
it have left no trace. `WireInv` relates the client's entries to the bridge's table and to the frames on their
way. `NoOrphan` alone is lost when a frame is read: a part that was refused, terminated or unsubscribed is no longer
accounted for by the client, so the bridge must not have it any more, nor get it later. So `PartWire` says which frames are the last
word about an id (`Final`) and where `unsubscribe()` stands with each of its requests (`Gathered`), and `RequestsOnce`
that an id is asked for once and released only after that. `OrderInv` counts the events of a part that were taken, queued and are on their way,
and says that up to a termination the ones on their way continue the queue. From the layers follow `TypeCorrect` and
`RoutedWhileLive`, `NothingOrphaned` and `UnsubscribeIsTrue`, and `EventsInOrder`.

**`PumpProofs`** (any number of items). In `PumpInv`, `Guarded` is the use of the handle's lock and flag and
gives `CancelledIsSilent`; `Feed` and `Closing` are what the coroutine has still to queue and what stands behind
the job that sets `finished`; `InOrder` and `Covered` say that up to the exit sentinel the queue continues what the dispatch
thread has taken, and reaches what was posted, or what was posted when `stop()` began. `ItemsInOrder` and `FinishedAtTheEnd`
follow. Since `cancel()` empties no queue, the last two are said of pumps that were not cancelled.

**`PortalProofs`** (any set of calls). All properties of the portal come down to which handles wait for the loop,
and in which order. Four relations (a handle is held, is held once, stands before another, stands within the lap) and
lemmas on what taking a handle and adding one do to them carry the proof. The invariant is `PortalInv == CallInv /\ StopInv`.
`CallInv` pairs each caller with its future and the future with its task and the handles pending for it; a timeout is true
because the cancellation is still queued or the task has had it. `StopInv` is what calls made in time
are owed: their `create` stands before the `stop` handle (`Swept`), so that the teardown sees their tasks (`Torn`) and
the last laps contain their results (`Drained`). From it follow
`TypeCorrect`, `OutcomesAreTrue` and `StopIsComplete`.

**`SyncClientProofs`** (any threads, handles and events). The invariant is `SyncInv == TypeInv /\ OpenInv /\ CloseInv`.
The type is not inductive by itself, because `close()` notes the handle whose callback called it: the dispatch
thread has to be inside one (`Inside`). `OpenInv` says that a handle is opened by one thread; `CloseInv` that one
thread closes, that every opened handle is being registered, in the list, dropped, taken or silent (`Placed`), and that
`close()` has still to see to each handle it took that is not silent (`Pursued`). `TypeCorrect`, `ClosedIsSilent` and
`ClosedInOrder` follow. `CloseSilences` and `ClosesInOrder` compare a moment of `close()` with the
handles that `on_event()` has added before it, which is why both need `Placed`.

**`ContractProofs`** (any contracts, command lines, tools, timeouts and durations of a request). Three invariants, for what
is done with a contract whatever it says.

* `ReadyInv`: a request begins at the deadline at the latest, a pause only where time is left (`Within`). So the last
  answer is at most one round trip late, and the client gives up only then: `DeadlineIsMet`, of `ReadySpec`.
* `WholeInv`: the target is untouched until it is replaced, and then by the whole output; a `--check` never
  comes to the writing. `TargetIsWhole` alone is lost at `Replace`, which moves whatever the temporary file holds, and at `Report`,
  which gives the status. `NeverHalfWritten` follows, with failures of each write and a kill at any step: status 0 means the new
  text and an error status the old one, while a killed run may have left either.
* `TextInv`: the text that is parsed is the text that is kept (for a package and for a bridge), a text that the view vouches for is the one
  it was made for (`Viewed`), and a note is written where the tool's digest is not the view's (`Compared`). `DigestsOfOneText`
  follows, for any two readers, however often the module is published anew in between, and whatever keys the view lacks.

The assumptions are those of the modules: the timed requests, calls or consumers are some of
all, every id is a part of one stream and of no other, `max_pending` is positive, the bounds are natural numbers, and
the names of threads and handles are not the words the models use for "none" and for the exit sentinel. A timeout
is not negative (`_check_timeout` refuses it). `DigestsOfOneText` has one assumption about functions, `ReadingAssumption`: what one reader
prints of its AST has one digest, since the identity methods are added once. It does not say that two readers agree. It is about `Lidl` alone, and TLC
evaluates it for both readings of the thirteen texts of `codegen` with the functions of `Lidl`.
The invariants of these proofs were checked with TLC on the instances of the runs before they were proved.

Only model-checked:

* every liveness property, and the liveness half of `ImplementsContract` and `ImplementsFeed` (fairness and `ENABLED` are
  out of the prover's reach);
* `Importable`, `OwnContractIsCompatible` and `TypedCallsAgree`. They say what the generator, the comparison and the codecs
  compute for every contract. Those are recursive operators over types and contracts: the prover does not take these, and a proof
  would need induction over data. To prove `Importable` of `Codegen` with its parameters would be to assume it.
* `WaitTerminates` among the liveness properties, for the same reason as the others; what it waits for is bounded by `DeadlineIsMet`.

## What is not modelled

* `_protocol`, `errors`, and the parts of `models` that copy fields: stateless conversions. The models receive
  the frames sorted into answers, events and terminations.
* `_transport`, `http.py`: I/O. A connection is a FIFO channel that may break.
* The lexer and parser of contracts: an external tool, which `Codegen` calls and which may fail.
* `typed/_subscription.py`: adds the decoding of `Codecs` to `get()`, and nothing to its concurrency.
* `testing`: the bridge side of the protocol is in `Subscriptions` and the provider in `TypedClient`; injected faults,
  limits and slow readers of `FakeBridge`, the conformance suite and the live harness are not modelled.
* Wall-clock time, but for the deadline of `wait_for_module()`: a deadline may pass at any moment after it is set.
* The layout of generated text, docstrings and messages.

## The plan

Done: `RequestContract`, `Requests`, `RequestsProofs`, since every other part rests on the request engine;
`Subscriptions`; `EventFeed`, `EventStream`, `EventStreamProofs`; `Portal`, `Pump`; `Lifecycle`, `LifecycleProofs`;
`SyncClient`; `JsonValues`, `Lidl`, `Codecs`, `Generator`; `Codegen`; `Readiness` and `TypedClient`.

Proved besides: `SubscriptionsProofs`, `PumpProofs`, `PortalProofs`, `SyncClientProofs`, `ContractProofs`.
Every safety property that a run checks is now a theorem, but for `Importable`, `OwnContractIsCompatible` and
`TypedCallsAgree`.

Models to come: an abstract bridge that both `FakeBridge` and the bridge side of `Subscriptions` implement, with its
limits and faults; an abstract portal that `Portal` implements and that `SyncClient` uses by name.
