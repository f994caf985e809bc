# A TLA+ model of matter2mqtt

matter2mqtt joins a Matter fabric to MQTT. A Go program (the *bridge*) keeps a
websocket session with python-matter-server and mirrors the fabric onto retained
MQTT topics; it also serves a web console. A set of Node-RED nodes (`nodered/`)
reads that retained tree and sends requests back. What is hard about it is that
the truth lives elsewhere (in matter-server) and is seen through connections that
come and go, while what is published stays: a retained message outlives the
process that wrote it.

These modules model the parts that keep state, check them with TLC on small
instances, and prove with TLAPS that the safety properties hold in every instance.

## 1. Inventory

Paths are relative to the repository's root.

| Part | State | Operations | Made right by |
|---|---|---|---|
| Names, `naming.go` | `resolved`, `byName` | `Recompute`, `Collisions`, `Name`, `Lookup`; `resolveNode` in `bridge.go` | keys distinct up to case; a key addresses its device; keys move for a reason; whoever moves is reported |
| Bridge, `bridge.go` | `nodes` (cache), `topics` (what is retained, per node), `mc`, the retained tree at the broker | `Run`, `session`, `handleEvent`, `publishNode`, `publishAttribute`, `refreshNames`, `clearNode`, `markAllUnavailable`, `onBridgeRequest`, `connectMQTT` | the retained tree is the fabric once the bridge has caught up; nothing older overwrites something newer; what is retained is remembered, and cleared when it goes |
| Websocket client, `matterws.go` | `pending`, `writeCh`, `Events`, `done`, `err`, `closeOnce` | `Dial`, `Call`, `readPump`, `writePump`, `closeWith`, `Close` | answers go to their calls; nothing leaks; the end reaches everybody, with a reason |
| Console, `httpserver.go`, `web/index.html` | a channel per open page; the page's copy of the nodes and the status | `handleNodes`, `handleEvents`, `broadcast`; `init`, `loadNodes`, `connectEvents`, `applyAttribute`, `setStatus` | a page that has caught up shows the cache |
| Node-RED connection and registry, `matter2mqtt-broker.js`, `registry.js` | `devices`, `attributeHandlers`, `subscribedNodes`, `statusHandlers`, `responseHandlers`, `connected` | `connect`, `close`, `message` callbacks, `subscribeNode`, `subscribeResponses`, `applyMeta`, `lookup` | the registry refills; subscriptions last as long as they are needed |
| in nodes, `matter2mqtt-in.js` | `boundNodeId`, the handler, the last value | `refresh`, `onAttribute`, `close` | bound to the device of its name, whatever happens to the name |
| out nodes, `matter2mqtt-out.js` | `pending`, timers, `seq` (request mode only) | `sendRequest`, `onResponse`, the timer, `close` | each request ends once, with its own answer |
| Data model, `model.go` | names of clusters and attributes, and their reverse maps, loaded once | `LoadModel`, `ClusterName`, `AttributeName`, `NamePath`, `ResolveCluster`, `ResolveAttribute` | a name leads back to what it names |
| Command topics, console POST routes | none: one message, one command | `onWriteAttribute`, `onDeviceCommand`, `handleCommand`, `handleWrite`, `handleInvoke` | a mirrored topic can be written to; both ask for the same call |
| Requests, `bridge.go` | a goroutine per request | `onBridgeRequest`, `call`, `Invoke` | a success is one; nothing is done twice |
| Configuration, `config.go` | none, read at the start | `LoadDotEnv`, `parseDotEnv`, `LoadConfig` | what was asked for, or no start |
| The process, `main.go`, `Run`, `connectMQTT` | the context, the wait, the broker connection, the last will, what is retained of `bridge/` | `main`, `Run`, `OnConnect`, `Start`, `Shutdown`; signals, kills | nobody reads an old `online`; a stop ends |
| device nodes, `matter2mqtt-device.js` | the last snapshot sent | `onChange` | not modelled |
| Scaling, `scale.js` | none | `scale`, `unscale` | not modelled |

How they interact:

- `Run` is one goroutine. It dials, asks for all nodes (`start_listening`),
  publishes the dump, then takes events one by one from the client's `Events`
  channel until it is closed. It alone writes `nodes` and the names.
- `readPump` and `writePump` belong to a session; any goroutine may `Call`.
- paho's callback hands each `bridge/request/<command>` to a goroutine of its own:
  it calls matter-server, publishes the answer and, for `remove_node`, clears the
  node's topics. It shares `topics` with `Run`, under a lock that is not held
  while publishing.
- `publish` drops everything while the broker connection is down.
- paho runs every `OnConnect` in a goroutine of its own, which publishes `online`
  and subscribes to the commands, while `Run` may be in a session, waiting, or
  on its way out.
- `broadcast` puts a message in the channel of every open page, and drops it when
  the channel is full. The page loads nodes with a request of its own.
- Node-RED subscribes to the metadata of every node, feeds the registry, and
  tells every in node, which then looks its device up again.

What is hard to test, and so what the properties are for, is listed line by line
under `hazards` in `PROJECT.json`: events between two sessions, full buffers,
clears racing publications, goroutines that close a channel another one sends on,
late answers, redeployments, names that change hands one topic at a time.

## 2. Modules

| Module | Models | Composed with |
|---|---|---|
| `Naming` | the pure part of `naming.go` | used by `Namer`, `Bridge` |
| `Namer` | the Namer's maps, `resolveNode` | extends `Naming` |
| `Commands` | `model.go`, the command topics, the console's POST routes | extends `Namer` |
| `NamerProofs` | | theorems about `Namer` and `Commands` |
| `Bridge` | `bridge.go`: fabric, session, cache, names, tracked topics, retained tree, requests, broker connection, restarts | extends `Naming`; the client appears as a bounded queue, `alive` and calls that answer or fail |
| `BridgeProofs` | | theorems about `Bridge` and `BridgeMirror`, the refinement included |
| `Mirror` | what the retained tree promises to its readers | abstract specification |
| `BridgeMirror` | the publications of a handler one by one, and the history of the fabric, beside `Bridge` | extends `Bridge`, implements `Mirror` |
| `TrackedTopics` | `publishTracked`, `clearNode`, `markAllUnavailable` at the grain of their lock | the same code as in `Bridge`, one node, finer steps |
| `TrackedTopicsProofs` | | theorems about `TrackedTopics` |
| `MatterClient` | `matterws.go` at the grain of channel operations | implements `RpcSession` |
| `RpcSession` | what a session promises to its callers | abstract specification |
| `MatterClientProofs` | | theorems about `MatterClient`, the refinement included |
| `Console` | `broadcast`, the event stream, the page | the bridge appears as `Handled`, the order of cache and broadcast |
| `ConsoleProofs` | | theorems about `Console` |
| `Flow` | the Node-RED connection, the registry, in nodes | the bridge appears as what it publishes, with the distinct names `Namer` gives |
| `FlowProofs` | | theorems about `Flow` |
| `FlowRequests` | requests from end to end: out nodes, the response subscription, the bridge's goroutines, the session, matter-server | the session is what `RpcSession` promises |
| `FlowRequestsProofs` | | theorems about `FlowRequests` |
| `Config` | `config.go` | operators only |
| `Lifecycle` | `main.go`, `Run`'s loop, `connectMQTT`, the console's start and end, paho and the broker | extends `Config`; a session is what `Bridge` takes apart |
| `LifecycleProofs` | | theorems about `Lifecycle` |

Every `MC*` module only gives the constants values. `Bridge`'s constants are the
configuration (`RetainState`, `PublishNames`), the buffer, and bounds.

### State and actions against the code

`Bridge` — `nodes`, `tracked` and `names` are `b.nodes`, `b.topics` and the
Namer's `resolved`; `events` is `MatterClient.Events`; `phase` says where `Run`
and `session` are (`start`, `backoff`: before `Dial`; `calling`: in
`start_listening`; `answered`: the response has come, not yet decoded; `serving`:
in the select; `ended`: after `session` has returned). One action is one pass of
the select, or one dump, with everything that it calls: `HandleNode` is
`cacheNode`, `refreshNames` and `publishNode`, topics and all. This is
sound against other goroutines but for `topics`, which a request's goroutine
touches as well; `TrackedTopics` takes those calls apart and shows what the
difference is. It is also all at once for the readers of the broker, who in truth
get a dump or a rename topic by topic: for them `BridgeMirror` takes it apart. The
other properties are about what is retained between two handlers, or are kept
by every topic by itself (`NoRegress`). A node has two attributes: its label, and one that stands for all
the others and carries the number of the report it came with, so that old and new
can be told apart. A payload is a record that says what is in it, never a string.

`MatterClient` — an action is one channel operation, one critical section or one
websocket operation. Go's `select` is a choice among what is ready; a send on a
closed channel is ready, and panics. `closeWith` takes two steps, and others wait
in `closeOnce.Do` meanwhile.

`Flow`, `FlowRequests` — JavaScript runs a callback to its end, so a callback is
one action, with the status handlers it calls in their order of insertion. The
packets between client and broker are two queues. A redeployment closes a node
and builds it anew. A full restart is the initial state. `connect` and `close` of
the connection tell the status handlers as well (`emitStatus`), and the model
leaves that out: the in nodes look up what they are bound to already, as `Resolved`
of `FlowProofs` shows. What a callback does to one node after the other, or sends
for one topic after the other, is `Along`: a fold along the indices of a sequence.

`Console` — the bridge's writes to the cache and its broadcasts are separate
steps, since a request for the nodes may fall between them. The page's requests
and its stream are different connections and may overtake each other.

`Commands` — a handler keeps nothing, so it is an operator: the call that it makes
of its message in the state it finds, or `None`. Recompute of the Namer happens
between messages. `LoadModel` ranges over a Go map; where two names are alike,
either may have been entered last, and the initial states have both.

`Config`, `Lifecycle` — a text is an element of a small set and the functions of
`strconv` are functions on it. `LoadConfig` folds the file into the environment
line by line and then checks what came out. `pc` is where the main goroutine is;
`announcing` and `subscribing` count the `OnConnect` goroutines that are before
and between their two calls; `wire` is what paho has been handed and the broker
has not yet taken, of which an unclean end delivers any prefix. The input is
forgotten once the process has started: every start reads the same.

`FlowRequests` — a request is a goroutine of the bridge (`jobs`) from the moment
that the broker has handed it over. matter-server decides on a command whether
the call still waits for it or not. A session that dies fails every call, also
one whose result had arrived and was not yet read.

`BridgeMirror` is `Bridge` for the readers of the broker, where only sessions fail.
What a handler does to the cache, the names and `topics` is one step as before,
since nothing reads them meanwhile; what it publishes it puts into `due`, and each
publication is a step of its own, in the code's order: first the topics to clear, then
the nodes that `refreshNames` publishes again, then the handler's own, nodes and
attributes in any order where the code ranges over a Go map (`Before`, `First`).
`seen` and `heard` are what a reader finds, `doing` is what the Run goroutine is
about, and the fabric, the websocket and the event queue go on meanwhile. The
history says which state is being told (`shown`), which ones came after it
(`ahead`), and how many of them since `start_listening` was answered (`since`).
The refinement reads the tree through `Readable`, which keeps the name of a
descriptor and forgets the rest of it. Old names and removed nodes are cleared
first only in an event's handler; a dump clears nothing, and here has nothing to
clear.

### Environments

Much of what goes wrong in the bridge goes wrong under known conditions, and then
"it is right, except..." is the interesting claim. `Bridge`, `Console` and
`Lifecycle` have a variable `env`, chosen in the initial state and never changed:
the kinds of trouble that this behaviour may meet. An action that makes trouble asks `env`; a
property says with `OnlyMeets` which kinds it allows. A run checks several
environments at once, each for what holds in it.

## 3. Runs

| Run | Instance | Shows |
|---|---|---|
| `names` | three nodes, four labels: two that differ by case, two words, a missing one; every list of labels after every other; two tables, three clusters, three attributes | `NamesDistinct`, `NameAddressesOwner`, `RenamedForAReason`, `RoundTrip`, `OneCodePath` |
| `bridge` | two nodes that share a label, or one alone; two changes, two failures, two events buffered; four environments | see below |
| `mirror` | the same nodes where only sessions fail, publication by publication, with two changes and one failure | `IsMirror`, `EventuallyConverged` |
| `topics` | a node with two attributes, three reports, two sessions, a request that is granted or refused | `UnrequestedLeavesNothing`, `OneOrphanAtMost` |
| `client` | two callers, buffers of one, three frames | `Correlation`, `PendingExact`, `ErrKnown`, `AllEnds`, refinement of `RpcSession` |
| `flow` | two devices, two in nodes (by name in another case, by node id), two events, one loss or redeployment | `RegistryRefills`, `BoundToOwner`, `SubscriptionsKept`, `NoOldValue`, `BindsForGood` |
| `requests` | two out nodes, two requests of one of them, four losses (connections, packets, sessions) or redeployments | `NoneForgotten`, `EndsOnce`, `Correlated`, `SuccessMeansDone`, `AnswersHeard`, `EveryRequestEnds` |
| `console` | two nodes, three events, a channel of one, one lost stream | `PageLive`, `StatusLive` |
| `lifecycle` | two processes, one loss, two packets on the wire, waits of 1, 2 and 3; each key in the environment, on up to two lines of the file, or both, and the console's three in every combination | `TypeOK` (no wait above the cap), `GoneMeansOffline`, `OnlineWhenConnected`, `ConfigEffective`, `StaleTrueCorrected`, `StopEnds` |

The properties of `bridge`, by what the environment may do beside ending and
refusing sessions:

- nothing else: `OneOwner`; in the run `mirror` `IsMirror` (readers are told one
  state of the fabric after the other, to its end and never back, nothing new
  before what is old is cleared; a reader may see half of a state, and does, as
  `Flow` shows for a rename) and `EventuallyConverged` (what readers find comes to
  be the present state, for good);
- changes missed between sessions, events dropped on overflow: `TrackedCovers`,
  `DownMeansOffline`;
- requests, changes missed, restarts: `NumericTreeHeals` (of a node that is on
  the fabric, the numeric tree is right again after every dump);
- anything, failing calls and broker outages included: `TypeOK`, `NamesInSync`,
  `NoRegress`.

Why the bounds are enough. Two nodes are what a collision, a swap of names and a
topic recorded for two owners need; three are only needed for a third name to be
taken, which `names` has. A buffer of one or two events fills with one or two
changes, and every hazard of `hazards` happens within two changes: one that is
missed and one that is seen. Two failures allow a session to fail and the next
one too. In `flow` two events are what a swap needs (a name goes, another comes).
Two callers and one free slot each are what late, duplicated and exchanged
answers need; two requests of one node and a redeployment are what gives one id
to two messages. In `lifecycle` a second process is what finds the will and the
topics of the first, one loss is what lets an `OnConnect` goroutine outlive its
connection, and a wire of two holds the farewell behind a late `online`. The mutants (`mutants` in `PROJECT.json`) show that each property
is within reach of its instance: for every property of a passing run, a plausible
bug in one definition makes TLC refute it.

`TypeOK` of `Bridge` and `Lifecycle` says more than what the types are, and is
checked; those of `Namer`, `MatterClient`, `Flow`, `FlowRequests` and `Console` hold
on the same instances and are kept for the proofs, without a place in the runs
(those of `MatterClient`, `Flow`, `FlowRequests` and `Console` are theorems).

Deadlock is not checked: all of the instances stop when their bounds are used
up. `AllEnds` is the deadlock property of the client: it says what a state looks
like in which no goroutine can go on.

### Disagreements between the code and what it says

Three runs expect a violation (`findings` in `PROJECT.json` quotes both sides):

- `bridge_unseen`: a node removed, or given another label, while no session is
  open keeps its retained topics, or those of its old name. `session` replaces the
  cache and drops what `Recompute` returns. The README promises that the dump
  heals the retained state.
- `client_panic`: `readPump` sends on `Events` after another goroutine has closed
  it.
- `flow_stale`: a name emptied while Node-RED was disconnected stays in the
  registry and hides the device that has the name now. `BindsForGood` therefore
  supposes that in the end no name is stale.

Others were seen while modelling and have no run of their own; the properties or
theorems name the condition under which the promise holds:

- a label that reads like a disambiguated name (`Sensor-4`) takes another node's
  key (`naming.go:78` counts base names only): `NoSuffixClash` in `NamerProofs`;
- global attributes "resolve for every cluster, including ones absent from the
  model" (`README.md:219-220`): `ResolveAttribute` knows names for the clusters of
  the model only (`model.go:145-148`). `HasNamePath` leaves them out, so
  `RoundTrip` does not speak of them; no such topic is mirrored;
- request ids start over when an out node is deployed again (`out.js:33`, 158), so
  the late answer to a request of the closed node may end a new one as a success,
  though the new one's packet was lost; `nodered/README.md:141-145` says that the
  matching reply ends a request and replies to others are ignored.
  `SuccessMeansDone` and `Correlated` except messages whose id another message was
  given; without the exception TLC finds this within the bounds of `requests`;
- a page with an intact stream does not hear of the nodes that a new session's dump
  found changed, removed or added: only the status is broadcast
  (`bridge.go:296-297`, `index.html:709`), against "every node with live
  availability" (`README.md:153`). `PageLive` excepts new sessions; with them TLC
  refutes it;
- a page that lost its stream or a message, or whose request for the nodes was
  overtaken by an event, does not load them again by itself (`index.html:714-719`):
  `PageLive` excepts these too;
- a label that is a decimal number addresses the node with that id
  (`bridge.go:552`): `NoNumericLabel`;
- a `remove_node` request that fails clears the node all the same
  (`bridge.go:660`): hence no failing calls in the environments of
  `NumericTreeHeals`;
- a `remove_node` request for an id that is on no node yet waits for matter-server
  like any other (`bridge.go:654-663`): if the node with that id is commissioned
  meanwhile, its topics are cleared. `NumericTreeIsRight` therefore assumes that
  only nodes known from the start are asked to be removed; its proof does not go
  through without, and the run `bridge` has only such a node in `Removable`;
- a session lost while the broker connection is down is never reported
  (`bridge.go:767`): hence no outages in those of `DownMeansOffline`, and
  `StaleTrueCorrected` allows that a `true` stays until the bridge is heard
  again; a dump published meanwhile is lost as well;
- `clearNode` of a `remove_node` request between the lock and the publication of
  `publishTracked` (`bridge.go:783`): a retained topic that nobody will clear,
  against `README.md:274`. `UnrequestedLeavesNothing` excepts requests, and
  `OneOrphanAtMost` says that this is all there is with one request; each further
  request can cost a further topic;
- a process stopped just as its broker connection opens: `OnConnect` publishes
  `online` between the deferred `offline` and the DISCONNECT, the will is not
  published after a DISCONNECT, and `online` stays on the broker while nothing
  runs (`README.md:31`): the environment `hasty_stop`, which `GoneMeansOffline`
  excepts;
- a process that is stopped leaves `bridge/matter_connected` at `true` and every
  node `online` (`bridge.go:175-177`); only `bridge/availability` tells;
- `MQTT_QOS=256` passes for 0, as the value is cut to a byte before it is checked
  (`config.go:148`, 163); `ConfigEffective` speaks of values that fit a byte;
- "the same rules as compose's env_file" (`config.go:91`): of two lines for one
  key the first wins here, and a variable exported blank hides the file's value
  and then counts as unset itself (`config.go:111`, 191);
- "one code path" (`httpserver.go:20`): an object without a command is refused by
  the console, while over MQTT its text is taken for the name of the command
  (`bridge.go:608-612`); `OneCodePath` leaves such payloads out;
- an answer of failure does not mean that a command was not carried out: it may
  have been, or still be, when the call times out or the session dies.
  `SuccessMeansDone` says what holds: the other direction (but for ids used twice),
  and once only;
- a command sent between the `online` of a connection and its subscriptions is
  lost (`bridge.go:209-210`): `OnlineWhenConnected` waits for the goroutine.

## 4. Fairness

- `BridgeMirror!FairReaders`: the Run goroutine is weakly fair as a whole
  (`RunGoesOn`): it dials, handles, publishes, and dials again for ever, and a call
  of a dead session returns (`done` is closed). Whether a dial succeeds is not
  up to it, but failures are bounded, as are changes: a fabric whose server can never
  be reached promises nothing. matter-server answers `start_listening` in a session
  that lives, by weak fairness as well. `Bridge` itself has no fairness.
- `Flow!Progress` is weakly fair as one action: mqtt.js connects again every five
  seconds, packets arrive in order on a connection that lasts, callbacks run, and
  the bridge goes on with what it has begun. Which step is next is up to the
  queues. Nothing has to happen, nothing has to fail.
- `Lifecycle!Fairness`: the goroutines run; a dial and a call end, by an answer or
  by their timeouts (20 seconds, `MATTER_CALL_TIMEOUT`); waits elapse; paho tries
  the broker again for ever and the broker takes what it is sent. `Exit` is fair
  because `Shutdown` is given three seconds. Nobody has to start or stop the
  process, close a page or let a session fail, except that `ctx` ends a session.
- `FlowRequests!FairSpec`: timers fire, that is all. Broker, bridge and
  connection owe nothing.
- `MatterClient` has no fairness: `AllEnds` is a state property.

## 5. Proofs

For every value of the constants that satisfies the assumptions below, and so for
any number of nodes, callers, requests, events, failures and restarts:

| Module | Theorem | States | Besides the assumptions |
|---|---|---|---|
| `NamerProofs` | `NamesStayDistinct` | `NamesDistinct` | `NoSuffixClash` |
| | `NamesAddressOwners` | `NameAddressesOwner` | `NoSuffixClash`, `NoNumericLabel` |
| | `RenamesHaveReasons` | `RenamedForAReason` | |
| | `TopicsCanBeWritten`, `ConsoleIsMqtt` | `RoundTrip`, `OneCodePath` | `NoSuffixClash`, `NoNumericLabel` |
| `BridgeProofs` | `BridgeTypeCorrect`, `NamesFollowCache` | `TypeOK`, `NamesInSync` | |
| | `ReportsStayInOrder` | `NoRegress` | |
| | `RetainedIsTracked`, `DownIsOffline` | `TrackedCovers`, `DownMeansOffline` | |
| | `NumericTreeIsRight` | `NumericTreeHeals` | `Removable` nodes are there from the start |
| | `TopicsHaveOneOwner` | `OneOwner` | `NoSuffixClash` |
| | `TreeIsTheFabrics` | `IsMirror` | `NoSuffixClash`; no environment but the one where only sessions fail |
| `TrackedTopicsProofs` | `RemovalLeavesNothing`, `OneOrphan` | `UnrequestedLeavesNothing`, `OneOrphanAtMost` | |
| `MatterClientProofs` | `ClientTypeCorrect` | `TypeOK` | |
| | `AnswersAreOwn`, `NothingLeftPending`, `EndHasReason` | `Correlation`, `PendingExact`, `ErrKnown` | |
| | `EndLeavesNobody` | what `AllEnds` says, without `ENABLED` | |
| | `SessionImplements` | `IsRpcSession` | |
| `FlowProofs` | `FlowTypeCorrect` | `TypeOK` | |
| | `RegistryAlwaysRefills` | `RegistryRefills` | |
| | `AlwaysBoundToOwner` | `BoundToOwner` | |
| | `SubscriptionsAlwaysKept` | `SubscriptionsKept` | |
| | `NeverAnOldValue` | `NoOldValue` | |
| `FlowRequestsProofs` | `RequestsTypeCorrect` | `TypeOK` | |
| | `OpenHasTimer`, `DoneOnce`, `AnswersCorrelate` | `NoneForgotten`, `EndsOnce`, `Correlated` | |
| | `SuccessIsDone`, `RequestsAreHeard` | `SuccessMeansDone`, `AnswersHeard` | |
| `ConsoleProofs` | `ConsoleTypeCorrect` | `TypeOK` | |
| | `StatusIsLive`, `PageIsLive` | `StatusLive`, `PageLive` | |
| `LifecycleProofs` | `LifecycleTypeCorrect` | `TypeOK` | |
| | `GoneIsOffline`, `ConnectedIsOnline` | `GoneMeansOffline`, `OnlineWhenConnected` | |
| | `ConfigIsEffective` | `ConfigEffective` | |

The assumptions are the `ASSUME`s of the modules: that sets of names, ids and
markers do not overlap, that bounds are numbers, that the fabrics to start from
are fabrics whose values count from nothing, that an order in which things are
gone through lists each element once, that `strconv.Atoi` gives a number or an
error, and an error of the empty text. TLC evaluates them in every run.
The conditions of the last column are no assumptions about the program: they name
the inputs for which the code does not do what the property says (section 3), so
they are hypotheses of the theorems.

### The arguments

None of the properties is inductive by itself. Each module states the invariant
that is, as a conjunction of named parts, has one lemma per action (and where an
action disturbs several parts, one per part), and ends with the theorems. Every
invariant was checked by TLC on the instance of its run before it was proved.
A proof module extends the module it is about and no other proof module: the lemmas
on disambiguation stand in `NamerProofs` and in `BridgeProofs`, those on folds in
`FlowProofs` and in `LifecycleProofs`.

`NamerProofs` — the two conditions are on labels, not on behaviours: with
`NoSuffixClash` a suffixed key can only equal a suffixed key, and then the
suffixes, which are node ids, differ (`SuffixesDistinct`, `KeysDistinct`). `CommandInv` adds to the
index of keys that the model is one that `LoadModel` can build, whichever order the
Go map was ranged over in: then the reverse maps lead back from every name that no
other cluster or attribute has (`ReverseFinds`, `ClusterFound`, `AttributeFound`), and
the topic of an attribute leads back to it part by part. The console resolves the
same parts, by the same operators, from the path of its request.

`BridgeProofs` builds four invariants on one another:

- `SafeInv == TypeOK /\ NamesInSync`. The two need each other: that a renamed
  node's topics are topics needs the keys to be those of labels, and that the names
  follow the cache needs events of the right type, as one of `value` must leave the
  labels alone.
- `OrderInv`: what is retained of a value is not above the cache's, that not above
  the dump's or any event's on its way, and these not above the fabric's, each event
  not above the next. So whatever a handler publishes is at least what was there.
- `CoverInv`: where the broker connection stays and nothing clears a topic behind
  `Run`, what is retained is tracked, or the `offline` of `markAllUnavailable`; and
  while `Run` waits everything is dark.
- `HealInv`: in a session that lives, the events on their way lead from the cache
  (before: from the dump) to the fabric as it is (`Replay`). When the queue is empty
  the cache *is* the fabric, and `Shown` says that the tree shows the cache. It also
  holds that a request only clears a node that is gone for good (`RequestsLate`).
- `OwnerInv`: the labels that the events lead to are those of the fabric
  (`LeadsToLabels`), also between sessions where nothing may be missed, so a dump
  brings no change of a name that `Recompute` would drop; hence aliases are tracked
  under the present name (`TracksNamed`), and names are distinct.

The refinement of `Mirror` rests on all of these where only sessions fail, and on
`MirrorInv` beside them: what is tracked is exactly the topics of the cached nodes,
and exactly what is retained (`Exact`), so that the tree has nothing that the next
dump would leave behind; in a session the tree shows the cache (`Lit`) and without one
the same tree with its nodes offline (`Marked`); and the events on their way, or the
dump, lead through the recorded history from the state shown to the present one
(`Recorded`).

These are about `retained`, what the broker has once the handler is through. What a
reader has is tied to it by `ReaderInv`: every topic that is not pending in `due` is
seen as it is retained (`Caught`), everything pending says what is retained in the
end (`Telling`), and after a session only `offline`s are pending, of nodes that
have their topics, once `false` is out (`Marking`). So a handler that starts is a
`Begin` or `Lose` of `Mirror` and leaves the tree as it is; a publication is a
`Tell`, whose topic gets what it has in the state told, or a `Mark`; the word on
`matter_connected` is `Connect` or `Disconnect`; and when nothing is pending any more
the whole tree has been `Told`, or `Marked`. What needs care is a topic that is
cleared: it must be nobody's in the next state, or the clearing would be seen
as a gap. That is `NoHandOver`, and for names it rests on `NoKeyMoves`: by one
label, and an event changes no more, no key passes from a node directly to
another, for a key that two nodes would take is suffixed for both. That the cleared
ones are the aliases which the next state does not have (`ClearsMirror`,
`PublishesMirror`) gives the guard of `Tell`. A step of the fabric is a `Change`,
and everything else stutters.

What all handlers have in common is `Handles`: a handler clears only what is
tracked for a node that goes or whose name goes, publishes nothing but what is then
cached or the event says, and what it does not publish has not changed. The lemmas
`HandlersPublish`, `HandlersApply` and `HandlersShow` state it once for the dump and
the three events; `SentShows` and `PayloadShows` say what the broker makes of it.

`TrackedTopicsProofs` — `TrackInv` says what each goroutine holds between its two
critical sections (`TopicsOK`), how far `Run` is behind the fabric (`InStep`), and
who is going to clear what (`Cover`): without a request there is no orphan, with one
the only orphan is the topic that `Run` had recorded and not yet published.

`MatterClientProofs` — `ClientInv` ties the map to the calls (`Registered`: an
entry is a caller between registering and returning, under its id), follows a
command and its answer through the channels, the network and `readPump`
(`Carried`), and says that whoever comes first to `closeOnce` brings an error, as
`readPump`'s deferred nil comes after `readPump`'s own (`Explained`). From it every
step of `MatterClient` is a step of `RpcSession` or stutters; as `RpcSession` has no
fairness, that is all there is to the refinement.

That no goroutine is left behind (`EndLeavesNobody`) needs three facts more, of
which `Ending` consists: somebody who has entered `closeOnce` is in it until it is
through, then both the connection and `Events` are closed, and nobody stops before
`done`. So the reader always finds a dead connection, the others find `done`. The
guards are written out (`CanGo`), since the prover knows nothing of `ENABLED`.

`FlowProofs` — `FlowInv` is about what is under way, in both directions. The last
word on each subscription in the outbox is a SUBSCRIBE, or there is none and the
broker has heard one (`Wanted`, `Assured`): so a node that goes does not take the
subscription of another along. The last message on each topic in the inbox is what
is retained, or there is none and the client shows it (`Heard`, `Told`): so nothing
that a replay overtakes is lost, and an older message is followed by a newer one.
Beside it, an in node is bound to what it would find now (`Resolved`), one that is
not bound has sent nothing (`Silent`), and the names that are not due are retained
(`Published`). When nothing is on its way the four properties are what is left of
these. With a name that was emptied while nobody heard it, `Told` promises nothing:
a retained message that is no longer there is not replayed. That is the condition
`Stale` of `RegistryRefills` and `BoundToOwner`, and the finding of `flow_stale`.

A callback that goes through the in nodes, a replay and a resubscription are folds
along a sequence. The library's induction takes an operator and cannot be used, but
its fact that the numbers are well-founded can: a set of numbers has a least element
(`Least`), so a set that holds 0 and with each index the next holds them all
(`Reaches`), and a fold can be taken step by step (`StepsExist`). There is one lemma
per fold that names its intermediate values (`ForwardSteps`, `ReplaySteps`,
`SubscribeSteps` and so on), and one that says what they have in common: inside a
callback the record that the nodes change one after the other is `Good`, which is
the part of `FlowInv` that a callback can disturb.

`ConsoleProofs` — the invariant is about `Flight`, all that a page has yet to hear: the
wire, its channel and the broadcast at hand. To move a message from one to the next
changes nothing; what counts is where `Flight` leads. The last status in it is that of
the session (`LastStatus`), from the moment that the stream's snapshot is due. Of the
nodes, the last value for each in `Flight` is the cache's unless the page will load the
nodes after it (`LastValue`), and a page that will not load them agrees with the cache
but for the values in `Flight` (`Agrees`). A page that has loaded the nodes may then
hear an attribute older than what it loaded: for a moment it shows an old value, and
the invariant says that a newer one follows.

`FlowRequestsProofs` — `ReqInv` follows a message. Ids are bounded by the messages
given, so that a fresh one is fresh among what the node has open (`Typed`); what is
open has an entry and its timer (`Booked`); whatever carries a command or its answer
carries its id (`Labelled`); a command is in one place at a time (`Once`); and a
SUBSCRIBE is ahead of the requests in the outbox (`Heard`). `Correlated` follows from
`Labelled` without a word about redeployments: an answer has the id of its message,
and finds the entry with that id. `SuccessIsDone` follows in the same way: what
answers a request was carried out (`Once`) and has its id, so it is the request's own
command, or that of another message which was given the id.

`LifecycleProofs` — what counts is not what is retained but what will be when the
packets on the wire have arrived (`Ends`). A broker without a will has received
everything (`Closing`), an open connection whose goroutines are through ends in
`online` (`Greeting`), and after the farewell nobody publishes `online` but in a
hasty stop (`Leaving`).

`ConfigIsEffective` is no invariant that grows with the steps of the process but an
induction along the lines of the file, with the same three lemmas as in
`FlowProofs`. After each line that is accepted a variable has the value that was
exported or, failing that, the one of the first line so far that sets it
(`FirstWord`); a broken line ends the parse, and so does not get by.

### Only model-checked

- Liveness, which is out of the prover's reach: `EventuallyConverged`,
  `BindsForGood`, `EveryRequestEnds`, `StaleTrueCorrected`, `StopEnds`.
- `AllEnds`, which has `ENABLED` in it. `EndLeavesNobody` is the same with the
  guards of `GoroutineStep` written out; that `CanGo` is `ENABLED GoroutineStep` can
  be read off the actions, and TLC agrees, but it is not proved.

## 6. Not modelled

- Characters. `topicSegment` and `labelOf` are the constant `Segment`; `ParseUint`
  is "a segment of one number".
- Values and arguments of commands, which are passed on unread; `handleCommand`
  and `onBridgeRequest` pass any command on, and only `remove_node` has an effect
  in the bridge.
- That matter-server answers a command with an error, or that a command cannot be
  encoded (`matterws.go:154-157`, 169-171): in `MatterClient` an answer is an answer,
  whatever it says, and a command that is registered can be sent. `FlowRequests`
  tells results from errors.
- The order of two writes to one attribute: each has a goroutine of its own
  (`bridge.go:584`), and matter-server may see them in either order.
- `node_event` and `bridge/info`: published, not read by anything here.
- Configuration keys that are strings without a check, `MATTER_CALL_TIMEOUT`,
  `LOG_LEVEL`; basic authentication of the console.
- Go's memory model: `b.mqtt` is assigned after the console has started to read it
  (`bridge.go:92`, 216), without a lock.
- The console's dot for the broker: nothing tells the page that the connection has
  come or gone (`bridge.go:212`).
- The descriptor's Basic Information, which is as of the last `publishNode`, and
  its endpoints; `Shows` compares its name.
- Which attributes have a name in the data model: a `named/` leaf is a leaf.
- In Node-RED: the device node, units and scaling, the editor, `bridge/#` status,
  and the repeated SUBSCRIBE of mqtt.js's own `resubscribe`, which asks for what
  `connect` asks for.

## 7. Plan

The modules of section 2 cover what keeps state and what decides. Of the model
what is left is small: the device node's change detection over the registry of
`Flow`, the conversions of `scale.js` that are linear, `MATTER_CALL_TIMEOUT`.

Every safety property that a run checks is a theorem but for `AllEnds`, whose
content is one. What is left to prove is out of the prover's reach: liveness.
