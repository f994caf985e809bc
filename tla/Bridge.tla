------------------------------- MODULE Bridge -------------------------------
(***************************************************************************)
(* The core of bridge.go: what the retained topics of the MQTT broker say  *)
(* about a Matter fabric that changes, while the websocket session to      *)
(* matter-server comes and goes.                                           *)
(*                                                                         *)
(* The Run goroutine is the only writer of nodes and names, so one pass of *)
(* its select (one event, one dump) is one step.  The goroutine of a       *)
(* remove_node request and the broker connection interleave with it.       *)
(* Fabric, matter-server and broker are external: they are modelled from   *)
(* the messages the bridge exchanges with them.                            *)
(***************************************************************************)
EXTENDS Naming

CONSTANTS Absent,        \* a node that is not there
          RetainState,   \* MQTT_RETAIN: attribute state is retained
          PublishNames,  \* MQTT_PUBLISH_NAMES: the named/ tree exists
          EventsCap,     \* capacity of MatterClient.Events
          MaxChanges,    \* bound: changes the fabric goes through
          MaxHiccups,    \* bound: failures of connections, calls, the process
          InitialFabrics,\* what the bridge may find when it starts
          Removable,     \* bound: the nodes remove_node is requested for
          Environments   \* the environments to consider: see env

\* What an environment may do, beside ending sessions and refusing to open them:
\* remove_node requests are made, names and nodes change while no session is
\* open, Events overflows, calls fail, the broker connection fails, the bridge
\* is restarted.
Kinds == {"requests", "unwatched", "overflow", "call_fails", "mqtt_outage", "crash"}

ASSUME BridgeAssumption ==
  /\ RetainState \in BOOLEAN /\ PublishNames \in BOOLEAN
  /\ EventsCap \in Nat \ {0} /\ MaxChanges \in Nat /\ MaxHiccups \in Nat
  /\ Removable \subseteq NodeIds /\ Environments \subseteq SUBSET Kinds
  /\ Empty \notin {"online", "offline", "true", "false"}

VARIABLES
  \* external
  env,          \* what the environment may do in this behaviour
  fabric,       \* the nodes as matter-server knows them
  commissioned, \* ids ever given out: matter-server does not reuse one
  clock,        \* fabric changes so far; a reported value is its own version
  retained,     \* the broker: topic -> payload, Empty where there is none
  matterConnected, \* the retained bridge/matter_connected
  mqtt,         \* the broker connection is open
  hiccups,      \* failures so far
  \* the session
  phase,        \* where Run and session are
  alive,        \* the websocket is up
  dump,         \* the response to start_listening, before it is decoded
  events,       \* MatterClient.Events
  \* the bridge
  nodes,        \* the cache
  names,        \* Namer.resolved
  tracked,      \* b.topics
  req           \* the goroutine of a remove_node request, per node

external == <<env, fabric, commissioned, clock>>
session  == <<phase, alive, dump, events>>
broker   == <<retained, matterConnected>>
vars == <<external, broker, mqtt, hiccups, session, nodes, names, tracked, req>>

-----------------------------------------------------------------------------
(* Nodes, topics and payloads. *)

\* label stands for the attributes that name a node, value for all the others.
Node == [label : Labels, value : 0 .. MaxChanges, available : BOOLEAN]
Nodes == [NodeIds -> Node \cup {Absent}]

LabelsOf(ns) == [id \in NodeIds |-> IF ns[id] = Absent THEN NoLabel ELSE ns[id].label]

Keys == LET base == {Segment[l] : l \in Labels} \ {Empty}
        IN  base \cup {Suffixed(b, id) : b \in base, id \in NodeIds}

StateLeaves == {"label", "value"}
Leaves == {"availability", "name", "descriptor"} \cup StateLeaves
NamedTopic == {"named"} \X Keys \X StateLeaves
Topic == ({"node"} \X NodeIds \X Leaves) \cup NamedTopic

\* The payload node n, which has key in the named/ tree, has on one of its
\* topics.  A JSON value is never the empty payload; a missing key is.
Payload(n, key, leaf) ==
  CASE leaf = "availability" -> IF n.available THEN "online" ELSE "offline"
    [] leaf = "name"         -> key
    [] leaf = "descriptor"   -> [name |-> key, label |-> n.label]
    [] leaf = "label"        -> [json |-> n.label]
    [] leaf = "value"        -> [json |-> n.value]

\* publishAttribute's topics for one attribute: the numeric one and its alias.
AttributeTopics(id, key, leaf) ==
  {<<"node", id, leaf>>}
    \cup (IF PublishNames /\ key # Empty THEN {<<"named", key, leaf>>} ELSE {})

\* The topics an attribute of a node is retained, and so tracked, on.
Retained(id, key, leaf) == IF RetainState THEN AttributeTopics(id, key, leaf) ELSE {}

\* The attributes a node has: NodeLabel is missing until its first interview.
Attributes(n) == StateLeaves \ (IF n.label = NoLabel THEN {"label"} ELSE {})

\* publishNode's retained topics.
NodeTopics(id, n, key) ==
  {<<"node", id, leaf>> : leaf \in {"availability", "name", "descriptor"}}
    \cup UNION {Retained(id, key, leaf) : leaf \in Attributes(n)}

\* A publication: the topic, the node it is tracked for and the payload.
PublishNode(id, n, key) ==
  {<<t, id, Payload(n, key, t[3])>> : t \in NodeTopics(id, n, key)}

PublishAttribute(id, key, leaf, val) ==
  {<<t, id, [json |-> val]>> : t \in Retained(id, key, leaf)}

\* Values are counted from the start; no JSON value is the empty payload.
ASSUME NodeAssumption ==
  /\ Absent \notin Node \cup Nodes /\ InitialFabrics \subseteq Nodes
  /\ \A f \in InitialFabrics, id \in NodeIds : f[id] # Absent => f[id].value = 0
  /\ Empty \notin [name : Keys \cup {Empty}, label : Labels]
  /\ Empty \notin [json : Labels] /\ Empty \notin [json : 0 .. MaxChanges]

-----------------------------------------------------------------------------
(* Steps of a handler.  A handler first clears topics (wiped, per node), then *)
(* makes its publications (pub): no handler clears what it has published.     *)
(* publish drops everything while the broker connection is down.              *)

\* Mutant: what has been cleared stays in b.topics.
TrackKeeps(wiped, pub) ==
  tracked' = [id \in NodeIds |-> tracked[id] \cup {p[1] : p \in {q \in pub : q[2] = id}}]

\* Mutant: aliases are published untracked.
TrackNumeric(wiped, pub) ==
  tracked' = [id \in NodeIds |-> (tracked[id] \ wiped[id])
                  \cup ({p[1] : p \in {q \in pub : q[2] = id}} \ NamedTopic)]

Track(wiped, pub) ==
  tracked' = [id \in NodeIds |-> (tracked[id] \ wiped[id])
                                   \cup {p[1] : p \in {q \in pub : q[2] = id}}]

Send(wiped, pub) ==
  LET gone == UNION {wiped[id] : id \in NodeIds}
      sent(t) == {p \in pub : p[1] = t}
  IN  retained' = IF ~mqtt THEN retained
                  ELSE [t \in Topic |-> IF sent(t) # {} THEN (CHOOSE p \in sent(t) : TRUE)[3]
                                        ELSE IF t \in gone THEN Empty ELSE retained[t]]

Publish(wiped, pub) == Track(wiped, pub) /\ Send(wiped, pub)

\* The named/ topics of the nodes that new names otherwise than before.
OldAliases(new) ==
  [id \in NodeIds |-> IF id \in Changed(names, new) THEN tracked[id] \cap NamedTopic ELSE {}]

\* What is published of those nodes, of the ones that are in the cache ns.
Renewed(ns, new) ==
  UNION {PublishNode(id, ns[id], new[id]) : id \in {i \in Changed(names, new) : ns[i] # Absent}}

\* refreshNames over the cache ns.  Every renamed node loses its named/ topics,
\* then every renamed node that is cached is published again.  The handler that
\* calls it has cleared the topics in wiped before, and makes pub after.
RefreshNames(ns, wiped, pub) ==
  LET new == NamesOf(LabelsOf(ns))
  IN  /\ names' = new
      /\ Publish([id \in NodeIds |-> wiped[id] \cup OldAliases(new)[id]], pub \cup Renewed(ns, new))

NoTopics == [id \in NodeIds |-> {}]

-----------------------------------------------------------------------------
Init ==
  /\ env \in Environments
  /\ fabric \in InitialFabrics
  /\ commissioned = {id \in NodeIds : fabric[id] # Absent}
  /\ clock = 0
  /\ retained = [t \in Topic |-> Empty]
  /\ matterConnected = Empty
  /\ mqtt = TRUE
  /\ hiccups = 0
  /\ phase = "start"
  /\ alive = FALSE
  /\ dump = [id \in NodeIds |-> Absent]
  /\ events = <<>>
  /\ nodes = [id \in NodeIds |-> Absent]
  /\ names = [id \in NodeIds |-> Empty]
  /\ tracked = NoTopics
  /\ req = [id \in NodeIds |-> "idle"]

Hiccup == hiccups < MaxHiccups /\ hiccups' = hiccups + 1

-----------------------------------------------------------------------------
(* matter-server and its fabric. *)

\* matter-server has answered start_listening: events follow the dump.
Listening == alive /\ phase \in {"answered", "serving"}

\* Mutant: Events grows without bound.
DeliverAlways(ev) == events' = IF Listening THEN Append(events, ev) ELSE events

\* A frame reaches readPump, which drops the event when Events is full.
Deliver(ev) ==
  IF ~Listening THEN UNCHANGED events
  ELSE \/ Len(events) < EventsCap /\ events' = Append(events, ev)
       \/ Len(events) = EventsCap /\ "overflow" \in env /\ UNCHANGED events

\* A change of names or of the set of nodes that no event will tell of.
Watched == alive /\ phase = "serving"
MayChangeNames == Watched \/ "unwatched" \in env

Change(id, n) ==
  /\ clock < MaxChanges
  /\ clock' = clock + 1
  /\ fabric' = [fabric EXCEPT ![id] = n]
  /\ UNCHANGED <<env, broker, mqtt, hiccups, phase, alive, dump, nodes, names, tracked, req>>

Commission(id) ==
  /\ id \notin commissioned
  /\ MayChangeNames
  /\ commissioned' = commissioned \cup {id}
  /\ \E l \in Labels :
       LET n == [label |-> l, value |-> clock + 1, available |-> TRUE]
       IN  Change(id, n) /\ Deliver([type |-> "node", id |-> id, node |-> n])

ReportValue(id) ==
  /\ fabric[id] # Absent
  /\ UNCHANGED commissioned
  /\ Change(id, [fabric[id] EXCEPT !.value = clock + 1])
  /\ Deliver([type |-> "attribute", id |-> id, leaf |-> "value", val |-> clock + 1])

Relabel(id) ==
  /\ fabric[id] # Absent
  /\ MayChangeNames
  /\ UNCHANGED commissioned
  /\ \E l \in Labels \ {NoLabel, fabric[id].label} :
       /\ Change(id, [fabric[id] EXCEPT !.label = l])
       /\ Deliver([type |-> "attribute", id |-> id, leaf |-> "label", val |-> l])

ChangeAvailability(id) ==
  /\ fabric[id] # Absent
  /\ UNCHANGED commissioned
  /\ LET n == [fabric[id] EXCEPT !.available = ~@]
     IN  Change(id, n) /\ Deliver([type |-> "node", id |-> id, node |-> n])

\* Removed by another controller, or by the console's passthrough.
Decommission(id) ==
  /\ fabric[id] # Absent
  /\ MayChangeNames
  /\ UNCHANGED commissioned
  /\ Change(id, Absent)
  /\ Deliver([type |-> "removed", id |-> id])

-----------------------------------------------------------------------------
(* Run and session. *)

SessionUnchanged == UNCHANGED <<external, mqtt, req>>

\* Mutant: Run does not try a second time.
DialOnce ==
  /\ phase = "start"
  /\ phase' = "calling"
  /\ alive' = TRUE
  /\ SessionUnchanged
  /\ UNCHANGED <<broker, hiccups, dump, events, nodes, names, tracked>>

Dial ==
  /\ phase \in {"start", "backoff"}
  /\ phase' = "calling"
  /\ alive' = TRUE
  /\ SessionUnchanged
  /\ UNCHANGED <<broker, hiccups, dump, events, nodes, names, tracked>>

DialFails ==
  /\ phase \in {"start", "backoff"}
  /\ Hiccup
  /\ phase' = "ended"
  /\ SessionUnchanged
  /\ UNCHANGED <<broker, alive, dump, events, nodes, names, tracked>>

ServerAnswers ==
  /\ phase = "calling" /\ alive
  /\ phase' = "answered"
  /\ dump' = fabric
  /\ SessionUnchanged
  /\ UNCHANGED <<broker, hiccups, alive, events, nodes, names, tracked>>

\* start_listening returns an error: the session died, or the call timed out.
\* session closes the client and what is in Events is never read.
CallFails ==
  /\ phase \in {"calling", "answered"}
  /\ IF alive THEN Hiccup ELSE UNCHANGED hiccups
  /\ (\E id \in NodeIds : req[id] = "calling") => "call_fails" \in env
  /\ phase' = "ended"
  /\ alive' = FALSE
  /\ events' = <<>>
  /\ SessionUnchanged
  /\ UNCHANGED <<broker, dump, nodes, names, tracked>>

\* Mutant: a dump publishes the nodes it names anew and no others.
DumpedRenamed(keys) == {id \in Changed(names, keys) : dump[id] # Absent}

Dumped(keys) == {id \in NodeIds : dump[id] # Absent}

\* The node list replaces the cache; the nodes renamed meanwhile are not asked
\* for (the result of Recompute is dropped), every node is published.
Dump ==
  /\ phase = "answered"
  /\ phase' = "serving"
  /\ nodes' = dump
  /\ names' = NamesOf(LabelsOf(dump))
  /\ Publish(NoTopics, UNION {PublishNode(id, dump[id], names'[id]) : id \in Dumped(names')})
  /\ matterConnected' = IF mqtt THEN "true" ELSE matterConnected
  /\ SessionUnchanged
  /\ UNCHANGED <<hiccups, alive, dump, events>>

WsDrops ==
  /\ phase \in {"calling", "answered", "serving"} /\ alive
  /\ (\E id \in NodeIds : req[id] = "calling") => "call_fails" \in env
  /\ Hiccup
  /\ alive' = FALSE
  /\ SessionUnchanged
  /\ UNCHANGED <<broker, phase, dump, events, nodes, names, tracked>>

Receive(type) ==
  /\ phase = "serving"
  /\ events # <<>>
  /\ Head(events).type = type
  /\ events' = Tail(events)
  /\ SessionUnchanged
  /\ UNCHANGED <<matterConnected, hiccups, phase, alive, dump>>

\* Mutant: only a new label is cached.
CacheLabel(id, leaf, val) ==
  IF nodes[id] = Absent \/ leaf = "value" THEN nodes ELSE [nodes EXCEPT ![id].label = val]

CacheAttribute(id, leaf, val) ==
  IF nodes[id] = Absent THEN nodes
  ELSE IF leaf = "label" THEN [nodes EXCEPT ![id].label = val]
                         ELSE [nodes EXCEPT ![id].value = val]

\* An attribute of a node that is not in the cache is published all the same.
HandleAttribute ==
  /\ Receive("attribute")
  /\ LET ev == Head(events)
         pub(key) == PublishAttribute(ev.id, key, ev.leaf, ev.val)
     IN  /\ nodes' = CacheAttribute(ev.id, ev.leaf, ev.val)
         /\ IF ev.leaf = "label"
              THEN RefreshNames(nodes', NoTopics, pub(NamesOf(LabelsOf(nodes'))[ev.id]))
              ELSE Publish(NoTopics, pub(names[ev.id])) /\ UNCHANGED names

CacheNode(id, n) == [nodes EXCEPT ![id] = n]

HandleNode ==
  /\ Receive("node")
  /\ LET id == Head(events).id
         n == Head(events).node
     IN  /\ nodes' = CacheNode(id, n)
         /\ RefreshNames(nodes', NoTopics,
                         PublishNode(id, n, NamesOf(LabelsOf(nodes'))[id]))

\* Mutant: a removal leaves the other nodes' names alone.
HandleRemovedOnly ==
  /\ Receive("removed")
  /\ LET id == Head(events).id
     IN  /\ nodes' = [nodes EXCEPT ![id] = Absent]
         /\ Publish([NoTopics EXCEPT ![id] = tracked[id]], {})
         /\ UNCHANGED names

\* clearNode, then the names: a removal can resolve a collision.
HandleRemoved ==
  /\ Receive("removed")
  /\ LET id == Head(events).id
     IN  /\ nodes' = [nodes EXCEPT ![id] = Absent]
         /\ RefreshNames(nodes', [NoTopics EXCEPT ![id] = tracked[id]], {})

\* A closed channel gives the events buffered in it before it reports the end.
SessionEnds ==
  /\ phase = "serving" /\ ~alive /\ events = <<>>
  /\ phase' = "ended"
  /\ SessionUnchanged
  /\ UNCHANGED <<broker, hiccups, alive, dump, events, nodes, names, tracked>>

\* Mutant: the nodes are left as they are.
MarkNoneUnavailable == UNCHANGED retained

\* Every node of b.topics; these publications are not recorded in it.
MarkAllUnavailable ==
  retained' = [t \in Topic |->
                 IF mqtt /\ \E id \in NodeIds : /\ tracked[id] # {}
                                                /\ t = <<"node", id, "availability">>
                   THEN "offline" ELSE retained[t]]

\* The rest of Run's loop.
Reconnect ==
  /\ phase = "ended"
  /\ phase' = "backoff"
  /\ matterConnected' = IF mqtt THEN "false" ELSE matterConnected
  /\ MarkAllUnavailable
  /\ SessionUnchanged
  /\ UNCHANGED <<hiccups, alive, dump, events, nodes, names, tracked>>

-----------------------------------------------------------------------------
(* bridge/request/remove_node: a goroutine of its own. *)

RequestUnchanged ==
  UNCHANGED <<env, clock, commissioned, matterConnected, mqtt, phase, alive, dump, nodes, names>>

\* Invoke fails at once while no session is open.
RequestRemove(id) ==
  /\ "requests" \in env /\ id \in Removable /\ req[id] = "idle"
  /\ alive \/ "call_fails" \in env
  /\ req' = [req EXCEPT ![id] = IF phase \in {"calling", "answered", "serving"}
                                  THEN "calling" ELSE "answered"]
  /\ RequestUnchanged
  /\ UNCHANGED <<fabric, hiccups, retained, tracked, events>>

\* matter-server removes the node, says so to its listeners and answers; for a
\* node it does not have, it only answers.
ServerRemoves(id) ==
  /\ req[id] = "calling" /\ alive
  /\ req' = [req EXCEPT ![id] = "answered"]
  /\ IF fabric[id] = Absent THEN UNCHANGED <<fabric, events>>
     ELSE /\ MayChangeNames
          /\ fabric' = [fabric EXCEPT ![id] = Absent]
          /\ Deliver([type |-> "removed", id |-> id])
  /\ RequestUnchanged
  /\ UNCHANGED <<hiccups, retained, tracked>>

\* The call times out, the server refuses it, or the session dies under it.
RequestFails(id) ==
  /\ req[id] = "calling" /\ "call_fails" \in env
  /\ IF alive THEN Hiccup ELSE UNCHANGED hiccups
  /\ req' = [req EXCEPT ![id] = "answered"]
  /\ RequestUnchanged
  /\ UNCHANGED <<fabric, retained, tracked, events>>

\* clearNode, whatever the answer was.
FinishRemove(id) ==
  /\ req[id] = "answered"
  /\ req' = [req EXCEPT ![id] = "done"]
  /\ Publish([NoTopics EXCEPT ![id] = tracked[id]], {})
  /\ RequestUnchanged
  /\ UNCHANGED <<fabric, hiccups, events>>

-----------------------------------------------------------------------------
(* The broker connection and the process. *)

\* Only bridge/availability is published again on a reconnection.
MqttLost ==
  /\ "mqtt_outage" \in env
  /\ mqtt /\ Hiccup
  /\ mqtt' = FALSE
  /\ UNCHANGED <<external, broker, session, nodes, names, tracked, req>>

MqttBack ==
  /\ ~mqtt
  /\ mqtt' = TRUE
  /\ UNCHANGED <<external, broker, hiccups, session, nodes, names, tracked, req>>

\* The process dies and is started again: the broker keeps what it retains.
Crash ==
  /\ "crash" \in env
  /\ Hiccup
  /\ phase' = "start"
  /\ alive' = FALSE
  /\ events' = <<>>
  /\ mqtt' = TRUE
  /\ dump' = [id \in NodeIds |-> Absent]
  /\ nodes' = [id \in NodeIds |-> Absent]
  /\ names' = [id \in NodeIds |-> Empty]
  /\ tracked' = NoTopics
  /\ req' = [id \in NodeIds |-> IF req[id] = "idle" THEN "idle" ELSE "done"]
  /\ UNCHANGED <<external, broker>>

-----------------------------------------------------------------------------
FabricNext == \E id \in NodeIds :
  Commission(id) \/ ReportValue(id) \/ Relabel(id) \/ ChangeAvailability(id) \/ Decommission(id)

SessionNext ==
  \/ Dial \/ DialFails \/ ServerAnswers \/ CallFails \/ Dump \/ WsDrops
  \/ HandleAttribute \/ HandleNode \/ HandleRemoved \/ SessionEnds \/ Reconnect

RequestNext == \E id \in NodeIds :
  RequestRemove(id) \/ ServerRemoves(id) \/ RequestFails(id) \/ FinishRemove(id)

Next == FabricNext \/ SessionNext \/ RequestNext \/ MqttLost \/ MqttBack \/ Crash

Spec == Init /\ [][Next]_vars

-----------------------------------------------------------------------------
(* Properties. *)

Event ==
  [type : {"attribute"}, id : NodeIds, leaf : {"value"}, val : 0 .. MaxChanges]
    \cup [type : {"attribute"}, id : NodeIds, leaf : {"label"}, val : Labels]
    \cup [type : {"node"}, id : NodeIds, node : Node]
    \cup [type : {"removed"}, id : NodeIds]

Payloads(leaf) ==
  CASE leaf = "availability" -> {"online", "offline"}
    [] leaf = "name"         -> Keys
    [] leaf = "descriptor"   -> [name : Keys \cup {Empty}, label : Labels]
    [] leaf = "label"        -> [json : Labels]
    [] leaf = "value"        -> [json : 0 .. MaxChanges]

WorldTypeOK ==
  /\ env \in Environments
  /\ fabric \in Nodes /\ commissioned \subseteq NodeIds
  /\ clock \in 0 .. MaxChanges /\ hiccups \in 0 .. MaxHiccups
  /\ req \in [NodeIds -> {"idle", "calling", "answered", "done"}]

BrokerTypeOK ==
  /\ DOMAIN retained = Topic
  /\ \A t \in Topic : retained[t] = Empty \/ retained[t] \in Payloads(t[3])
  /\ tracked \in [NodeIds -> SUBSET Topic]

ConnectionTypeOK == mqtt \in BOOLEAN /\ matterConnected \in {"true", "false", Empty}

SessionTypeOK ==
  /\ phase \in {"start", "backoff", "calling", "answered", "serving", "ended"}
  /\ alive \in BOOLEAN
  /\ dump \in Nodes
  /\ events \in Seq(Event) /\ Len(events) <= EventsCap

CacheTypeOK == nodes \in Nodes /\ names \in [NodeIds -> Keys \cup {Empty}]

\* Every topic holds nothing or a payload of its own kind, the event buffer
\* stays within its capacity, and only topics of the two trees are tracked.
TypeOK == WorldTypeOK /\ BrokerTypeOK /\ ConnectionTypeOK /\ SessionTypeOK /\ CacheTypeOK

\* The keys of the named/ tree are those of the cached nodes: no event changes
\* the cache's labels without the names following (bridge.go:330-333, 345-346,
\* 357-360; README.md:92 "The result is deterministic").
NamesInSync == names = NamesOf(LabelsOf(nodes))

\* What the broker retains of an attribute never goes back to an older report,
\* across events, dumps, sessions, restarts and broker outages
\* (publishNode and publishAttribute against the order of handleEvent).
NoRegress ==
  [][\A id \in NodeIds :
       LET t == <<"node", id, "value">>
       IN  retained[t] # Empty /\ retained'[t] # Empty
             => retained[t].json <= retained'[t].json]_vars

\* Nothing beyond kinds happens in this behaviour.
OnlyMeets(kinds) == env \subseteq kinds

\* While Run waits to dial again nobody reads an old "online": the broker says
\* that the session is down, and that every node is (bridge.go:178-181;
\* README.md:328-329, "on drop, all nodes are marked offline").
DownMeansOffline ==
  OnlyMeets({"unwatched", "overflow"}) /\ phase = "backoff" =>
    /\ matterConnected # "true"
    /\ \A id \in NodeIds : retained[<<"node", id, "availability">>] # "online"

\* Every topic the broker retains is one the bridge remembers to clear
\* (bridge.go:773, "records retained topics so they can be cleared on removal"),
\* the "offline" of markAllUnavailable apart, which is not recorded.
TrackedCovers ==
  OnlyMeets({"unwatched", "overflow"}) =>
    /\ \A id \in NodeIds, leaf \in Leaves :
         LET t == <<"node", id, leaf>>
         IN  \/ retained[t] = Empty
             \/ t \in tracked[id]
             \/ leaf = "availability" /\ retained[t] = "offline"
    /\ \A t \in NamedTopic : retained[t] # Empty => \E id \in NodeIds : t \in tracked[id]

\* No topic is remembered for two nodes: clearing one node's topics never
\* deletes what another one publishes (bridge.go:790-796, 804-817).
OneOwner ==
  OnlyMeets({}) =>
  \A id, other \in NodeIds : id # other => tracked[id] \cap tracked[other] = {}

\* payload is what node n, called key, should have on a topic that ends in leaf.
\* Of the descriptor only the name is: the Basic Information in it is as of the
\* last publishNode.
Shows(payload, n, key, leaf) ==
  IF leaf = "descriptor" THEN payload # Empty /\ payload.name = key
                         ELSE payload = Payload(n, key, leaf)

\* Nothing is under way between the fabric and the broker.
Settled == /\ phase = "serving" /\ alive /\ events = <<>>
           /\ \A id \in NodeIds : req[id] \in {"idle", "done"}

MirrorsFabric ==
  LET keys == NamesOf(LabelsOf(fabric))
      owners(t) == {id \in NodeIds : /\ fabric[id] # Absent
                                     /\ t \in NodeTopics(id, fabric[id], keys[id])}
  IN  \A t \in Topic : IF owners(t) = {} THEN retained[t] = Empty
                       ELSE \A id \in owners(t) :
                              Shows(retained[t], fabric[id], keys[id], t[3])

\* Whatever was missed while no session was open, the numeric tree of a node
\* that is on the fabric is right again once the bridge has caught up
\* (README.md:331-332, "retained state self-heals").
NumericTreeHeals ==
  OnlyMeets({"requests", "unwatched", "crash"}) /\ Settled =>
    \A id \in NodeIds :
      fabric[id] # Absent =>
        \A leaf \in {"availability", "name", "descriptor"}
                      \cup (IF RetainState THEN Attributes(fabric[id]) ELSE {}) :
          Shows(retained[<<"node", id, leaf>>], fabric[id],
                NamesOf(LabelsOf(fabric))[id], leaf)

\* Whatever was missed while no session was open, the dump of the next one
\* brings the retained state up to date (README.md:330-332, "republishes the full
\* node dump, so retained state self-heals").
SelfHeals == OnlyMeets({"unwatched"}) /\ Settled => MirrorsFabric
=============================================================================
