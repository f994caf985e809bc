-------------------------------- MODULE Flow --------------------------------
(***************************************************************************)
(* The Node-RED side of the retained tree (nodered/): one shared MQTT      *)
(* connection, the registry that finds devices by name, and the            *)
(* "matter2mqtt in" nodes of a flow, which follow a device from node id to *)
(* node id and share one subscription per node id.                         *)
(*                                                                         *)
(* JavaScript runs a callback to its end: each is one action, with all the *)
(* status handlers it calls.  The bridge and the broker are external, and  *)
(* the packets between broker and client are in flight both ways.          *)
(***************************************************************************)
EXTENDS Naturals, Sequences, SequencesExt

CONSTANTS NodeIds,
          Names,       \* names the bridge may give
          Lower,       \* toLowerCase, on these and on configured names
          Empty,       \* no name, no payload: a topic that is not retained
          None,        \* not bound, nothing seen
          InNodes,     \* the "matter2mqtt in" nodes
          Device,      \* the device each is configured with: a name or a node id
          NodeOrders,  \* bound: the orders in which nodes are replayed, resubscribed
          Deployments, \* bound: the orders in which in nodes are created
          ClearOrders, \* bound: the orders in which clearNode empties topics
          Fabrics,     \* what the bridge may have published before
          MaxEvents,   \* bound: what the bridge has to publish
          MaxHiccups   \* bound: lost connections and redeployments

Leaves == {"availability", "name", "value"}
Meta == {"availability", "name"}

\* The elements of S, each once.
Lists(order, S) == order \in Seq(S) /\ ToSet(order) = S /\ IsInjective(order)

\* What step makes of base, one element of s after the other: a FoldLeft that
\* recurs along the indices.
Along(step(_, _), base, s) ==
  LET after[k \in 0 .. Len(s)] == IF k = 0 THEN base ELSE step(after[k - 1], s[k])
  IN  after[Len(s)]

\* The bridge gives names that are distinct up to case: see NamesDistinct.
Assignments ==
  {f \in [NodeIds -> Names \cup {Empty}] :
     \A a, b \in NodeIds : a # b /\ f[a] # Empty /\ f[b] # Empty => Lower[f[a]] # Lower[f[b]]}

ASSUME FlowAssumption ==
  /\ Names \subseteq DOMAIN Lower /\ Empty \notin DOMAIN Lower
  /\ NodeIds \cap DOMAIN Lower = {}
  /\ Device \in [InNodes -> DOMAIN Lower \cup NodeIds]
  /\ {None, "meta"} \cap NodeIds = {} /\ None \notin Nat \cup {Empty}
  /\ \A order \in NodeOrders : Lists(order, NodeIds)
  /\ \A order \in Deployments : Lists(order, InNodes)
  /\ \A order \in ClearOrders : Lists(order, Leaves)
  /\ \A f \in Fabrics : f \in Assignments
  /\ MaxEvents \in Nat /\ MaxHiccups \in Nat

VARIABLES
  \* external
  names,     \* the bridge: names of the devices it knows, distinct up to case
  due,       \* the bridge: nodes it has not published since the names changed
  retained,  \* the broker: node id -> leaf -> payload
  subs,      \* the broker: what this client is subscribed to, "meta" or a node id
  clock,     \* the bridge's events so far
  hiccups,
  \* between broker and client
  inbox,     \* messages to the client
  outbox,    \* SUBSCRIBE and UNSUBSCRIBE packets to the broker
  \* Node-RED
  connected, \* broker.connected
  known,     \* the keys of registry.devices, in insertion order
  label,     \* the name of a registry entry
  available, \* its availability
  handlers,  \* attributeHandlers; subscribedNodes are those with a handler
  started,   \* statusHandlers, in insertion order: the in nodes
  bound,     \* boundNodeId, per in node
  seen       \* the last value an in node sent since it was bound

bridge   == <<names, due>>
counters == <<clock, hiccups>>
registry == <<known, label, available>>
nodes    == <<handlers, started, bound, seen>>
vars == <<bridge, retained, subs, counters, inbox, outbox, connected, registry, nodes>>

Message(id, leaf, payload) == [id |-> id, leaf |-> leaf, payload |-> payload]
Present == {id \in NodeIds : retained[id]["availability"] # Empty}

-----------------------------------------------------------------------------
(* The bridge publishes; the broker retains, and forwards to subscribers. *)

Subscribed(m) == (IF m.leaf \in Meta THEN "meta" ELSE m.id) \in subs

Forward(box, m) == IF Subscribed(m) THEN Append(box, m) ELSE box

Publish(id, msgs) ==
  /\ retained' = [retained EXCEPT ![id] = [leaf \in Leaves |->
       LET of == {k \in DOMAIN msgs : msgs[k].leaf = leaf}
       IN  IF of = {} THEN @[leaf] ELSE msgs[CHOOSE k \in of : TRUE].payload]]
  /\ inbox' = Along(Forward, inbox, msgs)
  /\ UNCHANGED <<subs, hiccups, outbox, connected, registry, nodes>>

\* Bridge.publishNode.
PublishNode(id, availability, value) ==
  Publish(id, <<Message(id, "availability", availability), Message(id, "name", names[id]),
                Message(id, "value", value)>>)

\* One event at a time; a reported value is its number.
Event == due = {} /\ clock < MaxEvents /\ clock' = clock + 1

\* Devices get other names, or are commissioned.
Rename ==
  /\ Event
  /\ \E f \in Assignments \ {names}, new \in SUBSET (NodeIds \ Present) :
       /\ \A id \in NodeIds : f[id] # Empty => id \in Present \cup new
       /\ names' = f
       /\ due' = new \cup {id \in NodeIds : f[id] # names[id]}
  /\ UNCHANGED <<retained, subs, hiccups, inbox, outbox, connected, registry, nodes>>

PublishDue(id) ==
  /\ id \in due
  /\ due' = due \ {id}
  /\ IF id \in Present THEN PublishNode(id, retained[id]["availability"], retained[id]["value"])
                       ELSE PublishNode(id, "online", 0)
  /\ UNCHANGED <<names, clock>>

ReportValue(id) ==
  /\ Event /\ id \in Present
  /\ Publish(id, <<Message(id, "value", clock + 1)>>)
  /\ UNCHANGED bridge

ChangeAvailability(id) ==
  /\ Event /\ id \in Present
  /\ PublishNode(id, IF retained[id]["availability"] = "online" THEN "offline" ELSE "online",
                 retained[id]["value"])
  /\ UNCHANGED bridge

\* Bridge.clearNode: the topics are emptied in any order.
RemoveDevice(id) ==
  /\ Event /\ id \in Present
  /\ names' = [names EXCEPT ![id] = Empty]
  /\ \E order \in ClearOrders :
       Publish(id, [k \in DOMAIN order |-> Message(id, order[k], Empty)])
  /\ UNCHANGED due

\* A SUBSCRIBE is answered with what is retained, node by node; what is published
\* afterwards follows.
Replay(box, id, leaf) ==
  IF retained[id][leaf] = Empty THEN box ELSE Append(box, Message(id, leaf, retained[id][leaf]))

ReplayMeta(box, id) == Replay(Replay(box, id, "availability"), id, "name")

BrokerSubscribes(what) ==
  /\ subs' = subs \cup {what}
  /\ \/ what = "meta" /\ \E order \in NodeOrders : inbox' = Along(ReplayMeta, inbox, order)
     \/ what # "meta" /\ inbox' = Replay(inbox, what, "value")

BrokerTakes ==
  /\ connected /\ outbox # <<>>
  /\ outbox' = Tail(outbox)
  /\ \/ Head(outbox).op = "subscribe" /\ BrokerSubscribes(Head(outbox).what)
     \/ /\ Head(outbox).op = "unsubscribe"
        /\ subs' = subs \ {Head(outbox).what} /\ UNCHANGED inbox
  /\ UNCHANGED <<bridge, retained, counters, connected, registry, nodes>>

-----------------------------------------------------------------------------
(* The registry. *)

SameCase(device, name) == name = device
AnyCase(device, name) ==
  name # Empty /\ device \in DOMAIN Lower /\ Lower[name] = Lower[device]

\* The first in the order of insertion.
FirstAt(ids, places) == IF places = {} THEN None ELSE ids[Min(places)]

\* Mutant: the name is compared as it is written.
LookupExact(device, ids, names_) ==
  IF device \in ToSet(ids) THEN device
    ELSE FirstAt(ids, {k \in DOMAIN ids : SameCase(device, names_[ids[k]])})

\* A node id that is known, else the first entry with that name, else the first
\* with that name in another case.
Lookup(device, ids, names_) ==
  LET exact == {k \in DOMAIN ids : SameCase(device, names_[ids[k]])}
      alike == {k \in DOMAIN ids : AnyCase(device, names_[ids[k]])}
  IN  IF device \in ToSet(ids) THEN device
      ELSE FirstAt(ids, IF exact = {} THEN alike ELSE exact)

\* Registry.device: the entry is inserted if it is not there.
DeviceOf(id) == IF id \in ToSet(known) THEN known ELSE Append(known, id)

\* An emptied availability is not "online".
ApplyMeta(m) ==
  /\ known' = DeviceOf(m.id)
  /\ IF m.leaf = "name"
       THEN label' = [label EXCEPT ![m.id] = m.payload] /\ UNCHANGED available
       ELSE /\ available' = [available EXCEPT ![m.id] =
                               IF m.payload = "online" THEN "online" ELSE "offline"]
            /\ UNCHANGED label

-----------------------------------------------------------------------------
(* Subscriptions.  s is a record of what a callback changes on its way: the    *)
(* handlers, what the in nodes are bound to and have seen, and the outbox.     *)

Current == [handlers |-> handlers, bound |-> bound, seen |-> seen, outbox |-> outbox]

Ask(s, op, id) == IF connected THEN Append(s.outbox, [op |-> op, what |-> id]) ELSE s.outbox

\* Mutant: the subscription is dropped under the other in nodes.
UnsubscribeAlways(s, i) ==
  LET id == s.bound[i]
  IN  IF id = None THEN s
      ELSE [handlers |-> [s.handlers EXCEPT ![id] = @ \ {i}],
            bound    |-> [s.bound EXCEPT ![i] = None],
            seen     |-> [s.seen EXCEPT ![i] = None],
            outbox   |-> Ask(s, "unsubscribe", id)]

\* The function subscribeNode returned to in node i, called.
Unsubscribe(s, i) ==
  LET id == s.bound[i]
  IN  IF id = None THEN s
      ELSE [handlers |-> [s.handlers EXCEPT ![id] = @ \ {i}],
            bound    |-> [s.bound EXCEPT ![i] = None],
            seen     |-> [s.seen EXCEPT ![i] = None],
            outbox   |-> IF s.handlers[id] = {i} THEN Ask(s, "unsubscribe", id) ELSE s.outbox]

\* Only the first handler of a node id makes the broker send what it retains.
SubscribeNode(s, i, id) ==
  [s EXCEPT !.handlers[id] = @ \cup {i}, !.bound[i] = id,
            !.outbox = IF s.handlers[id] = {} THEN Ask(s, "subscribe", id) ELSE @]

\* Mutant: only an in node that is waiting looks its device up.
RefreshWaiting(s, i, id) ==
  IF id = s.bound[i] \/ s.bound[i] # None THEN s
  ELSE IF id = None THEN Unsubscribe(s, i) ELSE SubscribeNode(Unsubscribe(s, i), i, id)

\* refresh of in node i, whose device is found at id.
Refresh(s, i, id) ==
  IF id = s.bound[i] THEN s
  ELSE IF id = None THEN Unsubscribe(s, i) ELSE SubscribeNode(Unsubscribe(s, i), i, id)

Assign(s) == /\ handlers' = s.handlers /\ bound' = s.bound
             /\ seen' = s.seen /\ outbox' = s.outbox

\* emitStatus, when the device of in node i is found at found[i].
RefreshAll(found) == Along(LAMBDA s, i : Refresh(s, i, found[i]), Current, started)

EmitStatus == Assign(RefreshAll([i \in InNodes |-> Lookup(Device[i], known', label')]))

-----------------------------------------------------------------------------
(* Callbacks of the shared connection. *)

Hiccup == hiccups < MaxHiccups /\ hiccups' = hiccups + 1

\* A SUBSCRIBE for a node id that has a handler.
SubscribeWanted(box, id) ==
  IF handlers[id] = {} THEN box ELSE Append(box, [op |-> "subscribe", what |-> id])

\* Mutant: the metadata is not subscribed to again.
ResubscribeNodes(order) == Along(SubscribeWanted, <<>>, order)

\* Mutant: no attributes are subscribed to again.
ResubscribeMeta(order) == <<[op |-> "subscribe", what |-> "meta"]>>

\* The session is clean: the client subscribes to everything again.
Resubscribe(order) == Along(SubscribeWanted, <<[op |-> "subscribe", what |-> "meta"]>>, order)

Connect ==
  /\ ~connected
  /\ connected' = TRUE
  /\ \E order \in NodeOrders : outbox' = Resubscribe(order)
  /\ UNCHANGED <<bridge, retained, subs, counters, inbox, registry, nodes>>

\* QoS 0 and a clean session: what is in flight is lost.
Disconnect ==
  /\ connected /\ Hiccup
  /\ connected' = FALSE
  /\ inbox' = <<>> /\ outbox' = <<>> /\ subs' = {}
  /\ UNCHANGED <<bridge, retained, clock, registry, nodes>>

\* The message callback, for name and availability.
ReceiveMeta ==
  /\ inbox # <<>> /\ Head(inbox).leaf \in Meta
  /\ inbox' = Tail(inbox)
  /\ ApplyMeta(Head(inbox))
  /\ EmitStatus
  /\ UNCHANGED <<bridge, retained, subs, counters, connected, started>>

\* In node i sends a reading on.  The attribute is one it wants, an emptied topic
\* is sent on as null, and how values are converted and named is left out.
OnAttribute(i, m) == IF i \in handlers[m.id] THEN m.payload ELSE seen[i]

\* The message callback, for an attribute: a node without handlers is ignored.
ReceiveValue ==
  /\ inbox # <<>> /\ Head(inbox).leaf = "value"
  /\ inbox' = Tail(inbox)
  /\ seen' = [i \in InNodes |-> OnAttribute(i, Head(inbox))]
  /\ UNCHANGED <<bridge, retained, subs, counters, outbox, connected, registry,
                 handlers, started, bound>>

\* statusHandlers without the one at k, and then i.
LastHandler(i, k) ==
  [j \in DOMAIN started |-> IF j < k THEN started[j]
                            ELSE IF j < Len(started) THEN started[j + 1] ELSE i]

\* One in node is deployed again: closed, and built anew as the last handler.
Redeploy(i) ==
  /\ Hiccup
  /\ \E k \in DOMAIN started : started[k] = i /\ started' = LastHandler(i, k)
  /\ Assign(Refresh(Unsubscribe(Current, i), i, Lookup(Device[i], known, label)))
  /\ UNCHANGED <<bridge, retained, subs, clock, inbox, connected, registry>>

-----------------------------------------------------------------------------
Init ==
  /\ names \in Fabrics
  /\ due = {}
  /\ retained = [id \in NodeIds |->
       IF names[id] = Empty THEN [leaf \in Leaves |-> Empty]
       ELSE [leaf \in Leaves |-> CASE leaf = "availability" -> "online"
                                   [] leaf = "name" -> names[id]
                                   [] leaf = "value" -> 0]]
  /\ clock = 0 /\ hiccups = 0
  /\ connected = FALSE /\ inbox = <<>> /\ outbox = <<>> /\ subs = {}
  /\ known = <<>>
  /\ label = [id \in NodeIds |-> Empty]
  /\ available = [id \in NodeIds |-> "unknown"]
  /\ handlers = [id \in NodeIds |-> {}]
  /\ started \in Deployments
  /\ bound = [i \in InNodes |-> None]
  /\ seen = [i \in InNodes |-> None]

BridgeNext == Rename \/ \E id \in NodeIds :
  PublishDue(id) \/ ReportValue(id) \/ ChangeAvailability(id) \/ RemoveDevice(id)

ClientNext ==
  \/ Connect \/ Disconnect \/ ReceiveMeta \/ ReceiveValue
  \/ \E i \in InNodes : Redeploy(i)

Next == BridgeNext \/ BrokerTakes \/ ClientNext

Spec == Init /\ [][Next]_vars

\* mqtt.js connects again every five seconds (reconnectPeriod), the broker
\* answers, callbacks run; the bridge goes on with what it has begun.  Nothing
\* has to happen, and nothing has to fail.
Progress ==
  Connect \/ BrokerTakes \/ ReceiveMeta \/ ReceiveValue \/ \E id \in NodeIds : PublishDue(id)

FairSpec == Spec /\ WF_vars(Progress)

-----------------------------------------------------------------------------
(* Properties. *)

Payloads(leaf) == CASE leaf = "availability" -> {"online", "offline", Empty}
                    [] leaf = "name" -> Names \cup {Empty}
                    [] leaf = "value" -> Nat \cup {Empty}
MessagesOn(leaf) == [id : NodeIds, leaf : {leaf}, payload : Payloads(leaf)]
Messages == MessagesOn("availability") \cup MessagesOn("name") \cup MessagesOn("value")
Packets == [op : {"subscribe", "unsubscribe"}, what : {"meta"} \cup NodeIds]

\* Registry entries are known once, every in node is told of their changes, and
\* handlers are those of the in nodes that are bound.
TypeOK ==
  /\ names \in Assignments /\ due \subseteq NodeIds /\ clock \in Nat
  /\ DOMAIN retained = NodeIds
  /\ \A id \in NodeIds, leaf \in Leaves : retained[id][leaf] \in Payloads(leaf)
  /\ subs \subseteq {"meta"} \cup NodeIds /\ connected \in BOOLEAN
  /\ inbox \in Seq(Messages) /\ outbox \in Seq(Packets)
  /\ known \in Seq(NodeIds) /\ IsInjective(known)
  /\ label \in [NodeIds -> Names \cup {Empty}]
  /\ available \in [NodeIds -> {"online", "offline", "unknown"}]
  /\ started \in Seq(InNodes) /\ ToSet(started) = InNodes
  /\ bound \in [InNodes -> NodeIds \cup {None}]
  /\ seen \in [InNodes -> Nat \cup {Empty, None}]
  /\ handlers = [id \in NodeIds |-> {i \in InNodes : bound[i] = id}]

\* Nothing is on its way from the bridge to the flow.
Quiet == connected /\ inbox = <<>> /\ outbox = <<>> /\ due = {}

\* A name the bridge has emptied while the client was not connected: nothing
\* tells the client, and nothing removes it from the registry.
Stale(id) == label[id] # Empty /\ retained[id]["name"] = Empty

\* The registry says what the retained topics say, however often the connection
\* was lost meanwhile, but for a name that was emptied while it was: that one is
\* Stale (broker.js:48-50, "the registry refills itself on every reconnect without
\* any explicit resynchronisation").
RegistryRefills ==
  Quiet => \A id \in Present :
    /\ Stale(id) \/ label[id] = retained[id]["name"]
    /\ available[id] = retained[id]["availability"]

\* Where a device is, by the bridge's topics.
Owner(device) ==
  LET owners == {id \in NodeIds : /\ retained[id]["name"] # Empty
                                  /\ Lower[retained[id]["name"]] = Lower[device]}
  IN  IF owners = {} THEN None ELSE CHOOSE id \in owners : TRUE

ByName == {i \in InNodes : Device[i] \notin NodeIds}
NoneStale == \A id \in NodeIds : ~Stale(id)

\* An in node is bound to the device of its name, whoever had that name before,
\* and waits when there is none; only a stale name can mislead it
\* (in.js:45-61; nodered/README.md:51-53, "Resolution is continuous").
BoundToOwner == Quiet /\ NoneStale => \A i \in ByName : bound[i] = Owner(Device[i])

\* A device that is on the broker under its name is found, whatever was published
\* while the client was away (nodered/README.md:51-53, "a device that is offline,
\* renamed, or commissioned later binds as soon as its name topic appears").
BindsWhenPublished ==
  Quiet => \A i \in ByName : Owner(Device[i]) # None => bound[i] = Owner(Device[i])

\* A subscription shared by in nodes lasts while one of them needs it, through
\* rebinding, redeployment and reconnection (broker.js:129-158).
SubscriptionsKept == Quiet => \A i \in InNodes : bound[i] # None => bound[i] \in subs

\* What an in node last sent is the current value of the device it is bound to
\* now, not one from before an outage or of the device it was bound to before.
\* (One that joins another's subscription has nothing to send until a report.)
NoOldValue ==
  Quiet => \A i \in InNodes :
    bound[i] # None /\ seen[i] # None /\ retained[bound[i]]["value"] # Empty =>
      seen[i] = retained[bound[i]]["value"]

\* If in the end no name is stale (emptied while the client was away, and not told
\* of since), an in node comes to be bound to its device and stays so, through swaps
\* of names, redeployments and connections lost meanwhile.  Without that condition
\* the code does not do it: BindsWhenPublished (in.js:45-78; nodered/README.md:51-53,
\* "a device that is offline, renamed, or commissioned later binds as soon as its
\* name topic appears").
BindsForGood ==
  \A i \in ByName : <>[]NoneStale => <>[](bound[i] = Owner(Device[i]))
=============================================================================
