---------------------------- MODULE BridgeProofs ----------------------------
(***************************************************************************)
(* Proofs about Bridge for any nodes, labels, capacities and failures, and *)
(* that it implements Mirror where only sessions fail.                     *)
(***************************************************************************)
EXTENDS BridgeMirror, SequenceTheorems, TLAPS

-----------------------------------------------------------------------------
(* The keys of a fabric, as in NamerProofs, which has the Namer's own Init and *)
(* Next and cannot be extended here.                                           *)

\* No label reads like another label followed by a node id.
NoSuffixClash ==
  \A l, m \in Labels : \A id \in NodeIds :
    Segment[l] # Empty /\ Segment[m] # Empty
      => Fold(Segment[l]) # Fold(Suffixed(Segment[m], id))

\* Folding keeps the length of a name, and the number a suffixed name ends in.
LEMMA FoldSuffixed ==
  ASSUME NEW name \in Names, NEW id \in NodeIds
  PROVE  /\ DOMAIN Fold(Suffixed(name, id)) = 1 .. Len(name) + 1
         /\ Fold(Suffixed(name, id))[Len(name) + 1] = id
<1>1. name \in Seq(Words \cup NodeIds)
  BY DEF Names
<1>2. id \in Words \cup NodeIds /\ id \notin Words
  BY NamingAssumption
<1>3. /\ Len(name) \in Nat
      /\ DOMAIN Suffixed(name, id) = 1 .. Len(name) + 1
      /\ Suffixed(name, id)[Len(name) + 1] = id
  BY <1>1, <1>2 DEF Suffixed
<1> QED
  BY <1>2, <1>3 DEF Fold

\* Two nodes that are both suffixed have different keys: the suffix tells them
\* apart (naming.go:77-79).
LEMMA SuffixesDistinct ==
  ASSUME NEW m \in Names, NEW n \in Names, NEW i \in NodeIds, NEW j \in NodeIds,
         Fold(Suffixed(m, i)) = Fold(Suffixed(n, j))
  PROVE  i = j
<1>1. Len(m) \in Nat /\ Len(n) \in Nat
  BY DEF Names
<1>2. 1 .. Len(m) + 1 = 1 .. Len(n) + 1
  BY FoldSuffixed
<1>3. Len(m) = Len(n)
  BY <1>1, <1>2
<1> QED
  BY <1>3, FoldSuffixed

\* Every node's base name is a name or Empty.
LEMMA BaseType ==
  ASSUME NEW newLabels \in [NodeIds -> Labels], NEW id \in NodeIds
  PROVE  /\ Base(newLabels)[id] = Segment[newLabels[id]]
         /\ Base(newLabels)[id] = Empty \/ Base(newLabels)[id] \in Names
  BY NamingAssumption DEF Base

\* The keys of a fabric are distinct under folding (naming.go:70-82).
LEMMA KeysDistinct ==
  ASSUME NoSuffixClash,
         NEW newLabels \in [NodeIds -> Labels],
         NEW i \in NodeIds, NEW j \in NodeIds, i # j,
         NamesOf(newLabels)[i] # Empty
  PROVE  ~SameName(NamesOf(newLabels)[i], NamesOf(newLabels)[j])
<1> DEFINE base == Base(newLabels)
           keys == NamesOf(newLabels)
           coll == Collisions(newLabels)
<1> SUFFICES ASSUME SameName(keys[i], keys[j])
             PROVE  FALSE
  OBVIOUS
<1>1. \A k \in NodeIds : keys[k] = IF k \in coll THEN Suffixed(base[k], k) ELSE base[k]
  BY DEF NamesOf
<1>2. \A k \in coll : k \in NodeIds /\ base[k] # Empty
  BY DEF Collisions, SameName
<1>3. keys[i] # Empty /\ keys[j] # Empty /\ Fold(keys[i]) = Fold(keys[j])
  BY DEF SameName
<1>4. \A k \in NodeIds : keys[k] # Empty => base[k] # Empty
  BY <1>1, <1>2
<1>5. \A k \in NodeIds : keys[k] # Empty => base[k] \in Names
  BY <1>4, BaseType
<1> HIDE DEF base, keys, coll
<1>6. CASE i \in coll /\ j \in coll
  BY <1>1, <1>3, <1>5, <1>6, SuffixesDistinct
<1>7. CASE i \notin coll /\ j \notin coll
  <2>1. Fold(base[i]) = Fold(base[j]) /\ base[i] # Empty /\ base[j] # Empty
    BY <1>1, <1>3, <1>4, <1>7
  <2>2. i \in coll
    BY <2>1 DEF coll, base, Collisions, SameName
  <2> QED
    BY <2>2, <1>7
<1>8. \A k \in NodeIds : keys[k] # Empty =>
        /\ base[k] = Segment[newLabels[k]]
        /\ newLabels[k] \in Labels
  BY BaseType DEF base
<1>9. CASE i \notin coll /\ j \in coll
  <2>1. Fold(Segment[newLabels[i]]) = Fold(Suffixed(Segment[newLabels[j]], j))
    BY <1>1, <1>3, <1>8, <1>9
  <2> QED
    BY <2>1, <1>3, <1>4, <1>8 DEF NoSuffixClash
<1>10. CASE i \in coll /\ j \notin coll
  <2>1. Fold(Segment[newLabels[j]]) = Fold(Suffixed(Segment[newLabels[i]], i))
    BY <1>1, <1>3, <1>8, <1>10
  <2> QED
    BY <2>1, <1>3, <1>4, <1>8 DEF NoSuffixClash
<1> QED
  BY <1>6, <1>7, <1>9, <1>10

-----------------------------------------------------------------------------
(* Publications. *)

\* What the three parts of a publication are.
WellFormed(pub) ==
  \A p \in pub : /\ p[1] \in Topic /\ p[2] \in NodeIds
                 /\ p[3] = Empty \/ p[3] \in Payloads(p[1][3])

-----------------------------------------------------------------------------
(* The operators. *)

\* The cached nodes give every node id a label (naming.go:126).
LEMMA LabelsOfType ==
  ASSUME NEW ns \in Nodes
  PROVE  LabelsOf(ns) \in [NodeIds -> Labels]
  BY NamingAssumption DEF LabelsOf, Nodes, Node

\* Whatever the labels, Recompute's keys are keys or none (naming.go:70-82).
LEMMA NamesOfType ==
  ASSUME NEW ls \in [NodeIds -> Labels]
  PROVE  NamesOf(ls) \in [NodeIds -> Keys \cup {Empty}]
<1> SUFFICES ASSUME NEW id \in NodeIds
             PROVE  NamesOf(ls)[id] \in Keys \cup {Empty}
  BY DEF NamesOf
<1>1. Base(ls)[id] = Segment[ls[id]]
  BY DEF Base
<1>2. id \in Collisions(ls) => Base(ls)[id] # Empty
  BY DEF Collisions, SameName
<1>3. NamesOf(ls)[id] = IF id \in Collisions(ls) THEN Suffixed(Base(ls)[id], id)
                                                 ELSE Base(ls)[id]
  BY DEF NamesOf
<1> QED
  BY <1>1, <1>2, <1>3 DEF Keys

\* Nobody has a name where nobody has a label.
LEMMA NoNames ==
  NamesOf(LabelsOf([id \in NodeIds |-> Absent])) = [id \in NodeIds |-> Empty]
<1> DEFINE ls == LabelsOf([id \in NodeIds |-> Absent])
<1>1. \A id \in NodeIds : Base(ls)[id] = Empty
  BY NamingAssumption DEF LabelsOf, Base
<1>2. Collisions(ls) = {}
  BY <1>1 DEF Collisions, SameName
<1> QED
  BY <1>1, <1>2 DEF NamesOf

\* The topics of publishNode are topics of the numeric tree.
LEMMA NodeTopic ==
  ASSUME NEW id \in NodeIds, NEW leaf \in Leaves
  PROVE  <<"node", id, leaf>> \in Topic /\ <<"node", id, leaf>>[3] = leaf
  BY DEF Topic

\* An attribute's topics are topics, and end in the attribute (bridge.go:432-440).
LEMMA AttributeTopicsType ==
  ASSUME NEW id \in NodeIds, NEW key \in Keys \cup {Empty}, NEW leaf \in StateLeaves,
         NEW t \in Retained(id, key, leaf)
  PROVE  t \in Topic /\ t[3] = leaf
<1>1. t \in AttributeTopics(id, key, leaf)
  BY DEF Retained
<1>2. t = <<"node", id, leaf>> \/ (key # Empty /\ t = <<"named", key, leaf>>)
  BY <1>1 DEF AttributeTopics
<1>3. CASE t = <<"node", id, leaf>>
  BY <1>3, NodeTopic DEF Leaves
<1>4. CASE key # Empty /\ t = <<"named", key, leaf>>
  BY <1>4 DEF Topic, NamedTopic
<1> QED
  BY <1>2, <1>3, <1>4

\* publishNode puts a payload of the right kind on each of its topics.
LEMMA PublishNodeType ==
  ASSUME NEW id \in NodeIds, NEW n \in Node, NEW key \in Keys \cup {Empty}
  PROVE  WellFormed(PublishNode(id, n, key))
<1> SUFFICES ASSUME NEW t \in NodeTopics(id, n, key)
             PROVE  /\ t \in Topic
                    /\ \/ Payload(n, key, t[3]) = Empty
                       \/ Payload(n, key, t[3]) \in Payloads(t[3])
  BY DEF WellFormed, PublishNode
<1>1. t \in Topic /\ t[3] \in Leaves
  <2>1. CASE t \in {<<"node", id, leaf>> : leaf \in {"availability", "name", "descriptor"}}
    BY <2>1, NodeTopic DEF Leaves
  <2>2. CASE t \in UNION {Retained(id, key, leaf) : leaf \in Attributes(n)}
    BY <2>2, AttributeTopicsType DEF Attributes, Leaves
  <2> QED
    BY <2>1, <2>2 DEF NodeTopics
<1>2. \A leaf \in Leaves : Payload(n, key, leaf) = Empty \/ Payload(n, key, leaf) \in Payloads(leaf)
  BY DEF Leaves, StateLeaves, Payload, Payloads, Node
<1> QED
  BY <1>1, <1>2

-----------------------------------------------------------------------------
(* The steps of a handler. *)

\* Well-formed publications keep what the broker retains well-formed.
LEMMA SendType ==
  ASSUME BrokerTypeOK, NEW wiped, NEW pub, WellFormed(pub), Send(wiped, pub)
  PROVE  /\ DOMAIN retained' = Topic
         /\ \A t \in Topic : retained'[t] = Empty \/ retained'[t] \in Payloads(t[3])
<1> DEFINE sent(t) == {p \in pub : p[1] = t}
           gone == UNION {wiped[id] : id \in NodeIds}
<1>1. CASE ~mqtt
  BY <1>1 DEF Send, BrokerTypeOK
<1>2. CASE mqtt
  <2>1. retained' = [t \in Topic |-> IF sent(t) # {} THEN (CHOOSE p \in sent(t) : TRUE)[3]
                                     ELSE IF t \in gone THEN Empty ELSE retained[t]]
    BY <1>2 DEF Send
  <2>2. ASSUME NEW t \in Topic, sent(t) # {}
        PROVE  retained'[t] = Empty \/ retained'[t] \in Payloads(t[3])
    <3> DEFINE p == CHOOSE q \in sent(t) : TRUE
    <3>1. p \in sent(t)
      BY <2>2
    <3>2. p \in pub /\ p[1] = t
      BY <3>1
    <3>3. p[3] = Empty \/ p[3] \in Payloads(t[3])
      BY <3>2 DEF WellFormed
    <3>4. retained'[t] = p[3]
      BY <2>1, <2>2
    <3> QED
      BY <3>3, <3>4
  <2>3. ASSUME NEW t \in Topic, sent(t) = {}
        PROVE  retained'[t] = Empty \/ retained'[t] \in Payloads(t[3])
    BY <2>1, <2>3 DEF BrokerTypeOK
  <2> QED
    BY <2>1, <2>2, <2>3
<1> QED
  BY <1>1, <1>2

\* ... and what is tracked: every published topic is a topic.
LEMMA PublishType ==
  ASSUME BrokerTypeOK, NEW wiped, NEW pub, WellFormed(pub), Publish(wiped, pub)
  PROVE  BrokerTypeOK'
<1>1. /\ DOMAIN retained' = Topic
      /\ \A t \in Topic : retained'[t] = Empty \/ retained'[t] \in Payloads(t[3])
  BY SendType DEF Publish
<1>2. tracked' \in [NodeIds -> SUBSET Topic]
  <2> SUFFICES ASSUME NEW id \in NodeIds
               PROVE  (tracked[id] \ wiped[id]) \cup {p[1] : p \in {q \in pub : q[2] = id}}
                        \subseteq Topic
    BY DEF Publish, Track
  <2>1. tracked[id] \subseteq Topic
    BY DEF BrokerTypeOK
  <2>2. \A p \in pub : p[1] \in Topic
    BY DEF WellFormed
  <2> QED
    BY <2>1, <2>2
<1> QED
  BY <1>1, <1>2 DEF BrokerTypeOK

\* refreshNames keeps both, and leaves the keys of the nodes it was given.
LEMMA RefreshNamesType ==
  ASSUME BrokerTypeOK, NEW ns \in Nodes, NEW wiped, NEW pub, WellFormed(pub),
         RefreshNames(ns, wiped, pub)
  PROVE  BrokerTypeOK' /\ names' = NamesOf(LabelsOf(ns))
<1> DEFINE new == NamesOf(LabelsOf(ns))
           again == Renewed(ns, new)
<1>1. new \in [NodeIds -> Keys \cup {Empty}]
  BY LabelsOfType, NamesOfType
<1>2. \A id \in NodeIds : ns[id] # Absent => ns[id] \in Node
  BY DEF Nodes
<1>3. \A id \in NodeIds : ns[id] # Absent => WellFormed(PublishNode(id, ns[id], new[id]))
  BY <1>1, <1>2, PublishNodeType
<1>4. WellFormed(pub \cup again)
  BY <1>3 DEF WellFormed, Changed, Renewed
<1>5. names' = new /\ Publish([id \in NodeIds |-> wiped[id] \cup OldAliases(new)[id]], pub \cup again)
  BY DEF RefreshNames
<1> QED
  BY <1>4, <1>5, PublishType

\* publishAttribute puts a payload of the right kind on each of its topics.
LEMMA PublishAttributeType ==
  ASSUME NEW id \in NodeIds, NEW key \in Keys \cup {Empty}, NEW leaf \in StateLeaves, NEW val,
         leaf = "label" => val \in Labels, leaf = "value" => val \in 0 .. MaxChanges
  PROVE  WellFormed(PublishAttribute(id, key, leaf, val))
<1>1. [json |-> val] \in Payloads(leaf)
  BY DEF StateLeaves, Payloads
<1>2. \A t \in Retained(id, key, leaf) : t \in Topic /\ t[3] = leaf
  BY AttributeTopicsType
<1> QED
  BY <1>1, <1>2 DEF WellFormed, PublishAttribute

\* readPump never puts more into Events than there is room for (matterws.go:209-217).
LEMMA DeliverType ==
  ASSUME events \in Seq(Event), Len(events) <= EventsCap, NEW ev \in Event, Deliver(ev)
  PROVE  events' \in Seq(Event) /\ Len(events') <= EventsCap
<1>1. CASE UNCHANGED events
  BY <1>1
<1>2. CASE Len(events) < EventsCap /\ events' = Append(events, ev)
  <2>1. events' \in Seq(Event) /\ Len(events') = Len(events) + 1
    BY <1>2
  <2> QED
    BY <1>2, <2>1, BridgeAssumption
<1> QED
  BY <1>1, <1>2 DEF Deliver

-----------------------------------------------------------------------------
(* What an event is, and what the handlers make of the cache. *)

\* Caching or deleting one node leaves a cache.
LEMMA NodesType ==
  ASSUME NEW ns \in Nodes, NEW id \in NodeIds, NEW n \in Node \cup {Absent}
  PROVE  [ns EXCEPT ![id] = n] \in Nodes
  BY DEF Nodes

\* A new session's channel is empty.
LEMMA EmptyType == <<>> \in Seq(Event) /\ Len(<<>>) <= EventsCap
<1>1. <<>> \in Seq(Event) /\ Len(<<>>) = 0
  OBVIOUS
<1> QED
  BY <1>1, BridgeAssumption

\* Taking an event gives an event and leaves a queue within its capacity.
LEMMA HeadType ==
  ASSUME events \in Seq(Event), Len(events) <= EventsCap, events # <<>>
  PROVE  /\ Head(events) \in Event
         /\ Tail(events) \in Seq(Event) /\ Len(Tail(events)) <= EventsCap
<1> DEFINE E == Event
<1>1. \A s \in Seq(E) : s # <<>> => Head(s) \in E /\ Tail(s) \in Seq(E) /\ Len(Tail(s)) <= Len(s)
  OBVIOUS
<1>2. Len(events) \in Nat /\ Len(Tail(events)) \in Nat
  BY <1>1
<1> QED
  BY <1>1, <1>2, BridgeAssumption

\* What handleEvent reads from an attribute_updated.
LEMMA AttributeEvent ==
  ASSUME NEW ev \in Event, ev.type = "attribute"
  PROVE  /\ ev.id \in NodeIds /\ ev.leaf \in StateLeaves
         /\ ev.leaf = "label" => ev.val \in Labels
         /\ ev.leaf = "value" => ev.val \in 0 .. MaxChanges
  BY DEF Event, StateLeaves

\* What handleEvent reads from a node_added or node_updated.
LEMMA NodeEvent ==
  ASSUME NEW ev \in Event, ev.type = "node"
  PROVE  ev.id \in NodeIds /\ ev.node \in Node
  BY DEF Event

\* What handleEvent reads from a node_removed.
LEMMA RemovedEvent ==
  ASSUME NEW ev \in Event, ev.type = "removed"
  PROVE  ev.id \in NodeIds
  BY DEF Event

\* A reported value does not change what anybody is called.
LEMMA CacheAttributeType ==
  ASSUME nodes \in Nodes, NEW id \in NodeIds, NEW leaf \in StateLeaves, NEW val,
         leaf = "label" => val \in Labels, leaf = "value" => val \in 0 .. MaxChanges
  PROVE  /\ CacheAttribute(id, leaf, val) \in Nodes
         /\ leaf = "value" => LabelsOf(CacheAttribute(id, leaf, val)) = LabelsOf(nodes)
<1>1. CASE nodes[id] = Absent
  BY <1>1 DEF CacheAttribute
<1>2. CASE nodes[id] # Absent /\ leaf = "label"
  <2>1. [nodes[id] EXCEPT !.label = val] \in Node
    BY <1>2 DEF Nodes, Node
  <2>2. CacheAttribute(id, leaf, val) = [nodes EXCEPT ![id] = [nodes[id] EXCEPT !.label = val]]
    BY <1>2 DEF CacheAttribute, Nodes
  <2> QED
    BY <1>2, <2>1, <2>2, NodesType
<1>3. CASE nodes[id] # Absent /\ leaf = "value"
  <2> DEFINE n == [nodes[id] EXCEPT !.value = val]
             ns == CacheAttribute(id, leaf, val)
  <2>1. n \in Node /\ n.label = nodes[id].label /\ n # Absent
    BY <1>3, NodeAssumption DEF Nodes, Node
  <2>2. ns = [nodes EXCEPT ![id] = n]
    BY <1>3 DEF CacheAttribute, Nodes
  <2>3. [nodes EXCEPT ![id] = n] \in Nodes
    BY <2>1 DEF Nodes
  <2>4. ASSUME NEW other \in NodeIds
        PROVE  (IF ns[other] = Absent THEN NoLabel ELSE ns[other].label)
                 = (IF nodes[other] = Absent THEN NoLabel ELSE nodes[other].label)
    BY <1>3, <2>1, <2>2 DEF Nodes
  <2> QED
    BY <1>3, <2>2, <2>3, <2>4 DEF LabelsOf
<1> QED
  BY <1>1, <1>2, <1>3 DEF StateLeaves

\* The keys of any cache are keys or none.
LEMMA NamesType ==
  ASSUME NEW ns \in Nodes
  PROVE  NamesOf(LabelsOf(ns)) \in [NodeIds -> Keys \cup {Empty}]
  BY LabelsOfType, NamesOfType

-----------------------------------------------------------------------------
(* Type correctness, with the names in step with the cache: a handler's *)
(* publications are typed because the names are, and those because they *)
(* are computed from the cache.                                         *)

SafeInv == TypeOK /\ NamesInSync

\* A bridge that has just started is type correct and has no names for its empty cache.
LEMMA InitSafe == Init => SafeInv
<1> SUFFICES ASSUME Init PROVE SafeInv
  OBVIOUS
<1> USE BridgeAssumption, NodeAssumption DEF Init
<1>1. [id \in NodeIds |-> Absent] \in Nodes
  BY DEF Nodes
<1>2. WorldTypeOK
  BY DEF WorldTypeOK
<1>3. BrokerTypeOK
  BY DEF BrokerTypeOK, NoTopics
<1>4. ConnectionTypeOK
  BY DEF ConnectionTypeOK
<1>5. SessionTypeOK
  BY <1>1, EmptyType DEF SessionTypeOK
<1>6. CacheTypeOK
  BY <1>1 DEF CacheTypeOK
<1>7. NamesInSync
  BY NoNames DEF NamesInSync
<1> QED
  BY <1>2, <1>3, <1>4, <1>5, <1>6, <1>7 DEF SafeInv, TypeOK

\* The fabric changes: the bridge does not.
LEMMA ChangeSafe ==
  ASSUME SafeInv, NEW id \in NodeIds, NEW n \in Node \cup {Absent}, Change(id, n),
         NEW ev \in Event, Deliver(ev), commissioned' \subseteq NodeIds
  PROVE  SafeInv'
<1> USE DEF SafeInv, TypeOK, Change, broker
<1>1. WorldTypeOK'
  <2>1. fabric' \in Nodes
    BY NodesType DEF WorldTypeOK
  <2>2. clock' \in 0 .. MaxChanges
    BY BridgeAssumption DEF WorldTypeOK
  <2> QED
    BY <2>1, <2>2 DEF WorldTypeOK
<1>2. BrokerTypeOK'
  BY DEF BrokerTypeOK
<1>3. ConnectionTypeOK'
  BY DEF ConnectionTypeOK
<1>4. SessionTypeOK'
  BY DeliverType DEF SessionTypeOK
<1>5. CacheTypeOK'
  BY DEF CacheTypeOK
<1>6. NamesInSync'
  BY DEF NamesInSync
<1> QED
  BY <1>1, <1>2, <1>3, <1>4, <1>5, <1>6

\* What the fabric does reaches the bridge by its events alone.
LEMMA FabricNextSafe == SafeInv /\ FabricNext => SafeInv'
<1> SUFFICES ASSUME SafeInv, NEW id \in NodeIds,
                    Commission(id) \/ ReportValue(id) \/ Relabel(id)
                      \/ ChangeAvailability(id) \/ Decommission(id)
             PROVE  SafeInv'
  BY DEF FabricNext
<1> USE DEF Event
<1>1. commissioned \subseteq NodeIds /\ clock \in 0 .. MaxChanges
  BY DEF SafeInv, TypeOK, WorldTypeOK
<1>2. fabric[id] # Absent => fabric[id] \in Node
  BY DEF SafeInv, TypeOK, WorldTypeOK, Nodes
<1>3. ASSUME NEW n, Change(id, n)
      PROVE  clock + 1 \in 0 .. MaxChanges
  BY <1>1, <1>3, BridgeAssumption DEF Change
<1>4. CASE Commission(id)
  <2>1. PICK l \in Labels :
          LET n == [label |-> l, value |-> clock + 1, available |-> TRUE]
          IN  Change(id, n) /\ Deliver([type |-> "node", id |-> id, node |-> n])
    BY <1>4 DEF Commission
  <2> DEFINE n == [label |-> l, value |-> clock + 1, available |-> TRUE]
             ev == [type |-> "node", id |-> id, node |-> n]
  <2>2. Change(id, n) /\ Deliver(ev)
    BY <2>1
  <2>3. n \in Node
    BY <1>3, <2>2 DEF Node
  <2>4. ev \in Event
    BY <2>3
  <2>5. commissioned' \subseteq NodeIds
    BY <1>1, <1>4 DEF Commission
  <2> HIDE DEF n, ev, Event
  <2> QED
    BY <2>2, <2>3, <2>4, <2>5, ChangeSafe
<1>5. CASE ReportValue(id)
  <2> DEFINE n == [fabric[id] EXCEPT !.value = clock + 1]
             ev == [type |-> "attribute", id |-> id, leaf |-> "value", val |-> clock + 1]
  <2>1. Change(id, n) /\ Deliver(ev) /\ fabric[id] # Absent /\ UNCHANGED commissioned
    BY <1>5 DEF ReportValue
  <2>2. clock + 1 \in 0 .. MaxChanges
    BY <1>3, <2>1
  <2>3. n \in Node
    BY <1>2, <2>1, <2>2 DEF Node
  <2>4. ev \in Event
    BY <2>2
  <2> HIDE DEF n, ev, Event
  <2> QED
    BY <1>1, <2>1, <2>3, <2>4, ChangeSafe
<1>6. CASE Relabel(id)
  <2>1. PICK l \in Labels :
          /\ Change(id, [fabric[id] EXCEPT !.label = l])
          /\ Deliver([type |-> "attribute", id |-> id, leaf |-> "label", val |-> l])
    BY <1>6 DEF Relabel
  <2> DEFINE n == [fabric[id] EXCEPT !.label = l]
             ev == [type |-> "attribute", id |-> id, leaf |-> "label", val |-> l]
  <2>2. fabric[id] # Absent /\ UNCHANGED commissioned
    BY <1>6 DEF Relabel
  <2>3. n \in Node
    BY <1>2, <2>2 DEF Node
  <2>4. ev \in Event
    OBVIOUS
  <2>5. Change(id, n) /\ Deliver(ev)
    BY <2>1
  <2> HIDE DEF n, ev, Event
  <2> QED
    BY <1>1, <2>2, <2>3, <2>4, <2>5, ChangeSafe
<1>7. CASE ChangeAvailability(id)
  <2> DEFINE n == [fabric[id] EXCEPT !.available = ~@]
             ev == [type |-> "node", id |-> id, node |-> n]
  <2>1. Change(id, n) /\ Deliver(ev) /\ fabric[id] # Absent /\ UNCHANGED commissioned
    BY <1>7 DEF ChangeAvailability
  <2>2. n \in Node
    BY <1>2, <2>1 DEF Node
  <2>3. ev \in Event
    BY <2>2
  <2> HIDE DEF n, ev, Event
  <2> QED
    BY <1>1, <2>1, <2>2, <2>3, ChangeSafe
<1>8. CASE Decommission(id)
  <2> DEFINE ev == [type |-> "removed", id |-> id]
  <2>1. Change(id, Absent) /\ Deliver(ev) /\ UNCHANGED commissioned
    BY <1>8 DEF Decommission
  <2>2. ev \in Event
    OBVIOUS
  <2> HIDE DEF ev, Event
  <2> QED
    BY <1>1, <2>1, <2>2, ChangeSafe
<1> QED
  BY <1>4, <1>5, <1>6, <1>7, <1>8

\* The count of failures stays within its bound.
LEMMA HiccupType ==
  ASSUME WorldTypeOK, Hiccup \/ UNCHANGED hiccups
  PROVE  hiccups' \in 0 .. MaxHiccups
  BY BridgeAssumption DEF WorldTypeOK, Hiccup

\* A step that leaves the fabric, the cache and the names alone.
LEMMA QuietSafe ==
  ASSUME SafeInv, UNCHANGED <<env, fabric, commissioned, clock, nodes, names, req>>,
         hiccups' \in 0 .. MaxHiccups, BrokerTypeOK', ConnectionTypeOK', SessionTypeOK'
  PROVE  SafeInv'
<1> USE DEF SafeInv, TypeOK
<1>1. WorldTypeOK'
  BY DEF WorldTypeOK
<1>2. CacheTypeOK' /\ NamesInSync'
  BY DEF CacheTypeOK, NamesInSync
<1> QED
  BY <1>1, <1>2

\* A step of the session that publishes nothing.
LEMMA PassiveSafe ==
  ASSUME SafeInv, SessionUnchanged, UNCHANGED <<broker, nodes, names, tracked>>,
         Hiccup \/ UNCHANGED hiccups, SessionTypeOK'
  PROVE  SafeInv'
<1> USE DEF SafeInv, TypeOK, SessionUnchanged, external, broker
<1>1. hiccups' \in 0 .. MaxHiccups
  BY HiccupType
<1>2. BrokerTypeOK' /\ ConnectionTypeOK'
  BY DEF BrokerTypeOK, ConnectionTypeOK
<1> QED
  BY <1>1, <1>2, QuietSafe

\* A dump replaces cache and names together (bridge.go:269-289).
LEMMA DumpSafe == SafeInv /\ Dump => SafeInv'
<1> SUFFICES ASSUME SafeInv, Dump PROVE SafeInv'
  OBVIOUS
<1> USE DEF SafeInv, TypeOK, SessionUnchanged, external
<1> DEFINE pub == UNION {PublishNode(id, dump[id], names'[id]) : id \in Dumped(names')}
<1>1. dump \in Nodes /\ nodes' = dump /\ names' = NamesOf(LabelsOf(dump)) /\ Publish(NoTopics, pub)
  BY DEF Dump, SessionTypeOK
<1>2. names' \in [NodeIds -> Keys \cup {Empty}]
  BY <1>1, NamesType
<1>3. \A id \in Dumped(names') : id \in NodeIds /\ dump[id] \in Node
  BY <1>1 DEF Dumped, Nodes
<1>4. \A id \in Dumped(names') : WellFormed(PublishNode(id, dump[id], names'[id]))
  BY <1>2, <1>3, PublishNodeType
<1>5. WellFormed(pub)
  BY <1>4 DEF WellFormed
<1>6. BrokerTypeOK'
  BY <1>1, <1>5, PublishType
<1>7. WorldTypeOK'
  BY DEF WorldTypeOK, Dump
<1>8. ConnectionTypeOK' /\ SessionTypeOK'
  BY DEF ConnectionTypeOK, SessionTypeOK, Dump
<1>9. CacheTypeOK' /\ NamesInSync'
  BY <1>1, <1>2 DEF CacheTypeOK, NamesInSync
<1> QED
  BY <1>6, <1>7, <1>8, <1>9

\* What every event handler has in common.
LEMMA ReceiveType ==
  ASSUME SafeInv, NEW type, Receive(type)
  PROVE  /\ Head(events) \in Event /\ Head(events).type = type
         /\ WorldTypeOK' /\ ConnectionTypeOK' /\ SessionTypeOK'
<1> USE DEF SafeInv, TypeOK, SessionUnchanged, external, Receive
<1>1. WorldTypeOK' /\ ConnectionTypeOK'
  BY DEF WorldTypeOK, ConnectionTypeOK
<1>2. Head(events) \in Event /\ Tail(events) \in Seq(Event) /\ Len(Tail(events)) <= EventsCap
  BY HeadType DEF SessionTypeOK
<1>3. SessionTypeOK'
  BY <1>2 DEF SessionTypeOK
<1> QED
  BY <1>1, <1>2, <1>3

\* Only a new label makes new names, and they follow (bridge.go:329-334).
LEMMA HandleAttributeSafe == SafeInv /\ HandleAttribute => SafeInv'
<1> SUFFICES ASSUME SafeInv, HandleAttribute PROVE SafeInv'
  OBVIOUS
<1> DEFINE ev == Head(events)
           pub(key) == PublishAttribute(ev.id, key, ev.leaf, ev.val)
<1>1. Receive("attribute") /\ nodes' = CacheAttribute(ev.id, ev.leaf, ev.val)
  BY DEF HandleAttribute
<1>2. ev \in Event /\ ev.type = "attribute" /\ WorldTypeOK' /\ ConnectionTypeOK' /\ SessionTypeOK'
  BY <1>1, ReceiveType
<1>3. /\ ev.id \in NodeIds /\ ev.leaf \in StateLeaves
      /\ ev.leaf = "label" => ev.val \in Labels
      /\ ev.leaf = "value" => ev.val \in 0 .. MaxChanges
  BY <1>2, AttributeEvent
<1>4. /\ nodes \in Nodes /\ names \in [NodeIds -> Keys \cup {Empty}] /\ BrokerTypeOK
      /\ names = NamesOf(LabelsOf(nodes))
  BY DEF SafeInv, TypeOK, CacheTypeOK, NamesInSync
<1> HIDE DEF ev
<1>5. /\ nodes' \in Nodes
      /\ ev.leaf = "value" => LabelsOf(nodes') = LabelsOf(nodes)
  BY <1>1, <1>3, <1>4, CacheAttributeType
<1>6. CASE ev.leaf = "label"
  <2> DEFINE key == NamesOf(LabelsOf(nodes'))[ev.id]
  <2>1. RefreshNames(nodes', NoTopics, pub(key))
    BY <1>6 DEF HandleAttribute, ev
  <2>2. key \in Keys \cup {Empty}
    BY <1>3, <1>5, NamesType
  <2>3. WellFormed(pub(key))
    BY <1>3, <2>2, PublishAttributeType
  <2>4. BrokerTypeOK' /\ names' = NamesOf(LabelsOf(nodes'))
    BY <1>4, <1>5, <2>1, <2>3, RefreshNamesType
  <2>5. CacheTypeOK' /\ NamesInSync'
    BY <1>5, <2>4, NamesType DEF CacheTypeOK, NamesInSync
  <2> QED
    BY <1>2, <2>4, <2>5 DEF SafeInv, TypeOK
<1>7. CASE ev.leaf # "label"
  <2>1. Publish(NoTopics, pub(names[ev.id])) /\ names' = names
    BY <1>7 DEF HandleAttribute, ev
  <2>2. WellFormed(pub(names[ev.id]))
    BY <1>3, <1>4, PublishAttributeType
  <2>3. BrokerTypeOK'
    BY <1>4, <2>1, <2>2, PublishType
  <2>4. CacheTypeOK' /\ NamesInSync'
    BY <1>3, <1>4, <1>5, <1>7, <2>1 DEF CacheTypeOK, NamesInSync, StateLeaves
  <2> QED
    BY <1>2, <2>3, <2>4 DEF SafeInv, TypeOK
<1> QED
  BY <1>6, <1>7

\* The handlers that end with the names recomputed.
LEMMA RefreshSafe ==
  ASSUME SafeInv, WorldTypeOK', ConnectionTypeOK', SessionTypeOK', nodes' \in Nodes,
         NEW wiped, NEW pub, WellFormed(pub), RefreshNames(nodes', wiped, pub)
  PROVE  SafeInv'
<1>1. BrokerTypeOK' /\ names' = NamesOf(LabelsOf(nodes'))
  BY RefreshNamesType DEF SafeInv, TypeOK
<1>2. CacheTypeOK' /\ NamesInSync'
  BY <1>1, NamesType DEF CacheTypeOK, NamesInSync
<1> QED
  BY <1>1, <1>2 DEF SafeInv, TypeOK

\* A node that is added or updated may have any label: the names follow.
LEMMA HandleNodeSafe == SafeInv /\ HandleNode => SafeInv'
<1> SUFFICES ASSUME SafeInv, HandleNode PROVE SafeInv'
  OBVIOUS
<1> DEFINE ev == Head(events)
           key == NamesOf(LabelsOf(nodes'))[ev.id]
<1>1. /\ Receive("node") /\ nodes' = [nodes EXCEPT ![ev.id] = ev.node]
      /\ RefreshNames(nodes', NoTopics, PublishNode(ev.id, ev.node, key))
  BY DEF HandleNode, CacheNode
<1>2. ev \in Event /\ ev.type = "node" /\ WorldTypeOK' /\ ConnectionTypeOK' /\ SessionTypeOK'
  BY <1>1, ReceiveType
<1>3. ev.id \in NodeIds /\ ev.node \in Node
  BY <1>2, NodeEvent
<1>4. nodes' \in Nodes
  BY <1>1, <1>3, NodesType DEF SafeInv, TypeOK, CacheTypeOK
<1>5. key \in Keys \cup {Empty}
  BY <1>3, <1>4, NamesType
<1>6. WellFormed(PublishNode(ev.id, ev.node, key))
  BY <1>3, <1>5, PublishNodeType
<1> QED
  BY <1>1, <1>2, <1>4, <1>6, RefreshSafe

\* A removal may resolve a collision: the names follow (bridge.go:356-360).
LEMMA HandleRemovedSafe == SafeInv /\ HandleRemoved => SafeInv'
<1> SUFFICES ASSUME SafeInv, HandleRemoved PROVE SafeInv'
  OBVIOUS
<1> DEFINE ev == Head(events)
           wiped == [NoTopics EXCEPT ![ev.id] = tracked[ev.id]]
<1>1. /\ Receive("removed") /\ nodes' = [nodes EXCEPT ![ev.id] = Absent]
      /\ RefreshNames(nodes', wiped, {})
  BY DEF HandleRemoved
<1>2. ev \in Event /\ ev.type = "removed" /\ WorldTypeOK' /\ ConnectionTypeOK' /\ SessionTypeOK'
  BY <1>1, ReceiveType
<1>3. ev.id \in NodeIds
  BY <1>2, RemovedEvent
<1>4. nodes' \in Nodes
  BY <1>1, <1>3, NodesType DEF SafeInv, TypeOK, CacheTypeOK
<1>5. WellFormed({})
  BY DEF WellFormed
<1> QED
  BY <1>1, <1>2, <1>4, <1>5, RefreshSafe

\* markAllUnavailable publishes an availability (bridge.go:828-830).
LEMMA ReconnectSafe == SafeInv /\ Reconnect => SafeInv'
<1> SUFFICES ASSUME SafeInv, Reconnect PROVE SafeInv'
  OBVIOUS
<1> USE DEF SafeInv, TypeOK, Reconnect, SessionUnchanged, external
<1>1. DOMAIN retained' = Topic
  BY DEF MarkAllUnavailable
<1>2. ASSUME NEW t \in Topic
      PROVE  retained'[t] = Empty \/ retained'[t] \in Payloads(t[3])
  <2>1. retained'[t] = retained[t]
          \/ (t[3] = "availability" /\ retained'[t] = "offline")
    BY DEF MarkAllUnavailable
  <2>2. "offline" \in Payloads("availability")
    BY DEF Payloads
  <2> QED
    BY <2>1, <2>2 DEF BrokerTypeOK
<1>3. BrokerTypeOK'
  BY <1>1, <1>2 DEF BrokerTypeOK
<1>4. ConnectionTypeOK' /\ SessionTypeOK' /\ hiccups' \in 0 .. MaxHiccups
  BY DEF ConnectionTypeOK, SessionTypeOK, WorldTypeOK
<1> QED
  BY <1>3, <1>4, QuietSafe

\* Every step of Run and session keeps the invariant.
LEMMA SessionNextSafe == SafeInv /\ SessionNext => SafeInv'
<1> SUFFICES ASSUME SafeInv, SessionNext PROVE SafeInv'
  OBVIOUS
<1>1. SessionTypeOK /\ fabric \in Nodes
  BY DEF SafeInv, TypeOK, WorldTypeOK
<1>2. CASE Dial
  <2>1. SessionTypeOK'
    BY <1>1, <1>2 DEF Dial, SessionTypeOK
  <2> QED
    BY <1>2, <2>1, PassiveSafe DEF Dial
<1>3. CASE DialFails
  <2>1. SessionTypeOK'
    BY <1>1, <1>3 DEF DialFails, SessionTypeOK
  <2> QED
    BY <1>3, <2>1, PassiveSafe DEF DialFails
<1>4. CASE ServerAnswers
  <2>1. SessionTypeOK'
    BY <1>1, <1>4 DEF ServerAnswers, SessionTypeOK
  <2> QED
    BY <1>4, <2>1, PassiveSafe DEF ServerAnswers
<1>5. CASE CallFails
  <2>1. SessionTypeOK'
    BY <1>1, <1>5, EmptyType DEF CallFails, SessionTypeOK
  <2> QED
    BY <1>5, <2>1, PassiveSafe DEF CallFails
<1>6. CASE WsDrops
  <2>1. SessionTypeOK'
    BY <1>1, <1>6 DEF WsDrops, SessionTypeOK
  <2> QED
    BY <1>6, <2>1, PassiveSafe DEF WsDrops
<1>7. CASE SessionEnds
  <2>1. SessionTypeOK'
    BY <1>1, <1>7 DEF SessionEnds, SessionTypeOK
  <2> QED
    BY <1>7, <2>1, PassiveSafe DEF SessionEnds
<1> QED
  BY <1>2, <1>3, <1>4, <1>5, <1>6, <1>7, DumpSafe, HandleAttributeSafe, HandleNodeSafe,
     HandleRemovedSafe, ReconnectSafe DEF SessionNext

-----------------------------------------------------------------------------
(* The remove_node goroutine, the broker connection and the process. *)

\* The goroutine of a request touches neither cache nor names.
LEMMA RequestNextSafe == SafeInv /\ RequestNext => SafeInv'
<1> SUFFICES ASSUME SafeInv, NEW id \in NodeIds,
                    RequestRemove(id) \/ ServerRemoves(id) \/ RequestFails(id) \/ FinishRemove(id)
             PROVE  SafeInv'
  BY DEF RequestNext
<1>1. RequestUnchanged
  BY DEF RequestRemove, ServerRemoves, RequestFails, FinishRemove
<1>2. ConnectionTypeOK' /\ CacheTypeOK' /\ NamesInSync'
  BY <1>1 DEF SafeInv, TypeOK, RequestUnchanged, ConnectionTypeOK, CacheTypeOK, NamesInSync
<1>3. fabric' \in Nodes
  <2>1. fabric' = fabric \/ fabric' = [fabric EXCEPT ![id] = Absent]
    BY DEF RequestRemove, ServerRemoves, RequestFails, FinishRemove
  <2> QED
    BY <2>1, NodesType DEF SafeInv, TypeOK, WorldTypeOK
<1>4. hiccups' \in 0 .. MaxHiccups
  BY HiccupType DEF SafeInv, TypeOK, RequestRemove, ServerRemoves, RequestFails, FinishRemove
<1>5. req' \in [NodeIds -> {"idle", "calling", "answered", "done"}]
  BY DEF SafeInv, TypeOK, WorldTypeOK, RequestRemove, ServerRemoves, RequestFails, FinishRemove
<1>6. WorldTypeOK'
  BY <1>1, <1>3, <1>4, <1>5 DEF SafeInv, TypeOK, RequestUnchanged, WorldTypeOK
<1>7. events' \in Seq(Event) /\ Len(events') <= EventsCap
  <2> DEFINE ev == [type |-> "removed", id |-> id]
  <2>1. ev \in Event
    BY DEF Event
  <2>2. UNCHANGED events \/ Deliver(ev)
    BY DEF RequestRemove, ServerRemoves, RequestFails, FinishRemove
  <2> HIDE DEF ev
  <2> QED
    BY <2>1, <2>2, DeliverType DEF SafeInv, TypeOK, SessionTypeOK
<1>8. SessionTypeOK'
  BY <1>1, <1>7 DEF SafeInv, TypeOK, RequestUnchanged, SessionTypeOK
<1>9. BrokerTypeOK'
  <2>1. CASE UNCHANGED <<retained, tracked>>
    BY <2>1 DEF SafeInv, TypeOK, BrokerTypeOK
  <2>2. CASE Publish([NoTopics EXCEPT ![id] = tracked[id]], {})
    <3>1. WellFormed({})
      BY DEF WellFormed
    <3> QED
      BY <2>2, <3>1, PublishType DEF SafeInv, TypeOK
  <2> QED
    BY <2>1, <2>2 DEF RequestRemove, ServerRemoves, RequestFails, FinishRemove
<1> QED
  BY <1>2, <1>6, <1>8, <1>9 DEF SafeInv, TypeOK

\* A restart begins with an empty cache and no names.
LEMMA CrashSafe == SafeInv /\ Crash => SafeInv'
<1> SUFFICES ASSUME SafeInv, Crash PROVE SafeInv'
  OBVIOUS
<1> USE DEF SafeInv, TypeOK, Crash, external, broker
<1>1. [id \in NodeIds |-> Absent] \in Nodes
  BY DEF Nodes
<1>2. WorldTypeOK'
  <2>1. hiccups' \in 0 .. MaxHiccups
    BY HiccupType
  <2> QED
    BY <2>1 DEF WorldTypeOK
<1>3. BrokerTypeOK'
  BY DEF BrokerTypeOK, NoTopics
<1>4. ConnectionTypeOK'
  BY DEF ConnectionTypeOK
<1>5. SessionTypeOK'
  BY <1>1, EmptyType DEF SessionTypeOK
<1>6. CacheTypeOK'
  BY <1>1 DEF CacheTypeOK
<1>7. NamesInSync'
  BY NoNames DEF NamesInSync
<1> QED
  BY <1>2, <1>3, <1>4, <1>5, <1>6, <1>7

\* The broker connection changes nothing but itself.
LEMMA MqttSafe == SafeInv /\ (MqttLost \/ MqttBack) => SafeInv'
<1> SUFFICES ASSUME SafeInv, MqttLost \/ MqttBack PROVE SafeInv'
  OBVIOUS
<1> USE DEF SafeInv, TypeOK, MqttLost, MqttBack, external, broker, session
<1>1. hiccups' \in 0 .. MaxHiccups
  BY HiccupType
<1>2. BrokerTypeOK' /\ ConnectionTypeOK' /\ SessionTypeOK'
  BY DEF BrokerTypeOK, ConnectionTypeOK, SessionTypeOK
<1> QED
  BY <1>1, <1>2, QuietSafe

\* The invariant is inductive.
LEMMA NextSafe == SafeInv /\ [Next]_vars => SafeInv'
<1>1. SafeInv /\ UNCHANGED vars => SafeInv'
  BY DEF vars, external, session, broker, SafeInv, TypeOK, WorldTypeOK, BrokerTypeOK,
         ConnectionTypeOK, SessionTypeOK, CacheTypeOK, NamesInSync
<1> QED
  BY <1>1, FabricNextSafe, SessionNextSafe, RequestNextSafe, MqttSafe, CrashSafe DEF Next

\* The invariant holds throughout.
LEMMA SpecSafe == Spec => []SafeInv
  BY InitSafe, NextSafe, PTL DEF Spec

\* Whatever fails, every retained payload is of its topic's kind, only topics of
\* the two trees are recorded, and readPump keeps Events within its capacity
\* (publishNode, publishAttribute, publishTracked and readPump).
THEOREM BridgeTypeCorrect == Spec => []TypeOK
<1>1. SafeInv => TypeOK
  BY DEF SafeInv
<1> QED
  BY <1>1, SpecSafe, PTL

\* Whatever fails, the keys in use are those of the cached nodes: a handler that
\* changes a label or the set of nodes recomputes the names in the same step, and
\* one that caches a value need not (handleEvent, session).
THEOREM NamesFollowCache == Spec => []NamesInSync
<1>1. SafeInv => NamesInSync
  BY DEF SafeInv
<1> QED
  BY <1>1, SpecSafe, PTL

-----------------------------------------------------------------------------
(* Which topics a step touches. *)

\* A topic of the named/ tree, or one of id's own in the numeric tree.
TopicOf(t, id) == t \in NamedTopic \/ \E leaf \in Leaves : t = <<"node", id, leaf>>

\* Every publication is tracked for the node whose topic it is on.
Owned(pub) == \A p \in pub : p[2] \in NodeIds /\ p[1] \in Topic /\ TopicOf(p[1], p[2])

\* A topic of an attribute is one of its node's.
LEMMA AttributeTopicsOwned ==
  ASSUME NEW id \in NodeIds, NEW key \in Keys \cup {Empty}, NEW leaf \in StateLeaves,
         NEW t \in Retained(id, key, leaf)
  PROVE  TopicOf(t, id)
<1>1. t \in AttributeTopics(id, key, leaf)
  BY DEF Retained
<1>2. t = <<"node", id, leaf>> \/ (key \in Keys /\ t = <<"named", key, leaf>>)
  BY <1>1 DEF AttributeTopics
<1>3. <<"named", key, leaf>> \in NamedTopic \/ key \notin Keys
  BY DEF NamedTopic
<1>4. leaf \in Leaves
  BY DEF Leaves
<1> QED
  BY <1>2, <1>3, <1>4 DEF TopicOf

\* A topic of publishNode is one of its node's.
LEMMA NodeTopicsOwned ==
  ASSUME NEW id \in NodeIds, NEW n \in Node, NEW key \in Keys \cup {Empty},
         NEW t \in NodeTopics(id, n, key)
  PROVE  TopicOf(t, id)
<1>1. CASE t \in {<<"node", id, leaf>> : leaf \in {"availability", "name", "descriptor"}}
  BY <1>1 DEF TopicOf, Leaves
<1>2. CASE t \in UNION {Retained(id, key, leaf) : leaf \in Attributes(n)}
  BY <1>2, AttributeTopicsOwned DEF Attributes
<1> QED
  BY <1>1, <1>2 DEF NodeTopics

\* publishNode and publishAttribute publish on topics of their node.
LEMMA PublishNodeOwned ==
  ASSUME NEW id \in NodeIds, NEW n \in Node, NEW key \in Keys \cup {Empty}
  PROVE  Owned(PublishNode(id, n, key))
<1>1. WellFormed(PublishNode(id, n, key))
  BY PublishNodeType
<1> QED
  BY <1>1, NodeTopicsOwned DEF Owned, PublishNode, WellFormed

LEMMA PublishAttributeOwned ==
  ASSUME NEW id \in NodeIds, NEW key \in Keys \cup {Empty}, NEW leaf \in StateLeaves, NEW val
  PROVE  Owned(PublishAttribute(id, key, leaf, val))
  BY AttributeTopicsType, AttributeTopicsOwned DEF Owned, PublishAttribute

\* What a topic holds after a handler: what it held, nothing, or what was sent.
LEMMA SendAt ==
  ASSUME NEW wiped, NEW pub, Send(wiped, pub), NEW t \in Topic
  PROVE  \/ /\ retained'[t] = retained[t]
            /\ mqtt => (\A p \in pub : p[1] # t) /\ (\A id \in NodeIds : t \notin wiped[id])
         \/ /\ retained'[t] = Empty /\ \A p \in pub : p[1] # t
            /\ \E id \in NodeIds : t \in wiped[id]
         \/ mqtt /\ \E p \in pub : p[1] = t /\ retained'[t] = p[3]
<1> DEFINE sent == {p \in pub : p[1] = t}
           gone == UNION {wiped[id] : id \in NodeIds}
<1>1. CASE ~mqtt
  BY <1>1 DEF Send
<1>2. CASE mqtt
  <2>1. retained'[t] = IF sent # {} THEN (CHOOSE p \in sent : TRUE)[3]
                       ELSE IF t \in gone THEN Empty ELSE retained[t]
    BY <1>2 DEF Send
  <2>2. CASE sent # {}
    <3>1. (CHOOSE p \in sent : TRUE) \in sent
      BY <2>2
    <3> QED
      BY <1>2, <2>1, <2>2, <3>1
  <2>3. CASE sent = {}
    BY <2>1, <2>3
  <2> QED
    BY <2>2, <2>3
<1> QED
  BY <1>1, <1>2

\* What a publication says: something of a cached node, under its key, or what an
\* attribute_updated reports.
OfCache(p, ns, keys) ==
  \E id \in NodeIds : ns[id] # Absent /\ p \in PublishNode(id, ns[id], keys[id])

OfEvent(p, ev, keys) ==
  /\ ev \in Event /\ ev.type = "attribute"
  /\ p \in PublishAttribute(ev.id, keys[ev.id], ev.leaf, ev.val)

\* Such publications are of their nodes' topics.
LEMMA SayingsOwned ==
  ASSUME NEW ns \in Nodes, NEW keys \in [NodeIds -> Keys \cup {Empty}], NEW ev, NEW pub,
         \A p \in pub : OfCache(p, ns, keys) \/ OfEvent(p, ev, keys)
  PROVE  Owned(pub)
<1> SUFFICES ASSUME NEW p \in pub
             PROVE  p[2] \in NodeIds /\ p[1] \in Topic /\ TopicOf(p[1], p[2])
  BY DEF Owned
<1>1. CASE OfCache(p, ns, keys)
  <2>1. PICK id \in NodeIds : ns[id] # Absent /\ p \in PublishNode(id, ns[id], keys[id])
    BY <1>1 DEF OfCache
  <2>2. Owned(PublishNode(id, ns[id], keys[id]))
    BY <2>1, PublishNodeOwned DEF Nodes
  <2> QED
    BY <2>1, <2>2 DEF Owned
<1>2. CASE OfEvent(p, ev, keys)
  <2>1. ev.id \in NodeIds /\ ev.leaf \in StateLeaves
    BY <1>2, AttributeEvent DEF OfEvent
  <2>2. Owned(PublishAttribute(ev.id, keys[ev.id], ev.leaf, ev.val))
    BY <2>1, PublishAttributeOwned
  <2> QED
    BY <1>2, <2>2 DEF OfEvent, Owned
<1> QED
  BY <1>1, <1>2

\* refreshNames publishes the renamed nodes again, beside pub, and clears their
\* named/ topics, beside wiped.
LEMMA RefreshNamesPublishes ==
  ASSUME NEW ns, NEW wiped, NEW pub, RefreshNames(ns, wiped, pub), NEW ev,
         \A p \in pub : OfCache(p, ns, names') \/ OfEvent(p, ev, names')
  PROVE  \E gone, sent :
           /\ Publish(gone, sent)
           /\ \A p \in sent : OfCache(p, ns, names') \/ OfEvent(p, ev, names')
           /\ pub \subseteq sent
           /\ \A id \in NodeIds :
                /\ wiped[id] \subseteq gone[id]
                /\ gone[id] \subseteq wiped[id] \cup (tracked[id] \cap NamedTopic)
                /\ names'[id] = names[id] => gone[id] = wiped[id]
                /\ names'[id] # names[id] =>
                     /\ tracked[id] \cap NamedTopic \subseteq gone[id]
                     /\ ns[id] # Absent => PublishNode(id, ns[id], names'[id]) \subseteq sent
<1> DEFINE new == NamesOf(LabelsOf(ns))
           renamed == Changed(names, new)
           again == UNION {PublishNode(id, ns[id], new[id]) :
                             id \in {i \in renamed : ns[i] # Absent}}
           gone == [id \in NodeIds |-> wiped[id] \cup
                      (IF id \in renamed THEN tracked[id] \cap NamedTopic ELSE {})]
<1>1. names' = new /\ Publish(gone, pub \cup again)
  BY DEF RefreshNames, OldAliases, Renewed
<1>2. \A p \in again : OfCache(p, ns, names')
  BY <1>1 DEF OfCache, Changed
<1>3. \A id \in NodeIds :
        /\ wiped[id] \subseteq gone[id]
        /\ gone[id] \subseteq wiped[id] \cup (tracked[id] \cap NamedTopic)
        /\ names'[id] = names[id] => gone[id] = wiped[id]
        /\ names'[id] # names[id] =>
             /\ tracked[id] \cap NamedTopic \subseteq gone[id]
             /\ ns[id] # Absent => PublishNode(id, ns[id], names'[id]) \subseteq again
  BY <1>1 DEF Changed
<1> HIDE DEF gone, again
<1> QED
  BY <1>1, <1>2, <1>3

\* The leaves of the numeric tree that a node has a retained payload on.
ShownLeaves(n) ==
  {"availability", "name", "descriptor"} \cup (IF RetainState THEN Attributes(n) ELSE {})

\* One of them has not changed.
Stays(id, leaf) ==
  /\ nodes[id] # Absent /\ leaf \in ShownLeaves(nodes[id]) /\ names'[id] = names[id]
  /\ leaf \notin {"name", "descriptor"} =>
       Payload(nodes'[id], names'[id], leaf) = Payload(nodes[id], names[id], leaf)

\* It is published, on all of the topics that end in it.
Published(sent, id, leaf) ==
  \A t \in NodeTopics(id, nodes'[id], names'[id]) : t[3] = leaf => \E p \in sent : p[1] = t /\ p[2] = id

\* What a handler publishes and clears: it says nothing but what is cached now or
\* what the event reports; it clears all topics of a node that is removed, and of
\* one that is cached those under an old name only; what it does not publish again
\* has not changed.
HandledBy(gone, sent) ==
  /\ Publish(gone, sent)
  /\ \A p \in sent :
       OfCache(p, nodes', names') \/ (HandleAttribute /\ OfEvent(p, Head(events), names'))
  /\ \A id \in NodeIds :
       /\ gone[id] \subseteq tracked[id]
       /\ names'[id] = names[id] \/ Dump \/ tracked[id] \cap NamedTopic \subseteq gone[id]
       /\ nodes'[id] = Absent => nodes[id] = Absent \/ Dump \/ tracked[id] \subseteq gone[id]
       /\ nodes'[id] # Absent =>
            /\ gone[id] \subseteq NamedTopic
            /\ names'[id] = names[id] => gone[id] = {}
            /\ \A leaf \in ShownLeaves(nodes'[id]) :
                 (Stays(id, leaf) /\ ~ Dump) \/ Published(sent, id, leaf)

Handles == \E gone, sent : HandledBy(gone, sent)

\* Each leaf that is shown has a topic in the numeric tree.
LEMMA ShownTopic ==
  ASSUME NEW id \in NodeIds, NEW n, NEW key, NEW leaf \in ShownLeaves(n)
  PROVE  <<"node", id, leaf>> \in NodeTopics(id, n, key)
<1>1. CASE leaf \in {"availability", "name", "descriptor"}
  BY <1>1 DEF NodeTopics
<1>2. CASE RetainState /\ leaf \in Attributes(n)
  <2>1. <<"node", id, leaf>> \in Retained(id, key, leaf)
    BY <1>2 DEF Retained, AttributeTopics
  <2> QED
    BY <1>2, <2>1 DEF NodeTopics
<1> QED
  BY <1>1, <1>2 DEF ShownLeaves

LEMMA ShownPublished ==
  ASSUME NEW id \in NodeIds, NEW leaf, leaf \in ShownLeaves(nodes'[id]),
         NEW sent, Published(sent, id, leaf)
  PROVE  \E p \in sent : p[1] = <<"node", id, leaf>>
<1> PICK n, key : n = nodes'[id] /\ key = names'[id]
  OBVIOUS
<1>1. <<"node", id, leaf>> \in NodeTopics(id, n, key)
  BY ShownTopic
<1> QED
  BY <1>1 DEF Published

\* publishNode publishes on all the topics that a node has.
LEMMA NodePublished ==
  ASSUME NEW id \in NodeIds, NEW leaf, NEW sent,
         PublishNode(id, nodes'[id], names'[id]) \subseteq sent
  PROVE  Published(sent, id, leaf)
<1> SUFFICES ASSUME NEW t \in NodeTopics(id, nodes'[id], names'[id])
             PROVE  \E p \in sent : p[1] = t /\ p[2] = id
  BY DEF Published
<1>1. <<t, id, Payload(nodes'[id], names'[id], t[3])>> \in sent
  BY DEF PublishNode
<1> QED
  BY <1>1

\* The handlers that recompute the names.
LEMMA RefreshHandles ==
  ASSUME SafeInv, ~ Dump, NEW wiped, NEW pub, RefreshNames(nodes', wiped, pub), nodes' \in Nodes,
         \A p \in pub :
           OfCache(p, nodes', names') \/ (HandleAttribute /\ OfEvent(p, Head(events), names')),
         \A id \in NodeIds : wiped[id] \subseteq tracked[id],
         \A id \in NodeIds : nodes'[id] = Absent =>
           nodes[id] = Absent \/ tracked[id] \subseteq wiped[id],
         \A id \in NodeIds : nodes'[id] # Absent =>
           /\ wiped[id] = {}
           /\ \A leaf \in ShownLeaves(nodes'[id]) :
                names'[id] = names[id] => Stays(id, leaf) \/ Published(pub, id, leaf)
  PROVE  Handles
<1>1. PICK ev : /\ \A p \in pub : OfCache(p, nodes', names') \/ OfEvent(p, ev, names')
                /\ \A p : OfEvent(p, ev, names') => HandleAttribute /\ OfEvent(p, Head(events), names')
  <2>1. CASE HandleAttribute
    BY <2>1
  <2>2. CASE ~ HandleAttribute
    <3> DEFINE ev == [type |-> "none"]
    <3>1. \A p : ~ OfEvent(p, ev, names')
      BY DEF OfEvent
    <3> HIDE DEF ev
    <3> QED
      BY <2>2, <3>1
  <2> QED
    BY <2>1, <2>2
<1>2. PICK gone, sent :
        /\ Publish(gone, sent)
        /\ \A p \in sent : OfCache(p, nodes', names') \/ OfEvent(p, ev, names')
        /\ pub \subseteq sent
        /\ \A id \in NodeIds :
             /\ wiped[id] \subseteq gone[id]
             /\ gone[id] \subseteq wiped[id] \cup (tracked[id] \cap NamedTopic)
             /\ names'[id] = names[id] => gone[id] = wiped[id]
             /\ names'[id] # names[id] =>
                  /\ tracked[id] \cap NamedTopic \subseteq gone[id]
                  /\ nodes'[id] # Absent => PublishNode(id, nodes'[id], names'[id]) \subseteq sent
  BY <1>1, RefreshNamesPublishes
<1>3. ASSUME NEW id \in NodeIds, nodes'[id] # Absent, NEW leaf \in ShownLeaves(nodes'[id])
      PROVE  Stays(id, leaf) \/ Published(sent, id, leaf)
  <2>1. CASE names'[id] = names[id]
    BY <1>2, <1>3, <2>1 DEF Published
  <2>2. CASE names'[id] # names[id]
    BY <1>2, <1>3, <2>2, NodePublished
  <2> QED
    BY <2>1, <2>2
<1>4. \A p \in sent :
        OfCache(p, nodes', names') \/ (HandleAttribute /\ OfEvent(p, Head(events), names'))
  BY <1>1, <1>2
<1>5. ASSUME NEW id \in NodeIds
      PROVE  /\ gone[id] \subseteq tracked[id]
             /\ names'[id] = names[id] \/ tracked[id] \cap NamedTopic \subseteq gone[id]
             /\ nodes'[id] = Absent => nodes[id] = Absent \/ tracked[id] \subseteq gone[id]
             /\ nodes'[id] # Absent =>
                  gone[id] \subseteq NamedTopic /\ (names'[id] = names[id] => gone[id] = {})
  BY <1>2
<1>6. \A id \in NodeIds :
         /\ gone[id] \subseteq tracked[id]
         /\ names'[id] = names[id] \/ Dump \/ tracked[id] \cap NamedTopic \subseteq gone[id]
         /\ nodes'[id] = Absent => nodes[id] = Absent \/ Dump \/ tracked[id] \subseteq gone[id]
         /\ nodes'[id] # Absent =>
              /\ gone[id] \subseteq NamedTopic
              /\ names'[id] = names[id] => gone[id] = {}
              /\ \A leaf \in ShownLeaves(nodes'[id]) :
                   (Stays(id, leaf) /\ ~ Dump) \/ Published(sent, id, leaf)
  BY <1>3, <1>5, Zenon
<1>7. HandledBy(gone, sent)
  BY <1>2, <1>4, <1>6 DEF HandledBy
<1> QED
  BY <1>7 DEF Handles

\* An attribute_updated changes one leaf and publishes it.
LEMMA AttributeStays ==
  ASSUME SafeInv, HandleAttribute, NEW id \in NodeIds, nodes'[id] # Absent,
         NEW leaf \in ShownLeaves(nodes'[id]), names'[id] = names[id],
         ~ (leaf = Head(events).leaf /\ id = Head(events).id)
  PROVE  Stays(id, leaf)
<1> DEFINE ev == Head(events)
<1>1. nodes \in Nodes
  BY DEF SafeInv, TypeOK, CacheTypeOK
<1>2. nodes' = CacheAttribute(ev.id, ev.leaf, ev.val)
  BY DEF HandleAttribute
<1>3. ev.id \in NodeIds /\ ev.leaf \in StateLeaves
  BY ReceiveType, AttributeEvent DEF HandleAttribute
<1> HIDE DEF ev
<1>4. CASE nodes'[id] = nodes[id]
  BY <1>4 DEF Stays
<1>5. CASE ev.id = id /\ nodes[id] # Absent /\ ev.leaf = "label"
  <2>1. nodes'[id] = [nodes[id] EXCEPT !.label = ev.val] /\ nodes[id] \in Node
    BY <1>1, <1>2, <1>3, <1>5 DEF CacheAttribute, Nodes
  <2>2. /\ nodes'[id].value = nodes[id].value /\ nodes'[id].available = nodes[id].available
        /\ leaf # "label"
    BY <1>5, <2>1 DEF Node, ev
  <2>3. leaf \in ShownLeaves(nodes[id])
    BY <2>2 DEF ShownLeaves, Attributes, StateLeaves
  <2>4. leaf \in {"availability", "name", "descriptor", "value"}
    BY <2>2 DEF ShownLeaves, Attributes, StateLeaves
  <2> QED
    BY <1>5, <2>2, <2>3, <2>4 DEF Stays, Payload
<1>6. CASE ev.id = id /\ nodes[id] # Absent /\ ev.leaf = "value"
  <2>1. nodes'[id] = [nodes[id] EXCEPT !.value = ev.val] /\ nodes[id] \in Node
    BY <1>1, <1>2, <1>3, <1>6 DEF CacheAttribute, Nodes
  <2>2. /\ nodes'[id].label = nodes[id].label /\ nodes'[id].available = nodes[id].available
        /\ leaf # "value"
    BY <1>6, <2>1 DEF Node, ev
  <2>3. leaf \in ShownLeaves(nodes[id])
    BY <2>2 DEF ShownLeaves, Attributes, StateLeaves
  <2>4. leaf \in {"availability", "name", "descriptor", "label"}
    BY <2>2 DEF ShownLeaves, Attributes, StateLeaves
  <2> QED
    BY <1>6, <2>2, <2>3, <2>4 DEF Stays, Payload
<1>7. CASE ev.id # id \/ nodes[ev.id] = Absent
  <2>1. nodes'[id] = nodes[id]
    BY <1>1, <1>2, <1>3, <1>7 DEF CacheAttribute, Nodes
  <2> QED
    BY <1>4, <2>1
<1> QED
  BY <1>3, <1>5, <1>6, <1>7 DEF StateLeaves

LEMMA HandlersPublish ==
  ASSUME SafeInv, SafeInv', Dump \/ HandleAttribute \/ HandleNode \/ HandleRemoved
  PROVE  Handles
<1>0. nodes' \in Nodes /\ tracked \in [NodeIds -> SUBSET Topic]
  BY DEF SafeInv, TypeOK, CacheTypeOK, BrokerTypeOK
<1>1. CASE Dump
  <2> DEFINE sent == UNION {PublishNode(id, dump[id], names'[id]) : id \in Dumped(names')}
  <2>1. nodes' = dump /\ Publish(NoTopics, sent)
    BY <1>1 DEF Dump
  <2>2. \A p \in sent : OfCache(p, nodes', names')
    BY <2>1 DEF Dumped, OfCache
  <2>3. ASSUME NEW id \in NodeIds, nodes'[id] # Absent, NEW leaf \in ShownLeaves(nodes'[id])
        PROVE  Published(sent, id, leaf)
    <3>1. PublishNode(id, nodes'[id], names'[id]) \subseteq sent
      BY <2>1, <2>3 DEF Dumped
    <3> HIDE DEF sent
    <3> QED
      BY <3>1, NodePublished
  <2>4. \A id \in NodeIds : NoTopics[id] = {}
    BY DEF NoTopics
  <2> HIDE DEF sent
  <2> QED
    BY <1>1, <2>1, <2>2, <2>3, <2>4 DEF Handles, HandledBy
<1>2. CASE HandleAttribute
  <2> DEFINE ev == Head(events)
             pub == PublishAttribute(ev.id, names'[ev.id], ev.leaf, ev.val)
  <2>1. ev \in Event /\ ev.type = "attribute" /\ ~ Dump
    BY <1>2, ReceiveType DEF HandleAttribute, Receive, Dump
  <2>2. ev.id \in NodeIds /\ ev.leaf \in StateLeaves
    BY <2>1, AttributeEvent
  <2>3. \A p \in pub : OfEvent(p, ev, names')
    BY <2>1 DEF OfEvent
  <2>4. ASSUME NEW id \in NodeIds, nodes'[id] # Absent, NEW leaf \in ShownLeaves(nodes'[id]),
               names'[id] = names[id]
        PROVE  Stays(id, leaf) \/ Published(pub, id, leaf)
    <3>1. CASE leaf = ev.leaf /\ id = ev.id
      <4> SUFFICES ASSUME NEW t \in NodeTopics(id, nodes'[id], names'[id]), t[3] = leaf
                   PROVE  \E p \in pub : p[1] = t /\ p[2] = id
        BY DEF Published
      <4>1. t \in Retained(id, names'[id], leaf)
        <5>1. leaf \notin {"availability", "name", "descriptor"}
          BY <2>2, <3>1 DEF StateLeaves
        <5>2. PICK l \in Attributes(nodes'[id]) : t \in Retained(id, names'[id], l)
          BY <5>1 DEF NodeTopics
        <5>3. t[3] = l
          BY <5>2 DEF Retained, AttributeTopics
        <5> QED
          BY <5>2, <5>3
      <4>2. <<t, ev.id, [json |-> ev.val]>> \in pub
        BY <3>1, <4>1 DEF PublishAttribute
      <4> QED
        BY <3>1, <4>2
    <3>2. CASE ~ (leaf = ev.leaf /\ id = ev.id)
      BY <1>2, <2>4, <3>2, AttributeStays
    <3> QED
      BY <3>1, <3>2
  <2>5. \A id \in NodeIds : NoTopics[id] = {}
    BY DEF NoTopics
  <2>8. ASSUME NEW id \in NodeIds, nodes'[id] = Absent
        PROVE  nodes[id] = Absent
    <3>1. nodes' = CacheAttribute(ev.id, ev.leaf, ev.val) /\ nodes \in Nodes
      BY <1>2 DEF HandleAttribute, SafeInv, TypeOK, CacheTypeOK
    <3>2. CASE nodes' = nodes
      BY <2>8, <3>2
    <3>3. CASE nodes[ev.id] # Absent /\ id = ev.id
      <4>1. nodes[id] \in Node
        BY <3>1, <3>3 DEF Nodes
      <4>2. CASE ev.leaf = "label"
        <5>1. nodes'[id] = [nodes[id] EXCEPT !.label = ev.val] /\ ev.val \in Labels
          BY <2>1, <3>1, <3>3, <4>2 DEF CacheAttribute, Nodes, Event
        <5> QED
          BY <4>1, <5>1, <2>8, NodeAssumption DEF Node
      <4>3. CASE ev.leaf # "label"
        <5>1. nodes'[id] = [nodes[id] EXCEPT !.value = ev.val] /\ ev.val \in 0 .. MaxChanges
          BY <2>1, <3>1, <3>3, <4>3 DEF CacheAttribute, Nodes, Event
        <5> QED
          BY <4>1, <5>1, <2>8, NodeAssumption DEF Node
      <4> QED
        BY <4>2, <4>3
    <3>4. CASE nodes[ev.id] # Absent /\ id # ev.id
      BY <2>8, <3>1, <3>4 DEF CacheAttribute, Nodes
    <3> QED
      BY <3>1, <3>2, <3>3, <3>4 DEF CacheAttribute
  <2>6. CASE ev.leaf = "label"
    <3>1. RefreshNames(nodes', NoTopics, PublishAttribute(ev.id, NamesOf(LabelsOf(nodes'))[ev.id], ev.leaf, ev.val))
      BY <1>2, <2>6 DEF HandleAttribute
    <3>2. names' = NamesOf(LabelsOf(nodes'))
      BY <3>1 DEF RefreshNames
    <3>3. RefreshNames(nodes', NoTopics, pub)
      BY <3>1, <3>2
    <3>4. PICK wiped, sent : wiped = NoTopics /\ sent = pub
      OBVIOUS
    <3> HIDE DEF pub, ev
    <3>5. RefreshNames(nodes', wiped, sent) /\ ~ Dump
      BY <2>1, <3>3, <3>4
    <3>6. \A p \in sent :
            OfCache(p, nodes', names') \/ (HandleAttribute /\ OfEvent(p, Head(events), names'))
      BY <1>2, <2>3, <3>4 DEF ev
    <3>7. \A id \in NodeIds : wiped[id] \subseteq tracked[id]
      BY <2>5, <3>4
    <3>8. \A id \in NodeIds : nodes'[id] = Absent => nodes[id] = Absent
      BY <2>8
    <3>9. \A id \in NodeIds : nodes'[id] # Absent =>
            /\ wiped[id] = {}
            /\ \A leaf \in ShownLeaves(nodes'[id]) :
                 names'[id] = names[id] => Stays(id, leaf) \/ Published(sent, id, leaf)
      BY <2>4, <2>5, <3>4
    <3> QED
      BY <1>0, <3>5, <3>6, <3>7, <3>8, <3>9, RefreshHandles, SMTT(30)
  <2>7. CASE ev.leaf # "label"
    <3>1. Publish(NoTopics, pub) /\ names' = names
      BY <1>2, <2>7 DEF HandleAttribute
    <3> HIDE DEF pub
    <3> QED
      BY <1>2, <2>1, <2>3, <2>4, <2>5, <2>8, <3>1 DEF Handles, HandledBy
  <2> QED
    BY <2>6, <2>7
<1>3. CASE HandleNode
  <2> DEFINE ev == Head(events)
             pub == PublishNode(ev.id, ev.node, NamesOf(LabelsOf(nodes'))[ev.id])
  <2>1. /\ nodes' = [nodes EXCEPT ![ev.id] = ev.node] /\ RefreshNames(nodes', NoTopics, pub)
        /\ ~ Dump
    BY <1>3 DEF HandleNode, CacheNode, Receive, Dump
  <2>2. ev.id \in NodeIds /\ ev.node \in Node
    BY <1>3, ReceiveType, NodeEvent DEF HandleNode
  <2>3. nodes'[ev.id] = ev.node /\ ev.node # Absent /\ \A id \in NodeIds \ {ev.id} : nodes'[id] = nodes[id]
    BY <2>1, <2>2, NodeAssumption DEF SafeInv, TypeOK, CacheTypeOK, Nodes
  <2>4. \A p \in pub : OfCache(p, nodes', names')
    BY <2>1, <2>2, <2>3 DEF OfCache, RefreshNames
  <2>5. \A id \in NodeIds : NoTopics[id] = {}
    BY DEF NoTopics
  <2>6. ASSUME NEW id \in NodeIds, nodes'[id] # Absent, NEW leaf \in ShownLeaves(nodes'[id]),
               names'[id] = names[id]
        PROVE  Stays(id, leaf) \/ Published(pub, id, leaf)
    <3>1. CASE id = ev.id
      <4>1. names'[id] = NamesOf(LabelsOf(nodes'))[id]
        BY <2>1 DEF RefreshNames
      <4>2. PublishNode(id, nodes'[id], names'[id]) \subseteq pub
        BY <2>3, <3>1, <4>1
      <4> HIDE DEF pub
      <4> QED
        BY <4>2, NodePublished
    <3>2. CASE id # ev.id
      BY <2>3, <2>6, <3>2 DEF Stays
    <3> QED
      BY <3>1, <3>2
  <2>7. PICK wiped, sent : wiped = NoTopics /\ sent = pub
    OBVIOUS
  <2> HIDE DEF pub, ev
  <2>8. RefreshNames(nodes', wiped, sent)
    BY <2>1, <2>7
  <2>9. \A p \in sent :
          OfCache(p, nodes', names') \/ (HandleAttribute /\ OfEvent(p, Head(events), names'))
    BY <2>4, <2>7
  <2>10. \A id \in NodeIds : wiped[id] \subseteq tracked[id]
    BY <2>5, <2>7
  <2>11. \A id \in NodeIds : nodes'[id] # Absent =>
           /\ wiped[id] = {}
           /\ \A leaf \in ShownLeaves(nodes'[id]) :
                names'[id] = names[id] => Stays(id, leaf) \/ Published(sent, id, leaf)
    BY <2>5, <2>6, <2>7
  <2>12. ~ Dump /\ \A id \in NodeIds : nodes'[id] = Absent => nodes[id] = Absent
    BY <2>1, <2>3
  <2> QED
    BY <1>0, <2>8, <2>9, <2>10, <2>11, <2>12, RefreshHandles, SMTT(30)
<1>4. CASE HandleRemoved
  <2> DEFINE x == Head(events).id
             wiped == [NoTopics EXCEPT ![x] = tracked[x]]
  <2>1. nodes' = [nodes EXCEPT ![x] = Absent] /\ RefreshNames(nodes', wiped, {}) /\ ~ Dump
    BY <1>4 DEF HandleRemoved, Receive, Dump
  <2>2. x \in NodeIds
    BY <1>4, ReceiveType, RemovedEvent DEF HandleRemoved
  <2>3. nodes'[x] = Absent /\ \A id \in NodeIds \ {x} : nodes'[id] = nodes[id] /\ wiped[id] = {}
    BY <2>1, <2>2 DEF SafeInv, TypeOK, CacheTypeOK, Nodes, NoTopics
  <2>4. \A id \in NodeIds : wiped[id] \subseteq tracked[id]
    BY <2>2 DEF NoTopics
  <2>5. ASSUME NEW id \in NodeIds, nodes'[id] # Absent, NEW leaf \in ShownLeaves(nodes'[id]),
               names'[id] = names[id]
        PROVE  Stays(id, leaf)
    BY <2>3, <2>5 DEF Stays
  <2>6. \A id \in NodeIds : nodes'[id] = Absent => nodes[id] = Absent \/ tracked[id] \subseteq wiped[id]
    BY <2>2, <2>3 DEF NoTopics
  <2>7. PICK cleared, sent : cleared = wiped /\ sent = {}
    OBVIOUS
  <2> HIDE DEF wiped, x
  <2>8. RefreshNames(nodes', cleared, sent) /\ ~ Dump
    BY <2>1, <2>7
  <2>9. \A p \in sent :
          OfCache(p, nodes', names') \/ (HandleAttribute /\ OfEvent(p, Head(events), names'))
    BY <2>7
  <2>10. \A id \in NodeIds : cleared[id] \subseteq tracked[id]
    BY <2>4, <2>7
  <2>11. \A id \in NodeIds :
           nodes'[id] = Absent => nodes[id] = Absent \/ tracked[id] \subseteq cleared[id]
    BY <2>6, <2>7
  <2>12. \A id \in NodeIds : nodes'[id] # Absent =>
           /\ cleared[id] = {}
           /\ \A leaf \in ShownLeaves(nodes'[id]) :
                names'[id] = names[id] => Stays(id, leaf) \/ Published(sent, id, leaf)
    BY <2>3, <2>5, <2>7
  <2> QED
    BY <1>0, <2>8, <2>9, <2>10, <2>11, <2>12, RefreshHandles, SMTT(30)
<1> QED
  BY <1>1, <1>2, <1>3, <1>4

-----------------------------------------------------------------------------
(* What is retained is remembered, while only sessions fail: the broker     *)
(* connection stays, nobody removes a node by request and the process runs. *)

Calm == OnlyMeets({"unwatched", "overflow"})

Covered(t, id) == retained[t] = Empty \/ t \in tracked[id]

Cover ==
  /\ \A id \in NodeIds, leaf \in Leaves :
       \/ Covered(<<"node", id, leaf>>, id)
       \/ leaf = "availability" /\ retained[<<"node", id, leaf>>] = "offline"
  /\ \A t \in NamedTopic : retained[t] # Empty => \E id \in NodeIds : t \in tracked[id]

\* No session, and the broker says so.
Dark ==
  /\ matterConnected # "true"
  /\ \A id \in NodeIds : retained[<<"node", id, "availability">>] # "online"

CoverInv ==
  Calm => /\ mqtt /\ (\A id \in NodeIds : req[id] = "idle") /\ Cover
          /\ phase = "backoff" => Dark

\* A handler records what it publishes and forgets only what it clears
\* (bridge.go:773-796, 804-817).
LEMMA PublishCovers ==
  ASSUME Cover, mqtt, NEW wiped, NEW pub, Owned(pub), Publish(wiped, pub)
  PROVE  Cover'
<1>1. \A id \in NodeIds : tracked'[id] = (tracked[id] \ wiped[id])
                                           \cup {p[1] : p \in {q \in pub : q[2] = id}}
  BY DEF Publish, Track
<1>2. ASSUME NEW id \in NodeIds, NEW t \in tracked[id], t \notin wiped[id]
      PROVE  t \in tracked'[id]
  BY <1>1, <1>2
<1>3. \A p \in pub : p[2] \in NodeIds /\ p[1] \in tracked'[p[2]]
  BY <1>1 DEF Owned
<1>4. ASSUME NEW id \in NodeIds, NEW leaf \in Leaves
      PROVE  \/ Covered(<<"node", id, leaf>>, id)'
             \/ leaf = "availability" /\ retained'[<<"node", id, leaf>>] = "offline"
  <2> DEFINE t == <<"node", id, leaf>>
  <2>1. t \in Topic /\ t \notin NamedTopic /\ t[1] = "node" /\ t[2] = id /\ t[3] = leaf
    BY DEF Topic, NamedTopic
  <2>2. CASE retained'[t] = retained[t] /\ \A i \in NodeIds : t \notin wiped[i]
    BY <1>2, <2>2 DEF Cover, Covered
  <2>3. CASE retained'[t] = Empty
    BY <2>3 DEF Covered
  <2>4. CASE \E p \in pub : p[1] = t
    <3>1. PICK p \in pub : p[1] = t
      BY <2>4
    <3>2. PICK other \in Leaves : t = <<"node", p[2], other>>
      BY <2>1, <3>1 DEF Owned, TopicOf
    <3>3. p[2] = id
      BY <3>2
    <3> QED
      BY <1>3, <3>1, <3>3 DEF Covered
  <2> HIDE DEF t
  <2>5. Send(wiped, pub)
    BY DEF Publish
  <2>6. \/ retained'[t] = retained[t] /\ \A i \in NodeIds : t \notin wiped[i]
        \/ retained'[t] = Empty
        \/ \E p \in pub : p[1] = t
    BY <2>1, <2>5, SendAt
  <2> QED
    BY <2>2, <2>3, <2>4, <2>6 DEF t
<1>5. ASSUME NEW t \in NamedTopic, retained'[t] # Empty
      PROVE  \E id \in NodeIds : t \in tracked'[id]
  <2>1. t \in Topic /\ Send(wiped, pub)
    BY DEF Topic, Publish
  <2>2. \/ retained'[t] = retained[t] /\ \A i \in NodeIds : t \notin wiped[i]
        \/ \E p \in pub : p[1] = t
    BY <1>5, <2>1, SendAt
  <2> QED
    BY <1>2, <1>3, <1>5, <2>2 DEF Cover
<1> QED
  BY <1>4, <1>5 DEF Cover

\* A bridge that has just started has published nothing.
LEMMA InitCover == Init => CoverInv
<1> SUFFICES ASSUME Init PROVE CoverInv
  OBVIOUS
<1>1. \A t \in Topic : retained[t] = Empty
  BY DEF Init
<1>2. \A id \in NodeIds, leaf \in Leaves : <<"node", id, leaf>> \in Topic
  BY NodeTopic
<1>3. NamedTopic \subseteq Topic
  BY DEF Topic
<1>4. mqtt /\ phase = "start" /\ \A id \in NodeIds : req[id] = "idle"
  BY DEF Init
<1> QED
  BY <1>1, <1>2, <1>3, <1>4 DEF CoverInv, Cover, Covered

\* When a session is given up, every node that has a topic is marked offline, and
\* matter_connected is false (bridge.go:178-181, 822-834).
LEMMA ReconnectDark ==
  ASSUME SafeInv, mqtt, Cover, Reconnect
  PROVE  Cover' /\ Dark'
<1>1. /\ matterConnected' = "false" /\ UNCHANGED tracked
      /\ retained' = [t \in Topic |-> IF \E id \in NodeIds : /\ tracked[id] # {}
                                                             /\ t = <<"node", id, "availability">>
                                        THEN "offline" ELSE retained[t]]
  BY DEF Reconnect, MarkAllUnavailable
<1>2. \A id \in NodeIds, leaf \in Leaves : <<"node", id, leaf>> \in Topic
  BY NodeTopic
<1>3. \A t \in NamedTopic : t \in Topic /\ retained'[t] = retained[t]
  BY <1>1 DEF Topic, NamedTopic
<1>4. ASSUME NEW id \in NodeIds, NEW leaf \in Leaves
      PROVE  \/ Covered(<<"node", id, leaf>>, id)'
             \/ leaf = "availability" /\ retained'[<<"node", id, leaf>>] = "offline"
  <2>1. CASE leaf = "availability" /\ tracked[id] # {}
    BY <1>1, <1>2, <2>1
  <2>2. CASE leaf # "availability" \/ tracked[id] = {}
    <3>1. retained'[<<"node", id, leaf>>] = retained[<<"node", id, leaf>>]
      BY <1>1, <1>2, <2>2
    <3> QED
      BY <1>1, <3>1 DEF Cover, Covered
  <2> QED
    BY <2>1, <2>2
<1>5. ASSUME NEW id \in NodeIds
      PROVE  retained'[<<"node", id, "availability">>] # "online"
  <2> "availability" \in Leaves
    BY DEF Leaves
  <2>1. CASE tracked[id] # {}
    BY <1>1, <1>2, <2>1
  <2>2. CASE tracked[id] = {}
    <3>1. retained'[<<"node", id, "availability">>] = retained[<<"node", id, "availability">>]
      BY <1>1, <1>2, <2>2
    <3> QED
      BY <2>2, <3>1, BridgeAssumption DEF Cover, Covered
  <2> QED
    BY <2>1, <2>2
<1> QED
  BY <1>1, <1>3, <1>4, <1>5 DEF Cover, Dark

\* The topics of a handler are covered.
LEMMA HandlersCover ==
  ASSUME SafeInv, SafeInv', mqtt, Cover, Dump \/ HandleAttribute \/ HandleNode \/ HandleRemoved
  PROVE  Cover'
<1>1. PICK gone, sent :
        /\ Publish(gone, sent)
        /\ \A p \in sent : OfCache(p, nodes', names') \/ OfEvent(p, Head(events), names')
  BY HandlersPublish DEF Handles, HandledBy
<1>2. nodes' \in Nodes /\ names' \in [NodeIds -> Keys \cup {Empty}]
  BY DEF SafeInv, TypeOK, CacheTypeOK
<1>3. Owned(sent)
  BY <1>1, <1>2, SayingsOwned
<1> QED
  BY <1>1, <1>3, PublishCovers

\* What may fail is settled once and for all.
LEMMA EnvConstant == [Next]_vars => env' = env
  BY DEF Next, vars, FabricNext, Commission, ReportValue, Relabel, ChangeAvailability,
     Decommission, Change, SessionNext, Dial, DialFails, ServerAnswers, CallFails, Dump, WsDrops,
     HandleAttribute, HandleNode, HandleRemoved, Receive, SessionEnds, Reconnect,
     SessionUnchanged, RequestNext, RequestRemove, ServerRemoves, RequestFails, FinishRemove,
     RequestUnchanged, MqttLost, MqttBack, Crash, external

\* Every step keeps the retained topics covered.
LEMMA NextCover == SafeInv /\ SafeInv' /\ CoverInv /\ [Next]_vars => CoverInv'
<1> SUFFICES ASSUME SafeInv, SafeInv', CoverInv, [Next]_vars, Calm PROVE CoverInv'
  BY EnvConstant DEF CoverInv, Calm, OnlyMeets
<1> USE DEF CoverInv
<1>1. "requests" \notin env /\ "mqtt_outage" \notin env /\ "crash" \notin env
  BY DEF Calm, OnlyMeets
<1>2. CASE UNCHANGED <<retained, matterConnected, tracked, mqtt, req>> /\ phase' # "backoff"
  BY <1>2 DEF Cover, Covered
<1>3. CASE UNCHANGED <<retained, matterConnected, tracked, mqtt, req, phase>>
  BY <1>3 DEF Cover, Covered, Dark
<1>4. CASE Dump \/ HandleAttribute \/ HandleNode \/ HandleRemoved
  <2>1. Cover'
    BY <1>4, HandlersCover
  <2>2. UNCHANGED <<mqtt, req>> /\ phase' = "serving"
    BY <1>4 DEF Dump, HandleAttribute, HandleNode, HandleRemoved, Receive, SessionUnchanged
  <2> QED
    BY <2>1, <2>2
<1>5. CASE Reconnect
  <2>1. UNCHANGED <<mqtt, req>>
    BY <1>5 DEF Reconnect, SessionUnchanged
  <2> QED
    BY <1>5, <2>1, ReconnectDark
<1>6. CASE FabricNext
  <2>1. UNCHANGED <<retained, matterConnected, tracked, mqtt, req, phase>>
    BY <1>6 DEF FabricNext, Commission, ReportValue, Relabel, ChangeAvailability, Decommission,
       Change, broker
  <2> QED
    BY <1>3, <2>1
<1>7. CASE Dial \/ DialFails \/ ServerAnswers \/ CallFails \/ SessionEnds
  BY <1>2, <1>7 DEF Dial, DialFails, ServerAnswers, CallFails, SessionEnds, SessionUnchanged, broker
<1>8. CASE WsDrops
  BY <1>3, <1>8 DEF WsDrops, SessionUnchanged, broker
<1>9. ~ RequestNext /\ ~ MqttLost /\ ~ MqttBack /\ ~ Crash
  BY <1>1 DEF RequestNext, RequestRemove, ServerRemoves, RequestFails, FinishRemove, MqttLost,
     MqttBack, Crash
<1>10. CASE UNCHANGED vars
  BY <1>3, <1>10 DEF vars, broker, session
<1> QED
  BY <1>4, <1>5, <1>6, <1>7, <1>8, <1>9, <1>10 DEF Next, SessionNext

LEMMA SpecCover == Spec => []CoverInv
  BY InitCover, NextCover, SpecSafe, PTL DEF Spec

\* Whatever the fabric does and however often the session is lost, no topic is
\* retained that the bridge would not clear with its node (publishTracked, clearNode,
\* clearNamedTopics; bridge.go:773-817).
THEOREM RetainedIsTracked == Spec => []TrackedCovers
<1>1. CoverInv => TrackedCovers
  BY DEF CoverInv, TrackedCovers, Calm, Cover, Covered
<1> QED
  BY <1>1, SpecCover, PTL

\* While the bridge waits to dial again the broker says that the session is down
\* and shows no node online (bridge.go:178-181).
THEOREM DownIsOffline == Spec => []DownMeansOffline
<1>1. CoverInv => DownMeansOffline
  BY DEF CoverInv, DownMeansOffline, Calm, Dark
<1> QED
  BY <1>1, SpecCover, PTL

-----------------------------------------------------------------------------
(* Reports in order.  A value is at or below another when it was reported no *)
(* later: what is retained is never above what the cache, a dump, an event   *)
(* on its way or the fabric have, so that none of them takes it back.        *)

\* An event tells of the value of a node, and which.
Reports(ev, id) == /\ ev.id = id
                   /\ ev.type = "node" \/ (ev.type = "attribute" /\ ev.leaf = "value")

Reported(ev) == IF ev.type = "node" THEN ev.node.value ELSE ev.val

ValueTopic(id) == <<"node", id, "value">>

\* Nothing older than v is under way, from the k-th event on.
Below(v, id, k) ==
  /\ v <= clock
  /\ fabric[id] # Absent => v <= fabric[id].value
  /\ \A i \in k .. Len(events) : Reports(events[i], id) => v <= Reported(events[i])

\* What is retained is no newer than v.
Past(v, id) == retained[ValueTopic(id)] # Empty => retained[ValueTopic(id)].json <= v

FabricOrdered(id) == fabric[id] # Absent => fabric[id].value <= clock
RetainedOrdered(id) ==
  retained[ValueTopic(id)] # Empty => Below(retained[ValueTopic(id)].json, id, 1)
CacheOrdered(id) ==
  nodes[id] # Absent => Below(nodes[id].value, id, 1) /\ Past(nodes[id].value, id)
DumpOrdered(id) ==
  phase = "answered" /\ dump[id] # Absent => Below(dump[id].value, id, 1) /\ Past(dump[id].value, id)
EventsOrdered(id) ==
  \A i \in 1 .. Len(events) : Reports(events[i], id) => Below(Reported(events[i]), id, i)

Ordered(id) ==
  /\ FabricOrdered(id) /\ RetainedOrdered(id) /\ CacheOrdered(id) /\ DumpOrdered(id)
  /\ EventsOrdered(id)

OrderInv ==
  /\ \A id \in NodeIds : Ordered(id)
  /\ phase \notin {"answered", "serving"} => events = <<>>

\* The numbers that are compared.
LEMMA OrderTypes ==
  ASSUME SafeInv
  PROVE  /\ clock \in Nat /\ events \in Seq(Event) /\ Len(events) \in Nat
         /\ \A id \in NodeIds :
              /\ fabric[id] # Absent => fabric[id].value \in Nat
              /\ nodes[id] # Absent => nodes[id].value \in Nat
              /\ dump[id] # Absent => dump[id].value \in Nat
              /\ retained[ValueTopic(id)] # Empty => retained[ValueTopic(id)].json \in Nat
         /\ \A i \in 1 .. Len(events) : events[i] \in Event
         /\ \A ev \in Event, id \in NodeIds : Reports(ev, id) => Reported(ev) \in Nat
<1>1. clock \in Nat /\ events \in Seq(Event) /\ Len(events) \in Nat
      /\ \A i \in 1 .. Len(events) : events[i] \in Event
  BY DEF SafeInv, TypeOK, WorldTypeOK, SessionTypeOK
<1>2. \A n \in Node : n.value \in Nat
  BY DEF Node
<1>3. \A id \in NodeIds : /\ fabric[id] \in Node \cup {Absent}
                          /\ nodes[id] \in Node \cup {Absent}
                          /\ dump[id] \in Node \cup {Absent}
  BY DEF SafeInv, TypeOK, WorldTypeOK, SessionTypeOK, CacheTypeOK, Nodes
<1>4. ASSUME NEW id \in NodeIds, retained[ValueTopic(id)] # Empty
      PROVE  retained[ValueTopic(id)].json \in Nat
  <2>1. ValueTopic(id) \in Topic /\ ValueTopic(id)[3] = "value"
    BY NodeTopic DEF ValueTopic, Leaves, StateLeaves
  <2>2. retained[ValueTopic(id)] \in Payloads("value")
    BY <1>4, <2>1 DEF SafeInv, TypeOK, BrokerTypeOK
  <2> QED
    BY <2>2 DEF Payloads
<1>5. ASSUME NEW ev \in Event, NEW id \in NodeIds, Reports(ev, id)
      PROVE  Reported(ev) \in Nat
  <2>1. CASE ev.type = "node"
    BY <1>2, <2>1, NodeEvent DEF Reported
  <2>2. CASE ev.type = "attribute" /\ ev.leaf = "value"
    BY <2>2, AttributeEvent DEF Reported
  <2> QED
    BY <1>5, <2>1, <2>2 DEF Reports
<1> QED
  BY <1>1, <1>2, <1>3, <1>4, <1>5

\* The fabric changes by one node and may tell of it.
Moves(id, n, ev) ==
  /\ fabric' = [fabric EXCEPT ![id] = n] /\ clock' \in {clock, clock + 1}
  /\ n # Absent => n.value = clock' \/ (fabric[id] # Absent /\ n.value = fabric[id].value)
  /\ clock' = clock => n = Absent
  /\ events' = events \/ (events' = Append(events, ev) /\ phase \in {"answered", "serving"})
  /\ \A other \in NodeIds : Reports(ev, other) => other = id /\ n # Absent /\ Reported(ev) = n.value
  /\ UNCHANGED <<retained, nodes, dump, phase>>

\* What the fabric does, of itself or when the bridge asks for a removal.
LEMMA FabricMoves ==
  ASSUME SafeInv, NEW id \in NodeIds,
         \/ Commission(id) \/ ReportValue(id) \/ Relabel(id) \/ ChangeAvailability(id)
         \/ Decommission(id)
         \/ ServerRemoves(id) /\ fabric[id] # Absent
  PROVE  \E n \in Node \cup {Absent}, ev \in Event : Moves(id, n, ev)
<1>1. fabric[id] # Absent => fabric[id] \in Node
  BY DEF SafeInv, TypeOK, WorldTypeOK, Nodes
<1>2. clock \in Nat /\ (clock < MaxChanges => clock + 1 \in 0 .. MaxChanges)
  BY BridgeAssumption DEF SafeInv, TypeOK, WorldTypeOK
<1>3. ASSUME NEW ev, Deliver(ev)
      PROVE  events' = events \/ (events' = Append(events, ev) /\ phase \in {"answered", "serving"})
  BY <1>3 DEF Deliver, Listening
<1>4. ASSUME NEW n, Change(id, n)
      PROVE  /\ fabric' = [fabric EXCEPT ![id] = n] /\ clock' = clock + 1
             /\ UNCHANGED <<retained, nodes, dump, phase>> /\ clock < MaxChanges
  BY <1>4 DEF Change, broker
<1>5. CASE Commission(id)
  <2>1. PICK l \in Labels :
          LET n == [label |-> l, value |-> clock + 1, available |-> TRUE]
          IN  Change(id, n) /\ Deliver([type |-> "node", id |-> id, node |-> n])
    BY <1>5 DEF Commission
  <2> DEFINE n == [label |-> l, value |-> clock + 1, available |-> TRUE]
             ev == [type |-> "node", id |-> id, node |-> n]
  <2>2. Change(id, n) /\ Deliver(ev)
    BY <2>1
  <2>3. n \in Node /\ n.value = clock + 1
    BY <1>2, <1>4, <2>2 DEF Node
  <2>4. ev \in Event /\ Reported(ev) = n.value /\ \A other \in NodeIds : Reports(ev, other) => other = id
    BY <2>3 DEF Event, Reported, Reports
  <2>5. n # Absent
    BY <2>3, NodeAssumption
  <2> HIDE DEF n, ev
  <2>6. Moves(id, n, ev)
    BY <1>2, <1>3, <1>4, <2>2, <2>3, <2>4, <2>5 DEF Moves
  <2> QED
    BY <2>3, <2>4, <2>6
<1>6. CASE ReportValue(id)
  <2> DEFINE n == [fabric[id] EXCEPT !.value = clock + 1]
             ev == [type |-> "attribute", id |-> id, leaf |-> "value", val |-> clock + 1]
  <2>1. Change(id, n) /\ Deliver(ev) /\ fabric[id] # Absent
    BY <1>6 DEF ReportValue
  <2>2. n \in Node /\ n.value = clock + 1
    BY <1>1, <1>2, <1>4, <2>1 DEF Node
  <2>3. /\ ev \in Event /\ Reported(ev) = clock + 1
        /\ \A other \in NodeIds : Reports(ev, other) => other = id
    BY <1>2, <1>4, <2>1 DEF Event, Reported, Reports
  <2>4. n # Absent
    BY <2>2, NodeAssumption
  <2> HIDE DEF n, ev
  <2>5. Moves(id, n, ev)
    BY <1>2, <1>3, <1>4, <2>1, <2>2, <2>3, <2>4 DEF Moves
  <2> QED
    BY <2>2, <2>3, <2>5
<1>7. CASE Relabel(id)
  <2>1. PICK l \in Labels :
          /\ Change(id, [fabric[id] EXCEPT !.label = l])
          /\ Deliver([type |-> "attribute", id |-> id, leaf |-> "label", val |-> l])
    BY <1>7 DEF Relabel
  <2> DEFINE n == [fabric[id] EXCEPT !.label = l]
             ev == [type |-> "attribute", id |-> id, leaf |-> "label", val |-> l]
  <2>2. Change(id, n) /\ Deliver(ev) /\ fabric[id] # Absent
    BY <1>7, <2>1 DEF Relabel
  <2>3. n \in Node /\ n.value = fabric[id].value
    BY <1>1, <2>2 DEF Node
  <2>4. ev \in Event /\ \A other \in NodeIds : ~ Reports(ev, other)
    BY DEF Event, Reports
  <2> HIDE DEF n, ev
  <2>5. Moves(id, n, ev)
    BY <1>2, <1>3, <1>4, <2>2, <2>3, <2>4 DEF Moves
  <2> QED
    BY <2>3, <2>4, <2>5
<1>8. CASE ChangeAvailability(id)
  <2> DEFINE n == [fabric[id] EXCEPT !.available = ~@]
             ev == [type |-> "node", id |-> id, node |-> n]
  <2>1. Change(id, n) /\ Deliver(ev) /\ fabric[id] # Absent
    BY <1>8 DEF ChangeAvailability
  <2>2. n \in Node /\ n.value = fabric[id].value
    BY <1>1, <2>1 DEF Node
  <2>3. ev \in Event /\ Reported(ev) = n.value /\ \A other \in NodeIds : Reports(ev, other) => other = id
    BY <2>2 DEF Event, Reported, Reports
  <2>4. n # Absent
    BY <2>2, NodeAssumption
  <2> HIDE DEF n, ev
  <2>5. Moves(id, n, ev)
    BY <1>2, <1>3, <1>4, <2>1, <2>2, <2>3, <2>4 DEF Moves
  <2> QED
    BY <2>2, <2>3, <2>5
<1>9. CASE Decommission(id) \/ (ServerRemoves(id) /\ fabric[id] # Absent)
  <2> DEFINE ev == [type |-> "removed", id |-> id]
  <2>1. ev \in Event /\ \A other \in NodeIds : ~ Reports(ev, other)
    BY DEF Event, Reports
  <2>2. Deliver(ev)
    BY <1>9 DEF Decommission, ServerRemoves
  <2>3. /\ fabric' = [fabric EXCEPT ![id] = Absent] /\ clock' \in {clock, clock + 1}
        /\ UNCHANGED <<retained, nodes, dump, phase>>
    BY <1>4, <1>9 DEF Decommission, ServerRemoves, RequestUnchanged
  <2> HIDE DEF ev
  <2>4. Moves(id, Absent, ev)
    BY <1>3, <2>1, <2>2, <2>3 DEF Moves
  <2> QED
    BY <2>1, <2>4
<1> QED
  BY <1>5, <1>6, <1>7, <1>8, <1>9

\* Nothing that is new is older than what was there.
LEMMA MovesBelow ==
  ASSUME SafeInv, SafeInv', NEW x \in NodeIds, NEW n \in Node \cup {Absent}, NEW ev \in Event,
         Moves(x, n, ev), NEW id \in NodeIds, NEW v \in Nat, NEW k \in Nat \ {0}, Below(v, id, k)
  PROVE  Below(v, id, k)'
<1>1. clock \in Nat /\ clock' \in {clock, clock + 1} /\ v <= clock'
  BY OrderTypes DEF Moves, Below
<1>2. ASSUME x = id, n # Absent
      PROVE  v <= n.value
  BY <1>1, <1>2 DEF Moves, Below
<1>3. fabric'[id] # Absent => v <= fabric'[id].value
  <2>1. fabric \in Nodes /\ fabric' = [fabric EXCEPT ![x] = n]
    BY DEF Moves, SafeInv, TypeOK, WorldTypeOK
  <2>2. fabric'[id] = IF x = id THEN n ELSE fabric[id]
    BY <2>1 DEF Nodes
  <2> QED
    BY <1>2, <2>2 DEF Below
<1>4. ASSUME NEW i \in k .. Len(events'), Reports(events'[i], id)
      PROVE  v <= Reported(events'[i])
  <2>1. CASE events' = events
    BY <1>4, <2>1 DEF Below
  <2>2. CASE events' = Append(events, ev)
    <3>1. /\ Len(events) \in Nat /\ Len(events') = Len(events) + 1
          /\ events'[Len(events) + 1] = ev
          /\ \A j \in 1 .. Len(events) : events'[j] = events[j]
      BY <2>2, OrderTypes
    <3>2. CASE i \in k .. Len(events)
      BY <1>4, <3>1, <3>2 DEF Below
    <3>3. CASE i = Len(events) + 1
      BY <1>2, <1>4, <3>1, <3>3 DEF Moves
    <3> QED
      BY <3>1, <3>2, <3>3
  <2> QED
    BY <2>1, <2>2 DEF Moves
<1> QED
  BY <1>1, <1>3, <1>4 DEF Below

\* The fabric keeps the order: a report has the time it was made.
LEMMA MovesOrder ==
  ASSUME SafeInv, SafeInv', OrderInv, NEW x \in NodeIds, NEW n \in Node \cup {Absent},
         NEW ev \in Event, Moves(x, n, ev)
  PROVE  OrderInv'
<1>1. phase' \notin {"answered", "serving"} => events' = <<>>
  BY DEF Moves, OrderInv
<1>2. ASSUME NEW id \in NodeIds
      PROVE  Ordered(id)'
  <2> Ordered(id)
    BY DEF OrderInv
  <2>1. UNCHANGED <<retained, nodes, dump, phase>>
    BY DEF Moves
  <2>2. clock \in Nat /\ clock' \in Nat /\ clock <= clock' /\ clock' \in {clock, clock + 1}
    BY OrderTypes DEF Moves
  <2>3. \A v \in Nat, k \in Nat \ {0} : Below(v, id, k) => Below(v, id, k)'
    BY MovesBelow
  <2>4. fabric'[id] = IF x = id THEN n ELSE fabric[id]
    BY DEF Moves, SafeInv, TypeOK, WorldTypeOK, Nodes
  <2>5. FabricOrdered(id)'
    BY <2>2, <2>4, OrderTypes DEF Moves, Ordered, FabricOrdered
  <2>6. RetainedOrdered(id)'
    <3> SUFFICES ASSUME retained[ValueTopic(id)] # Empty
                 PROVE  RetainedOrdered(id)'
      BY <2>1 DEF RetainedOrdered
    <3> PICK v \in Nat : v = retained[ValueTopic(id)].json
      BY OrderTypes
    <3>1. Below(v, id, 1)'
      BY <2>3 DEF Ordered, RetainedOrdered
    <3> QED
      BY <2>1, <3>1 DEF RetainedOrdered, Below
  <2>7. CacheOrdered(id)'
    <3> SUFFICES ASSUME nodes[id] # Absent
                 PROVE  CacheOrdered(id)'
      BY <2>1 DEF CacheOrdered
    <3> PICK v \in Nat : v = nodes[id].value
      BY OrderTypes
    <3>1. Below(v, id, 1)'
      BY <2>3 DEF Ordered, CacheOrdered
    <3> QED
      BY <2>1, <3>1 DEF Ordered, CacheOrdered, Below, Past
  <2>8. DumpOrdered(id)'
    <3> SUFFICES ASSUME phase = "answered", dump[id] # Absent
                 PROVE  DumpOrdered(id)'
      BY <2>1 DEF DumpOrdered
    <3> PICK v \in Nat : v = dump[id].value
      BY OrderTypes
    <3>1. Below(v, id, 1)'
      BY <2>3 DEF Ordered, DumpOrdered
    <3> QED
      BY <2>1, <3>1 DEF Ordered, DumpOrdered, Below, Past
  <2>9. EventsOrdered(id)'
    <3> SUFFICES ASSUME NEW i \in 1 .. Len(events'), Reports(events'[i], id)
                 PROVE  Below(Reported(events[i]), id, i)'
      BY DEF EventsOrdered
    <3>1. CASE i \in 1 .. Len(events) /\ events'[i] = events[i]
      <4> PICK v \in Nat : v = Reported(events[i])
        BY <3>1, OrderTypes
      <4>1. Below(v, id, i)'
        BY <2>3, <3>1 DEF Ordered, EventsOrdered
      <4> QED
        BY <3>1, <4>1 DEF Below
    <3>2. CASE i = Len(events) + 1 /\ Len(events') = i /\ events'[i] = ev
      <4>1. x = id /\ n # Absent /\ Reported(ev) = n.value
        BY <3>2 DEF Moves
      <4>2. n.value <= clock' /\ n.value \in Nat
        BY <2>4, <2>5, <4>1 DEF FabricOrdered, Node
      <4>3. \A j \in i .. Len(events') : j = i
        BY <3>2, OrderTypes
      <4> QED
        BY <2>4, <3>2, <4>1, <4>2, <4>3 DEF Below
    <3>3. \/ events' = events
          \/ events' = Append(events, ev) /\ Len(events') = Len(events) + 1
      BY OrderTypes DEF Moves
    <3>4. CASE events' = Append(events, ev)
      <4>1. /\ Len(events) \in Nat /\ events'[Len(events) + 1] = ev
            /\ \A j \in 1 .. Len(events) : events'[j] = events[j]
        BY <3>4, OrderTypes
      <4> QED
        BY <3>1, <3>2, <3>3, <3>4, <4>1
    <3> QED
      BY <3>1, <3>3, <3>4
  <2> QED
    BY <2>5, <2>6, <2>7, <2>8, <2>9 DEF Ordered
<1> QED
  BY <1>1, <1>2 DEF OrderInv

Handler == Dump \/ HandleAttribute \/ HandleNode \/ HandleRemoved

\* A handler takes at most the first event off the queue.
LEMMA HandlersQueue ==
  ASSUME SafeInv, Handler
  PROVE  /\ UNCHANGED <<clock, fabric>> /\ phase' = "serving"
         /\ \/ Dump /\ phase = "answered" /\ events' = events /\ nodes' = dump
            \/ /\ ~ Dump /\ Len(events) \in Nat \ {0} /\ Len(events') = Len(events) - 1
               /\ Head(events) = events[1] /\ events[1] \in Event
               /\ \A i \in 1 .. Len(events') : events'[i] = events[i + 1]
<1>1. UNCHANGED <<clock, fabric>> /\ phase' = "serving"
  BY DEF Handler, Dump, HandleAttribute, HandleNode, HandleRemoved, Receive, SessionUnchanged, external
<1>2. CASE Dump
  BY <1>1, <1>2 DEF Dump
<1>3. CASE ~ Dump
  <2>1. phase = "serving" /\ events # <<>> /\ events' = Tail(events)
    BY <1>3 DEF Handler, HandleAttribute, HandleNode, HandleRemoved, Receive
  <2>2. events \in Seq(Event)
    BY DEF SafeInv, TypeOK, SessionTypeOK
  <2>3. \A s \in Seq(Event) : s # <<>> =>
          /\ Len(s) \in Nat \ {0} /\ Head(s) = s[1] /\ s[1] \in Event
          /\ Len(Tail(s)) = Len(s) - 1
          /\ \A i \in 1 .. Len(Tail(s)) : Tail(s)[i] = s[i + 1]
    BY HeadTailProperties, EmptySeq
  <2> QED
    BY <1>1, <1>3, <2>1, <2>2, <2>3
<1> QED
  BY <1>2, <1>3

\* What was below everything under way stays below what is left of it.
LEMMA HandlersBelow ==
  ASSUME SafeInv, Handler, NEW id \in NodeIds, NEW v \in Nat, Below(v, id, 1)
  PROVE  Below(v, id, 1)'
<1>1. \A i \in 1 .. Len(events') : \E j \in 1 .. Len(events) : events'[i] = events[j]
  <2>1. CASE events' = events
    BY <2>1
  <2>2. CASE /\ Len(events) \in Nat \ {0} /\ Len(events') = Len(events) - 1
             /\ \A i \in 1 .. Len(events') : events'[i] = events[i + 1]
    <3> SUFFICES ASSUME NEW i \in 1 .. Len(events')
                 PROVE  i + 1 \in 1 .. Len(events) /\ events'[i] = events[i + 1]
      OBVIOUS
    <3> QED
      BY <2>2
  <2> QED
    BY <2>1, <2>2, HandlersQueue
<1>2. UNCHANGED <<clock, fabric>>
  BY HandlersQueue
<1> QED
  BY <1>1, <1>2 DEF Below

\* What a handler leaves on the topic of a value: what was there, nothing, what is
\* cached now, or what the event reports of a node that need not be cached.
LEMMA RetainedSource ==
  ASSUME SafeInv, SafeInv', Handler, NEW id \in NodeIds
  PROVE  \/ retained'[ValueTopic(id)] \in {retained[ValueTopic(id)], Empty}
         \/ nodes'[id] # Absent /\ retained'[ValueTopic(id)].json = nodes'[id].value
         \/ /\ HandleAttribute /\ Reports(Head(events), id)
            /\ retained'[ValueTopic(id)].json = Reported(Head(events))
<1> DEFINE t == ValueTopic(id)
<1>1. t = <<"node", id, "value">> /\ t \in Topic /\ t[3] = "value" /\ t \notin NamedTopic
  BY NodeTopic DEF ValueTopic, Leaves, StateLeaves, NamedTopic
<1>2. PICK gone, sent :
        /\ Publish(gone, sent)
        /\ \A p \in sent :
         OfCache(p, nodes', names') \/ (HandleAttribute /\ OfEvent(p, Head(events), names'))
  BY HandlersPublish DEF Handles, HandledBy, Handler
<1>3. Send(gone, sent)
  BY <1>2 DEF Publish
<1> HIDE DEF t
<1>4. CASE retained'[t] \in {retained[t], Empty}
  BY <1>4 DEF t
<1>5. CASE \E p \in sent : p[1] = t /\ retained'[t] = p[3]
  <2> PICK p \in sent : p[1] = t /\ retained'[t] = p[3]
    BY <1>5
  <2>1. nodes' \in Nodes /\ names' \in [NodeIds -> Keys \cup {Empty}]
    BY DEF SafeInv, TypeOK, CacheTypeOK
  <2>2. CASE OfCache(p, nodes', names')
    <3>1. PICK x \in NodeIds : nodes'[x] # Absent /\ p \in PublishNode(x, nodes'[x], names'[x])
      BY <2>2 DEF OfCache
    <3>2. p[1] \in NodeTopics(x, nodes'[x], names'[x]) /\ p[3] = Payload(nodes'[x], names'[x], "value")
      BY <1>1, <3>1 DEF PublishNode
    <3>3. TopicOf(t, x)
      BY <2>1, <3>1, <3>2, NodeTopicsOwned DEF Nodes
    <3>4. x = id
      BY <1>1, <3>3 DEF TopicOf
    <3>5. p[3] = [json |-> nodes'[id].value]
      BY <3>2, <3>4 DEF Payload
    <3> QED
      BY <3>1, <3>4, <3>5 DEF t
  <2>3. CASE HandleAttribute /\ OfEvent(p, Head(events), names')
    <3> DEFINE ev == Head(events)
    <3>1. ev \in Event /\ ev.type = "attribute" /\ ev.id \in NodeIds /\ ev.leaf \in StateLeaves
      BY <2>3, AttributeEvent DEF OfEvent
    <3>2. p[1] \in Retained(ev.id, names'[ev.id], ev.leaf) /\ p[3] = [json |-> ev.val]
      BY <2>3 DEF OfEvent, PublishAttribute
    <3>3. names'[ev.id] \in Keys \cup {Empty}
      BY <2>1, <3>1
    <3>4. TopicOf(t, ev.id) /\ t[3] = ev.leaf
      BY <3>1, <3>2, <3>3, AttributeTopicsOwned, AttributeTopicsType
    <3>5. ev.id = id /\ ev.leaf = "value"
      BY <1>1, <3>4 DEF TopicOf
    <3> QED
      BY <2>3, <3>1, <3>2, <3>5 DEF t, Reports, Reported
  <2> QED
    BY <1>2, <2>2, <2>3
<1> QED
  BY <1>1, <1>3, <1>4, <1>5, SendAt

\* What a handler leaves in the cache of a node.
LEMMA CacheSource ==
  ASSUME SafeInv, SafeInv', Handler, NEW id \in NodeIds, nodes'[id] # Absent
  PROVE  \/ Dump /\ dump[id] # Absent /\ nodes'[id].value = dump[id].value
         \/ ~ Dump /\ Reports(Head(events), id) /\ nodes'[id].value = Reported(Head(events))
         \/ /\ ~ Dump /\ nodes[id] # Absent /\ nodes'[id].value = nodes[id].value
            /\ ~ (HandleAttribute /\ Reports(Head(events), id))
<1> DEFINE ev == Head(events)
<1>1. nodes \in Nodes
  BY DEF SafeInv, TypeOK, CacheTypeOK
<1>2. CASE Dump
  BY <1>2, HandlersQueue
<1>3. CASE HandleAttribute /\ ~ Dump
  <2>1. nodes' = CacheAttribute(ev.id, ev.leaf, ev.val)
    BY <1>3 DEF HandleAttribute
  <2>2. ev.type = "attribute" /\ ev.id \in NodeIds /\ ev.leaf \in StateLeaves
    BY <1>3, ReceiveType, AttributeEvent DEF HandleAttribute
  <2> HIDE DEF ev
  <2>3. CASE ev.id # id \/ nodes[ev.id] = Absent
    <3>1. nodes'[id] = nodes[id]
      BY <1>1, <2>1, <2>2, <2>3 DEF CacheAttribute, Nodes
    <3> QED
      BY <1>3, <2>3, <3>1 DEF Reports, ev
  <2>4. CASE ev.id = id /\ nodes[id] # Absent /\ ev.leaf = "label"
    <3>1. nodes'[id] = [nodes[id] EXCEPT !.label = ev.val] /\ nodes[id] \in Node
      BY <1>1, <2>1, <2>2, <2>4 DEF CacheAttribute, Nodes
    <3>2. nodes'[id].value = nodes[id].value
      BY <3>1 DEF Node
    <3> QED
      BY <1>3, <2>2, <2>4, <3>2 DEF Reports, ev
  <2>5. CASE ev.id = id /\ nodes[id] # Absent /\ ev.leaf = "value"
    <3>1. nodes'[id] = [nodes[id] EXCEPT !.value = ev.val] /\ nodes[id] \in Node
      BY <1>1, <2>1, <2>2, <2>5 DEF CacheAttribute, Nodes
    <3>2. nodes'[id].value = ev.val
      BY <3>1 DEF Node
    <3> QED
      BY <1>3, <2>2, <2>5, <3>2 DEF Reports, Reported, ev
  <2> QED
    BY <2>2, <2>3, <2>4, <2>5 DEF StateLeaves
<1>4. CASE HandleNode /\ ~ Dump
  <2>1. nodes' = [nodes EXCEPT ![ev.id] = ev.node] /\ ev.type = "node"
    BY <1>4, ReceiveType DEF HandleNode, CacheNode
  <2>2. ~ HandleAttribute
    BY <2>1 DEF HandleAttribute, Receive
  <2> HIDE DEF ev
  <2>3. CASE ev.id = id
    BY <1>1, <1>4, <2>1, <2>3 DEF Reports, Reported, Nodes, ev
  <2>4. CASE ev.id # id
    BY <1>1, <1>4, <2>1, <2>2, <2>4 DEF Nodes, ev
  <2> QED
    BY <2>3, <2>4
<1>5. CASE HandleRemoved /\ ~ Dump
  <2>1. nodes' = [nodes EXCEPT ![ev.id] = Absent] /\ ev.type = "removed"
    BY <1>5, ReceiveType DEF HandleRemoved
  <2>2. ~ HandleAttribute
    BY <2>1 DEF HandleAttribute, Receive
  <2> HIDE DEF ev
  <2>3. nodes'[id] = nodes[id]
    BY <1>1, <2>1 DEF Nodes
  <2> QED
    BY <1>5, <2>2, <2>3
<1> QED
  BY <1>2, <1>3, <1>4, <1>5 DEF Handler

\* A retained value is replaced by a later one.
Forward(id) ==
  retained[ValueTopic(id)] # Empty /\ retained'[ValueTopic(id)] # Empty
    => retained[ValueTopic(id)].json <= retained'[ValueTopic(id)].json

\* A handler publishes what is no older than what is retained, and goes on to show
\* nothing that is newer than what is still on its way.
LEMMA HandlersOrder ==
  ASSUME SafeInv, SafeInv', OrderInv, Handler
  PROVE  OrderInv' /\ \A id \in NodeIds : Forward(id)
<1>1. phase' = "serving" /\ UNCHANGED <<clock, fabric>>
  BY HandlersQueue
<1> SUFFICES ASSUME NEW id \in NodeIds
             PROVE  Ordered(id)' /\ Forward(id)
  BY <1>1 DEF OrderInv
<1> DEFINE t == ValueTopic(id)
           ev == Head(events)
<1>2. Ordered(id)
  BY DEF OrderInv
<1>3. \A v \in Nat : Below(v, id, 1) => Below(v, id, 1)'
  BY HandlersBelow
<1>4. HandleAttribute => ~ Dump
  BY DEF HandleAttribute, Receive, Dump
<1>5. ASSUME ~ Dump, Reports(ev, id)
      PROVE  /\ Reported(ev) \in Nat /\ Below(Reported(ev), id, 1)
             /\ retained[t] # Empty => retained[t].json <= Reported(ev)
  <2>1. ev = events[1] /\ events[1] \in Event /\ 1 \in 1 .. Len(events)
    BY <1>5, HandlersQueue
  <2>2. Reported(ev) \in Nat
    BY <1>5, <2>1, OrderTypes
  <2>3. Below(Reported(events[1]), id, 1)
    BY <1>2, <1>5, <2>1 DEF Ordered, EventsOrdered
  <2>4. retained[t] # Empty => retained[t].json <= Reported(events[1])
    BY <1>2, <1>5, <2>1 DEF Ordered, RetainedOrdered, Below
  <2> QED
    BY <2>1, <2>2, <2>3, <2>4
<1>6. ASSUME nodes'[id] # Absent
      PROVE  /\ \E v \in Nat : v = nodes'[id].value /\ Below(v, id, 1)
             /\ retained[t] # Empty => retained[t].json <= nodes'[id].value
  <2>1. CASE Dump /\ dump[id] # Absent /\ nodes'[id].value = dump[id].value
    <3>1. phase = "answered"
      BY <2>1 DEF Dump
    <3> QED
      BY <1>2, <2>1, <3>1, OrderTypes DEF Ordered, DumpOrdered, Past
  <2>2. CASE ~ Dump /\ Reports(ev, id) /\ nodes'[id].value = Reported(ev)
    BY <1>5, <2>2
  <2>3. CASE nodes[id] # Absent /\ nodes'[id].value = nodes[id].value
    BY <1>2, <2>3, OrderTypes DEF Ordered, CacheOrdered, Past
  <2> QED
    BY <1>6, <2>1, <2>2, <2>3, CacheSource
<1>7. ASSUME HandleAttribute, Reports(ev, id), nodes'[id] # Absent
      PROVE  nodes'[id].value = Reported(ev)
  BY <1>4, <1>7, CacheSource
<1>8. Forward(id)
  <2>1. CASE retained'[t] \in {retained[t], Empty}
    BY <2>1, OrderTypes DEF Forward
  <2>2. CASE nodes'[id] # Absent /\ retained'[t].json = nodes'[id].value
    BY <1>6, <2>2 DEF Forward
  <2>3. CASE HandleAttribute /\ Reports(ev, id) /\ retained'[t].json = Reported(ev)
    BY <1>4, <1>5, <2>3 DEF Forward
  <2> QED
    BY <2>1, <2>2, <2>3, RetainedSource
<1>9. RetainedOrdered(id)'
  <2> SUFFICES ASSUME retained'[t] # Empty
               PROVE  \E v \in Nat : v = retained'[t].json /\ Below(v, id, 1)'
    BY DEF RetainedOrdered, Below
  <2>1. CASE retained'[t] = retained[t]
    BY <1>2, <1>3, <2>1, OrderTypes DEF Ordered, RetainedOrdered
  <2>2. CASE nodes'[id] # Absent /\ retained'[t].json = nodes'[id].value
    BY <1>3, <1>6, <2>2
  <2>3. CASE HandleAttribute /\ Reports(ev, id) /\ retained'[t].json = Reported(ev)
    BY <1>3, <1>4, <1>5, <2>3
  <2> QED
    BY <2>1, <2>2, <2>3, RetainedSource
<1>10. CacheOrdered(id)'
  <2> SUFFICES ASSUME nodes'[id] # Absent
               PROVE  /\ \E v \in Nat : v = nodes'[id].value /\ Below(v, id, 1)'
                      /\ retained'[t] # Empty => retained'[t].json <= nodes'[id].value
    BY DEF CacheOrdered, Below, Past
  <2>1. \E v \in Nat : v = nodes'[id].value /\ Below(v, id, 1)'
    BY <1>3, <1>6
  <2>2. retained'[t] # Empty => retained'[t].json <= nodes'[id].value
    BY <1>6, <1>7, RetainedSource
  <2> QED
    BY <2>1, <2>2
<1>11. DumpOrdered(id)' /\ FabricOrdered(id)'
  BY <1>1, <1>2 DEF Ordered, DumpOrdered, FabricOrdered
<1>12. EventsOrdered(id)'
  <2>1. CASE Dump
    BY <1>1, <1>2, <2>1, HandlersQueue DEF Ordered, EventsOrdered, Below
  <2>2. CASE ~ Dump
    <3>1. /\ Len(events) \in Nat \ {0} /\ Len(events') = Len(events) - 1
          /\ \A i \in 1 .. Len(events') : events'[i] = events[i + 1]
      BY <2>2, HandlersQueue
    <3> SUFFICES ASSUME NEW i \in 1 .. Len(events'), Reports(events'[i], id)
                 PROVE  Below(Reported(events[i]), id, i)'
      BY DEF EventsOrdered
    <3>2. i + 1 \in 1 .. Len(events) /\ events'[i] = events[i + 1]
      BY <3>1
    <3>3. Below(Reported(events[i + 1]), id, i + 1)
      BY <1>2, <3>2 DEF Ordered, EventsOrdered
    <3>4. \A j \in i .. Len(events') : j + 1 \in i + 1 .. Len(events) /\ events'[j] = events[j + 1]
      BY <3>1
    <3> QED
      BY <1>1, <3>2, <3>3, <3>4 DEF Below
  <2> QED
    BY <2>1, <2>2
<1> QED
  BY <1>8, <1>9, <1>10, <1>11, <1>12 DEF Ordered

\* The steps that neither handle nor report anything.
Rests ==
  /\ UNCHANGED <<clock, fabric>>
  /\ \A id \in NodeIds : /\ retained'[ValueTopic(id)] \in {retained[ValueTopic(id)], Empty}
                         /\ nodes'[id] \in {nodes[id], Absent}
  /\ events' = events \/ events' = <<>>
  /\ phase' \notin {"answered", "serving"} => phase = phase' \/ events' = <<>>
  /\ phase' = "serving" => phase = "serving"
  /\ phase' = "answered" => \/ phase = "answered" /\ dump' = dump
                            \/ phase = "calling" /\ dump' = fabric

LEMMA OtherSteps ==
  ASSUME SafeInv, OrderInv, [Next]_vars
  PROVE  \/ Handler
         \/ \E x \in NodeIds, n \in Node \cup {Absent}, ev \in Event : Moves(x, n, ev)
         \/ Rests
<1>1. CASE FabricNext \/ \E id \in NodeIds : ServerRemoves(id) /\ fabric[id] # Absent
  BY <1>1, FabricMoves DEF FabricNext
<1>2. CASE UNCHANGED <<clock, fabric, retained, nodes>> /\ SessionNext
  BY <1>2 DEF Rests, Handler, OrderInv, SessionNext, Dial, DialFails, ServerAnswers, CallFails,
     WsDrops, SessionEnds, Reconnect
<1>3. CASE UNCHANGED <<clock, fabric, retained, nodes, events, phase, dump>>
  BY <1>3 DEF Rests
<1>4. CASE Dial \/ DialFails \/ ServerAnswers \/ CallFails \/ WsDrops \/ SessionEnds
  <2>1. UNCHANGED <<clock, fabric, retained, nodes>>
    BY <1>4 DEF Dial, DialFails, ServerAnswers, CallFails, WsDrops, SessionEnds, SessionUnchanged,
       external, broker
  <2> QED
    BY <1>2, <1>4, <2>1 DEF SessionNext
<1>5. CASE Reconnect
  <2>1. \A id \in NodeIds : retained'[ValueTopic(id)] = retained[ValueTopic(id)]
    <3> SUFFICES ASSUME NEW id \in NodeIds
                 PROVE  retained'[ValueTopic(id)] = retained[ValueTopic(id)]
      OBVIOUS
    <3>1. /\ ValueTopic(id) \in Topic
          /\ \A x \in NodeIds : ValueTopic(id) # <<"node", x, "availability">>
      BY NodeTopic DEF ValueTopic, Leaves, StateLeaves
    <3> QED
      BY <1>5, <3>1 DEF Reconnect, MarkAllUnavailable
  <2>2. UNCHANGED <<clock, fabric, nodes, events>> /\ phase = "ended" /\ phase' = "backoff"
    BY <1>5 DEF Reconnect, SessionUnchanged, external
  <2> QED
    BY <2>1, <2>2 DEF Rests, OrderInv
<1>6. CASE \E x \in NodeIds : RequestRemove(x) \/ RequestFails(x)
  <2>1. UNCHANGED <<clock, fabric, retained, nodes, events, phase, dump>>
    BY <1>6 DEF RequestRemove, RequestFails, RequestUnchanged
  <2> QED
    BY <1>3, <2>1
<1>7. CASE \E x \in NodeIds : ServerRemoves(x) /\ fabric[x] = Absent
  <2>1. UNCHANGED <<clock, fabric, retained, nodes, events, phase, dump>>
    BY <1>7 DEF ServerRemoves, RequestUnchanged
  <2> QED
    BY <1>3, <2>1
<1>8. CASE \E x \in NodeIds : FinishRemove(x)
  <2> PICK x \in NodeIds : FinishRemove(x)
    BY <1>8
  <2>1. PICK wiped : Send(wiped, {})
    BY DEF FinishRemove, Publish
  <2>2. \A id \in NodeIds : ValueTopic(id) \in Topic
    BY NodeTopic DEF ValueTopic, Leaves, StateLeaves
  <2>3. \A id \in NodeIds : retained'[ValueTopic(id)] \in {retained[ValueTopic(id)], Empty}
    BY <2>1, <2>2, SendAt
  <2>4. UNCHANGED <<clock, fabric, nodes, events, phase, dump>>
    BY DEF FinishRemove, RequestUnchanged
  <2> QED
    BY <2>3, <2>4 DEF Rests
<1>9. CASE MqttLost \/ MqttBack \/ UNCHANGED vars
  <2>1. UNCHANGED <<clock, fabric, retained, nodes, events, phase, dump>>
    BY <1>9 DEF MqttLost, MqttBack, vars, external, broker, session
  <2> QED
    BY <1>3, <2>1
<1>10. CASE Crash
  BY <1>10 DEF Crash, Rests, external, broker
<1> QED
  BY <1>1, <1>4, <1>5, <1>6, <1>7, <1>8, <1>9, <1>10 DEF Next, SessionNext, RequestNext, Handler

\* A step that reports nothing keeps the order.
LEMMA RestsOrder ==
  ASSUME SafeInv, OrderInv, Rests
  PROVE  OrderInv' /\ \A id \in NodeIds : Forward(id)
<1>1. phase' \notin {"answered", "serving"} => events' = <<>>
  BY DEF Rests, OrderInv
<1>2. events' = events \/ Len(events') = 0
  BY EmptyType DEF Rests
<1> SUFFICES ASSUME NEW id \in NodeIds
             PROVE  Ordered(id)' /\ Forward(id)
  BY <1>1 DEF OrderInv
<1>3. \A v, k : Below(v, id, k) /\ events' = events => Below(v, id, k)'
  BY DEF Below, Rests
<1>4. \A v \in Nat, k \in Nat \ {0} : Below(v, id, k) => Below(v, id, k)'
  <2> SUFFICES ASSUME NEW v \in Nat, NEW k \in Nat \ {0}, Below(v, id, k), Len(events') = 0
               PROVE  Below(v, id, k)'
    BY <1>2, <1>3
  <2>1. k .. Len(events') = {}
    OBVIOUS
  <2> QED
    BY <2>1 DEF Below, Rests
<1>5. Ordered(id)
  BY DEF OrderInv
<1>6. FabricOrdered(id)'
  BY <1>5 DEF Ordered, FabricOrdered, Rests
<1>7. RetainedOrdered(id)'
  <2> SUFFICES ASSUME retained'[ValueTopic(id)] # Empty
               PROVE  \E v \in Nat : v = retained'[ValueTopic(id)].json /\ Below(v, id, 1)'
    BY DEF RetainedOrdered, Below
  <2> QED
    BY <1>4, <1>5, OrderTypes DEF Ordered, RetainedOrdered, Rests
<1>8. CacheOrdered(id)'
  <2> SUFFICES ASSUME nodes'[id] # Absent
               PROVE  /\ \E v \in Nat : v = nodes'[id].value /\ Below(v, id, 1)'
                      /\ Past(nodes[id].value, id)'
    BY DEF CacheOrdered, Below
  <2>1. nodes'[id] = nodes[id]
    BY DEF Rests
  <2>2. \E v \in Nat : v = nodes[id].value /\ Below(v, id, 1)'
    BY <1>4, <1>5, <2>1, OrderTypes DEF Ordered, CacheOrdered
  <2> QED
    BY <1>5, <2>1, <2>2 DEF Ordered, CacheOrdered, Past, Rests
<1>9. DumpOrdered(id)'
  <2> SUFFICES ASSUME phase' = "answered", dump'[id] # Absent
               PROVE  /\ \E v \in Nat : v = dump'[id].value /\ Below(v, id, 1)'
                      /\ Past(dump[id].value, id)'
    BY DEF DumpOrdered, Below
  <2>1. CASE phase = "answered" /\ dump' = dump
    <3>1. \E v \in Nat : v = dump[id].value /\ Below(v, id, 1)'
      BY <1>4, <1>5, <2>1, OrderTypes DEF Ordered, DumpOrdered
    <3> QED
      BY <1>5, <2>1, <3>1 DEF Ordered, DumpOrdered, Past, Rests
  <2>2. CASE phase = "calling" /\ dump' = fabric
    <3>1. fabric[id] # Absent /\ fabric[id].value \in Nat /\ fabric[id].value <= clock
      BY <1>5, <2>2, OrderTypes DEF Ordered, FabricOrdered
    <3>2. Len(events) = 0
      BY <2>2, EmptyType DEF OrderInv
    <3>3. 1 .. Len(events) = {}
      BY <3>2
    <3> PICK v \in Nat : v = fabric[id].value
      BY <3>1
    <3>4. Below(v, id, 1)
      BY <3>1, <3>3 DEF Below
    <3>5. retained[ValueTopic(id)] # Empty => retained[ValueTopic(id)].json <= v
      BY <1>5, <3>1 DEF Ordered, RetainedOrdered, Below
    <3> QED
      BY <1>4, <2>2, <3>4, <3>5 DEF Past, Rests
  <2> QED
    BY <2>1, <2>2 DEF Rests
<1>10. EventsOrdered(id)'
  <2>1. CASE events' = events
    BY <1>3, <1>5, <2>1 DEF Ordered, EventsOrdered, Below, Rests
  <2>2. CASE Len(events') = 0
    <3>1. 1 .. Len(events') = {}
      BY <2>2
    <3> QED
      BY <3>1 DEF EventsOrdered
  <2> QED
    BY <1>2, <2>1, <2>2
<1>11. Forward(id)
  BY OrderTypes DEF Forward, Rests
<1> QED
  BY <1>6, <1>7, <1>8, <1>9, <1>10, <1>11 DEF Ordered

\* In the beginning nothing has been reported.
LEMMA InitOrder == Init /\ SafeInv => OrderInv
<1> SUFFICES ASSUME Init, SafeInv PROVE OrderInv
  OBVIOUS
<1>1. Len(events) = 0 /\ events = <<>> /\ 1 .. 0 = {}
  BY EmptyType DEF Init
<1>2. \A id \in NodeIds : retained[ValueTopic(id)] = Empty
  BY NodeTopic DEF Init, ValueTopic, Leaves, StateLeaves
<1>3. nodes = [id \in NodeIds |-> Absent] /\ phase = "start"
  BY DEF Init
<1>4. \A id \in NodeIds : FabricOrdered(id)
  BY NodeAssumption DEF Init, FabricOrdered
<1> QED
  BY <1>1, <1>2, <1>3, <1>4 DEF OrderInv, Ordered, RetainedOrdered, CacheOrdered, DumpOrdered,
     EventsOrdered

\* Every step keeps the order and takes no retained value back.
LEMMA NextOrder ==
  ASSUME SafeInv, SafeInv', OrderInv, [Next]_vars
  PROVE  OrderInv' /\ \A id \in NodeIds : Forward(id)
<1>1. CASE Handler
  BY <1>1, HandlersOrder
<1>2. CASE \E x \in NodeIds, n \in Node \cup {Absent}, ev \in Event : Moves(x, n, ev)
  <2>1. OrderInv'
    BY <1>2, MovesOrder
  <2>2. \A id \in NodeIds : Forward(id)
    BY <1>2, OrderTypes DEF Moves, Forward
  <2> QED
    BY <2>1, <2>2
<1>3. CASE Rests
  BY <1>3, RestsOrder
<1> QED
  BY <1>1, <1>2, <1>3, OtherSteps

LEMMA SpecOrder == Spec => [](SafeInv /\ OrderInv)
<1>1. SafeInv /\ SafeInv' /\ OrderInv /\ [Next]_vars => OrderInv'
  BY NextOrder
<1> QED
  BY <1>1, InitOrder, InitSafe, SpecSafe, PTL DEF Spec

\* Whatever fails, the value that is retained of an attribute is never replaced by
\* one that was reported before it (publishNode and publishAttribute against the
\* order in which handleEvent and session see reports and dumps).
THEOREM ReportsStayInOrder == Spec => NoRegress
<1>1. SafeInv /\ SafeInv' /\ OrderInv /\ [Next]_vars =>
        [\A id \in NodeIds :
           LET t == <<"node", id, "value">>
           IN  retained[t] # Empty /\ retained'[t] # Empty
                 => retained[t].json <= retained'[t].json]_vars
  BY NextOrder DEF Forward, ValueTopic
<1> QED
  BY <1>1, SpecOrder, PTL DEF Spec, NoRegress

-----------------------------------------------------------------------------
(* Catching up.  The events on their way lead from what the cache, or the     *)
(* dump, has to what the fabric is.                                           *)

\* What an event makes of a cache (handleEvent, bridge.go:319-366).
Applied(ns, ev) ==
  CASE ev.type = "node"      -> [ns EXCEPT ![ev.id] = ev.node]
    [] ev.type = "removed"   -> [ns EXCEPT ![ev.id] = Absent]
    [] ev.type = "attribute" -> IF ns[ev.id] = Absent THEN ns
                                ELSE IF ev.leaf = "label" THEN [ns EXCEPT ![ev.id].label = ev.val]
                                                          ELSE [ns EXCEPT ![ev.id].value = ev.val]

\* The events lead from ns to fin.
Replay(ns, fin) ==
  \E s \in [1 .. Len(events) + 1 -> Nodes] :
    /\ s[1] = ns /\ s[Len(events) + 1] = fin
    /\ \A i \in 1 .. Len(events) : s[i + 1] = Applied(s[i], events[i])

\* Nothing is known of a node before it is commissioned.
Known ==
  /\ \A id \in NodeIds : id \notin commissioned =>
       fabric[id] = Absent /\ nodes[id] = Absent /\ dump[id] = Absent
  /\ \A i \in 1 .. Len(events) : events[i].type = "node" => events[i].id \in commissioned

\* What is tracked for a node is its own, or an alias.
TracksOwn == \A id \in NodeIds : \A t \in tracked[id] : TopicOf(t, id)

\* A node that is cached and on the fabric is shown as it is cached.
Shown(id) ==
  nodes[id] # Absent /\ fabric[id] # Absent =>
    \A leaf \in ShownLeaves(nodes[id]) :
      Shows(retained[<<"node", id, leaf>>], nodes[id], names[id], leaf)

CaughtUp ==
  /\ phase \notin {"answered", "serving"} => events = <<>>
  /\ alive => phase \in {"calling", "answered", "serving"}
  /\ alive /\ phase = "answered" => Replay(dump, fabric)
  /\ alive /\ phase = "serving" => Replay(nodes, fabric)

\* A node whose topics a request is about to clear is gone.
RequestsLate ==
  \A id \in NodeIds : req[id] \in {"calling", "answered"} =>
    id \in commissioned /\ (req[id] = "answered" => fabric[id] = Absent)

HealInv ==
  OnlyMeets({"requests", "unwatched", "crash"}) =>
    /\ mqtt /\ Removable \subseteq commissioned
    /\ Known /\ TracksOwn /\ CaughtUp /\ RequestsLate
    /\ phase = "serving" => \A id \in NodeIds : Shown(id)

\* An event makes a cache of a cache.
LEMMA AppliedType ==
  ASSUME NEW ns \in Nodes, NEW ev \in Event
  PROVE  Applied(ns, ev) \in Nodes
<1>1. CASE ev.type = "node"
  <2>1. ev.id \in NodeIds /\ ev.node \in Node
    BY <1>1, NodeEvent
  <2>2. Applied(ns, ev) = [ns EXCEPT ![ev.id] = ev.node]
    BY <1>1 DEF Applied
  <2> QED
    BY <2>1, <2>2 DEF Nodes
<1>2. CASE ev.type = "removed"
  BY <1>2 DEF Applied, Nodes
<1>3. CASE ev.type = "attribute"
  <2>1. ev.id \in NodeIds /\ ev.leaf \in StateLeaves
    BY <1>3, AttributeEvent
  <2>2. /\ ev.leaf = "label" => ev.val \in Labels
        /\ ev.leaf = "value" => ev.val \in 0 .. MaxChanges
    BY <1>3 DEF Event
  <2>3. Applied(ns, ev) = IF ns[ev.id] = Absent THEN ns
                          ELSE IF ev.leaf = "label" THEN [ns EXCEPT ![ev.id].label = ev.val]
                                                    ELSE [ns EXCEPT ![ev.id].value = ev.val]
    BY <1>3 DEF Applied
  <2>4. ns[ev.id] # Absent => ns[ev.id] \in Node
    BY <2>1 DEF Nodes
  <2>5. CASE ns[ev.id] # Absent /\ ev.leaf = "label"
    <3>1. [ns[ev.id] EXCEPT !.label = ev.val] \in Node
      BY <2>2, <2>4, <2>5 DEF Node
    <3> QED
      BY <2>1, <2>3, <2>5, <3>1 DEF Nodes
  <2>6. CASE ns[ev.id] # Absent /\ ev.leaf = "value"
    <3>1. [ns[ev.id] EXCEPT !.value = ev.val] \in Node
      BY <2>2, <2>4, <2>6 DEF Node
    <3> QED
      BY <2>1, <2>3, <2>6, <3>1 DEF Nodes
  <2> QED
    BY <2>1, <2>3, <2>5, <2>6 DEF StateLeaves
<1> QED
  BY <1>1, <1>2, <1>3 DEF Event

\* Where nothing is on its way, nothing is missing.
LEMMA ReplayNothing ==
  ASSUME NEW ns \in Nodes, NEW fin, Len(events) = 0
  PROVE  Replay(ns, fin) <=> ns = fin
<1>1. Replay(ns, fin) => ns = fin
  BY DEF Replay
<1>2. ASSUME ns = fin
      PROVE  Replay(ns, fin)
  <2> DEFINE s == [i \in 1 .. Len(events) + 1 |-> ns]
  <2>1. s \in [1 .. Len(events) + 1 -> Nodes] /\ s[1] = ns /\ s[Len(events) + 1] = ns
    OBVIOUS
  <2>2. 1 .. Len(events) = {}
    OBVIOUS
  <2> HIDE DEF s
  <2> QED
    BY <1>2, <2>1, <2>2 DEF Replay
<1> QED
  BY <1>1, <1>2

\* One more event leads one step further.
LEMMA ReplayMore ==
  ASSUME NEW ns, NEW fin, Replay(ns, fin), events \in Seq(Event), NEW ev \in Event,
         events' = Append(events, ev), NEW next \in Nodes, next = Applied(fin, ev)
  PROVE  Replay(ns, next)'
<1> DEFINE n == Len(events)
<1>1. PICK s \in [1 .. n + 1 -> Nodes] :
        /\ s[1] = ns /\ s[n + 1] = fin
        /\ \A i \in 1 .. n : s[i + 1] = Applied(s[i], events[i])
  BY DEF Replay
<1>2. /\ n \in Nat /\ Len(events') = n + 1 /\ events'[n + 1] = ev
      /\ \A i \in 1 .. n : events'[i] = events[i]
  OBVIOUS
<1> DEFINE z == [i \in 1 .. n + 2 |-> IF i = n + 2 THEN next ELSE s[i]]
<1>3. z \in [1 .. n + 2 -> Nodes] /\ z[1] = ns /\ z[n + 2] = next
  BY <1>1, <1>2
<1>4. ASSUME NEW i \in 1 .. n + 1
      PROVE  z[i + 1] = Applied(z[i], events'[i])
  <2>1. CASE i = n + 1
    <3>1. z[i + 1] = next /\ z[i] = fin /\ events'[i] = ev
      BY <1>1, <1>2, <2>1
    <3> HIDE DEF z
    <3> QED
      BY <3>1
  <2>2. CASE i \in 1 .. n
    <3>1. z[i + 1] = s[i + 1] /\ z[i] = s[i] /\ events'[i] = events[i]
      BY <1>2, <2>2
    <3> HIDE DEF z
    <3> QED
      BY <1>1, <2>2, <3>1
  <2> QED
    BY <1>2, <2>1, <2>2
<1>5. n + 2 = Len(events') + 1 /\ n + 1 = Len(events')
  BY <1>2
<1> HIDE DEF z, n
<1> QED
  BY <1>3, <1>4, <1>5 DEF Replay

\* The first event is the first step.
LEMMA ReplayFirst ==
  ASSUME NEW ns, NEW fin, Replay(ns, fin), events \in Seq(Event), events # <<>>,
         events' = Tail(events), NEW next, next = Applied(ns, Head(events))
  PROVE  Replay(next, fin)'
<1> DEFINE n == Len(events)
<1>1. PICK s \in [1 .. n + 1 -> Nodes] :
        /\ s[1] = ns /\ s[n + 1] = fin
        /\ \A i \in 1 .. n : s[i + 1] = Applied(s[i], events[i])
  BY DEF Replay
<1>2. /\ n \in Nat \ {0} /\ Head(events) = events[1] /\ Len(events') = n - 1
      /\ \A i \in 1 .. Len(events') : events'[i] = events[i + 1]
  BY HeadTailProperties, EmptySeq
<1> DEFINE z == [i \in 1 .. n |-> s[i + 1]]
<1>3. z \in [1 .. n -> Nodes] /\ z[1] = s[2] /\ z[n] = fin
  BY <1>1, <1>2
<1>4. s[2] = next
  <2>1. 1 \in 1 .. n /\ 1 + 1 = 2
    BY <1>2
  <2> QED
    BY <1>1, <1>2, <2>1
<1>5. ASSUME NEW i \in 1 .. n - 1
      PROVE  z[i + 1] = Applied(z[i], events'[i])
  <2>1. /\ i + 1 \in 1 .. n /\ z[i] = s[i + 1] /\ z[i + 1] = s[(i + 1) + 1]
        /\ events'[i] = events[i + 1]
    BY <1>2
  <2> HIDE DEF z
  <2> QED
    BY <1>1, <2>1
<1>6. n = Len(events') + 1 /\ n - 1 = Len(events')
  BY <1>2
<1> HIDE DEF z, n
<1> QED
  BY <1>3, <1>4, <1>5, <1>6 DEF Replay

\* Two fabrics that differ in values and availabilities only.
SameLabels(a, b) ==
  \A id \in NodeIds : /\ a[id] = Absent <=> b[id] = Absent
                      /\ a[id] # Absent => a[id].label = b[id].label

\* The fabric changes as an event says that readPump is given, if it listens.
Tells(ev) ==
  /\ fabric' = Applied(fabric, ev)
  /\ \/ events' = Append(events, ev) /\ Listening
     \/ events' = events /\ (Listening => "overflow" \in env)
  /\ commissioned \subseteq commissioned'
  /\ ev.type = "node" => /\ ev.id \in commissioned' \/ fabric[ev.id] # Absent
                         /\ fabric[ev.id] = Absent => ev.id \notin commissioned
  /\ MayChangeNames \/ SameLabels(fabric', fabric)
  /\ \A id \in NodeIds : \/ req'[id] = req[id]
                         \/ req[id] = "calling" /\ req'[id] = "answered" /\ fabric'[id] = Absent
  /\ UNCHANGED <<env, retained, tracked, names, nodes, dump, phase, alive, mqtt>>

\* An event that matter-server may send about fabric ns: attributes are those of a
\* node that is there, and a label once given is not taken back.
Sound(ns, ev) ==
  /\ ev.type = "attribute" => ns[ev.id] # Absent /\ (ev.leaf = "label" => ev.val # NoLabel)
  /\ ev.type = "node" /\ ns[ev.id] # Absent /\ ns[ev.id].label # NoLabel => ev.node.label # NoLabel

\* matter-server tells its listeners of everything that changes.
LEMMA FabricTells ==
  ASSUME SafeInv, NEW id \in NodeIds,
         \/ Commission(id) \/ ReportValue(id) \/ Relabel(id) \/ ChangeAvailability(id)
         \/ Decommission(id)
         \/ ServerRemoves(id) /\ fabric[id] # Absent
  PROVE  \E ev \in Event :
           Tells(ev) /\ ((fabric[id] # Absent => id \in commissioned) => Sound(fabric, ev))
<1>1. fabric \in Nodes /\ (fabric[id] # Absent => fabric[id] \in Node)
      /\ req \in [NodeIds -> {"idle", "calling", "answered", "done"}]
  BY DEF SafeInv, TypeOK, WorldTypeOK, Nodes
<1>2. clock \in Nat /\ (clock < MaxChanges => clock + 1 \in 0 .. MaxChanges)
  BY BridgeAssumption DEF SafeInv, TypeOK, WorldTypeOK
<1>3. ASSUME NEW ev, Deliver(ev)
      PROVE  \/ events' = Append(events, ev) /\ Listening
             \/ events' = events /\ (Listening => "overflow" \in env)
  BY <1>3 DEF Deliver
<1>4. ASSUME NEW n, Change(id, n)
      PROVE  /\ fabric' = [fabric EXCEPT ![id] = n] /\ clock < MaxChanges
             /\ UNCHANGED <<env, retained, tracked, names, nodes, dump, phase, alive, mqtt, req>>
  BY <1>4 DEF Change, broker
<1>5. ASSUME fabric[id] # Absent, NEW n \in Node, n.label = fabric[id].label,
             fabric' = [fabric EXCEPT ![id] = n]
      PROVE  SameLabels(fabric', fabric)
  BY <1>1, <1>5, NodeAssumption DEF SameLabels, Nodes
<1>6. CASE Commission(id)
  <2>1. PICK l \in Labels :
          LET n == [label |-> l, value |-> clock + 1, available |-> TRUE]
          IN  Change(id, n) /\ Deliver([type |-> "node", id |-> id, node |-> n])
    BY <1>6 DEF Commission
  <2> DEFINE n == [label |-> l, value |-> clock + 1, available |-> TRUE]
             ev == [type |-> "node", id |-> id, node |-> n]
  <2>2. Change(id, n) /\ Deliver(ev)
    BY <2>1
  <2>3. n \in Node
    BY <1>2, <1>4, <2>2 DEF Node
  <2>4. ev \in Event /\ ev.type = "node" /\ ev.id = id /\ ev.node = n
    BY <2>3 DEF Event
  <2>5. id \notin commissioned /\ MayChangeNames /\ commissioned' = commissioned \cup {id}
    BY <1>6 DEF Commission
  <2> HIDE DEF n, ev
  <2>6. fabric' = Applied(fabric, ev)
    BY <1>4, <2>2, <2>4 DEF Applied
  <2>7. Tells(ev)
    BY <1>3, <1>4, <2>2, <2>4, <2>5, <2>6 DEF Tells
  <2> QED
    BY <2>4, <2>5, <2>7 DEF Sound
<1>7. CASE ReportValue(id)
  <2> DEFINE n == [fabric[id] EXCEPT !.value = clock + 1]
             ev == [type |-> "attribute", id |-> id, leaf |-> "value", val |-> clock + 1]
  <2>1. Change(id, n) /\ Deliver(ev) /\ fabric[id] # Absent /\ UNCHANGED commissioned
    BY <1>7 DEF ReportValue
  <2>2. n \in Node /\ n.label = fabric[id].label
    BY <1>1, <1>2, <1>4, <2>1 DEF Node
  <2>3. ev \in Event
    BY <1>2, <1>4, <2>1 DEF Event
  <2>4. fabric' = Applied(fabric, ev)
    BY <1>4, <2>1 DEF Applied
  <2>5. SameLabels(fabric', fabric) /\ ev.type = "attribute" /\ ev.id = id /\ ev.leaf = "value"
    BY <1>4, <1>5, <2>1, <2>2
  <2> HIDE DEF n, ev
  <2>6. Tells(ev)
    BY <1>3, <1>4, <2>1, <2>4, <2>5 DEF Tells
  <2> QED
    BY <2>1, <2>3, <2>5, <2>6 DEF Sound
<1>8. CASE Relabel(id)
  <2>1. PICK l \in Labels \ {NoLabel} :
          /\ Change(id, [fabric[id] EXCEPT !.label = l])
          /\ Deliver([type |-> "attribute", id |-> id, leaf |-> "label", val |-> l])
    BY <1>8 DEF Relabel
  <2> DEFINE n == [fabric[id] EXCEPT !.label = l]
             ev == [type |-> "attribute", id |-> id, leaf |-> "label", val |-> l]
  <2>2. /\ Change(id, n) /\ Deliver(ev) /\ fabric[id] # Absent /\ UNCHANGED commissioned
        /\ MayChangeNames
    BY <1>8, <2>1 DEF Relabel
  <2>3. ev \in Event /\ ev.type = "attribute" /\ ev.id = id /\ ev.val = l
    BY DEF Event
  <2>4. fabric' = Applied(fabric, ev)
    BY <1>4, <2>2 DEF Applied
  <2> HIDE DEF n, ev
  <2>5. Tells(ev)
    BY <1>3, <1>4, <2>2, <2>3, <2>4 DEF Tells
  <2> QED
    BY <2>2, <2>3, <2>5 DEF Sound
<1>9. CASE ChangeAvailability(id)
  <2> DEFINE n == [fabric[id] EXCEPT !.available = ~@]
             ev == [type |-> "node", id |-> id, node |-> n]
  <2>1. Change(id, n) /\ Deliver(ev) /\ fabric[id] # Absent /\ UNCHANGED commissioned
    BY <1>9 DEF ChangeAvailability
  <2>2. n \in Node /\ n.label = fabric[id].label
    BY <1>1, <2>1 DEF Node
  <2>3. ev \in Event /\ ev.type = "node" /\ ev.id = id /\ ev.node = n
    BY <2>2 DEF Event
  <2> HIDE DEF n, ev
  <2>4. fabric' = Applied(fabric, ev)
    BY <1>4, <2>1, <2>3 DEF Applied
  <2>5. SameLabels(fabric', fabric)
    BY <1>4, <1>5, <2>1, <2>2
  <2>6. Tells(ev)
    BY <1>3, <1>4, <2>1, <2>3, <2>4, <2>5 DEF Tells
  <2> QED
    BY <2>2, <2>3, <2>6 DEF Sound
<1>10. CASE Decommission(id) \/ (ServerRemoves(id) /\ fabric[id] # Absent)
  <2> DEFINE ev == [type |-> "removed", id |-> id]
  <2>1. ev \in Event /\ ev.type = "removed" /\ ev.id = id
    BY DEF Event
  <2>2. Deliver(ev) /\ MayChangeNames
    BY <1>10 DEF Decommission, ServerRemoves
  <2>3. /\ fabric' = [fabric EXCEPT ![id] = Absent] /\ UNCHANGED commissioned
        /\ UNCHANGED <<env, retained, tracked, names, nodes, dump, phase, alive, mqtt>>
    BY <1>4, <1>10 DEF Decommission, ServerRemoves, RequestUnchanged
  <2>4. \A x \in NodeIds : \/ req'[x] = req[x]
                           \/ req[x] = "calling" /\ req'[x] = "answered" /\ fabric'[x] = Absent
    BY <1>1, <1>4, <1>10, <2>3 DEF Decommission, ServerRemoves, Nodes
  <2> HIDE DEF ev
  <2>5. fabric' = Applied(fabric, ev)
    BY <2>1, <2>3 DEF Applied
  <2>6. Tells(ev)
    BY <1>3, <2>1, <2>2, <2>3, <2>4, <2>5 DEF Tells
  <2> QED
    BY <2>1, <2>6 DEF Sound
<1> QED
  BY <1>6, <1>7, <1>8, <1>9, <1>10

\* A handler makes of the cache what the event makes of it.
LEMMA HandlersApply ==
  ASSUME SafeInv, Handler, ~ Dump
  PROVE  /\ nodes' = Applied(nodes, Head(events)) /\ Head(events) \in Event
         /\ events # <<>> /\ events' = Tail(events) /\ phase = "serving"
<1>1. CASE HandleAttribute
  <2>1. Head(events).type = "attribute" /\ Head(events) \in Event
    BY <1>1, ReceiveType DEF HandleAttribute
  <2> QED
    BY <1>1, <2>1 DEF HandleAttribute, Receive, CacheAttribute, Applied
<1>2. CASE HandleNode
  <2>1. Head(events).type = "node" /\ Head(events) \in Event
    BY <1>2, ReceiveType DEF HandleNode
  <2> QED
    BY <1>2, <2>1 DEF HandleNode, Receive, CacheNode, Applied
<1>3. CASE HandleRemoved
  <2>1. Head(events).type = "removed" /\ Head(events) \in Event
    BY <1>3, ReceiveType DEF HandleRemoved
  <2> QED
    BY <1>3, <2>1 DEF HandleRemoved, Receive, Applied
<1> QED
  BY <1>1, <1>2, <1>3 DEF Handler

\* A publication of a handler says what is cached, on the topic of a node that is.
LEMMA SentShows ==
  ASSUME SafeInv, SafeInv', Handler, NEW p, NEW id \in NodeIds, nodes'[id] # Absent,
         NEW leaf \in Leaves, p[1] = <<"node", id, leaf>>,
         OfCache(p, nodes', names') \/ (HandleAttribute /\ OfEvent(p, Head(events), names'))
  PROVE  p[3] = Payload(nodes'[id], names'[id], leaf)
<1> DEFINE t == <<"node", id, leaf>>
<1>1. t \in Topic /\ t[3] = leaf /\ t \notin NamedTopic
  BY NodeTopic DEF NamedTopic
<1>2. nodes' \in Nodes /\ names' \in [NodeIds -> Keys \cup {Empty}]
  BY DEF SafeInv, TypeOK, CacheTypeOK
<1>3. ASSUME NEW x, TopicOf(t, x)
      PROVE  x = id
  BY <1>1, <1>3 DEF TopicOf
<1> HIDE DEF t
<1>4. CASE OfCache(p, nodes', names')
  <2>1. PICK x \in NodeIds : nodes'[x] # Absent /\ p \in PublishNode(x, nodes'[x], names'[x])
    BY <1>4 DEF OfCache
  <2>2. p[1] \in NodeTopics(x, nodes'[x], names'[x]) /\ p[3] = Payload(nodes'[x], names'[x], p[1][3])
    BY <2>1 DEF PublishNode
  <2>3. p[1] = t
    BY DEF t
  <2>4. TopicOf(t, x)
    BY <1>2, <2>1, <2>2, <2>3, NodeTopicsOwned DEF Nodes
  <2> QED
    BY <1>1, <1>3, <2>2, <2>3, <2>4
<1>5. CASE HandleAttribute /\ OfEvent(p, Head(events), names')
  <2> DEFINE ev == Head(events)
  <2>1. ev \in Event /\ ev.type = "attribute" /\ ev.id \in NodeIds /\ ev.leaf \in StateLeaves
    BY <1>5, AttributeEvent DEF OfEvent
  <2>2. p[1] \in Retained(ev.id, names'[ev.id], ev.leaf) /\ p[3] = [json |-> ev.val]
    BY <1>5 DEF OfEvent, PublishAttribute
  <2>3. p[1] = t /\ names'[ev.id] \in Keys \cup {Empty}
    BY <1>2, <2>1 DEF t
  <2>4. TopicOf(t, ev.id) /\ t[3] = ev.leaf
    BY <2>1, <2>2, <2>3, AttributeTopicsOwned, AttributeTopicsType
  <2>5. ev.id = id /\ ev.leaf = leaf
    BY <1>1, <1>3, <2>4
  <2>6. nodes \in Nodes /\ nodes' = CacheAttribute(id, leaf, ev.val)
    BY <1>5, <2>5 DEF HandleAttribute, SafeInv, TypeOK, CacheTypeOK
  <2>7. nodes[id] # Absent /\ nodes[id] \in Node
    BY <2>6 DEF CacheAttribute, Nodes
  <2> HIDE DEF ev
  <2>8. CASE leaf = "label"
    <3>1. nodes'[id] = [nodes[id] EXCEPT !.label = ev.val]
      BY <2>6, <2>7, <2>8 DEF CacheAttribute, Nodes
    <3>2. nodes'[id].label = ev.val
      BY <2>7, <3>1 DEF Node
    <3> QED
      BY <2>2, <2>8, <3>2 DEF Payload
  <2>9. CASE leaf = "value"
    <3>1. nodes'[id] = [nodes[id] EXCEPT !.value = ev.val]
      BY <2>6, <2>7, <2>9 DEF CacheAttribute, Nodes
    <3>2. nodes'[id].value = ev.val
      BY <2>7, <3>1 DEF Node
    <3> QED
      BY <2>2, <2>9, <3>2 DEF Payload
  <2> QED
    BY <2>1, <2>5, <2>8, <2>9 DEF StateLeaves
<1> QED
  BY <1>4, <1>5

\* The leaves of a node that is shown are leaves, and what is published shows it.
LEMMA PayloadShows ==
  ASSUME NEW n \in Node, NEW key \in Keys \cup {Empty}, NEW leaf \in ShownLeaves(n)
  PROVE  leaf \in Leaves /\ Shows(Payload(n, key, leaf), n, key, leaf)
<1>1. leaf \in Leaves
  BY DEF ShownLeaves, Leaves, Attributes
<1>2. CASE leaf = "descriptor"
  <2>1. Payload(n, key, leaf) = [name |-> key, label |-> n.label]
    BY <1>2 DEF Payload
  <2>2. n.label \in Labels
    BY DEF Node
  <2>3. Payload(n, key, leaf) # Empty
    BY <2>1, <2>2, NodeAssumption
  <2> QED
    BY <1>1, <1>2, <2>1, <2>3 DEF Shows
<1>3. CASE leaf # "descriptor"
  BY <1>1, <1>3 DEF Shows
<1> QED
  BY <1>2, <1>3

\* A handler tracks a node's own topics.
LEMMA PublishTracksOwn ==
  ASSUME TracksOwn, NEW wiped, NEW pub, Owned(pub), Publish(wiped, pub)
  PROVE  TracksOwn'
<1> SUFFICES ASSUME NEW id \in NodeIds, NEW t \in tracked'[id]
             PROVE  TopicOf(t, id)
  BY DEF TracksOwn
<1>1. t \in tracked[id] \/ \E p \in pub : p[2] = id /\ p[1] = t
  BY DEF Publish, Track
<1> QED
  BY <1>1 DEF TracksOwn, Owned

\* After a handler every cached node of the fabric is shown as it is cached.
LEMMA HandlersShow ==
  ASSUME SafeInv, SafeInv', Handler, mqtt, TracksOwn,
         Dump \/ \A id \in NodeIds : Shown(id)
  PROVE  TracksOwn' /\ \A id \in NodeIds : Shown(id)'
<1>1. PICK gone, sent : HandledBy(gone, sent)
  BY HandlersPublish DEF Handles, Handler
<1>2. nodes' \in Nodes /\ names' \in [NodeIds -> Keys \cup {Empty}] /\ UNCHANGED fabric
  BY HandlersQueue DEF SafeInv, TypeOK, CacheTypeOK
<1>3. \A p \in sent :
        OfCache(p, nodes', names') \/ (HandleAttribute /\ OfEvent(p, Head(events), names'))
  BY <1>1 DEF HandledBy
<1>4. Publish(gone, sent) /\ Send(gone, sent)
  BY <1>1 DEF HandledBy, Publish
<1>5. TracksOwn'
  <2>1. Owned(sent)
    BY <1>2, <1>3, SayingsOwned
  <2> QED
    BY <1>4, <2>1, PublishTracksOwn
<1>6. ASSUME NEW id \in NodeIds, nodes'[id] # Absent, fabric'[id] # Absent,
             NEW leaf \in ShownLeaves(nodes'[id])
      PROVE  Shows(retained'[<<"node", id, leaf>>], nodes'[id], names'[id], leaf)
  <2> DEFINE t == <<"node", id, leaf>>
  <2>1. nodes'[id] \in Node /\ names'[id] \in Keys \cup {Empty}
    BY <1>2, <1>6 DEF Nodes
  <2>2. leaf \in Leaves /\ Shows(Payload(nodes'[id], names'[id], leaf), nodes'[id], names'[id], leaf)
    BY <1>6, <2>1, PayloadShows
  <2>3. t \in Topic /\ t \notin NamedTopic /\ t[2] = id
    BY <2>2, NodeTopic DEF NamedTopic
  <2>4. CASE \E p \in sent : p[1] = t /\ retained'[t] = p[3]
    <3> PICK p \in sent : p[1] = t /\ retained'[t] = p[3]
      BY <2>4
    <3>1. p[3] = Payload(nodes'[id], names'[id], leaf)
      BY <1>3, <1>6, <2>2, SentShows
    <3> QED
      BY <2>2, <3>1
  <2>5. \A i \in NodeIds : t \notin gone[i]
    <3> SUFFICES ASSUME NEW i \in NodeIds, t \in gone[i]
                 PROVE  FALSE
      OBVIOUS
    <3>1. t \in tracked[i]
      BY <1>1 DEF HandledBy
    <3>2. TopicOf(t, i)
      BY <3>1 DEF TracksOwn
    <3>3. i = id
      BY <2>3, <3>2 DEF TopicOf
    <3>4. gone[id] \subseteq NamedTopic
      BY <1>1, <1>6 DEF HandledBy
    <3> QED
      BY <2>3, <3>3, <3>4
  <2>6. CASE retained'[t] = retained[t] /\ \A p \in sent : p[1] # t
    <3>1. Stays(id, leaf) /\ ~ Dump
      BY <1>1, <1>6, <2>6, ShownPublished DEF HandledBy
    <3>2. Shows(retained[t], nodes[id], names[id], leaf)
      BY <1>2, <1>6, <3>1 DEF Shown, Stays
    <3>3. Shows(retained[t], nodes'[id], names'[id], leaf)
      <4>1. names'[id] = names[id]
        BY <3>1 DEF Stays
      <4>2. CASE leaf \in {"name", "descriptor"}
        BY <3>2, <4>1, <4>2 DEF Shows, Payload
      <4>3. CASE leaf \notin {"name", "descriptor"}
        BY <3>1, <3>2, <4>3 DEF Shows, Stays
      <4> QED
        BY <4>2, <4>3
    <3> QED
      BY <2>6, <3>3
  <2> HIDE DEF t
  <2>7. \/ retained'[t] = retained[t] /\ \A p \in sent : p[1] # t
        \/ \E i \in NodeIds : t \in gone[i]
        \/ \E p \in sent : p[1] = t /\ retained'[t] = p[3]
    BY <1>4, <2>3, SendAt
  <2> QED
    BY <2>4, <2>5, <2>6, <2>7 DEF t
<1> QED
  BY <1>5, <1>6 DEF Shown

\* What is not a handler leaves the cache alone, or empties it with the process.
Quiet == UNCHANGED <<env, fabric, commissioned, nodes, names, tracked, req, mqtt>>

\* A step of the session that is not a handler.
Passes ==
  /\ Quiet
  /\ phase' = "serving" => phase = "serving" /\ UNCHANGED retained
  /\ dump' = dump \/ (phase = "calling" /\ dump' = fabric)
  /\ \/ phase' = phase /\ ~ alive' /\ UNCHANGED <<dump, events>>
     \/ phase \in {"start", "backoff"} /\ phase' = "calling" /\ UNCHANGED <<dump, events>>
     \/ phase \in {"start", "backoff"} /\ phase' = "ended" /\ UNCHANGED <<alive, dump, events>>
     \/ phase = "calling" /\ phase' = "answered" /\ dump' = fabric /\ UNCHANGED events
     \/ /\ phase' = "ended" /\ ~ alive' /\ events' = <<>> /\ UNCHANGED dump
        /\ phase = "serving" => events = <<>>
     \/ phase = "ended" /\ phase' = "backoff" /\ UNCHANGED <<alive, dump, events>>

\* A step of a remove_node request.
Asks ==
  /\ UNCHANGED <<env, fabric, commissioned, nodes, names, mqtt, phase, alive, dump, events>>
  /\ \E id \in NodeIds :
       \/ RequestRemove(id) /\ UNCHANGED <<retained, tracked>>
       \/ ServerRemoves(id) /\ fabric[id] = Absent /\ UNCHANGED <<retained, tracked>>
       \/ RequestFails(id) /\ UNCHANGED <<retained, tracked>>
       \/ FinishRemove(id)

\* What a step may be.
LEMMA Steps ==
  ASSUME SafeInv, [Next]_vars
  PROVE  \/ \E ev \in Event : Tells(ev)
         \/ Handler
         \/ Passes
         \/ Asks
         \/ MqttLost \/ MqttBack \/ Crash \/ UNCHANGED vars
<1>1. CASE FabricNext \/ \E id \in NodeIds : ServerRemoves(id) /\ fabric[id] # Absent
  BY <1>1, FabricTells DEF FabricNext
<1>2. CASE Dial \/ DialFails \/ ServerAnswers \/ CallFails \/ WsDrops \/ SessionEnds \/ Reconnect
  <2>1. Quiet
    BY <1>2 DEF Quiet, Dial, DialFails, ServerAnswers, CallFails, WsDrops, SessionEnds, Reconnect,
       SessionUnchanged, external
  <2>2. phase' = "serving" => phase = "serving" /\ UNCHANGED retained
    BY <1>2 DEF Dial, DialFails, ServerAnswers, CallFails, WsDrops, SessionEnds, Reconnect, broker
  <2> QED
    BY <1>2, <2>1, <2>2 DEF Passes, Dial, DialFails, ServerAnswers, CallFails, WsDrops, SessionEnds,
       Reconnect
<1>3. CASE \E id \in NodeIds :
             \/ RequestRemove(id) \/ (ServerRemoves(id) /\ fabric[id] = Absent)
             \/ RequestFails(id) \/ FinishRemove(id)
  <2>1. UNCHANGED <<env, fabric, commissioned, nodes, names, mqtt, phase, alive, dump, events>>
    BY <1>3 DEF RequestRemove, ServerRemoves, RequestFails, FinishRemove, RequestUnchanged
  <2> QED
    BY <1>3, <2>1 DEF Asks, RequestRemove, ServerRemoves, RequestFails
<1> QED
  BY <1>1, <1>2, <1>3 DEF Next, SessionNext, RequestNext, Handler

-----------------------------------------------------------------------------
(* The parts of HealInv. *)

Heals == OnlyMeets({"requests", "unwatched", "crash"})

\* The events on their way keep leading to what the fabric is.
LEMMA TellsCaughtUp ==
  ASSUME SafeInv, SafeInv', Heals, CaughtUp, NEW ev \in Event, Tells(ev)
  PROVE  CaughtUp'
<1>1. "overflow" \notin env
  BY DEF Heals, OnlyMeets
<1>2. UNCHANGED <<nodes, dump, phase, alive>> /\ fabric' = Applied(fabric, ev)
  BY DEF Tells
<1>3. events \in Seq(Event) /\ fabric' \in Nodes
  BY DEF SafeInv, TypeOK, SessionTypeOK, WorldTypeOK
<1>4. phase' \notin {"answered", "serving"} => events' = <<>>
  BY DEF Tells, CaughtUp, Listening
<1>5. ASSUME alive, phase \in {"answered", "serving"}, NEW ns, Replay(ns, fabric)
      PROVE  Replay(ns, fabric)'
  <2>1. events' = Append(events, ev)
    BY <1>1, <1>5 DEF Tells, Listening
  <2>2. PICK fin : fin = fabric
    OBVIOUS
  <2>3. PICK next \in Nodes : next = fabric'
    BY <1>3
  <2>4. Replay(ns, fin) /\ next = Applied(fin, ev)
    BY <1>2, <1>5, <2>2, <2>3
  <2>5. Replay(ns, next)'
    BY <1>3, <2>1, <2>4, ReplayMore
  <2> QED
    BY <2>3, <2>5 DEF Replay
<1>6. ASSUME alive, phase = "answered"
      PROVE  Replay(dump, fabric)'
  <2>1. PICK ns : ns = dump
    OBVIOUS
  <2>2. Replay(ns, fabric)
    BY <1>6, <2>1 DEF CaughtUp
  <2>3. Replay(ns, fabric)'
    BY <1>5, <1>6, <2>2
  <2> QED
    BY <1>2, <2>1, <2>3 DEF Replay
<1>7. ASSUME alive, phase = "serving"
      PROVE  Replay(nodes, fabric)'
  <2>1. PICK ns : ns = nodes
    OBVIOUS
  <2>2. Replay(ns, fabric)
    BY <1>7, <2>1 DEF CaughtUp
  <2>3. Replay(ns, fabric)'
    BY <1>5, <1>7, <2>2
  <2> QED
    BY <1>2, <2>1, <2>3 DEF Replay
<1>8. alive => phase \in {"calling", "answered", "serving"}
  BY DEF CaughtUp
<1> QED
  BY <1>2, <1>4, <1>6, <1>7, <1>8 DEF CaughtUp

\* A handler takes the first step of the way.
LEMMA HandlersCaughtUp ==
  ASSUME SafeInv, CaughtUp, Handler
  PROVE  CaughtUp'
<1>1. phase' = "serving" /\ UNCHANGED <<fabric, alive>>
  BY DEF Handler, Dump, HandleAttribute, HandleNode, HandleRemoved, Receive, SessionUnchanged, external
<1>2. events \in Seq(Event) /\ fabric \in Nodes
  BY DEF SafeInv, TypeOK, SessionTypeOK, WorldTypeOK
<1>3. ASSUME alive
      PROVE  Replay(nodes, fabric)'
  <2>1. CASE Dump
    <3>1. phase = "answered" /\ events' = events /\ nodes' = dump
      BY <2>1 DEF Dump
    <3>2. Replay(dump, fabric)
      BY <1>3, <3>1 DEF CaughtUp
    <3> QED
      BY <1>1, <3>1, <3>2 DEF Replay
  <2>2. CASE ~ Dump
    <3>1. /\ nodes' = Applied(nodes, Head(events)) /\ events # <<>> /\ events' = Tail(events)
          /\ phase = "serving"
      BY <2>2, HandlersApply
    <3>2. Replay(nodes, fabric)
      BY <1>3, <3>1 DEF CaughtUp
    <3>3. PICK ns, fin, next : ns = nodes /\ fin = fabric /\ next = Applied(nodes, Head(events))
      OBVIOUS
    <3>4. Replay(ns, fin) /\ next = Applied(ns, Head(events))
      BY <3>2, <3>3
    <3>5. Replay(next, fin)'
      BY <1>2, <3>1, <3>4, ReplayFirst
    <3> QED
      BY <1>1, <3>1, <3>3, <3>5 DEF Replay
  <2> QED
    BY <2>1, <2>2
<1> QED
  BY <1>1, <1>3 DEF CaughtUp

\* A new session starts from a dump that is the fabric.
LEMMA PassesCaughtUp ==
  ASSUME SafeInv, SafeInv', CaughtUp, Passes
  PROVE  CaughtUp'
<1>1. phase' \notin {"answered", "serving"} => events' = <<>>
  BY DEF Passes, CaughtUp
<1>2. alive' => phase' \in {"calling", "answered", "serving"}
  BY DEF Passes, CaughtUp, SafeInv, TypeOK, SessionTypeOK
<1>3. ASSUME alive', phase' = "answered"
      PROVE  Replay(dump, fabric)'
  <2>1. phase = "calling" /\ dump' = fabric /\ events' = events /\ events = <<>>
    BY <1>3 DEF Passes, CaughtUp
  <2>2. fabric' = fabric /\ fabric \in Nodes /\ Len(events) = 0
    BY <2>1, EmptyType DEF Passes, Quiet, SafeInv, TypeOK, WorldTypeOK
  <2>3. Replay(fabric, fabric)
    BY <2>2, ReplayNothing
  <2> QED
    BY <2>1, <2>2, <2>3 DEF Replay
<1>4. ~ (alive' /\ phase' = "serving")
  BY DEF Passes, CaughtUp
<1> QED
  BY <1>1, <1>2, <1>3, <1>4 DEF CaughtUp

\* What is not a change of the fabric or a step of the session keeps the way.
LEMMA RestCaughtUp ==
  ASSUME CaughtUp, UNCHANGED <<phase, alive, dump, events, nodes, fabric>>
  PROVE  CaughtUp'
  BY DEF CaughtUp, Replay

\* An event brings a node into a cache only when it is a node's own.
LEMMA AppliedAt ==
  ASSUME NEW ns \in Nodes, NEW ev \in Event, NEW id \in NodeIds, Applied(ns, ev)[id] # Absent
  PROVE  ns[id] # Absent \/ (ev.type = "node" /\ ev.id = id)
<1>1. CASE ev.type = "node"
  BY <1>1 DEF Applied, Nodes
<1>2. CASE ev.type = "removed"
  BY <1>2 DEF Applied, Nodes
<1>3. CASE ev.type = "attribute"
  <2>1. ev.id \in NodeIds
    BY <1>3, AttributeEvent
  <2> QED
    BY <1>3, <2>1 DEF Applied, Nodes
<1> QED
  BY <1>1, <1>2, <1>3 DEF Event

\* A node that comes to the fabric has not been there before.
LEMMA Comes ==
  ASSUME SafeInv, NEW ev \in Event, Tells(ev), NEW id \in NodeIds,
         fabric[id] = Absent, fabric'[id] # Absent
  PROVE  id \notin commissioned /\ id \in commissioned'
<1>1. fabric \in Nodes /\ fabric' = Applied(fabric, ev)
  BY DEF SafeInv, TypeOK, WorldTypeOK, Tells
<1>2. ev.type = "node" /\ ev.id = id
  BY <1>1, AppliedAt
<1> QED
  BY <1>2 DEF Tells

LEMMA TellsKnown ==
  ASSUME SafeInv, Known, NEW ev \in Event, Tells(ev)
  PROVE  Known'
<1>1. UNCHANGED <<nodes, dump>> /\ commissioned \subseteq commissioned'
  BY DEF Tells
<1>2. \A id \in NodeIds : id \notin commissioned' =>
        fabric'[id] = Absent /\ nodes'[id] = Absent /\ dump'[id] = Absent
  BY <1>1, Comes DEF Known
<1>3. \A i \in 1 .. Len(events') : events'[i].type = "node" => events'[i].id \in commissioned'
  <2>1. CASE events' = events
    BY <1>1, <2>1 DEF Known
  <2>2. CASE events' = Append(events, ev)
    <3>1. events \in Seq(Event)
      BY DEF SafeInv, TypeOK, SessionTypeOK
    <3>2. /\ Len(events) \in Nat /\ Len(events') = Len(events) + 1
          /\ events'[Len(events) + 1] = ev
          /\ \A i \in 1 .. Len(events) : events'[i] = events[i]
      BY <2>2, <3>1
    <3>3. ev.type = "node" => ev.id \in commissioned'
      <4>1. ev.type = "node" => ev.id \in NodeIds
        BY NodeEvent
      <4> QED
        BY <1>1, <4>1 DEF Tells, Known
    <3> QED
      BY <1>1, <3>2, <3>3 DEF Known
  <2> QED
    BY <2>1, <2>2 DEF Tells
<1> QED
  BY <1>2, <1>3 DEF Known

LEMMA HandlersKnown ==
  ASSUME SafeInv, Known, Handler
  PROVE  Known'
<1>1. UNCHANGED <<fabric, commissioned, dump>>
  BY DEF Handler, Dump, HandleAttribute, HandleNode, HandleRemoved, Receive, SessionUnchanged, external
<1>2. ASSUME NEW id \in NodeIds, id \notin commissioned'
      PROVE  nodes'[id] = Absent
  <2>1. CASE Dump
    BY <1>1, <1>2, <2>1 DEF Dump, Known
  <2>2. CASE ~ Dump
    <3>1. /\ nodes' = Applied(nodes, Head(events)) /\ Head(events) \in Event
          /\ Head(events) = events[1] /\ 1 \in 1 .. Len(events)
      BY <2>2, HandlersApply, HandlersQueue
    <3>2. nodes \in Nodes
      BY DEF SafeInv, TypeOK, CacheTypeOK
    <3>3. nodes[id] = Absent /\ ~ (events[1].type = "node" /\ events[1].id = id)
      BY <1>1, <1>2, <3>1 DEF Known
    <3> QED
      BY <3>1, <3>2, <3>3, AppliedAt
  <2> QED
    BY <2>1, <2>2
<1>3. \A i \in 1 .. Len(events') : \E j \in 1 .. Len(events) : events'[i] = events[j]
  <2>1. CASE events' = events
    BY <2>1
  <2>2. CASE /\ Len(events) \in Nat \ {0} /\ Len(events') = Len(events) - 1
             /\ \A i \in 1 .. Len(events') : events'[i] = events[i + 1]
    <3> SUFFICES ASSUME NEW i \in 1 .. Len(events')
                 PROVE  i + 1 \in 1 .. Len(events) /\ events'[i] = events[i + 1]
      OBVIOUS
    <3> QED
      BY <2>2
  <2> QED
    BY <2>1, <2>2, HandlersQueue
<1> QED
  BY <1>1, <1>2, <1>3 DEF Known

LEMMA PassesKnown ==
  ASSUME Known, Passes
  PROVE  Known'
<1>1. UNCHANGED <<fabric, commissioned, nodes>> /\ dump' \in {dump, fabric}
  BY DEF Passes, Quiet
<1>2. events' = events \/ Len(events') = 0
  BY EmptyType DEF Passes
<1>3. \A i \in 1 .. Len(events') : events'[i].type = "node" => events'[i].id \in commissioned
  BY <1>2 DEF Known
<1> QED
  BY <1>1, <1>3 DEF Known

\* A request is answered when its node is gone, and no other gets its number.
LEMMA TellsLate ==
  ASSUME SafeInv, RequestsLate, NEW ev \in Event, Tells(ev)
  PROVE  RequestsLate'
<1> SUFFICES ASSUME NEW id \in NodeIds, req'[id] \in {"calling", "answered"}
             PROVE  id \in commissioned' /\ (req'[id] = "answered" => fabric'[id] = Absent)
  BY DEF RequestsLate
<1>1. req[id] \in {"calling", "answered"}
  BY DEF Tells
<1>2. id \in commissioned /\ id \in commissioned'
  BY <1>1 DEF RequestsLate, Tells
<1>3. ASSUME req[id] = "answered"
      PROVE  fabric'[id] = Absent
  BY <1>2, <1>3, Comes DEF RequestsLate
<1> QED
  BY <1>2, <1>3 DEF Tells

LEMMA AsksLate ==
  ASSUME SafeInv, Heals, CaughtUp, Removable \subseteq commissioned, RequestsLate, Asks
  PROVE  RequestsLate'
<1>1. UNCHANGED <<fabric, commissioned>> /\ "call_fails" \notin env
  BY DEF Asks, Heals, OnlyMeets
<1>2. req \in [NodeIds -> {"idle", "calling", "answered", "done"}]
  BY DEF SafeInv, TypeOK, WorldTypeOK
<1>3. PICK x \in NodeIds : \/ RequestRemove(x)
                           \/ ServerRemoves(x) /\ fabric[x] = Absent
                           \/ RequestFails(x)
                           \/ FinishRemove(x)
  BY DEF Asks
<1>4. CASE RequestRemove(x)
  <2>1. req' = [req EXCEPT ![x] = "calling"] /\ x \in commissioned
    BY <1>1, <1>4 DEF RequestRemove, CaughtUp
  <2> QED
    BY <1>1, <1>2, <2>1 DEF RequestsLate
<1>5. CASE ServerRemoves(x) /\ fabric[x] = Absent
  <2>1. req' = [req EXCEPT ![x] = "answered"] /\ x \in commissioned
    BY <1>5 DEF ServerRemoves, RequestsLate
  <2> QED
    BY <1>1, <1>2, <1>5, <2>1 DEF RequestsLate
<1>6. CASE FinishRemove(x)
  <2>1. req' = [req EXCEPT ![x] = "done"]
    BY <1>6 DEF FinishRemove
  <2> QED
    BY <1>1, <1>2, <2>1 DEF RequestsLate
<1> QED
  BY <1>1, <1>3, <1>4, <1>5, <1>6 DEF RequestFails

\* The topics that a request clears are those of a node that is gone.
LEMMA FinishShows ==
  ASSUME SafeInv, TracksOwn, RequestsLate, NEW x \in NodeIds, FinishRemove(x),
         UNCHANGED <<fabric, nodes, names>>
  PROVE  TracksOwn' /\ \A id \in NodeIds : Shown(id) => Shown(id)'
<1> DEFINE wiped == [NoTopics EXCEPT ![x] = tracked[x]]
<1>1. Publish(wiped, {}) /\ Send(wiped, {}) /\ fabric[x] = Absent
  BY DEF FinishRemove, RequestsLate, Publish
<1>2. \A i \in NodeIds, t \in Topic : t \in wiped[i] => i = x /\ t \in tracked[x]
  BY DEF NoTopics
<1> HIDE DEF wiped
<1>3. TracksOwn'
  <2>1. Owned({})
    BY DEF Owned
  <2> QED
    BY <1>1, <2>1, PublishTracksOwn
<1>4. ASSUME NEW id \in NodeIds, Shown(id)
      PROVE  Shown(id)'
  <2> SUFFICES ASSUME nodes[id] # Absent, fabric[id] # Absent, NEW leaf \in ShownLeaves(nodes[id])
               PROVE  retained'[<<"node", id, leaf>>] = retained[<<"node", id, leaf>>]
    BY <1>4 DEF Shown
  <2> DEFINE t == <<"node", id, leaf>>
  <2>1. t \in Topic /\ t \notin NamedTopic /\ t[2] = id
    <3>1. leaf \in Leaves
      BY DEF ShownLeaves, Leaves, Attributes
    <3> QED
      BY <3>1, NodeTopic DEF NamedTopic
  <2>2. \A i \in NodeIds : t \notin wiped[i]
    <3> SUFFICES ASSUME t \in tracked[x]
                 PROVE  FALSE
      BY <1>2, <2>1
    <3>1. TopicOf(t, x)
      BY DEF TracksOwn
    <3>2. x = id
      BY <2>1, <3>1 DEF TopicOf
    <3> QED
      BY <1>1, <3>2
  <2> HIDE DEF t
  <2>3. retained'[t] = retained[t]
    BY <1>1, <2>1, <2>2, SendAt
  <2> QED
    BY <2>3 DEF t
<1> QED
  BY <1>3, <1>4

\* A node that comes to the fabric is not cached yet.
LEMMA TellsShown ==
  ASSUME SafeInv, Known, NEW ev \in Event, Tells(ev), NEW id \in NodeIds, Shown(id)
  PROVE  Shown(id)'
<1>1. UNCHANGED <<nodes, names, retained>>
  BY DEF Tells
<1>2. nodes[id] # Absent /\ fabric'[id] # Absent => fabric[id] # Absent
  BY Comes DEF Known
<1> QED
  BY <1>1, <1>2 DEF Shown

\* A bridge that has just started shows nothing.
LEMMA InitHeal ==
  ASSUME Init, SafeInv, \A f \in InitialFabrics, id \in Removable : f[id] # Absent
  PROVE  HealInv
<1>1. /\ mqtt /\ phase = "start" /\ ~ alive /\ events = <<>> /\ tracked = NoTopics
      /\ nodes = [id \in NodeIds |-> Absent] /\ dump = [id \in NodeIds |-> Absent]
      /\ req = [id \in NodeIds |-> "idle"]
      /\ commissioned = {id \in NodeIds : fabric[id] # Absent}
  BY DEF Init
<1>2. Removable \subseteq commissioned
  BY <1>1, BridgeAssumption DEF Init
<1>3. Known
  <2>1. Len(events) = 0
    BY <1>1, EmptyType
  <2> QED
    BY <1>1, <2>1 DEF Known
<1>4. TracksOwn
  BY <1>1 DEF TracksOwn, NoTopics
<1>5. CaughtUp
  BY <1>1 DEF CaughtUp
<1>6. RequestsLate
  BY <1>1 DEF RequestsLate
<1> QED
  BY <1>1, <1>2, <1>3, <1>4, <1>5, <1>6 DEF HealInv

\* Every step keeps what is cached shown, and the way to the fabric known.
LEMMA NextHeal ==
  ASSUME SafeInv, SafeInv', HealInv, [Next]_vars
  PROVE  HealInv'
<1> SUFFICES ASSUME Heals PROVE HealInv'
  BY EnvConstant DEF HealInv, Heals, OnlyMeets
<1>1. /\ mqtt /\ Removable \subseteq commissioned
      /\ Known /\ TracksOwn /\ CaughtUp /\ RequestsLate
      /\ phase = "serving" => \A id \in NodeIds : Shown(id)
  BY DEF HealInv, Heals
<1>2. SUFFICES /\ mqtt' /\ Removable \subseteq commissioned'
               /\ Known' /\ TracksOwn' /\ CaughtUp' /\ RequestsLate'
               /\ phase' = "serving" => \A id \in NodeIds : Shown(id)'
  BY DEF HealInv
<1>3. CASE \E ev \in Event : Tells(ev)
  <2> PICK ev \in Event : Tells(ev)
    BY <1>3
  <2>1. /\ UNCHANGED <<mqtt, tracked, phase>> /\ commissioned \subseteq commissioned'
    BY DEF Tells
  <2>2. TracksOwn'
    BY <1>1, <2>1 DEF TracksOwn
  <2>3. phase' = "serving" => \A id \in NodeIds : Shown(id)'
    BY <1>1, <2>1, TellsShown
  <2> QED
    BY <1>1, <2>1, <2>2, <2>3, TellsKnown, TellsCaughtUp, TellsLate
<1>4. CASE Handler
  <2>1. UNCHANGED <<fabric, commissioned, mqtt, req>> /\ (Dump \/ phase = "serving")
    BY <1>4 DEF Handler, Dump, HandleAttribute, HandleNode, HandleRemoved, Receive,
       SessionUnchanged, external
  <2>2. TracksOwn' /\ \A id \in NodeIds : Shown(id)'
    BY <1>1, <1>4, <2>1, HandlersShow
  <2>3. RequestsLate'
    BY <1>1, <2>1 DEF RequestsLate
  <2> QED
    BY <1>1, <1>4, <2>1, <2>2, <2>3, HandlersKnown, HandlersCaughtUp
<1>5. CASE Passes
  <2>1. Quiet /\ (phase' = "serving" => phase = "serving" /\ UNCHANGED retained)
    BY <1>5 DEF Passes
  <2>2. TracksOwn' /\ RequestsLate'
    BY <1>1, <2>1 DEF Quiet, TracksOwn, RequestsLate
  <2>3. phase' = "serving" => \A id \in NodeIds : Shown(id)'
    BY <1>1, <2>1 DEF Quiet, Shown
  <2>4. mqtt' /\ Removable \subseteq commissioned'
    BY <1>1, <2>1 DEF Quiet
  <2> QED
    BY <1>1, <1>5, <2>2, <2>3, <2>4, PassesKnown, PassesCaughtUp
<1>6. CASE Asks
  <2>1. UNCHANGED <<fabric, commissioned, nodes, names, mqtt, phase, alive, dump, events>>
    BY <1>6 DEF Asks
  <2>2. RequestsLate'
    BY <1>1, <1>6, AsksLate
  <2>3. Known' /\ CaughtUp'
    BY <1>1, <2>1, RestCaughtUp DEF Known
  <2>4. TracksOwn' /\ (phase' = "serving" => \A id \in NodeIds : Shown(id)')
    <3>1. CASE UNCHANGED <<retained, tracked>>
      <4>1. TracksOwn'
        BY <1>1, <3>1 DEF TracksOwn
      <4>2. phase' = "serving" => \A id \in NodeIds : Shown(id)'
        BY <1>1, <2>1, <3>1 DEF Shown
      <4> QED
        BY <4>1, <4>2
    <3>2. CASE \E x \in NodeIds : FinishRemove(x)
      BY <1>1, <2>1, <3>2, FinishShows
    <3> QED
      BY <1>6, <3>1, <3>2 DEF Asks
  <2> QED
    BY <1>1, <2>1, <2>2, <2>3, <2>4
<1>7. CASE Crash
  <2>1. /\ mqtt' /\ phase' = "start" /\ ~ alive' /\ events' = <<>> /\ tracked' = NoTopics
        /\ nodes' = [id \in NodeIds |-> Absent] /\ dump' = [id \in NodeIds |-> Absent]
        /\ req' = [id \in NodeIds |-> IF req[id] = "idle" THEN "idle" ELSE "done"]
        /\ UNCHANGED <<fabric, commissioned>>
    BY <1>7 DEF Crash, external
  <2>2. Known'
    <3>1. Len(events') = 0
      BY <2>1, EmptyType
    <3> QED
      BY <1>1, <2>1, <3>1 DEF Known
  <2>3. TracksOwn'
    BY <2>1 DEF TracksOwn, NoTopics
  <2>4. CaughtUp'
    BY <2>1 DEF CaughtUp
  <2>5. RequestsLate'
    BY <2>1 DEF RequestsLate
  <2> QED
    BY <1>1, <2>1, <2>2, <2>3, <2>4, <2>5
<1>8. CASE MqttLost \/ MqttBack
  BY <1>1, <1>8 DEF MqttLost, MqttBack, Heals, OnlyMeets
<1>9. CASE UNCHANGED vars
  <2>1. UNCHANGED <<fabric, commissioned, retained, mqtt, phase, alive, dump, events, nodes, names,
                    tracked, req>>
    BY <1>9 DEF vars, external, session, broker
  <2>2. CaughtUp'
    BY <1>1, <2>1, RestCaughtUp
  <2> QED
    BY <1>1, <2>1, <2>2 DEF Known, TracksOwn, RequestsLate, Shown
<1> QED
  BY <1>3, <1>4, <1>5, <1>6, <1>7, <1>8, <1>9, Steps

\* Whatever is missed while no session is open, whoever asks for removals and
\* however often the bridge is restarted: when it has caught up, the numeric tree
\* shows every node that is on the fabric as the fabric has it (session and
\* handleEvent against request and clearNode).  A removal may be asked for of a
\* node that is on the fabric; one that is asked for before its number is given
\* out may clear, late, what the node that gets it has published.
THEOREM NumericTreeIsRight ==
  ASSUME \A f \in InitialFabrics, id \in Removable : f[id] # Absent
  PROVE  Spec => []NumericTreeHeals
<1>1. Init /\ SafeInv => HealInv
  BY InitHeal
<1>2. SafeInv /\ SafeInv' /\ HealInv /\ [Next]_vars => HealInv'
  BY NextHeal
<1>3. SafeInv /\ HealInv => NumericTreeHeals
  <2> SUFFICES ASSUME SafeInv, HealInv, Heals, Settled, NEW id \in NodeIds, fabric[id] # Absent,
                      NEW leaf \in ShownLeaves(fabric[id])
               PROVE  Shows(retained[<<"node", id, leaf>>], fabric[id],
                            NamesOf(LabelsOf(fabric))[id], leaf)
    BY DEF NumericTreeHeals, Heals, ShownLeaves
  <2>1. alive /\ phase = "serving" /\ Len(events) = 0 /\ nodes \in Nodes
    BY EmptyType DEF Settled, SafeInv, TypeOK, CacheTypeOK
  <2>2. Replay(nodes, fabric) /\ Shown(id)
    BY <2>1 DEF HealInv, Heals, CaughtUp
  <2>3. nodes = fabric
    BY <2>1, <2>2, ReplayNothing
  <2>4. names = NamesOf(LabelsOf(fabric))
    BY <2>3 DEF SafeInv, NamesInSync
  <2> QED
    BY <2>2, <2>3, <2>4 DEF Shown
<1> QED
  BY <1>1, <1>2, <1>3, InitSafe, SpecSafe, PTL DEF Spec

-----------------------------------------------------------------------------
(* Owners of topics, when names change only while the bridge listens: what it *)
(* finds in a dump are the labels it has cached.                              *)

LeadsToLabels(ns) == \E fin \in Nodes : Replay(ns, fin) /\ SameLabels(fin, fabric)

Fresh == \A id \in NodeIds : nodes[id] = Absent /\ tracked[id] = {}

\* Of the aliases a node is tracked on the ones it has now.
TracksNamed ==
  \A id \in NodeIds : \A t \in tracked[id] : t \in NamedTopic => names[id] # Empty /\ t[2] = names[id]

\* Labels are compared and changed node by node.
LEMMA SameLabelsAlong ==
  ASSUME NEW a \in Nodes, NEW b \in Nodes, SameLabels(a, b), NEW ev \in Event
  PROVE  SameLabels(Applied(a, ev), Applied(b, ev))
<1> SUFFICES ASSUME NEW id \in NodeIds
             PROVE  /\ Applied(a, ev)[id] = Absent <=> Applied(b, ev)[id] = Absent
                    /\ Applied(a, ev)[id] # Absent =>
                         Applied(a, ev)[id].label = Applied(b, ev)[id].label
  BY DEF SameLabels
<1>0. /\ a[id] = Absent <=> b[id] = Absent
      /\ a[id] # Absent => a[id].label = b[id].label /\ a[id] \in Node /\ b[id] \in Node
  BY DEF SameLabels, Nodes
<1>1. CASE ev.type = "node"
  BY <1>0, <1>1 DEF Applied, Nodes
<1>2. CASE ev.type = "removed"
  BY <1>0, <1>2 DEF Applied, Nodes
<1>3. CASE ev.type = "attribute"
  <2>1. ev.id \in NodeIds /\ ev.leaf \in StateLeaves
    BY <1>3, AttributeEvent
  <2>2. CASE ev.id # id \/ a[id] = Absent
    <3>1. Applied(a, ev)[id] = a[id] /\ Applied(b, ev)[id] = b[id]
      BY <1>0, <1>3, <2>1, <2>2 DEF Applied, Nodes
    <3> QED
      BY <1>0, <3>1
  <2>3. CASE ev.id = id /\ a[id] # Absent /\ ev.leaf = "label"
    <3>1. /\ Applied(a, ev)[id] = [a[id] EXCEPT !.label = ev.val]
          /\ Applied(b, ev)[id] = [b[id] EXCEPT !.label = ev.val]
      BY <1>0, <1>3, <2>1, <2>3 DEF Applied, Nodes
    <3>2. Applied(a, ev)[id].label = ev.val /\ Applied(b, ev)[id].label = ev.val
      BY <1>0, <2>3, <3>1 DEF Node
    <3>3. Applied(a, ev)[id] # Absent /\ Applied(b, ev)[id] # Absent
      <4>1. ev.val \in Labels
        BY <1>3, <2>3 DEF Event
      <4>2. \A n \in Node : [n EXCEPT !.label = ev.val] \in Node
        BY <4>1 DEF Node
      <4> QED
        BY <1>0, <2>3, <3>1, <4>2, NodeAssumption
    <3> QED
      BY <3>2, <3>3
  <2>4. CASE ev.id = id /\ a[id] # Absent /\ ev.leaf = "value"
    <3>1. /\ Applied(a, ev)[id] = [a[id] EXCEPT !.value = ev.val]
          /\ Applied(b, ev)[id] = [b[id] EXCEPT !.value = ev.val]
      BY <1>0, <1>3, <2>1, <2>4 DEF Applied, Nodes
    <3>2. Applied(a, ev)[id].label = a[id].label /\ Applied(b, ev)[id].label = b[id].label
      BY <1>0, <2>4, <3>1 DEF Node
    <3>3. Applied(a, ev)[id] # Absent /\ Applied(b, ev)[id] # Absent
      <4>1. ev.val \in 0 .. MaxChanges
        BY <1>3, <2>4 DEF Event
      <4>2. \A n \in Node : [n EXCEPT !.value = ev.val] \in Node
        BY <4>1 DEF Node
      <4> QED
        BY <1>0, <2>4, <3>1, <4>2, NodeAssumption
    <3> QED
      BY <1>0, <2>4, <3>2, <3>3
  <2> QED
    BY <2>1, <2>2, <2>3, <2>4 DEF StateLeaves
<1> QED
  BY <1>1, <1>2, <1>3 DEF Event

\* The names depend on nothing else.
LEMMA SameLabelsNames ==
  ASSUME NEW a, NEW b, SameLabels(a, b)
  PROVE  LabelsOf(a) = LabelsOf(b)
  BY DEF SameLabels, LabelsOf

\* An alias is under the node's key.
LEMMA AliasOf ==
  ASSUME NEW id, NEW key, NEW leaf, NEW t \in Retained(id, key, leaf), t \in NamedTopic
  PROVE  key # Empty /\ t[2] = key
<1>1. t \in AttributeTopics(id, key, leaf)
  BY DEF Retained
<1>2. t = <<"node", id, leaf>> \/ (key # Empty /\ t = <<"named", key, leaf>>)
  BY <1>1 DEF AttributeTopics
<1>3. t # <<"node", id, leaf>>
  BY DEF NamedTopic
<1> QED
  BY <1>2, <1>3

\* A handler tracks a node on the aliases it has now.
LEMMA HandlersTrackNamed ==
  ASSUME SafeInv, SafeInv', Handler, TracksNamed,
         Dump => names' = names \/ \A id \in NodeIds : tracked[id] = {}
  PROVE  TracksNamed'
<1>1. PICK gone, sent : HandledBy(gone, sent)
  BY HandlersPublish DEF Handles, Handler
<1>2. \A id \in NodeIds : tracked'[id] = (tracked[id] \ gone[id])
                                           \cup {p[1] : p \in {q \in sent : q[2] = id}}
  BY <1>1 DEF HandledBy, Publish, Track
<1> SUFFICES ASSUME NEW id \in NodeIds, NEW t \in tracked'[id], t \in NamedTopic
             PROVE  names'[id] # Empty /\ t[2] = names'[id]
  BY DEF TracksNamed
<1>3. CASE t \in tracked[id] /\ t \notin gone[id]
  <2>1. names'[id] = names[id]
    BY <1>1, <1>3 DEF HandledBy
  <2> QED
    BY <1>3, <2>1 DEF TracksNamed
<1>4. CASE \E p \in sent : p[2] = id /\ p[1] = t
  <2> PICK p \in sent : p[2] = id /\ p[1] = t
    BY <1>4
  <2>1. CASE OfCache(p, nodes', names')
    <3>1. PICK x \in NodeIds : nodes'[x] # Absent /\ p \in PublishNode(x, nodes'[x], names'[x])
      BY <2>1 DEF OfCache
    <3>2. p[1] \in NodeTopics(x, nodes'[x], names'[x]) /\ p[2] = x
      BY <3>1 DEF PublishNode
    <3>3. t \notin {<<"node", id, leaf>> : leaf \in {"availability", "name", "descriptor"}}
      BY DEF NamedTopic
    <3>4. PICK leaf : t \in Retained(id, names'[id], leaf)
      BY <3>2, <3>3 DEF NodeTopics
    <3> QED
      BY <3>4, AliasOf
  <2>2. CASE HandleAttribute /\ OfEvent(p, Head(events), names')
    <3> DEFINE ev == Head(events)
    <3>1. p[1] \in Retained(ev.id, names'[ev.id], ev.leaf) /\ p[2] = ev.id
      BY <2>2 DEF OfEvent, PublishAttribute
    <3> QED
      BY <3>1, AliasOf
  <2> QED
    BY <1>1, <2>1, <2>2 DEF HandledBy
<1> QED
  BY <1>2, <1>3, <1>4

Placid == OnlyMeets({})

\* An event that is on its way tells of a change of labels, and a change of labels
\* that is not told of is none.
LEMMA TellsLeads ==
  ASSUME SafeInv, SafeInv', Placid, phase \in {"answered", "serving"}, NEW ev \in Event, Tells(ev),
         NEW ns, LeadsToLabels(ns)
  PROVE  LeadsToLabels(ns)'
<1>1. "overflow" \notin env /\ "unwatched" \notin env
  BY DEF Placid, OnlyMeets
<1>2. /\ events \in Seq(Event) /\ fabric \in Nodes /\ fabric' = Applied(fabric, ev)
      /\ fabric' \in Nodes
  BY DEF SafeInv, TypeOK, SessionTypeOK, WorldTypeOK, Tells
<1>3. PICK fin \in Nodes : Replay(ns, fin) /\ SameLabels(fin, fabric)
  BY DEF LeadsToLabels
<1>4. CASE alive
  <2>1. events' = Append(events, ev)
    BY <1>1, <1>4 DEF Tells, Listening
  <2>2. Applied(fin, ev) \in Nodes /\ SameLabels(Applied(fin, ev), fabric')
    BY <1>2, <1>3, AppliedType, SameLabelsAlong
  <2>3. PICK next \in Nodes : next = Applied(fin, ev)
    BY <2>2
  <2>4. Replay(ns, next)'
    BY <1>2, <1>3, <2>1, <2>3, ReplayMore
  <2>5. SameLabels(next, fabric')
    BY <2>2, <2>3
  <2> QED
    BY <2>4, <2>5 DEF LeadsToLabels
<1>5. CASE ~ alive
  <2>1. events' = events /\ SameLabels(fabric', fabric)
    BY <1>1, <1>5 DEF Tells, Listening, MayChangeNames, Watched
  <2>2. SameLabels(fin, fabric')
    BY <1>3, <2>1 DEF SameLabels
  <2>3. Replay(ns, fin)'
    BY <1>3, <2>1 DEF Replay
  <2> QED
    BY <2>2, <2>3 DEF LeadsToLabels
<1> QED
  BY <1>4, <1>5

\* The parts of OwnerInv that follow the session.
Agrees ==
  /\ phase \notin {"answered", "serving"} => events = <<>>
  /\ phase # "serving" => Fresh \/ SameLabels(nodes, fabric)
  /\ phase = "answered" => SameLabels(dump, fabric) /\ LeadsToLabels(dump)
  /\ phase = "serving" => LeadsToLabels(nodes)

OwnerInv ==
  Placid => /\ mqtt /\ \A id \in NodeIds : req[id] = "idle"
            /\ TracksOwn /\ TracksNamed /\ Agrees

LEMMA TellsAgrees ==
  ASSUME SafeInv, SafeInv', Placid, Agrees, NEW ev \in Event, Tells(ev)
  PROVE  Agrees'
<1>1. UNCHANGED <<nodes, dump, phase, tracked>>
  BY DEF Tells
<1>2. phase' \notin {"answered", "serving"} => events' = <<>>
  BY DEF Tells, Agrees, Listening
<1>3. phase # "serving" => SameLabels(fabric', fabric)
  BY DEF Tells, MayChangeNames, Watched, Placid, OnlyMeets
<1>4. phase' # "serving" => Fresh' \/ SameLabels(nodes', fabric')
  BY <1>1, <1>3 DEF Agrees, SameLabels, Fresh
<1>5. ASSUME phase = "answered"
      PROVE  SameLabels(dump', fabric') /\ LeadsToLabels(dump)'
  <2>1. PICK ns : ns = dump
    OBVIOUS
  <2>2. SameLabels(dump, fabric) /\ LeadsToLabels(ns)
    BY <1>5, <2>1 DEF Agrees
  <2>3. LeadsToLabels(ns)'
    BY <1>5, <2>2, TellsLeads
  <2> QED
    BY <1>1, <1>3, <1>5, <2>1, <2>2, <2>3 DEF SameLabels, LeadsToLabels, Replay
<1>6. ASSUME phase = "serving"
      PROVE  LeadsToLabels(nodes)'
  <2>1. PICK ns : ns = nodes
    OBVIOUS
  <2>2. LeadsToLabels(ns)
    BY <1>6, <2>1 DEF Agrees
  <2>3. LeadsToLabels(ns)'
    BY <1>6, <2>2, TellsLeads
  <2> QED
    BY <1>1, <2>1, <2>3 DEF LeadsToLabels, Replay
<1> QED
  BY <1>1, <1>2, <1>4, <1>5, <1>6 DEF Agrees

\* A dump names the nodes as they were named, unless it is the first.
LEMMA HandlersAgree ==
  ASSUME SafeInv, SafeInv', Agrees, TracksNamed, Handler
  PROVE  Agrees' /\ TracksNamed'
<1>1. phase' = "serving" /\ UNCHANGED fabric
  BY HandlersQueue
<1>2. Dump => names' = names \/ \A id \in NodeIds : tracked[id] = {}
  <2> SUFFICES ASSUME Dump, ~ Fresh PROVE names' = names
    BY DEF Fresh
  <2>1. phase = "answered" /\ nodes' = dump
    BY DEF Dump
  <2>2. SameLabels(dump, nodes)
    BY <2>1 DEF Agrees, SameLabels
  <2>3. LabelsOf(dump) = LabelsOf(nodes)
    BY <2>2, SameLabelsNames
  <2> QED
    BY <2>1, <2>3 DEF SafeInv, NamesInSync
<1>3. TracksNamed'
  BY <1>2, HandlersTrackNamed
<1>4. LeadsToLabels(nodes)'
  <2>1. CASE Dump
    <3>1. phase = "answered" /\ events' = events /\ nodes' = dump
      BY <2>1 DEF Dump
    <3>2. LeadsToLabels(dump)
      BY <3>1 DEF Agrees
    <3> QED
      BY <1>1, <3>1, <3>2 DEF LeadsToLabels, Replay
  <2>2. CASE ~ Dump
    <3>1. /\ nodes' = Applied(nodes, Head(events)) /\ events # <<>> /\ events' = Tail(events)
          /\ phase = "serving"
      BY <2>2, HandlersApply
    <3>2. PICK fin \in Nodes : Replay(nodes, fin) /\ SameLabels(fin, fabric)
      BY <3>1 DEF Agrees, LeadsToLabels
    <3>3. PICK ns, next : ns = nodes /\ next = Applied(nodes, Head(events))
      OBVIOUS
    <3>4. Replay(ns, fin) /\ next = Applied(ns, Head(events)) /\ events \in Seq(Event)
      BY <3>2, <3>3 DEF SafeInv, TypeOK, SessionTypeOK
    <3>5. Replay(next, fin)'
      BY <3>1, <3>4, ReplayFirst
    <3>6. SameLabels(fin, fabric')
      BY <1>1, <3>2
    <3>7. nodes' = next
      BY <3>1, <3>3
    <3> QED
      BY <3>5, <3>6, <3>7 DEF LeadsToLabels, Replay
  <2> QED
    BY <2>1, <2>2
<1> QED
  BY <1>1, <1>3, <1>4 DEF Agrees

\* A session that ends has handled every event; one that is answered starts anew.
LEMMA PassesAgrees ==
  ASSUME SafeInv, Agrees, Passes
  PROVE  Agrees'
<1>1. UNCHANGED <<nodes, tracked, fabric>> /\ nodes \in Nodes /\ fabric \in Nodes
  BY DEF Passes, Quiet, SafeInv, TypeOK, CacheTypeOK, WorldTypeOK
<1>2. phase' \notin {"answered", "serving"} => events' = <<>>
  BY DEF Passes, Agrees
<1>3. ASSUME phase' # "serving"
      PROVE  (Fresh \/ SameLabels(nodes, fabric))'
  <2>1. CASE phase # "serving"
    BY <1>1, <2>1 DEF Agrees, Fresh
  <2>2. CASE phase = "serving"
    <3>1. Len(events) = 0
      BY <1>3, <2>2, EmptyType DEF Passes
    <3>2. PICK fin \in Nodes : Replay(nodes, fin) /\ SameLabels(fin, fabric)
      BY <2>2 DEF Agrees, LeadsToLabels
    <3>3. nodes = fin
      BY <1>1, <3>1, <3>2, ReplayNothing
    <3> QED
      BY <1>1, <3>2, <3>3
  <2> QED
    BY <2>1, <2>2
<1>4. ASSUME phase' = "answered"
      PROVE  SameLabels(dump', fabric') /\ LeadsToLabels(dump)'
  <2>1. CASE phase = "answered"
    <3>1. UNCHANGED <<dump, events>>
      BY <1>4, <2>1 DEF Passes
    <3>2. SameLabels(dump, fabric) /\ LeadsToLabels(dump)
      BY <2>1 DEF Agrees
    <3> QED
      BY <1>1, <3>1, <3>2 DEF LeadsToLabels, Replay
  <2>2. CASE phase = "calling" /\ dump' = fabric /\ UNCHANGED events
    <3>1. Len(events) = 0
      BY <2>2, EmptyType DEF Agrees
    <3>2. Replay(fabric, fabric) /\ SameLabels(fabric, fabric)
      BY <1>1, <3>1, ReplayNothing DEF SameLabels
    <3> QED
      BY <1>1, <2>2, <3>2 DEF LeadsToLabels, Replay
  <2> QED
    BY <1>4, <2>1, <2>2 DEF Passes
<1>5. ASSUME phase' = "serving"
      PROVE  LeadsToLabels(nodes)'
  <2>1. phase = "serving" /\ UNCHANGED events
    BY <1>5 DEF Passes
  <2>2. LeadsToLabels(nodes)
    BY <2>1 DEF Agrees
  <2> QED
    BY <1>1, <2>1, <2>2 DEF LeadsToLabels, Replay
<1> QED
  BY <1>2, <1>3, <1>4, <1>5 DEF Agrees

LEMMA InitOwner == Init => OwnerInv
<1> SUFFICES ASSUME Init PROVE OwnerInv
  OBVIOUS
<1>1. /\ mqtt /\ phase = "start" /\ events = <<>> /\ tracked = NoTopics
      /\ nodes = [id \in NodeIds |-> Absent] /\ req = [id \in NodeIds |-> "idle"]
  BY DEF Init
<1>2. Agrees
  BY <1>1 DEF Agrees, Fresh, NoTopics
<1> QED
  BY <1>1, <1>2 DEF OwnerInv, TracksOwn, TracksNamed, NoTopics

\* Every step keeps the owners and the labels they come from.
LEMMA NextOwner ==
  ASSUME SafeInv, SafeInv', OwnerInv, [Next]_vars
  PROVE  OwnerInv'
<1> SUFFICES ASSUME Placid PROVE OwnerInv'
  BY EnvConstant DEF OwnerInv, Placid, OnlyMeets
<1>1. /\ mqtt /\ \A id \in NodeIds : req[id] = "idle"
      /\ TracksOwn /\ TracksNamed /\ Agrees
  BY DEF OwnerInv
<1>2. env = {}
  BY DEF Placid, OnlyMeets
<1>3. CASE \E ev \in Event : Tells(ev)
  <2> PICK ev \in Event : Tells(ev)
    BY <1>3
  <2>1. UNCHANGED <<mqtt, tracked, names>> /\ \A id \in NodeIds : req'[id] = "idle"
    BY <1>1 DEF Tells
  <2>2. TracksOwn' /\ TracksNamed'
    BY <1>1, <2>1 DEF TracksOwn, TracksNamed
  <2> QED
    BY <1>1, <2>1, <2>2, TellsAgrees DEF OwnerInv
<1>4. CASE Handler
  <2>1. UNCHANGED <<mqtt, req>>
    BY <1>4 DEF Handler, Dump, HandleAttribute, HandleNode, HandleRemoved, Receive, SessionUnchanged
  <2>2. Agrees' /\ TracksNamed'
    BY <1>1, <1>4, HandlersAgree
  <2>3. TracksOwn'
    <3>1. PICK gone, sent : HandledBy(gone, sent)
      BY <1>4, HandlersPublish DEF Handles, Handler
    <3>2. nodes' \in Nodes /\ names' \in [NodeIds -> Keys \cup {Empty}]
      BY DEF SafeInv, TypeOK, CacheTypeOK
    <3>3. /\ \A p \in sent :
               OfCache(p, nodes', names') \/ (HandleAttribute /\ OfEvent(p, Head(events), names'))
          /\ Publish(gone, sent)
      BY <3>1 DEF HandledBy
    <3>4. Owned(sent)
      BY <3>2, <3>3, SayingsOwned
    <3> QED
      BY <1>1, <3>3, <3>4, PublishTracksOwn
  <2> QED
    BY <1>1, <2>1, <2>2, <2>3 DEF OwnerInv
<1>5. CASE Passes
  <2>1. UNCHANGED <<mqtt, req, tracked, names>>
    BY <1>5 DEF Passes, Quiet
  <2>2. TracksOwn' /\ TracksNamed'
    BY <1>1, <2>1 DEF TracksOwn, TracksNamed
  <2> QED
    BY <1>1, <1>5, <2>1, <2>2, PassesAgrees DEF OwnerInv
<1>6. ~ Asks /\ ~ MqttLost /\ ~ MqttBack /\ ~ Crash
  BY <1>1, <1>2 DEF Asks, RequestRemove, ServerRemoves, RequestFails, FinishRemove, MqttLost,
     MqttBack, Crash
<1>7. CASE UNCHANGED vars
  <2>1. UNCHANGED <<fabric, mqtt, phase, dump, events, nodes, names, tracked, req>>
    BY <1>7 DEF vars, external, session, broker
  <2>2. Agrees'
    BY <1>1, <2>1 DEF Agrees, Fresh, LeadsToLabels, Replay
  <2> QED
    BY <1>1, <2>1, <2>2 DEF OwnerInv, TracksOwn, TracksNamed
<1> QED
  BY <1>3, <1>4, <1>5, <1>6, <1>7, Steps

\* While nothing but sessions fail and names change only when the bridge listens,
\* no topic is recorded for two nodes, as long as no label reads like a suffixed
\* one: what is cleared for one node is never another's (publishTracked, clearNode
\* and clearNamedTopics against Recompute).
THEOREM TopicsHaveOneOwner ==
  ASSUME NoSuffixClash
  PROVE  Spec => []OneOwner
<1>1. SafeInv /\ SafeInv' /\ OwnerInv /\ [Next]_vars => OwnerInv'
  BY NextOwner
<1>2. SafeInv /\ OwnerInv => OneOwner
  <2> SUFFICES ASSUME SafeInv, OwnerInv, Placid,
                      NEW id \in NodeIds, NEW other \in NodeIds, id # other,
                      NEW t \in tracked[id], t \in tracked[other]
               PROVE  FALSE
    BY DEF OneOwner, Placid
  <2>1. TopicOf(t, id) /\ TopicOf(t, other)
    BY DEF OwnerInv, TracksOwn
  <2>2. CASE t \in NamedTopic
    <3>1. names[id] # Empty /\ names[other] # Empty /\ names[id] = names[other]
      BY <2>2 DEF OwnerInv, TracksNamed
    <3>2. names = NamesOf(LabelsOf(nodes)) /\ LabelsOf(nodes) \in [NodeIds -> Labels]
      BY LabelsOfType DEF SafeInv, NamesInSync, TypeOK, CacheTypeOK
    <3>3. ~ SameName(names[id], names[other])
      BY <3>1, <3>2, KeysDistinct
    <3> QED
      BY <3>1, <3>3 DEF SameName
  <2>3. CASE t \notin NamedTopic
    <3>1. (\E leaf \in Leaves : t = <<"node", id, leaf>>)
            /\ \E leaf \in Leaves : t = <<"node", other, leaf>>
      BY <2>1, <2>3 DEF TopicOf
    <3> QED
      BY <3>1
  <2> QED
    BY <2>2, <2>3
<1> QED
  BY <1>1, <1>2, InitOwner, InitSafe, SpecSafe, PTL DEF Spec


-----------------------------------------------------------------------------
(* The tree as it is and as it should be. *)

\* A topic belongs to one node at a time.
LEMMA TopicOwner ==
  ASSUME NoSuffixClash, NEW ns \in Nodes, NEW ks, ks = NamesOf(LabelsOf(ns)),
         NEW id \in NodeIds, NEW other \in NodeIds, ns[id] # Absent, ns[other] # Absent,
         NEW t, t \in NodeTopics(id, ns[id], ks[id]), t \in NodeTopics(other, ns[other], ks[other])
  PROVE  id = other
<1> SUFFICES ASSUME id # other PROVE FALSE
  OBVIOUS
<1>1. ks \in [NodeIds -> Keys \cup {Empty}] /\ LabelsOf(ns) \in [NodeIds -> Labels]
  BY LabelsOfType, NamesOfType
<1>2. TopicOf(t, id) /\ TopicOf(t, other)
  BY <1>1, NodeTopicsOwned DEF Nodes
<1>3. CASE t \in NamedTopic
  <2>1. PICK l, k : t \in Retained(id, ks[id], l) /\ t \in Retained(other, ks[other], k)
    BY <1>3 DEF NodeTopics, NamedTopic
  <2>2. ks[id] # Empty /\ ks[other] # Empty /\ ks[id] = ks[other]
    BY <1>3, <2>1, AliasOf
  <2>3. ~ SameName(ks[id], ks[other])
    BY <1>1, <2>2, KeysDistinct
  <2> QED
    BY <2>2, <2>3 DEF SameName
<1>4. CASE t \notin NamedTopic
  BY <1>2, <1>4 DEF TopicOf
<1> QED
  BY <1>3, <1>4

\* A tree that shows every topic of a fabric as readers see it, and no other topic,
\* is the tree of that fabric.
LEMMA TreeShows ==
  ASSUME NoSuffixClash, NEW ns \in Nodes, NEW ks, ks = NamesOf(LabelsOf(ns)), NEW ret,
         \A id \in NodeIds : ns[id] # Absent => \A t \in NodeTopics(id, ns[id], ks[id]) :
           Seen(ret[t], t[3]) = Seen(Payload(ns[id], ks[id], t[3]), t[3]),
         \A t \in Topic : ret[t] # Empty =>
           \E id \in NodeIds : ns[id] # Absent /\ t \in NodeTopics(id, ns[id], ks[id])
  PROVE  Readable(ret) = TreeOfFabric(ns)
<1> DEFINE present == {id \in NodeIds : ns[id] # Absent}
           owners(t) == {id \in present : t \in NodeTopics(id, ns[id], ks[id])}
           painted == [t \in Topic |->
             IF owners(t) = {} THEN Empty
             ELSE LET id == CHOOSE i \in owners(t) : TRUE IN Payload(ns[id], ks[id], t[3])]
<1>1. ns # Absent
  BY NodeAssumption
<1>2. TreeOfFabric(ns) = Readable(painted)
  BY <1>1 DEF TreeOfFabric
<1>3. ASSUME NEW t \in Topic
      PROVE  Seen(ret[t], t[3]) = Seen(painted[t], t[3])
  <2>1. CASE owners(t) = {}
    <3>1. ret[t] = Empty /\ painted[t] = Empty
      BY <1>3, <2>1
    <3> QED
      BY <3>1
  <2>2. CASE owners(t) # {}
    <3>1. PICK i : i = CHOOSE x \in owners(t) : TRUE
      OBVIOUS
    <3>2. i \in owners(t)
      BY <2>2, <3>1
    <3>3. painted[t] = Payload(ns[i], ks[i], t[3])
      BY <1>3, <2>2, <3>1
    <3>4. i \in NodeIds /\ ns[i] # Absent /\ t \in NodeTopics(i, ns[i], ks[i])
      BY <3>2
    <3> HIDE DEF painted, owners, present
    <3> QED
      BY <3>3, <3>4
  <2> QED
    BY <2>1, <2>2
<1> HIDE DEF painted, owners, present
<1> QED
  BY <1>2, <1>3 DEF Readable

-----------------------------------------------------------------------------
(* The topics of the cached nodes, and what a handler does to them. *)

Own(id) == IF nodes[id] = Absent THEN {} ELSE NodeTopics(id, nodes[id], names[id])

\* Every node is tracked on its own topics and no others, and those alone are retained.
Exact == /\ \A id \in NodeIds : tracked[id] = Own(id)
         /\ \A t \in Topic : retained[t] # Empty => \E id \in NodeIds : t \in Own(id)

\* A reader of topic t finds what node id is.
Legible(t, id) == Seen(retained[t], t[3]) = Seen(Payload(nodes[id], names[id], t[3]), t[3])

Lit == \A id \in NodeIds : \A t \in Own(id) : Legible(t, id)

\* Publication p is about a cached node, on a topic of its own, and true.
Says(p) ==
  p[2] \in NodeIds /\ p[1] \in Own(p[2]) /\ p[3] = Payload(nodes[p[2]], names[p[2]], p[1][3])

Sent(sent, t, id) == \E p \in sent : p[1] = t /\ p[2] = id

\* The owner of a topic, of the cached nodes.
LEMMA OwnOnce ==
  ASSUME NoSuffixClash, SafeInv, NEW id \in NodeIds, NEW other \in NodeIds,
         NEW t, t \in Own(id), t \in Own(other)
  PROVE  id = other
<1>1. nodes \in Nodes /\ names = NamesOf(LabelsOf(nodes))
  BY DEF SafeInv, TypeOK, CacheTypeOK, NamesInSync
<1> QED
  BY <1>1, TopicOwner DEF Own

\* publishNode's topics are topics.
LEMMA NodeTopicsType ==
  ASSUME NEW id \in NodeIds, NEW n \in Node, NEW key \in Keys \cup {Empty},
         NEW t, t \in NodeTopics(id, n, key)
  PROVE  t \in Topic /\ t[3] \in ShownLeaves(n)
<1>1. t \in Topic
  <2>1. <<t, id, Payload(n, key, t[3])>> \in PublishNode(id, n, key)
    BY DEF PublishNode
  <2> QED
    BY <2>1, PublishNodeType DEF WellFormed
<1>2. t[3] \in ShownLeaves(n)
  <2>1. CASE t \in {<<"node", id, leaf>> : leaf \in {"availability", "name", "descriptor"}}
    BY <2>1 DEF ShownLeaves
  <2>2. CASE t \in UNION {Retained(id, key, leaf) : leaf \in Attributes(n)}
    BY <2>2, AttributeTopicsType DEF Attributes, ShownLeaves, Retained
  <2> QED
    BY <2>1, <2>2 DEF NodeTopics
<1> QED
  BY <1>1, <1>2

\* True publications on every topic that changes, and clearing the topics that are
\* no longer a node's own: what is left is the tree of the cache.
LEMMA Rewritten ==
  ASSUME NoSuffixClash, SafeInv, SafeInv', Exact, mqtt, NEW gone, NEW sent, Publish(gone, sent),
         \A p \in sent : Says(p)',
         \A id \in NodeIds : gone[id] \subseteq tracked[id],
         \A id \in NodeIds : \A t \in Own(id) : t \in gone[id] \/ t \in Own(id)',
         \A id \in NodeIds : \A t \in Own(id)' :
           \/ Sent(sent, t, id)
           \/ /\ t \in Own(id) /\ t \notin gone[id]
              /\ Seen(retained[t], t[3]) = Seen(Payload(nodes'[id], names'[id], t[3]), t[3])
  PROVE  Exact' /\ Lit'
<1>1. Track(gone, sent) /\ Send(gone, sent)
  BY DEF Publish
<1>2. ASSUME NEW id \in NodeIds PROVE tracked'[id] = Own(id)'
  <2>1. tracked'[id] = (tracked[id] \ gone[id]) \cup {p[1] : p \in {q \in sent : q[2] = id}}
    BY <1>1 DEF Track
  <2>2. tracked[id] = Own(id)
    BY DEF Exact
  <2>3. ASSUME NEW t \in tracked'[id] PROVE t \in Own(id)'
    <3>1. CASE t \in Own(id) /\ t \notin gone[id]
      BY <3>1
    <3>2. CASE \E p \in sent : p[2] = id /\ p[1] = t
      BY <3>2 DEF Says
    <3> QED
      BY <2>1, <2>2, <2>3, <3>1, <3>2
  <2>4. ASSUME NEW t \in Own(id)' PROVE t \in tracked'[id]
    BY <2>1, <2>2, <2>4 DEF Sent
  <2> QED
    BY <2>3, <2>4
<1>3. ASSUME NEW t \in Topic, retained'[t] # Empty
      PROVE  \E id \in NodeIds : t \in Own(id)'
  <2>1. CASE /\ retained'[t] = retained[t]
             /\ \A id \in NodeIds : t \notin gone[id]
    BY <1>3, <2>1 DEF Exact
  <2>2. CASE \E p \in sent : p[1] = t /\ retained'[t] = p[3]
    BY <2>2 DEF Says
  <2> QED
    BY <1>1, <1>3, <2>1, <2>2, SendAt
<1>4. ASSUME NEW id \in NodeIds, NEW t \in Own(id)' PROVE Legible(t, id)'
  <2>0. nodes' \in Nodes /\ names' = NamesOf(LabelsOf(nodes'))
    BY DEF SafeInv, TypeOK, CacheTypeOK, NamesInSync
  <2>4. t \in Topic
    <3>1. nodes'[id] \in Node /\ names'[id] \in Keys \cup {Empty}
      BY <1>4 DEF SafeInv, TypeOK, CacheTypeOK, Own, Nodes
    <3> QED
      BY <1>4, <3>1, NodeTopicsType DEF Own
  <2>1. CASE retained'[t] = retained[t] /\ \A p \in sent : p[1] # t
    BY <1>4, <2>1 DEF Sent, Legible
  <2>2. CASE (\A p \in sent : p[1] # t) /\ \E other \in NodeIds : t \in gone[other]
    <3>1. t \in Own(id) /\ t \notin gone[id]
      BY <1>4, <2>2 DEF Sent
    <3>2. PICK other \in NodeIds : t \in gone[other]
      BY <2>2
    <3>3. t \in Own(other)
      BY <3>2 DEF Exact
    <3> QED
      BY <3>1, <3>2, <3>3, OwnOnce
  <2>3. CASE \E p \in sent : p[1] = t /\ retained'[t] = p[3]
    <3>1. PICK p \in sent : p[1] = t /\ retained'[t] = p[3]
      BY <2>3
    <3>2. PICK x \in NodeIds : /\ x = p[2] /\ t \in Own(x)'
                               /\ p[3] = Payload(nodes'[x], names'[x], t[3])
      BY <3>1 DEF Says
    <3>3. x = id
      BY <1>4, <2>0, <3>2, TopicOwner DEF Own
    <3> QED
      BY <3>1, <3>2, <3>3 DEF Legible
  <2> QED
    BY <1>1, <2>4, <2>1, <2>2, <2>3, SendAt
<1> QED
  BY <1>2, <1>3, <1>4 DEF Exact, Lit

\* No node loses an attribute, and a dump that is not the first names as before.
LEMMA HandlersGrow ==
  ASSUME SafeInv, SafeInv', Handler,
         Dump => Fresh \/ SameLabels(dump, nodes),
         ~ Dump => Sound(nodes, Head(events)),
         NEW id \in NodeIds, nodes[id] # Absent, ~ Fresh
  PROVE  /\ nodes'[id] # Absent => ShownLeaves(nodes[id]) \subseteq ShownLeaves(nodes'[id])
         /\ Dump => nodes'[id] # Absent /\ names' = names
<1>0. nodes \in Nodes /\ nodes[id] \in Node
  BY DEF SafeInv, TypeOK, CacheTypeOK, Nodes
<1>1. CASE Dump
  <2>1. nodes' = dump /\ SameLabels(dump, nodes)
    BY <1>1 DEF Dump
  <2>2. nodes'[id] # Absent /\ nodes'[id].label = nodes[id].label
    BY <2>1 DEF SameLabels
  <2>3. names' = names
    BY <2>1, SameLabelsNames DEF SafeInv, NamesInSync
  <2> QED
    BY <2>2, <2>3 DEF ShownLeaves, Attributes
<1>2. CASE ~ Dump
  <2> SUFFICES ASSUME nodes'[id] # Absent, nodes[id].label # NoLabel
               PROVE  nodes'[id].label # NoLabel
    BY <1>2 DEF ShownLeaves, Attributes
  <2>1. PICK ev : ev = Head(events)
    OBVIOUS
  <2>2. nodes' = Applied(nodes, ev) /\ ev \in Event /\ Sound(nodes, ev)
    BY <1>2, <2>1, HandlersApply
  <2>3. CASE ev.id # id
    <3>1. ev.type \in {"node", "removed", "attribute"} /\ ev.id \in NodeIds
      BY <2>2 DEF Event
    <3>2. nodes'[id] = nodes[id]
      BY <1>0, <2>2, <2>3, <3>1 DEF Applied, Nodes
    <3> QED
      BY <3>2
  <2>4. CASE ev.id = id /\ ev.type = "node"
    <3>1. nodes'[id] = ev.node
      BY <1>0, <2>2, <2>4 DEF Applied, Nodes
    <3> QED
      BY <2>2, <2>4, <3>1 DEF Sound
  <2>5. CASE ev.id = id /\ ev.type = "removed"
    BY <1>0, <2>2, <2>5 DEF Applied, Nodes
  <2>6. CASE ev.id = id /\ ev.type = "attribute"
    <3>1. ev.leaf \in StateLeaves
      BY <2>2, <2>6, AttributeEvent
    <3>2. nodes'[id] = IF ev.leaf = "label" THEN [nodes[id] EXCEPT !.label = ev.val]
                                            ELSE [nodes[id] EXCEPT !.value = ev.val]
      BY <1>0, <2>2, <2>6 DEF Applied, Nodes
    <3>3. CASE ev.leaf = "label"
      <4>1. nodes'[id].label = ev.val
        BY <1>0, <3>2, <3>3 DEF Node
      <4> QED
        BY <2>2, <2>6, <3>3, <4>1 DEF Sound
    <3>4. CASE ev.leaf # "label"
      <4>1. nodes'[id].label = nodes[id].label
        BY <1>0, <3>2, <3>4 DEF Node
      <4> QED
        BY <4>1
    <3> QED
      BY <3>3, <3>4
  <2> QED
    BY <2>2, <2>3, <2>4, <2>5, <2>6 DEF Event
<1> QED
  BY <1>1, <1>2

\* A node that keeps its name keeps its topics.
LEMMA MoreTopics ==
  ASSUME NEW id \in NodeIds, NEW n \in Node, NEW m \in Node, NEW key \in Keys \cup {Empty},
         NEW old \in Keys \cup {Empty},
         ShownLeaves(n) \subseteq ShownLeaves(m), NEW t \in NodeTopics(id, n, old),
         key = old \/ t \notin NamedTopic
  PROVE  t \in NodeTopics(id, m, key)
<1>1. CASE t \in {<<"node", id, leaf>> : leaf \in {"availability", "name", "descriptor"}}
  BY <1>1 DEF NodeTopics
<1>2. CASE \E leaf \in Attributes(n) : t \in Retained(id, old, leaf)
  <2>1. PICK leaf \in Attributes(n) : t \in Retained(id, old, leaf)
    BY <1>2
  <2>2. leaf \in Attributes(m)
    <3>1. RetainState
      BY <2>1 DEF Retained
    <3> QED
      BY <2>1, <3>1 DEF ShownLeaves, Attributes, StateLeaves
  <2>3. t \in Retained(id, key, leaf)
    <3>1. RetainState /\ t \in AttributeTopics(id, old, leaf)
      BY <2>1 DEF Retained
    <3>2. CASE t = <<"node", id, leaf>>
      BY <3>1, <3>2 DEF Retained, AttributeTopics
    <3>3. CASE PublishNames /\ old # Empty /\ t = <<"named", old, leaf>>
      <4>1. t \in NamedTopic
        BY <2>1, <3>3 DEF NamedTopic, Attributes
      <4> QED
        BY <2>1, <4>1
    <3> QED
      BY <3>1, <3>2, <3>3 DEF AttributeTopics
  <2> QED
    BY <2>2, <2>3 DEF NodeTopics
<1> QED
  BY <1>1, <1>2 DEF NodeTopics

\* A node's topic stays its own as long as the node has what it ends in.
LEMMA LeafTopic ==
  ASSUME NEW id \in NodeIds, NEW n \in Node, NEW m \in Node, NEW key \in Keys \cup {Empty},
         NEW t \in NodeTopics(id, n, key), t[3] \in ShownLeaves(m)
  PROVE  t \in NodeTopics(id, m, key)
<1>1. CASE t \in {<<"node", id, leaf>> : leaf \in {"availability", "name", "descriptor"}}
  BY <1>1 DEF NodeTopics
<1>2. CASE \E leaf \in Attributes(n) : t \in Retained(id, key, leaf)
  <2>1. PICK leaf \in Attributes(n) : t \in Retained(id, key, leaf)
    BY <1>2
  <2>2. t[3] = leaf /\ leaf \in StateLeaves
    BY <2>1, AttributeTopicsType DEF Attributes
  <2>3. leaf \in Attributes(m)
    BY <2>2 DEF ShownLeaves, StateLeaves
  <2> QED
    BY <2>1, <2>3 DEF NodeTopics
<1> QED
  BY <1>1, <1>2 DEF NodeTopics

\* The event of an attribute is true once it is cached.
LEMMA EventSays ==
  ASSUME SafeInv, SafeInv', HandleAttribute, Sound(nodes, Head(events)),
         NEW p, OfEvent(p, Head(events), names')
  PROVE  Says(p)'
<1>1. PICK ev : ev = Head(events)
  OBVIOUS
<1>2. nodes' = Applied(nodes, ev) /\ ev \in Event /\ Sound(nodes, ev) /\ ev.type = "attribute"
  BY <1>1, HandlersApply DEF HandleAttribute, Receive, Handler, Dump
<1>3. /\ ev.id \in NodeIds /\ ev.leaf \in StateLeaves
      /\ ev.leaf = "label" => ev.val \in Labels
      /\ ev.leaf = "value" => ev.val \in 0 .. MaxChanges
  BY <1>2, AttributeEvent
<1>4. PICK id \in NodeIds : id = ev.id
  BY <1>3
<1>5. nodes[id] \in Node /\ nodes \in Nodes /\ nodes[id] # Absent
  BY <1>2, <1>4 DEF SafeInv, TypeOK, CacheTypeOK, Nodes, Sound
<1>6. nodes'[id] = IF ev.leaf = "label" THEN [nodes[id] EXCEPT !.label = ev.val]
                                        ELSE [nodes[id] EXCEPT !.value = ev.val]
  BY <1>2, <1>4, <1>5 DEF Applied, Nodes
<1>7. nodes'[id] \in Node /\ nodes'[id] # Absent
  <2>1. nodes'[id] \in Node
    BY <1>3, <1>5, <1>6 DEF Node, StateLeaves
  <2> QED
    BY <2>1, NodeAssumption
<1>8. ev.leaf \in Attributes(nodes'[id]) /\ Payload(nodes'[id], names'[id], ev.leaf) = [json |-> ev.val]
  <2>1. CASE ev.leaf = "label"
    <3>1. nodes'[id].label = ev.val /\ ev.val # NoLabel
      BY <1>2, <1>5, <1>6, <2>1 DEF Node, Sound
    <3> QED
      BY <2>1, <3>1 DEF Attributes, StateLeaves, Payload
  <2>2. CASE ev.leaf = "value"
    <3>1. nodes'[id].value = ev.val
      BY <1>5, <1>6, <2>2 DEF Node
    <3> QED
      BY <2>2, <3>1 DEF Attributes, StateLeaves, Payload
  <2> QED
    BY <1>3, <2>1, <2>2 DEF StateLeaves
<1>9. /\ p[1] \in Retained(id, names'[id], ev.leaf) /\ p[2] = id /\ p[3] = [json |-> ev.val]
  BY <1>1, <1>4 DEF OfEvent, PublishAttribute
<1>10. names'[id] \in Keys \cup {Empty}
  BY DEF SafeInv, TypeOK, CacheTypeOK
<1>11. p[1][3] = ev.leaf
  BY <1>3, <1>9, <1>10, AttributeTopicsType
<1>12. p[1] \in NodeTopics(id, nodes'[id], names'[id])
  BY <1>8, <1>9 DEF NodeTopics
<1> QED
  BY <1>7, <1>8, <1>9, <1>11, <1>12 DEF Says, Own

\* So is all that publishNode says.
LEMMA CacheSays ==
  ASSUME NEW p, OfCache(p, nodes', names')
  PROVE  Says(p)'
<1>1. PICK id \in NodeIds : nodes'[id] # Absent /\ p \in PublishNode(id, nodes'[id], names'[id])
  BY DEF OfCache
<1>2. PICK t \in NodeTopics(id, nodes'[id], names'[id]) :
        p = <<t, id, Payload(nodes'[id], names'[id], t[3])>>
  BY <1>1 DEF PublishNode
<1> QED
  BY <1>1, <1>2 DEF Says, Own

\* What is not published again reads as before.
LEMMA StaysLegible ==
  ASSUME NEW id, NEW leaf, Stays(id, leaf), NEW payload,
         Seen(payload, leaf) = Seen(Payload(nodes[id], names[id], leaf), leaf),
         names[id] \in Keys \cup {Empty}, nodes[id] \in Node, nodes'[id] \in Node
  PROVE  Seen(payload, leaf) = Seen(Payload(nodes'[id], names'[id], leaf), leaf)
<1>1. CASE leaf \notin {"name", "descriptor"}
  BY <1>1 DEF Stays
<1>2. CASE leaf = "name"
  BY <1>2 DEF Stays, Payload
<1>3. CASE leaf = "descriptor"
  <2> DEFINE d(n, key) == [name |-> key, label |-> n.label]
  <2>1. ASSUME NEW n \in Node, NEW key \in Keys \cup {Empty}
        PROVE  d(n, key) # Empty /\ d(n, key).name = key
    BY NodeAssumption DEF Node
  <2>2. /\ Payload(nodes[id], names[id], leaf) = d(nodes[id], names[id])
        /\ Payload(nodes'[id], names'[id], leaf) = d(nodes'[id], names'[id])
    BY <1>3 DEF Payload
  <2>3. names'[id] = names[id]
    BY DEF Stays
  <2>4. /\ Seen(d(nodes[id], names[id]), leaf) = names[id]
        /\ Seen(d(nodes'[id], names'[id]), leaf) = names[id]
    <3> HIDE DEF d
    <3> QED
      BY <1>3, <2>1, <2>3 DEF Seen
  <2> QED
    BY <2>2, <2>4
<1> QED
  BY <1>1, <1>2, <1>3

\* A handler leaves the tree of the cache it leaves.
LEMMA HandlersExact ==
  ASSUME NoSuffixClash, SafeInv, SafeInv', Handler, mqtt, Exact,
         Dump => Fresh \/ SameLabels(dump, nodes),
         ~ Dump => Sound(nodes, Head(events)) /\ Lit
  PROVE  Exact' /\ Lit'
<1>1. PICK gone, sent : HandledBy(gone, sent)
  BY HandlersPublish DEF Handles, Handler
<1>2. Publish(gone, sent)
  BY <1>1 DEF HandledBy
<1>3. \A p \in sent : Says(p)'
  <2>1. HandleAttribute => ~ Dump
    BY DEF HandleAttribute, Receive, Dump
  <2> QED
    BY <1>1, <2>1, EventSays, CacheSays DEF HandledBy
<1>4. \A id \in NodeIds : gone[id] \subseteq tracked[id]
  BY <1>1 DEF HandledBy
<1>5. ASSUME NEW id \in NodeIds
      PROVE  /\ names[id] \in Keys \cup {Empty} /\ names'[id] \in Keys \cup {Empty}
             /\ nodes[id] # Absent => nodes[id] \in Node
             /\ nodes'[id] # Absent => nodes'[id] \in Node
  BY DEF SafeInv, TypeOK, CacheTypeOK, Nodes
<1>6. ASSUME NEW id \in NodeIds, NEW t \in Own(id)
      PROVE  t \in gone[id] \/ t \in Own(id)'
  <2>1. t \in tracked[id] /\ nodes[id] # Absent /\ t \in NodeTopics(id, nodes[id], names[id])
    BY <1>6 DEF Exact, Own
  <2>2. ~ Fresh
    BY <2>1 DEF Fresh
  <2>3. /\ nodes'[id] # Absent => ShownLeaves(nodes[id]) \subseteq ShownLeaves(nodes'[id])
        /\ Dump => nodes'[id] # Absent /\ names' = names
    BY <2>1, <2>2, HandlersGrow
  <2>4. CASE nodes'[id] = Absent
    BY <1>1, <2>1, <2>3, <2>4 DEF HandledBy
  <2>5. CASE nodes'[id] # Absent
    <3>1. names'[id] = names[id] \/ t \notin NamedTopic \/ t \in gone[id]
      BY <1>1, <2>1, <2>3 DEF HandledBy
    <3>2. nodes[id] \in Node /\ nodes'[id] \in Node
      BY <1>5, <2>1, <2>5
    <3> QED
      BY <1>5, <2>1, <2>3, <2>5, <3>1, <3>2, MoreTopics DEF Own
  <2> QED
    BY <2>4, <2>5
<1>7. ASSUME NEW id \in NodeIds, NEW t \in Own(id)'
      PROVE  \/ Sent(sent, t, id)
             \/ /\ t \in Own(id) /\ t \notin gone[id]
                /\ Seen(retained[t], t[3]) = Seen(Payload(nodes'[id], names'[id], t[3]), t[3])
  <2>1. nodes'[id] \in Node /\ nodes'[id] # Absent /\ t \in NodeTopics(id, nodes'[id], names'[id])
    BY <1>5, <1>7 DEF Own
  <2>2. t[3] \in ShownLeaves(nodes'[id])
    BY <1>5, <2>1, NodeTopicsType
  <2>3. CASE Published(sent, id, t[3])
    BY <2>1, <2>3 DEF Published, Sent
  <2>4. CASE Stays(id, t[3]) /\ ~ Dump
    <3>1. /\ nodes[id] # Absent /\ t[3] \in ShownLeaves(nodes[id]) /\ names'[id] = names[id]
      BY <2>4 DEF Stays
    <3>2. gone[id] = {}
      BY <1>1, <2>1, <3>1 DEF HandledBy
    <3>3. t \in Own(id)
      BY <1>5, <2>1, <3>1, LeafTopic DEF Own
    <3>4. Seen(retained[t], t[3]) = Seen(Payload(nodes[id], names[id], t[3]), t[3])
      BY <2>4, <3>3 DEF Lit, Legible
    <3>5. Seen(retained[t], t[3]) = Seen(Payload(nodes'[id], names'[id], t[3]), t[3])
      BY <1>5, <2>1, <2>4, <3>1, <3>4, StaysLegible
    <3> QED
      BY <3>2, <3>3, <3>5
  <2> QED
    BY <1>1, <2>1, <2>2, <2>3, <2>4 DEF HandledBy
<1> QED
  BY <1>2, <1>3, <1>4, <1>6, <1>7, Rewritten

-----------------------------------------------------------------------------
(* The history of the fabric, and what is known of the bridge at each point in it. *)

\* An event that takes the fabric from ns to next.
Leads(ns, ev, next) == next = Applied(ns, ev) /\ Sound(ns, ev)

\* The states of the fabric from the one shown to the present.
At(k) == IF k = 0 THEN shown ELSE ahead[k]

\* How far behind the one that the next handler shows is.
Behind == IF phase = "answered" THEN Len(ahead) - since ELSE 0

HistoryTypeOK == shown \in Nodes \cup {Absent} /\ ahead \in Seq(Nodes) /\ since \in 0 .. Len(ahead)

\* The events that wait lead from there through the states that follow, to the present
\* while the session is up.
Told ==
  /\ Behind + Len(events) <= Len(ahead)
  /\ alive => Behind + Len(events) = Len(ahead)
  /\ \A i \in 1 .. Len(events) : Leads(At(Behind + i - 1), events[i], At(Behind + i))

\* The cache is the state that is shown, a dump that is under way one that follows.
Recorded ==
  /\ HistoryTypeOK
  /\ At(Len(ahead)) = fabric
  /\ IF shown = Absent THEN Fresh ELSE nodes = shown
  /\ phase = "serving" => shown # Absent
  /\ phase = "answered" => At(Behind) = dump
  /\ phase \in {"answered", "serving"} => Told

\* Every cached node is marked online or offline, and was given its id once.
Marked == \A id \in NodeIds : nodes[id] # Absent => retained[<<"node", id, "availability">>] # Empty

Given == \A id \in NodeIds : fabric[id] # Absent => id \in commissioned

MirrorInv ==
  /\ Given /\ Exact /\ Marked /\ Recorded
  /\ phase = "serving" => Lit /\ matterConnected = "true"

\* What the steps of the fabric and of the session that publish nothing leave alone.
Still == UNCHANGED <<retained, matterConnected, tracked, nodes, names, env, mqtt>>

LEMMA StillTree ==
  ASSUME Still, Exact, Marked
  PROVE  Exact' /\ Marked' /\ (Lit => Lit')
<1>1. \A id \in NodeIds : Own(id)' = Own(id)
  BY DEF Still, Own
<1>2. Exact'
  BY <1>1 DEF Still, Exact
<1>3. Marked'
  BY DEF Still, Marked
<1>4. Lit => Lit'
  BY <1>1 DEF Still, Lit, Legible, Seen
<1> QED
  BY <1>2, <1>3, <1>4

\* The fabric changes: the history grows, and so do the events while the session is up.
LEMMA FabricMirror ==
  ASSUME SafeInv, SafeInv', Placid, MirrorInv, FabricNext, HistoryNext
  PROVE  /\ MirrorInv' /\ Still /\ shown' = shown /\ phase' = phase
         /\ \E f \in Nodes : ahead' = Append(ahead, f)
<1>1. PICK id \in NodeIds : Commission(id) \/ ReportValue(id) \/ Relabel(id)
                              \/ ChangeAvailability(id) \/ Decommission(id)
  BY DEF FabricNext
<1>2. PICK ev \in Event : Tells(ev) /\ Sound(fabric, ev)
  BY <1>1, FabricTells DEF MirrorInv, Given
<1>3. /\ clock' = clock + 1 /\ clock' # clock /\ Still /\ UNCHANGED <<phase, alive, dump>>
      /\ fabric' \in Nodes /\ fabric \in Nodes /\ fabric' = Applied(fabric, ev)
  <2>1. clock \in Nat /\ fabric' \in Nodes /\ fabric \in Nodes
    BY BridgeAssumption DEF SafeInv, TypeOK, WorldTypeOK
  <2>2. clock' = clock + 1 /\ Still /\ UNCHANGED <<phase, alive, dump>>
    BY <1>1 DEF Commission, ReportValue, Relabel, ChangeAvailability, Decommission, Change, Still, broker
  <2> QED
    BY <1>2, <2>1, <2>2 DEF Tells
<1>4. /\ events \in Seq(Event)
      /\ \/ events' = Append(events, ev) /\ Listening
         \/ events' = events /\ ~ Listening
  BY <1>2 DEF Tells, Placid, OnlyMeets, SafeInv, TypeOK, SessionTypeOK
<1>5. /\ shown' = shown /\ ahead' = Append(ahead, fabric')
      /\ since' = IF phase # "answered" THEN 0 ELSE since + 1
  <2>1. Len(events') >= Len(events)
    BY <1>4
  <2>2. ~ (phase = "answered" /\ phase' = "serving") /\ ~ (Len(events') < Len(events))
    BY <1>3, <1>4, <2>1
  <2>3. clock' - clock = 1
    BY <1>3, BridgeAssumption DEF SafeInv, TypeOK, WorldTypeOK
  <2> QED
    BY <1>3, <2>2, <2>3 DEF HistoryNext
<1>6. /\ HistoryTypeOK /\ At(Len(ahead)) = fabric
      /\ ahead \in Seq(Nodes) /\ Len(ahead) \in Nat /\ since \in 0 .. Len(ahead)
  BY DEF MirrorInv, Recorded, HistoryTypeOK
<1>0. PICK n \in Nat : n = Len(ahead)
  BY <1>6
<1>7. /\ ahead' \in Seq(Nodes) /\ Len(ahead') = n + 1
      /\ \A k \in 0 .. n : At(k)' = At(k)
      /\ At(n + 1)' = fabric'
  BY <1>0, <1>3, <1>5, <1>6 DEF At
<1>8. Behind \in 0 .. Len(ahead) /\ Behind' = Behind
  BY <1>0, <1>3, <1>5, <1>6, <1>7 DEF Behind
<1>9. PICK b : b = Behind
  OBVIOUS
<1>10. ASSUME phase \in {"answered", "serving"}
       PROVE  Told'
  <2>1. /\ b + Len(events) <= Len(ahead)
        /\ alive => b + Len(events) = Len(ahead)
        /\ \A i \in 1 .. Len(events) : Leads(At(b + i - 1), events[i], At(b + i))
    BY <1>9, <1>10 DEF MirrorInv, Recorded, Told
  <2>2. ASSUME NEW i \in 1 .. Len(events)
        PROVE  Leads(At(b + i - 1)', events[i], At(b + i)')
    <3>1. b + i - 1 \in 0 .. n /\ b + i \in 0 .. n
      BY <1>0, <1>4, <1>6, <1>8, <1>9, <2>1, <2>2
    <3> QED
      BY <1>7, <2>1, <2>2, <3>1
  <2>3. CASE alive
    <3>1. events' = Append(events, ev)
      BY <1>4, <1>10, <2>3 DEF Listening
    <3>2. Len(events') = Len(events) + 1 /\ events'[Len(events) + 1] = ev
          /\ \A i \in 1 .. Len(events) : events'[i] = events[i]
      BY <1>4, <3>1
    <3>3. b + Len(events') = Len(ahead')
      BY <1>0, <1>4, <1>7, <1>8, <1>9, <2>1, <2>3, <3>2
    <3>4. ASSUME NEW i, i = Len(events')
          PROVE  Leads(At(b + i - 1)', events'[i], At(b + i)')
      <4>1. At(n)' = fabric
        <5>1. At(n) = fabric
          BY <1>0, <1>6
        <5> QED
          BY <1>7, <5>1
      <4>2. b + i - 1 = n /\ b + i = n + 1
        BY <1>0, <1>4, <1>6, <1>7, <1>8, <1>9, <3>2, <3>3, <3>4
      <4> QED
        BY <1>2, <1>3, <1>7, <3>2, <3>4, <4>1, <4>2 DEF Leads
    <3>5. \A i \in 1 .. Len(events') : Leads(At(b + i - 1)', events'[i], At(b + i)')
      <4> SUFFICES ASSUME NEW i \in 1 .. Len(events')
                   PROVE  Leads(At(b + i - 1)', events'[i], At(b + i)')
        OBVIOUS
      <4>1. CASE i = Len(events')
        BY <3>4, <4>1
      <4>2. CASE i \in 1 .. Len(events)
        BY <2>2, <3>2, <4>2
      <4> QED
        BY <1>4, <3>2, <4>1, <4>2
    <3> QED
      BY <1>7, <1>8, <1>9, <3>3, <3>5 DEF Told
  <2>4. CASE ~ alive
    <3>1. events' = events /\ ~ alive'
      BY <1>3, <1>4, <2>4 DEF Listening
    <3>2. b + Len(events') <= Len(ahead')
      BY <1>0, <1>4, <1>6, <1>7, <1>8, <1>9, <2>1, <3>1
    <3> QED
      BY <1>8, <1>9, <2>2, <3>1, <3>2 DEF Told
  <2> QED
    BY <2>3, <2>4
<1>11. Recorded'
  <2>1. HistoryTypeOK'
    BY <1>0, <1>5, <1>6, <1>7 DEF HistoryTypeOK
  <2>2. At(Len(ahead))' = fabric'
    <3>1. At(Len(ahead))' = At(n + 1)'
      BY <1>7 DEF At
    <3> QED
      BY <1>7, <3>1
  <2>3. IF shown' = Absent THEN Fresh' ELSE nodes' = shown'
    BY <1>3, <1>5 DEF MirrorInv, Recorded, Fresh, Still
  <2>4. phase' = "serving" => shown' # Absent
    BY <1>3, <1>5 DEF MirrorInv, Recorded
  <2>5. phase' = "answered" => At(Behind)' = dump'
    <3>1. At(b)' = At(b)
      BY <1>0, <1>7, <1>8, <1>9
    <3>2. At(Behind)' = At(b)'
      BY <1>8, <1>9 DEF At
    <3>3. At(Behind) = At(b)
      BY <1>9
    <3> QED
      BY <1>3, <3>1, <3>2, <3>3 DEF MirrorInv, Recorded
  <2> QED
    BY <1>3, <1>10, <2>1, <2>2, <2>3, <2>4, <2>5 DEF Recorded
<1>12. Given'
  BY <1>1, <1>3 DEF Nodes, MirrorInv, Given, Commission, ReportValue, Relabel, ChangeAvailability, Decommission, Change
<1>13. Exact' /\ Marked' /\ (Lit => Lit')
  BY <1>3, StillTree DEF MirrorInv
<1>14. MirrorInv'
  BY <1>3, <1>11, <1>12, <1>13 DEF MirrorInv, Still
<1> QED
  BY <1>3, <1>5, <1>14

\* Where the tree is exact, the nodes that are tracked are those with an availability.
LEMMA DarkMirror ==
  ASSUME SafeInv, SafeInv', mqtt, Exact, Marked, Reconnect
  PROVE  /\ Exact' /\ Marked'
         /\ \A t \in Topic : retained'[t] = IF t[3] = "availability" /\ retained[t] # Empty
                                               THEN "offline" ELSE retained[t]
<1>1. UNCHANGED <<tracked, nodes, names>>
  BY DEF Reconnect
<1> DEFINE marks(t) == \E id \in NodeIds : tracked[id] # {} /\ t = <<"node", id, "availability">>
<1>2. retained' = [t \in Topic |-> IF marks(t) THEN "offline" ELSE retained[t]]
  BY DEF Reconnect, MarkAllUnavailable
<1>3. "offline" # Empty
  BY BridgeAssumption
<1>4. ASSUME NEW id \in NodeIds
      PROVE  /\ tracked[id] # {} <=> nodes[id] # Absent
             /\ nodes[id] # Absent => <<"node", id, "availability">> \in Own(id)
  BY DEF Exact, Own, NodeTopics
<1>5. \A id \in NodeIds : Own(id)' = Own(id)
  BY <1>1 DEF Own
<1>6. Exact'
  <2>1. ASSUME NEW t \in Topic, retained'[t] # Empty
        PROVE  \E id \in NodeIds : t \in Own(id)'
    <3>1. CASE marks(t)
      BY <1>4, <1>5, <3>1
    <3>2. CASE ~ marks(t)
      BY <1>2, <1>5, <2>1, <3>2 DEF Exact
    <3> QED
      BY <3>1, <3>2
  <2> QED
    BY <1>1, <1>5, <2>1 DEF Exact
<1>7. Marked'
  <2> SUFFICES ASSUME NEW id \in NodeIds, nodes[id] # Absent
               PROVE  retained'[<<"node", id, "availability">>] # Empty
    BY <1>1 DEF Marked
  <2>1. <<"node", id, "availability">> \in Topic
    BY NodeTopic DEF Leaves
  <2> QED
    BY <1>2, <1>3, <1>4, <2>1
<1>8. ASSUME NEW t \in Topic
      PROVE  retained'[t] = IF t[3] = "availability" /\ retained[t] # Empty
                              THEN "offline" ELSE retained[t]
  <2>1. CASE t[3] # "availability"
    <3>1. ~ marks(t)
      BY <2>1
    <3> QED
      BY <1>2, <1>8, <2>1, <3>1
  <2>2. CASE t[3] = "availability"
    <3>2. PICK id \in NodeIds : t = <<"node", id, "availability">>
      BY <2>2 DEF Topic, NamedTopic, StateLeaves
    <3>3. marks(t) <=> tracked[id] # {}
      BY <3>2
    <3>4. retained[t] # Empty => nodes[id] # Absent
      <4> SUFFICES ASSUME retained[t] # Empty PROVE nodes[id] # Absent
        OBVIOUS
      <4>1. PICK other \in NodeIds : t \in Own(other)
        BY <1>8 DEF Exact
      <4>2. TopicOf(t, other)
        <5>1. /\ nodes[other] \in Node /\ names[other] \in Keys \cup {Empty}
              /\ t \in NodeTopics(other, nodes[other], names[other])
          BY <4>1 DEF SafeInv, TypeOK, CacheTypeOK, Own, Nodes
        <5> QED
          BY <5>1, NodeTopicsOwned
      <4>3. t \notin NamedTopic
        BY <3>2 DEF NamedTopic
      <4>4. other = id
        BY <3>2, <4>2, <4>3 DEF TopicOf
      <4> QED
        BY <4>1, <4>4 DEF Own
    <3>5. nodes[id] # Absent => retained[t] # Empty
      BY <3>2 DEF Marked
    <3>6. marks(t) <=> retained[t] # Empty
      BY <1>4, <3>3, <3>4, <3>5
    <3> HIDE DEF marks
    <3> QED
      BY <1>2, <1>8, <2>2, <3>6
  <2> QED
    BY <2>1, <2>2
<1> QED
  BY <1>6, <1>7, <1>8

\* The steps of the session that handle nothing: the history is that of before.
LEMMA PassesMirror ==
  ASSUME SafeInv, SafeInv', Placid, OwnerInv, MirrorInv, HistoryNext,
         \/ Dial \/ DialFails \/ ServerAnswers \/ CallFails \/ WsDrops \/ SessionEnds \/ Reconnect
  PROVE  MirrorInv' /\ shown' = shown /\ ahead' = ahead /\ (~ Reconnect => Still)
<1>1. /\ UNCHANGED <<env, fabric, commissioned, clock, nodes, names, tracked, mqtt>>
  BY DEF Dial, DialFails, ServerAnswers, CallFails, WsDrops, SessionEnds, Reconnect,
     SessionUnchanged, external
<1>2. /\ phase' = "serving" => phase = "serving" /\ UNCHANGED <<retained, matterConnected, events>>
      /\ phase = "serving" => events' = events
      /\ phase' = "answered" => \/ phase = "answered" /\ UNCHANGED <<dump, events>> /\ (alive' => alive)
                                \/ phase = "calling" /\ dump' = fabric /\ UNCHANGED events
      /\ phase' = "serving" => (alive' => alive)
  BY DEF Dial, DialFails, ServerAnswers, CallFails, WsDrops, SessionEnds, Reconnect, broker
<1>3. HistoryTypeOK /\ clock \in Nat /\ events \in Seq(Event) /\ since \in Nat
  BY BridgeAssumption DEF MirrorInv, Recorded, HistoryTypeOK, SafeInv, TypeOK, WorldTypeOK, SessionTypeOK
<1>4. /\ shown' = shown /\ ahead' = ahead /\ since' = IF phase # "answered" THEN 0 ELSE since
  <2>1. ~ (phase = "answered" /\ phase' = "serving")
    BY <1>2
  <2>2. ~ (phase = "serving" /\ Len(events') < Len(events))
    BY <1>2, <1>3
  <2>3. since + (clock' - clock) = since
    BY <1>1, <1>3
  <2> QED
    BY <1>1, <2>1, <2>2, <2>3 DEF HistoryNext
<1>5. \A k : At(k)' = At(k)
  BY <1>4 DEF At
<1>6. HistoryTypeOK'
  BY <1>3, <1>4 DEF HistoryTypeOK
<1>7. PICK n \in Nat : n = Len(ahead)
  BY <1>3 DEF HistoryTypeOK
<1>8. At(n) = fabric
  BY <1>7 DEF MirrorInv, Recorded
<1>9. ASSUME phase' = "answered"
      PROVE  At(Behind)' = dump' /\ Told'
  <2>1. CASE phase = "answered" /\ UNCHANGED <<dump, events>> /\ (alive' => alive)
    <3>1. Behind' = Behind
      BY <1>4, <1>9, <2>1 DEF Behind
    <3>2. PICK b : b = Behind
      OBVIOUS
    <3>3. At(b) = dump /\ Told
      BY <2>1, <3>2 DEF MirrorInv, Recorded
    <3>4. At(b)' = dump'
      BY <1>5, <2>1, <3>3
    <3>5. Told'
      <4>1. /\ b + Len(events) <= Len(ahead)
            /\ alive => b + Len(events) = Len(ahead)
            /\ \A i \in 1 .. Len(events) : Leads(At(b + i - 1), events[i], At(b + i))
        BY <3>2, <3>3 DEF Told
      <4>2. \A i \in 1 .. Len(events) : Leads(At(b + i - 1)', events[i], At(b + i)')
        BY <1>5, <4>1
      <4> QED
        BY <1>4, <2>1, <3>1, <3>2, <4>1, <4>2 DEF Told
    <3> QED
      BY <3>1, <3>2, <3>4, <3>5 DEF At
  <2>2. CASE phase = "calling" /\ dump' = fabric /\ UNCHANGED events
    <3>1. events' = <<>> /\ Len(events') = 0
      BY <2>2, EmptyType DEF OwnerInv, Agrees
    <3>2. since' = 0 /\ Behind' = n
      BY <1>4, <1>7, <1>9, <2>2 DEF Behind
    <3>3. At(n)' = dump'
      BY <1>5, <1>8, <2>2
    <3> QED
      BY <1>4, <1>7, <3>1, <3>2, <3>3 DEF At, Told
  <2> QED
    BY <1>2, <1>9, <2>1, <2>2
<1>10. ASSUME phase' = "serving"
       PROVE  shown' # Absent /\ Told'
  <2>1. phase = "serving" /\ UNCHANGED events /\ (alive' => alive)
    BY <1>2, <1>10
  <2>2. Told /\ shown # Absent
    BY <2>1 DEF MirrorInv, Recorded
  <2>3. Behind' = 0 /\ Behind = 0
    BY <1>10, <2>1 DEF Behind
  <2>4. /\ 0 + Len(events) <= Len(ahead)
        /\ alive => 0 + Len(events) = Len(ahead)
        /\ \A i \in 1 .. Len(events) : Leads(At(0 + i - 1), events[i], At(0 + i))
    BY <2>2, <2>3 DEF Told
  <2>5. \A i \in 1 .. Len(events) : Leads(At(0 + i - 1)', events[i], At(0 + i)')
    BY <1>5, <2>4
  <2> QED
    BY <1>4, <2>1, <2>2, <2>3, <2>4, <2>5 DEF Told
<1>11. Recorded'
  <2>1. At(Len(ahead))' = fabric'
    <3>1. At(Len(ahead))' = At(n)'
      BY <1>4, <1>7 DEF At
    <3> QED
      BY <1>1, <1>5, <1>8, <3>1
  <2>2. IF shown' = Absent THEN Fresh' ELSE nodes' = shown'
    BY <1>1, <1>4 DEF MirrorInv, Recorded, Fresh
  <2> QED
    BY <1>6, <1>9, <1>10, <2>1, <2>2 DEF Recorded
<1>12. Given'
  BY <1>1 DEF MirrorInv, Given
<1>13. mqtt
  BY DEF OwnerInv
<1>14. CASE Reconnect
  <2>1. Exact' /\ Marked'
    BY <1>13, <1>14, DarkMirror DEF MirrorInv
  <2>2. phase' # "serving"
    BY <1>14 DEF Reconnect
  <2> QED
    BY <1>4, <1>11, <1>12, <1>14, <2>1, <2>2 DEF MirrorInv
<1>15. CASE ~ Reconnect
  <2>1. UNCHANGED <<retained, matterConnected>>
    BY <1>15 DEF Dial, DialFails, ServerAnswers, CallFails, WsDrops, SessionEnds, broker
  <2>2. Still
    BY <1>1, <2>1 DEF Still
  <2>3. Exact' /\ Marked' /\ (Lit => Lit')
    BY <2>2, StillTree DEF MirrorInv
  <2> QED
    BY <1>2, <1>4, <1>11, <1>12, <2>1, <2>2, <2>3 DEF MirrorInv
<1> QED
  BY <1>14, <1>15

\* A tree that is exact and legible is the tree of the cache.
LEMMA ShowsCache ==
  ASSUME NoSuffixClash, SafeInv, Exact, Lit
  PROVE  Readable(retained) = TreeOfFabric(nodes)
<1>1. nodes \in Nodes /\ names = NamesOf(LabelsOf(nodes))
  BY DEF SafeInv, TypeOK, CacheTypeOK, NamesInSync
<1>2. \A id \in NodeIds : nodes[id] # Absent => \A t \in NodeTopics(id, nodes[id], names[id]) :
        Seen(retained[t], t[3]) = Seen(Payload(nodes[id], names[id], t[3]), t[3])
  BY DEF Lit, Legible, Own
<1>3. \A t \in Topic : retained[t] # Empty =>
        \E id \in NodeIds : nodes[id] # Absent /\ t \in NodeTopics(id, nodes[id], names[id])
  BY DEF Exact, Own
<1> QED
  BY <1>1, <1>2, <1>3, TreeShows

\* An availability is "online" or "offline".
LEMMA LitMarks ==
  ASSUME Lit'
  PROVE  Marked'
<1> SUFFICES ASSUME NEW id \in NodeIds, nodes'[id] # Absent
             PROVE  retained'[<<"node", id, "availability">>] # Empty
  BY DEF Marked
<1>1. PICK t : t = <<"node", id, "availability">>
  OBVIOUS
<1>2. t \in Own(id)' /\ t[3] = "availability"
  BY <1>1 DEF Own, NodeTopics
<1>3. Seen(retained'[t], "availability") = Seen(Payload(nodes'[id], names'[id], "availability"), "availability")
  BY <1>2 DEF Lit, Legible
<1>4. retained'[t] = Payload(nodes'[id], names'[id], "availability")
  BY <1>3 DEF Seen
<1> QED
  BY <1>1, <1>4, BridgeAssumption DEF Payload

\* A handler shows the state that the dump or the event comes from.
LEMMA HandlersMirror ==
  ASSUME NoSuffixClash, SafeInv, SafeInv', Placid, OwnerInv, MirrorInv, Handler, HistoryNext
  PROVE  /\ MirrorInv' /\ phase' = "serving" /\ (~ Dump => Sound(nodes, Head(events)))
         /\ \E k \in 0 .. Len(ahead) :
              /\ k > 0 \/ shown # Absent
              /\ shown' = IF k = 0 THEN shown ELSE ahead[k]
              /\ ahead' = SubSeq(ahead, k + 1, Len(ahead))
<1>1. mqtt /\ Agrees /\ Exact /\ Recorded /\ HistoryTypeOK
  BY DEF OwnerInv, MirrorInv, Recorded
<1>2. UNCHANGED <<clock, fabric, commissioned, alive>> /\ phase' = "serving"
  BY DEF Handler, Dump, HandleAttribute, HandleNode, HandleRemoved, Receive, SessionUnchanged, external
<1>3. ahead \in Seq(Nodes) /\ Len(ahead) \in Nat /\ since \in 0 .. Len(ahead)
      /\ events \in Seq(Event) /\ Len(events) \in Nat
  BY <1>1 DEF HistoryTypeOK, SafeInv, TypeOK, SessionTypeOK
<1>4. phase \in {"answered", "serving"} /\ Told
  <2>1. phase \in {"answered", "serving"}
    BY DEF Handler, Dump, HandleAttribute, HandleNode, HandleRemoved, Receive
  <2> QED
    BY <1>1, <2>1 DEF Recorded
<1>5. PICK b \in Nat, n \in Nat : n = Len(ahead) /\ b = IF Dump THEN Behind ELSE 1
  <2>1. Behind \in Nat
    BY <1>3 DEF Behind
  <2> QED
    BY <1>3, <2>1
<1>6. /\ b <= n /\ At(b) = nodes'
      /\ Dump => b = Behind /\ phase = "answered" /\ nodes' = dump /\ events' = events
      /\ ~ Dump => /\ phase = "serving" /\ Behind = 0 /\ events' = Tail(events) /\ events # <<>>
                   /\ Len(events) > 0 /\ Sound(nodes, Head(events))
  <2>1. CASE Dump
    <3>1. phase = "answered" /\ nodes' = dump /\ events' = events
      BY <2>1 DEF Dump
    <3>2. b = Behind /\ b <= n
      BY <1>3, <1>5, <2>1 DEF Behind
    <3>3. At(b) = dump
      BY <1>1, <3>1, <3>2 DEF Recorded
    <3> QED
      BY <2>1, <3>1, <3>2, <3>3
  <2>2. CASE ~ Dump
    <3>1. /\ nodes' = Applied(nodes, Head(events)) /\ events # <<>> /\ events' = Tail(events)
          /\ phase = "serving"
      BY <2>2, HandlersApply
    <3>2. Len(events) > 0 /\ Head(events) = events[1] /\ Behind = 0
      BY <1>3, <3>1 DEF Behind
    <3>3. Leads(At(0 + 1 - 1), events[1], At(0 + 1)) /\ 0 + Len(events) <= Len(ahead)
      <4>1. \A i \in 1 .. Len(events) : Leads(At(0 + i - 1), events[i], At(0 + i))
        BY <1>4, <3>2 DEF Told
      <4>2. 1 \in 1 .. Len(events)
        BY <1>3, <3>2
      <4> QED
        BY <1>4, <3>2, <4>1, <4>2 DEF Told
    <3>4. At(0) = nodes
      BY <1>1, <3>1 DEF Recorded, At
    <3>5. At(1) = nodes' /\ Sound(nodes, Head(events))
      BY <3>1, <3>2, <3>3, <3>4 DEF Leads
    <3>6. b = 1 /\ b <= n
      BY <1>3, <1>5, <2>2, <3>2, <3>3
    <3> QED
      BY <2>2, <3>1, <3>2, <3>5, <3>6
  <2> QED
    BY <2>1, <2>2
<1>7. nodes' \in Nodes /\ nodes' # Absent
  BY NodeAssumption DEF SafeInv, TypeOK, CacheTypeOK
<1>8. shown' = nodes' /\ ahead' = SubSeq(ahead, b + 1, n) /\ since' \in Nat
      /\ (~ Dump => since' = 0) /\ (Dump => since' = since)
  <2>1. clock' - clock = 0
    BY <1>2, BridgeAssumption DEF SafeInv, TypeOK, WorldTypeOK
  <2>2. CASE Dump
    <3>1. shown' = dump /\ ahead' = SubSeq(ahead, Len(ahead) - since + 1, Len(ahead))
          /\ since' = since + 0
      BY <1>2, <1>6, <2>1, <2>2 DEF HistoryNext
    <3>2. Len(ahead) - since = b
      BY <1>6, <2>2 DEF Behind
    <3>3. shown' = nodes'
      BY <1>6, <2>2, <3>1
    <3>4. ahead' = SubSeq(ahead, b + 1, n)
      BY <1>5, <3>1, <3>2
    <3>5. since' = since /\ since \in Nat
      BY <1>3, <3>1
    <3> QED
      BY <2>2, <3>3, <3>4, <3>5
  <2>3. CASE ~ Dump
    <3>1. Len(events') < Len(events)
      BY <1>3, <1>6, <2>3
    <3>2. shown' = Head(ahead) /\ ahead' = Tail(ahead) /\ since' = 0
      BY <1>6, <2>3, <3>1 DEF HistoryNext
    <3>3. b = 1 /\ n > 0
      BY <1>5, <1>6, <2>3
    <3>4. Head(ahead) = ahead[1] /\ Tail(ahead) = SubSeq(ahead, 2, n)
      BY <1>3, <1>5, <3>3
    <3> QED
      BY <1>6, <2>3, <3>2, <3>3, <3>4 DEF At
  <2> QED
    BY <2>2, <2>3
<1>9. /\ ahead' \in Seq(Nodes) /\ Len(ahead') = n - b
      /\ \A k \in 0 .. n - b : At(k)' = At(b + k)
  <2>1. ahead' \in Seq(Nodes) /\ Len(ahead') = n - b
        /\ \A k \in 1 .. n - b : ahead'[k] = ahead[b + k]
    <3>1. b + 1 \in 1 .. Len(ahead) + 1 /\ n \in b + 1 - 1 .. Len(ahead)
      BY <1>5, <1>6
    <3>2. /\ Len(SubSeq(ahead, b + 1, n)) = n - b /\ SubSeq(ahead, b + 1, n) \in Seq(Nodes)
          /\ \A k \in 1 .. n - b : SubSeq(ahead, b + 1, n)[k] = ahead[b + k]
      <4>1. PICK c \in Nat : c = b + 1
        BY <1>5
      <4>2. c - 1 = b /\ n - c + 1 = n - b /\ \A k \in 1 .. n - b : c + k - 1 = b + k
        BY <1>5, <4>1
      <4> QED
        BY <1>3, <3>1, <4>1, <4>2, SubSeqProperties
    <3> QED
      BY <1>8, <3>2
  <2>2. At(0)' = At(b)
    BY <1>6, <1>8 DEF At
  <2>3. \A k \in 1 .. n - b : At(k)' = At(b + k)
    BY <1>5, <2>1 DEF At
  <2>4. ASSUME NEW k \in 0 .. n - b
        PROVE  At(k)' = At(b + k)
    <3>1. CASE k = 0
      <4>1. b + k = b
        BY <1>5, <3>1
      <4> QED
        BY <2>2, <3>1, <4>1
    <3>2. CASE k # 0
      <4>1. k \in 1 .. n - b
        BY <1>5, <2>4, <3>2
      <4> QED
        BY <2>3, <4>1
    <3> QED
      BY <3>1, <3>2
  <2> QED
    BY <2>1, <2>4
<1>10. HistoryTypeOK'
  <2>1. since' \in 0 .. n - b
    <3>1. Dump => n - b = since
      BY <1>3, <1>5, <1>6 DEF Behind
    <3> QED
      BY <1>3, <1>5, <1>6, <1>8, <3>1
  <2> QED
    BY <1>7, <1>8, <1>9, <2>1 DEF HistoryTypeOK
<1>11. At(Len(ahead))' = fabric'
  <2>1. At(Len(ahead))' = At(n - b)'
    BY <1>9 DEF At
  <2>2. At(n - b)' = At(n)
    BY <1>5, <1>6, <1>9
  <2>3. At(n) = fabric
    BY <1>1, <1>5 DEF Recorded
  <2> QED
    BY <1>2, <2>1, <2>2, <2>3
<1>12. Behind' = 0
  BY <1>2 DEF Behind
<1>13. Told'
  <2>1. PICK f : f = Behind
    OBVIOUS
  <2>2. /\ f + Len(events) <= n
        /\ alive => f + Len(events) = n
        /\ \A i \in 1 .. Len(events) : Leads(At(f + i - 1), events[i], At(f + i))
    BY <1>4, <1>5, <2>1 DEF Told
  <2>3. PICK q \in Nat : q = Len(events')
    BY <1>3, <1>6
  <2>4. /\ 0 + q <= n - b
        /\ alive => 0 + q = n - b
        /\ \A i \in 1 .. q : Leads(At(b + i - 1), events'[i], At(b + i))
    <3>1. CASE Dump
      BY <1>3, <1>5, <1>6, <2>1, <2>2, <2>3, <3>1
    <3>2. CASE ~ Dump
      <4>1. b = 1 /\ f = 0 /\ q = Len(events) - 1
            /\ \A i \in 1 .. q : events'[i] = events[i + 1]
        <5>1. b = 1 /\ f = 0 /\ events' = Tail(events) /\ Len(events) > 0
          BY <1>5, <1>6, <2>1, <3>2
        <5>2. /\ Len(Tail(events)) = Len(events) - 1
              /\ \A i \in 1 .. Len(events) - 1 : Tail(events)[i] = events[i + 1]
          BY <1>3, <5>1
        <5> QED
          BY <2>3, <5>1, <5>2
      <4>2. 0 + q <= n - b /\ (alive => 0 + q = n - b)
        BY <1>3, <1>5, <2>2, <4>1
      <4>3. ASSUME NEW i \in 1 .. q
            PROVE  Leads(At(b + i - 1), events'[i], At(b + i))
        <5>1. i + 1 \in 1 .. Len(events) /\ f + (i + 1) - 1 = b + i - 1 /\ f + (i + 1) = b + i
          BY <1>3, <4>1, <4>3
        <5>2. Leads(At(f + (i + 1) - 1), events[i + 1], At(f + (i + 1)))
          BY <2>2, <5>1
        <5> QED
          BY <4>1, <4>3, <5>1, <5>2
      <4> QED
        BY <4>2, <4>3
    <3> QED
      BY <3>1, <3>2
  <2>5. ASSUME NEW i \in 1 .. q
        PROVE  Leads(At(0 + i - 1)', events'[i], At(0 + i)')
    <3>1. 0 + i - 1 \in 0 .. n - b /\ 0 + i \in 0 .. n - b
          /\ b + (0 + i - 1) = b + i - 1 /\ b + (0 + i) = b + i
      BY <1>5, <1>6, <2>3, <2>4, <2>5
    <3>2. At(0 + i - 1)' = At(b + i - 1) /\ At(0 + i)' = At(b + i)
      BY <1>9, <3>1
    <3> QED
      BY <2>4, <2>5, <3>2
  <2> QED
    BY <1>2, <1>9, <1>12, <2>3, <2>4, <2>5 DEF Told
<1>14. Recorded'
  BY <1>2, <1>7, <1>8, <1>10, <1>11, <1>13 DEF Recorded
<1>15. Exact' /\ Lit'
  <2>1. Dump => Fresh \/ SameLabels(dump, nodes)
    BY <1>1, <1>6 DEF Agrees, SameLabels
  <2>2. ~ Dump => Sound(nodes, Head(events)) /\ Lit
    BY <1>6 DEF MirrorInv
  <2> QED
    BY <1>1, <2>1, <2>2, HandlersExact
<1>16. Marked'
  BY <1>15, LitMarks
<1>17. matterConnected' = "true"
  BY <1>1, <1>6 DEF MirrorInv, Handler, Dump, HandleAttribute, HandleNode, HandleRemoved, Receive
<1>18. MirrorInv'
  BY <1>2, <1>14, <1>15, <1>16, <1>17 DEF MirrorInv, Given
<1>19. \E k \in 0 .. Len(ahead) :
         /\ k > 0 \/ shown # Absent
         /\ shown' = IF k = 0 THEN shown ELSE ahead[k]
         /\ ahead' = SubSeq(ahead, k + 1, Len(ahead))
  <2>1. b > 0 \/ shown # Absent
    BY <1>6, <1>7 DEF At
  <2>2. shown' = IF b = 0 THEN shown ELSE ahead[b]
    BY <1>6, <1>8 DEF At
  <2>3. b \in 0 .. Len(ahead) /\ ahead' = SubSeq(ahead, b + 1, Len(ahead))
    BY <1>5, <1>6, <1>8
  <2> QED
    BY <1>5, <2>1, <2>2, <2>3
<1> QED
  BY <1>2, <1>6, <1>18, <1>19

-----------------------------------------------------------------------------
(* The publications of a handler one by one.  What it clears, nobody gets. *)

\* An event about one node moves no key from one node to another.
LEMMA NoKeyMoves ==
  ASSUME NoSuffixClash, NEW old \in [NodeIds -> Labels], NEW new \in [NodeIds -> Labels],
         NEW e, \A id \in NodeIds : id # e => new[id] = old[id],
         NEW i \in NodeIds, NEW j \in NodeIds,
         NamesOf(old)[i] # Empty, NamesOf(new)[j] = NamesOf(old)[i]
  PROVE  i = j
<1> SUFFICES ASSUME i # j PROVE FALSE
  OBVIOUS
<1>1. PICK b, c, k : /\ b = Base(old)[i] /\ c = Base(new)[j] /\ k = NamesOf(old)[i]
  OBVIOUS
<1>2. /\ k = IF i \in Collisions(old) THEN Suffixed(b, i) ELSE b
      /\ k = IF j \in Collisions(new) THEN Suffixed(c, j) ELSE c
  BY <1>1 DEF NamesOf
<1>3. b # Empty /\ c # Empty
  <2>1. i \in Collisions(old) => b # Empty
    BY <1>1 DEF Collisions, SameName
  <2>2. j \in Collisions(new) => c # Empty
    BY <1>1 DEF Collisions, SameName
  <2> QED
    BY <1>1, <1>2, <2>1, <2>2
<1>4. b \in Names /\ c \in Names /\ b = Segment[old[i]] /\ c = Segment[new[j]]
      /\ old[i] \in Labels /\ new[j] \in Labels
  BY <1>1, <1>3, BaseType
<1>5. CASE i \in Collisions(old) /\ j \in Collisions(new)
  BY <1>2, <1>4, <1>5, SuffixesDistinct
<1>6. CASE i \in Collisions(old) /\ j \notin Collisions(new)
  <2>1. Fold(c) = Fold(Suffixed(b, i))
    BY <1>2, <1>6
  <2> QED
    BY <1>3, <1>4, <2>1 DEF NoSuffixClash
<1>7. CASE i \notin Collisions(old) /\ j \in Collisions(new)
  <2>1. Fold(b) = Fold(Suffixed(c, j))
    BY <1>2, <1>7
  <2> QED
    BY <1>3, <1>4, <2>1 DEF NoSuffixClash
<1>8. CASE i \notin Collisions(old) /\ j \notin Collisions(new)
  <2>1. b = c
    BY <1>2, <1>8
  <2>2. CASE i # e
    <3>1. Base(new)[i] = b
      BY <1>4, <2>2, BaseType
    <3>2. SameName(Base(new)[j], Base(new)[i])
      BY <1>1, <1>3, <2>1, <3>1 DEF SameName
    <3> QED
      BY <1>8, <3>2 DEF Collisions
  <2>3. CASE i = e
    <3>1. Base(old)[j] = c
      BY <1>4, <2>3, BaseType
    <3>2. SameName(Base(old)[i], Base(old)[j])
      BY <1>1, <1>3, <2>1, <3>1 DEF SameName
    <3> QED
      BY <1>8, <3>2 DEF Collisions
  <2> QED
    BY <2>2, <2>3
<1> QED
  BY <1>5, <1>6, <1>7, <1>8

\* An event changes the label of one node at most.
LEMMA OneLabel ==
  ASSUME NEW ns \in Nodes, NEW ev \in Event, NEW id \in NodeIds, id # ev.id
  PROVE  LabelsOf(Applied(ns, ev))[id] = LabelsOf(ns)[id]
<1>1. Applied(ns, ev)[id] = ns[id]
  BY DEF Applied, Nodes, Event
<1> QED
  BY <1>1 DEF LabelsOf

\* An alias among a node's own topics is under its key.
LEMMA OwnAlias ==
  ASSUME NEW id, NEW n, NEW key, NEW t \in NodeTopics(id, n, key), t \in NamedTopic
  PROVE  key # Empty /\ t[2] = key
<1>1. t \notin {<<"node", id, leaf>> : leaf \in {"availability", "name", "descriptor"}}
  BY DEF NamedTopic
<1>2. PICK leaf : t \in Retained(id, key, leaf)
  BY <1>1 DEF NodeTopics
<1> QED
  BY <1>2, AliasOf

\* A topic that a handler of an event clears for one node is not given to another.
LEMMA NoHandOver ==
  ASSUME NoSuffixClash, SafeInv, SafeInv', Handler, ~ Dump, Exact,
         NEW i \in NodeIds, NEW t \in tracked[i],
         nodes'[i] = Absent \/ (t \in NamedTopic /\ names'[i] # names[i]),
         NEW j \in NodeIds, t \in Own(j)'
  PROVE  FALSE
<1>1. nodes[i] # Absent /\ t \in NodeTopics(i, nodes[i], names[i])
  BY DEF Exact, Own
<1>2. nodes'[j] # Absent /\ t \in NodeTopics(j, nodes'[j], names'[j])
  BY DEF Own
<1>3. CASE t \in NamedTopic
  <2>1. names[i] # Empty /\ names'[j] = names[i]
    BY <1>1, <1>2, <1>3, OwnAlias
  <2>2. PICK old, new : old = LabelsOf(nodes) /\ new = LabelsOf(nodes')
    OBVIOUS
  <2>3. /\ old \in [NodeIds -> Labels] /\ new \in [NodeIds -> Labels]
        /\ names = NamesOf(old) /\ names' = NamesOf(new)
    BY <2>2, LabelsOfType DEF SafeInv, TypeOK, CacheTypeOK, NamesInSync
  <2>4. PICK e : \A id \in NodeIds : id # e => new[id] = old[id]
    <3>1. PICK ev \in Event : nodes' = Applied(nodes, ev)
      BY HandlersApply
    <3>2. \A id \in NodeIds : id # ev.id => LabelsOf(Applied(nodes, ev))[id] = LabelsOf(nodes)[id]
      BY OneLabel DEF SafeInv, TypeOK, CacheTypeOK
    <3> QED
      BY <2>2, <3>1, <3>2
  <2>5. i = j
    BY <2>1, <2>3, <2>4, NoKeyMoves
  <2> QED
    BY <1>2, <2>1, <2>5
<1>4. CASE t \notin NamedTopic
  <2>1. /\ nodes[i] \in Node /\ nodes'[j] \in Node
        /\ names[i] \in Keys \cup {Empty} /\ names'[j] \in Keys \cup {Empty}
    BY <1>1, <1>2 DEF SafeInv, TypeOK, CacheTypeOK, Nodes
  <2>2. TopicOf(t, i) /\ TopicOf(t, j)
    BY <1>1, <1>2, <2>1, NodeTopicsOwned
  <2> QED
    BY <1>2, <1>4, <2>2 DEF TopicOf
<1> QED
  BY <1>3, <1>4

\* How a handler of the session starts: what it is about to publish and to clear is
\* what it does to the tree.
Starting == DumpStarts \/ AttributeStarts \/ NodeStarts \/ RemovedStarts

DueFields == {"cleared", "renewed", "own", "word"}

Begun(gone) ==
  /\ Publish(gone, due'.renewed \cup due'.own)
  /\ due'.cleared = UNION {gone[id] : id \in NodeIds}
  /\ \A p \in due'.renewed \cup due'.own :
       OfCache(p, nodes', names') \/ (HandleAttribute /\ OfEvent(p, Head(events), names'))
  /\ \A id \in NodeIds : \A t \in gone[id] :
       /\ t \in tracked[id] /\ ~ Dump
       /\ nodes'[id] = Absent \/ (t \in NamedTopic /\ names'[id] # names[id])
  /\ DOMAIN due' = DueFields
  /\ IF Dump THEN due'.word = "true" /\ due'.cleared = {} /\ due'.renewed = {}
             ELSE due'.word = "none"

\* refreshNames clears the old aliases and renews the nodes that are named anew.
LEMMA RefreshBegins ==
  ASSUME NEW wiped, NEW pub, RefreshNames(nodes', wiped, pub), ~ Dump, NEW all,
         all = UNION {wiped[id] : id \in NodeIds}, due' = RefreshDue(all, pub),
         \A p \in pub :
           OfCache(p, nodes', names') \/ (HandleAttribute /\ OfEvent(p, Head(events), names')),
         \A id \in NodeIds : \A t \in wiped[id] : t \in tracked[id] /\ nodes'[id] = Absent
  PROVE  \E gone : Begun(gone)
<1> DEFINE aliases == OldAliases(names')
           gone == [id \in NodeIds |-> wiped[id] \cup aliases[id]]
           sent == Renewed(nodes', names')
<1>1. names' = NamesOf(LabelsOf(nodes')) /\ Publish(gone, pub \cup sent)
  BY DEF RefreshNames
<1>2. /\ due'.cleared = all \cup UNION {aliases[id] : id \in NodeIds}
      /\ due'.renewed = sent /\ due'.own = pub /\ due'.word = "none"
      /\ DOMAIN due' = DueFields
  BY DEF RefreshDue, NothingDue, DueFields
<1>3. UNION {gone[id] : id \in NodeIds} = all \cup UNION {aliases[id] : id \in NodeIds}
  OBVIOUS
<1>4. \A p \in sent : OfCache(p, nodes', names')
  BY DEF Renewed, OfCache, Changed
<1>5. ASSUME NEW id \in NodeIds, NEW t \in gone[id]
      PROVE  t \in tracked[id] /\ (nodes'[id] = Absent \/ (t \in NamedTopic /\ names'[id] # names[id]))
  <2>1. CASE t \in wiped[id]
    BY <2>1
  <2>2. CASE t \in aliases[id]
    BY <2>2 DEF OldAliases, Changed
  <2> QED
    BY <1>5, <2>1, <2>2
<1> HIDE DEF gone, sent, aliases
<1>6. due'.renewed \cup due'.own = pub \cup sent
  BY <1>2
<1>7. Begun(gone)
  BY <1>1, <1>2, <1>3, <1>4, <1>5, <1>6 DEF Begun
<1> QED
  BY <1>7

LEMMA HandlersBegin ==
  ASSUME SafeInv, SafeInv', Starting
  PROVE  \E gone : Begun(gone)
<1>1. CASE DumpStarts
  <2>1. /\ Dump /\ phase = "answered" /\ due' = DumpDue /\ nodes' = dump
        /\ Publish(NoTopics, UNION {PublishNode(id, dump[id], names'[id]) : id \in Dumped(names')})
    BY <1>1 DEF DumpStarts, Dump
  <2>2. PICK sent : sent = UNION {PublishNode(id, dump[id], names'[id]) : id \in Dumped(names')}
    OBVIOUS
  <2>3. /\ due'.own = sent /\ due'.renewed = {} /\ due'.cleared = {} /\ due'.word = "true"
        /\ DOMAIN due' = DueFields
    BY <2>1, <2>2 DEF DumpDue, NothingDue, DueFields
  <2>4. \A p \in sent : OfCache(p, nodes', names')
    BY <2>1, <2>2 DEF Dumped, OfCache
  <2>5. UNION {NoTopics[id] : id \in NodeIds} = {} /\ \A id \in NodeIds : NoTopics[id] = {}
    BY DEF NoTopics
  <2>6. due'.renewed \cup due'.own = sent
    BY <2>3
  <2>7. Begun(NoTopics)
    BY <2>1, <2>2, <2>3, <2>4, <2>5, <2>6 DEF Begun
  <2> QED
    BY <2>7
<1>2. CASE AttributeStarts
  <2> DEFINE ev == Head(events)
             pub == PublishAttribute(ev.id, names'[ev.id], ev.leaf, ev.val)
  <2>1. HandleAttribute /\ due' = RefreshDue({}, pub)
    BY <1>2 DEF AttributeStarts
  <2>2. ev \in Event /\ ev.type = "attribute" /\ ~ Dump
    BY <2>1, ReceiveType DEF HandleAttribute, Receive, Dump
  <2>3. \A p \in pub : OfEvent(p, ev, names')
    BY <2>2 DEF OfEvent
  <2>4. UNION {NoTopics[id] : id \in NodeIds} = {} /\ \A id \in NodeIds : NoTopics[id] = {}
    BY DEF NoTopics
  <2>5. RefreshNames(nodes', NoTopics, pub)
    <3>1. CASE ev.leaf = "label"
      <4>1. RefreshNames(nodes', NoTopics,
              PublishAttribute(ev.id, NamesOf(LabelsOf(nodes'))[ev.id], ev.leaf, ev.val))
        BY <2>1, <3>1 DEF HandleAttribute
      <4>2. names' = NamesOf(LabelsOf(nodes'))
        BY <4>1 DEF RefreshNames
      <4> QED
        BY <4>1, <4>2
    <3>2. CASE ev.leaf # "label"
      <4>1. Publish(NoTopics, pub) /\ names' = names /\ names' = NamesOf(LabelsOf(nodes'))
        BY <2>1, <3>2 DEF HandleAttribute, SafeInv, NamesInSync
      <4>2. Changed(names, names') = {}
        BY <4>1 DEF Changed
      <4>3. Renewed(nodes', names') = {} /\ \A id \in NodeIds : OldAliases(names')[id] = {}
        BY <4>2 DEF Renewed, OldAliases
      <4>4. [id \in NodeIds |-> NoTopics[id] \cup OldAliases(names')[id]] = NoTopics
        BY <4>3 DEF NoTopics
      <4> HIDE DEF pub
      <4>5. pub \cup Renewed(nodes', names') = pub
        BY <4>3
      <4> QED
        BY <4>1, <4>4, <4>5 DEF RefreshNames
    <3> QED
      BY <3>1, <3>2
  <2>6. \A p \in pub :
          OfCache(p, nodes', names') \/ (HandleAttribute /\ OfEvent(p, Head(events), names'))
    BY <2>1, <2>3
  <2> HIDE DEF ev, pub
  <2> QED
    BY <2>1, <2>2, <2>4, <2>5, <2>6, RefreshBegins
<1>3. CASE NodeStarts
  <2> DEFINE ev == Head(events)
             pub == PublishNode(ev.id, nodes'[ev.id], names'[ev.id])
  <2>1. HandleNode /\ due' = RefreshDue({}, pub) /\ ~ Dump
    BY <1>3 DEF NodeStarts, HandleNode, Receive, Dump
  <2>2. /\ nodes' = [nodes EXCEPT ![ev.id] = ev.node]
        /\ RefreshNames(nodes', NoTopics, PublishNode(ev.id, ev.node, NamesOf(LabelsOf(nodes'))[ev.id]))
    BY <2>1 DEF HandleNode, CacheNode
  <2>3. ev.id \in NodeIds /\ ev.node \in Node
    BY <2>1, ReceiveType, NodeEvent DEF HandleNode
  <2>4. nodes'[ev.id] = ev.node /\ ev.node # Absent
    BY <2>2, <2>3, NodeAssumption DEF SafeInv, TypeOK, CacheTypeOK, Nodes
  <2>5. names' = NamesOf(LabelsOf(nodes'))
    BY <2>2 DEF RefreshNames
  <2>6. RefreshNames(nodes', NoTopics, pub)
    BY <2>2, <2>4, <2>5
  <2>7. \A p \in pub : OfCache(p, nodes', names')
    BY <2>3, <2>4 DEF OfCache
  <2>8. UNION {NoTopics[id] : id \in NodeIds} = {} /\ \A id \in NodeIds : NoTopics[id] = {}
    BY DEF NoTopics
  <2> HIDE DEF ev, pub
  <2> QED
    BY <2>1, <2>6, <2>7, <2>8, RefreshBegins
<1>4. CASE RemovedStarts
  <2> DEFINE x == Head(events).id
             wiped == [NoTopics EXCEPT ![x] = tracked[x]]
  <2>1. HandleRemoved /\ due' = RefreshDue(tracked[x], {}) /\ ~ Dump
    BY <1>4 DEF RemovedStarts, HandleRemoved, Receive, Dump
  <2>2. nodes' = [nodes EXCEPT ![x] = Absent] /\ RefreshNames(nodes', wiped, {})
    BY <2>1 DEF HandleRemoved
  <2>3. x \in NodeIds
    BY <2>1, ReceiveType, RemovedEvent DEF HandleRemoved
  <2>4. nodes'[x] = Absent
    BY <2>2, <2>3 DEF SafeInv, TypeOK, CacheTypeOK, Nodes
  <2>5. \A id \in NodeIds : wiped[id] = IF id = x THEN tracked[x] ELSE {}
    BY <2>3 DEF NoTopics
  <2> HIDE DEF wiped, x
  <2>6. UNION {wiped[id] : id \in NodeIds} = tracked[x]
    BY <2>3, <2>5
  <2>7. \A id \in NodeIds : \A t \in wiped[id] : t \in tracked[id] /\ nodes'[id] = Absent
    BY <2>4, <2>5
  <2>8. PICK pub, all, cleared : pub = {} /\ all = tracked[x] /\ cleared = wiped
    OBVIOUS
  <2>9. RefreshNames(nodes', cleared, pub) /\ due' = RefreshDue(all, pub)
    BY <2>1, <2>2, <2>8
  <2>10. all = UNION {cleared[id] : id \in NodeIds}
    BY <2>6, <2>8
  <2>11. \A p \in pub :
           OfCache(p, nodes', names') \/ (HandleAttribute /\ OfEvent(p, Head(events), names'))
    BY <2>8
  <2>12. \A id \in NodeIds : \A t \in cleared[id] : t \in tracked[id] /\ nodes'[id] = Absent
    BY <2>7, <2>8
  <2> QED
    BY <2>1, <2>9, <2>10, <2>11, <2>12, RefreshBegins
<1> QED
  BY <1>1, <1>2, <1>3, <1>4 DEF Starting

-----------------------------------------------------------------------------
(* What readers find while a handler publishes. *)

\* The topics that the broker is still to be told of.
Pending == due.cleared \cup {p[1] : p \in due.renewed \cup due.own}

\* A handler of the session tells the tree of the cache, old names first.
Telling ==
  /\ phase = "serving"
  /\ due.cleared \subseteq Topic /\ \A t \in due.cleared : retained[t] = Empty
  /\ \A p \in due.renewed \cup due.own : Says(p)
  /\ due.word \in {"none", "true"}
  /\ due.word = "true" => due.cleared = {} /\ due.renewed = {}

\* The nodes go offline after the word on the session.
Marking ==
  /\ due.cleared = {} /\ due.renewed = {} /\ due.word \in {"none", "false"}
  /\ matterConnected = "false"
  /\ \A p \in due.own : /\ \E id \in NodeIds : p = <<<<"node", id, "availability">>, id, "offline">>
                        /\ seen[p[1]] # Empty /\ retained[p[1]] = "offline"
  /\ \A id \in NodeIds : retained[<<"node", id, "availability">>] \in {Empty, "offline"}

\* What is not pending is seen as it is retained.
Caught(t) == Seen(seen[t], t[3]) = Seen(retained[t], t[3])

ReaderInv ==
  /\ DOMAIN due = DueFields /\ DOMAIN seen = Topic
  /\ doing \in {"waits", "tells", "marks"}
  /\ Waits => due = NothingDue
  /\ \A t \in Topic : t \in Pending \/ Caught(t)
  /\ IF due.word = "none" THEN heard = matterConnected ELSE due.word = matterConnected
  /\ doing = "tells" => Telling
  /\ doing = "marks" => Marking

LEMMA NothingPends ==
  /\ DOMAIN NothingDue = DueFields /\ NothingDue.word = "none"
  /\ due = NothingDue => Pending = {} /\ due.word = "none"
  BY DEF NothingDue, DueFields, Pending

\* Once nothing is pending the tree is that of the cache, which is the one shown.
LEMMA TellsCache ==
  ASSUME NoSuffixClash, SafeInv, MirrorInv, phase = "serving"
  PROVE  /\ Lit /\ matterConnected = "true" /\ shown = nodes
         /\ \A t \in Topic : TreeOfFabric(shown)[t] = Seen(retained[t], t[3])
         /\ Readable(retained) = TreeOfFabric(shown)
<1>1. Lit /\ matterConnected = "true" /\ shown = nodes /\ Exact
  BY DEF MirrorInv, Recorded
<1>2. Readable(retained) = TreeOfFabric(shown)
  BY <1>1, ShowsCache
<1>3. \A t \in Topic : Readable(retained)[t] = Seen(retained[t], t[3])
  BY DEF Readable
<1> QED
  BY <1>1, <1>2, <1>3

\* One topic changes, and readers find it changed.
LEMMA ReadsOne ==
  ASSUME DOMAIN seen = Topic, NEW t \in Topic, NEW v, seen' = [seen EXCEPT ![t] = v]
  PROVE  /\ Readable(seen)' = [Readable(seen) EXCEPT ![t] = Seen(v, t[3])]
         /\ DOMAIN seen' = Topic /\ seen'[t] = v
         /\ \A u \in Topic : u # t => seen'[u] = seen[u]
<1>1. \A u \in Topic : seen'[u] = IF u = t THEN v ELSE seen[u]
  OBVIOUS
<1>2. Readable(seen)' = [u \in Topic |-> Seen(seen'[u], u[3])]
  BY DEF Readable, Seen
<1>3. Readable(seen) = [u \in Topic |-> Seen(seen[u], u[3])]
  BY DEF Readable
<1>4. [Readable(seen) EXCEPT ![t] = Seen(v, t[3])]
        = [u \in Topic |-> IF u = t THEN Seen(v, t[3]) ELSE Seen(seen[u], u[3])]
  BY <1>3
<1>5. \A u \in Topic : Seen(seen'[u], u[3]) = IF u = t THEN Seen(v, t[3]) ELSE Seen(seen[u], u[3])
  BY <1>1
<1> QED
  BY <1>1, <1>2, <1>4, <1>5

\* Where nothing is pending readers find what is retained.
LEMMA ReadsAll ==
  ASSUME ReaderInv, Pending = {}
  PROVE  Readable(seen) = Readable(retained)
  BY DEF ReaderInv, Caught, Readable

\* Nothing of this is touched by what a publication leaves alone.
LEMMA QuietMirror ==
  ASSUME MirrorInv, UNCHANGED <<vars, history>>
  PROVE  MirrorInv' /\ Still /\ UNCHANGED <<phase, shown, ahead>>
<1>1. UNCHANGED <<env, fabric, commissioned, retained, matterConnected, mqtt, phase, alive, dump,
                  events, nodes, names, tracked, shown, ahead, since>>
  BY DEF vars, external, broker, session, history
<1>2. Still
  BY <1>1 DEF Still
<1>3. Exact' /\ Marked' /\ (Lit => Lit')
  BY <1>2, StillTree DEF MirrorInv
<1>4. Recorded'
  BY <1>1 DEF MirrorInv, Recorded, HistoryTypeOK, At, Fresh, Behind, Told
<1> QED
  BY <1>1, <1>2, <1>3, <1>4 DEF MirrorInv, Given

\* Nor is it by the fabric, which does not wait for readers.
LEMMA StillReaders ==
  ASSUME ReaderInv, Still, phase' = phase \/ Waits, UNCHANGED <<due, doing, seen, heard>>
  PROVE  ReaderInv' /\ Readable(seen)' = Readable(seen)
<1>1. UNCHANGED <<retained, matterConnected, nodes, names>>
  BY DEF Still
<1>2. \A id : Own(id)' = Own(id)
  BY <1>1 DEF Own
<1>3. doing = "tells" => Telling'
  <2> SUFFICES ASSUME doing = "tells" PROVE Telling'
    OBVIOUS
  <2>1. Telling /\ phase' = phase
    BY DEF ReaderInv, Waits
  <2> QED
    BY <1>1, <1>2, <2>1 DEF Telling, Says
<1>4. doing = "marks" => Marking'
  BY <1>1 DEF ReaderInv, Marking
<1>5. \A t \in Topic : t \in Pending' \/ Caught(t)'
  BY <1>1 DEF ReaderInv, Pending, Caught, Seen
<1>6. Readable(seen)' = Readable(seen)
  BY DEF Readable, Seen
<1> QED
  BY <1>1, <1>3, <1>4, <1>5, <1>6 DEF ReaderInv, Waits

-----------------------------------------------------------------------------
(* Every step of the readers' specification is one of Mirror, or none. *)

\* A handler of the session: another state of the fabric is begun.
LEMMA SessionBegins ==
  ASSUME NoSuffixClash, SafeInv, SafeInv', Placid, OwnerInv, MirrorInv, ReaderInv,
         Starting, HistoryNext
  PROVE  MirrorInv' /\ ReaderInv' /\ M!Begin
<1>1. Handler /\ Waits /\ doing' = "tells" /\ UNCHANGED <<seen, heard>>
  BY DEF Starting, DumpStarts, AttributeStarts, NodeStarts, RemovedStarts, Starts, readers, Handler
<1>2. /\ MirrorInv' /\ phase' = "serving" /\ (~ Dump => Sound(nodes, Head(events)))
      /\ \E k \in 0 .. Len(ahead) :
           /\ k > 0 \/ shown # Absent
           /\ shown' = IF k = 0 THEN shown ELSE ahead[k]
           /\ ahead' = SubSeq(ahead, k + 1, Len(ahead))
  BY <1>1, HandlersMirror
<1>3. PICK gone : Begun(gone)
  BY HandlersBegin
<1>4. PICK sent : sent = due'.renewed \cup due'.own
  OBVIOUS
<1>5. mqtt /\ Exact /\ Pending = {} /\ heard = matterConnected /\ DOMAIN seen = Topic
      /\ \A t \in Topic : Caught(t)
  BY <1>1, NothingPends DEF OwnerInv, MirrorInv, ReaderInv
<1>6. Send(gone, sent) /\ DOMAIN due' = DueFields
      /\ due'.cleared = UNION {gone[id] : id \in NodeIds}
  BY <1>3, <1>4 DEF Begun, Publish
<1>7. \A p \in sent : Says(p)'
  <2>1. HandleAttribute => ~ Dump
    BY DEF HandleAttribute, Receive, Dump
  <2> QED
    BY <1>2, <1>3, <1>4, <2>1, EventSays, CacheSays DEF Begun
<1>8. due'.cleared \subseteq Topic /\ \A t \in due'.cleared : retained'[t] = Empty
  <2> SUFFICES ASSUME NEW i \in NodeIds, NEW t \in gone[i]
               PROVE  t \in Topic /\ retained'[t] = Empty
    BY <1>6
  <2>1. /\ t \in tracked[i] /\ ~ Dump
        /\ nodes'[i] = Absent \/ (t \in NamedTopic /\ names'[i] # names[i])
    BY <1>3 DEF Begun
  <2>2. t \in Topic
    BY <2>1 DEF SafeInv, TypeOK, BrokerTypeOK
  <2>3. \A p \in sent : p[1] # t
    <3> SUFFICES ASSUME NEW p \in sent, p[1] = t PROVE FALSE
      OBVIOUS
    <3>1. PICK j \in NodeIds : t \in Own(j)'
      BY <1>7 DEF Says
    <3> QED
      BY <1>1, <1>5, <2>1, <3>1, NoHandOver
  <2> QED
    BY <1>5, <1>6, <2>2, <2>3, SendAt
<1>9. \A t \in Topic : t \in Pending' \/ Caught(t)'
  <2> SUFFICES ASSUME NEW t \in Topic, t \notin due'.cleared, \A p \in sent : p[1] # t
               PROVE  Caught(t)'
    BY <1>4 DEF Pending
  <2>1. retained'[t] = retained[t]
    BY <1>6, SendAt
  <2>2. Caught(t) /\ seen'[t] = seen[t]
    BY <1>1, <1>5
  <2> QED
    BY <2>1, <2>2 DEF Caught, Seen
<1>10. /\ due'.word \in {"none", "true"}
       /\ due'.word = "true" => due'.cleared = {} /\ due'.renewed = {}
       /\ IF due'.word = "none" THEN heard' = matterConnected' ELSE due'.word = matterConnected'
  <2>1. CASE Dump
    <3>1. matterConnected' = "true"
      BY <1>5, <2>1 DEF Dump
    <3> QED
      BY <1>3, <2>1, <3>1 DEF Begun
  <2>2. CASE ~ Dump
    <3>1. matterConnected' = matterConnected
      BY <1>1, <2>2 DEF Handler, HandleAttribute, HandleNode, HandleRemoved, Receive
    <3> QED
      BY <1>1, <1>3, <1>5, <2>2, <3>1 DEF Begun
  <2> QED
    BY <2>1, <2>2
<1>11. Telling'
  BY <1>2, <1>4, <1>7, <1>8, <1>10 DEF Telling
<1>12. ReaderInv'
  BY <1>1, <1>5, <1>6, <1>9, <1>10, <1>11 DEF ReaderInv, Waits
<1>13. Readable(seen)' = Readable(seen)
  BY <1>1 DEF Readable, Seen
<1>14. M!Begin
  BY <1>1, <1>2, <1>13 DEF M!Begin, Waits
<1> QED
  BY <1>2, <1>12, <1>14

\* The session is gone: the nodes are about to go offline.
LEMMA ReconnectBegins ==
  ASSUME SafeInv, SafeInv', Placid, OwnerInv, MirrorInv, ReaderInv, ReconnectStarts, HistoryNext
  PROVE  MirrorInv' /\ ReaderInv' /\ M!Lose
<1>1. /\ Waits /\ Reconnect /\ due' = MarksDue /\ doing' = "marks" /\ UNCHANGED <<seen, heard>>
  BY DEF ReconnectStarts, Starts, readers
<1>2. MirrorInv' /\ shown' = shown /\ ahead' = ahead
  BY <1>1, PassesMirror
<1>3. mqtt /\ Exact /\ Marked /\ Pending = {} /\ DOMAIN seen = Topic /\ \A t \in Topic : Caught(t)
  BY <1>1, NothingPends DEF OwnerInv, MirrorInv, ReaderInv
<1> DEFINE mark(id) == <<"node", id, "availability">>
<1>4. \A id \in NodeIds : mark(id) \in Topic /\ mark(id)[3] = "availability"
  BY NodeTopic DEF Leaves
<1>5. /\ due'.cleared = {} /\ due'.renewed = {} /\ due'.word = "false" /\ DOMAIN due' = DueFields
      /\ due'.own = {<<mark(id), id, "offline">> : id \in {i \in NodeIds : tracked[i] # {}}}
  BY <1>1 DEF MarksDue, NothingDue, DueFields
<1>6. matterConnected' = "false"
  BY <1>1, <1>3 DEF Reconnect
<1>7. \A id \in NodeIds : retained'[mark(id)] \in {Empty, "offline"}
  BY <1>1, <1>3, <1>4, DarkMirror
<1>8. ASSUME NEW p \in due'.own
      PROVE  /\ \E id \in NodeIds : p = <<mark(id), id, "offline">>
             /\ seen'[p[1]] # Empty /\ retained'[p[1]] = "offline"
  <2>1. PICK id \in NodeIds : tracked[id] # {} /\ p = <<mark(id), id, "offline">>
    BY <1>5, <1>8
  <2>2. retained[mark(id)] # Empty
    BY <1>3, <2>1 DEF Exact, Own, Marked
  <2>3. seen[mark(id)] = retained[mark(id)]
    <3>1. PICK t \in Topic : t = mark(id) /\ t[3] = "availability"
      BY <1>4
    <3>2. Seen(seen[t], t[3]) = Seen(retained[t], t[3])
      BY <1>3 DEF Caught
    <3> QED
      BY <3>1, <3>2 DEF Seen
  <2>4. retained'[mark(id)] = "offline"
    BY <1>1, <1>3, <1>4, <2>2, DarkMirror
  <2> HIDE DEF mark
  <2> QED
    BY <1>1, <2>1, <2>2, <2>3, <2>4
<1>9. \A t \in Topic : t \in Pending' \/ Caught(t)'
  <2> SUFFICES ASSUME NEW t \in Topic, \A p \in due'.own : p[1] # t PROVE Caught(t)'
    BY DEF Pending
  <2>1. \A id \in NodeIds : tracked[id] # {} => t # mark(id)
    <3> SUFFICES ASSUME NEW id \in NodeIds, tracked[id] # {} PROVE t # mark(id)
      OBVIOUS
    <3>1. <<mark(id), id, "offline">> \in due'.own
      BY <1>5
    <3> HIDE DEF mark
    <3> QED
      BY <3>1
  <2>2. retained'[t] = retained[t]
    BY <1>1, <2>1 DEF Reconnect, MarkAllUnavailable
  <2> QED
    BY <1>1, <1>3, <2>2 DEF Caught, Seen
<1>10. Marking'
  BY <1>5, <1>6, <1>7, <1>8 DEF Marking
<1>11. ReaderInv'
  BY <1>1, <1>3, <1>5, <1>6, <1>9, <1>10 DEF ReaderInv, Waits
<1>12. Readable(seen)' = Readable(seen)
  BY <1>1 DEF Readable, Seen
<1>13. M!Lose
  BY <1>1, <1>2, <1>12 DEF M!Lose, Waits
<1> QED
  BY <1>2, <1>11, <1>13

\* What an alias that the cache has shows is not empty.
LEMMA AliasShows ==
  ASSUME SafeInv, Lit, NEW id \in NodeIds, NEW t \in Own(id), t \in NamedTopic
  PROVE  Seen(retained[t], t[3]) # Empty
<1>1. nodes[id] \in Node /\ t[3] \in StateLeaves
  BY DEF SafeInv, TypeOK, CacheTypeOK, Own, Nodes, NamedTopic
<1>2. Seen(retained[t], t[3]) = Payload(nodes[id], names[id], t[3])
  <2>1. Legible(t, id)
    BY DEF Lit
  <2> QED
    BY <1>1, <2>1 DEF Legible, Seen, StateLeaves
<1>3. CASE t[3] = "label"
  <2>1. [json |-> nodes[id].label] \in [json : Labels]
    BY <1>1 DEF Node
  <2> QED
    BY <1>2, <1>3, <2>1, NodeAssumption DEF Payload
<1>4. CASE t[3] = "value"
  <2>1. [json |-> nodes[id].value] \in [json : 0 .. MaxChanges]
    BY <1>1 DEF Node
  <2> QED
    BY <1>2, <1>4, <2>1, NodeAssumption DEF Payload
<1> QED
  BY <1>1, <1>3, <1>4 DEF StateLeaves

\* A topic that a handler of the session tells of reads as the cache then.
LEMMA TellsOne ==
  ASSUME NoSuffixClash, SafeInv, MirrorInv, ReaderInv, doing = "tells",
         NEW t \in Topic, NEW v, Seen(v, t[3]) = Seen(retained[t], t[3]),
         seen' = [seen EXCEPT ![t] = v], UNCHANGED <<history, heard, doing>>,
         due.cleared = {} \/ Seen(v, t[3]) = Empty
  PROVE  M!Tell
<1>1. Telling /\ DOMAIN seen = Topic
  BY DEF ReaderInv
<1>2. Lit /\ \A u \in Topic : TreeOfFabric(shown)[u] = Seen(retained[u], u[3])
  BY <1>1, TellsCache DEF Telling
<1>3. Readable(seen)' = [Readable(seen) EXCEPT ![t] = TreeOfFabric(shown)[t]]
  BY <1>1, <1>2, ReadsOne
<1>4. ASSUME due.cleared = {}, NEW a \in NamedTopic, TreeOfFabric(shown)[a] = Empty
      PROVE  Readable(seen)[a] = Empty
  <2>1. a \in Topic /\ Seen(retained[a], a[3]) = Empty
    BY <1>2, <1>4 DEF Topic
  <2>2. a \notin Pending
    <3> SUFFICES ASSUME NEW p \in due.renewed \cup due.own, p[1] = a PROVE FALSE
      BY <1>4 DEF Pending
    <3>1. p[2] \in NodeIds /\ a \in Own(p[2])
      BY <1>1 DEF Telling, Says
    <3> QED
      BY <1>2, <1>4, <2>1, <3>1, AliasShows
  <2> QED
    BY <2>1, <2>2 DEF ReaderInv, Caught, Readable
<1>5. TreeOfFabric(shown)[t] # Empty => due.cleared = {}
  BY <1>2
<1> QED
  BY <1>3, <1>4, <1>5 DEF M!Tell, history

LEMMA ClearsMirror ==
  ASSUME NoSuffixClash, SafeInv, MirrorInv, ReaderInv, NEW t \in due.cleared, Clears(t)
  PROVE  MirrorInv' /\ ReaderInv' /\ M!Tell
<1>1. /\ due' = [due EXCEPT !.cleared = @ \ {t}] /\ seen' = [seen EXCEPT ![t] = Empty]
      /\ UNCHANGED <<vars, history>> /\ UNCHANGED <<heard, doing>>
  BY DEF Clears, PublicationsOnly
<1>2. MirrorInv' /\ Still /\ phase' = phase
  BY <1>1, QuietMirror
<1>3. doing = "tells" /\ Telling /\ DOMAIN due = DueFields /\ DOMAIN seen = Topic
  BY DEF ReaderInv, Waits, NothingDue, Marking
<1>4. t \in Topic /\ retained[t] = Empty
  BY <1>3 DEF Telling
<1>5. /\ due'.cleared = due.cleared \ {t} /\ due'.renewed = due.renewed /\ due'.own = due.own
      /\ due'.word = due.word /\ DOMAIN due' = DueFields
  BY <1>1, <1>3 DEF DueFields
<1>6. M!Tell
  <2>1. PICK v : v = Empty
    OBVIOUS
  <2>2. Seen(v, t[3]) = Empty /\ Seen(v, t[3]) = Seen(retained[t], t[3])
    BY <1>4, <2>1 DEF Seen
  <2> QED
    BY <1>1, <1>3, <1>4, <2>1, <2>2, TellsOne
<1>7. /\ DOMAIN seen' = Topic /\ seen'[t] = Empty /\ \A u \in Topic : u # t => seen'[u] = seen[u]
  BY <1>1, <1>3, <1>4, ReadsOne
<1>8. \A u \in Topic : u \in Pending' \/ Caught(u)'
  <2> SUFFICES ASSUME NEW u \in Topic, u \notin Pending' PROVE Caught(u)'
    OBVIOUS
  <2>1. retained' = retained
    BY <1>2 DEF Still
  <2>2. CASE u = t
    BY <1>4, <1>7, <2>1, <2>2 DEF Caught, Seen
  <2>3. CASE u # t
    <3>1. u \notin Pending
      BY <1>5, <2>3 DEF Pending
    <3> QED
      BY <1>7, <2>1, <2>3, <3>1 DEF ReaderInv, Caught, Seen
  <2> QED
    BY <2>2, <2>3
<1>9. Telling'
  <2>1. retained' = retained /\ \A p : Says(p)' = Says(p)
    BY <1>2 DEF Still, Says, Own
  <2> QED
    BY <1>2, <1>3, <1>5, <2>1 DEF Telling
<1>10. IF due'.word = "none" THEN heard' = matterConnected' ELSE due'.word = matterConnected'
  BY <1>1, <1>2, <1>5 DEF ReaderInv, Still
<1>11. ReaderInv'
  BY <1>1, <1>3, <1>5, <1>7, <1>8, <1>9, <1>10 DEF ReaderInv, Waits
<1> QED
  BY <1>2, <1>6, <1>11

\* A publication: a topic of the state that is told, or a mark.
LEMMA PublishesMirror ==
  ASSUME NoSuffixClash, SafeInv, MirrorInv, ReaderInv,
         NEW p \in due.renewed \cup due.own, Publishes(p, due.renewed) \/ Publishes(p, due.own),
         DOMAIN due' = DueFields, due'.cleared = due.cleared, due'.word = due.word,
         due'.renewed \cup due'.own \subseteq due.renewed \cup due.own,
         (due.renewed \cup due.own) \ (due'.renewed \cup due'.own) \subseteq {p},
         due'.renewed \subseteq due.renewed
  PROVE  MirrorInv' /\ ReaderInv' /\ (M!Tell \/ M!Mark)
<1>1. /\ seen' = [seen EXCEPT ![p[1]] = p[3]] /\ due.cleared = {} /\ due.word # "false"
      /\ UNCHANGED <<vars, history>> /\ UNCHANGED <<heard, doing>>
  BY DEF Publishes, PublicationsOnly
<1>2. MirrorInv' /\ Still /\ phase' = phase /\ shown' = shown /\ ahead' = ahead
  BY <1>1, QuietMirror
<1>3. retained' = retained /\ matterConnected' = matterConnected /\ \A q : Says(q)' = Says(q)
  BY <1>2 DEF Still, Says, Own
<1>4. PICK t, v : t = p[1] /\ v = p[3]
  OBVIOUS
<1>5. DOMAIN seen = Topic /\ seen' = [seen EXCEPT ![t] = v]
  BY <1>1, <1>4 DEF ReaderInv
<1>6. CASE doing = "tells"
  <2>1. Telling /\ Says(p)
    BY <1>6 DEF ReaderInv, Telling
  <2>2. Lit
    BY <2>1, TellsCache DEF Telling
  <2>3. PICK id \in NodeIds : t \in Own(id) /\ v = Payload(nodes[id], names[id], t[3])
    BY <1>4, <2>1 DEF Says
  <2>4. t \in Topic
    <3>1. nodes[id] \in Node /\ names[id] \in Keys \cup {Empty}
      BY <2>3 DEF SafeInv, TypeOK, CacheTypeOK, Own, Nodes
    <3> QED
      BY <2>3, <3>1, NodeTopicsType DEF Own
  <2>5. Seen(v, t[3]) = Seen(retained[t], t[3])
    BY <2>2, <2>3 DEF Lit, Legible
  <2>6. M!Tell
    BY <1>1, <1>5, <1>6, <2>4, <2>5, TellsOne
  <2>7. Telling'
    BY <1>1, <1>2, <1>3, <2>1 DEF Telling
  <2>8. DOMAIN seen' = Topic /\ seen'[t] = v /\ \A u \in Topic : u # t => seen'[u] = seen[u]
    BY <1>5, <2>4, ReadsOne
  <2>9. \A u \in Topic : u \in Pending' \/ Caught(u)'
    <3> SUFFICES ASSUME NEW u \in Topic, u \notin Pending' PROVE Caught(u)'
      OBVIOUS
    <3>1. CASE u = t
      BY <1>3, <2>5, <2>8, <3>1 DEF Caught, Seen
    <3>2. CASE u # t
      <4>1. u \notin Pending
        BY <1>1, <1>4, <3>2 DEF Pending
      <4> QED
        BY <1>3, <2>8, <3>2, <4>1 DEF ReaderInv, Caught, Seen
    <3> QED
      BY <3>1, <3>2
  <2>10. ReaderInv'
    BY <1>1, <1>3, <1>6, <2>7, <2>8, <2>9 DEF ReaderInv, Waits
  <2> QED
    BY <1>2, <2>6, <2>10
<1>7. CASE doing = "marks"
  <2>1. Marking /\ p \in due.own /\ due.word = "none" /\ heard = "false"
    BY <1>1, <1>7 DEF ReaderInv, Marking
  <2>2. PICK id \in NodeIds : p = <<<<"node", id, "availability">>, id, "offline">>
    BY <2>1 DEF Marking
  <2>3. /\ t = <<"node", id, "availability">> /\ v = "offline" /\ t \in Topic /\ t[3] = "availability"
    BY <1>4, <2>2, NodeTopic DEF Leaves
  <2>4. seen[t] # Empty /\ retained[t] = "offline"
    BY <1>4, <2>1 DEF Marking
  <2>5. /\ DOMAIN seen' = Topic /\ seen'[t] = v /\ \A u \in Topic : u # t => seen'[u] = seen[u]
        /\ Readable(seen)' = [Readable(seen) EXCEPT ![t] = Seen(v, t[3])]
    BY <1>5, <2>3, ReadsOne
  <2>6. M!Mark
    <3>1. Readable(seen)[t] # Empty /\ Seen(v, t[3]) = "offline"
      BY <2>3, <2>4 DEF Readable, Seen
    <3>2. t \in {<<"node", i, "availability">> : i \in NodeIds}
      BY <2>3
    <3> QED
      BY <1>1, <1>2, <1>7, <2>1, <2>5, <3>1, <3>2 DEF M!Mark
  <2>7. Marking'
    <3>1. "offline" # Empty
      BY BridgeAssumption
    <3>2. due'.renewed = {} /\ due'.cleared = {} /\ due'.own \subseteq due.own
      BY <1>1, <2>1 DEF Marking
    <3>3. ASSUME NEW q \in due'.own
          PROVE  /\ \E i \in NodeIds : q = <<<<"node", i, "availability">>, i, "offline">>
                 /\ seen'[q[1]] # Empty /\ retained'[q[1]] = "offline"
      <4>1. PICK i \in NodeIds : q = <<<<"node", i, "availability">>, i, "offline">>
        BY <2>1, <3>2, <3>3 DEF Marking
      <4>2. q[1] \in Topic
        BY <4>1, NodeTopic DEF Leaves
      <4>3. seen'[q[1]] # Empty
        BY <2>1, <2>3, <2>5, <3>1, <3>2, <3>3, <4>2 DEF Marking
      <4> QED
        BY <1>3, <2>1, <3>2, <3>3, <4>1, <4>3 DEF Marking
    <3> QED
      BY <1>3, <2>1, <3>2, <3>3 DEF Marking
  <2>8. \A u \in Topic : u \in Pending' \/ Caught(u)'
    <3> SUFFICES ASSUME NEW u \in Topic, u \notin Pending' PROVE Caught(u)'
      OBVIOUS
    <3>1. CASE u = t
      BY <1>3, <2>3, <2>4, <2>5, <3>1 DEF Caught, Seen
    <3>2. CASE u # t
      <4>1. u \notin Pending
        BY <1>1, <1>4, <3>2 DEF Pending
      <4> QED
        BY <1>3, <2>5, <3>2, <4>1 DEF ReaderInv, Caught, Seen
    <3> QED
      BY <3>1, <3>2
  <2>9. ReaderInv'
    BY <1>1, <1>3, <1>7, <2>5, <2>7, <2>8 DEF ReaderInv, Waits
  <2> QED
    BY <1>2, <2>6, <2>9
<1>8. ~ Waits
  BY DEF ReaderInv, NothingDue
<1> QED
  BY <1>6, <1>7, <1>8 DEF ReaderInv, Waits

\* bridge/matter_connected: readers learn what it is to say.
LEMMA SaysWordMirror ==
  ASSUME NoSuffixClash, SafeInv, MirrorInv, ReaderInv, SaysWord
  PROVE  MirrorInv' /\ ReaderInv' /\ [M!MirrorNext]_(M!mirror)
<1>1. /\ due.word = "false" \/ (due.word = "true" /\ due.own = {})
      /\ heard' = due.word /\ due' = [due EXCEPT !.word = "none"]
      /\ UNCHANGED <<vars, history>> /\ UNCHANGED <<seen, doing>>
  BY DEF SaysWord, PublicationsOnly
<1>2. MirrorInv' /\ Still /\ phase' = phase /\ shown' = shown /\ ahead' = ahead
  BY <1>1, QuietMirror
<1>3. retained' = retained /\ matterConnected' = matterConnected /\ \A q : Says(q)' = Says(q)
  BY <1>2 DEF Still, Says, Own
<1>4. /\ due'.cleared = due.cleared /\ due'.renewed = due.renewed /\ due'.own = due.own
      /\ due'.word = "none" /\ DOMAIN due' = DueFields
  BY <1>1 DEF ReaderInv, DueFields
<1>5. due.word = matterConnected /\ heard' = matterConnected'
  BY <1>1, <1>3 DEF ReaderInv
<1>6. Pending' = Pending
  BY <1>4 DEF Pending
<1>7. \A t \in Topic : t \in Pending' \/ Caught(t)'
  BY <1>1, <1>3, <1>6 DEF ReaderInv, Caught, Seen
<1>8. doing = "tells" => Telling'
  BY <1>2, <1>3, <1>4 DEF ReaderInv, Telling
<1>9. doing = "marks" => Marking'
  BY <1>1, <1>3, <1>4 DEF ReaderInv, Marking
<1>10. ~ Waits
  BY <1>1, NothingPends DEF ReaderInv
<1>11. ReaderInv'
  BY <1>1, <1>4, <1>5, <1>7, <1>8, <1>9, <1>10 DEF ReaderInv, Waits
<1>12. Readable(seen)' = Readable(seen)
  BY <1>1 DEF Readable, Seen
<1>13. CASE due.word = "false"
  <2>1. doing = "marks"
    BY <1>10, <1>13 DEF ReaderInv, Waits, Telling
  <2> QED
    BY <1>1, <1>2, <1>11, <1>12, <1>13, <2>1 DEF M!Disconnect, M!MirrorNext
<1>14. CASE due.word = "true"
  <2>1. doing = "tells" /\ due.own = {}
    BY <1>1, <1>10, <1>14 DEF ReaderInv, Waits, Marking
  <2>2. Pending = {} /\ phase = "serving"
    BY <1>14, <2>1 DEF ReaderInv, Telling, Pending
  <2>3. Readable(seen) = TreeOfFabric(shown)
    BY <2>2, ReadsAll, TellsCache
  <2>4. CASE heard = "true"
    BY <1>1, <1>2, <1>11, <1>12, <1>14, <2>4 DEF M!mirror
  <2>5. CASE heard # "true"
    BY <1>1, <1>2, <1>11, <1>12, <1>14, <2>1, <2>3, <2>5 DEF M!Connect, M!MirrorNext
  <2> QED
    BY <2>4, <2>5
<1> QED
  BY <1>1, <1>13, <1>14

\* A handler that is through has told its state to the end.
LEMMA ReturnsMirror ==
  ASSUME NoSuffixClash, SafeInv, MirrorInv, ReaderInv, Returns
  PROVE  MirrorInv' /\ ReaderInv' /\ (M!Told \/ M!Marked)
<1>1. /\ doing' = "waits" /\ due = NothingDue /\ ~ Waits
      /\ UNCHANGED <<vars, history>> /\ UNCHANGED <<seen, heard, due>>
  BY DEF Returns, PublicationsOnly, readers
<1>2. MirrorInv' /\ Still /\ phase' = phase /\ shown' = shown /\ ahead' = ahead
  BY <1>1, QuietMirror
<1>3. Pending = {} /\ heard = matterConnected /\ matterConnected' = matterConnected
      /\ retained' = retained
  BY <1>1, <1>2, NothingPends DEF ReaderInv, Still
<1>4. Readable(seen) = Readable(retained) /\ Readable(seen)' = Readable(seen)
  <2>1. Readable(seen)' = Readable(seen)
    BY <1>1 DEF Readable, Seen
  <2> QED
    BY <1>3, <2>1, ReadsAll
<1>5. \A t \in Topic : t \in Pending' \/ Caught(t)'
  BY <1>1, <1>3 DEF ReaderInv, Pending, Caught, Seen
<1>6. ReaderInv'
  BY <1>1, <1>3, <1>5 DEF ReaderInv, Waits
<1>7. CASE doing = "tells"
  <2>1. phase = "serving"
    BY <1>7 DEF ReaderInv, Telling
  <2>2. Readable(seen) = TreeOfFabric(shown) /\ heard = "true"
    BY <1>3, <1>4, <2>1, TellsCache
  <2>3. M!Told
    BY <1>1, <1>2, <1>4, <1>7, <2>2 DEF M!Told
  <2> QED
    BY <1>2, <1>6, <2>3
<1>8. CASE doing = "marks"
  <2>1. heard = "false" /\ \A id \in NodeIds : retained[<<"node", id, "availability">>] \in {Empty, "offline"}
    BY <1>3, <1>8 DEF ReaderInv, Marking
  <2>2. ASSUME NEW t, t \in {<<"node", id, "availability">> : id \in NodeIds}
        PROVE  Readable(seen)[t] \in {Empty, "offline"}
    <3>1. t \in Topic /\ t[3] = "availability" /\ retained[t] \in {Empty, "offline"}
      BY <2>1, <2>2, NodeTopic DEF Leaves
    <3>2. Readable(retained)[t] = Seen(retained[t], t[3])
      BY <3>1 DEF Readable
    <3> QED
      BY <1>4, <3>1, <3>2 DEF Seen
  <2>3. M!Marked
    BY <1>1, <1>2, <1>4, <1>8, <2>1, <2>2 DEF M!Marked
  <2> QED
    BY <1>2, <1>6, <2>3
<1> QED
  BY <1>1, <1>7, <1>8 DEF ReaderInv, Waits

LEMMA PublicationMirror ==
  ASSUME NoSuffixClash, SafeInv, MirrorInv, ReaderInv, Publication
  PROVE  MirrorInv' /\ ReaderInv' /\ [M!MirrorNext]_(M!mirror)
<1>1. CASE \E t \in due.cleared : Clears(t)
  BY <1>1, ClearsMirror DEF M!MirrorNext
<1>2. CASE \E p \in due.renewed : Renews(p)
  <2>1. PICK p \in due.renewed : Renews(p)
    BY <1>2
  <2>2. Publishes(p, due.renewed) /\ due' = [due EXCEPT !.renewed = @ \ {p}]
    BY <2>1 DEF Renews
  <2>3. /\ due'.cleared = due.cleared /\ due'.renewed = due.renewed \ {p} /\ due'.own = due.own
        /\ due'.word = due.word /\ DOMAIN due' = DueFields
    BY <2>2 DEF ReaderInv, DueFields
  <2>4. MirrorInv' /\ ReaderInv' /\ (M!Tell \/ M!Mark)
    <3>1. p \in due.renewed \cup due.own
      BY <2>1
    <3>2. due'.renewed \cup due'.own \subseteq due.renewed \cup due.own
          /\ (due.renewed \cup due.own) \ (due'.renewed \cup due'.own) \subseteq {p}
          /\ due'.renewed \subseteq due.renewed
      BY <2>3
    <3> QED
      BY <2>2, <2>3, <3>1, <3>2, PublishesMirror
  <2> QED
    BY <2>4 DEF M!MirrorNext
<1>3. CASE \E p \in due.own : PublishesOwn(p)
  <2>1. PICK p \in due.own : PublishesOwn(p)
    BY <1>3
  <2>2. Publishes(p, due.own) /\ due' = [due EXCEPT !.own = @ \ {p}]
    BY <2>1 DEF PublishesOwn
  <2>3. /\ due'.cleared = due.cleared /\ due'.renewed = due.renewed /\ due'.own = due.own \ {p}
        /\ due'.word = due.word /\ DOMAIN due' = DueFields
    BY <2>2 DEF ReaderInv, DueFields
  <2>4. MirrorInv' /\ ReaderInv' /\ (M!Tell \/ M!Mark)
    <3>1. p \in due.renewed \cup due.own
      BY <2>1
    <3>2. due'.renewed \cup due'.own \subseteq due.renewed \cup due.own
          /\ (due.renewed \cup due.own) \ (due'.renewed \cup due'.own) \subseteq {p}
          /\ due'.renewed \subseteq due.renewed
      BY <2>3
    <3> QED
      BY <2>2, <2>3, <3>1, <3>2, PublishesMirror
  <2> QED
    BY <2>4 DEF M!MirrorNext
<1>4. CASE SaysWord
  BY <1>4, SaysWordMirror
<1>5. CASE Returns
  BY <1>5, ReturnsMirror DEF M!MirrorNext
<1> QED
  BY <1>1, <1>2, <1>3, <1>4, <1>5 DEF Publication

\* What goes on beside the handlers is at most a change of the fabric.
LEMMA BesideMirror ==
  ASSUME SafeInv, SafeInv', Placid, OwnerInv, MirrorInv, ReaderInv, Meanwhile \/ Proceeds, HistoryNext
  PROVE  MirrorInv' /\ ReaderInv' /\ [M!MirrorNext]_(M!mirror)
<1>1. UNCHANGED <<due, doing, seen, heard>>
  BY DEF Meanwhile, Proceeds, readers
<1>2. CASE FabricNext
  <2>1. /\ MirrorInv' /\ Still /\ shown' = shown /\ phase' = phase
        /\ \E f \in Nodes : ahead' = Append(ahead, f)
    BY <1>2, FabricMirror
  <2>2. ReaderInv' /\ Readable(seen)' = Readable(seen)
    BY <1>1, <2>1, StillReaders
  <2>3. M!Change
    BY <1>1, <2>1, <2>2 DEF M!Change
  <2> QED
    BY <2>1, <2>2, <2>3 DEF M!MirrorNext
<1>3. CASE WsDrops \/ (Waits /\ (Dial \/ DialFails \/ ServerAnswers \/ CallFails \/ SessionEnds))
  <2>1. ~ Reconnect
    BY <1>3 DEF Reconnect, WsDrops, Dial, DialFails, ServerAnswers, CallFails, SessionEnds
  <2>2. MirrorInv' /\ shown' = shown /\ ahead' = ahead /\ Still
    BY <1>3, <2>1, PassesMirror
  <2>3. phase' = phase \/ Waits
    BY <1>3 DEF WsDrops
  <2>4. ReaderInv' /\ Readable(seen)' = Readable(seen)
    BY <1>1, <2>2, <2>3, StillReaders
  <2> QED
    BY <1>1, <2>2, <2>4 DEF M!mirror
<1> QED
  BY <1>2, <1>3 DEF Meanwhile, Proceeds

LEMMA ReadersMirror ==
  ASSUME NoSuffixClash, SafeInv, SafeInv', Placid, OwnerInv, MirrorInv, ReaderInv,
         [ReadersNext]_readersVars
  PROVE  MirrorInv' /\ ReaderInv' /\ [M!MirrorNext]_(M!mirror)
<1>1. CASE (Meanwhile \/ Proceeds) /\ HistoryNext
  BY <1>1, BesideMirror
<1>2. CASE HandlerStarts /\ HistoryNext
  <2>1. CASE Starting
    BY <1>2, <2>1, SessionBegins DEF M!MirrorNext
  <2>2. CASE ReconnectStarts
    BY <1>2, <2>2, ReconnectBegins DEF M!MirrorNext
  <2> QED
    BY <1>2, <2>1, <2>2 DEF HandlerStarts, Starting
<1>3. CASE Publication
  BY <1>3, PublicationMirror
<1>4. CASE UNCHANGED readersVars
  <2>1. UNCHANGED <<vars, history>> /\ UNCHANGED <<due, doing, seen, heard>>
    BY <1>4 DEF readersVars, readers
  <2>2. MirrorInv' /\ Still /\ UNCHANGED <<phase, shown, ahead>>
    BY <2>1, QuietMirror
  <2>3. ReaderInv' /\ Readable(seen)' = Readable(seen)
    BY <2>1, <2>2, StillReaders
  <2> QED
    BY <2>1, <2>2, <2>3 DEF M!mirror
<1> QED
  BY <1>1, <1>2, <1>3, <1>4 DEF ReadersNext

\* The steps are those of the bridge, or leave it alone.
LEMMA ReadersStep ==
  ASSUME [ReadersNext]_readersVars
  PROVE  [Next]_vars
  BY DEF ReadersNext, readersVars, Publication, Clears, Renews, PublishesOwn, Publishes, SaysWord,
     Returns, PublicationsOnly, Meanwhile, Proceeds, HandlerStarts, DumpStarts, AttributeStarts,
     NodeStarts, RemovedStarts, ReconnectStarts, Next, SessionNext

LEMMA InitMirror ==
  ASSUME Init, HistoryInit
  PROVE  MirrorInv
<1>1. /\ nodes = [id \in NodeIds |-> Absent] /\ tracked = NoTopics /\ phase = "start"
      /\ retained = [t \in Topic |-> Empty] /\ matterConnected = Empty
      /\ fabric \in Nodes /\ commissioned = {id \in NodeIds : fabric[id] # Absent}
  BY NodeAssumption DEF Init
<1>2. shown = Absent /\ ahead = <<fabric>> /\ since = 0
  BY DEF HistoryInit
<1>3. Given
  BY <1>1 DEF Given
<1>4. Exact /\ Marked
  BY <1>1 DEF Exact, Marked, Own, NoTopics
<1>5. Recorded
  <2>1. ahead \in Seq(Nodes) /\ Len(ahead) = 1 /\ ahead[1] = fabric
    BY <1>1, <1>2
  <2> QED
    BY <1>1, <1>2, <2>1 DEF Recorded, HistoryTypeOK, At, Fresh, NoTopics
<1> QED
  BY <1>1, <1>3, <1>4, <1>5 DEF MirrorInv

LEMMA InitReaders ==
  ASSUME ReadersInit
  PROVE  ReaderInv /\ M!MirrorInit
<1>1. /\ retained = [t \in Topic |-> Empty] /\ matterConnected = Empty /\ fabric \in Nodes
  BY NodeAssumption DEF Init, ReadersInit
<1>2. /\ shown = Absent /\ ahead = <<fabric>> /\ doing = "waits" /\ due = NothingDue
      /\ seen = retained /\ heard = matterConnected
  BY DEF HistoryInit, ReadersInit
<1>3. ReaderInv
  BY <1>1, <1>2, NothingPends DEF ReaderInv, Waits, Caught
<1>4. Readable(seen) = TreeOfFabric(Absent)
  <2>1. Readable(seen) = Readable([t \in Topic |-> Empty])
    BY <1>1, <1>2
  <2>2. TreeOfFabric(Absent) = Readable([t \in Topic |-> Empty])
    BY DEF TreeOfFabric
  <2> QED
    BY <2>1, <2>2
<1>5. heard # "true"
  BY <1>1, <1>2, BridgeAssumption
<1>6. M!MirrorInit
  BY <1>1, <1>2, <1>4, <1>5 DEF M!MirrorInit
<1> QED
  BY <1>3, <1>6

\* Where only sessions fail, and as long as no label reads like a suffixed one, readers
\* are told one state of the fabric after the other, topic by topic: each to its end
\* before the next is begun and none older than the last, old names and removed nodes
\* gone before anything new appears, no topic that a node keeps missing on the way,
\* matter_connected "true" after the whole dump and "false" before the first node goes
\* offline (session, handleEvent, refreshNames, publishNode, clearNode and
\* markAllUnavailable, whatever the order of the Go maps they go through).
THEOREM TreeIsTheFabrics ==
  ASSUME NoSuffixClash, Environments \subseteq {{}}
  PROVE  ReadersSpec => IsMirror
<1>1. ReadersInit => SafeInv /\ OwnerInv /\ MirrorInv /\ ReaderInv /\ M!MirrorInit
  <2>1. ReadersInit => Init /\ HistoryInit
    BY DEF ReadersInit
  <2> QED
    BY <2>1, InitSafe, InitOwner, InitMirror, InitReaders
<1>2. SafeInv /\ OwnerInv /\ MirrorInv /\ ReaderInv /\ [ReadersNext]_readersVars
        => SafeInv' /\ OwnerInv' /\ MirrorInv' /\ ReaderInv' /\ [M!MirrorNext]_(M!mirror)
  <2> SUFFICES ASSUME SafeInv, OwnerInv, MirrorInv, ReaderInv, [ReadersNext]_readersVars
               PROVE  SafeInv' /\ OwnerInv' /\ MirrorInv' /\ ReaderInv' /\ [M!MirrorNext]_(M!mirror)
    OBVIOUS
  <2>1. [Next]_vars
    BY ReadersStep
  <2>2. SafeInv'
    BY <2>1, NextSafe
  <2>3. OwnerInv'
    BY <2>1, <2>2, NextOwner
  <2>4. Placid
    BY DEF SafeInv, TypeOK, WorldTypeOK, Placid, OnlyMeets
  <2> QED
    BY <2>2, <2>3, <2>4, ReadersMirror
<1> QED
  BY <1>1, <1>2, PTL DEF ReadersSpec, IsMirror, M!MirrorSpec
=============================================================================
