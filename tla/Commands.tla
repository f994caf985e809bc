------------------------------ MODULE Commands ------------------------------
(***************************************************************************)
(* How a command finds its attribute: the data model (model.go), the       *)
(* command topics (onWriteAttribute and onDeviceCommand of bridge.go) and  *)
(* the console's POST routes (httpserver.go), beside the Namer, which gives*)
(* names to other devices meanwhile.  A handler parses one message, hands  *)
(* one call to matter-server and keeps nothing, so it is an operator: the  *)
(* call it makes of its message, in the state it finds.                    *)
(*                                                                         *)
(* A segment of a topic is a number or a name; a node's name is a sequence *)
(* of words (Naming), that of a cluster or an attribute a model value.     *)
(* Values and arguments are passed on as they are and left out.            *)
(***************************************************************************)
EXTENDS Namer

CONSTANTS Endpoints,       \* numbers of endpoints
          ClusterIds, AttributeIds,
          GlobalAttributes, \* id -> name of the attributes every cluster has
          ModelNames,      \* names of clusters and attributes, in any case
          LowerName,       \* strings.ToLower on them and on Empty
          Tables,          \* the "clusters" of the model files to be loaded
          CommandNames,    \* names of cluster commands
          RawObject,       \* the text of a JSON object without a command
          None             \* ok = false

NameOrNone == ModelNames \cup {Empty}

ASSUME CommandsAssumption ==
  /\ Endpoints \subseteq Nat /\ ClusterIds \subseteq Nat /\ AttributeIds \subseteq Nat
  /\ DOMAIN GlobalAttributes \subseteq AttributeIds
  /\ \A a \in DOMAIN GlobalAttributes : GlobalAttributes[a] \in ModelNames
  /\ \A a, b \in DOMAIN GlobalAttributes :
        LowerName[GlobalAttributes[a]] = LowerName[GlobalAttributes[b]] => a = b
  /\ ModelNames \cap Nat = {} /\ Empty \notin ModelNames \cup Nat \cup CommandNames
  /\ None \notin Nat
  /\ LowerName \in [NameOrNone -> NameOrNone]
  /\ \A n \in NameOrNone : LowerName[LowerName[n]] = LowerName[n]
  /\ \A n \in NameOrNone : LowerName[n] = Empty <=> n = Empty
  /\ \A t \in Tables : /\ DOMAIN t \subseteq ClusterIds
                       /\ \A c \in DOMAIN t : /\ t[c].name \in NameOrNone
                                              /\ DOMAIN t[c].attributes \subseteq AttributeIds
                                              /\ \A a \in DOMAIN t[c].attributes :
                                                    t[c].attributes[a] \in NameOrNone

VARIABLES table,          \* m.clusters
          clusterByName,  \* folded name -> cluster
          attrByName      \* cluster -> folded name -> attribute

model == <<table, clusterByName, attrByName>>
cvars == <<vars, model>>

-----------------------------------------------------------------------------
(* The data model. *)

\* Reverse maps are filled by a range over a Go map: of the ids whose names
\* differ only by case, any may be the last.
Reverse(names) ==
  LET folded == [i \in DOMAIN names |-> LowerName[names[i]]]
  IN  {rev \in [{folded[i] : i \in DOMAIN names} -> DOMAIN names] :
         \A n \in DOMAIN rev : folded[rev[n]] = n}

\* Mutant: the globals are not merged in.
ReverseAttributesOwn(own) == Reverse(own)

\* The globals are merged in last.
ReverseAttributes(own) ==
  {[n \in DOMAIN mine \cup DOMAIN global |->
      IF n \in DOMAIN global THEN global[n] ELSE mine[n]] :
     mine \in Reverse(own), global \in Reverse(GlobalAttributes)}

LoadModel ==
  /\ table \in Tables
  /\ clusterByName \in Reverse([c \in DOMAIN table |-> table[c].name])
  /\ attrByName \in {rev \in [DOMAIN table -> UNION {ReverseAttributes(table[c].attributes) :
                                                       c \in DOMAIN table}] :
                       \A c \in DOMAIN table : rev[c] \in ReverseAttributes(table[c].attributes)}

ClusterName(c) == IF c \in DOMAIN table THEN table[c].name ELSE Empty

AttributeName(c, a) ==
  IF a \in DOMAIN GlobalAttributes THEN GlobalAttributes[a]
    ELSE IF c \in DOMAIN table /\ a \in DOMAIN table[c].attributes
      THEN table[c].attributes[a] ELSE Empty

\* Whether NamePath finds both names, so that the attribute is mirrored.
HasNamePath(c, a) == ClusterName(c) # Empty /\ AttributeName(c, a) # Empty

ResolveCluster(s) ==
  IF s \in Nat THEN s
    ELSE IF LowerName[s] \in DOMAIN clusterByName THEN clusterByName[LowerName[s]] ELSE None

ResolveAttribute(c, s) ==
  IF s \in Nat THEN s
    ELSE IF c \in DOMAIN attrByName /\ LowerName[s] \in DOMAIN attrByName[c]
      THEN attrByName[c][LowerName[s]] ELSE None

-----------------------------------------------------------------------------
(* What a message asks for: the call it makes, or None when it is ignored   *)
(* (a topic) or refused with 400 (a POST).                                  *)

\* resolveTarget: the three segments that writes and commands share.
Resolvable(topic) == /\ ResolveNode(topic.node) # Empty
                     /\ topic.endpoint \in Nat
                     /\ ResolveCluster(topic.cluster) # None

WriteAttribute(id, endpoint, cluster, attribute) ==
  [command |-> "write_attribute", node |-> id,
   path |-> <<endpoint, cluster, attribute>>]

DeviceCommand(id, endpoint, cluster, name) ==
  [command |-> "device_command", node |-> id,
   path |-> <<endpoint, cluster>>, name |-> name]

\* <prefix>/{node|named}/<node>/<endpoint>/<cluster>/<attribute>/set: both trees
\* have one handler, and each accepts ids and names.
WriteOf(topic) ==
  LET cluster == ResolveCluster(topic.cluster)
      attribute == ResolveAttribute(cluster, topic.attribute)
  IN  IF Resolvable(topic) /\ attribute # None
        THEN WriteAttribute(ResolveNode(topic.node), topic.endpoint, cluster, attribute)
        ELSE None

\* A payload is {"command": name, ...}, where the name may be missing, or a name,
\* in quotes or not.  An object without a command is taken for a name.
CommandNameOf(payload) ==
  IF payload.form = "object" /\ payload.name = Empty THEN RawObject ELSE payload.name

\* <prefix>/{node|named}/<node>/<endpoint>/<cluster>/command
CommandOf(topic, payload) ==
  IF Resolvable(topic) /\ CommandNameOf(payload) # Empty
    THEN DeviceCommand(ResolveNode(topic.node), topic.endpoint,
                       ResolveCluster(topic.cluster), CommandNameOf(payload))
    ELSE None

\* Mutant: the console expects the attribute's number.
PostedWriteNumeric(id, endpoint, cluster, attribute) ==
  IF ResolveCluster(cluster) # None /\ attribute \in Nat
    THEN WriteAttribute(id, endpoint, ResolveCluster(cluster), attribute)
    ELSE None

\* POST /api/write: the node and the endpoint come as numbers.
PostedWrite(id, endpoint, cluster, attribute) ==
  IF /\ ResolveCluster(cluster) # None
     /\ ResolveAttribute(ResolveCluster(cluster), attribute) # None
    THEN WriteAttribute(id, endpoint, ResolveCluster(cluster),
                        ResolveAttribute(ResolveCluster(cluster), attribute))
    ELSE None

\* POST /api/invoke
PostedCommand(id, endpoint, cluster, name) ==
  IF ResolveCluster(cluster) # None /\ name # Empty
    THEN DeviceCommand(id, endpoint, ResolveCluster(cluster), name)
    ELSE None

-----------------------------------------------------------------------------
(* The model is loaded once; names come and go. *)

CommandInit == Init /\ LoadModel

CommandNext == Next /\ UNCHANGED model

CommandSpec == CommandInit /\ [][CommandNext]_cvars

-----------------------------------------------------------------------------
\* The spellings that senders have seen.
ClusterSegments == ClusterIds \cup ({ClusterName(c) : c \in ClusterIds} \ {Empty})
AttributeSegments ==
  AttributeIds
    \cup ({AttributeName(c, a) : c \in ClusterIds, a \in AttributeIds} \ {Empty})

\* A table in which no two clusters, and no two attributes of a cluster, the
\* global ones included, have a name in common up to case.
Unambiguous ==
  /\ \A c, d \in DOMAIN table :
       c # d /\ table[c].name # Empty => LowerName[table[c].name] # LowerName[table[d].name]
  /\ \A c \in DOMAIN table : \A a \in DOMAIN table[c].attributes :
       /\ \A b \in DOMAIN table[c].attributes :
            a # b /\ table[c].attributes[a] # Empty
              => LowerName[table[c].attributes[a]] # LowerName[table[c].attributes[b]]
       /\ \A b \in DOMAIN GlobalAttributes :
            a # b => LowerName[table[c].attributes[a]] # LowerName[GlobalAttributes[b]]

NameSpellings(id) == IF resolved[id] = Empty THEN {} ELSE {resolved[id], Fold(resolved[id])}
ClusterSpellings(c) ==
  IF ClusterName(c) = Empty THEN {} ELSE {ClusterName(c), LowerName[ClusterName(c)]}
AttributeSpellings(c, a) ==
  IF HasNamePath(c, a) THEN {AttributeName(c, a), LowerName[AttributeName(c, a)]} ELSE {}

\* Every topic an attribute is mirrored on can be written to: with /set after it,
\* the numeric topic and, with a model that has no two names alike, the named one
\* address that attribute of that device and no other, in whatever case they are
\* written and however numbers and names are mixed (bridge.go:527-528,
\* model.go:153-155).
RoundTrip ==
  \A id \in NodeIds, endpoint \in Endpoints, c \in ClusterIds, a \in AttributeIds :
    \A node \in {<<id>>} \cup NameSpellings(id),
       cluster \in {c} \cup (IF Unambiguous THEN ClusterSpellings(c) ELSE {}),
       attribute \in {a} \cup (IF Unambiguous THEN AttributeSpellings(c, a) ELSE {}) :
      WriteOf([node |-> node, endpoint |-> endpoint, cluster |-> cluster,
               attribute |-> attribute]) = WriteAttribute(id, endpoint, c, a)

\* The console and MQTT ask for the same call, or both for none, whenever they are
\* given the same device, path and command, whatever the model holds
\* (httpserver.go:19-20: "the console and the MQTT interface share one code
\* path").  A command that the console must refuse, for it has no name, is not
\* among them: MQTT takes the text of such an object for the name.
OneCodePath ==
  \A id \in NodeIds, endpoint \in Endpoints, cluster \in ClusterSegments :
    \A node \in {<<id>>} \cup NameSpellings(id) :
      /\ \A attribute \in AttributeSegments :
           PostedWrite(id, endpoint, cluster, attribute)
             = WriteOf([node |-> node, endpoint |-> endpoint, cluster |-> cluster,
                        attribute |-> attribute])
      /\ \A name \in CommandNames, form \in {"object", "name"} :
           PostedCommand(id, endpoint, cluster, name)
             = CommandOf([node |-> node, endpoint |-> endpoint, cluster |-> cluster],
                         [form |-> form, name |-> name])
=============================================================================
