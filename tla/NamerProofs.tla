---------------------------- MODULE NamerProofs -----------------------------
(***************************************************************************)
(* What disambiguation by node id is worth, for any fabric and any labels: *)
(* the keys are distinct as long as no label reads like the suffixed name  *)
(* of another.  A label "Sensor-4" beside two nodes called "Sensor" shows  *)
(* that the condition is needed.  The Namer keeps the keys of the labels   *)
(* it was given last; so a command topic with a name addresses the device  *)
(* that owns it, and with the reverse maps of the data model the attribute *)
(* that is mirrored there.                                                 *)
(***************************************************************************)
EXTENDS Commands, TLAPS

-----------------------------------------------------------------------------
(* The keys of a fabric. *)

\* No label reads like another label followed by a node id.
NoSuffixClash ==
  \A l, m \in Labels : \A id \in NodeIds :
    Segment[l] # Empty /\ Segment[m] # Empty
      => Fold(Segment[l]) # Fold(Suffixed(Segment[m], id))

\* Folding keeps the length of a name, and the number a suffixed name ends in.
LEMMA FoldSuffixed ==
  ASSUME NEW name \in Names, NEW id \in NodeIds
  PROVE  /\ DOMAIN Fold(Suffixed(name, id)) = 1 .. Len(name) + 1
         /\ Fold(Suffixed(name, id))[Len(name) + 1] = id
<1>1. name \in Seq(Words \cup NodeIds)
  BY DEF Names
<1>2. id \in Words \cup NodeIds /\ id \notin Words
  BY NamingAssumption
<1>3. /\ Len(name) \in Nat
      /\ DOMAIN Suffixed(name, id) = 1 .. Len(name) + 1
      /\ Suffixed(name, id)[Len(name) + 1] = id
  BY <1>1, <1>2 DEF Suffixed
<1> QED
  BY <1>2, <1>3 DEF Fold

\* Two nodes that are both suffixed have different keys: the suffix tells them
\* apart (naming.go:77-79).
LEMMA SuffixesDistinct ==
  ASSUME NEW m \in Names, NEW n \in Names, NEW i \in NodeIds, NEW j \in NodeIds,
         Fold(Suffixed(m, i)) = Fold(Suffixed(n, j))
  PROVE  i = j
<1>1. Len(m) \in Nat /\ Len(n) \in Nat
  BY DEF Names
<1>2. 1 .. Len(m) + 1 = 1 .. Len(n) + 1
  BY FoldSuffixed
<1>3. Len(m) = Len(n)
  BY <1>1, <1>2
<1> QED
  BY <1>3, FoldSuffixed

\* Every node's base name is a name or Empty.
LEMMA BaseType ==
  ASSUME NEW newLabels \in [NodeIds -> Labels], NEW id \in NodeIds
  PROVE  /\ Base(newLabels)[id] = Segment[newLabels[id]]
         /\ Base(newLabels)[id] = Empty \/ Base(newLabels)[id] \in Names
  BY NamingAssumption DEF Base

\* The keys of a fabric are distinct under folding (naming.go:70-82).
LEMMA KeysDistinct ==
  ASSUME NoSuffixClash,
         NEW newLabels \in [NodeIds -> Labels],
         NEW i \in NodeIds, NEW j \in NodeIds, i # j,
         NamesOf(newLabels)[i] # Empty
  PROVE  ~SameName(NamesOf(newLabels)[i], NamesOf(newLabels)[j])
<1> DEFINE base == Base(newLabels)
           keys == NamesOf(newLabels)
           coll == Collisions(newLabels)
<1> SUFFICES ASSUME SameName(keys[i], keys[j])
             PROVE  FALSE
  OBVIOUS
<1>1. \A k \in NodeIds : keys[k] = IF k \in coll THEN Suffixed(base[k], k) ELSE base[k]
  BY DEF NamesOf
<1>2. \A k \in coll : k \in NodeIds /\ base[k] # Empty
  BY DEF Collisions, SameName
<1>3. keys[i] # Empty /\ keys[j] # Empty /\ Fold(keys[i]) = Fold(keys[j])
  BY DEF SameName
<1>4. \A k \in NodeIds : keys[k] # Empty => base[k] # Empty
  BY <1>1, <1>2
<1>5. \A k \in NodeIds : keys[k] # Empty => base[k] \in Names
  BY <1>4, BaseType
<1> HIDE DEF base, keys, coll
<1>6. CASE i \in coll /\ j \in coll
  BY <1>1, <1>3, <1>5, <1>6, SuffixesDistinct
<1>7. CASE i \notin coll /\ j \notin coll
  <2>1. Fold(base[i]) = Fold(base[j]) /\ base[i] # Empty /\ base[j] # Empty
    BY <1>1, <1>3, <1>4, <1>7
  <2>2. i \in coll
    BY <2>1 DEF coll, base, Collisions, SameName
  <2> QED
    BY <2>2, <1>7
<1>8. \A k \in NodeIds : keys[k] # Empty =>
        /\ base[k] = Segment[newLabels[k]]
        /\ newLabels[k] \in Labels
  BY BaseType DEF base
<1>9. CASE i \notin coll /\ j \in coll
  <2>1. Fold(Segment[newLabels[i]]) = Fold(Suffixed(Segment[newLabels[j]], j))
    BY <1>1, <1>3, <1>8, <1>9
  <2> QED
    BY <2>1, <1>3, <1>4, <1>8 DEF NoSuffixClash
<1>10. CASE i \in coll /\ j \notin coll
  <2>1. Fold(Segment[newLabels[j]]) = Fold(Suffixed(Segment[newLabels[i]], i))
    BY <1>1, <1>3, <1>8, <1>10
  <2> QED
    BY <2>1, <1>3, <1>4, <1>8 DEF NoSuffixClash
<1> QED
  BY <1>6, <1>7, <1>9, <1>10

-----------------------------------------------------------------------------
(* The Namer. *)

\* The labels are raw labels and the keys are theirs: the inductive invariant.
KeysOfLabels == labels \in [NodeIds -> Labels] /\ resolved = NamesOf(labels)

\* A new Namer has the keys of no labels.
LEMMA InitKeys == Init => KeysOfLabels
<1> SUFFICES ASSUME Init PROVE KeysOfLabels
  OBVIOUS
<1>1. labels \in [NodeIds -> Labels]
  BY NamingAssumption DEF Init
<1>2. \A id \in NodeIds : Base(labels)[id] = Empty
  BY NamingAssumption DEF Init, Base
<1>3. Collisions(labels) = {}
  BY <1>2 DEF Collisions, SameName
<1>4. NamesOf(labels) = [id \in NodeIds |-> Empty]
  BY <1>2, <1>3 DEF NamesOf
<1> QED
  BY <1>1, <1>4 DEF Init, KeysOfLabels

\* Recompute takes the keys from the labels it is given.
LEMMA NextKeys == KeysOfLabels /\ [Next]_vars => KeysOfLabels'
  BY DEF KeysOfLabels, Next, Recompute, vars

\* After any number of recomputations of any fabrics, no two devices publish
\* under one name, whatever the case of its letters (naming.go:73-76).
THEOREM NamesStayDistinct ==
  ASSUME NoSuffixClash
  PROVE  Spec => []NamesDistinct
<1>1. KeysOfLabels => NamesDistinct
  BY KeysDistinct DEF KeysOfLabels, NamesDistinct
<1> QED
  BY <1>1, InitKeys, NextKeys, PTL DEF Spec

-----------------------------------------------------------------------------
\* No label reads like a node id.
NoNumericLabel == \A l \in Labels : Segment[l] # Empty => ~Numeric(Segment[l])

\* Folding leaves words words and numbers numbers, and is idempotent.
LEMMA FoldName ==
  ASSUME NEW name \in Names
  PROVE  /\ Fold(name) \in Names
         /\ Len(Fold(name)) = Len(name)
         /\ Fold(Fold(name)) = Fold(name)
         /\ Numeric(Fold(name)) <=> Numeric(name)
<1>1. /\ name \in Seq(Words \cup NodeIds) /\ Len(name) \in Nat
      /\ DOMAIN name = 1 .. Len(name) /\ name # <<>>
  BY DEF Names
<1>2. \A k \in 1 .. Len(name) : /\ name[k] \in Words \cup NodeIds
                                /\ Fold(name)[k] = IF name[k] \in Words THEN Lower[name[k]]
                                                                       ELSE name[k]
  BY <1>1 DEF Fold
<1>3. \A k \in 1 .. Len(name) : /\ Fold(name)[k] \in Words \cup NodeIds
                                /\ Fold(name)[k] \in Words <=> name[k] \in Words
  BY <1>2, NamingAssumption
<1>4. Fold(name) \in [1 .. Len(name) -> Words \cup NodeIds]
  BY <1>1, <1>3 DEF Fold
<1>5. Fold(name) \in Seq(Words \cup NodeIds) /\ Len(Fold(name)) = Len(name)
  BY <1>1, <1>4
<1>6. Fold(name) \in Names
  <2>1. Len(name) # 0
    BY <1>1
  <2> QED
    BY <1>5, <2>1 DEF Names
<1>7. Fold(Fold(name)) = Fold(name)
  <2>1. DOMAIN Fold(name) = 1 .. Len(name)
    BY <1>1 DEF Fold
  <2>2. \A k \in 1 .. Len(name) : Fold(Fold(name))[k] = Fold(name)[k]
    BY <2>1, <1>2, <1>3, NamingAssumption DEF Fold
  <2>3. DOMAIN Fold(Fold(name)) = 1 .. Len(name)
    BY <2>1 DEF Fold
  <2>4. Fold(Fold(name)) = [k \in 1 .. Len(name) |-> Fold(Fold(name))[k]]
    BY <2>3 DEF Fold
  <2>5. Fold(name) = [k \in 1 .. Len(name) |-> Fold(name)[k]]
    BY <2>1 DEF Fold
  <2> QED
    BY <2>2, <2>4, <2>5
<1>8. Numeric(Fold(name)) <=> Numeric(name)
  BY <1>1, <1>3, <1>5 DEF Numeric
<1> QED
  BY <1>5, <1>6, <1>7, <1>8

\* A key is a name, and not a number unless its label is one.
LEMMA KeyNotNumeric ==
  ASSUME NoNumericLabel,
         NEW newLabels \in [NodeIds -> Labels],
         NEW id \in NodeIds, NamesOf(newLabels)[id] # Empty
  PROVE  NamesOf(newLabels)[id] \in Names /\ ~Numeric(NamesOf(newLabels)[id])
<1> DEFINE base == Base(newLabels)[id]
<1>1. base # Empty
  BY DEF NamesOf, Collisions, SameName
<1>2. base \in Names /\ base = Segment[newLabels[id]] /\ newLabels[id] \in Labels
  BY <1>1, BaseType
<1>3. ~Numeric(base)
  BY <1>1, <1>2 DEF NoNumericLabel
<1>4. NamesOf(newLabels)[id] = base \/ NamesOf(newLabels)[id] = Suffixed(base, id)
  BY DEF NamesOf
<1>5. Suffixed(base, id) \in Names /\ ~Numeric(Suffixed(base, id))
  <2>1. base \in Seq(Words \cup NodeIds) /\ Len(base) \in Nat /\ Len(base) # 0
    BY <1>2 DEF Names
  <2>2. /\ Suffixed(base, id) \in Seq(Words \cup NodeIds)
        /\ Len(Suffixed(base, id)) = Len(base) + 1
    BY <2>1 DEF Suffixed
  <2> QED
    BY <2>1, <2>2 DEF Names, Numeric
<1> QED
  BY <1>2, <1>3, <1>4, <1>5

\* byName is an index of the keys, whichever order the map was ranged over in.
IndexOfKeys == KeysOfLabels /\ byName \in ByNames(resolved)

\* The index of a new Namer is of its keys: of none.
LEMMA InitIndex == Init => IndexOfKeys
  BY InitKeys DEF Init, IndexOfKeys

\* Recompute builds the index of the keys it has just made (naming.go:71-82).
LEMMA NextIndex == IndexOfKeys /\ [Next]_vars => IndexOfKeys'
  BY NextKeys DEF IndexOfKeys, Next, Recompute, vars

\* Through the index every spelling of a key leads to its node.
LEMMA IndexAddresses ==
  ASSUME NoSuffixClash, NoNumericLabel, IndexOfKeys
  PROVE  NameAddressesOwner
<1> SUFFICES ASSUME NEW id \in NodeIds, resolved[id] # Empty,
                    NEW spelling \in {resolved[id], Fold(resolved[id])}
             PROVE  ResolveNode(spelling) = id
  BY DEF NameAddressesOwner
<1>1. labels \in [NodeIds -> Labels] /\ resolved = NamesOf(labels)
  BY DEF IndexOfKeys, KeysOfLabels
<1>2. resolved[id] \in Names /\ ~Numeric(resolved[id])
  BY <1>1, KeyNotNumeric
<1>3. ~Numeric(spelling) /\ Fold(spelling) = Fold(resolved[id])
  BY <1>2, FoldName
<1>4. Fold(resolved[id]) \in DOMAIN byName
  BY DEF IndexOfKeys, ByNames, FoldedKeys
<1> DEFINE owner == byName[Fold(resolved[id])]
<1>5. owner \in NodeIds /\ resolved[owner] # Empty /\ Fold(resolved[owner]) = Fold(resolved[id])
  BY <1>4 DEF IndexOfKeys, ByNames
<1>6. owner = id
  BY <1>1, <1>5, KeysDistinct DEF SameName
<1> QED
  BY <1>3, <1>4, <1>6 DEF ResolveNode, Lookup

\* After any number of recomputations, a name that is published leads back to
\* the node it is published for, in any spelling (naming.go:45-50,
\* bridge.go:549-559).
THEOREM NamesAddressOwners ==
  ASSUME NoSuffixClash, NoNumericLabel
  PROVE  Spec => []NameAddressesOwner
<1>1. IndexOfKeys => NameAddressesOwner
  BY IndexAddresses
<1> QED
  BY <1>1, InitIndex, NextIndex, PTL DEF Spec

-----------------------------------------------------------------------------
(* Why a key changes. *)

\* A node keeps its base name with its label.
LEMMA BaseKept ==
  ASSUME NEW old, NEW new, NEW id \in NodeIds, old[id] = new[id]
  PROVE  Base(old)[id] = Base(new)[id]
  BY DEF Base

\* Only a collision that comes or goes renames a node that keeps its label.
LEMMA KeyChanges ==
  ASSUME NEW old, NEW new, NEW id \in NodeIds, old[id] = new[id],
         NamesOf(old)[id] # NamesOf(new)[id]
  PROVE  \E other \in NodeIds \ {id} :
           /\ new[other] # old[other]
           /\ SameName(Base(old)[id], Base(old)[other]) \/ SameName(Base(old)[id], Base(new)[other])
<1>1. Base(old)[id] = Base(new)[id]
  BY BaseKept
<1>2. ~ (id \in Collisions(old) <=> id \in Collisions(new))
  BY <1>1 DEF NamesOf
<1>3. CASE id \in Collisions(old) /\ id \notin Collisions(new)
  <2>1. PICK other \in NodeIds \ {id} : SameName(Base(old)[id], Base(old)[other])
    BY <1>3 DEF Collisions
  <2>2. ~ SameName(Base(new)[id], Base(new)[other])
    BY <1>3 DEF Collisions
  <2>3. new[other] # old[other]
    BY <1>1, <2>1, <2>2, BaseKept
  <2> QED
    BY <2>1, <2>3
<1>4. CASE id \notin Collisions(old) /\ id \in Collisions(new)
  <2>1. PICK other \in NodeIds \ {id} : SameName(Base(new)[id], Base(new)[other])
    BY <1>4 DEF Collisions
  <2>2. ~ SameName(Base(old)[id], Base(old)[other])
    BY <1>4 DEF Collisions
  <2>3. new[other] # old[other]
    BY <1>1, <2>1, <2>2, BaseKept
  <2> QED
    BY <1>1, <2>1, <2>3
<1> QED
  BY <1>2, <1>3, <1>4

\* A node whose label stays is renamed only when the label of a node with its name,
\* up to case, comes or goes (naming.go:52-54).
THEOREM RenamesHaveReasons == Spec => RenamedForAReason
<1> DEFINE Reason(id) ==
      \/ labels'[id] # labels[id]
      \/ \E other \in NodeIds \ {id} :
           /\ labels'[other] # labels[other]
           /\ \/ SameName(Base(labels)[id], Base(labels)[other])
              \/ SameName(Base(labels)[id], Base(labels')[other])
<1>1. KeysOfLabels /\ [Next]_vars => [\A id \in changed' : Reason(id)]_vars
  <2> SUFFICES ASSUME KeysOfLabels, NEW newLabels \in [NodeIds -> Labels], Recompute(newLabels),
                      NEW id \in changed'
               PROVE  Reason(id)
    BY DEF Next
  <2>1. id \in NodeIds /\ NamesOf(labels)[id] # NamesOf(labels')[id]
    BY DEF KeysOfLabels, Recompute, Changed
  <2> QED
    BY <2>1, KeyChanges
<1> QED
  BY <1>1, InitKeys, NextKeys, PTL DEF Spec, RenamedForAReason

-----------------------------------------------------------------------------
(* Commands. *)

\* Two ids never share a folded name that counts, so that the reverse map leads back.
LEMMA ReverseFinds ==
  ASSUME NEW own, NEW rev \in Reverse(own), NEW i \in DOMAIN own,
         \A j \in DOMAIN own : LowerName[own[j]] = LowerName[own[i]] => j = i
  PROVE  LowerName[own[i]] \in DOMAIN rev /\ rev[LowerName[own[i]]] = i
<1> DEFINE folded == [j \in DOMAIN own |-> LowerName[own[j]]]
<1>1. /\ DOMAIN rev = {folded[j] : j \in DOMAIN own}
      /\ \A n \in DOMAIN rev : rev[n] \in DOMAIN own /\ folded[rev[n]] = n
  BY DEF Reverse
<1>2. folded[i] \in DOMAIN rev
  BY <1>1
<1> QED
  BY <1>1, <1>2

\* Where names are unambiguous each spelling of a name leads back to what has it.
LEMMA ClusterFound ==
  ASSUME LoadModel, Unambiguous, NEW c \in ClusterIds, NEW s \in ClusterSpellings(c)
  PROVE  ResolveCluster(s) = c
<1>1. /\ c \in DOMAIN table /\ table[c].name # Empty /\ table[c].name \in NameOrNone
      /\ s \in {table[c].name, LowerName[table[c].name]}
  BY CommandsAssumption DEF ClusterSpellings, ClusterName, LoadModel
<1> DEFINE own == [d \in DOMAIN table |-> table[d].name]
<1>2. clusterByName \in Reverse(own)
  BY DEF LoadModel
<1>3. \A d \in DOMAIN own : LowerName[own[d]] = LowerName[own[c]] => d = c
  BY <1>1 DEF Unambiguous
<1>4. c \in DOMAIN own /\ own[c] = table[c].name
  BY <1>1
<1>5. /\ LowerName[own[c]] \in DOMAIN clusterByName
      /\ clusterByName[LowerName[own[c]]] = c
  <2> HIDE DEF own
  <2> QED
    BY <1>2, <1>3, <1>4, ReverseFinds
<1>6. LowerName[s] = LowerName[table[c].name] /\ s \notin Nat
  BY <1>1, CommandsAssumption DEF NameOrNone
<1> QED
  BY <1>4, <1>5, <1>6 DEF ResolveCluster

\* A cluster's map is one of its own names, under one of the global ones.
LEMMA GlobalsMerged ==
  ASSUME NEW own, NEW rev \in ReverseAttributes(own)
  PROVE  \E mine \in Reverse(own), global \in Reverse(GlobalAttributes) :
           rev = [k \in DOMAIN mine \cup DOMAIN global |->
                    IF k \in DOMAIN global THEN global[k] ELSE mine[k]]
  BY DEF ReverseAttributes

\* ... and of an attribute of that cluster.
LEMMA AttributeFound ==
  ASSUME LoadModel, Unambiguous, NEW c \in ClusterIds, NEW a \in AttributeIds,
         NEW s \in AttributeSpellings(c, a)
  PROVE  ResolveAttribute(c, s) = a
<1>1. /\ c \in DOMAIN table /\ AttributeName(c, a) # Empty
      /\ s \in {AttributeName(c, a), LowerName[AttributeName(c, a)]}
  BY DEF AttributeSpellings, HasNamePath, ClusterName
<1> DEFINE own == table[c].attributes
           rev == attrByName[c]
           n == LowerName[AttributeName(c, a)]
<1>2. PICK mine \in Reverse(own), global \in Reverse(GlobalAttributes) :
        rev = [k \in DOMAIN mine \cup DOMAIN global |->
                 IF k \in DOMAIN global THEN global[k] ELSE mine[k]]
  <2>1. rev \in ReverseAttributes(own)
    BY <1>1 DEF LoadModel
  <2> HIDE DEF rev, own
  <2> QED
    BY <2>1, GlobalsMerged
<1>3. c \in DOMAIN attrByName
  BY <1>1 DEF LoadModel
<1>4. AttributeName(c, a) \in NameOrNone
  BY <1>1, CommandsAssumption DEF AttributeName, LoadModel, NameOrNone
<1>5. LowerName[s] = n /\ s \notin Nat
  BY <1>1, <1>4, CommandsAssumption DEF NameOrNone
<1>6. n \in DOMAIN rev /\ rev[n] = a
  <2>1. CASE a \in DOMAIN GlobalAttributes
    <3>1. AttributeName(c, a) = GlobalAttributes[a]
      BY <2>1 DEF AttributeName
    <3>2. \A b \in DOMAIN GlobalAttributes :
            LowerName[GlobalAttributes[b]] = LowerName[GlobalAttributes[a]] => b = a
      BY <2>1, CommandsAssumption
    <3>3. n \in DOMAIN global /\ global[n] = a
      BY <1>2, <2>1, <3>1, <3>2, ReverseFinds
    <3> QED
      BY <1>2, <3>3
  <2>2. CASE a \notin DOMAIN GlobalAttributes
    <3>1. a \in DOMAIN own /\ AttributeName(c, a) = own[a] /\ own[a] # Empty
      BY <1>1, <2>2 DEF AttributeName
    <3>2. \A b \in DOMAIN own : LowerName[own[b]] = LowerName[own[a]] => b = a
      BY <1>1, <3>1 DEF Unambiguous
    <3>3. \A b \in DOMAIN GlobalAttributes : LowerName[own[a]] # LowerName[GlobalAttributes[b]]
      BY <1>1, <2>2, <3>1 DEF Unambiguous
    <3>4. n \notin DOMAIN global
      BY <1>2, <3>1, <3>3 DEF Reverse
    <3>5. n \in DOMAIN mine /\ mine[n] = a
      <4> HIDE DEF own
      <4> QED
        BY <1>2, <3>1, <3>2, ReverseFinds
    <3> QED
      BY <1>2, <3>4, <3>5
  <2> QED
    BY <2>1, <2>2
<1> QED
  BY <1>3, <1>5, <1>6 DEF ResolveAttribute

\* What the theorems about commands rest on.
CommandInv == IndexOfKeys /\ LoadModel

\* The names change under a model that does not.
LEMMA CommandsAlways == CommandSpec => []CommandInv
<1>1. CommandInit => CommandInv
  BY InitIndex DEF CommandInit, CommandInv
<1>2. CommandInv /\ [CommandNext]_cvars => CommandInv'
  <2> SUFFICES ASSUME CommandInv, [CommandNext]_cvars
               PROVE  CommandInv'
    OBVIOUS
  <2>1. [Next]_vars /\ UNCHANGED model
    BY DEF CommandNext, cvars
  <2>2. IndexOfKeys'
    BY <2>1, NextIndex DEF CommandInv
  <2>3. LoadModel'
    BY <2>1 DEF CommandInv, LoadModel, model
  <2> QED
    BY <2>2, <2>3 DEF CommandInv
<1> QED
  BY <1>1, <1>2, PTL DEF CommandSpec

\* A segment that is a node's id or name resolves to the node.
LEMMA NodeFound ==
  ASSUME NoSuffixClash, NoNumericLabel, CommandInv,
         NEW id \in NodeIds, NEW node \in {<<id>>} \cup NameSpellings(id)
  PROVE  ResolveNode(node) = id /\ id # Empty
<1>1. id # Empty
  BY NamingAssumption, CommandsAssumption
<1>2. CASE node = <<id>>
  BY <1>1, <1>2, NamingAssumption DEF ResolveNode, Numeric
<1>3. CASE node \in NameSpellings(id)
  <2>1. resolved[id] # Empty /\ node \in {resolved[id], Fold(resolved[id])}
    BY <1>3 DEF NameSpellings
  <2>2. NameAddressesOwner
    BY IndexAddresses DEF CommandInv
  <2> QED
    BY <1>1, <2>1, <2>2 DEF NameAddressesOwner
<1> QED
  BY <1>2, <1>3

\* After any recomputations, for any model files: a topic that an attribute is
\* mirrored on, with /set after it, writes that attribute of that device
\* (bridge.go:527-528, model.go:153-155).
THEOREM TopicsCanBeWritten ==
  ASSUME NoSuffixClash, NoNumericLabel
  PROVE  CommandSpec => []RoundTrip
<1>1. CommandInv => RoundTrip
  <2> SUFFICES ASSUME CommandInv, NEW id \in NodeIds, NEW endpoint \in Endpoints,
                      NEW c \in ClusterIds, NEW a \in AttributeIds,
                      NEW node \in {<<id>>} \cup NameSpellings(id),
                      NEW cluster \in {c} \cup (IF Unambiguous THEN ClusterSpellings(c) ELSE {}),
                      NEW attribute \in {a} \cup (IF Unambiguous THEN AttributeSpellings(c, a) ELSE {})
               PROVE  WriteOf([node |-> node, endpoint |-> endpoint, cluster |-> cluster,
                               attribute |-> attribute]) = WriteAttribute(id, endpoint, c, a)
    BY DEF RoundTrip
  <2>1. ResolveNode(node) = id /\ id # Empty
    BY NodeFound
  <2>2. c \in Nat /\ a \in Nat /\ endpoint \in Nat /\ c # None /\ a # None
    BY CommandsAssumption
  <2>3. ResolveCluster(cluster) = c
    <3>1. CASE cluster = c
      BY <2>2, <3>1 DEF ResolveCluster
    <3>2. CASE Unambiguous /\ cluster \in ClusterSpellings(c)
      BY <3>2, ClusterFound DEF CommandInv
    <3> QED
      BY <3>1, <3>2
  <2>4. ResolveAttribute(c, attribute) = a
    <3>1. CASE attribute = a
      BY <2>2, <3>1 DEF ResolveAttribute
    <3>2. CASE Unambiguous /\ attribute \in AttributeSpellings(c, a)
      BY <3>2, AttributeFound DEF CommandInv
    <3> QED
      BY <3>1, <3>2
  <2> QED
    BY <2>1, <2>2, <2>3, <2>4 DEF WriteOf, Resolvable
<1> QED
  BY <1>1, CommandsAlways, PTL

\* The console and MQTT make the same call of the same request (httpserver.go:19-20).
THEOREM ConsoleIsMqtt ==
  ASSUME NoSuffixClash, NoNumericLabel
  PROVE  CommandSpec => []OneCodePath
<1>1. CommandInv => OneCodePath
  <2> SUFFICES ASSUME CommandInv, NEW id \in NodeIds, NEW endpoint \in Endpoints,
                      NEW cluster \in ClusterSegments,
                      NEW node \in {<<id>>} \cup NameSpellings(id)
               PROVE  /\ \A attribute \in AttributeSegments :
                           PostedWrite(id, endpoint, cluster, attribute)
                             = WriteOf([node |-> node, endpoint |-> endpoint, cluster |-> cluster,
                                        attribute |-> attribute])
                      /\ \A name \in CommandNames, form \in {"object", "name"} :
                           PostedCommand(id, endpoint, cluster, name)
                             = CommandOf([node |-> node, endpoint |-> endpoint, cluster |-> cluster],
                                         [form |-> form, name |-> name])
    BY DEF OneCodePath
  <2>1. ResolveNode(node) = id /\ id # Empty
    BY NodeFound
  <2>2. endpoint \in Nat /\ Empty \notin CommandNames
    BY CommandsAssumption
  <2>3. ASSUME NEW attribute \in AttributeSegments
        PROVE  PostedWrite(id, endpoint, cluster, attribute)
                 = WriteOf([node |-> node, endpoint |-> endpoint, cluster |-> cluster,
                            attribute |-> attribute])
    BY <2>1, <2>2 DEF PostedWrite, WriteOf, Resolvable
  <2>4. ASSUME NEW name \in CommandNames, NEW form \in {"object", "name"}
        PROVE  PostedCommand(id, endpoint, cluster, name)
                 = CommandOf([node |-> node, endpoint |-> endpoint, cluster |-> cluster],
                             [form |-> form, name |-> name])
    BY <2>1, <2>2 DEF PostedCommand, CommandOf, CommandNameOf, Resolvable
  <2> QED
    BY <2>3, <2>4
<1> QED
  BY <1>1, CommandsAlways, PTL
=============================================================================
