------------------------------- MODULE Naming -------------------------------
(***************************************************************************)
(* The pure part of naming.go: how the NodeLabels of a fabric become the   *)
(* keys of the named/ topic tree.                                          *)
(*                                                                         *)
(* A raw NodeLabel is an element of Labels.  Segment maps it to the topic  *)
(* segment labelOf and topicSegment make of it: two different labels can   *)
(* give the same segment ("a/b" and "a-b"), and a missing, null or blank   *)
(* label gives Empty.  A segment is a sequence of words and of decimal     *)
(* numbers (the node ids are the only numbers that matter), joined by      *)
(* dashes, so that <<Sensor, 4>> is both what the label "Sensor-4" reads   *)
(* as and what node 4 is called when its label "Sensor" collides.          *)
(***************************************************************************)
EXTENDS Naturals, Sequences

CONSTANTS NodeIds,   \* Matter node ids
          Labels,    \* raw values of attribute 0/40/5
          NoLabel,   \* the one that stands for a missing attribute
          Words,     \* the words labels are made of
          Lower,     \* strings.ToLower on words
          Segment,   \* topicSegment(labelOf(node)), per raw label
          Empty      \* the empty string and the empty payload

Names == Seq(Words \cup NodeIds) \ {<<>>}

ASSUME NamingAssumption ==
  /\ NodeIds \subseteq Nat
  /\ Words \cap NodeIds = {}
  /\ Lower \in [Words -> Words]
  /\ \A w \in Words : Lower[Lower[w]] = Lower[w]
  /\ NoLabel \in Labels
  /\ DOMAIN Segment = Labels
  /\ Segment[NoLabel] = Empty
  /\ \A l \in Labels : Segment[l] = Empty \/ Segment[l] \in Names
  /\ Empty \notin Names

\* strings.ToLower of a name; the numbers in it have no case.
Fold(name) == [i \in DOMAIN name |-> IF name[i] \in Words THEN Lower[name[i]]
                                                          ELSE name[i]]

\* What a node is called before disambiguation: labels gives a node's raw
\* label, and a node that is not on the fabric has one whose segment is Empty.
Base(labels) == [id \in NodeIds |-> Segment[labels[id]]]

SameName(m, n) == m # Empty /\ n # Empty /\ Fold(m) = Fold(n)

Suffixed(name, id) == Append(name, id)

\* Mutant: the names are counted without folding their case.
CollisionsExact(labels) ==
  {id \in NodeIds : \E other \in NodeIds \ {id} :
      Base(labels)[id] # Empty /\ Base(labels)[id] = Base(labels)[other]}

\* Mutant: one collision disambiguates every named node.
CollisionsAll(labels) ==
  {id \in NodeIds : /\ Base(labels)[id] # Empty
                     /\ \E i \in NodeIds, j \in NodeIds :
                          i < j /\ SameName(Base(labels)[i], Base(labels)[j])}

\* The ids that share a folded base name with another node: the members of the
\* groups Collisions reports.
Collisions(labels) ==
  {id \in NodeIds : \E other \in NodeIds \ {id} :
                       SameName(Base(labels)[id], Base(labels)[other])}

\* Recompute's next: every node's key in the named/ tree, Empty when it has none.
NamesOf(labels) ==
  [id \in NodeIds |-> IF id \in Collisions(labels)
                        THEN Suffixed(Base(labels)[id], id)
                        ELSE Base(labels)[id]]

\* Recompute's result: the nodes whose key differs, gained and lost ones too.
Changed(old, new) == {id \in NodeIds : old[id] # new[id]}
=============================================================================
