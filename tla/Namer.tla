------------------------------- MODULE Namer --------------------------------
(***************************************************************************)
(* The Namer of naming.go and the name half of the command topics          *)
(* (resolveNode of bridge.go).  Recompute, Name and Lookup each hold the   *)
(* Namer's lock for their whole body, so each is one atomic step.          *)
(***************************************************************************)
EXTENDS Naming

VARIABLES labels,    \* the raw label of every node in the list last given to
                     \* Recompute, NoLabel for the nodes that are not in it
          resolved,  \* node id -> key, Empty where the map has no entry
          byName,    \* folded key -> node id
          changed    \* what the last Recompute returned

vars == <<labels, resolved, byName, changed>>

FoldedKeys(names) == {Fold(names[id]) : id \in {i \in NodeIds : names[i] # Empty}}

\* byName is filled by a range over a Go map, whose order is not specified: when
\* two keys fold to the same string, either node may be written last.
ByNames(names) ==
  {bn \in [FoldedKeys(names) -> NodeIds] :
     \A f \in DOMAIN bn : names[bn[f]] # Empty /\ Fold(names[bn[f]]) = f}

Init ==
  /\ labels = [id \in NodeIds |-> NoLabel]
  /\ resolved = [id \in NodeIds |-> Empty]
  /\ byName \in ByNames(resolved)
  /\ changed = {}

\* The list comes from the bridge's cache and may differ from the previous one
\* in any number of nodes: an event changes one, a new session all of them.
Recompute(newLabels) ==
  /\ labels' = newLabels
  /\ resolved' = NamesOf(newLabels)
  /\ byName' \in ByNames(resolved')
  /\ changed' = Changed(resolved, resolved')

Next == \E newLabels \in [NodeIds -> Labels] : Recompute(newLabels)

Spec == Init /\ [][Next]_vars

\* Mutant: the name is looked up as it is written.
LookupExact(name) == IF name \in DOMAIN byName THEN byName[name] ELSE Empty

\* Empty stands for no node.
Lookup(name) == IF Fold(name) \in DOMAIN byName THEN byName[Fold(name)] ELSE Empty

\* strconv.ParseUint succeeds.
Numeric(segment) == Len(segment) = 1 /\ segment[1] \notin Words

\* The node a command topic addresses: the segment is tried as a number first.
ResolveNode(segment) == IF Numeric(segment) THEN segment[1] ELSE Lookup(segment)

-----------------------------------------------------------------------------
\* The maps hold nodes and keys, and byName indexes the keys of resolved and no
\* others (naming.go:98-99).
TypeOK ==
  /\ labels \in [NodeIds -> Labels]
  /\ resolved \in [NodeIds -> Names \cup {Empty}]
  /\ changed \subseteq NodeIds
  /\ byName \in [FoldedKeys(resolved) -> NodeIds]

\* No two devices publish on one retained topic, nor on topics that a
\* case-insensitive lookup cannot tell apart (naming.go:73-76: "Two devices
\* sharing a label would otherwise interleave their state onto one retained
\* topic").
NamesDistinct ==
  \A id, other \in NodeIds :
    id # other /\ resolved[id] # Empty => ~SameName(resolved[id], resolved[other])

\* A name addresses the node that carries it (bridge.go:549: "resolveNode
\* accepts a numeric node id or a friendly name, so the named/ tree is
\* addressable by either"), in whatever case the sender writes it.
NameAddressesOwner ==
  \A id \in NodeIds : resolved[id] # Empty =>
    \A spelling \in {resolved[id], Fold(resolved[id])} : ResolveNode(spelling) = id

\* A node whose label stays as it was is renamed only because a node with its
\* name came or went: no Recompute moves a name it has no reason to move
\* (naming.go:52-54).
RenamedForAReason ==
  [][\A id \in changed' :
       \/ labels'[id] # labels[id]
       \/ \E other \in NodeIds \ {id} :
            /\ labels'[other] # labels[other]
            /\ \/ SameName(Base(labels)[id], Base(labels)[other])
               \/ SameName(Base(labels)[id], Base(labels')[other])]_vars
=============================================================================
