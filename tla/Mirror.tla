------------------------------- MODULE Mirror -------------------------------
(***************************************************************************)
(* What the bridge promises to the readers of the retained topics while    *)
(* nothing but the session to matter-server fails.  The tree is told topic *)
(* by topic, so a reader may see half of a state; but each state that is   *)
(* told is one the fabric was really in and never an earlier one, it is    *)
(* told to the end before the next is begun, nothing in it is missing on   *)
(* the way that was there before, the names it does not have are gone      *)
(* before anything of it appears, and "true" on bridge/matter_connected    *)
(* means that a dump has been told to the end.                             *)
(***************************************************************************)
EXTENDS Naturals, Sequences

CONSTANTS Fabrics,   \* the states of a fabric
          Nothing,   \* no fabric has been told yet
          Topics,    \* the retained topics, of them
          Aliases,   \*   those with a name in them
          Marks,     \*   and those that say whether a node is online
          Blank,     \* the payload of a topic that is not retained
          TreeOf(_)  \* what is retained of a fabric

VARIABLES shown,     \* the state of the fabric that is told, or was told last
          ahead,     \* the later ones, oldest first; the last is the present
          connected, \* bridge/matter_connected
          tree,      \* what a reader finds
          doing      \* what the bridge is about

mirror == <<shown, ahead, connected, tree, doing>>

MirrorInit ==
  /\ shown = Nothing
  /\ ahead \in {<<f>> : f \in Fabrics}
  /\ connected # "true"
  /\ tree = TreeOf(Nothing)
  /\ doing = "waits"

Change ==
  /\ UNCHANGED <<shown, connected, tree, doing>>
  /\ \E f \in Fabrics : ahead' = Append(ahead, f)

\* The next state to tell: the one told last, which may have gone dark, or a
\* later one.
Begin ==
  /\ doing = "waits" /\ doing' = "tells"
  /\ UNCHANGED <<connected, tree>>
  /\ \E n \in 0 .. Len(ahead) :
       /\ n > 0 \/ shown # Nothing
       /\ shown' = IF n = 0 THEN shown ELSE ahead[n]
       /\ ahead' = SubSeq(ahead, n + 1, Len(ahead))

\* A topic of the state is told, or one that is not in it is cleared.  While an alias
\* is left to clear nothing is told: no node is found under two names there.
Tell ==
  /\ doing = "tells"
  /\ UNCHANGED <<shown, ahead, connected, doing>>
  /\ LET next == TreeOf(shown)
     IN  \E t \in Topics :
           /\ tree' = [tree EXCEPT ![t] = next[t]]
           /\ next[t] # Blank => \A a \in Aliases : next[a] = Blank => tree[a] = Blank

Connect ==
  /\ doing = "tells"
  /\ connected # "true" /\ connected' = "true"
  /\ UNCHANGED <<shown, ahead, tree, doing>>
  /\ tree = TreeOf(shown)

Told ==
  /\ doing = "tells" /\ doing' = "waits"
  /\ UNCHANGED <<shown, ahead, connected, tree>>
  /\ tree = TreeOf(shown) /\ connected = "true"

\* The session is gone: readers learn that first, then of one node after another.
Lose ==
  /\ doing = "waits" /\ doing' = "marks"
  /\ UNCHANGED <<shown, ahead, connected, tree>>

Disconnect ==
  /\ doing = "marks" /\ connected' = "false"
  /\ UNCHANGED <<shown, ahead, tree, doing>>

Mark ==
  /\ doing = "marks" /\ connected = "false"
  /\ UNCHANGED <<shown, ahead, connected, doing>>
  /\ \E t \in Marks : tree[t] # Blank /\ tree' = [tree EXCEPT ![t] = "offline"]

Marked ==
  /\ doing = "marks" /\ doing' = "waits" /\ connected = "false"
  /\ \A t \in Marks : tree[t] \in {Blank, "offline"}
  /\ UNCHANGED <<shown, ahead, connected, tree>>

MirrorNext ==
  \/ Change
  \/ Begin \/ Tell \/ Connect \/ Told
  \/ Lose \/ Disconnect \/ Mark \/ Marked

MirrorSpec == MirrorInit /\ [][MirrorNext]_mirror
=============================================================================
