---------------------------- MODULE TrackedTopics ----------------------------
(***************************************************************************)
(* b.topics of bridge.go at the grain of its lock: publishTracked records  *)
(* a topic and publishes it after the unlock, clearNode takes the topics   *)
(* of a node and empties them one by one after the unlock.  Two goroutines *)
(* do this for the same node: Run, for what matter-server reports, and a   *)
(* remove_node request, when the response has come.  Bridge.tla takes each *)
(* of these calls as one step.                                             *)
(*                                                                         *)
(* One node; the messages of one MQTT client reach the broker in the order *)
(* of the Publish calls.  matter-server and the broker are external.       *)
(***************************************************************************)
EXTENDS Naturals, Sequences, FiniteSets

CONSTANTS Leaves,     \* the attributes of the node
          Empty,      \* no retained message
          None,       \* no topic
          Requests,   \* what comes of the remove_node request, if any
          MaxReports, \* bound: reports of an attribute
          MaxDrops    \* bound: sessions that end

ASSUME TrackedTopicsAssumption ==
  /\ Requests \subseteq {"granted", "refused"} /\ MaxReports \in Nat /\ MaxDrops \in Nat
  /\ "removed" \notin Leaves /\ None \notin Leaves \cup {"availability"}
  /\ Empty \notin {"state", "offline"}

Topics == Leaves \cup {"availability"}

VARIABLES
  fabric,   \* external: the node is on the fabric
  reports,  \* external: reports so far
  drops,    \* external: sessions that have ended
  events,   \* Events: a leaf that was reported, or "removed"
  retained, \* the broker: topic -> "state", "offline" or Empty
  tracked,  \* b.topics of the node
  run,      \* what Run is at: select, publish, clear, mark, redial
  todo,     \* the topics its handler has still to publish
  recorded, \* the topic publishTracked has recorded and not published
  runLeft,  \* the topics its clearNode has taken and not emptied
  req,      \* the request's goroutine: none, answered, clear, done
  reqLeft   \* the topics its clearNode has taken and not emptied

world == <<fabric, reports, drops>>
request == <<req, reqLeft>>
vars == <<world, events, retained, tracked, run, todo, recorded, runLeft, request>>

Init ==
  /\ fabric = TRUE /\ reports = 0 /\ drops = 0
  /\ events = <<>>
  /\ retained = [t \in Topics |-> Empty]
  /\ tracked = {}
  /\ run = "redial"
  /\ todo = {} /\ recorded = None /\ runLeft = {}
  /\ req = "none" /\ reqLeft = {}

-----------------------------------------------------------------------------
(* matter-server, while the bridge has a session with it. *)

Watched == run \notin {"mark", "redial"}

Report ==
  /\ fabric /\ Watched /\ reports < MaxReports
  /\ reports' = reports + 1
  /\ \E l \in Leaves : events' = Append(events, l)
  /\ UNCHANGED <<fabric, drops, retained, tracked, run, todo, recorded, runLeft, request>>

\* Another controller removes the node, or the request does and is answered.
Remove ==
  /\ fabric /\ Watched
  /\ fabric' = FALSE
  /\ events' = Append(events, "removed")
  /\ \/ UNCHANGED req
     \/ "granted" \in Requests /\ req = "none" /\ req' = "answered"
  /\ UNCHANGED <<reports, drops, retained, tracked, run, todo, recorded, runLeft, reqLeft>>

-----------------------------------------------------------------------------
(* Run. *)

RunTurn == UNCHANGED <<fabric, reports, request>>

\* A dump has the whole node in it, or does not have it.
Dump ==
  /\ run = "redial"
  /\ run' = IF fabric THEN "publish" ELSE "select"
  /\ todo' = IF fabric THEN Topics ELSE {}
  /\ RunTurn
  /\ UNCHANGED <<drops, events, retained, tracked, recorded, runLeft>>

HandleAttribute ==
  /\ run = "select" /\ events # <<>> /\ Head(events) \in Leaves
  /\ events' = Tail(events)
  /\ run' = "publish"
  /\ todo' = {Head(events)}
  /\ RunTurn
  /\ UNCHANGED <<drops, retained, tracked, recorded, runLeft>>

\* Mutant: availability is published without being recorded.
RecordLeaves ==
  /\ run = "publish" /\ recorded = None
  /\ \E t \in todo : /\ tracked' = IF t \in Leaves THEN tracked \cup {t} ELSE tracked
                     /\ recorded' = t
                     /\ todo' = todo \ {t}
  /\ RunTurn
  /\ UNCHANGED <<drops, events, retained, run, runLeft>>

\* publishTracked up to the unlock ...
Record ==
  /\ run = "publish" /\ recorded = None
  /\ \E t \in todo : /\ tracked' = tracked \cup {t}
                     /\ recorded' = t
                     /\ todo' = todo \ {t}
  /\ RunTurn
  /\ UNCHANGED <<drops, events, retained, run, runLeft>>

\* ... and after it.
Send ==
  /\ run = "publish" /\ recorded # None
  /\ retained' = [retained EXCEPT ![recorded] = "state"]
  /\ recorded' = None
  /\ run' = IF todo = {} THEN "select" ELSE "publish"
  /\ RunTurn
  /\ UNCHANGED <<drops, events, tracked, todo, runLeft>>

\* Mutant: the entry is deleted before it is read.
TakeNothing ==
  /\ run = "select" /\ events # <<>> /\ Head(events) = "removed"
  /\ events' = Tail(events)
  /\ tracked' = {}
  /\ RunTurn
  /\ UNCHANGED <<drops, retained, run, todo, recorded, runLeft>>

\* clearNode under the lock ...
Take ==
  /\ run = "select" /\ events # <<>> /\ Head(events) = "removed"
  /\ events' = Tail(events)
  /\ runLeft' = tracked
  /\ tracked' = {}
  /\ run' = IF tracked = {} THEN "select" ELSE "clear"
  /\ RunTurn
  /\ UNCHANGED <<drops, retained, todo, recorded>>

\* ... and its loop over what it took, in the order of a Go map.
Clear ==
  /\ run = "clear"
  /\ \E t \in runLeft : /\ retained' = [retained EXCEPT ![t] = Empty]
                        /\ runLeft' = runLeft \ {t}
  /\ run' = IF runLeft' = {} THEN "select" ELSE "clear"
  /\ RunTurn
  /\ UNCHANGED <<drops, events, tracked, todo, recorded>>

\* markAllUnavailable takes the ids of the map under the lock ...
SessionEnds ==
  /\ run = "select" /\ events = <<>> /\ drops < MaxDrops
  /\ drops' = drops + 1
  /\ run' = IF tracked = {} THEN "redial" ELSE "mark"
  /\ RunTurn
  /\ UNCHANGED <<events, retained, tracked, todo, recorded, runLeft>>

\* ... and publishes after it.
Mark ==
  /\ run = "mark"
  /\ retained' = [retained EXCEPT !["availability"] = "offline"]
  /\ run' = "redial"
  /\ RunTurn
  /\ UNCHANGED <<drops, events, tracked, todo, recorded, runLeft>>

-----------------------------------------------------------------------------
(* The request. *)

RequestTurn == UNCHANGED <<world, events, run, todo, recorded, runLeft>>

\* The call fails or is refused; the goroutine goes on all the same.
RequestFails ==
  /\ "refused" \in Requests /\ req = "none"
  /\ req' = "answered"
  /\ RequestTurn
  /\ UNCHANGED <<retained, tracked, reqLeft>>

RequestTake ==
  /\ req = "answered"
  /\ req' = "clear"
  /\ reqLeft' = tracked
  /\ tracked' = {}
  /\ RequestTurn
  /\ UNCHANGED retained

RequestClear ==
  /\ req = "clear"
  /\ IF reqLeft = {} THEN req' = "done" /\ UNCHANGED <<retained, reqLeft>>
     ELSE \E t \in reqLeft : /\ retained' = [retained EXCEPT ![t] = Empty]
                             /\ reqLeft' = reqLeft \ {t}
                             /\ UNCHANGED req
  /\ RequestTurn
  /\ UNCHANGED tracked

-----------------------------------------------------------------------------
Next ==
  \/ Report \/ Remove
  \/ Dump \/ HandleAttribute \/ Record \/ Send \/ Take \/ Clear \/ SessionEnds \/ Mark
  \/ RequestFails \/ RequestTake \/ RequestClear

Spec == Init /\ [][Next]_vars

-----------------------------------------------------------------------------
(* Properties. *)

\* Everything that was to happen to a node that has left has happened.
Quiet == ~fabric /\ run = "select" /\ events = <<>> /\ req \in {"none", "done"}

\* Nothing of a removed node stays on the broker (README.md:274, "Removing a
\* node clears all of its retained topics"), provided its removal was not
\* requested over MQTT: whatever Run was about when the event came, its own
\* clearNode is the last to touch the node's topics (bridge.go:350-360, 299-309).
UnrequestedLeavesNothing ==
  req = "none" /\ Quiet => \A t \in Topics : retained[t] = Empty

\* The retained topics that nobody will clear any more.
Orphans == {t \in Topics : retained[t] # Empty} \ (tracked \cup runLeft \cup reqLeft)

\* The one request there is, which clears the node behind Run's back, costs one
\* topic at most, the one Run has recorded and not published (bridge.go:774-783,
\* 789-792); each further request could cost one more.  The "offline" of
\* markAllUnavailable is not counted: nobody records it.
OneOrphanAtMost == Cardinality({t \in Orphans : retained[t] = "state"}) <= 1
=============================================================================
