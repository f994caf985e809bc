---------------------------- MODULE BridgeMirror ----------------------------
(***************************************************************************)
(* Bridge as the readers of the broker meet it where only the session      *)
(* fails, and the history of the fabric that it implements Mirror with.    *)
(*                                                                         *)
(* A handler of the Run goroutine is still one step in what it does to the *)
(* bridge's own state, which no other goroutine of this environment reads; *)
(* its publications reach the broker one by one, while the fabric changes, *)
(* events come in and the session drops.  retained is what the broker      *)
(* retains once the handler is through, seen what it retains now.          *)
(***************************************************************************)
EXTENDS Bridge

VARIABLES shown, ahead,  \* as in Mirror
          since,         \* changes since start_listening was answered
          doing,         \* what the Run goroutine is about, as in Mirror
          due,           \* what its handler has not published yet
          seen, heard    \* what a reader finds: the topics, bridge/matter_connected

history == <<shown, ahead, since>>
readers == <<seen, heard>>

\* A tree as readers see it.  Of a descriptor they see the name: the Basic
\* Information in it is as of the last publishNode.
Seen(payload, leaf) ==
  IF leaf = "descriptor" /\ payload # Empty THEN payload.name ELSE payload

Readable(topics) == [t \in Topic |-> Seen(topics[t], t[3])]

\* The topics that a fabric is retained on, and what is on them; Absent stands for
\* no fabric.
TreeOfFabric(f) ==
  LET keys == NamesOf(LabelsOf(f))
      present == IF f = Absent THEN {} ELSE {id \in NodeIds : f[id] # Absent}
      owners(t) == {id \in present : t \in NodeTopics(id, f[id], keys[id])}
  IN  Readable([t \in Topic |->
         IF owners(t) = {} THEN Empty
         ELSE LET id == CHOOSE i \in owners(t) : TRUE IN Payload(f[id], keys[id], t[3])])

-----------------------------------------------------------------------------
(* The history of the fabric. *)

HistoryInit == shown = Absent /\ ahead = <<fabric>> /\ since = 0

\* A dump shows the state that matter-server answered with, an event the state it
\* came from.
HistoryNext ==
  /\ since' = IF phase # "answered" THEN 0 ELSE since + (clock' - clock)
  /\ IF phase = "answered" /\ phase' = "serving"
       THEN /\ shown' = dump
            /\ ahead' = SubSeq(ahead, Len(ahead) - since + 1, Len(ahead))
     ELSE IF phase = "serving" /\ Len(events') < Len(events)
       THEN shown' = Head(ahead) /\ ahead' = Tail(ahead)
     ELSE /\ UNCHANGED shown
          /\ ahead' = IF clock' # clock THEN Append(ahead, fabric') ELSE ahead

-----------------------------------------------------------------------------
(* What a handler is about to publish: topics to clear, the nodes that        *)
(* refreshNames publishes again, what the handler itself publishes, and a     *)
(* word on bridge/matter_connected.                                           *)

NothingDue == [cleared |-> {}, renewed |-> {}, own |-> {}, word |-> "none"]

DumpDue ==
  [NothingDue EXCEPT
     !.own = UNION {PublishNode(id, dump[id], names'[id]) : id \in Dumped(names')},
     !.word = "true"]

\* A handler that has cleared the topics gone calls refreshNames, then publishes pub.
RefreshDue(gone, pub) ==
  [NothingDue EXCEPT !.cleared = gone \cup UNION {OldAliases(names')[id] : id \in NodeIds},
                     !.renewed = Renewed(nodes', names'),
                     !.own = pub]

MarksDue ==
  [NothingDue EXCEPT
     !.own = {<<<<"node", id, "availability">>, id, "offline">> : id \in {i \in NodeIds : tracked[i] # {}}},
     !.word = "false"]

Waits == doing = "waits"

Starts(what) == doing' = what /\ UNCHANGED readers

DumpStarts == Waits /\ Dump /\ due' = DumpDue /\ Starts("tells")

\* A value renames nothing: refreshNames, which is not called, would do nothing.
AttributeStarts ==
  /\ Waits /\ HandleAttribute
  /\ LET ev == Head(events)
     IN  due' = RefreshDue({}, PublishAttribute(ev.id, names'[ev.id], ev.leaf, ev.val))
  /\ Starts("tells")

NodeStarts ==
  /\ Waits /\ HandleNode
  /\ LET id == Head(events).id
     IN  due' = RefreshDue({}, PublishNode(id, nodes'[id], names'[id]))
  /\ Starts("tells")

RemovedStarts ==
  /\ Waits /\ HandleRemoved
  /\ due' = RefreshDue(tracked[Head(events).id], {})
  /\ Starts("tells")

ReconnectStarts == Waits /\ Reconnect /\ due' = MarksDue /\ Starts("marks")

-----------------------------------------------------------------------------
(* The publications, in the order the code makes them. *)

PublicationsOnly == UNCHANGED <<vars, history>>

\* clearNode and clearNamedTopics: the topics of a Go map, in any order.
Clears(t) ==
  /\ t \in due.cleared
  /\ due' = [due EXCEPT !.cleared = @ \ {t}]
  /\ seen' = [seen EXCEPT ![t] = Empty]
  /\ PublicationsOnly
  /\ UNCHANGED <<heard, doing>>

Place(leaf) == CASE leaf = "availability" -> 1 [] leaf = "name" -> 2
                 [] leaf \in StateLeaves -> 3 [] leaf = "descriptor" -> 4

\* publishNode's order: the attributes, which are in a Go map, in any; of one
\* attribute the numeric topic first, and its alias before the next attribute.
Before(p, q, pub) ==
  \/ Place(p[1][3]) < Place(q[1][3])
  \/ /\ p[1][3] = q[1][3] /\ p[1] \notin NamedTopic /\ q[1] \in NamedTopic
  \/ /\ p[1] \in NamedTopic /\ q[1] \notin NamedTopic /\ p[1][3] # q[1][3]
     /\ Place(p[1][3]) = Place(q[1][3])
     /\ \A r \in pub : r[2] = p[2] => r[1] # <<"node", p[2], p[1][3]>>

\* The nodes come in any order, one after the other: one whose availability is
\* published while others of its topics are not is under way.
First(p, pub) ==
  /\ \A q \in pub : q[2] = p[2] => ~ Before(q, p, pub)
  /\ \A q \in pub : q[2] # p[2] => \E r \in pub : r[2] = q[2] /\ r[1][3] = "availability"

\* Mutant: publishing does not wait for the old names to be cleared.
PublishesEarly(p, pub) ==
  /\ p \in pub /\ First(p, pub) /\ due.word # "false"
  /\ seen' = [seen EXCEPT ![p[1]] = p[3]]
  /\ PublicationsOnly
  /\ UNCHANGED <<heard, doing>>

Publishes(p, pub) ==
  /\ p \in pub /\ First(p, pub)
  /\ due.cleared = {} /\ due.word # "false"
  /\ seen' = [seen EXCEPT ![p[1]] = p[3]]
  /\ PublicationsOnly
  /\ UNCHANGED <<heard, doing>>

Renews(p) == Publishes(p, due.renewed) /\ due' = [due EXCEPT !.renewed = @ \ {p}]

PublishesOwn(p) ==
  due.renewed = {} /\ Publishes(p, due.own) /\ due' = [due EXCEPT !.own = @ \ {p}]

\* bridge/matter_connected: "false" before the nodes are marked, "true" after the dump.
SaysWord ==
  /\ due.word = "false" \/ (due.word = "true" /\ due.own = {})
  /\ heard' = due.word
  /\ due' = [due EXCEPT !.word = "none"]
  /\ PublicationsOnly
  /\ UNCHANGED <<seen, doing>>

\* Back to the select, or to the wait before the next dial.
Returns ==
  /\ ~ Waits /\ due = NothingDue
  /\ doing' = "waits"
  /\ PublicationsOnly
  /\ UNCHANGED <<due, readers>>

-----------------------------------------------------------------------------
ReadersInit ==
  /\ Init /\ HistoryInit
  /\ doing = "waits" /\ due = NothingDue
  /\ seen = retained /\ heard = matterConnected

\* The fabric and the websocket do not wait for the Run goroutine.
Meanwhile == (FabricNext \/ WsDrops) /\ UNCHANGED <<doing, due, readers>>

Proceeds ==
  /\ Waits /\ (Dial \/ DialFails \/ ServerAnswers \/ CallFails \/ SessionEnds)
  /\ UNCHANGED <<doing, due, readers>>

HandlerStarts == DumpStarts \/ AttributeStarts \/ NodeStarts \/ RemovedStarts \/ ReconnectStarts

Publication ==
  \/ \E t \in due.cleared : Clears(t)
  \/ \E p \in due.renewed : Renews(p)
  \/ \E p \in due.own : PublishesOwn(p)
  \/ SaysWord \/ Returns

ReadersNext == ((Meanwhile \/ Proceeds \/ HandlerStarts) /\ HistoryNext) \/ Publication

readersVars == <<vars, history, doing, due, readers>>

ReadersSpec == ReadersInit /\ [][ReadersNext]_readersVars

\* The Run goroutine goes on, and matter-server answers start_listening; nothing makes
\* the fabric change or anything fail, but the call of a session that has died returns.
RunGoesOn ==
  \/ HandlerStarts /\ HistoryNext
  \/ (Dial \/ DialFails \/ SessionEnds \/ (~alive /\ CallFails)) /\ Proceeds /\ HistoryNext
  \/ Publication

Answers == ServerAnswers /\ Proceeds /\ HistoryNext

FairReaders == ReadersSpec /\ WF_readersVars(RunGoesOn) /\ WF_readersVars(Answers)

-----------------------------------------------------------------------------
(* Properties. *)

M == INSTANCE Mirror WITH Fabrics <- Nodes, Nothing <- Absent, Topics <- Topic,
                          Aliases <- NamedTopic, Blank <- Empty, TreeOf <- TreeOfFabric,
                          Marks <- {<<"node", id, "availability">> : id \in NodeIds},
                          connected <- heard, tree <- Readable(seen)

\* Topic by topic, a reader of the retained tree is told one state of the fabric
\* after the other, nodes, names and both trees, each to its end before the next and
\* none older than the last.  Old names and removed nodes are gone before anything
\* new appears, no topic that a node keeps is missing on the way, "true" on
\* matter_connected comes after the whole dump, "false" before the nodes go offline
\* (session, handleEvent, refreshNames and publishNode of bridge.go:265-310, 314-367,
\* 380-445, 706-734, "clearing the retained topics published under the old name
\* first"; README.md:3-8).
IsMirror == M!MirrorSpec

\* However the sessions fail, readers come to be told the fabric as it is, the whole of
\* it, and nothing else from then on (bridge.go:172-190; README.md:330-332, "On
\* reconnect it re-issues start_listening and republishes the full node dump").
EventuallyConverged == <>[](Waits /\ heard = "true" /\ Readable(seen) = TreeOfFabric(fabric))
=============================================================================
