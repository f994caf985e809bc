------------------------------- MODULE Console -------------------------------
(***************************************************************************)
(* The live view of the web console: the Run goroutine caches an event and *)
(* broadcasts it (bridge.go), a goroutine per open page streams it as      *)
(* server-sent events (httpserver.go), and the page (web/index.html)       *)
(* applies attributes, and loads the nodes again for everything else.      *)
(*                                                                         *)
(* The page's requests and its event stream are different connections, so  *)
(* what goes through one may overtake what goes through the other.         *)
(***************************************************************************)
EXTENDS Naturals, Sequences, SequencesExt

CONSTANTS NodeIds,
          Absent,      \* a node that is not there
          ChanCap,     \* capacity of a subscriber's channel
          WireCap,     \* bound: messages on their way to the page
          MaxEvents,   \* bound: what happens at the bridge
          MaxLosses,   \* bound: streams that are lost
          Environments \* the environments to consider: see env

\* What may happen to a page beside events: the channel is full, something
\* happens between its first load and its stream, the stream is lost, a response
\* is overtaken by events, a new session dumps the nodes.
Kinds == {"overflow", "early", "lost_stream", "slow_response", "new_session"}

ASSUME ConsoleAssumption ==
  /\ ChanCap \in Nat \ {0} /\ WireCap \in Nat \ {0} /\ MaxEvents \in Nat /\ MaxLosses \in Nat
  /\ Environments \subseteq SUBSET Kinds

Node == [value : 0 .. MaxEvents, available : BOOLEAN]
ASSUME NodeAssumption == Absent \notin Node
Fabric == [NodeIds -> Node \cup {Absent}]

VARIABLES
  env,    \* what may happen in this behaviour
  \* the bridge
  cache,  \* b.nodes
  matter, \* b.mc is set: a session is open
  todo,   \* what the Run goroutine has still to do for the event at hand
  clock,  \* events so far; a reported value is its own event
  losses,
  \* the page's event stream
  stream, \* what its goroutine has still to do before it streams, or NoStream
  ch,     \* its channel in b.subs
  wire,   \* between the goroutine and the page
  \* the page
  page,   \* "start", "loading", "waiting" for a stream, "live"
  view,   \* state.nodes
  shown,  \* the dot of matter-server
  gets    \* its requests for the nodes: asked, or the response to come

run    == <<cache, matter, todo, clock>>
events == <<stream, ch, wire>>
client == <<page, view, shown, gets>>
vars == <<env, run, losses, events, client>>

Nowhere == [id \in NodeIds |-> Absent]
NoStream == <<"none">>
Asked == [at |-> "server"]
Response == [at |-> "page", nodes |-> cache]

-----------------------------------------------------------------------------
(* The Run goroutine. *)

\* The page has loaded the nodes, and what is broadcast does not reach it yet.
Unheard ==
  /\ page # "start" /\ {"none", "subscribe"} \cap ToSet(stream) # {}
  /\ page = "loading" => Asked \notin ToSet(gets)

Happens ==
  /\ todo = <<>> /\ clock < MaxEvents /\ clock' = clock + 1
  /\ UNCHANGED <<env, losses, events, client>>

\* Mutant: an event is broadcast before it is cached.
Told(nodes, msg) == <<[do |-> "broadcast", msg |-> msg], [do |-> "cache", nodes |-> nodes]>>

\* handleEvent: the cache first, the broadcast last.
Handled(nodes, msg) == <<[do |-> "cache", nodes |-> nodes], [do |-> "broadcast", msg |-> msg]>>

AttributeUpdated(id) ==
  /\ matter /\ cache[id] # Absent
  /\ Happens
  /\ todo' = Handled([cache EXCEPT ![id].value = clock + 1],
                     [type |-> "attribute", id |-> id, value |-> clock + 1])
  /\ UNCHANGED <<cache, matter>>

\* node_added and node_updated.
NodeUpdated(id) ==
  /\ matter /\ Happens
  /\ \E n \in {[value |-> clock + 1, available |-> a] : a \in BOOLEAN} :
       todo' = Handled([cache EXCEPT ![id] = n], [type |-> "node"])
  /\ UNCHANGED <<cache, matter>>

NodeRemoved(id) ==
  /\ matter /\ cache[id] # Absent
  /\ Happens
  /\ todo' = Handled([cache EXCEPT ![id] = Absent], [type |-> "node_removed"])
  /\ UNCHANGED <<cache, matter>>

\* The nodes stay as they were; a status is computed when it is broadcast.
SessionEnds ==
  /\ matter /\ Happens
  /\ matter' = FALSE
  /\ todo' = <<[do |-> "broadcast", msg |-> [type |-> "status", matter |-> FALSE]]>>
  /\ UNCHANGED cache

\* session: the new map is filled node by node, and nothing but the status is
\* broadcast.
SessionBegins ==
  /\ ~matter /\ Happens
  /\ matter' = TRUE
  /\ \E dump \in IF "new_session" \in env
                   THEN {cache, Nowhere} \cup {[cache EXCEPT ![id] = Absent] : id \in NodeIds}
                   ELSE {cache} :
       todo' = (IF "new_session" \in env THEN <<[do |-> "cache", nodes |-> Nowhere]>> ELSE <<>>)
                 \o Handled(dump, [type |-> "status", matter |-> TRUE])
  /\ UNCHANGED cache

Cache ==
  /\ todo # <<>> /\ Head(todo).do = "cache"
  /\ Unheard => {"early", "lost_stream"} \cap env # {}
  /\ cache' = Head(todo).nodes
  /\ todo' = Tail(todo)
  /\ UNCHANGED <<env, matter, clock, losses, events, client>>

\* A full channel does not hold up Run: the message is dropped.
Send(msg) ==
  \/ Len(ch) < ChanCap /\ ch' = Append(ch, msg)
  \/ Len(ch) = ChanCap /\ "overflow" \in env /\ UNCHANGED ch

\* The channel is in b.subs as soon as the goroutine has subscribed.
Broadcast ==
  /\ todo # <<>> /\ Head(todo).do = "broadcast"
  /\ todo' = Tail(todo)
  /\ IF {"none", "subscribe"} \cap ToSet(stream) # {} THEN UNCHANGED ch
                                                         ELSE Send(Head(todo).msg)
  /\ UNCHANGED <<env, cache, matter, clock, losses, stream, wire, client>>

-----------------------------------------------------------------------------
(* handleEvents, for the page's stream. *)

ServeUnchanged == UNCHANGED <<env, run, losses, client>>

\* Mutant: the status is taken before the channel is there.
SnapshotFirst == <<"snapshot", "subscribe">>

\* Subscribed first: what changes after the snapshot is in the channel.
Opening == <<"subscribe", "snapshot">>

Subscribe ==
  /\ stream # <<>> /\ Head(stream) = "subscribe"
  /\ stream' = Tail(stream)
  /\ UNCHANGED <<ch, wire>>
  /\ ServeUnchanged

Snapshot ==
  /\ stream # <<>> /\ Head(stream) = "snapshot"
  /\ stream' = Tail(stream)
  /\ wire' = Append(wire, [type |-> "status", matter |-> matter])
  /\ UNCHANGED ch
  /\ ServeUnchanged

Write ==
  /\ stream = <<>> /\ ch # <<>> /\ Len(wire) < WireCap
  /\ wire' = Append(wire, Head(ch))
  /\ ch' = Tail(ch)
  /\ UNCHANGED stream
  /\ ServeUnchanged

-----------------------------------------------------------------------------
(* The page. *)

PageUnchanged == UNCHANGED <<env, run, losses>>

\* init asks for the status, then for the nodes, and awaits both.
Load ==
  /\ page = "start"
  /\ page' = "loading"
  /\ shown' = matter
  /\ gets' = <<Asked>>
  /\ UNCHANGED <<view, events>>
  /\ PageUnchanged

\* handleNodes; then the page gets the response, sooner or later.
ServeNodes(k) ==
  /\ gets[k].at = "server"
  /\ "slow_response" \in env
  /\ gets' = [gets EXCEPT ![k] = Response]
  /\ UNCHANGED <<page, view, shown, events>>
  /\ PageUnchanged

\* loadNodes goes on: the first time, init opens the stream next.
LoadNodes(k) ==
  /\ gets[k].at = "page" \/ "slow_response" \notin env
  /\ view' = IF gets[k].at = "page" THEN gets[k].nodes ELSE cache
  /\ gets' = RemoveAt(gets, k)
  /\ page' = IF page = "loading" THEN "waiting" ELSE page
  /\ UNCHANGED <<shown, events>>
  /\ PageUnchanged

ConnectEvents ==
  /\ page = "waiting" /\ stream = NoStream
  /\ page' = "live"
  /\ stream' = Opening
  /\ UNCHANGED <<ch, wire, view, shown, gets>>
  /\ PageUnchanged

\* onerror: the page tries again in three seconds, and loads nothing again.
LoseStream ==
  /\ "lost_stream" \in env /\ page = "live" /\ losses < MaxLosses
  /\ losses' = losses + 1
  /\ page' = "waiting"
  /\ stream' = NoStream /\ ch' = <<>> /\ wire' = <<>>
  /\ UNCHANGED <<env, run, view, shown, gets>>

Receive(types) ==
  /\ wire # <<>> /\ Head(wire).type \in types
  /\ wire' = Tail(wire)
  /\ UNCHANGED <<stream, ch, page>>
  /\ PageUnchanged

SetStatus ==
  /\ Receive({"status"})
  /\ shown' = Head(wire).matter
  /\ UNCHANGED <<view, gets>>

\* A node the page does not have is not made up.
ApplyAttribute ==
  /\ Receive({"attribute"})
  /\ LET m == Head(wire)
     IN  view' = IF view[m.id] = Absent THEN view ELSE [view EXCEPT ![m.id].value = m.value]
  /\ UNCHANGED <<shown, gets>>

Reload ==
  /\ Receive({"node", "node_removed"})
  /\ gets' = Append(gets, Asked)
  /\ UNCHANGED <<view, shown>>

-----------------------------------------------------------------------------
Init ==
  /\ env \in Environments
  /\ cache \in {f \in Fabric : \A id \in NodeIds : f[id] \in {Absent, [value |-> 0, available |-> TRUE]}}
  /\ matter = TRUE
  /\ todo = <<>> /\ clock = 0 /\ losses = 0
  /\ stream = NoStream /\ ch = <<>> /\ wire = <<>>
  /\ page = "start" /\ view = Nowhere /\ shown = FALSE /\ gets = <<>>

RunNext ==
  \/ \E id \in NodeIds : AttributeUpdated(id) \/ NodeUpdated(id) \/ NodeRemoved(id)
  \/ SessionEnds \/ SessionBegins \/ Cache \/ Broadcast

PageNext ==
  \/ Load \/ ConnectEvents \/ LoseStream \/ SetStatus \/ ApplyAttribute \/ Reload
  \/ \E k \in DOMAIN gets : ServeNodes(k) \/ LoadNodes(k)

Next == RunNext \/ Subscribe \/ Snapshot \/ Write \/ PageNext

Spec == Init /\ [][Next]_vars

-----------------------------------------------------------------------------
(* Properties. *)

\* The cache and the page's view are of nodes, and a subscriber's channel stays
\* within its capacity (bridge.go:117-145).
TypeOK ==
  /\ env \in Environments /\ cache \in Fabric /\ matter \in BOOLEAN
  /\ clock \in 0 .. MaxEvents /\ losses \in 0 .. MaxLosses
  /\ Len(ch) <= ChanCap
  /\ page \in {"start", "loading", "waiting", "live"}
  /\ view \in Fabric /\ shown \in BOOLEAN

OnlyMeets(kinds) == env \subseteq kinds

\* Nothing is on its way from the bridge to the page.
CaughtUp ==
  /\ todo = <<>> /\ page = "live" /\ stream = <<>>
  /\ ch = <<>> /\ wire = <<>> /\ gets = <<>>

\* While events are all that happens to the nodes, a page that has caught up shows
\* them as they are, with their availability and attributes (bridge.go:329-361,
\* index.html:684-696, 709-711).  Nothing makes it load the nodes again after a
\* message dropped, a response overtaken by events, a time without a stream or a new
\* session, whose dump is not broadcast: these four are excepted.
PageLive == OnlyMeets({}) /\ CaughtUp => view = cache

\* The status shown is the last one: none is lost between the snapshot and the
\* stream, nor by reconnecting (httpserver.go:144-150).
StatusLive == OnlyMeets(Kinds \ {"overflow"}) /\ CaughtUp => shown = matter
=============================================================================
