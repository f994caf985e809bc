------------------------------ MODULE Lifecycle ------------------------------
(***************************************************************************)
(* The life of the process (main.go, Run, connectMQTT and session of       *)
(* bridge.go, Start and Shutdown of httpserver.go) and what a broker makes *)
(* of it: the last will, the retained bridge/availability and              *)
(* bridge/matter_connected, and the subscription to the command topics.    *)
(*                                                                         *)
(* The main goroutine and paho's OnConnect handlers run concurrently.      *)
(* paho and the broker are external: a connection is a FIFO of packets; at *)
(* QoS 0 what is sent on one that has been lost may or may not arrive, and *)
(* a broker publishes the will of a client it has lost at the latest when  *)
(* the same client id connects again.  What a session does beside          *)
(* starting, serving and ending is in Bridge.                              *)
(***************************************************************************)
EXTENDS Config, FiniteSets

CONSTANTS Inputs,       \* environments and files a process may find
          MaxBackoff,   \* the longest wait, in units of the first
          WireCap,      \* packets that publish hands over before it blocks
          MaxRuns,      \* bound: processes started
          MaxLosses,    \* bound: connections to the broker lost
          Environments  \* the environments to consider: see env

\* What may happen beside failing sessions, lost connections and SIGTERM: the
\* process is killed, or it is stopped just when a connection has opened.
Kinds == {"kill", "hasty_stop"}

ASSUME LifecycleAssumption ==
  /\ MaxBackoff \in Nat \ {0} /\ WireCap \in Nat \ {0}
  /\ MaxRuns \in Nat \ {0} /\ MaxLosses \in Nat
  /\ Environments \subseteq SUBSET Kinds
  /\ \A i \in Inputs : IsInput(i)

VARIABLES
  env,         \* what may happen in this behaviour
  input,       \* what main is going to read, <<>> once it has
  pc,          \* where the main goroutine is
  cancelled,   \* ctx is done
  backoff,     \* the next wait
  conn,        \* paho's connection
  announcing,  \* OnConnect goroutines that have not published "online" yet
  subscribing, \* OnConnect goroutines that have not subscribed yet
  console,     \* the HTTP server
  stream,      \* a page holds an event stream open
  wire,        \* packets between paho and the broker
  will,        \* the broker holds the last will of a connection
  subscribed,  \* the broker sends commands on this connection
  retained,    \* the retained topics of the bridge
  runs,        \* processes started
  losses       \* connections lost

run == <<input, pc, cancelled, backoff, console, stream, runs>>
handlers == <<announcing, subscribing>>
broker == <<will, subscribed, retained>>
vars == <<env, run, conn, handlers, wire, broker, losses>>

\* Packets: what is published, the subscriptions to the command topics, DISCONNECT.
Availability(payload) == [topic |-> "availability", payload |-> payload]
Matter(payload) == [topic |-> "matter", payload |-> payload]
Subscription == [topic |-> "commands", payload |-> "subscribe"]
Farewell == [topic |-> "connection", payload |-> "disconnect"]
Packets == {Availability("online"), Availability("offline"), Matter("true"),
            Matter("false"), Subscription, Farewell}

Init ==
  /\ env \in Environments
  /\ input \in {<<i>> : i \in Inputs}
  /\ pc = "down" /\ cancelled = FALSE /\ backoff = 1
  /\ conn = "none" /\ announcing = 0 /\ subscribing = 0
  /\ console = "off" /\ stream = FALSE
  /\ wire = <<>> /\ will = FALSE /\ subscribed = FALSE
  /\ retained = [availability |-> "none", matter |-> "none"]
  /\ runs = 0 /\ losses = 0

\* publish: dropped unless the connection is open, handed over in order if it is.
Publish(packet) ==
  IF conn = "open" THEN Len(wire) < WireCap /\ wire' = Append(wire, packet)
                   ELSE UNCHANGED wire

\* What may still arrive of a connection that has ended without a DISCONNECT.
Truncated == {SubSeq(wire, 1, n) : n \in 0 .. Len(wire)}

-----------------------------------------------------------------------------
(* main and Run. *)

Goto(from, to) == pc = from /\ pc' = to

OutsideUnchanged == UNCHANGED <<env, handlers, broker, losses>>
MainUnchanged == UNCHANGED <<input, console, stream, runs>>

\* The process is gone: the connection that is still open dies with it.
Gone ==
  /\ pc' = "down" /\ conn' = "none" /\ announcing' = 0 /\ subscribing' = 0
  /\ console' = IF console = "disabled" THEN "disabled" ELSE "off"
  /\ stream' = FALSE
  /\ IF conn = "closed" THEN UNCHANGED wire ELSE wire' \in Truncated
  /\ UNCHANGED <<env, input, cancelled, backoff, runs, broker, losses>>

\* The file, the environment and the model are read; what they say is the same
\* at every start.
Accepted == input # <<>> => LoadConfig(input[1]) # <<>> /\ input[1].modelReadable

ConsoleOf == IF input = <<>> THEN console
             ELSE IF LoadConfig(input[1])[1].http THEN "off" ELSE "disabled"

Start ==
  /\ pc = "down" /\ runs < MaxRuns /\ Accepted
  /\ runs' = runs + 1
  /\ input' = <<>>
  /\ pc' = "connecting"
  /\ console' = IF ConsoleOf = "off" THEN "up" ELSE ConsoleOf
  /\ cancelled' = FALSE /\ backoff' = 1 /\ conn' = "trying"
  /\ OutsideUnchanged
  /\ UNCHANGED <<stream, wire>>

\* Exit with status 2, or with status 1 when the console cannot listen.
StartFails ==
  /\ pc = "down" /\ runs < MaxRuns
  /\ Accepted => ConsoleOf = "off"
  /\ runs' = runs + 1
  /\ OutsideUnchanged
  /\ UNCHANGED <<input, pc, cancelled, backoff, console, stream, conn, wire>>

\* SIGTERM or SIGINT, once NotifyContext listens for them.
Cancel ==
  /\ pc # "down" /\ ~cancelled
  /\ cancelled' = TRUE
  /\ OutsideUnchanged /\ MainUnchanged
  /\ UNCHANGED <<pc, backoff, conn, wire>>

\* connectMQTT waits for the first connection or for ctx, whichever comes first;
\* with ctx Run returns at once, without its deferred farewell.
Connected ==
  /\ Goto("connected", "loop")
  /\ OutsideUnchanged /\ MainUnchanged
  /\ UNCHANGED <<cancelled, backoff, conn, wire>>

ConnectCancelled ==
  /\ cancelled /\ pc \in {"connecting", "connected"} /\ pc' = "closing"
  /\ OutsideUnchanged /\ MainUnchanged
  /\ UNCHANGED <<cancelled, backoff, conn, wire>>

\* paho tries again for ever, but for an address that is none of a broker: exit with
\* status 1, and nothing deferred is run.
ConnectFails == pc = "connecting" /\ conn = "trying" /\ Gone

\* for ctx.Err() == nil
Loop ==
  /\ pc = "loop" /\ pc' = IF cancelled THEN "offline" ELSE "dialing"
  /\ OutsideUnchanged /\ MainUnchanged
  /\ UNCHANGED <<cancelled, backoff, conn, wire>>

Dial ==
  /\ Goto("dialing", "calling")
  /\ OutsideUnchanged /\ MainUnchanged
  /\ UNCHANGED <<cancelled, backoff, conn, wire>>

\* start_listening has been answered and the dump published.
Serve ==
  /\ Goto("calling", "serving")
  /\ Publish(Matter("true"))
  /\ OutsideUnchanged /\ MainUnchanged
  /\ UNCHANGED <<cancelled, backoff, conn>>

\* session returns: the dial or the call failed, the session died, ctx is done.
SessionReturns ==
  /\ pc \in {"dialing", "calling", "serving"} /\ pc' = "ended"
  /\ OutsideUnchanged /\ MainUnchanged
  /\ UNCHANGED <<cancelled, backoff, conn, wire>>

\* Mutant: only the first end of a session is reported.
ReportFirst ==
  /\ pc = "ended"
  /\ IF cancelled THEN pc' = "offline" /\ UNCHANGED wire
     ELSE pc' = "waiting" /\ IF backoff = 1 THEN Publish(Matter("false")) ELSE UNCHANGED wire
  /\ OutsideUnchanged /\ MainUnchanged
  /\ UNCHANGED <<cancelled, backoff, conn>>

\* The rest of Run's loop: ctx first, then matter_connected.
Report ==
  /\ pc = "ended"
  /\ IF cancelled THEN pc' = "offline" /\ UNCHANGED wire
                  ELSE pc' = "waiting" /\ Publish(Matter("false"))
  /\ OutsideUnchanged /\ MainUnchanged
  /\ UNCHANGED <<cancelled, backoff, conn>>

\* Mutant: the wait is doubled without a limit.
WaitLonger ==
  /\ Goto("waiting", "loop")
  /\ backoff' = 2 * backoff
  /\ OutsideUnchanged /\ MainUnchanged
  /\ UNCHANGED <<cancelled, conn, wire>>

\* time.After or ctx; the wait is doubled up to a minute, and never reset.
Wait ==
  /\ Goto("waiting", "loop")
  /\ backoff' = IF 2 * backoff > MaxBackoff THEN MaxBackoff ELSE 2 * backoff
  /\ OutsideUnchanged /\ MainUnchanged
  /\ UNCHANGED <<cancelled, conn, wire>>

\* Mutant: the process disconnects without a word.
SayNothing ==
  /\ Goto("offline", "disconnecting")
  /\ OutsideUnchanged /\ MainUnchanged
  /\ UNCHANGED <<cancelled, backoff, conn, wire>>

\* Run's deferred function, in two steps: an OnConnect goroutine may get between.
SayOffline ==
  /\ Goto("offline", "disconnecting")
  /\ announcing > 0 => "hasty_stop" \in env
  /\ Publish(Availability("offline"))
  /\ OutsideUnchanged /\ MainUnchanged
  /\ UNCHANGED <<cancelled, backoff, conn>>

Disconnect ==
  /\ Goto("disconnecting", "closing")
  /\ Publish(Farewell)
  /\ conn' = "closed"
  /\ OutsideUnchanged /\ MainUnchanged
  /\ UNCHANGED <<cancelled, backoff>>

\* The deferred Shutdown stops listening, then waits.
CloseConsole ==
  /\ pc = "closing" /\ console = "up" /\ console' = "draining"
  /\ OutsideUnchanged
  /\ UNCHANGED <<input, pc, cancelled, backoff, stream, runs, conn, wire>>

\* Mutant: Shutdown waits for the pages to go away.
ExitIdle == pc = "closing" /\ console # "up" /\ ~stream /\ Gone

\* Shutdown returns when no request is open, or after three seconds: an open event
\* stream never ends by itself.
Exit == pc = "closing" /\ console # "up" /\ Gone

Kill == "kill" \in env /\ pc # "down" /\ Gone

-----------------------------------------------------------------------------
(* The pages, paho and the broker. *)

OpenStream ==
  /\ console = "up" /\ ~stream /\ stream' = TRUE
  /\ UNCHANGED <<env, input, pc, cancelled, backoff, console, runs, conn, handlers, wire, broker, losses>>

CloseStream ==
  /\ stream /\ stream' = FALSE
  /\ UNCHANGED <<env, input, pc, cancelled, backoff, console, runs, conn, handlers, wire, broker, losses>>

\* The broker accepts a connection.  It drops the one that the client id had, and
\* publishes its will; paho starts a goroutine for OnConnect.
Open ==
  /\ conn = "trying" /\ conn' = "open"
  /\ pc = "disconnecting" => "hasty_stop" \in env
  /\ pc' = IF pc = "connecting" THEN "connected" ELSE pc
  /\ announcing' = announcing + 1
  /\ will' = TRUE /\ subscribed' = FALSE
  /\ retained' = IF will THEN [retained EXCEPT !.availability = "offline"] ELSE retained
  /\ wire' = <<>>
  /\ UNCHANGED <<env, input, cancelled, backoff, console, stream, runs, subscribing, losses>>

\* Mutant: "online" is published once, by Run, and not on every connection.
AnnounceOnce ==
  /\ announcing > 0
  /\ announcing' = announcing - 1
  /\ subscribing' = subscribing + 1
  /\ IF losses = 0 THEN Publish(Availability("online")) ELSE UNCHANGED wire
  /\ UNCHANGED <<env, run, conn, broker, losses>>

\* The OnConnect handler.
Announce ==
  /\ announcing > 0
  /\ announcing' = announcing - 1
  /\ subscribing' = subscribing + 1
  /\ Publish(Availability("online"))
  /\ UNCHANGED <<env, run, conn, broker, losses>>

\* subscribeCommands, its five filters as one.
SubscribeCommands ==
  /\ subscribing > 0
  /\ subscribing' = subscribing - 1
  /\ Publish(Subscription)
  /\ UNCHANGED <<env, run, conn, announcing, broker, losses>>

\* Connection lost, or what was under way when it was closed.
Lose ==
  /\ losses < MaxLosses /\ losses' = losses + 1
  /\ conn = "open" \/ wire # <<>>
  /\ conn' = IF conn = "open" THEN "trying" ELSE conn
  /\ wire' \in Truncated
  /\ UNCHANGED <<env, run, handlers, broker>>

Receive ==
  /\ wire # <<>>
  /\ wire' = Tail(wire)
  /\ LET packet == Head(wire)
     IN  /\ will' = (will /\ packet # Farewell)
         /\ subscribed' = (packet # Farewell /\ (subscribed \/ packet = Subscription))
         /\ retained' = IF packet.topic \notin DOMAIN retained THEN retained
                        ELSE [retained EXCEPT ![packet.topic] = packet.payload]
  /\ UNCHANGED <<env, run, conn, handlers, losses>>

\* The broker notices that the client is no longer there.
WillPublished ==
  /\ will /\ wire = <<>> /\ conn # "open"
  /\ will' = FALSE /\ subscribed' = FALSE
  /\ retained' = [retained EXCEPT !.availability = "offline"]
  /\ UNCHANGED <<env, run, conn, handlers, wire, losses>>

-----------------------------------------------------------------------------
MainNext ==
  \/ Start \/ StartFails \/ Cancel \/ Connected \/ ConnectCancelled \/ ConnectFails
  \/ Loop \/ Dial \/ Serve \/ SessionReturns \/ Report \/ Wait \/ SayOffline \/ Disconnect
  \/ CloseConsole \/ Exit \/ Kill

Next ==
  \/ MainNext
  \/ OpenStream \/ CloseStream \/ Open \/ Announce \/ SubscribeCommands
  \/ Lose \/ Receive \/ WillPublished

Spec == Init /\ [][Next]_vars

\* The goroutines run, a wait and a call end (both have a timeout), a broker can be
\* reached again and takes what it is sent.  Nobody has to start the process, stop
\* it, close a page or let a session fail, except that ctx ends a session.
Fairness ==
  /\ WF_vars(Connected) /\ WF_vars(ConnectCancelled) /\ WF_vars(Loop)
  /\ WF_vars(Dial \/ (SessionReturns /\ pc = "dialing"))
  /\ WF_vars(Serve \/ (SessionReturns /\ pc = "calling"))
  /\ WF_vars(SessionReturns /\ cancelled)
  /\ WF_vars(Report) /\ WF_vars(Wait) /\ WF_vars(SayOffline) /\ WF_vars(Disconnect)
  /\ WF_vars(CloseConsole) /\ WF_vars(Exit)
  /\ WF_vars(Open) /\ WF_vars(Announce) /\ WF_vars(SubscribeCommands) /\ WF_vars(Receive)

FairSpec == Spec /\ Fairness

-----------------------------------------------------------------------------
\* No wait is longer than a minute, however many sessions have failed
\* (README.md:330), and a connection never has more OnConnect goroutines than
\* connections were opened.
TypeOK ==
  /\ pc \in {"down", "connecting", "connected", "loop", "dialing", "calling", "serving",
             "ended", "waiting", "offline", "disconnecting", "closing"}
  /\ backoff \in 1 .. MaxBackoff
  /\ conn \in {"none", "trying", "open", "closed"}
  /\ announcing + subscribing \in 0 .. losses + 1
  /\ console \in {"off", "disabled", "up", "draining"}
  /\ wire \in Seq(Packets) /\ Len(wire) <= WireCap
  /\ retained.availability \in {"none", "online", "offline"}
  /\ retained.matter \in {"none", "true", "false"}

\* Whatever ends the process, once the broker has noticed nobody reads an old
\* "online" (bridge.go:163-166 and 207; README.md:31): the farewell, the will and
\* the OnConnect goroutines never leave it behind, unless the process is stopped
\* just when a connection has opened.
GoneMeansOffline ==
  "hasty_stop" \notin env /\ pc = "down" /\ wire = <<>> /\ ~will
    => retained.availability # "online"

\* On a connection whose goroutines have finished, the bridge is announced and
\* hears commands, also after losses and when goroutines of an earlier connection
\* are late (bridge.go:209-213).
OnlineWhenConnected ==
  conn = "open" /\ announcing = 0 /\ subscribing = 0 /\ wire = <<>> /\ pc # "disconnecting"
    => retained.availability = "online" /\ subscribed

\* The bridge starts with the configuration that it was given, or not at all.
ConfigEffective == input # <<>> => FaithfulTo(input[1])

\* A "true" of an earlier session, or of an earlier process, does not stay while
\* the bridge runs without a session, though publications are lost with the
\* connection (bridge.go:178-180 against 767).
StaleTrueCorrected ==
  (retained.matter = "true" /\ pc # "serving")
    ~> (retained.matter = "false" \/ pc = "serving" \/ cancelled \/ pc = "down")

\* A process that is told to stop does, whatever it is waiting for: the broker, a
\* dial, a call, a page with an open stream (main.go:53-70, bridge.go:222-226).
StopEnds == (cancelled /\ pc # "down") ~> pc = "down"
=============================================================================
