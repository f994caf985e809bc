--------------------------- MODULE LifecycleProofs ---------------------------
(***************************************************************************)
(* What a broker makes of the process, for any waits, packet buffers,      *)
(* numbers of restarts and lost connections, and any configuration.        *)
(*                                                                         *)
(* The availability that a reader ends up with is what the last packet     *)
(* about it says, or what is retained if no packet is under way: Ends.     *)
(* The invariant is about that, not about what is retained now.            *)
(***************************************************************************)
EXTENDS Lifecycle, SequenceTheorems, WellFoundedInduction, TLAPS

Retained == [availability : {"none", "online", "offline"}, matter : {"none", "true", "false"}]

\* As many goroutines as connections have opened since the start.
ProcessOK ==
  /\ pc \in {"down", "connecting", "connected", "loop", "dialing", "calling", "serving",
             "ended", "waiting", "offline", "disconnecting", "closing"}
  /\ backoff \in 1 .. MaxBackoff
  /\ console \in {"off", "disabled", "up", "draining"}
  /\ conn \in {"none", "trying", "open", "closed"} /\ (pc = "down" => conn = "none")
  /\ announcing \in Nat /\ subscribing \in Nat /\ losses \in Nat
  /\ announcing + subscribing <= losses + IF conn \in {"open", "closed"} THEN 1 ELSE 0
  /\ conn = "none" => announcing = 0 /\ subscribing = 0

BrokerOK ==
  /\ wire \in Seq(Packets) /\ Len(wire) <= WireCap
  /\ will \in BOOLEAN /\ subscribed \in BOOLEAN /\ retained \in Retained

\* A DISCONNECT is the last packet of a connection, and a broker that holds no
\* will has received everything.
Closing ==
  /\ \A i \in 1 .. Len(wire) : wire[i] = Farewell => conn # "open" /\ i = Len(wire)
  /\ conn = "open" => will
  /\ ~will => wire = <<>>

\* The availability when all packets have arrived.
Ends(payload) ==
  \/ retained.availability = payload /\ \A i \in 1 .. Len(wire) : wire[i].topic # "availability"
  \/ \E i \in 1 .. Len(wire) : /\ wire[i] = Availability(payload)
                               /\ \A k \in i + 1 .. Len(wire) : wire[k].topic # "availability"

Greeting ==
  conn = "open" /\ announcing = 0 =>
    /\ pc # "disconnecting" => Ends("online")
    /\ subscribing = 0 => subscribed \/ \E i \in 1 .. Len(wire) : wire[i] = Subscription

\* After "offline" has been said nobody says "online".
Leaving ==
  "hasty_stop" \notin env =>
    /\ pc = "disconnecting" => announcing = 0 /\ (conn = "open" => Ends("offline"))
    /\ (\E i \in 1 .. Len(wire) : wire[i] = Farewell) => Ends("offline")
    /\ ~will => retained.availability # "online"

LifeInv == ProcessOK /\ BrokerOK /\ Closing /\ Greeting /\ Leaving

-----------------------------------------------------------------------------
(* What happens to the packets under way. *)

\* The packets differ in their topics.
LEMMA PacketKinds ==
  /\ \A p \in {"online", "offline"} :
       /\ Availability(p) \in Packets /\ Availability(p).topic = "availability"
       /\ Availability(p).payload = p /\ Availability(p) # Farewell
  /\ Availability("online") # Availability("offline")
  /\ \A p \in {"true", "false"} : Matter(p) \in Packets /\ Matter(p).topic = "matter" /\ Matter(p) # Farewell
  /\ Subscription \in Packets /\ Subscription.topic = "commands" /\ Subscription # Farewell
  /\ Farewell \in Packets /\ Farewell.topic = "connection"
  BY DEF Packets, Availability, Matter, Subscription, Farewell

\* What is published comes last and decides, if it is about the availability.
LEMMA AppendEnds ==
  ASSUME wire \in Seq(Packets), NEW p \in Packets, wire' = Append(wire, p), retained' = retained,
         NEW payload
  PROVE  /\ Len(wire) \in Nat /\ Len(wire') = Len(wire) + 1 /\ wire' \in Seq(Packets)
         /\ wire'[Len(wire) + 1] = p /\ \A i \in 1 .. Len(wire) : wire'[i] = wire[i]
         /\ p = Availability(payload) => Ends(payload)'
         /\ p.topic # "availability" /\ Ends(payload) => Ends(payload)'
<1>1. /\ Len(wire) \in Nat /\ Len(wire') = Len(wire) + 1 /\ wire' \in Seq(Packets)
      /\ wire'[Len(wire) + 1] = p /\ \A i \in 1 .. Len(wire) : wire'[i] = wire[i]
  BY AppendProperties, LenProperties
<1>2. p = Availability(payload) => Ends(payload)'
  BY <1>1 DEF Ends
<1>3. ASSUME p.topic # "availability", Ends(payload)
      PROVE  Ends(payload)'
  <2>1. \A i \in 1 .. Len(wire') : i \in 1 .. Len(wire) \/ i = Len(wire) + 1
    BY <1>1
  <2>2. CASE retained.availability = payload /\ \A i \in 1 .. Len(wire) : wire[i].topic # "availability"
    BY <1>1, <1>3, <2>1, <2>2 DEF Ends
  <2>3. CASE \E i \in 1 .. Len(wire) : /\ wire[i] = Availability(payload)
                                       /\ \A k \in i + 1 .. Len(wire) : wire[k].topic # "availability"
    <3> PICK i \in 1 .. Len(wire) : /\ wire[i] = Availability(payload)
                                    /\ \A k \in i + 1 .. Len(wire) : wire[k].topic # "availability"
      BY <2>3
    <3>1. i \in 1 .. Len(wire') /\ wire'[i] = Availability(payload)
      BY <1>1
    <3>2. \A k \in i + 1 .. Len(wire') : wire'[k].topic # "availability"
      BY <1>1, <1>3
    <3> QED
      BY <3>1, <3>2 DEF Ends
  <2> QED
    BY <1>3, <2>2, <2>3 DEF Ends
<1> QED
  BY <1>1, <1>2, <1>3

\* What arrives was going to.
LEMMA ReceiveEnds ==
  ASSUME BrokerOK, Receive, NEW payload, Ends(payload)
  PROVE  Ends(payload)'
<1>1. /\ Len(wire) \in Nat \ {0} /\ Len(wire') = Len(wire) - 1 /\ Head(wire) = wire[1]
      /\ \A i \in 1 .. Len(wire') : i + 1 \in 1 .. Len(wire) /\ wire'[i] = wire[i + 1]
  BY HeadTailProperties, EmptySeq DEF BrokerOK, Receive
<1>2. retained' = IF wire[1].topic \notin {"availability", "matter"} THEN retained
                  ELSE [retained EXCEPT ![wire[1].topic] = wire[1].payload]
  BY <1>1 DEF Receive, BrokerOK, Retained
<1>3. CASE retained.availability = payload /\ \A i \in 1 .. Len(wire) : wire[i].topic # "availability"
  <2>1. retained'.availability = retained.availability
    BY <1>1, <1>2, <1>3 DEF BrokerOK, Retained
  <2> QED
    BY <1>1, <1>3, <2>1 DEF Ends
<1>4. CASE wire[1] = Availability(payload)
             /\ \A k \in 2 .. Len(wire) : wire[k].topic # "availability"
  <2>1. retained'.availability = payload
    BY <1>2, <1>4 DEF BrokerOK, Retained, Availability
  <2> QED
    BY <1>1, <1>4, <2>1 DEF Ends
<1>5. CASE \E i \in 2 .. Len(wire) : /\ wire[i] = Availability(payload)
                                     /\ \A k \in i + 1 .. Len(wire) : wire[k].topic # "availability"
  <2> PICK i \in 2 .. Len(wire) : /\ wire[i] = Availability(payload)
                                  /\ \A k \in i + 1 .. Len(wire) : wire[k].topic # "availability"
    BY <1>5
  <2>1. i - 1 \in 1 .. Len(wire') /\ wire'[i - 1] = Availability(payload)
    BY <1>1
  <2>2. \A k \in (i - 1) + 1 .. Len(wire') : wire'[k].topic # "availability"
    BY <1>1
  <2> QED
    BY <2>1, <2>2 DEF Ends
<1> QED
  BY <1>1, <1>3, <1>4, <1>5 DEF Ends

\* A connection that is lost loses what was sent last.
LEMMA TruncatedOf ==
  ASSUME wire \in Seq(Packets), NEW rest \in Truncated
  PROVE  /\ rest \in Seq(Packets) /\ Len(rest) <= Len(wire) /\ Len(rest) \in Nat /\ Len(wire) \in Nat
         /\ \A i \in 1 .. Len(rest) : rest[i] = wire[i]
         /\ Len(rest) = Len(wire) => rest = wire
<1> PICK n \in 0 .. Len(wire) : rest = SubSeq(wire, 1, n)
  BY DEF Truncated
<1>1. Len(wire) \in Nat
  BY LenProperties
<1>2. rest \in Seq(Packets) /\ Len(rest) = n /\ \A i \in 1 .. n : rest[i] = wire[i]
  BY <1>1
<1> QED
  BY <1>1, <1>2, SeqEqual

\* Nothing is under way.
LEMMA NoPackets ==
  /\ <<>> \in Seq(Packets) /\ Len(<<>>) = 0 /\ Len(<<>>) <= WireCap
  /\ \A s \in Seq(Packets) : Len(s) = 0 => s = <<>>
<1>1. <<>> \in Seq(Packets) /\ Len(<<>>) = 0 /\ Len(<<>>) <= WireCap
  BY LifecycleAssumption
<1>2. \A s \in Seq(Packets) : s # <<>> => Len(s) \in Nat \ {0}
  BY EmptySeq, Zenon
<1> QED
  BY <1>1, <1>2

-----------------------------------------------------------------------------
(* The steps. *)

\* Nothing runs and nothing is retained.
LEMMA InitLife == Init => LifeInv
<1> SUFFICES ASSUME Init PROVE LifeInv
  OBVIOUS
<1> USE LifecycleAssumption DEF Init
<1>1. ProcessOK
  BY DEF ProcessOK
<1>2. BrokerOK
  BY NoPackets DEF BrokerOK, Retained
<1> QED
  BY <1>1, <1>2 DEF LifeInv, Closing, Greeting, Leaving

\* A step that sends nothing and neither begins nor ends the farewell.
LEMMA Quiet ==
  ASSUME LifeInv, UNCHANGED <<env, handlers, wire, broker>>, ProcessOK',
         conn' = conn \/ conn' = "trying",
         pc' = pc \/ (pc # "disconnecting" /\ pc' # "disconnecting")
  PROVE  LifeInv'
<1> USE DEF LifeInv, handlers, broker
<1>1. BrokerOK'
  BY DEF BrokerOK
<1>2. Ends("online")' = Ends("online") /\ Ends("offline")' = Ends("offline")
  BY DEF Ends
<1>3. Closing'
  BY DEF Closing
<1>4. Greeting'
  BY <1>2 DEF Greeting
<1>5. Leaving'
  BY <1>2 DEF Leaving
<1> QED
  BY <1>1, <1>3, <1>4, <1>5

\* publish, for a packet that says nothing of the availability.
LEMMA PublishOther ==
  ASSUME LifeInv, NEW p \in Packets, p.topic # "availability", p # Farewell, Publish(p),
         UNCHANGED <<env, conn, announcing, broker>>, ProcessOK',
         pc' = pc \/ (pc # "disconnecting" /\ pc' # "disconnecting"),
         subscribing' = subscribing \/ p = Subscription
  PROVE  LifeInv'
<1> USE DEF LifeInv, broker, BrokerOK
<1>1. CASE conn = "open"
  <2>1. wire' = Append(wire, p) /\ Len(wire) < WireCap
    BY <1>1 DEF Publish
  <2>2. /\ Len(wire) \in Nat /\ Len(wire') = Len(wire) + 1 /\ wire' \in Seq(Packets)
        /\ wire'[Len(wire) + 1] = p /\ \A i \in 1 .. Len(wire) : wire'[i] = wire[i]
    BY <2>1, AppendEnds
  <2>3. BrokerOK'
    BY <2>1, <2>2, LifecycleAssumption
  <2>4. \A i \in 1 .. Len(wire') : wire'[i] # Farewell
    BY <1>1, <2>2 DEF Closing
  <2>5. Closing'
    BY <1>1, <2>2, <2>4 DEF Closing
  <2>6. \A payload \in {"online", "offline"} : Ends(payload) => Ends(payload)'
    BY <2>1, AppendEnds
  <2>7. (\E i \in 1 .. Len(wire) : wire[i] = Subscription) \/ p = Subscription
          => \E i \in 1 .. Len(wire') : wire'[i] = Subscription
    BY <2>2
  <2>8. Greeting'
    BY <2>6, <2>7 DEF Greeting
  <2>9. Leaving'
    BY <2>4, <2>6 DEF Leaving
  <2> QED
    BY <2>3, <2>5, <2>8, <2>9
<1>2. CASE conn # "open"
  <2>1. UNCHANGED wire
    BY <1>2 DEF Publish
  <2>2. BrokerOK' /\ Closing'
    BY <1>2, <2>1 DEF Closing
  <2>3. Greeting'
    BY <1>2 DEF Greeting
  <2>4. Leaving'
    BY <1>2, <2>1 DEF Leaving, Ends
  <2> QED
    BY <2>2, <2>3, <2>4
<1> QED
  BY <1>1, <1>2

\* The availability is what the last packet about it says.
LEMMA AvailabilitySteps == LifeInv /\ (SayOffline \/ Announce) => LifeInv'
<1> SUFFICES ASSUME LifeInv, SayOffline \/ Announce PROVE LifeInv'
  OBVIOUS
<1> USE DEF LifeInv, BrokerOK
<1>1. ProcessOK'
  BY DEF ProcessOK, SayOffline, Announce, Goto, OutsideUnchanged, MainUnchanged, handlers, run
<1>2. PICK payload \in {"online", "offline"} :
        /\ Publish(Availability(payload)) /\ UNCHANGED <<env, conn, will, subscribed, retained>>
        /\ payload = "offline" => /\ pc' = "disconnecting" /\ UNCHANGED <<announcing, subscribing>>
                                  /\ "hasty_stop" \notin env => announcing = 0
        /\ payload = "online" => pc' = pc /\ announcing > 0 /\ subscribing' > 0
  BY DEF SayOffline, Announce, OutsideUnchanged, MainUnchanged, handlers, run, broker, Goto, ProcessOK
<1>3. Availability(payload) \in Packets /\ Availability(payload) # Farewell
  BY PacketKinds
<1>4. CASE conn = "open"
  <2>1. wire' = Append(wire, Availability(payload)) /\ Len(wire) < WireCap
    BY <1>2, <1>4 DEF Publish
  <2>2. /\ Len(wire) \in Nat /\ Len(wire') = Len(wire) + 1 /\ wire' \in Seq(Packets)
        /\ wire'[Len(wire) + 1] = Availability(payload)
        /\ \A i \in 1 .. Len(wire) : wire'[i] = wire[i]
        /\ Ends(payload)'
    BY <1>2, <1>3, <2>1, AppendEnds
  <2>3. BrokerOK'
    BY <1>2, <2>1, <2>2, LifecycleAssumption
  <2>4. \A i \in 1 .. Len(wire') : wire'[i] # Farewell
    BY <1>3, <1>4, <2>2 DEF Closing
  <2>5. Closing'
    BY <1>2, <1>4, <2>4 DEF Closing
  <2>6. (\E i \in 1 .. Len(wire) : wire[i] = Subscription)
          => \E i \in 1 .. Len(wire') : wire'[i] = Subscription
    BY <2>2
  <2>7. Greeting'
    BY <1>2, <1>4, <2>2, <2>6 DEF Greeting
  <2>8. Leaving'
    BY <1>2, <2>2, <2>4 DEF Leaving
  <2> QED
    BY <1>1, <2>3, <2>5, <2>7, <2>8
<1>5. CASE conn # "open"
  <2>1. UNCHANGED wire
    BY <1>2, <1>5 DEF Publish
  <2>2. BrokerOK' /\ Closing' /\ Greeting'
    BY <1>2, <1>5, <2>1 DEF Closing, Greeting
  <2>3. Leaving'
    BY <1>2, <1>5, <2>1 DEF Leaving, Ends
  <2> QED
    BY <1>1, <2>2, <2>3
<1> QED
  BY <1>4, <1>5

\* The farewell is sent after "offline", and closes the connection.
LEMMA DisconnectStep == LifeInv /\ Disconnect => LifeInv'
<1> SUFFICES ASSUME LifeInv, Disconnect PROVE LifeInv'
  OBVIOUS
<1> USE DEF LifeInv, BrokerOK
<1>1. /\ Publish(Farewell) /\ UNCHANGED <<env, announcing, subscribing, losses, will, subscribed, retained>>
      /\ UNCHANGED <<backoff, console>>
      /\ pc = "disconnecting" /\ pc' = "closing" /\ conn' = "closed"
  BY DEF Disconnect, Goto, OutsideUnchanged, MainUnchanged, handlers, broker
<1>2. ProcessOK' /\ Greeting'
  BY <1>1 DEF ProcessOK, Greeting
<1>3. CASE conn = "open"
  <2>1. wire' = Append(wire, Farewell) /\ Len(wire) < WireCap
    BY <1>1, <1>3 DEF Publish
  <2>2. /\ Len(wire) \in Nat /\ Len(wire') = Len(wire) + 1 /\ wire' \in Seq(Packets)
        /\ \A i \in 1 .. Len(wire) : wire'[i] = wire[i]
        /\ Ends("offline") => Ends("offline")'
    BY <1>1, <2>1, PacketKinds, AppendEnds
  <2>3. BrokerOK'
    BY <1>1, <2>1, <2>2, LifecycleAssumption
  <2>4. Closing'
    BY <1>1, <1>3, <2>2 DEF Closing
  <2>5. Leaving'
    BY <1>1, <1>3, <2>2 DEF Leaving
  <2> QED
    BY <1>2, <2>3, <2>4, <2>5
<1>4. CASE conn # "open"
  <2>1. UNCHANGED wire
    BY <1>1, <1>4 DEF Publish
  <2>2. BrokerOK' /\ Closing'
    BY <1>1, <2>1 DEF Closing
  <2>3. Leaving'
    BY <1>1, <2>1 DEF Leaving, Ends
  <2> QED
    BY <1>2, <2>2, <2>3
<1> QED
  BY <1>3, <1>4

\* A connection or a process that is lost takes packets with it, the last ones.
LEMMA TruncatedSteps == LifeInv /\ (Lose \/ Gone) => LifeInv'
<1> SUFFICES ASSUME LifeInv, Lose \/ Gone PROVE LifeInv'
  OBVIOUS
<1> USE DEF LifeInv, BrokerOK
<1>1. ProcessOK'
  BY DEF ProcessOK, Lose, Gone, handlers, run
<1>2. /\ UNCHANGED <<env, will, subscribed, retained>> /\ conn' # "open"
      /\ pc' = "disconnecting" => pc = "disconnecting" /\ announcing' = announcing
  BY DEF Lose, Gone, broker, handlers, run, ProcessOK
<1>3. wire \in Truncated
  <2>1. Len(wire) \in Nat /\ SubSeq(wire, 1, Len(wire)) = wire
    BY SubSeqFull, LenProperties
  <2>2. Len(wire) \in 0 .. Len(wire)
    BY <2>1
  <2> QED
    BY <2>1, <2>2, Zenon DEF Truncated
<1>4. wire' \in Truncated
  BY <1>3 DEF Lose, Gone
<1>5. /\ wire' \in Seq(Packets) /\ Len(wire') <= Len(wire) /\ Len(wire') \in Nat /\ Len(wire) \in Nat
      /\ \A i \in 1 .. Len(wire') : wire'[i] = wire[i]
      /\ Len(wire') = Len(wire) => wire' = wire
  BY <1>4, TruncatedOf
<1>6. BrokerOK'
  BY <1>2, <1>5, LifecycleAssumption
<1>7. (\E i \in 1 .. Len(wire') : wire'[i] = Farewell) => wire' = wire
  BY <1>5 DEF Closing
<1>8. Closing'
  BY <1>2, <1>5, <1>7 DEF Closing
<1>9. Greeting'
  BY <1>2 DEF Greeting
<1>10. Leaving'
  BY <1>2, <1>7 DEF Leaving, Ends
<1> QED
  BY <1>1, <1>6, <1>8, <1>9, <1>10

\* A connection begins with a will and nothing under way.
LEMMA OpenStep == LifeInv /\ Open => LifeInv'
<1> SUFFICES ASSUME LifeInv, Open PROVE LifeInv'
  OBVIOUS
<1> USE DEF LifeInv, BrokerOK
<1>1. ProcessOK'
  BY DEF ProcessOK, Open
<1>2. BrokerOK'
  <2>1. retained' \in Retained
    BY DEF Open, Retained
  <2> QED
    BY <2>1, NoPackets DEF Open
<1>3. announcing' > 0 /\ wire' = <<>> /\ will' = TRUE /\ env' = env
        /\ ("hasty_stop" \notin env => pc' # "disconnecting")
  BY DEF Open, ProcessOK
<1>4. Closing' /\ Greeting' /\ Leaving'
  BY <1>3 DEF Closing, Greeting, Leaving
<1> QED
  BY <1>1, <1>2, <1>4

\* The broker takes the packets in order.
LEMMA ReceiveStep == LifeInv /\ Receive => LifeInv'
<1> SUFFICES ASSUME LifeInv, Receive PROVE LifeInv'
  OBVIOUS
<1> USE DEF LifeInv
<1>1. /\ Len(wire) \in Nat \ {0} /\ Len(wire') = Len(wire) - 1 /\ Head(wire) = wire[1]
      /\ wire' \in Seq(Packets) /\ wire[1] \in Packets
      /\ \A i \in 1 .. Len(wire') : i + 1 \in 1 .. Len(wire) /\ wire'[i] = wire[i + 1]
  BY HeadTailProperties, EmptySeq DEF BrokerOK, Receive
<1>2. /\ UNCHANGED <<env, pc, conn, announcing, subscribing, losses, backoff, console>>
      /\ will' = (will /\ wire[1] # Farewell)
      /\ subscribed' = (wire[1] # Farewell /\ (subscribed \/ wire[1] = Subscription))
      /\ retained' = IF wire[1].topic \notin {"availability", "matter"} THEN retained
                     ELSE [retained EXCEPT ![wire[1].topic] = wire[1].payload]
  BY <1>1 DEF Receive, run, handlers, BrokerOK, Retained
<1>3. ProcessOK'
  BY <1>2 DEF ProcessOK
<1>4. retained' \in Retained
  BY <1>1, <1>2 DEF BrokerOK, Retained, Packets, Availability, Matter, Subscription, Farewell
<1>5. BrokerOK'
  BY <1>1, <1>2, <1>4, LifecycleAssumption DEF BrokerOK
<1>6. wire[1] = Farewell => wire' = <<>> /\ conn # "open"
  <2>1. wire[1] = Farewell => Len(wire) = 1 /\ conn # "open"
    BY <1>1 DEF Closing
  <2>2. Len(wire) = 1 => Len(wire') = 0
    BY <1>1
  <2>3. Len(wire') = 0 => wire' = <<>>
    BY <1>1, NoPackets
  <2> QED
    BY <2>1, <2>2, <2>3
<1>7. Closing'
  BY <1>1, <1>2, <1>6 DEF Closing, BrokerOK
<1>8. \A payload \in {"online", "offline"} : Ends(payload) => Ends(payload)'
  BY ReceiveEnds
<1>9. Greeting'
  <2>1. conn = "open" => wire[1] # Farewell
    BY <1>6
  <2>2. (\E i \in 1 .. Len(wire) : wire[i] = Subscription) /\ wire[1] # Subscription
          => \E i \in 1 .. Len(wire') : wire'[i] = Subscription
    <3> SUFFICES ASSUME NEW i \in 1 .. Len(wire), wire[i] = Subscription, wire[1] # Subscription
                 PROVE  \E k \in 1 .. Len(wire') : wire'[k] = Subscription
      OBVIOUS
    <3>1. i - 1 \in 1 .. Len(wire') /\ wire'[i - 1] = wire[i]
      BY <1>1
    <3> QED
      BY <3>1
  <2> QED
    BY <1>2, <1>8, <2>1, <2>2 DEF Greeting
<1>10. Leaving'
  <2>1. (\E i \in 1 .. Len(wire') : wire'[i] = Farewell) => \E i \in 1 .. Len(wire) : wire[i] = Farewell
    BY <1>1
  <2>2. "hasty_stop" \notin env /\ wire[1] = Farewell => retained'.availability # "online"
    <3> SUFFICES ASSUME "hasty_stop" \notin env, wire[1] = Farewell
                 PROVE  retained'.availability # "online"
      OBVIOUS
    <3>1. Ends("offline")'
      BY <1>1, <1>8 DEF Leaving
    <3>2. Len(wire') = 0
      BY <1>6
    <3> QED
      BY <3>1, <3>2 DEF Ends
  <2>3. will
    BY DEF Closing, Receive, BrokerOK
  <2> QED
    BY <1>2, <1>8, <2>1, <2>2, <2>3 DEF Leaving
<1> QED
  BY <1>3, <1>5, <1>7, <1>9, <1>10

\* The broker publishes the will of a client it has lost.
LEMMA WillStep == LifeInv /\ WillPublished => LifeInv'
<1> SUFFICES ASSUME LifeInv, WillPublished PROVE LifeInv'
  OBVIOUS
<1> USE DEF LifeInv, WillPublished, run, handlers
<1>1. ProcessOK' /\ Greeting'
  BY DEF ProcessOK, Greeting
<1>2. BrokerOK'
  BY DEF BrokerOK, Retained
<1>3. Closing'
  BY DEF Closing
<1>4. retained'.availability = "offline" /\ Len(wire') = 0
  BY DEF BrokerOK, Retained
<1>5. Leaving'
  BY <1>4 DEF Leaving, Ends
<1> QED
  BY <1>1, <1>2, <1>3, <1>5

\* The main goroutine and the pages, where they send nothing.
LEMMA QuietSteps ==
  LifeInv /\ (\/ Start \/ StartFails \/ Cancel \/ Connected \/ ConnectCancelled \/ Loop \/ Dial
              \/ SessionReturns \/ Wait \/ CloseConsole \/ OpenStream \/ CloseStream)
    => LifeInv'
<1> SUFFICES ASSUME LifeInv,
                    \/ Start \/ StartFails \/ Cancel \/ Connected \/ ConnectCancelled \/ Loop \/ Dial
                    \/ SessionReturns \/ Wait \/ CloseConsole \/ OpenStream \/ CloseStream
             PROVE  LifeInv'
  OBVIOUS
<1> USE DEF Start, StartFails, Cancel, Connected, ConnectCancelled, Loop, Dial, SessionReturns, Wait,
            CloseConsole, OpenStream, CloseStream, Goto, OutsideUnchanged, MainUnchanged,
            handlers, broker
<1>1. UNCHANGED <<env, announcing, subscribing, wire, will, subscribed, retained, losses>>
  OBVIOUS
<1>2. conn' = conn \/ (pc = "down" /\ conn = "none" /\ conn' = "trying")
  BY DEF LifeInv, ProcessOK
<1>3. pc' = pc \/ (pc # "disconnecting" /\ pc' # "disconnecting")
  OBVIOUS
<1>4. \/ pc' = pc /\ conn' = conn
      \/ pc' \in {"connecting", "loop", "closing", "offline", "dialing", "calling", "ended"}
  OBVIOUS
<1>5. backoff' \in 1 .. MaxBackoff /\ console' \in {"off", "disabled", "up", "draining"}
  BY LifecycleAssumption DEF LifeInv, ProcessOK, ConsoleOf
<1>6. ProcessOK'
  BY <1>1, <1>2, <1>4, <1>5 DEF LifeInv, ProcessOK
<1> QED
  BY <1>1, <1>2, <1>3, <1>6, Quiet

\* What is published of sessions and command topics.
LEMMA OtherSteps == LifeInv /\ (Serve \/ Report \/ SubscribeCommands) => LifeInv'
<1> SUFFICES ASSUME LifeInv, Serve \/ Report \/ SubscribeCommands PROVE LifeInv'
  OBVIOUS
<1>1. ProcessOK' /\ UNCHANGED <<env, conn, announcing, broker>>
  BY DEF LifeInv, ProcessOK, Serve, Report, SubscribeCommands, Goto, OutsideUnchanged, MainUnchanged,
     handlers, run
<1>2. pc' = pc \/ (pc # "disconnecting" /\ pc' # "disconnecting")
  BY DEF Serve, Report, SubscribeCommands, Goto, run
<1>3. \/ UNCHANGED <<wire, handlers>>
      \/ Publish(Matter("true")) /\ UNCHANGED subscribing
      \/ Publish(Matter("false")) /\ UNCHANGED subscribing
      \/ Publish(Subscription)
  BY DEF Serve, Report, SubscribeCommands, OutsideUnchanged, handlers
<1>4. CASE UNCHANGED <<wire, handlers>>
  BY <1>1, <1>2, <1>4, Quiet
<1>5. CASE Publish(Matter("true")) /\ UNCHANGED subscribing
  BY <1>1, <1>2, <1>5, PacketKinds, PublishOther
<1>6. CASE Publish(Matter("false")) /\ UNCHANGED subscribing
  BY <1>1, <1>2, <1>6, PacketKinds, PublishOther
<1>7. CASE Publish(Subscription)
  BY <1>1, <1>2, <1>7, PacketKinds, PublishOther
<1> QED
  BY <1>3, <1>4, <1>5, <1>6, <1>7

\* The invariant holds throughout.
LEMMA SpecLife == Spec => []LifeInv
<1>1. LifeInv /\ UNCHANGED vars => LifeInv'
  <2> SUFFICES ASSUME LifeInv, UNCHANGED vars PROVE LifeInv'
    OBVIOUS
  <2>1. ProcessOK'
    BY DEF LifeInv, ProcessOK, vars, run, handlers
  <2> QED
    BY <2>1, Quiet DEF vars, run, handlers
<1>2. LifeInv /\ Next => LifeInv'
  BY QuietSteps, OtherSteps, AvailabilitySteps, DisconnectStep, TruncatedSteps, OpenStep,
     ReceiveStep, WillStep DEF Next, MainNext, Exit, Kill, ConnectFails
<1> QED
  BY InitLife, <1>1, <1>2, PTL DEF Spec

-----------------------------------------------------------------------------
(* The theorems. *)

\* However many sessions fail, no wait exceeds the longest one, publish never puts
\* more under way than fits, and there are no more OnConnect goroutines than
\* connections (bridge.go:161-193, 209-213, 759-770).
THEOREM LifecycleTypeCorrect == Spec => []TypeOK
<1>1. LifeInv => TypeOK
  BY DEF LifeInv, ProcessOK, BrokerOK, Retained, TypeOK
<1> QED
  BY <1>1, SpecLife, PTL

\* However a process ends, and however many ended before it, no reader is left
\* with "online", unless it is stopped just when a connection has opened
\* (bridge.go:163-166, 207).
THEOREM GoneIsOffline == Spec => []GoneMeansOffline
<1>1. LifeInv => GoneMeansOffline
  BY DEF LifeInv, Leaving, GoneMeansOffline
<1> QED
  BY <1>1, SpecLife, PTL

\* However often the connection is lost, the goroutines of the last one leave the
\* bridge announced and its command topics subscribed (bridge.go:209-213).
THEOREM ConnectedIsOnline == Spec => []OnlineWhenConnected
<1>1. LifeInv => OnlineWhenConnected
  <2> SUFFICES ASSUME LifeInv, conn = "open", announcing = 0, subscribing = 0, wire = <<>>,
                      pc # "disconnecting"
               PROVE  retained.availability = "online" /\ subscribed
    BY DEF OnlineWhenConnected
  <2>1. Len(wire) = 0
    OBVIOUS
  <2> QED
    BY <2>1 DEF LifeInv, Greeting, Ends
<1> QED
  BY <1>1, SpecLife, PTL

-----------------------------------------------------------------------------
(* The configuration: an induction along the lines of the file.  Least,     *)
(* Reaches and StepsExist are those of FlowProofs.                           *)

\* A set of numbers that is not empty has a least element.
LEMMA Least ==
  ASSUME NEW S \in SUBSET Nat, S # {}
  PROVE  \E k \in S : \A j \in S : k <= j
<1>1. IsWellFoundedOn(OpToRel(<, Nat), Nat)
  BY NatLessThanWellFounded
<1>2. PICK k \in S : \A j \in S : ~ (<<j, k>> \in OpToRel(<, Nat))
  BY <1>1, WFMin
<1>3. \A i, j \in Nat : <<j, i>> \in OpToRel(<, Nat) <=> j < i
  BY DEF OpToRel
<1>4. ASSUME NEW j \in S PROVE k <= j
  <2>1. ~ (j < k)
    BY <1>2, <1>3
  <2> QED
    BY <2>1
<1> QED
  BY <1>4

\* What holds of 0 and goes from each index to the next holds of all.
LEMMA Reaches ==
  ASSUME NEW n \in Nat, NEW T, 0 \in T, \A k \in 1 .. n : k - 1 \in T => k \in T
  PROVE  \A k \in 0 .. n : k \in T
<1> DEFINE R == (0 .. n) \ T
<1>1. R \in SUBSET Nat
  OBVIOUS
<1> SUFFICES ASSUME R # {} PROVE FALSE
  OBVIOUS
<1> HIDE DEF R
<1>2. PICK k \in R : \A j \in R : k <= j
  BY <1>1, Least
<1>3. k \in 1 .. n
  BY <1>2 DEF R
<1>4. k - 1 \in 0 .. n /\ k - 1 \notin R
  BY <1>2, <1>3
<1> QED
  BY <1>2, <1>3, <1>4 DEF R

\* f takes the step g from base, n times.
Steps(f, n, S, base, g) ==
  f \in [0 .. n -> S] /\ f[0] = base /\ \A k \in 1 .. n : f[k] = g[f[k - 1]][k]

\* A step that is a function can be taken n times.
LEMMA StepsExist ==
  ASSUME NEW n \in Nat, NEW S, NEW base \in S,
         NEW g, \A s \in S, k \in 1 .. n : g[s][k] \in S
  PROVE  \E f : Steps(f, n, S, base, g)
<1> DEFINE Upto(m, f) == f[0] = base /\ \A k \in 1 .. m : f[k] = g[f[k - 1]][k]
           T == {m \in 0 .. n : \E f \in [0 .. m -> S] : Upto(m, f)}
<1>1. 0 \in T
  <2>1. PICK h : h = [k \in 0 .. 0 |-> base]
    OBVIOUS
  <2>2. h \in [0 .. 0 -> S] /\ h[0] = base
    BY <2>1
  <2>3. Upto(0, h)
    BY <2>2
  <2> QED
    BY <2>2, <2>3
<1>2. ASSUME NEW m \in 1 .. n, m - 1 \in T
      PROVE  m \in T
  <2>1. PICK f \in [0 .. m - 1 -> S] : Upto(m - 1, f)
    BY <1>2
  <2>2. PICK e : e = g[f[m - 1]][m] /\ e \in S
    OBVIOUS
  <2>3. PICK h : h = [k \in 0 .. m |-> IF k = m THEN e ELSE f[k]]
    OBVIOUS
  <2>4. h \in [0 .. m -> S]
    BY <2>2, <2>3
  <2>5. ASSUME NEW k \in 1 .. m
        PROVE  h[k] = g[h[k - 1]][k]
    <3>1. k - 1 \in 0 .. m - 1 /\ h[k - 1] = f[k - 1]
      BY <2>3
    <3>2. CASE k = m
      BY <2>2, <2>3, <3>1, <3>2
    <3>3. CASE k # m
      <4>1. k \in 1 .. m - 1 /\ h[k] = f[k]
        BY <2>3, <3>3
      <4> QED
        BY <2>1, <3>1, <4>1
    <3> QED
      BY <3>2, <3>3
  <2>6. h[0] = base
    BY <2>1, <2>3
  <2>7. Upto(m, h)
    BY <2>5, <2>6
  <2> HIDE DEF Upto
  <2> QED
    BY <2>4, <2>7
<1> HIDE DEF T
<1>3. \A m \in 1 .. n : m - 1 \in T => m \in T
  BY <1>2
<1>4. \A m \in 0 .. n : m \in T
  BY <1>1, <1>3, Reaches
<1>5. n \in T
  BY <1>4
<1> QED
  BY <1>5 DEF T, Steps

\* What the parse has come to, and what it leaves alone.
Parsed == [env : Environs, failed : BOOLEAN]
Sets(line, key) == line.kind = "set" /\ line.key = key

\* What one line does.
LEMMA LineParsed ==
  ASSUME NEW so \in Parsed, NEW line \in Lines
  PROVE  /\ ParseLine(so, line) \in Parsed
         /\ ~ ParseLine(so, line).failed =>
              /\ ~ so.failed /\ line.kind # "broken"
              /\ \A key \in Keys :
                   ParseLine(so, line).env[key] =
                     IF so.env[key] = Unset /\ Sets(line, key) THEN line.text ELSE so.env[key]
<1>1. CASE so.failed
  BY <1>1 DEF ParseLine
<1>2. CASE ~ so.failed /\ line.kind = "skip"
  BY <1>2 DEF ParseLine, Sets
<1>3. CASE ~ so.failed /\ line.kind = "broken"
  BY <1>3 DEF ParseLine, Parsed
<1>4. CASE ~ so.failed /\ line.kind = "set"
  <2>1. line.key \in Keys /\ line.text \in Texts
    BY <1>4 DEF Lines
  <2>2. CASE so.env[line.key] # Unset
    BY <1>4, <2>1, <2>2 DEF ParseLine, Sets
  <2>3. CASE so.env[line.key] = Unset
    <3>1. ParseLine(so, line) = [so EXCEPT !.env[line.key] = line.text]
      BY <1>4, <2>3 DEF ParseLine
    <3>2. so.env \in Environs
      BY DEF Parsed
    <3>3. [so.env EXCEPT ![line.key] = line.text] \in Environs
      BY <2>1, <3>2 DEF Environs
    <3>4. ParseLine(so, line).env = [so.env EXCEPT ![line.key] = line.text]
      BY <3>1 DEF Parsed
    <3>5. \A key \in Keys : ParseLine(so, line).env[key] = IF key = line.key THEN line.text ELSE so.env[key]
      BY <3>2, <3>4 DEF Environs
    <3> QED
      BY <1>4, <2>3, <3>1, <3>3, <3>5 DEF Parsed, Sets
  <2> QED
    BY <2>2, <2>3
<1> QED
  BY <1>1, <1>2, <1>3, <1>4 DEF Lines

\* A file is parsed line by line.
LEMMA ParseSteps ==
  ASSUME NEW start \in Environs, NEW lines \in Seq(Lines)
  PROVE  \E f \in [0 .. Len(lines) -> Parsed] :
           /\ f[0] = [env |-> start, failed |-> FALSE]
           /\ \A k \in 1 .. Len(lines) : f[k] = ParseLine(f[k - 1], lines[k])
           /\ f[Len(lines)] = ParseDotEnv(start, lines)
<1>1. PICK n \in Nat, b \in Parsed : n = Len(lines) /\ b = [env |-> start, failed |-> FALSE]
  <2> Len(lines) \in Nat /\ [env |-> start, failed |-> FALSE] \in Parsed
    BY LenProperties DEF Parsed
  <2> WITNESS Len(lines) \in Nat, [env |-> start, failed |-> FALSE] \in Parsed
  <2> QED
    OBVIOUS
<1>2. \A so \in Parsed, k \in 1 .. n : ParseLine(so, lines[k]) \in Parsed
  <2> TAKE so \in Parsed, k \in 1 .. n
  <2> lines[k] \in Lines
    BY <1>1
  <2> QED
    BY LineParsed
<1>3. PICK g : g = [so \in Parsed |-> [k \in 1 .. n |-> ParseLine(so, lines[k])]]
  OBVIOUS
<1> \A so \in Parsed, k \in 1 .. n : g[so][k] \in Parsed
  BY <1>2, <1>3
<1>4. PICK f : Steps(f, n, Parsed, b, g)
  BY StepsExist
<1> f \in [0 .. n -> Parsed] /\ f[0] = b /\ \A k \in 1 .. n : f[k] = g[f[k - 1]][k]
  BY <1>4 DEF Steps
<1>5. ASSUME NEW k \in 1 .. n PROVE k - 1 \in 0 .. n /\ f[k] = ParseLine(f[k - 1], lines[k])
  <2>1. PICK c : c = f[k - 1] /\ c \in Parsed
    OBVIOUS
  <2>2. g[c][k] = ParseLine(c, lines[k])
    BY <1>3, <2>1
  <2> QED
    BY <1>4, <2>1, <2>2
<1> DEFINE IsIt(h) ==
      h = [i \in 0 .. n |-> IF i = 0 THEN [env |-> start, failed |-> FALSE] ELSE ParseLine(h[i - 1], lines[i])]
<1>6. IsIt(f)
  BY <1>1, <1>4, <1>5
<1>7. PICK h : h = CHOOSE x : IsIt(x)
  OBVIOUS
<1>8. IsIt(h)
  BY <1>6, <1>7
<1>9. h[n] = ParseDotEnv(start, lines)
  BY <1>1, <1>7 DEF ParseDotEnv
<1>10. h[0] = b /\ \A k \in 1 .. n : h[k] = ParseLine(h[k - 1], lines[k])
  <2>1. h[0] = b
    BY <1>1, <1>8
  <2>2. \A k \in 1 .. n : h[k] = ParseLine(h[k - 1], lines[k])
    <3> TAKE k \in 1 .. n
    <3>1. k \in 0 .. n /\ k # 0
      OBVIOUS
    <3> QED
      BY <1>8, <3>1
  <2> QED
    BY <2>1, <2>2
<1>11. \A k \in 0 .. n : h[k] \in Parsed
  <2> DEFINE T == {k \in 0 .. n : h[k] \in Parsed}
  <2>1. 0 \in T
    BY <1>10
  <2>2. \A k \in 1 .. n : k - 1 \in T => k \in T
    BY <1>2, <1>10
  <2> HIDE DEF T
  <2>3. \A k \in 0 .. n : k \in T
    BY <2>1, <2>2, Reaches
  <2> QED
    BY <2>3 DEF T
<1>12. h \in [0 .. n -> Parsed]
  BY <1>8, <1>11
<1> HIDE DEF IsIt
<1> QED
  BY <1>1, <1>9, <1>10, <1>12

\* value is what is exported, or what the first of the lines up to m that sets
\* the variable says.
FirstWord(start, lines, m, key, value) ==
  IF start[key] # Unset THEN value = start[key]
  ELSE \/ value = Unset /\ \A i \in 1 .. m : ~ Sets(lines[i], key)
       \/ \E i \in 1 .. m : /\ Sets(lines[i], key) /\ value = lines[i].text
                            /\ \A j \in 1 .. i - 1 : ~ Sets(lines[j], key)

\* A file that is accepted has no broken line, and its first word counts.
LEMMA FirstLineWins ==
  ASSUME NEW start \in Environs, NEW lines \in Seq(Lines), ~ ParseDotEnv(start, lines).failed
  PROVE  /\ ParseDotEnv(start, lines) \in Parsed
         /\ \A i \in 1 .. Len(lines) : lines[i].kind # "broken"
         /\ \A key \in Keys :
              FirstWord(start, lines, Len(lines), key, ParseDotEnv(start, lines).env[key])
<1>1. PICK n \in Nat : n = Len(lines)
  BY LenProperties
<1>2. PICK f \in [0 .. n -> Parsed] :
        /\ f[0] = [env |-> start, failed |-> FALSE]
        /\ \A k \in 1 .. n : f[k] = ParseLine(f[k - 1], lines[k])
        /\ f[n] = ParseDotEnv(start, lines)
  BY <1>1, ParseSteps
<1> DEFINE Good(k) == ~ f[k].failed => /\ \A i \in 1 .. k : lines[i].kind # "broken"
                                       /\ \A key \in Keys : FirstWord(start, lines, k, key, f[k].env[key])
           T == {k \in 0 .. n : Good(k)}
<1>3. 0 \in T
  <2>1. \A key \in Keys : f[0].env[key] = start[key]
    BY <1>2
  <2>2. \A key \in Keys : FirstWord(start, lines, 0, key, f[0].env[key])
    BY <2>1 DEF FirstWord
  <2> QED
    BY <2>2
<1>4. ASSUME NEW k \in 1 .. n, k - 1 \in T PROVE k \in T
  <2> SUFFICES ASSUME ~ f[k].failed PROVE Good(k)
    OBVIOUS
  <2>1. /\ k - 1 \in 0 .. n /\ f[k - 1] \in Parsed /\ lines[k] \in Lines
        /\ f[k] = ParseLine(f[k - 1], lines[k])
    BY <1>1, <1>2
  <2>2. /\ ~ f[k - 1].failed /\ lines[k].kind # "broken"
        /\ \A key \in Keys :
             f[k].env[key] = IF f[k - 1].env[key] = Unset /\ Sets(lines[k], key) THEN lines[k].text
                                                                                ELSE f[k - 1].env[key]
    <3>1. PICK so \in Parsed, line \in Lines, new \in Parsed :
            so = f[k - 1] /\ line = lines[k] /\ new = f[k] /\ new = ParseLine(so, line)
      BY <2>1, <1>2
    <3>2. ~ ParseLine(so, line).failed
      BY <3>1
    <3>3. /\ ~ so.failed /\ line.kind # "broken"
          /\ \A key \in Keys :
               ParseLine(so, line).env[key] =
                 IF so.env[key] = Unset /\ Sets(line, key) THEN line.text ELSE so.env[key]
      BY <3>2, LineParsed, Zenon
    <3> QED
      BY <3>1, <3>3
  <2>3. Good(k - 1)
    BY <1>4
  <2>4. \A i \in 1 .. k : lines[i].kind # "broken"
    <3>1. \A i \in 1 .. k : i \in 1 .. k - 1 \/ i = k
      OBVIOUS
    <3> QED
      BY <2>2, <2>3, <3>1
  <2>5. ASSUME NEW key \in Keys PROVE FirstWord(start, lines, k, key, f[k].env[key])
    <3>1. PICK old, new : old = f[k - 1].env[key] /\ new = f[k].env[key]
      OBVIOUS
    <3>2. new = IF old = Unset /\ Sets(lines[k], key) THEN lines[k].text ELSE old
      BY <2>2, <3>1
    <3>3. FirstWord(start, lines, k - 1, key, old)
      BY <2>2, <2>3, <3>1
    <3>4. \A i \in 1 .. k : i \in 1 .. k - 1 \/ i = k
      OBVIOUS
    <3>5. CASE start[key] # Unset
      BY <3>2, <3>3, <3>5 DEF FirstWord
    <3>6. CASE start[key] = Unset /\ old = Unset /\ Sets(lines[k], key)
      <4>1. \A i \in 1 .. k - 1 : ~ Sets(lines[i], key)
        <5> SUFFICES ASSUME NEW i \in 1 .. k - 1, Sets(lines[i], key), old = lines[i].text PROVE FALSE
          BY <3>3, <3>6 DEF FirstWord
        <5>1. lines[i] \in Lines
          BY <1>1
        <5>2. lines[i].text \in Texts
          BY <5>1 DEF Lines, Sets
        <5> QED
          BY <3>6, <5>2, ConfigAssumption
      <4>2. new = lines[k].text /\ k \in 1 .. k
        BY <3>2, <3>6
      <4> QED
        BY <3>1, <3>6, <4>1, <4>2 DEF FirstWord
    <3>7. CASE start[key] = Unset /\ old = Unset /\ ~ Sets(lines[k], key)
      <4>1. new = Unset
        BY <3>2, <3>7
      <4>2. CASE \A i \in 1 .. k - 1 : ~ Sets(lines[i], key)
        BY <3>1, <3>4, <3>7, <4>1, <4>2 DEF FirstWord
      <4>3. CASE \E i \in 1 .. k - 1 : /\ Sets(lines[i], key) /\ old = lines[i].text
                                       /\ \A j \in 1 .. i - 1 : ~ Sets(lines[j], key)
        BY <3>1, <3>7, <4>1, <4>3 DEF FirstWord
      <4> QED
        BY <3>3, <3>7, <4>2, <4>3 DEF FirstWord
    <3>8. CASE start[key] = Unset /\ old # Unset
      <4>1. new = old
        BY <3>2, <3>8
      <4>2. PICK i \in 1 .. k - 1 : /\ Sets(lines[i], key) /\ old = lines[i].text
                                    /\ \A j \in 1 .. i - 1 : ~ Sets(lines[j], key)
        BY <3>3, <3>8 DEF FirstWord
      <4>3. i \in 1 .. k
        OBVIOUS
      <4> QED
        BY <3>1, <3>8, <4>1, <4>2, <4>3 DEF FirstWord
    <3> QED
      BY <3>5, <3>6, <3>7, <3>8
  <2> QED
    BY <2>4, <2>5
<1> HIDE DEF T
<1>5. \A k \in 0 .. n : k \in T
  BY <1>3, <1>4, Reaches
<1>6. Good(n)
  BY <1>5 DEF T
<1> QED
  BY <1>1, <1>2, <1>6

\* What is loaded is what the environment and the file say.
LEMMA LoadedAsExpected ==
  ASSUME NEW i, IsInput(i), ~ LoadDotEnv(i.env, i.file).failed
  PROVE  /\ LoadDotEnv(i.env, i.file).env \in Environs
         /\ \A key \in Keys : LoadDotEnv(i.env, i.file).env[key] = Expected(i, key)
         /\ i.file.found => \A k \in DOMAIN i.file.lines : i.file.lines[k].kind # "broken"
<1>1. PICK start, lines, found : /\ start = i.env /\ lines = i.file.lines /\ found = i.file.found
                                 /\ start \in Environs /\ lines \in Seq(Lines) /\ found \in BOOLEAN
  BY DEF IsInput
<1>2. CASE ~ found
  <2>1. LoadDotEnv(i.env, i.file).env = start
    BY <1>1, <1>2 DEF LoadDotEnv
  <2>2. \A key \in Keys : Expected(i, key) = start[key]
    BY <1>1, <1>2 DEF Expected
  <2> QED
    BY <1>1, <1>2, <2>1, <2>2
<1>3. CASE found
  <2>1. LoadDotEnv(i.env, i.file) = ParseDotEnv(start, lines)
    BY <1>1, <1>3 DEF LoadDotEnv
  <2>2. PICK n \in Nat, loaded \in Parsed :
          /\ n = Len(lines) /\ DOMAIN lines = 1 .. n /\ loaded = ParseDotEnv(start, lines)
          /\ \A k \in 1 .. n : lines[k].kind # "broken"
          /\ \A key \in Keys : FirstWord(start, lines, n, key, loaded.env[key])
    BY <1>1, <2>1, FirstLineWins, LenProperties
  <2>3. ASSUME NEW key \in Keys PROVE loaded.env[key] = Expected(i, key)
    <3>1. PICK S : S = {k \in DOMAIN lines : lines[k].kind = "set" /\ lines[k].key = key}
      OBVIOUS
    <3>2. Expected(i, key) = IF start[key] # Unset THEN start[key]
                             ELSE IF S = {} THEN Unset
                             ELSE lines[CHOOSE k \in S : \A j \in S : k <= j].text
      BY <1>1, <1>3, <3>1 DEF Expected
    <3>3. PICK v : v = loaded.env[key] /\ FirstWord(start, lines, n, key, v)
      BY <2>2
    <3>4. CASE start[key] # Unset
      BY <3>2, <3>3, <3>4 DEF FirstWord
    <3>5. CASE start[key] = Unset /\ v = Unset /\ \A k \in 1 .. n : ~ Sets(lines[k], key)
      <4>1. S = {}
        BY <2>2, <3>1, <3>5 DEF Sets
      <4> QED
        BY <3>2, <3>3, <3>5, <4>1
    <3>6. CASE /\ start[key] = Unset
               /\ \E k \in 1 .. n : /\ Sets(lines[k], key) /\ v = lines[k].text
                                    /\ \A j \in 1 .. k - 1 : ~ Sets(lines[j], key)
      <4>1. PICK k \in 1 .. n : /\ Sets(lines[k], key) /\ v = lines[k].text
                                /\ \A j \in 1 .. k - 1 : ~ Sets(lines[j], key)
        BY <3>6
      <4>2. k \in S /\ S \subseteq 1 .. n
        BY <2>2, <3>1, <4>1 DEF Sets
      <4>3. \A j \in S : k <= j
        <5> SUFFICES ASSUME NEW j \in S, ~ (k <= j) PROVE FALSE
          OBVIOUS
        <5>1. j \in 1 .. k - 1
          BY <4>2
        <5> QED
          BY <3>1, <4>1, <5>1 DEF Sets
      <4>4. PICK c : c = CHOOSE first \in S : \A j \in S : first <= j
        OBVIOUS
      <4>5. c \in S /\ \A j \in S : c <= j
        BY <4>2, <4>3, <4>4
      <4>6. c = k
        BY <4>2, <4>3, <4>5
      <4> QED
        BY <3>2, <3>3, <3>6, <4>1, <4>2, <4>4, <4>6
    <3> QED
      BY <3>3, <3>4, <3>5, <3>6 DEF FirstWord
  <2> QED
    BY <1>1, <2>1, <2>2, <2>3 DEF Parsed
<1> QED
  BY <1>1, <1>2, <1>3

\* So every process that starts has what it was given.
LEMMA InputFaithful == ASSUME NEW i, IsInput(i) PROVE FaithfulTo(i)
<1> SUFFICES ASSUME LoadConfig(i) # <<>> PROVE FaithfulTo(i)
  BY DEF FaithfulTo
<1>1. PICK loaded, v : loaded = LoadDotEnv(i.env, i.file) /\ v = loaded.env
  OBVIOUS
<1>2. ~ loaded.failed /\ Valid(ConfigOf(v)) /\ LoadConfig(i) = <<ConfigOf(v)>>
  BY <1>1 DEF LoadConfig
<1>3. /\ v \in Environs
      /\ \A key \in Keys : v[key] = Expected(i, key)
      /\ i.file.found => \A k \in DOMAIN i.file.lines : i.file.lines[k].kind # "broken"
  BY <1>1, <1>2, LoadedAsExpected
<1>4. PICK c : c = ConfigOf(v)
  OBVIOUS
<1>5. LoadConfig(i)[1] = c
  BY <1>2, <1>4
<1>6. PICK qos, addr, user : /\ qos = v["MQTT_QOS"] /\ addr = v["HTTP_ADDR"] /\ user = v["HTTP_USERNAME"]
                             /\ qos = Expected(i, "MQTT_QOS") /\ addr = Expected(i, "HTTP_ADDR")
                             /\ user = Expected(i, "HTTP_USERNAME")
                             /\ qos \in Texts \cup {Unset}
  BY <1>3 DEF Keys, Environs
<1>7. /\ c.qos = (IF qos \in {Unset, Blank} \/ AsInt[qos] = Unset THEN 0 ELSE AsInt[qos]) % 256
      /\ c.addr = IF addr \in {Unset, Blank} THEN DefaultAddr ELSE addr
      /\ c.username = IF user \in {Unset, Blank} THEN Blank ELSE user
  BY <1>4, <1>6 DEF ConfigOf, EnvParsed, EnvText
<1>8. c.qos <= 2 /\ (c.http /\ c.username = Blank => c.addr \in Loopback)
  BY <1>2, <1>4 DEF Valid
<1>9. c.qos \in 0 .. 2
  <2>1. qos \notin {Unset, Blank} /\ AsInt[qos] # Unset => AsInt[qos] \in Int
    BY <1>6, ConfigAssumption
  <2> QED
    BY <1>7, <1>8, <2>1
<1>10. qos # Unset /\ AsInt[qos] # Unset /\ AsInt[qos] \in 0 .. 255 => c.qos = AsInt[qos]
  <2>1. qos # Unset /\ AsInt[qos] # Unset => qos # Blank
    BY ConfigAssumption
  <2>2. \A a \in 0 .. 255 : a % 256 = a
    OBVIOUS
  <2> QED
    BY <1>7, <2>1, <2>2
<1>11. /\ addr \notin {Unset, Blank} => c.addr = addr
       /\ user # Unset => c.username = user
  BY <1>7
<1>12. c.http => c.addr \in Loopback \/ user \notin {Unset, Blank}
  BY <1>7, <1>8
<1>13. \A k \in DOMAIN i.file.lines : i.file.found => i.file.lines[k].kind # "broken"
  BY <1>3
<1> QED
  BY <1>5, <1>6, <1>9, <1>10, <1>11, <1>12, <1>13 DEF FaithfulTo

\* Whatever the environment holds and however long the file is, the bridge starts
\* with what they say or not at all: the environment over the file, its first line
\* over the later ones, a valid QoS, and no console in the open without a user
\* (config.go:91-165).
THEOREM ConfigIsEffective == Spec => []ConfigEffective
<1> DEFINE Found == input = <<>> \/ \E i \in Inputs : input = <<i>>
<1>1. Init => Found
  BY DEF Init
<1>2. Found /\ [Next]_vars => Found'
  BY DEF Next, MainNext, vars, run, Start, StartFails, Cancel, Connected, ConnectCancelled, Loop, Dial,
     Serve, SessionReturns, Report, Wait, SayOffline, Disconnect, CloseConsole, Exit, Kill, Gone, ConnectFails,
     OpenStream, CloseStream, Open, Announce, SubscribeCommands, Lose, Receive, WillPublished,
     MainUnchanged
<1>3. Found => ConfigEffective
  BY InputFaithful, LifecycleAssumption DEF ConfigEffective
<1> HIDE DEF Found
<1> QED
  BY <1>1, <1>2, <1>3, PTL DEF Spec
=============================================================================
