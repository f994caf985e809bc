---------------------------- MODULE FlowRequests ----------------------------
(***************************************************************************)
(* Bridge requests from Node-RED (nodered/nodes/matter2mqtt-out.js): every *)
(* "matter2mqtt out" node in request mode publishes commands with a        *)
(* request id, and all of them listen to one topic for the answers.  There *)
(* is no delivery guarantee (QoS 0), so a timer ends what is not answered. *)
(*                                                                         *)
(* The bridge (onBridgeRequest, call and Invoke of bridge.go) carries each *)
(* request out in a goroutine of its own, and answers in any order.        *)
(***************************************************************************)
EXTENDS Naturals, Sequences, FiniteSets

CONSTANTS OutNodes,   \* the out nodes in request mode: all listen (responseHandlers)
          Msgs,       \* the messages they are given
          From,       \* the out node each message is given to
          None,
          MaxHiccups  \* bound: lost connections, packets and redeployments

ASSUME RequestsAssumption ==
  /\ IsFiniteSet(Msgs) /\ From \in [Msgs -> OutNodes] /\ MaxHiccups \in Nat
  /\ None \notin Msgs \cup (OutNodes \X Nat)

VARIABLES
  \* the shared connection and the broker
  connected,  \* broker.connected
  subscribed, \* the broker forwards answers to this client
  outbox,     \* packets to the broker
  inbox,      \* answers to the client
  \* the bridge
  jobs,       \* the goroutines of requests, and how far they are
  session,    \* b.mc # nil
  \* matter-server
  atServer,   \* requests it has received and not yet decided on
  executed,   \* how often it has carried out each message's command
  \* the out nodes
  seq,        \* per out node
  pending,    \* the entries of all pending maps: request id and message
  timers,     \* the timers that are set: likewise
  id,         \* the request id each message was given
  outcome,    \* what has become of each message: done or not
  answer,     \* the message whose result each was answered with
  hiccups

network == <<connected, subscribed, outbox, inbox>>
out == <<seq, pending, timers, id, outcome, answer>>
bridge == <<jobs, session, atServer, executed>>
vars == <<network, bridge, out, hiccups>>

Ids == OutNodes \X (1 .. Cardinality(Msgs))
Entry == [id : Ids, msg : Msgs]
Job == [id : Ids, msg : Msgs, at : {"asked", "calling", "ok", "error"}]
Final == {"answered", "failed"}

Init ==
  /\ connected = FALSE /\ subscribed = FALSE /\ outbox = <<>> /\ inbox = <<>>
  /\ jobs = {} /\ session = TRUE
  /\ atServer = {} /\ executed = [m \in Msgs |-> 0]
  /\ seq = [o \in OutNodes |-> 0]
  /\ pending = {} /\ timers = {}
  /\ id = [m \in Msgs |-> None]
  /\ outcome = [m \in Msgs |-> "new"]
  /\ answer = [m \in Msgs |-> None]
  /\ hiccups = 0

Hiccup == hiccups < MaxHiccups /\ hiccups' = hiccups + 1

-----------------------------------------------------------------------------
(* The connection and the broker. *)

Connect ==
  /\ ~connected
  /\ connected' = TRUE
  /\ outbox' = IF OutNodes # {} THEN <<[op |-> "subscribe"]>> ELSE <<>>
  /\ UNCHANGED <<subscribed, inbox, bridge, out, hiccups>>

Disconnect ==
  /\ connected /\ Hiccup
  /\ connected' = FALSE /\ subscribed' = FALSE /\ outbox' = <<>> /\ inbox' = <<>>
  /\ UNCHANGED <<bridge, out>>

\* A request that finds no bridge is gone.  onBridgeRequest starts a goroutine.
BrokerTakes ==
  /\ connected /\ outbox # <<>>
  /\ outbox' = Tail(outbox)
  /\ LET p == Head(outbox)
     IN  IF p.op = "request"
           THEN /\ \/ jobs' = jobs \cup {[id |-> p.id, msg |-> p.msg, at |-> "asked"]}
                      /\ UNCHANGED hiccups
                   \/ Hiccup /\ UNCHANGED jobs
                /\ UNCHANGED subscribed
           ELSE subscribed' = (p.op = "subscribe") /\ UNCHANGED <<jobs, hiccups>>
  /\ UNCHANGED <<connected, inbox, session, atServer, executed, out>>

-----------------------------------------------------------------------------
(* The bridge's goroutines and matter-server. *)

BridgeUnchanged == UNCHANGED <<network, out>>

Becomes(j, at) == (jobs \ {j}) \cup {[j EXCEPT !.at = at]}

\* Mutant: a command is answered when it has been sent.
InvokeOnly(j) ==
  /\ j.at = "asked"
  /\ jobs' = Becomes(j, IF session THEN "ok" ELSE "error")
  /\ atServer' = IF session THEN atServer \cup {j.msg} ELSE atServer
  /\ BridgeUnchanged /\ UNCHANGED <<session, executed, hiccups>>

\* Invoke fails at once without a session.
Invoke(j) ==
  /\ j.at = "asked"
  /\ jobs' = Becomes(j, IF session THEN "calling" ELSE "error")
  /\ atServer' = IF session THEN atServer \cup {j.msg} ELSE atServer
  /\ BridgeUnchanged /\ UNCHANGED <<session, executed, hiccups>>

\* matter-server carries a command out, or refuses it, and says so to the call if
\* that is still waiting.
Decide(m, done) ==
  /\ m \in atServer
  /\ atServer' = atServer \ {m}
  /\ executed' = IF done THEN [executed EXCEPT ![m] = @ + 1] ELSE executed
  /\ jobs' = {IF j.msg = m /\ j.at = "calling"
                THEN [j EXCEPT !.at = IF done THEN "ok" ELSE "error"] ELSE j : j \in jobs}
  /\ BridgeUnchanged /\ UNCHANGED <<session, hiccups>>

\* MATTER_CALL_TIMEOUT; matter-server still has the command.
CallTimesOut(j) ==
  /\ j.at = "calling"
  /\ jobs' = Becomes(j, "error")
  /\ BridgeUnchanged /\ UNCHANGED <<session, atServer, executed, hiccups>>

\* Every call of a session fails with it, one whose result was on its way too.
SessionDies ==
  /\ session /\ Hiccup
  /\ session' = FALSE
  /\ \E lost \in SUBSET {j \in jobs : j.at = "ok"} :
       jobs' = {IF j.at = "calling" \/ j \in lost THEN [j EXCEPT !.at = "error"] ELSE j :
                  j \in jobs}
  /\ \E kept \in SUBSET atServer : atServer' = kept
  /\ BridgeUnchanged /\ UNCHANGED executed

SessionBack ==
  /\ ~session /\ session' = TRUE
  /\ BridgeUnchanged /\ UNCHANGED <<jobs, atServer, executed, hiccups>>

\* The envelope, with the id it was asked with.  publish drops it while the
\* bridge has no broker; the broker, while nobody listens.
BridgeAnswers(j) ==
  /\ j.at \in {"ok", "error"}
  /\ jobs' = jobs \ {j}
  /\ \/ inbox' = (IF subscribed THEN Append(inbox, [id |-> j.id, of |-> j.msg,
                                                    success |-> j.at = "ok"])
                                ELSE inbox) /\ UNCHANGED hiccups
     \/ Hiccup /\ UNCHANGED inbox
  /\ UNCHANGED <<connected, subscribed, outbox, session, atServer, executed, out>>

-----------------------------------------------------------------------------
(* An out node. *)

RequestId(m) == <<From[m], seq[From[m]] + 1>>

\* An entry and its timer are made together, and deleted if publish throws.
SendRequest(m) ==
  LET entry == [id |-> RequestId(m), msg |-> m]
  IN  /\ outcome[m] = "new"
      /\ seq' = [seq EXCEPT ![From[m]] = @ + 1]
      /\ id' = [id EXCEPT ![m] = entry.id]
      /\ IF connected
           THEN /\ pending' = pending \cup {entry} /\ timers' = timers \cup {entry}
                /\ outcome' = [outcome EXCEPT ![m] = "open"]
                /\ outbox' = Append(outbox, [op |-> "request", id |-> entry.id, msg |-> m])
           ELSE /\ outcome' = [outcome EXCEPT ![m] = "failed"]
                /\ UNCHANGED <<pending, timers, outbox>>
      /\ UNCHANGED <<connected, subscribed, inbox, bridge, answer, hiccups>>

\* Mutant: an answer ends the oldest request, whatever its id.
MatchingAny(body) == {e \in pending : e.id[1] = body.id[1] /\ \A f \in pending : e.id[2] <= f.id[2]}

\* Every node looks for the id in its own map; ids begin with the node's own.
Matching(body) == {e \in pending : e.id = body.id}

\* Mutant: the timer stays set.
SettleOnly(entries) == pending' = pending \ entries /\ UNCHANGED timers

Settle(entries) == pending' = pending \ entries /\ timers' = timers \ entries

OnResponse ==
  /\ inbox # <<>>
  /\ inbox' = Tail(inbox)
  /\ LET body == Head(inbox)
         found == Matching(body)
         of == {e.msg : e \in found}
     IN  /\ Settle(found)
         /\ outcome' = [m \in Msgs |-> IF m \notin of THEN outcome[m]
                                       ELSE IF body.success THEN "answered" ELSE "failed"]
         /\ answer' = [m \in Msgs |-> IF m \in of THEN body.of ELSE answer[m]]
  /\ UNCHANGED <<connected, subscribed, outbox, bridge, seq, id, hiccups>>

\* Mutant: time stands still while the broker is away.
TimeoutConnected(e) ==
  /\ e \in timers /\ connected
  /\ timers' = timers \ {e} /\ pending' = pending \ {e}
  /\ outcome' = [outcome EXCEPT ![e.msg] = "failed"]
  /\ UNCHANGED <<network, bridge, seq, id, answer, hiccups>>

\* The timer's callback.
Timeout(e) ==
  /\ e \in timers
  /\ timers' = timers \ {e} /\ pending' = pending \ {e}
  /\ outcome' = [outcome EXCEPT ![e.msg] = "failed"]
  /\ UNCHANGED <<network, bridge, seq, id, answer, hiccups>>

\* Mutant: the handler is counted before it is looked whether it is the first.
NeverFirst(deployed) == FALSE

\* subscribeResponses asks the broker for answers if no other node has.
First(deployed) == OutNodes = deployed

\* The nodes in deployed are closed, then built anew: the last handler gone ends
\* the subscription, the first one begins it.  A closed node forgets what it was
\* waiting for, done is never called, and request ids start over.
Redeploy(deployed) ==
  /\ deployed # {} /\ Hiccup
  /\ LET entries == {e \in pending : e.id[1] \in deployed}
     IN  /\ Settle(entries)
         /\ outcome' = [m \in Msgs |-> IF \E e \in entries : e.msg = m THEN "closed" ELSE outcome[m]]
  /\ seq' = [o \in OutNodes |-> IF o \in deployed THEN 0 ELSE seq[o]]
  /\ outbox' = IF ~connected THEN outbox
               ELSE outbox \o (IF OutNodes = deployed THEN <<[op |-> "unsubscribe"]>> ELSE <<>>)
                           \o (IF First(deployed) THEN <<[op |-> "subscribe"]>> ELSE <<>>)
  /\ UNCHANGED <<connected, subscribed, inbox, bridge, id, answer>>

-----------------------------------------------------------------------------
Next ==
  \/ Connect \/ Disconnect \/ BrokerTakes \/ OnResponse
  \/ \E j \in jobs : Invoke(j) \/ CallTimesOut(j) \/ BridgeAnswers(j)
  \/ \E m \in Msgs, done \in BOOLEAN : Decide(m, done)
  \/ SessionDies \/ SessionBack
  \/ \E m \in Msgs : SendRequest(m)
  \/ \E e \in timers : Timeout(e)
  \/ \E deployed \in SUBSET OutNodes : Redeploy(deployed)

Spec == Init /\ [][Next]_vars

\* Timers fire.  Neither the bridge nor the broker owes anything.
FairSpec == Spec /\ \A e \in Entry : WF_vars(Timeout(e))

-----------------------------------------------------------------------------
(* Properties. *)

\* Ids and messages are of the nodes they belong to.
TypeOK ==
  /\ {connected, subscribed} \subseteq BOOLEAN
  /\ jobs \subseteq Job /\ pending \subseteq Entry /\ timers \subseteq Entry
  /\ seq \in [OutNodes -> 0 .. Cardinality(Msgs)]
  /\ \A m \in Msgs : id[m] # None => id[m] \in Ids /\ id[m][1] = From[m]
  /\ outcome \in [Msgs -> {"new", "open", "closed"} \cup Final]
  /\ answer \in [Msgs -> Msgs \cup {None}]

\* done is called once: an answer stops the timer, a timeout makes the answer that
\* comes after it nobody's, and a closed node says nothing any more
\* (out.js:50-56, 161-166, 180-186).
EndsOnce ==
  [][\A m \in Msgs : outcome[m] \in Final \cup {"closed"} => outcome'[m] = outcome[m]]_vars

\* A request that is not done has its entry and a timer that will end it, and
\* nothing is left of one that is: no timer, no entry for a late answer to find
\* (out.js:50-56, 161-169, 180-186).
NoneForgotten ==
  /\ pending = timers
  /\ \A m \in Msgs : outcome[m] = "open" <=> \E e \in pending : e.msg = m

\* A message is answered with the result of its own command, other nodes' and late
\* answers notwithstanding, as long as its id was given to no other message: ids
\* start over when a node is deployed again (out.js:29-32, 50-54, 158;
\* nodered/README.md:143-145).
Correlated ==
  \A m \in Msgs : answer[m] \in {None, m} \/ \E n \in Msgs \ {m} : id[n] = id[m]

\* The message's own command was carried out.
Done(m) == executed[m] = 1

\* A command is carried out at most once, and the flow is told of a success only
\* if it was, or if another command was that had been given the same id: ids start
\* over when a node is deployed again (out.js:33, 158).  A session that dies, a call
\* that times out and an answer that is lost end as failures, though the command may
\* have been or may still be carried out (bridge.go:147-157, 667-689).
SuccessMeansDone ==
  \A m \in Msgs :
    /\ executed[m] <= 1
    /\ outcome[m] = "answered" => Done(m) \/ \E n \in Msgs \ {m} : id[n] = id[m] /\ Done(n)

\* No request overtakes the subscription that its answer needs: when the bridge
\* gets it, answers are forwarded, if it was sent on this connection
\* (broker.js:165-177, out.js:38-40).
AnswersHeard ==
  outbox # <<>> /\ Head(outbox).op = "request" => subscribed

\* Every request ends, whatever is lost (nodered/README.md:146, "silence past the
\* timeout, raises a node error").
EveryRequestEnds == \A m \in Msgs : outcome[m] = "open" ~> outcome[m] # "open"
=============================================================================
