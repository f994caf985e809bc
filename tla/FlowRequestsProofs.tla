------------------------- MODULE FlowRequestsProofs -------------------------
(***************************************************************************)
(* What a flow may rely on when it sends requests, for any number of out   *)
(* nodes, messages and failures.                                           *)
(*                                                                         *)
(* The invariant follows a message through the system.  Typed bounds the   *)
(* request ids by the messages given; Booked ties what is open to an entry *)
(* and its timer; Labelled says that whatever carries a message's command  *)
(* or result carries the id it was given; Once that a command is in one    *)
(* place at a time; and Heard that a subscription precedes every request   *)
(* on its way to the broker.                                               *)
(***************************************************************************)
EXTENDS FlowRequests, FiniteSetTheorems, SequenceTheorems, TLAPS

Packet == [op : {"subscribe", "unsubscribe"}] \cup [op : {"request"}, id : Ids, msg : Msgs]
Answer == [id : Ids, of : Msgs, success : BOOLEAN]

\* The messages the out nodes have been given so far.
Given == {m \in Msgs : outcome[m] # "new"}

NetworkOK ==
  /\ {connected, subscribed} \subseteq BOOLEAN
  /\ outbox \in Seq(Packet) /\ inbox \in Seq(Answer)

BridgeOK ==
  /\ jobs \subseteq Job /\ session \in BOOLEAN
  /\ atServer \subseteq Msgs /\ executed \in [Msgs -> 0 .. 1]

OutOK ==
  /\ pending \subseteq Entry /\ timers \subseteq Entry
  /\ seq \in [OutNodes -> Nat] /\ \A o \in OutNodes : seq[o] <= Cardinality(Given)
  /\ id \in [Msgs -> Ids \cup {None}]
  /\ \A m \in Msgs : id[m] # None => id[m][1] = From[m]
  /\ outcome \in [Msgs -> {"new", "open", "closed"} \cup Final]
  /\ answer \in [Msgs -> Msgs \cup {None}]

Typed == NetworkOK /\ BridgeOK /\ OutOK

\* An entry is the one its open message was given, and it has a timer.
Booked ==
  /\ pending = timers
  /\ \A e \in pending : outcome[e.msg] = "open" /\ e.id = id[e.msg]
  /\ \A m \in Msgs : outcome[m] = "open" => \E e \in pending : e.msg = m

\* The places of the outbox that hold the request of message m.
Asks(m) == {i \in 1 .. Len(outbox) : outbox[i].op = "request" /\ outbox[i].msg = m}

\* Packets, goroutines and answers bear the id of the message they are about.
Labelled ==
  /\ \A m \in Msgs : \A i \in Asks(m) : m \in Given /\ outbox[i].id = id[m]
  /\ \A j \in jobs : j.msg \in Given /\ j.id = id[j.msg]
  /\ \A i \in 1 .. Len(inbox) : inbox[i].of \in Given /\ inbox[i].id = id[inbox[i].of]
  /\ \A m \in Msgs : answer[m] # None =>
       m \in Given /\ answer[m] \in Given /\ id[answer[m]] = id[m]

\* A command is asked for, with the bridge, with matter-server or carried out;
\* what speaks of success comes after that.
Once ==
  /\ \A m \in Msgs : \A i, k \in Asks(m) : i = k
  /\ \A m \in Msgs : Asks(m) # {} => \A j \in jobs : j.msg # m
  /\ \A m \in Msgs : Asks(m) # {} \/ m \notin Given => m \notin atServer /\ executed[m] = 0
  /\ \A j, k \in jobs : j.msg = k.msg => j = k
  /\ \A j \in jobs : j.at = "asked" => j.msg \notin atServer /\ executed[j.msg] = 0
  /\ \A j \in jobs : j.at = "ok" => executed[j.msg] = 1
  /\ \A m \in atServer : executed[m] = 0
  /\ \A i \in 1 .. Len(inbox) : inbox[i].success => executed[inbox[i].of] = 1
  /\ \A m \in Msgs : outcome[m] = "answered" => answer[m] \in Msgs /\ executed[answer[m]] = 1

\* The client asks for answers before it asks for anything else.
Heard ==
  /\ ~connected => outbox = <<>> /\ ~subscribed
  /\ connected /\ ~subscribed /\ OutNodes # {} =>
       outbox # <<>> /\ outbox[1].op = "subscribe"
  /\ \A i \in 1 .. Len(outbox) : outbox[i].op = "unsubscribe" =>
       i + 1 \in 1 .. Len(outbox) /\ outbox[i + 1].op = "subscribe"

ReqInv == Typed /\ Booked /\ Labelled /\ Once /\ Heard

-----------------------------------------------------------------------------
(* Sequences. *)

\* What is behind the head, one place on.
LEMMA TailAt ==
  ASSUME NEW S, NEW s \in Seq(S), s # <<>>
  PROVE  /\ Len(s) \in Nat \ {0} /\ Head(s) = s[1] /\ s[1] \in S
         /\ Tail(s) \in Seq(S) /\ Len(Tail(s)) = Len(s) - 1
         /\ \A i \in 1 .. Len(Tail(s)) : i + 1 \in 1 .. Len(s) /\ Tail(s)[i] = s[i + 1]
  BY HeadTailProperties, EmptySeq

\* What is appended comes last.
LEMMA AppendAt ==
  ASSUME NEW S, NEW s \in Seq(S), NEW e \in S
  PROVE  /\ Append(s, e) \in Seq(S) /\ Len(s) \in Nat /\ Len(Append(s, e)) = Len(s) + 1
         /\ Append(s, e)[Len(s) + 1] = e
         /\ \A i \in 1 .. Len(s) : Append(s, e)[i] = s[i]
  BY AppendProperties, LenProperties

\* The steps of the queue to the broker.
LEMMA OutboxAt ==
  ASSUME NEW S, NEW s \in Seq(S), NEW a \in S, NEW b \in S
  PROVE  LET t == s \o <<a>> \o <<b>> IN
         /\ t \in Seq(S) /\ Len(s) \in Nat /\ Len(t) = Len(s) + 2
         /\ t[Len(s) + 1] = a /\ t[Len(s) + 2] = b
         /\ \A i \in 1 .. Len(s) : t[i] = s[i]
  OBVIOUS

-----------------------------------------------------------------------------
(* The steps. *)

\* Nothing has been sent yet.
LEMMA InitReq == Init => ReqInv
<1> SUFFICES ASSUME Init PROVE ReqInv
  OBVIOUS
<1> USE RequestsAssumption DEF Init
<1>1. Given = {}
  BY DEF Given
<1>2. Cardinality(Given) = 0 /\ Cardinality(Msgs) \in Nat
  BY <1>1, FS_EmptySet, FS_CardinalityType
<1>3. Typed
  <2>1. outbox \in Seq(Packet) /\ inbox \in Seq(Answer)
    OBVIOUS
  <2>2. NetworkOK
    BY <2>1 DEF NetworkOK
  <2>3. BridgeOK
    BY DEF BridgeOK
  <2>4. OutOK
    BY <1>2 DEF OutOK
  <2> QED
    BY <2>2, <2>3, <2>4 DEF Typed
<1>4. Booked /\ Heard
  BY DEF Booked, Heard
<1>5. \A m \in Msgs : Asks(m) = {}
  BY DEF Asks
<1>6. Labelled /\ Once
  BY <1>5 DEF Labelled, Once
<1> QED
  BY <1>3, <1>4, <1>6 DEF ReqInv

\* A request is opened when its message is given, and once (out.js:154-186).
LEMMA OutcomeStep ==
  ASSUME Typed, Booked, [Next]_vars
  PROVE  \A m \in Msgs :
           \/ outcome'[m] = outcome[m]
           \/ outcome[m] = "open" /\ outcome'[m] \in Final \cup {"closed"}
           \/ outcome[m] = "new" /\ SendRequest(m) /\ outcome'[m] \in {"open", "failed"}
<1> USE DEF Typed, OutOK, Booked, Final
<1>1. CASE UNCHANGED vars \/ Connect \/ Disconnect \/ BrokerTakes \/ SessionDies \/ SessionBack
  BY <1>1 DEF vars, out, Connect, Disconnect, BrokerTakes, SessionDies, SessionBack, BridgeUnchanged
<1>2. CASE \E j \in jobs : Invoke(j) \/ CallTimesOut(j) \/ BridgeAnswers(j)
  BY <1>2 DEF out, Invoke, CallTimesOut, BridgeAnswers, BridgeUnchanged
<1>3. CASE \E m \in Msgs, done \in BOOLEAN : Decide(m, done)
  BY <1>3 DEF out, Decide, BridgeUnchanged
<1>4. CASE OnResponse
  BY <1>4 DEF OnResponse, Matching
<1>5. CASE \E m \in Msgs : SendRequest(m)
  <2> PICK m \in Msgs : SendRequest(m)
    BY <1>5
  <2>1. outcome[m] = "new" /\ outcome' \in {[outcome EXCEPT ![m] = "open"],
                                          [outcome EXCEPT ![m] = "failed"]}
    BY DEF SendRequest
  <2> QED
    BY <2>1
<1>6. CASE \E e \in timers : Timeout(e)
  BY <1>6 DEF Timeout
<1>7. CASE \E deployed \in SUBSET OutNodes : Redeploy(deployed)
  BY <1>7 DEF Redeploy
<1> QED
  BY <1>1, <1>2, <1>3, <1>4, <1>5, <1>6, <1>7 DEF Next

\* At most as many messages have been given as there are.
LEMMA GivenCount == /\ IsFiniteSet(Given)
                    /\ Cardinality(Given) \in Nat /\ Cardinality(Msgs) \in Nat
                    /\ Cardinality(Given) <= Cardinality(Msgs)
<1>1. IsFiniteSet(Msgs) /\ Given \subseteq Msgs
  BY RequestsAssumption DEF Given
<1> QED
  BY <1>1, FS_Subset, FS_CardinalityType

\* Request ids stay within the number of messages.
LEMMA GivenStep ==
  ASSUME Typed, Booked, Next
  PROVE  /\ Cardinality(Given') \in Nat /\ Cardinality(Given') <= Cardinality(Msgs)
         /\ Given \subseteq Given'
         /\ \A o \in OutNodes : seq[o] <= Cardinality(Given')
         /\ \A m \in Msgs : SendRequest(m) => Cardinality(Given') = Cardinality(Given) + 1
<1>1. IsFiniteSet(Msgs) /\ Given \subseteq Msgs /\ Given' \subseteq Msgs
  BY RequestsAssumption DEF Given
<1>2. IsFiniteSet(Given) /\ IsFiniteSet(Given')
  BY <1>1, FS_Subset
<1>3. Given \subseteq Given'
  BY OutcomeStep DEF Given, Final
<1>4. /\ Cardinality(Given) \in Nat /\ Cardinality(Given') \in Nat
      /\ Cardinality(Given) <= Cardinality(Given')
      /\ Cardinality(Given') <= Cardinality(Msgs)
  BY <1>1, <1>2, <1>3, FS_CardinalityType, FS_Subset
<1>5. ASSUME NEW m \in Msgs, SendRequest(m)
      PROVE  Cardinality(Given') = Cardinality(Given) + 1
  <2>1. Given' = Given \cup {m} /\ m \notin Given
    BY <1>5 DEF SendRequest, Given, Typed, OutOK
  <2> QED
    BY <1>2, <2>1, FS_AddElement
<1> QED
  BY <1>3, <1>4, <1>5 DEF Typed, OutOK

\* What is under way between client and bridge is well formed.
LEMMA NetworkStep == ReqInv /\ Next => NetworkOK'
<1> SUFFICES ASSUME ReqInv, Next PROVE NetworkOK'
  OBVIOUS
<1> USE DEF ReqInv, Typed, NetworkOK
<1>1. CASE Connect \/ Disconnect
  <2>1. <<>> \in Seq(Packet) /\ <<>> \in Seq(Answer) /\ <<[op |-> "subscribe"]>> \in Seq(Packet)
    BY DEF Packet
  <2> QED
    BY <1>1, <2>1 DEF Connect, Disconnect
<1>2. CASE BrokerTakes
  BY <1>2, TailAt DEF BrokerTakes
<1>3. CASE OnResponse
  BY <1>3, TailAt DEF OnResponse
<1>4. CASE \E j \in jobs : BridgeAnswers(j)
  <2> SUFFICES ASSUME NEW j \in jobs, BridgeAnswers(j) PROVE inbox' \in Seq(Answer)
    BY <1>4 DEF BridgeAnswers
  <2> DEFINE body == [id |-> j.id, of |-> j.msg, success |-> j.at = "ok"]
  <2>1. body \in Answer
    BY DEF BridgeOK, Job, Answer
  <2>2. inbox' = inbox \/ inbox' = Append(inbox, body)
    BY DEF BridgeAnswers
  <2>3. inbox \in Seq(Answer)
    OBVIOUS
  <2> HIDE DEF body
  <2>4. Append(inbox, body) \in Seq(Answer)
    BY <2>1, <2>3
  <2> QED
    BY <2>2, <2>3, <2>4
<1>5. CASE \E m \in Msgs : SendRequest(m)
  <2> SUFFICES ASSUME NEW m \in Msgs, SendRequest(m) PROVE outbox' \in Seq(Packet)
    BY <1>5 DEF SendRequest
  <2> DEFINE p == [op |-> "request", id |-> RequestId(m), msg |-> m]
  <2>1. RequestId(m) \in Ids
    <3>1. From[m] \in OutNodes /\ seq[From[m]] \in Nat
      BY RequestsAssumption DEF OutOK
    <3>2. seq[From[m]] <= Cardinality(Given) /\ Cardinality(Given) \in Nat
            /\ Cardinality(Msgs) \in Nat /\ Cardinality(Given) + 1 <= Cardinality(Msgs)
      BY <3>1, GivenStep, GivenCount DEF OutOK
    <3> QED
      BY <3>1, <3>2 DEF RequestId, Ids
  <2>2. p \in Packet
    BY <2>1 DEF Packet
  <2>3. outbox' = outbox \/ outbox' = Append(outbox, p)
    BY DEF SendRequest
  <2> QED
    BY <2>2, <2>3, AppendAt
<1>6. CASE \E deployed \in SUBSET OutNodes : Redeploy(deployed)
  <2> DEFINE off == [op |-> "unsubscribe"]
             on == [op |-> "subscribe"]
  <2>1. off \in Packet /\ on \in Packet
    BY DEF Packet
  <2>2. outbox' \in {outbox, outbox \o <<off>> \o <<on>>}
    BY <1>6 DEF Redeploy, First
  <2> QED
    BY <1>6, <2>1, <2>2, OutboxAt DEF Redeploy
<1>7. CASE \/ \E j \in jobs : Invoke(j) \/ CallTimesOut(j)
           \/ \E m \in Msgs, done \in BOOLEAN : Decide(m, done)
           \/ SessionDies \/ SessionBack \/ \E e \in timers : Timeout(e)
  BY <1>7 DEF Invoke, CallTimesOut, Decide, SessionDies, SessionBack, Timeout,
     BridgeUnchanged, network
<1> QED
  BY <1>1, <1>2, <1>3, <1>4, <1>5, <1>6, <1>7 DEF Next

\* The bridge's goroutines and matter-server are about messages.
LEMMA BridgeStep == ReqInv /\ Next => BridgeOK'
<1> SUFFICES ASSUME ReqInv, Next PROVE BridgeOK'
  OBVIOUS
<1> USE DEF ReqInv, Typed, BridgeOK, Job
<1>1. CASE BrokerTakes
  <2>1. Head(outbox) \in Packet
    BY <1>1, TailAt DEF BrokerTakes, NetworkOK
  <2> QED
    BY <1>1, <2>1 DEF BrokerTakes, Packet
<1>2. CASE \E j \in jobs : Invoke(j) \/ CallTimesOut(j) \/ BridgeAnswers(j)
  BY <1>2 DEF Invoke, CallTimesOut, BridgeAnswers, Becomes
<1>3. CASE \E m \in Msgs, done \in BOOLEAN : Decide(m, done)
  <2> PICK m \in Msgs, done \in BOOLEAN : Decide(m, done)
    BY <1>3
  <2>1. jobs' \subseteq Job /\ atServer' \subseteq Msgs /\ session' = session
    BY DEF Decide
  <2>2. executed[m] = 0
    BY DEF Decide, Once
  <2> QED
    BY <2>1, <2>2 DEF Decide
<1>4. CASE SessionDies \/ SessionBack
  BY <1>4 DEF SessionDies, SessionBack
<1>5. CASE \/ Connect \/ Disconnect \/ OnResponse
           \/ \E m \in Msgs : SendRequest(m)
           \/ \E e \in timers : Timeout(e)
           \/ \E deployed \in SUBSET OutNodes : Redeploy(deployed)
  BY <1>5 DEF Connect, Disconnect, OnResponse, SendRequest, Timeout, Redeploy, bridge
<1> QED
  BY <1>1, <1>2, <1>3, <1>4, <1>5 DEF Next

\* The out nodes keep entries, ids and outcomes of their messages.
LEMMA OutStep == ReqInv /\ Next => OutOK'
<1> SUFFICES ASSUME ReqInv, Next PROVE OutOK'
  OBVIOUS
<1> USE DEF ReqInv, Typed, OutOK
<1>1. /\ \A o \in OutNodes : seq[o] <= Cardinality(Given')
      /\ Cardinality(Given') \in Nat /\ Cardinality(Given') <= Cardinality(Msgs)
      /\ Cardinality(Given) \in Nat /\ Cardinality(Msgs) \in Nat
  BY GivenStep, GivenCount
<1>2. outcome' \in [Msgs -> {"new", "open", "closed"} \cup Final]
  <2>1. \A m \in Msgs : outcome'[m] \in {"new", "open", "closed"} \cup Final
    BY OutcomeStep DEF Final
  <2>2. outcome' = [m \in Msgs |-> outcome'[m]]
    BY DEF Next, Connect, Disconnect, BrokerTakes, OnResponse, Invoke, CallTimesOut,
       BridgeAnswers, Decide, SessionDies, SessionBack, SendRequest, Timeout, Redeploy,
       BridgeUnchanged, out
  <2> QED
    BY <2>1, <2>2
<1>3. CASE UNCHANGED out
  BY <1>1, <1>3 DEF out, Given
<1>4. CASE OnResponse
  <2>1. Head(inbox) \in Answer
    BY <1>4, TailAt DEF OnResponse, NetworkOK
  <2>2. answer' \in [Msgs -> Msgs \cup {None}]
    BY <1>4, <2>1 DEF OnResponse, Answer
  <2> QED
    BY <1>1, <1>2, <1>4, <2>2 DEF OnResponse, Settle
<1>5. CASE \E m \in Msgs : SendRequest(m)
  <2> PICK m \in Msgs : SendRequest(m)
    BY <1>5
  <2> DEFINE entry == [id |-> RequestId(m), msg |-> m]
  <2>1. From[m] \in OutNodes /\ seq[From[m]] + 1 <= Cardinality(Given')
    BY <1>1, GivenStep, RequestsAssumption
  <2>2. RequestId(m) \in Ids /\ RequestId(m)[1] = From[m]
    BY <1>1, <2>1 DEF RequestId, Ids
  <2>3. entry \in Entry
    BY <2>2 DEF Entry
  <2>4. /\ seq' = [seq EXCEPT ![From[m]] = @ + 1] /\ id' = [id EXCEPT ![m] = RequestId(m)]
        /\ pending' \subseteq pending \cup {entry} /\ timers' \subseteq timers \cup {entry}
        /\ answer' = answer
    BY DEF SendRequest
  <2>5. seq' \in [OutNodes -> Nat] /\ \A o \in OutNodes : seq'[o] <= Cardinality(Given')
    BY <1>1, <2>1, <2>4
  <2> QED
    BY <1>2, <2>2, <2>3, <2>4, <2>5
<1>6. CASE \E e \in timers : Timeout(e)
  BY <1>1, <1>2, <1>6 DEF Timeout
<1>7. CASE \E deployed \in SUBSET OutNodes : Redeploy(deployed)
  BY <1>1, <1>2, <1>7 DEF Redeploy, Settle
<1> QED
  BY <1>3, <1>4, <1>5, <1>6, <1>7 DEF Next, Connect, Disconnect, BrokerTakes, Invoke,
     CallTimesOut, BridgeAnswers, Decide, SessionDies, SessionBack, BridgeUnchanged

\* A request is open as long as it has its entry and its timer.
LEMMA BookedStep == ReqInv /\ Next => Booked'
<1> SUFFICES ASSUME ReqInv, Next PROVE Booked'
  OBVIOUS
<1> USE DEF ReqInv, Typed, OutOK, Booked, Entry
<1>1. CASE UNCHANGED out
  BY <1>1 DEF out
<1>2. CASE OnResponse
  BY <1>2 DEF OnResponse, Settle, Matching
<1>3. CASE \E m \in Msgs : SendRequest(m)
  <2> PICK m \in Msgs : SendRequest(m)
    BY <1>3
  <2> DEFINE entry == [id |-> RequestId(m), msg |-> m]
  <2>1. outcome[m] = "new" /\ id' = [id EXCEPT ![m] = entry.id]
    BY DEF SendRequest
  <2>2. \A e \in pending : e.msg # m /\ e.msg \in Msgs
    BY <2>1
  <2>3. CASE connected
    <3>1. /\ pending' = pending \cup {entry} /\ timers' = timers \cup {entry}
          /\ outcome' = [outcome EXCEPT ![m] = "open"]
      BY <2>3 DEF SendRequest
    <3>2. entry.msg = m
      OBVIOUS
    <3> HIDE DEF entry
    <3> QED
      BY <2>1, <2>2, <3>1, <3>2
  <2>4. CASE ~connected
    <3>1. UNCHANGED <<pending, timers>> /\ outcome' = [outcome EXCEPT ![m] = "failed"]
      BY <2>4 DEF SendRequest
    <3> QED
      BY <2>1, <2>2, <3>1
  <2> QED
    BY <2>3, <2>4
<1>4. CASE \E e \in timers : Timeout(e)
  BY <1>4 DEF Timeout
<1>5. CASE \E deployed \in SUBSET OutNodes : Redeploy(deployed)
  BY <1>5 DEF Redeploy, Settle
<1> QED
  BY <1>1, <1>2, <1>3, <1>4, <1>5 DEF Next, Connect, Disconnect, BrokerTakes, Invoke,
     CallTimesOut, BridgeAnswers, Decide, SessionDies, SessionBack, BridgeUnchanged

\* A request moves up in the queue or leaves it; none is added but by its node.
LEMMA AsksStep ==
  ASSUME ReqInv, Next, NEW m \in Msgs
  PROVE  \/ \E d \in {0, 1} : /\ d = 1 => BrokerTakes
                              /\ \A k \in Asks(m)' : k + d \in Asks(m) /\ outbox'[k] = outbox[k + d]
         \/ /\ SendRequest(m) /\ Asks(m) = {}
            /\ \A k \in Asks(m)' : k = Len(outbox) + 1 /\ outbox'[k].id = id'[m]
<1> USE DEF ReqInv, Typed, NetworkOK
<1>1. CASE UNCHANGED outbox
  BY <1>1 DEF Asks
<1>2. CASE Connect \/ Disconnect
  BY <1>2 DEF Connect, Disconnect, Asks
<1>3. CASE BrokerTakes
  <2>1. \A k \in Asks(m)' : k + 1 \in Asks(m) /\ outbox'[k] = outbox[k + 1]
    BY <1>3, TailAt DEF BrokerTakes, Asks
  <2> QED
    BY <1>3, <2>1
<1>4. CASE \E n \in Msgs : SendRequest(n) /\ connected
  <2> PICK n \in Msgs : SendRequest(n) /\ connected
    BY <1>4
  <2> DEFINE p == [op |-> "request", id |-> RequestId(n), msg |-> n]
  <2>1. outbox' = Append(outbox, p) /\ outcome[n] = "new" /\ id' = [id EXCEPT ![n] = RequestId(n)]
    BY DEF SendRequest
  <2>2. outbox' \in Seq(Packet)
    BY NetworkStep
  <2>3. Len(outbox) \in Nat /\ Len(outbox') = Len(outbox) + 1
          /\ outbox'[Len(outbox) + 1] = p /\ \A i \in 1 .. Len(outbox) : outbox'[i] = outbox[i]
    BY <2>1
  <2>4. p.msg = n /\ p.id = RequestId(n)
    OBVIOUS
  <2> HIDE DEF p
  <2>5. CASE m = n
    <3>1. Asks(m) = {}
      BY <2>1, <2>5 DEF Labelled, Given
    <3>2. id'[m] = RequestId(m)
      BY <2>1, <2>5 DEF OutOK
    <3> QED
      BY <2>3, <2>4, <2>5, <3>1, <3>2 DEF Asks
  <2>6. CASE m # n
    BY <2>3, <2>4, <2>6 DEF Asks
  <2> QED
    BY <2>5, <2>6
<1>5. CASE \E deployed \in SUBSET OutNodes : Redeploy(deployed)
  <2> DEFINE off == [op |-> "unsubscribe"]
             on == [op |-> "subscribe"]
  <2>1. outbox' \in {outbox, outbox \o <<off>> \o <<on>>}
    BY <1>5 DEF Redeploy, First
  <2>2. off \in Packet /\ on \in Packet /\ off.op # "request" /\ on.op # "request"
    BY DEF Packet
  <2> HIDE DEF off, on
  <2>3. \A k \in 1 .. Len(outbox') : \/ k \in 1 .. Len(outbox) /\ outbox'[k] = outbox[k]
                                     \/ outbox'[k].op # "request"
    BY <2>1, <2>2, OutboxAt
  <2>4. \A k \in Asks(m)' : k + 0 \in Asks(m) /\ outbox'[k] = outbox[k + 0]
    BY <2>3 DEF Asks
  <2> QED
    BY <2>4
<1> QED
  BY <1>1, <1>2, <1>3, <1>4, <1>5 DEF Next, OnResponse, Invoke, CallTimesOut, BridgeAnswers,
     Decide, SessionDies, SessionBack, SendRequest, Timeout, BridgeUnchanged, network

\* A message keeps the id it was given (out.js:158).
LEMMA IdStep ==
  ASSUME ReqInv, Next, NEW m \in Given
  PROVE  m \in Given' /\ id'[m] = id[m]
<1>1. m \in Given'
  BY GivenStep DEF ReqInv
<1>2. CASE UNCHANGED id
  BY <1>1, <1>2
<1>3. CASE \E n \in Msgs : SendRequest(n)
  BY <1>1, <1>3 DEF SendRequest, Given, ReqInv, Typed, OutOK
<1> QED
  BY <1>2, <1>3 DEF Next, Connect, Disconnect, BrokerTakes, OnResponse, Invoke, CallTimesOut,
     BridgeAnswers, Decide, SessionDies, SessionBack, Timeout, Redeploy, BridgeUnchanged, out

\* Every carrier keeps the id of its message, and the answer goes by it.
LEMMA LabelledStep == ReqInv /\ Next => Labelled'
<1> SUFFICES ASSUME ReqInv, Next PROVE Labelled'
  OBVIOUS
<1>1. \A m \in Msgs : \A i \in Asks(m)' : m \in Given' /\ outbox'[i].id = id'[m]
  <2> SUFFICES ASSUME NEW m \in Msgs, NEW i \in Asks(m)' PROVE m \in Given' /\ outbox'[i].id = id'[m]
    OBVIOUS
  <2>1. CASE SendRequest(m) /\ outbox'[i].id = id'[m]
    BY <2>1 DEF SendRequest, Given, ReqInv, Typed, OutOK
  <2>2. CASE \E k \in Asks(m) : outbox'[i] = outbox[k]
    BY <2>2, IdStep DEF ReqInv, Labelled
  <2> QED
    BY <2>1, <2>2, AsksStep
<1>2. \A j \in jobs' : j.msg \in Given' /\ j.id = id'[j.msg]
  <2>1. \A j \in jobs' : j.msg \in Given /\ j.id = id[j.msg]
    <3> USE DEF ReqInv, Typed, BridgeOK, Labelled
    <3>1. CASE UNCHANGED jobs
      BY <3>1
    <3>2. CASE BrokerTakes
      <4>1. Head(outbox) = outbox[1] /\ outbox[1] \in Packet /\ 1 \in 1 .. Len(outbox)
        BY <3>2, TailAt DEF BrokerTakes, NetworkOK
      <4>2. outbox[1].op = "request" => /\ outbox[1].msg \in Msgs
                                        /\ 1 \in Asks(outbox[1].msg)
        BY <4>1 DEF Packet, Asks
      <4> QED
        BY <3>2, <4>1, <4>2 DEF BrokerTakes
    <3>3. CASE \E j \in jobs : Invoke(j) \/ CallTimesOut(j) \/ BridgeAnswers(j)
      BY <3>3 DEF Invoke, CallTimesOut, BridgeAnswers, Becomes, Job
    <3>4. CASE \E m \in Msgs, done \in BOOLEAN : Decide(m, done)
      BY <3>4 DEF Decide, Job
    <3>5. CASE SessionDies
      BY <3>5 DEF SessionDies, Job
    <3> QED
      BY <3>1, <3>2, <3>3, <3>4, <3>5 DEF Next, Connect, Disconnect, OnResponse, SessionBack,
         SendRequest, Timeout, Redeploy, bridge
  <2> QED
    BY <2>1, IdStep
<1>3. \A i \in 1 .. Len(inbox') : inbox'[i].of \in Given' /\ inbox'[i].id = id'[inbox'[i].of]
  <2>1. \A i \in 1 .. Len(inbox') : inbox'[i].of \in Given /\ inbox'[i].id = id[inbox'[i].of]
    <3> USE DEF ReqInv, Typed, NetworkOK, Labelled
    <3>1. CASE UNCHANGED inbox
      BY <3>1
    <3>2. CASE Disconnect
      BY <3>2 DEF Disconnect
    <3>3. CASE OnResponse
      BY <3>3, TailAt DEF OnResponse
    <3>4. CASE \E j \in jobs : BridgeAnswers(j)
      <4> PICK j \in jobs : BridgeAnswers(j)
        BY <3>4
      <4> DEFINE body == [id |-> j.id, of |-> j.msg, success |-> j.at = "ok"]
      <4>1. inbox' = inbox \/ inbox' = Append(inbox, body)
        BY DEF BridgeAnswers
      <4>2. body \in Answer /\ body.of \in Given /\ body.id = id[body.of]
        BY DEF BridgeOK, Job, Answer
      <4> HIDE DEF body
      <4> QED
        BY <4>1, <4>2, AppendAt
    <3> QED
      BY <3>1, <3>2, <3>3, <3>4 DEF Next, Connect, BrokerTakes, Invoke, CallTimesOut, Decide,
         SessionDies, SessionBack, SendRequest, Timeout, Redeploy, BridgeUnchanged, network
  <2> QED
    BY <2>1, IdStep
<1>4. \A m \in Msgs : answer'[m] # None =>
        m \in Given' /\ answer'[m] \in Given' /\ id'[answer'[m]] = id'[m]
  <2>1. \A m \in Msgs : answer'[m] # None =>
          m \in Given /\ answer'[m] \in Given /\ id[answer'[m]] = id[m]
    <3> USE DEF ReqInv, Labelled
    <3>1. CASE UNCHANGED answer
      BY <3>1
    <3>2. CASE OnResponse
      <4>1. Head(inbox).of \in Given /\ Head(inbox).id = id[Head(inbox).of]
        BY <3>2, TailAt DEF OnResponse, Typed, NetworkOK
      <4>2. \A e \in Matching(Head(inbox)) : e.msg \in Given /\ Head(inbox).id = id[e.msg]
        BY DEF Matching, Booked, Given, Typed, OutOK, Entry
      <4> QED
        BY <3>2, <4>1, <4>2 DEF OnResponse
    <3> QED
      BY <3>1, <3>2 DEF Next, Connect, Disconnect, BrokerTakes, Invoke, CallTimesOut, BridgeAnswers,
         Decide, SessionDies, SessionBack, SendRequest, Timeout, Redeploy, BridgeUnchanged, out
  <2> QED
    BY <2>1, IdStep
<1> QED
  BY <1>1, <1>2, <1>3, <1>4 DEF Labelled

\* What a step does to goroutines, commands and results: each row of Once.
LEMMA OnceStep == ReqInv /\ Next => Once'
<1> SUFFICES ASSUME ReqInv, Next PROVE Once'
  OBVIOUS
<1> USE DEF ReqInv, Typed
<1>1. \A m \in Msgs : \A i, k \in Asks(m)' : i = k
  <2> SUFFICES ASSUME NEW m \in Msgs, NEW i \in Asks(m)', NEW k \in Asks(m)' PROVE i = k
    OBVIOUS
  <2>1. i \in Nat /\ k \in Nat
    BY NetworkStep DEF Asks, NetworkOK
  <2> QED
    BY <2>1, AsksStep DEF Once
<1>2. CASE BrokerTakes
  <2>1. Head(outbox) = outbox[1] /\ outbox[1] \in Packet /\ 1 \in 1 .. Len(outbox)
    BY <1>2, TailAt DEF BrokerTakes, NetworkOK
  <2>2. UNCHANGED <<inbox, atServer, executed, outcome, answer>>
    BY <1>2 DEF BrokerTakes, out
  <2>3. \A m \in Msgs : \A k \in Asks(m)' : k \in Nat \ {0} /\ k + 1 \in Asks(m)
    BY <1>2, TailAt DEF BrokerTakes, Asks, NetworkOK
  <2>4. CASE UNCHANGED jobs
    BY <1>1, <2>2, <2>3, <2>4 DEF Once, Given
  <2>5. CASE outbox[1].op = "request"
               /\ jobs' = jobs \cup {[id |-> outbox[1].id, msg |-> outbox[1].msg, at |-> "asked"]}
    <3>1. PICK m \in Msgs : m = outbox[1].msg /\ 1 \in Asks(m)
      BY <2>1, <2>5 DEF Packet, Asks
    <3>2. PICK new : new = [id |-> outbox[1].id, msg |-> m, at |-> "asked"]
      OBVIOUS
    <3>3. Asks(m)' = {}
      BY <2>3, <3>1 DEF Once
    <3>4. m \notin atServer /\ executed[m] = 0 /\ m \in Given /\ \A j \in jobs : j.msg # m
      BY <3>1 DEF Once, Labelled
    <3>5. new.msg = m /\ new.at = "asked" /\ jobs' = jobs \cup {new}
      BY <2>5, <3>1, <3>2
    <3>6. \A n \in Msgs : Asks(n)' # {} => Asks(n) # {} /\ n # m
      BY <2>3, <3>3
    <3>7. \A n \in Msgs : Asks(n)' # {} => \A j \in jobs' : j.msg # n
      BY <3>5, <3>6 DEF Once
    <3>8. \A n \in Msgs : Asks(n)' # {} \/ n \notin Given' => n \notin atServer' /\ executed'[n] = 0
      BY <2>2, <3>6 DEF Once, Given
    <3>9. \A j, k \in jobs' : j.msg = k.msg => j = k
      BY <3>4, <3>5 DEF Once
    <3>10. \A j \in jobs' : /\ j.at = "asked" => j.msg \notin atServer' /\ executed'[j.msg] = 0
                            /\ j.at = "ok" => executed'[j.msg] = 1
      BY <2>2, <3>4, <3>5 DEF Once
    <3>11. /\ \A n \in atServer' : executed'[n] = 0
           /\ \A i \in 1 .. Len(inbox') : inbox'[i].success => executed'[inbox'[i].of] = 1
           /\ \A n \in Msgs : outcome'[n] = "answered" =>
                answer'[n] \in Msgs /\ executed'[answer'[n]] = 1
      BY <2>2 DEF Once
    <3> QED
      BY <1>1, <3>7, <3>8, <3>9, <3>10, <3>11 DEF Once
  <2> QED
    BY <1>2, <2>1, <2>4, <2>5 DEF BrokerTakes
<1>3. CASE \E m \in Msgs : SendRequest(m)
  <2> PICK m \in Msgs : SendRequest(m)
    BY <1>3
  <2>1. UNCHANGED <<inbox, jobs, atServer, executed, answer>>
    BY DEF SendRequest, bridge
  <2>2. /\ outcome[m] = "new" /\ Given' = Given \cup {m} /\ m \notin Given
        /\ outcome' \in {[outcome EXCEPT ![m] = "open"], [outcome EXCEPT ![m] = "failed"]}
    BY DEF SendRequest, OutOK, Given
  <2>3. \A n \in Msgs \ {m} : Asks(n)' # {} => Asks(n) # {}
    <3>1. \A n \in Msgs \ {m} : ~SendRequest(n)
      BY <2>2 DEF SendRequest, OutOK
    <3> QED
      BY <3>1, AsksStep
  <2>4. \A n \in Msgs : Asks(n)' # {} => \A j \in jobs' : j.msg # n
    BY <2>1, <2>2, <2>3 DEF Once, Labelled
  <2>5. \A n \in Msgs : Asks(n)' # {} \/ n \notin Given' => n \notin atServer' /\ executed'[n] = 0
    BY <2>1, <2>2, <2>3 DEF Once
  <2>6. \A n \in Msgs : outcome'[n] = "answered" => outcome[n] = "answered"
    BY <2>2 DEF OutOK
  <2> QED
    BY <1>1, <2>1, <2>4, <2>5, <2>6 DEF Once
<1>4. CASE \E j \in jobs : Invoke(j) \/ CallTimesOut(j) \/ BridgeAnswers(j)
  <2> PICK j \in jobs : Invoke(j) \/ CallTimesOut(j) \/ BridgeAnswers(j)
    BY <1>4
  <2>1. UNCHANGED <<executed, outcome, answer, outbox>> /\ j \in Job /\ j.msg \in Given
    BY DEF Invoke, CallTimesOut, BridgeAnswers, BridgeUnchanged, network, out, BridgeOK, Labelled
  <2>2. \A m \in Msgs : Asks(m)' = Asks(m)
    BY <2>1 DEF Asks
  <2>3. Given' = Given
    BY <2>1 DEF Given
  <2>4. CASE Invoke(j) \/ CallTimesOut(j)
    <3>1. inbox' = inbox
      BY <2>4 DEF Invoke, CallTimesOut, BridgeUnchanged, network
    <3>2. PICK at \in {"calling", "error"} : jobs' = Becomes(j, at)
      BY <2>4 DEF Invoke, CallTimesOut
    <3>3. \A k \in jobs' : (k \in jobs /\ k.msg # j.msg) \/ k = [j EXCEPT !.at = at]
      BY <3>2 DEF Becomes, Once
    <3>4. [j EXCEPT !.at = at].msg = j.msg /\ [j EXCEPT !.at = at].at = at
      BY <2>1 DEF Job
    <3>5. atServer' \subseteq atServer \cup {j.msg}
            /\ (atServer' # atServer => j.at = "asked")
      BY <2>4 DEF Invoke, CallTimesOut
    <3>6. Asks(j.msg) = {} /\ (j.at = "asked" => executed[j.msg] = 0) /\ j.msg \in Msgs
      BY <2>1 DEF Once, Job
    <3>7. \A m \in Msgs : Asks(m)' # {} => \A k \in jobs' : k.msg # m
      BY <2>2, <3>3, <3>4, <3>6 DEF Once
    <3>8. \A m \in Msgs : Asks(m)' # {} \/ m \notin Given' => m \notin atServer' /\ executed'[m] = 0
      BY <2>1, <2>2, <2>3, <3>5, <3>6 DEF Once
    <3>9. \A k, l \in jobs' : k.msg = l.msg => k = l
      BY <3>3, <3>4 DEF Once
    <3>10. \A k \in jobs' : /\ k.at = "asked" => k.msg \notin atServer' /\ executed'[k.msg] = 0
                            /\ k.at = "ok" => executed'[k.msg] = 1
      BY <2>1, <3>3, <3>4, <3>5 DEF Once
    <3>11. \A m \in atServer' : executed'[m] = 0
      BY <2>1, <3>5, <3>6 DEF Once
    <3> QED
      BY <1>1, <2>1, <3>1, <3>7, <3>8, <3>9, <3>10, <3>11 DEF Once
  <2>5. CASE BridgeAnswers(j)
    <3> DEFINE body == [id |-> j.id, of |-> j.msg, success |-> j.at = "ok"]
    <3>1. jobs' \subseteq jobs /\ atServer' = atServer
      BY <2>5 DEF BridgeAnswers
    <3>2. inbox' = inbox \/ inbox' = Append(inbox, body)
      BY <2>5 DEF BridgeAnswers
    <3>3. body \in Answer /\ (body.success => executed[body.of] = 1)
      BY <2>1 DEF Answer, Job, Once
    <3> HIDE DEF body
    <3>4. \A i \in 1 .. Len(inbox') : inbox'[i].success => executed'[inbox'[i].of] = 1
      <4>1. \A i \in 1 .. Len(inbox) : inbox[i].success => executed[inbox[i].of] = 1
        BY DEF Once
      <4>2. inbox \in Seq(Answer) /\ executed' = executed
        BY <2>1, <2>5 DEF NetworkOK, BridgeAnswers
      <4>3. CASE inbox' = inbox
        BY <4>1, <4>2, <4>3
      <4>4. CASE inbox' = Append(inbox, body)
        <5>1. \A i \in 1 .. Len(inbox') :
                inbox'[i] = body \/ (i \in 1 .. Len(inbox) /\ inbox'[i] = inbox[i])
          BY <3>3, <4>2, <4>4, AppendAt
        <5> QED
          BY <3>3, <4>1, <4>2, <5>1
      <4> QED
        BY <3>2, <4>3, <4>4
    <3> QED
      BY <1>1, <2>1, <2>2, <2>3, <3>1, <3>4 DEF Once
  <2> QED
    BY <2>4, <2>5
<1>5. CASE \E m \in Msgs, done \in BOOLEAN : Decide(m, done)
  <2> PICK m \in Msgs, done \in BOOLEAN : Decide(m, done)
    BY <1>5
  <2>1. UNCHANGED <<outbox, inbox, outcome, answer>> /\ m \in atServer
          /\ atServer' = atServer \ {m} /\ executed[m] = 0 /\ Asks(m) = {} /\ m \in Given
    BY DEF Decide, BridgeUnchanged, network, out, Once
  <2>2. executed' = IF done THEN [executed EXCEPT ![m] = 1] ELSE executed
    BY <2>1 DEF Decide, BridgeOK
  <2>3. (\A n \in Msgs : Asks(n)' = Asks(n)) /\ Given' = Given
    BY <2>1 DEF Asks, Given
  <2>4. \A k \in jobs' : \E j \in jobs :
          /\ k.msg = j.msg
          /\ \/ k = j /\ (j.at = "calling" => j.msg # m)
             \/ /\ j.msg = m /\ j.at = "calling"
                /\ k = [j EXCEPT !.at = IF done THEN "ok" ELSE "error"]
    <3>1. \A k \in jobs' : \E j \in jobs :
            k = IF j.msg = m /\ j.at = "calling"
                  THEN [j EXCEPT !.at = IF done THEN "ok" ELSE "error"] ELSE j
      BY DEF Decide
    <3>2. \A j \in jobs : [j EXCEPT !.at = IF done THEN "ok" ELSE "error"].msg = j.msg
      BY DEF BridgeOK, Job
    <3> SUFFICES ASSUME NEW k \in jobs', NEW j \in jobs,
                        k = IF j.msg = m /\ j.at = "calling"
                              THEN [j EXCEPT !.at = IF done THEN "ok" ELSE "error"] ELSE j
                 PROVE  /\ k.msg = j.msg
                        /\ \/ k = j /\ (j.at = "calling" => j.msg # m)
                           \/ /\ j.msg = m /\ j.at = "calling"
                              /\ k = [j EXCEPT !.at = IF done THEN "ok" ELSE "error"]
      BY <3>1, Zenon
    <3> QED
      BY <3>2
  <2>5. \A j, k \in jobs' : j.msg = k.msg => j = k
    BY <2>4 DEF Once
  <2>6. \A n \in Msgs : Asks(n)' # {} => \A j \in jobs' : j.msg # n
    BY <2>3, <2>4 DEF Once
  <2>7. \A n \in Msgs : Asks(n)' # {} \/ n \notin Given' => n \notin atServer' /\ executed'[n] = 0
    BY <2>1, <2>2, <2>3 DEF Once, BridgeOK
  <2>8. \A k \in jobs' : k.at = "asked" => k.msg \notin atServer' /\ executed'[k.msg] = 0
    BY <2>1, <2>2, <2>4 DEF Once, BridgeOK, Job
  <2>9. \A k \in jobs' : k.at = "ok" => executed'[k.msg] = 1
    BY <2>1, <2>2, <2>4 DEF Once, BridgeOK, Job
  <2>10. \A n \in Msgs : executed[n] = 1 => executed'[n] = 1
    BY <2>2 DEF BridgeOK
  <2>11. \A n \in atServer' : executed'[n] = 0
    BY <2>1, <2>2 DEF Once, BridgeOK
  <2>12. \A i \in 1 .. Len(inbox') : inbox'[i].success => executed'[inbox'[i].of] = 1
    BY <2>1, <2>10 DEF Once, Labelled, Given
  <2>13. \A n \in Msgs : outcome'[n] = "answered" => answer'[n] \in Msgs /\ executed'[answer'[n]] = 1
    BY <2>1, <2>10 DEF Once
  <2> QED
    BY <1>1, <2>5, <2>6, <2>7, <2>8, <2>9, <2>11, <2>12, <2>13 DEF Once
<1>6. CASE SessionDies
  <2>1. UNCHANGED <<outbox, inbox, outcome, answer, executed>> /\ atServer' \subseteq atServer
    BY <1>6 DEF SessionDies, BridgeUnchanged, network, out
  <2>2. (\A n \in Msgs : Asks(n)' = Asks(n)) /\ Given' = Given
    BY <2>1 DEF Asks, Given
  <2>3. PICK lost : jobs' = {IF j.at = "calling" \/ j \in lost THEN [j EXCEPT !.at = "error"] ELSE j :
                               j \in jobs}
    BY <1>6 DEF SessionDies
  <2>4. \A k \in jobs' : \E j \in jobs :
          /\ k.msg = j.msg
          /\ k = (IF j.at = "calling" \/ j \in lost THEN [j EXCEPT !.at = "error"] ELSE j)
          /\ k = j \/ k.at = "error"
    BY <2>3 DEF BridgeOK, Job
  <2>5. \A j, k \in jobs' : j.msg = k.msg => j = k
    BY <2>4 DEF Once
  <2>6. \A n \in Msgs : Asks(n)' # {} => \A j \in jobs' : j.msg # n
    BY <2>2, <2>4 DEF Once
  <2>7. \A k \in jobs' : /\ k.at = "asked" => k.msg \notin atServer' /\ executed'[k.msg] = 0
                         /\ k.at = "ok" => executed'[k.msg] = 1
    BY <2>1, <2>4 DEF Once
  <2> QED
    BY <1>1, <2>1, <2>2, <2>5, <2>6, <2>7 DEF Once
<1>7. CASE OnResponse
  <2>1. UNCHANGED <<outbox, jobs, atServer, executed>> /\ inbox # <<>> /\ inbox' = Tail(inbox)
    BY <1>7 DEF OnResponse, bridge
  <2>2. (\A n \in Msgs : Asks(n)' = Asks(n)) /\ Given \subseteq Given'
    BY <2>1, GivenStep DEF Asks
  <2>3. \A i \in 1 .. Len(inbox') : inbox'[i].success => executed'[inbox'[i].of] = 1
    BY <2>1, TailAt DEF NetworkOK, Once
  <2>4. Head(inbox).of \in Msgs /\ (Head(inbox).success => executed[Head(inbox).of] = 1)
    <3>1. Head(inbox) = inbox[1] /\ inbox[1] \in Answer /\ 1 \in 1 .. Len(inbox)
      BY <2>1, TailAt DEF NetworkOK
    <3> QED
      BY <3>1 DEF Once, Answer
  <2>5. \A m \in Msgs : outcome'[m] = "answered" => answer'[m] \in Msgs /\ executed'[answer'[m]] = 1
    BY <1>7, <2>1, <2>4 DEF OnResponse, Once
  <2> QED
    BY <1>1, <2>1, <2>2, <2>3, <2>5 DEF Once
<1>8. CASE \/ Connect \/ Disconnect \/ SessionBack \/ \E e \in timers : Timeout(e)
           \/ \E deployed \in SUBSET OutNodes : Redeploy(deployed)
  <2>1. UNCHANGED <<jobs, atServer, executed, answer>>
          /\ (inbox' = inbox \/ inbox' = <<>>)
    BY <1>8 DEF Connect, Disconnect, SessionBack, Timeout, Redeploy, BridgeUnchanged, network,
       bridge, out
  <2>2. \A m \in Msgs : Asks(m)' # {} => Asks(m) # {}
    <3>1. \A m \in Msgs : SendRequest(m) => outcome[m] = "new" /\ outcome'[m] # "new"
      BY DEF SendRequest, OutOK
    <3>2. \A m \in Msgs : outcome[m] = "new" => outcome'[m] = "new"
      <4>1. CASE \E e \in timers : Timeout(e)
        BY <4>1 DEF Timeout, OutOK, Booked
      <4>2. CASE \E deployed \in SUBSET OutNodes : Redeploy(deployed)
        BY <4>2 DEF Redeploy, OutOK, Booked
      <4> QED
        BY <1>8, <4>1, <4>2 DEF Connect, Disconnect, SessionBack, BridgeUnchanged, out
    <3> QED
      BY <3>1, <3>2, AsksStep
  <2>3. Given \subseteq Given'
    BY GivenStep
  <2>4. \A m \in Msgs : outcome'[m] = "answered" => outcome[m] = "answered"
    BY <1>8 DEF Connect, Disconnect, SessionBack, Timeout, Redeploy, BridgeUnchanged, out, OutOK
  <2> QED
    BY <1>1, <2>1, <2>2, <2>3, <2>4 DEF Once
<1> QED
  BY <1>2, <1>3, <1>4, <1>5, <1>6, <1>7, <1>8 DEF Next

\* The queue to the broker opens with the subscription if there is none, and a
\* last handler gone is followed by a first one (broker.js:165-177, out.js:38-40).
LEMMA HeardStep == ReqInv /\ Next => Heard'
<1> SUFFICES ASSUME ReqInv, Next PROVE Heard'
  OBVIOUS
<1> USE DEF ReqInv, Typed, NetworkOK, Heard
<1>1. CASE UNCHANGED <<connected, subscribed, outbox>>
  BY <1>1
<1>2. CASE Connect \/ Disconnect
  BY <1>2 DEF Connect, Disconnect
<1>3. CASE BrokerTakes
  <2> DEFINE rest == Tail(outbox)
  <2>1. /\ connected' = connected /\ connected /\ outbox' = rest
        /\ subscribed' = IF outbox[1].op = "request" THEN subscribed ELSE outbox[1].op = "subscribe"
    BY <1>3, TailAt DEF BrokerTakes
  <2>2. /\ Len(outbox) \in Nat \ {0} /\ Len(rest) = Len(outbox) - 1 /\ rest \in Seq(Packet)
        /\ \A i \in 1 .. Len(rest) : i + 1 \in 1 .. Len(outbox) /\ rest[i] = outbox[i + 1]
    BY <1>3, TailAt DEF BrokerTakes
  <2> HIDE DEF rest
  <2>3. outbox[1].op \in {"request", "subscribe", "unsubscribe"}
    BY <2>2 DEF Packet
  <2>4. outbox[1].op = "unsubscribe" => rest # <<>> /\ rest[1].op = "subscribe"
    BY <2>2
  <2>5. connected' /\ ~subscribed' /\ OutNodes # {} => outbox' # <<>> /\ outbox'[1].op = "subscribe"
    BY <2>1, <2>3, <2>4
  <2>6. \A i \in 1 .. Len(rest) : rest[i].op = "unsubscribe" =>
          i + 1 \in 1 .. Len(rest) /\ rest[i + 1].op = "subscribe"
    BY <2>2
  <2> QED
    BY <2>1, <2>5, <2>6
<1>4. CASE \E m \in Msgs : SendRequest(m)
  <2> PICK m \in Msgs : SendRequest(m)
    BY <1>4
  <2> DEFINE p == [op |-> "request", id |-> RequestId(m), msg |-> m]
  <2>1. UNCHANGED <<connected, subscribed>>
          /\ (outbox' = outbox \/ (connected /\ outbox' = Append(outbox, p)))
    BY DEF SendRequest
  <2>2. outbox' \in Seq(Packet) /\ p.op = "request"
    BY NetworkStep
  <2> HIDE DEF p
  <2>3. CASE connected /\ outbox' = Append(outbox, p)
    <3>1. Len(outbox') = Len(outbox) + 1 /\ Len(outbox) \in Nat /\ outbox'[Len(outbox) + 1] = p
            /\ \A i \in 1 .. Len(outbox) : outbox'[i] = outbox[i]
      BY <2>3
    <3>2. OutNodes # {}
      BY RequestsAssumption
    <3>3. connected /\ ~subscribed => outbox' # <<>> /\ outbox'[1].op = "subscribe"
      BY <3>1, <3>2
    <3>4. \A i \in 1 .. Len(outbox') : outbox'[i].op = "unsubscribe" =>
            i + 1 \in 1 .. Len(outbox') /\ outbox'[i + 1].op = "subscribe"
      BY <2>2, <3>1
    <3> QED
      BY <2>1, <2>3, <3>3, <3>4
  <2> QED
    BY <2>1, <2>3
<1>5. CASE \E deployed \in SUBSET OutNodes : Redeploy(deployed)
  <2> DEFINE off == [op |-> "unsubscribe"]
             on == [op |-> "subscribe"]
  <2>1. UNCHANGED <<connected, subscribed>>
          /\ (outbox' = outbox \/ (connected /\ outbox' = outbox \o <<off>> \o <<on>>))
    BY <1>5 DEF Redeploy, First
  <2>2. off \in Packet /\ on \in Packet /\ on.op = "subscribe"
    BY DEF Packet
  <2> HIDE DEF off, on
  <2>3. CASE connected /\ outbox' = outbox \o <<off>> \o <<on>>
    <3>1. /\ Len(outbox') = Len(outbox) + 2 /\ Len(outbox) \in Nat
          /\ outbox'[Len(outbox) + 1] = off /\ outbox'[Len(outbox) + 2] = on
          /\ \A i \in 1 .. Len(outbox) : outbox'[i] = outbox[i]
      BY <2>2, <2>3, OutboxAt
    <3>2. ~subscribed /\ OutNodes # {} => outbox' # <<>> /\ outbox'[1].op = "subscribe"
      BY <2>3, <3>1
    <3>3. \A i \in 1 .. Len(outbox') : outbox'[i].op = "unsubscribe" =>
            i + 1 \in 1 .. Len(outbox') /\ outbox'[i + 1].op = "subscribe"
      BY <2>2, <3>1
    <3> QED
      BY <2>1, <2>3, <3>2, <3>3
  <2> QED
    BY <2>1, <2>3
<1> QED
  BY <1>1, <1>2, <1>3, <1>4, <1>5 DEF Next, OnResponse, Invoke, CallTimesOut, BridgeAnswers,
     Decide, SessionDies, SessionBack, Timeout, BridgeUnchanged, network

\* The invariant holds throughout.
LEMMA SpecReq == Spec => []ReqInv
<1>1. ReqInv /\ UNCHANGED vars => ReqInv'
  <2> SUFFICES ASSUME ReqInv, UNCHANGED vars PROVE ReqInv'
    OBVIOUS
  <2> USE DEF ReqInv, vars, network, bridge, out
  <2>1. Given' = Given /\ \A m \in Msgs : Asks(m)' = Asks(m)
    BY DEF Given, Asks
  <2>2. Typed' /\ Booked' /\ Heard'
    BY <2>1 DEF Typed, NetworkOK, BridgeOK, OutOK, Booked, Heard
  <2>3. Labelled' /\ Once'
    BY <2>1 DEF Labelled, Once
  <2> QED
    BY <2>2, <2>3
<1>2. ReqInv /\ Next => ReqInv'
  BY NetworkStep, BridgeStep, OutStep, BookedStep, LabelledStep, OnceStep, HeardStep
     DEF ReqInv, Typed
<1> QED
  BY InitReq, <1>1, <1>2, PTL DEF Spec

-----------------------------------------------------------------------------
(* The theorems. *)

\* The request ids of an out node never exceed the number of messages it is
\* given, and every map, goroutine and outcome is of its kind (out.js:29-56, 154-186).
THEOREM RequestsTypeCorrect == Spec => []TypeOK
<1>1. ReqInv => TypeOK
  <2> SUFFICES ASSUME ReqInv PROVE TypeOK
    OBVIOUS
  <2> USE DEF ReqInv, Typed, NetworkOK, BridgeOK, OutOK
  <2>1. seq \in [OutNodes -> 0 .. Cardinality(Msgs)]
    BY GivenCount
  <2> QED
    BY <2>1 DEF TypeOK
<1> QED
  BY <1>1, SpecReq, PTL

\* Whatever is lost, late or deployed again, a request is open exactly as long as
\* it has its entry and a timer to end it (out.js:50-56, 161-169, 180-186).
THEOREM OpenHasTimer == Spec => []NoneForgotten
<1>1. ReqInv => NoneForgotten
  BY DEF ReqInv, Typed, OutOK, Booked, NoneForgotten, Entry
<1> QED
  BY <1>1, SpecReq, PTL

\* No message is done twice (out.js:50-56, 161-166, 180-186).
THEOREM DoneOnce == Spec => EndsOnce
<1>1. ReqInv /\ [Next]_vars =>
        [\A m \in Msgs : outcome[m] \in Final \cup {"closed"} => outcome'[m] = outcome[m]]_vars
  BY OutcomeStep DEF ReqInv, Final
<1> QED
  BY <1>1, SpecReq, PTL DEF Spec, EndsOnce

\* Answers in any order, of any node, never tell a flow of another command's
\* result, but where a deployment has given one id twice (out.js:29-32, 50-54, 158).
THEOREM AnswersCorrelate == Spec => []Correlated
<1>1. ReqInv => Correlated
  BY RequestsAssumption DEF ReqInv, Typed, OutOK, Labelled, Correlated, Given
<1> QED
  BY <1>1, SpecReq, PTL

\* No command is carried out twice, and a flow that is told of a success has had
\* its command carried out, whatever dies or times out on the way, unless another
\* command that was has the same id (bridge.go:147-157, 667-689; out.js:50-56, 158).
THEOREM SuccessIsDone == Spec => []SuccessMeansDone
<1>1. ReqInv => SuccessMeansDone
  <2> SUFFICES ASSUME ReqInv, NEW m \in Msgs
               PROVE  /\ executed[m] <= 1
                      /\ outcome[m] = "answered" =>
                           Done(m) \/ \E n \in Msgs \ {m} : id[n] = id[m] /\ Done(n)
    BY DEF SuccessMeansDone
  <2>1. executed[m] <= 1
    BY DEF ReqInv, Typed, BridgeOK
  <2>2. ASSUME outcome[m] = "answered"
        PROVE  answer[m] \in Msgs /\ Done(answer[m])
    BY <2>2 DEF ReqInv, Once, Done
  <2>3. ASSUME outcome[m] = "answered" PROVE id[answer[m]] = id[m]
    BY <2>2, <2>3, RequestsAssumption DEF ReqInv, Labelled
  <2> QED
    BY <2>1, <2>2, <2>3
<1> QED
  BY <1>1, SpecReq, PTL

\* The broker forwards answers by the time it is given a request, however nodes
\* are deployed (broker.js:165-177, out.js:38-40).
THEOREM RequestsAreHeard == Spec => []AnswersHeard
<1>1. ReqInv => AnswersHeard
  <2> SUFFICES ASSUME ReqInv, outbox # <<>>, Head(outbox).op = "request" PROVE subscribed
    BY DEF AnswersHeard
  <2>1. Head(outbox) = outbox[1] /\ outbox[1] \in Packet
    BY TailAt DEF ReqInv, Typed, NetworkOK
  <2>2. From[outbox[1].msg] \in OutNodes
    BY <2>1, RequestsAssumption DEF Packet
  <2> QED
    BY <2>1, <2>2 DEF ReqInv, Heard
<1> QED
  BY <1>1, SpecReq, PTL
=============================================================================
