------------------------- MODULE MatterClientProofs -------------------------
(***************************************************************************)
(* What the callers of a websocket session may rely on, for any number of  *)
(* them and any capacities: the session implements RpcSession.             *)
(*                                                                         *)
(* Registered ties the map to the calls under way; Carried follows a       *)
(* command and its answer through the channels, the network and readPump;  *)
(* Explained says that whoever comes first to closeOnce has an error.      *)
(***************************************************************************)
EXTENDS MatterClient, FiniteSetTheorems, SequenceTheorems, TLAPS

Begun == {c \in Callers : pc[c] # "idle"}
Active(c) == pc[c] \in {"enqueue", "await", "leaving"}

\* The callers whose command matter-server has got.
Executed == {cmd.from : cmd \in received}

Registered ==
  /\ pc \in [Callers -> {"idle", "enqueue", "await", "leaving", "done"}]
  /\ nextID \in Nat /\ nextID = Cardinality(Begun)
  /\ msgID \in [Callers -> Nat]
  /\ \A c \in Callers : msgID[c] <= nextID /\ (msgID[c] = 0 <=> pc[c] = "idle")
  /\ \A b, c \in Callers : msgID[b] = msgID[c] => b = c \/ msgID[b] = 0
  /\ pending \in [Ids -> Callers \cup {None}]
  /\ \A i \in Ids, c \in Callers : pending[i] = c <=> Active(c) /\ msgID[c] = i

\* The channel and the network carry commands of calls, and answers to them.
Posted ==
  /\ writeCh \in Seq(Command) /\ inbox \in Seq(Frames) /\ received \subseteq Command
  /\ \A i \in 1 .. Len(writeCh) : msgID[writeCh[i].from] = writeCh[i].id
  /\ \A cmd \in received : msgID[cmd.from] = cmd.id
  /\ \A i \in 1 .. Len(inbox) : inbox[i].type = "response" =>
       [id |-> inbox[i].id, from |-> inbox[i].to] \in received

\* What readPump found a channel for, what is in a channel, what a call returned.
HandedOver ==
  /\ frame \in Found \cup {EventFrame, None}
  /\ frame \in Found => frame.ch = frame.to /\ frame.to \in Executed
  /\ respCh \in [Callers -> Found \cup {None}]
  /\ \A c \in Callers : respCh[c] # None => respCh[c].to = c /\ respCh[c].ch = c /\ c \in Executed

Returned ==
  /\ result \in [Callers -> Results \cup {None}]
  /\ \A c \in Callers : /\ result[c] = None <=> pc[c] \in {"idle", "enqueue", "await"}
                        /\ result[c] \in [answer : Callers] => result[c].answer = c /\ c \in Executed

Carried == Posted /\ HandedOver /\ Returned

Explained ==
  /\ once = "open" <=> ~done
  /\ done \in BOOLEAN /\ (done => err \in Errors)
  /\ stage \in [Closers -> {"run", "closing", "ending", "stopped"}]
  /\ why \in [Closers -> Errors \cup {None}]
  /\ \A x \in Closers : /\ stage[x] = "closing" => done \/ why[x] \in Errors
                        /\ stage[x] = "ending" => done

\* The channels stay within their capacities.
Bounded ==
  /\ Len(writeCh) <= WriteCap /\ events \in 0 .. EventsCap /\ sent \in 0 .. MaxFrames
  /\ once \in {"open", "closing", "closed"}
  /\ {wire, connClosed, eventsClosed, panicked} \subseteq BOOLEAN

ClientInv == Registered /\ Carried /\ Explained /\ Bounded

-----------------------------------------------------------------------------
(* Sequences and records. *)

\* What is behind the head, one place on.
LEMMA TailAt ==
  ASSUME NEW S, NEW s \in Seq(S), s # <<>>
  PROVE  /\ Len(s) \in Nat \ {0} /\ Head(s) = s[1] /\ s[1] \in S
         /\ Tail(s) \in Seq(S) /\ Len(Tail(s)) = Len(s) - 1
         /\ \A i \in 1 .. Len(Tail(s)) : i + 1 \in 1 .. Len(s) /\ Tail(s)[i] = s[i + 1]
  BY HeadTailProperties, EmptySeq

\* What is appended comes last.
LEMMA AppendAt ==
  ASSUME NEW S, NEW s \in Seq(S), NEW e \in S
  PROVE  /\ Append(s, e) \in Seq(S) /\ Len(s) \in Nat /\ Len(Append(s, e)) = Len(s) + 1
         /\ Append(s, e)[Len(s) + 1] = e
         /\ \A i \in 1 .. Len(s) : Append(s, e)[i] = s[i]
  BY AppendProperties, LenProperties

\* A call has returned an answer or an error, not both and not nothing.
LEMMA ResultKinds ==
  /\ \A c \in Callers : /\ [answer |-> c] \in Results /\ [answer |-> c] # None
                        /\ [answer |-> c] \in [answer : Callers] /\ [answer |-> c].answer = c
  /\ \A e \in Errors : /\ [error |-> e] \in Results /\ [error |-> e] # None
                       /\ [error |-> e] \notin [answer : Callers]
  /\ \A r \in Results : "answer" \in DOMAIN r <=> r \in [answer : Callers]
<1>1. \A e : "answer" \notin DOMAIN [error |-> e]
  OBVIOUS
<1>2. \A r \in [answer : Callers] : "answer" \in DOMAIN r
  OBVIOUS
<1>3. \A r \in [error : Errors] : "answer" \notin DOMAIN r
  OBVIOUS
<1> QED
  BY <1>1, <1>2, <1>3, MatterClientAssumption DEF Results

-----------------------------------------------------------------------------
(* The steps. *)

\* At most as many calls have begun as there are callers.
LEMMA BegunCount ==
  /\ IsFiniteSet(Begun) /\ Begun \subseteq Callers
  /\ Cardinality(Begun) \in Nat /\ Cardinality(Callers) \in Nat
  /\ Cardinality(Begun) <= Cardinality(Callers)
  /\ Begun # Callers => Cardinality(Begun) + 1 <= Cardinality(Callers)
<1>1. IsFiniteSet(Callers) /\ Begun \subseteq Callers
  BY MatterClientAssumption DEF Begun
<1>2. /\ IsFiniteSet(Begun) /\ Cardinality(Begun) \in Nat /\ Cardinality(Callers) \in Nat
      /\ Cardinality(Begun) <= Cardinality(Callers)
  BY <1>1, FS_Subset, FS_CardinalityType
<1>3. ASSUME Begun # Callers
      PROVE  Cardinality(Begun) + 1 <= Cardinality(Callers)
  <2> PICK c \in Callers : c \notin Begun
    BY <1>1, <1>3
  <2>1. Cardinality(Begun \cup {c}) = Cardinality(Begun) + 1
    BY <1>2, FS_AddElement
  <2>2. Cardinality(Begun \cup {c}) <= Cardinality(Callers)
    BY <1>1, FS_Subset
  <2> QED
    BY <2>1, <2>2
<1> QED
  BY <1>1, <1>2, <1>3

\* No call has begun.
LEMMA InitClient == Init => ClientInv
<1> SUFFICES ASSUME Init PROVE ClientInv
  OBVIOUS
<1> USE MatterClientAssumption DEF Init
<1>1. Cardinality(Begun) = 0
  BY FS_EmptySet DEF Begun
<1>2. Registered
  BY <1>1 DEF Registered, Active
<1>3. /\ <<>> \in Seq(Command) /\ <<>> \in Seq(Frames)
      /\ Len(<<>>) = 0
  BY EmptySeq
<1>4. Carried
  <2>1. /\ writeCh \in Seq(Command) /\ inbox \in Seq(Frames) /\ received = {}
        /\ Len(writeCh) = 0 /\ Len(inbox) = 0
    BY <1>3
  <2>2. frame = None /\ None \notin Found
    OBVIOUS
  <2>3. respCh \in [Callers -> Found \cup {None}] /\ result \in [Callers -> Results \cup {None}]
    OBVIOUS
  <2>4. \A c \in Callers : respCh[c] = None /\ result[c] = None /\ pc[c] = "idle"
    OBVIOUS
  <2>5. None \notin [answer : Callers]
    BY DEF Results
  <2>6. 1 .. 0 = {}
    OBVIOUS
  <2> QED
    BY <2>1, <2>2, <2>3, <2>4, <2>5, <2>6 DEF Carried, Posted, HandedOver, Returned
<1>5. Explained
  BY DEF Explained, Closers
<1>6. Bounded
  <2>1. Len(writeCh) <= WriteCap /\ events \in 0 .. EventsCap /\ sent \in 0 .. MaxFrames
    BY <1>3
  <2>2. {wire, connClosed, eventsClosed, panicked} \subseteq BOOLEAN
    OBVIOUS
  <2> QED
    BY <2>1, <2>2 DEF Bounded
<1> QED
  BY <1>2, <1>4, <1>5, <1>6 DEF ClientInv

\* Ids are fresh, and the map holds the calls under way (matterws.go:140-152).
LEMMA RegisteredStep == ClientInv /\ Next => Registered'
<1> SUFFICES ASSUME ClientInv, Next PROVE Registered'
  OBVIOUS
<1> USE MatterClientAssumption DEF ClientInv, Registered
<1>1. CASE UNCHANGED <<pc, msgID, nextID, pending>>
  BY <1>1 DEF Begun, Active
<1>2. CASE \E c \in Callers : Register(c)
  <2> PICK c \in Callers : Register(c)
    BY <1>2
  <2>1. /\ pc[c] = "idle" /\ pc' = [pc EXCEPT ![c] = "enqueue"]
        /\ nextID' = nextID + 1 /\ msgID' = [msgID EXCEPT ![c] = nextID + 1]
        /\ pending' = [pending EXCEPT ![nextID + 1] = c]
    BY DEF Register, Goto
  <2>2. c \notin Begun /\ Begun' = Begun \cup {c}
    BY <2>1 DEF Begun
  <2>3. nextID' = Cardinality(Begun')
    BY <2>1, <2>2, BegunCount, FS_AddElement
  <2>4. nextID + 1 \in Ids
    BY <2>2, BegunCount DEF Ids
  <2>5. \A b \in Callers \ {c} : pc'[b] = pc[b] /\ msgID'[b] = msgID[b] /\ msgID[b] # nextID + 1
    BY <2>1
  <2>6. pc'[c] = "enqueue" /\ msgID'[c] = nextID + 1 /\ msgID[c] = 0
    BY <2>1
  <2>7. /\ pc' \in [Callers -> {"idle", "enqueue", "await", "leaving", "done"}]
        /\ nextID' \in Nat /\ msgID' \in [Callers -> Nat]
        /\ pending' \in [Ids -> Callers \cup {None}]
    <3>1. pc' \in [Callers -> {"idle", "enqueue", "await", "leaving", "done"}]
      BY <2>1
    <3>2. nextID' \in Nat /\ msgID' \in [Callers -> Nat]
      BY <2>1
    <3>3. pending' \in [Ids -> Callers \cup {None}]
      BY <2>1
    <3> QED
      BY <3>1, <3>2, <3>3
  <2>8. \A b \in Callers : msgID'[b] <= nextID' /\ (msgID'[b] = 0 <=> pc'[b] = "idle")
    BY <2>1, <2>5, <2>6
  <2>9. \A a, b \in Callers : msgID'[a] = msgID'[b] => a = b \/ msgID'[a] = 0
    BY <2>5, <2>6
  <2>10. \A i \in Ids, b \in Callers : pending'[i] = b <=> Active(b)' /\ msgID'[b] = i
    BY <2>1, <2>4, <2>5, <2>6 DEF Active
  <2> QED
    BY <2>3, <2>7, <2>8, <2>9, <2>10
<1>3. CASE \E c \in Callers : Leave(c)
  <2> PICK c \in Callers : Leave(c)
    BY <1>3
  <2>1. /\ pc[c] = "leaving" /\ pc' = [pc EXCEPT ![c] = "done"]
        /\ pending' = [pending EXCEPT ![msgID[c]] = None] /\ UNCHANGED <<msgID, nextID>>
    BY DEF Leave, Goto
  <2>2. Begun' = Begun
    BY <2>1 DEF Begun
  <2>3. msgID[c] # 0
    BY <2>1
  <2>4. \A i \in Ids, b \in Callers : pending'[i] = b <=> Active(b)' /\ msgID'[b] = i
    <3> SUFFICES ASSUME NEW i \in Ids, NEW b \in Callers
                 PROVE  pending'[i] = b <=> Active(b)' /\ msgID'[b] = i
      OBVIOUS
    <3>1. CASE b = c
      BY <2>1, <3>1 DEF Active
    <3>2. CASE b # c
      <4>1. msgID[b] = msgID[c] => FALSE
        BY <2>3, <3>2
      <4> QED
        BY <2>1, <3>2, <4>1 DEF Active
    <3> QED
      BY <3>1, <3>2
  <2>5. /\ pc' \in [Callers -> {"idle", "enqueue", "await", "leaving", "done"}]
        /\ \A b \in Callers : pc'[b] = "idle" <=> pc[b] = "idle"
    BY <2>1
  <2>6. pending' \in [Ids -> Callers \cup {None}]
    BY <2>1
  <2> QED
    BY <2>1, <2>2, <2>4, <2>5, <2>6
<1>4. CASE \E c \in Callers : Enqueue(c) \/ Receive(c) \/ Expire(c) \/ SeeDone(c)
  <2> PICK c \in Callers : Enqueue(c) \/ Receive(c) \/ Expire(c) \/ SeeDone(c)
    BY <1>4
  <2>1. /\ Active(c) /\ UNCHANGED <<msgID, nextID, pending>>
        /\ pc' \in {[pc EXCEPT ![c] = "await"], [pc EXCEPT ![c] = "leaving"]}
    BY DEF Enqueue, Receive, Expire, SeeDone, Return, Goto, Active
  <2>2. Begun' = Begun /\ \A b \in Callers : Active(b)' = Active(b)
    BY <2>1 DEF Begun, Active
  <2> QED
    BY <2>1, <2>2 DEF Active
<1> QED
  BY <1>1, <1>2, <1>3, <1>4 DEF Next, CallStep, CloseStep, BeginClose, EndClose, SkipClose,
     ReaderStep, ReadFrame, Deliver, Push, ReadFails, ReaderTurn, WriterStep, Write, WriteFails,
     WriterSeesDone, WriterTurn, TakeEvent, OwnerCloses, OwnerTurn, ServerAnswers, ServerReports,
     ServerSends, WireBreaks, ServerTurn, calls

\* Whoever closes has an error, but for readPump when the session has ended.
LEMMA ExplainedStep == ClientInv /\ Next => Explained'
<1> SUFFICES ASSUME ClientInv, Next PROVE Explained'
  OBVIOUS
<1> USE DEF ClientInv, Explained, Closers
<1>1. CASE UNCHANGED closer
  BY <1>1 DEF closer
<1> DEFINE Closes(x, reason) == Close(x, reason) /\ UNCHANGED <<once, done, err>>
<1>0. ASSUME NEW x \in Closers, NEW reason \in Errors \cup {None},
             Closes(x, reason), done \/ reason \in Errors
      PROVE  Explained'
  BY <1>0 DEF Close
<1>2. CASE \E x \in Closers : CloseStep(x)
  <2> PICK x \in Closers : CloseStep(x)
    BY <1>2
  <2>1. CASE BeginClose(x)
    BY <2>1 DEF BeginClose
  <2>2. CASE EndClose(x)
    <3>1. done
      BY <2>2 DEF EndClose
    <3> QED
      BY <2>2 DEF EndClose
  <2>3. CASE SkipClose(x)
    BY <2>3 DEF SkipClose
  <2> QED
    BY <2>1, <2>2, <2>3 DEF CloseStep
<1>3. CASE Push \/ ReadFails
  <2>1. CASE ReadFails
    BY <1>0, <2>1 DEF ReadFails, ReaderTurn, Errors
  <2>2. CASE Push
    <3>1. \/ done /\ Closes("reader", None)
          \/ UNCHANGED <<once, done, err, stage, why>>
      BY <2>2 DEF Push, ReaderTurn
    <3> QED
      BY <1>0, <3>1
  <2> QED
    BY <1>3, <2>1, <2>2
<1>4. CASE WriteFails \/ WriterSeesDone
  <2>1. CASE WriteFails
    <3>1. Closes("writer", "write") \/ Closes("writer", "ping")
      BY <2>1 DEF WriteFails, WriterTurn
    <3> QED
      BY <1>0, <3>1 DEF Errors
  <2>2. CASE WriterSeesDone
    BY <2>2 DEF WriterSeesDone, WriterTurn
  <2> QED
    BY <1>4, <2>1, <2>2
<1>5. CASE OwnerCloses
  BY <1>0, <1>5 DEF OwnerCloses, OwnerTurn, Errors
<1>6. CASE ReadFrame \/ Deliver
  BY <1>6 DEF ReadFrame, Deliver, ReaderTurn
<1>7. CASE Write
  BY <1>7 DEF Write, WriterTurn
<1>8. CASE TakeEvent
  BY <1>8 DEF TakeEvent, OwnerTurn
<1> QED
  BY <1>1, <1>2, <1>3, <1>4, <1>5, <1>6, <1>7, <1>8 DEF Next, CallStep, ReaderStep, WriterStep,
     Register, Enqueue, Receive, Expire, SeeDone, Return, Leave, ServerAnswers, ServerReports,
     ServerSends, WireBreaks, ServerTurn

\* Only Write adds to what matter-server has got, and it takes nothing away.
LEMMA ReceivedStep ==
  Next => received = received' \/ (Write /\ received' = received \cup {Head(writeCh)})
BY DEF Next, CallStep, CloseStep, ReaderStep, WriterStep, Register, Enqueue, Receive, Expire,
   SeeDone, Return, Leave, BeginClose, EndClose, SkipClose, ReadFrame, Deliver, Push, ReadFails,
   ReaderTurn, Write, WriteFails, WriterSeesDone, WriterTurn, TakeEvent, OwnerCloses, OwnerTurn,
   ServerAnswers, ServerReports, ServerSends, WireBreaks, ServerTurn, net

\* The command of a call has the id of the call, and so has its answer.
LEMMA PostedStep == ClientInv /\ Next => Posted'
<1> SUFFICES ASSUME ClientInv, Next PROVE Posted'
  OBVIOUS
<1> USE MatterClientAssumption DEF ClientInv, Carried
<1>1. CASE UNCHANGED <<writeCh, inbox, received, msgID>>
  BY <1>1 DEF Posted
<1>2. CASE \E c \in Callers : Register(c)
  <2> PICK c \in Callers : Register(c)
    BY <1>2
  <2>1. /\ pc[c] = "idle" /\ msgID' = [msgID EXCEPT ![c] = nextID + 1]
        /\ UNCHANGED <<writeCh, inbox, received>>
    BY DEF Register, Goto, queues, net
  <2>2. msgID[c] = 0 /\ \A b \in Callers : msgID[b] # 0 => msgID'[b] = msgID[b]
    BY <2>1 DEF Registered
  <2>3. \A cmd \in Command : cmd.from \in Callers /\ cmd.id # 0
    BY DEF Command, Ids
  <2>4. \A i \in 1 .. Len(writeCh) : writeCh[i] \in Command
    BY LenProperties DEF Posted
  <2> QED
    BY <2>1, <2>2, <2>3, <2>4 DEF Posted
<1>3. CASE \E c \in Callers : Enqueue(c)
  <2> PICK c \in Callers : Enqueue(c)
    BY <1>3
  <2> DEFINE cmd == [id |-> msgID[c], from |-> c]
  <2>1. /\ pc[c] = "enqueue" /\ writeCh' = Append(writeCh, cmd)
        /\ UNCHANGED <<msgID, inbox, received>>
    BY DEF Enqueue, Goto, net
  <2>2. msgID[c] \in Ids
    BY <2>1, BegunCount DEF Registered, Ids
  <2>3. cmd \in Command /\ cmd.from = c /\ cmd.id = msgID[c]
    BY <2>2 DEF Command
  <2> HIDE DEF cmd
  <2>4. /\ writeCh' \in Seq(Command) /\ Len(writeCh) \in Nat /\ Len(writeCh') = Len(writeCh) + 1
        /\ writeCh'[Len(writeCh) + 1] = cmd
        /\ \A i \in 1 .. Len(writeCh) : writeCh'[i] = writeCh[i]
    BY <2>1, <2>3, AppendAt DEF Posted
  <2>5. \A i \in 1 .. Len(writeCh') : msgID'[writeCh'[i].from] = writeCh'[i].id
    <3> SUFFICES ASSUME NEW i \in 1 .. Len(writeCh')
                 PROVE  msgID'[writeCh'[i].from] = writeCh'[i].id
      OBVIOUS
    <3>1. CASE i \in 1 .. Len(writeCh)
      BY <2>1, <2>4, <3>1 DEF Posted
    <3>2. CASE i = Len(writeCh) + 1
      BY <2>1, <2>3, <2>4, <3>2
    <3> QED
      BY <2>4, <3>1, <3>2
  <2> QED
    BY <2>1, <2>4, <2>5 DEF Posted
<1>4. CASE Write \/ WriteFails
  <2>1. UNCHANGED <<msgID, inbox>>
    BY <1>4 DEF Write, WriteFails, WriterTurn, calls
  <2>2. CASE UNCHANGED <<writeCh, received>>
    BY <2>1, <2>2, <1>1
  <2>3. CASE /\ writeCh # <<>> /\ writeCh' = Tail(writeCh)
             /\ received' \in {received, received \cup {Head(writeCh)}}
    <3>1. /\ Len(writeCh) \in Nat \ {0} /\ Head(writeCh) = writeCh[1] /\ writeCh[1] \in Command
          /\ writeCh' \in Seq(Command)
          /\ \A i \in 1 .. Len(writeCh') : i + 1 \in 1 .. Len(writeCh) /\ writeCh'[i] = writeCh[i + 1]
      BY <2>3, TailAt DEF Posted
    <3>2. msgID[Head(writeCh).from] = Head(writeCh).id
      BY <3>1 DEF Posted
    <3>3. \A i \in 1 .. Len(writeCh') : msgID'[writeCh'[i].from] = writeCh'[i].id
      BY <2>1, <3>1 DEF Posted
    <3> QED
      BY <2>1, <2>3, <3>1, <3>2, <3>3 DEF Posted
  <2> QED
    BY <1>4, <2>2, <2>3 DEF Write, WriteFails
<1>5. CASE ReadFrame
  <2>1. inbox # <<>> /\ inbox' = Tail(inbox) /\ UNCHANGED <<msgID, writeCh, received>>
    BY <1>5 DEF ReadFrame, ReaderTurn
  <2>2. /\ inbox' \in Seq(Frames)
        /\ \A i \in 1 .. Len(inbox') : i + 1 \in 1 .. Len(inbox) /\ inbox'[i] = inbox[i + 1]
    BY <2>1, TailAt DEF Posted
  <2> QED
    BY <2>1, <2>2 DEF Posted
<1>6. CASE ServerAnswers \/ ServerReports
  <2>1. UNCHANGED <<msgID, writeCh, received>>
    BY <1>6 DEF ServerAnswers, ServerReports, ServerSends, ServerTurn, calls, queues
  <2>2. PICK f : /\ inbox' = Append(inbox, f)
                 /\ \/ \E cmd \in received : f = Response(cmd.id, cmd.from)
                    \/ f \in {EventFrame, Junk}
    BY <1>6 DEF ServerAnswers, ServerReports, ServerSends
  <2>3. f \in Frames /\ (f.type = "response" => [id |-> f.id, from |-> f.to] \in received)
    <3>1. CASE f \in {EventFrame, Junk}
      BY <3>1 DEF Frames, EventFrame, Junk
    <3>2. CASE \E cmd \in received : f = Response(cmd.id, cmd.from)
      <4> PICK cmd \in received : f = Response(cmd.id, cmd.from)
        BY <3>2
      <4>1. cmd \in Command /\ cmd.id \in Ids /\ cmd.from \in Callers
            /\ cmd = [id |-> cmd.id, from |-> cmd.from]
        BY DEF Posted, Command
      <4>2. f \in Frames /\ f.id = cmd.id /\ f.to = cmd.from
        BY <4>1 DEF Frames, Response
      <4> QED
        BY <4>1, <4>2
    <3> QED
      BY <2>2, <3>1, <3>2
  <2>4. /\ inbox' \in Seq(Frames) /\ Len(inbox) \in Nat /\ Len(inbox') = Len(inbox) + 1
        /\ inbox'[Len(inbox) + 1] = f
        /\ \A i \in 1 .. Len(inbox) : inbox'[i] = inbox[i]
    BY <2>2, <2>3, AppendAt DEF Posted
  <2>5. ASSUME NEW i \in 1 .. Len(inbox'), inbox'[i].type = "response"
        PROVE  [id |-> inbox'[i].id, from |-> inbox'[i].to] \in received
    <3>1. CASE i \in 1 .. Len(inbox)
      BY <2>4, <2>5, <3>1 DEF Posted
    <3>2. CASE i = Len(inbox) + 1
      BY <2>3, <2>4, <2>5, <3>2
    <3> QED
      BY <2>4, <3>1, <3>2
  <2> QED
    BY <2>1, <2>4, <2>5 DEF Posted
<1> QED
  BY <1>1, <1>2, <1>3, <1>4, <1>5, <1>6 DEF Next, CallStep, CloseStep, ReaderStep, WriterStep,
     Receive, Expire, SeeDone, Return, Leave, BeginClose, EndClose, SkipClose, Deliver, Push,
     ReadFails, ReaderTurn, WriterSeesDone, WriterTurn, TakeEvent, OwnerCloses, OwnerTurn,
     WireBreaks, ServerTurn, calls, queues, net

\* readPump finds the channel of the call that the answer is for: ids are not
\* used twice (matterws.go:197-207).
LEMMA HandedOverStep == ClientInv /\ Next => HandedOver'
<1> SUFFICES ASSUME ClientInv, Next PROVE HandedOver'
  OBVIOUS
<1> USE MatterClientAssumption DEF ClientInv, Carried
<1>1. Executed \subseteq Executed'
  BY ReceivedStep DEF Executed
<1>2. CASE UNCHANGED <<frame, respCh>>
  BY <1>1, <1>2 DEF HandedOver
<1>3. CASE ReadFrame
  <2> DEFINE f == Head(inbox)
  <2>1. /\ inbox # <<>> /\ UNCHANGED respCh
        /\ frame' = IF f.type = "junk" \/ (f.type = "response" /\ pending[f.id] = None)
                      THEN None
                    ELSE IF f.type = "event" THEN f
                    ELSE [type |-> "response", ch |-> pending[f.id], to |-> f.to]
    BY <1>3 DEF ReadFrame
  <2>2. f = inbox[1] /\ f \in Frames /\ 1 \in 1 .. Len(inbox)
    BY <2>1, TailAt DEF Posted
  <2>3. f.type = "response" => [id |-> f.id, from |-> f.to] \in received
    BY <2>2 DEF Posted
  <2> HIDE DEF f
  <2>4. CASE f \in {EventFrame, Junk}
    <3>1. frame' \in {EventFrame, None}
      BY <2>1, <2>4 DEF EventFrame, Junk
    <3>2. EventFrame \notin Found
      BY DEF EventFrame, Found
    <3> QED
      BY <1>1, <2>1, <3>1, <3>2 DEF HandedOver
  <2>5. CASE f \in [type : {"response"}, id : Ids, to : Callers]
    <3>1. f.type = "response" /\ f.id \in Ids /\ f.to \in Callers
      BY <2>5
    <3>2. msgID[f.to] = f.id /\ f.to \in Executed
      BY <2>3, <3>1 DEF Posted, Executed
    <3>3. CASE pending[f.id] = None
      BY <1>1, <2>1, <3>1, <3>3 DEF HandedOver
    <3>4. CASE pending[f.id] # None
      <4>1. pending[f.id] \in Callers /\ msgID[pending[f.id]] = f.id
        BY <3>1, <3>4 DEF Registered
      <4>2. f.id # 0
        BY <3>1 DEF Ids
      <4>3. pending[f.id] = f.to
        BY <3>1, <3>2, <4>1, <4>2 DEF Registered
      <4>4. frame' = [type |-> "response", ch |-> f.to, to |-> f.to]
        BY <2>1, <3>1, <3>4, <4>3
      <4>5. frame' \in Found /\ frame'.ch = frame'.to /\ frame'.to = f.to
        BY <3>1, <4>4 DEF Found
      <4> QED
        BY <1>1, <2>1, <3>2, <4>5 DEF HandedOver
    <3> QED
      BY <3>3, <3>4
  <2> QED
    BY <2>2, <2>4, <2>5 DEF Frames
<1>4. CASE Deliver
  <2>1. /\ frame # None /\ frame.type = "response" /\ frame' = None
        /\ respCh' = IF respCh[frame.ch] = None THEN [respCh EXCEPT ![frame.ch] = frame] ELSE respCh
    BY <1>4 DEF Deliver
  <2>2. frame \in Found /\ frame.ch = frame.to /\ frame.to \in Executed /\ frame.ch \in Callers
    BY <2>1 DEF HandedOver, EventFrame, Found
  <2>3. respCh' \in [Callers -> Found \cup {None}]
    BY <2>1, <2>2 DEF HandedOver
  <2>4. \A c \in Callers : respCh'[c] = respCh[c] \/ (c = frame.ch /\ respCh'[c] = frame)
    BY <2>1, <2>2 DEF HandedOver
  <2>5. \A c \in Callers : respCh'[c] # None => respCh'[c].to = c /\ respCh'[c].ch = c /\ c \in Executed'
    BY <1>1, <2>2, <2>4 DEF HandedOver
  <2> QED
    BY <2>1, <2>3, <2>5 DEF HandedOver
<1>5. CASE Push
  BY <1>1, <1>5 DEF Push, HandedOver
<1> QED
  BY <1>2, <1>3, <1>4, <1>5 DEF Next, CallStep, CloseStep, ReaderStep, WriterStep, Register,
     Enqueue, Receive, Expire, SeeDone, Return, Leave, BeginClose, EndClose, SkipClose, ReadFails,
     Write, WriteFails, WriterSeesDone, WriterTurn, TakeEvent, OwnerCloses, OwnerTurn,
     ServerAnswers, ServerReports, ServerSends, WireBreaks, ServerTurn, calls

\* A call returns once, with its answer or with an error (matterws.go:160-176).
LEMMA ReturnedStep == ClientInv /\ Next => Returned'
<1> SUFFICES ASSUME ClientInv, Next PROVE Returned'
  OBVIOUS
<1> USE MatterClientAssumption DEF ClientInv, Carried
<1>1. Executed \subseteq Executed'
  BY ReceivedStep DEF Executed
<1>2. CASE UNCHANGED <<pc, result>>
  BY <1>1, <1>2 DEF Returned
<1>3. CASE \E c \in Callers : Register(c) \/ Enqueue(c) \/ Leave(c)
  <2> PICK c \in Callers : Register(c) \/ Enqueue(c) \/ Leave(c)
    BY <1>3
  <2>1. /\ UNCHANGED result
        /\ \/ pc[c] \in {"idle", "enqueue"} /\ pc' = [pc EXCEPT ![c] = "enqueue"]
           \/ pc[c] \in {"idle", "enqueue"} /\ pc' = [pc EXCEPT ![c] = "await"]
           \/ pc[c] = "leaving" /\ pc' = [pc EXCEPT ![c] = "done"]
    BY DEF Register, Enqueue, Leave, Goto
  <2>2. \A b \in Callers : pc'[b] \in {"idle", "enqueue", "await"} <=> pc[b] \in {"idle", "enqueue", "await"}
    BY <2>1 DEF Registered
  <2> QED
    BY <1>1, <2>1, <2>2 DEF Returned
<1>4. CASE \E c \in Callers : Receive(c) \/ Expire(c) \/ SeeDone(c)
  <2> PICK c \in Callers : Receive(c) \/ Expire(c) \/ SeeDone(c)
    BY <1>4
  <2>1. PICK r \in Results : /\ r # None /\ (r \in [answer : Callers] => r.answer = c /\ c \in Executed)
                             /\ result' = [result EXCEPT ![c] = r]
                             /\ pc' = [pc EXCEPT ![c] = "leaving"]
    <3>1. CASE Receive(c)
      <4>1. respCh[c] # None /\ respCh[c].to = c /\ c \in Executed
        BY <3>1 DEF Receive, HandedOver
      <4> QED
        BY <3>1, <4>1, ResultKinds DEF Receive, Return, Goto
    <3>2. CASE Expire(c)
      <4>1. "context" \in Errors
        BY DEF Errors
      <4> QED
        BY <3>2, <4>1, ResultKinds DEF Expire, Return, Goto
    <3>3. CASE SeeDone(c)
      <4>1. err \in Errors
        BY <3>3 DEF SeeDone, Explained
      <4> QED
        BY <3>3, <4>1, ResultKinds DEF SeeDone, Return, Goto
    <3> QED
      BY <3>1, <3>2, <3>3
  <2>2. result' \in [Callers -> Results \cup {None}]
    BY <2>1 DEF Returned
  <2>3. /\ result'[c] = r /\ pc'[c] = "leaving"
        /\ \A b \in Callers \ {c} : result'[b] = result[b] /\ pc'[b] = pc[b]
    BY <2>1 DEF Returned, Registered
  <2> QED
    BY <1>1, <2>1, <2>2, <2>3 DEF Returned
<1> QED
  BY <1>2, <1>3, <1>4 DEF Next, CallStep, CloseStep, ReaderStep, WriterStep, BeginClose, EndClose,
     SkipClose, ReadFrame, Deliver, Push, ReadFails, ReaderTurn, Write, WriteFails,
     WriterSeesDone, WriterTurn, TakeEvent, OwnerCloses, OwnerTurn, ServerAnswers, ServerReports,
     ServerSends, WireBreaks, ServerTurn, calls

\* The channels stay within their capacities.
LEMMA BoundedStep == ClientInv /\ Next => Bounded'
<1> SUFFICES ASSUME ClientInv, Next PROVE Bounded'
  OBVIOUS
<1> USE MatterClientAssumption DEF ClientInv
<1>1. Len(writeCh') <= WriteCap
  <2>1. Len(writeCh) \in Nat /\ Len(writeCh) <= WriteCap
    BY LenProperties DEF Carried, Posted, Bounded
  <2>2. CASE UNCHANGED writeCh
    BY <2>1, <2>2
  <2>3. CASE writeCh # <<>> /\ writeCh' = Tail(writeCh)
    <3>1. Len(writeCh') = Len(writeCh) - 1
      BY <2>3, TailAt DEF Carried, Posted
    <3> QED
      BY <2>1, <3>1
  <2>4. CASE \E c \in Callers : Enqueue(c)
    <3>1. PICK e : Len(writeCh) < WriteCap /\ writeCh' = Append(writeCh, e)
      BY <2>4 DEF Enqueue
    <3>2. Len(writeCh') = Len(writeCh) + 1
      BY <3>1 DEF Carried, Posted
    <3> QED
      BY <2>1, <3>1, <3>2
  <2> QED
    BY <2>2, <2>3, <2>4 DEF Next, CallStep, CloseStep, ReaderStep, WriterStep, Register, Receive,
       Expire, SeeDone, Return, Leave, BeginClose, EndClose, SkipClose, ReadFrame, Deliver, Push,
       ReadFails, ReaderTurn, Write, WriteFails, WriterSeesDone, TakeEvent, OwnerCloses, OwnerTurn,
       ServerAnswers, ServerReports, ServerSends, WireBreaks, ServerTurn, queues
<1>2. events' \in 0 .. EventsCap
  <2>1. CASE Push \/ TakeEvent
    BY <2>1 DEF Push, TakeEvent, Bounded
  <2> QED
    BY <2>1 DEF Bounded, Next, CallStep, CloseStep, ReaderStep, WriterStep, Register, Enqueue,
       Receive, Expire, SeeDone, Return, Leave, BeginClose, EndClose, SkipClose, ReadFrame, Deliver,
       ReadFails, Write, WriteFails, WriterSeesDone, WriterTurn, OwnerCloses, ServerAnswers,
       ServerReports, ServerSends, WireBreaks, ServerTurn, queues
<1>3. sent' \in 0 .. MaxFrames
  <2>1. sent' = sent \/ (sent < MaxFrames /\ sent' = sent + 1)
    BY DEF Next, CallStep, CloseStep, ReaderStep, WriterStep, Register, Enqueue, Receive,
       Expire, SeeDone, Return, Leave, BeginClose, EndClose, SkipClose, ReadFrame, Deliver, Push,
       ReadFails, Write, WriteFails, WriterSeesDone, WriterTurn, TakeEvent, OwnerCloses, OwnerTurn,
       ServerAnswers, ServerReports, ServerSends, WireBreaks, net
  <2> QED
    BY <2>1 DEF Bounded
<1>4. once' \in {"open", "closing", "closed"}
  BY DEF Bounded, Next, CallStep, CloseStep, ReaderStep, WriterStep, Register, Enqueue, Receive,
     Expire, SeeDone, Return, Leave, BeginClose, EndClose, SkipClose, ReadFrame, Deliver, Push,
     ReadFails, ReaderTurn, Write, WriteFails, WriterSeesDone, WriterTurn, TakeEvent, OwnerCloses,
     OwnerTurn, ServerAnswers, ServerReports, ServerSends, WireBreaks, ServerTurn, closer
<1>5. {wire', connClosed', eventsClosed', panicked'} \subseteq BOOLEAN
  <2> {wire, connClosed, eventsClosed, panicked} \subseteq BOOLEAN
    BY DEF Bounded
  <2>1. wire' \in {wire, FALSE}
    BY DEF Next, CallStep, CloseStep, ReaderStep, WriterStep, Register, Enqueue, Receive,
       Expire, SeeDone, Return, Leave, BeginClose, EndClose, SkipClose, ReadFrame, Deliver, Push,
       ReadFails, Write, WriteFails, WriterSeesDone, WriterTurn, TakeEvent, OwnerCloses, OwnerTurn,
       ServerAnswers, ServerReports, ServerSends, WireBreaks, net
  <2>2. connClosed' \in {connClosed, TRUE} /\ eventsClosed' \in {eventsClosed, TRUE}
    BY DEF Next, CallStep, CloseStep, ReaderStep, WriterStep, Register, Enqueue, Receive,
       Expire, SeeDone, Return, Leave, BeginClose, EndClose, SkipClose, ReadFrame, Deliver, Push,
       ReadFails, ReaderTurn, Write, WriteFails, WriterSeesDone, WriterTurn, TakeEvent, OwnerCloses,
       OwnerTurn, ServerAnswers, ServerReports, ServerSends, WireBreaks, ServerTurn, closer
  <2>3. panicked' \in {panicked, TRUE}
    BY DEF Next, CallStep, CloseStep, ReaderStep, WriterStep, Register, Enqueue, Receive,
       Expire, SeeDone, Return, Leave, BeginClose, EndClose, SkipClose, ReadFrame, Deliver, Push,
       ReadFails, ReaderTurn, Write, WriteFails, WriterSeesDone, WriterTurn, TakeEvent, OwnerCloses,
       OwnerTurn, ServerAnswers, ServerReports, ServerSends, WireBreaks, ServerTurn, closer
  <2> QED
    BY <2>1, <2>2, <2>3
<1> QED
  BY <1>1, <1>2, <1>3, <1>4, <1>5 DEF Bounded

LEMMA SpecClient == Spec => []ClientInv
<1>1. ClientInv /\ [Next]_vars => ClientInv'
  <2> SUFFICES ASSUME ClientInv, [Next]_vars PROVE ClientInv'
    OBVIOUS
  <2>1. CASE Next
    BY <2>1, RegisteredStep, PostedStep, HandedOverStep, ReturnedStep, ExplainedStep, BoundedStep
    DEF ClientInv, Carried
  <2>2. CASE UNCHANGED vars
    <3> USE <2>2 DEF vars, calls, queues, net, closer, ClientInv, Carried
    <3>1. Registered'
      BY DEF Registered, Begun, Active
    <3>2. Posted' /\ HandedOver' /\ Returned'
      BY DEF Posted, HandedOver, Returned, Executed
    <3>3. Explained' /\ Bounded'
      BY DEF Explained, Bounded
    <3> QED
      BY <3>1, <3>2, <3>3
  <2> QED
    BY <2>1, <2>2
<1> QED
  BY InitClient, <1>1, PTL DEF Spec

-----------------------------------------------------------------------------
(* What holds of every session. *)

\* Every id that was given is an index of the map.
LEMMA IdsGiven ==
  ASSUME Registered
  PROVE  \A c \in Callers : pc[c] # "idle" => msgID[c] \in Ids
BY BegunCount DEF Registered, Ids

\* The capacities of the channels hold, and the map holds callers.
THEOREM ClientTypeCorrect == Spec => []TypeOK
<1>1. ClientInv => TypeOK
  <2> SUFFICES ASSUME ClientInv PROVE TypeOK
    OBVIOUS
  <2> USE MatterClientAssumption DEF ClientInv, Carried
  <2>1. msgID \in [Callers -> Ids \cup {0}]
    BY IdsGiven DEF Registered
  <2>2. nextID \in Ids \cup {0}
    BY BegunCount DEF Registered, Ids
  <2>3. \A c \in Callers : result[c] # None => DOMAIN result[c] \in {{"answer"}, {"error"}}
    <3>1. \A r \in Results : DOMAIN r \in {{"answer"}, {"error"}}
      BY DEF Results
    <3> QED
      BY <3>1 DEF Returned
  <2>4. done \in BOOLEAN
    BY DEF Explained
  <2>5. {wire, done, connClosed, eventsClosed, panicked} \subseteq BOOLEAN
    BY <2>4 DEF Bounded
  <2>6. \A c \in Callers : respCh[c] # None => respCh[c].ch = c
    BY DEF HandedOver
  <2>7. /\ pc \in [Callers -> {"idle", "enqueue", "await", "leaving", "done"}]
        /\ pending \in [Ids -> Callers \cup {None}]
    BY DEF Registered
  <2>8. writeCh \in Seq(Command) /\ inbox \in Seq(Frames) /\ received \subseteq Command
    BY DEF Posted
  <2>9. /\ Len(writeCh) <= WriteCap /\ events \in 0 .. EventsCap /\ sent \in 0 .. MaxFrames
        /\ once \in {"open", "closing", "closed"}
    BY DEF Bounded
  <2>10. stage \in [Closers -> {"run", "closing", "ending", "stopped"}]
    BY DEF Explained
  <2> QED
    BY <2>1, <2>2, <2>3, <2>5, <2>6, <2>7, <2>8, <2>9, <2>10 DEF TypeOK
<1> QED
  BY SpecClient, <1>1, PTL

\* A Call returns the answer to its own command, however late other answers
\* come and however often matter-server repeats them.
THEOREM AnswersAreOwn == Spec => []Correlation
<1>1. ClientInv => Correlation
  <2> SUFFICES ASSUME ClientInv, NEW c \in Callers, Answered(c)
               PROVE  result[c].answer = c
    BY DEF Correlation
  <2>1. result[c] \in [answer : Callers]
    BY ResultKinds DEF ClientInv, Carried, Returned, Answered
  <2> QED
    BY <2>1 DEF ClientInv, Carried, Returned
<1> QED
  BY SpecClient, <1>1, PTL

\* The map holds the calls under way and nothing else: calls that time out leave
\* nothing behind (matterws.go:148-152).
THEOREM NothingLeftPending == Spec => []PendingExact
<1>1. ClientInv => PendingExact
  <2> SUFFICES ASSUME Registered PROVE PendingExact
    BY DEF ClientInv
  <2> DEFINE Under == {c \in Callers : pc[c] \in {"enqueue", "await", "leaving"}}
  <2>1. ASSUME NEW i \in Ids, pending[i] # None
        PROVE  \E c \in Under : msgID[c] = i
    BY <2>1 DEF Registered, Active
  <2>2. ASSUME NEW c \in Under
        PROVE  msgID[c] \in Ids /\ pending[msgID[c]] # None
    <3>1. msgID[c] \in Ids /\ pending[msgID[c]] = c
      BY IdsGiven DEF Registered, Active
    <3> QED
      BY <3>1, MatterClientAssumption
  <2> QED
    BY <2>1, <2>2 DEF PendingExact
<1> QED
  BY SpecClient, <1>1, PTL

\* A session that has ended can say why (matterws.go:181, 245-250, 269-271).
THEOREM EndHasReason == Spec => []ErrKnown
<1>1. ClientInv => ErrKnown
  BY MatterClientAssumption DEF ClientInv, Explained, ErrKnown
<1> QED
  BY SpecClient, <1>1, PTL

-----------------------------------------------------------------------------
(* The end of a session leaves nobody behind. *)

\* Who has entered closeOnce comes out of it, and then both closed; only who has
\* been through it, or has seen done, has stopped.
Ending ==
  /\ once = "closing" => \E x \in Closers : stage[x] = "ending"
  /\ once = "closed" => connClosed /\ eventsClosed
  /\ \A x \in Closers : stage[x] = "stopped" => done

\* The guards of what the goroutines do of themselves (GoroutineStep).
CanGo ==
  \/ \E c \in Callers : \/ pc[c] = "enqueue" /\ Len(writeCh) < WriteCap
                        \/ pc[c] = "await" /\ respCh[c] # None
                        \/ pc[c] \in {"enqueue", "await"} /\ done
                        \/ pc[c] = "leaving"
  \/ \E x \in Closers : stage[x] = "ending" \/ (stage[x] = "closing" /\ once # "closing")
  \/ stage["reader"] = "run" /\ (frame # None \/ connClosed \/ inbox # <<>> \/ ~wire)
  \/ stage["writer"] = "run" /\ (done \/ connClosed \/ ~wire \/ writeCh # <<>>)
  \/ stage["owner"] = "run" /\ (events > 0 \/ eventsClosed)

Ended == /\ \A x \in Closers : stage[x] = "stopped"
         /\ \A c \in Callers : pc[c] \in {"idle", "done"}

\* One goroutine at a time is in closeOnce, and it closes both.
LEMMA EndingStep == ClientInv /\ Ending /\ Next => Ending'
<1> SUFFICES ASSUME ClientInv, Ending, Next PROVE Ending'
  OBVIOUS
<1> USE DEF Ending
<1>0. /\ stage \in [Closers -> {"run", "closing", "ending", "stopped"}]
      /\ once = "open" <=> ~done
      /\ \A x \in Closers : stage[x] = "ending" => done
  BY DEF ClientInv, Explained
<1>1. CASE UNCHANGED closer
  BY <1>1 DEF closer
<1>2. ASSUME NEW x \in Closers, stage[x] = "run", stage' = [stage EXCEPT ![x] = "closing"],
             UNCHANGED <<once, done, connClosed, eventsClosed>>
      PROVE  Ending'
  BY <1>0, <1>2
<1>3. ASSUME NEW x \in Closers, CloseStep(x) PROVE Ending'
  <2>1. CASE BeginClose(x)
    BY <1>0, <2>1 DEF BeginClose
  <2>2. CASE EndClose(x)
    BY <1>0, <2>2 DEF EndClose
  <2>3. CASE SkipClose(x)
    BY <1>0, <2>3 DEF SkipClose
  <2> QED
    BY <1>3, <2>1, <2>2, <2>3 DEF CloseStep
<1>4. CASE ReaderStep
  <2>1. CASE Push
    BY <1>1, <1>2, <2>1 DEF Push, ReaderTurn, Close, closer, Closers
  <2>2. CASE ReadFails
    BY <1>2, <2>2 DEF ReadFails, ReaderTurn, Close, Closers
  <2>3. CASE ReadFrame \/ Deliver
    BY <1>1, <2>3 DEF ReadFrame, Deliver, ReaderTurn, closer
  <2> QED
    BY <1>4, <2>1, <2>2, <2>3 DEF ReaderStep
<1>5. CASE WriterStep
  <2>1. CASE Write
    BY <1>1, <2>1 DEF Write, WriterTurn, closer
  <2>2. CASE WriteFails
    BY <1>2, <2>2 DEF WriteFails, WriterTurn, Close, Closers
  <2>3. CASE WriterSeesDone
    BY <1>0, <2>3 DEF WriterSeesDone, WriterTurn, Closers
  <2> QED
    BY <1>5, <2>1, <2>2, <2>3 DEF WriterStep
<1>6. CASE TakeEvent
  BY <1>1, <1>6 DEF TakeEvent, OwnerTurn, closer
<1>7. CASE OwnerCloses
  BY <1>2, <1>7 DEF OwnerCloses, OwnerTurn, Close, Closers
<1> QED
  BY <1>1, <1>3, <1>4, <1>5, <1>6, <1>7 DEF Next, CallStep, Register, Enqueue, Receive, Expire,
     SeeDone, Return, Leave, ServerAnswers, ServerReports, ServerSends, WireBreaks, ServerTurn

\* Once the network is dead or the session is done, somebody can go on until all
\* pumps, the owner and every call have ended: nobody waits for somebody who waits,
\* for any number of callers and any capacities (matterws.go:183-187, 227-239,
\* 244-255).  AllEnds says the same with ENABLED.
THEOREM EndLeavesNobody == Spec => []((~wire \/ done) /\ ~panicked => CanGo \/ Ended)
<1>1. Init => Ending
  BY DEF Init, Ending, Closers
<1>2. ClientInv /\ Ending /\ [Next]_vars => Ending'
  <2>1. UNCHANGED vars /\ Ending => Ending'
    BY DEF vars, closer, Ending
  <2> QED
    BY <2>1, EndingStep
<1>3. ClientInv /\ Ending => ((~wire \/ done) /\ ~panicked => CanGo \/ Ended)
  <2> SUFFICES ASSUME ClientInv, Ending, ~wire \/ done, ~CanGo PROVE Ended
    OBVIOUS
  <2>1. /\ stage \in [Closers -> {"run", "closing", "ending", "stopped"}]
        /\ once = "open" <=> ~done
        /\ once \in {"open", "closing", "closed"} /\ events \in Nat
        /\ pc \in [Callers -> {"idle", "enqueue", "await", "leaving", "done"}]
    BY MatterClientAssumption DEF ClientInv, Explained, Bounded, Registered
  <2>2. \A x \in Closers : stage[x] # "ending"
    BY DEF CanGo
  <2>3. once # "closing"
    BY <2>2 DEF Ending
  <2>4. \A x \in Closers : stage[x] \in {"run", "stopped"}
    BY <2>1, <2>2, <2>3 DEF CanGo
  <2>5. stage["reader"] = "stopped"
    <3> SUFFICES ASSUME stage["reader"] = "run" PROVE FALSE
      BY <2>4 DEF Closers
    <3>1. ~connClosed /\ wire
      BY DEF CanGo
    <3>2. once = "closed"
      BY <2>1, <2>3, <3>1
    <3> QED
      BY <3>1, <3>2 DEF Ending
  <2>6. done /\ connClosed /\ eventsClosed
    BY <2>1, <2>3, <2>5 DEF Ending, Closers
  <2>7. stage["writer"] = "stopped" /\ stage["owner"] = "stopped"
    BY <2>4, <2>6 DEF CanGo, Closers
  <2>8. \A c \in Callers : pc[c] \in {"idle", "done"}
    BY <2>1, <2>6 DEF CanGo
  <2> QED
    BY <2>5, <2>7, <2>8 DEF Ended, Closers
<1> QED
  BY SpecClient, <1>1, <1>2, <1>3, PTL DEF Spec

-----------------------------------------------------------------------------
(* The session implements RpcSession. *)

\* How a call stands for its caller.
Standing(c) == IF pc[c] = "idle" THEN "none"
               ELSE IF result[c] = None THEN "open"
               ELSE IF Answered(c) THEN "answered" ELSE "failed"

\* A step that moves one caller moves it alone.
LEMMA StandingOfOthers ==
  ASSUME ClientInv, NEW c \in Callers, NEW to, NEW res,
         pc' = [pc EXCEPT ![c] = to], result' = result \/ result' = [result EXCEPT ![c] = res]
  PROVE  \A b \in Callers \ {c} : Standing(b)' = Standing(b)
BY DEF Standing, Answered, ClientInv, Carried, Returned, Registered

\* A call is made, it is answered after it was executed, it fails, or nothing a
\* caller can see happens.
LEMMA CallImplements ==
  ASSUME ClientInv, NEW c \in Callers, CallStep(c) \/ Expire(c)
  PROVE  [Rpc!Next]_(Rpc!vars)
<1> USE MatterClientAssumption
<1>1. UNCHANGED <<received, done>>
  BY DEF CallStep, Register, Enqueue, Receive, Expire, SeeDone, Return, Leave, net, closer
<1>2. CASE Enqueue(c) \/ Leave(c)
  <2>1. /\ UNCHANGED result
        /\ \/ pc[c] = "enqueue" /\ pc' = [pc EXCEPT ![c] = "await"]
           \/ pc[c] = "leaving" /\ pc' = [pc EXCEPT ![c] = "done"]
    BY <1>2 DEF Enqueue, Leave, Goto
  <2>2. Standing(c)' = Standing(c)
    BY <2>1 DEF Standing, Answered, ClientInv, Registered
  <2>3. \A b \in Callers : Standing(b)' = Standing(b)
    BY <2>1, <2>2, StandingOfOthers
  <2> QED
    BY <1>1, <2>3 DEF Standing, Rpc!vars
<1>3. CASE Register(c)
  <2>1. UNCHANGED result /\ pc[c] = "idle" /\ pc' = [pc EXCEPT ![c] = "enqueue"]
    BY <1>3 DEF Register, Goto
  <2>2. Standing(c) = "none" /\ Standing(c)' = "open"
    BY <2>1 DEF Standing, ClientInv, Carried, Returned, Registered
  <2>3. \A b \in Callers \ {c} : Standing(b)' = Standing(b)
    BY <2>1, StandingOfOthers
  <2>4. Rpc!Ask(c)
    BY <1>1, <2>2, <2>3 DEF Standing, Rpc!Ask, Rpc!Turn
  <2> QED
    BY <2>4 DEF Rpc!Next
<1>4. CASE Receive(c) \/ Expire(c) \/ SeeDone(c)
  <2>1. PICK r : /\ pc[c] \in {"enqueue", "await"} /\ pc' = [pc EXCEPT ![c] = "leaving"]
                 /\ result' = [result EXCEPT ![c] = r]
                 /\ \/ r \in [answer : Callers] /\ c \in Executed
                    \/ \E e \in Errors : r = [error |-> e]
    <3>1. CASE Receive(c)
      <4>1. respCh[c] # None /\ respCh[c].to = c /\ c \in Executed
        BY <3>1 DEF Receive, ClientInv, Carried, HandedOver
      <4>2. [answer |-> c] \in [answer : Callers]
        OBVIOUS
      <4>3. /\ pc[c] \in {"enqueue", "await"} /\ pc' = [pc EXCEPT ![c] = "leaving"]
            /\ result' = [result EXCEPT ![c] = [answer |-> c]]
        BY <3>1, <4>1 DEF Receive, Return, Goto
      <4> QED
        BY <4>1, <4>2, <4>3
    <3>2. CASE Expire(c)
      BY <3>2 DEF Expire, Return, Goto, Errors
    <3>3. CASE SeeDone(c)
      BY <3>3 DEF SeeDone, Return, Goto, ClientInv, Explained
    <3> QED
      BY <1>4, <3>1, <3>2, <3>3
  <2>2. result'[c] = r /\ pc'[c] = "leaving" /\ Standing(c) = "open"
    BY <2>1 DEF Standing, ClientInv, Carried, Returned, Registered
  <2>3. \A b \in Callers \ {c} : Standing(b)' = Standing(b)
    BY <2>1, StandingOfOthers
  <2>4. CASE r \in [answer : Callers] /\ c \in Executed
    <3>1. r # None /\ "answer" \in DOMAIN r
      BY <2>4 DEF Results
    <3>2. Standing(c)' = "answered"
      BY <2>2, <3>1 DEF Standing, Answered
    <3>3. Rpc!Answer(c)
      BY <1>1, <2>2, <2>3, <2>4, <3>2 DEF Standing, Executed, Rpc!Answer, Rpc!Turn
    <3> QED
      BY <3>3 DEF Rpc!Next
  <2>5. CASE \E e \in Errors : r = [error |-> e]
    <3>1. r # None /\ "answer" \notin DOMAIN r
      BY <2>5, ResultKinds
    <3>2. Standing(c)' = "failed"
      BY <2>2, <3>1 DEF Standing, Answered
    <3>3. Rpc!Fail(c)
      BY <1>1, <2>2, <2>3, <3>2 DEF Standing, Rpc!Fail, Rpc!Turn
    <3> QED
      BY <3>3 DEF Rpc!Next
  <2> QED
    BY <2>1, <2>4, <2>5
<1> QED
  BY <1>2, <1>3, <1>4 DEF CallStep

\* A command is executed when writePump gets it to matter-server.
LEMMA WriteImplements ==
  ASSUME ClientInv, Write
  PROVE  [Rpc!Next]_(Rpc!vars)
<1>1. UNCHANGED <<pc, result, done>> /\ writeCh # <<>>
  BY DEF Write, WriterTurn, calls
<1>2. \A b \in Callers : Standing(b)' = Standing(b)
  BY <1>1 DEF Standing, Answered
<1>3. CASE received' = received
  BY <1>1, <1>2, <1>3 DEF Standing, Rpc!vars
<1>4. CASE received' = received \cup {Head(writeCh)}
  <2>1. PICK c \in Callers : c = Head(writeCh).from /\ msgID[c] # 0
    <3>1. Len(writeCh) \in Nat \ {0} /\ Head(writeCh) = writeCh[1] /\ writeCh[1] \in Command
      BY <1>1, TailAt DEF ClientInv, Carried, Posted
    <3>2. msgID[Head(writeCh).from] = Head(writeCh).id
      BY <3>1 DEF ClientInv, Carried, Posted
    <3> QED
      BY <3>1, <3>2 DEF Command, Ids
  <2>2. Executed' = Executed \cup {c}
    BY <1>4, <2>1 DEF Executed
  <2>3. Standing(c) # "none"
    BY <2>1 DEF Standing, ClientInv, Registered
  <2>4. Rpc!Execute(c)
    BY <1>1, <1>2, <2>1, <2>2, <2>3 DEF Standing, Executed, Rpc!Execute
  <2> QED
    BY <2>4 DEF Rpc!Next
<1> QED
  BY <1>3, <1>4 DEF Write

\* The session implements RpcSession: a command is answered after it was executed
\* and only then, a call that failed stays failed, the end is final.
THEOREM SessionImplements == Spec => IsRpcSession
<1>1. Init => Rpc!Init
  BY DEF Init, Rpc!Init
<1>2. ClientInv /\ [Next]_vars => [Rpc!Next]_(Rpc!vars)
  <2> SUFFICES ASSUME ClientInv, [Next]_vars PROVE [Rpc!Next]_(Rpc!vars)
    OBVIOUS
  <2>1. CASE \E c \in Callers : CallStep(c) \/ Expire(c)
    BY <2>1, CallImplements
  <2>2. CASE Write
    BY <2>2, WriteImplements
  <2>3. CASE \E x \in Closers : BeginClose(x)
    <3>1. UNCHANGED <<pc, result, received>> /\ ~done /\ done' = TRUE
      BY <2>3 DEF BeginClose, calls, net, ClientInv, Explained
    <3>2. Rpc!End
      BY <3>1 DEF Rpc!End, Answered
    <3> QED
      BY <3>2 DEF Rpc!Next
  <2>4. CASE UNCHANGED <<pc, result, received, done>>
    BY <2>4 DEF Rpc!vars, Answered
  <2> QED
    BY <2>1, <2>2, <2>3, <2>4 DEF Next, vars, CloseStep, ReaderStep, WriterStep, EndClose, SkipClose,
       ReadFrame, Deliver, Push, ReadFails, ReaderTurn, WriteFails, WriterSeesDone, WriterTurn,
       TakeEvent, OwnerCloses, OwnerTurn, ServerAnswers, ServerReports, ServerSends, WireBreaks,
       ServerTurn, calls, net, closer
<1> QED
  BY SpecClient, <1>1, <1>2, PTL DEF Spec, IsRpcSession, Rpc!Spec
=============================================================================
