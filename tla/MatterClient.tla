---------------------------- MODULE MatterClient ----------------------------
(***************************************************************************)
(* matterws.go: one websocket session with matter-server.  The goroutines  *)
(* are the callers of Call, readPump, writePump and the owner of the       *)
(* session (Bridge.session), which reads Events and may call Close.  Each  *)
(* step is one channel operation, one critical section or one websocket    *)
(* operation.  The session starts where Dial has read the server info.     *)
(* matter-server and the network are external.                             *)
(***************************************************************************)
EXTENDS Naturals, Sequences, FiniteSets

CONSTANTS Callers,    \* goroutines that make one Call each
          None,       \* no caller, no error, no frame
          WriteCap,   \* capacity of writeCh
          EventsCap,  \* capacity of Events
          MaxFrames   \* bound: frames matter-server sends in the session

\* What a call returns, and what readPump finds a channel for.
Errors == {"context", "read", "write", "ping", "closed by caller"}
Results == [answer : Callers] \cup [error : Errors]
Found == [type : {"response"}, ch : Callers, to : Callers]

ASSUME MatterClientAssumption ==
  /\ IsFiniteSet(Callers) /\ None \notin Callers \cup Errors \cup Results \cup Found
  /\ None # [type |-> "event"]
  /\ WriteCap \in Nat \ {0} /\ EventsCap \in Nat \ {0} /\ MaxFrames \in Nat

VARIABLES
  pc,        \* per caller: idle, enqueue, await, leaving, done
  msgID,     \* per caller: the message id of its command, 0 before
  result,    \* per caller: what Call returned, None before
  nextID,
  pending,   \* message id -> the caller whose respCh is in the map
  respCh,    \* per caller: the response in its channel
  writeCh,
  events,    \* how many events are in Events: a Go channel keeps their order
  done, err, eventsClosed,
  connClosed, wire,   \* conn.Close was called; the network still carries frames
  received,  \* external: the commands matter-server has got, as [id, from]
  inbox,     \* frames on their way to readPump
  sent,      \* frames matter-server has sent
  frame,     \* what readPump holds: an event, or a response and the channel
             \* it found for it
  once,      \* closeOnce: open, closing, closed
  stage,     \* per closer: run, closing, ending, stopped
  why,       \* per closer: the error it calls closeWith with
  panicked   \* a goroutine has panicked: the process is gone

calls == <<pc, msgID, result, nextID, pending, respCh>>
queues == <<writeCh, events>>
net == <<wire, received, inbox, sent>>
closer == <<once, done, err, connClosed, eventsClosed, stage, why>>
vars == <<calls, queues, net, frame, closer, panicked>>

Closers == {"reader", "writer", "owner"}
Ids == 1 .. Cardinality(Callers)
\* The answer to command i, which c sent.
Response(i, c) == [type |-> "response", id |-> i, to |-> c]
EventFrame == [type |-> "event"]
Junk == [type |-> "junk"]

Init ==
  /\ pc = [c \in Callers |-> "idle"]
  /\ msgID = [c \in Callers |-> 0]
  /\ result = [c \in Callers |-> None]
  /\ nextID = 0
  /\ pending = [i \in Ids |-> None]
  /\ respCh = [c \in Callers |-> None]
  /\ writeCh = <<>>
  /\ events = 0
  /\ wire = TRUE
  /\ received = {}
  /\ inbox = <<>>
  /\ sent = 0
  /\ frame = None
  /\ once = "open" /\ done = FALSE /\ err = None
  /\ connClosed = FALSE /\ eventsClosed = FALSE
  /\ stage = [x \in Closers |-> "run"]
  /\ why = [x \in Closers |-> None]
  /\ panicked = FALSE

-----------------------------------------------------------------------------
(* Call. *)

Goto(c, from, to) == ~panicked /\ pc[c] \in from /\ pc' = [pc EXCEPT ![c] = to]

\* Mutant: ids are numbers of calls in progress.
RegisterReusing(c) ==
  /\ Goto(c, {"idle"}, "enqueue")
  /\ nextID' = Cardinality({i \in Ids : pending[i] # None}) + 1
  /\ msgID' = [msgID EXCEPT ![c] = nextID']
  /\ pending' = [pending EXCEPT ![nextID'] = c]
  /\ UNCHANGED <<result, respCh, queues, net, frame, closer, panicked>>

\* The id is fresh and its response channel is in the map before it is sent.  That
\* a command cannot be encoded is left out: arguments are decoded JSON and numbers.
Register(c) ==
  /\ Goto(c, {"idle"}, "enqueue")
  /\ nextID' = nextID + 1
  /\ msgID' = [msgID EXCEPT ![c] = nextID']
  /\ pending' = [pending EXCEPT ![nextID'] = c]
  /\ UNCHANGED <<result, respCh, queues, net, frame, closer, panicked>>

Enqueue(c) ==
  /\ Goto(c, {"enqueue"}, "await")
  /\ Len(writeCh) < WriteCap
  /\ writeCh' = Append(writeCh, [id |-> msgID[c], from |-> c])
  /\ UNCHANGED <<msgID, result, nextID, pending, respCh, events, net, frame, closer, panicked>>

Return(c, from, res) ==
  /\ Goto(c, from, "leaving")
  /\ result' = [result EXCEPT ![c] = res]
  /\ UNCHANGED <<msgID, nextID, pending, respCh, queues, net, frame, closer, panicked>>

\* Mutant: the response of a call that has given up is returned after all.
ReceiveLate(c) == respCh[c] # None /\ Return(c, {"await", "leaving"}, [answer |-> respCh[c].to])

\* A result, or the error_code of a command that was refused: the answer either way.
Receive(c) == respCh[c] # None /\ Return(c, {"await"}, [answer |-> respCh[c].to])

\* ctx is done: the caller's timeout, which may fire at any time.
Expire(c) == Return(c, {"enqueue", "await"}, [error |-> "context"])

SeeDone(c) == done /\ Return(c, {"enqueue", "await"}, [error |-> err])

\* Mutant: only a call that was answered is deleted.
LeaveAnswered(c) ==
  /\ Goto(c, {"leaving"}, "done")
  /\ pending' = IF "answer" \in DOMAIN result[c] THEN [pending EXCEPT ![msgID[c]] = None]
                                                 ELSE pending
  /\ UNCHANGED <<msgID, result, nextID, respCh, queues, net, frame, closer, panicked>>

\* The deferred deletion.
Leave(c) ==
  /\ Goto(c, {"leaving"}, "done")
  /\ pending' = [pending EXCEPT ![msgID[c]] = None]
  /\ UNCHANGED <<msgID, result, nextID, respCh, queues, net, frame, closer, panicked>>

-----------------------------------------------------------------------------
(* closeWith. *)

Close(x, reason) ==
  /\ stage' = [stage EXCEPT ![x] = "closing"]
  /\ why' = [why EXCEPT ![x] = reason]

\* The first caller of closeOnce.Do records its error and closes done ...
BeginClose(x) ==
  /\ ~panicked /\ stage[x] = "closing" /\ once = "open"
  /\ once' = "closing"
  /\ stage' = [stage EXCEPT ![x] = "ending"]
  /\ err' = why[x]
  /\ done' = TRUE
  /\ UNCHANGED <<calls, queues, net, frame, connClosed, eventsClosed, why, panicked>>

\* Mutant: the connection is left open.
EndCloseChannels(x) ==
  /\ ~panicked /\ stage[x] = "ending"
  /\ once' = "closed"
  /\ stage' = [stage EXCEPT ![x] = "stopped"]
  /\ eventsClosed' = TRUE
  /\ UNCHANGED <<calls, queues, net, frame, done, err, why, connClosed, panicked>>

\* ... and then closes the connection and Events.
EndClose(x) ==
  /\ ~panicked /\ stage[x] = "ending"
  /\ once' = "closed"
  /\ stage' = [stage EXCEPT ![x] = "stopped"]
  /\ connClosed' = TRUE
  /\ eventsClosed' = TRUE
  /\ UNCHANGED <<calls, queues, net, frame, done, err, why, panicked>>

\* The others wait in closeOnce.Do until the first is through.
SkipClose(x) ==
  /\ ~panicked /\ stage[x] = "closing" /\ once = "closed"
  /\ stage' = [stage EXCEPT ![x] = "stopped"]
  /\ UNCHANGED <<calls, queues, net, frame, once, done, err, connClosed, eventsClosed, why, panicked>>

-----------------------------------------------------------------------------
(* readPump. *)

ReaderTurn == ~panicked /\ UNCHANGED <<pc, msgID, result, nextID, pending, writeCh, once, done, err,
                           connClosed, eventsClosed>>

\* A response is looked up in the map; one that nobody waits for is dropped, as
\* is a frame that does not parse.
ReadFrame ==
  /\ stage["reader"] = "run" /\ frame = None
  /\ ~connClosed /\ inbox # <<>>
  /\ inbox' = Tail(inbox)
  /\ LET f == Head(inbox)
     IN  frame' = IF f.type = "junk" \/ (f.type = "response" /\ pending[f.id] = None)
                    THEN None
                  ELSE IF f.type = "event" THEN f
                  ELSE [type |-> "response", ch |-> pending[f.id], to |-> f.to]
  /\ ReaderTurn
  /\ UNCHANGED <<respCh, events, wire, received, sent, stage, why, panicked>>

\* The channel found in the map has room for one response; a second is dropped.
Deliver ==
  /\ stage["reader"] = "run" /\ frame # None /\ frame.type = "response"
  /\ frame' = None
  /\ respCh' = IF respCh[frame.ch] = None THEN [respCh EXCEPT ![frame.ch] = frame] ELSE respCh
  /\ ReaderTurn
  /\ UNCHANGED <<events, net, stage, why, panicked>>

\* The select of readPump: whichever case is ready, at random; default when none
\* is.  A send on a closed channel counts as ready, and panics.
Push ==
  /\ stage["reader"] = "run" /\ frame # None /\ frame.type = "event"
  /\ frame' = None
  /\ \/ /\ eventsClosed
        /\ panicked' = TRUE
        /\ UNCHANGED <<events, stage, why>>
     \/ /\ ~eventsClosed /\ events < EventsCap
        /\ events' = events + 1
        /\ UNCHANGED <<stage, why, panicked>>
     \/ /\ done
        /\ Close("reader", None)
        /\ UNCHANGED <<events, panicked>>
     \/ /\ ~eventsClosed /\ ~done /\ events = EventsCap
        /\ UNCHANGED <<events, stage, why, panicked>>
  /\ ReaderTurn
  /\ UNCHANGED <<respCh, net>>

\* Mutant: the error is left to the deferred closeWith(nil).
ReadFailsSilently ==
  /\ stage["reader"] = "run" /\ frame = None
  /\ connClosed \/ (~wire /\ inbox = <<>>)
  /\ Close("reader", None)
  /\ ReaderTurn
  /\ UNCHANGED <<respCh, events, net, frame, panicked>>

\* The connection is closed, or nothing comes within the read deadline.
ReadFails ==
  /\ stage["reader"] = "run" /\ frame = None
  /\ connClosed \/ (~wire /\ inbox = <<>>)
  /\ Close("reader", "read")
  /\ ReaderTurn
  /\ UNCHANGED <<respCh, events, net, frame, panicked>>

-----------------------------------------------------------------------------
(* writePump. *)

WriterTurn == ~panicked /\ UNCHANGED <<calls, events, wire, inbox, sent, frame, once, done, err,
                           connClosed, eventsClosed, panicked>>

\* A write into a dead network may still succeed locally: the command is lost.
Write ==
  /\ stage["writer"] = "run" /\ writeCh # <<>> /\ ~connClosed
  /\ writeCh' = Tail(writeCh)
  /\ received' = IF wire THEN received \cup {Head(writeCh)} ELSE received
  /\ WriterTurn
  /\ UNCHANGED <<stage, why>>

\* A command or a ping cannot be written.
WriteFails ==
  /\ stage["writer"] = "run" /\ (connClosed \/ ~wire)
  /\ \/ writeCh # <<>> /\ writeCh' = Tail(writeCh) /\ Close("writer", "write")
     \/ UNCHANGED writeCh /\ Close("writer", "ping")
  /\ UNCHANGED received
  /\ WriterTurn

WriterSeesDone ==
  /\ stage["writer"] = "run" /\ done
  /\ stage' = [stage EXCEPT !["writer"] = "stopped"]
  /\ UNCHANGED <<writeCh, received, why>>
  /\ WriterTurn

-----------------------------------------------------------------------------
(* The owner. *)

OwnerTurn == ~panicked /\ UNCHANGED <<calls, writeCh, net, frame, once, done, err, connClosed,
                          eventsClosed, panicked>>

TakeEvent ==
  /\ stage["owner"] = "run" /\ events > 0
  /\ events' = events - 1
  /\ UNCHANGED <<stage, why>>
  /\ OwnerTurn

\* Events is closed and drained, or the owner leaves early: its context ends,
\* start_listening fails.  Both ways it calls Close.
OwnerCloses ==
  /\ stage["owner"] = "run"
  /\ Close("owner", "closed by caller")
  /\ UNCHANGED events
  /\ OwnerTurn

-----------------------------------------------------------------------------
(* matter-server and the network. *)

ServerTurn == ~panicked /\ UNCHANGED <<calls, queues, received, frame, closer, panicked>>

ServerSends(f) ==
  /\ wire /\ ~connClosed /\ sent < MaxFrames
  /\ sent' = sent + 1
  /\ inbox' = Append(inbox, f)
  /\ UNCHANGED wire
  /\ ServerTurn

\* Answers come in any order and may come twice.
ServerAnswers == \E cmd \in received : ServerSends(Response(cmd.id, cmd.from))
ServerReports == ServerSends(EventFrame) \/ ServerSends(Junk)

WireBreaks == wire /\ wire' = FALSE /\ UNCHANGED <<inbox, sent>> /\ ServerTurn

-----------------------------------------------------------------------------
CallStep(c) == Register(c) \/ Enqueue(c) \/ Receive(c) \/ SeeDone(c) \/ Leave(c)
CloseStep(x) == BeginClose(x) \/ EndClose(x) \/ SkipClose(x)
ReaderStep == ReadFrame \/ Deliver \/ Push \/ ReadFails
WriterStep == Write \/ WriteFails \/ WriterSeesDone
OwnerSeesEnd == eventsClosed /\ events = 0 /\ OwnerCloses

Next ==
  \/ \E c \in Callers : CallStep(c) \/ Expire(c)
  \/ \E x \in Closers : CloseStep(x)
  \/ ReaderStep \/ WriterStep \/ TakeEvent \/ OwnerCloses
  \/ ServerAnswers \/ ServerReports \/ WireBreaks

Spec == Init /\ [][Next]_vars

\* What the goroutines do of themselves: timeouts, the server and the network owe
\* nothing, and nobody has to make a call.
GoroutineStep ==
  \/ \E c \in Callers : Enqueue(c) \/ Receive(c) \/ SeeDone(c) \/ Leave(c)
  \/ \E x \in Closers : CloseStep(x)
  \/ ReaderStep \/ WriterStep \/ TakeEvent \/ OwnerSeesEnd

-----------------------------------------------------------------------------
(* Properties. *)

Command == [id : Ids, from : Callers]
Frames == {EventFrame, Junk} \cup [type : {"response"}, id : Ids, to : Callers]

\* The channels stay within their capacities, the map holds callers, readPump
\* holds one frame at most.
TypeOK ==
  /\ pc \in [Callers -> {"idle", "enqueue", "await", "leaving", "done"}]
  /\ msgID \in [Callers -> Ids \cup {0}] /\ nextID \in Ids \cup {0}
  /\ pending \in [Ids -> Callers \cup {None}]
  /\ \A c \in Callers : /\ respCh[c] # None => respCh[c].ch = c
                        /\ result[c] # None => DOMAIN result[c] \in {{"answer"}, {"error"}}
  /\ writeCh \in Seq(Command) /\ Len(writeCh) <= WriteCap
  /\ events \in 0 .. EventsCap
  /\ inbox \in Seq(Frames) /\ sent \in 0 .. MaxFrames
  /\ received \subseteq Command
  /\ once \in {"open", "closing", "closed"}
  /\ stage \in [Closers -> {"run", "closing", "ending", "stopped"}]
  /\ {wire, done, connClosed, eventsClosed, panicked} \subseteq BOOLEAN

Answered(c) == result[c] # None /\ "answer" \in DOMAIN result[c]

\* A Call returns the answer to its own command, also when another call timed
\* out and its answer comes late (matterws.go:140-177, 197-207).
Correlation == \A c \in Callers : Answered(c) => result[c].answer = c

\* Calls that time out leave nothing in the map (matterws.go:148-152).
PendingExact ==
  {i \in Ids : pending[i] # None} =
    {msgID[c] : c \in {k \in Callers : pc[k] \in {"enqueue", "await", "leaving"}}}

\* A session that has ended can say why: nobody wins closeOnce with the nil of
\* readPump's deferred closeWith (matterws.go:181, 245-250, 269-271).
ErrKnown == done => err # None

\* The event channel closes under nobody's send (matterws.go:78-79, "when the
\* session dies, Events closes and the caller dials again").
NoPanic == ~panicked

\* When the network dies or anyone closes the session, all of it ends: the
\* goroutines do not wait for each other before every pump, call and owner has
\* stopped (matterws.go:183-187, 227-239, 244-255).
AllEnds ==
  (~wire \/ done) /\ ~panicked /\ ~ENABLED GoroutineStep =>
    /\ stage = [x \in Closers |-> "stopped"]
    /\ \A c \in Callers : pc[c] \in {"idle", "done"}

\* What callers may rely on: see RpcSession.
Rpc == INSTANCE RpcSession WITH
  call <- [c \in Callers |-> IF pc[c] = "idle" THEN "none"
                             ELSE IF result[c] = None THEN "open"
                             ELSE IF Answered(c) THEN "answered" ELSE "failed"],
  executed <- {cmd.from : cmd \in received},
  ended <- done

\* The client is a session of remote calls: a command is answered after it was
\* executed and only then, a call that failed stays failed, the end is final.
IsRpcSession == Rpc!Spec
=============================================================================
