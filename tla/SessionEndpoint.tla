--------------------------- MODULE SessionEndpoint ---------------------------
(***************************************************************************)
(* One SessionEndpoint (src/server/domain/session_endpoint.go) with its    *)
(* Session and Connection: Run and its four goroutines (owner, read, write *)
(* and subscribe loop), the callers of Close and ForceClose, and around    *)
(* them the peer, the transport, the clock and the room that publishes on  *)
(* the session's topic.                                                    *)
(*                                                                         *)
(* What is published on a room's topic is only recorded here (topics);     *)
(* whether it is delivered is SimplePubSub's matter.  Message payloads are *)
(* numbers: 0 is the assign message, n > 0 the n-th frame of the room.     *)
(***************************************************************************)
EXTENDS Naturals, Sequences

CONSTANTS Room,         \* rooms a client may name
          NoRoom,       \* the empty RoomID, not in Room
          DefaultRoom,  \* what RoomManager.GetRoom answers
          ClientFrame,  \* the frames a client may send
          ForceCaller,  \* callers of ForceClose, each calling once
          IdleTimeout,  \* 30 seconds in the code, in ticks of the 1 s ticker
          CtrlCap,      \* capacity of ctrlCh (16)
          WriteCap,     \* capacity of writeCh (1024)
          MsgCap,       \* DefaultChannelBuffer, the session's subscription
          MaxFrames,    \* bound: frames the room publishes to this session
          MaxClient,    \* bound: frames the client sends
          MaxTraffic    \* bound: frames of both together

(* A client frame: own, the header parses and carries this session's ID;   *)
(* what the payload is, "other" being a control message that is ignored or *)
(* does not parse; the room a join names, NoRoom being "any".              *)
Frame == [own : BOOLEAN, kind : {"join", "leave", "data", "other"},
          room : Room \cup {NoRoom}]

ASSUME EndpointAssumption == /\ NoRoom \notin Room
                             /\ DefaultRoom \in Room
                             /\ ClientFrame \subseteq Frame
                             /\ "owner" \notin ForceCaller
                             /\ IdleTimeout \in Nat \ {0}
                             /\ CtrlCap \in Nat \ {0}
                             /\ WriteCap \in Nat \ {0}
                             /\ MsgCap \in Nat \ {0}
                             /\ MaxFrames \in Nat /\ MaxClient \in Nat
                             /\ MaxTraffic \in Nat

VARIABLES
  run,           \* Run: "new", "sending" assign, "waiting", "returned", "failed"
  owner,         \* ownerLoop: "off", "select", "done"
  reader,        \* readLoop: also "reading" and "reporting" an error
  writer,        \* writeLoop: also "writing" and "reporting" an error
  subscriber,    \* subscribeLoop: also "forwarding" a message
  closing,       \* closing[k]: where caller k is in close()
  closed,        \* se.closed
  ctxDone,       \* se.ctx is cancelled
  sessionClosed, \* session.closed
  closes,        \* how many times the transport was closed
  conn,          \* the transport: "open", "broken" by the peer, "closed" by us
  ctrlCh,        \* se.ctrlCh: kinds of endpointEvent
  writeCh,       \* se.writeCh
  msgCh,         \* the subscription to session:<id>
  writing,       \* the message writeLoop is writing
  forwarding,    \* the message subscribeLoop holds
  roomID,        \* se.roomID
  age,           \* ticks since lastRead, lastWrite, lastPong, at most IdleTimeout + 1
  tickReady,     \* the owner's ticker channel holds a tick
  reason,        \* the IdleReason the session was closed for
  inbound,       \* frames on their way from the client
  clientSent,    \* frames the client has sent (bound)
  published,     \* frames the room has published to this session (bound)
  wire,          \* history: messages the client was sent
  topics,        \* history: topics[r], what the session published on r's topic, in order
  heard          \* history: ticks since readLoop really read a frame

procs   == <<run, owner, reader, writer, subscriber, closing>>
life    == <<closed, ctxDone, sessionClosed, closes>>
queues  == <<ctrlCh, writeCh, msgCh, writing, forwarding>>
idle    == <<age, tickReady, reason>>
peer    == <<conn, inbound, clientSent, published, wire>>
rooms   == <<roomID, topics>>
vars    == <<procs, life, queues, idle, peer, rooms, heard>>

Closer == {"owner"} \cup ForceCaller
Assign == 0
Age    == 0..(IdleTimeout + 1)
Topics == [Room \cup {NoRoom} -> Seq({"join", "leave", "data"})]

TypeOK ==
  /\ run \in {"new", "sending", "waiting", "returned", "failed"}
  /\ owner \in {"off", "select", "done"}
  /\ reader \in {"off", "select", "reading", "reporting", "done"}
  /\ writer \in {"off", "select", "writing", "reporting", "done"}
  /\ subscriber \in {"off", "select", "forwarding", "done"}
  /\ closing \in [Closer -> {"no", "cancel", "session", "connection", "done"}]
  /\ closed \in BOOLEAN /\ ctxDone \in BOOLEAN /\ sessionClosed \in BOOLEAN
  /\ closes \in Nat
  /\ conn \in {"open", "broken", "closed"}
  /\ ctrlCh \in Seq({"close", "readError", "writeError"}) /\ Len(ctrlCh) <= CtrlCap
  /\ writeCh \in Seq(0..MaxFrames) /\ Len(writeCh) <= WriteCap
  /\ msgCh \in Seq(1..MaxFrames) /\ Len(msgCh) <= MsgCap
  /\ writing \in 0..MaxFrames /\ forwarding \in 0..MaxFrames
  /\ roomID \in Room \cup {NoRoom}
  /\ age \in [read : Age, write : Age, pong : Age]
  /\ tickReady \in BOOLEAN
  /\ reason \subseteq {"read", "write", "pong"}
  /\ inbound \in Seq(ClientFrame)
  /\ clientSent \in 0..MaxClient
  /\ published \in 0..MaxFrames
  /\ wire \in Seq(0..MaxFrames)
  /\ topics \in Topics
  /\ heard \in Age

Init == /\ run = "new" /\ owner = "off" /\ reader = "off"
        /\ writer = "off" /\ subscriber = "off"
        /\ closing = [k \in Closer |-> "no"]
        /\ closed = FALSE /\ ctxDone = FALSE /\ sessionClosed = FALSE
        /\ closes = 0
        /\ conn = "open"
        /\ ctrlCh = <<>> /\ writeCh = <<>> /\ msgCh = <<>>
        /\ writing = 0 /\ forwarding = 0
        /\ roomID = NoRoom
        /\ age = [read |-> 0, write |-> 0, pong |-> 0]
        /\ tickReady = FALSE
        /\ reason = {}
        /\ inbound = <<>> /\ clientSent = 0 /\ published = 0
        /\ wire = <<>>
        /\ topics = [r \in Room \cup {NoRoom} |-> <<>>]
        /\ heard = 0

-----------------------------------------------------------------------------
(* Run                                                                     *)

(* subscribe to the session's topic and start the four goroutines          *)
RunStart ==
  /\ run = "new"
  /\ run' = "sending"
  /\ owner' = "select" /\ reader' = "select"
  /\ writer' = "select" /\ subscriber' = "select"
  /\ UNCHANGED <<closing, life, queues, idle, peer, rooms, heard>>

(* Send(assign): with no room in writeCh, Run gives up                     *)
RunSendAssign ==
  /\ run = "sending"
  /\ IF Len(writeCh) < WriteCap
     THEN run' = "waiting" /\ writeCh' = Append(writeCh, Assign)
     ELSE run' = "failed" /\ UNCHANGED writeCh
  /\ UNCHANGED <<owner, reader, writer, subscriber, closing, life, idle>>
  /\ UNCHANGED <<ctrlCh, msgCh, writing, forwarding, peer, rooms, heard>>

(* Mutant of RunReturn: Run waits for the first loop that ends             *)
RunReturnEarly ==
  /\ run = "waiting"
  /\ "done" \in {owner, reader, writer, subscriber}
  /\ run' = "returned"
  /\ UNCHANGED <<owner, reader, writer, subscriber, closing, life, queues, idle>>
  /\ UNCHANGED <<peer, rooms, heard>>

(* eg.Wait(), and the deferred Unsubscribe                                 *)
RunReturn ==
  /\ run = "waiting"
  /\ owner = "done" /\ reader = "done" /\ writer = "done" /\ subscriber = "done"
  /\ run' = "returned"
  /\ UNCHANGED <<owner, reader, writer, subscriber, closing, life, queues, idle>>
  /\ UNCHANGED <<peer, rooms, heard>>

-----------------------------------------------------------------------------
(* close(), by the owner or a caller of ForceClose: CompareAndSwap, then   *)
(* cancel, session.Close and connection.Close, each a step of its own.     *)

(* Mutant of EnterClose: no CompareAndSwap                                 *)
EnterCloseAlways(k) ==
  /\ closed' = TRUE
  /\ closing' = [closing EXCEPT ![k] = "cancel"]

EnterClose(k) ==
  /\ closed' = TRUE
  /\ closing' = [closing EXCEPT ![k] = IF ~closed THEN "cancel"
                                       ELSE IF k = "owner" THEN "no" ELSE "done"]

CloseStep(k) ==
  /\ CASE closing[k] = "cancel" ->
            /\ ctxDone' = TRUE
            /\ closing' = [closing EXCEPT ![k] = "session"]
            /\ UNCHANGED <<sessionClosed, closes, conn, inbound>>
       [] closing[k] = "session" ->
            /\ sessionClosed' = TRUE
            /\ closing' = [closing EXCEPT ![k] = "connection"]
            /\ UNCHANGED <<ctxDone, closes, conn, inbound>>
       [] closing[k] = "connection" ->
            /\ closes' = closes + 1
            /\ conn' = "closed"
            /\ inbound' = <<>>
            /\ closing' = [closing EXCEPT ![k] = IF k = "owner" THEN "no" ELSE "done"]
            /\ UNCHANGED <<ctxDone, sessionClosed>>
       [] OTHER -> FALSE
  /\ UNCHANGED <<run, owner, reader, writer, subscriber, closed, queues, idle>>
  /\ UNCHANGED <<clientSent, published, wire, rooms, heard>>

ForceClose(k) ==
  /\ closing[k] = "no"
  /\ EnterClose(k)
  /\ UNCHANGED <<run, owner, reader, writer, subscriber, ctxDone, sessionClosed, closes>>
  /\ UNCHANGED <<queues, idle, peer, rooms, heard>>

(* Close(ctx) that gets its event into ctrlCh; it blocks while ctrlCh is   *)
(* full, and changes nothing when its caller's ctx is done first.  Bound:  *)
(* one queued close at a time.                                             *)
Close ==
  /\ Len(ctrlCh) < CtrlCap
  /\ "close" \notin {ctrlCh[i] : i \in 1..Len(ctrlCh)}
  /\ ctrlCh' = Append(ctrlCh, "close")
  /\ UNCHANGED <<procs, life, writeCh, msgCh, writing, forwarding, idle, peer, rooms, heard>>

-----------------------------------------------------------------------------
(* ownerLoop                                                               *)

(* Mutant of OwnerReady: the owner closes in a goroutine of its own         *)
OwnerReadyAnyway == owner = "select"

OwnerReady == owner = "select" /\ closing["owner"] = "no"

OwnerDone ==
  /\ OwnerReady
  /\ ctxDone
  /\ owner' = "done"
  /\ UNCHANGED <<run, reader, writer, subscriber, closing, life, queues, idle>>
  /\ UNCHANGED <<peer, rooms, heard>>

(* handleControlEvent: only a close event does anything.  Nothing sends    *)
(* evPong, so its TouchPong never runs.                                    *)
OwnerEvent ==
  /\ OwnerReady
  /\ ctrlCh # <<>>
  /\ ctrlCh' = Tail(ctrlCh)
  /\ IF Head(ctrlCh) = "close" THEN EnterClose("owner") ELSE UNCHANGED <<closed, closing>>
  /\ UNCHANGED <<run, owner, reader, writer, subscriber, ctxDone, sessionClosed, closes>>
  /\ UNCHANGED <<writeCh, msgCh, writing, forwarding, idle, peer, rooms, heard>>

(* Mutant of IdleReasons: IsIdle's test of the timeout is inverted         *)
IdleReasonsDisabled == {}

(* Session.IsIdle                                                          *)
IdleReasons == {f \in {"read", "write", "pong"} : age[f] > IdleTimeout}

OwnerTick ==
  /\ OwnerReady
  /\ tickReady
  /\ tickReady' = FALSE
  /\ IF IdleReasons # {}
     THEN EnterClose("owner") /\ reason' = IF closed THEN reason ELSE IdleReasons
     ELSE UNCHANGED <<closed, closing, reason>>
  /\ UNCHANGED <<run, owner, reader, writer, subscriber, ctxDone, sessionClosed, closes>>
  /\ UNCHANGED <<queues, age, peer, rooms, heard>>

-----------------------------------------------------------------------------
(* readLoop                                                                *)

(* select on ctx.Done() with a default                                     *)
ReaderSelect ==
  /\ reader = "select"
  /\ reader' = IF ctxDone THEN "done" ELSE "reading"
  /\ UNCHANGED <<run, owner, writer, subscriber, closing, life, queues, idle>>
  /\ UNCHANGED <<peer, rooms, heard>>

(* se.pubsub.Publish on the topic of a room                                *)
Publish(room, kind) == topics' = [topics EXCEPT ![room] = Append(@, kind)]

(* the room named, or the default one; then its join is published          *)
HandleJoin(room) ==
  LET r == IF room = NoRoom THEN DefaultRoom ELSE room
  IN  roomID' = r /\ Publish(r, "join")

HandleLeave ==
  IF roomID = NoRoom THEN UNCHANGED rooms
  ELSE Publish(roomID, "leave") /\ roomID' = NoRoom

(* Mutant of HandleForward: roomID is not looked at                        *)
HandleForwardAnyway == Publish(roomID, "data") /\ UNCHANGED roomID

(* the default branch: data goes to the topic of the room, as it is        *)
HandleForward ==
  IF roomID = NoRoom THEN UNCHANGED rooms
  ELSE Publish(roomID, "data") /\ UNCHANGED roomID

(* Mutant of HandleData: the header's session ID is not compared           *)
HandleAnyData(f) ==
  \/ f.kind = "join"  /\ HandleJoin(f.room)
  \/ f.kind = "leave" /\ HandleLeave
  \/ f.kind = "data"  /\ HandleForward
  \/ f.kind = "other" /\ UNCHANGED rooms

(* handleData and handleControlMessage: a frame that does not parse or has *)
(* another session's ID is dropped                                         *)
HandleData(f) ==
  \/ f.own /\ f.kind = "join"  /\ HandleJoin(f.room)
  \/ f.own /\ f.kind = "leave" /\ HandleLeave
  \/ f.own /\ f.kind = "data"  /\ HandleForward
  \/ (~f.own \/ f.kind = "other") /\ UNCHANGED rooms

ReadData ==
  /\ reader = "reading"
  /\ conn = "open"
  /\ inbound # <<>>
  /\ inbound' = Tail(inbound)
  /\ HandleData(Head(inbound))
  /\ heard' = 0
  /\ reader' = "select"
  /\ UNCHANGED <<run, owner, writer, subscriber, closing, life, queues, idle>>
  /\ UNCHANGED <<conn, clientSent, published, wire>>

ReadFails ==
  /\ reader = "reading"
  /\ conn # "open" \/ ctxDone
  /\ reader' = "reporting"
  /\ UNCHANGED <<run, owner, writer, subscriber, closing, life, queues, idle>>
  /\ UNCHANGED <<peer, rooms, heard>>

(* Mutant of ReaderReports: the send to ctrlCh does not watch ctx.Done()   *)
ReaderReportsBlocking ==
  /\ reader = "reporting"
  /\ Len(ctrlCh) < CtrlCap
  /\ ctrlCh' = Append(ctrlCh, "readError")
  /\ reader' = "select"
  /\ UNCHANGED <<run, owner, writer, subscriber, closing, life, idle>>
  /\ UNCHANGED <<writeCh, msgCh, writing, forwarding, peer, rooms, heard>>

(* sendCtrlEvent: into ctrlCh, or given up once ctx is done                *)
ReaderReports ==
  /\ reader = "reporting"
  /\ \/ Len(ctrlCh) < CtrlCap /\ ctrlCh' = Append(ctrlCh, "readError")
     \/ ctxDone /\ UNCHANGED ctrlCh
  /\ reader' = "select"
  /\ UNCHANGED <<run, owner, writer, subscriber, closing, life, idle>>
  /\ UNCHANGED <<writeCh, msgCh, writing, forwarding, peer, rooms, heard>>

-----------------------------------------------------------------------------
(* writeLoop                                                               *)

WriterDone ==
  /\ writer = "select"
  /\ ctxDone
  /\ writer' = "done"
  /\ UNCHANGED <<run, owner, reader, subscriber, closing, life, queues, idle>>
  /\ UNCHANGED <<peer, rooms, heard>>

WriterTake ==
  /\ writer = "select"
  /\ writeCh # <<>>
  /\ writing' = Head(writeCh)
  /\ writeCh' = Tail(writeCh)
  /\ writer' = "writing"
  /\ UNCHANGED <<run, owner, reader, subscriber, closing, life, idle>>
  /\ UNCHANGED <<ctrlCh, msgCh, forwarding, peer, rooms, heard>>

(* Connection.Write succeeds, then TouchWrite                              *)
WriteSucceeds ==
  /\ writer = "writing"
  /\ conn = "open"
  /\ wire' = Append(wire, writing)
  /\ age' = [age EXCEPT !.write = 0]
  /\ writer' = "select"
  /\ writing' = 0
  /\ UNCHANGED <<run, owner, reader, subscriber, closing, life, tickReady, reason>>
  /\ UNCHANGED <<ctrlCh, writeCh, msgCh, forwarding, rooms, heard>>
  /\ UNCHANGED <<conn, inbound, clientSent, published>>

WriteFails ==
  /\ writer = "writing"
  /\ conn # "open" \/ ctxDone
  /\ writer' = "reporting"
  /\ writing' = 0
  /\ UNCHANGED <<run, owner, reader, subscriber, closing, life, idle>>
  /\ UNCHANGED <<ctrlCh, writeCh, msgCh, forwarding, peer, rooms, heard>>

WriterReports ==
  /\ writer = "reporting"
  /\ \/ Len(ctrlCh) < CtrlCap /\ ctrlCh' = Append(ctrlCh, "writeError")
     \/ ctxDone /\ UNCHANGED ctrlCh
  /\ writer' = "select"
  /\ UNCHANGED <<run, owner, reader, subscriber, closing, life, idle>>
  /\ UNCHANGED <<writeCh, msgCh, writing, forwarding, peer, rooms, heard>>

-----------------------------------------------------------------------------
(* subscribeLoop                                                           *)

SubscriberDone ==
  /\ subscriber = "select"
  /\ ctxDone
  /\ subscriber' = "done"
  /\ UNCHANGED <<run, owner, reader, writer, closing, life, queues, idle>>
  /\ UNCHANGED <<peer, rooms, heard>>

SubscriberTake ==
  /\ subscriber = "select"
  /\ msgCh # <<>>
  /\ forwarding' = Head(msgCh)
  /\ msgCh' = Tail(msgCh)
  /\ subscriber' = "forwarding"
  /\ UNCHANGED <<run, owner, reader, writer, closing, life, idle>>
  /\ UNCHANGED <<ctrlCh, writeCh, writing, peer, rooms, heard>>

(* Mutant of SubscriberForward: the message is queued with no limit        *)
SubscriberForwardUnbounded ==
  /\ subscriber = "forwarding"
  /\ writeCh' = Append(writeCh, forwarding)
  /\ forwarding' = 0
  /\ subscriber' = "select"
  /\ UNCHANGED <<run, owner, reader, writer, closing, life, idle>>
  /\ UNCHANGED <<ctrlCh, msgCh, writing, peer, rooms, heard>>

(* a full writeCh drops the message                                        *)
SubscriberForward ==
  /\ subscriber = "forwarding"
  /\ writeCh' = IF Len(writeCh) < WriteCap THEN Append(writeCh, forwarding) ELSE writeCh
  /\ forwarding' = 0
  /\ subscriber' = "select"
  /\ UNCHANGED <<run, owner, reader, writer, closing, life, idle>>
  /\ UNCHANGED <<ctrlCh, msgCh, writing, peer, rooms, heard>>

-----------------------------------------------------------------------------
(* Around the endpoint.                                                    *)

(* The browser sends a join, inputs and a leave, another client any frame; *)
(* a client learns its session ID from the assign message.                 *)
ClientSends(f) ==
  /\ conn = "open"
  /\ clientSent < MaxClient /\ clientSent + published < MaxTraffic
  /\ f.own => wire # <<>>
  /\ inbound' = Append(inbound, f)
  /\ clientSent' = clientSent + 1
  /\ UNCHANGED <<procs, life, queues, idle, conn, published, wire, rooms, heard>>

(* The transport goes, and with it the frames still on their way.          *)
Break ==
  /\ conn = "open"
  /\ conn' = "broken"
  /\ inbound' = <<>>
  /\ UNCHANGED <<procs, life, queues, idle, clientSent, published, wire, rooms, heard>>

(* A room publishes its next frame on the topic of a session that has      *)
(* joined it at some time; a full subscription drops it.                   *)
RoomPublishes ==
  /\ run \in {"sending", "waiting"}
  /\ \E r \in Room : topics[r] # <<>>
  /\ published < MaxFrames /\ clientSent + published < MaxTraffic
  /\ published' = published + 1
  /\ msgCh' = IF Len(msgCh) < MsgCap THEN Append(msgCh, published + 1) ELSE msgCh
  /\ UNCHANGED <<procs, life, ctrlCh, writeCh, writing, forwarding, idle>>
  /\ UNCHANGED <<conn, inbound, clientSent, wire, rooms, heard>>

Older(a) == IF a > IdleTimeout THEN a ELSE a + 1

(* A second passes; the ticker's channel holds one tick.                   *)
SecondPasses ==
  /\ run # "new"
  /\ age' = [f \in DOMAIN age |-> Older(age[f])]
  /\ heard' = Older(heard)
  /\ tickReady' = TRUE
  /\ UNCHANGED <<procs, life, queues, reason, peer, rooms>>

-----------------------------------------------------------------------------
Owner == OwnerDone \/ OwnerEvent \/ OwnerTick \/ CloseStep("owner")
Reader == ReaderSelect \/ ReadData \/ ReadFails \/ ReaderReports
Writer == WriterDone \/ WriterTake \/ WriteFails \/ WriterReports
Subscriber == SubscriberDone \/ SubscriberTake \/ SubscriberForward

Next == \/ RunStart \/ RunSendAssign \/ RunReturn
        \/ Owner
        \/ Reader
        \/ Writer \/ WriteSucceeds
        \/ Subscriber
        \/ \E k \in ForceCaller : ForceClose(k) \/ CloseStep(k)
        \/ Close
        \/ \E f \in ClientFrame : ClientSends(f)
        \/ Break
        \/ RoomPublishes
        \/ SecondPasses

Spec == Init /\ [][Next]_vars

(* Goroutines run, time passes, and a select with several ready cases      *)
(* picks at random, so none of them is passed over for ever.  A Write may  *)
(* hang as long as its transport and ctx live: its success is not fair.    *)
FairSpec ==
  /\ Spec
  /\ WF_vars(RunStart) /\ WF_vars(RunSendAssign) /\ WF_vars(RunReturn)
  /\ WF_vars(Owner) /\ SF_vars(OwnerDone) /\ SF_vars(OwnerTick)
  /\ WF_vars(Reader)
  /\ WF_vars(Writer) /\ SF_vars(WriterDone)
  /\ WF_vars(Subscriber) /\ SF_vars(SubscriberDone)
  /\ \A k \in ForceCaller : WF_vars(CloseStep(k))
  /\ WF_vars(SecondPasses)

-----------------------------------------------------------------------------
(* Properties                                                              *)

(* However many callers race in close(), the transport is closed once, and *)
(* only after the session, the context and the closed flag, in that order, *)
(* so that no loop still takes the endpoint for alive when it sees the     *)
(* connection go (close).                                                  *)
CloseProtocol == /\ closes <= 1
                 /\ closes = 1 => sessionClosed
                 /\ sessionClosed => ctxDone
                 /\ ctxDone => closed

(* Run does not return and leave the transport open: it is closed, or a    *)
(* caller of ForceClose has cancelled ctx and is about to close it.  The   *)
(* accept handler forgets the endpoint then, and nobody else would close   *)
(* the connection (Run, close, ServeHTTP).                                 *)
TransportNotLeft ==
  run = "returned" => \/ conn = "closed"
                      \/ \E k \in ForceCaller : closing[k] \in {"session", "connection"}

(* What the client receives is the assign message and then frames in the   *)
(* order the room published them, none twice, although two goroutines feed *)
(* writeCh; so there is always room for the assign message and Run does    *)
(* not fail (Run, subscribeLoop, writeLoop).                               *)
AssignThenFramesInOrder ==
  /\ run # "failed"
  /\ wire # <<>> => wire[1] = Assign
  /\ \A i, j \in 1..Len(wire) : i < j => wire[i] < wire[j]

(* Before place i of what was published on a topic there is a join with no *)
(* leave after it.                                                         *)
JoinedBefore(topic, i) ==
  \E j \in 1..(i - 1) : topic[j] = "join" /\ \A k \in j..(i - 1) : topic[k] # "leave"

(* However the client moves between rooms, repeats its joins and leaves    *)
(* and sends data in between, what the endpoint publishes on the topic of  *)
(* a room, data or a leave, comes after a join there that no leave has     *)
(* ended; and the empty room has no topic (handleData,                     *)
(* handleControlMessage).                                                  *)
SpeaksOnlyWhereJoined ==
  \A r \in Room \cup {NoRoom} : \A i \in 1..Len(topics[r]) :
    topics[r][i] # "join" => JoinedBefore(topics[r], i)

(* The messages on their way to the client: the one writeLoop writes, then *)
(* writeCh, then the one subscribeLoop holds, then its subscription.       *)
Down == (IF writer = "writing" THEN <<writing>> ELSE <<>>) \o writeCh
        \o (IF subscriber = "forwarding" THEN <<forwarding>> ELSE <<>>) \o msgCh

AsLink == INSTANCE Link WITH
            Mail   <- 1..MaxFrames,
            run    <- IF run = "returned" THEN "ended"
                      ELSE IF run = "waiting" THEN "live" ELSE "new",
            up     <- inbound,
            down   <- Down

(* Four goroutines, two queues and a close() in pieces implement the link  *)
(* of Link: what the rest of the server may rely on.                       *)
ImplementsLink == AsLink!Spec

(* Once closed, by whomever, the endpoint comes to an end: all four loops  *)
(* finish, even if blocked on a full ctrlCh or in a hanging Read or Write, *)
(* and Run returns.                                                        *)
ClosedEnds == closed ~> (run = "returned")

(* A broken transport does not leave the endpoint behind: flooded by the   *)
(* reader's errors, the owner still gets to its idle check.                *)
BrokenEnds == (conn = "broken" /\ run # "new") ~> (run = "returned")

(* docs/adr/ADR-005-per-connection-manage-exeption.md:7: reads touch the   *)
(* session directly.  A session is not closed as read-idle while frames    *)
(* are being read from it.                                                 *)
ReadKeepsAlive ==
  [][reason = {} /\ "read" \in reason' => heard > IdleTimeout]_vars

(* docs/progress.md:90: roomID == "" is "not joined".  An endpoint with no *)
(* room has left every room that it joined.                                *)
RoomIDTellsMembership ==
  roomID = NoRoom => \A r \in Room : ~JoinedBefore(topics[r], Len(topics[r]) + 1)
=============================================================================
