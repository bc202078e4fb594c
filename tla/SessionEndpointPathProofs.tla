---------------------- MODULE SessionEndpointPathProofs ----------------------
(* Theorems about SessionEndpoint as the client and the rooms see it, for  *)
(* every capacity and any number of frames: the types, the order of what   *)
(* the client is sent, and that the endpoint implements Link.              *)
EXTENDS SessionEndpointProofs, SequenceTheorems

USE EndpointAssumption DEF Closer, Age

-----------------------------------------------------------------------------
(* Types                                                                   *)

Payload   == 0..MaxFrames

(* A queue that is not full takes one more.                                *)
LEMMA Grows ==
  ASSUME NEW S, NEW q \in Seq(S), NEW e \in S, NEW n \in Nat, Len(q) < n
  PROVE  Append(q, e) \in Seq(S) /\ Len(Append(q, e)) <= n
<1>1. Len(q) \in Nat
  OBVIOUS
<1> QED
  BY <1>1, AppendProperties

(* One that is not empty gives its first up.                               *)
LEMMA Shrinks ==
  ASSUME NEW S, NEW q \in Seq(S), NEW n \in Nat, q # <<>>, Len(q) <= n
  PROVE  Head(q) \in S /\ Tail(q) \in Seq(S) /\ Len(Tail(q)) <= n
<1>1. Len(q) \in Nat
  OBVIOUS
<1> QED
  BY <1>1, HeadTailProperties

(* TypeOK by the groups of variables that steps leave alone.               *)
TypedProcs ==
  /\ run \in {"new", "sending", "waiting", "returned", "failed"}
  /\ owner \in {"off", "select", "done"}
  /\ reader \in {"off", "select", "reading", "reporting", "done"}
  /\ writer \in {"off", "select", "writing", "reporting", "done"}
  /\ subscriber \in {"off", "select", "forwarding", "done"}
  /\ closing \in [Closer -> {"no", "cancel", "session", "connection", "done"}]
TypedLife == /\ closed \in BOOLEAN /\ ctxDone \in BOOLEAN /\ sessionClosed \in BOOLEAN
             /\ closes \in Nat
TypedQueues ==
  /\ ctrlCh \in Seq({"close", "readError", "writeError"}) /\ Len(ctrlCh) <= CtrlCap
  /\ writeCh \in Seq(0..MaxFrames) /\ Len(writeCh) <= WriteCap
  /\ msgCh \in Seq(1..MaxFrames) /\ Len(msgCh) <= MsgCap
  /\ writing \in 0..MaxFrames /\ forwarding \in 0..MaxFrames
TypedIdle == /\ age \in [read : Age, write : Age, pong : Age]
             /\ tickReady \in BOOLEAN /\ reason \subseteq {"read", "write", "pong"}
             /\ heard \in Age
TypedPeer == /\ conn \in {"open", "broken", "closed"} /\ inbound \in Seq(ClientFrame)
             /\ clientSent \in 0..MaxClient /\ published \in 0..MaxFrames
             /\ wire \in Seq(0..MaxFrames)
TypedRooms == /\ roomID \in Room \cup {NoRoom}
              /\ topics \in Topics

Groups == TypedProcs /\ TypedLife /\ TypedQueues /\ TypedIdle /\ TypedPeer /\ TypedRooms

LEMMA TypeGroups == (TypeOK => Groups) /\ (Groups' => TypeOK')
<1>1. TypeOK => Groups
  BY Zenon
  DEF TypeOK, Groups, TypedProcs, TypedLife, TypedQueues, TypedIdle, TypedPeer, TypedRooms
<1>2. Groups' => TypeOK'
  BY Zenon
  DEF TypeOK, Groups, TypedProcs, TypedLife, TypedQueues, TypedIdle, TypedPeer, TypedRooms
<1> QED
  BY <1>1, <1>2

LEMMA GroupsKept ==
  /\ TypedProcs /\ UNCHANGED procs => TypedProcs'
  /\ TypedLife /\ UNCHANGED life => TypedLife'
  /\ TypedQueues /\ UNCHANGED queues => TypedQueues'
  /\ TypedIdle /\ UNCHANGED <<idle, heard>> => TypedIdle'
  /\ TypedPeer /\ UNCHANGED peer => TypedPeer'
  /\ TypedRooms /\ UNCHANGED rooms => TypedRooms'
<1>1. TypedProcs /\ UNCHANGED procs => TypedProcs'
  BY Zenon DEF TypedProcs, procs
<1>2. TypedLife /\ UNCHANGED life => TypedLife'
  BY Zenon DEF TypedLife, life
<1>3. TypedQueues /\ UNCHANGED queues => TypedQueues'
  BY Zenon DEF TypedQueues, queues
<1>4. TypedIdle /\ UNCHANGED <<idle, heard>> => TypedIdle'
  BY Zenon DEF TypedIdle, idle
<1>5. TypedPeer /\ UNCHANGED peer => TypedPeer'
  BY Zenon DEF TypedPeer, peer
<1>6. TypedRooms /\ UNCHANGED rooms => TypedRooms'
  BY Zenon DEF TypedRooms, rooms
<1> QED
  BY <1>1, <1>2, <1>3, <1>4, <1>5, <1>6

LEMMA EndpointTypeInit == Init => TypeOK
<1> SUFFICES ASSUME Init PROVE TypeOK
  OBVIOUS
<1>1. closing \in [Closer -> {"no", "cancel", "session", "connection", "done"}]
  BY DEF Init
<1>2. age \in [read : Age, write : Age, pong : Age]
  <2>1. 0 \in Age
    OBVIOUS
  <2> QED
    BY <2>1 DEF Init
<1>3. topics \in Topics
  BY DEF Init, Topics
<1>4. /\ ctrlCh \in Seq({"close", "readError", "writeError"}) /\ writeCh \in Seq(0..MaxFrames)
      /\ msgCh \in Seq(1..MaxFrames) /\ inbound \in Seq(ClientFrame)
      /\ wire \in Seq(0..MaxFrames)
  BY EmptySeq DEF Init
<1>5. Len(ctrlCh) <= CtrlCap /\ Len(writeCh) <= WriteCap /\ Len(msgCh) <= MsgCap
  BY EmptySeq DEF Init
<1>6. /\ closed \in BOOLEAN /\ ctxDone \in BOOLEAN /\ sessionClosed \in BOOLEAN
      /\ tickReady \in BOOLEAN
  BY DEF Init
<1>7. /\ closes \in Nat /\ writing \in 0..MaxFrames /\ forwarding \in 0..MaxFrames
      /\ clientSent \in 0..MaxClient /\ published \in 0..MaxFrames /\ heard \in Age
  BY DEF Init
<1>8. /\ roomID \in Room \cup {NoRoom} /\ reason \subseteq {"read", "write", "pong"}
      /\ conn \in {"open", "broken", "closed"}
  BY DEF Init
<1>9. /\ run = "new" /\ owner = "off" /\ reader = "off"
      /\ writer = "off" /\ subscriber = "off"
  BY DEF Init
<1> QED
  BY <1>1, <1>2, <1>3, <1>4, <1>5, <1>6, <1>7, <1>8, <1>9, Zenon DEF TypeOK

(* Run                                                                     *)
LEMMA RunTyped ==
  ASSUME TypeOK, RunStart \/ RunSendAssign \/ RunReturn
  PROVE  TypeOK'
<1>1. CASE RunStart
  BY <1>1 DEF TypeOK, RunStart, life, queues, idle, peer, rooms
<1>2. CASE RunSendAssign
  <2>1. /\ writeCh \in Seq(0..MaxFrames) /\ Len(writeCh) <= WriteCap
        /\ Assign \in 0..MaxFrames
    BY DEF TypeOK, Assign
  <2>2. \/ writeCh' = Append(writeCh, Assign) /\ Len(writeCh) < WriteCap
        \/ writeCh' = writeCh
    BY <1>2 DEF RunSendAssign
  <2>3. writeCh' \in Seq(0..MaxFrames) /\ Len(writeCh') <= WriteCap
    BY <2>1, <2>2, Grows
  <2>4. run' \in {"waiting", "failed"}
    BY <1>2 DEF RunSendAssign
  <2>5. UNCHANGED <<owner, reader, writer, subscriber, closing, life, idle,
                    ctrlCh, msgCh, writing, forwarding, peer, rooms, heard>>
    BY <1>2 DEF RunSendAssign
  <2> QED
    BY <2>3, <2>4, <2>5 DEF TypeOK, life, idle, peer, rooms
<1>3. CASE RunReturn
  BY <1>3 DEF TypeOK, RunReturn, life, queues, idle, peer, rooms
<1> QED
  BY <1>1, <1>2, <1>3

(* close(), ForceClose and Close                                           *)
LEMMA CloseStepTyped ==
  ASSUME TypeOK, NEW k \in Closer, CloseStep(k)
  PROVE  TypeOK'
<1>1. closing' \in [Closer -> {"no", "cancel", "session", "connection", "done"}]
  BY DEF TypeOK, CloseStep
<1>2. ctxDone' \in BOOLEAN /\ sessionClosed' \in BOOLEAN
  BY DEF TypeOK, CloseStep
<1>3. /\ closes \in Nat /\ conn \in {"open", "broken", "closed"}
      /\ inbound \in Seq(ClientFrame) /\ <<>> \in Seq(ClientFrame)
  BY EmptySeq DEF TypeOK
<1>4. \/ closes' = closes /\ conn' = conn /\ inbound' = inbound
      \/ closes' = closes + 1 /\ conn' = "closed" /\ inbound' = <<>>
  BY DEF CloseStep
<1>5. /\ closes' \in Nat /\ conn' \in {"open", "broken", "closed"}
      /\ inbound' \in Seq(ClientFrame)
  <2>1. CASE closes' = closes /\ conn' = conn /\ inbound' = inbound
    BY <1>3, <2>1
  <2>2. CASE closes' = closes + 1 /\ conn' = "closed" /\ inbound' = <<>>
    <3>1. closes' \in Nat
      BY <1>3, <2>2
    <3> QED
      BY <1>3, <2>2, <3>1, Zenon
  <2> QED
    BY <1>4, <2>1, <2>2
<1>6. UNCHANGED <<run, owner, reader, writer, subscriber, closed, queues, idle,
                  clientSent, published, wire, rooms, heard>>
  BY DEF CloseStep
<1> QED
  BY <1>1, <1>2, <1>5, <1>6 DEF TypeOK, queues, idle, rooms

LEMMA ClosersTyped ==
  ASSUME TypeOK, Close \/ \E k \in ForceCaller : ForceClose(k)
  PROVE  TypeOK'
<1>1. CASE Close
  <2>1. ctrlCh \in Seq({"close", "readError", "writeError"}) /\ Len(ctrlCh) <= CtrlCap
    BY DEF TypeOK
  <2>2. ctrlCh' = Append(ctrlCh, "close") /\ Len(ctrlCh) < CtrlCap
    BY <1>1 DEF Close
  <2>3. ctrlCh' \in Seq({"close", "readError", "writeError"}) /\ Len(ctrlCh') <= CtrlCap
    BY <2>1, <2>2, Grows
  <2> QED
    BY <1>1, <2>3 DEF TypeOK, Close, procs, life, idle, peer, rooms
<1>2. ASSUME NEW k \in ForceCaller, ForceClose(k) PROVE TypeOK'
  BY <1>2 DEF TypeOK, ForceClose, EnterClose, queues, idle, peer, rooms
<1> QED
  BY <1>1, <1>2

(* ownerLoop                                                               *)
LEMMA OwnerTyped ==
  ASSUME TypeOK, Owner
  PROVE  TypeOK'
<1>1. CASE OwnerDone
  BY <1>1 DEF TypeOK, OwnerDone, life, queues, idle, peer, rooms
<1>2. CASE OwnerEvent
  <2>1. ctrlCh' \in Seq({"close", "readError", "writeError"}) /\ Len(ctrlCh') <= CtrlCap
    <3>1. /\ ctrlCh \in Seq({"close", "readError", "writeError"}) /\ Len(ctrlCh) <= CtrlCap
          /\ CtrlCap \in Nat
      BY DEF TypeOK
    <3>2. ctrlCh # <<>> /\ ctrlCh' = Tail(ctrlCh)
      BY <1>2 DEF OwnerEvent
    <3> QED
      BY ONLY <3>1, <3>2, Shrinks
  <2>2. /\ closed' \in BOOLEAN
        /\ closing' \in [Closer -> {"no", "cancel", "session", "connection", "done"}]
    BY <1>2 DEF TypeOK, OwnerEvent, EnterClose
  <2>3. TypedProcs'
    BY <1>2, <2>2, TypeGroups DEF Groups, TypedProcs, OwnerEvent
  <2>4. TypedLife'
    BY <1>2, <2>2, TypeGroups DEF Groups, TypedLife, OwnerEvent
  <2>5. TypedQueues'
    BY <1>2, <2>1, TypeGroups DEF Groups, TypedQueues, OwnerEvent
  <2>6. UNCHANGED <<idle, heard, peer, rooms>>
    BY <1>2 DEF OwnerEvent
  <2> QED
    BY <2>3, <2>4, <2>5, <2>6, TypeGroups, GroupsKept DEF Groups
<1>3. CASE OwnerTick
  <2>1. /\ closed' \in BOOLEAN
        /\ closing' \in [Closer -> {"no", "cancel", "session", "connection", "done"}]
    BY <1>3 DEF TypeOK, OwnerTick, EnterClose
  <2>2. reason' \subseteq {"read", "write", "pong"}
    BY <1>3 DEF TypeOK, OwnerTick, IdleReasons
  <2>3. tickReady' \in BOOLEAN
    BY <1>3 DEF OwnerTick
  <2> QED
    BY <1>3, <2>1, <2>2, <2>3 DEF TypeOK, OwnerTick, queues, peer, rooms
<1>4. CASE CloseStep("owner")
  BY <1>4, CloseStepTyped
<1> QED
  BY <1>1, <1>2, <1>3, <1>4 DEF Owner

(* sendCtrlEvent                                                           *)
LEMMA ReportTyped ==
  ASSUME TypeOK, NEW e \in {"readError", "writeError"},
         \/ ctrlCh' = Append(ctrlCh, e) /\ Len(ctrlCh) < CtrlCap
         \/ ctrlCh' = ctrlCh
  PROVE  ctrlCh' \in Seq({"close", "readError", "writeError"}) /\ Len(ctrlCh') <= CtrlCap
<1>1. ctrlCh \in Seq({"close", "readError", "writeError"}) /\ Len(ctrlCh) <= CtrlCap
  BY DEF TypeOK
<1> QED
  BY <1>1, Grows

(* readLoop                                                                *)
LEMMA HandleTypedRoom ==
  ASSUME TypeOK, NEW f \in ClientFrame, HandleData(f)
  PROVE  TypedRooms'
<1>1. f.room \in Room \cup {NoRoom}
  BY DEF Frame
<1>2. TypedRooms
  BY DEF TypeOK, TypedRooms
<1>3. ASSUME NEW room \in Room \cup {NoRoom}, NEW kind \in {"join", "leave", "data"},
             Publish(room, kind), roomID' \in Room \cup {NoRoom}
      PROVE  TypedRooms'
  <2>1. topics[room] \in Seq({"join", "leave", "data"})
    BY <1>2 DEF TypedRooms, Topics
  <2>2. Append(topics[room], kind) \in Seq({"join", "leave", "data"})
    BY <2>1, AppendProperties
  <2> QED
    BY <1>2, <1>3, <2>2 DEF TypedRooms, Topics, Publish
<1>4. CASE HandleJoin(f.room)
  BY <1>1, <1>3, <1>4 DEF HandleJoin
<1>5. CASE HandleLeave \/ HandleForward \/ UNCHANGED rooms
  BY <1>2, <1>3, <1>5 DEF HandleLeave, HandleForward, rooms, TypedRooms
<1> QED
  BY <1>4, <1>5 DEF HandleData

LEMMA ReaderTyped ==
  ASSUME TypeOK, Reader
  PROVE  TypeOK'
<1>1. CASE ReaderSelect
  BY <1>1 DEF TypeOK, ReaderSelect, life, queues, idle, peer, rooms
<1>2. CASE ReadData
  <2>1. inbound' \in Seq(ClientFrame) /\ Head(inbound) \in ClientFrame
    BY <1>2, HeadTailProperties DEF TypeOK, ReadData
  <2>2. TypedProcs'
    BY <1>2, TypeGroups DEF Groups, TypedProcs, ReadData
  <2>3. TypedIdle'
    BY <1>2, TypeGroups DEF Groups, TypedIdle, ReadData, idle
  <2>4. TypedPeer'
    BY <1>2, <2>1, TypeGroups DEF Groups, TypedPeer, ReadData
  <2>5. TypedRooms'
    BY <1>2, <2>1, HandleTypedRoom DEF ReadData
  <2>6. UNCHANGED <<life, queues>>
    BY <1>2 DEF ReadData
  <2> QED
    BY <2>2, <2>3, <2>4, <2>5, <2>6, TypeGroups, GroupsKept DEF Groups
<1>3. CASE ReadFails
  BY <1>3 DEF TypeOK, ReadFails, life, queues, idle, peer, rooms
<1>4. CASE ReaderReports
  <2>1. \/ ctrlCh' = Append(ctrlCh, "readError") /\ Len(ctrlCh) < CtrlCap
        \/ ctrlCh' = ctrlCh
    BY <1>4 DEF ReaderReports
  <2>2. ctrlCh' \in Seq({"close", "readError", "writeError"}) /\ Len(ctrlCh') <= CtrlCap
    BY <2>1, ReportTyped
  <2> QED
    BY <1>4, <2>2 DEF TypeOK, ReaderReports, life, idle, peer, rooms
<1> QED
  BY <1>1, <1>2, <1>3, <1>4 DEF Reader

(* writeLoop                                                               *)
LEMMA WriterTyped ==
  ASSUME TypeOK, Writer \/ WriteSucceeds
  PROVE  TypeOK'
<1>1. CASE WriterDone
  BY <1>1 DEF TypeOK, WriterDone, life, queues, idle, peer, rooms
<1>2. CASE WriterTake
  <2>1. /\ writeCh' \in Seq(0..MaxFrames) /\ Len(writeCh') <= WriteCap
        /\ writing' \in 0..MaxFrames
    <3>1. writeCh \in Seq(0..MaxFrames) /\ Len(writeCh) <= WriteCap /\ WriteCap \in Nat
      BY DEF TypeOK
    <3>2. writeCh # <<>> /\ writeCh' = Tail(writeCh) /\ writing' = Head(writeCh)
      BY <1>2 DEF WriterTake
    <3> QED
      BY ONLY <3>1, <3>2, Shrinks
  <2>2. writer' = "writing"
    BY <1>2 DEF WriterTake
  <2>3. UNCHANGED <<run, owner, reader, subscriber, closing, life, idle,
                    ctrlCh, msgCh, forwarding, peer, rooms, heard>>
    BY <1>2 DEF WriterTake
  <2> QED
    BY <2>1, <2>2, <2>3 DEF TypeOK, life, idle, peer, rooms
<1>3. CASE WriteSucceeds
  <2>1. wire' \in Seq(0..MaxFrames)
    BY <1>3, AppendProperties DEF TypeOK, WriteSucceeds
  <2>2. age' \in [read : Age, write : Age, pong : Age]
    <3>1. 0 \in Age
      OBVIOUS
    <3>2. age \in [read : Age, write : Age, pong : Age] /\ age' = [age EXCEPT !.write = 0]
      BY <1>3 DEF TypeOK, WriteSucceeds
    <3> QED
      BY <3>1, <3>2
  <2>3. writing' \in 0..MaxFrames /\ writer' = "select"
    BY <1>3 DEF WriteSucceeds
  <2>4. UNCHANGED <<run, owner, reader, subscriber, closing, life, tickReady, reason,
                    ctrlCh, writeCh, msgCh, forwarding, rooms, heard,
                    conn, inbound, clientSent, published>>
    BY <1>3 DEF WriteSucceeds
  <2>5. TypedProcs'
    BY <2>3, <2>4, TypeGroups DEF Groups, TypedProcs
  <2>6. TypedQueues'
    BY <2>3, <2>4, TypeGroups DEF Groups, TypedQueues
  <2>7. TypedIdle'
    BY <2>2, <2>4, TypeGroups DEF Groups, TypedIdle
  <2>8. TypedPeer'
    BY <2>1, <2>4, TypeGroups DEF Groups, TypedPeer
  <2>9. UNCHANGED <<life, rooms>>
    BY <2>4 DEF life
  <2> QED
    BY <2>5, <2>6, <2>7, <2>8, <2>9, TypeGroups, GroupsKept DEF Groups
<1>4. CASE WriteFails
  BY <1>4 DEF TypeOK, WriteFails, life, idle, peer, rooms
<1>5. CASE WriterReports
  <2>1. \/ ctrlCh' = Append(ctrlCh, "writeError") /\ Len(ctrlCh) < CtrlCap
        \/ ctrlCh' = ctrlCh
    BY <1>5 DEF WriterReports
  <2>2. ctrlCh' \in Seq({"close", "readError", "writeError"}) /\ Len(ctrlCh') <= CtrlCap
    BY <2>1, ReportTyped
  <2> QED
    BY <1>5, <2>2 DEF TypeOK, WriterReports, life, idle, peer, rooms
<1> QED
  BY <1>1, <1>2, <1>3, <1>4, <1>5 DEF Writer

(* subscribeLoop                                                           *)
LEMMA SubscriberTyped ==
  ASSUME TypeOK, Subscriber
  PROVE  TypeOK'
<1>1. CASE SubscriberDone
  BY <1>1 DEF TypeOK, SubscriberDone, life, queues, idle, peer, rooms
<1>2. CASE SubscriberTake
  <2>1. /\ msgCh' \in Seq(1..MaxFrames) /\ Len(msgCh') <= MsgCap
        /\ forwarding' \in 0..MaxFrames
    <3>1. msgCh \in Seq(1..MaxFrames) /\ Len(msgCh) <= MsgCap /\ MsgCap \in Nat
      BY DEF TypeOK
    <3>2. msgCh # <<>> /\ msgCh' = Tail(msgCh) /\ forwarding' = Head(msgCh)
      BY <1>2 DEF SubscriberTake
    <3>3. Head(msgCh) \in 1..MaxFrames /\ Tail(msgCh) \in Seq(1..MaxFrames)
          /\ Len(Tail(msgCh)) <= MsgCap
      BY ONLY <3>1, <3>2, Shrinks
    <3> QED
      BY <3>2, <3>3
  <2>2. TypedProcs'
    BY <1>2, TypeGroups DEF Groups, TypedProcs, SubscriberTake
  <2>3. TypedQueues'
    BY <1>2, <2>1, TypeGroups DEF Groups, TypedQueues, SubscriberTake
  <2>4. UNCHANGED <<life, idle, peer, rooms, heard>>
    BY <1>2 DEF SubscriberTake
  <2> QED
    BY <2>2, <2>3, <2>4, TypeGroups, GroupsKept DEF Groups
<1>3. CASE SubscriberForward
  <2>1. writeCh' \in Seq(0..MaxFrames) /\ Len(writeCh') <= WriteCap
    BY <1>3, Grows DEF TypeOK, SubscriberForward
  <2>2. TypedProcs'
    BY <1>3, TypeGroups DEF Groups, TypedProcs, SubscriberForward
  <2>3. TypedQueues'
    BY <1>3, <2>1, TypeGroups DEF Groups, TypedQueues, SubscriberForward
  <2>4. UNCHANGED <<life, idle, peer, rooms, heard>>
    BY <1>3 DEF SubscriberForward
  <2> QED
    BY <2>2, <2>3, <2>4, TypeGroups, GroupsKept DEF Groups
<1> QED
  BY <1>1, <1>2, <1>3 DEF Subscriber

(* The peer, the transport, the room and the clock.                        *)
LEMMA AroundTyped ==
  ASSUME TypeOK,
         \/ \E f \in ClientFrame : ClientSends(f)
         \/ Break \/ RoomPublishes \/ SecondPasses
  PROVE  TypeOK'
<1>1. ASSUME NEW f \in ClientFrame, ClientSends(f) PROVE TypeOK'
  <2>1. inbound' \in Seq(ClientFrame)
    BY <1>1, AppendProperties DEF TypeOK, ClientSends
  <2>2. TypedPeer'
    BY <1>1, <2>1, TypeGroups DEF Groups, TypedPeer, ClientSends
  <2>3. UNCHANGED <<procs, life, queues, idle, heard, rooms>>
    BY <1>1 DEF ClientSends
  <2> QED
    BY <2>2, <2>3, TypeGroups, GroupsKept DEF Groups
<1>2. CASE Break
  BY <1>2 DEF TypeOK, Break, procs, life, queues, idle, rooms
<1>3. CASE RoomPublishes
  <2>1. /\ msgCh \in Seq(1..MaxFrames) /\ Len(msgCh) <= MsgCap
        /\ published \in 0..MaxFrames
    BY DEF TypeOK
  <2>2. /\ \/ msgCh' = Append(msgCh, published') /\ Len(msgCh) < MsgCap
           \/ msgCh' = msgCh
        /\ published < MaxFrames /\ published' = published + 1
    BY <1>3 DEF RoomPublishes
  <2>3. published' \in 1..MaxFrames
    BY <2>1, <2>2
  <2>4. msgCh' \in Seq(1..MaxFrames) /\ Len(msgCh') <= MsgCap
    BY <2>1, <2>2, <2>3, Grows
  <2>5. UNCHANGED <<procs, life, ctrlCh, writeCh, writing, forwarding, idle,
                    conn, inbound, clientSent, wire, rooms, heard>>
    BY <1>3 DEF RoomPublishes
  <2>6. TypedQueues'
    BY <2>4, <2>5, TypeGroups DEF Groups, TypedQueues
  <2>7. TypedPeer'
    BY <2>3, <2>5, TypeGroups DEF Groups, TypedPeer
  <2> QED
    BY <2>5, <2>6, <2>7, TypeGroups, GroupsKept DEF Groups
<1>4. CASE SecondPasses
  <2>1. \A a \in Age : Older(a) \in Age
    BY DEF Older
  <2>2. age' \in [read : Age, write : Age, pong : Age] /\ heard' \in Age
    <3>1. age' = [f \in DOMAIN age |-> Older(age[f])] /\ heard' = Older(heard)
      BY <1>4 DEF SecondPasses
    <3>2. age \in [read : Age, write : Age, pong : Age] /\ heard \in Age
      BY DEF TypeOK
    <3> HIDE DEF Age
    <3> QED
      BY <2>1, <3>1, <3>2
  <2>3. tickReady' \in BOOLEAN
    BY <1>4 DEF SecondPasses
  <2>4. UNCHANGED <<procs, life, queues, reason, peer, rooms>>
    BY <1>4 DEF SecondPasses
  <2>5. TypedIdle'
    BY <2>2, <2>3, <2>4, TypeGroups DEF Groups, TypedIdle
  <2>6. UNCHANGED <<procs, life, queues, peer, rooms>>
    BY <2>4 DEF life
  <2> QED
    BY <2>5, <2>6, TypeGroups, GroupsKept DEF Groups
<1> QED
  BY <1>1, <1>2, <1>3, <1>4

LEMMA EndpointTypeNext == TypeOK /\ [Next]_vars => TypeOK'
<1> SUFFICES ASSUME TypeOK, [Next]_vars PROVE TypeOK'
  OBVIOUS
<1>1. CASE RunStart \/ RunSendAssign \/ RunReturn
  BY <1>1, RunTyped
<1>2. CASE Owner
  BY <1>2, OwnerTyped
<1>3. CASE Reader
  BY <1>3, ReaderTyped
<1>4. CASE Writer \/ WriteSucceeds
  BY <1>4, WriterTyped
<1>5. CASE Subscriber
  BY <1>5, SubscriberTyped
<1>6. CASE \E k \in ForceCaller : CloseStep(k)
  BY <1>6, CloseStepTyped
<1>7. CASE Close \/ \E k \in ForceCaller : ForceClose(k)
  BY <1>7, ClosersTyped
<1>8. CASE \/ \E f \in ClientFrame : ClientSends(f)
           \/ Break \/ RoomPublishes \/ SecondPasses
  BY <1>8, AroundTyped
<1>9. CASE UNCHANGED vars
  BY <1>9 DEF TypeOK, vars, procs, life, queues, idle, peer, rooms
<1> QED
  BY <1>1, <1>2, <1>3, <1>4, <1>5, <1>6, <1>7, <1>8, <1>9 DEF Next

(* Every reachable state has its types: no queue is ever beyond its        *)
(* capacity and no time stamp or room ID out of range.                     *)
THEOREM EndpointTypeCorrect == Spec => []TypeOK
<1> QED
  BY EndpointTypeInit, EndpointTypeNext, PTL DEF Spec

-----------------------------------------------------------------------------
(* Sequences                                                               *)

LEMMA One ==
  ASSUME NEW S, NEW e \in S
  PROVE  <<e>> \in Seq(S) /\ Len(<<e>>) = 1 /\ <<e>>[1] = e
  OBVIOUS

LEMMA Joined ==
  ASSUME NEW S, NEW x \in Seq(S), NEW y \in Seq(S)
  PROVE  /\ x \o y \in Seq(S) /\ Len(x \o y) = Len(x) + Len(y)
         /\ \A i \in 1..Len(x) : (x \o y)[i] = x[i]
         /\ \A i \in 1..Len(y) : (x \o y)[Len(x) + i] = y[i]
<1> DEFINE z == x \o y
<1>1. Len(x) \in Nat /\ Len(y) \in Nat
  OBVIOUS
<1>2. /\ z \in Seq(S) /\ Len(z) = Len(x) + Len(y)
      /\ \A i \in 1..Len(x) + Len(y) : z[i] = IF i <= Len(x) THEN x[i] ELSE y[i - Len(x)]
  BY ConcatProperties
<1> HIDE DEF z
<1>3. \A i \in 1..Len(x) : z[i] = x[i]
  BY <1>1, <1>2
<1>4. ASSUME NEW i \in 1..Len(y) PROVE z[Len(x) + i] = y[i]
  <2>1. /\ Len(x) + i \in 1..Len(x) + Len(y) /\ ~(Len(x) + i <= Len(x))
        /\ Len(x) + i - Len(x) = i
    BY <1>1
  <2> QED
    BY <1>2, <2>1
<1> QED
  BY <1>2, <1>3, <1>4 DEF z

LEMMA HeadAndTail ==
  ASSUME NEW S, NEW q \in Seq(S), q # <<>>
  PROVE  q = <<Head(q)>> \o Tail(q)
<1>1. /\ Head(q) \in S /\ Tail(q) \in Seq(S) /\ Len(Tail(q)) = Len(q) - 1
      /\ Head(q) = q[1]
      /\ \A i \in 1..Len(Tail(q)) : Tail(q)[i] = q[i + 1]
  BY HeadTailProperties
<1> DEFINE h == <<Head(q)>>
           t == Tail(q)
           z == h \o t
<1>2. h \in Seq(S) /\ Len(h) = 1 /\ h[1] = q[1] /\ t \in Seq(S)
  BY <1>1, One
<1>3. Len(q) \in Nat /\ Len(t) = Len(q) - 1
  BY <1>1
<1>4. \A i \in 1..Len(t) : t[i] = q[i + 1]
  BY <1>1
<1> HIDE DEF h, t
<1>5. /\ z \in Seq(S) /\ Len(z) = Len(h) + Len(t)
      /\ \A i \in 1..Len(h) : z[i] = h[i]
      /\ \A i \in 1..Len(t) : z[Len(h) + i] = t[i]
  <2>1. h \in Seq(S) /\ t \in Seq(S)
    BY <1>2
  <2> QED
    BY ONLY <2>1, Joined
<1> HIDE DEF z
<1>6. ASSUME NEW i \in 1..Len(q) PROVE q[i] = z[i]
  <2>1. CASE i = 1
    BY <1>2, <1>5, <2>1
  <2>2. CASE i # 1
    <3>1. i - 1 \in 1..Len(t) /\ i - 1 + 1 = i /\ 1 + (i - 1) = i
      BY <1>3, <2>2
    <3>2. z[Len(h) + (i - 1)] = t[i - 1] /\ t[i - 1] = q[i - 1 + 1]
      BY <1>4, <1>5, <3>1
    <3> QED
      BY <1>2, <3>1, <3>2
  <2> QED
    BY <2>1, <2>2
<1>7. Len(q) = Len(z)
  BY <1>2, <1>3, <1>5
<1>8. q = z
  BY <1>5, <1>6, <1>7, SeqEqual
<1> QED
  BY <1>8 DEF h, t, z

(* x, then e, then y                                                       *)
LEMMA Between ==
  ASSUME NEW S, NEW x \in Seq(S), NEW e \in S, NEW y \in Seq(S)
  PROVE  LET z == x \o <<e>> \o y
         IN  /\ z \in Seq(S) /\ Len(z) = Len(x) + 1 + Len(y)
             /\ \A i \in 1..Len(x) : z[i] = x[i]
             /\ z[Len(x) + 1] = e
             /\ \A i \in 1..Len(y) : z[Len(x) + 1 + i] = y[i]
<1> DEFINE o == <<e>>
           w == x \o o
           z == w \o y
<1>1. Len(x) \in Nat /\ Len(y) \in Nat
  OBVIOUS
<1>2. o \in Seq(S) /\ Len(o) = 1 /\ o[1] = e
  BY One
<1> HIDE DEF o
<1>3. /\ w \in Seq(S) /\ Len(w) = Len(x) + 1
      /\ \A i \in 1..Len(x) : w[i] = x[i]
      /\ w[Len(x) + 1] = e
  <2>1. 1 \in 1..Len(o) /\ o \in Seq(S)
    BY <1>2
  <2>2. /\ w \in Seq(S) /\ Len(w) = Len(x) + Len(o)
        /\ \A i \in 1..Len(x) : w[i] = x[i]
        /\ \A i \in 1..Len(o) : w[Len(x) + i] = o[i]
    BY ONLY <2>1, Joined
  <2> HIDE DEF w
  <2> QED
    BY <1>2, <2>1, <2>2
<1> HIDE DEF w
<1>4. /\ z \in Seq(S) /\ Len(z) = Len(w) + Len(y)
      /\ \A i \in 1..Len(w) : z[i] = w[i]
      /\ \A i \in 1..Len(y) : z[Len(w) + i] = y[i]
  <2>1. w \in Seq(S)
    BY <1>3
  <2> QED
    BY <2>1, Joined
<1> HIDE DEF z
<1>5. \A i \in 1..Len(x) : z[i] = x[i]
  BY <1>1, <1>3, <1>4
<1>6. z[Len(x) + 1] = e
  BY <1>1, <1>3, <1>4
<1>7. \A i \in 1..Len(y) : z[Len(x) + 1 + i] = y[i]
  BY <1>3, <1>4
<1>8. z \in Seq(S) /\ Len(z) = Len(x) + 1 + Len(y)
  BY <1>3, <1>4
<1> QED
  BY <1>5, <1>6, <1>7, <1>8 DEF o, w, z

LEMMA WithoutIs ==
  ASSUME NEW q, NEW i
  PROVE  AsLink!Without(q, i) = SubSeq(q, 1, i - 1) \o SubSeq(q, i + 1, Len(q))
  BY Zenon DEF AsLink!Without

(* What is left of x, e, y when e goes                                     *)
LEMMA WithoutMiddle ==
  ASSUME NEW S, NEW x \in Seq(S), NEW e \in S, NEW y \in Seq(S)
  PROVE  AsLink!Without(x \o <<e>> \o y, Len(x) + 1) = x \o y
<1> DEFINE z == x \o <<e>> \o y
           p == SubSeq(z, 1, (Len(x) + 1) - 1)
           r == SubSeq(z, (Len(x) + 1) + 1, Len(z))
<1>1. /\ z \in Seq(S) /\ Len(z) = Len(x) + 1 + Len(y)
      /\ \A i \in 1..Len(x) : z[i] = x[i]
      /\ \A i \in 1..Len(y) : z[Len(x) + 1 + i] = y[i]
  BY Between
<1>2. Len(x) \in Nat /\ Len(y) \in Nat
  OBVIOUS
<1> HIDE DEF z
<1>3. p = x
  <2>1. (Len(x) + 1) - 1 = Len(x)
    BY <1>2
  <2>2. \A i \in 1..Len(x) : z[i] \in S
    BY <1>1
  <2>3. /\ SubSeq(z, 1, Len(x)) \in Seq(S)
        /\ Len(SubSeq(z, 1, Len(x))) = Len(x)
        /\ \A i \in 1..Len(x) : SubSeq(z, 1, Len(x))[i] = z[i]
    BY <1>2, <2>2, SubSeqProperties
  <2> QED
    BY <1>1, <2>1, <2>3, SeqEqual
<1>4. r = y
  <2> DEFINE m == Len(x) + 1 + 1
  <2>1. m \in Int /\ Len(z) \in Int /\ Len(z) - m + 1 = Len(y)
    BY <1>1, <1>2
  <2>2. ASSUME NEW i \in m..Len(z) PROVE z[i] \in S
    BY <1>1, <1>2
  <2>3. /\ r \in Seq(S) /\ Len(r) = IF m <= Len(z) THEN Len(z) - m + 1 ELSE 0
        /\ \A i \in 1..Len(z) - m + 1 : r[i] = z[m + i - 1]
    BY <2>1, <2>2, SubSeqProperties
  <2>4. Len(r) = Len(y)
    BY <1>1, <1>2, <2>3
  <2>5. ASSUME NEW i \in 1..Len(y) PROVE r[i] = y[i]
    <3>1. m + i - 1 = Len(x) + 1 + i
      BY <1>2
    <3> QED
      BY <1>1, <2>1, <2>3, <3>1
  <2> QED
    BY <2>3, <2>4, <2>5, SeqEqual
<1>5. AsLink!Without(z, Len(x) + 1) = p \o r
  BY WithoutIs
<1>6. AsLink!Without(z, Len(x) + 1) = x \o y
  BY <1>3, <1>4, <1>5
<1> QED
  BY <1>6 DEF z

-----------------------------------------------------------------------------
(* What a step does to the messages on their way                           *)

(* Down, by its parts                                                      *)
Written == IF writer = "writing" THEN <<writing>> ELSE <<>>
Held    == IF subscriber = "forwarding" THEN <<forwarding>> ELSE <<>>

PartsTyped == /\ Written \in Seq(Payload) /\ writeCh \in Seq(Payload)
              /\ Held \in Seq(Payload) /\ msgCh \in Seq(Payload)
              /\ Down \in Seq(Payload) /\ wire \in Seq(Payload)
              /\ Down = ((Written \o writeCh) \o Held) \o msgCh

LEMMA PartsAreTyped == TypeOK => PartsTyped
<1> SUFFICES ASSUME TypeOK PROVE PartsTyped
  OBVIOUS
<1>1. writing \in Payload /\ forwarding \in Payload
  BY DEF TypeOK, Payload
<1>2. writeCh \in Seq(Payload) /\ wire \in Seq(Payload) /\ msgCh \in Seq(1..MaxFrames)
  BY DEF TypeOK, Payload
<1>3. 1..MaxFrames \subseteq Payload
  BY DEF Payload
<1>4. msgCh \in Seq(Payload)
  BY <1>2, <1>3, SeqMonotonic
<1>5. Written \in Seq(Payload) /\ Held \in Seq(Payload)
  BY <1>1, One, EmptySeq DEF Written, Held
<1>6. Down = ((Written \o writeCh) \o Held) \o msgCh
  BY DEF Down, Written, Held
<1>7. Written \o writeCh \in Seq(Payload)
  BY <1>2, <1>5, ConcatProperties
<1>8. (Written \o writeCh) \o Held \in Seq(Payload)
  BY <1>5, <1>7, ConcatProperties
<1>9. Down \in Seq(Payload)
  BY <1>4, <1>6, <1>8, ConcatProperties
<1> QED
  BY <1>2, <1>4, <1>5, <1>6, <1>9 DEF PartsTyped

(* The effects a step may have.                                            *)
Unmoved   == Down' = Down /\ wire' = wire /\ published' = published
Dropped   == /\ \E x, y \in Seq(Payload), e \in Payload :
                   Down = x \o <<e>> \o y /\ Down' = x \o y
             /\ wire' = wire /\ published' = published
Delivered == /\ writing \in Payload
             /\ Down = <<writing>> \o Down' /\ wire' = wire \o <<writing>>
             /\ published' = published
Fed       == /\ Down' = Down \/ Down' = Down \o <<published + 1>>
             /\ wire' = wire /\ published' = published + 1
Opened    == /\ Down = <<>> /\ Down' = <<Assign>>
             /\ wire = <<>> /\ wire' = wire /\ published' = published

(* An own frame, and so a join, takes the assign message on the wire.      *)
Quiet  == wire = <<>> => /\ published = 0
                         /\ \A r \in Room : topics[r] = <<>>
                         /\ \A i \in 1..Len(inbound) : ~inbound[i].own

(* Before Run has queued it there is nothing at all.                       *)
Before == run \in {"new", "sending"} =>
            /\ wire = <<>> /\ writeCh = <<>> /\ msgCh = <<>>
            /\ writer # "writing" /\ subscriber # "forwarding"

LEMMA PayloadAssoc ==
  \A x, y, z \in Seq(Payload) : (x \o y) \o z = x \o (y \o z)
<1> TAKE x, y, z \in Seq(Payload)
<1> QED
  BY ONLY ConcatAssociative

LEMMA TakeMovesNothing ==
  ASSUME PartsTyped, PartsTyped', WriterTake
  PROVE  Unmoved
<1>1. /\ Written = <<>> /\ Written' = <<Head(writeCh)>>
      /\ writeCh # <<>> /\ writeCh' = Tail(writeCh)
  BY DEF WriterTake, Written
<1>2. Held' = Held /\ msgCh' = msgCh /\ wire' = wire /\ published' = published
  BY DEF WriterTake, Held, peer
<1>3. Written \o writeCh = writeCh
  BY <1>1, ConcatEmptySeq DEF PartsTyped
<1>4. Written' \o writeCh' = writeCh
  BY <1>1, HeadAndTail DEF PartsTyped
<1> QED
  BY <1>2, <1>3, <1>4 DEF PartsTyped, Unmoved

LEMMA SubscriberTakeMovesNothing ==
  ASSUME PartsTyped, PartsTyped', SubscriberTake
  PROVE  Unmoved
<1> DEFINE x == Written \o writeCh
<1>1. /\ Held = <<>> /\ Held' = <<Head(msgCh)>>
      /\ msgCh # <<>> /\ msgCh' = Tail(msgCh)
  BY DEF SubscriberTake, Held
<1>2. /\ Written' = Written /\ writeCh' = writeCh
      /\ wire' = wire /\ published' = published
  BY DEF SubscriberTake, Written, peer
<1>3. x \in Seq(Payload)
  BY ConcatProperties DEF PartsTyped
<1>4. (x \o Held) \o msgCh = x \o msgCh
  BY <1>1, <1>3, ConcatEmptySeq
<1>5. (x \o Held') \o msgCh' = x \o (Held' \o msgCh')
  <2>1. Held' \in Seq(Payload) /\ msgCh' \in Seq(Payload)
    BY DEF PartsTyped
  <2> HIDE DEF x
  <2> QED
    BY ONLY <1>3, <2>1, PayloadAssoc
<1>6. Held' \o msgCh' = msgCh
  BY <1>1, HeadAndTail DEF PartsTyped
<1> QED
  BY <1>2, <1>4, <1>5, <1>6 DEF PartsTyped, Unmoved

LEMMA ForwardMovesOrDrops ==
  ASSUME TypeOK, PartsTyped, PartsTyped', SubscriberForward
  PROVE  Unmoved \/ Dropped
<1> DEFINE x == Written \o writeCh
<1>1. Held = <<forwarding>> /\ Held' = <<>> /\ forwarding \in Payload
  BY DEF SubscriberForward, Held, TypeOK, Payload
<1>2. /\ Written' = Written /\ msgCh' = msgCh
      /\ wire' = wire /\ published' = published
  BY DEF SubscriberForward, Written, peer
<1>3. x \in Seq(Payload)
  BY ConcatProperties DEF PartsTyped
<1>4. CASE writeCh' = Append(writeCh, forwarding)
  <2>1. writeCh' = writeCh \o Held
    BY <1>1, <1>4, AppendIsConcat DEF PartsTyped
  <2>2. Written' \o writeCh' = x \o Held
    <3>1. Written \in Seq(Payload) /\ writeCh \in Seq(Payload) /\ Held \in Seq(Payload)
      BY DEF PartsTyped
    <3>2. (Written \o writeCh) \o Held = Written \o (writeCh \o Held)
      BY ONLY <3>1, PayloadAssoc
    <3> QED
      BY <1>2, <2>1, <3>2
  <2>3. x \o Held \in Seq(Payload)
    BY <1>3, ConcatProperties DEF PartsTyped
  <2>4. (x \o Held) \o Held' = x \o Held
    BY <1>1, <2>3, ConcatEmptySeq
  <2>5. Down' = Down
    BY <1>2, <2>2, <2>4 DEF PartsTyped
  <2> QED
    BY <1>2, <2>5 DEF Unmoved
<1>5. CASE writeCh' = writeCh
  <2>1. x \o Held' = x
    BY <1>1, <1>3, ConcatEmptySeq
  <2>2. Down' = x \o msgCh
    BY <1>2, <1>5, <2>1 DEF PartsTyped
  <2>3. Down = x \o <<forwarding>> \o msgCh
    BY <1>1 DEF PartsTyped
  <2>4. msgCh \in Seq(Payload)
    BY DEF PartsTyped
  <2> HIDE DEF x
  <2> QED
    BY <1>1, <1>2, <1>3, <2>2, <2>3, <2>4 DEF Dropped
<1> QED
  BY <1>4, <1>5 DEF SubscriberForward

(* When the write is over, what was written is no longer on its way.       *)
LEMMA WrittenIsFirst ==
  ASSUME TypeOK, PartsTyped, PartsTyped', WriteSucceeds \/ WriteFails
  PROVE  /\ writing \in Payload /\ Down = <<writing>> \o Down'
         /\ published' = published
<1>1. /\ Written = <<writing>> /\ Written' = <<>> /\ writing \in Payload
      /\ writeCh' = writeCh /\ Held' = Held /\ msgCh' = msgCh
      /\ published' = published
  BY DEF WriteSucceeds, WriteFails, Written, Held, TypeOK, Payload, peer
<1>2. Written' \o writeCh' = writeCh
  BY <1>1, ConcatEmptySeq DEF PartsTyped
<1>3. Down' = (writeCh \o Held) \o msgCh
  BY <1>1, <1>2 DEF PartsTyped
<1>4. /\ Written \in Seq(Payload) /\ writeCh \in Seq(Payload)
      /\ Held \in Seq(Payload) /\ msgCh \in Seq(Payload)
  BY DEF PartsTyped
<1>5. writeCh \o Held \in Seq(Payload)
  BY <1>4, ConcatProperties
<1>6. \A t \in Seq(Payload) : (Written \o t) \o msgCh = Written \o (t \o msgCh)
  <2>1. Written \in Seq(Payload) /\ msgCh \in Seq(Payload)
    BY <1>4
  <2> QED
    BY ONLY <2>1, PayloadAssoc
<1>7. (Written \o writeCh) \o Held = Written \o (writeCh \o Held)
  BY ONLY <1>4, PayloadAssoc
<1>8. (Written \o (writeCh \o Held)) \o msgCh = Written \o ((writeCh \o Held) \o msgCh)
  BY ONLY <1>5, <1>6
<1> QED
  BY <1>1, <1>3, <1>7, <1>8 DEF PartsTyped

LEMMA WriteDelivers ==
  ASSUME TypeOK, PartsTyped, PartsTyped', WriteSucceeds
  PROVE  Delivered
<1>1. wire' = Append(wire, writing)
  BY DEF WriteSucceeds
<1>2. wire' = wire \o <<writing>>
  BY <1>1, WrittenIsFirst, AppendIsConcat DEF PartsTyped
<1> QED
  BY <1>2, WrittenIsFirst DEF Delivered

LEMMA FailedWriteDrops ==
  ASSUME TypeOK, PartsTyped, PartsTyped', WriteFails
  PROVE  Dropped
<1>1. writing \in Payload /\ Down = <<writing>> \o Down' /\ Down' \in Seq(Payload)
  BY WrittenIsFirst DEF PartsTyped
<1>2. <<>> \in Seq(Payload) /\ <<writing>> \in Seq(Payload)
  BY <1>1, One, EmptySeq
<1>3. <<>> \o <<writing>> = <<writing>> /\ <<>> \o Down' = Down'
  BY <1>1, <1>2, ConcatEmptySeq
<1>4. wire' = wire /\ published' = published
  BY DEF WriteFails, peer
<1>5. Down = <<>> \o <<writing>> \o Down' /\ Down' = <<>> \o Down'
  BY <1>1, <1>3
<1> QED
  BY <1>1, <1>2, <1>4, <1>5 DEF Dropped

LEMMA PublishFeeds ==
  ASSUME TypeOK, PartsTyped, PartsTyped', RoomPublishes
  PROVE  Fed
<1> DEFINE x == (Written \o writeCh) \o Held
<1>1. /\ Written' = Written /\ writeCh' = writeCh /\ Held' = Held
      /\ wire' = wire /\ published' = published + 1
  BY DEF RoomPublishes, Written, Held, procs
<1>2. published + 1 \in Payload
  BY DEF RoomPublishes, TypeOK, Payload
<1>3. x \in Seq(Payload)
  <2>1. Written \o writeCh \in Seq(Payload)
    BY ConcatProperties DEF PartsTyped
  <2> QED
    BY <2>1, ConcatProperties DEF PartsTyped
<1>4. CASE msgCh' = Append(msgCh, published + 1)
  <2>1. msgCh' = msgCh \o <<published + 1>> /\ <<published + 1>> \in Seq(Payload)
    BY <1>2, <1>4, One, AppendIsConcat DEF PartsTyped
  <2>2. x \o (msgCh \o <<published + 1>>) = (x \o msgCh) \o <<published + 1>>
    <3> DEFINE e == <<published + 1>>
    <3>1. msgCh \in Seq(Payload) /\ e \in Seq(Payload)
      BY <2>1 DEF PartsTyped
    <3> HIDE DEF e, x
    <3>2. (x \o msgCh) \o e = x \o (msgCh \o e)
      BY ONLY <1>3, <3>1, PayloadAssoc
    <3> QED
      BY <3>2 DEF e
  <2> QED
    BY <1>1, <2>1, <2>2 DEF PartsTyped, Fed
<1>5. CASE msgCh' = msgCh
  BY <1>1, <1>5 DEF PartsTyped, Fed
<1> QED
  BY <1>4, <1>5 DEF RoomPublishes

LEMMA AssignOpens ==
  ASSUME TypeOK, PartsTyped, PartsTyped', Before, RunSendAssign
  PROVE  Opened /\ run' = "waiting"
<1>1. /\ run = "sending" /\ wire = <<>> /\ writeCh = <<>> /\ msgCh = <<>>
      /\ Written = <<>> /\ Held = <<>>
  BY DEF RunSendAssign, Before, Written, Held
<1>2. Len(writeCh) < WriteCap
  BY <1>1
<1>3. run' = "waiting" /\ writeCh' = Append(writeCh, Assign)
  BY <1>2 DEF RunSendAssign
<1>4. /\ Written' = Written /\ Held' = Held /\ msgCh' = msgCh
      /\ wire' = wire /\ published' = published
  BY DEF RunSendAssign, Written, Held, peer
<1>5. <<>> \in Seq(Payload) /\ Assign \in Payload
  BY EmptySeq DEF Assign, Payload
<1>6. <<Assign>> \in Seq(Payload) /\ Append(<<>>, Assign) = <<>> \o <<Assign>>
  BY <1>5, One, AppendIsConcat
<1>7. /\ <<>> \o <<Assign>> = <<Assign>> /\ <<Assign>> \o <<>> = <<Assign>>
      /\ <<>> \o <<>> = <<>>
  BY <1>5, <1>6, ConcatEmptySeq
<1>8. Down = <<>>
  BY <1>1, <1>7 DEF PartsTyped
<1>9. Down' = <<Assign>>
  <2>1. writeCh' = <<Assign>>
    BY <1>1, <1>3, <1>6, <1>7
  <2>2. Down' = ((<<>> \o <<Assign>>) \o <<>>) \o <<>>
    BY <1>1, <1>4, <2>1 DEF PartsTyped
  <2> QED
    BY <1>7, <2>2
<1> QED
  BY <1>1, <1>3, <1>4, <1>8, <1>9 DEF Opened

LEMMA PartsStayTyped == TypeOK' => PartsTyped'
  BY PartsAreTyped, PTL

(* All the other steps leave those messages where they are.                *)
LEMMA OthersMoveNothing ==
  ASSUME Before,
         \/ RunStart \/ RunReturn \/ Owner \/ Reader
         \/ WriterDone \/ WriterReports \/ SubscriberDone
         \/ \E k \in ForceCaller : ForceClose(k) \/ CloseStep(k)
         \/ Close \/ (\E f \in ClientFrame : ClientSends(f))
         \/ Break \/ SecondPasses \/ UNCHANGED vars
  PROVE  Unmoved
<1> DEFINE Kept == UNCHANGED <<Written, writeCh, Held, msgCh, wire, published>>
<1>1. CASE RunStart
  <2>1. Kept
    BY <1>1 DEF RunStart, Before, Written, Held, queues, peer
  <2> QED
    BY <2>1 DEF Unmoved, Down, Written, Held
<1>2. CASE RunReturn
  BY <1>2 DEF RunReturn, Unmoved, Down, queues, peer
<1>3. CASE Owner
  <2>1. Kept
    BY <1>3 DEF Owner, OwnerDone, OwnerEvent, OwnerTick, CloseStep, Written, Held, queues, peer
  <2> QED
    BY <2>1 DEF Unmoved, Down, Written, Held
<1>4. CASE Reader
  <2>1. Kept
    BY <1>4 DEF Reader, ReaderSelect, ReadData, ReadFails, ReaderReports, Written, Held,
                queues, peer
  <2> QED
    BY <2>1 DEF Unmoved, Down, Written, Held
<1>5. CASE WriterDone \/ WriterReports
  <2>1. Kept
    BY <1>5 DEF WriterDone, WriterReports, Written, Held, queues, peer
  <2> QED
    BY <2>1 DEF Unmoved, Down, Written, Held
<1>6. CASE SubscriberDone
  <2>1. Kept
    BY <1>6 DEF SubscriberDone, Written, Held, queues, peer
  <2> QED
    BY <2>1 DEF Unmoved, Down, Written, Held
<1>7. ASSUME NEW k \in ForceCaller, ForceClose(k) \/ CloseStep(k) PROVE Unmoved
  <2>1. Kept
    BY <1>7 DEF ForceClose, CloseStep, Written, Held, queues, peer
  <2> QED
    BY <2>1 DEF Unmoved, Down, Written, Held
<1>8. CASE Close
  BY <1>8 DEF Close, Unmoved, Down, procs, peer
<1>9. ASSUME NEW f \in ClientFrame, ClientSends(f) PROVE Unmoved
  BY <1>9 DEF ClientSends, Unmoved, Down, procs, queues
<1>10. CASE Break \/ SecondPasses
  BY <1>10 DEF Break, SecondPasses, Unmoved, Down, procs, queues, peer
<1>11. CASE UNCHANGED vars
  BY <1>11 DEF vars, Unmoved, Down, procs, queues, peer
<1> QED
  BY <1>1, <1>2, <1>3, <1>4, <1>5, <1>6, <1>7, <1>8, <1>9, <1>10, <1>11

Effect == Unmoved \/ Dropped \/ Delivered \/ Fed \/ Opened

LEMMA EveryStepHasAnEffect ==
  ASSUME TypeOK, TypeOK', Before, [Next]_vars
  PROVE  Effect
<1>1. PartsTyped /\ PartsTyped'
  BY PartsAreTyped, PartsStayTyped
<1>2. CASE RunSendAssign
  BY <1>1, <1>2, AssignOpens DEF Effect
<1>3. CASE WriterTake
  BY <1>1, <1>3, TakeMovesNothing DEF Effect
<1>4. CASE WriteSucceeds
  BY <1>1, <1>4, WriteDelivers DEF Effect
<1>5. CASE WriteFails
  BY <1>1, <1>5, FailedWriteDrops DEF Effect
<1>6. CASE SubscriberTake
  BY <1>1, <1>6, SubscriberTakeMovesNothing DEF Effect
<1>7. CASE SubscriberForward
  BY <1>1, <1>7, ForwardMovesOrDrops DEF Effect
<1>8. CASE RoomPublishes
  BY <1>1, <1>8, PublishFeeds DEF Effect
<1>9. CASE \/ RunStart \/ RunReturn \/ Owner \/ Reader
           \/ WriterDone \/ WriterReports \/ SubscriberDone
           \/ \E k \in ForceCaller : ForceClose(k) \/ CloseStep(k)
           \/ Close \/ (\E f \in ClientFrame : ClientSends(f))
           \/ Break \/ SecondPasses \/ UNCHANGED vars
  BY <1>9, OthersMoveNothing DEF Effect
<1> QED
  BY <1>2, <1>3, <1>4, <1>5, <1>6, <1>7, <1>8, <1>9 DEF Next, Writer, Subscriber

-----------------------------------------------------------------------------
(* The order of the messages                                               *)

(* Numbers up to n, rising                                                 *)
Ordered(q, n) == /\ \A i \in 1..Len(q) : q[i] \in 0..n
                 /\ \A i, j \in 1..Len(q) : i < j => q[i] < q[j]

(* What the client was sent and then what is still to come.                *)
Line == wire \o Down

LEMMA OrderedFront ==
  ASSUME NEW n, NEW x \in Seq(Payload), NEW y \in Seq(Payload), Ordered(x \o y, n)
  PROVE  Ordered(x, n)
<1> DEFINE z == x \o y
<1>1. /\ Len(z) = Len(x) + Len(y) /\ Len(x) \in Nat /\ Len(y) \in Nat
      /\ \A i \in 1..Len(x) : z[i] = x[i]
  BY Joined
<1>2. Ordered(z, n)
  OBVIOUS
<1> HIDE DEF z
<1>3. 1..Len(x) \subseteq 1..Len(z)
  BY <1>1
<1> QED
  BY <1>1, <1>2, <1>3 DEF Ordered

LEMMA OrderedDrop ==
  ASSUME NEW n \in Nat, NEW x \in Seq(Payload), NEW e \in Payload, NEW y \in Seq(Payload),
         Ordered(x \o <<e>> \o y, n)
  PROVE  Ordered(x \o y, n)
<1> DEFINE z == x \o <<e>> \o y
           w == x \o y
           at(i) == IF i <= Len(x) THEN i ELSE i + 1
<1>1. /\ Len(z) = Len(x) + 1 + Len(y) /\ Len(x) \in Nat /\ Len(y) \in Nat
      /\ \A i \in 1..Len(x) : z[i] = x[i]
      /\ \A i \in 1..Len(y) : z[Len(x) + 1 + i] = y[i]
  BY Between
<1>2. /\ Len(w) = Len(x) + Len(y)
      /\ \A i \in 1..Len(x) : w[i] = x[i]
      /\ \A i \in 1..Len(y) : w[Len(x) + i] = y[i]
  BY Joined
<1>3. Ordered(z, n)
  OBVIOUS
<1> HIDE DEF z, w
<1>4. ASSUME NEW i \in 1..Len(w) PROVE at(i) \in 1..Len(z) /\ w[i] = z[at(i)]
  <2>1. CASE i <= Len(x)
    BY <1>1, <1>2, <2>1
  <2>2. CASE i > Len(x)
    <3>1. i - Len(x) \in 1..Len(y)
      BY <1>1, <1>2, <2>2
    <3>2. i = Len(x) + (i - Len(x)) /\ i + 1 = Len(x) + 1 + (i - Len(x))
      BY <1>1, <1>2
    <3> QED
      BY <1>1, <1>2, <2>2, <3>1, <3>2
  <2> QED
    BY <1>1, <1>2, <2>1, <2>2
<1>5. \A i, j \in 1..Len(w) : i < j => at(i) < at(j)
  BY <1>1, <1>2
<1> HIDE DEF at
<1>6. Ordered(w, n)
  BY <1>3, <1>4, <1>5 DEF Ordered
<1> QED
  BY <1>6 DEF w

LEMMA OrderedMore ==
  ASSUME NEW n \in Nat, NEW q \in Seq(Payload), n + 1 \in Payload, Ordered(q, n)
  PROVE  Ordered(q, n + 1) /\ Ordered(q \o <<n + 1>>, n + 1)
<1> DEFINE o == <<n + 1>>
           z == q \o o
<1>1. o \in Seq(Payload) /\ Len(o) = 1 /\ o[1] = n + 1
  BY One
<1> HIDE DEF o
<1>2. /\ Len(z) = Len(q) + 1 /\ Len(q) \in Nat
      /\ \A i \in 1..Len(q) : z[i] = q[i]
      /\ z[Len(q) + 1] = n + 1
  <2>1. 1 \in 1..Len(o) /\ Len(q) \in Nat
    BY <1>1
  <2>2. /\ Len(z) = Len(q) + Len(o)
        /\ \A i \in 1..Len(q) : z[i] = q[i]
        /\ \A i \in 1..Len(o) : z[Len(q) + i] = o[i]
    BY <1>1, Joined
  <2> HIDE DEF z
  <2> QED
    BY <1>1, <2>1, <2>2
<1> HIDE DEF z
<1>3. Ordered(q, n + 1)
  BY DEF Ordered
<1>4. \A i \in 1..Len(z) : i \in 1..Len(q) \/ i = Len(q) + 1
  BY <1>2
<1>5. \A i \in 1..Len(z) : z[i] \in 0..(n + 1)
  BY <1>2, <1>4 DEF Ordered
<1>6. ASSUME NEW i \in 1..Len(z), NEW j \in 1..Len(z), i < j PROVE z[i] < z[j]
  <2>1. i \in 1..Len(q) /\ z[i] = q[i] /\ q[i] \in 0..n
    BY <1>2, <1>4, <1>6 DEF Ordered
  <2>2. CASE j = Len(q) + 1
    BY <1>2, <2>1, <2>2
  <2>3. CASE j \in 1..Len(q)
    BY <1>2, <1>6, <2>1, <2>3 DEF Ordered
  <2> QED
    BY <1>4, <2>2, <2>3
<1>7. Ordered(z, n + 1)
  BY <1>5, <1>6 DEF Ordered
<1> QED
  BY <1>3, <1>7 DEF z, o

InOrder == Ordered(Line, published)
First   == wire # <<>> => wire[1] = Assign

LEMMA LineTyped == PartsTyped => Line \in Seq(Payload)
  BY ConcatProperties DEF PartsTyped, Line

(* Sending moves nothing but the border between sent and to come.          *)
LEMMA DeliveredKeepsLine ==
  ASSUME PartsTyped, PartsTyped', Delivered
  PROVE  Line' = Line
<1>1. PICK o \in Seq(Payload) : o = <<writing>>
  BY One DEF Delivered
<1>2. Down = o \o Down' /\ wire' = wire \o o
  BY <1>1 DEF Delivered
<1>3. PICK d \in Seq(Payload) : d = Down'
  BY DEF PartsTyped
<1>4. wire \in Seq(Payload)
  BY DEF PartsTyped
<1>5. (wire \o o) \o d = wire \o (o \o d)
  BY ONLY <1>1, <1>3, <1>4, PayloadAssoc
<1> QED
  BY <1>2, <1>3, <1>5 DEF Line

(* A message on its way, seen from the first one sent                      *)
LEMMA LineSplits ==
  ASSUME NEW w \in Seq(Payload), NEW x \in Seq(Payload), NEW e \in Payload,
         NEW y \in Seq(Payload)
  PROVE  /\ w \o (x \o <<e>> \o y) = (w \o x) \o <<e>> \o y
         /\ w \o (x \o y) = (w \o x) \o y
<1>1. (w \o x) \o y = w \o (x \o y)
  BY ONLY PayloadAssoc
<1>2. \A v \in Seq(Payload) : (w \o v) \o y = w \o (v \o y)
  BY ONLY PayloadAssoc
<1>3. \A o \in Seq(Payload) : (w \o x) \o o = w \o (x \o o)
  BY ONLY PayloadAssoc
<1>4. <<e>> \in Seq(Payload)
  BY One
<1>5. x \o <<e>> \in Seq(Payload)
  BY <1>4, ConcatProperties
<1>6. (w \o x) \o <<e>> = w \o (x \o <<e>>)
  BY ONLY <1>3, <1>4
<1>7. (w \o (x \o <<e>>)) \o y = w \o ((x \o <<e>>) \o y)
  BY ONLY <1>2, <1>5
<1> QED
  BY ONLY <1>1, <1>6, <1>7

LEMMA OrderKept ==
  ASSUME TypeOK, TypeOK', Quiet, InOrder, Effect
  PROVE  InOrder'
<1>1. PartsTyped /\ PartsTyped'
  BY PartsAreTyped, PartsStayTyped
<1>2. /\ published \in Nat /\ published' \in Payload
      /\ wire \in Seq(Payload) /\ Down \in Seq(Payload) /\ Line \in Seq(Payload)
  BY <1>1, LineTyped DEF TypeOK, Payload, PartsTyped
<1>3. CASE Unmoved
  BY <1>3 DEF Unmoved, InOrder, Line
<1>4. CASE Dropped
  <2>1. PICK x \in Seq(Payload), y \in Seq(Payload), e \in Payload :
           Down = x \o <<e>> \o y /\ Down' = x \o y
    BY <1>4 DEF Dropped
  <2>2. /\ wire \o (x \o <<e>> \o y) = (wire \o x) \o <<e>> \o y
        /\ wire \o (x \o y) = (wire \o x) \o y
    <3>1. wire \in Seq(Payload)
      BY <1>2
    <3> QED
      BY ONLY <3>1, LineSplits
  <2>3. PICK u \in Seq(Payload) : u = wire \o x
    BY <1>2, ConcatProperties
  <2>8. Line = u \o <<e>> \o y /\ Line' = u \o y
    BY <1>4, <2>1, <2>2, <2>3 DEF Line, Dropped
  <2>9. Ordered(u \o <<e>> \o y, published)
    BY <2>8 DEF InOrder
  <2>10. Ordered(u \o y, published)
    BY <1>2, <2>9, OrderedDrop
  <2> QED
    BY <1>4, <2>8, <2>10 DEF InOrder, Dropped
<1>5. CASE Delivered
  BY <1>1, <1>5, DeliveredKeepsLine DEF InOrder, Delivered
<1>6. CASE Fed
  <2>1. published' = published + 1 /\ published + 1 \in Payload
    BY <1>2, <1>6 DEF Fed
  <2>2. Ordered(Line, published + 1) /\ Ordered(Line \o <<published + 1>>, published + 1)
    BY <1>2, <2>1, OrderedMore DEF InOrder
  <2>3. PICK o \in Seq(Payload) : o = <<published + 1>>
    BY <2>1, One
  <2>4. (wire \o Down) \o o = wire \o (Down \o o)
    BY ONLY <1>2, <2>3, PayloadAssoc
  <2>5. Line' = Line \/ Line' = Line \o <<published + 1>>
    BY <1>6, <2>3, <2>4 DEF Line, Fed
  <2> QED
    BY <2>1, <2>2, <2>5 DEF InOrder
<1>7. CASE Opened
  <2>1. <<Assign>> \in Seq(Payload) /\ Len(<<Assign>>) = 1 /\ <<Assign>>[1] = Assign
    BY One DEF Assign, Payload
  <2>2. Line' = <<Assign>>
    BY <1>7, <2>1, ConcatEmptySeq DEF Line, Opened
  <2>3. Ordered(<<Assign>>, published)
    BY <1>2, <2>1 DEF Ordered, Assign
  <2> QED
    BY <1>7, <2>2, <2>3 DEF InOrder, Opened
<1> QED
  BY <1>3, <1>4, <1>5, <1>6, <1>7 DEF Effect

(* The first message that is sent was queued when nothing was published.   *)
LEMMA FirstKept ==
  ASSUME TypeOK, TypeOK', Quiet, InOrder, First, Effect
  PROVE  First'
<1>1. PartsTyped /\ PartsTyped'
  BY PartsAreTyped, PartsStayTyped
<1>2. CASE wire' = wire
  BY <1>2 DEF First, Assign
<1>3. CASE Delivered
  <2>1. /\ wire \in Seq(Payload) /\ Down' \in Seq(Payload) /\ writing \in Payload
        /\ Down = <<writing>> \o Down' /\ wire' = wire \o <<writing>>
    BY <1>1, <1>3 DEF PartsTyped, Delivered
  <2>2. PICK o \in Seq(Payload) : o = <<writing>> /\ Len(o) = 1 /\ o[1] = writing
    BY <2>1, One
  <2>3. CASE wire = <<>>
    <3>1. wire' = o
      BY <2>1, <2>2, <2>3, ConcatEmptySeq
    <3>2. PICK d \in Seq(Payload) : d = Down'
      BY <2>1
    <3>3. Len(o \o d) = 1 + Len(d) /\ Len(d) \in Nat /\ (o \o d)[1] = writing
      <4>1. 1 \in 1..Len(o)
        BY <2>2
      <4>2. Len(o \o d) = Len(o) + Len(d) /\ \A i \in 1..Len(o) : (o \o d)[i] = o[i]
        BY Joined
      <4>3. Len(d) \in Nat
        OBVIOUS
      <4> QED
        BY <2>2, <4>1, <4>2, <4>3
    <3>4. Line = o \o d
      <4>1. Line = <<>> \o Down /\ Down \in Seq(Payload)
        BY <1>1, <2>3 DEF Line, PartsTyped
      <4> QED
        BY <2>1, <2>2, <3>2, <4>1, ConcatEmptySeq
    <3>5. writing \in 0..published
      <4>1. 1 \in 1..Len(Line) /\ Line[1] = writing
        BY <3>3, <3>4
      <4> QED
        BY <4>1 DEF InOrder, Ordered
    <3>6. published = 0
      BY <2>3 DEF Quiet
    <3> QED
      BY <2>2, <3>1, <3>5, <3>6 DEF First, Assign
  <2>4. CASE wire # <<>>
    <3>1. 1 \in 1..Len(wire)
      BY <2>1, <2>4
    <3>2. (wire \o o)[1] = wire[1]
      BY <2>1, <3>1, Joined
    <3> QED
      BY <2>1, <2>2, <2>4, <3>2 DEF First, Assign
  <2> QED
    BY <2>3, <2>4
<1> QED
  BY <1>2, <1>3 DEF Effect, Unmoved, Dropped, Fed, Opened

-----------------------------------------------------------------------------
(* The inductive invariant                                                 *)

Ended == /\ run = "returned" => reader = "done"
         /\ owner = "done" => ctxDone

PathInv == Quiet /\ Before /\ Ended /\ InOrder /\ First /\ run # "failed"

LEMMA PathInit == Init => PathInv
<1> SUFFICES ASSUME Init PROVE PathInv
  OBVIOUS
<1>1. Quiet
  BY EmptySeq DEF Init, Quiet
<1>2. Before /\ Ended /\ run # "failed"
  BY DEF Init, Before, Ended
<1>3. InOrder /\ First
  <2>1. wire = <<>> /\ TypeOK
    BY EndpointTypeInit DEF Init
  <2>2. writer # "writing" /\ subscriber # "forwarding" /\ writeCh = <<>> /\ msgCh = <<>>
    BY DEF Init
  <2>3. PartsTyped /\ Written = <<>> /\ Held = <<>>
    BY <2>1, <2>2, PartsAreTyped DEF Written, Held
  <2>4. Line = <<>>
    BY <2>1, <2>2, <2>3, ConcatEmptySeq, EmptySeq DEF PartsTyped, Line
  <2>5. Len(Line) = 0
    BY <2>4, EmptySeq
  <2> QED
    BY <2>1, <2>5 DEF InOrder, First, Ordered
<1> QED
  BY <1>1, <1>2, <1>3 DEF PathInv

(* Until it has the assign message a client has no frame of its own to     *)
(* send, so no join can be read and nothing published.                     *)
LEMMA QuietKept ==
  ASSUME TypeOK, Quiet, [Next]_vars
  PROVE  Quiet'
<1> DEFINE Silent == UNCHANGED <<wire, published, topics, inbound>>
<1>1. CASE WriteSucceeds
  <2>1. wire' = Append(wire, writing) /\ wire \in Seq(Payload) /\ writing \in Payload
    BY <1>1 DEF WriteSucceeds, TypeOK, Payload
  <2>2. wire' # <<>>
    BY <2>1, AppendProperties
  <2> QED
    BY <2>2 DEF Quiet
<1>2. CASE ReadData
  <2>1. CASE wire = <<>>
    <3>1. /\ inbound \in Seq(ClientFrame) /\ inbound # <<>>
          /\ inbound' = Tail(inbound) /\ HandleData(Head(inbound))
      BY <1>2 DEF ReadData, TypeOK
    <3>2. /\ Len(inbound) \in Nat /\ 1 \in 1..Len(inbound) /\ Head(inbound) = inbound[1]
          /\ Len(inbound') = Len(inbound) - 1
          /\ \A i \in 1..Len(inbound') : inbound'[i] = inbound[i + 1]
      BY <3>1, HeadTailProperties
    <3>3. ~Head(inbound).own
      BY <2>1, <3>2 DEF Quiet
    <3>4. topics' = topics
      BY <3>1, <3>3 DEF HandleData, rooms
    <3>5. \A i \in 1..Len(inbound') : ~inbound'[i].own
      <4>1. \A i \in 1..Len(inbound') : i + 1 \in 1..Len(inbound)
        BY <3>2
      <4> QED
        BY <2>1, <3>2, <4>1 DEF Quiet
    <3>6. published' = published
      BY <1>2 DEF ReadData
    <3> QED
      BY <2>1, <3>4, <3>5, <3>6 DEF Quiet
  <2>2. wire' = wire
    BY <1>2 DEF ReadData
  <2> QED
    BY <2>1, <2>2 DEF Quiet
<1>3. ASSUME NEW f \in ClientFrame, ClientSends(f) PROVE Quiet'
  <2>1. /\ inbound \in Seq(ClientFrame) /\ inbound' = Append(inbound, f)
        /\ f.own => wire # <<>>
        /\ wire' = wire /\ published' = published /\ topics' = topics
    BY <1>3 DEF ClientSends, TypeOK, rooms
  <2>2. /\ Len(inbound) \in Nat /\ Len(inbound') = Len(inbound) + 1
        /\ \A i \in 1..Len(inbound) : inbound'[i] = inbound[i]
        /\ inbound'[Len(inbound) + 1] = f
    BY <2>1, AppendProperties
  <2>3. CASE wire = <<>>
    <3>1. ASSUME NEW i \in 1..Len(inbound') PROVE ~inbound'[i].own
      <4>1. i \in 1..Len(inbound) \/ i = Len(inbound) + 1
        BY <2>2
      <4> QED
        BY <2>1, <2>2, <2>3, <4>1 DEF Quiet
    <3> QED
      BY <2>1, <2>3, <3>1 DEF Quiet
  <2> QED
    BY <2>1, <2>3 DEF Quiet
<1>4. CASE RoomPublishes
  <2>1. wire # <<>> /\ wire' = wire
    BY <1>4 DEF RoomPublishes, Quiet
  <2> QED
    BY <2>1 DEF Quiet
<1>5. CASE Break
  <2>1. inbound' = <<>> /\ wire' = wire /\ published' = published /\ topics' = topics
    BY <1>5 DEF Break, rooms
  <2> QED
    BY <2>1, EmptySeq DEF Quiet
<1>6. ASSUME NEW k \in Closer, CloseStep(k) PROVE Quiet'
  <2>1. /\ inbound' = inbound \/ inbound' = <<>>
        /\ wire' = wire /\ published' = published /\ topics' = topics
    BY <1>6 DEF CloseStep, rooms
  <2> QED
    BY <2>1, EmptySeq DEF Quiet
<1>7. CASE Silent
  BY <1>7 DEF Quiet
<1>8. CASE RunStart \/ RunSendAssign \/ RunReturn
  BY <1>7, <1>8 DEF RunStart, RunSendAssign, RunReturn, peer, rooms
<1>9. CASE OwnerDone \/ OwnerEvent \/ OwnerTick
  BY <1>7, <1>9 DEF OwnerDone, OwnerEvent, OwnerTick, peer, rooms
<1>10. CASE ReaderSelect \/ ReadFails \/ ReaderReports
  BY <1>7, <1>10 DEF ReaderSelect, ReadFails, ReaderReports, peer, rooms
<1>11. CASE Writer
  BY <1>7, <1>11 DEF Writer, WriterDone, WriterTake, WriteFails, WriterReports, peer, rooms
<1>12. CASE Subscriber
  BY <1>7, <1>12 DEF Subscriber, SubscriberDone, SubscriberTake, SubscriberForward, peer, rooms
<1>13. CASE Close \/ SecondPasses \/ \E k \in ForceCaller : ForceClose(k)
  BY <1>7, <1>13 DEF Close, SecondPasses, ForceClose, peer, rooms
<1>14. CASE UNCHANGED vars
  BY <1>7, <1>14 DEF vars, peer, rooms
<1>15. "owner" \in Closer /\ ForceCaller \subseteq Closer
  OBVIOUS
<1> QED
  BY <1>1, <1>2, <1>3, <1>4, <1>5, <1>6, <1>8, <1>9, <1>10, <1>11, <1>12, <1>13, <1>14, <1>15
     DEF Next, Owner, Reader

(* With nothing queued before it, the assign message always finds room.    *)
LEMMA BeforeKept ==
  ASSUME TypeOK, Quiet, Before, Ended, run # "failed", [Next]_vars
  PROVE  Before' /\ run' # "failed"
<1> DEFINE Same == UNCHANGED <<run, wire, writeCh, msgCh, writer, subscriber>>
<1>1. CASE RunStart
  <2>1. run = "new" /\ UNCHANGED <<queues, peer>>
    BY <1>1 DEF RunStart
  <2>2. run' = "sending" /\ writer' = "select" /\ subscriber' = "select"
    BY <1>1 DEF RunStart
  <2> QED
    BY <2>1, <2>2 DEF Before, queues, peer
<1>2. CASE RunSendAssign
  <2>1. writeCh = <<>>
    BY <1>2 DEF RunSendAssign, Before
  <2>2. Len(writeCh) < WriteCap
    BY <2>1
  <2>3. run' = "waiting"
    BY <1>2, <2>2 DEF RunSendAssign
  <2> QED
    BY <2>3 DEF Before
<1>3. CASE RunReturn
  BY <1>3 DEF RunReturn, Before
<1>4. CASE run \notin {"new", "sending"} /\ run' = run
  BY <1>4 DEF Before
<1>5. CASE Writer \/ WriteSucceeds
  <2>1. run' = run
    BY <1>5 DEF Writer, WriterDone, WriterTake, WriteFails, WriterReports, WriteSucceeds
  <2>2. CASE run \in {"new", "sending"}
    <3>1. ~WriterTake /\ ~WriteSucceeds /\ ~WriteFails
      BY <2>2 DEF Before, WriterTake, WriteSucceeds, WriteFails
    <3>2. WriterDone \/ WriterReports
      BY <1>5, <3>1 DEF Writer
    <3>3. /\ writer' # "writing"
          /\ UNCHANGED <<subscriber, wire, writeCh, msgCh>>
      BY <3>2 DEF WriterDone, WriterReports, peer, queues
    <3> QED
      BY <2>1, <2>2, <3>3 DEF Before
  <2> QED
    BY <1>4, <2>1, <2>2
<1>6. CASE Subscriber
  <2>1. run' = run
    BY <1>6 DEF Subscriber, SubscriberDone, SubscriberTake, SubscriberForward
  <2>2. CASE run \in {"new", "sending"}
    <3>1. ~SubscriberTake /\ ~SubscriberForward
      BY <2>2 DEF Before, SubscriberTake, SubscriberForward
    <3>2. SubscriberDone
      BY <1>6, <3>1 DEF Subscriber
    <3>3. subscriber' # "forwarding" /\ UNCHANGED <<writer, wire, writeCh, msgCh>>
      BY <3>2 DEF SubscriberDone, peer, queues
    <3> QED
      BY <2>1, <2>2, <3>3 DEF Before
  <2> QED
    BY <1>4, <2>1, <2>2
<1>7. CASE RoomPublishes
  <2>1. run' = run /\ wire # <<>>
    BY <1>7 DEF RoomPublishes, procs, Quiet
  <2> QED
    BY <1>4, <2>1 DEF Before
<1>8. CASE Same
  BY <1>8 DEF Before
<1>9. CASE Owner
  BY <1>8, <1>9 DEF Owner, OwnerDone, OwnerEvent, OwnerTick, CloseStep, queues, peer
<1>10. CASE Reader
  BY <1>8, <1>10 DEF Reader, ReaderSelect, ReadData, ReadFails, ReaderReports, queues, peer
<1>11. CASE Close \/ SecondPasses \/ Break \/ \E k \in ForceCaller : ForceClose(k) \/ CloseStep(k)
  BY <1>8, <1>11 DEF Close, SecondPasses, Break, ForceClose, CloseStep, procs, queues, peer
<1>12. CASE \E f \in ClientFrame : ClientSends(f)
  BY <1>8, <1>12 DEF ClientSends, procs, queues
<1>13. CASE UNCHANGED vars
  BY <1>8, <1>13 DEF vars, procs, queues, peer
<1> QED
  BY <1>1, <1>2, <1>3, <1>5, <1>6, <1>7, <1>9, <1>10, <1>11, <1>12, <1>13 DEF Next

LEMMA EndedKept ==
  ASSUME TypeOK, Ended, [Next]_vars
  PROVE  Ended'
<1> DEFINE Same == UNCHANGED <<run, reader, owner, ctxDone>>
<1>1. CASE RunStart \/ RunSendAssign \/ RunReturn
  BY <1>1 DEF Ended, RunStart, RunSendAssign, RunReturn, life
<1>2. CASE OwnerDone \/ OwnerEvent \/ OwnerTick
  BY <1>2 DEF Ended, OwnerDone, OwnerEvent, OwnerTick, life
<1>3. ASSUME NEW k \in Closer, CloseStep(k) PROVE Ended'
  BY <1>3 DEF Ended, CloseStep
<1>4. CASE Reader
  <2>1. UNCHANGED <<run, owner, ctxDone>> /\ reader # "done"
    BY <1>4 DEF Reader, ReaderSelect, ReadData, ReadFails, ReaderReports, life
  <2> QED
    BY <2>1 DEF Ended
<1>5. CASE Same
  BY <1>5 DEF Ended
<1>6. CASE Writer \/ WriteSucceeds
  BY <1>5, <1>6 DEF Writer, WriterDone, WriterTake, WriteFails, WriterReports, WriteSucceeds, life
<1>7. CASE Subscriber
  BY <1>5, <1>7 DEF Subscriber, SubscriberDone, SubscriberTake, SubscriberForward, life
<1>8. CASE Close \/ SecondPasses \/ Break \/ RoomPublishes \/ \E k \in ForceCaller : ForceClose(k)
  BY <1>5, <1>8 DEF Close, SecondPasses, Break, RoomPublishes, ForceClose, procs, life
<1>9. CASE \E f \in ClientFrame : ClientSends(f)
  BY <1>5, <1>9 DEF ClientSends, procs, life
<1>10. CASE UNCHANGED vars
  BY <1>5, <1>10 DEF vars, procs, life
<1>11. "owner" \in Closer /\ ForceCaller \subseteq Closer
  OBVIOUS
<1> QED
  BY <1>1, <1>2, <1>3, <1>4, <1>6, <1>7, <1>8, <1>9, <1>10, <1>11 DEF Next, Owner

LEMMA PathNext == PathInv /\ TypeOK /\ TypeOK' /\ [Next]_vars => PathInv'
<1> SUFFICES ASSUME PathInv, TypeOK, TypeOK', [Next]_vars PROVE PathInv'
  OBVIOUS
<1>1. Effect
  BY EveryStepHasAnEffect DEF PathInv
<1>2. InOrder' /\ First'
  BY <1>1, OrderKept, FirstKept DEF PathInv
<1>3. Quiet' /\ Before' /\ Ended' /\ run' # "failed"
  BY QuietKept, BeforeKept, EndedKept DEF PathInv
<1> QED
  BY <1>2, <1>3 DEF PathInv

LEMMA PathAlways == Spec => []PathInv
<1> QED
  BY PathInit, PathNext, EndpointTypeCorrect, PTL DEF Spec

(* AssignThenFramesInOrder for every capacity: what the client receives is *)
(* the assign message and then frames in the order they were published,    *)
(* and Run never fails to queue the assign message.                        *)
THEOREM AssignFirstInOrder == Spec => []AssignThenFramesInOrder
<1>1. TypeOK /\ PathInv => AssignThenFramesInOrder
  <2> SUFFICES ASSUME TypeOK, PathInv PROVE AssignThenFramesInOrder
    OBVIOUS
  <2>1. wire \in Seq(Payload) /\ Down \in Seq(Payload)
    BY PartsAreTyped DEF PartsTyped
  <2>2. Ordered(wire, published)
    BY <2>1, OrderedFront DEF PathInv, InOrder, Line
  <2> QED
    BY <2>2 DEF Ordered, PathInv, First, AssignThenFramesInOrder
<1> QED
  BY <1>1, PathAlways, EndpointTypeCorrect, PTL

-----------------------------------------------------------------------------
(* The endpoint implements the link                                        *)

Phase == IF run = "returned" THEN "ended" ELSE IF run = "waiting" THEN "live" ELSE "new"

Still == /\ Phase' = Phase /\ closed' = closed /\ inbound' = inbound
         /\ Down' = Down /\ roomID' = roomID

LEMMA StillStutters == Still => UNCHANGED AsLink!vars
  BY DEF Still, Phase, AsLink!vars

LEMMA LinkInit == Init => AsLink!Init
<1> SUFFICES ASSUME Init PROVE AsLink!Init
  OBVIOUS
<1>1. /\ writer # "writing" /\ subscriber # "forwarding" /\ writeCh = <<>> /\ msgCh = <<>>
      /\ run = "new" /\ closed = FALSE /\ inbound = <<>> /\ roomID = NoRoom
  BY DEF Init
<1>2. PartsTyped /\ Written = <<>> /\ Held = <<>>
  BY <1>1, EndpointTypeInit, PartsAreTyped DEF Written, Held
<1>3. Down = <<>>
  BY <1>1, <1>2, ConcatEmptySeq, EmptySeq DEF PartsTyped
<1> QED
  BY <1>1, <1>3 DEF AsLink!Init

LEMMA DroppedIsLost ==
  ASSUME PartsTyped, Dropped, Phase' = Phase,
         closed' = closed, inbound' = inbound, roomID' = roomID
  PROVE  AsLink!Lose
<1>1. PICK x \in Seq(Payload), y \in Seq(Payload), e \in Payload :
         Down = x \o <<e>> \o y /\ Down' = x \o y
  BY DEF Dropped
<1>2. Down' = AsLink!Without(Down, Len(x) + 1)
  BY <1>1, WithoutMiddle
<1>3. Len(x) + 1 \in 1..Len(Down)
  <2>1. Len(x) \in Nat /\ Len(y) \in Nat
    OBVIOUS
  <2>2. Len(Down) = Len(x) + 1 + Len(y)
    BY <1>1, Between
  <2> QED
    BY <2>1, <2>2
<1> QED
  BY <1>2, <1>3 DEF AsLink!Lose, Phase

LEMMA DeliveredIsReceived ==
  ASSUME PartsTyped, PartsTyped', Delivered, Phase' = Phase,
         closed' = closed, inbound' = inbound, roomID' = roomID
  PROVE  AsLink!Receive
<1>1. PICK o \in Seq(Payload) : o = <<writing>> /\ Len(o) = 1
  BY One DEF Delivered
<1>2. PICK d \in Seq(Payload) : d = Down'
  BY DEF PartsTyped
<1>3. Down = o \o d /\ Down \in Seq(Payload)
  BY <1>1, <1>2 DEF Delivered, PartsTyped
<1>4. /\ Len(o \o d) = 1 + Len(d) /\ Len(d) \in Nat
      /\ \A i \in 1..Len(d) : (o \o d)[1 + i] = d[i]
  <2>1. Len(o \o d) = Len(o) + Len(d) /\ \A i \in 1..Len(d) : (o \o d)[Len(o) + i] = d[i]
    BY Joined
  <2>2. Len(d) \in Nat
    OBVIOUS
  <2> QED
    BY <1>1, <2>1, <2>2
<1>5. Down # <<>>
  BY <1>3, <1>4, EmptySeq
<1>6. /\ Tail(Down) \in Seq(Payload) /\ Len(Tail(Down)) = Len(Down) - 1
      /\ \A i \in 1..Len(Tail(Down)) : Tail(Down)[i] = Down[i + 1]
  BY <1>3, <1>5, HeadTailProperties
<1>7. Tail(Down) = d
  <2>1. Len(Tail(Down)) = Len(d)
    BY <1>3, <1>4, <1>6
  <2>2. ASSUME NEW i \in 1..Len(d) PROVE Tail(Down)[i] = d[i]
    <3>1. Tail(Down)[i] = Down[i + 1] /\ i + 1 = 1 + i
      BY <1>6, <2>1
    <3> QED
      BY <1>3, <1>4, <3>1
  <2> QED
    BY <1>6, <2>1, <2>2, SeqEqual
<1> QED
  BY <1>2, <1>5, <1>7 DEF AsLink!Receive, Phase

LEMMA ReadDataIsRead ==
  ASSUME TypeOK, Ended, Unmoved, ReadData
  PROVE  AsLink!Read
<1>1. /\ run' = run /\ closed' = closed /\ inbound # <<>> /\ inbound' = Tail(inbound)
      /\ HandleData(Head(inbound)) /\ run # "returned"
  BY DEF ReadData, life, Ended
<1>2. Head(inbound) \in Frame
  BY <1>1, HeadTailProperties DEF TypeOK
<1>3. roomID' = AsLink!Moved(Head(inbound), roomID)
  <2>1. PICK f \in Frame : f = Head(inbound)
    BY <1>2
  <2>2. /\ f.own \in BOOLEAN /\ f.kind \in {"join", "leave", "data", "other"}
        /\ f.room \in Room \cup {NoRoom}
    BY <2>1 DEF Frame
  <2>3. HandleData(f)
    BY <1>1, <2>1
  <2>4. roomID' = AsLink!Moved(f, roomID)
    <3>1. CASE ~f.own
      BY <2>3, <3>1 DEF HandleData, AsLink!Moved, rooms
    <3>2. CASE f.own /\ f.kind = "join"
      BY <2>3, <3>2 DEF HandleData, HandleJoin, AsLink!Moved
    <3>3. CASE f.own /\ f.kind = "leave"
      BY <2>3, <3>3 DEF HandleData, HandleLeave, AsLink!Moved, rooms
    <3>4. CASE f.own /\ f.kind \in {"data", "other"}
      BY <2>3, <3>4 DEF HandleData, HandleForward, AsLink!Moved, rooms
    <3> QED
      BY <2>2, <3>1, <3>2, <3>3, <3>4
  <2> QED
    BY <2>1, <2>4
<1> QED
  BY <1>1, <1>3 DEF AsLink!Read, Unmoved

LEMMA LinkStep ==
  ASSUME TypeOK, TypeOK', PathInv, CloseProtocol, [Next]_vars
  PROVE  AsLink!Next \/ UNCHANGED AsLink!vars
<1>0. PartsTyped /\ PartsTyped'
  BY PartsAreTyped, PartsStayTyped
<1>1. CASE RunStart
  <2>1. run = "new" /\ run' = "sending" /\ UNCHANGED <<closed, inbound, roomID>>
    BY <1>1 DEF RunStart, life, peer, rooms
  <2>2. Unmoved
    BY <1>1, OthersMoveNothing DEF PathInv
  <2> QED
    BY <2>1, <2>2, StillStutters DEF Still, Phase, Unmoved
<1>2. CASE RunSendAssign
  <2>1. Opened /\ run' = "waiting"
    BY <1>0, <1>2, AssignOpens DEF PathInv
  <2>2. run = "sending" /\ UNCHANGED <<closed, inbound, roomID>>
    BY <1>2 DEF RunSendAssign, life, peer, rooms
  <2>3. AsLink!Open
    BY <2>1, <2>2 DEF AsLink!Open, Opened, Assign
  <2> QED
    BY <2>3 DEF AsLink!Next
<1>3. CASE RunReturn
  <2>1. /\ run = "waiting" /\ run' = "returned" /\ owner = "done"
        /\ UNCHANGED <<closed, inbound, roomID>>
    BY <1>3 DEF RunReturn, life, peer, rooms
  <2>2. Unmoved
    BY <1>3, OthersMoveNothing DEF PathInv
  <2>3. closed
    BY <2>1 DEF PathInv, Ended, CloseProtocol
  <2>4. AsLink!End
    BY <2>1, <2>2, <2>3 DEF AsLink!End, Unmoved
  <2> QED
    BY <2>4 DEF AsLink!Next
<1>4. ASSUME NEW k \in Closer, CloseStep(k), Unmoved
      PROVE  AsLink!Next \/ UNCHANGED AsLink!vars
  <2>1. /\ inbound' \in {inbound, <<>>} /\ run' = run /\ closed' = closed /\ roomID' = roomID
    BY <1>4 DEF CloseStep, rooms
  <2>2. AsLink!Lose
    BY <1>4, <2>1 DEF AsLink!Lose, Unmoved
  <2> QED
    BY <2>2 DEF AsLink!Next
<1>5. CASE OwnerDone \/ OwnerEvent \/ OwnerTick \/ \E k \in ForceCaller : ForceClose(k)
  <2>1. Unmoved
    BY <1>5, OthersMoveNothing DEF PathInv, Owner
  <2>2. /\ UNCHANGED <<run, inbound, roomID>>
        /\ closed' = closed \/ closed' = TRUE
    BY <1>5 DEF OwnerDone, OwnerEvent, OwnerTick, ForceClose, EnterClose, life, peer, rooms
  <2>3. CASE closed' = closed
    BY <2>1, <2>2, <2>3, StillStutters DEF Still, Phase, Unmoved
  <2>4. CASE closed' = TRUE
    <3>1. AsLink!Close
      BY <2>1, <2>2, <2>4 DEF AsLink!Close, Unmoved
    <3> QED
      BY <3>1 DEF AsLink!Next
  <2> QED
    BY <2>2, <2>3, <2>4
<1>6. CASE CloseStep("owner")
  <2>1. Unmoved
    BY <1>6, OthersMoveNothing DEF PathInv, Owner
  <2> QED
    BY <1>4, <1>6, <2>1
<1>7. ASSUME NEW k \in ForceCaller, CloseStep(k)
      PROVE  AsLink!Next \/ UNCHANGED AsLink!vars
  <2>1. Unmoved
    BY <1>7, OthersMoveNothing DEF PathInv
  <2> QED
    BY <1>4, <1>7, <2>1
<1>8. CASE ReadData
  <2>1. Unmoved
    BY <1>8, OthersMoveNothing DEF PathInv, Reader
  <2>2. AsLink!Read
    BY <1>8, <2>1, ReadDataIsRead DEF PathInv
  <2> QED
    BY <2>2 DEF AsLink!Next
<1>9. CASE \/ ReaderSelect \/ ReadFails \/ ReaderReports \/ WriterDone \/ WriterReports
           \/ SubscriberDone \/ Close \/ SecondPasses
  <2>1. Unmoved
    BY <1>9, OthersMoveNothing DEF PathInv, Reader
  <2>2. UNCHANGED <<run, closed, inbound, roomID>>
    BY <1>9 DEF ReaderSelect, ReadFails, ReaderReports, WriterDone, WriterReports,
                SubscriberDone, Close, SecondPasses, procs, life, peer, rooms
  <2> QED
    BY <2>1, <2>2, StillStutters DEF Still, Phase, Unmoved
<1>10. CASE WriterTake \/ SubscriberTake
  <2>1. Unmoved
    BY <1>0, <1>10, TakeMovesNothing, SubscriberTakeMovesNothing
  <2>2. UNCHANGED <<run, closed, inbound, roomID>>
    BY <1>10 DEF WriterTake, SubscriberTake, life, peer, rooms
  <2> QED
    BY <2>1, <2>2, StillStutters DEF Still, Phase, Unmoved
<1>11. CASE WriteSucceeds
  <2>1. Delivered
    BY <1>0, <1>11, WriteDelivers
  <2>2. UNCHANGED <<run, closed, inbound, roomID>>
    BY <1>11 DEF WriteSucceeds, life, rooms
  <2>3. AsLink!Receive
    BY <1>0, <2>1, <2>2, DeliveredIsReceived DEF Phase
  <2> QED
    BY <2>3 DEF AsLink!Next
<1>12. CASE WriteFails \/ SubscriberForward
  <2>1. Unmoved \/ Dropped
    BY <1>0, <1>12, FailedWriteDrops, ForwardMovesOrDrops
  <2>2. UNCHANGED <<run, closed, inbound, roomID>>
    BY <1>12 DEF WriteFails, SubscriberForward, life, peer, rooms
  <2>3. CASE Unmoved
    BY <2>2, <2>3, StillStutters DEF Still, Phase, Unmoved
  <2>4. CASE Dropped
    <3>1. AsLink!Lose
      BY <1>0, <2>2, <2>4, DroppedIsLost DEF Phase
    <3> QED
      BY <3>1 DEF AsLink!Next
  <2> QED
    BY <2>1, <2>3, <2>4
<1>13. ASSUME NEW f \in ClientFrame, ClientSends(f)
       PROVE  AsLink!Next \/ UNCHANGED AsLink!vars
  <2>1. Unmoved
    BY <1>13, OthersMoveNothing DEF PathInv
  <2>2. UNCHANGED <<run, closed, roomID>> /\ inbound' = Append(inbound, f)
    BY <1>13 DEF ClientSends, procs, life, rooms
  <2>3. AsLink!Send
    BY <2>1, <2>2 DEF AsLink!Send, Unmoved
  <2> QED
    BY <2>3 DEF AsLink!Next
<1>14. CASE Break
  <2>1. Unmoved
    BY <1>14, OthersMoveNothing DEF PathInv
  <2>2. UNCHANGED <<run, closed, roomID>> /\ inbound' = <<>>
    BY <1>14 DEF Break, procs, life, rooms
  <2>3. AsLink!Lose
    BY <2>1, <2>2 DEF AsLink!Lose, Unmoved
  <2> QED
    BY <2>3 DEF AsLink!Next
<1>15. CASE RoomPublishes
  <2>1. Fed
    BY <1>0, <1>15, PublishFeeds
  <2>2. UNCHANGED <<run, closed, inbound, roomID>>
    BY <1>15 DEF RoomPublishes, procs, life, rooms
  <2>3. CASE Down' = Down
    BY <2>2, <2>3, StillStutters DEF Still, Phase
  <2>4. CASE Down' = Down \o <<published + 1>>
    <3>1. published + 1 \in 1..MaxFrames /\ wire # <<>> /\ run \in {"sending", "waiting"}
      <4>1. /\ published < MaxFrames /\ run \in {"sending", "waiting"}
            /\ \E r \in Room : topics[r] # <<>>
        BY <1>15 DEF RoomPublishes
      <4>2. published \in 0..MaxFrames /\ MaxFrames \in Nat
        BY EndpointAssumption DEF TypeOK
      <4>3. published + 1 \in 1..MaxFrames
        BY ONLY <4>1, <4>2
      <4>4. wire # <<>>
        BY <4>1 DEF PathInv, Quiet
      <4> QED
        BY <4>1, <4>3, <4>4
    <3>2. run = "waiting"
      BY <3>1 DEF PathInv, Before
    <3>3. Down' = Append(Down, published + 1)
      <4>1. published + 1 \in Payload /\ Down \in Seq(Payload)
        BY <1>0, <3>1 DEF Payload, PartsTyped
      <4> QED
        BY <2>4, <4>1, AppendIsConcat
    <3>4. AsLink!Publish
      BY <2>2, <3>1, <3>2, <3>3 DEF AsLink!Publish
    <3> QED
      BY <3>4 DEF AsLink!Next
  <2> QED
    BY <2>1, <2>3, <2>4 DEF Fed
<1>16. CASE UNCHANGED vars
  <2>1. Unmoved
    BY <1>16, OthersMoveNothing DEF PathInv
  <2>2. UNCHANGED <<run, closed, inbound, roomID>>
    BY <1>16 DEF vars, procs, life, peer, rooms
  <2> QED
    BY <2>1, <2>2, StillStutters DEF Still, Phase, Unmoved
<1> QED
  BY <1>1, <1>2, <1>3, <1>5, <1>6, <1>7, <1>8, <1>9, <1>10, <1>11, <1>12, <1>13, <1>14,
     <1>15, <1>16 DEF Next, Owner, Reader, Writer, Subscriber

(* ImplementsLink for every capacity and number of callers: the endpoint,  *)
(* with its goroutines, queues and close() in pieces, is the link on which *)
(* the composition of the whole server rests.                              *)
THEOREM EndpointImplementsLink == Spec => ImplementsLink
<1>1. TypeOK /\ TypeOK' /\ PathInv /\ CloseProtocol /\ [Next]_vars
      => AsLink!Next \/ UNCHANGED AsLink!vars
  BY LinkStep
<1> QED
  BY <1>1, LinkInit, PathAlways, ClosesOnce, EndpointTypeCorrect, PTL
     DEF Spec, ImplementsLink, AsLink!Spec
=============================================================================
