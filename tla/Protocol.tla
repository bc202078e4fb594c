------------------------------- MODULE Protocol -------------------------------
(***************************************************************************)
(* A message on its way: encoded by one side, perhaps cut short, and read  *)
(* by the other.  A client's message is read three times, by the endpoint  *)
(* (handleData), the room (HandleMessage) and the application              *)
(* (HandleMessage), each with parsers of its own; a server's message is    *)
(* read by the client (Game.onMessage).                                    *)
(*                                                                         *)
(* What the three readers make of the bytes is what SessionEndpoint (a     *)
(* Frame) and Room (a Message) take for granted.                           *)
(***************************************************************************)
EXTENDS Wire

CONSTANTS SelfId,       \* the ID of the session whose endpoint reads
          DefaultRoom,  \* what RoomManager.GetRoom answers
          Message,      \* the messages that may be sent
          MaxCut        \* bound: the longest message that may be cut short

ASSUME ProtocolAssumption ==
  /\ SelfId \in Id /\ DefaultRoom \in Id \ {NoRoom}
  /\ MaxCut \in Nat

Kind == {"input", "spawn", "update", "voice", "join", "control", "assign", "actors", "raw"}

(* A message by its kind, with the session ID and seq of its sender and    *)
(* what its kind carries, of the type the encoder takes: a mask of keys is *)
(* 32 bits wide.  "raw" is any byte string at all.                         *)
ASSUME MessageAssumption ==
  \A m \in Message :
    /\ m.kind \in Kind /\ m.id \in Id /\ m.seq \in Nat
    /\ m.kind = "input"   => m.keys \in Nat /\ m.keys \div 65536 < 65536
    /\ m.kind = "spawn"   => m.position \in Position
    /\ m.kind = "update"  => m.update \in ActorUpdate
    /\ m.kind = "join"    => m.room \in Id
    /\ m.kind = "control" => m.sub \in Byte
    /\ m.kind = "actors"  => m.actors \in Seq(ActorPosition)
    /\ m.kind \in {"voice", "raw"} => m.data \in Bytes

VARIABLES msg,     \* the message sent
          data,    \* its bytes as they arrive
          stage,   \* who reads next: "endpoint", "room", "app", "client", or "done"
          routed,  \* what the endpoint did
          roomDid, \* what the room did
          appDid   \* what the application, or the client, did

vars == <<msg, data, stage, routed, roomDid, appDid>>

FromServer == {"assign", "actors"}

Encode(m) ==
  CASE m.kind = "input"   -> EncodeInputMessage(m.id, m.seq, m.keys)
    [] m.kind = "spawn"   -> Packet(m.id, m.seq, DataType.actor, ActorSubType.spawn,
                                    EncodePosition(m.position))
    [] m.kind = "update"  -> Packet(m.id, m.seq, DataType.actor, ActorSubType.update,
                                    EncodeActorUpdate(m.update))
    [] m.kind = "voice"   -> Packet(m.id, m.seq, DataType.voice, 0, m.data)
    [] m.kind = "join"    -> EncodeJoinMessage(m.id, m.seq, m.room)
    [] m.kind = "control" -> EncodeControlMessage(m.id, m.seq, m.sub)
    [] m.kind = "assign"  -> EncodeAssignMessage(m.id)
    [] m.kind = "actors"  -> EncodeActorBroadcastMessage(EncodeActorPositions(m.actors))
    [] OTHER -> m.data

-----------------------------------------------------------------------------
(* The readers.  A result has a kind and what was read.                    *)

Rejected == [kind |-> "rejected"]
Ignored  == [kind |-> "ignored"]
Joins(r) == [kind |-> "join", room |-> r]
Leaves   == [kind |-> "leave"]

(* The endpoint on a control message                                       *)
HandleControlMessage(sub, d) ==
  LET join == ParseJoinPayload(From(d, BodyStart))
  IN  IF sub = ControlSubType.join
      THEN IF ~join.ok THEN Rejected
           ELSE Joins(IF join.value = NoRoom THEN DefaultRoom ELSE join.value)
      ELSE IF sub = ControlSubType.leave THEN Leaves ELSE Ignored

(* The endpoint: join, leave and data are published; that a leave and data *)
(* need a room as well is SessionEndpoint's matter                         *)
HandleData(d) ==
  LET header  == ParseHeader(d)
      payload == ParsePayloadHeader(From(d, HeaderSize))
  IN  IF ~header.ok THEN Rejected
      ELSE IF header.value.sessionID # SelfId \/ ~payload.ok THEN Rejected
      ELSE IF payload.type = DataType.control THEN HandleControlMessage(payload.sub, d)
      ELSE [kind |-> "data"]

(* Mutant of RoomHandleMessage: the data type is not looked at             *)
RoomHandlesAnyType(d) ==
  LET payload == ParsePayloadHeader(From(d, HeaderSize))
  IN  IF Len(d) < BodyStart THEN Ignored
      ELSE IF payload.sub = ControlSubType.join THEN [kind |-> "join"]
      ELSE IF payload.sub = ControlSubType.leave THEN Leaves ELSE Ignored

(* The room adds or removes the sender                                     *)
RoomHandleMessage(d) ==
  LET payload == ParsePayloadHeader(From(d, HeaderSize))
  IN  IF Len(d) < BodyStart THEN Ignored
      ELSE IF payload.type # DataType.control THEN Ignored
      ELSE IF payload.sub = ControlSubType.join THEN [kind |-> "join"]
      ELSE IF payload.sub = ControlSubType.leave THEN Leaves ELSE Ignored

(* The application, on the parts of a message; only joins, leaves and      *)
(* inputs have an effect, spawns and updates are parsed for a log line     *)
HandleInput(body) ==
  LET input == ParseInputPayload(body)
  IN  IF input.ok THEN [kind |-> "input", keys |-> input.value] ELSE Rejected

HandleActor(sub, body) ==
  LET spawn  == ParsePosition(body)
      update == ParseActorUpdate(body)
  IN  IF sub = ActorSubType.spawn
      THEN IF spawn.ok THEN [kind |-> "spawn", position |-> spawn.value] ELSE Rejected
      ELSE IF sub = ActorSubType.update
      THEN IF update.ok THEN [kind |-> "update", update |-> update.value] ELSE Rejected
      ELSE Ignored

HandleControl(sub) ==
  IF sub = ControlSubType.join THEN [kind |-> "join"]
  ELSE IF sub = ControlSubType.leave THEN Leaves ELSE Ignored

AppHandleMessage(d) ==
  LET payload == ParsePayloadHeader(From(d, HeaderSize))
      body    == From(d, BodyStart)
  IN  IF ~ParseHeader(d).ok THEN Rejected
      ELSE IF ~payload.ok THEN Rejected
      ELSE IF payload.type = DataType.input THEN HandleInput(body)
      ELSE IF payload.type = DataType.actor THEN HandleActor(payload.sub, body)
      ELSE IF payload.type = DataType.control THEN HandleControl(payload.sub)
      ELSE Ignored

(* The client: an assign message tells it its session's ID                 *)
OnMessage(d) ==
  LET payload == ParsePayloadHeader(From(d, HeaderSize))
      frame   == DecodeActorBroadcast(d)
  IN  IF Len(d) < BodyStart THEN Rejected
      ELSE IF payload.type = DataType.control
      THEN IF payload.sub = ControlSubType.assign
           THEN [kind |-> "assign", id |-> ParseHeader(d).value.sessionID] ELSE Ignored
      ELSE IF payload.type = DataType.actor
      THEN IF frame.ok THEN [kind |-> "actors", actors |-> frame.value] ELSE Rejected
      ELSE Ignored

-----------------------------------------------------------------------------
Nothing == [kind |-> "none"]

Init == /\ msg \in Message
        /\ LET whole == Encode(msg)
           IN  \/ data = whole
               \/ /\ Len(whole) <= MaxCut
                  /\ \E n \in 0..(Len(whole) - 1) : data = SubSeq(whole, 1, n)
        /\ stage = IF msg.kind \in FromServer THEN "client" ELSE "endpoint"
        /\ routed = Nothing /\ roomDid = Nothing /\ appDid = Nothing

Published == {"join", "leave", "data"}

EndpointReads ==
  /\ stage = "endpoint"
  /\ routed' = HandleData(data)
  /\ stage' = IF routed'.kind \in Published THEN "room" ELSE "done"
  /\ UNCHANGED <<msg, data, roomDid, appDid>>

RoomReads ==
  /\ stage = "room"
  /\ roomDid' = RoomHandleMessage(data)
  /\ stage' = "app"
  /\ UNCHANGED <<msg, data, routed, appDid>>

AppReads ==
  /\ stage = "app"
  /\ appDid' = AppHandleMessage(data)
  /\ stage' = "done"
  /\ UNCHANGED <<msg, data, routed, roomDid>>

ClientReads ==
  /\ stage = "client"
  /\ appDid' = OnMessage(data)
  /\ stage' = "done"
  /\ UNCHANGED <<msg, data, routed, roomDid>>

Next == EndpointReads \/ RoomReads \/ AppReads \/ ClientReads

Spec == Init /\ [][Next]_vars

-----------------------------------------------------------------------------
(* Properties                                                              *)

(* Whatever the bytes, the three readers of a client's message agree on    *)
(* what is a join and what is a leave, so that the endpoint's roomID, the  *)
(* room's sessions and the application's actors change together            *)
(* (docs/progress.md:97, two parses of the same data).                     *)
ReadersAgree ==
  stage = "done" /\ routed.kind \in Published =>
    \A k \in {"join", "leave"} : /\ routed.kind = k <=> roomDid.kind = k
                                 /\ routed.kind = k <=> appDid.kind = k

Whole == data = Encode(msg)

(* What can be said: as many bones as the mask has bits, which no encoder  *)
(* looks at, and actors that 16 bits can count.                            *)
Sayable(m) ==
  /\ m.kind = "update" => Len(m.update.bones) = CountSetBits(m.update.bitmask)
  /\ m.kind = "actors" => Len(m.actors) < 65536

(* What the message says, for the reader it is meant for                   *)
Meaning(m) ==
  CASE m.kind = "input"  -> [kind |-> "input", keys |-> m.keys]
    [] m.kind = "spawn"  -> [kind |-> "spawn", position |-> m.position]
    [] m.kind = "update" -> [kind |-> "update", update |-> m.update]
    [] m.kind = "assign" -> [kind |-> "assign", id |-> m.id]
    [] m.kind = "actors" -> [kind |-> "actors", actors |-> m.actors]
    [] m.kind = "join"   -> [kind |-> "join"]
    [] m.kind = "control" /\ m.sub = ControlSubType.leave -> Leaves
    [] OTHER -> Ignored

(* What one side encodes the other reads as it was meant, whoever of Go    *)
(* and the browser wrote which half; a message with another session's ID,  *)
(* and a control message the server has no use for, goes nowhere.          *)
SentIsUnderstood ==
  stage = "done" /\ Whole /\ msg.kind # "raw" /\ Sayable(msg) =>
    IF \/ msg.kind \in FromServer
       \/ msg.id = SelfId /\ (msg.kind = "control" => msg.sub = ControlSubType.leave)
    THEN /\ appDid = Meaning(msg)
         /\ msg.kind = "join" =>
              routed = Joins(IF msg.room = NoRoom THEN DefaultRoom ELSE msg.room)
    ELSE routed \in {Rejected, Ignored} /\ appDid = Nothing

(* A message cut short, whatever its bytes, is rejected by somebody or     *)
(* read as if it were whole; no reader takes the part for something else.  *)
CutIsRejectedOrSame ==
  stage = "done" /\ ~Whole =>
    \/ routed = Rejected \/ appDid = Rejected
    \/ IF msg.kind \in FromServer THEN appDid = OnMessage(Encode(msg))
       ELSE /\ routed = HandleData(Encode(msg))
            /\ roomDid \in {Nothing, RoomHandleMessage(Encode(msg))}
            /\ appDid \in {Nothing, AppHandleMessage(Encode(msg))}

(* The length field (docs/architecture/protocol.md:66) is the number of    *)
(* bytes after the header modulo 65536, and so that number itself as long  *)
(* as 16 bits hold it, which a frame of more than 2730 actors ends.        *)
LengthTellsSize ==
  Whole /\ msg.kind # "raw" =>
    LET after == Len(data) - HeaderSize
    IN  /\ ParseHeader(data).value.length = after % 65536
        /\ msg.kind = "actors" => (after < 65536 <=> Len(msg.actors) <= 2730)
=============================================================================
