--------------------------------- MODULE Wire ---------------------------------
(***************************************************************************)
(* The binary messages: the encoders and parsers of                        *)
(* src/server/domain/protocol.go, those of the frame in                    *)
(* src/server/application/withered_application.go, and the client's in     *)
(* src/client/src/protocol.ts.                                             *)
(*                                                                         *)
(* A byte string is a sequence of 0..255.  A float32 and a timestamp are   *)
(* their four bytes (Float32bits and its inverse change nothing), the      *)
(* other integers are numbers and little-endian on the wire.  A parser     *)
(* answers [ok |-> FALSE] where the code returns an error.                 *)
(***************************************************************************)
EXTENDS Integers, Sequences, FiniteSets

Byte  == 0..255
Bytes == Seq(Byte)
Word  == [1..4 -> Byte]   \* the bytes of a float32
Id    == [1..16 -> Byte]  \* the bytes of a session or room ID

NoRoom == [i \in 1..16 |-> 0]  \* the empty RoomID

(* A position and rotation; a bone's rotation; a change of the bones whose *)
(* bits the mask sets; an actor of a frame.                                *)
Position      == [1..7 -> Word]
BoneData      == [bone: Byte, q: [1..4 -> Word]]
ActorUpdate   == [bitmask: [1..16 -> Byte], position: Position, bones: Seq(BoneData)]
ActorPosition == [id: Id, x: Word, y: Word]

HeaderSize        == 25
PayloadHeaderSize == 2
PositionSize      == 28
BoneDataSize      == 17
BitmaskSize       == 16
InputPayloadSize  == 4
JoinPayloadSize   == 16
ActorSize         == 24
BodyStart         == HeaderSize + PayloadHeaderSize

DataType       == [input |-> 1, actor |-> 2, voice |-> 3, control |-> 4]
ActorSubType   == [spawn |-> 1, update |-> 2, despawn |-> 3]
ControlSubType == [join |-> 1, leave |-> 2, kick |-> 3, ping |-> 4,
                   pong |-> 5, error |-> 6, assign |-> 7]

Invalid == [ok |-> FALSE]

(* data[n:] of Go, for n up to the length of data                          *)
From(data, n) == SubSeq(data, n + 1, Len(data))

(* PutUint16 and PutUint32, of a value truncated to that width             *)
U16(n) == <<n % 256, (n \div 256) % 256>>
U32(n) == U16(n % 65536) \o U16(n \div 65536)

Uint16(data, n) == data[n + 1] + 256 * data[n + 2]
Uint32(data, n) == Uint16(data, n) + 65536 * Uint16(data, n + 2)

(* Parts of size bytes each, one after the other                           *)
Blocks(parts, size) ==
  [k \in 1..(Len(parts) * size) |-> parts[(k - 1) \div size + 1][((k - 1) % size) + 1]]

-----------------------------------------------------------------------------
(* Header and payload header.                                              *)

HeaderOf(id, seq, length) ==
  [version |-> 1, sessionID |-> id, seq |-> seq, length |-> length]

(* The time of sending; nothing reads it.                                  *)
Timestamp == [i \in 1..4 |-> 0]

EncodeHeader(h) ==
  <<h.version>> \o h.sessionID \o U16(h.seq) \o U16(h.length) \o Timestamp

ParseHeader(data) ==
  IF Len(data) < HeaderSize THEN Invalid
  ELSE [ok |-> TRUE,
        value |-> [version |-> data[1], sessionID |-> [i \in 1..16 |-> data[i + 1]],
                   seq |-> Uint16(data, 17), length |-> Uint16(data, 19)]]

ParsePayloadHeader(data) ==
  IF Len(data) < PayloadHeaderSize THEN Invalid
  ELSE [ok |-> TRUE, type |-> data[1], sub |-> data[2]]

(* A whole message: header, payload header, payload.                       *)
Packet(id, seq, type, sub, payload) ==
  EncodeHeader(HeaderOf(id, seq, PayloadHeaderSize + Len(payload)))
  \o <<type, sub>> \o payload

-----------------------------------------------------------------------------
(* Payloads.                                                               *)

EncodeAssignMessage(id) == Packet(id, 0, DataType.control, ControlSubType.assign, <<>>)

ParseJoinPayload(data) ==
  IF Len(data) < JoinPayloadSize THEN Invalid
  ELSE [ok |-> TRUE, value |-> [i \in 1..16 |-> data[i]]]

(* Seven words: x, y, z and a quaternion.                                  *)
EncodePosition(p) == Blocks(p, 4)

WordsAt(data, n, count) ==
  [k \in 1..count |-> [i \in 1..4 |-> data[n + 4 * (k - 1) + i]]]

ParsePosition(data) ==
  IF Len(data) < PositionSize THEN Invalid
  ELSE [ok |-> TRUE, value |-> WordsAt(data, 0, 7)]

(* A bone's ID and its quaternion.                                         *)
EncodeBoneData(b) == <<b.bone>> \o Blocks(b.q, 4)

ParseBoneData(data) ==
  IF Len(data) < BoneDataSize THEN Invalid
  ELSE [ok |-> TRUE, value |-> [bone |-> data[1], q |-> WordsAt(data, 1, 4)]]

CountSetBits(bitmask) ==
  Cardinality({p \in (1..BitmaskSize) \X (0..7) : (bitmask[p[1]] \div 2^p[2]) % 2 = 1})

EncodeActorUpdate(u) ==
  u.bitmask \o EncodePosition(u.position)
  \o Blocks([i \in DOMAIN u.bones |-> EncodeBoneData(u.bones[i])], BoneDataSize)

(* Mutant of ParseActorUpdate: the last bone is not checked against the end*)
ParseActorUpdateUnchecked(data) ==
  LET start == BitmaskSize + PositionSize
      count == CountSetBits(data)
      whole == IF start + count * BoneDataSize <= Len(data) THEN count ELSE count - 1
  IN  IF Len(data) < start \/ start + (count - 1) * BoneDataSize > Len(data) THEN Invalid
      ELSE [ok |-> TRUE,
            value |-> [bitmask |-> SubSeq(data, 1, BitmaskSize),
                       position |-> ParsePosition(From(data, BitmaskSize)).value,
                       bones |-> [i \in 1..whole |->
                         ParseBoneData(From(data, start + (i - 1) * BoneDataSize)).value]]]

(* As many bones as the mask has bits; the data may hold more.             *)
ParseActorUpdate(data) ==
  LET start == BitmaskSize + PositionSize
  IN  IF \/ Len(data) < start
         \/ start + CountSetBits(data) * BoneDataSize > Len(data)
      THEN Invalid
      ELSE [ok |-> TRUE,
            value |-> [bitmask |-> SubSeq(data, 1, BitmaskSize),
                       position |-> ParsePosition(From(data, BitmaskSize)).value,
                       bones |-> [i \in 1..CountSetBits(data) |->
                         ParseBoneData(From(data, start + (i - 1) * BoneDataSize)).value]]]

EncodeInputPayload(mask) == U32(mask)

ParseInputPayload(data) ==
  IF Len(data) < InputPayloadSize THEN Invalid ELSE [ok |-> TRUE, value |-> Uint32(data, 0)]

EncodeControlMessage(id, seq, sub) == Packet(id, seq, DataType.control, sub, <<>>)

(* No room, given as null, is sixteen zeros.                               *)
EncodeJoinMessage(id, seq, room) ==
  Packet(id, seq, DataType.control, ControlSubType.join, room)

EncodeInputMessage(id, seq, mask) ==
  Packet(id, seq, DataType.input, 0, EncodeInputPayload(mask))

-----------------------------------------------------------------------------
(* The frame of a tick, and the client's reading of it.  An actor is its   *)
(* session's ID and two words.                                             *)

EncodeActor(a) == a.id \o a.x \o a.y

(* Mutant of EncodeActorPositions: the count is of bytes                   *)
EncodeActorPositionsSized(actors) ==
  U16(Len(actors) * ActorSize) \o Blocks([i \in DOMAIN actors |-> EncodeActor(actors[i])], ActorSize)

EncodeActorPositions(actors) ==
  U16(Len(actors)) \o Blocks([i \in DOMAIN actors |-> EncodeActor(actors[i])], ActorSize)

(* Mutant of EncodeActorBroadcastMessage: Length leaves out its own header *)
EncodeActorBroadcastShort(payload) ==
  EncodeHeader(HeaderOf(NoRoom, 0, Len(payload)))
  \o <<DataType.actor, ActorSubType.update>> \o payload

EncodeActorBroadcastMessage(payload) ==
  EncodeHeader(HeaderOf(NoRoom, 0, PayloadHeaderSize + Len(payload)))
  \o <<DataType.actor, ActorSubType.update>> \o payload

(* Count actors after the count; a read beyond the end throws.  Length is  *)
(* not looked at.                                                          *)
DecodeActorBroadcast(data) ==
  IF \/ Len(data) < BodyStart + 2
     \/ Len(data) < BodyStart + 2 + Uint16(data, BodyStart) * ActorSize
  THEN Invalid
  ELSE LET at(i) == BodyStart + 2 + (i - 1) * ActorSize
       IN  [ok |-> TRUE,
            value |-> [i \in 1..Uint16(data, BodyStart) |->
                        [id |-> [k \in 1..16 |-> data[at(i) + k]],
                         x |-> WordsAt(data, at(i) + 16, 1)[1],
                         y |-> WordsAt(data, at(i) + 20, 1)[1]]]]
=============================================================================
