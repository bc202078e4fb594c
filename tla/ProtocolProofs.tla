--------------------------- MODULE ProtocolProofs ---------------------------
(* Theorems about Protocol, for every set of messages and so for every     *)
(* byte string.                                                            *)
EXTENDS Protocol, TLAPS, SequenceTheorems, FiniteSetTheorems

(* The first data[n:] that matters, as the room bounds it and as the       *)
(* endpoint and the application do                                         *)
LEMMA FromLength ==
  ASSUME NEW d \in Bytes, NEW n \in Nat, n <= Len(d)
  PROVE  Len(From(d, n)) = Len(d) - n
<1>1. d \in Seq(Byte) /\ Len(d) \in Nat
  BY DEF Bytes
<1>2. n + 1 \in Int /\ Len(d) \in Int
  BY <1>1
<1>3. \A i \in n + 1 .. Len(d) : d[i] \in Byte
  BY <1>1
<1>4. Len(SubSeq(d, n + 1, Len(d))) = IF n + 1 <= Len(d) THEN Len(d) - (n + 1) + 1 ELSE 0
  BY ONLY <1>2, <1>3, SubSeqProperties
<1> QED
  BY <1>1, <1>4 DEF From

Header(d) == ParsePayloadHeader(From(d, HeaderSize))

(* A published message has both headers, for every reader.                 *)
LEMMA PublishedIsWhole ==
  ASSUME NEW d \in Bytes, HandleData(d).kind \in Published
  PROVE  ParseHeader(d).ok /\ Header(d).ok /\ ~(Len(d) < BodyStart)
<1>1. ParseHeader(d).ok /\ Header(d).ok
  <2>1. Rejected.kind \notin Published
    BY DEF Rejected, Published
  <2> QED
    BY <2>1 DEF HandleData, Header
<1>2. Len(d) \in Nat
  BY DEF Bytes
<1>3. ~(Len(d) < HeaderSize)
  BY <1>1 DEF ParseHeader, Invalid
<1>4. ~(Len(From(d, HeaderSize)) < PayloadHeaderSize)
  BY <1>1 DEF Header, ParsePayloadHeader, Invalid
<1>5. Len(From(d, HeaderSize)) = Len(d) - HeaderSize
  BY <1>2, <1>3, FromLength DEF HeaderSize
<1> QED
  BY <1>1, <1>2, <1>3, <1>4, <1>5 DEF BodyStart, HeaderSize, PayloadHeaderSize

LEMMA Agreement ==
  ASSUME NEW d \in Bytes, HandleData(d).kind \in Published, NEW k \in {"join", "leave"}
  PROVE  /\ HandleData(d).kind = k <=> RoomHandleMessage(d).kind = k
         /\ HandleData(d).kind = k <=> AppHandleMessage(d).kind = k
<1> DEFINE h == Header(d)
<1>1. ParseHeader(d).ok /\ h.ok /\ ~(Len(d) < BodyStart)
  BY PublishedIsWhole
<1>2. HandleData(d) = IF h.type = DataType.control THEN HandleControlMessage(h.sub, d)
                      ELSE [kind |-> "data"]
  BY DEF HandleData, Header, Published, Rejected
<1>3. RoomHandleMessage(d) = IF h.type # DataType.control THEN Ignored
                             ELSE IF h.sub = ControlSubType.join THEN [kind |-> "join"]
                             ELSE IF h.sub = ControlSubType.leave THEN Leaves ELSE Ignored
  BY <1>1 DEF RoomHandleMessage, Header
<1>4. CASE h.type # DataType.control
  <2>1. HandleData(d).kind = "data"
    BY <1>2, <1>4
  <2>2. RoomHandleMessage(d).kind = "ignored"
    BY <1>3, <1>4 DEF Ignored
  <2>3. AppHandleMessage(d).kind \in {"input", "rejected", "spawn", "update", "ignored"}
    <3> DEFINE body == From(d, BodyStart)
    <3>1. HandleInput(body).kind \in {"input", "rejected"}
      BY DEF HandleInput, Rejected
    <3>2. HandleActor(h.sub, body).kind \in {"rejected", "spawn", "update", "ignored"}
      BY DEF HandleActor, Rejected, Ignored
    <3>3. AppHandleMessage(d) \in {HandleInput(body), HandleActor(h.sub, body), Ignored}
      BY <1>1, <1>4 DEF AppHandleMessage, Header
    <3> HIDE DEF body
    <3> QED
      BY <3>1, <3>2, <3>3 DEF Ignored
  <2> QED
    BY <2>1, <2>2, <2>3
<1>5. CASE h.type = DataType.control
  <2>1. AppHandleMessage(d) = HandleControl(h.sub)
    BY <1>1, <1>5 DEF AppHandleMessage, Header, DataType
  <2>2. HandleData(d) = HandleControlMessage(h.sub, d)
    BY <1>2, <1>5
  <2> HIDE DEF h
  <2>3. HandleData(d).kind \in Published
    OBVIOUS
  <2>4. CASE h.sub = ControlSubType.join
    <3>1. HandleData(d).kind = "join"
      BY <2>2, <2>3, <2>4 DEF HandleControlMessage, Joins, Published, Rejected
    <3> QED
      BY <1>3, <1>5, <2>1, <2>4, <3>1 DEF HandleControl
  <2>5. CASE h.sub = ControlSubType.leave
    <3>1. HandleData(d).kind = "leave"
      BY <2>2, <2>5 DEF HandleControlMessage, Leaves, ControlSubType
    <3> QED
      BY <1>3, <1>5, <2>1, <2>5, <3>1 DEF HandleControl, Leaves, ControlSubType
  <2>6. h.sub \in {ControlSubType.join, ControlSubType.leave}
    BY <2>2, <2>3 DEF HandleControlMessage, Ignored, Published
  <2> QED
    BY <2>4, <2>5, <2>6
<1> QED
  BY <1>4, <1>5

-----------------------------------------------------------------------------
(* What a parser makes of a beginning of the bytes: an error, or what it   *)
(* makes of all of them.                                                   *)

Begins(p, d) ==
  /\ p \in Bytes /\ d \in Bytes
  /\ Len(p) <= Len(d)
  /\ \A i \in 1..Len(p) : p[i] = d[i]

LEMMA BytesLength == ASSUME NEW d \in Bytes PROVE Len(d) \in Nat
BY DEF Bytes

LEMMA FromProperties ==
  ASSUME NEW d \in Bytes, NEW n \in Nat, n <= Len(d)
  PROVE  /\ From(d, n) \in Bytes
         /\ Len(From(d, n)) = Len(d) - n
         /\ \A i \in 1..(Len(d) - n) : From(d, n)[i] = d[n + i]
<1>1. d \in Seq(Byte) /\ Len(d) \in Nat
  BY DEF Bytes
<1>2. n + 1 \in Int /\ Len(d) \in Int
  BY <1>1
<1>3. \A i \in n + 1 .. Len(d) : d[i] \in Byte
  BY <1>1
<1>4. /\ SubSeq(d, n + 1, Len(d)) \in Seq(Byte)
      /\ \A i \in 1 .. Len(d) - (n + 1) + 1 :
           SubSeq(d, n + 1, Len(d))[i] = d[(n + 1) + i - 1]
  BY ONLY <1>2, <1>3, SubSeqProperties
<1>5. From(d, n) \in Bytes
  BY <1>4 DEF From, Bytes
<1>6. ASSUME NEW i \in 1..(Len(d) - n) PROVE From(d, n)[i] = d[n + i]
  <2>1. i \in 1 .. Len(d) - (n + 1) + 1 /\ (n + 1) + i - 1 = n + i
    BY <1>1
  <2> QED
    BY <2>1, <1>4 DEF From
<1> QED
  BY <1>5, <1>6, FromLength

LEMMA PrefixBegins ==
  ASSUME NEW d \in Bytes, NEW n \in 0..Len(d)
  PROVE  Begins(SubSeq(d, 1, n), d) /\ Len(SubSeq(d, 1, n)) = n
<1>1. d \in Seq(Byte) /\ Len(d) \in Nat /\ n \in Nat /\ n <= Len(d)
  BY DEF Bytes
<1>2. \A i \in 1..n : d[i] \in Byte
  BY <1>1
<1>3. /\ SubSeq(d, 1, n) \in Seq(Byte)
      /\ Len(SubSeq(d, 1, n)) = IF 1 <= n THEN n - 1 + 1 ELSE 0
      /\ \A i \in 1 .. n - 1 + 1 : SubSeq(d, 1, n)[i] = d[1 + i - 1]
  BY ONLY <1>1, <1>2, SubSeqProperties
<1>4. Len(SubSeq(d, 1, n)) = n
  BY <1>1, <1>3
<1>5. ASSUME NEW i \in 1..n PROVE SubSeq(d, 1, n)[i] = d[i]
  <2>1. i \in 1 .. n - 1 + 1 /\ 1 + i - 1 = i
    BY <1>1
  <2> QED
    BY <2>1, <1>3
<1> QED
  BY <1>1, <1>3, <1>4, <1>5 DEF Begins, Bytes

LEMMA FromBegins ==
  ASSUME NEW p, NEW d, Begins(p, d), NEW n \in Nat, n <= Len(p)
  PROVE  Begins(From(p, n), From(d, n))
<1>1. /\ p \in Bytes /\ d \in Bytes /\ Len(p) \in Nat /\ Len(d) \in Nat
      /\ Len(p) <= Len(d)
      /\ \A i \in 1..Len(p) : p[i] = d[i]
  BY BytesLength DEF Begins
<1>2. n <= Len(d)
  BY <1>1
<1>3. /\ From(p, n) \in Bytes /\ Len(From(p, n)) = Len(p) - n
      /\ \A i \in 1..(Len(p) - n) : From(p, n)[i] = p[n + i]
  BY <1>1, FromProperties
<1>4. /\ From(d, n) \in Bytes /\ Len(From(d, n)) = Len(d) - n
      /\ \A i \in 1..(Len(d) - n) : From(d, n)[i] = d[n + i]
  BY <1>1, <1>2, FromProperties
<1>5. ASSUME NEW i \in 1..(Len(p) - n) PROVE From(p, n)[i] = From(d, n)[i]
  <2>1. i \in 1..(Len(d) - n) /\ n + i \in 1..Len(p)
    BY <1>1
  <2> QED
    BY <2>1, <1>1, <1>3, <1>4
<1> QED
  BY <1>1, <1>3, <1>4, <1>5 DEF Begins

LEMMA HeaderBegins ==
  ASSUME NEW p, NEW d, Begins(p, d), ~(Len(p) < HeaderSize)
  PROVE  ParseHeader(p) = ParseHeader(d) /\ ParseHeader(p).ok
<1>1. /\ Len(p) \in Nat /\ Len(d) \in Nat /\ Len(p) >= 25 /\ Len(d) >= 25
      /\ \A i \in 1..Len(p) : p[i] = d[i]
  BY BytesLength DEF Begins, HeaderSize
<1>2. \A i \in 1..25 : p[i] = d[i]
  BY <1>1
<1>3. /\ p[1] = d[1]
      /\ p[17 + 1] = d[17 + 1] /\ p[17 + 2] = d[17 + 2]
      /\ p[19 + 1] = d[19 + 1] /\ p[19 + 2] = d[19 + 2]
  BY <1>2
<1>5. Uint16(p, 17) = Uint16(d, 17) /\ Uint16(p, 19) = Uint16(d, 19)
  BY ONLY <1>3 DEF Uint16
<1>4. [i \in 1..16 |-> p[i + 1]] = [i \in 1..16 |-> d[i + 1]]
  BY <1>2
<1>6. ~(Len(p) < HeaderSize) /\ ~(Len(d) < HeaderSize)
  BY <1>1 DEF HeaderSize
<1> QED
  BY ONLY <1>3, <1>4, <1>5, <1>6 DEF ParseHeader

LEMMA PayloadHeaderBegins ==
  ASSUME NEW p, NEW d, Begins(p, d), ~(Len(p) < PayloadHeaderSize)
  PROVE  ParsePayloadHeader(p) = ParsePayloadHeader(d) /\ ParsePayloadHeader(p).ok
<1>1. /\ Len(p) \in Nat /\ Len(d) \in Nat /\ Len(p) >= 2 /\ Len(d) >= 2
      /\ \A i \in 1..Len(p) : p[i] = d[i]
  BY BytesLength DEF Begins, PayloadHeaderSize
<1>2. p[1] = d[1] /\ p[2] = d[2]
  BY <1>1
<1> QED
  BY <1>1, <1>2 DEF ParsePayloadHeader, PayloadHeaderSize

LEMMA JoinBegins ==
  ASSUME NEW p, NEW d, Begins(p, d), ParseJoinPayload(p).ok
  PROVE  ParseJoinPayload(p) = ParseJoinPayload(d)
<1>1. ~(Len(p) < 16)
  BY DEF ParseJoinPayload, JoinPayloadSize, Invalid
<1>2. /\ Len(p) \in Nat /\ Len(d) \in Nat /\ Len(p) <= Len(d)
      /\ \A i \in 1..Len(p) : p[i] = d[i]
  BY BytesLength DEF Begins
<1>3. \A i \in 1..16 : p[i] = d[i]
  BY <1>1, <1>2
<1>4. [i \in 1..16 |-> p[i]] = [i \in 1..16 |-> d[i]]
  BY <1>3
<1>5. ~(Len(p) < JoinPayloadSize) /\ ~(Len(d) < JoinPayloadSize)
  BY <1>1, <1>2 DEF JoinPayloadSize
<1> QED
  BY ONLY <1>4, <1>5 DEF ParseJoinPayload

LEMMA InputBegins ==
  ASSUME NEW p, NEW d, Begins(p, d), ParseInputPayload(p).ok
  PROVE  ParseInputPayload(p) = ParseInputPayload(d)
<1>1. ~(Len(p) < 4)
  BY DEF ParseInputPayload, InputPayloadSize, Invalid
<1>2. /\ Len(p) \in Nat /\ Len(d) \in Nat /\ Len(d) >= 4
      /\ \A i \in 1..4 : p[i] = d[i]
  BY <1>1, BytesLength DEF Begins
<1>3. p[1] = d[1] /\ p[2] = d[2] /\ p[3] = d[3] /\ p[4] = d[4]
  BY <1>2
<1>4. Uint32(p, 0) = Uint32(d, 0)
  BY <1>3 DEF Uint32, Uint16
<1>5. ~(Len(p) < InputPayloadSize) /\ ~(Len(d) < InputPayloadSize)
  BY <1>1, <1>2 DEF InputPayloadSize
<1> QED
  BY ONLY <1>4, <1>5 DEF ParseInputPayload

LEMMA WordsBegin ==
  ASSUME NEW p, NEW d, Begins(p, d), NEW n \in Nat, NEW count \in Nat,
         n + 4 * count <= Len(p)
  PROVE  WordsAt(p, n, count) = WordsAt(d, n, count)
<1>1. Len(p) \in Nat /\ \A i \in 1..Len(p) : p[i] = d[i]
  BY BytesLength DEF Begins
<1>2. ASSUME NEW k \in 1..count, NEW i \in 1..4
      PROVE  p[n + 4 * (k - 1) + i] = d[n + 4 * (k - 1) + i]
  <2>1. n + 4 * (k - 1) + i \in 1..Len(p)
    BY <1>1
  <2> QED
    BY <2>1, <1>1
<1>3. ASSUME NEW k \in 1..count
      PROVE  [i \in 1..4 |-> p[n + 4 * (k - 1) + i]] = [i \in 1..4 |-> d[n + 4 * (k - 1) + i]]
  BY <1>2
<1> QED
  BY <1>3 DEF WordsAt

LEMMA PositionBegins ==
  ASSUME NEW p, NEW d, Begins(p, d), ~(Len(p) < PositionSize)
  PROVE  ParsePosition(p) = ParsePosition(d) /\ ParsePosition(p).ok
<1>1. Len(p) \in Nat /\ Len(d) \in Nat /\ 28 <= Len(p) /\ ~(Len(d) < 28)
  BY BytesLength DEF Begins, PositionSize
<1>2. 0 + 4 * 7 <= Len(p)
  BY <1>1
<1>3. WordsAt(p, 0, 7) = WordsAt(d, 0, 7)
  BY <1>2, WordsBegin
<1> QED
  BY <1>1, <1>3 DEF ParsePosition, PositionSize

LEMMA BoneBegins ==
  ASSUME NEW p, NEW d, Begins(p, d), ~(Len(p) < BoneDataSize)
  PROVE  ParseBoneData(p) = ParseBoneData(d)
<1>1. Len(p) \in Nat /\ Len(d) \in Nat /\ 17 <= Len(p) /\ ~(Len(d) < 17) /\ p[1] = d[1]
  BY BytesLength DEF Begins, BoneDataSize
<1>2. 1 + 4 * 4 <= Len(p)
  BY <1>1
<1>3. WordsAt(p, 1, 4) = WordsAt(d, 1, 4)
  BY <1>2, WordsBegin
<1> QED
  BY <1>1, <1>3 DEF ParseBoneData, BoneDataSize

LEMMA BitsAreCounted ==
  ASSUME NEW d PROVE CountSetBits(d) \in Nat
<1> DEFINE all == (1..BitmaskSize) \X (0..7)
           set == {q \in all : (d[q[1]] \div 2^q[2]) % 2 = 1}
<1>1. IsFiniteSet(1..BitmaskSize) /\ IsFiniteSet(0..7)
  <2>1. 0 \in Int /\ 1 \in Int /\ 7 \in Int /\ BitmaskSize \in Int
    BY DEF BitmaskSize
  <2> QED
    BY <2>1, FS_Interval
<1>2. IsFiniteSet(all)
  BY <1>1, FS_Product
<1>3. IsFiniteSet(set)
  <2>1. set \subseteq all
    OBVIOUS
  <2> QED
    BY <1>2, <2>1, FS_Subset
<1>4. Cardinality(set) \in Nat
  BY <1>3, FS_CardinalityType
<1> QED
  BY <1>4 DEF CountSetBits

LEMMA BitsBegin ==
  ASSUME NEW p, NEW d, \A i \in 1..BitmaskSize : p[i] = d[i]
  PROVE  CountSetBits(p) = CountSetBits(d)
<1> DEFINE all == (1..BitmaskSize) \X (0..7)
<1>1. ASSUME NEW q \in all
      PROVE  ((p[q[1]] \div 2^q[2]) % 2 = 1) <=> ((d[q[1]] \div 2^q[2]) % 2 = 1)
  <2>1. q[1] \in 1..BitmaskSize
    OBVIOUS
  <2>2. p[q[1]] = d[q[1]]
    BY <2>1
  <2> QED
    BY ONLY <2>2
<1>2. {q \in all : (p[q[1]] \div 2^q[2]) % 2 = 1} = {q \in all : (d[q[1]] \div 2^q[2]) % 2 = 1}
  <2> HIDE DEF all
  <2> QED
    BY ONLY <1>1
<1> QED
  BY <1>2 DEF CountSetBits

LEMMA UpdateBegins ==
  ASSUME NEW p, NEW d, Begins(p, d), ParseActorUpdate(p).ok
  PROVE  ParseActorUpdate(p) = ParseActorUpdate(d)
<1> DEFINE bone(b, i) == ParseBoneData(From(b, 44 + (i - 1) * 17)).value
           parsed(b, c) == [ok |-> TRUE,
                            value |-> [bitmask |-> SubSeq(b, 1, 16),
                                       position |-> ParsePosition(From(b, 16)).value,
                                       bones |-> [i \in 1..c |-> bone(b, i)]]]
<1>1. PICK c \in Nat : c = CountSetBits(p)
  BY BitsAreCounted
<1>2. ParseActorUpdate(p) = IF Len(p) < 44 \/ 44 + c * 17 > Len(p) THEN Invalid
                            ELSE parsed(p, c)
  BY <1>1 DEF ParseActorUpdate, BitmaskSize, PositionSize, BoneDataSize
<1>3. /\ p \in Bytes /\ d \in Bytes /\ Len(p) \in Nat /\ Len(d) \in Nat /\ Len(p) <= Len(d)
      /\ \A i \in 1..Len(p) : p[i] = d[i]
  BY BytesLength DEF Begins
<1>4. ~(Len(p) < 44) /\ ~(44 + c * 17 > Len(p))
  <2> HIDE DEF parsed
  <2> QED
    BY <1>2 DEF Invalid
<1>5. \A i \in 1..16 : p[i] = d[i]
  BY <1>3, <1>4
<1>6. CountSetBits(d) = c
  BY <1>1, <1>5, BitsBegin DEF BitmaskSize
<1>7. ParseActorUpdate(d) = IF Len(d) < 44 \/ 44 + c * 17 > Len(d) THEN Invalid
                            ELSE parsed(d, c)
  BY <1>6 DEF ParseActorUpdate, BitmaskSize, PositionSize, BoneDataSize
<1>8. ~(Len(d) < 44) /\ ~(44 + c * 17 > Len(d))
  BY <1>3, <1>4
<1>9. SubSeq(p, 1, 16) = SubSeq(d, 1, 16)
  <2>1. 16 \in 0..Len(p) /\ 16 \in 0..Len(d)
    BY <1>3, <1>4
  <2>2. Begins(SubSeq(p, 1, 16), p) /\ Len(SubSeq(p, 1, 16)) = 16
    BY <2>1, <1>3, PrefixBegins
  <2>3. Begins(SubSeq(d, 1, 16), d) /\ Len(SubSeq(d, 1, 16)) = 16
    BY <2>1, <1>3, PrefixBegins
  <2>4. PICK a : a = SubSeq(p, 1, 16)
    OBVIOUS
  <2>5. PICK b : b = SubSeq(d, 1, 16)
    OBVIOUS
  <2>6. /\ a \in Seq(Byte) /\ b \in Seq(Byte) /\ Len(a) = Len(b)
        /\ \A i \in 1..Len(a) : a[i] = b[i]
    BY <1>5, <2>2, <2>3, <2>4, <2>5 DEF Begins, Bytes
  <2>7. a = b
    BY ONLY <2>6, SeqEqual
  <2> QED
    BY <2>4, <2>5, <2>7
<1>10. ParsePosition(From(p, 16)).value = ParsePosition(From(d, 16)).value
  <2>1. Begins(From(p, 16), From(d, 16)) /\ Len(From(p, 16)) = Len(p) - 16
    BY <1>3, <1>4, FromBegins, FromLength
  <2>2. ~(Len(From(p, 16)) < PositionSize)
    BY <1>3, <1>4, <2>1 DEF PositionSize
  <2> QED
    BY <2>1, <2>2, PositionBegins
<1>11. ASSUME NEW i \in 1..c PROVE bone(p, i) = bone(d, i)
  <2>1. PICK n \in Nat : n = 44 + (i - 1) * 17
    BY <1>1
  <2>2. n + 17 <= Len(p)
    BY <1>1, <1>3, <1>4, <2>1
  <2>3. Begins(From(p, n), From(d, n)) /\ Len(From(p, n)) = Len(p) - n
    BY <1>3, <2>2, FromBegins, FromLength
  <2>4. ~(Len(From(p, n)) < BoneDataSize)
    BY <1>3, <2>2, <2>3 DEF BoneDataSize
  <2> QED
    BY <2>1, <2>3, <2>4, BoneBegins
<1>12. [i \in 1..c |-> bone(p, i)] = [i \in 1..c |-> bone(d, i)]
  <2> HIDE DEF bone
  <2> QED
    BY <1>11
<1>13. parsed(p, c) = parsed(d, c)
  BY ONLY <1>9, <1>10, <1>12
<1> HIDE DEF parsed
<1> QED
  BY <1>2, <1>4, <1>7, <1>8, <1>13

LEMMA FrameBegins ==
  ASSUME NEW p, NEW d, Begins(p, d), DecodeActorBroadcast(p).ok
  PROVE  DecodeActorBroadcast(p) = DecodeActorBroadcast(d)
<1> DEFINE actor(b, n) == [id |-> [k \in 1..16 |-> b[n + k]],
                           x |-> WordsAt(b, n + 16, 1)[1],
                           y |-> WordsAt(b, n + 20, 1)[1]]
           actors(b, c) == [i \in 1..c |-> actor(b, 29 + (i - 1) * 24)]
<1>1. PICK c : c = Uint16(p, 27)
  OBVIOUS
<1>2. DecodeActorBroadcast(p) = IF Len(p) < 29 \/ Len(p) < 29 + c * 24 THEN Invalid
                                ELSE [ok |-> TRUE, value |-> actors(p, c)]
  BY <1>1 DEF DecodeActorBroadcast, BodyStart, HeaderSize, PayloadHeaderSize, ActorSize
<1>3. /\ p \in Bytes /\ d \in Bytes /\ Len(p) \in Nat /\ Len(d) \in Nat /\ Len(p) <= Len(d)
      /\ \A i \in 1..Len(p) : p[i] = d[i] /\ p[i] \in Byte
  BY BytesLength DEF Begins, Bytes
<1>4. ~(Len(p) < 29) /\ ~(Len(p) < 29 + c * 24)
  <2> HIDE DEF actors
  <2> QED
    BY <1>2 DEF Invalid
<1>5. p[28] = d[28] /\ p[29] = d[29] /\ p[28] \in Byte /\ p[29] \in Byte
  BY <1>3, <1>4
<1>6. c \in Nat /\ Uint16(d, 27) = c
  <2>1. Uint16(p, 27) = p[28] + 256 * p[29] /\ Uint16(d, 27) = d[28] + 256 * d[29]
    BY DEF Uint16
  <2>2. p[28] \in Nat /\ p[29] \in Nat
    BY <1>5 DEF Byte
  <2>3. p[28] + 256 * p[29] \in Nat
    BY ONLY <2>2
  <2> QED
    BY ONLY <1>1, <1>5, <2>1, <2>3
<1>7. DecodeActorBroadcast(d) = IF Len(d) < 29 \/ Len(d) < 29 + c * 24 THEN Invalid
                                ELSE [ok |-> TRUE, value |-> actors(d, c)]
  <2>1. c = Uint16(d, 27)
    BY <1>6
  <2> QED
    BY ONLY <2>1 DEF DecodeActorBroadcast, BodyStart, HeaderSize, PayloadHeaderSize, ActorSize
<1>8. ~(Len(d) < 29) /\ ~(Len(d) < 29 + c * 24)
  BY <1>3, <1>4, <1>6
<1>9. ASSUME NEW i \in 1..c PROVE actor(p, 29 + (i - 1) * 24) = actor(d, 29 + (i - 1) * 24)
  <2>1. PICK n \in Nat : n = 29 + (i - 1) * 24
    BY <1>6
  <2>2. n + 24 <= Len(p)
    BY <1>3, <1>4, <1>6, <2>1
  <2>3. \A k \in 1..16 : p[n + k] = d[n + k]
    BY <1>3, <2>2
  <2>4. [k \in 1..16 |-> p[n + k]] = [k \in 1..16 |-> d[n + k]]
    BY <2>3
  <2>5. WordsAt(p, n + 16, 1) = WordsAt(d, n + 16, 1)
    <3>1. n + 16 \in Nat /\ 1 \in Nat /\ (n + 16) + 4 * 1 <= Len(p)
      BY <1>3, <2>2
    <3> QED
      BY <3>1, WordsBegin
  <2>6. WordsAt(p, n + 20, 1) = WordsAt(d, n + 20, 1)
    <3>1. n + 20 \in Nat /\ 1 \in Nat /\ (n + 20) + 4 * 1 <= Len(p)
      BY <1>3, <2>2
    <3> QED
      BY <3>1, WordsBegin
  <2>7. actor(p, n) = actor(d, n)
    BY ONLY <2>4, <2>5, <2>6
  <2> QED
    BY <2>1, <2>7
<1>10. actors(p, c) = actors(d, c)
  <2> HIDE DEF actor
  <2> QED
    BY <1>9
<1> HIDE DEF actors
<1> QED
  BY <1>2, <1>4, <1>7, <1>8, <1>10

(* The readers, on a beginning of the bytes                                *)

LEMMA HeadersBegin ==
  ASSUME NEW p, NEW d, Begins(p, d), ~(Len(p) < BodyStart)
  PROVE  /\ ParseHeader(p) = ParseHeader(d) /\ ParseHeader(p).ok
         /\ Header(p) = Header(d) /\ Header(p).ok
         /\ Begins(From(p, BodyStart), From(d, BodyStart))
         /\ ~(Len(d) < BodyStart)
<1>1. /\ p \in Bytes /\ d \in Bytes /\ Len(p) \in Nat /\ Len(d) \in Nat
      /\ 27 <= Len(p) /\ Len(p) <= Len(d)
  BY BytesLength DEF Begins, BodyStart, HeaderSize, PayloadHeaderSize
<1>2. ParseHeader(p) = ParseHeader(d) /\ ParseHeader(p).ok
  BY <1>1, HeaderBegins DEF HeaderSize
<1>3. Begins(From(p, HeaderSize), From(d, HeaderSize)) /\ Len(From(p, HeaderSize)) = Len(p) - 25
  BY <1>1, FromBegins, FromLength DEF HeaderSize
<1>4. ~(Len(From(p, HeaderSize)) < PayloadHeaderSize)
  BY <1>1, <1>3 DEF PayloadHeaderSize
<1>5. Header(p) = Header(d) /\ Header(p).ok
  BY <1>3, <1>4, PayloadHeaderBegins DEF Header
<1>6. Begins(From(p, BodyStart), From(d, BodyStart)) /\ ~(Len(d) < BodyStart)
  BY <1>1, FromBegins DEF BodyStart, HeaderSize, PayloadHeaderSize
<1> QED
  BY <1>2, <1>5, <1>6

LEMMA EndpointBegins ==
  ASSUME NEW p, NEW d, Begins(p, d)
  PROVE  HandleData(p) = Rejected \/ HandleData(p) = HandleData(d)
<1> SUFFICES ASSUME HandleData(p) # Rejected PROVE HandleData(p) = HandleData(d)
  OBVIOUS
<1>1. ParseHeader(p).ok /\ Header(p).ok
  BY DEF HandleData, Header
<1>2. p \in Bytes /\ Len(p) \in Nat
  BY BytesLength DEF Begins
<1>3. ~(Len(p) < BodyStart)
  <2>1. ~(Len(p) < HeaderSize)
    BY <1>1 DEF ParseHeader, Invalid
  <2>2. Len(From(p, HeaderSize)) = Len(p) - HeaderSize
    BY <1>2, <2>1, FromLength DEF HeaderSize
  <2>3. ~(Len(From(p, HeaderSize)) < PayloadHeaderSize)
    BY <1>1 DEF Header, ParsePayloadHeader, Invalid
  <2> QED
    BY <1>2, <2>2, <2>3 DEF BodyStart, HeaderSize, PayloadHeaderSize
<1>4. /\ ParseHeader(p) = ParseHeader(d) /\ Header(p) = Header(d)
      /\ Begins(From(p, BodyStart), From(d, BodyStart))
  BY <1>3, HeadersBegin
<1>5. \A b : ParseHeader(b).ok /\ Header(b).ok =>
        HandleData(b) = IF ParseHeader(b).value.sessionID # SelfId THEN Rejected
                        ELSE IF Header(b).type = DataType.control
                        THEN HandleControlMessage(Header(b).sub, b)
                        ELSE [kind |-> "data"]
  BY DEF HandleData, Header
<1>6. \A s : HandleControlMessage(s, p) = Rejected \/ HandleControlMessage(s, p) = HandleControlMessage(s, d)
  <2> SUFFICES ASSUME NEW s, HandleControlMessage(s, p) # Rejected
               PROVE  HandleControlMessage(s, p) = HandleControlMessage(s, d)
    OBVIOUS
  <2>1. CASE s = ControlSubType.join
    <3>1. ParseJoinPayload(From(p, BodyStart)).ok
      BY <2>1 DEF HandleControlMessage
    <3>2. ParseJoinPayload(From(p, BodyStart)) = ParseJoinPayload(From(d, BodyStart))
      BY <1>4, <3>1, JoinBegins
    <3> QED
      BY <3>2 DEF HandleControlMessage
  <2>2. CASE s # ControlSubType.join
    BY <2>2 DEF HandleControlMessage
  <2> QED
    BY <2>1, <2>2
<1> QED
  BY <1>1, <1>4, <1>5, <1>6

LEMMA RoomBegins ==
  ASSUME NEW p, NEW d, Begins(p, d), ~(Len(p) < BodyStart)
  PROVE  RoomHandleMessage(p) = RoomHandleMessage(d)
BY HeadersBegin DEF RoomHandleMessage, Header

LEMMA AppBegins ==
  ASSUME NEW p, NEW d, Begins(p, d), ~(Len(p) < BodyStart)
  PROVE  AppHandleMessage(p) = Rejected \/ AppHandleMessage(p) = AppHandleMessage(d)
<1>1. /\ ParseHeader(p).ok /\ ParseHeader(d).ok /\ Header(p) = Header(d)
      /\ Header(p).ok /\ Header(d).ok
      /\ Begins(From(p, BodyStart), From(d, BodyStart))
  BY HeadersBegin
<1> DEFINE app(h, body) ==
             IF h.type = DataType.input THEN HandleInput(body)
             ELSE IF h.type = DataType.actor THEN HandleActor(h.sub, body)
             ELSE IF h.type = DataType.control THEN HandleControl(h.sub)
             ELSE Ignored
<1>2. /\ AppHandleMessage(p) = app(Header(p), From(p, BodyStart))
      /\ AppHandleMessage(d) = app(Header(d), From(d, BodyStart))
  BY <1>1 DEF AppHandleMessage, Header
<1>3. PICK a : a = From(p, BodyStart)
  OBVIOUS
<1>4. PICK b : b = From(d, BodyStart)
  OBVIOUS
<1>5. Begins(a, b)
  BY <1>1, <1>3, <1>4
<1>6. HandleInput(a) = Rejected \/ HandleInput(a) = HandleInput(b)
  <2>1. ~ParseInputPayload(a).ok \/ ParseInputPayload(a) = ParseInputPayload(b)
    BY <1>5, InputBegins
  <2> QED
    BY <2>1 DEF HandleInput
<1>7. \A s : HandleActor(s, a) = Rejected \/ HandleActor(s, a) = HandleActor(s, b)
  <2> SUFFICES ASSUME NEW s PROVE HandleActor(s, a) = Rejected \/ HandleActor(s, a) = HandleActor(s, b)
    OBVIOUS
  <2>1. ~ParsePosition(a).ok \/ ParsePosition(a) = ParsePosition(b)
    BY <1>5, PositionBegins DEF ParsePosition, Invalid
  <2>2. ~ParseActorUpdate(a).ok \/ ParseActorUpdate(a) = ParseActorUpdate(b)
    BY <1>5, UpdateBegins
  <2>3. CASE s = ActorSubType.spawn
    BY <2>1, <2>3 DEF HandleActor
  <2>4. CASE s = ActorSubType.update
    BY <2>2, <2>4 DEF HandleActor, ActorSubType
  <2>5. CASE s \notin {ActorSubType.spawn, ActorSubType.update}
    BY <2>5 DEF HandleActor
  <2> QED
    BY <2>3, <2>4, <2>5
<1>8. app(Header(p), a) = Rejected \/ app(Header(p), a) = app(Header(p), b)
  BY <1>6, <1>7
<1> HIDE DEF app
<1> QED
  BY <1>1, <1>2, <1>3, <1>4, <1>8

LEMMA ClientBegins ==
  ASSUME NEW p, NEW d, Begins(p, d)
  PROVE  OnMessage(p) = Rejected \/ OnMessage(p) = OnMessage(d)
<1>1. CASE Len(p) < BodyStart
  BY <1>1 DEF OnMessage
<1>2. CASE ~(Len(p) < BodyStart)
  <2>1. /\ ParseHeader(p) = ParseHeader(d) /\ Header(p) = Header(d) /\ ~(Len(d) < BodyStart)
    BY <1>2, HeadersBegin
  <2>2. ~DecodeActorBroadcast(p).ok \/ DecodeActorBroadcast(p) = DecodeActorBroadcast(d)
    BY FrameBegins
  <2>3. PICK f : f = DecodeActorBroadcast(p)
    OBVIOUS
  <2>4. PICK g : g = DecodeActorBroadcast(d)
    OBVIOUS
  <2> DEFINE client(h, id, frame) ==
               IF h.type = DataType.control
               THEN IF h.sub = ControlSubType.assign THEN [kind |-> "assign", id |-> id]
                    ELSE Ignored
               ELSE IF h.type = DataType.actor
               THEN IF frame.ok THEN [kind |-> "actors", actors |-> frame.value] ELSE Rejected
               ELSE Ignored
  <2>5. OnMessage(p) = client(Header(p), ParseHeader(p).value.sessionID, f)
    BY <1>2, <2>3 DEF OnMessage, Header
  <2>6. OnMessage(d) = client(Header(d), ParseHeader(d).value.sessionID, g)
    BY <2>1, <2>4 DEF OnMessage, Header
  <2>7. \A h, id : client(h, id, f) = Rejected \/ client(h, id, f) = client(h, id, g)
    BY <2>2, <2>3, <2>4
  <2> HIDE DEF client
  <2> QED
    BY <2>1, <2>5, <2>6, <2>7
<1> QED
  BY <1>1, <1>2

-----------------------------------------------------------------------------
(* What is encoded, byte by byte.                                          *)

LEMMA TableIsSeq ==
  ASSUME NEW S, NEW n \in Nat, NEW f \in [1..n -> S]
  PROVE  f \in Seq(S) /\ Len(f) = n
<1>1. f \in Seq(S)
  BY SeqDef
<1>2. DOMAIN f = 1..Len(f) /\ Len(f) \in Nat
  BY <1>1, LenProperties
<1>3. 1..n = 1..Len(f)
  BY <1>2
<1>4. n = Len(f)
  BY <1>2, <1>3
<1> QED
  BY <1>1, <1>4

LEMMA IdIsBytes == ASSUME NEW id \in Id PROVE id \in Bytes /\ Len(id) = 16
<1>1. PICK n \in Nat : n = 16
  OBVIOUS
<1>2. id \in [1..n -> Byte]
  BY <1>1 DEF Id
<1>3. id \in Seq(Byte) /\ Len(id) = n
  BY ONLY n \in Nat, <1>2, TableIsSeq
<1> QED
  BY <1>1, <1>3 DEF Bytes

LEMMA WordIsBytes == ASSUME NEW w \in Word PROVE w \in Bytes /\ Len(w) = 4
<1>1. PICK n \in Nat : n = 4
  OBVIOUS
<1>2. w \in [1..n -> Byte]
  BY <1>1 DEF Word
<1>3. w \in Seq(Byte) /\ Len(w) = n
  BY ONLY n \in Nat, <1>2, TableIsSeq
<1> QED
  BY <1>1, <1>3 DEF Bytes

LEMMA OneByte ==
  ASSUME NEW a \in Byte
  PROVE  <<a>> \in Bytes /\ Len(<<a>>) = 1 /\ <<a>>[1] = a
BY DEF Bytes

LEMMA TwoBytes ==
  ASSUME NEW a \in Byte, NEW b \in Byte
  PROVE  <<a, b>> \in Bytes /\ Len(<<a, b>>) = 2 /\ <<a, b>>[1] = a /\ <<a, b>>[2] = b
BY DEF Bytes

LEMMA BytesConcat ==
  ASSUME NEW s \in Bytes, NEW t \in Bytes
  PROVE  /\ s \o t \in Bytes
         /\ Len(s \o t) = Len(s) + Len(t)
         /\ \A i \in 1..Len(s) : (s \o t)[i] = s[i]
         /\ \A i \in 1..Len(t) : (s \o t)[Len(s) + i] = t[i]
<1>1. s \in Seq(Byte) /\ t \in Seq(Byte)
  BY DEF Bytes
<1>2. PICK c : c = s \o t
  OBVIOUS
<1>3. /\ c \in Seq(Byte)
      /\ Len(c) = Len(s) + Len(t)
      /\ \A i \in 1 .. Len(s) + Len(t) : c[i] = IF i <= Len(s) THEN s[i] ELSE t[i - Len(s)]
  BY ONLY <1>1, <1>2, ConcatProperties
<1>4. Len(s) \in Nat /\ Len(t) \in Nat
  BY <1>1
<1>5. ASSUME NEW i \in 1..Len(s) PROVE c[i] = s[i]
  BY <1>3, <1>4
<1>6. ASSUME NEW i \in 1..Len(t) PROVE c[Len(s) + i] = t[i]
  <2>1. Len(s) + i \in 1 .. Len(s) + Len(t) /\ ~(Len(s) + i <= Len(s)) /\ (Len(s) + i) - Len(s) = i
    BY <1>4
  <2> QED
    BY <1>3, <2>1
<1> QED
  BY <1>2, <1>3, <1>5, <1>6 DEF Bytes

LEMMA U16Bytes ==
  ASSUME NEW n \in Nat
  PROVE  /\ U16(n) \in Bytes /\ Len(U16(n)) = 2
         /\ U16(n)[1] \in Byte /\ U16(n)[2] \in Byte
         /\ U16(n)[1] + 256 * U16(n)[2] = n % 65536
<1> DEFINE a == n % 256
           b == (n \div 256) % 256
<1>1. a \in Byte /\ b \in Byte /\ a + 256 * b = n % 65536
  BY DEF Byte
<1>2. U16(n) = <<a, b>>
  BY DEF U16
<1> HIDE DEF a, b
<1> QED
  BY <1>1, <1>2, TwoBytes

LEMMA U32Bytes ==
  ASSUME NEW n \in Nat, n \div 65536 < 65536
  PROVE  /\ U32(n) \in Bytes /\ Len(U32(n)) = 4
         /\ Uint32(U32(n), 0) = n
<1>1. PICK l \in Nat : l = n % 65536 /\ l < 65536
  OBVIOUS
<1>2. PICK h \in Nat : h = n \div 65536 /\ h < 65536 /\ n = l + 65536 * h
  BY <1>1
<1>3. PICK a : /\ a = U16(l) /\ a \in Bytes /\ Len(a) = 2
               /\ a[1] \in Byte /\ a[2] \in Byte
               /\ a[1] + 256 * a[2] = l % 65536
  BY U16Bytes
<1>4. PICK b : /\ b = U16(h) /\ b \in Bytes /\ Len(b) = 2
               /\ b[1] \in Byte /\ b[2] \in Byte
               /\ b[1] + 256 * b[2] = h % 65536
  BY U16Bytes
<1>5. U32(n) = a \o b
  <2>1. U32(n) = U16(n % 65536) \o U16(n \div 65536)
    BY DEF U32
  <2>2. l = n % 65536 /\ h = n \div 65536 /\ a = U16(l) /\ b = U16(h)
    BY <1>1, <1>2, <1>3, <1>4
  <2> QED
    BY ONLY <2>1, <2>2
<1> DEFINE c == a \o b
<1>6. c = a \o b
  OBVIOUS
<1> HIDE DEF c
<1>7. /\ c \in Bytes /\ Len(c) = Len(a) + Len(b)
      /\ \A i \in 1..Len(a) : c[i] = a[i]
      /\ \A i \in 1..Len(b) : c[Len(a) + i] = b[i]
  <2>1. a \in Bytes /\ b \in Bytes
    BY <1>3, <1>4
  <2> QED
    BY ONLY <2>1, <1>6, BytesConcat
<1>8. Len(c) = 4 /\ c[1] = a[1] /\ c[2] = a[2] /\ c[3] = b[1] /\ c[4] = b[2]
  <2>1. Len(a) = 2 /\ Len(b) = 2
    BY <1>3, <1>4
  <2> QED
    BY ONLY <2>1, <1>7
<1>9. Uint32(c, 0) = (c[1] + 256 * c[2]) + 65536 * (c[3] + 256 * c[4])
  BY DEF Uint32, Uint16
<1>10. l % 65536 = l /\ h % 65536 = h
  BY <1>1, <1>2
<1>11. Uint32(c, 0) = n
  <2>1. Uint32(c, 0) = (a[1] + 256 * a[2]) + 65536 * (b[1] + 256 * b[2])
    BY ONLY <1>8, <1>9
  <2>2. a[1] + 256 * a[2] = l /\ b[1] + 256 * b[2] = h
    BY <1>3, <1>4, <1>10
  <2>3. a[1] \in Nat /\ a[2] \in Nat /\ b[1] \in Nat /\ b[2] \in Nat
    <3>1. a[1] \in Byte /\ a[2] \in Byte
      BY <1>3
    <3>2. b[1] \in Byte /\ b[2] \in Byte
      BY <1>4
    <3> QED
      BY ONLY <3>1, <3>2 DEF Byte
  <2>4. Uint32(c, 0) = l + 65536 * h
    BY ONLY <2>1, <2>2, <2>3
  <2> QED
    BY ONLY <1>2, <2>4
<1> QED
  BY <1>5, <1>6, <1>7, <1>8, <1>11

(* A header is 25 bytes, with the ID and the length where a parser looks   *)
(* for them.                                                               *)
LEMMA HeaderBytes ==
  ASSUME NEW id \in Id, NEW seq \in Nat, NEW length \in Nat,
         NEW h, h = EncodeHeader(HeaderOf(id, seq, length))
  PROVE  /\ h \in Bytes /\ Len(h) = 25
         /\ \A i \in 1..16 : h[i + 1] = id[i]
         /\ Uint16(h, 19) = length % 65536
<1> DEFINE a == <<1>> \o id
           b == a \o U16(seq)
           c == b \o U16(length)
           d == c \o Timestamp
<1>1. h = d
  BY DEF EncodeHeader, HeaderOf
<1>2. /\ <<1>> \in Bytes /\ Len(<<1>>) = 1 /\ id \in Bytes /\ Len(id) = 16
  <2>1. 1 \in Byte
    BY DEF Byte
  <2> QED
    BY <2>1, OneByte, IdIsBytes
<1>3. /\ a \in Bytes /\ Len(a) = 17
      /\ \A i \in 1..16 : a[1 + i] = id[i]
  <2>1. /\ a \in Bytes /\ Len(a) = Len(<<1>>) + Len(id)
        /\ \A i \in 1..Len(id) : a[Len(<<1>>) + i] = id[i]
    BY <1>2, BytesConcat
  <2> HIDE DEF a
  <2> QED
    BY <1>2, <2>1
<1> HIDE DEF a
<1>4. /\ U16(seq) \in Bytes /\ Len(U16(seq)) = 2
      /\ U16(length) \in Bytes /\ Len(U16(length)) = 2
      /\ U16(length)[1] + 256 * U16(length)[2] = length % 65536
  BY U16Bytes
<1>5. /\ b \in Bytes /\ Len(b) = 19
      /\ \A i \in 1..17 : b[i] = a[i]
  <2>1. /\ b \in Bytes /\ Len(b) = Len(a) + Len(U16(seq))
        /\ \A i \in 1..Len(a) : b[i] = a[i]
    <3>1. a \in Bytes /\ U16(seq) \in Bytes
      BY <1>3, <1>4
    <3> QED
      BY ONLY <3>1, BytesConcat
  <2> HIDE DEF b
  <2> QED
    BY <1>3, <1>4, <2>1
<1> HIDE DEF b
<1>6. /\ c \in Bytes /\ Len(c) = 21
      /\ \A i \in 1..19 : c[i] = b[i]
      /\ c[20] = U16(length)[1] /\ c[21] = U16(length)[2]
  <2>1. /\ c \in Bytes /\ Len(c) = Len(b) + Len(U16(length))
        /\ \A i \in 1..Len(b) : c[i] = b[i]
        /\ \A i \in 1..Len(U16(length)) : c[Len(b) + i] = U16(length)[i]
    <3>1. b \in Bytes /\ U16(length) \in Bytes
      BY <1>4, <1>5
    <3> QED
      BY ONLY <3>1, BytesConcat
  <2> HIDE DEF c
  <2>2. /\ c \in Bytes /\ Len(c) = 21
        /\ \A i \in 1..19 : c[i] = b[i]
        /\ \A i \in 1..2 : c[19 + i] = U16(length)[i]
    BY <1>4, <1>5, <2>1
  <2>3. c[19 + 1] = U16(length)[1] /\ c[19 + 2] = U16(length)[2]
    BY <2>2
  <2> QED
    BY <2>2, <2>3
<1> HIDE DEF c
<1>7. /\ d \in Bytes /\ Len(d) = 25
      /\ \A i \in 1..21 : d[i] = c[i]
  <2>1. Timestamp \in Bytes /\ Len(Timestamp) = 4
    <3>1. 4 \in Nat /\ Timestamp \in [1..4 -> Byte]
      BY DEF Timestamp, Byte
    <3> QED
      BY <3>1, TableIsSeq DEF Bytes
  <2>2. /\ d \in Bytes /\ Len(d) = Len(c) + Len(Timestamp)
        /\ \A i \in 1..Len(c) : d[i] = c[i]
    BY <1>6, <2>1, BytesConcat
  <2> HIDE DEF d
  <2> QED
    BY <1>6, <2>1, <2>2
<1> HIDE DEF d
<1>8. ASSUME NEW i \in 1..16 PROVE d[i + 1] = id[i]
  <2>1. i + 1 \in 1..17 /\ i + 1 \in 1..19 /\ i + 1 \in 1..21 /\ 1 + i = i + 1
    OBVIOUS
  <2> QED
    BY <1>3, <1>5, <1>6, <1>7, <2>1
<1>9. Uint16(d, 19) = length % 65536
  <2>1. d[19 + 1] = U16(length)[1] /\ d[19 + 2] = U16(length)[2]
    BY <1>6, <1>7
  <2> QED
    BY <1>4, <2>1 DEF Uint16
<1> QED
  BY <1>1, <1>7, <1>8, <1>9

(* What a parser finds in a packet                                         *)
IsPacket(d, id, type, sub, payload) ==
  /\ d \in Bytes /\ payload \in Bytes /\ Len(d) = 27 + Len(payload)
  /\ ParseHeader(d).ok /\ ParseHeader(d).value.sessionID = id
  /\ ParseHeader(d).value.length = (2 + Len(payload)) % 65536
  /\ Header(d) = [ok |-> TRUE, type |-> type, sub |-> sub]
  /\ From(d, BodyStart) = payload
  /\ \A i \in 1..Len(payload) : d[27 + i] = payload[i]

(* A packet is read back in its parts.                                     *)
LEMMA PacketParts ==
  ASSUME NEW id \in Id, NEW seq \in Nat, NEW type \in Byte, NEW sub \in Byte,
         NEW payload \in Bytes, NEW d, d = Packet(id, seq, type, sub, payload)
  PROVE  IsPacket(d, id, type, sub, payload)
<1>1. Len(payload) \in Nat /\ 2 + Len(payload) \in Nat
  BY BytesLength
<1> DEFINE h == EncodeHeader(HeaderOf(id, seq, 2 + Len(payload)))
           a == h \o <<type, sub>>
<1>2. d = a \o payload
  BY DEF Packet, PayloadHeaderSize
<1>0. PICK l : l = (2 + Len(payload)) % 65536
  OBVIOUS
<1>3. /\ h \in Bytes /\ Len(h) = 25
      /\ \A i \in 1..16 : h[i + 1] = id[i]
      /\ Uint16(h, 19) = l
  <2>1. id \in Id /\ seq \in Nat
    OBVIOUS
  <2> QED
    <3>1. PICK n \in Nat : n = 2 + Len(payload)
      BY <1>1
    <3>2. PICK g : g = EncodeHeader(HeaderOf(id, seq, n))
      OBVIOUS
    <3>3. /\ g \in Bytes /\ Len(g) = 25
          /\ \A i \in 1..16 : g[i + 1] = id[i]
          /\ Uint16(g, 19) = n % 65536
      BY ONLY <2>1, n \in Nat, <3>2, HeaderBytes
    <3>4. h = g
      BY ONLY <3>1, <3>2, Zenon
    <3> HIDE DEF h
    <3>5. Uint16(h, 19) = l
      BY ONLY <1>0, <3>1, <3>3, <3>4
    <3> QED
      BY ONLY <3>3, <3>4, <3>5
<1> HIDE DEF h
<1>4. /\ a \in Bytes /\ Len(a) = 27
      /\ \A i \in 1..25 : a[i] = h[i]
      /\ a[26] = type /\ a[27] = sub
  <2>1. /\ <<type, sub>> \in Bytes /\ Len(<<type, sub>>) = 2
        /\ <<type, sub>>[1] = type /\ <<type, sub>>[2] = sub
    BY TwoBytes
  <2>2. /\ a \in Bytes /\ Len(a) = Len(h) + Len(<<type, sub>>)
        /\ \A i \in 1..Len(h) : a[i] = h[i]
        /\ \A i \in 1..Len(<<type, sub>>) : a[Len(h) + i] = <<type, sub>>[i]
    <3>1. h \in Bytes /\ <<type, sub>> \in Bytes
      BY <1>3, <2>1
    <3> QED
      BY ONLY <3>1, BytesConcat
  <2> HIDE DEF a
  <2>3. a[25 + 1] = <<type, sub>>[1] /\ a[25 + 2] = <<type, sub>>[2]
    <3>1. 1 \in 1..Len(<<type, sub>>) /\ 2 \in 1..Len(<<type, sub>>) /\ Len(h) = 25
      BY <1>3, <2>1
    <3> QED
      BY ONLY <2>2, <3>1
  <2> QED
    BY <1>3, <2>1, <2>2, <2>3
<1> HIDE DEF a
<1>5. /\ d \in Bytes /\ Len(d) = 27 + Len(payload)
      /\ \A i \in 1..27 : d[i] = a[i]
      /\ \A i \in 1..Len(payload) : d[27 + i] = payload[i]
  <2>1. /\ a \o payload \in Bytes /\ Len(a \o payload) = Len(a) + Len(payload)
        /\ \A i \in 1..Len(a) : (a \o payload)[i] = a[i]
        /\ \A i \in 1..Len(payload) : (a \o payload)[Len(a) + i] = payload[i]
    <3>1. a \in Bytes /\ payload \in Bytes
      BY <1>4
    <3> QED
      BY ONLY <3>1, BytesConcat
  <2> QED
    BY <1>2, <1>4, <2>1
<1>6. /\ ParseHeader(d).ok
      /\ ParseHeader(d).value.sessionID = [i \in 1..16 |-> d[i + 1]]
      /\ ParseHeader(d).value.length = Uint16(d, 19)
  <2>1. ~(Len(d) < HeaderSize)
    BY <1>1, <1>5 DEF HeaderSize
  <2> QED
    BY ONLY <2>1 DEF ParseHeader
<1>7. [i \in 1..16 |-> d[i + 1]] = id
  <2>1. ASSUME NEW i \in 1..16 PROVE d[i + 1] = id[i]
    <3>1. i + 1 \in 1..25 /\ i + 1 \in 1..27
      OBVIOUS
    <3>2. d[i + 1] = a[i + 1]
      BY <1>5, <3>1
    <3>3. a[i + 1] = h[i + 1]
      BY <1>4, <3>1
    <3> QED
      <4>1. h[i + 1] = id[i]
        BY ONLY <1>3, i \in 1..16
      <4> QED
        BY ONLY <3>2, <3>3, <4>1
  <2>2. id \in [1..16 -> Byte]
    BY DEF Id
  <2> QED
    BY ONLY <2>1, <2>2
<1>8. Uint16(d, 19) = l
  <2>1. d[19 + 1] = h[19 + 1] /\ d[19 + 2] = h[19 + 2]
    <3>1. 19 + 1 \in 1..25 /\ 19 + 1 \in 1..27 /\ 19 + 2 \in 1..25 /\ 19 + 2 \in 1..27
      OBVIOUS
    <3>2. d[19 + 1] = a[19 + 1] /\ d[19 + 2] = a[19 + 2]
      BY <1>5, <3>1
    <3>3. a[19 + 1] = h[19 + 1] /\ a[19 + 2] = h[19 + 2]
      BY <1>4, <3>1
    <3> QED
      BY ONLY <3>2, <3>3
  <2>2. Uint16(d, 19) = Uint16(h, 19)
    BY ONLY <2>1 DEF Uint16
  <2> QED
    BY <1>3, <2>2
<1>9. Header(d) = [ok |-> TRUE, type |-> type, sub |-> sub]
  <2>1. PICK f : f = From(d, HeaderSize)
    OBVIOUS
  <2>2. 25 \in Nat /\ 25 <= Len(d) /\ HeaderSize = 25
    BY <1>1, <1>5 DEF HeaderSize
  <2>3. Len(f) = Len(d) - 25 /\ \A i \in 1..(Len(d) - 25) : f[i] = d[25 + i]
    BY <1>5, <2>1, <2>2, FromProperties
  <2>4. f[1] = d[25 + 1] /\ f[2] = d[25 + 2] /\ ~(Len(f) < PayloadHeaderSize)
    <3>1. Len(d) = 27 + Len(payload)
      BY <1>5
    <3>2. 1 \in 1..(Len(d) - 25) /\ 2 \in 1..(Len(d) - 25)
      BY <1>1, <3>1
    <3>3. ~(Len(f) < PayloadHeaderSize)
      BY <1>1, <2>3, <3>1 DEF PayloadHeaderSize
    <3> QED
      BY ONLY <2>3, <3>2, <3>3
  <2>5. f[1] = type /\ f[2] = sub
    BY <1>4, <1>5, <2>4
  <2>6. ParsePayloadHeader(f) = [ok |-> TRUE, type |-> type, sub |-> sub]
    BY ONLY <2>4, <2>5 DEF ParsePayloadHeader
  <2> QED
    BY <2>1, <2>6 DEF Header
<1>10. From(d, BodyStart) = payload
  <2> DEFINE f == From(d, BodyStart)
  <2>1. BodyStart = 27 /\ 27 \in Nat /\ 27 <= Len(d)
    BY <1>1, <1>5 DEF BodyStart, HeaderSize, PayloadHeaderSize
  <2>2. /\ f \in Bytes /\ Len(f) = Len(d) - 27
        /\ \A i \in 1..(Len(d) - 27) : f[i] = d[27 + i]
    BY <1>5, <2>1, FromProperties
  <2> HIDE DEF f
  <2>3. /\ f \in Seq(Byte) /\ payload \in Seq(Byte) /\ Len(f) = Len(payload)
        /\ \A i \in 1..Len(f) : f[i] = payload[i]
    <3>1. Len(d) = 27 + Len(payload)
      BY <1>5
    <3>2. Len(d) - 27 = Len(payload) /\ Len(f) = Len(payload)
      BY <1>1, <2>2, <3>1
    <3>3. ASSUME NEW i \in 1..Len(f) PROVE f[i] = payload[i]
      <4>1. f[i] = d[27 + i]
        BY <2>2, <3>2
      <4>2. d[27 + i] = payload[i]
        BY <1>5, <3>2
      <4> QED
        BY <4>1, <4>2
    <3> QED
      BY <2>2, <3>2, <3>3 DEF Bytes
  <2>4. f = payload
    BY ONLY <2>3, SeqEqual
  <2> QED
    BY <2>4 DEF f
<1> QED
  BY ONLY payload \in Bytes, <1>5, <1>6, <1>7, <1>8, <1>9, <1>10, <1>0 DEF IsPacket

(* Places in n parts of s bytes                                            *)

LEMMA Divided ==
  ASSUME NEW q \in Nat, NEW s \in Nat \ {0}, NEW r \in 0..(s - 1)
  PROVE  (q * s + r) \div s = q /\ (q * s + r) % s = r
BY SMTT(30)

LEMMA Place ==
  ASSUME NEW n \in Nat, NEW s \in Nat \ {0}, NEW k \in 1..(n * s)
  PROVE  (k - 1) \div s + 1 \in 1..n /\ ((k - 1) % s) + 1 \in 1..s
BY SMTT(30)

LEMMA PlaceOf ==
  ASSUME NEW n \in Nat, NEW s \in Nat \ {0}, NEW k \in 1..n, NEW i \in 1..s
  PROVE  (k - 1) * s + i \in 1..(n * s)
BY SMTT(30)

(* Blocks: the parts, each at its place.                                   *)
LEMMA BlocksBytes ==
  ASSUME NEW size \in Nat \ {0}, NEW n \in Nat, NEW parts, Len(parts) = n,
         \A k \in 1..n : parts[k] \in Bytes /\ Len(parts[k]) = size,
         NEW b, b = Blocks(parts, size)
  PROVE  /\ b \in Bytes /\ Len(b) = n * size
         /\ \A k \in 1..n : \A i \in 1..size : b[(k - 1) * size + i] = parts[k][i]
<1> DEFINE at(k) == parts[(k - 1) \div size + 1][((k - 1) % size) + 1]
<1>1. b = [k \in 1..(n * size) |-> at(k)]
  BY DEF Blocks
<1>2. n * size \in Nat
  OBVIOUS
<1>3. ASSUME NEW k \in 1..(n * size) PROVE at(k) \in Byte
  <2>1. PICK q : q = (k - 1) \div size + 1 /\ q \in 1..n
    BY Place
  <2>2. PICK r : r = ((k - 1) % size) + 1 /\ r \in 1..size
    BY Place
  <2>3. PICK part \in Bytes : part = parts[q] /\ Len(part) = size
    BY <2>1
  <2>4. part[r] \in Byte
    <3>1. part \in Seq(Byte) /\ r \in 1..Len(part)
      BY <2>2, <2>3 DEF Bytes
    <3> QED
      BY ONLY <3>1, ElementOfSeq
  <2> QED
    BY <2>1, <2>2, <2>3, <2>4
<1>4. b \in [1..(n * size) -> Byte]
  <2> HIDE DEF at
  <2> QED
    BY ONLY <1>1, <1>3
<1>5. b \in Bytes /\ Len(b) = n * size
  <2> PICK m \in Nat : m = n * size
    BY <1>2
  <2>1. b \in [1..m -> Byte]
    BY <1>4
  <2>2. b \in Seq(Byte) /\ Len(b) = m
    BY ONLY <2>1, TableIsSeq
  <2> QED
    BY <2>2 DEF Bytes
<1>6. ASSUME NEW k \in 1..n, NEW i \in 1..size
      PROVE  b[(k - 1) * size + i] = parts[k][i]
  <2>1. PICK j : j = (k - 1) * size + i /\ j \in 1..(n * size)
    BY PlaceOf
  <2>2. (j - 1) \div size = k - 1 /\ (j - 1) % size = i - 1
    <3>1. k - 1 \in Nat /\ i - 1 \in 0..(size - 1)
      OBVIOUS
    <3>2. j - 1 = (k - 1) * size + (i - 1)
      BY <2>1
    <3>3. /\ ((k - 1) * size + (i - 1)) \div size = k - 1
          /\ ((k - 1) * size + (i - 1)) % size = i - 1
      BY ONLY <3>1, size \in Nat \ {0}, Divided
    <3> QED
      BY ONLY <3>2, <3>3
  <2>3. (j - 1) \div size + 1 = k /\ ((j - 1) % size) + 1 = i
    BY <2>2
  <2>4. at(j) = parts[k][i]
    BY ONLY <2>3
  <2>5. b[j] = at(j)
    BY ONLY <1>1, <2>1
  <2> QED
    BY ONLY <2>1, <2>4, <2>5
<1> QED
  BY <1>5, <1>6

(* Words: encoded one after the other, and read back                       *)

LEMMA WordsBytes ==
  ASSUME NEW n \in Nat, NEW ws \in [1..n -> Word], NEW b, b = Blocks(ws, 4)
  PROVE  /\ b \in Bytes /\ Len(b) = n * 4
         /\ \A k \in 1..n : \A i \in 1..4 : b[(k - 1) * 4 + i] = ws[k][i]
<1>1. Len(ws) = n
  BY TableIsSeq
<1>2. \A k \in 1..n : ws[k] \in Bytes /\ Len(ws[k]) = 4
  BY WordIsBytes
<1>3. PICK size \in Nat \ {0} : size = 4
  OBVIOUS
<1>4. /\ b \in Bytes /\ Len(b) = n * size
      /\ \A k \in 1..n : \A i \in 1..size : b[(k - 1) * size + i] = ws[k][i]
  <2>1. /\ Len(ws) = n /\ b = Blocks(ws, size)
        /\ \A k \in 1..n : ws[k] \in Bytes /\ Len(ws[k]) = size
    BY <1>1, <1>2, <1>3
  <2> QED
    BY ONLY <2>1, BlocksBytes
<1> QED
  BY ONLY <1>3, <1>4

LEMMA WordsBack ==
  ASSUME NEW n \in Nat, NEW ws \in [1..n -> Word], NEW d, NEW off \in Nat,
         \A i \in 1..(n * 4) : d[off + i] = Blocks(ws, 4)[i]
  PROVE  WordsAt(d, off, n) = ws
<1>1. PICK b : b = Blocks(ws, 4)
  OBVIOUS
<1>2. \A k \in 1..n : \A i \in 1..4 : b[(k - 1) * 4 + i] = ws[k][i]
  <2>1. n \in Nat /\ ws \in [1..n -> Word]
    OBVIOUS
  <2>2. /\ b \in Bytes /\ Len(b) = n * 4
        /\ \A k \in 1..n : \A i \in 1..4 : b[(k - 1) * 4 + i] = ws[k][i]
    BY ONLY <1>1, <2>1, WordsBytes, SMTT(60)
  <2> QED
    BY <2>2
<1>3. ASSUME NEW k \in 1..n, NEW i \in 1..4 PROVE d[off + 4 * (k - 1) + i] = ws[k][i]
  <2>1. PICK j : j = (k - 1) * 4 + i /\ j \in 1..(n * 4)
    <3>1. k \in 1..n /\ i \in 1..4 /\ n \in Nat
      OBVIOUS
    <3> QED
      BY ONLY <3>1
  <2>2. off + 4 * (k - 1) + i = off + j
    BY <2>1
  <2>3. d[off + j] = b[j]
    BY <1>1, <2>1
  <2>4. b[j] = ws[k][i]
    BY <1>2, <2>1
  <2> QED
    BY ONLY <2>2, <2>3, <2>4
<1>4. ASSUME NEW k \in 1..n PROVE [i \in 1..4 |-> d[off + 4 * (k - 1) + i]] = ws[k]
  <2>1. ws[k] \in [1..4 -> Byte]
    BY DEF Word
  <2> QED
    BY ONLY <1>3, <2>1
<1>5. [k \in 1..n |-> [i \in 1..4 |-> d[off + 4 * (k - 1) + i]]] = ws
  BY <1>4
<1> QED
  BY <1>5 DEF WordsAt

LEMMA PositionBytes ==
  ASSUME NEW p \in Position
  PROVE  EncodePosition(p) \in Bytes /\ Len(EncodePosition(p)) = 28
<1>1. 7 \in Nat /\ p \in [1..7 -> Word]
  BY DEF Position
<1>2. PICK b : b = Blocks(p, 4)
  OBVIOUS
<1>3. b \in Bytes /\ Len(b) = 7 * 4
  BY ONLY <1>1, <1>2, WordsBytes
<1> QED
  BY <1>2, <1>3 DEF EncodePosition

LEMMA PositionBack ==
  ASSUME NEW p \in Position, NEW d \in Bytes, ~(Len(d) < 28),
         \A i \in 1..28 : d[i] = EncodePosition(p)[i]
  PROVE  ParsePosition(d) = [ok |-> TRUE, value |-> p]
<1>1. 7 \in Nat /\ p \in [1..7 -> Word] /\ 0 \in Nat
  BY DEF Position
<1>2. \A i \in 1..(7 * 4) : d[0 + i] = Blocks(p, 4)[i]
  <2> SUFFICES ASSUME NEW i \in 1..(7 * 4) PROVE d[0 + i] = Blocks(p, 4)[i]
    OBVIOUS
  <2>1. i \in 1..28 /\ 0 + i = i
    OBVIOUS
  <2> QED
    BY <2>1 DEF EncodePosition
<1>3. WordsAt(d, 0, 7) = p
  BY ONLY <1>1, <1>2, WordsBack
<1> QED
  BY <1>3 DEF ParsePosition, PositionSize

LEMMA BoneBytes ==
  ASSUME NEW b \in BoneData, NEW e, e = EncodeBoneData(b)
  PROVE  /\ e \in Bytes /\ Len(e) = 17
         /\ e[1] = b.bone
         /\ \A i \in 1..16 : e[1 + i] = Blocks(b.q, 4)[i]
<1>1. b.bone \in Byte /\ b.q \in [1..4 -> Word] /\ 4 \in Nat
  BY DEF BoneData
<1>2. PICK w : w = Blocks(b.q, 4)
  OBVIOUS
<1>3. w \in Bytes /\ Len(w) = 4 * 4
  BY ONLY <1>1, <1>2, WordsBytes
<1>4. PICK t \in Bytes : t = <<b.bone>> /\ Len(t) = 1 /\ t[1] = b.bone
  BY <1>1, OneByte
<1>5. e = t \o w
  BY <1>2, <1>4 DEF EncodeBoneData
<1>6. /\ e \in Bytes /\ Len(e) = Len(t) + Len(w)
      /\ \A i \in 1..Len(t) : e[i] = t[i]
      /\ \A i \in 1..Len(w) : e[Len(t) + i] = w[i]
  <2>1. t \in Bytes /\ w \in Bytes
    BY <1>3, <1>4
  <2>2. /\ t \o w \in Bytes /\ Len(t \o w) = Len(t) + Len(w)
        /\ \A i \in 1..Len(t) : (t \o w)[i] = t[i]
        /\ \A i \in 1..Len(w) : (t \o w)[Len(t) + i] = w[i]
    BY ONLY <2>1, BytesConcat
  <2> QED
    BY ONLY <1>5, <2>2
<1>7. e[1] = b.bone
  BY <1>4, <1>6
<1>8. \A i \in 1..16 : e[1 + i] = w[i]
  BY <1>3, <1>4, <1>6
<1> QED
  BY <1>2, <1>3, <1>4, <1>6, <1>7, <1>8

LEMMA BoneBack ==
  ASSUME NEW b \in BoneData, NEW d \in Bytes, ~(Len(d) < 17),
         \A i \in 1..17 : d[i] = EncodeBoneData(b)[i]
  PROVE  ParseBoneData(d) = [ok |-> TRUE, value |-> b]
<1>1. b = [bone |-> b.bone, q |-> b.q] /\ b.q \in [1..4 -> Word] /\ 4 \in Nat /\ 1 \in Nat
  BY DEF BoneData
<1>2. PICK e : e = EncodeBoneData(b)
  OBVIOUS
<1>3. e[1] = b.bone /\ \A i \in 1..16 : e[1 + i] = Blocks(b.q, 4)[i]
  BY <1>2, BoneBytes
<1>4. d[1] = b.bone
  BY <1>2, <1>3
<1>5. \A i \in 1..(4 * 4) : d[1 + i] = Blocks(b.q, 4)[i]
  <2> SUFFICES ASSUME NEW i \in 1..(4 * 4) PROVE d[1 + i] = Blocks(b.q, 4)[i]
    OBVIOUS
  <2>1. i \in 1..16 /\ 1 + i \in 1..17
    OBVIOUS
  <2> QED
    BY <1>2, <1>3, <2>1
<1>6. WordsAt(d, 1, 4) = b.q
  BY ONLY <1>1, <1>5, WordsBack
<1>7. ParseBoneData(d) = [ok |-> TRUE, value |-> [bone |-> d[1], q |-> WordsAt(d, 1, 4)]]
  BY DEF ParseBoneData, BoneDataSize
<1> QED
  BY ONLY <1>1, <1>4, <1>6, <1>7

(* Inputs and joins                                                        *)

LEMMA InputBack ==
  ASSUME NEW keys \in Nat, keys \div 65536 < 65536
  PROVE  /\ EncodeInputPayload(keys) \in Bytes
         /\ Len(EncodeInputPayload(keys)) = 4
         /\ ParseInputPayload(EncodeInputPayload(keys)) = [ok |-> TRUE, value |-> keys]
<1>1. U32(keys) \in Bytes /\ Len(U32(keys)) = 4 /\ Uint32(U32(keys), 0) = keys
  BY U32Bytes
<1>2. ~(Len(U32(keys)) < InputPayloadSize)
  BY <1>1 DEF InputPayloadSize
<1> QED
  BY ONLY <1>1, <1>2 DEF EncodeInputPayload, ParseInputPayload

LEMMA JoinBack ==
  ASSUME NEW room \in Id
  PROVE  ParseJoinPayload(room) = [ok |-> TRUE, value |-> room]
<1>1. ~(Len(room) < JoinPayloadSize)
  <2>1. Len(room) = 16
    BY IdIsBytes
  <2> QED
    BY ONLY <2>1 DEF JoinPayloadSize
<1>2. [i \in 1..16 |-> room[i]] = room
  BY DEF Id
<1> QED
  BY ONLY <1>1, <1>2 DEF ParseJoinPayload

(* Updates: a mask, a position and as many bones as the mask has bits      *)

UpdateLaidOut(e, u, n) ==
  /\ e \in Bytes /\ Len(e) = 44 + n * 17
  /\ \A i \in 1..16 : e[i] = u.bitmask[i]
  /\ \A i \in 1..28 : e[16 + i] = EncodePosition(u.position)[i]
  /\ \A k \in 1..n : \A i \in 1..17 :
       e[44 + ((k - 1) * 17 + i)] = EncodeBoneData(u.bones[k])[i]

LEMMA UpdateBytes ==
  ASSUME NEW u \in ActorUpdate, NEW n \in Nat, n = Len(u.bones),
         NEW e, e = EncodeActorUpdate(u)
  PROVE  UpdateLaidOut(e, u, n)
<1>1. u.bitmask \in Id /\ u.position \in Position /\ u.bones \in Seq(BoneData)
  BY DEF ActorUpdate, Id
<1>2. PICK m \in Bytes : m = u.bitmask /\ Len(m) = 16
  BY <1>1, IdIsBytes
<1>3. PICK p \in Bytes : p = EncodePosition(u.position) /\ Len(p) = 28
  BY <1>1, PositionBytes
<1> DEFINE parts == [i \in DOMAIN u.bones |-> EncodeBoneData(u.bones[i])]
<1>4. /\ Len(parts) = n
      /\ \A k \in 1..n : parts[k] \in Bytes /\ Len(parts[k]) = 17
      /\ \A k \in 1..n : parts[k] = EncodeBoneData(u.bones[k])
  <2>1. DOMAIN u.bones = 1..n /\ \A k \in 1..n : u.bones[k] \in BoneData
    BY <1>1
  <2>2. \A k \in 1..n : EncodeBoneData(u.bones[k]) \in Bytes /\ Len(EncodeBoneData(u.bones[k])) = 17
    BY <2>1, BoneBytes
  <2>3. parts = [i \in 1..n |-> EncodeBoneData(u.bones[i])]
    BY <2>1
  <2>4. parts \in [1..n -> Bytes]
    BY ONLY <2>2, <2>3
  <2>5. Len(parts) = n
    BY ONLY <2>4, n \in Nat, TableIsSeq
  <2> QED
    BY <2>2, <2>3, <2>5
<1> DEFINE q == Blocks(parts, 17)
<1>5. /\ q \in Bytes /\ Len(q) = n * 17
      /\ \A k \in 1..n : \A i \in 1..17 : q[(k - 1) * 17 + i] = parts[k][i]
  <2> HIDE DEF parts
  <2>1. PICK size \in Nat \ {0} : size = 17
    OBVIOUS
  <2>2. PICK b : b = Blocks(parts, size)
    OBVIOUS
  <2>3. /\ Len(parts) = n
        /\ \A k \in 1..n : parts[k] \in Bytes /\ Len(parts[k]) = size
    BY ONLY <1>4, <2>1
  <2>4. /\ b \in Bytes /\ Len(b) = n * size
        /\ \A k \in 1..n : \A i \in 1..size : b[(k - 1) * size + i] = parts[k][i]
    BY ONLY <2>2, <2>3, n \in Nat, BlocksBytes
  <2> QED
    BY ONLY <2>1, <2>2, <2>4
<1>6. e = (m \o p) \o q
  BY <1>2, <1>3 DEF EncodeActorUpdate, BoneDataSize
<1>7. \A k \in 1..n : parts[k] = EncodeBoneData(u.bones[k])
  BY <1>4
<1> HIDE DEF parts, q
<1> DEFINE a == m \o p
<1>8. /\ a \in Bytes /\ Len(a) = 44
      /\ \A i \in 1..16 : a[i] = m[i]
      /\ \A i \in 1..28 : a[16 + i] = p[i]
  <2>1. /\ a \in Bytes /\ Len(a) = Len(m) + Len(p)
        /\ \A i \in 1..Len(m) : a[i] = m[i]
        /\ \A i \in 1..Len(p) : a[Len(m) + i] = p[i]
    BY BytesConcat
  <2> HIDE DEF a
  <2> QED
    BY <1>2, <1>3, <2>1
<1>9. /\ e \in Bytes /\ Len(e) = 44 + n * 17
      /\ \A i \in 1..44 : e[i] = a[i]
      /\ \A i \in 1..(n * 17) : e[44 + i] = q[i]
  <2>1. e = a \o q
    BY <1>6
  <2> HIDE DEF a
  <2>2. a \in Bytes /\ q \in Bytes
    BY <1>5, <1>8
  <2>3. /\ e \in Bytes /\ Len(e) = Len(a) + Len(q)
        /\ \A i \in 1..Len(a) : e[i] = a[i]
        /\ \A i \in 1..Len(q) : e[Len(a) + i] = q[i]
    BY ONLY <2>1, <2>2, BytesConcat
  <2>4. Len(a) = 44 /\ Len(q) = n * 17
    BY <1>5, <1>8
  <2> QED
    BY ONLY <2>3, <2>4
<1> HIDE DEF a
<1>10. ASSUME NEW i \in 1..16 PROVE e[i] = u.bitmask[i]
  <2>1. i \in 1..44
    OBVIOUS
  <2> QED
    BY <1>2, <1>8, <1>9, <2>1
<1>11. ASSUME NEW i \in 1..28 PROVE e[16 + i] = EncodePosition(u.position)[i]
  <2>1. 16 + i \in 1..44
    OBVIOUS
  <2>2. e[16 + i] = a[16 + i]
    BY <1>9, <2>1
  <2> QED
    BY <1>3, <1>8, <2>2
<1>12. ASSUME NEW k \in 1..n, NEW i \in 1..17
       PROVE  e[44 + ((k - 1) * 17 + i)] = EncodeBoneData(u.bones[k])[i]
  <2>1. PICK j : j = (k - 1) * 17 + i /\ j \in 1..(n * 17)
    OBVIOUS
  <2>2. e[44 + j] = q[j]
    BY <1>9, <2>1
  <2>3. q[j] = parts[k][i]
    BY <1>5, <2>1
  <2> QED
    BY ONLY <1>7, <2>1, <2>2, <2>3, k \in 1..n
<1> QED
  BY ONLY <1>9, <1>10, <1>11, <1>12 DEF UpdateLaidOut

LEMMA UpdateBack ==
  ASSUME NEW u \in ActorUpdate, Len(u.bones) = CountSetBits(u.bitmask)
  PROVE  ParseActorUpdate(EncodeActorUpdate(u)) = [ok |-> TRUE, value |-> u]
<1>1. /\ u.bitmask \in [1..16 -> Byte] /\ u.position \in Position /\ u.bones \in Seq(BoneData)
      /\ u = [bitmask |-> u.bitmask, position |-> u.position, bones |-> u.bones]
  BY DEF ActorUpdate
<1>2. PICK n \in Nat : n = Len(u.bones)
  BY <1>1
<1>3. PICK e : e = EncodeActorUpdate(u)
  OBVIOUS
<1>4. UpdateLaidOut(e, u, n)
  BY <1>2, <1>3, UpdateBytes
<1>5. e \in Bytes /\ Len(e) = 44 + n * 17 /\ Len(e) \in Nat
  BY <1>4 DEF UpdateLaidOut
<1>6. \A i \in 1..16 : e[i] = u.bitmask[i]
  BY <1>4 DEF UpdateLaidOut
<1>7. CountSetBits(e) = n
  BY <1>2, <1>6, BitsBegin DEF BitmaskSize
<1>8. SubSeq(e, 1, 16) = u.bitmask
  <2>1. PICK a : a = SubSeq(e, 1, 16)
    OBVIOUS
  <2>2. 16 \in 0..Len(e)
    BY <1>5
  <2>3. Begins(a, e) /\ Len(a) = 16
    BY <1>5, <2>1, <2>2, PrefixBegins
  <2>4. a \in Seq(Byte) /\ \A i \in 1..16 : a[i] = e[i]
    BY <2>3 DEF Begins, Bytes
  <2>5. u.bitmask \in Bytes /\ Len(u.bitmask) = 16
    BY <1>1, IdIsBytes DEF Id
  <2>6. /\ a \in Seq(Byte) /\ u.bitmask \in Seq(Byte) /\ Len(a) = Len(u.bitmask)
        /\ \A i \in 1..Len(a) : a[i] = u.bitmask[i]
    BY <1>6, <2>3, <2>4, <2>5 DEF Bytes
  <2>7. a = u.bitmask
    BY ONLY <2>6, SeqEqual
  <2> QED
    BY <2>1, <2>7
<1>9. ParsePosition(From(e, 16)).value = u.position
  <2>1. PICK f : f = From(e, 16)
    OBVIOUS
  <2>2. 16 \in Nat /\ 16 <= Len(e)
    BY <1>5
  <2>3. /\ f \in Bytes /\ Len(f) = Len(e) - 16
        /\ \A i \in 1..(Len(e) - 16) : f[i] = e[16 + i]
    BY <1>5, <2>1, <2>2, FromProperties
  <2>4. ~(Len(f) < 28) /\ \A i \in 1..28 : f[i] = e[16 + i]
    BY <1>5, <2>3
  <2>5. \A i \in 1..28 : f[i] = EncodePosition(u.position)[i]
    BY <1>4, <2>4 DEF UpdateLaidOut
  <2>6. ParsePosition(f) = [ok |-> TRUE, value |-> u.position]
    BY <1>1, <2>3, <2>4, <2>5, PositionBack
  <2> QED
    BY <2>1, <2>6
<1>10. ASSUME NEW k \in 1..n PROVE ParseBoneData(From(e, 44 + (k - 1) * 17)).value = u.bones[k]
  <2>1. PICK at \in Nat : at = 44 + (k - 1) * 17
    BY <1>2
  <2>2. PICK f : f = From(e, at)
    OBVIOUS
  <2>3. at + 17 <= Len(e) /\ Len(e) \in Nat
    BY <1>2, <1>5, <2>1
  <2>4. /\ f \in Bytes /\ Len(f) = Len(e) - at
        /\ \A i \in 1..(Len(e) - at) : f[i] = e[at + i]
    <3>1. at <= Len(e) /\ e \in Bytes
      BY <1>5, <2>3
    <3> QED
      BY ONLY <2>2, <3>1, at \in Nat, FromProperties
  <2>5. ~(Len(f) < 17)
    BY <2>3, <2>4
  <2>6. ASSUME NEW i \in 1..17 PROVE f[i] = EncodeBoneData(u.bones[k])[i]
    <3>1. f[i] = e[at + i]
      <4>1. i \in 1..17 /\ at \in Nat
        OBVIOUS
      <4>2. i \in 1..(Len(e) - at)
        BY ONLY <2>3, <4>1
      <4> QED
        BY ONLY <2>4, <4>2
    <3>2. e[44 + ((k - 1) * 17 + i)] = EncodeBoneData(u.bones[k])[i]
      BY <1>4 DEF UpdateLaidOut
    <3>3. at + i = 44 + ((k - 1) * 17 + i)
      BY <2>1
    <3> QED
      BY ONLY <3>1, <3>2, <3>3
  <2>7. u.bones[k] \in BoneData
    <3>1. k \in 1..Len(u.bones) /\ u.bones \in Seq(BoneData)
      BY <1>1, <1>2
    <3> QED
      BY ONLY <3>1
  <2>8. ParseBoneData(f) = [ok |-> TRUE, value |-> u.bones[k]]
    BY ONLY <2>4, <2>5, <2>6, <2>7, BoneBack
  <2> QED
    BY <2>1, <2>2, <2>8
<1> DEFINE bones == [i \in 1..n |-> ParseBoneData(From(e, 44 + (i - 1) * 17)).value]
<1>11. bones = u.bones
  <2>1. u.bones \in [1..n -> BoneData]
    BY <1>1, <1>2
  <2> QED
    BY ONLY <1>10, <2>1
<1>12. ParseActorUpdate(e) =
         IF Len(e) < 44 \/ 44 + n * 17 > Len(e) THEN Invalid
         ELSE [ok |-> TRUE, value |-> [bitmask |-> SubSeq(e, 1, 16),
                                       position |-> ParsePosition(From(e, 16)).value,
                                       bones |-> bones]]
  BY <1>7 DEF ParseActorUpdate, BitmaskSize, PositionSize, BoneDataSize
<1>13. ~(Len(e) < 44) /\ ~(44 + n * 17 > Len(e))
  BY <1>5
<1> HIDE DEF bones
<1> QED
  BY ONLY <1>1, <1>3, <1>8, <1>9, <1>11, <1>12, <1>13

(* Frames: a count of 16 bits and the actors                               *)

ActorLaidOut(e, off, a) ==
  /\ \A i \in 1..16 : e[off + i] = a.id[i]
  /\ \A i \in 1..4 : e[off + 16 + i] = a.x[i]
  /\ \A i \in 1..4 : e[off + 20 + i] = a.y[i]

LEMMA ActorBytes ==
  ASSUME NEW a \in ActorPosition, NEW e, e = EncodeActor(a)
  PROVE  e \in Bytes /\ Len(e) = 24 /\ ActorLaidOut(e, 0, a)
<1>1. a.id \in Id /\ a.x \in Word /\ a.y \in Word
  BY DEF ActorPosition
<1>2. PICK id \in Bytes : id = a.id /\ Len(id) = 16
  BY <1>1, IdIsBytes
<1>3. PICK x \in Bytes : x = a.x /\ Len(x) = 4
  BY <1>1, WordIsBytes
<1>4. PICK y \in Bytes : y = a.y /\ Len(y) = 4
  BY <1>1, WordIsBytes
<1> DEFINE b == id \o x
<1>5. e = b \o y
  BY <1>2, <1>3, <1>4 DEF EncodeActor
<1>6. /\ b \in Bytes /\ Len(b) = 20
      /\ \A i \in 1..16 : b[i] = id[i]
      /\ \A i \in 1..4 : b[16 + i] = x[i]
  <2>1. /\ b \in Bytes /\ Len(b) = Len(id) + Len(x)
        /\ \A i \in 1..Len(id) : b[i] = id[i]
        /\ \A i \in 1..Len(x) : b[Len(id) + i] = x[i]
    BY BytesConcat
  <2> HIDE DEF b
  <2> QED
    BY <1>2, <1>3, <2>1
<1> HIDE DEF b
<1>7. /\ e \in Bytes /\ Len(e) = 24
      /\ \A i \in 1..20 : e[i] = b[i]
      /\ \A i \in 1..4 : e[20 + i] = y[i]
  <2>1. b \in Bytes /\ y \in Bytes
    BY <1>6
  <2>2. /\ e \in Bytes /\ Len(e) = Len(b) + Len(y)
        /\ \A i \in 1..Len(b) : e[i] = b[i]
        /\ \A i \in 1..Len(y) : e[Len(b) + i] = y[i]
    BY ONLY <1>5, <2>1, BytesConcat
  <2> QED
    BY <1>4, <1>6, <2>2
<1>8. ASSUME NEW i \in 1..16 PROVE e[0 + i] = a.id[i]
  <2>1. i \in 1..20 /\ 0 + i = i
    OBVIOUS
  <2> QED
    BY <1>2, <1>6, <1>7, <2>1
<1>9. ASSUME NEW i \in 1..4 PROVE e[0 + 16 + i] = a.x[i]
  <2>1. 16 + i \in 1..20 /\ 0 + 16 + i = 16 + i
    OBVIOUS
  <2>2. e[16 + i] = b[16 + i]
    BY <1>7, <2>1
  <2> QED
    BY <1>3, <1>6, <2>1, <2>2
<1>10. ASSUME NEW i \in 1..4 PROVE e[0 + 20 + i] = a.y[i]
  <2>1. 0 + 20 + i = 20 + i
    OBVIOUS
  <2> QED
    BY <1>4, <1>7, <2>1
<1> QED
  BY ONLY <1>7, <1>8, <1>9, <1>10 DEF ActorLaidOut

FrameLaidOut(e, actors, n) ==
  /\ e \in Bytes /\ Len(e) = 2 + n * 24
  /\ e[1] \in Byte /\ e[2] \in Byte /\ e[1] + 256 * e[2] = n % 65536
  /\ \A k \in 1..n : ActorLaidOut(e, 2 + (k - 1) * 24, actors[k])

LEMMA FrameBytes ==
  ASSUME NEW actors \in Seq(ActorPosition), NEW n \in Nat, n = Len(actors),
         NEW e, e = EncodeActorPositions(actors)
  PROVE  FrameLaidOut(e, actors, n)
<1> DEFINE parts == [i \in DOMAIN actors |-> EncodeActor(actors[i])]
<1>1. /\ Len(parts) = n
      /\ \A k \in 1..n : parts[k] \in Bytes /\ Len(parts[k]) = 24
      /\ \A k \in 1..n : ActorLaidOut(parts[k], 0, actors[k])
  <2>1. DOMAIN actors = 1..n /\ \A k \in 1..n : actors[k] \in ActorPosition
    OBVIOUS
  <2>2. \A k \in 1..n : /\ EncodeActor(actors[k]) \in Bytes /\ Len(EncodeActor(actors[k])) = 24
                        /\ ActorLaidOut(EncodeActor(actors[k]), 0, actors[k])
    BY <2>1, ActorBytes
  <2>3. parts = [i \in 1..n |-> EncodeActor(actors[i])]
    BY <2>1
  <2>4. parts \in [1..n -> Bytes]
    BY ONLY <2>2, <2>3
  <2>5. Len(parts) = n
    BY ONLY <2>4, n \in Nat, TableIsSeq
  <2> QED
    BY <2>2, <2>3, <2>5
<1> DEFINE q == Blocks(parts, 24)
<1>2. /\ q \in Bytes /\ Len(q) = n * 24
      /\ \A k \in 1..n : \A i \in 1..24 : q[(k - 1) * 24 + i] = parts[k][i]
  <2> HIDE DEF parts
  <2>1. PICK size \in Nat \ {0} : size = 24
    OBVIOUS
  <2>2. PICK b : b = Blocks(parts, size)
    OBVIOUS
  <2>3. /\ Len(parts) = n
        /\ \A k \in 1..n : parts[k] \in Bytes /\ Len(parts[k]) = size
    BY ONLY <1>1, <2>1
  <2>4. /\ b \in Bytes /\ Len(b) = n * size
        /\ \A k \in 1..n : \A i \in 1..size : b[(k - 1) * size + i] = parts[k][i]
    BY ONLY <2>2, <2>3, n \in Nat, BlocksBytes
  <2> QED
    BY ONLY <2>1, <2>2, <2>4
<1>3. PICK c \in Bytes : /\ c = U16(n) /\ Len(c) = 2
                         /\ c[1] \in Byte /\ c[2] \in Byte /\ c[1] + 256 * c[2] = n % 65536
  BY U16Bytes
<1>4. e = c \o q
  BY <1>3 DEF EncodeActorPositions, ActorSize
<1>5. \A k \in 1..n : ActorLaidOut(parts[k], 0, actors[k])
  BY <1>1
<1> HIDE DEF parts, q
<1>6. /\ e \in Bytes /\ Len(e) = 2 + n * 24
      /\ e[1] = c[1] /\ e[2] = c[2]
      /\ \A i \in 1..(n * 24) : e[2 + i] = q[i]
  <2>1. /\ e \in Bytes /\ Len(e) = Len(c) + Len(q)
        /\ \A i \in 1..Len(c) : e[i] = c[i]
        /\ \A i \in 1..Len(q) : e[Len(c) + i] = q[i]
    BY ONLY c \in Bytes, <1>2, <1>4, BytesConcat
  <2>2. Len(c) = 2 /\ Len(q) = n * 24
    BY <1>2, <1>3
  <2>3. e \in Bytes /\ Len(e) = 2 + n * 24
    BY ONLY <2>1, <2>2
  <2> QED
    BY ONLY <2>1, <2>2, <2>3
<1>7. ASSUME NEW k \in 1..n PROVE ActorLaidOut(e, 2 + (k - 1) * 24, actors[k])
  <2>1. PICK off \in Nat : off = 2 + (k - 1) * 24
    OBVIOUS
  <2>2. ASSUME NEW i \in 1..24 PROVE e[off + i] = parts[k][i]
    <3>1. PICK j : j = (k - 1) * 24 + i /\ j \in 1..(n * 24)
      OBVIOUS
    <3>2. e[2 + j] = q[j]
      BY <1>6, <3>1
    <3>3. q[j] = parts[k][i]
      BY <1>2, <3>1
    <3>4. off + i = 2 + j
      BY <2>1, <3>1
    <3> QED
      BY ONLY <3>2, <3>3, <3>4
  <2>3. PICK p : p = parts[k]
    OBVIOUS
  <2>4. ActorLaidOut(p, 0, actors[k]) /\ \A i \in 1..24 : e[off + i] = p[i]
    BY <1>5, <2>2, <2>3
  <2>5. ASSUME NEW i \in 1..16 PROVE e[off + i] = actors[k].id[i]
    <3>1. i \in 1..24 /\ 0 + i = i
      OBVIOUS
    <3> QED
      BY <2>4, <3>1 DEF ActorLaidOut
  <2>6. ASSUME NEW i \in 1..4 PROVE e[off + 16 + i] = actors[k].x[i]
    <3>1. 16 + i \in 1..24 /\ off + 16 + i = off + (16 + i) /\ 0 + 16 + i = 16 + i
      OBVIOUS
    <3>2. e[off + (16 + i)] = p[16 + i]
      BY <2>4, <3>1
    <3> QED
      BY <2>4, <3>1, <3>2 DEF ActorLaidOut
  <2>7. ASSUME NEW i \in 1..4 PROVE e[off + 20 + i] = actors[k].y[i]
    <3>1. 20 + i \in 1..24 /\ off + 20 + i = off + (20 + i) /\ 0 + 20 + i = 20 + i
      OBVIOUS
    <3>2. e[off + (20 + i)] = p[20 + i]
      BY <2>4, <3>1
    <3> QED
      BY <2>4, <3>1, <3>2 DEF ActorLaidOut
  <2>8. ActorLaidOut(e, off, actors[k])
    BY ONLY <2>5, <2>6, <2>7 DEF ActorLaidOut
  <2> QED
    BY <2>1, <2>8
<1> QED
  BY ONLY <1>3, <1>6, <1>7 DEF FrameLaidOut

LEMMA FrameBack ==
  ASSUME NEW actors \in Seq(ActorPosition), NEW n \in Nat, n = Len(actors), n < 65536,
         NEW e, FrameLaidOut(e, actors, n),
         NEW d \in Bytes, Len(d) = 27 + Len(e), \A i \in 1..Len(e) : d[27 + i] = e[i]
  PROVE  DecodeActorBroadcast(d) = [ok |-> TRUE, value |-> actors]
<1>1. /\ e \in Bytes /\ Len(e) = 2 + n * 24 /\ Len(d) = 29 + n * 24
      /\ e[1] \in Byte /\ e[2] \in Byte /\ e[1] + 256 * e[2] = n % 65536
  BY DEF FrameLaidOut
<1>2. Uint16(d, 27) = n
  <2>1. 1 \in 1..Len(e) /\ 2 \in 1..Len(e)
    BY <1>1
  <2>2. d[27 + 1] = e[1] /\ d[27 + 2] = e[2]
    BY <2>1
  <2>3. Uint16(d, 27) = e[1] + 256 * e[2]
    BY ONLY <2>2 DEF Uint16
  <2>4. n % 65536 = n
    OBVIOUS
  <2> QED
    BY ONLY <1>1, <2>3, <2>4
<1> DEFINE actor(m) == [id |-> [k \in 1..16 |-> d[m + k]],
                        x |-> WordsAt(d, m + 16, 1)[1],
                        y |-> WordsAt(d, m + 20, 1)[1]]
<1>3. ASSUME NEW k \in 1..n PROVE actor(29 + (k - 1) * 24) = actors[k]
  <2>1. PICK off \in Nat : off = 2 + (k - 1) * 24
    OBVIOUS
  <2>2. PICK at \in Nat : at = 29 + (k - 1) * 24 /\ at = 27 + off
    BY <2>1
  <2>3. PICK a \in ActorPosition : a = actors[k]
    OBVIOUS
  <2>4. ActorLaidOut(e, off, a)
    BY <2>1, <2>3 DEF FrameLaidOut
  <2>5. ASSUME NEW i \in 1..24 PROVE d[at + i] = e[off + i]
    <3>1. off + i \in 1..Len(e)
      BY <1>1, <2>1
    <3>2. at + i = 27 + (off + i)
      BY <2>2
    <3>3. d[27 + (off + i)] = e[off + i]
      BY <3>1
    <3> QED
      BY ONLY <3>2, <3>3
  <2>6. ASSUME NEW i \in 1..16 PROVE d[at + i] = a.id[i]
    <3>1. i \in 1..24 /\ i \in 1..16
      OBVIOUS
    <3>2. d[at + i] = e[off + i]
      BY ONLY <2>5, <3>1
    <3>3. e[off + i] = a.id[i]
      BY ONLY <2>4, <3>1 DEF ActorLaidOut
    <3> QED
      BY ONLY <3>2, <3>3
  <2>7. ASSUME NEW i \in 1..4 PROVE d[at + 16 + 4 * (1 - 1) + i] = a.x[i]
    <3>1. i \in 1..4 /\ 16 + i \in 1..24 /\ at + 16 + 4 * (1 - 1) + i = at + (16 + i) /\ off + (16 + i) = off + 16 + i
      OBVIOUS
    <3>2. d[at + (16 + i)] = e[off + (16 + i)]
      BY ONLY <2>5, <3>1
    <3>3. e[off + 16 + i] = a.x[i]
      BY ONLY <2>4, <3>1 DEF ActorLaidOut
    <3> QED
      BY ONLY <3>1, <3>2, <3>3
  <2>8. ASSUME NEW i \in 1..4 PROVE d[at + 20 + 4 * (1 - 1) + i] = a.y[i]
    <3>1. i \in 1..4 /\ 20 + i \in 1..24 /\ at + 20 + 4 * (1 - 1) + i = at + (20 + i) /\ off + (20 + i) = off + 20 + i
      OBVIOUS
    <3>2. d[at + (20 + i)] = e[off + (20 + i)]
      BY ONLY <2>5, <3>1
    <3>3. e[off + 20 + i] = a.y[i]
      BY ONLY <2>4, <3>1 DEF ActorLaidOut
    <3> QED
      BY ONLY <3>1, <3>2, <3>3
  <2>9. /\ a.id \in [1..16 -> Byte] /\ a.x \in [1..4 -> Byte] /\ a.y \in [1..4 -> Byte]
        /\ a = [id |-> a.id, x |-> a.x, y |-> a.y]
    BY DEF ActorPosition, Id, Word
  <2>10. [i \in 1..16 |-> d[at + i]] = a.id
    BY ONLY <2>6, <2>9
  <2>11. WordsAt(d, at + 16, 1)[1] = a.x
    <3>1. [i \in 1..4 |-> d[at + 16 + 4 * (1 - 1) + i]] = a.x
      BY ONLY <2>7, <2>9
    <3>2. WordsAt(d, at + 16, 1)[1] = [i \in 1..4 |-> d[at + 16 + 4 * (1 - 1) + i]]
      BY DEF WordsAt
    <3> QED
      BY ONLY <3>1, <3>2
  <2>12. WordsAt(d, at + 20, 1)[1] = a.y
    <3>1. [i \in 1..4 |-> d[at + 20 + 4 * (1 - 1) + i]] = a.y
      BY ONLY <2>8, <2>9
    <3>2. WordsAt(d, at + 20, 1)[1] = [i \in 1..4 |-> d[at + 20 + 4 * (1 - 1) + i]]
      BY DEF WordsAt
    <3> QED
      BY ONLY <3>1, <3>2
  <2>13. actor(at) = a
    BY ONLY <2>9, <2>10, <2>11, <2>12
  <2> QED
    BY <2>2, <2>3, <2>13
<1> DEFINE read == [i \in 1..n |-> actor(29 + (i - 1) * 24)]
<1>4. read = actors
  <2>1. actors \in [1..n -> ActorPosition]
    OBVIOUS
  <2> HIDE DEF actor
  <2> QED
    BY ONLY <1>3, <2>1
<1>5. DecodeActorBroadcast(d) = IF Len(d) < 29 \/ Len(d) < 29 + n * 24 THEN Invalid
                                ELSE [ok |-> TRUE, value |-> read]
  <2>1. n = Uint16(d, 27)
    BY <1>2
  <2> QED
    BY ONLY <2>1 DEF DecodeActorBroadcast, BodyStart, HeaderSize, PayloadHeaderSize, ActorSize
<1>6. ~(Len(d) < 29) /\ ~(Len(d) < 29 + n * 24)
  BY ONLY <1>1, n \in Nat
<1> HIDE DEF read
<1> QED
  BY <1>4, <1>5, <1>6

-----------------------------------------------------------------------------
(* The messages, kind by kind                                              *)

LEMMA Codes ==
  /\ DataType.input = 1 /\ DataType.actor = 2 /\ DataType.voice = 3 /\ DataType.control = 4
  /\ ActorSubType.spawn = 1 /\ ActorSubType.update = 2
  /\ ControlSubType.join = 1 /\ ControlSubType.leave = 2 /\ ControlSubType.assign = 7
  /\ \A n \in 0..7 : n \in Byte
BY DEF DataType, ActorSubType, ControlSubType, Byte

LEMMA NothingIsBytes == <<>> \in Bytes /\ Len(<<>>) = 0
BY DEF Bytes

LEMMA EncodedInput ==
  ASSUME NEW m \in Message, m.kind = "input"
  PROVE  IsPacket(Encode(m), m.id, 1, 0, EncodeInputPayload(m.keys))
<1>1. m.id \in Id /\ m.seq \in Nat /\ m.keys \in Nat /\ m.keys \div 65536 < 65536
  BY MessageAssumption
<1>2. Encode(m) = Packet(m.id, m.seq, 1, 0, EncodeInputPayload(m.keys))
  BY Codes DEF Encode, EncodeInputMessage
<1>3. EncodeInputPayload(m.keys) \in Bytes
  BY <1>1, InputBack
<1>4. 1 \in Byte /\ 0 \in Byte
  BY Codes
<1> QED
  BY ONLY <1>1, <1>2, <1>3, <1>4, PacketParts

LEMMA EncodedSpawn ==
  ASSUME NEW m \in Message, m.kind = "spawn"
  PROVE  IsPacket(Encode(m), m.id, 2, 1, EncodePosition(m.position))
<1>1. m.id \in Id /\ m.seq \in Nat /\ m.position \in Position
  BY MessageAssumption
<1>2. Encode(m) = Packet(m.id, m.seq, 2, 1, EncodePosition(m.position))
  BY Codes DEF Encode
<1>3. EncodePosition(m.position) \in Bytes
  BY <1>1, PositionBytes
<1>4. 2 \in Byte /\ 1 \in Byte
  BY Codes
<1> QED
  BY ONLY <1>1, <1>2, <1>3, <1>4, PacketParts

LEMMA EncodedUpdate ==
  ASSUME NEW m \in Message, m.kind = "update"
  PROVE  IsPacket(Encode(m), m.id, 2, 2, EncodeActorUpdate(m.update))
<1>1. m.id \in Id /\ m.seq \in Nat /\ m.update \in ActorUpdate
  BY MessageAssumption
<1>2. Encode(m) = Packet(m.id, m.seq, 2, 2, EncodeActorUpdate(m.update))
  BY Codes DEF Encode
<1>3. EncodeActorUpdate(m.update) \in Bytes
  <2>1. PICK n \in Nat : n = Len(m.update.bones)
    BY <1>1 DEF ActorUpdate
  <2>2. UpdateLaidOut(EncodeActorUpdate(m.update), m.update, n)
    BY <1>1, <2>1, UpdateBytes
  <2> QED
    BY <2>2 DEF UpdateLaidOut
<1>4. 2 \in Byte
  BY Codes
<1> QED
  BY ONLY <1>1, <1>2, <1>3, <1>4, PacketParts

LEMMA EncodedVoice ==
  ASSUME NEW m \in Message, m.kind = "voice"
  PROVE  IsPacket(Encode(m), m.id, 3, 0, m.data)
<1>1. m.id \in Id /\ m.seq \in Nat /\ m.data \in Bytes
  BY MessageAssumption
<1>2. Encode(m) = Packet(m.id, m.seq, 3, 0, m.data)
  BY Codes DEF Encode
<1>3. 3 \in Byte /\ 0 \in Byte
  BY Codes
<1> QED
  BY ONLY <1>1, <1>2, <1>3, PacketParts

LEMMA EncodedJoin ==
  ASSUME NEW m \in Message, m.kind = "join"
  PROVE  IsPacket(Encode(m), m.id, 4, 1, m.room)
<1>1. m.id \in Id /\ m.seq \in Nat /\ m.room \in Id /\ m.room \in Bytes
  BY MessageAssumption, IdIsBytes
<1>2. Encode(m) = Packet(m.id, m.seq, 4, 1, m.room)
  BY Codes DEF Encode, EncodeJoinMessage
<1>3. 4 \in Byte /\ 1 \in Byte
  BY Codes
<1> QED
  BY ONLY <1>1, <1>2, <1>3, PacketParts

LEMMA EncodedControl ==
  ASSUME NEW m \in Message, m.kind = "control"
  PROVE  IsPacket(Encode(m), m.id, 4, m.sub, <<>>)
<1>1. m.id \in Id /\ m.seq \in Nat /\ m.sub \in Byte
  BY MessageAssumption
<1>2. Encode(m) = Packet(m.id, m.seq, 4, m.sub, <<>>)
  BY Codes DEF Encode, EncodeControlMessage
<1>3. 4 \in Byte /\ <<>> \in Bytes
  BY Codes, NothingIsBytes
<1> QED
  BY ONLY <1>1, <1>2, <1>3, PacketParts

LEMMA EncodedAssign ==
  ASSUME NEW m \in Message, m.kind = "assign"
  PROVE  IsPacket(Encode(m), m.id, 4, 7, <<>>)
<1>1. m.id \in Id
  BY MessageAssumption
<1>2. Encode(m) = Packet(m.id, 0, 4, 7, <<>>)
  BY Codes DEF Encode, EncodeAssignMessage
<1>3. 4 \in Byte /\ 7 \in Byte /\ <<>> \in Bytes /\ 0 \in Nat
  BY Codes, NothingIsBytes
<1> QED
  BY ONLY <1>1, <1>2, <1>3, PacketParts

LEMMA EncodedActors ==
  ASSUME NEW m \in Message, m.kind = "actors"
  PROVE  IsPacket(Encode(m), NoRoom, 2, 2, EncodeActorPositions(m.actors))
<1>1. m.actors \in Seq(ActorPosition)
  BY MessageAssumption
<1>2. PICK payload : payload = EncodeActorPositions(m.actors)
  OBVIOUS
<1>3. Encode(m) = Packet(NoRoom, 0, 2, 2, payload)
  BY <1>2, Codes DEF Encode, EncodeActorBroadcastMessage, Packet
<1>4. payload \in Bytes
  <2>1. PICK n \in Nat : n = Len(m.actors)
    BY <1>1
  <2>2. FrameLaidOut(payload, m.actors, n)
    BY <1>1, <1>2, <2>1, FrameBytes
  <2> QED
    BY <2>2 DEF FrameLaidOut
<1>5. 2 \in Byte /\ 0 \in Nat /\ NoRoom \in Id
  BY Codes DEF NoRoom, Id, Byte
<1>6. IsPacket(Encode(m), NoRoom, 2, 2, payload)
  BY ONLY <1>3, <1>4, <1>5, PacketParts
<1> QED
  BY <1>2, <1>6

(* The kinds there are, by whom they are for                               *)
LEMMA Kinds ==
  ASSUME NEW m \in Message, m.kind # "raw"
  PROVE  m.kind \in {"input", "spawn", "update", "voice", "join", "control", "assign", "actors"}
BY MessageAssumption DEF Kind

LEMMA EncodedIsPacket ==
  ASSUME NEW m \in Message, m.kind # "raw"
  PROVE  \E id, type, sub, payload : IsPacket(Encode(m), id, type, sub, payload)
<1>1. CASE m.kind = "input"
  BY <1>1, EncodedInput
<1>2. CASE m.kind = "spawn"
  BY <1>2, EncodedSpawn
<1>3. CASE m.kind = "update"
  BY <1>3, EncodedUpdate
<1>4. CASE m.kind = "voice"
  BY <1>4, EncodedVoice
<1>5. CASE m.kind = "join"
  BY <1>5, EncodedJoin
<1>6. CASE m.kind = "control"
  BY <1>6, EncodedControl
<1>7. CASE m.kind = "assign"
  BY <1>7, EncodedAssign
<1>8. CASE m.kind = "actors"
  BY <1>8, EncodedActors
<1> QED
  BY <1>1, <1>2, <1>3, <1>4, <1>5, <1>6, <1>7, <1>8, Kinds

LEMMA EncodedIsBytes ==
  ASSUME NEW m \in Message PROVE Encode(m) \in Bytes
<1>1. CASE m.kind = "raw"
  <2>1. Encode(m) = m.data
    BY <1>1 DEF Encode
  <2> QED
    BY <1>1, <2>1, MessageAssumption
<1>2. CASE m.kind # "raw"
  BY <1>2, EncodedIsPacket DEF IsPacket
<1> QED
  BY <1>1, <1>2
(* The readers, on a packet                                                *)

LEMMA EndpointOnPacket ==
  ASSUME NEW d, NEW id, NEW type, NEW sub, NEW payload, IsPacket(d, id, type, sub, payload)
  PROVE  HandleData(d) = IF id # SelfId THEN Rejected
                         ELSE IF type = 4 THEN HandleControlMessage(sub, d)
                         ELSE [kind |-> "data"]
<1>1. /\ ParseHeader(d).ok /\ ParseHeader(d).value.sessionID = id
      /\ Header(d).ok /\ Header(d).type = type /\ Header(d).sub = sub
  BY DEF IsPacket
<1> QED
  BY ONLY <1>1, Codes DEF HandleData, Header

LEMMA AppOnPacket ==
  ASSUME NEW d, NEW id, NEW type, NEW sub, NEW payload, IsPacket(d, id, type, sub, payload)
  PROVE  AppHandleMessage(d) = IF type = 1 THEN HandleInput(payload)
                               ELSE IF type = 2 THEN HandleActor(sub, payload)
                               ELSE IF type = 4 THEN HandleControl(sub)
                               ELSE Ignored
<1>1. /\ ParseHeader(d).ok /\ From(d, BodyStart) = payload
      /\ Header(d).ok /\ Header(d).type = type /\ Header(d).sub = sub
  BY DEF IsPacket
<1> QED
  BY ONLY <1>1, Codes DEF AppHandleMessage, Header

LEMMA ClientOnPacket ==
  ASSUME NEW d, NEW id, NEW type, NEW sub, NEW payload, IsPacket(d, id, type, sub, payload)
  PROVE  OnMessage(d) = IF type = 4
                        THEN IF sub = 7 THEN [kind |-> "assign", id |-> id] ELSE Ignored
                        ELSE IF type = 2
                        THEN IF DecodeActorBroadcast(d).ok
                             THEN [kind |-> "actors", actors |-> DecodeActorBroadcast(d).value]
                             ELSE Rejected
                        ELSE Ignored
<1>1. /\ ParseHeader(d).value.sessionID = id
      /\ Header(d).type = type /\ Header(d).sub = sub
  BY DEF IsPacket
<1>2. ~(Len(d) < BodyStart)
  <2>1. Len(d) = 27 + Len(payload) /\ Len(payload) \in Nat
    BY BytesLength DEF IsPacket
  <2> QED
    BY ONLY <2>1 DEF BodyStart, HeaderSize, PayloadHeaderSize
<1> QED
  BY ONLY <1>1, <1>2, Codes DEF OnMessage, Header

(* What its own client sends, an endpoint publishes and the application    *)
(* understands.                                                            *)
LEMMA Understood ==
  ASSUME NEW m \in Message, m.kind # "raw", m.kind \notin FromServer, Sayable(m),
         m.id = SelfId, m.kind = "control" => m.sub = ControlSubType.leave
  PROVE  /\ HandleData(Encode(m)).kind \in Published
         /\ AppHandleMessage(Encode(m)) = Meaning(m)
         /\ m.kind = "join" =>
              HandleData(Encode(m)) = Joins(IF m.room = NoRoom THEN DefaultRoom ELSE m.room)
<1> PICK e : e = Encode(m)
  OBVIOUS
<1>1. CASE m.kind = "input"
  <2>1. IsPacket(e, SelfId, 1, 0, EncodeInputPayload(m.keys))
    BY <1>1, EncodedInput
  <2>2. HandleData(e) = [kind |-> "data"]
    BY <2>1, EndpointOnPacket
  <2>3. AppHandleMessage(e) = HandleInput(EncodeInputPayload(m.keys))
    BY <2>1, AppOnPacket
  <2>4. ParseInputPayload(EncodeInputPayload(m.keys)) = [ok |-> TRUE, value |-> m.keys]
    <3>1. m.keys \in Nat /\ m.keys \div 65536 < 65536
      BY <1>1, MessageAssumption
    <3>2. PICK k \in Nat : k = m.keys /\ k \div 65536 < 65536
      BY ONLY <3>1
    <3>3. ParseInputPayload(EncodeInputPayload(k)) = [ok |-> TRUE, value |-> k]
      <4>1. k \in Nat /\ k \div 65536 < 65536
        BY <3>2
      <4>2. /\ EncodeInputPayload(k) \in Bytes
            /\ Len(EncodeInputPayload(k)) = 4
            /\ ParseInputPayload(EncodeInputPayload(k)) = [ok |-> TRUE, value |-> k]
        BY ONLY <4>1, InputBack
      <4> QED
        BY <4>2
    <3> QED
      BY ONLY <3>2, <3>3
  <2>5. AppHandleMessage(e) = [kind |-> "input", keys |-> m.keys]
    BY ONLY <2>3, <2>4 DEF HandleInput
  <2>6. Meaning(m) = [kind |-> "input", keys |-> m.keys]
    BY <1>1 DEF Meaning
  <2> QED
    BY <1>1, <2>2, <2>5, <2>6 DEF Published
<1>2. CASE m.kind = "spawn"
  <2>1. IsPacket(e, SelfId, 2, 1, EncodePosition(m.position))
    BY <1>2, EncodedSpawn
  <2>2. HandleData(e) = [kind |-> "data"]
    BY <2>1, EndpointOnPacket
  <2>3. AppHandleMessage(e) = HandleActor(1, EncodePosition(m.position))
    BY <2>1, AppOnPacket
  <2>4. ParsePosition(EncodePosition(m.position)) = [ok |-> TRUE, value |-> m.position]
    <3>1. m.position \in Position
      BY <1>2, MessageAssumption
    <3>2. EncodePosition(m.position) \in Bytes /\ Len(EncodePosition(m.position)) = 28
      BY <3>1, PositionBytes
    <3>3. ~(Len(EncodePosition(m.position)) < 28)
      BY ONLY <3>2
    <3> QED
      BY <3>1, <3>2, <3>3, PositionBack
  <2>5. AppHandleMessage(e) = [kind |-> "spawn", position |-> m.position]
    BY ONLY <2>3, <2>4, Codes DEF HandleActor
  <2>6. Meaning(m) = [kind |-> "spawn", position |-> m.position]
    BY <1>2 DEF Meaning
  <2> QED
    BY <1>2, <2>2, <2>5, <2>6 DEF Published
<1>3. CASE m.kind = "update"
  <2>1. IsPacket(e, SelfId, 2, 2, EncodeActorUpdate(m.update))
    BY <1>3, EncodedUpdate
  <2>2. HandleData(e) = [kind |-> "data"]
    BY <2>1, EndpointOnPacket
  <2>3. AppHandleMessage(e) = HandleActor(2, EncodeActorUpdate(m.update))
    BY <2>1, AppOnPacket
  <2>4. ParseActorUpdate(EncodeActorUpdate(m.update)) = [ok |-> TRUE, value |-> m.update]
    <3>1. m.update \in ActorUpdate /\ Len(m.update.bones) = CountSetBits(m.update.bitmask)
      BY <1>3, MessageAssumption DEF Sayable
    <3> QED
      BY <3>1, UpdateBack
  <2>5. AppHandleMessage(e) = [kind |-> "update", update |-> m.update]
    BY ONLY <2>3, <2>4, Codes DEF HandleActor
  <2>6. Meaning(m) = [kind |-> "update", update |-> m.update]
    BY <1>3 DEF Meaning
  <2> QED
    BY <1>3, <2>2, <2>5, <2>6 DEF Published
<1>4. CASE m.kind = "voice"
  <2>1. IsPacket(e, SelfId, 3, 0, m.data)
    BY <1>4, EncodedVoice
  <2>2. HandleData(e) = [kind |-> "data"]
    BY <2>1, EndpointOnPacket
  <2>3. AppHandleMessage(e) = Ignored
    BY <2>1, AppOnPacket
  <2>4. Meaning(m) = Ignored
    BY <1>4 DEF Meaning
  <2> QED
    BY <1>4, <2>2, <2>3, <2>4 DEF Published
<1>5. CASE m.kind = "join"
  <2>1. IsPacket(e, SelfId, 4, 1, m.room)
    BY <1>5, EncodedJoin
  <2>2. HandleData(e) = HandleControlMessage(1, e)
    BY <2>1, EndpointOnPacket
  <2>3. ParseJoinPayload(From(e, BodyStart)) = [ok |-> TRUE, value |-> m.room]
    <3>1. From(e, BodyStart) = m.room
      BY <2>1 DEF IsPacket
    <3>2. m.room \in Id
      BY <1>5, MessageAssumption
    <3> QED
      BY ONLY <3>1, <3>2, JoinBack
  <2>4. HandleData(e) = Joins(IF m.room = NoRoom THEN DefaultRoom ELSE m.room)
    BY ONLY <2>2, <2>3, Codes DEF HandleControlMessage
  <2>5. AppHandleMessage(e) = HandleControl(1)
    BY <2>1, AppOnPacket
  <2>6. HandleControl(1) = [kind |-> "join"] /\ Meaning(m) = [kind |-> "join"]
    BY <1>5, Codes DEF HandleControl, Meaning
  <2>7. HandleData(e).kind = "join"
    BY ONLY <2>4 DEF Joins
  <2> QED
    BY <2>4, <2>5, <2>6, <2>7 DEF Published
<1>6. CASE m.kind = "control"
  <2>1. m.sub = 2 /\ IsPacket(e, SelfId, 4, m.sub, <<>>)
    BY <1>6, EncodedControl, Codes
  <2>2. HandleData(e) = HandleControlMessage(2, e)
    BY <2>1, EndpointOnPacket
  <2>3. HandleData(e) = Leaves
    BY ONLY <2>2, Codes DEF HandleControlMessage
  <2>4. AppHandleMessage(e) = HandleControl(2)
    BY <2>1, AppOnPacket
  <2>5. HandleControl(2) = Leaves
    BY ONLY Codes DEF HandleControl
  <2>6. Meaning(m) = Leaves
    BY <1>6 DEF Meaning
  <2> QED
    BY <1>6, <2>3, <2>4, <2>5, <2>6 DEF Published, Leaves
<1> QED
  BY <1>1, <1>2, <1>3, <1>4, <1>5, <1>6, Kinds DEF FromServer

(* What is for another session's endpoint, or no request of a client's,    *)
(* goes no further.                                                        *)
LEMMA NotPassedOn ==
  ASSUME NEW m \in Message, m.kind # "raw", m.kind \notin FromServer,
         ~(m.id = SelfId /\ (m.kind = "control" => m.sub = ControlSubType.leave))
  PROVE  HandleData(Encode(m)) \in {Rejected, Ignored}
<1> PICK e : e = Encode(m)
  OBVIOUS
<1>1. CASE m.id # SelfId
  <2>1. \E type, sub, payload : IsPacket(e, m.id, type, sub, payload)
    BY EncodedInput, EncodedSpawn, EncodedUpdate, EncodedVoice, EncodedJoin, EncodedControl,
       Kinds DEF FromServer
  <2> QED
    BY <1>1, <2>1, EndpointOnPacket
<1>2. CASE m.id = SelfId
  <2>1. m.kind = "control" /\ m.sub # 2
    BY <1>2, Codes
  <2>2. IsPacket(e, SelfId, 4, m.sub, <<>>)
    BY <1>2, <2>1, EncodedControl
  <2>3. HandleData(e) = HandleControlMessage(m.sub, e)
    BY <2>2, EndpointOnPacket
  <2>4. ~ParseJoinPayload(From(e, BodyStart)).ok
    <3>1. From(e, BodyStart) = <<>>
      BY <2>2 DEF IsPacket
    <3> QED
      BY ONLY <3>1, NothingIsBytes DEF ParseJoinPayload, JoinPayloadSize, Invalid
  <2>5. HandleControlMessage(m.sub, e) \in {Rejected, Ignored}
    BY ONLY <2>1, <2>4, Codes DEF HandleControlMessage
  <2> QED
    BY <2>3, <2>5
<1> QED
  BY <1>1, <1>2

(* What the server sends the client understands.                           *)
LEMMA UnderstoodByClient ==
  ASSUME NEW m \in Message, m.kind \in FromServer, Sayable(m)
  PROVE  OnMessage(Encode(m)) = Meaning(m)
<1> PICK e : e = Encode(m)
  OBVIOUS
<1>1. CASE m.kind = "assign"
  <2>1. IsPacket(e, m.id, 4, 7, <<>>)
    BY <1>1, EncodedAssign
  <2>2. OnMessage(e) = [kind |-> "assign", id |-> m.id]
    BY <2>1, ClientOnPacket
  <2> QED
    BY <1>1, <2>2 DEF Meaning
<1>2. CASE m.kind = "actors"
  <2>1. PICK payload : payload = EncodeActorPositions(m.actors)
    OBVIOUS
  <2>2. IsPacket(e, NoRoom, 2, 2, payload)
    BY <1>2, <2>1, EncodedActors
  <2>3. m.actors \in Seq(ActorPosition) /\ Len(m.actors) < 65536
    BY <1>2, MessageAssumption DEF Sayable
  <2>4. PICK n \in Nat : n = Len(m.actors)
    BY <2>3
  <2>5. FrameLaidOut(payload, m.actors, n)
    BY <2>1, <2>3, <2>4, FrameBytes
  <2>6. /\ e \in Bytes /\ Len(e) = 27 + Len(payload)
        /\ \A i \in 1..Len(payload) : e[27 + i] = payload[i]
    BY <2>2 DEF IsPacket
  <2>7. n < 65536
    BY <2>3, <2>4
  <2>8. DecodeActorBroadcast(e) = [ok |-> TRUE, value |-> m.actors]
    BY ONLY <2>3, <2>4, <2>5, <2>6, <2>7, FrameBack, SMTT(60)
  <2>9. OnMessage(e) = IF DecodeActorBroadcast(e).ok
                       THEN [kind |-> "actors", actors |-> DecodeActorBroadcast(e).value]
                       ELSE Rejected
    BY <2>2, ClientOnPacket
  <2>10. OnMessage(e) = [kind |-> "actors", actors |-> m.actors]
    BY ONLY <2>8, <2>9
  <2> QED
    BY <1>2, <2>10 DEF Meaning
<1> QED
  BY <1>1, <1>2 DEF FromServer
-----------------------------------------------------------------------------
(* The invariant: what each reader has done is a function of the bytes,    *)
(* which begin what was sent.                                              *)
Readings ==
  /\ msg \in Message /\ Begins(data, Encode(msg))
  /\ stage \in {"endpoint", "room", "app", "client", "done"}
  /\ stage = "client" => msg.kind \in FromServer
  /\ stage \in {"endpoint", "room", "app"} => msg.kind \notin FromServer
  /\ stage \in {"endpoint", "client"} => routed = Nothing
  /\ stage \in {"room", "app"} => routed = HandleData(data) /\ routed.kind \in Published
  /\ stage \in {"endpoint", "room", "client"} => roomDid = Nothing
  /\ stage = "app" => roomDid = RoomHandleMessage(data)
  /\ stage # "done" => appDid = Nothing
  /\ stage = "done" /\ msg.kind \in FromServer =>
       routed = Nothing /\ roomDid = Nothing /\ appDid = OnMessage(data)
  /\ stage = "done" /\ msg.kind \notin FromServer =>
       /\ routed = HandleData(data)
       /\ routed.kind \in Published =>
            roomDid = RoomHandleMessage(data) /\ appDid = AppHandleMessage(data)
       /\ routed.kind \notin Published => roomDid = Nothing /\ appDid = Nothing

LEMMA ReadingsInit == Init => Readings
<1> SUFFICES ASSUME Init PROVE Readings
  OBVIOUS
<1>1. msg \in Message /\ Encode(msg) \in Bytes
  BY EncodedIsBytes DEF Init
<1>2. Begins(data, Encode(msg))
  <2>1. PICK whole \in Bytes : whole = Encode(msg)
    BY <1>1
  <2>2. data = whole \/ \E n \in 0..(Len(whole) - 1) : data = SubSeq(whole, 1, n)
    BY <2>1 DEF Init
  <2>3. Begins(whole, whole) /\ Len(whole) \in Nat
    BY BytesLength DEF Begins
  <2>4. ASSUME NEW n \in 0..(Len(whole) - 1) PROVE Begins(SubSeq(whole, 1, n), whole)
    <3>1. n \in 0..Len(whole)
      BY <2>3
    <3> QED
      BY <3>1, PrefixBegins
  <2> QED
    BY <2>1, <2>2, <2>3, <2>4
<1>3. /\ stage = IF msg.kind \in FromServer THEN "client" ELSE "endpoint"
      /\ routed = Nothing /\ roomDid = Nothing /\ appDid = Nothing
  BY DEF Init
<1> QED
  BY <1>1, <1>2, <1>3 DEF Readings

LEMMA ReadingsNext == Readings /\ [Next]_vars => Readings'
<1> SUFFICES ASSUME Readings, [Next]_vars PROVE Readings'
  OBVIOUS
<1>1. CASE EndpointReads
  <2>1. /\ routed' = HandleData(data) /\ stage = "endpoint"
        /\ stage' = IF routed'.kind \in Published THEN "room" ELSE "done"
        /\ msg' = msg /\ data' = data /\ roomDid' = roomDid /\ appDid' = appDid
    BY <1>1 DEF EndpointReads
  <2> QED
    BY <2>1 DEF Readings
<1>2. CASE RoomReads
  BY <1>2 DEF RoomReads, Readings
<1>3. CASE AppReads
  BY <1>3 DEF AppReads, Readings
<1>4. CASE ClientReads
  BY <1>4 DEF ClientReads, Readings
<1>5. CASE UNCHANGED vars
  BY <1>5 DEF vars, Readings
<1> QED
  BY <1>1, <1>2, <1>3, <1>4, <1>5 DEF Next

LEMMA ReadingsAlways == Spec => []Readings
BY ReadingsInit, ReadingsNext, PTL DEF Spec

(* ReadersAgree for every byte string the endpoint publishes: endpoint,    *)
(* room and application, each with parsers and bounds of its own, take the *)
(* same ones for joins and the same ones for leaves.                       *)
THEOREM ThreeReadersAgree == Spec => []ReadersAgree
<1>1. Readings => ReadersAgree
  <2> SUFFICES ASSUME Readings, stage = "done", routed.kind \in Published,
                      NEW k \in {"join", "leave"}
               PROVE  /\ routed.kind = k <=> roomDid.kind = k
                      /\ routed.kind = k <=> appDid.kind = k
    BY DEF ReadersAgree
  <2>1. msg.kind \notin FromServer
    BY DEF Readings, Nothing, Published
  <2>2. /\ data \in Bytes /\ routed = HandleData(data)
        /\ roomDid = RoomHandleMessage(data) /\ appDid = AppHandleMessage(data)
    BY <2>1 DEF Readings, Begins
  <2> QED
    BY <2>2, Agreement
<1> QED
  BY <1>1, ReadingsAlways, PTL

(* CutIsRejectedOrSame for every byte string and every place to cut it:    *)
(* none of the parsers mistakes a beginning of a message for another       *)
(* message.                                                                *)
THEOREM PartIsNeverMistaken == Spec => []CutIsRejectedOrSame
<1>1. Readings => CutIsRejectedOrSame
  <2> SUFFICES ASSUME Readings, stage = "done", routed # Rejected, appDid # Rejected
               PROVE  IF msg.kind \in FromServer THEN appDid = OnMessage(Encode(msg))
                      ELSE /\ routed = HandleData(Encode(msg))
                           /\ roomDid \in {Nothing, RoomHandleMessage(Encode(msg))}
                           /\ appDid \in {Nothing, AppHandleMessage(Encode(msg))}
    BY DEF CutIsRejectedOrSame
  <2>1. Begins(data, Encode(msg)) /\ data \in Bytes
    BY DEF Readings, Begins
  <2>2. CASE msg.kind \in FromServer
    <3>1. appDid = OnMessage(data)
      BY <2>2 DEF Readings
    <3> QED
      BY <2>1, <2>2, <3>1, ClientBegins
  <2>3. CASE msg.kind \notin FromServer
    <3>1. routed = HandleData(data)
      BY <2>3 DEF Readings
    <3>2. routed = HandleData(Encode(msg))
      BY <2>1, <3>1, EndpointBegins
    <3>3. CASE routed.kind \notin Published
      <4>1. roomDid = Nothing /\ appDid = Nothing
        BY <2>3, <3>3 DEF Readings
      <4> QED
        BY <2>3, <3>2, <4>1
    <3>4. CASE routed.kind \in Published
      <4>1. roomDid = RoomHandleMessage(data) /\ appDid = AppHandleMessage(data)
        BY <2>3, <3>4 DEF Readings
      <4>2. ~(Len(data) < BodyStart)
        BY <2>1, <3>1, <3>4, PublishedIsWhole
      <4>3. roomDid = RoomHandleMessage(Encode(msg))
        BY <2>1, <4>1, <4>2, RoomBegins
      <4>4. appDid = AppHandleMessage(Encode(msg))
        BY <2>1, <4>1, <4>2, AppBegins
      <4> QED
        BY <2>3, <3>2, <4>3, <4>4
    <3> QED
      BY <3>3, <3>4
  <2> QED
    BY <2>2, <2>3
<1> QED
  BY <1>1, ReadingsAlways, PTL


(* SentIsUnderstood, whatever the values a message carries: each encoder,  *)
(* of Go or of the browser, is undone by the parser at the other end, and  *)
(* what an endpoint should not pass on it does not.                        *)
THEOREM EncodedIsUnderstood == Spec => []SentIsUnderstood
<1>1. Readings => SentIsUnderstood
  <2> SUFFICES ASSUME Readings, stage = "done", data = Encode(msg), msg.kind # "raw", Sayable(msg)
               PROVE  IF \/ msg.kind \in FromServer
                         \/ msg.id = SelfId /\ (msg.kind = "control" => msg.sub = ControlSubType.leave)
                      THEN /\ appDid = Meaning(msg)
                           /\ msg.kind = "join" =>
                                routed = Joins(IF msg.room = NoRoom THEN DefaultRoom ELSE msg.room)
                      ELSE routed \in {Rejected, Ignored} /\ appDid = Nothing
    BY DEF SentIsUnderstood, Whole
  <2>1. msg \in Message
    BY DEF Readings
  <2>2. CASE msg.kind \in FromServer
    <3>1. appDid = OnMessage(Encode(msg))
      BY <2>2 DEF Readings
    <3>2. appDid = Meaning(msg)
      BY <2>1, <2>2, <3>1, UnderstoodByClient
    <3> QED
      BY <2>2, <3>2 DEF FromServer
  <2>3. CASE msg.kind \notin FromServer
    <3>1. /\ routed = HandleData(Encode(msg))
          /\ routed.kind \in Published => appDid = AppHandleMessage(Encode(msg))
          /\ routed.kind \notin Published => appDid = Nothing
      BY <2>3 DEF Readings
    <3>2. CASE msg.id = SelfId /\ (msg.kind = "control" => msg.sub = ControlSubType.leave)
      <4>1. /\ HandleData(Encode(msg)).kind \in Published
            /\ AppHandleMessage(Encode(msg)) = Meaning(msg)
            /\ msg.kind = "join" =>
                 HandleData(Encode(msg)) = Joins(IF msg.room = NoRoom THEN DefaultRoom ELSE msg.room)
        BY <2>1, <2>3, <3>2, Understood
      <4> QED
        BY <2>3, <3>1, <3>2, <4>1
    <3>3. CASE ~(msg.id = SelfId /\ (msg.kind = "control" => msg.sub = ControlSubType.leave))
      <4>1. routed \in {Rejected, Ignored}
        BY <2>1, <2>3, <3>1, <3>3, NotPassedOn
      <4>2. appDid = Nothing
        BY <3>1, <4>1 DEF Rejected, Ignored, Published
      <4> QED
        BY <2>3, <3>3, <4>1, <4>2
    <3> QED
      BY <3>2, <3>3
  <2> QED
    BY <2>2, <2>3
<1> QED
  BY <1>1, ReadingsAlways, PTL

(* LengthTellsSize, for payloads of any size: the length field is the size *)
(* modulo 65536, and the size itself up to 2730 actors.                    *)
THEOREM LengthIsRightUpTo16Bits == Spec => []LengthTellsSize
<1>1. Readings => LengthTellsSize
  <2> SUFFICES ASSUME Readings, data = Encode(msg), msg.kind # "raw"
               PROVE  /\ ParseHeader(data).value.length = (Len(data) - 25) % 65536
                      /\ msg.kind = "actors" => (Len(data) - 25 < 65536 <=> Len(msg.actors) <= 2730)
    BY DEF LengthTellsSize, Whole, HeaderSize
  <2>1. msg \in Message
    BY DEF Readings
  <2>2. PICK id, type, sub, payload : IsPacket(data, id, type, sub, payload)
    BY <2>1, EncodedIsPacket
  <2>3. PICK n \in Nat : n = Len(payload)
    BY <2>2, BytesLength DEF IsPacket
  <2>4. Len(data) = 27 + n /\ ParseHeader(data).value.length = (2 + n) % 65536
    BY <2>2, <2>3 DEF IsPacket
  <2>5. ParseHeader(data).value.length = (Len(data) - 25) % 65536
    <3>1. Len(data) - 25 = 2 + n
      BY ONLY <2>4, n \in Nat
    <3> QED
      BY ONLY <2>4, <3>1
  <2>6. ASSUME msg.kind = "actors"
        PROVE  Len(data) - 25 < 65536 <=> Len(msg.actors) <= 2730
    <3>1. PICK frame : frame = EncodeActorPositions(msg.actors)
      OBVIOUS
    <3>2. IsPacket(data, NoRoom, 2, 2, frame)
      BY <2>1, <2>6, <3>1, EncodedActors
    <3>3. msg.actors \in Seq(ActorPosition)
      BY <2>1, <2>6, MessageAssumption
    <3>4. PICK count \in Nat : count = Len(msg.actors)
      BY <3>3
    <3>5. Len(frame) = 2 + count * 24
      BY <3>1, <3>3, <3>4, FrameBytes DEF FrameLaidOut
    <3>6. Len(data) = 27 + (2 + count * 24)
      BY <3>2, <3>5 DEF IsPacket
    <3>7. Len(data) - 25 < 65536 <=> count <= 2730
      BY ONLY <3>6, count \in Nat
    <3> QED
      BY ONLY <3>4, <3>7
  <2> QED
    BY <2>5, <2>6
<1> QED
  BY <1>1, ReadingsAlways, PTL
=============================================================================
