----------------------------- MODULE MCProtocol -----------------------------
(* Messages for TLC: every kind, their values at the edges of their widths.*)
EXTENDS Protocol, TLC

MySession == [i \in 1..16 |-> 15 * i]
Other     == [MySession EXCEPT ![16] = 0]     \* differs in the last byte only
Lobby     == [NoRoom EXCEPT ![16] = 1]        \* main.go's default room
LastByte  == [NoRoom EXCEPT ![16] = 2]

Float(n)   == [i \in 1..4 |-> (n + i) % 256]
Pose       == [k \in 1..7 |-> Float(40 * k)]
Bone(n)    == [bone |-> n, q |-> [k \in 1..4 |-> Float(n + 20 * k)]]

(* Bones in the first and the last bit of the mask.                        *)
Bitmask(b) == [i \in 1..16 |-> IF i = 1 THEN b ELSE IF i = 16 THEN 128 ELSE 0]
Update(mask, bones) == [bitmask |-> mask, position |-> Pose, bones |-> bones]

ActorAt(n) == [id |-> IF n % 2 = 0 THEN MySession ELSE Other,
               x |-> Float(n), y |-> Float(n + 7)]
Crowd(n)   == [kind |-> "actors", id |-> NoRoom, seq |-> 0,
               actors |-> [i \in 1..n |-> ActorAt(i)]]

From1(id, seq, m) == [id |-> id, seq |-> seq] @@ m

Sent ==
  {[kind |-> "input", keys |-> k] : k \in {0, 9, 256, 2147483647}}
  \cup {[kind |-> "spawn", position |-> Pose],
        [kind |-> "update", update |-> Update(NoRoom, <<>>)],
        [kind |-> "update", update |-> Update(Bitmask(129), <<Bone(0), Bone(7), Bone(127)>>)],
        \* a mask of three bits with two bones and with four
        [kind |-> "update", update |-> Update(Bitmask(129), <<Bone(0), Bone(7)>>)],
        [kind |-> "update", update |-> Update(Bitmask(129), <<Bone(0), Bone(7), Bone(9), Bone(127)>>)],
        [kind |-> "voice", data |-> <<1, 1, 4>>]}
  \cup {[kind |-> "join", room |-> r] : r \in {NoRoom, Lobby, LastByte}}
  \cup {[kind |-> "control", sub |-> s] : s \in 0..7}

(* Byte strings nobody encodes: data types and subtypes of every value in  *)
(* and around those in use.                                                *)
Strange == {EncodeHeader(HeaderOf(MySession, 1, 2)) \o <<t, s>> \o body :
              t \in 0..5, s \in 0..8,
              body \in {<<>>, [i \in 1..16 |-> 0], [i \in 1..44 |-> 0], [i \in 1..44 |-> 1]}}

Messages ==
  {From1(id, seq, m) : id \in {MySession, Other}, seq \in {65535}, m \in Sent}
  \cup {From1(MySession, 0, [kind |-> "raw", data |-> d]) : d \in Strange}
  \cup {From1(id, 0, [kind |-> "assign"]) : id \in {MySession, Other}}
  \cup {Crowd(n) : n \in {0, 1, 3, 2730, 2731}}
=============================================================================
