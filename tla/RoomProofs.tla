----------------------------- MODULE RoomProofs -----------------------------
(* Theorems about Room, for every set of sessions, every map and every     *)
(* capacity.                                                               *)
EXTENDS Room, TLAPS

QueueTypes == inbox \in Seq(Message) /\ sendCh \in Seq(Send)
              /\ dueIn \in Nat /\ dueOut \in Nat /\ phase \in Phase

(* What is due is a prefix of its queue until the loop that drains the     *)
(* queue has ended, and nothing after.                                     *)
InboxDue == IF phase = "receive" THEN dueIn <= Len(inbox) ELSE dueIn = 0
SendsDue == IF phase \in {"receive", "send"} THEN dueOut <= Len(sendCh) ELSE dueOut = 0

InputsDue == phase \in {"select", "returned"} => pending = <<>>

DrainInv == QueueTypes /\ InboxDue /\ SendsDue /\ InputsDue

-----------------------------------------------------------------------------
LEMMA MembersInit == Init => MembersAreActors
  BY DEF Init, NoActors, MembersAreActors

(* Each message changes both maps, or neither, for the same session.       *)
LEMMA HandleKeepsMembers ==
  ASSUME NEW m, MembersAreActors, HandleMessage(m)
  PROVE  MembersAreActors'
<1>1. CASE m.kind = "join"
  <2>1. sessions' = sessions \cup {m.from} /\ actors' = SpawnAtCenter(m.from)
    BY <1>1 DEF HandleMessage
  <2> QED
    BY <2>1 DEF SpawnAtCenter, MembersAreActors
<1>2. CASE m.kind = "leave"
  <2>1. sessions' = sessions \ {m.from} /\ actors' = Remove(m.from)
    BY <1>2 DEF HandleMessage
  <2> QED
    BY <2>1 DEF Remove, MembersAreActors
<1>3. CASE m.kind \notin {"join", "leave"}
  <2>1. UNCHANGED <<sessions, actors>>
    BY <1>3 DEF HandleMessage
  <2> QED
    BY <2>1 DEF MembersAreActors
<1> QED
  BY <1>1, <1>2, <1>3

(* Moving an actor moves no one in or out.                                 *)
LEMMA MoveKeepsActors ==
  ASSUME NEW s, NEW d PROVE DOMAIN ActorMove(s, d) = DOMAIN actors
  BY DEF ActorMove

LEMMA MembersNext == MembersAreActors /\ [Next]_vars => MembersAreActors'
<1> SUFFICES ASSUME MembersAreActors, [Next]_vars PROVE MembersAreActors'
  OBVIOUS
<1>1. CASE ReceiveOne
  <2>1. HandleMessage(Head(inbox))
    BY <1>1 DEF ReceiveOne
  <2> QED
    BY <2>1, HandleKeepsMembers
<1>2. CASE ApplyInput
  <2>1. sessions' = sessions /\ DOMAIN actors' = DOMAIN actors
    BY <1>2, MoveKeepsActors DEF ApplyInput
  <2> QED
    BY <2>1 DEF MembersAreActors
<1>3. CASE UNCHANGED <<sessions, actors>>
  BY <1>3 DEF MembersAreActors
<1> QED
  BY <1>1, <1>2, <1>3
  DEF Next, Run, Return, TickFires, ReceiveEmpty, SendOne, SendEmpty, BroadcastFrame, Cancel,
      Arrive, EnqueueSend, vars, code

(* Through joins, leaves, repeated joins and moves in any order, the room  *)
(* and its application keep the same members (Room.HandleMessage and       *)
(* WitheredApplication.HandleMessage).                                     *)
THEOREM SameMembers == Spec => []MembersAreActors
  BY MembersInit, MembersNext, PTL DEF Spec

-----------------------------------------------------------------------------
LEMMA DrainInit == Init => DrainInv
  BY DEF Init, DrainInv, QueueTypes, InboxDue, SendsDue, InputsDue, Phase

(* Arrivals during a tick only lengthen the queues.                        *)
LEMMA ArriveKeepsDue ==
  ASSUME NEW m \in Message, DrainInv, Arrive(m) PROVE DrainInv'
<1>0. inbox \in Seq(Message)
  BY DEF DrainInv, QueueTypes
<1>1. UNCHANGED <<sendCh, dueIn, dueOut, phase, pending>>
  BY DEF Arrive
<1>2. inbox' \in Seq(Message) /\ Len(inbox') >= Len(inbox)
  <2>1. inbox' = Append(inbox, m) \/ inbox' = inbox
    BY DEF Arrive
  <2> QED
    BY <1>0, <2>1
<1>3. Len(inbox) \in Nat /\ Len(inbox') \in Nat
  BY <1>2 DEF DrainInv, QueueTypes
<1> QED
  BY <1>1, <1>2, <1>3 DEF DrainInv, QueueTypes, InboxDue, SendsDue, InputsDue

LEMMA EnqueueKeepsDue ==
  ASSUME NEW m \in Send, DrainInv, EnqueueSend(m) PROVE DrainInv'
<1>1. UNCHANGED <<inbox, dueIn, dueOut, phase, pending>>
  BY DEF EnqueueSend
<1>2. sendCh' \in Seq(Send) /\ Len(sendCh') = Len(sendCh) + 1
  BY DEF EnqueueSend, DrainInv, QueueTypes
<1>3. Len(sendCh) \in Nat
  BY DEF DrainInv, QueueTypes
<1> QED
  BY <1>1, <1>2, <1>3 DEF DrainInv, QueueTypes, InboxDue, SendsDue, InputsDue

LEMMA ReceiveKeepsDue == DrainInv /\ ReceiveOne => DrainInv'
<1> SUFFICES ASSUME DrainInv, ReceiveOne PROVE DrainInv'
  OBVIOUS
<1>1. UNCHANGED <<sendCh, dueOut, phase>> /\ phase = "receive"
  BY DEF ReceiveOne
<1>2. inbox' \in Seq(Message) /\ Len(inbox') = Len(inbox) - 1 /\ Len(inbox) \in Nat
  BY DEF ReceiveOne, DrainInv, QueueTypes
<1>3. dueIn' = IF dueIn > 0 THEN dueIn - 1 ELSE 0
  BY DEF ReceiveOne
<1>4. Len(inbox') \in Nat
  BY <1>2
<1> QED
  BY <1>1, <1>2, <1>3, <1>4 DEF DrainInv, QueueTypes, InboxDue, SendsDue, InputsDue

LEMMA SendKeepsDue == DrainInv /\ SendOne => DrainInv'
<1> SUFFICES ASSUME DrainInv, SendOne PROVE DrainInv'
  OBVIOUS
<1>1. UNCHANGED <<inbox, dueIn, phase, pending>> /\ phase = "send"
  BY DEF SendOne
<1>2. sendCh' \in Seq(Send) /\ Len(sendCh') = Len(sendCh) - 1 /\ Len(sendCh) \in Nat
  BY DEF SendOne, DrainInv, QueueTypes
<1>3. dueOut' = IF dueOut > 0 THEN dueOut - 1 ELSE 0
  BY DEF SendOne
<1>4. Len(sendCh') \in Nat
  BY <1>2
<1> QED
  BY <1>1, <1>2, <1>3, <1>4 DEF DrainInv, QueueTypes, InboxDue, SendsDue, InputsDue

LEMMA DrainNext == DrainInv /\ [Next]_vars => DrainInv'
<1> SUFFICES ASSUME DrainInv, [Next]_vars PROVE DrainInv'
  OBVIOUS
<1>1. CASE TickFires
  BY <1>1 DEF TickFires, DrainInv, QueueTypes, InboxDue, SendsDue, InputsDue, Phase
<1>2. CASE ReceiveOne
  BY <1>2, ReceiveKeepsDue
<1>3. CASE ReceiveEmpty
  BY <1>3 DEF ReceiveEmpty, history, DrainInv, QueueTypes, InboxDue, SendsDue, InputsDue, Phase
<1>4. CASE SendOne
  BY <1>4, SendKeepsDue
<1>5. CASE SendEmpty
  BY <1>5 DEF SendEmpty, history, DrainInv, QueueTypes, InboxDue, SendsDue, InputsDue, Phase
<1>6. CASE Return \/ ApplyInput \/ BroadcastFrame \/ Cancel
  BY <1>6 DEF Return, ApplyInput, BroadcastFrame, Cancel, history,
              DrainInv, QueueTypes, InboxDue, SendsDue, InputsDue, Phase
<1>7. ASSUME NEW m \in Message, Arrive(m) PROVE DrainInv'
  BY <1>7, ArriveKeepsDue
<1>8. ASSUME NEW m \in Send, EnqueueSend(m) PROVE DrainInv'
  BY <1>8, EnqueueKeepsDue
<1>9. CASE UNCHANGED vars
  BY <1>9 DEF vars, code, history, DrainInv, QueueTypes, InboxDue, SendsDue, InputsDue
<1> QED
  BY <1>1, <1>2, <1>3, <1>4, <1>5, <1>6, <1>7, <1>8, <1>9 DEF Next, Run

(* However much arrives during a tick, the tick handles every message      *)
(* accepted before it fired ahead of its first send, and publishes every   *)
(* send accepted before it fired ahead of its own frame (RECEIVE_LOOP and  *)
(* SEND_LOOP of Room.Run).                                                 *)
THEOREM TicksDrain == Spec => []TickDrains
<1>1. DrainInv => TickDrains
  BY DEF DrainInv, InboxDue, SendsDue, InputsDue, TickDrains
<1> QED
  BY DrainInit, DrainNext, <1>1, PTL DEF Spec

-----------------------------------------------------------------------------
(* Types.                                                                  *)

LEMMA ClampWithin == ASSUME NEW v \in Int PROVE Clamp(v) \in 0..Width
  BY RoomAssumption DEF Clamp

LEMMA CentreInside == Centre \in Pos
<1>1. Width \div 2 \in 0..Width
  BY RoomAssumption
<1> QED
  BY <1>1 DEF Centre, Pos

LEMMA DirectionTyped ==
  ASSUME NEW keys
  PROVE  KeyMaskToDirection(keys).dx \in Int /\ KeyMaskToDirection(keys).dy \in Int
  BY DEF KeyMaskToDirection

LEMMA InPositions ==
  ASSUME NEW S \in SUBSET Session, NEW f \in [S -> Pos] PROVE f \in Positions
  BY DEF Positions

(* The three functions of the field keep every actor on the map.           *)
LEMMA FieldTyped ==
  ASSUME actors \in Positions, NEW s \in Session
  PROVE  /\ SpawnAtCenter(s) \in Positions
         /\ Remove(s) \in Positions
         /\ \A keys : ActorMove(s, KeyMaskToDirection(keys)) \in Positions
<1>1. PICK S \in SUBSET Session : actors \in [S -> Pos]
  BY DEF Positions
<1>2. SpawnAtCenter(s) \in [S \cup {s} -> Pos]
  BY <1>1, CentreInside DEF SpawnAtCenter
<1>3. Remove(s) \in [S \ {s} -> Pos]
  BY <1>1 DEF Remove
<1>4. ASSUME NEW keys PROVE ActorMove(s, KeyMaskToDirection(keys)) \in [S -> Pos]
  <2>1. CASE s \notin S
    BY <1>1, <2>1 DEF ActorMove
  <2>2. CASE s \in S
    <3> DEFINE d == KeyMaskToDirection(keys)
               p == [x |-> Clamp(actors[s].x + d.dx), y |-> Clamp(actors[s].y + d.dy)]
    <3>1. actors[s].x \in Int /\ actors[s].y \in Int /\ d.dx \in Int /\ d.dy \in Int
      BY <1>1, <2>2, DirectionTyped, RoomAssumption DEF Pos
    <3>2. p \in Pos
      BY <3>1, ClampWithin DEF Pos
    <3>3. ActorMove(s, d) = [actors EXCEPT ![s] = p]
      BY <1>1, <2>2 DEF ActorMove
    <3> HIDE DEF p, d
    <3>4. ActorMove(s, d) \in [S -> Pos]
      BY <1>1, <3>2, <3>3
    <3> QED
      BY <3>4 DEF d
  <2> QED
    BY <2>1, <2>2
<1> QED
  BY <1>2, <1>3, <1>4, InPositions

LEMMA TypeInit == Init => TypeOK
<1> SUFFICES ASSUME Init PROVE TypeOK
  OBVIOUS
<1>1. actors \in Positions
  <2>1. NoActors \in [{} -> Pos]
    BY DEF NoActors
  <2> QED
    BY <2>1, InPositions DEF Init
<1>2. /\ pending \in Seq(Event)
      /\ inbox \in Seq(Message) /\ Len(inbox) <= InboxCap
      /\ sendCh \in Seq(Send) /\ Len(sendCh) <= SendCap
  BY RoomAssumption DEF Init
<1>3. arrived \in 0..MaxPerTick /\ dueIn \in Nat /\ dueOut \in Nat
  BY RoomAssumption DEF Init
<1> QED
  BY <1>1, <1>2, <1>3 DEF Init, TypeOK, Phase

LEMMA HandleTyped ==
  ASSUME TypeOK, NEW m \in Message, HandleMessage(m)
  PROVE  /\ sessions' \subseteq Session /\ actors' \in Positions
         /\ pending' \in Seq(Event) /\ pressed' \subseteq Session
<1>0. m.from \in Session /\ (m.kind = "input" => m.keys \in Masks)
  BY DEF Message
<1>1. CASE m.kind = "join"
  BY <1>0, <1>1, FieldTyped DEF HandleMessage, TypeOK
<1>2. CASE m.kind = "leave"
  BY <1>0, <1>2, FieldTyped DEF HandleMessage, TypeOK
<1>3. CASE m.kind = "input"
  <2>1. [from |-> m.from, keys |-> m.keys] \in Event
    BY <1>0, <1>3 DEF Event
  <2>2. pending' = Append(pending, [from |-> m.from, keys |-> m.keys])
    BY <1>3 DEF HandleMessage
  <2>3. pending' \in Seq(Event)
    BY <2>1, <2>2 DEF TypeOK
  <2> QED
    BY <1>0, <1>3, <2>3 DEF HandleMessage, TypeOK
<1>4. CASE m.kind \notin {"join", "leave", "input"}
  BY <1>4 DEF HandleMessage, TypeOK
<1> QED
  BY <1>1, <1>2, <1>3, <1>4

LEMMA TypeNext == TypeOK /\ [Next]_vars => TypeOK'
<1> SUFFICES ASSUME TypeOK, [Next]_vars PROVE TypeOK'
  OBVIOUS
<1>t. /\ inbox \in Seq(Message) /\ Len(inbox) <= InboxCap
      /\ sendCh \in Seq(Send) /\ Len(sendCh) <= SendCap
      /\ pending \in Seq(Event) /\ arrived \in 0..MaxPerTick
      /\ InboxCap \in Nat /\ SendCap \in Nat /\ MaxPerTick \in Nat
  BY RoomAssumption DEF TypeOK
<1>1. CASE Return \/ ReceiveEmpty \/ SendEmpty \/ Cancel
  BY <1>1 DEF Return, ReceiveEmpty, SendEmpty, Cancel, history, TypeOK, Phase
<1>2. CASE TickFires
  <2>1. Len(inbox) \in Nat /\ Len(sendCh) \in Nat
    BY <1>t
  <2> QED
    BY <1>t, <1>2, <2>1 DEF TickFires, TypeOK, Phase
<1>3. CASE ReceiveOne
  <2>1. inbox # <<>> /\ inbox' = Tail(inbox) /\ HandleMessage(Head(inbox))
    BY <1>3 DEF ReceiveOne
  <2>2. /\ Head(inbox) \in Message
        /\ inbox' \in Seq(Message) /\ Len(inbox') <= InboxCap
    BY <1>t, <2>1
  <2>3. dueIn' \in Nat
    BY <1>3 DEF ReceiveOne, TypeOK
  <2>4. /\ sessions' \subseteq Session /\ actors' \in Positions
        /\ pending' \in Seq(Event) /\ pressed' \subseteq Session
    BY <2>1, <2>2, HandleTyped
  <2> QED
    BY <1>3, <2>2, <2>3, <2>4 DEF ReceiveOne, TypeOK
<1>4. CASE SendOne
  <2>1. sendCh' \in Seq(Send) /\ Len(sendCh') <= SendCap
    BY <1>t, <1>4 DEF SendOne
  <2>2. dueOut' \in Nat
    BY <1>4 DEF SendOne, TypeOK
  <2> QED
    BY <1>4, <2>1, <2>2 DEF SendOne, TypeOK
<1>5. CASE ApplyInput
  <2>1. pending # <<>> /\ pending' = Tail(pending)
    BY <1>5 DEF ApplyInput
  <2>2. Head(pending) \in Event /\ pending' \in Seq(Event)
    BY <1>t, <2>1
  <2>3. actors' \in Positions
    BY <1>5, <2>2, FieldTyped DEF ApplyInput, Event, TypeOK
  <2> QED
    BY <1>5, <2>2, <2>3 DEF ApplyInput, history, TypeOK
<1>6. CASE BroadcastFrame
  BY <1>6 DEF BroadcastFrame, TypeOK, Phase
<1>7. ASSUME NEW m \in Message, Arrive(m) PROVE TypeOK'
  <2>1. arrived' \in 0..MaxPerTick
    BY <1>t, <1>7 DEF Arrive
  <2>2. inbox' \in Seq(Message) /\ Len(inbox') <= InboxCap
    <3>1. CASE Len(inbox) < InboxCap
      <4>1. inbox' = Append(inbox, m)
        BY <1>7, <3>1 DEF Arrive
      <4> QED
        BY <1>t, <3>1, <4>1
    <3>2. CASE ~(Len(inbox) < InboxCap)
      BY <1>t, <1>7, <3>2 DEF Arrive
    <3> QED
      BY <3>1, <3>2
  <2>3. wanted' \subseteq Session
    BY <1>7 DEF Arrive, TypeOK, Message
  <2> QED
    BY <1>7, <2>1, <2>2, <2>3 DEF Arrive, TypeOK
<1>8. ASSUME NEW m \in Send, EnqueueSend(m) PROVE TypeOK'
  <2>1. arrived' \in 0..MaxPerTick
    BY <1>t, <1>8 DEF EnqueueSend
  <2>2. sendCh' \in Seq(Send) /\ Len(sendCh') <= SendCap
    BY <1>t, <1>8 DEF EnqueueSend
  <2> QED
    BY <1>8, <2>1, <2>2 DEF EnqueueSend, TypeOK
<1>9. CASE UNCHANGED vars
  BY <1>9 DEF vars, code, history, TypeOK
<1> QED
  BY <1>1, <1>2, <1>3, <1>4, <1>5, <1>6, <1>7, <1>8, <1>9 DEF Next, Run

(* The types, and with them that no sequence of moves, however large the   *)
(* map, takes an actor beyond its border (Field.ActorMove) and that no     *)
(* queue outgrows its channel.                                             *)
THEOREM TypeCorrect == Spec => []TypeOK
  BY TypeInit, TypeNext, PTL DEF Spec

-----------------------------------------------------------------------------
(* Membership.                                                             *)

(* While joins and leaves of s wait, the last of them tells what s wants.  *)
LastControlTells ==
  \A s \in Session : \A i \in Controls(s) :
    (\A j \in Controls(s) : j <= i) => (inbox[i].kind = "join" <=> s \in wanted)

MemberInv == inbox \in Seq(Message) /\ LastControlTells /\ MembershipFollowsTopic

LEMMA MemberInit == Init => MemberInv
<1> SUFFICES ASSUME Init PROVE MemberInv
  OBVIOUS
<1>1. inbox = <<>> /\ sessions = {} /\ wanted = {}
  BY DEF Init
<1>2. \A s : Controls(s) = {}
  BY <1>1 DEF Controls
<1> QED
  BY <1>1, <1>2 DEF MemberInv, LastControlTells, MembershipFollowsTopic

(* A message joins the end of the queue, and changes what its sender wants.*)
LEMMA ArriveKeepsMembers ==
  ASSUME MemberInv, NEW m \in Message, Arrive(m) PROVE MemberInv'
<1>1. CASE inbox' = inbox /\ wanted' = wanted
  <2>1. sessions' = sessions
    BY DEF Arrive
  <2> QED
    BY <1>1, <2>1 DEF MemberInv, LastControlTells, MembershipFollowsTopic, Controls
<1>2. CASE inbox' = Append(inbox, m) /\ Len(inbox) < InboxCap
  <2>0. inbox \in Seq(Message) /\ sessions' = sessions
    BY DEF MemberInv, Arrive
  <2>1. /\ inbox' \in Seq(Message) /\ Len(inbox') = Len(inbox) + 1 /\ Len(inbox) \in Nat
        /\ \A i \in 1..Len(inbox) : inbox'[i] = inbox[i]
        /\ inbox'[Len(inbox) + 1] = m
    BY <1>2, <2>0
  <2>2. \A s \in Session : s # m.from => (s \in wanted' <=> s \in wanted)
    BY <1>2 DEF Arrive
  <2>3. m.kind \notin {"join", "leave"} => wanted' = wanted
    BY <1>2 DEF Arrive
  <2>4. m.kind \in {"join", "leave"} => (m.kind = "join" <=> m.from \in wanted')
    BY <1>2 DEF Arrive
  <2>5. ASSUME NEW s \in Session, m.from # s \/ m.kind \notin {"join", "leave"}
        PROVE  Controls(s)' = Controls(s) /\ (s \in wanted' <=> s \in wanted)
    BY <2>1, <2>2, <2>3, <2>5 DEF Controls
  <2>6. ASSUME NEW s \in Session, m.from = s, m.kind \in {"join", "leave"}
        PROVE  Controls(s)' = Controls(s) \cup {Len(inbox) + 1}
    BY <2>1, <2>6 DEF Controls
  <2>7. LastControlTells'
    <3> SUFFICES ASSUME NEW s \in Session, NEW i \in Controls(s)',
                        \A j \in Controls(s)' : j <= i
                 PROVE  inbox'[i].kind = "join" <=> s \in wanted'
      BY DEF LastControlTells
    <3>1. CASE m.from # s \/ m.kind \notin {"join", "leave"}
      <4>1. i \in Controls(s) /\ (\A j \in Controls(s) : j <= i)
        BY <2>5, <3>1
      <4>2. i \in 1..Len(inbox)
        BY <4>1 DEF Controls
      <4>3. inbox'[i] = inbox[i]
        BY <2>1, <4>2
      <4> QED
        BY <2>5, <3>1, <4>1, <4>3 DEF MemberInv, LastControlTells
    <3>2. CASE m.from = s /\ m.kind \in {"join", "leave"}
      <4>1. Len(inbox) + 1 <= i
        BY <2>6, <3>2
      <4>2. i \in 1..Len(inbox) + 1
        BY <2>1 DEF Controls
      <4>3. i = Len(inbox) + 1
        BY <2>1, <4>1, <4>2
      <4> QED
        BY <2>1, <2>4, <3>2, <4>3
    <3> QED
      BY <3>1, <3>2
  <2>8. MembershipFollowsTopic'
    <3> SUFFICES ASSUME NEW s \in Session, Controls(s)' = {}
                 PROVE  s \in sessions' <=> s \in wanted'
      BY DEF MembershipFollowsTopic
    <3>1. m.from # s \/ m.kind \notin {"join", "leave"}
      BY <2>6
    <3> QED
      BY <2>0, <2>5, <3>1 DEF MemberInv, MembershipFollowsTopic
  <2> QED
    BY <2>1, <2>7, <2>8 DEF MemberInv
<1> QED
  BY <1>1, <1>2 DEF Arrive

(* What handling a message does to membership.                             *)
LEMMA HandleMember ==
  ASSUME NEW m, HandleMessage(m), NEW s
  PROVE  /\ m.from # s \/ m.kind \notin {"join", "leave"} => (s \in sessions' <=> s \in sessions)
         /\ m.from = s /\ m.kind = "join" => s \in sessions'
         /\ m.from = s /\ m.kind = "leave" => s \notin sessions'
<1>1. CASE m.kind = "join"
  BY <1>1 DEF HandleMessage
<1>2. CASE m.kind = "leave"
  BY <1>2 DEF HandleMessage
<1>3. CASE m.kind = "input"
  BY <1>3 DEF HandleMessage
<1>4. CASE m.kind \notin {"join", "leave", "input"}
  BY <1>4 DEF HandleMessage
<1> QED
  BY <1>1, <1>2, <1>3, <1>4

(* The oldest message leaves the queue, and what its sender wanted is done.*)
LEMMA ReceiveKeepsMembers ==
  ASSUME MemberInv, ReceiveOne PROVE MemberInv'
<1> DEFINE m == Head(inbox)
<1>0. inbox \in Seq(Message) /\ inbox # <<>> /\ inbox' = Tail(inbox) /\ wanted' = wanted
  BY DEF MemberInv, ReceiveOne
<1>1. /\ inbox' \in Seq(Message) /\ Len(inbox') = Len(inbox) - 1 /\ Len(inbox) \in Nat \ {0}
      /\ \A i \in 1..(Len(inbox) - 1) : inbox'[i] = inbox[i + 1]
      /\ m = inbox[1]
  BY <1>0
<1>2. HandleMessage(m)
  BY DEF ReceiveOne
<1> HIDE DEF m
<1>3. \A s : \A i : i \in Controls(s)' <=> i \in Nat \ {0} /\ i + 1 \in Controls(s)
  BY <1>1 DEF Controls
<1>4. \A s : 1 \in Controls(s) <=> m.from = s /\ m.kind \in {"join", "leave"}
  BY <1>1 DEF Controls
<1>5. \A s : Controls(s) \subseteq Nat \ {0}
  BY DEF Controls
<1>6. LastControlTells'
  <2> SUFFICES ASSUME NEW s \in Session, NEW i \in Controls(s)',
                      \A j \in Controls(s)' : j <= i
               PROVE  inbox'[i].kind = "join" <=> s \in wanted'
    BY DEF LastControlTells
  <2>1. i \in Nat \ {0} /\ i + 1 \in Controls(s)
    BY <1>3
  <2>2. ASSUME NEW j \in Controls(s) PROVE j <= i + 1
    <3>1. j \in Nat \ {0}
      BY <1>5
    <3>2. CASE j = 1
      BY <2>1, <3>2
    <3>3. CASE j # 1
      <4>1. j - 1 \in Nat \ {0} /\ (j - 1) + 1 = j
        BY <3>1, <3>3
      <4>2. j - 1 \in Controls(s)'
        BY <1>3, <4>1
      <4> QED
        BY <2>1, <3>1, <4>2
    <3> QED
      BY <3>2, <3>3
  <2>3. inbox[i + 1].kind = "join" <=> s \in wanted
    BY <2>1, <2>2 DEF MemberInv, LastControlTells
  <2>4. inbox'[i] = inbox[i + 1]
    BY <1>1, <2>1 DEF Controls
  <2> QED
    BY <1>0, <2>3, <2>4
<1>7. MembershipFollowsTopic'
  <2> SUFFICES ASSUME NEW s \in Session, Controls(s)' = {}
               PROVE  s \in sessions' <=> s \in wanted'
    BY DEF MembershipFollowsTopic
  <2>1. ASSUME NEW j \in Controls(s) PROVE j = 1
    <3>1. j \in Nat \ {0}
      BY <1>5
    <3>2. ASSUME j # 1 PROVE FALSE
      <4>1. j - 1 \in Nat \ {0} /\ (j - 1) + 1 = j
        BY <3>1, <3>2
      <4> QED
        BY <1>3, <4>1
    <3> QED
      BY <3>2
  <2>2. CASE 1 \in Controls(s)
    <3>1. inbox[1].kind = "join" <=> s \in wanted
      BY <2>1, <2>2 DEF MemberInv, LastControlTells
    <3>2. m.from = s /\ m.kind \in {"join", "leave"}
      BY <1>4, <2>2
    <3> QED
      BY <1>0, <1>1, <1>2, <3>1, <3>2, HandleMember
  <2>3. CASE 1 \notin Controls(s)
    <3>1. Controls(s) = {}
      BY <2>1, <2>3
    <3>2. m.from # s \/ m.kind \notin {"join", "leave"}
      BY <1>4, <2>3
    <3> QED
      BY <1>0, <1>2, <3>1, <3>2, HandleMember DEF MemberInv, MembershipFollowsTopic
  <2> QED
    BY <2>2, <2>3
<1> QED
  BY <1>1, <1>6, <1>7 DEF MemberInv

LEMMA MemberNext == MemberInv /\ [Next]_vars => MemberInv'
<1> SUFFICES ASSUME MemberInv, [Next]_vars PROVE MemberInv'
  OBVIOUS
<1>1. ASSUME NEW m \in Message, Arrive(m) PROVE MemberInv'
  BY <1>1, ArriveKeepsMembers
<1>2. CASE ReceiveOne
  BY <1>2, ReceiveKeepsMembers
<1>3. CASE UNCHANGED <<inbox, sessions, wanted>>
  BY <1>3 DEF MemberInv, LastControlTells, MembershipFollowsTopic, Controls
<1> QED
  BY <1>1, <1>2, <1>3
  DEF Next, Run, Return, TickFires, ReceiveEmpty, SendOne, SendEmpty, ApplyInput,
      BroadcastFrame, Cancel, EnqueueSend, vars, code, history

(* Membership follows the topic for any number of sessions, however long   *)
(* the queue and however their joins and leaves overlap: what decides is   *)
(* the last of them in the queue (RECEIVE_LOOP, Room.HandleMessage).       *)
THEOREM MembershipIsTopics == Spec => []MembershipFollowsTopic
<1>1. MemberInv => MembershipFollowsTopic
  BY DEF MemberInv
<1> QED
  BY MemberInit, MemberNext, <1>1, PTL DEF Spec
=============================================================================
