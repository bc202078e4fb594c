--------------------------- MODULE WitheredProofs ---------------------------
(* Theorems about the whole program, for any number of sessions and every  *)
(* capacity: in it the room is Room and each endpoint a Link, and what     *)
(* follows from that for the clients.                                      *)
EXTENDS Withered, RoomProofs

USE WitheredAssumption

-----------------------------------------------------------------------------
(* The room                                                                *)

LEMMA PublicationIsMessage ==
  ASSUME NEW s \in Session, NEW f, NEW m \in Publication(s, f)
  PROVE  m \in Message /\ m.from = s /\ m.kind \in {"join", "leave", "input"}
  BY DEF Publication, Message

LEMMA RoomStepKept == SystemNext => [Next]_vars
<1> SUFFICES ASSUME SystemNext PROVE [Next]_vars
  OBVIOUS
<1>1. ASSUME NEW s \in Session, EndpointReads(s) PROVE [Next]_vars
  <2>1. PICK f : ReachesRoom(s, f) \/ UNCHANGED roomVars
    BY <1>1 DEF EndpointReads, MissesRoom, NotPublished
  <2>2. CASE ReachesRoom(s, f)
    <3>1. PICK m \in Publication(s, f) : Arrive(m)
      BY <2>2 DEF ReachesRoom
    <3> QED
      BY <3>1, PublicationIsMessage DEF Next
  <2> QED
    BY <2>1, <2>2 DEF roomVars
<1>2. ASSUME NEW s \in Session, Accept(s) \/ EndpointCloses(s) \/ EndpointEnds(s) \/ Browser(s)
      PROVE  UNCHANGED roomVars
  BY <1>2 DEF Accept, EndpointCloses, EndpointEnds, Browser
<1>3. CASE RoomSubscribes \/ Crash \/ Exit
  BY <1>3 DEF RoomSubscribes, Crash, Exit, roomVars
<1>4. CASE RoomStep \/ RoomBroadcasts \/ Signal
  BY <1>4 DEF RoomStep, RoomBroadcasts, Signal, Next, Run
<1>5. CASE RoomReturns
  BY <1>5 DEF RoomReturns, Next, Run, roomVars
<1> QED
  BY <1>1, <1>2, <1>3, <1>4, <1>5 DEF SystemNext, Server, roomVars

(* What the program does to its room is what Room does, so that whatever   *)
(* holds of a room by itself holds of it here (main, Room.Run).            *)
THEOREM RoomIsKept == System => Spec
<1>1. SystemInit => Init
  BY DEF SystemInit
<1>2. [SystemNext]_systemVars => [Next]_vars
  BY RoomStepKept DEF systemVars, roomVars
<1> QED
  BY <1>1, <1>2, PTL DEF System, Spec

LEMMA RoomHolds == System => [](TypeOK /\ MembersAreActors /\ MembershipFollowsTopic)
  BY RoomIsKept, TypeCorrect, SameMembers, MembershipIsTopics, PTL

-----------------------------------------------------------------------------
(* Types                                                                   *)

UpMessage   == {C!Frame(k) : k \in {"join", "leave", "data"}}
DownMessage == {C!Assign} \cup {C!Actors(A) : A \in SUBSET Session}

Typed == /\ client \in [Session -> C!Game]
         /\ up \in [Session -> Seq(UpMessage)]
         /\ down \in [Session -> Seq(DownMessage)]
         /\ ep \in [Session -> Endpoint]
         /\ roomID \in [Session -> {NoRoom, DefaultRoom}]
         /\ lost \subseteq Session

LEMMA TypedInit == SystemInit => Typed
<1> SUFFICES ASSUME SystemInit PROVE Typed
  OBVIOUS
<1>1. client \in [Session -> C!Game]
  <2>1. C!NewGame \in C!Game
    BY DEF C!NewGame, C!Game
  <2>2. client = [s \in Session |-> C!NewGame]
    BY DEF SystemInit, C!Init
  <2> QED
    BY <2>1, <2>2
<1>2. <<>> \in Seq(UpMessage) /\ <<>> \in Seq(DownMessage)
  OBVIOUS
<1>3. up \in [Session -> Seq(UpMessage)] /\ down \in [Session -> Seq(DownMessage)]
  BY <1>2 DEF SystemInit
<1>4. ep \in [Session -> Endpoint] /\ roomID \in [Session -> {NoRoom, DefaultRoom}]
  BY DEF SystemInit, Endpoint
<1> QED
  BY <1>1, <1>3, <1>4 DEF Typed, SystemInit

(* What the client's send does                                             *)
LEMMA SentIs ==
  ASSUME Typed, NEW s \in Session, NEW k \in {"join", "leave", "data"}
  PROVE  /\ C!Sent(s, C!Frame(k)) \in [Session -> Seq(UpMessage)]
         /\ \A t \in Session \ {s} : C!Sent(s, C!Frame(k))[t] = up[t]
         /\ C!Sent(s, C!Frame(k))[s] = IF client[s].ws = "open" /\ ~client[s].destroyed
                                       THEN Append(up[s], C!Frame(k)) ELSE up[s]
<1> DEFINE f == C!Frame(k)
<1>1. f \in UpMessage
  BY DEF UpMessage
<1>2. up \in [Session -> Seq(UpMessage)]
  BY DEF Typed
<1> HIDE DEF f
<1>3. Append(up[s], f) \in Seq(UpMessage)
  BY <1>1, <1>2
<1>4. C!Sent(s, f) = IF client[s].ws = "open" /\ ~client[s].destroyed
                     THEN [up EXCEPT ![s] = Append(up[s], f)] ELSE up
  BY DEF C!Sent
<1>5. C!Sent(s, f) \in [Session -> Seq(UpMessage)]
  BY <1>2, <1>3, <1>4
<1> QED
  BY <1>2, <1>4, <1>5 DEF f

(* The client's record after one of its handlers                           *)
GameIs(s, g) == /\ g \in C!Game
                /\ client' = [client EXCEPT ![s] = g]

LEMMA GameIsTyped ==
  ASSUME Typed, NEW s \in Session, NEW g, GameIs(s, g)
  PROVE  /\ client' \in [Session -> C!Game] /\ client'[s] = g
         /\ \A t \in Session \ {s} : client'[t] = client[t]
  BY DEF GameIs, Typed

LEMMA StartGame ==
  ASSUME Typed, NEW s \in Session, C!Start(s)
  PROVE  GameIs(s, [client[s] EXCEPT !.ws = "connecting"])
<1>1. client[s] \in C!Game /\ client \in [Session -> C!Game]
  BY DEF Typed
<1>2. [client[s] EXCEPT !.ws = "connecting"] \in C!Game
  BY <1>1 DEF C!Game
<1> QED
  BY <1>1, <1>2 DEF GameIs, C!Start

LEMMA OnOpenGame ==
  ASSUME Typed, NEW s \in Session, C!OnOpen(s)
  PROVE  GameIs(s, [client[s] EXCEPT !.ws = "open", !.connected = TRUE])
<1>1. client[s] \in C!Game /\ client \in [Session -> C!Game]
  BY DEF Typed
<1>2. [client[s] EXCEPT !.ws = "open", !.connected = TRUE] \in C!Game
  BY <1>1 DEF C!Game
<1> QED
  BY <1>1, <1>2 DEF GameIs, C!OnOpen

LEMMA OnAssignGame ==
  ASSUME Typed, NEW s \in Session, C!OnAssign(s)
  PROVE  GameIs(s, [client[s] EXCEPT !.known = TRUE])
<1>1. client[s] \in C!Game /\ client \in [Session -> C!Game]
  BY DEF Typed
<1>2. [client[s] EXCEPT !.known = TRUE] \in C!Game
  BY <1>1 DEF C!Game
<1> QED
  BY <1>1, <1>2 DEF GameIs, C!OnAssign

LEMMA OnActorsGame ==
  ASSUME Typed, NEW s \in Session, NEW A \in SUBSET Session, C!OnActors(s, A)
  PROVE  GameIs(s, [client[s] EXCEPT !.shown = A])
<1>1. client[s] \in C!Game /\ client \in [Session -> C!Game]
  BY DEF Typed
<1>2. [client[s] EXCEPT !.shown = A] \in C!Game
  BY <1>1 DEF C!Game
<1> QED
  BY <1>1, <1>2 DEF GameIs, C!OnActors

LEMMA SendInputGame ==
  ASSUME Typed, NEW s \in Session, C!SendInput(s)
  PROVE  GameIs(s, [client[s] EXCEPT !.inputs = @ + 1])
<1>1. client[s] \in C!Game /\ client \in [Session -> C!Game]
  BY DEF Typed
<1>3. client[s].inputs + 1 \in 0..MaxInputs
  BY <1>1 DEF C!SendInput, C!Game
<1>2. [client[s] EXCEPT !.inputs = @ + 1] \in C!Game
  BY <1>1, <1>3 DEF C!Game
<1> QED
  BY <1>1, <1>2 DEF GameIs, C!SendInput

LEMMA DestroyGame ==
  ASSUME Typed, NEW s \in Session, C!Destroy(s)
  PROVE  GameIs(s, [client[s] EXCEPT !.destroyed = TRUE,
                                     !.ws = IF @ = "closed" THEN @ ELSE "closing"])
<1>1. client[s] \in C!Game /\ client \in [Session -> C!Game]
  BY DEF Typed
<1>2. [client[s] EXCEPT !.destroyed = TRUE, !.ws = IF @ = "closed" THEN @ ELSE "closing"] \in C!Game
  BY <1>1 DEF C!Game
<1> QED
  BY <1>1, <1>2 DEF GameIs, C!Destroy

LEMMA OnCloseGame ==
  ASSUME Typed, NEW s \in Session, C!OnClose(s)
  PROVE  GameIs(s, [client[s] EXCEPT !.ws = "closed", !.connected = FALSE,
                                     !.known = FALSE, !.shown = {}])
<1>1. client[s] \in C!Game /\ client \in [Session -> C!Game]
  BY DEF Typed
<1>2. [client[s] EXCEPT !.ws = "closed", !.connected = FALSE,
                        !.known = FALSE, !.shown = {}] \in C!Game
  BY <1>1 DEF C!Game
<1> QED
  BY <1>1, <1>2 DEF GameIs, C!OnClose

(* What a handler does to the three queues and the record of its client    *)
LEMMA BrowserTyped ==
  ASSUME Typed, NEW s \in Session, Browser(s)
  PROVE  /\ client' \in [Session -> C!Game]
         /\ up' \in [Session -> Seq(UpMessage)] /\ down' \in [Session -> Seq(DownMessage)]
         /\ \A t \in Session \ {s} : /\ client'[t] = client[t]
                                    /\ up'[t] = up[t] /\ down'[t] = down[t]
<1>1. /\ client \in [Session -> C!Game]
      /\ up \in [Session -> Seq(UpMessage)] /\ down \in [Session -> Seq(DownMessage)]
  BY DEF Typed
<1>2. CASE C!Start(s) \/ C!OnOpen(s)
  <2>1. up' = up /\ down' = down
    BY <1>2 DEF C!Start, C!OnOpen
  <2> QED
    BY <1>1, <1>2, <2>1, StartGame, OnOpenGame, GameIsTyped
<1>3. CASE C!OnMessage(s)
  <2>1. PICK m : m = Head(down[s])
    OBVIOUS
  <2>2. down[s] # <<>> /\ down' = [down EXCEPT ![s] = Tail(down[s])]
    BY <1>3 DEF C!OnMessage
  <2>3. down[s] \in Seq(DownMessage)
    BY <1>1
  <2>4. m \in DownMessage /\ Tail(down[s]) \in Seq(DownMessage)
    BY <2>1, <2>2, <2>3
  <2>5. down' \in [Session -> Seq(DownMessage)] /\ \A t \in Session \ {s} : down'[t] = down[t]
    BY <1>1, <2>2, <2>4
  <2>6. CASE m.kind = "assign" /\ C!OnAssign(s)
    <3>1. up' = C!Sent(s, C!Frame("join"))
      BY <2>6 DEF C!OnAssign
    <3>2. client' \in [Session -> C!Game] /\ \A t \in Session \ {s} : client'[t] = client[t]
      BY <2>6, OnAssignGame, GameIsTyped
    <3>3. up' \in [Session -> Seq(UpMessage)] /\ \A t \in Session \ {s} : up'[t] = up[t]
      BY <3>1, SentIs
    <3> QED
      BY ONLY <2>5, <3>2, <3>3
  <2>7. CASE m.kind = "actors" /\ C!OnActors(s, m.shown)
    <3>1. up' = up
      BY <2>7 DEF C!OnActors
    <3>2. m.shown \in SUBSET Session
      BY <2>4, <2>7 DEF DownMessage, C!Assign, C!Actors
    <3> QED
      BY <1>1, <2>5, <2>7, <3>1, <3>2, OnActorsGame, GameIsTyped
  <2> QED
    BY <1>3, <2>1, <2>6, <2>7 DEF C!OnMessage
<1>4. CASE C!SendInput(s)
  <2>1. up' = C!Sent(s, C!Frame("data")) /\ down' = down
    BY <1>4 DEF C!SendInput
  <2>2. client' \in [Session -> C!Game] /\ \A t \in Session \ {s} : client'[t] = client[t]
    BY <1>4, SendInputGame, GameIsTyped
  <2>3. up' \in [Session -> Seq(UpMessage)] /\ \A t \in Session \ {s} : up'[t] = up[t]
    BY <2>1, SentIs
  <2> QED
    BY <1>1, <2>1, <2>2, <2>3
<1>5. CASE C!Destroy(s)
  <2>1. (up' = C!Sent(s, C!Frame("leave")) \/ up' = up) /\ down' = down
    BY <1>5 DEF C!Destroy
  <2>2. client' \in [Session -> C!Game] /\ \A t \in Session \ {s} : client'[t] = client[t]
    BY <1>5, DestroyGame, GameIsTyped
  <2>3. up' \in [Session -> Seq(UpMessage)] /\ \A t \in Session \ {s} : up'[t] = up[t]
    BY <1>1, <2>1, SentIs
  <2> QED
    BY <1>1, <2>1, <2>2, <2>3
<1>6. CASE C!OnClose(s)
  <2>1. /\ up' \in {up, [up EXCEPT ![s] = <<>>]} /\ down' = [down EXCEPT ![s] = <<>>]
    BY <1>6 DEF C!OnClose
  <2>2. <<>> \in Seq(UpMessage) /\ <<>> \in Seq(DownMessage)
    OBVIOUS
  <2> QED
    BY <1>1, <1>6, <2>1, <2>2, OnCloseGame, GameIsTyped
<1> QED
  BY <1>2, <1>3, <1>4, <1>5, <1>6 DEF Browser

LEMMA MovedIs ==
  ASSUME NEW s \in Session, NEW r, NEW k \in {"join", "leave", "data"}
  PROVE  L(s)!Moved(C!Frame(k), r) =
           IF k = "join" THEN DefaultRoom ELSE IF k = "leave" THEN NoRoom ELSE r
<1> DEFINE f == C!Frame(k)
<1>1. f.own = TRUE /\ f.kind = k /\ f.room = NoRoom
  BY DEF C!Frame
<1>2. L(s)!Moved(f, r) =
        CASE ~f.own -> r
          [] f.own /\ f.kind = "join"  -> IF f.room = NoRoom THEN DefaultRoom ELSE f.room
          [] f.own /\ f.kind = "leave" -> NoRoom
          [] OTHER -> r
  BY DEF L!Moved
<1> HIDE DEF f
<1> QED
  BY <1>1, <1>2 DEF f

(* What is read of session s                                               *)
LEMMA ReadTyped ==
  ASSUME Typed, NEW s \in Session, EndpointReads(s)
  PROVE  \E k \in {"join", "leave", "data"} :
           /\ up[s] # <<>> /\ Head(up[s]) = C!Frame(k)
           /\ Tail(up[s]) \in Seq(UpMessage)
           /\ up' = [up EXCEPT ![s] = Tail(up[s])]
           /\ roomID' = [roomID EXCEPT ![s] = IF k = "join" THEN DefaultRoom
                                              ELSE IF k = "leave" THEN NoRoom ELSE roomID[s]]
           /\ ReachesRoom(s, C!Frame(k)) \/ MissesRoom(s, C!Frame(k))
              \/ NotPublished(s, C!Frame(k))
<1>1. up[s] \in Seq(UpMessage) /\ up[s] # <<>>
  BY DEF Typed, EndpointReads
<1>2. Head(up[s]) \in UpMessage /\ Tail(up[s]) \in Seq(UpMessage)
  BY <1>1
<1>3. PICK k \in {"join", "leave", "data"} : Head(up[s]) = C!Frame(k)
  BY <1>2 DEF UpMessage
<1>4. PICK f : f = Head(up[s])
  OBVIOUS
<1>5. /\ up' = [up EXCEPT ![s] = Tail(up[s])]
      /\ roomID' = [roomID EXCEPT ![s] = L(s)!Moved(f, roomID[s])]
      /\ ReachesRoom(s, f) \/ MissesRoom(s, f) \/ NotPublished(s, f)
  BY <1>4 DEF EndpointReads
<1>6. L(s)!Moved(f, roomID[s]) =
        IF k = "join" THEN DefaultRoom ELSE IF k = "leave" THEN NoRoom ELSE roomID[s]
  BY <1>3, <1>4, MovedIs
<1>7. roomID' = [roomID EXCEPT ![s] = IF k = "join" THEN DefaultRoom
                                      ELSE IF k = "leave" THEN NoRoom ELSE roomID[s]]
  BY <1>5, <1>6
<1> QED
  BY <1>1, <1>2, <1>3, <1>4, <1>5, <1>7

LEMMA TypedNext == Typed /\ TypeOK /\ [SystemNext]_systemVars => Typed'
<1> SUFFICES ASSUME Typed, TypeOK, [SystemNext]_systemVars PROVE Typed'
  OBVIOUS
<1>1. /\ up \in [Session -> Seq(UpMessage)] /\ down \in [Session -> Seq(DownMessage)]
      /\ ep \in [Session -> Endpoint] /\ roomID \in [Session -> {NoRoom, DefaultRoom}]
      /\ lost \subseteq Session
  BY DEF Typed
<1>2. ASSUME NEW s \in Session, Browser(s) PROVE Typed'
  <2>1. UNCHANGED <<ep, roomID, lost>>
    BY <1>2 DEF Browser, serverVars
  <2> QED
    BY <1>2, <2>1, BrowserTyped DEF Typed
<1>3. ASSUME NEW s \in Session, Accept(s) PROVE Typed'
  <2>1. <<C!Assign>> \in Seq(DownMessage)
    BY DEF DownMessage
  <2>2. /\ ep' = [ep EXCEPT ![s] = "live"] /\ down' = [down EXCEPT ![s] = <<C!Assign>>]
        /\ UNCHANGED <<client, up, roomID, lost>>
    BY <1>3 DEF Accept
  <2>3. ep' \in [Session -> Endpoint] /\ down' \in [Session -> Seq(DownMessage)]
    BY <1>1, <2>1, <2>2 DEF Endpoint
  <2> QED
    BY <2>2, <2>3 DEF Typed
<1>4. ASSUME NEW s \in Session, EndpointReads(s) PROVE Typed'
  <2>1. PICK k \in {"join", "leave", "data"} :
           /\ Tail(up[s]) \in Seq(UpMessage)
           /\ up' = [up EXCEPT ![s] = Tail(up[s])]
           /\ roomID' = [roomID EXCEPT ![s] = IF k = "join" THEN DefaultRoom
                                              ELSE IF k = "leave" THEN NoRoom ELSE roomID[s]]
           /\ ReachesRoom(s, C!Frame(k)) \/ MissesRoom(s, C!Frame(k))
              \/ NotPublished(s, C!Frame(k))
    BY <1>4, ReadTyped
  <2>2. up' \in [Session -> Seq(UpMessage)] /\ roomID' \in [Session -> {NoRoom, DefaultRoom}]
    BY <1>1, <2>1
  <2>3. lost' \subseteq Session
    BY <1>1, <2>1 DEF ReachesRoom, MissesRoom, NotPublished, Losing
  <2>4. UNCHANGED <<client, down, ep>>
    BY <1>4 DEF EndpointReads
  <2> QED
    BY <2>2, <2>3, <2>4 DEF Typed
<1>5. ASSUME NEW s \in Session, EndpointCloses(s) \/ EndpointEnds(s) PROVE Typed'
  <2>1. ep' \in [Session -> Endpoint]
    BY <1>1, <1>5 DEF EndpointCloses, EndpointEnds, Endpoint
  <2>2. UNCHANGED <<client, up, down, roomID, lost>>
    BY <1>5 DEF EndpointCloses, EndpointEnds, clientVars
  <2> QED
    BY <2>1, <2>2 DEF Typed
<1>6. CASE RoomBroadcasts
  <2>1. DOMAIN actors \in SUBSET Session
    BY DEF TypeOK, Positions
  <2>2. PICK m : m = C!Actors(DOMAIN actors)
    OBVIOUS
  <2>3. m \in DownMessage
    BY <2>1, <2>2 DEF DownMessage
  <2>4. down' = [s \in Session |->
                  IF s \in heard' /\ ep[s] = "live" /\ Len(down[s]) < DownCap
                  THEN Append(down[s], m) ELSE down[s]]
    BY <1>6, <2>2 DEF RoomBroadcasts
  <2>5. \A s \in Session : Append(down[s], m) \in Seq(DownMessage)
    BY <1>1, <2>3
  <2>6. down' \in [Session -> Seq(DownMessage)]
    BY <1>1, <2>4, <2>5
  <2>7. UNCHANGED <<client, up, ep, roomID, lost>>
    BY <1>6 DEF RoomBroadcasts, serverVars
  <2> QED
    BY <2>6, <2>7 DEF Typed
<1>7. CASE UNCHANGED <<client, up, down, ep, roomID, lost>>
  BY <1>7 DEF Typed
<1>8. CASE \/ RoomSubscribes \/ RoomStep \/ RoomReturns
           \/ Crash \/ Signal \/ Exit \/ UNCHANGED systemVars
  BY <1>7, <1>8 DEF RoomSubscribes, RoomStep, RoomReturns, Crash, Signal, Exit, systemVars,
                    clientVars, serverVars
<1> QED
  BY <1>2, <1>3, <1>4, <1>5, <1>6, <1>8 DEF SystemNext, Server

LEMMA TypedAlways == System => []Typed
  BY TypedInit, TypedNext, RoomHolds, PTL DEF System

-----------------------------------------------------------------------------
(* What one session's client, endpoint and place in the room have to do    *)
(* with each other                                                         *)

Speaks(t)  == \E i \in 1..Len(inbox) : inbox[i].from = t
Sees(t)    == \E i \in 1..Len(down[t]) : down[t][i].kind = "actors"
Unknown(t) == \/ client[t].ws \in {"none", "connecting"}
              \/ client[t].ws = "open" /\ ~client[t].known

(* A client that does not know its ID has not been heard of.               *)
Fresh(t) == Unknown(t) => /\ ~client[t].known /\ up[t] = <<>>
                          /\ t \notin sessions /\ ~Speaks(t) /\ ~Sees(t)

(* Frames on their way and the one that is shown have the client in them.  *)
Shows(t) == /\ client[t].shown # {} => client[t].known /\ t \in client[t].shown
            /\ \A i \in 1..Len(down[t]) :
                 down[t][i].kind = "actors" => t \in down[t][i].shown

(* The leave is the last thing a client sends.                             *)
LeaveLast(t) == \A i \in 1..Len(up[t]) :
                  up[t][i].kind = "leave" => i = Len(up[t]) /\ client[t].destroyed

(* Ahead of everything else goes the join.                                 *)
JoinAhead(t) == roomID[t] # NoRoom \/ up[t] = <<>> \/ up[t][1].kind = "join"

(* A client that may send has joined, or its join is on the way.           *)
Joining(t) == client[t].ws = "open" /\ client[t].known /\ ~client[t].destroyed
                => roomID[t] # NoRoom \/ up[t] # <<>>

(* The room's topic has accepted what the endpoint published.              *)
Agrees(t) == t \notin lost => (t \in wanted <=> roomID[t] # NoRoom)

Local(t) == Fresh(t) /\ Shows(t) /\ LeaveLast(t) /\ JoinAhead(t) /\ Joining(t) /\ Agrees(t)

Locals == \A t \in Session : Local(t)

(* A step that does not concern t                                          *)
Same(t) == /\ client'[t] = client[t] /\ up'[t] = up[t] /\ down'[t] = down[t]
           /\ roomID'[t] = roomID[t]
           /\ t \in sessions' <=> t \in sessions
           /\ t \in wanted' <=> t \in wanted
           /\ t \in lost' <=> t \in lost
           /\ Speaks(t)' => Speaks(t)

LEMMA SameKeeps ==
  ASSUME NEW t \in Session, Local(t), Same(t)
  PROVE  Local(t)'
<1>1. Fresh(t)'
  BY DEF Local, Same, Fresh, Unknown, Sees
<1>2. Shows(t)'
  BY DEF Local, Same, Shows
<1>3. LeaveLast(t)'
  BY DEF Local, Same, LeaveLast
<1>4. JoinAhead(t)' /\ Joining(t)' /\ Agrees(t)'
  BY DEF Local, Same, JoinAhead, Joining, Agrees
<1> QED
  BY <1>1, <1>2, <1>3, <1>4 DEF Local

LEMMA LocalsInit == SystemInit => Locals
<1> SUFFICES ASSUME SystemInit, NEW t \in Session PROVE Local(t)
  BY DEF Locals
<1>1. /\ client[t] = C!NewGame /\ up[t] = <<>> /\ down[t] = <<>> /\ roomID[t] = NoRoom
      /\ sessions = {} /\ wanted = {} /\ inbox = <<>>
  BY DEF SystemInit, Init, C!Init
<1>2. ~Speaks(t) /\ ~Sees(t)
  BY <1>1 DEF Speaks, Sees
<1>3. Fresh(t) /\ Shows(t)
  BY <1>1, <1>2 DEF Fresh, Shows, C!NewGame
<1>4. LeaveLast(t) /\ JoinAhead(t) /\ Joining(t) /\ Agrees(t)
  BY <1>1 DEF LeaveLast, JoinAhead, Joining, Agrees, C!NewGame
<1> QED
  BY <1>3, <1>4 DEF Local

(* The handlers of a client leave the room and the endpoints alone.        *)
LEMMA BrowserElsewhere ==
  ASSUME Typed, NEW s \in Session, Browser(s)
  PROVE  /\ UNCHANGED <<roomVars, roomID, lost, ep>>
         /\ \A t \in Session \ {s} : Same(t)
         /\ Speaks(s)' <=> Speaks(s)
<1>1. UNCHANGED <<roomVars, roomID, lost, ep>>
  BY DEF Browser, serverVars
<1>2. UNCHANGED <<sessions, wanted, inbox>>
  BY <1>1 DEF roomVars, vars, code, history
<1> QED
  BY <1>1, <1>2, BrowserTyped DEF Same, Speaks

(* A queue that grows at its end keeps what it had.                        *)
LEMMA GrowsAtEnd ==
  ASSUME NEW S, NEW q \in Seq(S), NEW e \in S
  PROVE  /\ Len(Append(q, e)) = Len(q) + 1 /\ Append(q, e) # <<>> /\ Len(q) \in Nat
         /\ \A i \in 1..Len(q) : Append(q, e)[i] = q[i]
         /\ Append(q, e)[Len(q) + 1] = e
         /\ \A i \in 1..Len(q) + 1 : i \in 1..Len(q) \/ i = Len(q) + 1
  OBVIOUS

LEMMA WithoutFirst ==
  ASSUME NEW S, NEW q \in Seq(S), q # <<>>
  PROVE  /\ Head(q) = q[1] /\ Len(q) \in Nat /\ 1 \in 1..Len(q)
         /\ Tail(q) \in Seq(S) /\ Len(Tail(q)) = Len(q) - 1
         /\ \A i \in 1..Len(Tail(q)) : Tail(q)[i] = q[i + 1] /\ i + 1 \in 1..Len(q)
  OBVIOUS

(* A step of the room that publishes nothing                               *)
LEMMA RoomStepLocal ==
  ASSUME Locals, TypeOK, RoomStep
  PROVE  Locals'
<1>1. UNCHANGED <<client, up, down, roomID, lost>>
  BY DEF RoomStep, clientVars, serverVars
<1>2. CASE TickFires \/ ReceiveEmpty \/ SendEmpty \/ ApplyInput
  <2>1. UNCHANGED <<sessions, wanted, inbox>>
    BY <1>2 DEF TickFires, ReceiveEmpty, SendEmpty, ApplyInput, history
  <2>2. \A t \in Session : Same(t)
    BY <1>1, <2>1 DEF Same, Speaks
  <2> QED
    BY <2>2, SameKeeps DEF Locals
<1>3. CASE ReceiveOne
  <2>1. /\ inbox # <<>> /\ inbox' = Tail(inbox) /\ wanted' = wanted
        /\ HandleMessage(Head(inbox))
    BY <1>3 DEF ReceiveOne
  <2>2. inbox \in Seq(Message)
    BY DEF TypeOK
  <2>3. /\ Head(inbox) = inbox[1] /\ 1 \in 1..Len(inbox)
        /\ \A i \in 1..Len(inbox') : inbox'[i] = inbox[i + 1] /\ i + 1 \in 1..Len(inbox)
    BY <2>1, <2>2, WithoutFirst
  <2>4. ASSUME NEW t \in Session PROVE Local(t)'
    <3>1. Local(t)
      BY DEF Locals
    <3>2. Speaks(t)' => Speaks(t)
      BY <2>3 DEF Speaks
    <3>3. Speaks(t) \/ (t \in sessions' <=> t \in sessions)
      <4>1. Head(inbox).from = t => Speaks(t)
        BY <2>3 DEF Speaks
      <4>2. Head(inbox).from # t => (t \in sessions' <=> t \in sessions)
        BY <2>1 DEF HandleMessage
      <4> QED
        BY <4>1, <4>2
    <3>4. Fresh(t)'
      BY <1>1, <3>1, <3>2, <3>3 DEF Local, Fresh, Unknown, Sees
    <3>5. Shows(t)' /\ LeaveLast(t)' /\ JoinAhead(t)' /\ Joining(t)' /\ Agrees(t)'
      BY <1>1, <2>1, <3>1 DEF Local, Shows, LeaveLast, JoinAhead, Joining, Agrees
    <3> QED
      BY <3>4, <3>5 DEF Local
  <2> QED
    BY <2>4 DEF Locals
<1> QED
  BY <1>2, <1>3 DEF RoomStep

(* The frame goes to members only, and its actors are the members.         *)
LEMMA BroadcastsLocal ==
  ASSUME Locals, Typed, TypeOK, MembersAreActors, RoomBroadcasts
  PROVE  Locals'
<1>1. UNCHANGED <<client, up, roomID, lost, sessions, wanted, inbox>> /\ heard' \subseteq sessions
  BY DEF RoomBroadcasts, serverVars, BroadcastFrame
<1>2. PICK m : m = C!Actors(sessions)
  OBVIOUS
<1>3. down' = [s \in Session |->
                IF s \in heard' /\ ep[s] = "live" /\ Len(down[s]) < DownCap
                THEN Append(down[s], m) ELSE down[s]]
  BY <1>2 DEF RoomBroadcasts, MembersAreActors
<1>4. m \in DownMessage /\ m.kind = "actors" /\ m.shown = sessions
  BY <1>2 DEF DownMessage, C!Actors, TypeOK
<1>5. ASSUME NEW t \in Session PROVE Local(t)'
  <2>1. Local(t) /\ down[t] \in Seq(DownMessage)
    BY DEF Locals, Typed
  <2>2. CASE down'[t] = down[t]
    <3>1. Same(t)
      BY <1>1, <2>2 DEF Same, Speaks
    <3> QED
      BY <2>1, <3>1, SameKeeps
  <2>3. CASE t \in heard' /\ down'[t] = Append(down[t], m)
    <3>1. t \in sessions
      BY <1>1, <2>3
    <3>2. ~Unknown(t)
      BY <2>1, <3>1 DEF Local, Fresh
    <3>3. Fresh(t)'
      BY <1>1, <3>2 DEF Fresh, Unknown
    <3>4. \A i \in 1..Len(down'[t]) : \/ i \in 1..Len(down[t]) /\ down'[t][i] = down[t][i]
                                      \/ down'[t][i] = m
      BY <1>4, <2>1, <2>3, GrowsAtEnd
    <3>5. Shows(t)'
      BY <1>1, <1>4, <2>1, <3>1, <3>4 DEF Local, Shows
    <3>6. LeaveLast(t)' /\ JoinAhead(t)' /\ Joining(t)' /\ Agrees(t)'
      BY <1>1, <2>1 DEF Local, LeaveLast, JoinAhead, Joining, Agrees
    <3> QED
      BY <3>3, <3>5, <3>6 DEF Local
  <2> QED
    BY <1>3, <2>2, <2>3
<1> QED
  BY <1>5 DEF Locals

(* What a read does to the room's topic                                    *)
LEMMA ReadElsewhere ==
  ASSUME Typed, TypeOK, NEW s \in Session, EndpointReads(s)
  PROVE  /\ UNCHANGED <<client, down, sessions>>
         /\ lost \subseteq lost' /\ lost' \subseteq lost \cup {s}
         /\ \A t \in Session \ {s} : Same(t)
<1>1. PICK k \in {"join", "leave", "data"} :
         /\ up' = [up EXCEPT ![s] = Tail(up[s])]
         /\ roomID' = [roomID EXCEPT ![s] = IF k = "join" THEN DefaultRoom
                                            ELSE IF k = "leave" THEN NoRoom ELSE roomID[s]]
         /\ ReachesRoom(s, C!Frame(k)) \/ MissesRoom(s, C!Frame(k))
            \/ NotPublished(s, C!Frame(k))
  BY ReadTyped
<1>2. UNCHANGED <<client, down>>
  BY DEF EndpointReads
<1>3. lost \subseteq lost' /\ lost' \subseteq lost \cup {s}
  BY <1>1 DEF ReachesRoom, MissesRoom, NotPublished, Losing
<1>4. /\ sessions' = sessions
      /\ \A t \in Session \ {s} : (t \in wanted' <=> t \in wanted) /\ (Speaks(t)' => Speaks(t))
  <2>1. CASE UNCHANGED <<sessions, wanted, inbox>>
    BY <2>1 DEF Speaks
  <2>2. CASE ReachesRoom(s, C!Frame(k))
    <3>1. PICK m \in Publication(s, C!Frame(k)) : Arrive(m)
      BY <2>2 DEF ReachesRoom
    <3>2. m \in Message /\ m.from = s
      BY <3>1, PublicationIsMessage
    <3>3. /\ sessions' = sessions
          /\ \/ UNCHANGED <<inbox, wanted>>
             \/ /\ inbox' = Append(inbox, m)
                /\ wanted' \in {wanted, wanted \cup {m.from}, wanted \ {m.from}}
      BY <3>1 DEF Arrive
    <3>4. inbox \in Seq(Message)
      BY DEF TypeOK
    <3>5. CASE inbox' = Append(inbox, m)
      <4>1. \A i \in 1..Len(inbox') : \/ i \in 1..Len(inbox) /\ inbox'[i] = inbox[i]
                                      \/ inbox'[i] = m
        BY <3>2, <3>4, <3>5, GrowsAtEnd
      <4>2. \A t \in Session \ {s} : Speaks(t)' => Speaks(t)
        BY <3>2, <4>1 DEF Speaks
      <4> QED
        BY <3>2, <3>3, <4>2
    <3> QED
      BY <2>1, <3>3, <3>5
  <2>3. CASE MissesRoom(s, C!Frame(k)) \/ NotPublished(s, C!Frame(k))
    <3>1. UNCHANGED roomVars
      BY <2>3 DEF MissesRoom, NotPublished
    <3> QED
      BY <2>1, <3>1 DEF roomVars, vars, code, history
  <2> QED
    BY <1>1, <2>2, <2>3
<1>5. \A t \in Session \ {s} : up'[t] = up[t] /\ roomID'[t] = roomID[t]
  BY <1>1 DEF Typed
<1> QED
  BY <1>2, <1>3, <1>4, <1>5 DEF Same

(* Endpoint and topic agree after a read, or the publication was lost.     *)
LEMMA ReadAgrees ==
  ASSUME Typed, TypeOK, NEW s \in Session, EndpointReads(s), Agrees(s)
  PROVE  Agrees(s)'
<1>1. PICK k \in {"join", "leave", "data"} :
         /\ roomID' = [roomID EXCEPT ![s] = IF k = "join" THEN DefaultRoom
                                            ELSE IF k = "leave" THEN NoRoom ELSE roomID[s]]
         /\ ReachesRoom(s, C!Frame(k)) \/ MissesRoom(s, C!Frame(k))
            \/ NotPublished(s, C!Frame(k))
  BY ReadTyped
<1>2. roomID'[s] = IF k = "join" THEN DefaultRoom ELSE IF k = "leave" THEN NoRoom ELSE roomID[s]
  BY <1>1 DEF Typed
<1>3. lost \subseteq lost'
  BY ReadElsewhere
<1>4. PICK f : f = C!Frame(k)
  OBVIOUS
<1>5. f.kind = k
  BY <1>4 DEF C!Frame
<1>6. Losing(s, f) = IF k = "data" THEN lost ELSE lost \cup {s}
  BY <1>5 DEF Losing
<1>7. CASE ReachesRoom(s, f) /\ Len(inbox) < InboxCap
  <2>1. PICK m \in Publication(s, f) : Arrive(m)
    BY <1>7 DEF ReachesRoom
  <2>2. m.from = s
    BY <2>1, PublicationIsMessage
  <2>3. wanted' = IF m.kind = "join" THEN wanted \cup {s}
                  ELSE IF m.kind = "leave" THEN wanted \ {s} ELSE wanted
    BY <1>7, <2>1, <2>2 DEF Arrive
  <2>4. m.kind = IF k = "data" THEN "input" ELSE k
    BY <1>5, <2>1 DEF Publication
  <2> QED
    BY <1>2, <1>3, <2>3, <2>4 DEF Agrees
<1>8. CASE ReachesRoom(s, f) /\ ~(Len(inbox) < InboxCap)
  <2>1. wanted' = wanted /\ lost' = Losing(s, f)
    BY <1>8 DEF ReachesRoom, Arrive
  <2> QED
    BY <1>2, <1>6, <2>1 DEF Agrees
<1>9. CASE MissesRoom(s, f)
  <2>1. wanted' = wanted /\ lost' = Losing(s, f)
    BY <1>9 DEF MissesRoom, roomVars, vars, history
  <2> QED
    BY <1>2, <1>6, <2>1 DEF Agrees
<1>10. CASE NotPublished(s, f)
  <2>1. wanted' = wanted /\ lost' = lost /\ Publication(s, f) = {}
    BY <1>10 DEF NotPublished, roomVars, vars, history
  <2>2. k # "join"
    BY <1>5, <2>1 DEF Publication
  <2>3. k = "leave" => roomID[s] = NoRoom
    BY <1>5, <2>1 DEF Publication
  <2> QED
    BY <1>2, <2>1, <2>2, <2>3 DEF Agrees
<1> QED
  BY <1>1, <1>4, <1>7, <1>8, <1>9, <1>10

LEMMA ReadLocal ==
  ASSUME Locals, Typed, TypeOK, NEW s \in Session, EndpointReads(s)
  PROVE  Locals'
<1>1. PICK k \in {"join", "leave", "data"} :
         /\ up[s] # <<>> /\ Head(up[s]) = C!Frame(k)
         /\ up' = [up EXCEPT ![s] = Tail(up[s])]
         /\ roomID' = [roomID EXCEPT ![s] = IF k = "join" THEN DefaultRoom
                                            ELSE IF k = "leave" THEN NoRoom ELSE roomID[s]]
  BY ReadTyped
<1>2. UNCHANGED <<client, down, sessions>>
  BY ReadElsewhere
<1>3. Local(s)
  BY DEF Locals
<1>4. up[s] \in Seq(UpMessage)
  BY DEF Typed
<1>5. /\ roomID'[s] = IF k = "join" THEN DefaultRoom ELSE IF k = "leave" THEN NoRoom ELSE roomID[s]
      /\ up'[s] = Tail(up[s])
  BY <1>1 DEF Typed
<1>6. /\ Head(up[s]) = up[s][1] /\ Len(up[s]) \in Nat /\ 1 \in 1..Len(up[s])
      /\ Len(up'[s]) = Len(up[s]) - 1 /\ up'[s] \in Seq(UpMessage)
      /\ \A i \in 1..Len(up'[s]) : up'[s][i] = up[s][i + 1] /\ i + 1 \in 1..Len(up[s])
  <2>1. up[s] # <<>>
    BY <1>1
  <2> QED
    BY ONLY <1>4, <1>5, <2>1, WithoutFirst
<1>7. up[s][1].kind = k
  BY <1>1, <1>6 DEF C!Frame
<1>8. Fresh(s)'
  <2>1. ~Unknown(s)
    BY <1>1, <1>3 DEF Local, Fresh
  <2> QED
    BY <1>2, <2>1 DEF Fresh, Unknown
<1>9. Shows(s)'
  BY <1>2, <1>3 DEF Local, Shows
<1>10. LeaveLast(s)'
  BY <1>2, <1>3, <1>6 DEF Local, LeaveLast
<1>11. k = "leave" => Len(up'[s]) = 0 /\ client[s].destroyed
  <2>1. k = "leave" => 1 = Len(up[s]) /\ client[s].destroyed
    BY <1>3, <1>6, <1>7 DEF Local, LeaveLast
  <2> QED
    BY <1>6, <2>1
<1>12. k = "leave" => up'[s] = <<>>
  BY <1>6, <1>11
<1>13. k = "data" => roomID[s] # NoRoom
  BY <1>1, <1>3, <1>7 DEF Local, JoinAhead
<1>14. JoinAhead(s)' /\ Joining(s)'
  BY <1>2, <1>5, <1>11, <1>12, <1>13 DEF JoinAhead, Joining
<1>15. Agrees(s)'
  BY <1>3, ReadAgrees DEF Local
<1>16. Local(s)'
  BY <1>8, <1>9, <1>10, <1>14, <1>15 DEF Local
<1>17. \A t \in Session \ {s} : Local(t)'
  BY ReadElsewhere, SameKeeps DEF Locals
<1> QED
  BY <1>16, <1>17 DEF Locals

(* What the client sends goes behind what is on its way.                   *)
LEMMA SentAtEnd ==
  ASSUME Typed, NEW s \in Session, NEW k \in {"join", "leave", "data"},
         up' = C!Sent(s, C!Frame(k))
  PROVE  \/ ~(client[s].ws = "open" /\ ~client[s].destroyed) /\ up'[s] = up[s]
         \/ /\ client[s].ws = "open" /\ ~client[s].destroyed
            /\ up'[s] # <<>> /\ Len(up'[s]) = Len(up[s]) + 1 /\ Len(up[s]) \in Nat
            /\ \A i \in 1..Len(up'[s]) :
                 \/ i \in 1..Len(up[s]) /\ up'[s][i] = up[s][i]
                 \/ i = Len(up'[s]) /\ up'[s][i].kind = k
<1>1. PICK f : f = C!Frame(k)
  OBVIOUS
<1>2. f \in UpMessage /\ f.kind = k
  BY <1>1 DEF UpMessage, C!Frame
<1>3. up'[s] = IF client[s].ws = "open" /\ ~client[s].destroyed
              THEN Append(up[s], f) ELSE up[s]
  BY <1>1, SentIs
<1>4. up[s] \in Seq(UpMessage)
  BY DEF Typed
<1> QED
  BY <1>2, <1>3, <1>4, GrowsAtEnd

(* A client that sends behind a join, or in a room, still has its join     *)
(* ahead.                                                                  *)
LEMMA SentStaysBehind ==
  ASSUME Typed, NEW s \in Session, NEW k \in {"join", "leave", "data"}, Local(s),
         up' = C!Sent(s, C!Frame(k)), roomID' = roomID,
         k = "join" \/ client[s].known
  PROVE  JoinAhead(s)'
<1>1. up[s] \in Seq(UpMessage)
  BY DEF Typed
<1>2. CASE up'[s] = up[s]
  BY <1>2 DEF Local, JoinAhead
<1>3. CASE /\ client[s].ws = "open" /\ ~client[s].destroyed
           /\ up'[s] # <<>> /\ Len(up'[s]) = Len(up[s]) + 1 /\ Len(up[s]) \in Nat
           /\ \A i \in 1..Len(up'[s]) :
                \/ i \in 1..Len(up[s]) /\ up'[s][i] = up[s][i]
                \/ i = Len(up'[s]) /\ up'[s][i].kind = k
  <2>1. CASE up[s] = <<>>
    <3>1. up'[s][1].kind = k
      BY <1>3, <2>1
    <3>2. k = "join" \/ roomID[s] # NoRoom
      BY <1>3, <2>1 DEF Local, Joining
    <3> QED
      BY <3>1, <3>2 DEF JoinAhead
  <2>2. CASE up[s] # <<>>
    <3>1. 1 \in 1..Len(up'[s]) /\ 1 # Len(up'[s])
      BY <1>1, <1>3, <2>2
    <3>2. up'[s][1] = up[s][1]
      BY <1>3, <3>1
    <3> QED
      BY <2>2, <3>2 DEF Local, JoinAhead
  <2> QED
    BY <2>1, <2>2
<1> QED
  BY <1>2, <1>3, SentAtEnd

(* Nothing follows a leave: who has sent one is destroyed.                 *)
LEMMA SentLeavesLast ==
  ASSUME Typed, NEW s \in Session, NEW k \in {"join", "leave", "data"}, Local(s),
         up' = C!Sent(s, C!Frame(k)),
         client[s].destroyed => client'[s].destroyed,
         k = "leave" => client'[s].destroyed
  PROVE  LeaveLast(s)'
<1>1. CASE up'[s] = up[s]
  BY <1>1 DEF Local, LeaveLast
<1>2. CASE /\ client[s].ws = "open" /\ ~client[s].destroyed
           /\ \A i \in 1..Len(up'[s]) :
                \/ i \in 1..Len(up[s]) /\ up'[s][i] = up[s][i]
                \/ i = Len(up'[s]) /\ up'[s][i].kind = k
  BY <1>2 DEF Local, LeaveLast
<1> QED
  BY <1>1, <1>2, SentAtEnd

LEMMA MessageLocal ==
  ASSUME Typed, NEW s \in Session, Local(s), C!OnMessage(s),
         UNCHANGED <<roomID, lost, sessions, wanted, inbox>>
  PROVE  Local(s)'
<1>1. PICK m : m = Head(down[s])
  OBVIOUS
<1>2. /\ client[s].ws = "open" /\ down[s] # <<>>
      /\ \/ m.kind = "assign" /\ C!OnAssign(s)
         \/ m.kind = "actors" /\ C!OnActors(s, m.shown)
      /\ down' = [down EXCEPT ![s] = Tail(down[s])]
  BY <1>1 DEF C!OnMessage
<1>3. down[s] \in Seq(DownMessage) /\ down'[s] = Tail(down[s]) /\ client[s] \in C!Game
  BY <1>2 DEF Typed
<1>4. /\ m = down[s][1] /\ 1 \in 1..Len(down[s])
      /\ \A i \in 1..Len(down'[s]) : down'[s][i] = down[s][i + 1] /\ i + 1 \in 1..Len(down[s])
  <2>1. /\ Head(down[s]) = down[s][1] /\ 1 \in 1..Len(down[s])
        /\ \A i \in 1..Len(Tail(down[s])) :
             Tail(down[s])[i] = down[s][i + 1] /\ i + 1 \in 1..Len(down[s])
    BY <1>2, <1>3, WithoutFirst
  <2> QED
    BY <1>1, <1>3, <2>1
<1>5. Agrees(s)'
  BY DEF Local, Agrees
<1>6. CASE m.kind = "assign" /\ C!OnAssign(s)
  <2>1. up' = C!Sent(s, C!Frame("join"))
    BY <1>6 DEF C!OnAssign
  <2>2. client'[s] = [client[s] EXCEPT !.known = TRUE]
    BY <1>6, OnAssignGame, GameIsTyped
  <2>3. /\ client'[s].known /\ client'[s].ws = "open"
        /\ client'[s].destroyed = client[s].destroyed /\ client'[s].shown = client[s].shown
    BY <1>2, <1>3, <2>2 DEF C!Game
  <2>4. Fresh(s)'
    BY <2>3 DEF Fresh, Unknown
  <2>5. Shows(s)'
    BY <1>4, <2>3 DEF Local, Shows
  <2>6. LeaveLast(s)' /\ JoinAhead(s)'
    BY <2>1, <2>3, SentLeavesLast, SentStaysBehind
  <2>7. Joining(s)'
    BY <1>2, <2>1, <2>3, SentAtEnd DEF Joining
  <2> QED
    BY <1>5, <2>4, <2>5, <2>6, <2>7 DEF Local
<1>7. CASE m.kind = "actors" /\ C!OnActors(s, m.shown)
  <2>1. m \in DownMessage /\ m.shown \in SUBSET Session
    BY <1>3, <1>4, <1>7 DEF DownMessage, C!Assign, C!Actors
  <2>2. client'[s] = [client[s] EXCEPT !.shown = m.shown] /\ up' = up
    BY <1>7, <2>1, OnActorsGame, GameIsTyped DEF C!OnActors
  <2>3. /\ client'[s].known = client[s].known /\ client'[s].ws = "open"
        /\ client'[s].destroyed = client[s].destroyed /\ client'[s].shown = m.shown
    BY <1>2, <1>3, <2>2 DEF C!Game
  <2>4. client[s].known
    <3>1. Sees(s)
      BY <1>4, <1>7 DEF Sees
    <3> QED
      BY <1>2, <3>1 DEF Local, Fresh, Unknown
  <2>5. Fresh(s)'
    BY <2>3, <2>4 DEF Fresh, Unknown
  <2>6. Shows(s)'
    BY <1>4, <1>7, <2>3, <2>4 DEF Local, Shows
  <2>7. LeaveLast(s)' /\ JoinAhead(s)' /\ Joining(s)'
    BY <1>2, <2>2, <2>3 DEF Local, LeaveLast, JoinAhead, Joining
  <2> QED
    BY <1>5, <2>5, <2>6, <2>7 DEF Local
<1> QED
  BY <1>2, <1>6, <1>7

LEMMA BrowserLocal ==
  ASSUME Locals, Typed, NEW s \in Session, Browser(s)
  PROVE  Locals'
<1> SUFFICES Local(s)'
  BY BrowserElsewhere, SameKeeps DEF Locals
<1>1. UNCHANGED <<roomID, lost, sessions, wanted, inbox>>
  BY BrowserElsewhere DEF roomVars, vars, code, history
<1>2. Local(s) /\ client[s] \in C!Game
  BY DEF Locals, Typed
<1>3. Agrees(s)' /\ (Speaks(s)' <=> Speaks(s))
  BY <1>1, <1>2 DEF Local, Agrees, Speaks
<1>4. CASE C!Start(s) \/ C!OnOpen(s)
  <2>1. UNCHANGED <<up, down>>
    BY <1>4 DEF C!Start, C!OnOpen
  <2>2. /\ client'[s].known = client[s].known /\ client'[s].shown = client[s].shown
        /\ client'[s].destroyed = client[s].destroyed /\ Unknown(s)
    <3>1. CASE C!Start(s)
      <4>1. client'[s] = [client[s] EXCEPT !.ws = "connecting"] /\ client[s].ws = "none"
        BY <3>1, StartGame, GameIsTyped DEF C!Start
      <4> QED
        BY <1>2, <4>1 DEF Unknown, C!Game
    <3>2. CASE C!OnOpen(s)
      <4>1. /\ client'[s] = [client[s] EXCEPT !.ws = "open", !.connected = TRUE]
            /\ client[s].ws = "connecting"
        BY <3>2, OnOpenGame, GameIsTyped DEF C!OnOpen
      <4> QED
        BY <1>2, <4>1 DEF Unknown, C!Game
    <3> QED
      BY <1>4, <3>1, <3>2
  <2>3. Fresh(s)'
    BY <1>1, <1>2, <1>3, <2>1, <2>2 DEF Local, Fresh, Sees
  <2>4. ~client[s].known
    BY <1>2, <2>2 DEF Local, Fresh
  <2>5. Shows(s)'
    BY <1>2, <2>1, <2>2 DEF Local, Shows
  <2>6. LeaveLast(s)' /\ JoinAhead(s)' /\ Joining(s)'
    BY <1>1, <1>2, <2>1, <2>2, <2>4 DEF Local, LeaveLast, JoinAhead, Joining
  <2> QED
    BY <1>3, <2>3, <2>5, <2>6 DEF Local
<1>5. CASE C!OnMessage(s)
  BY <1>1, <1>2, <1>5, MessageLocal
<1>6. CASE C!SendInput(s)
  <2>1. up' = C!Sent(s, C!Frame("data")) /\ down' = down /\ client[s].known
    BY <1>6 DEF C!SendInput
  <2>2. client'[s] = [client[s] EXCEPT !.inputs = @ + 1]
    BY <1>6, SendInputGame, GameIsTyped
  <2>3. /\ client'[s].known = client[s].known /\ client'[s].ws = client[s].ws
        /\ client'[s].destroyed = client[s].destroyed /\ client'[s].shown = client[s].shown
    BY <1>2, <2>2 DEF C!Game
  <2>4. Fresh(s)'
    <3>1. ~Unknown(s)
      BY <1>2, <2>1 DEF Local, Fresh
    <3> QED
      BY <2>3, <3>1 DEF Fresh, Unknown
  <2>5. Shows(s)'
    BY <1>2, <2>1, <2>3 DEF Local, Shows
  <2>6. LeaveLast(s)' /\ JoinAhead(s)'
    BY <1>1, <1>2, <2>1, <2>3, SentLeavesLast, SentStaysBehind
  <2>7. Joining(s)'
    BY <1>1, <1>2, <2>1, <2>3, SentAtEnd DEF Local, Joining
  <2> QED
    BY <1>3, <2>4, <2>5, <2>6, <2>7 DEF Local
<1>7. CASE C!Destroy(s)
  <2>1. /\ \/ up' = C!Sent(s, C!Frame("leave")) /\ client[s].known
           \/ up' = up
        /\ down' = down /\ client[s].ws # "none"
    BY <1>7 DEF C!Destroy
  <2>2. client'[s] = [client[s] EXCEPT !.destroyed = TRUE,
                                       !.ws = IF @ = "closed" THEN @ ELSE "closing"]
    BY <1>7, DestroyGame, GameIsTyped
  <2>3. /\ client'[s].known = client[s].known /\ client'[s].ws \in {"closing", "closed"}
        /\ client'[s].destroyed /\ client'[s].shown = client[s].shown
    BY <1>2, <2>2 DEF C!Game
  <2>4. Fresh(s)' /\ Joining(s)'
    BY <2>3 DEF Fresh, Unknown, Joining
  <2>5. Shows(s)'
    BY <1>2, <2>1, <2>3 DEF Local, Shows
  <2>6. LeaveLast(s)' /\ JoinAhead(s)'
    <3>1. CASE up' = up
      BY <1>1, <1>2, <2>3, <3>1 DEF Local, LeaveLast, JoinAhead
    <3>2. CASE up' = C!Sent(s, C!Frame("leave")) /\ client[s].known
      BY <1>1, <1>2, <2>3, <3>2, SentLeavesLast, SentStaysBehind
    <3> QED
      BY <2>1, <3>1, <3>2
  <2> QED
    BY <1>3, <2>4, <2>5, <2>6 DEF Local
<1>8. CASE C!OnClose(s)
  <2>1. up'[s] \in {up[s], <<>>} /\ down'[s] = <<>>
    BY <1>8 DEF C!OnClose, Typed
  <2>2. client'[s] = [client[s] EXCEPT !.ws = "closed", !.connected = FALSE,
                                       !.known = FALSE, !.shown = {}]
    BY <1>8, OnCloseGame, GameIsTyped
  <2>3. /\ ~client'[s].known /\ client'[s].ws = "closed"
        /\ client'[s].destroyed = client[s].destroyed /\ client'[s].shown = {}
    BY <1>2, <2>2 DEF C!Game
  <2>4. Fresh(s)' /\ Joining(s)'
    BY <2>3 DEF Fresh, Unknown, Joining
  <2>5. Shows(s)'
    BY <2>1, <2>3 DEF Shows
  <2>6. LeaveLast(s)' /\ JoinAhead(s)'
    BY <1>1, <1>2, <2>1, <2>3 DEF Local, LeaveLast, JoinAhead
  <2> QED
    BY <1>3, <2>4, <2>5, <2>6 DEF Local
<1> QED
  BY <1>4, <1>5, <1>6, <1>7, <1>8 DEF Browser

LEMMA LocalsNext ==
  Locals /\ Typed /\ TypeOK /\ MembersAreActors /\ [SystemNext]_systemVars => Locals'
<1> SUFFICES ASSUME Locals, Typed, TypeOK, MembersAreActors, [SystemNext]_systemVars
             PROVE  Locals'
  OBVIOUS
<1>1. CASE UNCHANGED <<client, up, down, roomID, lost, sessions, wanted, inbox>>
  <2>1. \A t \in Session : Same(t)
    BY <1>1 DEF Same, Speaks
  <2> QED
    BY <2>1, SameKeeps DEF Locals
<1>2. ASSUME NEW s \in Session, Accept(s) PROVE Locals'
  <2>1. down' = [down EXCEPT ![s] = <<C!Assign>>]
    BY <1>2 DEF Accept
  <2>2. UNCHANGED <<client, up, roomID, lost, sessions, wanted, inbox>>
    BY <1>2 DEF Accept, roomVars, vars, code, history
  <2>3. \A t \in Session \ {s} : Same(t)
    BY <2>1, <2>2 DEF Same, Speaks, Typed
  <2>4. Local(s)'
    <3>1. Local(s)
      BY DEF Locals
    <3>2. \A i \in 1..Len(down'[s]) : down'[s][i].kind = "assign"
      BY <2>1 DEF Typed, C!Assign
    <3>3. ~Sees(s)'
      BY <3>2 DEF Sees
    <3>4. Fresh(s)'
      BY <2>2, <3>1, <3>3 DEF Local, Fresh, Unknown, Speaks
    <3>5. Shows(s)'
      BY <2>2, <3>1, <3>2 DEF Local, Shows
    <3>6. LeaveLast(s)' /\ JoinAhead(s)' /\ Joining(s)' /\ Agrees(s)'
      BY <2>2, <3>1 DEF Local, LeaveLast, JoinAhead, Joining, Agrees
    <3> QED
      BY <3>4, <3>5, <3>6 DEF Local
  <2> QED
    BY <2>3, <2>4, SameKeeps DEF Locals
<1>3. ASSUME NEW s \in Session, EndpointCloses(s) \/ EndpointEnds(s) PROVE Locals'
  BY <1>1, <1>3 DEF EndpointCloses, EndpointEnds, roomVars, vars, code, history, clientVars
<1>4. CASE RoomSubscribes \/ RoomReturns \/ Crash \/ Signal \/ Exit \/ UNCHANGED systemVars
  BY <1>1, <1>4 DEF RoomSubscribes, RoomReturns, Return, Crash, Signal, Cancel, Exit, systemVars,
                    roomVars, vars, code, history, clientVars, serverVars
<1> QED
  BY <1>2, <1>3, <1>4, ReadLocal, BrowserLocal, RoomStepLocal, BroadcastsLocal
     DEF SystemNext, Server

LEMMA LocalsAlways == System => []Locals
  BY LocalsInit, LocalsNext, TypedAlways, RoomHolds, PTL DEF System

(* Whoever is shown a frame is in it, and knows which of its actors it is: *)
(* the frame goes to the members of the room and holds their actors, and   *)
(* the assign message came first (Tick, Broadcast, onActors).              *)
THEOREM SeesItself == System => []ShownIncludesSelf
<1>1. Locals => ShownIncludesSelf
  BY DEF Locals, Local, Shows, ShownIncludesSelf
<1> QED
  BY <1>1, LocalsAlways, PTL

(* No input is dropped for want of a room: the client's join is ahead of   *)
(* its first input, and nothing follows its leave (handleData, onAssign,   *)
(* destroy).                                                               *)
THEOREM InputsArrive == System => []InputsFindTheRoom
<1>1. Locals /\ Typed => InputsFindTheRoom
  <2> SUFFICES ASSUME Locals, Typed, NEW s \in Session,
                      up[s] # <<>>, Head(up[s]).kind = "data"
               PROVE  roomID[s] # NoRoom
    BY DEF InputsFindTheRoom
  <2>1. up[s] \in Seq(UpMessage)
    BY DEF Typed
  <2>2. Head(up[s]) = up[s][1]
    BY <2>1, WithoutFirst
  <2> QED
    BY <2>2 DEF Locals, Local, JoinAhead
<1> QED
  BY <1>1, LocalsAlways, TypedAlways, PTL

(* Endpoint and room agree on who is a member, once the room has handled   *)
(* what it accepted, except about sessions whose join or leave was lost    *)
(* (handleControl, Room.HandleMessage).                                    *)
THEOREM ViewsAgree == System => []ViewsAgreeUnlessLost
<1>1. Locals /\ MembershipFollowsTopic => ViewsAgreeUnlessLost
  BY DEF Locals, Local, Agrees, MembershipFollowsTopic, ViewsAgreeUnlessLost
<1> QED
  BY <1>1, LocalsAlways, RoomHolds, PTL

-----------------------------------------------------------------------------
(* The endpoints as Links                                                  *)

LinkStep(t) == [L(t)!Next]_(L(t)!vars)

Silent == \A t \in Session : ep[t] = "none" => down[t] = <<>>

Idle(t) == ep'[t] = ep[t] /\ up'[t] = up[t] /\ down'[t] = down[t] /\ roomID'[t] = roomID[t]

LEMMA IdleKeeps == ASSUME NEW t \in Session, Idle(t) PROVE LinkStep(t)
  BY DEF Idle, LinkStep, L!vars

LEMMA AcceptLink ==
  ASSUME Typed, Silent, NEW s \in Session, Accept(s)
  PROVE  LinkStep(s) /\ \A t \in Session \ {s} : Idle(t)
<1>1. /\ ep[s] = "none" /\ ep' = [ep EXCEPT ![s] = "live"]
      /\ down' = [down EXCEPT ![s] = <<C!Assign>>] /\ UNCHANGED <<up, roomID>>
  BY DEF Accept
<1>2. /\ ep'[s] = "live" /\ down'[s] = <<C!Assign>> /\ down[s] = <<>>
      /\ \A t \in Session \ {s} : ep'[t] = ep[t] /\ down'[t] = down[t]
  BY <1>1 DEF Typed, Silent
<1>3. L(s)!Open
  BY <1>1, <1>2 DEF L!Open
<1> QED
  BY <1>1, <1>2, <1>3 DEF LinkStep, Idle, L!Next

LEMMA ReadLink ==
  ASSUME Typed, NEW s \in Session, EndpointReads(s)
  PROVE  LinkStep(s) /\ \A t \in Session \ {s} : Idle(t)
<1>1. /\ ep[s] \in {"live", "closed"} /\ up[s] # <<>>
      /\ roomID' = [roomID EXCEPT ![s] = L(s)!Moved(Head(up[s]), roomID[s])]
      /\ up' = [up EXCEPT ![s] = Tail(up[s])] /\ UNCHANGED <<down, ep>>
  BY DEF EndpointReads
<1>2. /\ roomID'[s] = L(s)!Moved(Head(up[s]), roomID[s]) /\ up'[s] = Tail(up[s])
      /\ \A t \in Session \ {s} : roomID'[t] = roomID[t] /\ up'[t] = up[t]
  BY <1>1 DEF Typed
<1>3. L(s)!Read
  BY <1>1, <1>2 DEF L!Read
<1> QED
  BY <1>1, <1>2, <1>3 DEF LinkStep, Idle, L!Next

LEMMA CloseLink ==
  ASSUME Typed, NEW s \in Session, EndpointCloses(s) \/ EndpointEnds(s)
  PROVE  LinkStep(s) /\ \A t \in Session \ {s} : Idle(t)
<1>1. UNCHANGED <<up, down, roomID>>
  BY DEF EndpointCloses, EndpointEnds, clientVars
<1>2. \/ ep[s] = "live" /\ ep' = [ep EXCEPT ![s] = "closed"]
      \/ ep[s] = "closed" /\ ep' = [ep EXCEPT ![s] = "unsubscribing"]
      \/ ep[s] = "unsubscribing" /\ ep' = [ep EXCEPT ![s] = "ended"]
  BY DEF EndpointCloses, EndpointEnds
<1>3. \A t \in Session \ {s} : Idle(t)
  BY <1>1, <1>2 DEF Typed, Idle
<1>4. CASE ep[s] = "live" /\ ep'[s] = "closed"
  <2>1. L(s)!Close
    BY <1>1, <1>4 DEF L!Close
  <2> QED
    BY <1>3, <2>1 DEF LinkStep, L!Next
<1>5. CASE ep[s] = "closed" /\ ep'[s] = "unsubscribing"
  <2>1. L(s)!End
    BY <1>1, <1>5 DEF L!End
  <2> QED
    BY <1>3, <2>1 DEF LinkStep, L!Next
<1>6. CASE ep[s] = "unsubscribing" /\ ep'[s] = "ended"
  BY <1>1, <1>3, <1>6 DEF LinkStep, L!vars
<1> QED
  BY <1>2, <1>4, <1>5, <1>6 DEF Typed

LEMMA BroadcastLink ==
  ASSUME Typed, TypeOK, RoomBroadcasts, NEW t \in Session
  PROVE  LinkStep(t) /\ (ep[t] = "none" => down'[t] = down[t])
<1>1. UNCHANGED <<up, ep, roomID>>
  BY DEF RoomBroadcasts, serverVars
<1>2. PICK m : m = C!Actors(DOMAIN actors)
  OBVIOUS
<1>3. DOMAIN actors \in SUBSET Session
  BY DEF TypeOK, Positions
<1>4. m \in {C!Actors(A) : A \in SUBSET Session}
  BY <1>2, <1>3
<1>5. down'[t] = IF t \in heard' /\ ep[t] = "live" /\ Len(down[t]) < DownCap
                THEN Append(down[t], m) ELSE down[t]
  BY <1>2 DEF RoomBroadcasts
<1>6. CASE ep[t] = "live" /\ down'[t] = Append(down[t], m)
  <2>1. L(t)!Publish
    BY <1>1, <1>4, <1>6 DEF L!Publish
  <2> QED
    BY <1>6, <2>1 DEF LinkStep, L!Next
<1>7. CASE down'[t] = down[t]
  BY <1>1, <1>7, IdleKeeps DEF Idle
<1> QED
  BY <1>5, <1>6, <1>7

Frames == {C!Frame(k) : k \in {"join", "leave", "data"}}

(* What a client does to its own connection                                *)
LEMMA BrowserLink ==
  ASSUME Typed, NEW s \in Session, Browser(s)
  PROVE  /\ LinkStep(s) /\ \A t \in Session \ {s} : Idle(t)
         /\ down[s] = <<>> => down'[s] = <<>>
<1>1. UNCHANGED <<ep, roomID>>
  BY DEF Browser, serverVars
<1>2. \A t \in Session \ {s} : Idle(t)
  BY <1>1, BrowserTyped DEF Idle
<1>3. ASSUME NEW k \in {"join", "leave", "data"}, up' = C!Sent(s, C!Frame(k))
      PROVE  up'[s] = up[s] \/ \E f \in Frames : up'[s] = Append(up[s], f)
  <2>1. PICK f : f = C!Frame(k)
    OBVIOUS
  <2>2. f \in Frames
    BY <2>1 DEF Frames
  <2>3. up'[s] = up[s] \/ up'[s] = Append(up[s], f)
    BY <1>3, <2>1, SentIs
  <2> QED
    BY <2>2, <2>3
<1>4. CASE /\ up'[s] = up[s] \/ \E f \in Frames : up'[s] = Append(up[s], f)
           /\ down' = down
  <2>1. L(s)!Send \/ Idle(s)
    BY <1>1, <1>4 DEF L!Send, Frames, Idle
  <2> QED
    BY <1>2, <1>4, <2>1, IdleKeeps DEF LinkStep, L!Next
<1>5. CASE C!Start(s) \/ C!OnOpen(s)
  BY <1>4, <1>5 DEF C!Start, C!OnOpen
<1>6. CASE C!SendInput(s)
  BY <1>3, <1>4, <1>6 DEF C!SendInput
<1>7. CASE C!Destroy(s)
  BY <1>3, <1>4, <1>7 DEF C!Destroy
<1>8. CASE C!OnMessage(s)
  <2>1. /\ down[s] # <<>> /\ down' = [down EXCEPT ![s] = Tail(down[s])]
        /\ up' = up \/ up' = C!Sent(s, C!Frame("join"))
    BY <1>8 DEF C!OnMessage, C!OnAssign, C!OnActors
  <2>2. down'[s] = Tail(down[s])
    BY <2>1 DEF Typed
  <2>3. up'[s] = up[s] \/ \E f \in Frames : up'[s] = Append(up[s], f)
    BY <1>3, <2>1
  <2>4. L(s)!Receive
    BY <1>1, <2>1, <2>2, <2>3 DEF L!Receive, Frames
  <2> QED
    BY <1>2, <2>1, <2>4 DEF LinkStep, L!Next
<1>9. CASE C!OnClose(s)
  <2>1. up'[s] \in {up[s], <<>>} /\ down'[s] = <<>>
    BY <1>9 DEF C!OnClose, Typed
  <2>2. L(s)!Lose
    BY <1>1, <2>1 DEF L!Lose
  <2> QED
    BY <1>2, <2>1, <2>2 DEF LinkStep, L!Next
<1> QED
  BY <1>5, <1>6, <1>7, <1>8, <1>9 DEF Browser

LEMMA LinksNext ==
  ASSUME Typed, TypeOK, Silent, [SystemNext]_systemVars
  PROVE  Silent' /\ \A t \in Session : LinkStep(t)
<1>1. CASE UNCHANGED <<up, down, ep, roomID>>
  BY <1>1, IdleKeeps DEF Idle, Silent
<1>2. CASE \/ RoomSubscribes \/ RoomStep \/ RoomReturns
           \/ Crash \/ Signal \/ Exit \/ UNCHANGED systemVars
  BY <1>1, <1>2 DEF RoomSubscribes, RoomStep, RoomReturns, Crash, Signal, Exit, systemVars,
                    clientVars, serverVars
<1>3. CASE RoomBroadcasts
  <2>1. ep' = ep
    BY <1>3 DEF RoomBroadcasts, serverVars
  <2> QED
    BY <1>3, <2>1, BroadcastLink DEF Silent
<1>4. ASSUME NEW s \in Session, Accept(s) PROVE Silent' /\ \A t \in Session : LinkStep(t)
  <2>1. ep'[s] # "none"
    BY <1>4 DEF Accept, Typed
  <2> QED
    BY <1>4, <2>1, AcceptLink, IdleKeeps DEF Silent, Idle
<1>5. ASSUME NEW s \in Session, EndpointReads(s)
      PROVE  Silent' /\ \A t \in Session : LinkStep(t)
  <2>1. UNCHANGED <<down, ep>>
    BY <1>5 DEF EndpointReads
  <2> QED
    BY <1>5, <2>1, ReadLink, IdleKeeps DEF Silent
<1>6. ASSUME NEW s \in Session, EndpointCloses(s) \/ EndpointEnds(s)
      PROVE  Silent' /\ \A t \in Session : LinkStep(t)
  <2>1. ep'[s] # "none" /\ down' = down
    BY <1>6 DEF EndpointCloses, EndpointEnds, clientVars, Typed
  <2> QED
    BY <1>6, <2>1, CloseLink, IdleKeeps DEF Silent, Idle
<1>7. ASSUME NEW s \in Session, Browser(s) PROVE Silent' /\ \A t \in Session : LinkStep(t)
  <2>1. ep' = ep
    BY <1>7 DEF Browser, serverVars
  <2> QED
    BY <1>7, <2>1, BrowserLink, IdleKeeps DEF Silent, Idle
<1> QED
  BY <1>2, <1>3, <1>4, <1>5, <1>6, <1>7 DEF SystemNext, Server

(* Every endpoint of the program is a Link, which is what SessionEndpoint  *)
(* is shown to implement, also through a crash or a shutdown in the middle *)
(* (Run, main).                                                            *)
THEOREM EndpointsAreLinks == System => LinksKept
<1>1. SystemInit => Silent /\ \A s \in Session : L(s)!Init
  BY DEF SystemInit, Silent, L!Init
<1>2. Silent /\ Typed /\ TypeOK /\ [SystemNext]_systemVars
        => Silent' /\ [\A s \in Session : [L(s)!Next]_(L(s)!vars)]_systemVars
  BY LinksNext DEF LinkStep
<1> QED
  BY <1>1, <1>2, TypedAlways, RoomHolds, PTL DEF System, LinksKept
=============================================================================
