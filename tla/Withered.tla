------------------------------- MODULE Withered -------------------------------
(***************************************************************************)
(* The whole program: main (src/server/cmd/main.go) with its one room, an  *)
(* endpoint per accepted connection (src/server/handler/accept.go) and the *)
(* browser clients.                                                        *)
(*                                                                         *)
(* The room is Room and the clients are Client, action by action.  An      *)
(* endpoint is what Link says of it (SessionEndpoint implements Link), and *)
(* between them is the publish/subscribe service: a publication reaches    *)
(* who is subscribed unless its queue is full (SimplePubSub), or panics    *)
(* when it meets an Unsubscribe (SimplePubSub.PublishPanic).               *)
(***************************************************************************)
EXTENDS Room

CONSTANTS NoRoom, Player, MaxInputs,  \* as in Client
          DefaultRoom,  \* the room main makes
          DownCap       \* capacity of an endpoint's queues, together

(* Nothing in the program calls EnqueueBroadcast or EnqueueSendTo.         *)
ASSUME WitheredAssumption == /\ DefaultRoom # NoRoom
                             /\ SendCap = 0
                             /\ MaxInputs \in Nat

VARIABLES client, up, down,  \* as in Client
          server,  \* the process: "up", "exited", "crashed"
          room,    \* room.Run: "starting", "subscribed", "unsubscribing", "gone"
          ep,      \* ep[s]: the endpoint of s, as Endpoint says
          roomID,  \* roomID[s]: the endpoint's roomID
          lost     \* history: sessions whose join or leave did not reach the room

roomVars   == vars
clientVars == <<client, up, down>>
serverVars == <<server, room, ep, roomID>>
systemVars == <<roomVars, clientVars, serverVars, lost>>

C == INSTANCE Client

(* no connection; running; close() called; Run's deferred Unsubscribe; over*)
Endpoint == {"none", "live", "closed", "unsubscribing", "ended"}

L(s) == INSTANCE Link WITH
          ClientFrame <- {C!Frame(k) : k \in {"join", "leave", "data"}},
          Mail   <- {C!Actors(A) : A \in SUBSET Session},
          Assign <- C!Assign,
          run    <- IF ep[s] = "none" THEN "new"
                    ELSE IF ep[s] \in {"live", "closed"} THEN "live" ELSE "ended",
          closed <- ep[s] \notin {"none", "live"},
          up     <- up[s],
          down   <- down[s],
          roomID <- roomID[s]

SystemInit ==
  /\ Init
  /\ C!Init
  /\ up = [s \in Session |-> <<>>] /\ down = [s \in Session |-> <<>>]
  /\ server = "up" /\ room = "starting"
  /\ ep = [s \in Session |-> "none"]
  /\ roomID = [s \in Session |-> NoRoom]
  /\ lost = {}

-----------------------------------------------------------------------------
(* The endpoints.                                                          *)

(* Mutant of Accept: the assign message is forgotten                       *)
AcceptSilently(s) ==
  /\ client[s].ws \in {"connecting", "closing"} /\ ep[s] = "none"
  /\ ep' = [ep EXCEPT ![s] = "live"]
  /\ UNCHANGED <<roomVars, client, up, down, server, room, roomID, lost>>

(* ServeHTTP, and Run up to its assign message                             *)
Accept(s) ==
  /\ client[s].ws \in {"connecting", "closing"} /\ ep[s] = "none"
  /\ ep' = [ep EXCEPT ![s] = "live"]
  /\ down' = [down EXCEPT ![s] = <<C!Assign>>]
  /\ UNCHANGED <<roomVars, client, up, server, room, roomID, lost>>

(* Mutant of Publication: a leave ends at the endpoint                     *)
PublicationButLeaves(s, f) ==
  CASE f.kind = "join" -> {[kind |-> "join", from |-> s]}
    [] f.kind = "data" /\ roomID[s] # NoRoom ->
         {[kind |-> "input", from |-> s, keys |-> k] : k \in Masks}
    [] OTHER -> {}

(* What the endpoint publishes for frame f of session s                    *)
Publication(s, f) ==
  CASE f.kind = "join" -> {[kind |-> "join", from |-> s]}
    [] f.kind = "leave" /\ roomID[s] # NoRoom -> {[kind |-> "leave", from |-> s]}
    [] f.kind = "data" /\ roomID[s] # NoRoom ->
         {[kind |-> "input", from |-> s, keys |-> k] : k \in Masks}
    [] OTHER -> {}

Losing(s, f) == IF f.kind \in {"join", "leave"} THEN lost \cup {s} ELSE lost

(* the room's subscription takes it, or is full                            *)
ReachesRoom(s, f) ==
  /\ room = "subscribed"
  /\ \E m \in Publication(s, f) : Arrive(m)
  /\ lost' = IF Len(inbox) < InboxCap THEN lost ELSE Losing(s, f)

(* nobody is subscribed yet, or any more, or Publish sees ctx.Done()       *)
MissesRoom(s, f) ==
  /\ Publication(s, f) # {}
  /\ room # "subscribed" \/ ep[s] = "closed"
  /\ UNCHANGED roomVars
  /\ lost' = Losing(s, f)

NotPublished(s, f) ==
  /\ Publication(s, f) = {}
  /\ UNCHANGED <<roomVars, lost>>

(* readLoop and handleData                                                 *)
EndpointReads(s) ==
  /\ ep[s] \in {"live", "closed"}
  /\ up[s] # <<>>
  /\ LET f == Head(up[s])
     IN  /\ ReachesRoom(s, f) \/ MissesRoom(s, f) \/ NotPublished(s, f)
         /\ roomID' = [roomID EXCEPT ![s] = L(s)!Moved(f, @)]
  /\ up' = [up EXCEPT ![s] = Tail(@)]
  /\ UNCHANGED <<client, down, server, room, ep>>

(* close(): after 30 s at the latest the session is idle                   *)
EndpointCloses(s) ==
  /\ ep[s] = "live"
  /\ ep' = [ep EXCEPT ![s] = "closed"]
  /\ UNCHANGED <<roomVars, clientVars, server, room, roomID, lost>>

(* The loops have ended and Run unsubscribes; it publishes no leave.       *)
EndpointEnds(s) ==
  /\ \/ ep[s] = "closed" /\ ep' = [ep EXCEPT ![s] = "unsubscribing"]
     \/ ep[s] = "unsubscribing" /\ ep' = [ep EXCEPT ![s] = "ended"]
  /\ UNCHANGED <<roomVars, clientVars, server, room, roomID, lost>>

-----------------------------------------------------------------------------
(* The room.                                                               *)

RoomSubscribes ==
  /\ room = "starting"
  /\ room' = "subscribed"
  /\ UNCHANGED <<roomVars, clientVars, server, ep, roomID, lost>>

(* A step of Run's loop that publishes nothing                             *)
RoomStep ==
  /\ room = "subscribed"
  /\ TickFires \/ ReceiveOne \/ ReceiveEmpty \/ SendEmpty \/ ApplyInput
  /\ UNCHANGED <<clientVars, serverVars, lost>>

(* Mutant of RoomBroadcasts: a frame to all who are connected              *)
RoomBroadcastsToAll ==
  /\ room = "subscribed"
  /\ BroadcastFrame
  /\ down' = [s \in Session |->
                IF heard' # {} /\ ep[s] = "live" /\ Len(down[s]) < DownCap
                THEN Append(down[s], C!Actors(DOMAIN actors)) ELSE down[s]]
  /\ UNCHANGED <<client, up, serverVars, lost>>

(* Mutant of RoomBroadcasts: the queue of an endpoint that is gone is kept *)
RoomBroadcastsToGone ==
  /\ room = "subscribed"
  /\ BroadcastFrame
  /\ down' = [s \in Session |->
                IF s \in heard' /\ Len(down[s]) < DownCap
                THEN Append(down[s], C!Actors(DOMAIN actors)) ELSE down[s]]
  /\ UNCHANGED <<client, up, serverVars, lost>>

(* Broadcast: to every member's endpoint that is not full; a closed one    *)
(* may still be subscribed, but nobody writes what it gets                 *)
RoomBroadcasts ==
  /\ room = "subscribed"
  /\ BroadcastFrame
  /\ down' = [s \in Session |->
                IF s \in heard' /\ ep[s] = "live" /\ Len(down[s]) < DownCap
                THEN Append(down[s], C!Actors(DOMAIN actors)) ELSE down[s]]
  /\ UNCHANGED <<client, up, serverVars, lost>>

RoomReturns ==
  /\ \/ room = "subscribed" /\ Return /\ room' = "unsubscribing"
     \/ room = "unsubscribing" /\ room' = "gone" /\ UNCHANGED roomVars
  /\ UNCHANGED <<clientVars, server, ep, roomID, lost>>

-----------------------------------------------------------------------------
(* The process.                                                            *)

(* A publication that meets the Unsubscribe of its topic: of the frame to  *)
(* a member's endpoint, or of an endpoint's message to the room.           *)
Crash ==
  /\ \/ /\ room = "subscribed" /\ phase = "apply" /\ pending = <<>>
        /\ \E s \in sessions : ep[s] = "unsubscribing"
     \/ /\ room = "unsubscribing"
        /\ \E s \in Session : /\ ep[s] \in {"live", "closed"}
                              /\ up[s] # <<>> /\ Publication(s, Head(up[s])) # {}
  /\ server' = "crashed"
  /\ UNCHANGED <<roomVars, clientVars, room, ep, roomID, lost>>

(* SIGINT or SIGTERM                                                       *)
Signal ==
  /\ Cancel
  /\ UNCHANGED <<clientVars, serverVars, lost>>

(* Shutdown and the end of main: it waits neither for the room nor for the *)
(* websocket connections                                                   *)
Exit ==
  /\ cancelled
  /\ server' = "exited"
  /\ UNCHANGED <<roomVars, clientVars, room, ep, roomID, lost>>

Server == /\ server = "up"
          /\ \/ \E s \in Session : \/ Accept(s) \/ EndpointReads(s)
                                   \/ EndpointCloses(s) \/ EndpointEnds(s)
             \/ RoomSubscribes \/ RoomStep \/ RoomBroadcasts \/ RoomReturns
             \/ Crash \/ Signal \/ Exit

Browser(s) ==
  /\ \/ C!Start(s)
     \/ ep[s] # "none" /\ C!OnOpen(s)
     \/ C!OnMessage(s) \/ C!SendInput(s) \/ C!Destroy(s) \/ C!OnClose(s)
  /\ UNCHANGED <<roomVars, serverVars, lost>>

SystemNext == Server \/ \E s \in Session : Browser(s)

System == SystemInit /\ [][SystemNext]_systemVars

(* Goroutines run, the ticker ticks, browsers hand over what arrives.      *)
(* Nobody has to start, to send or to go.                                  *)
FairSystem ==
  /\ System
  /\ WF_systemVars(server = "up" /\ RoomSubscribes)
  /\ WF_systemVars(server = "up" /\ (RoomStep \/ RoomBroadcasts))
  /\ \A s \in Session : /\ WF_systemVars(server = "up" /\ EndpointReads(s))
                        /\ WF_systemVars(Browser(s) /\ C!OnMessage(s))

-----------------------------------------------------------------------------
(* Properties                                                              *)

(* A frame that reaches a client shows the client itself, and reaches it   *)
(* only while it knows its ID: the actors of a room and the members the    *)
(* frame goes to are the same, and the assign message comes first.         *)
ShownIncludesSelf ==
  \A s \in Session :
    /\ client[s].shown # {} => client[s].known /\ s \in client[s].shown
    /\ \A i \in 1..Len(down[s]) :
         down[s][i].kind = "actors" => s \in down[s][i].shown

(* No input of a client is dropped for want of a room                      *)
(* (handleData, "received data message before joining a room").            *)
InputsFindTheRoom ==
  \A s \in Session : up[s] # <<>> /\ Head(up[s]).kind = "data" => roomID[s] # NoRoom

(* The endpoint's roomID and the room's sessions tell the same, once the   *)
(* room has handled what the session published, unless a publication was   *)
(* lost (docs/progress.md:89).                                             *)
ViewsAgreeUnlessLost ==
  \A s \in Session :
    s \notin lost /\ Controls(s) = {} => (roomID[s] # NoRoom <=> s \in sessions)

(* What the composition does to an endpoint is what SessionEndpoint is     *)
(* shown to do: its client gets nothing before the assign message and      *)
(* nothing more once Run has returned, also through a crash or a shutdown  *)
(* in the middle (Run, main).                                              *)
LinksKept == /\ \A s \in Session : L(s)!Init
             /\ [][\A s \in Session : [L(s)!Next]_(L(s)!vars)]_systemVars

(* From an open connection to the first frame with oneself in it           *)
Welcomed ==
  \A s \in Session :
    client[s].ws = "open" ~> \/ s \in client[s].shown
                            \/ client[s].ws # "open" \/ ep[s] # "live"
                            \/ s \in lost \/ cancelled \/ server # "up"
=============================================================================
