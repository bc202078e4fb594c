-------------------------------- MODULE Client --------------------------------
(***************************************************************************)
(* The browser clients: Game (src/client/src/game.ts) on its               *)
(* WebSocketClient (websocket.ts) and InputManager (input.ts), one per     *)
(* connection and so one per session.  JavaScript runs one handler at a    *)
(* time: each action is a handler, whole.                                  *)
(*                                                                         *)
(* ws is the readyState of the WebSocket, "none" before connect(); what    *)
(* the client draws is the set of sessions whose actors it shows.          *)
(***************************************************************************)
EXTENDS Naturals, Sequences

CONSTANTS Session,   \* sessions, and so clients
          NoRoom,    \* the empty RoomID
          Player,    \* bound: the sessions whose clients press keys and leave
          MaxInputs  \* bound: inputs one client sends

VARIABLES client,  \* client[s]: the Game and its WebSocketClient
          up,      \* up[s]: sent by the client, not read by the server yet
          down     \* down[s]: sent to the client, not received yet

Game == [ws        : {"none", "connecting", "open", "closing", "closed"},
         destroyed : BOOLEAN,          \* WebSocketClient.ws is null again
         connected : BOOLEAN,
         known     : BOOLEAN,          \* mySessionId is set
         shown     : SUBSET Session,   \* actors
         inputs    : 0..MaxInputs]     \* bound

(* As the endpoint reads them: with the session's own ID, and no client    *)
(* names a room.                                                           *)
Frame(kind) == [own |-> TRUE, kind |-> kind, room |-> NoRoom]

Assign       == [kind |-> "assign"]
Actors(A)    == [kind |-> "actors", shown |-> A]

NewGame == [ws |-> "none", destroyed |-> FALSE, connected |-> FALSE,
            known |-> FALSE, shown |-> {}, inputs |-> 0]

Init == client = [s \in Session |-> NewGame]

(* WebSocketClient.send: only on an open socket that has not been given up *)
Sent(s, f) ==
  IF client[s].ws = "open" /\ ~client[s].destroyed
  THEN [up EXCEPT ![s] = Append(@, f)] ELSE up

Start(s) ==
  /\ client[s].ws = "none"
  /\ client' = [client EXCEPT ![s].ws = "connecting"]
  /\ UNCHANGED <<up, down>>

OnOpen(s) ==
  /\ client[s].ws = "connecting"
  /\ client' = [client EXCEPT ![s].ws = "open", ![s].connected = TRUE]
  /\ UNCHANGED <<up, down>>

(* Mutant of OnAssign: the join is left to the server                      *)
AssignWithoutJoin(s) ==
  /\ client' = [client EXCEPT ![s].known = TRUE]
  /\ UNCHANGED up

(* the session ID, and at once the join of any room                        *)
OnAssign(s) ==
  /\ client' = [client EXCEPT ![s].known = TRUE]
  /\ up' = Sent(s, Frame("join"))

OnActors(s, A) ==
  /\ client' = [client EXCEPT ![s].shown = A]
  /\ UNCHANGED up

(* A browser hands over messages only while the socket is open.            *)
OnMessage(s) ==
  /\ client[s].ws = "open"
  /\ down[s] # <<>>
  /\ LET m == Head(down[s])
     IN  \/ m.kind = "assign" /\ OnAssign(s)
         \/ m.kind = "actors" /\ OnActors(s, m.shown)
  /\ down' = [down EXCEPT ![s] = Tail(@)]

(* gameLoop with a key down; it runs on after a disconnect and a destroy   *)
SendInput(s) ==
  /\ client[s].connected /\ client[s].known
  /\ s \in Player /\ client[s].inputs < MaxInputs
  /\ client' = [client EXCEPT ![s].inputs = @ + 1]
  /\ up' = Sent(s, Frame("data"))
  /\ UNCHANGED down

(* destroy: a leave, then the socket is closed and given up.  Nothing in   *)
(* the page calls it.                                                      *)
Destroy(s) ==
  /\ s \in Player /\ client[s].ws # "none" /\ ~client[s].destroyed
  /\ up' = IF client[s].connected /\ client[s].known THEN Sent(s, Frame("leave")) ELSE up
  /\ client' = [client EXCEPT ![s].destroyed = TRUE,
                              ![s].ws = IF @ = "closed" THEN @ ELSE "closing"]
  /\ UNCHANGED down

(* onclose: by the server, by close(), or because the network goes; what   *)
(* is on its way to the client is lost, what is on its way from it may be  *)
OnClose(s) ==
  /\ client[s].ws \in {"connecting", "open", "closing"}
  /\ client' = [client EXCEPT ![s].ws = "closed", ![s].connected = FALSE,
                              ![s].known = FALSE, ![s].shown = {}]
  /\ up' \in {up, [up EXCEPT ![s] = <<>>]}
  /\ down' = [down EXCEPT ![s] = <<>>]
=============================================================================
