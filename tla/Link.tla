--------------------------------- MODULE Link ---------------------------------
(***************************************************************************)
(* What one endpoint promises to the client on one side and to the rooms   *)
(* on the other (src/server/domain/session_endpoint.go): frames are read   *)
(* in the order they were sent and move roomID; messages go to the client  *)
(* in order, after one assign message, and may be lost; a closed endpoint  *)
(* stays closed, and one that has ended neither reads nor takes messages.  *)
(*                                                                         *)
(* SessionEndpoint implements it with four goroutines and two queues;      *)
(* Withered composes endpoints that keep it.                               *)
(***************************************************************************)
EXTENDS Integers, Sequences

CONSTANTS ClientFrame,  \* what a client may send: own session ID, kind, room
          Mail,         \* what a room may publish to the session
          Assign,       \* the assign message
          NoRoom,       \* the empty RoomID
          DefaultRoom   \* the room of a join that names none

VARIABLES run,     \* "new", "live", "ended"
          closed,  \* se.closed
          up,      \* frames from the client, not read yet
          down,    \* messages to the client, not received yet
          roomID   \* se.roomID

vars == <<run, closed, up, down, roomID>>

(* roomID after frame f, when it was r                                     *)
Moved(f, r) ==
  CASE ~f.own -> r
    [] f.own /\ f.kind = "join"  -> IF f.room = NoRoom THEN DefaultRoom ELSE f.room
    [] f.own /\ f.kind = "leave" -> NoRoom
    [] OTHER -> r

Init == /\ run = "new" /\ closed = FALSE
        /\ up = <<>> /\ down = <<>>
        /\ roomID = NoRoom

Open == /\ run = "new"
        /\ run' = "live"
        /\ down = <<>>
        /\ down' = <<Assign>>
        /\ UNCHANGED <<closed, up, roomID>>

Send == /\ \E f \in ClientFrame : up' = Append(up, f)
        /\ UNCHANGED <<run, closed, down, roomID>>

Read == /\ run # "ended"
        /\ up # <<>>
        /\ roomID' = Moved(Head(up), roomID)
        /\ up' = Tail(up)
        /\ UNCHANGED <<run, closed, down>>

(* A room's message on the session's topic                                 *)
Publish == /\ run = "live"
           /\ \E m \in Mail : down' = Append(down, m)
           /\ UNCHANGED <<run, closed, up, roomID>>

(* The client receives a message, and may answer it at once.               *)
Receive == /\ down # <<>>
           /\ down' = Tail(down)
           /\ up' = up \/ \E f \in ClientFrame : up' = Append(up, f)
           /\ UNCHANGED <<run, closed, roomID>>

(* One message to the client is dropped, or all that is on its way goes,   *)
(* in one direction or in both                                             *)
Without(s, i) == SubSeq(s, 1, i - 1) \o SubSeq(s, i + 1, Len(s))

Lose == /\ \/ (\E i \in 1..Len(down) : down' = Without(down, i)) /\ UNCHANGED up
           \/ down' \in {down, <<>>} /\ up' \in {up, <<>>}
        /\ UNCHANGED <<run, closed, roomID>>

Close == /\ closed' = TRUE
         /\ UNCHANGED <<run, up, down, roomID>>

End == /\ run = "live" /\ closed
       /\ run' = "ended"
       /\ UNCHANGED <<closed, up, down, roomID>>

Next == \/ Open \/ Send \/ Read \/ Publish \/ Receive \/ Lose \/ Close \/ End

Spec == Init /\ [][Next]_vars
=============================================================================
