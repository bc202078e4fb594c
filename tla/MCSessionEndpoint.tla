------------------------- MODULE MCSessionEndpoint -------------------------
(* Instances of SessionEndpoint for TLC.                                   *)
EXTENDS SessionEndpoint

CONSTANT r2  \* a room that is not the default one

OwnJoin == [own |-> TRUE, kind |-> "join", room |-> NoRoom]

(* joins of the default and the other room, and a leave                    *)
Moves == {OwnJoin, [OwnJoin EXCEPT !.room = r2], [OwnJoin EXCEPT !.kind = "leave"]}

(* a join, a leave and data, and a join with another session's ID          *)
MovesAndForeign == {OwnJoin, [OwnJoin EXCEPT !.kind = "leave"],
                    [OwnJoin EXCEPT !.kind = "data"],
                    [OwnJoin EXCEPT !.own = FALSE, !.room = r2]}

OneJoin == {OwnJoin}
=============================================================================
