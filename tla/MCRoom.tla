------------------------------- MODULE MCRoom -------------------------------
(* Instances of Room for TLC.                                              *)
EXTENDS Room

CONSTANT s1  \* a session

(* three keys: two cancel out, the third moves the actor                   *)
OneMask == {{"W", "S", "D"}}

(* Towards opposite corners, s1 to one and all others to the other, so     *)
(* that actors meet every border of the map.                               *)
Diagonals == {{"W", "A"}, {"S", "D"}}
OwnCorner(m) == m.kind = "input" => (m.keys = {"W", "A"} <=> m.from = s1)

CornersSpec ==
  /\ Init
  /\ [][\/ Run \/ Cancel
        \/ \E m \in Message : OwnCorner(m) /\ Arrive(m)
        \/ \E m \in Send : EnqueueSend(m)]_vars
  /\ WF_vars(Run) /\ SF_vars(Return)

(* What endpoints publish when none is lost and their sessions join and    *)
(* leave in turn: inputs and a leave come between a join and the next one. *)
InTurn(m) == /\ Len(inbox) < InboxCap
             /\ m.kind = "join" <=> m.from \notin wanted

TurnSpec == Init /\ [][Run \/ \E m \in Message : InTurn(m) /\ Arrive(m)]_vars
=============================================================================
