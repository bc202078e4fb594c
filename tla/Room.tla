-------------------------------- MODULE Room --------------------------------
(***************************************************************************)
(* One room: Room.Run (src/server/domain/room.go) with the application it  *)
(* drives, WitheredApplication and its Field (src/server/application).     *)
(*                                                                         *)
(* The room is one goroutine.  It waits for its 1/60 s ticker or for its   *)
(* ctx; on a tick it drains the messages of its topic, then the queued     *)
(* sends, then applies every pending input and broadcasts one frame with   *)
(* the positions of all actors.  Around it, endpoints publish on its topic *)
(* and callers enqueue sends at any moment, also in the middle of a tick.  *)
(*                                                                         *)
(* A message is [kind, from], and keys for an input; kind "other" stands   *)
(* for every message that changes neither membership nor inputs (actor,    *)
(* voice, the other control subtypes, payloads that fail to parse).        *)
(***************************************************************************)
EXTENDS Integers, Sequences

CONSTANTS Session,    \* sessions
          Masks,      \* key masks clients send: sets of keys
          Width,      \* width and height of the world: 100 in the code
          InboxCap,   \* DefaultChannelBuffer, the room's subscription
          SendCap,    \* capacity of sendCh
          MaxPerTick  \* bound: messages and sends that arrive from one tick to the next

Key == {"W", "A", "S", "D"}

ASSUME RoomAssumption == /\ Masks \subseteq SUBSET Key
                         /\ Width \in Nat
                         /\ InboxCap \in Nat /\ SendCap \in Nat
                         /\ MaxPerTick \in Nat

VARIABLES sessions,  \* r.sessions
          actors,    \* field.Actors: the position of every actor
          pending,   \* app.pendingInputs, oldest first
          inbox,     \* msgCh, oldest first
          sendCh,    \* r.sendCh, oldest first
          phase,     \* where Run is: the select, a loop of the tick, returned
          cancelled, \* ctx is done
          arrived,   \* messages and sends that arrived since the last tick fired (bound)
          dueIn,     \* history: messages accepted before this tick, not handled yet
          dueOut,    \* history: sends accepted before this tick, not published yet
          wanted,    \* history: sessions whose last accepted join or leave was a join
          heard,     \* history: sessions this tick's frame was published to
          pressed    \* history: sessions with an input since their last join or leave

code    == <<sessions, actors, pending, inbox, sendCh, phase, cancelled>>
history == <<arrived, dueIn, dueOut, wanted, heard, pressed>>
vars    == <<code, history>>

Pos     == [x : 0..Width, y : 0..Width]
Message == [kind : {"join", "leave", "other"}, from : Session]
           \cup [kind : {"input"}, from : Session, keys : Masks]
Event   == [from : Session, keys : Masks]
Send    == [kind : {"broadcast"}] \cup [kind : {"to"}, to : Session]
Phase   == {"select", "receive", "send", "apply", "returned"}

Positions == UNION {[S -> Pos] : S \in SUBSET Session}

TypeOK == /\ sessions \subseteq Session
          /\ actors \in Positions
          /\ pending \in Seq(Event)
          /\ inbox \in Seq(Message) /\ Len(inbox) <= InboxCap
          /\ sendCh \in Seq(Send) /\ Len(sendCh) <= SendCap
          /\ phase \in Phase
          /\ cancelled \in BOOLEAN
          /\ arrived \in 0..MaxPerTick
          /\ dueIn \in Nat /\ dueOut \in Nat
          /\ wanted \subseteq Session /\ heard \subseteq Session
          /\ pressed \subseteq Session

NoActors == [s \in {} |-> [x |-> 0, y |-> 0]]

Init == /\ sessions = {}
        /\ actors = NoActors
        /\ pending = <<>>
        /\ inbox = <<>>
        /\ sendCh = <<>>
        /\ phase = "select"
        /\ cancelled = FALSE
        /\ arrived = 0
        /\ dueIn = 0 /\ dueOut = 0
        /\ wanted = {} /\ heard = {}
        /\ pressed = {}

-----------------------------------------------------------------------------
(* The field.                                                              *)

Centre == [x |-> Width \div 2, y |-> Width \div 2]

SpawnAtCenter(s) == [a \in DOMAIN actors \cup {s} |->
                       IF a = s THEN Centre ELSE actors[a]]

Remove(s) == [a \in DOMAIN actors \ {s} |-> actors[a]]

Clamp(v) == IF v < 0 THEN 0 ELSE IF v > Width THEN Width ELSE v

(* One key is one unit (PlayerSpeed); opposite keys cancel out.            *)
KeyMaskToDirection(keys) ==
  LET axis(minus, plus) == (IF plus \in keys THEN 1 ELSE 0)
                           - (IF minus \in keys THEN 1 ELSE 0)
  IN  [dx |-> axis("A", "D"), dy |-> axis("W", "S")]

(* Mutant of ActorMove: the position is not clamped to the map             *)
ActorMoveUnclamped(s, d) ==
  IF s \notin DOMAIN actors THEN actors
  ELSE [actors EXCEPT ![s] = [x |-> @.x + d.dx, y |-> @.y + d.dy]]

(* A session with no actor has no effect.                                  *)
ActorMove(s, d) ==
  IF s \notin DOMAIN actors THEN actors
  ELSE [actors EXCEPT ![s] = [x |-> Clamp(@.x + d.dx), y |-> Clamp(@.y + d.dy)]]

-----------------------------------------------------------------------------
(* The callers.                                                            *)

(* An endpoint publishes on the room's topic; a full inbox drops it.       *)
Arrive(m) ==
  /\ phase # "returned"
  /\ arrived < MaxPerTick
  /\ arrived' = arrived + 1
  /\ IF Len(inbox) < InboxCap
     THEN /\ inbox' = Append(inbox, m)
          /\ wanted' = CASE m.kind = "join"  -> wanted \cup {m.from}
                          [] m.kind = "leave" -> wanted \ {m.from}
                          [] OTHER -> wanted
     ELSE UNCHANGED <<inbox, wanted>>
  /\ UNCHANGED <<sessions, actors, pending, sendCh, phase, cancelled>>
  /\ UNCHANGED <<dueIn, dueOut, heard, pressed>>

(* EnqueueBroadcast and EnqueueSendTo that succeed; ErrRoomBusy and a done *)
(* ctx of the caller change nothing.                                       *)
EnqueueSend(m) ==
  /\ arrived < MaxPerTick
  /\ arrived' = arrived + 1
  /\ Len(sendCh) < SendCap
  /\ sendCh' = Append(sendCh, m)
  /\ UNCHANGED <<sessions, actors, pending, inbox, phase, cancelled>>
  /\ UNCHANGED <<dueIn, dueOut, wanted, heard, pressed>>

Cancel ==
  /\ ~cancelled
  /\ cancelled' = TRUE
  /\ UNCHANGED <<sessions, actors, pending, inbox, sendCh, phase>>
  /\ UNCHANGED history

-----------------------------------------------------------------------------
(* Run                                                                     *)

(* Mutant of Return: the room stays as long as it has sessions             *)
ReturnWhenEmpty ==
  /\ phase = "select"
  /\ cancelled /\ sessions = {}
  /\ phase' = "returned"
  /\ UNCHANGED <<sessions, actors, pending, inbox, sendCh, cancelled>>
  /\ UNCHANGED history

(* case <-ctx.Done(): return, and the deferred Unsubscribe                 *)
Return ==
  /\ phase = "select"
  /\ cancelled
  /\ phase' = "returned"
  /\ UNCHANGED <<sessions, actors, pending, inbox, sendCh, cancelled>>
  /\ UNCHANGED history

(* case <-ticker.C; when ctx is done too, select takes either              *)
TickFires ==
  /\ phase = "select"
  /\ phase' = "receive"
  /\ arrived' = 0
  /\ dueIn' = Len(inbox)
  /\ dueOut' = Len(sendCh)
  /\ heard' = {}
  /\ UNCHANGED <<sessions, actors, pending, inbox, sendCh, cancelled, wanted, pressed>>

(* Mutant of HandleMessage: the application forgets to remove the actor    *)
HandleMessageKeepsActor(m) ==
  CASE m.kind = "join"  -> /\ sessions' = sessions \cup {m.from}
                           /\ actors' = SpawnAtCenter(m.from)
                           /\ pressed' = pressed \ {m.from}
                           /\ UNCHANGED pending
    [] m.kind = "leave" -> /\ sessions' = sessions \ {m.from}
                           /\ pressed' = pressed \ {m.from}
                           /\ UNCHANGED <<actors, pending>>
    [] m.kind = "input" -> /\ pending' = Append(pending, [from |-> m.from, keys |-> m.keys])
                           /\ pressed' = pressed \cup {m.from}
                           /\ UNCHANGED <<sessions, actors>>
    [] OTHER -> UNCHANGED <<sessions, actors, pending, pressed>>

(* Room.HandleMessage and then the application's HandleMessage             *)
HandleMessage(m) ==
  CASE m.kind = "join"  -> /\ sessions' = sessions \cup {m.from}
                           /\ actors' = SpawnAtCenter(m.from)
                           /\ pressed' = pressed \ {m.from}
                           /\ UNCHANGED pending
    [] m.kind = "leave" -> /\ sessions' = sessions \ {m.from}
                           /\ actors' = Remove(m.from)
                           /\ pressed' = pressed \ {m.from}
                           /\ UNCHANGED pending
    [] m.kind = "input" -> /\ pending' = Append(pending, [from |-> m.from, keys |-> m.keys])
                           /\ pressed' = pressed \cup {m.from}
                           /\ UNCHANGED <<sessions, actors>>
    [] OTHER -> UNCHANGED <<sessions, actors, pending, pressed>>

(* Mutant of ReceiveOne: a join goes through at once, ahead of the queue    *)
ReceiveJoinsFirst ==
  /\ phase = "receive"
  /\ \E i \in 1..Len(inbox) :
       /\ i = 1 \/ inbox[i].kind = "join"
       /\ HandleMessage(inbox[i])
       /\ inbox' = SubSeq(inbox, 1, i - 1) \o SubSeq(inbox, i + 1, Len(inbox))
  /\ dueIn' = IF dueIn > 0 THEN dueIn - 1 ELSE 0
  /\ UNCHANGED <<sendCh, phase, cancelled, arrived, dueOut, wanted, heard>>

ReceiveOne ==
  /\ phase = "receive"
  /\ inbox # <<>>
  /\ HandleMessage(Head(inbox))
  /\ inbox' = Tail(inbox)
  /\ dueIn' = IF dueIn > 0 THEN dueIn - 1 ELSE 0
  /\ UNCHANGED <<sendCh, phase, cancelled, arrived, dueOut, wanted, heard>>

(* Mutant of ReceiveEmpty: the receive loop may stop before it is drained  *)
ReceiveBreaksEarly ==
  /\ phase = "receive"
  /\ Len(inbox) <= 1
  /\ phase' = "send"
  /\ UNCHANGED <<sessions, actors, pending, inbox, sendCh, cancelled>>
  /\ UNCHANGED history

ReceiveEmpty ==
  /\ phase = "receive"
  /\ inbox = <<>>
  /\ phase' = "send"
  /\ UNCHANGED <<sessions, actors, pending, inbox, sendCh, cancelled>>
  /\ UNCHANGED history

(* handleSendMessage: to every session or to one, best effort              *)
SendOne ==
  /\ phase = "send"
  /\ sendCh # <<>>
  /\ sendCh' = Tail(sendCh)
  /\ dueOut' = IF dueOut > 0 THEN dueOut - 1 ELSE 0
  /\ UNCHANGED <<sessions, actors, pending, inbox, phase, cancelled>>
  /\ UNCHANGED <<arrived, dueIn, wanted, heard, pressed>>

SendEmpty ==
  /\ phase = "send"
  /\ sendCh = <<>>
  /\ phase' = "apply"
  /\ UNCHANGED <<sessions, actors, pending, inbox, sendCh, cancelled>>
  /\ UNCHANGED history

(* Tick: one element of the range over pendingInputs                       *)
ApplyInput ==
  /\ phase = "apply"
  /\ pending # <<>>
  /\ actors' = ActorMove(Head(pending).from, KeyMaskToDirection(Head(pending).keys))
  /\ pending' = Tail(pending)
  /\ UNCHANGED <<sessions, inbox, sendCh, phase, cancelled>>
  /\ UNCHANGED history

(* Mutant of BroadcastFrame: the tick ends without broadcasting            *)
EndTickSilently ==
  /\ phase = "apply"
  /\ pending = <<>>
  /\ phase' = "select"
  /\ UNCHANGED <<sessions, actors, pending, inbox, sendCh, cancelled>>
  /\ UNCHANGED history

(* Tick returns the positions, or nil when there is no actor; they are     *)
(* published to every session.  Once ctx is done Publish may give up.      *)
BroadcastFrame ==
  /\ phase = "apply"
  /\ pending = <<>>
  /\ \E to \in SUBSET sessions :
       /\ ~cancelled => to = sessions
       /\ heard' = IF actors = NoActors THEN {} ELSE to
  /\ phase' = "select"
  /\ UNCHANGED <<sessions, actors, pending, inbox, sendCh, cancelled>>
  /\ UNCHANGED <<arrived, dueIn, dueOut, wanted, pressed>>

Run == \/ Return \/ TickFires \/ ReceiveOne \/ ReceiveEmpty
       \/ SendOne \/ SendEmpty \/ ApplyInput \/ BroadcastFrame

Next == \/ Run
        \/ Cancel
        \/ \E m \in Message : Arrive(m)
        \/ \E m \in Send : EnqueueSend(m)

Spec == Init /\ [][Next]_vars

(* The room's goroutine runs and its ticker keeps ticking; select chooses  *)
(* at random among its ready cases, so ctx.Done() is not passed over for   *)
(* ever.  Nothing is assumed of the callers.                               *)
FairSpec == Spec /\ WF_vars(Run) /\ SF_vars(Return)

-----------------------------------------------------------------------------
(* Properties                                                              *)

(* The two maps the room's state is kept in, r.sessions and field.Actors,  *)
(* always have the same sessions: nobody gets frames without being in them *)
(* and no actor is left behind by a Leave.                                 *)
MembersAreActors == sessions = DOMAIN actors

Controls(s) == {i \in 1..Len(inbox) : inbox[i].from = s
                                       /\ inbox[i].kind \in {"join", "leave"}}

(* Membership is what the topic says: a session with no join or leave left *)
(* in the inbox is a member exactly when the last one the room accepted    *)
(* from it was a join, whatever overlapped (RECEIVE_LOOP).                 *)
MembershipFollowsTopic ==
  \A s \in Session : Controls(s) = {} => (s \in sessions <=> s \in wanted)

(* A tick leaves nothing behind: all messages accepted before it fired are *)
(* handled before the first send, and all sends accepted before it fired   *)
(* are published before its own frame, however much arrives meanwhile; and *)
(* pendingInputs, which has no limit, never holds more than one tick's.    *)
TickDrains == /\ phase \in {"send", "apply"} => dueIn = 0
              /\ phase = "apply" => dueOut = 0
              /\ phase \in {"select", "returned"} => pending = <<>>

(* Every tick ends and every member is sent its frame, unless the member   *)
(* leaves or the room is being stopped.                                    *)
MemberHeard ==
  \A s \in Session : (phase = "receive" /\ s \in sessions)
                       ~> ((phase = "select" /\ s \in heard)
                           \/ s \notin sessions \/ cancelled)

(* A cancelled room returns, although its ticker competes with ctx.Done(). *)
CancelReturns == cancelled ~> (phase = "returned")

(* docs/architecture/protocol.md:266: on Join the server registers the     *)
(* session at the initial position, where it is until it sends an input.   *)
JoinedAtCentre ==
  phase = "select" =>
    \A s \in DOMAIN actors : s \notin pressed => actors[s] = Centre
=============================================================================
