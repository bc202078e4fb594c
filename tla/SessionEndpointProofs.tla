------------------------ MODULE SessionEndpointProofs ------------------------
(* Theorems about SessionEndpoint, for every number of callers and every   *)
(* capacity.                                                               *)
EXTENDS SessionEndpoint, TLAPS

(* The callers inside close(), past its CompareAndSwap.                    *)
Inside(k) == closing[k] \in {"cancel", "session", "connection"}

CloseTypes == /\ closing \in [Closer -> {"no", "cancel", "session", "connection", "done"}]
              /\ closed \in BOOLEAN /\ ctxDone \in BOOLEAN /\ sessionClosed \in BOOLEAN
              /\ closes \in Nat

(* CompareAndSwap lets one caller in.                                      *)
OneInside == \A k, l \in Closer : Inside(k) /\ Inside(l) => k = l

(* Where that caller is says what close() has done so far.                 *)
Progress ==
  \A k \in Closer :
    /\ closing[k] = "cancel" => closed /\ ~ctxDone /\ ~sessionClosed /\ closes = 0
    /\ closing[k] = "session" => closed /\ ctxDone /\ ~sessionClosed /\ closes = 0
    /\ closing[k] = "connection" => closed /\ ctxDone /\ sessionClosed /\ closes = 0

(* Nothing is done before the flag is set.                                 *)
Untouched == ~closed => ~ctxDone /\ ~sessionClosed /\ closes = 0

CloseInv == CloseTypes /\ OneInside /\ Progress /\ Untouched /\ CloseProtocol

closeVars == <<closing, closed, ctxDone, sessionClosed, closes>>

LEMMA CloseInit == Init => CloseInv
<1> SUFFICES ASSUME Init PROVE CloseInv
  OBVIOUS
<1>1. /\ closing = [k \in Closer |-> "no"] /\ closes = 0
      /\ closed = FALSE /\ ctxDone = FALSE /\ sessionClosed = FALSE
  BY DEF Init
<1>2. CloseTypes
  <2>1. closing \in [Closer -> {"no", "cancel", "session", "connection", "done"}]
    BY <1>1
  <2>2. closes \in Nat
    BY <1>1
  <2> QED
    BY <1>1, <2>1, <2>2, Zenon DEF CloseTypes
<1>3. \A k \in Closer : ~Inside(k)
  BY <1>1 DEF Inside
<1> QED
  BY <1>1, <1>2, <1>3 DEF CloseInv, OneInside, Inside, Progress, Untouched, CloseProtocol

(* Entering close(), whoever does it.                                      *)
LEMMA EnterKeeps ==
  ASSUME CloseInv, NEW k \in Closer, ~Inside(k), EnterClose(k),
         UNCHANGED <<ctxDone, sessionClosed, closes>>
  PROVE  CloseInv'
<1>1. CloseTypes'
  BY DEF CloseInv, CloseTypes, EnterClose
<1>2. \A l \in Closer : l # k => closing'[l] = closing[l]
  BY DEF CloseInv, CloseTypes, EnterClose
<1>3. CASE closed
  <2>1. ~Inside(k)'
    BY <1>3 DEF CloseInv, CloseTypes, EnterClose, Inside
  <2>2. closed'
    BY DEF EnterClose
  <2> QED
    BY <1>1, <1>2, <1>3, <2>1, <2>2
    DEF CloseInv, OneInside, Progress, Untouched, CloseProtocol, Inside
<1>4. CASE ~closed
  <2>1. closing'[k] = "cancel" /\ closed'
    BY <1>4 DEF CloseInv, CloseTypes, EnterClose
  <2>2. \A l \in Closer : ~Inside(l)
    BY <1>4 DEF CloseInv, Progress, Inside
  <2> QED
    BY <1>1, <1>2, <1>4, <2>1, <2>2
    DEF CloseInv, OneInside, Progress, Untouched, CloseProtocol, Inside
<1> QED
  BY <1>3, <1>4

(* The three effects of close(), in their order.                           *)
LEMMA CloseStepKeeps ==
  ASSUME CloseInv, NEW k \in Closer, CloseStep(k)
  PROVE  CloseInv'
<1>1. Inside(k)
  BY DEF CloseStep, Inside
<1>2. \A l \in Closer : l # k => closing'[l] = closing[l] /\ ~Inside(l)
  <2>1. \A l \in Closer : l # k => closing'[l] = closing[l]
    BY DEF CloseInv, CloseTypes, CloseStep
  <2> QED
    BY <1>1, <2>1 DEF CloseInv, OneInside
<1>3. closed' = closed /\ closed
  BY <1>1 DEF CloseStep, CloseInv, Progress, Inside
<1>4. CASE closing[k] = "cancel"
  <2>1. /\ closing' = [closing EXCEPT ![k] = "session"]
        /\ ctxDone' = TRUE /\ UNCHANGED <<sessionClosed, closes>>
    BY <1>4 DEF CloseStep
  <2>2. ~sessionClosed /\ closes = 0
    BY <1>4 DEF CloseInv, Progress
  <2> QED
    BY <1>2, <1>3, <2>1, <2>2
    DEF CloseInv, CloseTypes, OneInside, Progress, Untouched, CloseProtocol, Inside
<1>5. CASE closing[k] = "session"
  <2>1. /\ closing' = [closing EXCEPT ![k] = "connection"]
        /\ sessionClosed' = TRUE /\ UNCHANGED <<ctxDone, closes>>
    BY <1>5 DEF CloseStep
  <2>2. ctxDone /\ closes = 0
    BY <1>5 DEF CloseInv, Progress
  <2> QED
    BY <1>2, <1>3, <2>1, <2>2
    DEF CloseInv, CloseTypes, OneInside, Progress, Untouched, CloseProtocol, Inside
<1>6. CASE closing[k] = "connection"
  <2>1. /\ closing' = [closing EXCEPT ![k] = IF k = "owner" THEN "no" ELSE "done"]
        /\ closes' = closes + 1 /\ UNCHANGED <<ctxDone, sessionClosed>>
    BY <1>6 DEF CloseStep
  <2>2. ctxDone /\ sessionClosed /\ closes = 0
    BY <1>6 DEF CloseInv, Progress
  <2>3. CloseTypes' /\ ~Inside(k)'
    BY <1>3, <2>1, <2>2 DEF CloseInv, CloseTypes, Inside
  <2> QED
    BY <1>2, <1>3, <2>1, <2>2, <2>3
    DEF CloseInv, OneInside, Progress, Untouched, CloseProtocol, Inside
<1> QED
  BY <1>1, <1>4, <1>5, <1>6 DEF Inside

(* Every other step leaves close() alone.                                  *)
LEMMA CloseUnchanged == CloseInv /\ UNCHANGED closeVars => CloseInv'
  BY DEF closeVars, CloseInv, CloseTypes, OneInside, Inside, Progress, Untouched, CloseProtocol

LEMMA CloseNext == CloseInv /\ [Next]_vars => CloseInv'
<1> SUFFICES ASSUME CloseInv, [Next]_vars PROVE CloseInv'
  OBVIOUS
<1>own. "owner" \in Closer /\ ForceCaller \subseteq Closer
  BY DEF Closer
<1>1. CASE RunStart \/ RunSendAssign \/ RunReturn
  BY <1>1, CloseUnchanged DEF RunStart, RunSendAssign, RunReturn, closeVars, life
<1>2. CASE OwnerDone
  BY <1>2, CloseUnchanged DEF OwnerDone, closeVars, life
<1>3. CASE OwnerEvent
  <2>1. ~Inside("owner") /\ UNCHANGED <<ctxDone, sessionClosed, closes>>
    BY <1>3 DEF OwnerEvent, OwnerReady, Inside
  <2>2. EnterClose("owner") \/ UNCHANGED <<closed, closing>>
    BY <1>3 DEF OwnerEvent
  <2> QED
    BY <1>own, <2>1, <2>2, EnterKeeps, CloseUnchanged DEF closeVars
<1>4. CASE OwnerTick
  <2>1. ~Inside("owner") /\ UNCHANGED <<ctxDone, sessionClosed, closes>>
    BY <1>4 DEF OwnerTick, OwnerReady, Inside
  <2>2. EnterClose("owner") \/ UNCHANGED <<closed, closing>>
    BY <1>4 DEF OwnerTick
  <2> QED
    BY <1>own, <2>1, <2>2, EnterKeeps, CloseUnchanged DEF closeVars
<1>5. CASE CloseStep("owner")
  BY <1>own, <1>5, CloseStepKeeps
<1>6. CASE Reader
  BY <1>6, CloseUnchanged
  DEF Reader, ReaderSelect, ReadData, ReadFails, ReaderReports, closeVars, life
<1>7. CASE Writer \/ WriteSucceeds
  BY <1>7, CloseUnchanged
  DEF Writer, WriterDone, WriterTake, WriteFails, WriterReports, WriteSucceeds, closeVars, life
<1>8. CASE Subscriber
  BY <1>8, CloseUnchanged
  DEF Subscriber, SubscriberDone, SubscriberTake, SubscriberForward, closeVars, life
<1>9. ASSUME NEW k \in ForceCaller, ForceClose(k) \/ CloseStep(k) PROVE CloseInv'
  <2>1. CASE ForceClose(k)
    <3>1. ~Inside(k) /\ EnterClose(k) /\ UNCHANGED <<ctxDone, sessionClosed, closes>>
      BY <2>1 DEF ForceClose, Inside
    <3> QED
      BY <1>own, <3>1, EnterKeeps
  <2>2. CASE CloseStep(k)
    BY <1>own, <2>2, CloseStepKeeps
  <2> QED
    BY <1>9, <2>1, <2>2
<1>10. CASE Close \/ Break \/ RoomPublishes \/ SecondPasses
  BY <1>10, CloseUnchanged
  DEF Close, Break, RoomPublishes, SecondPasses, procs, life, closeVars
<1>11. ASSUME NEW f \in ClientFrame, ClientSends(f) PROVE CloseInv'
  BY <1>11, CloseUnchanged DEF ClientSends, procs, life, closeVars
<1>12. CASE UNCHANGED vars
  BY <1>12, CloseUnchanged DEF vars, procs, life, closeVars
<1> QED
  BY <1>1, <1>2, <1>3, <1>4, <1>5, <1>6, <1>7, <1>8, <1>9, <1>10, <1>11, <1>12
  DEF Next, Owner

(* However many callers race with the owner in close(), the transport is   *)
(* closed once and after everything that close() does before (close).      *)
THEOREM ClosesOnce == Spec => []CloseProtocol
<1>1. CloseInv => CloseProtocol
  BY DEF CloseInv
<1> QED
  BY CloseInit, CloseNext, <1>1, PTL DEF Spec

-----------------------------------------------------------------------------
(* The end of close().                                                     *)

(* Once the flag is set the rest of close() is done, or in the hands of    *)
(* one caller.                                                             *)
Carried == closed => closes = 1 \/ \E k \in Closer : Inside(k)

(* Closing the transport is what closes counts.                            *)
Counted == closes = 1 => conn = "closed"

(* The owner does not end inside close(), and Run not before the owner.    *)
OwnerLast == /\ owner = "done" => ctxDone /\ ~Inside("owner")
             /\ run = "returned" => owner = "done"

LeftInv == Carried /\ Counted /\ OwnerLast

leftVars == <<closeVars, conn, owner, run>>

LEMMA LeftInit == Init => LeftInv
  BY DEF Init, LeftInv, Carried, Counted, OwnerLast

LEMMA LeftUnchanged == LeftInv /\ UNCHANGED leftVars => LeftInv'
  BY DEF LeftInv, Carried, Counted, OwnerLast, Inside, leftVars, closeVars

(* Entering close(): whoever sets the flag is inside.                      *)
LEMMA EnterCarries ==
  ASSUME CloseInv, LeftInv, NEW k \in Closer, ~Inside(k), EnterClose(k),
         k = "owner" => owner # "done",
         UNCHANGED <<ctxDone, sessionClosed, closes, conn, owner, run>>
  PROVE  LeftInv'
<1>1. \A l \in Closer : l # k => closing'[l] = closing[l]
  BY DEF CloseInv, CloseTypes, EnterClose
<1>2. closing'[k] = IF ~closed THEN "cancel" ELSE IF k = "owner" THEN "no" ELSE "done"
  BY DEF CloseInv, CloseTypes, EnterClose
<1>3. Carried'
  <2>1. CASE closed
    <3>1. closes = 1 \/ \E l \in Closer : l # k /\ Inside(l)
      BY <2>1 DEF LeftInv, Carried
    <3> QED
      BY <1>1, <3>1 DEF Carried, Inside
  <2>2. CASE ~closed
    BY <1>2, <2>2 DEF Carried, Inside
  <2> QED
    BY <2>1, <2>2
<1>4. Counted'
  BY DEF LeftInv, Counted
<1>5. OwnerLast'
  <2>1. "owner" \in Closer
    BY DEF Closer
  <2>2. owner = "done" => closing'["owner"] = closing["owner"]
    BY <1>1, <2>1
  <2> QED
    BY <2>2 DEF LeftInv, OwnerLast, Inside
<1> QED
  BY <1>3, <1>4, <1>5 DEF LeftInv

LEMMA CloseStepCarries ==
  ASSUME CloseInv, LeftInv, NEW k \in Closer, CloseStep(k)
  PROVE  LeftInv'
<1>1. Inside(k) /\ UNCHANGED <<closed, owner, run>>
  BY DEF CloseStep, Inside
<1>2. \A l \in Closer : l # k => closing'[l] = closing[l]
  BY DEF CloseInv, CloseTypes, CloseStep
<1>3. OwnerLast'
  <2>1. owner = "done" => k # "owner"
    BY <1>1 DEF LeftInv, OwnerLast
  <2>2. ctxDone => ctxDone'
    BY DEF CloseStep
  <2>3. "owner" \in Closer
    BY DEF Closer
  <2> QED
    BY <1>1, <1>2, <2>1, <2>2, <2>3 DEF LeftInv, OwnerLast, Inside
<1>4. CASE closing[k] \in {"cancel", "session"}
  <2>1. Inside(k)' /\ UNCHANGED <<closes, conn>>
    BY <1>4 DEF CloseStep, CloseInv, CloseTypes, Inside
  <2> QED
    BY <1>3, <2>1 DEF LeftInv, Carried, Counted
<1>5. CASE closing[k] = "connection"
  <2>1. closes' = closes + 1 /\ conn' = "closed"
    BY <1>5 DEF CloseStep
  <2>2. closes = 0
    BY <1>5 DEF CloseInv, Progress
  <2> QED
    BY <1>3, <2>1, <2>2 DEF LeftInv, Carried, Counted
<1> QED
  BY <1>1, <1>4, <1>5 DEF Inside

LEMMA LeftNext == CloseInv /\ LeftInv /\ [Next]_vars => LeftInv'
<1> SUFFICES ASSUME CloseInv, LeftInv, [Next]_vars PROVE LeftInv'
  OBVIOUS
<1>own. "owner" \in Closer /\ ForceCaller \subseteq Closer /\ "owner" \notin ForceCaller
  BY EndpointAssumption DEF Closer
<1>1. CASE RunStart \/ RunSendAssign
  BY <1>1 DEF RunStart, RunSendAssign, LeftInv, Carried, Counted, OwnerLast, Inside,
              life, peer, queues
<1>2. CASE RunReturn
  BY <1>2 DEF RunReturn, LeftInv, Carried, Counted, OwnerLast, Inside, life, peer
<1>3. CASE OwnerDone
  BY <1>3 DEF OwnerDone, OwnerReady, LeftInv, Carried, Counted, OwnerLast, Inside, life, peer
<1>4. CASE OwnerEvent \/ OwnerTick
  <2>1. /\ ~Inside("owner") /\ owner # "done"
        /\ UNCHANGED <<ctxDone, sessionClosed, closes, conn, owner, run>>
    BY <1>4 DEF OwnerEvent, OwnerTick, OwnerReady, Inside, peer
  <2>2. EnterClose("owner") \/ UNCHANGED <<closed, closing>>
    BY <1>4 DEF OwnerEvent, OwnerTick
  <2> QED
    BY <1>own, <2>1, <2>2, EnterCarries, LeftUnchanged DEF leftVars, closeVars
<1>5. CASE CloseStep("owner")
  BY <1>own, <1>5, CloseStepCarries
<1>6. CASE Reader
  BY <1>6, LeftUnchanged
  DEF Reader, ReaderSelect, ReadData, ReadFails, ReaderReports, leftVars, closeVars, life, peer
<1>7. CASE Writer \/ WriteSucceeds
  BY <1>7, LeftUnchanged
  DEF Writer, WriterDone, WriterTake, WriteFails, WriterReports, WriteSucceeds,
      leftVars, closeVars, life, peer
<1>8. CASE Subscriber
  BY <1>8, LeftUnchanged
  DEF Subscriber, SubscriberDone, SubscriberTake, SubscriberForward,
      leftVars, closeVars, life, peer
<1>9. ASSUME NEW k \in ForceCaller, ForceClose(k) \/ CloseStep(k) PROVE LeftInv'
  <2>1. CASE ForceClose(k)
    <3>1. /\ ~Inside(k) /\ EnterClose(k) /\ k # "owner"
          /\ UNCHANGED <<ctxDone, sessionClosed, closes, conn, owner, run>>
      BY <1>own, <2>1 DEF ForceClose, Inside, peer
    <3> QED
      BY <1>own, <3>1, EnterCarries
  <2>2. CASE CloseStep(k)
    BY <1>own, <2>2, CloseStepCarries
  <2> QED
    BY <1>9, <2>1, <2>2
<1>10. CASE Close \/ RoomPublishes \/ SecondPasses
  BY <1>10, LeftUnchanged
  DEF Close, RoomPublishes, SecondPasses, procs, life, peer, leftVars, closeVars
<1>11. ASSUME NEW f \in ClientFrame, ClientSends(f) PROVE LeftInv'
  BY <1>11, LeftUnchanged DEF ClientSends, procs, life, leftVars, closeVars
<1>12. CASE Break
  <2>1. conn = "open" /\ UNCHANGED <<closeVars, owner, run>>
    BY <1>12 DEF Break, procs, life, closeVars
  <2> QED
    BY <2>1 DEF LeftInv, Carried, Counted, OwnerLast, Inside, closeVars
<1>13. CASE UNCHANGED vars
  BY <1>13, LeftUnchanged DEF vars, procs, life, peer, leftVars, closeVars
<1> QED
  BY <1>1, <1>2, <1>3, <1>4, <1>5, <1>6, <1>7, <1>8, <1>9, <1>10, <1>11, <1>12, <1>13
  DEF Next, Owner

(* When Run has returned the transport is closed, or whoever got past the  *)
(* CompareAndSwap is about to close it (Run, ownerLoop, close).            *)
THEOREM NothingLeftOpen == Spec => []TransportNotLeft
<1>1. CloseInv /\ LeftInv => TransportNotLeft
  <2> SUFFICES ASSUME CloseInv, LeftInv, run = "returned" PROVE TransportNotLeft
    BY DEF TransportNotLeft
  <2>1. ctxDone /\ ~Inside("owner") /\ closed
    BY DEF LeftInv, OwnerLast, CloseInv, CloseProtocol
  <2>2. CASE closes = 1
    BY <2>2 DEF LeftInv, Counted, TransportNotLeft
  <2>3. ASSUME NEW k \in Closer, Inside(k) PROVE TransportNotLeft
    <3>1. k \in ForceCaller
      BY <2>1, <2>3 DEF Closer
    <3>2. closing[k] # "cancel"
      BY <2>1 DEF CloseInv, Progress
    <3> QED
      BY <2>3, <3>1, <3>2 DEF Inside, TransportNotLeft
  <2> QED
    BY <2>1, <2>2, <2>3 DEF LeftInv, Carried
<1> QED
  BY CloseInit, CloseNext, LeftInit, LeftNext, <1>1, PTL DEF Spec

-----------------------------------------------------------------------------
(* Membership.                                                             *)

Kind == {"join", "leave", "data"}

RoomTypes == /\ inbound \in Seq(ClientFrame)
             /\ roomID \in Room \cup {NoRoom}
             /\ topics \in Topics

(* The room the endpoint forwards to is one it has joined and not left.    *)
AtHome == roomID # NoRoom => JoinedBefore(topics[roomID], Len(topics[roomID]) + 1)

RoomInv == RoomTypes /\ AtHome /\ SpeaksOnlyWhereJoined

LEMMA RoomInit == Init => RoomInv
  BY DEF Init, RoomInv, RoomTypes, AtHome, SpeaksOnlyWhereJoined, Topics

(* What one more publication changes: nothing for the places before it;    *)
(* after a join the session is joined, and it stays so unless it leaves.   *)
LEMMA OneMore ==
  ASSUME NEW s \in Seq(Kind), NEW kind \in Kind
  PROVE  LET t == Append(s, kind)
         IN  /\ t \in Seq(Kind) /\ Len(t) = Len(s) + 1 /\ t[Len(t)] = kind
             /\ \A i \in 1..Len(s) : t[i] = s[i]
             /\ \A i \in 1..Len(t) : JoinedBefore(s, i) => JoinedBefore(t, i)
             /\ kind = "join" => JoinedBefore(t, Len(t) + 1)
             /\ kind # "leave" /\ JoinedBefore(s, Len(s) + 1) => JoinedBefore(t, Len(t) + 1)
<1> DEFINE t == Append(s, kind)
<1>1. t \in Seq(Kind) /\ Len(t) = Len(s) + 1 /\ t[Len(t)] = kind /\ Len(s) \in Nat
  OBVIOUS
<1>2. \A i \in 1..Len(s) : t[i] = s[i]
  OBVIOUS
<1> HIDE DEF t
<1>3. \A i \in 1..Len(t) : JoinedBefore(s, i) => JoinedBefore(t, i)
  BY <1>1, <1>2 DEF JoinedBefore
<1>4. kind = "join" => JoinedBefore(t, Len(t) + 1)
  BY <1>1 DEF JoinedBefore
<1>5. kind # "leave" /\ JoinedBefore(s, Len(s) + 1) => JoinedBefore(t, Len(t) + 1)
  BY <1>1, <1>2 DEF JoinedBefore
<1> QED
  BY <1>1, <1>2, <1>3, <1>4, <1>5 DEF t

(* A publication on the topic of a room that the session has joined, or of *)
(* its join.                                                               *)
LEMMA PublishKeeps ==
  ASSUME RoomTypes, SpeaksOnlyWhereJoined, NEW room \in Room, NEW kind \in Kind,
         Publish(room, kind),
         kind # "join" => JoinedBefore(topics[room], Len(topics[room]) + 1)
  PROVE  /\ topics' \in Topics
         /\ SpeaksOnlyWhereJoined'
         /\ kind # "leave" => JoinedBefore(topics'[room], Len(topics'[room]) + 1)
<1> DEFINE s == topics[room]
           t == topics'[room]
<1>1. /\ topics' \in Topics /\ s \in Seq(Kind)
      /\ t = Append(s, kind)
      /\ \A r \in Room \cup {NoRoom} : r # room => topics'[r] = topics[r]
  BY DEF RoomTypes, Publish, Topics, Kind
<1>2. /\ Len(t) = Len(s) + 1 /\ t[Len(t)] = kind /\ Len(s) \in Nat
      /\ \A i \in 1..Len(s) : t[i] = s[i]
      /\ \A i \in 1..Len(t) : JoinedBefore(s, i) => JoinedBefore(t, i)
      /\ kind # "leave" => JoinedBefore(t, Len(t) + 1)
  <2> HIDE DEF s, t
  <2> QED
    BY <1>1, OneMore DEF s
<1>3. ASSUME NEW r \in Room \cup {NoRoom}, NEW i \in 1..Len(topics'[r]),
             topics'[r][i] # "join"
      PROVE  JoinedBefore(topics'[r], i)
  <2>1. CASE r # room
    BY <1>1, <1>3, <2>1 DEF SpeaksOnlyWhereJoined
  <2>2. CASE r = room /\ i \in 1..Len(s)
    <3>1. JoinedBefore(s, i)
      BY <1>2, <1>3, <2>2 DEF SpeaksOnlyWhereJoined
    <3> QED
      BY <1>2, <2>2, <3>1
  <2>3. CASE r = room /\ i = Len(s) + 1
    <3>1. kind # "join" /\ JoinedBefore(s, i)
      BY <1>2, <1>3, <2>3
    <3> QED
      BY <1>2, <2>3, <3>1
  <2> QED
    BY <1>2, <2>1, <2>2, <2>3
<1> QED
  BY <1>1, <1>2, <1>3 DEF SpeaksOnlyWhereJoined

(* Whatever the frame, the room left is asked to leave, the one entered to *)
(* join, and data goes to none but the one the session is in.              *)
LEMMA HandleKeepsRoom ==
  ASSUME RoomInv, NEW f \in ClientFrame, HandleData(f)
  PROVE  /\ roomID' \in Room \cup {NoRoom}
         /\ topics' \in Topics
         /\ AtHome' /\ SpeaksOnlyWhereJoined'
<1>1. f.room \in Room \cup {NoRoom} /\ DefaultRoom \in Room /\ NoRoom \notin Room
  BY EndpointAssumption DEF Frame
<1>2. RoomTypes /\ SpeaksOnlyWhereJoined /\ AtHome
  BY DEF RoomInv
<1>3. CASE f.kind = "join" /\ HandleJoin(f.room)
  <2>1. PICK r \in Room : roomID' = r /\ Publish(r, "join")
    BY <1>1, <1>3 DEF HandleJoin
  <2> QED
    BY <1>2, <2>1, PublishKeeps DEF Kind, AtHome
<1>4. CASE UNCHANGED rooms
  BY <1>2, <1>4 DEF rooms, RoomTypes, SpeaksOnlyWhereJoined, AtHome
<1>5. CASE roomID # NoRoom /\ HandleLeave
  <2>1. roomID \in Room /\ Publish(roomID, "leave") /\ roomID' = NoRoom
    BY <1>2, <1>5 DEF HandleLeave, RoomTypes
  <2> QED
    BY <1>2, <1>5, <2>1, PublishKeeps DEF Kind, AtHome
<1>6. CASE roomID # NoRoom /\ HandleForward
  <2>1. roomID \in Room /\ Publish(roomID, "data") /\ roomID' = roomID
    BY <1>2, <1>6 DEF HandleForward, RoomTypes
  <2>2. JoinedBefore(topics[roomID], Len(topics[roomID]) + 1)
    BY <1>2, <1>6 DEF AtHome
  <2> QED
    BY <1>2, <2>1, <2>2, PublishKeeps DEF Kind, AtHome, RoomTypes
<1> QED
  BY <1>3, <1>4, <1>5, <1>6 DEF HandleData, HandleLeave, HandleForward

LEMMA RoomNext == RoomInv /\ [Next]_vars => RoomInv'
<1> SUFFICES ASSUME RoomInv, [Next]_vars PROVE RoomInv'
  OBVIOUS
<1>0. inbound \in Seq(ClientFrame)
  BY DEF RoomInv, RoomTypes
<1>1. CASE ReadData
  <2>1. inbound # <<>> /\ inbound' = Tail(inbound) /\ HandleData(Head(inbound))
    BY <1>1 DEF ReadData
  <2>2. Head(inbound) \in ClientFrame /\ Tail(inbound) \in Seq(ClientFrame)
    BY <1>0, <2>1
  <2> QED
    BY <2>1, <2>2, HandleKeepsRoom DEF RoomInv, RoomTypes
<1>2. CASE UNCHANGED rooms /\ inbound' \in Seq(ClientFrame)
  BY <1>2 DEF rooms, RoomInv, RoomTypes, AtHome, SpeaksOnlyWhereJoined
<1>3. ASSUME NEW k, CloseStep(k) PROVE UNCHANGED rooms /\ inbound' \in Seq(ClientFrame)
  <2>1. UNCHANGED rooms /\ inbound' \in {inbound, <<>>}
    BY <1>3 DEF CloseStep
  <2>2. <<>> \in Seq(ClientFrame)
    OBVIOUS
  <2>3. inbound' \in Seq(ClientFrame)
    BY <1>0, <2>1, <2>2
  <2> QED
    BY <2>1, <2>3
<1>4. ASSUME NEW f \in ClientFrame, ClientSends(f)
      PROVE  UNCHANGED rooms /\ inbound' \in Seq(ClientFrame)
  BY <1>0, <1>4 DEF ClientSends
<1>5. CASE Break
  BY <1>5, <1>2 DEF Break
<1>6. ASSUME NEW k, ForceClose(k) PROVE UNCHANGED <<rooms, inbound>>
  BY <1>6 DEF ForceClose, peer
<1>7. CASE RunStart \/ RunSendAssign \/ RunReturn \/ OwnerDone \/ OwnerEvent \/ OwnerTick
  BY <1>0, <1>2, <1>7
  DEF RunStart, RunSendAssign, RunReturn, OwnerDone, OwnerEvent, OwnerTick, peer
<1>8. CASE ReaderSelect \/ ReadFails \/ ReaderReports \/ Writer \/ WriteSucceeds \/ Subscriber
  BY <1>0, <1>2, <1>8
  DEF ReaderSelect, ReadFails, ReaderReports, Writer, WriterDone, WriterTake, WriteFails,
      WriterReports, WriteSucceeds, Subscriber, SubscriberDone, SubscriberTake,
      SubscriberForward, peer
<1>9. CASE Close \/ RoomPublishes \/ SecondPasses \/ UNCHANGED vars
  BY <1>0, <1>2, <1>9 DEF Close, RoomPublishes, SecondPasses, vars, peer
<1> QED
  BY <1>0, <1>1, <1>2, <1>3, <1>4, <1>5, <1>6, <1>7, <1>8, <1>9 DEF Next, Owner, Reader

(* Whatever frames the client sends and however often it moves, the        *)
(* endpoint publishes data and leaves on the topic of a room only after a  *)
(* join there that no leave has ended, and never on the topic of the empty *)
(* room (handleData, handleControlMessage).                                *)
THEOREM NeverSpeaksElsewhere == Spec => []SpeaksOnlyWhereJoined
<1>1. RoomInv => SpeaksOnlyWhereJoined
  BY DEF RoomInv
<1> QED
  BY RoomInit, RoomNext, <1>1, PTL DEF Spec
=============================================================================
