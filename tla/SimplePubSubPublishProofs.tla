---------------------- MODULE SimplePubSubPublishProofs ----------------------
(***************************************************************************)
(* Proofs about Publish: what it does when no Unsubscribe of its topic     *)
(* overlaps it.                                                            *)
(***************************************************************************)
EXTENDS SimplePubSubProofs

(* No Unsubscribe of the topic is in progress, and what the header held    *)
(* when it was copied is still subscribed.                                 *)
SnapOpen(p) ==
  /\ writer.topic # pub[p].topic
  /\ Len(pub[p].snap) = pub[p].len
  /\ \A i \in 1..pub[p].len : pub[p].snap[i] \in Subscribed(pub[p].topic)

(* The array p ranges over still holds it: either the topic has moved to   *)
(* another array, or its slice is at least as long as p's header, so that  *)
(* an append writes beyond it.                                             *)
ArrayKept(p) ==
  /\ subs[pub[p].topic].arr = pub[p].arr => subs[pub[p].topic].len >= pub[p].len
  /\ \A i \in 1..pub[p].len : arrays[pub[p].topic][pub[p].arr][i] = pub[p].snap[i]

(* The message has been offered to the first next - 1 of them.             *)
OfferedSoFar(p) ==
  /\ Len(pub[p].offered) = pub[p].next - 1
  /\ \A i \in 1..(pub[p].next - 1) : pub[p].offered[i] = pub[p].snap[i]
  /\ pub[p].at = "sending" => pub[p].ch = pub[p].snap[pub[p].next]

Faithful(p) == pub[p].at # "idle" /\ ~pub[p].disturbed
                 => SnapOpen(p) /\ ArrayKept(p) /\ OfferedSoFar(p)

AllFaithful == \A p \in Publisher : Faithful(p)

registry == <<subs, arrays, topicOf, closed, writer>>

LEMMA FaithfulInit == Init => AllFaithful
  BY DEF Init, AllFaithful, Faithful, Idle

(* A step that leaves the registry and p alone.                            *)
LEMMA FaithfulElsewhere ==
  ASSUME NEW p \in Publisher, Faithful(p), pub'[p] = pub[p], UNCHANGED registry
  PROVE  Faithful(p)'
  BY DEF Faithful, SnapOpen, ArrayKept, OfferedSoFar, Subscribed, registry

(* What OfferedSoFar says is p's own.                                      *)
LEMMA OfferedElsewhere ==
  ASSUME NEW p \in Publisher, OfferedSoFar(p), pub'[p] = pub[p]
  PROVE  OfferedSoFar(p)'
  BY DEF OfferedSoFar

-----------------------------------------------------------------------------
(* The writers, seen by a publisher p that they do not disturb.            *)

LEMMA FaithfulSubscribe ==
  ASSUME Inv, NEW p \in Publisher, Faithful(p),
         NEW t \in Topic, NEW c \in Chan, Subscribe(t, c)
  PROVE  Faithful(p)'
<1>1. /\ TypeOK /\ Bounded(p) /\ pub[p] \in Local
      /\ topicOf[c] = NoTopic
      /\ topicOf' = [topicOf EXCEPT ![c] = t]
      /\ UNCHANGED <<closed, buf, writer, pub, calls, cancelled, panicked>>
  BY DEF Inv, AllBounded, TypeOK, Local, Subscribe
<1>2. Appended(t, c)
  BY <1>1, SubscribeEffect DEF Subscribe
<1> SUFFICES ASSUME pub[p].at # "idle", ~pub[p].disturbed
             PROVE  (SnapOpen(p) /\ ArrayKept(p) /\ OfferedSoFar(p))'
  BY <1>1 DEF Faithful
<1>3. SnapOpen(p) /\ ArrayKept(p) /\ OfferedSoFar(p)
  BY DEF Faithful
<1>4. PICK u \in Topic, k \in Nat, n \in Nat :
        pub[p].topic = u /\ pub[p].arr = k /\ pub[p].len = n
  BY <1>1 DEF Bounded, Local
<1>5. SnapOpen(p)'
  <2>1. Subscribed(u) \subseteq Subscribed(u)'
    BY <1>1, PubSubAssumption DEF Subscribed, TypeOK
  <2> QED
    BY <1>1, <1>3, <1>4, <2>1 DEF SnapOpen
<1>6. ArrayKept(p)'
  <2>1. n > 0 => k \in 1..Len(arrays[u]) /\ n <= Len(arrays[u][k])
    BY <1>1, <1>4 DEF Bounded
  <2>2. subs[u].arr = k => subs[u].len >= n
    BY <1>3, <1>4 DEF ArrayKept
  <2>3. \A i \in 1..n : arrays'[u][k][i] = arrays[u][k][i]
    <3> SUFFICES ASSUME NEW i \in 1..n PROVE arrays'[u][k][i] = arrays[u][k][i]
      OBVIOUS
    <3>1. Survives(t, c, u, k)
      BY <1>2, <2>1 DEF Appended
    <3>2. i \in 1..Len(arrays[u][k])
      <4>1. arrays[u] \in Seq(Array) /\ k \in 1..Len(arrays[u])
        BY <1>1, <2>1 DEF TypeOK
      <4>2. Len(arrays[u][k]) \in Nat
        BY <4>1, ElementOfSeq, LenProperties DEF Array
      <4> QED
        BY <2>1, <4>2
    <3>3. subs[u].len \in Nat
      BY <1>1 DEF TypeOK
    <3>4. ~(u = t /\ k = subs[t].arr /\ i > subs[t].len)
      BY <2>2, <3>3
    <3> QED
      BY <3>1, <3>2, <3>4 DEF Survives
  <2>4. subs'[u].arr = k => subs'[u].len >= n
    <3>1. CASE u # t
      BY <1>2, <2>2, <3>1 DEF Appended
    <3>2. CASE u = t
      <4>1. GainsLast(t, c) /\ subs[t].len \in Nat /\ arrays[t] \in Seq(Array)
        BY <1>1, <1>2 DEF Appended, TypeOK
      <4>2. Len(arrays[t]) \in Nat
        BY <4>1, LenProperties
      <4>3. /\ subs'[t].len = subs[t].len + 1
            /\ subs'[t].arr = subs[t].arr \/ subs'[t].arr > Len(arrays[t])
        BY <4>1 DEF GainsLast
      <4> QED
        BY <2>1, <2>2, <3>2, <4>1, <4>2, <4>3
    <3> QED
      BY <3>1, <3>2
  <2> QED
    BY <1>1, <1>3, <1>4, <2>3, <2>4 DEF ArrayKept
<1> QED
  BY <1>1, <1>3, <1>5, <1>6, OfferedElsewhere

LEMMA FaithfulUnsubscribeClose ==
  ASSUME Inv, NEW p \in Publisher, Faithful(p),
         NEW t \in Topic, NEW i \in 1..subs[t].len, UnsubscribeClose(t, i)
  PROVE  Faithful(p)'
<1>1. /\ pub[p] \in Local /\ RegistryExact
      /\ writer = NoWriter
      /\ closed' = closed \cup {Slot(t, i)}
      /\ writer' = [topic |-> t, hole |-> i]
      /\ pub' = Disturb(t)
      /\ UNCHANGED <<subs, arrays, topicOf>>
  BY DEF Inv, TypeOK, Local, UnsubscribeClose
<1>2. CASE pub[p].topic = t
  <2>1. pub'[p].disturbed
    BY <1>1, <1>2 DEF Disturb, Local
  <2> QED
    BY <2>1 DEF Faithful
<1>3. CASE pub[p].topic # t
  <2>1. pub'[p] = pub[p]
    BY <1>1, <1>3 DEF Disturb
  <2>2. topicOf[Slot(t, i)] = t
    <3>1. i \in Kept(t)
      BY <1>1, PubSubAssumption DEF Kept, NoWriter
    <3> QED
      BY <1>1, <3>1, KeptIsSubscribed DEF Subscribed
  <2>3. Subscribed(pub[p].topic)' = Subscribed(pub[p].topic)
    BY <1>1, <1>3, <2>1, <2>2 DEF Subscribed
  <2>4. writer'.topic # pub[p].topic
    BY <1>1, <1>3
  <2>5. SnapOpen(p) => SnapOpen(p)'
    BY <2>1, <2>3, <2>4 DEF SnapOpen
  <2>6. ArrayKept(p) => ArrayKept(p)'
    BY <1>1, <2>1 DEF ArrayKept
  <2> QED
    BY <2>1, <2>5, <2>6, OfferedElsewhere DEF Faithful
<1> QED
  BY <1>2, <1>3

(* ShiftLeft and UnsubscribeCommit touch the writer's topic only, which is *)
(* not that of an undisturbed publisher.                                   *)
LEMMA FaithfulWriterStep ==
  ASSUME Inv, NEW p \in Publisher, Faithful(p),
         pub' = pub, UNCHANGED <<topicOf, closed>>,
         \A u \in Topic : u # writer.topic => subs'[u] = subs[u] /\ arrays'[u] = arrays[u],
         writer'.topic \in {writer.topic, NoTopic}
  PROVE  Faithful(p)'
<1> SUFFICES ASSUME pub[p].at # "idle", ~pub[p].disturbed
             PROVE  (SnapOpen(p) /\ ArrayKept(p) /\ OfferedSoFar(p))'
  BY DEF Faithful
<1>1. SnapOpen(p) /\ ArrayKept(p) /\ OfferedSoFar(p) /\ Bounded(p)
  BY DEF Faithful, Inv, AllBounded
<1>2. PICK u \in Topic : pub[p].topic = u
  BY <1>1 DEF Bounded
<1>3. writer.topic # u /\ writer'.topic # u
  BY <1>1, <1>2, PubSubAssumption DEF SnapOpen
<1>4. subs'[u] = subs[u] /\ arrays'[u] = arrays[u] /\ Subscribed(u)' = Subscribed(u)
  BY <1>3 DEF Subscribed
<1>5. SnapOpen(p)'
  BY <1>1, <1>2, <1>3, <1>4 DEF SnapOpen
<1>6. ArrayKept(p)'
  BY <1>1, <1>2, <1>4 DEF ArrayKept
<1> QED
  BY <1>1, <1>5, <1>6, OfferedElsewhere

LEMMA FaithfulShiftLeft ==
  ASSUME Inv, NEW p \in Publisher, Faithful(p), ShiftLeft
  PROVE  Faithful(p)'
<1>1. /\ subs \in [Topic -> [arr : Nat, len : Nat]]
      /\ arrays \in [Topic -> Seq(Array)]
      /\ writer \in [topic : Topic, hole : Nat]
  BY DEF Inv, TypeOK, ShiftLeft
<1>2. /\ pub' = pub /\ UNCHANGED <<topicOf, closed, subs>>
      /\ writer' = [writer EXCEPT !.hole = @ + 1]
  BY DEF ShiftLeft
<1>3. \A u \in Topic : u # writer.topic => arrays'[u] = arrays[u]
  BY <1>1 DEF ShiftLeft
<1> QED
  BY <1>1, <1>2, <1>3, FaithfulWriterStep

LEMMA FaithfulUnsubscribeCommit ==
  ASSUME Inv, NEW p \in Publisher, Faithful(p), UnsubscribeCommit
  PROVE  Faithful(p)'
<1>1. subs \in [Topic -> [arr : Nat, len : Nat]]
  BY DEF Inv, TypeOK
<1>2. /\ pub' = pub /\ UNCHANGED <<topicOf, closed, arrays>>
      /\ writer' = NoWriter
  BY DEF UnsubscribeCommit
<1>3. \A u \in Topic : u # writer.topic => subs'[u] = subs[u]
  BY <1>1 DEF UnsubscribeCommit
<1> QED
  BY <1>2, <1>3, FaithfulWriterStep DEF NoWriter

-----------------------------------------------------------------------------
(* The publisher's own steps.                                              *)

(* The copied header holds the channels subscribed to the topic.           *)
LEMMA FaithfulSnapshot ==
  ASSUME Inv, NEW p \in Publisher, NEW t \in Topic, PublishSnapshot(p, t)
  PROVE  Faithful(p)'
<1> DEFINE s == [i \in 1..subs[t].len |-> Slot(t, i)]
<1>1. /\ TypeOK /\ RegistryExact /\ writer = NoWriter
      /\ pub' = [pub EXCEPT ![p] = [Idle EXCEPT !.at = "ranging", !.topic = t,
                                      !.arr = subs[t].arr, !.len = subs[t].len,
                                      !.snap = s]]
      /\ UNCHANGED <<subs, arrays, topicOf, closed, writer>>
  BY DEF Inv, PublishSnapshot
<1>2. PICK n \in Nat, k \in Nat : subs[t].len = n /\ subs[t].arr = k
  BY <1>1 DEF TypeOK
<1>3. /\ s = [i \in 1..n |-> Slot(t, i)] /\ Len(s) = n
      /\ \A i \in 1..n : s[i] = arrays[t][k][i]
  BY <1>2 DEF Slot
<1>4. \A i \in 1..n : s[i] \in Subscribed(t)
  <2>1. Kept(t) = 1..n
    BY <1>1, <1>2, PubSubAssumption DEF Kept, NoWriter
  <2> QED
    BY <1>1, <1>3, <2>1, KeptIsSubscribed
<1> HIDE DEF s
<1>5. /\ pub'[p].at = "ranging" /\ pub'[p].topic = t /\ pub'[p].arr = k
      /\ pub'[p].len = n /\ pub'[p].snap = s /\ pub'[p].next = 1
      /\ pub'[p].offered = <<>>
  BY <1>1, <1>2 DEF TypeOK, Idle
<1>6. SnapOpen(p)'
  <2>1. writer'.topic # t
    BY <1>1, PubSubAssumption DEF NoWriter
  <2>2. Subscribed(t)' = Subscribed(t)
    BY <1>1 DEF Subscribed
  <2> QED
    BY <1>3, <1>4, <1>5, <2>1, <2>2 DEF SnapOpen
<1>7. ArrayKept(p)'
  BY <1>1, <1>2, <1>3, <1>5 DEF ArrayKept
<1>8. OfferedSoFar(p)'
  BY <1>5 DEF OfferedSoFar
<1> QED
  BY <1>6, <1>7, <1>8 DEF Faithful

(* The element loaded is the one the header held.                          *)
LEMMA FaithfulLoad ==
  ASSUME Inv, NEW p \in Publisher, Faithful(p), PublishLoad(p)
  PROVE  Faithful(p)'
<1> DEFINE x == arrays[pub[p].topic][pub[p].arr][pub[p].next]
<1>1. /\ pub \in [Publisher -> Local] /\ pub[p] \in Local /\ Bounded(p)
      /\ pub[p].at = "ranging" /\ pub[p].next <= pub[p].len
      /\ pub' = [pub EXCEPT ![p].at = "sending", ![p].ch = x]
      /\ UNCHANGED <<subs, arrays, topicOf, closed, writer>>
  BY DEF Inv, TypeOK, AllBounded, Local, PublishLoad
<1> HIDE DEF x
<1>2. /\ pub'[p].at = "sending" /\ pub'[p].ch = x
      /\ pub'[p].topic = pub[p].topic /\ pub'[p].arr = pub[p].arr
      /\ pub'[p].len = pub[p].len /\ pub'[p].next = pub[p].next
      /\ pub'[p].snap = pub[p].snap /\ pub'[p].offered = pub[p].offered
      /\ pub'[p].disturbed = pub[p].disturbed
  BY <1>1 DEF Local
<1> SUFFICES ASSUME ~pub[p].disturbed
             PROVE  (SnapOpen(p) /\ ArrayKept(p) /\ OfferedSoFar(p))'
  BY <1>2 DEF Faithful
<1>3. SnapOpen(p) /\ ArrayKept(p) /\ OfferedSoFar(p)
  BY <1>1 DEF Faithful
<1>4. SnapOpen(p)'
  BY <1>1, <1>2, <1>3 DEF SnapOpen, Subscribed
<1>5. ArrayKept(p)'
  BY <1>1, <1>2, <1>3 DEF ArrayKept
<1>6. x = pub[p].snap[pub[p].next]
  <2>1. pub[p].next \in 1..pub[p].len
    BY <1>1 DEF Bounded, Local
  <2> QED
    BY <1>3, <2>1 DEF ArrayKept, x
<1>7. OfferedSoFar(p)'
  BY <1>2, <1>3, <1>6 DEF OfferedSoFar
<1> QED
  BY <1>4, <1>5, <1>7

(* One more channel has been offered the message.                          *)
LEMMA FaithfulAdvance ==
  ASSUME Inv, NEW p \in Publisher, Faithful(p), pub[p].at = "sending", Advance(p),
         UNCHANGED registry
  PROVE  Faithful(p)'
<1> DEFINE o == Append(pub[p].offered, pub[p].ch)
<1>1. pub \in [Publisher -> Local] /\ pub[p] \in Local /\ Bounded(p)
  BY DEF Inv, TypeOK, AllBounded, Local
<1>2. pub[p].offered \in Seq(Value) /\ pub[p].ch \in Value
  BY <1>1 DEF Local, Array, Value
<1>3. /\ Len(o) = Len(pub[p].offered) + 1
      /\ \A j \in 1..Len(pub[p].offered) : o[j] = pub[p].offered[j]
      /\ o[Len(pub[p].offered) + 1] = pub[p].ch
  BY <1>2, AppendProperties
<1>4. pub' = [pub EXCEPT ![p].at = "ranging", ![p].next = @ + 1,
                         ![p].ch = NoChan, ![p].offered = o]
  BY DEF Advance
<1> HIDE DEF o
<1>5. /\ pub'[p].at = "ranging" /\ pub'[p].offered = o
      /\ pub'[p].topic = pub[p].topic /\ pub'[p].arr = pub[p].arr
      /\ pub'[p].len = pub[p].len /\ pub'[p].next = pub[p].next + 1
      /\ pub'[p].snap = pub[p].snap
      /\ pub'[p].disturbed = pub[p].disturbed
  BY <1>1, <1>4 DEF Local
<1> SUFFICES ASSUME ~pub[p].disturbed
             PROVE  (SnapOpen(p) /\ ArrayKept(p) /\ OfferedSoFar(p))'
  BY <1>5 DEF Faithful
<1>6. SnapOpen(p) /\ ArrayKept(p) /\ OfferedSoFar(p)
  BY DEF Faithful
<1>7. SnapOpen(p)'
  BY <1>5, <1>6 DEF SnapOpen, Subscribed, registry
<1>8. ArrayKept(p)'
  BY <1>5, <1>6 DEF ArrayKept, registry
<1>9. OfferedSoFar(p)'
  <2>1. PICK n \in Nat : pub[p].next = n + 1
    <3>1. pub[p].next \in Nat /\ pub[p].next >= 1
      BY <1>1 DEF Bounded, Local
    <3> QED
      BY <3>1
  <2>2. /\ Len(pub[p].offered) = n
        /\ \A i \in 1..n : pub[p].offered[i] = pub[p].snap[i]
        /\ pub[p].ch = pub[p].snap[n + 1]
    BY <1>6, <2>1 DEF OfferedSoFar
  <2>3. Len(o) = n + 1 /\ \A i \in 1..(n + 1) : o[i] = pub[p].snap[i]
    BY <1>3, <2>2
  <2>4. pub'[p].next - 1 = n + 1
    BY <1>5, <2>1
  <2> QED
    BY <1>5, <2>3, <2>4 DEF OfferedSoFar
<1> QED
  BY <1>7, <1>8, <1>9

LEMMA FaithfulIdle ==
  ASSUME Inv, NEW p \in Publisher, pub' = [pub EXCEPT ![p] = Idle]
  PROVE  Faithful(p)'
  BY DEF Inv, TypeOK, Faithful, Idle

(* A step of publisher q leaves every other publisher faithful.            *)
LEMMA FaithfulOthers ==
  ASSUME AllFaithful, NEW q \in Publisher, Faithful(q)',
         \A p \in Publisher : p # q => pub'[p] = pub[p], UNCHANGED registry
  PROVE  AllFaithful'
<1> SUFFICES ASSUME NEW p \in Publisher, p # q PROVE Faithful(p)'
  BY DEF AllFaithful
<1>1. Faithful(p) /\ pub'[p] = pub[p]
  BY DEF AllFaithful
<1> QED
  BY <1>1, FaithfulElsewhere

LEMMA FaithfulPublisher ==
  ASSUME Inv, AllFaithful, NEW q \in Publisher, PublisherStep(q)
  PROVE  AllFaithful'
<1>1. Faithful(q) /\ pub \in [Publisher -> Local]
  BY DEF AllFaithful, Inv, TypeOK, Local
<1>2. CASE PublishLoad(q)
  <2>1. Faithful(q)'
    BY <1>1, <1>2, FaithfulLoad
  <2>2. UNCHANGED registry /\ \A p \in Publisher : p # q => pub'[p] = pub[p]
    BY <1>1, <1>2 DEF PublishLoad, registry
  <2> QED
    BY <2>1, <2>2, FaithfulOthers
<1>3. CASE PublishSend(q) \/ PublishSkip(q)
  <2>1. pub[q].at = "sending" /\ Advance(q) /\ UNCHANGED registry
    BY <1>3 DEF PublishSend, PublishSkip, registry
  <2>2. Faithful(q)'
    BY <1>1, <2>1, FaithfulAdvance
  <2>3. \A p \in Publisher : p # q => pub'[p] = pub[p]
    BY <1>1, <2>1 DEF Advance
  <2> QED
    BY <2>1, <2>2, <2>3, FaithfulOthers
<1>4. CASE PublishPanic(q)
  <2>1. UNCHANGED registry /\ pub' = pub
    BY <1>4 DEF PublishPanic, registry
  <2> QED
    BY <2>1, FaithfulElsewhere DEF AllFaithful
<1>5. CASE PublishCtxReturn(q) \/ PublishDone(q)
  <2>1. UNCHANGED registry /\ pub' = [pub EXCEPT ![q] = Idle]
    BY <1>5 DEF PublishCtxReturn, PublishDone, registry
  <2>2. Faithful(q)'
    BY <2>1, FaithfulIdle
  <2>3. \A p \in Publisher : p # q => pub'[p] = pub[p]
    BY <1>1, <2>1
  <2> QED
    BY <2>1, <2>2, <2>3, FaithfulOthers
<1> QED
  BY <1>2, <1>3, <1>4, <1>5 DEF PublisherStep

LEMMA FaithfulNext == Inv /\ AllFaithful /\ [Next]_vars => AllFaithful'
<1> SUFFICES ASSUME Inv, AllFaithful, [Next]_vars PROVE AllFaithful'
  OBVIOUS
<1>0. \A p \in Publisher : Faithful(p)
  BY DEF AllFaithful
<1>1. CASE \E t \in Topic, c \in Chan : Subscribe(t, c)
  BY <1>0, <1>1, FaithfulSubscribe DEF AllFaithful
<1>2. CASE \E t \in Topic : \E i \in 1..subs[t].len : UnsubscribeClose(t, i)
  BY <1>0, <1>2, FaithfulUnsubscribeClose DEF AllFaithful
<1>3. CASE ShiftLeft
  BY <1>0, <1>3, FaithfulShiftLeft DEF AllFaithful
<1>4. CASE UnsubscribeCommit
  BY <1>0, <1>4, FaithfulUnsubscribeCommit DEF AllFaithful
<1>5. ASSUME NEW q \in Publisher, NEW t \in Topic, PublishSnapshot(q, t) PROVE AllFaithful'
  <2>1. Faithful(q)'
    BY <1>5, FaithfulSnapshot
  <2>2. UNCHANGED registry /\ \A p \in Publisher : p # q => pub'[p] = pub[p]
    BY <1>5 DEF PublishSnapshot, registry, Inv, TypeOK
  <2> QED
    BY <2>1, <2>2, FaithfulOthers
<1>6. CASE \E q \in Publisher : PublisherStep(q)
  BY <1>6, FaithfulPublisher
<1>7. CASE (\E q \in Publisher : CancelCtx(q)) \/ (\E c \in Chan : Receive(c)) \/ UNCHANGED vars
  <2>1. UNCHANGED registry /\ pub' = pub
    BY <1>7 DEF CancelCtx, Receive, vars, registry
  <2> QED
    BY <1>0, <2>1, FaithfulElsewhere DEF AllFaithful
<1> QED
  BY <1>1, <1>2, <1>3, <1>4, <1>5, <1>6, <1>7 DEF Next

-----------------------------------------------------------------------------
(* Theorems                                                                *)

(* The element an undisturbed publisher sends to is open, so a send that   *)
(* panics is a disturbed one; and nothing moves after a panic.             *)
LEMMA PanicNext ==
  Inv /\ AllFaithful /\ PanicNeedsOverlap /\ [Next]_vars => PanicNeedsOverlap'
<1> SUFFICES ASSUME Inv, AllFaithful, PanicNeedsOverlap, [Next]_vars
             PROVE  PanicNeedsOverlap'
  OBVIOUS
<1>1. CASE \E p \in Publisher : PublishPanic(p)
  <2>1. PICK p \in Publisher : PublishPanic(p)
    BY <1>1
  <2>2. pub[p].at = "sending" /\ pub[p].ch \in closed /\ pub' = pub
    BY <2>1 DEF PublishPanic
  <2>3. pub[p].disturbed
    <3> SUFFICES ASSUME ~pub[p].disturbed PROVE FALSE
      OBVIOUS
    <3>1. SnapOpen(p) /\ OfferedSoFar(p) /\ Bounded(p) /\ pub[p] \in Local
      BY <2>2 DEF AllFaithful, Faithful, Inv, AllBounded, TypeOK, Local
    <3>2. pub[p].next \in 1..pub[p].len
      BY <2>2, <3>1 DEF Bounded, Local
    <3>3. pub[p].ch \in Subscribed(pub[p].topic)
      BY <2>2, <3>1, <3>2 DEF SnapOpen, OfferedSoFar
    <3> QED
      BY <2>2, <3>3 DEF Subscribed
  <2> QED
    BY <2>2, <2>3 DEF PanicNeedsOverlap
<1>2. CASE UNCHANGED vars
  BY <1>2 DEF vars, PanicNeedsOverlap
<1>3. CASE ~panicked'
  BY <1>3 DEF PanicNeedsOverlap
<1>4. ~panicked' \/ UNCHANGED vars \/ \E p \in Publisher : PublishPanic(p)
  BY DEF Next, Subscribe, UnsubscribeClose, ShiftLeft, UnsubscribeCommit, PublishSnapshot,
         PublisherStep, PublishLoad, PublishSend, PublishSkip, PublishCtxReturn, PublishDone,
         CancelCtx, Receive
<1> QED
  BY <1>1, <1>2, <1>3, <1>4

(* The process dies in Publish only if an Unsubscribe of the same topic    *)
(* overlaps that very call (Publish, Unsubscribe).                         *)
THEOREM PanicOnlyInOverlap == Spec => []PanicNeedsOverlap
<1>1. Init => PanicNeedsOverlap
  BY DEF Init, PanicNeedsOverlap
<1> QED
  BY <1>1, InvInit, InvNext, FaithfulInit, FaithfulNext, PanicNext, PTL DEF Spec

(* When the range is over, all that the header held has been offered.      *)
LEMMA DoneIsExact ==
  ASSUME Inv, AllFaithful, [Next]_vars, NEW p \in Publisher,
         pub[p].at = "ranging", pub'[p].at = "idle", ~pub[p].disturbed
  PROVE  pub[p].offered = pub[p].snap
<1>1. /\ SnapOpen(p) /\ OfferedSoFar(p) /\ Bounded(p)
      /\ pub \in [Publisher -> Local] /\ pub[p] \in Local
  BY DEF AllFaithful, Faithful, Inv, AllBounded, TypeOK, Local
<1>2. PublishDone(p)
  <2>1. CASE \E t \in Topic, c \in Chan : Subscribe(t, c)
    BY <2>1 DEF Subscribe
  <2>2. CASE \E t \in Topic : \E i \in 1..subs[t].len : UnsubscribeClose(t, i)
    BY <1>1, <2>2 DEF UnsubscribeClose, Disturb, Local
  <2>3. CASE ShiftLeft \/ UnsubscribeCommit
    BY <2>3 DEF ShiftLeft, UnsubscribeCommit
  <2>4. CASE \E q \in Publisher, t \in Topic : PublishSnapshot(q, t)
    BY <1>1, <2>4 DEF PublishSnapshot, Idle
  <2>5. ASSUME NEW q \in Publisher, PublisherStep(q) PROVE PublishDone(p)
    <3>1. CASE q # p
      BY <1>1, <2>5, <3>1
      DEF PublisherStep, PublishLoad, PublishSend, PublishPanic, PublishSkip,
          PublishCtxReturn, PublishDone, Advance
    <3>2. CASE q = p
      BY <1>1, <2>5, <3>2
      DEF PublisherStep, PublishLoad, PublishSend, PublishPanic, PublishSkip,
          PublishCtxReturn, Local
    <3> QED
      BY <3>1, <3>2
  <2>6. CASE (\E q \in Publisher : CancelCtx(q)) \/ (\E c \in Chan : Receive(c))
    BY <2>6 DEF CancelCtx, Receive
  <2>7. CASE UNCHANGED vars
    BY <2>7 DEF vars
  <2> QED
    BY <2>1, <2>2, <2>3, <2>4, <2>5, <2>6, <2>7 DEF Next
<1>3. PICK n \in Nat : pub[p].len = n
  BY <1>1 DEF Local
<1>4. pub[p].next - 1 = n
  BY <1>1, <1>2, <1>3 DEF PublishDone, Bounded, Local
<1>5. /\ Len(pub[p].offered) = n /\ Len(pub[p].snap) = n
      /\ \A i \in 1..n : pub[p].offered[i] = pub[p].snap[i]
  BY <1>1, <1>3, <1>4 DEF SnapOpen, OfferedSoFar
<1>6. pub[p].offered \in Seq(Value) /\ pub[p].snap \in Seq(Value)
  BY <1>1 DEF Local, Array, Value
<1> QED
  BY <1>5, <1>6, SeqEqual

(* A Publish that no Unsubscribe of its topic overlaps, and that its ctx   *)
(* does not cut short, has offered its message to exactly the channels     *)
(* subscribed when it began, each once, although Subscribe may write into  *)
(* the array it ranges over (Publish, Subscribe).                          *)
THEOREM UndisturbedIsExact == Spec => UndisturbedPublishExact
<1>1. Inv /\ AllFaithful /\ [Next]_vars =>
        [\A p \in Publisher :
           pub[p].at = "ranging" /\ pub'[p].at = "idle" /\ ~pub[p].disturbed
             => pub[p].offered = pub[p].snap]_vars
  BY DoneIsExact
<1> QED
  BY <1>1, InvInit, InvNext, FaithfulInit, FaithfulNext, PTL DEF Spec, UndisturbedPublishExact
=============================================================================
