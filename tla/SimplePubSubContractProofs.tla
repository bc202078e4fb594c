--------------------- MODULE SimplePubSubContractProofs ---------------------
(***************************************************************************)
(* Proof that SimplePubSub implements PubSubContract: what the slices hold *)
(* is what is registered.                                                  *)
(***************************************************************************)
EXTENDS SimplePubSubProofs

(* The channels made for t, closed or not.                                 *)
MadeFor(t) == {c \in Chan : topicOf[c] = t}

(* The first n slots of array k of t hold channels made for t.             *)
Owned(t, k, n) == \A i \in 1..n : arrays[t][k][i] \in MadeFor(t)

(* A publisher, however it is disturbed, only meets channels of its topic: *)
(* nothing else is ever written below the length of any header.            *)
OnTopic(p) == pub[p].at # "idle" =>
                /\ Owned(pub[p].topic, pub[p].arr, pub[p].len)
                /\ pub[p].at = "sending" => pub[p].ch \in MadeFor(pub[p].topic)

SlicesOwned == \A t \in Topic : Owned(t, subs[t].arr, subs[t].len)

AllOnTopic == \A p \in Publisher : OnTopic(p)

LEMMA OwnedInit == Init => SlicesOwned /\ AllOnTopic
<1> SUFFICES ASSUME Init PROVE SlicesOwned /\ AllOnTopic
  OBVIOUS
<1>1. SlicesOwned
  <2>1. \A t \in Topic : subs[t].len = 0
    BY DEF Init, NoSlice
  <2>2. 1..0 = {}
    OBVIOUS
  <2> QED
    BY <2>1, <2>2 DEF SlicesOwned, Owned
<1>2. AllOnTopic
  BY DEF Init, AllOnTopic, OnTopic, Idle
<1> QED
  BY <1>1, <1>2

-----------------------------------------------------------------------------
(* Steps on the slices.                                                    *)

(* A prefix of an array that holds channels of t goes on doing so.         *)
LEMMA OwnedSubscribe ==
  ASSUME Inv, NEW t \in Topic, NEW c \in Chan, Subscribe(t, c),
         NEW u \in Topic, NEW k \in Nat, NEW n \in Nat, Owned(u, k, n),
         n > 0 => k \in 1..Len(arrays[u]) /\ n <= Len(arrays[u][k])
  PROVE  Owned(u, k, n)' /\ MadeFor(u) \subseteq MadeFor(u)'
<1>1. /\ TypeOK /\ topicOf[c] = NoTopic /\ topicOf' = [topicOf EXCEPT ![c] = t]
  BY DEF Inv, Subscribe
<1>2. MadeFor(u) \subseteq MadeFor(u)' /\ c \in MadeFor(t)'
  BY <1>1, PubSubAssumption DEF MadeFor, TypeOK
<1>3. Owned(u, k, n)'
  <2> SUFFICES ASSUME NEW i \in 1..n PROVE arrays'[u][k][i] \in MadeFor(u)'
    BY DEF Owned
  <2>1. Survives(t, c, u, k)
    <3>1. Appended(t, c)
      BY <1>1, SubscribeEffect DEF Subscribe
    <3> QED
      BY <3>1 DEF Appended
  <2>2. i \in 1..Len(arrays[u][k])
    <3>1. arrays[u] \in Seq(Array) /\ k \in 1..Len(arrays[u])
      BY <1>1 DEF TypeOK
    <3>2. Len(arrays[u][k]) \in Nat
      BY <3>1, ElementOfSeq, LenProperties DEF Array
    <3> QED
      BY <3>2
  <2>3. arrays'[u][k][i] = arrays[u][k][i] \/ (u = t /\ arrays'[u][k][i] = c)
    BY <2>1, <2>2 DEF Survives
  <2>4. arrays[u][k][i] \in MadeFor(u)
    BY DEF Owned
  <2> QED
    BY <1>2, <2>3, <2>4
<1> QED
  BY <1>2, <1>3

(* A topic's slice has a live array behind it, and so has a publisher.     *)
LEMMA SliceInArray ==
  ASSUME Inv, NEW t \in Topic
  PROVE  /\ subs[t].arr \in Nat /\ subs[t].len \in Nat
         /\ subs[t].len > 0 => /\ subs[t].arr \in 1..Len(arrays[t])
                               /\ subs[t].len <= Len(arrays[t][subs[t].arr])
  BY DEF Inv, TypeOK, NoSlice

LEMMA HeaderInArray ==
  ASSUME Inv, NEW p \in Publisher, pub[p].at # "idle"
  PROVE  /\ pub[p].topic \in Topic /\ pub[p].arr \in Nat /\ pub[p].len \in Nat
         /\ pub[p].len > 0 => /\ pub[p].arr \in 1..Len(arrays[pub[p].topic])
                              /\ pub[p].len <= Len(arrays[pub[p].topic][pub[p].arr])
  BY DEF Inv, AllBounded, Bounded, TypeOK

(* Shifting left copies a channel of the topic.                            *)
LEMMA OwnedShiftLeft ==
  ASSUME Inv, SlicesOwned, ShiftLeft,
         NEW u \in Topic, NEW k \in Nat, NEW n \in Nat, Owned(u, k, n),
         n > 0 => k \in 1..Len(arrays[u]) /\ n <= Len(arrays[u][k])
  PROVE  Owned(u, k, n)'
<1> DEFINE t == writer.topic
           h == writer.hole
           a == subs[t].arr
           x == Slot(t, h + 1)
<1>1. /\ TypeOK /\ t \in Topic /\ h \in Nat /\ h >= 1 /\ h < subs[t].len
      /\ subs[t].len \in Nat
      /\ arrays' = [arrays EXCEPT ![t][a][h] = x]
      /\ topicOf' = topicOf
  BY DEF Inv, TypeOK, ShiftLeft
<1>2. x \in MadeFor(t)
  <2>1. Owned(t, a, subs[t].len)
    BY <1>1 DEF SlicesOwned
  <2>2. h + 1 \in 1..subs[t].len
    BY <1>1
  <2> QED
    BY <2>1, <2>2 DEF Owned, Slot
<1>3. Written(arrays, arrays', t, a, h, x)
  <2>1. PICK n1 \in Nat : n1 = subs[t].len
    BY <1>1
  <2>2. h < n1 /\ a \in 1..Len(arrays[t]) /\ n1 <= Len(arrays[t][a])
    <3>1. h < n1 /\ n1 > 0
      BY <1>1, <2>1
    <3> HIDE DEF h, a
    <3> QED
      BY <1>1, <2>1, <3>1, SliceInArray DEF a
  <2>3. arrays \in [Topic -> Seq(Array)] /\ arrays[t] \in Seq(Array)
    BY <1>1 DEF TypeOK
  <2>4. Len(arrays[t][a]) \in Nat
    BY <2>2, <2>3, ElementOfSeq, LenProperties DEF Array
  <2>5. h \in 1..Len(arrays[t][a])
    <3> HIDE DEF t, h, a
    <3> QED
      BY <1>1, <2>2, <2>4
  <2>6. x \in Value
    BY <1>2 DEF MadeFor, Value
  <2> HIDE DEF t, h, a, x
  <2> QED
    BY <1>1, <2>2, <2>3, <2>5, <2>6, WriteSlot
<1> HIDE DEF t, h, a, x
<1> SUFFICES ASSUME NEW i \in 1..n PROVE arrays'[u][k][i] \in MadeFor(u)
  BY <1>1 DEF Owned, MadeFor
<1>4. arrays[u][k][i] \in MadeFor(u)
  BY DEF Owned
<1>5. k \in 1..Len(arrays[u]) /\ i \in 1..Len(arrays[u][k])
  <2>1. arrays[u] \in Seq(Array) /\ k \in 1..Len(arrays[u])
    BY <1>1 DEF TypeOK
  <2>2. Len(arrays[u][k]) \in Nat
    BY <2>1, ElementOfSeq, LenProperties DEF Array
  <2> QED
    BY <2>1, <2>2
<1>6. CASE u = t /\ k = a /\ i = h
  BY <1>2, <1>3, <1>6 DEF Written
<1>7. CASE ~(u = t /\ k = a /\ i = h)
  BY <1>3, <1>4, <1>5, <1>7 DEF Written
<1> QED
  BY <1>6, <1>7

-----------------------------------------------------------------------------
(* Both invariants are preserved.                                          *)

(* A step that keeps every owned prefix owned, and leaves the slices and   *)
(* the publishers' own fields alone.                                       *)
LEMMA OwnedUnchanged ==
  ASSUME SlicesOwned, AllOnTopic, UNCHANGED <<subs, arrays, topicOf, pub>>
  PROVE  (SlicesOwned /\ AllOnTopic)'
  BY DEF SlicesOwned, AllOnTopic, OnTopic, Owned, MadeFor

LEMMA SubscribeOnTopic ==
  ASSUME Inv, SlicesOwned, AllOnTopic, NEW t \in Topic, NEW c \in Chan, Subscribe(t, c)
  PROVE  (SlicesOwned /\ AllOnTopic)'
<1>1. /\ Appended(t, c) /\ pub' = pub
      /\ topicOf[c] = NoTopic /\ topicOf' = [topicOf EXCEPT ![c] = t]
      /\ topicOf \in [Chan -> Topic \cup {NoTopic}]
  BY SubscribeEffect DEF Subscribe, Inv, TypeOK
<1>2. ASSUME NEW u \in Topic PROVE Owned(u, subs[u].arr, subs[u].len)'
  <2>1. Owned(u, subs[u].arr, subs[u].len)
    BY DEF SlicesOwned
  <2>2. PICK k \in Nat, n \in Nat : subs[u].arr = k /\ subs[u].len = n
    BY SliceInArray
  <2>3. n > 0 => k \in 1..Len(arrays[u]) /\ n <= Len(arrays[u][k])
    BY <2>2, SliceInArray
  <2>4. Owned(u, k, n)' /\ MadeFor(u) \subseteq MadeFor(u)'
    BY <2>1, <2>2, <2>3, OwnedSubscribe
  <2>5. CASE u # t
    BY <1>1, <2>2, <2>4, <2>5 DEF Appended, Owned, MadeFor
  <2>6. CASE u = t
    <3>1. GainsLast(t, c)
      BY <1>1 DEF Appended
    <3>2. subs'[t].len = n + 1
      BY <2>2, <2>6, <3>1 DEF GainsLast
    <3>3. \A i \in 1..n : Slot(t, i)' = arrays[t][k][i]
      BY <2>2, <2>6, <3>1 DEF GainsLast, Slot
    <3>4. Slot(t, n + 1)' = c
      <4>1. Slot(t, subs[t].len)' = Slot(t, n + 1)'
        BY <3>2 DEF Slot
      <4> QED
        BY <3>1, <4>1 DEF GainsLast
    <3>5. c \in MadeFor(t)'
      BY <1>1 DEF MadeFor
    <3>6. \A i \in 1..n : arrays[t][k][i] \in MadeFor(t)'
      BY <2>1, <2>2, <2>4, <2>6 DEF Owned
    <3>7. ASSUME NEW i \in 1..(n + 1) PROVE Slot(t, i)' \in MadeFor(t)'
      <4>1. i \in 1..n \/ i = n + 1
        OBVIOUS
      <4> QED
        BY <3>3, <3>4, <3>5, <3>6, <4>1
    <3> QED
      BY <2>6, <3>2, <3>7 DEF Owned, Slot
  <2> QED
    BY <2>5, <2>6
<1>3. ASSUME NEW p \in Publisher, pub[p].at # "idle"
      PROVE  /\ Owned(pub[p].topic, pub[p].arr, pub[p].len)'
             /\ pub[p].at = "sending" => pub[p].ch \in MadeFor(pub[p].topic)'
  <2>1. PICK u \in Topic, k \in Nat, n \in Nat :
          pub[p].topic = u /\ pub[p].arr = k /\ pub[p].len = n
    BY <1>3, HeaderInArray
  <2>2. n > 0 => k \in 1..Len(arrays[u]) /\ n <= Len(arrays[u][k])
    BY <1>3, <2>1, HeaderInArray
  <2>3. Owned(u, k, n) /\ (pub[p].at = "sending" => pub[p].ch \in MadeFor(u))
    BY <1>3, <2>1 DEF AllOnTopic, OnTopic
  <2>4. Owned(u, k, n)' /\ MadeFor(u) \subseteq MadeFor(u)'
    BY <2>2, <2>3, OwnedSubscribe
  <2> QED
    BY <1>1, <2>1, <2>3, <2>4 DEF Owned, MadeFor
<1> QED
  BY <1>1, <1>2, <1>3 DEF SlicesOwned, AllOnTopic, OnTopic, Owned, MadeFor

LEMMA ShiftLeftOnTopic ==
  ASSUME Inv, SlicesOwned, AllOnTopic, ShiftLeft
  PROVE  (SlicesOwned /\ AllOnTopic)'
<1>1. subs' = subs /\ pub' = pub /\ topicOf' = topicOf
  BY DEF ShiftLeft
<1>2. ASSUME NEW u \in Topic PROVE Owned(u, subs[u].arr, subs[u].len)'
  <2>1. Owned(u, subs[u].arr, subs[u].len)
    BY DEF SlicesOwned
  <2>2. PICK k \in Nat, n \in Nat : subs[u].arr = k /\ subs[u].len = n
    BY SliceInArray
  <2>3. n > 0 => k \in 1..Len(arrays[u]) /\ n <= Len(arrays[u][k])
    BY <2>2, SliceInArray
  <2>4. Owned(u, k, n)'
    BY <2>1, <2>2, <2>3, OwnedShiftLeft
  <2> QED
    BY <1>1, <2>2, <2>4 DEF Owned
<1>3. ASSUME NEW p \in Publisher, pub[p].at # "idle"
      PROVE  Owned(pub[p].topic, pub[p].arr, pub[p].len)'
  <2>1. PICK u \in Topic, k \in Nat, n \in Nat :
          pub[p].topic = u /\ pub[p].arr = k /\ pub[p].len = n
    BY <1>3, HeaderInArray
  <2>2. n > 0 => k \in 1..Len(arrays[u]) /\ n <= Len(arrays[u][k])
    BY <1>3, <2>1, HeaderInArray
  <2>3. Owned(u, k, n)
    BY <1>3, <2>1 DEF AllOnTopic, OnTopic
  <2>4. Owned(u, k, n)'
    BY <2>2, <2>3, OwnedShiftLeft
  <2> QED
    BY <1>1, <2>1, <2>4 DEF Owned
<1> QED
  BY <1>1, <1>2, <1>3 DEF SlicesOwned, AllOnTopic, OnTopic, Owned, MadeFor

LEMMA CommitOnTopic ==
  ASSUME Inv, SlicesOwned, AllOnTopic, UnsubscribeCommit
  PROVE  (SlicesOwned /\ AllOnTopic)'
<1>1. arrays' = arrays /\ pub' = pub /\ topicOf' = topicOf
      /\ subs \in [Topic -> [arr : Nat, len : Nat]]
  BY DEF UnsubscribeCommit, Inv, TypeOK
<1>2. ASSUME NEW u \in Topic PROVE Owned(u, subs[u].arr, subs[u].len)'
  <2>1. Owned(u, subs[u].arr, subs[u].len)
    BY DEF SlicesOwned
  <2>2. PICK k \in Nat, n \in Nat : subs[u].arr = k /\ subs[u].len = n
    BY SliceInArray
  <2>3. \/ subs'[u] = subs[u]
        \/ subs'[u] = NoSlice
        \/ subs'[u] = [arr |-> k, len |-> n - 1]
    BY <1>1, <2>2 DEF UnsubscribeCommit
  <2>4. subs'[u].len = 0 \/ (subs'[u].arr = k /\ subs'[u].len \in {n, n - 1})
    BY <2>2, <2>3 DEF NoSlice
  <2>5. CASE subs'[u].len = 0
    BY <2>5 DEF Owned
  <2>6. CASE subs'[u].arr = k /\ subs'[u].len \in {n, n - 1}
    BY <1>1, <2>1, <2>2, <2>6 DEF Owned, MadeFor
  <2> QED
    BY <2>4, <2>5, <2>6
<1> QED
  BY <1>1, <1>2 DEF SlicesOwned, AllOnTopic, OnTopic, Owned, MadeFor

(* The close only marks publishers as disturbed.                           *)
LEMMA CloseOnTopic ==
  ASSUME Inv, SlicesOwned, AllOnTopic,
         NEW t \in Topic, NEW i \in 1..subs[t].len, UnsubscribeClose(t, i)
  PROVE  (SlicesOwned /\ AllOnTopic)'
<1>1. UNCHANGED <<subs, arrays, topicOf>> /\ pub' = Disturb(t)
  BY DEF UnsubscribeClose
<1>2. \A p \in Publisher : pub[p] \in Local
  BY DEF Inv, TypeOK, Local
<1>3. \A p \in Publisher : /\ pub'[p].at = pub[p].at /\ pub'[p].topic = pub[p].topic
                           /\ pub'[p].arr = pub[p].arr /\ pub'[p].len = pub[p].len
                           /\ pub'[p].ch = pub[p].ch
  BY <1>1, <1>2 DEF Disturb, Local
<1> QED
  BY <1>1, <1>3 DEF SlicesOwned, AllOnTopic, OnTopic, Owned, MadeFor

(* A publisher's own steps.                                                *)
LEMMA PublisherOnTopic ==
  ASSUME Inv, SlicesOwned, AllOnTopic, NEW p \in Publisher,
         PublisherStep(p) \/ \E t \in Topic : PublishSnapshot(p, t)
  PROVE  (SlicesOwned /\ AllOnTopic)'
<1>1. /\ UNCHANGED <<subs, arrays, topicOf>>
      /\ pub \in [Publisher -> Local] /\ pub[p] \in Local /\ Bounded(p)
      /\ OnTopic(p)
  BY DEF PublisherStep, PublishLoad, PublishSend, PublishPanic, PublishSkip, PublishCtxReturn,
         PublishDone, PublishSnapshot, Inv, TypeOK, Local, AllBounded, AllOnTopic
<1>2. \A q \in Publisher : q # p => pub'[q] = pub[q]
  BY <1>1
  DEF PublisherStep, PublishLoad, PublishSend, PublishPanic, PublishSkip, PublishCtxReturn,
      PublishDone, PublishSnapshot, Advance
<1>3. OnTopic(p)'
  <2>1. CASE PublishLoad(p)
    <3> DEFINE x == arrays[pub[p].topic][pub[p].arr][pub[p].next]
    <3>1. pub' = [pub EXCEPT ![p].at = "sending", ![p].ch = x]
          /\ pub[p].at = "ranging" /\ pub[p].next <= pub[p].len
      BY <2>1 DEF PublishLoad
    <3>2. x \in MadeFor(pub[p].topic)
      <4>1. pub[p].next \in 1..pub[p].len
        BY <1>1, <3>1 DEF Bounded, Local
      <4> QED
        BY <1>1, <3>1, <4>1 DEF OnTopic, Owned
    <3> HIDE DEF x
    <3>3. /\ pub'[p].topic = pub[p].topic /\ pub'[p].arr = pub[p].arr
          /\ pub'[p].len = pub[p].len /\ pub'[p].ch = x
      BY <1>1, <3>1 DEF Local
    <3> QED
      BY <1>1, <3>1, <3>2, <3>3 DEF OnTopic, Owned, MadeFor
  <2>2. CASE PublishSend(p) \/ PublishSkip(p)
    <3>1. Advance(p) /\ pub[p].at = "sending"
      BY <2>2 DEF PublishSend, PublishSkip
    <3>2. /\ pub'[p].at = "ranging" /\ pub'[p].topic = pub[p].topic
          /\ pub'[p].arr = pub[p].arr /\ pub'[p].len = pub[p].len
      BY <1>1, <3>1 DEF Advance, Local
    <3> QED
      BY <1>1, <3>1, <3>2 DEF OnTopic, Owned, MadeFor
  <2>3. CASE PublishPanic(p)
    BY <1>1, <2>3 DEF PublishPanic, OnTopic, Owned, MadeFor
  <2>4. CASE PublishCtxReturn(p) \/ PublishDone(p)
    BY <1>1, <2>4 DEF PublishCtxReturn, PublishDone, OnTopic, Idle
  <2>5. ASSUME NEW t \in Topic, PublishSnapshot(p, t) PROVE OnTopic(p)'
    <3>1. /\ pub'[p].at = "ranging" /\ pub'[p].topic = t
          /\ pub'[p].arr = subs[t].arr /\ pub'[p].len = subs[t].len
      BY <1>1, <2>5 DEF PublishSnapshot, Idle
    <3>2. Owned(t, subs[t].arr, subs[t].len)
      BY DEF SlicesOwned
    <3> QED
      BY <1>1, <3>1, <3>2 DEF OnTopic, Owned, MadeFor
  <2> QED
    BY <2>1, <2>2, <2>3, <2>4, <2>5 DEF PublisherStep
<1> QED
  BY <1>1, <1>2, <1>3 DEF SlicesOwned, AllOnTopic, OnTopic, Owned, MadeFor

LEMMA OnTopicNext ==
  Inv /\ SlicesOwned /\ AllOnTopic /\ [Next]_vars => (SlicesOwned /\ AllOnTopic)'
<1> SUFFICES ASSUME Inv, SlicesOwned, AllOnTopic, [Next]_vars
             PROVE  (SlicesOwned /\ AllOnTopic)'
  OBVIOUS
<1>1. CASE \E t \in Topic, c \in Chan : Subscribe(t, c)
  BY <1>1, SubscribeOnTopic
<1>2. CASE \E t \in Topic : \E i \in 1..subs[t].len : UnsubscribeClose(t, i)
  BY <1>2, CloseOnTopic
<1>3. CASE ShiftLeft
  BY <1>3, ShiftLeftOnTopic
<1>4. CASE UnsubscribeCommit
  BY <1>4, CommitOnTopic
<1>5. CASE \E p \in Publisher : PublisherStep(p) \/ \E t \in Topic : PublishSnapshot(p, t)
  BY <1>5, PublisherOnTopic
<1>6. CASE (\E p \in Publisher : CancelCtx(p)) \/ (\E c \in Chan : Receive(c)) \/ UNCHANGED vars
  <2>1. UNCHANGED <<subs, arrays, topicOf, pub>>
    BY <1>6 DEF CancelCtx, Receive, vars
  <2> QED
    BY <2>1, OwnedUnchanged
<1> QED
  BY <1>1, <1>2, <1>3, <1>4, <1>5, <1>6 DEF Next

-----------------------------------------------------------------------------
(* The mapping.                                                            *)

(* What is registered is what is subscribed.                               *)
Registered == [t \in Topic |-> Live(t)]

LEMMA RegisteredIs == Inv => Registered = [t \in Topic |-> Subscribed(t)]
  BY DEF Inv, RegistryExact, Registered

LEMMA InitMaps == Init => Contract!Init
<1> SUFFICES ASSUME Init PROVE Contract!Init
  OBVIOUS
<1>1. Registered = [t \in Topic |-> Subscribed(t)]
  BY InvInit, RegisteredIs
<1>2. \A t \in Topic : Subscribed(t) = {}
  BY PubSubAssumption DEF Init, Subscribed
<1> QED
  BY <1>1, <1>2 DEF Init, Contract!Init, Registered

(* A step that neither makes nor closes a channel registers nothing.       *)
LEMMA RegisteredUnchanged ==
  ASSUME Inv, Inv', UNCHANGED <<topicOf, closed>>
  PROVE  Registered' = Registered
<1>1. \A t \in Topic : Subscribed(t)' = Subscribed(t)
  BY DEF Subscribed
<1>2. Registered' = [t \in Topic |-> Subscribed(t)']
  BY DEF Inv, RegistryExact, Registered
<1> QED
  BY <1>1, <1>2, RegisteredIs

LEMMA StepMaps ==
  ASSUME Inv, Inv', AllOnTopic, [Next]_vars
  PROVE  [Contract!Next]_(Contract!vars)
<1>1. Registered' = [t \in Topic |-> Subscribed(t)']
  BY DEF Inv, RegistryExact, Registered
<1>2. Registered = [t \in Topic |-> Subscribed(t)]
  BY RegisteredIs
<1>3. ASSUME NEW t \in Topic, NEW c \in Chan, Subscribe(t, c) PROVE Contract!Next
  <2>1. /\ topicOf[c] = NoTopic /\ topicOf' = [topicOf EXCEPT ![c] = t]
        /\ UNCHANGED <<closed, buf>>
        /\ topicOf \in [Chan -> Topic \cup {NoTopic}]
    BY <1>3 DEF Subscribe, Inv, TypeOK
  <2>2. c \notin closed
    BY <2>1, PubSubAssumption DEF Inv, ClosedWereMade
  <2>3. \A u \in Topic : c \notin Registered[u]
    BY <1>2, <2>1, PubSubAssumption DEF Subscribed
  <2>4. \A u \in Topic : Subscribed(u)' = IF u = t THEN Subscribed(t) \cup {c} ELSE Subscribed(u)
    BY <2>1, <2>2, PubSubAssumption DEF Subscribed
  <2>5. Registered' = [Registered EXCEPT ![t] = @ \cup {c}]
    BY <1>1, <1>2, <2>4
  <2>6. Contract!Subscribe(t, c)
    BY <2>1, <2>2, <2>3, <2>5 DEF Contract!Subscribe, Registered
  <2> QED
    BY <2>6 DEF Contract!Next
<1>4. ASSUME NEW t \in Topic, NEW i \in 1..subs[t].len, UnsubscribeClose(t, i)
      PROVE  Contract!Next
  <2>1. /\ writer = NoWriter /\ closed' = closed \cup {Slot(t, i)}
        /\ UNCHANGED <<topicOf, buf>>
    BY <1>4 DEF UnsubscribeClose
  <2>2. PICK c \in Chan : c = Slot(t, i) /\ c \in Subscribed(t)
    <3>1. i \in Kept(t)
      BY <2>1, PubSubAssumption DEF Kept, NoWriter
    <3> QED
      BY <3>1, KeptIsSubscribed DEF Inv, Subscribed
  <2>3. \A u \in Topic : Subscribed(u)' = IF u = t THEN Subscribed(t) \ {c} ELSE Subscribed(u)
    BY <2>1, <2>2 DEF Subscribed
  <2>4. Registered' = [Registered EXCEPT ![t] = @ \ {c}]
    BY <1>1, <1>2, <2>3
  <2>5. c \in Registered[t]
    BY <1>2, <2>2
  <2>6. Contract!Unsubscribe(t, c)
    BY <2>1, <2>2, <2>4, <2>5 DEF Contract!Unsubscribe, Registered
  <2> QED
    BY <2>6 DEF Contract!Next
<1>5. ASSUME NEW p \in Publisher, PublishSend(p) PROVE Contract!Next
  <2> DEFINE m == [from |-> p, n |-> calls[p], topic |-> pub[p].topic]
  <2>1. /\ pub[p].at = "sending" /\ pub[p].ch \notin closed
        /\ Len(buf[pub[p].ch]) < BufferCap
        /\ buf' = [buf EXCEPT ![pub[p].ch] = Append(@, m)]
        /\ UNCHANGED <<topicOf, closed>>
    BY <1>5 DEF PublishSend
  <2>2. m \in Message /\ m.topic = pub[p].topic /\ pub[p].topic \in Topic
    BY <2>1 DEF Inv, AllBounded, Bounded, Message
  <2>3. pub[p].ch \in Subscribed(pub[p].topic)
    BY <2>1 DEF AllOnTopic, OnTopic, MadeFor, Subscribed
  <2>4. PICK c \in Chan : c = pub[p].ch
    BY <2>3 DEF Subscribed
  <2> HIDE DEF m
  <2>5. Registered' = Registered
    BY <2>1, RegisteredUnchanged
  <2>6. c \in Registered[m.topic]
    BY <1>2, <2>2, <2>3, <2>4
  <2>7. Contract!Deliver(c, m)
    BY <2>1, <2>4, <2>5, <2>6 DEF Contract!Deliver, Registered
  <2> QED
    BY <2>2, <2>7 DEF Contract!Next
<1>6. ASSUME NEW c \in Chan, Receive(c) PROVE Contract!Next
  <2>1. /\ buf[c] # <<>> /\ buf' = [buf EXCEPT ![c] = Tail(@)]
        /\ UNCHANGED <<topicOf, closed>>
    BY <1>6 DEF Receive
  <2>2. Registered' = Registered
    BY <2>1, RegisteredUnchanged
  <2>3. Contract!Receive(c)
    BY <2>1, <2>2 DEF Contract!Receive, Registered
  <2> QED
    BY <2>3 DEF Contract!Next
<1>7. CASE UNCHANGED <<topicOf, closed, buf>>
  <2>1. Registered' = Registered
    BY <1>7, RegisteredUnchanged
  <2> QED
    BY <1>7, <2>1 DEF Contract!vars, Registered
<1>8. \/ \E t \in Topic, c \in Chan : Subscribe(t, c)
      \/ \E t \in Topic : \E i \in 1..subs[t].len : UnsubscribeClose(t, i)
      \/ \E p \in Publisher : PublishSend(p)
      \/ \E c \in Chan : Receive(c)
      \/ UNCHANGED <<topicOf, closed, buf>>
  BY DEF Next, ShiftLeft, UnsubscribeCommit, PublishSnapshot, PublisherStep, PublishLoad,
         PublishPanic, PublishSkip, PublishCtxReturn, PublishDone, CancelCtx, vars
<1> QED
  BY <1>3, <1>4, <1>5, <1>6, <1>7, <1>8

(* The service implements its contract for every number of subscribers,    *)
(* publishers and messages: although its writers work slot by slot under   *)
(* the eyes of publishers, a channel is registered from its Subscribe to   *)
(* the close of its Unsubscribe, and a message only enters a channel       *)
(* registered for its topic at that instant.                               *)
THEOREM Implements == Spec => ImplementsContract
<1>1. Inv /\ SlicesOwned /\ AllOnTopic /\ [Next]_vars
        => (Inv /\ SlicesOwned /\ AllOnTopic)' /\ [Contract!Next]_(Contract!vars)
  BY InvNext, OnTopicNext, StepMaps
<1> QED
  BY <1>1, InvInit, OwnedInit, InitMaps, PTL DEF Spec, ImplementsContract, Contract!Spec
=============================================================================
