---------------------------- MODULE SimplePubSub ----------------------------
(***************************************************************************)
(* SimplePubSub (src/server/domain/simple_pubsub.go), the in-memory        *)
(* publish/subscribe service every endpoint and the room share.            *)
(*                                                                         *)
(* Subscribe and Unsubscribe hold the write lock; Publish holds the read   *)
(* lock only while it copies the slice header of the topic, then ranges    *)
(* over that header's array with no lock.  So the atomic steps here are:   *)
(* the whole of Subscribe; of Unsubscribe the close, each slot the         *)
(* in-place append shifts left, and the store of the new slice; of Publish *)
(* the header copy, each element load and each select.                     *)
(*                                                                         *)
(* A slice is (backing array, length).  arrays[t] are the backing arrays   *)
(* append has allocated for topic t, oldest first; subs[t] is the header   *)
(* stored in the map, array number 0 standing for an absent key.           *)
(***************************************************************************)
EXTENDS Naturals, Sequences

CONSTANTS Topic,      \* topics
          Chan,       \* the channels Subscribe may make, each made once
          Publisher,  \* goroutines that call Publish, one call at a time
          NoTopic,    \* "no topic", not in Topic
          NoChan,     \* an unused slot of a backing array, not in Chan
          BufferCap,  \* DefaultChannelBuffer
          MaxPublish  \* bound: calls of Publish per publisher

ASSUME PubSubAssumption == /\ NoTopic \notin Topic
                           /\ NoChan \notin Chan
                           /\ BufferCap \in Nat \ {0}
                           /\ MaxPublish \in Nat

VARIABLES subs,      \* subs[t] = [arr, len]: p.subscribers[t], arr 0: no key
          arrays,    \* arrays[t]: backing arrays of topic t; length = capacity
          topicOf,   \* topicOf[c]: the topic c was made for, NoTopic: not made
          closed,    \* channels that are closed
          buf,       \* buf[c]: what channel c holds
          writer,    \* [topic, hole]: the Unsubscribe that holds mu, or NoWriter
          pub,       \* pub[p]: where publisher p is in Publish
          calls,     \* calls[p]: how many times p has called Publish
          cancelled, \* publishers whose ctx is done
          panicked   \* a send hit a closed channel: the process is dead

vars == <<subs, arrays, topicOf, closed, buf, writer, pub, calls, cancelled, panicked>>

Message == [from : Publisher, n : 1..MaxPublish, topic : Topic]
Array   == Seq(Chan \cup {NoChan})
NoSlice == [arr |-> 0, len |-> 0]
NoWriter == [topic |-> NoTopic, hole |-> 0]

(* A publisher's locals: the copied header (arr, len), the range index     *)
(* next and the element ch it is about to send to.  The last three fields  *)
(* are history: the channels the header held when it was copied, those     *)
(* offered the message so far, and whether an Unsubscribe of the same      *)
(* topic has overlapped this call.                                         *)
Idle == [at |-> "idle", topic |-> NoTopic, arr |-> 0, len |-> 0, next |-> 1,
         ch |-> NoChan, snap |-> <<>>, offered |-> <<>>, disturbed |-> FALSE]

TypeOK ==
  /\ subs \in [Topic -> [arr : Nat, len : Nat]]
  /\ arrays \in [Topic -> Seq(Array)]
  /\ \A t \in Topic : \/ subs[t] = NoSlice
                      \/ /\ subs[t].arr \in 1..Len(arrays[t])
                         /\ subs[t].len \in 1..Len(arrays[t][subs[t].arr])
  /\ topicOf \in [Chan -> Topic \cup {NoTopic}]
  /\ closed \subseteq Chan
  /\ buf \in [Chan -> Seq(Message)]
  /\ \/ writer = NoWriter
     \/ /\ writer \in [topic : Topic, hole : Nat]
        /\ writer.hole \in 1..subs[writer.topic].len
  /\ pub \in [Publisher -> [at : {"idle", "ranging", "sending"},
                            topic : Topic \cup {NoTopic}, arr : Nat, len : Nat,
                            next : Nat, ch : Chan \cup {NoChan},
                            snap : Array, offered : Array, disturbed : BOOLEAN]]
  /\ calls \in [Publisher -> 0..MaxPublish]
  /\ cancelled \subseteq Publisher
  /\ panicked \in BOOLEAN

Slot(t, i) == arrays[t][subs[t].arr][i]

Init == /\ subs = [t \in Topic |-> NoSlice]
        /\ arrays = [t \in Topic |-> <<>>]
        /\ topicOf = [c \in Chan |-> NoTopic]
        /\ closed = {}
        /\ buf = [c \in Chan |-> <<>>]
        /\ writer = NoWriter
        /\ pub = [p \in Publisher |-> Idle]
        /\ calls = [p \in Publisher |-> 0]
        /\ cancelled = {}
        /\ panicked = FALSE

-----------------------------------------------------------------------------
(* Subscribe: make a channel and append it.                                *)

(* The capacity append gives a full slice of capacity n: 1, 2, 4, 8, ...   *)
NewCap(n) == IF n = 0 THEN 1 ELSE 2 * n

(* Mutant of AppendInPlace: off by one, the last subscriber is overwritten *)
AppendOverLast(t, c) ==
  /\ subs[t].arr # 0
  /\ subs[t].len < Len(arrays[t][subs[t].arr])
  /\ arrays' = [arrays EXCEPT ![t][subs[t].arr][subs[t].len] = c]
  /\ subs' = [subs EXCEPT ![t].len = @ + 1]

(* append into the spare capacity of the current array, which publishers   *)
(* ranging over an older header of it share                                *)
AppendInPlace(t, c) ==
  /\ subs[t].arr # 0
  /\ subs[t].len < Len(arrays[t][subs[t].arr])
  /\ arrays' = [arrays EXCEPT ![t][subs[t].arr][subs[t].len + 1] = c]
  /\ subs' = [subs EXCEPT ![t].len = @ + 1]

(* append to a nil or full slice: copy into a new array                    *)
AppendGrow(t, c) ==
  LET n == subs[t].len
      grown == [i \in 1..NewCap(n) |-> IF i <= n THEN Slot(t, i)
                                       ELSE IF i = n + 1 THEN c ELSE NoChan]
  IN  /\ subs[t].arr # 0 => n = Len(arrays[t][subs[t].arr])
      /\ arrays' = [arrays EXCEPT ![t] = Append(@, grown)]
      /\ subs' = [subs EXCEPT ![t] = [arr |-> Len(arrays[t]) + 1, len |-> n + 1]]

Subscribe(t, c) ==
  /\ ~panicked
  /\ writer = NoWriter
  /\ topicOf[c] = NoTopic
  /\ topicOf' = [topicOf EXCEPT ![c] = t]
  /\ AppendInPlace(t, c) \/ AppendGrow(t, c)
  /\ UNCHANGED <<closed, buf, writer, pub, calls, cancelled, panicked>>

-----------------------------------------------------------------------------
(* Unsubscribe: close, append(subs[:i], subs[i+1:]...), store.  A channel  *)
(* that is not in the slice leaves everything as it is.                    *)

(* history only: every Publish of topic t in progress is disturbed         *)
Disturb(t) == [p \in Publisher |-> IF pub[p].topic = t
                                   THEN [pub[p] EXCEPT !.disturbed = TRUE]
                                   ELSE pub[p]]

(* Mutant of UnsubscribeClose: the channel is removed but never closed     *)
RemoveWithoutClose(t, i) ==
  /\ ~panicked
  /\ writer = NoWriter
  /\ i \in 1..subs[t].len
  /\ writer' = [topic |-> t, hole |-> i]
  /\ pub' = Disturb(t)
  /\ UNCHANGED <<subs, arrays, topicOf, closed, buf, calls, cancelled, panicked>>

UnsubscribeClose(t, i) ==
  /\ ~panicked
  /\ writer = NoWriter
  /\ i \in 1..subs[t].len
  /\ closed' = closed \cup {Slot(t, i)}
  /\ writer' = [topic |-> t, hole |-> i]
  /\ pub' = Disturb(t)
  /\ UNCHANGED <<subs, arrays, topicOf, buf, calls, cancelled, panicked>>

ShiftLeft ==
  LET t == writer.topic
      h == writer.hole
  IN  /\ ~panicked
      /\ writer # NoWriter
      /\ h < subs[t].len
      /\ arrays' = [arrays EXCEPT ![t][subs[t].arr][h] = Slot(t, h + 1)]
      /\ writer' = [writer EXCEPT !.hole = @ + 1]
      /\ UNCHANGED <<subs, topicOf, closed, buf, pub, calls, cancelled, panicked>>

(* Mutant of UnsubscribeCommit: the topic is not deleted when it is empty  *)
CommitWithoutDelete ==
  LET t == writer.topic
  IN  /\ ~panicked
      /\ writer # NoWriter
      /\ writer.hole = subs[t].len
      /\ subs' = [subs EXCEPT ![t].len = @ - 1]
      /\ writer' = NoWriter
      /\ UNCHANGED <<arrays, topicOf, closed, buf, pub, calls, cancelled, panicked>>

(* Mutant of UnsubscribeCommit: the only subscriber is closed but stays in *)
CommitKeepsSole ==
  LET t == writer.topic
  IN  /\ ~panicked
      /\ writer # NoWriter
      /\ writer.hole = subs[t].len
      /\ subs' = [subs EXCEPT ![t].len = IF @ = 1 THEN 1 ELSE @ - 1]
      /\ writer' = NoWriter
      /\ UNCHANGED <<arrays, topicOf, closed, buf, pub, calls, cancelled, panicked>>

UnsubscribeCommit ==
  LET t == writer.topic
  IN  /\ ~panicked
      /\ writer # NoWriter
      /\ writer.hole = subs[t].len
      /\ subs' = [subs EXCEPT ![t] = IF @.len = 1 THEN NoSlice
                                     ELSE [arr |-> @.arr, len |-> @.len - 1]]
      /\ writer' = NoWriter
      /\ UNCHANGED <<arrays, topicOf, closed, buf, pub, calls, cancelled, panicked>>

-----------------------------------------------------------------------------
(* Publish                                                                 *)

PublishSnapshot(p, t) ==
  /\ ~panicked
  /\ writer = NoWriter
  /\ pub[p].at = "idle"
  /\ calls[p] < MaxPublish
  /\ calls' = [calls EXCEPT ![p] = @ + 1]
  /\ pub' = [pub EXCEPT ![p] =
               [Idle EXCEPT !.at = "ranging", !.topic = t,
                            !.arr = subs[t].arr, !.len = subs[t].len,
                            !.snap = [i \in 1..subs[t].len |-> Slot(t, i)]]]
  /\ UNCHANGED <<subs, arrays, topicOf, closed, buf, writer, cancelled, panicked>>

PublishLoad(p) ==
  /\ ~panicked
  /\ pub[p].at = "ranging"
  /\ pub[p].next <= pub[p].len
  /\ pub' = [pub EXCEPT ![p].at = "sending",
                        ![p].ch = arrays[pub[p].topic][pub[p].arr][pub[p].next]]
  /\ UNCHANGED <<subs, arrays, topicOf, closed, buf, writer, calls, cancelled, panicked>>

(* one iteration of the range is over                                      *)
Advance(p) == pub' = [pub EXCEPT ![p].at = "ranging", ![p].next = @ + 1,
                                 ![p].ch = NoChan,
                                 ![p].offered = Append(@, pub[p].ch)]

(* case ch <- msg, chosen when it is ready; also when ctx.Done() is too    *)
PublishSend(p) ==
  LET c == pub[p].ch
  IN  /\ ~panicked
      /\ pub[p].at = "sending"
      /\ c \notin closed
      /\ Len(buf[c]) < BufferCap
      /\ buf' = [buf EXCEPT ![c] = Append(@, [from |-> p, n |-> calls[p],
                                             topic |-> pub[p].topic])]
      /\ Advance(p)
      /\ UNCHANGED <<subs, arrays, topicOf, closed, writer, calls, cancelled, panicked>>

(* case ch <- msg on a closed channel: the runtime panics                  *)
PublishPanic(p) ==
  /\ ~panicked
  /\ pub[p].at = "sending"
  /\ pub[p].ch \in closed
  /\ panicked' = TRUE
  /\ UNCHANGED <<subs, arrays, topicOf, closed, buf, writer, pub, calls, cancelled>>

(* Mutant of PublishSkip: without the default case a full channel blocks   *)
BlocksWhenFull(p) == FALSE

(* default: the channel is full and ctx is not done                        *)
PublishSkip(p) ==
  /\ ~panicked
  /\ pub[p].at = "sending"
  /\ pub[p].ch \notin closed
  /\ Len(buf[pub[p].ch]) >= BufferCap
  /\ p \notin cancelled
  /\ Advance(p)
  /\ UNCHANGED <<subs, arrays, topicOf, closed, buf, writer, calls, cancelled, panicked>>

(* case <-ctx.Done()                                                       *)
PublishCtxReturn(p) ==
  /\ ~panicked
  /\ pub[p].at = "sending"
  /\ p \in cancelled
  /\ pub' = [pub EXCEPT ![p] = Idle]
  /\ UNCHANGED <<subs, arrays, topicOf, closed, buf, writer, calls, cancelled, panicked>>

(* Mutant of PublishDone: the range stops one element early                *)
DoneOneEarly(p) ==
  /\ ~panicked
  /\ pub[p].at = "ranging"
  /\ pub[p].next >= pub[p].len
  /\ pub' = [pub EXCEPT ![p] = Idle]
  /\ UNCHANGED <<subs, arrays, topicOf, closed, buf, writer, calls, cancelled, panicked>>

PublishDone(p) ==
  /\ ~panicked
  /\ pub[p].at = "ranging"
  /\ pub[p].next > pub[p].len
  /\ pub' = [pub EXCEPT ![p] = Idle]
  /\ UNCHANGED <<subs, arrays, topicOf, closed, buf, writer, calls, cancelled, panicked>>

-----------------------------------------------------------------------------
(* The callers: a publisher's context is cancelled, a subscriber receives. *)

CancelCtx(p) ==
  /\ ~panicked
  /\ p \notin cancelled
  /\ cancelled' = cancelled \cup {p}
  /\ UNCHANGED <<subs, arrays, topicOf, closed, buf, writer, pub, calls, panicked>>

Receive(c) ==
  /\ ~panicked
  /\ buf[c] # <<>>
  /\ buf' = [buf EXCEPT ![c] = Tail(@)]
  /\ UNCHANGED <<subs, arrays, topicOf, closed, writer, pub, calls, cancelled, panicked>>

PublisherStep(p) == \/ PublishLoad(p) \/ PublishSend(p) \/ PublishPanic(p)
                    \/ PublishSkip(p) \/ PublishCtxReturn(p) \/ PublishDone(p)

Next == \/ \E t \in Topic, c \in Chan : Subscribe(t, c)
        \/ \E t \in Topic : \E i \in 1..subs[t].len : UnsubscribeClose(t, i)
        \/ ShiftLeft
        \/ UnsubscribeCommit
        \/ \E p \in Publisher, t \in Topic : PublishSnapshot(p, t)
        \/ \E p \in Publisher : PublisherStep(p) \/ CancelCtx(p)
        \/ \E c \in Chan : Receive(c)

Spec == Init /\ [][Next]_vars

(* A runnable goroutine runs.  Nothing is assumed of subscribers (they may *)
(* never receive) nor of the holders of the lock.                          *)
FairSpec == Spec /\ \A p \in Publisher : WF_vars(PublisherStep(p))

-----------------------------------------------------------------------------
(* Properties                                                              *)

(* The channels subscribed to t, by the calls that were made.              *)
Subscribed(t) == {c \in Chan : topicOf[c] = t /\ c \notin closed}

(* The slots of t's slice that count: all of them, but for the one an      *)
(* Unsubscribe in progress is overwriting.                                 *)
Kept(t) == {i \in 1..subs[t].len : ~(writer.topic = t /\ writer.hole = i)}

Live(t) == {Slot(t, i) : i \in Kept(t)}

(* The slice of a topic is exactly its open channels, each once, whatever  *)
(* calls preceded and however far an Unsubscribe has got: closing at i and *)
(* shifting left moves one hole to the end, loses no other subscriber and  *)
(* duplicates none (Subscribe, Unsubscribe).                               *)
RegistryExact ==
  \A t \in Topic : /\ Live(t) = Subscribed(t)
                   /\ \A i, j \in Kept(t) : Slot(t, i) = Slot(t, j) => i = j

(* A Publish that no Unsubscribe of its topic overlaps, and that its ctx   *)
(* does not cut short, has offered its message when it returns to exactly  *)
(* the channels subscribed when it began, once each and in order, although *)
(* concurrent Subscribes write into the array it ranges over.              *)
UndisturbedPublishExact ==
  [][\A p \in Publisher :
       pub[p].at = "ranging" /\ pub'[p].at = "idle" /\ ~pub[p].disturbed
         => pub[p].offered = pub[p].snap]_vars

(* The process dies in Publish only if an Unsubscribe of the same topic    *)
(* overlaps that very call: a channel closed before a Publish begins is    *)
(* never sent to.                                                          *)
PanicNeedsOverlap ==
  panicked => \E p \in Publisher : pub[p].at = "sending" /\ pub[p].disturbed

(* Publish never blocks: with no receiver ever receiving it still returns, *)
(* or the process is dead.                                                 *)
PublishReturns ==
  \A p \in Publisher : (pub[p].at # "idle") ~> (pub[p].at = "idle" \/ panicked)

(* The service implements its contract: what the slices hold is what is    *)
(* registered, and a message only enters a channel subscribed to its topic *)
(* at that instant.                                                        *)
Contract == INSTANCE PubSubContract WITH registered <- [t \in Topic |-> Live(t)]
ImplementsContract == Contract!Spec

(* pubsub.go:25 and simple_pubsub.go:60: a delivery that fails for one     *)
(* subscriber is ignored and the publish goes on.                          *)
PublishNeverPanics == ~panicked
=============================================================================
