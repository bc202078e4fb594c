--------------------------- MODULE PubSubContract ---------------------------
(***************************************************************************)
(* What the PubSub interface (src/server/domain/pubsub.go) promises the    *)
(* endpoints and the room, without slices, locks or loops: a channel is    *)
(* subscribed to one topic until it is unsubscribed, which removes and     *)
(* closes it in one indivisible step, and a message of a topic only ever   *)
(* enters a channel that is subscribed to that topic at that instant and   *)
(* that has room for it.  A message may be lost (best effort).             *)
(***************************************************************************)
EXTENDS Naturals, Sequences

CONSTANTS Topic,     \* topics
          Chan,      \* every channel Subscribe ever makes, each made once
          Message,   \* messages; m.topic is the topic m is published on
          BufferCap  \* DefaultChannelBuffer

VARIABLES registered, \* registered[t]: the channels subscribed to t
          closed,     \* the channels Unsubscribe has closed
          buf         \* buf[c]: messages c holds, oldest first

vars == <<registered, closed, buf>>

Init == /\ registered = [t \in Topic |-> {}]
        /\ closed = {}
        /\ buf = [c \in Chan |-> <<>>]

Subscribe(t, c) == /\ c \notin closed
                   /\ \A u \in Topic : c \notin registered[u]
                   /\ registered' = [registered EXCEPT ![t] = @ \cup {c}]
                   /\ UNCHANGED <<closed, buf>>

Unsubscribe(t, c) == /\ c \in registered[t]
                     /\ registered' = [registered EXCEPT ![t] = @ \ {c}]
                     /\ closed' = closed \cup {c}
                     /\ UNCHANGED buf

Deliver(c, m) == /\ c \in registered[m.topic]
                 /\ Len(buf[c]) < BufferCap
                 /\ buf' = [buf EXCEPT ![c] = Append(@, m)]
                 /\ UNCHANGED <<registered, closed>>

Receive(c) == /\ buf[c] # <<>>
              /\ buf' = [buf EXCEPT ![c] = Tail(@)]
              /\ UNCHANGED <<registered, closed>>

Next == \E c \in Chan : \/ \E t \in Topic : Subscribe(t, c) \/ Unsubscribe(t, c)
                        \/ \E m \in Message : Deliver(c, m)
                        \/ Receive(c)

Spec == Init /\ [][Next]_vars
=============================================================================
