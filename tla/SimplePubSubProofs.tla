------------------------- MODULE SimplePubSubProofs -------------------------
(***************************************************************************)
(* Proofs about SimplePubSub, for every number of topics, channels and     *)
(* publishers and every buffer capacity.                                   *)
(***************************************************************************)
EXTENDS SimplePubSub, SequenceTheorems, TLAPS

Value == Chan \cup {NoChan}

-----------------------------------------------------------------------------
(* Lemmas about the backing arrays.                                        *)

(* B is A with x in slot i of array k of topic t.                          *)
Written(A, B, t, k, i, x) ==
  /\ B \in [Topic -> Seq(Array)]
  /\ \A u \in Topic : Len(B[u]) = Len(A[u])
  /\ \A u \in Topic : \A m \in 1..Len(A[u]) : Len(B[u][m]) = Len(A[u][m])
  /\ B[t][k][i] = x
  /\ \A u \in Topic : \A m \in 1..Len(A[u]) : \A j \in 1..Len(A[u][m]) :
       u # t \/ m # k \/ j # i => B[u][m][j] = A[u][m][j]

(* B is A with one more array, g, of topic t.                              *)
Allocated(A, B, t, g) ==
  /\ B \in [Topic -> Seq(Array)]
  /\ Len(B[t]) = Len(A[t]) + 1
  /\ B[t][Len(A[t]) + 1] = g
  /\ \A m \in 1..Len(A[t]) : B[t][m] = A[t][m]
  /\ \A u \in Topic : u # t => B[u] = A[u]

(* Overwriting one slot of one array changes that slot only.               *)
LEMMA WriteSlot ==
  ASSUME NEW A \in [Topic -> Seq(Array)], NEW t \in Topic,
         NEW k \in 1..Len(A[t]), NEW i \in 1..Len(A[t][k]), NEW x \in Value,
         NEW B, B = [A EXCEPT ![t][k][i] = x]
  PROVE  Written(A, B, t, k, i, x)
<1> DEFINE a == [A[t][k] EXCEPT ![i] = x]
           s == [A[t] EXCEPT ![k] = a]
<1>1. A[t] \in Seq(Array) /\ A[t][k] \in Seq(Value)
  BY ElementOfSeq DEF Array, Value
<1>2. /\ a \in Seq(Value)
      /\ Len(a) = Len(A[t][k])
      /\ \A j \in 1..Len(A[t][k]) : a[j] = IF j = i THEN x ELSE A[t][k][j]
  BY <1>1, ExceptSeq
<1>3. /\ s \in Seq(Array)
      /\ Len(s) = Len(A[t])
      /\ \A m \in 1..Len(A[t]) : s[m] = IF m = k THEN a ELSE A[t][m]
  BY <1>1, <1>2, ExceptSeq DEF Array, Value
<1>4. B = [A EXCEPT ![t] = s]
  OBVIOUS
<1>5. B[t] = s /\ \A u \in Topic : u # t => B[u] = A[u]
  BY <1>4
<1>6. B \in [Topic -> Seq(Array)]
  BY <1>3, <1>4
<1> HIDE DEF a, s
<1>7. \A u \in Topic : Len(B[u]) = Len(A[u])
  BY <1>3, <1>5
<1>8. ASSUME NEW u \in Topic, NEW m \in 1..Len(A[u])
      PROVE  Len(B[u][m]) = Len(A[u][m])
  BY <1>2, <1>3, <1>5
<1>9. B[t][k][i] = x
  BY <1>2, <1>3, <1>5
<1>10. ASSUME NEW u \in Topic, NEW m \in 1..Len(A[u]), NEW j \in 1..Len(A[u][m]),
              u # t \/ m # k \/ j # i
       PROVE  B[u][m][j] = A[u][m][j]
  BY <1>2, <1>3, <1>5, <1>10
<1>11. QED BY <1>6, <1>7, <1>8, <1>9, <1>10 DEF Written

(* Allocating an array leaves the older ones as they are.                  *)
LEMMA AllocateArray ==
  ASSUME NEW A \in [Topic -> Seq(Array)], NEW t \in Topic, NEW g \in Array,
         NEW B, B = [A EXCEPT ![t] = Append(@, g)]
  PROVE  Allocated(A, B, t, g)
<1>1. A[t] \in Seq(Array)
  OBVIOUS
<1>2. /\ Append(A[t], g) \in Seq(Array)
      /\ Len(Append(A[t], g)) = Len(A[t]) + 1
      /\ \A m \in 1..Len(A[t]) : Append(A[t], g)[m] = A[t][m]
      /\ Append(A[t], g)[Len(A[t]) + 1] = g
  BY <1>1, AppendProperties
<1>3. B[t] = Append(A[t], g) /\ \A u \in Topic : u # t => B[u] = A[u]
  OBVIOUS
<1>4. B \in [Topic -> Seq(Array)]
  BY <1>2
<1>5. QED BY <1>2, <1>3, <1>4 DEF Allocated


(* Array m of topic u survives a Subscribe of c to t, unchanged but for c  *)
(* beyond the length of t's slice when it is the array t is using.         *)
Survives(t, c, u, m) ==
  /\ m \in 1..Len(arrays'[u])
  /\ Len(arrays'[u][m]) = Len(arrays[u][m])
  /\ \A j \in 1..Len(arrays[u][m]) :
       \/ arrays'[u][m][j] = arrays[u][m][j]
       \/ u = t /\ m = subs[t].arr /\ j > subs[t].len /\ arrays'[u][m][j] = c

(* t's slice keeps its elements and gains c.                               *)
GainsLast(t, c) ==
  /\ subs'[t].len = subs[t].len + 1
  /\ subs'[t].arr \in 1..Len(arrays'[t])
  /\ subs'[t].len \in 1..Len(arrays'[t][subs'[t].arr])
  /\ subs'[t].arr = subs[t].arr \/ subs'[t].arr > Len(arrays[t])
  /\ \A i \in 1..subs[t].len : Slot(t, i)' = Slot(t, i)
  /\ Slot(t, subs[t].len)' = c

(* What Subscribe does to the slices.                                      *)
Appended(t, c) ==
  /\ arrays' \in [Topic -> Seq(Array)]
  /\ subs' \in [Topic -> [arr : Nat, len : Nat]]
  /\ GainsLast(t, c)
  /\ \A u \in Topic : u # t => subs'[u] = subs[u] /\ arrays'[u] = arrays[u]
  /\ \A u \in Topic : \A m \in 1..Len(arrays[u]) : Survives(t, c, u, m)

(* Both forms of append have that effect.                                  *)
LEMMA SubscribeEffect ==
  ASSUME TypeOK, NEW t \in Topic, NEW c \in Chan,
         AppendInPlace(t, c) \/ AppendGrow(t, c)
  PROVE  Appended(t, c)
<1> DEFINE n == subs[t].len
           k == subs[t].arr
<1>1. /\ arrays \in [Topic -> Seq(Array)]
      /\ subs \in [Topic -> [arr : Nat, len : Nat]]
      /\ n \in Nat /\ k \in Nat
      /\ k = 0 => n = 0
      /\ k # 0 => k \in 1..Len(arrays[t]) /\ n \in 1..Len(arrays[t][k])
      /\ Len(arrays[t]) \in Nat
  <2>1. /\ arrays \in [Topic -> Seq(Array)]
        /\ subs \in [Topic -> [arr : Nat, len : Nat]]
        /\ \/ subs[t] = NoSlice
           \/ k \in 1..Len(arrays[t]) /\ n \in 1..Len(arrays[t][k])
    BY DEF TypeOK
  <2>2. arrays[t] \in Seq(Array) /\ Len(arrays[t]) \in Nat
    BY <2>1, LenProperties
  <2>3. QED BY <2>1, <2>2 DEF NoSlice
<1>2. \A u \in Topic : /\ arrays[u] \in Seq(Array)
                       /\ Len(arrays[u]) \in Nat
                       /\ \A m \in 1..Len(arrays[u]) : /\ arrays[u][m] \in Array
                                                       /\ Len(arrays[u][m]) \in Nat
  BY <1>1, LenProperties, ElementOfSeq DEF Array
<1>3. CASE AppendInPlace(t, c)
  <2>1. /\ k # 0 /\ n < Len(arrays[t][k])
        /\ arrays' = [arrays EXCEPT ![t][k][n + 1] = c]
        /\ subs' = [subs EXCEPT ![t].len = @ + 1]
    BY <1>3 DEF AppendInPlace
  <2>2. /\ k \in 1..Len(arrays[t]) /\ Len(arrays[t][k]) \in Nat
        /\ n + 1 \in 1..Len(arrays[t][k]) /\ c \in Value
    BY <1>1, <1>2, <2>1 DEF Value
  <2>3. /\ arrays' \in [Topic -> Seq(Array)]
        /\ \A u \in Topic : Len(arrays'[u]) = Len(arrays[u])
        /\ \A u \in Topic : \A m \in 1..Len(arrays[u]) :
             Len(arrays'[u][m]) = Len(arrays[u][m])
        /\ arrays'[t][k][n + 1] = c
        /\ \A u \in Topic : \A m \in 1..Len(arrays[u]) : \A j \in 1..Len(arrays[u][m]) :
             u # t \/ m # k \/ j # n + 1 => arrays'[u][m][j] = arrays[u][m][j]
    <3> HIDE DEF n, k
    <3>1. Written(arrays, arrays', t, k, n + 1, c)
      BY <1>1, <2>1, <2>2, WriteSlot
    <3>2. QED BY <3>1 DEF Written
  <2>4. /\ subs' \in [Topic -> [arr : Nat, len : Nat]]
        /\ subs'[t].len = n + 1 /\ subs'[t].arr = k
        /\ \A u \in Topic : u # t => subs'[u] = subs[u]
    BY <1>1, <2>1
  <2>5. \A u \in Topic : u # t => arrays'[u] = arrays[u]
    BY <1>1, <2>1
  <2>6. ASSUME NEW u \in Topic, NEW m \in 1..Len(arrays[u])
        PROVE  /\ m \in 1..Len(arrays'[u])
               /\ Len(arrays'[u][m]) = Len(arrays[u][m])
               /\ \A j \in 1..Len(arrays[u][m]) :
                    \/ arrays'[u][m][j] = arrays[u][m][j]
                    \/ u = t /\ m = k /\ j > n /\ arrays'[u][m][j] = c
    <3> HIDE DEF n, k
    <3>1. n \in Nat /\ n + 1 > n
      BY <1>1
    <3>2. QED BY <2>3, <3>1
  <2>7. \A i \in 1..n : arrays'[t][k][i] = arrays[t][k][i]
    <3> HIDE DEF n, k
    <3>1. n \in Nat /\ \A i \in 1..n : i \in 1..Len(arrays[t][k]) /\ i # n + 1
      BY <1>1, <2>2
    <3>2. QED BY <2>2, <2>3, <3>1
  <2>8. k \in 1..Len(arrays'[t]) /\ n + 1 \in 1..Len(arrays'[t][k])
    <3> HIDE DEF n, k
    <3>1. QED BY <1>1, <1>2, <2>2, <2>3
  <2>9. GainsLast(t, c)
    <3>1. \A i \in 1..n : Slot(t, i)' = Slot(t, i)
      BY <2>4, <2>7 DEF Slot
    <3>2. Slot(t, subs[t].len)' = c
      BY <2>3, <2>4 DEF Slot
    <3>3. QED BY <2>4, <2>8, <3>1, <3>2 DEF GainsLast
  <2>10. \A u \in Topic : \A m \in 1..Len(arrays[u]) : Survives(t, c, u, m)
    BY <2>6 DEF Survives
  <2>11. QED BY <2>3, <2>4, <2>5, <2>9, <2>10 DEF Appended
<1>4. CASE AppendGrow(t, c)
  <2> DEFINE g == [i \in 1..NewCap(n) |-> IF i <= n THEN Slot(t, i)
                                          ELSE IF i = n + 1 THEN c ELSE NoChan]
  <2>1. /\ k # 0 => n = Len(arrays[t][k])
        /\ arrays' = [arrays EXCEPT ![t] = Append(@, g)]
        /\ subs' = [subs EXCEPT ![t] = [arr |-> Len(arrays[t]) + 1, len |-> n + 1]]
    BY <1>4 DEF AppendGrow
  <2>2. NewCap(n) \in Nat /\ n + 1 \in 1..NewCap(n)
    BY <1>1 DEF NewCap
  <2>3. \A i \in 1..n : Slot(t, i) \in Value
    BY <1>1, <1>2, ElementOfSeq DEF Slot, Array, Value
  <2>4. g \in Array /\ Len(g) = NewCap(n)
    <3>1. \A i \in 1..NewCap(n) : g[i] \in Value
      BY <1>1, <2>2, <2>3 DEF Value
    <3>2. g \in [1..NewCap(n) -> Value]
      BY <3>1
    <3>3. QED BY <2>2, <3>2 DEF Array, Value
  <2>5. \A i \in 1..n : g[i] = Slot(t, i)
    BY <1>1, <2>2
  <2>6. g[n + 1] = c
    BY <1>1, <2>2
  <2>7. /\ arrays' \in [Topic -> Seq(Array)]
        /\ Len(arrays'[t]) = Len(arrays[t]) + 1
        /\ arrays'[t][Len(arrays[t]) + 1] = g
        /\ \A m \in 1..Len(arrays[t]) : arrays'[t][m] = arrays[t][m]
        /\ \A u \in Topic : u # t => arrays'[u] = arrays[u]
    <3> HIDE DEF g, n, k
    <3>1. arrays \in [Topic -> Seq(Array)] /\ g \in Array
      BY <1>1, <2>4
    <3>2. arrays' = [arrays EXCEPT ![t] = Append(@, g)]
      BY <2>1
    <3>3. Allocated(arrays, arrays', t, g)
      BY <3>1, <3>2, AllocateArray
    <3>4. QED BY <3>3 DEF Allocated
  <2>8. /\ subs' \in [Topic -> [arr : Nat, len : Nat]]
        /\ subs'[t].len = n + 1 /\ subs'[t].arr = Len(arrays[t]) + 1
        /\ \A u \in Topic : u # t => subs'[u] = subs[u]
    <3> HIDE DEF g
    <3>1. QED BY <1>1, <2>1
  <2>9. \A u \in Topic : \A m \in 1..Len(arrays[u]) :
              /\ m \in 1..Len(arrays'[u])
              /\ Len(arrays'[u][m]) = Len(arrays[u][m])
              /\ \A j \in 1..Len(arrays[u][m]) : arrays'[u][m][j] = arrays[u][m][j]
    <3> HIDE DEF g, n, k
    <3>1. ASSUME NEW u \in Topic, NEW m \in 1..Len(arrays[u])
          PROVE  m \in 1..Len(arrays'[u]) /\ arrays'[u][m] = arrays[u][m]
      <4>1. Len(arrays[t]) \in Nat
        BY <1>2
      <4>2. CASE u = t
        BY <4>1, <4>2, <2>7
      <4>3. CASE u # t
        BY <4>3, <2>7
      <4>4. QED BY <4>2, <4>3
    <3>2. QED BY <3>1
  <2>10. QED
    <3> HIDE DEF g, n, k
    <3>1. subs'[t].arr \in 1..Len(arrays'[t]) /\ subs'[t].arr > Len(arrays[t])
      BY <1>1, <2>7, <2>8
    <3>2. subs'[t].len \in 1..Len(arrays'[t][subs'[t].arr])
      BY <2>2, <2>4, <2>7, <2>8
    <3>3. GainsLast(t, c)
      <4>1. \A i \in 1..n : Slot(t, i)' = Slot(t, i)
        BY <2>5, <2>7, <2>8 DEF Slot
      <4>2. Slot(t, subs[t].len)' = c
        BY <2>6, <2>7, <2>8 DEF Slot
      <4>3. QED BY <2>8, <3>1, <3>2, <4>1, <4>2 DEF GainsLast, n
    <3>4. \A u \in Topic : \A m \in 1..Len(arrays[u]) : Survives(t, c, u, m)
      BY <2>9 DEF Survives
    <3>5. QED BY <2>7, <2>8, <3>3, <3>4 DEF Appended
<1>5. QED BY <1>3, <1>4

-----------------------------------------------------------------------------
(* The inductive invariant.                                                *)

(* A publisher ranges over an array that exists, within its bounds.        *)
Bounded(p) ==
  pub[p].at # "idle" =>
    /\ pub[p].topic \in Topic
    /\ calls[p] \in 1..MaxPublish
    /\ pub[p].next \in 1..(pub[p].len + 1)
    /\ pub[p].at = "sending" => pub[p].next <= pub[p].len
    /\ pub[p].len > 0 => /\ pub[p].arr \in 1..Len(arrays[pub[p].topic])
                         /\ pub[p].len <= Len(arrays[pub[p].topic][pub[p].arr])

AllBounded == \A p \in Publisher : Bounded(p)

(* Only channels that were made are closed.                                *)
ClosedWereMade == \A c \in closed : topicOf[c] \in Topic

Inv == TypeOK /\ AllBounded /\ ClosedWereMade /\ RegistryExact

(* The initial state satisfies the invariant.                              *)
LEMMA InvInit == Init => Inv
<1> SUFFICES ASSUME Init PROVE Inv
  OBVIOUS
<1> USE DEF Init
<1>1. TypeOK
  <2>1. <<>> \in Seq(Array) /\ <<>> \in Seq(Message) /\ <<>> \in Array
    BY EmptySeq DEF Array
  <2>2. \A p \in Publisher :
          pub[p] \in [at : {"idle", "ranging", "sending"},
                      topic : Topic \cup {NoTopic}, arr : Nat, len : Nat,
                      next : Nat, ch : Chan \cup {NoChan},
                      snap : Array, offered : Array, disturbed : BOOLEAN]
    BY <2>1 DEF Idle
  <2>3. pub \in [Publisher -> [at : {"idle", "ranging", "sending"},
                               topic : Topic \cup {NoTopic}, arr : Nat, len : Nat,
                               next : Nat, ch : Chan \cup {NoChan},
                               snap : Array, offered : Array, disturbed : BOOLEAN]]
    <3>1. pub = [p \in Publisher |-> pub[p]]
      OBVIOUS
    <3>2. QED BY <3>1, <2>2
  <2>4. /\ arrays \in [Topic -> Seq(Array)]
        /\ buf \in [Chan -> Seq(Message)]
    BY <2>1
  <2>5. /\ subs \in [Topic -> [arr : Nat, len : Nat]]
        /\ \A t \in Topic : subs[t] = NoSlice
    BY DEF NoSlice
  <2>6. calls \in [Publisher -> 0..MaxPublish]
    BY PubSubAssumption
  <2>7. QED BY <2>3, <2>4, <2>5, <2>6 DEF TypeOK
<1>2. AllBounded
  BY DEF AllBounded, Bounded, Idle
<1>3. ClosedWereMade
  BY DEF ClosedWereMade
<1>4. RegistryExact
  <2>1. \A t \in Topic : Kept(t) = {}
    <3>1. \A t \in Topic : subs[t].len = 0
      BY DEF NoSlice
    <3>2. 1..0 = {}
      OBVIOUS
    <3>3. QED BY <3>1, <3>2 DEF Kept
  <2>2. \A t \in Topic : Subscribed(t) = {}
    BY PubSubAssumption DEF Subscribed
  <2>3. QED BY <2>1, <2>2 DEF RegistryExact, Live
<1>5. QED BY <1>1, <1>2, <1>3, <1>4 DEF Inv

(* A step that leaves the slices, their arrays, the channels made and      *)
(* closed and the writer alone leaves the registry exact.                  *)
LEMMA RegistryUntouched ==
  ASSUME RegistryExact, UNCHANGED <<subs, arrays, topicOf, closed, writer>>
  PROVE  RegistryExact'
BY DEF RegistryExact, Live, Kept, Subscribed, Slot

(* Every topic's kept slots hold channels of that topic that are open.     *)
LEMMA KeptIsSubscribed ==
  ASSUME RegistryExact, NEW t \in Topic, NEW i \in Kept(t)
  PROVE  Slot(t, i) \in Subscribed(t)
BY DEF RegistryExact, Live


(* The typing of each publisher, as TypeOK has it.                         *)
Local == [at : {"idle", "ranging", "sending"}, topic : Topic \cup {NoTopic},
          arr : Nat, len : Nat, next : Nat, ch : Chan \cup {NoChan},
          snap : Array, offered : Array, disturbed : BOOLEAN]

(* Subscribe preserves the invariant.                                      *)
LEMMA InvSubscribe ==
  ASSUME Inv, NEW t \in Topic, NEW c \in Chan, Subscribe(t, c)
  PROVE  Inv'
<1>1. /\ TypeOK /\ AllBounded /\ ClosedWereMade /\ RegistryExact
      /\ writer = NoWriter /\ topicOf[c] = NoTopic
      /\ topicOf' = [topicOf EXCEPT ![c] = t]
      /\ UNCHANGED <<closed, buf, writer, pub, calls, cancelled, panicked>>
  BY DEF Inv, Subscribe
<1>2. Appended(t, c)
  BY <1>1, SubscribeEffect DEF Subscribe
<1>3. TypeOK'
  <2>1. topicOf' \in [Chan -> Topic \cup {NoTopic}]
    BY <1>1 DEF TypeOK
  <2>2. \A u \in Topic : \/ subs'[u] = NoSlice
                         \/ /\ subs'[u].arr \in 1..Len(arrays'[u])
                            /\ subs'[u].len \in 1..Len(arrays'[u][subs'[u].arr])
    BY <1>1, <1>2 DEF TypeOK, Appended, GainsLast
  <2>3. QED BY <1>1, <1>2, <2>1, <2>2 DEF TypeOK, Appended, NoWriter
<1>4. AllBounded'
  <2> SUFFICES ASSUME NEW p \in Publisher PROVE Bounded(p)'
    BY DEF AllBounded
  <2>1. Bounded(p) /\ pub' = pub /\ calls' = calls
    BY <1>1 DEF AllBounded
  <2>2. ASSUME NEW u \in Topic, NEW m \in 1..Len(arrays[u])
        PROVE  m \in 1..Len(arrays'[u]) /\ Len(arrays'[u][m]) = Len(arrays[u][m])
    <3>1. Survives(t, c, u, m)
      BY <1>2 DEF Appended
    <3>2. QED BY <3>1 DEF Survives
  <2>3. QED BY <2>1, <2>2 DEF Bounded
<1>5. ClosedWereMade'
  BY <1>1 DEF ClosedWereMade, TypeOK
<1>6. RegistryExact'
  <2>1. \A u \in Topic : Kept(u) = 1..subs[u].len /\ Kept(u)' = 1..subs'[u].len
    BY <1>1, PubSubAssumption DEF Kept, NoWriter
  <2>2. c \notin closed
    BY <1>1, PubSubAssumption DEF ClosedWereMade
  <2>3. ASSUME NEW u \in Topic, u # t
        PROVE  /\ Live(u)' = Subscribed(u)'
               /\ \A i, j \in Kept(u)' : Slot(u, i)' = Slot(u, j)' => i = j
    <3>1. subs'[u] = subs[u] /\ arrays'[u] = arrays[u]
      BY <1>2, <2>3 DEF Appended
    <3>2. Subscribed(u)' = Subscribed(u)
      BY <1>1, <2>3, PubSubAssumption DEF Subscribed, TypeOK
    <3>3. Kept(u)' = Kept(u) /\ \A i \in Kept(u) : Slot(u, i)' = Slot(u, i)
      BY <2>1, <3>1 DEF Slot
    <3>4. Live(u) = Subscribed(u) /\ \A i, j \in Kept(u) : Slot(u, i) = Slot(u, j) => i = j
      BY <1>1 DEF RegistryExact
    <3>5. Live(u)' = Live(u)
      BY <3>3 DEF Live
    <3>6. QED BY <3>2, <3>3, <3>4, <3>5
  <2>4. /\ Live(t)' = Subscribed(t)'
        /\ \A i, j \in Kept(t)' : Slot(t, i)' = Slot(t, j)' => i = j
    <3>0. GainsLast(t, c)
      BY <1>2 DEF Appended
    <3>1. PICK n \in Nat : subs[t].len = n /\ subs'[t].len = n + 1
      BY <1>1, <3>0 DEF TypeOK, GainsLast
    <3>2. Kept(t) = 1..n /\ Kept(t)' = 1..(n + 1)
      BY <2>1, <3>1
    <3>3. Slot(t, n + 1)' = c /\ \A i \in 1..n : Slot(t, i)' = Slot(t, i)
      <4>1. Slot(t, subs[t].len)' = Slot(t, n + 1)'
        BY <3>1 DEF Slot
      <4>2. QED BY <3>0, <3>1, <4>1 DEF GainsLast
    <3>4. c \notin Subscribed(t) /\ Subscribed(t)' = Subscribed(t) \cup {c}
      BY <1>1, <2>2, PubSubAssumption DEF Subscribed, TypeOK
    <3>5. /\ Live(t) = Subscribed(t)
          /\ \A i, j \in 1..n : Slot(t, i) = Slot(t, j) => i = j
      BY <1>1, <3>2 DEF RegistryExact
    <3>6. \A i \in 1..n : Slot(t, i) # c
      BY <3>2, <3>4, <3>5 DEF Live
    <3>7. 1..(n + 1) = (1..n) \cup {n + 1}
      BY <3>1
    <3>8. Live(t)' = Live(t) \cup {c}
      <4>1. Live(t)' = {Slot(t, i)' : i \in (1..n) \cup {n + 1}}
        BY <3>2, <3>7 DEF Live
      <4>2. {Slot(t, i)' : i \in (1..n) \cup {n + 1}} = {Slot(t, i) : i \in 1..n} \cup {c}
        BY <3>3
      <4>3. QED BY <3>2, <4>1, <4>2 DEF Live
    <3>9. ASSUME NEW i \in 1..(n + 1), NEW j \in 1..(n + 1), Slot(t, i)' = Slot(t, j)'
          PROVE  i = j
      <4>1. i \in 1..n \/ i = n + 1
        BY <3>7
      <4>2. j \in 1..n \/ j = n + 1
        BY <3>7
      <4>3. QED BY <3>3, <3>5, <3>6, <3>9, <4>1, <4>2
    <3>10. QED BY <3>2, <3>4, <3>5, <3>8, <3>9
  <2>5. QED BY <2>3, <2>4 DEF RegistryExact
<1>7. QED BY <1>3, <1>4, <1>5, <1>6 DEF Inv

(* The close in Unsubscribe preserves it: slot i becomes the hole.         *)
LEMMA InvUnsubscribeClose ==
  ASSUME Inv, NEW t \in Topic, NEW i \in 1..subs[t].len, UnsubscribeClose(t, i)
  PROVE  Inv'
<1>1. /\ TypeOK /\ AllBounded /\ ClosedWereMade /\ RegistryExact
      /\ writer = NoWriter
      /\ closed' = closed \cup {Slot(t, i)}
      /\ writer' = [topic |-> t, hole |-> i]
      /\ pub' = Disturb(t)
      /\ UNCHANGED <<subs, arrays, topicOf, buf, calls, cancelled, panicked>>
  BY DEF Inv, UnsubscribeClose
<1>2. \A u \in Topic : Kept(u) = 1..subs[u].len
  BY <1>1, PubSubAssumption DEF Kept, NoWriter
<1>3. Slot(t, i) \in Subscribed(t)
  BY <1>1, <1>2, KeptIsSubscribed
<1>4. \A p \in Publisher :
        pub'[p] = IF pub[p].topic = t THEN [pub[p] EXCEPT !.disturbed = TRUE] ELSE pub[p]
  BY <1>1 DEF Disturb
<1>5. TypeOK'
  <2>1. \A p \in Publisher : pub[p] \in Local
    BY <1>1 DEF TypeOK, Local
  <2>2. pub' \in [Publisher -> Local]
    <3>1. \A x \in Local : [x EXCEPT !.disturbed = TRUE] \in Local
      BY DEF Local
    <3>2. pub' = Disturb(t)
      BY <1>1
    <3> QED
      BY ONLY <2>1, <3>1, <3>2 DEF Disturb
  <2>3. closed' \subseteq Chan
    BY <1>1, <1>3 DEF TypeOK, Subscribed
  <2>4. writer' \in [topic : Topic, hole : Nat] /\ writer'.hole \in 1..subs'[writer'.topic].len
    BY <1>1 DEF TypeOK
  <2>5. QED BY <1>1, <2>2, <2>3, <2>4 DEF TypeOK, Local
<1>6. AllBounded'
  <2> SUFFICES ASSUME NEW p \in Publisher PROVE Bounded(p)'
    BY DEF AllBounded
  <2>1. Bounded(p) /\ pub[p] \in Local
    BY <1>1 DEF AllBounded, TypeOK, Local
  <2>2. /\ pub'[p].at = pub[p].at /\ pub'[p].topic = pub[p].topic
        /\ pub'[p].next = pub[p].next /\ pub'[p].len = pub[p].len
        /\ pub'[p].arr = pub[p].arr
    BY <1>4, <2>1 DEF Local
  <2>3. QED BY <1>1, <2>1, <2>2 DEF Bounded
<1>7. ClosedWereMade'
  BY <1>1, <1>3 DEF ClosedWereMade, Subscribed
<1>8. RegistryExact'
  <2>1. \A u \in Topic : \A j : Slot(u, j)' = Slot(u, j)
    BY <1>1 DEF Slot
  <2>2. ASSUME NEW u \in Topic, u # t
        PROVE  Kept(u)' = Kept(u) /\ Subscribed(u)' = Subscribed(u)
    BY <1>1, <1>2, <1>3, <2>2 DEF Kept, Subscribed
  <2>3. Kept(t)' = Kept(t) \ {i} /\ Subscribed(t)' = Subscribed(t) \ {Slot(t, i)}
    BY <1>1, <1>2 DEF Kept, Subscribed
  <2>4. \A u \in Topic : Live(u)' = {Slot(u, j) : j \in Kept(u)'}
    BY <2>1 DEF Live
  <2>5. \A u \in Topic : Kept(u)' \subseteq Kept(u)
    BY <2>2, <2>3
  <2>6. ASSUME NEW u \in Topic
        PROVE  /\ Live(u)' = Subscribed(u)'
               /\ \A j, k \in Kept(u)' : Slot(u, j)' = Slot(u, k)' => j = k
    <3>1. /\ {Slot(u, j) : j \in Kept(u)} = Subscribed(u)
          /\ \A j, k \in Kept(u) : Slot(u, j) = Slot(u, k) => j = k
      BY <1>1 DEF RegistryExact, Live
    <3>2. CASE u # t
      <4>1. Kept(u)' = Kept(u) /\ Subscribed(u)' = Subscribed(u)
        BY <2>2, <3>2
      <4>2. Live(u)' = Subscribed(u)'
        BY <2>4, <3>1, <4>1
      <4>3. \A j, k \in Kept(u)' : Slot(u, j)' = Slot(u, k)' => j = k
        BY <2>1, <3>1, <4>1
      <4> QED
        BY <4>2, <4>3
    <3>3. CASE u = t
      <4>1. i \in Kept(t)
        BY <1>2
      <4>2. {Slot(t, j) : j \in Kept(t) \ {i}} = Subscribed(t) \ {Slot(t, i)}
        BY <3>1, <3>3, <4>1
      <4>3. QED BY <2>1, <2>3, <2>4, <3>1, <3>3, <4>2
    <3>4. QED BY <3>2, <3>3
  <2>7. QED BY <2>6 DEF RegistryExact
<1>9. QED BY <1>5, <1>6, <1>7, <1>8 DEF Inv

(* A shift preserves it: the hole moves one slot to the right and the      *)
(* values in the other slots stay the same.                                *)
LEMMA InvShiftLeft ==
  ASSUME Inv, ShiftLeft
  PROVE  Inv'
<1>1. /\ TypeOK /\ AllBounded /\ ClosedWereMade /\ RegistryExact
      /\ writer # NoWriter
      /\ UNCHANGED <<subs, topicOf, closed, buf, pub, calls, cancelled, panicked>>
  BY DEF Inv, ShiftLeft
<1>2. /\ writer \in [topic : Topic, hole : Nat]
      /\ writer.hole \in 1..subs[writer.topic].len
  BY <1>1 DEF TypeOK
<1>3. PICK t \in Topic, h \in Nat : writer = [topic |-> t, hole |-> h]
  BY <1>2
<1>4. PICK k \in Nat, n \in Nat : subs[t].arr = k /\ subs[t].len = n
  BY <1>1 DEF TypeOK
<1>5. /\ h \in 1..n /\ h < n
      /\ writer' = [topic |-> t, hole |-> h + 1]
      /\ arrays' = [arrays EXCEPT ![t][k][h] = arrays[t][k][h + 1]]
  BY <1>2, <1>3, <1>4 DEF ShiftLeft, Slot
<1>6. /\ arrays \in [Topic -> Seq(Array)]
      /\ k \in 1..Len(arrays[t]) /\ n \in 1..Len(arrays[t][k])
  <2>1. subs[t] # NoSlice
    BY <1>4, <1>5 DEF NoSlice
  <2>2. QED BY <1>1, <1>4, <2>1 DEF TypeOK
<1>7. /\ arrays[t][k] \in Array /\ Len(arrays[t][k]) \in Nat
      /\ h \in 1..Len(arrays[t][k]) /\ h + 1 \in 1..Len(arrays[t][k])
  <2>1. arrays[t] \in Seq(Array)
    BY <1>6
  <2>2. arrays[t][k] \in Array /\ Len(arrays[t][k]) \in Nat
    BY <1>6, <2>1, ElementOfSeq, LenProperties DEF Array
  <2>3. QED BY <1>5, <1>6, <2>2
<1>8. arrays[t][k][h + 1] \in Value
  BY <1>7, ElementOfSeq DEF Array, Value
<1>9. Written(arrays, arrays', t, k, h, arrays[t][k][h + 1])
  BY <1>5, <1>6, <1>7, <1>8, WriteSlot
<1>10. TypeOK'
  <2>1. arrays' \in [Topic -> Seq(Array)]
    BY <1>9 DEF Written
  <2>2. \A u \in Topic : \/ subs'[u] = NoSlice
                         \/ /\ subs'[u].arr \in 1..Len(arrays'[u])
                            /\ subs'[u].len \in 1..Len(arrays'[u][subs'[u].arr])
    BY <1>1, <1>9 DEF TypeOK, Written
  <2>3. writer' \in [topic : Topic, hole : Nat] /\ writer'.hole \in 1..subs'[writer'.topic].len
    BY <1>1, <1>4, <1>5
  <2>4. QED BY <1>1, <2>1, <2>2, <2>3 DEF TypeOK
<1>11. AllBounded'
  <2> SUFFICES ASSUME NEW p \in Publisher PROVE Bounded(p)'
    BY DEF AllBounded
  <2>1. Bounded(p) /\ pub' = pub /\ calls' = calls
    BY <1>1 DEF AllBounded
  <2>2. ASSUME NEW u \in Topic
        PROVE  /\ Len(arrays'[u]) = Len(arrays[u])
               /\ \A m \in 1..Len(arrays[u]) : Len(arrays'[u][m]) = Len(arrays[u][m])
    BY <1>9 DEF Written
  <2>3. QED BY <2>1, <2>2 DEF Bounded
<1>12. ClosedWereMade'
  BY <1>1 DEF ClosedWereMade
<1>13. RegistryExact'
  <2>1. ASSUME NEW u \in Topic, u # t
        PROVE  /\ Live(u)' = Subscribed(u)'
               /\ \A i, j \in Kept(u)' : Slot(u, i)' = Slot(u, j)' => i = j
    <3>1. arrays'[u] = arrays[u]
      BY <1>5, <1>6, <2>1
    <3>2. Kept(u)' = Kept(u) /\ Subscribed(u)' = Subscribed(u)
      BY <1>1, <1>3, <1>5, <2>1 DEF Kept, Subscribed
    <3>3. \A i : Slot(u, i)' = Slot(u, i)
      BY <1>1, <3>1 DEF Slot
    <3>4. Live(u) = Subscribed(u) /\ \A i, j \in Kept(u) : Slot(u, i) = Slot(u, j) => i = j
      BY <1>1 DEF RegistryExact
    <3>5. Live(u)' = Live(u)
      BY <3>2, <3>3 DEF Live
    <3>6. QED BY <3>2, <3>3, <3>4, <3>5
  <2>2. /\ Live(t)' = Subscribed(t)'
        /\ \A i, j \in Kept(t)' : Slot(t, i)' = Slot(t, j)' => i = j
    <3>1. Kept(t) = (1..n) \ {h}
      BY <1>3, <1>4 DEF Kept
    <3>2. Kept(t)' = (1..n) \ {h + 1}
      BY <1>1, <1>4, <1>5 DEF Kept
    <3>3. \A i \in 1..n : i # h => Slot(t, i)' = Slot(t, i)
      <4>1. ASSUME NEW i \in 1..n, i # h
            PROVE  arrays'[t][k][i] = arrays[t][k][i]
        <5>1. i \in 1..Len(arrays[t][k])
          BY <1>6, <1>7
        <5>2. QED BY <1>6, <1>9, <4>1, <5>1 DEF Written
      <4>2. QED BY <1>1, <1>4, <4>1 DEF Slot
    <3>4. Slot(t, h)' = Slot(t, h + 1)
      BY <1>1, <1>4, <1>9 DEF Slot, Written
    <3>5. /\ {Slot(t, i) : i \in Kept(t)} = Subscribed(t)
          /\ \A i, j \in Kept(t) : Slot(t, i) = Slot(t, j) => i = j
      BY <1>1 DEF RegistryExact, Live
    <3>6. Subscribed(t)' = Subscribed(t)
      BY <1>1 DEF Subscribed
    <3>7. \A i \in Kept(t)' : \E j \in Kept(t) : Slot(t, i)' = Slot(t, j)
      <4>1. h + 1 \in Kept(t)
        BY <1>5, <3>1
      <4>2. QED BY <3>1, <3>2, <3>3, <3>4, <4>1
    <3>8. \A j \in Kept(t) : \E i \in Kept(t)' : Slot(t, i)' = Slot(t, j)
      <4>1. h \in Kept(t)'
        BY <1>5, <3>2
      <4>2. QED BY <3>1, <3>2, <3>3, <3>4, <4>1
    <3>9. Live(t)' = {Slot(t, i)' : i \in Kept(t)'}
      BY DEF Live
    <3>10. ASSUME NEW i \in Kept(t)', NEW j \in Kept(t)', Slot(t, i)' = Slot(t, j)'
           PROVE  i = j
      <4>1. i \in 1..n /\ j \in 1..n /\ i # h + 1 /\ j # h + 1 /\ h + 1 \in Kept(t)
        BY <1>5, <3>1, <3>2
      <4>2. CASE i = h /\ j # h
        <5>1. j \in Kept(t) /\ Slot(t, j) = Slot(t, h + 1)
          BY <3>1, <3>3, <3>4, <3>10, <4>1, <4>2
        <5>2. QED BY <3>5, <4>1, <5>1
      <4>3. CASE i # h /\ j = h
        <5>1. i \in Kept(t) /\ Slot(t, i) = Slot(t, h + 1)
          BY <3>1, <3>3, <3>4, <3>10, <4>1, <4>3
        <5>2. QED BY <3>5, <4>1, <5>1
      <4>4. CASE i # h /\ j # h
        <5>1. i \in Kept(t) /\ j \in Kept(t) /\ Slot(t, i) = Slot(t, j)
          BY <3>1, <3>3, <3>10, <4>1, <4>4
        <5>2. QED BY <3>5, <5>1
      <4>5. QED BY <4>2, <4>3, <4>4
    <3>11. Live(t)' = Subscribed(t)
      BY <3>5, <3>7, <3>8, <3>9
    <3>12. QED BY <3>6, <3>10, <3>11
  <2>3. QED BY <2>1, <2>2 DEF RegistryExact
<1>14. QED BY <1>10, <1>11, <1>12, <1>13 DEF Inv

(* Storing the shorter slice preserves it: the hole is its last slot.      *)
LEMMA InvUnsubscribeCommit ==
  ASSUME Inv, UnsubscribeCommit
  PROVE  Inv'
<1>1. /\ TypeOK /\ AllBounded /\ ClosedWereMade /\ RegistryExact
      /\ writer # NoWriter
      /\ writer' = NoWriter
      /\ UNCHANGED <<arrays, topicOf, closed, buf, pub, calls, cancelled, panicked>>
  BY DEF Inv, UnsubscribeCommit
<1>2. /\ writer \in [topic : Topic, hole : Nat]
      /\ writer.hole \in 1..subs[writer.topic].len
  BY <1>1 DEF TypeOK
<1>3. PICK t \in Topic : writer.topic = t
  BY <1>2
<1>4. PICK n \in Nat : subs[t].len = n /\ writer.hole = n /\ n > 0
  <2>1. subs \in [Topic -> [arr : Nat, len : Nat]]
    BY <1>1 DEF TypeOK
  <2>2. subs[t].len \in Nat
    BY <2>1
  <2>3. writer.hole \in 1..subs[t].len
    BY <1>2, <1>3
  <2>4. writer.hole = subs[t].len
    BY <1>3 DEF UnsubscribeCommit
  <2>5. subs[t].len > 0
    BY <2>2, <2>3
  <2>6. QED BY <2>2, <2>4, <2>5
<1>5. /\ subs \in [Topic -> [arr : Nat, len : Nat]]
      /\ subs' = [subs EXCEPT ![t] = IF n = 1 THEN NoSlice
                                     ELSE [arr |-> subs[t].arr, len |-> n - 1]]
  <2>1. subs \in [Topic -> [arr : Nat, len : Nat]]
    BY <1>1 DEF TypeOK
  <2>2. QED BY <1>3, <1>4, <2>1 DEF UnsubscribeCommit
<1>6. /\ subs'[t].len = n - 1
      /\ n # 1 => subs'[t].arr = subs[t].arr
      /\ n = 1 => subs'[t] = NoSlice
      /\ \A u \in Topic : u # t => subs'[u] = subs[u]
  BY <1>4, <1>5 DEF NoSlice
<1>7. TypeOK'
  <2>1. subs' \in [Topic -> [arr : Nat, len : Nat]]
    BY <1>4, <1>5 DEF NoSlice
  <2>2. \A u \in Topic : Len(arrays[u]) \in Nat
                         /\ \A m \in 1..Len(arrays[u]) : Len(arrays[u][m]) \in Nat
    BY <1>1, LenProperties, ElementOfSeq DEF TypeOK, Array
  <2>3. ASSUME NEW u \in Topic
        PROVE  \/ subs'[u] = NoSlice
               \/ /\ subs'[u].arr \in 1..Len(arrays[u])
                  /\ subs'[u].len \in 1..Len(arrays[u][subs'[u].arr])
    <3>1. CASE u # t
      BY <1>1, <1>6, <3>1 DEF TypeOK
    <3>2. CASE u = t /\ n = 1
      BY <1>6, <3>2
    <3>3. CASE u = t /\ n # 1
      <4>1. subs[t] # NoSlice
        BY <1>4, <3>3 DEF NoSlice
      <4>2. subs[t].arr \in 1..Len(arrays[t]) /\ n \in 1..Len(arrays[t][subs[t].arr])
        BY <1>1, <1>4, <4>1 DEF TypeOK
      <4>3. QED BY <1>4, <1>6, <2>2, <3>3, <4>2
    <3>4. QED BY <3>1, <3>2, <3>3
  <2>4. QED BY <1>1, <2>1, <2>3 DEF TypeOK
<1>8. AllBounded'
  BY <1>1 DEF AllBounded, Bounded
<1>9. ClosedWereMade'
  BY <1>1 DEF ClosedWereMade
<1>10. RegistryExact'
  <2>1. \A u \in Topic : Kept(u)' = Kept(u)
    <3>1. ASSUME NEW u \in Topic, u # t
          PROVE  Kept(u)' = Kept(u)
      BY <1>1, <1>3, <1>6, <3>1, PubSubAssumption DEF Kept, NoWriter
    <3>2. Kept(t) = (1..n) \ {n}
      BY <1>3, <1>4 DEF Kept
    <3>3. Kept(t)' = 1..(n - 1)
      BY <1>1, <1>6, PubSubAssumption DEF Kept, NoWriter
    <3>4. (1..n) \ {n} = 1..(n - 1)
      BY <1>4
    <3>5. QED BY <3>1, <3>2, <3>3, <3>4
  <2>2. \A u \in Topic : \A i \in Kept(u) : Slot(u, i)' = Slot(u, i)
    <3>1. ASSUME NEW u \in Topic, NEW i \in Kept(u)
          PROVE  subs'[u].arr = subs[u].arr
      <4>1. u = t => n # 1
        BY <1>3, <1>4 DEF Kept
      <4>2. QED BY <1>6, <4>1
    <3>2. QED BY <1>1, <3>1 DEF Slot
  <2>3. \A u \in Topic : Subscribed(u)' = Subscribed(u)
    BY <1>1 DEF Subscribed
  <2>4. \A u \in Topic : Live(u)' = Live(u)
    BY <2>1, <2>2 DEF Live
  <2>5. QED BY <1>1, <2>1, <2>2, <2>3, <2>4 DEF RegistryExact
<1>11. QED BY <1>7, <1>8, <1>9, <1>10 DEF Inv

(* Steps that leave the slices alone preserve it: those that also leave    *)
(* the publishers alone, and those of one publisher that stays bounded.    *)
LEMMA InvElsewhere ==
  ASSUME Inv,
         UNCHANGED <<subs, arrays, topicOf, closed, writer, pub, calls>>,
         buf' \in [Chan -> Seq(Message)],
         cancelled' \subseteq Publisher, panicked' \in BOOLEAN
  PROVE  Inv'
<1>1. TypeOK'
  BY DEF Inv, TypeOK
<1>2. AllBounded'
  BY DEF Inv, AllBounded, Bounded
<1>3. ClosedWereMade'
  BY DEF Inv, ClosedWereMade
<1>4. RegistryExact'
  BY RegistryUntouched DEF Inv
<1>5. QED BY <1>1, <1>2, <1>3, <1>4 DEF Inv

LEMMA InvPublisher ==
  ASSUME Inv, NEW p \in Publisher, NEW l \in Local,
         pub' = [pub EXCEPT ![p] = l],
         calls' \in [Publisher -> 0..MaxPublish],
         \A q \in Publisher : q # p => calls'[q] = calls[q],
         Bounded(p)',
         buf' \in [Chan -> Seq(Message)],
         UNCHANGED <<subs, arrays, topicOf, closed, writer, cancelled, panicked>>
  PROVE  Inv'
<1>1. TypeOK /\ AllBounded /\ ClosedWereMade /\ RegistryExact
  BY DEF Inv
<1>2. TypeOK'
  <2>1. pub' \in [Publisher -> Local]
    BY <1>1 DEF TypeOK, Local
  <2>2. QED BY <1>1, <2>1 DEF TypeOK, Local
<1>3. AllBounded'
  <2> SUFFICES ASSUME NEW q \in Publisher, q # p PROVE Bounded(q)'
    BY DEF AllBounded
  <2>1. pub'[q] = pub[q] /\ calls'[q] = calls[q]
    BY <1>1 DEF TypeOK
  <2>2. Bounded(q)
    BY <1>1 DEF AllBounded
  <2>3. QED BY <2>1, <2>2 DEF Bounded
<1>4. ClosedWereMade'
  BY <1>1 DEF ClosedWereMade
<1>5. RegistryExact'
  BY <1>1, RegistryUntouched
<1>6. QED BY <1>2, <1>3, <1>4, <1>5 DEF Inv

(* A publisher that is idle is bounded.                                    *)
LEMMA IdleIsBounded == Idle \in Local
<1>1. <<>> \in Array
  BY EmptySeq DEF Array
<1>2. QED BY <1>1 DEF Idle, Local

(* The header copy ranges over the array the topic's slice is in.          *)
LEMMA InvPublishSnapshot ==
  ASSUME Inv, NEW p \in Publisher, NEW t \in Topic, PublishSnapshot(p, t)
  PROVE  Inv'
<1> DEFINE l == [Idle EXCEPT !.at = "ranging", !.topic = t,
                             !.arr = subs[t].arr, !.len = subs[t].len,
                             !.snap = [i \in 1..subs[t].len |-> Slot(t, i)]]
<1>1. /\ TypeOK
      /\ pub' = [pub EXCEPT ![p] = l]
      /\ calls' = [calls EXCEPT ![p] = @ + 1]
      /\ calls[p] < MaxPublish
      /\ UNCHANGED <<subs, arrays, topicOf, closed, buf, writer, cancelled, panicked>>
  BY DEF Inv, PublishSnapshot
<1>2. PICK n \in Nat, k \in Nat : subs[t].len = n /\ subs[t].arr = k
  BY <1>1 DEF TypeOK
<1>3. n > 0 => k \in 1..Len(arrays[t]) /\ n <= Len(arrays[t][k])
  BY <1>1, <1>2 DEF TypeOK, NoSlice
<1>4. \A i \in 1..n : Slot(t, i) \in Value
  <2> SUFFICES ASSUME NEW i \in 1..n PROVE arrays[t][k][i] \in Value
    BY <1>2 DEF Slot
  <2>1. arrays[t] \in Seq(Array)
    BY <1>1 DEF TypeOK
  <2>2. k \in 1..Len(arrays[t]) /\ n <= Len(arrays[t][k])
    BY <1>2, <1>3
  <2>3. arrays[t][k] \in Seq(Value)
    BY <2>1, <2>2, ElementOfSeq DEF Array, Value
  <2>4. Len(arrays[t][k]) \in Nat
    BY <2>3, LenProperties
  <2>5. i \in 1..Len(arrays[t][k])
    BY <2>2, <2>4
  <2>6. QED BY <2>3, <2>5, ElementOfSeq
<1>5. [i \in 1..n |-> Slot(t, i)] \in Array
  <2>1. [i \in 1..n |-> Slot(t, i)] \in [1..n -> Value]
    BY <1>4
  <2>2. QED BY <2>1, <1>2 DEF Array, Value
<1>6. /\ l \in Local
      /\ l.at = "ranging" /\ l.topic = t /\ l.arr = k /\ l.len = n /\ l.next = 1
  BY <1>2, <1>5, IdleIsBounded DEF Local, Idle
<1>7. /\ calls' \in [Publisher -> 0..MaxPublish]
      /\ calls'[p] \in 1..MaxPublish
      /\ \A q \in Publisher : q # p => calls'[q] = calls[q]
  BY <1>1, PubSubAssumption DEF TypeOK
<1>8. pub'[p] = l
  BY <1>1 DEF TypeOK
<1> HIDE DEF l
<1>9. Bounded(p)'
  <2>1. /\ pub'[p].at = "ranging" /\ pub'[p].topic = t /\ pub'[p].arr = k
        /\ pub'[p].len = n /\ pub'[p].next = 1
    BY <1>6, <1>8
  <2>2. 1 \in 1..(n + 1)
    BY <1>2
  <2>3. arrays' = arrays
    BY <1>1
  <2>4. QED BY <1>3, <1>7, <2>1, <2>2, <2>3 DEF Bounded
<1>10. buf' \in [Chan -> Seq(Message)]
  BY <1>1 DEF TypeOK
<1>11. QED BY <1>1, <1>6, <1>7, <1>9, <1>10, InvPublisher

(* One iteration of the range is over.                                     *)
LEMMA InvAdvance ==
  ASSUME Inv, NEW p \in Publisher, pub[p].at = "sending",
         Advance(p), buf' \in [Chan -> Seq(Message)],
         UNCHANGED <<subs, arrays, topicOf, closed, writer, calls, cancelled, panicked>>
  PROVE  Inv'
<1>1. pub[p] \in Local /\ pub \in [Publisher -> Local] /\ calls \in [Publisher -> 0..MaxPublish]
  BY DEF Inv, TypeOK, Local
<1>2. PICK o \in Array : o = Append(pub[p].offered, pub[p].ch)
  <2>1. pub[p].offered \in Seq(Value) /\ pub[p].ch \in Value
    BY <1>1 DEF Local, Array, Value
  <2>2. Append(pub[p].offered, pub[p].ch) \in Seq(Value)
    BY <2>1, AppendProperties
  <2>3. QED BY <2>2 DEF Array, Value
<1> DEFINE l == [pub[p] EXCEPT !.at = "ranging", !.next = pub[p].next + 1, !.ch = NoChan,
                               !.offered = o]
<1>3. pub' = [pub EXCEPT ![p] = l]
  BY <1>1, <1>2 DEF Advance
<1>4. /\ l \in Local
      /\ l.at = "ranging" /\ l.topic = pub[p].topic /\ l.arr = pub[p].arr
      /\ l.len = pub[p].len /\ l.next = pub[p].next + 1
  <2>1. PICK k \in Nat : pub[p].next + 1 = k
    BY <1>1 DEF Local
  <2>2. NoChan \in Chan \cup {NoChan}
    OBVIOUS
  <2>3. l = [pub[p] EXCEPT !.at = "ranging", !.next = k, !.ch = NoChan, !.offered = o]
    BY <2>1
  <2>4. QED BY <1>1, <2>1, <2>2, <2>3 DEF Local
<1>5. pub'[p] = l
  BY <1>1, <1>3
<1> HIDE DEF l
<1>6. Bounded(p)'
  <2>1. Bounded(p) /\ pub[p].next \in Nat /\ pub[p].len \in Nat
    BY <1>1 DEF Inv, AllBounded, Local
  <2>2. pub[p].next + 1 \in 1..(pub[p].len + 1)
    BY <2>1 DEF Bounded
  <2>3. /\ pub'[p].at = "ranging" /\ pub'[p].topic = pub[p].topic
        /\ pub'[p].arr = pub[p].arr /\ pub'[p].len = pub[p].len
        /\ pub'[p].next = pub[p].next + 1
    BY <1>4, <1>5
  <2>4. arrays' = arrays /\ calls' = calls
    OBVIOUS
  <2>5. QED BY <2>1, <2>2, <2>3, <2>4 DEF Bounded
<1>7. QED BY <1>1, <1>3, <1>4, <1>6, InvPublisher

(* A publisher that gives up or is done is idle again.                     *)
LEMMA InvToIdle ==
  ASSUME Inv, NEW p \in Publisher, pub' = [pub EXCEPT ![p] = Idle],
         UNCHANGED <<subs, arrays, topicOf, closed, buf, writer, calls, cancelled, panicked>>
  PROVE  Inv'
<1>1. pub \in [Publisher -> Local] /\ calls \in [Publisher -> 0..MaxPublish]
      /\ buf \in [Chan -> Seq(Message)]
  BY DEF Inv, TypeOK, Local
<1>2. Bounded(p)'
  BY <1>1 DEF Bounded, Idle
<1>3. QED BY <1>1, <1>2, IdleIsBounded, InvPublisher

(* A publisher that sends has loaded a slot that counts.                   *)
LEMMA InvPublishLoad ==
  ASSUME Inv, NEW p \in Publisher, PublishLoad(p)
  PROVE  Inv'
<1> DEFINE x == arrays[pub[p].topic][pub[p].arr][pub[p].next]
           l == [pub[p] EXCEPT !.at = "sending", !.ch = x]
<1>1. /\ pub[p] \in Local /\ pub \in [Publisher -> Local]
      /\ calls \in [Publisher -> 0..MaxPublish]
      /\ buf \in [Chan -> Seq(Message)]
      /\ arrays \in [Topic -> Seq(Array)]
      /\ pub[p].at = "ranging" /\ pub[p].next <= pub[p].len
      /\ UNCHANGED <<subs, arrays, topicOf, closed, buf, writer, calls, cancelled, panicked>>
  BY DEF Inv, TypeOK, Local, PublishLoad
<1>2. pub' = [pub EXCEPT ![p] = l]
  BY <1>1 DEF PublishLoad
<1>3. Bounded(p)
  BY DEF Inv, AllBounded
<1>4. PICK t \in Topic, k \in Nat, n \in Nat, i \in Nat :
        pub[p].topic = t /\ pub[p].arr = k /\ pub[p].len = n /\ pub[p].next = i
  BY <1>1, <1>3 DEF Bounded, Local
<1>5. /\ k \in 1..Len(arrays[t]) /\ n <= Len(arrays[t][k])
      /\ i \in 1..n
  BY <1>1, <1>3, <1>4 DEF Bounded
<1>6. x \in Value
  <2>1. arrays[t] \in Seq(Array)
    BY <1>1
  <2>2. arrays[t][k] \in Seq(Value)
    BY <1>5, <2>1, ElementOfSeq DEF Array, Value
  <2>3. Len(arrays[t][k]) \in Nat
    BY <2>2, LenProperties
  <2>4. i \in 1..Len(arrays[t][k])
    BY <1>4, <1>5, <2>3
  <2>5. QED BY <1>4, <2>2, <2>4, ElementOfSeq
<1> HIDE DEF x
<1>7. /\ l \in Local /\ l.at = "sending" /\ l.topic = t /\ l.arr = k
      /\ l.len = n /\ l.next = i
  BY <1>1, <1>4, <1>6 DEF Local, Value
<1>8. pub'[p] = l
  BY <1>1, <1>2
<1> HIDE DEF l
<1>9. Bounded(p)'
  <2>1. /\ pub'[p].at = "sending" /\ pub'[p].topic = t /\ pub'[p].arr = k
        /\ pub'[p].len = n /\ pub'[p].next = i
    BY <1>7, <1>8
  <2>2. arrays' = arrays /\ calls' = calls /\ i \in 1..(n + 1) /\ i <= n
    BY <1>1, <1>4, <1>5
  <2>3. calls[p] \in 1..MaxPublish
    BY <1>1, <1>3 DEF Bounded
  <2>4. QED BY <1>5, <2>1, <2>2, <2>3 DEF Bounded
<1>10. QED BY <1>1, <1>2, <1>7, <1>9, InvPublisher

(* A successful send puts a message of p into the channel.                 *)
LEMMA InvPublishSend ==
  ASSUME Inv, NEW p \in Publisher, PublishSend(p)
  PROVE  Inv'
<1> DEFINE m == [from |-> p, n |-> calls[p], topic |-> pub[p].topic]
<1>1. /\ buf \in [Chan -> Seq(Message)]
      /\ pub[p].at = "sending" /\ Advance(p)
      /\ buf' = [buf EXCEPT ![pub[p].ch] = Append(@, m)]
      /\ UNCHANGED <<subs, arrays, topicOf, closed, writer, calls, cancelled, panicked>>
  BY DEF Inv, TypeOK, PublishSend
<1>2. m \in Message
  <2>1. Bounded(p)
    BY DEF Inv, AllBounded
  <2>2. QED BY <1>1, <2>1 DEF Bounded, Message
<1> HIDE DEF m
<1>3. \A c \in Chan : Append(buf[c], m) \in Seq(Message)
  BY <1>1, <1>2, AppendProperties
<1>4. buf' \in [Chan -> Seq(Message)]
  BY <1>1, <1>3
<1>5. QED BY <1>1, <1>4, InvAdvance

(* Every step preserves the invariant.                                     *)
LEMMA InvNext == Inv /\ [Next]_vars => Inv'
<1> SUFFICES ASSUME Inv, [Next]_vars PROVE Inv'
  OBVIOUS
<1>0. buf \in [Chan -> Seq(Message)] /\ cancelled \subseteq Publisher /\ panicked \in BOOLEAN
  BY DEF Inv, TypeOK
<1>1. CASE \E t \in Topic, c \in Chan : Subscribe(t, c)
  BY <1>1, InvSubscribe
<1>2. CASE \E t \in Topic : \E i \in 1..subs[t].len : UnsubscribeClose(t, i)
  BY <1>2, InvUnsubscribeClose
<1>3. CASE ShiftLeft
  BY <1>3, InvShiftLeft
<1>4. CASE UnsubscribeCommit
  BY <1>4, InvUnsubscribeCommit
<1>5. CASE \E p \in Publisher, t \in Topic : PublishSnapshot(p, t)
  BY <1>5, InvPublishSnapshot
<1>6. ASSUME NEW p \in Publisher, PublisherStep(p)
      PROVE  Inv'
  <2>1. CASE PublishLoad(p)
    BY <2>1, InvPublishLoad
  <2>2. CASE PublishSend(p)
    BY <2>2, InvPublishSend
  <2>3. CASE PublishPanic(p)
    BY <1>0, <2>3, InvElsewhere DEF PublishPanic
  <2>4. CASE PublishSkip(p)
    BY <1>0, <2>4, InvAdvance DEF PublishSkip
  <2>5. CASE PublishCtxReturn(p)
    BY <2>5, InvToIdle DEF PublishCtxReturn
  <2>6. CASE PublishDone(p)
    BY <2>6, InvToIdle DEF PublishDone
  <2>7. QED BY <1>6, <2>1, <2>2, <2>3, <2>4, <2>5, <2>6 DEF PublisherStep
<1>7. CASE \E p \in Publisher : CancelCtx(p)
  BY <1>0, <1>7, InvElsewhere DEF CancelCtx
<1>8. ASSUME NEW c \in Chan, Receive(c)
      PROVE  Inv'
  <2>1. buf' = [buf EXCEPT ![c] = Tail(buf[c])] /\ buf[c] # <<>>
    BY <1>8 DEF Receive
  <2>2. Tail(buf[c]) \in Seq(Message)
    BY <1>0, <2>1, HeadTailProperties
  <2>3. buf' \in [Chan -> Seq(Message)]
    BY <1>0, <2>1, <2>2
  <2>4. QED BY <1>0, <1>8, <2>3, InvElsewhere DEF Receive
<1>9. CASE UNCHANGED vars
  BY <1>0, <1>9, InvElsewhere DEF vars
<1>10. QED
  BY <1>1, <1>2, <1>3, <1>4, <1>5, <1>6, <1>7, <1>8, <1>9 DEF Next

LEMMA Invariant == Spec => []Inv
BY InvInit, InvNext, PTL DEF Spec

-----------------------------------------------------------------------------
(* Theorems                                                                *)

(* Every variable has its type, whatever the callers do: a slice stays     *)
(* within its array, and an Unsubscribe within its slice.                  *)
THEOREM TypeCorrect == Spec => []TypeOK
BY Invariant, PTL DEF Inv

(* The registry of subscribers stays exact: at any point of any sequence   *)
(* of Subscribe and Unsubscribe, a topic's slice holds exactly its open    *)
(* channels, each once.                                                    *)
THEOREM RegistryIsExact == Spec => []RegistryExact
BY Invariant, PTL DEF Inv
=============================================================================
