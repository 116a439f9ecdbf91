----------------------- MODULE ConnectionHandlerProofs -----------------------
(***************************************************************************)
(* What holds of the connection handler for every limit and every bound.   *)
(*                                                                         *)
(* Two invariants are inductive, the second relative to the first:         *)
(* Substreams (the types, the attempts an enabled handler has left, the    *)
(* assertion on a second substream) and Messages (where every message is,  *)
(* and in which order the places hold them).  The second is stated over    *)
(* parameters, Placed(q, r, f, d, l, k), with one lemma for each way a     *)
(* message moves: queued, taken in hand, dropped, flushed, lost.           *)
(***************************************************************************)
EXTENDS ConnectionHandler, FiniteSetTheorems, SequenceTheorems, TLAPS

States == {"None", "WaitingOutput", "PendingSend", "PendingFlush"}

\* TypeOK with the shape of the records.
Typed ==
  /\ TypeOK
  /\ outbound \in [state : States, rpc : Rpc]
  /\ budget \in [sends : Nat, input : Nat, congestion : Nat]

\* An enabled handler has attempts left, and a request at most is open.
Bounded ==
  /\ mode = "Enabled" => outAttempts # MaxSubstreamAttempts /\ inAttempts # MaxSubstreamAttempts
  /\ requests \in {0, 1}

Substreams == Typed /\ Bounded /\ NoSecondSubstream

-----------------------------------------------------------------------------
(* Where the messages are.                                                 *)

\* The queues q without the head of class c.
Rest(q, c) == [q EXCEPT ![c] = Tail(@)]

\* q are the queues, r is the message in hand or NoRpc, f the wire, d and l
\* what was dropped and lost, after k messages were queued.

Held(r) == {r} \ {NoRpc}

\* A queue holds its class, in the order of the numbers; no number is twice.
QueuesOrdered(q, k) ==
  /\ q \in [Class -> Seq(Rpc)] /\ k \in Nat
  /\ \A c \in Class : \A i \in DOMAIN q[c] :
       /\ ClassOf(q[c][i].kind) = c
       /\ q[c][i].n \in 1 .. k
       /\ \A j \in DOMAIN q[c] : i < j => q[c][i].n < q[c][j].n
  /\ \A i \in DOMAIN q["priority"], j \in DOMAIN q["nonPriority"] :
       q["priority"][i].n # q["nonPriority"][j].n

\* m was queued earlier than what is queued now, in its own class.
BeforeQueues(m, q) ==
  \A c \in Class : \A i \in DOMAIN q[c] :
    /\ m.n # q[c][i].n
    /\ ClassOf(m.kind) = c => m.n < q[c][i].n

\* m was on its way earlier than r, if they are of one class.
BeforeHeld(m, r) ==
  r # NoRpc => m.n # r.n /\ (ClassOf(m.kind) = ClassOf(r.kind) => m.n < r.n)

HandOrdered(q, r, k) ==
  /\ r \in Rpc
  /\ r # NoRpc => r.n \in 1 .. k /\ BeforeQueues(r, q)

WireOrdered(q, r, f, k) ==
  /\ f \in Seq(Rpc)
  /\ \A i \in DOMAIN f :
       /\ f[i].n <= k /\ BeforeQueues(f[i], q) /\ BeforeHeld(f[i], r)
       /\ \A j \in DOMAIN f :
            i < j /\ ClassOf(f[i].kind) = ClassOf(f[j].kind) => f[i].n < f[j].n

\* What was dropped or lost is neither queued nor in hand.
GoneApart(q, r, g, k) ==
  /\ g \subseteq Rpc /\ IsFiniteSet(g)
  /\ \A m \in g :
       /\ m.n <= k
       /\ \A c \in Class : \A i \in DOMAIN q[c] : m.n # q[c][i].n
       /\ r # NoRpc => m.n # r.n

Apart(q, r, f, d, l, k) ==
  /\ QueuesOrdered(q, k)
  /\ HandOrdered(q, r, k)
  /\ WireOrdered(q, r, f, k)
  /\ GoneApart(q, r, d, k) /\ GoneApart(q, r, l, k)

Fill(q) == Len(q["priority"]) + Len(q["nonPriority"])

InQueues(q) == ToSet(q["priority"]) \cup ToSet(q["nonPriority"])

Everywhere(q, r, f, d, l) ==
  InQueues(q) \cup Held(r) \cup ToSet(f) \cup d \cup l

\* Every message is somewhere, and the places are not fuller than that.
Complete(q, r, f, d, l, k) ==
  /\ {m.n : m \in Everywhere(q, r, f, d, l)} = 1 .. k
  /\ k = Fill(q) + Cardinality(Held(r)) + Len(f)
           + Cardinality(d) + Cardinality(l)

Placed(q, r, f, d, l, k) == Apart(q, r, f, d, l, k) /\ Complete(q, r, f, d, l, k)

\* The invariant of the messages.  A substream that is alive has not lost a
\* message yet.
Messages ==
  /\ Placed(queue, outbound.rpc, flushed, dropped, lost, budget.sends)
  /\ outbound.state \in {"None", "WaitingOutput"} <=> outbound.rpc = NoRpc
  /\ Cardinality(lost) + (IF outbound.state = "None" THEN 0 ELSE 1) <= outAttempts

\* The length and the elements of a queue without its head.
LEMMA WithoutHead ==
  ASSUME NEW s \in Seq(Rpc), s # <<>>
  PROVE  /\ Head(s) \in Rpc /\ Tail(s) \in Seq(Rpc) /\ Head(s) = s[1]
         /\ 1 \in DOMAIN s /\ Len(Tail(s)) = Len(s) - 1 /\ Len(s) \in Nat /\ Len(Tail(s)) \in Nat
         /\ DOMAIN s \subseteq Nat /\ DOMAIN Tail(s) \subseteq Nat
         /\ \A i \in DOMAIN Tail(s) : i + 1 \in DOMAIN s /\ 1 < i + 1 /\ Tail(s)[i] = s[i + 1]
         /\ ToSet(s) = {Head(s)} \cup ToSet(Tail(s))
<1>1. Len(s) \in Nat \ {0} /\ DOMAIN s = 1 .. Len(s)
  BY EmptySeq, LenProperties
<1>2. /\ Head(s) = s[1] /\ Head(s) \in Rpc /\ Tail(s) \in Seq(Rpc)
      /\ Len(Tail(s)) = Len(s) - 1
      /\ \A i \in 1 .. Len(Tail(s)) : Tail(s)[i] = s[i + 1]
  BY HeadTailProperties
<1>3. DOMAIN Tail(s) = 1 .. (Len(s) - 1)
  BY <1>2, LenProperties
<1> DEFINE t == Tail(s)
           h == Head(s)
<1>4. ToSet(s) = {h} \cup ToSet(t)
  <2> HIDE DEF t, h
  <2>1. \A i \in DOMAIN s : i = 1 \/ (i - 1 \in DOMAIN t /\ t[i - 1] = s[i])
    BY <1>1, <1>2, <1>3 DEF t
  <2>2. \A j \in DOMAIN t : j + 1 \in DOMAIN s /\ t[j] = s[j + 1]
    BY <1>1, <1>2, <1>3 DEF t
  <2>3. 1 \in DOMAIN s /\ h = s[1]
    BY <1>1, <1>2 DEF h
  <2> QED
    BY <2>1, <2>2, <2>3 DEF ToSet
<1> QED
  BY <1>1, <1>2, <1>3, <1>4

\* The head of a queue is taken: it was queued before all that is left.
LEMMA HeadTaken ==
  ASSUME NEW q, NEW k, QueuesOrdered(q, k), NEW c \in Class, q[c] # <<>>
  PROVE  /\ HandOrdered(Rest(q, c), Head(q[c]), k) /\ Head(q[c]) # NoRpc
         /\ QueuesOrdered(Rest(q, c), k)
         /\ \A x : BeforeQueues(x, q) => BeforeQueues(x, Rest(q, c)) /\ BeforeHeld(x, Head(q[c]))
         /\ \A d \in Class : \A i \in DOMAIN Rest(q, c)[d] :
              \E j \in DOMAIN q[d] : Rest(q, c)[d][i] = q[d][j]
         /\ \E j \in DOMAIN q[c] : Head(q[c]) = q[c][j]
<1> DEFINE m == Head(q[c])
           w == Rest(q, c)
<1> HIDE DEF m, w
<1>1. /\ q \in [Class -> Seq(Rpc)] /\ k \in Nat /\ q[c] \in Seq(Rpc)
      /\ w \in [Class -> Seq(Rpc)] /\ w[c] = Tail(q[c])
      /\ \A d \in Class \ {c} : w[d] = q[d]
  <2>1. q \in [Class -> Seq(Rpc)] /\ k \in Nat
    BY DEF QueuesOrdered
  <2> QED
    BY <2>1, WithoutHead DEF w, Rest
<1>2. /\ m \in Rpc /\ m = q[c][1] /\ 1 \in DOMAIN q[c]
      /\ DOMAIN q[c] \subseteq Nat /\ DOMAIN w[c] \subseteq Nat
      /\ \A i \in DOMAIN w[c] : i + 1 \in DOMAIN q[c] /\ 1 < i + 1 /\ w[c][i] = q[c][i + 1]
  BY <1>1, WithoutHead DEF m
<1> HIDE DEF QueuesOrdered
<1>3. /\ ClassOf(m.kind) = c /\ m.n \in 1 .. k
      /\ \A i \in DOMAIN w[c] : m.n < w[c][i].n
  BY <1>2 DEF QueuesOrdered
<1>4. m # NoRpc
  BY <1>3 DEF NoRpc
<1>5. \A d \in Class : \A i \in DOMAIN w[d] : \E j \in DOMAIN q[d] : w[d][i] = q[d][j]
  BY <1>1, <1>2
<1>6. \A d \in Class : \A i \in DOMAIN q[d] : q[d][i].n \in 1 .. k /\ ClassOf(q[d][i].kind) = d
  BY DEF QueuesOrdered
<1>7. \A d \in Class \ {c} : \A j \in DOMAIN q[c], i \in DOMAIN q[d] : q[c][j].n # q[d][i].n
  BY DEF QueuesOrdered, Class
<1>8. BeforeQueues(m, w)
  <2>1. \A d \in Class : \A i \in DOMAIN w[d] : w[d][i].n \in 1 .. k
    BY <1>5, <1>6
  <2>2. ASSUME NEW i \in DOMAIN w[c]
        PROVE  m.n # w[c][i].n /\ m.n < w[c][i].n
    BY <1>3, <2>1
  <2>3. ASSUME NEW d \in Class \ {c}, NEW i \in DOMAIN w[d]
        PROVE  m.n # w[d][i].n /\ ClassOf(m.kind) # d
    BY <1>1, <1>2, <1>3, <1>7
  <2> QED
    BY <2>2, <2>3 DEF BeforeQueues
<1>9. QueuesOrdered(w, k)
  <2>1. ASSUME NEW d \in Class, NEW i \in DOMAIN w[d]
        PROVE  ClassOf(w[d][i].kind) = d /\ w[d][i].n \in 1 .. k
    BY <1>5, <1>6
  <2>2. ASSUME NEW d \in Class, NEW i \in DOMAIN w[d], NEW j \in DOMAIN w[d], i < j
        PROVE  w[d][i].n < w[d][j].n
    <3>1. CASE d = c
      <4>1. i + 1 < j + 1
        BY <1>2, <2>2, <3>1
      <4> QED
        BY <1>2, <3>1, <4>1 DEF QueuesOrdered
    <3>2. CASE d # c
      BY <1>1, <2>2, <3>2 DEF QueuesOrdered
    <3> QED
      BY <3>1, <3>2
  <2>3. ASSUME NEW i \in DOMAIN w["priority"], NEW j \in DOMAIN w["nonPriority"]
        PROVE  w["priority"][i].n # w["nonPriority"][j].n
    <3>1. /\ \E a \in DOMAIN q["priority"] : w["priority"][i] = q["priority"][a]
          /\ \E b \in DOMAIN q["nonPriority"] : w["nonPriority"][j] = q["nonPriority"][b]
      BY <1>5 DEF Class
    <3> QED
      BY <3>1 DEF QueuesOrdered
  <2> QED
    BY <1>1, <2>1, <2>2, <2>3 DEF QueuesOrdered
<1>10. ASSUME NEW x, BeforeQueues(x, q)
       PROVE  BeforeQueues(x, w) /\ BeforeHeld(x, m)
  <2>1. BeforeQueues(x, w)
    BY <1>5, <1>10 DEF BeforeQueues
  <2>2. BeforeHeld(x, m)
    BY <1>2, <1>3, <1>10 DEF BeforeQueues, BeforeHeld
  <2> QED
    BY <2>1, <2>2
<1> QED
  <2>1. HandOrdered(w, m, k)
    BY <1>2, <1>3, <1>8 DEF HandOrdered
  <2> QED
    BY <1>2, <1>4, <1>5, <1>9, <1>10, <2>1 DEF m, w

\* The sizes of the places.
LEMMA Sizes ==
  ASSUME NEW q, NEW r, NEW f, NEW d, NEW l, NEW k, Apart(q, r, f, d, l, k)
  PROVE  /\ Fill(q) \in Nat /\ Len(f) \in Nat
         /\ Cardinality(d) \in Nat /\ Cardinality(l) \in Nat /\ k \in Nat
         /\ Cardinality(Held(r)) = IF r = NoRpc THEN 0 ELSE 1
<1>1. /\ q["priority"] \in Seq(Rpc) /\ q["nonPriority"] \in Seq(Rpc) /\ f \in Seq(Rpc)
      /\ IsFiniteSet(d) /\ IsFiniteSet(l) /\ k \in Nat
  BY DEF Apart, QueuesOrdered, WireOrdered, GoneApart, Class
<1>2. Held(r) = IF r = NoRpc THEN {} ELSE {r}
  BY DEF Held
<1>3. Len(q["priority"]) \in Nat /\ Len(q["nonPriority"]) \in Nat /\ Len(f) \in Nat
  BY <1>1, LenProperties
<1>4. Fill(q) \in Nat
  <2>1. \A a, b \in Nat : a + b \in Nat
    OBVIOUS
  <2> QED
    BY <1>3, <2>1, Zenon DEF Fill
<1> QED
  BY <1>1, <1>2, <1>3, <1>4, FS_CardinalityType, FS_EmptySet, FS_Singleton

\* A queue loses its head: it is one shorter and the rest is where it was.
LEMMA HeadMissing ==
  ASSUME NEW q, NEW k, QueuesOrdered(q, k), NEW c \in Class, q[c] # <<>>
  PROVE  /\ Fill(Rest(q, c)) + 1 = Fill(q)
         /\ InQueues(q) = InQueues(Rest(q, c)) \cup {Head(q[c])}
<1> DEFINE m == Head(q[c])
           w == Rest(q, c)
<1> HIDE DEF m, w
<1>1. /\ q \in [Class -> Seq(Rpc)] /\ q[c] \in Seq(Rpc)
      /\ q["priority"] \in Seq(Rpc) /\ q["nonPriority"] \in Seq(Rpc)
  BY DEF QueuesOrdered, Class
<1>2. /\ w[c] = Tail(q[c]) /\ \A d \in Class \ {c} : w[d] = q[d]
  BY <1>1 DEF w, Rest
<1>3. /\ Len(q[c]) \in Nat /\ Len(w[c]) = Len(q[c]) - 1
      /\ ToSet(q[c]) = {m} \cup ToSet(w[c])
  BY <1>1, <1>2, WithoutHead DEF m
<1>4. Len(q["priority"]) \in Nat /\ Len(q["nonPriority"]) \in Nat
  BY <1>1, LenProperties
<1>5. Fill(w) + 1 = Fill(q) /\ InQueues(q) = InQueues(w) \cup {m}
  <2>1. CASE c = "priority"
    <3>1. w["nonPriority"] = q["nonPriority"]
      BY <1>2, <2>1 DEF Class
    <3>2. InQueues(q) = InQueues(w) \cup {m}
      BY <1>3, <2>1, <3>1 DEF InQueues
    <3>3. /\ Len(w["priority"]) = Len(q["priority"]) - 1
          /\ Len(w["nonPriority"]) = Len(q["nonPriority"])
      BY <1>3, <2>1, <3>1
    <3>4. Fill(w) + 1 = Fill(q)
      BY <1>4, <3>3 DEF Fill
    <3> QED
      BY <3>2, <3>4
  <2>2. CASE c = "nonPriority"
    <3>1. w["priority"] = q["priority"]
      BY <1>2, <2>2 DEF Class
    <3>2. InQueues(q) = InQueues(w) \cup {m}
      BY <1>3, <2>2, <3>1 DEF InQueues
    <3>3. /\ Len(w["nonPriority"]) = Len(q["nonPriority"]) - 1
          /\ Len(w["priority"]) = Len(q["priority"])
      BY <1>3, <2>2, <3>1
    <3>4. Fill(w) + 1 = Fill(q)
      BY <1>4, <3>3 DEF Fill
    <3> QED
      BY <3>2, <3>4
  <2> QED
    BY <2>1, <2>2 DEF Class
<1> QED
  BY <1>5 DEF m, w

\* The head of a queue is taken in hand.
LEMMA HeadToHand ==
  ASSUME NEW q, NEW f, NEW d, NEW l, NEW k, Placed(q, NoRpc, f, d, l, k),
         NEW c \in Class, q[c] # <<>>
  PROVE  Placed(Rest(q, c), Head(q[c]), f, d, l, k) /\ Head(q[c]) # NoRpc
<1> DEFINE m == Head(q[c])
           w == Rest(q, c)
<1> HIDE DEF m, w
<1>1. /\ QueuesOrdered(q, k) /\ WireOrdered(q, NoRpc, f, k)
      /\ GoneApart(q, NoRpc, d, k) /\ GoneApart(q, NoRpc, l, k)
  BY DEF Placed, Apart
<1>2. /\ HandOrdered(w, m, k) /\ m # NoRpc /\ QueuesOrdered(w, k)
      /\ \A x : BeforeQueues(x, q) => BeforeQueues(x, w) /\ BeforeHeld(x, m)
      /\ \A e \in Class : \A i \in DOMAIN w[e] : \E j \in DOMAIN q[e] : w[e][i] = q[e][j]
      /\ \E j \in DOMAIN q[c] : m = q[c][j]
  BY <1>1, HeadTaken DEF m, w
<1>3. WireOrdered(w, m, f, k)
  BY <1>1, <1>2 DEF WireOrdered
<1>4. GoneApart(w, m, d, k) /\ GoneApart(w, m, l, k)
  BY <1>1, <1>2 DEF GoneApart
<1>5. Apart(w, m, f, d, l, k)
  BY <1>2, <1>3, <1>4 DEF Apart
<1>6. Complete(w, m, f, d, l, k)
  <2>1. /\ Fill(w) + 1 = Fill(q)
        /\ InQueues(q) = InQueues(w) \cup {m}
    BY <1>1, HeadMissing DEF m, w
  <2>2. Held(m) = {m} /\ Held(NoRpc) = {}
    BY <1>2 DEF Held
  <2>3. Everywhere(w, m, f, d, l) = Everywhere(q, NoRpc, f, d, l)
    BY <2>1, <2>2 DEF Everywhere
  <2>4. /\ Fill(w) \in Nat /\ Len(f) \in Nat
        /\ Cardinality(d) \in Nat /\ Cardinality(l) \in Nat /\ k \in Nat
        /\ Cardinality(Held(m)) = 1
    BY <1>2, <1>5, Sizes
  <2>5. /\ Fill(q) \in Nat
        /\ Cardinality(Held(NoRpc)) = 0
    BY Sizes DEF Placed
  <2>6. /\ {x.n : x \in Everywhere(q, NoRpc, f, d, l)} = 1 .. k
        /\ k = Fill(q) + Cardinality(Held(NoRpc)) + Len(f)
                 + Cardinality(d) + Cardinality(l)
    BY DEF Placed, Complete
  <2>7. k = Fill(w) + Cardinality(Held(m)) + Len(f)
              + Cardinality(d) + Cardinality(l)
    BY <2>1, <2>4, <2>5, <2>6
  <2> QED
    BY <2>3, <2>6, <2>7 DEF Complete
<1> QED
  BY <1>2, <1>5, <1>6 DEF Placed, m, w

\* The head of a queue is dropped.
LEMMA HeadDropped ==
  ASSUME NEW q, NEW r, NEW f, NEW d, NEW l, NEW k, Placed(q, r, f, d, l, k),
         NEW c \in Class, q[c] # <<>>
  PROVE  Placed(Rest(q, c), r, f, d \cup {Head(q[c])}, l, k)
<1> DEFINE m == Head(q[c])
           w == Rest(q, c)
<1> HIDE DEF m, w
<1>1. /\ QueuesOrdered(q, k) /\ HandOrdered(q, r, k) /\ WireOrdered(q, r, f, k)
      /\ GoneApart(q, r, d, k) /\ GoneApart(q, r, l, k)
  BY DEF Placed, Apart
<1>2. /\ HandOrdered(w, m, k) /\ m # NoRpc /\ QueuesOrdered(w, k)
      /\ \A x : BeforeQueues(x, q) => BeforeQueues(x, w) /\ BeforeHeld(x, m)
      /\ \A e \in Class : \A i \in DOMAIN w[e] : \E j \in DOMAIN q[e] : w[e][i] = q[e][j]
      /\ \E j \in DOMAIN q[c] : m = q[c][j]
  BY <1>1, HeadTaken DEF m, w
<1>3. HandOrdered(w, r, k) /\ WireOrdered(w, r, f, k)
  BY <1>1, <1>2 DEF HandOrdered, WireOrdered
<1>4. GoneApart(w, r, d, k) /\ GoneApart(w, r, l, k)
  BY <1>1, <1>2 DEF GoneApart
<1>5. GoneApart(w, r, d \cup {m}, k)
  <2>1. m \in Rpc /\ m.n <= k
    BY <1>2 DEF HandOrdered, QueuesOrdered
  <2>2. \A e \in Class : \A i \in DOMAIN w[e] : m.n # w[e][i].n
    BY <1>2 DEF HandOrdered, BeforeQueues
  <2>3. r # NoRpc => m.n # r.n
    BY <1>1, <1>2 DEF HandOrdered, BeforeQueues
  <2>4. IsFiniteSet(d \cup {m})
    BY <1>4, FS_AddElement DEF GoneApart
  <2> QED
    BY <1>4, <2>1, <2>2, <2>3, <2>4 DEF GoneApart
<1>6. Apart(w, r, f, d \cup {m}, l, k)
  BY <1>2, <1>3, <1>4, <1>5 DEF Apart
<1>7. Complete(w, r, f, d \cup {m}, l, k)
  <2>1. /\ Fill(w) + 1 = Fill(q)
        /\ InQueues(q) = InQueues(w) \cup {m}
    BY <1>1, HeadMissing DEF m, w
  <2>2. Everywhere(w, r, f, d \cup {m}, l) = Everywhere(q, r, f, d, l)
    BY <2>1 DEF Everywhere
  <2>3. m \notin d /\ IsFiniteSet(d)
    BY <1>1, <1>2 DEF GoneApart
  <2>4. Cardinality(d \cup {m}) = Cardinality(d) + 1
    BY <2>3, FS_AddElement
  <2>5. /\ Fill(w) \in Nat /\ Len(f) \in Nat
        /\ Cardinality(l) \in Nat /\ k \in Nat /\ Cardinality(Held(r)) \in Nat
    BY <1>6, Sizes
  <2>6. /\ Fill(q) \in Nat
        /\ Cardinality(d) \in Nat
    BY Sizes DEF Placed
  <2>7. /\ {x.n : x \in Everywhere(q, r, f, d, l)} = 1 .. k
        /\ k = Fill(q) + Cardinality(Held(r)) + Len(f)
                 + Cardinality(d) + Cardinality(l)
    BY DEF Placed, Complete
  <2>8. k = Fill(w) + Cardinality(Held(r)) + Len(f)
              + Cardinality(d \cup {m}) + Cardinality(l)
    BY <2>1, <2>4, <2>5, <2>6, <2>7
  <2> QED
    BY <2>2, <2>7, <2>8 DEF Complete
<1> QED
  BY <1>6, <1>7 DEF Placed, m, w

\* The message in hand reaches the wire.
LEMMA HandFlushed ==
  ASSUME NEW q, NEW r, NEW f, NEW d, NEW l, NEW k, Placed(q, r, f, d, l, k), r # NoRpc
  PROVE  Placed(q, NoRpc, Append(f, r), d, l, k)
<1>1. /\ QueuesOrdered(q, k) /\ HandOrdered(q, r, k) /\ WireOrdered(q, r, f, k)
      /\ GoneApart(q, r, d, k) /\ GoneApart(q, r, l, k)
  BY DEF Placed, Apart
<1> DEFINE g == Append(f, r)
<1>2. /\ f \in Seq(Rpc) /\ r \in Rpc /\ r.n \in 1 .. k /\ BeforeQueues(r, q) /\ k \in Nat
  BY <1>1 DEF HandOrdered, WireOrdered, QueuesOrdered
<1>3. /\ g \in Seq(Rpc) /\ Len(f) \in Nat /\ Len(g) = Len(f) + 1
      /\ DOMAIN f = 1 .. Len(f) /\ DOMAIN g = 1 .. (Len(f) + 1)
      /\ \A i \in 1 .. Len(f) : g[i] = f[i]
      /\ g[Len(f) + 1] = r
  BY <1>2, AppendProperties, LenProperties
<1> HIDE DEF g
<1>4. \A i \in DOMAIN g : (i \in DOMAIN f /\ g[i] = f[i]) \/ (i = Len(f) + 1 /\ g[i] = r)
  BY <1>3
<1>5. ToSet(g) = ToSet(f) \cup {r}
  <2>1. \A i \in DOMAIN f : i \in DOMAIN g /\ g[i] = f[i]
    BY <1>3
  <2>2. Len(f) + 1 \in DOMAIN g
    BY <1>3
  <2> QED
    BY <1>3, <1>4, <2>1, <2>2 DEF ToSet
<1>6. HandOrdered(q, NoRpc, k) /\ GoneApart(q, NoRpc, d, k) /\ GoneApart(q, NoRpc, l, k)
  <2>1. NoRpc \in Rpc
    BY DEF NoRpc, Rpc
  <2> QED
    BY <1>1, <2>1 DEF HandOrdered, GoneApart
<1>7. WireOrdered(q, NoRpc, g, k)
  <2>1. ASSUME NEW i \in DOMAIN g
        PROVE  g[i].n <= k /\ BeforeQueues(g[i], q) /\ BeforeHeld(g[i], NoRpc)
    <3>1. BeforeHeld(g[i], NoRpc)
      BY DEF BeforeHeld
    <3>2. CASE i \in DOMAIN f /\ g[i] = f[i]
      BY <1>1, <3>1, <3>2 DEF WireOrdered
    <3>3. CASE i = Len(f) + 1 /\ g[i] = r
      BY <1>2, <3>1, <3>3
    <3> QED
      BY <1>4, <3>2, <3>3
  <2>2. ASSUME NEW i \in DOMAIN g, NEW j \in DOMAIN g,
               i < j, ClassOf(g[i].kind) = ClassOf(g[j].kind)
        PROVE  g[i].n < g[j].n
    <3>1. i \in DOMAIN f /\ g[i] = f[i]
      BY <1>3, <2>2
    <3>2. CASE j \in DOMAIN f /\ g[j] = f[j]
      BY <1>1, <2>2, <3>1, <3>2 DEF WireOrdered
    <3>3. CASE j = Len(f) + 1 /\ g[j] = r
      <4>1. BeforeHeld(f[i], r)
        BY <1>1, <3>1 DEF WireOrdered
      <4> QED
        BY <2>2, <3>1, <3>3, <4>1 DEF BeforeHeld
    <3> QED
      BY <1>4, <3>2, <3>3
  <2> QED
    BY <1>3, <2>1, <2>2 DEF WireOrdered
<1>8. Apart(q, NoRpc, g, d, l, k)
  BY <1>1, <1>6, <1>7 DEF Apart
<1>9. Complete(q, NoRpc, g, d, l, k)
  <2>1. Held(r) = {r} /\ Held(NoRpc) = {}
    BY DEF Held
  <2>2. Everywhere(q, NoRpc, g, d, l) = Everywhere(q, r, f, d, l)
    BY <1>5, <2>1 DEF Everywhere
  <2>3. /\ Fill(q) \in Nat
        /\ Cardinality(d) \in Nat /\ Cardinality(l) \in Nat
        /\ Cardinality(Held(NoRpc)) = 0
    BY <1>8, Sizes
  <2>4. Cardinality(Held(r)) = 1
    BY Sizes DEF Placed
  <2>5. /\ {x.n : x \in Everywhere(q, r, f, d, l)} = 1 .. k
        /\ k = Fill(q) + Cardinality(Held(r)) + Len(f)
                 + Cardinality(d) + Cardinality(l)
    BY DEF Placed, Complete
  <2>6. k = Fill(q) + Cardinality(Held(NoRpc)) + Len(g)
              + Cardinality(d) + Cardinality(l)
    BY <1>2, <1>3, <2>3, <2>4, <2>5
  <2> QED
    BY <2>2, <2>5, <2>6 DEF Complete
<1> QED
  BY <1>8, <1>9 DEF Placed, g

\* The message in hand is lost with its substream.
LEMMA HandLost ==
  ASSUME NEW q, NEW r, NEW f, NEW d, NEW l, NEW k, Placed(q, r, f, d, l, k)
  PROVE  /\ Placed(q, NoRpc, f, d, l \cup Held(r), k)
         /\ r = NoRpc => Cardinality(l \cup Held(r)) = Cardinality(l)
         /\ r # NoRpc => Cardinality(l \cup Held(r)) = Cardinality(l) + 1
         /\ Cardinality(l) \in Nat /\ Cardinality(Held(r)) = IF r = NoRpc THEN 0 ELSE 1
<1>1. /\ QueuesOrdered(q, k) /\ HandOrdered(q, r, k) /\ WireOrdered(q, r, f, k)
      /\ GoneApart(q, r, d, k) /\ GoneApart(q, r, l, k)
  BY DEF Placed, Apart
<1>2. /\ Cardinality(l) \in Nat /\ Cardinality(d) \in Nat
      /\ Cardinality(Held(r)) = IF r = NoRpc THEN 0 ELSE 1
      /\ Fill(q) \in Nat /\ Len(f) \in Nat
  BY Sizes DEF Placed
<1>3. CASE r = NoRpc
  <2>1. Held(r) = {} /\ l \cup Held(r) = l
    BY <1>3 DEF Held
  <2> QED
    BY <1>2, <1>3, <2>1
<1>4. CASE r # NoRpc
  <2>1. Held(r) = {r} /\ Held(NoRpc) = {}
    BY <1>4 DEF Held
  <2>2. IsFiniteSet(l) /\ r \notin l
    BY <1>1, <1>4 DEF GoneApart
  <2>3. /\ IsFiniteSet(l \cup {r})
        /\ Cardinality(l \cup {r}) = Cardinality(l) + 1
    BY <2>2, FS_AddElement
  <2>4. r \in Rpc /\ r.n \in 1 .. k /\ BeforeQueues(r, q) /\ k \in Nat
    BY <1>1, <1>4 DEF HandOrdered, QueuesOrdered
  <2>5. HandOrdered(q, NoRpc, k) /\ GoneApart(q, NoRpc, d, k)
    <3>1. NoRpc \in Rpc
      BY DEF NoRpc, Rpc
    <3> QED
      BY <1>1, <3>1 DEF HandOrdered, GoneApart
  <2>6. WireOrdered(q, NoRpc, f, k)
    BY <1>1 DEF WireOrdered, BeforeHeld
  <2>7. GoneApart(q, NoRpc, l \cup {r}, k)
    <3>1. r.n <= k /\ \A c \in Class : \A i \in DOMAIN q[c] : r.n # q[c][i].n
      BY <2>4 DEF BeforeQueues
    <3> QED
      BY <1>1, <2>3, <2>4, <3>1 DEF GoneApart
  <2>8. Apart(q, NoRpc, f, d, l \cup {r}, k)
    BY <1>1, <2>5, <2>6, <2>7 DEF Apart
  <2>9. Everywhere(q, NoRpc, f, d, l \cup {r}) = Everywhere(q, r, f, d, l)
    BY <2>1 DEF Everywhere
  <2>10. Cardinality(Held(NoRpc)) = 0
    BY <2>8, Sizes
  <2>11. /\ {x.n : x \in Everywhere(q, r, f, d, l)} = 1 .. k
         /\ k = Fill(q) + Cardinality(Held(r)) + Len(f)
                  + Cardinality(d) + Cardinality(l)
    BY DEF Placed, Complete
  <2>12. k = Fill(q) + Cardinality(Held(NoRpc)) + Len(f)
               + Cardinality(d) + Cardinality(l \cup {r})
    BY <1>2, <1>4, <2>3, <2>10, <2>11
  <2>13. Complete(q, NoRpc, f, d, l \cup {r}, k)
    BY <2>9, <2>11, <2>12 DEF Complete
  <2> QED
    BY <1>2, <1>4, <2>1, <2>3, <2>8, <2>13 DEF Placed
<1> QED
  BY <1>3, <1>4

\* A message is queued behind its class, with the next number.
LEMMA MessageQueued ==
  ASSUME NEW q, NEW r, NEW f, NEW d, NEW l, NEW k, Placed(q, r, f, d, l, k),
         NEW m \in Rpc, m.n = k + 1, NEW c \in Class, c = ClassOf(m.kind)
  PROVE  Placed([q EXCEPT ![c] = Append(@, m)], r, f, d, l, k + 1)
<1> DEFINE w == [q EXCEPT ![c] = Append(@, m)]
<1>1. /\ QueuesOrdered(q, k) /\ HandOrdered(q, r, k) /\ WireOrdered(q, r, f, k)
      /\ GoneApart(q, r, d, k) /\ GoneApart(q, r, l, k)
  BY DEF Placed, Apart
<1>2. /\ q \in [Class -> Seq(Rpc)] /\ k \in Nat /\ q[c] \in Seq(Rpc)
      /\ w \in [Class -> Seq(Rpc)] /\ w[c] = Append(q[c], m)
      /\ \A e \in Class \ {c} : w[e] = q[e]
  <2>1. q \in [Class -> Seq(Rpc)] /\ k \in Nat
    BY <1>1 DEF QueuesOrdered
  <2> QED
    BY <2>1, AppendProperties
<1> HIDE DEF w
<1>3. /\ Len(q[c]) \in Nat /\ Len(w[c]) = Len(q[c]) + 1
      /\ DOMAIN q[c] = 1 .. Len(q[c]) /\ DOMAIN w[c] = 1 .. (Len(q[c]) + 1)
      /\ \A i \in 1 .. Len(q[c]) : w[c][i] = q[c][i]
      /\ w[c][Len(q[c]) + 1] = m
  BY <1>2, AppendProperties, LenProperties
<1>4. \A i \in DOMAIN w[c] :
        (i \in DOMAIN q[c] /\ w[c][i] = q[c][i]) \/ (i = Len(q[c]) + 1 /\ w[c][i] = m)
  BY <1>3
<1>5. \A e \in Class : \A i \in DOMAIN w[e] :
        (i \in DOMAIN q[e] /\ w[e][i] = q[e][i]) \/ (e = c /\ w[e][i] = m)
  BY <1>2, <1>4
<1>6. \A e \in Class : \A i \in DOMAIN q[e] : q[e][i].n \in 1 .. k /\ ClassOf(q[e][i].kind) = e
  BY <1>1 DEF QueuesOrdered
<1>7. QueuesOrdered(w, k + 1)
  <2>1. ASSUME NEW e \in Class, NEW i \in DOMAIN w[e]
        PROVE  ClassOf(w[e][i].kind) = e /\ w[e][i].n \in 1 .. (k + 1)
    <3>1. CASE i \in DOMAIN q[e] /\ w[e][i] = q[e][i]
      BY <1>2, <1>6, <3>1
    <3>2. CASE e = c /\ w[e][i] = m
      BY <1>2, <3>2
    <3> QED
      BY <1>5, <3>1, <3>2
  <2>2. ASSUME NEW e \in Class, NEW i \in DOMAIN w[e], NEW j \in DOMAIN w[e], i < j
        PROVE  w[e][i].n < w[e][j].n
    <3>1. CASE e # c
      BY <1>1, <1>2, <2>2, <3>1 DEF QueuesOrdered
    <3>2. CASE e = c
      <4>1. i \in DOMAIN q[c] /\ w[c][i] = q[c][i]
        BY <1>3, <2>2, <3>2
      <4>2. CASE j \in DOMAIN q[c] /\ w[c][j] = q[c][j]
        BY <1>1, <2>2, <3>2, <4>1, <4>2 DEF QueuesOrdered
      <4>3. CASE w[c][j] = m
        <5>1. q[c][i].n \in 1 .. k
          BY <1>6, <4>1
        <5> QED
          BY <1>2, <3>2, <4>1, <4>3, <5>1
      <4> QED
        BY <1>4, <3>2, <4>2, <4>3
    <3> QED
      BY <3>1, <3>2
  <2>3. ASSUME NEW i \in DOMAIN w["priority"], NEW j \in DOMAIN w["nonPriority"]
        PROVE  w["priority"][i].n # w["nonPriority"][j].n
    <3>1. \A e \in Class \ {c} : \A a \in DOMAIN w[e] : w[e][a].n \in 1 .. k
      BY <1>2, <1>6
    <3>2. CASE w["priority"][i] = m /\ c = "priority"
      <4>1. w["nonPriority"][j].n \in 1 .. k
        BY <3>1, <3>2 DEF Class
      <4> QED
        BY <1>2, <3>2, <4>1
    <3>3. CASE w["nonPriority"][j] = m /\ c = "nonPriority"
      <4>1. w["priority"][i].n \in 1 .. k
        BY <3>1, <3>3 DEF Class
      <4> QED
        BY <1>2, <3>3, <4>1
    <3>4. CASE /\ i \in DOMAIN q["priority"] /\ w["priority"][i] = q["priority"][i]
               /\ j \in DOMAIN q["nonPriority"] /\ w["nonPriority"][j] = q["nonPriority"][j]
      BY <1>1, <3>4 DEF QueuesOrdered
    <3> QED
      BY <1>5, <3>2, <3>3, <3>4 DEF Class
  <2>4. k + 1 \in Nat
    BY <1>2
  <2> QED
    BY <1>2, <2>1, <2>2, <2>3, <2>4 DEF QueuesOrdered
<1>8. \A x : x.n \in Nat /\ x.n <= k /\ BeforeQueues(x, q) => BeforeQueues(x, w)
  <2>1. ASSUME NEW x, x.n \in Nat, x.n <= k, BeforeQueues(x, q),
               NEW e \in Class, NEW i \in DOMAIN w[e]
        PROVE  x.n # w[e][i].n /\ (ClassOf(x.kind) = e => x.n < w[e][i].n)
    <3>1. CASE i \in DOMAIN q[e] /\ w[e][i] = q[e][i]
      BY <2>1, <3>1 DEF BeforeQueues
    <3>2. CASE e = c /\ w[e][i] = m
      BY <1>2, <2>1, <3>2
    <3> QED
      BY <1>5, <3>1, <3>2
  <2> QED
    BY <2>1 DEF BeforeQueues
<1>9. HandOrdered(w, r, k + 1)
  <2>1. r # NoRpc => r.n \in Nat /\ r.n <= k /\ r.n \in 1 .. (k + 1) /\ BeforeQueues(r, q)
    BY <1>1, <1>2 DEF HandOrdered
  <2> QED
    BY <1>1, <1>8, <2>1 DEF HandOrdered
<1>10. WireOrdered(w, r, f, k + 1)
  <2>1. \A i \in DOMAIN f : f[i] \in Rpc
    BY <1>1 DEF WireOrdered
  <2>2. \A i \in DOMAIN f : f[i].n \in Nat /\ f[i].n <= k /\ f[i].n <= k + 1
    BY <1>1, <1>2, <2>1 DEF WireOrdered, Rpc
  <2>3. \A i \in DOMAIN f : BeforeQueues(f[i], w)
    BY <1>1, <1>8, <2>2 DEF WireOrdered
  <2> QED
    BY <1>1, <2>2, <2>3 DEF WireOrdered
<1>11. ASSUME NEW g, GoneApart(q, r, g, k)
       PROVE  GoneApart(w, r, g, k + 1)
  <2>1. \A x \in g : x.n \in Nat /\ x.n <= k /\ x.n <= k + 1
    BY <1>2, <1>11 DEF GoneApart, Rpc
  <2>2. ASSUME NEW x \in g, NEW e \in Class, NEW i \in DOMAIN w[e]
        PROVE  x.n # w[e][i].n
    <3>1. CASE i \in DOMAIN q[e] /\ w[e][i] = q[e][i]
      BY <1>11, <3>1 DEF GoneApart
    <3>2. CASE e = c /\ w[e][i] = m
      BY <1>2, <2>1, <3>2
    <3> QED
      BY <1>5, <3>1, <3>2
  <2> QED
    BY <1>11, <2>1, <2>2 DEF GoneApart
<1>12. Apart(w, r, f, d, l, k + 1)
  BY <1>1, <1>7, <1>9, <1>10, <1>11 DEF Apart
<1>13. Complete(w, r, f, d, l, k + 1)
  <2>1. ToSet(w[c]) = ToSet(q[c]) \cup {m}
    <3>1. Len(q[c]) + 1 \in DOMAIN w[c] /\ \A i \in DOMAIN q[c] : i \in DOMAIN w[c]
      BY <1>3
    <3> QED
      BY <1>3, <1>4, <3>1 DEF ToSet
  <2>2. InQueues(w) = InQueues(q) \cup {m}
    BY <1>2, <2>1 DEF InQueues, Class
  <2>3. Fill(w) = Fill(q) + 1
    <3>1. Len(q["priority"]) \in Nat /\ Len(q["nonPriority"]) \in Nat
      BY <1>2, LenProperties DEF Class
    <3>2. CASE c = "priority"
      <4>1. /\ Len(w["priority"]) = Len(q["priority"]) + 1
            /\ Len(w["nonPriority"]) = Len(q["nonPriority"])
        BY <1>2, <1>3, <3>2 DEF Class
      <4>2. \A a, b \in Nat : (a + 1) + b = (a + b) + 1 /\ a + (b + 1) = (a + b) + 1
        OBVIOUS
      <4> QED
        BY <3>1, <4>1, <4>2, Zenon DEF Fill
    <3>3. CASE c = "nonPriority"
      <4>1. /\ Len(w["nonPriority"]) = Len(q["nonPriority"]) + 1
            /\ Len(w["priority"]) = Len(q["priority"])
        BY <1>2, <1>3, <3>3 DEF Class
      <4>2. \A a, b \in Nat : (a + 1) + b = (a + b) + 1 /\ a + (b + 1) = (a + b) + 1
        OBVIOUS
      <4> QED
        BY <3>1, <4>1, <4>2, Zenon DEF Fill
    <3> QED
      BY <3>2, <3>3 DEF Class
  <2>4. /\ {x.n : x \in Everywhere(q, r, f, d, l)} = 1 .. k
        /\ k = Fill(q) + Cardinality(Held(r)) + Len(f) + Cardinality(d) + Cardinality(l)
    BY DEF Placed, Complete
  <2>5. Everywhere(w, r, f, d, l) = Everywhere(q, r, f, d, l) \cup {m}
    BY <2>2 DEF Everywhere
  <2>6. {x.n : x \in Everywhere(w, r, f, d, l)} = 1 .. (k + 1)
    <3>1. {x.n : x \in Everywhere(w, r, f, d, l)}
            = {x.n : x \in Everywhere(q, r, f, d, l)} \cup {m.n}
      BY <2>5
    <3>2. 1 .. (k + 1) = (1 .. k) \cup {k + 1}
      BY <1>2
    <3> QED
      BY <2>4, <3>1, <3>2
  <2>7. /\ Fill(q) \in Nat /\ Len(f) \in Nat /\ Cardinality(d) \in Nat /\ Cardinality(l) \in Nat
        /\ Cardinality(Held(r)) \in Nat
    BY Sizes DEF Placed
  <2>8. k + 1 = Fill(w) + Cardinality(Held(r)) + Len(f) + Cardinality(d) + Cardinality(l)
    BY <2>3, <2>4, <2>7
  <2> QED
    BY <2>6, <2>8 DEF Complete
<1> QED
  BY <1>12, <1>13 DEF Placed, w

-----------------------------------------------------------------------------
(* Types, attempts and the second substream.                               *)

\* A step that takes the head of a queue keeps the types.
LEMMA HeadTyped ==
  ASSUME TypeOK, NEW c \in Class, queue[c] # <<>>
  PROVE  /\ Head(queue[c]) \in Rpc
         /\ [queue EXCEPT ![c] = Tail(@)] \in [Class -> Seq(Rpc)]
<1>1. queue[c] \in Seq(Rpc) /\ queue \in [Class -> Seq(Rpc)]
  BY DEF TypeOK
<1>2. Head(queue[c]) \in Rpc /\ Tail(queue[c]) \in Seq(Rpc)
  BY <1>1, HeadTailProperties
<1> QED
  BY <1>1, <1>2

\* An attempt that reaches the limit disables the handler, and a request is
\* open exactly while the handler is establishing.
LEMMA NextBounded ==
  ASSUME Substreams, [Next]_vars
  PROVE  Bounded' /\ NoSecondSubstream'
<1> USE HandlerAssumption DEF Substreams, Bounded, NoSecondSubstream, Typed
<1>1. CASE PollStart
  <2>1. /\ mode = "Enabled" /\ UNCHANGED <<mode, outbound, outAttempts, inAttempts>>
        /\ \/ outbound.state = "None" /\ ~establishing /\ establishing' = TRUE /\ requests' = requests + 1
           \/ UNCHANGED <<establishing, requests>>
    BY <1>1 DEF PollStart
  <2>2. ~establishing => requests' = requests \/ requests' = 1
    BY <2>1
  <2> QED
    BY <2>1, <2>2
<1>2. CASE TakeMessage
  BY <1>2 DEF TakeMessage, swarm, Substream
<1>3. CASE SendMessage
  BY <1>3 DEF SendMessage, swarm, task, Substream
<1>4. CASE OutboundFails
  BY <1>4 DEF OutboundFails, swarm, Substream
<1>5. CASE OutboundPending
  BY <1>5 DEF OutboundPending, swarm, handler, history
<1>6. CASE ReadInput
  BY <1>6 DEF ReadInput, history
<1>7. CASE CloseInput
  BY <1>7 DEF CloseInput, swarm, history
<1>8. CASE PollStale
  BY <1>8 DEF PollStale, swarm, handler, Empty
<1>9. ASSUME NEW result \in Results, OutboundEvent(result)
      PROVE  Bounded' /\ NoSecondSubstream'
  BY <1>9 DEF OutboundEvent, Disable, handler, Substream
<1>10. ASSUME NEW result \in {"ok", "error"}, InboundEvent(result)
      PROVE  Bounded' /\ NoSecondSubstream'
  BY <1>10 DEF InboundEvent, Disable, Substream
<1>11. ASSUME NEW kind \in {"Publish", "Forward", "Control"}, Enqueue(kind)
      PROVE  Bounded' /\ NoSecondSubstream'
  BY <1>11 DEF Enqueue, handler, swarm
<1>12. ASSUME NEW c \in Class, NEW i \in DOMAIN queue[c], TimeoutElapses(c, i)
      PROVE  Bounded' /\ NoSecondSubstream'
  BY <1>12 DEF TimeoutElapses, handler, swarm, history
<1>13. ASSUME NEW item \in {"rpc", "end"}, RemoteWrites(item)
      PROVE  Bounded' /\ NoSecondSubstream'
  BY <1>13 DEF RemoteWrites, handler
<1>14. CASE Congest
  BY <1>14 DEF Congest, handler, task
<1>15. CASE Drain
  BY <1>15 DEF Drain, handler, history
<1>16. CASE UNCHANGED vars
  BY <1>16 DEF vars, handler, task, swarm, history
<1> QED
  BY <1>1, <1>2, <1>3, <1>4, <1>5, <1>6, <1>7, <1>8, <1>9, <1>10, <1>11, <1>12, <1>13, <1>14, <1>15, <1>16 DEF Next, Poll

\* Every action keeps the types, attempts included.
LEMMA NextTyped ==
  ASSUME Substreams, [Next]_vars, Bounded'
  PROVE  Typed'
<1> USE HandlerAssumption
<1>1. CASE PollStart
  <2>1. UNCHANGED <<mode, outbound, inbound, outAttempts, inAttempts, writable, input, queue, expired, budget, flushed, dropped, lost>>
    BY <1>1 DEF PollStart, history, Empty
  <2>2. listening' \subseteq Class /\ establishing' \in BOOLEAN /\ awake' \in BOOLEAN
    BY <1>1 DEF PollStart, history, Empty, Substreams, Bounded, Typed, TypeOK
  <2>3. pc' \in {"idle", "outbound", "inbound", "stale"}
    BY <1>1 DEF PollStart, history, Empty, Substreams, Bounded, Typed, TypeOK
  <2> QED
    BY <2>1, <2>2, <2>3 DEF Substreams, Bounded, Typed, TypeOK, States
<1>2. CASE TakeMessage
  <2>1. PICK c \in Class :
          /\ \/ /\ queue[c] # <<>>
                /\ queue' = [queue EXCEPT ![c] = Tail(@)]
                /\ listening' = listening \/ listening' = listening \cup {"priority"}
                /\ \/ dropped' = dropped \cup {Head(queue[c])} /\ pc' = "idle" /\ awake' = TRUE
                      /\ UNCHANGED outbound
                   \/ outbound' = [state |-> "PendingSend", rpc |-> Head(queue[c])]
                      /\ UNCHANGED <<pc, awake, dropped>>
             \/ listening' = Class /\ pc' = "inbound" /\ UNCHANGED <<queue, outbound, awake, dropped>>
    BY <1>2 DEF TakeMessage, Substream, Class
  <2>2. UNCHANGED <<mode, inbound, establishing, outAttempts, inAttempts, requests, writable,
                    input, expired, budget, flushed, lost>>
    BY <1>2 DEF TakeMessage, swarm
  <2>3. queue[c] # <<>> => Head(queue[c]) \in Rpc /\ [queue EXCEPT ![c] = Tail(@)] \in [Class -> Seq(Rpc)]
    BY HeadTyped DEF Substreams, Typed
  <2>4. outbound' \in [state : States, rpc : Rpc]
    BY <2>1, <2>3 DEF Substreams, Typed, States
  <2>5. queue' \in [Class -> Seq(Rpc)] /\ dropped' \subseteq Rpc
    BY <2>1, <2>3 DEF Substreams, Typed, TypeOK
  <2>6. listening' \subseteq Class /\ awake' \in BOOLEAN /\ pc' \in {"idle", "outbound", "inbound", "stale"}
    BY <2>1 DEF Substreams, Typed, TypeOK, Class
  <2> QED
    BY <2>2, <2>4, <2>5, <2>6 DEF Substreams, Bounded, Typed, TypeOK, States
<1>3. CASE SendMessage
  <2>1. UNCHANGED <<mode, inbound, establishing, outAttempts, inAttempts, pc, awake, listening, requests, writable, input, queue, expired, budget, dropped, lost>>
    BY <1>3 DEF SendMessage, swarm, task, Substream, States, NoRpc, Rpc
  <2>2. outbound' \in [state : States, rpc : Rpc]
    <3>1. \/ outbound' = [outbound EXCEPT !.state = "PendingFlush"]
          \/ outbound' = [state |-> "WaitingOutput", rpc |-> NoRpc]
      BY <1>3 DEF SendMessage, Substream
    <3>2. NoRpc \in Rpc
      BY DEF NoRpc, Rpc
    <3> QED
      BY <3>1, <3>2 DEF Substreams, Typed, States
  <2>3. flushed' \in Seq(Rpc)
    <3>1. flushed' = flushed \/ flushed' = Append(flushed, outbound.rpc)
      BY <1>3 DEF SendMessage
    <3>2. flushed \in Seq(Rpc) /\ outbound.rpc \in Rpc
      BY DEF Substreams, Typed, TypeOK
    <3> QED
      BY <3>1, <3>2, AppendProperties
  <2> QED
    BY <2>1, <2>2, <2>3 DEF Substreams, Bounded, Typed, TypeOK, States
<1>4. CASE OutboundFails
  <2>1. UNCHANGED <<mode, inbound, establishing, outAttempts, inAttempts, awake, listening, requests, writable, input, queue, expired, budget, flushed, dropped>>
    BY <1>4 DEF OutboundFails, swarm, Substream, States, NoRpc, Rpc
  <2>2. outbound' \in [state : States, rpc : Rpc]
    BY <1>4 DEF OutboundFails, swarm, Substream, States, NoRpc, Rpc, Substreams, Bounded, Typed, TypeOK
  <2>3. lost' \subseteq Rpc /\ pc' = "inbound"
    BY <1>4 DEF OutboundFails, swarm, Substream, States, NoRpc, Rpc, Substreams, Bounded, Typed, TypeOK
  <2> QED
    BY <2>1, <2>2, <2>3 DEF Substreams, Bounded, Typed, TypeOK, States
<1>5. CASE OutboundPending
  <2>1. UNCHANGED <<mode, outbound, inbound, establishing, outAttempts, inAttempts, awake, listening, requests, writable, input, queue, expired, budget, flushed, dropped, lost>>
    BY <1>5 DEF OutboundPending, swarm, handler, history
  <2>2. pc' = "inbound"
    BY <1>5 DEF OutboundPending, swarm, handler, history, Substreams, Bounded, Typed, TypeOK
  <2> QED
    BY <2>1, <2>2 DEF Substreams, Bounded, Typed, TypeOK, States
<1>6. CASE ReadInput
  <2>1. UNCHANGED <<mode, outbound, establishing, outAttempts, inAttempts, listening, requests, writable, queue, expired, budget, flushed, dropped, lost>>
    BY <1>6 DEF ReadInput, history
  <2>2. input' \in Seq({"rpc", "end"})
    <3>1. input' = input \/ (input # <<>> /\ input' = Tail(input))
      BY <1>6 DEF ReadInput
    <3>2. input \in Seq({"rpc", "end"})
      BY DEF Substreams, Typed, TypeOK
    <3>3. input # <<>> => Tail(input) \in Seq({"rpc", "end"})
      BY <3>2, HeadTailProperties
    <3> QED
      BY <3>1, <3>2, <3>3
  <2>3. inbound' \in {"None", "WaitingInput", "Closing"}
    BY <1>6 DEF ReadInput, history, Substreams, Bounded, Typed, TypeOK
  <2>4. pc' \in {"idle", "inbound", "stale"} /\ awake' \in BOOLEAN
    BY <1>6 DEF ReadInput, history, Substreams, Bounded, Typed, TypeOK
  <2> QED
    BY <2>1, <2>2, <2>3, <2>4 DEF Substreams, Bounded, Typed, TypeOK, States
<1>7. CASE CloseInput
  <2>1. UNCHANGED <<mode, outbound, establishing, outAttempts, inAttempts, awake, listening, requests, writable, input, queue, expired, budget, flushed, dropped, lost>>
    BY <1>7 DEF CloseInput, swarm, history
  <2>2. inbound' \in {"None", "WaitingInput", "Closing"} /\ pc' = "stale"
    BY <1>7 DEF CloseInput, swarm, history, Substreams, Bounded, Typed, TypeOK
  <2> QED
    BY <2>1, <2>2 DEF Substreams, Bounded, Typed, TypeOK, States
<1>8. CASE PollStale
  <2>1. UNCHANGED <<mode, outbound, inbound, establishing, outAttempts, inAttempts, requests, writable, input, expired, budget, flushed, lost>>
    BY <1>8 DEF PollStale, swarm, handler, Empty
  <2>2. listening' \subseteq Class /\ awake' \in BOOLEAN /\ pc' = "idle"
    BY <1>8, HeadTyped DEF PollStale, swarm, handler, Empty, Substreams, Bounded, Typed, TypeOK
  <2>3. queue' \in [Class -> Seq(Rpc)] /\ dropped' \subseteq Rpc
    <3>1. \/ UNCHANGED <<queue, dropped>>
          \/ \E c \in Class : /\ queue[c] # <<>>
                             /\ queue' = [queue EXCEPT ![c] = Tail(@)]
                             /\ dropped' = dropped \cup {Head(queue[c])}
      BY <1>8 DEF PollStale, Class
    <3> QED
      BY <3>1, HeadTyped DEF Substreams, Typed, TypeOK
  <2> QED
    BY <2>1, <2>2, <2>3 DEF Substreams, Bounded, Typed, TypeOK, States
<1>9. ASSUME NEW result \in Results, OutboundEvent(result)
      PROVE  Typed'
  <2>1. UNCHANGED <<inAttempts, pc, listening, input, queue, expired, budget, flushed, dropped>>
    BY <1>9 DEF OutboundEvent, Disable, handler, Substream, States, NoRpc, Rpc
  <2>2. mode' \in {"Enabled", "ProtocolUnsupported", "MaxSubstreamAttempts"}
    BY <1>9 DEF OutboundEvent, Disable, handler, Substream, States, NoRpc, Rpc, Substreams, Bounded, Typed, TypeOK
  <2>3. inbound' \in {"None", "WaitingInput", "Closing"}
    BY <1>9 DEF OutboundEvent, Disable, handler, Substream, States, NoRpc, Rpc, Substreams, Bounded, Typed, TypeOK
  <2>4. outbound' \in [state : States, rpc : Rpc]
    BY <1>9 DEF OutboundEvent, Disable, handler, Substream, States, NoRpc, Rpc, Substreams, Bounded, Typed, TypeOK
  <2>5. lost' \subseteq Rpc
    BY <1>9 DEF OutboundEvent, Disable, handler, Substream, States, NoRpc, Rpc, Substreams, Bounded, Typed, TypeOK
  <2>6. establishing' \in BOOLEAN /\ awake' \in BOOLEAN /\ writable' \in BOOLEAN
    BY <1>9 DEF OutboundEvent, Disable, handler, Substream, States, NoRpc, Rpc, Substreams, Bounded, Typed, TypeOK
  <2>7. outAttempts' \in 0 .. MaxSubstreamAttempts
    BY <1>9 DEF OutboundEvent, Disable, handler, Substream, States, NoRpc, Rpc, Substreams, Bounded, Typed, TypeOK
  <2> QED
    BY <2>1, <2>2, <2>3, <2>4, <2>5, <2>6, <2>7 DEF Substreams, Bounded, Typed, TypeOK, States
<1>10. ASSUME NEW result \in {"ok", "error"}, InboundEvent(result)
      PROVE  Typed'
  <2>1. UNCHANGED <<establishing, outAttempts, pc, listening, requests, writable, queue, expired, budget, flushed, dropped>>
    BY <1>10 DEF InboundEvent, Disable, Substream, States, NoRpc, Rpc
  <2>2. mode' \in {"Enabled", "ProtocolUnsupported", "MaxSubstreamAttempts"}
    BY <1>10 DEF InboundEvent, Disable, Substream, States, NoRpc, Rpc, Substreams, Bounded, Typed, TypeOK
  <2>3. inbound' \in {"None", "WaitingInput", "Closing"}
    BY <1>10 DEF InboundEvent, Disable, Substream, States, NoRpc, Rpc, Substreams, Bounded, Typed, TypeOK
  <2>4. outbound' \in [state : States, rpc : Rpc]
    BY <1>10 DEF InboundEvent, Disable, Substream, States, NoRpc, Rpc, Substreams, Bounded, Typed, TypeOK
  <2>5. lost' \subseteq Rpc
    BY <1>10 DEF InboundEvent, Disable, Substream, States, NoRpc, Rpc, Substreams, Bounded, Typed, TypeOK
  <2>6. awake' \in BOOLEAN /\ input' \in Seq({"rpc", "end"})
    <3>1. awake' = TRUE /\ (input' = input \/ input' = <<>>)
      BY <1>10 DEF InboundEvent
    <3>2. input \in Seq({"rpc", "end"}) /\ <<>> \in Seq({"rpc", "end"})
      BY EmptySeq DEF Substreams, Typed, TypeOK
    <3> QED
      BY <3>1, <3>2
  <2>7. inAttempts' \in 0 .. MaxSubstreamAttempts
    BY <1>10 DEF InboundEvent, Disable, Substream, States, NoRpc, Rpc, Substreams, Bounded, Typed, TypeOK
  <2> QED
    BY <2>1, <2>2, <2>3, <2>4, <2>5, <2>6, <2>7 DEF Substreams, Bounded, Typed, TypeOK, States
<1>11. ASSUME NEW kind \in {"Publish", "Forward", "Control"}, Enqueue(kind)
      PROVE  Typed'
  <2>1. UNCHANGED <<mode, outbound, inbound, establishing, outAttempts, inAttempts, pc, requests, writable, input, expired, flushed, dropped, lost>>
    BY <1>11 DEF Enqueue, handler, swarm, ClassOf, Class, Rpc
  <2>2. queue' \in [Class -> Seq(Rpc)]
    <3> DEFINE m == [kind |-> kind, n |-> budget.sends + 1]
    <3>1. m \in Rpc /\ ClassOf(kind) \in Class /\ queue \in [Class -> Seq(Rpc)]
      BY DEF Rpc, ClassOf, Class, Substreams, Typed, TypeOK
    <3>2. queue' = [queue EXCEPT ![ClassOf(kind)] = Append(@, m)]
      BY <1>11 DEF Enqueue
    <3> QED
      BY <3>1, <3>2
  <2>3. awake' \in BOOLEAN /\ listening' \subseteq Class
    BY <1>11 DEF Enqueue, handler, swarm, ClassOf, Class, Rpc, Substreams, Bounded, Typed, TypeOK
  <2>4. budget' \in [sends : Nat, input : Nat, congestion : Nat]
    <3>1. budget' = [budget EXCEPT !.sends = @ + 1]
      BY <1>11 DEF Enqueue
    <3> QED
      BY <3>1 DEF Substreams, Typed
  <2> QED
    BY <2>1, <2>2, <2>3, <2>4 DEF Substreams, Bounded, Typed, TypeOK, States
<1>12. ASSUME NEW c \in Class, NEW i \in DOMAIN queue[c], TimeoutElapses(c, i)
      PROVE  Typed'
  <2>1. UNCHANGED <<mode, outbound, inbound, establishing, outAttempts, inAttempts, pc, listening, requests, writable, input, queue, budget, flushed, dropped, lost>>
    BY <1>12 DEF TimeoutElapses, handler, swarm, history
  <2>2. expired' \subseteq Rpc /\ awake' \in BOOLEAN
    BY <1>12 DEF TimeoutElapses, handler, swarm, history, Substreams, Bounded, Typed, TypeOK
  <2> QED
    BY <2>1, <2>2 DEF Substreams, Bounded, Typed, TypeOK, States
<1>13. ASSUME NEW item \in {"rpc", "end"}, RemoteWrites(item)
      PROVE  Typed'
  <2>1. UNCHANGED <<mode, outbound, inbound, establishing, outAttempts, inAttempts, pc, listening, requests, writable, queue, expired, flushed, dropped, lost>>
    BY <1>13 DEF RemoteWrites, handler
  <2>2. input' \in Seq({"rpc", "end"}) /\ awake' \in BOOLEAN
    BY <1>13 DEF RemoteWrites, handler, Substreams, Bounded, Typed, TypeOK
  <2>3. budget' \in [sends : Nat, input : Nat, congestion : Nat]
    <3>1. budget' = [budget EXCEPT !.input = @ + 1]
      BY <1>13 DEF RemoteWrites
    <3> QED
      BY <3>1 DEF Substreams, Typed
  <2> QED
    BY <2>1, <2>2, <2>3 DEF Substreams, Bounded, Typed, TypeOK, States
<1>14. CASE Congest
  <2>1. UNCHANGED <<mode, outbound, inbound, establishing, outAttempts, inAttempts, pc, awake, listening, requests, input, queue, expired, flushed, dropped, lost>>
    BY <1>14 DEF Congest, handler, task
  <2>2. writable' = FALSE
    BY <1>14 DEF Congest, handler, task, Substreams, Bounded, Typed, TypeOK
  <2>3. budget' \in [sends : Nat, input : Nat, congestion : Nat]
    <3>1. budget' = [budget EXCEPT !.congestion = @ + 1]
      BY <1>14 DEF Congest
    <3> QED
      BY <3>1 DEF Substreams, Typed
  <2> QED
    BY <2>1, <2>2, <2>3 DEF Substreams, Bounded, Typed, TypeOK, States
<1>15. CASE Drain
  <2>1. UNCHANGED <<mode, outbound, inbound, establishing, outAttempts, inAttempts, pc, listening, requests, input, queue, expired, budget, flushed, dropped, lost>>
    BY <1>15 DEF Drain, handler, history
  <2>2. writable' = TRUE /\ awake' \in BOOLEAN
    BY <1>15 DEF Drain, handler, history, Substreams, Bounded, Typed, TypeOK
  <2> QED
    BY <2>1, <2>2 DEF Substreams, Bounded, Typed, TypeOK, States
<1>16. CASE UNCHANGED vars
  <2>1. UNCHANGED <<mode, outbound, inbound, establishing, outAttempts, inAttempts, pc, awake, listening, requests, writable, input, queue, expired, budget, flushed, dropped, lost>>
    BY <1>16 DEF vars, handler, task, swarm, history
  <2> QED
    BY <2>1 DEF Substreams, Bounded, Typed, TypeOK, States
<1> QED
  BY <1>1, <1>2, <1>3, <1>4, <1>5, <1>6, <1>7, <1>8, <1>9, <1>10, <1>11, <1>12, <1>13, <1>14, <1>15, <1>16 DEF Next, Poll

-----------------------------------------------------------------------------
(* The invariant of the messages.                                          *)

\* Nothing is queued at the start.
LEMMA InitMessages == Init => Messages
<1> SUFFICES ASSUME Init PROVE Messages
  OBVIOUS
<1>1. /\ queue = [c \in Class |-> <<>>] /\ outbound = Substream("None", NoRpc)
      /\ flushed = <<>> /\ dropped = {} /\ lost = {} /\ outAttempts = 0
      /\ budget = [sends |-> 0, input |-> 0, congestion |-> 0]
  BY DEF Init
<1>2. outbound.rpc = NoRpc /\ outbound.state = "None" /\ budget.sends = 0
  BY <1>1 DEF Substream
<1>3. /\ <<>> \in Seq(Rpc) /\ DOMAIN <<>> = {} /\ Len(<<>>) = 0 /\ ToSet(<<>>) = {}
      /\ Cardinality({}) = 0 /\ IsFiniteSet({})
  <2>1. <<>> \in Seq(Rpc) /\ DOMAIN <<>> = {} /\ Len(<<>>) = 0
    BY EmptySeq
  <2> QED
    BY <2>1, FS_EmptySet DEF ToSet
<1>4. /\ queue \in [Class -> Seq(Rpc)] /\ \A c \in Class : queue[c] = <<>>
      /\ queue["priority"] = <<>> /\ queue["nonPriority"] = <<>>
  BY <1>1, <1>3 DEF Class
<1>5. Apart(queue, NoRpc, flushed, dropped, lost, 0)
  <2>1. QueuesOrdered(queue, 0)
    BY <1>3, <1>4 DEF QueuesOrdered
  <2>2. HandOrdered(queue, NoRpc, 0)
    BY DEF HandOrdered, NoRpc, Rpc
  <2>3. WireOrdered(queue, NoRpc, flushed, 0)
    BY <1>1, <1>3 DEF WireOrdered
  <2>4. GoneApart(queue, NoRpc, dropped, 0) /\ GoneApart(queue, NoRpc, lost, 0)
    BY <1>1, <1>3 DEF GoneApart
  <2> QED
    BY <2>1, <2>2, <2>3, <2>4 DEF Apart
<1>6. Complete(queue, NoRpc, flushed, dropped, lost, 0)
  <2>1. Held(NoRpc) = {}
    BY DEF Held
  <2>2. Everywhere(queue, NoRpc, flushed, dropped, lost) = {}
    BY <1>1, <1>3, <1>4, <2>1 DEF Everywhere, InQueues
  <2>3. {m.n : m \in Everywhere(queue, NoRpc, flushed, dropped, lost)} = 1 .. 0
    BY <2>2
  <2>4. Fill(queue) = 0
    BY <1>3, <1>4 DEF Fill
  <2>5. /\ Cardinality(Held(NoRpc)) = 0 /\ Len(flushed) = 0
        /\ Cardinality(dropped) = 0 /\ Cardinality(lost) = 0
    BY <1>1, <1>3, <2>1
  <2>6. 0 = Fill(queue) + Cardinality(Held(NoRpc)) + Len(flushed) + Cardinality(dropped)
            + Cardinality(lost)
    BY <2>4, <2>5
  <2> QED
    BY <2>3, <2>6 DEF Complete
<1> QED
  BY <1>1, <1>2, <1>3, <1>5, <1>6 DEF Messages, Placed

\* Every action moves a message from one place to the next, or none.
LEMMA NextMessages ==
  ASSUME Substreams, Messages, [Next]_vars, Bounded'
  PROVE  Messages'
<1> DEFINE Same == /\ UNCHANGED <<queue, outbound, flushed, dropped, lost, outAttempts>>
                   /\ budget'.sends = budget.sends
<1>1. ASSUME Same PROVE Messages'
  BY <1>1 DEF Messages
<1>2. /\ Placed(queue, outbound.rpc, flushed, dropped, lost, budget.sends)
      /\ outbound.state \in {"None", "WaitingOutput"} <=> outbound.rpc = NoRpc
      /\ Cardinality(lost) + (IF outbound.state = "None" THEN 0 ELSE 1) <= outAttempts
      /\ outbound \in [state : States, rpc : Rpc] /\ queue \in [Class -> Seq(Rpc)]
      /\ outAttempts \in Nat /\ Cardinality(lost) \in Nat
  <2>1. Cardinality(lost) \in Nat
    BY HandLost DEF Messages
  <2> QED
    BY <2>1, HandlerAssumption DEF Messages, Substreams, Typed, TypeOK
<1>3. CASE TakeMessage
  <2>1. /\ outbound.state = "WaitingOutput" /\ outbound.rpc = NoRpc
        /\ UNCHANGED <<outAttempts, budget, flushed, lost>>
    BY <1>2, <1>3 DEF TakeMessage
  <2>2. \/ UNCHANGED <<queue, outbound, dropped>>
        \/ \E c \in Class :
             /\ queue[c] # <<>> /\ queue' = Rest(queue, c)
             /\ \/ dropped' = dropped \cup {Head(queue[c])} /\ UNCHANGED outbound
                \/ outbound' = Substream("PendingSend", Head(queue[c])) /\ UNCHANGED dropped
    BY <1>3 DEF TakeMessage, Class, Rest
  <2>3. CASE UNCHANGED <<queue, outbound, dropped>>
    BY <1>1, <2>1, <2>3
  <2>4. ASSUME NEW c \in Class, queue[c] # <<>>, queue' = Rest(queue, c),
               dropped' = dropped \cup {Head(queue[c])}, UNCHANGED outbound
        PROVE  Messages'
    <3>1. Placed(Rest(queue, c), outbound.rpc, flushed, dropped \cup {Head(queue[c])}, lost,
                 budget.sends)
      BY <1>2, <2>4, HeadDropped
    <3> QED
      BY <1>2, <2>1, <2>4, <3>1 DEF Messages
  <2>5. ASSUME NEW c \in Class, queue[c] # <<>>, queue' = Rest(queue, c), UNCHANGED dropped,
               outbound' = Substream("PendingSend", Head(queue[c]))
        PROVE  Messages'
    <3>1. /\ Placed(Rest(queue, c), Head(queue[c]), flushed, dropped, lost, budget.sends)
          /\ Head(queue[c]) # NoRpc
      BY <1>2, <2>1, <2>5, HeadToHand
    <3>2. outbound'.rpc = Head(queue[c]) /\ outbound'.state = "PendingSend"
      BY <2>5 DEF Substream
    <3> QED
      BY <1>2, <2>1, <2>5, <3>1, <3>2 DEF Messages
  <2> QED
    BY <2>2, <2>3, <2>4, <2>5
<1>4. CASE SendMessage
  <2>1. /\ UNCHANGED <<queue, outAttempts, budget, dropped, lost>>
        /\ \/ /\ outbound.state = "PendingSend" /\ UNCHANGED flushed
              /\ outbound' = [outbound EXCEPT !.state = "PendingFlush"]
           \/ /\ outbound.state = "PendingFlush" /\ flushed' = Append(flushed, outbound.rpc)
              /\ outbound' = Substream("WaitingOutput", NoRpc)
    BY <1>4 DEF SendMessage
  <2>2. ASSUME outbound.state = "PendingSend", UNCHANGED flushed,
               outbound' = [outbound EXCEPT !.state = "PendingFlush"]
        PROVE  Messages'
    <3>1. outbound'.rpc = outbound.rpc /\ outbound'.state = "PendingFlush"
      BY <1>2, <2>2
    <3> QED
      BY <1>2, <2>1, <2>2, <3>1 DEF Messages
  <2>3. ASSUME outbound.state = "PendingFlush", flushed' = Append(flushed, outbound.rpc),
               outbound' = Substream("WaitingOutput", NoRpc)
        PROVE  Messages'
    <3>1. outbound'.rpc = NoRpc /\ outbound'.state = "WaitingOutput"
      BY <2>3 DEF Substream
    <3>2. Placed(queue, NoRpc, Append(flushed, outbound.rpc), dropped, lost, budget.sends)
      BY <1>2, <2>3, HandFlushed
    <3> QED
      BY <1>2, <2>1, <2>3, <3>1, <3>2 DEF Messages
  <2> QED
    BY <2>1, <2>2, <2>3
<1>5. ASSUME UNCHANGED <<queue, flushed, dropped>>, budget'.sends = budget.sends,
             outAttempts' \in Nat, outAttempts' >= outAttempts,
             outbound' = Substream("None", NoRpc), lost' = lost \cup Held(outbound.rpc)
      PROVE  Messages'
  <2>1. /\ Placed(queue, NoRpc, flushed, dropped, lost \cup Held(outbound.rpc), budget.sends)
        /\ Cardinality(lost \cup Held(outbound.rpc))
             = Cardinality(lost) + (IF outbound.rpc = NoRpc THEN 0 ELSE 1)
    <3>1. Placed(queue, outbound.rpc, flushed, dropped, lost, budget.sends)
      BY <1>2
    <3>2. Placed(queue, NoRpc, flushed, dropped, lost \cup Held(outbound.rpc), budget.sends)
      BY <3>1, HandLost, Zenon
    <3>3. outbound.rpc = NoRpc => Cardinality(lost \cup Held(outbound.rpc)) = Cardinality(lost)
      BY <3>1, HandLost
    <3>4. outbound.rpc # NoRpc => Cardinality(lost \cup Held(outbound.rpc)) = Cardinality(lost) + 1
      BY <3>1, HandLost
    <3> QED
      BY <1>2, <3>2, <3>3, <3>4
  <2>2. outbound'.rpc = NoRpc /\ outbound'.state = "None"
    BY <1>5 DEF Substream
  <2>3. Cardinality(lost') <= outAttempts'
    <3>1. outbound.rpc # NoRpc => outbound.state # "None"
      BY <1>2
    <3> QED
      BY <1>2, <1>5, <2>1, <3>1
  <2> QED
    BY <1>2, <1>5, <2>1, <2>2, <2>3 DEF Messages
<1>6. CASE OutboundFails
  <2>1. /\ outbound.state \in {"PendingSend", "PendingFlush"}
        /\ UNCHANGED <<queue, flushed, dropped, budget, outAttempts>>
        /\ outbound' = Substream("None", NoRpc) /\ lost' = lost \cup {outbound.rpc}
    BY <1>6 DEF OutboundFails
  <2>2. Held(outbound.rpc) = {outbound.rpc}
    BY <1>2, <2>1 DEF Held
  <2> QED
    BY <1>2, <1>5, <2>1, <2>2
<1>7. CASE PollStale
  <2>1. UNCHANGED <<outbound, outAttempts, budget, flushed, lost>>
    BY <1>7 DEF PollStale, handler
  <2>2. \/ UNCHANGED <<queue, dropped>>
        \/ \E c \in Class : /\ queue[c] # <<>> /\ queue' = Rest(queue, c)
                           /\ dropped' = dropped \cup {Head(queue[c])}
    BY <1>7 DEF PollStale, Class, Rest
  <2>3. ASSUME NEW c \in Class, queue[c] # <<>>, queue' = Rest(queue, c),
               dropped' = dropped \cup {Head(queue[c])}
        PROVE  Messages'
    <3>1. Placed(Rest(queue, c), outbound.rpc, flushed, dropped \cup {Head(queue[c])}, lost,
                 budget.sends)
      BY <1>2, <2>3, HeadDropped
    <3> QED
      BY <1>2, <2>1, <2>3, <3>1 DEF Messages
  <2> QED
    BY <1>1, <2>1, <2>2, <2>3
<1>8. ASSUME NEW result \in Results, OutboundEvent(result)
      PROVE  Messages'
  <2>1. requests > 0 /\ UNCHANGED <<queue, flushed, dropped, budget>>
    BY <1>8 DEF OutboundEvent
  <2>2. \/ UNCHANGED <<outbound, lost>> /\ outAttempts' \in {outAttempts, outAttempts + 1}
        \/ /\ mode = "Enabled" /\ outAttempts' = outAttempts + 1 /\ UNCHANGED lost
           /\ outbound' = Substream("WaitingOutput", NoRpc)
        \/ /\ outAttempts' = outAttempts + 1
           /\ outbound' = Substream("None", NoRpc) /\ lost' = lost \cup Held(outbound.rpc)
    BY <1>8 DEF OutboundEvent, Disable, handler, Held
  <2>3. CASE UNCHANGED <<outbound, lost>> /\ outAttempts' \in {outAttempts, outAttempts + 1}
    BY <1>2, <2>1, <2>3 DEF Messages
  <2>4. CASE /\ mode = "Enabled" /\ outAttempts' = outAttempts + 1 /\ UNCHANGED lost
             /\ outbound' = Substream("WaitingOutput", NoRpc)
    <3>1. outbound.state = "None" /\ outbound.rpc = NoRpc
      BY <1>2, <2>1, <2>4 DEF Substreams, NoSecondSubstream
    <3>2. outbound'.state = "WaitingOutput" /\ outbound'.rpc = NoRpc
      BY <2>4 DEF Substream
    <3> QED
      BY <1>2, <2>1, <2>4, <3>1, <3>2 DEF Messages
  <2>5. CASE /\ outAttempts' = outAttempts + 1
             /\ outbound' = Substream("None", NoRpc) /\ lost' = lost \cup Held(outbound.rpc)
    BY <1>2, <1>5, <2>1, <2>5
  <2> QED
    BY <2>2, <2>3, <2>4, <2>5
<1>9. ASSUME NEW result \in {"ok", "error"}, InboundEvent(result)
      PROVE  Messages'
  <2>1. UNCHANGED <<queue, flushed, dropped, budget, outAttempts>>
    BY <1>9 DEF InboundEvent
  <2>2. \/ UNCHANGED <<outbound, lost>>
        \/ outbound' = Substream("None", NoRpc) /\ lost' = lost \cup Held(outbound.rpc)
    BY <1>9 DEF InboundEvent, Disable, Held
  <2> QED
    BY <1>1, <1>2, <1>5, <2>1, <2>2
<1>10. ASSUME NEW kind \in {"Publish", "Forward", "Control"}, Enqueue(kind)
       PROVE  Messages'
  <2> DEFINE m == [kind |-> kind, n |-> budget.sends + 1]
             c == ClassOf(kind)
  <2>1. UNCHANGED <<outbound, outAttempts, flushed, dropped, lost>>
    BY <1>10 DEF Enqueue, handler
  <2>2. /\ budget' = [budget EXCEPT !.sends = @ + 1]
        /\ queue' = [queue EXCEPT ![c] = Append(@, m)]
    BY <1>10 DEF Enqueue
  <2>3. budget'.sends = budget.sends + 1 /\ budget.sends \in Nat
    BY <2>2 DEF Substreams, Typed
  <2>4. m \in Rpc /\ m.n = budget.sends + 1 /\ c \in Class /\ c = ClassOf(m.kind)
    BY <2>3 DEF Rpc, ClassOf, Class
  <2> HIDE DEF m, c
  <2>5. Placed(queue', outbound.rpc, flushed, dropped, lost, budget.sends + 1)
    BY <1>2, <2>2, <2>4, MessageQueued
  <2> QED
    BY <1>2, <2>1, <2>3, <2>5 DEF Messages
<1>11. CASE PollStart \/ OutboundPending \/ ReadInput \/ CloseInput
  BY <1>1, <1>11 DEF PollStart, OutboundPending, ReadInput, CloseInput, handler, history
<1>12. ASSUME NEW c \in Class, NEW i \in DOMAIN queue[c], TimeoutElapses(c, i)
       PROVE  Messages'
  BY <1>1, <1>12 DEF TimeoutElapses, handler, history
<1>13. CASE Congest \/ \E item \in {"rpc", "end"} : RemoteWrites(item)
  <2>1. /\ UNCHANGED <<queue, outbound, flushed, dropped, lost, outAttempts>>
        /\ \/ budget' = [budget EXCEPT !.congestion = @ + 1]
           \/ budget' = [budget EXCEPT !.input = @ + 1]
    BY <1>13 DEF Congest, RemoteWrites, handler
  <2>2. budget'.sends = budget.sends
    BY <2>1 DEF Substreams, Typed
  <2> QED
    BY <1>1, <2>1, <2>2
<1>14. CASE Drain
  BY <1>1, <1>14 DEF Drain, handler, history
<1>15. CASE UNCHANGED vars
  BY <1>1, <1>15 DEF vars, handler, history
<1> QED
  BY <1>3, <1>4, <1>6, <1>7, <1>8, <1>9, <1>10, <1>11, <1>12, <1>13, <1>14, <1>15 DEF Next, Poll

-----------------------------------------------------------------------------
(* The theorems.                                                           *)

\* The handler starts enabled, without substreams and without requests.
LEMMA InitSubstreams == Init => Substreams
<1> SUFFICES ASSUME Init PROVE Substreams
  OBVIOUS
<1>1. /\ <<>> \in Seq(Rpc) /\ <<>> \in Seq({"rpc", "end"}) /\ NoRpc \in Rpc
  BY EmptySeq DEF NoRpc, Rpc
<1>2. Typed
  <2>1. /\ outbound \in [state : States, rpc : Rpc]
        /\ budget \in [sends : Nat, input : Nat, congestion : Nat]
    BY <1>1 DEF Init, Substream, States
  <2>2. queue \in [Class -> Seq(Rpc)] /\ flushed \in Seq(Rpc) /\ input \in Seq({"rpc", "end"})
    BY <1>1 DEF Init
  <2>3. /\ outAttempts \in 0 .. MaxSubstreamAttempts /\ inAttempts \in 0 .. MaxSubstreamAttempts
        /\ requests \in 0 .. MaxSubstreamAttempts
    BY HandlerAssumption DEF Init
  <2>4. /\ mode = "Enabled" /\ inbound = "None" /\ pc = "idle"
        /\ establishing \in BOOLEAN /\ awake \in BOOLEAN /\ writable \in BOOLEAN
        /\ listening \subseteq Class /\ expired \cup dropped \cup lost \subseteq Rpc
    BY DEF Init
  <2> QED
    BY <2>1, <2>2, <2>3, <2>4 DEF Typed, TypeOK, States
<1>3. Bounded /\ NoSecondSubstream
  BY HandlerAssumption DEF Init, Bounded, NoSecondSubstream, Substream
<1> QED
  BY <1>2, <1>3 DEF Substreams

\* The types and the attempts are inductive together with the assertion.
THEOREM SubstreamsInvariant == Spec => []Substreams
<1>1. Substreams /\ [Next]_vars => Substreams'
  BY NextBounded, NextTyped DEF Substreams
<1> QED
  BY InitSubstreams, <1>1, PTL DEF Spec

\* Where the messages are, at every moment.
THEOREM MessagesInvariant == Spec => []Messages
<1>1. Substreams /\ Messages /\ Substreams' /\ [Next]_vars => Messages'
  BY NextMessages DEF Substreams
<1> QED
  BY InitMessages, SubstreamsInvariant, <1>1, PTL DEF Spec

\* The substream states and the attempts, whatever the limits are.
THEOREM HandlerTypes == Spec => []TypeOK
<1>1. Substreams => TypeOK
  BY DEF Substreams, Typed
<1> QED
  BY SubstreamsInvariant, <1>1, PTL

\* The swarm never owes an enabled handler a substream that it already has,
\* or two of them: the assertion of on_fully_negotiated_outbound holds.
THEOREM SecondSubstreamNeverComes == Spec => []NoSecondSubstream
<1>1. Substreams => NoSecondSubstream
  BY DEF Substreams
<1> QED
  BY SubstreamsInvariant, <1>1, PTL

\* Across failures and new substreams a class reaches the wire in the order
\* in which it was queued.
THEOREM WireKeepsOrder == Spec => []WireInOrder
<1>1. Messages => WireInOrder
  BY DEF Messages, Placed, Apart, WireOrdered, WireInOrder
<1> QED
  BY MessagesInvariant, <1>1, PTL

\* Every message queued is in one place: queued, in hand, on the wire, reported
\* as dropped, or the one casualty of an attempt.
THEOREM MessagesAreAccounted == Spec => []MessagesAccounted
<1>1. Substreams /\ Messages => MessagesAccounted
  <2> SUFFICES ASSUME Substreams, Messages PROVE MessagesAccounted
    OBVIOUS
  <2>1. /\ Placed(queue, outbound.rpc, flushed, dropped, lost, budget.sends)
        /\ Complete(queue, outbound.rpc, flushed, dropped, lost, budget.sends)
    BY DEF Messages, Placed
  <2>2. /\ Everywhere(queue, outbound.rpc, flushed, dropped, lost)
             = Queued \cup InHand \cup ToSet(flushed) \cup dropped \cup lost
        /\ Held(outbound.rpc) = InHand
        /\ Fill(queue) = Len(queue["priority"]) + Len(queue["nonPriority"])
    BY DEF Everywhere, InQueues, Held, Queued, InHand, Fill
  <2>3. Cardinality(lost) + Cardinality(InHand) <= outAttempts
    <3>1. /\ Cardinality(lost) \in Nat
          /\ Cardinality(Held(outbound.rpc)) = IF outbound.rpc = NoRpc THEN 0 ELSE 1
      BY <2>1, HandLost, Zenon
    <3>5. outAttempts \in Nat
      BY HandlerAssumption DEF Substreams, Typed, TypeOK
    <3>2. /\ outbound.state \in {"None", "WaitingOutput"} <=> outbound.rpc = NoRpc
          /\ Cardinality(lost) + (IF outbound.state = "None" THEN 0 ELSE 1) <= outAttempts
      BY DEF Messages
    <3>3. CASE outbound.rpc = NoRpc
      <4>1. Cardinality(InHand) = 0 /\ Cardinality(lost) <= outAttempts
        BY <2>2, <3>1, <3>2, <3>3, <3>5
      <4> QED
        BY <3>1, <4>1
    <3>4. CASE outbound.rpc # NoRpc
      BY <2>2, <3>1, <3>2, <3>4
    <3> QED
      BY <3>3, <3>4
  <2> QED
    BY <2>1, <2>2, <2>3 DEF Complete, MessagesAccounted
<1> QED
  BY SubstreamsInvariant, MessagesInvariant, <1>1, PTL
=============================================================================
