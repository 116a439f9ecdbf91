-------------------------- MODULE SendQueueProofs --------------------------
(***************************************************************************)
(* The send queue of one peer (dog/src/rpc.rs), for every capacity, any    *)
(* number of connections to the peer and of sends.                         *)
(*                                                                         *)
(* The counter: although the sender loads and stores it separately while   *)
(* receivers subtract from it, it never stands for fewer Publishes than    *)
(* are queued.  Hence fetch_sub does not wrap below zero, and the          *)
(* unbounded channel holds at most priority_cap Publishes.  The counting   *)
(* needs that no message is queued twice, in the channel or in the slots   *)
(* of the receivers (Separate): only then does taking one Publish leave    *)
(* one less.                                                               *)
(*                                                                         *)
(* The history: what a channel holds was sent after what the slots in      *)
(* front of it keep, and that after what their Receivers returned          *)
(* (InLine); and the rpcs of one call, wherever they are, add up to one    *)
(* (Sole), so that what a Receiver takes was in no other place.            *)
(***************************************************************************)
EXTENDS SendQueue, FiniteSetTheorems, SequenceTheorems, TLAPS

MaybeRpc == Rpc \cup {NoRpc}

\* The types of everything but second, which says what a task does next and
\* nothing of the queue.
QueueTypes ==
  /\ len \in Nat
  /\ priority \in Seq(Rpc) /\ nonPriority \in Seq(Rpc)
  /\ peeked \in [Receiver -> [p : Rpc \cup {NoRpc}, f : Rpc \cup {NoRpc}]]
  /\ open \subseteq Receiver /\ popped \subseteq open
  /\ sender \in [pc : {"idle", "store", "push"}, n : Nat, read : Nat]
  /\ calls \in Nat
  /\ refused \subseteq Rpc /\ discarded \subseteq Rpc
  /\ taken \in [Receiver -> Seq(Rpc)]

\* The messages at the head of each Receiver's priority Peekable.
SlotsP == [r \in Receiver |-> peeked[r].p]

\* The Publishes in a channel and in slots.
Pubs(q, s) ==
  {m \in ToSet(q) \cup {s[r] : r \in Receiver} : m # NoRpc /\ m.kind = "Publish"}

\* Nothing is queued twice.
Separate(q, s) ==
  /\ \A i, j \in DOMAIN q : q[i] = q[j] => i = j
  /\ \A r \in Receiver : s[r] # NoRpc =>
       /\ s[r] \notin ToSet(q)
       /\ \A x \in Receiver : s[x] = s[r] => x = r

\* What is queued was sent by an earlier call than the one under way.
Earlier(q, s, k) ==
  /\ \A m \in ToSet(q) : m.n < k
  /\ \A r \in Receiver : s[r] # NoRpc => s[r].n < k

\* From a queue <<q, s>> to <<w, u>> nothing is added and nothing doubled.
Reduced(q, s, w, u) ==
  /\ w \in Seq(Rpc) /\ u \in [Receiver -> MaybeRpc]
  /\ Separate(w, u)
  /\ Pubs(w, u) \subseteq Pubs(q, s)
  /\ \A k : Earlier(q, s, k) => Earlier(w, u, k)

-----------------------------------------------------------------------------
(* Sequences and slots.                                                    *)

\* The head of a channel and what is left.
LEMMA HeadAndTail ==
  ASSUME NEW q \in Seq(Rpc), q # <<>>
  PROVE  /\ Head(q) \in Rpc /\ Tail(q) \in Seq(Rpc)
         /\ ToSet(q) = {Head(q)} \cup ToSet(Tail(q))
         /\ (\A i, j \in DOMAIN q : q[i] = q[j] => i = j) =>
              /\ Head(q) \notin ToSet(Tail(q))
              /\ \A i, j \in DOMAIN Tail(q) : Tail(q)[i] = Tail(q)[j] => i = j
<1>1. Len(q) \in Nat /\ Len(q) > 0 /\ DOMAIN q = 1 .. Len(q) /\ Head(q) = q[1] /\ q[1] \in Rpc
  <2>1. Len(q) \in Nat /\ Len(q) # 0 /\ DOMAIN q = 1 .. Len(q)
    BY EmptySeq, LenProperties
  <2>2. Len(q) > 0 /\ 1 \in 1 .. Len(q)
    BY <2>1
  <2>3. q[1] \in Rpc
    BY <2>1, <2>2, ElementOfSeq
  <2> QED
    BY <2>1, <2>2, <2>3
<1>2. /\ Tail(q) \in Seq(Rpc)
      /\ DOMAIN Tail(q) = 1 .. (Len(q) - 1)
      /\ \A j \in 1 .. (Len(q) - 1) : Tail(q)[j] = q[j + 1]
  OBVIOUS
<1> DEFINE w == Tail(q)
<1>3. ToSet(q) = {q[1]} \cup ToSet(w)
  <2> HIDE DEF w
  <2>1. \A i \in 1 .. Len(q) : i = 1 \/ (i - 1 \in DOMAIN w /\ w[i - 1] = q[i])
    BY <1>1, <1>2 DEF w
  <2>2. \A j \in DOMAIN w : j + 1 \in 1 .. Len(q) /\ w[j] = q[j + 1]
    BY <1>1, <1>2 DEF w
  <2>3. 1 \in 1 .. Len(q)
    BY <1>1
  <2> QED
    BY <2>1, <2>2, <2>3, <1>1 DEF ToSet
<1>4. ASSUME \A i, j \in DOMAIN q : q[i] = q[j] => i = j
      PROVE  /\ q[1] \notin ToSet(w)
             /\ \A i, j \in DOMAIN w : w[i] = w[j] => i = j
  <2> HIDE DEF w
  <2>1. \A j \in DOMAIN w : j \in Nat /\ j > 0 /\ j + 1 \in DOMAIN q /\ w[j] = q[j + 1]
    BY <1>1, <1>2 DEF w
  <2>2. 1 \in DOMAIN q
    BY <1>1
  <2>3. \A j \in DOMAIN w : q[1] # w[j]
    BY <2>1, <2>2, <1>4
  <2>4. \A i, j \in DOMAIN w : w[i] = w[j] => i + 1 = j + 1
    BY <2>1, <1>4
  <2>5. \A i, j \in DOMAIN w : i + 1 = j + 1 => i = j
    BY <2>1
  <2> QED
    BY <2>3, <2>4, <2>5 DEF ToSet
<1> QED
  BY <1>1, <1>2, <1>3, <1>4

\* A message put at the end of a channel that does not hold it.
LEMMA AppendNew ==
  ASSUME NEW q \in Seq(Rpc), NEW m \in Rpc, m \notin ToSet(q),
         \A i, j \in DOMAIN q : q[i] = q[j] => i = j
  PROVE  /\ Append(q, m) \in Seq(Rpc)
         /\ ToSet(Append(q, m)) = ToSet(q) \cup {m}
         /\ \A i, j \in DOMAIN Append(q, m) : Append(q, m)[i] = Append(q, m)[j] => i = j
<1> DEFINE w == Append(q, m)
<1>1. /\ w \in Seq(Rpc)
      /\ DOMAIN w = DOMAIN q \cup {Len(q) + 1}
      /\ w[Len(q) + 1] = m
      /\ \A i \in DOMAIN q : w[i] = q[i]
  OBVIOUS
<1> HIDE DEF w
<1>2. ToSet(w) = ToSet(q) \cup {m}
  BY <1>1 DEF ToSet
<1>3. \A i \in DOMAIN q : q[i] # m
  BY DEF ToSet
<1>4. \A i, j \in DOMAIN w : w[i] = w[j] => i = j
  BY <1>1, <1>3
<1> QED
  BY <1>1, <1>2, <1>4 DEF w

\* The Publishes that are queued are finitely many.
LEMMA PubsFinite ==
  ASSUME NEW q \in Seq(Rpc), NEW s \in [Receiver -> MaybeRpc]
  PROVE  IsFiniteSet(Pubs(q, s)) /\ Cardinality(Pubs(q, s)) \in Nat
<1>1. IsFiniteSet(ToSet(q))
  <2>1. IsFiniteSet(DOMAIN q)
    <3>1. DOMAIN q = 1 .. Len(q) /\ Len(q) \in Nat
      BY LenProperties
    <3> QED
      BY <3>1, FS_Interval
  <2>2. q \in Surjection(DOMAIN q, ToSet(q))
    BY DEF Surjection, ToSet
  <2> QED
    BY <2>1, <2>2, FS_Surjection
<1>2. IsFiniteSet({s[r] : r \in Receiver})
  <2>1. s \in Surjection(Receiver, {s[r] : r \in Receiver})
    BY DEF Surjection
  <2> QED
    BY <2>1, QueueAssumption, FS_Surjection
<1>3. IsFiniteSet(ToSet(q) \cup {s[r] : r \in Receiver})
  BY <1>1, <1>2, FS_Union
<1>4. Pubs(q, s) \subseteq ToSet(q) \cup {s[r] : r \in Receiver}
  BY DEF Pubs
<1>5. IsFiniteSet(Pubs(q, s))
  BY <1>3, <1>4, FS_Subset
<1> QED
  BY <1>5, FS_CardinalityType

\* poll_peek puts the head of the channel into an empty slot: nothing is
\* queued that was not, and nothing twice.
LEMMA PeekKeeps ==
  ASSUME NEW q \in Seq(Rpc), NEW s \in [Receiver -> MaybeRpc], Separate(q, s),
         NEW r \in Receiver
  PROVE  Reduced(q, s, AfterPeek(s[r], q), [s EXCEPT ![r] = Peek(s[r], q)])
<1> DEFINE w == AfterPeek(s[r], q)
           u == [s EXCEPT ![r] = Peek(s[r], q)]
<1>0. w = AfterPeek(s[r], q) /\ u = [s EXCEPT ![r] = Peek(s[r], q)]
  OBVIOUS
<1> HIDE DEF w, u
<1> SUFFICES Reduced(q, s, w, u)
  BY <1>0
<1>1. CASE s[r] # NoRpc \/ q = <<>>
  <2>1. w = q /\ u = s
    BY <1>0, <1>1 DEF AfterPeek, Peek
  <2> QED
    BY <2>1 DEF Reduced
<1>2. CASE s[r] = NoRpc /\ q # <<>>
  <2>1. w = Tail(q) /\ u = [s EXCEPT ![r] = Head(q)]
    BY <1>0, <1>2 DEF AfterPeek, Peek
  <2>2. /\ Head(q) \in Rpc /\ w \in Seq(Rpc)
        /\ ToSet(q) = {Head(q)} \cup ToSet(w)
        /\ Head(q) \notin ToSet(w)
        /\ \A i, j \in DOMAIN w : w[i] = w[j] => i = j
    <3>1. \A i, j \in DOMAIN q : q[i] = q[j] => i = j
      BY DEF Separate
    <3> QED
      BY <1>2, <2>1, <3>1, HeadAndTail
  <2>3. /\ u \in [Receiver -> MaybeRpc] /\ u[r] = Head(q)
        /\ \A x \in Receiver \ {r} : u[x] = s[x]
    BY <2>1, <2>2 DEF MaybeRpc
  <2>4. \A x \in Receiver : s[x] # NoRpc => s[x] \notin ToSet(w) /\ s[x] # Head(q)
    BY <2>2 DEF Separate
  <2>5. Separate(w, u)
    BY <1>2, <2>2, <2>3, <2>4 DEF Separate
  <2>6. Pubs(w, u) \subseteq Pubs(q, s)
    BY <2>2, <2>3 DEF Pubs
  <2>7. \A k : Earlier(q, s, k) => Earlier(w, u, k)
    BY <2>2, <2>3 DEF Earlier
  <2> QED
    BY <2>2, <2>3, <2>5, <2>6, <2>7 DEF Reduced
<1> QED
  BY <1>1, <1>2

\* Taking the message that a poll_peek finds removes exactly that one.
LEMMA PeekTakes ==
  ASSUME NEW q \in Seq(Rpc), NEW s \in [Receiver -> MaybeRpc], Separate(q, s),
         NEW r \in Receiver, Peek(s[r], q) # NoRpc
  PROVE  /\ Reduced(q, s, AfterPeek(s[r], q), [s EXCEPT ![r] = NoRpc])
         /\ Pubs(AfterPeek(s[r], q), [s EXCEPT ![r] = NoRpc])
              \subseteq Pubs(q, s) \ {Peek(s[r], q)}
         /\ Peek(s[r], q).kind = "Publish" => Peek(s[r], q) \in Pubs(q, s)
<1> DEFINE m == Peek(s[r], q)
           w == AfterPeek(s[r], q)
           u == [s EXCEPT ![r] = NoRpc]
<1>0. m = Peek(s[r], q) /\ w = AfterPeek(s[r], q) /\ u = [s EXCEPT ![r] = NoRpc] /\ m # NoRpc
  OBVIOUS
<1> HIDE DEF m, w, u
<1> SUFFICES /\ Reduced(q, s, w, u)
             /\ Pubs(w, u) \subseteq Pubs(q, s) \ {m}
             /\ m.kind = "Publish" => m \in Pubs(q, s)
  BY <1>0
<1>1. /\ u \in [Receiver -> MaybeRpc] /\ u[r] = NoRpc
      /\ \A x \in Receiver \ {r} : u[x] = s[x]
  BY <1>0 DEF MaybeRpc
<1>2. CASE s[r] # NoRpc
  <2>1. w = q /\ m = s[r]
    BY <1>0, <1>2 DEF AfterPeek, Peek
  <2>2. m \in Rpc /\ m \notin ToSet(q) /\ \A x \in Receiver \ {r} : s[x] # m
    BY <1>0, <1>2, <2>1 DEF Separate, MaybeRpc
  <2>3. Separate(w, u)
    BY <1>1, <2>1 DEF Separate
  <2>4. Pubs(w, u) \subseteq Pubs(q, s) \ {m}
    BY <1>1, <2>1, <2>2 DEF Pubs
  <2>5. m.kind = "Publish" => m \in Pubs(q, s)
    BY <1>0, <2>1 DEF Pubs
  <2>6. \A k : Earlier(q, s, k) => Earlier(w, u, k)
    BY <1>1, <2>1 DEF Earlier
  <2> QED
    BY <1>1, <2>1, <2>2, <2>3, <2>4, <2>5, <2>6 DEF Reduced
<1>3. CASE s[r] = NoRpc
  <2>1. q # <<>> /\ m = Head(q) /\ w = Tail(q)
    BY <1>0, <1>3 DEF AfterPeek, Peek
  <2>2. /\ m \in Rpc /\ w \in Seq(Rpc)
        /\ ToSet(q) = {m} \cup ToSet(w)
        /\ m \notin ToSet(w)
        /\ \A i, j \in DOMAIN w : w[i] = w[j] => i = j
    <3>1. \A i, j \in DOMAIN q : q[i] = q[j] => i = j
      BY DEF Separate
    <3> QED
      BY <2>1, <3>1, HeadAndTail
  <2>3. \A x \in Receiver : s[x] # NoRpc => s[x] \notin ToSet(w) /\ s[x] # m
    BY <2>2 DEF Separate
  <2>4. Separate(w, u)
    BY <1>1, <2>2, <2>3 DEF Separate
  <2>5. Pubs(w, u) \subseteq Pubs(q, s) \ {m}
    BY <1>1, <2>2, <2>3 DEF Pubs
  <2>6. m.kind = "Publish" => m \in Pubs(q, s)
    BY <1>0, <2>2 DEF Pubs
  <2>7. \A k : Earlier(q, s, k) => Earlier(w, u, k)
    BY <1>1, <2>2 DEF Earlier
  <2> QED
    BY <1>1, <2>2, <2>4, <2>5, <2>6, <2>7 DEF Reduced
<1> QED
  BY <1>2, <1>3

\* A Receiver that is dropped takes its slot with it.
LEMMA SlotDropped ==
  ASSUME NEW q \in Seq(Rpc), NEW s \in [Receiver -> MaybeRpc], Separate(q, s),
         NEW r \in Receiver
  PROVE  Reduced(q, s, q, [s EXCEPT ![r] = NoRpc])
<1> DEFINE u == [s EXCEPT ![r] = NoRpc]
<1>1. /\ u \in [Receiver -> MaybeRpc] /\ u[r] = NoRpc
      /\ \A x \in Receiver \ {r} : u[x] = s[x]
  BY DEF MaybeRpc
<1> HIDE DEF u
<1>2. Reduced(q, s, q, u)
  BY <1>1 DEF Reduced, Separate, Pubs, Earlier
<1> QED
  BY <1>2 DEF u

-----------------------------------------------------------------------------
(* The inductive invariant.                                                *)

\* The number that the next message to be queued will have.
NextNumber == IF sender.pc = "idle" THEN calls + 1 ELSE sender.n

\* What is queued, and the number of the send under way.
Content ==
  /\ Separate(priority, SlotsP)
  /\ Earlier(priority, SlotsP, NextNumber)
  /\ sender.pc # "idle" => sender.n = calls

\* A send under way found room, and what it will store is enough.
Counting ==
  /\ sender.pc = "store" => sender.read < PriorityCap
  /\ CounterCoversQueue
  /\ PublishesBounded

CounterInv == Content /\ Counting

\* The queued Publishes in terms of channel and slots, and their number.
LEMMA Queued ==
  ASSUME QueueTypes
  PROVE  /\ SlotsP \in [Receiver -> MaybeRpc]
         /\ QueuedPublishes = Pubs(priority, SlotsP)
         /\ IsFiniteSet(QueuedPublishes) /\ Cardinality(QueuedPublishes) \in Nat
         /\ IsFiniteSet(popped) /\ Cardinality(popped) \in Nat
         /\ PriorityCap \in Nat
<1>1. SlotsP \in [Receiver -> MaybeRpc]
  BY DEF QueueTypes, SlotsP, MaybeRpc
<1>2. QueuedPublishes = Pubs(priority, SlotsP)
  BY DEF QueuedPublishes, Pubs, SlotsP
<1>3. IsFiniteSet(QueuedPublishes) /\ Cardinality(QueuedPublishes) \in Nat
  BY <1>1, <1>2, PubsFinite DEF QueueTypes
<1>4. popped \subseteq Receiver
  BY DEF QueueTypes
<1>5. IsFiniteSet(popped) /\ Cardinality(popped) \in Nat
  BY <1>4, QueueAssumption, FS_Subset, FS_CardinalityType
<1>6. PriorityCap \in Nat
  BY QueueAssumption DEF PriorityCap
<1> QED
  BY <1>1, <1>2, <1>3, <1>5, <1>6

\* A step that queues no Publish and leaves counter and sender alone.
LEMMA FewerCounted ==
  ASSUME QueueTypes, QueueTypes', Counting, UNCHANGED <<len, sender, popped>>,
         QueuedPublishes' \subseteq QueuedPublishes
  PROVE  Counting'
<1>1. Cardinality(QueuedPublishes') <= Cardinality(QueuedPublishes)
  BY Queued, FS_Subset
<1>2. Cardinality(QueuedPublishes) \in Nat /\ Cardinality(popped) \in Nat /\ PriorityCap \in Nat
  BY Queued
<1>3. Cardinality(QueuedPublishes') \in Nat
  BY Queued, FS_Subset, FS_CardinalityType
<1>4. CounterCoversQueue'
  BY <1>1, <1>2, <1>3 DEF Counting, CounterCoversQueue, QueueTypes
<1>5. PublishesBounded'
  BY <1>1, <1>2, <1>3 DEF Counting, PublishesBounded, QueueTypes
<1> QED
  BY <1>4, <1>5 DEF Counting

\* A Publish that a Receiver takes is no longer queued, but not subtracted yet.
LEMMA OneMoved ==
  ASSUME QueueTypes, QueueTypes', Counting, UNCHANGED <<len, sender>>,
         NEW r, r \notin popped, popped' = popped \cup {r},
         NEW m \in QueuedPublishes, QueuedPublishes' \subseteq QueuedPublishes \ {m}
  PROVE  Counting'
<1>1. /\ IsFiniteSet(QueuedPublishes \ {m})
      /\ Cardinality(QueuedPublishes \ {m}) = Cardinality(QueuedPublishes) - 1
  BY Queued, FS_RemoveElement
<1>2. Cardinality(QueuedPublishes') <= Cardinality(QueuedPublishes \ {m})
  BY <1>1, FS_Subset
<1>3. Cardinality(popped') = Cardinality(popped) + 1
  BY Queued, FS_AddElement
<1>4. Cardinality(QueuedPublishes) \in Nat /\ Cardinality(popped) \in Nat /\ PriorityCap \in Nat
  BY Queued
<1>5. Cardinality(QueuedPublishes') \in Nat
  BY <1>1, FS_Subset, FS_CardinalityType
<1>6. CounterCoversQueue'
  <2>1. len \in Nat /\ (sender.pc = "store" => sender.read \in Nat)
    BY DEF QueueTypes
  <2>2. /\ Cardinality(QueuedPublishes') + Cardinality(popped') \in Nat
        /\ Cardinality(QueuedPublishes') + Cardinality(popped') <=
             Cardinality(QueuedPublishes) + Cardinality(popped)
    BY <1>1, <1>2, <1>3, <1>4, <1>5
  <2>3. Cardinality(QueuedPublishes) + Cardinality(popped) \in Nat
    BY <1>4
  <2> QED
    BY <2>1, <2>2, <2>3 DEF Counting, CounterCoversQueue
<1>7. PublishesBounded'
  BY <1>1, <1>2, <1>4, <1>5 DEF Counting, PublishesBounded, QueueTypes
<1> QED
  BY <1>6, <1>7 DEF Counting

-----------------------------------------------------------------------------
(* Types.                                                                  *)

\* poll_peek finds a message or nothing.
LEMMA PeekTyped ==
  ASSUME NEW q \in Seq(Rpc), NEW slot \in MaybeRpc
  PROVE  /\ Peek(slot, q) \in MaybeRpc
         /\ Peek(slot, q) # NoRpc => Peek(slot, q) \in Rpc
         /\ AfterPeek(slot, q) \in Seq(Rpc)
<1>1. CASE slot # NoRpc \/ q = <<>>
  BY <1>1 DEF Peek, AfterPeek, MaybeRpc
<1>2. CASE slot = NoRpc /\ q # <<>>
  <2>1. Head(q) \in Rpc /\ Tail(q) \in Seq(Rpc)
    BY <1>2, HeadTailProperties
  <2> QED
    BY <1>2, <2>1 DEF Peek, AfterPeek, MaybeRpc
<1> QED
  BY <1>1, <1>2

\* The slots after those of one Receiver changed.
LEMMA SlotsSet ==
  ASSUME QueueTypes, NEW r \in Receiver, NEW a \in MaybeRpc, NEW b \in MaybeRpc,
         peeked' = [peeked EXCEPT ![r] = [p |-> a, f |-> b]]
  PROVE  /\ peeked' \in [Receiver -> [p : MaybeRpc, f : MaybeRpc]]
         /\ SlotsP' = [SlotsP EXCEPT ![r] = a]
<1>1. peeked \in [Receiver -> [p : MaybeRpc, f : MaybeRpc]]
  BY DEF QueueTypes, MaybeRpc
<1>2. [p |-> a, f |-> b] \in [p : MaybeRpc, f : MaybeRpc]
  OBVIOUS
<1>3. peeked' \in [Receiver -> [p : MaybeRpc, f : MaybeRpc]]
  BY <1>1, <1>2
<1>4. \A x \in Receiver : peeked'[x].p = IF x = r THEN a ELSE peeked[x].p
  BY <1>1
<1> QED
  BY <1>3, <1>4 DEF SlotsP

\* Emptying one slot leaves the other.
LEMMA SlotEmptied ==
  ASSUME QueueTypes, NEW r \in Receiver
  PROVE  /\ peeked[r].p \in MaybeRpc /\ peeked[r].f \in MaybeRpc
         /\ NoRpc \in MaybeRpc
         /\ SlotsP[r] = peeked[r].p
         /\ [peeked EXCEPT ![r].p = NoRpc] =
              [peeked EXCEPT ![r] = [p |-> NoRpc, f |-> peeked[r].f]]
         /\ [peeked EXCEPT ![r].f = NoRpc] =
              [peeked EXCEPT ![r] = [p |-> peeked[r].p, f |-> NoRpc]]
<1>1. peeked \in [Receiver -> [p : MaybeRpc, f : MaybeRpc]]
  BY DEF QueueTypes, MaybeRpc
<1>2. peeked[r] \in [p : MaybeRpc, f : MaybeRpc]
  BY <1>1
<1>3. /\ [peeked[r] EXCEPT !.p = NoRpc] = [p |-> NoRpc, f |-> peeked[r].f]
      /\ [peeked[r] EXCEPT !.f = NoRpc] = [p |-> peeked[r].p, f |-> NoRpc]
  BY <1>2
<1>4. SlotsP[r] = peeked[r].p
  BY DEF SlotsP
<1> QED
  BY <1>2, <1>3, <1>4 DEF MaybeRpc

\* So does filling one.
LEMMA SlotPeeked ==
  ASSUME QueueTypes, NEW r \in Receiver
  PROVE  /\ [peeked EXCEPT ![r].p = Peek(@, priority)] =
              [peeked EXCEPT ![r] = [p |-> Peek(peeked[r].p, priority), f |-> peeked[r].f]]
         /\ [peeked EXCEPT ![r].f = Peek(@, nonPriority)] =
              [peeked EXCEPT ![r] = [p |-> peeked[r].p, f |-> Peek(peeked[r].f, nonPriority)]]
<1> DEFINE a == Peek(peeked[r].p, priority)
           b == Peek(peeked[r].f, nonPriority)
<1>1. peeked[r] \in [p : MaybeRpc, f : MaybeRpc]
  BY DEF QueueTypes, MaybeRpc
<1>2. /\ [peeked[r] EXCEPT !.p = a] = [p |-> a, f |-> peeked[r].f]
      /\ [peeked[r] EXCEPT !.f = b] = [p |-> peeked[r].p, f |-> b]
  <2> HIDE DEF a, b
  <2> QED
    BY <1>1
<1> QED
  BY <1>2

\* What a Receiver returned, with one message more.
LEMMA Returned ==
  ASSUME QueueTypes, NEW r \in Receiver, NEW m \in Rpc
  PROVE  [taken EXCEPT ![r] = Append(@, m)] \in [Receiver -> Seq(Rpc)]
<1>1. taken \in [Receiver -> Seq(Rpc)] /\ taken[r] \in Seq(Rpc)
  BY DEF QueueTypes
<1>2. Append(taken[r], m) \in Seq(Rpc)
  BY <1>1, AppendProperties
<1> QED
  BY <1>1, <1>2

-----------------------------------------------------------------------------
(* Receiver: what it does to the queue keeps the invariant.                *)

\* A Receiver's step queues nothing new and leaves sender and calls alone.
LEMMA ReceiverContent ==
  ASSUME QueueTypes, Content, UNCHANGED <<sender, calls>>,
         Reduced(priority, SlotsP, priority', SlotsP')
  PROVE  Content'
<1>1. NextNumber' = NextNumber
  BY DEF NextNumber
<1> QED
  BY <1>1 DEF Content, Reduced

\* A step that at most takes from the queue, counter and sender aside.
LEMMA ReducedKeeps ==
  ASSUME QueueTypes, CounterInv, QueueTypes', UNCHANGED <<len, sender, popped, calls>>,
         Reduced(priority, SlotsP, priority', SlotsP')
  PROVE  CounterInv'
<1>1. Content'
  BY ReceiverContent DEF CounterInv
<1>2. QueuedPublishes' \subseteq QueuedPublishes
  <2>1. QueuedPublishes' = Pubs(priority', SlotsP')
    BY DEF QueuedPublishes, Pubs, SlotsP
  <2> QED
    BY <2>1, Queued DEF Reduced
<1> QED
  BY <1>1, <1>2, FewerCounted DEF CounterInv

\* A step that leaves the queue as it is.
LEMMA SameQueue ==
  ASSUME QueueTypes, CounterInv,
         UNCHANGED <<len, priority, nonPriority, peeked, open, sender, popped, calls, refused, taken, discarded>>
  PROVE  QueueTypes' /\ CounterInv'
<1>1. QueueTypes'
  BY DEF QueueTypes
<1>2. SlotsP' = SlotsP
  BY DEF SlotsP
<1>3. Reduced(priority, SlotsP, priority', SlotsP')
  BY <1>2, Queued DEF Reduced, QueueTypes, CounterInv, Content
<1> QED
  BY <1>1, <1>3, ReducedKeeps

\* poll_next.
LEMMA PollNextKeeps ==
  ASSUME QueueTypes, CounterInv, NEW r \in Receiver, PollNext(r)
  PROVE  QueueTypes' /\ CounterInv'
<1> DEFINE p == Peek(peeked[r].p, priority)
           pw == AfterPeek(peeked[r].p, priority)
<1>1. /\ peeked[r].p \in MaybeRpc /\ peeked[r].f \in MaybeRpc /\ NoRpc \in MaybeRpc
      /\ SlotsP[r] = peeked[r].p
  BY SlotEmptied
<1>2. (p # NoRpc => p \in Rpc) /\ pw \in Seq(Rpc)
  BY <1>1, PeekTyped DEF QueueTypes
<1>3. /\ r \in open /\ r \notin popped
      /\ UNCHANGED <<len, nonPriority, open, sender, calls, refused, discarded>>
  BY DEF PollNext, Ready
<1>4. SlotsP \in [Receiver -> MaybeRpc] /\ Separate(priority, SlotsP)
  BY Queued DEF CounterInv, Content
<1>5. CASE p # NoRpc
  <2>1. /\ priority' = pw
        /\ peeked' = [peeked EXCEPT ![r] = [p |-> NoRpc, f |-> peeked[r].f]]
        /\ popped' = IF p.kind = "Publish" THEN popped \cup {r} ELSE popped
        /\ taken' = [taken EXCEPT ![r] = Append(@, p)]
    BY <1>5, SlotEmptied DEF PollNext
  <2>2. /\ peeked' \in [Receiver -> [p : MaybeRpc, f : MaybeRpc]]
        /\ SlotsP' = [SlotsP EXCEPT ![r] = NoRpc]
    <3>1. peeked' = [peeked EXCEPT ![r] = [p |-> NoRpc, f |-> peeked[r].f]]
      BY <2>1
    <3> HIDE DEF p, pw
    <3> QED
      BY <1>1, <3>1, SlotsSet
  <2>3. taken' \in [Receiver -> Seq(Rpc)]
    <3>1. p \in Rpc /\ taken' = [taken EXCEPT ![r] = Append(@, p)]
      BY <1>2, <1>5, <2>1
    <3> HIDE DEF p
    <3> QED
      BY <3>1, Returned
  <2>4. QueueTypes'
    BY <1>2, <1>3, <2>1, <2>2, <2>3 DEF QueueTypes, MaybeRpc
  <2>5. /\ Reduced(priority, SlotsP, priority', SlotsP')
        /\ Pubs(priority', SlotsP') \subseteq Pubs(priority, SlotsP) \ {p}
        /\ p.kind = "Publish" => p \in Pubs(priority, SlotsP)
    <3>1. priority \in Seq(Rpc) /\ p = Peek(SlotsP[r], priority) /\ pw = AfterPeek(SlotsP[r], priority)
      BY <1>1 DEF QueueTypes
    <3>2. priority' = pw /\ SlotsP' = [SlotsP EXCEPT ![r] = NoRpc] /\ p # NoRpc
      BY <1>5, <2>1, <2>2
    <3> HIDE DEF p, pw
    <3> QED
      BY <3>1, <3>2, <1>4, PeekTakes
  <2>6. Content'
    BY <1>3, <2>5, ReceiverContent DEF CounterInv
  <2>7. /\ QueuedPublishes' \subseteq QueuedPublishes \ {p}
        /\ p.kind = "Publish" => p \in QueuedPublishes
    <3>1. QueuedPublishes' = Pubs(priority', SlotsP')
      BY <2>4 DEF QueuedPublishes, Pubs, SlotsP
    <3> QED
      BY <3>1, <2>5, Queued
  <2>8. CASE p.kind # "Publish"
    <3>1. popped' = popped
      BY <2>1, <2>8
    <3> QED
      BY <1>3, <2>4, <2>6, <2>7, <3>1, FewerCounted DEF CounterInv
  <2>9. CASE p.kind = "Publish"
    <3>1. popped' = popped \cup {r} /\ p \in QueuedPublishes
      BY <2>1, <2>7, <2>9
    <3> QED
      BY <1>3, <2>4, <2>6, <2>7, <3>1, OneMoved DEF CounterInv
  <2> QED
    BY <2>8, <2>9
<1>6. CASE p = NoRpc
  <2>1. UNCHANGED <<len, priority, nonPriority, peeked, open, sender, popped, calls, refused, taken, discarded>>
    BY <1>3, <1>6 DEF PollNext
  <2> QED
    BY <2>1, SameQueue
<1> QED
  BY <1>5, <1>6

\* The second look of poll_next.
LEMMA TakeForwardKeeps ==
  ASSUME QueueTypes, CounterInv, NEW r \in Receiver, TakeForward(r)
  PROVE  QueueTypes' /\ CounterInv'
<1> DEFINE f == Peek(peeked[r].f, nonPriority)
<1>1. /\ peeked[r].p \in MaybeRpc /\ peeked[r].f \in MaybeRpc /\ NoRpc \in MaybeRpc
      /\ SlotsP[r] = peeked[r].p /\ SlotsP \in [Receiver -> MaybeRpc]
  BY SlotEmptied, Queued
<1>2. UNCHANGED <<len, priority, open, sender, popped, calls, refused, discarded>>
  BY DEF TakeForward
<1>3. CASE f = NoRpc
  <2>1. UNCHANGED <<len, priority, nonPriority, peeked, open, sender, popped, calls, refused, taken, discarded>>
    BY <1>2, <1>3 DEF TakeForward
  <2> QED
    BY <2>1, SameQueue
<1>4. CASE f # NoRpc
  <2>1. /\ nonPriority' = AfterPeek(peeked[r].f, nonPriority)
        /\ peeked' = [peeked EXCEPT ![r] = [p |-> peeked[r].p, f |-> NoRpc]]
        /\ taken' = [taken EXCEPT ![r] = Append(@, f)]
    BY <1>4, SlotEmptied DEF TakeForward
  <2>2. f \in Rpc /\ nonPriority' \in Seq(Rpc)
    BY <1>1, <1>4, <2>1, PeekTyped DEF QueueTypes
  <2>3. /\ peeked' \in [Receiver -> [p : MaybeRpc, f : MaybeRpc]]
        /\ SlotsP' = [SlotsP EXCEPT ![r] = SlotsP[r]]
    BY <1>1, <2>1, SlotsSet
  <2>4. SlotsP' = SlotsP
    BY <1>1, <2>3
  <2>5. taken' \in [Receiver -> Seq(Rpc)]
    <3> HIDE DEF f
    <3> QED
      BY <2>1, <2>2, Returned
  <2>6. QueueTypes'
    BY <1>2, <2>2, <2>3, <2>5 DEF QueueTypes, MaybeRpc
  <2>7. Reduced(priority, SlotsP, priority', SlotsP')
    BY <1>1, <1>2, <2>4 DEF Reduced, QueueTypes, CounterInv, Content
  <2> QED
    BY <1>2, <2>6, <2>7, ReducedKeeps
<1> QED
  BY <1>3, <1>4

\* The fetch_sub of poll_next: the counter was at least one.
LEMMA FetchSubKeeps ==
  ASSUME QueueTypes, CounterInv, NEW r \in Receiver, FetchSub(r)
  PROVE  QueueTypes' /\ CounterInv'
<1>1. /\ r \in popped /\ len' = len - 1 /\ popped' = popped \ {r}
      /\ UNCHANGED <<priority, nonPriority, peeked, open, sender, calls, refused, taken, discarded>>
  BY DEF FetchSub, channels, history
<1>2. /\ Cardinality(popped') = Cardinality(popped) - 1
      /\ Cardinality(popped) \in Nat /\ Cardinality(popped') \in Nat
  <2>1. IsFiniteSet(popped \ {r}) /\ Cardinality(popped \ {r}) = Cardinality(popped) - 1
    BY <1>1, Queued, FS_RemoveElement
  <2> QED
    BY <1>1, <2>1, Queued, FS_CardinalityType
<1>3. QueuedPublishes' = QueuedPublishes /\ SlotsP' = SlotsP /\ NextNumber' = NextNumber
  BY <1>1 DEF QueuedPublishes, SlotsP, NextNumber
<1>4. Cardinality(QueuedPublishes) \in Nat
  BY Queued
<1>5. len' \in Nat
  <2>1. len \in Nat
    BY DEF QueueTypes
  <2>2. CounterCoversQueue
    BY DEF CounterInv, Counting
  <2> QED
    BY <1>1, <1>2, <1>4, <2>1, <2>2 DEF CounterCoversQueue
<1>6. QueueTypes'
  BY <1>1, <1>5 DEF QueueTypes
<1>7. Content'
  BY <1>1, <1>3 DEF CounterInv, Content
<1>8. CounterCoversQueue'
  <2>1. len \in Nat /\ (sender.pc = "store" => sender.read \in Nat)
    BY DEF QueueTypes
  <2> QED
    BY <1>1, <1>2, <1>3, <1>4, <2>1 DEF CounterInv, Counting, CounterCoversQueue
<1>9. PublishesBounded'
  BY <1>1, <1>3 DEF CounterInv, Counting, PublishesBounded
<1> QED
  BY <1>1, <1>6, <1>7, <1>8, <1>9 DEF CounterInv, Counting

\* poll_is_empty, and poll_stale without a timeout: the priority channel.
LEMMA PollPeekKeeps ==
  ASSUME QueueTypes, CounterInv, NEW r \in Receiver, PollPeek(r)
  PROVE  QueueTypes' /\ CounterInv'
<1>1. /\ peeked' = [peeked EXCEPT ![r] = [p |-> Peek(peeked[r].p, priority), f |-> peeked[r].f]]
      /\ priority' = AfterPeek(SlotsP[r], priority)
      /\ UNCHANGED <<len, nonPriority, open, sender, popped, calls, refused, taken, discarded>>
  BY SlotEmptied, SlotPeeked DEF PollPeek, history
<1>2. Peek(peeked[r].p, priority) \in MaybeRpc
  BY SlotEmptied, PeekTyped DEF QueueTypes
<1>3. /\ peeked' \in [Receiver -> [p : MaybeRpc, f : MaybeRpc]]
      /\ SlotsP' = [SlotsP EXCEPT ![r] = Peek(SlotsP[r], priority)]
  BY <1>1, <1>2, SlotEmptied, SlotsSet
<1>4. Reduced(priority, SlotsP, priority', SlotsP')
  <2>1. SlotsP \in [Receiver -> MaybeRpc] /\ Separate(priority, SlotsP) /\ priority \in Seq(Rpc)
    BY Queued DEF CounterInv, Content, QueueTypes
  <2> QED
    BY <1>1, <1>3, <2>1, PeekKeeps
<1>5. QueueTypes'
  BY <1>1, <1>3, <1>4 DEF QueueTypes, MaybeRpc, Reduced
<1> QED
  BY <1>1, <1>4, <1>5, ReducedKeeps

\* The slots and the channel of the Forwards are no part of what is counted.
LEMMA ForwardsKeep ==
  ASSUME QueueTypes, CounterInv, NEW r \in Receiver, NEW b \in MaybeRpc,
         peeked' = [peeked EXCEPT ![r] = [p |-> peeked[r].p, f |-> b]],
         nonPriority' \in Seq(Rpc), discarded' \subseteq Rpc,
         UNCHANGED <<len, priority, open, sender, popped, calls, refused, taken>>
  PROVE  QueueTypes' /\ CounterInv'
<1>1. SlotsP[r] = peeked[r].p /\ peeked[r].p \in MaybeRpc /\ SlotsP \in [Receiver -> MaybeRpc]
  BY SlotEmptied, Queued
<1>2. /\ peeked' \in [Receiver -> [p : MaybeRpc, f : MaybeRpc]]
      /\ SlotsP' = [SlotsP EXCEPT ![r] = SlotsP[r]]
  BY <1>1, SlotsSet
<1>3. SlotsP' = SlotsP
  BY <1>1, <1>2
<1>4. QueueTypes'
  BY <1>2 DEF QueueTypes, MaybeRpc
<1>5. Reduced(priority, SlotsP, priority', SlotsP')
  BY <1>1, <1>3 DEF Reduced, QueueTypes, CounterInv, Content
<1> QED
  BY <1>4, <1>5, ReducedKeeps

\* The other channel.
LEMMA PeekForwardKeeps ==
  ASSUME QueueTypes, CounterInv, NEW r \in Receiver, PeekForward(r)
  PROVE  QueueTypes' /\ CounterInv'
<1>1. /\ peeked' = [peeked EXCEPT ![r] = [p |-> peeked[r].p, f |-> Peek(peeked[r].f, nonPriority)]]
      /\ nonPriority' = AfterPeek(peeked[r].f, nonPriority)
      /\ UNCHANGED <<len, priority, open, sender, popped, calls, refused, taken, discarded>>
  BY SlotPeeked DEF PeekForward, history
<1>2. Peek(peeked[r].f, nonPriority) \in MaybeRpc /\ nonPriority' \in Seq(Rpc)
  BY <1>1, SlotEmptied, PeekTyped DEF QueueTypes
<1>3. discarded' \subseteq Rpc
  BY <1>1 DEF QueueTypes
<1> QED
  BY <1>1, <1>2, <1>3, ForwardsKeep

\* poll_stale that discards a Publish.
LEMMA DropStalePublishKeeps ==
  ASSUME QueueTypes, CounterInv, NEW r \in Receiver, DropStalePublish(r)
  PROVE  QueueTypes' /\ CounterInv'
<1>1. /\ Peek(SlotsP[r], priority) # NoRpc
      /\ priority' = AfterPeek(SlotsP[r], priority)
      /\ peeked' = [peeked EXCEPT ![r] = [p |-> NoRpc, f |-> peeked[r].f]]
      /\ discarded' = discarded \cup {Peek(SlotsP[r], priority)}
      /\ UNCHANGED <<len, nonPriority, open, sender, popped, calls, refused, taken>>
  BY SlotEmptied DEF DropStalePublish
<1>2. Peek(SlotsP[r], priority) \in Rpc
  BY <1>1, SlotEmptied, PeekTyped DEF QueueTypes
<1>3. /\ peeked' \in [Receiver -> [p : MaybeRpc, f : MaybeRpc]]
      /\ SlotsP' = [SlotsP EXCEPT ![r] = NoRpc]
  BY <1>1, SlotEmptied, SlotsSet
<1>4. Reduced(priority, SlotsP, priority', SlotsP')
  <2>1. SlotsP \in [Receiver -> MaybeRpc] /\ Separate(priority, SlotsP) /\ priority \in Seq(Rpc)
    BY Queued DEF CounterInv, Content, QueueTypes
  <2> QED
    BY <1>1, <1>3, <2>1, PeekTakes
<1>5. QueueTypes'
  BY <1>1, <1>2, <1>3, <1>4 DEF QueueTypes, MaybeRpc, Reduced
<1> QED
  BY <1>1, <1>4, <1>5, ReducedKeeps

\* poll_stale that discards a Forward.
LEMMA DropStaleForwardKeeps ==
  ASSUME QueueTypes, CounterInv, NEW r \in Receiver, DropStaleForward(r)
  PROVE  QueueTypes' /\ CounterInv'
<1>1. /\ Peek(peeked[r].f, nonPriority) # NoRpc
      /\ nonPriority' = AfterPeek(peeked[r].f, nonPriority)
      /\ peeked' = [peeked EXCEPT ![r] = [p |-> peeked[r].p, f |-> NoRpc]]
      /\ discarded' = discarded \cup {Peek(peeked[r].f, nonPriority)}
      /\ UNCHANGED <<len, priority, open, sender, popped, calls, refused, taken>>
  BY SlotEmptied DEF DropStaleForward
<1>2. Peek(peeked[r].f, nonPriority) \in Rpc /\ nonPriority' \in Seq(Rpc) /\ NoRpc \in MaybeRpc
  BY <1>1, SlotEmptied, PeekTyped DEF QueueTypes
<1>3. discarded' \subseteq Rpc
  BY <1>1, <1>2 DEF QueueTypes
<1> QED
  BY <1>1, <1>2, <1>3, ForwardsKeep

\* A further connection.
LEMMA NewReceiverKeeps ==
  ASSUME QueueTypes, CounterInv, NEW r \in Receiver, NewReceiver(r)
  PROVE  QueueTypes' /\ CounterInv'
<1>1. /\ open' = open \cup {r}
      /\ UNCHANGED <<len, priority, nonPriority, peeked, sender, popped, calls, refused, taken, discarded>>
  BY DEF NewReceiver, channels, history
<1>2. QueueTypes'
  BY <1>1 DEF QueueTypes
<1>3. SlotsP' = SlotsP
  BY <1>1 DEF SlotsP
<1>4. Reduced(priority, SlotsP, priority', SlotsP')
  BY <1>1, <1>3, Queued DEF Reduced, QueueTypes, CounterInv, Content
<1> QED
  BY <1>1, <1>2, <1>4, ReducedKeeps

\* A connection that closes.
LEMMA DropReceiverKeeps ==
  ASSUME QueueTypes, CounterInv, NEW r \in Receiver, DropReceiver(r)
  PROVE  QueueTypes' /\ CounterInv'
<1>1. /\ r \notin popped
      /\ open' = open \ {r}
      /\ peeked' = [peeked EXCEPT ![r] = [p |-> NoRpc, f |-> NoRpc]]
      /\ discarded' = discarded \cup ({peeked[r].p, peeked[r].f} \ {NoRpc})
      /\ UNCHANGED <<len, priority, nonPriority, sender, popped, calls, refused, taken>>
  BY DEF DropReceiver, Ready, Slots
<1>2. /\ peeked' \in [Receiver -> [p : MaybeRpc, f : MaybeRpc]]
      /\ SlotsP' = [SlotsP EXCEPT ![r] = NoRpc]
  BY <1>1, SlotEmptied, SlotsSet
<1>3. {peeked[r].p, peeked[r].f} \ {NoRpc} \subseteq Rpc
  BY SlotEmptied DEF MaybeRpc
<1>4. Reduced(priority, SlotsP, priority', SlotsP')
  <2>1. SlotsP \in [Receiver -> MaybeRpc] /\ Separate(priority, SlotsP) /\ priority \in Seq(Rpc)
    BY Queued DEF CounterInv, Content, QueueTypes
  <2> QED
    BY <1>1, <1>2, <2>1, SlotDropped
<1>5. QueueTypes'
  <2>1. discarded' \subseteq Rpc
    BY <1>1, <1>3 DEF QueueTypes
  <2> QED
    BY <1>1, <1>2, <2>1 DEF QueueTypes, MaybeRpc
<1> QED
  BY <1>1, <1>4, <1>5, ReducedKeeps

-----------------------------------------------------------------------------
(* Sender: what it does keeps the invariant.                               *)

\* What precedes a call precedes the next one too.
LEMMA EarlierStill ==
  ASSUME NEW q \in Seq(Rpc), NEW s \in [Receiver -> MaybeRpc],
         NEW k \in Nat, Earlier(q, s, k)
  PROVE  Earlier(q, s, k + 1)
<1>1. \A m \in ToSet(q) : m \in Rpc
  BY ElementOfSeq DEF ToSet
<1>2. \A m \in Rpc : m.n \in Nat
  BY DEF Rpc
<1>3. \A x \in Receiver : s[x] # NoRpc => s[x] \in Rpc
  BY DEF MaybeRpc
<1>4. \A m \in Rpc : m.n < k => m.n < k + 1
  BY <1>2
<1> QED
  BY <1>1, <1>3, <1>4 DEF Earlier

\* A message with a new number put at the end of the priority channel.
LEMMA Extended ==
  ASSUME NEW q \in Seq(Rpc), NEW s \in [Receiver -> MaybeRpc], Separate(q, s),
         NEW k \in Nat, Earlier(q, s, k), NEW m \in Rpc, m.n = k
  PROVE  /\ Append(q, m) \in Seq(Rpc)
         /\ Separate(Append(q, m), s)
         /\ Earlier(Append(q, m), s, k + 1)
         /\ m \notin Pubs(q, s)
         /\ Pubs(Append(q, m), s) = IF m.kind = "Publish" THEN Pubs(q, s) \cup {m} ELSE Pubs(q, s)
<1>1. m \notin ToSet(q) /\ \A x \in Receiver : s[x] # m
  <2>1. m # NoRpc
    BY QueueAssumption DEF Rpc
  <2> QED
    BY <2>1 DEF Earlier
<1> DEFINE w == Append(q, m)
<1>2. /\ w \in Seq(Rpc) /\ ToSet(w) = ToSet(q) \cup {m}
      /\ \A i, j \in DOMAIN w : w[i] = w[j] => i = j
  BY <1>1, AppendNew DEF Separate
<1> HIDE DEF w
<1>3. Separate(w, s)
  BY <1>1, <1>2 DEF Separate
<1>4. Earlier(w, s, k + 1)
  <2>1. Earlier(q, s, k + 1) /\ m.n < k + 1
    BY EarlierStill
  <2> QED
    BY <1>2, <2>1 DEF Earlier
<1>5. m \notin Pubs(q, s)
  BY <1>1 DEF Pubs
<1>6. m # NoRpc
  BY QueueAssumption DEF Rpc
<1>7. Pubs(w, s) = IF m.kind = "Publish" THEN Pubs(q, s) \cup {m} ELSE Pubs(q, s)
  BY <1>2, <1>6 DEF Pubs
<1> QED
  BY <1>2, <1>3, <1>4, <1>5, <1>7 DEF w

\* The queue before a send.
LEMMA BeforeSend ==
  ASSUME QueueTypes, CounterInv
  PROVE  /\ SlotsP \in [Receiver -> MaybeRpc] /\ priority \in Seq(Rpc)
         /\ Separate(priority, SlotsP)
         /\ NextNumber \in Nat /\ Earlier(priority, SlotsP, NextNumber)
         /\ calls \in Nat /\ calls + 1 \in Nat
         /\ sender.pc = "idle" => NextNumber = calls + 1
         /\ sender.pc # "idle" => NextNumber = sender.n /\ sender.n = calls
  BY Queued DEF CounterInv, Content, QueueTypes, NextNumber

\* The load and comparison of send_transaction.
LEMMA LoadLenKeeps ==
  ASSUME QueueTypes, CounterInv, LoadLen
  PROVE  QueueTypes' /\ CounterInv'
<1>1. /\ sender.pc = "idle" /\ calls' = calls + 1
      /\ UNCHANGED <<len, priority, nonPriority, peeked, open, popped, taken, discarded>>
      /\ \/ /\ refused' = refused \cup {[kind |-> "Publish", n |-> calls + 1]}
            /\ sender' = sender
         \/ /\ len < PriorityCap
            /\ sender' = [pc |-> "store", n |-> calls + 1, read |-> len]
            /\ refused' = refused
  BY DEF LoadLen, channels
<1>2. [kind |-> "Publish", n |-> calls + 1] \in Rpc
  BY BeforeSend DEF Rpc
<1>3. QueueTypes'
  <2>1. sender' \in [pc : {"idle", "store", "push"}, n : Nat, read : Nat]
    BY <1>1, BeforeSend DEF QueueTypes
  <2>2. refused' \subseteq Rpc
    BY <1>1, <1>2 DEF QueueTypes
  <2> QED
    BY <1>1, <2>1, <2>2, BeforeSend DEF QueueTypes
<1>4. SlotsP' = SlotsP /\ QueuedPublishes' = QueuedPublishes
  BY <1>1 DEF SlotsP, QueuedPublishes
<1>5. Content'
  <2>1. Separate(priority', SlotsP')
    BY <1>1, <1>4, BeforeSend
  <2>2. CASE sender' = sender
    <3>1. NextNumber' = NextNumber + 1 /\ sender'.pc = "idle"
      BY <1>1, <2>2, BeforeSend DEF NextNumber
    <3>2. Earlier(priority', SlotsP', NextNumber')
      BY <1>1, <1>4, <3>1, BeforeSend, EarlierStill
    <3> QED
      BY <2>1, <3>1, <3>2 DEF Content
  <2>3. CASE sender' = [pc |-> "store", n |-> calls + 1, read |-> len]
    <3>1. NextNumber' = NextNumber /\ sender'.n = calls'
      BY <1>1, <2>3, BeforeSend DEF NextNumber
    <3>2. Earlier(priority', SlotsP', NextNumber')
      BY <1>1, <1>4, <3>1, BeforeSend
    <3> QED
      BY <2>1, <3>1, <3>2 DEF Content
  <2> QED
    BY <1>1, <2>2, <2>3
<1>6. Counting'
  <2>1. Cardinality(QueuedPublishes) \in Nat /\ Cardinality(popped) \in Nat /\ len \in Nat
    BY Queued DEF QueueTypes
  <2>2. CASE sender' = sender
    BY <1>1, <1>4, <2>1, <2>2 DEF CounterInv, Counting, CounterCoversQueue, PublishesBounded, PriorityCap
  <2>3. CASE len < PriorityCap /\ sender' = [pc |-> "store", n |-> calls + 1, read |-> len]
    <3>1. sender'.pc = "store" /\ sender'.read = len
      BY <2>3
    <3> QED
      BY <1>1, <1>4, <2>1, <2>3, <3>1 DEF CounterInv, Counting, CounterCoversQueue, PublishesBounded, PriorityCap
  <2> QED
    BY <1>1, <2>2, <2>3
<1> QED
  BY <1>3, <1>5, <1>6 DEF CounterInv

\* The store of send_transaction: what was read still covers the queue, for
\* only receivers ran since, and they take Publishes.
LEMMA StoreLenKeeps ==
  ASSUME QueueTypes, CounterInv, StoreLen
  PROVE  QueueTypes' /\ CounterInv'
<1>1. /\ sender.pc = "store" /\ len' = sender.read + 1
      /\ sender' = [sender EXCEPT !.pc = "push"]
      /\ UNCHANGED <<priority, nonPriority, peeked, open, popped, calls, refused, taken, discarded>>
  BY DEF StoreLen, channels, history
<1>2. sender \in [pc : {"idle", "store", "push"}, n : Nat, read : Nat]
  BY DEF QueueTypes
<1>3. sender' = [pc |-> "push", n |-> sender.n, read |-> sender.read]
  BY <1>1, <1>2
<1>4. sender.read \in Nat /\ sender.n \in Nat
  BY <1>2
<1>5. sender' \in [pc : {"idle", "store", "push"}, n : Nat, read : Nat]
  BY <1>3, <1>4
<1>6. QueueTypes'
  <2>1. len' \in Nat
    BY <1>1, <1>4
  <2> QED
    BY <1>1, <1>5, <2>1 DEF QueueTypes
<1>7. sender'.pc = "push" /\ sender'.n = sender.n
  BY <1>3
<1>8. SlotsP' = SlotsP /\ QueuedPublishes' = QueuedPublishes /\ NextNumber' = NextNumber
  BY <1>1, <1>7 DEF SlotsP, QueuedPublishes, NextNumber
<1>9. Content'
  BY <1>1, <1>7, <1>8 DEF CounterInv, Content
<1>10. Counting'
  <2>1. /\ Cardinality(QueuedPublishes) \in Nat /\ Cardinality(popped) \in Nat
        /\ PriorityCap \in Nat
    BY Queued
  <2>2. /\ sender.read >= Cardinality(QueuedPublishes) + Cardinality(popped)
        /\ sender.read < PriorityCap
    BY <1>1 DEF CounterInv, Counting, CounterCoversQueue
  <2>3. CounterCoversQueue'
    BY <1>1, <1>4, <1>7, <1>8, <2>1, <2>2 DEF CounterCoversQueue
  <2>4. Cardinality(QueuedPublishes) + 1 <= PriorityCap
    BY <1>4, <2>1, <2>2
  <2>5. PublishesBounded'
    BY <1>7, <1>8, <2>4 DEF PublishesBounded, PriorityCap
  <2> QED
    BY <1>7, <2>3, <2>5 DEF Counting
<1> QED
  BY <1>6, <1>9, <1>10 DEF CounterInv

\* The push of send_transaction.
LEMMA PushPublishKeeps ==
  ASSUME QueueTypes, CounterInv, PushPublish
  PROVE  QueueTypes' /\ CounterInv'
<1> DEFINE m == [kind |-> "Publish", n |-> sender.n]
<1>1. /\ sender.pc = "push" /\ priority' = Append(priority, m)
      /\ sender' = [pc |-> "idle", n |-> 0, read |-> 0]
      /\ UNCHANGED <<len, nonPriority, peeked, open, popped, calls, refused, taken, discarded>>
  BY DEF PushPublish, history, Idle
<1>2. m \in Rpc /\ m.n = NextNumber /\ m.kind = "Publish" /\ NextNumber = calls
  BY <1>1, BeforeSend DEF Rpc, QueueTypes
<1> HIDE DEF m
<1>3. SlotsP' = SlotsP
  BY <1>1 DEF SlotsP
<1>4. /\ priority' \in Seq(Rpc) /\ Separate(priority', SlotsP')
      /\ Earlier(priority', SlotsP', NextNumber + 1)
      /\ m \notin Pubs(priority, SlotsP)
      /\ Pubs(priority', SlotsP') = Pubs(priority, SlotsP) \cup {m}
  BY <1>1, <1>2, <1>3, BeforeSend, Extended
<1>5. sender'.pc = "idle" /\ NextNumber' = NextNumber + 1
  BY <1>1, <1>2, BeforeSend DEF NextNumber
<1>6. QueueTypes'
  <2>1. sender' \in [pc : {"idle", "store", "push"}, n : Nat, read : Nat]
    BY <1>1
  <2> QED
    BY <1>1, <1>4, <2>1 DEF QueueTypes
<1>7. Content'
  BY <1>4, <1>5 DEF Content
<1>8. Counting'
  <2>1. /\ QueuedPublishes' = QueuedPublishes \cup {m} /\ m \notin QueuedPublishes
        /\ IsFiniteSet(QueuedPublishes)
    <3>1. QueuedPublishes' = Pubs(priority', SlotsP')
      BY DEF QueuedPublishes, Pubs, SlotsP
    <3> QED
      BY <1>4, <3>1, Queued
  <2>2. Cardinality(QueuedPublishes') = Cardinality(QueuedPublishes) + 1
    BY <2>1, FS_AddElement
  <2>3. /\ Cardinality(QueuedPublishes) \in Nat /\ Cardinality(popped) \in Nat
        /\ len \in Nat
    BY Queued DEF QueueTypes
  <2>4. /\ len >= Cardinality(QueuedPublishes) + Cardinality(popped) + 1
        /\ Cardinality(QueuedPublishes) + 1 <= PriorityCap
    BY <1>1, <2>3 DEF CounterInv, Counting, CounterCoversQueue, PublishesBounded
  <2>5. CounterCoversQueue'
    BY <1>1, <1>5, <2>2, <2>3, <2>4 DEF CounterCoversQueue
  <2>6. PublishesBounded'
    BY <1>5, <2>2, <2>3, <2>4 DEF PublishesBounded, PriorityCap
  <2> QED
    BY <1>5, <2>5, <2>6 DEF Counting
<1> QED
  BY <1>6, <1>7, <1>8 DEF CounterInv

\* A control message.
LEMMA SendControlKeeps ==
  ASSUME QueueTypes, CounterInv, SendControl
  PROVE  QueueTypes' /\ CounterInv'
<1> DEFINE m == [kind |-> "Control", n |-> calls + 1]
<1>1. /\ sender.pc = "idle" /\ priority' = Append(priority, m) /\ calls' = calls + 1
      /\ UNCHANGED <<len, nonPriority, peeked, open, sender, popped, refused, taken, discarded>>
  BY DEF SendControl
<1>2. m \in Rpc /\ m.n = NextNumber /\ m.kind # "Publish"
  BY <1>1, BeforeSend DEF Rpc
<1> HIDE DEF m
<1>3. SlotsP' = SlotsP
  BY <1>1 DEF SlotsP
<1>4. /\ priority' \in Seq(Rpc) /\ Separate(priority', SlotsP')
      /\ Earlier(priority', SlotsP', NextNumber + 1)
      /\ Pubs(priority', SlotsP') = Pubs(priority, SlotsP)
  BY <1>1, <1>2, <1>3, BeforeSend, Extended
<1>5. sender'.pc = "idle" /\ NextNumber' = NextNumber + 1
  BY <1>1, BeforeSend DEF NextNumber
<1>6. QueueTypes'
  BY <1>1, <1>4, BeforeSend DEF QueueTypes
<1>7. Content'
  BY <1>4, <1>5 DEF Content
<1>8. QueuedPublishes' = QueuedPublishes
  <2>1. QueuedPublishes' = Pubs(priority', SlotsP')
    BY DEF QueuedPublishes, Pubs, SlotsP
  <2> QED
    BY <1>4, <2>1, Queued
<1> QED
  BY <1>1, <1>6, <1>7, <1>8, FewerCounted DEF CounterInv

\* A Forward, queued or handed back.
LEMMA SendForwardKeeps ==
  ASSUME QueueTypes, CounterInv, SendForward
  PROVE  QueueTypes' /\ CounterInv'
<1> DEFINE m == [kind |-> "Forward", n |-> calls + 1]
<1>1. /\ sender.pc = "idle" /\ calls' = calls + 1
      /\ UNCHANGED <<len, priority, peeked, open, sender, popped, taken, discarded>>
      /\ nonPriority' = nonPriority \/ nonPriority' = Append(nonPriority, m)
      /\ refused' = refused \/ refused' = refused \cup {m}
  BY DEF SendForward
<1>2. m \in Rpc
  BY BeforeSend DEF Rpc
<1> HIDE DEF m
<1>3. QueueTypes'
  <2>1. nonPriority \in Seq(Rpc) /\ refused \subseteq Rpc
    BY DEF QueueTypes
  <2>2. nonPriority' \in Seq(Rpc)
    BY <1>1, <1>2, <2>1, AppendProperties
  <2>3. refused' \subseteq Rpc
    BY <1>1, <1>2, <2>1
  <2> QED
    BY <1>1, <2>2, <2>3, BeforeSend DEF QueueTypes
<1>4. /\ SlotsP' = SlotsP /\ QueuedPublishes' = QueuedPublishes
      /\ sender'.pc = "idle" /\ NextNumber' = NextNumber + 1
  BY <1>1, BeforeSend DEF SlotsP, QueuedPublishes, NextNumber
<1>5. Earlier(priority', SlotsP', NextNumber')
  BY <1>1, <1>4, BeforeSend, EarlierStill
<1>6. Content'
  BY <1>1, <1>4, <1>5, BeforeSend DEF Content
<1> QED
  BY <1>1, <1>3, <1>4, <1>6, FewerCounted DEF CounterInv

-----------------------------------------------------------------------------
(* The theorems on the counter.                                            *)

\* The queue starts empty.
LEMMA InitQueue == Init => QueueTypes /\ CounterInv
<1> SUFFICES ASSUME Init PROVE QueueTypes /\ CounterInv
  OBVIOUS
<1>1. PICK r0 \in Receiver : open = {r0}
  BY DEF Init
<1>2. /\ len = 0 /\ priority = <<>> /\ nonPriority = <<>> /\ popped = {} /\ calls = 0
      /\ peeked = [r \in Receiver |-> [p |-> NoRpc, f |-> NoRpc]]
      /\ sender = [pc |-> "idle", n |-> 0, read |-> 0]
      /\ refused = {} /\ discarded = {} /\ taken = [r \in Receiver |-> <<>>]
  BY DEF Init, Idle, Slots
<1>3. QueueTypes
  <2>1. sender \in [pc : {"idle", "store", "push"}, n : Nat, read : Nat]
    BY <1>2
  <2>2. peeked \in [Receiver -> [p : Rpc \cup {NoRpc}, f : Rpc \cup {NoRpc}]]
    BY <1>2
  <2>3. taken \in [Receiver -> Seq(Rpc)]
    BY <1>2
  <2>4. open \subseteq Receiver /\ popped \subseteq open
    BY <1>1, <1>2
  <2> QED
    BY <1>2, <2>1, <2>2, <2>3, <2>4 DEF QueueTypes
<1>4. ToSet(priority) = {} /\ DOMAIN priority = {}
  BY <1>2 DEF ToSet
<1>5. \A r \in Receiver : SlotsP[r] = NoRpc
  BY <1>2 DEF SlotsP
<1>6. Content
  BY <1>2, <1>4, <1>5 DEF Content, Separate, Earlier
<1>7. QueuedPublishes = {}
  BY <1>4, <1>5 DEF QueuedPublishes, SlotsP
<1>8. Cardinality(QueuedPublishes) = 0 /\ Cardinality(popped) = 0 /\ PriorityCap \in Nat
  BY <1>2, <1>3, <1>7, Queued, FS_EmptySet
<1>9. Counting
  BY <1>2, <1>8 DEF Counting, CounterCoversQueue, PublishesBounded
<1> QED
  BY <1>3, <1>6, <1>9 DEF CounterInv

\* No step of sender or receivers breaks the invariant.
LEMMA NextQueue == QueueTypes /\ CounterInv /\ [Next]_vars => QueueTypes' /\ CounterInv'
<1> SUFFICES ASSUME QueueTypes, CounterInv, [Next]_vars PROVE QueueTypes' /\ CounterInv'
  OBVIOUS
<1>1. CASE LoadLen
  BY <1>1, LoadLenKeeps
<1>2. CASE StoreLen
  BY <1>2, StoreLenKeeps
<1>3. CASE PushPublish
  BY <1>3, PushPublishKeeps
<1>4. CASE SendControl
  BY <1>4, SendControlKeeps
<1>5. CASE SendForward
  BY <1>5, SendForwardKeeps
<1>6. ASSUME NEW r \in Receiver, PollNext(r)
      PROVE  QueueTypes' /\ CounterInv'
  BY <1>6, PollNextKeeps
<1>7. ASSUME NEW r \in Receiver, FetchSub(r)
      PROVE  QueueTypes' /\ CounterInv'
  BY <1>7, FetchSubKeeps
<1>8. ASSUME NEW r \in Receiver, PollPeek(r)
      PROVE  QueueTypes' /\ CounterInv'
  BY <1>8, PollPeekKeeps
<1>9. ASSUME NEW r \in Receiver, DropStalePublish(r)
      PROVE  QueueTypes' /\ CounterInv'
  BY <1>9, DropStalePublishKeeps
<1>10. ASSUME NEW r \in Receiver, DropStaleForward(r)
       PROVE  QueueTypes' /\ CounterInv'
  BY <1>10, DropStaleForwardKeeps
<1>11. ASSUME NEW r \in Receiver, NewReceiver(r)
       PROVE  QueueTypes' /\ CounterInv'
  BY <1>11, NewReceiverKeeps
<1>12. ASSUME NEW r \in Receiver, DropReceiver(r)
       PROVE  QueueTypes' /\ CounterInv'
  BY <1>12, DropReceiverKeeps
<1>13. ASSUME NEW r \in Receiver, TakeForward(r)
       PROVE  QueueTypes' /\ CounterInv'
  BY <1>13, TakeForwardKeeps
<1>14. ASSUME NEW r \in Receiver, PeekForward(r)
       PROVE  QueueTypes' /\ CounterInv'
  BY <1>14, PeekForwardKeeps
<1>15. CASE UNCHANGED vars
  BY <1>15, SameQueue DEF vars
<1> QED
  BY <1>1, <1>2, <1>3, <1>4, <1>5, <1>6, <1>7, <1>8, <1>9, <1>10, <1>11, <1>12, <1>13, <1>14, <1>15
     DEF Next

\* The invariant holds of every behaviour of the queue.
LEMMA QueueInvariant == Spec => [](QueueTypes /\ CounterInv)
  BY InitQueue, NextQueue, PTL DEF Spec

\* What a task does next is one of the things it may do.
LEMMA SecondTyped == Spec => [](second \in [Receiver -> SecondLook])
<1> DEFINE T == second \in [Receiver -> SecondLook]
<1>1. Init => T
  BY DEF Init, SecondLook
<1>2. T /\ [Next]_vars => T'
  <2> SUFFICES ASSUME second \in [Receiver -> SecondLook], [Next]_vars
               PROVE  second' \in [Receiver -> SecondLook]
    OBVIOUS
  <2>1. \/ second' = second
        \/ \E r \in Receiver, x \in SecondLook : second' = [second EXCEPT ![r] = x]
    <3>1. CASE LoadLen \/ StoreLen \/ PushPublish \/ SendControl \/ SendForward \/ UNCHANGED vars
      BY <3>1 DEF LoadLen, StoreLen, PushPublish, SendControl, SendForward, vars
    <3>2. ASSUME NEW r \in Receiver,
                 \/ FetchSub(r) \/ DropStalePublish(r) \/ NewReceiver(r) \/ DropReceiver(r)
          PROVE  second' = second
      BY <3>2 DEF FetchSub, DropStalePublish, NewReceiver, DropReceiver
    <3>3. ASSUME NEW r \in Receiver,
                 PollNext(r) \/ TakeForward(r) \/ PollPeek(r) \/ PeekForward(r) \/ DropStaleForward(r)
          PROVE  second' = second \/ \E x \in SecondLook : second' = [second EXCEPT ![r] = x]
      BY <3>3 DEF PollNext, TakeForward, PollPeek, PeekForward, DropStaleForward, SecondLook
    <3> QED
      BY <3>1, <3>2, <3>3 DEF Next
  <2> QED
    BY <2>1
<1> QED
  BY <1>1, <1>2, PTL DEF Spec

\* Every value has its type; in particular the AtomicUsize never wraps below
\* zero, for any capacity, any number of connections and of sends.
THEOREM QueueTyped == Spec => []TypeOK
<1>1. QueueTypes /\ second \in [Receiver -> SecondLook] => TypeOK
  BY DEF QueueTypes, TypeOK
<1> QED
  BY <1>1, QueueInvariant, SecondTyped, PTL

\* The counter stands for at least the Publishes that are queued, popped or
\* about to be pushed, whatever happens between its load and its store.
THEOREM CounterCovers == Spec => []CounterCoversQueue
<1>1. CounterInv => CounterCoversQueue
  BY DEF CounterInv, Counting
<1> QED
  BY <1>1, QueueInvariant, PTL

\* The unbounded priority channel never holds more Publishes than
\* priority_cap.
THEOREM PublishesAreBounded == Spec => []PublishesBounded
<1>1. CounterInv => PublishesBounded
  BY DEF CounterInv, Counting
<1> QED
  BY <1>1, QueueInvariant, PTL

-----------------------------------------------------------------------------
(* The order of the rpcs of one channel.                                   *)

\* The kinds of the rpcs of either channel.
High == {"Publish", "Control"}
Low == {"Forward"}

\* Of the kinds K, the Receivers returned t, keep s in their slots and find q
\* in the channel: the numbers are below k, and go up from each to the next.
InLine(q, s, t, K, k) ==
  /\ \A i \in DOMAIN q : q[i].kind \in K /\ q[i].n < k
  /\ \A i, j \in DOMAIN q : i < j => q[i].n < q[j].n
  /\ \A r \in Receiver : s[r] # NoRpc =>
       /\ s[r].kind \in K /\ s[r].n < k
       /\ \A j \in DOMAIN q : s[r].n < q[j].n
  /\ \A r \in Receiver : \A i \in DOMAIN t[r] : t[r][i].kind \in K =>
       /\ t[r][i].n < k
       /\ \A j \in DOMAIN q : t[r][i].n < q[j].n
       /\ s[r] # NoRpc => t[r][i].n < s[r].n
       /\ \A j \in DOMAIN t[r] : i < j /\ t[r][j].kind \in K => t[r][i].n < t[r][j].n

\* The numbers of a channel go up; its head is what a poll_peek finds.
LEMMA TailElements ==
  ASSUME NEW q \in Seq(Rpc), q # <<>>
  PROVE  /\ Head(q) = q[1] /\ 1 \in DOMAIN q /\ DOMAIN q \subseteq Nat
         /\ \A j \in DOMAIN Tail(q) :
              j + 1 \in DOMAIN q /\ 1 < j + 1 /\ j \in Nat /\ Tail(q)[j] = q[j + 1]
<1>1. Len(q) \in Nat /\ Len(q) # 0 /\ DOMAIN q = 1 .. Len(q)
  BY EmptySeq, LenProperties
<1>2. DOMAIN Tail(q) = 1 .. (Len(q) - 1) /\ \A j \in 1 .. (Len(q) - 1) : Tail(q)[j] = q[j + 1]
  OBVIOUS
<1> QED
  BY <1>1, <1>2

\* Every number is a number.
LEMMA NumbersTyped ==
  ASSUME NEW q \in Seq(Rpc), NEW s \in [Receiver -> MaybeRpc], NEW t \in [Receiver -> Seq(Rpc)]
  PROVE  /\ \A i \in DOMAIN q : q[i] \in Rpc /\ q[i].n \in Nat
         /\ \A r \in Receiver : s[r] # NoRpc => s[r] \in Rpc /\ s[r].n \in Nat
         /\ \A r \in Receiver : \A i \in DOMAIN t[r] : t[r][i] \in Rpc /\ t[r][i].n \in Nat
<1>1. \A w \in Seq(Rpc) : \A i \in DOMAIN w : w[i] \in Rpc
  OBVIOUS
<1>2. \A m \in Rpc : m.n \in Nat
  BY DEF Rpc
<1>3. \A r \in Receiver : s[r] # NoRpc => s[r] \in Rpc
  BY DEF MaybeRpc
<1>4. \A r \in Receiver : t[r] \in Seq(Rpc)
  OBVIOUS
<1> QED
  BY <1>1, <1>2, <1>3, <1>4

\* A larger bound.
LEMMA InLineStill ==
  ASSUME NEW q \in Seq(Rpc), NEW s \in [Receiver -> MaybeRpc], NEW t \in [Receiver -> Seq(Rpc)],
         NEW K, NEW k \in Nat, NEW l \in Nat, k <= l, InLine(q, s, t, K, k)
  PROVE  InLine(q, s, t, K, l)
<1>1. \A n \in Nat : n < k => n < l
  OBVIOUS
<1> QED
  BY <1>1, NumbersTyped DEF InLine

\* A new number is put at the end of the channel.
LEMMA InLineSent ==
  ASSUME NEW q \in Seq(Rpc), NEW s \in [Receiver -> MaybeRpc], NEW t \in [Receiver -> Seq(Rpc)],
         NEW K, NEW k \in Nat, InLine(q, s, t, K, k), NEW m \in Rpc, m.kind \in K, m.n = k
  PROVE  InLine(Append(q, m), s, t, K, k + 1)
<1> DEFINE w == Append(q, m)
<1>1. /\ DOMAIN w = DOMAIN q \cup {Len(q) + 1} /\ w[Len(q) + 1] = m
      /\ \A i \in DOMAIN q : w[i] = q[i] /\ i < Len(q) + 1 /\ i \in Nat
      /\ Len(q) + 1 \in Nat
  OBVIOUS
<1> HIDE DEF w
<1>2. /\ \A i \in DOMAIN q : q[i].n \in Nat /\ q[i].n < k /\ q[i].kind \in K
      /\ \A r \in Receiver : s[r] # NoRpc => s[r].n \in Nat /\ s[r].n < k
      /\ \A r \in Receiver : \A i \in DOMAIN t[r] : t[r][i].kind \in K =>
           t[r][i].n \in Nat /\ t[r][i].n < k
  BY NumbersTyped DEF InLine
<1>3. \A n \in Nat : n < k => n < k + 1
  OBVIOUS
<1>4. \A i \in DOMAIN w : w[i].kind \in K /\ w[i].n < k + 1
  BY <1>1, <1>2, <1>3
<1>5. \A i, j \in DOMAIN w : i < j => w[i].n < w[j].n
  <2> SUFFICES ASSUME NEW i \in DOMAIN w, NEW j \in DOMAIN w, i < j
               PROVE  w[i].n < w[j].n
    OBVIOUS
  <2>1. i \in DOMAIN q
    BY <1>1
  <2>2. CASE j \in DOMAIN q
    BY <1>1, <2>1, <2>2 DEF InLine
  <2>3. CASE j = Len(q) + 1
    BY <1>1, <1>2, <2>1, <2>3
  <2> QED
    BY <1>1, <2>2, <2>3
<1>6. \A r \in Receiver : s[r] # NoRpc =>
        /\ s[r].kind \in K /\ s[r].n < k + 1
        /\ \A j \in DOMAIN w : s[r].n < w[j].n
  <2> SUFFICES ASSUME NEW r \in Receiver, s[r] # NoRpc
               PROVE  /\ s[r].kind \in K /\ s[r].n < k + 1
                      /\ \A j \in DOMAIN w : s[r].n < w[j].n
    OBVIOUS
  <2>1. s[r].kind \in K /\ \A j \in DOMAIN q : s[r].n < q[j].n
    BY DEF InLine
  <2>2. s[r].n < k + 1 /\ s[r].n < m.n
    BY <1>2, <1>3
  <2> QED
    BY <1>1, <2>1, <2>2
<1>7. \A r \in Receiver : \A i \in DOMAIN t[r] : t[r][i].kind \in K =>
        /\ t[r][i].n < k + 1
        /\ \A j \in DOMAIN w : t[r][i].n < w[j].n
        /\ s[r] # NoRpc => t[r][i].n < s[r].n
        /\ \A j \in DOMAIN t[r] : i < j /\ t[r][j].kind \in K => t[r][i].n < t[r][j].n
  <2> SUFFICES ASSUME NEW r \in Receiver, NEW i \in DOMAIN t[r], t[r][i].kind \in K
               PROVE  /\ t[r][i].n < k + 1
                      /\ \A j \in DOMAIN w : t[r][i].n < w[j].n
                      /\ s[r] # NoRpc => t[r][i].n < s[r].n
                      /\ \A j \in DOMAIN t[r] : i < j /\ t[r][j].kind \in K => t[r][i].n < t[r][j].n
    OBVIOUS
  <2>1. /\ \A j \in DOMAIN q : t[r][i].n < q[j].n
        /\ s[r] # NoRpc => t[r][i].n < s[r].n
        /\ \A j \in DOMAIN t[r] : i < j /\ t[r][j].kind \in K => t[r][i].n < t[r][j].n
    BY DEF InLine
  <2>2. t[r][i].n < k + 1 /\ t[r][i].n < m.n
    BY <1>2, <1>3
  <2> QED
    BY <1>1, <2>1, <2>2
<1>8. InLine(w, s, t, K, k + 1)
  BY <1>4, <1>5, <1>6, <1>7 DEF InLine
<1> QED
  BY <1>8 DEF w

\* poll_peek moves the head of the channel into an empty slot.
LEMMA InLinePeek ==
  ASSUME NEW q \in Seq(Rpc), NEW s \in [Receiver -> MaybeRpc], NEW t \in [Receiver -> Seq(Rpc)],
         NEW K, NEW k \in Nat, InLine(q, s, t, K, k), NEW r \in Receiver
  PROVE  InLine(AfterPeek(s[r], q), [s EXCEPT ![r] = Peek(s[r], q)], t, K, k)
<1> DEFINE w == AfterPeek(s[r], q)
           u == [s EXCEPT ![r] = Peek(s[r], q)]
<1>0. w = AfterPeek(s[r], q) /\ u = [s EXCEPT ![r] = Peek(s[r], q)]
  OBVIOUS
<1> HIDE DEF w, u
<1> SUFFICES InLine(w, u, t, K, k)
  BY <1>0
<1>1. CASE s[r] # NoRpc \/ q = <<>>
  <2>1. w = q /\ u = s
    BY <1>0, <1>1 DEF AfterPeek, Peek
  <2> QED
    BY <2>1
<1>2. CASE s[r] = NoRpc /\ q # <<>>
  <2>1. w = Tail(q) /\ u = [s EXCEPT ![r] = Head(q)]
    BY <1>0, <1>2 DEF AfterPeek, Peek
  <2>2. /\ 1 \in DOMAIN q
        /\ \A j \in DOMAIN w : j + 1 \in DOMAIN q /\ 1 < j + 1 /\ j \in Nat /\ w[j] = q[j + 1]
        /\ u[r] = q[1] /\ \A x \in Receiver \ {r} : u[x] = s[x]
    BY <1>2, <2>1, TailElements
  <2>3. \A i \in DOMAIN w : w[i].kind \in K /\ w[i].n < k
    BY <2>2 DEF InLine
  <2>4. \A i, j \in DOMAIN w : i < j => w[i].n < w[j].n
    <3>1. \A i, j \in DOMAIN w : i < j => i + 1 < j + 1
      BY <2>2
    <3> QED
      BY <2>2, <3>1 DEF InLine
  <2>5. \A x \in Receiver : u[x] # NoRpc =>
          /\ u[x].kind \in K /\ u[x].n < k
          /\ \A j \in DOMAIN w : u[x].n < w[j].n
    BY <2>2 DEF InLine
  <2>6. \A x \in Receiver : \A i \in DOMAIN t[x] : t[x][i].kind \in K =>
          /\ t[x][i].n < k
          /\ \A j \in DOMAIN w : t[x][i].n < w[j].n
          /\ u[x] # NoRpc => t[x][i].n < u[x].n
          /\ \A j \in DOMAIN t[x] : i < j /\ t[x][j].kind \in K => t[x][i].n < t[x][j].n
    <3> SUFFICES ASSUME NEW x \in Receiver, NEW i \in DOMAIN t[x], t[x][i].kind \in K
                 PROVE  /\ t[x][i].n < k
                        /\ \A j \in DOMAIN w : t[x][i].n < w[j].n
                        /\ u[x] # NoRpc => t[x][i].n < u[x].n
                        /\ \A j \in DOMAIN t[x] : i < j /\ t[x][j].kind \in K => t[x][i].n < t[x][j].n
      OBVIOUS
    <3>1. /\ t[x][i].n < k
          /\ \A j \in DOMAIN q : t[x][i].n < q[j].n
          /\ s[x] # NoRpc => t[x][i].n < s[x].n
          /\ \A j \in DOMAIN t[x] : i < j /\ t[x][j].kind \in K => t[x][i].n < t[x][j].n
      BY DEF InLine
    <3> QED
      BY <2>2, <3>1
  <2> QED
    BY <2>3, <2>4, <2>5, <2>6 DEF InLine
<1> QED
  BY <1>1, <1>2

\* A slot is emptied, and its rpc dropped.
LEMMA InLineDropped ==
  ASSUME NEW q \in Seq(Rpc), NEW s \in [Receiver -> MaybeRpc], NEW t \in [Receiver -> Seq(Rpc)],
         NEW K, NEW k \in Nat, InLine(q, s, t, K, k), NEW r \in Receiver
  PROVE  InLine(q, [s EXCEPT ![r] = NoRpc], t, K, k)
<1> DEFINE u == [s EXCEPT ![r] = NoRpc]
<1>1. u[r] = NoRpc /\ \A x \in Receiver \ {r} : u[x] = s[x]
  OBVIOUS
<1> HIDE DEF u
<1>2. InLine(q, u, t, K, k)
  BY <1>1 DEF InLine
<1> QED
  BY <1>2 DEF u

\* A slot is emptied, and its rpc returned.
LEMMA InLineReturned ==
  ASSUME NEW q \in Seq(Rpc), NEW s \in [Receiver -> MaybeRpc], NEW t \in [Receiver -> Seq(Rpc)],
         NEW K, NEW k \in Nat, InLine(q, s, t, K, k), NEW r \in Receiver, s[r] # NoRpc
  PROVE  InLine(q, [s EXCEPT ![r] = NoRpc], [t EXCEPT ![r] = Append(@, s[r])], K, k)
<1> DEFINE u == [s EXCEPT ![r] = NoRpc]
           v == [t EXCEPT ![r] = Append(@, s[r])]
           e == Len(t[r]) + 1
<1>1. u[r] = NoRpc /\ \A x \in Receiver \ {r} : u[x] = s[x] /\ v[x] = t[x]
  OBVIOUS
<1>2. /\ DOMAIN v[r] = DOMAIN t[r] \cup {e} /\ v[r][e] = s[r]
      /\ \A i \in DOMAIN t[r] : v[r][i] = t[r][i] /\ i < e /\ ~ (e < i)
      /\ ~ (e < e)
  <2>1. t[r] \in Seq(Rpc) /\ s[r] \in Rpc
    BY DEF MaybeRpc
  <2>2. v[r] = Append(t[r], s[r])
    OBVIOUS
  <2> QED
    BY <2>1, <2>2
<1> HIDE DEF u, v, e
<1>3. \A x \in Receiver : \A i \in DOMAIN v[x] : v[x][i].kind \in K =>
        /\ v[x][i].n < k
        /\ \A j \in DOMAIN q : v[x][i].n < q[j].n
        /\ u[x] # NoRpc => v[x][i].n < u[x].n
        /\ \A j \in DOMAIN v[x] : i < j /\ v[x][j].kind \in K => v[x][i].n < v[x][j].n
  <2> SUFFICES ASSUME NEW x \in Receiver, NEW i \in DOMAIN v[x], v[x][i].kind \in K
               PROVE  /\ v[x][i].n < k
                      /\ \A j \in DOMAIN q : v[x][i].n < q[j].n
                      /\ u[x] # NoRpc => v[x][i].n < u[x].n
                      /\ \A j \in DOMAIN v[x] : i < j /\ v[x][j].kind \in K => v[x][i].n < v[x][j].n
    OBVIOUS
  <2>1. CASE x # r
    BY <1>1, <2>1 DEF InLine
  <2>2. CASE x = r /\ i \in DOMAIN t[r]
    <3>1. /\ t[r][i].kind \in K /\ v[r][i] = t[r][i]
      BY <1>2, <2>2
    <3>2. /\ t[r][i].n < k
          /\ \A j \in DOMAIN q : t[r][i].n < q[j].n
          /\ t[r][i].n < s[r].n
          /\ \A j \in DOMAIN t[r] : i < j /\ t[r][j].kind \in K => t[r][i].n < t[r][j].n
      BY <2>2, <3>1 DEF InLine
    <3> QED
      BY <1>1, <1>2, <2>2, <3>1, <3>2
  <2>3. CASE x = r /\ i = e
    <3>1. s[r].n < k /\ \A j \in DOMAIN q : s[r].n < q[j].n
      BY DEF InLine
    <3>2. \A j \in DOMAIN v[r] : ~ (e < j)
      BY <1>2
    <3> QED
      BY <1>1, <1>2, <2>3, <3>1, <3>2
  <2> QED
    BY <1>2, <2>1, <2>2, <2>3
<1>4. InLine(q, u, v, K, k)
  BY <1>1, <1>3 DEF InLine
<1> QED
  BY <1>4 DEF u, v

\* An rpc of the other channel is returned.
LEMMA InLineOther ==
  ASSUME NEW q \in Seq(Rpc), NEW s \in [Receiver -> MaybeRpc], NEW t \in [Receiver -> Seq(Rpc)],
         NEW K, NEW k \in Nat, InLine(q, s, t, K, k), NEW r \in Receiver,
         NEW m \in Rpc, m.kind \notin K
  PROVE  InLine(q, s, [t EXCEPT ![r] = Append(@, m)], K, k)
<1> DEFINE v == [t EXCEPT ![r] = Append(@, m)]
           e == Len(t[r]) + 1
<1>1. \A x \in Receiver \ {r} : v[x] = t[x]
  OBVIOUS
<1>2. /\ DOMAIN v[r] = DOMAIN t[r] \cup {e} /\ v[r][e] = m
      /\ \A i \in DOMAIN t[r] : v[r][i] = t[r][i]
  <2>1. t[r] \in Seq(Rpc) /\ v[r] = Append(t[r], m)
    OBVIOUS
  <2> QED
    BY <2>1
<1> HIDE DEF v, e
<1>3. \A x \in Receiver : \A i \in DOMAIN v[x] : v[x][i].kind \in K =>
        i \in DOMAIN t[x] /\ v[x][i] = t[x][i]
  BY <1>1, <1>2
<1>4. InLine(q, s, v, K, k)
  BY <1>3 DEF InLine
<1> QED
  BY <1>4 DEF v

\* A poll_peek finds the head of its line: taking it, the rest is in line.
LEMMA InLineTaken ==
  ASSUME NEW q \in Seq(Rpc), NEW s \in [Receiver -> MaybeRpc], NEW t \in [Receiver -> Seq(Rpc)],
         NEW K, NEW k \in Nat, InLine(q, s, t, K, k), NEW r \in Receiver
  PROVE  /\ InLine(AfterPeek(s[r], q), [s EXCEPT ![r] = NoRpc], t, K, k)
         /\ Peek(s[r], q) # NoRpc =>
              /\ Peek(s[r], q).kind \in K
              /\ InLine(AfterPeek(s[r], q), [s EXCEPT ![r] = NoRpc],
                        [t EXCEPT ![r] = Append(@, Peek(s[r], q))], K, k)
<1> DEFINE m == Peek(s[r], q)
           w == AfterPeek(s[r], q)
           u == [s EXCEPT ![r] = m]
           z == [s EXCEPT ![r] = NoRpc]
           v == [t EXCEPT ![r] = Append(@, m)]
<1>1. InLine(w, u, t, K, k)
  BY InLinePeek
<1>2. s[r] \in MaybeRpc
  OBVIOUS
<1>3. w \in Seq(Rpc) /\ m \in MaybeRpc
  BY <1>2, PeekTyped
<1>4. /\ u \in [Receiver -> MaybeRpc] /\ u[r] = m /\ [u EXCEPT ![r] = NoRpc] = z
  BY <1>3
<1>5. v = [t EXCEPT ![r] = Append(@, u[r])]
  BY <1>4
<1> HIDE DEF m, w, u, z, v
<1>6. InLine(w, z, t, K, k)
  BY <1>1, <1>3, <1>4, InLineDropped
<1>7. ASSUME m # NoRpc PROVE m.kind \in K /\ InLine(w, z, v, K, k)
  <2>1. m.kind \in K
    BY <1>1, <1>4, <1>7 DEF InLine
  <2>2. InLine(w, z, v, K, k)
    BY <1>1, <1>3, <1>4, <1>5, <1>7, InLineReturned
  <2> QED
    BY <2>1, <2>2
<1> QED
  BY <1>6, <1>7 DEF m, w, z, v

-----------------------------------------------------------------------------
(* Where the rpc of one call is.                                           *)

InChannel(q, n) == Cardinality({i \in DOMAIN q : q[i] # NoRpc /\ q[i].n = n})
InSlots(s, n) == Cardinality({r \in Receiver : s[r] # NoRpc /\ s[r].n = n})
Returns(t, n) ==
  Cardinality({ri \in Receiver \X (1 .. MaxSends) :
                 ri[2] \in DOMAIN t[ri[1]] /\ t[ri[1]][ri[2]] # NoRpc /\ t[ri[1]][ri[2]].n = n})
GivenUp(d, n) == Cardinality({m \in d : m # NoRpc /\ m.n = n})
Sending(u, n) == IF u.pc # "idle" /\ u.n = n THEN 1 ELSE 0

\* The number of rpcs of call n in a channel and the slots in front of it.
InBoth(q, s, n) == InChannel(q, n) + InSlots(s, n)

\* k calls were made, and each has left its rpc in one place: the channels q
\* and g, the slots s and f, what was returned, t, or given up, d, or the send
\* u that is under way.  Nothing else is anywhere.
Sole(q, g, s, f, t, d, u, k) ==
  /\ q \in Seq(Rpc) /\ g \in Seq(Rpc)
  /\ s \in [Receiver -> MaybeRpc] /\ f \in [Receiver -> MaybeRpc]
  /\ t \in [Receiver -> Seq(Rpc)] /\ IsFiniteSet(d)
  /\ k \in Nat /\ k <= MaxSends
  /\ \A r \in Receiver : Len(t[r]) <= MaxSends
  /\ \A n \in Nat :
       InBoth(q, s, n) + InBoth(g, f, n) + Returns(t, n) + GivenUp(d, n) + Sending(u, n)
         = IF n \in 1 .. k THEN 1 ELSE 0

SlotsF == [r \in Receiver |-> peeked[r].f]
OnePlace ==
  Sole(priority, nonPriority, SlotsP, SlotsF, taken, refused \cup discarded, sender, calls)

HistoryInv ==
  /\ InLine(priority, SlotsP, taken, High, NextNumber)
  /\ InLine(nonPriority, SlotsF, taken, Low, calls + 1)
  /\ OnePlace

\* One rpc m counts for its own number.
One(m, n) == IF m.n = n THEN 1 ELSE 0

\* The sets that are counted are finite.
LEMMA ChannelCount ==
  ASSUME NEW q \in Seq(Rpc), NEW n
  PROVE  /\ IsFiniteSet({i \in DOMAIN q : q[i] # NoRpc /\ q[i].n = n})
         /\ InChannel(q, n) \in Nat
<1>1. DOMAIN q = 1 .. Len(q) /\ Len(q) \in Int /\ 1 \in Int
  BY LenProperties
<1>2. IsFiniteSet(DOMAIN q)
  BY <1>1, FS_Interval
<1>3. IsFiniteSet({i \in DOMAIN q : q[i] # NoRpc /\ q[i].n = n})
  BY <1>2, FS_Subset
<1> QED
  BY <1>3, FS_CardinalityType DEF InChannel

LEMMA SlotsCount ==
  ASSUME NEW s, NEW n
  PROVE  /\ IsFiniteSet({r \in Receiver : s[r] # NoRpc /\ s[r].n = n})
         /\ InSlots(s, n) \in Nat
<1>1. IsFiniteSet({r \in Receiver : s[r] # NoRpc /\ s[r].n = n})
  BY QueueAssumption, FS_Subset
<1> QED
  BY <1>1, FS_CardinalityType DEF InSlots

LEMMA ReturnsCount ==
  ASSUME NEW t, NEW n
  PROVE  /\ IsFiniteSet({ri \in Receiver \X (1 .. MaxSends) :
              ri[2] \in DOMAIN t[ri[1]] /\ t[ri[1]][ri[2]] # NoRpc /\ t[ri[1]][ri[2]].n = n})
         /\ Returns(t, n) \in Nat
<1>1. IsFiniteSet(Receiver \X (1 .. MaxSends))
  <2>1. IsFiniteSet(1 .. MaxSends)
    BY QueueAssumption, FS_Interval
  <2> QED
    BY <2>1, QueueAssumption, FS_Product
<1>2. IsFiniteSet({ri \in Receiver \X (1 .. MaxSends) :
        ri[2] \in DOMAIN t[ri[1]] /\ t[ri[1]][ri[2]] # NoRpc /\ t[ri[1]][ri[2]].n = n})
  BY <1>1, FS_Subset
<1> QED
  BY <1>2, FS_CardinalityType DEF Returns

LEMMA GivenUpCount ==
  ASSUME NEW d, IsFiniteSet(d), NEW n
  PROVE  /\ IsFiniteSet({m \in d : m # NoRpc /\ m.n = n})
         /\ GivenUp(d, n) \in Nat
<1>1. IsFiniteSet({m \in d : m # NoRpc /\ m.n = n})
  BY FS_Subset
<1> QED
  BY <1>1, FS_CardinalityType DEF GivenUp

\* An rpc is put into a channel.
LEMMA ChannelGains ==
  ASSUME NEW q \in Seq(Rpc), NEW m \in Rpc, NEW n
  PROVE  InChannel(Append(q, m), n) = InChannel(q, n) + One(m, n)
<1> DEFINE w == Append(q, m)
           In(x) == {i \in DOMAIN x : x[i] # NoRpc /\ x[i].n = n}
           e == Len(q) + 1
<1>1. /\ DOMAIN w = DOMAIN q \cup {e} /\ w[e] = m /\ e \notin DOMAIN q
      /\ \A i \in DOMAIN q : w[i] = q[i]
  OBVIOUS
<1>2. m # NoRpc
  BY QueueAssumption DEF Rpc
<1>3. IsFiniteSet(In(q)) /\ Cardinality(In(q)) \in Nat /\ InChannel(q, n) = Cardinality(In(q))
  BY ChannelCount DEF InChannel
<1> HIDE DEF w, e
<1>4. CASE m.n = n
  <2>1. In(w) = In(q) \cup {e} /\ e \notin In(q)
    BY <1>1, <1>2, <1>4
  <2> HIDE DEF In
  <2>2. Cardinality(In(w)) = Cardinality(In(q)) + 1
    BY <1>3, <2>1, FS_AddElement
  <2> QED
    BY <1>4, <2>2 DEF InChannel, One, In, w
<1>5. CASE m.n # n
  <2>1. In(w) = In(q) /\ InChannel(w, n) = Cardinality(In(w))
    BY <1>1, <1>5 DEF InChannel
  <2> HIDE DEF In
  <2> QED
    BY <1>3, <1>5, <2>1 DEF One, w
<1> QED
  BY <1>4, <1>5

\* The head of a channel is taken out.
LEMMA ChannelLoses ==
  ASSUME NEW q \in Seq(Rpc), q # <<>>, NEW n
  PROVE  InChannel(q, n) = InChannel(Tail(q), n) + One(Head(q), n)
<1> DEFINE w == Tail(q)
           In(x) == {i \in DOMAIN x : x[i] # NoRpc /\ x[i].n = n}
           f == [i \in In(w) |-> i + 1]
<1>1. w \in Seq(Rpc) /\ Head(q) \in Rpc
  BY HeadTailProperties
<1>2. /\ Head(q) = q[1] /\ 1 \in DOMAIN q /\ DOMAIN q \subseteq Nat
      /\ \A j \in DOMAIN w : j + 1 \in DOMAIN q /\ 1 < j + 1 /\ j \in Nat /\ w[j] = q[j + 1]
  BY TailElements
<1>3. \A j \in DOMAIN q : j = 1 \/ j - 1 \in DOMAIN w
  <2>1. DOMAIN q = 1 .. Len(q) /\ DOMAIN w = 1 .. (Len(q) - 1) /\ Len(q) \in Nat
    OBVIOUS
  <2> QED
    BY <2>1
<1>4. Head(q) # NoRpc
  BY <1>1, QueueAssumption DEF Rpc
<1> HIDE DEF w
<1>5. f \in Bijection(In(w), In(q) \ {1})
  <2>1. \A i \in In(w) : i + 1 \in In(q) \ {1} /\ i \in Nat
    BY <1>2
  <2>2. f \in [In(w) -> In(q) \ {1}]
    BY <2>1
  <2>3. \A i, j \in In(w) : f[i] = f[j] => i = j
    BY <2>1
  <2>4. ASSUME NEW j \in In(q) \ {1} PROVE \E i \in In(w) : f[i] = j
    <3>1. j \in Nat /\ j - 1 \in DOMAIN w /\ (j - 1) + 1 = j
      BY <1>2, <1>3
    <3>2. w[j - 1] = q[j]
      BY <1>2, <3>1
    <3>3. j - 1 \in In(w)
      BY <3>1, <3>2
    <3> QED
      BY <3>1, <3>3
  <2> HIDE DEF f
  <2> QED
    BY <2>2, <2>3, <2>4 DEF Bijection, Injection, Surjection, IsInjective
<1>6. /\ IsFiniteSet(In(w)) /\ IsFiniteSet(In(q))
      /\ Cardinality(In(w)) \in Nat /\ Cardinality(In(q)) \in Nat
  <2>1. q \in Seq(Rpc) /\ w \in Seq(Rpc)
    BY <1>1
  <2>2. IsFiniteSet(In(w)) /\ IsFiniteSet(In(q))
    BY <2>1, ChannelCount
  <2> HIDE DEF In
  <2> QED
    BY <2>2, FS_CardinalityType
<1> HIDE DEF f
<1>7. Cardinality(In(q) \ {1}) = Cardinality(In(w))
  BY <1>5, <1>6, FS_Bijection DEF ExistsBijection
<1>8. Cardinality(In(q) \ {1}) = IF 1 \in In(q) THEN Cardinality(In(q)) - 1 ELSE Cardinality(In(q))
  BY <1>6, FS_RemoveElement
<1>9. 1 \in In(q) <=> Head(q).n = n
  BY <1>2, <1>4
<1> HIDE DEF In
<1>10. Cardinality(In(q)) = Cardinality(In(w)) + One(Head(q), n)
  BY <1>6, <1>7, <1>8, <1>9 DEF One
<1> QED
  BY <1>10 DEF InChannel, In, w

\* A slot is filled.
LEMMA SlotsGain ==
  ASSUME NEW s \in [Receiver -> MaybeRpc], NEW r \in Receiver, s[r] = NoRpc, NEW m \in Rpc, NEW n
  PROVE  InSlots([s EXCEPT ![r] = m], n) = InSlots(s, n) + One(m, n)
<1> DEFINE u == [s EXCEPT ![r] = m]
           In(x) == {i \in Receiver : x[i] # NoRpc /\ x[i].n = n}
<1>1. u[r] = m /\ \A x \in Receiver \ {r} : u[x] = s[x]
  OBVIOUS
<1>2. m # NoRpc
  BY QueueAssumption DEF Rpc
<1>3. IsFiniteSet(In(s)) /\ Cardinality(In(s)) \in Nat
  BY QueueAssumption, FS_Subset, FS_CardinalityType
<1> HIDE DEF u
<1>4. CASE m.n = n
  <2>1. In(u) = In(s) \cup {r} /\ r \notin In(s)
    BY <1>1, <1>2, <1>4
  <2> HIDE DEF In
  <2>2. Cardinality(In(u)) = Cardinality(In(s)) + 1
    BY <1>3, <2>1, FS_AddElement
  <2> QED
    BY <1>4, <2>2 DEF InSlots, One, In, u
<1>5. CASE m.n # n
  <2>1. In(u) = In(s) /\ InSlots(u, n) = Cardinality(In(u)) /\ InSlots(s, n) = Cardinality(In(s))
    BY <1>1, <1>5 DEF InSlots
  <2> HIDE DEF In
  <2> QED
    BY <1>3, <1>5, <2>1 DEF One, u
<1> QED
  BY <1>4, <1>5

\* A slot is emptied.
LEMMA SlotsLose ==
  ASSUME NEW s \in [Receiver -> MaybeRpc], NEW r \in Receiver, s[r] # NoRpc, NEW n
  PROVE  InSlots(s, n) = InSlots([s EXCEPT ![r] = NoRpc], n) + One(s[r], n)
<1> DEFINE u == [s EXCEPT ![r] = NoRpc]
<1>1. /\ u \in [Receiver -> MaybeRpc] /\ u[r] = NoRpc /\ s[r] \in Rpc
      /\ [u EXCEPT ![r] = s[r]] = s
  BY DEF MaybeRpc
<1> HIDE DEF u
<1>2. \A m \in Rpc : InSlots([u EXCEPT ![r] = m], n) = InSlots(u, n) + One(m, n)
  <2>1. u \in [Receiver -> MaybeRpc] /\ u[r] = NoRpc
    BY <1>1
  <2> QED
    BY <2>1, SlotsGain, Zenon
<1> QED
  BY <1>1, <1>2 DEF u

\* A poll_peek moves an rpc; taking what it finds makes one less.
LEMMA PeekCounts ==
  ASSUME NEW q \in Seq(Rpc), NEW s \in [Receiver -> MaybeRpc], NEW r \in Receiver, NEW n
  PROVE  /\ InChannel(AfterPeek(s[r], q), n) + InSlots([s EXCEPT ![r] = Peek(s[r], q)], n)
              = InChannel(q, n) + InSlots(s, n)
         /\ Peek(s[r], q) # NoRpc =>
              InChannel(AfterPeek(s[r], q), n) + InSlots([s EXCEPT ![r] = NoRpc], n)
                + One(Peek(s[r], q), n)
              = InChannel(q, n) + InSlots(s, n)
<1> DEFINE m == Peek(s[r], q)
           w == AfterPeek(s[r], q)
           u == [s EXCEPT ![r] = m]
           z == [s EXCEPT ![r] = NoRpc]
<1>1. s[r] \in MaybeRpc
  OBVIOUS
<1>2. m \in MaybeRpc /\ w \in Seq(Rpc) /\ (m # NoRpc => m \in Rpc)
  BY <1>1, PeekTyped
<1>3. /\ InChannel(q, n) \in Nat /\ InChannel(w, n) \in Nat
      /\ InSlots(s, n) \in Nat /\ InSlots(u, n) \in Nat /\ InSlots(z, n) \in Nat
  BY <1>2, ChannelCount, SlotsCount
<1>4. s[r] # NoRpc \/ q = <<>> => w = q /\ m = s[r]
  BY DEF AfterPeek, Peek
<1>5. s[r] = NoRpc /\ q # <<>> => w = Tail(q) /\ m = Head(q) /\ m \in Rpc
  BY HeadTailProperties DEF AfterPeek, Peek
<1>6. /\ u \in [Receiver -> MaybeRpc] /\ u[r] = m /\ z = [u EXCEPT ![r] = NoRpc] /\ One(m, n) \in Nat
      /\ u = [s EXCEPT ![r] = m]
  BY <1>2 DEF One
<1> HIDE DEF m, w, u, z
<1>7. InChannel(w, n) + InSlots(u, n) = InChannel(q, n) + InSlots(s, n)
  <2>1. CASE s[r] # NoRpc \/ q = <<>>
    <3>1. u = s
      BY <1>4, <1>6, <2>1
    <3> QED
      BY <1>4, <2>1, <3>1
  <2>2. CASE s[r] = NoRpc /\ q # <<>>
    <3>1. InChannel(q, n) = InChannel(w, n) + One(m, n)
      BY <1>5, <2>2, ChannelLoses
    <3>2. InSlots(u, n) = InSlots(s, n) + One(m, n)
      <4>1. s[r] = NoRpc /\ m \in Rpc
        BY <1>5, <2>2
      <4>2. \A k \in Rpc : InSlots([s EXCEPT ![r] = k], n) = InSlots(s, n) + One(k, n)
        BY <4>1, SlotsGain
      <4> QED
        BY <1>6, <4>1, <4>2
    <3> QED
      BY <1>3, <1>6, <3>1, <3>2
  <2> QED
    BY <2>1, <2>2
<1>8. ASSUME m # NoRpc
      PROVE  InChannel(w, n) + InSlots(z, n) + One(m, n) = InChannel(q, n) + InSlots(s, n)
  <2>1. InSlots(u, n) = InSlots(z, n) + One(m, n)
    BY <1>6, <1>8, SlotsLose
  <2> QED
    BY <1>3, <1>6, <1>7, <2>1
<1> QED
  BY <1>7, <1>8 DEF m, w, u, z

\* A Receiver returns an rpc.
LEMMA ReturnsGain ==
  ASSUME NEW t \in [Receiver -> Seq(Rpc)], NEW r \in Receiver, Len(t[r]) < MaxSends,
         NEW m \in Rpc, NEW n
  PROVE  Returns([t EXCEPT ![r] = Append(@, m)], n) = Returns(t, n) + One(m, n)
<1> DEFINE v == [t EXCEPT ![r] = Append(@, m)]
           e == Len(t[r]) + 1
           In(x) == {ri \in Receiver \X (1 .. MaxSends) :
                      ri[2] \in DOMAIN x[ri[1]] /\ x[ri[1]][ri[2]] # NoRpc /\ x[ri[1]][ri[2]].n = n}
<1>1. \A x \in Receiver \ {r} : v[x] = t[x]
  OBVIOUS
<1>2. /\ DOMAIN v[r] = DOMAIN t[r] \cup {e} /\ v[r][e] = m /\ e \notin DOMAIN t[r]
      /\ \A i \in DOMAIN t[r] : v[r][i] = t[r][i]
  <2>1. t[r] \in Seq(Rpc) /\ v[r] = Append(t[r], m)
    OBVIOUS
  <2> QED
    BY <2>1
<1>3. e \in 1 .. MaxSends
  <2>1. t[r] \in Seq(Rpc)
    OBVIOUS
  <2>2. Len(t[r]) \in Nat
    BY <2>1, LenProperties
  <2> QED
    BY <2>2, QueueAssumption
<1>4. m # NoRpc
  BY QueueAssumption DEF Rpc
<1>5. IsFiniteSet(In(t)) /\ Cardinality(In(t)) \in Nat
  <2>1. IsFiniteSet(In(t))
    BY ReturnsCount
  <2> HIDE DEF In
  <2> QED
    BY <2>1, FS_CardinalityType
<1> HIDE DEF v, e
<1>6. ASSUME NEW ri \in Receiver \X (1 .. MaxSends), ri # <<r, e>>
      PROVE  ri \in In(v) <=> ri \in In(t)
  <2>1. ri = <<ri[1], ri[2]>> /\ ri[1] \in Receiver
    OBVIOUS
  <2>2. CASE ri[1] # r
    BY <1>1, <2>1, <2>2
  <2>3. CASE ri[1] = r /\ ri[2] # e
    BY <1>2, <2>1, <2>3
  <2> QED
    BY <1>6, <2>1, <2>2, <2>3
<1>7. <<r, e>> \notin In(t) /\ (<<r, e>> \in In(v) <=> m.n = n)
  BY <1>2, <1>3, <1>4
<1>8. In(v) \subseteq Receiver \X (1 .. MaxSends) /\ In(t) \subseteq Receiver \X (1 .. MaxSends)
  OBVIOUS
<1> HIDE DEF In
<1>9. CASE m.n = n
  <2>1. In(v) = In(t) \cup {<<r, e>>}
    BY <1>6, <1>7, <1>8, <1>9
  <2>2. Cardinality(In(v)) = Cardinality(In(t)) + 1
    BY <1>5, <1>7, <2>1, FS_AddElement
  <2> QED
    BY <1>9, <2>2 DEF Returns, One, In, v
<1>10. CASE m.n # n
  <2>1. In(v) = In(t)
    <3>1. <<r, e>> \notin In(t) /\ <<r, e>> \notin In(v)
      BY <1>7, <1>10
    <3>2. \A ri : ri \in In(v) <=> ri \in In(t)
      BY <1>6, <1>8, <3>1
    <3> QED
      BY <3>2
  <2>2. Returns(v, n) = Returns(t, n) /\ Returns(t, n) \in Nat
    BY <1>5, <2>1 DEF Returns, In
  <2> QED
    BY <1>10, <2>2 DEF One, v
<1> QED
  BY <1>9, <1>10

\* An rpc is handed back or discarded.
LEMMA GivenUpGains ==
  ASSUME NEW d, IsFiniteSet(d), NEW m \in Rpc, GivenUp(d, m.n) = 0, NEW n
  PROVE  GivenUp(d \cup {m}, n) = GivenUp(d, n) + One(m, n)
<1> DEFINE In(x, k) == {y \in x : y # NoRpc /\ y.n = k}
<1>1. m # NoRpc
  BY QueueAssumption DEF Rpc
<1>2. \A k : IsFiniteSet(In(d, k)) /\ Cardinality(In(d, k)) \in Nat
  BY FS_Subset, FS_CardinalityType
<1>3. m \notin d
  <2>1. In(d, m.n) = {}
    BY <1>2, FS_EmptySet DEF GivenUp
  <2> QED
    BY <1>1, <2>1
<1>4. CASE m.n = n
  <2>1. In(d \cup {m}, n) = In(d, n) \cup {m} /\ m \notin In(d, n)
    BY <1>1, <1>3, <1>4
  <2> HIDE DEF In
  <2>2. Cardinality(In(d \cup {m}, n)) = Cardinality(In(d, n)) + 1
    BY <1>2, <2>1, FS_AddElement
  <2> QED
    BY <1>4, <2>2 DEF GivenUp, One, In
<1>5. CASE m.n # n
  <2>1. In(d \cup {m}, n) = In(d, n)
    BY <1>5
  <2>2. GivenUp(d \cup {m}, n) = GivenUp(d, n) /\ GivenUp(d, n) \in Nat
    BY <1>2, <2>1 DEF GivenUp, In
  <2> QED
    BY <1>5, <2>2 DEF One
<1> QED
  BY <1>4, <1>5

-----------------------------------------------------------------------------
(* How rpcs move between places.                                           *)

\* The counts of Sole are naturals, and which of them can be positive.
LEMMA SoleCounts ==
  ASSUME NEW q, NEW g, NEW s, NEW f, NEW t, NEW d, NEW u, NEW k, Sole(q, g, s, f, t, d, u, k),
         NEW n \in Nat
  PROVE  /\ InBoth(q, s, n) \in Nat /\ InBoth(g, f, n) \in Nat
         /\ Returns(t, n) \in Nat /\ GivenUp(d, n) \in Nat /\ Sending(u, n) \in Nat
         /\ Returns(t, n) <= 1
         /\ n \notin 1 .. k =>
              /\ InBoth(q, s, n) = 0 /\ InBoth(g, f, n) = 0
              /\ Returns(t, n) = 0 /\ GivenUp(d, n) = 0 /\ Sending(u, n) = 0
         /\ InBoth(q, s, n) > 0 => n \in 1 .. k /\ Returns(t, n) = 0 /\ GivenUp(d, n) = 0
<1> DEFINE a == InBoth(q, s, n)
           b == InBoth(g, f, n)
           v == Returns(t, n)
           y == GivenUp(d, n)
           z == Sending(u, n)
<1>1. a + b + v + y + z = IF n \in 1 .. k THEN 1 ELSE 0
  BY DEF Sole
<1>2. a \in Nat /\ b \in Nat /\ v \in Nat /\ y \in Nat /\ z \in Nat
  <2>1. InChannel(q, n) \in Nat /\ InChannel(g, n) \in Nat /\ GivenUp(d, n) \in Nat
    BY ChannelCount, GivenUpCount DEF Sole
  <2>2. InSlots(s, n) \in Nat /\ InSlots(f, n) \in Nat /\ Returns(t, n) \in Nat
    BY SlotsCount, ReturnsCount
  <2>3. \A i, j \in Nat : i + j \in Nat
    OBVIOUS
  <2>4. z \in Nat
    BY DEF Sending
  <2> QED
    BY <2>1, <2>2, <2>3, <2>4 DEF InBoth
<1> HIDE DEF a, b, v, y, z
<1>3. /\ v <= 1
      /\ n \notin 1 .. k => a = 0 /\ b = 0 /\ v = 0 /\ y = 0 /\ z = 0
      /\ a > 0 => n \in 1 .. k /\ v = 0 /\ y = 0
  BY <1>1, <1>2
<1> QED
  BY <1>2, <1>3 DEF a, b, v, y, z

\* The two lines have the same part in it.
LEMMA SoleSwapped ==
  ASSUME NEW q, NEW g, NEW s, NEW f, NEW t, NEW d, NEW u, NEW k, Sole(q, g, s, f, t, d, u, k)
  PROVE  Sole(g, q, f, s, t, d, u, k)
<1>1. ASSUME NEW n \in Nat
      PROVE  InBoth(g, f, n) + InBoth(q, s, n) + Returns(t, n) + GivenUp(d, n) + Sending(u, n)
               = IF n \in 1 .. k THEN 1 ELSE 0
  <2>1. InBoth(q, s, n) + InBoth(g, f, n) + Returns(t, n) + GivenUp(d, n) + Sending(u, n)
          = IF n \in 1 .. k THEN 1 ELSE 0
    BY DEF Sole
  <2>2. InBoth(q, s, n) + InBoth(g, f, n) = InBoth(g, f, n) + InBoth(q, s, n)
    <3>1. InBoth(q, s, n) \in Nat /\ InBoth(g, f, n) \in Nat
      BY SoleCounts
    <3>2. \A i, j \in Nat : i + j = j + i
      OBVIOUS
    <3> QED
      BY <3>1, <3>2
  <2> QED
    BY <2>1, <2>2
<1> QED
  BY <1>1 DEF Sole

\* From the line <<q, s>> to <<w, x>> the rpc m was taken out, or none.
Kept(q, s, w, x) ==
  /\ w \in Seq(Rpc) /\ x \in [Receiver -> MaybeRpc]
  /\ \A n : InBoth(w, x, n) = InBoth(q, s, n)
Left(q, s, w, x, m) ==
  /\ w \in Seq(Rpc) /\ x \in [Receiver -> MaybeRpc] /\ m \in Rpc
  /\ \A n : InBoth(w, x, n) + One(m, n) = InBoth(q, s, n) /\ InBoth(w, x, n) \in Nat

\* What a poll_peek, with or without the rpc taken, and an emptied slot do.
LEMMA PeekLine ==
  ASSUME NEW q \in Seq(Rpc), NEW s \in [Receiver -> MaybeRpc], NEW r \in Receiver
  PROVE  /\ Kept(q, s, AfterPeek(s[r], q), [s EXCEPT ![r] = Peek(s[r], q)])
         /\ Peek(s[r], q) # NoRpc =>
              Left(q, s, AfterPeek(s[r], q), [s EXCEPT ![r] = NoRpc], Peek(s[r], q))
         /\ s[r] # NoRpc => Left(q, s, q, [s EXCEPT ![r] = NoRpc], s[r])
         /\ s[r] = NoRpc => Kept(q, s, q, [s EXCEPT ![r] = NoRpc])
<1> DEFINE m == Peek(s[r], q)
           w == AfterPeek(s[r], q)
           x == [s EXCEPT ![r] = m]
           z == [s EXCEPT ![r] = NoRpc]
<1>1. s[r] \in MaybeRpc
  OBVIOUS
<1>2. w \in Seq(Rpc) /\ m \in MaybeRpc /\ (m # NoRpc => m \in Rpc)
  BY <1>1, PeekTyped
<1>3. x \in [Receiver -> MaybeRpc] /\ z \in [Receiver -> MaybeRpc] /\ (s[r] = NoRpc => z = s)
  BY <1>2 DEF MaybeRpc
<1>4. \A n : InBoth(w, z, n) \in Nat /\ InBoth(q, z, n) \in Nat
  <2>1. \A n : InChannel(w, n) \in Nat /\ InSlots(z, n) \in Nat /\ InChannel(q, n) \in Nat
    BY <1>2, ChannelCount, SlotsCount
  <2>2. \A i, j \in Nat : i + j \in Nat
    OBVIOUS
  <2> QED
    BY <2>1, <2>2 DEF InBoth
<1>5. \A n : /\ InBoth(w, x, n) = InBoth(q, s, n)
             /\ m # NoRpc => InBoth(w, z, n) + One(m, n) = InBoth(q, s, n)
  BY PeekCounts DEF InBoth
<1>6. ASSUME s[r] # NoRpc
      PROVE  \A n : InBoth(q, z, n) + One(s[r], n) = InBoth(q, s, n)
  <2>1. m = s[r] /\ w = q
    BY <1>6 DEF Peek, AfterPeek
  <2> QED
    BY <1>5, <1>6, <2>1
<1>7. s[r] # NoRpc => s[r] \in Rpc
  BY <1>1 DEF MaybeRpc
<1> HIDE DEF m, w, x, z
<1>8. /\ Kept(q, s, w, x)
      /\ m # NoRpc => Left(q, s, w, z, m)
      /\ s[r] # NoRpc => Left(q, s, q, z, s[r])
      /\ s[r] = NoRpc => Kept(q, s, q, z)
  BY <1>2, <1>3, <1>4, <1>5, <1>6, <1>7 DEF Kept, Left
<1> QED
  BY <1>8 DEF m, w, x, z

\* An rpc that leaves a line was neither returned nor given up before.
LEMMA LeftIsFirst ==
  ASSUME NEW q, NEW g, NEW s, NEW f, NEW t, NEW d, NEW u, NEW k, Sole(q, g, s, f, t, d, u, k),
         NEW w, NEW x, NEW m, Left(q, s, w, x, m)
  PROVE  m \in Rpc /\ m.n \in 1 .. k /\ Returns(t, m.n) = 0 /\ GivenUp(d, m.n) = 0
<1>1. m \in Rpc /\ m.n \in Nat
  BY DEF Left, Rpc
<1>2. InBoth(w, x, m.n) + 1 = InBoth(q, s, m.n) /\ InBoth(w, x, m.n) \in Nat
  BY DEF Left, One
<1>3. InBoth(q, s, m.n) > 0
  BY <1>2
<1> QED
  BY <1>1, <1>3, SoleCounts

\* A Receiver has returned fewer rpcs than were sent, if one is left.
LEMMA Room ==
  ASSUME NEW q, NEW g, NEW s, NEW f, NEW t, NEW d, NEW u, NEW k, Sole(q, g, s, f, t, d, u, k),
         NEW r \in Receiver, NEW m \in Rpc, m.n \in 1 .. k, Returns(t, m.n) = 0
  PROVE  Len(t[r]) < MaxSends
<1> DEFINE l == t[r]
           e == Len(l) + 1
           h == [i \in 1 .. e |-> IF i = e THEN m.n ELSE l[i].n]
           At(n) == {ri \in Receiver \X (1 .. MaxSends) :
                      ri[2] \in DOMAIN t[ri[1]] /\ t[ri[1]][ri[2]] # NoRpc /\ t[ri[1]][ri[2]].n = n}
<1>1. /\ l \in Seq(Rpc) /\ Len(l) \in Nat /\ Len(l) <= MaxSends /\ DOMAIN l = 1 .. Len(l)
      /\ k <= MaxSends /\ k \in Nat /\ MaxSends \in Nat
  <2>1. l \in Seq(Rpc)
    BY DEF Sole
  <2> QED
    BY <2>1, LenProperties, QueueAssumption DEF Sole
<1>2. \A i \in DOMAIN l : l[i] \in Rpc /\ l[i] # NoRpc /\ l[i].n \in Nat
  <2>1. \A i \in DOMAIN l : l[i] \in Rpc
    BY <1>1, ElementOfSeq
  <2> QED
    BY <2>1, QueueAssumption DEF Rpc
<1>3. \A n : IsFiniteSet(At(n)) /\ Returns(t, n) = Cardinality(At(n))
  <2> SUFFICES ASSUME NEW n
               PROVE  IsFiniteSet(At(n)) /\ Returns(t, n) = Cardinality(At(n))
    OBVIOUS
  <2>1. IsFiniteSet(At(n)) /\ Returns(t, n) \in Nat
    BY ReturnsCount
  <2>2. Returns(t, n) = Cardinality(At(n))
    BY DEF Returns
  <2> QED
    BY <2>1, <2>2
<1>4. \A i \in DOMAIN l : <<r, i>> \in At(l[i].n)
  BY <1>1, <1>2
<1> HIDE DEF At, l, e
<1>5. \A n \in Nat : Returns(t, n) \in Nat /\ Returns(t, n) <= 1 /\ (n \notin 1 .. k => Returns(t, n) = 0)
  BY SoleCounts
<1>6. \A i \in DOMAIN l : l[i].n \in 1 .. k /\ l[i].n # m.n
  <2> SUFFICES ASSUME NEW i \in DOMAIN l
               PROVE  l[i].n \in 1 .. k /\ l[i].n # m.n
    OBVIOUS
  <2>1. Returns(t, l[i].n) # 0
    BY <1>3, <1>4, FS_EmptySet
  <2> QED
    BY <1>2, <1>5, <2>1
<1>7. \A i, j \in DOMAIN l : l[i].n = l[j].n => i = j
  <2> SUFFICES ASSUME NEW i \in DOMAIN l, NEW j \in DOMAIN l, l[i].n = l[j].n PROVE i = j
    OBVIOUS
  <2> DEFINE S == At(l[i].n)
  <2>1. <<r, i>> \in S /\ <<r, j>> \in S
    BY <1>4
  <2>2. IsFiniteSet(S) /\ Cardinality(S) \in Nat /\ Cardinality(S) <= 1
    BY <1>2, <1>3, <1>5
  <2> HIDE DEF S
  <2>3. IsFiniteSet(S \ {<<r, i>>}) /\ Cardinality(S \ {<<r, i>>}) = Cardinality(S) - 1
    BY <2>1, <2>2, FS_RemoveElement
  <2>4. Cardinality(S \ {<<r, i>>}) \in Nat
    BY <2>3, FS_CardinalityType
  <2>5. Cardinality(S \ {<<r, i>>}) = 0
    BY <2>2, <2>3, <2>4
  <2>6. S \ {<<r, i>>} = {}
    BY <2>3, <2>5, FS_EmptySet
  <2>7. <<r, i>> = <<r, j>>
    BY <2>1, <2>6
  <2> QED
    BY <2>7
<1>8. h \in Injection(1 .. e, 1 .. k)
  <2>1. \A i \in 1 .. e : i = e \/ i \in DOMAIN l
    BY <1>1 DEF e
  <2>2. h \in [1 .. e -> 1 .. k]
    BY <1>6, <2>1
  <2>3. \A i, j \in 1 .. e : h[i] = h[j] => i = j
    BY <1>6, <1>7, <2>1
  <2> HIDE DEF h
  <2> QED
    BY <2>2, <2>3 DEF Injection, IsInjective
<1>9. /\ IsFiniteSet(1 .. k) /\ Cardinality(1 .. k) = k
      /\ Cardinality(1 .. e) = e
  <2>1. e \in Int /\ e > 0 /\ k \in Int /\ k >= 0 /\ 1 \in Int
    BY <1>1 DEF e
  <2>2. \A b \in Int : IsFiniteSet(1 .. b) /\ Cardinality(1 .. b) = IF 1 > b THEN 0 ELSE b - 1 + 1
    BY <2>1, FS_Interval
  <2> QED
    BY <2>1, <2>2
<1>10. e <= k
  BY <1>8, <1>9, FS_Injection
<1> QED
  BY <1>1, <1>10 DEF e, l

\* A line is peeked into.
LEMMA SoleKept ==
  ASSUME NEW q, NEW g, NEW s, NEW f, NEW t, NEW d, NEW u, NEW k, Sole(q, g, s, f, t, d, u, k),
         NEW w, NEW x, Kept(q, s, w, x)
  PROVE  Sole(w, g, x, f, t, d, u, k)
BY DEF Sole, Kept

\* An rpc leaves its line and is returned.
LEMMA SoleReturned ==
  ASSUME NEW q, NEW g, NEW s, NEW f, NEW t, NEW d, NEW u, NEW k, Sole(q, g, s, f, t, d, u, k),
         NEW w, NEW x, NEW m, Left(q, s, w, x, m), NEW r \in Receiver
  PROVE  Sole(w, g, x, f, [t EXCEPT ![r] = Append(@, m)], d, u, k)
<1> DEFINE v == [t EXCEPT ![r] = Append(@, m)]
<1>1. m \in Rpc /\ t \in [Receiver -> Seq(Rpc)] /\ Len(t[r]) < MaxSends
  <2>1. m \in Rpc /\ m.n \in 1 .. k /\ Returns(t, m.n) = 0
    BY LeftIsFirst
  <2>2. Len(t[r]) < MaxSends
    BY <2>1, Room
  <2> QED
    BY <2>1, <2>2 DEF Sole
<1>2. v \in [Receiver -> Seq(Rpc)] /\ \A y \in Receiver : Len(v[y]) <= MaxSends
  <2>1. t[r] \in Seq(Rpc) /\ Append(t[r], m) \in Seq(Rpc) /\ Len(Append(t[r], m)) = Len(t[r]) + 1
        /\ Len(t[r]) \in Nat
    BY <1>1, AppendProperties, LenProperties
  <2>2. v \in [Receiver -> Seq(Rpc)] /\ v[r] = Append(t[r], m) /\ \A y \in Receiver \ {r} : v[y] = t[y]
    BY <1>1, <2>1
  <2>3. \A y \in Receiver : Len(t[y]) <= MaxSends
    BY DEF Sole
  <2>4. Len(t[r]) + 1 <= MaxSends
    BY <1>1, <2>1, QueueAssumption
  <2>5. Len(v[r]) <= MaxSends
    BY <2>1, <2>2, <2>4
  <2> HIDE DEF v
  <2>6. ASSUME NEW y \in Receiver PROVE Len(v[y]) <= MaxSends
    BY <2>2, <2>3, <2>5
  <2> QED
    BY <2>2, <2>6
<1>3. \A n : Returns(v, n) = Returns(t, n) + One(m, n)
  BY <1>1, ReturnsGain
<1> HIDE DEF v
<1>4. ASSUME NEW n \in Nat
      PROVE  InBoth(w, x, n) + InBoth(g, f, n) + Returns(v, n) + GivenUp(d, n) + Sending(u, n)
               = IF n \in 1 .. k THEN 1 ELSE 0
  <2>1. InBoth(q, s, n) + InBoth(g, f, n) + Returns(t, n) + GivenUp(d, n) + Sending(u, n)
          = IF n \in 1 .. k THEN 1 ELSE 0
    BY DEF Sole
  <2>2. /\ InBoth(g, f, n) \in Nat /\ Returns(t, n) \in Nat /\ GivenUp(d, n) \in Nat
        /\ Sending(u, n) \in Nat /\ InBoth(w, x, n) \in Nat /\ One(m, n) \in Nat
        /\ InBoth(w, x, n) + One(m, n) = InBoth(q, s, n)
    BY SoleCounts DEF Left, One
  <2>3. InBoth(w, x, n) + InBoth(g, f, n) + (Returns(t, n) + One(m, n)) + GivenUp(d, n) + Sending(u, n)
          = (InBoth(w, x, n) + One(m, n)) + InBoth(g, f, n) + Returns(t, n) + GivenUp(d, n) + Sending(u, n)
    <3> DEFINE a == InBoth(w, x, n)
               b == InBoth(g, f, n)
               c == Returns(t, n)
               e == GivenUp(d, n)
               h == Sending(u, n)
               o == One(m, n)
    <3>1. a \in Nat /\ b \in Nat /\ c \in Nat /\ e \in Nat /\ h \in Nat /\ o \in Nat
      BY <2>2
    <3> HIDE DEF a, b, c, e, h, o
    <3>2. a + b + (c + o) + e + h = (a + o) + b + c + e + h
      BY <3>1
    <3> QED
      BY <3>2 DEF a, b, c, e, h, o
  <2> QED
    BY <1>3, <2>1, <2>2, <2>3
<1>5. Sole(w, g, x, f, v, d, u, k)
  BY <1>2, <1>4 DEF Sole, Left
<1> QED
  BY <1>5 DEF v

\* An rpc leaves its line and is given up.
LEMMA SoleGivenUp ==
  ASSUME NEW q, NEW g, NEW s, NEW f, NEW t, NEW d, NEW u, NEW k, Sole(q, g, s, f, t, d, u, k),
         NEW w, NEW x, NEW m, Left(q, s, w, x, m)
  PROVE  Sole(w, g, x, f, t, d \cup {m}, u, k)
<1>1. m \in Rpc /\ IsFiniteSet(d) /\ GivenUp(d, m.n) = 0
  <2>1. IsFiniteSet(d)
    BY DEF Sole
  <2> QED
    BY <2>1, LeftIsFirst
<1>2. \A n : GivenUp(d \cup {m}, n) = GivenUp(d, n) + One(m, n)
  BY <1>1, GivenUpGains
<1>3. IsFiniteSet(d \cup {m})
  BY <1>1, FS_AddElement
<1>4. ASSUME NEW n \in Nat
      PROVE  InBoth(w, x, n) + InBoth(g, f, n) + Returns(t, n) + GivenUp(d \cup {m}, n) + Sending(u, n)
               = IF n \in 1 .. k THEN 1 ELSE 0
  <2>1. InBoth(q, s, n) + InBoth(g, f, n) + Returns(t, n) + GivenUp(d, n) + Sending(u, n)
          = IF n \in 1 .. k THEN 1 ELSE 0
    BY DEF Sole
  <2>2. /\ InBoth(g, f, n) \in Nat /\ Returns(t, n) \in Nat /\ GivenUp(d, n) \in Nat
        /\ Sending(u, n) \in Nat /\ InBoth(w, x, n) \in Nat /\ One(m, n) \in Nat
        /\ InBoth(w, x, n) + One(m, n) = InBoth(q, s, n)
    BY SoleCounts DEF Left, One
  <2>3. InBoth(w, x, n) + InBoth(g, f, n) + Returns(t, n) + (GivenUp(d, n) + One(m, n)) + Sending(u, n)
          = (InBoth(w, x, n) + One(m, n)) + InBoth(g, f, n) + Returns(t, n) + GivenUp(d, n) + Sending(u, n)
    <3> DEFINE a == InBoth(w, x, n)
               b == InBoth(g, f, n)
               c == Returns(t, n)
               e == GivenUp(d, n)
               h == Sending(u, n)
               o == One(m, n)
    <3>1. a \in Nat /\ b \in Nat /\ c \in Nat /\ e \in Nat /\ h \in Nat /\ o \in Nat
      BY <2>2
    <3> HIDE DEF a, b, c, e, h, o
    <3>2. a + b + c + (e + o) + h = (a + o) + b + c + e + h
      BY <3>1
    <3> QED
      BY <3>2 DEF a, b, c, e, h, o
  <2> QED
    BY <1>2, <2>1, <2>2, <2>3
<1> QED
  BY <1>3, <1>4 DEF Sole, Left

-----------------------------------------------------------------------------
(* How calls add rpcs.                                                     *)

\* The total of one more call.
LEMMA OneMoreCall ==
  ASSUME NEW k \in Nat, NEW m, m.n = k + 1, NEW n \in Nat
  PROVE  (IF n \in 1 .. k THEN 1 ELSE 0) + One(m, n) = IF n \in 1 .. (k + 1) THEN 1 ELSE 0
<1>1. CASE n = k + 1
  <2>1. n \notin 1 .. k /\ n \in 1 .. (k + 1) /\ One(m, n) = 1
    BY <1>1 DEF One
  <2> QED
    BY <2>1
<1>2. CASE n # k + 1
  <2>1. (n \in 1 .. k <=> n \in 1 .. (k + 1)) /\ One(m, n) = 0
    BY <1>2 DEF One
  <2> QED
    BY <2>1
<1> QED
  BY <1>1, <1>2

\* The next call's rpc is put into a channel.
LEMMA SoleSent ==
  ASSUME NEW q, NEW g, NEW s, NEW f, NEW t, NEW d, NEW u, NEW k, Sole(q, g, s, f, t, d, u, k),
         NEW m \in Rpc, m.n = k + 1, k < MaxSends
  PROVE  Sole(Append(q, m), g, s, f, t, d, u, k + 1)
<1> DEFINE w == Append(q, m)
<1>1. q \in Seq(Rpc) /\ k \in Nat /\ MaxSends \in Nat
  BY QueueAssumption DEF Sole
<1>2. w \in Seq(Rpc) /\ k + 1 \in Nat /\ k + 1 <= MaxSends
  BY <1>1, AppendProperties
<1>3. \A n : InBoth(w, s, n) = (InChannel(q, n) + One(m, n)) + InSlots(s, n)
  BY <1>1, ChannelGains DEF InBoth
<1> HIDE DEF w
<1>4. ASSUME NEW n \in Nat
      PROVE  InBoth(w, s, n) + InBoth(g, f, n) + Returns(t, n) + GivenUp(d, n) + Sending(u, n)
               = IF n \in 1 .. (k + 1) THEN 1 ELSE 0
  <2> DEFINE a == InChannel(q, n)
             z == InSlots(s, n)
             b == InBoth(g, f, n)
             c == Returns(t, n)
             e == GivenUp(d, n)
             h == Sending(u, n)
             o == One(m, n)
  <2>1. a + z + b + c + e + h = IF n \in 1 .. k THEN 1 ELSE 0
    BY DEF Sole, InBoth
  <2>2. b \in Nat /\ c \in Nat /\ e \in Nat /\ h \in Nat
    BY SoleCounts
  <2>3. a \in Nat /\ z \in Nat /\ o \in Nat
    BY <1>1, ChannelCount, SlotsCount DEF One
  <2>4. (IF n \in 1 .. k THEN 1 ELSE 0) + o = IF n \in 1 .. (k + 1) THEN 1 ELSE 0
    BY <1>1, OneMoreCall
  <2>5. InBoth(w, s, n) = (a + o) + z
    BY <1>3
  <2> HIDE DEF a, z, b, c, e, h, o
  <2>6. (a + o) + z + b + c + e + h = (a + z + b + c + e + h) + o
    BY <2>2, <2>3
  <2>7. InBoth(w, s, n) + b + c + e + h = IF n \in 1 .. (k + 1) THEN 1 ELSE 0
    BY <2>1, <2>4, <2>5, <2>6
  <2> QED
    BY <2>7 DEF b, c, e, h
<1>5. Sole(w, g, s, f, t, d, u, k + 1)
  BY <1>2, <1>4 DEF Sole
<1> QED
  BY <1>5 DEF w

\* The next call's rpc is handed back.
LEMMA SoleRefused ==
  ASSUME NEW q, NEW g, NEW s, NEW f, NEW t, NEW d, NEW u, NEW k, Sole(q, g, s, f, t, d, u, k),
         NEW m \in Rpc, m.n = k + 1, k < MaxSends
  PROVE  Sole(q, g, s, f, t, d \cup {m}, u, k + 1)
<1>1. IsFiniteSet(d) /\ k \in Nat /\ MaxSends \in Nat /\ k + 1 \in Nat /\ k + 1 \notin 1 .. k
  BY QueueAssumption DEF Sole
<1>2. GivenUp(d, m.n) = 0
  BY <1>1, SoleCounts
<1>3. \A n : GivenUp(d \cup {m}, n) = GivenUp(d, n) + One(m, n)
  BY <1>1, <1>2, GivenUpGains
<1>4. IsFiniteSet(d \cup {m}) /\ k + 1 <= MaxSends
  BY <1>1, FS_AddElement
<1>5. ASSUME NEW n \in Nat
      PROVE  InBoth(q, s, n) + InBoth(g, f, n) + Returns(t, n) + GivenUp(d \cup {m}, n) + Sending(u, n)
               = IF n \in 1 .. (k + 1) THEN 1 ELSE 0
  <2> DEFINE a == InBoth(q, s, n)
             b == InBoth(g, f, n)
             c == Returns(t, n)
             e == GivenUp(d, n)
             h == Sending(u, n)
             o == One(m, n)
  <2>1. a + b + c + e + h = IF n \in 1 .. k THEN 1 ELSE 0
    BY DEF Sole
  <2>2. a \in Nat /\ b \in Nat /\ c \in Nat /\ e \in Nat /\ h \in Nat /\ o \in Nat
    BY SoleCounts DEF One
  <2>3. (IF n \in 1 .. k THEN 1 ELSE 0) + o = IF n \in 1 .. (k + 1) THEN 1 ELSE 0
    BY <1>1, OneMoreCall
  <2>4. GivenUp(d \cup {m}, n) = e + o
    BY <1>3
  <2> HIDE DEF a, b, c, e, h, o
  <2>5. a + b + c + (e + o) + h = (a + b + c + e + h) + o
    BY <2>2
  <2>6. a + b + c + GivenUp(d \cup {m}, n) + h = IF n \in 1 .. (k + 1) THEN 1 ELSE 0
    BY <2>1, <2>3, <2>4, <2>5
  <2> QED
    BY <2>6 DEF a, b, c, h
<1> QED
  BY <1>1, <1>4, <1>5 DEF Sole

\* The next call begins to send.
LEMMA SoleStarted ==
  ASSUME NEW q, NEW g, NEW s, NEW f, NEW t, NEW d, NEW u, NEW k, Sole(q, g, s, f, t, d, u, k),
         u.pc = "idle", NEW y, y.pc # "idle", y.n = k + 1, k < MaxSends
  PROVE  Sole(q, g, s, f, t, d, y, k + 1)
<1>1. k \in Nat /\ MaxSends \in Nat
  BY QueueAssumption DEF Sole
<1>2. k + 1 \in Nat /\ k + 1 <= MaxSends
  BY <1>1
<1>3. ASSUME NEW n \in Nat
      PROVE  InBoth(q, s, n) + InBoth(g, f, n) + Returns(t, n) + GivenUp(d, n) + Sending(y, n)
               = IF n \in 1 .. (k + 1) THEN 1 ELSE 0
  <2> DEFINE a == InBoth(q, s, n)
             b == InBoth(g, f, n)
             c == Returns(t, n)
             e == GivenUp(d, n)
             o == One(y, n)
  <2>1. Sending(u, n) = 0 /\ Sending(y, n) = o
    BY DEF Sending, One
  <2>2. a + b + c + e + 0 = IF n \in 1 .. k THEN 1 ELSE 0
    BY <2>1 DEF Sole
  <2>3. a \in Nat /\ b \in Nat /\ c \in Nat /\ e \in Nat
    BY SoleCounts
  <2>4. (IF n \in 1 .. k THEN 1 ELSE 0) + o = IF n \in 1 .. (k + 1) THEN 1 ELSE 0
    BY <1>1, OneMoreCall
  <2> HIDE DEF a, b, c, e, o
  <2>5. a + b + c + e + 0 = a + b + c + e
    BY <2>3
  <2>6. a + b + c + e + Sending(y, n) = IF n \in 1 .. (k + 1) THEN 1 ELSE 0
    BY <2>1, <2>2, <2>4, <2>5
  <2> QED
    BY <2>6 DEF a, b, c, e
<1> QED
  BY <1>2, <1>3 DEF Sole

\* The call under way puts its rpc into a channel.
LEMMA SolePushed ==
  ASSUME NEW q, NEW g, NEW s, NEW f, NEW t, NEW d, NEW u, NEW k, Sole(q, g, s, f, t, d, u, k),
         u.pc # "idle", NEW m \in Rpc, m.n = u.n, NEW y, y.pc = "idle"
  PROVE  Sole(Append(q, m), g, s, f, t, d, y, k)
<1> DEFINE w == Append(q, m)
<1>1. q \in Seq(Rpc)
  BY DEF Sole
<1>2. w \in Seq(Rpc)
  BY <1>1, AppendProperties
<1>3. \A n : InBoth(w, s, n) = (InChannel(q, n) + One(m, n)) + InSlots(s, n)
  BY <1>1, ChannelGains DEF InBoth
<1> HIDE DEF w
<1>4. ASSUME NEW n \in Nat
      PROVE  InBoth(w, s, n) + InBoth(g, f, n) + Returns(t, n) + GivenUp(d, n) + Sending(y, n)
               = IF n \in 1 .. k THEN 1 ELSE 0
  <2> DEFINE a == InChannel(q, n)
             z == InSlots(s, n)
             b == InBoth(g, f, n)
             c == Returns(t, n)
             e == GivenUp(d, n)
             o == One(m, n)
  <2>1. Sending(u, n) = o /\ Sending(y, n) = 0
    BY DEF Sending, One
  <2>2. a + z + b + c + e + o = IF n \in 1 .. k THEN 1 ELSE 0
    BY <2>1 DEF Sole, InBoth
  <2>3. b \in Nat /\ c \in Nat /\ e \in Nat
    BY SoleCounts
  <2>4. a \in Nat /\ z \in Nat /\ o \in Nat
    BY <1>1, ChannelCount, SlotsCount DEF One
  <2>5. InBoth(w, s, n) = (a + o) + z
    BY <1>3
  <2> HIDE DEF a, z, b, c, e, o
  <2>6. (a + o) + z + b + c + e + 0 = a + z + b + c + e + o
    BY <2>3, <2>4
  <2>7. InBoth(w, s, n) + b + c + e + Sending(y, n) = IF n \in 1 .. k THEN 1 ELSE 0
    BY <2>1, <2>2, <2>5, <2>6
  <2> QED
    BY <2>7 DEF b, c, e
<1>5. Sole(w, g, s, f, t, d, y, k)
  BY <1>2, <1>4 DEF Sole
<1> QED
  BY <1>5 DEF w

\* A Receiver is dropped with what its slot holds.
LEMMA SoleSlotDropped ==
  ASSUME NEW q, NEW g, NEW s, NEW f, NEW t, NEW d, NEW u, NEW k, Sole(q, g, s, f, t, d, u, k),
         NEW r \in Receiver
  PROVE  Sole(q, g, [s EXCEPT ![r] = NoRpc], f, t, d \cup ({s[r]} \ {NoRpc}), u, k)
<1> DEFINE x == [s EXCEPT ![r] = NoRpc]
<1>1. q \in Seq(Rpc) /\ s \in [Receiver -> MaybeRpc]
  BY DEF Sole
<1>2. CASE s[r] = NoRpc
  <2>1. Kept(q, s, q, x)
    BY <1>1, <1>2, PeekLine
  <2>2. d \cup ({s[r]} \ {NoRpc}) = d
    BY <1>2
  <2> HIDE DEF x
  <2>3. Sole(q, g, x, f, t, d, u, k)
    BY <2>1, SoleKept
  <2> QED
    BY <2>2, <2>3 DEF x
<1>3. CASE s[r] # NoRpc
  <2>1. Left(q, s, q, x, s[r])
    BY <1>1, <1>3, PeekLine
  <2>2. {s[r]} \ {NoRpc} = {s[r]}
    BY <1>3
  <2> HIDE DEF x
  <2>3. Sole(q, g, x, f, t, d \cup {s[r]}, u, k)
    BY <2>1, SoleGivenUp
  <2> QED
    BY <2>2, <2>3 DEF x
<1> QED
  BY <1>2, <1>3

-----------------------------------------------------------------------------
(* Every step keeps the order and the one place.                           *)

\* Both slots of a Receiver are set.
LEMMA BothSlotsSet ==
  ASSUME QueueTypes, NEW r \in Receiver, NEW a \in MaybeRpc, NEW b \in MaybeRpc,
         peeked' = [peeked EXCEPT ![r] = [p |-> a, f |-> b]]
  PROVE  /\ SlotsP' = [SlotsP EXCEPT ![r] = a]
         /\ SlotsF' = [SlotsF EXCEPT ![r] = b]
<1>1. SlotsP' = [SlotsP EXCEPT ![r] = a]
  BY SlotsSet
<1>2. peeked \in [Receiver -> [p : MaybeRpc, f : MaybeRpc]]
  BY DEF QueueTypes, MaybeRpc
<1>3. [p |-> a, f |-> b] \in [p : MaybeRpc, f : MaybeRpc]
  OBVIOUS
<1>4. \A x \in Receiver : peeked'[x].f = IF x = r THEN b ELSE peeked[x].f
  BY <1>2, <1>3
<1>5. SlotsF' = [SlotsF EXCEPT ![r] = b]
  BY <1>4 DEF SlotsF
<1> QED
  BY <1>1, <1>5

\* The parts of the queue are typed, and the two lines are what the invariant says.
LEMMA Lines ==
  ASSUME QueueTypes, CounterInv
  PROVE  /\ priority \in Seq(Rpc) /\ nonPriority \in Seq(Rpc)
         /\ SlotsP \in [Receiver -> MaybeRpc] /\ SlotsF \in [Receiver -> MaybeRpc]
         /\ taken \in [Receiver -> Seq(Rpc)]
         /\ calls \in Nat /\ calls + 1 \in Nat /\ NextNumber \in Nat
         /\ \A r \in Receiver : SlotsP[r] = peeked[r].p /\ SlotsF[r] = peeked[r].f
<1>1. SlotsF \in [Receiver -> MaybeRpc]
  BY DEF QueueTypes, SlotsF, MaybeRpc
<1>2. \A r \in Receiver : SlotsP[r] = peeked[r].p /\ SlotsF[r] = peeked[r].f
  BY DEF SlotsP, SlotsF
<1> QED
  BY <1>1, <1>2, BeforeSend DEF QueueTypes

\* The sender rests while a Receiver runs.
LEMMA ReceiverHistory ==
  ASSUME UNCHANGED <<sender, calls>>,
         InLine(priority', SlotsP', taken', High, NextNumber),
         InLine(nonPriority', SlotsF', taken', Low, calls + 1),
         Sole(priority', nonPriority', SlotsP', SlotsF', taken', refused' \cup discarded', sender, calls)
  PROVE  HistoryInv'
<1>1. NextNumber' = NextNumber
  BY DEF NextNumber
<1> QED
  BY <1>1 DEF HistoryInv, OnePlace

\* The channels and the history are left alone.
LEMMA QuietHistory ==
  ASSUME HistoryInv, UNCHANGED <<priority, nonPriority, peeked, sender, calls, refused, taken, discarded>>
  PROVE  HistoryInv'
<1>1. SlotsP' = SlotsP /\ SlotsF' = SlotsF
  BY DEF SlotsP, SlotsF
<1> QED
  BY <1>1, ReceiverHistory DEF HistoryInv, OnePlace

\* poll_next returns the head of the priority line, or looks at the other one.
LEMMA PollNextHistory ==
  ASSUME QueueTypes, CounterInv, HistoryInv, NEW r \in Receiver, PollNext(r)
  PROVE  HistoryInv'
<1> DEFINE p == Peek(SlotsP[r], priority)
           pw == AfterPeek(SlotsP[r], priority)
<1>1. SlotsP[r] = peeked[r].p /\ SlotsF[r] = peeked[r].f /\ SlotsP[r] \in MaybeRpc /\ SlotsF[r] \in MaybeRpc
      /\ NoRpc \in MaybeRpc
  BY Lines, SlotEmptied
<1>2. /\ UNCHANGED <<nonPriority, sender, calls, refused, discarded>>
      /\ \/ /\ p # NoRpc /\ priority' = pw
            /\ peeked' = [peeked EXCEPT ![r] = [p |-> NoRpc, f |-> SlotsF[r]]]
            /\ taken' = [taken EXCEPT ![r] = Append(@, p)]
         \/ UNCHANGED <<priority, peeked, taken>>
  BY <1>1, SlotEmptied DEF PollNext
<1>3. /\ InLine(priority, SlotsP, taken, High, NextNumber)
      /\ InLine(nonPriority, SlotsF, taken, Low, calls + 1)
      /\ Sole(priority, nonPriority, SlotsP, SlotsF, taken, refused \cup discarded, sender, calls)
  BY DEF HistoryInv, OnePlace
<1>4. CASE /\ p # NoRpc /\ priority' = pw
           /\ peeked' = [peeked EXCEPT ![r] = [p |-> NoRpc, f |-> SlotsF[r]]]
           /\ taken' = [taken EXCEPT ![r] = Append(@, p)]
  <2>1. SlotsP' = [SlotsP EXCEPT ![r] = NoRpc] /\ SlotsF' = SlotsF
    <3>1. SlotsP' = [SlotsP EXCEPT ![r] = NoRpc] /\ SlotsF' = [SlotsF EXCEPT ![r] = SlotsF[r]]
      BY <1>1, <1>4, BothSlotsSet
    <3>2. [SlotsF EXCEPT ![r] = SlotsF[r]] = SlotsF
      BY Lines
    <3> QED
      BY <3>1, <3>2
  <2>2. p.kind \in High /\ InLine(priority', SlotsP', taken', High, NextNumber)
    BY <1>3, <1>4, <2>1, Lines, InLineTaken
  <2>3. p \in Rpc /\ p.kind \notin Low
    BY <1>1, <1>4, <2>2, Lines, PeekTyped DEF High, Low
  <2>4. InLine(nonPriority', SlotsF', taken', Low, calls + 1)
    BY <1>2, <1>3, <1>4, <2>1, <2>3, Lines, InLineOther
  <2>5. Left(priority, SlotsP, priority', SlotsP', p)
    BY <1>4, <2>1, Lines, PeekLine
  <2>6. Sole(priority', nonPriority', SlotsP', SlotsF', taken', refused' \cup discarded', sender, calls)
    BY <1>2, <1>3, <1>4, <2>1, <2>5, SoleReturned
  <2> QED
    BY <1>2, <2>2, <2>4, <2>6, ReceiverHistory
<1>5. CASE UNCHANGED <<priority, peeked, taken>>
  BY <1>2, <1>5, QuietHistory
<1> QED
  BY <1>2, <1>4, <1>5

\* It returns the head of that line, or nothing.
LEMMA TakeForwardHistory ==
  ASSUME QueueTypes, CounterInv, HistoryInv, NEW r \in Receiver, TakeForward(r)
  PROVE  HistoryInv'
<1> DEFINE f == Peek(SlotsF[r], nonPriority)
           fw == AfterPeek(SlotsF[r], nonPriority)
<1>1. SlotsP[r] = peeked[r].p /\ SlotsF[r] = peeked[r].f /\ SlotsP[r] \in MaybeRpc /\ SlotsF[r] \in MaybeRpc
      /\ NoRpc \in MaybeRpc
  BY Lines, SlotEmptied
<1>2. /\ UNCHANGED <<priority, sender, calls, refused, discarded>>
      /\ \/ /\ f # NoRpc /\ nonPriority' = fw
            /\ peeked' = [peeked EXCEPT ![r] = [p |-> SlotsP[r], f |-> NoRpc]]
            /\ taken' = [taken EXCEPT ![r] = Append(@, f)]
         \/ UNCHANGED <<nonPriority, peeked, taken>>
  BY <1>1, SlotEmptied DEF TakeForward
<1>3. /\ InLine(priority, SlotsP, taken, High, NextNumber)
      /\ InLine(nonPriority, SlotsF, taken, Low, calls + 1)
      /\ Sole(priority, nonPriority, SlotsP, SlotsF, taken, refused \cup discarded, sender, calls)
  BY DEF HistoryInv, OnePlace
<1>4. CASE UNCHANGED <<nonPriority, peeked, taken>>
  BY <1>2, <1>4, QuietHistory
<1>5. CASE /\ f # NoRpc /\ nonPriority' = fw
           /\ peeked' = [peeked EXCEPT ![r] = [p |-> SlotsP[r], f |-> NoRpc]]
           /\ taken' = [taken EXCEPT ![r] = Append(@, f)]
  <2>1. SlotsF' = [SlotsF EXCEPT ![r] = NoRpc] /\ SlotsP' = SlotsP
    <3>1. SlotsF' = [SlotsF EXCEPT ![r] = NoRpc] /\ SlotsP' = [SlotsP EXCEPT ![r] = SlotsP[r]]
      BY <1>1, <1>5, BothSlotsSet
    <3>2. [SlotsP EXCEPT ![r] = SlotsP[r]] = SlotsP
      BY Lines
    <3> QED
      BY <3>1, <3>2
  <2>2. f.kind \in Low /\ InLine(nonPriority', SlotsF', taken', Low, calls + 1)
    BY <1>3, <1>5, <2>1, Lines, InLineTaken
  <2>3. f \in Rpc /\ f.kind \notin High
    BY <1>1, <1>5, <2>2, Lines, PeekTyped DEF High, Low
  <2>4. InLine(priority', SlotsP', taken', High, NextNumber)
    BY <1>2, <1>3, <1>5, <2>1, <2>3, Lines, InLineOther
  <2>5. Left(nonPriority, SlotsF, nonPriority', SlotsF', f)
    BY <1>5, <2>1, Lines, PeekLine
  <2>6. Sole(nonPriority, priority, SlotsF, SlotsP, taken, refused \cup discarded, sender, calls)
    BY <1>3, SoleSwapped
  <2>7. Sole(nonPriority', priority', SlotsF', SlotsP', taken', refused' \cup discarded', sender, calls)
    BY <1>2, <1>5, <2>1, <2>5, <2>6, SoleReturned
  <2>8. Sole(priority', nonPriority', SlotsP', SlotsF', taken', refused' \cup discarded', sender, calls)
    BY <2>7, SoleSwapped
  <2> QED
    BY <1>2, <2>2, <2>4, <2>8, ReceiverHistory
<1> QED
  BY <1>2, <1>4, <1>5

\* The priority Peekable peeks.
LEMMA PollPeekHistory ==
  ASSUME QueueTypes, CounterInv, HistoryInv, NEW r \in Receiver, PollPeek(r)
  PROVE  HistoryInv'
<1> DEFINE p == Peek(SlotsP[r], priority)
<1>1. SlotsP[r] = peeked[r].p /\ SlotsF[r] = peeked[r].f /\ SlotsP[r] \in MaybeRpc /\ SlotsF[r] \in MaybeRpc
  BY Lines, SlotEmptied
<1>2. /\ UNCHANGED <<nonPriority, sender, calls, refused, discarded, taken>>
      /\ peeked' = [peeked EXCEPT ![r] = [p |-> p, f |-> SlotsF[r]]]
      /\ priority' = AfterPeek(SlotsP[r], priority)
  BY <1>1, SlotPeeked DEF PollPeek, history
<1>3. /\ InLine(priority, SlotsP, taken, High, NextNumber)
      /\ InLine(nonPriority, SlotsF, taken, Low, calls + 1)
      /\ Sole(priority, nonPriority, SlotsP, SlotsF, taken, refused \cup discarded, sender, calls)
  BY DEF HistoryInv, OnePlace
<1>4. SlotsP' = [SlotsP EXCEPT ![r] = p] /\ SlotsF' = SlotsF
  <2>1. p \in MaybeRpc
    BY <1>1, Lines, PeekTyped
  <2> HIDE DEF p
  <2>2. SlotsP' = [SlotsP EXCEPT ![r] = p] /\ SlotsF' = [SlotsF EXCEPT ![r] = SlotsF[r]]
    BY <1>1, <1>2, <2>1, BothSlotsSet
  <2>3. [SlotsF EXCEPT ![r] = SlotsF[r]] = SlotsF
    BY Lines
  <2> QED
    BY <2>2, <2>3
<1>5. InLine(priority', SlotsP', taken', High, NextNumber)
  BY <1>2, <1>3, <1>4, Lines, InLinePeek
<1>6. InLine(nonPriority', SlotsF', taken', Low, calls + 1)
  BY <1>2, <1>3, <1>4
<1>7. Kept(priority, SlotsP, priority', SlotsP')
  BY <1>2, <1>4, Lines, PeekLine
<1>8. Sole(priority', nonPriority', SlotsP', SlotsF', taken, refused \cup discarded, sender, calls)
  BY <1>2, <1>3, <1>4, <1>7, SoleKept
<1> QED
  BY <1>2, <1>5, <1>6, <1>8, ReceiverHistory

\* The other one does.
LEMMA PeekForwardHistory ==
  ASSUME QueueTypes, CounterInv, HistoryInv, NEW r \in Receiver, PeekForward(r)
  PROVE  HistoryInv'
<1> DEFINE f == Peek(SlotsF[r], nonPriority)
<1>1. SlotsP[r] = peeked[r].p /\ SlotsF[r] = peeked[r].f /\ SlotsP[r] \in MaybeRpc /\ SlotsF[r] \in MaybeRpc
  BY Lines, SlotEmptied
<1>2. /\ UNCHANGED <<priority, sender, calls, refused, discarded, taken>>
      /\ peeked' = [peeked EXCEPT ![r] = [p |-> SlotsP[r], f |-> f]]
      /\ nonPriority' = AfterPeek(SlotsF[r], nonPriority)
  BY <1>1, SlotPeeked DEF PeekForward, history
<1>3. /\ InLine(priority, SlotsP, taken, High, NextNumber)
      /\ InLine(nonPriority, SlotsF, taken, Low, calls + 1)
      /\ Sole(priority, nonPriority, SlotsP, SlotsF, taken, refused \cup discarded, sender, calls)
  BY DEF HistoryInv, OnePlace
<1>4. SlotsF' = [SlotsF EXCEPT ![r] = f] /\ SlotsP' = SlotsP
  <2>1. f \in MaybeRpc
    BY <1>1, Lines, PeekTyped
  <2> HIDE DEF f
  <2>2. SlotsP' = [SlotsP EXCEPT ![r] = SlotsP[r]] /\ SlotsF' = [SlotsF EXCEPT ![r] = f]
    BY <1>1, <1>2, <2>1, BothSlotsSet
  <2>3. [SlotsP EXCEPT ![r] = SlotsP[r]] = SlotsP
    BY Lines
  <2> QED
    BY <2>2, <2>3
<1>5. InLine(priority', SlotsP', taken', High, NextNumber)
  BY <1>2, <1>3, <1>4
<1>6. InLine(nonPriority', SlotsF', taken', Low, calls + 1)
  BY <1>2, <1>3, <1>4, Lines, InLinePeek
<1>7. Kept(nonPriority, SlotsF, nonPriority', SlotsF')
  BY <1>2, <1>4, Lines, PeekLine
<1>8. Sole(nonPriority', priority', SlotsF', SlotsP', taken, refused \cup discarded, sender, calls)
  <2>1. Sole(nonPriority, priority', SlotsF, SlotsP', taken, refused \cup discarded, sender, calls)
    BY <1>2, <1>3, <1>4, SoleSwapped
  <2> QED
    BY <1>7, <2>1, SoleKept
<1>9. Sole(priority', nonPriority', SlotsP', SlotsF', taken, refused \cup discarded, sender, calls)
  BY <1>8, SoleSwapped
<1> QED
  BY <1>2, <1>5, <1>6, <1>9, ReceiverHistory

\* poll_stale discards a Publish.
LEMMA DropStalePublishHistory ==
  ASSUME QueueTypes, CounterInv, HistoryInv, NEW r \in Receiver, DropStalePublish(r)
  PROVE  HistoryInv'
<1> DEFINE p == Peek(SlotsP[r], priority)
<1>1. SlotsP[r] = peeked[r].p /\ SlotsF[r] = peeked[r].f /\ SlotsF[r] \in MaybeRpc /\ NoRpc \in MaybeRpc
  BY Lines, SlotEmptied
<1>2. /\ UNCHANGED <<nonPriority, sender, calls, refused, taken>>
      /\ peeked' = [peeked EXCEPT ![r] = [p |-> NoRpc, f |-> SlotsF[r]]]
      /\ p # NoRpc
      /\ priority' = AfterPeek(SlotsP[r], priority)
      /\ discarded' = discarded \cup {p}
  BY <1>1, SlotEmptied DEF DropStalePublish
<1>3. /\ InLine(priority, SlotsP, taken, High, NextNumber)
      /\ InLine(nonPriority, SlotsF, taken, Low, calls + 1)
      /\ Sole(priority, nonPriority, SlotsP, SlotsF, taken, refused \cup discarded, sender, calls)
  BY DEF HistoryInv, OnePlace
<1>4. SlotsP' = [SlotsP EXCEPT ![r] = NoRpc] /\ SlotsF' = SlotsF
  <2>1. SlotsP' = [SlotsP EXCEPT ![r] = NoRpc] /\ SlotsF' = [SlotsF EXCEPT ![r] = SlotsF[r]]
    BY <1>1, <1>2, BothSlotsSet
  <2>2. [SlotsF EXCEPT ![r] = SlotsF[r]] = SlotsF
    BY Lines
  <2> QED
    BY <2>1, <2>2
<1>5. InLine(priority', SlotsP', taken', High, NextNumber)
  BY <1>2, <1>3, <1>4, Lines, InLineTaken
<1>6. Left(priority, SlotsP, priority', SlotsP', p)
  BY <1>2, <1>4, Lines, PeekLine
<1>7. refused' \cup discarded' = (refused \cup discarded) \cup {p}
  BY <1>2
<1>8. Sole(priority', nonPriority', SlotsP', SlotsF', taken', refused' \cup discarded', sender, calls)
  BY <1>2, <1>3, <1>4, <1>6, <1>7, SoleGivenUp
<1> QED
  BY <1>2, <1>3, <1>4, <1>5, <1>8, ReceiverHistory

\* poll_stale discards a Forward.
LEMMA DropStaleForwardHistory ==
  ASSUME QueueTypes, CounterInv, HistoryInv, NEW r \in Receiver, DropStaleForward(r)
  PROVE  HistoryInv'
<1> DEFINE f == Peek(SlotsF[r], nonPriority)
<1>1. SlotsP[r] = peeked[r].p /\ SlotsF[r] = peeked[r].f /\ SlotsP[r] \in MaybeRpc /\ NoRpc \in MaybeRpc
  BY Lines, SlotEmptied
<1>2. /\ UNCHANGED <<priority, sender, calls, refused, taken>>
      /\ peeked' = [peeked EXCEPT ![r] = [p |-> SlotsP[r], f |-> NoRpc]]
      /\ f # NoRpc
      /\ nonPriority' = AfterPeek(SlotsF[r], nonPriority)
      /\ discarded' = discarded \cup {f}
  BY <1>1, SlotEmptied DEF DropStaleForward
<1>3. /\ InLine(priority, SlotsP, taken, High, NextNumber)
      /\ InLine(nonPriority, SlotsF, taken, Low, calls + 1)
      /\ Sole(priority, nonPriority, SlotsP, SlotsF, taken, refused \cup discarded, sender, calls)
  BY DEF HistoryInv, OnePlace
<1>4. SlotsF' = [SlotsF EXCEPT ![r] = NoRpc] /\ SlotsP' = SlotsP
  <2>1. SlotsP' = [SlotsP EXCEPT ![r] = SlotsP[r]] /\ SlotsF' = [SlotsF EXCEPT ![r] = NoRpc]
    BY <1>1, <1>2, BothSlotsSet
  <2>2. [SlotsP EXCEPT ![r] = SlotsP[r]] = SlotsP
    BY Lines
  <2> QED
    BY <2>1, <2>2
<1>5. InLine(priority', SlotsP', taken', High, NextNumber)
  BY <1>2, <1>3, <1>4
<1>6. InLine(nonPriority', SlotsF', taken', Low, calls + 1)
  BY <1>2, <1>3, <1>4, Lines, InLineTaken
<1>7. Left(nonPriority, SlotsF, nonPriority', SlotsF', f)
  BY <1>2, <1>4, Lines, PeekLine
<1>8. Sole(nonPriority, priority', SlotsF, SlotsP', taken, refused \cup discarded, sender, calls)
  BY <1>2, <1>3, <1>4, SoleSwapped
<1>9. refused' \cup discarded' = (refused \cup discarded) \cup {f}
  BY <1>2
<1>10. Sole(nonPriority', priority', SlotsF', SlotsP', taken', refused' \cup discarded', sender, calls)
  BY <1>2, <1>7, <1>8, <1>9, SoleGivenUp
<1>11. Sole(priority', nonPriority', SlotsP', SlotsF', taken', refused' \cup discarded', sender, calls)
  BY <1>10, SoleSwapped
<1> QED
  BY <1>2, <1>5, <1>6, <1>11, ReceiverHistory

\* A Receiver is dropped with its slots.
LEMMA DropReceiverHistory ==
  ASSUME QueueTypes, CounterInv, HistoryInv, NEW r \in Receiver, DropReceiver(r)
  PROVE  HistoryInv'
<1>1. SlotsP[r] = peeked[r].p /\ SlotsF[r] = peeked[r].f /\ NoRpc \in MaybeRpc
  BY Lines, SlotEmptied
<1>2. /\ UNCHANGED <<priority, nonPriority, sender, calls, refused, taken>>
      /\ peeked' = [peeked EXCEPT ![r] = [p |-> NoRpc, f |-> NoRpc]]
      /\ discarded' = discarded \cup ({SlotsP[r], SlotsF[r]} \ {NoRpc})
  BY <1>1 DEF DropReceiver, Slots
<1>3. /\ InLine(priority, SlotsP, taken, High, NextNumber)
      /\ InLine(nonPriority, SlotsF, taken, Low, calls + 1)
      /\ Sole(priority, nonPriority, SlotsP, SlotsF, taken, refused \cup discarded, sender, calls)
  BY DEF HistoryInv, OnePlace
<1>4. SlotsP' = [SlotsP EXCEPT ![r] = NoRpc] /\ SlotsF' = [SlotsF EXCEPT ![r] = NoRpc]
  BY <1>1, <1>2, BothSlotsSet
<1>5. InLine(priority', SlotsP', taken', High, NextNumber)
  BY <1>2, <1>3, <1>4, Lines, InLineDropped
<1>6. InLine(nonPriority', SlotsF', taken', Low, calls + 1)
  BY <1>2, <1>3, <1>4, Lines, InLineDropped
<1> DEFINE d == (refused \cup discarded) \cup ({SlotsP[r]} \ {NoRpc})
<1>7. Sole(priority, nonPriority, SlotsP', SlotsF, taken, d, sender, calls)
  BY <1>3, <1>4, SoleSlotDropped
<1>8. refused' \cup discarded' = d \cup ({SlotsF[r]} \ {NoRpc})
  BY <1>2
<1> HIDE DEF d
<1>9. Sole(nonPriority, priority, SlotsF, SlotsP', taken, d, sender, calls)
  BY <1>7, SoleSwapped
<1>10. Sole(nonPriority, priority, SlotsF', SlotsP', taken, refused' \cup discarded', sender, calls)
  BY <1>4, <1>8, <1>9, SoleSlotDropped
<1>11. Sole(priority', nonPriority', SlotsP', SlotsF', taken', refused' \cup discarded', sender, calls)
  BY <1>2, <1>10, SoleSwapped
<1> QED
  BY <1>2, <1>5, <1>6, <1>11, ReceiverHistory

\* A Publish is refused, or its number is the one under way.
LEMMA LoadLenHistory ==
  ASSUME QueueTypes, CounterInv, HistoryInv, LoadLen
  PROVE  HistoryInv'
<1> DEFINE m == [kind |-> "Publish", n |-> calls + 1]
<1>1. /\ sender.pc = "idle" /\ calls < MaxSends /\ calls' = calls + 1
      /\ UNCHANGED <<priority, nonPriority, peeked, taken, discarded>>
      /\ \/ /\ refused' = refused \cup {m}
            /\ sender' = sender
         \/ /\ sender' = [pc |-> "store", n |-> calls + 1, read |-> len]
            /\ refused' = refused
  BY DEF LoadLen, channels
<1>2. m \in Rpc /\ m.n = calls + 1
  BY Lines DEF Rpc
<1> HIDE DEF m
<1>3. /\ InLine(priority, SlotsP, taken, High, calls + 1)
      /\ InLine(nonPriority, SlotsF, taken, Low, calls + 1)
      /\ Sole(priority, nonPriority, SlotsP, SlotsF, taken, refused \cup discarded, sender, calls)
      /\ SlotsP' = SlotsP /\ SlotsF' = SlotsF
  BY <1>1 DEF HistoryInv, OnePlace, NextNumber, SlotsP, SlotsF
<1>4. calls' + 1 \in Nat /\ calls + 1 <= calls' + 1
  BY <1>1, Lines
<1>5. InLine(nonPriority', SlotsF', taken', Low, calls' + 1)
  BY <1>1, <1>3, <1>4, Lines, InLineStill
<1>6. CASE refused' = refused \cup {m} /\ sender' = sender
  <2>1. NextNumber' = calls' + 1
    BY <1>1, <1>6 DEF NextNumber
  <2>2. InLine(priority', SlotsP', taken', High, NextNumber')
    BY <1>1, <1>3, <1>4, <2>1, Lines, InLineStill
  <2>3. refused' \cup discarded' = (refused \cup discarded) \cup {m}
    BY <1>1, <1>6
  <2>4. OnePlace'
    BY <1>1, <1>2, <1>3, <1>6, <2>3, SoleRefused DEF OnePlace
  <2> QED
    BY <1>5, <2>2, <2>4 DEF HistoryInv
<1>7. CASE sender' = [pc |-> "store", n |-> calls + 1, read |-> len] /\ refused' = refused
  <2>1. sender'.pc # "idle" /\ sender'.n = calls + 1 /\ NextNumber' = calls + 1
    BY <1>7 DEF NextNumber
  <2>2. InLine(priority', SlotsP', taken', High, NextNumber')
    BY <1>1, <1>3, <2>1
  <2>3. OnePlace'
    BY <1>1, <1>3, <1>7, <2>1, SoleStarted DEF OnePlace
  <2> QED
    BY <1>5, <2>2, <2>3 DEF HistoryInv
<1> QED
  BY <1>1, <1>6, <1>7

\* The call under way goes on.
LEMMA StoreLenHistory ==
  ASSUME QueueTypes, CounterInv, HistoryInv, StoreLen
  PROVE  HistoryInv'
<1>1. /\ sender.pc = "store"
      /\ sender' = [sender EXCEPT !.pc = "push"]
      /\ UNCHANGED <<priority, nonPriority, peeked, calls, refused, taken, discarded>>
  BY DEF StoreLen, channels, history
<1>2. sender'.pc = "push" /\ sender'.n = sender.n
  BY <1>1 DEF QueueTypes
<1>3. NextNumber' = NextNumber /\ SlotsP' = SlotsP /\ SlotsF' = SlotsF
  BY <1>1, <1>2 DEF NextNumber, SlotsP, SlotsF
<1>4. \A n : Sending(sender', n) = Sending(sender, n)
  BY <1>1, <1>2 DEF Sending
<1>5. OnePlace'
  <2>1. Sole(priority, nonPriority, SlotsP, SlotsF, taken, refused \cup discarded, sender, calls)
    BY DEF HistoryInv, OnePlace
  <2>2. Sole(priority, nonPriority, SlotsP, SlotsF, taken, refused \cup discarded, sender', calls)
    BY <1>4, <2>1 DEF Sole
  <2> QED
    BY <1>1, <1>3, <2>2 DEF OnePlace
<1> QED
  BY <1>1, <1>3, <1>5 DEF HistoryInv

\* The call under way puts its Publish into the channel.
LEMMA PushPublishHistory ==
  ASSUME QueueTypes, CounterInv, HistoryInv, PushPublish
  PROVE  HistoryInv'
<1> DEFINE m == [kind |-> "Publish", n |-> sender.n]
<1>1. /\ sender.pc = "push" /\ priority' = Append(priority, m)
      /\ sender' = [pc |-> "idle", n |-> 0, read |-> 0]
      /\ UNCHANGED <<nonPriority, peeked, calls, refused, taken, discarded>>
  BY DEF PushPublish, history, Idle
<1>2. m \in Rpc /\ m.n = NextNumber /\ m.n = sender.n /\ m.kind \in High
  BY <1>1, BeforeSend DEF Rpc, QueueTypes, High
<1> HIDE DEF m
<1>3. NextNumber' = NextNumber + 1 /\ SlotsP' = SlotsP /\ SlotsF' = SlotsF
  BY <1>1, BeforeSend DEF NextNumber, SlotsP, SlotsF
<1>4. InLine(priority', SlotsP', taken', High, NextNumber')
  BY <1>1, <1>2, <1>3, Lines, InLineSent DEF HistoryInv
<1>5. InLine(nonPriority', SlotsF', taken', Low, calls' + 1)
  BY <1>1, <1>3 DEF HistoryInv
<1>6. OnePlace'
  <2>1. Sole(priority, nonPriority, SlotsP, SlotsF, taken, refused \cup discarded, sender, calls)
    BY DEF HistoryInv, OnePlace
  <2>2. sender.pc # "idle" /\ sender'.pc = "idle"
    BY <1>1
  <2>3. Sole(priority', nonPriority, SlotsP, SlotsF, taken, refused \cup discarded, sender', calls)
    BY <1>1, <1>2, <2>1, <2>2, SolePushed
  <2> QED
    BY <1>1, <1>3, <2>3 DEF OnePlace
<1> QED
  BY <1>4, <1>5, <1>6 DEF HistoryInv

\* A control message is put into the channel.
LEMMA SendControlHistory ==
  ASSUME QueueTypes, CounterInv, HistoryInv, SendControl
  PROVE  HistoryInv'
<1> DEFINE m == [kind |-> "Control", n |-> calls + 1]
<1>1. /\ sender.pc = "idle" /\ calls < MaxSends /\ priority' = Append(priority, m) /\ calls' = calls + 1
      /\ UNCHANGED <<nonPriority, peeked, sender, refused, taken, discarded>>
  BY DEF SendControl
<1>2. m \in Rpc /\ m.n = NextNumber /\ m.n = calls + 1 /\ m.kind \in High
  BY <1>1, BeforeSend DEF Rpc, High
<1> HIDE DEF m
<1>3. /\ NextNumber' = NextNumber + 1 /\ SlotsP' = SlotsP /\ SlotsF' = SlotsF
      /\ calls' + 1 \in Nat /\ calls + 1 <= calls' + 1
  BY <1>1, BeforeSend DEF NextNumber, SlotsP, SlotsF
<1>4. InLine(priority', SlotsP', taken', High, NextNumber')
  BY <1>1, <1>2, <1>3, Lines, InLineSent DEF HistoryInv
<1>5. InLine(nonPriority', SlotsF', taken', Low, calls' + 1)
  BY <1>1, <1>3, Lines, InLineStill DEF HistoryInv
<1>6. OnePlace'
  BY <1>1, <1>2, <1>3, SoleSent DEF HistoryInv, OnePlace
<1> QED
  BY <1>4, <1>5, <1>6 DEF HistoryInv

\* A Forward is put into the other channel, or handed back.
LEMMA SendForwardHistory ==
  ASSUME QueueTypes, CounterInv, HistoryInv, SendForward
  PROVE  HistoryInv'
<1> DEFINE m == [kind |-> "Forward", n |-> calls + 1]
<1>1. /\ sender.pc = "idle" /\ calls < MaxSends /\ calls' = calls + 1
      /\ UNCHANGED <<priority, peeked, sender, taken, discarded>>
      /\ \/ nonPriority' = Append(nonPriority, m) /\ refused' = refused
         \/ nonPriority' = nonPriority /\ refused' = refused \cup {m}
  BY DEF SendForward
<1>2. m \in Rpc /\ m.n = calls + 1 /\ m.kind \in Low
  BY BeforeSend DEF Rpc, Low
<1> HIDE DEF m
<1>3. /\ NextNumber' = calls' + 1 /\ NextNumber = calls + 1 /\ SlotsP' = SlotsP /\ SlotsF' = SlotsF
      /\ calls' + 1 \in Nat /\ calls + 1 <= calls' + 1 /\ calls' + 1 = (calls + 1) + 1
  BY <1>1, BeforeSend DEF NextNumber, SlotsP, SlotsF
<1>4. InLine(priority', SlotsP', taken', High, NextNumber')
  BY <1>1, <1>3, Lines, InLineStill DEF HistoryInv
<1>5. Sole(priority, nonPriority, SlotsP, SlotsF, taken, refused \cup discarded, sender, calls)
  BY DEF HistoryInv, OnePlace
<1>6. CASE nonPriority' = Append(nonPriority, m) /\ refused' = refused
  <2>1. InLine(nonPriority', SlotsF', taken', Low, calls' + 1)
    BY <1>1, <1>2, <1>3, <1>6, Lines, InLineSent DEF HistoryInv
  <2>2. Sole(nonPriority, priority, SlotsF, SlotsP, taken, refused \cup discarded, sender, calls)
    BY <1>5, SoleSwapped
  <2>3. Sole(nonPriority', priority, SlotsF, SlotsP, taken, refused \cup discarded, sender, calls + 1)
    BY <1>1, <1>2, <1>6, <2>2, SoleSent
  <2>4. Sole(priority, nonPriority', SlotsP, SlotsF, taken, refused \cup discarded, sender, calls + 1)
    BY <2>3, SoleSwapped
  <2>5. OnePlace'
    BY <1>1, <1>3, <1>6, <2>4 DEF OnePlace
  <2> QED
    BY <1>4, <2>1, <2>5 DEF HistoryInv
<1>7. CASE nonPriority' = nonPriority /\ refused' = refused \cup {m}
  <2>1. InLine(nonPriority', SlotsF', taken', Low, calls' + 1)
    BY <1>1, <1>3, <1>7, Lines, InLineStill DEF HistoryInv
  <2>2. refused' \cup discarded' = (refused \cup discarded) \cup {m}
    BY <1>1, <1>7
  <2>3. Sole(priority, nonPriority, SlotsP, SlotsF, taken, (refused \cup discarded) \cup {m}, sender, calls + 1)
    BY <1>1, <1>2, <1>5, SoleRefused
  <2>4. OnePlace'
    BY <1>1, <1>3, <1>7, <2>2, <2>3 DEF OnePlace
  <2> QED
    BY <1>4, <2>1, <2>4 DEF HistoryInv
<1> QED
  BY <1>1, <1>6, <1>7

-----------------------------------------------------------------------------
(* The theorems on the history.                                            *)

\* No call was made yet.
LEMMA InitHistory == Init => HistoryInv
<1> SUFFICES ASSUME Init PROVE HistoryInv
  OBVIOUS
<1>1. /\ priority = <<>> /\ nonPriority = <<>> /\ calls = 0
      /\ peeked = [r \in Receiver |-> [p |-> NoRpc, f |-> NoRpc]]
      /\ sender.pc = "idle"
      /\ refused \cup discarded = {} /\ taken = [r \in Receiver |-> <<>>]
  BY DEF Init, Idle, Slots
<1>2. DOMAIN priority = {} /\ DOMAIN nonPriority = {} /\ \A r \in Receiver : DOMAIN taken[r] = {} /\ Len(taken[r]) = 0
  BY <1>1
<1>3. \A r \in Receiver : SlotsP[r] = NoRpc /\ SlotsF[r] = NoRpc
  BY <1>1 DEF SlotsP, SlotsF
<1>4. InLine(priority, SlotsP, taken, High, NextNumber) /\ InLine(nonPriority, SlotsF, taken, Low, calls + 1)
  BY <1>2, <1>3 DEF InLine
<1>5. ASSUME NEW n \in Nat
      PROVE  InBoth(priority, SlotsP, n) + InBoth(nonPriority, SlotsF, n) + Returns(taken, n)
               + GivenUp(refused \cup discarded, n) + Sending(sender, n)
               = IF n \in 1 .. calls THEN 1 ELSE 0
  <2>1. Cardinality({}) = 0
    BY FS_EmptySet
  <2>2. InChannel(priority, n) = 0 /\ InChannel(nonPriority, n) = 0
    <3>1. {i \in DOMAIN priority : priority[i] # NoRpc /\ priority[i].n = n} = {}
      BY <1>2
    <3>2. {i \in DOMAIN nonPriority : nonPriority[i] # NoRpc /\ nonPriority[i].n = n} = {}
      BY <1>2
    <3> QED
      BY <2>1, <3>1, <3>2 DEF InChannel
  <2>3. InSlots(SlotsP, n) = 0 /\ InSlots(SlotsF, n) = 0
    <3>1. {r \in Receiver : SlotsP[r] # NoRpc /\ SlotsP[r].n = n} = {}
      BY <1>3
    <3>2. {r \in Receiver : SlotsF[r] # NoRpc /\ SlotsF[r].n = n} = {}
      BY <1>3
    <3> QED
      BY <2>1, <3>1, <3>2 DEF InSlots
  <2>4. Returns(taken, n) = 0
    <3>1. {ri \in Receiver \X (1 .. MaxSends) :
             ri[2] \in DOMAIN taken[ri[1]] /\ taken[ri[1]][ri[2]] # NoRpc /\ taken[ri[1]][ri[2]].n = n} = {}
      BY <1>2
    <3> QED
      BY <2>1, <3>1 DEF Returns
  <2>5. GivenUp(refused \cup discarded, n) = 0
    <3>1. {m \in refused \cup discarded : m # NoRpc /\ m.n = n} = {}
      BY <1>1
    <3> QED
      BY <2>1, <3>1 DEF GivenUp
  <2>6. Sending(sender, n) = 0 /\ n \notin 1 .. calls
    BY <1>1 DEF Sending
  <2> QED
    BY <2>2, <2>3, <2>4, <2>5, <2>6 DEF InBoth
<1>6. OnePlace
  <2>1. priority \in Seq(Rpc) /\ nonPriority \in Seq(Rpc) /\ taken \in [Receiver -> Seq(Rpc)]
    BY <1>1
  <2>2. SlotsP \in [Receiver -> MaybeRpc] /\ SlotsF \in [Receiver -> MaybeRpc]
    BY <1>1 DEF SlotsP, SlotsF, MaybeRpc
  <2>3. IsFiniteSet(refused \cup discarded)
    BY <1>1, FS_EmptySet
  <2>4. calls \in Nat /\ calls <= MaxSends /\ 0 <= MaxSends
    BY <1>1, QueueAssumption
  <2> QED
    BY <1>2, <1>5, <2>1, <2>2, <2>3, <2>4 DEF OnePlace, Sole
<1> QED
  BY <1>4, <1>6 DEF HistoryInv

\* No step of sender or receivers reorders, loses or doubles an rpc.
LEMMA NextHistory == QueueTypes /\ CounterInv /\ HistoryInv /\ [Next]_vars => HistoryInv'
<1> SUFFICES ASSUME QueueTypes, CounterInv, HistoryInv, [Next]_vars PROVE HistoryInv'
  OBVIOUS
<1>1. CASE LoadLen
  BY <1>1, LoadLenHistory
<1>2. CASE StoreLen
  BY <1>2, StoreLenHistory
<1>3. CASE PushPublish
  BY <1>3, PushPublishHistory
<1>4. CASE SendControl
  BY <1>4, SendControlHistory
<1>5. CASE SendForward
  BY <1>5, SendForwardHistory
<1>6. ASSUME NEW r \in Receiver, PollNext(r) PROVE HistoryInv'
  BY <1>6, PollNextHistory
<1>7. ASSUME NEW r \in Receiver, FetchSub(r) PROVE HistoryInv'
  BY <1>7, QuietHistory DEF FetchSub, channels, history
<1>8. ASSUME NEW r \in Receiver, PollPeek(r) PROVE HistoryInv'
  BY <1>8, PollPeekHistory
<1>9. ASSUME NEW r \in Receiver, DropStalePublish(r) PROVE HistoryInv'
  BY <1>9, DropStalePublishHistory
<1>10. ASSUME NEW r \in Receiver, DropStaleForward(r) PROVE HistoryInv'
  BY <1>10, DropStaleForwardHistory
<1>11. ASSUME NEW r \in Receiver, NewReceiver(r) PROVE HistoryInv'
  BY <1>11, QuietHistory DEF NewReceiver, channels, history
<1>12. ASSUME NEW r \in Receiver, DropReceiver(r) PROVE HistoryInv'
  BY <1>12, DropReceiverHistory
<1>13. ASSUME NEW r \in Receiver, TakeForward(r) PROVE HistoryInv'
  BY <1>13, TakeForwardHistory
<1>14. ASSUME NEW r \in Receiver, PeekForward(r) PROVE HistoryInv'
  BY <1>14, PeekForwardHistory
<1>15. CASE UNCHANGED vars
  BY <1>15, QuietHistory DEF vars
<1> QED
  BY <1>1, <1>2, <1>3, <1>4, <1>5, <1>6, <1>7, <1>8, <1>9, <1>10, <1>11, <1>12, <1>13, <1>14, <1>15
     DEF Next

LEMMA HistoryInvariant == Spec => [](QueueTypes /\ HistoryInv)
<1>1. Init => QueueTypes /\ CounterInv /\ HistoryInv
  BY InitQueue, InitHistory
<1>2. QueueTypes /\ CounterInv /\ HistoryInv /\ [Next]_vars => QueueTypes' /\ CounterInv' /\ HistoryInv'
  BY NextQueue, NextHistory
<1> QED
  BY <1>1, <1>2, PTL DEF Spec

\* Whatever its Receivers do at the same time, each one returns the rpcs of
\* either channel in the order they were sent.
THEOREM ReceiversKeepOrder == Spec => []InOrder
<1>1. QueueTypes /\ HistoryInv => InOrder
  <2> SUFFICES ASSUME QueueTypes, HistoryInv, NEW r \in Receiver,
                      NEW i \in DOMAIN taken[r], NEW j \in DOMAIN taken[r], i < j,
                      taken[r][i].kind = "Forward" <=> taken[r][j].kind = "Forward"
               PROVE  taken[r][i].n < taken[r][j].n
    BY DEF InOrder
  <2>1. taken[r][i] \in Rpc /\ taken[r][j] \in Rpc
    <3>1. taken[r] \in Seq(Rpc)
      BY DEF QueueTypes
    <3> QED
      BY <3>1, ElementOfSeq
  <2>2. \/ taken[r][i].kind \in High /\ taken[r][j].kind \in High
        \/ taken[r][i].kind \in Low /\ taken[r][j].kind \in Low
    BY <2>1 DEF Rpc, High, Low
  <2> QED
    BY <2>2 DEF HistoryInv, InLine
<1> QED
  BY <1>1, HistoryInvariant, PTL

\* The rpc of every call is in one place: in a channel or a slot, returned by
\* one Receiver, handed back, or discarded.
THEOREM EachCallInOnePlace == Spec => []ExactlyOnce
<1>1. HistoryInv => ExactlyOnce
  <2> SUFFICES ASSUME HistoryInv, NEW n \in 1 .. calls
               PROVE  1 = Cardinality({i \in DOMAIN priority : priority[i] # NoRpc /\ priority[i].n = n})
                         + Cardinality({i \in DOMAIN nonPriority : nonPriority[i] # NoRpc /\ nonPriority[i].n = n})
                         + Cardinality({r \in Receiver : peeked[r].p # NoRpc /\ peeked[r].p.n = n})
                         + Cardinality({r \in Receiver : peeked[r].f # NoRpc /\ peeked[r].f.n = n})
                         + Cardinality({ri \in Receiver \X (1 .. MaxSends) :
                              /\ ri[2] \in DOMAIN taken[ri[1]]
                              /\ taken[ri[1]][ri[2]] # NoRpc /\ taken[ri[1]][ri[2]].n = n})
                         + Cardinality({m \in refused \cup discarded : m # NoRpc /\ m.n = n})
                         + (IF sender.pc # "idle" /\ sender.n = n THEN 1 ELSE 0)
    BY DEF ExactlyOnce
  <2> DEFINE a == InChannel(priority, n)
             b == InChannel(nonPriority, n)
             x == InSlots(SlotsP, n)
             y == InSlots(SlotsF, n)
             c == Returns(taken, n)
             e == GivenUp(refused \cup discarded, n)
             h == Sending(sender, n)
  <2>1. calls \in Nat /\ n \in Nat
    BY DEF HistoryInv, OnePlace, Sole
  <2>2. (a + x) + (b + y) + c + e + h = 1
    BY <2>1 DEF HistoryInv, OnePlace, Sole, InBoth
  <2>3. /\ a \in Nat /\ b \in Nat /\ x \in Nat /\ y \in Nat
        /\ c \in Nat /\ e \in Nat /\ h \in Nat
    <3>1. a \in Nat /\ b \in Nat /\ e \in Nat
      BY ChannelCount, GivenUpCount DEF HistoryInv, OnePlace, Sole
    <3>2. x \in Nat /\ y \in Nat /\ c \in Nat
      BY SlotsCount, ReturnsCount
    <3> QED
      BY <3>1, <3>2 DEF Sending
  <2>4. /\ x = Cardinality({r \in Receiver : peeked[r].p # NoRpc /\ peeked[r].p.n = n})
        /\ y = Cardinality({r \in Receiver : peeked[r].f # NoRpc /\ peeked[r].f.n = n})
    <3>1. /\ {r \in Receiver : SlotsP[r] # NoRpc /\ SlotsP[r].n = n}
               = {r \in Receiver : peeked[r].p # NoRpc /\ peeked[r].p.n = n}
          /\ {r \in Receiver : SlotsF[r] # NoRpc /\ SlotsF[r].n = n}
               = {r \in Receiver : peeked[r].f # NoRpc /\ peeked[r].f.n = n}
      BY DEF SlotsP, SlotsF
    <3> QED
      BY <3>1 DEF InSlots
  <2> HIDE DEF a, b, x, y, c, e, h
  <2>5. 1 = a + b + x + y + c + e + h
    BY <2>2, <2>3
  <2> QED
    BY <2>4, <2>5 DEF a, b, c, e, h, InChannel, Returns, GivenUp, Sending
<1> QED
  BY <1>1, HistoryInvariant, PTL
=============================================================================
