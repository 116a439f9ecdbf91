------------------------- MODULE BehaviourTaskProofs -------------------------
(***************************************************************************)
(* What holds of the task of a node for every number of peers, connections *)
(* and transactions, and every redundancy that Config asks for.            *)
(*                                                                         *)
(* Every invariant is inductive relative to the types.  The work is in     *)
(* three places: the recursive function Retain, the sums behind the gauges *)
(* (module DogRouterProofs), and the position of the last report in a      *)
(* queue that grows at one end and is emitted from the other.              *)
(***************************************************************************)
EXTENDS BehaviourTask, DogRouterProofs, SequenceTheorems, NaturalsInduction

-----------------------------------------------------------------------------
(* Vec::retain.                                                            *)

\* Induction over the naturals, without an operator for a parameter.
LEMMA LeastNatural ==
  ASSUME NEW T, T \subseteq Nat, T # {}
  PROVE  \E n \in T : \A m \in T : n <= m
<1> DEFINE R == OpToRel(<, Nat)
<1>1. \A x, y \in Nat : x < y => <<x, y>> \in R
  BY DEF OpToRel
<1>2. IsWellFoundedOn(R, Nat)
  BY NatLessThanWellFounded
<1> HIDE DEF R
<1>3. PICK n \in T : \A m \in T : ~ (<<m, n>> \in R)
  BY <1>2, WFMin
<1>4. ASSUME NEW m \in T PROVE n <= m
  <2>1. n \in Nat /\ m \in Nat
    OBVIOUS
  <2>2. ~ (m < n)
    BY <1>1, <1>3, <2>1
  <2> QED
    BY <2>1, <2>2
<1> QED
  BY <1>4

\* What is left after retain: the other ids, each as often as before.
LEMMA RetainProperties ==
  ASSUME NEW S, NEW s \in Seq(S), NEW c
  PROVE  /\ Retain(s, c) \in Seq(S)
         /\ ToSet(Retain(s, c)) = ToSet(s) \ {c}
         /\ IsInjective(s) => IsInjective(Retain(s, c))
<1> DEFINE Step(k, i) == IF i = 0 THEN <<>>
                         ELSE IF s[i] = c THEN k[i - 1] ELSE Append(k[i - 1], s[i])
           Kept(k, n) == k = [i \in 0 .. n |-> Step(k, i)]
           kept == CHOOSE k : Kept(k, Len(s))
           Good(n) == /\ kept[n] \in Seq(S)
                      /\ ToSet(kept[n]) = {s[i] : i \in 1 .. n} \ {c}
                      /\ IsInjective(s) => IsInjective(kept[n])
<1>1. Len(s) \in Nat /\ DOMAIN s = 1 .. Len(s) /\ \A i \in 1 .. Len(s) : s[i] \in S
  BY LenProperties
<1>2. \A n \in Nat : \E k : Kept(k, n)
  <2> DEFINE Bad == {n \in Nat : ~ \E k : Kept(k, n)}
  <2> SUFFICES ASSUME Bad # {} PROVE FALSE
    OBVIOUS
  <2>1. PICK n \in Bad : \A m \in Bad : n <= m
    BY LeastNatural
  <2>2. Kept([i \in 0 .. 0 |-> <<>>], 0)
    OBVIOUS
  <2>3. n # 0
    BY <2>1, <2>2
  <2>4. PICK k : Kept(k, n - 1)
    <3>1. n - 1 \in Nat /\ ~ (n <= n - 1)
      BY <2>1, <2>3
    <3>2. n - 1 \notin Bad
      BY <2>1, <3>1
    <3> HIDE DEF Kept
    <3> QED
      BY <3>1, <3>2
  <2> DEFINE h == [i \in 0 .. n |-> IF i < n THEN k[i] ELSE Step(k, n)]
  <2>5. \A i \in 0 .. n : h[i] = Step(h, i)
    <3>1. \A i \in 0 .. (n - 1) : h[i] = k[i]
      BY <2>1
    <3>2. h[n] = Step(k, n)
      BY <2>1
    <3>3. \A i \in 0 .. (n - 1) : k[i] = Step(k, i)
      BY <2>4
    <3>4. \A i \in 0 .. n : i = n \/ i \in 0 .. (n - 1)
      BY <2>1
    <3>5. \A i \in 1 .. n : i - 1 \in 0 .. (n - 1)
      BY <2>1
    <3>6. \A i \in 0 .. n : Step(h, i) = Step(k, i)
      BY <2>1, <3>1, <3>5
    <3> HIDE DEF h, Step
    <3> QED
      BY <2>1, <3>1, <3>2, <3>3, <3>4, <3>6
  <2>6. Kept(h, n)
    <3> h = [i \in 0 .. n |-> h[i]]
      OBVIOUS
    <3> HIDE DEF h
    <3> QED
      BY <2>5
  <2> QED
    BY <2>1, <2>6
<1>3. Kept(kept, Len(s))
  BY <1>1, <1>2
<1>4. Retain(s, c) = kept[Len(s)]
  BY DEF Retain
<1> HIDE DEF kept
<1>5. /\ kept[0] = <<>>
      /\ \A i \in 1 .. Len(s) : kept[i] = IF s[i] = c THEN kept[i - 1] ELSE Append(kept[i - 1], s[i])
  <2>1. \A i \in 0 .. Len(s) : kept[i] = Step(kept, i)
    BY <1>3
  <2>2. 0 \in 0 .. Len(s) /\ \A i \in 1 .. Len(s) : i \in 0 .. Len(s) /\ i # 0
    BY <1>1
  <2> QED
    BY <2>1, <2>2
<1>6. Good(0)
  <2>1. <<>> \in Seq(S) /\ DOMAIN <<>> = {}
    BY EmptySeq
  <2> QED
    BY <1>5, <2>1 DEF ToSet, IsInjective
<1>7. ASSUME NEW n \in 1 .. Len(s), Good(n - 1)
      PROVE  Good(n)
  <2> DEFINE p == kept[n - 1]
             q == kept[n]
  <2>1. p \in Seq(S) /\ ToSet(p) = {s[i] : i \in 1 .. (n - 1)} \ {c} /\ s[n] \in S
    BY <1>1, <1>7
  <2>2. 1 .. n = (1 .. (n - 1)) \cup {n} /\ n \notin 1 .. (n - 1) /\ 1 .. n \subseteq DOMAIN s
    BY <1>1
  <2>3. q = IF s[n] = c THEN p ELSE Append(p, s[n])
    BY <1>5
  <2>4. IsInjective(s) => IsInjective(p)
    BY <1>7
  <2> HIDE DEF p, q
  <2>5. {s[i] : i \in 1 .. n} = {s[i] : i \in 1 .. (n - 1)} \cup {s[n]}
    BY <2>2
  <2>6. CASE s[n] = c
    <3>1. q = p
      BY <2>3, <2>6
    <3>2. {s[i] : i \in 1 .. n} \ {c} = {s[i] : i \in 1 .. (n - 1)} \ {c}
      BY <2>5, <2>6
    <3> QED
      BY <2>1, <2>4, <3>1, <3>2 DEF p, q
  <2>7. CASE s[n] # c
    <3>1. q = Append(p, s[n])
      BY <2>3, <2>7
    <3>2. /\ q \in Seq(S) /\ Len(p) \in Nat /\ DOMAIN q = 1 .. (Len(p) + 1)
          /\ DOMAIN p = 1 .. Len(p) /\ \A i \in 1 .. Len(p) : q[i] = p[i]
          /\ q[Len(p) + 1] = s[n]
      BY <2>1, <3>1, AppendProperties, LenProperties
    <3>3. \A i \in DOMAIN q : i \in DOMAIN p \/ i = Len(p) + 1
      BY <3>2
    <3>4. Len(p) + 1 \in DOMAIN q /\ DOMAIN p \subseteq DOMAIN q
      BY <3>2
    <3>5. ToSet(q) = ToSet(p) \cup {s[n]}
      BY <3>2, <3>3, <3>4 DEF ToSet
    <3>6. ToSet(q) = {s[i] : i \in 1 .. n} \ {c}
      BY <2>1, <2>5, <2>7, <3>5
    <3>7. ASSUME IsInjective(s) PROVE IsInjective(q)
      <4>1. s[n] \notin {s[i] : i \in 1 .. (n - 1)}
        BY <2>2, <3>7 DEF IsInjective
      <4>2. s[n] \notin ToSet(p)
        BY <2>1, <4>1
      <4>3. \A i \in DOMAIN p : p[i] # s[n]
        BY <4>2 DEF ToSet
      <4> QED
        BY <2>4, <3>2, <3>3, <3>7, <4>3 DEF IsInjective
    <3> QED
      BY <3>2, <3>6, <3>7 DEF q
  <2> QED
    BY <2>6, <2>7
<1>8. Good(Len(s))
  <2> DEFINE Bad == {n \in 0 .. Len(s) : ~ Good(n)}
  <2> HIDE DEF Good
  <2> SUFFICES ASSUME Bad # {} PROVE FALSE
    BY <1>1
  <2>1. Bad \subseteq Nat
    BY <1>1
  <2>2. PICK n \in Bad : \A m \in Bad : n <= m
    BY <2>1, LeastNatural
  <2>3. n \in 1 .. Len(s)
    BY <1>1, <1>6, <2>2
  <2>4. n - 1 \in 0 .. Len(s) /\ ~ (n <= n - 1)
    BY <1>1, <2>3
  <2>5. Good(n - 1)
    BY <2>2, <2>4
  <2> QED
    BY <1>7, <2>2, <2>3, <2>5
<1>9. {s[i] : i \in 1 .. Len(s)} = ToSet(s)
  BY <1>1 DEF ToSet
<1> QED
  BY <1>4, <1>8, <1>9

-----------------------------------------------------------------------------
(* The last report in a queue.                                             *)

\* RoutingReported of the queue q, the routes d and the last emitted report t.
Reported(q, d, t) ==
  LET reports == {i \in DOMAIN q : q[i].kind = "RoutingUpdated"}
  IN \/ reports = {} /\ d = t
     \/ \E i \in reports : (\A j \in reports : j <= i) /\ d = q[i].routes

\* Events that report nothing are queued.
LEMMA QuietEvents ==
  ASSUME NEW q \in Seq(Event), NEW s \in Seq(Event), NEW d, NEW t, Reported(q, d, t),
         \A i \in DOMAIN s : s[i].kind # "RoutingUpdated"
  PROVE  q \o s \in Seq(Event) /\ Reported(q \o s, d, t)
<1> DEFINE r == q \o s
<1>1. /\ r \in Seq(Event) /\ Len(q) \in Nat /\ Len(s) \in Nat
      /\ DOMAIN q = 1 .. Len(q) /\ DOMAIN s = 1 .. Len(s) /\ DOMAIN r = 1 .. (Len(q) + Len(s))
      /\ \A i \in 1 .. (Len(q) + Len(s)) : r[i] = IF i <= Len(q) THEN q[i] ELSE s[i - Len(q)]
  BY ConcatProperties, LenProperties
<1> HIDE DEF r
<1>2. \A i \in DOMAIN q : i \in DOMAIN r /\ r[i] = q[i]
  BY <1>1
<1>3. ASSUME NEW i \in DOMAIN r, r[i].kind = "RoutingUpdated"
      PROVE  i \in DOMAIN q
  <2>1. CASE ~ (i <= Len(q))
    <3>1. i - Len(q) \in DOMAIN s /\ r[i] = s[i - Len(q)]
      BY <1>1, <2>1
    <3> QED
      BY <1>3, <3>1
  <2> QED
    BY <1>1, <2>1
<1>4. {i \in DOMAIN r : r[i].kind = "RoutingUpdated"}
        = {i \in DOMAIN q : q[i].kind = "RoutingUpdated"}
  BY <1>2, <1>3
<1>5. Reported(r, d, t)
  BY <1>2, <1>4 DEF Reported
<1> QED
  BY <1>1, <1>5 DEF r

\* The routes are reported last.
LEMMA ReportedLast ==
  ASSUME NEW q \in Seq(Event), NEW s \in Seq(Event), s # <<>>, NEW d, NEW t,
         s[Len(s)].kind = "RoutingUpdated", s[Len(s)].routes = d
  PROVE  q \o s \in Seq(Event) /\ Reported(q \o s, d, t)
<1> DEFINE r == q \o s
<1>1. /\ r \in Seq(Event) /\ Len(q) \in Nat /\ Len(s) \in Nat \ {0}
      /\ DOMAIN r = 1 .. (Len(q) + Len(s))
      /\ \A i \in 1 .. (Len(q) + Len(s)) : r[i] = IF i <= Len(q) THEN q[i] ELSE s[i - Len(q)]
  BY ConcatProperties, LenProperties, EmptySeq
<1> HIDE DEF r
<1>2. Len(q) + Len(s) \in DOMAIN r /\ \A j \in DOMAIN r : j <= Len(q) + Len(s)
  BY <1>1
<1>3. r[Len(q) + Len(s)] = s[Len(s)]
  BY <1>1
<1>4. Reported(r, d, t)
  BY <1>2, <1>3 DEF Reported
<1> QED
  BY <1>1, <1>4 DEF r

\* The first event is emitted.
LEMMA ReportEmitted ==
  ASSUME NEW q \in Seq(Event), q # <<>>, NEW d, NEW t, Reported(q, d, t)
  PROVE  Reported(Tail(q), d, IF Head(q).kind = "RoutingUpdated" THEN Head(q).routes ELSE t)
<1> DEFINE r == Tail(q)
           u == IF Head(q).kind = "RoutingUpdated" THEN Head(q).routes ELSE t
           In(s) == {i \in DOMAIN s : s[i].kind = "RoutingUpdated"}
<1>1. /\ Len(q) \in Nat \ {0} /\ Head(q) = q[1]
      /\ DOMAIN q = 1 .. Len(q) /\ DOMAIN r = 1 .. (Len(q) - 1)
      /\ \A i \in 1 .. (Len(q) - 1) : r[i] = q[i + 1]
  <2>1. r \in Seq(Event) /\ Len(r) = Len(q) - 1 /\ \A i \in 1 .. Len(r) : r[i] = q[i + 1]
    BY HeadTailProperties
  <2> QED
    BY <2>1, LenProperties, EmptySeq
<1>2. \A i \in In(r) : i + 1 \in In(q) /\ i \in Nat \ {0} /\ r[i] = q[i + 1]
  BY <1>1
<1>3. \A i \in In(q) : i # 1 => i - 1 \in In(r) /\ r[i - 1] = q[i] /\ i \in Nat
  BY <1>1
<1>4. u = IF 1 \in In(q) THEN q[1].routes ELSE t
  BY <1>1
<1> HIDE DEF r, u
<1> SUFFICES Reported(r, d, u)
  BY DEF r, u
<1>5. CASE In(q) = {} /\ d = t
  <2>1. In(r) = {} /\ u = d
    BY <1>2, <1>4, <1>5
  <2> QED
    BY <2>1 DEF Reported
<1>6. ASSUME NEW i \in In(q), \A j \in In(q) : j <= i, d = q[i].routes
      PROVE  Reported(r, d, u)
  <2>1. CASE i = 1
    <3>1. In(r) = {}
      BY <1>2, <1>6, <2>1
    <3>2. u = d
      BY <1>4, <1>6, <2>1
    <3> QED
      BY <3>1, <3>2 DEF Reported
  <2>2. CASE i # 1
    <3>1. i - 1 \in In(r) /\ r[i - 1] = q[i] /\ i \in Nat
      BY <1>3, <2>2
    <3>2. \A j \in In(r) : j <= i - 1
      BY <1>2, <1>6, <3>1
    <3> QED
      BY <1>6, <3>1, <3>2 DEF Reported
  <2> QED
    BY <2>1, <2>2
<1> QED
  BY <1>5, <1>6 DEF Reported

-----------------------------------------------------------------------------
(* Types.                                                                  *)

CacheEntry == [id : Tx, source : Node]

\* Both tables are finite, so that they have totals.
LEMMA TablesFinite == IsFiniteSet(Node) /\ IsFiniteSet(Route)
  BY TaskAssumption, FS_Product DEF Route

\* The number of closed routes is a natural.
LEMMA NumberTyped ==
  ASSUME NEW routes \in [Route -> Nat]
  PROVE  NumberOf(routes) \in Nat
<1>1. \A r \in Route : routes[r] \in Nat /\ routes[r] = routes[r]
  OBVIOUS
<1> QED
  BY <1>1, TablesFinite, SumOfNaturals DEF NumberOf

\* The events are of their type.
LEMMA EventsTyped ==
  /\ \A k \in {"TransactionReceived", "TransactionSent", "HaveTxReceived", "HaveTxSent",
               "ResetRouteReceived", "ResetRouteSent"} :
       Of(k) \in Event /\ Of(k).kind = k
  /\ \A routes \in [Route -> Nat] :
       /\ RoutingUpdated(routes) \in Event
       /\ RoutingUpdated(routes).kind = "RoutingUpdated"
       /\ RoutingUpdated(routes).routes = routes
BY DEF Event, Of, RoutingUpdated

\* Two events are queued one after the other.
LEMMA TwoEvents ==
  ASSUME NEW a \in Event, NEW b \in Event
  PROVE  /\ <<a, b>> \in Seq(Event) /\ <<a, b>> # <<>> /\ Len(<<a, b>>) = 2
         /\ <<a, b>>[1] = a /\ <<a, b>>[2] = b /\ DOMAIN <<a, b>> = {1, 2}
OBVIOUS

\* The events of a transaction that is sent on.
LEMMA SentTyped ==
  ASSUME NEW targets, NEW sent \in SentEvents(targets)
  PROVE  /\ sent \in Seq(Event)
         /\ \A i \in DOMAIN sent : sent[i].kind # "RoutingUpdated"
<1>1. PICK k \in 0 .. Cardinality(targets) : sent = [i \in 1 .. k |-> Of("TransactionSent")]
  BY DEF SentEvents
<1>2. Of("TransactionSent") \in Event /\ Of("TransactionSent").kind = "TransactionSent"
  BY EventsTyped
<1>3. k \in Nat
  OBVIOUS
<1>4. sent \in [1 .. k -> Event]
  BY <1>1, <1>2
<1> QED
  BY <1>1, <1>2, <1>3, <1>4

\* What is left of the cache.
LEMMA UnexpiredTyped ==
  ASSUME TypeOK, NEW c \in Unexpired
  PROVE  c \in Seq(CacheEntry) /\ Len(c) \in Nat
<1>1. PICK k \in 0 .. Len(cache) : c = SubSeq(cache, k + 1, Len(cache))
  BY DEF Unexpired
<1>2. cache \in Seq(CacheEntry) /\ Len(cache) \in Nat
  BY LenProperties DEF TypeOK, CacheEntry
<1>3. k + 1 \in Int /\ Len(cache) \in Int /\ \A i \in (k + 1) .. Len(cache) : cache[i] \in CacheEntry
  BY <1>2, ElementOfSeq
<1>4. c \in Seq(CacheEntry)
  BY <1>1, <1>3, SubSeqProperties
<1> QED
  BY <1>4, LenProperties

\* The balance of MetricsAgree, of the gauges g and the table h.
Balanced(g, h) == g.haveTxSentCounts = g.resetRouteSentCounts + SumFunctionOnSet(h, Node)

\* A HaveTx is registered, or one that was is removed: the total follows.
LEMMA HaveTxTotal ==
  ASSUME NEW h \in [Node -> Nat], NEW p \in Node
  PROVE  /\ SumFunctionOnSet(h, Node) \in Nat
         /\ SumFunctionOnSet(RegisterHaveTxSent(h, p), Node) = SumFunctionOnSet(h, Node) + 1
         /\ h[p] > 0 => SumFunctionOnSet(h, Node)
                          = SumFunctionOnSet(RemoveHaveTxSent(h, p), Node) + 1
<1> DEFINE a == RegisterHaveTxSent(h, p)
           r == RemoveHaveTxSent(h, p)
<1>1. /\ \A x \in Node : h[x] \in Nat /\ a[x] \in Nat
      /\ \A x \in Node \ {p} : a[x] = h[x]
      /\ a[p] = h[p] + 1
  BY DEF RegisterHaveTxSent
<1>2. /\ \A x \in Node : h[x] \in Nat /\ r[x] \in Nat
      /\ \A x \in Node \ {p} : r[x] = h[x]
      /\ h[p] > 0 => h[p] = r[p] + 1
  BY DEF RemoveHaveTxSent
<1> HIDE DEF a, r
<1>3. /\ SumFunctionOnSet(h, Node) \in Nat /\ SumFunctionOnSet(a, Node) \in Nat
      /\ SumFunctionOnSet(a, Node) + h[p] = SumFunctionOnSet(h, Node) + a[p]
  BY <1>1, TablesFinite, SumChanged
<1>4. /\ SumFunctionOnSet(r, Node) \in Nat
      /\ SumFunctionOnSet(r, Node) + h[p] = SumFunctionOnSet(h, Node) + r[p]
  BY <1>2, TablesFinite, SumChanged
<1>5. SumFunctionOnSet(a, Node) = SumFunctionOnSet(h, Node) + 1
  BY <1>1, <1>3
<1>6. h[p] > 0 => SumFunctionOnSet(h, Node) = SumFunctionOnSet(r, Node) + 1
  BY <1>2, <1>3, <1>4
<1> QED
  BY <1>3, <1>5, <1>6 DEF a, r

\* What adjust_redundancy does, for every invariant.
LEMMA Adjusted ==
  ASSUME TypeOK, NEW peers, NEW q \in Seq(Event), NEW g \in Metrics,
         AdjustRedundancy(peers, q, g)
  PROVE  /\ ctl' \in Controller /\ haveTxSent' \in [Node -> Nat] /\ metrics' \in Metrics
         /\ \/ events' = q
            \/ events' = q \o <<Of("ResetRouteSent")>>
         /\ metrics'.disabledRoutesCount = g.disabledRoutesCount
         /\ metrics'.txsCacheSize = g.txsCacheSize
         /\ Balanced(g, haveTxSent) => Balanced(metrics', haveTxSent')
<1>1. ctl' \in Controller
  BY ControllerTypes DEF AdjustRedundancy, TypeOK
<1>2. \/ events' = q /\ metrics' = g /\ UNCHANGED haveTxSent
      \/ \E p \in HaveTxSentPeers(haveTxSent) :
           /\ haveTxSent' = RemoveHaveTxSent(haveTxSent, p)
           /\ events' = Append(q, Of("ResetRouteSent"))
           /\ metrics' = [g EXCEPT !.resetRouteSentCounts = @ + 1]
  BY DEF AdjustRedundancy
<1>3. CASE events' = q /\ metrics' = g /\ UNCHANGED haveTxSent
  BY <1>1, <1>3 DEF TypeOK
<1>4. ASSUME NEW p \in HaveTxSentPeers(haveTxSent),
             haveTxSent' = RemoveHaveTxSent(haveTxSent, p),
             events' = Append(q, Of("ResetRouteSent")),
             metrics' = [g EXCEPT !.resetRouteSentCounts = @ + 1]
      PROVE  /\ haveTxSent' \in [Node -> Nat] /\ metrics' \in Metrics
             /\ events' = q \o <<Of("ResetRouteSent")>>
             /\ metrics'.disabledRoutesCount = g.disabledRoutesCount
             /\ metrics'.txsCacheSize = g.txsCacheSize
             /\ Balanced(g, haveTxSent) => Balanced(metrics', haveTxSent')
  <2>1. p \in Node /\ haveTxSent[p] > 0 /\ haveTxSent \in [Node -> Nat]
    BY DEF HaveTxSentPeers, TypeOK
  <2>2. haveTxSent' \in [Node -> Nat]
    BY <1>4, <2>1 DEF RemoveHaveTxSent
  <2>3. /\ metrics' \in Metrics
        /\ metrics'.disabledRoutesCount = g.disabledRoutesCount
        /\ metrics'.txsCacheSize = g.txsCacheSize
        /\ metrics'.haveTxSentCounts = g.haveTxSentCounts
        /\ metrics'.resetRouteSentCounts = g.resetRouteSentCounts + 1
        /\ g.resetRouteSentCounts \in Nat
    BY <1>4 DEF Metrics
  <2>4. events' = q \o <<Of("ResetRouteSent")>>
    BY <1>4, EventsTyped, AppendIsConcat
  <2>5. /\ SumFunctionOnSet(haveTxSent, Node) = SumFunctionOnSet(haveTxSent', Node) + 1
        /\ SumFunctionOnSet(haveTxSent', Node) \in Nat
    BY <1>4, <2>1, <2>2, HaveTxTotal
  <2>6. Balanced(g, haveTxSent) => Balanced(metrics', haveTxSent')
    BY <2>3, <2>5 DEF Balanced
  <2> QED
    BY <2>2, <2>3, <2>4, <2>6
<1> QED
  BY <1>1, <1>2, <1>3, <1>4

\* The steps of the task, by the handler that runs.
LEMMA TaskSteps ==
  ASSUME [Next]_vars
  PROVE  \/ StartPoll \/ EmitEvent \/ PollTimer \/ PoolPending
         \/ \E p \in Peer, c \in ConnectionId : ConnectionEstablished(p, c) \/ ConnectionClosed(p, c)
         \/ \E p \in Peer, tx \in Incoming : ReceiveTransaction(p, tx) \/ ReceiveHaveTx(p, tx)
         \/ \E p \in Peer : ReceiveResetRoute(p)
         \/ NothingToHandle
         \/ Arrive \/ TimerElapses \/ Publish \/ UNCHANGED vars
BY DEF Next, Run, PoolEvent

\* The bound on the events that change the tables counts them.
LEMMA ChangesTyped ==
  ASSUME TypeOK, [Next]_vars
  PROVE  changes' \in Nat
<1>1. changes \in Nat
  BY DEF TypeOK
<1>2. CASE PoolEvent
  BY <1>1, <1>2 DEF PoolEvent
<1>3. CASE StartPoll \/ EmitEvent \/ PollTimer \/ PoolPending
  BY <1>1, <1>3 DEF StartPoll, EmitEvent, PollTimer, PoolPending, task
<1>4. CASE Arrive \/ TimerElapses \/ Publish \/ UNCHANGED vars
  BY <1>1, <1>4 DEF Arrive, TimerElapses, Publish, vars, task
<1> QED
  BY <1>2, <1>3, <1>4 DEF Next, Run

\* The last connection to p is gone: connected_peers, the routes of p and the
\* gauges, up to adjust_redundancy.
LastClosed(p, c) ==
  LET routes == ResetRoutesWithPeer(disabled, p)
  IN \E q, g :
       /\ q = IF routes = disabled THEN events ELSE Append(events, RoutingUpdated(routes))
       /\ g = [metrics EXCEPT !.peersCount = @ - 1,
                 !.disabledRoutesCount = IF routes = disabled THEN @ ELSE NumberOf(routes)]
       /\ disabled' = routes
       /\ connections' = Restrict(connections, DOMAIN connections \ {p})
       /\ AdjustRedundancy(DOMAIN connections \ {p}, q, g)

\* A connection closes: it was the last one to its peer, or it was not.
LEMMA ClosedSplits ==
  ASSUME NEW p \in Peer, NEW c \in ConnectionId, ConnectionClosed(p, c)
  PROVE  /\ pc = "pool" /\ pc' = "behaviour" /\ arrived > 0 /\ arrived' = arrived - 1
         /\ UNCHANGED <<timer, awake, told, cache, seqno>>
         /\ c \in established[p] /\ established' = [established EXCEPT ![p] = @ \ {c}]
         /\ \/ /\ established'[p] # {}
               /\ connections' = [connections EXCEPT ![p] = Retain(@, c)]
               /\ UNCHANGED <<disabled, haveTxSent, ctl, events, metrics>>
            \/ established'[p] = {} /\ LastClosed(p, c)
BY DEF ConnectionClosed, PoolReady, LastClosed, router

\* What the last connection leaves, for every invariant.
LEMMA LastClosedFacts ==
  ASSUME TypeOK, NEW p \in Peer, NEW c \in ConnectionId, LastClosed(p, c)
  PROVE  /\ connections' = Restrict(connections, DOMAIN connections \ {p})
         /\ disabled' \in [Route -> Nat] /\ haveTxSent' \in [Node -> Nat]
         /\ ctl' \in Controller /\ events' \in Seq(Event) /\ metrics' \in Metrics
         /\ \E s \in {<<>>, <<Of("ResetRouteSent")>>} :
              \/ disabled' = disabled /\ events' = events \o s
              \/ events' = (events \o <<RoutingUpdated(disabled')>>) \o s
         /\ metrics'.txsCacheSize = metrics.txsCacheSize
         /\ metrics'.disabledRoutesCount
              = IF disabled' = disabled THEN metrics.disabledRoutesCount ELSE NumberOf(disabled')
         /\ Balanced(metrics, haveTxSent) => Balanced(metrics', haveTxSent')
<1> DEFINE routes == ResetRoutesWithPeer(disabled, p)
<1>1. PICK q, g :
        /\ q = IF routes = disabled THEN events ELSE Append(events, RoutingUpdated(routes))
        /\ g = [metrics EXCEPT !.peersCount = @ - 1,
                  !.disabledRoutesCount = IF routes = disabled THEN @ ELSE NumberOf(routes)]
        /\ disabled' = routes
        /\ connections' = Restrict(connections, DOMAIN connections \ {p})
        /\ AdjustRedundancy(DOMAIN connections \ {p}, q, g)
  BY DEF LastClosed
<1>2. routes \in [Route -> Nat]
  BY DEF TypeOK, ResetRoutesWithPeer
<1> HIDE DEF routes
<1>3. /\ events \in Seq(Event) /\ RoutingUpdated(routes) \in Event
      /\ Append(events, RoutingUpdated(routes)) = events \o <<RoutingUpdated(routes)>>
      /\ Append(events, RoutingUpdated(routes)) \in Seq(Event)
  <2>1. events \in Seq(Event) /\ RoutingUpdated(routes) \in Event
    BY <1>2, EventsTyped DEF TypeOK
  <2> QED
    BY <2>1, AppendIsConcat, AppendProperties
<1>4. q \in Seq(Event)
  BY <1>1, <1>3
<1>5. NumberOf(routes) \in Nat /\ metrics \in Metrics
  BY <1>2, NumberTyped DEF TypeOK
<1>6. /\ g \in Metrics /\ g.txsCacheSize = metrics.txsCacheSize
      /\ g.disabledRoutesCount
           = IF routes = disabled THEN metrics.disabledRoutesCount ELSE NumberOf(routes)
      /\ g.haveTxSentCounts = metrics.haveTxSentCounts
      /\ g.resetRouteSentCounts = metrics.resetRouteSentCounts
  <2> DEFINE n == IF routes = disabled THEN metrics.disabledRoutesCount ELSE NumberOf(routes)
  <2>1. n \in Nat
    BY <1>5 DEF Metrics
  <2>2. g = [metrics EXCEPT !.peersCount = @ - 1, !.disabledRoutesCount = n]
    BY <1>1
  <2>3. n = IF routes = disabled THEN metrics.disabledRoutesCount ELSE NumberOf(routes)
    OBVIOUS
  <2> HIDE DEF n
  <2>4. /\ g \in Metrics /\ g.txsCacheSize = metrics.txsCacheSize /\ g.disabledRoutesCount = n
        /\ g.haveTxSentCounts = metrics.haveTxSentCounts
        /\ g.resetRouteSentCounts = metrics.resetRouteSentCounts
    <3>1. /\ metrics.peersCount \in Int /\ metrics.txsCacheSize \in Nat
          /\ metrics.haveTxSentCounts \in Nat /\ metrics.resetRouteSentCounts \in Nat
      BY <1>5 DEF Metrics
    <3>2. g = [peersCount |-> metrics.peersCount - 1, disabledRoutesCount |-> n,
               txsCacheSize |-> metrics.txsCacheSize,
               haveTxSentCounts |-> metrics.haveTxSentCounts,
               resetRouteSentCounts |-> metrics.resetRouteSentCounts]
      BY <1>5, <2>2 DEF Metrics
    <3>3. metrics.peersCount - 1 \in Int
      BY <3>1
    <3> QED
      BY <2>1, <3>1, <3>2, <3>3 DEF Metrics
  <2> QED
    BY <2>3, <2>4
<1>7. /\ ctl' \in Controller /\ haveTxSent' \in [Node -> Nat] /\ metrics' \in Metrics
      /\ \/ events' = q
         \/ events' = q \o <<Of("ResetRouteSent")>>
      /\ metrics'.disabledRoutesCount = g.disabledRoutesCount
      /\ metrics'.txsCacheSize = g.txsCacheSize
      /\ Balanced(g, haveTxSent) => Balanced(metrics', haveTxSent')
  BY <1>1, <1>4, <1>6, Adjusted
<1>8. /\ Of("ResetRouteSent") \in Event /\ <<Of("ResetRouteSent")>> \in Seq(Event)
      /\ q \o <<>> = q /\ q \o <<Of("ResetRouteSent")>> \in Seq(Event)
  <2>1. Of("ResetRouteSent") \in Event
    BY EventsTyped
  <2>2. <<Of("ResetRouteSent")>> \in Seq(Event)
    BY <2>1
  <2> QED
    BY <1>4, <2>1, <2>2, ConcatProperties, ConcatEmptySeq
<1>9. \E s \in {<<>>, <<Of("ResetRouteSent")>>} : events' = q \o s
  BY <1>7, <1>8
<1>10. events' \in Seq(Event)
  BY <1>4, <1>7, <1>8
<1>11. Balanced(metrics, haveTxSent) => Balanced(g, haveTxSent)
  BY <1>6 DEF Balanced
<1> QED
  BY <1>1, <1>2, <1>3, <1>6, <1>7, <1>9, <1>10, <1>11

\* A rule for the tail of the actions of the pool.
LEMMA PoolReadyTyped ==
  ASSUME TypeOK, PoolReady
  PROVE  /\ UNCHANGED <<timer, awake, told>>
         /\ pc = "pool" /\ pc' = "behaviour" /\ arrived' \in Nat
BY DEF TypeOK, PoolReady

\* The gauges after a handler has set some of them.
LEMMA GaugesTyped ==
  ASSUME NEW g \in Metrics, NEW n \in Nat
  PROVE  /\ [g EXCEPT !.peersCount = @ + 1] \in Metrics
         /\ [g EXCEPT !.txsCacheSize = n] \in Metrics
         /\ [g EXCEPT !.disabledRoutesCount = n] \in Metrics
         /\ [g EXCEPT !.txsCacheSize = n, !.haveTxSentCounts = @ + 1] \in Metrics
<1>1. [g EXCEPT !.peersCount = @ + 1] \in Metrics
  BY DEF Metrics
<1>2. [g EXCEPT !.txsCacheSize = n] \in Metrics
  BY DEF Metrics
<1>3. [g EXCEPT !.disabledRoutesCount = n] \in Metrics
  BY DEF Metrics
<1>4. [g EXCEPT !.txsCacheSize = n, !.haveTxSentCounts = @ + 1] \in Metrics
  <2>1. /\ g.peersCount \in Int /\ g.disabledRoutesCount \in Nat
        /\ g.haveTxSentCounts + 1 \in Nat /\ g.resetRouteSentCounts \in Nat
    BY DEF Metrics
  <2> DEFINE k == g.haveTxSentCounts + 1
  <2>2. [g EXCEPT !.txsCacheSize = n, !.haveTxSentCounts = @ + 1]
          = [g EXCEPT !.txsCacheSize = n, !.haveTxSentCounts = k]
    OBVIOUS
  <2>3. k \in Nat
    BY <2>1
  <2> HIDE DEF k
  <2>4. [g EXCEPT !.txsCacheSize = n, !.haveTxSentCounts = k] \in Metrics
    BY <2>3 DEF Metrics
  <2> QED
    BY <2>2, <2>4
<1> QED
  BY <1>1, <1>2, <1>3, <1>4

\* A cache that gained an entry at its end.
LEMMA CacheGrows ==
  ASSUME TypeOK, NEW c \in Unexpired, NEW tx \in Tx, NEW p \in Node
  PROVE  /\ Append(c, [id |-> tx, source |-> p]) \in Seq(CacheEntry)
         /\ Len(Append(c, [id |-> tx, source |-> p])) \in Nat
<1>1. c \in Seq(CacheEntry)
  BY UnexpiredTyped
<1>2. [id |-> tx, source |-> p] \in CacheEntry
  BY DEF CacheEntry
<1> QED
  BY <1>1, <1>2, AppendProperties, LenProperties

\* An rpc with a transaction, and what it does to each variable.
LEMMA ReceiveTransactionFacts ==
  ASSUME TypeOK, NEW p \in Peer, NEW tx \in Incoming, ReceiveTransaction(p, tx)
  PROVE  /\ UNCHANGED <<established, connections, seqno, disabled, timer, awake, told>>
         /\ pc' = "behaviour" /\ arrived' \in Nat
         /\ cache' \in Seq(CacheEntry) /\ ctl' \in Controller
         /\ haveTxSent' \in [Node -> Nat] /\ metrics' \in Metrics
         /\ \E s \in Seq(Event) :
              events' = events \o s /\ \A i \in DOMAIN s : s[i].kind # "RoutingUpdated"
         /\ metrics'.txsCacheSize = Len(cache')
         /\ metrics'.disabledRoutesCount = metrics.disabledRoutesCount
         /\ Balanced(metrics, haveTxSent) => Balanced(metrics', haveTxSent')
<1>1. PICK c \in Unexpired :
       \/ /\ cache' = Append(c, [id |-> tx, source |-> p])
          /\ ctl' = IncrFirstTime(ctl)
          /\ \E sent \in SentEvents(FilterValidRoutes(disabled, p,
                                      DOMAIN connections \ {p, tx.from})) :
               events' = Append(events, Of("TransactionReceived")) \o sent
          /\ metrics' = [metrics EXCEPT !.txsCacheSize = Len(cache')]
          /\ UNCHANGED haveTxSent
       \/ /\ cache' = c
          /\ ctl' = IncrDuplicate(ctl)
          /\ events' = Append(events, Of("TransactionReceived"))
          /\ metrics' = [metrics EXCEPT !.txsCacheSize = Len(cache')]
          /\ UNCHANGED haveTxSent
       \/ /\ cache' = c
          /\ ctl' = BlockHaveTx(IncrDuplicate(ctl))
          /\ haveTxSent' = RegisterHaveTxSent(haveTxSent, p)
          /\ events' = events \o <<Of("TransactionReceived"), Of("HaveTxSent")>>
          /\ metrics' = [metrics EXCEPT !.txsCacheSize = Len(cache'),
                                        !.haveTxSentCounts = @ + 1]
  BY DEF ReceiveTransaction
<1>2. /\ UNCHANGED <<established, connections, seqno, disabled, timer, awake, told>>
      /\ pc' = "behaviour" /\ arrived' \in Nat
  BY PoolReadyTyped DEF ReceiveTransaction, FromHandler
<1>3. tx \in Tx /\ p \in Node
  BY TaskAssumption DEF Incoming, Tx, Peer
<1>4. cache' \in Seq(CacheEntry) /\ Len(cache') \in Nat
  BY <1>1, <1>3, CacheGrows, UnexpiredTyped
<1>5. ctl' \in Controller
  BY <1>1, ControllerTypes DEF TypeOK
<1>6. /\ haveTxSent \in [Node -> Nat] /\ RegisterHaveTxSent(haveTxSent, p) \in [Node -> Nat]
      /\ metrics \in Metrics /\ events \in Seq(Event)
  BY <1>3 DEF TypeOK, RegisterHaveTxSent
<1>7. haveTxSent' \in [Node -> Nat]
  BY <1>1, <1>6
<1>8. /\ metrics' \in Metrics /\ metrics'.txsCacheSize = Len(cache')
      /\ metrics'.disabledRoutesCount = metrics.disabledRoutesCount
      /\ metrics'.resetRouteSentCounts = metrics.resetRouteSentCounts
      /\ \/ metrics'.haveTxSentCounts = metrics.haveTxSentCounts /\ UNCHANGED haveTxSent
         \/ /\ metrics'.haveTxSentCounts = metrics.haveTxSentCounts + 1
            /\ haveTxSent' = RegisterHaveTxSent(haveTxSent, p)
  <2>1. CASE metrics' = [metrics EXCEPT !.txsCacheSize = Len(cache')] /\ UNCHANGED haveTxSent
    BY <1>4, <1>6, <2>1, GaugesTyped DEF Metrics
  <2>2. CASE /\ metrics' = [metrics EXCEPT !.txsCacheSize = Len(cache'), !.haveTxSentCounts = @ + 1]
             /\ haveTxSent' = RegisterHaveTxSent(haveTxSent, p)
    BY <1>4, <1>6, <2>2, GaugesTyped DEF Metrics
  <2> QED
    BY <1>1, <2>1, <2>2
<1>9. \E s \in Seq(Event) :
        events' = events \o s /\ \A i \in DOMAIN s : s[i].kind # "RoutingUpdated"
  <2> DEFINE a == Of("TransactionReceived")
             b == Of("HaveTxSent")
  <2>1. /\ a \in Event /\ b \in Event
        /\ a.kind # "RoutingUpdated" /\ b.kind # "RoutingUpdated"
    BY EventsTyped
  <2> HIDE DEF a, b
  <2>2. <<a>> \in Seq(Event) /\ DOMAIN <<a>> = {1} /\ <<a>>[1] = a /\ Len(<<a>>) = 1
    BY <2>1
  <2>3. Append(events, a) = events \o <<a>>
    BY <1>6, <2>1, AppendIsConcat
  <2>4. CASE events' = events \o <<a, b>>
    <3>1. <<a, b>> \in Seq(Event) /\ \A i \in DOMAIN <<a, b>> : <<a, b>>[i].kind # "RoutingUpdated"
      BY <2>1, TwoEvents
    <3> QED
      BY <2>4, <3>1, Zenon
  <2>5. CASE events' = Append(events, a)
    BY <2>1, <2>2, <2>3, <2>5
  <2>6. ASSUME NEW targets, NEW sent \in SentEvents(targets), events' = Append(events, a) \o sent
        PROVE  \E s \in Seq(Event) :
                 events' = events \o s /\ \A i \in DOMAIN s : s[i].kind # "RoutingUpdated"
    <3>1. sent \in Seq(Event) /\ \A i \in DOMAIN sent : sent[i].kind # "RoutingUpdated"
      BY SentTyped
    <3> DEFINE s == <<a>> \o sent
    <3>2. events' = events \o s
      BY <1>6, <2>2, <2>3, <2>6, <3>1, ConcatAssociative
    <3>3. /\ s \in Seq(Event) /\ Len(sent) \in Nat /\ DOMAIN sent = 1 .. Len(sent)
          /\ DOMAIN s = 1 .. (1 + Len(sent))
          /\ \A i \in 1 .. (1 + Len(sent)) : s[i] = IF i <= 1 THEN a ELSE sent[i - 1]
      <4>1. /\ s \in Seq(Event) /\ Len(s) = 1 + Len(sent)
            /\ \A i \in 1 .. (1 + Len(sent)) : s[i] = IF i <= 1 THEN <<a>>[i] ELSE sent[i - 1]
        BY <2>2, <3>1, ConcatProperties
      <4>2. DOMAIN s = 1 .. (1 + Len(sent)) /\ Len(sent) \in Nat /\ DOMAIN sent = 1 .. Len(sent)
        BY <3>1, <4>1, LenProperties
      <4>3. \A i \in 1 .. (1 + Len(sent)) : i <= 1 => i = 1
        OBVIOUS
      <4> QED
        BY <2>2, <4>1, <4>2, <4>3
    <3> HIDE DEF s
    <3>4. \A i \in DOMAIN s : s[i].kind # "RoutingUpdated"
      <4>1. ASSUME NEW i \in DOMAIN s, ~ (i <= 1)
            PROVE  i - 1 \in DOMAIN sent /\ s[i] = sent[i - 1]
        BY <3>3, <4>1
      <4> QED
        BY <2>1, <3>1, <3>3, <4>1
    <3> QED
      BY <3>2, <3>3, <3>4
  <2> QED
    BY <1>1, <2>4, <2>5, <2>6 DEF a, b
<1>10. Balanced(metrics, haveTxSent) => Balanced(metrics', haveTxSent')
  <2>1. /\ SumFunctionOnSet(haveTxSent, Node) \in Nat
        /\ SumFunctionOnSet(RegisterHaveTxSent(haveTxSent, p), Node)
             = SumFunctionOnSet(haveTxSent, Node) + 1
    BY <1>3, <1>6, HaveTxTotal
  <2>2. metrics.haveTxSentCounts \in Nat /\ metrics.resetRouteSentCounts \in Nat
    BY <1>6 DEF Metrics
  <2> QED
    BY <1>8, <2>1, <2>2 DEF Balanced
<1> QED
  BY <1>2, <1>4, <1>5, <1>7, <1>8, <1>9, <1>10

\* The routes are reported, after another event.
LEMMA EventAndReport ==
  ASSUME NEW a \in Event, NEW routes \in [Route -> Nat]
  PROVE  /\ <<a, RoutingUpdated(routes)>> \in Seq(Event) /\ <<a, RoutingUpdated(routes)>> # <<>>
         /\ <<a, RoutingUpdated(routes)>>[Len(<<a, RoutingUpdated(routes)>>)].kind = "RoutingUpdated"
         /\ <<a, RoutingUpdated(routes)>>[Len(<<a, RoutingUpdated(routes)>>)].routes = routes
<1> DEFINE b == RoutingUpdated(routes)
<1>1. b \in Event /\ b.kind = "RoutingUpdated" /\ b.routes = routes
  BY EventsTyped
<1> HIDE DEF b
<1>2. <<a, b>> \in Seq(Event) /\ <<a, b>> # <<>> /\ <<a, b>>[Len(<<a, b>>)] = b
  BY <1>1, TwoEvents
<1> QED
  BY <1>1, <1>2 DEF b

\* A step reports the routes it leaves, as the last of the events it queues.
Reports == \E s \in Seq(Event) : /\ s # <<>> /\ events' = events \o s
                                /\ s[Len(s)].kind = "RoutingUpdated" /\ s[Len(s)].routes = disabled'

\* A step queues events, none of which is a report.
Quiet == \E s \in Seq(Event) :
           events' = events \o s /\ \A i \in DOMAIN s : s[i].kind # "RoutingUpdated"

\* One event that is not a report.
LEMMA OneEvent ==
  ASSUME TypeOK, NEW k \in {"TransactionReceived", "TransactionSent", "HaveTxReceived", "HaveTxSent",
                          "ResetRouteReceived", "ResetRouteSent"},
         events' = Append(events, Of(k)) \/ events' = events \o <<Of(k)>>
  PROVE  Quiet
<1> DEFINE a == Of(k)
<1>1. a \in Event /\ a.kind # "RoutingUpdated"
  BY EventsTyped
<1> HIDE DEF a
<1>2. events \in Seq(Event)
  BY DEF TypeOK
<1>3. Append(events, a) = events \o <<a>>
  BY <1>1, <1>2, AppendIsConcat
<1>4. <<a>> \in Seq(Event) /\ \A i \in DOMAIN <<a>> : <<a>>[i].kind # "RoutingUpdated"
  BY <1>1
<1> QED
  BY <1>3, <1>4 DEF Quiet, a

\* No event at all.
LEMMA NoEvent ==
  ASSUME TypeOK, UNCHANGED events
  PROVE  Quiet
<1>1. events \in Seq(Event) /\ <<>> \in Seq(Event) /\ DOMAIN <<>> = {}
  BY EmptySeq DEF TypeOK
<1>2. events \o <<>> = events
  BY <1>1, ConcatEmptySeq
<1> QED
  BY <1>1, <1>2 DEF Quiet

\* An rpc with a HaveTx, and what it does to each variable.
LEMMA ReceiveHaveTxFacts ==
  ASSUME TypeOK, NEW p \in Peer, NEW tx \in Incoming, ReceiveHaveTx(p, tx)
  PROVE  /\ UNCHANGED <<established, connections, cache, seqno, haveTxSent, ctl, timer, awake, told>>
         /\ pc' = "behaviour" /\ arrived' \in Nat
         /\ disabled' \in [Route -> Nat]
         /\ metrics' \in Metrics
         /\ metrics' = [metrics EXCEPT !.disabledRoutesCount = NumberOf(disabled')]
         /\ Reports
<1>1. /\ UNCHANGED <<established, connections, cache, seqno, haveTxSent, ctl, timer, awake, told>>
      /\ pc' = "behaviour" /\ arrived' \in Nat
  BY PoolReadyTyped DEF ReceiveHaveTx, FromHandler
<1>2. /\ events' = events \o <<Of("HaveTxReceived"), RoutingUpdated(disabled')>>
      /\ metrics' = [metrics EXCEPT !.disabledRoutesCount = NumberOf(disabled')]
      /\ \/ UNCHANGED disabled
         \/ \E i \in DOMAIN cache : disabled' = DisableRoute(disabled, cache[i].source, p)
  BY DEF ReceiveHaveTx
<1>3. disabled' \in [Route -> Nat]
  <2>1. disabled \in [Route -> Nat] /\ p \in Node /\ cache \in Seq(CacheEntry)
    BY DEF TypeOK, Peer, CacheEntry
  <2>2. \A i \in DOMAIN cache : cache[i].source \in Node
    <3>1. \A i \in DOMAIN cache : cache[i] \in CacheEntry
      BY <2>1, LenProperties, ElementOfSeq
    <3> QED
      BY <3>1 DEF CacheEntry
  <2>3. \A s \in Node : DisableRoute(disabled, s, p) \in [Route -> Nat]
    BY <2>1 DEF DisableRoute, Route
  <2> QED
    BY <1>2, <2>1, <2>2, <2>3
<1>4. metrics' \in Metrics
  BY <1>2, <1>3, NumberTyped, GaugesTyped DEF TypeOK
<1>5. Reports
  <2>1. Of("HaveTxReceived") \in Event
    BY EventsTyped
  <2> QED
    BY <1>2, <1>3, <2>1, EventAndReport DEF Reports
<1> QED
  BY <1>1, <1>2, <1>3, <1>4, <1>5

\* An rpc with a ResetRoute, and what it does to each variable.
LEMMA ReceiveResetRouteFacts ==
  ASSUME TypeOK, NEW p \in Peer, ReceiveResetRoute(p)
  PROVE  /\ UNCHANGED <<established, connections, cache, seqno, haveTxSent, ctl, timer, awake, told>>
         /\ pc' = "behaviour" /\ arrived' \in Nat
         /\ disabled' \in [Route -> Nat]
         /\ metrics' \in Metrics
         /\ \/ Quiet /\ UNCHANGED <<disabled, metrics>>
            \/ /\ Reports
               /\ metrics' = [metrics EXCEPT !.disabledRoutesCount = NumberOf(disabled')]
<1>1. /\ UNCHANGED <<established, connections, cache, seqno, haveTxSent, ctl, timer, awake, told>>
      /\ pc' = "behaviour" /\ arrived' \in Nat
  BY PoolReadyTyped DEF ReceiveResetRoute, FromHandler
<1>2. \/ /\ \E r \in ClosedRoutesTo(disabled, p) : disabled' = EnableRoute(disabled, r)
         /\ events' = events \o <<Of("ResetRouteReceived"), RoutingUpdated(disabled')>>
         /\ metrics' = [metrics EXCEPT !.disabledRoutesCount = NumberOf(disabled')]
      \/ /\ events' = Append(events, Of("ResetRouteReceived"))
         /\ UNCHANGED <<disabled, metrics>>
  BY DEF ReceiveResetRoute
<1>3. CASE events' = Append(events, Of("ResetRouteReceived")) /\ UNCHANGED <<disabled, metrics>>
  <2>1. Quiet
    BY <1>3, OneEvent
  <2> QED
    BY <1>1, <1>3, <2>1 DEF TypeOK
<1>4. ASSUME NEW r \in ClosedRoutesTo(disabled, p), disabled' = EnableRoute(disabled, r),
             events' = events \o <<Of("ResetRouteReceived"), RoutingUpdated(disabled')>>,
             metrics' = [metrics EXCEPT !.disabledRoutesCount = NumberOf(disabled')]
      PROVE  disabled' \in [Route -> Nat] /\ metrics' \in Metrics /\ Reports
  <2>1. disabled' \in [Route -> Nat]
    BY <1>4 DEF TypeOK, EnableRoute, ClosedRoutesTo
  <2>2. metrics' \in Metrics
    BY <1>4, <2>1, NumberTyped, GaugesTyped DEF TypeOK
  <2>3. Of("ResetRouteReceived") \in Event
    BY EventsTyped
  <2>4. Reports
    BY <1>4, <2>1, <2>3, EventAndReport DEF Reports
  <2> QED
    BY <2>1, <2>2, <2>4
<1> QED
  BY <1>1, <1>2, <1>3, <1>4

\* A transaction of the node itself.
LEMMA PublishFacts ==
  ASSUME TypeOK, Publish
  PROVE  /\ UNCHANGED <<established, connections, disabled, haveTxSent, ctl, timer, pc, arrived,
                        told>>
         /\ cache' \in Seq(CacheEntry) /\ seqno' \in Nat /\ awake' = TRUE /\ metrics' \in Metrics
         /\ metrics' = [metrics EXCEPT !.txsCacheSize = Len(cache')]
         /\ Quiet
<1>1. /\ UNCHANGED <<established, connections, disabled, haveTxSent, ctl, timer, pc, arrived, told>>
      /\ seqno' = seqno + 1 /\ awake' = TRUE
      /\ metrics' = [metrics EXCEPT !.txsCacheSize = Len(cache')]
  BY DEF Publish, router
<1>2. seqno' \in Nat
  BY <1>1 DEF TypeOK
<1>3. PICK c \in Unexpired : cache' = Append(c, [id |-> [from |-> Self, seqno |-> seqno'],
                                                 source |-> Self])
  BY DEF Publish
<1>4. cache' \in Seq(CacheEntry) /\ Len(cache') \in Nat
  <2>1. [from |-> Self, seqno |-> seqno'] \in Tx /\ Self \in Node
    BY <1>2, TaskAssumption DEF Tx
  <2> QED
    BY <1>3, <2>1, CacheGrows
<1>5. metrics' \in Metrics
  BY <1>1, <1>4, GaugesTyped DEF TypeOK
<1>6. \E sent \in SentEvents(FilterValidRoutes(disabled, Self, DOMAIN connections)) :
        events' = events \o sent
  BY DEF Publish
<1>7. Quiet
  BY <1>6, SentTyped DEF Quiet
<1> QED
  BY <1>1, <1>2, <1>4, <1>5, <1>7

-----------------------------------------------------------------------------
(* The connections of a peer.                                              *)

\* An id is pushed behind the others.
LEMMA IdPushed ==
  ASSUME NEW S, NEW s \in Seq(S), NEW c \in S
  PROVE  /\ s \o <<c>> \in Seq(S) /\ ToSet(s \o <<c>>) = ToSet(s) \cup {c}
         /\ IsInjective(s) /\ c \notin ToSet(s) => IsInjective(s \o <<c>>)
<1> DEFINE q == s \o <<c>>
<1>1. /\ q \in Seq(S) /\ Len(s) \in Nat /\ DOMAIN q = 1 .. (Len(s) + 1)
      /\ DOMAIN s = 1 .. Len(s) /\ \A i \in 1 .. Len(s) : q[i] = s[i]
      /\ q[Len(s) + 1] = c
  <2>1. q = Append(s, c)
    BY AppendIsConcat
  <2> QED
    BY <2>1, AppendProperties, LenProperties
<1> HIDE DEF q
<1>2. \A i \in DOMAIN q : i \in DOMAIN s \/ i = Len(s) + 1
  BY <1>1
<1>3. Len(s) + 1 \in DOMAIN q /\ DOMAIN s \subseteq DOMAIN q
  BY <1>1
<1>4. ToSet(q) = ToSet(s) \cup {c}
  BY <1>1, <1>2, <1>3 DEF ToSet
<1>5. ASSUME IsInjective(s), c \notin ToSet(s) PROVE IsInjective(q)
  <2>1. \A i \in DOMAIN s : s[i] # c
    BY <1>5 DEF ToSet
  <2> QED
    BY <1>1, <1>2, <1>5, <2>1 DEF IsInjective
<1> QED
  BY <1>1, <1>4, <1>5 DEF q

\* Ids(s, e): the Vec s holds exactly the connections e, each of them once.
Ids(s, e) == s \in Seq(ConnectionId) /\ ToSet(s) = e /\ IsInjective(s)

\* A new connection is known to its peer and to no other.
LEMMA EstablishedFacts ==
  ASSUME TypeOK, NEW p \in Peer, NEW c \in ConnectionId, ConnectionEstablished(p, c)
  PROVE  /\ UNCHANGED <<cache, seqno, disabled, haveTxSent, ctl, events, timer, awake, told>>
         /\ pc' = "behaviour" /\ arrived' \in Nat
         /\ metrics' = [metrics EXCEPT !.peersCount = @ + 1] /\ metrics' \in Metrics
         /\ established' = [established EXCEPT ![p] = @ \cup {c}]
         /\ established' \in [Peer -> SUBSET ConnectionId]
         /\ DOMAIN connections' = DOMAIN connections \cup {p}
         /\ \A q \in DOMAIN connections \ {p} : connections'[q] = connections[q]
         /\ connections'[p] = (IF p \in DOMAIN connections THEN connections[p] ELSE <<>>) \o <<c>>
         /\ \A q \in Peer : c \notin established[q]
<1>1. /\ UNCHANGED <<cache, seqno, disabled, haveTxSent, ctl, events>>
      /\ UNCHANGED <<timer, awake, told>>
      /\ pc' = "behaviour" /\ arrived' \in Nat
      /\ metrics' = [metrics EXCEPT !.peersCount = @ + 1]
      /\ established' = [established EXCEPT ![p] = @ \cup {c}]
      /\ \A q \in Peer : c \notin established[q]
  BY PoolReadyTyped DEF ConnectionEstablished, router
<1>2. connections' = [q \in DOMAIN connections \cup {p} |->
                        (IF q \in DOMAIN connections THEN connections[q] ELSE <<>>)
                          \o (IF q = p THEN <<c>> ELSE <<>>)]
  BY DEF ConnectionEstablished
<1>3. metrics' \in Metrics
  BY <1>1, GaugesTyped DEF TypeOK
<1>4. established' \in [Peer -> SUBSET ConnectionId]
  BY <1>1 DEF TypeOK
<1>5. DOMAIN connections' = DOMAIN connections \cup {p}
  BY <1>2
<1>6. ASSUME NEW q \in DOMAIN connections \ {p}
      PROVE  connections'[q] = connections[q]
  <2>1. connections'[q] = connections[q] \o <<>>
    BY <1>2
  <2>2. connections[q] \in Seq(ConnectionId)
    BY DEF TypeOK
  <2> QED
    BY <2>1, <2>2, ConcatEmptySeq
<1>7. connections'[p] = (IF p \in DOMAIN connections THEN connections[p] ELSE <<>>) \o <<c>>
  BY <1>2
<1> QED
  BY <1>1, <1>3, <1>4, <1>5, <1>6, <1>7

\* The Vecs of connected_peers after a step, whatever they held before.
LEMMA NextConnections ==
  ASSUME TypeOK, [Next]_vars
  PROVE  /\ established' \in [Peer -> SUBSET ConnectionId]
         /\ DOMAIN connections' \subseteq Peer
         /\ \A p \in DOMAIN connections' : connections'[p] \in Seq(ConnectionId)
         /\ ConnectionsTracked => ConnectionsTracked'
<1> DEFINE Goal == /\ established' \in [Peer -> SUBSET ConnectionId]
                   /\ DOMAIN connections' \subseteq Peer
                   /\ \A p \in DOMAIN connections' : connections'[p] \in Seq(ConnectionId)
                   /\ ConnectionsTracked => ConnectionsTracked'
<1>0. /\ established \in [Peer -> SUBSET ConnectionId] /\ DOMAIN connections \subseteq Peer
      /\ \A p \in DOMAIN connections : connections[p] \in Seq(ConnectionId)
  BY DEF TypeOK
<1>1. ASSUME UNCHANGED <<established, connections>> PROVE Goal
  BY <1>0, <1>1 DEF ConnectionsTracked
<1>2. ASSUME NEW p \in Peer, NEW c \in ConnectionId, ConnectionEstablished(p, c)
      PROVE  Goal
  <2> DEFINE s == IF p \in DOMAIN connections THEN connections[p] ELSE <<>>
  <2>1. /\ established' = [established EXCEPT ![p] = @ \cup {c}]
        /\ established' \in [Peer -> SUBSET ConnectionId]
        /\ DOMAIN connections' = DOMAIN connections \cup {p}
        /\ \A q \in DOMAIN connections \ {p} : connections'[q] = connections[q]
        /\ connections'[p] = s \o <<c>>
        /\ c \notin established[p]
    BY <1>2, EstablishedFacts
  <2>2. s \in Seq(ConnectionId)
    BY <1>0, EmptySeq
  <2>3. ToSet(<<>>) = {} /\ IsInjective(<<>>)
    <3>1. DOMAIN <<>> = {}
      BY EmptySeq
    <3> QED
      BY <3>1 DEF ToSet, IsInjective
  <2>4. ConnectionsTracked => Ids(s, established[p])
    BY <1>0, <2>2, <2>3 DEF ConnectionsTracked, Ids
  <2> HIDE DEF s
  <2>5. s \o <<c>> \in Seq(ConnectionId)
    BY <2>2, IdPushed
  <2>6. ConnectionsTracked => Ids(s \o <<c>>, established[p] \cup {c})
    BY <2>1, <2>2, <2>4, IdPushed DEF Ids
  <2>7. /\ \A q \in Peer \ {p} : established'[q] = established[q]
        /\ established'[p] = established[p] \cup {c}
    BY <1>0, <2>1
  <2>8. ASSUME ConnectionsTracked PROVE ConnectionsTracked'
    <3>1. DOMAIN connections' = {q \in Peer : established'[q] # {}}
      BY <2>1, <2>7, <2>8 DEF ConnectionsTracked
    <3>2. ASSUME NEW q \in DOMAIN connections'
          PROVE  ToSet(connections'[q]) = established'[q] /\ IsInjective(connections'[q])
      <4>1. CASE q = p
        BY <2>1, <2>6, <2>7, <2>8, <4>1 DEF Ids
      <4>2. CASE q # p
        <5>1. q \in DOMAIN connections /\ q \in Peer \ {p}
          BY <1>0, <2>1, <4>2
        <5> QED
          BY <2>1, <2>7, <2>8, <5>1 DEF ConnectionsTracked
      <4> QED
        BY <4>1, <4>2
    <3> QED
      BY <3>1, <3>2 DEF ConnectionsTracked
  <2>9. \A q \in DOMAIN connections' : connections'[q] \in Seq(ConnectionId)
    BY <1>0, <2>1, <2>5
  <2> QED
    BY <1>0, <2>1, <2>8, <2>9
<1>3. ASSUME NEW p \in Peer, NEW c \in ConnectionId, ConnectionClosed(p, c)
      PROVE  Goal
  <2>1. /\ c \in established[p] /\ established' = [established EXCEPT ![p] = @ \ {c}]
        /\ \/ /\ established'[p] # {}
              /\ connections' = [connections EXCEPT ![p] = Retain(@, c)]
           \/ /\ established'[p] = {}
              /\ connections' = Restrict(connections, DOMAIN connections \ {p})
    BY <1>3, ClosedSplits, LastClosedFacts
  <2>2. /\ established' \in [Peer -> SUBSET ConnectionId]
        /\ \A q \in Peer \ {p} : established'[q] = established[q]
        /\ established'[p] = established[p] \ {c}
    BY <1>0, <2>1
  <2>3. CASE /\ established'[p] # {}
             /\ connections' = [connections EXCEPT ![p] = Retain(@, c)]
    <3>1. /\ DOMAIN connections' = DOMAIN connections
          /\ \A q \in DOMAIN connections \ {p} : connections'[q] = connections[q]
          /\ p \in DOMAIN connections => connections'[p] = Retain(connections[p], c)
      BY <2>3
    <3>2. ASSUME p \in DOMAIN connections
          PROVE  /\ Retain(connections[p], c) \in Seq(ConnectionId)
                 /\ ToSet(Retain(connections[p], c)) = ToSet(connections[p]) \ {c}
                 /\ IsInjective(connections[p]) => IsInjective(Retain(connections[p], c))
      <4>1. connections[p] \in Seq(ConnectionId)
        BY <1>0, <3>2
      <4> QED
        BY <4>1, RetainProperties
    <3>3. \A q \in DOMAIN connections' : connections'[q] \in Seq(ConnectionId)
      BY <1>0, <3>1, <3>2
    <3>4. ASSUME ConnectionsTracked PROVE ConnectionsTracked'
      <4>1. DOMAIN connections' = {q \in Peer : established'[q] # {}}
        BY <2>1, <2>2, <2>3, <3>1, <3>4 DEF ConnectionsTracked
      <4>2. ASSUME NEW q \in DOMAIN connections'
            PROVE  ToSet(connections'[q]) = established'[q] /\ IsInjective(connections'[q])
        <5>1. CASE q = p
          BY <2>2, <3>1, <3>2, <3>4, <5>1 DEF ConnectionsTracked
        <5>2. CASE q # p
          BY <1>0, <2>2, <3>1, <3>4, <5>2 DEF ConnectionsTracked
        <5> QED
          BY <5>1, <5>2
      <4> QED
        BY <4>1, <4>2 DEF ConnectionsTracked
    <3> QED
      BY <1>0, <2>2, <3>1, <3>3, <3>4
  <2>4. CASE /\ established'[p] = {}
             /\ connections' = Restrict(connections, DOMAIN connections \ {p})
    <3>1. /\ DOMAIN connections' = DOMAIN connections \ {p}
          /\ \A q \in DOMAIN connections \ {p} : connections'[q] = connections[q]
      BY <2>4 DEF Restrict
    <3>2. ASSUME ConnectionsTracked PROVE ConnectionsTracked'
      <4>1. DOMAIN connections' = {q \in Peer : established'[q] # {}}
        BY <2>2, <2>4, <3>1, <3>2 DEF ConnectionsTracked
      <4>2. \A q \in DOMAIN connections' :
              ToSet(connections'[q]) = established'[q] /\ IsInjective(connections'[q])
        BY <1>0, <2>2, <3>1, <3>2 DEF ConnectionsTracked
      <4> QED
        BY <4>1, <4>2 DEF ConnectionsTracked
    <3> QED
      BY <1>0, <2>2, <3>1, <3>2
  <2> QED
    BY <2>1, <2>3, <2>4
<1>4. ASSUME NEW p \in Peer, NEW tx \in Incoming, ReceiveTransaction(p, tx) \/ ReceiveHaveTx(p, tx)
      PROVE  Goal
  BY <1>1, <1>4 DEF ReceiveTransaction, ReceiveHaveTx, FromHandler
<1>5. ASSUME NEW p \in Peer, ReceiveResetRoute(p)
      PROVE  Goal
  BY <1>1, <1>5 DEF ReceiveResetRoute, FromHandler
<1>6. CASE StartPoll \/ EmitEvent \/ PollTimer \/ PoolPending \/ NothingToHandle
  BY <1>1, <1>6 DEF StartPoll, EmitEvent, PollTimer, PoolPending, NothingToHandle, behaviour
<1>7. CASE Arrive \/ TimerElapses \/ Publish \/ UNCHANGED vars
  BY <1>1, <1>7 DEF Arrive, TimerElapses, Publish, vars, behaviour
<1> QED
  BY <1>2, <1>3, <1>4, <1>5, <1>6, <1>7, TaskSteps

\* The variables other than the connections, and their types.
Rest == <<cache, seqno, disabled, haveTxSent, ctl, events, metrics, timer, awake, pc, arrived, told>>
RestTyped ==
  /\ cache \in Seq(CacheEntry) /\ seqno \in Nat
  /\ disabled \in [Route -> Nat] /\ haveTxSent \in [Node -> Nat]
  /\ ctl \in Controller /\ events \in Seq(Event) /\ metrics \in Metrics
  /\ timer \in [elapsed : BOOLEAN, waker : BOOLEAN]
  /\ awake \in BOOLEAN /\ pc \in {"idle", "behaviour", "pool"}
  /\ arrived \in Nat
  /\ told \in [Route -> Nat]

\* An interval is handled only when no event is queued.
LEMMA PollTimerFacts ==
  ASSUME TypeOK, PollTimer
  PROVE  /\ UNCHANGED <<established, connections, cache, seqno, disabled, awake, arrived,
                        told>>
         /\ pc = "behaviour" /\ pc' = "pool" /\ events = <<>>
         /\ ctl' \in Controller /\ haveTxSent' \in [Node -> Nat] /\ metrics' \in Metrics
         /\ timer' \in [elapsed : BOOLEAN, waker : BOOLEAN]
         /\ events' \in Seq(Event) /\ Quiet
         /\ \/ events' = <<>>
            \/ events' = <<Of("ResetRouteSent")>> /\ ~timer'.waker
         /\ metrics'.disabledRoutesCount = metrics.disabledRoutesCount
         /\ metrics'.txsCacheSize = metrics.txsCacheSize
         /\ Balanced(metrics, haveTxSent) => Balanced(metrics', haveTxSent')
<1>1. /\ UNCHANGED <<established, connections, cache, seqno, disabled, awake, arrived,
                     told>>
      /\ pc = "behaviour" /\ pc' = "pool" /\ events = <<>>
  BY DEF PollTimer
<1>2. /\ events \in Seq(Event) /\ metrics \in Metrics /\ Of("ResetRouteSent") \in Event
      /\ <<Of("ResetRouteSent")>> \in Seq(Event)
      /\ events \o <<Of("ResetRouteSent")>> = <<Of("ResetRouteSent")>>
  <2>1. events \in Seq(Event) /\ metrics \in Metrics /\ Of("ResetRouteSent") \in Event
    BY EventsTyped DEF TypeOK
  <2>2. <<Of("ResetRouteSent")>> \in Seq(Event)
    BY <2>1
  <2> QED
    BY <1>1, <2>1, <2>2, ConcatEmptySeq
<1>3. CASE AdjustRedundancy(DOMAIN connections, events, metrics)
           /\ timer' = [elapsed |-> FALSE, waker |-> FALSE]
  <2>1. /\ ctl' \in Controller /\ haveTxSent' \in [Node -> Nat] /\ metrics' \in Metrics
        /\ \/ events' = events
           \/ events' = events \o <<Of("ResetRouteSent")>>
        /\ metrics'.disabledRoutesCount = metrics.disabledRoutesCount
        /\ metrics'.txsCacheSize = metrics.txsCacheSize
        /\ Balanced(metrics, haveTxSent) => Balanced(metrics', haveTxSent')
    BY <1>2, <1>3, Adjusted
  <2>2. Quiet
    BY <2>1, OneEvent, NoEvent
  <2>3. events' \in Seq(Event) /\ (events' = <<>> \/ events' = <<Of("ResetRouteSent")>>)
    BY <1>1, <1>2, <2>1
  <2>4. timer' \in [elapsed : BOOLEAN, waker : BOOLEAN] /\ ~timer'.waker
    BY <1>3
  <2> QED
    BY <1>1, <2>1, <2>2, <2>3, <2>4
<1>4. CASE timer' = [timer EXCEPT !.waker = TRUE] /\ UNCHANGED <<haveTxSent, ctl, events, metrics>>
  <2>1. timer' \in [elapsed : BOOLEAN, waker : BOOLEAN]
    BY <1>4 DEF TypeOK
  <2>2. Quiet
    BY <1>4, NoEvent
  <2>3. ctl \in Controller /\ haveTxSent \in [Node -> Nat]
    BY DEF TypeOK
  <2> QED
    BY <1>1, <1>2, <1>4, <2>1, <2>2, <2>3
<1> QED
  BY <1>3, <1>4 DEF PollTimer

\* The head of the queue is emitted.
LEMMA EmitEventFacts ==
  ASSUME TypeOK, EmitEvent
  PROVE  /\ UNCHANGED <<established, connections, cache, seqno, disabled, haveTxSent, ctl, metrics,
                        timer, awake, pc, arrived>>
         /\ pc = "behaviour" /\ events # <<>>
         /\ events' = Tail(events) /\ events' \in Seq(Event)
         /\ told' = IF Head(events).kind = "RoutingUpdated" THEN Head(events).routes ELSE told
         /\ told' \in [Route -> Nat]
<1>1. /\ UNCHANGED <<established, connections, cache, seqno, disabled, haveTxSent, ctl, metrics,
                     timer, awake, pc, arrived>>
      /\ pc = "behaviour" /\ events # <<>> /\ events' = Tail(events)
      /\ told' = IF Head(events).kind = "RoutingUpdated" THEN Head(events).routes ELSE told
  BY DEF EmitEvent, behaviour, router, task
<1>2. events \in Seq(Event) /\ told \in [Route -> Nat]
  BY DEF TypeOK
<1>3. Tail(events) \in Seq(Event) /\ Head(events) \in Event
  BY <1>1, <1>2, HeadTailProperties
<1>4. Head(events).kind = "RoutingUpdated" => Head(events).routes \in [Route -> Nat]
  BY <1>3 DEF Event
<1> QED
  BY <1>1, <1>2, <1>3, <1>4

\* Events that were queued are events.
LEMMA QueuedTyped ==
  ASSUME TypeOK, Quiet \/ Reports
  PROVE  events' \in Seq(Event)
<1>1. events \in Seq(Event)
  BY DEF TypeOK
<1>2. PICK s \in Seq(Event) : events' = events \o s
  BY DEF Quiet, Reports
<1> QED
  BY <1>1, <1>2, ConcatProperties

\* Every action keeps the types.
LEMMA NextTyped ==
  ASSUME TypeOK, [Next]_vars
  PROVE  TypeOK'
<1>0. RestTyped
  BY DEF TypeOK, RestTyped, CacheEntry
<1>1. ASSUME NEW p \in Peer, NEW c \in ConnectionId, ConnectionEstablished(p, c)
      PROVE  RestTyped'
  <2>1. /\ UNCHANGED <<cache, seqno, disabled, haveTxSent, ctl, events, timer, awake, told>>
        /\ pc' = "behaviour" /\ arrived' \in Nat /\ metrics' \in Metrics
    BY <1>1, EstablishedFacts
  <2> QED
    BY <1>0, <2>1 DEF RestTyped
<1>2. ASSUME NEW p \in Peer, NEW c \in ConnectionId, ConnectionClosed(p, c)
      PROVE  RestTyped'
  <2>1. /\ pc' = "behaviour" /\ arrived' = arrived - 1 /\ arrived > 0
        /\ UNCHANGED <<timer, awake, told, cache, seqno>>
        /\ UNCHANGED <<disabled, haveTxSent, ctl, events, metrics>> \/ LastClosed(p, c)
    BY <1>2, ClosedSplits
  <2>2. arrived' \in Nat
    BY <1>0, <2>1 DEF RestTyped
  <2>3. /\ disabled' \in [Route -> Nat] /\ haveTxSent' \in [Node -> Nat]
        /\ ctl' \in Controller /\ events' \in Seq(Event) /\ metrics' \in Metrics
    <3>1. CASE UNCHANGED <<disabled, haveTxSent, ctl, events, metrics>>
      BY <1>0, <3>1 DEF RestTyped
    <3>2. CASE LastClosed(p, c)
      BY <3>2, LastClosedFacts
    <3> QED
      BY <2>1, <3>1, <3>2
  <2> QED
    BY <1>0, <2>1, <2>2, <2>3 DEF RestTyped
<1>3. ASSUME NEW p \in Peer, NEW tx \in Incoming, ReceiveTransaction(p, tx)
      PROVE  RestTyped'
  <2>1. /\ UNCHANGED <<seqno, disabled, timer, awake, told>>
        /\ pc' = "behaviour" /\ arrived' \in Nat
        /\ cache' \in Seq(CacheEntry) /\ ctl' \in Controller
        /\ haveTxSent' \in [Node -> Nat] /\ metrics' \in Metrics
        /\ Quiet
    BY <1>3, ReceiveTransactionFacts DEF Quiet
  <2> QED
    BY <1>0, <2>1, QueuedTyped DEF RestTyped
<1>4. ASSUME NEW p \in Peer, NEW tx \in Incoming, ReceiveHaveTx(p, tx)
      PROVE  RestTyped'
  <2>1. /\ UNCHANGED <<cache, seqno, haveTxSent, ctl, timer, awake, told>>
        /\ pc' = "behaviour" /\ arrived' \in Nat
        /\ disabled' \in [Route -> Nat] /\ metrics' \in Metrics /\ Reports
    BY <1>4, ReceiveHaveTxFacts
  <2> QED
    BY <1>0, <2>1, QueuedTyped DEF RestTyped
<1>5. ASSUME NEW p \in Peer, ReceiveResetRoute(p)
      PROVE  RestTyped'
  <2>1. /\ UNCHANGED <<cache, seqno, haveTxSent, ctl, timer, awake, told>>
        /\ pc' = "behaviour" /\ arrived' \in Nat
        /\ disabled' \in [Route -> Nat] /\ metrics' \in Metrics /\ (Quiet \/ Reports)
    BY <1>5, ReceiveResetRouteFacts
  <2> QED
    BY <1>0, <2>1, QueuedTyped DEF RestTyped
<1>6. ASSUME Publish
      PROVE  RestTyped'
  <2>1. /\ UNCHANGED <<disabled, haveTxSent, ctl, timer, pc, arrived, told>>
        /\ cache' \in Seq(CacheEntry) /\ seqno' \in Nat /\ awake' = TRUE /\ metrics' \in Metrics
        /\ Quiet
    BY <1>6, PublishFacts
  <2> QED
    BY <1>0, <2>1, QueuedTyped DEF RestTyped
<1>7. ASSUME PollTimer
      PROVE  RestTyped'
  <2>1. /\ UNCHANGED <<cache, seqno, disabled, awake, arrived, told>>
        /\ pc' = "pool"
        /\ ctl' \in Controller /\ haveTxSent' \in [Node -> Nat] /\ metrics' \in Metrics
        /\ timer' \in [elapsed : BOOLEAN, waker : BOOLEAN] /\ events' \in Seq(Event)
    BY <1>7, PollTimerFacts
  <2> QED
    BY <1>0, <2>1 DEF RestTyped
<1>8. ASSUME EmitEvent
      PROVE  RestTyped'
  <2>1. /\ UNCHANGED <<cache, seqno, disabled, haveTxSent, ctl, metrics, timer, awake, pc, arrived>>
        /\ events' \in Seq(Event) /\ told' \in [Route -> Nat]
    BY <1>8, EmitEventFacts
  <2> QED
    BY <1>0, <2>1 DEF RestTyped
<1>9. ASSUME StartPoll \/ PoolPending
      PROVE  RestTyped'
  <2>1. /\ UNCHANGED <<cache, seqno, disabled, haveTxSent, ctl, events, metrics, timer, arrived,
                       told>>
        /\ pc' \in {"idle", "behaviour"} /\ (awake' = FALSE \/ awake' = awake)
    BY <1>9 DEF StartPoll, PoolPending, behaviour, router
  <2> QED
    BY <1>0, <2>1 DEF RestTyped
<1>10. ASSUME Arrive
      PROVE  RestTyped'
  <2>1. /\ UNCHANGED <<cache, seqno, disabled, haveTxSent, ctl, events, metrics, timer, pc, told>>
        /\ awake' = TRUE /\ arrived' = arrived + 1
    BY <1>10 DEF Arrive, behaviour, router
  <2> QED
    BY <1>0, <2>1 DEF RestTyped
<1>11. ASSUME TimerElapses
      PROVE  RestTyped'
  <2>1. /\ UNCHANGED <<cache, seqno, disabled, haveTxSent, ctl, events, metrics, pc, arrived, told>>
        /\ timer' = [elapsed |-> TRUE, waker |-> FALSE] /\ awake' = (awake \/ timer.waker)
    BY <1>11 DEF TimerElapses, behaviour, router
  <2>2. awake' \in BOOLEAN
    BY <2>1
  <2> QED
    BY <1>0, <2>1, <2>2 DEF RestTyped
<1>12. ASSUME UNCHANGED vars
      PROVE  RestTyped'
  <2>1. UNCHANGED Rest
    BY <1>12 DEF vars, behaviour, router, task, Rest
  <2> QED
    BY <1>0, <2>1 DEF RestTyped, Rest
<1>13. ASSUME NothingToHandle
       PROVE  RestTyped'
  <2>1. /\ UNCHANGED <<cache, seqno, disabled, haveTxSent, ctl, events, metrics, timer, awake, told>>
        /\ pc' = "behaviour" /\ arrived' \in Nat
    BY <1>13, PoolReadyTyped DEF NothingToHandle, behaviour, router
  <2> QED
    BY <1>0, <2>1 DEF RestTyped
<1>14. RestTyped'
  BY <1>1, <1>2, <1>3, <1>4, <1>5, <1>6, <1>7, <1>8, <1>9, <1>10, <1>11, <1>12, <1>13, TaskSteps
<1> QED
  BY <1>14, ChangesTyped, NextConnections DEF TypeOK, RestTyped, CacheEntry

-----------------------------------------------------------------------------
(* The invariants, action by action.                                       *)

\* Every handler reports the routes that it changes.
LEMMA NextReported ==
  ASSUME TypeOK, [Next]_vars, Reported(events, disabled, told)
  PROVE  Reported(events', disabled', told')
<1>0. events \in Seq(Event)
  BY DEF TypeOK
<1>1. ASSUME Quiet, UNCHANGED <<disabled, told>>
      PROVE  Reported(events', disabled', told')
  <2>1. PICK s \in Seq(Event) :
          events' = events \o s /\ \A i \in DOMAIN s : s[i].kind # "RoutingUpdated"
    BY <1>1 DEF Quiet
  <2>2. Reported(events \o s, disabled, told)
    BY <1>0, <2>1, QuietEvents
  <2> QED
    BY <1>1, <2>1, <2>2
<1>2. ASSUME Reports
      PROVE  Reported(events', disabled', told')
  <2>1. PICK s \in Seq(Event) :
          /\ s # <<>> /\ events' = events \o s
          /\ s[Len(s)].kind = "RoutingUpdated" /\ s[Len(s)].routes = disabled'
    BY <1>2 DEF Reports
  <2>2. Reported(events \o s, disabled', told')
    BY <1>0, <2>1, ReportedLast
  <2> QED
    BY <2>1, <2>2
<1>3. CASE EmitEvent
  <2>1. /\ events # <<>> /\ events' = Tail(events) /\ disabled' = disabled
        /\ told' = IF Head(events).kind = "RoutingUpdated" THEN Head(events).routes ELSE told
    BY <1>3, EmitEventFacts
  <2> QED
    BY <1>0, <2>1, ReportEmitted
<1>4. CASE \/ StartPoll \/ PoolPending \/ NothingToHandle \/ Arrive \/ TimerElapses
          \/ UNCHANGED vars
  <2>1. UNCHANGED <<events, disabled, told>>
    BY <1>4 DEF StartPoll, PoolPending, NothingToHandle, PoolReady, Arrive, TimerElapses, vars,
       behaviour, router
  <2> QED
    BY <2>1
<1>5. CASE PollTimer
  BY <1>1, <1>5, PollTimerFacts
<1>6. CASE Publish
  BY <1>1, <1>6, PublishFacts
<1>7. ASSUME NEW p \in Peer, NEW c \in ConnectionId, ConnectionEstablished(p, c)
      PROVE  Reported(events', disabled', told')
  <2>1. UNCHANGED <<events, disabled, told>>
    BY <1>7, EstablishedFacts
  <2> QED
    BY <2>1
<1>8. ASSUME NEW p \in Peer, NEW c \in ConnectionId, ConnectionClosed(p, c)
      PROVE  Reported(events', disabled', told')
  <2>1. /\ told' = told
        /\ UNCHANGED <<disabled, haveTxSent, ctl, events, metrics>> \/ LastClosed(p, c)
    BY <1>8, ClosedSplits
  <2>2. CASE UNCHANGED <<disabled, haveTxSent, ctl, events, metrics>>
    BY <2>1, <2>2
  <2>3. CASE LastClosed(p, c)
    <3>1. PICK s \in {<<>>, <<Of("ResetRouteSent")>>} :
            \/ disabled' = disabled /\ events' = events \o s
            \/ events' = (events \o <<RoutingUpdated(disabled')>>) \o s
      BY <2>3, LastClosedFacts
    <3>2. disabled' \in [Route -> Nat]
      BY <2>3, LastClosedFacts
    <3>3. s \in Seq(Event) /\ \A i \in DOMAIN s : s[i].kind # "RoutingUpdated"
      <4> DEFINE a == Of("ResetRouteSent")
      <4>1. a \in Event /\ a.kind # "RoutingUpdated"
        BY EventsTyped
      <4> HIDE DEF a
      <4>2. <<a>> \in Seq(Event) /\ \A i \in DOMAIN <<a>> : <<a>>[i].kind # "RoutingUpdated"
        BY <4>1
      <4>3. <<>> \in Seq(Event) /\ DOMAIN <<>> = {}
        BY EmptySeq
      <4> QED
        BY <4>2, <4>3 DEF a
    <3>4. CASE disabled' = disabled /\ events' = events \o s
      BY <1>0, <2>1, <3>3, <3>4, QuietEvents
    <3>5. CASE events' = (events \o <<RoutingUpdated(disabled')>>) \o s
      <4> DEFINE r == <<RoutingUpdated(disabled')>>
      <4>1. /\ r \in Seq(Event) /\ r # <<>> /\ r[Len(r)].kind = "RoutingUpdated"
            /\ r[Len(r)].routes = disabled'
        BY <3>2, EventsTyped
      <4> HIDE DEF r
      <4>2. events \o r \in Seq(Event) /\ Reported(events \o r, disabled', told')
        BY <1>0, <4>1, ReportedLast
      <4>3. Reported((events \o r) \o s, disabled', told')
        BY <3>3, <4>2, QuietEvents
      <4> QED
        BY <3>5, <4>3 DEF r
    <3> QED
      BY <3>1, <3>4, <3>5
  <2> QED
    BY <2>1, <2>2, <2>3
<1>9. ASSUME NEW p \in Peer, NEW tx \in Incoming, ReceiveTransaction(p, tx)
      PROVE  Reported(events', disabled', told')
  BY <1>1, <1>9, ReceiveTransactionFacts DEF Quiet
<1>10. ASSUME NEW p \in Peer, NEW tx \in Incoming, ReceiveHaveTx(p, tx)
       PROVE  Reported(events', disabled', told')
  BY <1>2, <1>10, ReceiveHaveTxFacts
<1>11. ASSUME NEW p \in Peer, ReceiveResetRoute(p)
       PROVE  Reported(events', disabled', told')
  BY <1>1, <1>2, <1>11, ReceiveResetRouteFacts
<1> QED
  BY <1>3, <1>4, <1>5, <1>6, <1>7, <1>8, <1>9, <1>10, <1>11, TaskSteps

\* A gauge that shows a total is set whenever the table behind it changes.
LEMMA NextMetrics ==
  ASSUME TypeOK, [Next]_vars, MetricsAgree
  PROVE  MetricsAgree'
<1> DEFINE Goal == /\ metrics'.disabledRoutesCount = NumberOf(disabled')
                   /\ metrics'.txsCacheSize = Len(cache')
                   /\ Balanced(metrics', haveTxSent')
<1>0. /\ metrics.disabledRoutesCount = NumberOf(disabled)
      /\ metrics.txsCacheSize = Len(cache)
      /\ Balanced(metrics, haveTxSent)
      /\ metrics \in Metrics
  BY DEF MetricsAgree, Balanced, TypeOK
<1> SUFFICES Goal
  BY DEF MetricsAgree, Balanced, NumberOf
<1>1. ASSUME UNCHANGED <<metrics, disabled, cache, haveTxSent>> PROVE Goal
  BY <1>0, <1>1
<1>2. CASE \/ StartPoll \/ EmitEvent \/ PoolPending \/ NothingToHandle \/ Arrive \/ TimerElapses
          \/ UNCHANGED vars
  <2>1. UNCHANGED <<metrics, disabled, cache, haveTxSent>>
    BY <1>2 DEF StartPoll, EmitEvent, PoolPending, NothingToHandle, Arrive, TimerElapses, vars,
       behaviour, router
  <2> QED
    BY <1>1, <2>1
<1>3. CASE PollTimer
  BY <1>0, <1>3, PollTimerFacts
<1>4. CASE Publish
  <2>1. /\ UNCHANGED <<disabled, haveTxSent>>
        /\ metrics' = [metrics EXCEPT !.txsCacheSize = Len(cache')]
    BY <1>4, PublishFacts
  <2> QED
    BY <1>0, <2>1 DEF Balanced, Metrics
<1>5. ASSUME NEW p \in Peer, NEW c \in ConnectionId, ConnectionEstablished(p, c)
      PROVE  Goal
  <2>1. /\ UNCHANGED <<cache, disabled, haveTxSent>>
        /\ metrics' = [metrics EXCEPT !.peersCount = @ + 1]
    BY <1>5, EstablishedFacts
  <2> QED
    BY <1>0, <2>1 DEF Balanced, Metrics
<1>6. ASSUME NEW p \in Peer, NEW c \in ConnectionId, ConnectionClosed(p, c)
      PROVE  Goal
  <2>1. /\ cache' = cache
        /\ UNCHANGED <<disabled, haveTxSent, ctl, events, metrics>> \/ LastClosed(p, c)
    BY <1>6, ClosedSplits
  <2>2. CASE UNCHANGED <<disabled, haveTxSent, ctl, events, metrics>>
    BY <1>1, <2>1, <2>2
  <2>3. CASE LastClosed(p, c)
    BY <1>0, <2>1, <2>3, LastClosedFacts
  <2> QED
    BY <2>1, <2>2, <2>3
<1>7. ASSUME NEW p \in Peer, NEW tx \in Incoming, ReceiveTransaction(p, tx)
      PROVE  Goal
  BY <1>0, <1>7, ReceiveTransactionFacts
<1>8. ASSUME NEW p \in Peer, NEW tx \in Incoming, ReceiveHaveTx(p, tx)
      PROVE  Goal
  <2>1. /\ UNCHANGED <<cache, haveTxSent>>
        /\ metrics' = [metrics EXCEPT !.disabledRoutesCount = NumberOf(disabled')]
    BY <1>8, ReceiveHaveTxFacts
  <2> QED
    BY <1>0, <2>1 DEF Balanced, Metrics
<1>9. ASSUME NEW p \in Peer, ReceiveResetRoute(p)
      PROVE  Goal
  <2>1. /\ UNCHANGED <<cache, haveTxSent>>
        /\ \/ UNCHANGED <<disabled, metrics>>
           \/ metrics' = [metrics EXCEPT !.disabledRoutesCount = NumberOf(disabled')]
    BY <1>9, ReceiveResetRouteFacts
  <2> QED
    BY <1>0, <1>1, <2>1 DEF Balanced, Metrics
<1> QED
  BY <1>2, <1>3, <1>4, <1>5, <1>6, <1>7, <1>8, <1>9, TaskSteps

\* The inductive invariant of SleepsOnlyOnReset: already while the pool is
\* polled, nothing but the ResetRouteSent of the interval can be queued, unless
\* the task has been woken.
LeftInQueue ==
  pc \in {"pool", "idle"} /\ ~awake /\ events # <<>>
    => events = <<Of("ResetRouteSent")>> /\ ~timer.waker

\* The behaviour gives way to the pool with an empty queue, up to the reset.
LEMMA NextLeft ==
  ASSUME TypeOK, [Next]_vars, LeftInQueue
  PROVE  LeftInQueue'
<1>1. ASSUME pc' = "behaviour" \/ awake' = TRUE PROVE LeftInQueue'
  BY <1>1 DEF LeftInQueue
<1>2. CASE PollTimer
  BY <1>2, PollTimerFacts DEF LeftInQueue
<1>3. CASE EmitEvent
  BY <1>1, <1>3, EmitEventFacts
<1>4. CASE PoolPending
  BY <1>4 DEF LeftInQueue, PoolPending
<1>5. CASE StartPoll \/ Arrive \/ Publish
  BY <1>1, <1>5 DEF StartPoll, Arrive, Publish
<1>6. CASE TimerElapses
  BY <1>6 DEF LeftInQueue, TimerElapses, TypeOK
<1>7. CASE UNCHANGED vars
  BY <1>7 DEF LeftInQueue, vars, task
<1>8. ASSUME PoolReady PROVE LeftInQueue'
  BY <1>1, <1>8 DEF PoolReady
<1>9. ASSUME NEW p \in Peer
      PROVE  /\ \A c \in ConnectionId :
                  ConnectionEstablished(p, c) \/ ConnectionClosed(p, c) => PoolReady
             /\ \A tx \in Incoming : ReceiveTransaction(p, tx) \/ ReceiveHaveTx(p, tx) => PoolReady
             /\ ReceiveResetRoute(p) => PoolReady
  BY DEF ConnectionEstablished, ConnectionClosed, ReceiveTransaction, ReceiveHaveTx,
         ReceiveResetRoute, FromHandler
<1>10. NothingToHandle => PoolReady
  BY DEF NothingToHandle
<1> QED
  BY <1>2, <1>3, <1>4, <1>5, <1>6, <1>7, <1>8, <1>9, <1>10, TaskSteps

\* A node that has just started.
LEMMA InitHolds ==
  ASSUME Init
  PROVE  /\ TypeOK /\ ConnectionsTracked /\ MetricsAgree /\ LeftInQueue
         /\ Reported(events, disabled, told)
<1>1. /\ <<>> \in Seq(Event) /\ <<>> \in Seq(CacheEntry) /\ DOMAIN <<>> = {} /\ Len(<<>>) = 0
  BY EmptySeq
<1>2. NewController \in Controller /\ NoRoutes \in [Route -> Nat] /\ NoHaveTxSent \in [Node -> Nat]
  <2>1. NewController \in Controller
    BY DEF Controller, NewController
  <2> QED
    BY <2>1 DEF NoRoutes, NoHaveTxSent
<1>3. TypeOK
  BY <1>1, <1>2 DEF Init, TypeOK, CacheEntry, Metrics, NewMetrics
<1>4. ConnectionsTracked
  BY <1>1 DEF Init, ConnectionsTracked
<1>5. NumberOf(NoRoutes) = 0
  <2>1. \A r \in Route : NoRoutes[r] = 0
    BY DEF NoRoutes
  <2> QED
    BY <2>1, TablesFinite, SumOfNaturals DEF NumberOf
<1>6. SumFunctionOnSet(NoHaveTxSent, Node) = 0
  <2>1. \A p \in Node : NoHaveTxSent[p] = 0
    BY DEF NoHaveTxSent
  <2> QED
    BY <2>1, TablesFinite, SumOfNaturals
<1>7. MetricsAgree
  BY <1>1, <1>5, <1>6 DEF Init, MetricsAgree, NewMetrics
<1>8. LeftInQueue
  BY DEF Init, LeftInQueue
<1>9. Reported(events, disabled, told)
  BY <1>1 DEF Init, Reported
<1> QED
  BY <1>3, <1>4, <1>7, <1>8, <1>9

-----------------------------------------------------------------------------
(* The theorems.                                                           *)

\* Every variable of the task keeps its type: no gauge of a size is set below
\* zero, by any handler of behaviour.rs.
THEOREM TaskTypes == Spec => []TypeOK
<1>1. Init => TypeOK
  BY InitHolds
<1>2. TypeOK /\ [Next]_vars => TypeOK'
  BY NextTyped
<1> QED
  BY <1>1, <1>2, PTL DEF Spec

\* connected_peers holds exactly the connections of the swarm, each once, in
\* whatever order on_connection_established and on_connection_closed come.
THEOREM ConnectionsAreTracked == Spec => []ConnectionsTracked
<1>1. Init => ConnectionsTracked
  BY InitHolds
<1>2. TypeOK /\ ConnectionsTracked /\ [Next]_vars => ConnectionsTracked'
  BY NextConnections
<1> QED
  BY <1>1, <1>2, TaskTypes, PTL DEF Spec

\* The last report of the routing table, queued or emitted, is the table.
THEOREM RoutingIsReported == Spec => []RoutingReported
<1>1. Init => Reported(events, disabled, told)
  BY InitHolds
<1>2. TypeOK /\ Reported(events, disabled, told) /\ [Next]_vars => Reported(events, disabled, told)'
  BY NextReported
<1>3. Reported(events, disabled, told) => RoutingReported
  BY DEF Reported, RoutingReported
<1> QED
  BY <1>1, <1>2, <1>3, TaskTypes, PTL DEF Spec

\* The gauges of metrics.rs show the tables that they name, and the counters of
\* HaveTx and ResetRoute differ by the HaveTx that are registered.
THEOREM MetricsAlwaysAgree == Spec => []MetricsAgree
<1>1. Init => MetricsAgree
  BY InitHolds
<1>2. TypeOK /\ MetricsAgree /\ [Next]_vars => MetricsAgree'
  BY NextMetrics
<1> QED
  BY <1>1, <1>2, TaskTypes, PTL DEF Spec

\* The task sleeps with an event queued only after an interval whose handling
\* sent a ResetRoute: no event of a handler or of publish is left behind.
THEOREM QueueIsDrained == Spec => []SleepsOnlyOnReset
<1>1. Init => LeftInQueue
  BY InitHolds
<1>2. TypeOK /\ LeftInQueue /\ [Next]_vars => LeftInQueue'
  BY NextLeft
<1>3. LeftInQueue => SleepsOnlyOnReset
  BY DEF LeftInQueue, SleepsOnlyOnReset
<1> QED
  BY <1>1, <1>2, <1>3, TaskTypes, PTL DEF Spec
=============================================================================
