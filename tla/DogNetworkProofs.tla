-------------------------- MODULE DogNetworkProofs --------------------------
(***************************************************************************)
(* Proofs about DogNetwork, for every set of nodes, every topology and     *)
(* every value of the bounds: its types, that closed routes lead to        *)
(* connected peers, and that they can be opened again; how a transaction   *)
(* spreads while its cache entries live; that the numbers which publish    *)
(* hands out are new, and that the network implements Broadcast.           *)
(***************************************************************************)
EXTENDS DogNetwork, DogRouterProofs, FiniteSetTheorems, SequenceTheorems, TLAPS

-----------------------------------------------------------------------------
(* The operators on sequences.                                             *)

\* What taking a message out of a channel leaves: the others, in order.
LEMMA RemoveAtElements ==
  ASSUME NEW S, NEW q \in Seq(S), NEW i \in DOMAIN q
  PROVE  /\ RemoveAt(q, i) \in Seq(S)
         /\ Len(RemoveAt(q, i)) = Len(q) - 1
         /\ \A j \in DOMAIN RemoveAt(q, i) :
              RemoveAt(q, i)[j] = IF j < i THEN q[j] ELSE q[j + 1]
<1>1. i \in 1 .. Len(q) /\ Len(q) \in Nat
  OBVIOUS
<1>2. SubSeq(q, 1, i - 1) \in Seq(S) /\ Len(SubSeq(q, 1, i - 1)) = i - 1
  BY <1>1
<1>3. SubSeq(q, i + 1, Len(q)) \in Seq(S) /\ Len(SubSeq(q, i + 1, Len(q))) = Len(q) - i
  BY <1>1
<1>4. \A j \in 1 .. (i - 1) : SubSeq(q, 1, i - 1)[j] = q[j]
  BY <1>1
<1>5. \A j \in 1 .. (Len(q) - i) : SubSeq(q, i + 1, Len(q))[j] = q[j + i]
  BY <1>1
<1> DEFINE u == SubSeq(q, 1, i - 1)
           v == SubSeq(q, i + 1, Len(q))
<1>6. RemoveAt(q, i) = u \o v
  BY DEF RemoveAt
<1>7. /\ u \in Seq(S) /\ v \in Seq(S)
      /\ Len(u) = i - 1 /\ Len(v) = Len(q) - i /\ Len(u) \in Nat /\ Len(v) \in Nat
      /\ \A j \in 1 .. (i - 1) : u[j] = q[j]
      /\ \A j \in 1 .. (Len(q) - i) : v[j] = q[j + i]
  <2>1. /\ u \in Seq(S) /\ v \in Seq(S)
        /\ Len(u) = i - 1 /\ Len(v) = Len(q) - i
        /\ \A j \in 1 .. (i - 1) : u[j] = q[j]
        /\ \A j \in 1 .. (Len(q) - i) : v[j] = q[j + i]
    BY <1>2, <1>3, <1>4, <1>5, Zenon
  <2>2. i - 1 \in Nat /\ Len(q) - i \in Nat
    BY <1>1
  <2> HIDE DEF u, v
  <2> QED
    BY <2>1, <2>2
<1> DEFINE w == u \o v
<1>8. /\ w \in Seq(S)
      /\ Len(w) = Len(u) + Len(v)
      /\ \A j \in 1 .. (Len(u) + Len(v)) :
           w[j] = IF j <= Len(u) THEN u[j] ELSE v[j - Len(u)]
  <2> HIDE DEF u, v
  <2> QED
    BY <1>7
<1> HIDE DEF u, v, w
<1>9. ASSUME NEW j \in 1 .. (Len(q) - 1)
      PROVE  w[j] = IF j < i THEN q[j] ELSE q[j + 1]
  <2>1. CASE j < i
    <3>1. j \in 1 .. (Len(u) + Len(v)) /\ j <= Len(u) /\ j \in 1 .. (i - 1)
      BY <2>1, <1>1, <1>7
    <3> QED
      BY <2>1, <3>1, <1>7, <1>8
  <2>2. CASE ~(j < i)
    <3>1. j \in 1 .. (Len(u) + Len(v)) /\ ~(j <= Len(u))
      BY <2>2, <1>1, <1>7
    <3>2. j - Len(u) \in 1 .. (Len(q) - i) /\ (j - Len(u)) + i = j + 1
      BY <2>2, <1>1, <1>7
    <3>3. w[j] = v[j - Len(u)]
      BY <3>1, <1>8
    <3>4. v[j - Len(u)] = q[(j - Len(u)) + i]
      BY <3>2, <1>7
    <3> QED
      BY <2>2, <3>2, <3>3, <3>4
  <2> QED
    BY <2>1, <2>2
<1>10. Len(w) = Len(q) - 1 /\ DOMAIN w = 1 .. (Len(q) - 1)
  BY <1>1, <1>7, <1>8
<1>11. RemoveAt(q, i) = w
  BY <1>6 DEF w
<1> QED
  BY <1>8, <1>9, <1>10, <1>11

\* What the expiry of a prefix leaves of a cache.
LEMMA SuffixElements ==
  ASSUME NEW S, NEW q \in Seq(S), NEW k \in 0 .. Len(q)
  PROVE  /\ SubSeq(q, k + 1, Len(q)) \in Seq(S)
         /\ Len(SubSeq(q, k + 1, Len(q))) = Len(q) - k
         /\ \A j \in DOMAIN SubSeq(q, k + 1, Len(q)) :
              j + k \in DOMAIN q /\ SubSeq(q, k + 1, Len(q))[j] = q[j + k]
  OBVIOUS

\* Take keeps the type of the channels and brings no new message.
LEMMA TakeProperties ==
  ASSUME NEW ch \in [Link -> Seq(Message)], NEW l \in Link, NEW i \in DOMAIN ch[l]
  PROVE  /\ Take(ch, l, i) \in [Link -> Seq(Message)]
         /\ \A k \in Link \ {l} : Take(ch, l, i)[k] = ch[k]
         /\ \A j \in DOMAIN Take(ch, l, i)[l] :
              \E m \in DOMAIN ch[l] : Take(ch, l, i)[l][j] = ch[l][m]
<1>1. Take(ch, l, i) = [ch EXCEPT ![l] = RemoveAt(ch[l], i)]
  BY DEF Take
<1>2. ch[l] \in Seq(Message)
  OBVIOUS
<1>3. /\ RemoveAt(ch[l], i) \in Seq(Message)
      /\ Len(RemoveAt(ch[l], i)) = Len(ch[l]) - 1
      /\ \A j \in DOMAIN RemoveAt(ch[l], i) :
           RemoveAt(ch[l], i)[j] = IF j < i THEN ch[l][j] ELSE ch[l][j + 1]
  BY <1>2, RemoveAtElements
<1>4. \A j \in DOMAIN RemoveAt(ch[l], i) :
        \E m \in DOMAIN ch[l] : RemoveAt(ch[l], i)[j] = ch[l][m]
  BY <1>2, <1>3
<1> QED
  BY <1>1, <1>3, <1>4

\* Send keeps the type of the channels and only appends the message.
LEMMA SendProperties ==
  ASSUME NEW ch \in [Link -> Seq(Message)], NEW n \in Node, NEW to, NEW m \in Message
  PROVE  /\ Send(ch, n, to, m) \in [Link -> Seq(Message)]
         /\ \A l \in Link : \A j \in DOMAIN Send(ch, n, to, m)[l] :
              \/ j \in DOMAIN ch[l] /\ Send(ch, n, to, m)[l][j] = ch[l][j]
              \/ /\ l[1] = n /\ l[2] \in to
                 /\ j = Len(ch[l]) + 1
                 /\ Send(ch, n, to, m)[l][j] = m
  BY DEF Send, Link

\* remove_expired_values leaves entries that were in the cache.
LEMMA UnexpiredProperties ==
  ASSUME NEW q \in Seq(CacheEntry), NEW r \in Unexpired(q)
  PROVE  /\ r \in Seq(CacheEntry)
         /\ \A j \in DOMAIN r : \E k \in DOMAIN q : r[j] = q[k]
<1>1. PICK k \in 0 .. Len(q) : r = SubSeq(q, k + 1, Len(q))
  BY DEF Unexpired
<1> QED
  BY <1>1, SuffixElements

-----------------------------------------------------------------------------
(* Types.                                                                  *)

\* A message that is not a ResetRoute carries a transaction.
LEMMA MessageTx ==
  ASSUME NEW m \in Message, m.kind # "ResetRoute"
  PROVE  m.tx \in Tx
  BY DEF Message

\* The messages the behaviour builds.
LEMMA NewMessages ==
  /\ \A tx \in Tx : [kind |-> "Publish", tx |-> tx] \in Message
  /\ \A tx \in Tx : [kind |-> "Forward", tx |-> tx] \in Message
  /\ \A tx \in Tx : [kind |-> "HaveTx", tx |-> tx] \in Message
  /\ [kind |-> "ResetRoute"] \in Message
  BY DEF Message

\* adjust_redundancy keeps the types and at most appends one ResetRoute.
LEMMA AdjustRedundancyStep ==
  ASSUME TypeOK, NEW n \in Node, NEW peers, NEW ch \in [Link -> Seq(Message)],
         AdjustRedundancy(n, peers, ch)
  PROVE  /\ ctl' \in [Node -> Controller]
         /\ haveTxSent' \in [Node -> [Node -> Nat]]
         /\ chan' \in [Link -> Seq(Message)]
         /\ \A l \in Link : \A j \in DOMAIN chan'[l] :
              \/ j \in DOMAIN ch[l] /\ chan'[l][j] = ch[l][j]
              \/ j = Len(ch[l]) + 1 /\ chan'[l][j] = [kind |-> "ResetRoute"]
<1>1. ctl' \in [Node -> Controller]
  BY ControllerTypes DEF TypeOK, AdjustRedundancy
<1>2. CASE chan' = ch /\ UNCHANGED haveTxSent
  BY <1>1, <1>2 DEF TypeOK
<1>3. CASE \E q \in ResetCandidates(n) \cap peers :
             /\ chan' = Send(ch, n, {q}, [kind |-> "ResetRoute"])
             /\ haveTxSent' = [haveTxSent EXCEPT ![n] = RemoveHaveTxSent(@, q)]
  <2>1. PICK q \in ResetCandidates(n) \cap peers :
             /\ chan' = Send(ch, n, {q}, [kind |-> "ResetRoute"])
             /\ haveTxSent' = [haveTxSent EXCEPT ![n] = RemoveHaveTxSent(@, q)]
    BY <1>3
  <2>2. q \in Node
    BY DEF ResetCandidates, HaveTxSentPeers
  <2>3. RemoveHaveTxSent(haveTxSent[n], q) \in [Node -> Nat]
    BY <2>2 DEF RemoveHaveTxSent, TypeOK
  <2>4. haveTxSent' \in [Node -> [Node -> Nat]]
    BY <2>1, <2>3 DEF TypeOK
  <2> DEFINE m == [kind |-> "ResetRoute"]
  <2>5. m \in Message
    BY NewMessages
  <2>6. chan' = Send(ch, n, {q}, m)
    BY <2>1
  <2> HIDE DEF m
  <2>7. /\ Send(ch, n, {q}, m) \in [Link -> Seq(Message)]
        /\ \A l \in Link : \A j \in DOMAIN Send(ch, n, {q}, m)[l] :
             \/ j \in DOMAIN ch[l] /\ Send(ch, n, {q}, m)[l][j] = ch[l][j]
             \/ j = Len(ch[l]) + 1 /\ Send(ch, n, {q}, m)[l][j] = m
    BY <2>5, SendProperties
  <2> QED
    BY <1>1, <2>4, <2>6, <2>7 DEF m
<1> QED
  BY <1>2, <1>3 DEF AdjustRedundancy

\* The bounded faults leave their counters within the bounds.
LEMMA BudgetTypes ==
  ASSUME NEW x \in Budget
  PROVE  /\ x.dials > 0 => [x EXCEPT !.dials = @ - 1] \in Budget
         /\ x.closes > 0 => [x EXCEPT !.closes = @ - 1] \in Budget
         /\ x.losses > 0 => [x EXCEPT !.losses = @ - 1] \in Budget
         /\ x.expiries > 0 => [x EXCEPT !.expiries = @ - 1] \in Budget
<1>1. x.dials > 0 => [x EXCEPT !.dials = @ - 1] \in Budget
  BY DEF Budget
<1>2. x.closes > 0 => [x EXCEPT !.closes = @ - 1] \in Budget
  BY DEF Budget
<1>3. x.losses > 0 => [x EXCEPT !.losses = @ - 1] \in Budget
  BY DEF Budget
<1>4. x.expiries > 0 => [x EXCEPT !.expiries = @ - 1] \in Budget
  BY DEF Budget
<1> QED
  BY <1>1, <1>2, <1>3, <1>4

\* The conjunct of TypeOK that a receive step does not touch by itself.
LEMMA SpendExpiryType ==
  ASSUME TypeOK, NEW n \in Node, NEW c \in Unexpired(cache[n]), SpendExpiry(n, c)
  PROVE  budget' \in Budget
<1>1. CASE budget.expiries > 0
  BY <1>1, BudgetTypes DEF TypeOK, SpendExpiry
<1>2. CASE ~(budget.expiries > 0)
  <2>1. c = SubSeq(cache[n], 1, Len(cache[n])) /\ cache[n] \in Seq(CacheEntry)
    BY <1>2 DEF Unexpired, TypeOK
  <2>2. c = cache[n]
    BY <2>1
  <2> QED
    BY <2>2 DEF TypeOK, SpendExpiry
<1> QED
  BY <1>1, <1>2

\* Recording what is queued and what is missed keeps the types of the history.
LEMMA RecordTypes ==
  ASSUME TypeOK, NEW n \in Node, NEW tx \in Tx, NEW source, NEW recipients, NEW to,
         Record(n, tx, source, recipients, to)
  PROVE  given' \in [Link -> Seq(Tx)] /\ missed' \in [Link -> SUBSET Tx]
<1>1. given' = [l \in Link |-> IF l[1] = n /\ l[2] \in to THEN Append(given[l], tx)
                                                        ELSE given[l]]
  BY DEF Record, Send
<1>2. given' \in [Link -> Seq(Tx)]
  BY <1>1 DEF TypeOK
<1>3. missed' \in [Link -> SUBSET Tx]
  BY DEF Record, TypeOK
<1> QED
  BY <1>2, <1>3

\* publish keeps the type invariant.
LEMMA PublishTypes ==
  ASSUME TypeOK, NEW n \in Node, Publish(n)
  PROVE  TypeOK'
<1> DEFINE tx == [from |-> n, seqno |-> seqno[n] + 1]
           recipients == FilterValidRoutes(disabled[n], n, connected[n])
<1>1. tx \in Tx
  BY DEF TypeOK, Tx
<1>2. PICK c \in Unexpired(cache[n]) :
         /\ cache' = [cache EXCEPT ![n] = Append(c, [id |-> tx, source |-> n])]
         /\ SpendExpiry(n, c)
  BY DEF Publish
<1>3. PICK to \in Accepting(recipients) :
         /\ chan' = Send(chan, n, to, [kind |-> "Publish", tx |-> tx])
         /\ outcome' = [outcome EXCEPT ![n] = PublishResult(n, recipients, to)]
         /\ Record(n, tx, n, recipients, to)
  BY DEF Publish
<1>4. seqno' \in [Node -> Nat] /\ UNCHANGED <<links, routing>>
  BY DEF Publish, TypeOK
<1> HIDE DEF tx, recipients
<1>5. cache' \in [Node -> Seq(CacheEntry)]
  <2>1. c \in Seq(CacheEntry)
    BY UnexpiredProperties DEF TypeOK
  <2>2. [id |-> tx, source |-> n] \in CacheEntry
    BY <1>1 DEF CacheEntry
  <2> QED
    BY <1>2, <2>1, <2>2 DEF TypeOK
<1>6. chan' \in [Link -> Seq(Message)]
  BY <1>1, <1>3, NewMessages, SendProperties DEF TypeOK
<1>7. outcome' \in [Node -> Outcome]
  <2>1. connected[n] \subseteq Node /\ IsFiniteSet(Node)
    BY NetworkAssumption DEF TypeOK
  <2>2. Cardinality(connected[n]) \in Nat
    BY <2>1, FS_Subset, FS_CardinalityType
  <2>3. PublishResult(n, recipients, to) \in Outcome
    BY <2>2 DEF PublishResult, Outcome
  <2> QED
    BY <1>3, <2>3 DEF TypeOK
<1>8. budget' \in Budget
  BY <1>2, SpendExpiryType
<1>9. given' \in [Link -> Seq(Tx)] /\ missed' \in [Link -> SUBSET Tx]
  BY <1>1, <1>3, RecordTypes
<1> QED
  BY <1>4, <1>5, <1>6, <1>7, <1>8, <1>9 DEF TypeOK, links, routing

\* The receipt of a transaction keeps the type invariant.
LEMMA ReceiveTransactionTypes ==
  ASSUME TypeOK, NEW n \in Node, NEW p \in Node, ReceiveTransaction(n, p)
  PROVE  TypeOK'
<1> DEFINE l == <<p, n>>
<1>1. PICK i \in Deliverable(chan[l]), c \in Unexpired(cache[n]) :
        /\ IsTx(chan[l][i])
        /\ ReceiveFirst(n, p, i, c) \/ ReceiveDuplicate(n, p, i, c)
        /\ SpendExpiry(n, c)
  BY DEF ReceiveTransaction
<1> DEFINE tx == chan[l][i].tx
<1>2. l \in Link /\ chan[l] \in Seq(Message) /\ i \in DOMAIN chan[l]
  BY DEF TypeOK, Link, Deliverable
<1>3. tx \in Tx
  BY <1>1, <1>2, MessageTx DEF IsTx
<1>4. c \in Seq(CacheEntry) /\ [id |-> tx, source |-> p] \in CacheEntry
  BY <1>3, UnexpiredProperties DEF TypeOK, CacheEntry
<1>5. Take(chan, l, i) \in [Link -> Seq(Message)]
  BY <1>2, TakeProperties DEF TypeOK
<1>6. ctl[n] \in Controller /\ haveTxSent[n] \in [Node -> Nat]
  BY DEF TypeOK
<1>7. UNCHANGED <<links, outcome, seqno, disabled>>
  BY DEF ReceiveTransaction
<1>8. budget' \in Budget
  BY <1>1, SpendExpiryType
<1>9. CASE ReceiveFirst(n, p, i, c)
  <2>1. PICK to \in Accepting(ForwardTargets(n, p, tx)) :
          /\ chan' = Send(Take(chan, l, i), n, to, [kind |-> "Forward", tx |-> tx])
          /\ Record(n, tx, p, ForwardTargets(n, p, tx), to)
    BY <1>9 DEF ReceiveFirst
  <2>2. /\ cache' = [cache EXCEPT ![n] = Append(c, [id |-> tx, source |-> p])]
        /\ ctl' = [ctl EXCEPT ![n] = IncrFirstTime(ctl[n])]
        /\ UNCHANGED haveTxSent
    BY <1>9 DEF ReceiveFirst
  <2> HIDE DEF l, tx
  <2>5. given' \in [Link -> Seq(Tx)] /\ missed' \in [Link -> SUBSET Tx]
    BY <2>1, <1>3, RecordTypes
  <2>3. chan' \in [Link -> Seq(Message)]
    BY <2>1, <1>3, <1>5, NewMessages, SendProperties
  <2>4. ctl' \in [Node -> Controller] /\ cache' \in [Node -> Seq(CacheEntry)]
    BY <2>2, <1>4, <1>6, ControllerTypes DEF TypeOK
  <2> QED
    BY <1>7, <1>8, <2>2, <2>3, <2>4, <2>5 DEF TypeOK, links
<1>10. CASE ReceiveDuplicate(n, p, i, c)
  <2>1. cache' \in [Node -> Seq(CacheEntry)]
    BY <1>4, <1>10 DEF ReceiveDuplicate, TypeOK
  <2>2. \/ /\ ctl' = [ctl EXCEPT ![n] = BlockHaveTx(IncrDuplicate(ctl[n]))]
           /\ haveTxSent' = [haveTxSent EXCEPT ![n] = RegisterHaveTxSent(haveTxSent[n], p)]
           /\ chan' = Send(Take(chan, l, i), n, {p}, [kind |-> "HaveTx", tx |-> tx])
        \/ /\ ctl' = [ctl EXCEPT ![n] = IncrDuplicate(ctl[n])]
           /\ chan' = Take(chan, l, i)
           /\ UNCHANGED haveTxSent
    BY <1>10 DEF ReceiveDuplicate
  <2> HIDE DEF l, tx
  <2>3. ctl' \in [Node -> Controller]
    BY <2>2, <1>6, ControllerTypes DEF TypeOK
  <2>4. haveTxSent' \in [Node -> [Node -> Nat]]
    <3>1. RegisterHaveTxSent(haveTxSent[n], p) \in [Node -> Nat]
      BY <1>6 DEF RegisterHaveTxSent
    <3> QED
      BY <2>2, <3>1 DEF TypeOK
  <2>5. chan' \in [Link -> Seq(Message)]
    BY <2>2, <1>3, <1>5, NewMessages, SendProperties
  <2> QED
    BY <1>7, <1>8, <1>10, <2>1, <2>3, <2>4, <2>5 DEF TypeOK, links, history, ReceiveDuplicate
<1> QED
  BY <1>1, <1>9, <1>10

\* A step that takes one message off a link and otherwise touches only
\* disabled_routes or the budget.
LEMMA TakeTypes ==
  ASSUME TypeOK, NEW l \in Link, NEW i \in DOMAIN chan[l], chan' = Take(chan, l, i)
  PROVE  chan' \in [Link -> Seq(Message)]
  BY TakeProperties DEF TypeOK

\* The receipt of HaveTx or ResetRoute keeps the type invariant.
LEMMA ReceiveControlTypes ==
  ASSUME TypeOK, NEW n \in Node, NEW p \in Node,
         ReceiveHaveTx(n, p) \/ ReceiveResetRoute(n, p)
  PROVE  TypeOK'
<1> DEFINE l == <<p, n>>
<1>1. l \in Link
  BY DEF Link
<1>2. \E i \in DOMAIN chan[l] : chan' = Take(chan, l, i)
  BY DEF ReceiveHaveTx, ReceiveResetRoute, Deliverable
<1>3. UNCHANGED <<links, cache, outcome, seqno, haveTxSent, ctl, budget, history>>
  BY DEF ReceiveHaveTx, ReceiveResetRoute
<1>4. \/ \E s \in Node : disabled' = [disabled EXCEPT ![n] = DisableRoute(disabled[n], s, p)]
      \/ \E r \in ClosedRoutesTo(disabled[n], p) :
           disabled' = [disabled EXCEPT ![n] = EnableRoute(disabled[n], r)]
      \/ UNCHANGED disabled
  BY DEF ReceiveHaveTx, ReceiveResetRoute
<1>5. disabled' \in [Node -> [Route -> Nat]]
  <2>1. /\ \A s \in Node : DisableRoute(disabled[n], s, p) \in [Route -> Nat]
        /\ \A r \in ClosedRoutesTo(disabled[n], p) :
             EnableRoute(disabled[n], r) \in [Route -> Nat]
    BY RouterTypes DEF TypeOK
  <2>2. ASSUME NEW d \in [Route -> Nat], disabled' = [disabled EXCEPT ![n] = d]
        PROVE  disabled' \in [Node -> [Route -> Nat]]
    BY <2>2 DEF TypeOK
  <2>3. UNCHANGED disabled => disabled' \in [Node -> [Route -> Nat]]
    BY DEF TypeOK
  <2> QED
    BY <1>4, <2>1, <2>2, <2>3
<1>6. chan' \in [Link -> Seq(Message)]
  BY <1>1, <1>2, TakeTypes
<1> QED
  BY <1>3, <1>5, <1>6 DEF TypeOK, links, history

\* Dialling, accepting and closing keep the type invariant.
LEMMA ConnectionTypes ==
  ASSUME TypeOK, NEW n \in Node, NEW p \in Node,
         Dial(n, p) \/ Accept(n, p) \/ ConnectionClosed(n, p)
  PROVE  TypeOK'
<1>1. CASE Dial(n, p)
  <2>1. <<n, p>> \in Link /\ <<p, n>> \in Link /\ <<>> \in Seq(Message)
    BY DEF Link
  <2>2. chan' \in [Link -> Seq(Message)]
    BY <1>1, <2>1 DEF Dial, TypeOK
  <2>3. connected' \in [Node -> SUBSET Node] /\ pending' \subseteq Link
    BY <1>1, <2>1 DEF Dial, TypeOK
  <2>4. budget' \in Budget
    BY <1>1, BudgetTypes DEF Dial, TypeOK
  <2> QED
    BY <1>1, <2>2, <2>3, <2>4 DEF Dial, TypeOK, routing, history
<1>2. CASE Accept(n, p)
  BY <1>2 DEF Accept, TypeOK, routing, history
<1>3. CASE ConnectionClosed(n, p)
  <2> DEFINE ch == [chan EXCEPT ![<<p, n>>] = <<>>]
  <2>1. ch \in [Link -> Seq(Message)]
    BY DEF TypeOK, Link
  <2>2. AdjustRedundancy(n, connected[n] \ {p}, ch)
    BY <1>3 DEF ConnectionClosed
  <2> HIDE DEF ch
  <2>3. /\ ctl' \in [Node -> Controller]
        /\ haveTxSent' \in [Node -> [Node -> Nat]]
        /\ chan' \in [Link -> Seq(Message)]
    BY <2>1, <2>2, AdjustRedundancyStep
  <2>4. connected' \in [Node -> SUBSET Node]
    BY <1>3 DEF ConnectionClosed, TypeOK
  <2>5. budget' \in Budget
    BY <1>3, BudgetTypes DEF ConnectionClosed, TypeOK
  <2>6. disabled' \in [Node -> [Route -> Nat]]
    <3>1. ResetRoutesWithPeer(disabled[n], p) \in [Route -> Nat]
      BY RouterTypes DEF TypeOK
    <3> QED
      BY <1>3, <3>1 DEF ConnectionClosed, TypeOK
  <2> QED
    BY <1>3, <2>3, <2>4, <2>5, <2>6 DEF ConnectionClosed, TypeOK, history
<1> QED
  BY <1>1, <1>2, <1>3

\* Dropped and lost messages keep the type invariant.
LEMMA LossTypes ==
  ASSUME TypeOK, NEW n \in Node, NEW p \in Node,
         TransactionDropped(n, p) \/ MessageLost(n, p)
  PROVE  TypeOK'
<1>1. <<n, p>> \in Link
  BY DEF Link
<1>2. \E i \in DOMAIN chan[<<n, p>>] : chan' = Take(chan, <<n, p>>, i)
  BY DEF TransactionDropped, MessageLost, Stale, Deliverable
<1>3. chan' \in [Link -> Seq(Message)]
  BY <1>1, <1>2, TakeTypes
<1>4. budget' \in Budget
  BY BudgetTypes DEF TransactionDropped, MessageLost, TypeOK
<1>5. UNCHANGED <<links, cache, outcome, seqno, routing, given>>
  BY DEF TransactionDropped, MessageLost
<1>6. missed' \in [Link -> SUBSET Tx]
  <2>1. \A i \in DOMAIN chan[<<n, p>>] :
          IsTx(chan[<<n, p>>][i]) => chan[<<n, p>>][i].tx \in Tx
    BY <1>1, MessageTx DEF TypeOK, IsTx
  <2>2. \/ UNCHANGED missed
        \/ \E tx \in Tx : missed' = [missed EXCEPT ![<<n, p>>] = missed[<<n, p>>] \cup {tx}]
    BY <2>1 DEF TransactionDropped, MessageLost, Stale, Deliverable
  <2>3. missed \in [Link -> SUBSET Tx]
    BY DEF TypeOK
  <2>4. CASE UNCHANGED missed
    BY <2>3, <2>4
  <2>5. ASSUME NEW tx \in Tx, missed' = [missed EXCEPT ![<<n, p>>] = missed[<<n, p>>] \cup {tx}]
        PROVE  missed' \in [Link -> SUBSET Tx]
    <3>1. missed[<<n, p>>] \cup {tx} \in SUBSET Tx
      BY <1>1, <2>3
    <3> QED
      BY <2>3, <2>5, <3>1
  <2> QED
    BY <2>2, <2>4, <2>5
<1> QED
  BY <1>3, <1>4, <1>5, <1>6 DEF TypeOK, links, routing

\* Type correctness of the network: whatever is published, received, closed,
\* re-dialled, dropped or lost, every node's caches, counters and routes and
\* every message keep their types.  In particular no counter of HaveTx
\* messages and no multiplicity of a closed route goes below zero.
THEOREM TypeCorrect == Spec => []TypeOK
<1>1. Init => TypeOK
  BY NetworkAssumption DEF Init, TypeOK, Link, Route, NoRoutes, NoHaveTxSent, NewController,
     Controller, Budget, Outcome
<1>2. TypeOK /\ [Next]_vars => TypeOK'
  <2> SUFFICES ASSUME TypeOK, [Next]_vars PROVE TypeOK'
    OBVIOUS
  <2>1. CASE UNCHANGED vars
    BY <2>1 DEF TypeOK, vars
  <2>2. ASSUME NEW n \in Node, Publish(n) PROVE TypeOK'
    BY <2>2, PublishTypes
  <2>3. ASSUME NEW n \in Node, RedundancyInterval(n) PROVE TypeOK'
    <3>1. AdjustRedundancy(n, connected[n], chan) /\ chan \in [Link -> Seq(Message)]
      BY <2>3 DEF RedundancyInterval, TypeOK
    <3> QED
      BY <2>3, <3>1, AdjustRedundancyStep DEF RedundancyInterval, TypeOK, links, history
  <2>4. ASSUME NEW n \in Node, NEW p \in Node, Receive(n, p) PROVE TypeOK'
    BY <2>4, ReceiveTransactionTypes, ReceiveControlTypes DEF Receive
  <2>5. ASSUME NEW n \in Node, NEW p \in Node,
               Dial(n, p) \/ Accept(n, p) \/ ConnectionClosed(n, p)
        PROVE  TypeOK'
    BY <2>5, ConnectionTypes
  <2>6. ASSUME NEW n \in Node, NEW p \in Node,
               TransactionDropped(n, p) \/ MessageLost(n, p)
        PROVE  TypeOK'
    BY <2>6, LossTypes
  <2> QED
    BY <2>1, <2>2, <2>3, <2>4, <2>5, <2>6 DEF Next
<1> QED
  BY <1>1, <1>2, PTL DEF Spec

-----------------------------------------------------------------------------
(* Closed routes lead to connected peers.                                  *)

\* No step leaves a closed route to a peer that is not connected: a
\* HaveTx is handled only while its link is up, and a close purges the routes.
LEMMA LiveTargetStep ==
  ASSUME TypeOK, TypeOK', ClosedRouteHasLiveTarget, Next
  PROVE  ClosedRouteHasLiveTarget'
<1> USE DEF ClosedRouteHasLiveTarget
\* A step that changes neither the routes nor removes a connection.
<1>1. ASSUME UNCHANGED disabled, \A n \in Node : connected[n] \subseteq connected'[n]
      PROVE  ClosedRouteHasLiveTarget'
  BY <1>1
<1>2. ASSUME NEW n \in Node, Publish(n) \/ RedundancyInterval(n)
      PROVE  ClosedRouteHasLiveTarget'
  BY <1>1, <1>2 DEF Publish, RedundancyInterval, links, routing
<1>3. ASSUME NEW n \in Node, NEW p \in Node, ReceiveTransaction(n, p)
      PROVE  ClosedRouteHasLiveTarget'
  BY <1>1, <1>3 DEF ReceiveTransaction, links
<1>4. ASSUME NEW n \in Node, NEW p \in Node, ReceiveHaveTx(n, p)
      PROVE  ClosedRouteHasLiveTarget'
  <2>1. p \in connected[n] /\ UNCHANGED connected
    BY <1>4 DEF ReceiveHaveTx, links
  <2>2. CASE UNCHANGED disabled
    BY <1>1, <2>1, <2>2
  <2>3. CASE \E s \in Node : disabled' = [disabled EXCEPT ![n] = DisableRoute(@, s, p)]
    <3>1. PICK s \in Node : disabled' = [disabled EXCEPT ![n] = DisableRoute(@, s, p)]
      BY <2>3
    <3>2. \A r \in Route \ {<<s, p>>} : disabled'[n][r] = disabled[n][r]
      BY <3>1 DEF DisableRoute, TypeOK
    <3>3. \A m \in Node \ {n} : disabled'[m] = disabled[m]
      BY <3>1 DEF TypeOK
    <3>4. Target(<<s, p>>) = p
      BY DEF Target
    <3> QED
      BY <2>1, <3>2, <3>3, <3>4
  <2> QED
    BY <1>4, <2>2, <2>3 DEF ReceiveHaveTx
<1>5. ASSUME NEW n \in Node, NEW p \in Node, ReceiveResetRoute(n, p)
      PROVE  ClosedRouteHasLiveTarget'
  <2>1. UNCHANGED connected
    BY <1>5 DEF ReceiveResetRoute, links
  <2>2. CASE UNCHANGED disabled
    BY <1>1, <2>1, <2>2
  <2>3. CASE \E r \in ClosedRoutesTo(disabled[n], p) :
               disabled' = [disabled EXCEPT ![n] = EnableRoute(@, r)]
    <3>1. PICK r \in ClosedRoutesTo(disabled[n], p) :
               disabled' = [disabled EXCEPT ![n] = EnableRoute(@, r)]
      BY <2>3
    <3>2. r \in Route /\ disabled[n][r] > 0 /\ disabled[n] \in [Route -> Nat]
      BY DEF ClosedRoutesTo, TypeOK
    <3>3. \A x \in Route \ {r} : disabled'[n][x] = disabled[n][x]
      BY <3>1, <3>2 DEF EnableRoute, TypeOK
    <3>4. \A m \in Node \ {n} : disabled'[m] = disabled[m]
      BY <3>1 DEF TypeOK
    <3> QED
      BY <2>1, <3>2, <3>3, <3>4
  <2> QED
    BY <1>5, <2>2, <2>3 DEF ReceiveResetRoute
<1>6. ASSUME NEW n \in Node, NEW p \in Node, Dial(n, p) \/ Accept(n, p)
      PROVE  ClosedRouteHasLiveTarget'
  <2>1. \A m \in Node : connected[m] \subseteq connected'[m]
    <3>1. connected' = [connected EXCEPT ![n] = connected[n] \cup {p}]
      BY <1>6 DEF Dial, Accept
    <3>2. connected \in [Node -> SUBSET Node]
      BY DEF TypeOK
    <3> QED
      BY <3>1, <3>2
  <2>2. UNCHANGED disabled
    BY <1>6 DEF Dial, Accept, routing
  <2> QED
    BY <1>1, <2>1, <2>2
<1>7. ASSUME NEW n \in Node, NEW p \in Node, ConnectionClosed(n, p)
      PROVE  ClosedRouteHasLiveTarget'
  <2>1. /\ connected' = [connected EXCEPT ![n] = @ \ {p}]
        /\ disabled' = [disabled EXCEPT ![n] = ResetRoutesWithPeer(@, p)]
    BY <1>7 DEF ConnectionClosed
  <2>2. \A r \in Route : disabled'[n][r] > 0 => Target(r) # p /\ disabled[n][r] > 0
    BY <2>1 DEF ResetRoutesWithPeer, TypeOK
  <2>3. \A m \in Node \ {n} : disabled'[m] = disabled[m] /\ connected'[m] = connected[m]
    BY <2>1 DEF TypeOK
  <2>4. connected'[n] = connected[n] \ {p}
    BY <2>1 DEF TypeOK
  <2> QED
    BY <2>2, <2>3, <2>4
<1>8. ASSUME NEW n \in Node, NEW p \in Node, TransactionDropped(n, p) \/ MessageLost(n, p)
      PROVE  ClosedRouteHasLiveTarget'
  BY <1>1, <1>8 DEF TransactionDropped, MessageLost, links, routing
<1> QED
  BY <1>2, <1>3, <1>4, <1>5, <1>6, <1>7, <1>8 DEF Next, Receive

\* In every network and under any churn, loss and expiry, a node's closed
\* routes all lead to peers it is connected to: on_connection_closed leaves
\* no route behind and no late HaveTx brings one back.
THEOREM LiveTargets == Spec => []ClosedRouteHasLiveTarget
<1>1. Init => ClosedRouteHasLiveTarget
  BY DEF Init, ClosedRouteHasLiveTarget, NoRoutes
<1>2. TypeOK /\ TypeOK' /\ ClosedRouteHasLiveTarget /\ [Next]_vars
        => ClosedRouteHasLiveTarget'
  <2>1. CASE UNCHANGED vars
    BY <2>1 DEF ClosedRouteHasLiveTarget, vars
  <2> QED
    BY <2>1, LiveTargetStep
<1> QED
  BY <1>1, <1>2, TypeCorrect, PTL DEF Spec

-----------------------------------------------------------------------------
(* Closed routes can be re-opened.                                         *)
(*                                                                         *)
(* y closes a route to x when a HaveTx of x arrives, and opens one when a  *)
(* ResetRoute of x does.  x counts the HaveTx it has sent to y and takes   *)
(* one off the count for every ResetRoute it sends.  The property compares *)
(* totals over the whole channel.  It is not inductive: priority messages  *)
(* keep their order, but a ResetRoute that arrives while nothing is closed *)
(* is spent in vain, so what is still behind it must be covered without    *)
(* it.  The invariant covers every rest of the channel.                    *)

\* The messages of one kind from position k of a channel on.
Behind(q, k, kind) == {i \in DOMAIN q : i >= k /\ q[i].kind = kind}
Count(q, k, kind) == Cardinality(Behind(q, k, kind))
One(m, kind) == IF m.kind = kind THEN 1 ELSE 0

\* The registered HaveTx and the ResetRoutes cover the HaveTx under way; and
\* whatever part of the channel has been processed, they cover the rest.
Covered(q, sent) ==
  \A k \in Nat : Count(q, k, "HaveTx") <= sent + Count(q, k, "ResetRoute")

\* How many routes to the peer are closed.
Closed(routes, peer) == SumFunctionOnSet(routes, Node \X {peer})

\* They cover the closed routes, too.
Covers(q, sent, closed) ==
  /\ Covered(q, sent)
  /\ closed + Count(q, 1, "HaveTx") <= sent + Count(q, 1, "ResetRoute")

Holds(ch, sent, dis) ==
  \A x, y \in Node : Covers(ch[<<x, y>>], sent[x][y], Closed(dis[y], x))

\* What the network keeps as long as its substreams lose nothing.
Reopenable == Holds(chan, haveTxSent, disabled)
NoLosses == budget.losses = 0

LEMMA CountType ==
  ASSUME NEW q \in Seq(Message), NEW k, NEW kind
  PROVE  IsFiniteSet(Behind(q, k, kind)) /\ Count(q, k, kind) \in Nat
<1>1. DOMAIN q = 1 .. Len(q) /\ Len(q) \in Int /\ 1 \in Int
  BY LenProperties
<1>2. IsFiniteSet(DOMAIN q)
  BY <1>1, FS_Interval
<1>3. IsFiniteSet(Behind(q, k, kind))
  BY <1>2, FS_Subset DEF Behind
<1> QED
  BY <1>3, FS_CardinalityType DEF Count

\* Nothing is in an empty channel, and nothing behind the end of one.
LEMMA CountNone ==
  ASSUME NEW q \in Seq(Message), NEW k \in Nat, k > Len(q), NEW kind
  PROVE  Count(q, k, kind) = 0
<1>1. Behind(q, k, kind) = {}
  BY DEF Behind
<1> QED
  BY <1>1, FS_EmptySet DEF Count

\* A message is sent.
LEMMA CountSent ==
  ASSUME NEW q \in Seq(Message), NEW m \in Message, NEW k \in Nat, k <= Len(q) + 1, NEW kind
  PROVE  Count(Append(q, m), k, kind) = Count(q, k, kind) + One(m, kind)
<1> DEFINE w == Append(q, m)
           e == Len(q) + 1
           A == Behind(q, k, kind)
           B == Behind(w, k, kind)
<1>1. /\ DOMAIN w = DOMAIN q \cup {e} /\ w[e] = m /\ e \notin DOMAIN q /\ e >= k
      /\ \A i \in DOMAIN q : w[i] = q[i]
  OBVIOUS
<1>2. IsFiniteSet(A) /\ Cardinality(A) \in Nat /\ e \notin A
  <2>1. IsFiniteSet(A) /\ Cardinality(A) \in Nat
    BY CountType DEF Count
  <2>2. e \notin A
    BY <1>1 DEF Behind
  <2> QED
    BY <2>1, <2>2
<1> HIDE DEF w, e
<1>3. CASE m.kind = kind
  <2>1. \A i : i \in B <=> i \in A \cup {e}
    BY <1>1, <1>3 DEF Behind
  <2>2. B = A \cup {e}
    BY <2>1
  <2> HIDE DEF A, B
  <2>3. Cardinality(B) = Cardinality(A) + 1
    BY <1>2, <2>2, FS_AddElement
  <2> QED
    BY <1>3, <2>3 DEF A, B, One, Count, w
<1>4. CASE m.kind # kind
  <2>1. \A i : i \in B <=> i \in A
    BY <1>1, <1>4 DEF Behind
  <2>2. B = A
    BY <2>1
  <2>3. Cardinality(B) = Cardinality(A) + 0
    BY <1>2, <2>2
  <2> QED
    BY <1>4, <2>3 DEF One, Count, w
<1> QED
  BY <1>3, <1>4

\* A message is taken: what was behind it moves up.
LEMMA CountTaken ==
  ASSUME NEW q \in Seq(Message), NEW i \in DOMAIN q, NEW k \in Nat, NEW kind
  PROVE  /\ k > i => Count(RemoveAt(q, i), k, kind) = Count(q, k + 1, kind)
         /\ k <= i => Count(RemoveAt(q, i), k, kind) + One(q[i], kind) = Count(q, k, kind)
<1> DEFINE w == RemoveAt(q, i)
           B == Behind(w, k, kind)
           h == [j \in B |-> IF j < i THEN j ELSE j + 1]
<1>1. /\ w \in Seq(Message) /\ Len(w) = Len(q) - 1
      /\ \A j \in DOMAIN w : w[j] = IF j < i THEN q[j] ELSE q[j + 1]
  BY RemoveAtElements
<1>2. /\ DOMAIN q = 1 .. Len(q) /\ Len(q) \in Nat /\ i \in 1 .. Len(q) /\ DOMAIN w = 1 .. (Len(q) - 1)
  BY <1>1, LenProperties
<1>3. IsFiniteSet(B)
  BY <1>1, CountType
<1> HIDE DEF w
<1>4. ASSUME NEW C, h \in Bijection(B, C)
      PROVE  Cardinality(B) = Cardinality(C)
  <2> HIDE DEF B, h
  <2>1. ExistsBijection(B, C)
    BY <1>4 DEF ExistsBijection
  <2> QED
    BY <1>3, <2>1, FS_Bijection
<1>5. \A j \in B : /\ j \in 1 .. (Len(q) - 1) /\ j >= k /\ w[j].kind = kind
                   /\ h[j] = IF j < i THEN j ELSE j + 1
  BY <1>2 DEF Behind
<1>6. \A j \in 1 .. (Len(q) - 1) : j >= k /\ w[j].kind = kind => j \in B
  BY <1>2 DEF Behind
<1>7. ASSUME NEW C, \A j \in B : h[j] \in C,
             \A c \in C : /\ c \in DOMAIN q /\ c # i /\ q[c].kind = kind
                          /\ IF c < i THEN c >= k ELSE c - 1 >= k
      PROVE  Cardinality(B) = Cardinality(C)
  <2>1. h \in [B -> C]
    BY <1>7
  <2>2. \A a, b \in B : h[a] = h[b] => a = b
    <3> SUFFICES ASSUME NEW a \in B, NEW b \in B, h[a] = h[b] PROVE a = b
      OBVIOUS
    <3>1. a \in Int /\ b \in Int /\ i \in Int
      BY <1>2, <1>5
    <3>2. (IF a < i THEN a ELSE a + 1) = (IF b < i THEN b ELSE b + 1)
      BY <1>5
    <3> QED
      BY <3>1, <3>2
  <2>3. ASSUME NEW c \in C PROVE \E j \in B : h[j] = c
    <3>1. /\ c \in 1 .. Len(q) /\ c # i /\ q[c].kind = kind
          /\ IF c < i THEN c >= k ELSE c - 1 >= k
      BY <1>2, <1>7
    <3>2. CASE c < i
      <4>1. c \in 1 .. (Len(q) - 1) /\ w[c] = q[c]
        BY <1>1, <1>2, <3>1, <3>2
      <4>2. c \in B
        BY <1>6, <3>1, <3>2, <4>1
      <4> QED
        BY <1>5, <3>2, <4>2
    <3>3. CASE ~(c < i)
      <4>1. c - 1 \in 1 .. (Len(q) - 1) /\ ~(c - 1 < i) /\ (c - 1) + 1 = c
        BY <1>2, <3>1, <3>3
      <4>2. w[c - 1] = q[(c - 1) + 1]
        BY <1>1, <1>2, <4>1
      <4>3. c - 1 \in B
        BY <1>6, <3>1, <3>3, <4>1, <4>2
      <4> QED
        BY <1>5, <4>1, <4>3
    <3> QED
      BY <3>2, <3>3
  <2> HIDE DEF h
  <2>4. h \in Bijection(B, C)
    <3>1. h \in Injection(B, C)
      BY <2>1, <2>2 DEF Injection, IsInjective
    <3>2. h \in Surjection(B, C)
      BY <2>1, <2>3 DEF Surjection
    <3> QED
      BY <3>1, <3>2 DEF Bijection
  <2> QED
    BY <1>4, <2>4
<1>8. ASSUME k > i PROVE Count(w, k, kind) = Count(q, k + 1, kind)
  <2> DEFINE C == Behind(q, k + 1, kind)
  <2>1. \A j \in B : h[j] \in C
    <3> SUFFICES ASSUME NEW j \in B PROVE h[j] \in C
      OBVIOUS
    <3>1. j \in 1 .. (Len(q) - 1) /\ j >= k /\ w[j].kind = kind /\ ~(j < i) /\ h[j] = j + 1
      BY <1>2, <1>5, <1>8
    <3>2. w[j] = q[j + 1]
      BY <1>1, <1>2, <3>1
    <3>3. j + 1 \in DOMAIN q /\ j + 1 >= k + 1
      BY <1>2, <3>1
    <3> QED
      BY <3>1, <3>2, <3>3 DEF Behind
  <2>2. \A c \in C : /\ c \in DOMAIN q /\ c # i /\ q[c].kind = kind
                     /\ IF c < i THEN c >= k ELSE c - 1 >= k
    BY <1>2, <1>8 DEF Behind
  <2> HIDE DEF h, B, C
  <2> QED
    BY <1>7, <2>1, <2>2 DEF B, C, Count
<1>9. ASSUME k <= i PROVE Count(w, k, kind) + One(q[i], kind) = Count(q, k, kind)
  <2> DEFINE A == Behind(q, k, kind)
             C == A \ {i}
  <2>1. \A j \in B : h[j] \in C
    <3> SUFFICES ASSUME NEW j \in B PROVE h[j] \in C
      OBVIOUS
    <3>1. /\ j \in 1 .. (Len(q) - 1) /\ j >= k /\ w[j].kind = kind
          /\ h[j] = IF j < i THEN j ELSE j + 1
      BY <1>5
    <3>2. CASE j < i
      BY <1>1, <1>2, <3>1, <3>2 DEF Behind
    <3>3. CASE ~(j < i)
      <4>1. w[j] = q[j + 1] /\ j + 1 \in DOMAIN q /\ j + 1 >= k /\ j + 1 # i
        BY <1>1, <1>2, <3>1, <3>3
      <4> QED
        BY <3>1, <3>3, <4>1 DEF Behind
    <3> QED
      BY <3>2, <3>3
  <2>2. \A c \in C : /\ c \in DOMAIN q /\ c # i /\ q[c].kind = kind
                     /\ IF c < i THEN c >= k ELSE c - 1 >= k
    BY <1>2, <1>9 DEF Behind
  <2>3. IsFiniteSet(A) /\ Cardinality(A) \in Nat
    BY CountType DEF Count
  <2>4. i \in A <=> q[i].kind = kind
    BY <1>9 DEF Behind
  <2> HIDE DEF h, B, A
  <2>5. Cardinality(B) = Cardinality(C)
    BY <1>7, <2>1, <2>2
  <2>6. Cardinality(C) + One(q[i], kind) = Cardinality(A)
    <3>1. CASE i \in A
      <4>1. Cardinality(C) = Cardinality(A) - 1
        BY <2>3, <3>1, FS_RemoveElement
      <4> QED
        BY <2>3, <2>4, <3>1, <4>1 DEF One
    <3>2. CASE i \notin A
      <4>1. C = A /\ One(q[i], kind) = 0
        BY <2>4, <3>2 DEF One
      <4>2. Cardinality(A) + 0 = Cardinality(A)
        BY <2>3
      <4> QED
        BY <4>1, <4>2
    <3> QED
      BY <3>1, <3>2
  <2> QED
    BY <2>5, <2>6 DEF A, B, Count
<1> QED
  BY <1>8, <1>9 DEF w

\* How the router's operations change the number of routes closed to a peer.
LEMMA ClosedSums ==
  ASSUME NEW routes \in [Route -> Nat], NEW x \in Node
  PROVE  /\ Closed(routes, x) \in Nat
         /\ ClosedRoutesTo(routes, x) = {} => Closed(routes, x) = 0
         /\ \A s, p \in Node : Closed(DisableRoute(routes, s, p), x)
                                 = IF p = x THEN Closed(routes, x) + 1 ELSE Closed(routes, x)
         /\ \A p \in Node : \A r \in ClosedRoutesTo(routes, p) :
              /\ Closed(EnableRoute(routes, r), x) \in Nat
              /\ p = x => Closed(EnableRoute(routes, r), x) + 1 = Closed(routes, x)
              /\ p # x => Closed(EnableRoute(routes, r), x) = Closed(routes, x)
         /\ \A p \in Node :
              /\ Closed(ResetRoutesWithPeer(routes, p), x) \in Nat
              /\ Closed(ResetRoutesWithPeer(routes, p), x) <= Closed(routes, x)
              /\ p = x => Closed(ResetRoutesWithPeer(routes, p), x) = 0
<1> DEFINE S == Node \X {x}
<1>1. IsFiniteSet(S) /\ \A r \in S : r \in Route /\ routes[r] \in Nat /\ Target(r) = x
  <2>1. IsFiniteSet({x}) /\ IsFiniteSet(Node)
    BY FS_Singleton, NetworkAssumption
  <2>2. IsFiniteSet(S)
    BY <2>1, FS_Product
  <2> QED
    BY <2>2 DEF Route, Target
<1>2. \A h : (\A r \in S : h[r] = routes[r]) => SumFunctionOnSet(h, S) = SumFunctionOnSet(routes, S)
  BY <1>1, SumOfNaturals
<1>3. SumFunctionOnSet(routes, S) \in Nat
  BY <1>1, SumOfNaturals
<1>4. ClosedRoutesTo(routes, x) = {} => SumFunctionOnSet(routes, S) = 0
  <2> SUFFICES ASSUME ClosedRoutesTo(routes, x) = {} PROVE SumFunctionOnSet(routes, S) = 0
    OBVIOUS
  <2>1. \A r \in S : routes[r] = 0
    BY <1>1 DEF ClosedRoutesTo
  <2> QED
    BY <1>1, <2>1, SumOfNaturals
<1>5. ASSUME NEW s \in Node, NEW p \in Node
      PROVE  Closed(DisableRoute(routes, s, p), x) = IF p = x THEN Closed(routes, x) + 1 ELSE Closed(routes, x)
  <2> DEFINE h == DisableRoute(routes, s, p)
             r == <<s, p>>
  <2>1. h \in [Route -> Nat]
    <3>1. NoHaveTxSent \in [Node -> Nat]
      BY DEF NoHaveTxSent
    <3> QED
      BY <3>1, RouterTypes
  <2>2. r \in Route /\ h[r] = routes[r] + 1 /\ \A b \in Route \ {r} : h[b] = routes[b]
    BY DEF DisableRoute, Route
  <2>3. r \in S <=> p = x
    OBVIOUS
  <2> HIDE DEF h, r
  <2>4. CASE p = x
    <3>1. \A b \in S : h[b] \in Nat
      BY <1>1, <2>1
    <3>2. SumFunctionOnSet(h, S) \in Nat /\ SumFunctionOnSet(h, S) + routes[r] = SumFunctionOnSet(routes, S) + h[r]
      BY <1>1, <2>2, <2>3, <2>4, <3>1, SumChanged
    <3>3. SumFunctionOnSet(h, S) = SumFunctionOnSet(routes, S) + 1
      BY <1>3, <2>2, <3>2
    <3> QED
      BY <2>4, <3>3 DEF Closed, h
  <2>5. CASE p # x
    <3>1. \A b \in S : h[b] = routes[b]
      BY <1>1, <2>2, <2>3, <2>5
    <3> QED
      BY <1>2, <2>5, <3>1 DEF Closed, h
  <2> QED
    BY <2>4, <2>5
<1>6. ASSUME NEW p \in Node, NEW r \in ClosedRoutesTo(routes, p)
      PROVE  /\ Closed(EnableRoute(routes, r), x) \in Nat
             /\ p = x => Closed(EnableRoute(routes, r), x) + 1 = Closed(routes, x)
             /\ p # x => Closed(EnableRoute(routes, r), x) = Closed(routes, x)
  <2> DEFINE h == EnableRoute(routes, r)
  <2>1. h \in [Route -> Nat]
    <3>1. NoHaveTxSent \in [Node -> Nat]
      BY DEF NoHaveTxSent
    <3> QED
      BY <3>1, RouterTypes
  <2>2. /\ r \in Route /\ routes[r] \in Nat /\ routes[r] > 0 /\ h[r] = routes[r] - 1 /\ Target(r) = p
        /\ \A b \in Route \ {r} : h[b] = routes[b]
    BY DEF EnableRoute, ClosedRoutesTo
  <2>3. r \in S <=> p = x
    BY <2>2 DEF Route, Target
  <2> HIDE DEF h
  <2>4. \A b \in S : h[b] \in Nat
    BY <1>1, <2>1
  <2>5. SumFunctionOnSet(h, S) \in Nat
    BY <1>1, <2>4, SumOfNaturals
  <2>6. ASSUME p = x PROVE SumFunctionOnSet(h, S) + 1 = SumFunctionOnSet(routes, S)
    <3>1. SumFunctionOnSet(h, S) + routes[r] = SumFunctionOnSet(routes, S) + h[r]
      BY <1>1, <2>2, <2>3, <2>4, <2>6, SumChanged
    <3> QED
      BY <1>3, <2>2, <2>5, <3>1
  <2>7. ASSUME p # x PROVE SumFunctionOnSet(h, S) = SumFunctionOnSet(routes, S)
    <3>1. \A b \in S : h[b] = routes[b]
      BY <1>1, <2>2, <2>3, <2>7
    <3> QED
      BY <1>2, <3>1
  <2> QED
    BY <2>5, <2>6, <2>7 DEF Closed, h
<1>7. ASSUME NEW p \in Node
      PROVE  /\ Closed(ResetRoutesWithPeer(routes, p), x) \in Nat
             /\ Closed(ResetRoutesWithPeer(routes, p), x) <= Closed(routes, x)
             /\ p = x => Closed(ResetRoutesWithPeer(routes, p), x) = 0
  <2> DEFINE h == ResetRoutesWithPeer(routes, p)
  <2>1. \A r \in Route : h[r] = IF Source(r) = p \/ Target(r) = p THEN 0 ELSE routes[r]
    BY DEF ResetRoutesWithPeer
  <2> HIDE DEF h
  <2>2. \A b \in S : h[b] \in Nat /\ h[b] <= routes[b]
    BY <1>1, <2>1
  <2>3. SumFunctionOnSet(h, S) \in Nat
    BY <1>1, <2>2, SumOfNaturals
  <2>4. SumFunctionOnSet(h, S) <= SumFunctionOnSet(routes, S)
    BY <1>1, <2>2, SumMonotone
  <2>5. ASSUME p = x PROVE SumFunctionOnSet(h, S) = 0
    <3>1. \A b \in S : h[b] = 0
      BY <1>1, <2>1, <2>5
    <3> QED
      BY <1>1, <2>2, <3>1, SumOfNaturals
  <2> QED
    BY <2>3, <2>4, <2>5 DEF Closed, h
<1> HIDE DEF S
<1>8. Closed(routes, x) \in Nat /\ (ClosedRoutesTo(routes, x) = {} => Closed(routes, x) = 0)
  BY <1>3, <1>4 DEF Closed, S
<1> QED
  BY <1>5, <1>6, <1>7, <1>8

\* One channel: nothing, a message sent, a message taken, fewer closed routes.
LEMMA CoversNothing ==
  ASSUME NEW sent \in Nat
  PROVE  Covers(<<>>, sent, 0)
<1>1. <<>> \in Seq(Message) /\ Len(<<>>) = 0
  OBVIOUS
<1>2. ASSUME NEW k \in Nat, NEW kind PROVE Count(<<>>, k, kind) = 0
  <2>1. Behind(<<>>, k, kind) = {}
    BY DEF Behind
  <2> QED
    BY <2>1, FS_EmptySet DEF Count
<1> QED
  BY <1>2 DEF Covers, Covered

LEMMA CoversLess ==
  ASSUME NEW q \in Seq(Message), NEW sent \in Nat, NEW closed \in Nat, NEW less \in Nat,
         less <= closed, Covers(q, sent, closed)
  PROVE  Covers(q, sent, less)
<1> DEFINE a == Count(q, 1, "HaveTx")
           b == Count(q, 1, "ResetRoute")
<1>1. a \in Nat /\ b \in Nat
  BY CountType
<1>2. closed + a <= sent + b
  BY DEF Covers
<1> HIDE DEF a, b
<1>3. less + a <= sent + b
  BY <1>1, <1>2
<1> QED
  BY <1>3 DEF Covers, a, b

LEMMA CoversSent ==
  ASSUME NEW q \in Seq(Message), NEW sent \in Nat, NEW closed \in Nat, Covers(q, sent, closed),
         NEW m \in Message, NEW more \in Nat,
         sent + One(m, "HaveTx") <= more + One(m, "ResetRoute")
  PROVE  Covers(Append(q, m), more, closed)
<1> DEFINE w == Append(q, m)
           o == One(m, "HaveTx")
           v == One(m, "ResetRoute")
<1>1. w \in Seq(Message) /\ Len(w) = Len(q) + 1 /\ Len(q) \in Nat /\ o \in Nat /\ v \in Nat
  BY AppendProperties, LenProperties DEF One
<1>2. \A k \in Nat : Count(q, k, "HaveTx") \in Nat /\ Count(q, k, "ResetRoute") \in Nat
  BY CountType
<1>3. \A k \in Nat : k <= Len(q) + 1 =>
        /\ Count(w, k, "HaveTx") = Count(q, k, "HaveTx") + o
        /\ Count(w, k, "ResetRoute") = Count(q, k, "ResetRoute") + v
  BY CountSent
<1>4. \A k \in Nat : k > Len(w) => Count(w, k, "HaveTx") = 0 /\ Count(w, k, "ResetRoute") = 0
  BY <1>1, CountNone
<1> HIDE DEF w, o, v
<1>5. sent + o <= more + v
  BY DEF o, v
<1>6. ASSUME NEW k \in Nat PROVE Count(w, k, "HaveTx") <= more + Count(w, k, "ResetRoute")
  <2>1. CASE k <= Len(q) + 1
    <3> DEFINE a == Count(q, k, "HaveTx")
               b == Count(q, k, "ResetRoute")
    <3>1. a <= sent + b
      BY DEF Covers, Covered
    <3>2. Count(w, k, "HaveTx") = a + o /\ Count(w, k, "ResetRoute") = b + v /\ a \in Nat /\ b \in Nat
      BY <1>2, <1>3, <2>1
    <3> HIDE DEF a, b
    <3>3. a + o <= more + (b + v)
      BY <1>1, <1>5, <3>1, <3>2
    <3> QED
      BY <3>2, <3>3
  <2>2. CASE ~(k <= Len(q) + 1)
    <3>1. k > Len(w)
      BY <1>1, <2>2
    <3>2. Count(w, k, "HaveTx") = 0 /\ Count(w, k, "ResetRoute") = 0
      BY <1>4, <3>1
    <3> QED
      BY <3>2
  <2> QED
    BY <2>1, <2>2
<1>7. closed + Count(w, 1, "HaveTx") <= more + Count(w, 1, "ResetRoute")
  <2> DEFINE a == Count(q, 1, "HaveTx")
             b == Count(q, 1, "ResetRoute")
  <2>1. closed + a <= sent + b
    BY DEF Covers
  <2>2. 1 <= Len(q) + 1
    BY <1>1
  <2>3. Count(w, 1, "HaveTx") = a + o /\ Count(w, 1, "ResetRoute") = b + v /\ a \in Nat /\ b \in Nat
    BY <1>2, <1>3, <2>2
  <2> HIDE DEF a, b
  <2>4. closed + (a + o) <= more + (b + v)
    BY <1>1, <1>5, <2>1, <2>3
  <2> QED
    BY <2>3, <2>4
<1>8. Covers(w, more, closed)
  BY <1>6, <1>7 DEF Covers, Covered
<1> QED
  BY <1>8 DEF w

\* A transaction or a HaveTx is taken, and the latter closes at most one route.
LEMMA CoversTaken ==
  ASSUME NEW q \in Seq(Message), NEW sent \in Nat, NEW closed \in Nat, Covers(q, sent, closed),
         NEW i \in DOMAIN q, q[i].kind # "ResetRoute",
         NEW more \in Nat, more <= closed + One(q[i], "HaveTx")
  PROVE  Covers(RemoveAt(q, i), sent, more)
<1> DEFINE w == RemoveAt(q, i)
           o == One(q[i], "HaveTx")
<1>1. i \in Nat /\ i >= 1 /\ One(q[i], "ResetRoute") = 0 /\ o \in Nat
  BY DEF One
<1>2. \A k \in Nat : Count(q, k, "HaveTx") \in Nat /\ Count(q, k, "ResetRoute") \in Nat
  BY CountType
<1>3. \A k \in Nat : Count(w, k, "HaveTx") \in Nat /\ Count(w, k, "ResetRoute") \in Nat
  BY CountType, RemoveAtElements
<1>4. \A k \in Nat :
        /\ k > i => /\ Count(w, k, "HaveTx") = Count(q, k + 1, "HaveTx")
                    /\ Count(w, k, "ResetRoute") = Count(q, k + 1, "ResetRoute")
        /\ k <= i => /\ Count(w, k, "HaveTx") + o = Count(q, k, "HaveTx")
                     /\ Count(w, k, "ResetRoute") = Count(q, k, "ResetRoute")
  <2> SUFFICES ASSUME NEW k \in Nat
               PROVE  /\ k > i => /\ Count(w, k, "HaveTx") = Count(q, k + 1, "HaveTx")
                                  /\ Count(w, k, "ResetRoute") = Count(q, k + 1, "ResetRoute")
                      /\ k <= i => /\ Count(w, k, "HaveTx") + o = Count(q, k, "HaveTx")
                                   /\ Count(w, k, "ResetRoute") = Count(q, k, "ResetRoute")
    OBVIOUS
  <2>1. /\ k > i => Count(w, k, "HaveTx") = Count(q, k + 1, "HaveTx")
        /\ k <= i => Count(w, k, "HaveTx") + o = Count(q, k, "HaveTx")
    BY CountTaken
  <2>2. /\ k > i => Count(w, k, "ResetRoute") = Count(q, k + 1, "ResetRoute")
        /\ k <= i => Count(w, k, "ResetRoute") + 0 = Count(q, k, "ResetRoute")
    BY <1>1, CountTaken
  <2>3. Count(w, k, "ResetRoute") + 0 = Count(w, k, "ResetRoute")
    <3>1. \A a \in Nat : a + 0 = a
      OBVIOUS
    <3> QED
      BY <1>3, <3>1
  <2> QED
    BY <2>1, <2>2, <2>3
<1> HIDE DEF w, o
<1>5. ASSUME NEW k \in Nat PROVE Count(w, k, "HaveTx") <= sent + Count(w, k, "ResetRoute")
  <2>1. CASE k > i
    <3>1. k + 1 \in Nat
      OBVIOUS
    <3> QED
      BY <1>4, <2>1, <3>1 DEF Covers, Covered
  <2>2. CASE ~(k > i)
    <3> DEFINE a == Count(w, k, "HaveTx")
               b == Count(w, k, "ResetRoute")
    <3>1. k <= i
      BY <1>1, <2>2
    <3>2. a + o <= sent + b
      BY <1>4, <3>1 DEF Covers, Covered
    <3>3. a \in Nat /\ b \in Nat
      BY <1>3
    <3> HIDE DEF a, b
    <3>4. a <= sent + b
      BY <1>1, <3>2, <3>3
    <3> QED
      BY <3>4 DEF a, b
  <2> QED
    BY <2>1, <2>2
<1>6. more + Count(w, 1, "HaveTx") <= sent + Count(w, 1, "ResetRoute")
  <2> DEFINE a == Count(w, 1, "HaveTx")
             b == Count(w, 1, "ResetRoute")
  <2>1. closed + (a + o) <= sent + b
    BY <1>1, <1>4 DEF Covers
  <2>2. a \in Nat /\ b \in Nat /\ more <= closed + o
    BY <1>3 DEF o
  <2> HIDE DEF a, b
  <2>3. more + a <= sent + b
    BY <1>1, <2>1, <2>2
  <2> QED
    BY <2>3 DEF a, b
<1>7. Covers(w, sent, more)
  BY <1>5, <1>6 DEF Covers, Covered
<1> QED
  BY <1>7 DEF w

\* A ResetRoute is taken.  No HaveTx is in front of it, so that if no route
\* is closed, what is behind it is covered without it.
LEMMA CoversReset ==
  ASSUME NEW q \in Seq(Message), NEW sent \in Nat, NEW closed \in Nat, Covers(q, sent, closed),
         NEW i \in Deliverable(q), q[i].kind = "ResetRoute",
         NEW less \in Nat, closed = less + 1 \/ less = 0
  PROVE  Covers(RemoveAt(q, i), sent, less)
<1> DEFINE w == RemoveAt(q, i)
<1>1. i \in DOMAIN q /\ i \in Nat /\ i >= 1 /\ One(q[i], "HaveTx") = 0 /\ One(q[i], "ResetRoute") = 1
  BY DEF One, Deliverable
<1>2. \A k \in Nat : Count(q, k, "HaveTx") \in Nat /\ Count(q, k, "ResetRoute") \in Nat
  BY CountType
<1>3. \A k \in Nat : Count(w, k, "HaveTx") \in Nat /\ Count(w, k, "ResetRoute") \in Nat
  BY <1>1, CountType, RemoveAtElements
<1>4. \A k \in Nat :
        /\ k > i => /\ Count(w, k, "HaveTx") = Count(q, k + 1, "HaveTx")
                    /\ Count(w, k, "ResetRoute") = Count(q, k + 1, "ResetRoute")
        /\ k <= i => /\ Count(w, k, "HaveTx") = Count(q, k, "HaveTx")
                     /\ Count(w, k, "ResetRoute") + 1 = Count(q, k, "ResetRoute")
  <2> SUFFICES ASSUME NEW k \in Nat
               PROVE  /\ k > i => /\ Count(w, k, "HaveTx") = Count(q, k + 1, "HaveTx")
                                  /\ Count(w, k, "ResetRoute") = Count(q, k + 1, "ResetRoute")
                      /\ k <= i => /\ Count(w, k, "HaveTx") = Count(q, k, "HaveTx")
                                   /\ Count(w, k, "ResetRoute") + 1 = Count(q, k, "ResetRoute")
    OBVIOUS
  <2>1. /\ k > i => Count(w, k, "HaveTx") = Count(q, k + 1, "HaveTx")
        /\ k <= i => Count(w, k, "HaveTx") + 0 = Count(q, k, "HaveTx")
    BY <1>1, CountTaken
  <2>2. /\ k > i => Count(w, k, "ResetRoute") = Count(q, k + 1, "ResetRoute")
        /\ k <= i => Count(w, k, "ResetRoute") + 1 = Count(q, k, "ResetRoute")
    BY <1>1, CountTaken
  <2>3. Count(w, k, "HaveTx") + 0 = Count(w, k, "HaveTx")
    BY <1>3
  <2> QED
    BY <2>1, <2>2, <2>3
<1> HIDE DEF w
<1>5. ASSUME NEW k \in Nat, k <= i
      PROVE  /\ Count(q, k, "HaveTx") = Count(q, i + 1, "HaveTx")
             /\ Count(q, k, "ResetRoute") = Count(q, i + 1, "ResetRoute") + 1
  <2>1. \A j \in DOMAIN q : j < i => q[j].kind = "Forward"
    BY DEF Deliverable, Priority
  <2>2. \A j \in DOMAIN q : j \in Nat
    OBVIOUS
  <2>3. \A j \in DOMAIN q : (j >= k /\ q[j].kind = "HaveTx") <=> (j >= i + 1 /\ q[j].kind = "HaveTx")
    BY <1>1, <1>5, <2>1, <2>2
  <2>4. \A j \in DOMAIN q :
          (j >= k /\ q[j].kind = "ResetRoute") <=> (j >= i + 1 /\ q[j].kind = "ResetRoute") \/ j = i
    BY <1>1, <1>5, <2>1, <2>2
  <2>5. Behind(q, k, "HaveTx") = Behind(q, i + 1, "HaveTx")
    BY <2>3 DEF Behind
  <2>6. Behind(q, k, "ResetRoute") = Behind(q, i + 1, "ResetRoute") \cup {i}
    BY <1>1, <2>4 DEF Behind
  <2>7. i \notin Behind(q, i + 1, "ResetRoute") /\ IsFiniteSet(Behind(q, i + 1, "ResetRoute"))
    <3>1. ~(i >= i + 1)
      BY <1>1
    <3>2. IsFiniteSet(Behind(q, i + 1, "ResetRoute")) /\ Count(q, i + 1, "ResetRoute") \in Nat
      BY CountType
    <3> QED
      BY <3>1, <3>2 DEF Behind
  <2> QED
    BY <2>5, <2>6, <2>7, FS_AddElement DEF Count
<1>6. \A k \in Nat : k + 1 \in Nat /\ Count(q, k + 1, "HaveTx") <= sent + Count(q, k + 1, "ResetRoute")
  <2>1. \A k \in Nat : k + 1 \in Nat
    OBVIOUS
  <2> QED
    BY <2>1 DEF Covers, Covered
<1>7. ASSUME NEW k \in Nat PROVE Count(w, k, "HaveTx") <= sent + Count(w, k, "ResetRoute")
  <2>1. CASE k > i
    BY <1>4, <1>6, <2>1
  <2>2. CASE k <= i
    <3>1. Count(w, k, "HaveTx") = Count(q, i + 1, "HaveTx")
      BY <1>4, <1>5, <2>2
    <3>2. Count(w, k, "ResetRoute") + 1 = Count(q, i + 1, "ResetRoute") + 1
      BY <1>4, <1>5, <2>2
    <3>3. Count(w, k, "ResetRoute") = Count(q, i + 1, "ResetRoute")
      <4>1. \A a, b \in Nat : a + 1 = b + 1 => a = b
        OBVIOUS
      <4> QED
        BY <1>1, <1>2, <1>3, <1>6, <3>2, <4>1
    <3> QED
      BY <1>1, <1>6, <3>1, <3>3
  <2> QED
    BY <1>1, <2>1, <2>2
<1>8. less + Count(w, 1, "HaveTx") <= sent + Count(w, 1, "ResetRoute")
  <2> DEFINE a == Count(w, 1, "HaveTx")
             b == Count(w, 1, "ResetRoute")
  <2>1. a \in Nat /\ b \in Nat /\ a <= sent + b
    BY <1>3, <1>7
  <2>2. closed + a <= sent + (b + 1)
    BY <1>1, <1>4 DEF Covers
  <2> HIDE DEF a, b
  <2>3. less + a <= sent + b
    BY <2>1, <2>2
  <2> QED
    BY <2>3 DEF a, b
<1>9. Covers(w, sent, less)
  BY <1>7, <1>8 DEF Covers, Covered
<1> QED
  BY <1>9 DEF w

\* The network after each kind of change.
LEMMA HoldsAfterSend ==
  ASSUME NEW ch \in [Link -> Seq(Message)], NEW sent \in [Node -> [Node -> Nat]],
         NEW dis \in [Node -> [Route -> Nat]], Holds(ch, sent, dis),
         NEW n \in Node, NEW to, NEW m \in Message, NEW more \in [Node -> [Node -> Nat]],
         \A x, y \in Node :
           IF x = n /\ y \in to
             THEN sent[x][y] + One(m, "HaveTx") <= more[x][y] + One(m, "ResetRoute")
             ELSE more[x][y] = sent[x][y]
  PROVE  Holds(Send(ch, n, to, m), more, dis)
<1> SUFFICES ASSUME NEW x \in Node, NEW y \in Node
             PROVE  Covers(Send(ch, n, to, m)[<<x, y>>], more[x][y], Closed(dis[y], x))
  BY DEF Holds
<1>1. <<x, y>> \in Link /\ ch[<<x, y>>] \in Seq(Message)
  BY DEF Link
<1>2. Send(ch, n, to, m)[<<x, y>>] = IF x = n /\ y \in to THEN Append(ch[<<x, y>>], m) ELSE ch[<<x, y>>]
  BY <1>1 DEF Send
<1>3. Covers(ch[<<x, y>>], sent[x][y], Closed(dis[y], x))
  BY DEF Holds
<1>4. sent[x][y] \in Nat /\ more[x][y] \in Nat /\ Closed(dis[y], x) \in Nat
  <2>1. sent[x] \in [Node -> Nat] /\ more[x] \in [Node -> Nat] /\ dis[y] \in [Route -> Nat]
    OBVIOUS
  <2>2. Closed(dis[y], x) \in Nat
    BY <2>1, ClosedSums
  <2> QED
    BY <2>1, <2>2
<1>5. CASE x = n /\ y \in to
  <2>1. sent[x][y] + One(m, "HaveTx") <= more[x][y] + One(m, "ResetRoute")
    BY <1>5
  <2>2. Covers(Append(ch[<<x, y>>], m), more[x][y], Closed(dis[y], x))
    BY <1>1, <1>3, <1>4, <2>1, CoversSent
  <2> QED
    BY <1>2, <1>5, <2>2
<1>6. CASE ~(x = n /\ y \in to)
  BY <1>2, <1>3, <1>6
<1> QED
  BY <1>5, <1>6

\* A transaction is sent.
LEMMA HoldsAfterTx ==
  ASSUME NEW ch \in [Link -> Seq(Message)], NEW sent \in [Node -> [Node -> Nat]],
         NEW dis \in [Node -> [Route -> Nat]], Holds(ch, sent, dis),
         NEW n \in Node, NEW to, NEW m \in Message, IsTx(m)
  PROVE  Holds(Send(ch, n, to, m), sent, dis)
<1>1. One(m, "HaveTx") = 0 /\ One(m, "ResetRoute") = 0
  BY DEF One, IsTx
<1>2. \A x, y \in Node : sent[x][y] + One(m, "HaveTx") <= sent[x][y] + One(m, "ResetRoute")
  <2> SUFFICES ASSUME NEW x \in Node, NEW y \in Node
               PROVE  sent[x][y] + One(m, "HaveTx") <= sent[x][y] + One(m, "ResetRoute")
    OBVIOUS
  <2>1. sent[x][y] \in Nat
    OBVIOUS
  <2> QED
    BY <1>1, <2>1
<1> QED
  BY <1>2, HoldsAfterSend

\* A HaveTx is sent and registered.
LEMMA HoldsAfterHaveTx ==
  ASSUME NEW ch \in [Link -> Seq(Message)], NEW sent \in [Node -> [Node -> Nat]],
         NEW dis \in [Node -> [Route -> Nat]], Holds(ch, sent, dis),
         NEW n \in Node, NEW p \in Node, NEW m \in Message, m.kind = "HaveTx"
  PROVE  Holds(Send(ch, n, {p}, m), [sent EXCEPT ![n] = RegisterHaveTxSent(sent[n], p)], dis)
<1> DEFINE more == [sent EXCEPT ![n] = RegisterHaveTxSent(sent[n], p)]
<1>1. One(m, "HaveTx") = 1 /\ One(m, "ResetRoute") = 0
  BY DEF One
<1>2. sent[n] \in [Node -> Nat] /\ sent[n][p] \in Nat
  OBVIOUS
<1>3. /\ RegisterHaveTxSent(sent[n], p) \in [Node -> Nat]
      /\ RegisterHaveTxSent(sent[n], p)[p] = sent[n][p] + 1
      /\ \A y \in Node \ {p} : RegisterHaveTxSent(sent[n], p)[y] = sent[n][y]
  BY <1>2 DEF RegisterHaveTxSent
<1>4. /\ more \in [Node -> [Node -> Nat]] /\ more[n] = RegisterHaveTxSent(sent[n], p)
      /\ \A x \in Node \ {n} : more[x] = sent[x]
  BY <1>3
<1> HIDE DEF more
<1>5. ASSUME NEW x \in Node, NEW y \in Node
      PROVE  IF x = n /\ y \in {p}
               THEN sent[x][y] + One(m, "HaveTx") <= more[x][y] + One(m, "ResetRoute")
               ELSE more[x][y] = sent[x][y]
  <2>1. CASE x = n /\ y \in {p}
    <3>1. more[x][y] = sent[n][p] + 1 /\ sent[x][y] = sent[n][p]
      BY <1>3, <1>4, <2>1
    <3>2. sent[x][y] + One(m, "HaveTx") <= more[x][y] + One(m, "ResetRoute")
      BY <1>1, <1>2, <3>1
    <3> QED
      BY <2>1, <3>2
  <2>2. CASE ~(x = n /\ y \in {p})
    BY <1>3, <1>4, <2>2
  <2> QED
    BY <2>1, <2>2
<1>6. Holds(Send(ch, n, {p}, m), more, dis)
  BY <1>4, <1>5, HoldsAfterSend
<1> QED
  BY <1>6 DEF more

\* A ResetRoute is sent and a HaveTx unregistered.
LEMMA HoldsAfterReset ==
  ASSUME NEW ch \in [Link -> Seq(Message)], NEW sent \in [Node -> [Node -> Nat]],
         NEW dis \in [Node -> [Route -> Nat]], Holds(ch, sent, dis),
         NEW n \in Node, NEW p \in Node, sent[n][p] > 0, NEW m \in Message, m.kind = "ResetRoute"
  PROVE  Holds(Send(ch, n, {p}, m), [sent EXCEPT ![n] = RemoveHaveTxSent(sent[n], p)], dis)
<1> DEFINE more == [sent EXCEPT ![n] = RemoveHaveTxSent(sent[n], p)]
<1>1. One(m, "HaveTx") = 0 /\ One(m, "ResetRoute") = 1
  BY DEF One
<1>2. sent[n] \in [Node -> Nat] /\ sent[n][p] \in Nat
  OBVIOUS
<1>3. /\ RemoveHaveTxSent(sent[n], p) \in [Node -> Nat]
      /\ RemoveHaveTxSent(sent[n], p)[p] = sent[n][p] - 1
      /\ \A y \in Node \ {p} : RemoveHaveTxSent(sent[n], p)[y] = sent[n][y]
  BY <1>2 DEF RemoveHaveTxSent
<1>4. /\ more \in [Node -> [Node -> Nat]] /\ more[n] = RemoveHaveTxSent(sent[n], p)
      /\ \A x \in Node \ {n} : more[x] = sent[x]
  BY <1>3
<1> HIDE DEF more
<1>5. ASSUME NEW x \in Node, NEW y \in Node
      PROVE  IF x = n /\ y \in {p}
               THEN sent[x][y] + One(m, "HaveTx") <= more[x][y] + One(m, "ResetRoute")
               ELSE more[x][y] = sent[x][y]
  <2>1. CASE x = n /\ y \in {p}
    <3>1. more[x][y] = sent[n][p] - 1 /\ sent[x][y] = sent[n][p]
      BY <1>3, <1>4, <2>1
    <3>2. sent[x][y] + One(m, "HaveTx") <= more[x][y] + One(m, "ResetRoute")
      BY <1>1, <1>2, <3>1
    <3> QED
      BY <2>1, <3>2
  <2>2. CASE ~(x = n /\ y \in {p})
    BY <1>3, <1>4, <2>2
  <2> QED
    BY <2>1, <2>2
<1>6. Holds(Send(ch, n, {p}, m), more, dis)
  BY <1>4, <1>5, HoldsAfterSend
<1> QED
  BY <1>6 DEF more

\* A message is taken off the link from p to n, and n's routes change.
LEMMA HoldsAfterTake ==
  ASSUME NEW ch \in [Link -> Seq(Message)], NEW sent \in [Node -> [Node -> Nat]],
         NEW dis \in [Node -> [Route -> Nat]], Holds(ch, sent, dis),
         NEW n \in Node, NEW p \in Node, NEW i,
         NEW routes,
         Covers(RemoveAt(ch[<<p, n>>], i), sent[p][n], Closed(routes, p)),
         \A x \in Node \ {p} : Closed(routes, x) = Closed(dis[n], x)
  PROVE  Holds(Take(ch, <<p, n>>, i), sent, [dis EXCEPT ![n] = routes])
<1> DEFINE w == Take(ch, <<p, n>>, i)
           next == [dis EXCEPT ![n] = routes]
<1>1. <<p, n>> \in Link
  BY DEF Link
<1>2. w[<<p, n>>] = RemoveAt(ch[<<p, n>>], i) /\ \A l \in Link \ {<<p, n>>} : w[l] = ch[l]
  BY <1>1 DEF Take
<1>3. next[n] = routes /\ \A y \in Node \ {n} : next[y] = dis[y]
  OBVIOUS
<1> HIDE DEF w, next
<1>4. ASSUME NEW x \in Node, NEW y \in Node
      PROVE  Covers(w[<<x, y>>], sent[x][y], Closed(next[y], x))
  <2>1. Covers(ch[<<x, y>>], sent[x][y], Closed(dis[y], x))
    BY DEF Holds
  <2>2. CASE x = p /\ y = n
    BY <1>2, <1>3, <2>2
  <2>3. CASE ~(x = p /\ y = n)
    <3>1. <<x, y>> \in Link \ {<<p, n>>}
      BY <2>3 DEF Link
    <3>2. Closed(next[y], x) = Closed(dis[y], x)
      BY <1>3, <2>3
    <3> QED
      BY <1>2, <2>1, <3>1, <3>2
  <2> QED
    BY <2>2, <2>3
<1>5. Holds(w, sent, next)
  BY <1>4 DEF Holds
<1> QED
  BY <1>5 DEF w, next

\* A transaction or a HaveTx is taken and no route changed.
LEMMA HoldsAfterTakeTx ==
  ASSUME NEW ch \in [Link -> Seq(Message)], NEW sent \in [Node -> [Node -> Nat]],
         NEW dis \in [Node -> [Route -> Nat]], Holds(ch, sent, dis),
         NEW n \in Node, NEW p \in Node, NEW i \in DOMAIN ch[<<p, n>>],
         ch[<<p, n>>][i].kind # "ResetRoute"
  PROVE  Holds(Take(ch, <<p, n>>, i), sent, dis)
<1>1. /\ ch[<<p, n>>] \in Seq(Message) /\ dis[n] \in [Route -> Nat]
      /\ sent[p] \in [Node -> Nat] /\ sent[p][n] \in Nat
  BY DEF Link
<1>2. Covers(ch[<<p, n>>], sent[p][n], Closed(dis[n], p)) /\ Closed(dis[n], p) \in Nat
  BY <1>1, ClosedSums DEF Holds
<1>3. Closed(dis[n], p) <= Closed(dis[n], p) + One(ch[<<p, n>>][i], "HaveTx")
  BY <1>2 DEF One
<1>4. Covers(RemoveAt(ch[<<p, n>>], i), sent[p][n], Closed(dis[n], p))
  BY <1>1, <1>2, <1>3, CoversTaken
<1>5. Holds(Take(ch, <<p, n>>, i), sent, [dis EXCEPT ![n] = dis[n]])
  BY <1>4, HoldsAfterTake
<1>6. [dis EXCEPT ![n] = dis[n]] = dis
  OBVIOUS
<1> QED
  BY <1>5, <1>6

\* A HaveTx is taken and a route closed.
LEMMA HoldsAfterClose ==
  ASSUME NEW ch \in [Link -> Seq(Message)], NEW sent \in [Node -> [Node -> Nat]],
         NEW dis \in [Node -> [Route -> Nat]], Holds(ch, sent, dis),
         NEW n \in Node, NEW p \in Node, NEW i \in DOMAIN ch[<<p, n>>],
         ch[<<p, n>>][i].kind = "HaveTx", NEW s \in Node
  PROVE  Holds(Take(ch, <<p, n>>, i), sent, [dis EXCEPT ![n] = DisableRoute(dis[n], s, p)])
<1>1. /\ ch[<<p, n>>] \in Seq(Message) /\ dis[n] \in [Route -> Nat]
      /\ sent[p] \in [Node -> Nat] /\ sent[p][n] \in Nat
  BY DEF Link
<1>2. Covers(ch[<<p, n>>], sent[p][n], Closed(dis[n], p)) /\ Closed(dis[n], p) \in Nat
  BY <1>1, ClosedSums DEF Holds
<1> DEFINE routes == DisableRoute(dis[n], s, p)
<1>3. ASSUME NEW x \in Node
      PROVE  Closed(routes, x) = IF p = x THEN Closed(dis[n], x) + 1 ELSE Closed(dis[n], x)
  <2>1. \A s2, p2 \in Node : Closed(DisableRoute(dis[n], s2, p2), x)
                              = IF p2 = x THEN Closed(dis[n], x) + 1 ELSE Closed(dis[n], x)
    <3> HIDE DEF routes
    <3> QED
      BY <1>1, ClosedSums
  <2> QED
    BY <2>1, Zenon
<1> HIDE DEF routes
<1>4. Closed(routes, p) = Closed(dis[n], p) + 1 /\ Closed(routes, p) \in Nat
  BY <1>2, <1>3
<1>5. Closed(routes, p) <= Closed(dis[n], p) + One(ch[<<p, n>>][i], "HaveTx")
  BY <1>2, <1>4 DEF One
<1>6. ch[<<p, n>>][i].kind # "ResetRoute"
  OBVIOUS
<1>7. Covers(RemoveAt(ch[<<p, n>>], i), sent[p][n], Closed(routes, p))
  BY <1>1, <1>2, <1>4, <1>5, <1>6, CoversTaken
<1>8. Holds(Take(ch, <<p, n>>, i), sent, [dis EXCEPT ![n] = routes])
  BY <1>3, <1>7, HoldsAfterTake
<1> QED
  BY <1>8 DEF routes

\* A ResetRoute is taken and a route opened, if one is closed.
LEMMA HoldsAfterOpen ==
  ASSUME NEW ch \in [Link -> Seq(Message)], NEW sent \in [Node -> [Node -> Nat]],
         NEW dis \in [Node -> [Route -> Nat]], Holds(ch, sent, dis),
         NEW n \in Node, NEW p \in Node, NEW i \in Deliverable(ch[<<p, n>>]),
         ch[<<p, n>>][i].kind = "ResetRoute"
  PROVE  /\ ClosedRoutesTo(dis[n], p) = {} => Holds(Take(ch, <<p, n>>, i), sent, dis)
         /\ \A r \in ClosedRoutesTo(dis[n], p) :
              Holds(Take(ch, <<p, n>>, i), sent, [dis EXCEPT ![n] = EnableRoute(dis[n], r)])
<1>1. /\ ch[<<p, n>>] \in Seq(Message) /\ dis[n] \in [Route -> Nat]
      /\ sent[p] \in [Node -> Nat] /\ sent[p][n] \in Nat
  BY DEF Link
<1>2. Covers(ch[<<p, n>>], sent[p][n], Closed(dis[n], p)) /\ Closed(dis[n], p) \in Nat
  BY <1>1, ClosedSums DEF Holds
<1>3. ASSUME ClosedRoutesTo(dis[n], p) = {} PROVE Holds(Take(ch, <<p, n>>, i), sent, dis)
  <2>1. Closed(dis[n], p) = 0
    BY <1>1, <1>3, ClosedSums
  <2>2. Covers(RemoveAt(ch[<<p, n>>], i), sent[p][n], Closed(dis[n], p))
    BY <1>1, <1>2, <2>1, CoversReset
  <2>3. Holds(Take(ch, <<p, n>>, i), sent, [dis EXCEPT ![n] = dis[n]])
    BY <2>2, HoldsAfterTake
  <2>4. [dis EXCEPT ![n] = dis[n]] = dis
    OBVIOUS
  <2> QED
    BY <2>3, <2>4
<1>4. ASSUME NEW r \in ClosedRoutesTo(dis[n], p)
      PROVE  Holds(Take(ch, <<p, n>>, i), sent, [dis EXCEPT ![n] = EnableRoute(dis[n], r)])
  <2> DEFINE routes == EnableRoute(dis[n], r)
  <2>1. Closed(routes, p) \in Nat /\ Closed(dis[n], p) = Closed(routes, p) + 1
    BY <1>1, ClosedSums
  <2>2. ASSUME NEW x \in Node \ {p} PROVE Closed(routes, x) = Closed(dis[n], x)
    <3>1. x \in Node /\ dis[n] \in [Route -> Nat]
      BY <1>1
    <3>2. \A p2 \in Node : \A r2 \in ClosedRoutesTo(dis[n], p2) :
            /\ Closed(EnableRoute(dis[n], r2), x) \in Nat
            /\ p2 = x => Closed(EnableRoute(dis[n], r2), x) + 1 = Closed(dis[n], x)
            /\ p2 # x => Closed(EnableRoute(dis[n], r2), x) = Closed(dis[n], x)
      BY <3>1, ClosedSums
    <3> QED
      BY <3>2, Zenon
  <2> HIDE DEF routes
  <2>3. Covers(RemoveAt(ch[<<p, n>>], i), sent[p][n], Closed(routes, p))
    BY <1>1, <1>2, <2>1, CoversReset
  <2>4. Holds(Take(ch, <<p, n>>, i), sent, [dis EXCEPT ![n] = routes])
    BY <2>2, <2>3, HoldsAfterTake
  <2> QED
    BY <2>4 DEF routes
<1> QED
  BY <1>3, <1>4

\* The connection of n to p is closed.
LEMMA HoldsAfterClosed ==
  ASSUME NEW ch \in [Link -> Seq(Message)], NEW sent \in [Node -> [Node -> Nat]],
         NEW dis \in [Node -> [Route -> Nat]], Holds(ch, sent, dis), NEW n \in Node, NEW p \in Node
  PROVE  Holds([ch EXCEPT ![<<p, n>>] = <<>>], sent, [dis EXCEPT ![n] = ResetRoutesWithPeer(dis[n], p)])
<1> DEFINE w == [ch EXCEPT ![<<p, n>>] = <<>>]
           routes == ResetRoutesWithPeer(dis[n], p)
           next == [dis EXCEPT ![n] = routes]
<1>1. <<p, n>> \in Link /\ dis[n] \in [Route -> Nat] /\ sent[p] \in [Node -> Nat] /\ sent[p][n] \in Nat
  BY DEF Link
<1>2. w[<<p, n>>] = <<>> /\ \A l \in Link \ {<<p, n>>} : w[l] = ch[l]
  BY <1>1
<1>3. next[n] = routes /\ \A y \in Node \ {n} : next[y] = dis[y]
  OBVIOUS
<1>4. /\ \A x \in Node : Closed(routes, x) \in Nat /\ Closed(routes, x) <= Closed(dis[n], x)
      /\ Closed(routes, p) = 0
  BY <1>1, ClosedSums
<1> HIDE DEF w, routes, next
<1>5. ASSUME NEW x \in Node, NEW y \in Node
      PROVE  Covers(w[<<x, y>>], sent[x][y], Closed(next[y], x))
  <2>1. Covers(ch[<<x, y>>], sent[x][y], Closed(dis[y], x))
    BY DEF Holds
  <2>2. CASE x = p /\ y = n
    BY <1>1, <1>2, <1>3, <1>4, <2>2, CoversNothing
  <2>3. CASE ~(x = p /\ y = n)
    <3>1. <<x, y>> \in Link \ {<<p, n>>}
      BY <2>3 DEF Link
    <3>2. w[<<x, y>>] = ch[<<x, y>>] /\ ch[<<x, y>>] \in Seq(Message)
      BY <1>2, <3>1
    <3>3. sent[x][y] \in Nat /\ dis[y] \in [Route -> Nat]
      <4>1. sent[x] \in [Node -> Nat]
        OBVIOUS
      <4> QED
        BY <4>1
    <3>4. Closed(dis[y], x) \in Nat
      BY <3>3, ClosedSums
    <3>5. CASE y = n
      BY <1>3, <1>4, <2>1, <3>2, <3>3, <3>4, <3>5, CoversLess
    <3>6. CASE y # n
      BY <1>3, <2>1, <3>2, <3>6
    <3> QED
      BY <3>5, <3>6
  <2> QED
    BY <2>2, <2>3
<1>6. Holds(w, sent, next)
  BY <1>5 DEF Holds
<1> QED
  BY <1>6 DEF w, routes, next

\* A new connection between n and p, who have closed no route to each other.
LEMMA HoldsAfterDial ==
  ASSUME NEW ch \in [Link -> Seq(Message)], NEW sent \in [Node -> [Node -> Nat]],
         NEW dis \in [Node -> [Route -> Nat]], Holds(ch, sent, dis), NEW n \in Node, NEW p \in Node,
         ClosedRoutesTo(dis[n], p) = {}, ClosedRoutesTo(dis[p], n) = {}
  PROVE  Holds([ch EXCEPT ![<<n, p>>] = <<>>, ![<<p, n>>] = <<>>], sent, dis)
<1> DEFINE w == [ch EXCEPT ![<<n, p>>] = <<>>, ![<<p, n>>] = <<>>]
<1>1. <<p, n>> \in Link /\ <<n, p>> \in Link /\ dis[n] \in [Route -> Nat] /\ dis[p] \in [Route -> Nat]
  BY DEF Link
<1>2. \A l \in Link : w[l] = IF l \in {<<n, p>>, <<p, n>>} THEN <<>> ELSE ch[l]
  BY <1>1
<1>3. Closed(dis[n], p) = 0 /\ Closed(dis[p], n) = 0
  BY <1>1, ClosedSums
<1> HIDE DEF w
<1>4. ASSUME NEW x \in Node, NEW y \in Node
      PROVE  Covers(w[<<x, y>>], sent[x][y], Closed(dis[y], x))
  <2>1. <<x, y>> \in Link /\ sent[x] \in [Node -> Nat]
    BY DEF Link
  <2>2. sent[x][y] \in Nat
    BY <2>1
  <2>3. CASE <<x, y>> \in {<<n, p>>, <<p, n>>}
    <3>1. w[<<x, y>>] = <<>> /\ Closed(dis[y], x) = 0
      BY <1>2, <1>3, <2>1, <2>3
    <3> QED
      BY <2>2, <3>1, CoversNothing
  <2>4. CASE <<x, y>> \notin {<<n, p>>, <<p, n>>}
    BY <1>2, <2>1, <2>4 DEF Holds
  <2> QED
    BY <2>3, <2>4
<1>5. Holds(w, sent, dis)
  BY <1>4 DEF Holds
<1> QED
  BY <1>5 DEF w

\* adjust_redundancy sends a ResetRoute for a HaveTx it has registered.
LEMMA AdjustHolds ==
  ASSUME TypeOK, NEW n \in Node, NEW peers, NEW ch \in [Link -> Seq(Message)],
         NEW dis \in [Node -> [Route -> Nat]], Holds(ch, haveTxSent, dis),
         AdjustRedundancy(n, peers, ch)
  PROVE  Holds(chan', haveTxSent', dis)
<1>1. CASE chan' = ch /\ UNCHANGED haveTxSent
  BY <1>1
<1>2. CASE \E q \in ResetCandidates(n) \cap peers :
             /\ chan' = Send(ch, n, {q}, [kind |-> "ResetRoute"])
             /\ haveTxSent' = [haveTxSent EXCEPT ![n] = RemoveHaveTxSent(@, q)]
  <2>1. PICK q \in ResetCandidates(n) :
             /\ chan' = Send(ch, n, {q}, [kind |-> "ResetRoute"])
             /\ haveTxSent' = [haveTxSent EXCEPT ![n] = RemoveHaveTxSent(haveTxSent[n], q)]
    BY <1>2
  <2>2. q \in Node /\ haveTxSent[n][q] > 0
    BY DEF ResetCandidates, HaveTxSentPeers
  <2> DEFINE m == [kind |-> "ResetRoute"]
  <2>3. m \in Message /\ m.kind = "ResetRoute"
    BY NewMessages
  <2>4. chan' = Send(ch, n, {q}, m)
    BY <2>1
  <2>5. haveTxSent \in [Node -> [Node -> Nat]]
    BY DEF TypeOK
  <2> HIDE DEF m
  <2>6. Holds(Send(ch, n, {q}, m), [haveTxSent EXCEPT ![n] = RemoveHaveTxSent(haveTxSent[n], q)], dis)
    BY <2>2, <2>3, <2>5, HoldsAfterReset
  <2> QED
    BY <2>1, <2>4, <2>6
<1> QED
  BY <1>1, <1>2 DEF AdjustRedundancy

\* A transaction is received.
LEMMA TransactionHolds ==
  ASSUME TypeOK, Reopenable, NEW n \in Node, NEW p \in Node, ReceiveTransaction(n, p)
  PROVE  Reopenable'
<1> DEFINE l == <<p, n>>
<1>1. PICK i \in Deliverable(chan[l]), c \in Unexpired(cache[n]) :
        /\ IsTx(chan[l][i])
        /\ ReceiveFirst(n, p, i, c) \/ ReceiveDuplicate(n, p, i, c)
  BY DEF ReceiveTransaction
<1> DEFINE tx == chan[l][i].tx
           rest == Take(chan, l, i)
<1>2. l \in Link /\ i \in DOMAIN chan[l] /\ chan[l] \in Seq(Message)
  BY DEF TypeOK, Link, Deliverable
<1>3. tx \in Tx /\ chan[l][i].kind # "ResetRoute"
  BY <1>1, <1>2, MessageTx DEF IsTx
<1>4. /\ chan \in [Link -> Seq(Message)] /\ haveTxSent \in [Node -> [Node -> Nat]]
      /\ disabled \in [Node -> [Route -> Nat]]
  BY DEF TypeOK
<1>5. rest \in [Link -> Seq(Message)]
  BY <1>2, <1>4, TakeProperties
<1>6. Holds(rest, haveTxSent, disabled)
  BY <1>2, <1>3, <1>4, HoldsAfterTakeTx DEF Reopenable
<1>7. UNCHANGED disabled
  BY DEF ReceiveTransaction
<1>8. CASE ReceiveFirst(n, p, i, c)
  <2> DEFINE m == [kind |-> "Forward", tx |-> tx]
  <2>1. PICK to : chan' = Send(rest, n, to, m)
    BY <1>8 DEF ReceiveFirst
  <2>2. m \in Message /\ IsTx(m)
    BY <1>3, NewMessages DEF IsTx
  <2>3. UNCHANGED haveTxSent
    BY <1>8 DEF ReceiveFirst
  <2> HIDE DEF m, rest
  <2>4. Holds(Send(rest, n, to, m), haveTxSent, disabled)
    BY <1>4, <1>5, <1>6, <2>2, HoldsAfterTx
  <2> QED
    BY <1>7, <2>1, <2>3, <2>4 DEF Reopenable
<1>9. CASE ReceiveDuplicate(n, p, i, c)
  <2> DEFINE m == [kind |-> "HaveTx", tx |-> tx]
  <2>1. \/ /\ haveTxSent' = [haveTxSent EXCEPT ![n] = RegisterHaveTxSent(haveTxSent[n], p)]
           /\ chan' = Send(rest, n, {p}, m)
        \/ chan' = rest /\ UNCHANGED haveTxSent
    BY <1>9 DEF ReceiveDuplicate
  <2>2. m \in Message /\ m.kind = "HaveTx"
    BY <1>3, NewMessages
  <2> HIDE DEF m, rest
  <2>3. Holds(Send(rest, n, {p}, m),
              [haveTxSent EXCEPT ![n] = RegisterHaveTxSent(haveTxSent[n], p)], disabled)
    BY <1>4, <1>5, <1>6, <2>2, HoldsAfterHaveTx
  <2> QED
    BY <1>6, <1>7, <2>1, <2>3 DEF Reopenable
<1> QED
  BY <1>1, <1>8, <1>9

\* A HaveTx or a ResetRoute is received.
LEMMA ControlHolds ==
  ASSUME TypeOK, Reopenable, NEW n \in Node, NEW p \in Node,
         ReceiveHaveTx(n, p) \/ ReceiveResetRoute(n, p)
  PROVE  Reopenable'
<1>1. /\ chan \in [Link -> Seq(Message)] /\ haveTxSent \in [Node -> [Node -> Nat]]
      /\ disabled \in [Node -> [Route -> Nat]]
  BY DEF TypeOK
<1>2. UNCHANGED haveTxSent
  BY DEF ReceiveHaveTx, ReceiveResetRoute
<1>3. CASE ReceiveHaveTx(n, p)
  <2>1. PICK i \in Deliverable(chan[<<p, n>>]) :
          /\ chan[<<p, n>>][i].kind = "HaveTx"
          /\ chan' = Take(chan, <<p, n>>, i)
          /\ \/ \E s \in Node : disabled' = [disabled EXCEPT ![n] = DisableRoute(disabled[n], s, p)]
             \/ UNCHANGED disabled
    BY <1>3 DEF ReceiveHaveTx
  <2>2. i \in DOMAIN chan[<<p, n>>] /\ chan[<<p, n>>][i].kind # "ResetRoute"
    BY <2>1 DEF Deliverable
  <2>3. Holds(Take(chan, <<p, n>>, i), haveTxSent, disabled)
    BY <1>1, <2>2, HoldsAfterTakeTx DEF Reopenable
  <2>4. \A s \in Node : Holds(Take(chan, <<p, n>>, i), haveTxSent,
                              [disabled EXCEPT ![n] = DisableRoute(disabled[n], s, p)])
    BY <1>1, <2>1, <2>2, HoldsAfterClose DEF Reopenable
  <2> QED
    BY <1>2, <2>1, <2>3, <2>4 DEF Reopenable
<1>4. CASE ReceiveResetRoute(n, p)
  <2>1. PICK i \in Deliverable(chan[<<p, n>>]) :
          /\ chan[<<p, n>>][i].kind = "ResetRoute"
          /\ chan' = Take(chan, <<p, n>>, i)
          /\ \/ \E r \in ClosedRoutesTo(disabled[n], p) :
                  disabled' = [disabled EXCEPT ![n] = EnableRoute(disabled[n], r)]
             \/ ClosedRoutesTo(disabled[n], p) = {} /\ UNCHANGED disabled
    BY <1>4 DEF ReceiveResetRoute
  <2>2. /\ ClosedRoutesTo(disabled[n], p) = {} => Holds(Take(chan, <<p, n>>, i), haveTxSent, disabled)
        /\ \A r \in ClosedRoutesTo(disabled[n], p) :
             Holds(Take(chan, <<p, n>>, i), haveTxSent,
                   [disabled EXCEPT ![n] = EnableRoute(disabled[n], r)])
    BY <1>1, <2>1, HoldsAfterOpen DEF Reopenable
  <2> QED
    BY <1>2, <2>1, <2>2 DEF Reopenable
<1> QED
  BY <1>3, <1>4

\* A connection is dialled or closed.
LEMMA ConnectionHolds ==
  ASSUME TypeOK, ClosedRouteHasLiveTarget, Reopenable, NEW n \in Node, NEW p \in Node,
         Dial(n, p) \/ Accept(n, p) \/ ConnectionClosed(n, p)
  PROVE  Reopenable'
<1>1. /\ chan \in [Link -> Seq(Message)] /\ haveTxSent \in [Node -> [Node -> Nat]]
      /\ disabled \in [Node -> [Route -> Nat]]
  BY DEF TypeOK
<1>2. CASE Dial(n, p)
  <2>1. /\ p \notin connected[n] /\ n \notin connected[p]
        /\ chan' = [chan EXCEPT ![<<n, p>>] = <<>>, ![<<p, n>>] = <<>>]
        /\ UNCHANGED <<disabled, haveTxSent>>
    BY <1>2 DEF Dial, routing
  <2>2. ClosedRoutesTo(disabled[n], p) = {} /\ ClosedRoutesTo(disabled[p], n) = {}
    BY <2>1 DEF ClosedRouteHasLiveTarget, ClosedRoutesTo
  <2>3. Holds([chan EXCEPT ![<<n, p>>] = <<>>, ![<<p, n>>] = <<>>], haveTxSent, disabled)
    BY <1>1, <2>2, HoldsAfterDial DEF Reopenable
  <2> QED
    BY <2>1, <2>3 DEF Reopenable
<1>3. CASE Accept(n, p)
  BY <1>3 DEF Accept, routing, Reopenable
<1>4. CASE ConnectionClosed(n, p)
  <2> DEFINE ch == [chan EXCEPT ![<<p, n>>] = <<>>]
             dis == [disabled EXCEPT ![n] = ResetRoutesWithPeer(disabled[n], p)]
  <2>1. AdjustRedundancy(n, connected[n] \ {p}, ch) /\ disabled' = dis
    BY <1>4 DEF ConnectionClosed
  <2>2. ch \in [Link -> Seq(Message)]
    BY <1>1 DEF Link
  <2>3. dis \in [Node -> [Route -> Nat]]
    <3>1. ResetRoutesWithPeer(disabled[n], p) \in [Route -> Nat]
      BY <1>1 DEF ResetRoutesWithPeer
    <3> QED
      BY <1>1, <3>1
  <2>4. Holds(ch, haveTxSent, dis)
    BY <1>1, HoldsAfterClosed DEF Reopenable
  <2> HIDE DEF ch, dis
  <2>5. Holds(chan', haveTxSent', dis)
    BY <2>1, <2>2, <2>3, <2>4, AdjustHolds
  <2> QED
    BY <2>1, <2>5 DEF Reopenable
<1> QED
  BY <1>2, <1>3, <1>4

\* A transaction is published, and one is dropped at its queue's timeout.
LEMMA TrafficHolds ==
  ASSUME TypeOK, Reopenable, NEW n \in Node, NEW p \in Node, Publish(n) \/ TransactionDropped(n, p)
  PROVE  Reopenable'
<1>1. /\ chan \in [Link -> Seq(Message)] /\ haveTxSent \in [Node -> [Node -> Nat]]
      /\ disabled \in [Node -> [Route -> Nat]]
  BY DEF TypeOK
<1>2. UNCHANGED <<disabled, haveTxSent>>
  BY DEF Publish, TransactionDropped, routing
<1>3. CASE Publish(n)
  <2> DEFINE tx == [from |-> n, seqno |-> seqno[n] + 1]
             m == [kind |-> "Publish", tx |-> tx]
  <2>1. PICK to : chan' = Send(chan, n, to, m)
    BY <1>3 DEF Publish
  <2>2. tx \in Tx
    BY DEF TypeOK, Tx
  <2>3. m \in Message /\ IsTx(m)
    BY <2>2, NewMessages DEF IsTx
  <2> HIDE DEF m
  <2>4. Holds(Send(chan, n, to, m), haveTxSent, disabled)
    BY <1>1, <2>3, HoldsAfterTx DEF Reopenable
  <2> QED
    BY <1>2, <2>1, <2>4 DEF Reopenable
<1>4. CASE TransactionDropped(n, p)
  <2>1. PICK i \in Stale(chan[<<n, p>>]) : chan' = Take(chan, <<n, p>>, i)
    BY <1>4 DEF TransactionDropped
  <2>2. i \in DOMAIN chan[<<n, p>>] /\ chan[<<n, p>>][i].kind # "ResetRoute"
    BY DEF Stale, Deliverable, IsTx
  <2>3. Holds(Take(chan, <<n, p>>, i), haveTxSent, disabled)
    BY <1>1, <2>2, HoldsAfterTakeTx DEF Reopenable
  <2> QED
    BY <1>2, <2>1, <2>3 DEF Reopenable
<1> QED
  BY <1>3, <1>4

\* A network whose substreams may lose nothing loses nothing.
LEMMA LosslessStep ==
  ASSUME TypeOK, NoLosses, Next
  PROVE  NoLosses'
<1> USE DEF NoLosses
<1>1. ASSUME NEW n \in Node, NEW c, SpendExpiry(n, c)
      PROVE  NoLosses'
  BY <1>1 DEF SpendExpiry, TypeOK, Budget
<1>2. ASSUME NEW n \in Node, Publish(n) PROVE NoLosses'
  BY <1>1, <1>2 DEF Publish
<1>3. ASSUME NEW n \in Node, NEW p \in Node, ReceiveTransaction(n, p) PROVE NoLosses'
  BY <1>1, <1>3 DEF ReceiveTransaction
<1>4. ASSUME NEW n \in Node, NEW p \in Node,
             \/ RedundancyInterval(n) \/ ReceiveHaveTx(n, p) \/ ReceiveResetRoute(n, p)
             \/ Accept(n, p) \/ TransactionDropped(n, p)
      PROVE  NoLosses'
  BY <1>4 DEF RedundancyInterval, ReceiveHaveTx, ReceiveResetRoute, Accept, TransactionDropped
<1>5. ASSUME NEW n \in Node, NEW p \in Node, Dial(n, p) \/ ConnectionClosed(n, p)
      PROVE  NoLosses'
  BY <1>5 DEF Dial, ConnectionClosed, TypeOK, Budget
<1>6. ASSUME NEW n \in Node, NEW p \in Node, MessageLost(n, p) PROVE FALSE
  BY <1>6 DEF MessageLost
<1> QED
  BY <1>2, <1>3, <1>4, <1>5, <1>6 DEF Next, Receive

\* No step of a network without losses leaves closed routes that the
\* registered HaveTx do not cover.
LEMMA ReopenableStep ==
  ASSUME TypeOK, ClosedRouteHasLiveTarget, NoLosses, Reopenable, [Next]_vars
  PROVE  Reopenable'
<1>1. CASE UNCHANGED vars
  BY <1>1 DEF vars, Reopenable
<1>2. ASSUME NEW n \in Node, Publish(n) PROVE Reopenable'
  BY <1>2, TrafficHolds
<1>3. ASSUME NEW n \in Node, RedundancyInterval(n) PROVE Reopenable'
  <2>1. /\ AdjustRedundancy(n, connected[n], chan) /\ UNCHANGED disabled
        /\ chan \in [Link -> Seq(Message)] /\ disabled \in [Node -> [Route -> Nat]]
    BY <1>3 DEF RedundancyInterval, TypeOK
  <2> QED
    BY <2>1, AdjustHolds DEF Reopenable
<1>4. ASSUME NEW n \in Node, NEW p \in Node, Receive(n, p) PROVE Reopenable'
  BY <1>4, TransactionHolds, ControlHolds DEF Receive
<1>5. ASSUME NEW n \in Node, NEW p \in Node,
             Dial(n, p) \/ Accept(n, p) \/ ConnectionClosed(n, p)
      PROVE  Reopenable'
  BY <1>5, ConnectionHolds
<1>6. ASSUME NEW n \in Node, NEW p \in Node, TransactionDropped(n, p) PROVE Reopenable'
  BY <1>6, TrafficHolds
<1>7. ASSUME NEW n \in Node, NEW p \in Node, MessageLost(n, p) PROVE FALSE
  BY <1>7 DEF MessageLost, NoLosses
<1> QED
  BY <1>1, <1>2, <1>3, <1>4, <1>5, <1>6, <1>7 DEF Next

\* The covering, taken over the whole channel, is the property.
LEMMA CoveredRoutesReopenable ==
  ASSUME TypeOK, Reopenable
  PROVE  ClosedRoutesReopenable
<1> SUFFICES ASSUME NEW a \in Node, NEW b \in Node
             PROVE  SumFunctionOnSet(disabled[b], Node \X {a})
                        + Cardinality(InFlight(<<a, b>>, {"HaveTx"}))
                      <= haveTxSent[a][b] + Cardinality(InFlight(<<a, b>>, {"ResetRoute"}))
  BY DEF ClosedRoutesReopenable
<1>1. ASSUME NEW kind PROVE InFlight(<<a, b>>, {kind}) = Behind(chan[<<a, b>>], 1, kind)
  <2>1. chan[<<a, b>>] \in Seq(Message)
    BY DEF TypeOK, Link
  <2>2. \A i \in DOMAIN chan[<<a, b>>] : i >= 1
    BY <2>1, LenProperties
  <2> QED
    BY <2>2 DEF InFlight, Behind
<1>2. Covers(chan[<<a, b>>], haveTxSent[a][b], Closed(disabled[b], a))
  BY DEF Reopenable, Holds
<1> QED
  BY <1>1, <1>2 DEF Covers, Count, Closed

\* As long as no substream fails, every closed route can be opened again:
\* whatever connections break and return, and however caches expire and queues
\* drop transactions, the peer that a route is closed to still counts a HaveTx
\* for it, or has a ResetRoute on the way.
THEOREM RoutesStayReopenable == MaxLoss = 0 /\ Spec => []ClosedRoutesReopenable
<1> SUFFICES ASSUME MaxLoss = 0 PROVE Spec => []ClosedRoutesReopenable
  OBVIOUS
<1>1. Init => NoLosses
  BY DEF Init, NoLosses
<1>2. Init => Reopenable
  <2> SUFFICES ASSUME Init, NEW x \in Node, NEW y \in Node
               PROVE  Covers(chan[<<x, y>>], haveTxSent[x][y], Closed(disabled[y], x))
    BY DEF Reopenable, Holds
  <2>1. chan[<<x, y>>] = <<>> /\ haveTxSent[x][y] = 0 /\ disabled[y] = NoRoutes
    BY DEF Init, Link, NoHaveTxSent
  <2>2. NoRoutes \in [Route -> Nat] /\ ClosedRoutesTo(NoRoutes, x) = {}
    BY DEF NoRoutes, ClosedRoutesTo
  <2>3. Closed(NoRoutes, x) = 0
    BY <2>2, ClosedSums
  <2> QED
    BY <2>1, <2>3, CoversNothing
<1>3. TypeOK /\ NoLosses /\ [Next]_vars => NoLosses'
  BY LosslessStep DEF NoLosses, vars
<1>4. TypeOK /\ ClosedRouteHasLiveTarget /\ NoLosses /\ Reopenable /\ [Next]_vars => Reopenable'
  BY ReopenableStep
<1>5. TypeOK /\ Reopenable => ClosedRoutesReopenable
  BY CoveredRoutesReopenable
<1> QED
  BY <1>1, <1>2, <1>3, <1>4, <1>5, TypeCorrect, LiveTargets, PTL DEF Spec

-----------------------------------------------------------------------------
(***************************************************************************)
(* How a transaction spreads while its cache entries live, under any churn,*)
(* full queues, stale drops and lost messages: OncePerLink,                *)
(* HaveTxHasAlternative and SourceTree, when no cache entry expires        *)
(* (MaxExpiries = 0).                                                      *)
(*                                                                         *)
(* The three depend on one another.  A node queues a transaction for a     *)
(* peer once because it does so when it caches it and a cached transaction *)
(* is never forwarded again: everything it ever queued (given) is in its   *)
(* cache, with another source than the peer.  The propagation source that  *)
(* a node records is whoever sent the copy it took, so the sources form a  *)
(* tree; and a HaveTx answers a second copy, which came over another link  *)
(* than the first.                                                         *)
(***************************************************************************)

-----------------------------------------------------------------------------
(* What the channels carry, as relations.                                  *)

Carries(ch, l, t) == \E i \in DOMAIN ch[l] : IsTx(ch[l][i]) /\ ch[l][i].tx = t
Asks(ch, l, t) == \E i \in DOMAIN ch[l] : ch[l][i].kind = "HaveTx" /\ ch[l][i].tx = t

NoTwice(ch) ==
  \A l \in Link : \A i, j \in DOMAIN ch[l] :
    IsTx(ch[l][i]) /\ IsTx(ch[l][j]) /\ ch[l][i].tx = ch[l][j].tx => i = j

\* Taking a message off a link: nothing new is carried, and the transaction
\* that is taken was the only copy.
LEMMA TakeRelations ==
  ASSUME NEW ch \in [Link -> Seq(Message)], NEW l \in Link, NEW i \in DOMAIN ch[l]
  PROVE  /\ \A k \in Link : \A t : Carries(Take(ch, l, i), k, t) => Carries(ch, k, t)
         /\ \A k \in Link : \A t : Asks(Take(ch, l, i), k, t) => Asks(ch, k, t)
         /\ NoTwice(ch) => NoTwice(Take(ch, l, i))
         /\ NoTwice(ch) /\ IsTx(ch[l][i]) => ~Carries(Take(ch, l, i), l, ch[l][i].tx)
<1> DEFINE d == Take(ch, l, i)
           f(j) == IF j < i THEN j ELSE j + 1
<1>1. /\ \A k \in Link \ {l} : d[k] = ch[k]
      /\ DOMAIN d[l] = 1 .. (Len(ch[l]) - 1)
      /\ \A j \in DOMAIN d[l] : d[l][j] = ch[l][f(j)]
  <2>1. ch[l] \in Seq(Message) /\ d = [ch EXCEPT ![l] = RemoveAt(ch[l], i)]
    BY DEF Take
  <2>2. /\ RemoveAt(ch[l], i) \in Seq(Message)
        /\ Len(RemoveAt(ch[l], i)) = Len(ch[l]) - 1
        /\ \A j \in DOMAIN RemoveAt(ch[l], i) : RemoveAt(ch[l], i)[j] = ch[l][f(j)]
    BY <2>1, RemoveAtElements
  <2>3. d[l] = RemoveAt(ch[l], i) /\ \A k \in Link \ {l} : d[k] = ch[k]
    BY <2>1
  <2> HIDE DEF d, f
  <2> QED
    BY <2>2, <2>3
<1>2. /\ i \in 1 .. Len(ch[l]) /\ Len(ch[l]) \in Nat /\ DOMAIN ch[l] = 1 .. Len(ch[l])
  OBVIOUS
<1>3. \A j \in DOMAIN d[l] : f(j) \in DOMAIN ch[l] /\ f(j) # i
  BY <1>1, <1>2
<1>4. \A j, k \in DOMAIN d[l] : f(j) = f(k) => j = k
  BY <1>1, <1>2
<1> HIDE DEF d, f
<1>5. \A k \in Link : \A t : Carries(d, k, t) => Carries(ch, k, t)
  BY <1>1, <1>3 DEF Carries
<1>6. \A k \in Link : \A t : Asks(d, k, t) => Asks(ch, k, t)
  BY <1>1, <1>3 DEF Asks
<1>7. NoTwice(ch) => NoTwice(d)
  <2> SUFFICES ASSUME NoTwice(ch), NEW k \in Link,
                      NEW x \in DOMAIN d[k], NEW y \in DOMAIN d[k],
                      IsTx(d[k][x]), IsTx(d[k][y]), d[k][x].tx = d[k][y].tx
               PROVE  x = y
    BY DEF NoTwice
  <2>1. CASE k # l
    BY <2>1, <1>1 DEF NoTwice
  <2>2. CASE k = l
    <3>1. d[l][x] = ch[l][f(x)] /\ d[l][y] = ch[l][f(y)]
      BY <2>2, <1>1
    <3>2. f(x) = f(y)
      BY <2>2, <3>1, <1>3 DEF NoTwice
    <3> QED
      BY <2>2, <3>2, <1>4
  <2> QED
    BY <2>1, <2>2
<1>8. NoTwice(ch) /\ IsTx(ch[l][i]) => ~Carries(d, l, ch[l][i].tx)
  BY <1>1, <1>3 DEF Carries, NoTwice
<1> QED
  BY <1>5, <1>6, <1>7, <1>8 DEF d

\* Sending a message: only the addressed links carry something new.
LEMMA SendRelations ==
  ASSUME NEW ch \in [Link -> Seq(Message)], NEW n \in Node, NEW to, NEW m \in Message
  PROVE  /\ \A l \in Link : \A t : Carries(Send(ch, n, to, m), l, t) =>
              Carries(ch, l, t) \/ (l[1] = n /\ l[2] \in to /\ IsTx(m) /\ m.tx = t)
         /\ \A l \in Link : \A t : Asks(Send(ch, n, to, m), l, t) =>
              Asks(ch, l, t) \/ (l[1] = n /\ l[2] \in to /\ m.kind = "HaveTx" /\ m.tx = t)
         /\ NoTwice(ch) /\ (IsTx(m) => \A p \in Node : ~Carries(ch, <<n, p>>, m.tx))
              => NoTwice(Send(ch, n, to, m))
<1> DEFINE d == Send(ch, n, to, m)
<1>1. \A l \in Link : \A j \in DOMAIN d[l] :
        \/ j \in DOMAIN ch[l] /\ d[l][j] = ch[l][j]
        \/ l[1] = n /\ l[2] \in to /\ j = Len(ch[l]) + 1 /\ d[l][j] = m
  BY SendProperties
<1> HIDE DEF d
<1>2. \A l \in Link : \A t : Carries(d, l, t) =>
        Carries(ch, l, t) \/ (l[1] = n /\ l[2] \in to /\ IsTx(m) /\ m.tx = t)
  BY <1>1 DEF Carries
<1>3. \A l \in Link : \A t : Asks(d, l, t) =>
        Asks(ch, l, t) \/ (l[1] = n /\ l[2] \in to /\ m.kind = "HaveTx" /\ m.tx = t)
  BY <1>1 DEF Asks
<1>4. ASSUME NoTwice(ch), IsTx(m) => \A p \in Node : ~Carries(ch, <<n, p>>, m.tx)
      PROVE  NoTwice(d)
  <2> SUFFICES ASSUME NEW l \in Link, NEW x \in DOMAIN d[l], NEW y \in DOMAIN d[l],
                      IsTx(d[l][x]), IsTx(d[l][y]), d[l][x].tx = d[l][y].tx
               PROVE  x = y
    BY DEF NoTwice
  <2>1. \A z \in DOMAIN ch[l] : IsTx(ch[l][z]) /\ IsTx(m) /\ l[1] = n => ch[l][z].tx # m.tx
    <3>1. l = <<l[1], l[2]>> /\ l[2] \in Node
      BY DEF Link
    <3> QED
      BY <3>1, <1>4 DEF Carries
  <2> DEFINE Old(z) == z \in DOMAIN ch[l] /\ d[l][z] = ch[l][z]
             New(z) == l[1] = n /\ z = Len(ch[l]) + 1 /\ d[l][z] = m
  <2>2. (Old(x) \/ New(x)) /\ (Old(y) \/ New(y))
    BY <1>1
  <2>3. CASE Old(x) /\ Old(y)
    BY <2>3, <1>4 DEF NoTwice
  <2>4. CASE New(x) /\ New(y)
    BY <2>4
  <2>5. CASE Old(x) /\ New(y)
    BY <2>5, <2>1
  <2>6. CASE New(x) /\ Old(y)
    BY <2>6, <2>1
  <2> QED
    BY <2>2, <2>3, <2>4, <2>5, <2>6
<1> QED
  BY <1>2, <1>3, <1>4 DEF d

-----------------------------------------------------------------------------
(* The inductive invariant.                                                *)

\* No node is linked to itself.
NoSelfLink ==
  /\ \A n \in Node : n \notin connected[n]
  /\ \A l \in pending : l[1] # l[2]

\* A node has one recorded source per transaction, and the source holds it.
OneSource ==
  \A n \in Node : \A t \in Tx : \A s, r \in Node :
    CachedFrom(cache[n], t, s) /\ CachedFrom(cache[n], t, r) => s = r

SourceHolds ==
  \A n \in Node : \A t \in Tx : \A s \in Node :
    CachedFrom(cache[n], t, s) => Cached(cache[s], t)

\* Every transaction anywhere has been numbered by its author.
AllNumbered ==
  /\ \A n \in Node : \A t \in Tx : Cached(cache[n], t) => t.seqno <= seqno[t.from]
  /\ \A l \in Link : \A t \in Tx :
       Carries(chan, l, t) \/ Asks(chan, l, t) => t.seqno <= seqno[t.from]

\* What a transaction under way says of the nodes at the ends of its link.
LinkEnds ==
  \A a, b \in Node : \A t \in Tx : Carries(chan, <<a, b>>, t) =>
    /\ b # t.from
    /\ Cached(cache[a], t) /\ ~CachedFrom(cache[a], t, b)
    /\ ~CachedFrom(cache[b], t, a)

Alternative ==
  \A a, b \in Node : \A t \in Tx : Asks(chan, <<a, b>>, t) =>
    /\ \E s \in Node \ {b} : CachedFrom(cache[a], t, s)
    /\ \E s \in Node \ {a} : CachedFrom(cache[b], t, s)

Tree ==
  \A t \in Tx : \A S \in SUBSET Node :
    S # {} /\ t.from \notin S /\ (\A m \in S : Cached(cache[m], t)) =>
      \E m \in S : \E s \in Node \ S : CachedFrom(cache[m], t, s)

\* What a node ever queued for a peer: each transaction once, none of the
\* peer's own, all in the node's cache and none with the peer as its source.
GivenOnce ==
  \A a, b \in Node :
    /\ IsInjective(given[<<a, b>>])
    /\ \A i \in DOMAIN given[<<a, b>>] :
         /\ b # given[<<a, b>>][i].from
         /\ Cached(cache[a], given[<<a, b>>][i])
         /\ ~CachedFrom(cache[a], given[<<a, b>>][i], b)

GossipInv ==
  /\ budget.expiries = 0
  /\ GivenOnce
  /\ NoSelfLink
  /\ OneSource
  /\ SourceHolds
  /\ AllNumbered
  /\ NoTwice(chan)
  /\ LinkEnds
  /\ Alternative
  /\ Tree

\* A holder has a recorded source.
LEMMA HolderHasSource ==
  ASSUME TypeOK, NEW n \in Node, NEW t
  PROVE  /\ Cached(cache[n], t) => \E s \in Node : CachedFrom(cache[n], t, s)
         /\ \A s : CachedFrom(cache[n], t, s) => Cached(cache[n], t)
<1>1. \A i \in DOMAIN cache[n] : cache[n][i] \in CacheEntry
  BY DEF TypeOK
<1>2. \A e \in CacheEntry : e.source \in Node /\ e = [id |-> e.id, source |-> e.source]
  BY DEF CacheEntry
<1>3. \A i \in DOMAIN cache[n] : cache[n][i].id = t =>
        /\ cache[n][i].source \in Node
        /\ cache[n][i] = [id |-> t, source |-> cache[n][i].source]
  BY <1>1, <1>2
<1>4. \A s : [id |-> t, source |-> s].id = t
  OBVIOUS
<1>5. Cached(cache[n], t) => \E s \in Node : CachedFrom(cache[n], t, s)
  BY <1>3 DEF Cached, CachedFrom
<1>6. \A s : CachedFrom(cache[n], t, s) => Cached(cache[n], t)
  BY <1>4 DEF Cached, CachedFrom
<1> QED
  BY <1>5, <1>6

\* Without expiry the cache is unchanged or grows by one entry.
LEMMA NothingExpires ==
  ASSUME TypeOK, budget.expiries = 0, NEW n \in Node, NEW c \in Unexpired(cache[n])
  PROVE  c = cache[n]
<1>1. c = SubSeq(cache[n], 1, Len(cache[n])) /\ cache[n] \in Seq(CacheEntry)
  BY DEF Unexpired, TypeOK
<1> QED
  BY <1>1

Grows(n, t, s) == cache' = [cache EXCEPT ![n] = Append(cache[n], [id |-> t, source |-> s])]

\* DuplicateCache::insert adds the new transaction with its source to the
\* cache of one node, and nothing else.
LEMMA GrowRelations ==
  ASSUME TypeOK, NEW n \in Node, NEW t \in Tx, NEW s \in Node, Grows(n, t, s)
  PROVE  /\ \A m \in Node : \A u : Cached(cache'[m], u) <=> Cached(cache[m], u) \/ (m = n /\ u = t)
         /\ \A m \in Node : \A u, r : CachedFrom(cache'[m], u, r) <=>
              CachedFrom(cache[m], u, r) \/ (m = n /\ u = t /\ r = s)
<1> DEFINE e == [id |-> t, source |-> s]
<1>1. e \in CacheEntry /\ e.id = t /\ \A u, r : e = [id |-> u, source |-> r] <=> u = t /\ r = s
  BY DEF CacheEntry
<1>2. cache[n] \in Seq(CacheEntry) /\ cache'[n] = Append(cache[n], e)
  BY DEF TypeOK, Grows
<1>3. \A m \in Node \ {n} : cache'[m] = cache[m]
  BY DEF TypeOK, Grows
<1> HIDE DEF e
<1>4. /\ DOMAIN cache'[n] = DOMAIN cache[n] \cup {Len(cache[n]) + 1}
      /\ cache'[n][Len(cache[n]) + 1] = e
      /\ \A i \in DOMAIN cache[n] : cache'[n][i] = cache[n][i]
  BY <1>1, <1>2
<1>5. \A u : Cached(cache'[n], u) <=> Cached(cache[n], u) \/ u = t
  BY <1>1, <1>4 DEF Cached
<1>6. \A u, r : CachedFrom(cache'[n], u, r) <=> CachedFrom(cache[n], u, r) \/ (u = t /\ r = s)
  BY <1>1, <1>4 DEF CachedFrom
<1> QED
  BY <1>3, <1>5, <1>6

\* A node queues a transaction for some peers when it caches it: no queue had
\* it before, and the peers are neither its author nor the recorded source.
LEMMA GivenStep ==
  ASSUME TypeOK, GivenOnce, NEW n \in Node, NEW t \in Tx, NEW s \in Node, NEW to,
         Grows(n, t, s), ~Cached(cache[n], t), given' = Send(given, n, to, t),
         s \notin to, t.from \notin to
  PROVE  GivenOnce'
<1> SUFFICES ASSUME NEW a \in Node, NEW b \in Node
             PROVE  /\ IsInjective(given'[<<a, b>>])
                    /\ \A i \in DOMAIN given'[<<a, b>>] :
                         /\ b # given'[<<a, b>>][i].from
                         /\ Cached(cache'[a], given'[<<a, b>>][i])
                         /\ ~CachedFrom(cache'[a], given'[<<a, b>>][i], b)
  BY DEF GivenOnce
<1> DEFINE q == given[<<a, b>>]
           r == given'[<<a, b>>]
<1>1. <<a, b>> \in Link /\ <<a, b>>[1] = a /\ <<a, b>>[2] = b
  BY DEF Link
<1>2. q \in Seq(Tx)
  BY <1>1 DEF TypeOK
<1>3. r = IF a = n /\ b \in to THEN Append(q, t) ELSE q
  BY <1>1 DEF Send
<1>4. /\ \A i, j \in DOMAIN q : q[i] = q[j] => i = j
      /\ \A i \in DOMAIN q :
           q[i] \in Tx /\ b # q[i].from /\ Cached(cache[a], q[i]) /\ ~CachedFrom(cache[a], q[i], b)
  BY <1>2 DEF GivenOnce, IsInjective
<1> HIDE DEF q, r
<1>0. /\ \A m \in Node : \A u : Cached(cache'[m], u) <=> Cached(cache[m], u) \/ (m = n /\ u = t)
      /\ \A m \in Node : \A u, v : CachedFrom(cache'[m], u, v) <=>
           CachedFrom(cache[m], u, v) \/ (m = n /\ u = t /\ v = s)
  BY GrowRelations
<1>5. ASSUME NEW i \in DOMAIN q
      PROVE  Cached(cache'[a], q[i]) /\ ~CachedFrom(cache'[a], q[i], b)
  <2>1. PICK u : u = q[i]
    OBVIOUS
  <2>2. Cached(cache[a], u) /\ ~CachedFrom(cache[a], u, b)
    BY <1>4, <2>1
  <2>3. ~(a = n /\ u = t)
    BY <2>2
  <2> QED
    BY <1>0, <2>1, <2>2, <2>3
<1>6. CASE ~(a = n /\ b \in to)
  BY <1>3, <1>4, <1>5, <1>6 DEF q, r, IsInjective
<1>7. CASE a = n /\ b \in to
  <2>1. /\ DOMAIN r = DOMAIN q \cup {Len(q) + 1}
        /\ r[Len(q) + 1] = t
        /\ \A i \in DOMAIN q : r[i] = q[i]
    BY <1>2, <1>3, <1>7
  <2>2. b # s /\ b # t.from
    BY <1>7
  <2>3. Cached(cache'[a], t) /\ ~CachedFrom(cache'[a], t, b)
    <3>1. ~CachedFrom(cache[n], t, b)
      BY HolderHasSource
    <3> QED
      BY <1>0, <1>7, <2>2, <3>1
  <2>4. \A i \in DOMAIN q : q[i] # t
    BY <1>4, <1>7
  <2>5. \A i, j \in DOMAIN r : r[i] = r[j] => i = j
    BY <1>4, <2>1, <2>4
  <2>6. \A i \in DOMAIN r :
          b # r[i].from /\ Cached(cache'[a], r[i]) /\ ~CachedFrom(cache'[a], r[i], b)
    BY <1>4, <1>5, <2>1, <2>2, <2>3
  <2> QED
    BY <2>5, <2>6 DEF r, IsInjective
<1> QED
  BY <1>6, <1>7

-----------------------------------------------------------------------------
(* The two kinds of steps.                                                 *)

\* A step that adds no cache entry and carries no transaction further; it
\* may answer a transaction from p that n already holds with a HaveTx.
LEMMA QuietStep ==
  ASSUME TypeOK, GossipInv, cache' = cache, seqno' = seqno, NoTwice(chan'),
         \A l \in Link : \A t \in Tx : Carries(chan', l, t) => Carries(chan, l, t),
         \A n, p \in Node : \A t \in Tx : Asks(chan', <<n, p>>, t) =>
           \/ Asks(chan, <<n, p>>, t)
           \/ Carries(chan, <<p, n>>, t) /\ Cached(cache[n], t)
  PROVE  /\ OneSource' /\ SourceHolds' /\ AllNumbered' /\ NoTwice(chan)'
         /\ LinkEnds' /\ Alternative' /\ Tree'
<1>1. OneSource' /\ SourceHolds' /\ Tree'
  BY DEF GossipInv, OneSource, SourceHolds, Tree
<1>2. \A n, p \in Node : <<n, p>> \in Link
  BY DEF Link
<1>3. LinkEnds'
  BY <1>2 DEF GossipInv, LinkEnds
<1>4. AllNumbered'
  <2>1. \A l \in Link : l = <<l[1], l[2]>> /\ l[1] \in Node /\ l[2] \in Node
    BY DEF Link
  <2>2. ASSUME NEW n \in Node, NEW p \in Node, NEW t \in Tx,
               Carries(chan', <<n, p>>, t) \/ Asks(chan', <<n, p>>, t)
        PROVE  t.seqno <= seqno[t.from]
    BY <2>2, <1>2 DEF GossipInv, AllNumbered
  <2>3. ASSUME NEW l \in Link, NEW t \in Tx, Carries(chan', l, t) \/ Asks(chan', l, t)
        PROVE  t.seqno <= seqno'[t.from]
    <3>1. PICK n \in Node, p \in Node : l = <<n, p>>
      BY DEF Link
    <3> QED
      BY <2>2, <2>3, <3>1
  <2> QED
    BY <2>3 DEF GossipInv, AllNumbered
<1>5. Alternative'
  <2> SUFFICES ASSUME NEW a \in Node, NEW b \in Node, NEW t \in Tx, Asks(chan', <<a, b>>, t)
               PROVE  /\ \E s \in Node \ {b} : CachedFrom(cache[a], t, s)
                      /\ \E s \in Node \ {a} : CachedFrom(cache[b], t, s)
    BY DEF Alternative
  <2>1. CASE Asks(chan, <<a, b>>, t)
    BY <2>1 DEF GossipInv, Alternative
  <2>2. CASE Carries(chan, <<b, a>>, t) /\ Cached(cache[a], t)
    <3>1. /\ Cached(cache[b], t) /\ ~CachedFrom(cache[b], t, a)
          /\ ~CachedFrom(cache[a], t, b)
      BY <2>2 DEF GossipInv, LinkEnds
    <3>2. /\ \E s \in Node : CachedFrom(cache[a], t, s)
          /\ \E s \in Node : CachedFrom(cache[b], t, s)
      BY <2>2, <3>1, HolderHasSource
    <3> QED
      BY <3>1, <3>2
  <2> QED
    BY <2>1, <2>2
<1> QED
  BY <1>1, <1>3, <1>4, <1>5

\* A step in which n takes t, from p or as its author, and sends it on.
LEMMA SpreadStep ==
  ASSUME TypeOK, GossipInv, NEW n \in Node, NEW p \in Node, NEW t \in Tx,
         Grows(n, t, p), ~Cached(cache[n], t),
         \/ /\ p = n /\ t.from = n
            /\ \A m \in Node : ~Cached(cache[m], t)
            /\ \A l \in Link : ~Carries(chan, l, t)
         \/ Carries(chan, <<p, n>>, t) /\ ~Carries(chan', <<p, n>>, t),
         \A a, b \in Node : \A u \in Tx : Carries(chan', <<a, b>>, u) =>
           Carries(chan, <<a, b>>, u) \/ (a = n /\ u = t /\ b # n /\ b # p /\ b # t.from),
         \A l \in Link : \A u \in Tx : Asks(chan', l, u) => Asks(chan, l, u),
         NoTwice(chan'),
         \A m \in Node : seqno[m] <= seqno'[m],
         t.seqno <= seqno'[t.from], seqno' \in [Node -> Nat]
  PROVE  /\ OneSource' /\ SourceHolds' /\ AllNumbered' /\ NoTwice(chan)'
         /\ LinkEnds' /\ Alternative' /\ Tree'
<1>1. /\ \A m \in Node : \A u : Cached(cache'[m], u) <=> Cached(cache[m], u) \/ (m = n /\ u = t)
      /\ \A m \in Node : \A u, r : CachedFrom(cache'[m], u, r) <=>
           CachedFrom(cache[m], u, r) \/ (m = n /\ u = t /\ r = p)
  BY GrowRelations
<1>2. \A m \in Node : \A u, r : CachedFrom(cache[m], u, r) => Cached(cache[m], u)
  BY HolderHasSource
<1>3. \A r : ~CachedFrom(cache[n], t, r)
  BY <1>2
\* The source recorded for t holds it, before the step or as its author.
<1>4. p = n \/ Cached(cache[p], t)
  BY DEF GossipInv, LinkEnds
<1>5. \A m \in Node : ~CachedFrom(cache[m], t, n)
  BY DEF GossipInv, SourceHolds
<1>6. OneSource'
  <2> SUFFICES ASSUME NEW m \in Node, NEW u \in Tx, NEW s \in Node, NEW r \in Node,
                      CachedFrom(cache'[m], u, s), CachedFrom(cache'[m], u, r)
               PROVE  s = r
    BY DEF OneSource
  <2>1. CASE m = n /\ u = t
    BY <2>1, <1>1, <1>3
  <2>2. CASE ~(m = n /\ u = t)
    <3>1. CachedFrom(cache[m], u, s) /\ CachedFrom(cache[m], u, r)
      BY <2>2, <1>1
    <3> QED
      BY <3>1 DEF GossipInv, OneSource
  <2> QED
    BY <2>1, <2>2
<1>7. SourceHolds'
  <2> SUFFICES ASSUME NEW m \in Node, NEW u \in Tx, NEW v \in Node, CachedFrom(cache'[m], u, v)
               PROVE  Cached(cache'[v], u)
    BY DEF SourceHolds
  <2>1. CASE m = n /\ u = t /\ v = p
    <3>1. v = n \/ Cached(cache[v], u)
      BY <1>4, <2>1
    <3> QED
      BY <1>1, <2>1, <3>1
  <2>2. CASE CachedFrom(cache[m], u, v)
    <3>1. Cached(cache[v], u)
      BY <2>2 DEF GossipInv, SourceHolds
    <3> QED
      BY <1>1, <3>1
  <2> QED
    BY <1>1, <2>1, <2>2
<1>8. AllNumbered'
  <2>1. \A u \in Tx : u.seqno \in Nat /\ u.from \in Node
    BY DEF Tx
  <2>2. \A u \in Tx : u.seqno <= seqno[u.from] => u.seqno <= seqno'[u.from]
    <3>1. \A m \in Node : seqno[m] \in Nat /\ seqno'[m] \in Nat /\ seqno[m] <= seqno'[m]
      BY DEF TypeOK
    <3> QED
      BY <2>1, <3>1
  <2>3. \A m \in Node : \A u \in Tx : Cached(cache'[m], u) => u.seqno <= seqno'[u.from]
    BY <1>1, <2>2 DEF GossipInv, AllNumbered
  <2>4. ASSUME NEW l \in Link, NEW u \in Tx, Carries(chan', l, u) \/ Asks(chan', l, u)
        PROVE  u.seqno <= seqno'[u.from]
    <3>1. PICK a \in Node, b \in Node : l = <<a, b>>
      BY DEF Link
    <3>2. Carries(chan, l, u) \/ Asks(chan, l, u) \/ u = t
      BY <2>4, <3>1
    <3> QED
      BY <2>2, <3>2 DEF GossipInv, AllNumbered
  <2> QED
    BY <2>3, <2>4 DEF AllNumbered
<1>9. LinkEnds'
  <2> SUFFICES ASSUME NEW a \in Node, NEW b \in Node, NEW u \in Tx, Carries(chan', <<a, b>>, u)
               PROVE  /\ b # u.from
                      /\ Cached(cache'[a], u) /\ ~CachedFrom(cache'[a], u, b)
                      /\ ~CachedFrom(cache'[b], u, a)
    BY DEF LinkEnds
  <2>1. CASE a = n /\ u = t /\ b # n /\ b # p /\ b # t.from
    BY <2>1, <1>1, <1>3, <1>5
  <2>2. CASE Carries(chan, <<a, b>>, u)
    <3>1. /\ b # u.from
          /\ Cached(cache[a], u) /\ ~CachedFrom(cache[a], u, b)
          /\ ~CachedFrom(cache[b], u, a)
      BY <2>2 DEF GossipInv, LinkEnds
    <3>2. ~(b = n /\ u = t /\ a = p)
      BY <2>2, <3>1
    <3>3. ~(a = n /\ u = t)
      BY <3>1
    <3> QED
      BY <1>1, <3>1, <3>2, <3>3
  <2> QED
    BY <2>1, <2>2
<1>10. Alternative'
  <2>1. \A a, b \in Node : <<a, b>> \in Link
    BY DEF Link
  <2> QED
    BY <1>1, <2>1 DEF GossipInv, Alternative
<1>11. Tree'
  <2> SUFFICES ASSUME NEW u \in Tx, NEW S \in SUBSET Node,
                      S # {}, u.from \notin S, \A m \in S : Cached(cache'[m], u)
               PROVE  \E m \in S : \E s \in Node \ S : CachedFrom(cache'[m], u, s)
    BY DEF Tree
  <2>1. CASE \A m \in S : Cached(cache[m], u)
    BY <2>1, <1>1 DEF GossipInv, Tree
  <2>2. CASE \E m \in S : ~Cached(cache[m], u)
    <3>1. n \in S /\ u = t
      BY <2>2, <1>1
    <3>2. CASE p \notin S
      BY <3>1, <3>2, <1>1
    <3>3. CASE p \in S
      <4> DEFINE R == S \ {n}
      <4>1. p # n
        <5>1. ~Carries(chan, <<n, n>>, t)
          BY DEF GossipInv, LinkEnds
        <5> QED
          BY <3>1, <5>1
      <4>2. R # {} /\ R \in SUBSET Node /\ u.from \notin R
        BY <3>3, <4>1
      <4>3. \A m \in R : Cached(cache[m], u)
        BY <1>1
      <4>4. PICK m \in R, s \in Node \ R : CachedFrom(cache[m], u, s)
        BY <4>2, <4>3 DEF GossipInv, Tree
      <4>5. s # n
        BY <4>4, <3>1, <1>5
      <4> QED
        BY <4>4, <4>5, <1>1
    <3> QED
      BY <3>2, <3>3
  <2> QED
    BY <2>1, <2>2
<1> QED
  BY <1>6, <1>7, <1>8, <1>9, <1>10, <1>11

-----------------------------------------------------------------------------
(* One step per action.                                                    *)

\* The part of the invariant that is about links and the budget.
LEMMA LinkInvStep ==
  ASSUME TypeOK, budget.expiries = 0, NoSelfLink, Next
  PROVE  budget'.expiries = 0 /\ NoSelfLink'
<1> USE DEF NoSelfLink
<1>1. ASSUME NEW n \in Node, NEW c \in Unexpired(cache[n]), SpendExpiry(n, c)
      PROVE  UNCHANGED budget
  BY <1>1, NothingExpires DEF SpendExpiry
<1>2. ASSUME NEW n \in Node, Publish(n)
      PROVE  budget'.expiries = 0 /\ NoSelfLink'
  BY <1>1, <1>2 DEF Publish, links
<1>3. ASSUME NEW n \in Node, RedundancyInterval(n)
      PROVE  budget'.expiries = 0 /\ NoSelfLink'
  BY <1>3 DEF RedundancyInterval, links
<1>4. ASSUME NEW n \in Node, NEW p \in Node, Receive(n, p)
      PROVE  budget'.expiries = 0 /\ NoSelfLink'
  <2>1. UNCHANGED <<connected, pending>>
    BY <1>4 DEF Receive, ReceiveTransaction, ReceiveHaveTx, ReceiveResetRoute, links
  <2>2. UNCHANGED budget
    BY <1>1, <1>4 DEF Receive, ReceiveTransaction, ReceiveHaveTx, ReceiveResetRoute
  <2> QED
    BY <2>1, <2>2
<1>5. ASSUME NEW n \in Node, NEW p \in Node, Dial(n, p)
      PROVE  budget'.expiries = 0 /\ NoSelfLink'
  <2>1. /\ connected' = [connected EXCEPT ![n] = connected[n] \cup {p}] /\ n # p
        /\ pending' = pending \cup {<<p, n>>}
        /\ budget' = [budget EXCEPT !.dials = @ - 1]
    BY <1>5 DEF Dial
  <2>2. connected \in [Node -> SUBSET Node] /\ budget \in Budget
    BY DEF TypeOK
  <2>3. budget'.expiries = 0
    BY <2>1, <2>2 DEF Budget
  <2> QED
    BY <2>1, <2>2, <2>3
<1>6. ASSUME NEW n \in Node, NEW p \in Node, Accept(n, p)
      PROVE  budget'.expiries = 0 /\ NoSelfLink'
  <2>1. /\ connected' = [connected EXCEPT ![n] = connected[n] \cup {p}]
        /\ <<n, p>> \in pending /\ pending' \subseteq pending
        /\ UNCHANGED budget
    BY <1>6 DEF Accept
  <2>2. n # p
    BY <2>1
  <2> QED
    BY <2>1, <2>2 DEF TypeOK
<1>7. ASSUME NEW n \in Node, NEW p \in Node, ConnectionClosed(n, p)
      PROVE  budget'.expiries = 0 /\ NoSelfLink'
  <2>1. /\ connected' = [connected EXCEPT ![n] = connected[n] \ {p}]
        /\ UNCHANGED pending
        /\ UNCHANGED budget \/ budget' = [budget EXCEPT !.closes = @ - 1]
    BY <1>7 DEF ConnectionClosed
  <2>2. budget'.expiries = 0
    BY <2>1 DEF TypeOK, Budget
  <2> QED
    BY <2>1, <2>2 DEF TypeOK
<1>8. ASSUME NEW n \in Node, NEW p \in Node, TransactionDropped(n, p) \/ MessageLost(n, p)
      PROVE  budget'.expiries = 0 /\ NoSelfLink'
  <2>1. UNCHANGED budget \/ budget' = [budget EXCEPT !.losses = @ - 1]
    BY <1>8 DEF TransactionDropped, MessageLost
  <2>2. budget'.expiries = 0
    BY <2>1 DEF TypeOK, Budget
  <2> QED
    BY <1>8, <2>2 DEF TransactionDropped, MessageLost, links
<1> QED
  BY <1>2, <1>3, <1>4, <1>5, <1>6, <1>7, <1>8 DEF Next

Spread ==
  /\ OneSource /\ SourceHolds /\ AllNumbered /\ NoTwice(chan)
  /\ LinkEnds /\ Alternative /\ Tree

\* The queues that take a message (Sender::send_transaction) belong to some
\* of the peers it is sent to.
LEMMA AcceptingSubset ==
  ASSUME NEW R, NEW to \in Accepting(R)
  PROVE  to \subseteq R
  BY DEF Accepting

\* publish keeps GossipInv: its identifier is new, so no queue, cache
\* or channel mentions it before the step.
LEMMA PublishSpread ==
  ASSUME TypeOK, TypeOK', GossipInv, NEW n \in Node, Publish(n)
  PROVE  Spread'
<1> DEFINE t == [from |-> n, seqno |-> seqno[n] + 1]
           m == [kind |-> "Publish", tx |-> t]
<1>1. t \in Tx /\ t.from = n /\ t.seqno = seqno[n] + 1 /\ seqno[n] \in Nat
  BY DEF TypeOK, Tx
<1>2. Grows(n, t, n) /\ ~Cached(cache[n], t)
  BY NothingExpires DEF Publish, Grows, GossipInv
<1>3. PICK to \in Accepting(FilterValidRoutes(disabled[n], n, connected[n])) :
        chan' = Send(chan, n, to, m)
  BY DEF Publish
<1>4. seqno' = [seqno EXCEPT ![n] = @ + 1]
  BY DEF Publish
<1>5. m \in Message /\ IsTx(m) /\ m.tx = t /\ m.kind # "HaveTx"
  BY <1>1, NewMessages DEF IsTx
<1> HIDE DEF t, m
<1>6. /\ \A k \in Node : ~Cached(cache[k], t)
      /\ \A l \in Link : ~Carries(chan, l, t)
  BY <1>1 DEF GossipInv, AllNumbered
<1>7. n \notin to
  BY AcceptingSubset DEF FilterValidRoutes, GossipInv, NoSelfLink
<1>8. chan \in [Link -> Seq(Message)] /\ \A a, b \in Node : <<a, b>> \in Link
  BY DEF TypeOK, Link
<1>9. /\ \A l \in Link : \A u : Carries(chan', l, u) =>
           Carries(chan, l, u) \/ (l[1] = n /\ l[2] \in to /\ u = t)
      /\ \A l \in Link : \A u : Asks(chan', l, u) => Asks(chan, l, u)
  BY <1>3, <1>5, <1>8, SendRelations
<1>10. NoTwice(chan')
  BY <1>3, <1>5, <1>6, <1>8, SendRelations DEF GossipInv
<1>11. \A a, b \in Node : \A u \in Tx : Carries(chan', <<a, b>>, u) =>
         Carries(chan, <<a, b>>, u) \/ (a = n /\ u = t /\ b # n /\ b # n /\ b # t.from)
  <2> SUFFICES ASSUME NEW a \in Node, NEW b \in Node, NEW u \in Tx, Carries(chan', <<a, b>>, u)
               PROVE  Carries(chan, <<a, b>>, u) \/ (a = n /\ u = t /\ b # n /\ b # t.from)
    OBVIOUS
  <2>1. Carries(chan, <<a, b>>, u) \/ (<<a, b>>[1] = n /\ <<a, b>>[2] \in to /\ u = t)
    BY <1>8, <1>9
  <2> QED
    BY <2>1, <1>1, <1>7
<1>12. /\ \A k \in Node : seqno[k] <= seqno'[k]
       /\ t.seqno <= seqno'[t.from] /\ seqno' \in [Node -> Nat]
  BY <1>1, <1>4 DEF TypeOK
<1>13. /\ OneSource' /\ SourceHolds' /\ AllNumbered' /\ NoTwice(chan)'
       /\ LinkEnds' /\ Alternative' /\ Tree'
  <2>1. \A l \in Link : \A u \in Tx : Asks(chan', l, u) => Asks(chan, l, u)
    BY <1>9
  <2>2. PICK p \in Node : p = n
    OBVIOUS
  <2>3. \/ /\ p = n /\ t.from = n
           /\ \A k \in Node : ~Cached(cache[k], t)
           /\ \A l \in Link : ~Carries(chan, l, t)
        \/ Carries(chan, <<p, n>>, t) /\ ~Carries(chan', <<p, n>>, t)
    BY <1>1, <1>6, <2>2
  <2>4. \A a, b \in Node : \A u \in Tx : Carries(chan', <<a, b>>, u) =>
          Carries(chan, <<a, b>>, u) \/ (a = n /\ u = t /\ b # n /\ b # p /\ b # t.from)
    BY <1>11, <2>2
  <2>5. Grows(n, t, p) /\ ~Cached(cache[n], t)
    BY <1>2, <2>2
  <2>6. t \in Tx
    BY <1>1
  <2> QED
    BY <2>1, <2>3, <2>4, <2>5, <2>6, <1>10, <1>12, SpreadStep
<1> QED
  BY <1>13 DEF Spread

\* The first receipt of a transaction keeps GossipInv: it is cached
\* with the link it came over as source and forwarded over the others.
LEMMA FirstSpread ==
  ASSUME TypeOK, TypeOK', GossipInv, NEW n \in Node, NEW p \in Node, p \in connected[n],
         NEW i \in DOMAIN chan[<<p, n>>], IsTx(chan[<<p, n>>][i]),
         ReceiveFirst(n, p, i, cache[n]), UNCHANGED seqno
  PROVE  Spread'
<1> DEFINE l == <<p, n>>
           t == chan[l][i].tx
           m == [kind |-> "Forward", tx |-> t]
           d == Take(chan, l, i)
<1>1. l \in Link /\ chan \in [Link -> Seq(Message)] /\ chan[l][i] \in Message
  <2>1. l \in Link /\ chan \in [Link -> Seq(Message)]
    BY DEF TypeOK, Link
  <2> QED
    BY <2>1
<1>2. t \in Tx
  BY <1>1, MessageTx DEF IsTx
<1>3. m \in Message /\ IsTx(m) /\ m.tx = t /\ m.kind # "HaveTx"
  BY <1>2, NewMessages DEF IsTx
<1>4. Grows(n, t, p) /\ ~Cached(cache[n], t)
  BY DEF ReceiveFirst, Grows
<1>5. PICK to \in Accepting(ForwardTargets(n, p, t)) : chan' = Send(d, n, to, m)
  BY DEF ReceiveFirst
<1>6. /\ d \in [Link -> Seq(Message)]
      /\ \A k \in Link : \A u : Carries(d, k, u) => Carries(chan, k, u)
      /\ \A k \in Link : \A u : Asks(d, k, u) => Asks(chan, k, u)
      /\ NoTwice(d)
      /\ ~Carries(d, l, t)
  BY <1>1, TakeProperties, TakeRelations DEF GossipInv
<1>7. Carries(chan, l, t)
  BY DEF Carries
<1>8. to \subseteq connected[n] \ {p, t.from}
  BY AcceptingSubset DEF ForwardTargets, FilterValidRoutes
<1>9. n \notin to
  BY <1>8 DEF GossipInv, NoSelfLink
<1>10. \A a, b \in Node : <<a, b>> \in Link /\ <<a, b>>[1] = a /\ <<a, b>>[2] = b
  BY DEF Link
<1> HIDE DEF t, m, d, l
<1>11. \A b \in Node : ~Carries(d, <<n, b>>, t)
  BY <1>2, <1>4, <1>6, <1>10 DEF GossipInv, LinkEnds
<1>12. /\ \A k \in Link : \A u : Carries(chan', k, u) =>
            Carries(d, k, u) \/ (k[1] = n /\ k[2] \in to /\ u = t)
       /\ \A k \in Link : \A u : Asks(chan', k, u) => Asks(d, k, u)
       /\ NoTwice(chan')
  BY <1>3, <1>5, <1>6, <1>11, SendRelations
<1>13. \A a, b \in Node : \A u \in Tx : Carries(chan', <<a, b>>, u) =>
         Carries(chan, <<a, b>>, u) \/ (a = n /\ u = t /\ b # n /\ b # p /\ b # t.from)
  BY <1>6, <1>8, <1>9, <1>10, <1>12
<1>14. Carries(chan, <<p, n>>, t) /\ ~Carries(chan', <<p, n>>, t)
  <2>1. p \notin to
    BY <1>8
  <2>2. ~(<<p, n>>[1] = n /\ <<p, n>>[2] \in to)
    BY <1>9
  <2> QED
    BY <1>1, <1>6, <1>7, <1>12, <2>2 DEF l
<1>15. /\ \A k \in Node : seqno[k] <= seqno'[k]
       /\ t.seqno <= seqno'[t.from] /\ seqno' \in [Node -> Nat]
  <2>1. t.seqno <= seqno[t.from]
    BY <1>1, <1>2, <1>7 DEF GossipInv, AllNumbered
  <2>2. seqno' = seqno /\ \A k \in Node : seqno[k] \in Nat
    BY DEF TypeOK
  <2>3. seqno' \in [Node -> Nat]
    BY DEF TypeOK
  <2> QED
    BY <2>1, <2>2, <2>3
<1> QED
  BY <1>2, <1>4, <1>6, <1>12, <1>13, <1>14, <1>15, SpreadStep DEF Spread

\* A further receipt keeps GossipInv: the cache stays as it is, and
\* a HaveTx goes back only to a peer that is not the recorded source.
LEMMA DuplicateSpread ==
  ASSUME TypeOK, TypeOK', GossipInv, NEW n \in Node, NEW p \in Node,
         NEW i \in DOMAIN chan[<<p, n>>], IsTx(chan[<<p, n>>][i]),
         ReceiveDuplicate(n, p, i, cache[n]), UNCHANGED seqno
  PROVE  Spread'
<1> DEFINE l == <<p, n>>
           t == chan[l][i].tx
           m == [kind |-> "HaveTx", tx |-> t]
           d == Take(chan, l, i)
<1>1. l \in Link /\ chan \in [Link -> Seq(Message)] /\ chan[l][i] \in Message
  <2>1. l \in Link /\ chan \in [Link -> Seq(Message)]
    BY DEF TypeOK, Link
  <2> QED
    BY <2>1
<1>2. t \in Tx
  BY <1>1, MessageTx DEF IsTx
<1>3. m \in Message /\ ~IsTx(m) /\ m.tx = t
  BY <1>2, NewMessages DEF IsTx
<1>4. cache' = cache /\ Cached(cache[n], t)
  BY DEF ReceiveDuplicate, TypeOK
<1>5. chan' = d \/ chan' = Send(d, n, {p}, m)
  BY DEF ReceiveDuplicate
<1>6. /\ d \in [Link -> Seq(Message)]
      /\ \A k \in Link : \A u : Carries(d, k, u) => Carries(chan, k, u)
      /\ \A k \in Link : \A u : Asks(d, k, u) => Asks(chan, k, u)
      /\ NoTwice(d)
  BY <1>1, TakeProperties, TakeRelations DEF GossipInv
<1>7. Carries(chan, <<p, n>>, t)
  BY DEF Carries
<1>8. \A a, b \in Node : <<a, b>> \in Link /\ <<a, b>>[1] = a /\ <<a, b>>[2] = b
  BY DEF Link
<1> HIDE DEF t, m, d, l
<1>9. /\ \A k \in Link : \A u : Carries(chan', k, u) => Carries(d, k, u)
      /\ \A k \in Link : \A u : Asks(chan', k, u) =>
           Asks(d, k, u) \/ (k[1] = n /\ k[2] = p /\ u = t)
      /\ NoTwice(chan')
  <2>1. CASE chan' = d
    BY <2>1, <1>6
  <2>2. CASE chan' = Send(d, n, {p}, m)
    BY <2>2, <1>3, <1>6, SendRelations
  <2> QED
    BY <1>5, <2>1, <2>2
<1>10. \A a, b \in Node : \A u \in Tx : Asks(chan', <<a, b>>, u) =>
         \/ Asks(chan, <<a, b>>, u)
         \/ Carries(chan, <<b, a>>, u) /\ Cached(cache[a], u)
  <2> SUFFICES ASSUME NEW a \in Node, NEW b \in Node, NEW u \in Tx, Asks(chan', <<a, b>>, u)
               PROVE  \/ Asks(chan, <<a, b>>, u)
                      \/ Carries(chan, <<b, a>>, u) /\ Cached(cache[a], u)
    OBVIOUS
  <2>1. Asks(d, <<a, b>>, u) \/ (a = n /\ b = p /\ u = t)
    BY <1>8, <1>9
  <2> QED
    BY <2>1, <1>4, <1>6, <1>7, <1>8
<1> QED
  BY <1>4, <1>6, <1>9, <1>10, QuietStep DEF Spread

\* Every other step leaves the caches alone and sends no transaction.
LEMMA QuietSpread ==
  ASSUME TypeOK, GossipInv, UNCHANGED <<cache, seqno>>, NoTwice(chan'),
         \A l \in Link : \A t : Carries(chan', l, t) => Carries(chan, l, t),
         \A l \in Link : \A t : Asks(chan', l, t) => Asks(chan, l, t)
  PROVE  Spread'
<1>1. \A a, b \in Node : <<a, b>> \in Link
  BY DEF Link
<1> QED
  BY <1>1, QuietStep DEF Spread

\* A step that takes the message i off the link l and sends nothing.
LEMMA TakeSpread ==
  ASSUME TypeOK, GossipInv, UNCHANGED <<cache, seqno>>,
         NEW l \in Link, NEW i \in DOMAIN chan[l], chan' = Take(chan, l, i)
  PROVE  Spread'
<1>1. chan \in [Link -> Seq(Message)] /\ NoTwice(chan)
  BY DEF TypeOK, GossipInv
<1>2. /\ NoTwice(chan')
      /\ \A k \in Link : \A t : Carries(chan', k, t) => Carries(chan, k, t)
      /\ \A k \in Link : \A t : Asks(chan', k, t) => Asks(chan, k, t)
  BY <1>1, TakeRelations
<1> QED
  BY <1>2, QuietSpread

\* A step that empties links and then adjusts the redundancy.
LEMMA AdjustSpread ==
  ASSUME TypeOK, GossipInv, UNCHANGED <<cache, seqno>>, NEW n \in Node, NEW peers,
         NEW ch \in [Link -> Seq(Message)], \A l \in Link : ch[l] = chan[l] \/ ch[l] = <<>>,
         AdjustRedundancy(n, peers, ch)
  PROVE  Spread'
<1>1. \A l \in Link : \A j \in DOMAIN chan'[l] :
        \/ j \in DOMAIN ch[l] /\ chan'[l][j] = ch[l][j]
        \/ j = Len(ch[l]) + 1 /\ chan'[l][j] = [kind |-> "ResetRoute"]
  BY AdjustRedundancyStep
<1>2. \A l \in Link : \A j \in DOMAIN ch[l] : j \in DOMAIN chan[l] /\ ch[l][j] = chan[l][j]
  OBVIOUS
<1>3. \A l \in Link : \A j \in DOMAIN chan'[l] :
        IsTx(chan'[l][j]) \/ chan'[l][j].kind = "HaveTx" =>
          j \in DOMAIN chan[l] /\ chan'[l][j] = chan[l][j]
  BY <1>1, <1>2 DEF IsTx
<1>4. /\ \A k \in Link : \A t : Carries(chan', k, t) => Carries(chan, k, t)
      /\ \A k \in Link : \A t : Asks(chan', k, t) => Asks(chan, k, t)
  BY <1>3 DEF Carries, Asks
<1>5. NoTwice(chan')
  BY <1>3 DEF GossipInv, NoTwice
<1> QED
  BY <1>4, <1>5, QuietSpread

\* Only publish and the first receipt of a transaction queue it for peers.
LEMMA GivenOnceStep ==
  ASSUME TypeOK, GossipInv, Next
  PROVE  GivenOnce'
<1>1. ASSUME UNCHANGED <<cache, given>> PROVE GivenOnce'
  BY <1>1 DEF GossipInv, GivenOnce
<1>2. ASSUME NEW n \in Node, Publish(n) PROVE GivenOnce'
  <2> DEFINE t == [from |-> n, seqno |-> seqno[n] + 1]
             R == FilterValidRoutes(disabled[n], n, connected[n])
  <2>1. t \in Tx /\ t.from = n
    BY DEF TypeOK, Tx
  <2>2. Grows(n, t, n) /\ ~Cached(cache[n], t)
    BY <1>2, NothingExpires DEF Publish, Grows, GossipInv
  <2>3. PICK to \in Accepting(R) : given' = Send(given, n, to, t)
    BY <1>2 DEF Publish, Record
  <2>4. n \notin R
    BY DEF FilterValidRoutes, GossipInv, NoSelfLink
  <2> HIDE DEF t, R
  <2>5. n \notin to
    BY <2>4, AcceptingSubset
  <2> QED
    BY <2>1, <2>2, <2>3, <2>5, GivenStep DEF GossipInv
<1>3. ASSUME NEW n \in Node, NEW p \in Node, ReceiveTransaction(n, p) PROVE GivenOnce'
  <2>1. PICK i \in Deliverable(chan[<<p, n>>]), c \in Unexpired(cache[n]) :
          /\ IsTx(chan[<<p, n>>][i])
          /\ ReceiveFirst(n, p, i, c) \/ ReceiveDuplicate(n, p, i, c)
    BY <1>3 DEF ReceiveTransaction
  <2>2. c = cache[n]
    BY NothingExpires DEF GossipInv
  <2>3. CASE ReceiveDuplicate(n, p, i, c)
    BY <1>1, <2>2, <2>3 DEF ReceiveDuplicate, history, TypeOK
  <2>4. CASE ReceiveFirst(n, p, i, c)
    <3> DEFINE t == chan[<<p, n>>][i].tx
    <3>1. t \in Tx
      <4>1. <<p, n>> \in Link /\ i \in DOMAIN chan[<<p, n>>]
        BY DEF Link, Deliverable
      <4> QED
        BY <2>1, <4>1, MessageTx DEF TypeOK, IsTx
    <3>2. Grows(n, t, p) /\ ~Cached(cache[n], t)
      BY <2>2, <2>4 DEF ReceiveFirst, Grows
    <3>3. PICK to \in Accepting(ForwardTargets(n, p, t)) : given' = Send(given, n, to, t)
      BY <2>4 DEF ReceiveFirst, Record
    <3>4. to \subseteq connected[n] \ {p, t.from}
      BY AcceptingSubset DEF ForwardTargets, FilterValidRoutes
    <3> HIDE DEF t
    <3> QED
      BY <3>1, <3>2, <3>3, <3>4, GivenStep DEF GossipInv
  <2> QED
    BY <2>1, <2>3, <2>4
<1>4. ASSUME NEW n \in Node, NEW p \in Node,
             \/ RedundancyInterval(n) \/ ReceiveHaveTx(n, p) \/ ReceiveResetRoute(n, p)
             \/ Dial(n, p) \/ Accept(n, p) \/ ConnectionClosed(n, p)
             \/ TransactionDropped(n, p) \/ MessageLost(n, p)
      PROVE  UNCHANGED <<cache, given>>
  BY <1>4 DEF RedundancyInterval, ReceiveHaveTx, ReceiveResetRoute, Dial, Accept,
     ConnectionClosed, TransactionDropped, MessageLost, history
<1> QED
  BY <1>1, <1>2, <1>3, <1>4 DEF Next, Receive

\* Every step keeps GossipInv as long as no cache entry expires.
LEMMA GossipInvStep ==
  ASSUME TypeOK, TypeOK', GossipInv, Next
  PROVE  GossipInv'
<1>1. budget'.expiries = 0 /\ NoSelfLink'
  BY LinkInvStep DEF GossipInv
<1>2. ASSUME NEW n \in Node, Publish(n) PROVE Spread'
  BY <1>2, PublishSpread
<1>3. ASSUME NEW n \in Node, RedundancyInterval(n) PROVE Spread'
  <2>1. AdjustRedundancy(n, connected[n], chan) /\ chan \in [Link -> Seq(Message)]
    BY <1>3 DEF RedundancyInterval, TypeOK
  <2> QED
    BY <1>3, <2>1, AdjustSpread DEF RedundancyInterval
<1>4. ASSUME NEW n \in Node, NEW p \in Node, ReceiveTransaction(n, p) PROVE Spread'
  <2>1. PICK i \in Deliverable(chan[<<p, n>>]), c \in Unexpired(cache[n]) :
          /\ IsTx(chan[<<p, n>>][i])
          /\ ReceiveFirst(n, p, i, c) \/ ReceiveDuplicate(n, p, i, c)
    BY <1>4 DEF ReceiveTransaction
  <2>2. c = cache[n]
    BY NothingExpires DEF GossipInv
  <2>3. p \in connected[n] /\ UNCHANGED seqno
    BY <1>4 DEF ReceiveTransaction
  <2>4. i \in DOMAIN chan[<<p, n>>]
    BY DEF Deliverable
  <2> QED
    BY <2>1, <2>2, <2>3, <2>4, FirstSpread, DuplicateSpread
<1>5. ASSUME NEW n \in Node, NEW p \in Node, ReceiveHaveTx(n, p) \/ ReceiveResetRoute(n, p)
      PROVE  Spread'
  <2>1. \E i \in DOMAIN chan[<<p, n>>] : chan' = Take(chan, <<p, n>>, i)
    BY <1>5 DEF ReceiveHaveTx, ReceiveResetRoute, Deliverable
  <2>2. UNCHANGED <<cache, seqno>> /\ <<p, n>> \in Link
    BY <1>5 DEF ReceiveHaveTx, ReceiveResetRoute, Link
  <2> QED
    BY <2>1, <2>2, TakeSpread
<1>6. ASSUME NEW n \in Node, NEW p \in Node, Dial(n, p) PROVE Spread'
  <2>1. \A l \in Link : chan'[l] = chan[l] \/ chan'[l] = <<>>
    <3>1. chan' = [chan EXCEPT ![<<n, p>>] = <<>>, ![<<p, n>>] = <<>>]
      BY <1>6 DEF Dial
    <3>2. chan \in [Link -> Seq(Message)]
      BY DEF TypeOK
    <3>3. \A l \in Link : chan'[l] = IF l = <<p, n>> \/ l = <<n, p>> THEN <<>> ELSE chan[l]
      BY <3>1, <3>2
    <3> QED
      BY <3>3
  <2>2. \A l \in Link : \A j \in DOMAIN chan'[l] : j \in DOMAIN chan[l] /\ chan'[l][j] = chan[l][j]
    BY <2>1
  <2>3. /\ \A k \in Link : \A t : Carries(chan', k, t) => Carries(chan, k, t)
        /\ \A k \in Link : \A t : Asks(chan', k, t) => Asks(chan, k, t)
    BY <2>2 DEF Carries, Asks
  <2>4. NoTwice(chan')
    BY <2>2 DEF GossipInv, NoTwice
  <2> QED
    BY <1>6, <2>3, <2>4, QuietSpread DEF Dial
<1>7. ASSUME NEW n \in Node, NEW p \in Node, Accept(n, p) PROVE Spread'
  BY <1>7, QuietSpread DEF Accept, GossipInv
<1>8. ASSUME NEW n \in Node, NEW p \in Node, ConnectionClosed(n, p) PROVE Spread'
  <2> DEFINE ch == [chan EXCEPT ![<<p, n>>] = <<>>]
  <2>1. ch \in [Link -> Seq(Message)] /\ \A l \in Link : ch[l] = chan[l] \/ ch[l] = <<>>
    BY DEF TypeOK, Link
  <2>2. AdjustRedundancy(n, connected[n] \ {p}, ch) /\ UNCHANGED <<cache, seqno>>
    BY <1>8 DEF ConnectionClosed
  <2> HIDE DEF ch
  <2> QED
    BY <2>1, <2>2, AdjustSpread
<1>9. ASSUME NEW n \in Node, NEW p \in Node, TransactionDropped(n, p) \/ MessageLost(n, p)
      PROVE  Spread'
  <2>1. \E i \in DOMAIN chan[<<n, p>>] : chan' = Take(chan, <<n, p>>, i)
    BY <1>9 DEF TransactionDropped, MessageLost, Stale, Deliverable
  <2>2. UNCHANGED <<cache, seqno>> /\ <<n, p>> \in Link
    BY <1>9 DEF TransactionDropped, MessageLost, Link
  <2> QED
    BY <2>1, <2>2, TakeSpread
<1>10. Spread'
  BY <1>2, <1>3, <1>4, <1>5, <1>6, <1>7, <1>8, <1>9 DEF Next, Receive
<1> QED
  BY <1>1, <1>10, GivenOnceStep DEF Spread, GossipInv

\* No transaction exists initially.
LEMMA GossipInvInit ==
  ASSUME MaxExpiries = 0, Init
  PROVE  GossipInv
<1>1. \A l \in Link : \A t : ~Carries(chan, l, t) /\ ~Asks(chan, l, t)
  BY DEF Init, Carries, Asks
<1>2. \A n \in Node : \A t, s : ~Cached(cache[n], t) /\ ~CachedFrom(cache[n], t, s)
  BY DEF Init, Cached, CachedFrom
<1>3. \A a, b \in Node : <<a, b>> \in Link
  BY DEF Link
<1>4. NoSelfLink
  <2>1. \A n \in Node : {n, n} \notin InitLink
    <3> SUFFICES ASSUME NEW n \in Node, {n, n} \in InitLink PROVE FALSE
      OBVIOUS
    <3>1. {n, n} = {n}
      OBVIOUS
    <3>2. Cardinality({n, n}) = 2
      BY NetworkAssumption
    <3>3. Cardinality({n}) = 1
      BY FS_Singleton
    <3> QED
      BY <3>1, <3>2, <3>3
  <2> QED
    BY <2>1 DEF Init, NoSelfLink
<1>5. NoTwice(chan) /\ LinkEnds /\ Alternative
  BY <1>1, <1>3 DEF NoTwice, LinkEnds, Alternative, Init
<1>6. OneSource /\ SourceHolds /\ AllNumbered
  BY <1>1, <1>2 DEF OneSource, SourceHolds, AllNumbered
<1>7. Tree
  BY <1>2 DEF Tree
<1>8. budget.expiries = 0
  BY DEF Init
<1>9. GivenOnce
  <2>1. \A a, b \in Node : given[<<a, b>>] = <<>>
    BY <1>3 DEF Init
  <2>2. \A a, b \in Node : DOMAIN given[<<a, b>>] = {}
    <3>1. DOMAIN <<>> = {}
      OBVIOUS
    <3> QED
      BY <2>1, <3>1, Zenon
  <2>3. \A a, b \in Node : IsInjective(given[<<a, b>>])
    BY <2>2 DEF IsInjective
  <2> QED
    BY <2>2, <2>3 DEF GivenOnce
<1> QED
  BY <1>4, <1>5, <1>6, <1>7, <1>8, <1>9 DEF GossipInv

\* GossipInv is inductive: without expiry it holds in every reachable state
\* of any network.  The theorems about propagation below follow from it.
THEOREM GossipInvariant == MaxExpiries = 0 /\ Spec => []GossipInv
<1> SUFFICES ASSUME MaxExpiries = 0 PROVE Spec => []GossipInv
  OBVIOUS
<1>1. Init => GossipInv
  BY GossipInvInit
<1>2. TypeOK /\ TypeOK' /\ GossipInv /\ [Next]_vars => GossipInv'
  <2>1. ASSUME UNCHANGED vars, GossipInv PROVE GossipInv'
    BY <2>1 DEF vars, GossipInv, GivenOnce, NoSelfLink, OneSource, SourceHolds, AllNumbered, NoTwice,
       LinkEnds, Alternative, Tree, Carries, Asks
  <2> QED
    BY <2>1, GossipInvStep
<1> QED
  BY <1>1, <1>2, TypeCorrect, PTL DEF Spec

-----------------------------------------------------------------------------
(* The properties of DogNetwork follow.                                    *)

\* What GossipInv says of the three properties that the runs check.
LEMMA GossipInvImplies ==
  ASSUME TypeOK, GossipInv
  PROVE  OncePerLink /\ HaveTxHasAlternative /\ SourceTree
<1>1. \A a, b \in Node : <<a, b>> \in Link /\ chan[<<a, b>>] \in Seq(Message)
  BY DEF Link, TypeOK
<1>2. OncePerLink
  <2> SUFFICES ASSUME NEW a \in Node, NEW b \in Node
               PROVE  /\ IsInjective(given[<<a, b>>])
                      /\ \A i \in DOMAIN given[<<a, b>>] :
                           /\ b # given[<<a, b>>][i].from
                           /\ \E s \in Node \ {b} : CachedFrom(cache[a], given[<<a, b>>][i], s)
    BY DEF OncePerLink
  <2>1. IsInjective(given[<<a, b>>])
    BY DEF GossipInv, GivenOnce
  <2>2. ASSUME NEW i \in DOMAIN given[<<a, b>>]
        PROVE  /\ b # given[<<a, b>>][i].from
               /\ \E s \in Node \ {b} : CachedFrom(cache[a], given[<<a, b>>][i], s)
    <3>1. PICK t : t = given[<<a, b>>][i]
      OBVIOUS
    <3>2. b # t.from /\ Cached(cache[a], t) /\ ~CachedFrom(cache[a], t, b)
      BY <3>1 DEF GossipInv, GivenOnce
    <3>3. \E s \in Node : CachedFrom(cache[a], t, s)
      BY <3>2, HolderHasSource
    <3> QED
      BY <3>1, <3>2, <3>3
  <2> QED
    BY <2>1, <2>2
<1>3. HaveTxHasAlternative
  <2> SUFFICES ASSUME NEW a \in Node, NEW b \in Node, NEW i \in InFlight(<<a, b>>, {"HaveTx"})
               PROVE  LET t == chan[<<a, b>>][i].tx
                      IN /\ \E s \in Node \ {b} : CachedFrom(cache[a], t, s)
                         /\ \E s \in Node \ {a} : CachedFrom(cache[b], t, s)
    BY DEF HaveTxHasAlternative
  <2>1. i \in DOMAIN chan[<<a, b>>] /\ chan[<<a, b>>][i].kind = "HaveTx"
    BY DEF InFlight
  <2>2. chan[<<a, b>>][i] \in Message
    BY <1>1, <2>1
  <2>3. chan[<<a, b>>][i].tx \in Tx
    BY <2>1, <2>2, MessageTx
  <2>4. Asks(chan, <<a, b>>, chan[<<a, b>>][i].tx)
    BY <2>1 DEF Asks
  <2> QED
    BY <2>3, <2>4 DEF GossipInv, Alternative
<1>4. SourceTree
  <2> SUFFICES ASSUME NEW n \in Node, NEW k \in DOMAIN cache[n]
               PROVE  /\ Cached(cache[cache[n][k].source], cache[n][k].id)
                      /\ \A S \in SUBSET ({m \in Node : Cached(cache[m], cache[n][k].id)}
                                            \ {cache[n][k].id.from}) :
                           S # {} => \E m \in S : \E s \in Node \ S :
                                       CachedFrom(cache[m], cache[n][k].id, s)
    BY DEF SourceTree
  <2>1. cache[n][k] \in CacheEntry
    BY DEF TypeOK
  <2> DEFINE t == cache[n][k].id
             r == cache[n][k].source
  <2>2. t \in Tx /\ r \in Node /\ cache[n][k] = [id |-> t, source |-> r]
    BY <2>1 DEF CacheEntry
  <2>3. CachedFrom(cache[n], t, r)
    BY <2>2 DEF CachedFrom
  <2>4. Cached(cache[r], t)
    BY <2>2, <2>3 DEF GossipInv, SourceHolds
  <2> HIDE DEF t, r
  <2>5. ASSUME NEW S \in SUBSET ({m \in Node : Cached(cache[m], t)} \ {t.from}), S # {}
        PROVE  \E m \in S : \E s \in Node \ S : CachedFrom(cache[m], t, s)
    <3>1. S \in SUBSET Node /\ t.from \notin S /\ \A m \in S : Cached(cache[m], t)
      OBVIOUS
    <3> QED
      BY <2>2, <2>5, <3>1 DEF GossipInv, Tree
  <2> QED
    BY <2>4, <2>5 DEF t, r
<1> QED
  BY <1>2, <1>3, <1>4

\* Without expiry, in every network and under any churn and loss, a node
\* queues a transaction for a peer at most once in its life, and never for
\* the transaction's author or the peer it came from (behaviour.rs: the cache
\* insertion before forward_transaction, and the peers that function leaves
\* out).
THEOREM CrossesOnce == MaxExpiries = 0 /\ Spec => []OncePerLink
<1>1. TypeOK /\ GossipInv => OncePerLink
  BY GossipInvImplies
<1> QED
  BY <1>1, TypeCorrect, GossipInvariant, PTL

\* Without expiry, whoever asks a peer to close a route holds the transaction
\* from somebody else, and the peer closes a route on receipt: the test
\* `*source == *propagation_source' of handle_have_tx never holds.
THEOREM HaveTxKeepsASource == MaxExpiries = 0 /\ Spec => []HaveTxHasAlternative
<1>1. TypeOK /\ GossipInv => HaveTxHasAlternative
  BY GossipInvImplies
<1> QED
  BY <1>1, TypeCorrect, GossipInvariant, PTL

\* Without expiry, the sources that the duplicate caches record for a
\* transaction form a tree rooted at its author, in every network.
THEOREM SourcesFormTree == MaxExpiries = 0 /\ Spec => []SourceTree
<1>1. TypeOK /\ GossipInv => SourceTree
  BY GossipInvImplies
<1> QED
  BY <1>1, TypeCorrect, GossipInvariant, PTL

-----------------------------------------------------------------------------
(***************************************************************************)
(* What the network promises, under any churn and loss: the numbers that   *)
(* publish hands out are new (NextIdFresh), also when cache entries        *)
(* expire, and without expiry the network implements Broadcast.            *)
(***************************************************************************)

-----------------------------------------------------------------------------
(* Sequence numbers.                                                       *)

Numbered(t) == t.seqno <= seqno[t.from]
NumberedAfter(t) == t.seqno <= seqno'[t.from]

\* What every step does: it takes no number back, and all it puts into a cache
\* or a channel was there before, carries no transaction or has a number.
CarriesOver ==
  /\ \A n \in Node : seqno[n] <= seqno'[n]
  /\ \A n \in Node : \A i \in DOMAIN cache'[n] :
       (\E k \in DOMAIN cache[n] : cache'[n][i] = cache[n][k]) \/ NumberedAfter(cache'[n][i].id)
  /\ \A l \in Link : \A i \in DOMAIN chan'[l] :
       \/ \E k \in Link : \E j \in DOMAIN chan[k] : chan'[l][i] = chan[k][j]
       \/ chan'[l][i].kind = "ResetRoute"
       \/ NumberedAfter(chan'[l][i].tx)

\* Such a step keeps NextIdFresh.
LEMMA FreshStep ==
  ASSUME TypeOK, TypeOK', NextIdFresh, CarriesOver
  PROVE  NextIdFresh'
<1>1. \A t \in Tx : Numbered(t) => NumberedAfter(t)
  <2> SUFFICES ASSUME NEW t \in Tx, t.seqno <= seqno[t.from]
               PROVE  t.seqno <= seqno'[t.from]
    BY DEF Numbered, NumberedAfter
  <2>1. t.from \in Node /\ t.seqno \in Nat
    BY DEF Tx
  <2>2. seqno[t.from] \in Nat /\ seqno'[t.from] \in Nat /\ seqno[t.from] <= seqno'[t.from]
    BY <2>1 DEF TypeOK, CarriesOver
  <2> QED
    BY <2>1, <2>2
<1>2. ASSUME NEW n \in Node, NEW i \in DOMAIN cache'[n]
      PROVE  NumberedAfter(cache'[n][i].id)
  <2>1. CASE \E k \in DOMAIN cache[n] : cache'[n][i] = cache[n][k]
    <3>1. PICK k \in DOMAIN cache[n] : cache'[n][i] = cache[n][k]
      BY <2>1
    <3>2. cache[n][k] \in CacheEntry
      BY DEF TypeOK
    <3>3. cache[n][k].id \in Tx /\ Numbered(cache[n][k].id)
      BY <3>2 DEF CacheEntry, NextIdFresh, Numbered, NumberedAfter
    <3> QED
      BY <1>1, <3>1, <3>3
  <2> QED
    BY <2>1 DEF CarriesOver
<1>3. ASSUME NEW l \in Link, NEW i \in DOMAIN chan'[l], chan'[l][i].kind # "ResetRoute"
      PROVE  NumberedAfter(chan'[l][i].tx)
  <2>1. CASE \E k \in Link : \E j \in DOMAIN chan[k] : chan'[l][i] = chan[k][j]
    <3>1. PICK k \in Link : \E j \in DOMAIN chan[k] : chan'[l][i] = chan[k][j]
      BY <2>1
    <3>2. PICK j \in DOMAIN chan[k] : chan'[l][i] = chan[k][j]
      BY <3>1
    <3>3. chan[k][j] \in Message
      BY DEF TypeOK
    <3>4. chan[k][j].tx \in Tx /\ Numbered(chan[k][j].tx)
      BY <1>3, <3>2, <3>3, MessageTx DEF NextIdFresh, Numbered
    <3> QED
      BY <1>1, <3>2, <3>4
  <2> QED
    BY <1>3, <2>1 DEF CarriesOver
<1> QED
  BY <1>2, <1>3 DEF NextIdFresh, Numbered, NumberedAfter

\* After a message was taken off a link the channels hold what was there.
LEMMA TakeOld ==
  ASSUME NEW ch \in [Link -> Seq(Message)], NEW l \in Link, NEW i \in DOMAIN ch[l],
         NEW d, d = Take(ch, l, i)
  PROVE  /\ d \in [Link -> Seq(Message)]
         /\ \A x \in Link : \A j \in DOMAIN d[x] : \E k \in DOMAIN ch[x] : d[x][j] = ch[x][k]
<1>1. /\ d \in [Link -> Seq(Message)]
      /\ \A x \in Link \ {l} : d[x] = ch[x]
      /\ \A j \in DOMAIN d[l] : \E k \in DOMAIN ch[l] : d[l][j] = ch[l][k]
  BY TakeProperties
<1>2. ASSUME NEW x \in Link, NEW j \in DOMAIN d[x]
      PROVE  \E k \in DOMAIN ch[x] : d[x][j] = ch[x][k]
  <2>1. CASE x = l
    BY <2>1, <1>1, <1>2
  <2>2. CASE x # l
    <3>1. d[x] = ch[x]
      BY <2>2, <1>1
    <3> QED
      BY <3>1, <1>2
  <2> QED
    BY <2>1, <2>2
<1> QED
  BY <1>1, <1>2

\* After a send they hold what was there and the message.
LEMMA SendOld ==
  ASSUME NEW ch \in [Link -> Seq(Message)], NEW n \in Node, NEW to, NEW m \in Message,
         NEW s, s = Send(ch, n, to, m)
  PROVE  \A x \in Link : \A j \in DOMAIN s[x] :
           (\E k \in DOMAIN ch[x] : s[x][j] = ch[x][k]) \/ s[x][j] = m
<1>1. \A y \in Link : \A k \in DOMAIN s[y] :
        \/ k \in DOMAIN ch[y] /\ s[y][k] = ch[y][k]
        \/ y[1] = n /\ y[2] \in to /\ k = Len(ch[y]) + 1 /\ s[y][k] = m
  <2>1. s \in [Link -> Seq(Message)]
    BY SendProperties
  <2> QED
    BY <2>1, SendProperties
<1> QED
  BY <1>1

\* publish: the new transaction has the number that publish has just taken.
LEMMA PublishFresh ==
  ASSUME TypeOK, NEW n \in Node, Publish(n)
  PROVE  CarriesOver
<1> DEFINE t == [from |-> n, seqno |-> seqno[n] + 1]
           m == [kind |-> "Publish", tx |-> t]
           e == [id |-> t, source |-> n]
<1>1. t \in Tx /\ t.from = n /\ t.seqno = seqno[n] + 1 /\ seqno[n] \in Nat
  BY DEF TypeOK, Tx
<1>2. seqno' = [seqno EXCEPT ![n] = @ + 1] /\ seqno \in [Node -> Nat]
  BY DEF Publish, TypeOK
<1>3. NumberedAfter(t) /\ \A k \in Node : seqno[k] <= seqno'[k]
  BY <1>1, <1>2 DEF Numbered, NumberedAfter
<1>4. PICK c \in Unexpired(cache[n]) : cache' = [cache EXCEPT ![n] = Append(c, e)]
  BY DEF Publish
<1>5. PICK to : chan' = Send(chan, n, to, m)
  BY DEF Publish
<1>6. m \in Message /\ m.tx = t /\ e \in CacheEntry /\ e.id = t
  BY <1>1, NewMessages DEF CacheEntry
<1> HIDE DEF t, m, e
<1>7. ASSUME NEW k \in Node, NEW i \in DOMAIN cache'[k]
      PROVE  (\E j \in DOMAIN cache[k] : cache'[k][i] = cache[k][j]) \/ NumberedAfter(cache'[k][i].id)
  <2>1. cache \in [Node -> Seq(CacheEntry)]
    BY DEF TypeOK
  <2>2. CASE k # n
    BY <2>1, <2>2, <1>4, <1>7
  <2>3. CASE k = n
    <3>1. /\ c \in Seq(CacheEntry)
          /\ \A j \in DOMAIN c : \E x \in DOMAIN cache[n] : c[j] = cache[n][x]
      BY <2>1, UnexpiredProperties
    <3>2. cache'[n] = Append(c, e)
      BY <2>1, <1>4
    <3>3. (i \in DOMAIN c /\ cache'[n][i] = c[i]) \/ cache'[n][i] = e
      BY <2>3, <3>1, <3>2, <1>6, <1>7
    <3> QED
      BY <2>3, <3>1, <3>3, <1>3, <1>6
  <2> QED
    BY <2>2, <2>3
<1>8. \A l \in Link : \A i \in DOMAIN chan'[l] :
        (\E j \in DOMAIN chan[l] : chan'[l][i] = chan[l][j]) \/ chan'[l][i] = m
  <2>1. chan \in [Link -> Seq(Message)]
    BY DEF TypeOK
  <2> QED
    BY <2>1, <1>5, <1>6, SendOld
<1>9. \A l \in Link : \A i \in DOMAIN chan'[l] :
        \/ \E k \in Link : \E j \in DOMAIN chan[k] : chan'[l][i] = chan[k][j]
        \/ NumberedAfter(chan'[l][i].tx)
  BY <1>3, <1>6, <1>8
<1> QED
  BY <1>3, <1>7, <1>9 DEF CarriesOver

\* handle_received_transaction: what it caches, forwards or answers with is the
\* transaction it took off the link.
LEMMA ReceiveFresh ==
  ASSUME TypeOK, NextIdFresh, NEW n \in Node, NEW p \in Node, ReceiveTransaction(n, p)
  PROVE  CarriesOver
<1> DEFINE l == <<p, n>>
<1>1. l \in Link /\ chan \in [Link -> Seq(Message)] /\ cache \in [Node -> Seq(CacheEntry)]
  BY DEF TypeOK, Link
<1>2. PICK i \in Deliverable(chan[l]), c \in Unexpired(cache[n]) :
        IsTx(chan[l][i]) /\ (ReceiveFirst(n, p, i, c) \/ ReceiveDuplicate(n, p, i, c))
  BY DEF ReceiveTransaction
<1> DEFINE t == chan[l][i].tx
           e == [id |-> t, source |-> p]
           forward == [kind |-> "Forward", tx |-> t]
           answer == [kind |-> "HaveTx", tx |-> t]
<1>3. i \in DOMAIN chan[l] /\ chan[l][i] \in Message /\ chan[l][i].kind # "ResetRoute"
  <2>1. i \in DOMAIN chan[l]
    BY DEF Deliverable
  <2> QED
    BY <1>1, <1>2, <2>1 DEF IsTx
<1>4. t \in Tx /\ Numbered(t) /\ UNCHANGED seqno
  BY <1>1, <1>3, MessageTx DEF NextIdFresh, Numbered, ReceiveTransaction
<1>5. /\ forward \in Message /\ forward.tx = t
      /\ answer \in Message /\ answer.tx = t
      /\ e \in CacheEntry /\ e.id = t
  BY <1>4, NewMessages DEF CacheEntry
<1> PICK d : d = Take(chan, l, i)
  OBVIOUS
<1>6. /\ cache' = [cache EXCEPT ![n] = Append(c, e)] \/ cache' = [cache EXCEPT ![n] = c]
      /\ \/ \E to : chan' = Send(d, n, to, forward) \/ chan' = Send(d, n, to, answer)
         \/ chan' = d
  BY <1>2 DEF ReceiveFirst, ReceiveDuplicate
<1>7. NumberedAfter(t) /\ \A k \in Node : seqno[k] <= seqno'[k]
  <2>1. \A k \in Node : seqno[k] \in Nat
    BY DEF TypeOK
  <2> QED
    BY <1>4, <2>1 DEF Numbered, NumberedAfter
<1>8. ASSUME NEW k \in Node, NEW x \in DOMAIN cache'[k]
      PROVE  (\E j \in DOMAIN cache[k] : cache'[k][x] = cache[k][j]) \/ NumberedAfter(cache'[k][x].id)
  <2> HIDE DEF t, e, l
  <2>1. CASE k # n
    BY <2>1, <1>1, <1>6, <1>8
  <2>2. CASE k = n
    <3>1. /\ c \in Seq(CacheEntry)
          /\ \A j \in DOMAIN c : \E y \in DOMAIN cache[n] : c[j] = cache[n][y]
      BY <1>1, UnexpiredProperties
    <3>2. cache'[n] = Append(c, e) \/ cache'[n] = c
      BY <1>1, <1>6
    <3>3. (x \in DOMAIN c /\ cache'[n][x] = c[x]) \/ cache'[n][x] = e
      BY <2>2, <3>1, <3>2, <1>5, <1>8
    <3> QED
      BY <2>2, <3>1, <3>3, <1>5, <1>7
  <2> QED
    BY <2>1, <2>2
<1>9. /\ d \in [Link -> Seq(Message)]
      /\ \A k \in Link : \A x \in DOMAIN d[k] : \E j \in DOMAIN chan[k] : d[k][x] = chan[k][j]
  <2> HIDE DEF forward, answer, t, e, l
  <2>1. d = Take(chan, l, i) /\ l \in Link /\ chan \in [Link -> Seq(Message)]
    BY <1>1
  <2>2. i \in DOMAIN chan[l]
    BY <1>3
  <2> QED
    BY <2>1, <2>2, TakeOld
<1> HIDE DEF forward, answer, t, l
<1>10. \A k \in Link : \A x \in DOMAIN chan'[k] :
         \/ \E j \in DOMAIN d[k] : chan'[k][x] = d[k][j]
         \/ chan'[k][x] = forward \/ chan'[k][x] = answer
  <2>1. CASE chan' = d
    BY <2>1
  <2>2. CASE \E to : chan' = Send(d, n, to, forward) \/ chan' = Send(d, n, to, answer)
    <3>1. PICK to : chan' = Send(d, n, to, forward) \/ chan' = Send(d, n, to, answer)
      BY <2>2
    <3> QED
      BY <3>1, <1>5, <1>9, SendOld
  <2> QED
    BY <1>6, <2>1, <2>2
<1>11. ASSUME NEW k \in Link, NEW x \in DOMAIN chan'[k]
       PROVE  \/ \E y \in Link : \E j \in DOMAIN chan[y] : chan'[k][x] = chan[y][j]
              \/ NumberedAfter(chan'[k][x].tx)
  <2>1. CASE \E j \in DOMAIN d[k] : chan'[k][x] = d[k][j]
    BY <2>1, <1>9
  <2>2. CASE chan'[k][x] = forward \/ chan'[k][x] = answer
    BY <2>2, <1>5, <1>7
  <2> QED
    BY <2>1, <2>2, <1>10, <1>11
<1> QED
  BY <1>7, <1>8, <1>11 DEF CarriesOver

\* Every other step leaves caches and numbers alone and adds at most a
\* ResetRoute to the channels.
LEMMA QuietFresh ==
  ASSUME TypeOK, UNCHANGED <<cache, seqno>>,
         \A l \in Link : \A i \in DOMAIN chan'[l] :
           \/ \E k \in Link : \E j \in DOMAIN chan[k] : chan'[l][i] = chan[k][j]
           \/ chan'[l][i].kind = "ResetRoute"
  PROVE  CarriesOver
<1>1. \A n \in Node : seqno[n] <= seqno'[n]
  BY DEF TypeOK
<1> QED
  BY <1>1 DEF CarriesOver

\* A step that takes a message off a link.
LEMMA TakeFresh ==
  ASSUME TypeOK, UNCHANGED <<cache, seqno>>,
         NEW l \in Link, NEW i \in DOMAIN chan[l], chan' = Take(chan, l, i)
  PROVE  CarriesOver
<1>1. chan \in [Link -> Seq(Message)]
  BY DEF TypeOK
<1>2. \A k \in Link : \A x \in DOMAIN chan'[k] : \E j \in DOMAIN chan[k] : chan'[k][x] = chan[k][j]
  BY <1>1, TakeOld
<1> QED
  BY <1>2, QuietFresh

\* A step that empties links and then adjusts the redundancy.
LEMMA AdjustFresh ==
  ASSUME TypeOK, UNCHANGED <<cache, seqno>>, NEW n \in Node, NEW peers,
         NEW ch \in [Link -> Seq(Message)], \A l \in Link : ch[l] = chan[l] \/ ch[l] = <<>>,
         AdjustRedundancy(n, peers, ch)
  PROVE  CarriesOver
<1>1. \A l \in Link : \A j \in DOMAIN chan'[l] :
        \/ j \in DOMAIN ch[l] /\ chan'[l][j] = ch[l][j]
        \/ chan'[l][j] = [kind |-> "ResetRoute"]
  BY AdjustRedundancyStep
<1>2. \A l \in Link : \A j \in DOMAIN ch[l] : j \in DOMAIN chan[l] /\ ch[l][j] = chan[l][j]
  OBVIOUS
<1>3. [kind |-> "ResetRoute"].kind = "ResetRoute"
  OBVIOUS
<1> QED
  BY <1>1, <1>2, <1>3, QuietFresh

\* Every step of the network carries numbers over.
LEMMA StepFresh ==
  ASSUME TypeOK, NextIdFresh, Next
  PROVE  CarriesOver
<1>1. ASSUME NEW n \in Node, Publish(n) PROVE CarriesOver
  BY <1>1, PublishFresh
<1>2. ASSUME NEW n \in Node, RedundancyInterval(n) PROVE CarriesOver
  <2>1. AdjustRedundancy(n, connected[n], chan) /\ chan \in [Link -> Seq(Message)]
    BY <1>2 DEF RedundancyInterval, TypeOK
  <2> QED
    BY <1>2, <2>1, AdjustFresh DEF RedundancyInterval
<1>3. ASSUME NEW n \in Node, NEW p \in Node, ReceiveTransaction(n, p) PROVE CarriesOver
  BY <1>3, ReceiveFresh
<1>4. ASSUME NEW n \in Node, NEW p \in Node, ReceiveHaveTx(n, p) \/ ReceiveResetRoute(n, p)
      PROVE  CarriesOver
  <2>1. \E i \in DOMAIN chan[<<p, n>>] : chan' = Take(chan, <<p, n>>, i)
    BY <1>4 DEF ReceiveHaveTx, ReceiveResetRoute, Deliverable
  <2>2. UNCHANGED <<cache, seqno>> /\ <<p, n>> \in Link
    BY <1>4 DEF ReceiveHaveTx, ReceiveResetRoute, Link
  <2> QED
    BY <2>1, <2>2, TakeFresh
<1>5. ASSUME NEW n \in Node, NEW p \in Node, Dial(n, p) PROVE CarriesOver
  <2>1. chan' = [chan EXCEPT ![<<n, p>>] = <<>>, ![<<p, n>>] = <<>>]
    BY <1>5 DEF Dial
  <2>2. chan \in [Link -> Seq(Message)]
    BY DEF TypeOK
  <2>3. \A l \in Link : chan'[l] = IF l = <<p, n>> \/ l = <<n, p>> THEN <<>> ELSE chan[l]
    BY <2>1, <2>2
  <2>4. \A l \in Link : \A j \in DOMAIN chan'[l] : j \in DOMAIN chan[l] /\ chan'[l][j] = chan[l][j]
    BY <2>3
  <2> QED
    BY <1>5, <2>4, QuietFresh DEF Dial
<1>6. ASSUME NEW n \in Node, NEW p \in Node, Accept(n, p) PROVE CarriesOver
  BY <1>6, QuietFresh DEF Accept
<1>7. ASSUME NEW n \in Node, NEW p \in Node, ConnectionClosed(n, p) PROVE CarriesOver
  <2> DEFINE ch == [chan EXCEPT ![<<p, n>>] = <<>>]
  <2>1. ch \in [Link -> Seq(Message)] /\ \A l \in Link : ch[l] = chan[l] \/ ch[l] = <<>>
    BY DEF TypeOK, Link
  <2>2. AdjustRedundancy(n, connected[n] \ {p}, ch) /\ UNCHANGED <<cache, seqno>>
    BY <1>7 DEF ConnectionClosed
  <2> HIDE DEF ch
  <2> QED
    BY <2>1, <2>2, AdjustFresh
<1>8. ASSUME NEW n \in Node, NEW p \in Node, TransactionDropped(n, p) \/ MessageLost(n, p)
      PROVE  CarriesOver
  <2>1. \E i \in DOMAIN chan[<<n, p>>] : chan' = Take(chan, <<n, p>>, i)
    BY <1>8 DEF TransactionDropped, MessageLost, Stale, Deliverable
  <2>2. UNCHANGED <<cache, seqno>> /\ <<n, p>> \in Link
    BY <1>8 DEF TransactionDropped, MessageLost, Link
  <2> QED
    BY <2>1, <2>2, TakeFresh
<1> QED
  BY <1>1, <1>2, <1>3, <1>4, <1>5, <1>6, <1>7, <1>8 DEF Next, Receive

\* In every network, whatever is lost and expires, the number that publish
\* takes next is ahead of every id of the node's own that is left anywhere:
\* the early return of PublishError::Duplicate (behaviour.rs:258) is dead code.
THEOREM NumbersFresh == Spec => []NextIdFresh
<1>1. Init => NextIdFresh
  BY DEF Init, NextIdFresh
<1>2. TypeOK /\ TypeOK' /\ NextIdFresh /\ [Next]_vars => NextIdFresh'
  <2>1. ASSUME UNCHANGED vars, NextIdFresh PROVE NextIdFresh'
    BY <2>1 DEF vars, NextIdFresh
  <2> QED
    BY <2>1, StepFresh, FreshStep
<1> QED
  BY <1>1, <1>2, TypeCorrect, PTL DEF Spec

-----------------------------------------------------------------------------
(* Without expiry the network implements Broadcast.                        *)

Receipts == [n \in Node |-> ToSet(cache[n])]

\* What a cache holds, as a set of receipts.
LEMMA ReceiptsOf ==
  ASSUME TypeOK, NEW n \in Node
  PROVE  /\ Receipts[n] = {cache[n][i] : i \in DOMAIN cache[n]}
         /\ \A t : Promise!Has(n, t) <=> Cached(cache[n], t)
<1>1. Receipts[n] = {cache[n][i] : i \in DOMAIN cache[n]}
  BY DEF Receipts, ToSet
<1>2. \A t : Promise!Has(n, t) <=> \E r \in Receipts[n] : r.id = t
  BY DEF Promise!Has, Receipts
<1> QED
  BY <1>1, <1>2 DEF Cached

\* An insertion into the cache of n adds one receipt.
LEMMA GrowReceipts ==
  ASSUME TypeOK, NEW n \in Node, NEW t \in Tx, NEW s \in Node, Grows(n, t, s)
  PROVE  Promise!Get(n, t, s)
<1> DEFINE e == [id |-> t, source |-> s]
<1>1. e \in CacheEntry /\ cache \in [Node -> Seq(CacheEntry)]
  BY DEF CacheEntry, TypeOK
<1>2. cache'[n] = Append(cache[n], e) /\ \A m \in Node \ {n} : cache'[m] = cache[m]
  BY <1>1 DEF Grows
<1> HIDE DEF e
<1>3. /\ DOMAIN cache'[n] = DOMAIN cache[n] \cup {Len(cache[n]) + 1}
      /\ cache'[n][Len(cache[n]) + 1] = e
      /\ \A i \in DOMAIN cache[n] : cache'[n][i] = cache[n][i]
  BY <1>1, <1>2
<1>4. ToSet(cache'[n]) = ToSet(cache[n]) \cup {e}
  BY <1>3 DEF ToSet
<1>5. [m \in Node |-> ToSet(cache'[m])]
        = [[m \in Node |-> ToSet(cache[m])] EXCEPT ![n] = @ \cup {e}]
  BY <1>2, <1>4
<1> QED
  BY <1>5 DEF Promise!Get, e

\* Every step of the network is a step of Broadcast or leaves it as it is.
LEMMA PromiseStep ==
  ASSUME TypeOK, TypeOK', GossipInv, Next
  PROVE  [Promise!Next]_(Promise!vars)
<1>1. ASSUME UNCHANGED <<cache, seqno>> PROVE Promise!Relink
  <2>1. connected' \in [Node -> SUBSET Node]
    BY DEF TypeOK
  <2> QED
    BY <1>1, <2>1 DEF Promise!Relink
<1>2. ASSUME NEW n \in Node, Publish(n) PROVE Promise!Publish(n)
  <2> DEFINE t == [from |-> n, seqno |-> seqno[n] + 1]
  <2>1. t \in Tx
    BY DEF TypeOK, Tx
  <2>2. Grows(n, t, n)
    BY <1>2, NothingExpires DEF Publish, Grows, GossipInv
  <2>3. Promise!Get(n, t, n)
    BY <2>1, <2>2, GrowReceipts
  <2>4. seqno' = [seqno EXCEPT ![n] = @ + 1] /\ UNCHANGED connected
    BY <1>2 DEF Publish, links
  <2> QED
    BY <2>3, <2>4 DEF Promise!Publish
<1>3. ASSUME NEW n \in Node, NEW p \in Node, ReceiveTransaction(n, p)
      PROVE  (\E r \in Receipts[p] : Promise!Deliver(n, p, r.id)) \/ UNCHANGED <<cache, seqno>>
  <2>1. PICK i \in Deliverable(chan[<<p, n>>]), c \in Unexpired(cache[n]) :
          /\ IsTx(chan[<<p, n>>][i])
          /\ ReceiveFirst(n, p, i, c) \/ ReceiveDuplicate(n, p, i, c)
    BY <1>3 DEF ReceiveTransaction
  <2>2. c = cache[n]
    BY NothingExpires DEF GossipInv
  <2>3. p \in connected[n] /\ UNCHANGED <<seqno, connected>>
    BY <1>3 DEF ReceiveTransaction, links
  <2>4. CASE ReceiveDuplicate(n, p, i, c)
    BY <2>2, <2>3, <2>4 DEF ReceiveDuplicate, TypeOK
  <2>5. CASE ReceiveFirst(n, p, i, c)
    <3> DEFINE t == chan[<<p, n>>][i].tx
    <3>1. i \in DOMAIN chan[<<p, n>>] /\ chan[<<p, n>>] \in Seq(Message)
      BY DEF Deliverable, TypeOK, Link
    <3>2. t \in Tx
      BY <2>1, <3>1, MessageTx DEF IsTx
    <3>3. Grows(n, t, p) /\ ~Cached(cache[n], t)
      BY <2>2, <2>5 DEF ReceiveFirst, Grows
    <3>4. Carries(chan, <<p, n>>, t)
      BY <2>1, <3>1 DEF Carries
    <3>5. Cached(cache[p], t)
      BY <3>2, <3>4 DEF GossipInv, LinkEnds
    <3> HIDE DEF t
    <3>6. Promise!Get(n, t, p)
      BY <3>2, <3>3, GrowReceipts
    <3>7. Promise!Has(p, t) /\ ~Promise!Has(n, t)
      BY <3>3, <3>5, ReceiptsOf
    <3>8. Promise!Deliver(n, p, t)
      BY <2>3, <3>6, <3>7 DEF Promise!Deliver
    <3>9. \E r \in Receipts[p] : r.id = t
      BY <3>5, ReceiptsOf DEF Cached
    <3> QED
      BY <3>8, <3>9
  <2> QED
    BY <2>1, <2>4, <2>5
<1>4. ASSUME NEW n \in Node, RedundancyInterval(n) PROVE UNCHANGED <<cache, seqno>>
  BY <1>4 DEF RedundancyInterval
<1>5. ASSUME NEW n \in Node, NEW p \in Node,
             \/ ReceiveHaveTx(n, p) \/ ReceiveResetRoute(n, p)
             \/ Dial(n, p) \/ Accept(n, p) \/ ConnectionClosed(n, p)
             \/ TransactionDropped(n, p) \/ MessageLost(n, p)
      PROVE  UNCHANGED <<cache, seqno>>
  BY <1>5 DEF ReceiveHaveTx, ReceiveResetRoute, Dial, Accept, ConnectionClosed,
     TransactionDropped, MessageLost
<1>6. \/ \E n \in Node : Promise!Publish(n)
      \/ \E n, p \in Node : \E r \in Receipts[p] : Promise!Deliver(n, p, r.id)
      \/ UNCHANGED <<cache, seqno>>
  BY <1>2, <1>3, <1>4, <1>5 DEF Next, Receive
<1> QED
  BY <1>1, <1>6 DEF Promise!Next, Receipts

\* Without expiry, in every network and under any churn and loss, the caches
\* show a broadcast: a transaction is one that its author published, and a
\* node takes it once, from a connected peer that has it (behaviour.rs:486-564).
THEOREM NetworkBroadcasts == MaxExpiries = 0 /\ Spec => ImplementsBroadcast
<1> SUFFICES ASSUME MaxExpiries = 0 PROVE Spec => ImplementsBroadcast
  OBVIOUS
<1>1. Init => Promise!Init
  <2> SUFFICES ASSUME Init PROVE Promise!Init
    OBVIOUS
  <2>1. connected \in [Node -> SUBSET Node] /\ seqno = [n \in Node |-> 0]
    BY DEF Init
  <2>2. [n \in Node |-> ToSet(cache[n])] = [n \in Node |-> {}]
    BY DEF Init, ToSet
  <2> QED
    BY <2>1, <2>2 DEF Promise!Init
<1>2. TypeOK /\ TypeOK' /\ GossipInv /\ [Next]_vars => [Promise!Next]_(Promise!vars)
  <2>1. ASSUME UNCHANGED vars PROVE UNCHANGED Promise!vars
    BY <2>1 DEF vars, Promise!vars
  <2> QED
    BY <2>1, PromiseStep
<1> QED
  BY <1>1, <1>2, TypeCorrect, GossipInvariant, PTL DEF Spec, ImplementsBroadcast, Promise!Spec
=============================================================================
