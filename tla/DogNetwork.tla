----------------------------- MODULE DogNetwork -----------------------------
(***************************************************************************)
(* A network of dog nodes: every node runs the Behaviour of                *)
(* dog/src/behaviour.rs, with the Router and the Controller of dog/src/    *)
(* dog.rs and the duplicate cache of dog/src/time_cache.rs.  An action is  *)
(* one call of publish, one on_connection_handler_event, one connection    *)
(* event of the swarm or one expiry of redundancy_interval; the behaviour  *)
(* is a single task, so each of them is atomic for its node.               *)
(*                                                                         *)
(* chan[<<a, b>>] is what a has handed to its send queue for b and b has   *)
(* not processed, in the order of the sends: the two queues of rpc.rs      *)
(* together with the substream.  Publish, HaveTx and ResetRoute travel in  *)
(* the priority queue, Forwards in the other one, and either queue keeps   *)
(* its order; the merge of the two is left open (module SendQueue has the  *)
(* queues and the accesses that decide it).                                *)
(***************************************************************************)
EXTENDS DogRouter, DogController, Sequences, FiniteSets, SequencesExt

CONSTANTS
  InitLink,             \* the undirected links established in the initial state
  Publishers,           \* the nodes whose application publishes
  SendHaveTx,           \* the nodes with Config.send_have_tx
  IgnoreHaveTx,         \* the nodes with Config.ignore_have_tx
  ForwardTransactions,  \* the nodes with Config.forward_transactions
  QueuesFill,           \* the queues for transactions can be full
  StaleDrops,           \* the queue timeouts of transactions can elapse
  MaxSeqno,             \* bound: transactions published by a node
  MaxDials,             \* bound: connections dialled after the initial ones
  MaxCloses,            \* bound: connections that break
  MaxLoss,              \* bound: messages lost to a failing substream
  MaxExpiries           \* bound: insertions that find expired cache entries

ASSUME NetworkAssumption ==
  /\ IsFiniteSet(Node)
  /\ InitLink \subseteq SUBSET Node
  /\ \A l \in InitLink : Cardinality(l) = 2
  /\ Publishers \subseteq Node
  /\ {QueuesFill, StaleDrops} \subseteq BOOLEAN
  /\ {MaxSeqno, MaxDials, MaxCloses, MaxLoss, MaxExpiries} \subseteq Nat

VARIABLES
  connected,   \* [Node -> SUBSET Node]: the keys of connected_peers
  pending,     \* <<p, n>>: n dialled p, and p has not seen the connection yet
  chan,        \* see above
  cache,       \* [Node -> Seq(CacheEntry)]: the duplicate cache, oldest first
  outcome,     \* [Node -> Outcome]: what the last publish of a node returned
  seqno,       \* [Node -> Nat]: last_seqno, counted from the node's start
  disabled,    \* [Node -> [Route -> Nat]]: disabled_routes
  haveTxSent,  \* [Node -> [Node -> Nat]]: have_tx_sent_per_peer
  ctl,         \* [Node -> Controller]: redundancy_controller
  budget,      \* the dials, closes, losses and expiries still possible
  given,       \* [Link -> Seq(Tx)]: what was ever queued on a link, for the properties
  missed       \* [Link -> SUBSET Tx]: the copies a peer was not given, or that were lost

routing == <<disabled, haveTxSent, ctl>>
links == <<connected, pending>>
history == <<given, missed>>
vars == <<connected, pending, chan, cache, outcome, seqno, disabled, haveTxSent, ctl, budget,
          given, missed>>

Tx == [from : Node, seqno : Nat]      \* identified by author and seqno
CacheEntry == [id : Tx, source : Node]
Message == [kind : {"Publish", "Forward", "HaveTx"}, tx : Tx]
             \cup [kind : {"ResetRoute"}]
Link == Node \X Node
IsTx(m) == m.kind \in {"Publish", "Forward"}
Outcome == [result : {"None", "Ok", "InsufficientPeers", "AllQueuesFull"}, peers : Nat]
Budget == [dials : Nat, closes : Nat, losses : Nat, expiries : Nat]

-----------------------------------------------------------------------------
(* The duplicate cache.                                                    *)

Cached(c, tx) == \E i \in DOMAIN c : c[i].id = tx
CachedFrom(c, tx, source) == \E i \in DOMAIN c : c[i] = [id |-> tx, source |-> source]

\* What remove_expired_values may leave: entries expire in insertion order.
Unexpired(c) ==
  {SubSeq(c, k + 1, Len(c)) : k \in IF budget.expiries > 0 THEN 0 .. Len(c) ELSE {0}}

SpendExpiry(n, c) ==
  budget' = IF c = cache[n] THEN budget ELSE [budget EXCEPT !.expiries = @ - 1]

-----------------------------------------------------------------------------
(* The send queues and the substream.                                      *)

Priority(m) == m.kind # "Forward"

\* Slip: the queue of the Forwards is never served.
PriorityOnly(q) ==
  {i \in DOMAIN q : Priority(q[i]) /\ \A j \in 1 .. (i - 1) : ~Priority(q[j])}

\* The first message of either queue.  poll_next serves the priority queue
\* first, but looks at the two one after the other: a Forward goes ahead of
\* the priority messages sent since the first look, or since it was taken.
Deliverable(q) ==
  {i \in DOMAIN q : \A j \in 1 .. (i - 1) : Priority(q[i]) # Priority(q[j])}

\* A transaction at the head of its queue whose timeout has elapsed.
Stale(q) == {i \in Deliverable(q) : IsTx(q[i])}

Send(ch, n, targets, m) ==
  [l \in Link |-> IF l[1] = n /\ l[2] \in targets THEN Append(ch[l], m) ELSE ch[l]]

Take(ch, l, i) == [ch EXCEPT ![l] = RemoveAt(@, i)]

\* The recipients whose queue accepts a transaction.
Accepting(recipients) == IF QueuesFill THEN SUBSET recipients ELSE {recipients}

\* The history when n has a transaction from `source' and queues it for those
\* of `recipients' whose queue accepts it.
Record(n, tx, source, recipients, to) ==
  LET closed == connected[n] \ FilterValidRoutes(disabled[n], source, connected[n])
  IN /\ given' = Send(given, n, to, tx)
     /\ missed' = [l \in Link |-> IF l[1] = n /\ l[2] \in closed \cup (recipients \ to)
                                   THEN missed[l] \cup {tx} ELSE missed[l]]

-----------------------------------------------------------------------------
Init ==
  /\ connected = [n \in Node |-> {p \in Node : {n, p} \in InitLink}]
  /\ pending = {}
  /\ chan = [l \in Link |-> <<>>]
  /\ cache = [n \in Node |-> <<>>]
  /\ outcome = [n \in Node |-> [result |-> "None", peers |-> 0]]
  /\ seqno = [n \in Node |-> 0]
  /\ disabled = [n \in Node |-> NoRoutes]
  /\ haveTxSent = [n \in Node |-> NoHaveTxSent]
  /\ ctl = [n \in Node |-> NewController]
  /\ budget = [dials |-> MaxDials, closes |-> MaxCloses, losses |-> MaxLoss,
               expiries |-> MaxExpiries]
  /\ given = [l \in Link |-> <<>>]
  /\ missed = [l \in Link |-> {}]

\* The result of a publish to `recipients' of which `to' accepted; AllQueuesFull
\* carries connected_peers.len().
PublishResult(n, recipients, to) ==
  CASE recipients = {} -> [result |-> "InsufficientPeers", peers |-> 0]
    [] recipients # {} /\ to = {} ->
         [result |-> "AllQueuesFull", peers |-> Cardinality(connected[n])]
    [] OTHER -> [result |-> "Ok", peers |-> 0]

\* Slip: the sequence number only advances when some queue accepted.
PublishReusing(n) ==
  LET tx == [from |-> n, seqno |-> seqno[n] + 1]
      recipients == FilterValidRoutes(disabled[n], n, connected[n])
  IN /\ n \in Publishers
     /\ seqno[n] < MaxSeqno
     /\ ~Cached(cache[n], tx)
     /\ \E c \in Unexpired(cache[n]) :
          /\ cache' = [cache EXCEPT ![n] = Append(c, [id |-> tx, source |-> n])]
          /\ SpendExpiry(n, c)
     /\ \E to \in Accepting(recipients) :
          /\ chan' = Send(chan, n, to, [kind |-> "Publish", tx |-> tx])
          /\ outcome' = [outcome EXCEPT ![n] = PublishResult(n, recipients, to)]
          /\ Record(n, tx, n, recipients, to)
          /\ seqno' = [seqno EXCEPT ![n] = IF to = {} THEN @ ELSE @ + 1]
     /\ UNCHANGED <<links, routing>>

\* publish.  The guard on the cache is the early return of Duplicate, which
\* NextIdFresh shows is never taken.
Publish(n) ==
  LET tx == [from |-> n, seqno |-> seqno[n] + 1]
      recipients == FilterValidRoutes(disabled[n], n, connected[n])
  IN /\ n \in Publishers
     /\ seqno[n] < MaxSeqno
     /\ ~Cached(cache[n], tx)
     /\ seqno' = [seqno EXCEPT ![n] = @ + 1]
     /\ \E c \in Unexpired(cache[n]) :
          /\ cache' = [cache EXCEPT ![n] = Append(c, [id |-> tx, source |-> n])]
          /\ SpendExpiry(n, c)
     /\ \E to \in Accepting(recipients) :
          /\ chan' = Send(chan, n, to, [kind |-> "Publish", tx |-> tx])
          /\ outcome' = [outcome EXCEPT ![n] = PublishResult(n, recipients, to)]
          /\ Record(n, tx, n, recipients, to)
     /\ UNCHANGED <<links, routing>>

\* Slip: the peer the transaction came from is not left out.
ForwardTargetsAll(n, p, tx) ==
  IF n \in ForwardTransactions
    THEN FilterValidRoutes(disabled[n], p, connected[n] \ {tx.from})
    ELSE {}

\* Slip: only what comes from its author itself is forwarded.
ForwardTargetsDirect(n, p, tx) ==
  IF n \in ForwardTransactions /\ p = tx.from
    THEN FilterValidRoutes(disabled[n], p, connected[n] \ {p, tx.from})
    ELSE {}

\* forward_transaction: the peers a transaction received from p goes to.
ForwardTargets(n, p, tx) ==
  IF n \in ForwardTransactions
    THEN FilterValidRoutes(disabled[n], p, connected[n] \ {p, tx.from})
    ELSE {}

\* Slip: the node records itself as the source, as publish does.
ReceiveFirstAsOwn(n, p, i, c) ==
  LET tx == chan[<<p, n>>][i].tx
      recipients == ForwardTargets(n, p, tx)
  IN /\ ~Cached(c, tx)
     /\ cache' = [cache EXCEPT ![n] = Append(c, [id |-> tx, source |-> n])]
     /\ ctl' = [ctl EXCEPT ![n] = IncrFirstTime(@)]
     /\ \E to \in Accepting(recipients) :
          /\ chan' = Send(Take(chan, <<p, n>>, i), n, to, [kind |-> "Forward", tx |-> tx])
          /\ Record(n, tx, p, recipients, to)
     /\ UNCHANGED haveTxSent

\* handle_received_transaction, first time: it is cached and forwarded.
ReceiveFirst(n, p, i, c) ==
  LET tx == chan[<<p, n>>][i].tx
      recipients == ForwardTargets(n, p, tx)
  IN /\ ~Cached(c, tx)
     /\ cache' = [cache EXCEPT ![n] = Append(c, [id |-> tx, source |-> p])]
     /\ ctl' = [ctl EXCEPT ![n] = IncrFirstTime(@)]
     /\ \E to \in Accepting(recipients) :
          /\ chan' = Send(Take(chan, <<p, n>>, i), n, to, [kind |-> "Forward", tx |-> tx])
          /\ Record(n, tx, p, recipients, to)
     /\ UNCHANGED haveTxSent

\* Slip: a duplicate is forwarded like the first copy.
ReceiveDuplicateForwarding(n, p, i, c) ==
  LET tx == chan[<<p, n>>][i].tx
      recipients == ForwardTargets(n, p, tx)
  IN /\ Cached(c, tx)
     /\ cache' = [cache EXCEPT ![n] = c]
     /\ ctl' = [ctl EXCEPT ![n] = IncrDuplicate(@)]
     /\ \E to \in Accepting(recipients) :
          /\ chan' = Send(Take(chan, <<p, n>>, i), n, to, [kind |-> "Forward", tx |-> tx])
          /\ Record(n, tx, p, recipients, to)
     /\ UNCHANGED haveTxSent

\* handle_received_transaction, duplicate: answered with HaveTx unless blocked.
ReceiveDuplicate(n, p, i, c) ==
  LET tx == chan[<<p, n>>][i].tx
      answer == n \in SendHaveTx /\ ~ctl[n].blocked
  IN /\ Cached(c, tx)
     /\ cache' = [cache EXCEPT ![n] = c]
     /\ \/ /\ answer
           /\ ctl' = [ctl EXCEPT ![n] = BlockHaveTx(IncrDuplicate(@))]
           /\ haveTxSent' = [haveTxSent EXCEPT ![n] = RegisterHaveTxSent(@, p)]
           /\ chan' = Send(Take(chan, <<p, n>>, i), n, {p}, [kind |-> "HaveTx", tx |-> tx])
        \/ /\ ~answer
           /\ ctl' = [ctl EXCEPT ![n] = IncrDuplicate(@)]
           /\ chan' = Take(chan, <<p, n>>, i)
           /\ UNCHANGED haveTxSent
     /\ UNCHANGED history

ReceiveTransaction(n, p) ==
  /\ p \in connected[n]
  /\ \E i \in Deliverable(chan[<<p, n>>]) :
       /\ IsTx(chan[<<p, n>>][i])
       /\ \E c \in Unexpired(cache[n]) :
            /\ ReceiveFirst(n, p, i, c) \/ ReceiveDuplicate(n, p, i, c)
            /\ SpendExpiry(n, c)
  /\ UNCHANGED <<links, outcome, seqno, disabled>>

\* handle_have_tx, for the one id that a HaveTx rpc carries.
ReceiveHaveTx(n, p) ==
  /\ p \in connected[n]
  /\ \E i \in Deliverable(chan[<<p, n>>]) :
       LET tx == chan[<<p, n>>][i].tx
       IN /\ chan[<<p, n>>][i].kind = "HaveTx"
          /\ chan' = Take(chan, <<p, n>>, i)
          /\ \/ \E s \in Node \ {p} :
                  /\ n \notin IgnoreHaveTx
                  /\ CachedFrom(cache[n], tx, s)
                  /\ disabled' = [disabled EXCEPT ![n] = DisableRoute(@, s, p)]
             \/ /\ n \in IgnoreHaveTx \/ \A s \in Node \ {p} : ~CachedFrom(cache[n], tx, s)
                /\ UNCHANGED disabled
  /\ UNCHANGED <<links, cache, outcome, seqno, haveTxSent, ctl, budget, history>>

\* handle_reset_route: a random closed route to the requester is re-opened.
ReceiveResetRoute(n, p) ==
  /\ p \in connected[n]
  /\ \E i \in Deliverable(chan[<<p, n>>]) :
       /\ chan[<<p, n>>][i].kind = "ResetRoute"
       /\ chan' = Take(chan, <<p, n>>, i)
       /\ \/ \E r \in ClosedRoutesTo(disabled[n], p) :
               disabled' = [disabled EXCEPT ![n] = EnableRoute(@, r)]
          \/ ClosedRoutesTo(disabled[n], p) = {} /\ UNCHANGED disabled
  /\ UNCHANGED <<links, cache, outcome, seqno, haveTxSent, ctl, budget, history>>

-----------------------------------------------------------------------------
\* The peers adjust_redundancy may pick for a ResetRoute; one that is no
\* longer connected may be picked, and then nothing is sent.
ResetCandidates(n) ==
  IF RedundancyTooLow(ctl[n]) THEN HaveTxSentPeers(haveTxSent[n]) ELSE {}

\* adjust_redundancy of n, whose connected peers are now `peers' and the
\* channels `ch'.
AdjustRedundancy(n, peers, ch) ==
  /\ ctl' = [ctl EXCEPT ![n] = ResetCounters(Evaluate(@))]
  /\ \/ \E q \in ResetCandidates(n) \cap peers :
          /\ chan' = Send(ch, n, {q}, [kind |-> "ResetRoute"])
          /\ haveTxSent' = [haveTxSent EXCEPT ![n] = RemoveHaveTxSent(@, q)]
     \/ /\ ResetCandidates(n) = {} \/ ~(ResetCandidates(n) \subseteq peers)
        /\ chan' = ch
        /\ UNCHANGED haveTxSent

\* The redundancy_interval of n elapses.
RedundancyInterval(n) ==
  /\ AdjustRedundancy(n, connected[n], chan)
  /\ UNCHANGED <<links, cache, outcome, seqno, disabled, budget, history>>

\* handle_established_outbound_connection at n, for a new connection to p.
Dial(n, p) ==
  /\ n # p
  /\ budget.dials > 0
  /\ p \notin connected[n] /\ n \notin connected[p]
  /\ <<n, p>> \notin pending /\ <<p, n>> \notin pending
  /\ connected' = [connected EXCEPT ![n] = @ \cup {p}]
  /\ pending' = pending \cup {<<p, n>>}
  /\ chan' = [chan EXCEPT ![<<n, p>>] = <<>>, ![<<p, n>>] = <<>>]
  /\ budget' = [budget EXCEPT !.dials = @ - 1]
  /\ UNCHANGED <<cache, outcome, seqno, routing, history>>

\* handle_established_inbound_connection at p, for a connection dialled by n.
Accept(p, n) ==
  /\ <<p, n>> \in pending
  /\ pending' = pending \ {<<p, n>>}
  /\ connected' = [connected EXCEPT ![p] = @ \cup {n}]
  /\ UNCHANGED <<chan, cache, outcome, seqno, routing, budget, history>>

\* on_connection_closed at n, for its only connection to p.  What p sent and
\* n has not processed is lost; p learns of the close by an event of its own
\* and may process what n sent until then.
ConnectionClosed(n, p) ==
  /\ p \in connected[n]
  /\ n \notin connected[p] \/ budget.closes > 0
  /\ budget' = IF n \in connected[p] THEN [budget EXCEPT !.closes = @ - 1] ELSE budget
  /\ connected' = [connected EXCEPT ![n] = @ \ {p}]
  /\ disabled' = [disabled EXCEPT ![n] = ResetRoutesWithPeer(@, p)]
  /\ AdjustRedundancy(n, connected[n] \ {p}, [chan EXCEPT ![<<p, n>>] = <<>>])
  /\ UNCHANGED <<pending, cache, outcome, seqno, history>>

-----------------------------------------------------------------------------
\* poll_stale, or the timeout check before a send: the transaction is dropped
\* and the behaviour only counts it (HandlerEvent::TransactionDropped).
TransactionDropped(n, p) ==
  /\ StaleDrops
  /\ \E i \in Stale(chan[<<n, p>>]) :
       /\ chan' = Take(chan, <<n, p>>, i)
       /\ missed' = [missed EXCEPT ![<<n, p>>] = @ \cup {chan[<<n, p>>][i].tx}]
  /\ UNCHANGED <<links, cache, outcome, seqno, routing, budget, given>>

\* The substream fails while it carries a message: the handler opens a new
\* substream and the message is gone, whatever its kind.
MessageLost(n, p) ==
  /\ budget.losses > 0
  /\ \E i \in Deliverable(chan[<<n, p>>]) :
       LET m == chan[<<n, p>>][i]
       IN /\ chan' = Take(chan, <<n, p>>, i)
          /\ missed' = IF IsTx(m) THEN [missed EXCEPT ![<<n, p>>] = @ \cup {m.tx}] ELSE missed
  /\ budget' = [budget EXCEPT !.losses = @ - 1]
  /\ UNCHANGED <<links, cache, outcome, seqno, routing, given>>

Receive(n, p) ==
  ReceiveTransaction(n, p) \/ ReceiveHaveTx(n, p) \/ ReceiveResetRoute(n, p)

Next ==
  \/ \E n \in Node : Publish(n) \/ RedundancyInterval(n)
  \/ \E n, p \in Node :
       \/ Receive(n, p)
       \/ Dial(n, p) \/ Accept(n, p) \/ ConnectionClosed(n, p)
       \/ TransactionDropped(n, p) \/ MessageLost(n, p)

Spec == Init /\ [][Next]_vars

\* The swarm polls every connection handler and the behaviour for as long as
\* there is something to do, so a queued message is eventually processed.
FairSpec == Spec /\ \A n, p \in Node : WF_vars(Receive(n, p))

-----------------------------------------------------------------------------
(* Correctness.                                                            *)

\* Every counter that the code decrements (entries of a route, HaveTx per
\* peer) stays a natural number, and queues and caches hold what they should.
TypeOK ==
  /\ connected \in [Node -> SUBSET Node]
  /\ pending \subseteq Link
  /\ chan \in [Link -> Seq(Message)]
  /\ cache \in [Node -> Seq(CacheEntry)]
  /\ outcome \in [Node -> Outcome]
  /\ seqno \in [Node -> Nat]
  /\ disabled \in [Node -> [Route -> Nat]]
  /\ haveTxSent \in [Node -> [Node -> Nat]]
  /\ ctl \in [Node -> Controller]
  /\ budget \in Budget
  /\ given \in [Link -> Seq(Tx)] /\ missed \in [Link -> SUBSET Tx]

InFlight(l, kinds) == {i \in DOMAIN chan[l] : chan[l][i].kind \in kinds}

\* The sequence numbers a node hands out are ahead of every id of its own
\* that is anywhere in the network, however entries expire and links break:
\* publish never returns PublishError::Duplicate.
NextIdFresh ==
  /\ \A n \in Node : \A i \in DOMAIN cache[n] :
       cache[n][i].id.seqno <= seqno[cache[n][i].id.from]
  /\ \A l \in Link : \A i \in DOMAIN chan[l] :
       chan[l][i].kind # "ResetRoute" => chan[l][i].tx.seqno <= seqno[chan[l][i].tx.from]

\* A closed route leads to a connected peer: on_connection_closed removes
\* the routes of the peer, and no HaveTx that arrives later brings one back
\* that no ResetRoute could ever re-open.
ClosedRouteHasLiveTarget ==
  \A n \in Node : \A r \in Route : disabled[n][r] > 0 => Target(r) \in connected[n]

\* No closed route is orphaned: as long as the link between a and b is up,
\* a can still ask for every route that b has closed (or is about to close)
\* at its request: it holds at least as many registered HaveTx messages,
\* counting the ResetRoutes under way.  Stated for substreams that lose
\* nothing (MaxLoss = 0).
ClosedRoutesReopenable ==
  \A a, b \in Node :
    a \in connected[b] /\ b \in connected[a] =>
      SumFunctionOnSet(disabled[b], Node \X {a})
          + Cardinality(InFlight(<<a, b>>, {"HaveTx"}))
        <= haveTxSent[a][b] + Cardinality(InFlight(<<a, b>>, {"ResetRoute"}))

\* Without expiry, the recorded propagation sources of a transaction form a
\* tree rooted at its author: a source holds the transaction itself, and no
\* set of other holders only points into itself (there is no cycle).
SourceTree ==
  \A n \in Node : \A k \in DOMAIN cache[n] :
    LET tx == cache[n][k].id
        Holders == {m \in Node : Cached(cache[m], tx)}
    IN /\ Cached(cache[cache[n][k].source], tx)
       /\ \A S \in SUBSET (Holders \ {tx.from}) :
            S # {} => \E m \in S : \E s \in Node \ S : CachedFrom(cache[m], tx, s)

\* Without expiry, a node queues a transaction for a peer at most once, over
\* all the time it runs and whatever connections break and return; never for
\* its author, and never for the peer that it has the transaction from.
OncePerLink ==
  \A a, b \in Node :
    LET queued == given[<<a, b>>]
    IN /\ IsInjective(queued)
       /\ \A i \in DOMAIN queued :
            /\ b # queued[i].from
            /\ \E s \in Node \ {b} : CachedFrom(cache[a], queued[i], s)

\* Without expiry, a node that asks b to close a route has the transaction
\* from somebody else, and b did not get it from the node: the HaveTx always
\* names a route that exists, and closing it leaves the requester a source.
HaveTxHasAlternative ==
  \A a, b \in Node : \A i \in InFlight(<<a, b>>, {"HaveTx"}) :
    LET tx == chan[<<a, b>>][i].tx
    IN /\ \E s \in Node \ {b} : CachedFrom(cache[a], tx, s)
       /\ \E s \in Node \ {a} : CachedFrom(cache[b], tx, s)

\* Gossip is complete: unless a cache entry expires, a published transaction
\* spreads over every initial connection that both ends still have, except in
\* a direction in which its copy was missed, that is, not sent (the queue is
\* full, the route closed) or lost (the queue timeout, the substream).  So it
\* reaches every node to which such connections of nodes that forward lead.
\* A connection dialled later is not given what its ends already had.
PublishedReachesAll ==
  \A f \in Publishers : \A k \in 1 .. MaxSeqno :
    LET tx == [from |-> f, seqno |-> k]
        Passes(n, p) == /\ p \in connected[n] /\ n \in connected[p]
                        /\ n \in ForwardTransactions \cup {f}
                        /\ tx \notin missed[<<n, p>>]
    IN seqno[f] >= k ~>
         \/ budget.dials < MaxDials \/ budget.expiries < MaxExpiries
         \/ /\ Cached(cache[f], tx)
            /\ \A n, p \in Node :
                 Cached(cache[n], tx) /\ Passes(n, p) => Cached(cache[p], tx)

Expires == \E n \in Node : \E i \in DOMAIN cache[n] : ~Cached(cache'[n], cache[n][i].id)

\* Gossip comes to rest: the copies, HaveTx and ResetRoute messages that
\* finitely many transactions cause are all processed at some time, again and
\* again.  The exception is a transaction whose cache entries never stop
\* expiring before it comes round: nothing in the code ends its circulation.
GossipQuiesces ==
  \/ []<>(\A n \in Node : \A p \in connected[n] : chan[<<p, n>>] = <<>>)
  \/ []<><<Expires>>_vars

\* What the network promises, whatever breaks and is dialled again: while no
\* entry has expired, a transaction is one that its author published, and a
\* node gets it once, from a connected node that has it.
Promise == INSTANCE Broadcast WITH
  links <- connected,
  issued <- seqno,
  got <- [n \in Node |-> ToSet(cache[n])]

ImplementsBroadcast == Promise!Spec
=============================================================================
