--------------------------- MODULE BehaviourTask ---------------------------
(***************************************************************************)
(* The task of one dog node: Behaviour::poll and the swarm events of       *)
(* dog/src/behaviour.rs inside the loop of libp2p_swarm, with the queue of *)
(* events for the user, the timer redundancy_interval and its waker, the   *)
(* connections to each peer and the gauges of dog/src/metrics.rs.          *)
(*                                                                         *)
(* The swarm polls the behaviour until it is Pending and then the          *)
(* connection pool; an event of either starts over, and when both are      *)
(* Pending the task sleeps until a waker fires.  The connections wake it   *)
(* whenever they have something; redundancy_interval wakes it only if a    *)
(* poll that found it running has registered the waker.                    *)
(*                                                                         *)
(* An rpc carries one transaction or one control message, the form in      *)
(* which nodes send them, and the flags of Config have their defaults      *)
(* (module DogNetwork varies them).                                        *)
(***************************************************************************)
EXTENDS DogRouter, DogController, Sequences, FiniteSets, SequencesExt

CONSTANTS
  Self,           \* the local peer id
  ConnectionId,   \* the connections that may be established
  Publishers,     \* the nodes whose application publishes
  MaxSeqno,       \* bound: transactions of each author
  MaxArrived,     \* bound: events that the connection pool holds at a time
  MaxChanges      \* bound: events of the pool that change the behaviour's tables

ASSUME TaskAssumption ==
  /\ IsFiniteSet(Node) /\ IsFiniteSet(ConnectionId)
  /\ Self \in Node /\ Publishers \subseteq Node
  /\ {MaxSeqno, MaxArrived, MaxChanges} \subseteq Nat

Peer == Node \ {Self}
Tx == [from : Node, seqno : Nat]

VARIABLES
  established,   \* [Peer -> SUBSET ConnectionId]: the connections of the swarm
  connections,   \* connected_peers: the Vec of connections of each of its keys
  cache,         \* the duplicate cache, oldest first
  seqno,         \* last_seqno, counted from the start
  disabled,      \* disabled_routes
  haveTxSent,    \* have_tx_sent_per_peer
  ctl,           \* redundancy_controller
  events,        \* events, of which only RoutingUpdated has its content
  metrics,       \* the gauges and counters that mirror other state
  timer,         \* redundancy_interval: it has elapsed, a waker is registered
  awake,         \* the task is scheduled
  pc,            \* what the swarm polls next; idle between two polls
  arrived,       \* events that the connection pool holds
  changes,       \* events of the pool that have changed the tables
  told           \* the disabled routes last reported to the user

router == <<disabled, haveTxSent>>
behaviour == <<connections, cache, seqno, router, ctl>>
task == <<awake, pc, arrived, changes>>
vars == <<established, behaviour, events, metrics, timer, task, told>>

Metrics == [peersCount : Int, disabledRoutesCount : Nat, txsCacheSize : Nat,
            haveTxSentCounts : Nat, resetRouteSentCounts : Nat]
NewMetrics == [peersCount |-> 0, disabledRoutesCount |-> 0, txsCacheSize |-> 0,
               haveTxSentCounts |-> 0, resetRouteSentCounts |-> 0]

Event == [kind : {"TransactionReceived", "TransactionSent", "HaveTxReceived", "HaveTxSent",
                  "ResetRouteReceived", "ResetRouteSent"}]
           \cup [kind : {"RoutingUpdated"}, routes : [Route -> Nat]]
Of(kind) == [kind |-> kind]
RoutingUpdated(routes) == [kind |-> "RoutingUpdated", routes |-> routes]

NumberOf(routes) == SumFunctionOnSet(routes, Route)

Init ==
  /\ established = [p \in Peer |-> {}]
  /\ connections = <<>>
  /\ cache = <<>> /\ seqno = 0
  /\ disabled = NoRoutes /\ haveTxSent = NoHaveTxSent
  /\ ctl = NewController
  /\ events = <<>>
  /\ metrics = NewMetrics
  /\ timer = [elapsed |-> FALSE, waker |-> FALSE]
  /\ awake = TRUE /\ pc = "idle"
  /\ arrived = 0 /\ changes = 0
  /\ told = NoRoutes

-----------------------------------------------------------------------------
(* Redundancy.                                                             *)

\* Slip: the registration is spent although the peer is gone.
AdjustRedundancySpending(peers, queue, gauges) ==
  LET candidates == IF RedundancyTooLow(ctl) THEN HaveTxSentPeers(haveTxSent) ELSE {}
  IN /\ ctl' = ResetCounters(Evaluate(ctl))
     /\ \/ \E p \in candidates :
             /\ haveTxSent' = RemoveHaveTxSent(haveTxSent, p)
             /\ events' = IF p \in peers THEN Append(queue, Of("ResetRouteSent")) ELSE queue
             /\ metrics' = IF p \in peers THEN [gauges EXCEPT !.resetRouteSentCounts = @ + 1]
                                          ELSE gauges
        \/ /\ candidates = {}
           /\ events' = queue /\ metrics' = gauges
           /\ UNCHANGED haveTxSent

\* adjust_redundancy, when `peers' are connected and `queue' and `gauges' are
\* the events and metrics so far.  The peer that is picked may be gone.
AdjustRedundancy(peers, queue, gauges) ==
  LET candidates == IF RedundancyTooLow(ctl) THEN HaveTxSentPeers(haveTxSent) ELSE {}
  IN /\ ctl' = ResetCounters(Evaluate(ctl))
     /\ \/ \E p \in candidates \cap peers :
             /\ haveTxSent' = RemoveHaveTxSent(haveTxSent, p)
             /\ events' = Append(queue, Of("ResetRouteSent"))
             /\ metrics' = [gauges EXCEPT !.resetRouteSentCounts = @ + 1]
        \/ /\ candidates = {} \/ ~(candidates \subseteq peers)
           /\ events' = queue /\ metrics' = gauges
           /\ UNCHANGED haveTxSent

-----------------------------------------------------------------------------
(* The loop of the swarm and Behaviour::poll.                              *)

\* The executor runs the task; waking it from now on schedules it again.
StartPoll ==
  /\ pc = "idle" /\ awake
  /\ pc' = "behaviour" /\ awake' = FALSE
  /\ UNCHANGED <<established, behaviour, events, metrics, timer, arrived, changes, told>>

\* poll with an event queued: it goes to the user, who polls again.
EmitEvent ==
  /\ pc = "behaviour" /\ events # <<>>
  /\ events' = Tail(events)
  /\ told' = IF Head(events).kind = "RoutingUpdated" THEN Head(events).routes ELSE told
  /\ UNCHANGED <<established, behaviour, metrics, timer, task>>

\* Slip: the interval is checked before the queued events.
PollTimerFirst ==
  /\ pc = "behaviour"
  /\ timer.elapsed \/ events = <<>>
  /\ pc' = "pool"
  /\ \/ /\ timer.elapsed
        /\ AdjustRedundancy(DOMAIN connections, events, metrics)
        /\ timer' = [elapsed |-> FALSE, waker |-> FALSE]
     \/ /\ ~timer.elapsed
        /\ timer' = [timer EXCEPT !.waker = TRUE]
        /\ UNCHANGED <<haveTxSent, ctl, events, metrics>>
  /\ UNCHANGED <<established, connections, cache, seqno, disabled, awake, arrived, changes, told>>

\* Slip: the interval is only checked when no connection has an event.
PollTimerLast ==
  /\ pc = "behaviour" /\ events = <<>>
  /\ pc' = "pool"
  /\ \/ /\ timer.elapsed /\ arrived = 0
        /\ AdjustRedundancy(DOMAIN connections, events, metrics)
        /\ timer' = [elapsed |-> FALSE, waker |-> FALSE]
     \/ /\ ~timer.elapsed /\ arrived = 0
        /\ timer' = [timer EXCEPT !.waker = TRUE]
        /\ UNCHANGED <<haveTxSent, ctl, events, metrics>>
     \/ /\ arrived > 0
        /\ UNCHANGED <<haveTxSent, ctl, events, metrics, timer>>
  /\ UNCHANGED <<established, connections, cache, seqno, disabled, awake, arrived, changes, told>>

\* poll without: a running interval registers the waker; one that has elapsed
\* is handled and restarted, and the waker it had is used up.
PollTimer ==
  /\ pc = "behaviour" /\ events = <<>>
  /\ pc' = "pool"
  /\ \/ /\ timer.elapsed
        /\ AdjustRedundancy(DOMAIN connections, events, metrics)
        /\ timer' = [elapsed |-> FALSE, waker |-> FALSE]
     \/ /\ ~timer.elapsed
        /\ timer' = [timer EXCEPT !.waker = TRUE]
        /\ UNCHANGED <<haveTxSent, ctl, events, metrics>>
  /\ UNCHANGED <<established, connections, cache, seqno, disabled, awake, arrived, changes, told>>

\* Neither the behaviour nor the pool had anything: the task is Pending.
PoolPending ==
  /\ pc = "pool" /\ arrived = 0
  /\ pc' = "idle"
  /\ UNCHANGED <<established, behaviour, events, metrics, timer, awake, arrived, changes, told>>

\* The pool hands over an event; then the behaviour is polled again.
PoolReady ==
  /\ pc = "pool" /\ arrived > 0
  /\ pc' = "behaviour"
  /\ arrived' = arrived - 1
  /\ UNCHANGED <<timer, awake, told>>

\* A connection or a dial has something for the pool and wakes the task, at
\* any time and without end.
Arrive ==
  /\ arrived < MaxArrived
  /\ arrived' = arrived + 1
  /\ awake' = TRUE
  /\ UNCHANGED <<established, behaviour, events, metrics, timer, pc, changes, told>>

\* futures_timer: the expiry takes the waker, if there is one.
TimerElapses ==
  /\ ~timer.elapsed
  /\ timer' = [elapsed |-> TRUE, waker |-> FALSE]
  /\ awake' = (awake \/ timer.waker)
  /\ UNCHANGED <<established, behaviour, events, metrics, pc, arrived, changes, told>>

-----------------------------------------------------------------------------
(* What the pool hands over.                                               *)

\* handle_established_inbound_connection or its outbound twin, and
\* on_connection_established, which the swarm calls in one go.
ConnectionEstablished(p, c) ==
  /\ PoolReady
  /\ \A q \in Peer : c \notin established[q]
  /\ established' = [established EXCEPT ![p] = @ \cup {c}]
  /\ connections' =
       [q \in DOMAIN connections \cup {p} |->
          (IF q \in DOMAIN connections THEN connections[q] ELSE <<>>)
            \o (IF q = p THEN <<c>> ELSE <<>>)]
  /\ metrics' = [metrics EXCEPT !.peersCount = @ + 1]
  /\ UNCHANGED <<cache, seqno, router, ctl, events>>

\* Vec::retain with the ids that are not c, as a recursive function.
Retain(ids, c) ==
  LET kept[i \in 0 .. Len(ids)] ==
        IF i = 0 THEN <<>>
        ELSE IF ids[i] = c THEN kept[i - 1] ELSE Append(kept[i - 1], ids[i])
  IN kept[Len(ids)]

\* Slip: the peer is forgotten with its first connection.
ConnectionClosedAny(p, c) ==
  LET routes == ResetRoutesWithPeer(disabled, p)
      gauges == [metrics EXCEPT !.peersCount = @ - 1,
                   !.disabledRoutesCount = IF routes = disabled THEN @ ELSE NumberOf(routes)]
  IN /\ PoolReady
     /\ c \in established[p]
     /\ established' = [established EXCEPT ![p] = @ \ {c}]
     /\ connections' = Restrict(connections, DOMAIN connections \ {p})
     /\ disabled' = routes
     /\ AdjustRedundancy(DOMAIN connections \ {p},
          IF routes = disabled THEN events ELSE Append(events, RoutingUpdated(routes)), gauges)
     /\ UNCHANGED <<cache, seqno>>

\* on_connection_closed, with or without a further connection to the peer.
ConnectionClosed(p, c) ==
  LET routes == ResetRoutesWithPeer(disabled, p)
      gauges == [metrics EXCEPT !.peersCount = @ - 1,
                   !.disabledRoutesCount = IF routes = disabled THEN @ ELSE NumberOf(routes)]
  IN /\ PoolReady
     /\ c \in established[p]
     /\ established' = [established EXCEPT ![p] = @ \ {c}]
     /\ \/ /\ established'[p] # {}
           /\ connections' = [connections EXCEPT ![p] = Retain(@, c)]
           /\ UNCHANGED <<router, ctl, events, metrics>>
        \/ /\ established'[p] = {}
           /\ connections' = Restrict(connections, DOMAIN connections \ {p})
           /\ disabled' = routes
           /\ AdjustRedundancy(DOMAIN connections \ {p},
                IF routes = disabled THEN events ELSE Append(events, RoutingUpdated(routes)),
                gauges)
     /\ UNCHANGED <<cache, seqno>>

\* A handler event reaches the behaviour while its connection is established.
FromHandler(p) == PoolReady /\ established[p] # {} /\ UNCHANGED <<established, connections>>

Cached(c, tx) == \E i \in DOMAIN c : c[i].id = tx

\* What the removal of expired entries, oldest first, may leave.
Unexpired == {SubSeq(cache, k + 1, Len(cache)) : k \in 0 .. Len(cache)}

\* The TransactionSent events of a transaction that goes to `targets', whose
\* queues may be full.
SentEvents(targets) ==
  {[i \in 1 .. k |-> Of("TransactionSent")] : k \in 0 .. Cardinality(targets)}

\* handle_received_transaction: the event precedes the look at the cache.
ReceiveTransaction(p, tx) ==
  /\ FromHandler(p)
  /\ \E c \in Unexpired :
       \/ /\ ~Cached(c, tx)
          /\ cache' = Append(c, [id |-> tx, source |-> p])
          /\ ctl' = IncrFirstTime(ctl)
          /\ \E sent \in SentEvents(FilterValidRoutes(disabled, p,
                                      DOMAIN connections \ {p, tx.from})) :
               events' = Append(events, Of("TransactionReceived")) \o sent
          /\ metrics' = [metrics EXCEPT !.txsCacheSize = Len(cache')]
          /\ UNCHANGED haveTxSent
       \/ /\ Cached(c, tx) /\ ctl.blocked
          /\ cache' = c
          /\ ctl' = IncrDuplicate(ctl)
          /\ events' = Append(events, Of("TransactionReceived"))
          /\ metrics' = [metrics EXCEPT !.txsCacheSize = Len(cache')]
          /\ UNCHANGED haveTxSent
       \/ /\ Cached(c, tx) /\ ~ctl.blocked
          /\ cache' = c
          /\ ctl' = BlockHaveTx(IncrDuplicate(ctl))
          /\ haveTxSent' = RegisterHaveTxSent(haveTxSent, p)
          /\ events' = events \o <<Of("TransactionReceived"), Of("HaveTxSent")>>
          /\ metrics' = [metrics EXCEPT !.txsCacheSize = Len(cache'),
                                        !.haveTxSentCounts = @ + 1]
  /\ UNCHANGED <<seqno, disabled>>

\* handle_have_tx: the routes are reported even if none was closed.
ReceiveHaveTx(p, tx) ==
  /\ FromHandler(p)
  /\ \/ \E i \in DOMAIN cache :
          /\ cache[i].id = tx /\ cache[i].source # p
          /\ disabled' = DisableRoute(disabled, cache[i].source, p)
     \/ /\ \A i \in DOMAIN cache : cache[i].id # tx \/ cache[i].source = p
        /\ UNCHANGED disabled
  /\ events' = events \o <<Of("HaveTxReceived"), RoutingUpdated(disabled')>>
  /\ metrics' = [metrics EXCEPT !.disabledRoutesCount = NumberOf(disabled')]
  /\ UNCHANGED <<cache, seqno, haveTxSent, ctl>>

\* Slip: the new routes are not reported.
ReceiveResetRouteSilent(p) ==
  /\ FromHandler(p)
  /\ \/ \E r \in ClosedRoutesTo(disabled, p) :
          /\ disabled' = EnableRoute(disabled, r)
          /\ metrics' = [metrics EXCEPT !.disabledRoutesCount = NumberOf(disabled')]
     \/ ClosedRoutesTo(disabled, p) = {} /\ UNCHANGED <<disabled, metrics>>
  /\ events' = Append(events, Of("ResetRouteReceived"))
  /\ UNCHANGED <<cache, seqno, haveTxSent, ctl>>

\* handle_reset_route.
ReceiveResetRoute(p) ==
  /\ FromHandler(p)
  /\ \/ \E r \in ClosedRoutesTo(disabled, p) :
          /\ disabled' = EnableRoute(disabled, r)
          /\ events' = events \o <<Of("ResetRouteReceived"), RoutingUpdated(disabled')>>
          /\ metrics' = [metrics EXCEPT !.disabledRoutesCount = NumberOf(disabled')]
     \/ /\ ClosedRoutesTo(disabled, p) = {}
        /\ events' = Append(events, Of("ResetRouteReceived"))
        /\ UNCHANGED <<disabled, metrics>>
  /\ UNCHANGED <<cache, seqno, haveTxSent, ctl>>

\* A dial or an incoming connection that fails, which on_swarm_event passes
\* over, or a TransactionDropped of a handler, which is only counted.
NothingToHandle == PoolReady /\ UNCHANGED <<established, behaviour, events, metrics>>

\* The user calls publish, which never finds its new id in the cache, and
\* polls the swarm again afterwards.
Publish ==
  /\ Self \in Publishers
  /\ pc # "pool" /\ seqno < MaxSeqno
  /\ seqno' = seqno + 1
  /\ \E c \in Unexpired :
       cache' = Append(c, [id |-> [from |-> Self, seqno |-> seqno'], source |-> Self])
  /\ \E sent \in SentEvents(FilterValidRoutes(disabled, Self, DOMAIN connections)) :
       events' = events \o sent
  /\ metrics' = [metrics EXCEPT !.txsCacheSize = Len(cache')]
  /\ awake' = TRUE
  /\ UNCHANGED <<established, connections, router, ctl, timer, pc, arrived, changes, told>>

\* The transactions that peers send: those of others, and echoes of own ones.
Incoming ==
  {tx \in [from : Publishers, seqno : 1 .. MaxSeqno] : tx.from = Self => tx.seqno <= seqno}

\* Events that leave the tables as they are occur without end.
PoolEvent ==
  /\ \/ NothingToHandle
     \/ \E p \in Peer :
          \/ \E c \in ConnectionId : ConnectionEstablished(p, c) \/ ConnectionClosed(p, c)
          \/ \E tx \in Incoming : ReceiveTransaction(p, tx) \/ ReceiveHaveTx(p, tx)
          \/ ReceiveResetRoute(p)
  /\ \/ behaviour' = behaviour /\ changes' = changes
     \/ behaviour' # behaviour /\ changes < MaxChanges /\ changes' = changes + 1

Run == StartPoll \/ EmitEvent \/ PollTimer \/ PoolPending \/ PoolEvent

Next == Run \/ Arrive \/ TimerElapses \/ Publish

Spec == Init /\ [][Next]_vars

\* The executor runs a task that has been woken, and time passes.
FairSpec == Spec /\ WF_vars(Run) /\ WF_vars(TimerElapses)

-----------------------------------------------------------------------------
(* Correctness.                                                            *)

\* In particular no gauge of a size is set below zero.
TypeOK ==
  /\ established \in [Peer -> SUBSET ConnectionId]
  /\ DOMAIN connections \subseteq Peer
  /\ \A p \in DOMAIN connections : connections[p] \in Seq(ConnectionId)
  /\ cache \in Seq([id : Tx, source : Node]) /\ seqno \in Nat
  /\ disabled \in [Route -> Nat] /\ haveTxSent \in [Node -> Nat]
  /\ ctl \in Controller
  /\ events \in Seq(Event)
  /\ metrics \in Metrics
  /\ timer \in [elapsed : BOOLEAN, waker : BOOLEAN]
  /\ awake \in BOOLEAN /\ pc \in {"idle", "behaviour", "pool"}
  /\ arrived \in Nat /\ changes \in Nat
  /\ told \in [Route -> Nat]

\* Whatever the order in which connections to a peer come and go, the peer is
\* in connected_peers as long as one is left, with exactly those connections.
ConnectionsTracked ==
  /\ DOMAIN connections = {p \in Peer : established[p] # {}}
  /\ \A p \in DOMAIN connections :
       ToSet(connections[p]) = established[p] /\ IsInjective(connections[p])

\* The last report of the routing table that is queued or was emitted is the
\* routing table: no change, by a message or a close, goes unreported.
RoutingReported ==
  LET reports == {i \in DOMAIN events : events[i].kind = "RoutingUpdated"}
  IN \/ reports = {} /\ disabled = told
     \/ \E i \in reports : (\A j \in reports : j <= i) /\ disabled = events[i].routes

\* The gauges show what they name, and the two counters differ by the HaveTx
\* that no ResetRoute has taken back.
MetricsAgree ==
  /\ metrics.disabledRoutesCount = NumberOf(disabled)
  /\ metrics.txsCacheSize = Len(cache)
  /\ metrics.haveTxSentCounts
       = metrics.resetRouteSentCounts + SumFunctionOnSet(haveTxSent, Node)

\* The task sleeps with events queued in one case only: the ResetRouteSent of
\* an interval that was handled just before.
SleepsOnlyOnReset ==
  pc = "idle" /\ ~awake /\ events # <<>> => events = <<Of("ResetRouteSent")>> /\ ~timer.waker

\* Traffic of the connections, though it never ends, does not starve the
\* redundancy controller, and makes up for a waker that is missing: whenever
\* the task runs, an interval that has elapsed is handled.  Only a user who
\* goes on publishing for ever could hold it up, with the events of publish.
AdjustsWhenAwake ==
  \/ timer.elapsed /\ awake ~> ~timer.elapsed
  \/ []<><<seqno' # seqno>>_seqno

-----------------------------------------------------------------------------
(* What comments of the code say, and the code does not do.                *)

\* config.rs on redundancy_interval: "Time between each redundancy adjustment
\* (default is 1 second)."  An interval that has elapsed is handled.
AdjustsEveryInterval == timer.elapsed ~> ~timer.elapsed

\* metrics.rs on peers_count: "Number of peers."
PeersCounted == metrics.peersCount = Cardinality(DOMAIN connections)
=============================================================================
