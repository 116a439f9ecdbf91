# Formal models of gossip-shadow

TLA+ models of the DOG gossip protocol (`libp2p-dog/dog`), of the nodes that
run experiments with it (`libp2p-dog/experiment`, and `go-libp2p` for the
protocol it is compared with) and of the generator of those experiments
(`experiment.py`), with TLC configurations and TLAPS proofs.

## The system

The repository simulates gossip protocols in the Shadow simulator. A scenario
of `experiment.py` produces one script per node; every node is a process that
follows its script; DOG nodes exchange transactions through the
`libp2p-dog` behaviour.

| Component | State | Operations | Module |
|---|---|---|---|
| Router (`dog.rs`) | `disabled_routes`, `have_tx_sent_per_peer` | disable, enable a random route, reset with a peer, filter, register / pick / remove HaveTx | `DogRouter` |
| Redundancy controller (`dog.rs`) | two counters, bounds, `have_tx_blocked` | count, block, evaluate, reset | `DogController` |
| Behaviour (`behaviour.rs`, `error.rs`) | connected peers, duplicate cache, sequence number, router, controller, event queue, timer | publish, forward, HaveTx, ResetRoute, adjust redundancy, connections, poll | `DogNetwork` (many nodes), `BehaviourTask` (one node), `Broadcast` (abstract) |
| Duplicate cache (`time_cache.rs`) | map, queue in order of insertion, ttl | insert with removal of expired entries, contains, get | `DuplicateCache`, `ExpiringMap` |
| Send queue (`rpc.rs`) | two channels, atomic length, a peeked item per receiver | send, poll next, poll stale, poll empty, clone a receiver | `SendQueue` |
| Connection handler (`handler.rs`) | substreams, attempt counters, message in hand, wakers | poll, substream events, disabling | `ConnectionHandler` |
| Codec (`protocol.rs`, `types.rs`, `transform.rs`) | none (frames) | build, sign, frame, decode, validate | `TransactionCodec` |
| Metrics (`metrics.rs`) | counters and gauges | increment, decrement, set | `BehaviourTask`, those that mirror other state |
| Rust node (`experiment/src`) | position in the script, swarm | wait and poll, connect, publish, exit | `ScriptedNodes` |
| Go node (`go-libp2p`) | position in the script, host | sleep, connect and wait, publish, exit | `ScriptedNodes` |
| Generator (`experiment.py`) | active and ready nodes, elapsed time, scripts, phases | activate, deactivate, set up, new phase, add message, apply, finalize | `Experiment` |
| Configuration (`config.rs`) | parameters | builder | CONSTANTS of the other modules |
| Shadow driver, log analysis, alerts | | | not modelled, see below |

How they interact: the application calls `publish`; the behaviour puts RPCs
into the send queue of a peer; the connection handler of that peer takes them
out in a task of its own, writes them to a substream and hands what it reads to
the behaviour as events. Receipt of a duplicate answers HaveTx, which closes a
route at the other end; a timer evaluates the redundancy and may ask for a
route to be re-opened with ResetRoute. The queue is the only memory that two
tasks share. The behaviour itself is polled by the swarm, which sleeps until a
connection, the user or a timer with a waker wakes it. The Rust script
interpreter polls the swarm only while it waits; the Go interpreter runs beside
its host, but waits for every connection it makes.

What is hard: messages of two priorities overtake each other; HaveTx and
ResetRoute are related only by a count per peer, and the two ends of a broken
connection notice it at different times; cache entries expire while
transactions circulate; a timer fires without a waker, or while events wait in
front of it; two nodes dial each other and have two connections; the length of the send queue is read and written
without a lock; the handler must not sleep with work left; a failing substream
takes its message along; a dial takes effect only if somebody polls. These are
the hazards that `PROJECT.json` lists at their lines.

## Modules

### DogNetwork (with DogRouter and DogController)

A network of nodes, each one behaviour. The behaviour is a single task, so one
call, event or timer expiry is one action, including everything the handler
calls: `ReceiveFirst` caches, counts and forwards; `ConnectionClosed` removes
the routes and adjusts the redundancy, as `on_connection_closed` does.

* `chan[<<a, b>>]` stands for the two queues of `rpc.rs` and the substream from
  a to b. `Deliverable` gives the messages that can be next: the first of either
  queue. `poll_next` looks at the priority queue first, but at the two one after
  the other, so that a Forward may also go ahead of a priority message that was
  sent between the two looks, or after the Forward was taken.
* `disabled[n]` counts how often a route is in `disabled_routes`, a Vec that may
  hold one twice. Random choices (`enable_random_route_to_peer`,
  `get_random_have_tx_sent_peer`) are nondeterministic.
* `cache[n]` is a sequence, oldest first; `Unexpired` lets any prefix expire
  before an insertion. Module `DuplicateCache` has the clock.
* The redundancy is compared in percent without division by zero; the rounding
  of `f64` is left out.
* `given` and `missed` are history for the properties: what was ever queued on
  a link, in order, and the copies that a peer was not given (queue full, route
  closed) or that were lost on the way (timeout, substream).
* There is one connection per pair. Dialling, accepting and the two closes of a
  connection are steps of their own.
* `SendHaveTx`, `IgnoreHaveTx` and `ForwardTransactions` are sets of nodes, so
  that nodes with different configurations (the malicious nodes of
  `experiment.py`) are instances of the same module.

### Broadcast

What a network of dog nodes does for its users: they publish, and a node gets a
transaction at most once, from a connected peer that has it. `DogNetwork`
implements it (`ImplementsBroadcast`) as long as no cache entry expires:
`connected`, `seqno` and the set of the entries of `cache` are mapped to `links`,
`issued` and `got`; queues, routes and redundancy are hidden. That a transaction
arrives is no part of it, see `PublishedReachesAll`.

### BehaviourTask (with DogRouter and DogController)

One node, as the task that runs it. The swarm polls the behaviour until it is
Pending (`EmitEvent`, `PollTimer`), then the connection pool (`PoolReady` with one
of the handlers, or `PoolPending`), and sleeps (`pc = "idle"`) until it is woken.
`events` is the queue of events for the user, with the content of
`RoutingUpdated` only; `told` is the routing table that was last emitted.
`timer` is `redundancy_interval`: polling a running timer registers the waker,
expiry uses it up, and `reset` registers none. `established` are the connections
of the swarm, `connections` the Vec per peer of `connected_peers`. `metrics` has the
gauges and counters that mirror other state. What peers send is arbitrary:
any transaction, HaveTx for any transaction, ResetRoute, in any order, and it
never has to end: `Arrive` puts events into the pool without a bound, up to
`MaxArrived` at a time. Only those that change the tables of the behaviour
are counted (`changes`, up to `MaxChanges`); an event that leaves them alone, such
as a failed dial, a TransactionDropped (`NothingToHandle`) or a HaveTx that closes
no route, may come for ever.

### DuplicateCache and ExpiringMap

`DuplicateCache` has the map, the list and the counter of `time_cache.rs` and a
clock. `ExpiringMap` is what it promises: a function on the keys whose ttl has
not elapsed, updated at insertions. The refinement maps the map of the one to
that of the other.

### SendQueue

The Sender (behaviour task) and several Receivers (connection tasks) at the
granularity of their accesses: the load, the store and the push of
`send_transaction` are three steps; `poll_next`, `poll_stale` and `poll_is_empty`
look at the priority channel in one step (`PollNext`, `PollPeek`) and at the other
in a later one (`TakeForward`, `PeekForward`), between which `second` keeps where the
Receiver is; the `fetch_sub` of `poll_next` is a step as well. `Peekable` keeps an
item per Receiver, which is lost with it.

### ConnectionHandler

`poll` as the loop it is: the outbound part, the inbound part and the stale
check, with the waker that each `Pending` registers, and the substream events
between polls. Queue, timers, congestion and the remote end are an environment.

### TransactionCodec

The path of a transaction: `build_raw_transaction`, the conversion to a frame,
`decode` with either validation mode, and framing again when it is forwarded.
Conversions between absent and empty fields are modelled, payloads are lengths.

### Experiment and ScriptedNodes

`Experiment` has one action per call of `Experiment` and `ExperimentPhase`,
made in the order in which the scenarios make them: nodes are set up once, and
the active set does not change while a phase is open. `ScriptedNodes` extends it:
after `Finalize` the nodes run the generated scripts. A `ScriptInstruction` is
one action, because nothing in it yields to the swarm. Dials, the two ends'
`ConnectionEstablished`, errors and closes are events that a node only sees
while it polls. `protocol` chooses the nodes: with "gossipsub" they are Go nodes,
whose host accepts and notices closes at any time, whose publish needs no peer,
and whose connect instruction (`GoConnect`, `ConnectTo`, `ConnectReturns`) blocks
the script for one dial after the other.

Operators whose comment begins with "Slip" are mutated copies of an operator;
no specification uses them. They document, for each property, a plausible
mistake in the code that TLC finds through it.

## Runs

| Run | Checks | Bounds |
|---|---|---|
| `gossip_churn` | `TypeOK`, `NextIdFresh`, `ClosedRouteHasLiveTarget`, `ClosedRoutesReopenable`, `SourceTree`, `OncePerLink`, `HaveTxHasAlternative`, `ImplementsBroadcast` | triangle, b and c symmetric, HaveTx and ResetRoute honoured, the default `target_redundancy` of 1.0 (100 percent), 2 transactions of one author, full queues, stale drops, 1 break, 1 dial; no losses, no expiry |
| `gossip_flood` | `PublishedReachesAll`, `GossipQuiesces` | 4 nodes in a kite, HaveTx and ResetRoute honoured, a target of 50 percent, 1 transaction, full queues, stale drops, 1 break, 2 losses, 2 expiries; no dials |
| `behaviour_task` | `TypeOK`, `ConnectionsTracked`, `RoutingReported`, `MetricsAgree`, `SleepsOnlyOnReset`, `AdjustsWhenAwake` | 2 peers, 2 connections, 1 transaction of the node and 1 of a peer, at most 2 events in the pool at a time and 5 that change the tables, all others without bound |
| `duplicate_cache` | `IndexesAgree`, `ListInOrder`, `ImplementsExpiringMap` | 3 keys, 2 values, ttl 2, time up to 6 |
| `send_queue` | `TypeOK`, `CounterCoversQueue`, `PublishesBounded`, `ExactlyOnce`, `InOrder` | 2 receivers, capacity 4 (2 Publishes), 4 sends |
| `handler` | `TypeOK`, `NoSecondSubstream`, `MessagesAccounted`, `WireInOrder`, `QueueServed` | 2 sends, 1 input, 3 substream attempts, failures, 1 congestion |
| `codec` | `HopsPreserve`, `SignedIsAccepted` | keys of both kinds, signing and not, sizes around the limit, 2 hops |
| `experiment_nodes` | `ScriptsInOrder`, `AnnouncedIsScripted`, `PhaseHeld`, `AnnouncedIsPublished` | 3 nodes of either protocol, 2 phases, 2 messages, 1 node leaves, 1 error, dials take up to 1 tick |

Why the bounds are enough. A triangle is the smallest network with a duplicate,
hence with HaveTx and ResetRoute; the second transaction meets the routes that
the first has closed. The kite adds a node two hops from the author and a cycle
of length 4; the two losses, the break and the two expiries can hit any of its
messages, links and entries, and any send can find its queue full. What
`PublishedReachesAll` excuses is in the formula and not in the configuration: an
expiry or a dial anywhere, and for each connection and direction the copy that
was missed there (`missed`); over every other connection that is still up the
transaction must pass, in spite of the faults elsewhere. `GossipQuiesces` has an
exception too, a transaction whose cache entries expire again and again: nothing
in `time_cache.rs` bounds that, the run with its two expiries never gets into
it, and so shows the first disjunct for every behaviour with finitely many. One break and one dial let a link go down at either end first and
come back with messages of its former life around. Capacity 4 gives two
Publishes, so that the bound is reached with both receivers active. Five changes
of the tables let a second connection to a peer open and close, a route be closed
and re-opened, and a HaveTx be sent and taken back, with the timer in between;
the interval may elapse any number of times. Two events in the pool at a time
and endless arrivals mean that the pool need never be found empty:
`AdjustsWhenAwake` fails if the timer is looked at only then. Ttl 2 and
time 6 let every key expire and return. Three substream attempts let the handler
be disabled after a failure at each point. Two phases with one node leaving are
the replacement step of `rolling-churn`.

Deadlock is checked for the network, the cache and the send queue. A node whose
peers are silent, a disabled or idle handler, a codec whose sequence numbers are used up and an experiment
that is over may stop, and their configurations say so.

What the properties leave out is listed with the hazards in `PROJECT.json`: those
with a note and no property are what the code does and no text denies, such as a
closed route that keeps a later transaction from a node, or a handler that is
disabled for good. Three properties of the network are false once cache entries
expire, and are stated without.

### Disagreements between code and text

Each of these runs checks what a comment says and TLC finds it violated.

| Run | Property | What the code does |
|---|---|---|
| `send_queue_refused` | `RefusedOnlyWhenFull` | the length of the queue stays too high after stale drops and lost updates |
| `handler_recreates` | `RecreatesSubstream` | after a failed send nothing wakes the handler |
| `behaviour_timer` | `AdjustsEveryInterval` | `poll` restarts the timer without polling it: the next interval is handled only if something else wakes the task |
| `behaviour_gauge` | `PeersCounted` | `peers_count` goes up per connection and down per peer |

Met while modelling, and without a run of their own: a route can be in
`disabled_routes` twice, so that a ResetRoute leaves it closed (`dog.rs:52`,
`types.rs:122`); `deliver_own_transactions` (`config.rs:95`) is never read;
`txs_sent_counts` counts refused sends (`behaviour.rs:367`), and
`published_txs_dropped` does not count refused publishes; `TransactionReceived` is
emitted for duplicates too (`behaviour.rs:509`); the branch "This should
not happen" (`behaviour.rs:656`) is reached by the first transaction of a run;
`AllQueuesFull` carries the number of connected peers rather than of attempts
(`error.rs:15`); the handler is disabled at, not above, the maximum number of
substream attempts (`handler.rs:85`); `poll_is_empty` is false for empty queues
that are open, so a substream is requested before there is something to send;
`publish` compares the payload alone with `max_transmit_size`, which the codec
applies to the whole RPC.

### Fairness

* `DogNetwork!FairSpec`: weak fairness of `Receive(n, p)` for every pair. The
  swarm polls handlers and behaviour as long as they are woken; a queued message
  is such a reason. Publishing, timers, breaks, drops and losses are not fair.
* `ConnectionHandler!FairSpec`: weak fairness of `Poll` (the executor runs a
  woken task; `Poll` is enabled only then), of the answer to a requested
  substream (libp2p resolves or fails it) and of `Drain` (the remote end reads).
  `TimedSpec` adds that queue timeouts elapse.
* `BehaviourTask!FairSpec`: weak fairness of `Run` (the executor runs a woken task,
  and the swarm polls until everything is Pending; no step of `Run` is enabled
  while the task sleeps) and of `TimerElapses` (time passes). Peers and the user
  are not fair: they may be silent for ever or never stop. That the swarm polls
  the behaviour again after every event of the pool is why endless traffic does
  not starve the timer (`AdjustsWhenAwake`); only a user who publishes for ever,
  and so keeps the queue of events filled, could, and the property says so. The
  violated `AdjustsEveryInterval` is about the opposite case: if they are silent,
  nothing makes up for the missing waker.
* The other specifications are safety only. `ScriptedNodes` is a timed model:
  instead of fairness, time passes only when no node has something due and no
  dial is overdue. In Shadow all processes start together and code takes next
  to no simulated time; `DialTime` bounds a handshake.

## Proofs

All proofs are for every finite set of nodes, keys, connections or Receivers and
for every bound. Each theorem is `Spec => P` for an invariant `[]Inv`, an action
property or an abstract specification; the
invariant that is inductive is named where it is not the property itself.

* **DogRouterProofs** (lemmas only): what the operations of the routing table and
  the controller return, and what a sum over a finite set does when one entry
  changes. The sums are folds; that the fold exists, is unique and may take its
  elements in any order follows from the subset ordering of a finite set being
  well-founded (`SubsetInduction`), so no induction theorem with an operator for a
  parameter is needed.
* **DogNetworkProofs**: `TypeCorrect` is `Spec => []TypeOK`. It is inductive; the
  work is in the channels (removal of an inner element), in the history of what
  was queued and in the counters of
  routes, HaveTx registrations and budgets, which are decremented only when
  positive. `LiveTargets` is `Spec => []ClosedRouteHasLiveTarget`, inductive with
  `TypeOK`: a HaveTx is only handled while its link is up, and a close removes
  the routes in the same step. `RoutesStayReopenable` is
  `Spec => []ClosedRoutesReopenable` for `MaxLoss = 0`. The property compares
  totals over a channel and is not inductive: a ResetRoute that finds no closed
  route is spent in vain, and then what is behind it must be covered without it.
  The invariant `Reopenable` covers every suffix of the channel, whether the link
  is up or not; that a new link starts with nothing closed is `LiveTargets`. With
  losses the property is false (a lost ResetRoute took its HaveTx off the count).
  For `MaxExpiries = 0` there are `CrossesOnce`, `HaveTxKeepsASource`
  and `SourcesFormTree`. None of the three properties is inductive.
  `GossipInv` adds that a cached transaction has one source, that the source
  holds it, that sequence numbers are ahead of every transaction, that a queue
  holds a transaction once, that whatever is queued from a to b is cached at a
  and neither came from b nor was taken by b from a, that what was ever queued
  on a link is without repetition and cached at its sender from somebody else
  (`GivenOnce`: a node queues a transaction only in the step that caches it,
  `GivenStep`), and that the sources are
  acyclic in the form "no set of holders points only into itself", which a new
  leaf preserves. With expiry the properties are false: an expired transaction
  may come back and be recorded with another source.
  `NumbersFresh` (`Spec => []NextIdFresh`) is inductive with
  `TypeOK`: no step takes a number back, and what a step puts into a cache or a
  queue was in one before or has just been numbered (`CarriesOver`), also when
  entries expire and links break. `NetworkBroadcasts` (`Spec => ImplementsBroadcast` for
  `MaxExpiries = 0`): with `GossipInv` every action is mapped to a `Publish`, a
  `Deliver`, a `Relink` or a stutter of `Broadcast`; that a first receipt is a
  `Deliver` needs that whatever is queued is cached at its sender.
* **SendQueueProofs**: `QueueTyped`, `CounterCovers` and `PublishesAreBounded`, for any
  capacity and any number of receivers and sends. `CounterInv` adds to the two
  properties that no message is queued twice, in the channel or in the slots
  (only then does taking one Publish leave one less), that what is queued has a
  smaller number than the next message, and that a send between load and store
  read less than the capacity. `ReceiversKeepOrder` (`InOrder`) and
  `EachCallInOnePlace` (`ExactlyOnce`) rest on `HistoryInv`: for each channel, all that
  is queued was sent after all that the slots keep, and that after what the
  owner of the slot has returned (`InLine`); and each call has its rpc in one
  place (`Sole`). One Receiver may hold an rpc in its slot while another returns
  the next, which is why the order of the returned rpcs is per Receiver only.
  `QueueTypes` is `TypeOK` without `second`, on which nothing else depends.
* **BehaviourTaskProofs**: `TaskTypes`, `ConnectionsAreTracked`, `RoutingIsReported`,
  `MetricsAlwaysAgree` and `QueueIsDrained`. The types come first (a gauge that is
  decremented is positive because the table it shows has the entry); the others
  are inductive relative to them. Vec::retain is the recursive function `Retain`;
  what it leaves is shown by least counterexample (`LeastNatural`,
  `RetainProperties`). `RoutingReported` speaks of the last report in a queue that
  grows behind and is emitted in front, so its invariant names the position of
  that report. `QueueIsDrained` needs that a sleeping task has emptied its queue
  but for what the interval left in it (`LeftInQueue`).
* **ConnectionHandlerProofs**: `HandlerTypes`, `SecondSubstreamNeverComes`,
  `WireKeepsOrder` and `MessagesAreAccounted`, for any limits. `Substreams` holds the
  types, the attempts that an enabled handler has left and the single request for
  a substream. `Messages` says where each message is (`Placed`), over all failures
  of a substream, and that the places hold them in the order of their numbers.
* **DuplicateCacheProofs**: `CacheConsistent` (`IndexesAgree` and `ListInOrder`),
  `CacheOrdered` (`ListInOrder` by itself)
  and `CacheRefines` (`Spec => ExpiringMap!Spec` under the mapping). `CacheInv`
  adds that keys in the list are distinct and that no expiration lies more than
  the ttl ahead, which is why the first live entry ends the search.
* **ScriptedNodesProofs**: `ScriptsKeepOrder`, `PhasesMatchScripts`,
  `NodesStayForPhases` and `MessagesArePublished`, for any number of nodes, phases
  and messages, any times and any sets of peers. `GeneratorInv` is about the
  scripts: the open phase has no instruction before the time elapsed, each
  message number is in one instruction, a node connects in its first instruction
  only, which is no later than the start of its first phase, and its script has
  an instruction for the end of each of its phases. `SimulationInv` adds, in
  this order, where a node is in its script (`Position`); that it is punctual
  (`Punctual`: a Rust node waits for its next time or is there, a Go node may be
  late by the dials it had to make, each of which is younger than `DialTime`);
  that a dial which was made has led to a connection at both ends or is still
  under way while both processes run (`Linked`); and that what is done has been
  published at its time (`Delivered`). A Rust node then has a peer when it
  publishes: the dial was made by the start of the phase and is over, and the
  neighbour has neither failed (by `Delivered`) nor left (by `PhaseHeld`).
* **TransactionCodecProofs**: `NothingIsLost` (`Spec => []HopsPreserve`) and
  `SignedAreValid` (`Spec => SignedIsAccepted`). Framing and decoding are inverse on
  what `build_raw_transaction` makes (`RoundTrip`), and the signature of such a
  frame verifies exactly if its author signs (`Verified`). The assumption that a
  signature is neither absent nor empty is that of the two conversions.

Only model-checked, because the prover does not reach it: everything under
fairness (`PublishedReachesAll`, `GossipQuiesces`, `QueueServed`, `AdjustsWhenAwake`).
Every other property of a passing run is a theorem. The four disagreements between
code and text above are counterexamples of TLC.

## Not modelled

* Several connections between two nodes at the level of `DogNetwork`: the queue
  they share is in `SendQueue`, what the behaviour keeps of them in
  `BehaviourTask`.
* The race inside `futures_timer` between a poll and the expiry, and metrics that
  only count events.
* Frames that no node produces (for example a peer id that does not parse) and
  transforms other than the identity.
* go-libp2p-pubsub, whose gossip is in a library, with the subscriptions and
  validators of the Go node, which have no effect on its script. Its tracer is
  logging.
* `run.py`, `shadow_config.py`, `analyze_logs.py`, `alerts.py`: files, processes,
  plots and notifications, in one pass without state that outlives it.
* Which graph a scenario draws, message sizes and topics.

## Plan

1. `SendQueue` and `ConnectionHandler` composed: the counter across the life of a
   handler, and an abstract queue that the pair implements.
2. The log analysis (`analyze_logs.py`) as a function of the logs that
   `ScriptedNodes` could write.
