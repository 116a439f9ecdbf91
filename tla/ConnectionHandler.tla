------------------------- MODULE ConnectionHandler -------------------------
(***************************************************************************)
(* The handler of one connection: dog/src/handler.rs.  The connection task *)
(* calls poll when it has been woken and hands over substream events       *)
(* between two polls; the behaviour fills the send queue at any time.  The *)
(* control flow of poll (request, outbound loop, inbound loop, stale) is   *)
(* followed with a program counter, one action per iteration of a loop.    *)
(*                                                                         *)
(* The task is polled again after every event and every Ready; after a     *)
(* Pending it sleeps until a waker it registered fires.  `awake' is set    *)
(* when it is scheduled.  A queue registers a waker only when a peek finds *)
(* it empty (listening); a peeked transaction registers its timeout.       *)
(*                                                                         *)
(* A queue is the channel and the slot of its Peekable together (module    *)
(* SendQueue has them apart); its Sender outlives the handler, so it is    *)
(* never closed.                                                           *)
(***************************************************************************)
EXTENDS Naturals, Sequences, FiniteSets, SequencesExt

CONSTANTS
  MaxSubstreamAttempts,   \* MAX_SUBSTREAM_ATTEMPS
  StreamsFail,            \* substreams and negotiations can fail
  MaxSends,               \* bound: messages the behaviour queues
  MaxInput,               \* bound: messages on the inbound substreams
  MaxCongestion           \* bound: how often the outbound substream blocks

ASSUME HandlerAssumption ==
  /\ MaxSubstreamAttempts \in Nat \ {0}
  /\ StreamsFail \in BOOLEAN
  /\ {MaxSends, MaxInput, MaxCongestion} \subseteq Nat

VARIABLES
  mode,          \* Enabled, or the reason of a DisabledHandler
  outbound,      \* [state, rpc]: outbound_substream
  inbound,       \* inbound_substream
  establishing,  \* outbound_substream_establishing
  outAttempts, inAttempts,
  pc,            \* where poll is; idle between two polls
  awake,         \* the task is scheduled
  queue,         \* [Class -> Seq(Rpc)]: send_queue
  listening,     \* the classes whose channel wakes the task
  expired,       \* the transactions whose timeout has elapsed
  requests,      \* outbound substream requests the swarm has not answered
  writable,      \* the outbound substream accepts data
  input,         \* what the inbound substream still has to yield
  budget,        \* [sends, input, congestion] used
  flushed,       \* the messages on the wire, in order
  dropped,       \* the messages reported with TransactionDropped
  lost           \* the messages that went down with a substream

handler == <<mode, outbound, inbound, establishing, outAttempts, inAttempts>>
task == <<pc, awake, listening>>
swarm == <<requests, writable, input>>
history == <<budget, flushed, dropped, lost>>
vars == <<handler, task, swarm, queue, expired, history>>

Class == {"priority", "nonPriority"}
Rpc == [kind : {"Publish", "Forward", "Control"}, n : Nat]
ClassOf(kind) == IF kind = "Forward" THEN "nonPriority" ELSE "priority"
TimeBound(m) == m.kind # "Control"
Empty == {c \in Class : queue[c] = <<>>}
NoRpc == [kind |-> "Control", n |-> 0]
Substream(state, rpc) == [state |-> state, rpc |-> rpc]

Init ==
  /\ mode = "Enabled"
  /\ outbound = Substream("None", NoRpc) /\ inbound = "None"
  /\ establishing = FALSE
  /\ outAttempts = 0 /\ inAttempts = 0
  /\ pc = "idle" /\ awake = TRUE /\ listening = {}
  /\ queue = [c \in Class |-> <<>>]
  /\ expired = {}
  /\ requests = 0 /\ writable = TRUE /\ input = <<>>
  /\ budget = [sends |-> 0, input |-> 0, congestion |-> 0]
  /\ flushed = <<>> /\ dropped = {} /\ lost = {}

-----------------------------------------------------------------------------
(* EnabledHandler::poll.                                                   *)

\* Slip: a request under way is not taken into account.
PollStartAgain ==
  /\ mode = "Enabled" /\ pc = "idle" /\ awake
  /\ listening' = listening \cup Empty
  /\ \/ /\ outbound.state = "None"
        /\ establishing' = TRUE
        /\ requests' = requests + 1
        /\ UNCHANGED <<pc, awake>>
     \/ /\ outbound.state # "None"
        /\ pc' = "outbound" /\ awake' = FALSE
        /\ UNCHANGED <<establishing, requests>>
  /\ UNCHANGED <<mode, outbound, inbound, outAttempts, inAttempts, queue, expired,
                 writable, input, history>>

\* poll_is_empty peeks both queues, and is true only when both are closed.
\* Without an outbound substream one is requested; otherwise poll goes on.
PollStart ==
  /\ mode = "Enabled" /\ pc = "idle" /\ awake
  /\ listening' = listening \cup Empty
  /\ \/ /\ outbound.state = "None" /\ ~establishing
        /\ establishing' = TRUE
        /\ requests' = requests + 1
        /\ UNCHANGED <<pc, awake>>
     \/ /\ outbound.state # "None" \/ establishing
        /\ pc' = "outbound" /\ awake' = FALSE
        /\ UNCHANGED <<establishing, requests>>
  /\ UNCHANGED <<mode, outbound, inbound, outAttempts, inAttempts, queue, expired,
                 writable, input, history>>

\* WaitingOutput: the next message is taken; a stale one is reported.
TakeMessage ==
  LET c == IF queue["priority"] # <<>> THEN "priority" ELSE "nonPriority"
      m == Head(queue[c])
  IN /\ pc = "outbound" /\ outbound.state = "WaitingOutput"
     /\ \/ /\ queue[c] # <<>>
           /\ queue' = [queue EXCEPT ![c] = Tail(@)]
           /\ listening' = IF c = "priority" THEN listening ELSE listening \cup {"priority"}
           /\ \/ /\ m \in expired
                 /\ dropped' = dropped \cup {m}
                 /\ pc' = "idle" /\ awake' = TRUE
                 /\ UNCHANGED outbound
              \/ /\ m \notin expired
                 /\ outbound' = Substream("PendingSend", m)
                 /\ UNCHANGED <<pc, awake, dropped>>
        \/ /\ queue[c] = <<>>
           /\ listening' = Class
           /\ pc' = "inbound"
           /\ UNCHANGED <<queue, outbound, awake, dropped>>
     /\ UNCHANGED <<mode, inbound, establishing, outAttempts, inAttempts, swarm, expired,
                    budget, flushed, lost>>

\* Slip: the substream is idle again without a flush.
SendUnflushed ==
  /\ pc = "outbound" /\ writable
  /\ outbound.state = "PendingSend"
  /\ outbound' = Substream("WaitingOutput", NoRpc)
  /\ UNCHANGED <<mode, inbound, establishing, outAttempts, inAttempts, task, swarm, queue,
                 expired, history>>

\* Slip: the loop ends after each message.
SendMessageOnce ==
  /\ pc = "outbound" /\ writable
  /\ \/ /\ outbound.state = "PendingSend"
        /\ outbound' = [outbound EXCEPT !.state = "PendingFlush"]
        /\ UNCHANGED <<pc, flushed>>
     \/ /\ outbound.state = "PendingFlush"
        /\ outbound' = Substream("WaitingOutput", NoRpc)
        /\ flushed' = Append(flushed, outbound.rpc)
        /\ pc' = "inbound"
  /\ UNCHANGED <<mode, inbound, establishing, outAttempts, inAttempts, awake, listening, swarm,
                 queue, expired, budget, dropped, lost>>

\* PendingSend and PendingFlush on a substream that is ready.
SendMessage ==
  /\ pc = "outbound" /\ writable
  /\ \/ /\ outbound.state = "PendingSend"
        /\ outbound' = [outbound EXCEPT !.state = "PendingFlush"]
        /\ UNCHANGED flushed
     \/ /\ outbound.state = "PendingFlush"
        /\ outbound' = Substream("WaitingOutput", NoRpc)
        /\ flushed' = Append(flushed, outbound.rpc)
  /\ UNCHANGED <<mode, inbound, establishing, outAttempts, inAttempts, task, swarm, queue,
                 expired, budget, dropped, lost>>

\* Slip: the message of a failed substream is queued again.
OutboundFailsRequeues ==
  LET m == outbound.rpc
  IN /\ StreamsFail
     /\ pc = "outbound" /\ outbound.state \in {"PendingSend", "PendingFlush"}
     /\ outbound' = Substream("None", NoRpc)
     /\ queue' = [queue EXCEPT ![ClassOf(m.kind)] = Append(@, m)]
     /\ pc' = "inbound"
     /\ UNCHANGED <<mode, inbound, establishing, outAttempts, inAttempts, awake, listening,
                    swarm, expired, history>>

\* The same on a substream that fails: the message is gone.
OutboundFails ==
  /\ StreamsFail
  /\ pc = "outbound" /\ outbound.state \in {"PendingSend", "PendingFlush"}
  /\ outbound' = Substream("None", NoRpc)
  /\ lost' = lost \cup {outbound.rpc}
  /\ pc' = "inbound"
  /\ UNCHANGED <<mode, inbound, establishing, outAttempts, inAttempts, awake, listening,
                 swarm, queue, expired, budget, flushed, dropped>>

\* The outbound loop ends: no substream, or it is not ready.
OutboundPending ==
  /\ pc = "outbound"
  /\ \/ outbound.state = "None"
     \/ outbound.state \in {"PendingSend", "PendingFlush"} /\ ~writable
  /\ pc' = "inbound"
  /\ UNCHANGED <<handler, awake, listening, swarm, queue, expired, history>>

\* WaitingInput: an rpc is handed to the behaviour, an error or the end of
\* the substream closes it.
ReadInput ==
  /\ pc = "inbound" /\ inbound = "WaitingInput"
  /\ \/ /\ input # <<>>
        /\ input' = Tail(input)
        /\ \/ /\ Head(input) = "rpc"
              /\ pc' = "idle" /\ awake' = TRUE
              /\ UNCHANGED inbound
           \/ /\ Head(input) = "end"
              /\ inbound' = "Closing"
              /\ UNCHANGED <<pc, awake>>
     \/ /\ input = <<>>
        /\ pc' = "stale"
        /\ UNCHANGED <<input, inbound, awake>>
  /\ UNCHANGED <<mode, outbound, establishing, outAttempts, inAttempts, listening, requests,
                 writable, queue, expired, history>>

\* Closing, until poll_close is Ready, or no inbound substream.
CloseInput ==
  /\ pc = "inbound" /\ inbound # "WaitingInput"
  /\ \/ inbound = "Closing" /\ inbound' = "None"
     \/ UNCHANGED inbound
  /\ pc' = "stale"
  /\ UNCHANGED <<mode, outbound, establishing, outAttempts, inAttempts, awake, listening,
                 swarm, queue, expired, history>>

\* poll_stale looks at the head of the priority queue, then of the other.
PollStale ==
  LET StaleHead(c) == queue[c] # <<>> /\ Head(queue[c]) \in expired
      Drop(c) ==
        /\ dropped' = dropped \cup {Head(queue[c])}
        /\ queue' = [queue EXCEPT ![c] = Tail(@)]
        /\ awake' = TRUE
  IN /\ pc = "stale"
     /\ pc' = "idle"
     /\ \/ /\ StaleHead("priority") /\ Drop("priority")
           /\ UNCHANGED listening
        \/ /\ ~StaleHead("priority") /\ StaleHead("nonPriority") /\ Drop("nonPriority")
           /\ listening' = listening \cup (Empty \cap {"priority"})
        \/ /\ ~StaleHead("priority") /\ ~StaleHead("nonPriority")
           /\ listening' = listening \cup Empty
           /\ UNCHANGED <<queue, awake, dropped>>
     /\ UNCHANGED <<handler, swarm, expired, budget, flushed, lost>>

-----------------------------------------------------------------------------
(* Handler::on_connection_event.                                           *)

\* Slip: the substreams are dropped but the handler stays enabled.
DisableSubstreams(reason) ==
  /\ outbound' = Substream("None", NoRpc) /\ inbound' = "None"
  /\ lost' = lost \cup ({outbound.rpc} \ {NoRpc})
  /\ UNCHANGED mode

\* The handler becomes Disabled: its substreams are dropped, and its end of
\* the send queue, where nothing is served any more.
Disable(reason) ==
  /\ mode' = reason
  /\ outbound' = Substream("None", NoRpc) /\ inbound' = "None"
  /\ lost' = lost \cup ({outbound.rpc} \ {NoRpc})

\* FullyNegotiatedOutbound (ok) or a DialUpgradeError answers a request.
OutboundEvent(result) ==
  /\ pc = "idle" /\ requests > 0
  /\ result # "ok" => StreamsFail
  /\ requests' = requests - 1
  /\ \/ /\ mode = "Enabled"
        /\ awake' = TRUE
        /\ establishing' = FALSE
        /\ outAttempts' = outAttempts + 1
        /\ \/ /\ outAttempts' = MaxSubstreamAttempts
              /\ Disable("MaxSubstreamAttempts")
              /\ UNCHANGED writable
           \/ /\ outAttempts' # MaxSubstreamAttempts
              /\ \/ /\ result = "ok"
                    /\ outbound' = Substream("WaitingOutput", NoRpc)
                    /\ writable' = TRUE
                    /\ UNCHANGED <<mode, inbound, lost>>
                 \/ /\ result = "NegotiationFailed"
                    /\ Disable("ProtocolUnsupported")
                    /\ UNCHANGED writable
                 \/ /\ result \in {"Timeout", "Io"}
                    /\ UNCHANGED <<mode, outbound, inbound, writable, lost>>
     \/ /\ mode # "Enabled"
        /\ UNCHANGED <<handler, awake, writable, lost>>
  /\ UNCHANGED <<inAttempts, pc, listening, input, queue, expired, budget, flushed, dropped>>

\* FullyNegotiatedInbound (ok) or a ListenUpgradeError.  A new inbound
\* substream replaces the old one and what was still to be read from it.
InboundEvent(result) ==
  /\ pc = "idle" /\ mode = "Enabled"
  /\ result # "ok" \/ inAttempts > 0 => StreamsFail
  /\ awake' = TRUE
  /\ inAttempts' = inAttempts + 1
  /\ \/ /\ inAttempts' = MaxSubstreamAttempts
        /\ Disable("MaxSubstreamAttempts")
        /\ UNCHANGED input
     \/ /\ inAttempts' # MaxSubstreamAttempts
        /\ \/ result = "ok" /\ inbound' = "WaitingInput" /\ input' = <<>>
           \/ result = "error" /\ UNCHANGED <<inbound, input>>
        /\ UNCHANGED <<mode, outbound, lost>>
  /\ UNCHANGED <<establishing, outAttempts, pc, listening, requests, writable, queue, expired,
                 budget, flushed, dropped>>

-----------------------------------------------------------------------------
(* The behaviour, the clock and the transport.                             *)

\* Sender::send_transaction wakes the task if it listens to that channel.
Enqueue(kind) ==
  LET c == ClassOf(kind)
  IN /\ budget.sends < MaxSends
     /\ budget' = [budget EXCEPT !.sends = @ + 1]
     /\ queue' = [queue EXCEPT ![c] = Append(@, [kind |-> kind, n |-> budget.sends + 1])]
     /\ awake' = (awake \/ c \in listening)
     /\ listening' = listening \ {c}
     /\ UNCHANGED <<handler, pc, swarm, expired, flushed, dropped, lost>>

\* A timeout elapses.  Every poll that ended in Pending has polled the
\* timeouts at the heads of the two queues, which therefore wake the task.
TimeoutElapses(c, i) ==
  /\ i \in DOMAIN queue[c]
  /\ TimeBound(queue[c][i]) /\ queue[c][i] \notin expired
  /\ expired' = expired \cup {queue[c][i]}
  /\ awake' = (awake \/ i = 1)
  /\ UNCHANGED <<handler, pc, listening, swarm, queue, history>>

\* The remote writes to the inbound substream, or closes it.
RemoteWrites(item) ==
  /\ inbound = "WaitingInput"
  /\ budget.input < MaxInput
  /\ item = "end" => StreamsFail
  /\ budget' = [budget EXCEPT !.input = @ + 1]
  /\ input' = Append(input, item)
  /\ awake' = TRUE
  /\ UNCHANGED <<handler, pc, listening, requests, writable, queue, expired, flushed, dropped, lost>>

Congest ==
  /\ writable /\ budget.congestion < MaxCongestion
  /\ writable' = FALSE
  /\ budget' = [budget EXCEPT !.congestion = @ + 1]
  /\ UNCHANGED <<handler, task, requests, input, queue, expired, flushed, dropped, lost>>

Drain ==
  /\ ~writable
  /\ writable' = TRUE
  /\ awake' = (awake \/ outbound.state \in {"PendingSend", "PendingFlush"})
  /\ UNCHANGED <<handler, pc, listening, requests, input, queue, expired, history>>

Poll ==
  \/ PollStart \/ TakeMessage \/ SendMessage \/ OutboundFails \/ OutboundPending
  \/ ReadInput \/ CloseInput \/ PollStale

Results == {"ok", "Timeout", "Io", "NegotiationFailed"}

Next ==
  \/ Poll
  \/ \E result \in Results : OutboundEvent(result)
  \/ \E result \in {"ok", "error"} : InboundEvent(result)
  \/ \E kind \in {"Publish", "Forward", "Control"} : Enqueue(kind)
  \/ \E c \in Class : \E i \in DOMAIN queue[c] : TimeoutElapses(c, i)
  \/ \E item \in {"rpc", "end"} : RemoteWrites(item)
  \/ Congest \/ Drain

Spec == Init /\ [][Next]_vars

\* A task that is awake is polled, a request is answered and a substream that
\* is alive is not blocked forever.
FairSpec ==
  /\ Spec
  /\ WF_vars(Poll)
  /\ WF_vars(\E result \in Results : OutboundEvent(result))
  /\ WF_vars(Drain)

\* The transactions at the heads of the queues eventually reach their timeout.
TimedSpec == FairSpec /\ \A c \in Class : WF_vars(TimeoutElapses(c, 1))

-----------------------------------------------------------------------------
(* Correctness.                                                            *)

\* The substream states of handler.rs; no counter of attempts passes the limit
\* at which the handler is disabled.
TypeOK ==
  /\ mode \in {"Enabled", "ProtocolUnsupported", "MaxSubstreamAttempts"}
  /\ outbound.state \in {"None", "WaitingOutput", "PendingSend", "PendingFlush"}
  /\ outbound.rpc \in Rpc
  /\ inbound \in {"None", "WaitingInput", "Closing"}
  /\ pc \in {"idle", "outbound", "inbound", "stale"}
  /\ establishing \in BOOLEAN /\ awake \in BOOLEAN /\ writable \in BOOLEAN
  /\ outAttempts \in 0 .. MaxSubstreamAttempts /\ inAttempts \in 0 .. MaxSubstreamAttempts
  /\ requests \in 0 .. MaxSubstreamAttempts
  /\ listening \subseteq Class
  /\ queue \in [Class -> Seq(Rpc)] /\ flushed \in Seq(Rpc)
  /\ expired \cup dropped \cup lost \subseteq Rpc
  /\ input \in Seq({"rpc", "end"})

\* The assertion of on_fully_negotiated_outbound cannot fail: the swarm never
\* owes an enabled handler a substream that it already has, or two of them.
NoSecondSubstream ==
  mode = "Enabled" =>
    /\ requests = IF establishing THEN 1 ELSE 0
    /\ establishing => outbound.state = "None"

Queued == ToSet(queue["priority"]) \cup ToSet(queue["nonPriority"])
InHand == {outbound.rpc} \ {NoRpc}

\* No message is lost but with its substream, and no more than one with each:
\* whatever was queued is queued, in hand, on the wire once, reported as
\* dropped, or the one casualty of an attempt.
MessagesAccounted ==
  /\ {m.n : m \in Queued \cup InHand \cup ToSet(flushed) \cup dropped \cup lost}
       = 1 .. budget.sends
  /\ budget.sends = Len(queue["priority"]) + Len(queue["nonPriority"])
       + Cardinality(InHand) + Len(flushed) + Cardinality(dropped) + Cardinality(lost)
  /\ Cardinality(lost) + Cardinality(InHand) <= outAttempts

\* Across failures and new substreams the messages of one class reach the
\* wire in the order in which they were queued.
WireInOrder ==
  \A i, j \in DOMAIN flushed :
    i < j /\ ClassOf(flushed[i].kind) = ClassOf(flushed[j].kind) => flushed[i].n < flushed[j].n

\* Until a substream fails under a message, or the handler is disabled, no
\* wakeup is lost: every queued message is eventually flushed or dropped, also
\* after negotiations that failed or timed out and inbound substreams that end.
QueueServed ==
  \A n \in 1 .. MaxSends :
    (\E m \in Queued : m.n = n) ~>
      \/ \E m \in ToSet(flushed) \cup dropped : m.n = n
      \/ lost # {} \/ mode # "Enabled"

-----------------------------------------------------------------------------
(* What a comment of the code says, and the code does not do.              *)

\* handler.rs on MAX_SUBSTREAM_ATTEMPS: "On failure, we attempt to recreate
\* the substream."  With messages waiting, a new one is eventually requested.
RecreatesSubstream ==
  mode = "Enabled" /\ outbound.state = "None" /\ Queued # {} ~>
    establishing \/ mode # "Enabled" \/ Queued = {}
=============================================================================
