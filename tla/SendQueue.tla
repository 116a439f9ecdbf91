----------------------------- MODULE SendQueue -----------------------------
(***************************************************************************)
(* The send queue of one peer: Sender and Receiver in dog/src/rpc.rs.  The *)
(* behaviour owns the Sender; every connection to the peer owns a Receiver *)
(* and runs in a task of its own, so the operations interleave at their    *)
(* accesses to the shared counter len and to the two channels.             *)
(*                                                                         *)
(* A Receiver wraps each channel in a Peekable: a peek takes the message   *)
(* out of the channel and keeps it in a slot of that Receiver.  When a     *)
(* Receiver is dropped its slots are dropped with it.                      *)
(***************************************************************************)
EXTENDS Integers, Sequences, FiniteSets, SequencesExt

CONSTANTS
  Receiver,   \* the Receivers that may exist, one per connection to the peer
  Cap,        \* Config.connection_handler_queue_len
  NoRpc,      \* an empty slot
  MaxSends    \* bound: calls of send_transaction

\* async_channel::bounded panics on 0, so cap / 2 has to be positive.
ASSUME QueueAssumption ==
  /\ IsFiniteSet(Receiver)
  /\ Cap \in Nat /\ Cap >= 2
  /\ MaxSends \in Nat
  /\ NoRpc \notin [kind : {"Publish", "Control", "Forward"}, n : Nat]

PriorityCap == Cap \div 2

VARIABLES
  len,           \* the AtomicUsize shared by Sender and Receivers
  priority,      \* the unbounded channel: Publish, HaveTx, ResetRoute
  nonPriority,   \* the bounded channel: Forward
  peeked,        \* [Receiver -> [p, f]]: the slots of the two Peekables
  open,          \* the Receivers that exist
  sender,        \* the progress of send_transaction for a Publish
  popped,        \* the Receivers between taking a Publish and fetch_sub
  second,        \* [Receiver -> SecondLook]: what follows at the non-priority channel
  calls,         \* how often send_transaction was called
  refused,       \* the rpcs that were handed back
  taken,         \* [Receiver -> Seq(Rpc)]: what poll_next returned
  discarded      \* the rpcs dropped as stale or together with a Receiver

vars == <<len, priority, nonPriority, peeked, open, sender, popped, second,
          calls, refused, taken, discarded>>
channels == <<priority, nonPriority, peeked>>
history == <<calls, refused, taken, discarded>>

\* An rpc is numbered by the call that sent it; Control is HaveTx or
\* ResetRoute, which the queue treats alike.
Rpc == [kind : {"Publish", "Control", "Forward"}, n : Nat]
Idle == [pc |-> "idle", n |-> 0, read |-> 0]
Slots == [p |-> NoRpc, f |-> NoRpc]
SecondLook == {"none", "take", "peek"}

Init ==
  /\ len = 0
  /\ priority = <<>> /\ nonPriority = <<>>
  /\ peeked = [r \in Receiver |-> Slots]
  /\ \E r \in Receiver : open = {r}
  /\ sender = Idle
  /\ popped = {}
  /\ second = [r \in Receiver |-> "none"]
  /\ calls = 0
  /\ refused = {} /\ discarded = {}
  /\ taken = [r \in Receiver |-> <<>>]

-----------------------------------------------------------------------------
(* Sender::send_transaction.                                               *)

\* Slip: the capacity is exceeded by one.
LoadLenBeyond ==
  LET n == calls + 1
  IN /\ sender.pc = "idle" /\ calls < MaxSends
     /\ calls' = n
     /\ \/ /\ len > PriorityCap
           /\ refused' = refused \cup {[kind |-> "Publish", n |-> n]}
           /\ UNCHANGED sender
        \/ /\ len <= PriorityCap
           /\ sender' = [pc |-> "store", n |-> n, read |-> len]
           /\ UNCHANGED refused
     /\ UNCHANGED <<len, channels, open, popped, second, taken, discarded>>

\* A Publish: the counter is loaded and compared with the capacity.
LoadLen ==
  LET n == calls + 1
  IN /\ sender.pc = "idle" /\ calls < MaxSends
     /\ calls' = n
     /\ \/ /\ len >= PriorityCap
           /\ refused' = refused \cup {[kind |-> "Publish", n |-> n]}
           /\ UNCHANGED sender
        \/ /\ len < PriorityCap
           /\ sender' = [pc |-> "store", n |-> n, read |-> len]
           /\ UNCHANGED refused
     /\ UNCHANGED <<len, channels, open, popped, second, taken, discarded>>

\* Slip: the Publish is not counted.
StoreLenUncounted ==
  /\ sender.pc = "store"
  /\ len' = sender.read
  /\ sender' = [sender EXCEPT !.pc = "push"]
  /\ UNCHANGED <<channels, open, popped, second, history>>

\* The loaded value plus one is stored, whatever happened in between.
StoreLen ==
  /\ sender.pc = "store"
  /\ len' = sender.read + 1
  /\ sender' = [sender EXCEPT !.pc = "push"]
  /\ UNCHANGED <<channels, open, popped, second, history>>

PushPublish ==
  /\ sender.pc = "push"
  /\ priority' = Append(priority, [kind |-> "Publish", n |-> sender.n])
  /\ sender' = Idle
  /\ UNCHANGED <<len, nonPriority, peeked, open, popped, second, history>>

\* Slip: a control message is put in front of the queued Publishes.
SendControlFirst ==
  /\ sender.pc = "idle" /\ calls < MaxSends
  /\ calls' = calls + 1
  /\ priority' = <<[kind |-> "Control", n |-> calls + 1]>> \o priority
  /\ UNCHANGED <<len, nonPriority, peeked, open, sender, popped, second, refused, taken, discarded>>

SendControl ==
  /\ sender.pc = "idle" /\ calls < MaxSends
  /\ calls' = calls + 1
  /\ priority' = Append(priority, [kind |-> "Control", n |-> calls + 1])
  /\ UNCHANGED <<len, nonPriority, peeked, open, sender, popped, second, refused, taken, discarded>>

SendForward ==
  LET rpc == [kind |-> "Forward", n |-> calls + 1]
  IN /\ sender.pc = "idle" /\ calls < MaxSends
     /\ calls' = calls + 1
     /\ \/ /\ Len(nonPriority) < Cap \div 2
           /\ nonPriority' = Append(nonPriority, rpc)
           /\ UNCHANGED refused
        \/ /\ Len(nonPriority) >= Cap \div 2
           /\ refused' = refused \cup {rpc}
           /\ UNCHANGED nonPriority
     /\ UNCHANGED <<len, priority, peeked, open, sender, popped, second, taken, discarded>>

-----------------------------------------------------------------------------
(* Receiver.                                                               *)

\* poll_peek: the slot, filled from the channel if it was empty.
Peek(slot, queue) ==
  IF slot = NoRpc /\ queue # <<>> THEN Head(queue) ELSE slot
\* Slip: a peek leaves the message in the channel.
ChannelKept(slot, queue) == queue

AfterPeek(slot, queue) ==
  IF slot = NoRpc /\ queue # <<>> THEN Tail(queue) ELSE queue

\* The task of r is between two calls of its Receiver.
Ready(r) == r \in open \ popped /\ second[r] = "none"

\* poll_next: the priority channel is looked at first, and a Publish is only
\* subtracted from the counter later.
PollNext(r) ==
  LET p == Peek(peeked[r].p, priority)
  IN /\ Ready(r)
     /\ \/ /\ p # NoRpc
           /\ priority' = AfterPeek(peeked[r].p, priority)
           /\ peeked' = [peeked EXCEPT ![r].p = NoRpc]
           /\ popped' = IF p.kind = "Publish" THEN popped \cup {r} ELSE popped
           /\ taken' = [taken EXCEPT ![r] = Append(@, p)]
           /\ UNCHANGED second
        \/ /\ p = NoRpc
           /\ second' = [second EXCEPT ![r] = "take"]
           /\ UNCHANGED <<priority, peeked, popped, taken>>
     /\ UNCHANGED <<len, nonPriority, open, sender, calls, refused, discarded>>

\* The second look of poll_next, whatever the priority channel holds by now.
TakeForward(r) ==
  LET f == Peek(peeked[r].f, nonPriority)
  IN /\ second[r] = "take"
     /\ second' = [second EXCEPT ![r] = "none"]
     /\ \/ /\ f # NoRpc
           /\ nonPriority' = AfterPeek(peeked[r].f, nonPriority)
           /\ peeked' = [peeked EXCEPT ![r].f = NoRpc]
           /\ taken' = [taken EXCEPT ![r] = Append(@, f)]
        \/ f = NoRpc /\ UNCHANGED <<nonPriority, peeked, taken>>
     /\ UNCHANGED <<len, priority, open, sender, popped, calls, refused, discarded>>

\* Slip: one too many is subtracted.
FetchSubTwo(r) ==
  /\ r \in popped
  /\ len' = len - 2
  /\ popped' = popped \ {r}
  /\ UNCHANGED <<channels, open, sender, second, history>>

\* The fetch_sub of poll_next.
FetchSub(r) ==
  /\ r \in popped
  /\ len' = len - 1
  /\ popped' = popped \ {r}
  /\ UNCHANGED <<channels, open, sender, second, history>>

\* poll_is_empty, and poll_stale unless a Publish is stale, first peek at the
\* priority channel.
PollPeek(r) ==
  /\ Ready(r)
  /\ peeked' = [peeked EXCEPT ![r].p = Peek(@, priority)]
  /\ priority' = AfterPeek(peeked[r].p, priority)
  /\ second' = [second EXCEPT ![r] = "peek"]
  /\ UNCHANGED <<len, nonPriority, open, sender, popped, history>>

\* They go on to peek at the other one.
PeekForward(r) ==
  /\ second[r] = "peek"
  /\ second' = [second EXCEPT ![r] = "none"]
  /\ peeked' = [peeked EXCEPT ![r].f = Peek(@, nonPriority)]
  /\ nonPriority' = AfterPeek(peeked[r].f, nonPriority)
  /\ UNCHANGED <<len, priority, open, sender, popped, history>>

\* poll_stale when the timeout of the peeked Publish has elapsed.  Unlike
\* poll_next it leaves the counter alone.
DropStalePublish(r) ==
  LET p == Peek(peeked[r].p, priority)
  IN /\ Ready(r)
     /\ p # NoRpc /\ p.kind = "Publish"
     /\ priority' = AfterPeek(peeked[r].p, priority)
     /\ peeked' = [peeked EXCEPT ![r].p = NoRpc]
     /\ discarded' = discarded \cup {p}
     /\ UNCHANGED <<len, nonPriority, open, sender, popped, second, calls, refused, taken>>

\* poll_stale when the timeout of the peeked Forward has elapsed.
DropStaleForward(r) ==
  LET f == Peek(peeked[r].f, nonPriority)
  IN /\ second[r] = "peek"
     /\ f # NoRpc
     /\ second' = [second EXCEPT ![r] = "none"]
     /\ nonPriority' = AfterPeek(peeked[r].f, nonPriority)
     /\ peeked' = [peeked EXCEPT ![r].f = NoRpc]
     /\ discarded' = discarded \cup {f}
     /\ UNCHANGED <<len, priority, open, sender, popped, calls, refused, taken>>

\* A further connection to the peer is established, or one is closed.
NewReceiver(r) ==
  /\ r \in Receiver \ open
  /\ open' = open \cup {r}
  /\ UNCHANGED <<len, channels, sender, popped, second, history>>

DropReceiver(r) ==
  /\ Ready(r)
  /\ open' = open \ {r}
  /\ peeked' = [peeked EXCEPT ![r] = Slots]
  /\ discarded' = discarded \cup ({peeked[r].p, peeked[r].f} \ {NoRpc})
  /\ UNCHANGED <<len, priority, nonPriority, sender, popped, second, calls, refused, taken>>

Next ==
  \/ LoadLen \/ StoreLen \/ PushPublish \/ SendControl \/ SendForward
  \/ \E r \in Receiver :
       \/ PollNext(r) \/ TakeForward(r) \/ FetchSub(r)
       \/ PollPeek(r) \/ PeekForward(r)
       \/ DropStalePublish(r) \/ DropStaleForward(r)
       \/ NewReceiver(r) \/ DropReceiver(r)

Spec == Init /\ [][Next]_vars

-----------------------------------------------------------------------------
(* Correctness.                                                            *)

\* In particular len, an AtomicUsize that receivers decrement with fetch_sub,
\* does not wrap below zero.
TypeOK ==
  /\ len \in Nat
  /\ priority \in Seq(Rpc) /\ nonPriority \in Seq(Rpc)
  /\ peeked \in [Receiver -> [p : Rpc \cup {NoRpc}, f : Rpc \cup {NoRpc}]]
  /\ open \subseteq Receiver /\ popped \subseteq open
  /\ sender \in [pc : {"idle", "store", "push"}, n : Nat, read : Nat]
  /\ second \in [Receiver -> SecondLook]
  /\ calls \in Nat
  /\ refused \subseteq Rpc /\ discarded \subseteq Rpc
  /\ taken \in [Receiver -> Seq(Rpc)]

QueuedPublishes ==
  {m \in ToSet(priority) \cup {peeked[r].p : r \in Receiver} :
     m # NoRpc /\ m.kind = "Publish"}

\* The counter never falls below the Publishes it stands for, those that are
\* queued, stored but not pushed or popped but not subtracted, although load
\* and store are separate: fetch_sub never wraps around below zero, and a
\* send under way will not overwrite the counter with too small a value.
CounterCoversQueue ==
  LET n == Cardinality(QueuedPublishes) + Cardinality(popped)
  IN /\ len >= n + (IF sender.pc = "push" THEN 1 ELSE 0)
     /\ sender.pc = "store" => sender.read >= n

\* The priority channel is unbounded, and yet it never holds more Publishes
\* than priority_cap.
PublishesBounded ==
  Cardinality(QueuedPublishes) + (IF sender.pc = "push" THEN 1 ELSE 0) <= PriorityCap

\* Every rpc that was not refused is in one place: a channel, a slot,
\* returned by one Receiver, or discarded.  The n-th call's rpc is never
\* returned twice and never vanishes, whichever Receivers peek or close.
ExactlyOnce ==
  \A n \in 1 .. calls :
    LET Is(m) == m # NoRpc /\ m.n = n
    IN 1 = Cardinality({i \in DOMAIN priority : Is(priority[i])})
             + Cardinality({i \in DOMAIN nonPriority : Is(nonPriority[i])})
             + Cardinality({r \in Receiver : Is(peeked[r].p)})
             + Cardinality({r \in Receiver : Is(peeked[r].f)})
             + Cardinality({ri \in Receiver \X (1 .. MaxSends) :
                  ri[2] \in DOMAIN taken[ri[1]] /\ Is(taken[ri[1]][ri[2]])})
             + Cardinality({m \in refused \cup discarded : Is(m)})
             + (IF sender.pc # "idle" /\ sender.n = n THEN 1 ELSE 0)

\* A Receiver returns the rpcs of one channel in the order they were sent.
InOrder ==
  \A r \in Receiver : \A i, j \in DOMAIN taken[r] :
    i < j /\ (taken[r][i].kind = "Forward" <=> taken[r][j].kind = "Forward") =>
      taken[r][i].n < taken[r][j].n

\* behaviour.rs on a failed send: "Sending failed because the channel is
\* full."  A Publish is refused only when priority_cap of them are queued, or
\* have just been taken and are about to be subtracted.
RefusedOnlyWhenFull ==
  [][LoadLen /\ refused' # refused =>
       Cardinality(QueuedPublishes) + Cardinality(popped) >= PriorityCap]_vars
=============================================================================
