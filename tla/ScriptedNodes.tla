---------------------------- MODULE ScriptedNodes ----------------------------
(***************************************************************************)
(* The nodes of an experiment running the scripts that Experiment wrote:   *)
(* the Rust nodes of protocol "dog" (experiment/src: experiment.rs,        *)
(* connector.rs, handler.rs, main.rs) or the Go nodes of protocol          *)
(* "gossipsub" (go-libp2p: experiment.go, main.go).                        *)
(*                                                                         *)
(* A Rust node polls its swarm only while it waits for the time of its     *)
(* next instruction; an instruction runs to its end without a poll and     *)
(* only starts its dials.  The host of a Go node runs beside the script,   *)
(* whose instructions wait for each dial in turn.  Either process exits    *)
(* after the last instruction or at the first error.  A connection is seen *)
(* by either end when that end polls.                                      *)
(*                                                                         *)
(* Time is that of the Shadow simulation, in which all processes start     *)
(* together and code takes no time: it passes only when every node waits   *)
(* for a later time and no dial is older than DialTime.                    *)
(***************************************************************************)
EXTENDS Experiment

CONSTANTS
  DialTime,      \* the ticks a dial may take
  MaxErrors      \* bound: instructions that fail although a peer is connected

ASSUME ScriptedNodesAssumption == DialTime \in Nat /\ MaxErrors \in Nat

VARIABLES
  protocol,   \* the --protocol of the experiment: "dog" or "gossipsub"
  finalized,  \* finalize was called and the simulation started
  now,        \* the time since the start
  mode,       \* [Node -> {"waiting", "ready", "connecting", "done", "failed"}]
  next,       \* [Node -> Nat]: index of the instruction of mode
  dials,      \* {[from, to, since]}: dials the target has not accepted
  opening,    \* {[at, peer, since]}: established events that at has not polled
  connecting, \* [Node -> SUBSET Node]: peers that a connecting node has yet to dial
  connected,  \* {<<n, p>>}: connected_peers of n, as n knows them
  published,  \* {[id, time]}: messages that publish accepted
  errors      \* instructions that failed with a peer connected

simulation == <<protocol, finalized, now, mode, next, dials, opening, connecting,
                connected, published, errors>>
vars == <<generator, simulation>>

Init ==
  /\ InitExperiment
  /\ protocol \in {"dog", "gossipsub"}
  /\ finalized = FALSE
  /\ now = 0
  /\ mode = [n \in Node |-> "ready"]
  /\ next = [n \in Node |-> 1]
  /\ dials = {} /\ opening = {} /\ connected = {} /\ published = {}
  /\ connecting = [n \in Node |-> {}]
  /\ errors = 0

Ended(n) == mode[n] \in {"done", "failed"}
Polling(n) ==
  finalized /\ IF protocol = "dog" THEN mode[n] = "waiting" ELSE ~Ended(n)

\* The beginning of run_script_instruction for the i-th instruction of n, or
\* the return of run_experiment.
ModeAt(n, i) ==
  CASE i > Len(scripts[n]) -> "done"
    [] i <= Len(scripts[n]) /\ now < scripts[n][i].at -> "waiting"
    [] OTHER -> "ready"

\* Experiment.finalize, the parameter files and main: a node without
\* instructions has no file to read and ends at once.  The last call of every
\* scenario is apply_phase.
Finalize ==
  /\ ~finalized
  /\ phase = None /\ phases # <<>> /\ phases[Len(phases)].nodes = active
  /\ finalized' = TRUE
  /\ mode' = [n \in Node |-> ModeAt(n, 1)]
  /\ UNCHANGED <<generator, protocol, now, next, dials, opening, connecting,
                 connected, published, errors>>

\* What is left of n when its process exits.  The other ends notice later.
Exits(n, how) ==
  /\ mode' = [mode EXCEPT ![n] = how]
  /\ dials' = {d \in dials : d.from # n}
  /\ opening' = {o \in opening : o.at # n}
  /\ connected' = {c \in connected : c[1] # n}

-----------------------------------------------------------------------------
\* The time of n's next instruction has come, on its own or when the timer of
\* the wait fires.
Due(n) ==
  finalized /\ mode[n] \in {"waiting", "ready"} /\ now >= scripts[n][next[n]].at

\* The instruction after the current one, or the end of the process.
Proceeds(n, started) ==
  LET after == ModeAt(n, next[n] + 1)
  IN /\ next' = [next EXCEPT ![n] = @ + 1]
     /\ IF after = "done"
          THEN Exits(n, "done")
          ELSE /\ mode' = [mode EXCEPT ![n] = after]
               /\ dials' = dials \cup started
               /\ UNCHANGED <<opening, connected>>

Connections(n) == {c \in connected : c[1] = n}
Publishes(n) ==
  published' = published \cup
    {[id |-> id, time |-> now] : id \in scripts[n][next[n]].publish}

\* run_instruction of a Rust node: it starts a dial for each peer to connect to
\* (connect_to does not wait for it) and publishes each message.
RunInstruction(n) ==
  /\ protocol = "dog" /\ Due(n)
  /\ scripts[n][next[n]].publish # {} => Connections(n) # {}
  /\ Publishes(n)
  /\ Proceeds(n, {[from |-> n, to |-> p, since |-> now] :
                    p \in scripts[n][next[n]].connect})
  /\ UNCHANGED <<generator, protocol, finalized, now, connecting, errors>>

\* publish without a peer is an error, which ends the node.
PublishWithoutPeers(n) ==
  /\ protocol = "dog" /\ Due(n)
  /\ scripts[n][next[n]].publish # {} /\ Connections(n) = {}
  /\ Exits(n, "failed")
  /\ UNCHANGED <<generator, protocol, finalized, now, next, connecting,
                 published, errors>>

\* publish fails with peers connected (all queues full, or all routes closed)
\* or, in Go, for reasons of its own, or the name of a peer does not resolve,
\* which a Go node only logs.
InstructionFails(n) ==
  LET s == scripts[n][next[n]]
  IN /\ Due(n)
     /\ errors < MaxErrors
     /\ \/ s.connect # {} /\ protocol = "dog"
        \/ s.publish # {} /\ (protocol = "dog" => Connections(n) # {})
     /\ errors' = errors + 1
     /\ Exits(n, "failed")
     /\ UNCHANGED <<generator, protocol, finalized, now, next, connecting,
                    published>>

-----------------------------------------------------------------------------
\* runInstruction of a Go node: Publish needs no peer, and a list of peers is
\* connected to one after the other.
GoInstruction(n) ==
  /\ protocol = "gossipsub" /\ Due(n)
  /\ scripts[n][next[n]].connect = {}
  /\ Publishes(n)
  /\ Proceeds(n, {})
  /\ UNCHANGED <<generator, protocol, finalized, now, connecting, errors>>

GoConnect(n) ==
  /\ protocol = "gossipsub" /\ Due(n)
  /\ scripts[n][next[n]].connect # {}
  /\ mode' = [mode EXCEPT ![n] = "connecting"]
  /\ connecting' = [connecting EXCEPT ![n] = scripts[n][next[n]].connect]
  /\ UNCHANGED <<generator, protocol, finalized, now, next, dials, opening, connected,
                 published, errors>>

\* h.Connect of n has not returned.
Dialling(n) == \E d \in dials : d.from = n

\* ConnectTo(p): Connect returns at once if p is connected and fails at once for
\* n itself, as does a name that does not resolve.
ConnectTo(n, p) ==
  /\ mode[n] = "connecting" /\ p \in connecting[n] /\ ~Dialling(n)
  /\ connecting' = [connecting EXCEPT ![n] = @ \ {p}]
  /\ IF p = n \/ <<n, p>> \in connected
       THEN UNCHANGED <<dials, errors>>
       ELSE \/ /\ dials' = dials \cup {[from |-> n, to |-> p, since |-> now]}
               /\ UNCHANGED errors
            \/ /\ errors < MaxErrors
               /\ errors' = errors + 1
               /\ UNCHANGED dials
  /\ UNCHANGED <<generator, protocol, finalized, now, mode, next, opening, connected,
                 published>>

\* The last Connect has returned; an error was only logged.
ConnectReturns(n) ==
  /\ mode[n] = "connecting" /\ connecting[n] = {} /\ ~Dialling(n)
  /\ Proceeds(n, {})
  /\ UNCHANGED <<generator, protocol, finalized, now, connecting, published,
                 errors>>

-----------------------------------------------------------------------------
\* Slip: only the end that dialled learns of the connection.
AcceptDialOneSided(d) ==
  /\ d \in dials
  /\ d.from # d.to
  /\ Polling(d.to)
  /\ dials' = dials \ {d}
  /\ opening' = opening \cup {[at |-> d.from, peer |-> d.to, since |-> d.since]}
  /\ UNCHANGED <<generator, protocol, finalized, now, mode, next, connected,
                 published, connecting, errors>>

\* The target polls its listener.  Both ends will be told of the connection,
\* each when it polls; the hosts of two Go nodes are at it beside their scripts.
AcceptDial(d) ==
  LET ends == {<<d.from, d.to>>, <<d.to, d.from>>}
  IN /\ d \in dials
     /\ d.from # d.to
     /\ Polling(d.to)
     /\ dials' = dials \ {d}
     /\ IF protocol = "dog"
          THEN /\ opening' = opening \cup
                    {[at |-> e[1], peer |-> e[2], since |-> d.since] : e \in ends}
               /\ UNCHANGED connected
          ELSE connected' = connected \cup ends /\ UNCHANGED opening
     /\ UNCHANGED <<generator, protocol, finalized, now, mode, next, connecting, published,
                    errors>>

\* handle_swarm_event: ConnectionEstablished.
ConnectionEstablished(o) ==
  /\ o \in opening
  /\ Polling(o.at)
  /\ ~Ended(o.peer)
  /\ opening' = opening \ {o}
  /\ connected' = connected \cup {<<o.at, o.peer>>}
  /\ UNCHANGED <<generator, protocol, finalized, now, mode, next, dials,
                 published, connecting, errors>>

\* handle_swarm_event: OutgoingConnectionError, of a dial to a process that
\* has exited or to the node itself.  Nothing dials again.
DialError(d) ==
  /\ d \in dials
  /\ Polling(d.from)
  /\ d.from = d.to \/ Ended(d.to)
  /\ dials' = dials \ {d}
  /\ UNCHANGED <<generator, protocol, finalized, now, mode, next, opening,
                 connected, published, connecting, errors>>

\* The same for a peer that exited during the handshake.
HandshakeError(o) ==
  /\ o \in opening
  /\ Polling(o.at)
  /\ Ended(o.peer)
  /\ opening' = opening \ {o}
  /\ UNCHANGED <<generator, protocol, finalized, now, mode, next, dials,
                 connected, published, connecting, errors>>

\* handle_swarm_event: ConnectionClosed.
ConnectionClosed(n, p) ==
  /\ <<n, p>> \in connected
  /\ Polling(n)
  /\ Ended(p)
  /\ connected' = connected \ {<<n, p>>}
  /\ UNCHANGED <<generator, protocol, finalized, now, mode, next, dials,
                 opening, published, connecting, errors>>

\* Time passes.
Tick ==
  /\ finalized
  /\ \A n \in Node :
       \/ Ended(n)
       \/ mode[n] = "waiting" /\ now < scripts[n][next[n]].at
       \/ mode[n] = "connecting" /\ Dialling(n)
  /\ \E n \in Node : ~Ended(n)
  /\ \A x \in dials \cup opening : now - x.since < DialTime
  /\ now' = now + 1
  /\ UNCHANGED <<generator, protocol, finalized, mode, next, dials, opening,
                 connected, published, connecting, errors>>

Next ==
  \/ ~finalized /\ Generate /\ UNCHANGED simulation
  \/ Finalize
  \/ \E n \in Node : RunInstruction(n)
  \/ \E n \in Node : PublishWithoutPeers(n)
  \/ \E n \in Node : InstructionFails(n)
  \/ \E n \in Node : GoInstruction(n)
  \/ \E n \in Node : GoConnect(n)
  \/ \E n, p \in Node : ConnectTo(n, p)
  \/ \E n \in Node : ConnectReturns(n)
  \/ \E d \in dials : AcceptDial(d)
  \/ \E d \in dials : DialError(d)
  \/ \E o \in opening : ConnectionEstablished(o)
  \/ \E o \in opening : HandshakeError(o)
  \/ \E n, p \in Node : ConnectionClosed(n, p)
  \/ Tick

Spec == Init /\ [][Next]_vars

-----------------------------------------------------------------------------
\* n and p are made to connect by the script of either.
Neighbours(n, p) ==
  /\ n # p
  /\ \/ \E i \in DOMAIN scripts[n] : p \in scripts[n][i].connect
     \/ \E i \in DOMAIN scripts[p] : n \in scripts[p][i].connect

\* experiment.py:116, of the empty instruction at the end of a phase: it
\* "prevents nodes from shutting down before the end of the phase".  A node
\* of a phase is running until the phase ends, unless an instruction failed.
PhaseHeld ==
  finalized =>
    \A k \in DOMAIN phases : \A n \in phases[k].nodes :
      mode[n] = "done" => now >= phases[k].end

\* What the scenarios see to.  A Rust node needs a neighbour to publish: a
\* message comes from a node that has one for the whole phase, after a warmup
\* that is long enough for a dial, and before a cooldown.  Without the cooldown
\* the neighbour may exit first, at the time of the message.  A Go node needs
\* none, but the warmup has to cover all the dials of its script, one by one.
WellPrepared ==
  \A k \in DOMAIN phases : \A m \in phases[k].messages :
    IF protocol = "dog"
      THEN /\ phases[k].start + DialTime < m.time /\ m.time < phases[k].end
           /\ \E p \in phases[k].nodes : Neighbours(m.source, p)
      ELSE \A i \in DOMAIN scripts[m.source] :
             phases[k].start + DialTime * Cardinality(scripts[m.source][i].connect) <= m.time

\* Every announced message is published, at the time that is announced for it,
\* by the time it is past, if the experiment is prepared like that and no
\* instruction fails by itself.  Neither nodes that leave, nor dials that are
\* refused, nor the polls that a running script holds up, nor the dials that
\* hold up a script get in the way.
AnnouncedIsPublished ==
  finalized /\ errors = 0 /\ WellPrepared =>
    \A k \in DOMAIN phases : \A m \in phases[k].messages :
      now > m.time => [id |-> m.id, time |-> m.time] \in published
=============================================================================
