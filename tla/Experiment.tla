----------------------------- MODULE Experiment -----------------------------
(***************************************************************************)
(* The generator of experiments (experiment.py): a scenario activates      *)
(* nodes, gives each the peers it dials, opens a phase, adds messages to   *)
(* it and applies it, which extends the script of every active node.       *)
(*                                                                         *)
(* The actions are the calls of Experiment and ExperimentPhase, in the     *)
(* order in which the scenarios make them: a node is set up once, after it *)
(* was activated, and the set of active nodes only changes while no phase  *)
(* is open.  Times are in ticks; sizes and topics are left out.            *)
(***************************************************************************)
EXTENDS Integers, Sequences, FiniteSets

CONSTANTS
  Node,                        \* the nodes of the experiment
  None,                        \* no phase is open
  Warmups, Cooldowns, Delays,  \* the times a scenario passes, in ticks
  PeerSets,                    \* the sets of peers it may give a node
  MaxPhases, MaxMessages,      \* bounds: phases, and messages over all phases
  MaxChurn                     \* bound: nodes that are deactivated

ASSUME ExperimentAssumption ==
  /\ IsFiniteSet(Node) /\ None \notin Node
  /\ PeerSets \subseteq SUBSET Node
  /\ Warmups \cup Cooldowns \cup Delays \subseteq Nat
  /\ {MaxPhases, MaxMessages, MaxChurn} \subseteq Nat

VARIABLES
  elapsed,     \* state.elapsed_time_ms
  nextId,      \* state.next_message_id
  active,      \* state.active_set
  ready,       \* state.ready_set
  phase,       \* the ExperimentPhase being filled, or None
  scripts,     \* _instructions: [Node -> Seq(ScriptInstruction)]
  phases       \* _phases: the PhaseInfo of every applied phase

generator == <<elapsed, nextId, active, ready, phase, scripts, phases>>

\* A ScriptInstruction: its time, the nodes it connects to, the messages it
\* publishes.  A subscription changes nothing in a DOG node.
Instruction(at, connect, publish) ==
  [at |-> at, connect |-> connect, publish |-> publish]

\* Experiment.__init__
InitExperiment ==
  /\ elapsed = 0 /\ nextId = 0
  /\ active = {} /\ ready = Node
  /\ phase = None
  /\ scripts = [n \in Node |-> <<>>]
  /\ phases = <<>>

\* _get_main_phase_end_time_ms and _get_end_time_ms
MainPhaseEnd(ph) == elapsed + ph.warmup + ph.duration
PhaseEnd(ph) == MainPhaseEnd(ph) + ph.cooldown

-----------------------------------------------------------------------------
ActivateNode(n) ==
  /\ phase = None
  /\ n \in ready
  /\ ready' = ready \ {n}
  /\ active' = active \cup {n}
  /\ UNCHANGED <<elapsed, nextId, phase, scripts, phases>>

DeactivateNode(n) ==
  /\ phase = None
  /\ n \in active /\ scripts[n] # <<>>
  /\ Cardinality(Node \ (active \cup ready)) < MaxChurn
  /\ active' = active \ {n}
  /\ UNCHANGED <<elapsed, nextId, ready, phase, scripts, phases>>

\* setup_node asserts that the peers are active.
SetupNode(n, peers) ==
  /\ phase = None
  /\ n \in active /\ scripts[n] = <<>>
  /\ peers \subseteq active
  /\ scripts' = [scripts EXCEPT ![n] = Append(@, Instruction(elapsed, peers, {}))]
  /\ UNCHANGED <<elapsed, nextId, active, ready, phase, phases>>

NewPhase(warmup, cooldown) ==
  /\ phase = None
  /\ Len(phases) < MaxPhases
  /\ active # {} /\ \A n \in active : scripts[n] # <<>>
  /\ phase' = [warmup |-> warmup, cooldown |-> cooldown, duration |-> 0,
               main |-> [n \in Node |-> <<>>], nodes |-> active, messages |-> {}]
  /\ UNCHANGED <<elapsed, nextId, active, ready, scripts, phases>>

\* Slip: the delay is added after the time was taken.
AddMessageEarly(delay, n) ==
  /\ phase # None
  /\ nextId < MaxMessages
  /\ n \in phase.nodes
  /\ LET time == MainPhaseEnd(phase)
     IN phase' = [phase EXCEPT
          !.duration = @ + delay,
          !.main[n] = Append(@, Instruction(time, {}, {nextId})),
          !.messages = @ \cup {[id |-> nextId, source |-> n, time |-> time + delay]}]
  /\ nextId' = nextId + 1
  /\ UNCHANGED <<elapsed, active, ready, scripts, phases>>

AddMessage(delay, n) ==
  /\ phase # None
  /\ nextId < MaxMessages
  /\ n \in phase.nodes
  /\ LET time == MainPhaseEnd(phase) + delay
     IN phase' = [phase EXCEPT
          !.duration = @ + delay,
          !.main[n] = Append(@, Instruction(time, {}, {nextId})),
          !.messages = @ \cup {[id |-> nextId, source |-> n, time |-> time]}]
  /\ nextId' = nextId + 1
  /\ UNCHANGED <<elapsed, active, ready, scripts, phases>>

\* PhaseInfo; start and end are not kept by the code and serve the properties.
Info(ph) == [nodes |-> ph.nodes, messages |-> ph.messages,
             start |-> elapsed, end |-> PhaseEnd(ph)]

\* Slip: the instruction that keeps the nodes alive is left out.
ApplyPhaseOpen ==
  /\ phase # None
  /\ scripts' = [n \in Node |->
       IF n \in active THEN scripts[n] \o phase.main[n] ELSE scripts[n]]
  /\ phases' = Append(phases, Info(phase))
  /\ elapsed' = PhaseEnd(phase)
  /\ phase' = None
  /\ UNCHANGED <<nextId, active, ready>>

\* Slip: the time of the experiment does not advance.
ApplyPhaseTimeless ==
  /\ phase # None
  /\ scripts' = [n \in Node |->
       IF n \in active
         THEN scripts[n] \o Append(phase.main[n], Instruction(PhaseEnd(phase), {}, {}))
         ELSE scripts[n]]
  /\ phases' = Append(phases, Info(phase))
  /\ phase' = None
  /\ UNCHANGED <<elapsed, nextId, active, ready>>

\* apply_phase and _apply: an instruction without content ends each script.
ApplyPhase ==
  /\ phase # None
  /\ scripts' = [n \in Node |->
       IF n \in active
         THEN scripts[n] \o Append(phase.main[n], Instruction(PhaseEnd(phase), {}, {}))
         ELSE scripts[n]]
  /\ phases' = Append(phases, Info(phase))
  /\ elapsed' = PhaseEnd(phase)
  /\ phase' = None
  /\ UNCHANGED <<nextId, active, ready>>

Generate ==
  \/ \E n \in Node : ActivateNode(n)
  \/ \E n \in Node : DeactivateNode(n)
  \/ \E n \in Node, peers \in PeerSets : SetupNode(n, peers)
  \/ \E warmup \in Warmups, cooldown \in Cooldowns : NewPhase(warmup, cooldown)
  \/ \E delay \in Delays, n \in Node : AddMessage(delay, n)
  \/ ApplyPhase

GeneratorSpec == InitExperiment /\ [][Generate]_generator

-----------------------------------------------------------------------------
Announced == UNION {phases[k].messages : k \in DOMAIN phases}
Scripted == {s \in Node \X (1 .. 2 * MaxPhases + MaxMessages + 1) :
               s[2] \in DOMAIN scripts[s[1]]}

\* The nodes follow their scripts front to back and never wait for a time that
\* has passed (experiment.rs:48): every script is in the order of its times,
\* across phases and for nodes that join late.
ScriptsInOrder ==
  \A n \in Node : \A i, j \in DOMAIN scripts[n] :
    i < j => scripts[n][i].at <= scripts[n][j].at

\* phases.json, which the analysis reads, and the scripts, which the nodes
\* run, tell the same: each message that a phase announces is in exactly one
\* place of the scripts, at its source and at its time, and there is no other.
AnnouncedIsScripted ==
  /\ \A m \in Announced :
       /\ Cardinality({s \in Scripted : m.id \in scripts[s[1]][s[2]].publish}) = 1
       /\ \E i \in DOMAIN scripts[m.source] :
            /\ m.id \in scripts[m.source][i].publish
            /\ scripts[m.source][i].at = m.time
  /\ \A s \in Scripted : \A id \in scripts[s[1]][s[2]].publish :
       \E m \in Announced : m.id = id
=============================================================================
