------------------------- MODULE ScriptedNodesProofs -------------------------
(***************************************************************************)
(* Proofs about Experiment and ScriptedNodes, for any number of nodes,     *)
(* phases and messages, any times and any peers.                           *)
(*                                                                         *)
(* Of the generator: every script is in order, and the scripts publish     *)
(* what phases.json announces and nothing else.  Of the nodes: those of a  *)
(* phase stay until its end, and if the experiment is well prepared and no *)
(* instruction fails by itself, every message is published at its time.    *)
(* The last depends on all before it: the connections of a Rust node are   *)
(* there at its first message because it dialled at its first instruction, *)
(* no later than the phase began, because a dial takes DialTime at most,   *)
(* and because the other end cannot have left.                             *)
(***************************************************************************)
EXTENDS ScriptedNodes, FiniteSetTheorems, SequenceTheorems, TLAPS

-----------------------------------------------------------------------------
(* The generator: types, and what its actions do.                          *)

Instructions == [at : Nat, connect : SUBSET Node, publish : SUBSET Nat]
Messages == [id : Nat, source : Node, time : Nat]
Phase == [warmup : Nat, cooldown : Nat, duration : Nat, main : [Node -> Seq(Instructions)],
          nodes : SUBSET Node, messages : SUBSET Messages]
PhaseInfo == [nodes : SUBSET Node, messages : SUBSET Messages, start : Nat, end : Nat]

GeneratorTypes ==
  /\ elapsed \in Nat /\ nextId \in Nat
  /\ active \in SUBSET Node
  /\ phase # None => phase \in Phase
  /\ scripts \in [Node -> Seq(Instructions)]
  /\ phases \in Seq(PhaseInfo)

\* The elements of a concatenation.
LEMMA ConcatElements ==
  ASSUME NEW S, NEW s \in Seq(S), NEW t \in Seq(S)
  PROVE  /\ s \o t \in Seq(S) /\ Len(s \o t) = Len(s) + Len(t)
         /\ Len(s) \in Nat /\ Len(t) \in Nat
         /\ DOMAIN s = 1 .. Len(s) /\ DOMAIN t = 1 .. Len(t)
         /\ DOMAIN (s \o t) = 1 .. (Len(s) + Len(t))
         /\ \A i \in DOMAIN s : i \in DOMAIN (s \o t) /\ (s \o t)[i] = s[i]
         /\ \A i \in DOMAIN t : Len(s) + i \in DOMAIN (s \o t) /\ (s \o t)[Len(s) + i] = t[i]
         /\ \A i \in DOMAIN (s \o t) :
              \/ i \in DOMAIN s /\ (s \o t)[i] = s[i]
              \/ \E j \in DOMAIN t : i = Len(s) + j /\ (s \o t)[i] = t[j]
<1>1. /\ Len(s) \in Nat /\ Len(t) \in Nat /\ DOMAIN s = 1 .. Len(s) /\ DOMAIN t = 1 .. Len(t)
      /\ s \o t \in Seq(S) /\ Len(s \o t) = Len(s) + Len(t)
  BY LenProperties, ConcatProperties
<1>2. \A i \in 1 .. (Len(s) + Len(t)) : (s \o t)[i] = IF i <= Len(s) THEN s[i] ELSE t[i - Len(s)]
  BY ConcatProperties
<1>3. DOMAIN (s \o t) = 1 .. (Len(s) + Len(t))
  BY <1>1, LenProperties
<1> DEFINE w == s \o t
<1> HIDE DEF w
<1>4. /\ Len(s) \in Nat /\ Len(t) \in Nat /\ DOMAIN s = 1 .. Len(s) /\ DOMAIN t = 1 .. Len(t)
      /\ w \in Seq(S) /\ Len(w) = Len(s) + Len(t) /\ DOMAIN w = 1 .. (Len(s) + Len(t))
      /\ \A i \in 1 .. (Len(s) + Len(t)) : w[i] = IF i <= Len(s) THEN s[i] ELSE t[i - Len(s)]
  BY <1>1, <1>2, <1>3 DEF w
<1>5. ASSUME NEW i \in DOMAIN s PROVE i \in DOMAIN w /\ w[i] = s[i]
  BY <1>4
<1>6. ASSUME NEW i \in DOMAIN t PROVE Len(s) + i \in DOMAIN w /\ w[Len(s) + i] = t[i]
  <2>1. Len(s) + i \in 1 .. (Len(s) + Len(t)) /\ ~(Len(s) + i <= Len(s)) /\ (Len(s) + i) - Len(s) = i
    BY <1>4
  <2> QED
    BY <1>4, <2>1
<1>7. ASSUME NEW i \in DOMAIN w
      PROVE  \/ i \in DOMAIN s /\ w[i] = s[i]
             \/ \E j \in DOMAIN t : i = Len(s) + j /\ w[i] = t[j]
  <2>1. CASE i <= Len(s)
    BY <1>4, <2>1
  <2>2. CASE ~(i <= Len(s))
    <3>1. i - Len(s) \in DOMAIN t /\ i = Len(s) + (i - Len(s))
      BY <1>4, <2>2
    <3>2. w[i] = t[i - Len(s)]
      BY <1>4, <2>2
    <3> QED
      BY <3>1, <3>2
  <2> QED
    BY <2>1, <2>2
<1> QED
  BY <1>4, <1>5, <1>6, <1>7 DEF w

\* The elements of a script.
LEMMA ScriptElements ==
  ASSUME NEW s \in Seq(Instructions)
  PROVE  /\ Len(s) \in Nat /\ DOMAIN s = 1 .. Len(s)
         /\ \A i \in DOMAIN s : /\ s[i] \in Instructions /\ s[i].at \in Nat
                              /\ s[i].connect \in SUBSET Node /\ s[i].publish \in SUBSET Nat
<1>1. Len(s) \in Nat /\ DOMAIN s = 1 .. Len(s) /\ s \in [1 .. Len(s) -> Instructions]
  BY LenProperties
<1>2. \A i \in DOMAIN s : s[i] \in Instructions
  BY <1>1
<1> QED
  BY <1>1, <1>2 DEF Instructions

\* The instructions the generator writes.
LEMMA NewInstruction ==
  ASSUME NEW at \in Nat, NEW connect \in SUBSET Node, NEW publish \in SUBSET Nat
  PROVE  /\ Instruction(at, connect, publish) \in Instructions
         /\ Instruction(at, connect, publish).at = at
         /\ Instruction(at, connect, publish).connect = connect
         /\ Instruction(at, connect, publish).publish = publish
  BY DEF Instruction, Instructions

\* The times of an open phase.
LEMMA PhaseTimes ==
  ASSUME GeneratorTypes, phase # None
  PROVE  /\ phase \in Phase /\ elapsed \in Nat
         /\ MainPhaseEnd(phase) \in Nat /\ elapsed <= MainPhaseEnd(phase)
         /\ PhaseEnd(phase) \in Nat /\ MainPhaseEnd(phase) <= PhaseEnd(phase)
<1>1. phase \in Phase /\ elapsed \in Nat
  BY DEF GeneratorTypes
<1>2. phase.warmup \in Nat /\ phase.cooldown \in Nat /\ phase.duration \in Nat
  BY <1>1 DEF Phase
<1>3. MainPhaseEnd(phase) \in Nat /\ elapsed <= MainPhaseEnd(phase)
  BY <1>1, <1>2 DEF MainPhaseEnd
<1>4. PhaseEnd(phase) = MainPhaseEnd(phase) + phase.cooldown
  BY DEF PhaseEnd
<1>5. PhaseEnd(phase) \in Nat /\ MainPhaseEnd(phase) <= PhaseEnd(phase)
  BY <1>2, <1>3, <1>4
<1> QED
  BY <1>1, <1>3, <1>5

\* What ApplyPhase adds to the script of a node.
Added(n) ==
  IF n \in active THEN Append(phase.main[n], Instruction(PhaseEnd(phase), {}, {})) ELSE <<>>

\* What the steps of the generator do, in the terms of the invariants.
LEMMA SetupStep ==
  ASSUME GeneratorTypes, NEW n \in Node, NEW peers \in PeerSets, SetupNode(n, peers)
  PROVE  /\ phase = None /\ scripts[n] = <<>> /\ n \in active
         /\ scripts'[n] = <<Instruction(elapsed, peers, {})>>
         /\ Instruction(elapsed, peers, {}) \in Instructions
         /\ scripts'[n] \in Seq(Instructions) /\ Len(scripts'[n]) = 1 /\ DOMAIN scripts'[n] = {1}
         /\ scripts'[n][1] = Instruction(elapsed, peers, {})
         /\ \A p \in Node \ {n} : scripts'[p] = scripts[p]
         /\ scripts' \in [Node -> Seq(Instructions)]
         /\ UNCHANGED <<elapsed, nextId, active, ready, phase, phases>>
<1>1. Instruction(elapsed, peers, {}) \in Instructions
  BY ExperimentAssumption, NewInstruction DEF GeneratorTypes
<1>2. /\ phase = None /\ scripts[n] = <<>> /\ n \in active
      /\ scripts' = [scripts EXCEPT ![n] = Append(scripts[n], Instruction(elapsed, peers, {}))]
      /\ UNCHANGED <<elapsed, nextId, active, ready, phase, phases>>
  BY DEF SetupNode
<1>3. Append(<<>>, Instruction(elapsed, peers, {})) = <<Instruction(elapsed, peers, {})>>
  OBVIOUS
<1>4. scripts'[n] = <<Instruction(elapsed, peers, {})>> /\ \A p \in Node \ {n} : scripts'[p] = scripts[p]
  BY <1>2, <1>3 DEF GeneratorTypes
<1>5. /\ <<Instruction(elapsed, peers, {})>> \in Seq(Instructions)
      /\ Len(<<Instruction(elapsed, peers, {})>>) = 1
      /\ DOMAIN <<Instruction(elapsed, peers, {})>> = {1}
      /\ <<Instruction(elapsed, peers, {})>>[1] = Instruction(elapsed, peers, {})
  <2> DEFINE x == Instruction(elapsed, peers, {})
  <2> HIDE DEF x
  <2>1. x \in Instructions => /\ <<x>> \in Seq(Instructions) /\ Len(<<x>>) = 1
                              /\ DOMAIN <<x>> = {1} /\ <<x>>[1] = x
    OBVIOUS
  <2> QED
    BY <1>1, <2>1 DEF x
<1>6. scripts' \in [Node -> Seq(Instructions)]
  <2>1. Append(scripts[n], Instruction(elapsed, peers, {})) \in Seq(Instructions)
    BY <1>2, <1>3, <1>5
  <2> QED
    BY <1>2, <2>1 DEF GeneratorTypes
<1> QED
  BY <1>1, <1>2, <1>4, <1>5, <1>6

LEMMA NewPhaseStep ==
  ASSUME GeneratorTypes, NEW warmup \in Warmups, NEW cooldown \in Cooldowns,
         NewPhase(warmup, cooldown)
  PROVE  /\ phase = None /\ Len(phases) < MaxPhases
         /\ \A n \in active : scripts[n] # <<>>
         /\ phase' \in Phase /\ phase'.nodes = active /\ phase'.messages = {}
         /\ phase'.duration = 0 /\ phase'.warmup = warmup /\ warmup \in Nat
         /\ \A n \in Node : phase'.main[n] = <<>>
         /\ UNCHANGED <<elapsed, nextId, active, ready, scripts, phases>>
<1>1. warmup \in Nat /\ cooldown \in Nat
  BY ExperimentAssumption
<1>2. [n \in Node |-> <<>>] \in [Node -> Seq(Instructions)]
  OBVIOUS
<1>3. active \in SUBSET Node
  BY DEF GeneratorTypes
<1>4. phase' = [warmup |-> warmup, cooldown |-> cooldown, duration |-> 0,
                main |-> [n \in Node |-> <<>>], nodes |-> active, messages |-> {}]
  BY DEF NewPhase
<1>5. phase' \in Phase
  BY <1>1, <1>2, <1>3, <1>4 DEF Phase
<1> QED
  BY <1>1, <1>4, <1>5 DEF NewPhase

LEMMA AddMessageStep ==
  ASSUME GeneratorTypes, NEW delay \in Delays, NEW n \in Node, AddMessage(delay, n)
  PROVE  /\ phase # None /\ phase \in Phase /\ n \in phase.nodes /\ nextId < MaxMessages
         /\ delay \in Nat /\ phase' \in Phase
         /\ LET time == MainPhaseEnd(phase) + delay
                x == Instruction(time, {}, {nextId})
                m == [id |-> nextId, source |-> n, time |-> time]
            IN /\ time \in Nat /\ x \in Instructions /\ m \in Messages
               /\ x.at = time /\ x.connect = {} /\ x.publish = {nextId}
               /\ phase'.main[n] = Append(phase.main[n], x)
               /\ phase'.messages = phase.messages \cup {m}
         /\ \A p \in Node \ {n} : phase'.main[p] = phase.main[p]
         /\ phase'.warmup = phase.warmup /\ phase'.duration = phase.duration + delay
         /\ phase'.nodes = phase.nodes
         /\ nextId' = nextId + 1
         /\ UNCHANGED <<elapsed, active, ready, scripts, phases>>
<1> DEFINE time == MainPhaseEnd(phase) + delay
           x == Instruction(time, {}, {nextId})
           m == [id |-> nextId, source |-> n, time |-> time]
<1>1. /\ phase # None /\ phase \in Phase /\ n \in phase.nodes /\ nextId < MaxMessages
      /\ nextId \in Nat /\ nextId' = nextId + 1
      /\ UNCHANGED <<elapsed, active, ready, scripts, phases>>
  BY DEF AddMessage, GeneratorTypes
<1>2. delay \in Nat /\ time \in Nat
  BY <1>1, ExperimentAssumption, PhaseTimes
<1>3. x \in Instructions /\ x.at = time /\ x.connect = {} /\ x.publish = {nextId}
  BY <1>1, <1>2, NewInstruction
<1>4. m \in Messages
  BY <1>1, <1>2 DEF Messages
<1>5. phase' = [phase EXCEPT !.duration = phase.duration + delay,
                             !.main[n] = Append(phase.main[n], x),
                             !.messages = phase.messages \cup {m}]
  BY DEF AddMessage
<1> HIDE DEF x, m, time
<1>6. /\ phase.main \in [Node -> Seq(Instructions)] /\ phase.messages \in SUBSET Messages
      /\ phase.duration \in Nat /\ phase.warmup \in Nat /\ phase.cooldown \in Nat
      /\ phase.nodes \in SUBSET Node
  BY <1>1 DEF Phase
<1>7. Append(phase.main[n], x) \in Seq(Instructions) /\ phase.duration + delay \in Nat
  BY <1>2, <1>3, <1>6
<1>8. /\ phase' \in Phase
      /\ phase'.main[n] = Append(phase.main[n], x)
      /\ \A p \in Node \ {n} : phase'.main[p] = phase.main[p]
      /\ phase'.messages = phase.messages \cup {m}
      /\ phase'.warmup = phase.warmup /\ phase'.duration = phase.duration + delay
      /\ phase'.nodes = phase.nodes
  BY <1>1, <1>4, <1>5, <1>6, <1>7 DEF Phase
<1> QED
  BY <1>1, <1>2, <1>3, <1>4, <1>8 DEF x, m, time

LEMMA ApplyStep ==
  ASSUME GeneratorTypes, ApplyPhase
  PROVE  /\ phase # None /\ phase \in Phase /\ phase' = None
         /\ \A n \in Node : /\ Added(n) \in Seq(Instructions)
                            /\ scripts'[n] = scripts[n] \o Added(n)
         /\ scripts' \in [Node -> Seq(Instructions)]
         /\ Info(phase) \in PhaseInfo /\ phases' = Append(phases, Info(phase))
         /\ elapsed' = PhaseEnd(phase)
         /\ UNCHANGED <<nextId, active, ready>>
<1> DEFINE x == Instruction(PhaseEnd(phase), {}, {})
<1>1. /\ phase # None /\ phase' = None
      /\ scripts' = [n \in Node |-> IF n \in active THEN scripts[n] \o Append(phase.main[n], x)
                                                    ELSE scripts[n]]
      /\ phases' = Append(phases, Info(phase))
      /\ elapsed' = PhaseEnd(phase)
      /\ UNCHANGED <<nextId, active, ready>>
  BY DEF ApplyPhase
<1>2. phase \in Phase /\ PhaseEnd(phase) \in Nat /\ elapsed \in Nat
  BY <1>1, PhaseTimes
<1>3. x \in Instructions
  BY <1>2, NewInstruction
<1> HIDE DEF x
<1>4. ASSUME NEW n \in Node
      PROVE  /\ Added(n) \in Seq(Instructions)
             /\ scripts'[n] = scripts[n] \o Added(n) /\ scripts'[n] \in Seq(Instructions)
  <2>1. phase.main[n] \in Seq(Instructions) /\ scripts[n] \in Seq(Instructions)
    BY <1>2 DEF Phase, GeneratorTypes
  <2>2. CASE n \in active
    <3>1. Added(n) = Append(phase.main[n], x)
      BY <2>2 DEF Added, x
    <3>2. Added(n) \in Seq(Instructions)
      BY <1>3, <2>1, <3>1
    <3>3. scripts'[n] = scripts[n] \o Added(n)
      BY <1>1, <2>2, <3>1
    <3> QED
      BY <2>1, <3>2, <3>3, ConcatElements
  <2>3. CASE n \notin active
    <3>1. Added(n) = <<>>
      BY <2>3 DEF Added
    <3>2. scripts[n] \o <<>> = scripts[n]
      BY <2>1, ConcatEmptySeq
    <3> QED
      BY <1>1, <2>1, <2>3, <3>1, <3>2
  <2> QED
    BY <2>2, <2>3
<1>5. scripts' \in [Node -> Seq(Instructions)]
  BY <1>1, <1>4
<1>6. Info(phase) \in PhaseInfo
  BY <1>2 DEF Info, PhaseInfo, Phase
<1> QED
  BY <1>1, <1>2, <1>4, <1>5, <1>6

\* The generator keeps its types.
LEMMA GeneratorTypesStep ==
  ASSUME GeneratorTypes, Generate
  PROVE  GeneratorTypes'
<1>1. ASSUME NEW n \in Node, ActivateNode(n) \/ DeactivateNode(n)
      PROVE  GeneratorTypes'
  BY <1>1 DEF GeneratorTypes, ActivateNode, DeactivateNode
<1>2. ASSUME NEW n \in Node, NEW peers \in PeerSets, SetupNode(n, peers)
      PROVE  GeneratorTypes'
  BY <1>2, SetupStep DEF GeneratorTypes
<1>3. ASSUME NEW warmup \in Warmups, NEW cooldown \in Cooldowns, NewPhase(warmup, cooldown)
      PROVE  GeneratorTypes'
  BY <1>3, NewPhaseStep DEF GeneratorTypes
<1>4. ASSUME NEW delay \in Delays, NEW n \in Node, AddMessage(delay, n)
      PROVE  GeneratorTypes'
  <2>1. phase' \in Phase /\ nextId' = nextId + 1
    BY <1>4, AddMessageStep
  <2>2. UNCHANGED <<elapsed, active, ready, scripts, phases>>
    BY <1>4 DEF AddMessage
  <2> QED
    BY <2>1, <2>2 DEF GeneratorTypes
<1>5. ASSUME ApplyPhase PROVE GeneratorTypes'
  <2>1. elapsed' \in Nat
    BY <1>5, ApplyStep, PhaseTimes
  <2>2. phases' \in Seq(PhaseInfo)
    <3>1. Info(phase) \in PhaseInfo /\ phases' = Append(phases, Info(phase)) /\ phases \in Seq(PhaseInfo)
      BY <1>5, ApplyStep DEF GeneratorTypes
    <3> QED
      BY <3>1, AppendProperties
  <2> QED
    BY <1>5, <2>1, <2>2, ApplyStep DEF GeneratorTypes
<1> QED
  BY <1>1, <1>2, <1>3, <1>4, <1>5 DEF Generate

-----------------------------------------------------------------------------
(* The times of the instructions.                                          *)

Timed(s, from, to) == \A i \in DOMAIN s : from <= s[i].at /\ s[i].at <= to
Sorted(s) == \A i, j \in DOMAIN s : i < j => s[i].at <= s[j].at

\* The scripts end where the experiment has got to; an open phase goes on
\* from there.
Times ==
  /\ \A n \in Node : Timed(scripts[n], 0, elapsed) /\ Sorted(scripts[n])
  /\ phase # None => \A n \in Node :
       Timed(phase.main[n], elapsed, MainPhaseEnd(phase)) /\ Sorted(phase.main[n])

LEMMA ConcatInOrder ==
  ASSUME NEW s \in Seq(Instructions), NEW t \in Seq(Instructions),
         NEW from \in Nat, NEW mid \in Nat, NEW to \in Nat, from <= mid, mid <= to,
         Timed(s, from, mid), Sorted(s), Timed(t, mid, to), Sorted(t)
  PROVE  Timed(s \o t, from, to) /\ Sorted(s \o t)
<1> DEFINE w == s \o t
<1>1. /\ Len(s) \in Nat /\ DOMAIN s = 1 .. Len(s) /\ DOMAIN t = 1 .. Len(t)
      /\ \A i \in DOMAIN w : \/ i \in DOMAIN s /\ w[i] = s[i]
                             \/ \E j \in DOMAIN t : i = Len(s) + j /\ w[i] = t[j]
  BY ConcatElements
<1>2. (\A i \in DOMAIN s : s[i].at \in Nat) /\ (\A i \in DOMAIN t : t[i].at \in Nat)
  BY ScriptElements
<1> HIDE DEF w
<1>3. ASSUME NEW i \in DOMAIN w PROVE from <= w[i].at /\ w[i].at <= to
  <2>1. CASE i \in DOMAIN s /\ w[i] = s[i]
    <3>1. from <= s[i].at /\ s[i].at <= mid /\ s[i].at \in Nat
      BY <1>2, <2>1 DEF Timed
    <3> QED
      BY <2>1, <3>1
  <2>2. ASSUME NEW j \in DOMAIN t, w[i] = t[j] PROVE from <= w[i].at /\ w[i].at <= to
    <3>1. mid <= t[j].at /\ t[j].at <= to /\ t[j].at \in Nat
      BY <1>2 DEF Timed
    <3> QED
      BY <2>2, <3>1
  <2> QED
    BY <1>1, <2>1, <2>2
<1>4. ASSUME NEW i \in DOMAIN w, NEW j \in DOMAIN w, i < j PROVE w[i].at <= w[j].at
  <2>1. CASE j \in DOMAIN s /\ w[j] = s[j]
    <3>1. i \in DOMAIN s /\ w[i] = s[i]
      BY <1>1, <1>4, <2>1
    <3> QED
      BY <1>4, <2>1, <3>1 DEF Sorted
  <2>2. ASSUME NEW b \in DOMAIN t, j = Len(s) + b, w[j] = t[b] PROVE w[i].at <= w[j].at
    <3>1. mid <= t[b].at /\ t[b].at \in Nat
      BY <1>2 DEF Timed
    <3>2. CASE i \in DOMAIN s /\ w[i] = s[i]
      <4>1. s[i].at <= mid /\ s[i].at \in Nat
        BY <1>2, <3>2 DEF Timed
      <4> QED
        BY <2>2, <3>1, <3>2, <4>1
    <3>3. ASSUME NEW a \in DOMAIN t, i = Len(s) + a, w[i] = t[a] PROVE w[i].at <= w[j].at
      <4>1. a < b
        BY <1>1, <1>4, <2>2, <3>3
      <4> QED
        BY <2>2, <3>3, <4>1 DEF Sorted
    <3> QED
      BY <1>1, <3>2, <3>3
  <2> QED
    BY <1>1, <2>1, <2>2
<1>5. Timed(w, from, to) /\ Sorted(w)
  BY <1>3, <1>4 DEF Timed, Sorted
<1> QED
  BY <1>5 DEF w

LEMMA AppendInOrder ==
  ASSUME NEW s \in Seq(Instructions), NEW x \in Instructions,
         NEW from \in Nat, NEW mid \in Nat, from <= mid, mid <= x.at,
         Timed(s, from, mid), Sorted(s)
  PROVE  Timed(Append(s, x), from, x.at) /\ Sorted(Append(s, x))
<1> DEFINE w == Append(s, x)
<1>1. /\ Len(s) \in Nat /\ DOMAIN s = 1 .. Len(s) /\ DOMAIN w = 1 .. (Len(s) + 1)
      /\ w[Len(s) + 1] = x /\ \A i \in DOMAIN s : w[i] = s[i]
  BY LenProperties, AppendProperties
<1>2. x.at \in Nat /\ \A i \in DOMAIN s : s[i].at \in Nat
  BY ScriptElements DEF Instructions
<1> HIDE DEF w
<1>3. \A i \in DOMAIN s : from <= w[i].at /\ w[i].at <= x.at
  <2>1. ASSUME NEW i \in DOMAIN s PROVE from <= w[i].at /\ w[i].at <= x.at
    <3>1. from <= s[i].at /\ s[i].at <= mid
      BY DEF Timed
    <3> QED
      BY <1>1, <1>2, <3>1
  <2> QED
    BY <2>1
<1>4. \A i \in DOMAIN w : i \in DOMAIN s \/ i = Len(s) + 1
  BY <1>1
<1>5. from <= x.at /\ x.at <= x.at
  BY <1>2
<1>6. Timed(w, from, x.at)
  BY <1>1, <1>3, <1>4, <1>5 DEF Timed
<1>7. ASSUME NEW i \in DOMAIN w, NEW j \in DOMAIN w, i < j PROVE w[i].at <= w[j].at
  <2>1. i \in DOMAIN s
    BY <1>1, <1>7
  <2>2. CASE j \in DOMAIN s
    BY <1>1, <1>7, <2>1, <2>2 DEF Sorted
  <2>3. CASE j = Len(s) + 1
    BY <1>1, <1>3, <2>1, <2>3
  <2> QED
    BY <1>4, <2>2, <2>3
<1>8. Sorted(w)
  BY <1>7 DEF Sorted
<1> QED
  BY <1>6, <1>8 DEF w

\* What a phase adds to a script begins at its start and stops at its end.
LEMMA AddedInOrder ==
  ASSUME GeneratorTypes, Times, ApplyPhase, NEW n \in Node
  PROVE  Timed(Added(n), elapsed, PhaseEnd(phase)) /\ Sorted(Added(n))
<1>1. CASE n \notin active
  BY <1>1 DEF Added, Timed, Sorted
<1>2. CASE n \in active
  <2> DEFINE x == Instruction(PhaseEnd(phase), {}, {})
             mid == MainPhaseEnd(phase)
  <2>1. phase # None /\ phase \in Phase
    BY ApplyStep
  <2>2. elapsed \in Nat /\ mid \in Nat /\ elapsed <= mid /\ PhaseEnd(phase) \in Nat /\ mid <= PhaseEnd(phase)
    BY <2>1, PhaseTimes
  <2>3. x \in Instructions /\ x.at = PhaseEnd(phase)
    BY <2>2, NewInstruction
  <2>4. phase.main[n] \in Seq(Instructions)
    BY <2>1 DEF Phase
  <2>5. Timed(phase.main[n], elapsed, mid) /\ Sorted(phase.main[n])
    BY <2>1 DEF Times
  <2>6. Added(n) = Append(phase.main[n], x)
    BY <1>2 DEF Added
  <2> HIDE DEF x, mid
  <2>7. Timed(Append(phase.main[n], x), elapsed, x.at) /\ Sorted(Append(phase.main[n], x))
    BY <2>2, <2>3, <2>4, <2>5, AppendInOrder
  <2> QED
    BY <2>3, <2>6, <2>7
<1> QED
  BY <1>1, <1>2

LEMMA TimesStep ==
  ASSUME GeneratorTypes, Times, Generate
  PROVE  Times'
<1>1. ASSUME NEW n \in Node, ActivateNode(n) \/ DeactivateNode(n)
      PROVE  Times'
  BY <1>1 DEF Times, ActivateNode, DeactivateNode, MainPhaseEnd
<1>2. ASSUME NEW n \in Node, NEW peers \in PeerSets, SetupNode(n, peers)
      PROVE  Times'
  <2> DEFINE x == Instruction(elapsed, peers, {})
  <2>1. /\ phase' = None /\ elapsed' = elapsed
        /\ DOMAIN scripts'[n] = {1} /\ scripts'[n][1] = x /\ x \in Instructions
        /\ \A p \in Node \ {n} : scripts'[p] = scripts[p]
    BY <1>2, SetupStep
  <2>2. x.at = elapsed /\ elapsed \in Nat
    BY DEF Instruction, GeneratorTypes
  <2> HIDE DEF x
  <2>3. Timed(scripts'[n], 0, elapsed) /\ Sorted(scripts'[n])
    BY <2>1, <2>2 DEF Timed, Sorted
  <2> QED
    BY <2>1, <2>3 DEF Times
<1>3. ASSUME NEW warmup \in Warmups, NEW cooldown \in Cooldowns, NewPhase(warmup, cooldown)
      PROVE  Times'
  <2>1. /\ \A n \in Node : phase'.main[n] = <<>>
        /\ elapsed' = elapsed /\ scripts' = scripts
    BY <1>3, NewPhaseStep
  <2>2. \A from, to : Timed(<<>>, from, to) /\ Sorted(<<>>)
    BY DEF Timed, Sorted
  <2>3. \A n \in Node : Timed(phase'.main[n], elapsed', MainPhaseEnd(phase)') /\ Sorted(phase'.main[n])
    BY <2>1, <2>2
  <2> QED
    BY <2>1, <2>3 DEF Times
<1>4. ASSUME NEW delay \in Delays, NEW n \in Node, AddMessage(delay, n)
      PROVE  Times'
  <2> DEFINE mid == MainPhaseEnd(phase)
             x == Instruction(mid + delay, {}, {nextId})
  <2>1. /\ phase # None /\ phase \in Phase /\ delay \in Nat
        /\ x \in Instructions /\ x.at = mid + delay
        /\ phase'.main[n] = Append(phase.main[n], x)
        /\ \A p \in Node \ {n} : phase'.main[p] = phase.main[p]
        /\ phase'.warmup = phase.warmup /\ phase'.duration = phase.duration + delay
        /\ elapsed' = elapsed /\ scripts' = scripts
    BY <1>4, AddMessageStep
  <2>2. elapsed \in Nat /\ mid \in Nat /\ elapsed <= mid
    BY <2>1, PhaseTimes
  <2>3. MainPhaseEnd(phase)' = mid + delay
    <3>1. phase.warmup \in Nat /\ phase.duration \in Nat
      BY <2>1 DEF Phase
    <3> QED
      BY <2>1, <2>2, <3>1 DEF MainPhaseEnd
  <2>4. \A p \in Node : /\ phase.main[p] \in Seq(Instructions)
                        /\ Timed(phase.main[p], elapsed, mid) /\ Sorted(phase.main[p])
    BY <2>1 DEF Times, Phase
  <2> HIDE DEF mid, x
  <2>5. Timed(Append(phase.main[n], x), elapsed, x.at) /\ Sorted(Append(phase.main[n], x))
    <3>1. mid <= x.at
      BY <2>1, <2>2
    <3> QED
      BY <2>1, <2>2, <2>4, <3>1, AppendInOrder
  <2>6. ASSUME NEW p \in Node
        PROVE  Timed(phase'.main[p], elapsed, mid + delay) /\ Sorted(phase'.main[p])
    <3>1. CASE p = n
      BY <2>1, <2>5, <3>1
    <3>2. CASE p # n
      <4>1. phase'.main[p] = phase.main[p]
        BY <2>1, <3>2
      <4>2. \A i \in DOMAIN phase.main[p] : phase.main[p][i].at \in Nat
        BY <2>4, ScriptElements
      <4>3. Timed(phase.main[p], elapsed, mid + delay)
        BY <2>1, <2>2, <2>4, <4>2 DEF Timed
      <4> QED
        BY <2>4, <4>1, <4>3
    <3> QED
      BY <3>1, <3>2
  <2> QED
    BY <2>1, <2>3, <2>6 DEF Times
<1>5. ASSUME ApplyPhase PROVE Times'
  <2>1. /\ phase # None /\ phase' = None /\ elapsed' = PhaseEnd(phase)
        /\ \A n \in Node : Added(n) \in Seq(Instructions) /\ scripts'[n] = scripts[n] \o Added(n)
    BY <1>5, ApplyStep
  <2>2. elapsed \in Nat /\ PhaseEnd(phase) \in Nat /\ elapsed <= PhaseEnd(phase)
    <3>1. /\ elapsed \in Nat /\ MainPhaseEnd(phase) \in Nat /\ elapsed <= MainPhaseEnd(phase)
          /\ PhaseEnd(phase) \in Nat /\ MainPhaseEnd(phase) <= PhaseEnd(phase)
      BY <2>1, PhaseTimes
    <3> QED
      BY <3>1
  <2>3. ASSUME NEW n \in Node
        PROVE  Timed(scripts'[n], 0, elapsed') /\ Sorted(scripts'[n])
    <3>1. scripts[n] \in Seq(Instructions) /\ Timed(scripts[n], 0, elapsed) /\ Sorted(scripts[n])
      BY DEF GeneratorTypes, Times
    <3>2. Timed(Added(n), elapsed, PhaseEnd(phase)) /\ Sorted(Added(n)) /\ Added(n) \in Seq(Instructions)
      BY <1>5, <2>1, AddedInOrder
    <3>3. 0 \in Nat /\ 0 <= elapsed
      BY <2>2
    <3> DEFINE end == PhaseEnd(phase)
               t == Added(n)
    <3> HIDE DEF end, t
    <3>4. Timed(scripts[n] \o t, 0, end) /\ Sorted(scripts[n] \o t)
      BY <2>2, <3>1, <3>2, <3>3, ConcatInOrder DEF end, t
    <3> QED
      BY <2>1, <3>4 DEF end, t
  <2> QED
    BY <2>1, <2>3 DEF Times
<1> QED
  BY <1>1, <1>2, <1>3, <1>4, <1>5 DEF Generate

-----------------------------------------------------------------------------
(* The open phase and the phases that were applied.                        *)

\* A phase is applied to the nodes it was opened with, and there is room
\* for it.
Open ==
  phase # None =>
    /\ phase.nodes = active
    /\ \A n \in Node : phase.main[n] # <<>> => n \in phase.nodes
    /\ \A n \in active : scripts[n] # <<>>
    /\ Len(phases) < MaxPhases

LEMMA OpenStep ==
  ASSUME GeneratorTypes, Open, Generate
  PROVE  Open'
<1>1. ASSUME NEW n \in Node, ActivateNode(n) \/ DeactivateNode(n)
      PROVE  Open'
  BY <1>1 DEF Open, ActivateNode, DeactivateNode
<1>2. ASSUME NEW n \in Node, NEW peers \in PeerSets, SetupNode(n, peers)
      PROVE  Open'
  BY <1>2 DEF Open, SetupNode
<1>3. ASSUME NEW warmup \in Warmups, NEW cooldown \in Cooldowns, NewPhase(warmup, cooldown)
      PROVE  Open'
  BY <1>3, NewPhaseStep DEF Open
<1>4. ASSUME NEW delay \in Delays, NEW n \in Node, AddMessage(delay, n)
      PROVE  Open'
  <2>1. /\ phase # None /\ n \in phase.nodes /\ phase'.nodes = phase.nodes
        /\ \A p \in Node \ {n} : phase'.main[p] = phase.main[p]
        /\ UNCHANGED <<active, scripts, phases>>
    BY <1>4, AddMessageStep
  <2> QED
    BY <2>1 DEF Open
<1>5. ASSUME ApplyPhase PROVE Open'
  BY <1>5, ApplyStep DEF Open
<1> QED
  BY <1>1, <1>2, <1>3, <1>4, <1>5 DEF Generate

\* A script has an instruction for its set-up, for each phase and for each
\* message of its node.
Lengths ==
  /\ Len(phases) <= MaxPhases /\ nextId <= MaxMessages
  /\ \A n \in Node : Len(scripts[n]) <= 1 + Len(phases) + nextId
  /\ phase # None => \A n \in Node : Len(scripts[n]) + Len(phase.main[n]) <= 1 + Len(phases) + nextId

LEMMA LengthsStep ==
  ASSUME GeneratorTypes, Open, Lengths, Generate
  PROVE  Lengths'
<1>0. /\ MaxPhases \in Nat /\ MaxMessages \in Nat /\ nextId \in Nat /\ Len(phases) \in Nat
      /\ \A n \in Node : Len(scripts[n]) \in Nat
      /\ phase # None => \A n \in Node : phase.main[n] \in Seq(Instructions) /\ Len(phase.main[n]) \in Nat
  <2>1. MaxPhases \in Nat /\ MaxMessages \in Nat /\ nextId \in Nat
    BY ExperimentAssumption DEF GeneratorTypes
  <2>2. phases \in Seq(PhaseInfo) /\ \A n \in Node : scripts[n] \in Seq(Instructions)
    BY DEF GeneratorTypes
  <2>3. phase # None => \A n \in Node : phase.main[n] \in Seq(Instructions)
    BY DEF GeneratorTypes, Phase
  <2> QED
    BY <2>1, <2>2, <2>3, LenProperties
<1>1. ASSUME NEW n \in Node, ActivateNode(n) \/ DeactivateNode(n)
      PROVE  Lengths'
  BY <1>1 DEF Lengths, ActivateNode, DeactivateNode
<1>2. ASSUME NEW n \in Node, NEW peers \in PeerSets, SetupNode(n, peers)
      PROVE  Lengths'
  <2>1. /\ Len(scripts'[n]) = 1 /\ \A p \in Node \ {n} : scripts'[p] = scripts[p]
        /\ phase' = None /\ phases' = phases /\ nextId' = nextId
    BY <1>2, SetupStep
  <2>2. 1 <= 1 + Len(phases) + nextId
    BY <1>0
  <2> QED
    BY <2>1, <2>2 DEF Lengths
<1>3. ASSUME NEW warmup \in Warmups, NEW cooldown \in Cooldowns, NewPhase(warmup, cooldown)
      PROVE  Lengths'
  <2>1. /\ \A n \in Node : phase'.main[n] = <<>>
        /\ scripts' = scripts /\ phases' = phases /\ nextId' = nextId
    BY <1>3, NewPhaseStep
  <2>2. Len(<<>>) = 0 /\ \A n \in Node : Len(scripts[n]) + 0 = Len(scripts[n])
    BY <1>0
  <2> QED
    BY <2>1, <2>2 DEF Lengths
<1>4. ASSUME NEW delay \in Delays, NEW n \in Node, AddMessage(delay, n)
      PROVE  Lengths'
  <2>1. PICK x : phase'.main[n] = Append(phase.main[n], x)
    BY <1>4, AddMessageStep
  <2>2. /\ phase # None /\ nextId < MaxMessages /\ nextId' = nextId + 1
        /\ \A p \in Node \ {n} : phase'.main[p] = phase.main[p]
        /\ scripts' = scripts /\ phases' = phases
    BY <1>4, AddMessageStep
  <2>3. Len(phase'.main[n]) = Len(phase.main[n]) + 1
    <3>1. phase.main[n] \in Seq(Instructions)
      BY <1>0, <2>2
    <3> QED
      BY <2>1, <3>1
  <2>4. nextId' <= MaxMessages /\ Len(phases') <= MaxPhases
    BY <1>0, <2>2 DEF Lengths
  <2>5. ASSUME NEW p \in Node
        PROVE  /\ Len(scripts'[p]) <= 1 + Len(phases') + nextId'
               /\ Len(scripts'[p]) + Len(phase'.main[p]) <= 1 + Len(phases') + nextId'
    <3>1. /\ Len(scripts[p]) <= 1 + Len(phases) + nextId
          /\ Len(scripts[p]) + Len(phase.main[p]) <= 1 + Len(phases) + nextId
      BY <2>2 DEF Lengths
    <3>2. Len(phase'.main[p]) \in {Len(phase.main[p]), Len(phase.main[p]) + 1}
      BY <2>2, <2>3
    <3> DEFINE a == Len(scripts[p])
               b == Len(phase.main[p])
               c == Len(phases)
    <3>3. a \in Nat /\ b \in Nat /\ c \in Nat /\ nextId \in Nat
      BY <1>0, <2>2
    <3>4. /\ a <= 1 + c + nextId /\ a + b <= 1 + c + nextId
          /\ Len(phase'.main[p]) \in {b, b + 1} /\ nextId' = nextId + 1
          /\ Len(scripts'[p]) = a /\ Len(phases') = c
      BY <2>2, <3>1, <3>2
    <3> HIDE DEF a, b, c
    <3>5. a <= 1 + c + (nextId + 1) /\ a + b <= 1 + c + (nextId + 1) /\ a + (b + 1) <= 1 + c + (nextId + 1)
      BY <3>3, <3>4
    <3> QED
      BY <3>4, <3>5
  <2> QED
    BY <2>4, <2>5 DEF Lengths
<1>5. ASSUME ApplyPhase PROVE Lengths'
  <2>1. /\ phase # None /\ phase' = None /\ nextId' = nextId
        /\ phases' = Append(phases, Info(phase)) /\ Info(phase) \in PhaseInfo
        /\ \A n \in Node : Added(n) \in Seq(Instructions) /\ scripts'[n] = scripts[n] \o Added(n)
    BY <1>5, ApplyStep
  <2>2. Len(phases') = Len(phases) + 1
    <3>1. phases \in Seq(PhaseInfo)
      BY DEF GeneratorTypes
    <3> QED
      BY <2>1, <3>1, AppendProperties
  <2>3. Len(phases') <= MaxPhases
    BY <1>0, <2>1, <2>2 DEF Open
  <2>4. ASSUME NEW n \in Node
        PROVE  Len(scripts'[n]) <= 1 + Len(phases') + nextId
    <3>1. Len(scripts[n]) + Len(phase.main[n]) <= 1 + Len(phases) + nextId
      BY <2>1 DEF Lengths
    <3>2. Len(Added(n)) <= Len(phase.main[n]) + 1 /\ Len(Added(n)) \in Nat
      <4>1. phase.main[n] \in Seq(Instructions) /\ Len(phase.main[n]) \in Nat
        BY <1>0, <2>1
      <4>2. CASE n \in active
        <5>1. Len(Added(n)) = Len(phase.main[n]) + 1
          BY <4>1, <4>2 DEF Added
        <5> QED
          BY <4>1, <5>1
      <4>3. CASE n \notin active
        <5>1. Len(Added(n)) = 0
          BY <4>3 DEF Added
        <5> QED
          BY <4>1, <5>1
      <4> QED
        BY <4>2, <4>3
    <3>3. Len(scripts'[n]) = Len(scripts[n]) + Len(Added(n))
      <4>1. scripts[n] \in Seq(Instructions) /\ Added(n) \in Seq(Instructions)
        BY <2>1 DEF GeneratorTypes
      <4>2. Len(scripts[n] \o Added(n)) = Len(scripts[n]) + Len(Added(n))
        BY <4>1, ConcatElements
      <4> QED
        BY <2>1, <4>2
    <3>4. Len(scripts[n]) \in Nat /\ Len(phase.main[n]) \in Nat
      BY <1>0, <2>1
    <3> QED
      <4> DEFINE a == Len(scripts[n])
                 b == Len(phase.main[n])
                 c == Len(phases)
                 d == Len(Added(n))
      <4>1. /\ a \in Nat /\ b \in Nat /\ c \in Nat /\ d \in Nat /\ nextId \in Nat
            /\ a + b <= 1 + c + nextId /\ d <= b + 1
            /\ Len(scripts'[n]) = a + d /\ Len(phases') = c + 1
        BY <1>0, <2>2, <3>1, <3>2, <3>3, <3>4
      <4> HIDE DEF a, b, c, d
      <4> QED
        BY <4>1
  <2> QED
    BY <2>1, <2>3, <2>4 DEF Lengths
<1> QED
  BY <1>1, <1>2, <1>3, <1>4, <1>5 DEF Generate

\* The instruction that holds the nodes of a phase until its end.
Hold == Instruction(PhaseEnd(phase), {}, {})

\* The scripts after a phase: what they had, what the phase has for them, and
\* the instruction that holds them.
LEMMA ApplyElements ==
  ASSUME GeneratorTypes, Open, ApplyPhase, NEW n \in Node
  PROVE  /\ Hold.connect = {} /\ Hold.publish = {} /\ Hold.at = PhaseEnd(phase)
         /\ \A i \in DOMAIN scripts[n] :
              i \in DOMAIN scripts'[n] /\ scripts'[n][i] = scripts[n][i]
         /\ \A j \in DOMAIN phase.main[n] :
              /\ Len(scripts[n]) + j \in DOMAIN scripts'[n]
              /\ scripts'[n][Len(scripts[n]) + j] = phase.main[n][j]
         /\ n \in active => \E i \in DOMAIN scripts'[n] : scripts'[n][i] = Hold
         /\ \A i \in DOMAIN scripts'[n] :
              \/ i \in DOMAIN scripts[n] /\ scripts'[n][i] = scripts[n][i]
              \/ \E j \in DOMAIN phase.main[n] :
                   i = Len(scripts[n]) + j /\ scripts'[n][i] = phase.main[n][j]
              \/ i \notin DOMAIN scripts[n] /\ scripts'[n][i] = Hold
<1> DEFINE s == scripts[n]
           q == phase.main[n]
           t == Added(n)
           w == scripts'[n]
<1>1. phase # None /\ phase \in Phase /\ t \in Seq(Instructions) /\ w = s \o t
  BY ApplyStep
<1>2. s \in Seq(Instructions) /\ q \in Seq(Instructions)
  BY <1>1 DEF GeneratorTypes, Phase
<1>3. Hold \in Instructions /\ Hold.connect = {} /\ Hold.publish = {} /\ Hold.at = PhaseEnd(phase)
  <2>1. PhaseEnd(phase) \in Nat
    BY <1>1, PhaseTimes
  <2> QED
    BY <2>1, NewInstruction DEF Hold
<1>4. n \in active => t = Append(q, Hold)
  BY DEF Added, Hold
<1>5. n \notin active => t = <<>> /\ q = <<>>
  BY <1>1 DEF Added, Open
<1> HIDE DEF s, q, t, w
<1>6. /\ Len(s) \in Nat /\ DOMAIN s = 1 .. Len(s) /\ DOMAIN t = 1 .. Len(t)
      /\ \A i \in DOMAIN s : i \in DOMAIN w /\ w[i] = s[i]
      /\ \A i \in DOMAIN t : Len(s) + i \in DOMAIN w /\ w[Len(s) + i] = t[i]
      /\ \A i \in DOMAIN w : \/ i \in DOMAIN s /\ w[i] = s[i]
                             \/ \E j \in DOMAIN t : i = Len(s) + j /\ w[i] = t[j]
  BY <1>1, <1>2, ConcatElements
<1>7. /\ \A j \in DOMAIN q : j \in DOMAIN t /\ t[j] = q[j]
      /\ n \in active => \E j \in DOMAIN t : t[j] = Hold
      /\ \A j \in DOMAIN t : (j \in DOMAIN q /\ t[j] = q[j]) \/ t[j] = Hold
  <2>1. CASE n \in active
    <3>1. /\ Len(q) \in Nat /\ DOMAIN q = 1 .. Len(q) /\ DOMAIN t = 1 .. (Len(q) + 1)
          /\ t[Len(q) + 1] = Hold /\ \A i \in DOMAIN q : t[i] = q[i]
      BY <1>2, <1>3, <1>4, <2>1, LenProperties, AppendProperties
    <3>2. \A j \in DOMAIN t : j \in DOMAIN q \/ j = Len(q) + 1
      BY <3>1
    <3>3. Len(q) + 1 \in DOMAIN t
      BY <3>1
    <3> QED
      BY <3>1, <3>2, <3>3
  <2>2. CASE n \notin active
    BY <1>5, <2>2
  <2> QED
    BY <2>1, <2>2
<1>8. \A j \in DOMAIN q : Len(s) + j \in DOMAIN w /\ w[Len(s) + j] = q[j]
  BY <1>6, <1>7
<1>9. n \in active => \E i \in DOMAIN w : w[i] = Hold
  BY <1>6, <1>7
<1>10. ASSUME NEW i \in DOMAIN w
       PROVE  \/ i \in DOMAIN s /\ w[i] = s[i]
              \/ \E j \in DOMAIN q : i = Len(s) + j /\ w[i] = q[j]
              \/ i \notin DOMAIN s /\ w[i] = Hold
  <2>1. ASSUME NEW j \in DOMAIN t, i = Len(s) + j PROVE i \notin DOMAIN s
    BY <1>6, <2>1
  <2> QED
    BY <1>6, <1>7, <2>1
<1> QED
  BY <1>3, <1>6, <1>8, <1>9, <1>10 DEF s, q, t, w

\* The instructions of a phase after a message is added to it.
LEMMA AddElements ==
  ASSUME GeneratorTypes, NEW delay \in Delays, NEW n \in Node, AddMessage(delay, n)
  PROVE  \E e \in Nat, x \in Instructions :
           /\ e \notin DOMAIN phase.main[n] /\ DOMAIN phase'.main[n] = DOMAIN phase.main[n] \cup {e}
           /\ phase'.main[n][e] = x
           /\ x.connect = {} /\ x.publish = {nextId} /\ x.at = MainPhaseEnd(phase) + delay
           /\ \A i \in DOMAIN phase.main[n] : phase'.main[n][i] = phase.main[n][i]
<1> DEFINE x == Instruction(MainPhaseEnd(phase) + delay, {}, {nextId})
           q == phase.main[n]
<1>1. /\ phase \in Phase /\ x \in Instructions /\ phase'.main[n] = Append(q, x)
      /\ x.connect = {} /\ x.publish = {nextId} /\ x.at = MainPhaseEnd(phase) + delay
  BY AddMessageStep
<1>2. q \in Seq(Instructions)
  BY <1>1 DEF Phase
<1> HIDE DEF x, q
<1>3. /\ Len(q) \in Nat /\ DOMAIN q = 1 .. Len(q) /\ DOMAIN Append(q, x) = 1 .. (Len(q) + 1)
      /\ Append(q, x)[Len(q) + 1] = x /\ \A i \in DOMAIN q : Append(q, x)[i] = q[i]
  BY <1>1, <1>2, LenProperties, AppendProperties
<1>4. /\ Len(q) + 1 \in Nat /\ Len(q) + 1 \notin DOMAIN q
      /\ DOMAIN Append(q, x) = DOMAIN q \cup {Len(q) + 1}
  BY <1>3
<1> QED
  BY <1>1, <1>3, <1>4 DEF q

-----------------------------------------------------------------------------
(* Who connects, and what was applied.                                     *)

\* Only the first instruction of a script connects.
Connects ==
  /\ \A n \in Node : \A i \in DOMAIN scripts[n] : 
       scripts[n][i].connect # {} => i = 1 /\ scripts[n][i].publish = {}
  /\ phase # None => \A n \in Node : \A i \in DOMAIN phase.main[n] : phase.main[n][i].connect = {}

LEMMA ConnectsStep ==
  ASSUME GeneratorTypes, Open, Connects, Generate
  PROVE  Connects'
<1>1. ASSUME NEW n \in Node, ActivateNode(n) \/ DeactivateNode(n)
      PROVE  Connects'
  BY <1>1 DEF Connects, ActivateNode, DeactivateNode
<1>2. ASSUME NEW n \in Node, NEW peers \in PeerSets, SetupNode(n, peers)
      PROVE  Connects'
  <2>1. /\ DOMAIN scripts'[n] = {1} /\ phase' = None
        /\ scripts'[n][1] = Instruction(elapsed, peers, {})
        /\ \A p \in Node \ {n} : scripts'[p] = scripts[p]
    BY <1>2, SetupStep
  <2> QED
    BY <2>1 DEF Connects, Instruction
<1>3. ASSUME NEW warmup \in Warmups, NEW cooldown \in Cooldowns, NewPhase(warmup, cooldown)
      PROVE  Connects'
  <2>1. scripts' = scripts /\ \A n \in Node : phase'.main[n] = <<>>
    BY <1>3, NewPhaseStep
  <2> QED
    BY <2>1 DEF Connects
<1>4. ASSUME NEW delay \in Delays, NEW n \in Node, AddMessage(delay, n)
      PROVE  Connects'
  <2>1. /\ phase # None /\ scripts' = scripts
        /\ \A p \in Node \ {n} : phase'.main[p] = phase.main[p]
    BY <1>4, AddMessageStep
  <2>2. \A i \in DOMAIN phase'.main[n] : phase'.main[n][i].connect = {}
    BY <1>4, <2>1, AddElements DEF Connects
  <2> QED
    BY <2>1, <2>2 DEF Connects
<1>5. ASSUME ApplyPhase PROVE Connects'
  <2>1. phase # None /\ phase' = None
    BY <1>5, ApplyStep
  <2>2. ASSUME NEW n \in Node, NEW i \in DOMAIN scripts'[n], scripts'[n][i].connect # {}
        PROVE  i = 1 /\ scripts'[n][i].publish = {}
    <3>1. \/ i \in DOMAIN scripts[n] /\ scripts'[n][i] = scripts[n][i]
          \/ \E j \in DOMAIN phase.main[n] : scripts'[n][i] = phase.main[n][j]
          \/ scripts'[n][i] = Hold
      BY <1>5, ApplyElements
    <3>2. Hold.connect = {}
      BY <1>5, ApplyElements
    <3> QED
      BY <2>1, <2>2, <3>1, <3>2 DEF Connects
  <2> QED
    BY <2>1, <2>2 DEF Connects
<1> QED
  BY <1>1, <1>2, <1>3, <1>4, <1>5 DEF Generate

\* The script of a node of a phase was set up before the phase, and holds the
\* node until its end; the messages of a phase come from its nodes.
Applied(k, ss) ==
  /\ \A n \in phases[k].nodes :
       /\ ss[n] # <<>> /\ ss[n][1].at <= phases[k].start
       /\ \E i \in DOMAIN ss[n] : ss[n][i].at = phases[k].end
  /\ \A m \in phases[k].messages : m.source \in phases[k].nodes
History ==
  /\ \A k \in DOMAIN phases : Applied(k, scripts)
  /\ phase # None => \A m \in phase.messages : m.source \in phase.nodes

LEMMA PhaseElements ==
  ASSUME GeneratorTypes
  PROVE  \A k \in DOMAIN phases :
           /\ phases[k] \in PhaseInfo /\ phases[k].nodes \subseteq Node
           /\ phases[k].messages \subseteq Messages
           /\ phases[k].start \in Nat /\ phases[k].end \in Nat
<1>1. phases \in Seq(PhaseInfo)
  BY DEF GeneratorTypes
<1>2. DOMAIN phases = 1 .. Len(phases) /\ phases \in [1 .. Len(phases) -> PhaseInfo]
  BY <1>1, LenProperties
<1>3. \A k \in DOMAIN phases : phases[k] \in PhaseInfo
  BY <1>2
<1> QED
  BY <1>3 DEF PhaseInfo

\* The phases after another one is applied.
LEMMA PhasesAfter ==
  ASSUME GeneratorTypes, ApplyPhase
  PROVE  \E e \in Nat :
           /\ e \notin DOMAIN phases /\ DOMAIN phases' = DOMAIN phases \cup {e}
           /\ phases'[e] = Info(phase)
           /\ \A k \in DOMAIN phases : phases'[k] = phases[k]
<1>1. phases \in Seq(PhaseInfo) /\ Info(phase) \in PhaseInfo /\ phases' = Append(phases, Info(phase))
  BY ApplyStep DEF GeneratorTypes
<1>2. /\ Len(phases) \in Nat /\ DOMAIN phases = 1 .. Len(phases)
      /\ DOMAIN phases' = 1 .. (Len(phases) + 1)
      /\ phases'[Len(phases) + 1] = Info(phase) /\ \A k \in DOMAIN phases : phases'[k] = phases[k]
  BY <1>1, LenProperties, AppendProperties
<1>3. /\ Len(phases) + 1 \in Nat /\ Len(phases) + 1 \notin DOMAIN phases
      /\ DOMAIN phases' = DOMAIN phases \cup {Len(phases) + 1}
  BY <1>2
<1> QED
  BY <1>2, <1>3

\* What a node's script had, it keeps, but for a node that had none.
LEMMA HistoryKept ==
  ASSUME GeneratorTypes, History, NEW ss,
         \A n \in Node : scripts[n] # <<>> =>
           \A i \in DOMAIN scripts[n] : i \in DOMAIN ss[n] /\ ss[n][i] = scripts[n][i]
  PROVE  \A k \in DOMAIN phases : Applied(k, ss)
<1> SUFFICES ASSUME NEW k \in DOMAIN phases PROVE Applied(k, ss)
  OBVIOUS
<1>1. Applied(k, scripts)
  BY DEF History
<1>2. ASSUME NEW n \in phases[k].nodes
      PROVE  /\ ss[n] # <<>> /\ ss[n][1].at <= phases[k].start
             /\ \E i \in DOMAIN ss[n] : ss[n][i].at = phases[k].end
  <2>1. n \in Node
    BY PhaseElements
  <2>2. scripts[n] # <<>> /\ scripts[n] \in Seq(Instructions)
    BY <1>1, <2>1 DEF Applied, GeneratorTypes
  <2>3. 1 \in DOMAIN scripts[n]
    BY <2>2, EmptySeq, LenProperties
  <2>4. \A i \in DOMAIN scripts[n] : i \in DOMAIN ss[n] /\ ss[n][i] = scripts[n][i]
    BY <2>1, <2>2
  <2>5. ss[n] # <<>>
    <3>1. DOMAIN <<>> = {}
      BY EmptySeq
    <3> QED
      BY <2>3, <2>4, <3>1
  <2> QED
    BY <1>1, <2>3, <2>4, <2>5 DEF Applied
<1> QED
  BY <1>1, <1>2 DEF Applied

LEMMA HistoryStep ==
  ASSUME GeneratorTypes, Times, Open, History, Generate
  PROVE  History'
<1> USE DEF Applied
<1>1. ASSUME NEW n \in Node, ActivateNode(n) \/ DeactivateNode(n)
      PROVE  History'
  BY <1>1 DEF History, ActivateNode, DeactivateNode
<1>2. ASSUME NEW n \in Node, NEW peers \in PeerSets, SetupNode(n, peers)
      PROVE  History'
  <2>1. /\ scripts[n] = <<>> /\ phase' = None /\ phases' = phases
        /\ \A p \in Node \ {n} : scripts'[p] = scripts[p]
    BY <1>2, SetupStep
  <2>2. \A p \in Node : scripts[p] # <<>> =>
          \A i \in DOMAIN scripts[p] : i \in DOMAIN scripts'[p] /\ scripts'[p][i] = scripts[p][i]
    BY <2>1
  <2>3. \A k \in DOMAIN phases : Applied(k, scripts')
    BY <2>2, HistoryKept
  <2> QED
    BY <2>1, <2>3 DEF History
<1>3. ASSUME NEW warmup \in Warmups, NEW cooldown \in Cooldowns, NewPhase(warmup, cooldown)
      PROVE  History'
  <2>1. scripts' = scripts /\ phases' = phases /\ phase'.messages = {}
    BY <1>3, NewPhaseStep
  <2> QED
    BY <2>1 DEF History
<1>4. ASSUME NEW delay \in Delays, NEW n \in Node, AddMessage(delay, n)
      PROVE  History'
  <2> DEFINE m == [id |-> nextId, source |-> n, time |-> MainPhaseEnd(phase) + delay]
  <2>1. phase'.messages = phase.messages \cup {m}
    BY <1>4, AddMessageStep
  <2>2. /\ phase # None /\ n \in phase.nodes /\ phase'.nodes = phase.nodes
        /\ scripts' = scripts /\ phases' = phases
    BY <1>4, AddMessageStep
  <2> QED
    BY <2>1, <2>2 DEF History
<1>5. ASSUME ApplyPhase PROVE History'
  <2>1. phase # None /\ phase \in Phase /\ phase' = None /\ elapsed \in Nat
    BY <1>5, ApplyStep DEF GeneratorTypes
  <2>2. PICK e \in Nat : /\ e \notin DOMAIN phases /\ DOMAIN phases' = DOMAIN phases \cup {e}
                         /\ phases'[e] = Info(phase)
                         /\ \A k \in DOMAIN phases : phases'[k] = phases[k]
    BY <1>5, PhasesAfter
  <2>3. \A p \in Node : scripts[p] # <<>> =>
          \A i \in DOMAIN scripts[p] : i \in DOMAIN scripts'[p] /\ scripts'[p][i] = scripts[p][i]
    BY <1>5, ApplyElements
  <2>4. \A k \in DOMAIN phases : Applied(k, scripts')
    BY <2>3, HistoryKept
  <2>5. /\ phases'[e].nodes = active /\ phases'[e].messages = phase.messages
        /\ phases'[e].start = elapsed /\ phases'[e].end = PhaseEnd(phase)
    BY <2>1, <2>2 DEF Info, Open
  <2>6. ASSUME NEW n \in active
        PROVE  /\ scripts'[n] # <<>> /\ scripts'[n][1].at <= elapsed
               /\ \E i \in DOMAIN scripts'[n] : scripts'[n][i].at = PhaseEnd(phase)
    <3>1. n \in Node /\ scripts[n] # <<>> /\ scripts[n] \in Seq(Instructions)
      BY <2>1 DEF GeneratorTypes, Open
    <3>2. 1 \in DOMAIN scripts[n]
      BY <3>1, EmptySeq, LenProperties
    <3>3. scripts[n][1].at <= elapsed
      BY <3>1, <3>2 DEF Times, Timed
    <3>4. 1 \in DOMAIN scripts'[n] /\ scripts'[n][1] = scripts[n][1]
      BY <2>3, <3>1, <3>2
    <3>5. scripts'[n] # <<>>
      <4>1. DOMAIN <<>> = {}
        BY EmptySeq
      <4> QED
        BY <3>4, <4>1
    <3>6. \E i \in DOMAIN scripts'[n] : scripts'[n][i].at = PhaseEnd(phase)
      BY <1>5, <3>1, ApplyElements
    <3> QED
      BY <3>3, <3>4, <3>5, <3>6
  <2>7. \A m \in phase.messages : m.source \in active
    BY <2>1 DEF History, Open
  <2>8. ASSUME NEW k \in DOMAIN phases' PROVE Applied(k, scripts)'
    <3>1. CASE k = e
      BY <2>5, <2>6, <2>7, <3>1
    <3>2. CASE k \in DOMAIN phases
      BY <2>2, <2>4, <3>2
    <3> QED
      BY <2>2, <3>1, <3>2
  <2> QED
    BY <2>1, <2>8 DEF History
<1> QED
  BY <1>1, <1>2, <1>3, <1>4, <1>5 DEF Generate

-----------------------------------------------------------------------------
(* Messages and scripts.                                                   *)

\* The messages are in the scripts of their sources at their times, and
\* nothing else is.
Tells(messages, ss) ==
  /\ \A m \in messages : \E i \in DOMAIN ss[m.source] :
       m.id \in ss[m.source][i].publish /\ ss[m.source][i].at = m.time
  /\ \A n \in Node : \A i \in DOMAIN ss[n] : \A id \in ss[n][i].publish :
       \E m \in messages : m.id = id

\* No two instructions publish the same message; numbers are handed out once.
Once(ss) ==
  \A n, p \in Node : \A i \in DOMAIN ss[n], j \in DOMAIN ss[p] :
    \A id \in ss[n][i].publish : id \in ss[p][j].publish => n = p /\ i = j
Below(ss, k) == \A n \in Node : \A i \in DOMAIN ss[n] : \A id \in ss[n][i].publish : id < k
Apart(ss, tt) ==
  \A n, p \in Node : \A i \in DOMAIN ss[n], j \in DOMAIN tt[p] :
    \A id \in ss[n][i].publish : id \notin tt[p][j].publish

Told ==
  /\ Tells(Announced, scripts) /\ Once(scripts) /\ Below(scripts, nextId)
  /\ phase # None =>
       /\ Tells(phase.messages, phase.main) /\ Once(phase.main) /\ Below(phase.main, nextId)
       /\ Apart(scripts, phase.main)

LEMMA ToldSetup ==
  ASSUME GeneratorTypes, Told, NEW n \in Node, NEW peers \in PeerSets, SetupNode(n, peers)
  PROVE  Told'
<1>1. /\ scripts[n] = <<>> /\ DOMAIN scripts'[n] = {1}
      /\ scripts'[n][1] = Instruction(elapsed, peers, {})
      /\ \A p \in Node \ {n} : scripts'[p] = scripts[p]
      /\ phase' = None /\ phases' = phases /\ nextId' = nextId
  BY SetupStep
<1>2. \A i \in DOMAIN scripts'[n] : scripts'[n][i].publish = {}
  BY <1>1 DEF Instruction
<1>3. Announced' = Announced
  BY <1>1 DEF Announced
<1>4. \A m \in Announced : m.source # n
  BY <1>1 DEF Told, Tells
<1>5. \A m \in Announced : m.source \in Node
  BY PhaseElements DEF Announced, Messages
<1>6. \A m \in Announced : \E i \in DOMAIN scripts'[m.source] :
        m.id \in scripts'[m.source][i].publish /\ scripts'[m.source][i].at = m.time
  BY <1>1, <1>4, <1>5 DEF Told, Tells
<1>7. \A p \in Node : \A i \in DOMAIN scripts'[p] : \A id \in scripts'[p][i].publish :
        p # n /\ i \in DOMAIN scripts[p] /\ id \in scripts[p][i].publish
  BY <1>1, <1>2
<1>8. Tells(Announced, scripts')
  BY <1>6, <1>7 DEF Told, Tells
<1>9. Once(scripts')
  BY <1>1, <1>7 DEF Told, Once
<1>10. Below(scripts', nextId)
  BY <1>1, <1>7 DEF Told, Below
<1> QED
  BY <1>1, <1>3, <1>8, <1>9, <1>10 DEF Told

LEMMA ToldAdd ==
  ASSUME GeneratorTypes, Told, NEW delay \in Delays, NEW n \in Node, AddMessage(delay, n)
  PROVE  Told'
<1> DEFINE time == MainPhaseEnd(phase) + delay
           m == [id |-> nextId, source |-> n, time |-> time]
           q == phase.main
           w == phase'.main
<1>1. /\ phase # None /\ phase \in Phase
      /\ phase'.messages = phase.messages \cup {m}
      /\ \A p \in Node \ {n} : w[p] = q[p]
      /\ nextId' = nextId + 1 /\ scripts' = scripts /\ phases' = phases
  BY AddMessageStep
<1>2. PICK e \in Nat, x \in Instructions :
        /\ e \notin DOMAIN q[n] /\ DOMAIN w[n] = DOMAIN q[n] \cup {e}
        /\ w[n][e] = x /\ x.publish = {nextId} /\ x.at = time
        /\ \A i \in DOMAIN q[n] : w[n][i] = q[n][i]
  BY AddElements
<1>3. Announced' = Announced
  BY <1>1 DEF Announced
<1>4. nextId \in Nat /\ phase.messages \subseteq Messages
  BY <1>1 DEF GeneratorTypes, Phase
<1>5. /\ Tells(phase.messages, q) /\ Once(q) /\ Below(q, nextId) /\ Apart(scripts, q)
      /\ Tells(Announced, scripts) /\ Once(scripts) /\ Below(scripts, nextId)
  BY <1>1 DEF Told
<1>6. m.id = nextId /\ m.source = n /\ m.time = time
  OBVIOUS
<1> HIDE DEF m, time, q, w
\* What is in the phase now.
<1>7. ASSUME NEW p \in Node, NEW i \in DOMAIN w[p], NEW id \in w[p][i].publish
      PROVE  \/ i \in DOMAIN q[p] /\ id \in q[p][i].publish
             \/ p = n /\ i = e /\ id = nextId
  BY <1>1, <1>2
<1>8. \A p \in Node : \A i \in DOMAIN q[p] : i \in DOMAIN w[p] /\ w[p][i] = q[p][i]
  BY <1>1, <1>2
<1>9. Tells(phase'.messages, w)
  <2>1. ASSUME NEW a \in phase'.messages
        PROVE  \E i \in DOMAIN w[a.source] : a.id \in w[a.source][i].publish /\ w[a.source][i].at = a.time
    <3>1. CASE a = m
      BY <1>2, <1>6, <3>1
    <3>2. CASE a \in phase.messages
      <4>1. a.source \in Node
        BY <1>4, <3>2 DEF Messages
      <4>2. PICK i \in DOMAIN q[a.source] : a.id \in q[a.source][i].publish /\ q[a.source][i].at = a.time
        BY <1>5, <3>2 DEF Tells
      <4> QED
        BY <1>8, <4>1, <4>2
    <3> QED
      BY <1>1, <3>1, <3>2
  <2>2. ASSUME NEW p \in Node, NEW i \in DOMAIN w[p], NEW id \in w[p][i].publish
        PROVE  \E a \in phase'.messages : a.id = id
    <3>1. CASE i \in DOMAIN q[p] /\ id \in q[p][i].publish
      BY <1>1, <1>5, <3>1 DEF Tells
    <3>2. CASE id = nextId
      BY <1>1, <1>6, <3>2
    <3> QED
      BY <1>7, <3>1, <3>2
  <2> QED
    BY <2>1, <2>2 DEF Tells
<1>10. \A p \in Node : \A i \in DOMAIN q[p] : nextId \notin q[p][i].publish
  BY <1>4, <1>5 DEF Below
<1>11. Once(w)
  <2> SUFFICES ASSUME NEW p \in Node, NEW r \in Node, NEW i \in DOMAIN w[p], NEW j \in DOMAIN w[r],
                      NEW id \in w[p][i].publish, id \in w[r][j].publish
               PROVE  p = r /\ i = j
    BY DEF Once
  <2>1. \/ i \in DOMAIN q[p] /\ id \in q[p][i].publish
        \/ p = n /\ i = e /\ id = nextId
    BY <1>7
  <2>2. \/ j \in DOMAIN q[r] /\ id \in q[r][j].publish
        \/ r = n /\ j = e /\ id = nextId
    BY <1>7
  <2> QED
    BY <1>5, <1>10, <2>1, <2>2 DEF Once
<1>12. Below(w, nextId')
  <2> SUFFICES ASSUME NEW p \in Node, NEW i \in DOMAIN w[p], NEW id \in w[p][i].publish
               PROVE  id < nextId'
    BY DEF Below
  <2>1. CASE i \in DOMAIN q[p] /\ id \in q[p][i].publish
    <3>1. id < nextId
      BY <1>5, <2>1 DEF Below
    <3>2. id \in Nat
      <4>1. q[p] \in Seq(Instructions)
        BY <1>1 DEF Phase, q
      <4> QED
        BY <2>1, <4>1, ScriptElements
    <3> QED
      BY <1>1, <1>4, <3>1, <3>2
  <2>2. CASE id = nextId
    BY <1>1, <1>4, <2>2
  <2> QED
    BY <1>7, <2>1, <2>2
<1>13. Below(scripts, nextId')
  <2> SUFFICES ASSUME NEW p \in Node, NEW i \in DOMAIN scripts[p], NEW id \in scripts[p][i].publish
               PROVE  id < nextId'
    BY DEF Below
  <2>1. scripts[p] \in Seq(Instructions)
    BY DEF GeneratorTypes
  <2>2. id \in Nat /\ id < nextId
    BY <1>5, <2>1, ScriptElements DEF Below
  <2> QED
    BY <1>1, <1>4, <2>2
<1>14. Apart(scripts, w)
  <2> SUFFICES ASSUME NEW p \in Node, NEW r \in Node, NEW i \in DOMAIN scripts[p],
                      NEW j \in DOMAIN w[r],
                      NEW id \in scripts[p][i].publish, id \in w[r][j].publish
               PROVE  FALSE
    BY DEF Apart
  <2>1. id < nextId
    BY <1>5 DEF Below
  <2>2. id # nextId
    BY <1>4, <2>1
  <2>3. j \in DOMAIN q[r] /\ id \in q[r][j].publish
    BY <1>7, <2>2
  <2> QED
    BY <1>5, <2>3 DEF Apart
<1> QED
  BY <1>1, <1>3, <1>5, <1>9, <1>11, <1>12, <1>13, <1>14 DEF Told, w

LEMMA ToldApply ==
  ASSUME GeneratorTypes, Open, Told, ApplyPhase
  PROVE  Told'
<1> DEFINE q == phase.main
           w == scripts'
<1>1. phase # None /\ phase \in Phase /\ phase' = None /\ nextId' = nextId
  BY ApplyStep
<1>2. /\ Tells(phase.messages, q) /\ Once(q) /\ Below(q, nextId) /\ Apart(scripts, q)
      /\ Tells(Announced, scripts) /\ Once(scripts) /\ Below(scripts, nextId)
  BY <1>1 DEF Told
<1>3. Announced' = Announced \cup phase.messages
  <2>1. PICK e \in Nat : /\ DOMAIN phases' = DOMAIN phases \cup {e}
                         /\ phases'[e] = Info(phase)
                         /\ \A k \in DOMAIN phases : phases'[k] = phases[k]
    BY PhasesAfter
  <2>2. Info(phase).messages = phase.messages
    BY DEF Info
  <2>3. \A m : m \in Announced' <=> m \in Announced \/ m \in phase.messages
    BY <2>1, <2>2 DEF Announced
  <2> QED
    BY <2>3
<1>4. \A m \in Announced \cup phase.messages : m.source \in Node
  <2>1. phase.messages \subseteq Messages
    BY <1>1 DEF Phase
  <2> QED
    BY <2>1, PhaseElements DEF Announced, Messages
<1>5. \A n \in Node :
        /\ \A i \in DOMAIN scripts[n] : i \in DOMAIN w[n] /\ w[n][i] = scripts[n][i]
        /\ \A j \in DOMAIN q[n] : \E i \in DOMAIN w[n] : w[n][i] = q[n][j]
  <2> SUFFICES ASSUME NEW n \in Node
               PROVE  /\ \A i \in DOMAIN scripts[n] : i \in DOMAIN w[n] /\ w[n][i] = scripts[n][i]
                      /\ \A j \in DOMAIN q[n] : \E i \in DOMAIN w[n] : w[n][i] = q[n][j]
    OBVIOUS
  <2>1. \A i \in DOMAIN scripts[n] : i \in DOMAIN w[n] /\ w[n][i] = scripts[n][i]
    BY ApplyElements
  <2>2. \A j \in DOMAIN q[n] : /\ Len(scripts[n]) + j \in DOMAIN w[n]
                               /\ w[n][Len(scripts[n]) + j] = q[n][j]
    BY ApplyElements
  <2> QED
    BY <2>1, <2>2
<1>6. \A n \in Node : \A i \in DOMAIN w[n] : \A id \in w[n][i].publish :
        \/ i \in DOMAIN scripts[n] /\ id \in scripts[n][i].publish
        \/ \E j \in DOMAIN q[n] : i = Len(scripts[n]) + j /\ id \in q[n][j].publish
  <2> SUFFICES ASSUME NEW n \in Node, NEW i \in DOMAIN w[n], NEW id \in w[n][i].publish
               PROVE  \/ i \in DOMAIN scripts[n] /\ id \in scripts[n][i].publish
                      \/ \E j \in DOMAIN q[n] : i = Len(scripts[n]) + j /\ id \in q[n][j].publish
    OBVIOUS
  <2>1. Hold.publish = {}
    BY ApplyElements
  <2>2. \/ i \in DOMAIN scripts[n] /\ w[n][i] = scripts[n][i]
        \/ \E j \in DOMAIN q[n] : i = Len(scripts[n]) + j /\ w[n][i] = q[n][j]
        \/ w[n][i] = Hold
    BY ApplyElements
  <2> QED
    BY <2>1, <2>2
<1> HIDE DEF q, w
<1>7. Tells(Announced \cup phase.messages, w)
  <2>1. ASSUME NEW m \in Announced \cup phase.messages
        PROVE  \E i \in DOMAIN w[m.source] : m.id \in w[m.source][i].publish /\ w[m.source][i].at = m.time
    <3>1. m.source \in Node
      BY <1>4
    <3>2. CASE m \in Announced
      <4>1. PICK i \in DOMAIN scripts[m.source] :
              m.id \in scripts[m.source][i].publish /\ scripts[m.source][i].at = m.time
        BY <1>2, <3>2 DEF Tells
      <4> QED
        BY <1>5, <3>1, <4>1
    <3>3. CASE m \in phase.messages
      <4>1. PICK j \in DOMAIN q[m.source] :
              m.id \in q[m.source][j].publish /\ q[m.source][j].at = m.time
        BY <1>2, <3>3 DEF Tells
      <4>2. PICK i \in DOMAIN w[m.source] : w[m.source][i] = q[m.source][j]
        BY <1>5, <3>1, <4>1
      <4> QED
        BY <4>1, <4>2
    <3> QED
      BY <3>2, <3>3
  <2>2. ASSUME NEW n \in Node, NEW i \in DOMAIN w[n], NEW id \in w[n][i].publish
        PROVE  \E m \in Announced \cup phase.messages : m.id = id
    <3>1. CASE i \in DOMAIN scripts[n] /\ id \in scripts[n][i].publish
      BY <1>2, <3>1 DEF Tells
    <3>2. CASE \E j \in DOMAIN q[n] : id \in q[n][j].publish
      BY <1>2, <3>2 DEF Tells
    <3> QED
      BY <1>6, <3>1, <3>2
  <2> QED
    BY <2>1, <2>2 DEF Tells
<1>8. Once(w)
  <2> SUFFICES ASSUME NEW n \in Node, NEW p \in Node, NEW i \in DOMAIN w[n], NEW j \in DOMAIN w[p],
                      NEW id \in w[n][i].publish, id \in w[p][j].publish
               PROVE  n = p /\ i = j
    BY DEF Once
  <2>1. CASE i \in DOMAIN scripts[n] /\ id \in scripts[n][i].publish
    <3>1. j \in DOMAIN scripts[p] /\ id \in scripts[p][j].publish
      BY <1>2, <1>6, <2>1 DEF Apart
    <3> QED
      BY <1>2, <2>1, <3>1 DEF Once
  <2>2. ASSUME NEW a \in DOMAIN q[n], i = Len(scripts[n]) + a, id \in q[n][a].publish
        PROVE  n = p /\ i = j
    <3>1. PICK b \in DOMAIN q[p] : j = Len(scripts[p]) + b /\ id \in q[p][b].publish
      BY <1>2, <1>6, <2>2 DEF Apart
    <3>2. n = p /\ a = b
      BY <1>2, <2>2, <3>1 DEF Once
    <3> QED
      BY <2>2, <3>1, <3>2
  <2> QED
    BY <1>6, <2>1, <2>2
<1>9. Below(w, nextId)
  BY <1>2, <1>6 DEF Below
<1> QED
  BY <1>1, <1>3, <1>7, <1>8, <1>9 DEF Told, w

LEMMA ToldStep ==
  ASSUME GeneratorTypes, Open, Told, Generate
  PROVE  Told'
<1>1. ASSUME NEW n \in Node, ActivateNode(n) \/ DeactivateNode(n)
      PROVE  Told'
  BY <1>1 DEF Told, ActivateNode, DeactivateNode, Announced
<1>2. ASSUME NEW warmup \in Warmups, NEW cooldown \in Cooldowns, NewPhase(warmup, cooldown)
      PROVE  Told'
  <2>1. /\ scripts' = scripts /\ phases' = phases /\ phase'.messages = {} /\ nextId' = nextId
        /\ \A n \in Node : DOMAIN phase'.main[n] = {}
    BY <1>2, NewPhaseStep
  <2>2. Announced' = Announced
    BY <2>1 DEF Announced
  <2>3. /\ Tells(phase'.messages, phase'.main) /\ Once(phase'.main) /\ Below(phase'.main, nextId)
        /\ Apart(scripts, phase'.main)
    BY <2>1 DEF Tells, Once, Below, Apart
  <2> QED
    BY <2>1, <2>2, <2>3 DEF Told
<1> QED
  BY <1>1, <1>2, ToldSetup, ToldAdd, ToldApply DEF Generate

-----------------------------------------------------------------------------
(* What the generator keeps, and its theorems.                             *)

GeneratorInv ==
  /\ GeneratorTypes /\ Times /\ Open /\ Lengths /\ Connects /\ History /\ Told

LEMMA GeneratorInit ==
  ASSUME InitExperiment
  PROVE  GeneratorInv
<1>1. /\ elapsed = 0 /\ nextId = 0 /\ active = {} /\ phase = None /\ phases = <<>>
      /\ \A n \in Node : scripts[n] = <<>> /\ DOMAIN scripts[n] = {}
      /\ Len(phases) = 0 /\ DOMAIN phases = {}
  BY DEF InitExperiment
<1>2. Announced = {}
  BY <1>1 DEF Announced
<1>3. GeneratorTypes
  BY <1>1 DEF InitExperiment, GeneratorTypes
<1>4. Times /\ Open /\ Connects /\ History
  BY <1>1 DEF Times, Timed, Sorted, Open, Connects, History
<1>5. Lengths
  BY <1>1, ExperimentAssumption DEF Lengths
<1>6. Told
  BY <1>1, <1>2 DEF Told, Tells, Once, Below
<1> QED
  BY <1>3, <1>4, <1>5, <1>6 DEF GeneratorInv

LEMMA GeneratorStep ==
  ASSUME GeneratorInv, Generate
  PROVE  GeneratorInv'
<1> USE DEF GeneratorInv
<1> QED
  BY GeneratorTypesStep, TimesStep, OpenStep, LengthsStep, ConnectsStep, HistoryStep, ToldStep

\* Nothing but the generator writes.
LEMMA GeneratorStutters ==
  ASSUME GeneratorInv, UNCHANGED generator
  PROVE  GeneratorInv'
  BY DEF GeneratorInv, generator, GeneratorTypes, Times, MainPhaseEnd, Open, Lengths, Connects,
         History, Applied, Told, Announced

LEMMA GeneratorAlone ==
  ASSUME [Next]_vars
  PROVE  (Generate /\ ~finalized /\ UNCHANGED simulation) \/ UNCHANGED generator
  BY DEF Next, vars, Finalize, RunInstruction, PublishWithoutPeers, InstructionFails,
         GoInstruction, GoConnect, ConnectTo, ConnectReturns, AcceptDial, DialError,
         ConnectionEstablished, HandshakeError, ConnectionClosed, Tick

LEMMA GeneratorInvariant == Spec => []GeneratorInv
<1>1. Init => GeneratorInv
  BY GeneratorInit DEF Init
<1>2. GeneratorInv /\ [Next]_vars => GeneratorInv'
  BY GeneratorAlone, GeneratorStep, GeneratorStutters
<1> QED
  BY <1>1, <1>2, PTL DEF Spec

\* For any scenario, every script is in the order of its times, across phases
\* and for nodes that join late.
THEOREM ScriptsKeepOrder == Spec => []ScriptsInOrder
<1>1. GeneratorInv => ScriptsInOrder
  BY DEF GeneratorInv, Times, Sorted, ScriptsInOrder
<1> QED
  BY <1>1, GeneratorInvariant, PTL

\* For any scenario, what phases.json announces and what the scripts publish
\* is the same: each message once, at its source and at its time.
THEOREM PhasesMatchScripts == Spec => []AnnouncedIsScripted
<1>1. ASSUME GeneratorInv PROVE AnnouncedIsScripted
  <2> DEFINE K == 2 * MaxPhases + MaxMessages + 1
  <2>1. \A n \in Node : \A i \in DOMAIN scripts[n] : <<n, i>> \in Scripted
    <3> SUFFICES ASSUME NEW n \in Node, NEW i \in DOMAIN scripts[n] PROVE <<n, i>> \in Scripted
      OBVIOUS
    <3>1. scripts[n] \in Seq(Instructions) /\ phases \in Seq(PhaseInfo) /\ nextId \in Nat
      BY <1>1 DEF GeneratorInv, GeneratorTypes
    <3>2. /\ Len(scripts[n]) <= 1 + Len(phases) + nextId
          /\ Len(phases) <= MaxPhases /\ nextId <= MaxMessages
      BY <1>1 DEF GeneratorInv, Lengths
    <3>3. /\ Len(scripts[n]) \in Nat /\ DOMAIN scripts[n] = 1 .. Len(scripts[n])
          /\ Len(phases) \in Nat /\ MaxPhases \in Nat /\ MaxMessages \in Nat
      BY <3>1, LenProperties, ExperimentAssumption
    <3>4. i \in 1 .. K
      BY <3>1, <3>2, <3>3
    <3> QED
      BY <3>4 DEF Scripted
  <2>2. \A s \in Scripted : /\ s[1] \in Node /\ s[2] \in DOMAIN scripts[s[1]]
                            /\ s = <<s[1], s[2]>>
    BY DEF Scripted
  <2>3. /\ Tells(Announced, scripts) /\ Once(scripts)
        /\ \A m \in Announced : m.source \in Node
    <3>1. GeneratorTypes /\ Told
      BY <1>1 DEF GeneratorInv
    <3> QED
      BY <3>1, PhaseElements DEF Told, Announced, Messages
  <2>4. ASSUME NEW m \in Announced
        PROVE  Cardinality({s \in Scripted : m.id \in scripts[s[1]][s[2]].publish}) = 1
    <3> DEFINE C == {s \in Scripted : m.id \in scripts[s[1]][s[2]].publish}
    <3>1. PICK i \in DOMAIN scripts[m.source] : m.id \in scripts[m.source][i].publish
      BY <2>3 DEF Tells
    <3>2. <<m.source, i>> \in C
      BY <2>1, <2>3, <3>1
    <3>3. \A s \in C : s = <<m.source, i>>
      BY <2>2, <2>3, <3>1 DEF Once
    <3>4. C = {<<m.source, i>>}
      BY <3>2, <3>3
    <3> HIDE DEF C
    <3>5. Cardinality(C) = 1
      BY <3>4, FS_Singleton
    <3> QED
      BY <3>5 DEF C
  <2>5. \A m \in Announced : \E i \in DOMAIN scripts[m.source] :
          m.id \in scripts[m.source][i].publish /\ scripts[m.source][i].at = m.time
    BY <2>3 DEF Tells
  <2>6. \A s \in Scripted : \A id \in scripts[s[1]][s[2]].publish : \E m \in Announced : m.id = id
    BY <2>2, <2>3 DEF Tells
  <2> QED
    BY <2>4, <2>5, <2>6 DEF AnnouncedIsScripted
<1> QED
  BY <1>1, GeneratorInvariant, PTL

-----------------------------------------------------------------------------
(* The simulation: types.                                                  *)

Modes == {"waiting", "ready", "connecting", "done", "failed"}
Dials == [from : Node, to : Node, since : Nat]
Openings == [at : Node, peer : Node, since : Nat]

SimulationTypes ==
  /\ protocol \in {"dog", "gossipsub"} /\ finalized \in BOOLEAN
  /\ now \in Nat /\ errors \in Nat
  /\ mode \in [Node -> Modes]
  /\ next \in [Node -> Nat]
  /\ connecting \in [Node -> SUBSET Node]
  /\ dials \subseteq Dials
  /\ opening \subseteq Openings
  /\ connected \subseteq Node \X Node

\* What ModeAt says of the instructions there are, and of the end.
LEMMA ModeAtCases ==
  ASSUME GeneratorTypes, SimulationTypes, NEW n \in Node, NEW i \in Nat, i > 0
  PROVE  /\ i \in DOMAIN scripts[n] <=> i <= Len(scripts[n])
         /\ i > Len(scripts[n]) => ModeAt(n, i) = "done"
         /\ i \in DOMAIN scripts[n] =>
              /\ scripts[n][i].at \in Nat
              /\ now < scripts[n][i].at => ModeAt(n, i) = "waiting"
              /\ now >= scripts[n][i].at => ModeAt(n, i) = "ready"
<1>1. scripts[n] \in Seq(Instructions) /\ now \in Nat
  BY DEF GeneratorTypes, SimulationTypes
<1>2. Len(scripts[n]) \in Nat /\ DOMAIN scripts[n] = 1 .. Len(scripts[n])
  BY <1>1, ScriptElements
<1>3. i \in DOMAIN scripts[n] <=> i <= Len(scripts[n])
  BY <1>2
<1>4. i > Len(scripts[n]) => ModeAt(n, i) = "done"
  BY <1>2 DEF ModeAt
<1>5. ASSUME i \in DOMAIN scripts[n]
      PROVE  /\ scripts[n][i].at \in Nat
             /\ now < scripts[n][i].at => ModeAt(n, i) = "waiting"
             /\ now >= scripts[n][i].at => ModeAt(n, i) = "ready"
  <2>1. scripts[n][i].at \in Nat
    BY <1>1, <1>5, ScriptElements
  <2>2. ~(i > Len(scripts[n])) /\ i <= Len(scripts[n])
    BY <1>2, <1>3, <1>5
  <2> QED
    BY <1>1, <2>1, <2>2 DEF ModeAt
<1> QED
  BY <1>3, <1>4, <1>5

\* A node exits.
LEMMA ExitsStep ==
  ASSUME SimulationTypes, NEW n \in Node, NEW how \in {"done", "failed"}, Exits(n, how)
  PROVE  /\ mode' \in [Node -> Modes] /\ mode'[n] = how
         /\ \A p \in Node \ {n} : mode'[p] = mode[p]
         /\ dials' = {d \in dials : d.from # n} /\ dials' \subseteq dials
         /\ opening' = {o \in opening : o.at # n} /\ opening' \subseteq opening
         /\ connected' = {c \in connected : c[1] # n} /\ connected' \subseteq connected
  BY DEF SimulationTypes, Exits, Modes

\* A node goes on to its next instruction, or exits after the last.
LEMMA ProceedsStep ==
  ASSUME GeneratorTypes, SimulationTypes, NEW n \in Node, NEW started \in SUBSET Dials,
         Proceeds(n, started), next[n] > 0
  PROVE  /\ next' \in [Node -> Nat] /\ next'[n] = next[n] + 1 /\ mode' \in [Node -> Modes]
         /\ \A p \in Node \ {n} : mode'[p] = mode[p] /\ next'[p] = next[p]
         /\ dials' \subseteq Dials /\ opening' \subseteq opening /\ connected' \subseteq connected
         /\ \/ /\ next[n] + 1 \in DOMAIN scripts[n]
               /\ \/ mode'[n] = "waiting" /\ now < scripts[n][next[n] + 1].at
                  \/ mode'[n] = "ready" /\ now >= scripts[n][next[n] + 1].at
               /\ dials' = dials \cup started
               /\ UNCHANGED <<opening, connected>>
            \/ /\ next[n] + 1 > Len(scripts[n])
               /\ mode'[n] = "done" /\ Exits(n, "done")
<1> DEFINE i == next[n] + 1
<1>1. next[n] \in Nat /\ i \in Nat /\ i > 0
  BY DEF SimulationTypes
<1>2. Len(scripts[n]) \in Nat
  <2>1. scripts[n] \in Seq(Instructions)
    BY DEF GeneratorTypes
  <2> QED
    BY <2>1, ScriptElements
<1>3. /\ next' = [next EXCEPT ![n] = next[n] + 1]
      /\ ModeAt(n, i) = "done" => Exits(n, "done")
      /\ ModeAt(n, i) # "done" => /\ mode' = [mode EXCEPT ![n] = ModeAt(n, i)]
                                  /\ dials' = dials \cup started
                                  /\ UNCHANGED <<opening, connected>>
  BY DEF Proceeds
<1>4. next' \in [Node -> Nat] /\ next'[n] = i /\ \A p \in Node \ {n} : next'[p] = next[p]
  BY <1>1, <1>3 DEF SimulationTypes
<1> HIDE DEF i
<1>5. CASE i > Len(scripts[n])
  <2>1. Exits(n, "done")
    BY <1>1, <1>3, <1>5, ModeAtCases
  <2>2. /\ mode' \in [Node -> Modes] /\ mode'[n] = "done"
        /\ \A p \in Node \ {n} : mode'[p] = mode[p]
        /\ dials' \subseteq dials /\ opening' \subseteq opening /\ connected' \subseteq connected
    BY <2>1, ExitsStep
  <2>3. dials' \subseteq Dials
    BY <2>2 DEF SimulationTypes
  <2> QED
    BY <1>4, <1>5, <2>1, <2>2, <2>3 DEF i
<1>6. CASE ~(i > Len(scripts[n]))
  <2>1. i \in DOMAIN scripts[n] /\ scripts[n][i].at \in Nat /\ now \in Nat
    <3>1. i <= Len(scripts[n])
      BY <1>1, <1>2, <1>6
    <3>2. i \in DOMAIN scripts[n]
      BY <1>1, <3>1, ModeAtCases
    <3>3. scripts[n][i].at \in Nat
      BY <1>1, <3>2, ModeAtCases
    <3> QED
      BY <3>2, <3>3 DEF SimulationTypes
  <2>2. \/ ModeAt(n, i) = "waiting" /\ now < scripts[n][i].at
        \/ ModeAt(n, i) = "ready" /\ now >= scripts[n][i].at
    <3>1. now < scripts[n][i].at => ModeAt(n, i) = "waiting"
      BY <1>1, <2>1, ModeAtCases
    <3>2. now >= scripts[n][i].at => ModeAt(n, i) = "ready"
      BY <1>1, <2>1, ModeAtCases
    <3>3. now < scripts[n][i].at \/ now >= scripts[n][i].at
      BY <2>1
    <3> QED
      BY <3>1, <3>2, <3>3
  <2>3. /\ mode' = [mode EXCEPT ![n] = ModeAt(n, i)]
        /\ dials' = dials \cup started /\ UNCHANGED <<opening, connected>>
    BY <1>3, <2>2
  <2>4. mode' \in [Node -> Modes] /\ mode'[n] = ModeAt(n, i) /\ \A p \in Node \ {n} : mode'[p] = mode[p]
    BY <2>2, <2>3 DEF SimulationTypes, Modes
  <2>5. dials' \subseteq Dials
    BY <2>3 DEF SimulationTypes
  <2> QED
    BY <1>4, <2>1, <2>2, <2>3, <2>4, <2>5 DEF i
<1> QED
  BY <1>5, <1>6

-----------------------------------------------------------------------------
(* How far the nodes have got.                                             *)

\* Before the simulation starts.
Idle ==
  /\ now = 0 /\ errors = 0 /\ dials = {} /\ opening = {} /\ connected = {} /\ published = {}
  /\ \A n \in Node : mode[n] = "ready" /\ next[n] = 1 /\ connecting[n] = {}

\* A node that has not ended is at an instruction; those before it were due, as
\* is the one whose dials it makes; a node is done after its last.
Position(n) ==
  /\ \A i \in DOMAIN scripts[n] : i < next[n] => scripts[n][i].at <= now
  /\ mode[n] \in {"waiting", "ready", "connecting"} => next[n] \in DOMAIN scripts[n]
  /\ mode[n] = "connecting" => protocol = "gossipsub" /\ scripts[n][next[n]].at <= now
  /\ mode[n] = "done" => next[n] > Len(scripts[n])
Progress ==
  /\ ~finalized => Idle
  /\ \A n \in Node : next[n] > 0
  /\ finalized => \A n \in Node : Position(n)

Base == GeneratorInv /\ SimulationTypes /\ Progress

\* Where a node is when it runs an instruction, and what the instruction holds.
LEMMA DueFacts ==
  ASSUME Base, NEW n \in Node,
         Due(n) \/ (finalized /\ mode[n] = "connecting")
  PROVE  /\ finalized /\ next[n] \in DOMAIN scripts[n] /\ next[n] > 0 /\ next[n] \in Nat
         /\ scripts[n][next[n]] \in Instructions /\ scripts[n][next[n]].at \in Nat
         /\ scripts[n][next[n]].connect \in SUBSET Node
         /\ scripts[n][next[n]].publish \in SUBSET Nat
         /\ scripts[n][next[n]].at <= now /\ now \in Nat
<1>1. finalized /\ next[n] \in DOMAIN scripts[n] /\ next[n] > 0 /\ next[n] \in Nat /\ now \in Nat
  BY DEF Base, Progress, Position, SimulationTypes, Due
<1>2. scripts[n] \in Seq(Instructions)
  BY DEF Base, GeneratorInv, GeneratorTypes
<1>3. /\ scripts[n][next[n]] \in Instructions /\ scripts[n][next[n]].at \in Nat
      /\ scripts[n][next[n]].connect \in SUBSET Node /\ scripts[n][next[n]].publish \in SUBSET Nat
  BY <1>1, <1>2, ScriptElements
<1>4. CASE Due(n)
  BY <1>1, <1>3, <1>4 DEF Due
<1>5. CASE mode[n] = "connecting"
  BY <1>1, <1>3, <1>5 DEF Base, Progress, Position
<1> QED
  BY <1>1, <1>3, <1>4, <1>5

\* The instruction of n is done.
Advances(n) ==
  \/ RunInstruction(n) \/ GoInstruction(n) \/ ConnectReturns(n)
Fails(n) == PublishWithoutPeers(n) \/ InstructionFails(n)

\* What n starts to dial as it goes on.
Started(n) ==
  IF protocol = "dog"
    THEN {[from |-> n, to |-> p, since |-> now] : p \in scripts[n][next[n]].connect}
    ELSE {}

LEMMA AdvancesFacts ==
  ASSUME Base, NEW n \in Node, Advances(n)
  PROVE  /\ Due(n) \/ (finalized /\ mode[n] = "connecting")
         /\ ~Ended(n)
         /\ Started(n) \in SUBSET Dials /\ Proceeds(n, Started(n))
         /\ UNCHANGED <<generator, protocol, finalized, now, connecting, errors>>
<1>1. mode[n] = "connecting" => finalized /\ protocol = "gossipsub"
  BY DEF Base, Progress, Position, Idle
<1>2. Due(n) \/ (finalized /\ mode[n] = "connecting")
  BY <1>1 DEF Advances, RunInstruction, GoInstruction, ConnectReturns
<1>3. UNCHANGED <<generator, protocol, finalized, now, connecting, errors>>
  BY DEF Advances, RunInstruction, GoInstruction, ConnectReturns
<1>4. Started(n) \in SUBSET Dials
  <2>1. scripts[n][next[n]].connect \in SUBSET Node /\ now \in Nat
    BY <1>2, DueFacts
  <2> QED
    BY <2>1 DEF Started, Dials
<1>5. Proceeds(n, Started(n))
  <2>1. CASE RunInstruction(n)
    BY <2>1 DEF RunInstruction, Started
  <2>2. CASE GoInstruction(n)
    <3>1. Started(n) = {}
      BY <2>2 DEF GoInstruction, Started
    <3> QED
      BY <2>2, <3>1 DEF GoInstruction
  <2>3. CASE ConnectReturns(n)
    <3>1. Started(n) = {}
      BY <1>1, <2>3 DEF ConnectReturns, Started
    <3> QED
      BY <2>3, <3>1 DEF ConnectReturns
  <2> QED
    BY <2>1, <2>2, <2>3 DEF Advances
<1>6. ~Ended(n)
  BY <1>2 DEF Due, Ended
<1> QED
  BY <1>2, <1>3, <1>4, <1>5, <1>6

LEMMA FailsFacts ==
  ASSUME Base, NEW n \in Node, Fails(n)
  PROVE  /\ Due(n) /\ Exits(n, "failed")
         /\ UNCHANGED <<generator, protocol, finalized, now, next, connecting, published>>
  BY DEF Fails, PublishWithoutPeers, InstructionFails

\* The steps that leave the scripts and the clock alone.
Networks ==
  \/ \E n, p \in Node : ConnectTo(n, p) \/ ConnectionClosed(n, p)
  \/ \E d \in dials : AcceptDial(d) \/ DialError(d)
  \/ \E o \in opening : ConnectionEstablished(o) \/ HandshakeError(o)

LEMMA NetworksFacts ==
  ASSUME SimulationTypes, Networks
  PROVE  /\ UNCHANGED <<generator, protocol, finalized, now, mode, next, published>>
         /\ dials' \subseteq Dials /\ opening' \subseteq Openings
         /\ connected' \subseteq Node \X Node
         /\ connecting' \in [Node -> SUBSET Node] /\ errors' \in Nat
<1>1. UNCHANGED <<generator, protocol, finalized, now, mode, next, published>>
  BY DEF Networks, ConnectTo, ConnectionClosed, AcceptDial, DialError, ConnectionEstablished, HandshakeError
<1> USE DEF SimulationTypes
<1>2. ASSUME NEW n \in Node, NEW p \in Node, ConnectTo(n, p)
      PROVE  /\ dials' \subseteq Dials /\ opening' \subseteq Openings
             /\ connected' \subseteq Node \X Node
             /\ connecting' \in [Node -> SUBSET Node] /\ errors' \in Nat
  <2>1. [from |-> n, to |-> p, since |-> now] \in Dials
    BY DEF Dials
  <2>2. connecting' = [connecting EXCEPT ![n] = connecting[n] \ {p}] /\ UNCHANGED <<opening, connected>>
    BY <1>2 DEF ConnectTo
  <2>3. \/ UNCHANGED <<dials, errors>>
        \/ dials' = dials \cup {[from |-> n, to |-> p, since |-> now]} /\ UNCHANGED errors
        \/ errors' = errors + 1 /\ UNCHANGED dials
    BY <1>2 DEF ConnectTo
  <2> QED
    BY <2>1, <2>2, <2>3
<1>3. ASSUME NEW n \in Node, NEW p \in Node, ConnectionClosed(n, p)
      PROVE  /\ dials' \subseteq Dials /\ opening' \subseteq Openings
             /\ connected' \subseteq Node \X Node
             /\ connecting' \in [Node -> SUBSET Node] /\ errors' \in Nat
  BY <1>3 DEF ConnectionClosed
<1>4. ASSUME NEW d \in dials, AcceptDial(d)
      PROVE  /\ dials' \subseteq Dials /\ opening' \subseteq Openings
             /\ connected' \subseteq Node \X Node
             /\ connecting' \in [Node -> SUBSET Node] /\ errors' \in Nat
  <2>1. d.from \in Node /\ d.to \in Node /\ d.since \in Nat
    BY DEF Dials
  <2>2. {[at |-> e[1], peer |-> e[2], since |-> d.since] : e \in {<<d.from, d.to>>, <<d.to, d.from>>}}
          \subseteq Openings
    BY <2>1 DEF Openings
  <2>3. /\ dials' = dials \ {d} /\ UNCHANGED <<connecting, errors>>
        /\ \/ /\ opening' = opening \cup {[at |-> e[1], peer |-> e[2], since |-> d.since] :
                                            e \in {<<d.from, d.to>>, <<d.to, d.from>>}}
              /\ UNCHANGED connected
           \/ connected' = connected \cup {<<d.from, d.to>>, <<d.to, d.from>>} /\ UNCHANGED opening
    BY <1>4 DEF AcceptDial
  <2> QED
    BY <2>1, <2>2, <2>3
<1>5. ASSUME NEW d \in dials, DialError(d)
      PROVE  /\ dials' \subseteq Dials /\ opening' \subseteq Openings
             /\ connected' \subseteq Node \X Node
             /\ connecting' \in [Node -> SUBSET Node] /\ errors' \in Nat
  BY <1>5 DEF DialError
<1>6. ASSUME NEW o \in opening, ConnectionEstablished(o) \/ HandshakeError(o)
      PROVE  /\ dials' \subseteq Dials /\ opening' \subseteq Openings
             /\ connected' \subseteq Node \X Node
             /\ connecting' \in [Node -> SUBSET Node] /\ errors' \in Nat
  <2>1. <<o.at, o.peer>> \in Node \X Node
    BY DEF Openings
  <2> QED
    BY <1>6, <2>1 DEF ConnectionEstablished, HandshakeError
<1> QED
  BY <1>1, <1>2, <1>3, <1>4, <1>5, <1>6 DEF Networks

\* The kinds of steps of the simulation.
LEMMA StepKinds ==
  ASSUME [Next]_vars
  PROVE  \/ Generate /\ ~finalized /\ UNCHANGED simulation
         \/ Finalize
         \/ \E n \in Node : Advances(n)
         \/ \E n \in Node : Fails(n)
         \/ \E n \in Node : GoConnect(n)
         \/ Networks
         \/ Tick
         \/ UNCHANGED vars
  BY DEF Next, Advances, Fails, Networks

LEMMA FinalizeFacts ==
  ASSUME GeneratorInv, SimulationTypes, Progress, Finalize
  PROVE  /\ ~finalized /\ finalized' = TRUE /\ Idle /\ now = 0
         /\ mode' \in [Node -> Modes]
         /\ \A n \in Node :
              \/ scripts[n] = <<>> /\ mode'[n] = "done"
              \/ 1 \in DOMAIN scripts[n] /\ mode'[n] \in {"waiting", "ready"}
         /\ UNCHANGED <<generator, protocol, now, next, dials, opening, connecting,
                        connected, published, errors>>
<1>1. /\ ~finalized /\ finalized' = TRUE /\ Idle /\ now = 0
      /\ mode' = [n \in Node |-> ModeAt(n, 1)]
      /\ UNCHANGED <<generator, protocol, now, next, dials, opening, connecting,
                     connected, published, errors>>
  BY DEF Finalize, Progress, Idle
<1>2. ASSUME NEW n \in Node
      PROVE  /\ mode'[n] \in Modes
             /\ \/ scripts[n] = <<>> /\ mode'[n] = "done"
                \/ 1 \in DOMAIN scripts[n] /\ mode'[n] \in {"waiting", "ready"}
  <2>1. scripts[n] \in Seq(Instructions) /\ now \in Nat
    BY DEF GeneratorInv, GeneratorTypes, SimulationTypes
  <2>2. mode'[n] = ModeAt(n, 1)
    BY <1>1
  <2>3. GeneratorTypes
    BY DEF GeneratorInv
  <2>4. CASE scripts[n] = <<>>
    <3>1. Len(scripts[n]) = 0 /\ 1 > 0 /\ 1 \in Nat
      BY <2>4
    <3>2. ModeAt(n, 1) = "done"
      BY <2>3, <3>1, ModeAtCases
    <3> QED
      BY <2>2, <2>4, <3>2 DEF Modes
  <2>5. CASE scripts[n] # <<>>
    <3>1. 1 \in DOMAIN scripts[n] /\ 1 > 0 /\ 1 \in Nat
      BY <2>1, <2>5, EmptySeq, LenProperties
    <3>2. scripts[n][1].at \in Nat
      BY <2>1, <3>1, ScriptElements
    <3>3. now < scripts[n][1].at => ModeAt(n, 1) = "waiting"
      BY <2>3, <3>1, ModeAtCases
    <3>4. now >= scripts[n][1].at => ModeAt(n, 1) = "ready"
      BY <2>3, <3>1, ModeAtCases
    <3>5. ModeAt(n, 1) \in {"waiting", "ready"}
      BY <2>1, <3>2, <3>3, <3>4
    <3> QED
      BY <2>2, <3>1, <3>5 DEF Modes
  <2> QED
    BY <2>4, <2>5
<1>3. mode' \in [Node -> Modes]
  BY <1>1, <1>2
<1> QED
  BY <1>1, <1>2, <1>3

-----------------------------------------------------------------------------
(* The types and the positions are kept.                                   *)

\* Nothing moves a node but its own steps and the clock.
LEMMA PositionKept ==
  ASSUME Base, finalized, NEW n \in Node, mode'[n] = mode[n], next'[n] = next[n],
         now' \in Nat, now' >= now, UNCHANGED <<scripts, protocol>>
  PROVE  Position(n)'
<1>1. scripts[n] \in Seq(Instructions)
  BY DEF Base, GeneratorInv, GeneratorTypes
<1>2. \A i \in DOMAIN scripts[n] : scripts[n][i].at \in Nat
  BY <1>1, ScriptElements
<1>3. Position(n) /\ now \in Nat
  BY DEF Base, Progress, SimulationTypes
<1> QED
  BY <1>2, <1>3 DEF Position

\* A node whose process ends before its last instruction fails.
LEMMA PositionFailed ==
  ASSUME Base, finalized, NEW n \in Node, mode'[n] = "failed", next'[n] = next[n],
         UNCHANGED <<scripts, protocol, now>>
  PROVE  Position(n)'
  BY DEF Base, Progress, Position

\* A node goes on.
LEMMA PositionAdvanced ==
  ASSUME Base, NEW n \in Node, Advances(n)
  PROVE  Position(n)'
<1>1. /\ finalized /\ next[n] \in DOMAIN scripts[n] /\ next[n] > 0 /\ next[n] \in Nat
      /\ scripts[n][next[n]].at <= now /\ now \in Nat
  BY AdvancesFacts, DueFacts
<1>2. UNCHANGED <<scripts, protocol, now>>
  BY AdvancesFacts DEF generator
<1>3. /\ next'[n] = next[n] + 1
      /\ \/ /\ next[n] + 1 \in DOMAIN scripts[n]
            /\ mode'[n] \in {"waiting", "ready"}
         \/ next[n] + 1 > Len(scripts[n]) /\ mode'[n] = "done"
  <2>1. /\ Started(n) \in SUBSET Dials /\ Proceeds(n, Started(n))
        /\ GeneratorTypes /\ SimulationTypes
    BY AdvancesFacts DEF Base, GeneratorInv
  <2> QED
    BY <1>1, <2>1, ProceedsStep
<1>4. \A i \in DOMAIN scripts[n] : i < next[n] + 1 => scripts[n][i].at <= now
  <2>1. Position(n)
    BY <1>1 DEF Base, Progress
  <2>2. scripts[n] \in Seq(Instructions)
    BY DEF Base, GeneratorInv, GeneratorTypes
  <2>3. \A i \in DOMAIN scripts[n] : i \in Nat
    BY <2>2
  <2>4. \A i \in DOMAIN scripts[n] : i < next[n] + 1 => i < next[n] \/ i = next[n]
    BY <1>1, <2>3
  <2> QED
    BY <1>1, <2>1, <2>4 DEF Position
<1> QED
  BY <1>2, <1>3, <1>4 DEF Position

LEMMA BaseStutters ==
  ASSUME Base, UNCHANGED simulation, (Generate /\ ~finalized) \/ UNCHANGED generator
  PROVE  Base'
<1>1. GeneratorInv'
  BY GeneratorStep, GeneratorStutters DEF Base
<1>2. UNCHANGED <<protocol, finalized, now, mode, next, dials, opening, connecting,
                  connected, published, errors>>
  BY DEF simulation
<1>3. SimulationTypes'
  BY <1>2 DEF Base, SimulationTypes
<1>4. CASE ~finalized
  BY <1>1, <1>2, <1>3, <1>4 DEF Base, Progress, Idle
<1>5. CASE UNCHANGED generator
  BY <1>1, <1>2, <1>3, <1>5 DEF Base, Progress, Idle, Position, generator
<1> QED
  BY <1>1, <1>2, <1>3, <1>4, <1>5

LEMMA BaseFinalize ==
  ASSUME Base, Finalize
  PROVE  SimulationTypes' /\ Progress'
<1>1. /\ ~finalized /\ finalized' = TRUE /\ Idle /\ now = 0
      /\ mode' \in [Node -> Modes]
      /\ \A n \in Node :
           \/ scripts[n] = <<>> /\ mode'[n] = "done"
           \/ 1 \in DOMAIN scripts[n] /\ mode'[n] \in {"waiting", "ready"}
      /\ UNCHANGED <<generator, protocol, now, next, dials, opening, connecting,
                     connected, published, errors>>
  BY FinalizeFacts DEF Base
<1>2. SimulationTypes'
  BY <1>1 DEF Base, SimulationTypes
<1>3. ASSUME NEW n \in Node
      PROVE  Position(n)' /\ next'[n] > 0
  <2>1. next[n] = 1 /\ next'[n] = 1 /\ scripts'[n] = scripts[n] /\ protocol' = protocol /\ now' = 0
    BY <1>1 DEF Idle, generator
  <2>2. scripts[n] \in Seq(Instructions)
    BY DEF Base, GeneratorInv, GeneratorTypes
  <2>3. \A i \in DOMAIN scripts[n] : ~(i < 1)
    BY <2>2
  <2>4. mode'[n] = "done" => scripts[n] = <<>>
    BY <1>1
  <2>5. mode'[n] # "done" => 1 \in DOMAIN scripts[n] /\ mode'[n] \in {"waiting", "ready"}
    BY <1>1
  <2>6. mode'[n] = "done" => 1 > Len(scripts[n])
    BY <2>4
  <2> QED
    BY <2>1, <2>3, <2>5, <2>6 DEF Position
<1> QED
  BY <1>1, <1>2, <1>3 DEF Progress

LEMMA BaseAdvances ==
  ASSUME Base, NEW n \in Node, Advances(n)
  PROVE  SimulationTypes' /\ Progress'
<1>1. /\ finalized /\ next[n] \in DOMAIN scripts[n] /\ next[n] > 0 /\ next[n] \in Nat /\ now \in Nat
  BY AdvancesFacts, DueFacts
<1>2. UNCHANGED <<scripts, protocol, finalized, now, connecting, errors>>
  BY AdvancesFacts DEF generator
<1>3. /\ next' \in [Node -> Nat] /\ next'[n] = next[n] + 1 /\ mode' \in [Node -> Modes]
      /\ \A p \in Node \ {n} : mode'[p] = mode[p] /\ next'[p] = next[p]
      /\ dials' \subseteq Dials /\ opening' \subseteq opening /\ connected' \subseteq connected
  <2>1. /\ Started(n) \in SUBSET Dials /\ Proceeds(n, Started(n))
        /\ GeneratorTypes /\ SimulationTypes
    BY AdvancesFacts DEF Base, GeneratorInv
  <2> QED
    BY <1>1, <2>1, ProceedsStep
<1>4. SimulationTypes'
  BY <1>2, <1>3 DEF Base, SimulationTypes
<1>5. ASSUME NEW p \in Node PROVE Position(p)' /\ next'[p] > 0
  <2>1. CASE p = n
    BY <1>1, <1>3, <2>1, PositionAdvanced
  <2>2. CASE p # n
    <3>1. mode'[p] = mode[p] /\ next'[p] = next[p] /\ next[p] > 0
      BY <1>3, <2>2 DEF Base, Progress
    <3>2. now' \in Nat /\ now' >= now
      BY <1>1, <1>2
    <3> QED
      BY <1>1, <1>2, <3>1, <3>2, PositionKept
  <2> QED
    BY <2>1, <2>2
<1> QED
  BY <1>1, <1>2, <1>4, <1>5 DEF Progress

LEMMA BaseFails ==
  ASSUME Base, NEW n \in Node, Fails(n)
  PROVE  SimulationTypes' /\ Progress'
<1>1. /\ finalized /\ next[n] \in Nat /\ now \in Nat
  BY FailsFacts, DueFacts
<1>2. UNCHANGED <<scripts, protocol, finalized, now, next, connecting>>
  BY FailsFacts DEF generator
<1>3. /\ mode' \in [Node -> Modes] /\ mode'[n] = "failed"
      /\ \A p \in Node \ {n} : mode'[p] = mode[p]
      /\ dials' \subseteq dials /\ opening' \subseteq opening /\ connected' \subseteq connected
  <2>1. Exits(n, "failed") /\ SimulationTypes
    BY FailsFacts DEF Base
  <2> QED
    BY <2>1, ExitsStep
<1>4. errors' \in Nat
  BY DEF Base, SimulationTypes, Fails, PublishWithoutPeers, InstructionFails
<1>5. SimulationTypes'
  BY <1>2, <1>3, <1>4 DEF Base, SimulationTypes
<1>6. ASSUME NEW p \in Node PROVE Position(p)' /\ next'[p] > 0
  <2>1. next'[p] = next[p] /\ next[p] > 0
    BY <1>2 DEF Base, Progress
  <2>2. CASE p = n
    BY <1>1, <1>2, <1>3, <2>1, <2>2, PositionFailed
  <2>3. CASE p # n
    <3>1. mode'[p] = mode[p]
      BY <1>3, <2>3
    <3>2. now' \in Nat /\ now' >= now
      BY <1>1, <1>2
    <3> QED
      BY <1>1, <1>2, <2>1, <3>1, <3>2, PositionKept
  <2> QED
    BY <2>1, <2>2, <2>3
<1> QED
  BY <1>1, <1>2, <1>5, <1>6 DEF Progress

LEMMA BaseConnects ==
  ASSUME Base, NEW n \in Node, GoConnect(n)
  PROVE  SimulationTypes' /\ Progress'
<1>1. /\ finalized /\ next[n] \in DOMAIN scripts[n] /\ next[n] \in Nat /\ now \in Nat
      /\ scripts[n][next[n]].at <= now
      /\ scripts[n][next[n]].connect \in SUBSET Node
  BY DueFacts DEF GoConnect
<1>2. /\ UNCHANGED <<scripts, protocol, finalized, now, next, dials, opening, connected,
                     published, errors>>
      /\ mode' = [mode EXCEPT ![n] = "connecting"] /\ protocol = "gossipsub"
      /\ connecting' = [connecting EXCEPT ![n] = scripts[n][next[n]].connect]
  BY DEF GoConnect, generator
<1>3. /\ mode' \in [Node -> Modes] /\ mode'[n] = "connecting"
      /\ \A p \in Node \ {n} : mode'[p] = mode[p]
  BY <1>2 DEF Base, SimulationTypes, Modes
<1>4. connecting' \in [Node -> SUBSET Node]
  BY <1>1, <1>2 DEF Base, SimulationTypes
<1>5. SimulationTypes'
  BY <1>2, <1>3, <1>4 DEF Base, SimulationTypes
<1>6. ASSUME NEW p \in Node PROVE Position(p)' /\ next'[p] > 0
  <2>1. next'[p] = next[p] /\ next[p] > 0 /\ Position(p)
    BY <1>1, <1>2 DEF Base, Progress
  <2>2. CASE p = n
    BY <1>1, <1>2, <1>3, <2>1, <2>2 DEF Position
  <2>3. CASE p # n
    BY <1>2, <1>3, <2>1, <2>3 DEF Position
  <2> QED
    BY <2>1, <2>2, <2>3
<1> QED
  BY <1>1, <1>2, <1>5, <1>6 DEF Progress

LEMMA BaseNetworks ==
  ASSUME Base, Networks
  PROVE  SimulationTypes' /\ Progress'
<1>1. /\ UNCHANGED <<scripts, protocol, finalized, now, mode, next, published>>
      /\ dials' \subseteq Dials /\ opening' \subseteq Openings
      /\ connected' \subseteq Node \X Node
      /\ connecting' \in [Node -> SUBSET Node] /\ errors' \in Nat
  BY NetworksFacts DEF Base, generator
<1>2. SimulationTypes'
  BY <1>1 DEF Base, SimulationTypes
<1>3. finalized
  BY DEF Base, Progress, Idle, Networks, ConnectTo, ConnectionClosed
<1>4. \A p \in Node : Position(p) /\ next[p] > 0
  BY <1>3 DEF Base, Progress
<1>5. \A p \in Node : Position(p)' /\ next'[p] > 0
  BY <1>1, <1>4 DEF Position
<1> QED
  BY <1>1, <1>2, <1>3, <1>5 DEF Progress

LEMMA BaseTick ==
  ASSUME Base, Tick
  PROVE  SimulationTypes' /\ Progress'
<1>1. /\ finalized /\ now' = now + 1 /\ now \in Nat
      /\ UNCHANGED <<scripts, protocol, finalized, mode, next, dials, opening, connecting,
                     connected, published, errors>>
  BY DEF Tick, Base, SimulationTypes, generator
<1>2. SimulationTypes'
  BY <1>1 DEF Base, SimulationTypes
<1>3. now' \in Nat /\ now' >= now
  BY <1>1
<1>4. \A p \in Node : Position(p)' /\ next'[p] > 0
  BY <1>1, <1>3, PositionKept DEF Base, Progress
<1> QED
  BY <1>1, <1>2, <1>4 DEF Progress

LEMMA BaseStep ==
  ASSUME Base, [Next]_vars
  PROVE  Base'
<1>1. UNCHANGED vars => UNCHANGED generator /\ UNCHANGED simulation
  BY DEF vars
<1>2. Finalize => UNCHANGED generator
  BY DEF Finalize
<1>3. \A n \in Node : Advances(n) => UNCHANGED generator
  BY AdvancesFacts
<1>4. \A n \in Node : Fails(n) => UNCHANGED generator
  BY FailsFacts
<1>5. \A n \in Node : GoConnect(n) => UNCHANGED generator
  BY DEF GoConnect
<1>6. Networks => UNCHANGED generator
  BY NetworksFacts DEF Base
<1>7. Tick => UNCHANGED generator
  BY DEF Tick
<1>8. UNCHANGED generator => GeneratorInv'
  BY GeneratorStutters DEF Base
<1>9. CASE (Generate /\ ~finalized /\ UNCHANGED simulation) \/ UNCHANGED vars
  BY <1>1, <1>9, BaseStutters
<1>10. CASE Finalize
  BY <1>2, <1>8, <1>10, BaseFinalize DEF Base
<1>11. CASE \E n \in Node : Advances(n)
  BY <1>3, <1>8, <1>11, BaseAdvances DEF Base
<1>12. CASE \E n \in Node : Fails(n)
  BY <1>4, <1>8, <1>12, BaseFails DEF Base
<1>13. CASE \E n \in Node : GoConnect(n)
  BY <1>5, <1>8, <1>13, BaseConnects DEF Base
<1>14. CASE Networks
  BY <1>6, <1>8, <1>14, BaseNetworks DEF Base
<1>15. CASE Tick
  BY <1>7, <1>8, <1>15, BaseTick DEF Base
<1> QED
  BY StepKinds, <1>9, <1>10, <1>11, <1>12, <1>13, <1>14, <1>15

LEMMA BaseInit ==
  ASSUME Init PROVE Base
<1>1. GeneratorInv
  BY GeneratorInit DEF Init
<1>2. SimulationTypes
  BY DEF Init, SimulationTypes, Modes
<1>3. ~finalized /\ Idle /\ \A n \in Node : next[n] > 0
  BY DEF Init, Idle
<1> QED
  BY <1>1, <1>2, <1>3 DEF Base, Progress

LEMMA BaseInvariant == Spec => []Base
  BY BaseInit, BaseStep, PTL DEF Spec

\* A node of a phase that is done has been at the instruction for its end.
LEMMA PhaseEnds ==
  ASSUME Base PROVE PhaseHeld
<1> SUFFICES ASSUME finalized, NEW k \in DOMAIN phases, NEW n \in phases[k].nodes,
                    mode[n] = "done"
             PROVE  now >= phases[k].end
  BY DEF PhaseHeld
<1>1. phases[k] \in PhaseInfo /\ n \in Node /\ phases[k].end \in Nat
  <2>1. GeneratorTypes
    BY DEF Base, GeneratorInv
  <2> QED
    BY <2>1, PhaseElements
<1>2. PICK i \in DOMAIN scripts[n] : scripts[n][i].at = phases[k].end
  BY DEF Base, GeneratorInv, History, Applied
<1>3. Position(n) /\ now \in Nat /\ next[n] \in Nat
  BY <1>1 DEF Base, Progress, SimulationTypes
<1>4. scripts[n] \in Seq(Instructions)
  BY <1>1 DEF Base, GeneratorInv, GeneratorTypes
<1>5. next[n] > Len(scripts[n])
  BY <1>3 DEF Position
<1>6. i < next[n]
  BY <1>3, <1>4, <1>5
<1> QED
  BY <1>1, <1>2, <1>3, <1>6 DEF Position

\* For any scenario, a node of a phase runs until the phase has ended: its
\* script holds an instruction for that time, and it is not done before.
THEOREM NodesStayForPhases == Spec => []PhaseHeld
  BY BaseInvariant, PhaseEnds, PTL

-----------------------------------------------------------------------------
(* What the nodes do in time.                                              *)

\* The time by which a Go node has made the dials of its first instruction.
Setup(n) == scripts[n][1].at + DialTime * Cardinality(scripts[n][1].connect)

\* A node that dials has the time for the dials it has yet to make, and for the
\* one it makes.
InTime(n) ==
  /\ next[n] = 1 /\ scripts[n][1].connect # {}
  /\ connecting[n] \subseteq scripts[n][1].connect
  /\ now + DialTime * Cardinality(connecting[n]) <= Setup(n)
  /\ \A d \in dials : d.from = n =>
       d.since + DialTime * (Cardinality(connecting[n]) + 1) <= Setup(n)

\* No node is late for its instruction, but for a Go node whose dials take time.
Punctual(n) ==
  /\ mode[n] \in {"waiting", "ready"} =>
       \/ now <= scripts[n][next[n]].at
       \/ protocol = "gossipsub" /\ next[n] > 1 /\ now <= Setup(n)
  /\ mode[n] = "connecting" => InTime(n)

\* No dial, with its handshake, is older than DialTime, and the dials of a Go node
\* are those it waits for.
Young == \A x \in dials \cup opening : now <= x.since + DialTime
Awaited == protocol = "gossipsub" => \A d \in dials : mode[d.from] = "connecting"

Clock ==
  /\ Young /\ Awaited
  /\ finalized => \A n \in Node : Punctual(n)

\* The numbers in these.
LEMMA SetupFacts ==
  ASSUME Base, NEW n \in Node, scripts[n] # <<>>
  PROVE  /\ 1 \in DOMAIN scripts[n] /\ scripts[n][1].at \in Nat
         /\ Cardinality(scripts[n][1].connect) \in Nat /\ DialTime \in Nat
         /\ DialTime * Cardinality(scripts[n][1].connect) \in Nat
         /\ Setup(n) \in Nat /\ scripts[n][1].at <= Setup(n)
<1>1. scripts[n] \in Seq(Instructions)
  BY DEF Base, GeneratorInv, GeneratorTypes
<1>2. 1 \in DOMAIN scripts[n]
  BY <1>1, EmptySeq, LenProperties
<1>3. scripts[n][1].at \in Nat /\ scripts[n][1].connect \in SUBSET Node
  BY <1>1, <1>2, ScriptElements
<1>4. Cardinality(scripts[n][1].connect) \in Nat
  <2>1. IsFiniteSet(scripts[n][1].connect)
    BY <1>3, ExperimentAssumption, FS_Subset
  <2> QED
    BY <2>1, FS_CardinalityType
<1>5. DialTime \in Nat
  BY ScriptedNodesAssumption
<1>6. DialTime * Cardinality(scripts[n][1].connect) \in Nat
  BY <1>4, <1>5
<1> QED
  BY <1>2, <1>3, <1>4, <1>5, <1>6 DEF Setup

LEMMA ConnectingFacts ==
  ASSUME Base, NEW n \in Node
  PROVE  /\ IsFiniteSet(connecting[n]) /\ Cardinality(connecting[n]) \in Nat /\ DialTime \in Nat
         /\ DialTime * Cardinality(connecting[n]) \in Nat
         /\ DialTime * (Cardinality(connecting[n]) + 1)
              = DialTime * Cardinality(connecting[n]) + DialTime
<1>1. connecting[n] \in SUBSET Node
  BY DEF Base, SimulationTypes
<1>2. IsFiniteSet(connecting[n])
  BY <1>1, ExperimentAssumption, FS_Subset
<1>3. Cardinality(connecting[n]) \in Nat
  BY <1>2, FS_CardinalityType
<1>4. DialTime \in Nat
  BY ScriptedNodesAssumption
<1> QED
  BY <1>2, <1>3, <1>4

\* A node is as punctual as it was if nothing of it changes.
LEMMA PunctualKept ==
  ASSUME NEW n \in Node, Punctual(n),
         mode'[n] = mode[n], next'[n] = next[n], connecting'[n] = connecting[n],
         UNCHANGED <<scripts, protocol, now>>,
         \A d \in dials' : d.from = n => d \in dials
  PROVE  Punctual(n)'
<1>1. Setup(n)' = Setup(n)
  BY DEF Setup
<1> HIDE DEF Setup
<1>2. InTime(n) => InTime(n)'
  BY <1>1 DEF InTime
<1> QED
  BY <1>1, <1>2 DEF Punctual

LEMMA YoungKept ==
  ASSUME Base, Young, now' = now,
         \A x \in dials' \cup opening' :
           x.since = now \/ \E y \in dials \cup opening : x.since = y.since
  PROVE  Young'
<1>1. now \in Nat /\ DialTime \in Nat
  BY ScriptedNodesAssumption DEF Base, SimulationTypes
<1> QED
  BY <1>1 DEF Young

LEMMA ClockAdvances ==
  ASSUME Base, Clock, NEW n \in Node, Advances(n)
  PROVE  Clock'
<1>1. /\ finalized /\ next[n] \in DOMAIN scripts[n] /\ next[n] > 0 /\ next[n] \in Nat
      /\ scripts[n][next[n]].at \in Nat /\ scripts[n][next[n]].at <= now /\ now \in Nat
  BY AdvancesFacts, DueFacts
<1>2. UNCHANGED <<scripts, protocol, finalized, now, connecting>>
  BY AdvancesFacts DEF generator
<1>3. /\ next'[n] = next[n] + 1
      /\ \A p \in Node \ {n} : mode'[p] = mode[p] /\ next'[p] = next[p]
      /\ dials' \subseteq dials \cup Started(n) /\ opening' \subseteq opening
      /\ \/ next[n] + 1 \in DOMAIN scripts[n] /\ mode'[n] \in {"waiting", "ready"}
         \/ mode'[n] = "done"
  <2>1. /\ Started(n) \in SUBSET Dials /\ Proceeds(n, Started(n))
        /\ GeneratorTypes /\ SimulationTypes
    BY AdvancesFacts DEF Base, GeneratorInv
  <2>2. ASSUME Exits(n, "done") PROVE dials' \subseteq dials
    BY <2>1, <2>2, ExitsStep
  <2> QED
    BY <1>1, <2>1, <2>2, ProceedsStep
<1>4. \A d \in Started(n) : d.since = now /\ d.from = n
  BY DEF Started
<1>5. Young'
  <2>1. \A x \in dials' \cup opening' : x.since = now \/ \E y \in dials \cup opening : x.since = y.since
    BY <1>3, <1>4
  <2> QED
    BY <1>2, <2>1, YoungKept DEF Clock
<1>6. Awaited'
  <2> SUFFICES ASSUME protocol = "gossipsub", NEW d \in dials' PROVE mode'[d.from] = "connecting"
    BY <1>2 DEF Awaited
  <2>1. Started(n) = {}
    BY DEF Started
  <2>2. d \in dials /\ mode[d.from] = "connecting" /\ d.from \in Node
    BY <1>3, <2>1 DEF Clock, Awaited, Base, SimulationTypes, Dials
  <2>3. ~RunInstruction(n)
    BY DEF RunInstruction
  <2>4. d.from # n
    <3>1. CASE GoInstruction(n)
      BY <2>2, <3>1 DEF GoInstruction, Due
    <3>2. CASE ConnectReturns(n)
      BY <2>2, <3>2 DEF ConnectReturns, Dialling
    <3> QED
      BY <2>3, <3>1, <3>2 DEF Advances
  <2> QED
    BY <1>3, <2>2, <2>4
<1>7. Punctual(n)'
  <2> SUFFICES ASSUME next[n] + 1 \in DOMAIN scripts[n], mode'[n] \in {"waiting", "ready"}
               PROVE  Punctual(n)'
    BY <1>3 DEF Punctual
  <2>1. Punctual(n)
    BY <1>1 DEF Clock
  <2>2. scripts[n] # <<>>
    BY <1>1
  <2>3. Setup(n)' = Setup(n)
    BY <1>2 DEF Setup
  <2>4. Setup(n) \in Nat
    BY <2>2, SetupFacts
  <2>5. scripts[n][next[n]].at <= scripts[n][next[n] + 1].at /\ scripts[n][next[n] + 1].at \in Nat
    <3>1. scripts[n] \in Seq(Instructions) /\ Sorted(scripts[n])
      BY DEF Base, GeneratorInv, GeneratorTypes, Times
    <3>2. next[n] < next[n] + 1
      BY <1>1
    <3>3. scripts[n][next[n]].at <= scripts[n][next[n] + 1].at
      BY <1>1, <3>1, <3>2 DEF Sorted
    <3>4. scripts[n][next[n] + 1].at \in Nat
      BY <3>1, ScriptElements
    <3> QED
      BY <3>3, <3>4
  <2> HIDE DEF Setup
  <2>6. \/ now <= scripts[n][next[n] + 1].at
        \/ protocol = "gossipsub" /\ next[n] + 1 > 1 /\ now <= Setup(n)
    <3>1. CASE mode[n] \in {"waiting", "ready"}
      BY <1>1, <2>1, <2>4, <2>5, <3>1 DEF Punctual
    <3>2. CASE mode[n] = "connecting"
      <4>1. protocol = "gossipsub"
        BY <1>1, <3>2 DEF Base, Progress, Position
      <4>2. now + DialTime * Cardinality(connecting[n]) <= Setup(n)
        BY <2>1, <3>2 DEF Punctual, InTime
      <4>3. DialTime * Cardinality(connecting[n]) \in Nat
        BY ConnectingFacts
      <4>4. now <= Setup(n)
        BY <1>1, <2>4, <4>2, <4>3
      <4> QED
        BY <1>1, <4>1, <4>4
    <3> QED
      BY <3>1, <3>2, AdvancesFacts DEF Due
  <2> QED
    BY <1>2, <1>3, <2>3, <2>6 DEF Punctual
<1>8. ASSUME NEW p \in Node, p # n PROVE Punctual(p)'
  <2>1. Punctual(p) /\ mode'[p] = mode[p] /\ next'[p] = next[p] /\ connecting'[p] = connecting[p]
    BY <1>1, <1>2, <1>3, <1>8 DEF Clock
  <2>2. \A d \in dials' : d.from = p => d \in dials
    BY <1>3, <1>4, <1>8
  <2> QED
    BY <1>2, <2>1, <2>2, PunctualKept
<1> QED
  BY <1>5, <1>6, <1>7, <1>8 DEF Clock

LEMMA ClockFails ==
  ASSUME Base, Clock, NEW n \in Node, Fails(n)
  PROVE  Clock'
<1>1. finalized /\ next' = next
  BY FailsFacts, DueFacts
<1>2. UNCHANGED <<scripts, protocol, finalized, now, connecting>>
  BY FailsFacts DEF generator
<1>3. /\ mode'[n] = "failed" /\ \A p \in Node \ {n} : mode'[p] = mode[p]
      /\ dials' = {d \in dials : d.from # n} /\ dials' \subseteq dials /\ opening' \subseteq opening
  <2>1. Exits(n, "failed") /\ SimulationTypes
    BY FailsFacts DEF Base
  <2> QED
    BY <2>1, ExitsStep
<1>4. Young'
  BY <1>2, <1>3, YoungKept DEF Clock
<1>5. Awaited'
  <2>1. \A d \in dials' : d \in dials /\ d.from # n /\ d.from \in Node
    BY <1>3 DEF Base, SimulationTypes, Dials
  <2> QED
    BY <1>2, <1>3, <2>1 DEF Clock, Awaited
<1>6. ASSUME NEW p \in Node PROVE Punctual(p)'
  <2>1. CASE p = n
    BY <1>3, <2>1 DEF Punctual
  <2>2. CASE p # n
    <3>1. Punctual(p) /\ mode'[p] = mode[p] /\ next'[p] = next[p] /\ connecting'[p] = connecting[p]
      BY <1>1, <1>2, <1>3, <2>2 DEF Clock
    <3> QED
      BY <1>2, <1>3, <3>1, PunctualKept
  <2> QED
    BY <2>1, <2>2
<1> QED
  BY <1>4, <1>5, <1>6 DEF Clock

LEMMA ClockConnects ==
  ASSUME Base, Clock, NEW n \in Node, GoConnect(n)
  PROVE  Clock'
<1>1. /\ finalized /\ next[n] \in DOMAIN scripts[n] /\ next[n] \in Nat /\ now \in Nat
      /\ scripts[n][next[n]].connect # {} /\ mode[n] \in {"waiting", "ready"}
  BY DueFacts DEF GoConnect, Due
<1>2. /\ UNCHANGED <<scripts, protocol, finalized, now, next, dials, opening>>
      /\ mode' = [mode EXCEPT ![n] = "connecting"] /\ protocol = "gossipsub"
      /\ connecting' = [connecting EXCEPT ![n] = scripts[n][next[n]].connect]
  BY DEF GoConnect, generator
<1>3. /\ mode'[n] = "connecting" /\ connecting'[n] = scripts[n][next[n]].connect
      /\ \A p \in Node \ {n} : mode'[p] = mode[p] /\ connecting'[p] = connecting[p]
  BY <1>2 DEF Base, SimulationTypes
<1>4. next[n] = 1
  BY <1>1 DEF Base, GeneratorInv, Connects
<1>5. \A d \in dials : d.from # n
  BY <1>1, <1>2 DEF Clock, Awaited
<1>6. Young'
  BY <1>2 DEF Clock, Young
<1>7. Awaited'
  <2>1. \A d \in dials : d.from \in Node \ {n}
    BY <1>5 DEF Base, SimulationTypes, Dials
  <2> QED
    BY <1>2, <1>3, <2>1 DEF Clock, Awaited
<1>8. Punctual(n)'
  <2>1. now <= scripts[n][1].at
    BY <1>1, <1>4 DEF Clock, Punctual
  <2>2. /\ scripts[n][1].at \in Nat /\ DialTime * Cardinality(scripts[n][1].connect) \in Nat
    BY <1>1, SetupFacts
  <2>3. now + DialTime * Cardinality(scripts[n][1].connect) <= Setup(n)
    BY <1>1, <2>1, <2>2 DEF Setup
  <2>4. Setup(n)' = Setup(n)
    BY <1>2 DEF Setup
  <2> HIDE DEF Setup
  <2>5. InTime(n)'
    BY <1>1, <1>2, <1>3, <1>4, <1>5, <2>3, <2>4 DEF InTime
  <2> QED
    BY <1>3, <2>5 DEF Punctual
<1>9. ASSUME NEW p \in Node, p # n PROVE Punctual(p)'
  <2>1. Punctual(p) /\ mode'[p] = mode[p] /\ next'[p] = next[p] /\ connecting'[p] = connecting[p]
    BY <1>1, <1>2, <1>3, <1>9 DEF Clock
  <2> QED
    BY <1>2, <2>1, PunctualKept
<1> QED
  BY <1>6, <1>7, <1>8, <1>9 DEF Clock

LEMMA ClockDials ==
  ASSUME Base, Clock, NEW n \in Node, NEW p \in Node, ConnectTo(n, p)
  PROVE  Clock'
<1>1. finalized /\ mode[n] = "connecting" /\ now \in Nat /\ protocol = "gossipsub"
  BY DEF ConnectTo, Base, Progress, Idle, Position, SimulationTypes
<1>2. /\ UNCHANGED <<scripts, protocol, finalized, now, next, mode, opening>>
      /\ p \in connecting[n] /\ (\A d \in dials : d.from # n)
      /\ connecting' = [connecting EXCEPT ![n] = connecting[n] \ {p}]
      /\ dials' \subseteq dials \cup {[from |-> n, to |-> p, since |-> now]}
  BY DEF ConnectTo, generator, Dialling
<1>3. /\ connecting'[n] = connecting[n] \ {p}
      /\ \A q \in Node \ {n} : connecting'[q] = connecting[q]
  BY <1>2 DEF Base, SimulationTypes
<1>4. \A d \in dials' : d \in dials \/ (d.since = now /\ d.from = n)
  BY <1>2
<1>5. Young'
  BY <1>2, <1>4, YoungKept DEF Clock
<1>6. Awaited'
  BY <1>1, <1>2, <1>4 DEF Clock, Awaited
<1>7. Punctual(n)'
  <2> DEFINE c == Cardinality(connecting[n])
  <2>1. c \in Nat /\ DialTime \in Nat /\ IsFiniteSet(connecting[n])
    BY ConnectingFacts
  <2>2. Cardinality(connecting'[n]) = c - 1 /\ c > 0
    <3>1. Cardinality(connecting[n] \ {p}) = c - 1
      BY <1>2, <2>1, FS_RemoveElement
    <3>2. connecting[n] # {}
      BY <1>2
    <3>3. c # 0
      BY <2>1, <3>2, FS_EmptySet
    <3> QED
      BY <1>3, <2>1, <3>1, <3>3
  <2>3. InTime(n)
    BY <1>1 DEF Clock, Punctual
  <2>4. Setup(n)' = Setup(n) /\ Setup(n) \in Nat
    <3>1. scripts[n] # <<>>
      BY <1>1 DEF Base, Progress, Position
    <3>2. Setup(n) \in Nat
      BY <3>1, SetupFacts
    <3>3. Setup(n)' = Setup(n)
      BY <1>2 DEF Setup
    <3> QED
      BY <3>2, <3>3
  <2> HIDE DEF Setup
  <2>5. now + DialTime * c <= Setup(n)
    BY <2>3 DEF InTime
  <2> HIDE DEF c
  <2>6. DialTime * c = DialTime * (c - 1) + DialTime /\ DialTime * (c - 1) \in Nat
    BY <2>1, <2>2
  <2>7. now + DialTime * (c - 1) <= Setup(n)
    BY <1>1, <2>1, <2>4, <2>5, <2>6
  <2>8. (c - 1) + 1 = c
    BY <2>1
  <2>9. \A d \in dials' : d.from = n => d.since + DialTime * ((c - 1) + 1) <= Setup(n)
    BY <1>2, <1>4, <2>5, <2>8
  <2>10. InTime(n)'
    BY <1>2, <1>3, <2>2, <2>3, <2>4, <2>7, <2>9 DEF InTime
  <2> QED
    BY <1>1, <1>2, <2>10 DEF Punctual
<1>8. ASSUME NEW q \in Node, q # n PROVE Punctual(q)'
  <2>1. Punctual(q) /\ mode'[q] = mode[q] /\ next'[q] = next[q] /\ connecting'[q] = connecting[q]
    BY <1>1, <1>2, <1>3, <1>8 DEF Clock
  <2>2. \A d \in dials' : d.from = q => d \in dials
    BY <1>4, <1>8
  <2> QED
    BY <1>2, <2>1, <2>2, PunctualKept
<1> QED
  BY <1>5, <1>6, <1>7, <1>8 DEF Clock

\* The other steps of the network start no dial.
Settles ==
  \/ \E n, p \in Node : ConnectionClosed(n, p)
  \/ \E d \in dials : AcceptDial(d) \/ DialError(d)
  \/ \E o \in opening : ConnectionEstablished(o) \/ HandshakeError(o)

LEMMA ClockSettles ==
  ASSUME Base, Clock, Settles
  PROVE  Clock'
<1>1. finalized
  BY DEF Settles, ConnectionClosed, AcceptDial, DialError, ConnectionEstablished, HandshakeError, Polling
<1>2. UNCHANGED <<scripts, protocol, finalized, now, next, mode, connecting>> /\ dials' \subseteq dials
  BY DEF Settles, ConnectionClosed, AcceptDial, DialError, ConnectionEstablished, HandshakeError, generator
<1>3. \A x \in opening' : \E y \in dials \cup opening : x.since = y.since
  <2>1. ASSUME NEW d \in dials, AcceptDial(d)
        PROVE  \A x \in opening' : x \in opening \/ x.since = d.since
    BY <2>1 DEF AcceptDial
  <2>2. ASSUME ~(\E d \in dials : AcceptDial(d))
        PROVE  opening' \subseteq opening
    BY <2>2 DEF Settles, ConnectionClosed, DialError, ConnectionEstablished, HandshakeError
  <2> QED
    BY <2>1, <2>2
<1>4. Young'
  BY <1>2, <1>3, YoungKept DEF Clock
<1>5. Awaited'
  BY <1>2 DEF Clock, Awaited
<1>6. \A p \in Node : Punctual(p)'
  BY <1>1, <1>2, PunctualKept DEF Clock
<1> QED
  BY <1>4, <1>5, <1>6 DEF Clock

LEMMA ClockTick ==
  ASSUME Base, Clock, Tick
  PROVE  Clock'
<1>1. /\ finalized /\ now' = now + 1 /\ now \in Nat /\ DialTime \in Nat
      /\ UNCHANGED <<scripts, protocol, finalized, mode, next, dials, opening, connecting>>
  BY ScriptedNodesAssumption DEF Tick, Base, SimulationTypes, generator
<1>2. \A x \in dials \cup opening : x.since \in Nat /\ now + 1 <= x.since + DialTime
  <2>1. \A x \in dials \cup opening : x.since \in Nat
    BY DEF Base, SimulationTypes, Dials, Openings
  <2>2. \A x \in dials \cup opening : now - x.since < DialTime
    BY DEF Tick
  <2> QED
    BY <1>1, <2>1, <2>2
<1>3. Young'
  BY <1>1, <1>2 DEF Young
<1>4. Awaited'
  BY <1>1 DEF Clock, Awaited
<1>5. ASSUME NEW n \in Node PROVE Punctual(n)'
  <2>1. CASE Ended(n)
    BY <1>1, <2>1 DEF Ended, Punctual
  <2>2. CASE mode[n] = "waiting" /\ now < scripts[n][next[n]].at
    <3>1. next[n] \in DOMAIN scripts[n] /\ scripts[n] \in Seq(Instructions)
      BY <1>1, <2>2 DEF Base, Progress, Position, GeneratorInv, GeneratorTypes
    <3>2. scripts[n][next[n]].at \in Nat
      BY <3>1, ScriptElements
    <3>3. now + 1 <= scripts[n][next[n]].at
      BY <1>1, <2>2, <3>2
    <3> QED
      BY <1>1, <2>2, <3>3 DEF Punctual
  <2>3. CASE mode[n] = "connecting" /\ Dialling(n)
    <3> DEFINE c == Cardinality(connecting[n])
    <3>1. PICK d \in dials : d.from = n
      BY <2>3 DEF Dialling
    <3>2. InTime(n)
      BY <1>1, <2>3 DEF Clock, Punctual
    <3>3. /\ DialTime * c \in Nat /\ DialTime * (c + 1) = DialTime * c + DialTime
      BY ConnectingFacts
    <3>4. Setup(n) \in Nat /\ Setup(n)' = Setup(n)
      <4>1. scripts[n] # <<>>
        BY <1>1, <2>3 DEF Base, Progress, Position
      <4>2. Setup(n) \in Nat
        BY <4>1, SetupFacts
      <4>3. Setup(n)' = Setup(n)
        BY <1>1 DEF Setup
      <4> QED
        BY <4>2, <4>3
    <3> HIDE DEF Setup
    <3>5. d.since + DialTime * (c + 1) <= Setup(n)
      BY <3>1, <3>2 DEF InTime
    <3>6. d.since \in Nat /\ now + 1 <= d.since + DialTime
      BY <1>2
    <3> DEFINE e == DialTime * c
    <3>7. d.since + e + DialTime <= Setup(n) /\ e \in Nat
      <4>1. d.since + (DialTime * c + DialTime) <= Setup(n)
        BY <3>3, <3>5
      <4> QED
        BY <1>1, <3>3, <3>6, <4>1
    <3> HIDE DEF e
    <3>8. (now + 1) + e <= Setup(n)
      BY <1>1, <3>4, <3>6, <3>7
    <3>9. InTime(n)'
      BY <1>1, <3>2, <3>4, <3>8 DEF InTime, e
    <3> QED
      BY <1>1, <2>3, <3>9 DEF Punctual
  <2> QED
    BY <2>1, <2>2, <2>3 DEF Tick
<1> QED
  BY <1>3, <1>4, <1>5 DEF Clock

LEMMA ClockFinalize ==
  ASSUME Base, Clock, Finalize
  PROVE  Clock'
<1>1. /\ Idle /\ now = 0
      /\ \A n \in Node :
           \/ scripts[n] = <<>> /\ mode'[n] = "done"
           \/ 1 \in DOMAIN scripts[n] /\ mode'[n] \in {"waiting", "ready"}
      /\ UNCHANGED <<generator, protocol, now, next, dials, opening>>
  BY FinalizeFacts DEF Base
<1>2. Young' /\ Awaited'
  BY <1>1 DEF Idle, Young, Awaited
<1>3. ASSUME NEW n \in Node PROVE Punctual(n)'
  <2>1. next[n] = 1 /\ next' = next /\ scripts' = scripts /\ now' = 0
    BY <1>1 DEF Idle, generator
  <2>2. CASE mode'[n] = "done"
    BY <2>2 DEF Punctual
  <2>3. CASE 1 \in DOMAIN scripts[n] /\ mode'[n] \in {"waiting", "ready"}
    <3>1. scripts[n][1].at \in Nat
      BY <2>3, SetupFacts
    <3> QED
      BY <2>1, <2>3, <3>1 DEF Punctual
  <2> QED
    BY <1>1, <2>2, <2>3
<1> QED
  BY <1>2, <1>3 DEF Clock

LEMMA ClockStutters ==
  ASSUME Base, Clock, UNCHANGED simulation, (Generate /\ ~finalized) \/ UNCHANGED generator
  PROVE  Clock'
<1>1. UNCHANGED <<protocol, finalized, now, mode, next, dials, opening, connecting>>
  BY DEF simulation
<1>2. Young' /\ Awaited'
  BY <1>1 DEF Clock, Young, Awaited
<1>3. CASE ~finalized
  BY <1>1, <1>2, <1>3 DEF Clock
<1>4. CASE UNCHANGED generator
  BY <1>1, <1>2, <1>4, PunctualKept DEF Clock, generator
<1> QED
  BY <1>3, <1>4

LEMMA ClockStep ==
  ASSUME Base, Clock, [Next]_vars
  PROVE  Clock'
<1>1. UNCHANGED vars => UNCHANGED generator /\ UNCHANGED simulation
  BY DEF vars
<1>2. Networks => Settles \/ \E n, p \in Node : ConnectTo(n, p)
  BY DEF Networks, Settles
<1> QED
  BY StepKinds, <1>1, <1>2, ClockStutters, ClockFinalize, ClockAdvances, ClockFails, ClockConnects,
     ClockDials, ClockSettles, ClockTick

-----------------------------------------------------------------------------
(* The connections of the Rust nodes.                                      *)

\* n knows that it is connected to p, or will when it polls; they are connected
\* at both ends, or n dials p.
Half(n, p, t) == <<n, p>> \in connected \/ [at |-> n, peer |-> p, since |-> t] \in opening
Link(n, p, t) ==
  \/ [from |-> n, to |-> p, since |-> t] \in dials
  \/ Half(n, p, t) /\ Half(p, n, t)

\* What a node has dialled leads to a connection while both ends run.
Linked ==
  protocol = "dog" /\ finalized =>
    \A n, p \in Node : \A i \in DOMAIN scripts[n] :
      n # p /\ i < next[n] /\ p \in scripts[n][i].connect /\ ~Ended(n) /\ ~Ended(p)
        => Link(n, p, scripts[n][i].at)

LEMMA LinkExits ==
  ASSUME NEW q \in Node, NEW how, Exits(q, how),
         NEW n \in Node \ {q}, NEW p \in Node \ {q}, NEW t, Link(n, p, t)
  PROVE  Link(n, p, t)'
<1>1. /\ dials' = {d \in dials : d.from # q}
      /\ opening' = {o \in opening : o.at # q}
      /\ connected' = {c \in connected : c[1] # q}
  BY DEF Exits
<1>2. [from |-> n, to |-> p, since |-> t] \in dials => [from |-> n, to |-> p, since |-> t] \in dials'
  BY <1>1
<1>3. Half(n, p, t) => Half(n, p, t)'
  BY <1>1 DEF Half
<1>4. Half(p, n, t) => Half(p, n, t)'
  BY <1>1 DEF Half
<1> QED
  BY <1>2, <1>3, <1>4 DEF Link

LEMMA LinkGrows ==
  ASSUME NEW n, NEW p, NEW t, Link(n, p, t),
         dials \subseteq dials', UNCHANGED <<opening, connected>>
  PROVE  Link(n, p, t)'
  BY DEF Link, Half

LEMMA LinkSettles ==
  ASSUME Settles, protocol = "dog", NEW n \in Node, NEW p \in Node, NEW t,
         n # p, ~Ended(n), ~Ended(p), Link(n, p, t)
  PROVE  Link(n, p, t)'
<1> DEFINE D == [from |-> n, to |-> p, since |-> t]
           O(x, y) == [at |-> x, peer |-> y, since |-> t]
<1>1. ASSUME NEW x \in Node, NEW y \in Node, ConnectionClosed(x, y)
      PROVE  Link(n, p, t)'
  <2>1. y # n /\ y # p /\ connected' = connected \ {<<x, y>>} /\ UNCHANGED <<dials, opening>>
    BY <1>1 DEF ConnectionClosed
  <2>2. Half(n, p, t) => Half(n, p, t)'
    BY <2>1 DEF Half
  <2>3. Half(p, n, t) => Half(p, n, t)'
    BY <2>1 DEF Half
  <2> QED
    BY <2>1, <2>2, <2>3 DEF Link
<1>2. ASSUME NEW d \in dials, AcceptDial(d)
      PROVE  Link(n, p, t)'
  <2>1. /\ dials' = dials \ {d} /\ connected' = connected
        /\ opening' = opening \cup {[at |-> e[1], peer |-> e[2], since |-> d.since] :
                                      e \in {<<d.from, d.to>>, <<d.to, d.from>>}}
    BY <1>2 DEF AcceptDial
  <2>2. [at |-> d.from, peer |-> d.to, since |-> d.since] \in opening'
    <3>1. <<d.from, d.to>>[1] = d.from /\ <<d.from, d.to>>[2] = d.to
      OBVIOUS
    <3> QED
      BY <2>1, <3>1
  <2>3. [at |-> d.to, peer |-> d.from, since |-> d.since] \in opening'
    <3>1. <<d.to, d.from>>[1] = d.to /\ <<d.to, d.from>>[2] = d.from
      OBVIOUS
    <3> QED
      BY <2>1, <3>1
  <2>4. CASE d = D
    <3>1. d.from = n /\ d.to = p /\ d.since = t
      BY <2>4
    <3> QED
      BY <2>2, <2>3, <3>1 DEF Link, Half
  <2>5. CASE d # D
    <3>1. opening \subseteq opening'
      BY <2>1
    <3> QED
      BY <2>1, <2>5, <3>1 DEF Link, Half
  <2> QED
    BY <2>4, <2>5
<1>3. ASSUME NEW d \in dials, DialError(d)
      PROVE  Link(n, p, t)'
  <2>1. d # D /\ dials' = dials \ {d} /\ UNCHANGED <<opening, connected>>
    BY <1>3 DEF DialError
  <2> QED
    BY <2>1 DEF Link, Half
<1>4. ASSUME NEW o \in opening, ConnectionEstablished(o)
      PROVE  Link(n, p, t)'
  <2>1. /\ opening' = opening \ {o} /\ connected' = connected \cup {<<o.at, o.peer>>}
        /\ UNCHANGED dials
    BY <1>4 DEF ConnectionEstablished
  <2>2. o = O(n, p) => <<n, p>> \in connected'
    BY <2>1
  <2>3. o = O(p, n) => <<p, n>> \in connected'
    BY <2>1
  <2>4. Half(n, p, t) => Half(n, p, t)'
    BY <2>1, <2>2 DEF Half
  <2>5. Half(p, n, t) => Half(p, n, t)'
    BY <2>1, <2>3 DEF Half
  <2> QED
    BY <2>1, <2>4, <2>5 DEF Link
<1>5. ASSUME NEW o \in opening, HandshakeError(o)
      PROVE  Link(n, p, t)'
  <2>1. /\ opening' = opening \ {o} /\ o # O(n, p) /\ o # O(p, n)
        /\ UNCHANGED <<dials, connected>>
    BY <1>5 DEF HandshakeError
  <2> QED
    BY <2>1 DEF Link, Half
<1> QED
  BY <1>1, <1>2, <1>3, <1>4, <1>5 DEF Settles

LEMMA LinkedAdvances ==
  ASSUME Base, Clock, Linked, NEW n \in Node, Advances(n)
  PROVE  Linked'
<1>1. /\ finalized /\ next[n] \in DOMAIN scripts[n] /\ next[n] > 0 /\ next[n] \in Nat
      /\ scripts[n][next[n]].at \in Nat /\ scripts[n][next[n]].at <= now /\ now \in Nat
  BY AdvancesFacts, DueFacts
<1>2. UNCHANGED <<scripts, protocol, finalized, now, connecting>> /\ ~Ended(n)
  BY AdvancesFacts DEF generator
<1>3. /\ next'[n] = next[n] + 1
      /\ \A p \in Node \ {n} : mode'[p] = mode[p] /\ next'[p] = next[p]
      /\ \/ dials' = dials \cup Started(n) /\ UNCHANGED <<opening, connected>>
         \/ mode'[n] = "done" /\ Exits(n, "done")
  <2>1. /\ Started(n) \in SUBSET Dials /\ Proceeds(n, Started(n))
        /\ GeneratorTypes /\ SimulationTypes
    BY AdvancesFacts DEF Base, GeneratorInv
  <2> QED
    BY <1>1, <2>1, ProceedsStep
<1> SUFFICES ASSUME protocol = "dog", NEW q \in Node, NEW p \in Node, NEW i \in DOMAIN scripts[q],
                    q # p, i < next'[q], p \in scripts[q][i].connect, ~Ended(q)', ~Ended(p)'
             PROVE  Link(q, p, scripts[q][i].at)'
  BY <1>2 DEF Linked
<1>4. ~Ended(q) /\ ~Ended(p)
  BY <1>2, <1>3 DEF Ended
<1>5. i \in Nat
  <2>1. scripts[q] \in Seq(Instructions)
    BY DEF Base, GeneratorInv, GeneratorTypes
  <2> QED
    BY <2>1
<1>6. PICK t : t = scripts[q][i].at
  OBVIOUS
<1>7. scripts'[q][i].at = t
  BY <1>2, <1>6
<1>8. CASE i < next[q]
  <2>1. Link(q, p, t)
    BY <1>1, <1>4, <1>6, <1>8 DEF Linked
  <2>2. CASE dials' = dials \cup Started(n) /\ UNCHANGED <<opening, connected>>
    <3>1. dials \subseteq dials'
      BY <2>2
    <3>2. Link(q, p, t)'
      BY <2>1, <2>2, <3>1, LinkGrows
    <3> QED
      BY <1>7, <3>2
  <2>3. CASE mode'[n] = "done" /\ Exits(n, "done")
    <3>1. q # n /\ p # n
      BY <2>3 DEF Ended
    <3>2. Link(q, p, t)'
      BY <2>1, <2>3, <3>1, LinkExits
    <3> QED
      BY <1>7, <3>2
  <2> QED
    BY <1>3, <2>2, <2>3
<1>9. CASE ~(i < next[q])
  <2>1. q = n /\ i = next[n]
    BY <1>1, <1>3, <1>5, <1>9
  <2>2. dials' = dials \cup Started(n)
    BY <1>3, <2>1 DEF Ended
  <2>3. now = t
    <3>1. Due(n)
      BY AdvancesFacts DEF Base, Progress, Position
    <3>2. now <= scripts[n][next[n]].at
      BY <1>1, <3>1 DEF Clock, Punctual, Due
    <3> QED
      BY <1>1, <1>6, <2>1, <3>2
  <2>4. [from |-> n, to |-> p, since |-> t] \in dials'
    BY <2>1, <2>2, <2>3 DEF Started
  <2> QED
    BY <1>7, <2>1, <2>4 DEF Link
<1> QED
  BY <1>8, <1>9

LEMMA LinkedFails ==
  ASSUME Base, Linked, NEW n \in Node, Fails(n)
  PROVE  Linked'
<1>1. finalized /\ UNCHANGED <<scripts, protocol, finalized, next>>
  BY FailsFacts, DueFacts DEF generator
<1>2. Exits(n, "failed") /\ mode'[n] = "failed" /\ \A p \in Node \ {n} : mode'[p] = mode[p]
  <2>1. Exits(n, "failed") /\ SimulationTypes
    BY FailsFacts DEF Base
  <2> QED
    BY <2>1, ExitsStep
<1> SUFFICES ASSUME protocol = "dog", NEW q \in Node, NEW p \in Node, NEW i \in DOMAIN scripts[q],
                    q # p, i < next[q], p \in scripts[q][i].connect, ~Ended(q)', ~Ended(p)'
             PROVE  Link(q, p, scripts[q][i].at)'
  BY <1>1 DEF Linked
<1>3. q # n /\ p # n
  BY <1>2 DEF Ended
<1>4. PICK t : t = scripts[q][i].at
  OBVIOUS
<1>5. ~Ended(q) /\ ~Ended(p)
  BY <1>2, <1>3 DEF Ended
<1>6. Link(q, p, t)
  BY <1>1, <1>4, <1>5 DEF Linked
<1>7. Link(q, p, t)'
  BY <1>2, <1>3, <1>6, LinkExits
<1> QED
  BY <1>1, <1>4, <1>7

LEMMA LinkedSettles ==
  ASSUME Linked, Settles
  PROVE  Linked'
<1>1. finalized /\ UNCHANGED <<scripts, protocol, finalized, next, mode>>
  BY DEF Settles, ConnectionClosed, AcceptDial, DialError, ConnectionEstablished, HandshakeError,
         Polling, generator
<1> SUFFICES ASSUME protocol = "dog", NEW q \in Node, NEW p \in Node, NEW i \in DOMAIN scripts[q],
                    q # p, i < next[q], p \in scripts[q][i].connect, ~Ended(q), ~Ended(p)
             PROVE  Link(q, p, scripts[q][i].at)'
  BY <1>1 DEF Linked, Ended
<1>2. PICK t : t = scripts[q][i].at
  OBVIOUS
<1>3. Link(q, p, t)
  BY <1>1, <1>2 DEF Linked
<1>4. Link(q, p, t)'
  BY <1>3, LinkSettles
<1> QED
  BY <1>1, <1>2, <1>4

\* The other steps leave the connections alone, or are not those of Rust nodes.
LEMMA LinkedKept ==
  ASSUME Linked, UNCHANGED <<scripts, protocol, finalized, next, mode, dials, opening, connected>>
  PROVE  Linked'
<1> SUFFICES ASSUME protocol = "dog", finalized,
                    NEW q \in Node, NEW p \in Node, NEW i \in DOMAIN scripts[q],
                    q # p, i < next[q], p \in scripts[q][i].connect, ~Ended(q), ~Ended(p)
             PROVE  Link(q, p, scripts[q][i].at)'
  BY DEF Linked, Ended
<1>1. Link(q, p, scripts[q][i].at)
  BY DEF Linked
<1> QED
  BY <1>1 DEF Link, Half

LEMMA LinkedFinalize ==
  ASSUME Base, Finalize
  PROVE  Linked'
<1>1. Idle /\ UNCHANGED <<generator, next>>
  BY FinalizeFacts DEF Base
<1>2. \A n \in Node : next'[n] = 1 /\ scripts'[n] \in Seq(Instructions)
  BY <1>1 DEF Idle, generator, Base, GeneratorInv, GeneratorTypes
<1>3. \A n \in Node : \A i \in DOMAIN scripts'[n] : ~(i < next'[n])
  BY <1>2
<1> QED
  BY <1>3 DEF Linked

LEMMA LinkedStep ==
  ASSUME Base, Clock, Linked, [Next]_vars
  PROVE  Linked'
<1>1. CASE Generate /\ ~finalized /\ UNCHANGED simulation
  BY <1>1 DEF Linked, simulation
<1>2. CASE \E n \in Node : GoConnect(n)
  BY <1>2 DEF Linked, GoConnect
<1>3. CASE Networks
  <2>1. CASE Settles
    BY <2>1, LinkedSettles
  <2>2. CASE \E n, p \in Node : ConnectTo(n, p)
    <3>1. protocol = "gossipsub" /\ protocol' = protocol
      BY <2>2 DEF ConnectTo, Base, Progress, Idle, Position
    <3> QED
      BY <3>1 DEF Linked
  <2> QED
    BY <1>3, <2>1, <2>2 DEF Networks, Settles
<1>4. CASE Tick
  BY <1>4, LinkedKept DEF Tick, generator
<1>5. CASE UNCHANGED vars
  BY <1>5, LinkedKept DEF vars, generator, simulation
<1> QED
  BY StepKinds, <1>1, <1>2, <1>3, <1>4, <1>5, LinkedAdvances, LinkedFails, LinkedFinalize

-----------------------------------------------------------------------------
(* The publications.                                                       *)

Prepared == errors = 0 /\ WellPrepared

\* If the experiment is prepared and no instruction fails by itself, none fails,
\* and the instructions that are done have published their messages in time.
Published(n) ==
  /\ mode[n] # "failed"
  /\ \A i \in DOMAIN scripts[n] : i < next[n] =>
       \A id \in scripts[n][i].publish : [id |-> id, time |-> scripts[n][i].at] \in published
Delivered == finalized /\ Prepared => \A n \in Node : Published(n)

\* The phase and the message of an instruction that publishes, and the node's
\* place in that phase.
LEMMA AnnouncementOf ==
  ASSUME Base, NEW n \in Node, NEW i \in DOMAIN scripts[n], NEW id \in scripts[n][i].publish
  PROVE  \E k \in DOMAIN phases : \E m \in phases[k].messages :
           /\ m.id = id /\ m.source = n /\ m.time = scripts[n][i].at
<1>1. Tells(Announced, scripts) /\ Once(scripts)
  BY DEF Base, GeneratorInv, Told
<1>2. PICK m \in Announced : m.id = id
  BY <1>1 DEF Tells
<1>3. PICK k \in DOMAIN phases : m \in phases[k].messages
  BY DEF Announced
<1>4. GeneratorTypes
  BY DEF Base, GeneratorInv
<1>5. m.source \in Node
  <2>1. phases[k].messages \subseteq Messages
    BY <1>4, PhaseElements
  <2> QED
    BY <1>3, <2>1 DEF Messages
<1>6. PICK j \in DOMAIN scripts[m.source] :
        id \in scripts[m.source][j].publish /\ scripts[m.source][j].at = m.time
  BY <1>1, <1>2 DEF Tells
<1>7. m.source = n /\ j = i
  BY <1>1, <1>5, <1>6 DEF Once
<1> QED
  BY <1>2, <1>3, <1>6, <1>7

\* The nodes of a phase are set up by its start.
LEMMA PhaseFacts ==
  ASSUME Base, NEW k \in DOMAIN phases
  PROVE  /\ phases[k].start \in Nat /\ phases[k].end \in Nat
         /\ \A n \in phases[k].nodes :
              /\ n \in Node /\ scripts[n] # <<>> /\ scripts[n][1].at \in Nat
              /\ scripts[n][1].at <= phases[k].start
         /\ \A m \in phases[k].messages :
              m.source \in phases[k].nodes /\ m.source \in Node /\ m.time \in Nat
<1>1. GeneratorTypes
  BY DEF Base, GeneratorInv
<1>2. /\ phases[k].nodes \subseteq Node /\ phases[k].messages \subseteq Messages
      /\ phases[k].start \in Nat /\ phases[k].end \in Nat
  BY <1>1, PhaseElements
<1>3. Applied(k, scripts)
  BY DEF Base, GeneratorInv, History
<1>4. \A n \in phases[k].nodes : n \in Node /\ scripts[n] # <<>> /\ scripts[n][1].at <= phases[k].start
  BY <1>2, <1>3 DEF Applied
<1>5. \A n \in phases[k].nodes : scripts[n][1].at \in Nat
  BY <1>4, SetupFacts
<1>6. \A m \in phases[k].messages :
        m.source \in phases[k].nodes /\ m.source \in Node /\ m.time \in Nat
  BY <1>2, <1>3 DEF Applied, Messages
<1> QED
  BY <1>2, <1>4, <1>5, <1>6

\* A Go node has made its dials by the time of its messages.
LEMMA SetupInTime ==
  ASSUME Base, WellPrepared, protocol = "gossipsub",
         NEW k \in DOMAIN phases, NEW m \in phases[k].messages
  PROVE  Setup(m.source) <= m.time
<1>1. /\ phases[k].start \in Nat /\ m.source \in phases[k].nodes /\ m.source \in Node /\ m.time \in Nat
      /\ scripts[m.source] # <<>> /\ scripts[m.source][1].at \in Nat
      /\ scripts[m.source][1].at <= phases[k].start
  BY PhaseFacts
<1> DEFINE e == DialTime * Cardinality(scripts[m.source][1].connect)
<1>2. 1 \in DOMAIN scripts[m.source] /\ e \in Nat
  BY <1>1, SetupFacts
<1>3. phases[k].start + e <= m.time
  BY <1>2 DEF WellPrepared
<1>4. Setup(m.source) = scripts[m.source][1].at + e
  BY DEF Setup
<1> HIDE DEF e, Setup
<1> QED
  BY <1>1, <1>2, <1>3, <1>4

\* A node publishes at the time that is announced.
LEMMA PublishesOnTime ==
  ASSUME Base, Clock, WellPrepared, NEW n \in Node, Due(n), scripts[n][next[n]].publish # {}
  PROVE  now = scripts[n][next[n]].at
<1>1. /\ finalized /\ next[n] \in DOMAIN scripts[n]
      /\ scripts[n][next[n]].at \in Nat /\ scripts[n][next[n]].at <= now /\ now \in Nat
  BY DueFacts
<1>2. \/ now <= scripts[n][next[n]].at
      \/ protocol = "gossipsub" /\ now <= Setup(n)
  BY <1>1 DEF Clock, Punctual, Due
<1>3. CASE protocol = "gossipsub" /\ now <= Setup(n)
  <2>1. PICK id \in scripts[n][next[n]].publish : TRUE
    OBVIOUS
  <2>2. PICK k \in DOMAIN phases : \E m \in phases[k].messages :
          m.source = n /\ m.time = scripts[n][next[n]].at
    BY <1>1, AnnouncementOf
  <2>3. PICK m \in phases[k].messages : m.source = n /\ m.time = scripts[n][next[n]].at
    BY <2>2
  <2>4. Setup(m.source) <= m.time
    BY <1>3, SetupInTime
  <2>5. Setup(n) \in Nat
    BY <1>1, SetupFacts
  <2> HIDE DEF Setup
  <2> QED
    BY <1>1, <1>3, <2>3, <2>4, <2>5
<1> QED
  BY <1>1, <1>2, <1>3

\* A Rust node is connected when it publishes.
LEMMA PublishesConnected ==
  ASSUME Base, Clock, Linked, Delivered, Prepared, protocol = "dog",
         NEW n \in Node, Due(n), scripts[n][next[n]].publish # {}
  PROVE  Connections(n) # {}
<1>1. /\ finalized /\ next[n] \in DOMAIN scripts[n] /\ next[n] \in Nat /\ next[n] > 0 /\ now \in Nat
  BY DueFacts
<1>2. now = scripts[n][next[n]].at
  BY PublishesOnTime DEF Prepared
<1>3. PICK id \in scripts[n][next[n]].publish : TRUE
  OBVIOUS
<1>4. PICK k \in DOMAIN phases : \E m \in phases[k].messages :
        m.source = n /\ m.time = scripts[n][next[n]].at
  BY <1>1, AnnouncementOf
<1>5. PICK m \in phases[k].messages : m.source = n /\ m.time = scripts[n][next[n]].at
  BY <1>4
<1>6. PICK p \in phases[k].nodes :
        /\ phases[k].start + DialTime < now /\ now < phases[k].end
        /\ Neighbours(n, p)
  BY <1>2, <1>5 DEF Prepared, WellPrepared
<1>7. /\ phases[k].start \in Nat /\ phases[k].end \in Nat /\ DialTime \in Nat
      /\ n \in phases[k].nodes /\ p \in Node
  BY <1>5, PhaseFacts, ScriptedNodesAssumption
<1>8. ~Ended(n)
  BY DEF Due, Ended
<1>9. ~Ended(p)
  <2>1. mode[p] # "failed"
    BY <1>1, <1>7 DEF Delivered, Published
  <2>2. mode[p] # "done"
    <3>1. mode[p] = "done" => now >= phases[k].end
      BY <1>1, PhaseEnds DEF PhaseHeld
    <3> QED
      BY <1>1, <1>6, <1>7, <3>1
  <2> QED
    BY <2>1, <2>2 DEF Ended
\* A node of the phase is past its first instruction.
<1>10. ASSUME NEW q \in phases[k].nodes, ~Ended(q)
       PROVE  /\ q \in Node /\ scripts[q][1].at \in Nat /\ 1 < next[q]
              /\ now > scripts[q][1].at + DialTime
  <2>1. /\ q \in Node /\ scripts[q] # <<>> /\ scripts[q][1].at \in Nat
        /\ scripts[q][1].at <= phases[k].start
    BY PhaseFacts
  <2>2. now > scripts[q][1].at + DialTime
    BY <1>1, <1>6, <1>7, <2>1
  <2>3. next[q] \in Nat /\ next[q] > 0 /\ mode[q] \in {"waiting", "ready"}
    <3>1. Position(q) /\ mode[q] \in Modes /\ next[q] \in Nat /\ next[q] > 0
      BY <1>1, <2>1 DEF Base, Progress, SimulationTypes
    <3> QED
      BY <1>10, <3>1 DEF Position, Ended, Modes
  <2>4. now <= scripts[q][next[q]].at
    BY <1>1, <2>1, <2>3 DEF Clock, Punctual
  <2>5. next[q] # 1
    BY <1>1, <1>7, <2>1, <2>2, <2>4
  <2> QED
    BY <2>1, <2>2, <2>3, <2>5
\* A dial of that instruction would be too old.
<1>11. ASSUME NEW q \in phases[k].nodes, ~Ended(q), NEW r \in Node, ~Ended(r), q # r,
              NEW j \in DOMAIN scripts[q], r \in scripts[q][j].connect
       PROVE  <<q, r>> \in connected /\ <<r, q>> \in connected
  <2>1. /\ q \in Node /\ scripts[q][1].at \in Nat /\ 1 < next[q]
        /\ now > scripts[q][1].at + DialTime
    BY <1>10, <1>11
  <2>2. j = 1
    BY <1>11, <2>1 DEF Base, GeneratorInv, Connects
  <2>3. Link(q, r, scripts[q][1].at)
    BY <1>1, <1>11, <2>1, <2>2 DEF Linked
  <2>4. \A x \in dials \cup opening : x.since # scripts[q][1].at
    <3>1. \A x \in dials \cup opening : now <= x.since + DialTime
      BY DEF Clock, Young
    <3> QED
      BY <1>1, <1>7, <2>1, <3>1
  <2>5. /\ [from |-> q, to |-> r, since |-> scripts[q][1].at] \notin dials
        /\ [at |-> q, peer |-> r, since |-> scripts[q][1].at] \notin opening
        /\ [at |-> r, peer |-> q, since |-> scripts[q][1].at] \notin opening
    BY <2>4
  <2> QED
    BY <2>3, <2>5 DEF Link, Half
<1>12. <<n, p>> \in connected
  <2>1. n # p
    BY <1>6 DEF Neighbours
  <2>2. CASE \E i \in DOMAIN scripts[n] : p \in scripts[n][i].connect
    BY <1>7, <1>8, <1>9, <1>11, <2>1, <2>2
  <2>3. CASE \E i \in DOMAIN scripts[p] : n \in scripts[p][i].connect
    BY <1>6, <1>8, <1>9, <1>11, <2>1, <2>3
  <2> QED
    BY <1>6, <2>2, <2>3 DEF Neighbours
<1> QED
  BY <1>12 DEF Connections

\* The scripts of a running experiment stay as they are.
LEMMA StepsKeepScripts ==
  ASSUME finalized, [Next]_vars
  PROVE  UNCHANGED <<scripts, phases, protocol>>
<1>1. UNCHANGED generator
  BY GeneratorAlone
<1>2. UNCHANGED protocol
  BY DEF Next, Finalize, RunInstruction, PublishWithoutPeers, InstructionFails,
         GoInstruction, GoConnect, ConnectTo, ConnectReturns, AcceptDial, DialError,
         ConnectionEstablished, HandshakeError, ConnectionClosed, Tick, vars, simulation
<1> QED
  BY <1>1, <1>2 DEF generator

\* Nothing unprepares a running experiment but it was not prepared before.
LEMMA PreparedBefore ==
  ASSUME Base, finalized, [Next]_vars, Prepared'
  PROVE  Prepared
<1>1. errors \in Nat
  BY DEF Base, SimulationTypes
<1>2. UNCHANGED <<scripts, phases, protocol>>
  BY StepsKeepScripts
<1>3. errors' = errors \/ errors' = errors + 1
  BY DEF Next, Finalize, RunInstruction, PublishWithoutPeers, InstructionFails,
         GoInstruction, GoConnect, ConnectTo, ConnectReturns, AcceptDial, DialError,
         ConnectionEstablished, HandshakeError, ConnectionClosed, Tick, vars, simulation
<1>4. errors = 0
  BY <1>1, <1>3 DEF Prepared
<1>5. WellPrepared' = WellPrepared
  BY <1>2 DEF WellPrepared, Neighbours
<1> QED
  BY <1>4, <1>5 DEF Prepared

LEMMA DeliveredAdvances ==
  ASSUME Base, Clock, Delivered, Prepared, NEW n \in Node, Advances(n)
  PROVE  \A p \in Node : Published(p)'
<1>1. /\ finalized /\ next[n] \in DOMAIN scripts[n] /\ next[n] > 0 /\ next[n] \in Nat
      /\ now \in Nat
  BY AdvancesFacts, DueFacts
<1>2. scripts' = scripts
  BY AdvancesFacts DEF generator
<1>3. /\ next'[n] = next[n] + 1 /\ mode'[n] # "failed"
      /\ \A p \in Node \ {n} : mode'[p] = mode[p] /\ next'[p] = next[p]
  <2>1. /\ Started(n) \in SUBSET Dials /\ Proceeds(n, Started(n))
        /\ GeneratorTypes /\ SimulationTypes
    BY AdvancesFacts DEF Base, GeneratorInv
  <2> QED
    BY <1>1, <2>1, ProceedsStep
<1>4. published \subseteq published'
  BY DEF Advances, RunInstruction, GoInstruction, ConnectReturns, Publishes
<1>5. \A id \in scripts[n][next[n]].publish :
        [id |-> id, time |-> scripts[n][next[n]].at] \in published'
  <2>1. CASE RunInstruction(n) \/ GoInstruction(n)
    <3>1. Due(n) /\ Publishes(n)
      BY <2>1 DEF RunInstruction, GoInstruction
    <3>2. scripts[n][next[n]].publish # {} => now = scripts[n][next[n]].at
      BY <3>1, PublishesOnTime DEF Prepared
    <3>3. published' = published \cup
            {[id |-> id, time |-> now] : id \in scripts[n][next[n]].publish}
      BY <3>1 DEF Publishes
    <3> QED
      BY <3>2, <3>3
  <2>2. CASE ConnectReturns(n)
    <3>1. InTime(n)
      BY <1>1, <2>2 DEF ConnectReturns, Clock, Punctual
    <3>2. scripts[n][next[n]].connect # {}
      BY <3>1 DEF InTime
    <3>3. scripts[n][next[n]].publish = {}
      BY <1>1, <3>2 DEF Base, GeneratorInv, Connects
    <3> QED
      BY <3>3
  <2> QED
    BY <2>1, <2>2 DEF Advances
<1>6. ASSUME NEW p \in Node PROVE Published(p)'
  <2>1. Published(p)
    BY <1>1 DEF Delivered
  <2>2. CASE p = n
    <3>1. scripts[n] \in Seq(Instructions)
      BY DEF Base, GeneratorInv, GeneratorTypes
    <3>2. \A i \in DOMAIN scripts[n] : i < next[n] + 1 => i < next[n] \/ i = next[n]
      BY <1>1, <3>1
    <3>3. ASSUME NEW i \in DOMAIN scripts[n], i < next[n] + 1, NEW id \in scripts[n][i].publish
          PROVE  [id |-> id, time |-> scripts[n][i].at] \in published'
      <4>1. CASE i < next[n]
        BY <1>4, <2>1, <2>2, <3>3, <4>1 DEF Published
      <4>2. CASE i = next[n]
        BY <1>5, <3>3, <4>2
      <4> QED
        BY <3>2, <3>3, <4>1, <4>2
    <3> QED
      BY <1>2, <1>3, <2>2, <3>3 DEF Published
  <2>3. CASE p # n
    <3>1. mode'[p] = mode[p] /\ next'[p] = next[p]
      BY <1>3, <2>3
    <3> QED
      BY <1>2, <1>4, <2>1, <3>1 DEF Published
  <2> QED
    BY <2>2, <2>3
<1> QED
  BY <1>6

LEMMA DeliveredStep ==
  ASSUME Base, Clock, Linked, Delivered, [Next]_vars
  PROVE  Delivered'
<1> SUFFICES ASSUME finalized', Prepared'
             PROVE  \A n \in Node : Published(n)'
  BY DEF Delivered
<1>1. CASE ~finalized
  <2>1. Finalize
    BY <1>1 DEF Next, vars, simulation, RunInstruction, PublishWithoutPeers, InstructionFails,
         GoInstruction, GoConnect, ConnectTo, ConnectReturns, AcceptDial, DialError,
         ConnectionEstablished, HandshakeError, ConnectionClosed, Tick
  <2>2. /\ Idle /\ UNCHANGED <<generator, next>>
        /\ \A n \in Node : mode'[n] \in {"done", "waiting", "ready"}
    BY <2>1, FinalizeFacts DEF Base
  <2>3. \A n \in Node : next'[n] = 1 /\ scripts'[n] \in Seq(Instructions)
    BY <2>2 DEF Idle, generator, Base, GeneratorInv, GeneratorTypes
  <2>4. \A n \in Node : \A i \in DOMAIN scripts'[n] : ~(i < next'[n])
    BY <2>3
  <2> QED
    BY <2>2, <2>4 DEF Published
<1>2. CASE finalized
  <2>1. Prepared /\ UNCHANGED scripts
    BY <1>2, PreparedBefore, StepsKeepScripts
  <2>2. \A n \in Node : Published(n)
    BY <1>2, <2>1 DEF Delivered
  <2>3. CASE UNCHANGED <<mode, next, published>>
    BY <2>1, <2>2, <2>3 DEF Published
  <2>4. CASE \E n \in Node : Advances(n)
    BY <2>1, <2>4, DeliveredAdvances
  <2>5. ASSUME NEW n \in Node, Fails(n) PROVE FALSE
    <3>1. CASE PublishWithoutPeers(n)
      <4>1. protocol = "dog" /\ Due(n) /\ scripts[n][next[n]].publish # {} /\ Connections(n) = {}
        BY <3>1 DEF PublishWithoutPeers
      <4> QED
        BY <2>1, <4>1, PublishesConnected
    <3>2. CASE InstructionFails(n)
      <4>1. errors' = errors + 1 /\ errors = 0 /\ errors' = 0
        BY <2>1, <3>2 DEF InstructionFails, Prepared
      <4> QED
        BY <4>1
    <3> QED
      BY <2>5, <3>1, <3>2 DEF Fails
  <2>6. CASE \E n \in Node : GoConnect(n)
    <3>1. PICK n \in Node : GoConnect(n)
      BY <2>6
    <3>2. mode' = [mode EXCEPT ![n] = "connecting"] /\ UNCHANGED <<next, published>>
      BY <3>1 DEF GoConnect
    <3>3. \A p \in Node : mode'[p] # "failed"
      BY <2>2, <3>2 DEF Published, Base, SimulationTypes
    <3> QED
      BY <2>1, <2>2, <3>2, <3>3 DEF Published
  <2>7. Generate /\ ~finalized /\ UNCHANGED simulation => UNCHANGED <<mode, next, published>>
    BY <1>2
  <2>8. Networks => UNCHANGED <<mode, next, published>>
    BY NetworksFacts DEF Base
  <2>9. Tick => UNCHANGED <<mode, next, published>>
    BY DEF Tick
  <2>10. UNCHANGED vars => UNCHANGED <<mode, next, published>>
    BY DEF vars, simulation
  <2>11. ~Finalize
    BY <1>2 DEF Finalize
  <2> QED
    BY StepKinds, <2>3, <2>4, <2>5, <2>6, <2>7, <2>8, <2>9, <2>10, <2>11
<1> QED
  BY <1>1, <1>2

SimulationInv == Base /\ Clock /\ Linked /\ Delivered

LEMMA SimulationInvariant == Spec => []SimulationInv
<1>1. ASSUME Init PROVE SimulationInv
  <2>1. Base /\ ~finalized /\ Idle
    BY <1>1, BaseInit DEF Init, Idle
  <2> QED
    BY <2>1 DEF SimulationInv, Clock, Young, Awaited, Idle, Linked, Delivered
<1>2. SimulationInv /\ [Next]_vars => SimulationInv'
  BY BaseStep, ClockStep, LinkedStep, DeliveredStep DEF SimulationInv
<1> QED
  BY <1>1, <1>2, PTL DEF Spec

\* For any scenario and any dials that keep to DialTime, an experiment that is
\* prepared publishes every message at the time that is announced for it.
THEOREM MessagesArePublished == Spec => []AnnouncedIsPublished
<1>1. ASSUME SimulationInv PROVE AnnouncedIsPublished
  <2> SUFFICES ASSUME finalized, Prepared, NEW k \in DOMAIN phases, NEW m \in phases[k].messages,
                      now > m.time
               PROVE  [id |-> m.id, time |-> m.time] \in published
    BY DEF AnnouncedIsPublished, Prepared
  <2> DEFINE n == m.source
  <2>1. /\ Base /\ Clock /\ Published(n) /\ Punctual(n) /\ Position(n)
        /\ n \in Node /\ m.time \in Nat /\ now \in Nat /\ next[n] \in Nat /\ mode[n] \in Modes
        /\ scripts[n] # <<>> /\ scripts[n] \in Seq(Instructions) /\ Sorted(scripts[n])
    <3>1. Base /\ Clock /\ Delivered
      BY <1>1 DEF SimulationInv
    <3>2. n \in Node /\ m.time \in Nat /\ scripts[n] # <<>>
      BY <3>1, PhaseFacts
    <3>3. now \in Nat /\ next[n] \in Nat /\ mode[n] \in Modes
      BY <3>1, <3>2 DEF Base, SimulationTypes
    <3>4. Published(n) /\ Punctual(n) /\ Position(n)
      BY <3>1, <3>2 DEF Delivered, Clock, Base, Progress
    <3>5. scripts[n] \in Seq(Instructions) /\ Sorted(scripts[n])
      BY <3>1, <3>2 DEF Base, GeneratorInv, GeneratorTypes, Times
    <3> QED
      BY <3>1, <3>2, <3>3, <3>4, <3>5
  <2>2. PICK i \in DOMAIN scripts[n] : m.id \in scripts[n][i].publish /\ scripts[n][i].at = m.time
    <3>1. m \in Announced
      BY DEF Announced
    <3> QED
      BY <2>1, <3>1 DEF Base, GeneratorInv, Told, Tells
  <2>3. i \in Nat /\ i <= Len(scripts[n]) /\ Len(scripts[n]) \in Nat
    BY <2>1
  <2>4. protocol = "gossipsub" => ~(now <= Setup(n))
    <3>1. ASSUME protocol = "gossipsub" PROVE Setup(n) <= m.time
      BY <2>1, <3>1, SetupInTime DEF Prepared
    <3>2. Setup(n) \in Nat
      BY <2>1, SetupFacts
    <3> HIDE DEF Setup, n
    <3> QED
      BY <2>1, <3>1, <3>2
  <2>5. CASE mode[n] \in {"waiting", "ready"}
    <3>1. now <= scripts[n][next[n]].at /\ next[n] \in DOMAIN scripts[n]
      BY <2>1, <2>4, <2>5 DEF Punctual, Position
    <3>2. scripts[n][next[n]].at \in Nat
      BY <2>1, <3>1, ScriptElements
    <3>3. next[n] # i
      BY <2>1, <2>2, <3>1, <3>2
    <3>4. ~(next[n] < i)
      BY <2>1, <2>2, <3>1, <3>2 DEF Sorted
    <3>5. i < next[n]
      BY <2>1, <2>3, <3>3, <3>4
    <3> QED
      BY <2>1, <2>2, <3>5 DEF Published
  <2>6. CASE mode[n] = "connecting"
    <3>1. protocol = "gossipsub" /\ now + DialTime * Cardinality(connecting[n]) <= Setup(n)
      BY <2>1, <2>6 DEF Position, Punctual, InTime
    <3>2. DialTime * Cardinality(connecting[n]) \in Nat
      BY <2>1, ConnectingFacts
    <3>3. Setup(n) \in Nat
      BY <2>1, SetupFacts
    <3> HIDE DEF Setup, n
    <3> QED
      BY <2>1, <2>4, <3>1, <3>2, <3>3
  <2>7. CASE mode[n] = "done"
    <3>1. i < next[n]
      BY <2>1, <2>3, <2>7 DEF Position
    <3> QED
      BY <2>1, <2>2, <3>1 DEF Published
  <2> QED
    BY <2>1, <2>5, <2>6, <2>7 DEF Modes, Published
<1> QED
  BY <1>1, SimulationInvariant, PTL
=============================================================================
