--------------------------- MODULE DogController ---------------------------
(***************************************************************************)
(* The redundancy controller of one dog node: struct Controller in         *)
(* dog/src/dog.rs.                                                         *)
(*                                                                         *)
(* The bounds are f64 values derived from target_redundancy (TargetPercent *)
(* is 100 times it) and redundancy_delta_percent.  A ratio d/f is compared *)
(* with target * (1 -+ delta/100) by cross multiplication in integers,     *)
(* which is exact; only the rounding of the f64 arithmetic is left out.    *)
(***************************************************************************)
EXTENDS Integers

CONSTANTS
  TargetPercent,   \* 100 * Config.target_redundancy
  DeltaPercent     \* Config.redundancy_delta_percent

ASSUME ControllerAssumption ==
  /\ TargetPercent \in Nat
  /\ DeltaPercent \in 0 .. 255

Controller == [first : Nat, dup : Nat, blocked : BOOLEAN]

NewController == [first |-> 0, dup |-> 0, blocked |-> FALSE]

IncrFirstTime(c) == [c EXCEPT !.first = @ + 1]
IncrDuplicate(c) == [c EXCEPT !.dup = @ + 1]
BlockHaveTx(c)   == [c EXCEPT !.blocked = TRUE]

\* redundancy() < lower_bound.  With no first-time transaction redundancy()
\* is upper_bound, which is neither below the one nor above the other bound.
RedundancyTooLow(c) ==
  /\ c.first > 0
  /\ c.dup * 10000 < c.first * TargetPercent * (100 - DeltaPercent)

\* redundancy() > upper_bound.
RedundancyTooHigh(c) ==
  /\ c.first > 0
  /\ c.dup * 10000 > c.first * TargetPercent * (100 + DeltaPercent)

\* What evaluate() does to the controller; whether it asks for a ResetRoute
\* is RedundancyTooLow.
Evaluate(c) ==
  [c EXCEPT !.blocked = @ /\ ~RedundancyTooHigh(c)]

ResetCounters(c) == [c EXCEPT !.first = 0, !.dup = 0]
=============================================================================
