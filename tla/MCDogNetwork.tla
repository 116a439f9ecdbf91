---------------------------- MODULE MCDogNetwork ----------------------------
(***************************************************************************)
(* Instances of DogNetwork for TLC.  A triangle is the smallest network in *)
(* which duplicates arise; in the kite d is out of the author's reach and  *)
(* gets a transaction only if c forwards it.                               *)
(***************************************************************************)
EXTENDS DogNetwork

CONSTANTS a, b, c, d

Triangle == {{a, b}, {b, c}, {a, c}}
Kite == Triangle \cup {{c, d}}

\* In the triangle only a publishes; b and c are alike.
Readers == Permutations({b, c})
=============================================================================
