---------------------------- MODULE ExpiringMap ----------------------------
(***************************************************************************)
(* What the duplicate cache promises its users, behaviour.rs: insert       *)
(* accepts a key exactly when it was not accepted within the last Ttl, and *)
(* a lookup finds the value of the last acceptance for at least that long. *)
(* There is no list and no order here, only the expiry of every key.       *)
(***************************************************************************)
EXTENDS Naturals

CONSTANTS Key, Value, NoValue, Ttl, MaxTime

VARIABLES
  now,       \* the monotonic clock
  value,     \* [Key -> Value \cup {NoValue}]: what a lookup finds
  expires,   \* [Key -> Nat]: when the key may be accepted again, 0 if unknown
  accepted   \* the answer to the last insert

vars == <<now, value, expires, accepted>>

Live(k) == expires[k] > now

Init ==
  /\ now = 0
  /\ value = [k \in Key |-> NoValue]
  /\ expires = [k \in Key |-> 0]
  /\ accepted = FALSE

Tick ==
  /\ now < MaxTime
  /\ now' = now + 1
  /\ UNCHANGED <<value, expires, accepted>>

\* Every key that is not live is forgotten; then k is accepted unless live.
Insert(k, v) ==
  /\ accepted' = ~Live(k)
  /\ value' = [j \in Key |-> IF Live(j) THEN value[j] ELSE IF j = k THEN v ELSE NoValue]
  /\ expires' = [j \in Key |-> IF Live(j) THEN expires[j] ELSE IF j = k THEN now + Ttl ELSE 0]
  /\ UNCHANGED now

Next == Tick \/ \E k \in Key, v \in Value : Insert(k, v)

Spec == Init /\ [][Next]_vars
=============================================================================
