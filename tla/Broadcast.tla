----------------------------- MODULE Broadcast -----------------------------
(***************************************************************************)
(* What a network of dog nodes does for its users: they publish, and every *)
(* other node gets a transaction from a peer, at most once.  DogNetwork    *)
(* implements it as long as no entry of a duplicate cache expires.  How a  *)
(* transaction travels (queues, forwards, closed routes) is left out, and  *)
(* so is the promise that it arrives.                                      *)
(***************************************************************************)
EXTENDS Naturals

CONSTANT Node

VARIABLES
  links,    \* [Node -> SUBSET Node]: the peers a node is connected to
  issued,   \* [Node -> Nat]: how many transactions a node has published
  got       \* [Node -> SUBSET Receipt]: what a node has, and from whom

vars == <<links, issued, got>>

Receipt == [id : [from : Node, seqno : Nat], source : Node]
Has(n, tx) == \E r \in got[n] : r.id = tx

Init ==
  /\ links \in [Node -> SUBSET Node]
  /\ issued = [n \in Node |-> 0]
  /\ got = [n \in Node |-> {}]

Get(n, tx, source) == got' = [got EXCEPT ![n] = @ \cup {[id |-> tx, source |-> source]}]

Publish(n) ==
  LET tx == [from |-> n, seqno |-> issued[n] + 1]
  IN /\ issued' = [issued EXCEPT ![n] = @ + 1]
     /\ Get(n, tx, n)
     /\ UNCHANGED links

Deliver(n, p, tx) ==
  /\ p \in links[n] /\ Has(p, tx)
  /\ ~Has(n, tx)
  /\ Get(n, tx, p)
  /\ UNCHANGED <<links, issued>>

Relink ==
  /\ links' \in [Node -> SUBSET Node]
  /\ UNCHANGED <<issued, got>>

Next ==
  \/ Relink
  \/ \E n \in Node : Publish(n)
  \/ \E n, p \in Node : \E r \in got[p] : Deliver(n, p, r.id)

Spec == Init /\ [][Next]_vars
=============================================================================
