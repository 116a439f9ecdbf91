----------------------------- MODULE DogRouter -----------------------------
(***************************************************************************)
(* The routing table of one dog node: struct Router in dog/src/dog.rs.     *)
(*                                                                         *)
(* disabled_routes is a Vec<Route>.  Its order is never observed (routes   *)
(* are searched with any(), filtered with retain() and re-enabled at a     *)
(* random index), but its multiplicities are: disable_route pushes without *)
(* looking for an equal route.  It is therefore a bag, a function from     *)
(* <<source, target>> to the number of equal entries.                      *)
(*                                                                         *)
(* have_tx_sent_per_peer is a HashMap<PeerId, usize>; a missing entry and  *)
(* an entry 0 behave alike, so it is a total function to Nat.              *)
(*                                                                         *)
(* Here and in the other modules an operator marked "Slip" is a variant of *)
(* the definition after it, with a mistake that the properties detect; no  *)
(* specification uses it.                                                  *)
(***************************************************************************)
EXTENDS Naturals

CONSTANT Node    \* the peers of the network (PeerId)

Route == Node \X Node                 \* <<source, target>>
Source(route) == route[1]
Target(route) == route[2]

NoRoutes == [r \in Route |-> 0]
NoHaveTxSent == [p \in Node |-> 0]

DisableRoute(routes, source, target) ==
  [routes EXCEPT ![<<source, target>>] = @ + 1]

\* Slip: routes that are open are chosen, too.
AnyRoutesTo(routes, peer) == {r \in Route : Target(r) = peer}

\* The routes that enable_random_route_to_peer chooses from.
ClosedRoutesTo(routes, peer) ==
  {r \in Route : routes[r] > 0 /\ Target(r) = peer}

EnableRoute(routes, route) == [routes EXCEPT ![route] = @ - 1]

\* Slip: only the routes that start at the peer are removed.
ResetRoutesFromPeer(routes, peer) ==
  [r \in Route |-> IF Source(r) = peer THEN 0 ELSE routes[r]]

ResetRoutesWithPeer(routes, peer) ==
  [r \in Route |-> IF Source(r) = peer \/ Target(r) = peer THEN 0 ELSE routes[r]]

FilterValidRoutes(routes, source, targets) ==
  {t \in targets : routes[<<source, t>>] = 0}

\* Slip: the HaveTx is not registered.
ForgetHaveTxSent(sent, peer) == sent

RegisterHaveTxSent(sent, peer) == [sent EXCEPT ![peer] = @ + 1]

\* The peers that get_random_have_tx_sent_peer chooses from.
HaveTxSentPeers(sent) == {p \in Node : sent[p] > 0}

RemoveHaveTxSent(sent, peer) ==
  [sent EXCEPT ![peer] = IF @ > 0 THEN @ - 1 ELSE @]
=============================================================================
