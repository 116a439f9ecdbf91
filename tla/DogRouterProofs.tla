--------------------------- MODULE DogRouterProofs ---------------------------
(***************************************************************************)
(* Lemmas about the operations of Router and Controller (dog/src/dog.rs)   *)
(* that the proofs about a network of nodes and about the task of one node *)
(* share, and about the totals of their tables: disabled_routes.len() and  *)
(* the HaveTx registered over all peers.                                   *)
(*                                                                         *)
(* A total is a fold over a finite set.  What the fold computes follows    *)
(* from the strict subset ordering being well-founded: a set of subsets    *)
(* that contains {}, and s whenever it contains every s \ {x}, contains    *)
(* them all (SubsetInduction).                                             *)
(***************************************************************************)
EXTENDS DogRouter, DogController, Functions, FiniteSetTheorems, WellFoundedInduction, TLAPS

-----------------------------------------------------------------------------
(* Sums over a finite set.                                                 *)

\* Induction on the subsets of a finite set, over a set of them.
LEMMA SubsetInduction ==
  ASSUME NEW S, IsFiniteSet(S), NEW T, {} \in T,
         \A s \in SUBSET S : s # {} /\ (\A x \in s : s \ {x} \in T) => s \in T
  PROVE  S \in T
<1> DEFINE B == (SUBSET S) \ T
<1>1. IsWellFoundedOn(StrictSubsetOrdering(S), SUBSET S)
  BY FS_StrictSubsetOrderingWellFounded, FS_FiniteSubsetsOfFinite
<1> SUFFICES ASSUME B # {} PROVE FALSE
  OBVIOUS
<1>2. PICK s \in B : \A y \in B : ~ (<<y, s>> \in StrictSubsetOrdering(S))
  <2>1. B \subseteq SUBSET S
    OBVIOUS
  <2> HIDE DEF B
  <2> QED
    BY <1>1, <2>1, WFMin
<1>3. ASSUME NEW x \in s
      PROVE  s \ {x} \in T
  <2>1. s \in SUBSET S /\ s \ {x} \in SUBSET S /\ s \ {x} # s
    OBVIOUS
  <2>2. <<s \ {x}, s>> \in StrictSubsetOrdering(S)
    BY <2>1 DEF StrictSubsetOrdering
  <2> QED
    BY <1>2, <2>1, <2>2
<1> QED
  BY <1>2, <1>3

\* The element that a fold takes first, and the function that it iterates.
Picked(s) == CHOOSE x \in s : TRUE
Sums(f, g, S) ==
  g = [s \in SUBSET S |-> IF s = {} THEN 0 ELSE f[Picked(s)] + g[s \ {Picked(s)}]]

LEMMA SumIterates ==
  ASSUME NEW S, NEW f
  PROVE  SumFunctionOnSet(f, S) = (CHOOSE g : Sums(f, g, S))[S]
  BY DEF SumFunctionOnSet, FoldFunctionOnSet, MapThenFoldSet, Sums, Picked

\* Two such functions agree where both are defined.
LEMMA SumsUnique ==
  ASSUME NEW f, NEW S, IsFiniteSet(S), NEW A, NEW B, S \subseteq A, S \subseteq B,
         NEW g, Sums(f, g, A), NEW h, Sums(f, h, B)
  PROVE  g[S] = h[S]
<1> DEFINE T == {s \in SUBSET S : g[s] = h[s]}
<1>1. {} \in T
  BY DEF Sums
<1>2. ASSUME NEW s \in SUBSET S, s # {}, \A x \in s : s \ {x} \in T
      PROVE  s \in T
  <2>1. Picked(s) \in s
    BY <1>2 DEF Picked
  <2>2. /\ g[s] = f[Picked(s)] + g[s \ {Picked(s)}]
        /\ h[s] = f[Picked(s)] + h[s \ {Picked(s)}]
    BY <1>2 DEF Sums
  <2> QED
    BY <1>2, <2>1, <2>2
<1> HIDE DEF T
<1>3. S \in T
  BY <1>1, <1>2, SubsetInduction
<1> QED
  BY <1>3 DEF T

\* There is such a function on the subsets of any finite set.
LEMMA SumsExist ==
  ASSUME NEW f, NEW S, IsFiniteSet(S)
  PROVE  \E g : Sums(f, g, S)
<1> DEFINE T == {s \in SUBSET S : \E g : Sums(f, g, s)}
           Of(s) == CHOOSE g : Sums(f, g, s)
<1>1. {} \in T
  <2>1. Sums(f, [s \in SUBSET {} |-> 0], {})
    BY DEF Sums
  <2> QED
    BY <2>1
<1>2. ASSUME NEW s \in SUBSET S, s # {}, \A x \in s : s \ {x} \in T
      PROVE  s \in T
  <2> DEFINE h == [u \in SUBSET s |->
                     IF u = s THEN f[Picked(s)] + Of(s \ {Picked(s)})[s \ {Picked(s)}]
                              ELSE Of(u)[u]]
  <2>1. \A x \in s : Sums(f, Of(s \ {x}), s \ {x})
    BY <1>2
  <2>2. Picked(s) \in s
    BY <1>2 DEF Picked
  <2>3. ASSUME NEW u \in SUBSET s, u # s
        PROVE  /\ IsFiniteSet(u)
               /\ \E x \in s : u \subseteq s \ {x}
    <3>1. IsFiniteSet(u)
      <4>1. u \subseteq S
        OBVIOUS
      <4> QED
        BY <4>1, FS_Subset
    <3>2. PICK x \in s : x \notin u
      BY <2>3
    <3>3. u \subseteq s \ {x}
      BY <3>2
    <3> QED
      BY <3>1, <3>3
  <2>4. ASSUME NEW u \in SUBSET s, NEW x \in s, u \subseteq s \ {x}
        PROVE  Sums(f, Of(u), u)
    <3> DEFINE g == Of(s \ {x})
               r == [v \in SUBSET u |-> g[v]]
    <3>1. Sums(f, g, s \ {x})
      BY <2>1
    <3> HIDE DEF g
    <3>2. ASSUME NEW v \in SUBSET u
          PROVE  r[v] = IF v = {} THEN 0 ELSE f[Picked(v)] + r[v \ {Picked(v)}]
      <4>1. r[v] = g[v] /\ r[v \ {Picked(v)}] = g[v \ {Picked(v)}]
        OBVIOUS
      <4>2. v \in SUBSET (s \ {x})
        BY <2>4
      <4> QED
        BY <3>1, <4>1, <4>2 DEF Sums
    <3>3. r = [v \in SUBSET u |-> IF v = {} THEN 0 ELSE f[Picked(v)] + r[v \ {Picked(v)}]]
      <4>1. r = [v \in SUBSET u |-> r[v]]
        OBVIOUS
      <4> HIDE DEF r
      <4> QED
        BY <3>2, <4>1
    <3> HIDE DEF r
    <3>4. \E q : Sums(f, q, u)
      BY <3>3 DEF Sums
    <3> QED
      BY <3>4
  <2> HIDE DEF Of
  <2>5. ASSUME NEW u \in SUBSET s, NEW x \in s, u \subseteq s \ {x}
        PROVE  Of(u)[u] = Of(s \ {x})[u]
    BY <2>1, <2>3, <2>4, <2>5, SumsUnique
  <2>6. ASSUME NEW u \in SUBSET s
        PROVE  h[u] = IF u = {} THEN 0 ELSE f[Picked(u)] + h[u \ {Picked(u)}]
    <3>1. CASE u = s
      BY <1>2, <2>2, <3>1
    <3>2. CASE u # s /\ u = {}
      <4>1. Sums(f, Of({}), {})
        BY <2>3, <2>4, <3>2
      <4> QED
        BY <3>2, <4>1 DEF Sums
    <3>3. CASE u # s /\ u # {}
      <4>1. PICK x \in s : u \subseteq s \ {x}
        BY <2>3, <3>3
      <4> DEFINE w == u \ {Picked(u)}
      <4>2. Picked(u) \in u /\ w \in SUBSET s /\ w # s /\ w \subseteq s \ {x}
        BY <3>3, <4>1 DEF Picked
      <4>3. Of(s \ {x})[u] = f[Picked(u)] + Of(s \ {x})[w]
        BY <2>1, <3>3, <4>1 DEF Sums
      <4>4. h[u] = Of(u)[u] /\ h[w] = Of(w)[w]
        BY <3>3, <4>2
      <4> QED
        BY <2>5, <3>3, <4>1, <4>2, <4>3, <4>4
    <3> QED
      BY <3>1, <3>2, <3>3
  <2> HIDE DEF h
  <2>7. h = [u \in SUBSET s |-> IF u = {} THEN 0 ELSE f[Picked(u)] + h[u \ {Picked(u)}]]
    <3>1. h = [u \in SUBSET s |-> h[u]]
      BY DEF h
    <3> QED
      BY <2>6, <3>1
  <2>8. Sums(f, h, s)
    BY <2>7 DEF Sums
  <2> QED
    BY <2>8
<1> HIDE DEF T
<1>3. S \in T
  BY <1>1, <1>2, SubsetInduction
<1> QED
  BY <1>3 DEF T

\* The sum over no element, and over one more.
LEMMA SumSteps ==
  ASSUME NEW f, NEW S, IsFiniteSet(S)
  PROVE  /\ S = {} => SumFunctionOnSet(f, S) = 0
         /\ S # {} => SumFunctionOnSet(f, S)
                        = f[Picked(S)] + SumFunctionOnSet(f, S \ {Picked(S)})
<1> DEFINE Of(s) == CHOOSE g : Sums(f, g, s)
           R == S \ {Picked(S)}
<1>1. IsFiniteSet(R)
  BY FS_Subset
<1>2. Sums(f, Of(S), S) /\ Sums(f, Of(R), R)
  BY <1>1, SumsExist
<1>3. SumFunctionOnSet(f, S) = Of(S)[S] /\ SumFunctionOnSet(f, R) = Of(R)[R]
  BY SumIterates
<1> HIDE DEF Of
<1>4. Of(S)[S] = IF S = {} THEN 0 ELSE f[Picked(S)] + Of(S)[R]
  BY <1>2 DEF Sums
<1> HIDE DEF R
<1>5. R \subseteq S
  BY DEF R
<1>6. Of(S)[R] = Of(R)[R]
  BY <1>1, <1>2, <1>5, SumsUnique
<1> QED
  BY <1>3, <1>4, <1>6 DEF R

\* A sum of natural numbers is one, whichever function they are taken from;
\* of zeros it is zero.
LEMMA SumOfNaturals ==
  ASSUME NEW S, IsFiniteSet(S), NEW f, NEW h,
         \A x \in S : f[x] \in Nat /\ h[x] = f[x]
  PROVE  /\ SumFunctionOnSet(f, S) \in Nat
         /\ SumFunctionOnSet(h, S) = SumFunctionOnSet(f, S)
         /\ (\A x \in S : f[x] = 0) => SumFunctionOnSet(f, S) = 0
<1> DEFINE Good(s) ==
             /\ SumFunctionOnSet(f, s) \in Nat
             /\ SumFunctionOnSet(h, s) = SumFunctionOnSet(f, s)
             /\ (\A x \in S : f[x] = 0) => SumFunctionOnSet(f, s) = 0
           T == {s \in SUBSET S : Good(s)}
<1>1. {} \in T
  <2>1. IsFiniteSet({})
    BY FS_EmptySet
  <2>2. \A g : SumFunctionOnSet(g, {}) = 0
    BY <2>1, SumSteps
  <2>3. Good({})
    BY <2>2
  <2> QED
    BY <2>3
<1>2. ASSUME NEW s \in SUBSET S, s # {}, \A x \in s : s \ {x} \in T
      PROVE  s \in T
  <2>1. Picked(s) \in s
    BY <1>2 DEF Picked
  <2>2. IsFiniteSet(s)
    BY FS_Subset
  <2>3. Good(s \ {Picked(s)}) /\ f[Picked(s)] \in Nat /\ h[Picked(s)] = f[Picked(s)]
    BY <1>2, <2>1
  <2>4. /\ SumFunctionOnSet(f, s) = f[Picked(s)] + SumFunctionOnSet(f, s \ {Picked(s)})
        /\ SumFunctionOnSet(h, s) = h[Picked(s)] + SumFunctionOnSet(h, s \ {Picked(s)})
    BY <1>2, <2>2, SumSteps
  <2>5. Good(s)
    BY <2>1, <2>3, <2>4
  <2> QED
    BY <2>5
<1> HIDE DEF T
<1>3. S \in T
  BY <1>1, <1>2, SubsetInduction
<1> QED
  BY <1>3 DEF T

\* Any element may be taken out of a sum, not only the one the fold picks.
LEMMA SumWithout ==
  ASSUME NEW S, IsFiniteSet(S), NEW f, \A x \in S : f[x] \in Nat, NEW a \in S
  PROVE  SumFunctionOnSet(f, S) = f[a] + SumFunctionOnSet(f, S \ {a})
<1> DEFINE T == {s \in SUBSET S : \A x \in s :
                   SumFunctionOnSet(f, s) = f[x] + SumFunctionOnSet(f, s \ {x})}
<1>1. {} \in T
  OBVIOUS
<1>2. ASSUME NEW s \in SUBSET S, s # {}, \A x \in s : s \ {x} \in T, NEW x \in s
      PROVE  SumFunctionOnSet(f, s) = f[x] + SumFunctionOnSet(f, s \ {x})
  <2> DEFINE c == Picked(s)
  <2>1. c \in s
    BY <1>2 DEF Picked
  <2>2. IsFiniteSet(s) /\ IsFiniteSet((s \ {c}) \ {x})
    BY FS_Subset
  <2>3. SumFunctionOnSet(f, s) = f[c] + SumFunctionOnSet(f, s \ {c})
    BY <1>2, <2>2, SumSteps
  <2> HIDE DEF c
  <2>4. CASE x # c
    <3>1. SumFunctionOnSet(f, s \ {c}) = f[x] + SumFunctionOnSet(f, (s \ {c}) \ {x})
      BY <1>2, <2>1, <2>4
    <3>2. SumFunctionOnSet(f, s \ {x}) = f[c] + SumFunctionOnSet(f, (s \ {x}) \ {c})
      BY <1>2, <2>1, <2>4
    <3>3. (s \ {x}) \ {c} = (s \ {c}) \ {x}
      OBVIOUS
    <3>4. SumFunctionOnSet(f, (s \ {c}) \ {x}) \in Nat
      BY <2>2, SumOfNaturals
    <3> QED
      BY <2>1, <2>3, <3>1, <3>2, <3>3, <3>4
  <2> QED
    BY <2>3, <2>4
<1>3. \A s \in SUBSET S : s # {} /\ (\A x \in s : s \ {x} \in T) => s \in T
  BY <1>2
<1> HIDE DEF T
<1>4. S \in T
  BY <1>1, <1>3, SubsetInduction
<1> QED
  BY <1>4 DEF T

\* One entry of a table changes: so does the sum, by as much.
LEMMA SumChanged ==
  ASSUME NEW S, IsFiniteSet(S), NEW f, NEW h, NEW a \in S,
         \A x \in S : f[x] \in Nat /\ h[x] \in Nat,
         \A x \in S \ {a} : h[x] = f[x]
  PROVE  /\ SumFunctionOnSet(f, S) \in Nat /\ SumFunctionOnSet(h, S) \in Nat
         /\ SumFunctionOnSet(h, S) + f[a] = SumFunctionOnSet(f, S) + h[a]
<1>1. IsFiniteSet(S \ {a})
  BY FS_Subset
<1>2. /\ SumFunctionOnSet(f, S \ {a}) \in Nat
      /\ SumFunctionOnSet(h, S \ {a}) = SumFunctionOnSet(f, S \ {a})
  BY <1>1, SumOfNaturals
<1>3. /\ SumFunctionOnSet(f, S) = f[a] + SumFunctionOnSet(f, S \ {a})
      /\ SumFunctionOnSet(h, S) = h[a] + SumFunctionOnSet(h, S \ {a})
  BY SumWithout
<1> QED
  BY <1>2, <1>3

\* A sum of smaller numbers is not larger.
LEMMA SumMonotone ==
  ASSUME NEW S, IsFiniteSet(S), NEW f, NEW h,
         \A x \in S : f[x] \in Nat /\ h[x] \in Nat /\ h[x] <= f[x]
  PROVE  SumFunctionOnSet(h, S) <= SumFunctionOnSet(f, S)
<1> DEFINE Good(s) == SumFunctionOnSet(h, s) <= SumFunctionOnSet(f, s)
           T == {s \in SUBSET S : Good(s)}
<1>1. {} \in T
  <2>1. IsFiniteSet({})
    BY FS_EmptySet
  <2>2. \A g : SumFunctionOnSet(g, {}) = 0
    BY <2>1, SumSteps
  <2>3. Good({})
    BY <2>2
  <2> QED
    BY <2>3
<1>2. ASSUME NEW s \in SUBSET S, s # {}, \A x \in s : s \ {x} \in T
      PROVE  s \in T
  <2> DEFINE a == Picked(s)
             F == SumFunctionOnSet(f, s \ {a})
             H == SumFunctionOnSet(h, s \ {a})
  <2>1. a \in s
    BY <1>2 DEF Picked
  <2>2. IsFiniteSet(s) /\ IsFiniteSet(s \ {a})
    BY FS_Subset
  <2>3. /\ SumFunctionOnSet(f, s) = f[a] + F
        /\ SumFunctionOnSet(h, s) = h[a] + H
    BY <1>2, <2>2, SumSteps
  <2>4. /\ F \in Nat /\ H \in Nat
        /\ f[a] \in Nat /\ h[a] \in Nat /\ h[a] <= f[a]
    BY <2>1, <2>2, SumOfNaturals
  <2>5. H <= F
    BY <1>2, <2>1
  <2> HIDE DEF a, F, H
  <2>6. h[a] + H <= f[a] + F
    BY <2>4, <2>5
  <2>7. Good(s)
    BY <2>3, <2>6
  <2> QED
    BY <2>7
<1> HIDE DEF T
<1>3. S \in T
  BY <1>1, <1>2, SubsetInduction
<1> QED
  BY <1>3 DEF T

-----------------------------------------------------------------------------
(* Types.                                                                  *)

\* The operations of Controller return controllers.
LEMMA ControllerTypes ==
  ASSUME NEW k \in Controller
  PROVE  /\ IncrFirstTime(k) \in Controller
         /\ IncrDuplicate(k) \in Controller
         /\ BlockHaveTx(IncrDuplicate(k)) \in Controller
         /\ ResetCounters(Evaluate(k)) \in Controller
<1>1. IncrFirstTime(k) \in Controller
  BY DEF Controller, IncrFirstTime
<1>2. IncrDuplicate(k) \in Controller
  BY DEF Controller, IncrDuplicate
<1>3. BlockHaveTx(IncrDuplicate(k)) \in Controller
  BY <1>2 DEF Controller, BlockHaveTx
<1>4. Evaluate(k) \in Controller
  <2>1. (k.blocked /\ ~RedundancyTooHigh(k)) \in BOOLEAN
    OBVIOUS
  <2> QED
    BY <2>1 DEF Controller, Evaluate
<1>5. ResetCounters(Evaluate(k)) \in Controller
  BY <1>4 DEF Controller, ResetCounters
<1> QED
  BY <1>1, <1>2, <1>3, <1>5

\* The operations of Router return routing tables and HaveTx counts; none
\* of their counters goes below zero.
LEMMA RouterTypes ==
  ASSUME NEW routes \in [Route -> Nat], NEW sent \in [Node -> Nat], NEW p \in Node
  PROVE  /\ \A s \in Node : DisableRoute(routes, s, p) \in [Route -> Nat]
         /\ \A r \in ClosedRoutesTo(routes, p) : EnableRoute(routes, r) \in [Route -> Nat]
         /\ ResetRoutesWithPeer(routes, p) \in [Route -> Nat]
         /\ RegisterHaveTxSent(sent, p) \in [Node -> Nat]
         /\ RemoveHaveTxSent(sent, p) \in [Node -> Nat]
<1>1. \A s \in Node : DisableRoute(routes, s, p) \in [Route -> Nat]
  BY DEF Route, DisableRoute
<1>2. \A r \in ClosedRoutesTo(routes, p) : EnableRoute(routes, r) \in [Route -> Nat]
  BY DEF ClosedRoutesTo, EnableRoute
<1>3. ResetRoutesWithPeer(routes, p) \in [Route -> Nat]
  BY DEF ResetRoutesWithPeer
<1>4. RegisterHaveTxSent(sent, p) \in [Node -> Nat]
  BY DEF RegisterHaveTxSent
<1>5. RemoveHaveTxSent(sent, p) \in [Node -> Nat]
  BY DEF RemoveHaveTxSent
<1> QED
  BY <1>1, <1>2, <1>3, <1>4, <1>5
=============================================================================
