------------------------- MODULE Reachability_proofs -------------------------
(***************************************************************************)
(* Facts about Reachability!Reachable, for every graph, finite or not.     *)
(***************************************************************************)
EXTENDS Reachability, TLAPS

\* The reachable nodes are nodes, and the roots are among them.
LEMMA ReachableHoldsRoots ==
  ASSUME NEW N, NEW R \in SUBSET N, NEW succ
  PROVE  R \subseteq Reachable(N, R, succ) /\ Reachable(N, R, succ) \subseteq N
BY DEF Reachable

\* What a reachable node points to is reachable.
LEMMA ReachableIsClosed ==
  ASSUME NEW N, NEW R, NEW succ, \A n \in N : succ[n] \subseteq N
  PROVE  ClosedUnder(Reachable(N, R, succ), succ)
BY DEF Reachable, ClosedUnder

\* A set that holds the roots and is closed holds all reachable nodes.
LEMMA ReachableIsLeast ==
  ASSUME NEW N, NEW R, NEW succ, NEW S \in SUBSET N,
         R \subseteq S, ClosedUnder(S, succ)
  PROVE  Reachable(N, R, succ) \subseteq S
BY DEF Reachable

\* Nodes outside a closed set M that holds the roots do not matter.
LEMMA ReachableWithin ==
  ASSUME NEW N, NEW M \in SUBSET N, NEW R \in SUBSET M, NEW succ, NEW sub,
         ClosedUnder(M, succ),
         \A n \in N : succ[n] \subseteq N,
         \A n \in M : sub[n] = succ[n]
  PROVE  Reachable(M, R, sub) = Reachable(N, R, succ)
<1> DEFINE A == Reachable(M, R, sub)
           B == Reachable(N, R, succ)
<1>1. \A n \in M : sub[n] \subseteq M
  BY DEF ClosedUnder
<1>2. R \subseteq A /\ A \subseteq M /\ ClosedUnder(A, sub)
  BY <1>1, ReachableHoldsRoots, ReachableIsClosed
<1>3. R \subseteq B /\ B \subseteq M /\ ClosedUnder(B, succ)
  BY ReachableHoldsRoots, ReachableIsClosed, ReachableIsLeast
<1>4. B \subseteq A
  <2>1. ClosedUnder(A, succ)
    BY <1>2 DEF ClosedUnder
  <2> QED
    BY <1>2, <2>1, ReachableIsLeast
<1>5. A \subseteq B
  <2>1. ClosedUnder(B, sub)
    BY <1>3 DEF ClosedUnder
  <2> QED
    BY <1>3, <2>1, ReachableIsLeast
<1> QED
  BY <1>4, <1>5
=============================================================================
