---------------------------- MODULE Reachability ----------------------------
(***************************************************************************)
(* What "reachable" means, for a collector that follows pointers: the      *)
(* least set of nodes that holds the roots and is closed under succ.       *)
(* N is the set of nodes, R \subseteq N the roots, succ[n] \subseteq N the *)
(* nodes that n points to.                                                 *)
(*                                                                         *)
(* The definition is the reference the depth-first search of VM::mark is   *)
(* compared with; it does not model code.  It quantifies over SUBSET N, so *)
(* TLC evaluates it on small N only, and it needs no recursion, so facts   *)
(* about it can be proved.                                                 *)
(***************************************************************************)

ClosedUnder(S, succ) == \A n \in S : succ[n] \subseteq S

Reachable(N, R, succ) ==
  {n \in N : \A S \in SUBSET N :
               (R \subseteq S /\ ClosedUnder(S, succ)) => n \in S}
=============================================================================
