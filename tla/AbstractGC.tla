----------------------------- MODULE AbstractGC -----------------------------
(***************************************************************************)
(* What the heap of the virtual machine promises its user: a graph of      *)
(* objects that the program extends and rewires, a set of roots, and one   *)
(* atomic Collect that keeps exactly the objects reachable from the roots. *)
(* GcHeap, the list, the mark bits, the search and the sweep of            *)
(* bytecode_vm/src/vm.cpp, is shown to implement this module.              *)
(***************************************************************************)
EXTENDS Reachability

CONSTANT Obj                  \* the addresses malloc can return

VARIABLES edges,              \* live object |-> the objects it points to
          roots               \* the objects the collector starts from

vars == <<edges, roots>>

Live == DOMAIN edges

TypeOK == /\ Live \subseteq Obj
          /\ edges \in [Live -> SUBSET Live]
          /\ roots \subseteq Live

Init == edges = [o \in {} |-> {}] /\ roots = {}

\* The user creates an object that points to live objects, and may take it, or
\* anything else that lives, as a root at once.
New(o, S, R) == /\ o \notin Live
                /\ S \subseteq Live
                /\ edges' = [p \in Live \cup {o} |-> IF p = o THEN S ELSE edges[p]]
                /\ R \subseteq Live \cup {o}
                /\ roots' = R

\* The user redirects the pointers of a live object.
Rewire(o, S) == /\ o \in Live
                /\ S \subseteq Live
                /\ edges' = [edges EXCEPT ![o] = S]
                /\ UNCHANGED roots

\* The user pushes objects on the stack or pops them.
SetRoots(R) == R \subseteq Live /\ roots' = R /\ UNCHANGED edges

\* The garbage collector: what is reachable stays as it is, the rest is gone.
Collect == LET K == Reachable(Live, roots, edges)
           IN  /\ edges' = [o \in K |-> edges[o]]
               /\ UNCHANGED roots

Next == \/ \E o \in Obj, S \in SUBSET Live :
             Rewire(o, S) \/ \E R \in SUBSET (Live \cup {o}) : New(o, S, R)
        \/ \E R \in SUBSET Live : SetRoots(R)
        \/ Collect

Spec == Init /\ [][Next]_vars
=============================================================================
