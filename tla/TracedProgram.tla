--------------------------- MODULE TracedProgram ---------------------------
(***************************************************************************)
(* What a debugger promises of the program it controls: breakpoints and    *)
(* steps delay the program and change nothing else.  It executes its own   *)
(* instructions in the order of its own control flow.                      *)
(***************************************************************************)
CONSTANTS Program,  \* the instructions: address -> length and successors
          Entry     \* where the program starts

VARIABLES pc,   \* the instruction the program executes next
          life  \* "none", "live", "ended", or "released" from the promise

vars == <<pc, life>>

Init == pc = Entry /\ life = "none"

\* A loaded program starts at its entry, one that is attached to is anywhere.
Begin == /\ life = "none"
         /\ life' = "live"
         /\ pc' \in DOMAIN Program

Execute == /\ life = "live"
           /\ pc' \in Program[pc].next
           /\ UNCHANGED life

\* The program exits at an instruction without successor, or is killed anywhere.
End == /\ life = "live"
       /\ life' = "ended"
       /\ pc' = Entry

\* The user did what the debugger makes no promise for.
Release == /\ life' = "released"
           /\ pc' = Entry

Next == Begin \/ Execute \/ End \/ Release

Spec == Init /\ [][Next]_vars
=============================================================================
