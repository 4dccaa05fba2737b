-------------------------- MODULE MCPtraceDebugger --------------------------
\* A program with a loop, a branch and an exit, whose first instructions are
\* shorter than a word and next to each other.
EXTENDS PtraceDebugger, TLC

MCProgram == 0 :> [len |-> 1, next |-> {1}]
          @@ 1 :> [len |-> 2, next |-> {3}]
          @@ 3 :> [len |-> 1, next |-> {1, 4}]
          @@ 4 :> [len |-> 2, next |-> {}]
MCBreakAddr == {0, 2, 3}
=============================================================================
