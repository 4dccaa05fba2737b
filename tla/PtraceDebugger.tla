--------------------------- MODULE PtraceDebugger ---------------------------
(***************************************************************************)
(* The native debugger: parse_and_execute_cmd of minimal_debugger's        *)
(* debugger.cpp, ptrace_wrapper.cpp and breakpoint_manager.cpp, with the   *)
(* child as ptrace shows it.  The kernel and the child's processor are     *)
(* external and modelled as the debugger uses them.                        *)
(*                                                                         *)
(* The child's text is a set of addresses: those whose byte is 0xCC.  A    *)
(* word read with PEEKTEXT is the part of that set inside the word, since  *)
(* every other byte is the program's own in whatever way it is written.    *)
(* Return values of ptrace are never looked at: on a child that is gone    *)
(* every request fails and nothing happens.                                *)
(*                                                                         *)
(* careful is not in the code: it says that the user has kept the rules    *)
(* under which the debugger is transparent, stated at each command.        *)
(* A definition marked "Broken" is a defect the code does not have: it     *)
(* replaces the definition below it to show that a property can fail.      *)
(***************************************************************************)
EXTENDS Integers, FiniteSets, Functions

CONSTANTS Program,    \* address of an instruction -> [len, next]; next = {}: exit
          Entry,      \* the first instruction
          WORD,       \* bytes that PEEKTEXT and POKETEXT transfer
          BreakAddr   \* the addresses the user types

ASSUME WordAssumption == WORD \in Nat \ {0}
ASSUME ProgramAssumption ==
  /\ DOMAIN Program \subseteq Nat
  /\ Entry \in DOMAIN Program
  /\ \A a \in DOMAIN Program : Program[a].len \in Nat \ {0}
                               /\ Program[a].next \subseteq DOMAIN Program

VARIABLES
  target_path,     \* is not empty; is_loaded has the same value in this process
  is_child_alive,
  status,          \* what waitpid stored last
  bps,             \* address -> [enabled, original_data], as listed so far
  control,         \* the prompt, or the wait the debugger is in
  breakpoint,      \* the address of the breakpoint stepped over, or NoBreakpoint
  child,           \* the child's state in the kernel
  rip,             \* its instruction pointer
  why,             \* why it stopped last, or how it ended
  traps,           \* the addresses in its text that hold 0xCC
  pending,         \* a signal is pending
  careful          \* the user has kept the rules

vars == <<target_path, is_child_alive, status, bps, control, breakpoint,
          child, rip, why, traps, pending, careful>>
debugger == <<target_path, is_child_alive, status, bps, control, breakpoint, careful>>
text == <<traps, pending>>

NoBreakpoint == -1
Instruction == DOMAIN Program
Bytes(a) == a .. a + Program[a].len - 1
Addr == UNION {Bytes(a) : a \in Instruction}
Word(a) == a .. a + WORD - 1

\* Instructions do not overlap, and what the user types is part of the text.
ASSUME InstructionsApart ==
  \A a, b \in Instruction : b \in Bytes(a) => a = b
ASSUME BreakAddrAssumption == BreakAddr \subseteq Addr

Control == {"main", "prompt", "load", "step", "step over", "wait", "ended", "aborted"}
Child == {"none", "clone", "stopped", "stepping", "running", "zombie", "reaped", "detached"}
Why == {"exec", "trap", "step", "signal", "exited", "signaled", "clone"}
Breakpoint == [enabled : BOOLEAN, original_data : SUBSET Addr]

\* status is not initialised: WIFEXITED of it may be true.
Init == /\ target_path = FALSE /\ is_child_alive = FALSE
        /\ status \in {"stopped", "exited"}
        /\ bps = << >>
        /\ control = "main" /\ breakpoint = NoBreakpoint
        /\ child = "none" /\ rip = Entry /\ why = "exec"
        /\ traps = {} /\ pending = FALSE
        /\ careful = TRUE

-----------------------------------------------------------------------------
(* ptrace and waitpid, on a child that may be gone.                        *)

\* The child's text after POKETEXT of data, the trapped bytes of a word, at a.
Poke(a, data) == IF child = "stopped" THEN (traps \ Word(a)) \cup data ELSE traps

Resumed(how) == IF child = "stopped" THEN how ELSE child

\* waitpid(child_id, &status, 0) returns: not while the child executes.
Waitable == child \notin {"stepping", "running"}
WaitedStatus == CASE child = "stopped" -> "stopped"
                  [] child = "zombie" -> why
                  [] OTHER -> status
WaitedChild == IF child = "zombie" THEN "reaped" ELSE child
WIFEXITED == WaitedStatus = "exited"

-----------------------------------------------------------------------------
(* main, load and attach.                                                  *)

\* No target on the command line, or none that can be loaded or attached to.
NoTarget == /\ control = "main"
            /\ control' = "prompt"
            /\ UNCHANGED <<target_path, is_child_alive, status, bps, breakpoint,
                           child, rip, why, traps, pending, careful>>

\* fork, TRACEME, exec and the stop after it.  When exec fails the child
\* returns to the prompt as a second debugger while the first waits for it; a
\* failed fork is taken for a child.
load_binary ==
  /\ is_child_alive' = TRUE
  /\ \/ /\ child' = "stopped" /\ rip' = Entry /\ why' = "exec"
        /\ status' = "stopped"
        /\ control' = "prompt"
     \/ /\ child' = "clone" /\ why' = "clone"
        /\ control' = "load"
        /\ UNCHANGED <<status, rip>>
     \/ /\ control' = "prompt"
        /\ UNCHANGED <<status, child, rip, why>>

\* A second load is refused, as is a file that is missing or not executable.
load == /\ control \in {"main", "prompt"}
        /\ ~target_path
        /\ target_path' = TRUE
        /\ load_binary
        /\ UNCHANGED <<bps, breakpoint, traps, pending, careful>>

\* The second debugger quits; load does not look at the status.
CloneQuits == /\ control = "load"
              /\ child' = "reaped"
              /\ status' = "exited"
              /\ control' = "prompt"
              /\ UNCHANGED <<target_path, is_child_alive, bps, breakpoint, rip, why,
                             traps, pending, careful>>

\* Only from the command line.  The status goes to a local variable.
attach_to_process ==
  /\ control = "main"
  /\ target_path' = TRUE
  /\ is_child_alive' = TRUE
  /\ child' = "stopped" /\ why' = "signal"
  /\ rip' \in Instruction
  /\ control' = "prompt"
  /\ UNCHANGED <<status, bps, breakpoint, traps, pending, careful>>

-----------------------------------------------------------------------------
(* Breakpoints.                                                            *)

Listed(a) == a \in DOMAIN bps
Enabled(a) == Listed(a) /\ bps[a].enabled

\* BreakpointManager::add, and the data the caller stores in the entry.
Add(a, data) ==
  bps' = [b \in DOMAIN bps \cup {a} |->
            IF b = a THEN [enabled |-> TRUE, original_data |-> data] ELSE bps[b]]

\* The word is read, remembered and written back with a trap in its low byte.
\* Reading a child that is gone gives a value that is never written.
add_breakpoint(a) ==
  LET orig_data == IF child = "stopped" THEN traps \cap Word(a) ELSE {}
  IN  /\ Add(a, orig_data)
      /\ traps' = Poke(a, orig_data \cup {a})

\* Broken: the trap is left in the text.
remove_entry(a) == /\ bps' = [bps EXCEPT ![a].enabled = FALSE]
                   /\ UNCHANGED traps

\* The entry stays in the list, disabled.
remove_breakpoint(a) == /\ traps' = Poke(a, bps[a].original_data)
                        /\ bps' = [bps EXCEPT ![a].enabled = FALSE]

\* Rule: a breakpoint is set on an instruction, is not set twice, and keeps a
\* word's distance to every address ever listed.
MayBreak(a) == /\ a \in Instruction
               /\ ~Enabled(a)
               /\ \A b \in DOMAIN bps \ {a} : a \notin Word(b) /\ b \notin Word(a)

\* Rule: a breakpoint is not removed while the child stands behind it.
MayRemove(a) == ~(why = "trap" /\ rip = a + 1)

Break(a) == /\ control = "prompt" /\ target_path
            /\ add_breakpoint(a)
            /\ careful' = (careful /\ MayBreak(a))
            /\ UNCHANGED <<target_path, is_child_alive, status, control, breakpoint,
                           child, rip, why, pending>>

RemoveBreak(a) == /\ control = "prompt" /\ target_path
                  /\ Listed(a)
                  /\ remove_breakpoint(a)
                  /\ careful' = (careful /\ MayRemove(a))
                  /\ UNCHANGED <<target_path, is_child_alive, status, control,
                                 breakpoint, child, rip, why, pending>>

\* string_to_address throws out_of_range for more than 64 bits, and break and
\* remove_b catch invalid_argument only: the debugger is terminated, and a child
\* that it held goes on by itself with the traps in its text.
\* Rule: no such address is typed.
AddressOutOfRange ==
  /\ control = "prompt" /\ target_path
  /\ control' = "aborted"
  /\ child' = Resumed("detached")
  /\ careful' = FALSE
  /\ UNCHANGED <<target_path, is_child_alive, status, bps, breakpoint, rip, why, traps,
                 pending>>

-----------------------------------------------------------------------------
(* step, continue and run.                                                 *)

\* get_current_breakpoint guesses from rip - 1 what the child stands on; what
\* is not in the list is returned as disabled.
get_current_breakpoint == IF Enabled(rip - 1) THEN rip - 1 ELSE NoBreakpoint

\* Broken: the instruction pointer stays behind the trap.
step_without_rewind ==
  /\ child' = Resumed("stepping")
  /\ breakpoint' = get_current_breakpoint
  /\ IF get_current_breakpoint = NoBreakpoint \/ child # "stopped"
       THEN UNCHANGED <<rip, why, traps>>
       ELSE traps' = Poke(rip - 1, bps[rip - 1].original_data) /\ UNCHANGED <<rip, why>>

\* Broken: the instruction pointer is set back by a word.
step_rewinds_word ==
  /\ child' = Resumed("stepping")
  /\ breakpoint' = get_current_breakpoint
  /\ IF get_current_breakpoint = NoBreakpoint \/ child # "stopped"
       THEN UNCHANGED <<rip, why, traps>>
       ELSE /\ traps' = Poke(rip - 1, bps[rip - 1].original_data)
            /\ rip' = rip - WORD
            /\ why' = "step"

\* The first half of execute_single_step: on a breakpoint the word is restored
\* and the instruction pointer set back.
execute_single_step ==
  /\ child' = Resumed("stepping")
  /\ breakpoint' = get_current_breakpoint
  /\ IF get_current_breakpoint = NoBreakpoint \/ child # "stopped"
       THEN UNCHANGED <<rip, why, traps>>
       ELSE /\ traps' = Poke(rip - 1, bps[rip - 1].original_data)
            /\ rip' = rip - 1
            /\ why' = "step"

\* Rule: no step from an address whose breakpoint was not hit although it lies
\* just in front.
MayStep == Enabled(rip - 1) => why = "trap"

\* Rule: no continue from a breakpoint that is still to be hit, and no run
\* from one that was hit.
MayContinue == MayStep /\ ~Enabled(rip)
MayRun == why # "trap"

Step == /\ control = "prompt" /\ is_child_alive
        /\ execute_single_step
        /\ control' = "step"
        /\ careful' = (careful /\ MayStep)
        /\ UNCHANGED <<target_path, is_child_alive, status, bps, pending>>

Continue == /\ control = "prompt" /\ is_child_alive
            /\ execute_single_step
            /\ control' = "step over"
            /\ careful' = (careful /\ MayContinue)
            /\ UNCHANGED <<target_path, is_child_alive, status, bps, pending>>

Run == /\ control = "prompt" /\ target_path /\ is_child_alive
       /\ child' = Resumed("running")
       /\ control' = "wait"
       /\ careful' = (careful /\ MayRun)
       /\ UNCHANGED <<target_path, is_child_alive, status, bps, breakpoint, rip, why,
                      traps, pending>>

\* Broken: the breakpoint stepped over is not set again.
StepReturnsUnset ==
  /\ control \in {"step", "step over"} /\ Waitable
  /\ status' = WaitedStatus
  /\ is_child_alive' = (is_child_alive /\ ~WIFEXITED)
  /\ breakpoint' = NoBreakpoint
  /\ control' = IF control = "step" THEN "prompt" ELSE "wait"
  /\ child' = IF control = "step over" THEN Resumed("running") ELSE WaitedChild
  /\ UNCHANGED <<target_path, bps, rip, why, traps, pending, careful>>

\* The second half: the trap is written again unless the child has exited.
\* continue goes on with PTRACE_CONT in either case.
StepReturns ==
  /\ control \in {"step", "step over"} /\ Waitable
  /\ status' = WaitedStatus
  /\ is_child_alive' = (is_child_alive /\ ~WIFEXITED)
  /\ traps' = IF breakpoint = NoBreakpoint \/ WIFEXITED THEN traps
              ELSE Poke(breakpoint, bps[breakpoint].original_data \cup {breakpoint})
  /\ breakpoint' = NoBreakpoint
  /\ IF control = "step"
       THEN control' = "prompt" /\ child' = WaitedChild
       ELSE /\ control' = "wait"
            /\ child' = IF child = "stopped" THEN "running" ELSE WaitedChild
  /\ UNCHANGED <<target_path, bps, rip, why, pending, careful>>

\* Broken: the end of the child is not looked at.
ContinueReturnsBlind ==
  /\ control = "wait" /\ Waitable
  /\ status' = WaitedStatus
  /\ child' = WaitedChild
  /\ control' = "prompt"
  /\ UNCHANGED <<target_path, is_child_alive, bps, breakpoint, rip, why, traps,
                 pending, careful>>

\* Broken: only the end of the child ends the wait.
ContinueWaitsForExit ==
  /\ control = "wait" /\ Waitable
  /\ status' = WaitedStatus
  /\ is_child_alive' = (is_child_alive /\ ~WIFEXITED)
  /\ child' = WaitedChild
  /\ control' = IF WIFEXITED THEN "prompt" ELSE "wait"
  /\ UNCHANGED <<target_path, bps, breakpoint, rip, why, traps, pending, careful>>

\* The wait of continue_execution and of continue_process.
ContinueReturns ==
  /\ control = "wait" /\ Waitable
  /\ status' = WaitedStatus
  /\ is_child_alive' = (is_child_alive /\ ~WIFEXITED)
  /\ child' = WaitedChild
  /\ control' = "prompt"
  /\ UNCHANGED <<target_path, bps, breakpoint, rip, why, traps, pending, careful>>

\* Broken: only a child that is known to be stopped is killed.
kill_stopped_child == child' = IF status = "stopped" /\ child = "stopped" THEN "reaped"
                               ELSE child

\* SIGKILL and the wait for it; after a failed fork child_id is -1.
kill_child_process == child' = IF is_child_alive /\ child # "none" THEN "reaped" ELSE child

\* quit, exit and the end of the input.
Quit == /\ control = "prompt"
        /\ kill_child_process
        /\ is_child_alive' = FALSE
        /\ control' = "ended"
        /\ UNCHANGED <<target_path, status, bps, breakpoint, rip, why, traps, pending,
                       careful>>

-----------------------------------------------------------------------------
(* The child.                                                              *)

Alive == child \in {"stopped", "stepping", "running"}
Executing == child \in {"stepping", "running"} /\ ~pending
Own == rip \in Instruction /\ Bytes(rip) \cap traps = {}

\* A signal stops the child before its next instruction, and is discarded by
\* the request that resumes it.
SignalStop == /\ child \in {"stepping", "running"} /\ pending
              /\ pending' = FALSE
              /\ child' = "stopped"
              /\ why' = IF why = "trap" THEN "trap" ELSE "signal"
              /\ UNCHANGED <<rip, traps>> /\ UNCHANGED debugger

\* int3
Trap == /\ Executing /\ rip \in traps
        /\ rip' = rip + 1
        /\ child' = "stopped" /\ why' = "trap"
        /\ UNCHANGED text /\ UNCHANGED debugger

\* One instruction of the program.
Execute == /\ Executing /\ Own
           /\ IF Program[rip].next = {}
                THEN child' = "zombie" /\ why' = "exited" /\ UNCHANGED rip
                ELSE /\ rip' \in Program[rip].next
                     /\ why' = "step"
                     /\ child' = IF child = "stepping" THEN "stopped" ELSE child
           /\ UNCHANGED text /\ UNCHANGED debugger

\* Bytes that are no instruction of the program: they can lead anywhere.
Stray == /\ Executing /\ rip \notin traps /\ ~Own
         /\ \/ /\ rip' \in Addr
               /\ why' = "step"
               /\ child' = IF child = "stepping" THEN "stopped" ELSE child
            \/ /\ child' = "stopped" /\ why' = "signal"
               /\ UNCHANGED rip
         /\ UNCHANGED text /\ UNCHANGED debugger

\* Ctrl-C goes to the child as well; the debugger's own handler does nothing.
CtrlC == /\ Alive
         /\ pending' = TRUE
         /\ UNCHANGED <<child, rip, why, traps>> /\ UNCHANGED debugger

\* Somebody kills the child.
Killed == /\ Alive
          /\ child' = "zombie" /\ why' = "signaled"
          /\ UNCHANGED rip /\ UNCHANGED text /\ UNCHANGED debugger

-----------------------------------------------------------------------------
Returns == StepReturns \/ ContinueReturns
ChildRuns == SignalStop \/ Trap \/ Execute \/ Stray

Next == \/ NoTarget \/ load \/ CloneQuits \/ attach_to_process
        \/ \E a \in BreakAddr : Break(a) \/ RemoveBreak(a)
        \/ AddressOutOfRange
        \/ Step \/ Continue \/ Run \/ Quit
        \/ Returns
        \/ ChildRuns \/ CtrlC \/ Killed

\* The scheduler runs the child that was resumed and the debugger whose wait
\* can return.  Nobody has to type.
Spec == Init /\ [][Next]_vars /\ WF_vars(Returns) /\ WF_vars(ChildRuns)

-----------------------------------------------------------------------------
(* Properties.                                                             *)

\* Every variable has its type.
TypeOK ==
  /\ {target_path, is_child_alive, pending, careful} \subseteq BOOLEAN
  /\ status \in {"stopped", "exited", "signaled"}
  /\ DOMAIN bps \subseteq BreakAddr /\ \A a \in DOMAIN bps : bps[a] \in Breakpoint
  /\ control \in Control
  /\ breakpoint \in BreakAddr \cup {NoBreakpoint}
  /\ child \in Child /\ why \in Why
  /\ rip \in Addr \cup {a + 1 : a \in Addr}
  /\ traps \subseteq Addr

Loaded == child \notin {"none", "clone"} /\ why # "clone"

\* The program as the user may believe it to be: behind a trap that was hit
\* the next instruction is the one under the trap.
Life == CASE ~careful -> "released"
          [] careful /\ ~Loaded -> "none"
          [] careful /\ Loaded /\ Alive -> "live"
          [] careful /\ Loaded /\ ~Alive -> "ended"
Pc == CASE ~(careful /\ Loaded /\ Alive) -> Entry
        [] careful /\ Loaded /\ Alive /\ why = "trap" -> rip - 1
        [] careful /\ Loaded /\ Alive /\ why # "trap" -> rip

Promise == INSTANCE TracedProgram WITH life <- Life, pc <- Pc

\* While the user keeps the rules the child executes its own program, whatever
\* is set, removed, stepped over or interrupted (technical.md:47 of the
\* debugger: disable, step, enable again).
Transparent == Promise!Spec

\* Text and list agree whenever no breakpoint is being stepped over: exactly the
\* enabled addresses hold a trap (add, remove and the two halves of a step).
TrapsMatchList ==
  careful /\ child \in {"stopped", "running"} /\ breakpoint = NoBreakpoint
  => traps = {a \in DOMAIN bps : bps[a].enabled}

\* A child that runs does not get past an enabled breakpoint: the only way to
\* leave its address is the trap, a signal or the child's end.
BreakpointStops ==
  [][careful /\ child = "running" /\ Enabled(rip)
     => UNCHANGED <<rip, child>> \/ why' \in {"trap", "signal", "signaled"}]_vars

\* The prompt never takes a child for alive that has exited and been waited for
\* by step, continue or run (ptrace_wrapper.cpp:108, 122, 142 and 181).
ExitIsNoticed == control = "prompt" /\ child = "reaped" /\ why = "exited"
                 => ~is_child_alive

\* Leaving the debugger, by quit, exit or the end of the input, leaves neither a
\* child nor its zombie behind.  AddressOutOfRange is another way out, which does.
QuitLeavesNoChild == control = "ended" => child \in {"none", "reaped"}

\* Every command comes back to the prompt, unless the child executes on and
\* never stops, or the clone of a failed exec is still being used.
CommandReturns ==
  control \in {"step", "step over", "wait"} /\ child # "running"
  ~> control = "prompt" \/ child = "running"

\* The documentation says that continue steps over breakpoints transparently
\* (TESTS.md:60: "rewind -> restore -> step -> re-break"): the child is not
\* resumed in the middle of the instruction whose trap the step ran into.
ContinueIsTransparent ==
  [][control = "step over" /\ control' = "wait" /\ child' = "running"
     => why' # "trap"]_vars
=============================================================================
