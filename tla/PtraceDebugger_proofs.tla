------------------------ MODULE PtraceDebugger_proofs ------------------------
(***************************************************************************)
(* Proofs about PtraceDebugger, for every program whose instructions do    *)
(* not overlap, every width of a word and every set of addresses to break  *)
(* at.  Liveness (CommandReturns) is left to the model checker.            *)
(***************************************************************************)
EXTENDS PtraceDebugger, TLAPS

-----------------------------------------------------------------------------
(* The inductive invariant.                                                *)

\* What the debugger waits for and what it knows of the child, whatever the
\* user does.
Waits ==
  /\ control = "main" => ~target_path
  /\ control \in {"load", "step", "step over", "wait"} => target_path
  /\ ~target_path => /\ child = "none" /\ ~is_child_alive /\ why = "exec"
                     /\ bps = << >> /\ traps = {}
  /\ child = "clone" <=> control = "load"
  /\ child = "stepping" => control \in {"step", "step over"}
  /\ child = "running" => control = "wait"
  /\ child = "detached" => control = "aborted"
  /\ child = "zombie" => why \in {"exited", "signaled"}
  /\ child = "clone" => why = "clone"
  /\ why = "clone" => child \in {"clone", "reaped"}
  /\ breakpoint # NoBreakpoint => control \in {"step", "step over"} /\ Enabled(breakpoint)
  /\ ~is_child_alive => child \in {"none", "reaped"}
  /\ control = "ended" => ~is_child_alive
  /\ child = "reaped" /\ why = "exited" => ~is_child_alive

\* The breakpoints a careful user has listed do not share a word.
WordsApart ==
  \A a \in DOMAIN bps : /\ a \in Instruction
                        /\ \A b \in DOMAIN bps \ {a} : a \notin Word(b)

\* The text holds the enabled breakpoints and nothing else, but for the one
\* that is stepped over, and no trap hides behind another.
TextFollowsList ==
  /\ \A a \in DOMAIN bps : bps[a].original_data = {}
  /\ traps = {a \in DOMAIN bps : bps[a].enabled} \ {breakpoint}

\* The child stands in front of an instruction, or behind a trap that is still
\* enabled; what steps over a breakpoint does not run into one.
StandsOnInstruction ==
  /\ why = "trap" => child = "stopped" /\ Enabled(rip - 1)
  /\ why # "trap" => rip \in Instruction
  /\ control = "step over" => why # "trap" /\ (child = "stepping" => rip \notin traps)

CarefulInv == careful => /\ WordsApart
                         /\ Alive => TextFollowsList /\ StandsOnInstruction

IInv == TypeOK /\ Waits /\ CarefulInv

-----------------------------------------------------------------------------
(* Addresses and types.                                                    *)

\* Every instruction has a byte, addresses are numbers and -1 is none.
LEMMA Addresses ==
  /\ Instruction \subseteq Addr /\ Addr \subseteq Nat
  /\ BreakAddr \subseteq Addr /\ NoBreakpoint \notin BreakAddr
  /\ \A a \in Instruction : a \in Bytes(a) /\ Program[a].next \subseteq Instruction
  /\ \A a : a \in Int => a \in Word(a)
<1>1. \A a \in Instruction : a \in Nat /\ Program[a].len \in Nat \ {0}
  BY ProgramAssumption DEF Instruction
<1>2. \A a \in Instruction : a \in Bytes(a) /\ Bytes(a) \subseteq Nat
  BY <1>1 DEF Bytes
<1>3. Instruction \subseteq Addr /\ Addr \subseteq Nat
  BY <1>2 DEF Addr
<1>4. \A a \in Instruction : Program[a].next \subseteq Instruction
  BY ProgramAssumption DEF Instruction
<1>5. BreakAddr \subseteq Addr /\ NoBreakpoint \notin BreakAddr
  BY <1>3, BreakAddrAssumption DEF NoBreakpoint
<1>6. \A a : a \in Int => a \in Word(a)
  BY WordAssumption DEF Word
<1> QED BY <1>2, <1>3, <1>4, <1>5, <1>6

\* The breakpoint that step and continue find is listed, or there is none.
LEMMA CurrentBreakpoint ==
  ASSUME TypeOK
  PROVE  /\ get_current_breakpoint \in BreakAddr \cup {NoBreakpoint}
         /\ get_current_breakpoint = NoBreakpoint <=> ~Enabled(rip - 1)
         /\ Enabled(rip - 1) => /\ rip - 1 \in BreakAddr /\ rip - 1 \in Addr
                                /\ get_current_breakpoint = rip - 1
                                /\ bps[rip - 1].original_data \subseteq Addr
BY Addresses DEF get_current_breakpoint, Enabled, Listed, TypeOK, Breakpoint

\* The instruction pointer is a number.
LEMMA RipIsNumber == TypeOK => rip \in Nat
BY Addresses DEF TypeOK

\* load, attach, a session without target, and the end of one by an exception.
LEMMA LoadType ==
  TypeOK /\ (NoTarget \/ load \/ CloneQuits \/ attach_to_process \/ AddressOutOfRange)
    => TypeOK'
BY ProgramAssumption, Addresses
   DEF TypeOK, NoTarget, load, load_binary, CloneQuits, attach_to_process,
       AddressOutOfRange, Resumed, Control, Child, Why, Instruction

\* Listing and disabling a breakpoint change a word of the text and an entry.
LEMMA BreakType ==
  ASSUME TypeOK, NEW a \in BreakAddr, Break(a) \/ RemoveBreak(a)
  PROVE  TypeOK'
<1>1. a \in Addr
  BY Addresses
<1>2. CASE Break(a)
  <2> DEFINE orig_data == IF child = "stopped" THEN traps \cap Word(a) ELSE {}
  <2>1. orig_data \in SUBSET Addr /\ traps \subseteq Addr
    BY DEF TypeOK
  <2>2. /\ Add(a, orig_data) /\ traps' = Poke(a, orig_data \cup {a})
        /\ careful' \in BOOLEAN
        /\ UNCHANGED <<target_path, is_child_alive, status, control, breakpoint,
                       child, rip, why, pending>>
    BY <1>2 DEF Break, add_breakpoint
  <2> HIDE DEF orig_data
  <2>3. traps' \subseteq Addr
    BY <1>1, <2>1, <2>2 DEF Poke
  <2>4. [enabled |-> TRUE, original_data |-> orig_data] \in Breakpoint
    BY <2>1 DEF Breakpoint
  <2>5. DOMAIN bps' \subseteq BreakAddr /\ \A b \in DOMAIN bps' : bps'[b] \in Breakpoint
    BY <2>2, <2>4 DEF Add, TypeOK
  <2> QED BY <2>2, <2>3, <2>5 DEF TypeOK
<1>3. CASE RemoveBreak(a)
  <2>1. /\ a \in DOMAIN bps /\ traps' = Poke(a, bps[a].original_data)
        /\ bps' = [bps EXCEPT ![a].enabled = FALSE]
        /\ careful' \in BOOLEAN
        /\ UNCHANGED <<target_path, is_child_alive, status, control, breakpoint,
                       child, rip, why, pending>>
    BY <1>3 DEF RemoveBreak, remove_breakpoint, Listed
  <2>2. bps[a] \in Breakpoint /\ bps[a].original_data \subseteq Addr
    BY <2>1 DEF TypeOK, Breakpoint
  <2>3. traps' \subseteq Addr
    BY <2>1, <2>2 DEF Poke, TypeOK
  <2>4. [bps[a] EXCEPT !.enabled = FALSE] \in Breakpoint
    BY <2>2 DEF Breakpoint
  <2>5. DOMAIN bps' \subseteq BreakAddr /\ \A b \in DOMAIN bps' : bps'[b] \in Breakpoint
    BY <2>1, <2>4 DEF TypeOK
  <2> QED BY <2>1, <2>3, <2>5 DEF TypeOK
<1> QED BY <1>2, <1>3

\* What the first half of a step does to the child.
LEMMA SingleStep ==
  ASSUME TypeOK, execute_single_step
  PROVE  /\ child' = IF child = "stopped" THEN "stepping" ELSE child
         /\ breakpoint' = get_current_breakpoint
         /\ ~(Enabled(rip - 1) /\ child = "stopped") => UNCHANGED <<rip, why, traps>>
         /\ Enabled(rip - 1) /\ child = "stopped"
              => /\ traps' = (traps \ Word(rip - 1)) \cup bps[rip - 1].original_data
                 /\ rip' = rip - 1
                 /\ why' = "step"
BY CurrentBreakpoint DEF execute_single_step, Resumed, Poke

\* The first half of step and of continue.
LEMMA StepType == TypeOK /\ (Step \/ Continue) => TypeOK'
<1> SUFFICES ASSUME TypeOK, Step \/ Continue PROVE TypeOK'
  OBVIOUS
<1>1. /\ execute_single_step /\ control' \in Control /\ careful' \in BOOLEAN
      /\ UNCHANGED <<target_path, is_child_alive, status, bps, pending>>
  BY DEF Step, Continue, Control
<1>2. child' \in Child /\ breakpoint' \in BreakAddr \cup {NoBreakpoint}
  BY <1>1, SingleStep, CurrentBreakpoint DEF TypeOK, Child
<1>3. why' \in Why /\ rip' \in Addr \cup {a + 1 : a \in Addr} /\ traps' \subseteq Addr
  BY <1>1, SingleStep, CurrentBreakpoint DEF TypeOK, Why
<1> QED BY <1>1, <1>2, <1>3 DEF TypeOK

\* run, quit and the two waits that return.
LEMMA ReturnType ==
  ASSUME TypeOK, child = "zombie" => why \in {"exited", "signaled"},
         breakpoint # NoBreakpoint => Enabled(breakpoint),
         Run \/ Quit \/ StepReturns \/ ContinueReturns
  PROVE  TypeOK'
<1>1. WaitedStatus \in {"stopped", "exited", "signaled"} /\ WaitedChild \in Child
  BY DEF TypeOK, WaitedStatus, WaitedChild, Child
<1>2. breakpoint # NoBreakpoint =>
        breakpoint \in Addr /\ bps[breakpoint].original_data \subseteq Addr
  BY Addresses DEF TypeOK, Enabled, Listed, Breakpoint
<1>3. CASE Run
  BY <1>3 DEF TypeOK, Run, Resumed, Child, Control
<1>4. CASE Quit
  BY <1>4 DEF TypeOK, Quit, kill_child_process, Child, Control
<1>5. CASE StepReturns
  <2>1. traps' \subseteq Addr
    BY <1>2, <1>5 DEF TypeOK, StepReturns, Poke
  <2>2. /\ child' \in Child /\ control' \in Control /\ status' = WaitedStatus
        /\ is_child_alive' \in BOOLEAN /\ breakpoint' = NoBreakpoint
        /\ UNCHANGED <<target_path, bps, rip, why, pending, careful>>
    BY <1>1, <1>5 DEF TypeOK, StepReturns, Child, Control, WIFEXITED
  <2> QED BY <1>1, <2>1, <2>2 DEF TypeOK
<1>6. CASE ContinueReturns
  BY <1>1, <1>6 DEF TypeOK, ContinueReturns, Control, WIFEXITED
<1> QED BY <1>3, <1>4, <1>5, <1>6

\* The child's own steps, Ctrl-C and somebody's kill.
LEMMA ChildType ==
  ASSUME TypeOK, ChildRuns \/ CtrlC \/ Killed
  PROVE  TypeOK'
<1>1. CASE SignalStop \/ CtrlC \/ Killed
  <2>1. /\ UNCHANGED <<rip, traps>> /\ UNCHANGED debugger
        /\ child' \in {child, "stopped", "zombie"}
        /\ why' \in {why, "trap", "signal", "signaled"}
        /\ pending' \in {pending, TRUE, FALSE}
    BY <1>1 DEF SignalStop, CtrlC, Killed, text
  <2> QED BY <2>1 DEF TypeOK, Child, Why, debugger
<1>2. CASE Trap
  BY <1>2 DEF TypeOK, Trap, Child, Why, debugger, text
<1>3. CASE Execute
  <2>1. Program[rip].next # {} => rip' \in Addr
    BY <1>3, Addresses DEF Execute, Own
  <2> QED BY <1>3, <2>1 DEF TypeOK, Execute, Child, Why, debugger, text
<1>4. CASE Stray
  BY <1>4 DEF TypeOK, Stray, Child, Why, debugger, text
<1> QED BY <1>1, <1>2, <1>3, <1>4 DEF ChildRuns

-----------------------------------------------------------------------------
(* The debugger and the child, whatever the user does.                     *)

\* Every action keeps what the debugger knows of its child.
LEMMA WaitsKept ==
  ASSUME TypeOK, Waits, [Next]_vars
  PROVE  Waits'
<1>0. bps' = bps /\ breakpoint' = breakpoint => (Enabled(breakpoint)' <=> Enabled(breakpoint))
  BY DEF Enabled, Listed
<1>1. CASE NoTarget \/ load \/ CloneQuits \/ attach_to_process
  <2>1. CASE NoTarget
    BY <1>0, <2>1 DEF Waits, NoTarget
  <2>2. CASE load
    BY <1>0, <2>2 DEF Waits, load, load_binary
  <2>3. CASE CloneQuits
    BY <1>0, <2>3 DEF Waits, CloneQuits
  <2>4. CASE attach_to_process
    BY <1>0, <2>4 DEF Waits, attach_to_process
  <2> QED BY <1>1, <2>1, <2>2, <2>3, <2>4
<1>2. ASSUME NEW a \in BreakAddr, Break(a) PROVE Waits'
  <2>1. control = "prompt" /\ target_path /\ breakpoint = NoBreakpoint
    BY <1>2 DEF Waits, Break
  <2> QED BY <1>2, <2>1 DEF TypeOK, Waits, Break
<1>3. ASSUME NEW a \in BreakAddr, RemoveBreak(a) PROVE Waits'
  <2>1. control = "prompt" /\ target_path /\ breakpoint = NoBreakpoint
    BY <1>3 DEF Waits, RemoveBreak
  <2> QED BY <1>3, <2>1 DEF TypeOK, Waits, RemoveBreak
<1>4. CASE Step \/ Continue
  <2>1. /\ execute_single_step /\ control = "prompt" /\ control' \in {"step", "step over"}
        /\ is_child_alive /\ UNCHANGED <<target_path, is_child_alive, bps>>
    BY <1>4 DEF Step, Continue
  <2>2. target_path
    BY <2>1 DEF Waits
  <2>3. breakpoint' # NoBreakpoint => Enabled(breakpoint)'
    BY <2>1, SingleStep, CurrentBreakpoint DEF Enabled, Listed
  <2>4. child \in {"none", "stopped", "zombie", "reaped"}
    BY <2>1 DEF Waits, TypeOK, Child
  <2>5. \/ child' = "stepping" /\ child = "stopped" /\ why' \in {why, "step"}
        \/ child' = child /\ child # "stopped" /\ UNCHANGED why
    BY <2>1, SingleStep
  <2> QED BY <2>1, <2>2, <2>3, <2>4, <2>5 DEF Waits
<1>5. CASE Run \/ Quit
  BY <1>5 DEF TypeOK, Waits, Run, Quit, kill_child_process, Resumed, Child, Enabled, Listed
<1>6. CASE StepReturns \/ ContinueReturns
  <2>1. /\ control \in {"step", "step over", "wait"}
        /\ child \notin {"stepping", "running"}
    BY <1>6 DEF StepReturns, ContinueReturns, Waits, Waitable
  <2>0. child \in {"none", "stopped", "zombie", "reaped"}
    BY <2>1 DEF Waits, TypeOK, Child
  <2>2. /\ WIFEXITED => child \in {"none", "zombie", "reaped"}
        /\ child = "zombie" /\ why = "exited" => WIFEXITED
    BY <2>0, <2>1 DEF WIFEXITED, WaitedStatus
  <2>3. /\ is_child_alive' = (is_child_alive /\ ~WIFEXITED)
        /\ breakpoint' = NoBreakpoint /\ UNCHANGED <<target_path, bps, why>>
        /\ \/ control' = "prompt" /\ child' = WaitedChild
           \/ control' = "wait" /\ child' = IF child = "stopped" THEN "running"
                                            ELSE WaitedChild
    BY <1>6 DEF StepReturns, ContinueReturns, Waits
  <2> QED BY <2>0, <2>1, <2>2, <2>3 DEF Waits, WaitedChild
<1>7. CASE ChildRuns \/ CtrlC \/ Killed
  BY <1>7 DEF TypeOK, Waits, ChildRuns, SignalStop, Trap, Execute, Stray, CtrlC, Killed,
              Executing, Alive, debugger, text, Enabled, Listed
<1>8. CASE UNCHANGED vars
  BY <1>8 DEF Waits, vars, Enabled, Listed
<1>9. CASE AddressOutOfRange
  <2>1. child \in {"none", "stopped", "zombie", "reaped"}
    BY <1>9 DEF AddressOutOfRange, Waits, TypeOK, Child
  <2>2. /\ control = "prompt" /\ control' = "aborted"
        /\ \/ child' = "detached" /\ child = "stopped"
           \/ child' = child /\ child # "stopped"
        /\ UNCHANGED <<target_path, is_child_alive, bps, breakpoint, why, traps>>
    BY <1>9, <2>1 DEF AddressOutOfRange, Resumed
  <2> QED BY <1>0, <2>1, <2>2 DEF Waits
<1> QED BY <1>1, <1>2, <1>3, <1>4, <1>5, <1>6, <1>7, <1>8, <1>9 DEF Next, Returns

\* Every action keeps the types.
LEMMA TypeKept ==
  ASSUME TypeOK, Waits, [Next]_vars
  PROVE  TypeOK'
<1>1. ASSUME NEW a \in BreakAddr, Break(a) \/ RemoveBreak(a) PROVE TypeOK'
  BY <1>1, BreakType
<1>2. CASE Run \/ Quit \/ StepReturns \/ ContinueReturns
  BY <1>2, ReturnType DEF Waits
<1>3. CASE UNCHANGED vars
  BY <1>3 DEF TypeOK, vars
<1> QED BY <1>1, <1>2, <1>3, LoadType, StepType, ChildType DEF Next, Returns

-----------------------------------------------------------------------------
(* A careful user.                                                         *)

\* At the prompt no breakpoint is being stepped over and the child, if it is
\* alive, is stopped.
LEMMA AtThePrompt ==
  ASSUME TypeOK, Waits, control = "prompt"
  PROVE  /\ breakpoint = NoBreakpoint
         /\ child \in {"none", "stopped", "zombie", "reaped"}
         /\ Alive => child = "stopped"
BY DEF Waits, TypeOK, Child, Alive

\* A child that is being waited for and does not execute.
LEMMA AtTheWait ==
  ASSUME TypeOK, Waits, control \in {"step", "step over", "wait"}, Waitable
  PROVE  /\ child \in {"none", "stopped", "zombie", "reaped"}
         /\ child # "stopped" => ~Alive /\ WaitedChild \notin {"stopped", "stepping", "running"}
         /\ child = "stopped" => ~WIFEXITED /\ WaitedChild = "stopped"
BY DEF Waits, TypeOK, Child, Alive, Waitable, WaitedChild, WIFEXITED, WaitedStatus

\* Listing a breakpoint by the rule saves a word without a trap.
LEMMA BreakKept ==
  ASSUME TypeOK, Waits, CarefulInv, NEW a \in BreakAddr, Break(a)
  PROVE  CarefulInv'
<1> SUFFICES ASSUME careful, MayBreak(a) PROVE CarefulInv'
  BY DEF Break, CarefulInv
<1>1. /\ control = "prompt" /\ breakpoint = NoBreakpoint /\ (Alive => child = "stopped")
      /\ UNCHANGED <<control, breakpoint, child, rip, why>>
  BY AtThePrompt DEF Break
<1>2. a \in Nat /\ a \in Word(a)
  BY Addresses
<1>3. DOMAIN bps \subseteq Nat /\ WordsApart
  BY Addresses DEF TypeOK, CarefulInv
<1>4. WordsApart'
  BY <1>3 DEF Break, add_breakpoint, Add, MayBreak, WordsApart
<1>5. ASSUME Alive PROVE TextFollowsList' /\ StandsOnInstruction'
  <2>1. child = "stopped" /\ TextFollowsList /\ StandsOnInstruction
    BY <1>1, <1>5 DEF CarefulInv
  <2>2. traps \cap Word(a) = {}
    <3> SUFFICES ASSUME NEW x \in traps PROVE x \notin Word(a)
      OBVIOUS
    <3>1. x \in DOMAIN bps /\ Enabled(x)
      BY <2>1 DEF TextFollowsList, Enabled, Listed
    <3>2. x # a
      BY <3>1 DEF MayBreak
    <3> QED BY <3>1, <3>2 DEF MayBreak
  <2>3. /\ Add(a, {}) /\ traps' = traps \cup {a}
    BY <2>1, <2>2 DEF Break, add_breakpoint, Poke
  <2>4. a # NoBreakpoint
    BY <1>2 DEF NoBreakpoint
  <2>5. /\ DOMAIN bps' = DOMAIN bps \cup {a}
        /\ \A b \in DOMAIN bps' :
             bps'[b] = IF b = a THEN [enabled |-> TRUE, original_data |-> {}] ELSE bps[b]
    BY <2>3 DEF Add
  <2>6. TextFollowsList'
    BY <1>1, <2>1, <2>3, <2>4, <2>5 DEF TextFollowsList, MayBreak, Enabled, Listed
  <2>7. StandsOnInstruction'
    BY <1>1, <2>1, <2>5 DEF StandsOnInstruction, Enabled, Listed
  <2> QED BY <2>6, <2>7
<1>6. Alive' => Alive
  BY <1>1 DEF Alive
<1> QED BY <1>4, <1>5, <1>6 DEF CarefulInv

\* A breakpoint that is removed by the rule leaves the text, and the child does
\* not stand behind it.
LEMMA RemoveKept ==
  ASSUME TypeOK, Waits, CarefulInv, NEW a \in BreakAddr, RemoveBreak(a)
  PROVE  CarefulInv'
<1> SUFFICES ASSUME careful, MayRemove(a) PROVE CarefulInv'
  BY DEF RemoveBreak, CarefulInv
<1>1. /\ control = "prompt" /\ breakpoint = NoBreakpoint /\ (Alive => child = "stopped")
      /\ UNCHANGED <<control, breakpoint, child, rip, why>>
  BY AtThePrompt DEF RemoveBreak
<1>2. a \in Nat /\ a \in Word(a) /\ a # NoBreakpoint
  BY Addresses DEF NoBreakpoint
<1>3. /\ a \in DOMAIN bps /\ bps' = [bps EXCEPT ![a].enabled = FALSE]
      /\ traps' = Poke(a, bps[a].original_data)
  BY DEF RemoveBreak, Listed, remove_breakpoint
<1>4. bps[a] \in Breakpoint
  BY <1>3 DEF TypeOK
<1>5. /\ DOMAIN bps' = DOMAIN bps
      /\ \A b \in DOMAIN bps : /\ bps'[b].enabled = IF b = a THEN FALSE ELSE bps[b].enabled
                               /\ bps'[b].original_data = bps[b].original_data
  BY <1>3, <1>4 DEF Breakpoint
<1>6. WordsApart /\ WordsApart'
  BY <1>5 DEF CarefulInv, WordsApart
<1>7. ASSUME Alive PROVE TextFollowsList' /\ StandsOnInstruction'
  <2>1. child = "stopped" /\ TextFollowsList /\ StandsOnInstruction
    BY <1>1, <1>7 DEF CarefulInv
  <2>2. traps' = traps \ {a}
    <3>1. traps' = traps \ Word(a)
      BY <1>3, <2>1 DEF Poke, TextFollowsList
    <3>2. \A x \in traps : x \in Word(a) <=> x = a
      BY <1>2, <1>3, <1>6, <2>1 DEF TextFollowsList, WordsApart
    <3> QED BY <3>1, <3>2
  <2>3. TextFollowsList'
    BY <1>1, <1>5, <2>1, <2>2 DEF TextFollowsList
  <2>4. why = "trap" => rip - 1 # a
    BY <1>2, RipIsNumber DEF MayRemove
  <2>5. StandsOnInstruction'
    BY <1>1, <1>5, <2>1, <2>4 DEF StandsOnInstruction, Enabled, Listed
  <2> QED BY <2>3, <2>5
<1>8. Alive' => Alive
  BY <1>1 DEF Alive
<1> QED BY <1>6, <1>7, <1>8 DEF CarefulInv

\* A word that begins at a listed breakpoint holds no other breakpoint.
LEMMA OnlyTrapInWord ==
  ASSUME TypeOK, WordsApart, NEW a \in DOMAIN bps
  PROVE  a \in Word(a) /\ \A x \in DOMAIN bps : x \in Word(a) => x = a
<1>1. a \in Nat
  BY Addresses DEF TypeOK
<1> QED BY <1>1, Addresses DEF WordsApart

\* The first half of a step takes out the breakpoint that was hit, by the rule.
LEMMA StepKept ==
  ASSUME TypeOK, Waits, CarefulInv, Step \/ Continue
  PROVE  CarefulInv'
<1> SUFFICES ASSUME careful' PROVE CarefulInv'
  BY DEF CarefulInv
<1>1. /\ careful /\ MayStep /\ (Continue => ~Enabled(rip))
      /\ control = "prompt" /\ execute_single_step /\ UNCHANGED bps
      /\ Step => control' = "step"
      /\ control' = "step over" => Continue
  BY DEF Step, Continue, MayContinue
<1>2. breakpoint = NoBreakpoint /\ (Alive => child = "stopped") /\ WordsApart
  BY <1>1, AtThePrompt DEF CarefulInv
<1>3. WordsApart'
  BY <1>1, <1>2 DEF WordsApart
<1>4. ASSUME child = "stopped" PROVE TextFollowsList' /\ StandsOnInstruction'
  <2>1. TextFollowsList /\ StandsOnInstruction
    BY <1>1, <1>4 DEF CarefulInv, Alive
  <2>2. CASE Enabled(rip - 1)
    <3> DEFINE a == rip - 1
    <3>1. /\ a \in DOMAIN bps /\ bps[a].original_data = {} /\ a # NoBreakpoint
          /\ a \in Instruction
      BY <1>2, <2>1, <2>2, CurrentBreakpoint, Addresses
         DEF Enabled, Listed, TextFollowsList, WordsApart
    <3>2. traps' = traps \ Word(a) /\ breakpoint' = a /\ rip' = a /\ why' = "step"
      BY <1>1, <1>4, <2>2, <3>1, SingleStep, CurrentBreakpoint
    <3>3. traps' = traps \ {a}
      BY <1>2, <2>1, <3>1, <3>2, OnlyTrapInWord DEF TextFollowsList
    <3> HIDE DEF a
    <3>4. \A b \in DOMAIN bps : b # NoBreakpoint
      BY Addresses DEF TypeOK
    <3>5. TextFollowsList'
      BY <1>1, <1>2, <2>1, <3>2, <3>3, <3>4 DEF TextFollowsList
    <3> QED BY <3>1, <3>2, <3>3, <3>5 DEF StandsOnInstruction
  <2>3. CASE ~Enabled(rip - 1)
    <3>1. UNCHANGED <<rip, why, traps>> /\ breakpoint' = NoBreakpoint
      BY <1>1, <2>3, SingleStep, CurrentBreakpoint
    <3>2. why # "trap" /\ rip \in Instruction
      BY <2>1, <2>3 DEF StandsOnInstruction
    <3>3. control' = "step over" => rip \notin traps
      BY <1>1, <2>1 DEF TextFollowsList, Enabled, Listed
    <3>4. TextFollowsList'
      BY <1>1, <1>2, <2>1, <3>1 DEF TextFollowsList
    <3> QED BY <3>1, <3>2, <3>3, <3>4 DEF StandsOnInstruction
  <2> QED BY <2>2, <2>3
<1>5. Alive' => child = "stopped"
  BY <1>1, <1>2, SingleStep DEF Alive
<1> QED BY <1>3, <1>4, <1>5 DEF CarefulInv

\* The second half puts the breakpoint back; a wait that returns changes no text.
LEMMA ReturnKept ==
  ASSUME TypeOK, Waits, CarefulInv, StepReturns \/ ContinueReturns
  PROVE  CarefulInv'
<1> SUFFICES ASSUME careful' PROVE CarefulInv'
  BY DEF CarefulInv
<1>1. /\ careful /\ WordsApart /\ UNCHANGED <<bps, rip, why>>
      /\ control \in {"step", "step over", "wait"} /\ Waitable
      /\ breakpoint' = NoBreakpoint
  BY DEF StepReturns, ContinueReturns, CarefulInv, Waits
<1>2. WordsApart'
  BY <1>1 DEF WordsApart
<1>3. CASE child = "stopped"
  <2>1. TextFollowsList /\ StandsOnInstruction /\ ~WIFEXITED /\ WaitedChild = "stopped"
    BY <1>1, <1>3, AtTheWait DEF CarefulInv, Alive
  <2>2. traps' = {a \in DOMAIN bps : bps[a].enabled}
    <3>1. CASE breakpoint = NoBreakpoint
      <4>1. \A a \in DOMAIN bps : a # NoBreakpoint
        BY Addresses DEF TypeOK
      <4>2. UNCHANGED traps
        BY <3>1 DEF StepReturns, ContinueReturns
      <4> QED BY <2>1, <3>1, <4>1, <4>2 DEF TextFollowsList
    <3>2. CASE breakpoint # NoBreakpoint
      <4>1. /\ control # "wait" /\ breakpoint \in DOMAIN bps /\ bps[breakpoint].enabled
            /\ bps[breakpoint].original_data = {}
        BY <2>1, <3>2 DEF Waits, Enabled, Listed, TextFollowsList
      <4>2. traps' = (traps \ Word(breakpoint)) \cup {breakpoint}
        BY <1>3, <2>1, <3>2, <4>1 DEF StepReturns, ContinueReturns, Poke
      <4>3. traps \ Word(breakpoint) = traps
        BY <1>1, <2>1, <4>1, OnlyTrapInWord DEF TextFollowsList
      <4> QED BY <2>1, <4>1, <4>2, <4>3 DEF TextFollowsList
    <3> QED BY <3>1, <3>2
  <2>3. \A a \in DOMAIN bps : a # NoBreakpoint
    BY Addresses DEF TypeOK
  <2>4. TextFollowsList'
    BY <1>1, <2>1, <2>2, <2>3 DEF TextFollowsList
  <2>5. \/ child' = "stopped" /\ control' \in {"prompt"}
        \/ child' = "running" /\ control' = "wait" /\ control = "step over"
    BY <1>3, <2>1 DEF StepReturns, ContinueReturns
  <2>6. StandsOnInstruction'
    BY <1>1, <2>1, <2>5 DEF StandsOnInstruction, Enabled, Listed
  <2> QED BY <1>2, <2>4, <2>6 DEF CarefulInv
<1>4. CASE child # "stopped"
  <2>1. child' = WaitedChild /\ ~Alive'
    BY <1>1, <1>4, AtTheWait DEF StepReturns, ContinueReturns, Alive
  <2> QED BY <1>2, <2>1 DEF CarefulInv
<1> QED BY <1>3, <1>4

\* While the user is careful the child that executes stands on an instruction
\* of the program, which is whole or has a trap in its first byte.
LEMMA NoStray ==
  ASSUME TypeOK, CarefulInv, careful, child \in {"stepping", "running"}
  PROVE  /\ rip \in Instruction /\ why # "trap" /\ TextFollowsList /\ StandsOnInstruction
         /\ rip \in traps \/ Own
         /\ Own => rip \notin traps
<1>1. WordsApart /\ TextFollowsList /\ StandsOnInstruction
  BY DEF CarefulInv, Alive
<1>2. rip \in Instruction /\ why # "trap"
  BY <1>1 DEF StandsOnInstruction
<1>3. traps \subseteq Instruction
  BY <1>1 DEF TextFollowsList, WordsApart
<1>4. \A x \in traps : x \in Bytes(rip) => x = rip
  BY <1>2, <1>3, InstructionsApart
<1>5. rip \in Bytes(rip)
  BY <1>2, Addresses
<1> QED BY <1>1, <1>2, <1>4, <1>5 DEF Own

\* The child's own steps change no text and do not stray.
LEMMA ChildKept ==
  ASSUME TypeOK, Waits, CarefulInv, ChildRuns \/ CtrlC \/ Killed
  PROVE  CarefulInv'
<1> SUFFICES ASSUME careful' PROVE CarefulInv'
  BY DEF CarefulInv
<1>1. careful /\ WordsApart /\ UNCHANGED <<bps, control, breakpoint, traps>>
  BY DEF ChildRuns, SignalStop, Trap, Execute, Stray, CtrlC, Killed, debugger, text,
         CarefulInv
<1>2. WordsApart' /\ (TextFollowsList => TextFollowsList')
  BY <1>1 DEF WordsApart, TextFollowsList
<1>3. CASE CtrlC
  BY <1>1, <1>2, <1>3 DEF CarefulInv, CtrlC, StandsOnInstruction, Enabled, Listed, Alive
<1>4. CASE Killed
  BY <1>2, <1>4 DEF CarefulInv, Killed, Alive
<1>5. CASE SignalStop
  <2>1. /\ child' = "stopped" /\ why' = "signal" /\ rip' = rip
        /\ TextFollowsList /\ rip \in Instruction
    BY <1>1, <1>5, NoStray DEF SignalStop
  <2> QED BY <1>2, <2>1 DEF CarefulInv, StandsOnInstruction
<1>6. CASE Trap
  <2>1. /\ child' = "stopped" /\ why' = "trap" /\ rip' = rip + 1 /\ rip \in traps
        /\ TextFollowsList /\ StandsOnInstruction /\ rip \in Nat
    BY <1>1, <1>6, NoStray, RipIsNumber DEF Trap, Executing
  <2>2. Enabled(rip) /\ rip' - 1 = rip
    BY <2>1 DEF TextFollowsList, Enabled, Listed
  <2>3. control # "step over"
    BY <1>6, <2>1 DEF StandsOnInstruction, Waits, Trap, Executing
  <2>4. StandsOnInstruction'
    BY <1>1, <2>1, <2>2, <2>3 DEF StandsOnInstruction, Enabled, Listed
  <2> QED BY <1>2, <2>1, <2>4 DEF CarefulInv
<1>7. CASE Execute
  <2>1. /\ TextFollowsList /\ rip \in Instruction
        /\ Program[rip].next \subseteq Instruction
    BY <1>1, <1>7, NoStray, Addresses DEF Execute, Executing
  <2>2. CASE Program[rip].next = {}
    BY <1>2, <1>7, <2>2 DEF Execute, CarefulInv, Alive
  <2>3. CASE Program[rip].next # {}
    <3>1. /\ rip' \in Instruction /\ why' = "step"
          /\ child' = IF child = "stepping" THEN "stopped" ELSE child
          /\ child \in {"stepping", "running"}
      BY <1>7, <2>1, <2>3 DEF Execute, Executing
    <3>2. child' # "stepping"
      BY <3>1
    <3> QED BY <1>2, <2>1, <3>1, <3>2 DEF CarefulInv, StandsOnInstruction
  <2> QED BY <2>2, <2>3
<1>8. ~Stray
  BY <1>1, NoStray DEF Stray, Executing
<1> QED BY <1>3, <1>4, <1>5, <1>6, <1>7, <1>8 DEF ChildRuns

\* A child that was just loaded or attached to stands on an instruction of a
\* text without breakpoints.
LEMMA LoadKept ==
  ASSUME TypeOK, Waits, CarefulInv,
         NoTarget \/ load \/ CloneQuits \/ attach_to_process
  PROVE  CarefulInv'
<1>1. UNCHANGED <<bps, traps, breakpoint, careful>>
  BY DEF NoTarget, load, CloneQuits, attach_to_process
<1>2. careful => WordsApart'
  BY <1>1 DEF CarefulInv, WordsApart
<1>3. CASE NoTarget \/ CloneQuits
  <2>1. ~Alive'
    BY <1>3 DEF NoTarget, CloneQuits, Waits, Alive
  <2> QED BY <1>1, <1>2, <2>1 DEF CarefulInv
<1>4. CASE load \/ attach_to_process
  <2>1. bps = << >> /\ traps = {} /\ child = "none"
    BY <1>4 DEF Waits, load, attach_to_process
  <2>2. TextFollowsList'
    BY <1>1, <2>1 DEF TextFollowsList
  <2>3. Alive' => /\ child' = "stopped" /\ control' = "prompt"
                  /\ why' \in {"exec", "signal"} /\ rip' \in Instruction
    BY <1>4, <2>1, ProgramAssumption
       DEF load, load_binary, attach_to_process, Alive, Instruction
  <2>4. Alive' => StandsOnInstruction'
    BY <2>3 DEF StandsOnInstruction
  <2> QED BY <1>1, <1>2, <2>2, <2>4 DEF CarefulInv
<1> QED BY <1>3, <1>4

\* run, which the rule allows in front of an instruction only, and quit.
LEMMA RunKept ==
  ASSUME TypeOK, Waits, CarefulInv, Run \/ Quit
  PROVE  CarefulInv'
<1> SUFFICES ASSUME careful' PROVE CarefulInv'
  BY DEF CarefulInv
<1>1. /\ careful /\ WordsApart /\ control = "prompt"
      /\ UNCHANGED <<bps, traps, breakpoint, rip, why>>
      /\ Run => why # "trap"
  BY DEF Run, Quit, MayRun, CarefulInv
<1>2. WordsApart' /\ (TextFollowsList => TextFollowsList')
  BY <1>1 DEF WordsApart, TextFollowsList
<1>3. Alive => child = "stopped"
  BY <1>1, AtThePrompt
<1>4. CASE Run
  <2>1. Alive' => Alive /\ child' = "running" /\ control' = "wait"
    BY <1>3, <1>4 DEF Run, Resumed, Alive
  <2> QED BY <1>1, <1>2, <1>4, <2>1 DEF CarefulInv, StandsOnInstruction
<1>5. CASE Quit
  <2>1. Alive' => Alive /\ UNCHANGED child /\ control' = "ended"
    BY <1>5 DEF Quit, kill_child_process, Alive
  <2> QED BY <1>1, <1>2, <1>3, <2>1
          DEF CarefulInv, StandsOnInstruction, Enabled, Listed
<1> QED BY <1>4, <1>5

\* Every action keeps the invariant.
LEMMA NextInv == IInv /\ [Next]_vars => IInv'
<1> SUFFICES ASSUME TypeOK, Waits, CarefulInv, [Next]_vars PROVE IInv'
  BY DEF IInv
<1>1. TypeOK' /\ Waits'
  BY TypeKept, WaitsKept
<1>2. ASSUME NEW a \in BreakAddr, Break(a) \/ RemoveBreak(a) PROVE CarefulInv'
  BY <1>2, BreakKept, RemoveKept
<1>3. ASSUME UNCHANGED vars PROVE CarefulInv'
  BY <1>3 DEF vars, CarefulInv, WordsApart, TextFollowsList, StandsOnInstruction, Alive,
              Enabled, Listed
<1>4. ASSUME AddressOutOfRange PROVE CarefulInv'
  BY <1>4 DEF AddressOutOfRange, CarefulInv
<1>5. CarefulInv'
  BY <1>2, <1>3, <1>4, LoadKept, StepKept, RunKept, ReturnKept, ChildKept DEF Next, Returns
<1> QED BY <1>1, <1>5 DEF IInv

\* Nothing is loaded, listed or trapped.
LEMMA InitInv == Init => IInv
<1> SUFFICES ASSUME Init PROVE IInv
  OBVIOUS
<1>1. Entry \in Addr
  BY Addresses, ProgramAssumption DEF Instruction
<1>2. bps = << >> /\ DOMAIN bps = {}
  BY DEF Init
<1>3. TypeOK
  BY <1>1, <1>2 DEF Init, TypeOK, Control, Child, Why
<1>4. Waits
  BY DEF Init, Waits
<1>5. CarefulInv
  BY <1>2 DEF Init, CarefulInv, WordsApart, Alive
<1> QED BY <1>3, <1>4, <1>5 DEF IInv

-----------------------------------------------------------------------------
(* The theorems.                                                           *)

\* The inductive invariant of the debugger holds in every state.
THEOREM DebuggerInvariant == Spec => []IInv
<1>1. Init => IInv
  BY InitInv
<1>2. IInv /\ [Next]_vars => IInv'
  BY NextInv
<1> QED BY <1>1, <1>2, PTL DEF Spec

\* Every variable has its type (debugger.cpp, ptrace_wrapper.cpp).
THEOREM DebuggerTypes == Spec => []TypeOK
<1>1. IInv => TypeOK
  BY DEF IInv
<1> QED BY <1>1, DebuggerInvariant, PTL

\* Exactly the enabled breakpoints of the list are traps in the text, unless one
\* is being stepped over (ptrace_wrapper.cpp:47 to 118).
THEOREM TextMatchesList == Spec => []TrapsMatchList
<1>1. IInv => TrapsMatchList
  <2> SUFFICES ASSUME IInv, careful, child \in {"stopped", "running"},
                      breakpoint = NoBreakpoint
               PROVE  traps = {a \in DOMAIN bps : bps[a].enabled}
    BY DEF TrapsMatchList
  <2>1. TextFollowsList
    BY DEF IInv, CarefulInv, Alive
  <2>2. \A a \in DOMAIN bps : a # NoBreakpoint
    BY Addresses DEF IInv, TypeOK
  <2> QED BY <2>1, <2>2 DEF TextFollowsList
<1> QED BY <1>1, DebuggerInvariant, PTL

\* No command leaves the debugger with a child it takes for alive although its
\* exit was reported (ptrace_wrapper.cpp:108, 122, 142 and 181).
THEOREM ExitNoticed == Spec => []ExitIsNoticed
<1>1. IInv => ExitIsNoticed
  BY DEF IInv, Waits, ExitIsNoticed
<1> QED BY <1>1, DebuggerInvariant, PTL

\* quit leaves no child and no zombie (debugger.cpp, kill_child_process).
THEOREM QuitCleansUp == Spec => []QuitLeavesNoChild
<1>1. IInv => QuitLeavesNoChild
  BY DEF IInv, Waits, QuitLeavesNoChild
<1> QED BY <1>1, DebuggerInvariant, PTL

\* A child that runs does not get past an enabled breakpoint.
THEOREM BreakpointsStop == Spec => BreakpointStops
<1>1. ASSUME IInv, [Next]_vars, careful, child = "running", Enabled(rip)
      PROVE  UNCHANGED <<rip, child>> \/ why' \in {"trap", "signal", "signaled"}
  <2>1. control = "wait" /\ breakpoint = NoBreakpoint /\ ~Waitable
    BY <1>1 DEF IInv, Waits, Waitable
  <2>2. rip \in traps /\ ~Own
    <3>1. TextFollowsList /\ (Own => rip \notin traps) /\ rip \in Nat
      BY <1>1, NoStray, RipIsNumber DEF IInv
    <3>2. rip # NoBreakpoint
      BY <3>1 DEF NoBreakpoint
    <3> QED BY <1>1, <2>1, <3>1, <3>2 DEF TextFollowsList, Enabled, Listed
  <2>3. CASE SignalStop \/ Trap \/ CtrlC \/ Killed
    BY <2>3 DEF SignalStop, Trap, CtrlC, Killed
  <2>4. CASE UNCHANGED vars
    BY <2>4 DEF vars
  <2>5. Next => SignalStop \/ Trap \/ CtrlC \/ Killed
    BY <2>1, <2>2
       DEF Next, NoTarget, load, CloneQuits, attach_to_process, Break, RemoveBreak,
           AddressOutOfRange, Step, Continue, Run, Quit, Returns, StepReturns, ContinueReturns, ChildRuns, Execute,
           Stray
  <2> QED BY <1>1, <2>3, <2>4, <2>5
<1> QED BY <1>1, DebuggerInvariant, PTL DEF Spec, BreakpointStops

-----------------------------------------------------------------------------
(* The debugger implements TracedProgram.                                  *)

\* Life and Pc by cases, while the user is careful.
LEMMA Mapped ==
  ASSUME careful
  PROVE  /\ ~Loaded => Life = "none"
         /\ Loaded /\ Alive => Life = "live"
         /\ Loaded /\ ~Alive => Life = "ended"
         /\ ~(Loaded /\ Alive) => Pc = Entry
         /\ Loaded /\ Alive /\ why = "trap" => Pc = rip - 1
         /\ Loaded /\ Alive /\ why # "trap" => Pc = rip
BY DEF Life, Pc

\* The same, of the state after a step.
LEMMA MappedNext ==
  ASSUME careful'
  PROVE  /\ ~Loaded' => Life' = "none"
         /\ Loaded' /\ Alive' => Life' = "live"
         /\ Loaded' /\ ~Alive' => Life' = "ended"
         /\ ~(Loaded' /\ Alive') => Pc' = Entry
         /\ Loaded' /\ Alive' /\ why' = "trap" => Pc' = rip' - 1
         /\ Loaded' /\ Alive' /\ why' # "trap" => Pc' = rip'
BY DEF Life, Pc

\* The user who broke a rule is released for good.
LEMMA Released ==
  ASSUME ~careful'
  PROVE  Promise!Release
BY DEF Life, Pc, Promise!Release

\* Steps that move neither the child nor its instruction pointer.
LEMMA SameChild ==
  ASSUME careful, careful', UNCHANGED <<rip, why>>,
         \/ UNCHANGED child
         \/ {child, child'} \subseteq {"stopped", "stepping", "running"}
         \/ {child, child'} \subseteq {"zombie", "reaped"}
  PROVE  UNCHANGED <<Pc, Life>>
<1>1. Alive' = Alive /\ Loaded' = Loaded
  BY DEF Alive, Loaded
<1> QED BY <1>1, Mapped, MappedNext

\* Steps that end the child's life, or begin it in front of an instruction.
LEMMA EndsOrBegins ==
  ASSUME careful, careful'
  PROVE  /\ Loaded /\ Alive /\ Loaded' /\ ~Alive' => Promise!End
         /\ ~Loaded /\ Loaded' /\ Alive' /\ why' # "trap" /\ rip' \in Instruction
              => Promise!Begin
BY Mapped, MappedNext DEF Promise!End, Promise!Begin, Instruction

\* The commands, while the rules are kept.
LEMMA CommandRefines ==
  ASSUME TypeOK, Waits, CarefulInv, careful, careful',
         \/ NoTarget \/ load \/ CloneQuits \/ attach_to_process
         \/ Step \/ Continue \/ Run \/ Quit \/ StepReturns \/ ContinueReturns
         \/ \E a \in BreakAddr : Break(a) \/ RemoveBreak(a)
  PROVE  Promise!Next \/ UNCHANGED <<Pc, Life>>
<1>1. CASE NoTarget \/ \E a \in BreakAddr : Break(a) \/ RemoveBreak(a)
  BY <1>1, SameChild DEF NoTarget, Break, RemoveBreak
<1>2. CASE load
  <2>1. child = "none" /\ ~Loaded
    BY <1>2 DEF load, Waits, Loaded
  <2>2. \/ child' = "stopped" /\ rip' = Entry /\ why' = "exec"
        \/ child' = "clone"
        \/ UNCHANGED <<child, rip, why>>
    BY <1>2 DEF load, load_binary
  <2>3. CASE child' = "stopped" /\ rip' = Entry /\ why' = "exec"
    <3>1. Loaded' /\ Alive' /\ why' # "trap" /\ rip' \in Instruction
      BY <2>3, ProgramAssumption DEF Loaded, Alive, Instruction
    <3> QED BY <2>1, <3>1, EndsOrBegins DEF Promise!Next
  <2>4. CASE child' = "clone"
    <3>1. ~Loaded'
      BY <2>4 DEF Loaded
    <3> QED BY <2>1, <3>1, Mapped, MappedNext
  <2>5. CASE UNCHANGED <<child, rip, why>>
    BY <2>5, SameChild
  <2> QED BY <2>2, <2>3, <2>4, <2>5
<1>3. CASE CloneQuits
  <2>1. ~Loaded /\ ~Loaded'
    BY <1>3 DEF CloneQuits, Waits, Loaded
  <2> QED BY <2>1, Mapped, MappedNext
<1>4. CASE attach_to_process
  <2>1. /\ ~Loaded /\ Loaded' /\ Alive' /\ why' # "trap" /\ rip' \in Instruction
    BY <1>4 DEF attach_to_process, Waits, Loaded, Alive
  <2> QED BY <2>1, EndsOrBegins DEF Promise!Next
<1>5. CASE Step \/ Continue
  <2>1. execute_single_step /\ MayStep
    BY <1>5 DEF Step, Continue, MayContinue
  <2>2. CASE Enabled(rip - 1) /\ child = "stopped"
    <3>1. /\ child' = "stepping" /\ rip' = rip - 1 /\ why' = "step" /\ why = "trap"
      BY <2>1, <2>2, SingleStep DEF MayStep
    <3>2. Loaded /\ Alive /\ Loaded' /\ Alive'
      BY <2>2, <3>1 DEF Loaded, Alive
    <3> QED BY <3>1, <3>2, Mapped, MappedNext
  <2>3. CASE ~(Enabled(rip - 1) /\ child = "stopped")
    <3>1. UNCHANGED <<rip, why>>
          /\ (UNCHANGED child \/ (child = "stopped" /\ child' = "stepping"))
      BY <2>1, <2>3, SingleStep
    <3> QED BY <3>1, SameChild
  <2> QED BY <2>2, <2>3
<1>6. CASE Run
  BY <1>6, SameChild DEF Run, Resumed
<1>7. CASE StepReturns \/ ContinueReturns
  <2>1. UNCHANGED <<rip, why>>
    BY <1>7 DEF StepReturns, ContinueReturns
  <2>2. \/ UNCHANGED child
        \/ child = "stopped" /\ child' = "running"
        \/ child = "zombie" /\ child' = "reaped"
    BY <1>7 DEF StepReturns, ContinueReturns, WaitedChild
  <2> QED BY <2>1, <2>2, SameChild
<1>8. CASE Quit
  <2>1. /\ UNCHANGED <<rip, why>> /\ child \in {"none", "stopped", "zombie", "reaped"}
        /\ UNCHANGED child \/ (child' = "reaped" /\ child # "none")
    BY <1>8, AtThePrompt DEF Quit, kill_child_process
  <2>2. CASE child = "stopped" /\ child' = "reaped"
    <3>1. why # "clone"
      BY <2>2 DEF Waits
    <3>2. Loaded /\ Alive /\ Loaded' /\ ~Alive'
      BY <2>1, <2>2, <3>1 DEF Loaded, Alive
    <3> QED BY <3>2, EndsOrBegins DEF Promise!Next
  <2>3. CASE UNCHANGED child \/ child \in {"zombie", "reaped"}
    BY <2>1, <2>3, SameChild
  <2> QED BY <2>1, <2>2, <2>3
<1> QED BY <1>1, <1>2, <1>3, <1>4, <1>5, <1>6, <1>7, <1>8

\* The child, while the rules are kept: it executes its own program.
LEMMA ChildRefines ==
  ASSUME TypeOK, Waits, CarefulInv, careful, careful', ChildRuns \/ CtrlC \/ Killed
  PROVE  Promise!Next \/ UNCHANGED <<Pc, Life>>
<1>1. why = "clone" => ~Alive
  BY DEF Waits, Alive
<1>2. Alive => Loaded
  BY <1>1 DEF Alive, Loaded
<1>3. CASE CtrlC
  BY <1>3, SameChild DEF CtrlC
<1>4. CASE Killed
  <2>1. Loaded /\ Alive /\ Loaded' /\ ~Alive'
    BY <1>2, <1>4 DEF Killed, Loaded, Alive
  <2> QED BY <2>1, EndsOrBegins DEF Promise!Next
<1>5. ASSUME child \in {"stepping", "running"}
      PROVE  Loaded /\ Alive /\ why # "trap" /\ Pc = rip /\ Life = "live"
  <2>1. Alive /\ why # "trap"
    BY <1>5, NoStray DEF Alive
  <2> QED BY <1>2, <2>1, Mapped
<1>6. CASE SignalStop
  <2>1. child' = "stopped" /\ why' = "signal" /\ rip' = rip /\ child \in {"stepping", "running"}
    BY <1>5, <1>6 DEF SignalStop
  <2>2. Loaded' /\ Alive'
    BY <2>1 DEF Loaded, Alive
  <2> QED BY <1>5, <2>1, <2>2, MappedNext
<1>7. CASE Trap
  <2>1. /\ child' = "stopped" /\ why' = "trap" /\ rip' = rip + 1
        /\ child \in {"stepping", "running"} /\ rip' - 1 = rip
    BY <1>7, RipIsNumber DEF Trap, Executing
  <2>2. Loaded' /\ Alive'
    BY <2>1 DEF Loaded, Alive
  <2> QED BY <1>5, <2>1, <2>2, MappedNext
<1>8. CASE Execute
  <2>1. child \in {"stepping", "running"}
    BY <1>8 DEF Execute, Executing
  <2>2. CASE Program[rip].next = {}
    <3>1. Loaded' /\ ~Alive'
      BY <1>8, <2>2 DEF Execute, Loaded, Alive
    <3> QED BY <1>5, <2>1, <3>1, EndsOrBegins DEF Promise!Next
  <2>3. CASE Program[rip].next # {}
    <3>1. /\ rip' \in Program[rip].next /\ why' = "step"
          /\ child' \in {"stopped", "stepping", "running"}
      BY <1>8, <2>1, <2>3 DEF Execute
    <3>2. Loaded' /\ Alive'
      BY <3>1 DEF Loaded, Alive
    <3>3. Pc' = rip' /\ Life' = "live"
      BY <3>1, <3>2, MappedNext
    <3>4. Promise!Execute
      BY <1>5, <2>1, <3>1, <3>3 DEF Promise!Execute
    <3> QED BY <3>4 DEF Promise!Next
  <2> QED BY <2>2, <2>3
<1>9. ~Stray
  BY NoStray DEF Stray, Executing
<1> QED BY <1>3, <1>4, <1>6, <1>7, <1>8, <1>9 DEF ChildRuns

\* Whatever is set, removed, stepped over, interrupted or killed, the child
\* executes its own program while the user keeps the rules
\* (ptrace_wrapper.cpp:47 to 142).
THEOREM DebuggerIsTransparent == Spec => Transparent
<1>1. Init => Promise!Init
  <2> SUFFICES ASSUME Init PROVE Pc = Entry /\ Life = "none"
    BY DEF Promise!Init
  <2>1. careful /\ ~Loaded
    BY DEF Init, Loaded
  <2> QED BY <2>1, Mapped
<1>2. IInv /\ [Next]_vars => [Promise!Next]_(Promise!vars)
  <2> SUFFICES ASSUME TypeOK, Waits, CarefulInv, [Next]_vars
               PROVE  Promise!Next \/ UNCHANGED <<Pc, Life>>
    BY DEF IInv, Promise!vars
  <2>1. CASE ~careful'
    BY <2>1, Released DEF Promise!Next
  <2>2. CASE careful'
    <3>1. careful
      BY <2>2 DEF Next, NoTarget, load, CloneQuits, attach_to_process, Break, RemoveBreak,
                  AddressOutOfRange, Step, Continue, Run, Quit, Returns, StepReturns,
                  ContinueReturns, ChildRuns, SignalStop, Trap, Execute, Stray, CtrlC, Killed, debugger, vars
    <3>2. CASE UNCHANGED vars
      BY <2>2, <3>1, <3>2, SameChild DEF vars
    <3>3. CASE ChildRuns \/ CtrlC \/ Killed
      BY <2>2, <3>1, <3>3, ChildRefines
    <3>4. CASE Next /\ ~(ChildRuns \/ CtrlC \/ Killed)
      BY <2>2, <3>1, <3>4, CommandRefines DEF Next, Returns, AddressOutOfRange
    <3> QED BY <3>2, <3>3, <3>4
  <2> QED BY <2>1, <2>2
<1> QED BY <1>1, <1>2, DebuggerInvariant, PTL DEF Spec, Transparent, Promise!Spec
=============================================================================
