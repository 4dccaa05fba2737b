# A verification of the integrated shell, bytecode VM and debugger

This directory holds TLA+ models of the program in `src/`, the TLC
configurations that check them on small instances, and theorems that the TLA+
proof system checks for every instance: about the garbage collector, the
interpreter, the shell's command lines, jobs and pipelines, and the native debugger.

## 1. The system

| Part | State | Operations | Hard behaviour | What makes it correct |
| --- | --- | --- | --- | --- |
| VM heap and collector (`bytecode_vm/src/vm.cpp` 59-147, `object.hpp`, `stack.cpp`) | list of objects, mark bits, counter, tagged stack | `allocate`, `new_pair`, `new_function`, `new_closure`, `mark`, `sweep`, `gc` | shared and cyclic graphs, bits left from an earlier collection, unlinking while walking | nothing reachable is freed, nothing unreachable stays, the counter is right, `gc` returns |
| VM interpreter and prompt (`vm.cpp`, `main.cpp`, `memory.cpp`, `op_codes.cpp`) | program and data memory, two stacks, `pc`, `debug_mode`, breakpoints | `load`, `run`, `step`, `repl`, the SIGUSR1 handler | a signal between any two steps, values that look like addresses, checks at the limits, four ways to end | collections follow objects only, returns go behind calls, breakpoints and signals stop the program |
| Shell job control (`bareshell/src/utils.c` 53-207, `jobs.h`) | job table, the terminal's foreground group, child processes | `submit`, `run`, `debug` | shell, children and keyboard interleave; signals pend over `exec`; waits are interrupted | the terminal comes back, no job runs behind the prompt, statuses are true, commands return |
| Shell pipelines and built-ins (`utils.c` 212-406) | pipe descriptors, process groups | `execute_commands`, `execute_single_command` | stopped pipelines, failures half way, background children | every reader sees the end of its input, the shell does not hang |
| Shell parser (`parser/command.c`) | none | `get_token`, `parse_to_command` | limits, redirection and `&` in odd places | accepts exactly the grammar |
| Line input and loop (`io/input.c`, `repl/looper.c`) | line buffer, SIGINT flag | `multiline_input`, `looper` | continuation lines, signals between calls | a command is what was typed |
| Assembler (`bytecode_vm/Assembler/src`) | symbol table, bytecode buffer | two passes over the file | limits, errors that are printed only | labels resolve, passes agree |
| Native debugger (`minimal_debugger/src`) | breakpoint list, child state, child text | `load`, `break`, `step`, `continue`, `run` | trap bytes overlap, the child dies unnoticed | the child's text is its own plus the enabled traps |

The shell starts everything. `submit` runs the assembler, forks a child, and the
child stops itself before it becomes the VM. `run` and `debug` resume it, hand it
the terminal and wait; `debug` sends SIGUSR1 first, which stays pending until the
VM's `main` has its handler. Inside the VM the flag set by that handler leads to
`repl`, and `repl` can call the collector. The native debugger is a separate
program that shares nothing with the others.

`PROJECT.json` lists under `hazards` what in this code a test hardly reaches,
line by line, with the properties that watch it.

## 2. Plan

The modules, in the order they were written:

1. `Reachability`, `AbstractGC`, `GcHeap`. The collector comes first: a mistake
   there corrupts memory silently.
2. `BytecodeVM`. It meets the collector with what bytecode really gives it.
3. `JobControl`. It connects the shell with the VM process.
4. `TracedProgram`, `PtraceDebugger`: what a debugger promises, and the debugger.
5. `Pipeline`: descriptors, process groups and waits of a command line.
6. `ShellParser`, `LineInput`: from what is typed to what is executed.
7. `Assembler`, `AssembledVM`: both passes, and the VM on what they write.

Composition: `GcHeap` instantiates `AbstractGC`, and `PtraceDebugger`
`TracedProgram`, as what they implement. `BytecodeVM` uses the collector as the one
step that `GcHeap` justifies. `AssembledVM` extends `BytecodeVM` and `Assembler` and
relates a source to what the machine does. `BytecodeVM` also instantiates `AbstractGC`: the
program that the machine executes is the user to whom the collector promises something. `LineInput` extends `ShellParser` and parses
the very buffer that it has put together. `JobControl` has the VM as a process with the control
points of `BytecodeVM` (`loop`, `step`, `repl`) and none of its data.

What is left: `ExecutesSource`, the correctness of the assembler, is only model-checked. A theorem
needs what the fold over the tokens (`yyparse`) has done after each of them, that both passes count the
words alike, and an invariant of the machine that relates `pc` and the return addresses with positions in the source.

## 3. What models what

### `GcHeap`

`heap` is the list from `heap_head`, front first; `marked` the objects with
their bit set; `mem` the type and the two pointer words of every address, which keep
their value when the object is freed, as memory does; `register_stack` the items with
tags. `num_objects` is the counter. `gc()` is split: `gc` is the call, `GcRoot` one turn
of the loop over the stack, `MarkReturn` and `MarkVisit` one call of `mark` each,
`SweepFree` and `SweepKeep` one turn of `sweep`'s loop. The recursion of `mark` is the
sequence `pending` of calls that remain, the next one first: a visit puts the two
fields before what its callers still have to do, which is the order the native stack
gives. `phase` says which function executes; the user's operations need `"user"`.

The user holds pointers as the C++ tests do: null or allocated objects. He may push a
pointer without its tag, which makes it an integer for the collector.

`AbstractGC` is the promise: a graph that the user changes, and `Collect`, one
atomic step that keeps what the roots reach. `Reachability` defines reachable as
the least closed set, without recursion, so that it can be reasoned about.

### `BytecodeVM`

One process. `control` is the place of its thread: `main` before `load`, `loop` at the top
of `run`'s loop, `repl` at the prompt, `step` before an instruction, `done`. Between `loop` and
`step` a signal can arrive, which is why they are two. `Legal` collects every check
of `step`, of the stacks and of the memories, which throw; otherwise
one of the actions named after the opcodes is taken. A throw ends the process, so what the
instruction had popped by then is not kept. Values are longs of `WIDTH` bits that wrap;
addresses of objects are longs among them. `HaltStep` and `Throw` return from `main`
and run the destructor; `ReplQuit` is `exit(0)` and does not. A collection is one step;
if it would follow something that is not an object it may read freed memory or be killed.
Two variables are none of the code's. `objects_only` remembers whether `CONS` was given anything but
the addresses of allocated objects and 0, tagged or not: an address that went through `LOAD`, was freed,
handed out again and then paired is within the promise, one that is paired while it is free is not.
`stops` counts how often the thread has announced a stop at the instruction that comes next. A bitwise
instruction gives the long whose bits are as they should be (`Bitwise`), the other
operations give a formula.
`stats_requested` is set by nobody and is left out, as are printing and `--verbose`.

A file is a sequence of longs; the empty sequence stands for every file that `load`
refuses.

### `JobControl`

`shell` is the call the shell makes next; `pid` is its local variable; `proc` is what the
kernel knows of each child, with its `stage` in `execute_submit`, `main` or `run`. Each
call that another actor can notice is a step: `Debug` (SIGUSR1), `Resume` (status, then
SIGCONT), `GiveTerminal`, `WaitReturns`, `Regain`. `Register` is the new table entry, which
is made whether `waitpid` returned a stop or was interrupted.

The kernel is external code, modelled as this program uses it. A signal waits for a
stopped process; SIGUSR1 stays pending while blocked, over `exec` too;
before `exec` SIGINT has the shell's handler, after it the default; `waitpid` with
WUNTRACED tells of a stop once and reaps the dead; a background process that reads from
the terminal is stopped. The keyboard sends SIGINT or a stop to the foreground group.

Left out: the end of the shell while jobs exist; Ctrl-Z at the shell's own prompt; signals
that other programs send; standard input that is not a terminal; reuse of
pids; the contents of the `.bin` files.

### `PtraceDebugger`

The program is a control-flow graph over addresses with instructions of several bytes. `bps` is
the list of `breakpoint_manager.cpp`, `child`, `rip` and `why` what ptrace shows of the child,
`traps` the addresses of its text that hold `0xCC`. A word that PEEKTEXT
reads is the part of `traps` within it, which is enough to see one breakpoint save
another's trap as original data. `control` says in which wait the debugger is:
`execute_single_step`, the step at the head of `continue_execution` (`step over`),
or the wait after PTRACE_CONT (`wait`). The child runs, traps, is interrupted by Ctrl-C, killed or exits
between the two. A failed `execvp` leaves a clone of the debugger, which the user meets as
a second prompt (`load`, `CloneQuits`). Bytes in the middle of an instruction may lead
anywhere (`Stray`).

`TracedProgram` is the promise: the child executes its own instructions in the
order of its own control flow. The debugger keeps it while the user keeps six rules, which the
model states next to the commands and remembers in `careful`: `MayBreak` (on an
instruction, not twice, a word apart from every address ever listed), `MayRemove` (not while
the child stands behind that trap), `MayStep` (not from an address just behind a breakpoint
that was not hit), `MayContinue` (also not at a breakpoint that is still to be hit), `MayRun`
(not behind a trap), and no address of more than 64 bits. Each rule is there because the code needs it; without
`MayContinue`, the run `debugger_continue` shows what happens. What the other rules exempt does go wrong in the code,
and the properties do not speak of it.

`AddressOutOfRange` is the last of these: `stoul` throws `out_of_range` (`parsers.cpp:23`), `break` and `remove_b` catch
`invalid_argument` only (`debugger.cpp:121`), so the debugger is terminated without the handler of `quit`; the
kernel detaches the child, which goes on with its traps in the text.

### `Pipeline`

`shell` is the call that `execute_commands` makes next, `command_ptr` the stages left,
`prev_pipe_read` and `first_pid` its variables; `fds` and `proc[p].fds` are the descriptor
tables. `Fork` is one turn for one stage in the parent, `Setup` the child up to its `execve`.
Programs are known by what they do with their input and output. `pipe` and
`fork` may fail at any stage; `failed` records it, and a session ends with the line in
which something failed, because what such a line leaves behind is promised nowhere.

### `ShellParser` and `LineInput`

`ShellParser` has `get_token`, `parse_command_helper` and `parse_to_command` as operators over a line of
characters, and a second definition of the language by positions of tokens (`Grammatical`,
`StageOf`) that shares nothing with them. Each loop is a recursive function whose value at `n` is the state after
`n` turns: `Collect` is a turn of the loop that collects tokens (`Tokens`), `Argument` a turn of the loop over
one stage (`Stage`), and `Called` one call of `parse_command_helper`, which calls itself once behind each `|`. A loop that
has ended stays as it is, so the last value is the result. `LineInput` is the main loop: `fgets` into a buffer of
`LINE_SIZE`, quote counting, continuation, the SIGINT flag that `looper` clears at
the top of its loop and reads after the line, and the parser. `taken` remembers what was typed for the present
command. What a command does is left to `Pipeline` and `JobControl`.

### `Assembler` and `AssembledVM`

A source is a sequence of tokens. `yyparse` is one pass of the generated parser
with the semantic actions of `parser.y`; `Assemble` runs it twice as `main` does,
with the second pass starting where an error in the first left the lexer. `AssembledVM` states, by
counting tokens, at which address each instruction must lie, and that the machine
executes the source accordingly (`ExecutesSource`).

## 4. What the runs check

| Run | Instance | Question |
| --- | --- | --- |
| `heap` | 2 addresses, stack of 2 items | Safety of every step of every collection; implements `AbstractGC`; `gc` returns |
| `vm` | 20 assembly sources and 11 files that no assembler writes, memory of 20 words, stacks of 3, 2 addresses, longs of 12 bits, 2 labels | The assembler, and the interpreter with any user and signals at any time |
| `vm_integer_pair` | same | Violated: see below |
| `jobs` | 3 pids, table of 2 entries | Every interleaving of shell, children and keyboard |
| `jobs_running` | same | Violated: see below |
| `debugger` | 4 instructions with a loop, a branch and an exit, words of 2 bytes, breakpoints at 0, 2 and 3 | Any commands, Ctrl-C and death of the child at any time |
| `debugger_continue` | same | Violated: see below |
| `pipeline` | sessions of 12 different lines, 4 pids, 9 descriptors | Every interleaving of shell, stages and keyboard, with failures |
| `pipeline_loop` | same | Violated: see below |
| `pipeline_two` | one line of two pipelines | Violated: see below |
| `shell_line` | every line of up to 4 characters, every pair of up to 2, longer ones; buffers of 8 and 11, one Ctrl-C | Lines, continuation, limits, tokens and grammar |
| `shell_quotes` | same | Violated: see below |

**Bounds.** Two objects give shared objects, cycles of length one and two, lists whose
first, last or only element is freed, memory that is used again, and garbage that points at
live objects; two stack items give two roots, equal or different, tagged or not. What needs
a third object (a middle of the list, a recursion of `mark` with calls left on two levels) is in the
theorems, which state every safety property and the refinement for any set of objects; the run is
there for `GcReturns`, for the mutants and to see that the interesting steps are taken. In `vm` two addresses let the heap fill
up, so memory is reused or the allocation fails; three stack items let every
binary operation overflow or underflow; the programs use every opcode and fail every
check; 12 bits let the programs hold addresses and the smallest long; a table of two labels
is filled and exceeded, and there is a source for every error of the assembler. Two jobs
are enough to have one run while another is stopped or dead, and the third pid
makes the full table refuse something. In `debugger` the address 2 lies within an
instruction, the instructions at 0 and 1 share a word, and a breakpoint can lie next to another;
a step can fall into a trap from behind or from a branch. In `pipeline` three stages have a
middle one, four pids give two or more lines in a session, one of them in the background, and nine
descriptors are never used up, so that `pipe` fails where the environment lets it. `MCPipeline` has
TLC evaluate that all its lines have one pipeline (`LinesHaveOnePipeline`), the hypothesis
of a theorem; `pipeline_two` has the shortest line that has two and a stage on each side.
In `shell_line` the limits are small enough to be exceeded by one line and by
several; the characters are one of each class that the code tells apart. The theorems of section 5
hold without these bounds.

**Fairness.** `GcHeap!FairSpec`: `gc` is a function call and goes on once entered
(`GcNext`); nothing forces a user to call anything. `BytecodeVM!Spec`: the thread runs on
while it is not waiting for input. `JobControl!Spec`: the scheduler runs the shell and every
child that can run, and a read from another group's terminal stops the reader.
`PtraceDebugger!Spec`: a wait that can return returns (`Returns`) and a resumed child runs
(`ChildRuns`). `Pipeline!Spec`: the shell and each child run while they can.
`LineInput!Spec`: the shell goes on where it does not wait for input, and whoever types eventually
types the rest or ends the input; the fairness of the shell is written out, because the formula that says when
it can go on is much cheaper than ENABLED. In the other modules nobody has to type, so a
prompt may wait for ever.

**What holds.** `ReachableIsAllocated`: in no state, not even within
`sweep`, has a reachable object been freed. `MarkFrontier`: stopping at marked objects
loses nothing. `NoStaleMark`, `CountMatchesList`, `GcIsComplete`,
`GcReturns` and `Refines` complete the collector. In the VM, `ObjectProgramsAreSafe` and
`LivePairsKeepContents` hold until a program gives `CONS` something else than addresses of allocated objects and 0, and
`HeapPromise` says more: until then every step of the machine is one that `AbstractGC` allows;
`ReturnsBehindCall`, `BreakpointHonoured` (one stop for each arrival, not none and not two) and `SignalReachesPrompt`
for all, and `ExecutesSource` for every source without an error. In the jobs,
`PromptOwnsTerminal`, `OnlyTheJobWaitedForRuns`, `StatusIsTrue`, `DebugStopsProgram`
and `CommandReturns` hold with interrupted submits and keys pressed at any time; `StatusIsTrue` tells exit from death by
a signal and not success from failure. In the debugger,
`Transparent`, `TrapsMatchList` and `BreakpointStops` hold under the six rules,
`ExitIsNoticed`, `QuitLeavesNoChild` (after `quit`, `exit` and the end of the input) and `CommandReturns` always. In the pipelines
`NoDescriptorLeft`, `PipeJoinsNeighbours`, `ForegroundIsDone` and `LineReturns` hold as long as
`pipe` and `fork` succeed, `PromptOwnsTerminal` also when they fail. A line is parsed only if no Ctrl-C
was typed for it, and is what was typed (`CommandIsWhatWasTyped`), for texts with one kind of
quote and within the limits; `ParsesGrammar` and `TokensCoverLine` hold for every line,
and the shell ends when its input does (`EndOfInputEnds`).

**What does not hold.**

- `GcFollowsObjects`: `CONS` does not look at tags (`vm.cpp:350`). After `PUSH 5, PUSH 0, CONS`
  the command `gc` follows the address 5. The built VM dies with SIGSEGV there. The
  report claims the contrary (`bytecode_vm/REPORT.md:131`).
- `RunningIsExecuting`: `run` on a job that has ended leaves it `RUNNING` (`utils.c:135`), "Currently
  executing" (`jobs.h:8`). TLC's shortest trace reaches an ended job through an
  interrupted `submit`; `run` twice on any job does the same.
- `ContinueIsTransparent`: `continue_execution` steps and resumes without asking why
  the step stopped (`ptrace_wrapper.cpp:139`). At a breakpoint that is still to be hit the step
  is the trap, and the child goes on in the middle of the instruction
  (`minimal_debugger/TESTS.md:60`: "Transparently stepping over breakpoints").
- `LoopGoesOn`: the wait for a foreground line does nothing when a member stops
  (`utils.c:309`), so after Ctrl-Z the shell waits for ever (`bareshell/technical.md:27`: "Steps 2–5
  repeat until the user issues the `exit` command").
- `OutputGoesToNext`: `prev_pipe_read` keeps a number after its descriptor was closed (`utils.c:396`). In
  `a | b | cd | c | d` the read end of the second pipe gets that number, so `c` reads from the pipe that it writes to,
  the parent closes that end, and `d` reads from the terminal (`bareshell/technical.md:72`: "connects the
  `stdout` of one command to the `stdin` of the next command in a pipeline"). The built shell hangs.
- `SingleQuotesGroup`: `is_quote` compares with the double quote twice (`command.c:16`); `'a b'` is two
  words (`bareshell/technical.md:58`).

**Seen while modelling, without a run of their own.** `quit` and the end of the input
call `exit(0)` inside `repl` and skip the leak report of `~VM` (`TECHNICAL.md:66`). A VM that
exits with code 1 is `FINISHED` (`utils.c:162`), which `jobs.h:9` calls "Completed successfully"; `StatusIsTrue` claims
only what the code looks at, the kind of end. `it's` never completes a line, because `input.c` counts a
quote that the parser does not know. The debugger's `status` is taken for `step` and `list_bp` for
`load`, by their prefixes. A child killed by a signal stays alive for the debugger, and an address
of more than 64 bits ends the debugger and not the child. The
assembler prints its errors and writes the file all the same; after an error in the first pass
the second starts in the middle of the lexer's buffer.

Every property of a passing run has a mutant in `PROJECT.json`: a definition marked
"Broken" in the module, a plausible mistake in that piece of code, for which TLC finds the
property violated.

## 5. What is proved

Every theorem holds for all values of the constants that satisfy the
assumptions of its module.

| Module | Assumptions | Theorem | Property |
| --- | --- | --- | --- |
| `GcHeap_proofs` | `NullAssumption`: null is no object; `StackAssumption`: the size is a natural number | `TypeCorrect` | `TypeOK` |
| | | `CollectorInvariant` | `GcInvariant` |
| | | `MemorySafety` | `ReachableIsAllocated` |
| | | `MarkIsComplete` | `MarkFrontier` |
| | | `MarksAreCleared` | `NoStaleMark` |
| | | `CountIsExact` | `CountMatchesList` |
| | | `CollectionIsComplete` | `GcIsComplete` |
| | | `ImplementsAbstractGC` | `Refines` |
| `BytecodeVM_proofs` | `SizeAssumption`: sizes are numbers, a long has two bits; `FilesAssumption`: files hold longs; `AddrAssumption`: addresses are positive longs | `VMInvariant` | `IInv` |
| | | `ReturnsAreCalls` | `ReturnsBehindCall` |
| | | `BreakpointsHonoured` | `BreakpointHonoured` |
| | | `VMTypes` | `TypeOK` |
| | | `VMCollectsSafely` | `ObjectProgramsAreSafe` |
| | | `VMKeepsLivePairs` | `LivePairsKeepContents` |
| | | `VMKeepsHeapPromise` | `HeapPromise` |
| `JobControl_proofs` | `PidAssumption`: pids are numbers, the shell's and "none" are others; `MaxJobsAssumption` | `JobsInvariant` | `IInv` |
| | | `JobsTypes` | `TypeOK` |
| | | `TerminalOwned` | `PromptOwnsTerminal` |
| | | `NoJobRunsBehindThePrompt` | `OnlyTheJobWaitedForRuns` |
| | | `StatusAgrees` | `StatusIsTrue` |
| | | `DebugIsNoticed` | `DebugStopsProgram` |
| `Pipeline_proofs` | `PidAssumption`: finitely many pids; `LineAssumption`: a line has a stage; `DescriptorAssumption`: a process may have the three standard descriptors | `PipelineInvariant` | `IInv` |
| | | `TerminalOwned` | `PromptOwnsTerminal` |
| | | `ForegroundReaped` | `ForegroundIsDone` |
| | | `NothingLeftOpen` | `NoDescriptorLeft` |
| | | `PipelineTypes` | `TypeOK` |
| | and: every line has one pipeline (`OnePipeline`) | `PipesJoinNeighbours` | `PipeJoinsNeighbours` |
| | the same | `OutputReachesNext` | `OutputGoesToNext` |
| `LineInput_proofs` | `SizeAssumption`: a line buffer holds a character and its null; `CharAssumption`: the mark of Ctrl-C is no character; `SessionAssumption`: a line ends at its line end, and only the last may lack it | `LineInputTypes` | `TypeOK` |
| | | `CommandsAsTyped` | `CommandIsWhatWasTyped` |
| | | `ParsesTheGrammar` | `ParsesGrammar` |
| | | `LinesAreCovered` | `TokensCoverLine` |
| `PtraceDebugger_proofs` | `ProgramAssumption`, `InstructionsApart`: a control-flow graph of instructions that do not overlap; `WordAssumption`; `BreakAddrAssumption`: breakpoints lie in the text | `DebuggerInvariant` | `IInv` |
| | | `DebuggerTypes` | `TypeOK` |
| | | `TextMatchesList` | `TrapsMatchList` |
| | | `ExitNoticed` | `ExitIsNoticed` |
| | | `QuitCleansUp` | `QuitLeavesNoChild` |
| | | `BreakpointsStop` | `BreakpointStops` |
| | | `DebuggerIsTransparent` | `Transparent` |

**The collector.** `ReachableIsAllocated` is not inductive: that a freed object is unreachable follows from what
mark did before. `GcInvariant` adds what carries it from phase to phase. Outside
sweep `HeapClosed` says that roots and fields stay within the list. During mark
`MarkFrontier` says that nothing behind a marked object is forgotten and `MarkPrecise` that
nothing unreachable is marked; when no call remains the marked set is closed and
holds the roots, so it is the set of reachable objects (`MarkIsExact`). During
sweep `SweepFrontier` says that the reachable objects are those passed and kept, and the
marked ones still ahead; at the end of the list the kept ones are the whole list, which
gives `HeapClosed`, `NoStaleMark` and `GcIsComplete` at once. For the refinement the abstract objects are the list, except
within sweep, where they are the reachable ones; so `GcSweep`, the end of mark, is the abstract
`Collect`, each of the user's operations is one abstract step or none, and all other steps of
`gc` are stutters. `Reachability_proofs` shows that the reachable nodes are the least closed set
holding the roots; `ListLemmas` what the operations on lists do to their range.

**The interpreter.** A saved address keeps its `CALL` because the program is written once, before
anything is called (`LoadedOnce`). A stop counts for the instruction before which the prompt stands, and each instruction starts
the count anew (`StopsCounted`). The types need every
result to be a long: `Wrap` is the remainder that lies in the range, a shift to the right stays in it, a
quotient does since the smallest long divided by -1 traps, and the program and data memories are
written only where `Legal` has looked. There the powers of two are a recursive function, whose table is shown to
exist with the least-element principle of `ListLemmas`. For the heap, `HeapClosed` says that while
`objects_only` holds every tagged item and every field of a pair on the list is on the list or 0 (`CONS` is given nothing else), so that what a
collection follows is on the list (`FollowedOnList`) and an allocation takes an address nobody holds.
From it follow the three properties of the heap; for `HeapPromise` each instruction is one step of
`AbstractGC` (`CONS` is `New` with the roots that the pushed pair leaves) or a change of roots.

**The jobs.** That only the job waited for runs rests on three facts about different
processes. `RunsWhenContinued`: past its own SIGSTOP a child runs only after the SIGCONT of the
command that waits for it. `CallsInOrder` and `TableOfChildren`: that command's pid is in the
table once and its child is not one that is still to stop itself. `ProcessesSound`: a child past `exec`
does not block SIGUSR1, and a running child has taken every signal it
does not block, which is why a pending SIGUSR1 is seen before the first instruction. `StatusFollows`
extends `StatusIsTrue` into the commands, where the table is ahead of the process.

**The pipelines.** `OwnLineOnly` says that a child which is neither in the background nor done
belongs to the line that the shell works on; so the group that `waitpid` exhausts is all there is.
`DInv` says that between two stages the shell holds at most the read end for the next stage,
that it does so only when there is a next stage which is not a built-in, and
that pipes get the descriptors 3, 4 and 5 only; this holds with stale numbers in `prev_pipe_read` too.
For the types, a pigeonhole argument shows that `pipe` always finds a pipe that nobody holds (`FreshPipe`
looks among one more than there are held ends), and `LowestFree` that descriptors are numbers below the limit.
For `PipeJoinsNeighbours` the invariant has to speak of a stage before it has made its descriptors
its standard ones: `Input` and `Output` are what it reads from and writes to now or once it has set
itself up, `Shape` says which descriptors it has until then, and `PipesJoin` is the property in these terms.
`NextPipe` says that the pipe in the shell's hands is the output of the last stage created and the input of none yet;
`PipesLeft` that with a stale number no pipe is to come, which is where the hypothesis is used: with a second pipeline in the
line it is false, and so is the property (`pipeline_two`).

**The debugger.** `Waits` relates the wait the debugger is in with the child. Under the rules
`WordsApart` keeps one breakpoint's word away from another's address, so a saved word
never holds a trap and writing it back removes exactly one: `TextFollowsList`.
`StandsOnInstruction` says that the child stands in front of an instruction or just behind a trap
that is still enabled, so that `rip - 1` is a guess that is right. From the
three each step of the child is one of the program's own, and each step of the
debugger a stutter of `TracedProgram`, or the end of the promise.

**The command line.** `CommandIsWhatWasTyped` speaks of `parse` only, while the text comes line by line. `Between` carries it
from one prompt to the next: `quote` counts the quotes that are not escaped in the text so far, which has an odd number of
them inside a quotation; `buffer` is the text without its escaped line ends (`Spliced`); and every line end in it
is quoted or escaped. `Input` says that only the last line may lack its end, which is why `fgets` stops where the text does,
and `Noticed` that a Ctrl-C typed since the prompt has set the flag that is read before the line is parsed.
`SplicedNext` is the step: a further line joins the spliced text, less two characters if its end is escaped.

For the parser the state after each turn is described by positions in what was read. `Gathered`: the tokens so far are well
formed and hold every character of the line up to `next` that is not blank. `StageRead`: the tokens from the stage's first
to `next` are what a stage may be, its arguments are the words among them, and each file stands behind the only redirection
of its kind. `CallsRead`: the same for all the stages so far, numbered by the pipes before them. A turn keeps this, or reports an error at a
position where `Grammatical` is violated; what follows the stages then decides (`LineParsed`). Every turn that does not end a
loop takes a character or a token, so the loops are over when the functions are.

**Only model-checked.** Liveness (`GcReturns`, `SignalReachesPrompt`, `LineReturns`,
`EndOfInputEnds`, both `CommandReturns`) rests on fairness and is beyond the prover. `ExecutesSource` is
not beyond it, but the invariant that it needs (section 2) has not been proved yet.

## 6. What is not modelled

- The collector: how deep `mark` may recurse, which depends on the native stack.
- The VM: printing, the leak report included; `stats_requested`, which nobody sets.
- Jobs: the end of the shell while jobs exist, Ctrl-Z at the shell's own prompt, signals of other
  programs, reuse of pids, the contents of the `.bin` files, input that is no terminal.
- Pipelines: the directory that `cd` changes, the search of `PATH`, a pipe that is full.
- Parser and input: `malloc` failing, lines of `MAX_TOKEN_COUNT` tokens, which leave the array
  without its end.
- Assembler: the characters of a token, sources without a final line end, with more than 4096 words or
  larger than the lexer's buffer.
- Native debugger: the text of commands and options (of addresses there is the one that is out of range), printing of registers and breakpoints,
  traps that the program itself contains, addresses that are not mapped, Ctrl-C while the clone of a failed exec prompts.
- `list_files` is called by nothing; plots, benchmarks and the test harness have no behaviour
  worth a model.

## 7. Running

    tlc -config MCGcHeap.cfg GcHeap.tla
    tlc -config MCVM.cfg MCBytecodeVM.tla
    tlc -config JobControl.cfg JobControl.tla
    tlc -config MCDebugger.cfg MCPtraceDebugger.tla
    tlc -config MCPipeline.cfg MCPipeline.tla
    tlc -config MCLineInput.cfg MCLineInput.tla
    tlapm GcHeap_proofs.tla

The configurations of the violated properties are `MCVMIntegerPair.cfg`, `JobControlRunning.cfg`,
`MCDebuggerContinue.cfg`, `MCPipelineLoop.cfg`, `MCPipelineTwo.cfg` and `MCLineInputQuotes.cfg`. The other proof modules
are `Reachability_proofs`, `ListLemmas`, `BytecodeVM_proofs`, `JobControl_proofs`, `Pipeline_proofs`, `LineInput_proofs` and
`PtraceDebugger_proofs`.
