----------------------------- MODULE BytecodeVM -----------------------------
(***************************************************************************)
(* The bytecode virtual machine as a process: main.cpp, and load, step,    *)
(* run and repl of bytecode_vm/src/vm.cpp, with the stacks and memories    *)
(* they use.  Three actors move: the thread that runs the program, the     *)
(* user who types at the prompt "debug> ", and whoever sends SIGUSR1.      *)
(*                                                                         *)
(* Values are longs: an address is an integer like another, and a pair     *)
(* holds whatever CONS was given.  The collector is the one step that      *)
(* GcHeap shows gc() to implement; here it meets the pointers that         *)
(* bytecode can build.                                                     *)
(*                                                                         *)
(* objects_only is not in the code: it says that CONS was given nothing    *)
(* but 0 and addresses of allocated objects so far, by whatever way the    *)
(* program came to them.  stops is not in the code either.                 *)
(*                                                                         *)
(* A definition marked "Broken" is a defect the code does not have: it     *)
(* replaces the definition below it to show that a property can fail.      *)
(***************************************************************************)
EXTENDS Integers, Sequences, SequencesExt, FiniteSets, Reachability

CONSTANTS Files,       \* the contents of the bytecode files, sequences of longs
          MEM_SIZE,    \* words in program_memory and in data_memory
          STACK_SIZE,  \* items in register_stack and in call_stack
          WIDTH,       \* bits of a long
          Addr,        \* the addresses malloc can return; more is "failed"
          BreakArgs    \* the addresses the user types after "break"

\* 2^n, in a form that can be reasoned about.
Pow2[n \in Nat] == IF n = 0 THEN 1 ELSE 2 * Pow2[n - 1]
MinLong == -Pow2[WIDTH - 1]
Long == MinLong..(-MinLong - 1)

ASSUME SizeAssumption ==
  MEM_SIZE \in Nat /\ STACK_SIZE \in Nat /\ WIDTH \in Nat \ {0, 1}
ASSUME FilesAssumption == \A file \in Files : file \in Seq(Long)
ASSUME AddrAssumption == Addr \subseteq Long \cap (Nat \ {0})

VARIABLES
  program_memory, data_memory, register_stack, call_stack, pc,
  debug_mode,      \* written by the thread and by the signal handler
  breakpoints,
  heap,            \* the addresses of the objects on the list
  pair,            \* address |-> what the memory there holds
  control,         \* where the thread is
  objects_only,
  stops,           \* how often "Stopped at PC:" was printed for the next instruction
  exit_status      \* how the process ended

machine == <<data_memory, register_stack, call_stack, pc, heap, pair, objects_only>>
vars == <<program_memory, data_memory, register_stack, call_stack, pc,
          debug_mode, breakpoints, heap, pair, control, objects_only, stops,
          exit_status>>

Item == [value : Long, is_obj : BOOLEAN]
Address == 0..(MEM_SIZE - 1)

-----------------------------------------------------------------------------
(* Opcodes (op_codes.hpp) and what they compute.                           *)

NOP == 0
PUSH == 1
POP == 2
DUP == 3
PEEKPRINT == 4
ADD == 16
SUB == 17
MUL == 18
DIV == 19
CMP == 20
AND == 21
OR == 22
XOR == 23
NOT == 24
SHL == 25
SHR == 26
JMP == 32
JZ == 33
JNZ == 34
STORE == 48
LOAD == 49
CALL == 64
RET == 65
CONS == 80
HALT == 255

Arithmetic == ADD..CMP \cup {SHL, SHR}
Binary == Arithmetic \cup AND..XOR
Opcodes == NOP..PEEKPRINT \cup ADD..SHR \cup JMP..JNZ
             \cup {STORE, LOAD, CALL, RET, CONS, HALT}
WithOperand == {PUSH, JMP, JZ, JNZ, STORE, LOAD, CALL}

\* The long with the value of v modulo 2^WIDTH.
Wrap(v) == ((v - MinLong) % Pow2[WIDTH]) + MinLong

Abs(v) == IF v < 0 THEN -v ELSE v

\* C++ division rounds towards zero; a shift amount is taken modulo the width.
Result(op, v1, v2) ==
  LET amount == v2 % WIDTH
  IN  CASE op = ADD -> Wrap(v1 + v2)
        [] op = SUB -> Wrap(v1 - v2)
        [] op = MUL -> Wrap(v1 * v2)
        [] op = DIV -> (IF (v1 < 0) = (v2 < 0) THEN 1 ELSE -1)
                         * (Abs(v1) \div Abs(v2))
        [] op = CMP -> IF v1 < v2 THEN 1 ELSE 0
        [] op = SHL -> Wrap(v1 * Pow2[amount])
        [] op = SHR -> v1 \div Pow2[amount]

\* r is what a bitwise operation makes of v1 and v2.
Bit(v, k) == (v \div Pow2[k]) % 2
BitOf(op, a, b) == CASE op = AND -> a * b
                     [] op = OR  -> IF a + b > 0 THEN 1 ELSE 0
                     [] op = XOR -> (a + b) % 2
Bitwise(op, v1, v2, r) ==
  \A k \in 0..(WIDTH - 1) : Bit(r, k) = BitOf(op, Bit(v1, k), Bit(v2, k))

-----------------------------------------------------------------------------
(* The stacks.                                                             *)

Depth == Len(register_stack)

\* The value of the n-th item from the top.
Top(n) == register_stack[Depth + 1 - n].value

Int64(v) == [value |-> v, is_obj |-> FALSE]       \* push(val)
ObjectAt(a) == [value |-> a, is_obj |-> TRUE]     \* push(val, true)

\* n items are popped and then the given ones are pushed.
PopPush(n, items) ==
  register_stack' = SubSeq(register_stack, 1, Depth - n) \o items

-----------------------------------------------------------------------------
(* The collector on the pointers bytecode builds.                          *)

TaggedRoots == {x.value : x \in {y \in ToSet(register_stack) : y.is_obj}} \ {0}

\* mark reads the fields of objects.  Memory that was freed has lost its type
\* to the allocator's own data, so nothing is followed from there.
PointsTo(a) == IF a \in heap THEN {pair[a].head, pair[a].tail} \ {0} ELSE {}

\* Every pointer a collection would call mark with.
Followed ==
  LET N == TaggedRoots \cup (UNION {PointsTo(a) : a \in heap}) \cup heap
  IN  Reachable(N, TaggedRoots, [n \in N |-> PointsTo(n)])

-----------------------------------------------------------------------------
Init == /\ program_memory = [a \in Address |-> 0]
        /\ data_memory = [a \in Address |-> 0]
        /\ register_stack = << >>
        /\ call_stack = << >>
        /\ pc = 0
        /\ debug_mode \in BOOLEAN          \* the option --debug
        /\ breakpoints = {}
        /\ heap = {}
        /\ pair = [a \in Addr |-> [head |-> 0, tail |-> 0]]
        /\ control = "main"
        /\ objects_only = TRUE
        /\ stops = 0
        /\ exit_status = "none"

\* main returns, with the VM on its stack: ~VM reports what is left and frees it.
Return(status) == /\ control' = "done"
                  /\ exit_status' = status
                  /\ heap' = {}

\* exit(0) inside repl: main's local VM is not destroyed.
Exit == /\ control' = "done"
        /\ exit_status' = "exit 0"
        /\ UNCHANGED heap

Crash == /\ control' = "done"
         /\ exit_status' = "killed"
         /\ UNCHANGED heap

Goto(c) == control' = c /\ UNCHANGED exit_status

-----------------------------------------------------------------------------
(* main and the loop of run.                                               *)

\* program_memory once file is loaded: the words behind the program stay 0.
Image(file) == [a \in Address |-> IF a < Len(file) THEN file[a + 1] ELSE 0]

\* load refuses a file that is empty or too large; one that it cannot open or
\* whose size is no multiple of 8 ends the same way.
Loadable == {file \in Files : Len(file) \in 1..MEM_SIZE}
Refused == Files \ Loadable

loadUnchanged == UNCHANGED <<data_memory, register_stack, call_stack, debug_mode,
                             breakpoints, pair, objects_only, stops>>

Load == /\ control = "main"
        /\ \E file \in Loadable : program_memory' = Image(file)
        /\ pc' = 0
        /\ Goto("loop")
        /\ UNCHANGED heap
        /\ loadUnchanged

LoadFails == /\ control = "main" /\ Refused # {}
             /\ Return("exit 1")
             /\ UNCHANGED <<program_memory, pc>>
             /\ loadUnchanged

\* Broken: run looks at breakpoints only, or at the flag only.
StopsAtBreakpointOnly == pc \in breakpoints
StopsOnFlagOnly == debug_mode

\* The thread stops at the prompt before the next instruction.
MustStop == debug_mode \/ pc \in breakpoints

\* The top of run's loop: stop at the prompt or execute an instruction.
RunLoop ==
  /\ control = "loop"
  /\ IF MustStop
       THEN /\ debug_mode' = TRUE
            /\ stops' = stops + 1
            /\ Goto("repl")
       ELSE /\ Goto("step")
            /\ UNCHANGED <<debug_mode, stops>>
  /\ UNCHANGED <<program_memory, machine, breakpoints>>

-----------------------------------------------------------------------------
(* step.                                                                   *)

Op == program_memory[pc]
Operand == program_memory[pc + 1]

\* How many items the instruction takes from the register stack.
Arity(op) == CASE op \in Binary \cup {CONS} -> 2
               [] op \in {POP, DUP, PEEKPRINT, NOT, JZ, JNZ, STORE} -> 1
               [] OTHER -> 0

\* Broken: push does not ask is_full.
FitsAlways == TRUE

\* push and dup find room.
Fits == Op \in {PUSH, LOAD, DUP} => Depth < STACK_SIZE

\* No check of step, of a stack or of a memory throws.
Legal ==
  /\ pc \in Address
  /\ Op \in Opcodes
  /\ Op \in WithOperand => pc + 1 < MEM_SIZE
  /\ Depth >= Arity(Op)
  /\ Fits
  /\ Op \in {STORE, LOAD} => Operand \in Address
  /\ Op = DIV => Top(1) # 0
  /\ Op = CALL => Len(call_stack) < STACK_SIZE
  /\ Op = RET => call_stack # << >>
  /\ Op = CONS => heap # Addr

stepUnchanged == UNCHANGED <<program_memory, debug_mode, breakpoints>>

\* An instruction that only moves values on the register stack.
StackStep ==
  /\ \/ Op \in {NOP, PEEKPRINT} /\ UNCHANGED register_stack
     \/ Op = PUSH /\ PopPush(0, <<Int64(Operand)>>)
     \/ Op = POP /\ PopPush(1, << >>)
     \/ Op = DUP /\ PopPush(0, <<Last(register_stack)>>)
     \/ /\ Op \in Arithmetic
        /\ ~(Op = DIV /\ Top(1) = -1 /\ Top(2) = MinLong)
        /\ PopPush(2, <<Int64(Result(Op, Top(2), Top(1)))>>)
     \/ /\ Op \in AND..XOR
        /\ \E r \in Long : Bitwise(Op, Top(2), Top(1), r) /\ PopPush(2, <<Int64(r)>>)
     \/ Op = NOT /\ PopPush(1, <<Int64(-Top(1) - 1)>>)
     \/ Op = LOAD /\ PopPush(0, <<Int64(data_memory[Operand])>>)
  /\ pc' = pc + (IF Op \in WithOperand THEN 2 ELSE 1)
  /\ Goto("loop")
  /\ UNCHANGED <<data_memory, call_stack, heap, pair, objects_only>>

StoreStep == /\ Op = STORE
             /\ data_memory' = [data_memory EXCEPT ![Operand] = Top(1)]
             /\ PopPush(1, << >>)
             /\ pc' = pc + 2
             /\ Goto("loop")
             /\ UNCHANGED <<call_stack, heap, pair, objects_only>>

JumpStep == /\ \/ Op = JMP /\ pc' = Operand
               \/ Op = JZ  /\ pc' = IF Top(1) = 0 THEN Operand ELSE pc + 2
               \/ Op = JNZ /\ pc' = IF Top(1) # 0 THEN Operand ELSE pc + 2
            /\ PopPush(Arity(Op), << >>)
            /\ Goto("loop")
            /\ UNCHANGED <<data_memory, call_stack, heap, pair, objects_only>>

\* Broken: the address is saved before the operand is fetched.
CallStepSavesOperand ==
  /\ \/ /\ Op = CALL
        /\ call_stack' = Append(call_stack, pc + 1)
        /\ pc' = Operand
     \/ /\ Op = RET
        /\ call_stack' = Front(call_stack)
        /\ pc' = Last(call_stack)
  /\ Goto("loop")
  /\ UNCHANGED <<data_memory, register_stack, heap, pair, objects_only>>

CallStep == /\ \/ /\ Op = CALL
                  /\ call_stack' = Append(call_stack, pc + 2)
                  /\ pc' = Operand
               \/ /\ Op = RET
                  /\ call_stack' = Front(call_stack)
                  /\ pc' = Last(call_stack)
            /\ Goto("loop")
            /\ UNCHANGED <<data_memory, register_stack, heap, pair, objects_only>>

\* The n-th item from the top is the address of an object or null, tagged or not.
IsPointer(n) == Top(n) \in heap \cup {0}

\* The tail is on top of the head; neither tag is looked at.
ConsStep == /\ Op = CONS
            /\ \E a \in Addr \ heap :
                 /\ heap' = heap \cup {a}
                 /\ pair' = [pair EXCEPT ![a] = [head |-> Top(2), tail |-> Top(1)]]
                 /\ PopPush(2, <<ObjectAt(a)>>)
            /\ objects_only' = (objects_only /\ IsPointer(1) /\ IsPointer(2))
            /\ pc' = pc + 1
            /\ Goto("loop")
            /\ UNCHANGED <<data_memory, call_stack>>

HaltStep == /\ Op = HALT
            /\ Return("exit 0")
            /\ UNCHANGED <<data_memory, register_stack, call_stack, pc, pair, objects_only>>

\* The quotient of the smallest long and -1 does not fit: SIGFPE.
DivTrap == /\ Op = DIV /\ Top(1) = -1 /\ Top(2) = MinLong
           /\ Crash
           /\ UNCHANGED <<data_memory, register_stack, call_stack, pc, pair, objects_only>>

\* A check throws and main returns 1: nobody reads the stack again, so what the
\* instruction had already popped is not modelled.
Throw == /\ Return("exit 1")
         /\ UNCHANGED <<data_memory, register_stack, call_stack, pc, pair, objects_only>>

Step == /\ control = "step"
        /\ IF Legal
             THEN \/ StackStep \/ StoreStep \/ JumpStep \/ CallStep
                  \/ ConsStep \/ HaltStep \/ DivTrap
             ELSE Throw
        /\ stops' = 0
        /\ stepUnchanged

-----------------------------------------------------------------------------
(* repl.  stack, memstat, leaks, help and unknown lines change nothing.    *)

ReplStep == /\ control = "repl"
            /\ Goto("step")
            /\ UNCHANGED <<program_memory, machine, debug_mode, breakpoints, stops>>

ReplContinue == /\ control = "repl"
                /\ debug_mode' = FALSE
                /\ Goto("step")
                /\ UNCHANGED <<program_memory, machine, breakpoints, stops>>

ReplBreak(a) == /\ control = "repl"
                /\ breakpoints' = breakpoints \cup {a}
                /\ UNCHANGED <<program_memory, machine, debug_mode, control,
                               stops, exit_status>>

\* Broken: only the objects on the stack itself are marked.
ReplGcKeepsRootsOnly ==
  /\ control = "repl"
  /\ heap' = heap \cap TaggedRoots
  /\ Goto("repl")
  /\ UNCHANGED <<program_memory, data_memory, register_stack, call_stack,
                 pc, debug_mode, breakpoints, pair, objects_only, stops>>

\* What mark does with a pointer that is no object is undefined: it reads
\* freed memory or takes the signal for an address that is not mapped.
ReplGc == /\ control = "repl"
          /\ \/ /\ Followed \subseteq heap \cup Addr
                /\ heap' = heap \cap Followed
                /\ Goto("repl")
             \/ /\ ~(Followed \subseteq heap)
                /\ Crash
          /\ UNCHANGED <<program_memory, data_memory, register_stack, call_stack,
                         pc, debug_mode, breakpoints, pair, objects_only, stops>>

\* "quit", or the end of the input.
ReplQuit == /\ control = "repl"
            /\ Exit
            /\ UNCHANGED <<program_memory, data_memory, register_stack, call_stack,
                           pc, debug_mode, breakpoints, pair, objects_only, stops>>

\* handle_signal: SIGUSR1 is taken at any point after main has set the handler.
HandleSignal == /\ control # "done"
                /\ debug_mode' = TRUE
                /\ UNCHANGED <<program_memory, machine, breakpoints, control,
                               stops, exit_status>>

\* The process is gone.
Ended == control = "done" /\ UNCHANGED vars

-----------------------------------------------------------------------------
Thread == Load \/ LoadFails \/ RunLoop \/ Step

User == \/ ReplStep \/ ReplContinue \/ ReplGc \/ ReplQuit
        \/ \E a \in BreakArgs : ReplBreak(a)

Next == Thread \/ User \/ HandleSignal \/ Ended

\* The thread keeps running while it does not wait for the user, who need not
\* type anything; nobody has to send a signal.
Spec == Init /\ [][Next]_vars /\ WF_vars(Thread)

-----------------------------------------------------------------------------
(* Properties.                                                             *)

\* Every variable has its type: no instruction makes a value that is no long, and
\* a stack never exceeds its array.
TypeOK ==
  /\ program_memory \in [Address -> Long]
  /\ data_memory \in [Address -> Long]
  /\ \A k \in 1..Depth : register_stack[k] \in Item
  /\ Depth <= STACK_SIZE
  /\ \A k \in 1..Len(call_stack) : call_stack[k] \in Nat
  /\ Len(call_stack) <= STACK_SIZE
  /\ pc \in Int
  /\ debug_mode \in BOOLEAN
  /\ breakpoints \subseteq BreakArgs
  /\ heap \subseteq Addr
  /\ pair \in [Addr -> [head : Long, tail : Long]]
  /\ control \in {"main", "loop", "repl", "step", "done"}
  /\ objects_only \in BOOLEAN
  /\ stops \in Nat
  /\ exit_status \in {"none", "exit 0", "exit 1", "killed"}

\* "This allows the GC to precisely distinguish between integer data (ignored)
\* and object pointers (roots)" (REPORT.md:131): whenever a collection can
\* start, every pointer it would follow is an allocated object.
GcFollowsObjects == control = "repl" => Followed \subseteq heap

\* The collector is safe as long as CONS is given nothing but 0 and addresses of
\* allocated objects, those included that a program hid in data memory and that
\* were freed and handed out again meanwhile: wherever the user types gc, it
\* follows allocated objects only.
ObjectProgramsAreSafe == objects_only => GcFollowsObjects

\* Until then no collection and no allocation changes what can still be reached:
\* no live pair is freed and its memory handed out again.
LivePairsKeepContents ==
  [][objects_only =>
       \A a \in Addr \cap Followed \cap Followed' : pair'[a] = pair[a]]_vars

\* The user of the heap is the program: what GcHeap promises callers that hold
\* pointers, step, run and repl have of it until CONS is given anything else.
Promise == INSTANCE AbstractGC
             WITH Obj <- Addr, roots <- TaggedRoots,
                  edges <- [a \in heap |-> PointsTo(a)]

HeapPromise ==
  [][objects_only' /\ control' # "done" => [Promise!Next]_(Promise!vars)]_vars

\* RET goes back behind a CALL: each saved address follows a CALL and its
\* operand in the program.
ReturnsBehindCall ==
  \A k \in 1..Len(call_stack) : /\ call_stack[k] >= 2
                                /\ program_memory[call_stack[k] - 2] = CALL

\* Breakpoints are honoured (TESTS.md:33): each time that an instruction at a
\* breakpoint is executed the thread has stopped before it, on a later arrival too,
\* and step and continue execute it without a second stop.
BreakpointHonoured ==
  /\ stops <= 1
  /\ control = "step" /\ pc \in breakpoints => stops = 1

\* SIGUSR1 drops the user into the debugger (TECHNICAL.md:37), in the middle
\* of an endless program too, unless the process ends first.
SignalReachesPrompt ==
  debug_mode /\ control \in {"main", "loop", "step"} ~> control \in {"repl", "done"}
=============================================================================
