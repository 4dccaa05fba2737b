-------------------------- MODULE BytecodeVM_proofs --------------------------
(***************************************************************************)
(* Proofs about BytecodeVM, for every set of bytecode files, every width   *)
(* of a long and every size of the memories and stacks: that no            *)
(* instruction computes what is no long or leaves an array, where calls    *)
(* return to, where the thread stops, and what the collector may be        *)
(* trusted with.  Liveness is left to the model checker.                   *)
(***************************************************************************)
EXTENDS BytecodeVM, ListLemmas, Reachability_proofs

-----------------------------------------------------------------------------
(* Powers of 2.  A recursive function is what its definition says if there *)
(* is a function that the definition is true of.                           *)

\* The powers of 2 up to the n-th, as a table.
Doubles(f, n) == /\ f \in [0..n -> Nat \ {0}]
                 /\ f[0] = 1
                 /\ \A k \in 1..n : f[k] = 2 * f[k - 1]

\* There is a table of every length.
LEMMA TablesExist ==
  ASSUME NEW n \in Nat
  PROVE  \E f : Doubles(f, n)
<1> DEFINE T == {m \in Nat : ~\E f : Doubles(f, m)}
<1> SUFFICES T = {}
  OBVIOUS
<1> SUFFICES ASSUME T # {} PROVE FALSE
  OBVIOUS
<1>1. PICK m \in T : \A k \in T : m <= k
  BY LeastElement
<1>2. CASE m = 0
  <2>1. Doubles([k \in 0..0 |-> 1], 0)
    BY DEF Doubles
  <2> QED BY <1>1, <1>2, <2>1
<1>3. CASE m # 0
  <2>1. m \in Nat /\ m - 1 \in Nat /\ m - 1 \notin T
    BY <1>1, <1>3
  <2>2. PICK f : Doubles(f, m - 1)
    BY <2>1
  <2> DEFINE g == [k \in 0..m |-> IF k = m THEN 2 * f[m - 1] ELSE f[k]]
  <2>3. f[m - 1] \in Nat \ {0}
    BY <2>1, <2>2 DEF Doubles
  <2>4. g \in [0..m -> Nat \ {0}]
    BY <2>1, <2>2, <2>3 DEF Doubles
  <2>5. g[0] = 1
    BY <2>1, <2>2, <1>3 DEF Doubles
  <2>6. ASSUME NEW k \in 1..m
        PROVE  g[k] = 2 * g[k - 1]
    <3>1. k - 1 \in 0..(m - 1) /\ g[k - 1] = f[k - 1]
      BY <2>1
    <3>2. CASE k = m
      BY <3>1, <3>2
    <3>3. CASE k # m
      <4>1. k \in 1..(m - 1) /\ g[k] = f[k]
        BY <2>1, <3>3
      <4> QED BY <2>2, <3>1, <4>1 DEF Doubles
    <3> QED BY <3>2, <3>3
  <2>7. Doubles(g, m)
    BY <2>4, <2>5, <2>6 DEF Doubles
  <2> QED BY <1>1, <2>7
<1> QED BY <1>2, <1>3

\* Two tables agree as far as both go.
LEMMA TablesAgree ==
  ASSUME NEW m \in Nat, NEW n \in Nat, m <= n,
         NEW f, NEW g, Doubles(f, m), Doubles(g, n)
  PROVE  \A k \in 0..m : f[k] = g[k]
<1> DEFINE T == {k \in 0..m : f[k] # g[k]}
<1> SUFFICES ASSUME T # {} PROVE FALSE
  OBVIOUS
<1>0. T \in SUBSET Nat
  OBVIOUS
<1>1. PICK k \in T : \A j \in T : k <= j
  BY <1>0, LeastElement
<1>2. k # 0
  BY <1>1 DEF Doubles
<1>3. k \in 1..m /\ k \in 1..n /\ k - 1 \in 0..m
  BY <1>2
<1>4. f[k - 1] = g[k - 1]
  BY <1>1, <1>3
<1> QED BY <1>3, <1>4 DEF Doubles

\* Pow2 is what its recursive definition says.
LEMMA Pow2Properties ==
  /\ Pow2 \in [Nat -> Nat \ {0}]
  /\ Pow2[0] = 1
  /\ \A n \in Nat : Pow2[n + 1] = 2 * Pow2[n]
<1> DEFINE t(n) == CHOOSE f : Doubles(f, n)
           F == [n \in Nat |-> t(n)[n]]
<1>1. \A n \in Nat : Doubles(t(n), n)
  BY TablesExist
<1> HIDE DEF t
<1>2. \A n \in Nat : F[n] \in Nat \ {0}
  BY <1>1 DEF Doubles
<1>3. F[0] = 1
  BY <1>1 DEF Doubles
<1>4. ASSUME NEW n \in Nat, n # 0
      PROVE  F[n] = 2 * F[n - 1]
  <2>1. n - 1 \in Nat /\ n - 1 <= n /\ n - 1 \in 0..(n - 1) /\ n \in 1..n
    BY <1>4
  <2>2. t(n - 1)[n - 1] = t(n)[n - 1]
    BY <1>1, <2>1, TablesAgree
  <2>3. t(n)[n] = 2 * t(n)[n - 1]
    BY <1>1, <2>1 DEF Doubles
  <2> QED BY <2>1, <2>2, <2>3
<1>5. F = [n \in Nat |-> IF n = 0 THEN 1 ELSE 2 * F[n - 1]]
  BY <1>3, <1>4
<1> HIDE DEF F
<1>6. Pow2 = [n \in Nat |-> IF n = 0 THEN 1 ELSE 2 * Pow2[n - 1]]
  BY <1>5 DEF Pow2
<1>7. \A n \in Nat : Pow2[n] = F[n]
  <2> DEFINE T == {n \in Nat : Pow2[n] # F[n]}
  <2> SUFFICES ASSUME T # {} PROVE FALSE
    OBVIOUS
  <2>1. PICK n \in T : \A j \in T : n <= j
    BY LeastElement
  <2>2. n # 0
    BY <1>3, <1>6, <2>1
  <2>3. n - 1 \in Nat /\ Pow2[n - 1] = F[n - 1]
    BY <2>1, <2>2
  <2> QED BY <1>4, <1>6, <2>2, <2>3
<1>8. Pow2 \in [Nat -> Nat \ {0}]
  BY <1>2, <1>6, <1>7
<1>9. \A n \in Nat : Pow2[n + 1] = 2 * Pow2[n]
  BY <1>6
<1> QED BY <1>3, <1>7, <1>8, <1>9

-----------------------------------------------------------------------------
(* Longs: what an instruction computes from longs is a long.               *)

\* The longs are 2H numbers around 0, and 1 is among them.
LEMMA LongRange ==
  \E H \in Nat : /\ H >= 2
                 /\ Pow2[WIDTH] = 2 * H
                 /\ MinLong = -H
                 /\ Long = (-H)..(H - 1)
<1>1. WIDTH - 1 \in Nat /\ WIDTH - 2 \in Nat /\ WIDTH \in Nat
  BY SizeAssumption
<1>2. Pow2[(WIDTH - 2) + 1] = 2 * Pow2[WIDTH - 2] /\ Pow2[(WIDTH - 1) + 1] = 2 * Pow2[WIDTH - 1]
  BY <1>1, Pow2Properties
<1>3. Pow2[WIDTH - 1] = 2 * Pow2[WIDTH - 2] /\ Pow2[WIDTH] = 2 * Pow2[WIDTH - 1]
  <2>1. (WIDTH - 2) + 1 = WIDTH - 1 /\ (WIDTH - 1) + 1 = WIDTH
    BY <1>1
  <2> QED BY <1>2, <2>1
<1>4. Pow2[WIDTH - 2] \in Nat \ {0} /\ Pow2[WIDTH - 1] \in Nat \ {0}
  BY <1>1, Pow2Properties
<1>5. Pow2[WIDTH - 1] \in Nat /\ Pow2[WIDTH - 1] >= 2
  BY <1>3, <1>4
<1> QED BY <1>3, <1>5 DEF MinLong, Long

\* The three results of CMP and of the checks are longs.
LEMMA SmallLongs == {-1, 0, 1} \subseteq Long /\ Long \subseteq Int
BY LongRange

\* What is cut down to WIDTH bits is a long.
LEMMA WrapIsLong ==
  ASSUME NEW v \in Int
  PROVE  Wrap(v) \in Long
<1>1. PICK H \in Nat : H >= 2 /\ Pow2[WIDTH] = 2 * H /\ MinLong = -H /\ Long = (-H)..(H - 1)
  BY LongRange
<1>2. 2 * H \in Nat \ {0} /\ v - (-H) \in Int
  BY <1>1
<1>3. (v - (-H)) % (2 * H) \in 0..(2 * H - 1)
  BY <1>2
<1> QED BY <1>1, <1>3 DEF Wrap

\* Division by a natural number rounds down and does not lead away from 0.
LEMMA Floor ==
  ASSUME NEW v \in Int, NEW m \in Nat \ {0}
  PROVE  /\ v \div m \in Int
         /\ v >= 0 => v \div m >= 0 /\ v \div m <= v
         /\ v < 0 => v \div m >= v /\ v \div m < 0
OBVIOUS

\* Division by 2 or more makes a number smaller.
LEMMA Halves ==
  ASSUME NEW n \in Nat \ {0}, NEW d \in Nat, d >= 2
  PROVE  n \div d < n
OBVIOUS

\* The quotient, rounded towards 0, is a long unless it is that of the smallest one
\* and -1.
LEMMA QuotientIsLong ==
  ASSUME NEW v1 \in Long, NEW v2 \in Long, v2 # 0, ~(v2 = -1 /\ v1 = MinLong)
  PROVE  Result(DIV, v1, v2) \in Long
<1>1. PICK H \in Nat : H >= 2 /\ Pow2[WIDTH] = 2 * H /\ MinLong = -H /\ Long = (-H)..(H - 1)
  BY LongRange
<1> DEFINE q == Abs(v1) \div Abs(v2)
<1>2. Abs(v1) \in 0..H /\ Abs(v2) \in Nat \ {0} /\ v1 \in Int /\ v2 \in Int
  BY <1>1 DEF Abs
<1>3. q \in Int /\ q >= 0 /\ q <= Abs(v1)
  BY <1>2, Floor
<1>4. Result(DIV, v1, v2) = (IF (v1 < 0) = (v2 < 0) THEN 1 ELSE -1) * q
  BY <1>2, SizeAssumption DEF Result, ADD, SUB, MUL, DIV, CMP, SHL, SHR
<1>5. CASE (v1 < 0) = (v2 < 0)
  <2>1. q # H
    <3>1. CASE v1 = MinLong
      <4>1. v2 < -1
        BY <1>1, <1>2, <1>5, <3>1
      <4>2. Abs(v2) >= 2 /\ Abs(v1) \in Nat \ {0}
        BY <1>1, <1>2, <3>1, <4>1 DEF Abs
      <4>3. q < Abs(v1)
        BY <1>2, <4>2, Halves
      <4> QED BY <1>2, <1>3, <4>3
    <3>2. CASE v1 # MinLong
      <4>1. Abs(v1) < H
        BY <1>1, <3>2 DEF Abs
      <4> QED BY <1>2, <1>3, <4>1
    <3> QED BY <3>1, <3>2
  <2>2. q \in 0..(H - 1)
    BY <1>2, <1>3, <2>1
  <2>3. Result(DIV, v1, v2) = q
    BY <1>3, <1>4, <1>5
  <2> HIDE DEF q
  <2> QED BY <1>1, <2>2, <2>3
<1>6. CASE (v1 < 0) # (v2 < 0)
  <2>1. Result(DIV, v1, v2) = -q
    BY <1>3, <1>4, <1>6
  <2> HIDE DEF q
  <2> QED BY <1>1, <1>2, <1>3, <2>1
<1> QED BY <1>5, <1>6

\* What step computes is a long.
LEMMA ResultIsLong ==
  ASSUME NEW v1 \in Long, NEW v2 \in Long, NEW op \in Arithmetic,
         op = DIV => v2 # 0 /\ ~(v2 = -1 /\ v1 = MinLong)
  PROVE  Result(op, v1, v2) \in Long
<1>1. v1 \in Int /\ v2 \in Int
  BY SmallLongs
<1>2. v2 % WIDTH \in Nat /\ Pow2[v2 % WIDTH] \in Nat \ {0}
  <2>1. v2 % WIDTH \in 0..(WIDTH - 1)
    BY <1>1, SizeAssumption
  <2> QED BY <2>1, Pow2Properties
<1>3. op \in {ADD, SUB, MUL, DIV, CMP, SHL, SHR}
  BY DEF Arithmetic, ADD, SUB, MUL, DIV, CMP, SHL, SHR
<1>4. CASE op = ADD
  <2>1. Result(op, v1, v2) = Wrap(v1 + v2)
    BY <1>1, <1>4, SizeAssumption DEF Result, ADD, SUB, MUL, DIV, CMP, SHL, SHR
  <2> QED BY <1>1, <2>1, WrapIsLong
<1>5. CASE op = SUB
  <2>1. Result(op, v1, v2) = Wrap(v1 - v2)
    BY <1>1, <1>5, SizeAssumption DEF Result, ADD, SUB, MUL, DIV, CMP, SHL, SHR
  <2> QED BY <1>1, <2>1, WrapIsLong
<1>6. CASE op = MUL
  <2>1. Result(op, v1, v2) = Wrap(v1 * v2)
    BY <1>1, <1>6, SizeAssumption DEF Result, ADD, SUB, MUL, DIV, CMP, SHL, SHR
  <2> QED BY <1>1, <2>1, WrapIsLong
<1>7. CASE op = DIV
  BY <1>7, QuotientIsLong
<1>8. CASE op = CMP
  <2>1. Result(op, v1, v2) = IF v1 < v2 THEN 1 ELSE 0
    BY <1>1, <1>8, SizeAssumption DEF Result, ADD, SUB, MUL, DIV, CMP, SHL, SHR
  <2> QED BY <2>1, SmallLongs
<1>9. CASE op = SHL
  <2>1. Result(op, v1, v2) = Wrap(v1 * Pow2[v2 % WIDTH])
    BY <1>1, <1>9, SizeAssumption DEF Result, ADD, SUB, MUL, DIV, CMP, SHL, SHR
  <2>2. v1 * Pow2[v2 % WIDTH] \in Int
    BY <1>1, <1>2
  <2> QED BY <2>1, <2>2, WrapIsLong
<1>10. CASE op = SHR
  <2> DEFINE m == Pow2[v2 % WIDTH]
  <2>1. Result(op, v1, v2) = v1 \div m
    BY <1>1, <1>10, SizeAssumption DEF Result, ADD, SUB, MUL, DIV, CMP, SHL, SHR
  <2>2. /\ v1 \div m \in Int
        /\ v1 >= 0 => v1 \div m >= 0 /\ v1 \div m <= v1
        /\ v1 < 0 => v1 \div m >= v1 /\ v1 \div m < 0
    BY <1>1, <1>2, Floor
  <2>3. PICK H \in Nat : H >= 2 /\ Long = (-H)..(H - 1)
    BY LongRange
  <2> HIDE DEF m
  <2> QED BY <2>1, <2>2, <2>3
<1> QED BY <1>3, <1>4, <1>5, <1>6, <1>7, <1>8, <1>9, <1>10

\* The complement of a long is a long.
LEMMA ComplementIsLong ==
  ASSUME NEW v \in Long
  PROVE  -v - 1 \in Long
BY LongRange

-----------------------------------------------------------------------------
(* Calls and stops: the inductive invariant.                               *)

\* The program is written once, before anything is called.
LoadedOnce == control = "main" => call_stack = << >>

\* The prompt stands where one stop was announced, which counts until the instruction
\* there is executed; the top of run's loop is reached with none.
StopsCounted ==
  /\ control = "repl" => stops = 1
  /\ control \in {"main", "loop"} => stops = 0
  /\ BreakpointHonoured

IInv == /\ call_stack \in Seq(Nat)
        /\ LoadedOnce
        /\ ReturnsBehindCall
        /\ StopsCounted

-----------------------------------------------------------------------------
(* Steps of the thread.                                                    *)

\* Nothing but CALL and RET touches the saved addresses while a program runs.
LEMMA CallsKept ==
  ASSUME IInv, UNCHANGED <<program_memory, call_stack>>, control' # "main"
  PROVE  /\ call_stack' \in Seq(Nat)
         /\ LoadedOnce'
         /\ ReturnsBehindCall'
BY DEF IInv, LoadedOnce, ReturnsBehindCall

\* A step that leaves neither the prompt nor an instruction to come, and no stop.
LEMMA LeftBehind ==
  ASSUME control' \notin {"repl", "step"}, stops' = 0
  PROVE  StopsCounted'
BY DEF StopsCounted, BreakpointHonoured

LEMMA LoadStep ==
  ASSUME IInv, Load \/ LoadFails
  PROVE  IInv'
<1>1. call_stack = << >> /\ UNCHANGED call_stack
  BY DEF IInv, LoadedOnce, Load, LoadFails, loadUnchanged
<1>2. control' \notin {"main", "repl", "step"} /\ stops' = 0
  BY DEF IInv, StopsCounted, Load, LoadFails, loadUnchanged, Goto, Return
<1> QED BY <1>1, <1>2, LeftBehind DEF IInv, LoadedOnce, ReturnsBehindCall

LEMMA LoopStep ==
  ASSUME IInv, RunLoop
  PROVE  IInv'
<1>1. UNCHANGED <<program_memory, call_stack, pc, breakpoints>> /\ control' # "main"
  BY DEF RunLoop, machine, Goto
<1>2. StopsCounted'
  <2>1. CASE MustStop
    <3>1. stops' = 1 /\ control' = "repl"
      BY <2>1 DEF IInv, StopsCounted, RunLoop, Goto
    <3> QED BY <1>1, <3>1 DEF StopsCounted, BreakpointHonoured
  <2>2. CASE ~MustStop
    <3>1. control' = "step" /\ pc \notin breakpoints /\ stops' = 0
      BY <2>2 DEF IInv, StopsCounted, RunLoop, Goto, MustStop
    <3> QED BY <1>1, <3>1 DEF StopsCounted, BreakpointHonoured
  <2> QED BY <2>1, <2>2
<1> QED BY <1>1, <1>2, CallsKept DEF IInv

\* CALL saves the address behind its operand; RET drops the last one.
LEMMA CallReturns ==
  ASSUME IInv, Legal, CallStep, UNCHANGED program_memory, control = "step"
  PROVE  call_stack' \in Seq(Nat) /\ ReturnsBehindCall'
<1> USE DEF IInv
<1>1. CASE Op = CALL /\ call_stack' = Append(call_stack, pc + 2)
  <2>1. pc \in Nat /\ program_memory[pc] = CALL
    BY <1>1, SizeAssumption DEF Legal, Address, Op
  <2>2. /\ call_stack' \in Seq(Nat) /\ Len(call_stack') = Len(call_stack) + 1
        /\ call_stack'[Len(call_stack) + 1] = pc + 2
        /\ \A k \in 1..Len(call_stack) : call_stack'[k] = call_stack[k]
    BY <1>1, <2>1
  <2>3. ASSUME NEW k \in 1..Len(call_stack')
        PROVE  call_stack'[k] >= 2 /\ program_memory[call_stack'[k] - 2] = CALL
    <3>1. CASE k = Len(call_stack) + 1
      BY <2>1, <2>2, <3>1
    <3>2. CASE k \in 1..Len(call_stack)
      BY <2>2, <3>2 DEF ReturnsBehindCall
    <3> QED BY <2>2, <2>3, <3>1, <3>2
  <2> QED BY <2>2, <2>3 DEF ReturnsBehindCall
<1>2. CASE Op = RET /\ call_stack' = Front(call_stack)
  <2>1. call_stack # << >>
    BY <1>2 DEF Legal
  <2>2. call_stack \in Seq(Nat)
    OBVIOUS
  <2>3. call_stack' = Front(call_stack)
    BY <1>2
  <2>4. /\ call_stack' \in Seq(Nat) /\ Len(call_stack') = Len(call_stack) - 1
        /\ \A k \in 1..(Len(call_stack) - 1) : call_stack'[k] = call_stack[k]
    BY <2>1, <2>2, <2>3, FrontProperties
  <2>5. ASSUME NEW k \in 1..Len(call_stack')
        PROVE  call_stack'[k] >= 2 /\ program_memory[call_stack'[k] - 2] = CALL
    <3>1. k \in 1..Len(call_stack) - 1 /\ k \in 1..Len(call_stack)
      BY <2>2, <2>4, <2>5
    <3> QED BY <2>4, <3>1 DEF ReturnsBehindCall
  <2> QED BY <2>4, <2>5 DEF ReturnsBehindCall
<1> QED BY <1>1, <1>2 DEF CallStep

LEMMA StepStep ==
  ASSUME IInv, Step
  PROVE  IInv'
<1>1. control = "step" /\ UNCHANGED program_memory
  BY DEF Step, stepUnchanged
<1>2. control' \in {"loop", "done"}
  BY DEF Step, StackStep, StoreStep, JumpStep, CallStep, ConsStep, HaltStep,
         DivTrap, Throw, Goto, Return, Crash
<1>3. StopsCounted'
  BY <1>2, LeftBehind DEF Step
<1>4. CASE UNCHANGED call_stack
  BY <1>1, <1>2, <1>3, <1>4, CallsKept DEF IInv
<1>5. CASE Legal /\ CallStep
  BY <1>1, <1>2, <1>3, <1>5, CallReturns DEF IInv, LoadedOnce
<1>6. UNCHANGED call_stack \/ (Legal /\ CallStep)
  BY DEF Step, StackStep, StoreStep, JumpStep, ConsStep, HaltStep, DivTrap, Throw
<1> QED BY <1>4, <1>5, <1>6

-----------------------------------------------------------------------------
(* Steps of the user and of the sender of SIGUSR1.                         *)

LEMMA PromptStep ==
  ASSUME IInv, User
  PROVE  IInv'
<1>1. UNCHANGED <<program_memory, call_stack, pc, stops>>
  BY DEF User, ReplStep, ReplContinue, ReplGc, ReplQuit, ReplBreak, machine
<1>2. control = "repl" /\ control' \in {"repl", "step", "done"}
  BY DEF User, ReplStep, ReplContinue, ReplGc, ReplQuit, ReplBreak, Goto, Crash, Exit
<1>3. StopsCounted'
  BY <1>1, <1>2 DEF IInv, StopsCounted, BreakpointHonoured
<1> QED BY <1>1, <1>2, <1>3, CallsKept DEF IInv

LEMMA OtherStep ==
  ASSUME IInv, HandleSignal \/ Ended \/ UNCHANGED vars
  PROVE  IInv'
BY DEF HandleSignal, Ended, vars, machine, IInv, LoadedOnce, ReturnsBehindCall,
       StopsCounted, BreakpointHonoured

\* Whatever the bytecode, the user and the sender of signals do, the saved
\* addresses and the announced stops are as IInv says (VM::run, VM::step).
THEOREM VMInvariant == Spec => []IInv
<1>1. Init => IInv
  BY DEF Init, IInv, LoadedOnce, ReturnsBehindCall, StopsCounted,
         BreakpointHonoured
<1>2. IInv /\ [Next]_vars => IInv'
  BY LoadStep, LoopStep, StepStep, PromptStep, OtherStep DEF Next, Thread
<1> QED BY <1>1, <1>2, PTL DEF Spec

-----------------------------------------------------------------------------
(* What follows for the user.                                              *)

\* RET goes back behind a CALL, for every program (CALL and RET in VM::step).
THEOREM ReturnsAreCalls == Spec => []ReturnsBehindCall
<1>1. IInv => ReturnsBehindCall
  BY DEF IInv
<1> QED BY <1>1, VMInvariant, PTL

\* No instruction at a breakpoint is executed without a stop before it, however often
\* it was executed before, and none is stopped at twice (VM::run).
THEOREM BreakpointsHonoured == Spec => []BreakpointHonoured
<1>1. IInv => BreakpointHonoured
  BY DEF IInv, StopsCounted
<1> QED BY <1>1, VMInvariant, PTL
-------------------------------------------------------------------------

-----------------------------------------------------------------------------
(* Types: no instruction makes a value that is no long.                    *)

TypeInv == register_stack \in Seq(Item) /\ TypeOK

\* The n-th item from the top of a stack that has so many.
LEMMA TopItem ==
  ASSUME register_stack \in Seq(Item), NEW n \in 1..Depth
  PROVE  /\ register_stack[Depth + 1 - n] \in ToSet(register_stack)
         /\ register_stack[Depth + 1 - n] \in Item
         /\ Top(n) \in Long
<1>1. Depth + 1 - n \in 1..Len(register_stack)
  BY LenProperties DEF Depth
<1>2. ToSet(register_stack) = {register_stack[k] : k \in 1..Len(register_stack)}
  BY ToSetDef
<1>3. register_stack[Depth + 1 - n] \in Item
  BY <1>1, ElementOfSeq
<1> QED BY <1>1, <1>2, <1>3 DEF Top, Item

\* Items are popped and at most one is pushed, which is tagged only if it was there.
Moved ==
  \E n \in 0..Depth, t \in Seq(Item) :
    /\ PopPush(n, t)
    /\ Depth - n + Len(t) <= STACK_SIZE
    /\ \A x \in ToSet(t) : x.is_obj => x \in ToSet(register_stack)

\* Pushing one item, and none.
LEMMA OneItem ==
  ASSUME NEW x \in Item
  PROVE  <<x>> \in Seq(Item) /\ Len(<<x>>) = 1 /\ ToSet(<<x>>) = {x}
<1>1. <<x>> \in Seq(Item) /\ Len(<<x>>) = 1 /\ <<x>>[1] = x
  OBVIOUS
<1>2. ToSet(<<x>>) = {<<x>>[k] : k \in 1..Len(<<x>>)}
  BY <1>1, ToSetDef
<1>3. 1..Len(<<x>>) = {1}
  BY <1>1
<1> QED BY <1>1, <1>2, <1>3

\* An instruction that pushes one item where there is room.
LEMMA MovedByOne ==
  ASSUME TypeInv, NEW n \in 0..Depth, NEW x \in Item, PopPush(n, <<x>>),
         n >= 1 \/ Depth < STACK_SIZE,
         x.is_obj => x \in ToSet(register_stack)
  PROVE  Moved
<1>1. Depth \in Nat /\ Depth <= STACK_SIZE /\ STACK_SIZE \in Nat
  BY SizeAssumption, LenProperties DEF TypeInv, TypeOK, Depth
<1>2. Depth - n + 1 <= STACK_SIZE
  BY <1>1
<1>3. <<x>> \in Seq(Item) /\ Len(<<x>>) = 1 /\ ToSet(<<x>>) = {x}
  BY OneItem
<1>4. /\ Depth - n + Len(<<x>>) <= STACK_SIZE
      /\ \A y \in ToSet(<<x>>) : y.is_obj => y \in ToSet(register_stack)
  BY <1>2, <1>3
<1> QED BY <1>3, <1>4 DEF Moved

\* An instruction that pushes none.
LEMMA MovedByNone ==
  ASSUME TypeInv, NEW n \in 0..Depth, PopPush(n, << >>)
  PROVE  Moved
<1>1. Depth \in Nat /\ Depth <= STACK_SIZE /\ STACK_SIZE \in Nat
  BY SizeAssumption, LenProperties DEF TypeInv, TypeOK, Depth
<1>2. << >> \in Seq(Item) /\ Len(<< >>) = 0 /\ ToSet(<< >>) = {}
  <2>1. << >> \in Seq(Item)
    OBVIOUS
  <2> QED BY <2>1, ToSetDef
<1>3. Depth - n + Len(<< >>) <= STACK_SIZE
  BY <1>1, <1>2
<1> QED BY <1>2, <1>3 DEF Moved

\* What such an instruction leaves: a stack of items that fits, with no new object.
LEMMA MovedStack ==
  ASSUME TypeInv, Moved
  PROVE  /\ register_stack' \in Seq(Item)
         /\ Depth' <= STACK_SIZE
         /\ TaggedRoots' \subseteq TaggedRoots
<1>1. PICK n \in 0..Depth, t \in Seq(Item) :
        /\ PopPush(n, t)
        /\ Depth - n + Len(t) <= STACK_SIZE
        /\ \A x \in ToSet(t) : x.is_obj => x \in ToSet(register_stack)
  BY DEF Moved
<1>2. /\ register_stack' \in Seq(Item)
      /\ Len(register_stack') = Depth - n + Len(t)
      /\ ToSet(register_stack') \subseteq ToSet(register_stack) \cup ToSet(t)
  BY <1>1, ReplaceLast DEF PopPush, Depth, TypeInv
<1>3. TaggedRoots' \subseteq TaggedRoots
  BY <1>1, <1>2 DEF TaggedRoots
<1> QED BY <1>1, <1>2, <1>3 DEF Depth

\* How deep the stack is for an instruction that passes the checks.
LEMMA LegalDepth ==
  ASSUME Legal
  PROVE  /\ Op \in Arithmetic \cup AND..XOR \cup {CONS} => Depth >= 2
         /\ Op \in {POP, DUP, PEEKPRINT, NOT, JZ, JNZ, STORE} => Depth >= 1
         /\ Op \in {PUSH, DUP, LOAD} => Depth < STACK_SIZE
<1>1. Op \in Arithmetic \cup AND..XOR \cup {CONS} => Arity(Op) = 2
  BY DEF Arity, Binary, Arithmetic, POP, DUP, PEEKPRINT, NOT, JZ, JNZ, STORE, ADD, CMP, AND,
         XOR, SHL, SHR, CONS
<1>2. Op \in {POP, DUP, PEEKPRINT, NOT, JZ, JNZ, STORE} => Arity(Op) = 1
  BY DEF Arity, Binary, Arithmetic, POP, DUP, PEEKPRINT, NOT, JZ, JNZ, STORE, ADD, CMP, AND,
         XOR, SHL, SHR, CONS
<1> QED BY <1>1, <1>2 DEF Legal, Fits

\* The operand of an instruction that has one.
LEMMA OperandIsLong ==
  ASSUME TypeOK, Legal
  PROVE  Op \in WithOperand => Operand \in Long
<1>1. Op \in WithOperand => pc + 1 \in Address
  BY SizeAssumption DEF Legal, Address
<1> QED BY <1>1 DEF TypeOK, Operand

\* push(val) makes an item that is not tagged.
LEMMA NumberItem ==
  ASSUME NEW v \in Long
  PROVE  Int64(v) \in Item /\ ~Int64(v).is_obj
BY DEF Int64, Item

\* The instructions that only compute: each operand is there, each result a long.
LEMMA StackMoves ==
  ASSUME TypeInv, Legal, StackStep, register_stack' # register_stack
  PROVE  Moved
<1> USE DEF TypeInv
<1>1. Depth \in Nat
  BY LenProperties DEF Depth
<1>2. CASE Op = PUSH /\ PopPush(0, <<Int64(Operand)>>)
  <2>1. Operand \in Long /\ Depth < STACK_SIZE
    BY <1>2, OperandIsLong, LegalDepth DEF WithOperand
  <2>2. Int64(Operand) \in Item /\ ~Int64(Operand).is_obj
    BY <2>1, NumberItem
  <2> QED BY <1>1, <1>2, <2>1, <2>2, MovedByOne
<1>3. CASE Op = POP /\ PopPush(1, << >>)
  <2>1. 1 \in 0..Depth
    BY <1>1, <1>3, LegalDepth
  <2> QED BY <1>3, <2>1, MovedByNone
<1>4. CASE Op = DUP /\ PopPush(0, <<Last(register_stack)>>)
  <2>1. 1 \in 1..Depth /\ Depth < STACK_SIZE
    BY <1>1, <1>4, LegalDepth
  <2>2. Last(register_stack) = register_stack[Depth + 1 - 1]
    BY <1>1 DEF Last, Depth
  <2>3. Last(register_stack) \in Item /\ Last(register_stack) \in ToSet(register_stack)
    BY <2>1, <2>2, TopItem
  <2> QED BY <1>1, <1>4, <2>1, <2>3, MovedByOne
<1>5. CASE /\ Op \in Arithmetic
           /\ ~(Op = DIV /\ Top(1) = -1 /\ Top(2) = MinLong)
           /\ PopPush(2, <<Int64(Result(Op, Top(2), Top(1)))>>)
  <2>1. Depth >= 2 /\ 2 \in 0..Depth /\ 1 \in 1..Depth /\ 2 \in 1..Depth
    BY <1>1, <1>5, LegalDepth
  <2>2. Top(1) \in Long /\ Top(2) \in Long
    BY <2>1, TopItem
  <2>3. Op = DIV => Top(1) # 0
    BY DEF Legal
  <2>4. Result(Op, Top(2), Top(1)) \in Long
    BY <1>5, <2>2, <2>3, ResultIsLong
  <2>5. Int64(Result(Op, Top(2), Top(1))) \in Item /\ ~Int64(Result(Op, Top(2), Top(1))).is_obj
    BY <2>4, NumberItem
  <2> QED BY <1>1, <1>5, <2>1, <2>5, MovedByOne
<1>6. CASE /\ Op \in AND..XOR
           /\ \E r \in Long : Bitwise(Op, Top(2), Top(1), r) /\ PopPush(2, <<Int64(r)>>)
  <2>1. PICK r \in Long : PopPush(2, <<Int64(r)>>)
    BY <1>6
  <2>2. Depth >= 2 /\ 2 \in 0..Depth
    BY <1>1, <1>6, LegalDepth
  <2>3. Int64(r) \in Item /\ ~Int64(r).is_obj
    BY NumberItem
  <2> QED BY <2>1, <2>2, <2>3, MovedByOne
<1>7. CASE Op = NOT /\ PopPush(1, <<Int64(-Top(1) - 1)>>)
  <2>1. 1 \in 0..Depth /\ 1 \in 1..Depth
    BY <1>1, <1>7, LegalDepth
  <2>2. -Top(1) - 1 \in Long
    BY <2>1, TopItem, ComplementIsLong
  <2>3. Int64(-Top(1) - 1) \in Item /\ ~Int64(-Top(1) - 1).is_obj
    BY <2>2, NumberItem
  <2> QED BY <1>7, <2>1, <2>3, MovedByOne
<1>8. CASE Op = LOAD /\ PopPush(0, <<Int64(data_memory[Operand])>>)
  <2>1. Operand \in Address /\ Depth < STACK_SIZE
    BY <1>8, LegalDepth DEF Legal
  <2>2. data_memory[Operand] \in Long
    BY <2>1 DEF TypeOK
  <2>3. Int64(data_memory[Operand]) \in Item /\ ~Int64(data_memory[Operand]).is_obj
    BY <2>2, NumberItem
  <2> QED BY <1>1, <1>8, <2>1, <2>3, MovedByOne
<1> QED BY <1>2, <1>3, <1>4, <1>5, <1>6, <1>7, <1>8 DEF StackStep

\* STORE and the jumps take their items and push none.
LEMMA StoreOrJumpMoves ==
  ASSUME TypeInv, Legal, StoreStep \/ JumpStep
  PROVE  Moved
<1>1. Depth \in Nat
  BY LenProperties DEF Depth, TypeInv
<1>2. CASE StoreStep
  <2>1. 1 \in 0..Depth
    BY <1>1, <1>2, LegalDepth DEF StoreStep
  <2> QED BY <1>2, <2>1, MovedByNone DEF StoreStep
<1>3. CASE JumpStep
  <2>1. Arity(Op) \in 0..2 /\ Depth >= Arity(Op)
    BY DEF Legal, Arity
  <2>2. Arity(Op) \in 0..Depth
    BY <1>1, <2>1
  <2> QED BY <1>3, <2>2, MovedByNone DEF JumpStep
<1> QED BY <1>2, <1>3

\* CONS replaces two items by the new object.
LEMMA ConsMoves ==
  ASSUME TypeInv, Legal, Op = CONS, NEW a \in Addr, PopPush(2, <<ObjectAt(a)>>)
  PROVE  /\ register_stack' \in Seq(Item)
         /\ Depth' <= STACK_SIZE
         /\ TaggedRoots' \subseteq TaggedRoots \cup {a}
<1>1. Depth \in Nat /\ Depth >= 2 /\ 2 \in 0..Depth /\ Depth <= STACK_SIZE /\ STACK_SIZE \in Nat
  <2>1. Depth \in Nat
    BY LenProperties DEF TypeInv, Depth
  <2>2. Depth >= 2
    BY LegalDepth
  <2>3. Depth <= STACK_SIZE
    BY DEF TypeInv, TypeOK
  <2> QED BY <2>1, <2>2, <2>3, SizeAssumption
<1>2. ObjectAt(a) \in Item /\ ObjectAt(a).value = a
  BY AddrAssumption DEF ObjectAt, Item
<1>3. /\ <<ObjectAt(a)>> \in Seq(Item) /\ Len(<<ObjectAt(a)>>) = 1
      /\ ToSet(<<ObjectAt(a)>>) = {ObjectAt(a)}
  BY <1>2, OneItem
<1>4. /\ register_stack' \in Seq(Item)
      /\ Len(register_stack') = Depth - 2 + 1
      /\ ToSet(register_stack') \subseteq ToSet(register_stack) \cup {ObjectAt(a)}
  <2> DEFINE t == <<ObjectAt(a)>>
  <2>1. t \in Seq(Item) /\ register_stack' = SubSeq(register_stack, 1, Len(register_stack) - 2) \o t
    BY <1>3 DEF PopPush, Depth
  <2>2. Len(t) = 1 /\ ToSet(t) = {ObjectAt(a)}
    BY <1>3
  <2>3. register_stack \in Seq(Item) /\ 2 \in 0..Len(register_stack)
    BY <1>1 DEF TypeInv, Depth
  <2> HIDE DEF t
  <2>4. /\ register_stack' \in Seq(Item)
        /\ Len(register_stack') = Len(register_stack) - 2 + Len(t)
        /\ ToSet(register_stack') \subseteq ToSet(register_stack) \cup ToSet(t)
    BY <2>1, <2>3, ReplaceLast
  <2> QED BY <2>2, <2>4 DEF Depth
<1>5. TaggedRoots' \subseteq TaggedRoots \cup {a}
  BY <1>2, <1>4 DEF TaggedRoots
<1> QED BY <1>1, <1>4, <1>5 DEF Depth

\* The part of TypeOK that the registers do not concern.
LEMMA TypedRest ==
  ASSUME TypeInv, register_stack' \in Seq(Item), Depth' <= STACK_SIZE,
         call_stack' \in Seq(Nat), Len(call_stack') <= STACK_SIZE,
         program_memory' \in [Address -> Long],
         data_memory' \in [Address -> Long],
         pc' \in Int,
         heap' \subseteq Addr,
         pair' \in [Addr -> [head : Long, tail : Long]],
         objects_only' \in BOOLEAN,
         debug_mode' \in BOOLEAN,
         breakpoints' \subseteq BreakArgs,
         stops' \in Nat,
         control' \in {"main", "loop", "repl", "step", "done"},
         exit_status' \in {"none", "exit 0", "exit 1", "killed"}
  PROVE  TypeInv'
<1>1. \A k \in 1..Depth' : register_stack'[k] \in Item
  BY ElementOfSeq DEF Depth
<1>2. \A k \in 1..Len(call_stack') : call_stack'[k] \in Nat
  BY ElementOfSeq
<1> QED BY <1>1, <1>2 DEF TypeInv, TypeOK

\* load leaves longs in program_memory.
LEMMA ImageIsLongs ==
  ASSUME NEW file \in Files
  PROVE  Image(file) \in [Address -> Long]
<1>1. file \in Seq(Long) /\ 0 \in Long
  BY FilesAssumption, SmallLongs
<1>2. ASSUME NEW a \in Address, a < Len(file)
      PROVE  file[a + 1] \in Long
  <2>1. a + 1 \in 1..Len(file)
    BY <1>1, <1>2, LenProperties, SizeAssumption DEF Address
  <2> QED BY <1>1, <2>1, ElementOfSeq
<1> QED BY <1>1, <1>2 DEF Image

\* load writes the program and nothing else.
LEMMA LoadTyped ==
  ASSUME TypeInv, IInv', Load \/ LoadFails
  PROVE  TypeInv'
<1>1. program_memory' \in [Address -> Long]
  <2>1. CASE Load
    <3>1. PICK file \in Files : program_memory' = Image(file)
      BY <2>1 DEF Load, Loadable
    <3> QED BY <3>1, ImageIsLongs
  <2>2. CASE LoadFails
    BY <2>2 DEF LoadFails, TypeInv, TypeOK
  <2> QED BY <2>1, <2>2
<1>2. /\ heap' = {} \/ heap' = heap
      /\ control' \in {"loop", "done"}
      /\ exit_status' \in {"exit 1", exit_status}
  BY DEF Load, LoadFails, Goto, Return
<1>3. UNCHANGED <<data_memory, register_stack, call_stack, debug_mode, breakpoints, pair,
                  objects_only, stops>>
  BY DEF Load, LoadFails, loadUnchanged
<1>4. pc' \in Int
  <2>1. pc' = 0 \/ pc' = pc
    BY DEF Load, LoadFails
  <2>2. pc \in Int
    BY DEF TypeInv, TypeOK
  <2> QED BY <2>1, <2>2
<1>5. heap' \subseteq Addr
  BY <1>2 DEF TypeInv, TypeOK
<1>6. exit_status' \in {"none", "exit 0", "exit 1", "killed"}
  BY <1>2 DEF TypeInv, TypeOK
<1>7. register_stack' \in Seq(Item) /\ Depth' <= STACK_SIZE
  BY <1>3 DEF TypeInv, TypeOK, Depth
<1>8. call_stack' \in Seq(Nat) /\ Len(call_stack') <= STACK_SIZE
  BY <1>3 DEF IInv, TypeInv, TypeOK
<1> QED BY <1>1, <1>2, <1>3, <1>4, <1>5, <1>6, <1>7, <1>8, TypedRest DEF TypeInv, TypeOK

\* So far the thread has only looked at pc.
LEMMA LoopTyped ==
  ASSUME TypeInv, IInv', RunLoop
  PROVE  TypeInv'
<1>1. stops' \in Nat
  <2>1. stops \in Nat /\ (stops' = stops \/ stops' = stops + 1)
    BY DEF TypeInv, TypeOK, RunLoop
  <2> QED BY <2>1
<1> USE DEF TypeInv, TypeOK
<1>2. UNCHANGED <<program_memory, data_memory, register_stack, call_stack, pc, heap, pair,
                  objects_only, breakpoints, exit_status>>
  BY DEF RunLoop, machine, Goto
<1>3. control' \in {"repl", "step"} /\ debug_mode' \in BOOLEAN
  BY DEF RunLoop, Goto
<1> QED BY <1>1, <1>2, <1>3, TypedRest DEF IInv, Depth

\* Where an instruction leaves the program counter.
LEMMA NextPc ==
  ASSUME TypeInv, IInv, Legal, StackStep \/ StoreStep \/ JumpStep \/ CallStep \/ ConsStep
  PROVE  pc' \in Int
<1>1. pc \in Int /\ (Op \in WithOperand => Operand \in Int)
  BY OperandIsLong, SmallLongs DEF TypeInv, TypeOK
<1>2. CASE StackStep \/ StoreStep \/ ConsStep
  BY <1>1, <1>2 DEF StackStep, StoreStep, ConsStep
<1>3. CASE JumpStep
  BY <1>1, <1>3 DEF JumpStep, WithOperand
<1>4. CASE Op = CALL /\ pc' = Operand
  BY <1>1, <1>4 DEF WithOperand
<1>5. CASE Op = RET /\ pc' = Last(call_stack)
  <2>1. call_stack \in Seq(Nat) /\ call_stack # << >>
    BY <1>5 DEF Legal, IInv
  <2>2. Len(call_stack) \in 1..Len(call_stack)
    BY <2>1, EmptySeq, LenProperties
  <2> QED BY <1>5, <2>1, <2>2, ElementOfSeq DEF Last
<1> QED BY <1>2, <1>3, <1>4, <1>5 DEF CallStep

\* No more addresses are saved than there is room for.
LEMMA CallDepth ==
  ASSUME TypeInv, IInv, Legal, CallStep
  PROVE  Len(call_stack') <= STACK_SIZE
<1>1. call_stack \in Seq(Nat) /\ Len(call_stack) \in Nat /\ Len(call_stack) <= STACK_SIZE
  BY LenProperties DEF IInv, TypeInv, TypeOK
<1>2. CASE Op = CALL /\ call_stack' = Append(call_stack, pc + 2)
  <2>1. Len(call_stack) < STACK_SIZE
    BY <1>2 DEF Legal
  <2>2. Len(call_stack') = Len(call_stack) + 1
    <3>1. pc + 2 \in Nat
      BY SizeAssumption DEF Legal, Address
    <3> QED BY <1>1, <1>2, <3>1
  <2> QED BY <1>1, <2>1, <2>2, SizeAssumption
<1>3. CASE Op = RET /\ call_stack' = Front(call_stack)
  <2>1. Len(call_stack') = Len(call_stack) - 1
    BY <1>1, <1>3, FrontProperties DEF Legal
  <2> QED BY <1>1, <2>1, SizeAssumption
<1> QED BY <1>2, <1>3 DEF CallStep

\* An instruction that goes on to the next leaves its registers and memory typed.
LEMMA InstructionTyped ==
  ASSUME TypeInv, IInv, IInv', Legal, stepUnchanged, stops' = 0,
         StackStep \/ StoreStep \/ JumpStep \/ CallStep \/ ConsStep
  PROVE  TypeInv'
<1>1. /\ UNCHANGED <<program_memory, debug_mode, breakpoints, exit_status>>
      /\ control' = "loop"
  BY DEF stepUnchanged, StackStep, StoreStep, JumpStep, CallStep, ConsStep, Goto
<1>2. register_stack' \in Seq(Item) /\ Depth' <= STACK_SIZE
  <2>1. CASE UNCHANGED register_stack
    BY <2>1 DEF TypeInv, TypeOK, Depth
  <2>2. CASE register_stack' # register_stack /\ ~ConsStep
    BY <2>2, StackMoves, StoreOrJumpMoves, MovedStack DEF CallStep
  <2>3. CASE ConsStep
    BY <2>3, ConsMoves DEF ConsStep
  <2> QED BY <2>1, <2>2, <2>3
<1>3. call_stack' \in Seq(Nat) /\ Len(call_stack') <= STACK_SIZE
  <2>1. CASE CallStep
    BY <2>1, CallDepth DEF IInv
  <2>2. CASE ~CallStep
    BY <2>2 DEF IInv, TypeInv, TypeOK, StackStep, StoreStep, JumpStep, ConsStep
  <2> QED BY <2>1, <2>2
<1>4. data_memory' \in [Address -> Long]
  <2>1. CASE StoreStep
    <3>1. Operand \in Address /\ 1 \in 1..Depth
      <4>1. Depth \in Nat /\ Depth >= 1
        BY <2>1, LegalDepth, LenProperties DEF StoreStep, TypeInv, Depth
      <4> QED BY <2>1, <4>1 DEF StoreStep, Legal
    <3>2. Top(1) \in Long
      BY <3>1, TopItem DEF TypeInv
    <3> QED BY <2>1, <3>1, <3>2 DEF StoreStep, TypeInv, TypeOK
  <2>2. CASE ~StoreStep
    BY <2>2 DEF TypeInv, TypeOK, StackStep, CallStep, JumpStep, ConsStep
  <2> QED BY <2>1, <2>2
<1>5. /\ heap' \subseteq Addr
      /\ pair' \in [Addr -> [head : Long, tail : Long]]
      /\ objects_only' \in BOOLEAN
  <2>1. CASE ConsStep
    <3>1. 1 \in 1..Depth /\ 2 \in 1..Depth
      <4>1. Depth \in Nat /\ Depth >= 2
        BY <2>1, LegalDepth, LenProperties DEF ConsStep, TypeInv, Depth
      <4> QED BY <4>1
    <3>2. Top(1) \in Long /\ Top(2) \in Long
      BY <3>1, TopItem DEF TypeInv
    <3>3. PICK a \in Addr :
            /\ heap' = heap \cup {a}
            /\ pair' = [pair EXCEPT ![a] = [head |-> Top(2), tail |-> Top(1)]]
      BY <2>1 DEF ConsStep
    <3>4. pair' \in [Addr -> [head : Long, tail : Long]]
      BY <3>2, <3>3 DEF TypeInv, TypeOK
    <3>5. heap' \subseteq Addr
      BY <3>3 DEF TypeInv, TypeOK
    <3>6. objects_only' \in BOOLEAN
      BY <2>1 DEF ConsStep
    <3> QED BY <3>4, <3>5, <3>6
  <2>2. CASE ~ConsStep
    BY <2>2 DEF TypeInv, TypeOK, StackStep, CallStep, JumpStep, StoreStep
  <2> QED BY <2>1, <2>2
<1>6. pc' \in Int
  BY NextPc
<1> QED BY <1>1, <1>2, <1>3, <1>4, <1>5, <1>6, TypedRest DEF TypeInv, TypeOK

\* An instruction that ends the process touches none of them.
LEMMA StepTyped ==
  ASSUME TypeInv, IInv, IInv', Step
  PROVE  TypeInv'
<1>1. CASE Legal /\ (StackStep \/ StoreStep \/ JumpStep \/ CallStep \/ ConsStep)
  BY <1>1, InstructionTyped DEF Step
<1>2. CASE HaltStep \/ DivTrap \/ Throw
  <2>1. UNCHANGED <<program_memory, data_memory, register_stack, call_stack, pc, pair,
                    debug_mode, breakpoints, objects_only>> /\ stops' = 0
    BY <1>2 DEF Step, stepUnchanged, HaltStep, DivTrap, Throw
  <2>2. /\ control' = "done" /\ heap' \subseteq Addr
        /\ exit_status' \in {"none", "exit 0", "exit 1", "killed"}
    BY <1>2 DEF HaltStep, DivTrap, Throw, Return, Crash, TypeInv, TypeOK
  <2> QED BY <2>1, <2>2, TypedRest DEF IInv, Depth, TypeInv, TypeOK
<1> QED BY <1>1, <1>2 DEF Step

\* The user and the signal leave the machine alone; a collection shrinks the list.
LEMMA PromptTyped ==
  ASSUME TypeInv, IInv', User \/ HandleSignal \/ Ended \/ UNCHANGED vars
  PROVE  TypeInv'
<1>1. UNCHANGED <<program_memory, data_memory, register_stack, call_stack, pc, pair,
                  objects_only, stops>>
  BY DEF User, ReplStep, ReplContinue, ReplGc, ReplQuit, ReplBreak, HandleSignal, Ended, vars,
         machine
<1>2. /\ heap' \subseteq Addr /\ breakpoints' \subseteq BreakArgs /\ debug_mode' \in BOOLEAN
      /\ control' \in {"main", "loop", "repl", "step", "done"}
      /\ exit_status' \in {"none", "exit 0", "exit 1", "killed"}
  BY DEF User, ReplStep, ReplContinue, ReplGc, ReplQuit, ReplBreak, HandleSignal, Ended, vars,
         machine, Goto, Crash, Exit, TypeInv, TypeOK
<1> QED BY <1>1, <1>2, TypedRest DEF IInv, Depth, TypeInv, TypeOK

\* Nothing is loaded and nothing computed.
LEMMA InitTyped ==
  ASSUME Init
  PROVE  TypeInv
<1>1. 0 \in Long /\ STACK_SIZE \in Nat /\ Len(<< >>) = 0
  BY SmallLongs, SizeAssumption
<1>2. << >> \in Seq(Item)
  OBVIOUS
<1> QED BY <1>1, <1>2 DEF Init, TypeInv, TypeOK, Depth

\* TypeOK holds for every set of files and every size: the values of the program
\* are longs whatever it computes, no stack exceeds its array and no memory is
\* written outside (VM::step, Stack::push and dup).
THEOREM VMTypes == Spec => []TypeOK
<1>1. Init => TypeInv
  BY InitTyped
<1>2. IInv /\ IInv' /\ TypeInv /\ [Next]_vars => TypeInv'
  BY LoadTyped, LoopTyped, StepTyped, PromptTyped DEF Next, Thread
<1>3. TypeInv => TypeOK
  BY DEF TypeInv
<1> QED BY <1>1, <1>2, <1>3, VMInvariant, PTL DEF Spec

-----------------------------------------------------------------------------
(* The heap: what the collector may be trusted with.                       *)

\* As long as CONS was given addresses of objects and 0 only, every object on the stack
\* is on the list, and so is everything that the pairs on the list point to.
HeapClosed ==
  objects_only /\ control # "done" =>
    /\ TaggedRoots \subseteq heap
    /\ \A a \in heap : PointsTo(a) \subseteq heap

\* The edges that Promise takes for the heap's.
Graph == [a \in heap |-> PointsTo(a)]

\* What a collection follows then is what can be reached on the list.
LEMMA FollowedOnList ==
  ASSUME TaggedRoots \subseteq heap, \A a \in heap : PointsTo(a) \subseteq heap
  PROVE  /\ Followed = Reachable(heap, TaggedRoots, Graph)
         /\ Followed \subseteq heap
         /\ TaggedRoots \subseteq Followed
         /\ \A a \in Followed : PointsTo(a) \subseteq Followed
<1> DEFINE N == TaggedRoots \cup (UNION {PointsTo(a) : a \in heap}) \cup heap
           succ == [n \in N |-> PointsTo(n)]
<1>1. N = heap
  OBVIOUS
<1>2. succ = Graph
  BY <1>1 DEF Graph
<1>3. Followed = Reachable(heap, TaggedRoots, Graph)
  BY <1>1, <1>2 DEF Followed
<1> HIDE DEF N, succ
<1>4. \A a \in heap : Graph[a] = PointsTo(a) /\ Graph[a] \subseteq heap
  BY DEF Graph
<1>5. TaggedRoots \subseteq Followed /\ Followed \subseteq heap
  BY <1>3, ReachableHoldsRoots
<1>6. ClosedUnder(Followed, Graph)
  BY <1>3, <1>4, ReachableIsClosed
<1>7. \A a \in Followed : PointsTo(a) \subseteq Followed
  BY <1>4, <1>5, <1>6 DEF ClosedUnder
<1> QED BY <1>3, <1>5, <1>7

\* A pair made of two addresses of objects points to objects of the list.
LEMMA ConsPoints ==
  ASSUME ConsStep, objects_only'
  PROVE  {Top(1), Top(2)} \ {0} \subseteq heap
BY DEF ConsStep, IsPointer

\* CONS as the heap sees it.
LEMMA ConsGraph ==
  ASSUME TypeInv, Legal, ConsStep
  PROVE  \E a \in Addr \ heap :
           /\ heap' = heap \cup {a}
           /\ TaggedRoots' \subseteq TaggedRoots \cup {a}
           /\ PointsTo(a)' = {Top(1), Top(2)} \ {0}
           /\ \A b \in heap : PointsTo(b)' = PointsTo(b) /\ pair'[b] = pair[b]
<1>1. PICK a \in Addr \ heap :
        /\ heap' = heap \cup {a}
        /\ pair' = [pair EXCEPT ![a] = [head |-> Top(2), tail |-> Top(1)]]
        /\ PopPush(2, <<ObjectAt(a)>>)
  BY DEF ConsStep
<1>2. TaggedRoots' \subseteq TaggedRoots \cup {a}
  BY <1>1, ConsMoves DEF ConsStep
<1>3. /\ pair'[a] = [head |-> Top(2), tail |-> Top(1)]
      /\ \A b \in heap : pair'[b] = pair[b]
  BY <1>1 DEF TypeInv, TypeOK
<1>4. PointsTo(a)' = {Top(1), Top(2)} \ {0}
  BY <1>1, <1>3 DEF PointsTo
<1>5. \A b \in heap : PointsTo(b)' = PointsTo(b)
  BY <1>1, <1>3 DEF PointsTo
<1> QED BY <1>1, <1>2, <1>3, <1>4, <1>5

\* What the steps do that neither allocate nor collect nor end the process.
LEMMA HeapKept ==
  ASSUME TypeInv, [Next]_vars, ~(control = "step" /\ Legal /\ ConsStep), ~ReplGc,
         control' # "done"
  PROVE  UNCHANGED <<heap, pair, objects_only>> /\ TaggedRoots' \subseteq TaggedRoots
<1>1. UNCHANGED <<heap, pair, objects_only>>
  BY DEF Next, Thread, User, Load, LoadFails, loadUnchanged, RunLoop, Step, StackStep, StoreStep,
         JumpStep, CallStep, HaltStep, DivTrap, Throw, ReplStep, ReplContinue, ReplQuit,
         ReplBreak, HandleSignal, Ended, Return, Crash, Exit, machine, vars
<1>2. UNCHANGED register_stack \/ (Legal /\ (StackStep \/ StoreStep \/ JumpStep))
  BY DEF Next, Thread, User, Load, LoadFails, loadUnchanged, RunLoop, Step,
         CallStep, HaltStep, DivTrap, Throw, ReplStep, ReplContinue, ReplQuit,
         ReplBreak, HandleSignal, Ended, Return, Crash, Exit, machine, vars
<1>3. CASE UNCHANGED register_stack
  BY <1>1, <1>3 DEF TaggedRoots
<1>4. CASE register_stack' # register_stack
  BY <1>1, <1>2, <1>4, StackMoves, StoreOrJumpMoves, MovedStack
<1> QED BY <1>3, <1>4

\* A collection as the heap sees it.
LEMMA GcGraph ==
  ASSUME HeapClosed, ReplGc, objects_only
  PROVE  /\ control' = "repl"
         /\ heap' = Followed
         /\ UNCHANGED <<pair, register_stack, objects_only>>
         /\ TaggedRoots' = TaggedRoots
         /\ \A a \in heap' : PointsTo(a)' = PointsTo(a)
<1>1. Followed \subseteq heap
  BY FollowedOnList DEF HeapClosed, ReplGc
<1>2. /\ control' = "repl" /\ heap' = Followed /\ UNCHANGED <<pair, register_stack, objects_only>>
  BY <1>1 DEF ReplGc, Goto
<1>3. TaggedRoots' = TaggedRoots
  BY <1>2 DEF TaggedRoots
<1>4. \A a \in heap' : PointsTo(a)' = PointsTo(a)
  BY <1>1, <1>2 DEF PointsTo
<1> QED BY <1>2, <1>3, <1>4

\* A process that has ended does not come back.
LEMMA DoneStays ==
  ASSUME [Next]_vars, control = "done"
  PROVE  control' = "done"
BY DEF Next, Thread, User, Load, LoadFails, RunLoop, Step, ReplStep, ReplContinue, ReplGc, ReplQuit,
       ReplBreak, HandleSignal, Ended, vars

\* No step breaks it: CONS checks nothing, but objects_only says what it was given.
LEMMA HeapStaysClosed ==
  ASSUME TypeInv, HeapClosed, [Next]_vars
  PROVE  HeapClosed'
<1> SUFFICES ASSUME objects_only', control' # "done"
             PROVE  /\ TaggedRoots' \subseteq heap'
                    /\ \A a \in heap' : PointsTo(a)' \subseteq heap'
  BY DEF HeapClosed
<1>1. control # "done"
  BY DoneStays
<1>2. CASE control = "step" /\ Legal /\ ConsStep
  <2>1. objects_only /\ TaggedRoots \subseteq heap /\ \A a \in heap : PointsTo(a) \subseteq heap
    BY <1>1, <1>2 DEF ConsStep, HeapClosed
  <2>2. PICK a \in Addr \ heap :
           /\ heap' = heap \cup {a}
           /\ TaggedRoots' \subseteq TaggedRoots \cup {a}
           /\ PointsTo(a)' = {Top(1), Top(2)} \ {0}
           /\ \A b \in heap : PointsTo(b)' = PointsTo(b) /\ pair'[b] = pair[b]
    BY <1>2, ConsGraph
  <2>3. PointsTo(a)' \subseteq heap
    BY <1>2, <2>2, ConsPoints
  <2> QED BY <2>1, <2>2, <2>3
<1>3. CASE ReplGc
  <2>1. objects_only
    BY <1>3 DEF ReplGc
  <2>2. /\ heap' = Followed /\ TaggedRoots' = TaggedRoots
        /\ \A a \in heap' : PointsTo(a)' = PointsTo(a)
    BY <1>3, <2>1, GcGraph
  <2>3. TaggedRoots \subseteq Followed /\ \A a \in Followed : PointsTo(a) \subseteq Followed
    BY <1>1, <2>1, FollowedOnList DEF HeapClosed
  <2> QED BY <2>2, <2>3
<1>4. CASE ~(control = "step" /\ Legal /\ ConsStep) /\ ~ReplGc
  <2>1. UNCHANGED <<heap, pair, objects_only>> /\ TaggedRoots' \subseteq TaggedRoots
    BY <1>4, HeapKept
  <2>2. TaggedRoots \subseteq heap /\ \A a \in heap : PointsTo(a) \subseteq heap
    BY <1>1, <2>1 DEF HeapClosed
  <2>3. \A a \in heap' : PointsTo(a)' = PointsTo(a)
    BY <2>1 DEF PointsTo
  <2> QED BY <2>1, <2>2, <2>3
<1> QED BY <1>2, <1>3, <1>4

\* Whatever the bytecode and the user do, the heap is closed until CONS is given
\* anything but objects and 0, and every variable has its type (VM::step, VM::gc).
THEOREM VMHeapInvariant == Spec => [](IInv /\ TypeInv /\ HeapClosed)
<1>1. Init => TypeInv /\ HeapClosed
  <2>1. ASSUME Init PROVE HeapClosed
    <3>1. TaggedRoots = {}
      <4>1. << >> \in Seq(Item)
        OBVIOUS
      <4>2. ToSet(register_stack) = {}
        BY <2>1, <4>1, ToSetDef DEF Init
      <4> QED BY <4>2 DEF TaggedRoots
    <3> QED BY <2>1, <3>1 DEF Init, HeapClosed
  <2> QED BY <2>1, InitTyped
<1>2. IInv /\ IInv' /\ TypeInv /\ HeapClosed /\ [Next]_vars => TypeInv' /\ HeapClosed'
  BY LoadTyped, LoopTyped, StepTyped, PromptTyped, HeapStaysClosed DEF Next, Thread
<1> QED BY <1>1, <1>2, VMInvariant, PTL DEF Spec

\* Wherever the user types gc, mark follows allocated objects only, as long as CONS
\* was given nothing but addresses of objects and 0 (VM::mark, VM::gc).
THEOREM VMCollectsSafely == Spec => []ObjectProgramsAreSafe
<1>1. HeapClosed => ObjectProgramsAreSafe
  BY FollowedOnList DEF HeapClosed, ObjectProgramsAreSafe, GcFollowsObjects
<1> QED BY <1>1, VMHeapInvariant, PTL

\* Until then no live pair is freed and written again (VM::sweep, CONS in VM::step).
THEOREM VMKeepsLivePairs == Spec => LivePairsKeepContents
<1>1. ASSUME TypeInv, HeapClosed, [Next]_vars, objects_only,
             NEW a \in Addr \cap Followed \cap Followed'
      PROVE  vars' = vars \/ pair'[a] = pair[a]
  <2>1. CASE control = "step" /\ Legal /\ ConsStep
    <3>1. a \in heap
      BY <1>1, <2>1, FollowedOnList DEF HeapClosed
    <3> QED BY <1>1, <2>1, <3>1, ConsGraph
  <2>2. CASE ~(control = "step" /\ Legal /\ ConsStep)
    <3>1. UNCHANGED pair
      BY <1>1, <2>2 DEF Next, Thread, User, Load, LoadFails, loadUnchanged, RunLoop, Step,
         StackStep, StoreStep, JumpStep, CallStep, HaltStep, DivTrap, Throw, ReplStep,
         ReplContinue, ReplQuit, ReplBreak, ReplGc, HandleSignal, Ended, machine, vars
    <3> QED BY <3>1
  <2> QED BY <2>1, <2>2
<1>2. TypeInv /\ HeapClosed /\ [Next]_vars
        => [objects_only =>
              \A a \in Addr \cap Followed \cap Followed' : pair'[a] = pair[a]]_vars
  BY <1>1
<1> QED BY <1>2, VMHeapInvariant, PTL DEF Spec, LivePairsKeepContents

\* Until then every step of the whole machine is a step that AbstractGC allows: one
\* allocation from what the stack holds, a change of the roots, or one exact
\* collection (VM::step, VM::repl).
THEOREM VMKeepsHeapPromise == Spec => HeapPromise
<1>1. ASSUME TypeInv, HeapClosed, [Next]_vars, objects_only', control' # "done"
      PROVE  [Promise!Next]_(Promise!vars)
  <2> USE DEF Promise!vars
  <2>1. control # "done"
    BY <1>1, DoneStays
  <2>2. CASE control = "step" /\ Legal /\ ConsStep
    <3>1. objects_only /\ TaggedRoots \subseteq heap
      BY <1>1, <2>1, <2>2 DEF ConsStep, HeapClosed
    <3>2. PICK a \in Addr \ heap :
             /\ heap' = heap \cup {a}
             /\ TaggedRoots' \subseteq TaggedRoots \cup {a}
             /\ PointsTo(a)' = {Top(1), Top(2)} \ {0}
             /\ \A b \in heap : PointsTo(b)' = PointsTo(b) /\ pair'[b] = pair[b]
      BY <1>1, <2>2, ConsGraph
    <3> DEFINE S == {Top(1), Top(2)} \ {0}
    <3>3. S \in SUBSET heap
      BY <1>1, <2>2, ConsPoints
    <3> HIDE DEF S
    <3>4. Graph' = [p \in heap \cup {a} |-> IF p = a THEN S ELSE Graph[p]]
      BY <3>2 DEF Graph, S
    <3>5. TaggedRoots' \in SUBSET (heap \cup {a})
      BY <3>1, <3>2
    <3>6. DOMAIN Graph = heap
      BY DEF Graph
    <3>7. Promise!New(a, S, TaggedRoots')
      BY <3>2, <3>3, <3>4, <3>5, <3>6 DEF Promise!New, Promise!Live, Graph
    <3> QED BY <3>2, <3>3, <3>5, <3>6, <3>7 DEF Promise!Next, Promise!Live, Graph
  <2>3. CASE ReplGc
    <3>1. objects_only
      BY <1>1, <2>3 DEF ReplGc
    <3>2. /\ heap' = Followed /\ TaggedRoots' = TaggedRoots
          /\ \A a \in heap' : PointsTo(a)' = PointsTo(a)
      BY <1>1, <2>3, <3>1, GcGraph
    <3>3. Followed = Reachable(heap, TaggedRoots, Graph) /\ Followed \subseteq heap
      BY <1>1, <2>1, <3>1, FollowedOnList DEF HeapClosed
    <3>4. Graph' = [a \in Followed |-> Graph[a]]
      BY <3>2, <3>3 DEF Graph
    <3>5. DOMAIN Graph = heap
      BY DEF Graph
    <3>6. Promise!Reachable(heap, TaggedRoots, Graph) = Followed
      BY <3>3 DEF Promise!Reachable, Promise!ClosedUnder, Reachable, ClosedUnder
    <3>7. Promise!Collect
      BY <3>2, <3>3, <3>4, <3>5, <3>6 DEF Promise!Collect, Promise!Live, Graph
    <3> QED BY <3>7 DEF Promise!Next
  <2>4. CASE ~(control = "step" /\ Legal /\ ConsStep) /\ ~ReplGc
    <3>1. UNCHANGED <<heap, pair, objects_only>> /\ TaggedRoots' \subseteq TaggedRoots
      BY <1>1, <2>4, HeapKept
    <3>2. Graph' = Graph
      BY <3>1 DEF Graph, PointsTo
    <3>3. TaggedRoots' \in SUBSET heap
      BY <1>1, <2>1, <3>1 DEF HeapClosed
    <3>4. DOMAIN Graph = heap
      BY DEF Graph
    <3>5. Promise!SetRoots(TaggedRoots')
      BY <3>2, <3>3, <3>4 DEF Promise!SetRoots, Promise!Live, Graph
    <3> QED BY <3>3, <3>4, <3>5 DEF Promise!Next, Promise!Live, Graph
  <2> QED BY <2>2, <2>3, <2>4
<1>2. TypeInv /\ HeapClosed /\ [Next]_vars
        => [objects_only' /\ control' # "done" => [Promise!Next]_(Promise!vars)]_vars
  BY <1>1
<1> QED BY <1>2, VMHeapInvariant, PTL DEF Spec, HeapPromise
=============================================================================
