--------------------------- MODULE Pipeline_proofs ---------------------------
(***************************************************************************)
(* Proofs about Pipeline, for every set of command lines, every finite set *)
(* of pids and every number of descriptors: who owns the terminal, what is *)
(* reaped, which descriptors stay open and what they refer to.  Liveness   *)
(* is left to the model checker.                                           *)
(***************************************************************************)
EXTENDS Pipeline, ListLemmas, FiniteSetTheorems, TLAPS

-----------------------------------------------------------------------------
(* The inductive invariant.                                                *)

\* A child has what the kernel keeps of it.
Child(r) ==
  /\ {"state", "stage", "group", "is_background", "reported", "fds"} \subseteq DOMAIN r
  /\ r.state \in {"none", "runnable", "stopped", "zombie", "reaped"}
  /\ r.group \in Pid \cup {Shell}

Children == DOMAIN proc = Pid /\ \A p \in Pid : Child(proc[p])

\* The terminal is away only while the shell waits, and only a line that has a
\* group is waited for.
TerminalFollowsCalls ==
  /\ shell \notin {"wait", "regain"} => foreground = Shell
  /\ shell \in {"give", "wait"} => first_pid \in Pid /\ ~is_background
  /\ first_pid \in Pid \cup {0, -1}
  /\ is_background \in BOOLEAN /\ failed \in BOOLEAN
  /\ first_pid = -1 => failed

\* A child that is not in the background and not done is one of the line that
\* the shell works on; no child is in the shell's own group.
OwnLineOnly ==
  ~failed =>
    \A p \in Pid :
      /\ proc[p].state # "none" => proc[p].group # Shell
      /\ \/ proc[p].state \in {"none", "reaped"}
         \/ proc[p].is_background
         \/ /\ shell \in {"stage", "give", "wait"} /\ proc[p].group = first_pid
            /\ ~is_background

IInv == Children /\ TerminalFollowsCalls /\ OwnLineOnly

-----------------------------------------------------------------------------
(* Steps of the children.                                                  *)

\* The records that a child becomes.
LEMMA ChildBecomes ==
  ASSUME NEW r, Child(r), r.state # "none"
  PROVE  /\ \A s \in {Dies(r), Stops(r)} :
              Child(s) /\ s.state # "none" /\ s.group = r.group
              /\ s.is_background = r.is_background
         /\ \A f : LET s == [r EXCEPT !.stage = "run", !.fds = f]
                   IN  Child(s) /\ s.state # "none" /\ s.group = r.group
                       /\ s.is_background = r.is_background
BY DEF Child, Dies, Stops, NotCreated

\* Children that move keep their group, and none of them moves that was reaped.
LEMMA ChildrenMove ==
  ASSUME IInv, UNCHANGED <<shell, local, foreground, failed>>, DOMAIN proc' = Pid,
         \A p \in Pid : \/ UNCHANGED proc[p]
                        \/ /\ proc[p].state \notin {"none", "reaped"}
                           /\ Child(proc'[p]) /\ proc'[p].state # "none"
                           /\ proc'[p].group = proc[p].group
                           /\ proc'[p].is_background = proc[p].is_background
  PROVE  IInv'
<1>1. Children'
  BY DEF IInv, Children, Child
<1>2. TerminalFollowsCalls'
  BY DEF IInv, TerminalFollowsCalls, local
<1>3. OwnLineOnly'
  BY DEF IInv, OwnLineOnly, local
<1> QED BY <1>1, <1>2, <1>3 DEF IInv

\* A child's own step, and the keyboard.
LEMMA ChildStep ==
  ASSUME IInv,
         \/ \E p \in Pid : ChildWorks(p) \/ CtrlD(p)
         \/ CtrlC \/ CtrlZ
  PROVE  IInv'
<1>1. \A p \in Pid : Child(proc[p])
  BY DEF IInv, Children
<1>2. ASSUME NEW p \in Pid, proc[p].state = "runnable", NEW r, Becomes(p, r),
             Child(r) /\ r.state # "none" /\ r.group = proc[p].group
               /\ r.is_background = proc[p].is_background
      PROVE  IInv'
  <2>1. DOMAIN proc' = Pid /\ proc'[p] = r /\ \A q \in Pid \ {p} : proc'[q] = proc[q]
    BY <1>2 DEF Becomes, IInv, Children
  <2>2. UNCHANGED <<shell, local, foreground, failed>>
    BY <1>2 DEF Becomes
  <2> QED BY <1>2, <2>1, <2>2, ChildrenMove
<1>3. ASSUME NEW p \in Pid, Setup(p) PROVE IInv'
  <2>1. proc[p].state = "runnable" /\ proc[p].stage = "setup"
    BY <1>3 DEF Setup
  <2>2. \/ Becomes(p, Dies(proc[p]))
        \/ \E f : Becomes(p, [proc[p] EXCEPT !.stage = "run", !.fds = f])
    BY <1>3 DEF Setup
  <2> QED BY <1>1, <1>2, <2>1, <2>2, ChildBecomes
<1>4. ASSUME NEW p \in Pid, Ends(p) \/ Refused(p) \/ CtrlD(p) PROVE IInv'
  <2>1. proc[p].state = "runnable" /\ (Becomes(p, Dies(proc[p])) \/ Becomes(p, Stops(proc[p])))
    BY <1>4 DEF Ends, Refused, CtrlD, ReadsTerminal, Runs
  <2> QED BY <1>1, <1>2, <2>1, ChildBecomes
<1>5. CASE CtrlC \/ CtrlZ
  <2>1. /\ UNCHANGED <<shell, local, foreground, failed>> /\ DOMAIN proc' = Pid
        /\ \A p \in Pid : \/ proc'[p] = proc[p]
                          \/ /\ proc[p].state = "runnable"
                             /\ proc'[p] \in {Dies(proc[p]), Stops(proc[p])}
    BY <1>5 DEF CtrlC, CtrlZ
  <2>2. ASSUME NEW p \in Pid, proc[p].state = "runnable",
               proc'[p] \in {Dies(proc[p]), Stops(proc[p])}
        PROVE  /\ Child(proc'[p]) /\ proc'[p].state # "none"
               /\ proc'[p].group = proc[p].group
               /\ proc'[p].is_background = proc[p].is_background
    BY <1>1, <2>2, ChildBecomes
  <2> QED BY <2>1, <2>2, ChildrenMove
<1> QED BY <1>3, <1>4, <1>5 DEF ChildWorks

-----------------------------------------------------------------------------
(* Steps of the shell.                                                     *)

\* A step that creates no child and changes none.
LEMMA SameChildren ==
  ASSUME IInv, UNCHANGED proc
  PROVE  Children' /\ \A p \in Pid : UNCHANGED proc[p]
BY DEF IInv, Children, Child

\* fork gives the child the group of the line, or founds it.
LEMMA ForkStep ==
  ASSUME IInv, NEW p \in Pid, Fork(p)
  PROVE  IInv'
<1>1. /\ shell = "stage" /\ shell' = "stage" /\ proc[p].state = "none"
      /\ UNCHANGED <<is_background, foreground, failed>>
      /\ first_pid' = IF first_pid = 0 THEN p ELSE first_pid
  BY DEF Fork, AtStage
<1>2. /\ DOMAIN proc' = Pid /\ \A q \in Pid \ {p} : proc'[q] = proc[q]
      /\ Child(proc'[p]) /\ proc'[p].state = "runnable"
      /\ proc'[p].group = GroupOf(p) /\ proc'[p].is_background = is_background
  BY DEF Fork, IInv, Children, Child, GroupOf, TerminalFollowsCalls
<1>3. GroupOf(p) \in Pid \cup {Shell} /\ p # 0 /\ p # Shell
  BY PidAssumption DEF GroupOf, IInv, TerminalFollowsCalls
<1>4. Children'
  BY <1>2 DEF IInv, Children, Child
<1>5. TerminalFollowsCalls'
  BY <1>1, <1>3, PidAssumption DEF IInv, TerminalFollowsCalls
<1>6. OwnLineOnly'
  <2> SUFFICES ASSUME ~failed, NEW q \in Pid
               PROVE  /\ proc'[q].state # "none" => proc'[q].group # Shell
                      /\ \/ proc'[q].state \in {"none", "reaped"}
                         \/ proc'[q].is_background
                         \/ proc'[q].group = first_pid' /\ ~is_background
    BY <1>1 DEF OwnLineOnly
  <2>1. first_pid # -1 /\ GroupOf(p) = first_pid' /\ GroupOf(p) # Shell
    BY <1>1, <1>3, PidAssumption DEF IInv, TerminalFollowsCalls, GroupOf
  <2>2. CASE q = p
    BY <1>1, <1>2, <2>1, <2>2 DEF IInv, TerminalFollowsCalls
  <2>3. CASE q # p
    <3>1. /\ proc'[q] = proc[q]
          /\ proc[q].state # "none" => proc[q].group # Shell /\ proc[q].group \in Pid
          /\ \/ proc[q].state \in {"none", "reaped"}
             \/ proc[q].is_background
             \/ proc[q].group = first_pid /\ ~is_background
      BY <1>1, <1>2, <2>3 DEF IInv, OwnLineOnly, Children, Child
    <3>2. proc[q].group = first_pid /\ proc[q].group \in Pid => first_pid' = first_pid
      BY <1>1, PidAssumption
    <3> QED BY <3>1, <3>2
  <2> QED BY <2>2, <2>3
<1> QED BY <1>4, <1>5, <1>6 DEF IInv

\* waitpid reaps a member, or is told that it stopped.
LEMMA WaitStep ==
  ASSUME IInv, NEW p \in Pid, WaitReturns(p)
  PROVE  IInv'
<1>1. /\ UNCHANGED <<shell, local, foreground, failed>>
      /\ proc[p].state \in {"zombie", "stopped"}
      /\ proc' = [proc EXCEPT ![p] = IF @.state = "zombie" THEN [@ EXCEPT !.state = "reaped"]
                                     ELSE [@ EXCEPT !.reported = TRUE]]
  BY DEF WaitReturns, Waitable
<1>2. /\ DOMAIN proc' = Pid /\ \A q \in Pid \ {p} : proc'[q] = proc[q]
      /\ Child(proc'[p]) /\ proc'[p].state # "none"
      /\ proc'[p].group = proc[p].group /\ proc'[p].is_background = proc[p].is_background
  BY <1>1 DEF IInv, Children, Child
<1> QED BY <1>1, <1>2, ChildrenMove

\* The calls that touch no child.
LEMMA CallStep ==
  ASSUME IInv,
         \/ \E line \in Line : Enter(line) \/ Exit(line)
         \/ Skip \/ StagesDone \/ GiveTerminal \/ WaitEnds \/ Regain
         \/ PipeFails \/ ForkFails
  PROVE  IInv'
<1>1. UNCHANGED proc
  BY DEF Enter, Exit, Skip, StagesDone, GiveTerminal, WaitEnds, Regain, PipeFails,
         ForkFails, kernel
<1>2. Children' /\ \A p \in Pid : UNCHANGED proc[p]
  BY <1>1, SameChildren
<1>3. \A p \in Pid : Child(proc[p])
  BY DEF IInv, Children
<1>4. ASSUME NEW line \in Line, Enter(line) PROVE IInv'
  <2>1. /\ shell = "prompt" /\ shell' = "stage" /\ is_background' = line.is_background
        /\ first_pid' = 0 /\ UNCHANGED <<foreground, failed>> /\ ~failed
    BY <1>4 DEF Enter, kernel
  <2>2. TerminalFollowsCalls'
    BY <2>1, LineAssumption DEF IInv, TerminalFollowsCalls
  <2>3. OwnLineOnly'
    BY <1>2, <2>1 DEF IInv, OwnLineOnly
  <2> QED BY <1>2, <2>2, <2>3 DEF IInv
<1>5. CASE \/ \E line \in Line : Exit(line)
           \/ Skip
  <2>1. /\ UNCHANGED <<is_background, first_pid, foreground, failed>>
        /\ shell' = shell \/ (shell = "prompt" /\ shell' = "ended")
    BY <1>5 DEF Exit, Skip, kernel, local
  <2>2. TerminalFollowsCalls' /\ OwnLineOnly'
    BY <1>2, <2>1 DEF IInv, TerminalFollowsCalls, OwnLineOnly
  <2> QED BY <1>2, <2>2 DEF IInv
<1>6. CASE StagesDone
  <2>1. /\ UNCHANGED <<is_background, first_pid, foreground, failed>> /\ shell = "stage"
        /\ shell' = IF first_pid > 0 /\ ~is_background THEN "give" ELSE "prompt"
    BY <1>6 DEF StagesDone, kernel, local
  <2>2. first_pid \in Pid <=> first_pid > 0
    BY PidAssumption DEF IInv, TerminalFollowsCalls
  <2>3. TerminalFollowsCalls'
    BY <2>1, <2>2 DEF IInv, TerminalFollowsCalls
  <2>4. OwnLineOnly'
    <3> SUFFICES ASSUME ~failed, NEW p \in Pid, proc[p].state \notin {"none", "reaped"},
                        ~proc[p].is_background
                 PROVE  /\ proc[p].group # Shell
                        /\ shell' = "give" /\ proc[p].group = first_pid /\ ~is_background
      BY <1>2, <2>1 DEF OwnLineOnly, IInv
    <3>1. /\ proc[p].group # Shell /\ proc[p].group = first_pid /\ ~is_background
      BY DEF IInv, OwnLineOnly
    <3>2. first_pid \in Pid
      BY <1>3, <3>1 DEF Child
    <3> QED BY <2>1, <2>2, <3>1, <3>2
  <2> QED BY <1>2, <2>3, <2>4 DEF IInv
<1>7. CASE GiveTerminal
  <2>1. /\ UNCHANGED <<is_background, first_pid, failed>>
        /\ shell = "give" /\ shell' = "wait"
    BY <1>7 DEF GiveTerminal, local
  <2>2. TerminalFollowsCalls' /\ OwnLineOnly'
    BY <1>2, <2>1 DEF IInv, TerminalFollowsCalls, OwnLineOnly
  <2> QED BY <1>2, <2>2 DEF IInv
<1>8. CASE WaitEnds
  <2>1. /\ UNCHANGED <<is_background, first_pid, foreground, failed>>
        /\ shell = "wait" /\ shell' = "regain"
        /\ \A p \in Pid : Member(p) => proc[p].state = "reaped"
    BY <1>8 DEF WaitEnds, kernel, local
  <2>2. TerminalFollowsCalls' /\ OwnLineOnly'
    BY <1>2, <2>1 DEF IInv, TerminalFollowsCalls, OwnLineOnly, Member
  <2> QED BY <1>2, <2>2 DEF IInv
<1>9. CASE Regain
  <2>1. /\ UNCHANGED <<is_background, first_pid, failed>>
        /\ shell = "regain" /\ shell' = "prompt" /\ foreground' = Shell
    BY <1>9 DEF Regain, local
  <2>2. TerminalFollowsCalls' /\ OwnLineOnly'
    BY <1>2, <2>1 DEF IInv, TerminalFollowsCalls, OwnLineOnly
  <2> QED BY <1>2, <2>2 DEF IInv
<1>10. CASE PipeFails \/ ForkFails
  <2>1. /\ failed' /\ UNCHANGED <<is_background, foreground>>
        /\ shell = "stage" /\ shell' \in {"prompt", "stage"}
        /\ first_pid' \in {first_pid, -1} /\ failed' \in BOOLEAN
    BY <1>10 DEF PipeFails, ForkFails, kernel, local, AtStage
  <2>2. TerminalFollowsCalls' /\ OwnLineOnly'
    BY <2>1 DEF IInv, TerminalFollowsCalls, OwnLineOnly
  <2> QED BY <1>2, <2>2 DEF IInv
<1> QED BY <1>4, <1>5, <1>6, <1>7, <1>8, <1>9, <1>10

-----------------------------------------------------------------------------
(* The shell's descriptors.                                                *)

\* Between two stages the shell holds at most the read end of the pipe that the
\* next one will read from, and pipes are always given the same few numbers.
NextInput == 0..2 \cup {prev_pipe_read}
LineReads == /\ shell = "stage" /\ prev_pipe_read # 0 /\ DOMAIN fds = NextInput
             /\ command_ptr # << >> /\ Head(command_ptr).prog \notin Builtin

DInv == /\ command_ptr \in Seq(Command)
        /\ ~failed => /\ prev_pipe_read \in {0, 3, 4}
                      /\ DOMAIN fds = 0..2 \/ LineReads

\* open and pipe take the smallest number that is free.
LEMMA LowestFreeIs ==
  ASSUME NEW f, NEW d \in 0..MAX_FD, d \notin DOMAIN f, 0..d-1 \subseteq DOMAIN f
  PROVE  LowestFree(f) = d
<1> DEFINE Free(e) == e \notin DOMAIN f /\ 0..e-1 \subseteq DOMAIN f
<1>1. ASSUME NEW e \in 0..MAX_FD, Free(e) PROVE e = d
  <2>1. e \in Int /\ d \in Int /\ 0 <= e /\ 0 <= d
    BY DescriptorAssumption
  <2>2. ~(e < d)
    BY <1>1, <2>1
  <2>3. ~(d < e)
    BY <1>1, <2>1
  <2> QED BY <2>1, <2>2, <2>3
<1>2. Free(d)
  OBVIOUS
<1> HIDE DEF Free
<1>3. (CHOOSE e \in 0..MAX_FD : Free(e)) = d
  BY <1>1, <1>2
<1> QED BY <1>3 DEF LowestFree, Free

\* Where two descriptors are free, more than one is.
LEMMA OneIsNotTwo ==
  ASSUME NEW S, NEW x, S \subseteq {x}
  PROVE  ~(Cardinality(S) >= 2)
<1>1. IsFiniteSet({x}) /\ Cardinality({x}) = 1
  BY FS_Singleton
<1>2. IsFiniteSet(S) /\ Cardinality(S) <= 1
  BY <1>1, FS_Subset
<1>3. Cardinality(S) \in Nat
  BY <1>2, FS_CardinalityType
<1> QED BY <1>2, <1>3

\* The numbers of the new pipe.
LEMMA NewPipe ==
  ASSUME ~IsLast, MayPipe
  PROVE  /\ DOMAIN fds = 0..2 => pipe_fd = <<3, 4>>
         /\ DOMAIN fds = 0..2 \cup {3} => pipe_fd = <<4, 5>>
         /\ DOMAIN fds = 0..2 \cup {4} => pipe_fd = <<3, 5>>
<1>1. Cardinality(0..MAX_FD \ DOMAIN fds) >= 2
  BY DEF MayPipe
<1>2. \A r \in 0..MAX_FD : DOMAIN Open(fds, r, Disk) = DOMAIN fds \cup {r}
  BY DEF Open
<1>3. pipe_fd = <<LowestFree(fds), LowestFree(Open(fds, LowestFree(fds), Disk))>>
  BY DEF pipe_fd
<1>4. ASSUME DOMAIN fds = 0..2 PROVE pipe_fd = <<3, 4>>
  <2>1. MAX_FD >= 4
    <3> SUFFICES ASSUME ~(MAX_FD >= 4) PROVE 0..MAX_FD \ DOMAIN fds \subseteq {3}
      BY <1>1, OneIsNotTwo
    <3> QED BY <1>4, DescriptorAssumption
  <2>2. LowestFree(fds) = 3
    BY <1>4, <2>1, LowestFreeIs, DescriptorAssumption
  <2>3. DOMAIN Open(fds, 3, Disk) = 0..3 /\ 4 \in 0..MAX_FD
    BY <1>2, <1>4, <2>1, DescriptorAssumption
  <2>4. LowestFree(Open(fds, 3, Disk)) = 4
    BY <2>3, LowestFreeIs
  <2> QED BY <1>3, <2>2, <2>4
<1>5. ASSUME DOMAIN fds = 0..2 \cup {3} PROVE pipe_fd = <<4, 5>>
  <2>1. MAX_FD >= 5
    <3> SUFFICES ASSUME ~(MAX_FD >= 5) PROVE 0..MAX_FD \ DOMAIN fds \subseteq {4}
      BY <1>1, OneIsNotTwo
    <3> QED BY <1>5, DescriptorAssumption
  <2>2. LowestFree(fds) = 4
    BY <1>5, <2>1, LowestFreeIs, DescriptorAssumption
  <2>3. DOMAIN Open(fds, 4, Disk) = 0..4 /\ 5 \in 0..MAX_FD
    BY <1>2, <1>5, <2>1, DescriptorAssumption
  <2>4. LowestFree(Open(fds, 4, Disk)) = 5
    BY <2>3, LowestFreeIs
  <2> QED BY <1>3, <2>2, <2>4
<1>6. ASSUME DOMAIN fds = 0..2 \cup {4} PROVE pipe_fd = <<3, 5>>
  <2>1. MAX_FD >= 5
    <3> SUFFICES ASSUME ~(MAX_FD >= 5) PROVE 0..MAX_FD \ DOMAIN fds \subseteq {3}
      BY <1>1, OneIsNotTwo
    <3> QED BY <1>6, DescriptorAssumption
  <2>2. LowestFree(fds) = 3
    BY <1>6, <2>1, LowestFreeIs, DescriptorAssumption
  <2>3. DOMAIN Open(fds, 3, Disk) = 0..4 /\ 5 \in 0..MAX_FD
    BY <1>2, <1>6, <2>1, DescriptorAssumption
  <2>4. LowestFree(Open(fds, 3, Disk)) = 5
    BY <2>3, LowestFreeIs
  <2> QED BY <1>3, <2>2, <2>4
<1> QED BY <1>4, <1>5, <1>6

\* What a stage leaves to the next one.
LEMMA ForkDescriptors ==
  ASSUME DInv, NEW p \in Pid, Fork(p)
  PROVE  DInv'
<1>1. /\ shell = "stage" /\ shell' = "stage" /\ command_ptr # << >>
      /\ command_ptr' = Tail(command_ptr) /\ UNCHANGED failed
      /\ MayPipe /\ CloseInParent
  BY DEF Fork, AtStage
<1>2. command_ptr \in Seq(Command) /\ command_ptr' \in Seq(Command)
  BY <1>1 DEF DInv
<1>3. CASE failed
  BY <1>1, <1>2, <1>3 DEF DInv
<1>4. CASE ~failed /\ IsLast
  <2>1. fds' = CloseIf(fds, prev_pipe_read) /\ UNCHANGED prev_pipe_read
    BY <1>1, <1>4 DEF CloseInParent
  <2>2. DOMAIN fds' = IF prev_pipe_read = 0 THEN DOMAIN fds ELSE DOMAIN fds \ {prev_pipe_read}
    BY <2>1 DEF CloseIf, Close, Restrict, STDIN_FILENO
  <2>3. DOMAIN fds' = 0..2
    BY <1>4, <2>2 DEF DInv, LineReads, NextInput
  <2> QED BY <1>1, <1>2, <1>4, <2>1, <2>3 DEF DInv
<1>5. CASE ~failed /\ ~IsLast
  <2> DEFINE r == pipe_fd[1]
             w == pipe_fd[2]
  <2>1. /\ fds' = Close(CloseIf(fdsWithPipe, prev_pipe_read), w)
        /\ prev_pipe_read' = r
    BY <1>1, <1>5 DEF CloseInParent
  <2>2. DOMAIN fdsWithPipe = DOMAIN fds \cup {r, w}
    BY <1>5 DEF fdsWithPipe, Open
  <2>3. DOMAIN fds' = (DOMAIN fds \cup {r, w})
                        \ (IF prev_pipe_read = 0 THEN {w} ELSE {prev_pipe_read, w})
    BY <2>1, <2>2 DEF CloseIf, Close, Restrict, STDIN_FILENO
  <2>4. prev_pipe_read \in {0, 3, 4} /\ (DOMAIN fds = 0..2 \/ LineReads)
    BY <1>5 DEF DInv
  <2>5. r \in {3, 4} /\ (DOMAIN fds' = 0..2 \/ DOMAIN fds' = 0..2 \cup {r})
    <3>1. CASE DOMAIN fds = 0..2
      <4>1. r = 3 /\ w = 4
        BY <1>1, <1>5, <3>1, NewPipe
      <4> QED BY <2>3, <2>4, <3>1, <4>1
    <3>2. CASE LineReads
      <4>1. \/ prev_pipe_read = 3 /\ DOMAIN fds = 0..2 \cup {3}
            \/ prev_pipe_read = 4 /\ DOMAIN fds = 0..2 \cup {4}
        BY <2>4, <3>2 DEF LineReads, NextInput
      <4>2. DOMAIN fds = 0..2 \cup {3} => pipe_fd = <<4, 5>>
        BY <1>1, <1>5, NewPipe
      <4>3. DOMAIN fds = 0..2 \cup {4} => pipe_fd = <<3, 5>>
        BY <1>1, <1>5, NewPipe
      <4>4. CASE prev_pipe_read = 3
        BY <2>3, <4>1, <4>2, <4>4
      <4>5. CASE prev_pipe_read = 4
        BY <2>3, <4>1, <4>3, <4>5
      <4> QED BY <4>1, <4>4, <4>5
    <3> QED BY <2>4, <3>1, <3>2
  <2>6. 2 \in DOMAIN command_ptr /\ command_ptr[2].prog \notin Builtin
    BY <1>5 DEF IsLast
  <2>7. command_ptr' # << >> /\ Head(command_ptr') = command_ptr[2]
    <3>1. Len(command_ptr) >= 2 /\ Len(command_ptr) \in Nat
      BY <1>2, <2>6
    <3>2. Len(command_ptr') = Len(command_ptr) - 1 /\ command_ptr'[1] = command_ptr[2]
      BY <1>1, <1>2, <3>1
    <3> QED BY <1>2, <3>1, <3>2
  <2>8. DOMAIN fds' = 0..2 \/ LineReads'
    BY <1>1, <2>1, <2>5, <2>6, <2>7 DEF LineReads, NextInput
  <2> QED BY <1>2, <2>1, <2>5, <2>8 DEF DInv
<1> QED BY <1>3, <1>4, <1>5

LEMMA OtherDescriptors ==
  ASSUME DInv, [Next]_vars, \A p \in Pid : ~Fork(p)
  PROVE  DInv'
<1>1. ASSUME NEW line \in Line, Enter(line) PROVE DInv'
  <2>1. /\ shell = "prompt" /\ UNCHANGED <<fds, failed>>
        /\ command_ptr' = line.stages /\ prev_pipe_read' = 0
    BY <1>1 DEF Enter, kernel, STDIN_FILENO
  <2> QED BY <2>1, LineAssumption DEF DInv, LineReads
<1>2. CASE Skip
  <2>1. /\ UNCHANGED <<shell, prev_pipe_read, fds, failed>>
        /\ command_ptr # << >> /\ Head(command_ptr).prog \in Builtin
        /\ command_ptr' = Tail(command_ptr)
    BY <1>2 DEF Skip, kernel
  <2>2. command_ptr' \in Seq(Command)
    BY <2>1 DEF DInv
  <2> QED BY <2>1, <2>2 DEF DInv, LineReads
<1>3. CASE PipeFails \/ ForkFails
  <2>1. failed' /\ command_ptr' \in Seq(Command)
    BY <1>3 DEF PipeFails, ForkFails, local, AtStage, DInv
  <2> QED BY <2>1 DEF DInv
<1>4. CASE StagesDone
  <2>1. command_ptr = << >> /\ UNCHANGED <<command_ptr, prev_pipe_read, fds, failed>>
    BY <1>4 DEF StagesDone, local, kernel
  <2> QED BY <2>1 DEF DInv, LineReads
<1>5. ASSUME UNCHANGED <<command_ptr, prev_pipe_read, fds, failed>>,
             shell = "stage" => shell' = "stage"
      PROVE  DInv'
  BY <1>5 DEF DInv, LineReads, NextInput
<1>6. CASE GiveTerminal \/ WaitEnds \/ Regain \/ \E p \in Pid : WaitReturns(p)
  BY <1>5, <1>6 DEF GiveTerminal, WaitEnds, Regain, WaitReturns, local, kernel
<1>7. CASE \/ \E line \in Line : Exit(line)
           \/ CtrlC \/ CtrlZ \/ UNCHANGED vars
  BY <1>5, <1>7 DEF Exit, CtrlC, CtrlZ, vars, local, kernel
<1>8. CASE \E p \in Pid : ChildWorks(p) \/ CtrlD(p)
  BY <1>5, <1>8 DEF ChildWorks, CtrlD, Setup, Ends, Refused, Becomes, local
<1> QED BY <1>1, <1>2, <1>3, <1>4, <1>6, <1>7, <1>8 DEF Next, ShellWorks

-----------------------------------------------------------------------------
(* Types: descriptors stay within their bounds, pipes can be numbered.     *)

\* Opening and closing descriptors keeps a table a table.
LEMMA TablesKept ==
  ASSUME NEW f, Descriptors(f), NEW d
  PROVE  /\ Descriptors(Close(f, d))
         /\ \A file \in File : d \in 0..MAX_FD => Descriptors(Open(f, d, file))
         /\ \A e : d \in 0..MAX_FD => Descriptors(Dup2(f, e, d))
<1>1. Descriptors(Close(f, d))
  BY DEF Descriptors, Close, Restrict, Range
<1>2. ASSUME NEW file \in File, d \in 0..MAX_FD PROVE Descriptors(Open(f, d, file))
  BY <1>2 DEF Descriptors, Open, Range
<1>3. ASSUME NEW e, d \in 0..MAX_FD PROVE Descriptors(Dup2(f, e, d))
  <2>1. CASE e \in DOMAIN f
    <3>1. f[e] \in File
      BY <2>1 DEF Descriptors, Range
    <3> QED BY <1>2, <1>3, <2>1, <3>1 DEF Dup2
  <2>2. CASE e \notin DOMAIN f
    BY <2>2 DEF Dup2
  <2> QED BY <2>1, <2>2
<1> QED BY <1>1, <1>2, <1>3

\* A descriptor that is free has a smallest one below it.
LEMMA LowestFreeExists ==
  ASSUME NEW f, ~(0..MAX_FD \subseteq DOMAIN f)
  PROVE  LowestFree(f) \in 0..MAX_FD \ DOMAIN f
<1> DEFINE T == 0..MAX_FD \ DOMAIN f
<1>1. T # {} /\ T \in SUBSET Nat
  BY DescriptorAssumption
<1>2. PICK d \in T : \A e \in T : d <= e
  BY <1>1, LeastElement
<1>3. d \in 0..MAX_FD /\ d \notin DOMAIN f /\ 0..d-1 \subseteq DOMAIN f
  BY <1>2, DescriptorAssumption
<1> QED BY <1>3, LowestFreeIs

\* The two ends of a pipe get two free descriptors.
LEMMA PipeDescriptors ==
  ASSUME ~IsLast, MayPipe
  PROVE  /\ pipe_fd[1] \in 0..MAX_FD \ DOMAIN fds
         /\ pipe_fd[2] \in 0..MAX_FD \ DOMAIN fds
         /\ pipe_fd[1] # pipe_fd[2]
<1> DEFINE r == LowestFree(fds)
           w == LowestFree(Open(fds, r, Disk))
<1>1. Cardinality(0..MAX_FD \ DOMAIN fds) >= 2
  BY DEF MayPipe
<1>2. r \in 0..MAX_FD \ DOMAIN fds
  <2>1. ~(0..MAX_FD \ DOMAIN fds \subseteq {0})
    BY <1>1, OneIsNotTwo
  <2> QED BY <2>1, LowestFreeExists
<1>3. w \in 0..MAX_FD \ (DOMAIN fds \cup {r})
  <2>1. ~(0..MAX_FD \ DOMAIN fds \subseteq {r})
    BY <1>1, OneIsNotTwo
  <2>2. DOMAIN Open(fds, r, Disk) = DOMAIN fds \cup {r}
    BY DEF Open
  <2> QED BY <2>1, <2>2, LowestFreeExists
<1>4. pipe_fd = <<r, w>>
  BY DEF pipe_fd
<1> QED BY <1>2, <1>3, <1>4

\* Finitely many files are held, so a pipe has a number that none of them has.
LEMMA TableFinite ==
  ASSUME NEW f, Descriptors(f)
  PROVE  IsFiniteSet(Range(f))
<1>1. IsFiniteSet(DOMAIN f)
  <2>1. IsFiniteSet(0..MAX_FD)
    BY FS_Interval, DescriptorAssumption
  <2> QED BY <2>1, FS_Subset DEF Descriptors
<1> DEFINE g == [d \in DOMAIN f |-> f[d]]
<1>2. g \in Surjection(DOMAIN f, Range(f))
  BY DEF Surjection, Range
<1> HIDE DEF g
<1> QED BY <1>1, <1>2, FS_Surjection

LEMMA HeldFinite ==
  ASSUME Descriptors(fds), \A p \in Pid : Descriptors(proc[p].fds)
  PROVE  IsFiniteSet(Held)
<1> DEFINE L == {p \in Pid : Living(p)}
           T == {Range(proc[p].fds) : p \in L}
           g == [p \in L |-> Range(proc[p].fds)]
<1>1. IsFiniteSet(L)
  BY PidAssumption, FS_Subset
<1>2. IsFiniteSet(T)
  <2>1. g \in Surjection(L, T)
    BY DEF Surjection
  <2> HIDE DEF g, T, L
  <2> QED BY <1>1, <2>1, FS_Surjection
<1>3. \A S \in T : IsFiniteSet(S)
  BY TableFinite
<1>4. IsFiniteSet(UNION T)
  <2> HIDE DEF T
  <2> QED BY <1>2, <1>3, FS_UNION
<1>5. IsFiniteSet(Range(fds))
  BY TableFinite
<1>6. Held = Range(fds) \cup (UNION T)
  BY DEF Held
<1> HIDE DEF T
<1> QED BY <1>4, <1>5, <1>6, FS_Union

LEMMA FreshPipeIsFree ==
  ASSUME Descriptors(fds), \A p \in Pid : Descriptors(proc[p].fds)
  PROVE  /\ FreshPipe \in Pipe
         /\ <<FreshPipe, "r">> \notin Held /\ <<FreshPipe, "w">> \notin Held
<1> DEFINE n == Cardinality(Held)
           Free(k) == {<<k, "r">>, <<k, "w">>} \cap Held = {}
<1>1. IsFiniteSet(Held) /\ n \in Nat
  BY HeldFinite, FS_CardinalityType
<1>2. \E k \in 0..n : Free(k)
  <2> SUFFICES ASSUME \A k \in 0..n : ~Free(k) PROVE FALSE
    OBVIOUS
  <2> DEFINE g == [k \in 0..n |-> IF <<k, "r">> \in Held THEN <<k, "r">> ELSE <<k, "w">>]
  <2>1. g \in [0..n -> Held]
    OBVIOUS
  <2>2. \A j, k \in 0..n : g[j] = g[k] => j = k
    <3>1. \A k \in 0..n : g[k] = <<k, "r">> \/ g[k] = <<k, "w">>
      OBVIOUS
    <3>2. \A k \in 0..n : g[k][1] = k
      BY <3>1
    <3> HIDE DEF g
    <3> QED BY <3>2
  <2>3. IsFiniteSet(0..n) /\ Cardinality(0..n) = n + 1
    BY <1>1, FS_Interval
  <2> HIDE DEF g
  <2>4. \E j, k \in 0..n : j # k /\ g[j] = g[k]
    BY <1>1, <2>1, <2>3, FS_PigeonHole
  <2> QED BY <2>2, <2>4
<1>3. FreshPipe = CHOOSE k \in 0..n : Free(k)
  BY DEF FreshPipe
<1>4. FreshPipe \in 0..n /\ Free(FreshPipe)
  <2> HIDE DEF Free
  <2> QED BY <1>2, <1>3
<1> QED BY <1>1, <1>4 DEF Pipe

\* The shell's table with the new pipe.
LEMMA TableWithPipe ==
  ASSUME Descriptors(fds), \A p \in Pid : Descriptors(proc[p].fds), MayPipe
  PROVE  Descriptors(fdsWithPipe)
<1>1. CASE IsLast
  BY <1>1 DEF fdsWithPipe
<1>2. CASE ~IsLast
  <2>1. <<FreshPipe, "r">> \in File /\ <<FreshPipe, "w">> \in File
    BY FreshPipeIsFree DEF File
  <2>2. pipe_fd[1] \in 0..MAX_FD /\ pipe_fd[2] \in 0..MAX_FD
    BY <1>2, PipeDescriptors
  <2>3. Descriptors(Open(fds, pipe_fd[1], <<FreshPipe, "r">>))
    BY <2>1, <2>2, TablesKept
  <2> QED BY <1>2, <2>1, <2>2, <2>3, TablesKept DEF fdsWithPipe
<1> QED BY <1>1, <1>2

\* What a child holds when it has set itself up.
LEMMA TableSetUp ==
  ASSUME NEW r, Child(r), Descriptors(r.fds), NEW in, NEW out
  PROVE  Descriptors(Redirect(Redirect(Joined(r), STDIN_FILENO, in), STDOUT_FILENO, out))
<1>1. 0 \in 0..MAX_FD /\ 1 \in 0..MAX_FD /\ Disk \in File
  BY DescriptorAssumption DEF File
<1>2. Descriptors(JoinInput(r))
  BY <1>1, TablesKept DEF JoinInput, STDIN_FILENO
<1>3. ASSUME NEW f, Descriptors(f), f = r.fds \/ f = JoinInput(r)
      PROVE  Descriptors(JoinOutput([r EXCEPT !.fds = f]))
  <2> DEFINE s == [r EXCEPT !.fds = f]
  <2>1. s.fds = f
    BY DEF Child
  <2>2. Descriptors(Close(s.fds, s.pipe_fd[1]))
    BY <1>3, <2>1, TablesKept
  <2>3. Descriptors(Dup2(Close(s.fds, s.pipe_fd[1]), s.pipe_fd[2], 1))
    BY <1>1, <2>2, TablesKept
  <2> QED BY <2>3, TablesKept DEF JoinOutput, STDOUT_FILENO
<1>4. Descriptors(JoinOutput(r))
  <2>2. Descriptors(Close(r.fds, r.pipe_fd[1]))
    BY TablesKept
  <2>3. Descriptors(Dup2(Close(r.fds, r.pipe_fd[1]), r.pipe_fd[2], 1))
    BY <1>1, <2>2, TablesKept
  <2> QED BY <2>3, TablesKept DEF JoinOutput, STDOUT_FILENO
<1>5. Descriptors(Joined(r))
  <2>1. [r EXCEPT !.fds = JoinInput(r)].fds = JoinInput(r)
    BY DEF Child
  <2> QED BY <1>2, <1>3, <1>4, <2>1 DEF Joined
<1>6. \A f, file : \A d \in 0..1 : Descriptors(f) => Descriptors(Redirect(f, d, file))
  BY <1>1, TablesKept DEF Redirect
<1> QED BY <1>5, <1>6 DEF STDIN_FILENO, STDOUT_FILENO

-----------------------------------------------------------------------------
(* Types: every step keeps them.                                           *)

ChildType(r) ==
  /\ r.state \in {"none", "runnable", "stopped", "zombie", "reaped"}
  /\ r.stage \in {"setup", "run"}
  /\ r.group \in Pid \cup {Shell}
  /\ Descriptors(r.fds)

\* The records that a child becomes have their types.
LEMMA ChildTypes ==
  ASSUME NEW r, Child(r), ChildType(r)
  PROVE  /\ ChildType(Dies(r)) /\ ChildType(Stops(r))
         /\ \A f : Descriptors(f) => ChildType([r EXCEPT !.stage = "run", !.fds = f])
         /\ ChildType([r EXCEPT !.state = "reaped"])
         /\ ChildType([r EXCEPT !.reported = TRUE])
<1>1. Descriptors(<< >>)
  BY DEF Descriptors, Range
<1>2. ChildType(Dies(r))
  BY <1>1 DEF ChildType, Dies, NotCreated
<1>3. ChildType(Stops(r)) /\ ChildType([r EXCEPT !.state = "reaped"])
      /\ ChildType([r EXCEPT !.reported = TRUE])
  BY DEF ChildType, Child, Stops
<1>4. \A f : Descriptors(f) => ChildType([r EXCEPT !.stage = "run", !.fds = f])
  BY DEF ChildType, Child
<1> QED BY <1>2, <1>3, <1>4

\* Steps in which one child changes, or some do, and the shell does not.
LEMMA ChildrenKeepTypes ==
  ASSUME TypeOK, IInv, UNCHANGED <<shell, local, fds, failed>>,
         foreground' \in Pid \cup {Shell},
         \A p \in Pid : ChildType(proc'[p])
  PROVE  TypeOK'
BY DEF TypeOK, ChildType, local, Descriptors

LEMMA ChildStepTypes ==
  ASSUME TypeOK, IInv,
         \/ \E p \in Pid : ChildWorks(p) \/ CtrlD(p) \/ WaitReturns(p)
         \/ CtrlC \/ CtrlZ
  PROVE  TypeOK'
<1>1. /\ DOMAIN proc = Pid /\ foreground \in Pid \cup {Shell}
      /\ \A p \in Pid : Child(proc[p]) /\ ChildType(proc[p])
  BY DEF TypeOK, ChildType, IInv, Children
<1>2. ASSUME NEW p \in Pid, NEW r, ChildType(r), Becomes(p, r) PROVE TypeOK'
  <2>1. /\ UNCHANGED <<shell, local, fds, foreground, failed>>
        /\ \A q \in Pid : proc'[q] = IF q = p THEN r ELSE proc[q]
    BY <1>1, <1>2 DEF Becomes
  <2>2. \A q \in Pid : ChildType(proc'[q])
    BY <1>1, <1>2, <2>1
  <2> QED BY <1>1, <2>1, <2>2, ChildrenKeepTypes
<1>3. ASSUME NEW p \in Pid, Setup(p) PROVE TypeOK'
  <2> DEFINE f == Redirect(Redirect(Joined(proc[p]), STDIN_FILENO, proc[p].command.in),
                           STDOUT_FILENO, proc[p].command.out)
  <2>1. Becomes(p, Dies(proc[p])) \/ Becomes(p, [proc[p] EXCEPT !.stage = "run", !.fds = f])
    BY <1>3 DEF Setup
  <2>2. Descriptors(f)
    BY <1>1, TableSetUp DEF ChildType
  <2> HIDE DEF f
  <2> QED BY <1>1, <1>2, <2>1, <2>2, ChildTypes
<1>4. ASSUME NEW p \in Pid, Ends(p) \/ Refused(p) \/ CtrlD(p) PROVE TypeOK'
  <2>1. Becomes(p, Dies(proc[p])) \/ Becomes(p, Stops(proc[p]))
    BY <1>4 DEF Ends, Refused, CtrlD
  <2> QED BY <1>1, <1>2, <2>1, ChildTypes
<1>5. ASSUME NEW p \in Pid, WaitReturns(p) PROVE TypeOK'
  <2>1. /\ UNCHANGED <<shell, local, fds, foreground, failed>>
        /\ \A q \in Pid : proc'[q] = proc[q] \/ proc'[q] = [proc[q] EXCEPT !.state = "reaped"]
                          \/ proc'[q] = [proc[q] EXCEPT !.reported = TRUE]
    BY <1>1, <1>5 DEF WaitReturns
  <2>2. ASSUME NEW q \in Pid PROVE ChildType(proc'[q])
    <3>1. /\ ChildType(proc[q])
          /\ ChildType([proc[q] EXCEPT !.state = "reaped"])
          /\ ChildType([proc[q] EXCEPT !.reported = TRUE])
      BY <1>1, ChildTypes
    <3> QED BY <2>1, <3>1
  <2> QED BY <1>1, <2>1, <2>2, ChildrenKeepTypes
<1>6. CASE CtrlC \/ CtrlZ
  <2>1. /\ UNCHANGED <<shell, local, fds, foreground, failed>>
        /\ \A q \in Pid : proc'[q] = proc[q] \/ proc'[q] \in {Dies(proc[q]), Stops(proc[q])}
    BY <1>6 DEF CtrlC, CtrlZ
  <2>2. \A q \in Pid : ChildType(proc'[q])
    BY <1>1, <2>1, ChildTypes
  <2> QED BY <1>1, <2>1, <2>2, ChildrenKeepTypes
<1> QED BY <1>3, <1>4, <1>5, <1>6 DEF ChildWorks

\* fork hands the shell's table to the child.
LEMMA ForkTypes ==
  ASSUME TypeOK, IInv, NEW p \in Pid, Fork(p)
  PROVE  TypeOK'
<1>1. /\ Descriptors(fds) /\ prev_pipe_read \in 0..MAX_FD /\ command_ptr \in Seq(Command)
      /\ \A q \in Pid : ChildType(proc[q])
      /\ DOMAIN proc = Pid
  BY DEF TypeOK, ChildType, IInv, Children
<1>2. Descriptors(fdsWithPipe)
  BY <1>1, TableWithPipe DEF Fork, ChildType
<1>3. /\ shell' = shell /\ is_background' = is_background /\ foreground' = foreground
      /\ failed' = failed
      /\ command_ptr # << >> /\ command_ptr' = Tail(command_ptr)
      /\ first_pid' \in {p, first_pid} /\ CloseInParent
  BY DEF Fork, AtStage
<1>4. Descriptors(fds') /\ prev_pipe_read' \in 0..MAX_FD
  <2>1. \A f, d : Descriptors(f) => Descriptors(CloseIf(f, d))
    BY TablesKept DEF CloseIf
  <2>2. CASE IsLast
    BY <1>1, <1>3, <2>1, <2>2 DEF CloseInParent
  <2>3. CASE ~IsLast
    <3>1. pipe_fd[1] \in 0..MAX_FD
      BY <2>3, PipeDescriptors DEF Fork
    <3>2. /\ fds' = Close(CloseIf(fdsWithPipe, prev_pipe_read), pipe_fd[2])
          /\ prev_pipe_read' = pipe_fd[1]
      BY <1>3, <2>3 DEF CloseInParent
    <3> QED BY <1>2, <2>1, <3>1, <3>2, TablesKept
  <2> QED BY <2>2, <2>3
<1>5. \A q \in Pid : ChildType(proc'[q])
  <2>1. /\ \A q \in Pid \ {p} : proc'[q] = proc[q]
        /\ proc'[p].state = "runnable" /\ proc'[p].stage = "setup"
        /\ proc'[p].group = GroupOf(p) /\ proc'[p].fds = fdsWithPipe
    BY <1>1 DEF Fork
  <2>2. GroupOf(p) \in Pid \cup {Shell}
    BY DEF GroupOf, IInv, TerminalFollowsCalls
  <2>3. ChildType(proc'[p])
    BY <1>2, <2>1, <2>2 DEF ChildType
  <2> QED BY <1>1, <2>1, <2>3
<1>6. first_pid' \in Pid \cup {0, -1}
  BY <1>3 DEF TypeOK
<1>7. command_ptr' \in Seq(Command)
  BY <1>1, <1>3
<1> QED BY <1>3, <1>4, <1>5, <1>6, <1>7 DEF TypeOK, ChildType, Descriptors

LEMMA CallTypes ==
  ASSUME TypeOK, IInv,
         \/ \E line \in Line : Enter(line) \/ Exit(line)
         \/ Skip \/ StagesDone \/ GiveTerminal \/ WaitEnds \/ Regain
         \/ PipeFails \/ ForkFails
  PROVE  TypeOK'
<1>1. ASSUME UNCHANGED proc, shell' \in Call,
             command_ptr' \in Seq(Command),
             is_background' \in BOOLEAN, failed' \in BOOLEAN,
             prev_pipe_read' \in 0..MAX_FD,
             first_pid' \in Pid \cup {0, -1},
             foreground' \in Pid \cup {Shell},
             Descriptors(fds')
      PROVE  TypeOK'
  BY <1>1 DEF TypeOK, Descriptors
<1>2. /\ shell \in Call /\ command_ptr \in Seq(Command)
      /\ is_background \in BOOLEAN /\ failed \in BOOLEAN
      /\ prev_pipe_read \in 0..MAX_FD
      /\ first_pid \in Pid \cup {0, -1}
      /\ foreground \in Pid \cup {Shell}
      /\ Descriptors(fds)
  BY DEF TypeOK
<1>3. ASSUME NEW line \in Line, Enter(line) PROVE TypeOK'
  <2>1. /\ UNCHANGED <<proc, fds, foreground, failed>>
        /\ command_ptr' = line.stages /\ is_background' = line.is_background
        /\ prev_pipe_read' = 0 /\ first_pid' = 0 /\ shell' = "stage"
    BY <1>3 DEF Enter, kernel, STDIN_FILENO
  <2>2. line.stages \in Seq(Command) /\ line.is_background \in BOOLEAN
    BY LineAssumption
  <2>3. 0 \in 0..MAX_FD
    BY DescriptorAssumption
  <2> QED BY <1>1, <1>2, <2>1, <2>2, <2>3 DEF Call
<1>4. CASE (\E line \in Line : Exit(line)) \/ StagesDone \/ WaitEnds \/ PipeFails
  <2>1. /\ UNCHANGED <<command_ptr, is_background, prev_pipe_read, first_pid,
                       proc, fds, foreground>>
        /\ shell' \in Call /\ failed' \in BOOLEAN
    BY <1>2, <1>4 DEF Exit, StagesDone, WaitEnds, PipeFails, local, kernel, Call
  <2> QED BY <1>1, <1>2, <2>1
<1>5. CASE Skip
  <2>1. /\ UNCHANGED <<shell, is_background, prev_pipe_read, first_pid,
                       proc, fds, foreground, failed>>
        /\ command_ptr # << >> /\ command_ptr' = Tail(command_ptr)
    BY <1>5 DEF Skip, kernel
  <2>2. command_ptr' \in Seq(Command)
    BY <1>2, <2>1
  <2> QED BY <1>1, <1>2, <2>1, <2>2
<1>6. CASE GiveTerminal \/ Regain
  <2>1. /\ UNCHANGED <<command_ptr, is_background, prev_pipe_read, first_pid,
                       proc, fds, failed>>
        /\ shell' \in Call
    BY <1>6 DEF GiveTerminal, Regain, local, Call
  <2>2. foreground' \in Pid \cup {Shell}
    BY <1>6 DEF GiveTerminal, Regain, IInv, TerminalFollowsCalls
  <2> QED BY <1>1, <1>2, <2>1, <2>2
<1>7. CASE ForkFails
  <2>1. /\ UNCHANGED <<shell, is_background, prev_pipe_read, proc, foreground>>
        /\ fds' = fdsWithPipe /\ MayPipe /\ failed' \in BOOLEAN
        /\ first_pid' \in {first_pid, -1}
        /\ command_ptr # << >> /\ command_ptr' = Tail(command_ptr)
    BY <1>7 DEF ForkFails, AtStage
  <2>2. command_ptr' \in Seq(Command)
    BY <1>2, <2>1
  <2>3. Descriptors(fds')
    BY <1>2, <2>1, TableWithPipe DEF TypeOK
  <2> QED BY <1>1, <1>2, <2>1, <2>2, <2>3
<1> QED BY <1>3, <1>4, <1>5, <1>6, <1>7

-----------------------------------------------------------------------------
(* Who holds the ends of the pipes.                                        *)

\* The shell holds the read end of the pipe that the next stage reads from.
Reads == prev_pipe_read # 0 /\ prev_pipe_read \in DOMAIN fds

\* The pipes that are left are next to each other; once the last of them has been
\* made, prev_pipe_read is the number of a closed descriptor and none is left.
PipesLeft ==
  /\ OnePipeline(command_ptr)
  /\ prev_pipe_read # 0 => Pipes(command_ptr) = {} \/ 1 \in Pipes(command_ptr)
  /\ prev_pipe_read # 0 /\ ~Reads => Pipes(command_ptr) = {}

Standard(f) == 0..2 \subseteq DOMAIN f /\ \A d \in 0..2 : f[d] = Terminal

\* What a stage reads from and writes to, now or once it has set itself up.
Input(r) == IF r.stage = "setup" /\ r.prev # 0 /\ r.prev \in DOMAIN r.fds
              THEN r.fds[r.prev] ELSE r.fds[0]
Output(r) == IF r.stage = "setup" /\ ~r.is_last THEN r.fds[r.pipe_fd[2]] ELSE r.fds[1]

\* The descriptors of a child that has still to set itself up.
ToSetUp(r) ==
  /\ Standard(r.fds)
  /\ r.prev \in {0, 3, 4}
  /\ IF r.is_last
       THEN DOMAIN r.fds \subseteq 0..2 \cup {r.prev}
       ELSE /\ r.pipe_fd[1] \in 3..5 /\ r.pipe_fd[2] \in 3..5
            /\ r.pipe_fd[1] # r.pipe_fd[2]
            /\ r.prev \notin {r.pipe_fd[1], r.pipe_fd[2]}
            /\ DOMAIN r.fds = 0..2 \cup {r.prev, r.pipe_fd[1], r.pipe_fd[2]}

Shape(r) ==
  /\ {"prev", "pipe_fd", "is_last"} \subseteq DOMAIN r
  /\ IF r.stage = "setup" THEN ToSetUp(r) ELSE DOMAIN r.fds = 0..2
  /\ Input(r) \in {Terminal, Disk} \cup (Pipe \X {"r"})
  /\ Output(r) \in {Terminal, Disk} \cup (Pipe \X {"w"})
  /\ IsPipe(Output(r)) => ~r.is_last

Created(p) == proc[p].state # "none"
LastCreated(p) == Created(p) /\ \A q \in Pid : p < q => ~Created(q)

\* Children are created in the order of their pids.
InOrder == \A p, q \in Pid : q < p /\ Created(p) => Created(q)

\* A pipe joins a stage to the one that follows, and to no other.
PipesJoin ==
  \A p, q \in Pid :
    Living(p) /\ Living(q) /\ IsPipe(Output(proc[p])) /\ IsPipe(Input(proc[q]))
    => (Output(proc[p])[1] = Input(proc[q])[1] <=> Feeds(p, q))

\* The pipe that the shell has in its hands is the output of the last stage that
\* it created, and of no other.
NextPipe ==
  Reads =>
    \A p \in Pid :
      /\ LastCreated(p) => proc[p].group = first_pid
      /\ Living(p) /\ IsPipe(Input(proc[p])) =>
           Input(proc[p])[1] # fds[prev_pipe_read][1]
      /\ Living(p) /\ IsPipe(Output(proc[p])) =>
           (Output(proc[p])[1] = fds[prev_pipe_read][1] <=> LastCreated(p))

PInv == /\ InOrder
        /\ ~failed => /\ PipesLeft
                      /\ Standard(fds)
                      /\ Reads => fds[prev_pipe_read] \in Pipe \X {"r"}
                      /\ \A p \in Pid : Living(p) => Shape(proc[p])
                      /\ PipesJoin
                      /\ NextPipe

-----------------------------------------------------------------------------
(* The stages that are left.                                               *)

\* The pipes of the stages but the first.
LEMMA PipesOfTail ==
  ASSUME NEW s \in Seq(Command), s # << >>
  PROVE  Pipes(Tail(s)) = {k \in Nat \ {0} : k + 1 \in Pipes(s)}
<1>1. Len(s) \in Nat \ {0} /\ DOMAIN s = 1..Len(s)
  BY EmptySeq, LenProperties
<1>2. DOMAIN Tail(s) = 1..Len(s) - 1 /\ \A k \in 1..Len(s) - 1 : Tail(s)[k] = s[k + 1]
  BY HeadTailProperties
<1>3. \A k : k \in Pipes(Tail(s)) <=>
               /\ k \in 1..Len(s) - 1 /\ k + 1 \in 1..Len(s) - 1
               /\ s[k + 1].prog \notin Builtin /\ s[k + 1 + 1].prog \notin Builtin
  BY <1>1, <1>2 DEF Pipes
<1>4. \A k \in Nat \ {0} : k + 1 \in Pipes(s) <=>
               /\ k + 1 \in 1..Len(s) /\ k + 1 + 1 \in 1..Len(s)
               /\ s[k + 1].prog \notin Builtin /\ s[k + 1 + 1].prog \notin Builtin
  BY <1>1 DEF Pipes
<1>5. \A k \in Nat \ {0} : /\ k + 1 \in 1..Len(s) <=> k \in 1..Len(s) - 1
                           /\ k + 1 + 1 \in 1..Len(s) <=> k + 1 \in 1..Len(s) - 1
  BY <1>1
<1>6. \A k : k \in 1..Len(s) - 1 => k \in Nat \ {0}
  BY <1>1
<1> QED BY <1>3, <1>4, <1>5, <1>6

\* One pipeline stays one, and is begun at its first stage.
LEMMA OnePipelineTail ==
  ASSUME NEW s \in Seq(Command), s # << >>, OnePipeline(s)
  PROVE  /\ OnePipeline(Tail(s))
         /\ Pipes(s) = {} => Pipes(Tail(s)) = {}
         /\ 1 \in Pipes(s) => Pipes(Tail(s)) = {} \/ 1 \in Pipes(Tail(s))
<1>1. \A k : k \in Pipes(Tail(s)) <=> k \in Nat \ {0} /\ k + 1 \in Pipes(s)
  BY PipesOfTail
<1>2. OnePipeline(Tail(s))
  <2> SUFFICES ASSUME NEW i \in Pipes(Tail(s)), NEW j \in Pipes(Tail(s)), NEW k \in i..j
               PROVE  k \in Pipes(Tail(s))
    BY DEF OnePipeline
  <2>1. i \in Nat \ {0} /\ j \in Nat \ {0} /\ i + 1 \in Pipes(s) /\ j + 1 \in Pipes(s)
    BY <1>1
  <2>2. k \in Nat \ {0} /\ k + 1 \in i + 1..j + 1
    BY <2>1
  <2>3. k + 1 \in Pipes(s)
    BY <2>1, <2>2 DEF OnePipeline
  <2> QED BY <1>1, <2>2, <2>3
<1>3. ASSUME 1 \in Pipes(s), NEW j \in Pipes(Tail(s)) PROVE 1 \in Pipes(Tail(s))
  <2>1. j \in Nat \ {0} /\ j + 1 \in Pipes(s)
    BY <1>1
  <2>2. 2 \in 1..j + 1
    BY <2>1
  <2>3. 2 \in Pipes(s)
    BY <1>3, <2>1, <2>2 DEF OnePipeline
  <2> QED BY <1>1, <2>3
<1>4. Pipes(s) = {} => Pipes(Tail(s)) = {}
  BY <1>1
<1> QED BY <1>2, <1>3, <1>4

\* A stage that is not the last of its pipeline is the first of a pipe.
LEMMA LastStage ==
  ASSUME command_ptr \in Seq(Command), command_ptr # << >>
  PROVE  /\ Head(command_ptr).prog \notin Builtin =>
              (IsLast <=> 1 \notin Pipes(command_ptr))
         /\ Head(command_ptr).prog \in Builtin => 1 \notin Pipes(command_ptr)
<1>1. Len(command_ptr) \in Nat \ {0} /\ DOMAIN command_ptr = 1..Len(command_ptr)
      /\ Head(command_ptr) = command_ptr[1]
  BY EmptySeq, LenProperties
<1>2. 1 \in DOMAIN command_ptr /\ 1 + 1 = 2
  BY <1>1
<1>3. 1 \in Pipes(command_ptr) <=> /\ 2 \in DOMAIN command_ptr
                                   /\ command_ptr[1].prog \notin Builtin
                                   /\ command_ptr[2].prog \notin Builtin
  BY <1>2 DEF Pipes
<1> QED BY <1>1, <1>3 DEF IsLast

-----------------------------------------------------------------------------
(* Files.                                                                  *)

LEMMA Files ==
  /\ ~IsPipe(Terminal) /\ ~IsPipe(Disk)
  /\ \A n \in Pipe : /\ IsPipe(<<n, "r">>) /\ <<n, "r">>[1] = n /\ <<n, "r">>[2] = "r"
                     /\ IsPipe(<<n, "w">>) /\ <<n, "w">>[1] = n /\ <<n, "w">>[2] = "w"
BY DEF IsPipe, Terminal, Disk

\* The pipes of a stage.
LEMMA PipesOfStage ==
  ASSUME NEW r, Shape(r)
  PROVE  /\ IsPipe(Input(r)) => \E n \in Pipe : Input(r) = <<n, "r">>
         /\ IsPipe(Output(r)) => \E n \in Pipe : Output(r) = <<n, "w">>
BY Files DEF Shape

\* What a stage reads and writes is open in it.
LEMMA StageHolds ==
  ASSUME NEW r, Shape(r)
  PROVE  Input(r) \in Range(r.fds) /\ Output(r) \in Range(r.fds)
<1>1. 0 \in DOMAIN r.fds /\ 1 \in DOMAIN r.fds
  BY DEF Shape, ToSetUp, Standard
<1>2. r.stage = "setup" /\ ~r.is_last => r.pipe_fd[2] \in DOMAIN r.fds
  BY DEF Shape, ToSetUp
<1> QED BY <1>1, <1>2 DEF Input, Output, Range

\* What the child that sets itself up has then: its input, its output, and the
\* terminal for its errors.
LEMMA JoinedIs ==
  ASSUME NEW r, Child(r), Shape(r), r.stage = "setup"
  PROVE  /\ DOMAIN Joined(r) = 0..2
         /\ Joined(r)[0] = Input(r) /\ Joined(r)[1] = Output(r)
<1> DEFINE in == IF r.prev = STDIN_FILENO THEN r ELSE [r EXCEPT !.fds = JoinInput(r)]
<1>1. /\ 0..2 \subseteq DOMAIN r.fds /\ r.prev \in {0, 3, 4}
  BY DEF Shape, ToSetUp, Standard
<1>2. /\ in.pipe_fd = r.pipe_fd
      /\ r.prev = 0 => in.fds = r.fds
      /\ r.prev # 0 => in.fds = JoinInput(r)
  BY DEF Child, Shape, STDIN_FILENO
<1>3. /\ DOMAIN in.fds = DOMAIN r.fds \ (IF r.prev = 0 THEN {} ELSE {r.prev})
      /\ in.fds[0] = Input(r)
      /\ \A d \in DOMAIN in.fds \ {0} : in.fds[d] = r.fds[d]
  <2>1. CASE r.prev = 0
    BY <1>2, <2>1 DEF Input
  <2>2. CASE r.prev # 0 /\ r.prev \in DOMAIN r.fds
    <3>1. JoinInput(r) = Close(Open(r.fds, 0, r.fds[r.prev]), r.prev)
      BY <2>2 DEF JoinInput, Dup2, STDIN_FILENO
    <3>2. /\ DOMAIN JoinInput(r) = DOMAIN r.fds \ {r.prev}
          /\ JoinInput(r)[0] = r.fds[r.prev]
          /\ \A d \in DOMAIN JoinInput(r) \ {0} : JoinInput(r)[d] = r.fds[d]
      BY <1>1, <2>2, <3>1 DEF Close, Open, Restrict
    <3> QED BY <1>2, <2>2, <3>2 DEF Input
  <2>3. CASE r.prev # 0 /\ r.prev \notin DOMAIN r.fds
    <3>1. JoinInput(r) = Close(r.fds, r.prev)
      BY <2>3 DEF JoinInput, Dup2
    <3>2. /\ DOMAIN JoinInput(r) = DOMAIN r.fds \ {r.prev}
          /\ JoinInput(r)[0] = r.fds[0]
          /\ \A d \in DOMAIN JoinInput(r) \ {0} : JoinInput(r)[d] = r.fds[d]
      BY <1>1, <2>3, <3>1 DEF Close, Restrict
    <3> QED BY <1>2, <2>3, <3>2 DEF Input
  <2> QED BY <2>1, <2>2, <2>3
<1> HIDE DEF in
<1>4. CASE r.is_last
  <2>1. Joined(r) = in.fds
    BY <1>4 DEF Joined, in
  <2>2. DOMAIN r.fds \subseteq 0..2 \cup {r.prev}
    BY <1>4 DEF Shape, ToSetUp
  <2>3. DOMAIN in.fds = 0..2
    BY <1>1, <1>3, <2>2
  <2>4. in.fds[1] = r.fds[1]
    BY <1>3, <2>3
  <2> QED BY <1>3, <1>4, <2>1, <2>3, <2>4 DEF Output
<1>5. CASE ~r.is_last
  <2> DEFINE a == r.pipe_fd[1]
             b == r.pipe_fd[2]
             f == Close(in.fds, a)
             g == Dup2(f, b, 1)
  <2>1. Joined(r) = Close(g, b)
    BY <1>2, <1>5 DEF Joined, in, JoinOutput, STDOUT_FILENO
  <2>2. /\ a \in 3..5 /\ b \in 3..5 /\ a # b /\ r.prev \notin {a, b}
        /\ DOMAIN r.fds = 0..2 \cup {r.prev, a, b}
    BY <1>5 DEF Shape, ToSetUp
  <2> HIDE DEF a, b
  <2>3. DOMAIN in.fds = 0..2 \cup {a, b}
    BY <1>1, <1>3, <2>2
  <2>4. /\ DOMAIN f = 0..2 \cup {b} /\ f[0] = Input(r) /\ f[b] = r.fds[b]
    BY <1>3, <2>2, <2>3 DEF Close, Restrict
  <2> HIDE DEF f
  <2>5. DOMAIN g = 0..2 \cup {b} /\ g[0] = Input(r) /\ g[1] = r.fds[b]
    BY <2>2, <2>4 DEF Dup2, Open
  <2> HIDE DEF g
  <2>6. /\ DOMAIN Close(g, b) = 0..2
        /\ Close(g, b)[0] = g[0] /\ Close(g, b)[1] = g[1]
    BY <2>2, <2>5 DEF Close, Restrict
  <2>7. Output(r) = r.fds[b]
    BY <1>5 DEF Output, b
  <2> QED BY <2>1, <2>5, <2>6, <2>7
<1> QED BY <1>4, <1>5

\* A stage later: its files are those that it had or were to have, or have been
\* redirected.
Later(r, s) == /\ s.group = r.group /\ s.is_last = r.is_last
               /\ Input(s) \in {Input(r), Disk} /\ Output(s) \in {Output(r), Disk}
               /\ Shape(s)

LEMMA SetUpShape ==
  ASSUME NEW r, Child(r), Shape(r), r.stage = "setup", NEW in, NEW out
  PROVE  Later(r, [r EXCEPT !.stage = "run",
                            !.fds = Redirect(Redirect(Joined(r), STDIN_FILENO, in),
                                             STDOUT_FILENO, out)])
<1> DEFINE f == Redirect(Joined(r), 0, in)
           g == Redirect(f, 1, out)
           s == [r EXCEPT !.stage = "run", !.fds = g]
<1>1. /\ DOMAIN f = 0..2
      /\ f[0] \in {Input(r), Disk} /\ f[1] = Output(r)
  BY JoinedIs DEF Redirect, Open
<1> HIDE DEF f
<1>2. /\ DOMAIN g = 0..2
      /\ g[0] \in {Input(r), Disk} /\ g[1] \in {Output(r), Disk}
  BY <1>1 DEF Redirect, Open
<1> HIDE DEF g
<1>3. /\ s.stage = "run" /\ s.fds = g /\ s.group = r.group /\ s.is_last = r.is_last
      /\ {"prev", "pipe_fd", "is_last"} \subseteq DOMAIN s
  BY DEF Child, Shape
<1> HIDE DEF s
<1>4. Input(s) = g[0] /\ Output(s) = g[1]
  BY <1>3 DEF Input, Output
<1>5. Shape(s)
  BY <1>2, <1>3, <1>4, Files DEF Shape
<1>6. Later(r, s)
  BY <1>2, <1>3, <1>4, <1>5 DEF Later
<1> QED BY <1>6 DEF s, g, f, STDIN_FILENO, STDOUT_FILENO

\* The fields that a stage's files depend on.
LEMMA SameShape ==
  ASSUME NEW r, NEW s, Shape(r),
         {"prev", "pipe_fd", "is_last"} \subseteq DOMAIN s,
         s.stage = r.stage, s.fds = r.fds, s.prev = r.prev,
         s.pipe_fd = r.pipe_fd, s.is_last = r.is_last, s.group = r.group
  PROVE  Later(r, s)
BY DEF Later, Shape, ToSetUp, Input, Output

-----------------------------------------------------------------------------
(* Steps of the children.                                                  *)

\* Children that move keep to their files, or end.
LEMMA PipesMove ==
  ASSUME PInv, UNCHANGED <<command_ptr, prev_pipe_read, first_pid, fds, failed>>,
         \A p \in Pid : /\ Created(p)' <=> Created(p)
                        /\ proc'[p].group = proc[p].group
                        /\ Living(p)' => Living(p) /\ (~failed => Later(proc[p], proc'[p]))
  PROVE  PInv'
<1>1. InOrder'
  BY DEF PInv, InOrder
<1> SUFFICES ASSUME ~failed
             PROVE  /\ PipesLeft' /\ Standard(fds)'
                    /\ (Reads => fds[prev_pipe_read] \in Pipe \X {"r"})'
                    /\ (\A p \in Pid : Living(p) => Shape(proc[p]))'
                    /\ PipesJoin' /\ NextPipe'
  BY <1>1 DEF PInv
<1>2. /\ PipesLeft' /\ Standard(fds)' /\ (Reads' <=> Reads)
      /\ (Reads => fds[prev_pipe_read] \in Pipe \X {"r"})'
  BY DEF PInv, PipesLeft, Reads, Standard
<1>3. \A p \in Pid : Living(p)' =>
        /\ Living(p) /\ Shape(proc'[p]) /\ proc'[p].is_last = proc[p].is_last
        /\ IsPipe(Input(proc'[p])) => Input(proc'[p]) = Input(proc[p])
        /\ IsPipe(Output(proc'[p])) => Output(proc'[p]) = Output(proc[p])
  BY Files DEF Later
<1>4. PipesJoin'
  <2> SUFFICES ASSUME NEW p \in Pid, NEW q \in Pid, Living(p)', Living(q)',
                      IsPipe(Output(proc'[p])), IsPipe(Input(proc'[q]))
               PROVE  Output(proc'[p])[1] = Input(proc'[q])[1] <=> Feeds(p, q)'
    BY DEF PipesJoin
  <2>1. Feeds(p, q)' <=> Feeds(p, q)
    BY <1>3 DEF Feeds
  <2>2. /\ Living(p) /\ Living(q)
        /\ Output(proc'[p]) = Output(proc[p]) /\ Input(proc'[q]) = Input(proc[q])
    BY <1>3
  <2> QED BY <2>1, <2>2 DEF PInv, PipesJoin
<1>5. NextPipe'
  <2> SUFFICES ASSUME Reads', NEW p \in Pid
               PROVE  /\ LastCreated(p)' => proc'[p].group = first_pid'
                      /\ Living(p)' /\ IsPipe(Input(proc'[p])) =>
                           Input(proc'[p])[1] # fds'[prev_pipe_read'][1]
                      /\ Living(p)' /\ IsPipe(Output(proc'[p])) =>
                           (Output(proc'[p])[1] = fds'[prev_pipe_read'][1]
                              <=> LastCreated(p)')
    BY DEF NextPipe
  <2>1. LastCreated(p)' <=> LastCreated(p)
    BY DEF LastCreated
  <2>2. /\ LastCreated(p) => proc[p].group = first_pid
        /\ Living(p) /\ IsPipe(Input(proc[p])) =>
             Input(proc[p])[1] # fds[prev_pipe_read][1]
        /\ Living(p) /\ IsPipe(Output(proc[p])) =>
             (Output(proc[p])[1] = fds[prev_pipe_read][1] <=> LastCreated(p))
    BY <1>2 DEF PInv, NextPipe
  <2> QED BY <1>3, <2>1, <2>2
<1> QED BY <1>2, <1>3, <1>4, <1>5

\* What a child becomes that ends or stops.
LEMMA DeadOrStopped ==
  ASSUME NEW r, Child(r), r.state # "none"
  PROVE  /\ Dies(r).state = "zombie" /\ Dies(r).group = r.group
         /\ Stops(r).state = "stopped" /\ Stops(r).group = r.group
         /\ Shape(r) => Later(r, Stops(r))
<1>1. /\ Dies(r).state = "zombie" /\ Dies(r).group = r.group
      /\ Stops(r).state = "stopped" /\ Stops(r).group = r.group
  BY DEF Dies, Stops, NotCreated, Child
<1>2. ASSUME Shape(r) PROVE Later(r, Stops(r))
  <2>1. {"prev", "pipe_fd", "is_last"} \subseteq DOMAIN r
    BY <1>2 DEF Shape
  <2>2. /\ {"prev", "pipe_fd", "is_last"} \subseteq DOMAIN Stops(r)
        /\ Stops(r).stage = r.stage /\ Stops(r).fds = r.fds /\ Stops(r).prev = r.prev
        /\ Stops(r).pipe_fd = r.pipe_fd /\ Stops(r).is_last = r.is_last
    BY <2>1 DEF Stops, Child
  <2> QED BY <1>1, <1>2, <2>2, SameShape
<1> QED BY <1>1, <1>2

LEMMA ChildPipes ==
  ASSUME PInv, IInv,
         \/ \E p \in Pid : ChildWorks(p) \/ CtrlD(p) \/ WaitReturns(p)
         \/ CtrlC \/ CtrlZ
  PROVE  PInv'
<1>1. /\ DOMAIN proc = Pid
      /\ \A p \in Pid : Child(proc[p])
      /\ ~failed => \A p \in Pid : Living(p) => Shape(proc[p])
  BY DEF IInv, Children, PInv
<1> DEFINE Moves(p) == /\ Created(p)' <=> Created(p)
                       /\ proc'[p].group = proc[p].group
                       /\ Living(p)' => Living(p) /\ (~failed => Later(proc[p], proc'[p]))
<1>2. \A p \in Pid : proc'[p] = proc[p] => Moves(p)
  <2> SUFFICES ASSUME NEW p \in Pid, proc'[p] = proc[p] PROVE Moves(p)
    OBVIOUS
  <2>1. ~failed /\ Living(p) => Later(proc[p], proc[p])
    BY <1>1 DEF Later
  <2> QED BY <2>1 DEF Created, Living
<1>3. \A p \in Pid : Created(p) /\ proc'[p] = Dies(proc[p]) => Moves(p)
  BY <1>1, DeadOrStopped DEF Created, Living
<1>4. \A p \in Pid : Living(p) /\ proc'[p] = Stops(proc[p]) => Moves(p)
  BY <1>1, DeadOrStopped DEF Created, Living
<1>5. ASSUME NEW p \in Pid, NEW r, Becomes(p, r), proc'[p] = r => Moves(p) PROVE PInv'
  <2>1. \A q \in Pid : proc'[q] = IF q = p THEN r ELSE proc[q]
    BY <1>1, <1>5 DEF Becomes
  <2>2. UNCHANGED <<command_ptr, prev_pipe_read, first_pid, fds, failed>>
    BY <1>5 DEF Becomes, local
  <2>3. \A q \in Pid : Moves(q)
    BY <1>2, <1>5, <2>1
  <2> QED BY <2>2, <2>3, PipesMove
<1>6. ASSUME NEW p \in Pid, Setup(p) PROVE PInv'
  <2> DEFINE s == [proc[p] EXCEPT !.stage = "run",
                     !.fds = Redirect(Redirect(Joined(proc[p]), STDIN_FILENO, proc[p].command.in),
                                      STDOUT_FILENO, proc[p].command.out)]
  <2>1. /\ proc[p].state = "runnable" /\ proc[p].stage = "setup"
        /\ Becomes(p, Dies(proc[p])) \/ Becomes(p, s)
    BY <1>6 DEF Setup
  <2>2. s.state = "runnable" /\ s.group = proc[p].group
    BY <1>1, <2>1 DEF Child
  <2>3. ~failed => Later(proc[p], s)
    BY <1>1, <2>1, SetUpShape DEF Living
  <2> HIDE DEF s
  <2>4. proc'[p] = s => Moves(p)
    BY <2>1, <2>2, <2>3 DEF Created, Living
  <2>5. proc'[p] = Dies(proc[p]) => Moves(p)
    BY <1>3, <2>1 DEF Created
  <2> HIDE DEF Moves
  <2> QED BY <1>5, <2>1, <2>4, <2>5
<1>7. ASSUME NEW p \in Pid, Ends(p) \/ Refused(p) \/ CtrlD(p) PROVE PInv'
  <2>1. /\ proc[p].state = "runnable"
        /\ Becomes(p, Dies(proc[p])) \/ Becomes(p, Stops(proc[p]))
    BY <1>7 DEF Ends, Refused, CtrlD, ReadsTerminal, Runs
  <2>2. /\ proc'[p] = Dies(proc[p]) => Moves(p)
        /\ proc'[p] = Stops(proc[p]) => Moves(p)
    BY <1>3, <1>4, <2>1 DEF Created, Living
  <2> HIDE DEF Moves
  <2> QED BY <1>5, <2>1, <2>2
<1>8. ASSUME NEW p \in Pid, WaitReturns(p) PROVE PInv'
  <2> DEFINE r == IF proc[p].state = "zombie" THEN [proc[p] EXCEPT !.state = "reaped"]
                  ELSE [proc[p] EXCEPT !.reported = TRUE]
  <2>1. /\ proc[p].state \in {"zombie", "stopped"}
        /\ Becomes(p, r)
    BY <1>8 DEF WaitReturns, Waitable, Becomes
  <2>2. CASE proc[p].state = "zombie"
    <3>1. r.state = "reaped" /\ r.group = proc[p].group
      BY <1>1, <2>2 DEF Child
    <3> HIDE DEF r
    <3>2. proc'[p] = r => Moves(p)
      BY <2>2, <3>1 DEF Created, Living
    <3> HIDE DEF Moves
    <3> QED BY <1>5, <2>1, <3>2
  <2>3. CASE proc[p].state = "stopped"
    <3>1. r.state = "stopped" /\ r.group = proc[p].group
      BY <1>1, <2>3 DEF Child
    <3>2. ASSUME ~failed PROVE Later(proc[p], r)
      <4>1. Shape(proc[p])
        BY <1>1, <2>3, <3>2 DEF Living
      <4>2. {"prev", "pipe_fd", "is_last"} \subseteq DOMAIN proc[p]
        BY <4>1 DEF Shape
      <4>3. /\ {"prev", "pipe_fd", "is_last"} \subseteq DOMAIN r
            /\ r.stage = proc[p].stage /\ r.fds = proc[p].fds /\ r.prev = proc[p].prev
            /\ r.pipe_fd = proc[p].pipe_fd /\ r.is_last = proc[p].is_last
        BY <1>1, <2>3, <4>2 DEF Child
      <4> HIDE DEF r
      <4> QED BY <3>1, <4>1, <4>3, SameShape
    <3> HIDE DEF r
    <3>3. proc'[p] = r => Moves(p)
      BY <2>3, <3>1, <3>2 DEF Created, Living
    <3> HIDE DEF Moves
    <3> QED BY <1>5, <2>1, <3>3
  <2> QED BY <2>1, <2>2, <2>3
<1>9. CASE CtrlC \/ CtrlZ
  <2>1. /\ UNCHANGED <<command_ptr, prev_pipe_read, first_pid, fds, failed>>
        /\ \A p \in Pid : \/ proc'[p] = proc[p]
                          \/ /\ proc[p].state = "runnable"
                             /\ proc'[p] \in {Dies(proc[p]), Stops(proc[p])}
    BY <1>9 DEF CtrlC, CtrlZ, local
  <2>2. \A p \in Pid : proc[p].state = "runnable" => Created(p) /\ Living(p)
    BY DEF Created, Living
  <2>3. \A p \in Pid : Moves(p)
    <3> HIDE DEF Moves
    <3> QED BY <1>2, <1>3, <1>4, <2>1, <2>2
  <2> QED BY <2>1, <2>3, PipesMove
<1> QED BY <1>6, <1>7, <1>8, <1>9 DEF ChildWorks

-----------------------------------------------------------------------------
(* Steps of the shell.                                                     *)

\* A step that changes no child and no descriptor.
LEMMA SamePipes ==
  ASSUME PInv, UNCHANGED <<proc, fds, failed>>,
         ~failed => /\ PipesLeft'
                    /\ UNCHANGED <<prev_pipe_read, first_pid>> \/ prev_pipe_read' = 0
  PROVE  PInv'
<1>1. InOrder'
  BY DEF PInv, InOrder, Created
<1> SUFFICES ASSUME ~failed
             PROVE  /\ PipesLeft' /\ Standard(fds)'
                    /\ (Reads => fds[prev_pipe_read] \in Pipe \X {"r"})'
                    /\ (\A p \in Pid : Living(p) => Shape(proc[p]))'
                    /\ PipesJoin' /\ NextPipe'
  BY <1>1 DEF PInv
<1>2. /\ Standard(fds)' /\ (\A p \in Pid : Living(p) => Shape(proc[p]))' /\ PipesJoin'
  BY DEF PInv, Standard, PipesJoin, Living, Feeds
<1>3. /\ (Reads => fds[prev_pipe_read] \in Pipe \X {"r"})' /\ NextPipe'
  <2>1. CASE prev_pipe_read' = 0
    BY <2>1 DEF Reads, NextPipe
  <2>2. CASE UNCHANGED <<prev_pipe_read, first_pid>>
    BY <2>2 DEF PInv, Reads, NextPipe, Living, LastCreated, Created
  <2> QED BY <2>1, <2>2
<1> QED BY <1>2, <1>3

LEMMA CallPipes ==
  ASSUME PInv, DInv, \A line \in Line : OnePipeline(line.stages),
         \/ \E line \in Line : Enter(line) \/ Exit(line)
         \/ Skip \/ StagesDone \/ GiveTerminal \/ WaitEnds \/ Regain
         \/ PipeFails \/ ForkFails \/ UNCHANGED vars
  PROVE  PInv'
<1>1. ASSUME NEW line \in Line, Enter(line) PROVE PInv'
  <2>1. /\ UNCHANGED <<proc, fds, failed>> /\ prev_pipe_read' = 0
        /\ command_ptr' = line.stages
    BY <1>1 DEF Enter, kernel, STDIN_FILENO
  <2>2. PipesLeft'
    BY <2>1 DEF PipesLeft
  <2> QED BY <2>1, <2>2, SamePipes
<1>2. CASE Skip
  <2>1. /\ UNCHANGED <<prev_pipe_read, first_pid, proc, fds, failed>>
        /\ command_ptr # << >> /\ Head(command_ptr).prog \in Builtin
        /\ command_ptr' = Tail(command_ptr)
    BY <1>2 DEF Skip, kernel
  <2>2. ASSUME ~failed PROVE PipesLeft'
    <3>1. PipesLeft /\ command_ptr \in Seq(Command)
      BY <2>2 DEF PInv, DInv
    <3>2. 1 \notin Pipes(command_ptr)
      BY <2>1, <3>1, LastStage
    <3>3. /\ OnePipeline(command_ptr')
          /\ Pipes(command_ptr) = {} => Pipes(command_ptr') = {}
      BY <2>1, <3>1, OnePipelineTail DEF PipesLeft
    <3> QED BY <2>1, <3>1, <3>2, <3>3 DEF PipesLeft
  <2> QED BY <2>1, <2>2, SamePipes
<1>3. CASE PipeFails \/ ForkFails
  BY <1>3 DEF PipeFails, ForkFails, PInv, InOrder, Created, kernel
<1>4. CASE \/ \E line \in Line : Exit(line)
           \/ StagesDone \/ GiveTerminal \/ WaitEnds \/ Regain \/ UNCHANGED vars
  <2>1. UNCHANGED <<command_ptr, prev_pipe_read, first_pid, proc, fds, failed>>
    BY <1>4 DEF Exit, StagesDone, GiveTerminal, WaitEnds, Regain, vars, local, kernel
  <2>2. ~failed => PipesLeft'
    BY <2>1 DEF PInv, PipesLeft, Reads
  <2> QED BY <2>1, <2>2, SamePipes
<1> QED BY <1>1, <1>2, <1>3, <1>4

\* What living stages and the shell have in their hands is held.
LEMMA HeldEnds ==
  ASSUME PInv, ~failed
  PROVE  /\ Reads => fds[prev_pipe_read] \in Held
         /\ \A p \in Pid : Living(p) => /\ Input(proc[p]) \in Held
                                        /\ Output(proc[p]) \in Held
<1>1. Reads => fds[prev_pipe_read] \in Held
  BY DEF Reads, Held, Range
<1>2. ASSUME NEW p \in Pid, Living(p)
      PROVE  Input(proc[p]) \in Held /\ Output(proc[p]) \in Held
  <2>1. Range(proc[p].fds) \subseteq Held
    BY <1>2 DEF Held
  <2>2. Shape(proc[p])
    BY <1>2 DEF PInv
  <2> QED BY <2>1, <2>2, StageHolds
<1> QED BY <1>1, <1>2

\* The table that the child of a stage starts with, and the one that is left to the
\* shell, when a pipe follows.
LEMMA NewPipeTables ==
  ASSUME PInv, DInv, TypeOK, ~failed, AtStage, MayPipe, ~IsLast
  PROVE  /\ prev_pipe_read = 0 \/ Reads
         /\ prev_pipe_read \in {0, 3, 4}
         /\ pipe_fd[1] \in 3..5 /\ pipe_fd[2] \in 3..5 /\ pipe_fd[1] # pipe_fd[2]
         /\ prev_pipe_read \notin {pipe_fd[1], pipe_fd[2]}
         /\ DOMAIN fdsWithPipe = 0..2 \cup {prev_pipe_read, pipe_fd[1], pipe_fd[2]}
         /\ fdsWithPipe[pipe_fd[1]] = <<FreshPipe, "r">>
         /\ fdsWithPipe[pipe_fd[2]] = <<FreshPipe, "w">>
         /\ \A d \in 0..2 \cup {prev_pipe_read} : fdsWithPipe[d] = fds[d]
<1>1. /\ command_ptr \in Seq(Command) /\ command_ptr # << >>
      /\ Head(command_ptr).prog \notin Builtin
      /\ prev_pipe_read \in {0, 3, 4}
      /\ DOMAIN fds = 0..2 \/ LineReads
  BY DEF AtStage, DInv
<1>2. 1 \in Pipes(command_ptr)
  BY <1>1, LastStage
<1>3. prev_pipe_read = 0 \/ Reads
  BY <1>2 DEF PInv, PipesLeft
<1>4. \/ prev_pipe_read = 0 /\ DOMAIN fds = 0..2 /\ pipe_fd = <<3, 4>>
      \/ prev_pipe_read = 3 /\ DOMAIN fds = 0..2 \cup {3} /\ pipe_fd = <<4, 5>>
      \/ prev_pipe_read = 4 /\ DOMAIN fds = 0..2 \cup {4} /\ pipe_fd = <<3, 5>>
  <2>1. CASE prev_pipe_read = 0
    <3>1. DOMAIN fds = 0..2
      BY <1>1, <2>1 DEF LineReads
    <3> QED BY <2>1, <3>1, NewPipe
  <2>2. CASE prev_pipe_read # 0
    <3>1. prev_pipe_read \in DOMAIN fds
      BY <1>3, <2>2 DEF Reads
    <3>2. DOMAIN fds = 0..2 \cup {prev_pipe_read}
      BY <1>1, <2>2, <3>1 DEF LineReads, NextInput
    <3>3. CASE prev_pipe_read = 3
      <4>1. DOMAIN fds = 0..2 \cup {3}
        BY <3>2, <3>3
      <4> QED BY <3>3, <4>1, NewPipe
    <3>4. CASE prev_pipe_read = 4
      <4>1. DOMAIN fds = 0..2 \cup {4}
        BY <3>2, <3>4
      <4> QED BY <3>4, <4>1, NewPipe
    <3> QED BY <1>1, <2>2, <3>3, <3>4
  <2> QED BY <2>1, <2>2
<1>5. /\ pipe_fd[1] \in 3..5 /\ pipe_fd[2] \in 3..5 /\ pipe_fd[1] # pipe_fd[2]
      /\ prev_pipe_read \notin {pipe_fd[1], pipe_fd[2]}
      /\ DOMAIN fds = 0..2 \cup {prev_pipe_read}
  <2>1. CASE prev_pipe_read = 0 /\ DOMAIN fds = 0..2 /\ pipe_fd = <<3, 4>>
    BY <2>1
  <2>2. CASE prev_pipe_read = 3 /\ DOMAIN fds = 0..2 \cup {3} /\ pipe_fd = <<4, 5>>
    BY <2>2
  <2>3. CASE prev_pipe_read = 4 /\ DOMAIN fds = 0..2 \cup {4} /\ pipe_fd = <<3, 5>>
    BY <2>3
  <2> QED BY <1>4, <2>1, <2>2, <2>3
<1>6. fdsWithPipe = Open(Open(fds, pipe_fd[1], <<FreshPipe, "r">>),
                         pipe_fd[2], <<FreshPipe, "w">>)
  BY DEF fdsWithPipe
<1>7. /\ DOMAIN fdsWithPipe = DOMAIN fds \cup {pipe_fd[1], pipe_fd[2]}
      /\ fdsWithPipe[pipe_fd[1]] = <<FreshPipe, "r">>
      /\ fdsWithPipe[pipe_fd[2]] = <<FreshPipe, "w">>
      /\ \A d \in DOMAIN fds : d \notin {pipe_fd[1], pipe_fd[2]} => fdsWithPipe[d] = fds[d]
  BY <1>5, <1>6 DEF Open
<1>8. \A d \in 0..2 \cup {prev_pipe_read} :
        d \in DOMAIN fds /\ d \notin {pipe_fd[1], pipe_fd[2]}
  BY <1>5
<1>9. DOMAIN fdsWithPipe = 0..2 \cup {prev_pipe_read, pipe_fd[1], pipe_fd[2]}
  BY <1>5, <1>7
<1>10. \A d \in 0..2 \cup {prev_pipe_read} : fdsWithPipe[d] = fds[d]
  BY <1>7, <1>8
<1> QED BY <1>1, <1>3, <1>5, <1>7, <1>9, <1>10

\* The child of a stage: it reads from the pipe that the shell had in its hands, and
\* writes to the new one if another stage follows.
LEMMA ForkedStage ==
  ASSUME PInv, DInv, TypeOK, ~failed, NEW p \in Pid, Fork(p), DOMAIN proc = Pid
  PROVE  LET r == proc'[p]
         IN  /\ Shape(r) /\ r.is_last = IsLast
             /\ Input(r) = IF Reads THEN fds[prev_pipe_read] ELSE Terminal
             /\ Output(r) = IF IsLast THEN Terminal ELSE <<FreshPipe, "w">>
<1> DEFINE r == proc'[p]
<1>1. /\ r.stage = "setup" /\ r.fds = fdsWithPipe /\ r.prev = prev_pipe_read
      /\ r.pipe_fd = pipe_fd /\ r.is_last = IsLast
      /\ {"prev", "pipe_fd", "is_last"} \subseteq DOMAIN r
      /\ AtStage /\ MayPipe
  BY DEF Fork
<1> HIDE DEF r
<1>2. /\ Standard(fds) /\ prev_pipe_read \in {0, 3, 4}
      /\ DOMAIN fds = 0..2 \/ DOMAIN fds = NextInput
      /\ Reads => fds[prev_pipe_read] \in Pipe \X {"r"}
  BY DEF PInv, DInv, LineReads
<1>3. FreshPipe \in Pipe
  BY FreshPipeIsFree DEF TypeOK
<1>4. CASE IsLast
  <2>1. r.fds = fds /\ r.is_last
    BY <1>1, <1>4 DEF fdsWithPipe
  <2>2. ToSetUp(r)
    BY <1>1, <1>2, <2>1 DEF ToSetUp, NextInput
  <2>3. Input(r) = IF Reads THEN fds[prev_pipe_read] ELSE Terminal
    BY <1>1, <1>2, <2>1 DEF Input, Reads, Standard
  <2>4. Output(r) = Terminal
    BY <1>2, <2>1 DEF Output, Standard
  <2>5. Shape(r)
    BY <1>1, <1>2, <2>2, <2>3, <2>4, Files DEF Shape
  <2> QED BY <1>1, <1>4, <2>3, <2>4, <2>5 DEF r
<1>5. CASE ~IsLast
  <2>1. /\ prev_pipe_read = 0 \/ Reads
        /\ pipe_fd[1] \in 3..5 /\ pipe_fd[2] \in 3..5 /\ pipe_fd[1] # pipe_fd[2]
        /\ prev_pipe_read \notin {pipe_fd[1], pipe_fd[2]}
        /\ DOMAIN fdsWithPipe = 0..2 \cup {prev_pipe_read, pipe_fd[1], pipe_fd[2]}
        /\ fdsWithPipe[pipe_fd[2]] = <<FreshPipe, "w">>
        /\ \A d \in 0..2 \cup {prev_pipe_read} : fdsWithPipe[d] = fds[d]
    BY <1>1, <1>5, NewPipeTables
  <2>2. ~r.is_last
    BY <1>1, <1>5
  <2>3. Standard(r.fds)
    BY <1>1, <1>2, <2>1 DEF Standard
  <2>4. ToSetUp(r)
    BY <1>1, <1>2, <2>1, <2>2, <2>3 DEF ToSetUp
  <2>5. Input(r) = IF Reads THEN fds[prev_pipe_read] ELSE Terminal
    BY <1>1, <1>2, <2>1 DEF Input, Reads, Standard
  <2>6. Output(r) = <<FreshPipe, "w">>
    BY <1>1, <2>1, <2>2 DEF Output
  <2>7. Shape(r)
    BY <1>1, <1>2, <1>3, <2>2, <2>4, <2>5, <2>6, Files DEF Shape
  <2> QED BY <1>1, <1>5, <2>5, <2>6, <2>7 DEF r
<1> QED BY <1>4, <1>5

\* What the shell keeps: the read end of the new pipe, or nothing.
LEMMA ForkedShell ==
  ASSUME PInv, DInv, TypeOK, ~failed, NEW p \in Pid, Fork(p)
  PROVE  /\ Standard(fds)'
         /\ IsLast => UNCHANGED prev_pipe_read /\ ~Reads'
         /\ ~IsLast => Reads' /\ fds'[prev_pipe_read'] = <<FreshPipe, "r">>
<1>1. AtStage /\ MayPipe /\ CloseInParent
  BY DEF Fork
<1>2. Standard(fds) /\ prev_pipe_read \in {0, 3, 4}
  BY DEF PInv, DInv
<1>3. CASE IsLast
  <2>1. fds' = CloseIf(fds, prev_pipe_read) /\ UNCHANGED prev_pipe_read
    BY <1>1, <1>3 DEF CloseInParent
  <2>2. CASE prev_pipe_read = 0
    BY <1>2, <1>3, <2>1, <2>2 DEF CloseIf, STDIN_FILENO, Reads, Standard
  <2>3. CASE prev_pipe_read # 0
    <3>1. fds' = Close(fds, prev_pipe_read)
      BY <2>1, <2>3 DEF CloseIf, STDIN_FILENO
    <3>2. /\ DOMAIN fds' = DOMAIN fds \ {prev_pipe_read}
          /\ \A d \in DOMAIN fds' : fds'[d] = fds[d]
      BY <3>1 DEF Close, Restrict
    <3> QED BY <1>2, <1>3, <2>1, <2>3, <3>2 DEF Reads, Standard
  <2> QED BY <2>2, <2>3
<1>4. CASE ~IsLast
  <2> DEFINE f == CloseIf(fdsWithPipe, prev_pipe_read)
  <2>1. /\ fds' = Close(f, pipe_fd[2])
        /\ prev_pipe_read' = pipe_fd[1]
    BY <1>1, <1>4 DEF CloseInParent
  <2>2. /\ pipe_fd[1] \in 3..5 /\ pipe_fd[2] \in 3..5 /\ pipe_fd[1] # pipe_fd[2]
        /\ prev_pipe_read \notin {pipe_fd[1], pipe_fd[2]}
        /\ DOMAIN fdsWithPipe = 0..2 \cup {prev_pipe_read, pipe_fd[1], pipe_fd[2]}
        /\ fdsWithPipe[pipe_fd[1]] = <<FreshPipe, "r">>
        /\ \A d \in 0..2 \cup {prev_pipe_read} : fdsWithPipe[d] = fds[d]
    BY <1>1, <1>4, NewPipeTables
  <2>3. /\ 0..2 \cup {pipe_fd[1], pipe_fd[2]} \subseteq DOMAIN f
        /\ \A d \in 0..2 : f[d] = fds[d]
        /\ f[pipe_fd[1]] = <<FreshPipe, "r">>
    <3>1. CASE prev_pipe_read = 0
      BY <2>2, <3>1 DEF CloseIf, STDIN_FILENO
    <3>2. CASE prev_pipe_read # 0
      <4>1. f = Close(fdsWithPipe, prev_pipe_read)
        BY <3>2 DEF CloseIf, STDIN_FILENO
      <4> HIDE DEF f
      <4>2. /\ DOMAIN f = DOMAIN fdsWithPipe \ {prev_pipe_read}
            /\ \A d \in DOMAIN f : f[d] = fdsWithPipe[d]
        BY <4>1 DEF Close, Restrict
      <4>3. prev_pipe_read \notin 0..2 \cup {pipe_fd[1], pipe_fd[2]}
        BY <1>2, <2>2, <3>2
      <4> QED BY <2>2, <4>2, <4>3
    <3> QED BY <3>1, <3>2
  <2> HIDE DEF f
  <2>4. /\ DOMAIN fds' = DOMAIN f \ {pipe_fd[2]}
        /\ \A d \in DOMAIN fds' : fds'[d] = f[d]
    BY <2>1 DEF Close, Restrict
  <2>5. 0..2 \cup {pipe_fd[1]} \subseteq DOMAIN fds'
    BY <2>2, <2>3, <2>4
  <2>6. Standard(fds)'
    BY <1>2, <2>3, <2>4, <2>5 DEF Standard
  <2>7. Reads' /\ fds'[prev_pipe_read'] = <<FreshPipe, "r">>
    BY <2>1, <2>2, <2>3, <2>4, <2>5 DEF Reads
  <2> QED BY <1>4, <2>6, <2>7
<1> QED BY <1>3, <1>4

\* The stages that are left after a fork.
LEMMA ForkedLine ==
  ASSUME PInv, DInv, TypeOK, ~failed, NEW p \in Pid, Fork(p)
  PROVE  PipesLeft'
<1>1. /\ command_ptr \in Seq(Command) /\ command_ptr # << >>
      /\ Head(command_ptr).prog \notin Builtin
      /\ command_ptr' = Tail(command_ptr)
      /\ PipesLeft
  BY DEF Fork, AtStage, DInv, PInv
<1>2. /\ OnePipeline(command_ptr')
      /\ Pipes(command_ptr) = {} => Pipes(command_ptr') = {}
      /\ 1 \in Pipes(command_ptr) => Pipes(command_ptr') = {} \/ 1 \in Pipes(command_ptr')
  BY <1>1, OnePipelineTail DEF PipesLeft
<1>3. IsLast <=> 1 \notin Pipes(command_ptr)
  BY <1>1, LastStage
<1>4. /\ IsLast => UNCHANGED prev_pipe_read
      /\ ~IsLast => Reads'
  BY ForkedShell
<1> QED BY <1>1, <1>2, <1>3, <1>4 DEF PipesLeft, Reads

LEMMA ForkPipes ==
  ASSUME PInv, DInv, TypeOK, IInv, NEW p \in Pid, Fork(p)
  PROVE  PInv'
<1>1. /\ DOMAIN proc = Pid
      /\ ~Created(p) /\ \A q \in Pid : q < p => Created(q)
      /\ \A q \in Pid \ {p} : proc'[q] = proc[q]
      /\ proc'[p].state = "runnable" /\ proc'[p].group = GroupOf(p)
      /\ first_pid' = IF first_pid = 0 THEN p ELSE first_pid
      /\ UNCHANGED failed
  BY DEF Fork, IInv, Children, Created
<1>2. /\ \A q \in Pid \ {p} : (Created(q)' <=> Created(q)) /\ (Living(q)' <=> Living(q))
      /\ Created(p)' /\ Living(p)' /\ ~Living(p)
  BY <1>1 DEF Created, Living
<1>3. Pid \subseteq Int
  BY PidAssumption
<1>4. \A q \in Pid : Created(q) => q < p
  BY <1>1, <1>3 DEF PInv, InOrder
<1>5. InOrder'
  BY <1>1, <1>2, <1>3, <1>4 DEF InOrder
<1> SUFFICES ASSUME ~failed
             PROVE  /\ PipesLeft' /\ Standard(fds)'
                    /\ (Reads => fds[prev_pipe_read] \in Pipe \X {"r"})'
                    /\ (\A q \in Pid : Living(q) => Shape(proc[q]))'
                    /\ PipesJoin' /\ NextPipe'
  BY <1>1, <1>5 DEF PInv
<1> DEFINE k == FreshPipe
<1>6. k \in Pipe /\ <<k, "r">> \notin Held /\ <<k, "w">> \notin Held
  BY FreshPipeIsFree DEF TypeOK
<1>7. /\ Shape(proc'[p]) /\ proc'[p].is_last = IsLast
      /\ Input(proc'[p]) = IF Reads THEN fds[prev_pipe_read] ELSE Terminal
      /\ Output(proc'[p]) = IF IsLast THEN Terminal ELSE <<k, "w">>
  BY <1>1, ForkedStage
<1>8. /\ Standard(fds)'
      /\ IsLast => ~Reads'
      /\ ~IsLast => Reads' /\ fds'[prev_pipe_read'] = <<k, "r">>
  BY ForkedShell
<1>9. PipesLeft'
  BY ForkedLine
<1>10. GroupOf(p) = first_pid'
  <2>1. first_pid # -1
    BY DEF IInv, TerminalFollowsCalls
  <2> QED BY <1>1, <2>1 DEF GroupOf
<1> HIDE DEF k
<1>11. \A q \in Pid \ {p} : Living(q) =>
         /\ Shape(proc[q])
         /\ IsPipe(Input(proc[q])) => Input(proc[q])[1] # k
         /\ IsPipe(Output(proc[q])) => Output(proc[q])[1] # k
  <2> SUFFICES ASSUME NEW q \in Pid \ {p}, Living(q)
               PROVE  /\ Shape(proc[q])
                      /\ IsPipe(Input(proc[q])) => Input(proc[q])[1] # k
                      /\ IsPipe(Output(proc[q])) => Output(proc[q])[1] # k
    OBVIOUS
  <2>1. Shape(proc[q])
    BY DEF PInv
  <2>2. Input(proc[q]) \in Held /\ Output(proc[q]) \in Held
    BY HeldEnds
  <2>3. IsPipe(Input(proc[q])) => \E n \in Pipe : Input(proc[q]) = <<n, "r">>
    BY <2>1, PipesOfStage
  <2>4. IsPipe(Output(proc[q])) => \E n \in Pipe : Output(proc[q]) = <<n, "w">>
    BY <2>1, PipesOfStage
  <2> QED BY <1>6, <2>1, <2>2, <2>3, <2>4, Files
<1>12. Reads => /\ fds[prev_pipe_read][1] # k
                /\ \E n \in Pipe : fds[prev_pipe_read] = <<n, "r">>
  <2>1. Reads => fds[prev_pipe_read] \in Held
    BY HeldEnds
  <2>2. Reads => \E n \in Pipe : fds[prev_pipe_read] = <<n, "r">>
    BY DEF PInv
  <2> QED BY <1>6, <2>1, <2>2
<1>13. PipesJoin'
  <2> SUFFICES ASSUME NEW q \in Pid, NEW s \in Pid, Living(q)', Living(s)',
                      IsPipe(Output(proc'[q])), IsPipe(Input(proc'[s]))
               PROVE  Output(proc'[q])[1] = Input(proc'[s])[1] <=> Feeds(q, s)'
    BY DEF PipesJoin
  <2>1. CASE q # p /\ s # p
    <3>1. /\ proc'[q] = proc[q] /\ proc'[s] = proc[s] /\ Living(q) /\ Living(s)
      BY <1>1, <1>2, <2>1
    <3>2. Feeds(q, s)' <=> Feeds(q, s)
      BY <3>1 DEF Feeds
    <3> QED BY <3>1, <3>2 DEF PInv, PipesJoin
  <2>2. CASE q # p /\ s = p
    <3>1. proc'[q] = proc[q] /\ Living(q) /\ Created(q)
      BY <1>1, <1>2, <2>2 DEF Living, Created
    <3>2. Reads /\ Input(proc'[p]) = fds[prev_pipe_read]
      BY <1>7, <2>2, Files
    <3>3. Output(proc[q])[1] = fds[prev_pipe_read][1] <=> LastCreated(q)
      BY <3>1, <3>2 DEF PInv, NextPipe
    <3>4. LastCreated(q) => proc[q].group = first_pid
      BY <3>2 DEF PInv, NextPipe
    <3>5. LastCreated(q) <=> q < p /\ \A t \in Pid : ~(q < t /\ t < p)
      <4>1. ASSUME LastCreated(q) PROVE q < p /\ \A t \in Pid : ~(q < t /\ t < p)
        BY <1>1, <1>4, <4>1 DEF LastCreated
      <4>2. ASSUME q < p, \A t \in Pid : ~(q < t /\ t < p) PROVE LastCreated(q)
        BY <1>3, <1>4, <3>1, <4>2 DEF LastCreated
      <4> QED BY <4>1, <4>2
    <3>6. ~proc[q].is_last
      BY <1>11, <2>2, <3>1 DEF Shape
    <3>7. LastCreated(q) => first_pid # 0
      <4>1. proc[q].group # Shell /\ proc[q].group \in Pid \cup {Shell}
        BY <3>1 DEF IInv, OwnLineOnly, Children, Child, Created
      <4>2. 0 \notin Pid
        BY PidAssumption
      <4> QED BY <3>4, <4>1, <4>2
    <3>8. Feeds(q, p)' <=> /\ q < p /\ \A t \in Pid : ~(q < t /\ t < p)
                           /\ first_pid' = proc[q].group
      BY <1>1, <1>10, <3>1, <3>6 DEF Feeds
    <3>9. LastCreated(q) => first_pid' = proc[q].group
      BY <1>1, <3>4, <3>7
    <3> QED BY <2>2, <3>1, <3>2, <3>3, <3>5, <3>8, <3>9
  <2>3. CASE q = p
    <3>1. Output(proc'[p])[1] = k
      BY <1>6, <1>7, <2>3, Files
    <3>2. Input(proc'[s])[1] # k
      <4>1. CASE s = p
        BY <1>7, <1>12, <4>1, Files
      <4>2. CASE s # p
        BY <1>1, <1>2, <1>11, <4>2
      <4> QED BY <4>1, <4>2
    <3>3. ~(p < s)
      <4>1. s = p \/ Created(s)
        BY <1>2 DEF Living, Created
      <4> QED BY <1>3, <1>4, <4>1
    <3> QED BY <2>3, <3>1, <3>2, <3>3 DEF Feeds
  <2> QED BY <2>1, <2>2, <2>3
<1>14. NextPipe'
  <2> SUFFICES ASSUME Reads', NEW q \in Pid
               PROVE  /\ LastCreated(q)' => proc'[q].group = first_pid'
                      /\ Living(q)' /\ IsPipe(Input(proc'[q])) =>
                           Input(proc'[q])[1] # fds'[prev_pipe_read'][1]
                      /\ Living(q)' /\ IsPipe(Output(proc'[q])) =>
                           (Output(proc'[q])[1] = fds'[prev_pipe_read'][1]
                              <=> LastCreated(q)')
    BY DEF NextPipe
  <2>1. ~IsLast /\ fds'[prev_pipe_read'][1] = k
    BY <1>6, <1>8, Files
  <2>2. LastCreated(q)' <=> q = p
    <3>1. LastCreated(p)'
      BY <1>1, <1>2, <1>3, <1>4 DEF LastCreated
    <3>2. q # p => ~LastCreated(q)'
      BY <1>2, <1>4 DEF LastCreated
    <3> QED BY <3>1, <3>2
  <2>3. CASE q = p
    <3>1. Output(proc'[p]) = <<k, "w">>
      BY <1>7, <2>1
    <3>2. IsPipe(Input(proc'[p])) => Input(proc'[p])[1] # k
      BY <1>7, <1>12, Files
    <3> QED BY <1>1, <1>6, <1>10, <2>1, <2>2, <2>3, <3>1, <3>2, Files
  <2>4. CASE q # p
    BY <1>1, <1>2, <1>11, <2>1, <2>2, <2>4
  <2> QED BY <2>3, <2>4
<1>15. (\A q \in Pid : Living(q) => Shape(proc[q]))'
  BY <1>1, <1>2, <1>7, <1>11
<1>16. (Reads => fds[prev_pipe_read] \in Pipe \X {"r"})'
  BY <1>6, <1>8
<1> QED BY <1>8, <1>9, <1>13, <1>14, <1>15, <1>16

-----------------------------------------------------------------------------
(* The theorems.                                                           *)

\* The inductive invariant of the pipelines holds in every state.
THEOREM PipelineInvariant == Spec => []IInv
<1>1. Init => IInv
  <2> SUFFICES ASSUME Init PROVE IInv
    OBVIOUS
  <2>1. Children
    BY DEF Init, Children, Child, NotCreated
  <2>2. TerminalFollowsCalls
    <3>1. /\ shell = "prompt" /\ foreground = Shell /\ first_pid = 0
          /\ is_background = FALSE /\ failed = FALSE
      BY DEF Init
    <3>2. first_pid # -1 /\ first_pid \in Pid \cup {0, -1}
      BY <3>1
    <3>3. is_background \in BOOLEAN /\ failed \in BOOLEAN
      BY <3>1
    <3> QED BY <3>1, <3>2, <3>3 DEF TerminalFollowsCalls
  <2>3. OwnLineOnly
    BY DEF Init, OwnLineOnly, NotCreated
  <2> QED BY <2>1, <2>2, <2>3 DEF IInv
<1>2. IInv /\ [Next]_vars => IInv'
  <2> SUFFICES ASSUME IInv, [Next]_vars PROVE IInv'
    OBVIOUS
  <2>1. CASE UNCHANGED vars
    BY <2>1, ChildrenMove DEF vars, kernel, IInv, Children
  <2>2. ASSUME NEW p \in Pid, Fork(p) \/ WaitReturns(p) PROVE IInv'
    BY <2>2, ForkStep, WaitStep
  <2> QED BY <2>1, <2>2, CallStep, ChildStep DEF Next, ShellWorks
<1> QED BY <1>1, <1>2, PTL DEF Spec

\* Whenever the shell prompts it owns the terminal, and no child that lives is
\* in the shell's group, unless a fork has failed (utils.c:318 and 389).
THEOREM TerminalOwned == Spec => []PromptOwnsTerminal
<1>1. IInv => PromptOwnsTerminal
  BY DEF IInv, TerminalFollowsCalls, OwnLineOnly, PromptOwnsTerminal, Living
<1> QED BY <1>1, PipelineInvariant, PTL

\* When the prompt returns every stage of every foreground line was reaped
\* (utils.c:309).
THEOREM ForegroundReaped == Spec => []ForegroundIsDone
<1>1. IInv => ForegroundIsDone
  BY DEF IInv, OwnLineOnly, ForegroundIsDone
<1> QED BY <1>1, PipelineInvariant, PTL

\* However long the session, no line leaves a descriptor open in the shell, as
\* long as pipe and fork succeed (the parent's closes at utils.c:397 and 402).
THEOREM NothingLeftOpen == Spec => []NoDescriptorLeft
<1>1. Init => DInv
  BY DEF Init, DInv, STDIN_FILENO
<1>2. DInv /\ [Next]_vars => DInv'
  BY ForkDescriptors, OtherDescriptors
<1>3. DInv => NoDescriptorLeft
  BY DEF DInv, LineReads, NoDescriptorLeft
<1> QED BY <1>1, <1>2, <1>3, PTL DEF Spec

\* Every variable has its type, whatever fails.
THEOREM PipelineTypes == Spec => []TypeOK
<1>1. Init => TypeOK
  <2> SUFFICES ASSUME Init PROVE TypeOK
    OBVIOUS
  <2>1. shell \in Call /\ command_ptr \in Seq(Command)
        /\ is_background \in BOOLEAN /\ failed \in BOOLEAN
    <3>1. command_ptr = << >> /\ shell = "prompt" /\ is_background = FALSE /\ failed = FALSE
      BY DEF Init
    <3>2. << >> \in Seq(Command)
      OBVIOUS
    <3>3. "prompt" \in Call
      BY DEF Call
    <3>4. is_background \in BOOLEAN /\ failed \in BOOLEAN
      BY <3>1
    <3> QED BY <3>1, <3>2, <3>3, <3>4
  <2>2. prev_pipe_read \in 0..MAX_FD /\ first_pid \in Pid \cup {0, -1}
        /\ foreground \in Pid \cup {Shell}
    BY DescriptorAssumption DEF Init, STDIN_FILENO
  <2>3. Descriptors(fds)
    BY DescriptorAssumption DEF Init, Descriptors, Range, File
  <2>4. Descriptors(<< >>)
    BY DEF Descriptors, Range
  <2>5. \A p \in Pid : ChildType(proc[p])
    BY <2>4 DEF Init, NotCreated, ChildType
  <2> QED BY <2>1, <2>2, <2>3, <2>5 DEF TypeOK, ChildType
<1>2. TypeOK /\ IInv /\ [Next]_vars => TypeOK'
  <2> SUFFICES ASSUME TypeOK, IInv, [Next]_vars PROVE TypeOK'
    OBVIOUS
  <2>1. CASE UNCHANGED vars
    BY <2>1 DEF TypeOK, vars, local, kernel, Descriptors
  <2>2. ASSUME NEW p \in Pid, Fork(p) PROVE TypeOK'
    BY <2>2, ForkTypes
  <2> QED BY <2>1, <2>2, CallTypes, ChildStepTypes DEF Next, ShellWorks
<1> QED BY <1>1, <1>2, PipelineInvariant, PTL DEF Spec

\* In a session of lines that have one pipeline each, a stage that runs holds no
\* descriptor but its three, a pipe joins it to the stage that follows and to no
\* other, and the shell that waits holds none (utils.c:351, 396 and 400).
THEOREM PipesJoinNeighbours ==
  ASSUME \A line \in Line : OnePipeline(line.stages)
  PROVE  Spec => []PipeJoinsNeighbours
<1>1. Init => PInv
  <2> SUFFICES ASSUME Init PROVE PInv
    OBVIOUS
  <2>1. \A p \in Pid : ~Created(p) /\ ~Living(p)
    BY DEF Init, NotCreated, Created, Living
  <2>2. Pipes(command_ptr) = {} /\ prev_pipe_read = 0
    BY DEF Init, Pipes, STDIN_FILENO
  <2>3. PipesLeft
    BY <2>2 DEF PipesLeft, OnePipeline
  <2>4. Standard(fds)
    BY DEF Init, Standard
  <2> QED BY <2>1, <2>2, <2>3, <2>4 DEF PInv, InOrder, PipesJoin, NextPipe, Reads
<1>2. Init => DInv
  BY DEF Init, DInv, STDIN_FILENO
<1>3. DInv /\ [Next]_vars => DInv'
  BY ForkDescriptors, OtherDescriptors
<1>4. PInv /\ DInv /\ TypeOK /\ IInv /\ [Next]_vars => PInv'
  <2> SUFFICES ASSUME PInv, DInv, TypeOK, IInv, [Next]_vars PROVE PInv'
    OBVIOUS
  <2>1. ASSUME NEW p \in Pid, Fork(p) PROVE PInv'
    BY <2>1, ForkPipes
  <2> QED BY <2>1, CallPipes, ChildPipes DEF Next, ShellWorks
<1>5. PInv /\ DInv /\ IInv => PipeJoinsNeighbours
  <2> SUFFICES ASSUME PInv, DInv, IInv, ~failed PROVE PipeJoinsNeighbours
    BY DEF PipeJoinsNeighbours
  <2>1. ASSUME NEW p \in Pid, Runs(p)
        PROVE  /\ Living(p) /\ DOMAIN proc[p].fds = 0..2
               /\ Stdin(p) = Input(proc[p]) /\ Stdout(p) = Output(proc[p])
               /\ IsPipe(Stdout(p)) => Stdout(p)[2] = "w" /\ ~proc[p].is_last
               /\ IsPipe(Stdin(p)) => Stdin(p)[2] = "r"
    <3>1. Living(p) /\ proc[p].stage = "run"
      BY <2>1 DEF Runs, Living
    <3>2. Shape(proc[p])
      BY <3>1 DEF PInv
    <3>3. /\ DOMAIN proc[p].fds = 0..2
          /\ Stdin(p) = Input(proc[p]) /\ Stdout(p) = Output(proc[p])
      BY <3>1, <3>2 DEF Shape, Stdin, Stdout, Input, Output, STDIN_FILENO, STDOUT_FILENO
    <3>4. /\ IsPipe(Stdout(p)) => Stdout(p)[2] = "w"
          /\ IsPipe(Stdin(p)) => Stdin(p)[2] = "r"
      BY <3>2, <3>3, PipesOfStage, Files
    <3>5. IsPipe(Stdout(p)) => ~proc[p].is_last
      BY <3>2, <3>3 DEF Shape
    <3> QED BY <3>1, <3>3, <3>4, <3>5
  <2>2. ASSUME NEW p \in Pid, NEW q \in Pid, Runs(p), Runs(q),
               IsPipe(Stdout(p)), IsPipe(Stdin(q))
        PROVE  Stdout(p)[1] = Stdin(q)[1] <=> Feeds(p, q)
    BY <2>1, <2>2 DEF PInv, PipesJoin
  <2>3. shell \in {"give", "wait"} => \A d \in DOMAIN fds : ~IsPipe(fds[d])
    BY Files DEF PInv, DInv, LineReads, Standard
  <2> QED BY <2>1, <2>2, <2>3 DEF PipeJoinsNeighbours
<1> QED BY <1>1, <1>2, <1>3, <1>4, <1>5, PipelineInvariant, PipelineTypes, PTL DEF Spec

\* "connects the stdout of one command to the stdin of the next command"
\* (bareshell's technical.md:72), in a line of one pipeline.
THEOREM OutputReachesNext ==
  ASSUME \A line \in Line : OnePipeline(line.stages)
  PROVE  Spec => []OutputGoesToNext
<1>1. PipeJoinsNeighbours => OutputGoesToNext
  <2> SUFFICES ASSUME PipeJoinsNeighbours, ~failed, NEW p \in Pid, NEW q \in Pid,
                      Runs(p), Runs(q), IsPipe(Stdout(p)), Stdin(q) = <<Stdout(p)[1], "r">>
               PROVE  Feeds(p, q)
    BY DEF OutputGoesToNext
  <2>1. IsPipe(Stdin(q)) /\ Stdin(q)[1] = Stdout(p)[1]
    BY DEF IsPipe
  <2> QED BY <2>1 DEF PipeJoinsNeighbours
<1> QED BY <1>1, PipesJoinNeighbours, PTL
=============================================================================
