-------------------------- MODULE JobControl_proofs --------------------------
(***************************************************************************)
(* Proofs about JobControl, for every set of pids and every size of the    *)
(* table.  Liveness (CommandReturns) is left to the model checker.         *)
(***************************************************************************)
EXTENDS JobControl, TLAPS

-----------------------------------------------------------------------------
(* The inductive invariant.                                                *)

\* What holds of a child whatever the shell does: a child that was not forked
\* is as fork will find it, a dead one knows how it died, bvm does not block
\* SIGUSR1, and a running child has taken every signal it does not block.
Sound(r) ==
  /\ r \in Process
  /\ r.state = "none" => r = NotCreated
  /\ r.status = "none" <=> r.state \notin {"zombie", "reaped"}
  /\ r.stage \in {"loop", "step", "repl"} => ~r.blocked
  /\ r.state = "runnable" /\ ~r.blocked => r.pending = {}

ProcessesSound == \A p \in Pid : Sound(proc[p])

\* The shell's calls: whose terminal it is, and what the child it works on is.
CallsInOrder ==
  /\ shell = "prompt" <=> pid = NoPid
  /\ shell \in {"wait", "regain"} => foreground = pid
  /\ shell \notin {"wait", "regain"} => foreground = Shell
  /\ shell = "submit" => proc[pid].state \in {"runnable", "stopped"}
  /\ shell = "regain" => proc[pid].state \in {"stopped", "reaped"}

\* The table has a job for a pid at most once, and for the one that is run.
TableOfChildren ==
  /\ \A k \in 1..Len(job_table) :
       /\ proc[job_table[k].pid].state # "none"
       /\ shell = "submit" => job_table[k].pid # pid
  /\ \A j, k \in 1..Len(job_table) : job_table[j].pid = job_table[k].pid => j = k
  /\ shell \in {"resume", "give", "wait", "regain"}
       => \E k \in 1..Len(job_table) : job_table[k].pid = pid
  /\ shell = "submit" => Len(job_table) < MAX_JOBS

\* A child that got past its own SIGSTOP runs only after the SIGCONT of the
\* command that waits for it.
RunsWhenContinued ==
  \A p \in Pid :
    proc[p].state = "runnable" /\ proc[p].stage \notin {"block", "raise"}
    => p = pid /\ shell \in {"give", "wait"}

\* StatusIsTrue, with what the table says of the job while a command runs it.
StatusFollowsAt(k) ==
  LET r == proc[job_table[k].pid]
      s == job_table[k].status
  IN  /\ s = "FINISHED" => r.state = "reaped" /\ r.status \in {"exit 0", "exit 1"}
      /\ s = "TERMINATED" => r.state = "reaped" /\ r.status = "signal"
      /\ s = "SUBMITTED" => r.state # "reaped"
      /\ s = "RUNNING" /\ job_table[k].pid # pid => r.state = "reaped"
      /\ shell \in {"give", "wait", "regain"} /\ job_table[k].pid = pid => s = "RUNNING"

StatusFollows == \A k \in 1..Len(job_table) : StatusFollowsAt(k)

IInv == /\ TypeOK
        /\ ProcessesSound
        /\ CallsInOrder
        /\ TableOfChildren
        /\ RunsWhenContinued
        /\ StatusFollows


\* A step that changes nothing keeps the invariant.
LEMMA Stutter ==
  ASSUME IInv, UNCHANGED vars
  PROVE  IInv'
BY DEF IInv, vars, TypeOK, ProcessesSound, CallsInOrder, TableOfChildren,
       RunsWhenContinued, StatusFollows, StatusFollowsAt

-----------------------------------------------------------------------------
(* What the kernel's operators keep of a child.                            *)

\* A child that stops or dies stays sound.
LEMMA DiesOrStops ==
  ASSUME NEW r, Sound(r), r.state = "runnable"
  PROVE  /\ \A how \in {"exit 0", "exit 1", "signal"} :
              Sound(Dies(r, how)) /\ Dies(r, how).state = "zombie"
         /\ Sound(Stops(r)) /\ Stops(r).state = "stopped"
         /\ Stops(r).stage = r.stage
BY DEF Sound, Dies, Stops, Process, NotCreated, Stage

\* A child that runs is sound once its signals are delivered, and only its own
\* death can come of them.
LEMMA Delivered ==
  ASSUME NEW r \in Process, r.state = "runnable", r.status = "none",
         r.stage \in {"loop", "step", "repl"} => ~r.blocked
  PROVE  /\ Sound(Deliver(r))
         /\ Deliver(r).state \in {"runnable", "zombie"}
         /\ Deliver(r).stage = r.stage
         /\ r.pending \subseteq {"SIGINT"} /\ r.stage \notin Executed
              => Deliver(r).state = "runnable"
<1> DEFINE held == IF r.blocked THEN r.pending \cap {"SIGUSR1"} ELSE {}
           s == [r EXCEPT !.pending = held]
<1>1. /\ s \in Process /\ s.state = "runnable" /\ s.status = "none"
      /\ s.blocked = r.blocked /\ s.stage = r.stage
      /\ s.pending = held /\ held \subseteq {"SIGUSR1"} /\ (~r.blocked => held = {})
  BY DEF Process
<1>2. Sound(s)
  BY <1>1 DEF Sound
<1>3. Deliver(r) = Handles(s, r.pending \ held)
  BY DEF Deliver
<1> HIDE DEF held, s
<1>4. CASE Handles(s, r.pending \ held) = Dies(s, "signal")
  <2>1. Dies(s, "signal").stage = s.stage
    BY <1>1 DEF Dies, Process
  <2>2. ~(r.pending \subseteq {"SIGINT"} /\ r.stage \notin Executed)
        \/ Deliver(r).state = "runnable"
    <3> SUFFICES ASSUME r.pending \subseteq {"SIGINT"}, r.stage \notin Executed
                 PROVE  Deliver(r).state = "runnable"
      OBVIOUS
    <3>1. Handles(s, r.pending \ held)
            = [s EXCEPT !.debug = @ \/ "SIGUSR1" \in r.pending \ held]
      BY <1>1 DEF Handles
    <3> QED BY <3>1, <1>1, <1>3 DEF Process
  <2>3. Sound(Dies(s, "signal")) /\ Dies(s, "signal").state = "zombie"
    BY <1>1, <1>2, DiesOrStops
  <2> QED BY <1>1, <1>3, <1>4, <2>1, <2>2, <2>3
<1>5. CASE Handles(s, r.pending \ held)
             = [s EXCEPT !.debug = @ \/ "SIGUSR1" \in r.pending \ held]
  <2>1. s.debug \in BOOLEAN
    BY <1>1 DEF Process
  <2> DEFINE d == s.debug \/ "SIGUSR1" \in r.pending \ held
  <2>2. d \in BOOLEAN /\ Deliver(r) = [s EXCEPT !.debug = d]
    BY <1>3, <1>5, <2>1
  <2> HIDE DEF d
  <2> QED BY <2>2, <1>1, <1>2 DEF Sound, Process
<1> QED BY <1>4, <1>5 DEF Handles

\* What a signal, a SIGCONT and a waitpid leave true of a child.
LEMMA Signalled ==
  ASSUME NEW r, Sound(r), NEW sig \in {"SIGUSR1", "SIGINT"}
  PROVE  /\ Sound(Signal(r, sig))
         /\ Signal(r, sig).stage = r.stage
         /\ r.state # "runnable" => Signal(r, sig).state = r.state
         /\ r.state = "runnable" => Signal(r, sig).state \in {"runnable", "zombie"}
         /\ r.state \notin {"runnable", "stopped"} => Signal(r, sig) = r
<1> DEFINE s == [r EXCEPT !.pending = @ \cup {sig}]
<1>1. /\ s \in Process /\ s.state = r.state /\ s.status = r.status
      /\ s.blocked = r.blocked /\ s.stage = r.stage
  BY DEF Sound, Process
<1>2. CASE r.state = "runnable"
  <2>1. Signal(r, sig) = Deliver(s)
    BY <1>2 DEF Signal
  <2>2. s.status = "none" /\ (s.stage \in {"loop", "step", "repl"} => ~s.blocked)
    BY <1>1, <1>2 DEF Sound
  <2> HIDE DEF s
  <2> QED BY <1>1, <1>2, <2>1, <2>2, Delivered
<1>3. CASE r.state = "stopped"
  <2>1. Signal(r, sig) = s
    BY <1>3 DEF Signal
  <2>2. Sound(s)
    BY <1>1, <1>3 DEF Sound
  <2> HIDE DEF s
  <2> QED BY <1>1, <1>3, <2>1, <2>2
<1>4. CASE r.state \notin {"runnable", "stopped"}
  BY <1>4 DEF Signal
<1> QED BY <1>2, <1>3, <1>4

\* SIGCONT starts a stopped child, or a signal it finds pending kills it.
LEMMA Continued ==
  ASSUME NEW r, Sound(r)
  PROVE  /\ Sound(Continue(r)) /\ Continue(r).stage = r.stage
         /\ r.state = "stopped" => Continue(r).state \in {"runnable", "zombie"}
         /\ r.state # "stopped" => Continue(r) = r
<1> DEFINE s == [r EXCEPT !.state = "runnable"]
<1>1. CASE r.state = "stopped"
  <2>1. /\ s \in Process /\ s.state = "runnable" /\ s.status = "none"
        /\ s.stage = r.stage
        /\ s.stage \in {"loop", "step", "repl"} => ~s.blocked
    BY <1>1 DEF Sound, Process
  <2>2. Continue(r) = Deliver(s)
    BY <1>1 DEF Continue
  <2> HIDE DEF s
  <2> QED BY <1>1, <2>1, <2>2, Delivered
<1> QED BY <1>1 DEF Continue

\* A child that waitpid returned stays stopped or is gone.
LEMMA WaitedFor ==
  ASSUME NEW r, Sound(r), Waitable(r)
  PROVE  /\ Sound(Waited(r)) /\ Waited(r).stage = r.stage
         /\ Waited(r).state \in {"stopped", "reaped"}
         /\ r.state = "stopped" => Waited(r).state = "stopped"
BY DEF Sound, Waitable, Waited, Process

\* The entries of the table.
LEMMA JobsType ==
  ASSUME TypeOK
  PROVE  \A k \in 1..Len(job_table) :
           /\ job_table[k] \in Job
           /\ job_table[k].pid \in Pid /\ job_table[k].status \in JobStatus
<1>1. \A k \in 1..Len(job_table) : job_table[k] \in Job
  BY DEF TypeOK
<1> QED BY <1>1 DEF Job

-----------------------------------------------------------------------------
(* A child moves, or the keyboard sends it a signal.                       *)

\* A step that replaces one living child by r keeps the invariant, if r does
\* not run on its own account and is not gone behind the shell's back.
LEMMA ProcessStep ==
  ASSUME IInv, NEW p \in Pid, NEW r, Sound(r),
         UNCHANGED <<job_table, shell, pid, foreground>>,
         proc' = [proc EXCEPT ![p] = r],
         proc[p].state \notin {"none", "reaped"},
         r.state \notin {"none", "reaped"},
         r.state = "runnable" /\ r.stage \notin {"block", "raise"}
           => p = pid /\ shell \in {"give", "wait"},
         shell = "submit" /\ p = pid => r.state \in {"runnable", "stopped"},
         shell = "regain" /\ p = pid => r.state = "stopped"
  PROVE  IInv'
<1> USE DEF IInv
<1>1. proc' \in [Pid -> Process] /\ \A q \in Pid : proc'[q] = IF q = p THEN r ELSE proc[q]
  BY DEF TypeOK, Sound
<1>2. \A k \in 1..Len(job_table) : job_table[k].pid \in Pid
  BY JobsType
<1>3. TypeOK'
  BY <1>1 DEF TypeOK
<1>4. ProcessesSound'
  BY <1>1 DEF ProcessesSound
<1>5. CallsInOrder'
  BY <1>1 DEF CallsInOrder, TypeOK
<1>6. TableOfChildren'
  BY <1>1, <1>2 DEF TableOfChildren
<1>7. RunsWhenContinued'
  BY <1>1 DEF RunsWhenContinued
<1>8. StatusFollows'
  <2> SUFFICES ASSUME NEW k \in 1..Len(job_table) PROVE StatusFollowsAt(k)'
    BY DEF StatusFollows
  <2>1. StatusFollowsAt(k) /\ job_table[k].pid \in Pid
    BY <1>2 DEF StatusFollows
  <2>2. CASE job_table[k].pid = p
    BY <1>1, <2>1, <2>2 DEF StatusFollowsAt
  <2>3. CASE job_table[k].pid # p
    BY <1>1, <2>1, <2>3 DEF StatusFollowsAt
  <2> QED BY <2>2, <2>3
<1> QED BY <1>3, <1>4, <1>5, <1>6, <1>7, <1>8

\* A child moves by itself: before its SIGSTOP it gets no further than to stop.
LEMMA MoveStep ==
  ASSUME IInv, NEW p \in Pid, NEW stage, NEW r, Moves(p, stage, r), Sound(r),
         r.state \in {"runnable", "stopped", "zombie"},
         stage \in {"block", "raise"}
           => \/ r.state = "stopped"
              \/ r.state = "runnable" /\ r.stage \in {"block", "raise"}
  PROVE  IInv'
<1>1. proc[p].state = "runnable" /\ proc[p].stage = stage
  BY DEF Moves
<1>2. stage \notin {"block", "raise"} => p = pid /\ shell \in {"give", "wait"}
  BY <1>1 DEF IInv, RunsWhenContinued
<1>3. ~(shell = "regain" /\ p = pid)
  BY <1>1 DEF IInv, CallsInOrder
<1>4. /\ UNCHANGED <<job_table, shell, pid, foreground>>
      /\ proc' = [proc EXCEPT ![p] = r]
  BY DEF Moves
<1> QED BY <1>1, <1>2, <1>3, <1>4, ProcessStep

\* The same child at another stage.
LEMMA StageMoves ==
  ASSUME NEW r, Sound(r), r.state = "runnable", NEW stage \in Stage,
         stage \in {"loop", "step", "repl"} => ~r.blocked
  PROVE  /\ Sound([r EXCEPT !.stage = stage])
         /\ [r EXCEPT !.stage = stage].state = "runnable"
         /\ [r EXCEPT !.stage = stage].stage = stage
         /\ [r EXCEPT !.stage = stage].blocked = r.blocked
         /\ [r EXCEPT !.stage = stage].pending = r.pending
BY DEF Sound, Process, NotCreated

\* A child's own step, from the mask before its SIGSTOP to the VM's prompt.
LEMMA ChildStep ==
  ASSUME IInv, NEW p \in Pid, ChildWorks(p) \/ Repl(p)
  PROVE  IInv'
<1> DEFINE r == proc[p]
<1>1. Sound(r) /\ r.state = "runnable"
  BY DEF IInv, ProcessesSound, ChildWorks, Repl, Block, Raise, Exec, Install, RunLoop,
         Step, Moves
<1>2. CASE Block(p)
  <2> DEFINE n == [At(p, "raise") EXCEPT !.blocked = TRUE]
  <2>1. Moves(p, "block", n)
    BY <1>2 DEF Block
  <2>2. Sound(n) /\ n.state = "runnable" /\ n.stage = "raise"
    BY <1>1 DEF At, Sound, Process, Stage
  <2> HIDE DEF n
  <2> QED BY <2>1, <2>2, MoveStep
<1>3. CASE Raise(p)
  <2>1. Sound(At(p, "exec")) /\ At(p, "exec").state = "runnable"
    BY <1>1, StageMoves DEF At, Stage
  <2>2. Sound(Stops(At(p, "exec"))) /\ Stops(At(p, "exec")).state = "stopped"
    BY <2>1, DiesOrStops
  <2> QED BY <1>3, <2>2, MoveStep DEF Raise
<1>4. CASE Exec(p)
  <2>1. Sound(At(p, "install")) /\ At(p, "install").state = "runnable"
    BY <1>1, StageMoves DEF At, Stage
  <2>2. Sound(Dies(r, "exit 1")) /\ Dies(r, "exit 1").state = "zombie"
    BY <1>1, DiesOrStops
  <2> QED BY <1>4, <2>1, <2>2, MoveStep DEF Exec
<1>5. CASE Install(p)
  <2> DEFINE u == [At(p, "loop") EXCEPT !.blocked = FALSE]
             d == Deliver(u)
  <2>1. /\ u \in Process /\ u.state = "runnable" /\ u.status = "none"
        /\ u.stage = "loop" /\ u.blocked = FALSE
    BY <1>1 DEF At, Sound, Process, Stage
  <2> HIDE DEF u
  <2>2. Sound(d) /\ d.state \in {"runnable", "zombie"}
    BY <2>1, Delivered
  <2>3. \/ Moves(p, "install", d)
        \/ Moves(p, "install", Dies(d, "exit 1"))
    BY <1>5 DEF Install, u
  <2>4. d.state = "runnable" => /\ Sound(Dies(d, "exit 1"))
                                /\ Dies(d, "exit 1").state = "zombie"
    BY <2>2, DiesOrStops
  <2> HIDE DEF d
  <2>5. d.state = "zombie" => Sound(Dies(d, "exit 1"))
    BY <2>2 DEF Sound, Dies, Process
  <2>6. Dies(d, "exit 1").state = "zombie"
    BY <2>2 DEF Sound, Dies, Process
  <2> QED BY <2>2, <2>3, <2>4, <2>5, <2>6, MoveStep
<1>6. CASE RunLoop(p)
  <2> DEFINE n == [At(p, "repl") EXCEPT !.debug = TRUE]
  <2>1. r.stage = "loop"
    BY <1>6 DEF RunLoop, Moves
  <2>2. Sound(n) /\ n.state = "runnable"
    BY <1>1, <2>1 DEF At, Sound, Process, Stage
  <2>3. Sound(At(p, "step")) /\ At(p, "step").state = "runnable"
    BY <1>1, <2>1, StageMoves DEF At, Stage, Sound
  <2>4. Moves(p, "loop", n) \/ Moves(p, "loop", At(p, "step"))
    BY <1>6 DEF RunLoop
  <2> HIDE DEF n
  <2> QED BY <2>2, <2>3, <2>4, MoveStep
<1>7. CASE Step(p)
  <2>1. r.stage = "step"
    BY <1>7 DEF Step, Moves
  <2>2. Sound(At(p, "loop")) /\ At(p, "loop").state = "runnable"
    BY <1>1, <2>1, StageMoves DEF At, Stage, Sound
  <2>3. /\ Sound(Dies(r, "exit 0")) /\ Dies(r, "exit 0").state = "zombie"
        /\ Sound(Dies(r, "exit 1")) /\ Dies(r, "exit 1").state = "zombie"
    BY <1>1, DiesOrStops
  <2>4. \/ Moves(p, "step", At(p, "loop"))
        \/ Moves(p, "step", Dies(r, "exit 0")) \/ Moves(p, "step", Dies(r, "exit 1"))
    BY <1>7 DEF Step
  <2> HIDE DEF r
  <2> QED BY <2>2, <2>3, <2>4, MoveStep
<1>8. CASE Repl(p)
  <2> DEFINE n == [At(p, "step") EXCEPT !.debug = FALSE]
  <2>1. r.stage = "repl"
    BY <1>8 DEF Repl, Moves
  <2>2. Sound(At(p, "step")) /\ At(p, "step").state = "runnable"
    BY <1>1, <2>1, StageMoves DEF At, Stage, Sound
  <2>3. Sound(n) /\ n.state = "runnable"
    BY <1>1, <2>1 DEF At, Sound, Process, Stage
  <2>4. /\ Sound(Dies(r, "exit 0")) /\ Dies(r, "exit 0").state = "zombie"
        /\ Sound(Stops(r)) /\ Stops(r).state = "stopped"
    BY <1>1, DiesOrStops
  <2>5. \/ Moves(p, "repl", At(p, "step")) \/ Moves(p, "repl", n)
        \/ Moves(p, "repl", Dies(r, "exit 0")) \/ Moves(p, "repl", Stops(r))
    BY <1>8 DEF Repl
  <2> HIDE DEF n, r
  <2> QED BY <2>2, <2>3, <2>4, <2>5, MoveStep
<1> QED BY <1>2, <1>3, <1>4, <1>5, <1>6, <1>7, <1>8 DEF ChildWorks

\* Ctrl-C and Ctrl-Z reach the job that has the terminal, and nobody else.
LEMMA KeyboardStep ==
  ASSUME IInv, CtrlC \/ CtrlZ
  PROVE  IInv'
<1> DEFINE p == foreground
<1>1. p \in Pid /\ p = pid /\ shell \in {"wait", "regain"}
  BY PidAssumption DEF IInv, CallsInOrder, CtrlC, CtrlZ
<1>2. Sound(proc[p])
  BY <1>1 DEF IInv, ProcessesSound
<1>3. proc[p].state # "none"
  BY <1>1 DEF IInv, TableOfChildren
<1>4. CASE CtrlC
  <2> DEFINE n == Signal(proc[p], "SIGINT")
  <2>1. /\ proc' = [proc EXCEPT ![p] = n]
        /\ UNCHANGED <<job_table, shell, pid, foreground>>
    BY <1>4 DEF CtrlC
  <2>2. /\ Sound(n) /\ n.stage = proc[p].stage
        /\ proc[p].state # "runnable" => n.state = proc[p].state
        /\ proc[p].state = "runnable" => n.state \in {"runnable", "zombie"}
        /\ proc[p].state = "reaped" => n = proc[p]
    BY <1>2, Signalled
  <2>3. CASE proc[p].state = "reaped"
    <3>1. proc' = proc
      BY <2>1, <2>2, <2>3 DEF IInv, TypeOK
    <3> QED BY <2>1, <3>1, Stutter DEF vars
  <2>4. CASE proc[p].state # "reaped"
    <3>1. shell = "regain" => n.state = "stopped"
      BY <1>1, <2>2, <2>4 DEF IInv, CallsInOrder
    <3>2. n.state = "runnable" /\ n.stage \notin {"block", "raise"} => shell = "wait"
      BY <1>1, <2>2, <3>1
    <3>3. n.state \notin {"none", "reaped"}
      BY <1>3, <2>2, <2>4
    <3> HIDE DEF n, p
    <3> QED BY <1>1, <1>3, <2>1, <2>2, <2>4, <3>1, <3>2, <3>3, ProcessStep
  <2> QED BY <2>3, <2>4
<1>5. CASE CtrlZ
  <2> DEFINE n == Stops(proc[p])
  <2>1. /\ proc' = [proc EXCEPT ![p] = n] /\ proc[p].state = "runnable"
        /\ UNCHANGED <<job_table, shell, pid, foreground>>
    BY <1>5 DEF CtrlZ
  <2>2. Sound(n) /\ n.state = "stopped"
    BY <1>2, <2>1, DiesOrStops
  <2> HIDE DEF n, p
  <2> QED BY <1>1, <1>3, <2>1, <2>2, ProcessStep
<1> QED BY <1>4, <1>5

-----------------------------------------------------------------------------
(* The shell's own calls.                                                  *)

\* The entry of the job that a command works on.
LEMMA IndexFound ==
  ASSUME IInv, shell \in {"resume", "give", "wait", "regain"}
  PROVE  /\ pid \in Pid
         /\ Index \in 1..Len(job_table) /\ job_table[Index].pid = pid
         /\ \A k \in 1..Len(job_table) : job_table[k].pid = pid => k = Index
<1>1. \E k \in 1..Len(job_table) : job_table[k].pid = pid
  BY DEF IInv, TableOfChildren
<1>2. Index \in 1..Len(job_table) /\ job_table[Index].pid = pid
  BY <1>1 DEF Index
<1>3. \A k \in 1..Len(job_table) : job_table[k].pid = pid => k = Index
  BY <1>2 DEF IInv, TableOfChildren
<1>4. pid \in Pid
  BY <1>2, JobsType DEF IInv
<1> QED BY <1>2, <1>3, <1>4

\* The table after SetStatus.
LEMMA StatusSet ==
  ASSUME IInv, shell \in {"resume", "give", "wait", "regain"},
         NEW s \in JobStatus, SetStatus(s)
  PROVE  /\ job_table' \in Seq(Job) /\ Len(job_table') = Len(job_table)
         /\ \A k \in 1..Len(job_table) :
              /\ job_table'[k].pid = job_table[k].pid
              /\ job_table'[k].status = IF job_table[k].pid = pid THEN s
                                        ELSE job_table[k].status
<1>1. Index \in 1..Len(job_table)
      /\ \A k \in 1..Len(job_table) : job_table[k].pid = pid <=> k = Index
  BY IndexFound
<1>2. \A k \in 1..Len(job_table) : job_table[k] \in Job
  BY JobsType DEF IInv
<1> DEFINE e == [job_table[Index] EXCEPT !.status = s]
<1>3. e \in Job /\ e.pid = job_table[Index].pid /\ e.status = s
  BY <1>1, <1>2 DEF Job
<1>4. job_table' = [job_table EXCEPT ![Index] = e]
  BY DEF SetStatus
<1> HIDE DEF e
<1>5. job_table \in Seq(Job)
  BY DEF IInv, TypeOK
<1>6. /\ job_table' \in Seq(Job) /\ Len(job_table') = Len(job_table)
      /\ \A k \in 1..Len(job_table) :
           job_table'[k] = IF k = Index THEN e ELSE job_table[k]
  BY <1>1, <1>3, <1>4, <1>5
<1> QED BY <1>1, <1>3, <1>6

\* A new child: pid has its number, and no entry yet.
LEMMA SubmitStep ==
  ASSUME IInv, NEW p \in Pid, Submit(p)
  PROVE  IInv'
<1> DEFINE r == [proc[p] EXCEPT !.state = "runnable"]
<1>1. /\ shell = "prompt" /\ shell' = "submit" /\ pid = NoPid /\ pid' = p
      /\ UNCHANGED <<job_table, foreground>> /\ Len(job_table) < MAX_JOBS
      /\ proc[p].state = "none" /\ proc' = [proc EXCEPT ![p] = r]
      /\ foreground = Shell
  BY DEF Submit, IsNextPid, IInv, CallsInOrder
<1>2. /\ Sound(r) /\ r.state = "runnable" /\ r.stage = "block"
  <2>1. proc[p] = NotCreated
    BY <1>1 DEF IInv, ProcessesSound, Sound
  <2>2. /\ proc[p] \in Process /\ proc[p].status = "none" /\ proc[p].stage = "block"
        /\ proc[p].pending = {}
    <3>1. proc[p] \in Process
      BY DEF IInv, ProcessesSound, Sound
    <3> QED BY <2>1, <3>1 DEF NotCreated
  <2>3. /\ r \in Process /\ r.state = "runnable" /\ r.status = "none"
        /\ r.stage = "block" /\ r.pending = {}
    BY <2>2 DEF Process
  <2> HIDE DEF r
  <2> QED BY <2>3 DEF Sound
<1> HIDE DEF r
<1>3. proc' \in [Pid -> Process] /\ \A q \in Pid : proc'[q] = IF q = p THEN r ELSE proc[q]
  BY <1>1, <1>2 DEF IInv, TypeOK, Sound
<1>4. \A k \in 1..Len(job_table) :
        job_table[k].pid \in Pid /\ job_table[k].pid # p /\ job_table[k].pid # pid
  BY <1>1, JobsType, PidAssumption DEF IInv, TableOfChildren
<1>5. TypeOK'
  BY <1>1, <1>3 DEF IInv, TypeOK, Command
<1>6. ProcessesSound'
  BY <1>2, <1>3 DEF IInv, ProcessesSound
<1>7. CallsInOrder'
  BY <1>1, <1>2, <1>3, PidAssumption DEF CallsInOrder
<1>8. TableOfChildren'
  BY <1>1, <1>3, <1>4 DEF IInv, TableOfChildren
<1>9. RunsWhenContinued'
  BY <1>1, <1>2, <1>3 DEF IInv, RunsWhenContinued
<1>10. StatusFollows'
  <2> SUFFICES ASSUME NEW k \in 1..Len(job_table) PROVE StatusFollowsAt(k)'
    BY <1>1 DEF StatusFollows
  <2>1. StatusFollowsAt(k) /\ proc'[job_table[k].pid] = proc[job_table[k].pid]
    BY <1>3, <1>4 DEF IInv, StatusFollows
  <2> QED BY <1>1, <1>4, <2>1 DEF StatusFollowsAt
<1> QED BY <1>5, <1>6, <1>7, <1>8, <1>9, <1>10 DEF IInv

\* waitpid has told of the stop, or was interrupted: the job enters the table.
LEMMA RegisterStep ==
  ASSUME IInv, shell = "submit", Register, UNCHANGED foreground,
         \/ UNCHANGED proc
         \/ Waitable(proc[pid]) /\ proc' = [proc EXCEPT ![pid] = Waited(@)]
  PROVE  IInv'
<1> DEFINE e == [pid |-> pid, status |-> "SUBMITTED"]
<1>1. /\ pid \in Pid /\ foreground = Shell /\ Len(job_table) < MAX_JOBS
      /\ proc[pid].state \in {"runnable", "stopped"}
  BY DEF IInv, CallsInOrder, TableOfChildren, TypeOK
<1>2. /\ job_table' = Append(job_table, e) /\ shell' = "prompt" /\ pid' = NoPid
      /\ foreground' = Shell
  BY <1>1 DEF Register
<1>3. e \in Job /\ e.pid = pid /\ e.status = "SUBMITTED"
  BY <1>1 DEF Job, JobStatus
<1> HIDE DEF e
<1>4. job_table \in Seq(Job) /\ Len(job_table) <= MAX_JOBS /\ proc \in [Pid -> Process]
  BY DEF IInv, TypeOK
<1>5. /\ job_table' \in Seq(Job) /\ Len(job_table') = Len(job_table) + 1
      /\ \A k \in 1..Len(job_table) : job_table'[k] = job_table[k]
      /\ job_table'[Len(job_table) + 1] = e
  BY <1>2, <1>3, <1>4
<1>6. \A k \in 1..Len(job_table) : job_table[k].pid \in Pid /\ job_table[k].pid # pid
  BY JobsType DEF IInv, TableOfChildren
<1>7. Sound(proc[pid])
  BY <1>1 DEF IInv, ProcessesSound
<1>8. PICK r : /\ proc' = [proc EXCEPT ![pid] = r]
               /\ Sound(r) /\ r.state \in {"runnable", "stopped"}
               /\ r.state = "runnable" => r = proc[pid]
  <2>1. CASE UNCHANGED proc
    BY <1>1, <1>4, <1>7, <2>1
  <2>2. CASE Waitable(proc[pid]) /\ proc' = [proc EXCEPT ![pid] = Waited(@)]
    <3>1. proc[pid].state = "stopped"
      BY <1>1, <2>2 DEF Waitable
    <3>2. Sound(Waited(proc[pid])) /\ Waited(proc[pid]).state = "stopped"
      BY <1>7, <2>2, <3>1, WaitedFor
    <3> QED BY <2>2, <3>2
  <2> QED BY <2>1, <2>2
<1>9. proc' \in [Pid -> Process] /\ \A q \in Pid : proc'[q] = IF q = pid THEN r ELSE proc[q]
  BY <1>1, <1>4, <1>8 DEF Sound
<1>10. TypeOK'
  BY <1>1, <1>2, <1>4, <1>5, <1>9, MaxJobsAssumption DEF TypeOK, Command
<1>11. ProcessesSound'
  BY <1>8, <1>9 DEF IInv, ProcessesSound
<1>12. CallsInOrder'
  BY <1>2 DEF CallsInOrder
<1>13. TableOfChildren'
  BY <1>1, <1>2, <1>3, <1>4, <1>5, <1>6, <1>8, <1>9 DEF IInv, TableOfChildren
<1>14. RunsWhenContinued'
  BY <1>1, <1>2, <1>8, <1>9 DEF IInv, RunsWhenContinued
<1>15. StatusFollows'
  <2> SUFFICES ASSUME NEW k \in 1..Len(job_table) + 1 PROVE StatusFollowsAt(k)'
    BY <1>5 DEF StatusFollows
  <2>1. CASE k = Len(job_table) + 1
    BY <1>1, <1>2, <1>3, <1>5, <1>8, <1>9, <2>1 DEF StatusFollowsAt
  <2>2. CASE k \in 1..Len(job_table)
    <3>1. StatusFollowsAt(k)
      BY <2>2 DEF IInv, StatusFollows
    <3>2. /\ job_table'[k] = job_table[k] /\ job_table[k].pid # pid
          /\ proc'[job_table[k].pid] = proc[job_table[k].pid]
      BY <1>5, <1>6, <1>9, <2>2
    <3> QED BY <1>2, <3>1, <3>2 DEF StatusFollowsAt
  <2> QED BY <1>4, <2>1, <2>2
<1> QED BY <1>10, <1>11, <1>12, <1>13, <1>14, <1>15 DEF IInv

\* A run that begins: nothing but the shell's next call.
LEMMA RunStep ==
  ASSUME IInv, NEW k \in 1..Len(job_table), Run(k)
  PROVE  IInv'
<1>1. /\ shell = "prompt" /\ shell' = "resume" /\ pid = NoPid
      /\ pid' = job_table[k].pid /\ foreground = Shell
      /\ UNCHANGED <<job_table, foreground, proc>>
  BY DEF Run, IInv, CallsInOrder
<1>2. \A j \in 1..Len(job_table) : job_table[j].pid \in Pid /\ job_table[j].pid # NoPid
  BY JobsType, PidAssumption DEF IInv
<1>3. TypeOK'
  BY <1>1, <1>2 DEF IInv, TypeOK, Command
<1>4. ProcessesSound'
  BY <1>1 DEF IInv, ProcessesSound
<1>5. CallsInOrder'
  BY <1>1, <1>2 DEF CallsInOrder
<1>6. TableOfChildren'
  BY <1>1 DEF IInv, TableOfChildren
<1>7. RunsWhenContinued'
  BY <1>1 DEF IInv, RunsWhenContinued
<1>8. StatusFollows'
  <2> SUFFICES ASSUME NEW j \in 1..Len(job_table) PROVE StatusFollowsAt(j)'
    BY <1>1 DEF StatusFollows
  <2>1. StatusFollowsAt(j)
    BY DEF IInv, StatusFollows
  <2> QED BY <1>1, <1>2, <2>1 DEF StatusFollowsAt
<1> QED BY <1>3, <1>4, <1>5, <1>6, <1>7, <1>8 DEF IInv

\* SIGUSR1 starts no child that is stopped and brings none back.
LEMMA DebugStep ==
  ASSUME IInv, NEW k \in 1..Len(job_table), Debug(k)
  PROVE  IInv'
<1> DEFINE p == job_table[k].pid
           r == Signal(proc[p], "SIGUSR1")
<1>1. /\ shell = "prompt" /\ shell' = "resume" /\ pid = NoPid /\ pid' = p
      /\ UNCHANGED <<job_table, foreground>> /\ foreground = Shell
      /\ proc' = [proc EXCEPT ![p] = r]
  BY DEF Debug, IInv, CallsInOrder
<1>2. \A j \in 1..Len(job_table) : job_table[j].pid \in Pid /\ job_table[j].pid # NoPid
  BY JobsType, PidAssumption DEF IInv
<1>3. /\ p \in Pid /\ Sound(r) /\ r.stage = proc[p].stage
      /\ proc[p].state # "runnable" => r.state = proc[p].state
      /\ proc[p].state = "runnable" => r.state \in {"runnable", "zombie"}
      /\ proc[p].state \notin {"runnable", "stopped"} => r = proc[p]
  <2>1. p \in Pid /\ Sound(proc[p])
    BY <1>2 DEF IInv, ProcessesSound
  <2> HIDE DEF p
  <2> QED BY <2>1, Signalled
<1>4. proc[p].state # "none"
  BY DEF IInv, TableOfChildren
<1>5. \A j \in 1..Len(job_table) : job_table[j].pid = p <=> j = k
  BY DEF IInv, TableOfChildren
<1> HIDE DEF p, r
<1>6. proc' \in [Pid -> Process] /\ \A q \in Pid : proc'[q] = IF q = p THEN r ELSE proc[q]
  BY <1>1, <1>3 DEF IInv, TypeOK, Sound
<1>7. TypeOK'
  BY <1>1, <1>3, <1>6 DEF IInv, TypeOK, Command
<1>8. ProcessesSound'
  BY <1>3, <1>6 DEF IInv, ProcessesSound
<1>9. CallsInOrder'
  BY <1>1, <1>3, PidAssumption DEF CallsInOrder
<1>10. TableOfChildren'
  BY <1>1, <1>2, <1>3, <1>4, <1>5, <1>6 DEF IInv, TableOfChildren
<1>11. RunsWhenContinued'
  BY <1>1, <1>3, <1>6 DEF IInv, RunsWhenContinued
<1>12. StatusFollows'
  <2> SUFFICES ASSUME NEW j \in 1..Len(job_table) PROVE StatusFollowsAt(j)'
    BY <1>1 DEF StatusFollows
  <2>1. StatusFollowsAt(j)
    BY DEF IInv, StatusFollows
  <2>2. job_table[j].pid \in Pid /\ job_table[j].pid # NoPid
    BY <1>2
  <2>3. CASE j = k
    <3>1. job_table[j].pid = p /\ proc'[p] = r
      BY <1>3, <1>5, <1>6, <2>3
    <3> QED BY <1>1, <1>3, <2>1, <2>2, <3>1 DEF StatusFollowsAt
  <2>4. CASE j # k
    <3>1. job_table[j].pid # p /\ proc'[job_table[j].pid] = proc[job_table[j].pid]
      BY <1>5, <1>6, <2>2, <2>4
    <3> QED BY <1>1, <2>1, <2>2, <3>1 DEF StatusFollowsAt
  <2> QED BY <2>3, <2>4
<1> QED BY <1>7, <1>8, <1>9, <1>10, <1>11, <1>12 DEF IInv

\* A command in the middle changes its own job only: the entries keep their
\* pids, the other entries their status, the other children everything.
LEMMA CommandStep ==
  ASSUME IInv, shell \in {"resume", "give", "wait", "regain"},
         NEW r, Sound(r), r.state # "none", proc' = [proc EXCEPT ![pid] = r],
         NEW s \in JobStatus, SetStatus(s) \/ (s = job_table[Index].status /\ UNCHANGED job_table),
         shell' \in {"prompt", "give", "wait", "regain"},
         pid' = IF shell' = "prompt" THEN NoPid ELSE pid,
         foreground' = IF shell' \in {"wait", "regain"} THEN pid ELSE Shell,
         shell' = "regain" => r.state \in {"stopped", "reaped"},
         r.state = "runnable" /\ r.stage \notin {"block", "raise"}
           => shell' \in {"give", "wait"},
         s = "FINISHED" => r.state = "reaped" /\ r.status \in {"exit 0", "exit 1"},
         s = "TERMINATED" => r.state = "reaped" /\ r.status = "signal",
         s = "SUBMITTED" => r.state # "reaped",
         s = "RUNNING" /\ shell' = "prompt" => r.state = "reaped",
         shell' # "prompt" => s = "RUNNING"
  PROVE  IInv'
<1>1. /\ pid \in Pid /\ Index \in 1..Len(job_table) /\ job_table[Index].pid = pid
      /\ \A k \in 1..Len(job_table) : job_table[k].pid = pid => k = Index
  BY IndexFound
<1>2. /\ job_table' \in Seq(Job) /\ Len(job_table') = Len(job_table)
      /\ \A k \in 1..Len(job_table) :
           /\ job_table'[k].pid = job_table[k].pid
           /\ job_table'[k].status = IF job_table[k].pid = pid THEN s
                                     ELSE job_table[k].status
  <2>1. CASE SetStatus(s)
    BY <2>1, StatusSet
  <2>2. CASE s = job_table[Index].status /\ UNCHANGED job_table
    BY <1>1, <2>2 DEF IInv, TypeOK
  <2> QED BY <2>1, <2>2
<1>3. proc' \in [Pid -> Process] /\ \A q \in Pid : proc'[q] = IF q = pid THEN r ELSE proc[q]
  BY <1>1 DEF IInv, TypeOK, Sound
<1>4. \A k \in 1..Len(job_table) : job_table[k].pid \in Pid /\ job_table[k].pid # NoPid
  BY JobsType, PidAssumption DEF IInv
<1>5. TypeOK'
  BY <1>1, <1>2, <1>3 DEF IInv, TypeOK, Command
<1>6. ProcessesSound'
  BY <1>3 DEF IInv, ProcessesSound
<1>7. CallsInOrder'
  BY <1>1, <1>3, PidAssumption DEF CallsInOrder
<1>8. TableOfChildren'
  <2>1. \A k \in 1..Len(job_table) : proc'[job_table'[k].pid].state # "none"
    BY <1>2, <1>3, <1>4 DEF IInv, TableOfChildren
  <2>2. \A j, k \in 1..Len(job_table) : job_table'[j].pid = job_table'[k].pid => j = k
    BY <1>2 DEF IInv, TableOfChildren
  <2>3. shell' # "prompt" => job_table'[Index].pid = pid'
    BY <1>1, <1>2
  <2> QED BY <1>1, <1>2, <2>1, <2>2, <2>3 DEF TableOfChildren
<1>9. RunsWhenContinued'
  BY <1>1, <1>3 DEF IInv, RunsWhenContinued
<1>10. StatusFollows'
  <2> SUFFICES ASSUME NEW k \in 1..Len(job_table) PROVE StatusFollowsAt(k)'
    BY <1>2 DEF StatusFollows
  <2>1. StatusFollowsAt(k)
    BY DEF IInv, StatusFollows
  <2>2. CASE job_table[k].pid = pid
    <3>1. /\ job_table'[k].pid = pid /\ job_table'[k].status = s
          /\ proc'[pid] = r
      BY <1>1, <1>2, <1>3, <2>2
    <3> QED BY <1>1, <3>1, PidAssumption DEF StatusFollowsAt
  <2>3. CASE job_table[k].pid # pid
    <3>1. /\ job_table'[k].pid = job_table[k].pid
          /\ job_table'[k].status = job_table[k].status
          /\ proc'[job_table[k].pid] = proc[job_table[k].pid]
      BY <1>2, <1>3, <1>4, <2>3
    <3> QED BY <1>4, <2>1, <2>3, <3>1 DEF StatusFollowsAt
  <2> QED BY <2>2, <2>3
<1> QED BY <1>5, <1>6, <1>7, <1>8, <1>9, <1>10 DEF IInv

\* The calls of a run: kill, tcsetpgrp, waitpid, and tcsetpgrp with the status.
LEMMA ShellStep ==
  ASSUME IInv, Resume \/ GiveTerminal \/ WaitReturns \/ Regain
  PROVE  IInv'
<1>1. shell \in {"resume", "give", "wait", "regain"}
  BY DEF Resume, GiveTerminal, WaitReturns, Regain
<1>2. /\ pid \in Pid /\ Index \in 1..Len(job_table) /\ job_table[Index].pid = pid
      /\ job_table[Index].status \in JobStatus /\ "RUNNING" \in JobStatus
  BY <1>1, IndexFound, JobsType DEF IInv, JobStatus
<1> DEFINE r == proc[pid]
<1>3. Sound(r) /\ r.state # "none"
  BY <1>2 DEF IInv, ProcessesSound, TableOfChildren
<1>4. /\ proc = [proc EXCEPT ![pid] = r]
      /\ shell \in {"wait", "regain"} => foreground = pid
      /\ shell \notin {"wait", "regain"} => foreground = Shell
      /\ shell \in {"give", "wait", "regain"} => job_table[Index].status = "RUNNING"
      /\ r.state = "runnable" /\ r.stage \notin {"block", "raise"}
           => shell \in {"give", "wait"}
      /\ shell = "regain" => r.state \in {"stopped", "reaped"}
  BY <1>2 DEF IInv, TypeOK, CallsInOrder, RunsWhenContinued, StatusFollows, StatusFollowsAt
<1>5. CASE Resume /\ r.state = "reaped"
  <2>1. /\ SetStatus("RUNNING") /\ shell' = "prompt" /\ pid' = NoPid
        /\ proc' = proc /\ foreground' = Shell
    BY <1>4, <1>5 DEF Resume
  <2> HIDE DEF r
  <2> QED BY <1>1, <1>2, <1>3, <1>4, <1>5, <2>1, CommandStep
<1>6. CASE Resume /\ r.state # "reaped"
  <2> DEFINE c == Continue(r)
  <2>1. /\ SetStatus("RUNNING") /\ shell' = "give" /\ pid' = pid
        /\ proc' = [proc EXCEPT ![pid] = c] /\ foreground' = Shell
    BY <1>4, <1>6 DEF Resume
  <2>2. Sound(c) /\ c.state # "none"
    BY <1>3, Continued
  <2> HIDE DEF r, c
  <2> QED BY <1>1, <1>2, <2>1, <2>2, CommandStep
<1>7. CASE GiveTerminal
  <2>1. /\ UNCHANGED job_table /\ shell' = "wait" /\ pid' = pid
        /\ proc' = proc /\ foreground' = pid /\ job_table[Index].status = "RUNNING"
    BY <1>4, <1>7 DEF GiveTerminal
  <2> HIDE DEF r
  <2> QED BY <1>1, <1>2, <1>3, <1>4, <2>1, CommandStep
<1>8. CASE WaitReturns
  <2> DEFINE w == Waited(r)
  <2>1. /\ UNCHANGED job_table /\ shell' = "regain" /\ pid' = pid
        /\ proc' = [proc EXCEPT ![pid] = w] /\ foreground' = pid
        /\ job_table[Index].status = "RUNNING"
    BY <1>4, <1>8 DEF WaitReturns
  <2>2. Sound(w) /\ w.state \in {"stopped", "reaped"}
    BY <1>3, <1>8, WaitedFor DEF WaitReturns
  <2> HIDE DEF r, w
  <2> QED BY <1>1, <1>2, <2>1, <2>2, CommandStep
<1>9. CASE Regain
  <2> DEFINE s == StatusOf(r)
  <2>1. /\ SetStatus(s) /\ shell' = "prompt" /\ pid' = NoPid
        /\ proc' = proc /\ foreground' = Shell /\ shell = "regain"
    BY <1>9 DEF Regain
  <2>2. /\ s \in JobStatus /\ s # "RUNNING"
        /\ s = "FINISHED" => r.status \in {"exit 0", "exit 1"}
        /\ s = "TERMINATED" => r.status = "signal"
        /\ s = "SUBMITTED" => r.status = "none"
    BY <1>3 DEF StatusOf, Sound, Process, JobStatus
  <2>3. r.state \in {"stopped", "reaped"} /\ (r.status = "none" <=> r.state = "stopped")
    BY <1>3, <1>4, <2>1 DEF Sound
  <2> HIDE DEF r, s
  <2> QED BY <1>1, <1>2, <1>3, <1>4, <2>1, <2>2, <2>3, CommandStep
<1> QED BY <1>3, <1>5, <1>6, <1>7, <1>8, <1>9

-----------------------------------------------------------------------------
(* The theorems.                                                           *)

\* An empty table and no child.
LEMMA InitInv == Init => IInv
<1> SUFFICES ASSUME Init PROVE IInv
  OBVIOUS
<1>1. /\ job_table = << >> /\ Len(job_table) = 0 /\ shell = "prompt" /\ pid = NoPid
      /\ foreground = Shell /\ proc = [p \in Pid |-> NotCreated]
  BY DEF Init
<1>2. NotCreated \in Process /\ Sound(NotCreated) /\ NotCreated.state = "none"
  BY DEF NotCreated, Process, Stage, Sound
<1>3. TypeOK
  BY <1>1, <1>2, MaxJobsAssumption DEF TypeOK, Command
<1>4. ProcessesSound /\ RunsWhenContinued
  BY <1>1, <1>2 DEF ProcessesSound, RunsWhenContinued
<1>5. CallsInOrder
  BY <1>1 DEF CallsInOrder
<1>6. TableOfChildren /\ StatusFollows
  BY <1>1 DEF TableOfChildren, StatusFollows
<1> QED BY <1>3, <1>4, <1>5, <1>6 DEF IInv

\* Every action keeps the invariant.
LEMMA NextInv == IInv /\ [Next]_vars => IInv'
<1> SUFFICES ASSUME IInv, [Next]_vars PROVE IInv'
  OBVIOUS
<1>1. ASSUME NEW p \in Pid, Submit(p) PROVE IInv'
  BY <1>1, SubmitStep
<1>2. ASSUME NEW k \in 1..Len(job_table), Run(k) \/ Debug(k) PROVE IInv'
  BY <1>2, RunStep, DebugStep
<1>3. CASE SubmitWaits \/ SubmitInterrupted
  BY <1>3, RegisterStep DEF SubmitWaits, SubmitInterrupted
<1>4. CASE Resume \/ GiveTerminal \/ WaitReturns \/ Regain
  BY <1>4, ShellStep
<1>5. ASSUME NEW p \in Pid, ChildWorks(p) \/ Repl(p) PROVE IInv'
  BY <1>5, ChildStep
<1>6. CASE CtrlC \/ CtrlZ
  BY <1>6, KeyboardStep
<1>7. CASE UNCHANGED vars
  BY <1>7, Stutter
<1> QED BY <1>1, <1>2, <1>3, <1>4, <1>5, <1>6, <1>7 DEF Next, ShellWorks

\* The inductive invariant of the jobs holds in every state.
THEOREM JobsInvariant == Spec => []IInv
<1>1. Init => IInv
  BY InitInv
<1>2. IInv /\ [Next]_vars => IInv'
  BY NextInv
<1> QED BY <1>1, <1>2, PTL DEF Spec

\* Every variable has its type (execute_submit, execute_run_job,
\* execute_debug_job of utils.c).
THEOREM JobsTypes == Spec => []TypeOK
<1>1. IInv => TypeOK
  BY DEF IInv
<1> QED BY <1>1, JobsInvariant, PTL

\* Whenever the shell prompts it owns the terminal (utils.c:155).
THEOREM TerminalOwned == Spec => []PromptOwnsTerminal
<1>1. IInv => PromptOwnsTerminal
  BY DEF IInv, CallsInOrder, PromptOwnsTerminal
<1> QED BY <1>1, JobsInvariant, PTL

\* A program makes progress only while its own run or debug command waits for
\* it (utils.c:131, the child's raise at utils.c:83).
THEOREM NoJobRunsBehindThePrompt == Spec => []OnlyTheJobWaitedForRuns
<1>1. IInv => OnlyTheJobWaitedForRuns
  BY DEF IInv, RunsWhenContinued, OnlyTheJobWaitedForRuns, Executed
<1> QED BY <1>1, JobsInvariant, PTL

\* The status in the table agrees with the process (utils.c:160 and 171).
THEOREM StatusAgrees == Spec => []StatusIsTrue
<1>1. ASSUME IInv PROVE StatusIsTrue
  <2> SUFFICES ASSUME NEW k \in 1..Len(job_table),
                      shell = "prompt", proc[job_table[k].pid].state # "reaped"
               PROVE  job_table[k].status = "SUBMITTED"
    BY <1>1 DEF IInv, StatusFollows, StatusFollowsAt, StatusIsTrue
  <2>1. StatusFollowsAt(k) /\ job_table[k].status \in JobStatus /\ job_table[k].pid # pid
    BY <1>1, JobsType, PidAssumption DEF IInv, StatusFollows, CallsInOrder
  <2> QED BY <2>1 DEF StatusFollowsAt, JobStatus
<1> QED BY <1>1, JobsInvariant, PTL

\* Only run's own step from the top of its loop starts an instruction.
LEMMA InstructionBegins ==
  ASSUME IInv, [Next]_vars, NEW p \in Pid,
         proc[p].stage = "loop", proc'[p].stage = "step"
  PROVE  ~proc[p].debug /\ proc[p].state = "runnable"
<1>1. proc \in [Pid -> Process] /\ Sound(proc[p])
  BY DEF IInv, TypeOK, ProcessesSound
\* What replaces one child and keeps its stage is not such a step.
<1>2. ASSUME NEW q \in Pid, NEW r, proc' = [proc EXCEPT ![q] = r],
             r.stage = proc[q].stage
      PROVE  FALSE
  BY <1>1, <1>2
<1>3. shell \in {"submit", "resume", "give", "wait", "regain"}
        => pid \in Pid /\ Sound(proc[pid])
  BY DEF IInv, CallsInOrder, TypeOK, ProcessesSound
<1>4. ASSUME NEW q \in Pid, Submit(q) PROVE FALSE
  <2>1. [proc[q] EXCEPT !.state = "runnable"].stage = proc[q].stage
    BY <1>1 DEF Process
  <2> QED BY <1>2, <1>4, <2>1 DEF Submit
<1>5. ASSUME NEW k \in 1..Len(job_table), Debug(k) PROVE FALSE
  <2> DEFINE q == job_table[k].pid
  <2>1. q \in Pid /\ Sound(proc[q])
    BY JobsType DEF IInv, ProcessesSound
  <2>2. proc' = [proc EXCEPT ![q] = Signal(proc[q], "SIGUSR1")]
    BY <1>5 DEF Debug
  <2> HIDE DEF q
  <2> QED BY <1>2, <2>1, <2>2, Signalled
<1>6. CASE SubmitWaits \/ WaitReturns
  <2>1. /\ pid \in Pid /\ Sound(proc[pid]) /\ Waitable(proc[pid])
        /\ proc' = [proc EXCEPT ![pid] = Waited(proc[pid])]
    BY <1>3, <1>6 DEF SubmitWaits, WaitReturns
  <2> QED BY <1>2, <2>1, WaitedFor
<1>7. CASE Resume
  <2>1. \/ proc' = [proc EXCEPT ![pid] = Continue(proc[pid])] /\ pid \in Pid
        \/ UNCHANGED proc
    BY <1>3, <1>7 DEF Resume
  <2>2. pid \in Pid => Continue(proc[pid]).stage = proc[pid].stage
    BY <1>3, <1>7, Continued DEF Resume
  <2> QED BY <1>2, <2>1, <2>2
<1>8. CASE CtrlC
  <2>1. foreground \in Pid /\ Sound(proc[foreground])
    BY <1>8 DEF CtrlC, IInv, ProcessesSound
  <2>2. proc' = [proc EXCEPT ![foreground] = Signal(proc[foreground], "SIGINT")]
    BY <1>8 DEF CtrlC
  <2> QED BY <1>2, <2>1, <2>2, Signalled
<1>9. CASE CtrlZ
  <2>1. foreground \in Pid /\ Sound(proc[foreground])
    BY <1>9 DEF CtrlZ, IInv, ProcessesSound
  <2>2. /\ proc' = [proc EXCEPT ![foreground] = Stops(proc[foreground])]
        /\ proc[foreground].state = "runnable"
    BY <1>9 DEF CtrlZ
  <2> QED BY <1>2, <2>1, <2>2, DiesOrStops
\* A child at another stage, or another child, moves.
<1>10. ASSUME NEW q \in Pid, NEW stage, NEW r, Moves(q, stage, r), stage # "loop"
       PROVE  FALSE
  BY <1>1, <1>10 DEF Moves
<1>11. ASSUME NEW q \in Pid, ChildWorks(q) \/ Repl(q) PROVE RunLoop(p)
  <2>1. CASE Block(q) \/ Raise(q) \/ Exec(q) \/ Install(q) \/ Step(q) \/ Repl(q)
    BY <1>10, <2>1 DEF Block, Raise, Exec, Install, Step, Repl
  <2>2. CASE RunLoop(q)
    <3>1. q = p
      BY <1>1, <2>2 DEF RunLoop, Moves
    <3> QED BY <2>2, <3>1
  <2> QED BY <1>11, <2>1, <2>2 DEF ChildWorks
<1>12. CASE RunLoop(p)
  <2> DEFINE n == [At(p, "repl") EXCEPT !.debug = TRUE]
  <2>1. n.stage = "repl"
    BY <1>1 DEF At, Process
  <2>2. ~Moves(p, "loop", n)
    <3> HIDE DEF n
    <3> QED BY <1>1, <2>1 DEF Moves
  <2> QED BY <1>12, <2>2 DEF RunLoop, Moves
<1>13. CASE UNCHANGED proc
  BY <1>13
<1> QED BY <1>4, <1>5, <1>6, <1>7, <1>8, <1>9, <1>11, <1>12, <1>13
        DEF Next, ShellWorks, Run, GiveTerminal, Regain, SubmitInterrupted, vars

\* No instruction begins while a SIGUSR1 that was sent is pending or was noted
\* and is not yet answered by a stop (main.cpp of the VM and vm.cpp's run).
THEOREM DebugIsNoticed == Spec => DebugStopsProgram
<1>1. ASSUME IInv, [Next]_vars
      PROVE  \A p \in Pid : proc[p].debug \/ "SIGUSR1" \in proc[p].pending =>
               ~(proc[p].stage = "loop" /\ proc'[p].stage = "step")
  <2> SUFFICES ASSUME NEW p \in Pid, proc[p].stage = "loop", proc'[p].stage = "step"
               PROVE  ~proc[p].debug /\ proc[p].pending = {}
    OBVIOUS
  <2>1. ~proc[p].debug /\ proc[p].state = "runnable"
    BY <1>1, InstructionBegins
  <2>2. Sound(proc[p])
    BY <1>1 DEF IInv, ProcessesSound
  <2> QED BY <2>1, <2>2 DEF Sound
<1> QED BY <1>1, JobsInvariant, PTL DEF Spec, DebugStopsProgram
=============================================================================
