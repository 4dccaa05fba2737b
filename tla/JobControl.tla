----------------------------- MODULE JobControl -----------------------------
(***************************************************************************)
(* The jobs of bareshell: execute_submit, execute_run_job and              *)
(* execute_debug_job of bareshell/src/utils.c, the part of the child they  *)
(* fork up to its exec, and what bytecode_vm/src/main.cpp does until the   *)
(* program runs.  The kernel's part is process states, signals, waitpid    *)
(* and the foreground group of one terminal; it is external code and is    *)
(* modelled as the shell uses it.                                          *)
(*                                                                         *)
(* Between two calls of the shell the child and the keyboard may move, so  *)
(* the shell takes one step for each call that another actor can notice.   *)
(*                                                                         *)
(* A definition marked "Broken" is a defect the code does not have: it     *)
(* replaces the definition below it to show that a property can fail.      *)
(***************************************************************************)
EXTENDS Naturals, Sequences, SequencesExt

CONSTANTS Pid,      \* the pids fork hands out, in ascending order; none is reused
          MAX_JOBS, \* entries of job_table
          Shell,    \* the process group of the shell
          NoPid

ASSUME MaxJobsAssumption == MAX_JOBS \in Nat
ASSUME PidAssumption == Pid \subseteq Nat /\ Shell \notin Pid /\ NoPid \notin Pid

VARIABLES
  job_table,   \* the entries in use: the job with id k is job_table[k]
  shell,       \* which call the shell makes next
  pid,         \* the local variable pid of the command that runs
  foreground,  \* the terminal's foreground process group
  proc         \* the children, as the kernel sees them

vars == <<job_table, shell, pid, foreground, proc>>

Command == {"prompt", "submit", "resume", "give", "wait", "regain"}

\* JobStatus of jobs.h.
JobStatus == {"SUBMITTED", "RUNNING", "FINISHED", "TERMINATED"}

\* Where a child is: before sigprocmask, before raise, before execvp, before
\* main has its handler, at the top of run, in step, at the prompt of repl.
Stage == {"block", "raise", "exec", "install", "loop", "step", "repl"}
Executed == {"install", "loop", "step", "repl"}    \* it has become bvm

Process ==
  [state    : {"none", "runnable", "stopped", "zombie", "reaped"},
   stage    : Stage,
   blocked  : BOOLEAN,                     \* SIGUSR1 is blocked
   pending  : SUBSET {"SIGUSR1", "SIGINT"},
   debug    : BOOLEAN,                     \* the VM's debug_mode
   reported : BOOLEAN,                     \* waitpid has told of the stop
   status   : {"none", "exit 0", "exit 1", "signal"}]

NotCreated == [state |-> "none", stage |-> "block", blocked |-> FALSE,
               pending |-> {}, debug |-> FALSE, reported |-> FALSE,
               status |-> "none"]

Init == /\ job_table = << >>
        /\ shell = "prompt"
        /\ pid = NoPid
        /\ foreground = Shell
        /\ proc = [p \in Pid |-> NotCreated]

-----------------------------------------------------------------------------
(* The kernel.                                                             *)

Dies(r, how) == [r EXCEPT !.state = "zombie", !.status = how]
Stops(r) == [r EXCEPT !.state = "stopped", !.reported = FALSE]

\* What the signals in sigs do to a child that runs.  SIGINT has the shell's
\* handler until exec resets it; SIGUSR1 has no handler before main sets one.
Handles(r, sigs) ==
  IF \/ "SIGINT" \in sigs /\ r.stage \in Executed
     \/ "SIGUSR1" \in sigs /\ r.stage = "block"
    THEN Dies(r, "signal")
    ELSE [r EXCEPT !.debug = @ \/ "SIGUSR1" \in sigs]

\* The pending signals are taken, a blocked SIGUSR1 excepted.
Deliver(r) ==
  LET held == IF r.blocked THEN r.pending \cap {"SIGUSR1"} ELSE {}
  IN  Handles([r EXCEPT !.pending = held], r.pending \ held)

\* A signal sent to a child waits until the child runs.
Signal(r, sig) ==
  IF r.state \in {"runnable", "stopped"}
    THEN LET s == [r EXCEPT !.pending = @ \cup {sig}]
         IN  IF r.state = "runnable" THEN Deliver(s) ELSE s
    ELSE r

\* SIGCONT.
Continue(r) ==
  IF r.state = "stopped" THEN Deliver([r EXCEPT !.state = "runnable"]) ELSE r

\* waitpid(pid, &status, WUNTRACED) has something to return.
Waitable(r) == \/ r.state = "zombie"
               \/ r.state = "stopped" /\ ~r.reported

\* ... and takes it: a dead child is reaped, a stop is told once.
Waited(r) == IF r.state = "zombie" THEN [r EXCEPT !.state = "reaped"]
                                   ELSE [r EXCEPT !.reported = TRUE]

\* The pid fork returns.
IsNextPid(p) == /\ proc[p].state = "none"
                /\ \A q \in Pid : q < p => proc[q].state # "none"

-----------------------------------------------------------------------------
(* The shell: submit.  A full table, a missing operand, an assembler that  *)
(* fails and a fork that fails leave everything as it is.                  *)

\* Broken: the table is taken for full one job too late.
SubmitOneMore(p) ==
  /\ shell = "prompt"
  /\ Len(job_table) <= MAX_JOBS
  /\ IsNextPid(p)
  /\ proc' = [proc EXCEPT ![p].state = "runnable"]
  /\ pid' = p
  /\ shell' = "submit"
  /\ UNCHANGED <<job_table, foreground>>

Submit(p) ==
  /\ shell = "prompt"
  /\ Len(job_table) < MAX_JOBS
  /\ IsNextPid(p)
  /\ proc' = [proc EXCEPT ![p].state = "runnable"]
  /\ pid' = p
  /\ shell' = "submit"
  /\ UNCHANGED <<job_table, foreground>>

\* The new entry, and back to the prompt.
Register == /\ job_table' = Append(job_table, [pid |-> pid, status |-> "SUBMITTED"])
            /\ shell' = "prompt"
            /\ pid' = NoPid

SubmitWaits == /\ shell = "submit"
               /\ Waitable(proc[pid])
               /\ proc' = [proc EXCEPT ![pid] = Waited(@)]
               /\ Register
               /\ UNCHANGED foreground

\* Ctrl-C: the handler has no SA_RESTART and waitpid fails with EINTR, which
\* nobody looks at.  The child's own group does not get the signal.
SubmitInterrupted == /\ shell = "submit"
                     /\ foreground = Shell
                     /\ ~Waitable(proc[pid])
                     /\ Register
                     /\ UNCHANGED <<foreground, proc>>

-----------------------------------------------------------------------------
(* The shell: run and debug.                                               *)

\* The entry of the job whose command runs: a pid is in the table once.
Index == CHOOSE k \in 1..Len(job_table) : job_table[k].pid = pid

SetStatus(s) == job_table' = [job_table EXCEPT ![Index].status = s]

Run(k) == /\ shell = "prompt"
          /\ pid' = job_table[k].pid
          /\ shell' = "resume"
          /\ UNCHANGED <<job_table, foreground, proc>>

\* SIGUSR1 comes before the SIGCONT of run; a failure of kill is not looked at.
Debug(k) == /\ shell = "prompt"
            /\ pid' = job_table[k].pid
            /\ proc' = [proc EXCEPT ![job_table[k].pid] = Signal(@, "SIGUSR1")]
            /\ shell' = "resume"
            /\ UNCHANGED <<job_table, foreground>>

\* Broken: the job is not continued.
ResumeWithoutSigcont ==
  /\ shell = "resume"
  /\ SetStatus("RUNNING")
  /\ IF proc[pid].state = "reaped"
       THEN shell' = "prompt" /\ pid' = NoPid
       ELSE shell' = "give" /\ UNCHANGED pid
  /\ UNCHANGED <<foreground, proc>>

\* The status is set before kill, which fails when the process is reaped.
Resume ==
  /\ shell = "resume"
  /\ SetStatus("RUNNING")
  /\ IF proc[pid].state = "reaped"
       THEN shell' = "prompt" /\ pid' = NoPid /\ UNCHANGED proc
       ELSE /\ shell' = "give"
            /\ proc' = [proc EXCEPT ![pid] = Continue(@)]
            /\ UNCHANGED pid
  /\ UNCHANGED foreground

\* tcsetpgrp to the job, once the job already runs.
GiveTerminal == /\ shell = "give"
                /\ foreground' = pid
                /\ shell' = "wait"
                /\ UNCHANGED <<job_table, pid, proc>>

WaitReturns == /\ shell = "wait"
               /\ Waitable(proc[pid])
               /\ proc' = [proc EXCEPT ![pid] = Waited(@)]
               /\ shell' = "regain"
               /\ UNCHANGED <<job_table, pid, foreground>>

\* The status the table gets for what waitpid returned.
StatusOf(r) ==
  CASE r.status \in {"exit 0", "exit 1"} -> "FINISHED"
    [] r.status = "signal" -> "TERMINATED"
    [] r.status = "none" -> "SUBMITTED"

\* Broken: a stop leaves the status alone, or the terminal is not taken back.
RegainKeepsStatus == /\ shell = "regain"
                     /\ foreground' = Shell
                     /\ IF StatusOf(proc[pid]) = "SUBMITTED"
                          THEN UNCHANGED job_table
                          ELSE SetStatus(StatusOf(proc[pid]))
                     /\ shell' = "prompt"
                     /\ pid' = NoPid
                     /\ UNCHANGED proc
RegainWithoutTerminal == /\ shell = "regain"
                         /\ SetStatus(StatusOf(proc[pid]))
                         /\ shell' = "prompt"
                         /\ pid' = NoPid
                         /\ UNCHANGED <<foreground, proc>>

\* tcsetpgrp to the shell, SIGTTOU being ignored, and the status.
Regain == /\ shell = "regain"
          /\ foreground' = Shell
          /\ SetStatus(StatusOf(proc[pid]))
          /\ shell' = "prompt"
          /\ pid' = NoPid
          /\ UNCHANGED proc

-----------------------------------------------------------------------------
(* A child.                                                                *)

\* The child p, which runs and is at the given stage, becomes r.
Moves(p, stage, r) == /\ proc[p].state = "runnable"
                      /\ proc[p].stage = stage
                      /\ proc' = [proc EXCEPT ![p] = r]
                      /\ UNCHANGED <<job_table, shell, pid, foreground>>

At(p, stage) == [proc[p] EXCEPT !.stage = stage]

\* setpgid has been called by both sides: the group exists from the fork on.
Block(p) == Moves(p, "block", [At(p, "raise") EXCEPT !.blocked = TRUE])

\* Broken: the child does not stop before it becomes bvm.
RaiseNothing(p) == Moves(p, "raise", At(p, "exec"))

\* raise(SIGSTOP)
Raise(p) == Moves(p, "raise", Stops(At(p, "exec")))

\* execvp; it fails when bvm is missing.
Exec(p) == \/ Moves(p, "exec", At(p, "install"))
           \/ Moves(p, "exec", Dies(proc[p], "exit 1"))

\* Broken: main does not unblock SIGUSR1.
InstallOnly(p) == Moves(p, "install", At(p, "loop"))

\* main sets the handler and unblocks SIGUSR1, which exec left blocked and
\* pending; an unreadable or malformed file is refused by load.
Install(p) ==
  LET r == Deliver([At(p, "loop") EXCEPT !.blocked = FALSE])
  IN  \/ Moves(p, "install", r)
      \/ Moves(p, "install", Dies(r, "exit 1"))

\* The top of run's loop; a breakpoint sets debug_mode as well.
RunLoop(p) ==
  \/ Moves(p, "loop", [At(p, "repl") EXCEPT !.debug = TRUE])
  \/ ~proc[p].debug /\ Moves(p, "loop", At(p, "step"))

\* An instruction that goes on, HALT, an error.
Step(p) == \/ Moves(p, "step", At(p, "loop"))
           \/ \E how \in {"exit 0", "exit 1"} : Moves(p, "step", Dies(proc[p], how))

\* repl reads a command: step, continue, quit.  Who reads from a terminal that
\* belongs to another group is stopped by SIGTTIN.
Repl(p) ==
  IF foreground = p
    THEN \/ Moves(p, "repl", At(p, "step"))
         \/ Moves(p, "repl", [At(p, "step") EXCEPT !.debug = FALSE])
         \/ Moves(p, "repl", Dies(proc[p], "exit 0"))
    ELSE Moves(p, "repl", Stops(proc[p]))

-----------------------------------------------------------------------------
(* The keyboard.  At the prompt Ctrl-C only makes the shell prompt again;  *)
(* a Ctrl-Z there stops the shell itself and is left out.                  *)

CtrlC == /\ foreground \in Pid
         /\ proc' = [proc EXCEPT ![foreground] = Signal(@, "SIGINT")]
         /\ UNCHANGED <<job_table, shell, pid, foreground>>

CtrlZ == /\ foreground \in Pid
         /\ proc[foreground].state = "runnable"
         /\ proc' = [proc EXCEPT ![foreground] = Stops(@)]
         /\ UNCHANGED <<job_table, shell, pid, foreground>>

-----------------------------------------------------------------------------
ShellWorks == SubmitWaits \/ Resume \/ GiveTerminal \/ WaitReturns \/ Regain

ChildWorks(p) == \/ Block(p) \/ Raise(p) \/ Exec(p) \/ Install(p)
                 \/ RunLoop(p) \/ Step(p)

Next == \/ \E p \in Pid : Submit(p)
        \/ \E k \in 1..Len(job_table) : Run(k) \/ Debug(k)
        \/ ShellWorks
        \/ SubmitInterrupted
        \/ \E p \in Pid : ChildWorks(p) \/ Repl(p)
        \/ CtrlC \/ CtrlZ

\* The scheduler runs the shell and every child that can run, and a read from
\* somebody else's terminal stops the reader at once.  Nobody has to type.
Spec == /\ Init /\ [][Next]_vars
        /\ WF_vars(ShellWorks)
        /\ \A p \in Pid : /\ WF_vars(ChildWorks(p))
                          /\ WF_vars(foreground # p /\ Repl(p))

-----------------------------------------------------------------------------
(* Properties.                                                             *)

Job == [pid : Pid, status : JobStatus]

\* Every variable has its type.
TypeOK == /\ job_table \in Seq(Job)
          /\ Len(job_table) <= MAX_JOBS
          /\ shell \in Command
          /\ pid \in Pid \cup {NoPid}
          /\ foreground \in Pid \cup {Shell}
          /\ proc \in [Pid -> Process]

\* Whenever the shell prompts it owns the terminal, however the last command
\* ended (utils.c:155): otherwise its next read would stop it.
PromptOwnsTerminal == shell = "prompt" => foreground = Shell

\* A VM makes progress only while the shell waits for it: a submitted job does
\* not start by itself and a stopped one does not resume behind the prompt
\* (TECHNICAL.md:13), whichever commands were interrupted before.
OnlyTheJobWaitedForRuns ==
  \A p \in Pid : proc[p].state = "runnable" /\ proc[p].stage \in Executed => pid = p

\* What the table says of a job agrees with its process as far as run looks at it
\* (utils.c:161 to 172): FINISHED and TERMINATED tell exit from death by a signal,
\* and at the prompt the SUBMITTED jobs are the ones that can still be run.  That
\* a FINISHED job succeeded, as jobs.h:9 has it, is not claimed and not true: the
\* exit code is printed and not looked at.
StatusIsTrue ==
  \A k \in 1..Len(job_table) :
    LET r == proc[job_table[k].pid]
    IN  /\ job_table[k].status = "FINISHED" =>
             r.state = "reaped" /\ r.status \in {"exit 0", "exit 1"}
        /\ job_table[k].status = "TERMINATED" =>
             r.state = "reaped" /\ r.status = "signal"
        /\ job_table[k].status = "SUBMITTED" => r.state # "reaped"
        /\ shell = "prompt" /\ r.state # "reaped" => job_table[k].status = "SUBMITTED"

\* debug drops the user into the prompt before the program goes on
\* (TECHNICAL.md:37): no instruction begins while a SIGUSR1 that was sent is
\* pending or was noted and not yet answered by a stop.
DebugStopsProgram ==
  [][\A p \in Pid : proc[p].debug \/ "SIGUSR1" \in proc[p].pending =>
       ~(proc[p].stage = "loop" /\ proc'[p].stage = "step")]_vars

\* The job runs its program, or waits for input on the terminal it owns.
Serves(p) == /\ proc[p].state = "runnable"
             /\ \/ proc[p].stage \in {"loop", "step"}
                \/ proc[p].stage = "repl" /\ foreground = p

\* No command hangs: the shell comes back to its prompt unless its job runs on
\* or waits for the user, whatever was stopped, killed or interrupted.
CommandReturns == shell # "prompt" ~> shell = "prompt" \/ (pid # NoPid /\ Serves(pid))

\* "Currently executing" (jobs.h:8).
RunningIsExecuting ==
  shell = "prompt" =>
    \A k \in 1..Len(job_table) :
      job_table[k].status = "RUNNING" => proc[job_table[k].pid].state = "runnable"
=============================================================================
