------------------------------ MODULE Pipeline ------------------------------
(***************************************************************************)
(* execute_commands and execute_single_command of bareshell/src/utils.c:   *)
(* the descriptors, process groups and waits of a command line, over a     *)
(* session of several lines.  Descriptor tables, process states and the    *)
(* terminal are the kernel's; they are external and modelled as the shell  *)
(* uses them.                                                              *)
(*                                                                         *)
(* A program is known by what it does with its input and output: "plain"   *)
(* ends by itself, a "filter" reads to the end of its input, "endless"     *)
(* writes until nobody reads, "missing" cannot be executed.                *)
(*                                                                         *)
(* failed is not in the code: it says that a pipe or fork has failed.      *)
(* A definition marked "Broken" is a defect the code does not have: it     *)
(* replaces the definition below it to show that a property can fail.      *)
(***************************************************************************)
EXTENDS Integers, Sequences, FiniteSets, Functions

CONSTANTS Line,    \* the command lines, as the parser builds them
          Pid,     \* the pids fork hands out in ascending order; none is reused
          Shell,   \* the process group of the shell
          MAX_FD   \* the descriptors of a process

ASSUME PidAssumption ==
  Pid \subseteq Nat \ {0} /\ IsFiniteSet(Pid) /\ Shell \notin Pid
ASSUME DescriptorAssumption == MAX_FD \in Nat /\ MAX_FD >= 2

VARIABLES
  shell,           \* the call the shell makes next
  command_ptr,     \* the stages of the line that are left
  is_background,
  prev_pipe_read,  \* local variables of execute_commands
  first_pid,
  fds,             \* the shell's descriptors: number -> file
  foreground,      \* the terminal's foreground process group
  proc,            \* the children
  failed

local == <<command_ptr, is_background, prev_pipe_read, first_pid>>
kernel == <<fds, foreground, proc>>
vars == <<shell, local, kernel, failed>>

Call == {"prompt", "stage", "give", "wait", "regain", "ended"}
Program == {"plain", "filter", "endless", "missing"}
Builtin == {"cd", "exit"}
Redirection == {"none", "file", "missing"}
Command == [prog : Program \cup Builtin, in : Redirection, out : Redirection]

ASSUME LineAssumption ==
  \A line \in Line : /\ line.stages \in Seq(Command) \ {<< >>}
                     /\ line.is_background \in BOOLEAN

STDIN_FILENO == 0
STDOUT_FILENO == 1

\* Pipes are numbered; a number is used again when no descriptor refers to it.
Pipe == Nat
Terminal == <<0, "terminal">>
Disk == <<0, "disk">>
File == {Terminal, Disk} \cup (Pipe \X {"r", "w"})

NotCreated == [state |-> "none", stage |-> "setup", group |-> Shell,
               command |-> [prog |-> "plain", in |-> "none", out |-> "none"],
               is_background |-> FALSE, reported |-> FALSE, fds |-> << >>,
               prev |-> STDIN_FILENO, pipe_fd |-> <<0, 0>>, is_last |-> TRUE]

Init == /\ shell = "prompt"
        /\ command_ptr = << >> /\ is_background = FALSE
        /\ prev_pipe_read = STDIN_FILENO /\ first_pid = 0
        /\ fds = [d \in 0..2 |-> Terminal]
        /\ foreground = Shell
        /\ proc = [p \in Pid |-> NotCreated]
        /\ failed = FALSE

-----------------------------------------------------------------------------
(* Descriptors and processes.                                              *)

Open(f, d, file) == [e \in DOMAIN f \cup {d} |-> IF e = d THEN file ELSE f[e]]
Close(f, d) == Restrict(f, DOMAIN f \ {d})
Dup2(f, old, new) == IF old \in DOMAIN f THEN Open(f, new, f[old]) ELSE f
LowestFree(f) == CHOOSE d \in 0..MAX_FD : d \notin DOMAIN f /\ 0..d-1 \subseteq DOMAIN f

Living(p) == proc[p].state \in {"runnable", "stopped"}
Held == Range(fds) \cup (UNION {Range(proc[p].fds) : p \in {q \in Pid : Living(q)}})
FreshPipe ==
  CHOOSE k \in 0..Cardinality(Held) : {<<k, "r">>, <<k, "w">>} \cap Held = {}

\* The end of a pipe whose other end nobody holds: the end of the input, or a
\* pipe without a reader.
IsPipe(file) == file[2] \in {"r", "w"}
Alone(file) == IsPipe(file) /\ <<file[1], IF file[2] = "r" THEN "w" ELSE "r">> \notin Held

\* Of a dead child the kernel keeps what waitpid needs.
Dies(r) == [NotCreated EXCEPT !.state = "zombie", !.group = r.group,
                              !.is_background = r.is_background]
Stops(r) == [r EXCEPT !.state = "stopped", !.reported = FALSE]

\* waitpid(-first_pid, &status, WUNTRACED)
Member(p) == proc[p].state # "none" /\ proc[p].group = first_pid
Waitable(p) == \/ proc[p].state = "zombie"
               \/ proc[p].state = "stopped" /\ ~proc[p].reported

-----------------------------------------------------------------------------
(* The shell.                                                              *)

\* A line is entered and parsed.  A single cd changes nothing that is kept
\* here; submit, run and debug are the subject of JobControl.  Bound: a session
\* ends with the line in which something fails.
Enter(line) == /\ shell = "prompt" /\ ~failed
               /\ Len(line.stages) > 1 \/ line.stages[1].prog \notin Builtin
               /\ command_ptr' = line.stages
               /\ is_background' = line.is_background
               /\ prev_pipe_read' = STDIN_FILENO
               /\ first_pid' = 0
               /\ shell' = "stage"
               /\ UNCHANGED <<kernel, failed>>

Exit(line) == /\ shell = "prompt"
              /\ Len(line.stages) = 1 /\ line.stages[1].prog = "exit"
              /\ shell' = "ended"
              /\ UNCHANGED <<local, kernel, failed>>

\* A built-in within a pipeline is not executed and ends the pipe before it.
Skip == /\ shell = "stage" /\ command_ptr # << >>
        /\ Head(command_ptr).prog \in Builtin
        /\ command_ptr' = Tail(command_ptr)
        /\ UNCHANGED <<shell, is_background, prev_pipe_read, first_pid, kernel, failed>>

IsLast == \A k \in {2} \cap DOMAIN command_ptr : command_ptr[k].prog \in Builtin

AtStage == shell = "stage" /\ command_ptr # << >> /\ Head(command_ptr).prog \notin Builtin

\* pipe fails, at the latest when descriptors are used up.
MayPipe == IsLast \/ Cardinality(0..MAX_FD \ DOMAIN fds) >= 2

\* The function returns: the stages that run already are not waited for.
PipeFails == /\ AtStage /\ ~IsLast
             /\ shell' = "prompt"
             /\ failed' = TRUE
             /\ UNCHANGED <<local, kernel>>

\* pipe(pipe_fd), unless the stage is the last.
pipe_fd == IF IsLast THEN <<0, 0>>
           ELSE LET r == LowestFree(fds) IN <<r, LowestFree(Open(fds, r, Disk))>>
fdsWithPipe == IF IsLast THEN fds
               ELSE Open(Open(fds, pipe_fd[1], <<FreshPipe, "r">>),
                         pipe_fd[2], <<FreshPipe, "w">>)

\* fork fails: nothing is closed, and -1 is kept as the group of the line if
\* the stage is the first.
ForkFails == /\ AtStage /\ MayPipe
             /\ fds' = fdsWithPipe
             /\ first_pid' = IF first_pid = 0 THEN -1 ELSE first_pid
             /\ command_ptr' = Tail(command_ptr)
             /\ failed' = TRUE
             /\ UNCHANGED <<shell, is_background, prev_pipe_read, foreground, proc>>

CloseIf(f, d) == IF d = STDIN_FILENO THEN f ELSE Close(f, d)

\* Broken: the parent keeps the end of the pipe that its child writes to, or the
\* one that it reads from.
KeepsWriteEnd ==
  /\ fds' = CloseIf(fdsWithPipe, prev_pipe_read)
  /\ prev_pipe_read' = IF IsLast THEN prev_pipe_read ELSE pipe_fd[1]
KeepsReadEnd ==
  /\ fds' = IF IsLast THEN fds ELSE Close(fdsWithPipe, pipe_fd[2])
  /\ prev_pipe_read' = IF IsLast THEN prev_pipe_read ELSE pipe_fd[1]

\* Broken: after the last stage prev_pipe_read is set to -1 for "no pipe", but the
\* code that uses it compares with STDIN_FILENO.
ResetsToNone ==
  IF IsLast
    THEN fds' = CloseIf(fds, prev_pipe_read) /\ prev_pipe_read' = -1
    ELSE /\ fds' = Close(CloseIf(fdsWithPipe, prev_pipe_read), pipe_fd[2])
         /\ prev_pipe_read' = pipe_fd[1]

\* The end of execute_single_command in the parent.  After the last stage
\* prev_pipe_read keeps the number of a descriptor that is closed.
CloseInParent ==
  IF IsLast
    THEN fds' = CloseIf(fds, prev_pipe_read) /\ UNCHANGED prev_pipe_read
    ELSE /\ fds' = Close(CloseIf(fdsWithPipe, prev_pipe_read), pipe_fd[2])
         /\ prev_pipe_read' = pipe_fd[1]

\* setpgid is called by both sides, so the group is set when either goes on; for
\* a group of -1 it fails.
GroupOf(p) == CASE first_pid = 0 -> p
                [] first_pid = -1 -> Shell
                [] OTHER -> first_pid

Fork(p) ==
  /\ AtStage /\ MayPipe
  /\ proc[p].state = "none" /\ \A q \in Pid : q < p => proc[q].state # "none"
  /\ proc' = [proc EXCEPT ![p] =
       [state |-> "runnable", stage |-> "setup", group |-> GroupOf(p),
        command |-> Head(command_ptr), is_background |-> is_background,
        reported |-> FALSE, fds |-> fdsWithPipe,
        prev |-> prev_pipe_read, pipe_fd |-> pipe_fd, is_last |-> IsLast]]
  /\ CloseInParent
  /\ first_pid' = IF first_pid = 0 THEN p ELSE first_pid
  /\ command_ptr' = Tail(command_ptr)
  /\ UNCHANGED <<shell, is_background, foreground, failed>>

\* Broken: the shell waits for the first stage only.
WaitsForFirst == /\ shell = "wait"
                 /\ proc[first_pid].state = "reaped"
                 /\ shell' = "regain"
                 /\ UNCHANGED <<local, kernel, failed>>

\* A line in the background is left to itself, as is one without a group.
StagesDone == /\ shell = "stage" /\ command_ptr = << >>
              /\ shell' = IF first_pid > 0 /\ ~is_background THEN "give" ELSE "prompt"
              /\ UNCHANGED <<local, kernel, failed>>

\* tcsetpgrp to the line's group, whose members may be running already.
GiveTerminal == /\ shell = "give"
                /\ foreground' = first_pid
                /\ shell' = "wait"
                /\ UNCHANGED <<local, fds, proc, failed>>

\* One turn of the loop: a member that ended is reaped, one that stopped is
\* told once and nothing follows from it.
WaitReturns(p) ==
  /\ shell = "wait" /\ Member(p) /\ Waitable(p)
  /\ proc' = [proc EXCEPT ![p] = IF @.state = "zombie" THEN [@ EXCEPT !.state = "reaped"]
                                 ELSE [@ EXCEPT !.reported = TRUE]]
  /\ UNCHANGED <<shell, local, fds, foreground, failed>>

\* ECHILD: no member is left.
WaitEnds == /\ shell = "wait"
            /\ \A p \in Pid : Member(p) => proc[p].state = "reaped"
            /\ shell' = "regain"
            /\ UNCHANGED <<local, kernel, failed>>

\* Broken: the terminal is not taken back.
RegainNothing == /\ shell = "regain"
                 /\ shell' = "prompt"
                 /\ UNCHANGED <<local, kernel, failed>>

\* tcsetpgrp to the shell, SIGTTOU being ignored.
Regain == /\ shell = "regain"
          /\ foreground' = Shell
          /\ shell' = "prompt"
          /\ UNCHANGED <<local, fds, proc, failed>>

-----------------------------------------------------------------------------
(* A child.                                                                *)

Becomes(p, r) == /\ proc' = [proc EXCEPT ![p] = r]
                 /\ UNCHANGED <<shell, local, fds, foreground, failed>>

\* Broken: the read end of the stage's own pipe stays open.
KeepsOwnReadEnd(r) == Close(Dup2(r.fds, r.pipe_fd[2], STDOUT_FILENO), r.pipe_fd[2])

\* The stage's own pipe becomes its output, the pipe before it its input.
JoinOutput(r) ==
  Close(Dup2(Close(r.fds, r.pipe_fd[1]), r.pipe_fd[2], STDOUT_FILENO), r.pipe_fd[2])
JoinInput(r) == Close(Dup2(r.fds, r.prev, STDIN_FILENO), r.prev)
Joined(r) ==
  LET in == IF r.prev = STDIN_FILENO THEN r ELSE [r EXCEPT !.fds = JoinInput(r)]
  IN  IF r.is_last THEN in.fds ELSE JoinOutput(in)

\* < and > come after the pipes and replace them.
Redirect(f, d, file) == IF file = "none" THEN f ELSE Open(f, d, Disk)

\* The child up to its execve; a file that cannot be opened or executed ends it.
Setup(p) ==
  LET r == proc[p]
      c == r.command
      f == Redirect(Redirect(Joined(r), STDIN_FILENO, c.in), STDOUT_FILENO, c.out)
  IN  /\ r.state = "runnable" /\ r.stage = "setup"
      /\ Becomes(p, IF c.in = "missing" \/ c.out = "missing" \/ c.prog = "missing"
                      THEN Dies(r)
                      ELSE [r EXCEPT !.stage = "run", !.fds = f])

Runs(p) == proc[p].state = "runnable" /\ proc[p].stage = "run"
Stdin(p) == proc[p].fds[STDIN_FILENO]
Stdout(p) == proc[p].fds[STDOUT_FILENO]

\* The program ends: by itself, at the end of its input, by SIGPIPE.  What is
\* written to a pipe fits into it.
Ends(p) == /\ Runs(p)
           /\ CASE proc[p].command.prog = "plain" -> TRUE
                [] proc[p].command.prog = "filter" ->
                     \/ Stdin(p) = Disk
                     \/ Stdin(p) # Terminal /\ (Alone(Stdin(p)) \/ Alone(Stdout(p)))
                [] proc[p].command.prog = "endless" -> Alone(Stdout(p))
           /\ Becomes(p, Dies(proc[p]))

\* It reads from the terminal: SIGTTIN, or the end of input that the user types.
ReadsTerminal(p) == Runs(p) /\ proc[p].command.prog = "filter" /\ Stdin(p) = Terminal
Refused(p) == /\ ReadsTerminal(p) /\ proc[p].group # foreground
              /\ Becomes(p, Stops(proc[p]))
CtrlD(p) == /\ ReadsTerminal(p) /\ proc[p].group = foreground
            /\ Becomes(p, Dies(proc[p]))

\* The keyboard's signals.  A child has the shell's handler for SIGINT, which does
\* nothing, until it takes the default back on its way to execve; SIGTSTP stops in
\* any case.
CtrlC == /\ \E Hit \in SUBSET {p \in Pid : proc[p].state = "runnable"
                                        /\ proc[p].group = foreground} :
              /\ Hit # {}
              /\ \A p \in Pid : Runs(p) /\ proc[p].group = foreground => p \in Hit
              /\ proc' = [p \in Pid |-> IF p \in Hit THEN Dies(proc[p]) ELSE proc[p]]
         /\ UNCHANGED <<shell, local, fds, foreground, failed>>
CtrlZ == /\ foreground # Shell
         /\ \E p \in Pid : proc[p].state = "runnable" /\ proc[p].group = foreground
         /\ proc' = [p \in Pid |-> IF proc[p].state = "runnable" /\ proc[p].group = foreground
                                     THEN Stops(proc[p]) ELSE proc[p]]
         /\ UNCHANGED <<shell, local, fds, foreground, failed>>

-----------------------------------------------------------------------------
ShellWorks == \/ Skip \/ StagesDone \/ GiveTerminal \/ WaitEnds \/ Regain
              \/ PipeFails \/ ForkFails
              \/ \E p \in Pid : Fork(p) \/ WaitReturns(p)
ChildWorks(p) == Setup(p) \/ Ends(p) \/ Refused(p)

Next == \/ \E line \in Line : Enter(line) \/ Exit(line)
        \/ ShellWorks
        \/ \E p \in Pid : ChildWorks(p) \/ CtrlD(p)
        \/ CtrlC \/ CtrlZ

\* The scheduler runs the shell and every child that can go on.  Nobody has to
\* type.
Spec == Init /\ [][Next]_vars /\ WF_vars(ShellWorks)
             /\ \A p \in Pid : WF_vars(ChildWorks(p))

-----------------------------------------------------------------------------
(* Properties.                                                             *)

Descriptors(f) == DOMAIN f \subseteq 0..MAX_FD /\ Range(f) \subseteq File

\* Every variable has its type.
TypeOK ==
  /\ shell \in Call
  /\ command_ptr \in Seq(Command)
  /\ is_background \in BOOLEAN /\ failed \in BOOLEAN
  /\ prev_pipe_read \in 0..MAX_FD
  /\ first_pid \in Pid \cup {0, -1}
  /\ foreground \in Pid \cup {Shell}
  /\ Descriptors(fds)
  /\ \A p \in Pid :
       /\ proc[p].state \in {"none", "runnable", "stopped", "zombie", "reaped"}
       /\ proc[p].stage \in {"setup", "run"}
       /\ proc[p].group \in Pid \cup {Shell}
       /\ Descriptors(proc[p].fds)

\* At the prompt the terminal is the shell's, and no child shares the shell's
\* group and so its input, unless a fork has failed.
PromptOwnsTerminal ==
  shell = "prompt" => /\ foreground = Shell
                      /\ ~failed => \A p \in Pid : Living(p) => proc[p].group # Shell

\* However long the session, no line leaves a descriptor open in the shell.
NoDescriptorLeft == shell = "prompt" /\ ~failed => DOMAIN fds = 0..2

\* Once a stage runs, a pipe has no holders besides the stage that writes, the
\* one that follows and reads, and those that have still to set themselves up;
\* after the last stage the shell holds none.
Feeds(p, q) == /\ p < q /\ \A s \in Pid : ~(p < s /\ s < q)
               /\ proc[q].group = proc[p].group /\ ~proc[p].is_last
PipeJoinsNeighbours ==
  ~failed =>
    /\ \A p \in Pid : Runs(p) =>
         /\ DOMAIN proc[p].fds = 0..2
         /\ IsPipe(Stdout(p)) => Stdout(p)[2] = "w" /\ ~proc[p].is_last
         /\ IsPipe(Stdin(p)) => Stdin(p)[2] = "r"
         /\ \A q \in Pid : Runs(q) /\ IsPipe(Stdout(p)) /\ IsPipe(Stdin(q)) =>
              (Stdout(p)[1] = Stdin(q)[1] <=> Feeds(p, q))
    /\ shell \in {"give", "wait"} => \A d \in DOMAIN fds : ~IsPipe(fds[d])

\* The pipes of such a line are next to each other: no built-in, which ends one
\* pipeline, is followed by another.
Pipes(stages) == {k \in DOMAIN stages : /\ k + 1 \in DOMAIN stages
                                         /\ stages[k].prog \notin Builtin
                                         /\ stages[k + 1].prog \notin Builtin}
OnePipeline(stages) == \A i, j \in Pipes(stages) : i..j \subseteq Pipes(stages)

\* "connects the stdout of one command to the stdin of the next command"
\* (bareshell's technical.md:72), in a line of two pipelines too.
OutputGoesToNext ==
  ~failed => \A p, q \in Pid :
               Runs(p) /\ Runs(q) /\ IsPipe(Stdout(p)) /\ Stdin(q) = <<Stdout(p)[1], "r">>
               => Feeds(p, q)

\* When the prompt returns, every stage of every line in the foreground has
\* been reaped: a pipeline is over when its last member is.
ForegroundIsDone ==
  shell = "prompt" /\ ~failed =>
    \A p \in Pid : proc[p].state \in {"none", "reaped"} \/ proc[p].is_background

\* A member that no one but the user, or no one at all, makes end.
Serves(p) == /\ Member(p) /\ Runs(p)
             /\ \/ proc[p].command.prog = "endless" /\ ~IsPipe(Stdout(p))
                \/ ReadsTerminal(p) /\ proc[p].group = foreground
Stopped(p) == Member(p) /\ proc[p].state = "stopped"

\* Every line comes back to the prompt, unless a member runs on for ever, waits
\* for the user, or has been stopped: each reader sees the end of its input and
\* each writer the end of its reader, whichever stages failed to start.
LineReturns ==
  shell = "wait" /\ ~failed
  ~> shell = "prompt" \/ failed \/ \E p \in Pid : Serves(p) \/ Stopped(p)

\* "Steps 2-5 repeat until the user issues the exit command" (bareshell's
\* technical.md): the shell does not wait for ever while all that is left of
\* its line is stopped.
LoopGoesOn == shell = "wait" ~> shell = "prompt" \/ failed \/ \E p \in Pid : Serves(p)
=============================================================================
