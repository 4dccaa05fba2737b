----------------------------- MODULE MCPipeline -----------------------------
\* Lines with every kind of program, redirection and neighbour.
EXTENDS Pipeline

Plain(prog) == [prog |-> prog, in |-> "none", out |-> "none"]
From(prog, file) == [Plain(prog) EXCEPT !.in = file]
To(prog, file) == [Plain(prog) EXCEPT !.out = file]
Foreground(stages) == [stages |-> stages, is_background |-> FALSE]
Background(stages) == [stages |-> stages, is_background |-> TRUE]

MCLine ==
  {Foreground(<<Plain("filter")>>),
   Foreground(<<Plain("endless")>>),
   Foreground(<<Plain("plain"), Plain("filter"), Plain("filter")>>),
   Foreground(<<Plain("endless"), Plain("filter"), Plain("plain")>>),
   Foreground(<<From("filter", "file"), To("filter", "file")>>),
   Foreground(<<Plain("endless"), From("filter", "missing")>>),
   Foreground(<<To("plain", "missing"), Plain("filter")>>),
   Foreground(<<Plain("missing"), Plain("filter")>>),
   Foreground(<<Plain("cd"), Plain("plain"), Plain("exit"), Plain("plain")>>),
   Foreground(<<Plain("exit")>>),
   Background(<<Plain("filter")>>),
   Background(<<Plain("endless"), Plain("filter")>>)}
MCPid == 1..4

ASSUME LinesHaveOnePipeline == \A line \in MCLine : OnePipeline(line.stages)

\* Two pipelines with a built-in between them.
MCTwoPipelines ==
  {Foreground(<<Plain("plain"), Plain("plain"), Plain("cd"), Plain("filter"), Plain("plain")>>)}
=============================================================================
