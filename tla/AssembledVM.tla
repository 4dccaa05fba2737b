----------------------------- MODULE AssembledVM -----------------------------
(***************************************************************************)
(* The virtual machine on what the assembler writes: the two agree on the  *)
(* opcodes, on the words of an instruction and on what an address counts   *)
(* only if a program does what its source says.                            *)
(***************************************************************************)
EXTENDS BytecodeVM, Assembler

CONSTANT Sources     \* assembly files, sequences of tokens

ASSUME SourcesAssumption == \A s \in Sources : Assemble(s) \in Files

\* Each source with what it is assembled to.
Assembled == {<<s, Assemble(s)>> : s \in Sources}

\* The tokens that become a word, and the place of that word in the file.
WordTokens(s) == {i \in DOMAIN s : s[i].kind \notin {"EOL", "LABEL"}}
AddressOf(s, i) == Cardinality({j \in WordTokens(s) : j < i})
Instructions(s) == {i \in DOMAIN s : s[i].kind \in DOMAIN Code}
LabelsOf(s) == {i \in DOMAIN s : s[i].kind = "LABEL"}

\* Where the label named by the token behind i stands.
Target(s, i) ==
  AddressOf(s, CHOOSE l \in LabelsOf(s) : s[l].sval = s[i + 1].sval)

\* A source without an error: each line in the grammar, each label defined once,
\* and no more of them than the table holds.
Clean ==
  {s \in Sources :
     /\ ~yyparse(1, << >>, s).failed
     /\ Cardinality(LabelsOf(s)) <= MAX_LABELS
     /\ \A i \in DOMAIN s : s[i].kind \in {"ID", "LABEL"} =>
          Cardinality({l \in LabelsOf(s) : s[l].sval = s[i].sval}) = 1}

\* The machine executes the source: it is always at the first word of one of the
\* instructions or behind the last, and a jump or call continues at its label.
ExecutesSource ==
  [][control = "step" /\ control' = "loop" =>
       \A p \in Assembled :
         LET s == p[1]
         IN  program_memory = Image(p[2]) /\ s \in Clean /\ pc < Len(p[2])
             => \E i \in Instructions(s) :
                  /\ AddressOf(s, i) = pc
                  /\ s[i].kind \in {"JMP", "CALL"} => pc' = Target(s, i)
                  /\ s[i].kind \in {"JZ", "JNZ"} =>
                       pc' = IF (Top(1) = 0) = (s[i].kind = "JZ") THEN Target(s, i) ELSE pc + 2
                  /\ s[i].kind \notin TakesLabel \cup {"RET"} =>
                       pc' = pc + (IF s[i].kind \in TakesInteger THEN 2 ELSE 1)]_vars
=============================================================================
