------------------------------ MODULE Assembler ------------------------------
(***************************************************************************)
(* bytecode_vm/Assembler: from the tokens of an assembly file to the words *)
(* of a bytecode file.  lexer.l makes the tokens: white space, comments    *)
(* and characters it does not know are gone, a label has lost its colon.   *)
(* A file is smaller than the lexer's input buffer, has less than the 4096 *)
(* words of bytecode, and ends with the end of a line.                     *)
(*                                                                         *)
(* A definition marked "Broken" is a defect the code does not have: it     *)
(* replaces the definition below it to show that a property can fail.      *)
(***************************************************************************)
EXTENDS Integers, Sequences, SequencesExt

CONSTANTS MAX_LABELS,
          INT_WIDTH      \* bits of an int

ASSUME LabelsAssumption == MAX_LABELS \in Nat /\ INT_WIDTH \in Nat \ {0}

\* yylex: what a token is, and its value as yylval has it.
Plain(kind) == [kind |-> kind, ival |-> 0, sval |-> ""]
Named(kind, name) == [kind |-> kind, ival |-> 0, sval |-> name]

\* The number v goes through an int: atoi, or the cast of strtol.
Number(v) ==
  [kind |-> "INTEGER", sval |-> "",
   ival |-> ((v + 2^(INT_WIDTH - 1)) % 2^INT_WIDTH) - 2^(INT_WIDTH - 1)]

-----------------------------------------------------------------------------
(* The grammar.  The state of yyparse is the present line as far as it was *)
(* read, the words emitted and the labels added; pc is Len(words).         *)

Code == [PUSH |-> 1, POP |-> 2, DUP |-> 3, PEEKPRINT |-> 4, HALT |-> 255,
         ADD |-> 16, SUB |-> 17, MUL |-> 18, DIV |-> 19, CMP |-> 20,
         AND |-> 21, OR |-> 22, XOR |-> 23, NOT |-> 24, SHL |-> 25, SHR |-> 26,
         JMP |-> 32, JZ |-> 33, JNZ |-> 34, STORE |-> 48, LOAD |-> 49,
         CALL |-> 64, RET |-> 65, CONS |-> 80]
TakesInteger == {"PUSH", "STORE", "LOAD"}
TakesLabel == {"JMP", "JZ", "JNZ", "CALL"}

\* The kinds of token that can follow in a line.
Expected(line) ==
  IF line = << >> THEN {"EOL", "LABEL"} \cup DOMAIN Code
  ELSE IF Len(line) = 1 /\ line[1].kind \in TakesInteger THEN {"INTEGER"}
  ELSE IF Len(line) = 1 /\ line[1].kind \in TakesLabel THEN {"ID"}
  ELSE {"EOL"}

\* The first label with the name, or -1.
lookup_label(labels, name) ==
  LET Found == {i \in DOMAIN labels : labels[i].name = name}
  IN  IF Found = {} THEN -1
      ELSE labels[CHOOSE i \in Found : \A j \in Found : i <= j].address

\* A label more than the table holds is reported and forgotten.
add_label(labels, name, address) ==
  IF Len(labels) < MAX_LABELS THEN Append(labels, [name |-> name, address |-> address])
  ELSE labels

\* Broken: the first pass counts no word for the address of a jump.
NoPlaceholder(pass, labels, name) ==
  IF pass = 2 THEN <<lookup_label(labels, name)>> ELSE << >>

\* The address of a jump; in the first pass a word in its place.
LabelWord(pass, labels, name) ==
  IF pass = 2 THEN <<lookup_label(labels, name)>> ELSE <<0>>

\* What is emitted when the last token of an instruction has been read.
Emitted(pass, labels, line) ==
  LET op == line[1].kind
      complete == Len(line) = (IF op \in TakesInteger \cup TakesLabel THEN 2 ELSE 1)
  IN  CASE op \notin DOMAIN Code \/ ~complete -> << >>
        [] complete /\ op \in TakesInteger -> <<Code[op], line[2].ival>>
        [] complete /\ op \in TakesLabel ->
             <<Code[op]>> \o LabelWord(pass, labels, line[2].sval)
        [] OTHER -> <<Code[op]>>

\* One token.  A syntax error ends yyparse; what was emitted stays.
Turn(pass, s, token) ==
  LET line == Append(s.line, token)
      read == [s EXCEPT !.read = @ + 1]
  IN  IF s.failed THEN s
      ELSE IF token.kind \notin Expected(s.line) THEN [read EXCEPT !.failed = TRUE]
      ELSE IF token.kind # "EOL"
        THEN [read EXCEPT !.line = line, !.words = @ \o Emitted(pass, s.labels, line)]
      ELSE [read EXCEPT
              !.line = << >>,
              !.labels = IF pass = 1 /\ s.line # << >> /\ s.line[1].kind = "LABEL"
                           THEN add_label(@, s.line[1].sval, Len(s.words)) ELSE @]

yyparse(pass, labels, tokens) ==
  FoldLeft(LAMBDA s, token : Turn(pass, s, token),
           [line |-> << >>, words |-> << >>, labels |-> labels, read |-> 0,
            failed |-> FALSE],
           tokens)

\* main.  After an error in the first pass the second goes on where the first
\* stopped, in the lexer's buffer, and then reads the file, which was rewound.
\* Whatever went wrong, the words are written and the exit code is 0.
Assemble(source) ==
  LET first == yyparse(1, << >>, source)
      second == yyparse(2, first.labels,
                        SubSeq(source, first.read + 1, Len(source)) \o source)
  IN  second.words
=============================================================================
