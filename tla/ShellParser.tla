----------------------------- MODULE ShellParser -----------------------------
(***************************************************************************)
(* bareshell/src/parser/command.c: from the characters of a line to the    *)
(* stages of a pipeline.  A line is a sequence of characters and a token a *)
(* part of it.  Memory that malloc refuses is left out, and lines have     *)
(* less than MAX_TOKEN_COUNT tokens.                                       *)
(*                                                                         *)
(* A definition marked "Broken" is a defect the code does not have: it     *)
(* replaces the definition below it to show that a property can fail.      *)
(***************************************************************************)
EXTENDS Naturals, Sequences, FiniteSets, SequencesExt

DoubleQuote == "\""
Space == " "

Blank == {Space, "\t", "\n"}
Operator == {">", "<", "|", "&"}
Quote == {DoubleQuote}     \* is_quote compares with the double quote twice

\* The errors that parse_to_command returns here.
ParseError == {"PARSER_SUCCESS", "PARSER_UNPAIRED_QUOTES", "PARSER_NO_COMMAND",
               "PARSER_MISSING_COMMAND", "PARSER_NO_IN_FILE", "PARSER_NO_OUT_FILE",
               "PARSER_DUPLICATE_IN_REDIR", "PARSER_DUPLICATE_OUT_REDIR",
               "PARSER_SYNTAX_ERROR"}

\* The stages of a pipeline: a program with its arguments, and two files.
Stages(Char) == [args : Seq(Seq(Char)) \ {<< >>}, in_file : Seq(Char), out_file : Seq(Char)]

IsOperator(token) == Len(token) = 1 /\ token[1] \in Operator

\* The positions of the line that hold one of the characters.
Positions(line, chars) == {j \in DOMAIN line : line[j] \in chars}

\* The first of the positions from i on, or the one behind the line.
First(line, i, positions) ==
  CHOOSE j \in i..Len(line) + 1 :
    /\ j \in positions \cup {Len(line) + 1}
    /\ (i..j - 1) \cap positions = {}

\* Broken: the character behind a token is skipped.
TokenAndNext(line, start, last) ==
  [err |-> "PARSER_SUCCESS", token |-> SubSeq(line, start, last), next |-> last + 2]

\* The token is copied and *buffer points behind it.
Token(line, start, last) ==
  [err |-> "PARSER_SUCCESS", token |-> SubSeq(line, start, last), next |-> last + 1]

\* get_token from position i: a token and the position behind it.
get_token(line, i) ==
  LET start == First(line, i, DOMAIN line \ Positions(line, Blank))
      escaped == {j + 1 : j \in Positions(line, {"\\"})}
      closing == First(line, start + 1, Positions(line, Quote) \ escaped)
      end == First(line, start, Positions(line, Quote \cup Blank \cup Operator))
      Error(e) == [err |-> e, token |-> << >>, next |-> start]
  IN  CASE start > Len(line) -> Error("PARSER_TOKEN_DONE")
        [] start <= Len(line) /\ line[start] \in Quote ->
             IF closing > Len(line) THEN Error("PARSER_UNPAIRED_QUOTES")
             ELSE Token(line, start, closing)
        [] start <= Len(line) /\ line[start] \in Operator -> Token(line, start, start)
        [] OTHER -> Token(line, start, end - 1)

\* One turn of the first loop of parse_to_command, which ends when get_token
\* gives no token.
Collect(line, s) ==
  LET t == get_token(line, s.next)
  IN  IF s.err # "PARSER_SUCCESS" THEN s
      ELSE [err |-> t.err, next |-> t.next,
            tokens |-> IF t.err = "PARSER_SUCCESS" THEN Append(s.tokens, t.token)
                                                   ELSE s.tokens]

\* The loop: each turn but the last takes a character or more.
Tokens(line) ==
  LET turn[n \in 0..Len(line) + 1] ==
        IF n = 0 THEN [err |-> "PARSER_SUCCESS", next |-> 1, tokens |-> << >>]
                 ELSE Collect(line, turn[n - 1])
  IN  turn[Len(line) + 1]

-----------------------------------------------------------------------------
\* tokens[i] is an operator among ops; behind the last token is a null.
At(tokens, i, ops) == i \in DOMAIN tokens /\ IsOperator(tokens[i]) /\ tokens[i][1] \in ops

NoFile == << >>

\* What follows < and >: a file name, for which & is taken as well.
NamesFile(tokens, i) == i \in DOMAIN tokens /\ ~At(tokens, i, {"<", ">", "|"})

\* One turn of the loop over the tokens of a stage c, which ends behind the last
\* token, at | or & and with the first error.
Argument(tokens, c) ==
  LET i == c.next
      Error(e) == [c EXCEPT !.err = e]
  IN  CASE c.err # "PARSER_SUCCESS" \/ i > Len(tokens) \/ At(tokens, i, {"|", "&"}) -> c
        [] c.err = "PARSER_SUCCESS" /\ At(tokens, i, {">"}) ->
             IF c.out_file # NoFile THEN Error("PARSER_DUPLICATE_OUT_REDIR")
             ELSE IF ~NamesFile(tokens, i + 1) THEN Error("PARSER_NO_OUT_FILE")
             ELSE [c EXCEPT !.out_file = tokens[i + 1], !.next = i + 2]
        [] c.err = "PARSER_SUCCESS" /\ At(tokens, i, {"<"}) ->
             IF c.in_file # NoFile THEN Error("PARSER_DUPLICATE_IN_REDIR")
             ELSE IF ~NamesFile(tokens, i + 1) THEN Error("PARSER_NO_IN_FILE")
             ELSE [c EXCEPT !.in_file = tokens[i + 1], !.next = i + 2]
        [] OTHER -> [c EXCEPT !.args = Append(@, tokens[i]), !.next = i + 1]

\* parse_command_helper without its recursive call: the stage that begins at i.
Stage(tokens, i) ==
  LET Begun(e, args) == [err |-> e, next |-> i + 1, args |-> args,
                         in_file |-> NoFile, out_file |-> NoFile]
      turn[n \in 0..Len(tokens)] ==
        IF n = 0 THEN Begun("PARSER_SUCCESS", <<tokens[i]>>)
                 ELSE Argument(tokens, turn[n - 1])
  IN  IF i > Len(tokens) \/ At(tokens, i, Operator)
        THEN Begun("PARSER_MISSING_COMMAND", << >>) ELSE turn[Len(tokens)]

\* One call of parse_command_helper after the others: it is made at the first token
\* and behind each |.
Called(tokens, p) ==
  LET s == Stage(tokens, p.next + 1)
  IN  IF p.err # "PARSER_SUCCESS" \/ ~(p.next = 0 \/ At(tokens, p.next, {"|"})) THEN p
      ELSE [err |-> s.err, next |-> s.next,
            stages |-> Append(p.stages, [args |-> s.args, in_file |-> s.in_file,
                                         out_file |-> s.out_file])]

\* The stages, and the first token behind them.
parse_command_helper(tokens) ==
  LET call[n \in 0..Len(tokens) + 1] ==
        IF n = 0 THEN [err |-> "PARSER_SUCCESS", next |-> 0, stages |-> << >>]
                 ELSE Called(tokens, call[n - 1])
  IN  call[Len(tokens) + 1]

\* Broken: what follows the & is not looked at.
Accepts(tokens, p) ==
  [err |-> "PARSER_SUCCESS", stages |-> p.stages,
   is_background |-> At(tokens, p.next, {"&"})]

\* The end of parse_to_command: p has been parsed, a & may follow and no more.
Background(tokens, p) ==
  LET background == At(tokens, p.next, {"&"})
  IN  [err |-> IF p.next + (IF background THEN 1 ELSE 0) <= Len(tokens)
                 THEN "PARSER_SYNTAX_ERROR" ELSE "PARSER_SUCCESS",
       stages |-> p.stages, is_background |-> background]

parse_to_command(line) ==
  LET t == Tokens(line)
      p == parse_command_helper(t.tokens)
      Rejected(e) == [err |-> e, stages |-> << >>, is_background |-> FALSE]
  IN  CASE t.err # "PARSER_TOKEN_DONE" -> Rejected(t.err)
        [] t.err = "PARSER_TOKEN_DONE" /\ t.tokens = << >> -> Rejected("PARSER_NO_COMMAND")
        [] t.err = "PARSER_TOKEN_DONE" /\ t.tokens # << >> /\ p.err # "PARSER_SUCCESS" -> Rejected(p.err)
        [] OTHER -> Background(t.tokens, p)

-----------------------------------------------------------------------------
(* The language of the lines, by positions in the sequence of tokens.      *)

Pipes(tokens) == {i \in DOMAIN tokens : At(tokens, i, {"|"})}
IsFile(tokens, i) == At(tokens, i - 1, {"<", ">"})

\* A & stands at the end only, a redirection before its file, a word at the
\* start of each stage, and no stage has two redirections of a kind.
Grammatical(tokens) ==
  /\ tokens # << >>
  /\ \A i \in DOMAIN tokens :
       /\ At(tokens, i, {"&"}) => i = Len(tokens) \/ IsFile(tokens, i)
       /\ At(tokens, i, {"<", ">"}) => NamesFile(tokens, i + 1)
       /\ \A j \in i + 1..Len(tokens) :
            At(tokens, i, {"<", ">"}) /\ tokens[i] = tokens[j]
            => \E k \in Pipes(tokens) : i < k /\ k < j
  /\ \A i \in {1} \cup {k + 1 : k \in Pipes(tokens)} :
       i <= Len(tokens) /\ ~IsOperator(tokens[i])

\* What seq has at the positions in S, in order.
Chosen(seq, S) ==
  LET upto[n \in 0..Len(seq)] ==
        IF n = 0 THEN << >>
        ELSE IF n \in S THEN Append(upto[n - 1], seq[n]) ELSE upto[n - 1]
  IN  upto[Len(seq)]

\* The k-th stage: its words are the tokens that are neither operator nor file.
StageOf(tokens, k) ==
  LET Here == {i \in DOMAIN tokens \ Pipes(tokens) :
                 Cardinality({j \in Pipes(tokens) : j < i}) = k - 1}
      Files(op) == {i \in Here : At(tokens, i - 1, {op})}
      Words == {i \in Here : ~IsOperator(tokens[i])} \ (Files("<") \cup Files(">"))
      Only(S) == IF S = {} THEN NoFile ELSE tokens[CHOOSE i \in S : TRUE]
  IN  [args |-> Chosen(tokens, Words), in_file |-> Only(Files("<")),
       out_file |-> Only(Files(">"))]

\* A token is an operator, a quoted string, or free of what would end it.
WellFormed(token) ==
  \/ IsOperator(token)
  \/ /\ Len(token) > 1 /\ {token[1], token[Len(token)]} \subseteq Quote
     /\ \A j \in 2..Len(token) - 1 : token[j] \in Quote => token[j - 1] = "\\"
  \/ token # << >> /\ Range(token) \cap (Quote \cup Blank \cup Operator) = {}
=============================================================================
