------------------------------ MODULE LineInput ------------------------------
(***************************************************************************)
(* How a command line reaches execute_commands: main and looper of         *)
(* bareshell/src, multiline_input of io/input.c, the parser, and SIGINT    *)
(* at any time.  The terminal or file behind stdin is external.  What a    *)
(* command does, and exit, is the subject of Pipeline and JobControl.      *)
(*                                                                         *)
(* taken is not in the code: what was read for the present command, with   *)
(* a mark where Ctrl-C was typed meanwhile.                                *)
(* A definition marked "Broken" is a defect the code does not have: it     *)
(* replaces the definition below it to show that a property can fail.      *)
(***************************************************************************)
EXTENDS ShellParser

CONSTANTS Char,
          Session,          \* what users type: sequences of lines
          LINE_SIZE,        \* of line_buffer
          MAX_BUFFER_SIZE,
          MaxInterrupts     \* bound: how often Ctrl-C is typed

Interrupt == "^C"

\* Lines end with a line end, which is nowhere else; the last one may lack it.
Lines(lines) ==
  /\ lines \in Seq(Seq(Char))
  /\ \A k \in DOMAIN lines :
       /\ lines[k] # << >>
       /\ \A i \in DOMAIN lines[k] : lines[k][i] = "\n" => i = Len(lines[k])
       /\ lines[k][Len(lines[k])] = "\n" \/ k = Len(lines)

ASSUME SizeAssumption == /\ LINE_SIZE \in Nat \ {0, 1}
                         /\ MAX_BUFFER_SIZE \in Nat \ {0}
                         /\ MaxInterrupts \in Nat
ASSUME CharAssumption == Interrupt \notin Char
ASSUME SessionAssumption == \A session \in Session : Lines(session)

VARIABLES
  shell,               \* the call the shell makes next
  session,             \* the lines to be typed
  stdin,               \* what has been typed and not been read
  feof,
  buffer,              \* the first pos characters of buffer
  quote,               \* quote_count and last_quote
  g_sigint_received,
  result,              \* what parse_to_command returned for the present command
  taken,
  interrupts

input == <<session, stdin, feof>>
vars == <<shell, input, buffer, quote, g_sigint_received, result, taken, interrupts>>

Call == {"reset", "prompt", "read", "check", "parse", "execute", "ended"}
NoResult == [err |-> "none", stages |-> << >>, is_background |-> FALSE]
NoQuote == [count |-> 0, last |-> "none"]

Init == /\ shell = "reset"
        /\ session \in Session
        /\ stdin = << >> /\ feof = FALSE
        /\ buffer = << >> /\ quote = NoQuote
        /\ g_sigint_received = FALSE
        /\ result = NoResult
        /\ taken = << >> /\ interrupts = 0

\* The head of looper's loop.
Reset == /\ shell = "reset"
         /\ g_sigint_received' = FALSE
         /\ buffer' = << >> /\ quote' = NoQuote
         /\ result' = NoResult /\ taken' = << >>
         /\ shell' = "prompt"
         /\ UNCHANGED <<input, interrupts>>

\* A prompt is printed; fgets comes next.
Prompt == /\ shell = "prompt"
          /\ shell' = "read"
          /\ UNCHANGED <<input, buffer, quote, g_sigint_received, result, taken, interrupts>>

\* The user types a line; bound: not more than one ahead.
Type == /\ session # << >> /\ stdin = << >> /\ shell # "ended"
        /\ stdin' = Head(session)
        /\ session' = Tail(session)
        /\ UNCHANGED <<shell, feof, buffer, quote, g_sigint_received, result, taken,
                       interrupts>>

-----------------------------------------------------------------------------
\* One turn of the loop that counts quotes.
CountQuote(q, before, ch) ==
  IF ch \notin {DoubleQuote, "'"} \/ before = "\\" THEN q
  ELSE IF q.count > 0 /\ q.last = ch THEN [q EXCEPT !.count = @ - 1]
  ELSE [count |-> q.count + 1, last |-> ch]

CountQuotes(line) ==
  LET turn[i \in 0..Len(line)] ==
        IF i = 0 THEN quote
        ELSE CountQuote(turn[i - 1], IF i = 1 THEN "\n" ELSE line[i - 1], line[i])
  IN  turn[Len(line)]

\* fgets takes a line without its end when line_buffer is full.
Fetched == LET end == First(stdin, 1, Positions(stdin, {"\n"}))
               n == CHOOSE n \in {end, Len(stdin), LINE_SIZE - 1} :
                      \A m \in {end, Len(stdin), LINE_SIZE - 1} : n <= m
           IN  SubSeq(stdin, 1, n)

\* line_buffer[len - 2], after line_buffer[0] has been cleared.  For a line of one
\* character the byte in front of the array is read, the highest of a pointer.
Escaped(line) == Len(line) > 2 /\ line[Len(line) - 1] = "\\"

\* Broken: no room is kept for the terminating null.
KeepsOneMore(whole) ==
  IF Len(whole) > MAX_BUFFER_SIZE THEN SubSeq(whole, 1, MAX_BUFFER_SIZE) ELSE whole

\* What fits of the old lines and the new one; the rest of the line is lost.
Kept(whole) ==
  IF Len(whole) >= MAX_BUFFER_SIZE THEN SubSeq(whole, 1, MAX_BUFFER_SIZE - 1) ELSE whole

\* A line is read and appended; an escaped line end is taken away again and the
\* next line is read, as after an open quote, unless the buffer is full.
ReadLine ==
  /\ shell = "read" /\ stdin # << >>
  /\ LET line == Fetched
         whole == buffer \o line
         q == CountQuotes(line)
     IN  /\ stdin' = SubSeq(stdin, Len(line) + 1, Len(stdin))
         /\ feof' = (Len(line) < LINE_SIZE - 1 /\ line[Len(line)] # "\n")
         /\ taken' = taken \o line
         /\ quote' = q
         /\ buffer' = IF Kept(whole) = whole /\ Escaped(line) /\ q.count = 0
                        THEN SubSeq(whole, 1, Len(whole) - 2) ELSE Kept(whole)
         /\ shell' = IF Kept(whole) = whole /\ (Escaped(line) \/ q.count # 0)
                       THEN "prompt" ELSE "check"
  /\ UNCHANGED <<session, g_sigint_received, result, interrupts>>

\* fgets returns NULL.
ReadEnd == /\ shell = "read" /\ stdin = << >> /\ session = << >>
           /\ feof' = TRUE
           /\ shell' = "check"
           /\ UNCHANGED <<session, stdin, buffer, quote, g_sigint_received, result, taken,
                          interrupts>>

-----------------------------------------------------------------------------
\* Broken: the interrupted command, or the end of the input, is not noticed.
CheckNothing == /\ shell = "check"
                /\ shell' = IF feof THEN "ended" ELSE "parse"
                /\ UNCHANGED <<input, buffer, quote, g_sigint_received, result, taken,
                               interrupts>>
CheckInterruptOnly == /\ shell = "check"
                      /\ shell' = IF g_sigint_received THEN "reset" ELSE "parse"
                      /\ UNCHANGED <<input, buffer, quote, g_sigint_received, result, taken,
                                     interrupts>>

\* After an interrupt looper returns to main and is called again; at the end of
\* the input the parser gets a null and the shell ends, whatever was read.
Check == /\ shell = "check"
         /\ shell' = IF g_sigint_received THEN "reset" ELSE IF feof THEN "ended" ELSE "parse"
         /\ UNCHANGED <<input, buffer, quote, g_sigint_received, result, taken, interrupts>>

\* Every error is reported and the loop goes on.
Parse == /\ shell = "parse"
         /\ result' = parse_to_command(buffer)
         /\ shell' = IF result'.err = "PARSER_SUCCESS" THEN "execute" ELSE "reset"
         /\ UNCHANGED <<input, buffer, quote, g_sigint_received, taken, interrupts>>

Execute == /\ shell = "execute"
           /\ shell' = "reset"
           /\ UNCHANGED <<input, buffer, quote, g_sigint_received, result, taken, interrupts>>

\* Ctrl-C: the terminal forgets what was not read, and a blocked fgets returns
\* NULL, since the handler has no SA_RESTART.
CtrlC == /\ shell # "ended" /\ interrupts < MaxInterrupts
         /\ interrupts' = interrupts + 1
         /\ g_sigint_received' = TRUE
         /\ stdin' = << >>
         /\ shell' = IF shell = "read" THEN "check" ELSE shell
         /\ taken' = IF shell \in {"prompt", "read"} THEN Append(taken, Interrupt) ELSE taken
         /\ UNCHANGED <<session, feof, buffer, quote, result>>

-----------------------------------------------------------------------------
Shell == Reset \/ Prompt \/ ReadLine \/ ReadEnd \/ Check \/ Parse \/ Execute
Next == Shell \/ Type \/ CtrlC

\* Where the shell can go on: ENABLED Shell, which TLC would evaluate slowly.
MayGoOn == shell # "ended" /\ (shell = "read" => stdin # << >> \/ session = << >>)

\* The shell runs whenever it can; the user types on to the end of the session.
Spec == /\ Init /\ [][Next]_vars
        /\ WF_vars(Type)
        /\ []<>(~MayGoOn) \/ []<><<Shell>>_vars

-----------------------------------------------------------------------------
(* Properties.                                                             *)

\* Every variable has its type: the command fits in its buffer with the null behind it,
\* and whatever the parser returns, every stage has a program.
Result == [err : ParseError \cup {"none"}, stages : Seq(Stages(Char)),
           is_background : BOOLEAN]

TypeOK == /\ shell \in Call
          /\ session \in Seq(Seq(Char)) /\ stdin \in Seq(Char)
          /\ {feof, g_sigint_received} \subseteq BOOLEAN
          /\ buffer \in Seq(Char) /\ Len(buffer) < MAX_BUFFER_SIZE
          /\ quote \in [count : Nat, last : {DoubleQuote, "'", "none"}]
          /\ result \in Result
          /\ taken \in Seq(Char \cup {Interrupt})
          /\ interrupts \in 0..MaxInterrupts

\* Between quotes of one kind, and of these a backslash escapes the next.
Inside(text, i) ==
  Cardinality({j \in 1..i - 1 : text[j] \in {DoubleQuote, "'"} /\ (j = 1 \/ text[j - 1] # "\\")})
    % 2 = 1
LineEnd(text, i) == text[i] = "\n"
EscapedEnd(text, i) == i > 1 /\ LineEnd(text, i) /\ text[i - 1] = "\\" /\ ~Inside(text, i)

\* What is typed for one command: it ends at the first line end that is neither
\* quoted nor escaped, and escaped line ends vanish.
OneCommand(text) ==
  \A i \in DOMAIN text : LineEnd(text, i) /\ ~Inside(text, i) /\ ~EscapedEnd(text, i)
                           <=> i = Len(text)
Spliced(text) ==
  Chosen(text, {i \in DOMAIN text : ~EscapedEnd(text, i)
                                    /\ ~(i < Len(text) /\ EscapedEnd(text, i + 1))})

\* The text is in the domain of the two definitions: one kind of quote, no line
\* that only escapes its end, no line or command longer than its buffer.
Plain(text) ==
  /\ ~({DoubleQuote, "'"} \subseteq Range(text))
  /\ \A i \in DOMAIN text :
       EscapedEnd(text, i) => i > 2 /\ ~LineEnd(text, i - 2)
  /\ \A i \in 0..Len(text) - LINE_SIZE + 1 : \E j \in i + 1..i + LINE_SIZE - 1 : LineEnd(text, j)
  /\ Len(text) < MAX_BUFFER_SIZE

\* What is parsed is the command that was typed, put together over any number
\* of lines, and never one during which Ctrl-C was typed (looper.c:43).
CommandIsWhatWasTyped ==
  shell = "parse" => /\ Interrupt \notin Range(taken)
                     /\ Plain(taken) => OneCommand(taken) /\ buffer = Spliced(taken)

TokensOf(line) == Tokens(line).tokens

\* A line is executed if and only if its tokens are in the language, and then
\* its stages, redirections and background mark are those of the language.
ParsesGrammar ==
  result.err # "none" /\ result.err # "PARSER_UNPAIRED_QUOTES" =>
    LET tokens == TokensOf(buffer)
    IN  /\ result.err = "PARSER_SUCCESS" <=> Grammatical(tokens)
        /\ result.err = "PARSER_SUCCESS" =>
             /\ result.stages = [k \in 1..Cardinality(Pipes(tokens)) + 1 |-> StageOf(tokens, k)]
             /\ result.is_background =
                  (At(tokens, Len(tokens), {"&"}) /\ ~IsFile(tokens, Len(tokens)))

\* The tokens of a line are well formed, and nothing but blanks is lost between.
TokensCoverLine ==
  result.err # "none" /\ result.err # "PARSER_UNPAIRED_QUOTES" =>
    LET tokens == TokensOf(buffer)
        Ink(text) == Chosen(text, DOMAIN text \ Positions(text, Blank))
    IN  /\ \A k \in DOMAIN tokens : WellFormed(tokens[k])
        /\ Ink(FlattenSeq(tokens)) = Ink(buffer)

\* When the input ends the shell ends, and does not prompt for ever.
EndOfInputEnds == <>(shell = "ended")

\* "Correctly processes single and double-quoted segments, preserving internal
\* whitespace" (bareshell's technical.md): no quotation is divided among words.
SingleQuotesGroup ==
  shell = "execute" =>
    \A k \in DOMAIN result.stages : \A w \in Range(result.stages[k].args) :
      DoubleQuote \notin Range(w) => ~Inside(w, Len(w) + 1)
=============================================================================
