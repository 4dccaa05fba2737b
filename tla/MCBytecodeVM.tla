---------------------------- MODULE MCBytecodeVM ----------------------------
(***************************************************************************)
(* AssembledVM for TLC: assembly sources, and files no source gives.       *)
(***************************************************************************)
EXTENDS AssembledVM

\* A line of a source.
Line(op) == <<Plain(op), Plain("EOL")>>
LineInt(op, v) == <<Plain(op), Number(v), Plain("EOL")>>
LineId(op, name) == <<Plain(op), Named("ID", name), Plain("EOL")>>
LineLabel(name) == <<Named("LABEL", name), Plain("EOL")>>
Source(lines) == FoldLeft(\o, << >>, lines)

\* heap_test.asm of the repository: two pairs, one inside the other.
HeapTest == Source(<<LineLabel("start"), LineInt("PUSH", 0), LineInt("PUSH", 0), Line("CONS"),
                     LineInt("PUSH", 0), Line("CONS"), Line("HALT")>>)

\* simple_loop.asm of the repository.
SimpleLoop == Source(<<LineLabel("start"), LineInt("PUSH", 1), Line("POP"),
                       LineId("JMP", "start")>>)

\* A subroutine that pairs the object on the stack with itself, called for ever:
\* the old pairs stay reachable until the list is dropped, and the heap fills.
PairLoop == Source(<<LineLabel("main"), LineInt("PUSH", 0), LineId("CALL", "twice"),
                     Line("POP"), LineId("JMP", "main"), LineLabel("twice"), Line("DUP"),
                     Line("CONS"), Line("DUP"), Line("CONS"), Line("RET")>>)

\* Memory and a conditional jump: counts 2 down to 0, then divides by it.
CountDown == Source(<<LineInt("PUSH", 2), LineLabel("loop"), LineInt("STORE", 3),
                      LineInt("LOAD", 3), LineId("JZ", "end"), LineInt("LOAD", 3),
                      LineInt("PUSH", 1), Line("SUB"), LineId("JMP", "loop"),
                      LineLabel("end"), LineInt("PUSH", 1), LineInt("LOAD", 3),
                      Line("DIV")>>)

\* Two allocations of which the second drops the first, and a conditional jump
\* on an address.
Drop == Source(<<LineLabel("start"), LineInt("PUSH", 0), Line("DUP"), Line("CONS"),
                 LineId("JNZ", "start"), Line("RET")>>)

\* Three pairs on top of each other: the last allocation finds the heap full
\* unless memory in use is handed out again.
Tower == Source(<<LineInt("PUSH", 0), Line("DUP"), Line("CONS"), Line("DUP"), Line("CONS"),
                  Line("DUP"), Line("CONS"), Line("HALT")>>)

\* A pair of two integers.
IntegerPair == Source(<<LineInt("PUSH", 5), LineInt("PUSH", 0), Line("CONS"), Line("HALT")>>)

\* A pair that only data memory holds, and the pair built from it later.
HiddenPair == Source(<<LineInt("PUSH", 0), Line("DUP"), Line("CONS"), LineInt("STORE", 0),
                       LineInt("LOAD", 0), Line("DUP"), Line("CONS"), Line("HALT")>>)

\* The address of a pair that no collection sees while another pair is made, perhaps
\* in the same place.
ReusedPair == Source(<<LineInt("PUSH", 0), Line("DUP"), Line("CONS"), LineInt("STORE", 0),
                       LineInt("PUSH", 0), Line("DUP"), Line("CONS"), LineInt("LOAD", 0),
                       Line("CONS"), Line("HALT")>>)

\* The one quotient that does not fit: the source shifts, for its integers are ints.
Overflow == Source(<<LineInt("PUSH", 1), LineInt("PUSH", WIDTH - 1), Line("SHL"),
                     LineInt("PUSH", -1), Line("DIV"), Line("HALT")>>)

\* The other operations, on small, negative and shifted values.
Bits == Source(<<LineInt("PUSH", 6), LineInt("PUSH", 3), Line("AND"), LineInt("PUSH", 5),
                 Line("OR"), LineInt("PUSH", 7), Line("XOR"), Line("NOT"),
                 LineId("JNZ", "end"), Line("HALT"), LineLabel("end"),
                 Line("RET")>>)
Shifts == Source(<<LineInt("PUSH", 3), LineInt("PUSH", 2), Line("SHL"), LineInt("PUSH", 1),
                   Line("SHR"), LineInt("PUSH", 6), Line("CMP"), Line("PEEKPRINT"),
                   Line("HALT")>>)
Quotient == Source(<<LineInt("PUSH", -7), LineInt("PUSH", 2), Line("DIV"), LineInt("PUSH", 3),
                     Line("MUL"), LineInt("PUSH", 9), Line("ADD"), Line("HALT")>>)

\* What the assembler reports and writes a file for: a label nobody defined, one
\* defined twice, more than fit in the table, a line outside the grammar, a number
\* that is no int, an error in the last line and one in the first.
Wrong ==
  {LineId("JMP", "nowhere"),
   Source(<<LineLabel("here"), Line("POP"), LineLabel("here"), LineId("JMP", "here")>>),
   Source(<<LineLabel("a"), LineLabel("b"), LineLabel("c"), LineInt("PUSH", 1), LineId("JNZ", "c")>>),
   Source(<<LineInt("PUSH", 1), Line("PUSH"), LineLabel("end"), Line("HALT")>>),
   LineInt("PUSH", 2^INT_WIDTH), Source(<<LineInt("PUSH", 1), LineInt("POP", 1)>>),
   Source(<<LineId("ADD", "a"), LineInt("PUSH", 1), Line("HALT")>>)}

MCSources == {HeapTest, SimpleLoop, PairLoop, CountDown, Drop, Tower, IntegerPair, HiddenPair,
              ReusedPair, Overflow, Bits, Shifts, Quotient} \cup Wrong

\* What load and step refuse: nothing, too much, an unknown opcode, an operand
\* behind the end, a program counter there, an address there, too much on
\* either stack and too little.
BadFiles == {<< >>, [k \in 1..(MEM_SIZE + 1) |-> NOP], <<5>>,
             [k \in 1..MEM_SIZE |-> CASE k = 1 -> JMP [] k = 2 -> MEM_SIZE - 1
                                      [] k = MEM_SIZE -> PUSH [] OTHER -> NOP],
             <<JMP, MEM_SIZE - 1>>, <<LOAD, MEM_SIZE>>, <<PUSH, 1, JMP, 0>>,
             <<PUSH, 1, DUP, JNZ, 2>>, <<CALL, 0>>, <<PUSH, 0, CMP>>, <<RET>>}

AllFiles == BadFiles \cup {Assemble(s) : s \in MCSources}

MCAddr == {1000, 1016}
=============================================================================
