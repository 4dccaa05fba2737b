----------------------------- MODULE MCLineInput -----------------------------
\* Every short line, every pair of short lines with quotes and escapes, and
\* some longer ones that use every rule of the grammar and both limits.
EXTENDS LineInput

MCChar == {"a", "b", "c", "d", "e", "f", "g", "h", " ", "|", ">", "<", "&", "\"", "'", "\\", "\n"}

LinesOf(chars, n) == {Append(line, "\n") : line \in UNION {[1..k -> chars] : k \in 0..n}}

Longer ==
  {<<"a", "|", "b", "|", "c", "&", "\n">>, <<"a", ">", "f", "<", "g", "\n">>,
   <<"a", "<", "f", "<", "g", "\n">>, <<"a", ">", "f", "|", "b", ">", "g", "\n">>,
   <<"a", ">", "f", ">", "g", "\n">>, <<"a", "b", "c", "d", "e", "f", "g", "\n">>,
   <<"a", "b", " ", "c", "d", "e", "\\", "f", "\n">>}

MCSession ==
  {<<line>> : line \in LinesOf({"a", " ", "|", ">", "<", "&", "\"", "\\"}, 4)}
  \cup {<<one, two>> : one, two \in LinesOf({"a", "'", "\"", "\\"}, 2)}
  \cup {<<line, <<"a", "\n">>>> : line \in Longer}
  \cup {<<<<"a", "\"", "b", "\n">>, <<"c", "\\", "\n">>, <<"d", "\"", "\n">>, <<"e">>>>,
        <<<<"a", "\\", "\n">>, <<"b", "\\", "\n">>, <<"c", "\n">>>>,
        <<<<"\"", "a", "b", "\n">>, <<"c", "d", "\n">>, <<"e", "f", "g", "\"", "\n">>, <<"h", "\n">>>>,
        <<<<"\"", "a", "b", "c", "\n">>, <<"d", "e", "f", "g", "\"", "\n">>>>,
        <<<<"'", "a", " ", "b", "'", "\n">>>>}
=============================================================================
