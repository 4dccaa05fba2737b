-------------------------- MODULE LineInput_proofs --------------------------
(***************************************************************************)
(* Proofs about LineInput and ShellParser, for every set of sessions and   *)
(* every size of the two buffers.                                          *)
(***************************************************************************)
EXTENDS LineInput, ListLemmas, FiniteSetTheorems

-----------------------------------------------------------------------------
(* The loops.  A recursive function is what its definition says if there   *)
(* is a function that the definition is true of.                           *)

Quotes == [count : Nat, last : {DoubleQuote, "'", "none"}]
Before(line, i) == IF i = 1 THEN "\n" ELSE line[i - 1]

LEMMA CountQuoteTyped ==
  ASSUME NEW q \in Quotes, NEW before, NEW ch
  PROVE  CountQuote(q, before, ch) \in Quotes
<1>1. q.count \in Nat /\ q.last \in {DoubleQuote, "'", "none"}
  BY DEF Quotes
<1>2. CASE ch \notin {DoubleQuote, "'"} \/ before = "\\"
  BY <1>2 DEF CountQuote
<1>3. CASE /\ ~(ch \notin {DoubleQuote, "'"} \/ before = "\\")
           /\ q.count > 0 /\ q.last = ch
  <2>1. q.count - 1 \in Nat
    BY <1>1, <1>3
  <2>2. CountQuote(q, before, ch) = [q EXCEPT !.count = @ - 1]
    BY <1>3 DEF CountQuote
  <2> QED BY <2>1, <2>2 DEF Quotes
<1>4. CASE /\ ~(ch \notin {DoubleQuote, "'"} \/ before = "\\")
           /\ ~(q.count > 0 /\ q.last = ch)
  <2>1. q.count + 1 \in Nat /\ ch \in {DoubleQuote, "'", "none"}
    BY <1>1, <1>4
  <2>2. CountQuote(q, before, ch) = [count |-> q.count + 1, last |-> ch]
    BY <1>4 DEF CountQuote
  <2> QED BY <2>1, <2>2 DEF Quotes
<1> QED BY <1>2, <1>3, <1>4

LEMMA CountTurns ==
  ASSUME NEW line \in Seq(Char), quote \in Quotes
  PROVE  \E g \in [0..Len(line) -> Quotes] :
           /\ g[0] = quote
           /\ \A i \in 1..Len(line) :
                g[i] = CountQuote(g[i - 1], Before(line, i), line[i])
           /\ CountQuotes(line) = g[Len(line)]
<1> DEFINE n == Len(line)
           step == [x \in (1..n) \X Quotes |->
                      CountQuote(x[2], Before(line, x[1]), line[x[1]])]
           Turn(f) == f = [i \in 0..n |->
                             IF i = 0 THEN quote
                             ELSE CountQuote(f[i - 1], Before(line, i), line[i])]
           turn == CHOOSE f : Turn(f)
<1>1. n \in Nat
  BY LenProperties
<1>2. step \in [(1..n) \X Quotes -> Quotes]
  BY CountQuoteTyped
<1> HIDE DEF step, n, turn
<1>3. PICK g : States(g, n, Quotes, quote, step)
  BY <1>1, <1>2, StatesExist
<1> USE DEF step, n
<1>4. \A i \in 1..n : g[i] = CountQuote(g[i - 1], Before(line, i), line[i])
  BY <1>1, <1>3 DEF States
<1>5. Turn(g)
  BY <1>1, <1>3, <1>4 DEF States
<1>6. Turn(turn)
  BY <1>5 DEF turn
<1>7. CountQuotes(line) = turn[n]
  BY DEF CountQuotes, Before, turn
<1>8. turn[0] = quote /\ \A i \in 1..n :
                           turn[i] = CountQuote(turn[i - 1], Before(line, i), line[i])
  BY <1>1, <1>6
<1> DEFINE T == {i \in 0..n : turn[i] = g[i]}
<1>9. 0 \in T /\ \A i \in 1..n : i - 1 \in T => i \in T
  BY <1>1, <1>3, <1>4, <1>8 DEF States
<1> HIDE DEF T
<1>10. 0..n \subseteq T
  BY <1>1, <1>9, BoundedInduction
<1> QED BY <1>1, <1>3, <1>4, <1>7, <1>10 DEF T, States

-----------------------------------------------------------------------------
(* What Chosen takes from a sequence.                                      *)

ChosenUpTo(c, X, seq, S) ==
  /\ c \in [0..Len(seq) -> Seq(X)]
  /\ c[0] = << >>
  /\ \A n \in 1..Len(seq) :
       c[n] = IF n \in S THEN Append(c[n - 1], seq[n]) ELSE c[n - 1]

LEMMA ChosenTable ==
  ASSUME NEW X, NEW seq \in Seq(X), NEW S
  PROVE  \E c : ChosenUpTo(c, X, seq, S) /\ Chosen(seq, S) = c[Len(seq)]
<1> DEFINE n == Len(seq)
           Step(k, u) == IF k \in S THEN Append(u, seq[k]) ELSE u
           step == [x \in (1..n) \X Seq(X) |-> Step(x[1], x[2])]
           Turn(f) == f = [k \in 0..n |-> IF k = 0 THEN << >> ELSE Step(k, f[k - 1])]
           turn == CHOOSE f : Turn(f)
<1>1. n \in Nat /\ \A k \in 1..n : seq[k] \in X
  BY LenProperties, ElementOfSeq
<1>2. \A k \in 1..n, u \in Seq(X) : Step(k, u) \in Seq(X)
  BY <1>1, AppendProperties
<1>3. << >> \in Seq(X)
  BY EmptySeq
<1>4. Chosen(seq, S) = turn[n]
  BY DEF Chosen
<1> HIDE DEF Step
<1>5. step \in [(1..n) \X Seq(X) -> Seq(X)]
  BY <1>2
<1> HIDE DEF step, n, turn
<1>6. PICK g : States(g, n, Seq(X), << >>, step)
  BY <1>1, <1>3, <1>5, StatesExist
<1>7. \A k \in 1..n : g[k] = Step(k, g[k - 1])
  <2>1. \A k \in 1..n : k - 1 \in 0..n /\ g[k - 1] \in Seq(X)
    BY <1>1, <1>6 DEF States
  <2> QED BY <1>6, <2>1 DEF States, step
<1>8. Turn(g)
  BY <1>1, <1>6, <1>7 DEF States
<1>9. Turn(turn)
  BY <1>8 DEF turn
<1>10. turn[0] = << >> /\ \A k \in 1..n : turn[k] = Step(k, turn[k - 1])
  BY <1>1, <1>9
<1> DEFINE T == {k \in 0..n : turn[k] = g[k]}
<1>11. 0 \in T /\ \A k \in 1..n : k - 1 \in T => k \in T
  BY <1>1, <1>6, <1>7, <1>10 DEF States
<1> HIDE DEF T
<1>12. 0..n \subseteq T
  BY <1>1, <1>11, BoundedInduction
<1>13. Chosen(seq, S) = g[n]
  BY <1>1, <1>4, <1>12 DEF T
<1> USE DEF n, Step
<1>14. ChosenUpTo(g, X, seq, S)
  BY <1>6, <1>7 DEF ChosenUpTo, States
<1> QED BY <1>13, <1>14

\* It is a sequence, not longer than the whole.
LEMMA ChosenTyped ==
  ASSUME NEW X, NEW seq \in Seq(X), NEW S
  PROVE  Chosen(seq, S) \in Seq(X) /\ Len(Chosen(seq, S)) <= Len(seq)
<1>1. PICK c : ChosenUpTo(c, X, seq, S) /\ Chosen(seq, S) = c[Len(seq)]
  BY ChosenTable
<1> DEFINE T == {n \in 0..Len(seq) : c[n] \in Seq(X) /\ Len(c[n]) <= n}
<1>2. Len(seq) \in Nat /\ \A k \in 1..Len(seq) : seq[k] \in X
  BY LenProperties, ElementOfSeq
<1>3. 0 \in T
  BY <1>1, <1>2, EmptySeq DEF ChosenUpTo
<1>4. ASSUME NEW n \in 1..Len(seq), n - 1 \in T
      PROVE  n \in T
  <2>1. Len(c[n - 1]) \in Nat /\ Len(c[n - 1]) <= n - 1 /\ c[n - 1] \in Seq(X)
    BY <1>4, LenProperties
  <2>2. Append(c[n - 1], seq[n]) \in Seq(X) /\ Len(Append(c[n - 1], seq[n])) = Len(c[n - 1]) + 1
    BY <1>2, <2>1, AppendProperties
  <2>3. c[n] = Append(c[n - 1], seq[n]) \/ c[n] = c[n - 1]
    BY <1>1 DEF ChosenUpTo
  <2>4. CASE c[n] = c[n - 1]
    BY <2>1, <2>4
  <2>5. CASE c[n] = Append(c[n - 1], seq[n])
    <3>1. c[n] \in Seq(X) /\ Len(c[n]) = Len(c[n - 1]) + 1
      BY <2>2, <2>5
    <3>2. Len(c[n]) <= n
      BY <1>2, <2>1, <3>1
    <3> QED BY <3>1, <3>2
  <2> QED BY <2>3, <2>4, <2>5
<1> HIDE DEF T
<1>5. 0..Len(seq) \subseteq T
  BY <1>2, <1>3, <1>4, BoundedInduction
<1> QED BY <1>1, <1>2, <1>5 DEF T

\* Only the positions of the sequence matter.
LEMMA ChosenSame ==
  ASSUME NEW X, NEW seq \in Seq(X), NEW S, NEW R,
         \A n \in 1..Len(seq) : n \in S <=> n \in R
  PROVE  Chosen(seq, S) = Chosen(seq, R)
<1>1. PICK c : ChosenUpTo(c, X, seq, S) /\ Chosen(seq, S) = c[Len(seq)]
  BY ChosenTable
<1>2. PICK d : ChosenUpTo(d, X, seq, R) /\ Chosen(seq, R) = d[Len(seq)]
  BY ChosenTable
<1>3. Len(seq) \in Nat
  BY LenProperties
<1> DEFINE T == {n \in 0..Len(seq) : c[n] = d[n]}
<1>4. 0 \in T /\ \A n \in 1..Len(seq) : n - 1 \in T => n \in T
  BY <1>1, <1>2, <1>3 DEF ChosenUpTo
<1> HIDE DEF T
<1>5. 0..Len(seq) \subseteq T
  BY <1>3, <1>4, BoundedInduction
<1> QED BY <1>1, <1>2, <1>3, <1>5 DEF T

\* Nothing is chosen, or everything.
LEMMA ChosenNone ==
  ASSUME NEW X, NEW seq \in Seq(X), NEW S, \A n \in 1..Len(seq) : n \notin S
  PROVE  Chosen(seq, S) = << >>
<1>1. PICK c : ChosenUpTo(c, X, seq, S) /\ Chosen(seq, S) = c[Len(seq)]
  BY ChosenTable
<1>2. Len(seq) \in Nat
  BY LenProperties
<1> DEFINE T == {n \in 0..Len(seq) : c[n] = << >>}
<1>3. 0 \in T /\ \A n \in 1..Len(seq) : n - 1 \in T => n \in T
  BY <1>1, <1>2 DEF ChosenUpTo
<1> HIDE DEF T
<1>4. 0..Len(seq) \subseteq T
  BY <1>2, <1>3, BoundedInduction
<1> QED BY <1>1, <1>2, <1>4 DEF T

LEMMA ChosenAll ==
  ASSUME NEW X, NEW seq \in Seq(X), NEW S, \A n \in 1..Len(seq) : n \in S
  PROVE  Chosen(seq, S) = seq
<1>1. PICK c : ChosenUpTo(c, X, seq, S) /\ Chosen(seq, S) = c[Len(seq)]
  BY ChosenTable
<1>2. Len(seq) \in Nat /\ \A k \in 1..Len(seq) : seq[k] \in X
  BY LenProperties, ElementOfSeq
<1> DEFINE Same(n) == /\ c[n] \in Seq(X) /\ Len(c[n]) = n
                      /\ \A k \in 1..n : c[n][k] = seq[k]
           T == {n \in 0..Len(seq) : Same(n)}
<1>3. 0 \in T
  BY <1>1, <1>2, EmptySeq DEF ChosenUpTo
<1>4. ASSUME NEW n \in 1..Len(seq), n - 1 \in T
      PROVE  n \in T
  <2>1. c[n - 1] \in Seq(X) /\ Len(c[n - 1]) = n - 1 /\ c[n] = Append(c[n - 1], seq[n])
    BY <1>1, <1>2, <1>4 DEF ChosenUpTo
  <2>2. c[n] \in Seq(X) /\ Len(c[n]) = n
    BY <1>2, <2>1, AppendProperties
  <2>3. ASSUME NEW k \in 1..n
        PROVE  c[n][k] = seq[k]
    <3>1. CASE k = n
      BY <1>2, <2>1, <3>1, AppendProperties
    <3>2. CASE k # n
      <4>1. k \in 1..(n - 1) /\ c[n - 1][k] = seq[k]
        BY <1>4, <3>2
      <4> QED BY <1>2, <2>1, <4>1, AppendProperties
    <3> QED BY <3>1, <3>2
  <2> QED BY <2>2, <2>3
<1> HIDE DEF T
<1>5. 0..Len(seq) \subseteq T
  BY <1>2, <1>3, <1>4, BoundedInduction
<1>6. Same(Len(seq))
  BY <1>2, <1>5 DEF T
<1>7. c[Len(seq)] = seq
  BY <1>2, <1>6, SeqEqual
<1> QED BY <1>1, <1>7

\* w is t and l behind it; the form that the lemmas below cite.
Joined(w, t, l) == /\ Len(w) = Len(t) + Len(l)
                   /\ \A k \in 1..Len(t) : k \in 1..Len(w) /\ w[k] = t[k]
                   /\ \A k \in 1..Len(l) : Len(t) + k \in 1..Len(w) /\ w[Len(t) + k] = l[k]

LEMMA ConcatJoins ==
  ASSUME NEW X, NEW t \in Seq(X), NEW l \in Seq(X), NEW w, w = t \o l
  PROVE  w \in Seq(X) /\ Joined(w, t, l)
<1> DEFINE m == Len(t)
           n == Len(l)
<1>1. w \in Seq(X) /\ Len(w) = m + n /\ m \in Nat /\ n \in Nat
  BY ConcatProperties, LenProperties
<1>2. \A k \in 1..(m + n) : w[k] = IF k <= m THEN t[k] ELSE l[k - m]
  BY ConcatProperties
<1>3. \A k \in 1..n : (m + k) - m = k /\ m + k \in 1..(m + n) /\ ~(m + k <= m)
  BY <1>1
<1>4. \A k \in 1..m : k \in 1..(m + n) /\ k <= m
  BY <1>1
<1> HIDE DEF m, n
<1>5. /\ \A k \in 1..m : k \in 1..Len(w) /\ w[k] = t[k]
      /\ \A k \in 1..n : m + k \in 1..Len(w) /\ w[m + k] = l[k]
  BY <1>1, <1>2, <1>3, <1>4
<1> QED BY <1>1, <1>5 DEF Joined, m, n

\* Two sequences that join the same are the same.
LEMMA JoinedUnique ==
  ASSUME NEW X, NEW t \in Seq(X), NEW l \in Seq(X), NEW v \in Seq(X), NEW w \in Seq(X),
         Joined(v, t, l), Joined(w, t, l)
  PROVE  v = w
<1>1. Len(v) = Len(w) /\ Len(v) = Len(t) + Len(l) /\ Len(t) \in Nat /\ Len(l) \in Nat
  BY LenProperties DEF Joined
<1>2. ASSUME NEW k \in 1..Len(v)
      PROVE  v[k] = w[k]
  <2>1. CASE k \in 1..Len(t)
    BY <2>1 DEF Joined
  <2>2. CASE k \notin 1..Len(t)
    <3>1. k - Len(t) \in 1..Len(l) /\ Len(t) + (k - Len(t)) = k
      BY <1>1, <2>2
    <3> QED BY <3>1 DEF Joined
  <2> QED BY <2>1, <2>2
<1> QED BY <1>1, <1>2, SeqEqual

\* If an item follows both.
LEMMA AppendJoins ==
  ASSUME NEW X, NEW t \in Seq(X), NEW l \in Seq(X), NEW w \in Seq(X), Joined(w, t, l), NEW x \in X
  PROVE  Joined(Append(w, x), t, Append(l, x))
<1> DEFINE u == Append(w, x)
           v == Append(l, x)
<1>1. Len(t) \in Nat /\ Len(l) \in Nat /\ Len(w) = Len(t) + Len(l)
  BY LenProperties DEF Joined
<1>2. Len(u) = Len(w) + 1 /\ u[Len(w) + 1] = x /\ \A k \in 1..Len(w) : u[k] = w[k]
  BY AppendProperties
<1>3. Len(v) = Len(l) + 1 /\ v[Len(l) + 1] = x /\ \A k \in 1..Len(l) : v[k] = l[k]
  BY AppendProperties
<1> HIDE DEF u, v
<1>4. ASSUME NEW k \in 1..Len(t)
      PROVE  k \in 1..Len(u) /\ u[k] = t[k]
  BY <1>1, <1>2 DEF Joined
<1>5. ASSUME NEW k \in 1..Len(v)
      PROVE  Len(t) + k \in 1..Len(u) /\ u[Len(t) + k] = v[k]
  <2>1. Len(t) + k \in 1..Len(u)
    BY <1>1, <1>2, <1>3
  <2>2. CASE k = Len(l) + 1
    <3>1. Len(t) + k = Len(w) + 1
      BY <1>1, <2>2
    <3> QED BY <1>2, <1>3, <2>1, <2>2, <3>1
  <2>3. CASE k # Len(l) + 1
    <3>1. k \in 1..Len(l)
      BY <1>1, <1>3, <2>3
    <3>2. Len(t) + k \in 1..Len(w) /\ w[Len(t) + k] = l[k]
      BY <3>1 DEF Joined
    <3> QED BY <1>2, <1>3, <2>1, <3>1, <3>2
  <2> QED BY <2>2, <2>3
<1>6. Len(u) = Len(t) + Len(v)
  BY <1>1, <1>2, <1>3
<1> QED BY <1>4, <1>5, <1>6 DEF Joined, u, v

\* What is chosen from two sequences is chosen from each.
LEMMA ChosenJoined ==
  ASSUME NEW X, NEW s \in Seq(X), NEW r \in Seq(X), NEW w \in Seq(X), Joined(w, s, r),
         NEW S, NEW Q, NEW R,
         \A k \in 1..Len(s) : k \in S <=> k \in Q,
         \A k \in 1..Len(r) : Len(s) + k \in S <=> k \in R
  PROVE  Joined(Chosen(w, S), Chosen(s, Q), Chosen(r, R))
<1> DEFINE m == Len(s)
           n == Len(r)
<1>1. /\ m \in Nat /\ n \in Nat /\ Len(w) = m + n
      /\ \A k \in 1..m : k \in 1..Len(w) /\ w[k] = s[k]
      /\ \A k \in 1..n : m + k \in 1..Len(w) /\ w[m + k] = r[k] /\ r[k] \in X
  BY LenProperties, ElementOfSeq DEF Joined
<1>2. PICK c : ChosenUpTo(c, X, w, S) /\ Chosen(w, S) = c[m + n]
  BY <1>1, ChosenTable
<1>3. PICK d : ChosenUpTo(d, X, s, Q) /\ Chosen(s, Q) = d[m]
  BY ChosenTable
<1>4. PICK e : ChosenUpTo(e, X, r, R) /\ Chosen(r, R) = e[n]
  BY ChosenTable
<1>5. /\ c \in [0..m + n -> Seq(X)] /\ c[0] = << >>
      /\ \A k \in 1..m + n : c[k] = IF k \in S THEN Append(c[k - 1], w[k]) ELSE c[k - 1]
  BY <1>1, <1>2 DEF ChosenUpTo
<1>6. /\ d \in [0..m -> Seq(X)] /\ d[0] = << >>
      /\ \A k \in 1..m : d[k] = IF k \in Q THEN Append(d[k - 1], s[k]) ELSE d[k - 1]
  BY <1>3 DEF ChosenUpTo
<1>7. /\ e \in [0..n -> Seq(X)] /\ e[0] = << >>
      /\ \A k \in 1..n : e[k] = IF k \in R THEN Append(e[k - 1], r[k]) ELSE e[k - 1]
  BY <1>4 DEF ChosenUpTo
<1>8. \A k \in 1..m : k \in S <=> k \in Q
  OBVIOUS
<1>9. \A k \in 1..n : k \in R <=> m + k \in S
  OBVIOUS
<1> HIDE DEF m, n
<1> DEFINE T == {k \in 0..m : c[k] = d[k]}
<1>10. 0 \in T
  BY <1>1, <1>5, <1>6
<1>11. ASSUME NEW k \in 1..m, k - 1 \in T
       PROVE  k \in T
  <2>1. k \in 1..m + n /\ w[k] = s[k] /\ c[k - 1] = d[k - 1] /\ k \in 0..m
    BY <1>1, <1>11
  <2>2. c[k] = d[k]
    BY <1>5, <1>6, <1>8, <2>1
  <2> QED BY <2>1, <2>2
<1> HIDE DEF T
<1>12. 0..m \subseteq T
  BY <1>1, <1>10, <1>11, BoundedInduction
<1>13. c[m] = d[m] /\ d[m] \in Seq(X)
  BY <1>1, <1>6, <1>12 DEF T
<1> DEFINE Follows(k) == Joined(c[m + k], d[m], e[k])
           U == {k \in 0..n : Follows(k)}
<1>14. 0 \in U
  <2>1. Len(d[m]) \in Nat /\ Len(<< >>) = 0
    BY <1>13, LenProperties
  <2>2. Joined(d[m], d[m], << >>)
    BY <2>1 DEF Joined
  <2>3. m + 0 = m /\ 0 \in 0..n
    BY <1>1
  <2> QED BY <1>7, <1>13, <2>2, <2>3
<1>15. ASSUME NEW k \in 1..n, k - 1 \in U
       PROVE  k \in U
  <2>1. /\ m + k \in 1..m + n /\ (m + k) - 1 = m + (k - 1) /\ k \in 0..n /\ k - 1 \in 0..n
        /\ m + (k - 1) \in 0..m + n
    BY <1>1
  <2>2. /\ c[m + (k - 1)] \in Seq(X) /\ e[k - 1] \in Seq(X)
        /\ Joined(c[m + (k - 1)], d[m], e[k - 1])
    BY <1>5, <1>7, <1>15, <2>1
  <2>3. c[m + k] = IF m + k \in S THEN Append(c[m + (k - 1)], r[k]) ELSE c[m + (k - 1)]
    BY <1>1, <1>5, <2>1
  <2>4. e[k] = IF m + k \in S THEN Append(e[k - 1], r[k]) ELSE e[k - 1]
    BY <1>7, <1>9
  <2>5. Joined(Append(c[m + (k - 1)], r[k]), d[m], Append(e[k - 1], r[k]))
    <3> DEFINE u == c[m + (k - 1)]
               v == d[m]
               x == e[k - 1]
               y == r[k]
    <3>1. u \in Seq(X) /\ v \in Seq(X) /\ x \in Seq(X) /\ y \in X /\ Joined(u, v, x)
      BY <1>1, <1>13, <2>2
    <3> HIDE DEF u, v, x, y
    <3>2. Joined(Append(u, y), v, Append(x, y))
      BY <3>1, AppendJoins
    <3> QED BY <3>2 DEF u, v, x, y
  <2>6. Follows(k)
    BY <2>2, <2>3, <2>4, <2>5
  <2> QED BY <2>1, <2>6
<1> HIDE DEF U
<1>16. 0..n \subseteq U
  BY <1>1, <1>14, <1>15, BoundedInduction
<1>17. n \in U
  BY <1>1, <1>16
<1> QED BY <1>2, <1>3, <1>4, <1>13, <1>17 DEF U

-----------------------------------------------------------------------------
(* Quotes.                                                                 *)

OneOfQuotes == {DoubleQuote, "'"}
Unescaped(text, j) == text[j] \in OneOfQuotes /\ (j = 1 \/ text[j - 1] # "\\")
QuotesBefore(text, i) == {j \in 1..i - 1 : Unescaped(text, j)}

LEMMA InsideDef ==
  ASSUME NEW text, NEW i
  PROVE  Inside(text, i) <=> Cardinality(QuotesBefore(text, i)) % 2 = 1
BY DEF Inside, QuotesBefore, Unescaped, OneOfQuotes

LEMMA QuotesFinite ==
  ASSUME NEW text, NEW i \in Nat
  PROVE  /\ IsFiniteSet(QuotesBefore(text, i))
         /\ Cardinality(QuotesBefore(text, i)) \in Nat
<1>1. IsFiniteSet(1..i - 1)
  BY FS_Interval
<1>2. QuotesBefore(text, i) \subseteq 1..i - 1
  BY DEF QuotesBefore
<1> QED BY <1>1, <1>2, FS_Subset, FS_CardinalityType

\* A quote that is not escaped begins or ends a quotation, nothing else does.
LEMMA InsideNext ==
  ASSUME NEW text, NEW i \in Nat \ {0}
  PROVE  Inside(text, i + 1) <=> IF Unescaped(text, i) THEN ~Inside(text, i)
                                                       ELSE Inside(text, i)
<1> DEFINE P == QuotesBefore(text, i)
           Q == QuotesBefore(text, i + 1)
<1>1. IsFiniteSet(P) /\ Cardinality(P) \in Nat /\ i \notin P
  BY QuotesFinite DEF QuotesBefore
<1>2. Q = IF Unescaped(text, i) THEN P \cup {i} ELSE P
  BY DEF QuotesBefore
<1> HIDE DEF P, Q
<1>3. Cardinality(P \cup {i}) = Cardinality(P) + 1
  BY <1>1, FS_AddElement
<1>4. \A m \in Nat : (m + 1) % 2 = 1 <=> ~(m % 2 = 1)
  OBVIOUS
<1>5. Cardinality(Q) % 2 = 1 <=> IF Unescaped(text, i) THEN ~(Cardinality(P) % 2 = 1)
                                                       ELSE Cardinality(P) % 2 = 1
  BY <1>1, <1>2, <1>3, <1>4
<1> QED BY <1>5, InsideDef DEF P, Q

LEMMA InsideFirst == ASSUME NEW text PROVE ~Inside(text, 1)
<1>1. QuotesBefore(text, 1) = {}
  BY DEF QuotesBefore
<1>2. Cardinality(QuotesBefore(text, 1)) % 2 = 0
  BY <1>1, FS_EmptySet
<1> QED BY <1>2, InsideDef

\* What follows does not matter.
LEMMA InsideSame ==
  ASSUME NEW text, NEW more, NEW i \in Nat \ {0}, \A j \in 1..i - 1 : text[j] = more[j]
  PROVE  Inside(text, i) <=> Inside(more, i)
<1>1. \A j \in 1..i - 1 : j = 1 \/ j - 1 \in 1..i - 1
  OBVIOUS
<1>2. QuotesBefore(text, i) = QuotesBefore(more, i)
  BY <1>1 DEF QuotesBefore, Unescaped
<1> QED BY <1>2, InsideDef

\* The count and the last quote tell whether what comes next is inside a quotation.
Counts(q, text, n) ==
  /\ q.count \in {0, 1}
  /\ q.count = 1 <=> Inside(text, n + 1)
  /\ q.count = 1 => \E j \in 1..n : text[j] = q.last /\ q.last \in OneOfQuotes

OneKind(text) == \A j, k \in 1..Len(text) :
                   text[j] \in OneOfQuotes /\ text[k] \in OneOfQuotes => text[j] = text[k]

LEMMA QuoteCounted ==
  ASSUME NEW text, NEW n \in Nat, n + 1 \in 1..Len(text), OneKind(text),
         NEW q \in Quotes, Counts(q, text, n), NEW before,
         Unescaped(text, n + 1) <=> text[n + 1] \in OneOfQuotes /\ before # "\\"
  PROVE  Counts(CountQuote(q, before, text[n + 1]), text, n + 1)
<1> DEFINE ch == text[n + 1]
           new == CountQuote(q, before, ch)
<1>1. n + 1 \in Nat \ {0} /\ \A j \in 1..n : j \in 1..(n + 1) /\ j \in 1..Len(text)
  BY LenProperties
<1>2. Inside(text, (n + 1) + 1) <=> IF Unescaped(text, n + 1) THEN ~Inside(text, n + 1)
                                                              ELSE Inside(text, n + 1)
  BY <1>1, InsideNext
<1>3. CASE ~Unescaped(text, n + 1)
  <2>1. new = q
    BY <1>3 DEF CountQuote, OneOfQuotes
  <2> QED BY <1>1, <1>2, <1>3, <2>1 DEF Counts
<1>4. CASE Unescaped(text, n + 1) /\ q.count = 1
  <2>1. PICK j \in 1..n : text[j] = q.last /\ q.last \in OneOfQuotes
    BY <1>4 DEF Counts
  <2>2. q.last = ch
    BY <1>1, <1>4, <2>1 DEF OneKind
  <2>3. new = [q EXCEPT !.count = q.count - 1]
    BY <1>4, <2>2 DEF CountQuote, OneOfQuotes
  <2>4. new.count = 0
    BY <1>4, <2>3 DEF Quotes
  <2> QED BY <1>2, <1>4, <2>4 DEF Counts
<1>5. CASE Unescaped(text, n + 1) /\ q.count = 0
  <2>1. new = [count |-> 1, last |-> ch]
    BY <1>5 DEF CountQuote, OneOfQuotes
  <2>2. n + 1 \in 1..(n + 1) /\ ch \in OneOfQuotes /\ new.last = ch /\ new.count = 1
    BY <1>5, <2>1
  <2> QED BY <1>2, <1>5, <2>2 DEF Counts
<1> QED BY <1>3, <1>4, <1>5 DEF Counts

\* So it is after a whole line, whose first character follows a line end.
LEMMA LineCounted ==
  ASSUME NEW X, NEW t \in Seq(X), NEW l \in Seq(Char), NEW w, Len(w) \in Nat, Joined(w, t, l),
         OneKind(w), t = << >> \/ t[Len(t)] = "\n",
         quote \in Quotes, Counts(quote, t, Len(t))
  PROVE  Counts(CountQuotes(l), w, Len(w))
<1> DEFINE m == Len(t)
           n == Len(l)
<1>1. /\ m \in Nat /\ n \in Nat /\ Len(w) = m + n
      /\ \A k \in 1..n : m + k \in 1..Len(w) /\ w[m + k] = l[k]
      /\ \A k \in 1..m : k \in 1..Len(w) /\ w[k] = t[k]
  BY LenProperties DEF Joined
<1>2. m = 0 \/ w[m] = "\n"
  BY <1>1, EmptySeq
<1>3. PICK g \in [0..n -> Quotes] :
        /\ g[0] = quote
        /\ \A i \in 1..n : g[i] = CountQuote(g[i - 1], Before(l, i), l[i])
        /\ CountQuotes(l) = g[n]
  BY CountTurns
<1>4. Counts(quote, w, m)
  <2>1. Inside(t, m + 1) <=> Inside(w, m + 1)
    <3>1. m + 1 \in Nat \ {0} /\ \A j \in 1..(m + 1) - 1 : t[j] = w[j]
      BY <1>1
    <3> QED BY <3>1, InsideSame
  <2> QED BY <1>1, <2>1 DEF Counts
<1> HIDE DEF m, n
<1> DEFINE T == {i \in 0..n : Counts(g[i], w, m + i)}
<1>5. 0 \in T
  BY <1>1, <1>3, <1>4
<1>6. ASSUME NEW i \in 1..n, i - 1 \in T
      PROVE  i \in T
  <2>1. /\ m + (i - 1) \in Nat /\ (m + (i - 1)) + 1 = m + i /\ m + i \in 1..Len(w)
        /\ w[m + i] = l[i] /\ i \in 0..n /\ g[i - 1] \in Quotes
    BY <1>1, <1>3
  <2>2. Unescaped(w, m + i) <=> w[m + i] \in OneOfQuotes /\ Before(l, i) # "\\"
    <3>1. CASE i = 1
      BY <1>1, <1>2, <3>1 DEF Unescaped, Before
    <3>2. CASE i # 1
      <4>1. i - 1 \in 1..n /\ m + (i - 1) = (m + i) - 1 /\ m + i # 1
        BY <1>1, <3>2
      <4>2. w[(m + i) - 1] = l[i - 1]
        BY <1>1, <4>1
      <4> QED BY <3>2, <4>1, <4>2 DEF Unescaped, Before
    <3> QED BY <3>1, <3>2
  <2>3. Counts(g[i - 1], w, m + (i - 1))
    BY <1>6
  <2>4. Counts(CountQuote(g[i - 1], Before(l, i), w[m + i]), w, m + i)
    BY <2>1, <2>2, <2>3, QuoteCounted
  <2>5. g[i] = CountQuote(g[i - 1], Before(l, i), w[m + i])
    BY <1>3, <2>1
  <2> QED BY <2>1, <2>4, <2>5
<1> HIDE DEF T
<1>7. 0..n \subseteq T
  BY <1>1, <1>5, <1>6, BoundedInduction
<1>8. n \in T
  BY <1>1, <1>7
<1> QED BY <1>1, <1>3, <1>8 DEF T

-----------------------------------------------------------------------------
(* What fgets takes.                                                       *)

LEMMA FirstProperties ==
  ASSUME NEW X, NEW line \in Seq(X), NEW positions, NEW i \in 1..Len(line) + 1
  PROVE  /\ First(line, i, positions) \in i..Len(line) + 1
         /\ First(line, i, positions) \in positions \cup {Len(line) + 1}
         /\ (i..First(line, i, positions) - 1) \cap positions = {}
<1> DEFINE n == Len(line)
           T == {j \in i..n + 1 : j \in positions \cup {n + 1}}
<1>1. n \in Nat
  BY LenProperties
<1>2. T \in SUBSET Nat /\ n + 1 \in T
  BY <1>1
<1>3. PICK j \in T : \A k \in T : j <= k
  BY <1>2, LeastElement
<1>4. \A k \in i..j - 1 : k \in i..n + 1 /\ ~(j <= k)
  BY <1>1, <1>3
<1>5. (i..j - 1) \cap positions = {}
  BY <1>3, <1>4
<1>6. \E k \in i..n + 1 : k \in positions \cup {n + 1} /\ (i..k - 1) \cap positions = {}
  BY <1>3, <1>5
<1> QED BY <1>6 DEF First

\* The line that is typed but for what does not fit in line_buffer.
LEMMA FetchedProperties ==
  ASSUME stdin \in Seq(Char), stdin # << >>,
         \A i \in 1..Len(stdin) : stdin[i] = "\n" => i = Len(stdin)
  PROVE  /\ Fetched \in Seq(Char)
         /\ Len(Fetched) \in 1..Len(stdin)
         /\ Len(Fetched) <= LINE_SIZE - 1
         /\ Len(Fetched) = Len(stdin) \/ Len(Fetched) = LINE_SIZE - 1
         /\ \A k \in 1..Len(Fetched) : Fetched[k] = stdin[k]
<1> DEFINE size == Len(stdin)
           end == First(stdin, 1, Positions(stdin, {"\n"}))
           room == LINE_SIZE - 1
           Least(k) == \A m \in {end, size, room} : k <= m
           n == CHOOSE k \in {end, size, room} : Least(k)
<1>1. size \in Nat \ {0} /\ DOMAIN stdin = 1..size /\ \A k \in 1..size : stdin[k] \in Char
  BY EmptySeq, LenProperties, ElementOfSeq
<1>2. room \in Nat \ {0}
  BY SizeAssumption
<1>3. end \in 1..size + 1 /\ end \in Positions(stdin, {"\n"}) \cup {size + 1}
  <2> DEFINE P == Positions(stdin, {"\n"})
             f == First(stdin, 1, P)
  <2> HIDE DEF P, size
  <2>1. 1 \in 1..size + 1
    BY <1>1
  <2> USE DEF size
  <2>2. f \in 1..size + 1 /\ f \in P \cup {size + 1}
    BY <2>1, FirstProperties
  <2> QED BY <2>2 DEF P
<1>4. end = size \/ end = size + 1
  BY <1>1, <1>3 DEF Positions
<1>5. Fetched = SubSeq(stdin, 1, n)
  BY DEF Fetched
<1> HIDE DEF end, size, room, n
<1>6. \E k \in {end, size, room} : Least(k)
  <2>1. CASE room <= size
    <3>1. Least(room)
      BY <1>1, <1>2, <1>4, <2>1
    <3> QED BY <3>1
  <2>2. CASE ~(room <= size)
    <3>1. Least(size)
      BY <1>1, <1>2, <1>4, <2>2
    <3> QED BY <3>1
  <2> QED BY <2>1, <2>2
<1>7. n \in {end, size, room} /\ Least(n)
  BY <1>6 DEF n
<1>8. n \in 1..size /\ n <= room /\ (n = size \/ n = room)
  BY <1>1, <1>2, <1>4, <1>7
<1>9. \A k \in 1..n : stdin[k] \in Char
  BY <1>1, <1>8
<1>10. /\ SubSeq(stdin, 1, n) \in Seq(Char)
       /\ Len(SubSeq(stdin, 1, n)) = IF 1 <= n THEN n - 1 + 1 ELSE 0
       /\ \A k \in 1..n - 1 + 1 : SubSeq(stdin, 1, n)[k] = stdin[1 + k - 1]
  BY <1>1, <1>8, <1>9, SubSeqProperties
<1>11. n - 1 + 1 = n /\ \A k \in 1..n : 1 + k - 1 = k
  BY <1>1, <1>8
<1>12. Len(Fetched) = n /\ \A k \in 1..n : Fetched[k] = stdin[k]
  BY <1>1, <1>5, <1>8, <1>10, <1>11
<1> QED BY <1>5, <1>8, <1>10, <1>12 DEF size, room

-----------------------------------------------------------------------------
(* What is typed for a command, and a line behind it.                      *)

LEMMA EscapedSame ==
  ASSUME NEW text, NEW more, NEW i \in Nat \ {0}, \A j \in 1..i : text[j] = more[j]
  PROVE  EscapedEnd(text, i) <=> EscapedEnd(more, i)
<1>1. \A j \in 1..i - 1 : j \in 1..i
  OBVIOUS
<1>2. Inside(text, i) <=> Inside(more, i)
  BY <1>1, InsideSame
<1>3. i \in 1..i /\ (i > 1 => i - 1 \in 1..i)
  OBVIOUS
<1> QED BY <1>2, <1>3 DEF EscapedEnd, LineEnd

LEMMA PlainPrefix ==
  ASSUME NEW X, NEW t \in Seq(X), NEW l \in Seq(X), NEW w \in Seq(X), Joined(w, t, l), Plain(w)
  PROVE  Plain(t)
<1> DEFINE m == Len(t)
<1>1. /\ m \in Nat /\ Len(w) \in Nat /\ m <= Len(w)
      /\ DOMAIN t = 1..m /\ DOMAIN w = 1..Len(w)
      /\ \A k \in 1..m : k \in 1..Len(w) /\ w[k] = t[k]
  BY LenProperties DEF Joined
<1>2. LINE_SIZE \in Nat \ {0, 1} /\ MAX_BUFFER_SIZE \in Nat
  BY SizeAssumption
<1> HIDE DEF m
<1>3. ~({DoubleQuote, "'"} \subseteq Range(t))
  <2>1. Range(t) \subseteq Range(w)
    BY <1>1 DEF Range
  <2> QED BY <2>1 DEF Plain
<1>4. ASSUME NEW i \in 1..m, EscapedEnd(t, i)
      PROVE  i > 2 /\ ~LineEnd(t, i - 2)
  <2>1. i \in Nat \ {0} /\ \A j \in 1..i : w[j] = t[j]
    BY <1>1
  <2>2. EscapedEnd(w, i) /\ i \in DOMAIN w
    BY <1>1, <1>4, <2>1, EscapedSame
  <2>3. i > 2 /\ ~LineEnd(w, i - 2)
    BY <2>2 DEF Plain
  <2>4. i - 2 \in 1..i
    BY <2>1, <2>3
  <2> QED BY <2>1, <2>3, <2>4 DEF LineEnd
<1>5. ASSUME NEW i \in 0..m - LINE_SIZE + 1
      PROVE  \E j \in i + 1..i + LINE_SIZE - 1 : LineEnd(t, j)
  <2>1. i \in 0..Len(w) - LINE_SIZE + 1
    BY <1>1, <1>2
  <2>2. PICK j \in i + 1..i + LINE_SIZE - 1 : LineEnd(w, j)
    BY <2>1 DEF Plain
  <2>3. j \in 1..m
    BY <1>1, <1>2
  <2>4. LineEnd(t, j)
    BY <1>1, <2>2, <2>3 DEF LineEnd
  <2> QED BY <2>4
<1>6. m < MAX_BUFFER_SIZE
  <2>1. Len(w) < MAX_BUFFER_SIZE
    BY DEF Plain
  <2> QED BY <1>1, <1>2, <2>1
<1> QED BY <1>1, <1>3, <1>4, <1>5, <1>6 DEF Plain, m

LEMMA PlainQuotes ==
  ASSUME NEW X, NEW w \in Seq(X), Plain(w)
  PROVE  OneKind(w)
<1> SUFFICES ASSUME NEW j \in 1..Len(w), NEW k \in 1..Len(w),
                    w[j] \in OneOfQuotes, w[k] \in OneOfQuotes, w[j] # w[k]
             PROVE  FALSE
  BY DEF OneKind
<1>1. w[j] \in Range(w) /\ w[k] \in Range(w)
  BY LenProperties DEF Range
<1>2. {DoubleQuote, "'"} \subseteq Range(w)
  BY <1>1 DEF OneOfQuotes
<1> QED BY <1>2 DEF Plain

\* A line that fits in line_buffer has its end.
LEMMA LineComplete ==
  ASSUME NEW X, NEW t \in Seq(X), NEW l \in Seq(X), NEW w \in Seq(X), Joined(w, t, l), Plain(w),
         Len(l) = LINE_SIZE - 1,
         \A k \in 1..Len(l) : l[k] = "\n" => k = Len(l)
  PROVE  l[Len(l)] = "\n"
<1>1. /\ Len(t) \in Nat /\ LINE_SIZE \in Nat \ {0, 1}
      /\ Len(w) = Len(t) + (LINE_SIZE - 1)
      /\ \A k \in 1..Len(l) : w[Len(t) + k] = l[k]
  BY LenProperties, SizeAssumption DEF Joined
<1>2. Len(t) \in 0..Len(w) - LINE_SIZE + 1
  BY <1>1
<1>3. PICK j \in Len(t) + 1..Len(t) + LINE_SIZE - 1 : LineEnd(w, j)
  BY <1>2 DEF Plain
<1>4. j - Len(t) \in 1..Len(l) /\ Len(t) + (j - Len(t)) = j
  BY <1>1
<1>5. l[j - Len(t)] = "\n"
  BY <1>1, <1>3, <1>4 DEF LineEnd
<1> QED BY <1>4, <1>5

\* l is a whole line, w is what was typed with it and can be a plain command.
LineBehind(w, t, l) ==
  /\ Joined(w, t, l) /\ Plain(w)
  /\ t = << >> \/ t[Len(t)] = "\n"
  /\ Len(l) >= 1 /\ l[Len(l)] = "\n"
  /\ \A k \in 1..Len(l) : l[k] = "\n" => k = Len(l)

\* Where in the text there is no line end.
LEMMA LastLine ==
  ASSUME NEW X, NEW t \in Seq(X), NEW l \in Seq(X), NEW w \in Seq(X), LineBehind(w, t, l)
  PROVE  /\ Len(t) \in Nat /\ Len(l) \in Nat \ {0} /\ Len(w) = Len(t) + Len(l)
         /\ \A k \in 1..Len(t) : w[k] = t[k]
         /\ \A k \in 1..Len(l) : w[Len(t) + k] = l[k]
         /\ w[Len(w)] = "\n"
         /\ \A i \in 1..Len(w) : i > Len(t) /\ w[i] = "\n" => i = Len(w)
         /\ Len(t) > 0 => w[Len(t)] = "\n"
<1>1. /\ Len(t) \in Nat /\ Len(l) \in Nat \ {0} /\ Len(w) = Len(t) + Len(l)
      /\ \A k \in 1..Len(t) : w[k] = t[k]
      /\ \A k \in 1..Len(l) : w[Len(t) + k] = l[k]
  BY LenProperties DEF LineBehind, Joined
<1>2. Len(l) \in 1..Len(l) /\ l[Len(l)] = "\n" /\ \A k \in 1..Len(l) : l[k] = "\n" => k = Len(l)
  BY <1>1 DEF LineBehind
<1>3. w[Len(w)] = "\n"
  BY <1>1, <1>2
<1>4. ASSUME NEW i \in 1..Len(w), i > Len(t), w[i] = "\n"
      PROVE  i = Len(w)
  <2>1. i - Len(t) \in 1..Len(l) /\ Len(t) + (i - Len(t)) = i
    BY <1>1, <1>4
  <2>2. l[i - Len(t)] = "\n"
    BY <1>1, <1>4, <2>1
  <2> QED BY <1>1, <1>2, <2>1, <2>2
<1>5. ASSUME Len(t) > 0
      PROVE  w[Len(t)] = "\n"
  <2>1. t # << >> /\ Len(t) \in 1..Len(t)
    BY <1>1, <1>5, EmptySeq
  <2> QED BY <1>1, <2>1 DEF LineBehind
<1> QED BY <1>1, <1>3, <1>4, <1>5

\* The quotes before the line end of the last line are those before what follows.
LEMMA InsideLast ==
  ASSUME NEW w, Len(w) \in Nat \ {0}, w[Len(w)] = "\n"
  PROVE  Inside(w, Len(w) + 1) <=> Inside(w, Len(w))
<1>1. ~Unescaped(w, Len(w))
  BY DEF Unescaped, OneOfQuotes, DoubleQuote
<1> QED BY <1>1, InsideNext

\* The line end is escaped as multiline_input sees it if it is in the text.
LEMMA EscapedLast ==
  ASSUME NEW X, NEW t \in Seq(X), NEW l \in Seq(X), NEW w \in Seq(X), LineBehind(w, t, l)
  PROVE  /\ EscapedEnd(w, Len(w)) <=> Escaped(l) /\ ~Inside(w, Len(w) + 1)
         /\ EscapedEnd(w, Len(w)) => Len(l) > 2
<1> DEFINE m == Len(t)
           n == Len(l)
           N == Len(w)
<1>1. /\ m \in Nat /\ n \in Nat \ {0} /\ N = m + n /\ DOMAIN w = 1..N
      /\ \A k \in 1..m : w[k] = t[k]
      /\ \A k \in 1..n : w[m + k] = l[k]
      /\ w[N] = "\n"
      /\ m > 0 => w[m] = "\n"
  BY LastLine, LenProperties
<1>2. Inside(w, N + 1) <=> Inside(w, N)
  <2>1. Len(w) \in Nat \ {0} /\ w[Len(w)] = "\n"
    BY LastLine
  <2> QED BY <2>1, InsideLast
<1>3. \A i \in DOMAIN w : EscapedEnd(w, i) => i > 2 /\ ~LineEnd(w, i - 2)
  BY DEF LineBehind, Plain
<1>4. Escaped(l) <=> n > 2 /\ l[n - 1] = "\\"
  BY DEF Escaped
<1>5. EscapedEnd(w, N) <=> N > 1 /\ w[N - 1] = "\\" /\ ~Inside(w, N)
  BY <1>1 DEF EscapedEnd, LineEnd
<1> HIDE DEF m, n, N
<1>6. n > 2 => N > 1 /\ w[N - 1] = l[n - 1]
  <2>1. n > 2 => n - 1 \in 1..n /\ m + (n - 1) = N - 1 /\ N > 1
    BY <1>1
  <2> QED BY <1>1, <2>1
<1>7. EscapedEnd(w, N) => n > 2
  <2> SUFFICES ASSUME EscapedEnd(w, N), ~(n > 2) PROVE FALSE
    OBVIOUS
  <2>1. N \in DOMAIN w /\ N > 2 /\ w[N - 2] # "\n"
    <3>1. N \in DOMAIN w
      BY <1>1
    <3> QED BY <1>3, <3>1 DEF LineEnd
  <2>2. n = 1 \/ n = 2
    BY <1>1
  <2>3. n = 1 => N - 1 = m /\ m > 0
    BY <1>1, <2>1
  <2>4. n = 2 => N - 2 = m /\ m > 0
    BY <1>1, <2>1
  <2>5. w[N - 1] = "\\"
    BY <1>5
  <2> QED BY <1>1, <2>1, <2>2, <2>3, <2>4, <2>5
<1> QED BY <1>2, <1>4, <1>5, <1>6, <1>7 DEF n, N

SplicedAt(text) == {i \in 1..Len(text) : /\ ~EscapedEnd(text, i)
                                         /\ ~(i < Len(text) /\ EscapedEnd(text, i + 1))}

LEMMA SplicedPositions ==
  ASSUME NEW X, NEW t \in Seq(X), NEW l \in Seq(X), NEW w \in Seq(X), LineBehind(w, t, l)
  PROVE  /\ \A k \in 1..Len(t) : k \in SplicedAt(w) <=> k \in SplicedAt(t)
         /\ \A k \in 1..Len(l) : Len(t) + k \in SplicedAt(w)
                                   <=> ~(EscapedEnd(w, Len(w)) /\ k >= Len(l) - 1)
<1> DEFINE m == Len(t)
           n == Len(l)
           N == Len(w)
<1>1. /\ m \in Nat /\ n \in Nat \ {0} /\ N = m + n
      /\ \A k \in 1..m : w[k] = t[k]
      /\ \A i \in 1..N : i > m /\ w[i] = "\n" => i = N
      /\ m > 0 => w[m] = "\n"
  BY LastLine
<1>2. \A k \in 1..N : k \in SplicedAt(w) <=> ~EscapedEnd(w, k) /\ ~(k < N /\ EscapedEnd(w, k + 1))
  BY DEF SplicedAt
<1>3. \A k \in 1..m : k \in SplicedAt(t) <=> ~EscapedEnd(t, k) /\ ~(k < m /\ EscapedEnd(t, k + 1))
  BY DEF SplicedAt
<1> HIDE DEF m, n, N
<1>4. \A k \in 1..m : EscapedEnd(w, k) <=> EscapedEnd(t, k)
  <2> TAKE k \in 1..m
  <2>1. k \in Nat \ {0} /\ \A j \in 1..k : w[j] = t[j]
    BY <1>1
  <2> QED BY <2>1, EscapedSame
<1>5. ASSUME NEW i \in 1..N, i > m, EscapedEnd(w, i)
      PROVE  i = N /\ i # m + 1
  <2>1. w[i] = "\n" /\ i > 1 /\ w[i - 1] = "\\"
    BY <1>5 DEF EscapedEnd, LineEnd
  <2>2. i = N
    BY <1>1, <1>5, <2>1
  <2>3. ASSUME i = m + 1 PROVE FALSE
    <3>1. i - 1 = m /\ m > 0
      BY <1>1, <2>1, <2>3
    <3> QED BY <1>1, <2>1, <3>1
  <2> QED BY <2>2, <2>3
<1>6. ASSUME NEW k \in 1..m
      PROVE  k \in SplicedAt(w) <=> k \in SplicedAt(t)
  <2>1. k \in 1..N /\ k < N /\ k + 1 \in 1..N
    BY <1>1
  <2>2. CASE k < m
    <3>1. k + 1 \in 1..m
      BY <1>1, <2>2
    <3> QED BY <1>2, <1>3, <1>4, <2>1, <2>2, <3>1
  <2>3. CASE ~(k < m)
    <3>1. k + 1 = m + 1 /\ k + 1 > m
      BY <1>1, <2>3
    <3>2. ~EscapedEnd(w, k + 1)
      BY <1>5, <2>1, <3>1
    <3> QED BY <1>2, <1>3, <1>4, <2>1, <2>3, <3>2
  <2> QED BY <2>2, <2>3
<1>7. ASSUME NEW k \in 1..n
      PROVE  m + k \in SplicedAt(w) <=> ~(EscapedEnd(w, N) /\ k >= n - 1)
  <2>1. m + k \in 1..N /\ m + k > m /\ (m + k = N <=> k = n)
    BY <1>1
  <2>2. EscapedEnd(w, m + k) <=> EscapedEnd(w, N) /\ k = n
    BY <1>5, <2>1
  <2>3. ASSUME m + k < N
        PROVE  EscapedEnd(w, (m + k) + 1) <=> EscapedEnd(w, N) /\ k = n - 1
    <3>1. (m + k) + 1 \in 1..N /\ (m + k) + 1 > m /\ ((m + k) + 1 = N <=> k = n - 1)
      BY <1>1, <2>1, <2>3
    <3> QED BY <1>5, <3>1
  <2>4. k = n - 1 => m + k < N
    BY <1>1
  <2>5. k >= n - 1 <=> k = n \/ k = n - 1
    BY <1>1
  <2> QED BY <1>2, <2>1, <2>2, <2>3, <2>4, <2>5
<1> QED BY <1>6, <1>7 DEF m, n, N

\* The first k characters are chosen.
LEMMA ChosenFront ==
  ASSUME NEW X, NEW l \in Seq(X), NEW k \in 0..Len(l), NEW S,
         \A i \in 1..Len(l) : i \in S <=> i <= k
  PROVE  Len(Chosen(l, S)) = k /\ \A i \in 1..k : Chosen(l, S)[i] = l[i]
<1> DEFINE n == Len(l)
           a == SubSeq(l, 1, k)
           b == SubSeq(l, k + 1, n)
<1>1. n \in Nat /\ k \in Nat /\ k <= n /\ \A i \in 1..n : l[i] \in X
  BY LenProperties, ElementOfSeq
<1>2. a \in Seq(X) /\ Len(a) = k /\ \A i \in 1..k : a[i] = l[i]
  <2>1. \A i \in 1..k : l[i] \in X
    BY <1>1
  <2>2. /\ a \in Seq(X) /\ Len(a) = IF 1 <= k THEN k - 1 + 1 ELSE 0
        /\ \A i \in 1..k - 1 + 1 : a[i] = l[1 + i - 1]
    BY <1>1, <2>1, SubSeqProperties
  <2>3. k - 1 + 1 = k /\ (~(1 <= k) => k = 0) /\ \A i \in 1..k : 1 + i - 1 = i
    BY <1>1
  <2> HIDE DEF a
  <2> QED BY <1>1, <2>2, <2>3
<1>3. b \in Seq(X) /\ Len(b) = n - k /\ \A i \in 1..n - k : b[i] = l[k + i]
  <2>1. \A i \in k + 1..n : l[i] \in X
    BY <1>1
  <2>2. /\ b \in Seq(X) /\ Len(b) = IF k + 1 <= n THEN n - (k + 1) + 1 ELSE 0
        /\ \A i \in 1..n - (k + 1) + 1 : b[i] = l[(k + 1) + i - 1]
    BY <1>1, <2>1, SubSeqProperties
  <2> HIDE DEF b, n
  <2>3. n - (k + 1) + 1 = n - k /\ (~(k + 1 <= n) => n - k = 0) /\ \A i \in 1..n - k : (k + 1) + i - 1 = k + i
    BY <1>1
  <2> QED BY <1>1, <2>2, <2>3
<1> HIDE DEF a, b
<1>4. Joined(l, a, b)
  BY <1>1, <1>2, <1>3 DEF Joined
<1> HIDE DEF n
<1>5. \A i \in 1..Len(a) : i \in S <=> i \in 1..k
  BY <1>1, <1>2 DEF n
<1>6. \A i \in 1..Len(b) : Len(a) + i \in S <=> i \in {}
  <2>1. \A i \in 1..n - k : k + i \in 1..Len(l) /\ ~(k + i <= k)
    BY <1>1 DEF n
  <2> QED BY <1>2, <1>3, <2>1
<1>7. Joined(Chosen(l, S), Chosen(a, 1..k), Chosen(b, {}))
  BY <1>2, <1>3, <1>4, <1>5, <1>6, ChosenJoined
<1>8. Chosen(a, 1..k) = a
  BY <1>2, ChosenAll
<1>9. Chosen(b, {}) = << >>
  BY <1>3, ChosenNone
<1>10. Joined(Chosen(l, S), a, << >>)
  BY <1>7, <1>8, <1>9
<1>11. Len(<< >>) = 0
  OBVIOUS
<1> QED BY <1>1, <1>2, <1>10, <1>11 DEF Joined

LEMMA SplicedDef ==
  ASSUME NEW X, NEW text \in Seq(X)
  PROVE  /\ Spliced(text) = Chosen(text, SplicedAt(text))
         /\ Spliced(text) \in Seq(X)
         /\ Len(Spliced(text)) <= Len(text)
<1>1. DOMAIN text = 1..Len(text)
  BY LenProperties
<1>2. Spliced(text) = Chosen(text, SplicedAt(text))
  BY <1>1 DEF Spliced, SplicedAt
<1> QED BY <1>2, ChosenTyped

\* The line is added to the spliced text, without its end and the backslash if it is escaped.
LEMMA SplicedNext ==
  ASSUME NEW X, NEW t \in Seq(X), NEW l \in Seq(X), NEW w \in Seq(X), LineBehind(w, t, l)
  PROVE  /\ ~EscapedEnd(w, Len(w)) => Joined(Spliced(w), Spliced(t), l)
         /\ EscapedEnd(w, Len(w)) =>
              /\ Len(Spliced(w)) = Len(Spliced(t)) + (Len(l) - 2)
              /\ \A k \in 1..Len(Spliced(t)) : Spliced(w)[k] = Spliced(t)[k]
              /\ \A k \in 1..Len(l) - 2 : Spliced(w)[Len(Spliced(t)) + k] = l[k]
<1> DEFINE escaped == EscapedEnd(w, Len(w))
           R == {k \in 1..Len(l) : ~(escaped /\ k >= Len(l) - 1)}
           r == Chosen(l, R)
<1>1. Len(l) \in Nat \ {0} /\ (escaped => Len(l) > 2)
  BY LastLine, EscapedLast
<1>2. Joined(Chosen(w, SplicedAt(w)), Chosen(t, SplicedAt(t)), r)
  <2>1. Joined(w, t, l)
    BY DEF LineBehind
  <2>2. \A k \in 1..Len(t) : k \in SplicedAt(w) <=> k \in SplicedAt(t)
    BY SplicedPositions
  <2>3. \A k \in 1..Len(l) : Len(t) + k \in SplicedAt(w) <=> k \in R
    BY SplicedPositions
  <2> HIDE DEF R
  <2> QED BY <2>1, <2>2, <2>3, ChosenJoined
<1>3. Joined(Spliced(w), Spliced(t), r)
  BY <1>2, SplicedDef
<1>4. ASSUME ~escaped
      PROVE  r = l
  <2>1. \A k \in 1..Len(l) : k \in R
    BY <1>4
  <2> HIDE DEF R
  <2> QED BY <2>1, ChosenAll
<1>5. ASSUME escaped
      PROVE  Len(r) = Len(l) - 2 /\ \A k \in 1..Len(l) - 2 : r[k] = l[k]
  <2>1. Len(l) - 2 \in 0..Len(l)
    BY <1>1, <1>5
  <2>2. \A k \in 1..Len(l) : k \in R <=> k <= Len(l) - 2
    BY <1>1, <1>5
  <2> HIDE DEF R
  <2> QED BY <2>1, <2>2, ChosenFront
<1> HIDE DEF r
<1>6. ASSUME escaped
      PROVE  /\ Len(Spliced(w)) = Len(Spliced(t)) + (Len(l) - 2)
             /\ \A k \in 1..Len(Spliced(t)) : Spliced(w)[k] = Spliced(t)[k]
             /\ \A k \in 1..Len(l) - 2 : Spliced(w)[Len(Spliced(t)) + k] = l[k]
  BY <1>3, <1>5, <1>6 DEF Joined
<1> QED BY <1>3, <1>4, <1>6

-----------------------------------------------------------------------------
(* The inductive invariant.                                                *)

Chars == Char \cup {Interrupt}

\* What is typed arrives line by line, and behind a line without an end there is nothing.
Input ==
  /\ Lines(session)
  /\ \A i \in 1..Len(stdin) : stdin[i] = "\n" => i = Len(stdin)
  /\ stdin # << >> => stdin[Len(stdin)] = "\n" \/ session = << >>
  /\ feof => stdin = << >> /\ session = << >>

\* What was read can be put together to a command.
Proper == ~feof /\ Interrupt \notin Range(taken) /\ Plain(taken)

\* Ctrl-C during a command is noticed before the command is parsed.
Noticed ==
  /\ shell \in {"prompt", "read", "check"} /\ Interrupt \in Range(taken) => g_sigint_received
  /\ shell = "parse" => ~feof /\ Interrupt \notin Range(taken)

\* Between two lines the command goes on, and quote and buffer are up to date.
GoesOn(text) ==
  /\ text = << >> \/ text[Len(text)] = "\n"
  /\ Counts(quote, text, Len(text))
  /\ buffer = Spliced(text)
  /\ \A i \in 1..Len(text) : LineEnd(text, i) => Inside(text, i) \/ EscapedEnd(text, i)

Between == shell \in {"prompt", "read"} /\ Proper => GoesOn(taken)

Complete == shell \in {"check", "parse"} /\ Proper => OneCommand(taken) /\ buffer = Spliced(taken)

IInv == Input /\ Noticed /\ Between /\ Complete

-----------------------------------------------------------------------------
(* The input.                                                              *)

LEMMA FetchedLine ==
  ASSUME TypeOK, Input, stdin # << >>
  PROVE  /\ Fetched \in Seq(Char) /\ Fetched \in Seq(Chars)
         /\ Len(stdin) \in Nat
         /\ Len(Fetched) \in 1..Len(stdin)
         /\ Len(Fetched) <= LINE_SIZE - 1
         /\ Len(Fetched) = Len(stdin) \/ Len(Fetched) = LINE_SIZE - 1
         /\ \A k \in 1..Len(Fetched) : Fetched[k] = stdin[k]
         /\ \A k \in 1..Len(Fetched) : Fetched[k] = "\n" => k = Len(Fetched)
         /\ Fetched[Len(Fetched)] = "\n" \/ Len(Fetched) = LINE_SIZE - 1 \/ session = << >>
<1>1. stdin \in Seq(Char) /\ Len(stdin) \in Nat
  BY LenProperties DEF TypeOK
<1>2. \A i \in 1..Len(stdin) : stdin[i] = "\n" => i = Len(stdin)
  BY DEF Input
<1>3. /\ Fetched \in Seq(Char)
      /\ Len(Fetched) \in 1..Len(stdin)
      /\ Len(Fetched) <= LINE_SIZE - 1
      /\ Len(Fetched) = Len(stdin) \/ Len(Fetched) = LINE_SIZE - 1
      /\ \A k \in 1..Len(Fetched) : Fetched[k] = stdin[k]
  BY <1>1, <1>2, FetchedProperties
<1>4. Fetched \in Seq(Chars)
  BY <1>3, SeqMonotonic DEF Chars
<1>5. stdin[Len(stdin)] = "\n" \/ session = << >>
  BY DEF Input
<1> QED BY <1>1, <1>2, <1>3, <1>4, <1>5

\* What is left of the input after a line is read.
LEMMA LineRead ==
  ASSUME TypeOK, Input, ReadLine
  PROVE  stdin' \in Seq(Char) /\ Input'
<1> DEFINE line == Fetched
           n == Len(line)
           size == Len(stdin)
<1>1. stdin # << >>
  BY DEF ReadLine
<1>2. /\ size \in Nat /\ n \in 1..size
      /\ n = size \/ n = LINE_SIZE - 1
      /\ \A k \in 1..n : line[k] = stdin[k]
      /\ line[n] = "\n" \/ n = LINE_SIZE - 1 \/ session = << >>
  BY <1>1, FetchedLine
<1>3. /\ stdin' = SubSeq(stdin, n + 1, size)
      /\ feof' = (n < LINE_SIZE - 1 /\ line[n] # "\n")
      /\ session' = session
  BY DEF ReadLine
<1>4. \A k \in 1..size : stdin[k] \in Char
  BY ElementOfSeq DEF TypeOK
<1>5. /\ \A i \in 1..size : stdin[i] = "\n" => i = size
      /\ stdin[size] = "\n" \/ session = << >>
      /\ Lines(session)
  BY <1>1 DEF Input
<1> HIDE DEF line, n, size
<1>6. /\ stdin' \in Seq(Char)
      /\ Len(stdin') = size - n
      /\ \A k \in 1..size - n : stdin'[k] = stdin[n + k]
  <2>1. \A k \in n + 1..size : stdin[k] \in Char
    BY <1>2, <1>4
  <2> DEFINE rest == SubSeq(stdin, n + 1, size)
  <2>2. /\ rest \in Seq(Char)
        /\ Len(rest) = IF n + 1 <= size THEN size - (n + 1) + 1 ELSE 0
        /\ \A k \in 1..size - (n + 1) + 1 : rest[k] = stdin[(n + 1) + k - 1]
    BY <1>2, <2>1, SubSeqProperties
  <2>3. stdin' = rest
    BY <1>3
  <2> HIDE DEF rest
  <2>4. size - (n + 1) + 1 = size - n /\ (~(n + 1 <= size) => size - n = 0)
    BY <1>2
  <2>5. \A k \in 1..size - n : (n + 1) + k - 1 = n + k
    BY <1>2
  <2> QED BY <2>2, <2>3, <2>4, <2>5
<1>7. \A i \in 1..Len(stdin') : stdin'[i] = "\n" => i = Len(stdin')
  BY <1>2, <1>5, <1>6
<1>8. stdin' # << >> => stdin'[Len(stdin')] = "\n" \/ session' = << >>
  <2> SUFFICES ASSUME stdin' # << >>, session # << >> PROVE stdin'[Len(stdin')] = "\n"
    BY <1>3
  <2>1. size - n \in 1..size - n /\ n + (size - n) = size
    <3>1. Len(stdin') # 0
      BY <1>6, EmptySeq
    <3> QED BY <1>2, <1>6, <3>1
  <2> QED BY <1>5, <1>6, <2>1
<1>9. ASSUME feof' PROVE stdin' = << >> /\ session' = << >>
  <2>1. n < LINE_SIZE - 1 /\ line[n] # "\n"
    BY <1>3, <1>9
  <2>2. n = size /\ n # LINE_SIZE - 1
    BY <1>2, <2>1, SizeAssumption
  <2>3. Len(stdin') = 0
    BY <1>2, <1>6, <2>2
  <2>4. stdin' = << >>
    BY <1>6, <2>3, EmptySeq
  <2> QED BY <1>2, <1>3, <2>1, <2>2, <2>4
<1> QED BY <1>3, <1>5, <1>6, <1>7, <1>8, <1>9 DEF Input

\* What is left to be typed after the first line.
LEMMA LineTyped ==
  ASSUME TypeOK, Input, Type
  PROVE  stdin' \in Seq(Char) /\ session' \in Seq(Seq(Char)) /\ Input'
<1> DEFINE size == Len(session)
<1>1. /\ session # << >> /\ session \in Seq(Seq(Char))
      /\ \A k \in 1..size :
           /\ session[k] # << >>
           /\ \A i \in DOMAIN session[k] : session[k][i] = "\n" => i = Len(session[k])
           /\ session[k][Len(session[k])] = "\n" \/ k = size
  <2>1. session # << >> /\ session \in Seq(Seq(Char)) /\ Lines(session)
    BY DEF Type, Input, TypeOK
  <2>2. DOMAIN session = 1..size
    BY <2>1, LenProperties
  <2> QED BY <2>1, <2>2 DEF Lines
<1>2. size \in Nat \ {0} /\ session[1] \in Seq(Char)
  BY <1>1, EmptySeq, ElementOfSeq
<1>3. DOMAIN session[1] = 1..Len(session[1])
  BY <1>2, LenProperties
<1>4. /\ stdin' = session[1]
      /\ session' \in Seq(Seq(Char)) /\ Len(session') = size - 1
      /\ \A k \in 1..size - 1 : session'[k] = session[k + 1]
  <2> DEFINE rest == Tail(session)
  <2>1. rest \in Seq(Seq(Char)) /\ Len(rest) = size - 1 /\ \A k \in 1..Len(rest) : rest[k] = session[k + 1]
    BY <1>1, HeadTailProperties
  <2>2. session' = rest /\ stdin' = session[1]
    BY DEF Type
  <2> HIDE DEF rest
  <2> QED BY <2>1, <2>2
<1>5. ~feof'
  BY <1>1 DEF Type, Input, TypeOK
<1> HIDE DEF size
<1>6. Lines(session')
  <2>1. DOMAIN session' = 1..size - 1
    BY <1>4, LenProperties
  <2>2. ASSUME NEW k \in 1..size - 1
        PROVE  /\ session'[k] # << >>
               /\ \A i \in DOMAIN session'[k] : session'[k][i] = "\n" => i = Len(session'[k])
               /\ session'[k][Len(session'[k])] = "\n" \/ k = size - 1
    <3>1. k + 1 \in 1..size /\ (k + 1 = size => k = size - 1) /\ session'[k] = session[k + 1]
      BY <1>2, <1>4
    <3> QED BY <1>1, <3>1
  <2> QED BY <1>4, <2>1, <2>2 DEF Lines
<1>7. 1 \in 1..size
  BY <1>2
<1>8. \A i \in 1..Len(stdin') : stdin'[i] = "\n" => i = Len(stdin')
  BY <1>1, <1>3, <1>4, <1>7
<1>9. stdin'[Len(stdin')] = "\n" \/ session' = << >>
  <2>1. size = 1 => session' = << >>
    <3>1. size = 1 => Len(session') = 0
      BY <1>4
    <3> QED BY <1>4, <3>1, EmptySeq
  <2> QED BY <1>1, <1>4, <1>7, <2>1
<1> QED BY <1>2, <1>4, <1>5, <1>6, <1>8, <1>9 DEF Input

-----------------------------------------------------------------------------
(* A line is added to the command.                                         *)

LEMMA RangeJoined ==
  ASSUME NEW X, NEW t \in Seq(X), NEW l \in Seq(X), NEW w \in Seq(X), Joined(w, t, l)
  PROVE  Range(t) \subseteq Range(w)
BY LenProperties DEF Range, Joined

\* The line ends before the last one are still in a quotation or escaped.
LEMMA EarlierLineEnds ==
  ASSUME NEW X, NEW t \in Seq(X), NEW l \in Seq(X), NEW w \in Seq(X), LineBehind(w, t, l),
         \A i \in 1..Len(t) : LineEnd(t, i) => Inside(t, i) \/ EscapedEnd(t, i),
         NEW i \in 1..Len(w), LineEnd(w, i), i # Len(w)
  PROVE  Inside(w, i) \/ EscapedEnd(w, i)
<1>1. /\ Len(t) \in Nat /\ Len(w) \in Nat
      /\ \A k \in 1..Len(t) : w[k] = t[k]
      /\ \A k \in 1..Len(w) : k > Len(t) /\ w[k] = "\n" => k = Len(w)
  BY LastLine
<1>2. w[i] = "\n"
  BY DEF LineEnd
<1>3. i \in 1..Len(t)
  BY <1>1, <1>2
<1>4. i \in Nat \ {0} /\ \A j \in 1..i : w[j] = t[j]
  BY <1>1, <1>3
<1>5. \A j \in 1..i - 1 : w[j] = t[j]
  BY <1>4
<1>6. Inside(w, i) <=> Inside(t, i)
  BY <1>4, <1>5, InsideSame
<1>7. EscapedEnd(w, i) <=> EscapedEnd(t, i)
  BY <1>4, EscapedSame
<1>8. LineEnd(t, i)
  BY <1>1, <1>2, <1>3 DEF LineEnd
<1> QED BY <1>3, <1>6, <1>7, <1>8

\* What ReadLine keeps is the spliced text if the command before was that.
LEMMA SplicedKept ==
  ASSUME NEW t \in Seq(Chars), NEW l \in Seq(Char), NEW w \in Seq(Chars), LineBehind(w, t, l),
         buffer \in Seq(Char), buffer = Spliced(t), NEW whole, whole = buffer \o l
  PROVE  /\ Kept(whole) = whole
         /\ ~EscapedEnd(w, Len(w)) => whole = Spliced(w)
         /\ EscapedEnd(w, Len(w)) => SubSeq(whole, 1, Len(whole) - 2) = Spliced(w)
<1> DEFINE v == Spliced(w)
           u == Spliced(t)
           n == Len(l)
           m == Len(u)
<1>1. l \in Seq(Chars)
  BY SeqMonotonic DEF Chars
<1>2. /\ v \in Seq(Chars) /\ u \in Seq(Chars)
      /\ m \in Nat /\ Len(v) \in Nat /\ m <= Len(t)
      /\ Len(t) \in Nat /\ n \in Nat \ {0} /\ Len(w) = Len(t) + n
      /\ EscapedEnd(w, Len(w)) => n > 2
  <2>1. v \in Seq(Chars) /\ u \in Seq(Chars) /\ m <= Len(t)
    BY SplicedDef
  <2>2. EscapedEnd(w, Len(w)) => n > 2
    BY <1>1, EscapedLast
  <2> HIDE DEF u, v
  <2>3. m \in Nat /\ Len(v) \in Nat
    BY <2>1, LenProperties
  <2> QED BY <1>1, <2>1, <2>2, <2>3, LastLine
<1>3. /\ ~EscapedEnd(w, Len(w)) => Joined(v, u, l)
      /\ EscapedEnd(w, Len(w)) =>
           /\ Len(v) = m + (n - 2)
           /\ \A k \in 1..m : v[k] = u[k]
           /\ \A k \in 1..n - 2 : v[m + k] = l[k]
  <2> HIDE DEF u, v, m, n
  <2> DEFINE Goal(e, a, b, c) == /\ ~e => Joined(a, b, c)
                                 /\ e => /\ Len(a) = Len(b) + (Len(c) - 2)
                                         /\ \A k \in 1..Len(b) : a[k] = b[k]
                                         /\ \A k \in 1..Len(c) - 2 : a[Len(b) + k] = c[k]
  <2>1. \A X : \A x, y, z \in Seq(X) : LineBehind(z, x, y)
                                       => Goal(EscapedEnd(z, Len(z)), Spliced(z), Spliced(x), y)
    BY SplicedNext, Zenon
  <2> HIDE DEF Goal
  <2>2. Goal(EscapedEnd(w, Len(w)), Spliced(w), Spliced(t), l)
    BY <1>1, <2>1, Zenon
  <2> QED BY <2>2, Zenon DEF Goal, u, v, m, n
<1>4. whole \in Seq(Chars) /\ Joined(whole, u, l)
  <2>1. buffer \in Seq(Chars)
    BY SeqMonotonic DEF Chars
  <2>2. whole \in Seq(Chars) /\ Joined(whole, buffer, l)
    BY <1>1, <2>1, ConcatJoins
  <2> QED BY <2>2
<1>5. /\ Len(whole) = m + n
      /\ \A k \in 1..m : whole[k] = u[k]
      /\ \A k \in 1..n : whole[m + k] = l[k]
  BY <1>4 DEF Joined
<1> HIDE DEF u, v, m, n
<1>6. Kept(whole) = whole
  <2>1. Len(w) < MAX_BUFFER_SIZE /\ MAX_BUFFER_SIZE \in Nat
    BY SizeAssumption DEF LineBehind, Plain
  <2>2. ~(Len(whole) >= MAX_BUFFER_SIZE)
    BY <1>2, <1>5, <2>1
  <2> QED BY <2>2 DEF Kept
<1>7. ASSUME ~EscapedEnd(w, Len(w))
      PROVE  whole = v
  BY <1>1, <1>2, <1>3, <1>4, <1>7, JoinedUnique
<1>8. ASSUME EscapedEnd(w, Len(w))
      PROVE  SubSeq(whole, 1, Len(whole) - 2) = v
  <2> DEFINE rest == SubSeq(whole, 1, Len(whole) - 2)
             size == Len(whole) - 2
  <2>1. size = m + (n - 2) /\ size \in Nat \ {0} /\ n - 2 \in Nat
    BY <1>2, <1>5, <1>8
  <2>2. \A k \in 1..size : whole[k] \in Chars
    <3>1. \A k \in 1..size : k \in 1..Len(whole)
      BY <1>2, <1>5, <2>1
    <3> QED BY <1>4, <3>1, ElementOfSeq
  <2>3. /\ rest \in Seq(Chars)
        /\ Len(rest) = IF 1 <= size THEN size - 1 + 1 ELSE 0
        /\ \A k \in 1..size - 1 + 1 : rest[k] = whole[1 + k - 1]
    BY <2>1, <2>2, SubSeqProperties
  <2> HIDE DEF rest, size
  <2>4. Len(rest) = size /\ \A k \in 1..size : rest[k] = whole[k]
    <3>1. 1 <= size /\ size - 1 + 1 = size /\ \A k \in 1..size : 1 + k - 1 = k
      BY <2>1
    <3> QED BY <2>3, <3>1
  <2>5. Len(v) = size
    BY <1>3, <1>8, <2>1
  <2>6. ASSUME NEW k \in 1..size
        PROVE  rest[k] = v[k]
    <3>1. CASE k \in 1..m
      BY <1>3, <1>5, <1>8, <2>4, <3>1
    <3>2. CASE k \notin 1..m
      <4>1. k - m \in 1..n - 2 /\ k - m \in 1..n /\ m + (k - m) = k
        BY <1>2, <2>1, <3>2
      <4> QED BY <1>3, <1>5, <1>8, <2>4, <4>1
    <3> QED BY <3>1, <3>2
  <2>7. rest = v
    BY <1>2, <2>3, <2>4, <2>5, <2>6, SeqEqual
  <2> QED BY <2>7 DEF rest
<1> QED BY <1>6, <1>7, <1>8 DEF v

LEMMA LineAdded ==
  ASSUME TypeOK, Input, Between, ReadLine, Proper'
  PROVE  /\ shell' = "prompt" => GoesOn(taken)'
         /\ shell' = "check" => OneCommand(taken)' /\ buffer' = Spliced(taken)'
         /\ shell' \in {"prompt", "check"}
<1> DEFINE line == Fetched
           whole == buffer \o line
           q == CountQuotes(line)
           t == taken
           w == taken'
           N == Len(w)
<1>1. /\ shell = "read" /\ stdin # << >>
      /\ w = t \o line
      /\ feof' = (Len(line) < LINE_SIZE - 1 /\ line[Len(line)] # "\n")
      /\ quote' = q
      /\ buffer' = IF Kept(whole) = whole /\ Escaped(line) /\ q.count = 0
                     THEN SubSeq(whole, 1, Len(whole) - 2) ELSE Kept(whole)
      /\ shell' = IF Kept(whole) = whole /\ (Escaped(line) \/ q.count # 0)
                    THEN "prompt" ELSE "check"
  BY DEF ReadLine
<1>2. /\ line \in Seq(Char) /\ line \in Seq(Chars)
      /\ Len(stdin) \in Nat /\ Len(line) \in 1..Len(stdin) /\ Len(line) <= LINE_SIZE - 1
      /\ \A k \in 1..Len(line) : line[k] = "\n" => k = Len(line)
  BY <1>1, FetchedLine
<1>3. t \in Seq(Chars) /\ buffer \in Seq(Char) /\ quote \in Quotes
  BY DEF TypeOK, Chars, Quotes
<1>4. ~feof' /\ Interrupt \notin Range(w) /\ Plain(w)
  BY DEF Proper
<1>5. whole = buffer \o line
  OBVIOUS
<1> HIDE DEF line, whole, q
<1>6. w \in Seq(Chars) /\ Joined(w, t, line)
  BY <1>1, <1>2, <1>3, ConcatJoins
<1> HIDE DEF t, w
<1>7. GoesOn(t)
  <2>1. Interrupt \notin Range(t) /\ Plain(t)
    BY <1>2, <1>3, <1>4, <1>6, RangeJoined, PlainPrefix
  <2>2. ~feof
    BY <1>1 DEF Input, TypeOK
  <2> QED BY <1>1, <2>1, <2>2 DEF Between, Proper, t
<1>8. line[Len(line)] = "\n"
  <2>1. CASE Len(line) = LINE_SIZE - 1
    BY <1>2, <1>3, <1>4, <1>6, <2>1, LineComplete
  <2>2. CASE Len(line) # LINE_SIZE - 1
    <3>1. Len(line) < LINE_SIZE - 1
      BY <1>2, <2>2, SizeAssumption
    <3> QED BY <1>1, <1>4, <3>1
  <2> QED BY <2>1, <2>2
<1>9. LineBehind(w, t, line)
  BY <1>2, <1>4, <1>6, <1>7, <1>8 DEF LineBehind, GoesOn
<1>10. N \in Nat \ {0} /\ w[N] = "\n"
  BY <1>2, <1>3, <1>6, <1>9, LastLine
<1>11. Counts(q, w, N)
  <2>1. OneKind(w)
    BY <1>4, <1>6, PlainQuotes
  <2>2. /\ t = << >> \/ t[Len(t)] = "\n"
        /\ Counts(quote, t, Len(t))
    BY <1>7 DEF GoesOn
  <2> QED BY <1>2, <1>3, <1>6, <1>10, <2>1, <2>2, LineCounted DEF q
<1>12. /\ EscapedEnd(w, N) <=> Escaped(line) /\ ~Inside(w, N + 1)
       /\ Inside(w, N + 1) <=> Inside(w, N)
  BY <1>2, <1>3, <1>6, <1>9, <1>10, EscapedLast, InsideLast
<1>13. EscapedEnd(w, N) <=> Escaped(line) /\ q.count = 0
  BY <1>11, <1>12 DEF Counts
<1>14. /\ Kept(whole) = whole
       /\ ~EscapedEnd(w, N) => whole = Spliced(w)
       /\ EscapedEnd(w, N) => SubSeq(whole, 1, Len(whole) - 2) = Spliced(w)
  <2>1. buffer = Spliced(t)
    BY <1>7 DEF GoesOn
  <2> QED BY <1>2, <1>3, <1>5, <1>6, <1>9, <2>1, SplicedKept
<1>15. buffer' = Spliced(w)
  BY <1>1, <1>13, <1>14
<1>16. \A i \in 1..N : LineEnd(w, i) /\ i # N => Inside(w, i) \/ EscapedEnd(w, i)
  <2>1. \A i \in 1..Len(t) : LineEnd(t, i) => Inside(t, i) \/ EscapedEnd(t, i)
    BY <1>7 DEF GoesOn
  <2> QED BY <1>2, <1>3, <1>6, <1>9, <2>1, EarlierLineEnds
<1>17. LineEnd(w, N) /\ N \in 1..N /\ DOMAIN w = 1..N
  BY <1>6, <1>10, LenProperties DEF LineEnd
<1>18. ASSUME shell' = "prompt"
       PROVE  GoesOn(taken)'
  <2>1. Inside(w, N) \/ EscapedEnd(w, N)
    BY <1>1, <1>11, <1>12, <1>13, <1>14, <1>18 DEF Counts
  <2>2. \A i \in 1..N : LineEnd(w, i) => Inside(w, i) \/ EscapedEnd(w, i)
    BY <1>16, <2>1
  <2> QED BY <1>1, <1>10, <1>11, <1>15, <2>2 DEF GoesOn, w
<1>19. ASSUME shell' = "check"
       PROVE  OneCommand(w)
  <2>1. ~Inside(w, N) /\ ~EscapedEnd(w, N)
    BY <1>1, <1>11, <1>12, <1>13, <1>14, <1>19 DEF Counts
  <2> QED BY <1>16, <1>17, <2>1 DEF OneCommand
<1> QED BY <1>1, <1>15, <1>18, <1>19 DEF w

-----------------------------------------------------------------------------
(* Every step keeps the inductive invariant.                               *)

\* Nothing has been typed for the command.
LEMMA NothingTyped ==
  /\ Counts(NoQuote, << >>, Len(<< >>))
  /\ Spliced(<< >>) = << >>
  /\ Interrupt \notin Range(<< >>)
<1>1. Counts(NoQuote, << >>, Len(<< >>))
  <2>1. Len(<< >>) + 1 = 1 /\ ~Inside(<< >>, 1)
    BY InsideFirst
  <2> QED BY <2>1 DEF Counts, NoQuote
<1>2. Spliced(<< >>) = << >>
  <2> DEFINE v == Spliced(<< >>)
  <2>1. << >> \in Seq(Char) /\ Len(<< >>) = 0
    OBVIOUS
  <2>2. v \in Seq(Char) /\ Len(v) <= 0
    BY <2>1, SplicedDef
  <2> HIDE DEF v
  <2>3. Len(v) = 0
    BY <2>2, LenProperties
  <2>4. v = << >>
    BY <2>2, <2>3, EmptySeq
  <2> QED BY <2>4 DEF v
<1>3. Interrupt \notin Range(<< >>)
  BY DEF Range
<1> QED BY <1>1, <1>2, <1>3

LEMMA InvInit == Init => IInv
<1> SUFFICES ASSUME Init PROVE IInv
  OBVIOUS
<1>1. Lines(session) /\ stdin = << >> /\ feof = FALSE /\ shell = "reset"
  BY SessionAssumption DEF Init
<1>2. Len(<< >>) = 0
  OBVIOUS
<1>3. Input
  BY <1>1, <1>2 DEF Input
<1> QED BY <1>1, <1>3 DEF IInv, Noticed, Between, Complete

LEMMA InvNext ==
  ASSUME TypeOK, IInv, [Next]_vars
  PROVE  IInv'
<1> USE DEF IInv
<1>1. CASE Reset
  <2>1. /\ shell' = "prompt" /\ UNCHANGED <<session, stdin, feof>>
        /\ taken' = << >> /\ buffer' = << >> /\ quote' = NoQuote
    BY <1>1 DEF Reset, input
  <2>2. Input'
    BY <2>1 DEF Input
  <2>3. GoesOn(taken)'
    <3>1. \A i \in 1..Len(<< >>) : FALSE
      OBVIOUS
    <3> QED BY <2>1, <3>1, NothingTyped DEF GoesOn
  <2> QED BY <2>1, <2>2, <2>3, NothingTyped DEF Noticed, Between, Complete
<1>2. CASE Prompt
  <2>1. /\ shell = "prompt" /\ shell' = "read"
        /\ UNCHANGED <<session, stdin, feof, taken, buffer, quote, g_sigint_received>>
    BY <1>2 DEF Prompt, input
  <2> QED BY <2>1 DEF Input, Noticed, Between, Complete, Proper, GoesOn
<1>3. CASE ReadLine
  <2>1. Input' /\ shell' \in {"prompt", "check"} /\ g_sigint_received' = g_sigint_received
    <3>1. shell' \in {"prompt", "check"} /\ g_sigint_received' = g_sigint_received
      BY <1>3 DEF ReadLine
    <3> QED BY <1>3, <3>1, LineRead
  <2>2. Between' /\ Complete'
    <3>1. CASE Proper'
      <4>1. /\ shell' = "prompt" => GoesOn(taken)'
            /\ shell' = "check" => OneCommand(taken)' /\ buffer' = Spliced(taken)'
        BY <1>3, <3>1, LineAdded
      <4> QED BY <2>1, <4>1 DEF Between, Complete
    <3>2. CASE ~Proper'
      BY <3>2 DEF Between, Complete
    <3> QED BY <3>1, <3>2
  <2>3. Noticed'
    <3> DEFINE line == Fetched
    <3>1. shell = "read" /\ stdin # << >> /\ taken' = taken \o line
      BY <1>3 DEF ReadLine
    <3>2. line \in Seq(Char)
      BY <3>1, FetchedLine
    <3>3. taken \in Seq(Chars)
      BY DEF TypeOK, Chars
    <3>4. Interrupt \in Range(taken') => Interrupt \in Range(taken)
      <4> DEFINE w == taken'
      <4>1. line \in Seq(Chars)
        BY <3>2, SeqMonotonic DEF Chars
      <4> HIDE DEF line
      <4>2. w \in Seq(Chars) /\ Joined(w, taken, line)
        BY <3>1, <3>3, <4>1, ConcatJoins
      <4> HIDE DEF w
      <4>3. ASSUME NEW k \in 1..Len(w), w[k] = Interrupt
            PROVE  k \in 1..Len(taken) /\ taken[k] = Interrupt
        <5>1. Len(w) = Len(taken) + Len(line) /\ Len(taken) \in Nat /\ Len(line) \in Nat
          BY <3>3, <4>1, LenProperties, <4>2 DEF Joined
        <5>2. CASE k \in 1..Len(taken)
          BY <4>2, <4>3, <5>2 DEF Joined
        <5>3. CASE k \notin 1..Len(taken)
          <6>1. k - Len(taken) \in 1..Len(line) /\ Len(taken) + (k - Len(taken)) = k
            BY <5>1, <5>3
          <6>2. line[k - Len(taken)] = Interrupt
            BY <4>2, <4>3, <6>1 DEF Joined
          <6>3. line[k - Len(taken)] \in Char
            BY <3>2, <6>1, ElementOfSeq
          <6> QED BY <6>2, <6>3, CharAssumption
        <5> QED BY <5>2, <5>3
      <4>4. DOMAIN w = 1..Len(w) /\ DOMAIN taken = 1..Len(taken)
        BY <3>3, <4>2, LenProperties
      <4>5. Interrupt \in Range(w) => Interrupt \in Range(taken)
        BY <4>3, <4>4 DEF Range
      <4> QED BY <4>5 DEF w
    <3> QED BY <2>1, <3>1, <3>4 DEF Noticed
  <2> QED BY <2>1, <2>2, <2>3
<1>4. CASE ReadEnd
  <2>1. /\ stdin = << >> /\ session = << >> /\ feof' = TRUE /\ shell = "read" /\ shell' = "check"
        /\ UNCHANGED <<session, stdin, taken, g_sigint_received>>
    BY <1>4 DEF ReadEnd
  <2> QED BY <2>1 DEF Input, Noticed, Between, Complete, Proper
<1>5. CASE Check
  <2>1. /\ shell = "check"
        /\ shell' = IF g_sigint_received THEN "reset" ELSE IF feof THEN "ended" ELSE "parse"
        /\ UNCHANGED <<session, stdin, feof, taken, buffer, quote, g_sigint_received>>
    BY <1>5 DEF Check, input
  <2> QED BY <2>1 DEF Input, Noticed, Between, Complete, Proper
<1>6. CASE Parse
  <2>1. /\ shell' \in {"execute", "reset"}
        /\ UNCHANGED <<session, stdin, feof, taken, buffer, quote, g_sigint_received>>
    BY <1>6 DEF Parse, input
  <2> QED BY <2>1 DEF Input, Noticed, Between, Complete
<1>7. CASE Execute
  <2>1. /\ shell' = "reset"
        /\ UNCHANGED <<session, stdin, feof, taken, buffer, quote, g_sigint_received>>
    BY <1>7 DEF Execute, input
  <2> QED BY <2>1 DEF Input, Noticed, Between, Complete
<1>8. CASE Type
  <2>1. /\ feof' = feof
        /\ UNCHANGED <<shell, taken, buffer, quote, g_sigint_received>>
    BY <1>8 DEF Type
  <2>2. Input'
    BY <1>8, LineTyped
  <2> QED BY <2>1, <2>2 DEF Noticed, Between, Complete, Proper, GoesOn
<1>9. CASE CtrlC
  <2>1. /\ g_sigint_received' = TRUE /\ stdin' = << >>
        /\ shell' = IF shell = "read" THEN "check" ELSE shell
        /\ taken' = IF shell \in {"prompt", "read"} THEN Append(taken, Interrupt) ELSE taken
        /\ UNCHANGED <<session, feof, buffer, quote>>
    BY <1>9 DEF CtrlC
  <2>2. Interrupt \in Range(Append(taken, Interrupt))
    <3> DEFINE w == Append(taken, Interrupt)
    <3>1. taken \in Seq(Chars) /\ Interrupt \in Chars
      BY DEF TypeOK, Chars
    <3>2. w \in Seq(Chars) /\ Len(w) = Len(taken) + 1 /\ w[Len(taken) + 1] = Interrupt
      BY <3>1, AppendProperties
    <3>3. Len(taken) + 1 \in 1..Len(w) /\ DOMAIN w = 1..Len(w)
      <4> HIDE DEF w
      <4> QED BY <3>1, <3>2, LenProperties
    <3> HIDE DEF w
    <3>4. Interrupt \in Range(w)
      BY <3>2, <3>3 DEF Range
    <3> QED BY <3>4 DEF w
  <2>3. Input'
    <3>1. Len(<< >>) = 0
      OBVIOUS
    <3> QED BY <2>1, <3>1 DEF Input
  <2>4. CASE shell \in {"prompt", "read"}
    <3>1. Interrupt \in Range(taken') /\ shell' # "parse"
      BY <2>1, <2>2, <2>4
    <3> QED BY <2>1, <2>3, <3>1 DEF Noticed, Between, Complete, Proper
  <2>5. CASE shell \notin {"prompt", "read"}
    <3>1. shell' = shell /\ taken' = taken
      BY <2>1, <2>5
    <3> QED BY <2>1, <2>3, <2>5, <3>1 DEF Noticed, Between, Complete, Proper
  <2> QED BY <2>4, <2>5
<1>10. CASE UNCHANGED vars
  <2>1. UNCHANGED <<shell, session, stdin, feof, taken, buffer, quote, g_sigint_received>>
    BY <1>10 DEF vars, input
  <2> QED BY <2>1 DEF Input, Noticed, Between, Complete, Proper, GoesOn
<1> QED BY <1>1, <1>2, <1>3, <1>4, <1>5, <1>6, <1>7, <1>8, <1>9, <1>10 DEF Next, Shell

LEMMA InvTyped ==
  ASSUME TypeOK, IInv
  PROVE  CommandIsWhatWasTyped
BY DEF IInv, Noticed, Complete, Proper, CommandIsWhatWasTyped

-----------------------------------------------------------------------------
(* One token.                                                              *)

TokenError == {"PARSER_SUCCESS", "PARSER_UNPAIRED_QUOTES", "PARSER_TOKEN_DONE"}

\* The token has the characters of the line from start to the one before next.
Copied(line, token, start, next) ==
  /\ Len(token) = next - start
  /\ \A k \in 1..next - start : token[k] = line[start + k - 1]

\* t is what get_token may give from position i: blanks are left out, and what follows
\* them is a well-formed token, or a quote that is not closed, or nothing.
TokenFrom(line, i, t) ==
  /\ t.err \in TokenError
  /\ t.token \in Seq(Char)
  /\ t.next \in i..Len(line) + 1
  /\ t.err = "PARSER_SUCCESS" =>
       /\ WellFormed(t.token)
       /\ \E start \in i..t.next - 1 : /\ \A j \in i..start - 1 : line[j] \in Blank
                                       /\ Copied(line, t.token, start, t.next)
  /\ t.err # "PARSER_SUCCESS" => \A j \in i..t.next - 1 : line[j] \in Blank
  /\ t.err = "PARSER_TOKEN_DONE" => t.next = Len(line) + 1

LEMMA PartCopied ==
  ASSUME NEW line \in Seq(Char), NEW start \in 1..Len(line), NEW last \in start..Len(line),
         NEW token, token = SubSeq(line, start, last)
  PROVE  /\ token \in Seq(Char)
         /\ Copied(line, token, start, last + 1)
<1>1. Len(line) \in Nat /\ \A k \in start..last : line[k] \in Char
  BY LenProperties, ElementOfSeq
<1>2. /\ token \in Seq(Char)
      /\ Len(token) = IF start <= last THEN last - start + 1 ELSE 0
      /\ \A k \in 1..last - start + 1 : token[k] = line[start + k - 1]
  BY <1>1, SubSeqProperties
<1>3. start <= last /\ (last + 1) - start = last - start + 1
  BY <1>1
<1> QED BY <1>2, <1>3 DEF Copied

\* A quoted string.
LEMMA QuotedWellFormed ==
  ASSUME NEW line \in Seq(Char), NEW start \in 1..Len(line), NEW closing \in start + 1..Len(line),
         NEW token \in Seq(Char), Copied(line, token, start, closing + 1),
         line[start] \in Quote, line[closing] \in Quote,
         \A j \in start + 1..closing - 1 : line[j] \in Quote => line[j - 1] = "\\"
  PROVE  WellFormed(token)
<1>1. /\ Len(line) \in Nat /\ Len(token) = (closing + 1) - start
      /\ \A k \in 1..(closing + 1) - start : token[k] = line[start + k - 1]
  BY LenProperties DEF Copied
<1>2. Len(token) > 1 /\ 1 \in 1..(closing + 1) - start /\ Len(token) \in 1..(closing + 1) - start
  BY <1>1
<1>3. token[1] = line[start] /\ token[Len(token)] = line[closing]
  <2>1. start + 1 - 1 = start /\ start + Len(token) - 1 = closing
    BY <1>1
  <2> QED BY <1>1, <1>2, <2>1
<1>4. ASSUME NEW j \in 2..Len(token) - 1, token[j] \in Quote
      PROVE  token[j - 1] = "\\"
  <2>1. /\ j \in 1..(closing + 1) - start /\ j - 1 \in 1..(closing + 1) - start
        /\ start + j - 1 \in start + 1..closing - 1
        /\ start + (j - 1) - 1 = (start + j - 1) - 1
    BY <1>1
  <2>2. token[j] = line[start + j - 1] /\ token[j - 1] = line[(start + j - 1) - 1]
    BY <1>1, <2>1
  <2> QED BY <1>4, <2>1, <2>2
<1> QED BY <1>2, <1>3, <1>4 DEF WellFormed

\* A word.
LEMMA WordWellFormed ==
  ASSUME NEW line \in Seq(Char), NEW start \in 1..Len(line), NEW next \in start + 1..Len(line) + 1,
         NEW token \in Seq(Char), Copied(line, token, start, next),
         \A j \in start..next - 1 : line[j] \notin Quote \cup Blank \cup Operator
  PROVE  WellFormed(token)
<1>1. /\ Len(line) \in Nat /\ Len(token) = next - start
      /\ \A k \in 1..next - start : token[k] = line[start + k - 1]
  BY LenProperties DEF Copied
<1>2. token # << >>
  <2>1. Len(token) # 0
    BY <1>1
  <2> QED BY <2>1, EmptySeq
<1>3. \A k \in 1..Len(token) : start + k - 1 \in start..next - 1
  BY <1>1
<1>4. \A k \in 1..Len(token) : token[k] \notin Quote \cup Blank \cup Operator
  BY <1>1, <1>3
<1>5. DOMAIN token = 1..Len(token)
  BY LenProperties
<1>6. Range(token) \cap (Quote \cup Blank \cup Operator) = {}
  BY <1>4, <1>5 DEF Range
<1> QED BY <1>2, <1>6 DEF WellFormed

LEMMA GetToken ==
  ASSUME NEW line \in Seq(Char), NEW i \in 1..Len(line) + 1
  PROVE  TokenFrom(line, i, get_token(line, i))
<1> DEFINE n == Len(line)
           ink == DOMAIN line \ Positions(line, Blank)
           escaped == {j + 1 : j \in Positions(line, {"\\"})}
           quotes == Positions(line, Quote) \ escaped
           ends == Positions(line, Quote \cup Blank \cup Operator)
           start == First(line, i, ink)
           closing == First(line, start + 1, quotes)
           end == First(line, start, ends)
           t == get_token(line, i)
           Error(e) == [err |-> e, token |-> << >>, next |-> start]
           quoted == SubSeq(line, start, closing)
           operator == SubSeq(line, start, start)
           word == SubSeq(line, start, end - 1)
           Taken(token, last) == [err |-> "PARSER_SUCCESS", token |-> token, next |-> last + 1]
<1>1. t = CASE start > n -> Error("PARSER_TOKEN_DONE")
            [] start <= n /\ line[start] \in Quote ->
                 IF closing > n THEN Error("PARSER_UNPAIRED_QUOTES") ELSE Taken(quoted, closing)
            [] start <= n /\ line[start] \in Operator -> Taken(operator, start)
            [] OTHER -> Taken(word, end - 1)
  BY DEF get_token, Token
<1>2. n \in Nat /\ DOMAIN line = 1..n
  BY LenProperties
<1>3. /\ \A j \in 1..n : j \in ink <=> line[j] \notin Blank
      /\ \A j \in 1..n : j \in ends <=> line[j] \in Quote \cup Blank \cup Operator
      /\ \A j \in 1..n : j \in quotes => line[j] \in Quote
      /\ \A j \in 1..n : line[j] \in Quote /\ j \notin quotes => j \in escaped
      /\ ink \cup quotes \cup ends \subseteq 1..n
  BY <1>2 DEF Positions
<1>4. \A j \in 1..n : j \in escaped => line[j - 1] = "\\"
  <2> SUFFICES ASSUME NEW k \in Positions(line, {"\\"}) PROVE line[(k + 1) - 1] = "\\"
    OBVIOUS
  <2>1. k \in 1..n /\ line[k] = "\\"
    BY <1>2 DEF Positions
  <2>2. (k + 1) - 1 = k
    BY <1>2, <2>1
  <2> QED BY <2>1, <2>2
<1> HIDE DEF ink, escaped, quotes, ends, t
<1>5. /\ start \in i..n + 1 /\ start \in ink \cup {n + 1}
      /\ (i..start - 1) \cap ink = {}
  BY FirstProperties
<1>6. i \in Nat \ {0} /\ start \in Nat \ {0} /\ i <= start /\ start <= n + 1
  BY <1>2, <1>5
<1>7. \A j \in i..start - 1 : line[j] \in Blank
  <2>1. \A j \in i..start - 1 : j \in 1..n
    BY <1>2, <1>6
  <2> QED BY <1>3, <1>5, <2>1
<1>8. ASSUME start <= n
      PROVE  /\ closing \in start + 1..n + 1 /\ closing \in quotes \cup {n + 1}
             /\ (start + 1..closing - 1) \cap quotes = {}
             /\ end \in start..n + 1 /\ end \in ends \cup {n + 1}
             /\ (start..end - 1) \cap ends = {}
  <2> HIDE DEF start
  <2>1. start + 1 \in 1..n + 1 /\ start \in 1..n + 1
    BY <1>2, <1>6, <1>8
  <2> QED BY <2>1, FirstProperties
<1> HIDE DEF n, start, closing, end, quoted, operator, word, Error, Taken
<1>9. CASE start > n
  <2>1. t = Error("PARSER_TOKEN_DONE")
    <3>1. ~(start <= n)
      BY <1>2, <1>6, <1>9
    <3> QED BY <1>1, <1>9, <3>1
  <2>2. start = n + 1 /\ << >> \in Seq(Char)
    BY <1>2, <1>6, <1>9
  <2>3. /\ t.err = "PARSER_TOKEN_DONE" /\ t.token = << >> /\ t.next = start
    BY <2>1 DEF Error
  <2> QED BY <1>5, <1>7, <2>2, <2>3 DEF TokenFrom, TokenError, n, t
<1>10. CASE start <= n /\ line[start] \in Quote /\ closing > n
  <2>1. t = Error("PARSER_UNPAIRED_QUOTES")
    <3>1. ~(start > n)
      BY <1>2, <1>6, <1>10
    <3>2. line[start] \notin Operator
      BY <1>10 DEF Quote, Operator, DoubleQuote
    <3> QED BY <1>1, <1>10, <3>1, <3>2
  <2>2. << >> \in Seq(Char)
    OBVIOUS
  <2>3. /\ t.err = "PARSER_UNPAIRED_QUOTES" /\ t.token = << >> /\ t.next = start
    BY <2>1 DEF Error
  <2> QED BY <1>5, <1>7, <2>2, <2>3 DEF TokenFrom, TokenError, n, t
<1>11. CASE start <= n /\ line[start] \in Quote /\ ~(closing > n)
  <2>1. t = Taken(quoted, closing)
    <3>1. ~(start > n)
      BY <1>2, <1>6, <1>11
    <3>2. line[start] \notin Operator
      BY <1>11 DEF Quote, Operator, DoubleQuote
    <3> QED BY <1>1, <1>11, <3>1, <3>2
  <2>2. start \in 1..n /\ closing \in start + 1..n /\ closing \in start..n /\ closing \in quotes
    BY <1>2, <1>6, <1>8, <1>11
  <2>3. quoted \in Seq(Char) /\ Copied(line, quoted, start, closing + 1)
    BY <2>2, PartCopied DEF quoted, n
  <2>4. line[closing] \in Quote
    BY <1>2, <1>3, <1>6, <2>2
  <2>5. \A j \in start + 1..closing - 1 : line[j] \in Quote => line[j - 1] = "\\"
    <3>1. \A j \in start + 1..closing - 1 : j \in 1..n
      BY <1>2, <1>6, <2>2
    <3>2. \A j \in start + 1..closing - 1 : j \notin quotes
      BY <1>8, <1>11
    <3> QED BY <1>3, <1>4, <3>1, <3>2
  <2>6. WellFormed(quoted)
    BY <1>11, <2>2, <2>3, <2>4, <2>5, QuotedWellFormed DEF n
  <2>7. start \in i..(closing + 1) - 1 /\ closing + 1 \in i..n + 1
    BY <1>2, <1>6, <2>2
  <2>8. t.err = "PARSER_SUCCESS" /\ t.token = quoted /\ t.next = closing + 1
    BY <2>1 DEF Taken
  <2> QED BY <1>7, <2>3, <2>6, <2>7, <2>8 DEF TokenFrom, TokenError, n, t
<1>12. CASE start <= n /\ line[start] \notin Quote /\ line[start] \in Operator
  <2>1. t = Taken(operator, start)
    <3>1. ~(start > n)
      BY <1>2, <1>6, <1>12
    <3> QED BY <1>1, <1>12, <3>1
  <2>2. start \in 1..n /\ start \in start..n
    BY <1>2, <1>6, <1>12
  <2>3. operator \in Seq(Char) /\ Copied(line, operator, start, start + 1)
    BY <2>2, PartCopied DEF operator, n
  <2>4. Len(operator) = 1 /\ operator[1] = line[start]
    <3>1. (start + 1) - start = 1 /\ start + 1 - 1 = start /\ 1 \in 1..1
      BY <1>6
    <3> QED BY <2>3, <3>1 DEF Copied
  <2>5. WellFormed(operator)
    BY <1>12, <2>4 DEF WellFormed, IsOperator
  <2>6. start \in i..(start + 1) - 1 /\ start + 1 \in i..n + 1
    BY <1>2, <1>6, <1>12
  <2>7. t.err = "PARSER_SUCCESS" /\ t.token = operator /\ t.next = start + 1
    BY <2>1 DEF Taken
  <2> QED BY <1>7, <2>3, <2>5, <2>6, <2>7 DEF TokenFrom, TokenError, n, t
<1>13. CASE start <= n /\ line[start] \notin Quote /\ line[start] \notin Operator
  <2>1. t = Taken(word, end - 1)
    <3>1. ~(start > n)
      BY <1>2, <1>6, <1>13
    <3> QED BY <1>1, <1>13, <3>1
  <2>2. start \in 1..n /\ start \notin ends
    <3>1. start \in 1..n /\ start \in ink
      BY <1>2, <1>5, <1>6, <1>13
    <3> QED BY <1>3, <1>13, <3>1
  <2>3. end \in start + 1..n + 1 /\ end - 1 \in start..n /\ (end - 1) + 1 = end
    <3>1. end # start
      BY <1>2, <1>8, <1>13, <2>2
    <3> QED BY <1>2, <1>6, <1>8, <1>13, <3>1
  <2>4. word \in Seq(Char) /\ Copied(line, word, start, end)
    BY <2>2, <2>3, PartCopied DEF word, n
  <2>5. \A j \in start..end - 1 : line[j] \notin Quote \cup Blank \cup Operator
    <3>1. \A j \in start..end - 1 : j \in 1..n /\ j \notin ends
      BY <1>2, <1>6, <1>8, <1>13
    <3> QED BY <1>3, <3>1
  <2>6. WellFormed(word)
    BY <2>2, <2>3, <2>4, <2>5, WordWellFormed DEF n
  <2>7. start \in i..end - 1 /\ end \in i..n + 1
    BY <1>2, <1>6, <2>3
  <2>8. t.err = "PARSER_SUCCESS" /\ t.token = word /\ t.next = end
    BY <2>1, <2>3 DEF Taken
  <2> QED BY <1>7, <2>4, <2>6, <2>7, <2>8 DEF TokenFrom, TokenError, n, t
<1>14. start > n \/ start <= n
  BY <1>2, <1>6
<1> QED BY <1>9, <1>10, <1>11, <1>12, <1>13, <1>14 DEF t

-----------------------------------------------------------------------------
(* The tokens of a line.                                                   *)

\* What is not blank.
Ink(text) == Chosen(text, DOMAIN text \ Positions(text, Blank))

LEMMA InkJoined ==
  ASSUME NEW s \in Seq(Char), NEW r \in Seq(Char), NEW w \in Seq(Char), Joined(w, s, r)
  PROVE  Joined(Ink(w), Ink(s), Ink(r))
<1> DEFINE S == DOMAIN w \ Positions(w, Blank)
           Q == DOMAIN s \ Positions(s, Blank)
           R == DOMAIN r \ Positions(r, Blank)
<1>1. DOMAIN w = 1..Len(w) /\ DOMAIN s = 1..Len(s) /\ DOMAIN r = 1..Len(r)
  BY LenProperties
<1>2. \A k \in 1..Len(s) : k \in S <=> k \in Q
  BY <1>1 DEF Positions, Joined
<1>3. \A k \in 1..Len(r) : Len(s) + k \in S <=> k \in R
  BY <1>1 DEF Positions, Joined
<1> HIDE DEF S, Q, R
<1>4. Joined(Chosen(w, S), Chosen(s, Q), Chosen(r, R))
  BY <1>2, <1>3, ChosenJoined
<1> QED BY <1>4 DEF Ink, S, Q, R

LEMMA InkBlank ==
  ASSUME NEW s \in Seq(Char), \A k \in 1..Len(s) : s[k] \in Blank
  PROVE  Ink(s) = << >>
<1> DEFINE S == DOMAIN s \ Positions(s, Blank)
<1>1. \A k \in 1..Len(s) : k \notin S
  BY LenProperties DEF Positions
<1> HIDE DEF S
<1>2. Chosen(s, S) = << >>
  BY <1>1, ChosenNone
<1> QED BY <1>2 DEF Ink, S

LEMMA InkTyped == ASSUME NEW s \in Seq(Char) PROVE Ink(s) \in Seq(Char)
BY ChosenTyped DEF Ink

LEMMA JoinedEmpty ==
  ASSUME NEW X, NEW t \in Seq(X), NEW w \in Seq(X), NEW l, l = << >>, Joined(w, t, l)
  PROVE  w = t
<1>1. Len(t) \in Nat /\ Len(l) = 0
  BY LenProperties, EmptySeq
<1>2. Len(w) = Len(t) /\ \A k \in 1..Len(t) : w[k] = t[k]
  BY <1>1 DEF Joined
<1> QED BY <1>2, SeqEqual

\* The part of the line from start to the character before next.
LEMMA PartExists ==
  ASSUME NEW line \in Seq(Char), NEW start \in 1..Len(line) + 1, NEW next \in start..Len(line) + 1
  PROVE  \E part \in Seq(Char) : Copied(line, part, start, next)
<1> DEFINE part == SubSeq(line, start, next - 1)
<1>1. Len(line) \in Nat /\ \A k \in start..next - 1 : k \in 1..Len(line)
  BY LenProperties
<1>2. \A k \in start..next - 1 : line[k] \in Char
  BY <1>1, ElementOfSeq
<1>3. /\ part \in Seq(Char)
      /\ Len(part) = IF start <= next - 1 THEN (next - 1) - start + 1 ELSE 0
      /\ \A k \in 1..(next - 1) - start + 1 : part[k] = line[start + k - 1]
  BY <1>1, <1>2, SubSeqProperties
<1> HIDE DEF part
<1>4. (next - 1) - start + 1 = next - start /\ (~(start <= next - 1) => next - start = 0)
  BY <1>1
<1>5. Copied(line, part, start, next)
  BY <1>3, <1>4 DEF Copied
<1> QED BY <1>3, <1>5

LEMMA PartsJoin ==
  ASSUME NEW line \in Seq(Char), NEW p \in Nat, NEW a \in Nat, NEW b \in Nat, p <= a, a <= b,
         NEW u, NEW v, NEW w, Copied(line, u, p, a), Copied(line, v, a, b), Copied(line, w, p, b)
  PROVE  Joined(w, u, v)
<1>1. /\ Len(u) = a - p /\ Len(v) = b - a /\ Len(w) = b - p
      /\ \A k \in 1..a - p : u[k] = line[p + k - 1]
      /\ \A k \in 1..b - a : v[k] = line[a + k - 1]
      /\ \A k \in 1..b - p : w[k] = line[p + k - 1]
  BY DEF Copied
<1>2. \A k \in 1..a - p : k \in 1..b - p
  OBVIOUS
<1>3. \A k \in 1..b - a : (a - p) + k \in 1..b - p /\ p + ((a - p) + k) - 1 = a + k - 1
  OBVIOUS
<1>4. \A k \in 1..b - a : w[(a - p) + k] = v[k]
  BY <1>1, <1>3
<1>5. Len(w) = Len(u) + Len(v)
  BY <1>1
<1> QED BY <1>1, <1>2, <1>3, <1>4, <1>5 DEF Joined

\* The ink of the line up to the token, and of the token, is that of the line behind it.
LEMMA TokenInk ==
  ASSUME NEW line \in Seq(Char), NEW i \in 1..Len(line) + 1, NEW t, TokenFrom(line, i, t),
         NEW f \in Seq(Char), NEW g \in Seq(Char), NEW pre \in Seq(Char), NEW post \in Seq(Char),
         Copied(line, pre, 1, i), Copied(line, post, 1, t.next), Ink(f) = Ink(pre),
         t.err = "PARSER_SUCCESS" => Joined(g, f, t.token),
         t.err # "PARSER_SUCCESS" => g = f
  PROVE  Ink(g) = Ink(post)
<1>1. Len(line) \in Nat /\ t.next \in i..Len(line) + 1 /\ i \in Nat
  BY LenProperties DEF TokenFrom
<1>2. ASSUME NEW start \in i..Len(line) + 1, \A j \in i..start - 1 : line[j] \in Blank,
             NEW head \in Seq(Char), Copied(line, head, 1, start)
      PROVE  Ink(head) = Ink(pre)
  <2>1. i \in 1..Len(line) + 1 /\ start \in Nat /\ 1 <= i /\ i <= start
    BY <1>1
  <2>2. PICK gap \in Seq(Char) : Copied(line, gap, i, start)
    BY PartExists
  <2>3. \A k \in 1..Len(gap) : i + k - 1 \in i..start - 1 /\ gap[k] = line[i + k - 1]
    BY <2>1, <2>2 DEF Copied
  <2>4. Ink(gap) = << >>
    <3>1. \A k \in 1..Len(gap) : gap[k] \in Blank
      BY <1>2, <2>3
    <3> QED BY <3>1, InkBlank
  <2>5. Joined(head, pre, gap)
    BY <1>1, <1>2, <2>1, <2>2, PartsJoin
  <2>6. Joined(Ink(head), Ink(pre), Ink(gap))
    BY <2>5, InkJoined
  <2> QED BY <2>4, <2>6, InkTyped, JoinedEmpty
<1>3. CASE t.err = "PARSER_SUCCESS"
  <2>1. PICK start \in i..t.next - 1 : /\ \A j \in i..start - 1 : line[j] \in Blank
                                       /\ Copied(line, t.token, start, t.next)
    BY <1>3 DEF TokenFrom
  <2>2. /\ start \in i..Len(line) + 1 /\ start \in 1..Len(line) + 1 /\ t.next \in Nat /\ start \in Nat
        /\ 1 <= start /\ start <= t.next /\ t.token \in Seq(Char) /\ 1 \in 1..Len(line) + 1
        /\ start \in 1..Len(line) + 1
    BY <1>1, <2>1 DEF TokenFrom
  <2>3. PICK head \in Seq(Char) : Copied(line, head, 1, start)
    BY <2>2, PartExists
  <2>4. Ink(head) = Ink(f)
    BY <1>2, <2>1, <2>2, <2>3
  <2>5. Joined(post, head, t.token)
    BY <2>1, <2>2, <2>3, PartsJoin
  <2>6. Joined(Ink(post), Ink(head), Ink(t.token)) /\ Joined(Ink(g), Ink(f), Ink(t.token))
    BY <1>3, <2>2, <2>5, InkJoined
  <2>7. Joined(Ink(post), Ink(f), Ink(t.token))
    BY <2>4, <2>6
  <2> QED BY <2>2, <2>6, <2>7, InkTyped, JoinedUnique
<1>4. CASE t.err # "PARSER_SUCCESS"
  <2>1. \A j \in i..t.next - 1 : line[j] \in Blank
    BY <1>4 DEF TokenFrom
  <2>2. Ink(post) = Ink(pre)
    BY <1>1, <1>2, <2>1
  <2> QED BY <1>4, <2>2
<1> QED BY <1>3, <1>4

-----------------------------------------------------------------------------
(* The tokens one behind the other.                                        *)

FlatUpTo(f, X, seqs) ==
  /\ f \in [0..Len(seqs) -> Seq(X)]
  /\ f[0] = << >>
  /\ \A i \in 1..Len(seqs) : Joined(f[i], f[i - 1], seqs[i])

LEMMA FlatTable ==
  ASSUME NEW X, NEW seqs \in Seq(Seq(X)), seqs # << >>
  PROVE  \E f : FlatUpTo(f, X, seqs) /\ FlattenSeq(seqs) = f[Len(seqs)]
<1> DEFINE n == Len(seqs)
           Step(k, u) == IF k = 1 THEN seqs[k] ELSE u \o seqs[k]
           step == [x \in (1..n) \X Seq(X) |-> Step(x[1], x[2])]
           Turn(f) == f = [k \in 1..n |-> IF k = 1 THEN seqs[k] ELSE f[k - 1] \o seqs[k]]
           turn == CHOOSE f : Turn(f)
<1>1. n \in Nat \ {0} /\ \A k \in 1..n : seqs[k] \in Seq(X)
  BY EmptySeq, ElementOfSeq
<1>2. << >> \in Seq(X)
  BY EmptySeq
<1>3. \A k \in 1..n, u \in Seq(X) : Step(k, u) \in Seq(X)
  BY <1>1, ConcatProperties
<1>4. FlattenSeq(seqs) = turn[n]
  BY <1>1 DEF FlattenSeq
<1> HIDE DEF Step
<1>5. step \in [(1..n) \X Seq(X) -> Seq(X)]
  BY <1>3
<1> HIDE DEF step, n, turn
<1>6. PICK g : States(g, n, Seq(X), << >>, step)
  BY <1>1, <1>2, <1>5, StatesExist
<1>7. g \in [0..n -> Seq(X)] /\ g[0] = << >>
  BY <1>6 DEF States
<1>8. \A k \in 1..n : k - 1 \in 0..n /\ g[k - 1] \in Seq(X)
  BY <1>1, <1>7
<1>9. \A k \in 1..n : g[k] = Step(k, g[k - 1])
  BY <1>6, <1>8 DEF States, step
<1>10. \A k \in 1..n : Joined(g[k], g[k - 1], seqs[k])
  <2> TAKE k \in 1..n
  <2> DEFINE u == g[k - 1]
             v == seqs[k]
             w == g[k]
  <2>1. u \in Seq(X) /\ v \in Seq(X)
    BY <1>1, <1>8
  <2>2. w = IF k = 1 THEN v ELSE u \o v
    BY <1>9 DEF Step
  <2>3. k = 1 => u = << >>
    BY <1>7
  <2> HIDE DEF u, v, w
  <2>4. w = u \o v
    <3>1. << >> \o v = v
      BY <2>1, ConcatEmptySeq
    <3> QED BY <2>2, <2>3, <3>1
  <2>5. Joined(w, u, v)
    BY <2>1, <2>4, ConcatJoins
  <2> QED BY <2>5 DEF u, v, w
<1>11. Turn(turn)
  <2> DEFINE h == [k \in 1..n |-> g[k]]
  <2>1. \A k \in 1..n : h[k] = IF k = 1 THEN seqs[k] ELSE h[k - 1] \o seqs[k]
    <3> TAKE k \in 1..n
    <3>1. h[k] = IF k = 1 THEN seqs[k] ELSE g[k - 1] \o seqs[k]
      BY <1>9 DEF Step
    <3>2. k # 1 => k - 1 \in 1..n /\ h[k - 1] = g[k - 1]
      BY <1>1
    <3> QED BY <3>1, <3>2, Zenon
  <2>2. h = [k \in 1..n |-> h[k]]
    OBVIOUS
  <2>3. Turn(h)
    <3> HIDE DEF h
    <3> QED BY <2>1, <2>2, Zenon
  <2> QED BY <2>3, Zenon DEF turn
<1>12. \A k \in 1..n : turn[k] = IF k = 1 THEN seqs[k] ELSE turn[k - 1] \o seqs[k]
  BY <1>11, Zenon
<1> DEFINE T == {k \in 0..n : k > 0 => turn[k] = g[k]}
<1>13. 0 \in T
  BY <1>1
<1>14. ASSUME NEW k \in 1..n, k - 1 \in T
       PROVE  k \in T
  <2>1. k # 1 => turn[k - 1] = g[k - 1]
    BY <1>14
  <2>2. g[k] = IF k = 1 THEN seqs[k] ELSE g[k - 1] \o seqs[k]
    BY <1>9 DEF Step
  <2>3. turn[k] = g[k]
    BY <1>12, <2>1, <2>2, Zenon
  <2> QED BY <2>3
<1> HIDE DEF T
<1>15. 0..n \subseteq T
  BY <1>1, <1>13, <1>14, BoundedInduction
<1>16. turn[n] = g[n]
  <2>1. n \in T
    BY <1>1, <1>15
  <2> QED BY <1>1, <2>1 DEF T
<1>17. FlatUpTo(g, X, seqs)
  BY <1>7, <1>10 DEF FlatUpTo, n
<1> QED BY <1>4, <1>16, <1>17 DEF n

LEMMA FlatTyped ==
  ASSUME NEW X, NEW seqs \in Seq(Seq(X))
  PROVE  FlattenSeq(seqs) \in Seq(X)
<1>1. CASE seqs = << >>
  <2>1. FlattenSeq(<< >>) = << >>
    BY DEF FlattenSeq
  <2> QED BY <1>1, <2>1, EmptySeq
<1>2. CASE seqs # << >>
  <2>1. PICK f : FlatUpTo(f, X, seqs) /\ FlattenSeq(seqs) = f[Len(seqs)]
    BY <1>2, FlatTable
  <2>2. f \in [0..Len(seqs) -> Seq(X)] /\ Len(seqs) \in 0..Len(seqs)
    BY <2>1, LenProperties DEF FlatUpTo
  <2> QED BY <2>1, <2>2
<1> QED BY <1>1, <1>2

\* One more token is put behind the others.
LEMMA FlatAppend ==
  ASSUME NEW X, NEW seqs \in Seq(Seq(X)), NEW x \in Seq(X)
  PROVE  Joined(FlattenSeq(Append(seqs, x)), FlattenSeq(seqs), x)
<1> DEFINE n == Len(seqs)
           more == Append(seqs, x)
<1>1. /\ more \in Seq(Seq(X)) /\ more # << >> /\ Len(more) = n + 1 /\ n \in Nat
      /\ \A k \in 1..n : more[k] = seqs[k]
      /\ more[n + 1] = x
  BY AppendProperties, LenProperties
<1> HIDE DEF more
<1>2. PICK f : FlatUpTo(f, X, more) /\ FlattenSeq(more) = f[n + 1]
  BY <1>1, FlatTable
<1>3. /\ f \in [0..n + 1 -> Seq(X)] /\ f[0] = << >>
      /\ \A k \in 1..n + 1 : Joined(f[k], f[k - 1], more[k])
  BY <1>1, <1>2 DEF FlatUpTo
<1>4. f[n] = FlattenSeq(seqs)
  <2>1. CASE seqs = << >>
    <3>1. FlattenSeq(<< >>) = << >> /\ n = 0
      BY <2>1, EmptySeq DEF FlattenSeq
    <3> QED BY <1>3, <2>1, <3>1
  <2>2. CASE seqs # << >>
    <3>1. PICK g : FlatUpTo(g, X, seqs) /\ FlattenSeq(seqs) = g[n]
      BY <2>2, FlatTable
    <3>2. /\ g \in [0..n -> Seq(X)] /\ g[0] = << >>
          /\ \A k \in 1..n : Joined(g[k], g[k - 1], seqs[k])
      BY <3>1 DEF FlatUpTo
    <3>3. \A k \in 1..n : seqs[k] \in Seq(X)
      BY ElementOfSeq
    <3> HIDE DEF n
    <3> DEFINE T == {k \in 0..n : f[k] = g[k]}
    <3>4. 0 \in T
      BY <1>1, <1>3, <3>2
    <3>5. ASSUME NEW k \in 1..n, k - 1 \in T
          PROVE  k \in T
      <4>1. k \in 0..n /\ k \in 1..n + 1 /\ k \in 0..n + 1 /\ k - 1 \in 0..n
        BY <1>1
      <4>2. f[k - 1] = g[k - 1] /\ more[k] = seqs[k]
        BY <1>1, <3>5
      <4>3. /\ Joined(f[k], g[k - 1], seqs[k]) /\ Joined(g[k], g[k - 1], seqs[k])
            /\ f[k] \in Seq(X) /\ g[k] \in Seq(X) /\ g[k - 1] \in Seq(X) /\ seqs[k] \in Seq(X)
        BY <1>3, <3>2, <3>3, <4>1, <4>2
      <4>4. f[k] = g[k]
        <5> DEFINE u == f[k]
                   v == g[k]
                   y == g[k - 1]
                   z == seqs[k]
        <5>1. u \in Seq(X) /\ v \in Seq(X) /\ y \in Seq(X) /\ z \in Seq(X) /\ Joined(u, y, z) /\ Joined(v, y, z)
          BY <4>3
        <5> HIDE DEF u, v, y, z
        <5>2. u = v
          BY <5>1, JoinedUnique
        <5> QED BY <5>2 DEF u, v
      <4> QED BY <4>1, <4>4
    <3> HIDE DEF T
    <3>6. 0..n \subseteq T
      BY <1>1, <3>4, <3>5, BoundedInduction
    <3>7. n \in T
      BY <1>1, <3>6
    <3> QED BY <3>1, <3>7 DEF T
  <2> QED BY <2>1, <2>2
<1>5. n + 1 \in 1..n + 1 /\ (n + 1) - 1 = n
  BY <1>1
<1>6. Joined(f[n + 1], f[n], x)
  BY <1>1, <1>3, <1>5
<1> QED BY <1>2, <1>4, <1>6 DEF more

-----------------------------------------------------------------------------
(* The first loop of parse_to_command.                                     *)

Collections(line) == [err : TokenError, next : 1..Len(line) + 1, tokens : Seq(Seq(Char))]

\* s has the tokens of the line up to next.
Gathered(line, s) ==
  /\ s \in Collections(line)
  /\ \A k \in 1..Len(s.tokens) : WellFormed(s.tokens[k])
  /\ \E pre \in Seq(Char) : Copied(line, pre, 1, s.next) /\ Ink(FlattenSeq(s.tokens)) = Ink(pre)
  /\ s.err = "PARSER_TOKEN_DONE" => s.next = Len(line) + 1

LEMMA CollectTurn ==
  ASSUME NEW line \in Seq(Char), NEW s, Gathered(line, s)
  PROVE  /\ Gathered(line, Collect(line, s))
         /\ Collect(line, s).err = "PARSER_SUCCESS" =>
              s.err = "PARSER_SUCCESS" /\ Collect(line, s).next > s.next
<1> DEFINE c == Collect(line, s)
           t == get_token(line, s.next)
           more == IF t.err = "PARSER_SUCCESS" THEN Append(s.tokens, t.token) ELSE s.tokens
<1>1. /\ s.err \in TokenError /\ s.next \in 1..Len(line) + 1 /\ s.tokens \in Seq(Seq(Char))
      /\ Len(line) \in Nat
  BY LenProperties DEF Gathered, Collections
<1>2. c = IF s.err # "PARSER_SUCCESS" THEN s
          ELSE [err |-> t.err, next |-> t.next, tokens |-> more]
  BY DEF Collect
<1>3. TokenFrom(line, s.next, t)
  BY <1>1, GetToken
<1> HIDE DEF c, t
<1>4. CASE s.err # "PARSER_SUCCESS"
  <2>1. c = s
    BY <1>2, <1>4
  <2> QED BY <1>4, <2>1 DEF c
<1>5. CASE s.err = "PARSER_SUCCESS"
  <2>1. /\ t.err \in TokenError /\ t.token \in Seq(Char) /\ t.next \in s.next..Len(line) + 1
        /\ t.err = "PARSER_SUCCESS" => WellFormed(t.token)
        /\ t.err = "PARSER_TOKEN_DONE" => t.next = Len(line) + 1
    BY <1>3 DEF TokenFrom
  <2>2. t.err = "PARSER_SUCCESS" => t.next > s.next
    <3>1. t.err = "PARSER_SUCCESS" => \E start \in s.next..t.next - 1 : TRUE
      BY <1>3 DEF TokenFrom
    <3> QED BY <1>1, <2>1, <3>1
  <2>3. /\ more \in Seq(Seq(Char))
        /\ \A k \in 1..Len(more) : WellFormed(more[k])
        /\ t.err = "PARSER_SUCCESS" => Joined(FlattenSeq(more), FlattenSeq(s.tokens), t.token)
        /\ t.err # "PARSER_SUCCESS" => FlattenSeq(more) = FlattenSeq(s.tokens)
    <3>1. \A k \in 1..Len(s.tokens) : WellFormed(s.tokens[k])
      BY DEF Gathered
    <3>2. CASE t.err = "PARSER_SUCCESS"
      <4> DEFINE b == Append(s.tokens, t.token)
      <4>1. /\ b \in Seq(Seq(Char)) /\ Len(b) = Len(s.tokens) + 1 /\ Len(s.tokens) \in Nat
            /\ \A k \in 1..Len(s.tokens) : b[k] = s.tokens[k]
            /\ b[Len(s.tokens) + 1] = t.token
        BY <1>1, <2>1, AppendProperties, LenProperties
      <4>2. Joined(FlattenSeq(b), FlattenSeq(s.tokens), t.token)
        BY <1>1, <2>1, FlatAppend
      <4>3. more = b
        BY <3>2
      <4> HIDE DEF b, more
      <4>4. \A k \in 1..Len(b) : k \in 1..Len(s.tokens) \/ k = Len(s.tokens) + 1
        BY <4>1
      <4> QED BY <2>1, <3>1, <3>2, <4>1, <4>2, <4>3, <4>4
    <3>3. CASE t.err # "PARSER_SUCCESS"
      <4>1. more = s.tokens
        BY <3>3
      <4> HIDE DEF more
      <4> QED BY <1>1, <3>1, <3>3, <4>1
    <3> QED BY <3>2, <3>3
  <2> HIDE DEF more
  <2>4. PICK pre \in Seq(Char) :
          Copied(line, pre, 1, s.next) /\ Ink(FlattenSeq(s.tokens)) = Ink(pre)
    BY DEF Gathered
  <2>5. PICK post \in Seq(Char) : Copied(line, post, 1, t.next)
    <3>1. 1 \in 1..Len(line) + 1 /\ t.next \in 1..Len(line) + 1
      BY <1>1, <2>1
    <3> QED BY <3>1, PartExists
  <2>6. Ink(FlattenSeq(more)) = Ink(post)
    <3>1. FlattenSeq(more) \in Seq(Char) /\ FlattenSeq(s.tokens) \in Seq(Char)
      BY <1>1, <2>3, FlatTyped
    <3> QED BY <1>1, <1>3, <2>3, <2>4, <2>5, <3>1, TokenInk
  <2>7. c.err = t.err /\ c.next = t.next /\ c.tokens = more /\ c \in Collections(line)
    <3>1. t.next \in 1..Len(line) + 1
      BY <1>1, <2>1
    <3> QED BY <1>2, <1>5, <2>1, <2>3, <3>1 DEF Collections
  <2> QED BY <1>5, <2>1, <2>2, <2>3, <2>5, <2>6, <2>7 DEF Gathered, c
<1> QED BY <1>4, <1>5

\* The loop ends, with the last token, or with a quote that is not closed.
LEMMA TokensGathered ==
  ASSUME NEW line \in Seq(Char)
  PROVE  Gathered(line, Tokens(line)) /\ Tokens(line).err # "PARSER_SUCCESS"
<1> DEFINE n == Len(line) + 1
           S == {s \in Collections(line) : Gathered(line, s)}
           start == [err |-> "PARSER_SUCCESS", next |-> 1, tokens |-> << >>]
           step == [x \in (1..n) \X S |-> Collect(line, x[2])]
           Turn(f) == f = [k \in 0..n |-> IF k = 0 THEN start ELSE Collect(line, f[k - 1])]
           turn == CHOOSE f : Turn(f)
<1>1. n \in Nat \ {0} /\ Len(line) \in Nat
  BY LenProperties
<1>2. Tokens(line) = turn[n]
  BY DEF Tokens
<1>3. start \in S /\ start.err = "PARSER_SUCCESS" /\ start.next = 1
  <2>1. start \in Collections(line)
    <3>1. 1 \in 1..Len(line) + 1 /\ << >> \in Seq(Seq(Char))
      BY <1>1
    <3> QED BY <3>1 DEF Collections, TokenError
  <2>2. PICK pre \in Seq(Char) : Copied(line, pre, 1, 1)
    <3>1. 1 \in 1..Len(line) + 1
      BY <1>1
    <3> QED BY <3>1, PartExists
  <2>3. pre = << >>
    <3>1. Len(pre) = 0
      BY <2>2 DEF Copied
    <3> QED BY <3>1, EmptySeq
  <2>4. FlattenSeq(<< >>) = << >>
    BY DEF FlattenSeq
  <2>5. Ink(FlattenSeq(<< >>)) = Ink(pre)
    BY <2>3, <2>4
  <2>6. start.err = "PARSER_SUCCESS" /\ start.next = 1 /\ start.tokens = << >>
    OBVIOUS
  <2>7. \A k \in 1..Len(<< >>) : FALSE
    OBVIOUS
  <2> HIDE DEF start
  <2>8. Gathered(line, start)
    BY <2>1, <2>2, <2>5, <2>6, <2>7 DEF Gathered
  <2> QED BY <2>1, <2>6, <2>8
<1>4. ASSUME NEW s \in S
      PROVE  /\ Collect(line, s) \in S
             /\ Collect(line, s).err = "PARSER_SUCCESS" =>
                  s.err = "PARSER_SUCCESS" /\ Collect(line, s).next > s.next
             /\ s.next \in 1..n
  BY CollectTurn DEF Gathered, Collections
<1> HIDE DEF start, S, n
<1>5. step \in [(1..n) \X S -> S]
  BY <1>4
<1> HIDE DEF step, turn
<1>6. PICK g : States(g, n, S, start, step)
  BY <1>1, <1>3, <1>5, StatesExist
<1>7. g \in [0..n -> S] /\ g[0] = start
  BY <1>6 DEF States
<1>8. \A k \in 1..n : k - 1 \in 0..n /\ g[k - 1] \in S
  BY <1>1, <1>7
<1>9. \A k \in 1..n : g[k] = Collect(line, g[k - 1])
  BY <1>6, <1>8 DEF States, step
<1>10. Turn(turn)
  <2>1. Turn(g)
    BY <1>1, <1>7, <1>9
  <2> QED BY <2>1 DEF turn
<1>11. turn[0] = start /\ \A k \in 1..n : turn[k] = Collect(line, turn[k - 1])
  BY <1>1, <1>10
<1> DEFINE T == {k \in 0..n : turn[k] = g[k] /\ (g[k].err = "PARSER_SUCCESS" => g[k].next > k)}
<1>12. 0 \in T
  BY <1>1, <1>3, <1>7, <1>11
<1>13. ASSUME NEW k \in 1..n, k - 1 \in T
       PROVE  k \in T
  <2>1. turn[k - 1] = g[k - 1] /\ (g[k - 1].err = "PARSER_SUCCESS" => g[k - 1].next > k - 1)
    BY <1>13
  <2>2. turn[k] = g[k]
    BY <1>9, <1>11, <2>1
  <2>3. /\ g[k].err = "PARSER_SUCCESS" =>
             g[k - 1].err = "PARSER_SUCCESS" /\ g[k].next > g[k - 1].next
        /\ g[k - 1].next \in 1..n /\ g[k].next \in 1..n
    <3>1. k \in 0..n /\ g[k] \in S
      BY <1>1, <1>7
    <3> QED BY <1>4, <1>8, <1>9, <3>1
  <2>4. g[k].err = "PARSER_SUCCESS" => g[k].next > k
    BY <1>1, <2>1, <2>3
  <2>5. k \in 0..n
    BY <1>1
  <2> QED BY <2>2, <2>4, <2>5
<1> HIDE DEF T
<1>14. 0..n \subseteq T
  BY <1>1, <1>12, <1>13, BoundedInduction
<1>15. n \in T /\ n \in 0..n
  BY <1>1, <1>14
<1>16. g[n] \in S /\ turn[n] = g[n] /\ (g[n].err = "PARSER_SUCCESS" => g[n].next > n)
  BY <1>7, <1>15 DEF T
<1>17. g[n].err # "PARSER_SUCCESS"
  BY <1>1, <1>4, <1>16
<1> QED BY <1>2, <1>16, <1>17 DEF S

-----------------------------------------------------------------------------
(* What the parser returns.                                                *)

Toks == Seq(Seq(Char))
Parts == [args : Toks, in_file : Seq(Char), out_file : Seq(Char)]
StageStates == [err : ParseError, next : Nat \ {0}, args : Toks \ {<< >>},
                in_file : Seq(Char), out_file : Seq(Char)]

LEMMA TokenAt ==
  ASSUME NEW tokens \in Toks, NEW i \in Nat
  PROVE  /\ i \in 1..Len(tokens) => tokens[i] \in Seq(Char)
         /\ NamesFile(tokens, i) => tokens[i] \in Seq(Char)
BY LenProperties, ElementOfSeq DEF Toks, NamesFile

LEMMA ArgumentTyped ==
  ASSUME NEW tokens \in Toks, NEW c \in StageStates
  PROVE  Argument(tokens, c) \in StageStates
<1> DEFINE i == c.next
           a == Argument(tokens, c)
           Error(e) == [c EXCEPT !.err = e]
           word == [c EXCEPT !.args = Append(@, tokens[i]), !.next = i + 1]
           out == IF c.out_file # NoFile THEN Error("PARSER_DUPLICATE_OUT_REDIR")
                  ELSE IF ~NamesFile(tokens, i + 1) THEN Error("PARSER_NO_OUT_FILE")
                  ELSE [c EXCEPT !.out_file = tokens[i + 1], !.next = i + 2]
           in == IF c.in_file # NoFile THEN Error("PARSER_DUPLICATE_IN_REDIR")
                 ELSE IF ~NamesFile(tokens, i + 1) THEN Error("PARSER_NO_IN_FILE")
                 ELSE [c EXCEPT !.in_file = tokens[i + 1], !.next = i + 2]
           Stop == c.err # "PARSER_SUCCESS" \/ i > Len(tokens) \/ At(tokens, i, {"|", "&"})
           Out == c.err = "PARSER_SUCCESS" /\ At(tokens, i, {">"})
           In == c.err = "PARSER_SUCCESS" /\ At(tokens, i, {"<"})
<1>1. /\ c.err \in ParseError /\ i \in Nat \ {0} /\ c.args \in Toks /\ c.args # << >>
      /\ c.in_file \in Seq(Char) /\ c.out_file \in Seq(Char) /\ Len(tokens) \in Nat
  BY LenProperties DEF StageStates, Toks
<1>2. a = CASE Stop -> c [] Out -> out [] In -> in [] OTHER -> word
  BY DEF Argument
<1>3. \A e \in ParseError : Error(e) \in StageStates
  BY <1>1 DEF StageStates
<1>4. out \in StageStates
  <2>1. CASE c.out_file # NoFile
    BY <1>3, <2>1 DEF ParseError
  <2>2. CASE c.out_file = NoFile /\ ~NamesFile(tokens, i + 1)
    BY <1>3, <2>2 DEF ParseError
  <2>3. CASE c.out_file = NoFile /\ NamesFile(tokens, i + 1)
    <3>1. tokens[i + 1] \in Seq(Char) /\ i + 2 \in Nat \ {0}
      BY <1>1, <2>3, TokenAt
    <3> QED BY <1>1, <2>3, <3>1 DEF StageStates
  <2> QED BY <2>1, <2>2, <2>3
<1>5. in \in StageStates
  <2>1. CASE c.in_file # NoFile
    BY <1>3, <2>1 DEF ParseError
  <2>2. CASE c.in_file = NoFile /\ ~NamesFile(tokens, i + 1)
    BY <1>3, <2>2 DEF ParseError
  <2>3. CASE c.in_file = NoFile /\ NamesFile(tokens, i + 1)
    <3>1. tokens[i + 1] \in Seq(Char) /\ i + 2 \in Nat \ {0}
      BY <1>1, <2>3, TokenAt
    <3> QED BY <1>1, <2>3, <3>1 DEF StageStates
  <2> QED BY <2>1, <2>2, <2>3
<1>6. ASSUME ~Stop
      PROVE  word \in StageStates
  <2>1. i \in 1..Len(tokens)
    BY <1>1, <1>6
  <2>2. tokens[i] \in Seq(Char) /\ i + 1 \in Nat \ {0}
    BY <1>1, <2>1, TokenAt
  <2> DEFINE more == Append(c.args, tokens[i])
  <2>3. more \in Toks /\ more # << >>
    <3> DEFINE u == c.args
               v == tokens[i]
    <3>1. u \in Seq(Seq(Char)) /\ v \in Seq(Char)
      BY <1>1, <2>2 DEF Toks
    <3> HIDE DEF u, v
    <3>2. Append(u, v) \in Seq(Seq(Char)) /\ Append(u, v) # << >>
      BY <3>1, AppendProperties
    <3> QED BY <3>2 DEF u, v, Toks
  <2> HIDE DEF more
  <2>4. [c EXCEPT !.args = more, !.next = i + 1] \in StageStates
    BY <1>1, <2>2, <2>3 DEF StageStates
  <2> QED BY <2>4 DEF more
<1> HIDE DEF a, out, in, word, Stop, Out, In
<1>7. a \in {c, out, in} \/ (~Stop /\ a = word)
  <2>1. CASE Stop
    <3>1. a = c \/ a = out \/ a = in
      BY <1>2, <2>1
    <3> QED BY <3>1
  <2>2. CASE ~Stop /\ (Out \/ In)
    <3>1. a = out \/ a = in
      BY <1>2, <2>2
    <3> QED BY <3>1
  <2>3. CASE ~Stop /\ ~Out /\ ~In
    BY <1>2, <2>3
  <2> QED BY <2>1, <2>2, <2>3
<1> QED BY <1>4, <1>5, <1>6, <1>7 DEF a

\* The turns of the loop over the tokens of a stage.
FirstWord(tokens, i) == [err |-> "PARSER_SUCCESS", next |-> i + 1, args |-> <<tokens[i]>>,
                         in_file |-> NoFile, out_file |-> NoFile]
NoWord(i) == [err |-> "PARSER_MISSING_COMMAND", next |-> i + 1, args |-> << >>,
              in_file |-> NoFile, out_file |-> NoFile]
StageUpTo(g, tokens, i) ==
  /\ g \in [0..Len(tokens) -> StageStates]
  /\ g[0] = FirstWord(tokens, i)
  /\ \A k \in 1..Len(tokens) : g[k] = Argument(tokens, g[k - 1])

LEMMA StageTable ==
  ASSUME NEW tokens \in Toks, NEW i \in 1..Len(tokens)
  PROVE  \E g : /\ StageUpTo(g, tokens, i)
                /\ Stage(tokens, i) = IF At(tokens, i, Operator) THEN NoWord(i) ELSE g[Len(tokens)]
<1> DEFINE n == Len(tokens)
           start == FirstWord(tokens, i)
           step == [x \in (1..n) \X StageStates |-> Argument(tokens, x[2])]
           Turn(f) == f = [k \in 0..n |-> IF k = 0 THEN start ELSE Argument(tokens, f[k - 1])]
           turn == CHOOSE f : Turn(f)
<1>1. n \in Nat /\ i \in Nat \ {0} /\ tokens[i] \in Seq(Char) /\ ~(i > n)
  <2>1. n \in Nat
    BY LenProperties DEF Toks
  <2>2. tokens[i] \in Seq(Char)
    BY <2>1, TokenAt
  <2> QED BY <2>1, <2>2
<1>2. Stage(tokens, i) = IF At(tokens, i, Operator) THEN NoWord(i) ELSE turn[n]
  <2> HIDE DEF n, turn
  <2>1. Stage(tokens, i) = IF i > n \/ At(tokens, i, Operator) THEN NoWord(i) ELSE turn[n]
    BY DEF Stage, NoWord, FirstWord, n, turn
  <2> QED BY <1>1, <2>1
<1>3. start \in StageStates
  <2>1. <<tokens[i]>> \in Toks \ {<< >>} /\ NoFile \in Seq(Char) /\ "PARSER_SUCCESS" \in ParseError
    BY <1>1 DEF Toks, NoFile, ParseError
  <2>2. i + 1 \in Nat \ {0}
    BY <1>1
  <2> QED BY <2>1, <2>2 DEF StageStates, FirstWord
<1>4. step \in [(1..n) \X StageStates -> StageStates]
  BY ArgumentTyped
<1> HIDE DEF n, start, step, turn
<1>5. PICK g : States(g, n, StageStates, start, step)
  BY <1>1, <1>3, <1>4, StatesExist
<1>6. g \in [0..n -> StageStates] /\ g[0] = start
  BY <1>5 DEF States
<1>7. \A k \in 1..n : k - 1 \in 0..n /\ g[k - 1] \in StageStates
  BY <1>1, <1>6
<1>8. \A k \in 1..n : g[k] = Argument(tokens, g[k - 1])
  BY <1>5, <1>7 DEF States, step
<1>9. Turn(turn)
  <2>1. Turn(g)
    BY <1>1, <1>6, <1>8
  <2> QED BY <2>1 DEF turn
<1>10. turn[0] = start /\ \A k \in 1..n : turn[k] = Argument(tokens, turn[k - 1])
  BY <1>1, <1>9
<1> DEFINE T == {k \in 0..n : turn[k] = g[k]}
<1>11. 0 \in T /\ \A k \in 1..n : k - 1 \in T => k \in T
  BY <1>1, <1>6, <1>8, <1>10
<1> HIDE DEF T
<1>12. 0..n \subseteq T
  BY <1>1, <1>11, BoundedInduction
<1>13. turn[n] = g[n]
  BY <1>1, <1>12 DEF T
<1>14. StageUpTo(g, tokens, i)
  BY <1>6, <1>8 DEF StageUpTo, n, start
<1> QED BY <1>2, <1>13, <1>14 DEF n

LEMMA StageTyped ==
  ASSUME NEW tokens \in Toks, NEW i \in Nat \ {0}
  PROVE  LET s == Stage(tokens, i)
         IN  /\ s.err \in ParseError /\ s.next \in Nat \ {0}
             /\ s.args \in Toks /\ s.in_file \in Seq(Char) /\ s.out_file \in Seq(Char)
             /\ s.err = "PARSER_SUCCESS" => s.args # << >>
<1> DEFINE s == Stage(tokens, i)
<1>1. Len(tokens) \in Nat
  BY LenProperties DEF Toks
<1>2. ASSUME s = NoWord(i)
      PROVE  /\ s.err \in ParseError /\ s.next \in Nat \ {0}
             /\ s.args \in Toks /\ s.in_file \in Seq(Char) /\ s.out_file \in Seq(Char)
             /\ s.err = "PARSER_SUCCESS" => s.args # << >>
  <2> HIDE DEF s
  <2>1. /\ s.err = "PARSER_MISSING_COMMAND" /\ s.next = i + 1 /\ s.args = << >>
        /\ s.in_file = << >> /\ s.out_file = << >>
    BY <1>2 DEF NoWord, NoFile
  <2>2. << >> \in Toks /\ << >> \in Seq(Char) /\ "PARSER_MISSING_COMMAND" \in ParseError
    BY DEF Toks, ParseError
  <2> QED BY <2>1, <2>2
<1>3. CASE i > Len(tokens)
  <2>1. s = NoWord(i)
    BY <1>3 DEF Stage, NoWord
  <2> QED BY <1>2, <2>1
<1>4. CASE ~(i > Len(tokens))
  <2>1. i \in 1..Len(tokens)
    BY <1>1, <1>4
  <2>2. PICK g : /\ StageUpTo(g, tokens, i)
                 /\ s = IF At(tokens, i, Operator) THEN NoWord(i) ELSE g[Len(tokens)]
    BY <2>1, StageTable
  <2>3. g[Len(tokens)] \in StageStates
    BY <1>1, <2>2 DEF StageUpTo
  <2>4. s = NoWord(i) \/ s \in StageStates
    BY <2>2, <2>3
  <2> HIDE DEF s
  <2>5. CASE s \in StageStates
    BY <2>5 DEF StageStates, s
  <2> QED BY <1>2, <2>4, <2>5 DEF s
<1> QED BY <1>3, <1>4

\* The calls of parse_command_helper.
CallStates == {p \in [err : ParseError, next : Nat, stages : Seq(Parts)] :
                 p.err = "PARSER_SUCCESS" => p.stages \in Seq(Stages(Char))}

LEMMA CalledTyped ==
  ASSUME NEW tokens \in Toks, NEW p \in CallStates
  PROVE  Called(tokens, p) \in CallStates
<1> DEFINE c == Called(tokens, p)
           s == Stage(tokens, p.next + 1)
           stage == [args |-> s.args, in_file |-> s.in_file, out_file |-> s.out_file]
           more == Append(p.stages, stage)
           stop == p.err # "PARSER_SUCCESS" \/ ~(p.next = 0 \/ At(tokens, p.next, {"|"}))
<1>1. /\ p.err \in ParseError /\ p.next \in Nat /\ p.stages \in Seq(Parts)
      /\ p.err = "PARSER_SUCCESS" => p.stages \in Seq(Stages(Char))
  BY DEF CallStates
<1>2. c = IF stop THEN p ELSE [err |-> s.err, next |-> s.next, stages |-> more]
  BY DEF Called
<1>3. /\ s.err \in ParseError /\ s.next \in Nat \ {0}
      /\ s.args \in Toks /\ s.in_file \in Seq(Char) /\ s.out_file \in Seq(Char)
      /\ s.err = "PARSER_SUCCESS" => s.args # << >>
  <2>1. p.next + 1 \in Nat \ {0}
    BY <1>1
  <2> QED BY <2>1, StageTyped
<1> HIDE DEF c, s
<1>4. stage \in Parts /\ (s.err = "PARSER_SUCCESS" => stage \in Stages(Char))
  BY <1>3 DEF Parts, Stages, Toks
<1> HIDE DEF stage
<1>5. CASE stop
  BY <1>2, <1>5 DEF c
<1>6. CASE ~stop
  <2>1. more \in Seq(Parts)
    BY <1>1, <1>4, AppendProperties
  <2>2. s.err = "PARSER_SUCCESS" => more \in Seq(Stages(Char))
    BY <1>1, <1>4, <1>6, AppendProperties
  <2> HIDE DEF more
  <2>3. c = [err |-> s.err, next |-> s.next, stages |-> more]
    BY <1>2, <1>6
  <2>4. c.err = s.err /\ c.stages = more /\ c \in [err : ParseError, next : Nat, stages : Seq(Parts)]
    BY <1>3, <2>1, <2>3
  <2> QED BY <2>2, <2>4 DEF CallStates, c
<1> QED BY <1>5, <1>6

CalledUpTo(g, tokens) ==
  /\ g \in [0..Len(tokens) + 1 -> CallStates]
  /\ g[0] = [err |-> "PARSER_SUCCESS", next |-> 0, stages |-> << >>]
  /\ \A k \in 1..Len(tokens) + 1 : g[k] = Called(tokens, g[k - 1])

LEMMA CalledTable ==
  ASSUME NEW tokens \in Toks
  PROVE  \E g : CalledUpTo(g, tokens) /\ parse_command_helper(tokens) = g[Len(tokens) + 1]
<1> DEFINE n == Len(tokens) + 1
           start == [err |-> "PARSER_SUCCESS", next |-> 0, stages |-> << >>]
           step == [x \in (1..n) \X CallStates |-> Called(tokens, x[2])]
           Turn(f) == f = [k \in 0..n |-> IF k = 0 THEN start ELSE Called(tokens, f[k - 1])]
           turn == CHOOSE f : Turn(f)
<1>1. n \in Nat
  BY LenProperties DEF Toks
<1>2. parse_command_helper(tokens) = turn[n]
  BY DEF parse_command_helper
<1>3. start \in CallStates
  <2>1. << >> \in Seq(Parts) /\ << >> \in Seq(Stages(Char)) /\ "PARSER_SUCCESS" \in ParseError
    BY DEF ParseError
  <2> QED BY <2>1 DEF CallStates
<1>4. step \in [(1..n) \X CallStates -> CallStates]
  BY CalledTyped
<1> HIDE DEF n, start, step, turn
<1>5. PICK g : States(g, n, CallStates, start, step)
  BY <1>1, <1>3, <1>4, StatesExist
<1>6. g \in [0..n -> CallStates] /\ g[0] = start
  BY <1>5 DEF States
<1>7. \A k \in 1..n : k - 1 \in 0..n /\ g[k - 1] \in CallStates
  BY <1>1, <1>6
<1>8. \A k \in 1..n : g[k] = Called(tokens, g[k - 1])
  BY <1>5, <1>7 DEF States, step
<1>9. Turn(turn)
  <2>1. Turn(g)
    BY <1>1, <1>6, <1>8
  <2> QED BY <2>1 DEF turn
<1>10. turn[0] = start /\ \A k \in 1..n : turn[k] = Called(tokens, turn[k - 1])
  BY <1>1, <1>9
<1> DEFINE T == {k \in 0..n : turn[k] = g[k]}
<1>11. 0 \in T /\ \A k \in 1..n : k - 1 \in T => k \in T
  BY <1>1, <1>6, <1>8, <1>10
<1> HIDE DEF T
<1>12. 0..n \subseteq T
  BY <1>1, <1>11, BoundedInduction
<1>13. turn[n] = g[n]
  BY <1>1, <1>12 DEF T
<1>14. CalledUpTo(g, tokens)
  BY <1>6, <1>8 DEF CalledUpTo, n, start
<1> QED BY <1>2, <1>13, <1>14 DEF n

LEMMA HelperTyped ==
  ASSUME NEW tokens \in Toks
  PROVE  parse_command_helper(tokens) \in CallStates
<1>1. PICK g : CalledUpTo(g, tokens) /\ parse_command_helper(tokens) = g[Len(tokens) + 1]
  BY CalledTable
<1>2. Len(tokens) + 1 \in 0..Len(tokens) + 1
  BY LenProperties DEF Toks
<1> QED BY <1>1, <1>2 DEF CalledUpTo

\* The result, case by case, with the tokens and the stages of the line.
LEMMA ParseCases ==
  ASSUME NEW line
  PROVE  LET t == Tokens(line)
             p == parse_command_helper(t.tokens)
             r == parse_to_command(line)
             Rejected(e) == [err |-> e, stages |-> << >>, is_background |-> FALSE]
         IN  /\ t.err # "PARSER_TOKEN_DONE" => r = Rejected(t.err)
             /\ t.err = "PARSER_TOKEN_DONE" /\ t.tokens = << >> => r = Rejected("PARSER_NO_COMMAND")
             /\ t.err = "PARSER_TOKEN_DONE" /\ t.tokens # << >> /\ p.err # "PARSER_SUCCESS"
                  => r = Rejected(p.err)
             /\ t.err = "PARSER_TOKEN_DONE" /\ t.tokens # << >> /\ p.err = "PARSER_SUCCESS"
                  => r = Background(t.tokens, p)
<1> DEFINE t == Tokens(line)
           p == parse_command_helper(t.tokens)
           r == parse_to_command(line)
           Rejected(e) == [err |-> e, stages |-> << >>, is_background |-> FALSE]
           one == Rejected(t.err)
           two == Rejected("PARSER_NO_COMMAND")
           three == Rejected(p.err)
           four == Background(t.tokens, p)
<1>1. r = CASE t.err # "PARSER_TOKEN_DONE" -> one
            [] t.err = "PARSER_TOKEN_DONE" /\ t.tokens = << >> -> two
            [] t.err = "PARSER_TOKEN_DONE" /\ t.tokens # << >> /\ p.err # "PARSER_SUCCESS" -> three
            [] OTHER -> four
  BY DEF parse_to_command
<1> HIDE DEF t, p, r, one, two, three, four
<1>2. /\ t.err # "PARSER_TOKEN_DONE" => r = one
      /\ t.err = "PARSER_TOKEN_DONE" /\ t.tokens = << >> => r = two
      /\ t.err = "PARSER_TOKEN_DONE" /\ t.tokens # << >> /\ p.err # "PARSER_SUCCESS" => r = three
      /\ t.err = "PARSER_TOKEN_DONE" /\ t.tokens # << >> /\ p.err = "PARSER_SUCCESS" => r = four
  BY <1>1
<1> QED BY <1>2, Zenon DEF t, p, r, one, two, three, four

LEMMA ParseTyped ==
  ASSUME NEW line \in Seq(Char)
  PROVE  parse_to_command(line) \in Result /\ parse_to_command(line).err \in ParseError
<1> DEFINE t == Tokens(line)
           p == parse_command_helper(t.tokens)
           r == parse_to_command(line)
           Rejected(e) == [err |-> e, stages |-> << >>, is_background |-> FALSE]
<1>1. t.tokens \in Toks /\ t.err \in TokenError /\ t.err # "PARSER_SUCCESS"
  BY TokensGathered DEF Gathered, Collections, Toks
<1>2. p \in CallStates
  BY <1>1, HelperTyped
<1>3. /\ t.err # "PARSER_TOKEN_DONE" => r = Rejected(t.err)
      /\ t.err = "PARSER_TOKEN_DONE" /\ t.tokens = << >> => r = Rejected("PARSER_NO_COMMAND")
      /\ t.err = "PARSER_TOKEN_DONE" /\ t.tokens # << >> /\ p.err # "PARSER_SUCCESS"
           => r = Rejected(p.err)
      /\ t.err = "PARSER_TOKEN_DONE" /\ t.tokens # << >> /\ p.err = "PARSER_SUCCESS"
           => r = Background(t.tokens, p)
  BY ParseCases, Zenon
<1> HIDE DEF t, p, r
<1>4. \A e \in ParseError : Rejected(e) \in Result /\ Rejected(e).err \in ParseError
  <2>1. << >> \in Seq(Stages(Char))
    OBVIOUS
  <2> QED BY <2>1 DEF Result
<1> HIDE DEF Rejected
<1>5. CASE t.err # "PARSER_TOKEN_DONE"
  <2>1. t.err \in ParseError
    BY <1>1, <1>5 DEF TokenError, ParseError
  <2> QED BY <1>3, <1>4, <1>5, <2>1 DEF r
<1>6. CASE t.err = "PARSER_TOKEN_DONE" /\ t.tokens = << >>
  <2>1. "PARSER_NO_COMMAND" \in ParseError
    BY DEF ParseError
  <2> QED BY <1>3, <1>4, <1>6, <2>1 DEF r
<1>7. CASE t.err = "PARSER_TOKEN_DONE" /\ t.tokens # << >> /\ p.err # "PARSER_SUCCESS"
  <2>1. p.err \in ParseError
    BY <1>2 DEF CallStates
  <2> QED BY <1>3, <1>4, <1>7, <2>1 DEF r
<1>8. CASE t.err = "PARSER_TOKEN_DONE" /\ t.tokens # << >> /\ p.err = "PARSER_SUCCESS"
  <2> DEFINE b == Background(t.tokens, p)
  <2>1. p.stages \in Seq(Stages(Char))
    BY <1>2, <1>8 DEF CallStates
  <2>2. /\ b.err \in ParseError /\ b.stages = p.stages /\ b.is_background \in BOOLEAN
        /\ b = [err |-> b.err, stages |-> b.stages, is_background |-> b.is_background]
    BY DEF Background, ParseError, At
  <2> HIDE DEF b
  <2>3. b \in Result
    BY <2>1, <2>2 DEF Result
  <2>4. r = b
    BY <1>3, <1>8 DEF b
  <2> QED BY <2>2, <2>3, <2>4 DEF r
<1> QED BY <1>5, <1>6, <1>7, <1>8

-----------------------------------------------------------------------------
(* The stages of a line.  Position by position, what the loops of          *)
(* parse_command_helper have accepted is what the grammar allows.          *)

Words == {tokens \in Toks : \A k \in 1..Len(tokens) : tokens[k] # << >>}

\* Which operator a token is.
LEMMA AtProperties ==
  ASSUME NEW tokens \in Toks, NEW k \in Int
  PROVE  /\ \A ops : At(tokens, k, ops) => k \in 1..Len(tokens) /\ IsOperator(tokens[k])
         /\ k \in 1..Len(tokens) =>
              (IsOperator(tokens[k]) <=> \/ At(tokens, k, {"|"}) \/ At(tokens, k, {"&"})
                                         \/ At(tokens, k, {"<"}) \/ At(tokens, k, {">"}))
         /\ At(tokens, k, {"|", "&"}) <=> At(tokens, k, {"|"}) \/ At(tokens, k, {"&"})
         /\ At(tokens, k, {"<", ">"}) <=> At(tokens, k, {"<"}) \/ At(tokens, k, {">"})
         /\ At(tokens, k, {"<", ">", "|"}) <=> At(tokens, k, {"<", ">"}) \/ At(tokens, k, {"|"})
         /\ k \in 1..Len(tokens) => (At(tokens, k, Operator) <=> IsOperator(tokens[k]))
<1>1. DOMAIN tokens = 1..Len(tokens)
  BY LenProperties DEF Toks
<1> QED BY <1>1 DEF At, IsOperator, Operator

LEMMA AtOne ==
  ASSUME NEW tokens \in Toks, NEW k \in Int
  PROVE  /\ At(tokens, k, {"|"}) => ~At(tokens, k, {"&"}) /\ ~At(tokens, k, {"<"}) /\ ~At(tokens, k, {">"})
         /\ At(tokens, k, {"&"}) => ~At(tokens, k, {"<"}) /\ ~At(tokens, k, {">"})
         /\ At(tokens, k, {"<"}) => ~At(tokens, k, {">"})
BY DEF At

\* Equal tokens are the same operator.
LEMMA AtEqual ==
  ASSUME NEW tokens \in Toks, NEW k \in Int, NEW m \in Int, NEW op
  PROVE  /\ At(tokens, k, {op}) /\ m \in 1..Len(tokens) /\ tokens[m] = tokens[k] => At(tokens, m, {op})
         /\ At(tokens, k, {op}) /\ At(tokens, m, {op}) => tokens[k] = tokens[m]
<1>1. DOMAIN tokens = 1..Len(tokens)
  BY LenProperties DEF Toks
<1>2. At(tokens, k, {op}) /\ m \in 1..Len(tokens) /\ tokens[m] = tokens[k] => At(tokens, m, {op})
  BY <1>1 DEF At
<1>3. ASSUME At(tokens, k, {op}), At(tokens, m, {op})
      PROVE  tokens[k] = tokens[m]
  <2>1. /\ Len(tokens[k]) = 1 /\ Len(tokens[m]) = 1 /\ tokens[k][1] = op /\ tokens[m][1] = op
        /\ k \in 1..Len(tokens) /\ m \in 1..Len(tokens)
    BY <1>1, <1>3 DEF At, IsOperator
  <2>2. tokens[k] \in Seq(Char) /\ tokens[m] \in Seq(Char)
    BY <2>1, ElementOfSeq DEF Toks
  <2> QED BY <2>1, <2>2, SeqEqual
<1> QED BY <1>2, <1>3

\* The tokens from lo on and before hi are a stage.
StageSound(tokens, lo, hi) ==
  /\ ~IsOperator(tokens[lo])
  /\ \A m \in lo..hi - 1 :
       /\ ~At(tokens, m, {"|"})
       /\ At(tokens, m, {"&"}) => IsFile(tokens, m)
       /\ At(tokens, m, {"<", ">"}) => m + 1 < hi /\ NamesFile(tokens, m + 1)
       /\ \A k \in m + 1..hi - 1 : At(tokens, m, {"<", ">"}) => tokens[m] # tokens[k]

WordsIn(tokens, S) == {m \in S : ~IsOperator(tokens[m]) /\ ~IsFile(tokens, m)}

\* The file behind the one redirection, if there is one.
FileIs(tokens, lo, hi, op, file) ==
  \/ file = NoFile /\ \A m \in lo..hi - 1 : ~At(tokens, m, {op})
  \/ \E m \in lo..hi - 1 : At(tokens, m, {op}) /\ m + 1 < hi /\ file = tokens[m + 1]

StageRead(tokens, i, c) ==
  /\ i < c.next /\ c.next <= Len(tokens) + 1
  /\ StageSound(tokens, i, c.next)
  /\ c.args = Chosen(tokens, WordsIn(tokens, i..c.next - 1))
  /\ FileIs(tokens, i, c.next, "<", c.in_file)
  /\ FileIs(tokens, i, c.next, ">", c.out_file)

StageOver(tokens, j) == j > Len(tokens) \/ At(tokens, j, {"|", "&"})

\* A redirection and its file are added to a stage.
LEMMA RedirectRead ==
  ASSUME NEW tokens \in Words, NEW i \in 1..Len(tokens), NEW j \in i + 1..Len(tokens),
         NEW op \in {"<", ">"}, StageSound(tokens, i, j), At(tokens, j, {op}),
         NamesFile(tokens, j + 1), FileIs(tokens, i, j, op, NoFile)
  PROVE  /\ j + 2 <= Len(tokens) + 1
         /\ StageSound(tokens, i, j + 2)
         /\ WordsIn(tokens, i..(j + 2) - 1) = WordsIn(tokens, i..j - 1)
         /\ FileIs(tokens, i, j + 2, op, tokens[j + 1])
         /\ \A o \in {"<", ">"} \ {op} : \A f : FileIs(tokens, i, j, o, f) => FileIs(tokens, i, j + 2, o, f)
<1>1. tokens \in Toks /\ Len(tokens) \in Nat /\ DOMAIN tokens = 1..Len(tokens)
  BY LenProperties DEF Words, Toks
<1>2. j + 1 \in 1..Len(tokens) /\ ~At(tokens, j + 1, {"<", ">", "|"})
  BY <1>1 DEF NamesFile
<1>3. /\ ~At(tokens, j + 1, {"|"}) /\ ~At(tokens, j + 1, {"<"}) /\ ~At(tokens, j + 1, {">"})
      /\ ~At(tokens, j + 1, {"<", ">"}) /\ \A o \in {"<", ">"} : ~At(tokens, j + 1, {o})
  <2>1. j + 1 \in Int
    BY <1>1
  <2>2. ~At(tokens, j + 1, {"|"}) /\ ~At(tokens, j + 1, {"<"}) /\ ~At(tokens, j + 1, {">"})
    BY <1>1, <1>2, <2>1, AtProperties
  <2>3. \A o \in {"<", ">"} : o = "<" \/ o = ">"
    OBVIOUS
  <2>4. \A o \in {"<", ">"} : ~At(tokens, j + 1, {o})
    BY <2>2, <2>3
  <2> QED BY <1>1, <2>1, <2>2, <2>4, AtProperties
<1>4. /\ ~At(tokens, j, {"|"}) /\ ~At(tokens, j, {"&"}) /\ At(tokens, j, {"<", ">"}) /\ IsOperator(tokens[j])
      /\ \A o \in {"<", ">"} \ {op} : ~At(tokens, j, {o})
  <2>1. j \in Int
    OBVIOUS
  <2>2. CASE op = "<"
    <3>1. At(tokens, j, {"<"}) /\ {"<", ">"} \ {op} = {">"}
      BY <2>2
    <3> QED BY <1>1, <2>1, <3>1, AtProperties, AtOne
  <2>3. CASE op = ">"
    <3>1. At(tokens, j, {">"}) /\ {"<", ">"} \ {op} = {"<"}
      BY <2>3
    <3> QED BY <1>1, <2>1, <3>1, AtProperties, AtOne
  <2> QED BY <2>2, <2>3
<1>5. IsFile(tokens, j + 1)
  <2>1. (j + 1) - 1 = j
    BY <1>1
  <2> QED BY <1>4, <2>1 DEF IsFile
<1>6. \A m \in i..(j + 2) - 1 : m \in i..j - 1 \/ m = j \/ m = j + 1
  BY <1>1
<1>7. \A m \in i..j - 1 : m \in i..(j + 2) - 1 /\ m + 1 < j + 2 /\ m \in 1..Len(tokens)
  BY <1>1
<1>8. \A m \in i..j - 1 : ~At(tokens, m, {op})
  <2>1. \A m \in i..j - 1 : m + 1 < j => tokens[m + 1] # << >>
    <3>1. \A m \in i..j - 1 : m + 1 < j => m + 1 \in 1..Len(tokens)
      BY <1>1
    <3> QED BY <3>1 DEF Words
  <2> QED BY <2>1 DEF FileIs, NoFile
<1>9. \A m \in i..j - 1 : tokens[m] # tokens[j] /\ (At(tokens, m, {"<", ">"}) => tokens[m] # tokens[j + 1])
  <2> SUFFICES ASSUME NEW m \in i..j - 1
               PROVE  tokens[m] # tokens[j] /\ (At(tokens, m, {"<", ">"}) => tokens[m] # tokens[j + 1])
    OBVIOUS
  <2>1. m \in Int /\ j \in Int /\ j + 1 \in Int /\ m \in 1..Len(tokens) /\ ~At(tokens, m, {op})
    <3>1. m \in Int /\ j \in Int /\ j + 1 \in Int
      BY <1>1
    <3> QED BY <1>7, <1>8, <3>1
  <2>2. tokens[m] # tokens[j]
    BY <1>1, <2>1, AtEqual
  <2>3. ASSUME NEW o \in {"<", ">"}, At(tokens, m, {o})
        PROVE  tokens[m] # tokens[j + 1]
    <3>1. ~At(tokens, j + 1, {o})
      BY <1>3
    <3> QED BY <1>1, <1>2, <2>1, <2>3, <3>1, AtEqual
  <2>4. At(tokens, m, {"<", ">"}) => At(tokens, m, {"<"}) \/ At(tokens, m, {">"})
    BY <1>1, <2>1, AtProperties
  <2> QED BY <2>2, <2>3, <2>4
<1>10. tokens[j] # tokens[j + 1]
  <2>1. j \in Int /\ j + 1 \in Int
    BY <1>1
  <2>2. ~At(tokens, j + 1, {op})
    BY <1>3
  <2> QED BY <1>1, <1>2, <2>1, <2>2, AtEqual
<1>11. StageSound(tokens, i, j + 2)
  <2>1. ASSUME NEW m \in i..(j + 2) - 1
        PROVE  /\ ~At(tokens, m, {"|"})
               /\ At(tokens, m, {"&"}) => IsFile(tokens, m)
               /\ At(tokens, m, {"<", ">"}) => m + 1 < j + 2 /\ NamesFile(tokens, m + 1)
    <3>1. CASE m \in i..j - 1
      BY <1>7, <3>1 DEF StageSound
    <3>2. CASE m = j
      BY <1>1, <1>4, <3>2
    <3>3. CASE m = j + 1
      BY <1>3, <1>5, <3>3
    <3> QED BY <1>6, <3>1, <3>2, <3>3
  <2>2. ASSUME NEW m \in i..(j + 2) - 1, NEW k \in m + 1..(j + 2) - 1, At(tokens, m, {"<", ">"})
        PROVE  tokens[m] # tokens[k]
    <3>1. CASE m \in i..j - 1
      <4>1. k \in m + 1..j - 1 \/ k = j \/ k = j + 1
        BY <1>1
      <4>2. CASE k \in m + 1..j - 1
        BY <2>2, <3>1, <4>2 DEF StageSound
      <4> QED BY <1>9, <2>2, <3>1, <4>1, <4>2
    <3>2. CASE m = j
      <4>1. k = j + 1
        BY <1>1, <3>2
      <4> QED BY <1>10, <3>2, <4>1
    <3>3. CASE m = j + 1
      BY <1>3, <2>2, <3>3
    <3> QED BY <1>6, <3>1, <3>2, <3>3
  <2> QED BY <2>1, <2>2 DEF StageSound
<1>12. WordsIn(tokens, i..(j + 2) - 1) = WordsIn(tokens, i..j - 1)
  BY <1>4, <1>5, <1>6, <1>7 DEF WordsIn
<1>13. FileIs(tokens, i, j + 2, op, tokens[j + 1])
  <2>1. j \in i..(j + 2) - 1 /\ j + 1 < j + 2
    BY <1>1
  <2> QED BY <2>1 DEF FileIs
<1>14. ASSUME NEW o \in {"<", ">"} \ {op}, NEW f, FileIs(tokens, i, j, o, f)
       PROVE  FileIs(tokens, i, j + 2, o, f)
  <2>1. ~At(tokens, j, {o}) /\ ~At(tokens, j + 1, {o})
    BY <1>3, <1>4
  <2> QED BY <1>6, <1>7, <1>14, <2>1 DEF FileIs
<1>15. j + 2 <= Len(tokens) + 1
  BY <1>1, <1>2
<1> QED BY <1>11, <1>12, <1>13, <1>14, <1>15

\* One position more is chosen.
LEMMA ChosenMore ==
  ASSUME NEW X, NEW seq \in Seq(X), NEW j \in 1..Len(seq), NEW S, \A m \in S : m < j
  PROVE  Chosen(seq, S \cup {j}) = Append(Chosen(seq, S), seq[j])
<1>1. PICK c : ChosenUpTo(c, X, seq, S) /\ Chosen(seq, S) = c[Len(seq)]
  BY ChosenTable
<1>2. PICK d : ChosenUpTo(d, X, seq, S \cup {j}) /\ Chosen(seq, S \cup {j}) = d[Len(seq)]
  BY ChosenTable
<1>3. Len(seq) \in Nat /\ j \notin S
  BY LenProperties
<1> DEFINE T == {n \in 0..Len(seq) : /\ n < j => d[n] = c[n]
                                     /\ n >= j => c[n] = c[j - 1] /\ d[n] = Append(c[j - 1], seq[j])}
<1>4. 0 \in T
  BY <1>1, <1>2, <1>3 DEF ChosenUpTo
<1>5. ASSUME NEW n \in 1..Len(seq), n - 1 \in T
      PROVE  n \in T
  <2>1. /\ c[n] = IF n \in S THEN Append(c[n - 1], seq[n]) ELSE c[n - 1]
        /\ d[n] = IF n \in S \cup {j} THEN Append(d[n - 1], seq[n]) ELSE d[n - 1]
    BY <1>1, <1>2 DEF ChosenUpTo
  <2>2. CASE n < j
    <3>1. n - 1 < j /\ n # j
      BY <1>3, <2>2
    <3>2. d[n - 1] = c[n - 1] /\ (n \in S \cup {j} <=> n \in S)
      BY <1>5, <3>1
    <3> QED BY <1>3, <2>1, <2>2, <3>2
  <2>3. CASE n = j
    <3>1. n - 1 < j /\ n \notin S /\ n \in S \cup {j}
      BY <1>3, <2>3
    <3>2. d[n - 1] = c[n - 1]
      BY <1>5, <3>1
    <3> QED BY <1>3, <2>1, <2>3, <3>1, <3>2
  <2>4. CASE n > j
    <3>1. n - 1 >= j /\ n \notin S /\ n \notin S \cup {j}
      BY <1>3, <2>4
    <3>2. c[n - 1] = c[j - 1] /\ d[n - 1] = Append(c[j - 1], seq[j])
      BY <1>5, <3>1
    <3> QED BY <1>3, <2>1, <2>4, <3>1, <3>2
  <2> QED BY <1>3, <2>2, <2>3, <2>4
<1> HIDE DEF T
<1>6. 0..Len(seq) \subseteq T
  BY <1>3, <1>4, <1>5, BoundedInduction
<1>7. Len(seq) \in T /\ Len(seq) >= j
  BY <1>3, <1>6
<1> QED BY <1>1, <1>2, <1>7 DEF T

\* An argument is added to a stage.
LEMMA WordRead ==
  ASSUME NEW tokens \in Words, NEW i \in 1..Len(tokens), NEW j \in i + 1..Len(tokens),
         StageSound(tokens, i, j), ~IsOperator(tokens[j])
  PROVE  /\ StageSound(tokens, i, j + 1)
         /\ Chosen(tokens, WordsIn(tokens, i..(j + 1) - 1))
              = Append(Chosen(tokens, WordsIn(tokens, i..j - 1)), tokens[j])
         /\ \A o, f : FileIs(tokens, i, j, o, f) => FileIs(tokens, i, j + 1, o, f)
<1>1. tokens \in Toks /\ Len(tokens) \in Nat /\ tokens \in Seq(Seq(Char))
  BY LenProperties DEF Words, Toks
<1>2. \A m \in i..(j + 1) - 1 : m \in i..j - 1 \/ m = j
  BY <1>1
<1>3. \A m \in i..j - 1 : m \in i..(j + 1) - 1 /\ m \in 1..Len(tokens)
  BY <1>1
<1>4. \A ops : ~At(tokens, j, ops)
  BY <1>1, AtProperties
<1>5. ~IsFile(tokens, j)
  <2>1. j - 1 \in i..j - 1 /\ ~((j - 1) + 1 < j)
    BY <1>1
  <2>2. ~At(tokens, j - 1, {"<", ">"})
    BY <2>1 DEF StageSound
  <2> QED BY <2>2 DEF IsFile
<1>6. \A m \in i..j - 1 : At(tokens, m, {"<", ">"}) => tokens[m] # tokens[j]
  <2> SUFFICES ASSUME NEW m \in i..j - 1, At(tokens, m, {"<", ">"})
               PROVE  tokens[m] # tokens[j]
    OBVIOUS
  <2>1. m \in Int
    OBVIOUS
  <2> QED BY <1>1, <2>1, AtProperties
<1>7. StageSound(tokens, i, j + 1)
  <2>1. ASSUME NEW m \in i..(j + 1) - 1
        PROVE  /\ ~At(tokens, m, {"|"})
               /\ At(tokens, m, {"&"}) => IsFile(tokens, m)
               /\ At(tokens, m, {"<", ">"}) => m + 1 < j + 1 /\ NamesFile(tokens, m + 1)
    <3>1. CASE m \in i..j - 1
      <4>1. m + 1 < j => m + 1 < j + 1
        BY <1>1
      <4> QED BY <3>1, <4>1 DEF StageSound
    <3> QED BY <1>2, <1>4, <3>1
  <2>2. ASSUME NEW m \in i..(j + 1) - 1, NEW k \in m + 1..(j + 1) - 1, At(tokens, m, {"<", ">"})
        PROVE  tokens[m] # tokens[k]
    <3>1. m \in i..j - 1
      BY <1>2, <1>4, <2>2
    <3>2. k \in m + 1..j - 1 \/ k = j
      BY <1>1
    <3>3. CASE k \in m + 1..j - 1
      BY <2>2, <3>1, <3>3 DEF StageSound
    <3> QED BY <1>6, <2>2, <3>1, <3>2, <3>3
  <2> QED BY <2>1, <2>2 DEF StageSound
<1>8. Chosen(tokens, WordsIn(tokens, i..(j + 1) - 1))
        = Append(Chosen(tokens, WordsIn(tokens, i..j - 1)), tokens[j])
  <2> DEFINE S == WordsIn(tokens, i..j - 1)
  <2>1. WordsIn(tokens, i..(j + 1) - 1) = S \cup {j}
    <3>1. j \in i..(j + 1) - 1
      BY <1>1
    <3> QED BY <1>2, <1>3, <1>5, <3>1 DEF WordsIn
  <2>2. \A m \in S : m < j
    BY <1>1 DEF WordsIn
  <2>3. j \in 1..Len(tokens)
    BY <1>1
  <2> HIDE DEF S
  <2>4. Chosen(tokens, S \cup {j}) = Append(Chosen(tokens, S), tokens[j])
    BY <1>1, <2>2, <2>3, ChosenMore
  <2> QED BY <2>1, <2>4 DEF S
<1>9. ASSUME NEW o, NEW f, FileIs(tokens, i, j, o, f)
      PROVE  FileIs(tokens, i, j + 1, o, f)
  <2>1. \A m \in i..j - 1 : m + 1 < j => m + 1 < j + 1
    BY <1>1
  <2> QED BY <1>2, <1>3, <1>4, <1>9, <2>1 DEF FileIs
<1> QED BY <1>7, <1>8, <1>9

\* The first word of a stage.
LEMMA FirstRead ==
  ASSUME NEW tokens \in Words, NEW i \in 1..Len(tokens), ~IsOperator(tokens[i]),
         ~IsFile(tokens, i)
  PROVE  StageRead(tokens, i, FirstWord(tokens, i))
<1> DEFINE c == FirstWord(tokens, i)
<1>1. tokens \in Toks /\ tokens \in Seq(Seq(Char)) /\ Len(tokens) \in Nat
  BY LenProperties DEF Words, Toks
<1>2. c.next = i + 1 /\ c.args = <<tokens[i]>> /\ c.in_file = NoFile /\ c.out_file = NoFile
  BY DEF FirstWord
<1>3. i < i + 1 /\ i + 1 <= Len(tokens) + 1 /\ i..(i + 1) - 1 = {i} /\ i + 1..(i + 1) - 1 = {}
  BY <1>1
<1>4. \A ops : ~At(tokens, i, ops)
  BY <1>1, AtProperties
<1>5. StageSound(tokens, i, i + 1)
  BY <1>3, <1>4 DEF StageSound
<1>6. Chosen(tokens, WordsIn(tokens, {i})) = <<tokens[i]>>
  <2>1. WordsIn(tokens, {i}) = {} \cup {i}
    BY DEF WordsIn
  <2>2. Chosen(tokens, {} \cup {i}) = Append(Chosen(tokens, {}), tokens[i])
    BY <1>1, ChosenMore
  <2>3. Chosen(tokens, {}) = << >>
    BY <1>1, ChosenNone
  <2>4. Append(<< >>, tokens[i]) = <<tokens[i]>>
    OBVIOUS
  <2> QED BY <2>1, <2>2, <2>3, <2>4
<1>7. \A op : FileIs(tokens, i, i + 1, op, NoFile)
  BY <1>3, <1>4 DEF FileIs
<1> HIDE DEF c
<1> QED BY <1>2, <1>3, <1>5, <1>6, <1>7 DEF StageRead, c

\* The loop is over at the end of the stage.
LEMMA ArgumentOver ==
  ASSUME NEW tokens \in Toks, NEW c \in StageStates, StageOver(tokens, c.next)
  PROVE  Argument(tokens, c) = c
<1> DEFINE Stop == \/ c.err # "PARSER_SUCCESS" \/ c.next > Len(tokens)
                   \/ At(tokens, c.next, {"|", "&"})
           Out == c.err = "PARSER_SUCCESS" /\ At(tokens, c.next, {">"})
           In == c.err = "PARSER_SUCCESS" /\ At(tokens, c.next, {"<"})
<1>1. c.next \in Int /\ Len(tokens) \in Nat
  BY LenProperties DEF StageStates, Toks
<1>2. Stop /\ ~Out /\ ~In
  BY <1>1, AtProperties, AtOne DEF StageOver
<1> HIDE DEF Stop, Out, In
<1> QED BY <1>2 DEF Argument, Stop, Out, In

\* One turn of the loop reads on, or there is nothing more to read, or the line is not
\* in the language.
LEMMA ArgumentReads ==
  ASSUME NEW tokens \in Words, NEW i \in 1..Len(tokens), NEW c \in StageStates,
         c.err = "PARSER_SUCCESS", StageRead(tokens, i, c)
  PROVE  LET a == Argument(tokens, c)
         IN  /\ a.err = "PARSER_SUCCESS" =>
                  /\ StageRead(tokens, i, a)
                  /\ (a = c /\ StageOver(tokens, c.next)) \/ a.next > c.next
             /\ a.err # "PARSER_SUCCESS" => ~Grammatical(tokens)
<1> DEFINE j == c.next
           a == Argument(tokens, c)
           Error(e) == [c EXCEPT !.err = e]
           word == [c EXCEPT !.args = Append(@, tokens[j]), !.next = j + 1]
           toOut == [c EXCEPT !.out_file = tokens[j + 1], !.next = j + 2]
           toIn == [c EXCEPT !.in_file = tokens[j + 1], !.next = j + 2]
           out == IF c.out_file # NoFile THEN Error("PARSER_DUPLICATE_OUT_REDIR")
                  ELSE IF ~NamesFile(tokens, j + 1) THEN Error("PARSER_NO_OUT_FILE")
                  ELSE toOut
           in == IF c.in_file # NoFile THEN Error("PARSER_DUPLICATE_IN_REDIR")
                 ELSE IF ~NamesFile(tokens, j + 1) THEN Error("PARSER_NO_IN_FILE")
                 ELSE toIn
           Stop == c.err # "PARSER_SUCCESS" \/ j > Len(tokens) \/ At(tokens, j, {"|", "&"})
           Out == c.err = "PARSER_SUCCESS" /\ At(tokens, j, {">"})
           In == c.err = "PARSER_SUCCESS" /\ At(tokens, j, {"<"})
           Done(r) == /\ r.err = "PARSER_SUCCESS" =>
                           /\ StageRead(tokens, i, r)
                           /\ (r = c /\ StageOver(tokens, j)) \/ r.next > j
                      /\ r.err # "PARSER_SUCCESS" => ~Grammatical(tokens)
<1>1. /\ tokens \in Toks /\ Len(tokens) \in Nat /\ DOMAIN tokens = 1..Len(tokens)
      /\ j \in Nat /\ i < j /\ j <= Len(tokens) + 1
  BY LenProperties DEF Words, Toks, StageStates, StageRead
<1>2. a = CASE Stop -> c [] Out -> out [] In -> in [] OTHER -> word
  BY DEF Argument
<1>3. /\ StageSound(tokens, i, j)
      /\ c.args = Chosen(tokens, WordsIn(tokens, i..j - 1))
      /\ FileIs(tokens, i, j, "<", c.in_file)
      /\ FileIs(tokens, i, j, ">", c.out_file)
  BY DEF StageRead
<1>4. Stop => Done(c)
  BY DEF StageOver
<1>5. ASSUME NEW op \in {"<", ">"}, NEW f, FileIs(tokens, i, j, op, f), f # NoFile,
             At(tokens, j, {op})
      PROVE  ~Grammatical(tokens)
  <2>1. PICK m \in i..j - 1 : At(tokens, m, {op})
    BY <1>5 DEF FileIs
  <2>2. /\ m \in Int /\ m \in 1..Len(tokens) /\ j \in 1..Len(tokens) /\ j \in m + 1..Len(tokens)
    <3>1. j \in Int
      BY <1>1
    <3>2. j \in 1..Len(tokens)
      BY <1>1, <1>5, <3>1, AtProperties
    <3> QED BY <1>1, <3>2
  <2>3. tokens[m] = tokens[j]
    <3>1. j \in Int
      BY <1>1
    <3> QED BY <1>1, <1>5, <2>1, <2>2, <3>1, AtEqual
  <2>4. At(tokens, m, {"<", ">"})
    BY <1>1, <2>1, <2>2, AtProperties
  <2>5. \A k \in Pipes(tokens) : ~(m < k /\ k < j)
    <3>1. \A k \in 1..Len(tokens) : m < k /\ k < j => k \in i..j - 1
      BY <1>1, <2>1
    <3> QED BY <1>1, <1>3, <3>1 DEF Pipes, StageSound
  <2> QED BY <1>1, <2>2, <2>3, <2>4, <2>5 DEF Grammatical
<1>6. ASSUME At(tokens, j, {"<"}) \/ At(tokens, j, {">"}), ~NamesFile(tokens, j + 1)
      PROVE  ~Grammatical(tokens)
  <2>1. j \in 1..Len(tokens) /\ At(tokens, j, {"<", ">"})
    BY <1>1, <1>6, AtProperties
  <2> QED BY <1>1, <1>6, <2>1 DEF Grammatical
<1>7. \A e \in ParseError \ {"PARSER_SUCCESS"} : Error(e).err # "PARSER_SUCCESS"
  BY DEF StageStates
<1>8. ASSUME Out
      PROVE  Done(out)
  <2>1. CASE c.out_file # NoFile
    <3>1. out = Error("PARSER_DUPLICATE_OUT_REDIR")
      BY <2>1
    <3>2. out.err # "PARSER_SUCCESS"
      BY <1>7, <3>1 DEF ParseError
    <3>3. ~Grammatical(tokens)
      BY <1>3, <1>5, <1>8, <2>1
    <3> QED BY <3>2, <3>3
  <2>2. CASE c.out_file = NoFile /\ ~NamesFile(tokens, j + 1)
    <3>1. out = Error("PARSER_NO_OUT_FILE")
      BY <2>2
    <3>2. out.err # "PARSER_SUCCESS"
      BY <1>7, <3>1 DEF ParseError
    <3>3. ~Grammatical(tokens)
      BY <1>6, <1>8, <2>2
    <3> QED BY <3>2, <3>3
  <2>3. CASE c.out_file = NoFile /\ NamesFile(tokens, j + 1)
    <3>1. out = toOut
      BY <2>3
    <3>2. /\ out.err = "PARSER_SUCCESS" /\ out.next = j + 2 /\ out.args = c.args
          /\ out.in_file = c.in_file /\ out.out_file = tokens[j + 1]
      BY <3>1 DEF StageStates
    <3>3. j \in i + 1..Len(tokens)
      BY <1>1, <1>8, AtProperties
    <3>4. /\ j + 2 <= Len(tokens) + 1
          /\ StageSound(tokens, i, j + 2)
          /\ WordsIn(tokens, i..(j + 2) - 1) = WordsIn(tokens, i..j - 1)
          /\ FileIs(tokens, i, j + 2, ">", tokens[j + 1])
          /\ \A o \in {"<", ">"} \ {">"} :
               \A f : FileIs(tokens, i, j, o, f) => FileIs(tokens, i, j + 2, o, f)
      BY <1>3, <1>8, <2>3, <3>3, RedirectRead
    <3>5. FileIs(tokens, i, j + 2, "<", c.in_file)
      BY <1>3, <3>4
    <3>6. i < j + 2 /\ j + 2 > j
      BY <1>1
    <3> HIDE DEF out
    <3>7. StageRead(tokens, i, out)
      BY <1>3, <3>2, <3>4, <3>5, <3>6 DEF StageRead
    <3> QED BY <3>2, <3>6, <3>7
  <2> QED BY <2>1, <2>2, <2>3
<1>9. ASSUME In
      PROVE  Done(in)
  <2>1. CASE c.in_file # NoFile
    <3>1. in = Error("PARSER_DUPLICATE_IN_REDIR")
      BY <2>1
    <3>2. in.err # "PARSER_SUCCESS"
      BY <1>7, <3>1 DEF ParseError
    <3>3. ~Grammatical(tokens)
      BY <1>3, <1>5, <1>9, <2>1
    <3> QED BY <3>2, <3>3
  <2>2. CASE c.in_file = NoFile /\ ~NamesFile(tokens, j + 1)
    <3>1. in = Error("PARSER_NO_IN_FILE")
      BY <2>2
    <3>2. in.err # "PARSER_SUCCESS"
      BY <1>7, <3>1 DEF ParseError
    <3>3. ~Grammatical(tokens)
      BY <1>6, <1>9, <2>2
    <3> QED BY <3>2, <3>3
  <2>3. CASE c.in_file = NoFile /\ NamesFile(tokens, j + 1)
    <3>1. in = toIn
      BY <2>3
    <3>2. /\ in.err = "PARSER_SUCCESS" /\ in.next = j + 2 /\ in.args = c.args
          /\ in.out_file = c.out_file /\ in.in_file = tokens[j + 1]
      BY <3>1 DEF StageStates
    <3>3. j \in i + 1..Len(tokens)
      BY <1>1, <1>9, AtProperties
    <3>4. /\ j + 2 <= Len(tokens) + 1
          /\ StageSound(tokens, i, j + 2)
          /\ WordsIn(tokens, i..(j + 2) - 1) = WordsIn(tokens, i..j - 1)
          /\ FileIs(tokens, i, j + 2, "<", tokens[j + 1])
          /\ \A o \in {"<", ">"} \ {"<"} :
               \A f : FileIs(tokens, i, j, o, f) => FileIs(tokens, i, j + 2, o, f)
      BY <1>3, <1>9, <2>3, <3>3, RedirectRead
    <3>5. FileIs(tokens, i, j + 2, ">", c.out_file)
      BY <1>3, <3>4
    <3>6. i < j + 2 /\ j + 2 > j
      BY <1>1
    <3> HIDE DEF in
    <3>7. StageRead(tokens, i, in)
      BY <1>3, <3>2, <3>4, <3>5, <3>6 DEF StageRead
    <3> QED BY <3>2, <3>6, <3>7
  <2> QED BY <2>1, <2>2, <2>3
<1>10. ASSUME ~Stop, ~Out, ~In
       PROVE  Done(word)
  <2>1. j \in i + 1..Len(tokens) /\ j \in 1..Len(tokens)
    BY <1>1, <1>10
  <2>2. ~IsOperator(tokens[j])
    BY <1>1, <1>10, <2>1, AtProperties
  <2>3. /\ StageSound(tokens, i, j + 1)
        /\ Chosen(tokens, WordsIn(tokens, i..(j + 1) - 1))
             = Append(Chosen(tokens, WordsIn(tokens, i..j - 1)), tokens[j])
        /\ \A o, f : FileIs(tokens, i, j, o, f) => FileIs(tokens, i, j + 1, o, f)
    BY <1>3, <2>1, <2>2, WordRead
  <2>4. /\ word.err = "PARSER_SUCCESS" /\ word.next = j + 1 /\ word.args = Append(c.args, tokens[j])
        /\ word.in_file = c.in_file /\ word.out_file = c.out_file
    BY DEF StageStates
  <2>5. i < j + 1 /\ j + 1 > j /\ j + 1 <= Len(tokens) + 1
    BY <1>1, <2>1
  <2> HIDE DEF word
  <2>6. StageRead(tokens, i, word)
    BY <1>3, <2>3, <2>4, <2>5 DEF StageRead
  <2> QED BY <2>4, <2>5, <2>6
<1> HIDE DEF a, out, in, word, Stop, Out, In, Done
<1>11. (Stop /\ a = c) \/ (Out /\ a = out) \/ (In /\ a = in) \/ (~Stop /\ ~Out /\ ~In /\ a = word)
  BY <1>2
<1>12. Done(a)
  BY <1>4, <1>8, <1>9, <1>10, <1>11
<1> QED BY <1>12 DEF Done, a

\* A stage begins at the first token and behind a pipe.
Begins(tokens, i) == i = 1 \/ At(tokens, i - 1, {"|"})

\* parse_command_helper up to its recursive call accepts exactly what a stage may be.
LEMMA StageReads ==
  ASSUME NEW tokens \in Words, NEW i \in Nat \ {0}, Begins(tokens, i), tokens # << >>
  PROVE  LET s == Stage(tokens, i)
         IN  /\ s.err = "PARSER_SUCCESS" =>
                  i \in 1..Len(tokens) /\ s \in StageStates /\ StageRead(tokens, i, s)
                  /\ StageOver(tokens, s.next)
             /\ s.err # "PARSER_SUCCESS" => ~Grammatical(tokens)
<1> DEFINE s == Stage(tokens, i)
           n == Len(tokens)
<1>1. tokens \in Toks /\ n \in Nat /\ DOMAIN tokens = 1..n
  BY LenProperties DEF Words, Toks
<1>2. ASSUME i > n \/ IsOperator(tokens[i])
      PROVE  ~Grammatical(tokens)
  <2>1. i \in {1} \cup {k + 1 : k \in Pipes(tokens)}
    <3>1. ASSUME At(tokens, i - 1, {"|"})
          PROVE  i - 1 \in Pipes(tokens) /\ i = (i - 1) + 1
      <4>1. i - 1 \in 1..n
        BY <1>1, <3>1, AtProperties
      <4> QED BY <1>1, <3>1, <4>1 DEF Pipes
    <3> QED BY <3>1 DEF Begins
  <2>2. ~(i <= n /\ ~IsOperator(tokens[i]))
    BY <1>1, <1>2
  <2> QED BY <2>1, <2>2 DEF Grammatical
<1>3. CASE i > n
  <2>1. s = NoWord(i)
    BY <1>3 DEF Stage, NoWord
  <2>2. s.err = "PARSER_MISSING_COMMAND"
    BY <2>1 DEF NoWord
  <2> QED BY <1>2, <1>3, <2>2
<1>4. CASE ~(i > n)
  <2>1. i \in 1..n /\ (At(tokens, i, Operator) <=> IsOperator(tokens[i]))
    BY <1>1, <1>4, AtProperties
  <2>2. PICK g : /\ StageUpTo(g, tokens, i)
                 /\ s = IF At(tokens, i, Operator) THEN NoWord(i) ELSE g[n]
    BY <1>1, <2>1, StageTable
  <2> HIDE DEF s
  <2>3. CASE At(tokens, i, Operator)
    <3>1. s.err = "PARSER_MISSING_COMMAND"
      BY <2>2, <2>3 DEF NoWord
    <3> QED BY <1>2, <2>1, <2>3, <3>1 DEF s
  <2>4. CASE ~At(tokens, i, Operator)
    <3>1. ~IsFile(tokens, i)
      <4>1. i = 1 => ~(i - 1 \in 1..n)
        OBVIOUS
      <4>2. i - 1 \in Int
        OBVIOUS
      <4> QED BY <1>1, <4>1, <4>2, AtProperties, AtOne DEF IsFile, Begins
    <3>2. StageRead(tokens, i, FirstWord(tokens, i))
      BY <2>1, <2>4, <3>1, FirstRead
    <3> DEFINE Fine(k) == /\ g[k].err = "PARSER_SUCCESS" =>
                               /\ StageRead(tokens, i, g[k])
                               /\ StageOver(tokens, g[k].next) \/ g[k].next > i + k
                          /\ g[k].err # "PARSER_SUCCESS" => ~Grammatical(tokens)
               T == {k \in 0..n : Fine(k)}
    <3>3. /\ g[0] = FirstWord(tokens, i) /\ \A k \in 1..n : g[k] = Argument(tokens, g[k - 1])
          /\ \A k \in 0..n : g[k] \in StageStates
      BY <2>2 DEF StageUpTo
    <3>4. 0 \in T
      <4>1. g[0].next = i + 1 /\ i + 1 > i + 0 /\ g[0].err = "PARSER_SUCCESS" /\ 0 \in 0..n
        BY <1>1, <3>3 DEF FirstWord
      <4> QED BY <3>2, <3>3, <4>1
    <3>5. ASSUME NEW k \in 1..n, k - 1 \in T
          PROVE  k \in T
      <4> DEFINE c == g[k - 1]
                 a == Argument(tokens, c)
      <4>1. k - 1 \in 0..n /\ k \in 0..n /\ c \in StageStates /\ a \in StageStates /\ g[k] = a
        BY <1>1, <3>3
      <4>2. Fine(k - 1)
        BY <3>5
      <4>3. c.next \in Nat /\ a.next \in Nat
        BY <4>1 DEF StageStates
      <4> HIDE DEF c
      <4>4. CASE c.err # "PARSER_SUCCESS"
        <5>1. a = c
          BY <4>4 DEF Argument
        <5> QED BY <4>1, <4>2, <4>4, <5>1 DEF c
      <4>5. CASE c.err = "PARSER_SUCCESS"
        <5>1. StageRead(tokens, i, c) /\ (StageOver(tokens, c.next) \/ c.next > i + (k - 1))
          BY <4>2, <4>5 DEF c
        <5>2. /\ a.err = "PARSER_SUCCESS" =>
                   /\ StageRead(tokens, i, a)
                   /\ (a = c /\ StageOver(tokens, c.next)) \/ a.next > c.next
              /\ a.err # "PARSER_SUCCESS" => ~Grammatical(tokens)
          BY <2>1, <4>1, <4>5, <5>1, ArgumentReads
        <5> HIDE DEF a
        <5>3. ASSUME StageOver(tokens, c.next)
              PROVE  a = c
          BY <1>1, <4>1, <5>3, ArgumentOver DEF a
        <5>4. a.err = "PARSER_SUCCESS" => StageOver(tokens, a.next) \/ a.next > i + k
          <6>1. CASE StageOver(tokens, c.next)
            BY <5>3, <6>1
          <6>2. CASE ~StageOver(tokens, c.next)
            <7>1. a.err = "PARSER_SUCCESS" => a.next > c.next /\ c.next > i + (k - 1)
              BY <5>1, <5>2, <6>2
            <7> QED BY <4>3, <7>1 DEF a
          <6> QED BY <6>1, <6>2
        <5> QED BY <4>1, <5>2, <5>4
      <4> QED BY <4>4, <4>5
    <3> HIDE DEF T
    <3>6. 0..n \subseteq T
      BY <1>1, <3>4, <3>5, BoundedInduction
    <3>7. Fine(n) /\ g[n] \in StageStates
      BY <1>1, <3>3, <3>6 DEF T
    <3>8. s = g[n] /\ s.next \in Nat
      BY <2>2, <2>4, <3>7 DEF StageStates
    <3>9. s.next > i + n => StageOver(tokens, s.next)
      BY <1>1, <3>8 DEF StageOver
    <3> QED BY <2>1, <3>7, <3>8, <3>9 DEF s
  <2> QED BY <2>3, <2>4
<1> QED BY <1>3, <1>4

-----------------------------------------------------------------------------
(* The calls of parse_command_helper, one stage each.                      *)

PipesBefore(tokens, j) == {x \in Pipes(tokens) : x < j}
Here(tokens, k, hi) ==
  {m \in 1..hi - 1 : ~At(tokens, m, {"|"}) /\ Cardinality(PipesBefore(tokens, m)) = k - 1}

OnlyFile(tokens, S) == IF S = {} THEN NoFile ELSE tokens[CHOOSE i \in S : TRUE]
FilesIn(tokens, S, op) == {m \in S : At(tokens, m - 1, {op})}
StageIn(tokens, S) == [args |-> Chosen(tokens, WordsIn(tokens, S)),
                       in_file |-> OnlyFile(tokens, FilesIn(tokens, S, "<")),
                       out_file |-> OnlyFile(tokens, FilesIn(tokens, S, ">"))]
StageRecord(s) == [args |-> s.args, in_file |-> s.in_file, out_file |-> s.out_file]

\* The tokens before j are stages in order, and these are their records.
CallsRead(tokens, j, stages) ==
  /\ j <= Len(tokens) + 1
  /\ j # 0 => 1 < j /\ ~IsOperator(tokens[1]) /\ StageOver(tokens, j)
  /\ Len(stages) = IF j = 0 THEN 0 ELSE Cardinality(PipesBefore(tokens, j)) + 1
  /\ \A m \in 1..j - 1 :
       /\ At(tokens, m, {"&"}) => IsFile(tokens, m)
       /\ At(tokens, m, {"<", ">"}) => m + 1 < j /\ NamesFile(tokens, m + 1)
       /\ At(tokens, m, {"|"}) => m + 1 < j /\ ~IsOperator(tokens[m + 1])
       /\ \A k \in m + 1..j - 1 : At(tokens, m, {"<", ">"}) /\ tokens[m] = tokens[k]
                                   => \E x \in m + 1..k - 1 : At(tokens, x, {"|"})
  /\ \A k \in 1..Len(stages) : stages[k] = StageIn(tokens, Here(tokens, k, j))

LEMMA PipesCounted ==
  ASSUME NEW tokens \in Toks
  PROVE  /\ PipesBefore(tokens, 1) = {} /\ Cardinality(PipesBefore(tokens, 1)) = 0
         /\ \A j \in Nat : /\ IsFiniteSet(PipesBefore(tokens, j))
                           /\ Cardinality(PipesBefore(tokens, j)) \in Nat
         /\ \A j \in Nat : At(tokens, j, {"|"}) =>
              Cardinality(PipesBefore(tokens, j + 1)) = Cardinality(PipesBefore(tokens, j)) + 1
         /\ \A i, j \in Nat : i <= j =>
              Cardinality(PipesBefore(tokens, i)) <= Cardinality(PipesBefore(tokens, j))
         /\ \A i, j \in Nat : i <= j /\ (\A m \in i..j - 1 : ~At(tokens, m, {"|"})) =>
              PipesBefore(tokens, i) = PipesBefore(tokens, j)
<1>1. Len(tokens) \in Nat /\ DOMAIN tokens = 1..Len(tokens)
  BY LenProperties DEF Toks
<1>2. Pipes(tokens) = {k \in 1..Len(tokens) : At(tokens, k, {"|"})}
  BY <1>1 DEF Pipes
<1>3. PipesBefore(tokens, 1) = {}
  BY <1>2 DEF PipesBefore
<1>4. ASSUME NEW j \in Nat
      PROVE  IsFiniteSet(PipesBefore(tokens, j)) /\ Cardinality(PipesBefore(tokens, j)) \in Nat
  <2>1. IsFiniteSet(1..Len(tokens))
    BY <1>1, FS_Interval
  <2>2. PipesBefore(tokens, j) \subseteq 1..Len(tokens)
    BY <1>2 DEF PipesBefore
  <2> QED BY <2>1, <2>2, FS_Subset, FS_CardinalityType
<1>5. ASSUME NEW j \in Nat, At(tokens, j, {"|"})
      PROVE  Cardinality(PipesBefore(tokens, j + 1)) = Cardinality(PipesBefore(tokens, j)) + 1
  <2>1. j \in Pipes(tokens)
    BY <1>2, <1>5, AtProperties
  <2>2. PipesBefore(tokens, j + 1) = PipesBefore(tokens, j) \cup {j} /\ j \notin PipesBefore(tokens, j)
    BY <1>2, <2>1 DEF PipesBefore
  <2> QED BY <1>4, <2>2, FS_AddElement
<1>6. ASSUME NEW i \in Nat, NEW j \in Nat, i <= j
      PROVE  Cardinality(PipesBefore(tokens, i)) <= Cardinality(PipesBefore(tokens, j))
  <2>1. PipesBefore(tokens, i) \subseteq PipesBefore(tokens, j)
    BY <1>2, <1>6 DEF PipesBefore
  <2> QED BY <1>4, <2>1, FS_Subset
<1>7. ASSUME NEW i \in Nat, NEW j \in Nat, i <= j, \A m \in i..j - 1 : ~At(tokens, m, {"|"})
      PROVE  PipesBefore(tokens, i) = PipesBefore(tokens, j)
  <2>1. \A x \in Pipes(tokens) : x \in 1..Len(tokens) /\ At(tokens, x, {"|"})
    BY <1>2
  <2>2. \A x \in Pipes(tokens) : x < j => x < i
    <3>1. \A x \in 1..Len(tokens) : x < j /\ ~(x < i) => x \in i..j - 1
      BY <1>1
    <3> QED BY <1>7, <2>1, <3>1
  <2>3. \A x \in Pipes(tokens) : x < i => x < j
    BY <1>1, <1>7, <2>1
  <2> QED BY <2>2, <2>3 DEF PipesBefore
<1>8. Cardinality(PipesBefore(tokens, 1)) = 0
  BY <1>3, FS_EmptySet
<1> QED BY <1>3, <1>4, <1>5, <1>6, <1>7, <1>8

\* The file of a redirection is the only one of its kind.
LEMMA OneFile ==
  ASSUME NEW tokens \in Words, NEW i \in 1..Len(tokens), NEW j \in i..Len(tokens) + 1,
         StageSound(tokens, i, j), ~IsFile(tokens, i), NEW op \in {"<", ">"}, NEW f,
         FileIs(tokens, i, j, op, f)
  PROVE  f = OnlyFile(tokens, FilesIn(tokens, i..j - 1, op))
<1> DEFINE F == FilesIn(tokens, i..j - 1, op)
<1>1. tokens \in Toks /\ Len(tokens) \in Nat
  BY LenProperties DEF Words, Toks
<1>2. ASSUME NEW x \in F
      PROVE  x - 1 \in i..j - 1 /\ At(tokens, x - 1, {op})
  <2>1. x \in i..j - 1 /\ At(tokens, x - 1, {op}) /\ x - 1 \in Int
    BY DEF FilesIn
  <2>2. x # i
    <3>1. At(tokens, x - 1, {"<", ">"})
      BY <1>1, <2>1, AtProperties
    <3> QED BY <3>1 DEF IsFile
  <2> QED BY <1>1, <2>1, <2>2
<1>3. CASE f = NoFile /\ \A m \in i..j - 1 : ~At(tokens, m, {op})
  <2>1. F = {}
    BY <1>2, <1>3
  <2> QED BY <1>3, <2>1 DEF OnlyFile
<1>4. ASSUME NEW m \in i..j - 1, At(tokens, m, {op}), m + 1 < j, f = tokens[m + 1]
      PROVE  f = OnlyFile(tokens, F)
  <2>1. m + 1 \in F
    <3>1. (m + 1) - 1 = m /\ m + 1 \in i..j - 1
      BY <1>1, <1>4
    <3> QED BY <1>4, <3>1 DEF FilesIn
  <2>2. ASSUME NEW x \in F
        PROVE  x = m + 1
    <3>1. x - 1 \in i..j - 1 /\ At(tokens, x - 1, {op}) /\ x - 1 \in Int /\ m \in Int /\ x \in Int
      <4>1. x \in i..j - 1
        BY DEF FilesIn
      <4>2. x \in Int /\ m \in Int /\ x - 1 \in Int
        BY <1>1, <4>1
      <4> QED BY <1>2, <4>2
    <3>2. tokens[x - 1] = tokens[m] /\ At(tokens, m, {"<", ">"}) /\ At(tokens, x - 1, {"<", ">"})
      BY <1>1, <1>4, <3>1, AtEqual, AtProperties
    <3>3. ~(m < x - 1)
      <4>1. m < x - 1 => x - 1 \in m + 1..j - 1
        BY <1>1, <3>1
      <4> QED BY <3>2, <4>1 DEF StageSound
    <3>4. ~(x - 1 < m)
      <4>1. x - 1 < m => m \in (x - 1) + 1..j - 1
        BY <1>1, <3>1
      <4> QED BY <3>1, <3>2, <4>1 DEF StageSound
    <3> QED BY <3>1, <3>3, <3>4
  <2>3. F = {m + 1}
    BY <2>1, <2>2
  <2> HIDE DEF F
  <2>4. (CHOOSE x \in F : TRUE) = m + 1 /\ F # {}
    BY <2>3
  <2> QED BY <1>4, <2>4 DEF OnlyFile
<1> QED BY <1>3, <1>4 DEF FileIs

LEMMA StageRecorded ==
  ASSUME NEW tokens \in Words, NEW i \in 1..Len(tokens), NEW s \in StageStates,
         StageRead(tokens, i, s), ~IsFile(tokens, i)
  PROVE  StageRecord(s) = StageIn(tokens, i..s.next - 1)
<1>1. s.next \in i..Len(tokens) + 1
  <2>1. Len(tokens) \in Nat /\ s.next \in Nat
    BY LenProperties DEF Words, Toks, StageStates
  <2> QED BY <2>1 DEF StageRead
<1>2. s.in_file = OnlyFile(tokens, FilesIn(tokens, i..s.next - 1, "<"))
  BY <1>1, OneFile DEF StageRead
<1>3. s.out_file = OnlyFile(tokens, FilesIn(tokens, i..s.next - 1, ">"))
  BY <1>1, OneFile DEF StageRead
<1>4. s.args = Chosen(tokens, WordsIn(tokens, i..s.next - 1))
  BY DEF StageRead
<1> QED BY <1>2, <1>3, <1>4 DEF StageRecord, StageIn

\* A stage is added.
LEMMA StageAdded ==
  ASSUME NEW tokens \in Words, NEW j \in Nat, j = 0 \/ At(tokens, j, {"|"}),
         NEW stages \in Seq(Parts), CallsRead(tokens, j, stages), j + 1 \in 1..Len(tokens),
         NEW s \in StageStates, StageRead(tokens, j + 1, s), StageOver(tokens, s.next)
  PROVE  CallsRead(tokens, s.next, Append(stages, StageRecord(s)))
<1> DEFINE h == s.next
           K == Len(stages)
           i == j + 1
           more == Append(stages, StageRecord(s))
<1>1. /\ tokens \in Toks /\ Len(tokens) \in Nat /\ K \in Nat /\ h \in Nat
      /\ i < h /\ h <= Len(tokens) + 1 /\ StageSound(tokens, i, h)
  BY LenProperties DEF Words, Toks, StageStates, StageRead
<1>2. /\ Len(more) = K + 1 /\ more[K + 1] = StageRecord(s)
      /\ \A k \in 1..K : more[k] = stages[k]
  <2> DEFINE r == StageRecord(s)
  <2>1. r \in Parts
    BY DEF StageRecord, StageStates, Parts
  <2> HIDE DEF r
  <2> QED BY <2>1, AppendProperties DEF r
<1>3. ~IsFile(tokens, i)
  <2>1. i - 1 = j
    OBVIOUS
  <2>2. ~At(tokens, j, {"<"}) /\ ~At(tokens, j, {">"})
    <3>1. ~(0 \in 1..Len(tokens))
      OBVIOUS
    <3> QED BY <1>1, <3>1, AtProperties, AtOne
  <2> QED BY <1>1, <2>1, <2>2, AtProperties DEF IsFile
<1>4. StageRecord(s) = StageIn(tokens, i..h - 1)
  BY <1>3, StageRecorded
<1>5. \A m \in 1..h - 1 : m \in 1..j - 1 \/ (j # 0 /\ m = j) \/ m \in i..h - 1
  BY <1>1
<1>6. /\ \A m \in 1..j - 1 : m \in 1..h - 1 /\ m + 1 < h /\ m \in Int /\ m < j
      /\ \A m \in i..h - 1 : m \in 1..h - 1 /\ m \in Int
      /\ j # 0 => j \in 1..h - 1
  BY <1>1
<1>7. \A m \in i..h - 1 : ~At(tokens, m, {"|"})
  BY <1>1 DEF StageSound
<1>8. Cardinality(PipesBefore(tokens, i)) = K
  <2>1. CASE j = 0
    BY <1>1, <2>1, PipesCounted DEF CallsRead
  <2>2. CASE j # 0
    BY <1>1, <2>2, PipesCounted DEF CallsRead
  <2> QED BY <2>1, <2>2
<1>9. \A m \in i..h : Cardinality(PipesBefore(tokens, m)) = K
  <2> SUFFICES ASSUME NEW m \in i..h
               PROVE  PipesBefore(tokens, i) = PipesBefore(tokens, m)
    BY <1>8
  <2>1. i \in Nat /\ m \in Nat /\ i <= m /\ \A x \in i..m - 1 : x \in i..h - 1
    BY <1>1
  <2> HIDE DEF i, h
  <2> QED BY <1>1, <1>7, <2>1, PipesCounted
<1>10. \A m \in 1..j - 1 : Cardinality(PipesBefore(tokens, m)) < K
  <2> SUFFICES ASSUME NEW m \in 1..j - 1
               PROVE  Cardinality(PipesBefore(tokens, m)) < K
    OBVIOUS
  <2>1. m \in Nat /\ m <= j /\ j # 0
    OBVIOUS
  <2>2. /\ Cardinality(PipesBefore(tokens, m)) <= Cardinality(PipesBefore(tokens, j))
        /\ Cardinality(PipesBefore(tokens, m)) \in Nat /\ Cardinality(PipesBefore(tokens, j)) \in Nat
    BY <1>1, <2>1, PipesCounted
  <2>3. K = Cardinality(PipesBefore(tokens, j)) + 1
    BY <2>1 DEF CallsRead
  <2> QED BY <2>2, <2>3
<1>11. ASSUME NEW k \in 1..K
       PROVE  Here(tokens, k, h) = Here(tokens, k, j)
  <2>1. \A m \in i..h - 1 : Cardinality(PipesBefore(tokens, m)) # k - 1
    BY <1>1, <1>9
  <2>2. j # 0 => At(tokens, j, {"|"})
    OBVIOUS
  <2> HIDE DEF h, i, K
  <2> QED BY <1>5, <1>6, <2>1, <2>2 DEF Here
<1>12. Here(tokens, K + 1, h) = i..h - 1
  <2>1. (K + 1) - 1 = K
    BY <1>1
  <2>2. \A m \in i..h - 1 : ~At(tokens, m, {"|"}) /\ Cardinality(PipesBefore(tokens, m)) = K
    BY <1>1, <1>7, <1>9
  <2>3. \A m \in 1..j - 1 : Cardinality(PipesBefore(tokens, m)) # K
    BY <1>1, <1>10, PipesCounted
  <2>4. j # 0 => At(tokens, j, {"|"})
    OBVIOUS
  <2> HIDE DEF h, i, K
  <2> QED BY <1>5, <1>6, <2>1, <2>2, <2>3, <2>4 DEF Here
<1>13. \A k \in 1..Len(more) : more[k] = StageIn(tokens, Here(tokens, k, h))
  <2> SUFFICES ASSUME NEW k \in 1..K + 1
               PROVE  more[k] = StageIn(tokens, Here(tokens, k, h))
    BY <1>2
  <2>1. CASE k \in 1..K
    BY <1>2, <1>11, <2>1 DEF CallsRead
  <2>2. CASE k = K + 1
    BY <1>2, <1>4, <1>12, <2>2
  <2> QED BY <1>1, <2>1, <2>2
<1>14. ASSUME NEW m \in 1..h - 1
       PROVE  /\ At(tokens, m, {"&"}) => IsFile(tokens, m)
              /\ At(tokens, m, {"<", ">"}) => m + 1 < h /\ NamesFile(tokens, m + 1)
              /\ At(tokens, m, {"|"}) => m + 1 < h /\ ~IsOperator(tokens[m + 1])
  <2>1. CASE m \in 1..j - 1
    BY <1>6, <2>1 DEF CallsRead
  <2>2. CASE j # 0 /\ m = j
    <3>1. At(tokens, m, {"|"}) /\ ~At(tokens, m, {"&"}) /\ ~At(tokens, m, {"<", ">"})
      BY <1>1, <2>2, AtProperties, AtOne
    <3>2. m + 1 < h /\ ~IsOperator(tokens[m + 1])
      BY <1>1, <2>2 DEF StageSound
    <3> QED BY <3>1, <3>2
  <2>3. CASE m \in i..h - 1
    BY <1>1, <1>7, <2>3 DEF StageSound
  <2> HIDE DEF h, i
  <2> QED BY <1>5, <2>1, <2>2, <2>3
<1>15. ASSUME NEW m \in 1..h - 1, NEW k \in m + 1..h - 1, At(tokens, m, {"<", ">"}),
              tokens[m] = tokens[k]
       PROVE  \E x \in m + 1..k - 1 : At(tokens, x, {"|"})
  <2>1. ~(j # 0 /\ m = j)
    BY <1>1, <1>15, AtProperties, AtOne
  <2>2. ~(j # 0 /\ k = j)
    <3>1. CASE j # 0 /\ k = j
      <4>1. m \in 1..Len(tokens) /\ m \in Int /\ k \in Int /\ At(tokens, k, {"|"})
        BY <1>1, <3>1
      <4>2. At(tokens, m, {"|"})
        BY <1>1, <1>15, <4>1, AtEqual
      <4> QED BY <1>1, <1>15, <4>1, <4>2, AtProperties, AtOne
    <3> QED BY <3>1
  <2>3. CASE m \in i..h - 1
    BY <1>1, <1>15, <2>3 DEF StageSound
  <2>4. CASE m \in 1..j - 1 /\ k \in 1..j - 1
    <3>1. k \in m + 1..j - 1
      BY <2>4
    <3> QED BY <1>15, <2>4, <3>1 DEF CallsRead
  <2>5. CASE m \in 1..j - 1 /\ k \in i..h - 1
    <3>1. j \in m + 1..k - 1 /\ j # 0
      BY <1>1, <2>5
    <3> QED BY <3>1
  <2>6. k \in 1..h - 1
    BY <1>1
  <2> HIDE DEF h, i
  <2> QED BY <1>5, <2>1, <2>2, <2>3, <2>4, <2>5, <2>6
<1>16. 1 < h /\ h # 0 /\ ~IsOperator(tokens[1])
  <2>1. CASE j = 0
    BY <1>1, <2>1 DEF StageSound
  <2>2. CASE j # 0
    BY <1>1, <2>2 DEF CallsRead
  <2> QED BY <1>1, <2>1, <2>2
<1>17. Len(more) = Cardinality(PipesBefore(tokens, h)) + 1
  BY <1>1, <1>2, <1>9
<1> HIDE DEF h, more
<1> QED BY <1>1, <1>13, <1>14, <1>15, <1>16, <1>17 DEF CallsRead, h, more

\* The stages are over.
Ended(tokens, j) == j # 0 /\ ~At(tokens, j, {"|"})

LEMMA CalledReads ==
  ASSUME NEW tokens \in Words, tokens # << >>, NEW p \in CallStates,
         p.err = "PARSER_SUCCESS", CallsRead(tokens, p.next, p.stages)
  PROVE  LET c == Called(tokens, p)
         IN  /\ c.err = "PARSER_SUCCESS" =>
                  /\ CallsRead(tokens, c.next, c.stages)
                  /\ (c = p /\ Ended(tokens, p.next)) \/ c.next > p.next
             /\ c.err # "PARSER_SUCCESS" => ~Grammatical(tokens)
<1> DEFINE c == Called(tokens, p)
           s == Stage(tokens, p.next + 1)
           more == Append(p.stages, StageRecord(s))
<1>1. /\ tokens \in Toks /\ Len(tokens) \in Nat
      /\ p.next \in Nat /\ p.stages \in Seq(Parts)
  BY LenProperties DEF Words, Toks, CallStates
<1>2. c = IF p.err # "PARSER_SUCCESS" \/ ~(p.next = 0 \/ At(tokens, p.next, {"|"})) THEN p
          ELSE [err |-> s.err, next |-> s.next, stages |-> more]
  BY DEF Called, StageRecord
<1> HIDE DEF c, s, more
<1>3. CASE Ended(tokens, p.next)
  <2>1. c = p
    BY <1>2, <1>3 DEF Ended
  <2> QED BY <1>3, <2>1 DEF c
<1>4. CASE ~Ended(tokens, p.next)
  <2>1. p.next = 0 \/ At(tokens, p.next, {"|"})
    BY <1>4 DEF Ended
  <2>2. c.err = s.err /\ c.next = s.next /\ c.stages = more
    BY <1>2, <2>1
  <2>3. Begins(tokens, p.next + 1) /\ p.next + 1 \in Nat \ {0}
    <3>1. (p.next + 1) - 1 = p.next /\ (p.next = 0 => p.next + 1 = 1)
      BY <1>1
    <3> QED BY <1>1, <2>1, <3>1 DEF Begins
  <2>4. /\ s.err = "PARSER_SUCCESS" =>
             p.next + 1 \in 1..Len(tokens) /\ s \in StageStates /\ StageRead(tokens, p.next + 1, s)
             /\ StageOver(tokens, s.next)
        /\ s.err # "PARSER_SUCCESS" => ~Grammatical(tokens)
    BY <2>3, StageReads DEF s
  <2>5. ASSUME s.err = "PARSER_SUCCESS"
        PROVE  CallsRead(tokens, s.next, more) /\ s.next > p.next
    <3>1. CallsRead(tokens, s.next, more)
      BY <1>1, <2>1, <2>4, <2>5, StageAdded DEF more
    <3>2. s.next \in Nat /\ p.next + 1 < s.next
      BY <2>4, <2>5 DEF StageStates, StageRead
    <3> QED BY <1>1, <3>1, <3>2
  <2> QED BY <2>2, <2>4, <2>5 DEF c
<1> QED BY <1>3, <1>4

\* All the stages of a line are read, or it is not in the language.
LEMMA HelperReads ==
  ASSUME NEW tokens \in Words, tokens # << >>
  PROVE  LET p == parse_command_helper(tokens)
         IN  /\ p \in CallStates
             /\ p.err = "PARSER_SUCCESS" =>
                  CallsRead(tokens, p.next, p.stages) /\ Ended(tokens, p.next)
             /\ p.err # "PARSER_SUCCESS" => ~Grammatical(tokens)
<1> DEFINE n == Len(tokens) + 1
           p == parse_command_helper(tokens)
<1>1. tokens \in Toks /\ Len(tokens) \in Nat /\ n \in Nat
  BY LenProperties DEF Words, Toks
<1>2. PICK g : CalledUpTo(g, tokens) /\ p = g[n]
  BY <1>1, CalledTable
<1>3. /\ g[0] = [err |-> "PARSER_SUCCESS", next |-> 0, stages |-> << >>]
      /\ \A k \in 1..n : g[k] = Called(tokens, g[k - 1])
      /\ \A k \in 0..n : g[k] \in CallStates
  BY <1>2 DEF CalledUpTo
<1> DEFINE Fine(k) == /\ g[k].err = "PARSER_SUCCESS" =>
                           /\ CallsRead(tokens, g[k].next, g[k].stages)
                           /\ Ended(tokens, g[k].next) \/ g[k].next >= k
                      /\ g[k].err # "PARSER_SUCCESS" => ~Grammatical(tokens)
           T == {k \in 0..n : Fine(k)}
<1> HIDE DEF n, p
<1>4. 0 \in T
  <2>1. CallsRead(tokens, 0, << >>)
    <3>1. 1..0 - 1 = {} /\ 1..Len(<< >>) = {} /\ Len(<< >>) = 0 /\ 0 <= Len(tokens) + 1
      BY <1>1
    <3> QED BY <3>1 DEF CallsRead
  <2>2. g[0].err = "PARSER_SUCCESS" /\ g[0].next = 0 /\ g[0].stages = << >>
    BY <1>3
  <2>3. 0 \in 0..n /\ 0 >= 0
    BY <1>1
  <2> QED BY <2>1, <2>2, <2>3
<1>5. ASSUME NEW k \in 1..n, k - 1 \in T
      PROVE  k \in T
  <2> DEFINE b == g[k - 1]
             c == Called(tokens, b)
  <2>1. k - 1 \in 0..n /\ k \in 0..n /\ b \in CallStates /\ c \in CallStates /\ g[k] = c
    BY <1>1, <1>3
  <2>2. Fine(k - 1)
    BY <1>5
  <2>3. b.next \in Nat /\ c.next \in Nat
    BY <2>1 DEF CallStates
  <2> HIDE DEF b
  <2>4. CASE b.err # "PARSER_SUCCESS"
    <3>1. c = b
      BY <2>4 DEF Called
    <3> QED BY <2>1, <2>2, <2>4, <3>1 DEF b
  <2>5. CASE b.err = "PARSER_SUCCESS"
    <3>1. CallsRead(tokens, b.next, b.stages) /\ (Ended(tokens, b.next) \/ b.next >= k - 1)
      BY <2>2, <2>5 DEF b
    <3>2. /\ c.err = "PARSER_SUCCESS" =>
               /\ CallsRead(tokens, c.next, c.stages)
               /\ (c = b /\ Ended(tokens, b.next)) \/ c.next > b.next
          /\ c.err # "PARSER_SUCCESS" => ~Grammatical(tokens)
      BY <2>1, <2>5, <3>1, CalledReads
    <3> HIDE DEF c
    <3>3. ASSUME Ended(tokens, b.next)
          PROVE  c = b
      BY <3>3 DEF Ended, Called, c
    <3>4. c.err = "PARSER_SUCCESS" => Ended(tokens, c.next) \/ c.next >= k
      <4>1. CASE Ended(tokens, b.next)
        BY <3>3, <4>1
      <4>2. CASE ~Ended(tokens, b.next)
        <5>1. c.err = "PARSER_SUCCESS" => c.next > b.next /\ b.next >= k - 1
          BY <3>1, <3>2, <4>2
        <5> QED BY <2>3, <5>1
      <4> QED BY <4>1, <4>2
    <3> QED BY <2>1, <3>2, <3>4 DEF c
  <2> QED BY <2>4, <2>5
<1> HIDE DEF T
<1>6. 0..n \subseteq T
  BY <1>1, <1>4, <1>5, BoundedInduction
<1>7. Fine(n) /\ g[n] \in CallStates
  BY <1>1, <1>3, <1>6 DEF T
<1>8. p = g[n] /\ p.next \in Nat
  BY <1>2, <1>7 DEF CallStates, n
<1>9. p.next >= n => Ended(tokens, p.next)
  <2>1. p.next >= n => p.next # 0 /\ ~(p.next \in 1..Len(tokens))
    BY <1>1, <1>8 DEF n
  <2> QED BY <1>1, <1>8, <2>1, AtProperties DEF Ended
<1> QED BY <1>7, <1>8, <1>9 DEF p

\* The second definition of a stage, by the positions that belong to it.
LEMMA StageOfIn ==
  ASSUME NEW tokens \in Toks, NEW k \in Nat
  PROVE  StageOf(tokens, k) = StageIn(tokens, Here(tokens, k, Len(tokens) + 1))
<1> DEFINE H == {i \in DOMAIN tokens \ Pipes(tokens) :
                   Cardinality({j \in Pipes(tokens) : j < i}) = k - 1}
           Files(op) == {i \in H : At(tokens, i - 1, {op})}
           W == {i \in H : ~IsOperator(tokens[i])} \ (Files("<") \cup Files(">"))
<1>1. Len(tokens) \in Nat /\ DOMAIN tokens = 1..Len(tokens)
  BY LenProperties DEF Toks
<1>2. H = Here(tokens, k, Len(tokens) + 1)
  <2>1. (Len(tokens) + 1) - 1 = Len(tokens)
    BY <1>1
  <2>2. \A i : i \in DOMAIN tokens \ Pipes(tokens) <=> i \in 1..Len(tokens) /\ ~At(tokens, i, {"|"})
    BY <1>1 DEF Pipes
  <2> QED BY <2>1, <2>2 DEF Here, PipesBefore
<1>3. \A i \in H : i - 1 \in Int
  BY <1>1
<1>4. StageOf(tokens, k) = [args |-> Chosen(tokens, W), in_file |-> OnlyFile(tokens, Files("<")),
                            out_file |-> OnlyFile(tokens, Files(">"))]
  BY DEF StageOf, OnlyFile
<1>5. Files("<") = FilesIn(tokens, H, "<") /\ Files(">") = FilesIn(tokens, H, ">")
  BY DEF FilesIn
<1> HIDE DEF H
<1>6. W = WordsIn(tokens, H)
  <2>1. \A i \in H : IsFile(tokens, i) <=> At(tokens, i - 1, {"<"}) \/ At(tokens, i - 1, {">"})
    BY <1>3, AtProperties DEF IsFile
  <2> QED BY <2>1 DEF WordsIn
<1> HIDE DEF W, Files
<1> QED BY <1>2, <1>4, <1>5, <1>6 DEF StageIn

\* A & at the end belongs to no stage.
LEMMA EndOutside ==
  ASSUME NEW tokens \in Toks, NEW k \in Nat, NEW n \in Nat, At(tokens, n, {"&"}), ~IsFile(tokens, n)
  PROVE  StageIn(tokens, Here(tokens, k, n)) = StageIn(tokens, Here(tokens, k, n + 1))
<1> DEFINE A == Here(tokens, k, n)
           B == Here(tokens, k, n + 1)
<1>1. IsOperator(tokens[n])
  BY AtProperties
<1>2. ~At(tokens, n - 1, {"<"}) /\ ~At(tokens, n - 1, {">"})
  <2>1. n - 1 \in Int
    OBVIOUS
  <2> QED BY <2>1, AtProperties DEF IsFile
<1>3. A \subseteq B /\ B \subseteq A \cup {n}
  BY DEF Here
<1> HIDE DEF A, B
<1>4. WordsIn(tokens, A) = WordsIn(tokens, B)
  BY <1>1, <1>3 DEF WordsIn
<1>5. FilesIn(tokens, A, "<") = FilesIn(tokens, B, "<") /\ FilesIn(tokens, A, ">") = FilesIn(tokens, B, ">")
  BY <1>2, <1>3 DEF FilesIn
<1> QED BY <1>4, <1>5 DEF StageIn, A, B

\* The stages that were read are those of a line in the language.
LEMMA StagesRead ==
  ASSUME NEW tokens \in Words, NEW j \in Nat, NEW stages \in Seq(Parts),
         CallsRead(tokens, j, stages), Ended(tokens, j),
         j = Len(tokens) + 1 \/ (j = Len(tokens) /\ At(tokens, j, {"&"}))
  PROVE  /\ Grammatical(tokens)
         /\ stages = [k \in 1..Cardinality(Pipes(tokens)) + 1 |-> StageOf(tokens, k)]
         /\ At(tokens, j, {"&"}) = (At(tokens, Len(tokens), {"&"}) /\ ~IsFile(tokens, Len(tokens)))
<1> DEFINE n == Len(tokens)
<1>1. /\ tokens \in Toks /\ n \in Nat /\ DOMAIN tokens = 1..n
      /\ j # 0 /\ 1 < j /\ ~IsOperator(tokens[1])
      /\ Len(stages) = Cardinality(PipesBefore(tokens, j)) + 1
  BY LenProperties DEF Words, Toks, CallsRead, Ended
<1>2. n \in Nat /\ 1 < j /\ (j = n + 1 \/ (j = n /\ At(tokens, j, {"&"})))
  BY <1>1
<1> HIDE DEF n
<1>3. \A m \in 1..n : m \in 1..j - 1 \/ (m = n /\ j = n /\ At(tokens, m, {"&"}))
  BY <1>2
<1>4. \A m \in 1..n : m \in Int /\ (m \in 1..j - 1 => ~(m + 1 < j) \/ m + 1 <= n)
  BY <1>2
<1>5. /\ Pipes(tokens) = {m \in 1..n : At(tokens, m, {"|"})}
      /\ \A m \in Pipes(tokens) : m \in 1..j - 1
  BY <1>1, <1>3, <1>4, AtOne DEF Pipes
<1>6. j = n => ~IsFile(tokens, n)
  <2> SUFFICES ASSUME j = n PROVE ~At(tokens, n - 1, {"<", ">"})
    BY DEF IsFile
  <2>1. n - 1 \in 1..j - 1 /\ ~((n - 1) + 1 < j)
    BY <1>2
  <2> QED BY <2>1 DEF CallsRead
<1>7. tokens # << >>
  <2>1. n # 0
    BY <1>2
  <2>2. Len(<< >>) = 0
    OBVIOUS
  <2> QED BY <2>1, <2>2 DEF n
<1>8. ASSUME NEW m \in 1..n
      PROVE  /\ At(tokens, m, {"&"}) => m = n \/ IsFile(tokens, m)
             /\ At(tokens, m, {"<", ">"}) => NamesFile(tokens, m + 1)
  <2>1. CASE m \in 1..j - 1
    BY <2>1 DEF CallsRead
  <2>2. CASE m = n /\ At(tokens, m, {"&"})
    <3>1. ~At(tokens, m, {"<", ">"})
      BY <1>1, <1>4, <2>2, AtProperties, AtOne
    <3> QED BY <2>2, <3>1
  <2> QED BY <1>3, <2>1, <2>2
<1>9. ASSUME NEW m \in 1..n, NEW k \in m + 1..n, At(tokens, m, {"<", ">"}), tokens[m] = tokens[k]
      PROVE  \E x \in Pipes(tokens) : m < x /\ x < k
  <2>1. k \in 1..n /\ m \in Int /\ k \in Int
    BY <1>2
  <2>2. ~At(tokens, k, {"&"})
    <3>1. At(tokens, k, {"&"}) => At(tokens, m, {"&"})
      BY <1>1, <1>9, <2>1, AtEqual DEF n
    <3> QED BY <1>1, <1>9, <2>1, <3>1, AtProperties, AtOne
  <2>3. k \in 1..j - 1
    BY <1>3, <2>1, <2>2
  <2>4. m \in 1..j - 1 /\ k \in m + 1..j - 1
    BY <1>2, <2>3
  <2>5. PICK x \in m + 1..k - 1 : At(tokens, x, {"|"})
    BY <1>9, <2>4 DEF CallsRead
  <2>6. x \in 1..n /\ m < x /\ x < k
    BY <1>2, <2>1, <2>5
  <2> QED BY <1>5, <2>5, <2>6
<1>10. ASSUME NEW i \in {1} \cup {k + 1 : k \in Pipes(tokens)}
      PROVE  i <= n /\ ~IsOperator(tokens[i])
  <2>1. CASE i = 1
    BY <1>2, <1>1, <2>1
  <2>2. ASSUME NEW k \in Pipes(tokens), i = k + 1
        PROVE  i <= n /\ ~IsOperator(tokens[i])
    <3>1. k \in 1..j - 1 /\ k \in 1..n /\ At(tokens, k, {"|"})
      BY <1>5
    <3>2. k + 1 < j /\ ~IsOperator(tokens[k + 1])
      BY <3>1 DEF CallsRead
    <3> QED BY <1>4, <2>2, <3>1, <3>2
  <2> QED BY <2>1, <2>2
<1>11. Grammatical(tokens)
  BY <1>1, <1>7, <1>8, <1>9, <1>10 DEF Grammatical
<1>12. PipesBefore(tokens, j) = Pipes(tokens)
  <2>1. \A m \in 1..j - 1 : m < j
    BY <1>2
  <2> QED BY <1>5, <2>1 DEF PipesBefore
<1>13. ASSUME NEW k \in 1..Len(stages)
       PROVE  stages[k] = StageOf(tokens, k)
  <2>1. k \in Nat /\ stages[k] = StageIn(tokens, Here(tokens, k, j))
    BY DEF CallsRead
  <2>2. StageOf(tokens, k) = StageIn(tokens, Here(tokens, k, n + 1))
    BY <1>1, <2>1, StageOfIn
  <2>3. j = n => StageIn(tokens, Here(tokens, k, j)) = StageIn(tokens, Here(tokens, k, n + 1))
    <3> SUFFICES ASSUME j = n
                 PROVE  StageIn(tokens, Here(tokens, k, j)) = StageIn(tokens, Here(tokens, k, n + 1))
      OBVIOUS
    <3>1. At(tokens, n, {"&"}) /\ ~IsFile(tokens, n)
      BY <1>1, <1>6
    <3> QED BY <1>1, <2>1, <3>1, EndOutside
  <2> QED BY <1>2, <2>1, <2>2, <2>3
<1>14. stages = [k \in 1..Cardinality(Pipes(tokens)) + 1 |-> StageOf(tokens, k)]
  <2>1. stages = [k \in 1..Len(stages) |-> stages[k]]
    BY LenProperties
  <2> QED BY <1>1, <1>12, <1>13, <2>1
<1>15. At(tokens, j, {"&"}) = (At(tokens, n, {"&"}) /\ ~IsFile(tokens, n))
  <2>1. At(tokens, j, {"&"}) \in BOOLEAN
    BY DEF At
  <2>2. CASE j = n + 1
    <3>1. ~(j \in 1..n) /\ n \in 1..j - 1
      BY <1>2, <2>2
    <3>2. ~At(tokens, j, {"&"})
      BY <1>1, <3>1 DEF At
    <3>3. At(tokens, n, {"&"}) => IsFile(tokens, n)
      BY <3>1 DEF CallsRead
    <3> QED BY <2>1, <3>2, <3>3
  <2>3. CASE j = n /\ At(tokens, j, {"&"})
    <3>1. At(tokens, n, {"&"}) /\ ~IsFile(tokens, n)
      BY <1>6, <2>3
    <3> QED BY <2>1, <2>3, <3>1
  <2> QED BY <1>2, <2>2, <2>3
<1> QED BY <1>11, <1>14, <1>15 DEF n

\* What follows the stages decides.
LEMMA LineParsed ==
  ASSUME NEW tokens \in Words, tokens # << >>
  PROVE  LET p == parse_command_helper(tokens)
             b == Background(tokens, p)
         IN  /\ p.err # "PARSER_SUCCESS" => ~Grammatical(tokens)
             /\ p.err = "PARSER_SUCCESS" =>
                  /\ b.err = "PARSER_SUCCESS" <=> Grammatical(tokens)
                  /\ b.err = "PARSER_SUCCESS" =>
                       /\ b.stages = [k \in 1..Cardinality(Pipes(tokens)) + 1 |-> StageOf(tokens, k)]
                       /\ b.is_background =
                            (At(tokens, Len(tokens), {"&"}) /\ ~IsFile(tokens, Len(tokens)))
<1> DEFINE p == parse_command_helper(tokens)
           b == Background(tokens, p)
           j == p.next
           n == Len(tokens)
<1>1. /\ p \in CallStates
      /\ p.err = "PARSER_SUCCESS" => CallsRead(tokens, j, p.stages) /\ Ended(tokens, j)
      /\ p.err # "PARSER_SUCCESS" => ~Grammatical(tokens)
  BY HelperReads
<1> HIDE DEF p
<1>2. j \in Nat /\ p.stages \in Seq(Parts) /\ tokens \in Toks /\ n \in Nat /\ DOMAIN tokens = 1..n
  BY <1>1, LenProperties DEF CallStates, Words, Toks
<1>3. /\ b.err = IF j + (IF At(tokens, j, {"&"}) THEN 1 ELSE 0) <= n
                   THEN "PARSER_SYNTAX_ERROR" ELSE "PARSER_SUCCESS"
      /\ b.stages = p.stages /\ b.is_background = At(tokens, j, {"&"})
  BY DEF Background
<1> HIDE DEF b
<1> SUFFICES ASSUME p.err = "PARSER_SUCCESS"
             PROVE  /\ b.err = "PARSER_SUCCESS" <=> Grammatical(tokens)
                    /\ b.err = "PARSER_SUCCESS" =>
                         /\ b.stages = [k \in 1..Cardinality(Pipes(tokens)) + 1 |-> StageOf(tokens, k)]
                         /\ b.is_background = (At(tokens, n, {"&"}) /\ ~IsFile(tokens, n))
  BY <1>1 DEF p, b
<1>4. CallsRead(tokens, j, p.stages) /\ Ended(tokens, j) /\ j <= n + 1 /\ 1 < j /\ StageOver(tokens, j)
  BY <1>1 DEF CallsRead, Ended
<1>5. CASE j + (IF At(tokens, j, {"&"}) THEN 1 ELSE 0) <= n
  <2>1. j \in 1..n /\ j \in Int
    BY <1>2, <1>4, <1>5
  <2>2. At(tokens, j, {"&"})
    BY <1>2, <1>4, <2>1, AtProperties DEF StageOver, Ended
  <2>3. j # n
    BY <1>2, <1>5, <2>2
  <2>4. ~IsFile(tokens, j)
    <3>1. j - 1 \in 1..j - 1 /\ ~((j - 1) + 1 < j)
      BY <1>2, <1>4
    <3> QED BY <1>4, <3>1 DEF CallsRead, IsFile
  <2>5. ~Grammatical(tokens)
    BY <1>2, <2>1, <2>2, <2>3, <2>4 DEF Grammatical
  <2> QED BY <1>3, <1>5, <2>5
<1>6. CASE ~(j + (IF At(tokens, j, {"&"}) THEN 1 ELSE 0) <= n)
  <2>1. j = n + 1 \/ (j = n /\ At(tokens, j, {"&"}))
    BY <1>2, <1>4, <1>6
  <2>2. /\ Grammatical(tokens)
        /\ p.stages = [k \in 1..Cardinality(Pipes(tokens)) + 1 |-> StageOf(tokens, k)]
        /\ At(tokens, j, {"&"}) = (At(tokens, n, {"&"}) /\ ~IsFile(tokens, n))
    BY <1>2, <1>4, <2>1, StagesRead
  <2> QED BY <1>3, <1>6, <2>2
<1> QED BY <1>5, <1>6

-----------------------------------------------------------------------------
(* Theorems.                                                               *)

\* Every variable keeps its type: what is kept of a command leaves room in buffer for its
\* null, and the parser gives every stage a program.
LEMMA TypeInit == Init => TypeOK
<1> SUFFICES ASSUME Init PROVE TypeOK
  OBVIOUS
<1>1. << >> \in Seq(Char) /\ << >> \in Seq(Char \cup {Interrupt}) /\ << >> \in Seq(Stages(Char)) /\ Len(<< >>) = 0
  OBVIOUS
<1>2. NoResult \in Result /\ NoQuote \in [count : Nat, last : {DoubleQuote, "'", "none"}]
  BY <1>1 DEF NoResult, NoQuote, Result
<1>3. session \in Seq(Seq(Char))
  BY SessionAssumption DEF Init, Lines
<1>4. MAX_BUFFER_SIZE > 0 /\ 0 \in 0..MaxInterrupts
  BY SizeAssumption
<1> QED BY <1>1, <1>2, <1>3, <1>4 DEF Init, TypeOK, Call

\* The beginning of a sequence.
LEMMA BeginningTyped ==
  ASSUME NEW X, NEW s \in Seq(X), NEW n \in Int, n <= Len(s)
  PROVE  /\ SubSeq(s, 1, n) \in Seq(X)
         /\ Len(SubSeq(s, 1, n)) = IF 1 <= n THEN n ELSE 0
<1> DEFINE b == SubSeq(s, 1, n)
<1>1. Len(s) \in Nat /\ \A k \in 1..n : k \in 1..Len(s)
  BY LenProperties
<1>2. \A k \in 1..n : s[k] \in X
  BY <1>1, ElementOfSeq
<1>3. b \in Seq(X) /\ Len(b) = IF 1 <= n THEN n - 1 + 1 ELSE 0
  BY <1>2, SubSeqProperties
<1> HIDE DEF b
<1>4. Len(b) = IF 1 <= n THEN n ELSE 0
  BY <1>3
<1> QED BY <1>3, <1>4 DEF b

LEMMA KeptTyped ==
  ASSUME NEW whole \in Seq(Char)
  PROVE  /\ Kept(whole) \in Seq(Char) /\ Len(Kept(whole)) < MAX_BUFFER_SIZE
         /\ Kept(whole) = whole =>
              /\ SubSeq(whole, 1, Len(whole) - 2) \in Seq(Char)
              /\ Len(SubSeq(whole, 1, Len(whole) - 2)) < MAX_BUFFER_SIZE
<1> DEFINE k == Kept(whole)
           cut == SubSeq(whole, 1, MAX_BUFFER_SIZE - 1)
           less == SubSeq(whole, 1, Len(whole) - 2)
<1>1. Len(whole) \in Nat /\ MAX_BUFFER_SIZE \in Nat \ {0}
  BY LenProperties, SizeAssumption
<1>2. k = IF Len(whole) >= MAX_BUFFER_SIZE THEN cut ELSE whole
  BY DEF Kept
<1>3. Len(whole) >= MAX_BUFFER_SIZE =>
        cut \in Seq(Char) /\ Len(cut) = IF 1 <= MAX_BUFFER_SIZE - 1 THEN MAX_BUFFER_SIZE - 1 ELSE 0
  <2>1. MAX_BUFFER_SIZE - 1 \in Int /\ (Len(whole) >= MAX_BUFFER_SIZE => MAX_BUFFER_SIZE - 1 <= Len(whole))
    BY <1>1
  <2> QED BY <2>1, BeginningTyped
<1>4. less \in Seq(Char) /\ Len(less) = IF 1 <= Len(whole) - 2 THEN Len(whole) - 2 ELSE 0
  <2>1. Len(whole) - 2 \in Int /\ Len(whole) - 2 <= Len(whole)
    BY <1>1
  <2> QED BY <2>1, BeginningTyped
<1> HIDE DEF k, cut, less
<1>5. k \in Seq(Char) /\ Len(k) < MAX_BUFFER_SIZE
  BY <1>1, <1>2, <1>3
<1>6. k = whole => Len(less) < MAX_BUFFER_SIZE
  BY <1>1, <1>4, <1>5
<1> QED BY <1>4, <1>5, <1>6 DEF k, less

\* The result is that of the command in buffer.
Parsed == result.err = "none" \/ (shell \in {"execute", "reset"} /\ result = parse_to_command(buffer))

LEMMA TypeNext ==
  ASSUME TypeOK, Input, [Next]_vars
  PROVE  TypeOK'
<1>1. /\ shell \in Call
      /\ session \in Seq(Seq(Char)) /\ stdin \in Seq(Char)
      /\ feof \in BOOLEAN /\ g_sigint_received \in BOOLEAN
      /\ buffer \in Seq(Char) /\ Len(buffer) < MAX_BUFFER_SIZE
      /\ quote \in Quotes
      /\ result \in Result
      /\ taken \in Seq(Chars)
      /\ interrupts \in 0..MaxInterrupts
  BY DEF TypeOK, Quotes, Chars
<1> DEFINE Typed == /\ shell' \in Call
                    /\ session' \in Seq(Seq(Char)) /\ stdin' \in Seq(Char)
                    /\ feof' \in BOOLEAN /\ g_sigint_received' \in BOOLEAN
                    /\ buffer' \in Seq(Char) /\ Len(buffer') < MAX_BUFFER_SIZE
                    /\ quote' \in Quotes
                    /\ result' \in Result
                    /\ taken' \in Seq(Chars)
                    /\ interrupts' \in 0..MaxInterrupts
<1> SUFFICES Typed
  BY DEF TypeOK, Quotes, Chars
<1>2. /\ << >> \in Seq(Char) /\ << >> \in Seq(Chars) /\ << >> \in Seq(Stages(Char)) /\ Len(<< >>) = 0
      /\ MAX_BUFFER_SIZE > 0 /\ MaxInterrupts \in Nat
  BY SizeAssumption
<1>3. CASE Reset
  <2>1. NoResult \in Result /\ NoQuote \in Quotes
    BY <1>2 DEF NoResult, NoQuote, Result, Quotes
  <2>2. /\ shell' = "prompt" /\ UNCHANGED <<session, stdin, feof, interrupts>>
        /\ g_sigint_received' = FALSE
        /\ taken' = << >> /\ buffer' = << >> /\ quote' = NoQuote /\ result' = NoResult
    BY <1>3 DEF Reset, input
  <2> QED BY <1>1, <1>2, <2>1, <2>2 DEF Call
<1>4. CASE Prompt
  BY <1>1, <1>4 DEF Prompt, input, Call
<1>5. CASE ReadLine
  <2> DEFINE line == Fetched
             whole == buffer \o line
             q == CountQuotes(line)
  <2>1. /\ stdin # << >>
        /\ feof' = (Len(line) < LINE_SIZE - 1 /\ line[Len(line)] # "\n")
        /\ taken' = taken \o line
        /\ quote' = q
        /\ buffer' = IF Kept(whole) = whole /\ Escaped(line) /\ q.count = 0
                       THEN SubSeq(whole, 1, Len(whole) - 2) ELSE Kept(whole)
        /\ shell' \in {"prompt", "check"}
        /\ UNCHANGED <<session, g_sigint_received, result, interrupts>>
    BY <1>5 DEF ReadLine
  <2>2. line \in Seq(Char) /\ line \in Seq(Chars)
    BY <2>1, FetchedLine
  <2>3. stdin' \in Seq(Char)
    BY <1>5, LineRead
  <2>4. q \in Quotes
    <3> HIDE DEF line
    <3>1. PICK g \in [0..Len(line) -> Quotes] :
            /\ g[0] = quote
            /\ \A i \in 1..Len(line) :
                 g[i] = CountQuote(g[i - 1], Before(line, i), line[i])
            /\ CountQuotes(line) = g[Len(line)]
      BY <1>1, <2>2, CountTurns
    <3>2. Len(line) \in 0..Len(line)
      BY <2>2, LenProperties
    <3> QED BY <3>1, <3>2
  <2>5. whole \in Seq(Char)
    <3> HIDE DEF line
    <3> QED BY <1>1, <2>2, ConcatProperties
  <2>6. taken' \in Seq(Chars)
    <3> HIDE DEF line
    <3> QED BY <1>1, <2>1, <2>2, ConcatProperties
  <2> HIDE DEF line, whole, q
  <2>7. buffer' \in Seq(Char) /\ Len(buffer') < MAX_BUFFER_SIZE
    <3>1. /\ Kept(whole) \in Seq(Char) /\ Len(Kept(whole)) < MAX_BUFFER_SIZE
          /\ Kept(whole) = whole =>
               /\ SubSeq(whole, 1, Len(whole) - 2) \in Seq(Char)
               /\ Len(SubSeq(whole, 1, Len(whole) - 2)) < MAX_BUFFER_SIZE
      BY <2>5, KeptTyped
    <3>2. \/ buffer' = Kept(whole)
          \/ Kept(whole) = whole /\ buffer' = SubSeq(whole, 1, Len(whole) - 2)
      BY <2>1
    <3> QED BY <3>1, <3>2
  <2>8. feof' \in BOOLEAN
    BY <2>1
  <2> QED BY <1>1, <2>1, <2>3, <2>4, <2>6, <2>7, <2>8 DEF Call
<1>6. CASE ReadEnd
  BY <1>1, <1>6 DEF ReadEnd, Call
<1>7. CASE Check
  BY <1>1, <1>7 DEF Check, input, Call
<1>8. CASE Parse
  <2>1. /\ shell' \in {"execute", "reset"} /\ result' = parse_to_command(buffer)
        /\ UNCHANGED <<session, stdin, feof, buffer, quote, g_sigint_received, taken, interrupts>>
    BY <1>8 DEF Parse, input
  <2>2. result' \in Result
    BY <1>1, <2>1, ParseTyped
  <2> QED BY <1>1, <2>1, <2>2 DEF Call
<1>9. CASE Execute
  BY <1>1, <1>9 DEF Execute, input, Call
<1>10. CASE Type
  <2>1. stdin' \in Seq(Char) /\ session' \in Seq(Seq(Char))
    BY <1>10, LineTyped
  <2> QED BY <1>1, <1>10, <2>1 DEF Type
<1>11. CASE CtrlC
  <2>1. Interrupt \in Chars
    BY DEF Chars
  <2>2. Append(taken, Interrupt) \in Seq(Chars)
    BY <1>1, <2>1, AppendProperties
  <2>3. /\ interrupts < MaxInterrupts /\ interrupts' = interrupts + 1
        /\ g_sigint_received' = TRUE /\ stdin' = << >>
        /\ shell' = IF shell = "read" THEN "check" ELSE shell
        /\ taken' = IF shell \in {"prompt", "read"} THEN Append(taken, Interrupt) ELSE taken
        /\ UNCHANGED <<session, feof, buffer, quote, result>>
    BY <1>11 DEF CtrlC
  <2>4. interrupts' \in 0..MaxInterrupts
    BY <1>1, <1>2, <2>3
  <2>5. shell' \in Call /\ taken' \in Seq(Chars)
    BY <1>1, <2>2, <2>3 DEF Call
  <2> QED BY <1>1, <1>2, <2>3, <2>4, <2>5
<1>12. CASE UNCHANGED vars
  BY <1>1, <1>12 DEF vars, input
<1> QED BY <1>3, <1>4, <1>5, <1>6, <1>7, <1>8, <1>9, <1>10, <1>11, <1>12 DEF Next, Shell

LEMMA ParsedNext ==
  ASSUME TypeOK, Parsed, [Next]_vars
  PROVE  Parsed'
<1>1. CASE Reset
  BY <1>1 DEF Reset, Parsed, NoResult
<1>2. CASE Parse
  <2>1. shell' \in {"execute", "reset"} /\ result' = parse_to_command(buffer) /\ buffer' = buffer
    BY <1>2 DEF Parse
  <2> QED BY <2>1 DEF Parsed
<1>3. CASE Prompt \/ ReadLine \/ ReadEnd \/ Check
  <2>1. shell \notin {"execute", "reset"} /\ result' = result
    BY <1>3 DEF Prompt, ReadLine, ReadEnd, Check
  <2> QED BY <2>1 DEF Parsed
<1>4. CASE Execute
  BY <1>4 DEF Execute, Parsed
<1>5. CASE Type
  BY <1>5 DEF Type, Parsed
<1>6. CASE CtrlC
  <2>1. /\ shell' = IF shell = "read" THEN "check" ELSE shell
        /\ UNCHANGED <<buffer, result>>
    BY <1>6 DEF CtrlC
  <2> QED BY <2>1 DEF Parsed
<1>7. CASE UNCHANGED vars
  BY <1>7 DEF vars, Parsed
<1> QED BY <1>1, <1>2, <1>3, <1>4, <1>5, <1>6, <1>7 DEF Next, Shell

\* All of it.
LEMMA Invariant == Spec => [](TypeOK /\ IInv /\ Parsed)
<1> DEFINE All == TypeOK /\ IInv /\ Parsed
<1>1. Init => All
  BY TypeInit, InvInit DEF Init, Parsed, NoResult
<1>2. All /\ [Next]_vars => All'
  <2> SUFFICES ASSUME All, [Next]_vars PROVE All'
    OBVIOUS
  <2>1. Input
    BY DEF IInv
  <2> QED BY <2>1, TypeNext, InvNext, ParsedNext
<1> QED BY <1>1, <1>2, PTL DEF Spec

THEOREM LineInputTypes == Spec => []TypeOK
BY Invariant, PTL

\* What is parsed is the command as it was typed, over any number of lines, and never
\* one during which Ctrl-C was typed (multiline_input and looper.c:43).
THEOREM CommandsAsTyped == Spec => []CommandIsWhatWasTyped
BY Invariant, InvTyped, PTL

\* The text of a line that was read without an open quote is that of its tokens, blanks
\* aside, and each token is an operator, a quoted string or a word (get_token).
LEMMA TokensCover ==
  ASSUME TypeOK, Parsed
  PROVE  TokensCoverLine
<1> DEFINE t == Tokens(buffer)
           Rejected(e) == [err |-> e, stages |-> << >>, is_background |-> FALSE]
<1> SUFFICES ASSUME result.err # "none", result.err # "PARSER_UNPAIRED_QUOTES"
             PROVE  /\ \A k \in DOMAIN t.tokens : WellFormed(t.tokens[k])
                    /\ Ink(FlattenSeq(t.tokens)) = Ink(buffer)
  BY DEF TokensCoverLine, TokensOf, Ink
<1>1. buffer \in Seq(Char)
  BY DEF TypeOK
<1>2. Gathered(buffer, t) /\ t.err # "PARSER_SUCCESS"
  BY <1>1, TokensGathered
<1>3. result = parse_to_command(buffer)
  BY DEF Parsed
<1>4. t.err # "PARSER_TOKEN_DONE" => result = Rejected(t.err)
  BY <1>3, ParseCases, Zenon
<1> HIDE DEF t
<1>5. t.err \in TokenError /\ t.tokens \in Seq(Seq(Char)) /\ t.next \in 1..Len(buffer) + 1
  BY <1>2 DEF Gathered, Collections
<1>6. t.err = "PARSER_TOKEN_DONE"
  BY <1>2, <1>4, <1>5 DEF TokenError
<1>7. t.next = Len(buffer) + 1
  BY <1>2, <1>6 DEF Gathered
<1>8. PICK pre \in Seq(Char) : Copied(buffer, pre, 1, t.next) /\ Ink(FlattenSeq(t.tokens)) = Ink(pre)
  BY <1>2 DEF Gathered
<1>9. pre = buffer
  <2>1. Len(buffer) \in Nat
    BY <1>1, LenProperties
  <2>2. (Len(buffer) + 1) - 1 = Len(buffer) /\ \A k \in 1..Len(buffer) : 1 + k - 1 = k
    BY <2>1
  <2>3. Len(pre) = Len(buffer) /\ \A k \in 1..Len(buffer) : pre[k] = buffer[k]
    BY <1>7, <1>8, <2>2 DEF Copied
  <2> QED BY <1>1, <1>8, <2>3, SeqEqual
<1>10. \A k \in DOMAIN t.tokens : WellFormed(t.tokens[k])
  BY <1>2, <1>5, LenProperties DEF Gathered
<1> QED BY <1>8, <1>9, <1>10

THEOREM LinesAreCovered == Spec => []TokensCoverLine
BY Invariant, TokensCover, PTL

\* A line that was read without an open quote is executed if and only if it is in the
\* language, and then its stages, files and background mark are those of the language
\* (parse_command_helper and parse_to_command).
LEMMA Grammar ==
  ASSUME TypeOK, Parsed
  PROVE  ParsesGrammar
<1> DEFINE t == Tokens(buffer)
           tokens == t.tokens
           p == parse_command_helper(t.tokens)
           Rejected(e) == [err |-> e, stages |-> << >>, is_background |-> FALSE]
           Right(r) ==
             /\ r.err = "PARSER_SUCCESS" <=> Grammatical(tokens)
             /\ r.err = "PARSER_SUCCESS" =>
                  /\ r.stages = [k \in 1..Cardinality(Pipes(tokens)) + 1 |-> StageOf(tokens, k)]
                  /\ r.is_background =
                       (At(tokens, Len(tokens), {"&"}) /\ ~IsFile(tokens, Len(tokens)))
<1> SUFFICES ASSUME result.err # "none", result.err # "PARSER_UNPAIRED_QUOTES"
             PROVE  Right(result)
  BY Zenon DEF ParsesGrammar, TokensOf
<1>1. buffer \in Seq(Char)
  BY DEF TypeOK
<1>2. Gathered(buffer, t) /\ t.err # "PARSER_SUCCESS"
  BY <1>1, TokensGathered
<1>3. result = parse_to_command(buffer)
  BY DEF Parsed
<1>4. /\ t.err # "PARSER_TOKEN_DONE" => result = Rejected(t.err)
      /\ t.err = "PARSER_TOKEN_DONE" /\ t.tokens = << >> => result = Rejected("PARSER_NO_COMMAND")
      /\ t.err = "PARSER_TOKEN_DONE" /\ t.tokens # << >> /\ p.err # "PARSER_SUCCESS"
           => result = Rejected(p.err)
      /\ t.err = "PARSER_TOKEN_DONE" /\ t.tokens # << >> /\ p.err = "PARSER_SUCCESS"
           => result = Background(t.tokens, p)
  BY <1>3, ParseCases, Zenon
<1> HIDE DEF t
<1>5. t.err \in TokenError /\ tokens \in Toks /\ \A k \in 1..Len(tokens) : WellFormed(tokens[k])
  BY <1>2 DEF Gathered, Collections, Toks
<1>6. t.err = "PARSER_TOKEN_DONE"
  BY <1>2, <1>4, <1>5 DEF TokenError
<1>7. tokens \in Words
  <2>1. \A k \in 1..Len(tokens) : tokens[k] # << >>
    <3>1. Len(<< >>) = 0
      OBVIOUS
    <3>2. ~WellFormed(<< >>)
      BY <3>1 DEF WellFormed, IsOperator
    <3> QED BY <1>5, <3>2
  <2> QED BY <1>5, <2>1 DEF Words
<1>8. CASE tokens = << >>
  <2>1. result.err = "PARSER_NO_COMMAND"
    BY <1>4, <1>6, <1>8
  <2>2. ~Grammatical(tokens)
    BY <1>8 DEF Grammatical
  <2> QED BY <2>1, <2>2
<1>9. CASE tokens # << >>
  <2>1. /\ p.err # "PARSER_SUCCESS" => ~Grammatical(tokens)
        /\ p.err = "PARSER_SUCCESS" => Right(Background(tokens, p))
    BY <1>7, <1>9, LineParsed
  <2> HIDE DEF Right, p
  <2>2. CASE p.err = "PARSER_SUCCESS"
    BY <1>4, <1>6, <1>9, <2>1, <2>2
  <2>3. CASE p.err # "PARSER_SUCCESS"
    <3>1. result.err # "PARSER_SUCCESS"
      BY <1>4, <1>6, <1>9, <2>3
    <3> QED BY <2>1, <2>3, <3>1 DEF Right
  <2> QED BY <2>2, <2>3
<1> QED BY <1>8, <1>9

THEOREM ParsesTheGrammar == Spec => []ParsesGrammar
BY Invariant, Grammar, PTL
=============================================================================
