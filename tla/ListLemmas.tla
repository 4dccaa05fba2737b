----------------------------- MODULE ListLemmas -----------------------------
(***************************************************************************)
(* What the operations on lists and stacks that the models use do to the   *)
(* elements of a sequence, and the least number of a set.                  *)
(***************************************************************************)
EXTENDS Integers, Sequences, SequencesExt, SequenceTheorems, WellFoundedInduction, TLAPS

\* A set of naturals that is not empty has a least element.
LEMMA LeastElement ==
  ASSUME NEW T \in SUBSET Nat, T # {}
  PROVE  \E m \in T : \A n \in T : m <= n
<1>1. IsWellFoundedOn(OpToRel(<, Nat), Nat)
  BY NatLessThanWellFounded
<1>2. \E m \in T : \A n \in T : ~(<<n, m>> \in OpToRel(<, Nat))
  BY <1>1, WFMin
<1>3. \E m \in T : \A n \in T : ~(n < m)
  BY <1>2 DEF OpToRel
<1> QED BY <1>3

\* Induction up to a bound, for the numbers that a property holds of.
LEMMA BoundedInduction ==
  ASSUME NEW n \in Nat, NEW T, 0 \in T, \A k \in 1..n : k - 1 \in T => k \in T
  PROVE  0..n \subseteq T
<1> DEFINE U == {k \in 0..n : k \notin T}
<1> SUFFICES ASSUME U # {} PROVE FALSE
  OBVIOUS
<1>1. U \in SUBSET Nat
  OBVIOUS
<1>2. PICK k \in U : \A j \in U : k <= j
  BY <1>1, LeastElement
<1>3. k # 0 /\ k \in 1..n /\ k - 1 \in 0..n
  BY <1>2
<1>4. k - 1 \in T
  BY <1>2, <1>3
<1> QED BY <1>2, <1>3, <1>4

\* g is the table of the states in S that a loop of n turns is in.
States(g, n, S, start, step) ==
  /\ g \in [0..n -> S]
  /\ g[0] = start
  /\ \A k \in 1..n : g[k] = step[<<k, g[k - 1]>>]

\* A loop has such a table.
LEMMA StatesExist ==
  ASSUME NEW S, NEW n \in Nat, NEW start \in S, NEW step \in [(1..n) \X S -> S]
  PROVE  \E g : States(g, n, S, start, step)
<1> DEFINE Table(g, m) == States(g, m, S, start, step)
           T == {m \in 0..n : \E g : Table(g, m)}
<1>1. 0 \in T
  <2> DEFINE g == [k \in 0..0 |-> start]
  <2>1. 0 \in 0..0 /\ 1..0 = {} /\ 0 \in 0..n
    OBVIOUS
  <2>2. g \in [0..0 -> S] /\ g[0] = start
    BY <2>1
  <2>3. Table(g, 0)
    BY <2>1, <2>2 DEF States
  <2> QED BY <2>1, <2>3
<1>2. ASSUME NEW m \in 1..n, m - 1 \in T
      PROVE  m \in T
  <2>1. PICK f : Table(f, m - 1)
    BY <1>2
  <2> DEFINE g == [k \in 0..m |-> IF k = m THEN step[<<m, f[m - 1]>>] ELSE f[k]]
  <2>2. m - 1 \in 0..(m - 1) /\ f[m - 1] \in S
    BY <2>1 DEF States
  <2>3. <<m, f[m - 1]>> \in (1..n) \X S
    BY <2>2
  <2>4. step[<<m, f[m - 1]>>] \in S
    BY <2>3
  <2>5. \A k \in 0..m : k # m => k \in 0..(m - 1)
    OBVIOUS
  <2>6. g \in [0..m -> S]
    BY <2>1, <2>4, <2>5 DEF States
  <2>7. g[0] = start
    BY <2>1 DEF States
  <2>8. ASSUME NEW k \in 1..m
        PROVE  g[k] = step[<<k, g[k - 1]>>]
    <3>1. k - 1 \in 0..m /\ k - 1 # m /\ g[k - 1] = f[k - 1]
      OBVIOUS
    <3>2. CASE k = m
      BY <3>1, <3>2
    <3>3. CASE k # m
      <4>1. k \in 1..(m - 1) /\ g[k] = f[k]
        BY <3>3
      <4> QED BY <2>1, <3>1, <4>1 DEF States
    <3> QED BY <3>2, <3>3
  <2> HIDE DEF g
  <2>9. Table(g, m)
    BY <2>6, <2>7, <2>8 DEF States
  <2> QED BY <2>9
<1> HIDE DEF T
<1>3. 0..n \subseteq T
  BY <1>1, <1>2, BoundedInduction
<1>4. n \in T
  BY <1>3
<1> QED BY <1>4 DEF T

\* The range of a sequence is the set of its items.
LEMMA ToSetDef ==
  ASSUME NEW S, NEW s \in Seq(S)
  PROVE  /\ ToSet(s) = {s[k] : k \in 1..Len(s)}
         /\ ToSet(s) \subseteq S
         /\ s = << >> => ToSet(s) = {}
BY LenProperties, ElementOfSeq DEF ToSet

\* What putting an item in front does to a sequence and its range.
LEMMA ConsProperties ==
  ASSUME NEW S, NEW s \in Seq(S), NEW e \in S
  PROVE  /\ Cons(e, s) \in Seq(S)
         /\ Len(Cons(e, s)) = Len(s) + 1
         /\ Cons(e, s)[1] = e
         /\ \A k \in 2..(Len(s) + 1) : Cons(e, s)[k] = s[k - 1]
         /\ ToSet(Cons(e, s)) = {e} \cup ToSet(s)
<1>1. <<e>> \in Seq(S) /\ Len(<<e>>) = 1 /\ <<e>>[1] = e
  OBVIOUS
<1>2. /\ Cons(e, s) \in Seq(S)
      /\ Len(Cons(e, s)) = Len(s) + 1
      /\ \A k \in 1..(Len(s) + 1) :
           Cons(e, s)[k] = IF k <= 1 THEN <<e>>[k] ELSE s[k - 1]
  BY <1>1, ConcatProperties, LenProperties DEF Cons
<1>3. Len(s) \in Nat
  BY LenProperties
<1>4. /\ Cons(e, s)[1] = e
      /\ \A k \in 2..(Len(s) + 1) : Cons(e, s)[k] = s[k - 1]
  BY <1>1, <1>2, <1>3
<1>5. ToSet(Cons(e, s)) = {e} \cup ToSet(s)
  <2>1. ToSet(Cons(e, s)) = {Cons(e, s)[k] : k \in 1..(Len(s) + 1)}
    BY <1>2, ToSetDef
  <2>2. \A k \in 1..Len(s) : s[k] = Cons(e, s)[k + 1]
    BY <1>3, <1>4
  <2>3. ToSet(s) = {s[k] : k \in 1..Len(s)}
    BY ToSetDef
  <2>4. ToSet(Cons(e, s)) \subseteq {e} \cup ToSet(s)
    <3>1. \A k \in 1..(Len(s) + 1) : k = 1 \/ (k \in 2..(Len(s) + 1) /\ k - 1 \in 1..Len(s))
      BY <1>3
    <3> QED BY <1>4, <2>1, <2>3, <3>1
  <2>5. {e} \cup ToSet(s) \subseteq ToSet(Cons(e, s))
    <3>1. \A k \in 1..Len(s) : k + 1 \in 1..(Len(s) + 1)
      BY <1>3
    <3>2. 1 \in 1..(Len(s) + 1)
      BY <1>3
    <3> QED BY <1>4, <2>1, <2>2, <2>3, <3>1, <3>2
  <2> QED BY <2>4, <2>5
<1> QED BY <1>2, <1>4, <1>5

\* The range of a sequence is its head and the range of its tail.
LEMMA TailToSet ==
  ASSUME NEW S, NEW s \in Seq(S), s # << >>
  PROVE  /\ Head(s) \in S
         /\ Tail(s) \in Seq(S)
         /\ ToSet(s) = {Head(s)} \cup ToSet(Tail(s))
<1>1. /\ Head(s) \in S
      /\ Tail(s) \in Seq(S)
      /\ Len(Tail(s)) = Len(s) - 1
      /\ \A k \in 1..Len(Tail(s)) : Tail(s)[k] = s[k + 1]
  BY HeadTailProperties
<1>2. Len(s) \in Nat \ {0} /\ Head(s) = s[1]
  BY EmptySeq
<1>3. /\ ToSet(s) = {s[k] : k \in 1..Len(s)}
      /\ ToSet(Tail(s)) = {Tail(s)[k] : k \in 1..(Len(s) - 1)}
  <2>1. ToSet(s) = {s[k] : k \in 1..Len(s)}
    BY ToSetDef
  <2>2. ToSet(Tail(s)) = {Tail(s)[k] : k \in 1..Len(Tail(s))}
    BY <1>1, ToSetDef
  <2> QED BY <1>1, <2>1, <2>2
<1>4. \A k \in 1..Len(s) : k = 1 \/ (k - 1 \in 1..(Len(s) - 1) /\ s[k] = Tail(s)[k - 1])
  BY <1>1, <1>2
<1>5. ToSet(s) \subseteq {Head(s)} \cup ToSet(Tail(s))
  BY <1>2, <1>3, <1>4
<1>6. 1 \in 1..Len(s) /\ \A k \in 1..(Len(s) - 1) : k + 1 \in 1..Len(s)
  BY <1>2
<1>7. {Head(s)} \cup ToSet(Tail(s)) \subseteq ToSet(s)
  BY <1>1, <1>2, <1>3, <1>6
<1> QED BY <1>1, <1>5, <1>7

\* The range of a concatenation is the union of the ranges.
LEMMA ConcatToSet ==
  ASSUME NEW S, NEW s \in Seq(S), NEW t \in Seq(S)
  PROVE  s \o t \in Seq(S) /\ ToSet(s \o t) = ToSet(s) \cup ToSet(t)
<1>1. /\ s \o t \in Seq(S)
      /\ Len(s \o t) = Len(s) + Len(t)
      /\ \A k \in 1..(Len(s) + Len(t)) :
           (s \o t)[k] = IF k <= Len(s) THEN s[k] ELSE t[k - Len(s)]
  BY ConcatProperties
<1>2. Len(s) \in Nat /\ Len(t) \in Nat
  BY LenProperties
<1>3. /\ ToSet(s) = {s[k] : k \in 1..Len(s)}
      /\ ToSet(t) = {t[k] : k \in 1..Len(t)}
      /\ ToSet(s \o t) = {(s \o t)[k] : k \in 1..(Len(s) + Len(t))}
  <2>1. ToSet(s) = {s[k] : k \in 1..Len(s)}
    BY ToSetDef
  <2>2. ToSet(t) = {t[k] : k \in 1..Len(t)}
    BY ToSetDef
  <2>3. ToSet(s \o t) = {(s \o t)[k] : k \in 1..Len(s \o t)}
    BY <1>1, ToSetDef
  <2> QED BY <1>1, <2>1, <2>2, <2>3
<1>4. \A k \in 1..(Len(s) + Len(t)) :
        \/ k \in 1..Len(s) /\ (s \o t)[k] = s[k]
        \/ k - Len(s) \in 1..Len(t) /\ (s \o t)[k] = t[k - Len(s)]
  BY <1>1, <1>2
<1>5. ToSet(s \o t) \subseteq ToSet(s) \cup ToSet(t)
  BY <1>3, <1>4
<1>6. \A k \in 1..Len(s) : k \in 1..(Len(s) + Len(t)) /\ (s \o t)[k] = s[k]
  BY <1>1, <1>2
<1>7. \A k \in 1..Len(t) :
        k + Len(s) \in 1..(Len(s) + Len(t)) /\ (s \o t)[k + Len(s)] = t[k]
  BY <1>1, <1>2
<1>8. ToSet(s) \cup ToSet(t) \subseteq ToSet(s \o t)
  BY <1>3, <1>6, <1>7
<1> QED BY <1>1, <1>5, <1>8

\* What taking the n-th item out does to the items, their order and the range.
LEMMA RemoveAtProperties ==
  ASSUME NEW S, NEW s \in Seq(S), NEW n \in 1..Len(s)
  PROVE  /\ RemoveAt(s, n) \in Seq(S)
         /\ Len(RemoveAt(s, n)) = Len(s) - 1
         /\ \A k \in 1..(Len(s) - 1) :
              RemoveAt(s, n)[k] = IF k < n THEN s[k] ELSE s[k + 1]
<1> DEFINE a == SubSeq(s, 1, n - 1)
           b == SubSeq(s, n + 1, Len(s))
<1>1. Len(s) \in Nat /\ n \in Nat /\ n >= 1 /\ n <= Len(s)
  BY LenProperties
<1>2. \A k \in 1..Len(s) : s[k] \in S
  BY ElementOfSeq
<1>3. /\ a \in Seq(S)
      /\ Len(a) = n - 1
      /\ \A k \in 1..(n - 1) : a[k] = s[k]
  <2>1. \A k \in 1..(n - 1) : s[k] \in S
    BY <1>1, <1>2
  <2>2. /\ a \in Seq(S)
        /\ Len(a) = IF 1 <= n - 1 THEN (n - 1) - 1 + 1 ELSE 0
        /\ \A k \in 1..((n - 1) - 1 + 1) : a[k] = s[1 + k - 1]
    BY <1>1, <2>1, SubSeqProperties
  <2> QED BY <1>1, <2>2
<1>4. /\ b \in Seq(S)
      /\ Len(b) = Len(s) - n
      /\ \A k \in 1..(Len(s) - n) : b[k] = s[n + k]
  <2>1. \A k \in (n + 1)..Len(s) : s[k] \in S
    BY <1>1, <1>2
  <2>2. /\ b \in Seq(S)
        /\ Len(b) = IF n + 1 <= Len(s) THEN Len(s) - (n + 1) + 1 ELSE 0
        /\ \A k \in 1..(Len(s) - (n + 1) + 1) : b[k] = s[(n + 1) + k - 1]
    BY <1>1, <2>1, SubSeqProperties
  <2>3. \A k \in 1..(Len(s) - n) : b[k] = s[n + k]
    BY <1>1, <2>2
  <2> QED BY <1>1, <2>2, <2>3
<1>5. RemoveAt(s, n) = a \o b
  BY DEF RemoveAt
<1> HIDE DEF a, b
<1>6. /\ a \o b \in Seq(S)
      /\ Len(a \o b) = Len(a) + Len(b)
      /\ \A k \in 1..(Len(a) + Len(b)) :
           (a \o b)[k] = IF k <= Len(a) THEN a[k] ELSE b[k - Len(a)]
  BY <1>3, <1>4, ConcatProperties
<1>7. ASSUME NEW k \in 1..(Len(s) - 1)
      PROVE  (a \o b)[k] = IF k < n THEN s[k] ELSE s[k + 1]
  <2>1. k \in 1..(Len(a) + Len(b))
    BY <1>1, <1>3, <1>4
  <2>2. CASE k < n
    BY <1>1, <1>3, <1>6, <2>1, <2>2
  <2>3. CASE ~(k < n)
    <3>1. k - (n - 1) \in 1..(Len(s) - n) /\ ~(k <= n - 1)
      BY <1>1, <2>3
    <3>2. (a \o b)[k] = b[k - (n - 1)]
      BY <1>3, <1>6, <2>1, <3>1
    <3>3. n + (k - (n - 1)) = k + 1
      BY <1>1
    <3> QED BY <1>4, <2>3, <3>1, <3>2, <3>3
  <2> QED BY <2>2, <2>3
<1> QED BY <1>1, <1>3, <1>4, <1>5, <1>6, <1>7

\* What taking the last item off does to a sequence.
LEMMA FrontProperties ==
  ASSUME NEW S, NEW s \in Seq(S), s # << >>
  PROVE  /\ Front(s) \in Seq(S)
         /\ Len(Front(s)) = Len(s) - 1
         /\ \A k \in 1..(Len(s) - 1) : Front(s)[k] = s[k]
<1>1. Len(s) \in Nat /\ Len(s) >= 1
  BY EmptySeq, LenProperties
<1>2. \A k \in 1..(Len(s) - 1) : s[k] \in S
  BY <1>1, ElementOfSeq
<1>3. /\ Front(s) \in Seq(S)
      /\ Len(Front(s)) = IF 1 <= Len(s) - 1 THEN (Len(s) - 1) - 1 + 1 ELSE 0
      /\ \A k \in 1..((Len(s) - 1) - 1 + 1) : Front(s)[k] = s[1 + k - 1]
  BY <1>1, <1>2, SubSeqProperties DEF Front
<1>4. Len(Front(s)) = Len(s) - 1
  <2>1. CASE Len(s) >= 2
    <3>1. Len(Front(s)) = (Len(s) - 1) - 1 + 1
      BY <1>1, <1>3, <2>1
    <3> QED BY <1>1, <3>1
  <2>2. CASE Len(s) = 1
    <3>1. Len(Front(s)) = 0
      BY <1>3, <2>2
    <3> QED BY <2>2, <3>1
  <2>3. \A n \in Nat : n >= 1 => n = 1 \/ n >= 2
    OBVIOUS
  <2>4. Len(s) = 1 \/ Len(s) >= 2
    BY <1>1, <2>3
  <2> QED BY <2>1, <2>2, <2>4
<1>5. \A k \in 1..(Len(s) - 1) : Front(s)[k] = s[k]
  BY <1>1, <1>3
<1> QED BY <1>3, <1>4, <1>5

\* What is left when the last n items of a stack give way to others.
LEMMA ReplaceLast ==
  ASSUME NEW S, NEW s \in Seq(S), NEW n \in 0..Len(s), NEW t \in Seq(S)
  PROVE  LET r == SubSeq(s, 1, Len(s) - n) \o t
         IN  /\ r \in Seq(S)
             /\ Len(r) = Len(s) - n + Len(t)
             /\ ToSet(r) \subseteq ToSet(s) \cup ToSet(t)
<1> DEFINE b == SubSeq(s, 1, Len(s) - n)
<1>1. Len(s) \in Nat /\ Len(t) \in Nat
  BY LenProperties
<1>2. \A k \in 1..(Len(s) - n) : s[k] \in S
  BY <1>1, ElementOfSeq
<1>3. /\ b \in Seq(S)
      /\ Len(b) = IF 1 <= Len(s) - n THEN (Len(s) - n) - 1 + 1 ELSE 0
      /\ \A k \in 1..((Len(s) - n) - 1 + 1) : b[k] = s[1 + k - 1]
  BY <1>1, <1>2, SubSeqProperties
<1>4. Len(b) = Len(s) - n
  <2>1. CASE 1 <= Len(s) - n
    BY <1>1, <1>3, <2>1
  <2>2. CASE ~(1 <= Len(s) - n)
    <3>1. Len(s) - n = 0
      BY <1>1, <2>2
    <3> QED BY <1>3, <2>2, <3>1
  <2> QED BY <2>1, <2>2
<1>5. ToSet(b) \subseteq ToSet(s)
  <2> HIDE DEF b
  <2>1. ToSet(b) = {b[k] : k \in 1..(Len(s) - n)}
    <3>1. ToSet(b) = {b[k] : k \in 1..Len(b)}
      BY <1>3, ToSetDef
    <3> QED BY <1>4, <3>1
  <2>2. \A k \in 1..(Len(s) - n) : b[k] = s[k] /\ k \in 1..Len(s)
    BY <1>1, <1>3
  <2>3. ToSet(s) = {s[k] : k \in 1..Len(s)}
    BY ToSetDef
  <2> QED BY <2>1, <2>2, <2>3
<1> HIDE DEF b
<1>6. b \o t \in Seq(S) /\ ToSet(b \o t) = ToSet(b) \cup ToSet(t)
  BY <1>3, ConcatToSet
<1>7. Len(b \o t) = Len(s) - n + Len(t)
  BY <1>3, <1>4, ConcatProperties
<1> QED BY <1>5, <1>6, <1>7 DEF b
=============================================================================
