---------------------------- MODULE GcHeap_proofs ----------------------------
(***************************************************************************)
(* Proofs about GcHeap, for every set of addresses and every capacity of   *)
(* the stack.                                                              *)
(***************************************************************************)
EXTENDS GcHeap, Reachability_proofs, ListLemmas

-----------------------------------------------------------------------------
(* Types.                                                                  *)

\* The fields that mark follows are pointers, and the objects among them are
\* the children.
LEMMA FieldsType ==
  ASSUME TypeOK, NEW o \in Obj
  PROVE  /\ Fields(o) \in Seq(Pointer)
         /\ ToSet(Fields(o)) \ {Null} = Children(o)
         /\ Children(o) \subseteq Obj
<1>1. mem[o] \in Object
  BY DEF TypeOK
<1>2. CASE mem[o].type = OBJ_FUNCTION
  <2>1. Fields(o) = << >> /\ Children(o) = {}
    BY <1>2 DEF Fields, Children
  <2>2. << >> \in Seq(Pointer)
    OBVIOUS
  <2>3. ToSet(<< >>) = {}
    BY <2>2, ToSetDef
  <2> QED BY <2>1, <2>2, <2>3
<1>3. CASE mem[o].type # OBJ_FUNCTION
  <2>1. mem[o].fst \in Pointer /\ mem[o].snd \in Pointer
    BY <1>1 DEF Object
  <2> DEFINE f == mem[o].fst
             s == mem[o].snd
  <2>2. Fields(o) = <<f, s>> /\ Children(o) = {f, s} \ {Null}
    BY <1>3 DEF Fields, Children
  <2> HIDE DEF f, s
  <2>3. f \in Pointer /\ s \in Pointer
    BY <2>1 DEF f, s
  <2>4. <<f, s>> \in Seq(Pointer) /\ Len(<<f, s>>) = 2
    BY <2>3
  <2>5. ToSet(<<f, s>>) = {<<f, s>>[k] : k \in 1..2}
    BY <2>4, ToSetDef
  <2>6. ToSet(<<f, s>>) = {f, s}
    BY <2>5
  <2> QED BY <2>2, <2>3, <2>4, <2>6 DEF Pointer
<1> QED BY <1>2, <1>3

\* The state of a VM that was just constructed is well typed.
LEMMA InitType == Init => TypeOK
BY EmptySeq DEF Init, TypeOK, Object, Type, Pointer

\* Every operation of the user and every step of gc keeps the types.
LEMMA NextType == TypeOK /\ [Next]_vars => TypeOK'
<1> SUFFICES ASSUME TypeOK, [Next]_vars PROVE TypeOK'
  OBVIOUS
<1> USE DEF gcVars, userVars
<1>0. Allocated \subseteq Obj /\ Held \subseteq Pointer
  BY ToSetDef DEF TypeOK, Allocated, Held, Pointer
<1>1. ASSUME NEW o \in Obj, allocate(o)
      PROVE  heap' \in Seq(Obj) /\ marked' \subseteq Obj /\ num_objects' \in Int
  BY <1>1, ConsProperties DEF allocate, TypeOK
<1>2. ASSUME NEW o \in Obj, NEW p \in Held, NEW q \in Held,
             new_pair(o, p, q) \/ new_closure(o, p, q)
      PROVE  TypeOK'
  <2>1. allocate(o)
    BY <1>2 DEF new_pair, new_closure
  <2>2. p \in Pointer /\ q \in Pointer
    BY <1>0
  <2>3. mem' \in [Obj -> Object]
    BY <1>2, <2>2 DEF new_pair, new_closure, TypeOK, Object, Type
  <2> QED BY <1>1, <1>2, <2>1, <2>3 DEF TypeOK, new_pair, new_closure, allocate
<1>3. ASSUME NEW o \in Obj, new_function(o)
      PROVE  TypeOK'
  <2>1. mem' \in [Obj -> Object]
    BY <1>3 DEF new_function, TypeOK, Object, Type, Pointer
  <2> QED BY <1>1, <1>3, <2>1 DEF TypeOK, new_function, allocate
<1>4. ASSUME NEW o \in Obj, NEW p \in Held, SetTail(o, p)
      PROVE  TypeOK'
  <2>1. mem' \in [Obj -> Object]
    BY <1>0, <1>4 DEF SetTail, TypeOK, Object
  <2> QED BY <1>4, <2>1 DEF TypeOK, SetTail
<1>5. ASSUME NEW p \in Held, NEW t \in BOOLEAN, push(p, t)
      PROVE  TypeOK'
  <2>1. [value |-> p, is_obj |-> t] \in StackItem
    BY <1>0 DEF StackItem
  <2>2. register_stack' \in Seq(StackItem)
    BY <1>5, <2>1 DEF push, TypeOK
  <2> QED BY <1>5, <2>2 DEF TypeOK, push
<1>6. CASE pop
  <2>1. register_stack' \in Seq(StackItem)
    BY <1>6, FrontProperties DEF pop, TypeOK
  <2> QED BY <1>6, <2>1 DEF TypeOK, pop
<1>7. CASE dup
  <2>1. Len(register_stack) \in 1..Len(register_stack)
    BY <1>7, EmptySeq DEF dup, TypeOK
  <2>2. Last(register_stack) \in StackItem
    BY <2>1, ElementOfSeq DEF Last, TypeOK
  <2>3. register_stack' \in Seq(StackItem)
    BY <1>7, <2>2 DEF dup, TypeOK
  <2> QED BY <1>7, <2>3 DEF TypeOK, dup
<1>8. CASE gc
  BY <1>8 DEF TypeOK, gc
<1>9. CASE GcRoot
  <2>1. i \in 1..Len(register_stack)
    BY <1>9 DEF GcRoot, TypeOK
  <2>2. register_stack[i] \in StackItem
    BY <2>1, ElementOfSeq DEF TypeOK
  <2>3. register_stack[i].value \in Pointer
    BY <2>2 DEF StackItem
  <2>4. pending' \in Seq(Pointer)
    BY <1>9, <2>3, EmptySeq DEF GcRoot
  <2> QED BY <1>9, <2>4 DEF TypeOK, GcRoot
<1>10. CASE MarkReturn
  <2>1. pending' \in Seq(Pointer)
    BY <1>10, TailToSet DEF MarkReturn, TypeOK
  <2> QED BY <1>10, <2>1 DEF TypeOK, MarkReturn
<1>11. CASE MarkVisit
  <2>1. Head(pending) \in Pointer /\ Tail(pending) \in Seq(Pointer)
    BY <1>11, TailToSet DEF MarkVisit, TypeOK
  <2>2. Head(pending) \in Obj
    BY <1>11, <2>1 DEF MarkVisit, Pointer
  <2>3. Fields(Head(pending)) \in Seq(Pointer)
    BY <2>2, FieldsType
  <2>4. pending' \in Seq(Pointer)
    BY <1>11, <2>1, <2>3, ConcatToSet DEF MarkVisit
  <2> QED BY <1>11, <2>2, <2>4 DEF TypeOK, MarkVisit
<1>12. CASE GcSweep
  BY <1>12 DEF TypeOK, GcSweep
<1>13. CASE SweepFree
  <2>1. curr \in 1..Len(heap)
    BY <1>13 DEF SweepFree, TypeOK
  <2>2. heap' \in Seq(Obj)
    BY <1>13, <2>1, RemoveAtProperties DEF SweepFree, TypeOK
  <2> QED BY <1>13, <2>2 DEF TypeOK, SweepFree
<1>14. CASE SweepKeep
  BY <1>14 DEF TypeOK, SweepKeep
<1>15. CASE SweepDone
  BY <1>15 DEF TypeOK, SweepDone
<1>16. CASE UNCHANGED vars
  BY <1>16 DEF TypeOK, vars
<1> QED
  BY <1>2, <1>3, <1>4, <1>5, <1>6, <1>7, <1>8, <1>9, <1>10, <1>11, <1>12,
     <1>13, <1>14, <1>15, <1>16 DEF Next, UserNext, GcNext

\* Every variable of the heap and of the collector keeps its type.
THEOREM TypeCorrect == Spec => []TypeOK
BY InitType, NextType, PTL DEF Spec

-----------------------------------------------------------------------------
(* Memory safety of the collector.                                         *)

\* The roots are objects.
LEMMA RootsType ==
  ASSUME TypeOK, NEW n \in Nat, n <= Len(register_stack)
  PROVE  RootsUpTo(n) \subseteq Obj
<1>1. \A k \in 1..n : register_stack[k] \in StackItem
  BY ElementOfSeq, LenProperties DEF TypeOK
<1> QED BY <1>1 DEF RootsUpTo, StackItem, Pointer

\* The live objects hold the roots and are closed under the fields.
LEMMA LiveProperties ==
  ASSUME TypeOK
  PROVE  /\ Roots \subseteq Live
         /\ Live \subseteq Obj
         /\ \A o \in Live : Children(o) \subseteq Live
<1>1. Roots \subseteq Obj
  BY RootsType, LenProperties DEF Roots, TypeOK
<1>2. \A o \in Obj : Succ[o] = Children(o) /\ Succ[o] \subseteq Obj
  BY FieldsType DEF Succ
<1>3. Roots \subseteq Live /\ Live \subseteq Obj
  BY <1>1, ReachableHoldsRoots DEF Live
<1>4. ClosedUnder(Live, Succ)
  BY <1>2, ReachableIsClosed DEF Live
<1> QED BY <1>2, <1>3, <1>4 DEF ClosedUnder

\* A closed set of objects that holds the roots holds every live object.
LEMMA LiveIsLeast ==
  ASSUME TypeOK, NEW S \in SUBSET Obj, Roots \subseteq S,
         \A o \in S : Children(o) \subseteq S
  PROVE  Live \subseteq S
<1>1. ClosedUnder(S, Succ)
  BY DEF ClosedUnder, Succ
<1> QED BY <1>1, ReachableIsLeast DEF Live

\* The collector moves no pointer, so it changes nothing of what is reachable.
LEMMA LiveUnchanged ==
  ASSUME UNCHANGED <<mem, register_stack>>
  PROVE  /\ Live' = Live
         /\ Roots' = Roots
         /\ \A o : Children(o)' = Children(o)
BY DEF Live, Roots, RootsUpTo, Succ, Children

\* Scanning one more stack item adds what it holds to the scanned roots.
LEMMA RootsUpToNext ==
  ASSUME TypeOK, NEW n \in Nat, n + 1 <= Len(register_stack)
  PROVE  RootsUpTo(n + 1) = RootsUpTo(n) \cup
           (IF register_stack[n + 1].is_obj
              THEN {register_stack[n + 1].value} \ {Null} ELSE {})
<1>1. 1..(n + 1) = 1..n \cup {n + 1}
  OBVIOUS
<1> QED BY <1>1 DEF RootsUpTo

\* The invariant holds of a VM that was just constructed.
LEMMA InitInvariant == Init => GcInvariant
<1> SUFFICES ASSUME Init PROVE GcInvariant
  OBVIOUS
<1>1. TypeOK
  BY InitType
<1>2. ToSet(<< >>) = {}
  BY DEF ToSet
<1>3. Roots = {} /\ Allocated = {}
  BY <1>2 DEF Init, Roots, RootsUpTo, Allocated
<1> QED BY <1>1, <1>3 DEF Init, GcInvariant, HeapClosed, MarkFrontier,
                          MarkPrecise, SweepFrontier, NoStaleMark, GcLocals

\* Sweep leaves no reachable object out: its invariant gives the memory safety
\* of the collector, and outside sweep the list is closed.
LEMMA InvariantImpliesSafe == GcInvariant => ReachableIsAllocated
<1> SUFFICES ASSUME GcInvariant PROVE Live \subseteq Allocated
  BY DEF ReachableIsAllocated
<1> USE DEF GcInvariant
<1>1. Allocated = {heap[k] : k \in 1..Len(heap)} /\ Allocated \subseteq Obj
  BY ToSetDef DEF Allocated, TypeOK
<1>2. CASE phase # "sweep"
  BY <1>1, <1>2, LiveIsLeast DEF HeapClosed
<1>3. CASE phase = "sweep"
  <2>1. curr <= Len(heap) + 1 /\ marked \subseteq Rest /\ Live = Kept \cup marked
    BY <1>3 DEF SweepFrontier
  <2>2. Len(heap) \in Nat /\ curr \in Nat /\ curr >= 1
    BY LenProperties DEF TypeOK
  <2>3. Kept \subseteq Allocated
    BY <1>1, <2>1, <2>2 DEF Kept
  <2>4. Rest \subseteq Allocated
    BY <1>1, <2>1, <2>2 DEF Rest
  <2> QED BY <2>1, <2>3, <2>4
<1> QED BY <1>2, <1>3

-----------------------------------------------------------------------------
(* The user's operations keep the list closed; no bit is set meanwhile.    *)

\* Outside gc the invariant asks that roots and fields are allocated.
LEMMA UserInvariant ==
  ASSUME GcInvariant, TypeOK', phase = "user", phase' = "user", marked' = {},
         pending' = pending, Roots' \subseteq Allocated',
         \A o \in Allocated' : Children(o)' \subseteq Allocated'
  PROVE  GcInvariant'
BY DEF GcInvariant, HeapClosed, MarkFrontier, MarkPrecise, SweepFrontier,
       NoStaleMark, GcLocals

\* An allocation that fills in allocated fields keeps the invariant.
LEMMA AllocateInvariant ==
  ASSUME GcInvariant, TypeOK', NEW o \in Obj, allocate(o),
         UNCHANGED <<register_stack, gcVars>>,
         \A x \in Allocated : mem'[x] = mem[x],
         Children(o)' \subseteq Allocated
  PROVE  GcInvariant'
<1>1. phase = "user" /\ phase' = "user" /\ pending' = pending
  BY DEF allocate, gcVars
<1>2. marked' = {}
  BY <1>1 DEF allocate, GcInvariant, NoStaleMark
<1>3. Allocated' = {o} \cup Allocated
  BY ConsProperties DEF allocate, Allocated, GcInvariant, TypeOK
<1>4. /\ Roots \subseteq Allocated
      /\ \A x \in Allocated : Children(x) \subseteq Allocated
  BY <1>1 DEF GcInvariant, HeapClosed
<1>5. Roots' = Roots
  BY DEF Roots, RootsUpTo
<1>6. \A x \in Allocated : Children(x)' = Children(x)
  BY DEF Children
<1> QED BY <1>1, <1>2, <1>3, <1>4, <1>5, <1>6, UserInvariant

\* The roots of a stack that grows or shrinks at its top.
LEMMA StackInvariant ==
  ASSUME GcInvariant, TypeOK', phase = "user",
         UNCHANGED <<heap, mem, marked, num_objects, gcVars>>,
         \A k \in 1..Len(register_stack') :
           \/ k \in 1..Len(register_stack) /\ register_stack'[k] = register_stack[k]
           \/ register_stack'[k].value \in Held
           \/ \E j \in 1..Len(register_stack) : register_stack'[k] = register_stack[j]
  PROVE  GcInvariant'
<1>1. phase' = "user" /\ pending' = pending /\ marked' = {}
  BY DEF gcVars, GcInvariant, NoStaleMark
<1>2. Allocated' = Allocated /\ \A x : Children(x)' = Children(x)
  BY DEF Allocated, Children
<1>3. /\ Roots \subseteq Allocated
      /\ \A x \in Allocated : Children(x) \subseteq Allocated
  BY DEF GcInvariant, HeapClosed
<1>4. Roots' \subseteq Allocated
  BY <1>3 DEF Roots, RootsUpTo, Held
<1> QED BY <1>1, <1>2, <1>3, <1>4, UserInvariant

\* Every operation of the user keeps the invariant.
LEMMA UserStep ==
  ASSUME GcInvariant, UserNext
  PROVE  GcInvariant'
<1>1. TypeOK /\ TypeOK'
  BY NextType DEF GcInvariant, Next
<1>2. Allocated \subseteq Obj /\ Null \notin Allocated
  BY <1>1, ToSetDef, NullAssumption DEF TypeOK, Allocated
<1>3. ASSUME NEW o \in Obj, NEW p \in Held, NEW q \in Held,
             new_pair(o, p, q) \/ new_closure(o, p, q)
      PROVE  GcInvariant'
  <2>1. /\ allocate(o)
        /\ UNCHANGED <<register_stack, gcVars>>
        /\ \A x \in Obj : x # o => mem'[x] = mem[x]
        /\ mem'[o].fst = p /\ mem'[o].snd = q
    BY <1>1, <1>3 DEF new_pair, new_closure, TypeOK
  <2>2. \A x \in Allocated : mem'[x] = mem[x]
    BY <1>2, <2>1 DEF allocate
  <2>3. Children(o)' \subseteq Allocated
    BY <2>1 DEF Children, Held
  <2> QED BY <1>1, <2>1, <2>2, <2>3, AllocateInvariant
<1>4. ASSUME NEW o \in Obj, new_function(o)
      PROVE  GcInvariant'
  <2>1. /\ allocate(o)
        /\ UNCHANGED <<register_stack, gcVars>>
        /\ \A x \in Obj : x # o => mem'[x] = mem[x]
    BY <1>1, <1>4 DEF new_function, TypeOK
  <2>2. \A x \in Allocated : mem'[x] = mem[x]
    BY <1>2, <2>1 DEF allocate
  <2>3. mem'[o].type = OBJ_FUNCTION
    BY <1>1, <1>4 DEF new_function, TypeOK, Object
  <2>4. Children(o)' \subseteq Allocated
    BY <2>3 DEF Children
  <2> QED BY <1>1, <2>1, <2>2, <2>4, AllocateInvariant
<1>5. ASSUME NEW o \in Obj, NEW p \in Held, SetTail(o, p)
      PROVE  GcInvariant'
  <2>1. /\ phase = "user" /\ phase' = "user" /\ pending' = pending
        /\ Allocated' = Allocated /\ Roots' = Roots
        /\ marked' = {}
    BY <1>5 DEF SetTail, gcVars, Allocated, Roots, RootsUpTo, GcInvariant,
                NoStaleMark
  <2>2. /\ Roots \subseteq Allocated
        /\ \A x \in Allocated : Children(x) \subseteq Allocated
    BY <2>1 DEF GcInvariant, HeapClosed
  <2>3. \A x \in Obj : x # o => mem'[x] = mem[x]
    BY <1>1, <1>5 DEF SetTail, TypeOK
  <2>4. /\ mem'[o].type = mem[o].type /\ mem'[o].fst = mem[o].fst
        /\ mem'[o].snd = p
    BY <1>1, <1>5 DEF SetTail, TypeOK, Object
  <2>5. Children(o)' \subseteq Children(o) \cup (Held \ {Null})
    BY <2>4 DEF Children
  <2>6. \A x \in Allocated : Children(x)' \subseteq Allocated
    <3>1. ASSUME NEW x \in Allocated, x # o PROVE Children(x)' = Children(x)
      BY <1>2, <2>3, <3>1 DEF Children
    <3>2. o \in Allocated
      BY <1>5 DEF SetTail
    <3> QED BY <2>2, <2>5, <3>1, <3>2 DEF Held
  <2> QED BY <1>1, <2>1, <2>2, <2>6, UserInvariant
<1>6. ASSUME NEW p \in Held, NEW t \in BOOLEAN, push(p, t)
      PROVE  GcInvariant'
  <2> DEFINE e == [value |-> p, is_obj |-> t]
  <2>1. /\ phase = "user"
        /\ UNCHANGED <<heap, mem, marked, num_objects, gcVars>>
        /\ register_stack' = Append(register_stack, e)
    BY <1>6 DEF push
  <2>2. register_stack \in Seq(StackItem) /\ Len(register_stack) \in Nat
    BY <1>1, LenProperties DEF TypeOK
  <2>3. e.value \in Held
    OBVIOUS
  <2> HIDE DEF e
  <2>4. \A k \in 1..Len(register_stack') :
          \/ k \in 1..Len(register_stack) /\ register_stack'[k] = register_stack[k]
          \/ register_stack'[k].value \in Held
    BY <2>1, <2>2, <2>3
  <2> QED BY <1>1, <2>1, <2>4, StackInvariant
<1>7. CASE pop
  <2>1. /\ phase = "user"
        /\ UNCHANGED <<heap, mem, marked, num_objects, gcVars>>
        /\ register_stack # << >>
        /\ register_stack' = Front(register_stack)
    BY <1>7 DEF pop
  <2>2. register_stack \in Seq(StackItem) /\ Len(register_stack) \in Nat
    BY <1>1, LenProperties DEF TypeOK
  <2>3. \A k \in 1..Len(register_stack') :
          k \in 1..Len(register_stack) /\ register_stack'[k] = register_stack[k]
    BY <2>1, <2>2, FrontProperties
  <2> QED BY <1>1, <2>1, <2>3, StackInvariant
<1>8. CASE dup
  <2>1. /\ phase = "user"
        /\ UNCHANGED <<heap, mem, marked, num_objects, gcVars>>
        /\ register_stack # << >>
        /\ register_stack' = Append(register_stack, register_stack[Len(register_stack)])
    BY <1>8 DEF dup, Last
  <2>2. register_stack \in Seq(StackItem) /\ Len(register_stack) \in Nat
    BY <1>1, LenProperties DEF TypeOK
  <2>3. Len(register_stack) \in 1..Len(register_stack)
    BY <2>1, <2>2, EmptySeq
  <2>4. \A k \in 1..Len(register_stack') :
          \/ k \in 1..Len(register_stack) /\ register_stack'[k] = register_stack[k]
          \/ register_stack'[k] = register_stack[Len(register_stack)]
    BY <2>1, <2>2
  <2> QED BY <1>1, <2>1, <2>3, <2>4, StackInvariant
<1>9. CASE gc
  <2>1. /\ phase = "user" /\ phase' = "mark" /\ i' = 1
        /\ UNCHANGED <<heap, mem, register_stack, marked, pending>>
    BY <1>9 DEF gc, userVars
  <2>2. marked = {} /\ pending = << >>
    BY <2>1 DEF GcInvariant, NoStaleMark, GcLocals
  <2>3. PendingObjects' = {}
    BY <2>1, <2>2 DEF PendingObjects, ToSet
  <2>4. RootsUpTo(0)' = {}
    BY DEF RootsUpTo
  <2>5. Allocated' = Allocated /\ Roots' = Roots /\ \A x : Children(x)' = Children(x)
    BY <2>1 DEF Allocated, Roots, RootsUpTo, Children
  <2>6. HeapClosed'
    BY <2>1, <2>5 DEF GcInvariant, HeapClosed
  <2>7. i' <= Len(register_stack') + 1
    BY <1>1, <2>1, LenProperties DEF TypeOK
  <2>8. MarkFrontier'
    BY <2>1, <2>2, <2>4 DEF MarkFrontier
  <2>9. MarkPrecise'
    BY <2>1, <2>2, <2>3 DEF MarkPrecise
  <2> QED BY <1>1, <2>1, <2>6, <2>7, <2>8, <2>9
          DEF GcInvariant, SweepFrontier, NoStaleMark, GcLocals
<1> QED BY <1>3, <1>4, <1>5, <1>6, <1>7, <1>8, <1>9 DEF UserNext

-----------------------------------------------------------------------------
(* The steps of the collector.                                             *)

\* A step of mark keeps the list, the pointers and the stack; what it must
\* show is about the bits, the calls that remain and the scanned items.
LEMMA MarkInvariant ==
  ASSUME GcInvariant, TypeOK', phase = "mark", phase' = "mark",
         UNCHANGED userVars,
         i' <= Len(register_stack) + 1,
         MarkFrontier', marked' \cup PendingObjects' \subseteq Live
  PROVE  GcInvariant'
<1>1. Live' = Live /\ Roots' = Roots /\ \A x : Children(x)' = Children(x)
  BY LiveUnchanged DEF userVars
<1>2. Allocated' = Allocated
  BY DEF userVars, Allocated
<1>3. HeapClosed'
  BY <1>1, <1>2 DEF GcInvariant, HeapClosed
<1> QED BY <1>1, <1>3 DEF GcInvariant, MarkPrecise, SweepFrontier,
                          NoStaleMark, GcLocals, userVars

\* Every step of the mark phase keeps the invariant.
LEMMA MarkStep ==
  ASSUME GcInvariant, GcRoot \/ MarkReturn \/ MarkVisit
  PROVE  GcInvariant'
<1>1. TypeOK /\ TypeOK'
  BY NextType DEF GcInvariant, Next, GcNext
<1>2. /\ phase = "mark" /\ phase' = "mark" /\ UNCHANGED userVars
      /\ i <= Len(register_stack) + 1
      /\ RootsUpTo(i - 1) \subseteq marked \cup PendingObjects
      /\ \A o \in marked : Children(o) \subseteq marked \cup PendingObjects
      /\ marked \cup PendingObjects \subseteq Live
  BY DEF GcRoot, MarkReturn, MarkVisit, GcInvariant, MarkFrontier,
         MarkPrecise, GcLocals
<1>3. \A x : Children(x)' = Children(x)
  BY <1>2, LiveUnchanged DEF userVars
<1>5. CASE GcRoot
  <2>1. /\ pending = << >> /\ i \in 1..Len(register_stack) /\ i' = i + 1
        /\ marked' = marked
        /\ pending' = IF register_stack[i].is_obj
                         THEN <<register_stack[i].value>> ELSE << >>
    BY <1>1, <1>5 DEF GcRoot, TypeOK
  <2>2. Len(register_stack) \in Nat
    BY <1>1, LenProperties DEF TypeOK
  <2>3. PendingObjects = {}
    BY <2>1 DEF PendingObjects, ToSet
  <2> DEFINE new == IF register_stack[i].is_obj
                      THEN {register_stack[i].value} \ {Null} ELSE {}
  <2>4. PendingObjects' = new
    <3>1. CASE register_stack[i].is_obj
      <4>1. pending' = <<register_stack[i].value>>
        BY <2>1, <3>1
      <4>2. ToSet(<<register_stack[i].value>>) = {register_stack[i].value}
        BY DEF ToSet
      <4> QED BY <3>1, <4>1, <4>2 DEF PendingObjects
    <3>2. CASE ~register_stack[i].is_obj
      BY <2>1, <3>2 DEF PendingObjects, ToSet
    <3> QED BY <3>1, <3>2
  <2>5. RootsUpTo(i) = RootsUpTo(i - 1) \cup new
    <3>1. i - 1 \in Nat /\ (i - 1) + 1 = i /\ (i - 1) + 1 <= Len(register_stack)
      BY <2>1, <2>2
    <3> QED BY <1>1, <3>1, RootsUpToNext
  <2>6. RootsUpTo(i - 1)' = RootsUpTo(i)
    <3>1. i' - 1 = i
      BY <2>1, <2>2
    <3> QED BY <1>2, <3>1 DEF RootsUpTo, userVars
  <2>7. MarkFrontier'
    BY <1>2, <1>3, <2>1, <2>3, <2>4, <2>5, <2>6 DEF MarkFrontier
  <2>8. new \subseteq Live
    <3>1. new \subseteq Roots
      BY <2>1 DEF Roots, RootsUpTo
    <3> QED BY <1>1, <3>1, LiveProperties
  <2>9. i' <= Len(register_stack) + 1
    BY <2>1, <2>2
  <2> QED BY <1>1, <1>2, <2>1, <2>4, <2>7, <2>8, <2>9, MarkInvariant
<1>6. CASE MarkReturn
  <2>1. /\ pending # << >> /\ pending' = Tail(pending)
        /\ Head(pending) \in marked \cup {Null}
        /\ marked' = marked /\ i' = i
    BY <1>6 DEF MarkReturn
  <2>2. ToSet(pending) = {Head(pending)} \cup ToSet(pending')
    BY <1>1, <2>1, TailToSet DEF TypeOK
  <2>3. marked' \cup PendingObjects' = marked \cup PendingObjects
    BY <2>1, <2>2 DEF PendingObjects
  <2>4. RootsUpTo(i - 1)' = RootsUpTo(i - 1)
    BY <1>2, <2>1 DEF RootsUpTo, userVars
  <2>5. MarkFrontier'
    BY <1>2, <1>3, <2>1, <2>3, <2>4 DEF MarkFrontier
  <2> QED BY <1>1, <1>2, <2>1, <2>3, <2>5, MarkInvariant
<1>7. CASE MarkVisit
  <2> DEFINE o == Head(pending)
  <2>1. /\ pending # << >> /\ o \notin marked \cup {Null}
        /\ pending' = Fields(o) \o Tail(pending)
        /\ marked' = marked \cup {o} /\ i' = i
    BY <1>7 DEF MarkVisit
  <2>2. /\ o \in Pointer /\ Tail(pending) \in Seq(Pointer)
        /\ ToSet(pending) = {o} \cup ToSet(Tail(pending))
    BY <1>1, <2>1, TailToSet DEF TypeOK
  <2> HIDE DEF o
  <2>3. o \in Obj /\ o \in PendingObjects
    BY <2>1, <2>2 DEF Pointer, PendingObjects
  <2>4. Fields(o) \in Seq(Pointer) /\ ToSet(Fields(o)) \ {Null} = Children(o)
    BY <1>1, <2>3, FieldsType
  <2>5. ToSet(pending') = ToSet(Fields(o)) \cup ToSet(Tail(pending))
    <3> DEFINE f == Fields(o)
               t == Tail(pending)
    <3>1. f \in Seq(Pointer) /\ t \in Seq(Pointer)
      BY <2>2, <2>4
    <3>2. pending' = f \o t
      BY <2>1
    <3> HIDE DEF f, t
    <3>3. ToSet(f \o t) = ToSet(f) \cup ToSet(t)
      BY <3>1, ConcatToSet, Zenon
    <3>4. ToSet(pending') = ToSet(f) \cup ToSet(t)
      BY <3>2, <3>3
    <3> QED BY <3>4 DEF f, t
  <2>6. PendingObjects' = Children(o) \cup (ToSet(Tail(pending)) \ {Null})
    BY <2>4, <2>5 DEF PendingObjects
  <2>7. /\ marked \cup PendingObjects \subseteq marked' \cup PendingObjects'
        /\ Children(o) \subseteq marked' \cup PendingObjects'
    BY <2>1, <2>2, <2>6 DEF PendingObjects
  <2>8. RootsUpTo(i - 1)' = RootsUpTo(i - 1)
    BY <1>2, <2>1 DEF RootsUpTo, userVars
  <2>9. MarkFrontier'
    BY <1>2, <1>3, <2>1, <2>7, <2>8 DEF MarkFrontier
  <2>10. marked' \cup PendingObjects' \subseteq Live
    <3>1. Children(o) \subseteq Live
      BY <1>1, <1>2, <2>3, LiveProperties
    <3> QED BY <1>2, <2>1, <2>2, <2>3, <2>6, <3>1 DEF PendingObjects
  <2> QED BY <1>1, <1>2, <2>1, <2>9, <2>10, MarkInvariant
<1> QED BY <1>5, <1>6, <1>7

\* When no call of mark remains and every item is scanned, the marked objects
\* are exactly the reachable ones.
LEMMA MarkIsExact ==
  ASSUME GcInvariant, phase = "mark", pending = << >>, i > Len(register_stack)
  PROVE  marked = Live
<1>1. TypeOK /\ Len(register_stack) \in Nat
  BY LenProperties DEF GcInvariant, TypeOK
<1>2. PendingObjects = {}
  BY DEF PendingObjects, ToSet
<1>3. i - 1 = Len(register_stack)
  BY <1>1 DEF GcInvariant, GcLocals, TypeOK
<1>4. Roots \subseteq marked /\ \A o \in marked : Children(o) \subseteq marked
  BY <1>2, <1>3 DEF GcInvariant, MarkFrontier, Roots
<1>5. Live \subseteq marked
  BY <1>1, <1>4, LiveIsLeast DEF TypeOK
<1> QED BY <1>2, <1>5 DEF GcInvariant, MarkPrecise

\* Every step of the sweep phase keeps the invariant.
LEMMA SweepStep ==
  ASSUME GcInvariant, GcSweep \/ SweepFree \/ SweepKeep \/ SweepDone
  PROVE  GcInvariant'
<1>1. TypeOK /\ TypeOK'
  BY NextType DEF GcInvariant, Next, GcNext
<1>2. /\ heap \in Seq(Obj) /\ Len(heap) \in Nat /\ curr \in Nat /\ curr >= 1
  BY <1>1, LenProperties DEF TypeOK
<1>3. UNCHANGED <<mem, register_stack>>
  BY DEF GcSweep, SweepFree, SweepKeep, SweepDone, userVars
<1>4. Live' = Live /\ Roots' = Roots /\ \A x : Children(x)' = Children(x)
  BY <1>3, LiveUnchanged
<1>5. CASE GcSweep
  <2>1. /\ phase = "mark" /\ phase' = "sweep" /\ curr' = 1 /\ pending = << >>
        /\ i > Len(register_stack)
        /\ UNCHANGED <<heap, marked, pending>>
    BY <1>5 DEF GcSweep, userVars
  <2>2. marked = Live
    BY <2>1, MarkIsExact
  <2>3. Live \subseteq Allocated
    BY InvariantImpliesSafe DEF ReachableIsAllocated
  <2>4. Allocated = {heap[k] : k \in 1..Len(heap)}
    BY <1>2, ToSetDef DEF Allocated
  <2>5. Kept' = {} /\ Rest' = Allocated
    BY <2>1, <2>4 DEF Kept, Rest
  <2>6. SweepFrontier'
    BY <1>2, <1>4, <2>1, <2>2, <2>3, <2>5 DEF SweepFrontier
  <2> QED BY <1>1, <2>1, <2>6 DEF GcInvariant, HeapClosed, MarkFrontier,
                                  MarkPrecise, NoStaleMark, GcLocals
<1>6. ASSUME SweepFree \/ SweepKeep \/ SweepDone
      PROVE  /\ phase = "sweep" /\ pending' = pending /\ pending = << >>
             /\ curr <= Len(heap) + 1
             /\ marked \subseteq Rest
             /\ Live = Kept \cup marked
  BY <1>6 DEF SweepFree, SweepKeep, SweepDone, gcVars, userVars, GcInvariant,
              SweepFrontier, GcLocals
<1>7. ASSUME SweepFree \/ SweepKeep, SweepFrontier'
      PROVE  GcInvariant'
  BY <1>1, <1>6, <1>7 DEF SweepFree, SweepKeep, gcVars, GcInvariant,
       HeapClosed, MarkFrontier, MarkPrecise, NoStaleMark, GcLocals
<1>8. CASE SweepFree
  <2>1. /\ curr \in 1..Len(heap) /\ heap[curr] \notin marked
        /\ heap' = RemoveAt(heap, curr) /\ curr' = curr /\ marked' = marked
    BY <1>2, <1>8 DEF SweepFree, gcVars
  <2>2. /\ Len(heap') = Len(heap) - 1
        /\ \A k \in 1..(Len(heap) - 1) :
             heap'[k] = IF k < curr THEN heap[k] ELSE heap[k + 1]
    BY <1>2, <2>1, RemoveAtProperties
  <2>3. Kept' = Kept
    <3>1. \A k \in 1..(curr - 1) : heap'[k] = heap[k]
      BY <1>2, <2>1, <2>2
    <3> QED BY <2>1, <3>1 DEF Kept
  <2>4. marked \subseteq Rest'
    <3> SUFFICES ASSUME NEW o \in marked PROVE o \in Rest'
      OBVIOUS
    <3>1. PICK k \in curr..Len(heap) : heap[k] = o
      BY <1>6, <1>8 DEF Rest
    <3>2. k # curr
      BY <2>1, <3>1
    <3>3. k - 1 \in curr..Len(heap') /\ k - 1 \in 1..(Len(heap) - 1)
      BY <1>2, <2>1, <2>2, <3>2
    <3>4. heap'[k - 1] = heap[k]
      <4>1. ~(k - 1 < curr) /\ (k - 1) + 1 = k
        BY <1>2, <3>3
      <4> QED BY <2>2, <3>3, <4>1
    <3> QED BY <2>1, <3>1, <3>3, <3>4 DEF Rest
  <2>5. curr' <= Len(heap') + 1
    BY <1>2, <2>1, <2>2
  <2>6. SweepFrontier'
    BY <1>4, <1>6, <1>8, <2>1, <2>3, <2>4, <2>5 DEF SweepFrontier
  <2> QED BY <1>7, <1>8, <2>6
<1>9. CASE SweepKeep
  <2>1. /\ curr \in 1..Len(heap) /\ heap[curr] \in marked
        /\ heap' = heap /\ curr' = curr + 1
        /\ marked' = marked \ {heap[curr]}
    BY <1>2, <1>9 DEF SweepKeep, userVars
  <2>2. Kept' = Kept \cup {heap[curr]}
    <3>1. 1..(curr' - 1) = 1..(curr - 1) \cup {curr}
      BY <1>2, <2>1
    <3> QED BY <2>1, <3>1 DEF Kept
  <2>3. marked' \subseteq Rest'
    <3>1. \A k \in curr..Len(heap) : k = curr \/ k \in curr'..Len(heap')
      BY <1>2, <2>1
    <3> QED BY <1>6, <1>9, <2>1, <3>1 DEF Rest
  <2>4. curr' <= Len(heap') + 1
    BY <1>2, <2>1
  <2>5. SweepFrontier'
    BY <1>4, <1>6, <1>9, <2>1, <2>2, <2>3, <2>4 DEF SweepFrontier
  <2> QED BY <1>7, <1>9, <2>5
<1>10. CASE SweepDone
  <2>1. /\ curr > Len(heap) /\ phase' = "user" /\ heap' = heap /\ marked' = marked
    BY <1>10 DEF SweepDone, userVars
  <2>2. curr..Len(heap) = {} /\ curr - 1 = Len(heap)
    BY <1>2, <1>6, <1>10, <2>1
  <2>3. marked = {}
    BY <1>6, <1>10, <2>2 DEF Rest
  <2>4. Live = Allocated
    <3>1. Allocated = {heap[k] : k \in 1..Len(heap)}
      BY <1>2, ToSetDef DEF Allocated
    <3> QED BY <1>6, <1>10, <2>2, <2>3, <3>1 DEF Kept
  <2>5. Allocated' = Allocated
    BY <2>1 DEF Allocated
  <2>6. HeapClosed'
    BY <1>1, <1>4, <2>4, <2>5, LiveProperties DEF HeapClosed
  <2> QED BY <1>1, <1>6, <1>10, <2>1, <2>3, <2>6
          DEF GcInvariant, MarkFrontier, MarkPrecise, SweepFrontier,
              NoStaleMark, GcLocals
<1> QED BY <1>5, <1>8, <1>9, <1>10

\* Every step keeps the invariant.
LEMMA NextInvariant == GcInvariant /\ [Next]_vars => GcInvariant'
<1> SUFFICES ASSUME GcInvariant, [Next]_vars PROVE GcInvariant'
  OBVIOUS
<1>1. CASE UserNext
  BY <1>1, UserStep
<1>2. CASE GcNext
  BY <1>2, MarkStep, SweepStep DEF GcNext
<1>3. CASE UNCHANGED vars
  <2>1. TypeOK'
    BY NextType DEF GcInvariant
  <2>2. UNCHANGED <<heap, mem, marked, register_stack, phase, i, pending, curr>>
    BY <1>3 DEF vars
  <2>3. /\ Live' = Live /\ Roots' = Roots /\ \A x : Children(x)' = Children(x)
    BY <2>2, LiveUnchanged
  <2>4. /\ Allocated' = Allocated /\ PendingObjects' = PendingObjects
        /\ Kept' = Kept /\ Rest' = Rest
        /\ RootsUpTo(i - 1)' = RootsUpTo(i - 1)
    BY <2>2 DEF Allocated, PendingObjects, Kept, Rest, RootsUpTo
  <2>5. HeapClosed' /\ MarkPrecise' /\ SweepFrontier' /\ NoStaleMark' /\ GcLocals'
    BY <2>2, <2>3, <2>4 DEF GcInvariant, HeapClosed, MarkPrecise, SweepFrontier,
                            NoStaleMark, GcLocals
  <2>6. MarkFrontier'
    BY <2>2, <2>3, <2>4 DEF GcInvariant, MarkFrontier
  <2> QED BY <2>1, <2>5, <2>6 DEF GcInvariant
<1> QED BY <1>1, <1>2, <1>3 DEF Next

\* The invariant of the collector holds in every state.
THEOREM CollectorInvariant == Spec => []GcInvariant
BY InitInvariant, NextInvariant, PTL DEF Spec

\* An object that the tagged stack items reach is never freed.
THEOREM MemorySafety == Spec => []ReachableIsAllocated
BY CollectorInvariant, InvariantImpliesSafe, PTL

\* mark leaves no gap between the marked objects and the calls that remain.
THEOREM MarkIsComplete == Spec => []MarkFrontier
<1>1. GcInvariant => MarkFrontier
  BY DEF GcInvariant
<1> QED BY <1>1, CollectorInvariant, PTL

\* No mark bit outlives the collection that set it.
THEOREM MarksAreCleared == Spec => []NoStaleMark
<1>1. GcInvariant => NoStaleMark
  BY DEF GcInvariant
<1> QED BY <1>1, CollectorInvariant, PTL

-----------------------------------------------------------------------------
(* The counter, and what a collection leaves.                              *)

\* Every step keeps num_objects equal to the length of a list without
\* duplicates.
LEMMA CountStep == TypeOK /\ CountMatchesList /\ [Next]_vars => CountMatchesList'
<1> SUFFICES ASSUME TypeOK, CountMatchesList, [Next]_vars
             PROVE  CountMatchesList'
  OBVIOUS
<1>1. heap \in Seq(Obj) /\ Len(heap) \in Nat
  BY LenProperties DEF TypeOK
<1>2. CASE UNCHANGED <<heap, num_objects>>
  BY <1>2 DEF CountMatchesList
<1>3. ASSUME NEW o \in Obj, allocate(o)
      PROVE  CountMatchesList'
  <2>1. /\ Len(heap') = Len(heap) + 1
        /\ heap'[1] = o
        /\ \A k \in 2..(Len(heap) + 1) : heap'[k] = heap[k - 1]
    <3>1. /\ Len(Cons(o, heap)) = Len(heap) + 1
          /\ Cons(o, heap)[1] = o
          /\ \A k \in 2..(Len(heap) + 1) : Cons(o, heap)[k] = heap[k - 1]
      BY <1>1, ConsProperties
    <3>2. heap' = Cons(o, heap)
      BY <1>3 DEF allocate
    <3> QED BY <3>1, <3>2
  <2>2. \A k \in 1..Len(heap) : heap[k] # o
    BY <1>1, <1>3, ToSetDef DEF allocate, Allocated
  <2>3. num_objects' = Len(heap')
    BY <1>3, <2>1 DEF allocate, CountMatchesList
  <2>4. ASSUME NEW j \in 1..Len(heap'), NEW k \in 1..Len(heap'), heap'[j] = heap'[k]
        PROVE  j = k
    <3>1. /\ j = 1 \/ (j \in 2..(Len(heap) + 1) /\ j - 1 \in 1..Len(heap))
          /\ k = 1 \/ (k \in 2..(Len(heap) + 1) /\ k - 1 \in 1..Len(heap))
      BY <1>1, <2>1
    <3>2. CASE j = 1 \/ k = 1
      BY <2>1, <2>2, <2>4, <3>1, <3>2
    <3>3. CASE j # 1 /\ k # 1
      <4>1. heap[j - 1] = heap[k - 1]
        BY <2>1, <2>4, <3>1, <3>3
      <4>2. j - 1 = k - 1
        BY <3>1, <3>3, <4>1 DEF CountMatchesList
      <4> QED BY <3>1, <3>3, <4>2
    <3> QED BY <3>2, <3>3
  <2> QED BY <2>3, <2>4 DEF CountMatchesList
<1>4. CASE SweepFree
  <2>1. curr \in 1..Len(heap)
    BY <1>1, <1>4 DEF SweepFree, TypeOK
  <2>2. /\ Len(heap') = Len(heap) - 1
        /\ \A k \in 1..(Len(heap) - 1) :
             heap'[k] = IF k < curr THEN heap[k] ELSE heap[k + 1]
    BY <1>1, <1>4, <2>1, RemoveAtProperties DEF SweepFree
  <2>3. num_objects' = Len(heap')
    BY <1>4, <2>2 DEF SweepFree, CountMatchesList
  <2>4. ASSUME NEW j \in 1..Len(heap'), NEW k \in 1..Len(heap'), heap'[j] = heap'[k]
        PROVE  j = k
    <3> DEFINE from(n) == IF n < curr THEN n ELSE n + 1
    <3>1. \A n \in 1..Len(heap') : from(n) \in 1..Len(heap) /\ heap'[n] = heap[from(n)]
      BY <1>1, <2>1, <2>2
    <3>2. from(j) = from(k)
      BY <2>4, <3>1 DEF CountMatchesList
    <3> QED BY <1>1, <2>1, <3>2
  <2> QED BY <2>3, <2>4 DEF CountMatchesList
<1>5. (\E o \in Obj : allocate(o)) \/ SweepFree \/ UNCHANGED <<heap, num_objects>>
  BY DEF Next, UserNext, GcNext, new_pair, new_function, new_closure, SetTail, push,
     pop, dup, gc, GcRoot, MarkReturn, MarkVisit, GcSweep, SweepKeep, SweepDone,
     userVars, vars
<1> QED BY <1>2, <1>3, <1>4, <1>5

\* The object counter is the length of the list, at every step of a sweep too,
\* and no object is on the list twice.
THEOREM CountIsExact == Spec => []CountMatchesList
<1>1. Init => CountMatchesList
  BY DEF Init, CountMatchesList
<1> QED BY <1>1, CountStep, TypeCorrect, PTL DEF Spec

\* When gc returns, every object on the list is reachable.
THEOREM CollectionIsComplete == Spec => GcIsComplete
<1>1. GcInvariant /\ [Next]_vars =>
        [phase = "sweep" /\ phase' = "user" => Allocated \subseteq Live]_vars
  <2> SUFFICES ASSUME GcInvariant, [Next]_vars, phase = "sweep", phase' = "user"
               PROVE  Allocated \subseteq Live
    OBVIOUS
  <2>1. SweepDone
    BY DEF Next, UserNext, GcNext, new_pair, new_function, new_closure, allocate,
       SetTail, push, pop, dup, gc, GcRoot, MarkReturn, MarkVisit, GcSweep,
       SweepFree, SweepKeep, gcVars, vars
  <2>2. curr - 1 = Len(heap) /\ Live = Kept \cup marked
    BY <2>1, LenProperties DEF SweepDone, GcInvariant, SweepFrontier, TypeOK
  <2>3. Allocated = {heap[k] : k \in 1..Len(heap)}
    BY ToSetDef DEF Allocated, GcInvariant, TypeOK
  <2> QED BY <2>2, <2>3 DEF Kept
<1> QED BY <1>1, CollectorInvariant, PTL DEF Spec, GcIsComplete

-----------------------------------------------------------------------------
(* The collector implements AbstractGC.                                    *)

\* A step that changes neither the abstract objects nor what they hold is no
\* step of the abstract heap.
LEMMA AbstractStutter ==
  ASSUME AbstractLive' = AbstractLive, UNCHANGED <<mem, register_stack>>
  PROVE  UNCHANGED Abstract!vars
<1>1. Roots' = Roots /\ \A x : Children(x)' = Children(x)
  BY LiveUnchanged
<1> QED BY <1>1 DEF Abstract!vars

\* Every operation of the user is a step of the abstract heap or none.
LEMMA AbstractUser ==
  ASSUME GcInvariant, GcInvariant', UserNext
  PROVE  [Abstract!Next]_(Abstract!vars)
<1>1. /\ phase = "user" /\ AbstractLive = Allocated
      /\ Roots \subseteq Allocated
      /\ \A x \in Allocated : Children(x) \subseteq Allocated
      /\ Allocated \subseteq Obj
  BY ToSetDef DEF UserNext, new_pair, new_function, new_closure, allocate, SetTail, push, pop,
     dup, gc, AbstractLive, GcInvariant, HeapClosed, TypeOK, Allocated
<1>2. /\ phase' \in {"user", "mark"} /\ AbstractLive' = Allocated'
      /\ Roots' \subseteq Allocated'
      /\ \A x \in Allocated' : Children(x)' \subseteq Allocated'
  BY <1>1 DEF UserNext, new_pair, new_function, new_closure, allocate, SetTail, push,
     pop, dup, gc, gcVars, AbstractLive, GcInvariant, HeapClosed
<1>3. Abstract!Live = Allocated /\ Abstract!Live' = Allocated'
  BY <1>1, <1>2 DEF Abstract!Live
<1>4. TypeOK
  BY DEF GcInvariant
<1>5. ASSUME NEW o \in Obj, new_function(o) \/ \E p, q \in Held : new_pair(o, p, q) \/ new_closure(o, p, q)
      PROVE  Abstract!New(o, Children(o)', Roots')
  <2>1. /\ o \notin Allocated /\ heap' = Cons(o, heap)
        /\ register_stack' = register_stack
        /\ \A x \in Obj : x # o => mem'[x] = mem[x]
    BY <1>4, <1>5 DEF new_pair, new_closure, new_function, allocate, TypeOK
  <2>2. Allocated' = {o} \cup Allocated
    BY <1>4, <2>1, ConsProperties DEF Allocated, TypeOK
  <2>3. Children(o)' \subseteq Allocated
    <3>1. ASSUME NEW p \in Held, NEW q \in Held, new_pair(o, p, q) \/ new_closure(o, p, q)
          PROVE  Children(o)' \subseteq Held \ {Null}
      BY <1>4, <3>1 DEF new_pair, new_closure, Children, TypeOK
    <3>2. CASE new_function(o)
      <4>1. mem'[o].type = OBJ_FUNCTION
        BY <1>4, <3>2 DEF new_function, TypeOK, Object
      <4> QED BY <4>1 DEF Children
    <3> QED BY <1>5, <3>1, <3>2 DEF Held
  <2>4. \A x \in Allocated : Children(x)' = Children(x)
    BY <1>1, <2>1 DEF Children
  <2>5. [x \in Allocated' |-> Children(x)'] =
          [x \in Allocated \cup {o} |->
             IF x = o THEN Children(o)' ELSE [y \in Allocated |-> Children(y)][x]]
    BY <2>1, <2>2, <2>4
  <2> QED BY <1>1, <1>2, <1>3, <2>1, <2>2, <2>3, <2>5 DEF Abstract!New
<1>6. ASSUME NEW o \in Obj, NEW p \in Held, SetTail(o, p)
      PROVE  Abstract!Rewire(o, Children(o)')
  <2>1. /\ o \in Allocated /\ heap' = heap /\ register_stack' = register_stack
        /\ \A x \in Obj : x # o => mem'[x] = mem[x]
    BY <1>4, <1>6 DEF SetTail, TypeOK
  <2>2. Allocated' = Allocated /\ Roots' = Roots
    BY <2>1 DEF Allocated, Roots, RootsUpTo
  <2>3. \A x \in Allocated : x # o => Children(x)' = Children(x)
    BY <1>1, <2>1 DEF Children
  <2>4. [x \in Allocated |-> Children(x)'] =
          [[x \in Allocated |-> Children(x)] EXCEPT ![o] = Children(o)']
    BY <2>1, <2>3
  <2> QED BY <1>1, <1>2, <1>3, <2>1, <2>2, <2>4 DEF Abstract!Rewire
<1>7. ASSUME (\E p \in Held, t \in BOOLEAN : push(p, t)) \/ pop \/ dup
      PROVE  Abstract!SetRoots(Roots')
  <2>1. UNCHANGED <<heap, mem>>
    BY <1>7 DEF push, pop, dup
  <2>2. Allocated' = Allocated /\ \A x : Children(x)' = Children(x)
    BY <2>1 DEF Allocated, Children
  <2> QED BY <1>1, <1>2, <1>3, <2>2 DEF Abstract!SetRoots
<1>8. CASE gc
  <2>1. AbstractLive' = AbstractLive
    BY <1>1, <1>2, <1>8 DEF gc, userVars, Allocated
  <2> QED BY <1>8, <2>1, AbstractStutter DEF gc, userVars
<1>9. ASSUME NEW o \in Obj, NEW S, NEW R, Abstract!New(o, S, R) \/ Abstract!Rewire(o, S)
      PROVE  Abstract!Next
  BY <1>9 DEF Abstract!New, Abstract!Rewire, Abstract!Next
<1>10. ASSUME NEW R, Abstract!SetRoots(R) PROVE Abstract!Next
  BY <1>10 DEF Abstract!SetRoots, Abstract!Next
<1> QED BY <1>5, <1>6, <1>7, <1>8, <1>9, <1>10 DEF UserNext

\* GcSweep is the abstract Collect; the other steps of gc are no steps of the
\* abstract heap.
LEMMA AbstractCollector ==
  ASSUME GcInvariant, GcInvariant', GcNext
  PROVE  [Abstract!Next]_(Abstract!vars)
<1>1. TypeOK /\ Len(heap) \in Nat /\ curr \in Nat /\ curr >= 1
  BY LenProperties DEF GcInvariant, TypeOK
<1>2. UNCHANGED <<mem, register_stack>>
  BY DEF GcNext, GcRoot, MarkReturn, MarkVisit, GcSweep, SweepFree, SweepKeep,
         SweepDone, userVars
<1>3. Live' = Live /\ Roots' = Roots /\ \A x : Children(x)' = Children(x)
  BY <1>2, LiveUnchanged
<1>4. CASE GcRoot \/ MarkReturn \/ MarkVisit
  <2>1. AbstractLive' = AbstractLive
    BY <1>4 DEF GcRoot, MarkReturn, MarkVisit, userVars, AbstractLive, Allocated
  <2> QED BY <1>2, <2>1, AbstractStutter
<1>5. CASE GcSweep
  <2>1. phase = "mark" /\ phase' = "sweep" /\ heap' = heap
    BY <1>5 DEF GcSweep, userVars
  <2>2. AbstractLive = Allocated /\ AbstractLive' = Live
    BY <1>3, <2>1 DEF AbstractLive, GcInvariant, SweepFrontier
  <2>3. /\ Allocated \in SUBSET Obj /\ Roots \in SUBSET Allocated
        /\ \A x \in Allocated : Children(x) \subseteq Allocated
    BY <2>1, ToSetDef DEF GcInvariant, HeapClosed, Allocated, TypeOK
  <2> DEFINE sub == [o \in Allocated |-> Children(o)]
  <2>4. ClosedUnder(Allocated, Succ)
    BY <2>3 DEF ClosedUnder, Succ
  <2>5. \A n \in Obj : Succ[n] \subseteq Obj
    BY <1>1, FieldsType DEF Succ
  <2>6. \A n \in Allocated : sub[n] = Succ[n]
    BY <2>3 DEF Succ
  <2>7. Reachable(Allocated, Roots, sub) = Live
    <3> HIDE DEF sub
    <3> QED BY <2>3, <2>4, <2>5, <2>6, ReachableWithin DEF Live
  <2>8. Live \subseteq Allocated
    BY InvariantImpliesSafe DEF ReachableIsAllocated
  <2>9. [o \in Live |-> Children(o)'] = [o \in Live |-> sub[o]]
    BY <1>3, <2>8
  <2>10. Abstract!Live = Allocated
    BY <2>2 DEF Abstract!Live
  <2>11. Abstract!Reachable(Abstract!Live, Roots, [o \in AbstractLive |-> Children(o)]) = Live
    BY <2>2, <2>7, <2>10 DEF Abstract!Reachable, Abstract!ClosedUnder, Reachable, ClosedUnder
  <2>12. Abstract!Collect
    BY <1>3, <2>2, <2>9, <2>11 DEF Abstract!Collect
  <2> QED BY <2>12 DEF Abstract!Next
<1>6. ASSUME SweepFree \/ SweepKeep \/ SweepDone
      PROVE  /\ phase = "sweep" /\ AbstractLive = Kept \cup marked /\ AbstractLive = Live
             /\ curr <= Len(heap) + 1
  BY <1>6 DEF SweepFree, SweepKeep, SweepDone, AbstractLive, GcInvariant, SweepFrontier
<1>7. CASE SweepFree \/ SweepKeep
  <2>1. phase' = "sweep"
    BY <1>6, <1>7 DEF SweepFree, SweepKeep, gcVars
  <2>2. AbstractLive' = Live'
    BY <2>1 DEF AbstractLive, GcInvariant, SweepFrontier
  <2> QED BY <1>2, <1>3, <1>6, <1>7, <2>2, AbstractStutter
<1>8. CASE SweepDone
  <2>1. /\ curr > Len(heap) /\ heap' = heap /\ phase' = "user"
    BY <1>8 DEF SweepDone, userVars
  <2>2. curr - 1 = Len(heap) /\ curr..Len(heap) = {}
    BY <1>1, <1>6, <1>8, <2>1
  <2>3. marked = {}
    BY <1>6, <1>8, <2>2 DEF GcInvariant, SweepFrontier, Rest
  <2>4. Kept = Allocated
    BY <1>1, <2>2, ToSetDef DEF Kept, Allocated, TypeOK
  <2>5. AbstractLive' = Allocated
    BY <2>1 DEF AbstractLive, Allocated
  <2> QED BY <1>2, <1>6, <1>8, <2>3, <2>4, <2>5, AbstractStutter
<1> QED BY <1>4, <1>5, <1>7, <1>8 DEF GcNext

\* The list, the mark bits, the depth-first search and the sweep implement a
\* heap that collects in one atomic step.
THEOREM ImplementsAbstractGC == Spec => Refines
<1>1. Init => Abstract!Init
  <2> SUFFICES ASSUME Init PROVE Abstract!Init
    OBVIOUS
  <2>1. AbstractLive = {} /\ Roots = {}
    BY DEF Init, AbstractLive, Allocated, ToSet, Roots, RootsUpTo
  <2>2. [o \in AbstractLive |-> Children(o)] = [o \in {} |-> {}]
    BY <2>1
  <2> QED BY <2>1, <2>2 DEF Abstract!Init
<1>2. GcInvariant /\ GcInvariant' /\ [Next]_vars => [Abstract!Next]_(Abstract!vars)
  <2>1. ASSUME UNCHANGED vars PROVE UNCHANGED Abstract!vars
    <3>1. AbstractLive' = AbstractLive /\ UNCHANGED <<mem, register_stack>>
      BY <2>1 DEF vars, AbstractLive, Allocated, Kept
    <3> QED BY <3>1, AbstractStutter
  <2> QED BY <2>1, AbstractUser, AbstractCollector DEF Next
<1> QED BY <1>1, <1>2, CollectorInvariant, PTL DEF Spec, Refines, Abstract!Spec
=============================================================================
