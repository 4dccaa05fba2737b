------------------------------- MODULE GcHeap -------------------------------
(***************************************************************************)
(* The object heap of the bytecode virtual machine and its mark-and-sweep  *)
(* collector: bytecode_vm/src/vm.cpp lines 59-147, object.hpp, and the     *)
(* part of stack.cpp the collector reads.                                  *)
(*                                                                         *)
(* The user of this component is C++ code that holds pointers the way      *)
(* bytecode_vm/test/test_gc.cpp does: it passes null or the address of an  *)
(* allocated object.  What bytecode does to the heap is in BytecodeVM.     *)
(* A definition marked "Broken" is a defect the code does not have: it     *)
(* replaces the definition below it to show that a property can fail.      *)
(*                                                                         *)
(* gc() runs to its end before the user's next call.  It is modelled one   *)
(* visit of mark and one turn of sweep's loop at a time, so that what      *)
(* holds half way through it can be stated.                                *)
(***************************************************************************)
EXTENDS Integers, Sequences, SequencesExt, Reachability

CONSTANTS Obj,         \* the addresses malloc can return
          Null,        \* nullptr, and the integer 0
          STACK_SIZE   \* the capacity of register_stack

ASSUME NullAssumption == Null \notin Obj
ASSUME StackAssumption == STACK_SIZE \in Nat

VARIABLES
  heap,            \* the list that starts at heap_head, first object first
  mem,             \* what each object's memory holds: type and two pointers
  marked,          \* the objects whose mark bit is set
  num_objects,     \* the counter memstat prints
  register_stack,  \* items [value, is_obj], bottom first
  phase,           \* what the thread executes: the user, or a part of gc()
  i,               \* the index of gc()'s loop over the stack
  pending,         \* the calls of mark that remain, the next one first
  curr             \* the position in the list that sweep has come to

userVars == <<heap, mem, num_objects, register_stack>>
gcVars   == <<phase, i, pending, curr>>
vars     == <<heap, mem, marked, num_objects, register_stack, phase, i,
              pending, curr>>

Pointer == Obj \cup {Null}
OBJ_PAIR     == "pair"
OBJ_FUNCTION == "function"
OBJ_CLOSURE  == "closure"
Type   == {OBJ_PAIR, OBJ_FUNCTION, OBJ_CLOSURE}
Object == [type : Type, fst : Pointer, snd : Pointer]
StackItem == [value : Pointer, is_obj : BOOLEAN]

-----------------------------------------------------------------------------
\* The objects on the list.
Allocated == ToSet(heap)

\* Broken: mark forgets the environment of a closure.
FieldsWithoutEnv(o) == IF mem[o].type = OBJ_FUNCTION THEN << >>
                       ELSE IF mem[o].type = OBJ_CLOSURE THEN <<mem[o].fst>>
                       ELSE <<mem[o].fst, mem[o].snd>>

\* The pointers mark follows from o, in its order.  The fields of a pair and
\* of a closure share their place in the union; a function has none, whatever
\* its memory holds there.
Fields(o) == IF mem[o].type = OBJ_FUNCTION
               THEN << >> ELSE <<mem[o].fst, mem[o].snd>>

\* The objects o points to.
Children(o) == IF mem[o].type = OBJ_FUNCTION
                 THEN {} ELSE {mem[o].fst, mem[o].snd} \ {Null}

Succ == [o \in Obj |-> Children(o)]

\* The objects that the first n items of the stack hold.
RootsUpTo(n) ==
  {register_stack[k].value : k \in {j \in 1..n : register_stack[j].is_obj}}
     \ {Null}

Roots == RootsUpTo(Len(register_stack))

Live == Reachable(Obj, Roots, Succ)

-----------------------------------------------------------------------------
Init == /\ heap = << >>
        /\ mem \in [Obj -> {[type |-> OBJ_FUNCTION, fst |-> Null, snd |-> Null]}]
        /\ marked = {}
        /\ num_objects = 0
        /\ register_stack = << >>
        /\ phase = "user"
        /\ i = 1
        /\ pending = << >>
        /\ curr = 1

-----------------------------------------------------------------------------
(* The user's operations.                                                  *)

\* malloc returns memory that is not in use; what it holds is what the last
\* object there left.  The object goes to the front of the list.
allocate(o) == /\ phase = "user"
               /\ o \notin Allocated
               /\ marked' = marked \ {o}
               /\ heap' = Cons(o, heap)
               /\ num_objects' = num_objects + 1

new_pair(o, head, tail) ==
  /\ allocate(o)
  /\ mem' = [mem EXCEPT ![o] = [type |-> OBJ_PAIR, fst |-> head, snd |-> tail]]
  /\ UNCHANGED <<register_stack, gcVars>>

\* Only the address is set: the second word of the union keeps its old value.
new_function(o) ==
  /\ allocate(o)
  /\ mem' = [mem EXCEPT ![o].type = OBJ_FUNCTION, ![o].fst = Null]
  /\ UNCHANGED <<register_stack, gcVars>>

new_closure(o, fn, env) ==
  /\ allocate(o)
  /\ mem' = [mem EXCEPT ![o] = [type |-> OBJ_CLOSURE, fst |-> fn, snd |-> env]]
  /\ UNCHANGED <<register_stack, gcVars>>

\* a->pair.tail = b
SetTail(o, p) ==
  /\ phase = "user"
  /\ o \in Allocated
  /\ mem[o].type = OBJ_PAIR
  /\ mem' = [mem EXCEPT ![o].snd = p]
  /\ UNCHANGED <<heap, marked, num_objects, register_stack, gcVars>>

is_full == Len(register_stack) = STACK_SIZE

push(value, is_obj) ==
  /\ phase = "user"
  /\ ~is_full
  /\ register_stack' =
       Append(register_stack, [value |-> value, is_obj |-> is_obj])
  /\ UNCHANGED <<heap, mem, marked, num_objects, gcVars>>

pop == /\ phase = "user"
       /\ register_stack # << >>
       /\ register_stack' = Front(register_stack)
       /\ UNCHANGED <<heap, mem, marked, num_objects, gcVars>>

dup == /\ phase = "user"
       /\ register_stack # << >>
       /\ ~is_full
       /\ register_stack' =
            Append(register_stack, Last(register_stack))
       /\ UNCHANGED <<heap, mem, marked, num_objects, gcVars>>

-----------------------------------------------------------------------------
(* gc(), in the order it executes.                                         *)

\* The user calls gc.
gc == /\ phase = "user"
      /\ phase' = "mark"
      /\ i' = 1
      /\ UNCHANGED <<userVars, marked, pending, curr>>

\* Broken: the tag is not looked at, integers are followed too.
GcRootIgnoresTag == /\ phase = "mark"
                    /\ pending = << >>
                    /\ i <= Len(register_stack)
                    /\ pending' = <<register_stack[i].value>>
                    /\ i' = i + 1
                    /\ UNCHANGED <<userVars, marked, phase, curr>>

\* Broken: the index of the loop is not incremented.
GcRootStays == /\ phase = "mark"
               /\ pending = << >>
               /\ i <= Len(register_stack)
               /\ pending' = IF register_stack[i].is_obj
                               THEN <<register_stack[i].value>> ELSE << >>
               /\ UNCHANGED <<userVars, marked, phase, i, curr>>

\* One turn of the loop over the stack: mark is called on a tagged item.
GcRoot == /\ phase = "mark"
          /\ pending = << >>
          /\ i <= Len(register_stack)
          /\ pending' = IF register_stack[i].is_obj
                          THEN <<register_stack[i].value>> ELSE << >>
          /\ i' = i + 1
          /\ UNCHANGED <<userVars, marked, phase, curr>>

\* A call of mark that returns at once.
MarkReturn == /\ phase = "mark"
              /\ pending # << >>
              /\ Head(pending) \in marked \cup {Null}
              /\ pending' = Tail(pending)
              /\ UNCHANGED <<userVars, marked, phase, i, curr>>

\* Broken: the bit is set and the fields are not followed.
MarkVisitStops == /\ phase = "mark"
                  /\ pending # << >>
                  /\ Head(pending) \notin marked \cup {Null}
                  /\ marked' = marked \cup {Head(pending)}
                  /\ pending' = Tail(pending)
                  /\ UNCHANGED <<userVars, phase, i, curr>>

\* A call of mark that sets the bit: its recursive calls come next, before
\* the ones its callers still have to make.
MarkVisit == /\ phase = "mark"
             /\ pending # << >>
             /\ Head(pending) \notin marked \cup {Null}
             /\ marked' = marked \cup {Head(pending)}
             /\ pending' = Fields(Head(pending)) \o Tail(pending)
             /\ UNCHANGED <<userVars, phase, i, curr>>

\* Broken: sweep begins one place too early.
GcSweepFromZero == /\ phase = "mark"
                   /\ pending = << >>
                   /\ i > Len(register_stack)
                   /\ phase' = "sweep"
                   /\ curr' = 0
                   /\ UNCHANGED <<userVars, marked, i, pending>>

\* The loop over the stack ends and sweep begins at heap_head.
GcSweep == /\ phase = "mark"
           /\ pending = << >>
           /\ i > Len(register_stack)
           /\ phase' = "sweep"
           /\ curr' = 1
           /\ UNCHANGED <<userVars, marked, i, pending>>

\* Broken: the counter is not decremented.
SweepFreeKeepsCount == /\ phase = "sweep"
                       /\ curr <= Len(heap)
                       /\ heap[curr] \notin marked
                       /\ heap' = RemoveAt(heap, curr)
                       /\ UNCHANGED <<mem, marked, num_objects,
                                      register_stack, gcVars>>

\* Broken: after unlinking an object sweep steps over the next one.
SweepFreeSkipsNext == /\ phase = "sweep"
                      /\ curr <= Len(heap)
                      /\ heap[curr] \notin marked
                      /\ heap' = RemoveAt(heap, curr)
                      /\ curr' = curr + 1
                      /\ num_objects' = num_objects - 1
                      /\ UNCHANGED <<mem, marked, register_stack, phase, i,
                                     pending>>

\* The object at curr is not marked: it is unlinked and freed.
SweepFree == /\ phase = "sweep"
             /\ curr <= Len(heap)
             /\ heap[curr] \notin marked
             /\ heap' = RemoveAt(heap, curr)
             /\ num_objects' = num_objects - 1
             /\ UNCHANGED <<mem, marked, register_stack, gcVars>>

\* Broken: the bit of a survivor is left set.
SweepKeepLeavesMark == /\ phase = "sweep"
                       /\ curr <= Len(heap)
                       /\ heap[curr] \in marked
                       /\ curr' = curr + 1
                       /\ UNCHANGED <<userVars, marked, phase, i, pending>>

\* The object at curr survives: its bit is cleared for the next collection.
SweepKeep == /\ phase = "sweep"
             /\ curr <= Len(heap)
             /\ heap[curr] \in marked
             /\ marked' = marked \ {heap[curr]}
             /\ curr' = curr + 1
             /\ UNCHANGED <<userVars, phase, i, pending>>

\* sweep has come to the end of the list and gc returns.
SweepDone == /\ phase = "sweep"
             /\ curr > Len(heap)
             /\ phase' = "user"
             /\ i' = 1
             /\ curr' = 1
             /\ UNCHANGED <<userVars, marked, pending>>

-----------------------------------------------------------------------------
Held == Allocated \cup {Null}      \* the pointers the user may hold

UserNext == \/ \E o \in Obj, p, q \in Held : new_pair(o, p, q)
            \/ \E o \in Obj : new_function(o)
            \/ \E o \in Obj, p, q \in Held : new_closure(o, p, q)
            \/ \E o \in Obj, p \in Held : SetTail(o, p)
            \/ \E p \in Held, t \in BOOLEAN : push(p, t)
            \/ pop
            \/ dup
            \/ gc

GcNext == \/ GcRoot
          \/ MarkReturn
          \/ MarkVisit
          \/ GcSweep
          \/ SweepFree
          \/ SweepKeep
          \/ SweepDone

Next == UserNext \/ GcNext

Spec == Init /\ [][Next]_vars

\* gc() is a function call: once entered it goes on executing.  Nothing makes
\* the user call it.
FairSpec == Spec /\ WF_vars(GcNext)

-----------------------------------------------------------------------------
(* Properties.                                                             *)

\* Every variable has its type, and a pointer of gc's own is a pointer.
TypeOK == /\ heap \in Seq(Obj)
          /\ mem \in [Obj -> Object]
          /\ marked \subseteq Obj
          /\ num_objects \in Int
          /\ register_stack \in Seq(StackItem)
          /\ phase \in {"user", "mark", "sweep"}
          /\ i \in Nat \ {0}
          /\ pending \in Seq(Pointer)
          /\ curr \in Nat \ {0}

\* Memory safety of the collector: an object that can be reached from the
\* tagged stack items is never given back to malloc, not even half way
\* through sweep (vm.cpp:115-128).
ReachableIsAllocated == Live \subseteq Allocated

\* What makes mark right although it stops at marked objects (vm.cpp:96):
\* whatever a marked object or a scanned stack item points to is marked or
\* still waits for its call of mark.
PendingObjects == ToSet(pending) \ {Null}

MarkFrontier ==
  phase = "mark" =>
    /\ RootsUpTo(i - 1) \subseteq marked \cup PendingObjects
    /\ \A o \in marked : Children(o) \subseteq marked \cup PendingObjects

\* The bits a collection sets are gone when it returns: one left behind would
\* make the next mark stop there and the next sweep free what lies behind it.
NoStaleMark == phase = "user" => marked = {}

\* memstat and ~VM's leak report are right at every moment (vm.cpp:10, 466):
\* the counter is the number of objects on the list, each there once.
CountMatchesList ==
  /\ num_objects = Len(heap)
  /\ \A j, k \in 1..Len(heap) : heap[j] = heap[k] => j = k

\* A collection is complete: when gc returns nothing unreachable is left.
GcIsComplete ==
  [][phase = "sweep" /\ phase' = "user" => Allocated \subseteq Live]_vars

\* gc returns, on cyclic graphs too (test_cyclic).
GcReturns == phase # "user" ~> phase = "user"

-----------------------------------------------------------------------------
(* The inductive invariant.                                                *)

\* Outside sweep no object on the list points at freed memory, and no root
\* does: what the user may hold is enough to keep it so.
HeapClosed == phase # "sweep" =>
                /\ Roots \subseteq Allocated
                /\ \A o \in Allocated : Children(o) \subseteq Allocated

\* mark reaches nothing but reachable objects.
MarkPrecise == phase = "mark" => marked \cup PendingObjects \subseteq Live

\* Sweep has passed Kept and has Rest before it; the reachable objects are
\* the ones it has kept and the marked ones it still has to come to.
Kept == {heap[k] : k \in 1..(curr - 1)}
Rest == {heap[k] : k \in curr..Len(heap)}

SweepFrontier == phase = "sweep" => /\ curr <= Len(heap) + 1
                                    /\ marked \subseteq Rest
                                    /\ Live = Kept \cup marked

\* gc's variables outside the part of it that uses them.
GcLocals == /\ phase # "mark" => pending = << >>
            /\ phase = "mark" => i <= Len(register_stack) + 1

GcInvariant == /\ TypeOK
               /\ HeapClosed
               /\ MarkFrontier
               /\ MarkPrecise
               /\ SweepFrontier
               /\ NoStaleMark
               /\ GcLocals

-----------------------------------------------------------------------------
(* Refinement.  The abstract Collect happens when mark is done: from then  *)
(* on an object that sweep has not come to yet is live if it is marked.    *)
AbstractLive ==
  IF phase = "sweep"
    THEN Kept \cup marked
    ELSE Allocated

Abstract == INSTANCE AbstractGC
              WITH edges <- [o \in AbstractLive |-> Children(o)],
                   roots <- Roots

\* The collector implements an atomic collection of the unreachable objects.
Refines == Abstract!Spec
=============================================================================
