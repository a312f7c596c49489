---------------------------- MODULE SmallFunctor ----------------------------
(***************************************************************************)
(* small_functor_impl: a callable of any type in an inline storage, behind *)
(* a pointer to the vtable of its type.  Storage is raw bytes: the object  *)
(* in it is created by placement new and ends only when the vtable's       *)
(* destroy is called, so every operation must keep vptr_ and storage in    *)
(* step by hand.  memory.cell gives what each storage holds, memory.bad    *)
(* records a call through a vtable that the storage did not allow.         *)
(*                                                                         *)
(* The class is not shared between threads: one operation is one step.     *)
(***************************************************************************)
CONSTANTS
  Functors,    \* variables of type small_functor
  Types,       \* types of callables: a vtable_for<T> each
  Copyable,    \* those that are copy constructible; the others have a null copy
  Throwing,    \* those whose copy constructor may throw
  Values,      \* what a callable captured
  Nil

ASSUME FunctorAssumption ==
  /\ Copyable \subseteq Types /\ Throwing \subseteq Copyable
  /\ Nil \notin Types /\ Nil \notin Values
  /\ {"temp_storage", "tmp"} \cap Functors = {}
  /\ "moved" \notin Values

VARIABLES
  memory,      \* the storages, and whether one was misused
  vptr,        \* vptr_: the type of the vtable, or Nil
  living,      \* the functors that are constructed
  result       \* what the last call of a functor returned

functorVars == <<memory, vptr, living, result>>

Objects == Functors \cup {"tmp"}             \* tmp: the copy made by operator=
Storages == Objects \cup {"temp_storage"}    \* temp_storage: the bytes used by swap
Raw == [type |-> Nil, value |-> Nil]
Callables == [type : Types, value : Values]
StorageContents == [type : Types, value : Values \cup {"moved"}] \cup {Raw}

FunctorTypeOK ==
  /\ memory \in [cell : [Storages -> StorageContents], bad : BOOLEAN]
  /\ vptr \in [Objects -> Types \cup {Nil}]
  /\ living \in SUBSET Functors
  /\ result \in Values \cup {Nil}

FunctorInit ==
  /\ memory = [cell |-> [p \in Storages |-> Raw], bad |-> FALSE]
  /\ vptr = [f \in Objects |-> Nil]
  /\ living = {}
  /\ result = Nil

-----------------------------------------------------------------------------
(* The entries of vtable_for<T>, as functions of the memory.               *)

\* Placement new: what was alive at p would never be destroyed.
NewAt(m, p, object) ==
  [cell |-> [m.cell EXCEPT ![p] = object], bad |-> m.bad \/ m.cell[p] # Raw]

DestroyAt(m, T, p) ==
  [cell |-> [m.cell EXCEPT ![p] = Raw], bad |-> m.bad \/ m.cell[p].type # T]

\* The source of a move stays alive until it is destroyed.
MoveTo(m, T, src, dst) ==
  LET made == NewAt(m, dst, m.cell[src])
  IN [cell |-> [made.cell EXCEPT ![src] = [type |-> T, value |-> "moved"]],
      bad |-> made.bad \/ m.cell[src].type # T]

CopyTo(m, T, src, dst) ==
  LET made == NewAt(m, dst, m.cell[src])
  IN [made EXCEPT !.bad = @ \/ m.cell[src].type # T]

-----------------------------------------------------------------------------
(* swap: three destructive moves through the temporary storage.            *)

\* Plausible mistakes: a source that is not destroyed, and the last move through
\* the vtable of the other side.
MoveOnly(m, T, src, dst) == IF T = Nil THEN m ELSE MoveTo(m, T, src, dst)

Relocate(m, T, src, dst) ==
  IF T = Nil THEN m ELSE DestroyAt(MoveTo(m, T, src, dst), T, src)

SwapMemoryRightType(m, v, l, r) ==
  LET saved == Relocate(m, v[l], l, "temp_storage")
      crossed == Relocate(saved, v[r], r, l)
  IN IF l = r THEN m ELSE Relocate(crossed, v[r], "temp_storage", r)

\* The memory after swap(l, r), with vptr_ as it was before.
SwapMemory(m, v, l, r) ==
  LET saved == Relocate(m, v[l], l, "temp_storage")
      crossed == Relocate(saved, v[r], r, l)
  IN IF l = r THEN m ELSE Relocate(crossed, v[l], "temp_storage", r)

SwapPointers(v, l, r) == [v EXCEPT ![l] = v[r], ![r] = v[l]]

DestroyObject(m, v, f) == IF v[f] = Nil THEN m ELSE DestroyAt(m, v[f], f)

-----------------------------------------------------------------------------
(* The operations of a program.                                            *)

DefaultConstruct(f) ==
  /\ f \notin living
  /\ living' = living \cup {f}
  /\ vptr' = [vptr EXCEPT ![f] = Nil]
  /\ UNCHANGED <<memory, result>>

Construct(f, T, x) ==
  /\ f \notin living
  /\ living' = living \cup {f}
  /\ vptr' = [vptr EXCEPT ![f] = T]
  /\ memory' = NewAt(memory, f, [type |-> T, value |-> x])
  /\ UNCHANGED result

\* Memory and vptr_ after the copy constructor ran on dst.  In a build without
\* assertions the copy of a callable that has no copy is empty.
Copied(g, dst) ==
  IF vptr[g] \in Copyable
    THEN [memory |-> CopyTo(memory, vptr[g], g, dst), vptr |-> [vptr EXCEPT ![dst] = vptr[g]]]
    ELSE [memory |-> memory, vptr |-> [vptr EXCEPT ![dst] = Nil]]

CopyConstruct(f, g) ==
  /\ f \notin living /\ g \in living
  /\ living' = living \cup {f}
  /\ memory' = Copied(g, f).memory
  /\ vptr' = Copied(g, f).vptr
  /\ UNCHANGED result

\* A plausible mistake: the callable is moved, but not its pointer out of the source.
MoveConstructKeeps(f, g) ==
  /\ f \notin living /\ g \in living
  /\ living' = living \cup {f}
  /\ vptr' = [vptr EXCEPT ![f] = vptr[g]]
  /\ memory' = MoveOnly(memory, vptr[g], g, f)
  /\ UNCHANGED result

MoveConstruct(f, g) ==
  /\ f \notin living /\ g \in living
  /\ living' = living \cup {f}
  /\ LET fresh == [vptr EXCEPT ![f] = Nil]
     IN /\ memory' = SwapMemory(memory, fresh, f, g)
        /\ vptr' = SwapPointers(fresh, f, g)
  /\ UNCHANGED result

\* Copy and swap; the destructor of tmp runs at the end.
CopyAssign(f, g) ==
  /\ f \in living /\ g \in living /\ f # g
  /\ LET copy == Copied(g, "tmp")
         swapped == SwapPointers(copy.vptr, f, "tmp")
     IN /\ memory' = DestroyObject(SwapMemory(copy.memory, copy.vptr, f, "tmp"), swapped, "tmp")
        /\ vptr' = [swapped EXCEPT !["tmp"] = Nil]
  /\ UNCHANGED <<living, result>>

\* A plausible mistake: the storages are exchanged, the pointers are not.
SwapBytes(f, g) ==
  /\ f \in living /\ g \in living
  /\ memory' = SwapMemory(memory, vptr, f, g)
  /\ UNCHANGED <<vptr, living, result>>

\* swap, and the move assignment, which is nothing else.
Swap(f, g) ==
  /\ f \in living /\ g \in living
  /\ memory' = SwapMemory(memory, vptr, f, g)
  /\ vptr' = SwapPointers(vptr, f, g)
  /\ UNCHANGED <<living, result>>

MoveAssign(f, g) == Swap(f, g)

\* A copy constructor of the callable that throws: the pointer is not set yet, the
\* functor under construction or tmp is gone, and the target keeps what it had.
CopyThrows(f, g) ==
  /\ g \in living /\ f # g
  /\ vptr[g] \in Throwing
  /\ UNCHANGED functorVars

Destroy(f) ==
  /\ f \in living
  /\ living' = living \ {f}
  /\ memory' = DestroyObject(memory, vptr, f)
  /\ vptr' = [vptr EXCEPT ![f] = Nil]
  /\ UNCHANGED result

\* A program calls a functor that operator bool says is not empty.
Call(f) ==
  /\ f \in living /\ vptr[f] # Nil
  /\ result' = memory.cell[f].value
  /\ memory' = [memory EXCEPT !.bad = @ \/ memory.cell[f].type # vptr[f]]
  /\ UNCHANGED <<vptr, living>>

FunctorNext ==
  \/ \E f \in Functors : DefaultConstruct(f) \/ Destroy(f) \/ Call(f)
  \/ \E f \in Functors, T \in Types, x \in Values : Construct(f, T, x)
  \/ \E f, g \in Functors :
       \/ CopyConstruct(f, g) \/ MoveConstruct(f, g) \/ CopyThrows(f, g)
       \/ CopyAssign(f, g) \/ MoveAssign(f, g)

FunctorSpec == FunctorInit /\ [][FunctorNext]_functorVars

-----------------------------------------------------------------------------
\* Through any sequence of copies, moves and swaps of different types, the storage
\* of a functor holds a live callable, not moved from, of exactly the type vptr_
\* names, and no other storage (temporaries, destroyed functors) holds one: nothing
\* is destroyed twice and nothing is left undestroyed.
HoldsItsCallable ==
  \A p \in Storages :
    IF p \in living /\ vptr[p] # Nil
      THEN memory.cell[p] \in Callables /\ memory.cell[p].type = vptr[p]
      ELSE memory.cell[p] = Raw

\* No vtable entry is ever applied to raw bytes, to an object of another type or
\* over an object that is still alive.
NoMisuse == ~memory.bad

-----------------------------------------------------------------------------
(* What a functor promises: a cell that holds a callable or nothing.       *)

Held(f) ==
  IF vptr[f] = Nil THEN Raw ELSE [type |-> vptr[f], value |-> memory.cell[f].value]

Cells == INSTANCE FunctorCells WITH content <- [f \in Functors |-> Held(f)]

\* The copies, moves and swaps on bytes implement plain assignment and exchange of
\* values, and a call answers with what was stored last.
FunctorsAreCells == Cells!CellSpec

=============================================================================
