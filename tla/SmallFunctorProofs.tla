------------------------- MODULE SmallFunctorProofs -------------------------
(***************************************************************************)
(* Proofs about small_functor, for every set of functors, of types and of  *)
(* captured values: the storage and vptr_ stay in step through every       *)
(* sequence of operations, and the operations on bytes implement value     *)
(* semantics.                                                              *)
(***************************************************************************)
EXTENDS SmallFunctor, TLAPS

Memories == [cell : [Storages -> StorageContents], bad : BOOLEAN]

\* Memory m and pointers v are in step: what vptr_ names is what the storage holds,
\* every other storage is raw, and no vtable entry was misused.
Fits(m, v) ==
  /\ m \in Memories /\ ~m.bad
  /\ v \in [Objects -> Types \cup {Nil}]
  /\ m.cell["temp_storage"] = Raw
  /\ \A p \in Objects :
       /\ m.cell[p].type = v[p]
       /\ v[p] # Nil => m.cell[p] \in Callables

\* The inductive invariant: in step, and what is not constructed is empty.
FunctorInv ==
  /\ Fits(memory, vptr)
  /\ \A p \in Objects : p \notin living => vptr[p] = Nil
  /\ living \in SUBSET Functors
  /\ result \in Values \cup {Nil}

-----------------------------------------------------------------------------
\* temp_storage and tmp are no functors, and not the same.
LEMMA Places ==
  /\ "temp_storage" \notin Objects /\ "temp_storage" \in Storages
  /\ "tmp" \in Objects /\ "tmp" \notin Functors
  /\ Functors \subseteq Objects /\ Objects \subseteq Storages
BY FunctorAssumption DEF Objects, Storages

\* A storage whose object has no type is raw; a raw one has none.
LEMMA RawByType ==
  ASSUME NEW c \in StorageContents
  PROVE  c.type = Nil <=> c = Raw
BY FunctorAssumption DEF StorageContents, Raw

\* A callable is something a storage may hold, and not raw.
LEMMA CallableFacts ==
  ASSUME NEW c \in Callables
  PROVE  /\ c \in StorageContents /\ c # Raw /\ c.type \in Types /\ c.value \in Values
         /\ c.type # Nil
BY FunctorAssumption DEF Callables, StorageContents, Raw

\* A destructive move onto raw bytes moves the object and leaves raw bytes; with no
\* vtable there is nothing to move.
LEMMA RelocateMoves ==
  ASSUME NEW m \in Memories, NEW src \in Storages, NEW dst \in Storages, src # dst,
         NEW T \in Types \cup {Nil}, m.cell[src].type = T, m.cell[dst] = Raw
  PROVE  /\ Relocate(m, T, src, dst) \in Memories
         /\ Relocate(m, T, src, dst).bad = m.bad
         /\ Relocate(m, T, src, dst).cell = [m.cell EXCEPT ![dst] = m.cell[src], ![src] = Raw]
<1> DEFINE c == m.cell
           n == Relocate(m, T, src, dst)
<1>1. c \in [Storages -> StorageContents] /\ m.bad \in BOOLEAN /\ Raw \in StorageContents
  BY DEF Memories, StorageContents
<1>2. CASE T = Nil
  <2>1. c[src] = Raw
    BY <1>1, <1>2, RawByType
  <2>2. [c EXCEPT ![dst] = c[src], ![src] = Raw] = c
    BY <1>1, <2>1
  <2> QED BY <1>2, <2>2 DEF Relocate
<1>3. CASE T # Nil
  <2>1. n.cell = [[[c EXCEPT ![dst] = c[src]] EXCEPT ![src] = [type |-> T, value |-> "moved"]]
                    EXCEPT ![src] = Raw]
    BY <1>3 DEF Relocate, DestroyAt, MoveTo, NewAt
  <2>2. n.cell = [c EXCEPT ![dst] = c[src], ![src] = Raw]
    BY <1>1, <2>1
  <2>3. n = [cell |-> n.cell, bad |-> n.bad]
    BY <1>3 DEF Relocate, DestroyAt
  <2>4. MoveTo(m, T, src, dst).cell[src].type = T
    BY <1>1 DEF MoveTo, NewAt
  <2>5. MoveTo(m, T, src, dst).bad = m.bad
    BY <1>1 DEF MoveTo, NewAt
  <2>6. n.bad = m.bad
    BY <1>3, <1>1, <2>4, <2>5 DEF Relocate, DestroyAt
  <2>7. n.cell \in [Storages -> StorageContents]
    BY <1>1, <2>2
  <2> QED BY <1>1, <2>2, <2>3, <2>6, <2>7 DEF Memories
<1> QED BY <1>2, <1>3

\* swap keeps storages and pointers in step, and exchanges what the two sides hold.
LEMMA SwapFits ==
  ASSUME NEW m, NEW v, Fits(m, v), NEW l \in Objects, NEW r \in Objects
  PROVE  /\ Fits(SwapMemory(m, v, l, r), SwapPointers(v, l, r))
         /\ SwapMemory(m, v, l, r).cell = [m.cell EXCEPT ![l] = m.cell[r], ![r] = m.cell[l]]
<1> DEFINE t == "temp_storage"
           n == SwapMemory(m, v, l, r)
           w == SwapPointers(v, l, r)
           X == [m.cell EXCEPT ![l] = m.cell[r], ![r] = m.cell[l]]
<1>1. /\ m \in Memories /\ m.cell \in [Storages -> StorageContents] /\ m.bad = FALSE
      /\ v \in [Objects -> Types \cup {Nil}]
      /\ l \in Storages /\ r \in Storages /\ t \in Storages /\ t # l /\ t # r
      /\ m.cell[t] = Raw /\ m.cell[l].type = v[l] /\ m.cell[r].type = v[r]
      /\ Raw \in StorageContents
  BY Places DEF Fits, Memories, StorageContents
<1>2. n \in Memories /\ n.bad = FALSE /\ n.cell = X
  <2>1. CASE l = r
    <3>1. n = m
      BY <2>1 DEF SwapMemory
    <3>2. X = m.cell
      BY <1>1, <2>1
    <3> QED BY <1>1, <3>1, <3>2
  <2>2. CASE l # r
    <3> DEFINE a == Relocate(m, v[l], l, t)
               b == Relocate(a, v[r], r, l)
               z == Relocate(b, v[l], t, r)
    <3>1. n = z
      BY <2>2 DEF SwapMemory
    <3>2. /\ a \in Memories /\ a.bad = FALSE
          /\ a.cell = [m.cell EXCEPT ![t] = m.cell[l], ![l] = Raw]
      BY <1>1, RelocateMoves
    <3>3. a.cell[r].type = v[r] /\ a.cell[l] = Raw
      BY <1>1, <2>2, <3>2
    <3> HIDE DEF a
    <3>4. /\ b \in Memories /\ b.bad = FALSE
          /\ b.cell = [a.cell EXCEPT ![l] = a.cell[r], ![r] = Raw]
      <4> DEFINE T == v[r]
      <4>1. /\ T \in Types \cup {Nil} /\ r # l /\ r \in Storages /\ l \in Storages
            /\ a \in Memories /\ a.bad = FALSE /\ a.cell[r].type = T /\ a.cell[l] = Raw
        BY <1>1, <2>2, <3>2, <3>3
      <4>2. b = Relocate(a, T, r, l)
        OBVIOUS
      <4> HIDE DEF T, b
      <4> QED BY <4>1, <4>2, RelocateMoves
    <3>5. b.cell[t].type = v[l] /\ b.cell[r] = Raw
      BY <1>1, <2>2, <3>2, <3>4
    <3> HIDE DEF b
    <3>6. /\ z \in Memories /\ z.bad = FALSE
          /\ z.cell = [b.cell EXCEPT ![r] = b.cell[t], ![t] = Raw]
      <4> DEFINE T == v[l]
      <4>1. /\ T \in Types \cup {Nil} /\ t # r /\ t \in Storages /\ r \in Storages
            /\ b \in Memories /\ b.bad = FALSE /\ b.cell[t].type = T /\ b.cell[r] = Raw
        BY <1>1, <3>4, <3>5
      <4>2. z = Relocate(b, T, t, r)
        OBVIOUS
      <4> HIDE DEF t, T, z
      <4> QED BY <4>1, <4>2, RelocateMoves
    <3>7. z.cell = X
      <4>1. z.cell \in [Storages -> StorageContents] /\ X \in [Storages -> StorageContents]
        BY <1>1, <3>6 DEF Memories
      <4>2. ASSUME NEW p \in Storages PROVE z.cell[p] = X[p]
        <5>1. a.cell \in [Storages -> StorageContents] /\ b.cell \in [Storages -> StorageContents]
          BY <3>2, <3>4 DEF Memories
        <5>2. a.cell[t] = m.cell[l] /\ b.cell[t] = m.cell[l]
          BY <1>1, <2>2, <3>2, <3>4, <5>1
        <5>3. b.cell[l] = m.cell[r]
          BY <1>1, <2>2, <3>2, <3>4, <5>1
        <5>4. z.cell[t] = Raw /\ z.cell[r] = m.cell[l] /\ z.cell[l] = m.cell[r]
          BY <1>1, <2>2, <3>6, <5>1, <5>2, <5>3
        <5>5. p \notin {t, l, r} => z.cell[p] = m.cell[p]
          BY <1>1, <3>2, <3>4, <3>6, <5>1
        <5> QED BY <1>1, <2>2, <5>4, <5>5
      <4> HIDE DEF X, z
      <4> QED BY <4>1, <4>2
    <3> QED BY <3>1, <3>6, <3>7
  <2> QED BY <2>1, <2>2
<1>3. w \in [Objects -> Types \cup {Nil}]
  BY <1>1 DEF SwapPointers
<1>4. n.cell[t] = Raw
  BY <1>1, <1>2
<1>5. ASSUME NEW p \in Objects
      PROVE  n.cell[p].type = w[p] /\ (w[p] # Nil => n.cell[p] \in Callables)
  <2>1. p \in Storages
    BY Places
  <2>2. \A q \in Objects : m.cell[q].type = v[q] /\ (v[q] # Nil => m.cell[q] \in Callables)
    BY DEF Fits
  <2>3. CASE p = r
    <3>1. n.cell[p] = m.cell[l] /\ w[p] = v[l]
      BY <1>1, <1>2, <2>3 DEF SwapPointers
    <3> QED BY <2>2, <3>1
  <2>4. CASE p # r /\ p = l
    <3>1. n.cell[p] = m.cell[r] /\ w[p] = v[r]
      BY <1>1, <1>2, <2>4 DEF SwapPointers
    <3> QED BY <2>2, <3>1
  <2>5. CASE p # r /\ p # l
    <3>1. n.cell[p] = m.cell[p] /\ w[p] = v[p]
      BY <1>1, <1>2, <2>1, <2>5 DEF SwapPointers
    <3> QED BY <2>2, <3>1
  <2> QED BY <2>3, <2>4, <2>5
<1> HIDE DEF n, w
<1> QED BY <1>2, <1>3, <1>4, <1>5 DEF Fits, n, w

\* A callable created in an empty functor.
LEMMA NewFits ==
  ASSUME NEW m, NEW v, Fits(m, v), NEW f \in Objects, v[f] = Nil,
         NEW c \in Callables
  PROVE  /\ Fits(NewAt(m, f, c), [v EXCEPT ![f] = c.type])
         /\ NewAt(m, f, c).cell = [m.cell EXCEPT ![f] = c]
<1> DEFINE n == NewAt(m, f, c)
           w == [v EXCEPT ![f] = c.type]
<1>1. /\ m.cell \in [Storages -> StorageContents] /\ m.bad = FALSE
      /\ v \in [Objects -> Types \cup {Nil}] /\ f \in Storages /\ f # "temp_storage"
      /\ m.cell["temp_storage"] = Raw /\ m.cell[f].type = Nil
  BY Places DEF Fits, Memories
<1>2. m.cell[f] = Raw /\ c \in StorageContents /\ c.type \in Types
  BY <1>1, RawByType, CallableFacts
<1>3. n = [cell |-> [m.cell EXCEPT ![f] = c], bad |-> FALSE]
  BY <1>1, <1>2 DEF NewAt
<1>4. n \in Memories /\ n.bad = FALSE /\ n.cell = [m.cell EXCEPT ![f] = c]
  BY <1>1, <1>2, <1>3 DEF Memories
<1>5. w \in [Objects -> Types \cup {Nil}] /\ n.cell["temp_storage"] = Raw
  BY <1>1, <1>2, <1>4, Places
<1>6. ASSUME NEW p \in Objects
      PROVE  n.cell[p].type = w[p] /\ (w[p] # Nil => n.cell[p] \in Callables)
  <2>1. p \in Storages
    BY Places
  <2>2. CASE p = f
    BY <1>1, <1>4, <2>2
  <2>3. CASE p # f
    <3>1. n.cell[p] = m.cell[p] /\ w[p] = v[p]
      BY <1>1, <1>4, <2>1, <2>3
    <3> QED BY <3>1 DEF Fits
  <2> QED BY <2>2, <2>3
<1> HIDE DEF n, w
<1> QED BY <1>4, <1>5, <1>6 DEF Fits, n, w

\* The destructor leaves raw bytes and no pointer.
LEMMA DestroyFits ==
  ASSUME NEW m, NEW v, Fits(m, v), NEW f \in Objects
  PROVE  /\ Fits(DestroyObject(m, v, f), [v EXCEPT ![f] = Nil])
         /\ DestroyObject(m, v, f).cell = [m.cell EXCEPT ![f] = Raw]
<1> DEFINE n == DestroyObject(m, v, f)
           w == [v EXCEPT ![f] = Nil]
<1>1. /\ m \in Memories /\ m.cell \in [Storages -> StorageContents] /\ m.bad = FALSE
      /\ v \in [Objects -> Types \cup {Nil}] /\ f \in Storages /\ f # "temp_storage"
      /\ m.cell["temp_storage"] = Raw /\ m.cell[f].type = v[f]
      /\ Raw \in StorageContents
  BY Places DEF Fits, Memories, StorageContents
<1>2. n \in Memories /\ n.bad = FALSE /\ n.cell = [m.cell EXCEPT ![f] = Raw]
  <2>1. CASE v[f] = Nil
    <3>1. n = m /\ m.cell[f] = Raw
      BY <1>1, <2>1, RawByType DEF DestroyObject
    <3> QED BY <1>1, <3>1
  <2>2. CASE v[f] # Nil
    <3>1. n = [cell |-> [m.cell EXCEPT ![f] = Raw], bad |-> FALSE]
      BY <1>1, <2>2 DEF DestroyObject, DestroyAt
    <3> QED BY <1>1, <3>1 DEF Memories
  <2> QED BY <2>1, <2>2
<1>3. w \in [Objects -> Types \cup {Nil}] /\ n.cell["temp_storage"] = Raw
  BY <1>1, <1>2, Places
<1>4. ASSUME NEW p \in Objects
      PROVE  n.cell[p].type = w[p] /\ (w[p] # Nil => n.cell[p] \in Callables)
  <2>1. p \in Storages
    BY Places
  <2>2. CASE p = f
    BY <1>1, <1>2, <2>2 DEF Raw
  <2>3. CASE p # f
    <3>1. n.cell[p] = m.cell[p] /\ w[p] = v[p]
      BY <1>1, <1>2, <2>1, <2>3
    <3> QED BY <3>1 DEF Fits
  <2> QED BY <2>2, <2>3
<1> HIDE DEF n, w
<1> QED BY <1>2, <1>3, <1>4 DEF Fits, n, w

\* The copy constructor: dst gets what g holds, or nothing when that has no copy.
CopyOfCell(g) == IF vptr[g] \in Copyable THEN memory.cell[g] ELSE Raw

\* The copy constructor keeps storages and vtables in step and writes dst only.
LEMMA CopiedFits ==
  ASSUME Fits(memory, vptr), NEW g \in Objects, NEW dst \in Objects, vptr[dst] = Nil
  PROVE  /\ Fits(Copied(g, dst).memory, Copied(g, dst).vptr)
         /\ Copied(g, dst).memory.cell = [memory.cell EXCEPT ![dst] = CopyOfCell(g)]
         /\ \A p \in Objects : p # dst => Copied(g, dst).vptr[p] = vptr[p]
<1>1. /\ memory.cell \in [Storages -> StorageContents] /\ memory.bad = FALSE
      /\ vptr \in [Objects -> Types \cup {Nil}] /\ dst \in Storages
      /\ memory.cell[dst].type = Nil /\ memory.cell[g].type = vptr[g]
      /\ vptr[g] # Nil => memory.cell[g] \in Callables
  BY Places DEF Fits, Memories
<1>2. CASE vptr[g] \in Copyable
  <2> DEFINE c == memory.cell[g]
  <2>1. vptr[g] # Nil /\ c \in Callables /\ c.type = vptr[g]
    BY <1>1, <1>2, FunctorAssumption
  <2>2. NewAt(memory, dst, c).bad \in BOOLEAN
    BY <1>1 DEF NewAt
  <2>3. CopyTo(memory, vptr[g], g, dst) = NewAt(memory, dst, c)
    BY <1>1, <2>1, <2>2 DEF CopyTo, NewAt
  <2>4. Copied(g, dst) = [memory |-> NewAt(memory, dst, c), vptr |-> [vptr EXCEPT ![dst] = c.type]]
    BY <1>2, <2>1, <2>3 DEF Copied
  <2>5. CopyOfCell(g) = c
    BY <1>2 DEF CopyOfCell
  <2> HIDE DEF c
  <2>6. /\ Fits(NewAt(memory, dst, c), [vptr EXCEPT ![dst] = c.type])
        /\ NewAt(memory, dst, c).cell = [memory.cell EXCEPT ![dst] = c]
    BY <2>1, NewFits
  <2> QED BY <1>1, <2>4, <2>5, <2>6
<1>3. CASE vptr[g] \notin Copyable
  <2>1. [vptr EXCEPT ![dst] = Nil] = vptr /\ memory.cell[dst] = Raw
    BY <1>1, RawByType
  <2>2. [memory.cell EXCEPT ![dst] = Raw] = memory.cell
    BY <1>1, <2>1
  <2>3. Copied(g, dst) = [memory |-> memory, vptr |-> vptr]
    BY <1>3, <2>1 DEF Copied
  <2> QED BY <1>3, <2>2, <2>3 DEF CopyOfCell
<1> QED BY <1>2, <1>3

-----------------------------------------------------------------------------
(* What each operation does to the storages.                               *)

Empties == \A p \in Objects : p \notin living => vptr[p] = Nil

\* A functor that is default constructed holds nothing.
LEMMA DefaultConstructCells ==
  ASSUME FunctorInv, NEW f \in Functors, DefaultConstruct(f)
  PROVE  /\ Fits(memory', vptr') /\ Empties'
         /\ memory.cell[f] = Raw /\ memory'.cell = [memory.cell EXCEPT ![f] = Raw]
<1>1. /\ vptr[f] = Nil /\ vptr \in [Objects -> Types \cup {Nil}] /\ f \in Objects /\ f \in Storages
      /\ memory.cell \in [Storages -> StorageContents] /\ memory.cell[f].type = vptr[f]
  BY Places DEF FunctorInv, DefaultConstruct, Fits, Memories
<1>2. vptr' = vptr /\ memory' = memory
  BY <1>1 DEF DefaultConstruct
<1>3. memory.cell[f] = Raw
  BY <1>1, RawByType
<1>4. Empties'
  BY <1>2 DEF FunctorInv, Empties, DefaultConstruct
<1>5. memory'.cell = [memory.cell EXCEPT ![f] = Raw]
  BY <1>1, <1>2, <1>3
<1>6. Fits(memory', vptr')
  BY <1>2 DEF FunctorInv
<1> QED BY <1>3, <1>4, <1>5, <1>6

\* A functor constructed from a callable holds it.
LEMMA ConstructCells ==
  ASSUME FunctorInv, NEW f \in Functors, NEW T \in Types, NEW x \in Values, Construct(f, T, x)
  PROVE  /\ Fits(memory', vptr') /\ Empties'
         /\ memory'.cell = [memory.cell EXCEPT ![f] = [type |-> T, value |-> x]]
<1> DEFINE c == [type |-> T, value |-> x]
<1>1. c \in Callables /\ c.type = T
  BY DEF Callables
<1>2. /\ vptr[f] = Nil /\ f \in Objects /\ Fits(memory, vptr)
      /\ memory' = NewAt(memory, f, c) /\ vptr' = [vptr EXCEPT ![f] = c.type]
  BY Places, <1>1 DEF FunctorInv, Construct
<1>3. vptr \in [Objects -> Types \cup {Nil}]
  BY <1>2 DEF Fits
<1> HIDE DEF c
<1>4. Fits(memory', vptr') /\ memory'.cell = [memory.cell EXCEPT ![f] = c]
  <2>1. vptr[f] = Nil /\ f \in Objects /\ Fits(memory, vptr) /\ c \in Callables
    BY <1>1, <1>2
  <2>2. /\ Fits(NewAt(memory, f, c), [vptr EXCEPT ![f] = c.type])
        /\ NewAt(memory, f, c).cell = [memory.cell EXCEPT ![f] = c]
    BY <2>1, NewFits
  <2> QED BY <1>2, <2>2
<1>5. Empties'
  <2>1. \A p \in Objects : p # f => vptr'[p] = vptr[p]
    BY <1>2, <1>3
  <2>2. living' = living \cup {f}
    BY DEF Construct
  <2> QED BY <2>1, <2>2 DEF FunctorInv, Empties
<1> QED BY <1>4, <1>5 DEF c

\* A copy constructed functor holds what the other one holds, if that can be copied.
LEMMA CopyConstructCells ==
  ASSUME FunctorInv, NEW f \in Functors, NEW g \in Functors, CopyConstruct(f, g)
  PROVE  /\ Fits(memory', vptr') /\ Empties'
         /\ memory'.cell = [memory.cell EXCEPT ![f] = CopyOfCell(g)]
<1>1. /\ vptr[f] = Nil /\ f \in Objects /\ g \in Objects /\ Fits(memory, vptr)
      /\ memory' = Copied(g, f).memory /\ vptr' = Copied(g, f).vptr
  BY Places DEF FunctorInv, CopyConstruct
<1>2. /\ Fits(memory', vptr') /\ memory'.cell = [memory.cell EXCEPT ![f] = CopyOfCell(g)]
      /\ \A p \in Objects : p # f => vptr'[p] = vptr[p]
  BY <1>1, CopiedFits
<1>3. Empties'
  BY <1>2 DEF FunctorInv, Empties, CopyConstruct
<1> QED BY <1>2, <1>3

\* A move constructed functor takes what the other one holds.
LEMMA MoveConstructCells ==
  ASSUME FunctorInv, NEW f \in Functors, NEW g \in Functors, MoveConstruct(f, g)
  PROVE  /\ Fits(memory', vptr') /\ Empties' /\ memory.cell[f] = Raw
         /\ memory'.cell = [memory.cell EXCEPT ![f] = memory.cell[g], ![g] = memory.cell[f]]
<1>1. /\ vptr[f] = Nil /\ f \in Objects /\ g \in Objects /\ Fits(memory, vptr)
      /\ f # g /\ f \in Storages
  BY Places DEF FunctorInv, MoveConstruct
<1>2. vptr \in [Objects -> Types \cup {Nil}] /\ memory.cell \in [Storages -> StorageContents]
  BY <1>1 DEF Fits, Memories
<1>3. [vptr EXCEPT ![f] = Nil] = vptr
  BY <1>1, <1>2
<1>4. memory' = SwapMemory(memory, vptr, f, g) /\ vptr' = SwapPointers(vptr, f, g)
  BY <1>3 DEF MoveConstruct
<1>5. /\ Fits(memory', vptr')
      /\ memory'.cell = [memory.cell EXCEPT ![f] = memory.cell[g], ![g] = memory.cell[f]]
  BY <1>1, <1>4, SwapFits
<1>6. Empties'
  BY <1>1, <1>2, <1>4 DEF FunctorInv, Empties, MoveConstruct, SwapPointers
<1>7. memory.cell[f] = Raw
  BY <1>1, <1>2, RawByType DEF Fits
<1> QED BY <1>5, <1>6, <1>7

\* swap exchanges what two functors hold.
LEMMA SwapCells ==
  ASSUME FunctorInv, NEW f \in Functors, NEW g \in Functors, Swap(f, g)
  PROVE  /\ Fits(memory', vptr') /\ Empties'
         /\ memory'.cell = [memory.cell EXCEPT ![f] = memory.cell[g], ![g] = memory.cell[f]]
<1>1. /\ f \in Objects /\ g \in Objects /\ Fits(memory, vptr)
      /\ memory' = SwapMemory(memory, vptr, f, g) /\ vptr' = SwapPointers(vptr, f, g)
  BY Places DEF FunctorInv, Swap
<1>2. vptr \in [Objects -> Types \cup {Nil}]
  BY <1>1 DEF Fits
<1>3. /\ Fits(memory', vptr')
      /\ memory'.cell = [memory.cell EXCEPT ![f] = memory.cell[g], ![g] = memory.cell[f]]
  BY <1>1, SwapFits
<1>4. Empties'
  BY <1>1, <1>2 DEF FunctorInv, Empties, Swap, SwapPointers
<1> QED BY <1>3, <1>4

\* A copy assignment, which swaps with a copy, leaves the copy in f and no trace of what f held.
LEMMA CopyAssignCells ==
  ASSUME FunctorInv, NEW f \in Functors, NEW g \in Functors, CopyAssign(f, g)
  PROVE  /\ Fits(memory', vptr') /\ Empties'
         /\ \A p \in Functors : memory'.cell[p] = IF p = f THEN CopyOfCell(g) ELSE memory.cell[p]
<1> DEFINE t == "tmp"
           m == Copied(g, t).memory
           v == Copied(g, t).vptr
           n == SwapMemory(m, v, f, t)
           w == SwapPointers(v, f, t)
<1>1. /\ t \in Objects /\ t \in Storages /\ t \notin living /\ f \in Objects /\ g \in Objects
      /\ f \in Storages /\ f # t /\ Fits(memory, vptr) /\ memory.cell \in [Storages -> StorageContents]
  BY Places DEF FunctorInv, Fits, Memories
<1>2. vptr[t] = Nil
  BY <1>1 DEF FunctorInv
<1>3. memory' = DestroyObject(n, w, t) /\ vptr' = [w EXCEPT ![t] = Nil]
  BY DEF CopyAssign
<1>4. /\ Fits(m, v) /\ m.cell = [memory.cell EXCEPT ![t] = CopyOfCell(g)]
      /\ \A p \in Objects : p # t => v[p] = vptr[p]
  BY <1>1, <1>2, CopiedFits
<1> HIDE DEF t, m, v
<1>5. Fits(n, w) /\ n.cell = [m.cell EXCEPT ![f] = m.cell[t], ![t] = m.cell[f]]
  BY <1>1, <1>4, SwapFits
<1>6. v \in [Objects -> Types \cup {Nil}] /\ w \in [Objects -> Types \cup {Nil}]
  BY <1>4, <1>5 DEF Fits
<1>7. \A p \in Objects : p \notin {f, t} => w[p] = vptr[p]
  BY <1>1, <1>4, <1>6 DEF SwapPointers
<1> HIDE DEF n, w
<1>8. Fits(memory', vptr') /\ memory'.cell = [n.cell EXCEPT ![t] = Raw]
  BY <1>1, <1>3, <1>5, DestroyFits
<1>9. Empties'
  BY <1>1, <1>2, <1>3, <1>6, <1>7 DEF FunctorInv, Empties, CopyAssign
<1>10. ASSUME NEW p \in Functors
       PROVE  memory'.cell[p] = IF p = f THEN CopyOfCell(g) ELSE memory.cell[p]
  <2>1. p \in Storages /\ p # t /\ m.cell \in [Storages -> StorageContents] /\ n.cell \in [Storages -> StorageContents]
    BY <1>4, <1>5, Places DEF Fits, Memories, t
  <2>2. m.cell[t] = CopyOfCell(g)
    BY <1>1, <1>4
  <2>3. CASE p = f
    BY <1>1, <1>5, <1>8, <2>1, <2>2, <2>3
  <2>4. CASE p # f
    BY <1>1, <1>4, <1>5, <1>8, <2>1, <2>4
  <2> QED BY <2>3, <2>4
<1> QED BY <1>8, <1>9, <1>10

\* The destructor leaves the storage empty.
LEMMA DestroyCells ==
  ASSUME FunctorInv, NEW f \in Functors, Destroy(f)
  PROVE  /\ Fits(memory', vptr') /\ Empties'
         /\ memory'.cell = [memory.cell EXCEPT ![f] = Raw]
<1>1. /\ f \in Objects /\ Fits(memory, vptr)
      /\ memory' = DestroyObject(memory, vptr, f) /\ vptr' = [vptr EXCEPT ![f] = Nil]
  BY Places DEF FunctorInv, Destroy
<1>2. vptr \in [Objects -> Types \cup {Nil}]
  BY <1>1 DEF Fits
<1>3. Fits(memory', vptr') /\ memory'.cell = [memory.cell EXCEPT ![f] = Raw]
  BY <1>1, DestroyFits
<1>4. Empties'
  BY <1>1, <1>2 DEF FunctorInv, Empties, Destroy
<1> QED BY <1>3, <1>4

\* A call reads the callable the functor holds and changes nothing.
LEMMA CallCells ==
  ASSUME FunctorInv, NEW f \in Functors, Call(f)
  PROVE  /\ memory' = memory /\ vptr' = vptr
         /\ memory.cell[f] \in Callables /\ result' = memory.cell[f].value
<1>1. f \in Objects /\ Fits(memory, vptr) /\ vptr[f] # Nil
  BY Places DEF FunctorInv, Call
<1>2. memory.cell[f] \in Callables /\ memory.cell[f].type = vptr[f] /\ memory \in Memories /\ ~memory.bad
  BY <1>1 DEF Fits
<1>3. memory' = memory
  BY <1>2 DEF Call, Memories
<1> QED BY <1>2, <1>3 DEF Call

-----------------------------------------------------------------------------
\* Every step keeps storages and pointers in step.
LEMMA FunctorStep == FunctorInv /\ [FunctorNext]_functorVars => FunctorInv'
<1> SUFFICES ASSUME FunctorInv, [FunctorNext]_functorVars PROVE FunctorInv'
  OBVIOUS
<1>0. living \in SUBSET Functors /\ result \in Values \cup {Nil}
  BY DEF FunctorInv
<1>1. ASSUME NEW f \in Functors, DefaultConstruct(f) PROVE FunctorInv'
  BY <1>0, <1>1, DefaultConstructCells DEF FunctorInv, Empties, DefaultConstruct
<1>2. ASSUME NEW f \in Functors, Destroy(f) PROVE FunctorInv'
  BY <1>0, <1>2, DestroyCells DEF FunctorInv, Empties, Destroy
<1>3. ASSUME NEW f \in Functors, Call(f) PROVE FunctorInv'
  <2>1. /\ memory' = memory /\ vptr' = vptr /\ living' = living
        /\ memory.cell[f] \in Callables /\ result' = memory.cell[f].value
    BY <1>3, CallCells DEF Call
  <2>2. result' \in Values
    BY <2>1, CallableFacts
  <2> QED BY <2>1, <2>2 DEF FunctorInv
<1>4. ASSUME NEW f \in Functors, NEW T \in Types, NEW x \in Values, Construct(f, T, x)
      PROVE  FunctorInv'
  BY <1>0, <1>4, ConstructCells DEF FunctorInv, Empties, Construct
<1>5. ASSUME NEW f \in Functors, NEW g \in Functors, CopyConstruct(f, g) PROVE FunctorInv'
  BY <1>0, <1>5, CopyConstructCells DEF FunctorInv, Empties, CopyConstruct
<1>6. ASSUME NEW f \in Functors, NEW g \in Functors, MoveConstruct(f, g) PROVE FunctorInv'
  BY <1>0, <1>6, MoveConstructCells DEF FunctorInv, Empties, MoveConstruct
<1>7. ASSUME NEW f \in Functors, NEW g \in Functors, CopyAssign(f, g) PROVE FunctorInv'
  BY <1>0, <1>7, CopyAssignCells DEF FunctorInv, Empties, CopyAssign
<1>8. ASSUME NEW f \in Functors, NEW g \in Functors, MoveAssign(f, g) PROVE FunctorInv'
  BY <1>0, <1>8, SwapCells DEF FunctorInv, Empties, MoveAssign, Swap
<1>9. ASSUME NEW f \in Functors, NEW g \in Functors, CopyThrows(f, g) PROVE FunctorInv'
  BY <1>9 DEF FunctorInv, CopyThrows, functorVars
<1>10. CASE UNCHANGED functorVars
  BY <1>10 DEF FunctorInv, functorVars
<1> QED
  BY <1>1, <1>2, <1>3, <1>4, <1>5, <1>6, <1>7, <1>8, <1>9, <1>10 DEF FunctorNext

\* No functor is constructed at the start.
LEMMA FunctorInvInit == FunctorInit => FunctorInv
<1> SUFFICES ASSUME FunctorInit PROVE FunctorInv
  OBVIOUS
<1>1. /\ memory \in Memories /\ ~memory.bad /\ vptr \in [Objects -> Types \cup {Nil}]
  BY DEF FunctorInit, Memories, StorageContents
<1>2. /\ memory.cell["temp_storage"] = Raw
      /\ \A p \in Objects : memory.cell[p].type = Nil /\ vptr[p] = Nil
  BY Places DEF FunctorInit, Raw
<1> QED BY <1>1, <1>2 DEF FunctorInit, FunctorInv, Fits

\* The inductive invariant holds in every reachable state.
LEMMA FunctorCorrect == FunctorSpec => []FunctorInv
BY FunctorInvInit, FunctorStep, PTL DEF FunctorSpec

\* The type invariant, for every set of types and of values: in particular a call
\* never returns what a moved-from callable holds.
THEOREM FunctorTypeCorrect == FunctorSpec => []FunctorTypeOK
<1>1. FunctorInv => FunctorTypeOK
  BY DEF FunctorInv, Fits, Memories, FunctorTypeOK
<1> QED BY <1>1, FunctorCorrect, PTL

\* Through every sequence of constructions, copies, moves, swaps and destructions a
\* storage holds a live callable exactly while its functor has a pointer to the vtable
\* of its type.
THEOREM StorageInStep == FunctorSpec => []HoldsItsCallable
<1>1. FunctorInv => HoldsItsCallable
  <2> SUFFICES ASSUME FunctorInv, NEW p \in Storages
               PROVE  IF p \in living /\ vptr[p] # Nil
                        THEN memory.cell[p] \in Callables /\ memory.cell[p].type = vptr[p]
                        ELSE memory.cell[p] = Raw
    BY DEF HoldsItsCallable
  <2>1. /\ Fits(memory, vptr) /\ living \subseteq Functors /\ living \subseteq Objects
        /\ memory.cell[p] \in StorageContents
    BY Places DEF FunctorInv, Fits, Memories
  <2>2. CASE p \in Objects
    <3>1. memory.cell[p].type = vptr[p] /\ (vptr[p] # Nil => memory.cell[p] \in Callables)
      BY <2>1, <2>2 DEF Fits
    <3>2. p \notin living => vptr[p] = Nil
      BY <2>2 DEF FunctorInv
    <3> QED BY <2>1, <3>1, <3>2, RawByType
  <2>3. CASE p \notin Objects
    <3>1. p = "temp_storage" /\ p \notin living
      BY <2>1, <2>3 DEF Storages
    <3> QED BY <2>1, <3>1 DEF Fits
  <2> QED BY <2>2, <2>3
<1> QED BY <1>1, FunctorCorrect, PTL

\* No vtable entry is ever applied to raw bytes, to an object of another type or over
\* a live object, whatever the types and however often functors are swapped.
THEOREM VtablesMatch == FunctorSpec => []NoMisuse
<1>1. FunctorInv => NoMisuse
  BY DEF FunctorInv, Fits, NoMisuse
<1> QED BY <1>1, FunctorCorrect, PTL

-----------------------------------------------------------------------------
(* The refinement of FunctorCells.                                         *)

content == [f \in Functors |-> Held(f)]

\* While storages and pointers are in step, a functor's content is what its storage
\* holds.
LEMMA ContentIsCell ==
  ASSUME Fits(memory, vptr), NEW f \in Functors
  PROVE  content[f] = memory.cell[f]
<1>1. /\ f \in Objects /\ f \in Storages /\ memory.cell \in [Storages -> StorageContents]
      /\ memory.cell[f].type = vptr[f]
      /\ vptr[f] # Nil => memory.cell[f] \in Callables
  BY Places DEF Fits, Memories
<1>2. CASE vptr[f] = Nil
  BY <1>1, <1>2, RawByType DEF content, Held
<1>3. CASE vptr[f] # Nil
  <2>1. memory.cell[f] = [type |-> memory.cell[f].type, value |-> memory.cell[f].value]
    BY <1>1, <1>3 DEF Callables
  <2> QED BY <1>1, <1>3, <2>1 DEF content, Held
<1> QED BY <1>2, <1>3

\* Every operation on storages is an operation on cells.
LEMMA CellStep ==
  FunctorInv /\ FunctorInv' /\ [FunctorNext]_functorVars => [Cells!CellNext]_(Cells!cellVars)
<1> SUFFICES ASSUME FunctorInv, FunctorInv', [FunctorNext]_functorVars
             PROVE  [Cells!CellNext]_(Cells!cellVars)
  OBVIOUS
<1> DEFINE old == memory.cell
           new == memory'.cell
<1>0. /\ content = [f \in Functors |-> Held(f)] /\ content' = [f \in Functors |-> Held(f)']
      /\ Raw = Cells!Empty /\ Functors \subseteq Storages
      /\ old \in [Storages -> StorageContents]
  BY Places DEF content, Raw, Cells!Empty, FunctorInv, Fits, Memories
<1>a. \A f \in Functors : content[f] = old[f]
  BY ContentIsCell DEF FunctorInv
<1>b. \A f \in Functors : content'[f] = new[f]
  <2>1. ASSUME NEW f \in Functors PROVE content'[f] = new[f]
    <3>1. (Fits(memory, vptr) => content[f] = memory.cell[f])'
      BY ContentIsCell, PTL
    <3> QED BY <3>1 DEF FunctorInv
  <2> QED BY <2>1
<1>c. DOMAIN content = Functors /\ DOMAIN content' = Functors
  BY DEF content
<1>d. \A g \in Functors : Cells!CopyOf(g) = CopyOfCell(g)
  <2>1. \A g \in Functors : old[g].type = vptr[g]
    BY Places DEF FunctorInv, Fits
  <2> QED BY <1>0, <1>a, <2>1 DEF Cells!CopyOf, CopyOfCell, content
<1>e. ASSUME NEW f \in Functors, NEW c, new = [old EXCEPT ![f] = c]
      PROVE  content' = [content EXCEPT ![f] = c]
  <2>1. \A p \in Functors : content'[p] = [content EXCEPT ![f] = c][p]
    BY <1>0, <1>a, <1>b, <1>c, <1>e
  <2>2. content' = [p \in Functors |-> content'[p]]
    BY <1>c DEF content
  <2>3. [content EXCEPT ![f] = c] = [p \in Functors |-> [content EXCEPT ![f] = c][p]]
    BY <1>c DEF content
  <2> QED BY <2>1, <2>2, <2>3
<1>f. ASSUME NEW f \in Functors, NEW g \in Functors, new = [old EXCEPT ![f] = old[g], ![g] = old[f]]
      PROVE  content' = [content EXCEPT ![f] = content[g], ![g] = content[f]]
  <2>1. \A p \in Functors : content'[p] = [content EXCEPT ![f] = content[g], ![g] = content[f]][p]
    BY <1>0, <1>a, <1>b, <1>c, <1>f
  <2>2. content' = [p \in Functors |-> content'[p]]
    BY <1>c DEF content
  <2>3. [content EXCEPT ![f] = content[g], ![g] = content[f]]
          = [p \in Functors |-> [content EXCEPT ![f] = content[g], ![g] = content[f]][p]]
    BY <1>c DEF content
  <2> QED BY <2>1, <2>2, <2>3
<1>1. ASSUME NEW f \in Functors, DefaultConstruct(f) PROVE Cells!Make(f, Cells!Empty)
  <2>1. new = [old EXCEPT ![f] = Raw]
    BY <1>1, DefaultConstructCells
  <2>2. content' = [content EXCEPT ![f] = Raw]
    BY <2>1, <1>e
  <2> QED BY <1>0, <1>1, <2>2 DEF Cells!Make, DefaultConstruct, content
<1>2. ASSUME NEW f \in Functors, Destroy(f) PROVE Cells!Drop(f)
  <2>1. new = [old EXCEPT ![f] = Raw]
    BY <1>2, DestroyCells
  <2>2. content' = [content EXCEPT ![f] = Raw]
    BY <2>1, <1>e
  <2> QED BY <1>0, <1>2, <2>2 DEF Cells!Drop, Destroy, content
<1>3. ASSUME NEW f \in Functors, Call(f) PROVE Cells!Answer(f)
  <2>1. /\ memory' = memory /\ vptr' = vptr
        /\ old[f] \in Callables /\ result' = old[f].value
    BY <1>3, CallCells
  <2>2. content' = content
    BY <2>1 DEF content, Held
  <2>3. content[f] # Cells!Empty /\ result' = content[f].value
    BY <1>0, <1>a, <2>1, CallableFacts
  <2> QED BY <1>3, <2>2, <2>3 DEF Cells!Answer, Call, content
<1>4. ASSUME NEW f \in Functors, NEW T \in Types, NEW x \in Values, Construct(f, T, x)
      PROVE  Cells!Make(f, [type |-> T, value |-> x])
  <2>1. new = [old EXCEPT ![f] = [type |-> T, value |-> x]]
    BY <1>4, ConstructCells
  <2>2. content' = [content EXCEPT ![f] = [type |-> T, value |-> x]]
    BY <2>1, <1>e
  <2> QED BY <1>4, <2>2 DEF Cells!Make, Construct, content
<1>5. ASSUME NEW f \in Functors, NEW g \in Functors, CopyConstruct(f, g)
      PROVE  g \in living /\ Cells!Make(f, Cells!CopyOf(g))
  <2>1. new = [old EXCEPT ![f] = CopyOfCell(g)]
    BY <1>5, CopyConstructCells
  <2>2. content' = [content EXCEPT ![f] = Cells!CopyOf(g)]
    BY <2>1, <1>d, <1>e
  <2> QED BY <1>5, <2>2 DEF Cells!Make, CopyConstruct, content
<1>6. ASSUME NEW f \in Functors, NEW g \in Functors, MoveConstruct(f, g)
      PROVE  Cells!MakeFrom(f, g)
  <2>1. new = [old EXCEPT ![f] = old[g], ![g] = old[f]] /\ old[f] = Raw
    BY <1>6, MoveConstructCells
  <2>2. content' = [content EXCEPT ![f] = content[g], ![g] = content[f]]
    BY <2>1, <1>f
  <2>3. content[f] = Cells!Empty
    BY <1>0, <1>a, <2>1
  <2>4. content' = [content EXCEPT ![f] = content[g], ![g] = Cells!Empty]
    BY <2>2, <2>3
  <2> QED BY <1>6, <2>4 DEF Cells!MakeFrom, MoveConstruct, content
<1>7. ASSUME NEW f \in Functors, NEW g \in Functors, CopyAssign(f, g)
      PROVE  Cells!Assign(f, g)
  <2>1. \A p \in Functors : new[p] = IF p = f THEN CopyOfCell(g) ELSE old[p]
    BY <1>7, CopyAssignCells
  <2>2. content' = [content EXCEPT ![f] = Cells!CopyOf(g)]
    <3>1. \A p \in Functors : content'[p] = [content EXCEPT ![f] = Cells!CopyOf(g)][p]
      BY <1>a, <1>b, <1>c, <1>d, <2>1
    <3>2. content' = [p \in Functors |-> content'[p]]
      BY <1>c DEF content
    <3>3. [content EXCEPT ![f] = Cells!CopyOf(g)]
            = [p \in Functors |-> [content EXCEPT ![f] = Cells!CopyOf(g)][p]]
      BY <1>c DEF content
    <3> QED BY <3>1, <3>2, <3>3
  <2> QED BY <1>7, <2>2 DEF Cells!Assign, CopyAssign, content
<1>8. ASSUME NEW f \in Functors, NEW g \in Functors, MoveAssign(f, g)
      PROVE  Cells!Exchange(f, g)
  <2>1. new = [old EXCEPT ![f] = old[g], ![g] = old[f]]
    BY <1>8, SwapCells DEF MoveAssign
  <2>2. content' = [content EXCEPT ![f] = content[g], ![g] = content[f]]
    BY <2>1, <1>f
  <2> QED BY <1>8, <2>2 DEF Cells!Exchange, MoveAssign, Swap, content
<1>9. CASE UNCHANGED functorVars
  <2>1. content' = content /\ living' = living /\ result' = result
    BY <1>9 DEF functorVars, content, Held
  <2> QED BY <2>1 DEF Cells!cellVars, content
<1>10. ASSUME NEW f \in Functors, NEW g \in Functors, CopyThrows(f, g)
       PROVE  UNCHANGED functorVars
  BY <1>10 DEF CopyThrows
<1> QED
  BY <1>1, <1>2, <1>3, <1>4, <1>5, <1>6, <1>7, <1>8, <1>9, <1>10 DEF FunctorNext, Cells!CellNext

\* The initial storages are the initial cells.
LEMMA CellsInit == FunctorInit => Cells!CellInit
<1> SUFFICES ASSUME FunctorInit PROVE Cells!CellInit
  OBVIOUS
<1>1. \A f \in Functors : Held(f) = Cells!Empty
  BY Places DEF FunctorInit, Held, Raw, Cells!Empty
<1> QED BY <1>1 DEF FunctorInit, Cells!CellInit

\* The operations on bytes and vtables implement value semantics, for every set of
\* functors and of callable types.
THEOREM FunctorsImplementCells == FunctorSpec => FunctorsAreCells
<1>1. FunctorInit => Cells!CellInit
  BY CellsInit
<1>2. FunctorInv /\ FunctorInv' /\ [FunctorNext]_functorVars => [Cells!CellNext]_(Cells!cellVars)
  BY CellStep
<1> QED BY <1>1, <1>2, FunctorCorrect, PTL DEF FunctorSpec, FunctorsAreCells, Cells!CellSpec

=============================================================================
