---------------------- MODULE IntrusiveTaskQueueProofs ----------------------
(***************************************************************************)
(* Proofs about the pointers of intrusive_task_queue, for every finite set *)
(* of queues and of tasks: following next from the head of a queue visits  *)
(* its tasks in order and comes back, tail names the last of them, and the *)
(* pointer operations implement first-in first-out queues.                 *)
(*                                                                         *)
(* The walk along next is a recursive function.  That it exists and what   *)
(* it visits is proved with the least element of a set of naturals in      *)
(* place of induction.                                                     *)
(***************************************************************************)
EXTENDS IntrusiveTaskQueue, FiniteSetTheorems, SequenceTheorems, WellFoundedInduction, TLAPS

\* Node i of the ring through head h and the tasks of s; the head is before the first
\* and after the last task.
At(h, s, i) == IF i \in 1 .. Len(s) THEN s[i] ELSE h

\* next goes once around the ring, and tail names its last node.
Ring(h, s) ==
  /\ \A i \in 0 .. Len(s) : next[At(h, s, i)] = At(h, s, i + 1)
  /\ tail[h] = At(h, s, Len(s))

\* No task is on two queues or twice on one.
Apart(q) ==
  \A h, g \in Heads : \A i \in 1 .. Len(q[h]), j \in 1 .. Len(q[g]) :
    q[h][i] = q[g][j] => h = g /\ i = j

Rings(q) ==
  /\ q \in [Heads -> Seq(Tasks)]
  /\ Apart(q)
  /\ \A h \in Heads : Ring(h, q[h])

Queues == [h \in Heads |-> Contents(h)]

\* The inductive invariant.
RingInv == LinksOK /\ Rings(Queues)

-----------------------------------------------------------------------------
\* Every set of natural numbers has a least element.
LEMMA LeastElement ==
  ASSUME NEW T, T \subseteq Nat, T # {}
  PROVE  \E x \in T : \A y \in T : x <= y
<1> DEFINE R == OpToRel(<, Nat)
<1>1. IsWellFoundedOn(R, Nat)
  BY NatLessThanWellFounded
<1>2. \A x, y \in Nat : <<y, x>> \in R <=> y < x
  BY DEF OpToRel
<1> HIDE DEF R
<1>3. PICK x \in T : \A y \in T : ~ (<<y, x>> \in R)
  BY <1>1, WFMin
<1>4. ASSUME NEW y \in T PROVE x <= y
  <2>1. x \in Nat /\ y \in Nat
    OBVIOUS
  <2>2. ~(y < x)
    BY <1>2, <1>3, <2>1
  <2> QED BY <2>1, <2>2
<1> QED BY <1>3, <1>4

\* There is a number of nodes.
LEMMA CountIsNat == Count \in Nat /\ IsFiniteSet(Nodes)
<1>1. IsFiniteSet(Nodes)
  BY NodesAssumption, FS_Union DEF Nodes
<1> QED BY <1>1, FS_CardinalityType DEF Count

-----------------------------------------------------------------------------
(* The walk along next.                                                    *)

\* f is a walk of n steps from h.
IsWalk(f, h, n) ==
  /\ f \in [0 .. n -> Nodes]
  /\ f[0] = h
  /\ \A i \in 1 .. n : f[i] = next[f[i - 1]]

\* There is a walk of every length: the shortest length without one would extend a walk.
LEMMA WalkExists ==
  ASSUME next \in [Nodes -> Nodes], NEW h \in Nodes, NEW n \in Nat
  PROVE  \E f : IsWalk(f, h, n)
<1> DEFINE T == {k \in Nat : ~\E f : IsWalk(f, h, k)}
<1>1. SUFFICES ASSUME T # {} PROVE FALSE
  OBVIOUS
<1>2. PICK k \in T : \A y \in T : k <= y
  <2> HIDE DEF T
  <2>1. T \subseteq Nat
    BY DEF T
  <2> QED BY <1>1, <2>1, LeastElement
<1>3. k \in Nat /\ ~\E f : IsWalk(f, h, k)
  OBVIOUS
<1>4. CASE k = 0
  <2>1. IsWalk([i \in 0 .. 0 |-> h], h, 0)
    BY DEF IsWalk
  <2> QED BY <1>3, <1>4, <2>1
<1>5. CASE k # 0
  <2>1. k - 1 \in Nat /\ k - 1 \notin T
    BY <1>2, <1>3, <1>5
  <2>2. PICK f : IsWalk(f, h, k - 1)
    BY <2>1
  <2> DEFINE g == [i \in 0 .. k |-> IF i = k THEN next[f[k - 1]] ELSE f[i]]
  <2>3. f \in [0 .. (k - 1) -> Nodes] /\ f[0] = h /\ \A i \in 1 .. (k - 1) : f[i] = next[f[i - 1]]
    BY <2>2 DEF IsWalk
  <2>4. g \in [0 .. k -> Nodes] /\ g[0] = h
    BY <1>3, <1>5, <2>1, <2>3
  <2>5. ASSUME NEW i \in 1 .. k PROVE g[i] = next[g[i - 1]]
    <3>1. g[i - 1] = f[i - 1]
      BY <1>3
    <3> QED BY <1>3, <2>3, <3>1
  <2>6. IsWalk(g, h, k)
    BY <2>4, <2>5 DEF IsWalk
  <2> QED BY <1>3, <2>6
<1> QED BY <1>4, <1>5

\* Reached(h) is the walk from h.
LEMMA ReachedIsWalk ==
  ASSUME next \in [Nodes -> Nodes], NEW h \in Nodes
  PROVE  IsWalk(Reached(h), h, Count)
<1>1. PICK f : IsWalk(f, h, Count)
  BY CountIsNat, WalkExists
<1> DEFINE E(g) == [i \in 0 .. Count |-> IF i = 0 THEN h ELSE next[g[i - 1]]]
<1>2. f = E(f)
  <2>1. f \in [0 .. Count -> Nodes] /\ f[0] = h /\ \A i \in 1 .. Count : f[i] = next[f[i - 1]]
    BY <1>1 DEF IsWalk
  <2>2. \A i \in 0 .. Count : f[i] = E(f)[i]
    BY <2>1, CountIsNat
  <2> QED BY <2>1, <2>2
<1>3. Reached(h) = E(Reached(h))
  BY <1>2, Zenon DEF Reached
<1> DEFINE r == Reached(h)
<1> HIDE DEF r
<1>4. r = E(r)
  BY <1>3 DEF r
<1>5. /\ DOMAIN r = 0 .. Count /\ r[0] = h /\ \A i \in 1 .. Count : r[i] = next[r[i - 1]]
      /\ r = [i \in 0 .. Count |-> r[i]]
  <2>1. DOMAIN r = DOMAIN E(r) /\ \A i \in 0 .. Count : r[i] = E(r)[i]
    BY <1>4
  <2>2. DOMAIN E(r) = 0 .. Count
    OBVIOUS
  <2>3. r[0] = h /\ \A i \in 1 .. Count : r[i] = next[r[i - 1]]
    BY <2>1, CountIsNat
  <2>4. r = [i \in 0 .. Count |-> r[i]]
    BY <1>4, <2>1, <2>2
  <2> QED BY <2>1, <2>2, <2>3, <2>4
<1>6. \A i \in 0 .. Count : r[i] \in Nodes
  <2> DEFINE T == {i \in 0 .. Count : r[i] \notin Nodes}
  <2> SUFFICES ASSUME T # {} PROVE FALSE
    OBVIOUS
  <2>1. T \subseteq Nat
    BY CountIsNat
  <2>2. PICK k \in T : \A y \in T : k <= y
    <3> HIDE DEF T
    <3> QED BY <2>1, LeastElement
  <2>3. k \in 0 .. Count /\ r[k] \notin Nodes /\ k # 0
    BY <1>5
  <2>4. k - 1 \in 0 .. Count /\ k - 1 \notin T
    <3>1. k \in Nat /\ k - 1 \in 0 .. Count /\ ~(k <= k - 1)
      BY <2>3, CountIsNat
    <3> HIDE DEF T
    <3> QED BY <2>2, <3>1
  <2>5. r[k - 1] \in Nodes
    BY <2>4
  <2>6. k \in 1 .. Count
    BY <2>3, CountIsNat
  <2>7. r[k] = next[r[k - 1]]
    BY <1>5, <2>6
  <2> QED BY <2>3, <2>5, <2>7
<1> QED BY <1>5, <1>6 DEF IsWalk, r

-----------------------------------------------------------------------------
(* The walk along a ring.                                                  *)

\* A ring consists of nodes, with the head in the first place only.
LEMMA NodesOfRing ==
  ASSUME NEW h \in Heads, NEW s \in Seq(Tasks)
  PROVE  /\ Len(s) \in Nat /\ \A i \in 1 .. Len(s) : s[i] \in Tasks /\ s[i] # h
         /\ \A i \in Int : At(h, s, i) \in Nodes
         /\ At(h, s, 0) = h /\ At(h, s, Len(s) + 1) = h
         /\ \A i \in 1 .. Len(s) : At(h, s, i) = s[i]
<1>1. Len(s) \in Nat /\ \A i \in 1 .. Len(s) : s[i] \in Tasks
  BY LenProperties
<1>2. \A i \in 1 .. Len(s) : s[i] # h
  BY <1>1, NodesAssumption
<1> QED BY <1>1, <1>2 DEF At, Nodes

\* No two places of rings hold the same node.
LEMMA PlacesApart ==
  ASSUME NEW q, Rings(q), NEW h \in Heads, NEW g \in Heads,
         NEW i \in 0 .. Len(q[h]), NEW j \in 0 .. Len(q[g]),
         At(h, q[h], i) = At(g, q[g], j)
  PROVE  h = g /\ i = j
<1>1. q[h] \in Seq(Tasks) /\ q[g] \in Seq(Tasks) /\ Heads \cap Tasks = {}
  BY NodesAssumption DEF Rings
<1>2. /\ Len(q[h]) \in Nat /\ Len(q[g]) \in Nat
      /\ \A k \in 1 .. Len(q[h]) : q[h][k] \in Tasks /\ At(h, q[h], k) = q[h][k]
      /\ \A k \in 1 .. Len(q[g]) : q[g][k] \in Tasks /\ At(g, q[g], k) = q[g][k]
      /\ At(h, q[h], 0) = h /\ At(g, q[g], 0) = g
  BY <1>1, NodesOfRing
<1>3. CASE i = 0 /\ j = 0
  BY <1>2, <1>3
<1>4. CASE i = 0 /\ j # 0
  BY <1>1, <1>2, <1>4
<1>5. CASE i # 0 /\ j = 0
  BY <1>1, <1>2, <1>5
<1>6. CASE i # 0 /\ j # 0
  BY <1>2, <1>6 DEF Rings, Apart
<1> QED BY <1>3, <1>4, <1>5, <1>6

\* A ring is no longer than there are nodes.
LEMMA RingFits ==
  ASSUME NEW q, Rings(q), NEW h \in Heads
  PROVE  Len(q[h]) + 1 <= Count
<1> DEFINE L == Len(q[h])
           f == [i \in 0 .. L |-> At(h, q[h], i)]
<1>1. q[h] \in Seq(Tasks) /\ L \in Nat
  BY LenProperties DEF Rings
<1>2. \A i \in 0 .. L : At(h, q[h], i) \in Nodes
  BY <1>1, NodesOfRing
<1>3. \A i, j \in 0 .. L : f[i] = f[j] => i = j
  BY PlacesApart
<1>4. f \in Injection(0 .. L, Nodes)
  BY <1>2, <1>3 DEF Injection, IsInjective
<1> HIDE DEF f
<1>5. Cardinality(0 .. L) <= Cardinality(Nodes)
  BY <1>4, CountIsNat, FS_Injection
<1>6. Cardinality(0 .. L) = L + 1
  <2>1. 0 \in Int /\ L \in Int /\ ~(0 > L)
    BY <1>1
  <2> HIDE DEF L
  <2>2. Cardinality(0 .. L) = IF 0 > L THEN 0 ELSE L - 0 + 1
    BY <2>1, FS_Interval
  <2> QED BY <2>1, <2>2
<1> QED BY <1>5, <1>6 DEF Count

\* The walk from the head of a ring goes around it.
LEMMA WalkOnRing ==
  ASSUME NEW q, Rings(q), next \in [Nodes -> Nodes], NEW h \in Heads
  PROVE  \A i \in 0 .. Len(q[h]) + 1 : Reached(h)[i] = At(h, q[h], i)
<1> DEFINE s == q[h]
           L == Len(s)
           r == Reached(h)
           T == {i \in 0 .. L + 1 : r[i] # At(h, s, i)}
<1>1. s \in Seq(Tasks) /\ L \in Nat /\ L + 1 <= Count /\ Ring(h, s)
  BY RingFits, LenProperties DEF Rings
<1>2. r[0] = h /\ \A i \in 1 .. Count : r[i] = next[r[i - 1]]
  BY ReachedIsWalk DEF IsWalk, Nodes
<1>3. SUFFICES ASSUME T # {} PROVE FALSE
  OBVIOUS
<1> HIDE DEF r, s
<1>4. T \subseteq Nat
  BY <1>1
<1>5. PICK k \in T : \A y \in T : k <= y
  <2> HIDE DEF T
  <2> QED BY <1>3, <1>4, LeastElement
<1>6. k \in 0 .. L + 1 /\ r[k] # At(h, s, k)
  OBVIOUS
<1>7. k # 0
  BY <1>1, <1>2, <1>6, NodesOfRing
<1>8. k \in Nat /\ k - 1 \in 0 .. L /\ k - 1 \in 0 .. L + 1 /\ ~(k <= k - 1) /\ k \in 1 .. Count
  BY <1>1, <1>6, <1>7, CountIsNat
<1>9. k - 1 \notin T
  <2> HIDE DEF T
  <2> QED BY <1>5, <1>8
<1>10. r[k - 1] = At(h, s, k - 1)
  BY <1>8, <1>9
<1>11. r[k] = next[At(h, s, k - 1)]
  BY <1>2, <1>8, <1>10
<1>12. next[At(h, s, k - 1)] = At(h, s, (k - 1) + 1)
  BY <1>1, <1>8 DEF Ring
<1>13. (k - 1) + 1 = k
  BY <1>8
<1> QED BY <1>6, <1>11, <1>12, <1>13

\* What is read from a ring are its tasks.
LEMMA ContentsOfRing ==
  ASSUME NEW q, Rings(q), next \in [Nodes -> Nodes]
  PROVE  Queues = q
<1>1. ASSUME NEW h \in Heads PROVE Contents(h) = q[h]
  <2> DEFINE s == q[h]
             L == Len(s)
             r == Reached(h)
             First(n) == r[n] = h /\ \A j \in 1 .. (n - 1) : r[j] # h
  <2>1. s \in Seq(Tasks) /\ L \in Nat /\ L + 1 <= Count /\ Count \in Nat
    BY RingFits, LenProperties, CountIsNat DEF Rings
  <2>2. /\ \A i \in 1 .. L : r[i] = s[i] /\ s[i] # h
        /\ r[L + 1] = h
    <3>1. \A i \in 0 .. L + 1 : r[i] = At(h, s, i)
      BY WalkOnRing
    <3> HIDE DEF r, s
    <3>2. (\A i \in 1 .. L : At(h, s, i) = s[i] /\ s[i] # h) /\ At(h, s, L + 1) = h
      BY <2>1, NodesOfRing
    <3> QED BY <2>1, <3>1, <3>2
  <2> HIDE DEF r
  <2>3. L + 1 \in 1 .. Count /\ First(L + 1)
    BY <2>1, <2>2
  <2>4. ASSUME NEW n \in 1 .. Count, First(n) PROVE n = L + 1
    <3>1. ~(n <= L)
      BY <2>1, <2>2, <2>4
    <3>2. ~(n > L + 1)
      BY <2>1, <2>2, <2>4
    <3> QED BY <2>1, <3>1, <3>2
  <2> DEFINE n == CHOOSE i \in 1 .. Count : r[i] = h /\ \A j \in 1 .. (i - 1) : r[j] # h
  <2>5. n = L + 1
    <3>1. n \in 1 .. Count /\ First(n)
      BY <2>3
    <3> HIDE DEF n
    <3> QED BY <2>4, <3>1
  <2>6. Contents(h) = [i \in 1 .. (n - 1) |-> r[i]]
    BY <2>3 DEF Contents, r
  <2> HIDE DEF n
  <2>7. n - 1 = L
    BY <2>1, <2>5
  <2>8. s = [i \in 1 .. L |-> s[i]]
    BY <2>1, LenProperties
  <2>9. [i \in 1 .. L |-> r[i]] = [i \in 1 .. L |-> s[i]]
    BY <2>2
  <2> QED BY <2>6, <2>7, <2>8, <2>9
<1>2. q = [h \in Heads |-> q[h]]
  BY DEF Rings
<1> QED BY <1>1, <1>2 DEF Queues

\* A task is on a queue when it is on a ring.
LEMMA OnQueueOfRing ==
  ASSUME NEW q, Rings(q), next \in [Nodes -> Nodes], NEW k \in Tasks
  PROVE  OnQueue(k) <=> \E h \in Heads : \E i \in 1 .. Len(q[h]) : q[h][i] = k
<1>1. ASSUME NEW h \in Heads
      PROVE  /\ Len(q[h]) \in Nat /\ Len(q[h]) + 1 <= Count /\ Count \in Nat
             /\ \A i \in 1 .. Len(q[h]) : Reached(h)[i] = q[h][i] /\ q[h][i] # h
             /\ Reached(h)[Len(q[h]) + 1] = h
  <2>1. q[h] \in Seq(Tasks) /\ Len(q[h]) + 1 <= Count /\ Count \in Nat
    BY RingFits, CountIsNat DEF Rings
  <2>2. \A i \in 0 .. Len(q[h]) + 1 : Reached(h)[i] = At(h, q[h], i)
    BY WalkOnRing
  <2>3. /\ Len(q[h]) \in Nat
        /\ (\A i \in 1 .. Len(q[h]) : At(h, q[h], i) = q[h][i] /\ q[h][i] # h)
        /\ At(h, q[h], Len(q[h]) + 1) = h
    BY <2>1, NodesOfRing
  <2> QED BY <2>1, <2>2, <2>3
<1>2. ASSUME OnQueue(k) PROVE \E h \in Heads : \E i \in 1 .. Len(q[h]) : q[h][i] = k
  <2>1. PICK h \in Heads, i \in 1 .. Count : Reached(h)[i] = k /\ \A j \in 1 .. i : Reached(h)[j] # h
    BY <1>2 DEF OnQueue
  <2>2. i \in 1 .. Len(q[h])
    BY <1>1, <2>1
  <2> QED BY <1>1, <2>1, <2>2
<1>3. ASSUME NEW h \in Heads, NEW i \in 1 .. Len(q[h]), q[h][i] = k PROVE OnQueue(k)
  <2>1. i \in 1 .. Count /\ Reached(h)[i] = k /\ \A j \in 1 .. i : Reached(h)[j] # h
    BY <1>1, <1>3
  <2> QED BY <2>1 DEF OnQueue
<1> QED BY <1>2, <1>3

-----------------------------------------------------------------------------
(* The operations.                                                         *)

\* tail is the last place of the ring, so is_empty() looks at the tasks.
LEMMA TailOfRing ==
  ASSUME NEW q, Rings(q), NEW h \in Heads
  PROVE  /\ tail[h] = At(h, q[h], Len(q[h])) /\ tail[h] \in Nodes /\ next[tail[h]] = h
         /\ IsEmpty(h) <=> Len(q[h]) = 0
         /\ Len(q[h]) # 0 => tail[h] = q[h][Len(q[h])]
<1>1. q[h] \in Seq(Tasks) /\ Ring(h, q[h])
  BY DEF Rings
<1>2. /\ Len(q[h]) \in Nat /\ \A i \in 1 .. Len(q[h]) : q[h][i] \in Tasks /\ q[h][i] # h
      /\ \A i \in Int : At(h, q[h], i) \in Nodes
      /\ At(h, q[h], 0) = h /\ At(h, q[h], Len(q[h]) + 1) = h
      /\ \A i \in 1 .. Len(q[h]) : At(h, q[h], i) = q[h][i]
  BY <1>1, NodesOfRing
<1>3. tail[h] = At(h, q[h], Len(q[h])) /\ next[tail[h]] = At(h, q[h], Len(q[h]) + 1)
  BY <1>1, <1>2 DEF Ring
<1> QED BY <1>2, <1>3 DEF IsEmpty

\* A ring none of whose nodes was written stays as it is.
LEMMA RingUntouched ==
  ASSUME NEW h \in Heads, NEW s \in Seq(Tasks), Ring(h, s), tail'[h] = tail[h],
         \A i \in 0 .. Len(s) : next'[At(h, s, i)] = next[At(h, s, i)]
  PROVE  Ring(h, s)'
BY DEF Ring, At

\* push appends the task.
LEMMA PushRings ==
  ASSUME LinksOK, NEW q, Rings(q), NEW h \in Heads, NEW k \in Tasks, Push(h, k)
  PROVE  /\ Rings([q EXCEPT ![h] = Append(q[h], k)])' /\ LinksOK'
         /\ \A g \in Heads : \A i \in 1 .. Len(q[g]) : q[g][i] # k
<1> DEFINE s == q[h]
           L == Len(s)
           z == Append(s, k)
           p == [q EXCEPT ![h] = z]
<1>1. next \in [Nodes -> Nodes] /\ tail \in [Heads -> Nodes] /\ q \in [Heads -> Seq(Tasks)]
      /\ Apart(q) /\ h \in Nodes /\ k \in Nodes
  BY DEF LinksOK, Rings, Nodes
<1>2. \A g \in Heads : \A i \in 1 .. Len(q[g]) : q[g][i] # k
  BY <1>1, OnQueueOfRing DEF Push
<1>3. /\ s \in Seq(Tasks) /\ L \in Nat /\ Ring(h, s) /\ tail[h] = At(h, s, L) /\ tail[h] \in Nodes
  BY LenProperties, TailOfRing DEF Rings
<1>4. /\ z \in Seq(Tasks) /\ Len(z) = L + 1 /\ z[L + 1] = k /\ \A i \in 1 .. L : z[i] = s[i]
  <2> HIDE DEF s
  <2> QED BY <1>3, AppendProperties
<1>5. tail[h] # k /\ h # k
  <2>1. h # k
    BY NodesAssumption
  <2> QED BY <1>2, <1>3, <2>1 DEF At
<1>6. /\ tail'[h] = k /\ \A g \in Heads : g # h => tail'[g] = tail[g]
      /\ next'[tail[h]] = k /\ next'[k] = h
      /\ \A x \in Nodes : x # tail[h] /\ x # k => next'[x] = next[x]
      /\ next' \in [Nodes -> Nodes] /\ tail' \in [Heads -> Nodes] /\ popped' = popped
  BY <1>1, <1>3, <1>5 DEF Push
<1>7. p \in [Heads -> Seq(Tasks)] /\ p[h] = z /\ \A g \in Heads : g # h => p[g] = q[g]
  BY <1>1, <1>4
<1>8. Apart(p)
  <2> SUFFICES ASSUME NEW a \in Heads, NEW b \in Heads, NEW i \in 1 .. Len(p[a]), NEW j \in 1 .. Len(p[b]),
                      p[a][i] = p[b][j]
               PROVE  a = b /\ i = j
    BY DEF Apart
  <2>1. ASSUME NEW c \in Heads, NEW n \in 1 .. Len(p[c])
        PROVE  \/ c = h /\ n = L + 1 /\ p[c][n] = k
               \/ n \in 1 .. Len(q[c]) /\ p[c][n] = q[c][n] /\ p[c][n] # k
    BY <1>2, <1>3, <1>4, <1>7
  <2>2. \/ a = h /\ i = L + 1 /\ p[a][i] = k
        \/ i \in 1 .. Len(q[a]) /\ p[a][i] = q[a][i] /\ p[a][i] # k
    BY <2>1
  <2>3. \/ b = h /\ j = L + 1 /\ p[b][j] = k
        \/ j \in 1 .. Len(q[b]) /\ p[b][j] = q[b][j] /\ p[b][j] # k
    BY <2>1
  <2> HIDE DEF p
  <2> QED BY <1>1, <2>2, <2>3 DEF Apart
<1> HIDE DEF p, z
<1>9. ASSUME NEW g \in Heads, g # h PROVE Ring(g, q[g])'
  <2>1. q[g] \in Seq(Tasks) /\ Ring(g, q[g]) /\ Len(q[g]) \in Nat
    BY LenProperties DEF Rings
  <2>2. ASSUME NEW i \in 0 .. Len(q[g]) PROVE next'[At(g, q[g], i)] = next[At(g, q[g], i)]
    <3>1. At(g, q[g], i) \in Nodes
      BY <2>1, NodesOfRing
    <3>2. At(g, q[g], i) # tail[h]
      <4>1. L \in 0 .. Len(q[h])
        BY <1>3
      <4> QED BY <1>3, <1>9, <4>1, PlacesApart
    <3>3. At(g, q[g], i) # k
      BY <1>2, NodesAssumption DEF At
    <3> QED BY <1>6, <3>1, <3>2, <3>3
  <2> QED BY <1>6, <1>9, <2>1, <2>2, RingUntouched
<1>10. Ring(h, z)'
  <2>1. tail'[h] = At(h, z, Len(z))
    BY <1>3, <1>4, <1>6 DEF At
  <2>2. ASSUME NEW i \in 0 .. Len(z) PROVE next'[At(h, z, i)] = At(h, z, i + 1)
    <3>1. CASE i = L + 1
      BY <1>3, <1>4, <1>6, <3>1 DEF At
    <3>2. CASE i = L
      <4>1. At(h, z, i) = At(h, s, L) /\ At(h, z, i + 1) = k
        BY <1>3, <1>4, <3>2 DEF At
      <4> QED BY <1>3, <1>6, <4>1
    <3>3. CASE i \in 0 .. (L - 1)
      <4>1. At(h, z, i) = At(h, s, i) /\ At(h, z, i + 1) = At(h, s, i + 1)
        BY <1>3, <1>4, <3>3 DEF At
      <4>2. At(h, s, i) \in Nodes /\ next[At(h, s, i)] = At(h, s, i + 1)
        BY <1>3, <3>3, NodesOfRing DEF Ring
      <4>3. At(h, s, i) # tail[h]
        <5>1. i \in 0 .. L /\ L \in 0 .. L /\ i # L
          BY <1>3, <3>3
        <5> QED BY <1>3, <5>1, PlacesApart
      <4>4. At(h, s, i) # k
        BY <1>2, <1>5 DEF At
      <4> QED BY <1>6, <4>1, <4>2, <4>3, <4>4
    <3> QED BY <1>3, <1>4, <3>1, <3>2, <3>3
  <2> QED BY <2>1, <2>2 DEF Ring, At
<1>11. Rings(p)'
  <2>1. ASSUME NEW g \in Heads PROVE Ring(g, p[g])'
    BY <1>7, <1>9, <1>10
  <2> QED BY <1>7, <1>8, <2>1 DEF Rings, Apart
<1> QED BY <1>2, <1>6, <1>11 DEF LinksOK, p, z

\* pop takes the first task.
LEMMA PopRings ==
  ASSUME LinksOK, NEW q, Rings(q), NEW h \in Heads, Pop(h)
  PROVE  /\ Rings([q EXCEPT ![h] = Tail(q[h])])' /\ LinksOK'
         /\ q[h] # <<>> /\ popped' = Head(q[h])
<1> DEFINE s == q[h]
           L == Len(s)
           z == Tail(s)
           p == [q EXCEPT ![h] = z]
<1>1. next \in [Nodes -> Nodes] /\ tail \in [Heads -> Nodes] /\ q \in [Heads -> Seq(Tasks)]
      /\ Apart(q) /\ h \in Nodes
  BY DEF LinksOK, Rings, Nodes
<1>2. /\ s \in Seq(Tasks) /\ L \in Nat /\ Ring(h, s) /\ tail[h] = s[L] /\ L # 0
      /\ \A i \in 1 .. L : s[i] \in Tasks /\ s[i] # h /\ s[i] \in Nodes
  BY TailOfRing, NodesOfRing DEF Rings, Pop, Nodes
<1>0. Len(s) = L /\ s = q[h]
  OBVIOUS
<1> HIDE DEF s, L
<1>3. s # <<>> /\ Head(s) = s[1]
  BY <1>0, <1>2
<1>4. z \in Seq(Tasks) /\ Len(z) = L - 1 /\ \A i \in 1 .. (L - 1) : z[i] = s[i + 1]
  <2> QED BY <1>0, <1>2, <1>3, HeadTailProperties
<1>5. next[h] = s[1] /\ next[s[1]] = At(h, s, 2)
  <2>1. next[At(h, s, 0)] = At(h, s, 1) /\ next[At(h, s, 1)] = At(h, s, 2)
    BY <1>0, <1>2 DEF Ring
  <2> QED BY <1>0, <1>2, <2>1 DEF At
<1>6. tail[h] = s[1] <=> L = 1
  <2>1. 1 \in 1 .. Len(q[h]) /\ L \in 1 .. Len(q[h])
    BY <1>0, <1>2
  <2>2. q[h][1] = q[h][L] => 1 = L
    BY <1>1, <2>1 DEF Apart
  <2> QED BY <1>0, <1>2, <2>2
<1>7. /\ popped' = s[1]
      /\ tail'[h] = (IF L = 1 THEN h ELSE s[L]) /\ \A g \in Heads : g # h => tail'[g] = tail[g]
      /\ next'[h] = At(h, s, 2) /\ \A x \in Nodes : x # h => next'[x] = next[x]
      /\ next' \in [Nodes -> Nodes] /\ tail' \in [Heads -> Nodes]
  BY <1>1, <1>2, <1>5, <1>6 DEF Pop
<1>8. p \in [Heads -> Seq(Tasks)] /\ p[h] = z /\ \A g \in Heads : g # h => p[g] = q[g]
  BY <1>1, <1>4
<1>9. Apart(p)
  <2> SUFFICES ASSUME NEW a \in Heads, NEW b \in Heads, NEW i \in 1 .. Len(p[a]), NEW j \in 1 .. Len(p[b]),
                      p[a][i] = p[b][j]
               PROVE  a = b /\ i = j
    BY DEF Apart
  <2>1. ASSUME NEW c \in Heads, NEW n \in 1 .. Len(p[c])
        PROVE  \/ c = h /\ n \in Int /\ n + 1 \in 1 .. Len(q[c]) /\ p[c][n] = q[c][n + 1]
               \/ c # h /\ n \in Int /\ n \in 1 .. Len(q[c]) /\ p[c][n] = q[c][n]
    BY <1>0, <1>2, <1>4, <1>8
  <2>2. \/ a = h /\ i \in Int /\ i + 1 \in 1 .. Len(q[a]) /\ p[a][i] = q[a][i + 1]
        \/ a # h /\ i \in Int /\ i \in 1 .. Len(q[a]) /\ p[a][i] = q[a][i]
    BY <2>1
  <2>3. \/ b = h /\ j \in Int /\ j + 1 \in 1 .. Len(q[b]) /\ p[b][j] = q[b][j + 1]
        \/ b # h /\ j \in Int /\ j \in 1 .. Len(q[b]) /\ p[b][j] = q[b][j]
    BY <2>1
  <2> HIDE DEF p
  <2>4. a = h /\ b = h => i + 1 = j + 1
    BY <1>1, <2>2, <2>3 DEF Apart
  <2> QED BY <1>1, <2>2, <2>3, <2>4 DEF Apart
<1> HIDE DEF p, z
<1>10. ASSUME NEW g \in Heads, g # h PROVE Ring(g, q[g])'
  <2>1. q[g] \in Seq(Tasks) /\ Ring(g, q[g]) /\ Len(q[g]) \in Nat
    BY LenProperties DEF Rings
  <2>2. ASSUME NEW i \in 0 .. Len(q[g]) PROVE next'[At(g, q[g], i)] = next[At(g, q[g], i)]
    <3>1. At(g, q[g], i) \in Nodes
      BY <2>1, NodesOfRing
    <3>2. At(g, q[g], i) # h
      BY <1>10, <2>1, NodesOfRing, NodesAssumption DEF At
    <3> QED BY <1>7, <3>1, <3>2
  <2> QED BY <1>7, <1>10, <2>1, <2>2, RingUntouched
<1>11. Ring(h, z)'
  <2>1. tail'[h] = At(h, z, Len(z))
    BY <1>0, <1>2, <1>4, <1>7 DEF At
  <2>2. ASSUME NEW i \in 0 .. Len(z) PROVE next'[At(h, z, i)] = At(h, z, i + 1)
    <3>1. At(h, z, i + 1) = At(h, s, i + 2)
      BY <1>0, <1>2, <1>4 DEF At
    <3>2. CASE i = 0
      BY <1>0, <1>2, <1>4, <1>7, <3>1, <3>2 DEF At
    <3>3. CASE i # 0
      <4>1. i + 1 \in 1 .. L /\ i \in 1 .. (L - 1) /\ (i + 1) + 1 = i + 2
        BY <1>2, <1>4, <3>3
      <4>2. At(h, z, i) = s[i + 1] /\ At(h, s, i + 1) = s[i + 1]
        BY <1>0, <1>4, <4>1 DEF At
      <4>3. next[At(h, s, i + 1)] = At(h, s, (i + 1) + 1)
        BY <1>0, <1>2, <4>1 DEF Ring
      <4> QED BY <1>2, <1>7, <3>1, <4>1, <4>2, <4>3
    <3> QED BY <3>2, <3>3
  <2> QED BY <2>1, <2>2 DEF Ring, At
<1>12. Rings(p)'
  <2>1. ASSUME NEW g \in Heads PROVE Ring(g, p[g])'
    BY <1>8, <1>10, <1>11
  <2> QED BY <1>8, <1>9, <2>1 DEF Rings, Apart
<1>13. s[1] \in Tasks
  BY <1>2
<1> QED BY <1>0, <1>3, <1>7, <1>12, <1>13 DEF LinksOK, p, z

\* Where the elements of the two parts of a concatenation are.
LEMMA Concatenated ==
  ASSUME NEW S, NEW s \in Seq(S), NEW r \in Seq(S)
  PROVE  /\ s \o r \in Seq(S) /\ Len(s \o r) = Len(s) + Len(r)
         /\ \A i \in 1 .. Len(s) : (s \o r)[i] = s[i]
         /\ \A i \in 1 .. Len(r) : (s \o r)[Len(s) + i] = r[i]
<1> DEFINE z == s \o r
           L == Len(s)
           M == Len(r)
<1>1. L \in Nat /\ M \in Nat
  BY LenProperties
<1>2. /\ z \in Seq(S) /\ Len(z) = L + M
      /\ \A i \in 1 .. L + M : z[i] = IF i <= L THEN s[i] ELSE r[i - L]
  BY ConcatProperties
<1> HIDE DEF z, L, M
<1>3. ASSUME NEW i \in 1 .. L PROVE z[i] = s[i]
  BY <1>1, <1>2
<1>4. ASSUME NEW i \in 1 .. M PROVE z[L + i] = r[i]
  <2>1. L + i \in 1 .. L + M /\ ~(L + i <= L) /\ (L + i) - L = i
    BY <1>1
  <2> QED BY <1>2, <2>1
<1> QED BY <1>2, <1>3, <1>4 DEF z, L, M

\* move_back appends the whole other queue and empties it.
LEMMA MoveBackRings ==
  ASSUME LinksOK, NEW q, Rings(q), NEW h \in Heads, NEW g \in Heads, MoveBack(h, g), ~IsEmpty(g)
  PROVE  Rings([q EXCEPT ![h] = q[h] \o q[g], ![g] = <<>>])' /\ LinksOK'
<1> DEFINE s == q[h]
           r == q[g]
           L == Len(s)
           M == Len(r)
           z == s \o r
           p == [q EXCEPT ![h] = z, ![g] = <<>>]
<1>1. next \in [Nodes -> Nodes] /\ tail \in [Heads -> Nodes] /\ q \in [Heads -> Seq(Tasks)]
      /\ Apart(q) /\ h \in Nodes /\ g \in Nodes /\ h # g /\ Heads \cap Tasks = {}
  BY NodesAssumption DEF LinksOK, Rings, Nodes, MoveBack
<1>2. /\ s \in Seq(Tasks) /\ L \in Nat /\ Ring(h, s) /\ tail[h] = At(h, s, L)
      /\ tail[h] \in Nodes /\ next[tail[h]] = h
      /\ r \in Seq(Tasks) /\ M \in Nat /\ Ring(g, r) /\ tail[g] = At(g, r, M)
      /\ tail[g] \in Nodes /\ tail[g] = r[M] /\ M # 0
  BY LenProperties, TailOfRing DEF Rings
<1>0. Len(s) = L /\ s = q[h] /\ Len(r) = M /\ r = q[g]
  OBVIOUS
<1> HIDE DEF s, r, L, M
<1>3. /\ \A i \in 1 .. L : s[i] \in Tasks /\ s[i] \in Nodes
      /\ \A i \in 1 .. M : r[i] \in Tasks /\ r[i] \in Nodes
  BY <1>0, <1>2, LenProperties DEF Nodes
<1>4. /\ z \in Seq(Tasks) /\ Len(z) = L + M /\ \A i \in 1 .. L : z[i] = s[i]
      /\ \A i \in 1 .. M : z[L + i] = r[i]
  <2>1. /\ z \in Seq(Tasks) /\ Len(z) = Len(s) + Len(r)
        /\ \A i \in 1 .. Len(s) : z[i] = s[i]
        /\ \A i \in 1 .. Len(r) : z[Len(s) + i] = r[i]
    BY <1>2, Concatenated
  <2> HIDE DEF z
  <2> QED BY <1>0, <2>1
<1>5. /\ tail[h] # g /\ tail[g] # g /\ tail[g] # h /\ tail[h] # tail[g]
  <2>1. tail[h] # g /\ tail[g] # g /\ tail[g] # h
    BY <1>0, <1>1, <1>2, <1>3 DEF At
  <2>2. L \in 0 .. Len(q[h]) /\ M \in 0 .. Len(q[g])
    BY <1>0, <1>2
  <2>3. tail[h] # tail[g]
    <3>1. At(h, q[h], L) # At(g, q[g], M)
      BY <1>1, <2>2, PlacesApart
    <3> QED BY <1>0, <1>2, <3>1
  <2> QED BY <2>1, <2>3
<1>6. next[g] = r[1]
  <2>1. next[At(g, r, 0)] = At(g, r, 0 + 1)
    BY <1>0, <1>2 DEF Ring
  <2> QED BY <1>0, <1>2, <2>1 DEF At
<1>7. /\ next'[g] = g /\ next'[tail[h]] = r[1] /\ next'[tail[g]] = h
      /\ \A x \in Nodes : x # g /\ x # tail[h] /\ x # tail[g] => next'[x] = next[x]
      /\ next' \in [Nodes -> Nodes]
  <2>1. next' = Splice(next, h, g)
    BY DEF MoveBack
  <2> DEFINE closed == [next EXCEPT ![tail[g]] = next[tail[h]]]
             joined == [closed EXCEPT ![tail[h]] = closed[g]]
  <2>2. next' = [joined EXCEPT ![g] = g]
    BY <2>1 DEF Splice
  <2>3. closed \in [Nodes -> Nodes] /\ closed[g] = r[1] /\ closed[tail[g]] = h
        /\ \A x \in Nodes : x # tail[g] => closed[x] = next[x]
    BY <1>0, <1>1, <1>2, <1>5, <1>6
  <2> HIDE DEF closed
  <2>4. joined \in [Nodes -> Nodes] /\ joined[tail[h]] = r[1] /\ joined[tail[g]] = h
        /\ \A x \in Nodes : x # tail[h] => joined[x] = closed[x]
    BY <1>0, <1>1, <1>2, <1>5, <2>3
  <2> HIDE DEF joined
  <2> QED BY <1>0, <1>1, <1>2, <1>5, <2>2, <2>3, <2>4
<1>8. /\ tail'[h] = tail[g] /\ tail'[g] = g
      /\ \A c \in Heads : c # h /\ c # g => tail'[c] = tail[c]
      /\ tail' \in [Heads -> Nodes] /\ popped' = popped
  BY <1>0, <1>1, <1>2 DEF MoveBack
<1> HIDE DEF z
<1>9. /\ p \in [Heads -> Seq(Tasks)] /\ p[h] = z /\ p[g] = <<>>
      /\ \A c \in Heads : c # h /\ c # g => p[c] = q[c]
  <2>1. <<>> \in Seq(Tasks) /\ z \in Seq(Tasks)
    BY <1>4
  <2> QED BY <1>1, <2>1
<1>10. Apart(p)
  <2> SUFFICES ASSUME NEW a \in Heads, NEW b \in Heads, NEW i \in 1 .. Len(p[a]), NEW j \in 1 .. Len(p[b]),
                      p[a][i] = p[b][j]
               PROVE  a = b /\ i = j
    BY DEF Apart
  <2>1. ASSUME NEW c \in Heads, NEW n \in 1 .. Len(p[c])
        PROVE  \/ c = h /\ n \in 1 .. L /\ p[c][n] = q[h][n]
               \/ c = h /\ n \in Int /\ n - L \in 1 .. M /\ p[c][n] = q[g][n - L]
               \/ c # h /\ c # g /\ n \in 1 .. Len(q[c]) /\ p[c][n] = q[c][n]
    <3>1. CASE c = g
      BY <1>9, <3>1
    <3>2. CASE c = h /\ n <= L
      BY <1>0, <1>2, <1>4, <1>9, <3>2
    <3>3. CASE c = h /\ ~(n <= L)
      <4>1. n \in Int /\ n - L \in 1 .. M /\ L + (n - L) = n
        BY <1>0, <1>2, <1>4, <1>9, <3>3
      <4>2. z[L + (n - L)] = r[n - L]
        BY <1>4, <4>1
      <4> QED BY <1>0, <1>9, <3>3, <4>1, <4>2
    <3>4. CASE c # g /\ c # h
      BY <1>0, <1>9, <3>4
    <3> QED BY <3>1, <3>2, <3>3, <3>4
  <2>2. \/ a = h /\ i \in 1 .. L /\ p[a][i] = q[h][i]
        \/ a = h /\ i \in Int /\ i - L \in 1 .. M /\ p[a][i] = q[g][i - L]
        \/ a # h /\ a # g /\ i \in 1 .. Len(q[a]) /\ p[a][i] = q[a][i]
    BY <2>1
  <2>3. \/ b = h /\ j \in 1 .. L /\ p[b][j] = q[h][j]
        \/ b = h /\ j \in Int /\ j - L \in 1 .. M /\ p[b][j] = q[g][j - L]
        \/ b # h /\ b # g /\ j \in 1 .. Len(q[b]) /\ p[b][j] = q[b][j]
    BY <2>1
  <2> HIDE DEF p
  <2>4. \A c, d \in Heads : \A n \in 1 .. Len(q[c]), m \in 1 .. Len(q[d]) :
          q[c][n] = q[d][m] => c = d /\ n = m
    BY <1>1 DEF Apart
  <2>5. CASE a = h /\ i \in Int /\ i - L \in 1 .. M /\ p[a][i] = q[g][i - L]
    <3>1. b = h /\ j \in Int /\ j - L \in 1 .. M /\ p[b][j] = q[g][j - L]
      BY <1>0, <1>1, <2>3, <2>4, <2>5
    <3>2. i - L = j - L
      BY <1>0, <2>4, <2>5, <3>1
    <3> QED BY <1>0, <1>2, <2>5, <3>1, <3>2
  <2>6. CASE a = h /\ i \in 1 .. L /\ p[a][i] = q[h][i]
    BY <1>0, <1>1, <2>3, <2>4, <2>6
  <2>7. CASE a # h /\ a # g /\ i \in 1 .. Len(q[a]) /\ p[a][i] = q[a][i]
    BY <1>0, <1>1, <2>3, <2>4, <2>7
  <2> QED BY <2>2, <2>5, <2>6, <2>7
<1> HIDE DEF p
<1>11. ASSUME NEW c \in Heads, c # h, c # g PROVE Ring(c, q[c])'
  <2>1. q[c] \in Seq(Tasks) /\ Ring(c, q[c]) /\ Len(q[c]) \in Nat
    BY LenProperties DEF Rings
  <2>2. ASSUME NEW i \in 0 .. Len(q[c]) PROVE next'[At(c, q[c], i)] = next[At(c, q[c], i)]
    <3>1. At(c, q[c], i) \in Nodes
      BY <2>1, NodesOfRing
    <3>2. L \in 0 .. Len(q[h]) /\ M \in 0 .. Len(q[g]) /\ 0 \in 0 .. Len(q[g]) /\ At(g, q[g], 0) = g
      BY <1>0, <1>2 DEF At
    <3>3. At(c, q[c], i) # tail[h]
      BY <1>0, <1>2, <1>11, <3>2, PlacesApart
    <3>4. At(c, q[c], i) # tail[g]
      <4>1. At(c, q[c], i) # At(g, q[g], M)
        BY <1>11, <3>2, PlacesApart
      <4> QED BY <1>0, <1>2, <4>1
    <3>5. At(c, q[c], i) # g
      BY <1>11, <3>2, PlacesApart
    <3> QED BY <1>7, <3>1, <3>3, <3>4, <3>5
  <2> QED BY <1>8, <1>11, <2>1, <2>2, RingUntouched
<1>12. Ring(g, <<>>)'
  BY <1>7, <1>8 DEF Ring, At
<1>13. Ring(h, z)'
  <2>1. tail'[h] = At(h, z, Len(z))
    <3>1. L + M \in 1 .. Len(z) /\ M \in 1 .. M /\ z[L + M] = r[M]
      BY <1>0, <1>2, <1>4
    <3> QED BY <1>0, <1>2, <1>4, <1>8, <3>1 DEF At
  <2>2. ASSUME NEW i \in 0 .. Len(z) PROVE next'[At(h, z, i)] = At(h, z, i + 1)
    <3>1. CASE i \in 0 .. (L - 1)
      <4>1. At(h, z, i) = At(h, s, i) /\ At(h, z, i + 1) = At(h, s, i + 1)
        BY <1>0, <1>2, <1>4, <3>1 DEF At
      <4>2. i \in 0 .. L /\ L \in 0 .. L /\ M \in 0 .. M /\ i # L
        BY <1>0, <1>2, <3>1
      <4>3. At(h, s, i) \in Nodes /\ next[At(h, s, i)] = At(h, s, i + 1)
        BY <1>0, <1>2, <4>2, NodesOfRing DEF Ring
      <4>4. At(h, s, i) # tail[h] /\ At(h, s, i) # tail[g]
        <5>1. i \in 0 .. Len(q[h]) /\ L \in 0 .. Len(q[h]) /\ M \in 0 .. Len(q[g]) /\ i # L
          BY <1>0, <4>2
        <5>2. At(h, q[h], i) # At(h, q[h], L) /\ At(h, q[h], i) # At(g, q[g], M)
          BY <1>1, <5>1, PlacesApart
        <5> QED BY <1>0, <1>2, <5>2
      <4>5. At(h, s, i) # g
        BY <1>0, <1>1, <1>3 DEF At
      <4> QED BY <1>7, <4>1, <4>3, <4>4, <4>5
    <3>2. CASE i = L
      <4>1. At(h, z, i) = tail[h]
        BY <1>0, <1>2, <1>4, <3>2 DEF At
      <4>2. 1 \in 1 .. M /\ L + 1 \in 1 .. Len(z)
        BY <1>0, <1>2, <1>4
      <4>3. At(h, z, i + 1) = r[1]
        BY <1>4, <3>2, <4>2 DEF At
      <4> QED BY <1>7, <4>1, <4>3
    <3>3. CASE i \in L + 1 .. (L + M - 1)
      <4> DEFINE j == i - L
      <4>1. /\ j \in 1 .. M /\ j + 1 \in 1 .. M /\ j \in 0 .. M /\ M \in 0 .. M /\ j # M
            /\ L + j = i /\ L + (j + 1) = i + 1
            /\ L \in 0 .. L /\ i \in 1 .. Len(z) /\ i + 1 \in 1 .. Len(z)
        BY <1>0, <1>2, <1>4, <3>3
      <4> HIDE DEF j
      <4>2. At(h, z, i) = r[j] /\ At(h, z, i + 1) = r[j + 1]
        <5>1. z[L + j] = r[j] /\ z[L + (j + 1)] = r[j + 1]
          BY <1>4, <4>1
        <5> QED BY <4>1, <5>1 DEF At
      <4>3. At(g, r, j) = r[j] /\ At(g, r, j + 1) = r[j + 1]
        BY <1>0, <4>1 DEF At
      <4>4. next[r[j]] = r[j + 1]
        BY <1>0, <1>2, <4>1, <4>3 DEF Ring
      <4>5. At(g, r, j) # tail[h] /\ At(g, r, j) # tail[g]
        <5>1. j \in 0 .. Len(q[g]) /\ L \in 0 .. Len(q[h]) /\ M \in 0 .. Len(q[g]) /\ j # M
          BY <1>0, <4>1
        <5>2. At(g, q[g], j) # At(h, q[h], L) /\ At(g, q[g], j) # At(g, q[g], M)
          BY <1>1, <5>1, PlacesApart
        <5> QED BY <1>0, <1>2, <5>2
      <4>6. r[j] \in Nodes /\ r[j] # g
        BY <1>0, <1>1, <1>3, <4>1
      <4> QED BY <1>7, <4>2, <4>3, <4>4, <4>5, <4>6
    <3>4. CASE i = L + M
      <4>1. M \in 1 .. M /\ L + M \in 1 .. Len(z) /\ z[L + M] = r[M] /\ i + 1 \notin 1 .. Len(z)
        BY <1>0, <1>2, <1>4, <3>4
      <4>2. At(h, z, i) = tail[g] /\ At(h, z, i + 1) = h
        BY <1>0, <1>2, <3>4, <4>1 DEF At
      <4> QED BY <1>7, <4>2
    <3> QED BY <1>0, <1>2, <1>4, <3>1, <3>2, <3>3, <3>4
  <2> QED BY <2>1, <2>2 DEF Ring, At
<1>14. Rings(p)'
  <2>1. ASSUME NEW c \in Heads PROVE Ring(c, p[c])'
    BY <1>9, <1>11, <1>12, <1>13
  <2> QED BY <1>9, <1>10, <2>1 DEF Rings, Apart
<1> QED BY <1>0, <1>7, <1>8, <1>14 DEF LinksOK, p, z

-----------------------------------------------------------------------------
(* The invariant and the theorems.                                         *)

\* At the start every head is a ring of its own.
LEMMA StartRings == LinkInit => RingInv /\ Queues = [h \in Heads |-> <<>>]
<1> SUFFICES ASSUME LinkInit PROVE RingInv /\ Queues = [h \in Heads |-> <<>>]
  OBVIOUS
<1> DEFINE q == [h \in Heads |-> <<>>]
<1>1. LinksOK
  BY DEF LinkInit, LinksOK, Nodes
<1>2. q \in [Heads -> Seq(Tasks)] /\ Apart(q)
  BY DEF Apart
<1>3. ASSUME NEW h \in Heads PROVE Ring(h, <<>>)
  BY DEF LinkInit, Ring, At, Nodes
<1>4. Rings(q)
  BY <1>2, <1>3 DEF Rings
<1> HIDE DEF q
<1>5. Queues = q
  BY <1>1, <1>4, ContentsOfRing DEF LinksOK
<1> QED BY <1>1, <1>4, <1>5 DEF RingInv, q

\* The queues that rings spell out, before and after a step.
LEMMA RingsSpell == \A q : Rings(q) /\ LinksOK => Queues = q
BY ContentsOfRing DEF LinksOK

\* The same of the state after a step.
LEMMA RingsSpellAfter == (\A q : Rings(q) /\ LinksOK => Queues = q)'
BY RingsSpell, PTL

\* Rings after a step are the queues after it.
LEMMA QueuesAfter ==
  ASSUME NEW p, Rings(p)', LinksOK'
  PROVE  RingInv' /\ Queues' = p
<1>1. Queues' = p
  BY RingsSpellAfter
<1> QED BY <1>1 DEF RingInv

\* Every step keeps the rings and does to the queues what TaskQueues says.
LEMMA RingStep ==
  ASSUME RingInv, [LinkNext]_linkVars
  PROVE  RingInv' /\ [Fifo!QNext]_Fifo!queueVars
<1>1. PICK q : q = Queues
  OBVIOUS
<1>2. LinksOK /\ Rings(q) /\ q \in [Heads -> Seq(Tasks)]
  BY <1>1 DEF RingInv, Rings
<1>3. ASSUME NEW h \in Heads, NEW k \in Tasks, Push(h, k)
      PROVE  RingInv' /\ Fifo!QPush(h, k)
  <2> DEFINE p == [q EXCEPT ![h] = Append(q[h], k)]
  <2>1. Rings(p)' /\ LinksOK' /\ \A g \in Heads : \A i \in 1 .. Len(q[g]) : q[g][i] # k
    BY <1>2, <1>3, PushRings
  <2>2. RingInv' /\ Queues' = p
    <3> HIDE DEF p
    <3> QED BY <2>1, QueuesAfter
  <2>3. ASSUME NEW g \in Heads PROVE k \notin Fifo!ToSet(Queues[g])
    BY <1>1, <2>1 DEF Fifo!ToSet
  <2>4. UNCHANGED popped
    BY <1>3 DEF Push
  <2> QED BY <1>1, <2>2, <2>3, <2>4 DEF Fifo!QPush, Fifo!Unqueued, Queues
<1>4. ASSUME NEW h \in Heads, NEW g \in Heads, MoveBack(h, g)
      PROVE  RingInv' /\ Fifo!QMoveBack(h, g)
  <2> DEFINE p == [q EXCEPT ![h] = q[h] \o q[g], ![g] = <<>>]
  <2>1. Rings(p)' /\ LinksOK'
    <3>1. CASE ~IsEmpty(g)
      BY <1>2, <1>4, <3>1, MoveBackRings
    <3>2. CASE IsEmpty(g)
      <4>1. next' = next /\ tail' = tail /\ popped' = popped
        BY <1>4, <3>2 DEF MoveBack
      <4>2. q[g] = <<>>
        BY <1>2, <3>2, TailOfRing, EmptySeq
      <4>3. p = q
        BY <1>2, <4>2
      <4> HIDE DEF p
      <4> QED BY <1>2, <4>1, <4>3 DEF LinksOK, Rings, Ring, Apart, At
    <3> QED BY <3>1, <3>2
  <2>2. RingInv' /\ Queues' = p
    <3> HIDE DEF p
    <3> QED BY <2>1, QueuesAfter
  <2>3. h # g /\ UNCHANGED popped
    BY <1>4 DEF MoveBack
  <2> QED BY <1>1, <2>2, <2>3 DEF Fifo!QMoveBack, Queues
<1>5. ASSUME NEW h \in Heads, Pop(h)
      PROVE  RingInv' /\ Fifo!QPop(h)
  <2> DEFINE p == [q EXCEPT ![h] = Tail(q[h])]
  <2>1. Rings(p)' /\ LinksOK' /\ q[h] # <<>> /\ popped' = Head(q[h])
    BY <1>2, <1>5, PopRings
  <2>2. RingInv' /\ Queues' = p
    <3> HIDE DEF p
    <3> QED BY <2>1, QueuesAfter
  <2> QED BY <1>1, <2>1, <2>2 DEF Fifo!QPop, Queues
<1>6. ASSUME UNCHANGED linkVars
      PROVE  RingInv' /\ UNCHANGED Fifo!queueVars
  <2>1. next' = next /\ tail' = tail /\ popped' = popped
    BY <1>6 DEF linkVars
  <2>2. Rings(q)' /\ LinksOK'
    BY <1>2, <2>1 DEF LinksOK, Rings, Ring, Apart, At
  <2>3. RingInv' /\ Queues' = q
    BY <2>2, QueuesAfter
  <2> QED BY <1>1, <2>1, <2>3 DEF Fifo!queueVars, Queues
<1> QED BY <1>3, <1>4, <1>5, <1>6 DEF LinkNext, Fifo!QNext

\* The pointers form rings in every reachable state.
LEMMA RingsAlways == LinkSpec => []RingInv
<1>1. LinkInit => RingInv
  BY StartRings
<1>2. RingInv /\ [LinkNext]_linkVars => RingInv'
  BY RingStep
<1> QED BY <1>1, <1>2, PTL DEF LinkSpec

\* No pointer leaves the nodes of the queues (intrusive_task_queue.hpp): push, pop and
\* move_back never store a null or foreign pointer in next or tail, and pop of a
\* non-empty queue returns a task, never a head.
THEOREM LinksCorrect == LinkSpec => []LinksOK
<1>1. RingInv => LinksOK
  BY DEF RingInv
<1> QED BY <1>1, RingsAlways, PTL

\* is_empty(), which looks at tail only, agrees with the ring of next pointers, and the
\* tail of a non-empty queue is its last task, for any number of queues and tasks.
THEOREM TailCorrect == LinkSpec => []TailIsLast
<1>1. ASSUME RingInv PROVE TailIsLast
  <2>1. PICK q : q = Queues
    OBVIOUS
  <2>2. Rings(q) /\ q \in [Heads -> Seq(Tasks)]
    BY <1>1, <2>1 DEF RingInv, Rings
  <2>3. ASSUME NEW h \in Heads
        PROVE  /\ Contents(h) # None /\ next[tail[h]] = h
               /\ (IsEmpty(h) <=> Contents(h) = <<>>)
               /\ (~IsEmpty(h) => tail[h] = Contents(h)[Len(Contents(h))])
    <3>1. Contents(h) = q[h]
      BY <2>1 DEF Queues
    <3>2. q[h] \in Seq(Tasks) /\ q[h] # None
      BY <2>2, NodesAssumption
    <3>3. q[h] = <<>> <=> Len(q[h]) = 0
      BY <3>2, EmptySeq
    <3>4. /\ next[tail[h]] = h /\ (IsEmpty(h) <=> Len(q[h]) = 0)
          /\ Len(q[h]) # 0 => tail[h] = q[h][Len(q[h])]
      BY <2>2, TailOfRing
    <3> QED BY <3>1, <3>2, <3>3, <3>4
  <2> QED BY <2>3 DEF TailIsLast
<1> QED BY <1>1, RingsAlways, PTL

\* The pointer operations implement first-in first-out queues: a task that is pushed is
\* popped after the tasks before it, once, and a splice by move_back loses, repeats and
\* reorders nothing, whichever of the two queues is empty.
THEOREM PointersImplementQueues == LinkSpec => PointersAreQueues
<1>1. LinkInit => Fifo!QInit
  BY StartRings, NodesAssumption DEF LinkInit, Fifo!QInit, Queues
<1>2. RingInv /\ [LinkNext]_linkVars => [Fifo!QNext]_Fifo!queueVars
  BY RingStep
<1> QED BY <1>1, <1>2, RingsAlways, PTL DEF LinkSpec, PointersAreQueues, Fifo!QSpec

=============================================================================
