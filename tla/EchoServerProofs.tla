-------------------------- MODULE EchoServerProofs --------------------------
(***************************************************************************)
(* Proofs about message buffers and the echo server, for every message,    *)
(* every number of clients and every size of the buffers and of the        *)
(* kernel's queues: operator+= drops exactly the bytes that were taken, no *)
(* byte of a message is lost or repeated on its way, and what comes back   *)
(* are the blocks that were received, padded.                              *)
(*                                                                         *)
(* The loops over buffers are recursive functions.  What they compute is   *)
(* proved by induction on a set of indices, so that no rule with an        *)
(* operator parameter is needed.                                           *)
(***************************************************************************)
EXTENDS EchoServer, SequenceTheorems, WellFoundedInduction, TLAPS

-----------------------------------------------------------------------------
(* Induction and recursion.                                                *)

\* A set with 0 that has with every number up to n the next one has all of them.
LEMMA Upwards ==
  ASSUME NEW n \in Nat, NEW T, 0 \in T, \A i \in 1 .. n : i - 1 \in T => i \in T
  PROVE  \A i \in 0 .. n : i \in T
<1> DEFINE M == {i \in 0 .. n : i \notin T}
           R == OpToRel(<, Nat)
<1>1. SUFFICES ASSUME M # {} PROVE FALSE
  OBVIOUS
<1>2. IsWellFoundedOn(R, Nat) /\ M \subseteq Nat
  <2>1. IsWellFoundedOn(R, Nat)
    BY NatLessThanWellFounded
  <2>2. M \subseteq Nat
    OBVIOUS
  <2> HIDE DEF R, M
  <2> QED BY <2>1, <2>2
<1>3. \A x, y \in Nat : <<y, x>> \in R <=> y < x
  BY DEF OpToRel
<1>4. PICK k \in M : \A y \in M : ~ (<<y, k>> \in R)
  <2> HIDE DEF R, M
  <2> QED BY <1>1, <1>2, WFMin
<1> HIDE DEF R
<1>5. k \in 0 .. n /\ k \notin T /\ k # 0
  OBVIOUS
<1>6. k - 1 \in 0 .. n /\ k \in 1 .. n /\ k - 1 < k /\ k - 1 \in Nat /\ k \in Nat
  BY <1>5
<1>7. k - 1 \notin M
  <2> HIDE DEF M
  <2> QED BY <1>3, <1>4, <1>6
<1>8. k - 1 \in T
  BY <1>6, <1>7
<1> QED BY <1>5, <1>6, <1>8

\* A run of a loop: its values, from the first on.
IsRun(f, S, base, n, step) ==
  /\ f \in [0 .. n -> S] /\ f[0] = base
  /\ \A i \in 1 .. n : f[i] = step[i][f[i - 1]]

\* Every first value and step function have a run.
LEMMA RunExists ==
  ASSUME NEW S, NEW base \in S, NEW n \in Nat, NEW step \in [1 .. n -> [S -> S]]
  PROVE  \E f : IsRun(f, S, base, n, step)
<1> DEFINE Run(f, m) == /\ f \in [0 .. m -> S] /\ f[0] = base
                        /\ \A i \in 1 .. m : f[i] = step[i][f[i - 1]]
           T == {m \in 0 .. n : \E f : Run(f, m)}
<1>1. 0 \in T
  <2>1. Run([i \in 0 .. 0 |-> base], 0)
    OBVIOUS
  <2>2. 0 \in 0 .. n
    OBVIOUS
  <2> HIDE DEF Run
  <2> QED BY <2>1, <2>2
<1>2. ASSUME NEW m \in 1 .. n, m - 1 \in T PROVE m \in T
  <2>1. PICK f : Run(f, m - 1)
    BY <1>2
  <2> DEFINE g == [i \in 0 .. m |-> IF i = m THEN step[m][f[m - 1]] ELSE f[i]]
  <2>2. f \in [0 .. (m - 1) -> S] /\ m - 1 \in 0 .. (m - 1) /\ f[m - 1] \in S /\ m \in 1 .. n
    BY <2>1
  <2>3. step[m][f[m - 1]] \in S
    BY <2>2
  <2>4. g \in [0 .. m -> S] /\ g[0] = base
    BY <2>1, <2>2, <2>3
  <2>5. ASSUME NEW i \in 1 .. m PROVE g[i] = step[i][g[i - 1]]
    <3>1. g[i - 1] = f[i - 1]
      BY <2>2
    <3> QED BY <2>1, <3>1
  <2>6. Run(g, m)
    BY <2>4, <2>5
  <2>7. m \in 0 .. n
    OBVIOUS
  <2> HIDE DEF Run, g
  <2> QED BY <2>6, <2>7
<1>3. n \in T
  <2> HIDE DEF T
  <2>1. \A i \in 0 .. n : i \in T
    BY <1>1, <1>2, Upwards
  <2> QED BY <2>1
<1>4. PICK f : Run(f, n)
  BY <1>3
<1> QED BY <1>4 DEF IsRun

\* Two runs of the same steps from the same value agree.
LEMMA RunsAgree ==
  ASSUME NEW n \in Nat, NEW f, NEW g, f[0] = g[0],
         \A i \in 1 .. n : f[i - 1] = g[i - 1] => f[i] = g[i]
  PROVE  \A i \in 0 .. n : f[i] = g[i]
<1> DEFINE T == {i \in 0 .. n : f[i] = g[i]}
<1>1. 0 \in T
  OBVIOUS
<1>2. \A i \in 1 .. n : i - 1 \in T => i \in T
  OBVIOUS
<1>3. \A i \in 0 .. n : i \in T
  <2> HIDE DEF T
  <2> QED BY <1>1, <1>2, Upwards
<1> QED BY <1>3

-----------------------------------------------------------------------------
(* Sequences.                                                              *)

Drop(s, k) == SubSeq(s, k + 1, Len(s))

\* What is left of a sequence without its first k elements.
LEMMA DropIs ==
  ASSUME NEW S, NEW s \in Seq(S), NEW k \in 0 .. Len(s)
  PROVE  /\ Drop(s, k) \in Seq(S) /\ Len(Drop(s, k)) = Len(s) - k
         /\ \A i \in 1 .. (Len(s) - k) : Drop(s, k)[i] = s[k + i]
<1>1. Len(s) \in Nat /\ \A i \in 1 .. Len(s) : s[i] \in S
  BY LenProperties
<1> DEFINE L == Len(s)
<1> HIDE DEF L
<1>2. L \in Nat /\ k \in 0 .. L /\ \A i \in 1 .. L : s[i] \in S
  BY <1>1 DEF L
<1>3. k + 1 \in Int /\ L \in Int /\ \A i \in k + 1 .. L : s[i] \in S
  BY <1>2
<1>4. /\ SubSeq(s, k + 1, L) \in Seq(S)
      /\ Len(SubSeq(s, k + 1, L)) = IF k + 1 <= L THEN L - (k + 1) + 1 ELSE 0
      /\ \A i \in 1 .. L - (k + 1) + 1 : SubSeq(s, k + 1, L)[i] = s[(k + 1) + i - 1]
  BY <1>3, SubSeqProperties
<1>5. Drop(s, k) = SubSeq(s, k + 1, L)
  BY DEF Drop, L
<1> DEFINE d == Drop(s, k)
<1> HIDE DEF d
<1>6. /\ d \in Seq(S) /\ Len(d) = IF k + 1 <= L THEN L - (k + 1) + 1 ELSE 0
      /\ \A i \in 1 .. L - (k + 1) + 1 : d[i] = s[(k + 1) + i - 1]
  BY <1>4, <1>5 DEF d
<1>7. Len(d) = L - k
  BY <1>2, <1>6
<1>8. ASSUME NEW i \in 1 .. (L - k) PROVE d[i] = s[k + i]
  <2>1. i \in 1 .. L - (k + 1) + 1 /\ (k + 1) + i - 1 = k + i
    BY <1>2
  <2> QED BY <1>6, <2>1
<1> QED BY <1>6, <1>7, <1>8 DEF d, L

\* A concatenation without its first elements.
LEMMA DropOfConcat ==
  ASSUME NEW S, NEW s \in Seq(S), NEW t \in Seq(S), NEW k \in 0 .. (Len(s) + Len(t))
  PROVE  /\ k <= Len(s) => Drop(s \o t, k) = Drop(s, k) \o t
         /\ k >= Len(s) => Drop(s \o t, k) = Drop(t, k - Len(s))
<1> DEFINE L == Len(s)
           M == Len(t)
           c == s \o t
<1>1. L \in Nat /\ M \in Nat /\ k \in 0 .. (L + M)
  BY LenProperties
<1>2. /\ c \in Seq(S) /\ Len(c) = L + M
      /\ \A i \in 1 .. L + M : c[i] = IF i <= L THEN s[i] ELSE t[i - L]
  BY ConcatProperties
<1>3. /\ Drop(c, k) \in Seq(S) /\ Len(Drop(c, k)) = L + M - k
      /\ \A i \in 1 .. (L + M - k) : Drop(c, k)[i] = c[k + i]
  <2> HIDE DEF c
  <2>1. k \in 0 .. Len(c)
    BY <1>1, <1>2
  <2>2. /\ Drop(c, k) \in Seq(S) /\ Len(Drop(c, k)) = Len(c) - k
        /\ \A i \in 1 .. (Len(c) - k) : Drop(c, k)[i] = c[k + i]
    BY <1>2, <2>1, DropIs
  <2> QED BY <1>2, <2>2
<1>4. ASSUME k <= L PROVE Drop(c, k) = Drop(s, k) \o t
  <2> DEFINE d == Drop(s, k)
  <2>1. k \in 0 .. Len(s)
    BY <1>1, <1>4
  <2>2. d \in Seq(S) /\ Len(d) = L - k /\ \A i \in 1 .. (L - k) : d[i] = s[k + i]
    BY <2>1, DropIs
  <2> HIDE DEF d
  <2>3. /\ d \o t \in Seq(S) /\ Len(d \o t) = Len(d) + M
        /\ \A i \in 1 .. Len(d) + M : (d \o t)[i] = IF i <= Len(d) THEN d[i] ELSE t[i - Len(d)]
    BY <2>2, ConcatProperties
  <2> DEFINE e == d \o t
             u == Drop(c, k)
  <2>4. /\ e \in Seq(S) /\ Len(e) = L - k + M
        /\ \A i \in 1 .. (L - k + M) : e[i] = IF i <= L - k THEN d[i] ELSE t[i - (L - k)]
    BY <2>2, <2>3
  <2>5. /\ u \in Seq(S) /\ Len(u) = L + M - k /\ \A i \in 1 .. (L + M - k) : u[i] = c[k + i]
    BY <1>3
  <2> HIDE DEF e, u, c, L, M
  <2>6. Len(u) = Len(e)
    BY <1>1, <2>4, <2>5
  <2>7. ASSUME NEW i \in 1 .. Len(u) PROVE u[i] = e[i]
    <3>1. i \in 1 .. (L + M - k) /\ i \in 1 .. (L - k + M) /\ k + i \in 1 .. L + M
      BY <1>1, <2>5
    <3>2. u[i] = IF k + i <= L THEN s[k + i] ELSE t[(k + i) - L]
      <4>1. u[i] = c[k + i]
        BY <2>5, <3>1
      <4>2. \A j \in 1 .. L + M : c[j] = IF j <= L THEN s[j] ELSE t[j - L]
        BY <1>2
      <4>3. c[k + i] = IF k + i <= L THEN s[k + i] ELSE t[(k + i) - L]
        BY <3>1, <4>2, Zenon
      <4> QED BY <4>1, <4>3
    <3>3. CASE i <= L - k
      <4>1. k + i <= L /\ i \in 1 .. (L - k)
        BY <1>1, <3>1, <3>3
      <4> QED BY <2>2, <2>4, <3>1, <3>2, <3>3, <4>1
    <3>4. CASE ~(i <= L - k)
      <4>1. ~(k + i <= L) /\ (k + i) - L = i - (L - k)
        BY <1>1, <3>1, <3>4
      <4> QED BY <2>4, <3>1, <3>2, <3>4, <4>1
    <3> QED BY <3>3, <3>4
  <2>8. u = e
    BY <2>4, <2>5, <2>6, <2>7, SeqEqual
  <2> QED BY <2>8 DEF u, e, d
<1>5. ASSUME k >= L PROVE Drop(c, k) = Drop(t, k - L)
  <2> DEFINE e == Drop(t, k - L)
             u == Drop(c, k)
  <2>1. k - L \in 0 .. Len(t)
    BY <1>1, <1>5
  <2>2. /\ e \in Seq(S) /\ Len(e) = M - (k - L)
        /\ \A i \in 1 .. (M - (k - L)) : e[i] = t[k - L + i]
    BY <2>1, DropIs
  <2>3. /\ u \in Seq(S) /\ Len(u) = L + M - k /\ \A i \in 1 .. (L + M - k) : u[i] = c[k + i]
    BY <1>3
  <2> HIDE DEF e, u, c, L, M
  <2>4. Len(u) = Len(e)
    BY <1>1, <2>2, <2>3
  <2>5. ASSUME NEW i \in 1 .. Len(u) PROVE u[i] = e[i]
    <3>1. /\ i \in 1 .. (L + M - k) /\ i \in 1 .. (M - (k - L)) /\ k + i \in 1 .. L + M
          /\ ~(k + i <= L) /\ (k + i) - L = k - L + i
      BY <1>1, <1>5, <2>3
    <3>2. u[i] = c[k + i]
      BY <2>3, <3>1
    <3>3. \A j \in 1 .. L + M : c[j] = IF j <= L THEN s[j] ELSE t[j - L]
      BY <1>2
    <3>4. c[k + i] = t[(k + i) - L]
      BY <3>1, <3>3, Zenon
    <3>5. e[i] = t[k - L + i]
      BY <2>2, <3>1
    <3> QED BY <3>1, <3>2, <3>4, <3>5
  <2>6. u = e
    BY <2>2, <2>3, <2>4, <2>5, SeqEqual
  <2> QED BY <2>6 DEF u, e
<1> QED BY <1>4, <1>5

\* A sequence is its first k elements and the rest.
LEMMA TakeDrop ==
  ASSUME NEW S, NEW s \in Seq(S), NEW k \in 0 .. Len(s)
  PROVE  /\ SubSeq(s, 1, k) \in Seq(S) /\ Len(SubSeq(s, 1, k)) = k
         /\ SubSeq(s, 1, k) \o Drop(s, k) = s
<1> DEFINE L == Len(s)
<1>1. L \in Nat /\ \A i \in 1 .. L : s[i] \in S
  BY LenProperties
<1>2. k \in 0 .. L /\ 1 \in 1 .. L + 1 /\ k \in 1 - 1 .. L /\ L \in k .. L
  BY <1>1
<1>3. SubSeq(s, 1, k) \o SubSeq(s, k + 1, L) = SubSeq(s, 1, L)
  BY <1>2, ConcatAdjacentSubSeq
<1>4. SubSeq(s, 1, L) = s
  BY SubSeqFull
<1> HIDE DEF L
<1>5. 1 \in Int /\ k \in Int /\ \A i \in 1 .. k : s[i] \in S
  BY <1>1, <1>2
<1>6. SubSeq(s, 1, k) \in Seq(S) /\ Len(SubSeq(s, 1, k)) = IF 1 <= k THEN k - 1 + 1 ELSE 0
  BY <1>5, SubSeqProperties
<1>7. Len(SubSeq(s, 1, k)) = k
  BY <1>2, <1>6
<1> QED BY <1>3, <1>4, <1>6, <1>7 DEF Drop, L

-----------------------------------------------------------------------------
(* The bytes of a message.                                                 *)

\* FlattenSeq is the last value of a run that appends one sequence after the other.
IsFlattening(f, seqs, S) ==
  /\ f \in [0 .. Len(seqs) -> Seq(S)] /\ f[0] = <<>>
  /\ \A i \in 1 .. Len(seqs) : f[i] = f[i - 1] \o seqs[i]
  /\ FlattenSeq(seqs) = f[Len(seqs)]

\* The recursive function in FlattenSeq is such a run.
LEMMA Flattening ==
  ASSUME NEW S, NEW seqs \in Seq(Seq(S))
  PROVE  \E f : IsFlattening(f, seqs, S)
<1> DEFINE n == Len(seqs)
           Q == Seq(S)
           step == [i \in 1 .. n |-> [s \in Q |-> s \o seqs[i]]]
           E(g) == [i \in 1 .. n |-> IF i = 1 THEN seqs[i] ELSE g[i - 1] \o seqs[i]]
<1>1. n \in Nat /\ \A i \in 1 .. n : seqs[i] \in Q
  BY LenProperties
<1>2. <<>> \in Q /\ \A s, t \in Q : s \o t \in Q /\ <<>> \o t = t
  BY EmptySeq, ConcatProperties, ConcatEmptySeq
<1>3. n = 0 => seqs = <<>>
  BY EmptySeq
<1>4. step \in [1 .. n -> [Q -> Q]]
  <2> HIDE DEF Q, n
  <2> QED BY <1>1, <1>2
<1> HIDE DEF n, Q
<1>5. PICK f \in [0 .. n -> Q] : f[0] = <<>> /\ \A i \in 1 .. n : f[i] = step[i][f[i - 1]]
  <2> DEFINE e == <<>>
  <2>1. e \in Q
    BY <1>2
  <2> HIDE DEF step, e
  <2>2. PICK f : IsRun(f, Q, e, n, step)
    BY <1>1, <1>4, <2>1, RunExists
  <2> QED BY <2>2 DEF e, IsRun
<1>6. \A i \in 1 .. n : f[i] = f[i - 1] \o seqs[i]
  <2>1. ASSUME NEW i \in 1 .. n PROVE f[i] = f[i - 1] \o seqs[i]
    <3>1. i - 1 \in 0 .. n
      BY <1>1
    <3>2. f[i - 1] \in Q /\ f[i] = step[i][f[i - 1]]
      BY <1>5, <3>1
    <3> QED BY <3>2
  <2> QED BY <2>1
<1>7. FlattenSeq(seqs) = f[n]
  <2>1. CASE n = 0
    BY <1>3, <1>5, <2>1 DEF FlattenSeq, n
  <2>2. CASE n # 0
    <3> DEFINE g == [i \in 1 .. n |-> f[i]]
               h == CHOOSE h : h = E(h)
    <3>1. g = E(g)
      <4>1. \A i \in 1 .. n : E(g)[i] = g[i]
        <5>1. ASSUME NEW i \in 1 .. n, i = 1 PROVE E(g)[i] = g[i]
          <6>1. f[1] = <<>> \o seqs[1] /\ seqs[1] \in Q
            <7>1. 1 \in 1 .. n /\ 1 - 1 = 0
              BY <5>1
            <7>2. f[1] = f[1 - 1] \o seqs[1]
              BY <1>6, <7>1, Zenon
            <7> QED BY <1>1, <1>5, <7>1, <7>2
          <6>2. f[1] = seqs[1]
            BY <1>2, <6>1
          <6> QED BY <5>1, <6>2
        <5>2. ASSUME NEW i \in 1 .. n, i # 1 PROVE E(g)[i] = g[i]
          <6>1. i - 1 \in 1 .. n
            BY <1>1, <5>2
          <6> QED BY <1>6, <5>2, <6>1
        <5> QED BY <5>1, <5>2
      <4> QED BY <4>1
    <3>2. h = E(h)
      BY <3>1, Zenon
    <3>3. FlattenSeq(seqs) = h[n]
      BY <2>2, Zenon DEF FlattenSeq, n
    <3> HIDE DEF h
    <3>4. \A i \in 1 .. n : h[i] = E(h)[i]
      BY <3>2
    <3>5. h[1] = seqs[1] /\ \A i \in 2 .. n : h[i] = h[i - 1] \o seqs[i]
      <4>1. 1 \in 1 .. n
        BY <1>1, <2>2
      <4>2. ASSUME NEW i \in 2 .. n PROVE h[i] = h[i - 1] \o seqs[i]
        <5>1. i \in 1 .. n /\ i # 1
          BY <1>1
        <5>2. E(h)[i] = h[i - 1] \o seqs[i]
          BY <5>1
        <5> QED BY <3>4, <5>1, <5>2
      <4>3. h[1] = seqs[1]
        BY <3>4, <4>1
      <4> QED BY <4>2, <4>3
    <3> DEFINE T == {i \in 0 .. n : i = 0 \/ h[i] = f[i]}
    <3>6. 0 \in T
      BY <1>1
    <3>7. ASSUME NEW i \in 1 .. n, i - 1 \in T PROVE i \in T
      <4>1. CASE i = 1
        <5>1. 1 \in 1 .. n /\ 1 - 1 = 0 /\ 1 \in 0 .. n
          BY <4>1
        <5>2. f[1] = f[1 - 1] \o seqs[1]
          BY <1>6, <5>1, Zenon
        <5>3. f[1] = seqs[1]
          <6>1. f[1 - 1] = <<>> /\ seqs[1] \in Q
            BY <1>1, <1>5, <5>1
          <6> QED BY <1>2, <5>2, <6>1
        <5> QED BY <3>5, <4>1, <5>1, <5>3
      <4>2. CASE i # 1
        <5>1. i \in 2 .. n /\ i - 1 # 0 /\ i \in 0 .. n
          BY <1>1, <4>2
        <5>2. h[i - 1] = f[i - 1]
          BY <3>7, <5>1
        <5>3. h[i] = h[i - 1] \o seqs[i]
          BY <3>5, <5>1, Zenon
        <5>4. f[i] = f[i - 1] \o seqs[i]
          BY <1>6, Zenon
        <5> QED BY <5>1, <5>2, <5>3, <5>4
      <4> QED BY <4>1, <4>2
    <3>8. \A i \in 0 .. n : i \in T
      <4> HIDE DEF T
      <4> QED BY <1>1, <3>6, <3>7, Upwards
    <3>9. h[n] = f[n]
      BY <1>1, <2>2, <3>8
    <3> QED BY <3>3, <3>9
  <2> QED BY <2>1, <2>2
<1> QED BY <1>5, <1>6, <1>7 DEF IsFlattening, n, Q

\* Flattening goes along with appending.
LEMMA FlattenAppend ==
  ASSUME NEW S, NEW seqs \in Seq(Seq(S)), NEW x \in Seq(S)
  PROVE  /\ FlattenSeq(seqs) \in Seq(S)
         /\ FlattenSeq(Append(seqs, x)) = FlattenSeq(seqs) \o x
<1> DEFINE n == Len(seqs)
           more == Append(seqs, x)
<1>1. n \in Nat
  BY LenProperties
<1>2. /\ more \in Seq(Seq(S)) /\ Len(more) = n + 1 /\ more[n + 1] = x
      /\ \A i \in 1 .. n : more[i] = seqs[i]
  BY AppendProperties
<1> HIDE DEF more
<1>3. PICK f : IsFlattening(f, seqs, S)
  BY Flattening
<1>4. PICK g : IsFlattening(g, more, S)
  BY <1>2, Flattening
<1>5. /\ f \in [0 .. n -> Seq(S)] /\ f[0] = <<>> /\ FlattenSeq(seqs) = f[n]
      /\ \A i \in 1 .. n : f[i] = f[i - 1] \o seqs[i]
  BY <1>3 DEF IsFlattening
<1>6. /\ g[0] = <<>> /\ FlattenSeq(more) = g[n + 1]
      /\ \A i \in 1 .. n + 1 : g[i] = g[i - 1] \o more[i]
  BY <1>2, <1>4 DEF IsFlattening
<1> HIDE DEF n
<1>7. \A i \in 1 .. n : f[i - 1] = g[i - 1] => f[i] = g[i]
  <2>1. ASSUME NEW i \in 1 .. n, f[i - 1] = g[i - 1] PROVE f[i] = g[i]
    <3>1. i \in 1 .. n + 1
      BY <1>1
    <3>2. f[i] = f[i - 1] \o seqs[i] /\ g[i] = g[i - 1] \o more[i] /\ more[i] = seqs[i]
      BY <1>2, <1>5, <1>6, <3>1, Zenon
    <3> QED BY <2>1, <3>2, Zenon
  <2> QED BY <2>1
<1>8. \A i \in 0 .. n : f[i] = g[i]
  <2>1. f[0] = g[0]
    BY <1>5, <1>6
  <2> QED BY <1>1, <1>7, <2>1, RunsAgree
<1>9. f[n] = g[n] /\ f[n] \in Seq(S)
  BY <1>1, <1>5, <1>8
<1>10. g[n + 1] = g[n] \o x
  <2>1. n + 1 \in 1 .. n + 1 /\ (n + 1) - 1 = n
    BY <1>1
  <2> QED BY <1>2, <1>6, <2>1
<1> QED BY <1>5, <1>6, <1>9, <1>10 DEF more

\* Nothing flattens to nothing.
LEMMA FlattenEmpty == FlattenSeq(<<>>) = <<>>
BY DEF FlattenSeq

Buffers == [iov_base : Nat, iov_len : Nat]

\* The addresses in a buffer.
Span(b) == [i \in 1 .. b.iov_len |-> b.iov_base + i - 1]

\* A span has the length of its buffer.
LEMMA SpanIs ==
  ASSUME NEW b \in Buffers
  PROVE  Span(b) \in Seq(Nat) /\ Len(Span(b)) = b.iov_len
<1>1. b.iov_len \in Nat /\ b.iov_base \in Nat
  BY DEF Buffers
<1>2. \A i \in 1 .. b.iov_len : b.iov_base + i - 1 \in Nat
  BY <1>1
<1> QED BY <1>1, <1>2 DEF Span

\* The iterator visits the spans in order.
LEMMA BytesIs ==
  ASSUME NEW bs \in Seq(Buffers)
  PROVE  /\ [i \in 1 .. Len(bs) |-> Span(bs[i])] \in Seq(Seq(Nat))
         /\ Bytes(bs) = FlattenSeq([i \in 1 .. Len(bs) |-> Span(bs[i])])
<1>1. Len(bs) \in Nat /\ \A i \in 1 .. Len(bs) : bs[i] \in Buffers
  BY LenProperties
<1> DEFINE n == Len(bs)
           a == [i \in 1 .. Distance(End(bs), Begin(bs)) |-> Subscript(bs, Begin(bs), i - 1)]
           d == [i \in 1 .. n |-> Span(bs[i])]
<1>2. Distance(End(bs), Begin(bs)) = n
  BY <1>1 DEF Distance, End, Begin
<1>3. ASSUME NEW i \in 1 .. n PROVE Subscript(bs, Begin(bs), i - 1) = Span(bs[i])
  <2>1. 0 + (i - 1) + 1 = i
    BY <1>1
  <2>2. bs[0 + (i - 1) + 1] = bs[i]
    BY <2>1
  <2> QED BY <2>2, Zenon DEF Subscript, Deref, Advance, Begin, Span
<1>4. a = d
  BY <1>2, <1>3
<1>5. \A i \in 1 .. n : Span(bs[i]) \in Seq(Nat)
  BY <1>1, SpanIs
<1>6. d \in Seq(Seq(Nat))
  <2> HIDE DEF n
  <2>1. n \in Nat
    BY <1>1 DEF n
  <2> QED BY <1>5, <2>1
<1>7. Bytes(bs) = FlattenSeq(a)
  BY DEF Bytes
<1> QED BY <1>4, <1>6, <1>7

\* One more buffer adds its span.
LEMMA BytesAppend ==
  ASSUME NEW bs \in Seq(Buffers), NEW b \in Buffers
  PROVE  Bytes(bs) \in Seq(Nat) /\ Bytes(Append(bs, b)) = Bytes(bs) \o Span(b)
<1> DEFINE n == Len(bs)
           more == Append(bs, b)
           d == [i \in 1 .. n |-> Span(bs[i])]
           e == [i \in 1 .. Len(more) |-> Span(more[i])]
<1>1. n \in Nat
  BY LenProperties
<1>2. /\ more \in Seq(Buffers) /\ Len(more) = n + 1 /\ more[n + 1] = b
      /\ \A i \in 1 .. n : more[i] = bs[i]
  BY AppendProperties
<1>3. d \in Seq(Seq(Nat)) /\ Bytes(bs) = FlattenSeq(d)
  BY BytesIs
<1>4. Bytes(more) = FlattenSeq(e) /\ e \in Seq(Seq(Nat))
  BY <1>2, BytesIs
<1>5. Span(b) \in Seq(Nat)
  BY SpanIs
<1>6. /\ Append(d, Span(b)) \in Seq(Seq(Nat)) /\ Len(Append(d, Span(b))) = Len(d) + 1
      /\ \A i \in 1 .. Len(d) : Append(d, Span(b))[i] = d[i]
      /\ Append(d, Span(b))[Len(d) + 1] = Span(b)
  <2> HIDE DEF d
  <2> QED BY <1>3, <1>5, AppendProperties
<1>7. Len(d) = n /\ Len(e) = n + 1
  <2>1. DOMAIN d = 1 .. Len(d) /\ Len(d) \in Nat /\ DOMAIN e = 1 .. Len(e) /\ Len(e) \in Nat
    <3> HIDE DEF d, e
    <3> QED BY <1>3, <1>4, LenProperties
  <2>2. DOMAIN d = 1 .. n /\ DOMAIN e = 1 .. (n + 1)
    BY <1>2
  <2> HIDE DEF d, e, n
  <2>3. \A k, l \in Nat : 1 .. k = 1 .. l => k = l
    OBVIOUS
  <2>4. 1 .. Len(d) = 1 .. n /\ 1 .. Len(e) = 1 .. (n + 1)
    BY <2>1, <2>2, Zenon
  <2>5. n \in Nat /\ n + 1 \in Nat /\ Len(d) \in Nat /\ Len(e) \in Nat
    BY <1>1, <2>1
  <2> QED BY <2>3, <2>4, <2>5, Zenon
<1>8. e = Append(d, Span(b))
  <2>1. ASSUME NEW i \in 1 .. (n + 1) PROVE e[i] = Append(d, Span(b))[i]
    <3> HIDE DEF n
    <3>1. e[i] = Span(more[i])
      BY <1>2
    <3>2. CASE i = n + 1
      BY <1>2, <1>6, <1>7, <3>1, <3>2
    <3>3. CASE i # n + 1
      <4>1. i \in 1 .. n
        BY <1>1, <3>3
      <4>2. d[i] = Span(bs[i])
        BY <4>1
      <4> HIDE DEF d, e, more
      <4> QED BY <1>2, <1>6, <1>7, <3>1, <4>1, <4>2
    <3> QED BY <3>2, <3>3
  <2> DEFINE a == Append(d, Span(b))
  <2> HIDE DEF a, e, n
  <2>2. Len(a) = n + 1
    BY <1>6, <1>7 DEF a
  <2> QED BY <1>4, <1>6, <1>7, <2>1, <2>2, SeqEqual DEF a
<1>9. FlattenSeq(d) \in Seq(Nat) /\ FlattenSeq(Append(d, Span(b))) = FlattenSeq(d) \o Span(b)
  <2> HIDE DEF d
  <2> QED BY <1>3, <1>5, FlattenAppend
<1> HIDE DEF d, e
<1> QED BY <1>3, <1>4, <1>8, <1>9

\* No buffers hold nothing.
LEMMA BytesEmpty == Bytes(<<>>) = <<>>
<1>1. <<>> \in Seq(Buffers) /\ Len(<<>>) = 0
  BY EmptySeq
<1>2. Bytes(<<>>) = FlattenSeq([i \in 1 .. Len(<<>>) |-> Span(<<>>[i])])
  BY <1>1, BytesIs
<1>3. [i \in 1 .. Len(<<>>) |-> Span(<<>>[i])] = <<>>
  BY <1>1
<1> QED BY <1>2, <1>3, FlattenEmpty

\* The addresses of a message are numbers.
LEMMA BytesType ==
  ASSUME NEW bs \in Seq(Buffers)
  PROVE  Bytes(bs) \in Seq(Nat)
<1>1. [iov_base |-> 0, iov_len |-> 0] \in Buffers
  BY DEF Buffers
<1> QED BY <1>1, BytesAppend

\* The bytes of the first buffers grow by one span at a time.
LEMMA BytesOfPrefix ==
  ASSUME NEW bs \in Seq(Buffers)
  PROVE  /\ Bytes(SubSeq(bs, 1, 0)) = <<>>
         /\ Bytes(SubSeq(bs, 1, Len(bs))) = Bytes(bs)
         /\ \A i \in 0 .. Len(bs) : Bytes(SubSeq(bs, 1, i)) \in Seq(Nat)
         /\ \A i \in 1 .. Len(bs) :
              Bytes(SubSeq(bs, 1, i)) = Bytes(SubSeq(bs, 1, i - 1)) \o Span(bs[i])
<1> DEFINE n == Len(bs)
<1>1. n \in Nat /\ \A i \in 1 .. n : bs[i] \in Buffers
  BY LenProperties
<1>2. SubSeq(bs, 1, 0) = <<>>
  BY SubSeqEmpty
<1>3. \A i \in 0 .. n : SubSeq(bs, 1, i) \in Seq(Buffers)
  BY TakeDrop
<1>4. ASSUME NEW i \in 1 .. n
      PROVE  Bytes(SubSeq(bs, 1, i)) = Bytes(SubSeq(bs, 1, i - 1)) \o Span(bs[i])
  <2>1. 1 \in 1 .. n /\ i \in 1 .. n /\ i - 1 \in 0 .. n
    BY <1>1
  <2>2. SubSeq(bs, 1, i) = SubSeq(bs, 1, i - 1) \o <<bs[i]>>
    BY <2>1, SubSeqRecursiveSecond
  <2>3. SubSeq(bs, 1, i - 1) \in Seq(Buffers) /\ bs[i] \in Buffers
    BY <1>1, <1>3, <2>1
  <2>4. Append(SubSeq(bs, 1, i - 1), bs[i]) = SubSeq(bs, 1, i - 1) \o <<bs[i]>>
    BY <2>3, AppendIsConcat
  <2>5. Bytes(Append(SubSeq(bs, 1, i - 1), bs[i])) = Bytes(SubSeq(bs, 1, i - 1)) \o Span(bs[i])
    BY <2>3, BytesAppend
  <2> QED BY <2>2, <2>4, <2>5
<1>5. SubSeq(bs, 1, Len(bs)) = bs
  BY SubSeqFull
<1> QED BY <1>2, <1>3, <1>4, <1>5, BytesEmpty, BytesType

-----------------------------------------------------------------------------
(* The loops of message_buffer.                                            *)

RangeSet == [data : Nat, size : Nat, element : Nat]

\* A contiguous range makes a buffer.
LEMMA PushBackType ==
  ASSUME NEW s \in Seq(Buffers), NEW r \in RangeSet
  PROVE  PushBack(s, r) \in Seq(Buffers)
<1>1. r.data \in Nat /\ r.size \in Nat /\ r.element \in Nat
  BY DEF RangeSet
<1>2. r.size * r.element \in Nat
  BY <1>1
<1>3. Buffer(r.data, r.size * r.element) \in Buffers
  BY <1>1, <1>2 DEF Buffer, Buffers
<1> QED BY <1>3, AppendProperties DEF PushBack

\* The constructor makes a sequence of buffers.
LEMMA MakeBuffersType ==
  ASSUME NEW ranges \in Seq(RangeSet)
  PROVE  MakeBuffers(ranges) \in Seq(Buffers)
<1> DEFINE n == Len(ranges)
           Q == Seq(Buffers)
           step == [i \in 1 .. n |-> [s \in Q |-> PushBack(s, ranges[i])]]
           E(g) == [i \in 0 .. n |-> IF i = 0 THEN <<>> ELSE PushBack(g[i - 1], ranges[i])]
           h == CHOOSE g : g = E(g)
<1>1. n \in Nat /\ \A i \in 1 .. n : ranges[i] \in RangeSet
  BY LenProperties
<1>2. <<>> \in Q
  BY EmptySeq
<1>3. \A i \in 1 .. n, s \in Q : PushBack(s, ranges[i]) \in Q
  BY <1>1, PushBackType
<1>4. MakeBuffers(ranges) = h[n]
  BY Zenon DEF MakeBuffers
<1> HIDE DEF n, Q
<1>5. step \in [1 .. n -> [Q -> Q]]
  BY <1>3
<1>6. PICK f : IsRun(f, Q, <<>>, n, step)
  <2> DEFINE e == <<>>
  <2>1. e \in Q
    BY <1>2
  <2> HIDE DEF step, e
  <2>2. \E f : IsRun(f, Q, e, n, step)
    BY <1>1, <1>5, <2>1, RunExists
  <2> QED BY <2>2 DEF e
<1>7. /\ f \in [0 .. n -> Q] /\ f[0] = <<>> /\ \A i \in 1 .. n : f[i] = step[i][f[i - 1]]
  BY <1>6 DEF IsRun
<1>8. ASSUME NEW i \in 1 .. n PROVE f[i] = PushBack(f[i - 1], ranges[i])
  <2>1. i - 1 \in 0 .. n
    BY <1>1
  <2>2. f[i - 1] \in Q /\ f[i] = step[i][f[i - 1]]
    BY <1>7, <2>1
  <2> QED BY <2>2
<1>9. f = E(f)
  <2>1. \A i \in 0 .. n : f[i] = E(f)[i]
    BY <1>1, <1>7, <1>8
  <2> QED BY <1>7, <2>1
<1>10. h = E(h)
  BY <1>9, Zenon
<1> HIDE DEF h
<1>11. h[0] = <<>> /\ \A i \in 1 .. n : h[i] = PushBack(h[i - 1], ranges[i])
  <2>1. \A i \in 0 .. n : h[i] = E(h)[i]
    BY <1>10
  <2> QED BY <1>1, <2>1
<1>12. \A i \in 0 .. n : f[i] = h[i]
  <2>1. f[0] = h[0] /\ \A i \in 1 .. n : f[i - 1] = h[i - 1] => f[i] = h[i]
    BY <1>7, <1>8, <1>11
  <2> QED BY <1>1, <2>1, RunsAgree
<1>13. h[n] \in Q
  BY <1>1, <1>7, <1>12
<1> QED BY <1>4, <1>13 DEF Q

\* empty() is true when no byte is left.
LEMMA IsEmptyIs ==
  ASSUME NEW bs \in Seq(Buffers)
  PROVE  IsEmpty(bs) <=> Bytes(bs) = <<>>
<1> DEFINE n == Len(bs)
           B(i) == Bytes(SubSeq(bs, 1, i))
           E(g) == [i \in 0 .. n |-> IF i = 0 THEN 0 ELSE g[i - 1] + bs[i].iov_len]
           h == CHOOSE g : g = E(g)
           f == [i \in 0 .. n |-> Len(B(i))]
<1>1. n \in Nat /\ \A i \in 1 .. n : bs[i] \in Buffers
  BY LenProperties
<1>2. /\ B(0) = <<>> /\ B(n) = Bytes(bs) /\ \A i \in 0 .. n : B(i) \in Seq(Nat)
      /\ \A i \in 1 .. n : B(i) = B(i - 1) \o Span(bs[i])
  BY BytesOfPrefix
<1>3. IsEmpty(bs) <=> h[n] = 0
  BY Zenon DEF IsEmpty
<1> HIDE DEF n, B
<1>4. f[0] = 0
  BY <1>1, <1>2, EmptySeq
<1>5. ASSUME NEW i \in 1 .. n PROVE f[i] = f[i - 1] + bs[i].iov_len
  <2>1. i \in 0 .. n /\ i - 1 \in 0 .. n
    BY <1>1
  <2>2. B(i) = B(i - 1) \o Span(bs[i]) /\ B(i - 1) \in Seq(Nat)
    BY <1>2, <2>1
  <2>3. Span(bs[i]) \in Seq(Nat) /\ Len(Span(bs[i])) = bs[i].iov_len
    BY <1>1, SpanIs
  <2>4. Len(B(i)) = Len(B(i - 1)) + bs[i].iov_len
    <3> DEFINE p == B(i - 1)
               q == Span(bs[i])
    <3> HIDE DEF p, q
    <3>1. p \in Seq(Nat) /\ q \in Seq(Nat)
      BY <2>2, <2>3 DEF p, q
    <3>2. Len(p \o q) = Len(p) + Len(q)
      BY <3>1, ConcatProperties
    <3> QED BY <2>2, <2>3, <3>2 DEF p, q
  <2> QED BY <2>1, <2>4
<1>6. f = E(f)
  <2>1. \A i \in 0 .. n : f[i] = E(f)[i]
    <3>1. E(f)[0] = 0 /\ \A i \in 1 .. n : E(f)[i] = f[i - 1] + bs[i].iov_len
      BY <1>1
    <3>2. \A i \in 0 .. n : i = 0 \/ i \in 1 .. n
      BY <1>1
    <3> HIDE DEF f, E
    <3> QED BY <1>4, <1>5, <3>1, <3>2
  <2> QED BY <2>1
<1>7. h = E(h)
  BY <1>6, Zenon
<1> HIDE DEF h
<1>8. h[0] = 0 /\ \A i \in 1 .. n : h[i] = h[i - 1] + bs[i].iov_len
  <2>1. \A i \in 0 .. n : h[i] = E(h)[i]
    BY <1>7
  <2> QED BY <1>1, <2>1
<1>9. \A i \in 0 .. n : f[i] = h[i]
  <2> HIDE DEF f
  <2>1. f[0] = h[0] /\ \A i \in 1 .. n : f[i - 1] = h[i - 1] => f[i] = h[i]
    BY <1>4, <1>5, <1>8
  <2> QED BY <1>1, <2>1, RunsAgree
<1>10. h[n] = Len(Bytes(bs))
  BY <1>1, <1>2, <1>9
<1>11. Bytes(bs) \in Seq(Nat)
  BY BytesType
<1> QED BY <1>3, <1>10, <1>11, EmptySeq

Acc == [len : Nat, kept : Seq(Buffers)]

\* What remove_if has done after the buffers with the bytes of s: it is through with
\* the k bytes that were taken and kept what follows them, or it has dropped everything.
Removed(acc, s, k) ==
  IF k <= Len(s) THEN acc.len = 0 /\ Bytes(acc.kept) = Drop(s, k)
                 ELSE acc.len = k - Len(s) /\ acc.kept = <<>>

\* A buffer of which the first bytes are taken.
LEMMA SpanAdvanced ==
  ASSUME NEW b \in Buffers, NEW k \in Nat, k < b.iov_len
  PROVE  /\ AdvanceBuffer(b, k) \in Buffers
         /\ Span(AdvanceBuffer(b, k)) = Drop(Span(b), k)
<1>1. b.iov_len \in Nat /\ b.iov_base \in Nat
  BY DEF Buffers
<1> DEFINE L == b.iov_len
           A == b.iov_base
<1>2. AdvanceBuffer(b, k) = [iov_base |-> A + k, iov_len |-> L - k]
  BY <1>1 DEF AdvanceBuffer, Buffer
<1>3. AdvanceBuffer(b, k) \in Buffers
  BY <1>1, <1>2 DEF Buffers
<1>4. Span(b) \in Seq(Nat) /\ Len(Span(b)) = L /\ k \in 0 .. Len(Span(b))
  BY <1>1, SpanIs
<1> DEFINE d == Drop(Span(b), k)
           e == Span(AdvanceBuffer(b, k))
<1>5. /\ d \in Seq(Nat) /\ Len(d) = L - k
      /\ \A i \in 1 .. (L - k) : d[i] = Span(b)[k + i]
  <2> DEFINE p == Span(b)
  <2> HIDE DEF p
  <2>1. p \in Seq(Nat) /\ Len(p) = L /\ k \in 0 .. Len(p)
    BY <1>4 DEF p
  <2>2. /\ Drop(p, k) \in Seq(Nat) /\ Len(Drop(p, k)) = Len(p) - k
        /\ \A i \in 1 .. (Len(p) - k) : Drop(p, k)[i] = p[k + i]
    BY <2>1, DropIs
  <2> QED BY <2>1, <2>2 DEF p
<1>6. e \in Seq(Nat) /\ Len(e) = L - k
  <2>1. e \in Seq(Nat) /\ Len(e) = AdvanceBuffer(b, k).iov_len
    BY <1>3, SpanIs
  <2>2. AdvanceBuffer(b, k).iov_len = L - k
    BY <1>2
  <2> QED BY <2>1, <2>2
<1>7. ASSUME NEW i \in 1 .. (L - k) PROVE e[i] = d[i]
  <2>1. e[i] = A + k + i - 1
    BY <1>2 DEF Span
  <2>2. k + i \in 1 .. L
    BY <1>1
  <2>3. Span(b)[k + i] = A + (k + i) - 1
    BY <2>2 DEF Span
  <2>4. A + (k + i) - 1 = A + k + i - 1
    BY <1>1
  <2>5. d[i] = Span(b)[k + i]
    BY <1>5
  <2> QED BY <2>1, <2>3, <2>4, <2>5
<1> HIDE DEF d, e
<1>8. e = d
  BY <1>5, <1>6, <1>7, SeqEqual
<1> QED BY <1>3, <1>8 DEF d, e

\* The predicate of remove_if, for the next buffer.
LEMMA RemoveIfUsedStep ==
  ASSUME NEW acc \in Acc, NEW b \in Buffers, NEW s \in Seq(Nat), NEW k \in Nat,
         Removed(acc, s, k)
  PROVE  RemoveIfUsed(acc, b) \in Acc /\ Removed(RemoveIfUsed(acc, b), s \o Span(b), k)
<1> DEFINE L == Len(s)
           M == b.iov_len
           t == Span(b)
           r == RemoveIfUsed(acc, b)
<1>1. L \in Nat /\ M \in Nat /\ t \in Seq(Nat) /\ Len(t) = M
  BY LenProperties, SpanIs DEF Buffers
<1>2. s \o t \in Seq(Nat) /\ Len(s \o t) = L + M
  <2> HIDE DEF t
  <2>1. t \in Seq(Nat)
    BY <1>1
  <2>2. s \o t \in Seq(Nat) /\ Len(s \o t) = Len(s) + Len(t)
    BY <2>1, ConcatProperties
  <2> QED BY <1>1, <2>2
<1>3. acc.len \in Nat /\ acc.kept \in Seq(Buffers) /\ acc = [len |-> acc.len, kept |-> acc.kept]
  BY DEF Acc
<1>4. CASE k <= L
  <2>1. acc.len = 0 /\ Bytes(acc.kept) = Drop(s, k)
    BY <1>4 DEF Removed
  <2>2. r = [len |-> 0, kept |-> Append(acc.kept, b)]
    BY <1>3, <2>1 DEF RemoveIfUsed
  <2>3. Append(acc.kept, b) \in Seq(Buffers) /\ Bytes(Append(acc.kept, b)) = Drop(s, k) \o t
    BY <1>3, <2>1, BytesAppend, AppendProperties
  <2>4. Drop(s \o t, k) = Drop(s, k) \o t
    <3> HIDE DEF t
    <3>1. k \in 0 .. (Len(s) + Len(t)) /\ k <= Len(s)
      BY <1>1, <1>4
    <3> QED BY <1>1, <3>1, DropOfConcat
  <2>5. k <= Len(s \o t)
    BY <1>1, <1>2, <1>4
  <2> DEFINE q == Append(acc.kept, b)
  <2> HIDE DEF q, r, t
  <2>6. r.len = 0 /\ r.kept = q /\ r \in Acc
    BY <2>2, <2>3 DEF q, Acc
  <2> QED BY <2>3, <2>4, <2>5, <2>6 DEF Removed, q, r, t
<1>5. CASE k > L
  <2>1. acc.len = k - L /\ acc.kept = <<>> /\ k - L \in Nat /\ k - L # 0
    BY <1>1, <1>5 DEF Removed
  <2>2. CASE k - L < M
    <3> DEFINE a == AdvanceBuffer(b, k - L)
    <3>1. a \in Buffers /\ Span(a) = Drop(t, k - L)
      BY <2>1, <2>2, SpanAdvanced
    <3>2. r = [len |-> 0, kept |-> Append(<<>>, a)]
      BY <2>1, <2>2 DEF RemoveIfUsed
    <3> HIDE DEF a, r, t
    <3>3. Append(<<>>, a) \in Seq(Buffers) /\ Bytes(Append(<<>>, a)) = <<>> \o Span(a)
      BY <3>1, EmptySeq, AppendProperties, BytesAppend, BytesEmpty
    <3>4. <<>> \o Span(a) = Span(a)
      BY <3>1, SpanIs, ConcatEmptySeq
    <3>5. Drop(s \o t, k) = Drop(t, k - L)
      <4>1. k \in 0 .. (Len(s) + Len(t)) /\ k >= Len(s)
        BY <1>1, <1>5, <2>2
      <4> QED BY <1>1, <4>1, DropOfConcat
    <3>6. k <= Len(s \o t)
      BY <1>1, <1>2, <2>2
    <3>7. r.len = 0 /\ r.kept = Append(<<>>, a) /\ r \in Acc
      BY <3>2, <3>3 DEF Acc
    <3> QED BY <3>1, <3>3, <3>4, <3>5, <3>6, <3>7 DEF Removed, r, t
  <2>3. CASE ~(k - L < M)
    <3>1. r = [len |-> (k - L) - M, kept |-> <<>>]
      BY <1>3, <2>1, <2>3 DEF RemoveIfUsed
    <3>2. (k - L) - M \in Nat
      BY <1>1, <2>1, <2>3
    <3> HIDE DEF r, t
    <3>3. r.len = (k - L) - M /\ r.kept = <<>> /\ r \in Acc
      BY <3>1, <3>2, EmptySeq DEF Acc
    <3>4. CASE k <= L + M
      <4>1. k = L + M /\ (k - L) - M = 0
        <5> HIDE DEF L, M
        <5> QED BY <1>1, <2>1, <2>3, <3>4
      <4>2. Drop(s \o t, k) = <<>>
        <5> DEFINE c == s \o t
        <5> HIDE DEF c
        <5>1. c \in Seq(Nat) /\ Len(c) = k /\ k \in 0 .. Len(c)
          BY <1>2, <4>1 DEF c
        <5>2. Drop(c, k) \in Seq(Nat) /\ Len(Drop(c, k)) = Len(c) - k
          BY <5>1, DropIs
        <5>3. Len(Drop(c, k)) = 0
          BY <5>1, <5>2
        <5>4. Drop(c, k) = <<>>
          BY <5>2, <5>3, EmptySeq
        <5> QED BY <5>4 DEF c
      <4> QED BY <1>2, <3>3, <3>4, <4>1, <4>2, BytesEmpty DEF Removed, r, t
    <3>5. CASE ~(k <= L + M)
      <4>1. (k - L) - M = k - (L + M)
        BY <1>1, <2>1
      <4> QED BY <1>2, <3>3, <3>5, <4>1 DEF Removed, r, t
    <3> QED BY <3>4, <3>5
  <2> QED BY <2>2, <2>3
<1> QED BY <1>1, <1>4, <1>5

\* The predicate keeps a remaining length and a sequence of buffers.
LEMMA RemoveIfUsedType ==
  ASSUME NEW acc \in Acc, NEW b \in Buffers
  PROVE  RemoveIfUsed(acc, b) \in Acc
<1>1. /\ acc.len \in Nat /\ acc.kept \in Seq(Buffers) /\ b.iov_len \in Nat
      /\ acc = [len |-> acc.len, kept |-> acc.kept]
  BY DEF Acc, Buffers
<1>2. CASE acc.len = 0
  <2>1. RemoveIfUsed(acc, b) = [len |-> 0, kept |-> Append(acc.kept, b)]
    BY <1>1, <1>2 DEF RemoveIfUsed
  <2>2. Append(acc.kept, b) \in Seq(Buffers)
    BY <1>1, AppendProperties
  <2> QED BY <2>1, <2>2 DEF Acc
<1>3. CASE acc.len # 0 /\ acc.len < b.iov_len
  <2> DEFINE a == AdvanceBuffer(b, acc.len)
  <2>1. a \in Buffers
    BY <1>1, <1>3, SpanAdvanced
  <2>2. RemoveIfUsed(acc, b) = [len |-> 0, kept |-> Append(acc.kept, a)]
    BY <1>3 DEF RemoveIfUsed
  <2> HIDE DEF a
  <2>3. Append(acc.kept, a) \in Seq(Buffers)
    BY <1>1, <2>1, AppendProperties
  <2> QED BY <2>2, <2>3 DEF Acc
<1>4. CASE acc.len # 0 /\ ~(acc.len < b.iov_len)
  <2>1. RemoveIfUsed(acc, b) = [len |-> acc.len - b.iov_len, kept |-> acc.kept]
    BY <1>1, <1>4 DEF RemoveIfUsed
  <2>2. acc.len - b.iov_len \in Nat
    BY <1>1, <1>4
  <2> QED BY <1>1, <2>1, <2>2 DEF Acc
<1> QED BY <1>2, <1>3, <1>4

\* buffers += k leaves the message without its first k bytes: none is skipped or
\* repeated, whatever the lengths of the buffers, empty ones included.
THEOREM PlusAssignDrops ==
  ASSUME NEW bs \in Seq(Buffers), NEW k \in 0 .. Len(Bytes(bs))
  PROVE  /\ PlusAssign(bs, k) \in Seq(Buffers)
         /\ Bytes(PlusAssign(bs, k)) = Drop(Bytes(bs), k)
<1> DEFINE n == Len(bs)
           B(i) == Bytes(SubSeq(bs, 1, i))
           e == [len |-> k, kept |-> <<>>]
           step == [i \in 1 .. n |-> [a \in Acc |-> RemoveIfUsed(a, bs[i])]]
           E(g) == [i \in 0 .. n |-> IF i = 0 THEN e ELSE RemoveIfUsed(g[i - 1], bs[i])]
           h == CHOOSE g : g = E(g)
<1>1. n \in Nat /\ \A i \in 1 .. n : bs[i] \in Buffers
  BY LenProperties
<1>2. /\ B(0) = <<>> /\ B(n) = Bytes(bs) /\ \A i \in 0 .. n : B(i) \in Seq(Nat)
      /\ \A i \in 1 .. n : B(i) = B(i - 1) \o Span(bs[i])
  BY BytesOfPrefix
<1>3. Bytes(bs) \in Seq(Nat) /\ Len(Bytes(bs)) \in Nat /\ k \in Nat /\ k <= Len(Bytes(bs))
  BY BytesType, LenProperties
<1>4. e \in Acc
  BY <1>3, EmptySeq DEF Acc
<1>5. PlusAssign(bs, k) = h[n].kept
  BY Zenon DEF PlusAssign
<1> HIDE DEF n, B
<1>6. step \in [1 .. n -> [Acc -> Acc]]
  <2>1. \A i \in 1 .. n, a \in Acc : RemoveIfUsed(a, bs[i]) \in Acc
    BY <1>1, RemoveIfUsedType
  <2> QED BY <2>1
<1>7. PICK f : IsRun(f, Acc, e, n, step)
  <2> HIDE DEF step, e
  <2> QED BY <1>1, <1>4, <1>6, RunExists
<1>8. /\ f \in [0 .. n -> Acc] /\ f[0] = e /\ \A i \in 1 .. n : f[i] = step[i][f[i - 1]]
  BY <1>7 DEF IsRun
<1>9. ASSUME NEW i \in 1 .. n
      PROVE  /\ i - 1 \in 0 .. n /\ f[i - 1] \in Acc
             /\ f[i] = RemoveIfUsed(f[i - 1], bs[i])
  <2>1. i - 1 \in 0 .. n
    BY <1>1
  <2>2. f[i - 1] \in Acc /\ f[i] = step[i][f[i - 1]]
    BY <1>8, <2>1
  <2> QED BY <2>1, <2>2
<1>10. f = E(f)
  <2>1. E(f)[0] = e /\ \A i \in 1 .. n : E(f)[i] = RemoveIfUsed(f[i - 1], bs[i])
    BY <1>1
  <2>2. \A i \in 0 .. n : i = 0 \/ i \in 1 .. n
    BY <1>1
  <2>3. \A i \in 0 .. n : f[i] = E(f)[i]
    <3> HIDE DEF E, e
    <3> QED BY <1>8, <1>9, <2>1, <2>2
  <2> QED BY <1>8, <2>3
<1>11. h = E(h)
  BY <1>10, Zenon
<1> HIDE DEF h
<1>12. h[0] = e /\ \A i \in 1 .. n : h[i] = RemoveIfUsed(h[i - 1], bs[i])
  <2>1. \A i \in 0 .. n : h[i] = E(h)[i]
    BY <1>11
  <2>2. E(h)[0] = e /\ \A i \in 1 .. n : E(h)[i] = RemoveIfUsed(h[i - 1], bs[i])
    BY <1>1
  <2>3. 0 \in 0 .. n /\ \A i \in 1 .. n : i \in 0 .. n
    BY <1>1
  <2> HIDE DEF E, e
  <2> QED BY <2>1, <2>2, <2>3
<1>13. \A i \in 0 .. n : f[i] = h[i]
  <2> HIDE DEF e, step
  <2>1. f[0] = h[0]
    BY <1>8, <1>12
  <2>2. \A i \in 1 .. n : f[i - 1] = h[i - 1] => f[i] = h[i]
    BY <1>9, <1>12
  <2> DEFINE T == {i \in 0 .. n : f[i] = h[i]}
  <2>3. 0 \in T /\ \A i \in 1 .. n : i - 1 \in T => i \in T
    BY <1>1, <2>1, <2>2
  <2>4. \A i \in 0 .. n : i \in T
    <3> HIDE DEF T
    <3> QED BY <1>1, <2>3, Upwards
  <2> QED BY <2>4
<1>14. \A i \in 0 .. n : Removed(f[i], B(i), k)
  <2> DEFINE T == {i \in 0 .. n : Removed(f[i], B(i), k)}
  <2>1. 0 \in T
    <3>1. Drop(<<>>, 0) = <<>> /\ Len(<<>>) = 0
      BY EmptySeq, SubSeqEmpty DEF Drop
    <3>2. Removed(e, <<>>, k)
      BY <1>3, <3>1, BytesEmpty DEF Removed
    <3>3. 0 \in 0 .. n
      BY <1>1
    <3> HIDE DEF e
    <3> QED BY <1>2, <1>8, <3>2, <3>3
  <2>2. ASSUME NEW i \in 1 .. n, i - 1 \in T PROVE i \in T
    <3>1. Removed(f[i - 1], B(i - 1), k) /\ i \in 0 .. n
      BY <1>1, <2>2
    <3>2. f[i - 1] \in Acc /\ bs[i] \in Buffers /\ B(i - 1) \in Seq(Nat)
      BY <1>1, <1>2, <1>9
    <3>3. Removed(RemoveIfUsed(f[i - 1], bs[i]), B(i - 1) \o Span(bs[i]), k)
      BY <1>3, <3>1, <3>2, RemoveIfUsedStep
    <3>4. f[i] = RemoveIfUsed(f[i - 1], bs[i]) /\ B(i) = B(i - 1) \o Span(bs[i])
      BY <1>2, <1>9
    <3> QED BY <3>1, <3>3, <3>4
  <2>3. \A i \in 0 .. n : i \in T
    <3> HIDE DEF T
    <3> QED BY <1>1, <2>1, <2>2, Upwards
  <2> QED BY <2>3
<1>15. h[n] = f[n] /\ f[n] \in Acc /\ Removed(f[n], Bytes(bs), k)
  <2>1. n \in 0 .. n
    BY <1>1
  <2> QED BY <1>2, <1>8, <1>13, <1>14, <2>1
<1>16. f[n].kept \in Seq(Buffers) /\ Bytes(f[n].kept) = Drop(Bytes(bs), k)
  BY <1>3, <1>15 DEF Removed, Acc
<1> QED BY <1>5, <1>15, <1>16

-----------------------------------------------------------------------------
(* The client's walk over its buffers.                                     *)

\* The receive buffers are buffers.
LEMMA RecvBuffersType == RecvBuffers \in Seq(Buffers)
BY EchoAssumption, MakeBuffersType DEF RecvBuffers, RangeSet

\* The bytes of the first buffers are the first bytes.
LEMMA PrefixOfBytes ==
  ASSUME NEW bs \in Seq(Buffers), NEW m \in 0 .. Len(bs)
  PROVE  /\ Len(Bytes(SubSeq(bs, 1, m))) \in Nat
         /\ Len(Bytes(SubSeq(bs, 1, m))) <= Len(Bytes(bs))
         /\ \A j \in 1 .. Len(Bytes(SubSeq(bs, 1, m))) :
              Bytes(bs)[j] = Bytes(SubSeq(bs, 1, m))[j]
<1> DEFINE n == Len(bs)
           B(i) == Bytes(SubSeq(bs, 1, i))
           Prefix(s, t) == Len(s) <= Len(t) /\ \A j \in 1 .. Len(s) : t[j] = s[j]
           T == {i \in 0 .. n : i < m \/ Prefix(B(m), B(i))}
<1>1. n \in Nat /\ m \in 0 .. n /\ \A i \in 1 .. n : bs[i] \in Buffers
  BY LenProperties
<1>2. /\ B(n) = Bytes(bs) /\ \A i \in 0 .. n : B(i) \in Seq(Nat)
      /\ \A i \in 1 .. n : B(i) = B(i - 1) \o Span(bs[i])
  BY BytesOfPrefix
<1> HIDE DEF n, B
<1>3. \A i \in 0 .. n : Len(B(i)) \in Nat
  BY <1>2, LenProperties
<1>4. Prefix(B(m), B(m))
  BY <1>1, <1>3
<1>5. 0 \in T
  BY <1>1, <1>4
<1>6. ASSUME NEW i \in 1 .. n, i - 1 \in T PROVE i \in T
  <2>1. i \in 0 .. n /\ i - 1 \in 0 .. n
    BY <1>1
  <2>2. CASE i <= m
    BY <1>1, <1>4, <2>1, <2>2
  <2>3. CASE ~(i <= m)
    <3>1. Prefix(B(m), B(i - 1))
      BY <1>1, <1>6, <2>1, <2>3
    <3> DEFINE s == B(i - 1)
               t == Span(bs[i])
    <3>2. s \in Seq(Nat) /\ t \in Seq(Nat) /\ B(i) = s \o t
      BY <1>1, <1>2, <2>1, SpanIs
    <3> HIDE DEF s, t
    <3>3. /\ Len(s \o t) = Len(s) + Len(t) /\ Len(s) \in Nat /\ Len(t) \in Nat
          /\ \A j \in 1 .. Len(s) + Len(t) : (s \o t)[j] = IF j <= Len(s) THEN s[j] ELSE t[j - Len(s)]
      BY <3>2, ConcatProperties, LenProperties
    <3>4. \A j \in 1 .. Len(s) : (s \o t)[j] = s[j]
      BY <3>3
    <3>5. Len(B(m)) \in Nat /\ Len(B(m)) <= Len(s) /\ \A j \in 1 .. Len(B(m)) : s[j] = B(m)[j]
      BY <1>1, <1>3, <3>1 DEF s
    <3>6. Len(B(m)) <= Len(s \o t) /\ \A j \in 1 .. Len(B(m)) : (s \o t)[j] = B(m)[j]
      BY <3>3, <3>4, <3>5
    <3> QED BY <2>1, <3>2, <3>6
  <2> QED BY <2>2, <2>3
<1>7. \A i \in 0 .. n : i \in T
  <2> HIDE DEF T
  <2> QED BY <1>1, <1>5, <1>6, Upwards
<1>8. Prefix(B(m), B(n))
  BY <1>1, <1>7
<1> QED BY <1>1, <1>2, <1>3, <1>8 DEF B

\* The place of a buffer's bytes among those of the message.
LEMMA SpanInBytes ==
  ASSUME NEW bs \in Seq(Buffers), NEW i \in 1 .. Len(bs)
  PROVE  LET p == Len(Bytes(SubSeq(bs, 1, i - 1)))
         IN  /\ p \in Nat /\ bs[i].iov_len \in Nat
             /\ Len(Bytes(SubSeq(bs, 1, i))) = p + bs[i].iov_len
             /\ p + bs[i].iov_len <= Len(Bytes(bs))
             /\ \A j \in 1 .. bs[i].iov_len : Span(bs[i])[j] = Bytes(bs)[p + j]
<1> DEFINE n == Len(bs)
           s == Bytes(SubSeq(bs, 1, i - 1))
           t == Span(bs[i])
           u == Bytes(SubSeq(bs, 1, i))
           p == Len(s)
           L == bs[i].iov_len
<1>1. n \in Nat /\ bs[i] \in Buffers /\ i - 1 \in 0 .. n /\ i \in 0 .. n
  BY LenProperties
<1>2. s \in Seq(Nat) /\ u = s \o t
  BY <1>1, BytesOfPrefix
<1>3. t \in Seq(Nat) /\ Len(t) = L /\ L \in Nat
  BY <1>1, SpanIs DEF Buffers
<1>4. Len(u) <= Len(Bytes(bs)) /\ \A j \in 1 .. Len(u) : Bytes(bs)[j] = u[j]
  BY <1>1, PrefixOfBytes
<1> HIDE DEF s, t, u, L
<1>5. /\ p \in Nat /\ Len(s \o t) = p + Len(t)
      /\ \A j \in 1 .. p + Len(t) : (s \o t)[j] = IF j <= p THEN s[j] ELSE t[j - p]
  BY <1>2, <1>3, ConcatProperties, LenProperties
<1> HIDE DEF p
<1>6. Len(u) = p + L /\ \A j \in 1 .. (p + L) : u[j] = IF j <= p THEN s[j] ELSE t[j - p]
  BY <1>2, <1>3, <1>5
<1>7. ASSUME NEW j \in 1 .. L PROVE t[j] = Bytes(bs)[p + j]
  <2>1. p + j \in 1 .. (p + L) /\ ~(p + j <= p) /\ (p + j) - p = j
    BY <1>3, <1>5
  <2>2. u[p + j] = t[(p + j) - p]
    BY <1>6, <2>1, Zenon
  <2>3. Bytes(bs)[p + j] = u[p + j]
    BY <1>4, <1>6, <2>1, Zenon
  <2> QED BY <2>1, <2>2, <2>3
<1>8. p + L <= Len(Bytes(bs))
  BY <1>4, <1>6
<1> QED BY <1>3, <1>5, <1>6, <1>7, <1>8 DEF s, t, u, p, L

\* Without more elements than it has, a sequence is empty.
LEMMA DropAll ==
  ASSUME NEW S, NEW s \in Seq(S), NEW k \in Nat, Len(s) <= k
  PROVE  Drop(s, k) = <<>>
<1>1. Len(s) \in Nat
  BY LenProperties
<1> DEFINE L == Len(s)
<1> HIDE DEF L
<1>2. k + 1 \in Int /\ L \in Int /\ L < k + 1
  BY <1>1 DEF L
<1> QED BY <1>2, SubSeqEmpty DEF Drop, L

\* A suffix of a sequence, also one from behind its end.
LEMMA DropType ==
  ASSUME NEW S, NEW s \in Seq(S), NEW k \in Nat
  PROVE  Drop(s, k) \in Seq(S)
<1>1. Len(s) \in Nat
  BY LenProperties
<1>2. CASE k <= Len(s)
  <2>1. k \in 0 .. Len(s)
    BY <1>1, <1>2
  <2> QED BY <2>1, DropIs
<1>3. CASE Len(s) <= k
  BY <1>3, DropAll, EmptySeq
<1> QED BY <1>1, <1>2, <1>3

\* A slice and what follows it.
LEMMA SliceAndRest ==
  ASSUME NEW S, NEW s \in Seq(S), NEW p \in 0 .. Len(s), NEW q \in p .. Len(s)
  PROVE  /\ SubSeq(s, p + 1, q) \in Seq(S) /\ Len(SubSeq(s, p + 1, q)) = q - p
         /\ \A i \in 1 .. (q - p) : SubSeq(s, p + 1, q)[i] = s[p + i]
         /\ SubSeq(s, p + 1, q) \o Drop(s, q) = Drop(s, p)
<1> DEFINE L == Len(s)
<1>1. L \in Nat /\ \A i \in 1 .. L : s[i] \in S
  BY LenProperties
<1>2. p + 1 \in 1 .. L + 1 /\ q \in (p + 1) - 1 .. L /\ L \in q .. L
  BY <1>1
<1>3. SubSeq(s, p + 1, q) \o SubSeq(s, q + 1, L) = SubSeq(s, p + 1, L)
  BY <1>2, ConcatAdjacentSubSeq
<1>4. p \in 0 .. L /\ q \in p .. L
  OBVIOUS
<1> HIDE DEF L
<1>5. p + 1 \in Int /\ q \in Int /\ \A i \in p + 1 .. q : s[i] \in S
  BY <1>1, <1>4
<1> DEFINE d == SubSeq(s, p + 1, q)
<1>6. /\ d \in Seq(S) /\ Len(d) = IF p + 1 <= q THEN q - (p + 1) + 1 ELSE 0
      /\ \A i \in 1 .. q - (p + 1) + 1 : d[i] = s[(p + 1) + i - 1]
  BY <1>5, SubSeqProperties
<1> HIDE DEF d
<1>7. Len(d) = q - p
  BY <1>1, <1>4, <1>6
<1>8. ASSUME NEW i \in 1 .. (q - p) PROVE d[i] = s[p + i]
  <2>1. i \in 1 .. q - (p + 1) + 1 /\ (p + 1) + i - 1 = p + i
    BY <1>1, <1>4
  <2> QED BY <1>6, <2>1
<1> QED BY <1>3, <1>6, <1>7, <1>8 DEF Drop, L, d

\* In a turn of its loop the client reads the bytes that lie in one buffer: these are
\* the next ones it received, and those of the later buffers are left.
LEMMA OneBuffer ==
  ASSUME NEW c \in Clients, NEW s \in Seq(Nat), NEW it \in 0 .. (Len(RecvBuffers) - 1),
         incoming[c].bytes = s, incoming[c].it = it, Len(s) <= Len(Bytes(RecvBuffers))
  PROVE  /\ InBuffer(c) \in Seq(Nat)
         /\ InBuffer(c) \o Drop(s, Len(Bytes(SubSeq(RecvBuffers, 1, it + 1))))
              = Drop(s, Len(Bytes(SubSeq(RecvBuffers, 1, it))))
<1> DEFINE bs == RecvBuffers
           R == Bytes(RecvBuffers)
           b == RecvBuffers[it + 1]
           p == Len(Bytes(SubSeq(RecvBuffers, 1, it)))
           L == b.iov_len
           q == Len(Bytes(SubSeq(RecvBuffers, 1, it + 1)))
           m == Len(s)
           span == Span(b)
           filled == {R[i] : i \in DOMAIN s}
           x == InBuffer(c)
           e == IF m <= p THEN 0 ELSE IF p + L <= m THEN L ELSE m - p
<1>1. bs \in Seq(Buffers) /\ Len(bs) \in Nat /\ m \in Nat /\ DOMAIN s = 1 .. m
  BY RecvBuffersType, LenProperties
<1>2. it + 1 \in 1 .. Len(bs) /\ (it + 1) - 1 = it
  BY <1>1
<1>3. /\ p \in Nat /\ L \in Nat /\ q = p + L /\ p + L <= Len(R)
      /\ \A j \in 1 .. L : span[j] = R[p + j]
  <2>1. LET o == Len(Bytes(SubSeq(bs, 1, (it + 1) - 1)))
        IN  /\ o \in Nat /\ bs[it + 1].iov_len \in Nat
            /\ Len(Bytes(SubSeq(bs, 1, it + 1))) = o + bs[it + 1].iov_len
            /\ o + bs[it + 1].iov_len <= Len(Bytes(bs))
            /\ \A j \in 1 .. bs[it + 1].iov_len : Span(bs[it + 1])[j] = Bytes(bs)[o + j]
    <3> HIDE DEF bs
    <3> QED BY <1>1, <1>2, SpanInBytes
  <2> QED BY <1>2, <2>1
<1>4. /\ Len(R) \in Nat /\ DOMAIN R = 1 .. Len(R)
      /\ \A i, j \in 1 .. Len(R) : R[i] = R[j] => i = j
  <2>1. R \in Seq(Nat)
    BY <1>1, BytesType
  <2>2. \A i, j \in DOMAIN R : R[i] = R[j] => i = j
    BY RecvAssumption DEF RecvBuffers
  <2> HIDE DEF R
  <2> QED BY <2>1, <2>2, LenProperties
<1>5. DOMAIN span = 1 .. L
  BY DEF Span
<1>6. x = [i \in {j \in DOMAIN span : span[j] \in filled} |->
             s[CHOOSE k \in DOMAIN s : R[k] = span[i]]]
  <2>1. Deref(RecvBuffers, it) = span
    BY DEF Deref, Span
  <2> DEFINE G(at, t) == [i \in {j \in DOMAIN at : at[j] \in {R[k] : k \in DOMAIN t}} |->
                            t[CHOOSE k \in DOMAIN t : R[k] = at[i]]]
  <2>2. x = G(Deref(RecvBuffers, incoming[c].it), incoming[c].bytes)
    BY Zenon DEF InBuffer, Stored
  <2>3. x = G(span, s)
    <3> HIDE DEF x, span, G
    <3> QED BY <2>1, <2>2
  <2> QED BY <2>3, Zenon
<1> HIDE DEF bs, R, b, p, L, q, m, span, x
<1>7. m <= Len(R)
  BY DEF m, R
<1>8. e \in 0 .. L /\ e \in Nat
  BY <1>1, <1>3
<1>9. ASSUME NEW j \in 1 .. L PROVE span[j] \in filled <=> p + j <= m
  <2>1. p + j \in 1 .. Len(R) /\ span[j] = R[p + j]
    BY <1>3, <1>4
  <2>2. ASSUME p + j <= m PROVE span[j] \in filled
    <3>1. p + j \in 1 .. m
      BY <1>1, <1>3, <2>1, <2>2
    <3> QED BY <1>1, <2>1, <3>1
  <2>3. ASSUME span[j] \in filled PROVE p + j <= m
    <3>1. PICK i \in DOMAIN s : span[j] = R[i]
      BY <2>3
    <3>2. i \in 1 .. m /\ i \in 1 .. Len(R)
      BY <1>1, <1>4, <1>7
    <3>3. i = p + j
      BY <1>4, <2>1, <3>1, <3>2
    <3> QED BY <3>2, <3>3
  <2> QED BY <2>2, <2>3
<1>10. {j \in DOMAIN span : span[j] \in filled} = 1 .. e
  <2>1. ASSUME NEW j \in 1 .. L PROVE p + j <= m <=> j \in 1 .. e
    BY <1>1, <1>3
  <2>2. \A j \in 1 .. e : j \in 1 .. L
    BY <1>3, <1>8
  <2> HIDE DEF filled, e
  <2> QED BY <1>5, <1>9, <2>1, <2>2
<1>11. ASSUME NEW i \in 1 .. e PROVE x[i] = s[p + i]
  <2>1. i \in 1 .. L /\ p + i \in 1 .. m /\ p + i \in 1 .. Len(R)
    BY <1>1, <1>3, <1>4, <1>7, <1>8
  <2> HIDE DEF e, filled
  <2>2. x[i] = s[CHOOSE k \in DOMAIN s : R[k] = span[i]]
    BY <1>6, <1>10
  <2>3. span[i] = R[p + i]
    BY <1>3, <2>1
  <2> DEFINE w == CHOOSE k \in DOMAIN s : R[k] = span[i]
  <2>4. w \in DOMAIN s /\ R[w] = span[i]
    BY <1>1, <2>1, <2>3
  <2> HIDE DEF w
  <2>5. w \in 1 .. Len(R)
    BY <1>1, <1>4, <1>7, <2>4
  <2>6. w = p + i
    BY <1>4, <2>1, <2>3, <2>4, <2>5
  <2> QED BY <2>2, <2>6 DEF w
<1>12. x = [i \in 1 .. e |-> s[p + i]]
  <2> HIDE DEF e, filled
  <2>1. DOMAIN x = 1 .. e /\ x = [i \in DOMAIN x |-> x[i]]
    BY <1>6, <1>10
  <2> QED BY <1>11, <2>1
<1>13. CASE m <= p
  <2>1. e = 0 /\ x = <<>>
    BY <1>12, <1>13
  <2>2. Drop(s, p) = <<>> /\ Drop(s, q) = <<>>
    BY <1>1, <1>3, <1>13, DropAll DEF m
  <2> QED BY <2>1, <2>2, EmptySeq, ConcatEmptySeq DEF x, p, q
<1>14. CASE ~(m <= p)
  <2>1. p \in 0 .. Len(s) /\ p + e \in p .. Len(s) /\ (p + e) - p = e
    BY <1>1, <1>3, <1>8, <1>14 DEF m
  <2> DEFINE d == SubSeq(s, p + 1, p + e)
  <2>2. /\ d \in Seq(Nat) /\ Len(d) = e /\ \A i \in 1 .. e : d[i] = s[p + i]
        /\ d \o Drop(s, p + e) = Drop(s, p)
    <3> DEFINE v == p + e
    <3>1. v \in p .. Len(s) /\ v - p = e
      BY <2>1
    <3> HIDE DEF v, e
    <3>2. /\ SubSeq(s, p + 1, v) \in Seq(Nat) /\ Len(SubSeq(s, p + 1, v)) = v - p
          /\ \A i \in 1 .. (v - p) : SubSeq(s, p + 1, v)[i] = s[p + i]
          /\ SubSeq(s, p + 1, v) \o Drop(s, v) = Drop(s, p)
      BY <2>1, <3>1, SliceAndRest
    <3> QED BY <3>1, <3>2 DEF v
  <2> HIDE DEF d
  <2>3. x = d
    <3> HIDE DEF e
    <3>1. d \in [1 .. e -> Nat]
      BY <2>2, LenProperties
    <3> QED BY <1>12, <2>2, <3>1
  <2>4. Drop(s, p + e) = Drop(s, q)
    <3>1. CASE p + L <= m
      BY <1>3, <1>14, <3>1
    <3>2. CASE ~(p + L <= m)
      <4>1. p + e = m /\ m <= q /\ q \in Nat
        BY <1>1, <1>3, <1>14, <3>2
      <4>2. Drop(s, m) = <<>> /\ Drop(s, q) = <<>>
        BY <1>1, <4>1, DropAll DEF m
      <4> QED BY <4>1, <4>2
    <3> QED BY <3>1, <3>2
  <2> QED BY <2>2, <2>3, <2>4 DEF x, p, q
<1> QED BY <1>13, <1>14

-----------------------------------------------------------------------------
(* Bytes on their way.                                                     *)

\* Brackets do not matter.
LEMMA Associative ==
  \A S : \A a, b, z \in Seq(S) : (a \o b) \o z = a \o (b \o z) /\ a \o b \in Seq(S)
<1> TAKE S
<1> TAKE a, b, z \in Seq(S)
<1>1. a \o b \in Seq(S)
  BY ConcatProperties
<1>2. (a \o b) \o z = a \o (b \o z)
  BY ConcatAssociative
<1> QED BY <1>1, <1>2

\* The first elements of a sequence are moved to the end of another.
LEMMA Moved ==
  ASSUME NEW S, NEW a \in Seq(S), NEW b \in Seq(S), NEW k \in 0 .. Len(b)
  PROVE  (a \o SubSeq(b, 1, k)) \o Drop(b, k) = a \o b
<1> DEFINE t == SubSeq(b, 1, k)
           r == Drop(b, k)
<1>1. t \o r = b
  BY TakeDrop
<1>2. t \in Seq(S) /\ r \in Seq(S)
  BY TakeDrop, DropIs
<1> HIDE DEF t, r
<1>3. (a \o t) \o r = a \o (t \o r)
  BY <1>2, Associative
<1> QED BY <1>1, <1>3 DEF t, r

\* The same, where what they are moved to follows something else.
LEMMA MovedBehind ==
  ASSUME NEW a \in Seq(Nat), NEW b \in Seq(Nat), NEW z \in Seq(Nat), NEW k \in 0 .. Len(z)
  PROVE  a \o (b \o SubSeq(z, 1, k)) \o Drop(z, k) = a \o b \o z
<1> DEFINE t == SubSeq(z, 1, k)
           p == a \o b
<1>1. t \in Seq(Nat)
  BY TakeDrop
<1> HIDE DEF t
<1>2. p \o t = a \o (b \o t)
  BY <1>1, Associative
<1>3. p \in Seq(Nat)
  BY Associative
<1> HIDE DEF p
<1>4. (p \o SubSeq(z, 1, k)) \o Drop(z, k) = p \o z
  BY <1>3, Moved
<1> QED BY <1>2, <1>4 DEF t, p

-----------------------------------------------------------------------------
(* The inductive invariant.                                                *)

Messages == [address : {Nil}, buffers : Seq(Buffers)]

\* The types of what each client and its connection have.
DataTypes ==
  /\ main \in Range(Calls) \cup {"loop", "returned", "terminated"}
  /\ acceptor \in {"none", "called", "pending", "ended"}
  /\ conn \in [Clients -> {"none", "backlog", "reading", "writing", "closed"}]
  /\ client \in [Clients -> {"idle", "sending", "receiving", "walking", "closed"}]
  /\ signals \in 0 .. MaxSignals
  /\ msg \in [Clients -> Messages] /\ outgoing \in [Clients -> Messages]
  /\ buf \in [Clients -> Seq(Nat)] /\ blocks \in [Clients -> Seq(Seq(Nat))]
  /\ up \in [Clients -> Seq(Nat)] /\ down \in [Clients -> Seq(Nat)]
  /\ incoming \in [Clients -> [bytes : Seq(Nat), it : Nat]]
  /\ collected \in [Clients -> Seq(Nat)]

Zeros == [i \in 1 .. BufferSize |-> Padding]
WholeBuffer == [i \in 1 .. BufferSize |-> i]

\* A reader has a message over the whole of a buffer of zeros.
ReaderIsFresh(c) ==
  conn[c] = "reading" => Iov(msg[c]) = WholeBuffer /\ buf[c] = Zeros

\* Before accept nothing was exchanged.
NothingBeforeAccept(c) ==
  conn[c] \in {"none", "backlog"} =>
    blocks[c] = <<>> /\ down[c] = <<>> /\ collected[c] = <<>> /\ client[c] # "walking"

\* A walk is within the buffers, which hold all that was received.
WalkIsInside(c) ==
  client[c] = "walking" =>
    /\ incoming[c].it <= Len(RecvBuffers)
    /\ Len(incoming[c].bytes) <= Len(Bytes(RecvBuffers))

Bounded(c) ==
  /\ Len(up[c]) <= Capacity /\ Len(down[c]) <= Capacity
  /\ Range(Iov(msg[c])) \subseteq DOMAIN buf[c]

Sent(c) == FlattenSeq(blocks[c]) \o up[c] \o Iov(outgoing[c])
ToSend(c) == IF conn[c] = "writing" THEN Unsent(c) ELSE <<>>
Padded(bl) == [i \in DOMAIN bl |-> Pad(bl[i])]
Echoed(c) == FlattenSeq(Padded(blocks[c]))

\* What NothingLost and EchoIsPadded say of one client.
ClientIsSent(c) == Sent(c) = Payload(c)
ClientIsEchoed(c) ==
  conn[c] \in {"reading", "writing"} /\ client[c] # "closed" =>
    collected[c] \o Unwalked(c) \o down[c] \o ToSend(c) = Echoed(c)

ClientInv(c) ==
  /\ Bounded(c) /\ ReaderIsFresh(c) /\ NothingBeforeAccept(c) /\ WalkIsInside(c)
  /\ ClientIsSent(c) /\ ClientIsEchoed(c)

EchoInv == DataTypes /\ \A c \in Clients : ClientInv(c)

\* Nothing of a client changes.
SameAt(c) ==
  /\ conn'[c] = conn[c] /\ msg'[c] = msg[c] /\ buf'[c] = buf[c]
  /\ up'[c] = up[c] /\ down'[c] = down[c] /\ client'[c] = client[c]
  /\ outgoing'[c] = outgoing[c] /\ incoming'[c] = incoming[c]
  /\ blocks'[c] = blocks[c] /\ collected'[c] = collected[c]

\* A step of one client leaves the others alone.
LEMMA Unaffected ==
  ASSUME NEW c \in Clients, ClientInv(c), SameAt(c)
  PROVE  ClientInv(c)'
<1>1. Bounded(c)' /\ ReaderIsFresh(c)' /\ NothingBeforeAccept(c)' /\ WalkIsInside(c)'
  BY Zenon DEF ClientInv, SameAt, Bounded, ReaderIsFresh, NothingBeforeAccept, WalkIsInside
<1>2. ClientIsSent(c)'
  BY Zenon DEF ClientInv, SameAt, ClientIsSent, Sent
<1>3. ToSend(c)' = ToSend(c)
  BY DEF SameAt, ToSend, Unsent
<1>4. Unwalked(c)' = Unwalked(c)
  BY DEF SameAt, Unwalked
<1>5. Echoed(c)' = Echoed(c)
  BY DEF SameAt, Echoed
<1>6. ClientIsEchoed(c)'
  BY <1>3, <1>4, <1>5 DEF ClientInv, SameAt, ClientIsEchoed
<1> QED BY <1>1, <1>2, <1>6 DEF ClientInv

\* So a step of one client is checked for that client only.
LEMMA OneClient ==
  ASSUME EchoInv, NEW c \in Clients, DataTypes', \A d \in Clients \ {c} : SameAt(d),
         ClientInv(c)'
  PROVE  EchoInv'
<1>1. ASSUME NEW d \in Clients PROVE ClientInv(d)'
  <2>1. CASE d = c
    BY <2>1
  <2>2. CASE d # c
    BY <2>2, Unaffected DEF EchoInv
  <2> QED BY <2>1, <2>2
<1> QED BY <1>1 DEF EchoInv

FreshMessage == SocketMessage(PushBack(<<>>, [data |-> 1, size |-> BufferSize, element |-> 1]))

\* The header of a message shows its buffers.
LEMMA IovIs == \A m : Iov(m) = Bytes(m.buffers)
BY DEF Iov, Header

\* The addresses of a message.
LEMMA IovType ==
  ASSUME NEW m \in Messages
  PROVE  Iov(m) \in Seq(Nat) /\ m.buffers \in Seq(Buffers) /\ m.address = Nil
<1>1. m.buffers \in Seq(Buffers) /\ m.address = Nil
  BY DEF Messages
<1> QED BY <1>1, BytesType, IovIs

\* A new message of a reader covers its buffer.
LEMMA FreshMessageIs == FreshMessage \in Messages /\ Iov(FreshMessage) = WholeBuffer
<1> DEFINE b == Buffer(1, BufferSize * 1)
<1>1. BufferSize \in Nat
  BY EchoAssumption
<1>2. b = [iov_base |-> 1, iov_len |-> BufferSize] /\ b \in Buffers
  BY <1>1 DEF Buffer, Buffers
<1>3. FreshMessage = [address |-> Nil, buffers |-> Append(<<>>, b)]
  BY DEF FreshMessage, SocketMessage, PushBack
<1>4. Span(b) = WholeBuffer
  <2>1. Span(b) = [i \in 1 .. BufferSize |-> 1 + i - 1]
    BY <1>2 DEF Span
  <2>2. \A i \in 1 .. BufferSize : 1 + i - 1 = i
    BY <1>1
  <2> QED BY <2>1, <2>2 DEF WholeBuffer
<1> HIDE DEF b
<1>5. <<>> \in Seq(Buffers) /\ Append(<<>>, b) \in Seq(Buffers)
  BY <1>2, EmptySeq, AppendProperties
<1>6. Bytes(Append(<<>>, b)) = <<>> \o Span(b)
  BY <1>2, <1>5, BytesAppend, BytesEmpty
<1>7. <<>> \o Span(b) = Span(b)
  BY <1>2, SpanIs, ConcatEmptySeq
<1>8. FreshMessage \in Messages
  BY <1>3, <1>5 DEF Messages
<1>9. FreshMessage.buffers = Append(<<>>, b)
  BY <1>3
<1> HIDE DEF FreshMessage
<1>10. Iov(FreshMessage) = Bytes(FreshMessage.buffers)
  BY IovIs
<1> QED BY <1>4, <1>6, <1>7, <1>8, <1>9, <1>10

\* A buffer of zeros.
LEMMA ZerosAre == Zeros \in Seq(Nat) /\ Len(Zeros) = BufferSize
<1>1. BufferSize \in Nat /\ Padding \in Nat
  BY EchoAssumption DEF Padding
<1> QED BY <1>1 DEF Zeros

\* The whole buffer is inside the buffer.
LEMMA WholeBufferIs ==
  /\ WholeBuffer \in Seq(Nat) /\ Len(WholeBuffer) = BufferSize
  /\ Range(WholeBuffer) \subseteq DOMAIN Zeros
<1>1. BufferSize \in Nat
  BY EchoAssumption
<1>2. WholeBuffer \in Seq(Nat) /\ Len(WholeBuffer) = BufferSize
  BY <1>1 DEF WholeBuffer
<1>3. \A i \in DOMAIN WholeBuffer : WholeBuffer[i] \in DOMAIN Zeros
  BY DEF WholeBuffer, Zeros
<1> QED BY <1>2, <1>3 DEF Range

\* Nothing received, nothing echoed.
LEMMA NothingToEcho ==
  ASSUME NEW c \in Clients, blocks[c] = <<>>
  PROVE  Echoed(c) = <<>>
<1>1. Padded(blocks[c]) = <<>>
  BY EmptySeq DEF Padded
<1> QED BY <1>1, FlattenEmpty DEF Echoed

\* The invariant holds at the start.
LEMMA EchoInitial == EchoInit => EchoInv
<1> SUFFICES ASSUME EchoInit PROVE EchoInv
  OBVIOUS
<1>1. \A c \in Clients : MakeBuffers(Ranges[c]) \in Seq(Buffers)
  BY EchoAssumption, MakeBuffersType DEF RangeSet
<1>2. <<>> \in Seq(Nat) /\ <<>> \in Seq(Seq(Nat)) /\ <<>> \in Seq(Buffers)
  BY EmptySeq
<1>3. DataTypes
  <2>1. main \in Range(Calls) \cup {"loop", "returned", "terminated"}
    <3>1. 1 \in DOMAIN Calls /\ Calls[1] = "emplace"
      BY DEF Calls
    <3>2. main = Calls[1]
      BY <3>1 DEF EchoInit
    <3> QED BY <3>1, <3>2 DEF Range
  <2>2. signals \in 0 .. MaxSignals
    BY EchoAssumption DEF EchoInit
  <2>3. msg \in [Clients -> Messages]
    BY <1>2 DEF EchoInit, SocketMessage, Messages
  <2>4. outgoing \in [Clients -> Messages]
    BY <1>1 DEF EchoInit, SocketMessage, Messages
  <2>5. incoming \in [Clients -> [bytes : Seq(Nat), it : Nat]]
    BY <1>2 DEF EchoInit
  <2>6. /\ buf \in [Clients -> Seq(Nat)] /\ blocks \in [Clients -> Seq(Seq(Nat))]
        /\ up \in [Clients -> Seq(Nat)] /\ down \in [Clients -> Seq(Nat)]
        /\ collected \in [Clients -> Seq(Nat)]
    BY <1>2 DEF EchoInit
  <2>7. /\ acceptor \in {"none", "called", "pending", "ended"}
        /\ conn \in [Clients -> {"none", "backlog", "reading", "writing", "closed"}]
        /\ client \in [Clients -> {"idle", "sending", "receiving", "walking", "closed"}]
    BY DEF EchoInit
  <2> QED BY <2>1, <2>2, <2>3, <2>4, <2>5, <2>6, <2>7 DEF DataTypes
<1>4. ASSUME NEW c \in Clients PROVE ClientInv(c)
  <2>1. /\ conn[c] = "none" /\ client[c] = "idle" /\ msg[c] = SocketMessage(<<>>)
        /\ buf[c] = <<>> /\ up[c] = <<>> /\ down[c] = <<>> /\ blocks[c] = <<>>
        /\ collected[c] = <<>> /\ outgoing[c] = SocketMessage(MakeBuffers(Ranges[c]))
    BY DEF EchoInit
  <2>2. Iov(msg[c]) = <<>> /\ Iov(outgoing[c]) = Payload(c)
    BY <2>1, IovIs, BytesEmpty DEF SocketMessage, Payload
  <2>3. Bounded(c)
    <3>1. Len(up[c]) = 0 /\ Len(down[c]) = 0
      BY <2>1, EmptySeq
    <3>2. Range(Iov(msg[c])) = {}
      BY <2>2 DEF Range
    <3> QED BY <3>1, <3>2, EchoAssumption DEF Bounded
  <2>4. ClientIsSent(c)
    <3> DEFINE p == Payload(c)
    <3>1. p \in Seq(Nat)
      BY <1>1, BytesType DEF Payload
    <3> HIDE DEF p
    <3>2. <<>> \o p = p /\ <<>> \o <<>> = <<>>
      BY <1>2, <3>1, ConcatEmptySeq
    <3>3. FlattenSeq(blocks[c]) = <<>>
      BY <2>1, FlattenEmpty
    <3>4. Sent(c) = <<>> \o <<>> \o p
      BY <2>1, <2>2, <3>3 DEF Sent, p
    <3> QED BY <3>2, <3>4 DEF ClientIsSent, p
  <2>5. ReaderIsFresh(c) /\ NothingBeforeAccept(c) /\ WalkIsInside(c) /\ ClientIsEchoed(c)
    BY <2>1 DEF ReaderIsFresh, NothingBeforeAccept, WalkIsInside, ClientIsEchoed
  <2> QED BY <2>3, <2>4, <2>5 DEF ClientInv
<1> QED BY <1>3, <1>4 DEF EchoInv

-----------------------------------------------------------------------------
(* The steps.                                                              *)

ControlTypes ==
  /\ main \in Range(Calls) \cup {"loop", "returned", "terminated"}
  /\ acceptor \in {"none", "called", "pending", "ended"}
  /\ conn \in [Clients -> {"none", "backlog", "reading", "writing", "closed"}]
  /\ client \in [Clients -> {"idle", "sending", "receiving", "walking", "closed"}]
  /\ signals \in 0 .. MaxSignals

data == <<msg, buf, up, down, outgoing, incoming, blocks, collected>>

\* A step that exchanges no data keeps the types of the data.
LEMMA DataKept ==
  ASSUME DataTypes, UNCHANGED data, ControlTypes'
  PROVE  DataTypes'
BY DEF DataTypes, ControlTypes, data

\* main and acceptor are in states they can be in.
LEMMA MainStates ==
  ASSUME NEW i \in 1 .. 5
  PROVE  Calls[i] \in Range(Calls) /\ "loop" \in Range(Calls) \cup {"loop", "returned", "terminated"}
BY DEF Calls, Range

\* A step of main or of acceptor that concerns no connection.
LEMMA NobodysStep ==
  ASSUME EchoInv, UNCHANGED <<data, conn, client>>, ControlTypes'
  PROVE  EchoInv'
<1>1. DataTypes'
  BY DataKept DEF EchoInv
<1>2. ASSUME NEW c \in Clients PROVE ClientInv(c)'
  <2>1. SameAt(c)
    BY DEF SameAt, data
  <2> QED BY <2>1, Unaffected DEF EchoInv
<1> QED BY <1>1, <1>2 DEF EchoInv

\* A step that opens or closes a connection and exchanges no data.
LEMMA StatusStep ==
  ASSUME EchoInv, NEW c \in Clients, UNCHANGED data, ControlTypes',
         \A d \in Clients \ {c} : conn'[d] = conn[d] /\ client'[d] = client[d],
         \/ conn'[c] = "closed" /\ client'[c] = client[c]
         \/ conn[c] = "none" /\ conn'[c] = "backlog" /\ client'[c] \in {"sending", "receiving"}
         \/ conn'[c] = conn[c] /\ client'[c] = "closed"
  PROVE  EchoInv'
<1>1. DataTypes'
  BY DataKept DEF EchoInv
<1>2. \A d \in Clients \ {c} : SameAt(d)
  BY DEF SameAt, data
<1>3. ClientInv(c)
  BY DEF EchoInv
<1>4. /\ msg'[c] = msg[c] /\ buf'[c] = buf[c] /\ up'[c] = up[c] /\ down'[c] = down[c]
      /\ outgoing'[c] = outgoing[c] /\ incoming'[c] = incoming[c]
      /\ blocks'[c] = blocks[c] /\ collected'[c] = collected[c]
  BY DEF data
<1>5. Bounded(c)' /\ ClientIsSent(c)'
  BY <1>3, <1>4, Zenon DEF ClientInv, Bounded, ClientIsSent, Sent
<1>6. ReaderIsFresh(c)'
  BY <1>3, <1>4 DEF ClientInv, ReaderIsFresh
<1>7. NothingBeforeAccept(c)'
  BY <1>3, <1>4 DEF ClientInv, NothingBeforeAccept
<1>8. WalkIsInside(c)'
  BY <1>3, <1>4 DEF ClientInv, WalkIsInside
<1>9. ClientIsEchoed(c)'
  BY DEF ClientIsEchoed
<1>10. ClientInv(c)'
  BY <1>5, <1>6, <1>7, <1>8, <1>9 DEF ClientInv
<1> QED BY <1>1, <1>2, <1>10, OneClient

\* The then-handler of accept: the first message of the reader is fresh.
LEMMA AcceptedStep ==
  ASSUME EchoInv, NEW c \in Clients, Accepted(c)
  PROVE  EchoInv'
<1> USE DEF FreshMessage
<1>1. DataTypes /\ ClientInv(c)
  BY DEF EchoInv
<1>2. conn[c] = "backlog"
  BY DEF Accepted
<1>3. /\ conn' = [conn EXCEPT ![c] = "reading"]
      /\ buf' = [buf EXCEPT ![c] = Zeros]
      /\ msg' = [msg EXCEPT ![c] = FreshMessage]
      /\ main' = "loop" /\ acceptor' = "called"
      /\ UNCHANGED <<blocks, client, outgoing, incoming, signals, collected, up, down>>
  BY DEF Accepted, Reading, clientVars, Zeros
<1> HIDE DEF FreshMessage
<1>4. /\ conn'[c] = "reading" /\ buf'[c] = Zeros /\ msg'[c] = FreshMessage
      /\ \A d \in Clients \ {c} : conn'[d] = conn[d] /\ buf'[d] = buf[d] /\ msg'[d] = msg[d]
      /\ conn' \in [Clients -> {"none", "backlog", "reading", "writing", "closed"}]
      /\ buf' \in [Clients -> Seq(Nat)] /\ msg' \in [Clients -> Messages]
  BY <1>1, <1>3, FreshMessageIs, ZerosAre DEF DataTypes
<1>5. DataTypes'
  BY <1>1, <1>3, <1>4 DEF DataTypes
<1>6. \A d \in Clients \ {c} : SameAt(d)
  BY <1>3, <1>4 DEF SameAt
<1>7. Bounded(c)' /\ ReaderIsFresh(c)'
  BY <1>1, <1>3, <1>4, FreshMessageIs, WholeBufferIs DEF ClientInv, Bounded, ReaderIsFresh
<1>8. blocks[c] = <<>> /\ down[c] = <<>> /\ collected[c] = <<>> /\ client[c] # "walking"
  BY <1>1, <1>2 DEF ClientInv, NothingBeforeAccept
<1>9. NothingBeforeAccept(c)' /\ WalkIsInside(c)'
  BY <1>3, <1>4, <1>8 DEF NothingBeforeAccept, WalkIsInside
<1>10. ClientIsSent(c)'
  BY <1>1, <1>3, Zenon DEF ClientInv, ClientIsSent, Sent
<1>11. ClientIsEchoed(c)'
  <2>1. Unwalked(c)' = <<>> /\ ToSend(c)' = <<>>
    BY <1>3, <1>4, <1>8 DEF Unwalked, ToSend
  <2>2. Echoed(c)' = <<>>
    <3>1. Echoed(c)' = Echoed(c)
      BY <1>3 DEF Echoed
    <3> QED BY <1>8, <3>1, NothingToEcho
  <2>3. <<>> \o <<>> = <<>>
    BY EmptySeq, ConcatEmptySeq
  <2> QED BY <1>3, <1>8, <2>1, <2>2, <2>3 DEF ClientIsEchoed
<1>12. ClientInv(c)'
  BY <1>7, <1>9, <1>10, <1>11 DEF ClientInv
<1> QED BY <1>5, <1>6, <1>12, OneClient

\* A block is filled up with zeros.
LEMMA PadIs ==
  ASSUME NEW t \in Seq(Nat)
  PROVE  /\ Pad(t) \in Seq(Nat)
         /\ Len(t) <= BufferSize =>
              /\ Len(Pad(t)) = BufferSize
              /\ \A i \in 1 .. BufferSize : Pad(t)[i] = IF i <= Len(t) THEN t[i] ELSE Padding
<1> DEFINE L == Len(t)
           N == IF L <= BufferSize THEN BufferSize - L ELSE 0
           z == [i \in 1 .. (BufferSize - L) |-> Padding]
<1>1. L \in Nat /\ BufferSize \in Nat /\ Padding \in Nat
  BY EchoAssumption, LenProperties DEF Padding
<1>2. z \in Seq(Nat) /\ Len(z) = N
  <2> HIDE DEF L
  <2>1. 1 .. (BufferSize - L) = 1 .. N /\ N \in Nat
    BY <1>1
  <2>2. z = [i \in 1 .. N |-> Padding]
    BY <2>1
  <2> HIDE DEF N, z
  <2> QED BY <1>1, <2>1, <2>2
<1>3. \A i \in 1 .. (BufferSize - L) : z[i] = Padding
  OBVIOUS
<1> HIDE DEF z
<1>4. /\ t \o z \in Seq(Nat) /\ Len(t \o z) = Len(t) + Len(z)
      /\ \A i \in 1 .. Len(t) + Len(z) : (t \o z)[i] = IF i <= Len(t) THEN t[i] ELSE z[i - Len(t)]
  BY <1>2, ConcatProperties
<1>5. Pad(t) = t \o z
  BY DEF Pad, z
<1> HIDE DEF L
<1>6. ASSUME L <= BufferSize PROVE Len(t \o z) = BufferSize
  BY <1>1, <1>2, <1>4, <1>6 DEF L
<1>7. ASSUME L <= BufferSize, NEW i \in 1 .. BufferSize
      PROVE  (t \o z)[i] = IF i <= L THEN t[i] ELSE Padding
  <2>1. Len(t) + Len(z) = BufferSize /\ Len(t) = L
    BY <1>1, <1>2, <1>7 DEF L
  <2>2. (t \o z)[i] = IF i <= L THEN t[i] ELSE z[i - L]
    BY <1>4, <2>1
  <2>3. ~(i <= L) => i - L \in 1 .. (BufferSize - L)
    BY <1>1, <1>7
  <2> QED BY <1>3, <2>2, <2>3
<1> QED BY <1>4, <1>5, <1>6, <1>7 DEF L

\* One more block is echoed after the others.
LEMMA EchoedAppend ==
  ASSUME NEW bl \in Seq(Seq(Nat)), NEW t \in Seq(Nat)
  PROVE  /\ FlattenSeq(Padded(bl)) \in Seq(Nat)
         /\ FlattenSeq(Padded(Append(bl, t))) = FlattenSeq(Padded(bl)) \o Pad(t)
<1> DEFINE n == Len(bl)
           more == Append(bl, t)
           d == Padded(bl)
           x == Pad(t)
           a == Append(d, x)
           e == Padded(more)
<1>1. n \in Nat /\ DOMAIN bl = 1 .. n /\ \A i \in 1 .. n : bl[i] \in Seq(Nat)
  BY LenProperties
<1>2. /\ more \in Seq(Seq(Nat)) /\ Len(more) = n + 1 /\ more[n + 1] = t
      /\ \A i \in 1 .. n : more[i] = bl[i]
  BY AppendProperties
<1>3. DOMAIN more = 1 .. (n + 1) /\ \A i \in 1 .. (n + 1) : more[i] \in Seq(Nat)
  <2> HIDE DEF more, n
  <2> QED BY <1>2, LenProperties
<1> HIDE DEF more, n
<1>4. x \in Seq(Nat) /\ \A i \in 1 .. n : Pad(bl[i]) \in Seq(Nat)
  BY <1>1, PadIs
<1>5. \A i \in 1 .. (n + 1) : Pad(more[i]) \in Seq(Nat)
  BY <1>3, PadIs
<1>6. d = [i \in 1 .. n |-> Pad(bl[i])] /\ e = [i \in 1 .. (n + 1) |-> Pad(more[i])]
  BY <1>1, <1>3 DEF Padded
<1>7. d \in Seq(Seq(Nat)) /\ Len(d) = n /\ \A i \in 1 .. n : d[i] = Pad(bl[i])
  <2> HIDE DEF d
  <2> QED BY <1>1, <1>4, <1>6
<1>8. e \in Seq(Seq(Nat)) /\ Len(e) = n + 1 /\ \A i \in 1 .. (n + 1) : e[i] = Pad(more[i])
  <2> HIDE DEF e
  <2> QED BY <1>1, <1>5, <1>6
<1> HIDE DEF d, e, x
<1>9. a \in Seq(Seq(Nat)) /\ Len(a) = n + 1 /\ a[n + 1] = x /\ \A i \in 1 .. n : a[i] = d[i]
  BY <1>4, <1>7, AppendProperties
<1> HIDE DEF a
<1>10. ASSUME NEW i \in 1 .. (n + 1) PROVE e[i] = a[i]
  <2>1. CASE i = n + 1
    BY <1>2, <1>8, <1>9, <2>1 DEF x
  <2>2. CASE i # n + 1
    <3>1. i \in 1 .. n
      BY <1>1, <2>2
    <3> QED BY <1>2, <1>7, <1>8, <1>9, <3>1
  <2> QED BY <2>1, <2>2
<1>11. e = a
  BY <1>8, <1>9, <1>10, SeqEqual
<1>12. FlattenSeq(d) \in Seq(Nat) /\ FlattenSeq(Append(d, x)) = FlattenSeq(d) \o x
  BY <1>4, <1>7, FlattenAppend
<1> QED BY <1>11, <1>12 DEF a, d, e, x, more

\* What the server has to send is a sequence of the bytes of its buffer.
LEMMA UnsentIs ==
  ASSUME DataTypes, NEW c \in Clients, Bounded(c)
  PROVE  /\ Unsent(c) \in Seq(Nat) /\ Len(Unsent(c)) = Len(Iov(msg[c]))
         /\ \A i \in 1 .. Len(Iov(msg[c])) : Unsent(c)[i] = buf[c][Iov(msg[c])[i]]
<1> DEFINE at == Iov(msg[c])
           n == Len(at)
<1>1. at \in Seq(Nat) /\ buf[c] \in Seq(Nat)
  BY IovType DEF DataTypes
<1>2. Unsent(c) = [i \in DOMAIN at |-> buf[c][at[i]]]
  BY DEF Unsent
<1>3. \A i \in DOMAIN at : at[i] \in DOMAIN buf[c]
  BY DEF Bounded, Range
<1> HIDE DEF at
<1>4. n \in Nat /\ DOMAIN at = 1 .. n
  BY <1>1, LenProperties
<1>5. \A j \in DOMAIN buf[c] : buf[c][j] \in Nat
  BY <1>1, LenProperties
<1> DEFINE u == Unsent(c)
<1>6. u = [i \in 1 .. n |-> buf[c][at[i]]] /\ \A i \in 1 .. n : buf[c][at[i]] \in Nat
  BY <1>2, <1>3, <1>4, <1>5
<1> HIDE DEF u, n
<1>7. u \in Seq(Nat) /\ Len(u) = n /\ \A i \in 1 .. n : u[i] = buf[c][at[i]]
  BY <1>4, <1>6
<1> QED BY <1>7 DEF u, n, at

\* What the client has not walked over yet.
LEMMA UnwalkedIs ==
  ASSUME DataTypes, NEW c \in Clients, WalkIsInside(c)
  PROVE  /\ Unwalked(c) \in Seq(Nat)
         /\ client[c] # "walking" => Unwalked(c) = <<>>
         /\ client[c] = "walking" =>
              Unwalked(c) = Drop(incoming[c].bytes, Len(Bytes(SubSeq(RecvBuffers, 1, incoming[c].it))))
<1>1. CASE client[c] # "walking"
  BY <1>1, EmptySeq DEF Unwalked
<1>2. CASE client[c] = "walking"
  <2> DEFINE s == incoming[c].bytes
             m == incoming[c].it
             p == Len(Bytes(SubSeq(RecvBuffers, 1, m)))
  <2>1. s \in Seq(Nat) /\ m \in Nat /\ m <= Len(RecvBuffers)
    BY <1>2 DEF DataTypes, WalkIsInside
  <2>2. RecvBuffers \in Seq(Buffers) /\ Len(RecvBuffers) \in Nat
    BY RecvBuffersType, LenProperties
  <2>3. m \in 0 .. Len(RecvBuffers)
    BY <2>1, <2>2
  <2>4. p \in Nat
    BY <2>2, <2>3, PrefixOfBytes
  <2>5. Unwalked(c) = Drop(s, p)
    BY <1>2 DEF Unwalked, Drop
  <2> HIDE DEF s, p
  <2>6. Drop(s, p) \in Seq(Nat)
    BY <2>1, <2>4, DropType
  <2> QED BY <1>2, <2>5, <2>6 DEF s, p
<1> QED BY <1>1, <1>2

\* The types at one client.
LEMMA AtClient ==
  ASSUME DataTypes, NEW c \in Clients
  PROVE  /\ msg[c] \in Messages /\ outgoing[c] \in Messages /\ buf[c] \in Seq(Nat)
         /\ blocks[c] \in Seq(Seq(Nat)) /\ up[c] \in Seq(Nat) /\ down[c] \in Seq(Nat)
         /\ incoming[c].bytes \in Seq(Nat) /\ incoming[c].it \in Nat
         /\ collected[c] \in Seq(Nat)
         /\ Len(up[c]) \in Nat /\ Len(down[c]) \in Nat
<1>1. /\ msg[c] \in Messages /\ outgoing[c] \in Messages /\ buf[c] \in Seq(Nat)
      /\ blocks[c] \in Seq(Seq(Nat)) /\ up[c] \in Seq(Nat) /\ down[c] \in Seq(Nat)
      /\ incoming[c].bytes \in Seq(Nat) /\ incoming[c].it \in Nat
      /\ collected[c] \in Seq(Nat)
  BY DEF DataTypes
<1> QED BY <1>1, LenProperties

\* The then-handler of recvmsg: the writer is given the block and its padding.
LEMMA ReadSomeStep ==
  ASSUME EchoInv, NEW c \in Clients, ReadSome(c)
  PROVE  EchoInv'
<1>1. DataTypes /\ ClientInv(c) /\ conn[c] = "reading"
  BY DEF EchoInv, ReadSome
<1>2. PICK k \in 1 .. Len(up[c]) :
        /\ k <= Len(Iov(msg[c]))
        /\ buf' = [buf EXCEPT ![c] = [i \in DOMAIN buf[c] |-> IF i <= k THEN up[c][i] ELSE buf[c][i]]]
        /\ blocks' = [blocks EXCEPT ![c] = Append(blocks[c], SubSeq(up[c], 1, k))]
        /\ up' = [up EXCEPT ![c] = SubSeq(up[c], k + 1, Len(up[c]))]
  BY <1>1 DEF ReadSome, DataTypes
<1>3. /\ conn' = [conn EXCEPT ![c] = "writing"]
      /\ UNCHANGED <<main, acceptor, msg, down, client, outgoing, incoming, signals, collected>>
  BY DEF ReadSome, clientVars
<1> DEFINE t == SubSeq(up[c], 1, k)
           r == Drop(up[c], k)
           b == [i \in DOMAIN buf[c] |-> IF i <= k THEN up[c][i] ELSE buf[c][i]]
<1>4. Iov(msg[c]) = WholeBuffer /\ buf[c] = Zeros
  BY <1>1 DEF ClientInv, ReaderIsFresh
<1>5. /\ up[c] \in Seq(Nat) /\ Len(up[c]) \in Nat /\ k \in Nat /\ k \in 0 .. Len(up[c])
      /\ blocks[c] \in Seq(Seq(Nat)) /\ BufferSize \in Nat /\ k <= BufferSize
  BY <1>1, <1>2, <1>4, AtClient, WholeBufferIs, EchoAssumption
<1>6. /\ t \in Seq(Nat) /\ Len(t) = k /\ \A i \in 1 .. k : t[i] = up[c][i]
  <2> DEFINE o == up[c]
  <2> HIDE DEF o
  <2>1. o \in Seq(Nat) /\ k \in 0 .. Len(o)
    BY <1>5 DEF o
  <2>2. 0 \in 0 .. Len(o) /\ k \in 0 .. Len(o) /\ k - 0 = k
    BY <2>1, LenProperties
  <2>3. /\ SubSeq(o, 0 + 1, k) \in Seq(Nat) /\ Len(SubSeq(o, 0 + 1, k)) = k - 0
        /\ \A i \in 1 .. (k - 0) : SubSeq(o, 0 + 1, k)[i] = o[0 + i]
    BY <2>1, <2>2, SliceAndRest
  <2>4. 0 + 1 = 1 /\ \A i \in 1 .. k : 0 + i = i
    OBVIOUS
  <2> QED BY <2>2, <2>3, <2>4 DEF o
<1>7. r \in Seq(Nat) /\ Len(r) = Len(up[c]) - k
  BY <1>5, DropIs
<1>8. b = Pad(t) /\ Pad(t) \in Seq(Nat) /\ Len(Pad(t)) = BufferSize
  <2> DEFINE x == Pad(t)
  <2>1. /\ x \in Seq(Nat) /\ Len(x) = BufferSize
        /\ \A i \in 1 .. BufferSize : x[i] = IF i <= k THEN t[i] ELSE Padding
    <3> HIDE DEF t
    <3> QED BY <1>5, <1>6, PadIs
  <2>2. DOMAIN buf[c] = 1 .. BufferSize /\ \A i \in 1 .. BufferSize : buf[c][i] = Padding
    BY <1>4 DEF Zeros
  <2> HIDE DEF x, t
  <2>3. x \in [1 .. BufferSize -> Nat]
    BY <2>1, LenProperties
  <2>4. ASSUME NEW i \in 1 .. BufferSize PROVE b[i] = x[i]
    <3>1. i <= k => i \in 1 .. k
      BY <1>5
    <3> QED BY <1>6, <2>1, <2>2, <3>1
  <2>5. DOMAIN b = 1 .. BufferSize /\ DOMAIN x = 1 .. BufferSize
    BY <2>2, <2>3
  <2>6. b = x
    BY <2>2, <2>3, <2>4, <2>5
  <2> QED BY <2>1, <2>6 DEF x
<1>9. Append(blocks[c], t) \in Seq(Seq(Nat))
  BY <1>5, <1>6, AppendProperties
<1>10. /\ conn'[c] = "writing" /\ buf'[c] = b /\ blocks'[c] = Append(blocks[c], t) /\ up'[c] = r
       /\ \A d \in Clients \ {c} : /\ conn'[d] = conn[d] /\ buf'[d] = buf[d]
                                   /\ blocks'[d] = blocks[d] /\ up'[d] = up[d]
  BY <1>1, <1>2, <1>3 DEF DataTypes, Drop
<1>11. /\ conn' \in [Clients -> {"none", "backlog", "reading", "writing", "closed"}]
       /\ buf' \in [Clients -> Seq(Nat)] /\ blocks' \in [Clients -> Seq(Seq(Nat))]
       /\ up' \in [Clients -> Seq(Nat)]
  <2>1. b \in Seq(Nat)
    BY <1>8
  <2>2. r = SubSeq(up[c], k + 1, Len(up[c]))
    BY DEF Drop
  <2> HIDE DEF b, r, t
  <2>3. /\ buf' = [buf EXCEPT ![c] = b] /\ blocks' = [blocks EXCEPT ![c] = Append(blocks[c], t)]
        /\ up' = [up EXCEPT ![c] = r]
    BY <1>2, <2>2 DEF b, t
  <2> QED BY <1>1, <1>3, <1>7, <1>9, <2>1, <2>3 DEF DataTypes
<1>12. DataTypes'
  BY <1>1, <1>3, <1>11 DEF DataTypes
<1>13. \A d \in Clients \ {c} : SameAt(d)
  BY <1>3, <1>10 DEF SameAt
<1> HIDE DEF b, r, t
<1>14. Bounded(c)'
  <2>1. Len(r) <= Capacity /\ Len(down[c]) <= Capacity
    BY <1>1, <1>5, <1>7, EchoAssumption DEF ClientInv, Bounded
  <2>2. DOMAIN b = DOMAIN Zeros
    BY <1>4 DEF b
  <2> QED BY <1>3, <1>4, <1>10, <2>1, <2>2, WholeBufferIs DEF Bounded
<1>15. ReaderIsFresh(c)' /\ NothingBeforeAccept(c)' /\ WalkIsInside(c)'
  BY <1>1, <1>3, <1>10 DEF ClientInv, ReaderIsFresh, NothingBeforeAccept, WalkIsInside
<1>16. ClientIsSent(c)'
  <2> DEFINE f == FlattenSeq(blocks[c])
             o == Iov(outgoing[c])
  <2>1. f \in Seq(Nat) /\ FlattenSeq(Append(blocks[c], t)) = f \o t /\ o \in Seq(Nat)
    BY <1>1, <1>5, <1>6, FlattenAppend, AtClient, IovType
  <2>2. Sent(c)' = (f \o t) \o r \o o
    BY <1>3, <1>10, <2>1 DEF Sent
  <2>3. Sent(c) = f \o up[c] \o o
    BY DEF Sent
  <2> HIDE DEF f, o
  <2>4. (f \o t) \o r = f \o up[c]
    BY <1>5, <2>1, Moved DEF t, r
  <2> QED BY <1>1, <2>2, <2>3, <2>4 DEF ClientInv, ClientIsSent
<1>17. ClientIsEchoed(c)'
  <2> SUFFICES ASSUME client[c] # "closed"
               PROVE  (collected[c] \o Unwalked(c) \o down[c] \o ToSend(c) = Echoed(c))'
    BY <1>3 DEF ClientIsEchoed
  <2> DEFINE w == collected[c] \o Unwalked(c) \o down[c]
  <2>1. ToSend(c)' = b
    <3>1. Unsent(c)' = [i \in DOMAIN WholeBuffer |-> b[WholeBuffer[i]]]
      BY <1>3, <1>4, <1>10 DEF Unsent
    <3>2. b \in [1 .. BufferSize -> Nat]
      BY <1>8, LenProperties
    <3>3. [i \in DOMAIN WholeBuffer |-> b[WholeBuffer[i]]] = [i \in 1 .. BufferSize |-> b[i]]
      BY DEF WholeBuffer
    <3> QED BY <1>10, <3>1, <3>2, <3>3 DEF ToSend
  <2>2. Unwalked(c)' = Unwalked(c)
    BY <1>3 DEF Unwalked
  <2>3. Echoed(c)' = Echoed(c) \o Pad(t)
    BY <1>5, <1>6, <1>10, EchoedAppend DEF Echoed
  <2>4. w \in Seq(Nat)
    <3>1. collected[c] \in Seq(Nat) /\ Unwalked(c) \in Seq(Nat) /\ down[c] \in Seq(Nat)
      BY <1>1, AtClient, UnwalkedIs DEF ClientInv
    <3> QED BY <3>1, ConcatProperties
  <2>5. w \o <<>> = Echoed(c)
    BY <1>1 DEF ClientInv, ClientIsEchoed, ToSend
  <2>6. w = Echoed(c)
    <3> HIDE DEF w
    <3> QED BY <2>4, <2>5, ConcatEmptySeq
  <2>7. (collected[c] \o Unwalked(c) \o down[c] \o ToSend(c))' = w \o b
    BY <1>3, <2>1, <2>2
  <2> HIDE DEF w
  <2> QED BY <1>8, <2>3, <2>6, <2>7
<1>18. ClientInv(c)'
  BY <1>14, <1>15, <1>16, <1>17 DEF ClientInv
<1> QED BY <1>12, <1>13, <1>18, OneClient

\* A message from which k bytes were taken.
LEMMA MessageAdvanced ==
  ASSUME NEW m \in Messages, NEW k \in 0 .. Len(Iov(m))
  PROVE  LET left == PlusAssign(m.buffers, k)
             next == [m EXCEPT !.buffers = left]
         IN  /\ left \in Seq(Buffers) /\ next \in Messages /\ Bytes(left) = Drop(Iov(m), k)
             /\ Iov(next) = Drop(Iov(m), k)
             /\ IsEmpty(left) <=> Drop(Iov(m), k) = <<>>
             /\ IsEmpty(next.buffers) <=> Drop(Iov(m), k) = <<>>
<1> DEFINE left == PlusAssign(m.buffers, k)
           next == [m EXCEPT !.buffers = left]
<1>1. m.buffers \in Seq(Buffers) /\ m.address = Nil /\ Iov(m) = Bytes(m.buffers)
  BY IovIs, IovType
<1>2. left \in Seq(Buffers) /\ Bytes(left) = Drop(Iov(m), k)
  BY <1>1, PlusAssignDrops
<1> HIDE DEF left
<1>3. next.buffers = left /\ next \in Messages
  BY <1>1, <1>2 DEF Messages
<1>4. Iov(next) = Bytes(left)
  BY <1>3, IovIs
<1>5. IsEmpty(left) <=> Bytes(left) = <<>>
  BY <1>2, IsEmptyIs
<1> QED BY <1>2, <1>3, <1>4, <1>5 DEF left

\* The then-handler of sendmsg: what was sent is dropped, and what is left is still
\* the rest of the buffer, until the next reader starts afresh.
LEMMA WriteSomeStep ==
  ASSUME EchoInv, NEW c \in Clients, WriteSome(c)
  PROVE  EchoInv'
<1> USE DEF FreshMessage
<1>1. DataTypes /\ ClientInv(c) /\ conn[c] = "writing"
  BY DEF EchoInv, WriteSome
<1> DEFINE u == Unsent(c)
           at == Iov(msg[c])
<1>2. PICK k \in 1 .. Len(u) :
        /\ Len(down[c]) + k <= Capacity
        /\ down' = [down EXCEPT ![c] = down[c] \o SubSeq(u, 1, k)]
        /\ LET left == PlusAssign(msg[c].buffers, k)
           IN  IF IsEmpty(left)
                 THEN /\ conn' = [conn EXCEPT ![c] = "reading"]
                      /\ buf' = [buf EXCEPT ![c] = Zeros]
                      /\ msg' = [msg EXCEPT ![c] = FreshMessage]
                 ELSE /\ msg' = [msg EXCEPT ![c] = [msg[c] EXCEPT !.buffers = left]]
                      /\ UNCHANGED <<conn, buf>>
  BY <1>1 DEF WriteSome, Reading, DataTypes, Zeros
<1> HIDE DEF FreshMessage
<1>3. UNCHANGED <<main, acceptor, blocks, up, client, outgoing, incoming, signals, collected>>
  BY DEF WriteSome, clientVars
<1> DEFINE left == PlusAssign(msg[c].buffers, k)
           next == [msg[c] EXCEPT !.buffers = left]
           r == Drop(u, k)
           x == down[c] \o SubSeq(u, 1, k)
<1>4. /\ u \in Seq(Nat) /\ Len(u) = Len(at) /\ Len(u) \in Nat /\ k \in Nat /\ k \in 0 .. Len(u)
      /\ \A i \in 1 .. Len(u) : u[i] = buf[c][at[i]]
  BY <1>1, UnsentIs, LenProperties DEF ClientInv
<1>5. /\ msg[c] \in Messages /\ down[c] \in Seq(Nat) /\ Len(down[c]) \in Nat /\ at \in Seq(Nat)
  BY <1>1, AtClient, IovType
<1>6. /\ next \in Messages /\ Iov(next) = Drop(at, k)
      /\ IsEmpty(left) <=> Drop(at, k) = <<>>
  <2>1. k \in 0 .. Len(at)
    BY <1>4
  <2> QED BY <1>5, <2>1, MessageAdvanced
<1> HIDE DEF u, at
<1>7. r \in Seq(Nat) /\ Len(r) = Len(u) - k /\ \A i \in 1 .. (Len(u) - k) : r[i] = u[k + i]
  BY <1>4, DropIs
<1>8. /\ Drop(at, k) \in Seq(Nat) /\ Len(Drop(at, k)) = Len(u) - k
      /\ \A i \in 1 .. (Len(u) - k) : Drop(at, k)[i] = at[k + i]
  <2>1. at \in Seq(Nat) /\ k \in 0 .. Len(at) /\ Len(at) = Len(u)
    BY <1>4, <1>5
  <2>2. /\ Drop(at, k) \in Seq(Nat) /\ Len(Drop(at, k)) = Len(at) - k
        /\ \A i \in 1 .. (Len(at) - k) : Drop(at, k)[i] = at[k + i]
    BY <2>1, DropIs
  <2> QED BY <2>1, <2>2
<1>9. x \in Seq(Nat) /\ Len(x) = Len(down[c]) + k
  <2>1. SubSeq(u, 1, k) \in Seq(Nat) /\ Len(SubSeq(u, 1, k)) = k
    BY <1>4, TakeDrop
  <2> DEFINE v == SubSeq(u, 1, k)
             o == down[c]
  <2> HIDE DEF v, o
  <2>2. v \in Seq(Nat) /\ o \in Seq(Nat)
    BY <1>5, <2>1 DEF v, o
  <2>3. o \o v \in Seq(Nat) /\ Len(o \o v) = Len(o) + Len(v)
    BY <2>2, ConcatProperties
  <2> QED BY <2>1, <2>3 DEF v, o
<1>10. /\ down'[c] = x /\ down' \in [Clients -> Seq(Nat)]
       /\ \A d \in Clients \ {c} : down'[d] = down[d]
  <2> HIDE DEF x
  <2>1. down' = [down EXCEPT ![c] = x]
    BY <1>2 DEF x
  <2> QED BY <1>1, <1>9, <2>1 DEF DataTypes
<1> HIDE DEF left, next, r, x
<1>11. WalkIsInside(c)' /\ ClientIsSent(c)'
  BY <1>1, <1>3, Zenon DEF ClientInv, WalkIsInside, ClientIsSent, Sent
<1>12. Len(x) <= Capacity /\ Len(up[c]) <= Capacity /\ Range(at) \subseteq DOMAIN buf[c]
  BY <1>1, <1>2, <1>9 DEF ClientInv, Bounded, at
<1> DEFINE Kept ==
             /\ DataTypes' /\ \A d \in Clients \ {c} : SameAt(d)
             /\ Bounded(c)' /\ ReaderIsFresh(c)' /\ NothingBeforeAccept(c)' /\ ToSend(c)' = r
<1>13. ASSUME IsEmpty(left) PROVE Kept
  <2>1. /\ conn' = [conn EXCEPT ![c] = "reading"]
        /\ buf' = [buf EXCEPT ![c] = Zeros]
        /\ msg' = [msg EXCEPT ![c] = FreshMessage]
    BY <1>2, <1>13 DEF left
  <2>2. /\ conn'[c] = "reading" /\ buf'[c] = Zeros /\ msg'[c] = FreshMessage
        /\ \A d \in Clients \ {c} : conn'[d] = conn[d] /\ buf'[d] = buf[d] /\ msg'[d] = msg[d]
        /\ conn' \in [Clients -> {"none", "backlog", "reading", "writing", "closed"}]
        /\ buf' \in [Clients -> Seq(Nat)] /\ msg' \in [Clients -> Messages]
    BY <1>1, <2>1, FreshMessageIs, ZerosAre DEF DataTypes
  <2>3. DataTypes'
    BY <1>1, <1>3, <1>10, <2>2 DEF DataTypes
  <2>4. \A d \in Clients \ {c} : SameAt(d)
    BY <1>3, <1>10, <2>2 DEF SameAt
  <2>5. Bounded(c)' /\ ReaderIsFresh(c)' /\ NothingBeforeAccept(c)'
    BY <1>3, <1>10, <1>12, <2>2, FreshMessageIs, WholeBufferIs
       DEF Bounded, ReaderIsFresh, NothingBeforeAccept
  <2>6. ToSend(c)' = r
    <3>1. Len(u) - k = 0
      BY <1>6, <1>8, <1>13, EmptySeq
    <3>2. r = <<>>
      BY <1>7, <3>1, EmptySeq
    <3> QED BY <2>2, <3>2 DEF ToSend
  <2> QED BY <2>3, <2>4, <2>5, <2>6
<1>14. ASSUME ~IsEmpty(left) PROVE Kept
  <2>1. msg' = [msg EXCEPT ![c] = next] /\ conn' = conn /\ buf' = buf
    BY <1>2, <1>14 DEF left, next
  <2>2. /\ msg'[c] = next /\ msg' \in [Clients -> Messages]
        /\ \A d \in Clients \ {c} : msg'[d] = msg[d]
    BY <1>1, <1>6, <2>1 DEF DataTypes
  <2>3. DataTypes'
    BY <1>1, <1>3, <1>10, <2>1, <2>2 DEF DataTypes
  <2>4. \A d \in Clients \ {c} : SameAt(d)
    BY <1>3, <1>10, <2>1, <2>2 DEF SameAt
  <2> DEFINE rest == Drop(at, k)
  <2>5. Iov(msg[c])' = rest
    BY <1>6, <2>2
  <2> HIDE DEF rest
  <2>6. rest \in Seq(Nat) /\ Len(rest) = Len(u) - k /\ \A i \in 1 .. (Len(u) - k) : rest[i] = at[k + i]
    BY <1>8 DEF rest
  <2>7. DOMAIN rest = 1 .. (Len(u) - k)
    BY <2>6, LenProperties
  <2>8. \A i \in 1 .. (Len(u) - k) : k + i \in 1 .. Len(u)
    BY <1>4
  <2>9. Range(rest) \subseteq Range(at)
    <3>1. DOMAIN at = 1 .. Len(u)
      BY <1>4, <1>5, LenProperties
    <3> QED BY <2>6, <2>7, <2>8, <3>1 DEF Range
  <2>10. Bounded(c)' /\ ReaderIsFresh(c)' /\ NothingBeforeAccept(c)'
    <3>1. Range(rest) \subseteq DOMAIN buf[c]
      BY <1>12, <2>9
    <3> QED BY <1>1, <1>3, <1>10, <1>12, <2>1, <2>5, <3>1
            DEF Bounded, ReaderIsFresh, NothingBeforeAccept
  <2>11. ToSend(c)' = r
    <3>1. ToSend(c)' = [i \in DOMAIN rest |-> buf[c][rest[i]]]
      BY <1>1, <2>1, <2>5 DEF ToSend, Unsent
    <3>2. ASSUME NEW i \in 1 .. (Len(u) - k) PROVE buf[c][rest[i]] = r[i]
      <4>1. rest[i] = at[k + i] /\ r[i] = u[k + i]
        BY <1>7, <2>6
      <4>2. u[k + i] = buf[c][at[k + i]]
        BY <1>4, <2>8
      <4> QED BY <4>1, <4>2
    <3>3. r \in [1 .. (Len(u) - k) -> Nat]
      BY <1>7, LenProperties
    <3>4. [i \in 1 .. (Len(u) - k) |-> buf[c][rest[i]]] = r
      BY <3>2, <3>3
    <3> QED BY <2>7, <3>1, <3>4
  <2> QED BY <2>3, <2>4, <2>10, <2>11
<1>15. Kept
  BY <1>13, <1>14
<1>16. ClientIsEchoed(c)'
  <2> SUFFICES ASSUME client[c] # "closed"
               PROVE  (collected[c] \o Unwalked(c) \o down[c] \o ToSend(c) = Echoed(c))'
    BY <1>3 DEF ClientIsEchoed
  <2> DEFINE w == collected[c] \o Unwalked(c)
  <2>1. Unwalked(c)' = Unwalked(c) /\ Echoed(c)' = Echoed(c)
    BY <1>3 DEF Unwalked, Echoed
  <2>2. w \in Seq(Nat)
    <3>1. collected[c] \in Seq(Nat) /\ Unwalked(c) \in Seq(Nat)
      BY <1>1, AtClient, UnwalkedIs DEF ClientInv
    <3> QED BY <3>1, ConcatProperties
  <2>3. w \o down[c] \o u = Echoed(c)
    BY <1>1 DEF ClientInv, ClientIsEchoed, ToSend, u
  <2>4. (collected[c] \o Unwalked(c) \o down[c] \o ToSend(c))' = w \o x \o r
    BY <1>3, <1>10, <1>15, <2>1
  <2> HIDE DEF w
  <2>5. w \o x \o r = w \o down[c] \o u
    <3> DEFINE o == down[c]
    <3> HIDE DEF o
    <3>1. o \in Seq(Nat) /\ u \in Seq(Nat) /\ k \in 0 .. Len(u)
      BY <1>4, <1>5 DEF o
    <3>2. w \o (o \o SubSeq(u, 1, k)) \o Drop(u, k) = w \o o \o u
      BY <2>2, <3>1, MovedBehind
    <3> QED BY <3>2 DEF x, r, o
  <2> QED BY <2>1, <2>3, <2>4, <2>5
<1>17. ClientInv(c)'
  BY <1>11, <1>15, <1>16 DEF ClientInv
<1> QED BY <1>15, <1>17, OneClient

\* One sendmsg of a client: what was taken is under way, the rest is still in the message.
LEMMA ClientSendsStep ==
  ASSUME EchoInv, NEW c \in Clients, ClientSends(c)
  PROVE  EchoInv'
<1> DEFINE o == Iov(outgoing[c])
<1>1. DataTypes /\ ClientInv(c) /\ client[c] = "sending"
  BY DEF EchoInv, ClientSends
<1>2. PICK k \in 1 .. Len(o) :
        /\ Len(up[c]) + k <= Capacity
        /\ up' = [up EXCEPT ![c] = up[c] \o SubSeq(o, 1, k)]
        /\ outgoing' = [outgoing EXCEPT ![c] =
                          [outgoing[c] EXCEPT !.buffers = PlusAssign(outgoing[c].buffers, k)]]
  BY <1>1 DEF ClientSends, DataTypes
<1>3. /\ client' = [client EXCEPT ![c] = IF IsEmpty(outgoing'[c].buffers) THEN "receiving"
                                                                          ELSE client[c]]
      /\ UNCHANGED <<main, acceptor, conn, msg, buf, blocks, incoming, signals, collected, down>>
  BY <1>1 DEF ClientSends, serverVars, DataTypes
<1> DEFINE next == [outgoing[c] EXCEPT !.buffers = PlusAssign(outgoing[c].buffers, k)]
           x == up[c] \o SubSeq(o, 1, k)
<1>4. /\ outgoing[c] \in Messages /\ up[c] \in Seq(Nat) /\ Len(up[c]) \in Nat
      /\ blocks[c] \in Seq(Seq(Nat)) /\ o \in Seq(Nat)
  BY <1>1, AtClient, IovType
<1>5. k \in 0 .. Len(o) /\ k \in Nat
  BY <1>4, LenProperties
<1>6. next \in Messages /\ Iov(next) = Drop(o, k)
  BY <1>4, <1>5, MessageAdvanced
<1>7. x \in Seq(Nat) /\ Len(x) = Len(up[c]) + k
  <2>1. SubSeq(o, 1, k) \in Seq(Nat) /\ Len(SubSeq(o, 1, k)) = k
    BY <1>4, <1>5, TakeDrop
  <2> DEFINE v == SubSeq(o, 1, k)
             w == up[c]
  <2> HIDE DEF v, w
  <2>2. v \in Seq(Nat) /\ w \in Seq(Nat)
    BY <1>4, <2>1 DEF v, w
  <2>3. w \o v \in Seq(Nat) /\ Len(w \o v) = Len(w) + Len(v)
    BY <2>2, ConcatProperties
  <2> QED BY <2>1, <2>3 DEF v, w
<1>8. /\ outgoing' = [outgoing EXCEPT ![c] = next] /\ up' = [up EXCEPT ![c] = x]
  BY <1>2
<1> HIDE DEF next, x, o
<1>9. /\ outgoing' \in [Clients -> Messages] /\ up' \in [Clients -> Seq(Nat)]
      /\ outgoing'[c] = next /\ up'[c] = x
      /\ \A d \in Clients \ {c} : outgoing'[d] = outgoing[d] /\ up'[d] = up[d]
  BY <1>1, <1>6, <1>7, <1>8 DEF DataTypes
<1>10. /\ client' \in [Clients -> {"idle", "sending", "receiving", "walking", "closed"}]
       /\ client'[c] \in {"sending", "receiving"}
       /\ \A d \in Clients \ {c} : client'[d] = client[d]
  BY <1>1, <1>3 DEF DataTypes
<1>11. DataTypes'
  BY <1>1, <1>3, <1>9, <1>10 DEF DataTypes
<1>12. \A d \in Clients \ {c} : SameAt(d)
  BY <1>3, <1>9, <1>10 DEF SameAt
<1>13. Bounded(c)'
  BY <1>1, <1>2, <1>3, <1>7, <1>9 DEF ClientInv, Bounded
<1>14. ReaderIsFresh(c)' /\ NothingBeforeAccept(c)' /\ WalkIsInside(c)'
  BY <1>1, <1>3, <1>10 DEF ClientInv, ReaderIsFresh, NothingBeforeAccept, WalkIsInside
<1>15. ClientIsSent(c)'
  <2> DEFINE f == FlattenSeq(blocks[c])
             w == up[c]
  <2>1. f \in Seq(Nat) /\ w \in Seq(Nat)
    <3>1. <<>> \in Seq(Nat)
      BY EmptySeq
    <3> QED BY <1>4, <3>1, FlattenAppend
  <2>2. Sent(c)' = f \o x \o Drop(o, k)
    BY <1>3, <1>6, <1>9 DEF Sent
  <2>3. Sent(c) = f \o w \o o
    BY DEF Sent, o
  <2> HIDE DEF f, w
  <2>4. f \o (w \o SubSeq(o, 1, k)) \o Drop(o, k) = f \o w \o o
    <3>1. o \in Seq(Nat) /\ k \in 0 .. Len(o)
      BY <1>4, <1>5
    <3> QED BY <2>1, <3>1, MovedBehind
  <2>5. x = w \o SubSeq(o, 1, k)
    BY DEF x, w
  <2> QED BY <1>1, <2>2, <2>3, <2>4, <2>5 DEF ClientInv, ClientIsSent
<1>16. ClientIsEchoed(c)'
  <2>1. Unwalked(c)' = <<>> /\ Unwalked(c) = <<>>
    BY <1>1, <1>10 DEF Unwalked
  <2>2. ToSend(c)' = ToSend(c) /\ Echoed(c)' = Echoed(c)
    BY <1>3 DEF ToSend, Unsent, Echoed
  <2> QED BY <1>1, <1>3, <2>1, <2>2 DEF ClientInv, ClientIsEchoed
<1>17. ClientInv(c)'
  BY <1>13, <1>14, <1>15, <1>16 DEF ClientInv
<1> QED BY <1>11, <1>12, <1>17, OneClient

\* One recvmsg of a client: what it took is in its buffers, to be walked over.
LEMMA ClientReceivesStep ==
  ASSUME EchoInv, NEW c \in Clients, ClientReceives(c)
  PROVE  EchoInv'
<1>1. DataTypes /\ ClientInv(c) /\ client[c] = "receiving"
  BY DEF EchoInv, ClientReceives
<1>2. PICK k \in 1 .. Len(down[c]) :
        /\ k <= Len(Bytes(RecvBuffers))
        /\ incoming' = [incoming EXCEPT ![c] = [bytes |-> SubSeq(down[c], 1, k), it |-> 0]]
        /\ down' = [down EXCEPT ![c] = SubSeq(down[c], k + 1, Len(down[c]))]
  BY <1>1 DEF ClientReceives, DataTypes, Begin
<1>3. /\ client' = [client EXCEPT ![c] = "walking"]
      /\ UNCHANGED <<main, acceptor, conn, msg, buf, blocks, outgoing, signals, collected, up>>
  BY DEF ClientReceives, serverVars
<1> DEFINE o == down[c]
           t == SubSeq(o, 1, k)
           r == Drop(o, k)
<1>4. o \in Seq(Nat) /\ Len(o) \in Nat /\ collected[c] \in Seq(Nat)
  BY <1>1, AtClient
<1>5. k \in 0 .. Len(o) /\ k \in Nat /\ k # 0
  BY <1>4
<1>6. t \in Seq(Nat) /\ Len(t) = k /\ r \in Seq(Nat) /\ Len(r) = Len(o) - k
  <2> HIDE DEF o
  <2> QED BY <1>4, <1>5, TakeDrop, DropIs
<1>7. incoming' = [incoming EXCEPT ![c] = [bytes |-> t, it |-> 0]] /\ down' = [down EXCEPT ![c] = r]
  BY <1>2 DEF Drop
<1> HIDE DEF t, r
<1>8. /\ client' \in [Clients -> {"idle", "sending", "receiving", "walking", "closed"}]
      /\ incoming' \in [Clients -> [bytes : Seq(Nat), it : Nat]] /\ down' \in [Clients -> Seq(Nat)]
      /\ client'[c] = "walking" /\ incoming'[c] = [bytes |-> t, it |-> 0] /\ down'[c] = r
      /\ \A d \in Clients \ {c} :
           client'[d] = client[d] /\ incoming'[d] = incoming[d] /\ down'[d] = down[d]
  BY <1>1, <1>3, <1>6, <1>7 DEF DataTypes
<1>9. DataTypes'
  BY <1>1, <1>3, <1>8 DEF DataTypes
<1>10. \A d \in Clients \ {c} : SameAt(d)
  BY <1>3, <1>8 DEF SameAt
<1>11. conn[c] \notin {"none", "backlog"}
  <2>1. down[c] # <<>>
    BY <1>4, <1>5, EmptySeq
  <2> QED BY <1>1, <2>1 DEF ClientInv, NothingBeforeAccept
<1>12. Bounded(c)'
  <2>1. Len(r) <= Capacity /\ Len(up[c]) <= Capacity /\ Range(Iov(msg[c])) \subseteq DOMAIN buf[c]
    BY <1>1, <1>4, <1>5, <1>6, EchoAssumption DEF ClientInv, Bounded
  <2> QED BY <1>3, <1>8, <2>1 DEF Bounded
<1>13. ReaderIsFresh(c)' /\ NothingBeforeAccept(c)' /\ ClientIsSent(c)'
  <2>1. NothingBeforeAccept(c)'
    BY <1>3, <1>11 DEF NothingBeforeAccept
  <2>2. ReaderIsFresh(c)' /\ ClientIsSent(c)'
    BY <1>1, <1>3, Zenon DEF ClientInv, ReaderIsFresh, ClientIsSent, Sent
  <2> QED BY <2>1, <2>2
<1>14. incoming'[c].bytes = t /\ incoming'[c].it = 0
  BY <1>8
<1>15. RecvBuffers \in Seq(Buffers) /\ Len(RecvBuffers) \in Nat
  BY RecvBuffersType, LenProperties
<1>16. WalkIsInside(c)'
  <2>1. RecvBuffers' = RecvBuffers /\ Len(t) <= Len(Bytes(RecvBuffers)) /\ 0 <= Len(RecvBuffers)
    BY <1>2, <1>6, <1>15 DEF RecvBuffers
  <2> QED BY <1>14, <2>1 DEF WalkIsInside
<1>17. Unwalked(c)' = t
  <2>1. Len(Bytes(SubSeq(RecvBuffers, 1, 0))) = 0
    BY <1>15, BytesOfPrefix, EmptySeq
  <2>2. Unwalked(c)' = SubSeq(t, Len(Bytes(SubSeq(RecvBuffers, 1, 0))) + 1, Len(t))
    BY <1>8, <1>14 DEF Unwalked
  <2>3. SubSeq(t, 1, Len(t)) = t
    BY <1>6, SubSeqFull
  <2>4. 0 + 1 = 1
    OBVIOUS
  <2> QED BY <2>1, <2>2, <2>3, <2>4
<1>18. ClientIsEchoed(c)'
  <2> DEFINE g == collected[c]
  <2>1. Unwalked(c) = <<>>
    BY <1>1 DEF Unwalked
  <2>2. ToSend(c)' = ToSend(c) /\ Echoed(c)' = Echoed(c)
    BY <1>3 DEF ToSend, Unsent, Echoed
  <2>3. g \o <<>> = g
    BY <1>4, ConcatEmptySeq
  <2> HIDE DEF o
  <2>4. (g \o t) \o r = g \o o
    BY <1>4, <1>5, Moved DEF t, r
  <2>5. (collected[c] \o Unwalked(c) \o down[c])' = collected[c] \o Unwalked(c) \o down[c]
    <3>1. (collected[c] \o Unwalked(c) \o down[c])' = (g \o t) \o r
      BY <1>3, <1>8, <1>17
    <3>2. collected[c] \o Unwalked(c) \o down[c] = g \o o
      BY <2>1, <2>3 DEF o
    <3> QED BY <2>4, <3>1, <3>2
  <2> QED BY <1>1, <1>3, <1>8, <2>2, <2>5 DEF ClientInv, ClientIsEchoed
<1>19. ClientInv(c)'
  BY <1>12, <1>13, <1>16, <1>18 DEF ClientInv
<1> QED BY <1>9, <1>10, <1>19, OneClient

\* One turn of a client's loop over its buffers.
LEMMA ClientWalksStep ==
  ASSUME EchoInv, NEW c \in Clients, ClientWalks(c)
  PROVE  EchoInv'
<1> DEFINE s == incoming[c].bytes
           m == incoming[c].it
           n == Len(RecvBuffers)
           g == collected[c]
           p == Len(Bytes(SubSeq(RecvBuffers, 1, m)))
<1>1. DataTypes /\ ClientInv(c) /\ client[c] = "walking"
  BY DEF EchoInv, ClientWalks
<1>2. UNCHANGED <<main, acceptor, conn, msg, buf, blocks, outgoing, signals, up, down>>
  BY DEF ClientWalks, serverVars
<1>3. s \in Seq(Nat) /\ m \in Nat /\ g \in Seq(Nat) /\ Len(s) \in Nat
  BY <1>1, AtClient, LenProperties
<1>4. RecvBuffers \in Seq(Buffers) /\ n \in Nat /\ Len(Bytes(RecvBuffers)) \in Nat
  BY RecvBuffersType, BytesType, LenProperties
<1>5. m <= n /\ Len(s) <= Len(Bytes(RecvBuffers))
  BY <1>1 DEF ClientInv, WalkIsInside
<1>6. Unwalked(c) = Drop(s, p)
  BY <1>1, UnwalkedIs DEF ClientInv
<1>7. ToSend(c)' = ToSend(c) /\ Echoed(c)' = Echoed(c)
  BY <1>2 DEF ToSend, Unsent, Echoed
<1>8. Bounded(c)' /\ ReaderIsFresh(c)' /\ ClientIsSent(c)'
  BY <1>1, <1>2, Zenon DEF ClientInv, Bounded, ReaderIsFresh, ClientIsSent, Sent
<1>9. conn[c] \notin {"none", "backlog"}
  BY <1>1 DEF ClientInv, NothingBeforeAccept
<1>10. NothingBeforeAccept(c)'
  BY <1>2, <1>9 DEF NothingBeforeAccept
<1>11. CASE m = n
  <2>1. client' = [client EXCEPT ![c] = "receiving"] /\ UNCHANGED <<incoming, collected>>
    BY <1>11 DEF ClientWalks, Same, End
  <2>2. /\ client' \in [Clients -> {"idle", "sending", "receiving", "walking", "closed"}]
        /\ client'[c] = "receiving" /\ \A d \in Clients \ {c} : client'[d] = client[d]
    BY <1>1, <2>1 DEF DataTypes
  <2>3. DataTypes'
    BY <1>1, <1>2, <2>1, <2>2 DEF DataTypes
  <2>4. \A d \in Clients \ {c} : SameAt(d)
    BY <1>2, <2>1, <2>2 DEF SameAt
  <2>5. WalkIsInside(c)'
    BY <2>2 DEF WalkIsInside
  <2>6. Unwalked(c) = <<>> /\ Unwalked(c)' = <<>>
    <3>1. p = Len(Bytes(RecvBuffers))
      BY <1>4, <1>11, BytesOfPrefix
    <3> HIDE DEF s, p
    <3>2. Drop(s, p) = <<>>
      BY <1>3, <1>4, <1>5, <3>1, DropAll
    <3> QED BY <1>6, <2>2, <3>2 DEF Unwalked
  <2>7. ClientIsEchoed(c)'
    BY <1>1, <1>2, <1>7, <2>1, <2>6 DEF ClientInv, ClientIsEchoed
  <2>8. ClientInv(c)'
    BY <1>8, <1>10, <2>5, <2>7 DEF ClientInv
  <2> QED BY <2>3, <2>4, <2>8, OneClient
<1>12. CASE m # n
  <2> DEFINE x == InBuffer(c)
             q == Len(Bytes(SubSeq(RecvBuffers, 1, m + 1)))
  <2>1. /\ collected' = [collected EXCEPT ![c] = g \o x]
        /\ incoming' = [incoming EXCEPT ![c] = [incoming[c] EXCEPT !.it = m + 1]]
        /\ client' = client
    BY <1>1, <1>12 DEF ClientWalks, Same, End, Increment, DataTypes
  <2>2. m \in 0 .. (n - 1) /\ m + 1 <= n /\ m + 1 \in Nat
    BY <1>3, <1>4, <1>5, <1>12
  <2>3. x \in Seq(Nat) /\ x \o Drop(s, q) = Drop(s, p)
    BY <1>3, <1>5, <2>2, OneBuffer
  <2> HIDE DEF x
  <2>4. g \o x \in Seq(Nat)
    <3> HIDE DEF g
    <3> QED BY <1>3, <2>3, ConcatProperties
  <2>5. [incoming[c] EXCEPT !.it = m + 1] = [bytes |-> s, it |-> m + 1]
    BY <1>1 DEF DataTypes
  <2> DEFINE y == g \o x
             z == [bytes |-> s, it |-> m + 1]
  <2>6. collected' = [collected EXCEPT ![c] = y] /\ incoming' = [incoming EXCEPT ![c] = z]
    BY <2>1, <2>5
  <2>7. y \in Seq(Nat) /\ z \in [bytes : Seq(Nat), it : Nat] /\ z.bytes = s /\ z.it = m + 1
    BY <1>3, <2>2, <2>4
  <2> HIDE DEF y, z
  <2>8. /\ collected' \in [Clients -> Seq(Nat)] /\ collected'[c] = y
        /\ incoming' \in [Clients -> [bytes : Seq(Nat), it : Nat]] /\ incoming'[c] = z
        /\ \A d \in Clients \ {c} : collected'[d] = collected[d] /\ incoming'[d] = incoming[d]
    BY <1>1, <2>6, <2>7 DEF DataTypes
  <2>9. DataTypes'
    BY <1>1, <1>2, <2>1, <2>8 DEF DataTypes
  <2>10. \A d \in Clients \ {c} : SameAt(d)
    BY <1>2, <2>1, <2>8 DEF SameAt
  <2>11. RecvBuffers' = RecvBuffers
    BY DEF RecvBuffers
  <2>12. WalkIsInside(c)'
    BY <1>5, <2>2, <2>7, <2>8, <2>11 DEF WalkIsInside
  <2>13. Unwalked(c)' = Drop(s, q)
    <3>1. Unwalked(c)' = SubSeq(z.bytes, Len(Bytes(SubSeq(RecvBuffers, 1, z.it))) + 1, Len(z.bytes))
      BY <1>1, <2>1, <2>8 DEF Unwalked
    <3> QED BY <2>7, <3>1 DEF Drop
  <2>14. y \o Drop(s, q) = g \o Drop(s, p)
    <3> DEFINE e == Drop(s, q)
    <3>1. e \in Seq(Nat)
      <4>1. m + 1 \in 0 .. n
        BY <1>4, <2>2
      <4>2. q \in Nat
        BY <1>4, <4>1, PrefixOfBytes
      <4> HIDE DEF s, q
      <4> QED BY <1>3, <4>2, DropType
    <3> HIDE DEF e, g
    <3>2. (g \o x) \o e = g \o (x \o e)
      <4>1. g \in Seq(Nat) /\ x \in Seq(Nat) /\ e \in Seq(Nat)
        BY <1>3, <2>3, <3>1
      <4> QED BY <4>1, Associative
    <3> QED BY <2>3, <3>2 DEF e, y
  <2>15. ClientIsEchoed(c)'
    <3>1. (collected[c] \o Unwalked(c))' = collected[c] \o Unwalked(c)
      BY <1>6, <2>8, <2>13, <2>14
    <3> QED BY <1>1, <1>2, <1>7, <2>1, <3>1 DEF ClientInv, ClientIsEchoed
  <2>16. ClientInv(c)'
    BY <1>8, <1>10, <2>12, <2>15 DEF ClientInv
  <2> QED BY <2>9, <2>10, <2>16, OneClient
<1> QED BY <1>11, <1>12

\* Every step keeps the invariant.
LEMMA EchoStep == EchoInv /\ [EchoNext]_echoVars => EchoInv'
<1> SUFFICES ASSUME EchoInv, [EchoNext]_echoVars PROVE EchoInv'
  OBVIOUS
<1>1. ControlTypes
  BY DEF EchoInv, DataTypes, ControlTypes
<1> USE DEF serverVars, clientVars
<1>2. CASE MakeServer
  <2>1. PICK i \in 1 .. 4 :
          /\ main = Calls[i]
          /\ \/ main' = Calls[i + 1] /\ acceptor' = IF i = 4 THEN "called" ELSE "none"
             \/ main' = "terminated" /\ UNCHANGED acceptor
    BY <1>2 DEF MakeServer
  <2>2. UNCHANGED <<data, conn, client, signals>>
    BY <1>2 DEF MakeServer, data
  <2>3. i + 1 \in 1 .. 5
    OBVIOUS
  <2>4. main' \in Range(Calls) \cup {"loop", "returned", "terminated"}
    BY <2>1, <2>3, MainStates
  <2>5. acceptor' \in {"none", "called", "pending", "ended"}
    BY <1>1, <2>1 DEF ControlTypes
  <2>6. ControlTypes'
    BY <1>1, <2>2, <2>4, <2>5 DEF ControlTypes
  <2> QED BY <2>2, <2>6, NobodysStep
<1>3. CASE AcceptLater \/ AcceptFails
  <2>1. UNCHANGED <<data, conn, client, signals>>
    BY <1>3 DEF AcceptLater, AcceptFails, data
  <2>2. ControlTypes'
    BY <1>1, <1>3, <2>1 DEF ControlTypes, AcceptLater, AcceptFails
  <2> QED BY <2>1, <2>2, NobodysStep
<1>4. CASE MainReturns
  <2>1. UNCHANGED <<data, conn, client, signals>>
    BY <1>4 DEF MainReturns, data
  <2>2. ControlTypes'
    BY <1>1, <1>4, <2>1 DEF ControlTypes, MainReturns
  <2> QED BY <2>1, <2>2, NobodysStep
<1>5. ASSUME NEW c \in Clients, PushFails(c) PROVE EchoInv'
  <2>1. UNCHANGED <<data, client, signals>> /\ conn' = [conn EXCEPT ![c] = "closed"]
    BY <1>5 DEF PushFails, data
  <2>2. main' \in {main, "terminated"} /\ acceptor' \in {acceptor, "ended"}
    BY <1>5 DEF PushFails
  <2>3. ControlTypes'
    BY <1>1, <2>1, <2>2 DEF ControlTypes
  <2>4. /\ conn'[c] = "closed" /\ client'[c] = client[c]
        /\ \A d \in Clients \ {c} : conn'[d] = conn[d] /\ client'[d] = client[d]
    BY <1>1, <2>1 DEF ControlTypes
  <2> QED BY <2>1, <2>3, <2>4, StatusStep
<1>6. ASSUME NEW c \in Clients, ReadEnd(c) \/ ConnectionFails(c) PROVE EchoInv'
  <2>1. UNCHANGED <<data, main, acceptor, client, signals>> /\ conn' = [conn EXCEPT ![c] = "closed"]
    BY <1>6 DEF ReadEnd, ConnectionFails, data
  <2>2. ControlTypes'
    BY <1>1, <2>1 DEF ControlTypes
  <2>3. /\ conn'[c] = "closed" /\ client'[c] = client[c]
        /\ \A d \in Clients \ {c} : conn'[d] = conn[d] /\ client'[d] = client[d]
    BY <1>1, <2>1 DEF ControlTypes
  <2> QED BY <2>1, <2>2, <2>3, StatusStep
<1>7. ASSUME NEW c \in Clients, Connect(c) PROVE EchoInv'
  <2>1. /\ UNCHANGED <<data, main, acceptor, signals>> /\ conn[c] = "none"
        /\ conn' = [conn EXCEPT ![c] = "backlog"]
        /\ client' = [client EXCEPT ![c] = IF IsEmpty(outgoing[c].buffers) THEN "receiving"
                                                                           ELSE "sending"]
    BY <1>7 DEF Connect, data
  <2>2. /\ conn'[c] = "backlog" /\ client'[c] \in {"sending", "receiving"}
        /\ \A d \in Clients \ {c} : conn'[d] = conn[d] /\ client'[d] = client[d]
    BY <1>1, <2>1 DEF ControlTypes
  <2>3. ControlTypes'
    BY <1>1, <2>1 DEF ControlTypes
  <2> QED BY <2>1, <2>2, <2>3, StatusStep
<1>8. ASSUME NEW c \in Clients, ClientCloses(c) PROVE EchoInv'
  <2>1. /\ UNCHANGED <<data, main, acceptor, conn, signals>>
        /\ client' = [client EXCEPT ![c] = "closed"]
    BY <1>8 DEF ClientCloses, data
  <2>2. ControlTypes'
    BY <1>1, <2>1 DEF ControlTypes
  <2>3. /\ conn'[c] = conn[c] /\ client'[c] = "closed"
        /\ \A d \in Clients \ {c} : conn'[d] = conn[d] /\ client'[d] = client[d]
    BY <1>1, <2>1 DEF ControlTypes
  <2> QED BY <2>1, <2>2, <2>3, StatusStep
<1>9. ASSUME NEW c \in Clients, Interrupted(c) PROVE EchoInv'
  <2>1. UNCHANGED <<data, main, acceptor, conn, client>> /\ signals < MaxSignals /\ signals' = signals + 1
    BY <1>9 DEF Interrupted, data
  <2>2. signals' \in 0 .. MaxSignals
    BY <1>1, <2>1, EchoAssumption DEF ControlTypes
  <2>3. ControlTypes'
    BY <1>1, <2>1, <2>2 DEF ControlTypes
  <2> QED BY <2>1, <2>3, NobodysStep
<1>10. CASE UNCHANGED echoVars
  <2>1. UNCHANGED <<data, main, acceptor, conn, client, signals>>
    BY <1>10 DEF echoVars, data
  <2>2. ControlTypes'
    BY <1>1, <2>1 DEF ControlTypes
  <2> QED BY <2>1, <2>2, NobodysStep
<1>11. CASE \E c \in Clients : AcceptStep(c) \/ ServerStep(c) \/ ClientStep(c)
  <2>1. PICK c \in Clients : AcceptStep(c) \/ ServerStep(c) \/ ClientStep(c)
    BY <1>11
  <2> QED BY <1>5, <1>6, <2>1, AcceptedStep, ReadSomeStep, WriteSomeStep, ClientSendsStep,
             ClientReceivesStep, ClientWalksStep DEF AcceptStep, ServerStep, ClientStep
<1> QED BY <1>2, <1>3, <1>4, <1>6, <1>7, <1>8, <1>9, <1>10, <1>11 DEF EchoNext

\* The invariant holds in every state of every behaviour.
LEMMA EchoInvariant == EchoSpec => []EchoInv
<1>1. EchoInit => EchoInv
  BY EchoInitial
<1>2. EchoInv /\ [EchoNext]_echoVars => EchoInv'
  BY EchoStep
<1> QED BY <1>1, <1>2, PTL DEF EchoSpec

-----------------------------------------------------------------------------
(* The theorems.                                                           *)

\* The echo server and its clients keep their types; the kernel's queues stay within
\* their capacity, and the server's message never points outside the shared buffer,
\* however the sends of writer() are split.
THEOREM EchoTypeCorrect == EchoSpec => []EchoTypeOK
<1>1. EchoInv => EchoTypeOK
  BY DEF EchoInv, DataTypes, ClientInv, Bounded, EchoTypeOK
<1> QED BY <1>1, EchoInvariant, PTL

\* For messages of any buffers and any splitting by the kernel, what the server has
\* received, what is under way and what the client still has to send are the payload.
THEOREM NothingIsLost == EchoSpec => []NothingLost
<1>1. EchoInv => NothingLost
  BY DEF EchoInv, ClientInv, ClientIsSent, Sent, NothingLost
<1> QED BY <1>1, EchoInvariant, PTL

\* What comes back over an open connection are the blocks that recvmsg of the server
\* received, in order, each filled up with zeros to the size of the buffer.
THEOREM EchoComesPadded == EchoSpec => []EchoIsPadded
<1>1. EchoInv => EchoIsPadded
  BY Zenon DEF EchoInv, ClientInv, ClientIsEchoed, ToSend, Echoed, Padded, EchoIsPadded
<1> QED BY <1>1, EchoInvariant, PTL

=============================================================================
