----------------------------- MODULE SupportProofs -----------------------------
(***************************************************************************)
(* Proofs about LockedPool, for arenas and requests of any size, and about *)
(* Scheduler, for any threads, tasks and callbacks.                        *)
(***************************************************************************)
EXTENDS LockedPool, Scheduler, FiniteSetTheorems, SequenceTheorems, WellFoundedInduction, TLAPS

-------------------------------------------------------------------------------
(* LockedPool: least elements, and the chunks of an arena.                 *)

LEMMA LeastOf ==
  ASSUME NEW T, T \subseteq Nat, T # {}
  PROVE  Min(T) \in T /\ \A t \in T : Min(T) <= t
<1>1. \E t \in T : \A u \in T : ~ <<u, t>> \in OpToRel(<, Nat)
  BY NatLessThanWellFounded, WFMin
<1>2. \E t \in T : \A u \in T : t <= u
  <2>1. PICK t \in T : \A u \in T : ~ <<u, t>> \in OpToRel(<, Nat)
    BY <1>1
  <2> SUFFICES ASSUME NEW u \in T PROVE t <= u
    BY <2>1
  <2>2. t \in Nat /\ u \in Nat /\ ~(u < t)
    BY <2>1 DEF OpToRel
  <2> QED
    BY <2>2
<1> QED
  BY <1>2 DEF Min

Chunks == UNION {[S -> Nat] : S \in SUBSET Nat}
ArenaType == [size : Nat, chunks_free : Chunks, chunks_used : Chunks]

LEMMA ChunksAre ==
  ASSUME NEW c \in Chunks
  PROVE  DOMAIN c \subseteq Nat /\ \A k \in DOMAIN c : c[k] \in Nat
BY DEF Chunks

\* G is F with a chunk at a place, which replaces the one there.
With(G, F, off, size) ==
  /\ G \in Chunks /\ DOMAIN G = DOMAIN F \cup {off}
  /\ G[off] = size /\ \A k \in DOMAIN F : k # off => G[k] = F[k]

LEMMA PutChunk ==
  ASSUME NEW c \in Chunks, NEW off \in Nat, NEW size \in Nat
  PROVE  With(Put(c, off, size), c, off, size)
<1>1. Put(c, off, size) \in [DOMAIN c \cup {off} -> Nat]
  BY ChunksAre DEF Put
<1>2. DOMAIN c \cup {off} \in SUBSET Nat
  BY ChunksAre
<1>3. Put(c, off, size) \in Chunks
  BY <1>1, <1>2 DEF Chunks
<1> QED
  BY <1>3 DEF Put, With

LEMMA EraseChunk ==
  ASSUME NEW c \in Chunks, NEW off
  PROVE  /\ Erase(c, off) \in Chunks
         /\ DOMAIN Erase(c, off) = DOMAIN c \ {off}
         /\ \A k \in DOMAIN c : k # off => Erase(c, off)[k] = c[k]
<1>1. Erase(c, off) \in [DOMAIN c \ {off} -> Nat]
  BY ChunksAre DEF Erase
<1>2. DOMAIN c \ {off} \in SUBSET Nat
  BY ChunksAre
<1>3. Erase(c, off) \in Chunks
  BY <1>1, <1>2 DEF Chunks
<1> QED
  BY <1>3 DEF Erase

\* The chunks of an arena.
Fit(c, size) == \A k \in DOMAIN c : c[k] >= 1 /\ k + c[k] <= size
Disjoint(c, d) == \A i \in DOMAIN c, j \in DOMAIN d : i + c[i] <= j \/ j + d[j] <= i
InOrder(c) == \A i, j \in DOMAIN c : i < j => i + c[i] <= j
Merged(c) == \A i, j \in DOMAIN c : i < j => i + c[i] < j
Within(c, byte) == \E k \in DOMAIN c : k <= byte /\ byte < k + c[k]

Sound(r) ==
  /\ Fit(r.chunks_free, r.size) /\ Fit(r.chunks_used, r.size)
  /\ Merged(r.chunks_free) /\ InOrder(r.chunks_used)
  /\ Disjoint(r.chunks_free, r.chunks_used)
  /\ \A byte \in Nat : byte < r.size => Within(r.chunks_free, byte) \/ Within(r.chunks_used, byte)

PoolInv ==
  /\ arenas \in Seq(ArenaType) /\ cumulative_bytes_locked \in Nat
  /\ \A a \in 1..Len(arenas) : Sound(arenas[a])

LEMMA AlignUpPositive ==
  ASSUME NEW x \in Nat \ {0}
  PROVE  AlignUp(x) \in Nat \ {0}
<1>1. ARENA_ALIGN \in Nat /\ ARENA_ALIGN >= 1
  BY PoolAssumption
<1>2. x + ARENA_ALIGN - 1 \in Nat /\ x + ARENA_ALIGN - 1 >= ARENA_ALIGN
  BY <1>1
<1> DEFINE q == (x + ARENA_ALIGN - 1) \div ARENA_ALIGN
<1>3. q \in Nat /\ q >= 1
  BY <1>1, <1>2
<1> HIDE DEF q
<1>4. q * ARENA_ALIGN \in Nat /\ q * ARENA_ALIGN >= 1
  BY <1>1, <1>3
<1> QED
  BY <1>4 DEF AlignUp, q

\* A fresh arena is one free chunk.
LEMMA NewArenaSound ==
  ASSUME NEW size \in Nat \ {0}
  PROVE  /\ NewArena(size) \in ArenaType /\ Sound(NewArena(size))
         /\ NewArena(size).size = size
         /\ DOMAIN NewArena(size).chunks_used = {}
         /\ DOMAIN NewArena(size).chunks_free = {0} /\ NewArena(size).chunks_free[0] = size
<1>1. NoChunk \in Chunks /\ DOMAIN NoChunk = {}
  <2>1. NoChunk \in [{} -> Nat] /\ {} \in SUBSET Nat
    BY DEF NoChunk
  <2> QED
    BY <2>1 DEF Chunks, NoChunk
<1> DEFINE f == Put(NoChunk, 0, size)
<1>2. f \in Chunks /\ DOMAIN f = {0} /\ f[0] = size
  BY <1>1, PutChunk DEF With
<1> HIDE DEF f
<1>3. NewArena(size) = [size |-> size, chunks_free |-> f, chunks_used |-> NoChunk]
  BY DEF NewArena, f
<1>4. /\ NewArena(size).size = size /\ NewArena(size).chunks_free = f
      /\ NewArena(size).chunks_used = NoChunk /\ NewArena(size) \in ArenaType
  BY <1>1, <1>2, <1>3 DEF ArenaType
<1>5. Sound(NewArena(size))
  BY <1>1, <1>2, <1>4 DEF Sound, Fit, Merged, InOrder, Disjoint, Within
<1> QED
  BY <1>1, <1>2, <1>4, <1>5

LEMMA ArenaUpdate ==
  ASSUME NEW r \in ArenaType, NEW u, NEW f
  PROVE  [r EXCEPT !.chunks_used = u, !.chunks_free = f]
           = [size |-> r.size, chunks_free |-> f, chunks_used |-> u]
<1>1. [r EXCEPT !.chunks_used = u] = [size |-> r.size, chunks_free |-> r.chunks_free, chunks_used |-> u]
  BY DEF ArenaType
<1> DEFINE q == [size |-> r.size, chunks_free |-> r.chunks_free, chunks_used |-> u]
<1>2. [q EXCEPT !.chunks_free = f] = [size |-> r.size, chunks_free |-> f, chunks_used |-> u]
  OBVIOUS
<1> QED
  BY <1>1, <1>2

\* Arena::alloc gives out the end of a free chunk.
LEMMA AllocSound ==
  ASSUME NEW r \in ArenaType, Sound(r), NEW size \in Nat \ {0}, LargeEnough(r, size) # {}
  PROVE  /\ ArenaAlloc(r, size) \in ArenaType /\ Sound(ArenaAlloc(r, size))
         /\ ArenaAlloc(r, size).size = r.size
         /\ \E off \in Nat :
              /\ off \notin DOMAIN r.chunks_used
              /\ ArenaAlloc(r, size).chunks_used = Put(r.chunks_used, off, size)
              /\ \A j \in DOMAIN r.chunks_used :
                   off + size <= j \/ j + r.chunks_used[j] <= off
<1> DEFINE F == r.chunks_free
           U == r.chunks_used
           k == Min(LargeEnough(r, size))
           rest == F[k] - size
           off == k + rest
           F2 == IF rest = 0 THEN Erase(F, k) ELSE Put(F, k, rest)
           U2 == Put(U, off, size)
<1>1. F \in Chunks /\ U \in Chunks /\ r.size \in Nat
  BY DEF ArenaType
<1>2. /\ DOMAIN F \subseteq Nat /\ \A i \in DOMAIN F : F[i] \in Nat
      /\ DOMAIN U \subseteq Nat /\ \A i \in DOMAIN U : U[i] \in Nat
  BY <1>1, ChunksAre
<1>3. k \in DOMAIN F /\ F[k] >= size
  <2>1. LargeEnough(r, size) \subseteq Nat
    BY <1>2 DEF LargeEnough
  <2>2. k \in LargeEnough(r, size)
    BY <2>1, LeastOf
  <2> QED
    BY <2>2 DEF LargeEnough
<1>4. ArenaAlloc(r, size) = [size |-> r.size, chunks_free |-> F2, chunks_used |-> U2]
  <2>1. ArenaAlloc(r, size) = [r EXCEPT !.chunks_used = U2, !.chunks_free = F2]
    BY DEF ArenaAlloc
  <2> HIDE DEF F2, U2
  <2> QED
    BY <2>1, ArenaUpdate
<1> HIDE DEF F, U, k
<1>5. rest \in Nat /\ off \in Nat /\ size \in Nat /\ k \in Nat /\ F[k] \in Nat /\ off + size = k + F[k]
  BY <1>2, <1>3
<1>a. rest + size = F[k] /\ off = k + rest
  BY <1>2, <1>3
<1> HIDE DEF rest, off
<1>6. /\ U2 \in Chunks /\ DOMAIN U2 = DOMAIN U \cup {off} /\ U2[off] = size
      /\ \A j \in DOMAIN U : j # off => U2[j] = U[j]
  <2>1. U \in Chunks /\ off \in Nat /\ size \in Nat
    BY <1>1, <1>5
  <2>2. With(U2, U, off, size)
    BY <2>1, PutChunk
  <2> HIDE DEF U2
  <2> QED
    BY <2>2 DEF With
<1>7. /\ F2 \in Chunks
      /\ DOMAIN F2 = IF rest = 0 THEN DOMAIN F \ {k} ELSE DOMAIN F
      /\ rest # 0 => F2[k] = rest
      /\ \A j \in DOMAIN F : j # k => F2[j] = F[j]
  <2>1. CASE rest = 0
    BY <1>1, <2>1, EraseChunk
  <2>2. CASE rest # 0
    <3>0. F \in Chunks /\ k \in Nat /\ rest \in Nat
      BY <1>1, <1>5
    <3>1. DOMAIN F \cup {k} = DOMAIN F
      BY <1>3
    <3>2. With(F2, F, k, rest)
      BY <2>2, <3>0, PutChunk
    <3> HIDE DEF F2
    <3> QED
      BY <2>2, <3>1, <3>2 DEF With
  <2> QED
    BY <2>1, <2>2
<1> HIDE DEF F2, U2
<1>8. /\ Fit(F, r.size) /\ Fit(U, r.size) /\ Merged(F) /\ InOrder(U) /\ Disjoint(F, U)
      /\ \A byte \in Nat : byte < r.size => Within(F, byte) \/ Within(U, byte)
  BY DEF Sound, F, U
<1>9. off \notin DOMAIN U /\ \A j \in DOMAIN U : off + size <= j \/ j + U[j] <= off
  <2>1. \A j \in DOMAIN U : U[j] >= 1 /\ (k + F[k] <= j \/ j + U[j] <= k)
    BY <1>3, <1>8 DEF Fit, Disjoint
  <2> QED
    BY <1>2, <1>5, <1>a, <2>1
<1>10. Fit(F2, r.size) /\ Fit(U2, r.size)
  BY <1>1, <1>2, <1>3, <1>5, <1>6, <1>7, <1>8, <1>a DEF Fit
<1>11. Merged(F2)
  BY <1>2, <1>3, <1>5, <1>7, <1>8, <1>a DEF Merged
<1>12. InOrder(U2)
  BY <1>2, <1>5, <1>6, <1>8, <1>9, <1>a DEF InOrder, Fit
<1>13. Disjoint(F2, U2)
  <2> SUFFICES ASSUME NEW i \in DOMAIN F2, NEW j \in DOMAIN U2
               PROVE  i + F2[i] <= j \/ j + U2[j] <= i
    BY DEF Disjoint
  <2>1. i \in DOMAIN F /\ i \in Nat /\ F[i] \in Nat /\ (i # k => F2[i] = F[i]) /\ (i = k => F2[i] = rest)
    BY <1>2, <1>7
  <2>2. CASE j = off
    <3>1. i < k => i + F[i] < k
      BY <1>3, <1>8, <2>1 DEF Merged
    <3>2. k < i => k + F[k] < i
      BY <1>3, <1>8, <2>1 DEF Merged
    <3> QED
      BY <1>5, <1>6, <1>a, <2>1, <2>2, <3>1, <3>2
  <2>3. CASE j # off
    <3>1. j \in DOMAIN U /\ j \in Nat /\ U2[j] = U[j] /\ U[j] \in Nat
      BY <1>2, <1>6, <2>3
    <3>2. i + F[i] <= j \/ j + U[j] <= i
      BY <1>8, <2>1, <3>1 DEF Disjoint
    <3> QED
      BY <1>5, <1>a, <2>1, <3>1, <3>2
  <2> QED
    BY <2>2, <2>3
<1>14. ASSUME NEW byte \in Nat, byte < r.size PROVE Within(F2, byte) \/ Within(U2, byte)
  <2>1. CASE Within(U, byte)
    BY <1>6, <1>9, <2>1 DEF Within
  <2>2. CASE Within(F, byte)
    <3>1. PICK i \in DOMAIN F : i <= byte /\ byte < i + F[i]
      BY <2>2 DEF Within
    <3>2. CASE i # k
      BY <1>7, <3>1, <3>2 DEF Within
    <3>3. CASE i = k /\ byte < off
      BY <1>2, <1>5, <1>7, <1>a, <3>1, <3>3 DEF Within
    <3>4. CASE i = k /\ byte >= off
      BY <1>5, <1>6, <3>1, <3>4 DEF Within
    <3> QED
      BY <1>5, <3>2, <3>3, <3>4
  <2> QED
    BY <1>8, <1>14, <2>1, <2>2
<1>15. /\ ArenaAlloc(r, size) \in ArenaType /\ ArenaAlloc(r, size).size = r.size
       /\ ArenaAlloc(r, size).chunks_free = F2 /\ ArenaAlloc(r, size).chunks_used = U2
  BY <1>1, <1>4, <1>6, <1>7 DEF ArenaType
<1>16. Sound(ArenaAlloc(r, size))
  BY <1>10, <1>11, <1>12, <1>13, <1>14, <1>15 DEF Sound
<1> QED
  BY <1>5, <1>9, <1>15, <1>16 DEF U2, U

\* G is F with a free chunk at p, which takes in the one that begins where it ends.
MergedWithNext(G, F, p, s) ==
  /\ G \in Chunks /\ DOMAIN G = (DOMAIN F \ {p + s}) \cup {p}
  /\ G[p] = IF p + s \in DOMAIN F THEN s + F[p + s] ELSE s
  /\ \A j \in DOMAIN F : j # p /\ j # p + s => G[j] = F[j]

LEMMA MergeNextIs ==
  ASSUME NEW F \in Chunks, NEW p \in Nat, NEW s \in Nat
  PROVE  MergedWithNext(MergeNext(F, p, s), F, p, s)
<1> DEFINE q == p + s
           E == Erase(F, q)
<1>1. E \in Chunks /\ DOMAIN E = DOMAIN F \ {q} /\ \A k \in DOMAIN F : k # q => E[k] = F[k]
  <2>1. Erase(F, q) \in Chunks /\ DOMAIN Erase(F, q) = DOMAIN F \ {q}
    BY EraseChunk
  <2>2. \A k \in DOMAIN F : k # q => Erase(F, q)[k] = F[k]
    BY EraseChunk
  <2> QED
    BY <2>1, <2>2
<1>2. CASE q \in DOMAIN F
  <2>1. MergeNext(F, p, s) = Put(E, p, s + F[q])
    BY <1>2 DEF MergeNext
  <2>2. s + F[q] \in Nat
    BY <1>2, ChunksAre
  <2> DEFINE t == s + F[q]
  <2> HIDE DEF E
  <2>3. With(Put(E, p, t), E, p, t)
    BY <1>1, <2>2, PutChunk
  <2> QED
    BY <1>1, <1>2, <2>1, <2>3 DEF With, MergedWithNext
<1>3. CASE q \notin DOMAIN F
  <2>1. MergeNext(F, p, s) = Put(F, p, s)
    BY <1>3 DEF MergeNext
  <2>2. With(Put(F, p, s), F, p, s)
    BY PutChunk
  <2> QED
    BY <1>3, <2>1, <2>2 DEF With, MergedWithNext
<1> QED
  BY <1>2, <1>3

\* Arena::free makes one free chunk of the freed one and its free neighbours.
LEMMA FreeSound ==
  ASSUME NEW r \in ArenaType, Sound(r), NEW off \in DOMAIN r.chunks_used
  PROVE  /\ ArenaFree(r, off) \in ArenaType /\ Sound(ArenaFree(r, off))
         /\ ArenaFree(r, off).size = r.size
         /\ ArenaFree(r, off).chunks_used = Erase(r.chunks_used, off)
<1> DEFINE F == r.chunks_free
           U == r.chunks_used
           size == U[off]
           q == off + size
           prev == Min(EndingAt(F, off))
           p == IF EndingAt(F, off) = {} THEN off ELSE prev
           s == IF EndingAt(F, off) = {} THEN size ELSE F[prev] + size
           e == IF q \in DOMAIN F THEN q + F[q] ELSE q
           F2 == MergeNext(F, p, s)
           U2 == Erase(U, off)
<1>1. F \in Chunks /\ U \in Chunks /\ r.size \in Nat
  BY DEF ArenaType
<1>2. /\ DOMAIN F \subseteq Nat /\ \A i \in DOMAIN F : F[i] \in Nat
      /\ DOMAIN U \subseteq Nat /\ \A i \in DOMAIN U : U[i] \in Nat
  BY <1>1, ChunksAre
<1>3. ArenaFree(r, off) = [size |-> r.size, chunks_free |-> F2, chunks_used |-> U2]
  <2>1. F2 = IF EndingAt(F, off) = {} THEN MergeNext(F, off, size)
                                     ELSE MergeNext(F, prev, F[prev] + size)
    OBVIOUS
  <2>2. ArenaFree(r, off) = [r EXCEPT !.chunks_used = U2, !.chunks_free = F2]
    BY <2>1 DEF ArenaFree
  <2> HIDE DEF F2, U2
  <2> QED
    BY <2>2, ArenaUpdate
<1>4. EndingAt(F, off) # {} => prev \in DOMAIN F /\ prev + F[prev] = off
  <2> SUFFICES ASSUME EndingAt(F, off) # {} PROVE prev \in EndingAt(F, off)
    BY DEF EndingAt
  <2>1. EndingAt(F, off) \subseteq Nat
    BY <1>2 DEF EndingAt
  <2> QED
    BY <2>1, LeastOf
<1>5. /\ Fit(F, r.size) /\ Fit(U, r.size) /\ Merged(F) /\ InOrder(U) /\ Disjoint(F, U)
      /\ \A byte \in Nat : byte < r.size => Within(F, byte) \/ Within(U, byte)
  BY DEF Sound
<1> HIDE DEF F, U, prev
<1>6. off \in DOMAIN U /\ off \in Nat /\ size \in Nat /\ size >= 1 /\ q \in Nat /\ off < q /\ q <= r.size
  BY <1>2, <1>5 DEF Fit, U
<1>7. \/ p = off /\ \A k \in DOMAIN F : k + F[k] # off
      \/ p \in DOMAIN F /\ p + F[p] = off
  BY <1>4 DEF EndingAt
<1>8. p \in Nat /\ p <= off /\ s \in Nat /\ p + s = q
  <2>1. CASE EndingAt(F, off) = {}
    BY <1>6, <2>1
  <2>2. CASE EndingAt(F, off) # {}
    BY <1>2, <1>4, <1>6, <2>2
  <2> QED
    BY <2>1, <2>2
<1> HIDE DEF p, s
<1>9. /\ e \in Nat /\ q <= e /\ e <= r.size
      /\ q \in DOMAIN F => e = q + F[q]
      /\ q \notin DOMAIN F => e = q
  BY <1>1, <1>2, <1>5, <1>6 DEF Fit
<1>10. /\ F2 \in Chunks /\ DOMAIN F2 = (DOMAIN F \ {q}) \cup {p}
       /\ F2[p] \in Nat /\ p + F2[p] = e
       /\ \A j \in DOMAIN F : j # p /\ j # q => F2[j] = F[j]
  <2>1. MergedWithNext(F2, F, p, s)
    BY <1>1, <1>8, MergeNextIs
  <2>4. p + s = q
    BY <1>8
  <2> HIDE DEF q, F2
  <2>5. F2[p] = IF q \in DOMAIN F THEN s + F[q] ELSE s
    BY <2>1, <2>4 DEF MergedWithNext
  <2>6. F2[p] \in Nat /\ p + F2[p] = e
    BY <1>2, <1>8, <2>4, <2>5
  <2> QED
    BY <2>1, <2>4, <2>6 DEF MergedWithNext
<1>11. U2 \in Chunks /\ DOMAIN U2 = DOMAIN U \ {off} /\ \A j \in DOMAIN U : j # off => U2[j] = U[j]
  <2>1. Erase(U, off) \in Chunks /\ DOMAIN Erase(U, off) = DOMAIN U \ {off}
    BY <1>1, EraseChunk
  <2>2. \A j \in DOMAIN U : j # off => Erase(U, off)[j] = U[j]
    BY <1>1, EraseChunk
  <2> QED
    BY <2>1, <2>2
<1> HIDE DEF F2, U2, q, e, size
<1>12. \A i \in DOMAIN F2 : i \in Nat /\ F2[i] \in Nat /\ (i # p => i \in DOMAIN F /\ i # q /\ F2[i] = F[i])
  BY <1>2, <1>8, <1>10
<1>13. Fit(F2, r.size)
  BY <1>1, <1>5, <1>6, <1>8, <1>9, <1>10, <1>12 DEF Fit
<1>14. Fit(U2, r.size)
  BY <1>5, <1>11 DEF Fit
<1>15. q = off + U[off]
  BY DEF q, size
<1>16. \A j \in DOMAIN F : j + F[j] <= off \/ q <= j
  BY <1>5, <1>6, <1>15 DEF Disjoint
<1>17. Merged(F2)
  <2> SUFFICES ASSUME NEW i \in DOMAIN F2, NEW j \in DOMAIN F2, i < j
               PROVE  i + F2[i] < j
    BY DEF Merged
  <2>1. CASE i # p /\ j # p
    BY <1>5, <1>12, <2>1 DEF Merged
  <2>2. CASE i = p
    <3>1. j \in DOMAIN F /\ j # q /\ j \in Nat /\ F[j] \in Nat /\ F[j] >= 1
      BY <1>2, <1>5, <1>8, <1>12, <2>2 DEF Fit
    <3>2. off <= j
      <4>1. CASE p = off
        BY <1>6, <1>8, <2>2, <3>1, <4>1
      <4>2. CASE p \in DOMAIN F /\ p + F[p] = off
        BY <1>5, <1>6, <2>2, <3>1, <4>2 DEF Merged
      <4> QED
        BY <1>7, <4>1, <4>2
    <3>3. q < j
      BY <1>6, <1>16, <3>1, <3>2
    <3>4. q \in DOMAIN F => q + F[q] < j
      BY <1>5, <3>1, <3>3 DEF Merged
    <3> QED
      BY <1>9, <1>10, <2>2, <3>3, <3>4
  <2>3. CASE j = p /\ i # p
    <3>1. i \in DOMAIN F /\ i \in Nat /\ F[i] \in Nat /\ F2[i] = F[i]
      BY <1>2, <1>12, <2>3
    <3>2. CASE p = off /\ \A k \in DOMAIN F : k + F[k] # off
      BY <1>6, <1>16, <2>3, <3>1, <3>2
    <3>3. CASE p \in DOMAIN F
      BY <1>5, <2>3, <3>1, <3>3 DEF Merged
    <3> QED
      BY <1>7, <3>2, <3>3
  <2> QED
    BY <2>1, <2>2, <2>3
<1>18. InOrder(U2)
  BY <1>5, <1>11 DEF InOrder
<1>19. Disjoint(F2, U2)
  <2> SUFFICES ASSUME NEW i \in DOMAIN F2, NEW j \in DOMAIN U2
               PROVE  i + F2[i] <= j \/ j + U2[j] <= i
    BY DEF Disjoint
  <2>1. j \in DOMAIN U /\ j # off /\ U2[j] = U[j] /\ j \in Nat /\ U[j] \in Nat /\ U[j] >= 1
    BY <1>2, <1>5, <1>11 DEF Fit
  <2>2. CASE i # p
    BY <1>5, <1>12, <2>1, <2>2 DEF Disjoint
  <2>3. CASE i = p /\ j < off
    <3>1. j + U[j] <= off
      BY <1>5, <1>6, <2>1, <2>3 DEF InOrder
    <3>2. p \in DOMAIN F => p + F[p] <= j \/ j + U[j] <= p
      BY <1>5, <2>1 DEF Disjoint
    <3> QED
      BY <1>6, <1>7, <2>1, <2>3, <3>1, <3>2
  <2>4. CASE i = p /\ j > off
    <3>1. q <= j
      BY <1>5, <1>6, <1>15, <2>1, <2>4 DEF InOrder
    <3>2. q \in DOMAIN F => q + F[q] <= j
      BY <1>2, <1>5, <1>6, <2>1, <3>1 DEF Disjoint
    <3> QED
      BY <1>9, <1>10, <2>4, <3>1, <3>2
  <2> QED
    BY <1>6, <2>1, <2>2, <2>3, <2>4
<1>20. ASSUME NEW byte \in Nat, byte < r.size PROVE Within(F2, byte) \/ Within(U2, byte)
  <2>0. p <= byte /\ byte < e => Within(F2, byte)
    BY <1>10 DEF Within
  <2>1. CASE Within(F, byte)
    <3>1. PICK k \in DOMAIN F : k <= byte /\ byte < k + F[k]
      BY <2>1 DEF Within
    <3>2. CASE k # p /\ k # q
      BY <1>10, <3>1, <3>2 DEF Within
    <3>3. CASE k = q
      BY <1>6, <1>8, <1>9, <2>0, <3>1, <3>3
    <3>4. CASE k = p
      <4>1. p + F[p] <= q
        BY <1>2, <1>5, <1>6, <1>7, <1>8, <1>16, <3>1, <3>4 DEF Fit
      <4> QED
        BY <1>2, <1>6, <1>8, <1>9, <2>0, <3>1, <3>4, <4>1
    <3> QED
      BY <3>2, <3>3, <3>4
  <2>2. CASE Within(U, byte)
    <3>1. PICK k \in DOMAIN U : k <= byte /\ byte < k + U[k]
      BY <2>2 DEF Within
    <3>2. CASE k # off
      BY <1>11, <3>1, <3>2 DEF Within
    <3>3. CASE k = off
      BY <1>6, <1>8, <1>9, <1>15, <2>0, <3>1, <3>3
    <3> QED
      BY <3>2, <3>3
  <2> QED
    BY <1>5, <1>20, <2>1, <2>2
<1>21. /\ ArenaFree(r, off) \in ArenaType /\ ArenaFree(r, off).size = r.size
       /\ ArenaFree(r, off).chunks_free = F2 /\ ArenaFree(r, off).chunks_used = U2
  BY <1>1, <1>3, <1>10, <1>11 DEF ArenaType
<1>22. Sound(ArenaFree(r, off))
  BY <1>13, <1>14, <1>17, <1>18, <1>19, <1>20, <1>21 DEF Sound
<1> QED
  BY <1>21, <1>22 DEF U2, U

-------------------------------------------------------------------------------
(* The invariant.                                                          *)

LEMMA ServingLeast ==
  ASSUME PoolInv, NEW size, Serving(size) # {}
  PROVE  /\ Min(Serving(size)) \in 1..Len(arenas)
         /\ LargeEnough(arenas[Min(Serving(size))], AlignUp(size)) # {}
<1>1. DOMAIN arenas = 1..Len(arenas)
  BY DEF PoolInv
<1>2. Serving(size) \subseteq Nat
  BY <1>1 DEF Serving
<1>3. Min(Serving(size)) \in Serving(size)
  BY <1>2, LeastOf
<1> QED
  BY <1>1, <1>3 DEF Serving

LEMMA ArenaSizeFits == ArenaSize \in 1..ARENA_SIZE
BY PoolAssumption DEF ArenaSize

\* An arena that is new, with the request in it where it fits.
LEMMA NewArenaServes ==
  ASSUME NEW n \in Nat \ {0}, NEW size \in Nat \ {0}, size <= n
  PROVE  /\ ArenaAlloc(NewArena(n), size) \in ArenaType /\ Sound(ArenaAlloc(NewArena(n), size))
         /\ ArenaAlloc(NewArena(n), size).size = n
         /\ \E off \in Nat :
              ArenaAlloc(NewArena(n), size).chunks_used = Put(NewArena(n).chunks_used, off, size)
<1> DEFINE r == NewArena(n)
<1>1. r \in ArenaType /\ Sound(r) /\ r.size = n /\ DOMAIN r.chunks_free = {0} /\ r.chunks_free[0] = n
  BY NewArenaSound
<1> HIDE DEF r
<1>2. 0 \in LargeEnough(r, size)
  BY <1>1 DEF LargeEnough
<1>3. LargeEnough(r, size) # {}
  BY <1>2
<1>4. /\ ArenaAlloc(r, size) \in ArenaType /\ Sound(ArenaAlloc(r, size))
      /\ ArenaAlloc(r, size).size = r.size
      /\ \E off \in Nat : ArenaAlloc(r, size).chunks_used = Put(r.chunks_used, off, size)
  BY <1>1, <1>3, AllocSound
<1> QED
  BY <1>1, <1>4 DEF r

SizesFit == \A a \in 1..Len(arenas) : arenas[a].size \in 1..ARENA_SIZE

IPoolInv == PoolInv /\ SizesFit /\ refused \subseteq 1..Len(arenas)

LEMMA PoolInitInv == PoolInit => IPoolInv
BY DEF PoolInit, IPoolInv, PoolInv, SizesFit

LEMMA ReplaceArena ==
  ASSUME IPoolInv, NEW a \in 1..Len(arenas), NEW r \in ArenaType, Sound(r), r.size = arenas[a].size,
         arenas' = [arenas EXCEPT ![a] = r], UNCHANGED <<refused, cumulative_bytes_locked>>
  PROVE  IPoolInv'
<1>1. arenas \in Seq(ArenaType) /\ DOMAIN arenas = 1..Len(arenas)
  BY DEF IPoolInv, PoolInv
<1>2. arenas' \in Seq(ArenaType) /\ Len(arenas') = Len(arenas) /\ arenas'[a] = r
  BY <1>1
<1>3. \A k \in 1..Len(arenas) : k # a => arenas'[k] = arenas[k]
  BY <1>1
<1> QED
  BY <1>2, <1>3 DEF IPoolInv, PoolInv, SizesFit

LEMMA AppendArena ==
  ASSUME IPoolInv, NEW r \in ArenaType, Sound(r), r.size \in 1..ARENA_SIZE,
         arenas' = Append(arenas, r), cumulative_bytes_locked' \in Nat,
         refused' \subseteq refused \cup {Len(arenas) + 1}
  PROVE  IPoolInv'
<1>1. arenas \in Seq(ArenaType)
  BY DEF IPoolInv, PoolInv
<1>2. /\ arenas' \in Seq(ArenaType) /\ Len(arenas') = Len(arenas) + 1 /\ Len(arenas) \in Nat
      /\ arenas'[Len(arenas) + 1] = r /\ \A k \in 1..Len(arenas) : arenas'[k] = arenas[k]
  BY <1>1
<1> QED
  BY <1>2 DEF IPoolInv, PoolInv, SizesFit

LEMMA AllocFromArenaInv ==
  ASSUME IPoolInv, NEW size, AllocFromArena(size)
  PROVE  IPoolInv'
<1> DEFINE a == Min(Serving(size))
           s == AlignUp(size)
           r == arenas[a]
<1>1. size \in Nat \ {0} /\ Serving(size) # {}
  BY PoolAssumption DEF AllocFromArena
<1>2. s \in Nat \ {0}
  BY <1>1, AlignUpPositive
<1>3. a \in 1..Len(arenas) /\ LargeEnough(r, s) # {}
  BY <1>1, ServingLeast DEF IPoolInv
<1>4. r \in ArenaType /\ Sound(r)
  BY <1>3 DEF IPoolInv, PoolInv
<1>5. arenas' = [arenas EXCEPT ![a] = ArenaAlloc(r, s)] /\ UNCHANGED <<refused, cumulative_bytes_locked>>
  BY DEF AllocFromArena
<1> HIDE DEF a, s
<1>6. /\ ArenaAlloc(r, s) \in ArenaType /\ Sound(ArenaAlloc(r, s))
      /\ ArenaAlloc(r, s).size = r.size
  BY <1>2, <1>3, <1>4, AllocSound
<1> QED
  BY <1>3, <1>5, <1>6, ReplaceArena

LEMMA AllocFromNewInv ==
  ASSUME IPoolInv, NEW size, AllocFromNew(size)
  PROVE  IPoolInv'
<1> DEFINE n == ArenaSize
           s == AlignUp(size)
           r == IF s <= n THEN ArenaAlloc(NewArena(n), s) ELSE NewArena(n)
<1>1. n \in Nat \ {0} /\ n \in 1..ARENA_SIZE
  BY ArenaSizeFits, PoolAssumption
<1>2. size \in Nat \ {0}
  BY PoolAssumption DEF AllocFromNew
<1>3. s \in Nat \ {0}
  BY <1>2, AlignUpPositive
<1>4. arenas' = Append(arenas, r)
  BY DEF AllocFromNew
<1>5. cumulative_bytes_locked' \in Nat /\ refused' \subseteq refused \cup {Len(arenas) + 1}
  BY <1>1 DEF AllocFromNew, IPoolInv, PoolInv
<1> HIDE DEF n, s
<1>6. r \in ArenaType /\ Sound(r) /\ r.size = n
  BY <1>1, <1>3, NewArenaServes, NewArenaSound
<1> HIDE DEF r
<1> QED
  BY <1>1, <1>4, <1>5, <1>6, AppendArena

LEMMA FreeInv ==
  ASSUME IPoolInv, NEW a \in DOMAIN arenas, NEW off \in DOMAIN arenas[a].chunks_used, Free(a, off)
  PROVE  IPoolInv'
<1>1. a \in 1..Len(arenas) /\ arenas[a] \in ArenaType /\ Sound(arenas[a])
  BY DEF IPoolInv, PoolInv
<1>2. /\ ArenaFree(arenas[a], off) \in ArenaType /\ Sound(ArenaFree(arenas[a], off))
      /\ ArenaFree(arenas[a], off).size = arenas[a].size
  BY <1>1, FreeSound
<1>3. CASE a \in refused
  <2>1. UNCHANGED <<arenas, refused, cumulative_bytes_locked>>
    BY <1>3 DEF Free
  <2> QED
    BY <2>1 DEF IPoolInv, PoolInv, SizesFit
<1>4. CASE a \notin refused
  <2>1. /\ arenas' = [arenas EXCEPT ![a] = ArenaFree(arenas[a], off)]
        /\ UNCHANGED <<refused, cumulative_bytes_locked>>
    BY <1>4 DEF Free
  <2> QED
    BY <1>1, <1>2, <2>1, ReplaceArena
<1> QED
  BY <1>3, <1>4

LEMMA PoolInvHolds == PoolSpec => []IPoolInv
<1>1. ASSUME IPoolInv, [PoolNext]_poolVars PROVE IPoolInv'
  <2>1. CASE PoolNext
    BY <1>1, <2>1, AllocFromArenaInv, AllocFromNewInv, FreeInv DEF PoolNext
  <2>2. CASE UNCHANGED poolVars
    BY <1>1, <2>2 DEF poolVars, IPoolInv, PoolInv, SizesFit
  <2> QED
    BY <1>1, <2>1, <2>2
<1> QED
  BY <1>1, PoolInitInv, PTL DEF PoolSpec

\* In an arena whose chunks tile it, with no two free ones side by side, a run of
\* free bytes lies in one free chunk.
LEMMA RunInOneChunk ==
  ASSUME NEW r \in ArenaType, Sound(r), NEW size \in Nat \ {0}, NEW off \in Nat, off + size <= r.size,
         \A byte \in off..off + size - 1 : Covering(r.chunks_used, byte) = {}
  PROVE  LargeEnough(r, size) # {}
<1> DEFINE F == r.chunks_free
<1>1. F \in Chunks /\ r.chunks_used \in Chunks /\ r.size \in Nat
  BY DEF ArenaType
<1>2. /\ DOMAIN F \subseteq Nat /\ \A i \in DOMAIN F : F[i] \in Nat
      /\ DOMAIN r.chunks_used \subseteq Nat /\ \A i \in DOMAIN r.chunks_used : r.chunks_used[i] \in Nat
  BY <1>1, ChunksAre
<1>3. ASSUME NEW byte \in Nat, off <= byte, byte < off + size PROVE Within(F, byte)
  <2>1. Covering(r.chunks_used, byte) = {} /\ byte < r.size
    BY <1>1, <1>3
  <2>2. ~Within(r.chunks_used, byte)
    BY <1>2, <2>1 DEF Covering, Bytes, Within
  <2> QED
    BY <2>1, <2>2 DEF Sound
<1>4. PICK k \in DOMAIN F : k <= off /\ off < k + F[k]
  BY <1>3 DEF Within
<1>5. k \in Nat /\ F[k] \in Nat /\ Merged(F)
  BY <1>2 DEF Sound
<1>6. off + size <= k + F[k]
  <2> SUFFICES ASSUME k + F[k] < off + size PROVE FALSE
    BY <1>5
  <2>1. PICK j \in DOMAIN F : j <= k + F[k] /\ k + F[k] < j + F[j]
    BY <1>3, <1>4, <1>5 DEF Within
  <2>2. j \in Nat /\ F[j] \in Nat
    BY <1>2
  <2>3. j < k => j + F[j] < k
    BY <1>5 DEF Merged
  <2>4. k < j => k + F[k] < j
    BY <1>5 DEF Merged
  <2> QED
    BY <1>5, <2>1, <2>2, <2>3, <2>4
<1>7. F[k] >= size
  BY <1>4, <1>5, <1>6
<1> QED
  BY <1>7 DEF LargeEnough

\* No request is refused by an arena that has room for it in a row, whatever was
\* taken from it and freed before, and in whatever order (lockedpool.cpp:43-113).
THEOREM RoomIsAlwaysFound == PoolSpec => []RoomIsFound
<1>1. IPoolInv => RoomIsFound
  <2> SUFFICES ASSUME IPoolInv, NEW a \in DOMAIN arenas, NEW size \in 1..arenas[a].size,
                      NEW off \in 0..arenas[a].size - size,
                      \A byte \in off..off + size - 1 : Covering(arenas[a].chunks_used, byte) = {}
               PROVE  LargeEnough(arenas[a], size) # {}
    BY DEF RoomIsFound
  <2>1. arenas[a] \in ArenaType /\ Sound(arenas[a])
    BY DEF IPoolInv, PoolInv
  <2>2. arenas[a].size \in Nat
    BY <2>1 DEF ArenaType
  <2>3. size \in Nat \ {0} /\ off \in Nat /\ off + size <= arenas[a].size
    BY <2>2
  <2> QED
    BY <2>1, <2>3, RunInOneChunk
<1> QED
  BY <1>1, PoolInvHolds, PTL

\* A byte that two chunks cover is in one of them only.
LEMMA CoveredOnce ==
  ASSUME NEW c \in Chunks, NEW d \in Chunks, InOrder(c), Disjoint(c, d), NEW byte \in Nat, Within(c, byte)
  PROVE  Cardinality(Covering(c, byte)) = 1 /\ Cardinality(Covering(d, byte)) = 0
<1>1. /\ DOMAIN c \subseteq Nat /\ \A i \in DOMAIN c : c[i] \in Nat
      /\ DOMAIN d \subseteq Nat /\ \A i \in DOMAIN d : d[i] \in Nat
  BY ChunksAre
<1>2. /\ \A i \in DOMAIN c : i \in Covering(c, byte) <=> i <= byte /\ byte < i + c[i]
      /\ \A i \in DOMAIN d : i \in Covering(d, byte) <=> i <= byte /\ byte < i + d[i]
      /\ Covering(c, byte) \subseteq DOMAIN c /\ Covering(d, byte) \subseteq DOMAIN d
  BY <1>1 DEF Covering, Bytes
<1>3. PICK k \in DOMAIN c : k <= byte /\ byte < k + c[k]
  BY DEF Within
<1>4. \A i \in Covering(c, byte) : i = k
  BY <1>1, <1>2, <1>3 DEF InOrder
<1>5. Covering(c, byte) = {k}
  BY <1>2, <1>3, <1>4
<1>6. Covering(d, byte) = {}
  BY <1>1, <1>2, <1>3 DEF Disjoint
<1> QED
  BY <1>5, <1>6, FS_Singleton, FS_EmptySet

\* The chunks of an arena lie in it, and each of its bytes belongs to exactly one
\* of them, in whatever order chunks were taken, split, freed and merged.
THEOREM ChunksTile == PoolSpec => [](PoolTypeOK /\ Tiled)
<1>1. IPoolInv => PoolTypeOK /\ Tiled
  <2> SUFFICES ASSUME IPoolInv PROVE PoolTypeOK /\ Tiled
    OBVIOUS
  <2>1. ASSUME NEW a \in DOMAIN arenas
        PROVE  /\ arenas[a].size \in 1..ARENA_SIZE
               /\ arenas[a].chunks_free \in Chunks /\ arenas[a].chunks_used \in Chunks
               /\ arenas[a].size \in Nat /\ Sound(arenas[a])
    <3>1. arenas[a] \in ArenaType /\ Sound(arenas[a]) /\ arenas[a].size \in 1..ARENA_SIZE
      BY <2>1 DEF IPoolInv, PoolInv, SizesFit
    <3> QED
      BY <3>1 DEF ArenaType
  <2>2. ASSUME NEW c \in Chunks, NEW n \in Nat, Fit(c, n) PROVE ChunksIn(c, n)
    BY <2>2, ChunksAre DEF ChunksIn, Fit
  <2>3. PoolTypeOK
    BY <2>1, <2>2 DEF PoolTypeOK, Sound, IPoolInv, PoolInv
  <2>4. ASSUME NEW a \in DOMAIN arenas, NEW byte \in 0..arenas[a].size - 1
        PROVE  Cardinality(Covering(arenas[a].chunks_free, byte)) +
                 Cardinality(Covering(arenas[a].chunks_used, byte)) = 1
    <3> DEFINE F == arenas[a].chunks_free
               U == arenas[a].chunks_used
    <3>1. F \in Chunks /\ U \in Chunks /\ Sound(arenas[a]) /\ byte \in Nat /\ byte < arenas[a].size
      BY <2>1
    <3>2. /\ Merged(F) /\ InOrder(U) /\ Disjoint(F, U) /\ (Within(F, byte) \/ Within(U, byte))
      BY <3>1 DEF Sound
    <3> HIDE DEF F, U
    <3>3. InOrder(F) /\ Disjoint(U, F)
      BY <3>1, <3>2, ChunksAre DEF Merged, InOrder, Disjoint
    <3>4. CASE Within(F, byte)
      BY <3>1, <3>2, <3>3, <3>4, CoveredOnce DEF F, U
    <3>5. CASE Within(U, byte)
      BY <3>1, <3>2, <3>3, <3>5, CoveredOnce DEF F, U
    <3> QED
      BY <3>2, <3>4, <3>5
  <2> QED
    BY <2>3, <2>4 DEF Tiled
<1> QED
  BY <1>1, PoolInvHolds, PTL

-------------------------------------------------------------------------------
(* The pool implements MemoryBlocks.                                       *)

BlockOf(A, a, off) == [arena |-> a, at |-> off, size |-> A[a].chunks_used[off]]
BlocksOf(A) == UNION {{BlockOf(A, a, off) : off \in DOMAIN A[a].chunks_used} : a \in DOMAIN A}

LEMMA BlocksAre ==
  ASSUME NEW A, NEW b
  PROVE  b \in BlocksOf(A) <=>
           \E a \in DOMAIN A : \E off \in DOMAIN A[a].chunks_used : b = BlockOf(A, a, off)
BY DEF BlocksOf

\* What GiveOut says of the blocks before and after it.
GivesOneOf(X, Y) ==
  \E b \in Y : /\ Y = X \cup {b} /\ b \notin X /\ b.size > 0
               /\ \A c \in X : Blocks!Apart(b, c)

\* The arenas differ in one used chunk, which overlaps no other.
Gains(A, B, a, off, s) ==
  /\ DOMAIN B = DOMAIN A /\ \A k \in DOMAIN A : k # a => B[k] = A[k]
  /\ B[a].chunks_used = Put(A[a].chunks_used, off, s)
  /\ off \notin DOMAIN A[a].chunks_used
  /\ \A j \in DOMAIN A[a].chunks_used : off + s <= j \/ j + A[a].chunks_used[j] <= off

\* One arena gets another used chunk.
LEMMA OneMore ==
  ASSUME NEW A \in Seq(ArenaType), NEW B, NEW a \in 1..Len(A), NEW off \in Nat, NEW s \in Nat \ {0},
         Gains(A, B, a, off, s)
  PROVE  GivesOneOf(BlocksOf(A), BlocksOf(B))
<1> DEFINE U == A[a].chunks_used
           b == [arena |-> a, at |-> off, size |-> s]
<1>g. /\ DOMAIN B = DOMAIN A /\ \A k \in DOMAIN A : k # a => B[k] = A[k]
      /\ B[a].chunks_used = Put(A[a].chunks_used, off, s) /\ off \notin DOMAIN U
      /\ \A j \in DOMAIN U : off + s <= j \/ j + U[j] <= off
  BY DEF Gains
<1>0. A[a] \in ArenaType /\ a \in DOMAIN A
  OBVIOUS
<1>1. U \in Chunks /\ a \in DOMAIN A
  BY <1>0 DEF ArenaType
<1>2. With(Put(U, off, s), U, off, s)
  BY <1>1, PutChunk
<1> DEFINE V == B[a].chunks_used
<1>5. DOMAIN V = DOMAIN U \cup {off} /\ V[off] = s /\ \A j \in DOMAIN U : V[j] = U[j]
  BY <1>2, <1>g DEF With
<1>6. b = BlockOf(B, a, off)
  BY <1>5 DEF BlockOf
<1>7. \A k \in DOMAIN A : \A j \in DOMAIN A[k].chunks_used :
        j \in DOMAIN B[k].chunks_used /\ BlockOf(B, k, j) = BlockOf(A, k, j)
  BY <1>5, <1>g DEF BlockOf
<1>8. \A k \in DOMAIN B : \A j \in DOMAIN B[k].chunks_used :
        (k = a /\ j = off) \/ j \in DOMAIN A[k].chunks_used
  BY <1>5, <1>g
<1>9. \A c : c \in BlocksOf(B) <=> c \in BlocksOf(A) \cup {b}
  <2> TAKE c
  <2>1. ASSUME c \in BlocksOf(B) PROVE c \in BlocksOf(A) \cup {b}
    <3>1. PICK k \in DOMAIN B : \E j \in DOMAIN B[k].chunks_used : c = BlockOf(B, k, j)
      BY <2>1, BlocksAre
    <3>2. PICK j \in DOMAIN B[k].chunks_used : c = BlockOf(B, k, j)
      BY <3>1
    <3>3. CASE k = a /\ j = off
      BY <1>6, <3>2, <3>3
    <3>4. CASE j \in DOMAIN A[k].chunks_used
      <4>1. k \in DOMAIN A /\ c = BlockOf(A, k, j)
        BY <1>7, <1>g, <3>2, <3>4
      <4> QED
        BY <3>4, <4>1, BlocksAre
    <3> QED
      BY <1>8, <3>3, <3>4
  <2>2. ASSUME c \in BlocksOf(A) PROVE c \in BlocksOf(B)
    <3>1. PICK k \in DOMAIN A : \E j \in DOMAIN A[k].chunks_used : c = BlockOf(A, k, j)
      BY <2>2, BlocksAre
    <3>2. PICK j \in DOMAIN A[k].chunks_used : c = BlockOf(A, k, j)
      BY <3>1
    <3>3. k \in DOMAIN B /\ j \in DOMAIN B[k].chunks_used /\ c = BlockOf(B, k, j)
      BY <1>7, <1>g, <3>2
    <3> QED
      BY <3>3, BlocksAre
  <2>3. ASSUME c = b PROVE c \in BlocksOf(B)
    <3>1. a \in DOMAIN B /\ off \in DOMAIN B[a].chunks_used
      BY <1>0, <1>5, <1>g
    <3> QED
      BY <1>6, <2>3, <3>1, BlocksAre
  <2> QED
    BY <2>1, <2>2, <2>3
<1>10. ASSUME NEW c \in BlocksOf(A) PROVE c # b /\ Blocks!Apart(b, c)
  <2>1. PICK k \in DOMAIN A : \E j \in DOMAIN A[k].chunks_used : c = BlockOf(A, k, j)
    BY <1>10, BlocksAre
  <2>2. PICK j \in DOMAIN A[k].chunks_used : c = BlockOf(A, k, j)
    BY <2>1
  <2>3. c.arena = k /\ c.at = j /\ c.size = A[k].chunks_used[j]
    BY <2>2 DEF BlockOf
  <2>4. b.arena = a /\ b.at = off /\ b.size = s
    OBVIOUS
  <2> HIDE DEF b
  <2>5. k = a => off # j /\ (off + s <= j \/ j + A[k].chunks_used[j] <= off)
    BY <1>g, <2>2
  <2>6. c # b
    BY <2>3, <2>4, <2>5
  <2>7. Blocks!Apart(b, c)
    BY <2>3, <2>4, <2>5 DEF Blocks!Apart
  <2> QED
    BY <2>6, <2>7
<1>11. b.size > 0
  OBVIOUS
<1> HIDE DEF b
<1> QED
  BY <1>9, <1>10, <1>11 DEF GivesOneOf

\* One arena loses a used chunk.
LEMMA OneLess ==
  ASSUME NEW A \in Seq(ArenaType), NEW B, NEW a \in 1..Len(A), NEW off \in DOMAIN A[a].chunks_used,
         DOMAIN B = DOMAIN A, \A k \in DOMAIN A : k # a => B[k] = A[k],
         B[a].chunks_used = Erase(A[a].chunks_used, off)
  PROVE  \E b \in BlocksOf(A) : BlocksOf(B) = BlocksOf(A) \ {b}
<1> DEFINE U == A[a].chunks_used
           V == B[a].chunks_used
           b == BlockOf(A, a, off)
<1>0. A[a] \in ArenaType /\ a \in DOMAIN A
  OBVIOUS
<1>1. U \in Chunks /\ a \in DOMAIN A
  BY <1>0 DEF ArenaType
<1>2. DOMAIN Erase(U, off) = DOMAIN U \ {off}
  BY <1>1, EraseChunk
<1>3. \A j \in DOMAIN U : j # off => Erase(U, off)[j] = U[j]
  BY <1>1, EraseChunk
<1>4. DOMAIN V = DOMAIN U \ {off} /\ \A j \in DOMAIN U : j # off => V[j] = U[j]
  BY <1>2, <1>3
<1>5. \A k \in DOMAIN A : \A j : j \in DOMAIN B[k].chunks_used <=>
        j \in DOMAIN A[k].chunks_used /\ (k # a \/ j # off)
  BY <1>4
<1>6. \A k \in DOMAIN A : \A j \in DOMAIN B[k].chunks_used : BlockOf(B, k, j) = BlockOf(A, k, j)
  BY <1>4 DEF BlockOf
<1>7. \A k, j : BlockOf(A, k, j) = b => k = a /\ j = off
  <2> TAKE k, j
  <2>1. BlockOf(A, k, j).arena = k /\ BlockOf(A, k, j).at = j /\ b.arena = a /\ b.at = off
    BY DEF BlockOf
  <2> QED
    BY <2>1
<1> HIDE DEF b
<1>8. \A c : c \in BlocksOf(B) <=> c \in BlocksOf(A) \ {b}
  <2> TAKE c
  <2>1. ASSUME c \in BlocksOf(B) PROVE c \in BlocksOf(A) \ {b}
    <3>1. PICK k \in DOMAIN B : \E j \in DOMAIN B[k].chunks_used : c = BlockOf(B, k, j)
      BY <2>1, BlocksAre
    <3>2. PICK j \in DOMAIN B[k].chunks_used : c = BlockOf(B, k, j)
      BY <3>1
    <3>3. k \in DOMAIN A /\ j \in DOMAIN A[k].chunks_used /\ (k # a \/ j # off) /\ c = BlockOf(A, k, j)
      BY <1>5, <1>6, <3>2
    <3> QED
      BY <1>7, <3>3, BlocksAre
  <2>2. ASSUME c \in BlocksOf(A), c # b PROVE c \in BlocksOf(B)
    <3>1. PICK k \in DOMAIN A : \E j \in DOMAIN A[k].chunks_used : c = BlockOf(A, k, j)
      BY <2>2, BlocksAre
    <3>2. PICK j \in DOMAIN A[k].chunks_used : c = BlockOf(A, k, j)
      BY <3>1
    <3>3. k # a \/ j # off
      BY <2>2, <3>2 DEF b
    <3>4. k \in DOMAIN B /\ j \in DOMAIN B[k].chunks_used /\ c = BlockOf(B, k, j)
      BY <1>5, <1>6, <3>2, <3>3
    <3> QED
      BY <3>4, BlocksAre
  <2> QED
    BY <2>1, <2>2
<1>9. b \in BlocksOf(A)
  BY <1>1, BlocksAre DEF b
<1> QED
  BY <1>8, <1>9

\* A new arena with no used chunk, or with one.
LEMMA OneArena ==
  ASSUME NEW A \in Seq(ArenaType), NEW r \in ArenaType, NEW B, B = Append(A, r)
  PROVE  /\ DOMAIN r.chunks_used = {} => BlocksOf(B) = BlocksOf(A)
         /\ \A off \in Nat, s \in Nat \ {0} : DOMAIN r.chunks_used = {off} /\ r.chunks_used[off] = s =>
              GivesOneOf(BlocksOf(A), BlocksOf(B))
<1> DEFINE n == Len(A) + 1
<1>1. /\ DOMAIN A = 1..Len(A) /\ DOMAIN B = 1..n /\ B[n] = r /\ Len(A) \in Nat
      /\ \A k \in 1..Len(A) : B[k] = A[k]
  OBVIOUS
<1>2. \A k \in DOMAIN A : k \in DOMAIN B /\ B[k] = A[k] /\ k # n
  BY <1>1
<1>3. \A k \in DOMAIN B : k = n \/ k \in DOMAIN A
  BY <1>1
<1>4. n \in DOMAIN B /\ B[n] = r
  BY <1>1
<1> HIDE DEF n
<1>5. \A k \in DOMAIN A : \A j : BlockOf(B, k, j) = BlockOf(A, k, j)
  BY <1>2 DEF BlockOf
<1>6. \A c : c \in BlocksOf(B) <=>
        c \in BlocksOf(A) \/ \E j \in DOMAIN r.chunks_used : c = BlockOf(B, n, j)
  <2> TAKE c
  <2>1. ASSUME c \in BlocksOf(B), c \notin BlocksOf(A)
        PROVE  \E j \in DOMAIN r.chunks_used : c = BlockOf(B, n, j)
    <3>0. c \in BlocksOf(B)
      BY <2>1
    <3>1. PICK k \in DOMAIN B : \E j \in DOMAIN B[k].chunks_used : c = BlockOf(B, k, j)
      BY <3>0, BlocksAre
    <3>2. ~ k \in DOMAIN A
      <4> SUFFICES ASSUME k \in DOMAIN A PROVE FALSE
        OBVIOUS
      <4>1. \E j \in DOMAIN A[k].chunks_used : c = BlockOf(A, k, j)
        BY <1>2, <1>5, <3>1
      <4> QED
        BY <2>1, <4>1, BlocksAre
    <3> QED
      BY <1>3, <1>4, <3>1, <3>2
  <2>2. ASSUME c \in BlocksOf(A) PROVE c \in BlocksOf(B)
    <3>1. PICK k \in DOMAIN A : \E j \in DOMAIN A[k].chunks_used : c = BlockOf(A, k, j)
      BY <2>2, BlocksAre
    <3>2. k \in DOMAIN B /\ \E j \in DOMAIN B[k].chunks_used : c = BlockOf(B, k, j)
      BY <1>2, <1>5, <3>1
    <3> QED
      BY <3>2, BlocksAre
  <2>3. ASSUME \E j \in DOMAIN r.chunks_used : c = BlockOf(B, n, j) PROVE c \in BlocksOf(B)
    BY <1>4, <2>3, BlocksAre
  <2> QED
    BY <2>1, <2>2, <2>3
<1>7. \A c \in BlocksOf(A) : c.arena # n
  <2> TAKE c \in BlocksOf(A)
  <2>1. PICK k \in DOMAIN A : \E j \in DOMAIN A[k].chunks_used : c = BlockOf(A, k, j)
    BY BlocksAre
  <2>2. PICK j : c = BlockOf(A, k, j)
    BY <2>1
  <2>3. c.arena = k
    BY <2>2 DEF BlockOf
  <2> QED
    BY <1>2, <2>3
<1>8. ASSUME DOMAIN r.chunks_used = {} PROVE BlocksOf(B) = BlocksOf(A)
  BY <1>6, <1>8
<1>9. ASSUME NEW off \in Nat, NEW s \in Nat \ {0}, DOMAIN r.chunks_used = {off}, r.chunks_used[off] = s
      PROVE  GivesOneOf(BlocksOf(A), BlocksOf(B))
  <2> DEFINE b == BlockOf(B, n, off)
  <2>1. b.arena = n /\ b.size = s
    BY <1>4, <1>9 DEF BlockOf
  <2>2. \A c : c \in BlocksOf(B) <=> c \in BlocksOf(A) \cup {b}
    BY <1>6, <1>9
  <2> HIDE DEF b
  <2>3. \A c \in BlocksOf(A) : c # b /\ Blocks!Apart(b, c)
    BY <1>7, <2>1 DEF Blocks!Apart
  <2>4. b.size > 0
    BY <2>1
  <2> QED
    BY <2>2, <2>3, <2>4 DEF GivesOneOf
<1> QED
  BY <1>8, <1>9

AllBlocks == BlocksOf(arenas)

LEMMA HeldAre == HeldBlocks = AllBlocks
BY DEF HeldBlocks, AllBlocks, BlocksOf, BlockOf

GivesOut == GivesOneOf(AllBlocks, AllBlocks')
TakesBack == \E b \in AllBlocks : AllBlocks' = AllBlocks \ {b}

LEMMA AllocFromArenaHeld ==
  ASSUME IPoolInv, NEW size, AllocFromArena(size)
  PROVE  GivesOut
<1> DEFINE a == Min(Serving(size))
           s == AlignUp(size)
           r == arenas[a]
<1>1. size \in Nat \ {0} /\ Serving(size) # {}
  BY PoolAssumption DEF AllocFromArena
<1>2. s \in Nat \ {0}
  BY <1>1, AlignUpPositive
<1>3. a \in 1..Len(arenas) /\ LargeEnough(r, s) # {}
  BY <1>1, ServingLeast DEF IPoolInv
<1>4. r \in ArenaType /\ Sound(r) /\ arenas \in Seq(ArenaType)
  BY <1>3 DEF IPoolInv, PoolInv
<1>5. arenas' = [arenas EXCEPT ![a] = ArenaAlloc(r, s)]
  BY DEF AllocFromArena
<1> HIDE DEF a, s
<1>6. PICK off \in Nat :
        /\ off \notin DOMAIN r.chunks_used
        /\ ArenaAlloc(r, s).chunks_used = Put(r.chunks_used, off, s)
        /\ \A j \in DOMAIN r.chunks_used : off + s <= j \/ j + r.chunks_used[j] <= off
  BY <1>2, <1>3, <1>4, AllocSound
<1>7. /\ DOMAIN arenas' = DOMAIN arenas /\ \A k \in DOMAIN arenas : k # a => arenas'[k] = arenas[k]
      /\ arenas'[a] = ArenaAlloc(r, s)
  BY <1>3, <1>4, <1>5
<1>8. GivesOneOf(BlocksOf(arenas), BlocksOf(arenas'))
  <2>1. Gains(arenas, arenas', a, off, s)
    BY <1>6, <1>7 DEF Gains
  <2> QED
    BY <1>2, <1>3, <1>4, <2>1, OneMore
<1>9. AllBlocks' = BlocksOf(arenas')
  BY DEF AllBlocks, BlocksOf, BlockOf
<1> QED
  BY <1>8, <1>9 DEF GivesOut, AllBlocks

LEMMA AllocFromNewHeld ==
  ASSUME IPoolInv, NEW size, AllocFromNew(size)
  PROVE  GivesOut \/ AllBlocks' = AllBlocks
<1> DEFINE n == ArenaSize
           s == AlignUp(size)
           r == IF s <= n THEN ArenaAlloc(NewArena(n), s) ELSE NewArena(n)
<1>1. n \in Nat \ {0}
  BY ArenaSizeFits, PoolAssumption
<1>2. size \in Nat \ {0}
  BY PoolAssumption DEF AllocFromNew
<1>3. s \in Nat \ {0}
  BY <1>2, AlignUpPositive
<1>4. arenas' = Append(arenas, r)
  BY DEF AllocFromNew
<1>5. arenas \in Seq(ArenaType)
  BY DEF IPoolInv, PoolInv
<1>6. AllBlocks' = BlocksOf(arenas')
  BY DEF AllBlocks, BlocksOf, BlockOf
<1> HIDE DEF n, s
<1>7. NewArena(n) \in ArenaType /\ DOMAIN NewArena(n).chunks_used = {}
  BY <1>1, NewArenaSound
<1>8. CASE s <= n
  <2>1. r \in ArenaType
    BY <1>1, <1>3, <1>8, NewArenaServes
  <2>2. PICK off \in Nat : ArenaAlloc(NewArena(n), s).chunks_used = Put(NewArena(n).chunks_used, off, s)
    BY <1>1, <1>3, <1>8, NewArenaServes
  <2>3. NewArena(n).chunks_used \in Chunks /\ s \in Nat
    BY <1>3, <1>7 DEF ArenaType
  <2>4. With(Put(NewArena(n).chunks_used, off, s), NewArena(n).chunks_used, off, s)
    BY <2>3, PutChunk
  <2>5. r.chunks_used = Put(NewArena(n).chunks_used, off, s)
    BY <1>8, <2>2
  <2>6. DOMAIN r.chunks_used = {off} /\ r.chunks_used[off] = s
    BY <1>7, <2>4, <2>5 DEF With
  <2> HIDE DEF r
  <2>7. GivesOneOf(BlocksOf(arenas), BlocksOf(arenas'))
    BY <1>3, <1>4, <1>5, <2>1, <2>6, OneArena
  <2> QED
    BY <1>6, <2>7 DEF GivesOut, AllBlocks
<1>9. CASE ~(s <= n)
  <2>1. r = NewArena(n)
    BY <1>9
  <2> HIDE DEF r
  <2>2. BlocksOf(arenas') = BlocksOf(arenas)
    BY <1>4, <1>5, <1>7, <2>1, OneArena
  <2> QED
    BY <1>6, <2>2 DEF AllBlocks
<1> QED
  BY <1>8, <1>9

LEMMA FreeHeld ==
  ASSUME IPoolInv, NEW a \in DOMAIN arenas, NEW off \in DOMAIN arenas[a].chunks_used, Free(a, off)
  PROVE  TakesBack \/ AllBlocks' = AllBlocks
<1>1. /\ a \in 1..Len(arenas) /\ arenas[a] \in ArenaType /\ Sound(arenas[a])
      /\ arenas \in Seq(ArenaType)
  BY DEF IPoolInv, PoolInv
<1>2. ArenaFree(arenas[a], off).chunks_used = Erase(arenas[a].chunks_used, off)
  BY <1>1, FreeSound
<1>3. AllBlocks' = BlocksOf(arenas')
  BY DEF AllBlocks, BlocksOf, BlockOf
<1>4. CASE a \in refused
  BY <1>3, <1>4 DEF Free, AllBlocks
<1>5. CASE a \notin refused
  <2>1. arenas' = [arenas EXCEPT ![a] = ArenaFree(arenas[a], off)]
    BY <1>5 DEF Free
  <2>2. /\ DOMAIN arenas' = DOMAIN arenas /\ \A k \in DOMAIN arenas : k # a => arenas'[k] = arenas[k]
        /\ arenas'[a] = ArenaFree(arenas[a], off)
    BY <1>1, <2>1
  <2>3. \E b \in BlocksOf(arenas) : BlocksOf(arenas') = BlocksOf(arenas) \ {b}
    BY <1>1, <1>2, <2>2, OneLess
  <2> QED
    BY <1>3, <2>3 DEF TakesBack, AllBlocks
<1> QED
  BY <1>4, <1>5

\* The blocks outside some arenas.
Granted(X, R) == {b \in X : b.arena \notin R}

LEMMA GrantedAre == Granted(AllBlocks, refused) = {b \in HeldBlocks : b.arena \notin refused}
BY HeldAre DEF Granted

\* A block that is given out is given out of granted memory or does not show there.
LEMMA GivesGranted ==
  ASSUME NEW X, NEW Y, NEW R, NEW S, GivesOneOf(X, Y), \A c \in X : c.arena \in R <=> c.arena \in S
  PROVE  GivesOneOf(Granted(X, R), Granted(Y, S)) \/ Granted(Y, S) = Granted(X, R)
<1>1. PICK b \in Y : Y = X \cup {b} /\ b \notin X /\ b.size > 0 /\ \A c \in X : Blocks!Apart(b, c)
  BY DEF GivesOneOf
<1>2. CASE b.arena \in S
  BY <1>1, <1>2 DEF Granted
<1>3. CASE b.arena \notin S
  <2>1. b \in Granted(Y, S) /\ b \notin Granted(X, R) /\ Granted(Y, S) = Granted(X, R) \cup {b}
    BY <1>1, <1>3 DEF Granted
  <2>2. \A c \in Granted(X, R) : Blocks!Apart(b, c)
    BY <1>1 DEF Granted
  <2> QED
    BY <1>1, <2>1, <2>2 DEF GivesOneOf
<1> QED
  BY <1>2, <1>3

LEMMA TakesGranted ==
  ASSUME NEW X, NEW Y, NEW R, NEW b \in X, Y = X \ {b}
  PROVE  \/ \E d \in Granted(X, R) : Granted(Y, R) = Granted(X, R) \ {d}
         \/ Granted(Y, R) = Granted(X, R)
<1>1. CASE b.arena \in R
  BY <1>1 DEF Granted
<1>2. CASE b.arena \notin R
  <2>1. b \in Granted(X, R) /\ Granted(Y, R) = Granted(X, R) \ {b}
    BY <1>2 DEF Granted
  <2> QED
    BY <2>1
<1> QED
  BY <1>1, <1>2

\* An arena that is refused is a new one, which holds no block yet.
LEMMA RefusedAreNew ==
  ASSUME IPoolInv, [PoolNext]_poolVars
  PROVE  \A c \in AllBlocks : c.arena \in refused <=> c.arena \in refused'
<1>1. refused' = refused \/ refused' = refused \cup {Len(arenas) + 1}
  BY DEF PoolNext, poolVars, AllocFromArena, AllocFromNew, Free
<1>2. \A c \in AllBlocks : c.arena \in 1..Len(arenas)
  <2> TAKE c \in AllBlocks
  <2>1. PICK a \in DOMAIN arenas : \E off \in DOMAIN arenas[a].chunks_used : c = BlockOf(arenas, a, off)
    BY BlocksAre DEF AllBlocks
  <2>2. c.arena = a
    BY <2>1 DEF BlockOf
  <2>3. DOMAIN arenas = 1..Len(arenas)
    BY DEF IPoolInv, PoolInv
  <2> QED
    BY <2>2, <2>3
<1>3. Len(arenas) \in Nat
  BY DEF IPoolInv, PoolInv
<1> QED
  BY <1>1, <1>2, <1>3

\* LockedPool::alloc hands out a block that no block in use touches, or none;
\* free takes back the one it is given; neither moves another (lockedpool.cpp:43-113).
\* This is of the memory the system granted: an arena it refused is kept all the
\* same (227-236, 333-345), without disturbing the blocks of the others.
THEOREM PoolImplementsBlocks == PoolSpec => PoolKeepsBlocks
<1> DEFINE G == {b \in HeldBlocks : b.arena \notin refused}
<1>1. PoolInit => Blocks!HeldInit
  <2> SUFFICES ASSUME PoolInit PROVE AllBlocks = {}
    BY HeldAre DEF Blocks!HeldInit
  <2> QED
    BY DEF PoolInit, AllBlocks, BlocksOf
<1>2. ASSUME IPoolInv, [PoolNext]_poolVars
      PROVE  GivesOut \/ (TakesBack /\ UNCHANGED refused) \/ AllBlocks' = AllBlocks
  <2>1. CASE PoolNext
    BY <1>2, <2>1, AllocFromArenaHeld, AllocFromNewHeld, FreeHeld DEF PoolNext, Free
  <2>2. CASE UNCHANGED poolVars
    BY <2>2 DEF poolVars, AllBlocks, BlocksOf, BlockOf
  <2> QED
    BY <1>2, <2>1, <2>2
<1>3. ASSUME IPoolInv, [PoolNext]_poolVars
      PROVE  \/ GivesOneOf(Granted(AllBlocks, refused), Granted(AllBlocks', refused'))
             \/ \E d \in Granted(AllBlocks, refused) :
                  Granted(AllBlocks', refused') = Granted(AllBlocks, refused) \ {d}
             \/ Granted(AllBlocks', refused') = Granted(AllBlocks, refused)
  <2>0. \A c \in AllBlocks : c.arena \in refused <=> c.arena \in refused'
    BY <1>3, RefusedAreNew
  <2>1. CASE GivesOut
    BY <2>0, <2>1, GivesGranted DEF GivesOut
  <2>2. CASE TakesBack /\ UNCHANGED refused
    BY <2>2, TakesGranted DEF TakesBack
  <2>3. CASE AllBlocks' = AllBlocks
    BY <2>0, <2>3 DEF Granted
  <2> QED
    BY <1>2, <1>3, <2>1, <2>2, <2>3
<1>4. IPoolInv /\ [PoolNext]_poolVars =>
        [Blocks!GiveOut \/ Blocks!TakeBack]_({b \in HeldBlocks : b.arena \notin refused})
  <2> SUFFICES ASSUME IPoolInv, [PoolNext]_poolVars
               PROVE  Blocks!GiveOut \/ Blocks!TakeBack \/ G' = G
    OBVIOUS
  <2>1. G = Granted(AllBlocks, refused) /\ G' = Granted(AllBlocks', refused')
    BY HeldAre DEF Granted, HeldBlocks, AllBlocks, BlocksOf, BlockOf
  <2>2. Blocks!GiveOut <=> GivesOneOf(G, G')
    BY DEF Blocks!GiveOut, GivesOneOf
  <2>3. Blocks!TakeBack <=> \E d \in G : G' = G \ {d}
    BY DEF Blocks!TakeBack
  <2> HIDE DEF G
  <2> QED
    BY <1>3, <2>1, <2>2, <2>3
<1> QED
  BY <1>1, <1>4, PoolInvHolds, PTL DEF PoolSpec, PoolKeepsBlocks, Blocks!HeldSpec

-------------------------------------------------------------------------------
(* Scheduler: SingleThreadedSchedulerClient implements SerialQueue.        *)

Current == {doing[a] : a \in {b \in Runner : at[b] = "callback"}}

\* One thread at most runs a callback, and the flag tells whether one does; a
\* thread that adds callbacks runs none.
JobInv ==
  /\ DOMAIN at = Actor /\ DOMAIN doing = Actor
  /\ m_are_callbacks_running \in BOOLEAN
  /\ m_are_callbacks_running <=> \E a \in Runner : at[a] = "callback"
  /\ \A a, b \in Runner : at[a] = "callback" /\ at[b] = "callback" => a = b
  /\ \A c \in Actor \ Runner : at[c] \in {"idle", "maybe", "schedule", "added"}

\* A step that begins and ends no callback.
Quiet ==
  /\ DOMAIN at' = Actor /\ DOMAIN doing' = Actor
  /\ \A a \in Runner : at'[a] = "callback" <=> at[a] = "callback"
  /\ \A a \in Runner : at[a] = "callback" => doing'[a] = doing[a]
  /\ \A c \in Actor \ Runner : at'[c] \in {"idle", "maybe", "schedule", "added"}
  /\ UNCHANGED m_are_callbacks_running

LEMMA QuietStep ==
  ASSUME JobInv, Quiet
  PROVE  JobInv' /\ Current' = Current
<1>1. JobInv'
  BY DEF JobInv, Quiet
<1>2. {b \in Runner : at'[b] = "callback"} = {b \in Runner : at[b] = "callback"}
  BY DEF Quiet
<1>3. {doing'[a] : a \in {b \in Runner : at'[b] = "callback"}} =
        {doing[a] : a \in {b \in Runner : at[b] = "callback"}}
  BY <1>2 DEF Quiet
<1> QED
  BY <1>1, <1>3 DEF Current

\* One actor moves, and one of the waiting threads may be woken.
LEMMA MoveQuiet ==
  ASSUME JobInv, NEW a \in Actor, NEW pc, Move(a, pc) \/ MoveAndNotify(a, pc),
         at[a] # "callback", pc # "callback",
         a \notin Runner => pc \in {"idle", "maybe", "schedule", "added"},
         DOMAIN doing' = Actor, \A b \in Runner : at[b] = "callback" => doing'[b] = doing[b],
         UNCHANGED m_are_callbacks_running
  PROVE  Quiet
<1>1. CASE at' = [at EXCEPT ![a] = pc]
  BY <1>1 DEF JobInv, Quiet
<1>2. ASSUME NEW t \in Waiting \ {a}, at' = [at EXCEPT ![a] = pc, ![t] = "check"] PROVE Quiet
  <2>1. t \in Runner /\ at[t] # "callback"
    BY DEF Waiting, Runner
  <2>2. DOMAIN at' = Actor /\ \A b \in Actor : at'[b] = IF b = t THEN "check" ELSE IF b = a THEN pc ELSE at[b]
    BY <1>2, <2>1 DEF JobInv, Actor
  <2> QED
    BY <2>1, <2>2 DEF JobInv, Quiet, Actor
<1> QED
  BY <1>1, <1>2 DEF Move, MoveAndNotify

LEMMA JobInitInv == SchedulerInit => JobInv /\ Current = {}
<1> SUFFICES ASSUME SchedulerInit PROVE JobInv /\ Current = {}
  OBVIOUS
<1>1. PICK S \in SUBSET Thread \ {{}} :
        at = [a \in Actor |-> IF a \in S THEN "loop" ELSE IF a \in Thread THEN "unused" ELSE "idle"]
  BY DEF SchedulerInit
<1>2. DOMAIN at = Actor /\ \A a \in Actor : at[a] # "callback"
  BY <1>1
<1>3. \A c \in Actor \ Runner : at[c] = "idle"
  BY <1>1 DEF Runner
<1>4. DOMAIN doing = Actor /\ m_are_callbacks_running = FALSE
  BY DEF SchedulerInit
<1> QED
  BY <1>2, <1>3, <1>4 DEF JobInv, Current, Actor

\* The threads of CScheduler begin and end no callback.
LEMMA ServiceQuiet ==
  ASSUME JobInv, NEW t \in Thread, ServiceQueue(t) \/ Spurious(t) \/ TaskThrows(t)
  PROVE  Quiet /\ UNCHANGED m_callbacks_pending
<1>0. t \in Actor /\ t \in Runner /\ DOMAIN doing = Actor
  BY DEF Actor, Runner, JobInv
<1>1. CASE LookAtQueue(t)
  <2>1. \E pc \in {"left", "seeding", "waiting", "timed"} : Move(t, pc) \/ MoveAndNotify(t, pc)
    BY <1>1 DEF LookAtQueue
  <2>2. at[t] # "callback" /\ UNCHANGED <<doing, m_are_callbacks_running, m_callbacks_pending>>
    BY <1>1 DEF LookAtQueue, clientVars
  <2> QED
    BY <1>0, <2>1, <2>2, MoveQuiet
<1>2. CASE Seeded(t) \/ Spurious(t) \/ Timeout(t)
  <2>1. \E pc \in {"check", "timeout"} : Move(t, pc)
    BY <1>2 DEF Seeded, Spurious, Timeout
  <2>2. at[t] # "callback" /\ UNCHANGED <<doing, m_are_callbacks_running, m_callbacks_pending>>
    BY <1>2 DEF Seeded, Spurious, Timeout, clientVars, Waiting
  <2> QED
    BY <1>0, <2>1, <2>2, MoveQuiet
<1>3. CASE TakeTask(t)
  <2>1. \E pc \in {"loop", "process", "running"} : Move(t, pc)
    BY <1>3 DEF TakeTask
  <2>2. at[t] = "timeout" /\ UNCHANGED <<m_are_callbacks_running, m_callbacks_pending>>
    BY <1>3 DEF TakeTask, clientVars
  <2>3. doing' = doing \/ \E f : doing' = [doing EXCEPT ![t] = f]
    BY <1>3 DEF TakeTask
  <2>4. DOMAIN doing' = Actor /\ \A b \in Runner : at[b] = "callback" => doing'[b] = doing[b]
    <3>1. CASE doing' = doing
      BY <1>0, <3>1
    <3>2. ASSUME NEW f, doing' = [doing EXCEPT ![t] = f]
          PROVE  DOMAIN doing' = Actor /\ \A b \in Runner : at[b] = "callback" => doing'[b] = doing[b]
      BY <1>0, <2>2, <3>2 DEF Actor
    <3> QED
      BY <2>3, <3>1, <3>2
  <2> QED
    BY <1>0, <2>1, <2>2, <2>4, MoveQuiet
<1>4. CASE TaskEnds(t) \/ TaskThrows(t)
  <2>1. \E pc \in {"loop", "left"} : Move(t, pc) \/ MoveAndNotify(t, pc)
    BY <1>4 DEF TaskEnds, TaskThrows
  <2>2. /\ at[t] = "running" /\ UNCHANGED <<m_are_callbacks_running, m_callbacks_pending>>
        /\ doing' = [doing EXCEPT ![t] = Nothing]
    BY <1>4 DEF TaskEnds, TaskThrows, clientVars
  <2>3. DOMAIN doing' = Actor /\ \A b \in Runner : at[b] = "callback" => doing'[b] = doing[b]
    BY <1>0, <2>2
  <2> QED
    BY <1>0, <2>1, <2>2, <2>3, MoveQuiet
<1> QED
  BY <1>1, <1>2, <1>3, <1>4 DEF ServiceQueue

LEMMA AfterIs ==
  ASSUME NEW a \in Actor
  PROVE  After(a) \in {"added", "left", "loop"} /\ (a \notin Runner => After(a) = "added")
BY DEF After, Actor

LEMMA ClientSteps ==
  ASSUME JobInv, NEW a \in Actor, Client(a)
  PROVE  /\ JobInv'
         /\ \/ Current' = Current /\ UNCHANGED m_callbacks_pending
            \/ /\ Current = {} /\ m_callbacks_pending # <<>>
               /\ Current' = {Head(m_callbacks_pending)} /\ m_callbacks_pending' = Tail(m_callbacks_pending)
            \/ Current # {} /\ Current' = {} /\ UNCHANGED m_callbacks_pending
<1>0. DOMAIN at = Actor /\ DOMAIN doing = Actor /\ Runner \subseteq Actor
  BY DEF JobInv, Actor
<1>1. CASE MaybeScheduleProcessQueue(a)
  <2>1. Move(a, After(a)) \/ Move(a, "schedule")
    BY <1>1 DEF MaybeScheduleProcessQueue, Returns
  <2>2. at[a] = "maybe" /\ UNCHANGED <<doing, m_are_callbacks_running, m_callbacks_pending>>
    BY <1>1 DEF MaybeScheduleProcessQueue, clientVars
  <2>3. Quiet
    BY <1>0, <2>1, <2>2, AfterIs, MoveQuiet
  <2> QED
    BY <2>2, <2>3, QuietStep
<1>2. CASE ScheduleProcessQueue(a)
  <2>1. MoveAndNotify(a, After(a))
    BY <1>2 DEF ScheduleProcessQueue
  <2>2. at[a] = "schedule" /\ UNCHANGED <<doing, m_are_callbacks_running, m_callbacks_pending>>
    BY <1>2 DEF ScheduleProcessQueue, clientVars
  <2>3. Quiet
    BY <1>0, <2>1, <2>2, AfterIs, MoveQuiet
  <2> QED
    BY <2>2, <2>3, QuietStep
<1>3. CASE ProcessQueue(a)
  <2>0. at[a] = "process" /\ a \in Runner
    BY <1>3 DEF ProcessQueue, JobInv
  <2>1. CASE m_are_callbacks_running \/ m_callbacks_pending = <<>>
    <3>1. Move(a, After(a)) /\ UNCHANGED <<doing, m_are_callbacks_running, m_callbacks_pending>>
      BY <1>3, <2>1 DEF ProcessQueue, Returns, clientVars
    <3>2. Quiet
      BY <1>0, <2>0, <3>1, AfterIs, MoveQuiet
    <3> QED
      BY <3>1, <3>2, QuietStep
  <2>2. CASE ~m_are_callbacks_running /\ m_callbacks_pending # <<>>
    <3>1. /\ m_are_callbacks_running' = TRUE /\ at' = [at EXCEPT ![a] = "callback"]
          /\ doing' = [doing EXCEPT ![a] = Head(m_callbacks_pending)]
          /\ m_callbacks_pending' = Tail(m_callbacks_pending)
      BY <1>3, <2>2 DEF ProcessQueue, Move
    <3>2. \A b \in Runner : at[b] # "callback"
      BY <2>2 DEF JobInv
    <3>3. /\ at'[a] = "callback" /\ \A b \in Actor : b # a => at'[b] = at[b]
          /\ DOMAIN at' = Actor /\ DOMAIN doing' = Actor /\ doing'[a] = Head(m_callbacks_pending)
      BY <1>0, <2>0, <3>1
    <3>4. {b \in Runner : at'[b] = "callback"} = {a}
      BY <1>0, <2>0, <3>2, <3>3
    <3>5. Current' = {Head(m_callbacks_pending)}
      BY <3>3, <3>4 DEF Current
    <3>6. Current = {}
      BY <3>2 DEF Current
    <3>7. JobInv'
      BY <1>0, <2>0, <3>1, <3>2, <3>3 DEF JobInv
    <3> QED
      BY <2>2, <3>1, <3>5, <3>6, <3>7
  <2> QED
    BY <2>1, <2>2 DEF JobInv
<1>4. CASE CallbackEnds(a)
  <2>0. at[a] = "callback" /\ a \in Runner
    BY <1>4 DEF CallbackEnds, JobInv
  <2>1. /\ m_are_callbacks_running' = FALSE /\ at' = [at EXCEPT ![a] = "maybe"]
        /\ UNCHANGED m_callbacks_pending
        /\ \E x : doing' = [doing EXCEPT ![a] = x]
    BY <1>4 DEF CallbackEnds, Move
  <2>2. \A b \in Runner : b # a => at[b] # "callback"
    BY <2>0 DEF JobInv
  <2>3. /\ at'[a] = "maybe" /\ \A b \in Actor : b # a => at'[b] = at[b]
        /\ DOMAIN at' = Actor /\ DOMAIN doing' = Actor
    BY <1>0, <2>0, <2>1
  <2>4. \A b \in Runner : at'[b] # "callback"
    BY <1>0, <2>2, <2>3
  <2>5. Current' = {}
    BY <2>4 DEF Current
  <2>6. doing[a] \in Current
    BY <2>0 DEF Current
  <2>7. JobInv'
    BY <1>0, <2>0, <2>1, <2>3, <2>4 DEF JobInv
  <2> QED
    BY <2>1, <2>5, <2>6, <2>7
<1> QED
  BY <1>1, <1>2, <1>3, <1>4 DEF Client

\* What SerialNext says of the callbacks.
SerialStep ==
  \/ \E c \in Callback : m_callbacks_pending' = Append(m_callbacks_pending, c) /\ Current' = Current
  \/ /\ Current = {} /\ m_callbacks_pending # <<>>
     /\ Current' = {Head(m_callbacks_pending)} /\ m_callbacks_pending' = Tail(m_callbacks_pending)
  \/ Current # {} /\ Current' = {} /\ UNCHANGED m_callbacks_pending
  \/ Current' = Current /\ UNCHANGED m_callbacks_pending

LEMMA JobSteps ==
  ASSUME JobInv, [SchedulerNext]_schedulerVars
  PROVE  JobInv' /\ SerialStep
<1>1. CASE Tick
  <2>1. Quiet /\ UNCHANGED m_callbacks_pending
    BY <1>1 DEF Tick, clientVars, Quiet, JobInv
  <2> QED
    BY <2>1, QuietStep DEF SerialStep
<1>2. CASE EmptyQueue
  <2>1. /\ \E pc \in {"process", "left"} : Move(Main, pc)
        /\ at[Main] # "callback" /\ Main \in Runner /\ Main \in Actor
        /\ UNCHANGED <<doing, m_are_callbacks_running, m_callbacks_pending>>
    BY <1>2 DEF EmptyQueue, clientVars, Runner, Actor
  <2>2. Quiet
    BY <2>1, MoveQuiet DEF JobInv
  <2> QED
    BY <2>1, <2>2, QuietStep DEF SerialStep
<1>3. ASSUME NEW t \in Thread, ServiceQueue(t) \/ Spurious(t) \/ TaskThrows(t) PROVE JobInv' /\ SerialStep
  BY <1>3, ServiceQuiet, QuietStep DEF SerialStep
<1>4. ASSUME NEW c \in Callback, AddToProcessQueue(c) PROVE JobInv' /\ SerialStep
  <2>1. /\ Move(c, "maybe") /\ at[c] = "idle" /\ c \in Actor /\ UNCHANGED <<doing, m_are_callbacks_running>>
        /\ m_callbacks_pending' = Append(m_callbacks_pending, c)
    BY <1>4 DEF AddToProcessQueue, Actor
  <2>2. Quiet
    BY <2>1, MoveQuiet DEF JobInv
  <2> QED
    BY <2>1, <2>2, QuietStep DEF SerialStep
<1>5. ASSUME NEW a \in Actor, Client(a) PROVE JobInv' /\ SerialStep
  BY <1>5, ClientSteps DEF SerialStep
<1>6. ASSUME NEW drain \in BOOLEAN, Stop(drain) PROVE JobInv' /\ SerialStep
  <2>1. /\ at' = [a \in Actor |-> IF a \in Waiting THEN "check" ELSE at[a]]
        /\ UNCHANGED <<doing, m_are_callbacks_running, m_callbacks_pending>>
    BY <1>6 DEF Stop, clientVars
  <2>2. \A a \in Waiting : a \in Runner /\ at[a] # "callback"
    BY DEF Waiting, Runner
  <2>3. Quiet
    BY <2>1, <2>2 DEF Quiet, JobInv, Actor
  <2> QED
    BY <2>1, <2>3, QuietStep DEF SerialStep
<1>7. CASE UNCHANGED schedulerVars
  <2>1. Quiet /\ UNCHANGED m_callbacks_pending
    BY <1>7 DEF schedulerVars, clientVars, Quiet, JobInv
  <2> QED
    BY <2>1, QuietStep DEF SerialStep
<1> QED
  BY <1>1, <1>2, <1>3, <1>4, <1>5, <1>6, <1>7 DEF SchedulerNext

LEMMA JobInvHolds == SchedulerSpec => []JobInv
BY JobInitInv, JobSteps, PTL DEF SchedulerSpec

\* The callbacks run one at a time and in the order in which they were added,
\* whatever the threads do, stop and throw (scheduler.cpp:147-206, scheduler.h:87).
THEOREM CallbacksAreSerial == SchedulerSpec => OneJobAtATime
<1>1. SchedulerInit => Serial!SerialInit
  BY JobInitInv DEF SchedulerInit, Serial!SerialInit, Current
<1>2. JobInv /\ [SchedulerNext]_schedulerVars => [Serial!SerialNext]_(Serial!serialVars)
  <2> SUFFICES ASSUME JobInv, [SchedulerNext]_schedulerVars
               PROVE  [Serial!SerialNext]_(Serial!serialVars)
    OBVIOUS
  <2>1. SerialStep
    BY JobSteps
  <2>2. /\ Current = {doing[a] : a \in {b \in Runner : at[b] = "callback"}}
        /\ Current' = {doing[a] : a \in {b \in Runner : at[b] = "callback"}}'
    BY DEF Current
  <2> QED
    BY <2>1, <2>2 DEF SerialStep, Serial!SerialNext, Serial!Append1, Serial!Begin, Serial!End, Serial!serialVars
<1> QED
  BY <1>1, <1>2, JobInvHolds, PTL DEF SchedulerSpec, OneJobAtATime, Serial!SerialSpec

-------------------------------------------------------------------------------
(* Scheduler: the queue of one thread.                                     *)

Entry == [task : EveryTask \cup Once \cup {"ProcessQueue"}, due : Nat]

\* Of a queue: ordered by due; which repeated tasks wait and in which order;
\* none waits twice; they are due within a period of each other, or from now.
Sorted(q) == \A i, j \in 1..Len(q) : i < j => q[i].due <= q[j].due
Repeats(q, i) == q[i].task \in EveryTask
Waits(q, e) == \E i \in 1..Len(q) : q[i].task = e
Ahead(q, e, f) == \E i, j \in 1..Len(q) : i < j /\ q[i].task = e /\ q[j].task = f
Apart(q) == \A i, j \in 1..Len(q) : Repeats(q, i) /\ q[i].task = q[j].task => i = j
Close(q) == \A i, j \in 1..Len(q) : Repeats(q, i) /\ Repeats(q, j) => q[j].due <= q[i].due + Delta
Near(q) == \A i \in 1..Len(q) : Repeats(q, i) => q[i].due <= Delta

LEMMA EntryIs ==
  ASSUME NEW q \in Seq(Entry), NEW i \in 1..Len(q)
  PROVE  q[i] \in Entry /\ q[i].due \in Nat
<1>1. q[i] \in Entry
  OBVIOUS
<1> QED
  BY <1>1 DEF Entry

\* r is q with one more entry at k.
Inserted(q, r, k) ==
  /\ k \in 1..Len(r) /\ Len(r) = Len(q) + 1
  /\ \A j \in 1..Len(q) : j < k => r[j] = q[j]
  /\ \A j \in 1..Len(q) : j >= k => r[j + 1] = q[j]

LEMMA InsertAtIs ==
  ASSUME NEW q \in Seq(Entry), NEW k \in 1..Len(q) + 1, NEW e \in Entry
  PROVE  /\ InsertAt(q, k, e) \in Seq(Entry) /\ InsertAt(q, k, e)[k] = e
         /\ Inserted(q, InsertAt(q, k, e), k)
<1> DEFINE a == SubSeq(q, 1, k - 1)
           b == SubSeq(q, k, Len(q))
<1>1. a \in Seq(Entry) /\ Len(a) = k - 1 /\ \A j \in 1..k - 1 : a[j] = q[j]
  OBVIOUS
<1>2. b \in Seq(Entry) /\ Len(b) = Len(q) - k + 1 /\ \A j \in 1..Len(q) - k + 1 : b[j] = q[k + j - 1]
  OBVIOUS
<1>3. a \o <<e>> \in Seq(Entry) /\ Len(a \o <<e>>) = k /\ (a \o <<e>>)[k] = e
      /\ \A j \in 1..k - 1 : (a \o <<e>>)[j] = q[j]
  BY <1>1
<1> HIDE DEF a, b
<1> DEFINE c == a \o <<e>>
<1> HIDE DEF c
<1>4. c \in Seq(Entry) /\ Len(c) = k /\ c[k] = e /\ \A j \in 1..k - 1 : c[j] = q[j]
  BY <1>3 DEF c
<1>5. /\ c \o b \in Seq(Entry) /\ Len(c \o b) = Len(q) + 1
      /\ \A j \in 1..Len(q) + 1 : (c \o b)[j] = IF j <= k THEN c[j] ELSE b[j - k]
  <2>1. k + (Len(q) - k + 1) = Len(q) + 1
    OBVIOUS
  <2>2. c \in Seq(Entry) /\ b \in Seq(Entry)
    BY <1>2, <1>4
  <2>3. /\ c \o b \in Seq(Entry) /\ Len(c \o b) = Len(c) + Len(b)
        /\ \A j \in 1..Len(c) + Len(b) : (c \o b)[j] = IF j <= Len(c) THEN c[j] ELSE b[j - Len(c)]
    BY <2>2, ConcatProperties
  <2> QED
    BY <1>2, <1>4, <2>1, <2>3
<1>6. \A j \in 1..k : (c \o b)[j] = c[j]
  BY <1>5
<1>8. \A j \in 1..Len(q) : j >= k => (c \o b)[j + 1] = q[j]
  <2> SUFFICES ASSUME NEW j \in 1..Len(q), j >= k PROVE (c \o b)[j + 1] = q[j]
    OBVIOUS
  <2>1. j + 1 \in 1..Len(q) + 1 /\ ~(j + 1 <= k) /\ j + 1 - k \in 1..Len(q) - k + 1 /\ k + (j + 1 - k) - 1 = j
    OBVIOUS
  <2>2. (c \o b)[j + 1] = b[j + 1 - k]
    BY <2>1, <1>5
  <2>3. b[j + 1 - k] = q[k + (j + 1 - k) - 1]
    BY <2>1, <1>2
  <2> QED
    BY <2>1, <2>2, <2>3
<1>9. InsertAt(q, k, e) = c \o b
  BY DEF InsertAt, a, b, c
<1> QED
  BY <1>4, <1>5, <1>6, <1>8, <1>9 DEF Inserted

\* An entry that is no repeated task changes nothing for those that are.
LEMMA OtherEntry ==
  ASSUME NEW q \in Seq(Entry), NEW r \in Seq(Entry), NEW k, Inserted(q, r, k), ~Repeats(r, k)
  PROVE  /\ \A e \in EveryTask : Waits(q, e) <=> Waits(r, e)
         /\ \A e, f \in EveryTask : Ahead(q, e, f) <=> Ahead(r, e, f)
         /\ Apart(q) <=> Apart(r)
         /\ Close(q) <=> Close(r)
         /\ Near(q) <=> Near(r)
<1> DEFINE up(j) == IF j < k THEN j ELSE j + 1
<1>0. k \in 1..Len(r) /\ Len(r) = Len(q) + 1 /\ Len(q) \in Nat
  BY DEF Inserted
<1>1. \A j \in 1..Len(q) : up(j) \in 1..Len(r) /\ r[up(j)] = q[j]
  BY <1>0 DEF Inserted
<1>2. \A i, j \in 1..Len(q) : (i < j <=> up(i) < up(j)) /\ (i = j <=> up(i) = up(j))
  BY <1>0
<1>3. \A j \in 1..Len(r) : r[j].task \in EveryTask => \E i \in 1..Len(q) : j = up(i)
  <2> SUFFICES ASSUME NEW j \in 1..Len(r), r[j].task \in EveryTask PROVE \E i \in 1..Len(q) : j = up(i)
    OBVIOUS
  <2>1. j # k
    BY DEF Repeats
  <2>2. CASE j < k
    BY <2>2, <1>0
  <2>3. CASE j > k
    <3>1. j - 1 \in 1..Len(q) /\ j = up(j - 1)
      BY <2>3, <1>0
    <3> QED
      BY <3>1
  <2> QED
    BY <2>1, <2>2, <2>3, <1>0
<1> HIDE DEF up
<1>4. \A e \in EveryTask : Waits(q, e) <=> Waits(r, e)
  BY <1>1, <1>3 DEF Waits
<1>5. \A e, f \in EveryTask : Ahead(q, e, f) <=> Ahead(r, e, f)
  <2> SUFFICES ASSUME NEW e \in EveryTask, NEW f \in EveryTask PROVE Ahead(q, e, f) <=> Ahead(r, e, f)
    OBVIOUS
  <2>1. ASSUME NEW i \in 1..Len(q), NEW j \in 1..Len(q), i < j, q[i].task = e, q[j].task = f
        PROVE  Ahead(r, e, f)
    BY <2>1, <1>1, <1>2 DEF Ahead
  <2>2. ASSUME NEW i \in 1..Len(r), NEW j \in 1..Len(r), i < j, r[i].task = e, r[j].task = f
        PROVE  Ahead(q, e, f)
    <3>1. PICK m, n \in 1..Len(q) : i = up(m) /\ j = up(n)
      BY <2>2, <1>3
    <3> QED
      BY <3>1, <2>2, <1>1, <1>2 DEF Ahead
  <2> QED
    BY <2>1, <2>2 DEF Ahead
<1>6. Apart(q) <=> Apart(r)
  <2>1. ASSUME Apart(r), NEW i \in 1..Len(q), NEW j \in 1..Len(q), Repeats(q, i), q[i].task = q[j].task
        PROVE  i = j
    BY <2>1, <1>1, <1>2 DEF Apart, Repeats
  <2>2. ASSUME Apart(q), NEW i \in 1..Len(r), NEW j \in 1..Len(r), Repeats(r, i), r[i].task = r[j].task
        PROVE  i = j
    <3>1. PICK m, n \in 1..Len(q) : i = up(m) /\ j = up(n)
      BY <2>2, <1>3 DEF Repeats
    <3> QED
      BY <3>1, <2>2, <1>1 DEF Apart, Repeats
  <2> QED
    BY <2>1, <2>2 DEF Apart
<1>7. Close(q) <=> Close(r)
  BY <1>1, <1>3 DEF Close, Repeats
<1>8. Near(q) <=> Near(r)
  BY <1>1, <1>3 DEF Near, Repeats
<1> QED
  BY <1>4, <1>5, <1>6, <1>7, <1>8

\* The first task is taken when it is due: the others are due in a period.
LEMMA TakeFirst ==
  ASSUME NEW q \in Seq(Entry), NEW r \in Seq(Entry), Inserted(r, q, 1), Repeats(q, 1), q[1].due = 0,
         Apart(q), Close(q), NEW e \in EveryTask, e = q[1].task
  PROVE  /\ ~Waits(r, e) /\ Waits(q, e)
         /\ \A f \in EveryTask \ {e} :
              /\ Waits(r, f) <=> Waits(q, f)
              /\ Ahead(q, e, f) <=> Waits(q, f)
              /\ ~Ahead(q, f, e)
              /\ \A g \in EveryTask \ {e} : Ahead(r, f, g) <=> Ahead(q, f, g)
         /\ Apart(r) /\ Close(r) /\ Near(r)
<1>0. Len(q) = Len(r) + 1 /\ Len(r) \in Nat /\ 1 \in 1..Len(q)
  BY DEF Inserted
<1>1. \A j \in 1..Len(r) : j + 1 \in 1..Len(q) /\ q[j + 1] = r[j]
  BY <1>0 DEF Inserted
<1>2. \A j \in 1..Len(q) : j # 1 => j - 1 \in 1..Len(r) /\ q[j] = r[j - 1]
  BY <1>0, <1>1
<1>3. \A j \in 1..Len(q) : q[j].task = e => j = 1
  BY <1>0 DEF Apart, Repeats
<1>4. ~Waits(r, e) /\ Waits(q, e)
  BY <1>0, <1>1, <1>3 DEF Waits
<1>5. ASSUME NEW f \in EveryTask \ {e} PROVE Waits(r, f) <=> Waits(q, f)
  <2>1. ASSUME NEW i \in 1..Len(q), q[i].task = f PROVE Waits(r, f)
    BY <2>1, <1>2 DEF Waits
  <2>2. ASSUME NEW i \in 1..Len(r), r[i].task = f PROVE Waits(q, f)
    BY <2>2, <1>1 DEF Waits
  <2> QED
    BY <2>1, <2>2 DEF Waits
<1>6. ASSUME NEW f \in EveryTask \ {e} PROVE Ahead(q, e, f) <=> Waits(q, f)
  <2>1. \A j \in 1..Len(q) : q[j].task = f => 1 < j
    BY <1>0
  <2> QED
    BY <1>0, <2>1 DEF Ahead, Waits
<1>7. ASSUME NEW f \in EveryTask \ {e} PROVE ~Ahead(q, f, e)
  BY <1>0, <1>3 DEF Ahead
<1>8. ASSUME NEW f \in EveryTask \ {e}, NEW g \in EveryTask \ {e} PROVE Ahead(r, f, g) <=> Ahead(q, f, g)
  <2>1. ASSUME Ahead(r, f, g) PROVE Ahead(q, f, g)
    <3>1. PICK i, j \in 1..Len(r) : i < j /\ r[i].task = f /\ r[j].task = g
      BY <2>1 DEF Ahead
    <3>2. i + 1 < j + 1
      BY <1>0, <3>1
    <3> QED
      BY <3>1, <3>2, <1>1 DEF Ahead
  <2>2. ASSUME Ahead(q, f, g) PROVE Ahead(r, f, g)
    <3>1. PICK i, j \in 1..Len(q) : i < j /\ q[i].task = f /\ q[j].task = g
      BY <2>2 DEF Ahead
    <3>2. i # 1 /\ j # 1 /\ i - 1 < j - 1
      BY <1>0, <3>1
    <3> QED
      BY <3>1, <3>2, <1>2 DEF Ahead
  <2> QED
    BY <2>1, <2>2
<1>9. Apart(r)
  <2> SUFFICES ASSUME NEW i \in 1..Len(r), NEW j \in 1..Len(r), Repeats(r, i), r[i].task = r[j].task
               PROVE  i = j
    BY DEF Apart
  <2>1. i + 1 = j + 1
    BY <1>1 DEF Apart, Repeats
  <2> QED
    BY <1>0, <2>1
<1>10. Close(r)
  BY <1>1 DEF Close, Repeats
<1>11. Near(r)
  <2> SUFFICES ASSUME NEW i \in 1..Len(r), Repeats(r, i) PROVE r[i].due <= Delta
    BY DEF Near
  <2>1. q[i + 1].due <= 0 + Delta
    BY <1>0, <1>1 DEF Close, Repeats
  <2> QED
    BY <1>1, <2>1, SchedulerAssumption
<1> QED
  BY <1>4, <1>5, <1>6, <1>7, <1>8, <1>9, <1>10, <1>11

\* A task put back, due in a period, is behind the other ones.
LEMMA PutBack ==
  ASSUME NEW q \in Seq(Entry), NEW r \in Seq(Entry), NEW k, Inserted(q, r, k),
         NEW e \in EveryTask, r[k] = [task |-> e, due |-> Delta],
         \A j \in 1..Len(q) : j < k <=> q[j].due <= Delta,
         Near(q), Apart(q), ~Waits(q, e)
  PROVE  /\ Waits(r, e)
         /\ \A f \in EveryTask \ {e} :
              /\ Waits(r, f) <=> Waits(q, f)
              /\ Ahead(r, f, e) <=> Waits(q, f)
              /\ ~Ahead(r, e, f)
              /\ \A g \in EveryTask \ {e} : Ahead(r, f, g) <=> Ahead(q, f, g)
         /\ Apart(r) /\ Close(r)
<1>0. /\ k \in 1..Len(r) /\ Len(r) = Len(q) + 1 /\ Len(q) \in Nat
      /\ r[k].task = e /\ r[k].due = Delta
  BY DEF Inserted
<1>1. \A j \in 1..Len(q) : Repeats(q, j) => j < k /\ j \in 1..Len(r) /\ r[j] = q[j] /\ q[j].task # e
  BY <1>0 DEF Near, Inserted, Waits
<1>2. \A j \in 1..Len(r) : Repeats(r, j) /\ j # k => j < k /\ j \in 1..Len(q) /\ r[j] = q[j] /\ Repeats(q, j)
  <2> SUFFICES ASSUME NEW j \in 1..Len(r), Repeats(r, j), j # k
               PROVE  j < k /\ j \in 1..Len(q) /\ r[j] = q[j] /\ Repeats(q, j)
    OBVIOUS
  <2>1. CASE j < k
    BY <1>0, <2>1 DEF Inserted, Repeats
  <2>2. CASE j > k
    <3>1. j - 1 \in 1..Len(q) /\ j - 1 >= k /\ (j - 1) + 1 = j
      BY <1>0, <2>2
    <3>2. r[j] = q[j - 1]
      BY <3>1 DEF Inserted
    <3>3. j - 1 < k
      BY <1>1, <3>1, <3>2 DEF Repeats
    <3> QED
      BY <3>1, <3>3, <1>0
  <2> QED
    BY <1>0, <2>1, <2>2
<1>3. Waits(r, e)
  BY <1>0 DEF Waits
<1>4. \A f \in EveryTask \ {e} : Waits(r, f) <=> Waits(q, f)
  BY <1>0, <1>1, <1>2 DEF Waits, Repeats
<1>5. ASSUME NEW f \in EveryTask \ {e} PROVE Ahead(r, f, e) <=> Waits(q, f)
  <2>1. ASSUME Ahead(r, f, e) PROVE Waits(q, f)
    BY <1>0, <1>2, <2>1 DEF Ahead, Waits, Repeats
  <2>2. ASSUME Waits(q, f) PROVE Ahead(r, f, e)
    BY <1>0, <1>1, <2>2 DEF Ahead, Waits, Repeats
  <2> QED
    BY <2>1, <2>2
<1>6. ASSUME NEW f \in EveryTask \ {e} PROVE ~Ahead(r, e, f)
  <2> SUFFICES ASSUME NEW i \in 1..Len(r), NEW j \in 1..Len(r), i < j, r[i].task = e, r[j].task = f PROVE FALSE
    BY DEF Ahead
  <2>1. Repeats(r, i) /\ Repeats(r, j) /\ j # k
    BY <1>0 DEF Repeats
  <2>2. i = k
    BY <2>1, <1>2, <1>1
  <2>3. j < k
    BY <2>1, <1>2
  <2> QED
    BY <1>0, <2>2, <2>3
<1>7. ASSUME NEW f \in EveryTask \ {e}, NEW g \in EveryTask \ {e} PROVE Ahead(r, f, g) <=> Ahead(q, f, g)
  BY <1>0, <1>1, <1>2 DEF Ahead, Repeats
<1>8. Apart(r)
  <2> SUFFICES ASSUME NEW i \in 1..Len(r), NEW j \in 1..Len(r), Repeats(r, i), r[i].task = r[j].task
               PROVE  i = j
    BY DEF Apart
  <2>0. Repeats(r, j)
    BY DEF Repeats
  <2>1. CASE i # k /\ j # k
    <3>1. i \in 1..Len(q) /\ j \in 1..Len(q) /\ r[i] = q[i] /\ r[j] = q[j] /\ Repeats(q, i)
      BY <1>2, <2>0, <2>1
    <3> QED
      BY <3>1 DEF Apart
  <2>2. CASE i = k
    BY <1>0, <1>1, <1>2, <2>0, <2>2
  <2>3. CASE j = k
    BY <1>0, <1>1, <1>2, <2>0, <2>3
  <2> QED
    BY <2>1, <2>2, <2>3
<1>9. Close(r)
  <2> SUFFICES ASSUME NEW i \in 1..Len(r), NEW j \in 1..Len(r), Repeats(r, i), Repeats(r, j)
               PROVE  r[j].due <= r[i].due + Delta
    BY DEF Close
  <2>1. r[i].due \in Nat /\ r[j].due \in Nat /\ Delta \in Nat
    BY EntryIs, SchedulerAssumption
  <2>2. r[j].due <= Delta
    BY <1>0, <1>2, <2>1 DEF Near
  <2> QED
    BY <2>1, <2>2
<1> QED
  BY <1>3, <1>4, <1>5, <1>6, <1>7, <1>8, <1>9

\* Time passes: the same tasks, each less due or due already.
LEMMA LessIs == \A m, n \in Nat : Less(n) \in Nat /\ Less(n) <= n /\ (m <= n => Less(m) <= Less(n))
                               /\ (n <= m + Delta => Less(n) <= Less(m) + Delta)
BY SchedulerAssumption DEF Less

LEMMA Passes ==
  ASSUME NEW q \in Seq(Entry), NEW r,
         r = [i \in DOMAIN q |-> [task |-> q[i].task, due |-> Less(q[i].due)]]
  PROVE  /\ r \in Seq(Entry) /\ Len(r) = Len(q)
         /\ \A i \in 1..Len(q) : r[i].task = q[i].task /\ r[i].due = Less(q[i].due)
         /\ Sorted(q) => Sorted(r)
         /\ \A e : Waits(q, e) <=> Waits(r, e)
         /\ \A e, f : Ahead(q, e, f) <=> Ahead(r, e, f)
         /\ Apart(q) => Apart(r)
         /\ Close(q) => Close(r)
         /\ Near(q) => Near(r)
<1>0. \A i \in 1..Len(q) : q[i] \in Entry /\ q[i].due \in Nat /\ Less(q[i].due) \in Nat
  BY EntryIs, LessIs
<1>1. \A i \in 1..Len(q) : r[i].task = q[i].task /\ r[i].due = Less(q[i].due) /\ r[i] \in Entry
  BY <1>0 DEF Entry
<1>2. r \in Seq(Entry) /\ Len(r) = Len(q)
  <2>0. DOMAIN q = 1..Len(q) /\ Len(q) \in Nat
    OBVIOUS
  <2>1. r \in [1..Len(q) -> Entry]
    BY <1>1, <2>0
  <2> QED
    BY <2>1
<1>3. Sorted(q) => Sorted(r)
  <2> SUFFICES ASSUME Sorted(q), NEW i \in 1..Len(r), NEW j \in 1..Len(r), i < j PROVE r[i].due <= r[j].due
    BY DEF Sorted
  <2>1. q[i].due <= q[j].due
    BY <1>2 DEF Sorted
  <2>2. Less(q[i].due) <= Less(q[j].due)
    BY <1>0, <1>2, <2>1, LessIs
  <2> QED
    BY <1>1, <1>2, <2>2
<1>4. \A e : Waits(q, e) <=> Waits(r, e)
  BY <1>1, <1>2 DEF Waits
<1>5. \A e, f : Ahead(q, e, f) <=> Ahead(r, e, f)
  BY <1>1, <1>2 DEF Ahead
<1>6. Apart(q) => Apart(r)
  BY <1>1, <1>2 DEF Apart, Repeats
<1>7. Close(q) => Close(r)
  <2> SUFFICES ASSUME Close(q), NEW i \in 1..Len(r), NEW j \in 1..Len(r), Repeats(r, i), Repeats(r, j)
               PROVE  r[j].due <= r[i].due + Delta
    BY DEF Close
  <2>1. q[j].due <= q[i].due + Delta
    BY <1>1, <1>2 DEF Close, Repeats
  <2>2. Less(q[j].due) <= Less(q[i].due) + Delta
    BY <1>0, <1>2, <2>1, LessIs
  <2> QED
    BY <1>1, <1>2, <2>2
<1>8. Near(q) => Near(r)
  <2> SUFFICES ASSUME Near(q), NEW i \in 1..Len(r), Repeats(r, i) PROVE r[i].due <= Delta
    BY DEF Near
  <2>1. q[i].due <= Delta /\ Less(q[i].due) <= q[i].due
    BY <1>0, <1>1, <1>2, LessIs DEF Near, Repeats
  <2> QED
    BY <1>0, <1>1, <1>2, <2>1, SchedulerAssumption
<1> QED
  BY <1>1, <1>2, <1>3, <1>4, <1>5, <1>6, <1>7, <1>8

-------------------------------------------------------------------------------
(* What holds with any number of threads.                                  *)

QueueInv ==
  /\ taskQueue \in Seq(Entry) /\ Sorted(taskQueue)
  /\ DOMAIN at = Actor /\ DOMAIN doing = Actor /\ wait \in [Thread -> Nat]
  /\ m_callbacks_pending \in Seq(Callback) /\ throws \in Nat
  /\ \A t \in Thread : /\ doing[t] \in EveryTask => at[t] = "running"
                       /\ at[t] = "timeout" => wait[t] = 0

\* An actor moves, and one that waits may be woken.
Moved(a, pc) ==
  /\ DOMAIN at' = Actor /\ wait' \in [Thread -> Nat] /\ at'[a] = pc
  /\ \A b \in Actor \ {a} :
       \/ at'[b] = at[b] /\ (b \in Thread => wait'[b] = wait[b])
       \/ b \in Waiting /\ at'[b] = "check"

LEMMA MovesTo ==
  ASSUME QueueInv, NEW a \in Actor, NEW pc, (Move(a, pc) /\ UNCHANGED wait) \/ MoveAndNotify(a, pc)
  PROVE  Moved(a, pc)
<1>0. DOMAIN at = Actor /\ wait \in [Thread -> Nat] /\ Thread \subseteq Actor
  BY DEF QueueInv, Actor, Runner
<1>1. CASE at' = [at EXCEPT ![a] = pc] /\ UNCHANGED wait
  BY <1>0, <1>1 DEF Moved
<1>2. ASSUME NEW t \in Waiting \ {a}, at' = [at EXCEPT ![a] = pc, ![t] = "check"],
             wait' = [wait EXCEPT ![t] = 0]
      PROVE  Moved(a, pc)
  <2>1. t \in Thread /\ t \in Actor /\ t # a
    BY <1>0 DEF Waiting
  <2>2. DOMAIN at' = Actor /\ \A b \in Actor : at'[b] = IF b = t THEN "check" ELSE IF b = a THEN pc ELSE at[b]
    BY <1>0, <1>2, <2>1
  <2>3. wait' \in [Thread -> Nat] /\ \A b \in Thread : b # t => wait'[b] = wait[b]
    BY <1>0, <1>2, <2>1
  <2> QED
    BY <2>1, <2>2, <2>3 DEF Moved
<1> QED
  BY <1>1, <1>2 DEF Move, MoveAndNotify

\* Insert puts the entry behind those that are due no later.
LEMMA InsertIs ==
  ASSUME QueueInv, NEW task, NEW due, [task |-> task, due |-> due] \in Entry, Insert(task, due)
  PROVE  /\ taskQueue' \in Seq(Entry) /\ Sorted(taskQueue')
         /\ \E k : /\ Inserted(taskQueue, taskQueue', k) /\ taskQueue'[k] = [task |-> task, due |-> due]
                   /\ \A j \in 1..Len(taskQueue) : j < k <=> taskQueue[j].due <= due
<1> DEFINE e == [task |-> task, due |-> due]
<1>1. PICK k \in 1..Len(taskQueue) + 1 :
        /\ \A j \in DOMAIN taskQueue : j < k <=> taskQueue[j].due <= due
        /\ taskQueue' = InsertAt(taskQueue, k, e)
  BY DEF Insert
<1>2. /\ taskQueue \in Seq(Entry) /\ DOMAIN taskQueue = 1..Len(taskQueue) /\ Len(taskQueue) \in Nat
      /\ Sorted(taskQueue) /\ due \in Nat /\ e \in Entry /\ e.due = due
  BY DEF QueueInv, Entry
<1> HIDE DEF e
<1>3. taskQueue' \in Seq(Entry) /\ taskQueue'[k] = e /\ Inserted(taskQueue, taskQueue', k)
  BY <1>1, <1>2, InsertAtIs
<1>4. \A j \in 1..Len(taskQueue) : j < k <=> taskQueue[j].due <= due
  BY <1>1, <1>2
<1>5. Sorted(taskQueue')
  <2> SUFFICES ASSUME NEW i \in 1..Len(taskQueue'), NEW j \in 1..Len(taskQueue'), i < j
               PROVE  taskQueue'[i].due <= taskQueue'[j].due
    BY DEF Sorted
  <2>0. \A n \in 1..Len(taskQueue) : taskQueue[n].due \in Nat
    <3>1. \A n \in 1..Len(taskQueue) : taskQueue[n] \in Entry
      BY <1>2
    <3> QED
      BY <3>1 DEF Entry
  <2>1. \A n \in 1..Len(taskQueue') : n < k => n \in 1..Len(taskQueue) /\ taskQueue'[n] = taskQueue[n]
    BY <1>2, <1>3 DEF Inserted
  <2>2. \A n \in 1..Len(taskQueue') : n > k =>
          n - 1 \in 1..Len(taskQueue) /\ n - 1 >= k /\ taskQueue'[n] = taskQueue[n - 1]
    <3> SUFFICES ASSUME NEW n \in 1..Len(taskQueue'), n > k
                 PROVE  n - 1 \in 1..Len(taskQueue) /\ n - 1 >= k /\ taskQueue'[n] = taskQueue[n - 1]
      OBVIOUS
    <3>1. n - 1 \in 1..Len(taskQueue) /\ n - 1 >= k /\ (n - 1) + 1 = n
      BY <1>2, <1>3 DEF Inserted
    <3> QED
      BY <1>3, <3>1 DEF Inserted
  <2>3. CASE j < k
    BY <1>2, <2>1, <2>3 DEF Sorted
  <2>4. CASE j = k
    BY <1>2, <1>3, <1>4, <2>1, <2>4
  <2>5. CASE i = k
    <3>1. j - 1 \in 1..Len(taskQueue) /\ ~(j - 1 < k) /\ taskQueue'[j] = taskQueue[j - 1]
      BY <2>2, <2>5
    <3>2. ~(taskQueue[j - 1].due <= due) /\ taskQueue[j - 1].due \in Nat
      BY <1>4, <2>0, <3>1
    <3> QED
      BY <1>2, <1>3, <2>5, <3>1, <3>2
  <2>6. CASE i < k /\ j > k
    <3>1. j - 1 \in 1..Len(taskQueue) /\ i < j - 1 /\ taskQueue'[j] = taskQueue[j - 1]
      BY <2>2, <2>6
    <3>2. i \in 1..Len(taskQueue) /\ taskQueue'[i] = taskQueue[i]
      BY <2>1, <2>6
    <3> QED
      BY <1>2, <3>1, <3>2 DEF Sorted
  <2>7. CASE i > k
    <3>1. i - 1 \in 1..Len(taskQueue) /\ taskQueue'[i] = taskQueue[i - 1]
      BY <2>2, <2>7
    <3>2. j - 1 \in 1..Len(taskQueue) /\ i - 1 < j - 1 /\ taskQueue'[j] = taskQueue[j - 1]
      BY <2>2, <2>7
    <3> QED
      BY <1>2, <3>1, <3>2 DEF Sorted
  <2>8. k \in Nat /\ i \in Nat /\ j \in Nat
    BY <1>1
  <2> QED
    BY <2>3, <2>4, <2>5, <2>6, <2>7, <2>8
<1> QED
  BY <1>3, <1>4, <1>5 DEF e

\* What a step does to the queue.
Inserts(task, due) ==
  /\ taskQueue' \in Seq(Entry) /\ Sorted(taskQueue')
  /\ \E k : /\ Inserted(taskQueue, taskQueue', k) /\ taskQueue'[k] = [task |-> task, due |-> due]
            /\ \A j \in 1..Len(taskQueue) : j < k <=> taskQueue[j].due <= due
Takes == taskQueue # <<>> /\ taskQueue' = Tail(taskQueue)

LEMMA TakesIs ==
  ASSUME QueueInv, Takes
  PROVE  /\ taskQueue' \in Seq(Entry) /\ Sorted(taskQueue') /\ Inserted(taskQueue', taskQueue, 1)
         /\ taskQueue[1] = Head(taskQueue) /\ taskQueue[1] \in Entry
<1>1. taskQueue \in Seq(Entry) /\ Sorted(taskQueue) /\ Len(taskQueue) \in Nat \ {0}
  BY DEF QueueInv, Takes
<1>2. /\ taskQueue' \in Seq(Entry) /\ Len(taskQueue') = Len(taskQueue) - 1
      /\ \A j \in 1..Len(taskQueue') : taskQueue'[j] = taskQueue[j + 1]
  BY <1>1 DEF Takes
<1>3. Sorted(taskQueue')
  BY <1>1, <1>2 DEF Sorted
<1>4. Inserted(taskQueue', taskQueue, 1)
  BY <1>1, <1>2 DEF Inserted
<1> QED
  BY <1>1, <1>2, <1>3, <1>4

-------------------------------------------------------------------------------
(* The kinds of steps.                                                     *)

\* Nobody but a changes what it does.
DoingOf(a) == DOMAIN doing' = Actor /\ \A b \in Actor \ {a} : doing'[b] = doing[b]

\* a neither begins nor ends a repeated task, nor does it set a timer.
Rests(a, pc) ==
  /\ Moved(a, pc) /\ DoingOf(a) /\ at[a] # "unused" /\ pc \notin {"unused", "timed", "timeout"}
  /\ a \in Thread => doing[a] \notin EveryTask /\ doing'[a] \notin EveryTask
  /\ throws' \in Nat /\ throws <= throws'
  /\ at[a] = "timeout" /\ pc \in {"running", "process"} => taskQueue # <<>>
  /\ \/ taskQueue' = taskQueue \/ Inserts("ProcessQueue", 0)
     \/ a \in Thread /\ at[a] = "timeout" /\ Takes /\ ~Repeats(taskQueue, 1)
SetsTimer(t) ==
  /\ at[t] \in {"loop", "check"} /\ at' = [at EXCEPT ![t] = "timed"]
  /\ taskQueue # <<>> /\ wait' = [wait EXCEPT ![t] = Head(taskQueue).due]
  /\ UNCHANGED <<taskQueue, doing, throws>>
TimesOut(t) ==
  /\ at[t] = "timed" /\ wait[t] = 0 /\ at' = [at EXCEPT ![t] = "timeout"]
  /\ UNCHANGED <<taskQueue, doing, wait, throws>>
BeginsTask(t) ==
  /\ at[t] = "timeout" /\ Moved(t, "running") /\ DoingOf(t) /\ Takes /\ Repeats(taskQueue, 1)
  /\ doing'[t] = taskQueue[1].task /\ UNCHANGED throws
EndsTask(t) ==
  /\ at[t] = "running" /\ Moved(t, "loop") /\ DoingOf(t) /\ doing[t] \in EveryTask /\ doing'[t] = Nothing
  /\ Inserts(doing[t], Delta) /\ UNCHANGED throws
Throws(t) ==
  /\ at[t] = "running" /\ Moved(t, "left") /\ DoingOf(t) /\ doing'[t] = Nothing
  /\ throws' \in Nat /\ throws' > throws /\ UNCHANGED taskQueue
Wakes ==
  /\ at' = [a \in Actor |-> IF a \in Waiting THEN "check" ELSE at[a]] /\ wait' = [t \in Thread |-> 0]
  /\ UNCHANGED <<taskQueue, doing, throws>>

StepKind ==
  \/ \E a \in Actor, pc \in {"loop", "check", "seeding", "waiting", "running", "process", "callback",
                             "maybe", "schedule", "added", "left"} : Rests(a, pc)
  \/ \E t \in Thread : SetsTimer(t) \/ TimesOut(t) \/ BeginsTask(t) \/ EndsTask(t) \/ Throws(t)
  \/ Wakes \/ (Tick /\ UNCHANGED throws)
  \/ UNCHANGED <<taskQueue, at, doing, wait, throws>>

LEMMA ServiceKinds ==
  ASSUME QueueInv, NEW t \in Thread, ServiceQueue(t) \/ Spurious(t) \/ TaskThrows(t)
  PROVE  StepKind /\ UNCHANGED m_callbacks_pending
<1>0. /\ t \in Actor /\ DOMAIN at = Actor /\ DOMAIN doing = Actor /\ wait \in [Thread -> Nat] /\ throws \in Nat
      /\ (doing[t] \in EveryTask => at[t] = "running") /\ Thread \subseteq Actor
  BY DEF QueueInv, Actor, Runner
<1>1. UNCHANGED m_callbacks_pending
  BY DEF ServiceQueue, LookAtQueue, Seeded, Timeout, TakeTask, TaskEnds, Spurious, TaskThrows, clientVars
<1>2. CASE LookAtQueue(t)
  <2>0. at[t] \in {"loop", "check"} /\ UNCHANGED <<taskQueue, doing, throws>>
    BY <1>2 DEF LookAtQueue
  <2>1. CASE SetsTimer(t)
    BY <1>1, <2>1 DEF StepKind
  <2>2. CASE ~SetsTimer(t)
    <3>1. \E pc \in {"left", "seeding", "waiting"} : (Move(t, pc) /\ UNCHANGED wait) \/ MoveAndNotify(t, pc)
      BY <1>2, <2>0, <2>2 DEF LookAtQueue, SetsTimer, Move
    <3>2. \E pc \in {"left", "seeding", "waiting"} : Rests(t, pc)
      BY <1>0, <2>0, <3>1, MovesTo DEF Rests, DoingOf
    <3> QED
      BY <1>0, <1>1, <3>2 DEF StepKind
  <2> QED
    BY <2>1, <2>2
<1>3. CASE Seeded(t)
  <2>1. Rests(t, "check")
    BY <1>0, <1>3, MovesTo DEF Seeded, Rests, DoingOf
  <2> QED
    BY <1>0, <1>1, <2>1 DEF StepKind
<1>4. CASE Timeout(t)
  BY <1>1, <1>4 DEF Timeout, TimesOut, StepKind, Move
<1>5. CASE Spurious(t)
  <2>1. at[t] \in {"waiting", "timed"} /\ at' = [at EXCEPT ![t] = "check"] /\ wait' = [wait EXCEPT ![t] = 0]
        /\ UNCHANGED <<taskQueue, doing, throws>>
    BY <1>5 DEF Spurious, Move, Waiting
  <2>2. Moved(t, "check")
    BY <1>0, <2>1 DEF Moved
  <2>3. Rests(t, "check")
    BY <1>0, <2>1, <2>2 DEF Rests, DoingOf
  <2> QED
    BY <1>0, <1>1, <2>3 DEF StepKind
<1>6. CASE TakeTask(t)
  <2>0. at[t] = "timeout" /\ UNCHANGED wait /\ UNCHANGED throws
    BY <1>6 DEF TakeTask
  <2>1. CASE ShouldStop \/ taskQueue = <<>>
    <3>1. Rests(t, "loop")
      BY <1>0, <1>6, <2>0, <2>1, MovesTo DEF TakeTask, Rests, DoingOf
    <3> QED
      BY <1>0, <1>1, <3>1 DEF StepKind
  <2>2. CASE ~(ShouldStop \/ taskQueue = <<>>)
    <3> DEFINE f == Head(taskQueue).task
    <3>1. Takes /\ f = taskQueue[1].task
      BY <1>6, <2>2, TakesIs DEF TakeTask, Takes
    <3>2. CASE f = "ProcessQueue"
      <4>1. ~Repeats(taskQueue, 1) /\ UNCHANGED doing /\ Move(t, "process")
        BY <1>6, <2>2, <3>1, <3>2, SchedulerAssumption DEF TakeTask, Repeats
      <4>2. Rests(t, "process")
        BY <1>0, <2>0, <3>1, <4>1, MovesTo DEF Rests, DoingOf, Takes
      <4> QED
        BY <1>0, <1>1, <4>2 DEF StepKind
    <3>3. CASE f # "ProcessQueue"
      <4>1. doing' = [doing EXCEPT ![t] = f] /\ Move(t, "running")
        BY <1>6, <2>2, <3>3 DEF TakeTask
      <4>2. Moved(t, "running") /\ DoingOf(t) /\ doing'[t] = f
        BY <1>0, <2>0, <4>1, MovesTo DEF DoingOf
      <4>3. CASE Repeats(taskQueue, 1)
        BY <1>1, <2>0, <3>1, <4>2, <4>3 DEF BeginsTask, StepKind
      <4>4. CASE ~Repeats(taskQueue, 1)
        <5>1. Rests(t, "running")
          BY <1>0, <2>0, <3>1, <4>2, <4>4 DEF Rests, Repeats, Takes
        <5> QED
          BY <1>0, <1>1, <5>1 DEF StepKind
      <4> QED
        BY <4>3, <4>4
    <3> QED
      BY <3>2, <3>3
  <2> QED
    BY <2>1, <2>2
<1>7. CASE TaskEnds(t)
  <2>0. at[t] = "running" /\ doing' = [doing EXCEPT ![t] = Nothing] /\ UNCHANGED throws
    BY <1>7 DEF TaskEnds
  <2>1. DoingOf(t) /\ doing'[t] = Nothing
    BY <1>0, <2>0 DEF DoingOf
  <2>2. CASE doing[t] \in EveryTask
    <3>1. Insert(doing[t], Delta) /\ MoveAndNotify(t, "loop")
      BY <1>7, <2>2 DEF TaskEnds
    <3>2. [task |-> doing[t], due |-> Delta] \in Entry
      BY <2>2, SchedulerAssumption DEF Entry
    <3>3. Inserts(doing[t], Delta)
      BY <3>1, <3>2, InsertIs DEF Inserts
    <3>4. EndsTask(t)
      BY <1>0, <2>0, <2>1, <2>2, <3>1, <3>3, MovesTo DEF EndsTask
    <3> QED
      BY <1>1, <3>4 DEF StepKind
  <2>3. CASE doing[t] \notin EveryTask
    <3>1. Move(t, "loop") /\ UNCHANGED <<taskQueue, wait>>
      BY <1>7, <2>3 DEF TaskEnds
    <3>2. Nothing \notin EveryTask
      BY SchedulerAssumption
    <3>3. Rests(t, "loop")
      BY <1>0, <2>0, <2>1, <2>3, <3>1, <3>2, MovesTo DEF Rests
    <3> QED
      BY <1>0, <1>1, <3>3 DEF StepKind
  <2> QED
    BY <2>2, <2>3
<1>8. CASE TaskThrows(t)
  <2>1. /\ at[t] = "running" /\ throws' = throws + 1 /\ Move(t, "left") /\ doing' = [doing EXCEPT ![t] = Nothing]
        /\ UNCHANGED <<taskQueue, wait>>
    BY <1>8 DEF TaskThrows
  <2>2. Throws(t)
    BY <1>0, <2>1, MovesTo DEF Throws, DoingOf
  <2> QED
    BY <1>1, <2>2 DEF StepKind
<1> QED
  BY <1>2, <1>3, <1>4, <1>5, <1>6, <1>7, <1>8 DEF ServiceQueue

LEMMA AfterMoves ==
  ASSUME NEW a \in Actor
  PROVE  After(a) \in {"added", "left", "loop"}
BY DEF After

\* Callbacks are no repeated tasks.
LEMMA ClientKinds ==
  ASSUME QueueInv, NEW a \in Actor, Client(a)
  PROVE  StepKind /\ m_callbacks_pending' \in Seq(Callback)
<1>0. /\ DOMAIN at = Actor /\ DOMAIN doing = Actor /\ wait \in [Thread -> Nat] /\ throws \in Nat
      /\ (a \in Thread /\ doing[a] \in EveryTask => at[a] = "running") /\ m_callbacks_pending \in Seq(Callback)
      /\ Thread \subseteq Actor
  BY DEF QueueInv, Actor, Runner
<1>1. CASE MaybeScheduleProcessQueue(a)
  <2>1. \E pc \in {"schedule", "added", "left", "loop"} : Move(a, pc)
    BY <1>1, AfterMoves DEF MaybeScheduleProcessQueue, Returns
  <2>2. at[a] = "maybe" /\ UNCHANGED <<taskQueue, doing, wait, throws, m_callbacks_pending>>
    BY <1>1 DEF MaybeScheduleProcessQueue, clientVars
  <2>3. \E pc \in {"schedule", "added", "left", "loop"} : Rests(a, pc)
    BY <1>0, <2>1, <2>2, MovesTo DEF Rests, DoingOf
  <2> QED
    BY <1>0, <2>2, <2>3 DEF StepKind
<1>2. CASE ScheduleProcessQueue(a)
  <2>1. \E pc \in {"added", "left", "loop"} : MoveAndNotify(a, pc)
    BY <1>2, AfterMoves DEF ScheduleProcessQueue
  <2>2. at[a] = "schedule" /\ UNCHANGED <<doing, throws, m_callbacks_pending>>
    BY <1>2 DEF ScheduleProcessQueue, clientVars
  <2>3. [task |-> "ProcessQueue", due |-> 0] \in Entry
    BY DEF Entry
  <2>4. Inserts("ProcessQueue", 0)
    BY <1>2, <2>3, InsertIs DEF ScheduleProcessQueue, Inserts
  <2>5. \E pc \in {"added", "left", "loop"} : Rests(a, pc)
    BY <1>0, <2>1, <2>2, <2>4, MovesTo DEF Rests, DoingOf
  <2> QED
    BY <1>0, <2>2, <2>5 DEF StepKind
<1>3. CASE ProcessQueue(a)
  <2>0. at[a] = "process" /\ UNCHANGED <<taskQueue, wait, throws>>
    BY <1>3 DEF ProcessQueue
  <2>1. CASE m_are_callbacks_running \/ m_callbacks_pending = <<>>
    <3>1. UNCHANGED <<doing, m_callbacks_pending>> /\ \E pc \in {"added", "left", "loop"} : Move(a, pc)
      BY <1>3, <2>1, AfterMoves DEF ProcessQueue, Returns, clientVars
    <3>2. \E pc \in {"added", "left", "loop"} : Rests(a, pc)
      BY <1>0, <2>0, <3>1, MovesTo DEF Rests, DoingOf
    <3> QED
      BY <1>0, <3>1, <3>2 DEF StepKind
  <2>2. CASE ~(m_are_callbacks_running \/ m_callbacks_pending = <<>>)
    <3>1. /\ Move(a, "callback") /\ doing' = [doing EXCEPT ![a] = Head(m_callbacks_pending)]
          /\ m_callbacks_pending' = Tail(m_callbacks_pending)
      BY <1>3, <2>2 DEF ProcessQueue
    <3>2. Head(m_callbacks_pending) \in Callback /\ m_callbacks_pending' \in Seq(Callback)
      BY <1>0, <2>2, <3>1
    <3>3. Head(m_callbacks_pending) \notin EveryTask
      BY <3>2, SchedulerAssumption
    <3>4. Rests(a, "callback")
      BY <1>0, <2>0, <3>1, <3>3, MovesTo DEF Rests, DoingOf
    <3> QED
      BY <1>0, <3>2, <3>4 DEF StepKind
  <2> QED
    BY <2>1, <2>2
<1>4. CASE CallbackEnds(a)
  <2>1. /\ at[a] = "callback" /\ Move(a, "maybe") /\ UNCHANGED <<taskQueue, wait, m_callbacks_pending>>
        /\ throws' \in Nat /\ throws <= throws'
        /\ \E x \in {Nothing, Exception} : doing' = [doing EXCEPT ![a] = x]
    BY <1>0, <1>4 DEF CallbackEnds
  <2>2. {Nothing, Exception} \cap EveryTask = {}
    BY SchedulerAssumption
  <2>3. Rests(a, "maybe")
    BY <1>0, <2>1, <2>2, MovesTo DEF Rests, DoingOf
  <2> QED
    BY <1>0, <2>1, <2>3 DEF StepKind
<1> QED
  BY <1>1, <1>2, <1>3, <1>4 DEF Client

LEMMA StepKinds ==
  ASSUME QueueInv, [SchedulerNext]_schedulerVars
  PROVE  StepKind /\ m_callbacks_pending' \in Seq(Callback)
<1>0. /\ DOMAIN at = Actor /\ DOMAIN doing = Actor /\ wait \in [Thread -> Nat] /\ throws \in Nat
      /\ m_callbacks_pending \in Seq(Callback)
  BY DEF QueueInv
<1>1. CASE Tick
  BY <1>0, <1>1 DEF Tick, StepKind, clientVars
<1>2. CASE EmptyQueue
  <2>1. /\ \E pc \in {"process", "left"} : Move(Main, pc)
        /\ at[Main] \in {"idle", "loop"} /\ Main \in Actor /\ Main \notin Thread
        /\ UNCHANGED <<taskQueue, doing, wait, throws, m_callbacks_pending>>
    BY <1>2, SchedulerAssumption DEF EmptyQueue, clientVars, Runner, Actor
  <2>2. \E pc \in {"process", "left"} : Rests(Main, pc)
    BY <1>0, <2>1, MovesTo DEF Rests, DoingOf
  <2> QED
    BY <1>0, <2>1, <2>2 DEF StepKind
<1>3. ASSUME NEW t \in Thread, ServiceQueue(t) \/ Spurious(t) \/ TaskThrows(t)
      PROVE  StepKind /\ m_callbacks_pending' \in Seq(Callback)
  BY <1>0, <1>3, ServiceKinds
<1>4. ASSUME NEW c \in Callback, AddToProcessQueue(c) PROVE StepKind /\ m_callbacks_pending' \in Seq(Callback)
  <2>1. /\ Move(c, "maybe") /\ at[c] = "idle" /\ c \in Actor /\ UNCHANGED <<taskQueue, doing, wait, throws>>
        /\ m_callbacks_pending' = Append(m_callbacks_pending, c) /\ c \notin Thread
    BY <1>4, SchedulerAssumption DEF AddToProcessQueue, Actor
  <2>2. Rests(c, "maybe")
    BY <1>0, <2>1, MovesTo DEF Rests, DoingOf
  <2> QED
    BY <1>0, <1>4, <2>1, <2>2 DEF StepKind
<1>5. ASSUME NEW a \in Actor, Client(a) PROVE StepKind /\ m_callbacks_pending' \in Seq(Callback)
  BY <1>5, ClientKinds
<1>6. ASSUME NEW drain \in BOOLEAN, Stop(drain) PROVE StepKind /\ m_callbacks_pending' \in Seq(Callback)
  BY <1>0, <1>6 DEF Stop, clientVars, Wakes, StepKind
<1>7. CASE UNCHANGED schedulerVars
  BY <1>0, <1>7 DEF schedulerVars, clientVars, StepKind
<1> QED
  BY <1>1, <1>2, <1>3, <1>4, <1>5, <1>6, <1>7 DEF SchedulerNext

-------------------------------------------------------------------------------
(* The invariant, and what one thread keeps.                               *)

\* What QueueInv says of the actors.
Placed ==
  /\ DOMAIN at = Actor /\ DOMAIN doing = Actor /\ wait \in [Thread -> Nat] /\ throws \in Nat
  /\ \A t \in Thread : /\ doing[t] \in EveryTask => at[t] = "running"
                       /\ at[t] = "timeout" => wait[t] = 0

LEMMA MovedPlaced ==
  ASSUME QueueInv, NEW a \in Actor, NEW pc, Moved(a, pc), DoingOf(a), throws' \in Nat, pc # "timeout",
         a \in Thread /\ doing'[a] \in EveryTask => pc = "running"
  PROVE  Placed'
<1>1. ASSUME NEW t \in Thread PROVE (doing'[t] \in EveryTask => at'[t] = "running") /\ (at'[t] = "timeout" => wait'[t] = 0)
  <2>0. t \in Actor
    BY DEF Actor, Runner
  <2>1. CASE t = a
    BY <2>0, <2>1 DEF Moved
  <2>2. CASE t # a
    <3>1. doing'[t] = doing[t] /\ ((at'[t] = at[t] /\ wait'[t] = wait[t]) \/ (t \in Waiting /\ at'[t] = "check"))
      BY <2>0, <2>2 DEF Moved, DoingOf
    <3> QED
      BY <3>1 DEF QueueInv, Waiting
  <2> QED
    BY <2>1, <2>2
<1> QED
  BY <1>1 DEF Placed, Moved, DoingOf

LEMMA QueueInvKept ==
  ASSUME QueueInv, StepKind, m_callbacks_pending' \in Seq(Callback)
  PROVE  QueueInv'
<1> USE DEF QueueInv
<1>0. /\ taskQueue \in Seq(Entry) /\ Sorted(taskQueue) /\ DOMAIN at = Actor /\ DOMAIN doing = Actor
      /\ wait \in [Thread -> Nat] /\ Thread \subseteq Actor /\ throws \in Nat
  BY DEF Actor, Runner
<1>1. taskQueue' \in Seq(Entry) /\ Sorted(taskQueue')
  <2>1. CASE Tick
    BY <1>0, <2>1, Passes DEF Tick
  <2>2. CASE taskQueue' = taskQueue
    BY <1>0, <2>2
  <2>3. CASE Takes \/ \E task, due : Inserts(task, due)
    BY <2>3, TakesIs DEF Inserts
  <2> QED
    BY <2>1, <2>2, <2>3 DEF StepKind, Rests, SetsTimer, TimesOut, BeginsTask, EndsTask, Throws, Wakes
<1>2. Placed'
  <2>1. ASSUME NEW a \in Actor,
               NEW pc \in {"loop", "check", "seeding", "waiting", "running", "process", "callback",
                           "maybe", "schedule", "added", "left"}, Rests(a, pc)
        PROVE  Placed'
    BY <2>1, MovedPlaced DEF Rests
  <2>2. ASSUME NEW t \in Thread, BeginsTask(t) \/ EndsTask(t) \/ Throws(t) PROVE Placed'
    <3>1. Nothing \notin EveryTask
      BY SchedulerAssumption
    <3>2. throws' \in Nat /\ DoingOf(t) /\ \E pc \in {"running", "loop", "left"} :
            Moved(t, pc) /\ (doing'[t] \in EveryTask => pc = "running")
      BY <1>0, <2>2, <3>1 DEF BeginsTask, EndsTask, Throws
    <3> QED
      BY <1>0, <3>2, MovedPlaced
  <2>3. ASSUME NEW t \in Thread, SetsTimer(t) PROVE Placed'
    <3>1. taskQueue[1] \in Entry /\ Head(taskQueue) = taskQueue[1] /\ taskQueue[1].due \in Nat
      BY <1>0, <2>3, EntryIs DEF SetsTimer
    <3>2. wait' \in [Thread -> Nat] /\ \A u \in Thread : u # t => wait'[u] = wait[u]
      BY <1>0, <2>3, <3>1 DEF SetsTimer
    <3>3. DOMAIN at' = Actor /\ at'[t] = "timed" /\ \A u \in Thread : u # t => at'[u] = at[u]
      BY <1>0, <2>3 DEF SetsTimer
    <3>4. doing[t] \notin EveryTask /\ UNCHANGED <<doing, throws>>
      BY <2>3 DEF SetsTimer
    <3> QED
      BY <1>0, <3>2, <3>3, <3>4 DEF Placed
  <2>4. ASSUME NEW t \in Thread, TimesOut(t) PROVE Placed'
    BY <1>0, <2>4 DEF TimesOut, Placed
  <2>5. CASE Wakes
    BY <1>0, <2>5 DEF Wakes, Placed, Waiting
  <2>6. CASE Tick /\ UNCHANGED throws
    <3>1. wait' \in [Thread -> Nat] /\ \A t \in Thread : wait[t] = 0 => wait'[t] = 0
      BY <1>0, <2>6, LessIs DEF Tick, Less
    <3> QED
      BY <1>0, <2>6, <3>1 DEF Tick, Placed
  <2>7. CASE UNCHANGED <<taskQueue, at, doing, wait, throws>>
    BY <1>0, <2>7 DEF Placed
  <2> QED
    BY <2>1, <2>2, <2>3, <2>4, <2>5, <2>6, <2>7 DEF StepKind
<1> QED
  BY <1>1, <1>2 DEF Placed

\* t services the queue, and no other thread does.
Lone(t) == {u \in Thread : at[u] # "unused"} = {t}

\* The first task is due by the time the timer of t ends.
OnTime(t) == at[t] \in {"timed", "timeout"} /\ taskQueue # <<>> => taskQueue[1].due <= wait[t]

\* A repeated task waits or runs, and does so once; while one runs, the others
\* are due within a period, so that it comes behind them.
Turns(t) ==
  /\ Apart(taskQueue) /\ Close(taskQueue)
  /\ \A e \in EveryTask : Waits(taskQueue, e) => doing[t] # e
  /\ \/ \A e \in EveryTask : Waits(taskQueue, e) \/ doing[t] = e
     \/ \A e \in EveryTask : ~Waits(taskQueue, e) /\ doing[t] # e
  /\ doing[t] \in EveryTask => Near(taskQueue)

TurnInv == QueueInv /\ \A t \in Thread : Lone(t) => OnTime(t) /\ (throws = 0 => Turns(t))

\* Whether a thread is used is settled at the start.
LEMMA UsedKept ==
  ASSUME QueueInv, StepKind, NEW u \in Thread
  PROVE  at'[u] = "unused" <=> at[u] = "unused"
<1>0. DOMAIN at = Actor /\ u \in Actor
  BY DEF QueueInv, Actor, Runner
<1>1. ASSUME NEW a \in Actor, NEW pc, Moved(a, pc), at[a] # "unused", pc # "unused"
      PROVE  at'[u] = "unused" <=> at[u] = "unused"
  BY <1>0, <1>1 DEF Moved, Waiting
<1>2. ASSUME NEW a \in Actor,
             NEW pc \in {"loop", "check", "seeding", "waiting", "running", "process", "callback",
                         "maybe", "schedule", "added", "left"}, Rests(a, pc)
      PROVE  at'[u] = "unused" <=> at[u] = "unused"
  BY <1>1, <1>2 DEF Rests
<1>3. ASSUME NEW t \in Thread, SetsTimer(t) \/ TimesOut(t) PROVE at'[u] = "unused" <=> at[u] = "unused"
  BY <1>0, <1>3 DEF SetsTimer, TimesOut
<1>4. ASSUME NEW t \in Thread, BeginsTask(t) \/ EndsTask(t) \/ Throws(t)
      PROVE  at'[u] = "unused" <=> at[u] = "unused"
  <2>1. t \in Actor
    BY DEF Actor, Runner
  <2>2. at[t] # "unused" /\ \E pc : pc # "unused" /\ Moved(t, pc)
    BY <1>4 DEF BeginsTask, EndsTask, Throws
  <2> QED
    BY <2>1, <2>2, <1>1
<1>5. CASE Wakes \/ (Tick /\ UNCHANGED throws) \/ UNCHANGED <<taskQueue, at, doing, wait, throws>>
  BY <1>0, <1>5 DEF Wakes, Tick, Waiting
<1> QED
  BY <1>2, <1>3, <1>4, <1>5 DEF StepKind

LEMMA LoneKept ==
  ASSUME QueueInv, StepKind, NEW t \in Thread
  PROVE  Lone(t)' <=> Lone(t)
<1>1. {u \in Thread : at'[u] # "unused"} = {u \in Thread : at[u] # "unused"}
  BY UsedKept
<1> QED
  BY <1>1 DEF Lone

\* Who inserts, inserts in front only what is due no later than the first.
LEMMA FirstSoon ==
  ASSUME QueueInv, NEW wake \in Nat, taskQueue # <<>> => taskQueue[1].due <= wake,
         taskQueue' = taskQueue \/ Inserts("ProcessQueue", 0)
  PROVE  taskQueue' # <<>> => taskQueue'[1].due <= wake
<1>1. CASE Inserts("ProcessQueue", 0)
  <2>1. PICK k : /\ Inserted(taskQueue, taskQueue', k)
                 /\ taskQueue'[k] = [task |-> "ProcessQueue", due |-> 0]
    BY <1>1 DEF Inserts
  <2>2. taskQueue \in Seq(Entry) /\ taskQueue' \in Seq(Entry) /\ Len(taskQueue) \in Nat
    BY <1>1 DEF QueueInv, Inserts
  <2>3. CASE k = 1
    BY <2>1, <2>3
  <2>4. CASE k # 1
    <3>1. 1 \in 1..Len(taskQueue) /\ 1 < k
      BY <2>1, <2>2, <2>4 DEF Inserted
    <3>2. taskQueue'[1] = taskQueue[1] /\ taskQueue # <<>>
      BY <2>1, <2>2, <3>1 DEF Inserted
    <3> QED
      BY <3>2
  <2> QED
    BY <2>3, <2>4
<1> QED
  BY <1>1

LEMMA OnTimeKept ==
  ASSUME TurnInv, StepKind, QueueInv', NEW t \in Thread, Lone(t)
  PROVE  OnTime(t)'
<1> SUFFICES ASSUME at'[t] \in {"timed", "timeout"}, taskQueue' # <<>>
             PROVE  taskQueue'[1].due <= wait'[t]
  BY DEF OnTime
<1>0. /\ t \in Actor /\ QueueInv /\ OnTime(t) /\ wait[t] \in Nat /\ wait'[t] \in Nat
      /\ DOMAIN at = Actor /\ DOMAIN doing = Actor /\ wait \in [Thread -> Nat] /\ taskQueue \in Seq(Entry)
      /\ \A u \in Thread : u # t => at[u] = "unused"
  BY DEF TurnInv, QueueInv, Lone, Actor, Runner
<1>1. ASSUME NEW a \in Actor,
             NEW pc \in {"loop", "check", "seeding", "waiting", "running", "process", "callback",
                         "maybe", "schedule", "added", "left"}, Rests(a, pc)
      PROVE  taskQueue'[1].due <= wait'[t]
  <2>1. a # t
    BY <1>1 DEF Rests, Moved
  <2>2. at'[t] = at[t] /\ wait'[t] = wait[t]
    BY <1>0, <1>1, <2>1 DEF Rests, Moved
  <2>3. taskQueue' = taskQueue \/ Inserts("ProcessQueue", 0)
    BY <1>0, <1>1, <2>1 DEF Rests
  <2>4. taskQueue # <<>> => taskQueue[1].due <= wait[t]
    BY <1>0, <2>2 DEF OnTime
  <2> QED
    BY <1>0, <2>2, <2>3, <2>4, FirstSoon
<1>2. ASSUME NEW u \in Thread, SetsTimer(u) PROVE taskQueue'[1].due <= wait'[t]
  <2>1. u = t
    BY <1>0, <1>2 DEF SetsTimer
  <2>2. taskQueue[1] = Head(taskQueue) /\ taskQueue[1].due \in Nat
    BY <1>0, <1>2, EntryIs DEF SetsTimer
  <2>3. wait'[t] = taskQueue[1].due /\ taskQueue' = taskQueue
    BY <1>0, <1>2, <2>1, <2>2 DEF SetsTimer
  <2> QED
    BY <2>2, <2>3
<1>3. ASSUME NEW u \in Thread, TimesOut(u) PROVE taskQueue'[1].due <= wait'[t]
  <2>1. u = t
    BY <1>0, <1>3 DEF TimesOut
  <2> QED
    BY <1>0, <1>3, <2>1 DEF TimesOut, OnTime
<1>4. ASSUME NEW u \in Thread, BeginsTask(u) \/ EndsTask(u) \/ Throws(u) PROVE FALSE
  <2>1. at[u] # "unused" /\ \E pc \in {"running", "loop", "left"} : Moved(u, pc)
    BY <1>4 DEF BeginsTask, EndsTask, Throws
  <2>2. u = t
    BY <1>0, <2>1
  <2> QED
    BY <2>1, <2>2 DEF Moved
<1>5. CASE Wakes
  <2>1. at[t] = "timeout" /\ wait[t] = 0 /\ wait'[t] = 0 /\ taskQueue' = taskQueue
    BY <1>0, <1>5 DEF Wakes, Waiting, QueueInv
  <2> QED
    BY <1>0, <2>1 DEF OnTime
<1>6. CASE Tick /\ UNCHANGED throws
  <2>1. taskQueue # <<>> /\ 1 \in 1..Len(taskQueue) /\ taskQueue'[1].due = Less(taskQueue[1].due)
    BY <1>0, <1>6, Passes DEF Tick
  <2>2. taskQueue[1].due \in Nat /\ taskQueue[1].due <= wait[t]
    BY <1>0, <1>6, <2>1, EntryIs DEF OnTime, Tick
  <2>3. wait'[t] = Less(wait[t])
    BY <1>6 DEF Tick
  <2> QED
    BY <1>0, <2>1, <2>2, <2>3, LessIs
<1>7. CASE UNCHANGED <<taskQueue, at, doing, wait, throws>>
  BY <1>0, <1>7 DEF OnTime
<1> QED
  BY <1>1, <1>2, <1>3, <1>4, <1>5, <1>6, <1>7 DEF StepKind

\* What a step is for a thread that is alone.
Calm(t) ==
  /\ doing'[t] = doing[t] \/ (doing[t] \notin EveryTask /\ doing'[t] \notin EveryTask)
  /\ \/ taskQueue' = taskQueue \/ Inserts("ProcessQueue", 0)
     \/ Takes /\ ~Repeats(taskQueue, 1)
LEMMA LoneKinds ==
  ASSUME QueueInv, StepKind, NEW t \in Thread, Lone(t)
  PROVE  /\ throws' \in Nat /\ throws <= throws'
         /\ Calm(t) \/ (Tick /\ doing'[t] = doing[t]) \/ BeginsTask(t) \/ EndsTask(t) \/ throws' > 0
<1>0. /\ t \in Actor /\ throws \in Nat /\ DOMAIN at = Actor /\ \A u \in Thread : u # t => at[u] = "unused"
  BY DEF QueueInv, Lone, Actor, Runner
<1>1. ASSUME NEW a \in Actor,
             NEW pc \in {"loop", "check", "seeding", "waiting", "running", "process", "callback",
                         "maybe", "schedule", "added", "left"}, Rests(a, pc)
      PROVE  throws' \in Nat /\ throws <= throws' /\ Calm(t)
  BY <1>0, <1>1 DEF Rests, DoingOf, Calm
<1>2. ASSUME NEW u \in Thread, SetsTimer(u) \/ TimesOut(u)
      PROVE  throws' \in Nat /\ throws <= throws' /\ Calm(t)
  BY <1>0, <1>2 DEF SetsTimer, TimesOut, Calm
<1>3. ASSUME NEW u \in Thread, BeginsTask(u) \/ EndsTask(u) \/ Throws(u)
      PROVE  /\ throws' \in Nat /\ throws <= throws'
             /\ BeginsTask(t) \/ EndsTask(t) \/ throws' > 0
  <2>1. u = t
    BY <1>0, <1>3 DEF BeginsTask, EndsTask, Throws
  <2> QED
    BY <1>0, <1>3, <2>1 DEF BeginsTask, EndsTask, Throws
<1>4. CASE Wakes \/ (Tick /\ UNCHANGED throws) \/ UNCHANGED <<taskQueue, at, doing, wait, throws>>
  BY <1>0, <1>4 DEF Wakes, Tick, Calm
<1> QED
  BY <1>1, <1>2, <1>3, <1>4 DEF StepKind

\* Before and Begins, of a thread that is alone.
OneBefore(q, f1, e, f) == Ahead(q, e, f) \/ (Waits(q, e) /\ f1 = f)

LEMMA BeforeIs ==
  ASSUME QueueInv, QueueInv', NEW t \in Thread, Lone(t), Lone(t)', NEW e \in EveryTask
  PROVE  /\ \A f \in EveryTask : Before(e, f) <=> OneBefore(taskQueue, doing[t], e, f)
         /\ \A f \in EveryTask : Before(e, f)' <=> OneBefore(taskQueue', doing'[t], e, f)
         /\ Begins(e) <=> doing[t] # e /\ doing'[t] = e
<1>1. \A u \in Thread : u # t => doing[u] \notin EveryTask /\ doing'[u] \notin EveryTask
  BY DEF QueueInv, Lone
<1>2. DOMAIN taskQueue = 1..Len(taskQueue) /\ DOMAIN taskQueue' = 1..Len(taskQueue')
  BY DEF QueueInv
<1>3. \A f \in EveryTask : Before(e, f) <=> OneBefore(taskQueue, doing[t], e, f)
  BY <1>1, <1>2 DEF Before, OneBefore, Queued, Ahead, Waits
<1>4. \A f \in EveryTask : Before(e, f)' <=> OneBefore(taskQueue', doing'[t], e, f)
  BY <1>1, <1>2 DEF Before, OneBefore, Queued, Ahead, Waits
<1>5. Begins(e) <=> doing[t] # e /\ doing'[t] = e
  BY <1>1 DEF Begins
<1> QED
  BY <1>3, <1>4, <1>5

\* The order of two tasks changes when one of them begins, which is the first.
TurnTaken(t) ==
  \A e, f \in EveryTask : e # f =>
    LET begins(x) == doing[t] # x /\ doing'[t] = x IN
    /\ begins(e) => OneBefore(taskQueue, doing[t], e, f)
    /\ OneBefore(taskQueue', doing'[t], e, f)
         <=> begins(f) \/ (OneBefore(taskQueue, doing[t], e, f) /\ ~begins(e))

LEMMA TurnsKept ==
  ASSUME TurnInv, StepKind, QueueInv', NEW t \in Thread, Lone(t), throws' = 0
  PROVE  Turns(t)' /\ TurnTaken(t)
<1>0. QueueInv /\ throws \in Nat /\ throws' \in Nat /\ throws <= throws'
  BY LoneKinds DEF TurnInv, QueueInv
<1>1. /\ Turns(t) /\ OnTime(t) /\ taskQueue \in Seq(Entry) /\ taskQueue' \in Seq(Entry)
      /\ at[t] = "timeout" => wait[t] = 0
  BY <1>0 DEF TurnInv, QueueInv
<1>2. ASSUME doing'[t] = doing[t] \/ (doing[t] \notin EveryTask /\ doing'[t] \notin EveryTask),
             \A e \in EveryTask : Waits(taskQueue, e) <=> Waits(taskQueue', e),
             \A e, f \in EveryTask : Ahead(taskQueue, e, f) <=> Ahead(taskQueue', e, f),
             Apart(taskQueue) => Apart(taskQueue'), Close(taskQueue) => Close(taskQueue'),
             Near(taskQueue) => Near(taskQueue')
      PROVE  Turns(t)' /\ TurnTaken(t)
  <2>1. Turns(t)'
    BY <1>1, <1>2 DEF Turns
  <2>2. TurnTaken(t)
    BY <1>2 DEF TurnTaken, OneBefore
  <2> QED
    BY <2>1, <2>2
<1>3. CASE Calm(t)
  <2>1. CASE taskQueue' = taskQueue
    BY <1>2, <1>3, <2>1 DEF Calm
  <2>2. CASE Inserts("ProcessQueue", 0)
    <3>1. PICK k : Inserted(taskQueue, taskQueue', k) /\ taskQueue'[k] = [task |-> "ProcessQueue", due |-> 0]
      BY <2>2 DEF Inserts
    <3>2. ~Repeats(taskQueue', k)
      BY <3>1, SchedulerAssumption DEF Repeats
    <3>3. /\ \A e \in EveryTask : Waits(taskQueue, e) <=> Waits(taskQueue', e)
          /\ \A e, f \in EveryTask : Ahead(taskQueue, e, f) <=> Ahead(taskQueue', e, f)
          /\ Apart(taskQueue) <=> Apart(taskQueue')
          /\ Close(taskQueue) <=> Close(taskQueue')
          /\ Near(taskQueue) <=> Near(taskQueue')
      BY <1>1, <3>1, <3>2, OtherEntry
    <3> QED
      BY <1>2, <1>3, <3>3 DEF Calm
  <2>3. CASE Takes /\ ~Repeats(taskQueue, 1)
    <3>1. Inserted(taskQueue', taskQueue, 1)
      BY <1>0, <2>3, TakesIs
    <3>2. /\ \A e \in EveryTask : Waits(taskQueue', e) <=> Waits(taskQueue, e)
          /\ \A e, f \in EveryTask : Ahead(taskQueue', e, f) <=> Ahead(taskQueue, e, f)
          /\ Apart(taskQueue') <=> Apart(taskQueue)
          /\ Close(taskQueue') <=> Close(taskQueue)
          /\ Near(taskQueue') <=> Near(taskQueue)
      BY <1>1, <2>3, <3>1, OtherEntry
    <3> QED
      BY <1>2, <1>3, <3>2 DEF Calm
  <2> QED
    BY <1>3, <2>1, <2>2, <2>3 DEF Calm
<1>4. CASE Tick /\ doing'[t] = doing[t]
  <2>1. taskQueue' = [i \in DOMAIN taskQueue |-> [task |-> taskQueue[i].task, due |-> Less(taskQueue[i].due)]]
    BY <1>4 DEF Tick
  <2>2. /\ \A e : Waits(taskQueue, e) <=> Waits(taskQueue', e)
        /\ \A e, f : Ahead(taskQueue, e, f) <=> Ahead(taskQueue', e, f)
        /\ Apart(taskQueue) => Apart(taskQueue')
        /\ Close(taskQueue) => Close(taskQueue')
        /\ Near(taskQueue) => Near(taskQueue')
    BY <1>1, <2>1, Passes
  <2> QED
    BY <1>2, <1>4, <2>2
<1>5. CASE BeginsTask(t)
  <2> DEFINE x == taskQueue[1].task
  <2>0. /\ Takes /\ Repeats(taskQueue, 1) /\ x \in EveryTask /\ doing'[t] = x /\ doing[t] \notin EveryTask
    BY <1>0, <1>5 DEF BeginsTask, Repeats, QueueInv
  <2>1. Inserted(taskQueue', taskQueue, 1) /\ taskQueue # <<>> /\ 1 \in 1..Len(taskQueue)
    BY <1>0, <2>0, TakesIs DEF Takes, Inserted
  <2>2. taskQueue[1].due = 0
    BY <1>1, <1>5, <2>1, EntryIs DEF OnTime, BeginsTask
  <2> HIDE DEF x
  <2>3. x = taskQueue[1].task
    BY DEF x
  <2>4. /\ ~Waits(taskQueue', x) /\ Waits(taskQueue, x)
        /\ \A f \in EveryTask \ {x} :
             /\ Waits(taskQueue', f) <=> Waits(taskQueue, f)
             /\ Ahead(taskQueue, x, f) <=> Waits(taskQueue, f)
             /\ ~Ahead(taskQueue, f, x)
             /\ \A g \in EveryTask \ {x} : Ahead(taskQueue', f, g) <=> Ahead(taskQueue, f, g)
        /\ Apart(taskQueue') /\ Close(taskQueue') /\ Near(taskQueue')
    BY <1>1, <2>0, <2>1, <2>2, <2>3, TakeFirst DEF Turns
  <2>5. \A f \in EveryTask : Waits(taskQueue, f)
    BY <1>1, <2>0, <2>4 DEF Turns
  <2>6. Turns(t)'
    BY <2>0, <2>4, <2>5 DEF Turns
  <2>7. \A f \in EveryTask : ~Ahead(taskQueue', x, f) /\ ~Ahead(taskQueue', f, x)
    BY <2>4 DEF Ahead, Waits
  <2>8. TurnTaken(t)
    BY <2>0, <2>4, <2>5, <2>7 DEF TurnTaken, OneBefore
  <2> QED
    BY <2>6, <2>8
<1>6. CASE EndsTask(t)
  <2> DEFINE x == doing[t]
  <2>0. /\ x \in EveryTask /\ doing'[t] = Nothing /\ Nothing \notin EveryTask /\ Inserts(x, Delta)
    BY <1>6, SchedulerAssumption DEF EndsTask
  <2> HIDE DEF x
  <2>1. x = doing[t] /\ ~Waits(taskQueue, x) /\ Near(taskQueue) /\ Apart(taskQueue)
    BY <1>1, <2>0 DEF Turns, x
  <2>2. PICK k : /\ Inserted(taskQueue, taskQueue', k) /\ taskQueue'[k] = [task |-> x, due |-> Delta]
                 /\ \A j \in 1..Len(taskQueue) : j < k <=> taskQueue[j].due <= Delta
    BY <2>0 DEF Inserts
  <2>3. /\ Waits(taskQueue', x)
        /\ \A f \in EveryTask \ {x} :
             /\ Waits(taskQueue', f) <=> Waits(taskQueue, f)
             /\ Ahead(taskQueue', f, x) <=> Waits(taskQueue, f)
             /\ ~Ahead(taskQueue', x, f)
             /\ \A g \in EveryTask \ {x} : Ahead(taskQueue', f, g) <=> Ahead(taskQueue, f, g)
        /\ Apart(taskQueue') /\ Close(taskQueue')
    BY <1>1, <2>0, <2>1, <2>2, PutBack
  <2>4. \A f \in EveryTask : Waits(taskQueue', f)
    BY <1>1, <2>0, <2>1, <2>3 DEF Turns
  <2>5. Turns(t)'
    BY <2>0, <2>3, <2>4 DEF Turns
  <2>6. \A f \in EveryTask : ~Ahead(taskQueue, x, f) /\ ~Ahead(taskQueue, f, x)
    BY <2>1 DEF Ahead, Waits
  <2>7. TurnTaken(t)
    BY <2>0, <2>1, <2>3, <2>4, <2>6 DEF TurnTaken, OneBefore
  <2> QED
    BY <2>5, <2>7
<1> QED
  BY <1>0, <1>3, <1>4, <1>5, <1>6, LoneKinds

LEMMA TurnInvKept ==
  ASSUME TurnInv, [SchedulerNext]_schedulerVars
  PROVE  TurnInv'
<1>1. QueueInv /\ StepKind /\ QueueInv'
  BY StepKinds, QueueInvKept DEF TurnInv
<1>2. ASSUME NEW t \in Thread, Lone(t)' PROVE OnTime(t)' /\ (throws' = 0 => Turns(t)')
  BY <1>1, <1>2, LoneKept, OnTimeKept, TurnsKept
<1> QED
  BY <1>1, <1>2 DEF TurnInv

\* A sequence made of a finite set.
LEMMA SetToSeqIs ==
  ASSUME NEW S, IsFiniteSet(S)
  PROVE  SetToSeq(S) \in Seq(S)
<1>1. Cardinality(S) \in Nat /\ ExistsBijection(1..Cardinality(S), S)
  BY FS_CardinalityType
<1>2. \E f \in [1..Cardinality(S) -> S] : IsInjective(f)
  BY <1>1 DEF ExistsBijection, Bijection, Injection
<1>3. SetToSeq(S) \in [1..Cardinality(S) -> S]
  BY <1>2 DEF SetToSeq
<1> QED
  BY <1>1, <1>3

LEMMA TurnInit == SchedulerInit => TurnInv
<1> SUFFICES ASSUME SchedulerInit PROVE TurnInv
  OBVIOUS
<1>0. /\ Every \in Seq(EveryTask) /\ Len(Every) \in Nat /\ Delta \in Nat /\ Len(Every) <= Delta + 1
      /\ DOMAIN Every = 1..Len(Every)
  BY SchedulerAssumption
<1>1. /\ throws = 0 /\ m_callbacks_pending = <<>> /\ wait = [t \in Thread |-> 0]
      /\ doing = [a \in Actor |-> IF a \in Callback THEN a ELSE Nothing]
  BY DEF SchedulerInit
<1>2. DOMAIN at = Actor /\ \A t \in Thread : at[t] \in {"loop", "unused"}
  <2>1. PICK S \in SUBSET Thread \ {{}} :
          at = [a \in Actor |-> IF a \in S THEN "loop" ELSE IF a \in Thread THEN "unused" ELSE "idle"]
    BY DEF SchedulerInit
  <2> QED
    BY <2>1 DEF Actor, Runner
<1>3. \A t \in Thread : doing[t] = Nothing
  BY <1>1, SchedulerAssumption DEF Actor, Runner
<1>4. Nothing \notin EveryTask
  BY SchedulerAssumption
<1>5. ASSUME NEW gap \in 0..1,
             taskQueue = [i \in DOMAIN Every |-> [task |-> Every[i], due |-> Delta + (i - 1) * gap]]
      PROVE  /\ taskQueue \in Seq(Entry) /\ Sorted(taskQueue) /\ Apart(taskQueue) /\ Close(taskQueue)
             /\ \A e \in EveryTask : Waits(taskQueue, e)
  <2>1. \A i \in 1..Len(Every) :
          /\ (i - 1) * gap \in 0..i - 1
          /\ taskQueue[i].task = Every[i] /\ taskQueue[i].due = Delta + (i - 1) * gap
    <3>1. gap = 0 \/ gap = 1
      OBVIOUS
    <3> QED
      BY <1>0, <1>5, <3>1
  <2>2. \A i, j \in 1..Len(Every) : i < j => (i - 1) * gap <= (j - 1) * gap
    <3>1. gap = 0 \/ gap = 1
      OBVIOUS
    <3> QED
      BY <1>0, <3>1
  <2>3. \A i \in 1..Len(Every) : Every[i] \in EveryTask
    BY <1>0
  <2>4. taskQueue \in [1..Len(Every) -> Entry]
    <3>1. \A i \in 1..Len(Every) : [task |-> Every[i], due |-> Delta + (i - 1) * gap] \in Entry
      <4> SUFFICES ASSUME NEW i \in 1..Len(Every) PROVE [task |-> Every[i], due |-> Delta + (i - 1) * gap] \in Entry
        OBVIOUS
      <4>1. (i - 1) * gap \in Nat
        BY <1>0, <2>1
      <4>2. Delta + (i - 1) * gap \in Nat
        BY <1>0, <4>1
      <4> QED
        BY <2>3, <4>2 DEF Entry
    <3> QED
      BY <1>0, <1>5, <3>1
  <2>5. taskQueue \in Seq(Entry) /\ Len(taskQueue) = Len(Every)
    BY <1>0, <2>4
  <2>6. Sorted(taskQueue)
    BY <1>0, <2>1, <2>2, <2>5 DEF Sorted
  <2>7. Apart(taskQueue)
    BY <1>0, <2>1, <2>5, SchedulerAssumption DEF Apart
  <2>8. Close(taskQueue)
    BY <1>0, <2>1, <2>5 DEF Close
  <2>9. \A e \in EveryTask : Waits(taskQueue, e)
    BY <1>0, <2>1, <2>5 DEF Waits, EveryTask, Range
  <2> QED
    BY <2>5, <2>6, <2>7, <2>8, <2>9
<1>6. ASSUME taskQueue = SetToSeq({[task |-> o, due |-> Delta] : o \in Once})
      PROVE  /\ taskQueue \in Seq(Entry) /\ Sorted(taskQueue) /\ Apart(taskQueue) /\ Close(taskQueue)
             /\ \A e \in EveryTask : ~Waits(taskQueue, e)
  <2> DEFINE S == {[task |-> o, due |-> Delta] : o \in Once}
  <2>1. IsFiniteSet(S)
    <3> DEFINE f == [o \in Once |-> [task |-> o, due |-> Delta]]
    <3>1. f \in Surjection(Once, S)
      BY DEF Surjection
    <3> QED
      BY <3>1, FS_Surjection, SchedulerAssumption
  <2>2. S \subseteq Entry /\ \A x \in S : x.due = Delta /\ x.task \notin EveryTask
    BY SchedulerAssumption DEF Entry
  <2> HIDE DEF S
  <2>3. taskQueue \in Seq(S)
    BY <1>6, <2>1, SetToSeqIs DEF S
  <2>4. \A i \in 1..Len(taskQueue) : taskQueue[i] \in S
    BY <2>3
  <2>5. taskQueue \in Seq(Entry)
    BY <2>2, <2>3
  <2>6. Sorted(taskQueue)
    BY <1>0, <2>2, <2>4 DEF Sorted
  <2>7. \A i \in 1..Len(taskQueue) : ~Repeats(taskQueue, i)
    BY <2>2, <2>4 DEF Repeats
  <2> QED
    BY <2>5, <2>6, <2>7 DEF Apart, Close, Waits, Repeats
<1>7. QueueInv /\ \A t \in Thread : Turns(t)
  <2>1. /\ taskQueue \in Seq(Entry) /\ Sorted(taskQueue) /\ Apart(taskQueue) /\ Close(taskQueue)
        /\ \/ \A e \in EveryTask : Waits(taskQueue, e)
           \/ \A e \in EveryTask : ~Waits(taskQueue, e)
    BY <1>5, <1>6 DEF SchedulerInit
  <2>2. QueueInv
    <3>1. DOMAIN doing = Actor /\ wait \in [Thread -> Nat] /\ throws \in Nat
      BY <1>1
    <3>2. m_callbacks_pending \in Seq(Callback)
      BY <1>1
    <3>3. \A t \in Thread : doing[t] \notin EveryTask /\ at[t] # "timeout"
      BY <1>2, <1>3, <1>4
    <3> QED
      BY <1>2, <2>1, <3>1, <3>2, <3>3 DEF QueueInv
  <2> QED
    BY <1>3, <1>4, <2>1, <2>2 DEF Turns
<1> QED
  BY <1>2, <1>7 DEF TurnInv, OnTime

LEMMA TurnInvHolds == SchedulerSpec => []TurnInv
BY TurnInit, TurnInvKept, PTL DEF SchedulerSpec

\* With one thread, the tasks of scheduleEvery take turns in the order in which
\* they were scheduled (scheduler.cpp:69-127).
THEOREM TasksTakeTurns == SchedulerSpec => InTurn
<1>1. ASSUME TurnInv, TurnInv', [SchedulerNext]_schedulerVars, Alone, throws' = 0,
             NEW e \in EveryTask, NEW f \in EveryTask, e # f
      PROVE  /\ Begins(e) => Before(e, f)
             /\ Before(e, f)' <=> Begins(f) \/ (Before(e, f) /\ ~Begins(e))
  <2>1. PICK t \in Thread : Lone(t)
    BY <1>1 DEF Alone, Lone
  <2>2. QueueInv /\ StepKind /\ QueueInv'
    BY <1>1, StepKinds DEF TurnInv
  <2>3. Lone(t)'
    BY <2>1, <2>2, LoneKept
  <2>4. TurnTaken(t)
    BY <1>1, <2>1, <2>2, TurnsKept
  <2>5. /\ Before(e, f) <=> OneBefore(taskQueue, doing[t], e, f)
        /\ Before(e, f)' <=> OneBefore(taskQueue', doing'[t], e, f)
        /\ Begins(e) <=> doing[t] # e /\ doing'[t] = e
        /\ Begins(f) <=> doing[t] # f /\ doing'[t] = f
    BY <2>1, <2>2, <2>3, BeforeIs
  <2> QED
    BY <1>1, <2>4, <2>5 DEF TurnTaken
<1>2. TurnInv /\ TurnInv' /\ [SchedulerNext]_schedulerVars =>
        [Alone /\ throws' = 0 => \A e, f \in EveryTask : e # f =>
           /\ Begins(e) => Before(e, f)
           /\ Before(e, f)' <=> Begins(f) \/ (Before(e, f) /\ ~Begins(e))]_schedulerVars
  BY <1>1
<1> QED
  BY <1>2, TurnInvHolds, PTL DEF SchedulerSpec, InTurn

\* A thread whose time has come goes on to a task only if there is one.
LEMMA TakesSome ==
  ASSUME QueueInv, StepKind, NEW u \in Thread, at[u] = "timeout", at'[u] \in {"running", "process"}
  PROVE  taskQueue # <<>>
<1>0. DOMAIN at = Actor /\ u \in Actor
  BY DEF QueueInv, Actor, Runner
<1>1. ASSUME NEW a \in Actor, NEW pc, Moved(a, pc) PROVE a = u
  BY <1>0, <1>1 DEF Moved, Waiting
<1>2. ASSUME NEW a \in Actor,
             NEW pc \in {"loop", "check", "seeding", "waiting", "running", "process", "callback",
                         "maybe", "schedule", "added", "left"}, Rests(a, pc)
      PROVE  taskQueue # <<>>
  BY <1>1, <1>2 DEF Rests, Moved
<1>3. ASSUME NEW t \in Thread, BeginsTask(t) \/ EndsTask(t) \/ Throws(t) PROVE taskQueue # <<>>
  <2>1. t \in Actor /\ \E pc \in {"running", "loop", "left"} : Moved(t, pc)
    BY <1>3 DEF BeginsTask, EndsTask, Throws, Actor, Runner
  <2>2. t = u
    BY <1>1, <2>1
  <2> QED
    BY <1>3, <2>2 DEF BeginsTask, EndsTask, Throws, Takes
<1>4. ASSUME NEW t \in Thread, SetsTimer(t) \/ TimesOut(t) PROVE FALSE
  BY <1>0, <1>4 DEF SetsTimer, TimesOut
<1>5. CASE Wakes \/ (Tick /\ UNCHANGED throws) \/ UNCHANGED <<taskQueue, at, doing, wait, throws>>
  BY <1>0, <1>5 DEF Wakes, Tick
<1> QED
  BY <1>2, <1>3, <1>4, <1>5 DEF StepKind

\* With one thread, no task begins before its time (scheduler.h:42), although a
\* wait may end early and others insert meanwhile (scheduler.cpp:46-67).
THEOREM OneThreadIsNotEarly == SchedulerSpec => NotEarlyAlone
<1>1. ASSUME TurnInv, [SchedulerNext]_schedulerVars, Alone, Early PROVE FALSE
  <2>1. PICK u \in Thread : /\ at[u] = "timeout" /\ at'[u] \in {"running", "process"}
                            /\ Head(taskQueue).due > 0
    BY <1>1 DEF Early
  <2>2. Lone(u)
    BY <1>1, <2>1 DEF Alone, Lone
  <2>3. QueueInv /\ OnTime(u) /\ wait[u] = 0 /\ taskQueue \in Seq(Entry)
    BY <1>1, <2>1, <2>2 DEF TurnInv, QueueInv
  <2>4. taskQueue # <<>>
    BY <1>1, <2>1, <2>3, StepKinds, TakesSome
  <2>5. Head(taskQueue) = taskQueue[1] /\ taskQueue[1].due \in Nat
    BY <2>3, <2>4, EntryIs
  <2> QED
    BY <2>1, <2>3, <2>4, <2>5 DEF OnTime
<1>2. TurnInv /\ [SchedulerNext]_schedulerVars => [Alone => ~Early]_schedulerVars
  BY <1>1
<1> QED
  BY <1>2, TurnInvHolds, PTL DEF SchedulerSpec, NotEarlyAlone
===============================================================================
