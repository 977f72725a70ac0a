------------------------------ MODULE LockedPool ------------------------------
(***************************************************************************)
(* The pool of locked memory (server/src/support/lockedpool.cpp): arenas,  *)
(* each divided into chunks that are free or in use.  A request takes the  *)
(* end of the first free chunk that is large enough, and a chunk that is   *)
(* freed is merged with the free chunks on both of its sides.  An arena is *)
(* two maps from a chunk's offset to its size, like the two std::maps; the *)
(* operations of the pool hold its mutex, so each is one action.           *)
(*                                                                         *)
(* An operator named X_Suffix is X with a plausible slip.                  *)
(***************************************************************************)
EXTENDS Integers, Sequences, FiniteSetsExt

CONSTANTS
  ARENA_SIZE,   \* bytes of an arena (256 * 1024)
  ARENA_ALIGN,  \* a chunk's size is a multiple of it (16)
  Limit,        \* GetLimit, the bytes the process may lock
  Request,      \* sizes asked for
  MaxArenas     \* bound: arenas

ASSUME PoolAssumption ==
  /\ ARENA_SIZE \in Nat \ {0} /\ ARENA_ALIGN \in Nat \ {0}
  /\ ARENA_SIZE % ARENA_ALIGN = 0
  /\ Limit \in Nat /\ Request \subseteq Nat /\ MaxArenas \in Nat

VARIABLES
  arenas,       \* sequence of [size, chunks_free, chunks_used]
  refused,      \* arenas without memory: mmap refused it and they begin at MAP_FAILED
  cumulative_bytes_locked

poolVars == <<arenas, refused, cumulative_bytes_locked>>

NoChunk == [k \in {} |-> 0]
Put(chunks, at, size) ==
  [k \in DOMAIN chunks \cup {at} |-> IF k = at THEN size ELSE chunks[k]]
Erase(chunks, at) == [k \in DOMAIN chunks \ {at} |-> chunks[k]]

NewArena(size) ==
  [size |-> size, chunks_free |-> Put(NoChunk, 0, size), chunks_used |-> NoChunk]

AlignUp(x) == ((x + ARENA_ALIGN - 1) \div ARENA_ALIGN) * ARENA_ALIGN

LargeEnough(arena, size) ==
  {k \in DOMAIN arena.chunks_free : arena.chunks_free[k] >= size}

\* Slip: the used chunk is taken from the beginning of the free one.
ArenaAlloc_Front(arena, size) ==
  LET k == Min(LargeEnough(arena, size))
      rest == arena.chunks_free[k] - size IN
  [arena EXCEPT !.chunks_used = Put(@, k, size),
                !.chunks_free = IF rest = 0 THEN Erase(@, k) ELSE Put(@, k, rest)]

\* Arena::alloc of a size that is a multiple of the alignment and fits.
ArenaAlloc(arena, size) ==
  LET k == Min(LargeEnough(arena, size))
      rest == arena.chunks_free[k] - size IN
  [arena EXCEPT !.chunks_used = Put(@, k + rest, size),
                !.chunks_free = IF rest = 0 THEN Erase(@, k) ELSE Put(@, k, rest)]

\* Slip: only the chunk before the freed one is extended.
MergeNext_Never(chunks, at, size) == Put(chunks, at, size)

\* A free chunk is added and takes in the free chunk that begins where it ends.
MergeNext(chunks, at, size) ==
  LET next == at + size IN
  IF next \in DOMAIN chunks
    THEN Put(Erase(chunks, next), at, size + chunks[next])
    ELSE Put(chunks, at, size)

\* Free chunks that end where the freed one begins: at most the one before it.
EndingAt(chunks, at) == {k \in DOMAIN chunks : k + chunks[k] = at}

\* Arena::free.
ArenaFree(arena, at) ==
  LET size == arena.chunks_used[at]
      free == arena.chunks_free IN
  [arena EXCEPT
     !.chunks_used = Erase(@, at),
     !.chunks_free = IF EndingAt(free, at) = {}
                       THEN MergeNext(free, at, size)
                       ELSE LET prev == Min(EndingAt(free, at)) IN
                            MergeNext(free, prev, free[prev] + size)]

-------------------------------------------------------------------------------
PoolInit == arenas = <<>> /\ refused = {} /\ cumulative_bytes_locked = 0

\* The arenas that have a chunk for a request, in their order.
Serving(size) == {k \in DOMAIN arenas : LargeEnough(arenas[k], AlignUp(size)) # {}}

\* LockedPool::alloc from an arena there is.
AllocFromArena(size) ==
  /\ size \in 1..ARENA_SIZE /\ Serving(size) # {}
  /\ arenas' = [arenas EXCEPT ![Min(Serving(size))] = ArenaAlloc(@, AlignUp(size))]
  /\ UNCHANGED <<refused, cumulative_bytes_locked>>

\* Only the first arena is cut to what may be locked.
ArenaSize == IF arenas = <<>> /\ Limit > 0 /\ Limit < ARENA_SIZE THEN Limit ELSE ARENA_SIZE

\* LockedPool::alloc from a new arena.  The system may refuse the memory: mmap
\* returns MAP_FAILED, which is not null, so the arena is kept at that address and
\* serves requests like any other.  It may refuse to lock the memory, upon which
\* the callback goes on.  An arena that is too small for the request is kept.
AllocFromNew(size) ==
  /\ size \in 1..ARENA_SIZE /\ Serving(size) = {} /\ Len(arenas) < MaxArenas
  /\ \/ /\ refused' = refused \cup {Len(arenas) + 1}
        /\ UNCHANGED cumulative_bytes_locked
     \/ /\ \E locked \in BOOLEAN :
             cumulative_bytes_locked' = cumulative_bytes_locked + (IF locked THEN ArenaSize ELSE 0)
        /\ UNCHANGED refused
  /\ arenas' = Append(arenas,
                 IF AlignUp(size) <= ArenaSize THEN ArenaAlloc(NewArena(ArenaSize), AlignUp(size))
                                               ELSE NewArena(ArenaSize))

\* LockedPool::free; the callers free what they hold, once.  The end of an arena
\* at MAP_FAILED wraps around, so no address lies in it: free throws there and
\* takes nothing back.
Free(k, at) ==
  /\ arenas' = IF k \in refused THEN arenas ELSE [arenas EXCEPT ![k] = ArenaFree(@, at)]
  /\ UNCHANGED <<refused, cumulative_bytes_locked>>

PoolNext ==
  \/ \E size \in Request : AllocFromArena(size) \/ AllocFromNew(size)
  \/ \E k \in DOMAIN arenas : \E at \in DOMAIN arenas[k].chunks_used : Free(k, at)

PoolSpec == PoolInit /\ [][PoolNext]_poolVars

-------------------------------------------------------------------------------
(* Properties.                                                             *)

\* Chunks lie in their arena and are not empty.
ChunksIn(chunks, size) ==
  \A k \in DOMAIN chunks : k \in 0..size /\ chunks[k] \in 1..size

PoolTypeOK ==
  /\ \A k \in DOMAIN arenas : /\ arenas[k].size \in 1..ARENA_SIZE
                              /\ ChunksIn(arenas[k].chunks_free, arenas[k].size)
                              /\ ChunksIn(arenas[k].chunks_used, arenas[k].size)
  /\ refused \subseteq DOMAIN arenas
  /\ cumulative_bytes_locked \in Nat

Bytes(chunks, k) == k .. k + chunks[k] - 1
Covering(chunks, byte) == {k \in DOMAIN chunks : byte \in Bytes(chunks, k)}

\* Each byte of an arena belongs to exactly one chunk, in whatever order chunks
\* were taken, split, freed and merged.
Tiled ==
  \A a \in DOMAIN arenas : \A byte \in 0..arenas[a].size - 1 :
    Cardinality(Covering(arenas[a].chunks_free, byte)) +
      Cardinality(Covering(arenas[a].chunks_used, byte)) = 1

\* A request is never refused by an arena that has enough free bytes in a row,
\* however many frees it took to make them (free, lines 104-110, merges with the
\* neighbours on both sides).
RoomIsFound ==
  \A a \in DOMAIN arenas : \A size \in 1..arenas[a].size :
    (\E at \in 0..arenas[a].size - size :
       \A byte \in at..at + size - 1 : Covering(arenas[a].chunks_used, byte) = {})
      => LargeEnough(arenas[a], size) # {}

\* Chunks begin at multiples of the alignment (lockedpool.h, ARENA_ALIGN), taken
\* from the end of a free chunk as they are, when the arenas' sizes are too.
Aligned ==
  Limit % ARENA_ALIGN = 0 =>
  \A a \in DOMAIN arenas : \A at \in DOMAIN arenas[a].chunks_used : at % ARENA_ALIGN = 0

\* The blocks the callers hold.
HeldBlocks == UNION {{[arena |-> a, at |-> off, size |-> arenas[a].chunks_used[off]] :
                        off \in DOMAIN arenas[a].chunks_used} : a \in DOMAIN arenas}

\* The blocks in memory the system granted: the pool implements the abstract one
\* with them, however many arenas were refused before, between or after.
Blocks == INSTANCE MemoryBlocks WITH held <- {b \in HeldBlocks : b.arena \notin refused}
PoolKeepsBlocks == Blocks!HeldSpec

\* With the refused arenas the blocks do not keep apart: all of those begin at the
\* same address, so the blocks of two of them overlap (LockedPoolRefused.cfg), though
\* AllocateLocked `Returns 0 in case of allocation failure` (lockedpool.h:24).
Base(a) == IF a \in refused THEN 0 ELSE a
EveryBlockApart ==
  \A b, c \in HeldBlocks :
    b = c \/ Blocks!Apart([b EXCEPT !.arena = Base(@)], [c EXCEPT !.arena = Base(@)])
===============================================================================
