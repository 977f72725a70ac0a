----------------------------- MODULE MemoryBlocks -----------------------------
(***************************************************************************)
(* What a memory pool promises its callers: the blocks they hold do not    *)
(* overlap, none moves or changes its size, and each is taken back by its  *)
(* own free.                                                               *)
(***************************************************************************)
EXTENDS Integers

VARIABLE held      \* blocks [arena, at, size] given out and not yet freed

Apart(b, c) == b.arena # c.arena \/ b.at + b.size <= c.at \/ c.at + c.size <= b.at

HeldInit == held = {}

GiveOut == \E b \in held' : /\ held' = held \cup {b} /\ b \notin held /\ b.size > 0
                            /\ \A c \in held : Apart(b, c)
TakeBack == \E b \in held : held' = held \ {b}

HeldSpec == HeldInit /\ [][GiveOut \/ TakeBack]_held
===============================================================================
