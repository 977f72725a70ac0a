------------------------------- MODULE SerialQueue ------------------------------
(***************************************************************************)
(* What SingleThreadedSchedulerClient promises (server/src/scheduler.h):   *)
(* the callbacks added to it run one at a time, in the order in which they *)
(* were added, each of them once.                                          *)
(***************************************************************************)
EXTENDS Sequences

CONSTANT Callback

VARIABLES
  pending,     \* callbacks added and not begun
  current      \* the callback that is running, if any

serialVars == <<pending, current>>

SerialInit == pending = <<>> /\ current = {}

Append1(c) == pending' = Append(pending, c) /\ UNCHANGED current

Begin ==
  /\ current = {} /\ pending # <<>>
  /\ current' = {Head(pending)} /\ pending' = Tail(pending)

End == current # {} /\ current' = {} /\ UNCHANGED pending

SerialNext == (\E c \in Callback : Append1(c)) \/ Begin \/ End
SerialSpec == SerialInit /\ [][SerialNext]_serialVars
================================================================================
