------------------------------ MODULE MCScheduler -----------------------------
(* Two repeated tasks, as in the server.                                   *)
EXTENDS Scheduler

MCEvery == <<"e1", "e2">>
===============================================================================
