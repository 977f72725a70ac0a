---------------------------- MODULE MCHttpServer ----------------------------
(***************************************************************************)
(* Instances of HttpServer for TLC: the requests are named by their kind.  *)
(***************************************************************************)
EXTENDS HttpServer

CONSTANTS
  Commands,   \* requests that carry a command
  Kinds       \* other kinds, one request of each
MCRequest == Commands \cup Kinds
MCKindOf == [r \in MCRequest |-> IF r \in Commands THEN "command" ELSE r]
===============================================================================
