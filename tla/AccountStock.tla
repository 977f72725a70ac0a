------------------------------ MODULE AccountStock -----------------------------
(***************************************************************************)
(* What the scheduler promises of table account: it counts, and some time  *)
(* later adds accounts of one coin, with new ids above the highest one it  *)
(* saw, at most Quantity of them, and none while the stock is full.        *)
(***************************************************************************)
EXTENDS Integers, FiniteSets, FiniteSetsExt

CONSTANTS
  Coin,
  Quantity     \* accounts created at a time

VARIABLES
  ids,         \* [Coin -> SUBSET Nat], account ids in table account
  users,       \* [Coin -> Nat], accounts given to users
  batch        \* [coin, maxId]: what the scheduler creates accounts for

stockVars == <<ids, users, batch>>

NoBatch == [coin |-> "none", maxId |-> 0]
Stocked(c) == Cardinality(ids[c]) - 1 - users[c] >= Quantity

StockInit ==
  /\ ids = [c \in Coin |-> {0}] /\ users = [c \in Coin |-> 0] /\ batch = NoBatch

Give(c) == users' = [users EXCEPT ![c] = @ + 1] /\ UNCHANGED <<ids, batch>>

Count(c) ==
  /\ batch = NoBatch /\ ~Stocked(c)
  /\ batch' = [coin |-> c, maxId |-> Max(ids[c])]
  /\ UNCHANGED <<ids, users>>

\* Also no id at all: nothing could be created, or the process died.
Add ==
  /\ batch # NoBatch /\ batch' = NoBatch
  /\ \E new \in SUBSET (batch.maxId + 1 .. batch.maxId + Quantity) :
       ids' = [ids EXCEPT ![batch.coin] = @ \cup new]
  /\ UNCHANGED users

StockNext == Add \/ \E c \in Coin : Give(c) \/ Count(c)
StockSpec == StockInit /\ [][StockNext]_stockVars
================================================================================
