-------------------------------- MODULE Transfers -------------------------------
(***************************************************************************)
(* Request transfer (server/src/rpc/relay.cpp and client.cpp, and the      *)
(* signing in server/src/ethwalletweb3.py): worker threads build a         *)
(* transaction in several calls to a node and hand it in with the last     *)
(* one, for callers who ask again when they get an error.                  *)
(*                                                                         *)
(* Every call to a node and every access to wallet_db is an action.  Two   *)
(* workers may choose the same outputs or the same nonce before either     *)
(* hands in its transaction, only one thread at a time can have wallet_db  *)
(* open, and an answer may be lost on the way from the node, by a crash or *)
(* by a caller who no longer waits for it.                                 *)
(*                                                                         *)
(* The Python of ETH runs in several threads with no lock taken: that it   *)
(* interleaves is one outcome, that the process dies (Restart) the other.  *)
(*                                                                         *)
(* An operator named X_Suffix is X with a plausible slip.                  *)
(***************************************************************************)
EXTENDS Integers, Sequences, FiniteSets, FiniteSetsExt

CONSTANTS
  Worker, Order,
  Amount, Fee,     \* [Order -> Nat]
  Retried,         \* the orders whose caller asks again after an error
  SmallFee,        \* the orders whose fee is below the least fee of ETH
  Coins,           \* values of the outputs of the paying BTC address
  FeeOutputs,      \* outputs of fee_address_omni_
  ZoneOffset,      \* seconds by which local time is ahead of UTC
  MaxOpens, MaxFaults, MaxRestarts    \* bounds

ASSUME TransferAssumption ==
  /\ Amount \in [Order -> Nat] /\ Fee \in [Order -> Nat]
  /\ Retried \subseteq Order /\ SmallFee \subseteq Order
  /\ Coins \in Seq(Nat) /\ FeeOutputs \in Nat /\ ZoneOffset \in Int
  /\ MaxOpens \in Nat /\ MaxFaults \in Nat /\ MaxRestarts \in Nat

Coin == {"BTC", "OMNI", "ETH", "ERC20", "XRP", "EOS"}

\* The calls of each transfer function that read or change a node's state or
\* wallet_db.  "sign" and "unlock" stand for the calls between.
Calls == [BTC   |-> <<"list", "sign", "send">>,
          OMNI  |-> <<"list", "send">>,
          ETH   |-> <<"open", "get", "nonce", "send">>,
          ERC20 |-> <<"open", "get", "nonce", "send">>,
          XRP   |-> <<"open", "get", "send">>,
          EOS   |-> <<"block", "unlock", "send">>]

VARIABLES
  kind,            \* [Order -> Coin]
  order,           \* what the caller of each order knows
  lost,            \* how many answers to it were lost
  job,             \* what each worker is doing
  opened,          \* the thread that has wallet_db open
  mempool, mined,  \* transactions the nodes accepted
  head,            \* number of the last block of EOS
  opens, faults, restarts

vars == <<kind, order, lost, job, opened, mempool, mined, head, opens, faults, restarts>>
nodeVars == <<mempool, mined, head>>
boundVars == <<opens, faults, restarts>>

Idle == [order |-> "none", pc |-> 0, live |-> FALSE, coins |-> {}, nonce |-> 0, block |-> 0]

Init ==
  /\ kind \in [Order -> Coin]
  /\ order = [o \in Order |-> "ready"] /\ lost = [o \in Order |-> 0]
  /\ job = [w \in Worker |-> Idle] /\ opened = "none"
  /\ mempool = {} /\ mined = {} /\ head = 1
  /\ opens = 0 /\ faults = 0 /\ restarts = 0

Fault == faults < MaxFaults /\ faults' = faults + 1 /\ UNCHANGED <<opens, restarts>>

-------------------------------------------------------------------------------
(* The nodes.                                                              *)

Accepted == mempool \cup mined
Payments(o) == {t \in Accepted : t.order = o}
Chain(c) == IF c = "ERC20" THEN "ETH" ELSE c
On(c, T) == {t \in T : Chain(kind[t.order]) = c}

\* An output is [id, value]; the change of a transaction carries its number.
Need(o) == Amount[o] + Fee[o]
Value(S) == MapThenSumSet(LAMBDA u : u.value, S)
Change(t) == [id |-> <<t.order, t.number>>, value |-> Value(t.coins) - Need(t.order)]
Spent == UNION {t.coins : t \in On("BTC", Accepted)}

\* listunspent: confirmed outputs that no transaction in the mempool spends.
Unspent ==
  ({[id |-> <<"coin", i>>, value |-> Coins[i]] : i \in DOMAIN Coins}
     \cup {Change(t) : t \in On("BTC", mined)}) \ Spent
FeeUnspent == FeeOutputs - Cardinality(On("OMNI", mempool))

\* eth_getTransactionCount of the paying address, pending ones included.
PendingCount == Cardinality(On("ETH", Accepted))

\* The pending transaction that one of the same nonce replaces by a better price.
Replaces(o, nonce) == {t \in On("ETH", mempool) : t.nonce = nonce /\ Fee[o] > Fee[t.order]}

Expiration == 600 - ZoneOffset

\* Outputs that are spent, a nonce that is used, the id of another transaction
\* or an expiration out of range: the node refuses.
Accepts(j) ==
  CASE kind[j.order] = "BTC" -> j.coins \cap Spent = {}
    [] kind[j.order] = "OMNI" -> FeeUnspent > 0
    [] kind[j.order] \in {"ETH", "ERC20"} -> j.nonce = PendingCount \/ Replaces(j.order, j.nonce) # {}
    [] kind[j.order] = "XRP" -> TRUE
    [] kind[j.order] = "EOS" ->
         /\ 0 < Expiration /\ Expiration <= 3600
         /\ \A t \in On("EOS", Accepted) : t.block = j.block => Amount[t.order] # Amount[j.order]

Transaction(j) ==
  [order |-> j.order, number |-> Cardinality(Payments(j.order)) + 1,
   coins |-> j.coins, nonce |-> j.nonce, block |-> j.block]

Accept(j) ==
  /\ mempool' = (mempool \ (IF Chain(kind[j.order]) = "ETH" THEN Replaces(j.order, j.nonce) ELSE {}))
                \cup {Transaction(j)}
  /\ UNCHANGED <<mined, head>>

Mine(c) ==
  /\ On(c, mempool) # {}
  /\ mined' = mined \cup On(c, mempool) /\ mempool' = mempool \ On(c, mempool)
  /\ head' = IF c = "EOS" THEN head + 1 ELSE head
  /\ UNCHANGED <<kind, order, lost, job, opened, boundVars>>

-------------------------------------------------------------------------------
(* The callers.                                                            *)

AfterError(o) == IF o \in Retried THEN "ready" ELSE "failed"

Ask(w, o) ==
  /\ order[o] = "ready" /\ job[w] = Idle
  /\ order' = [order EXCEPT ![o] = "asked"]
  /\ job' = [job EXCEPT ![w] = [Idle EXCEPT !.order = o, !.pc = 1, !.live = TRUE]]
  /\ UNCHANGED <<kind, lost, opened, nodeVars, boundVars>>

\* The caller no longer waits for the answer, the worker goes on.
HangUp(w) ==
  /\ job[w].live /\ Fault
  /\ order' = [order EXCEPT ![job[w].order] = AfterError(job[w].order)]
  /\ lost' = [lost EXCEPT ![job[w].order] = @ + 1]
  /\ job' = [job EXCEPT ![w].live = FALSE]
  /\ UNCHANGED <<kind, opened, nodeVars>>

-------------------------------------------------------------------------------
(* The workers.                                                            *)

At(w, call) ==
  job[w] # Idle /\ LET calls == Calls[kind[job[w].order]] IN calls[job[w].pc] = call

\* The handler ends and the caller, if it still waits, gets the answer: "txid",
\* "empty" for a success with no result, or "text" for one that is no txid.
Answer(w, answer) ==
  /\ order' = IF job[w].live THEN [order EXCEPT ![job[w].order] = answer] ELSE order
  /\ job' = [job EXCEPT ![w] = Idle]

\* transfer returns false or throws, and the caller gets an error.
Fail(w) == Answer(w, AfterError(job[w].order))

GoOn(w, j) == job' = [job EXCEPT ![w] = [j EXCEPT !.pc = @ + 1]] /\ UNCHANGED order

\* The outputs the loop may have taken when it breaks, in an order of the node's.
Picks(o) ==
  {S \in SUBSET Unspent : Value(S) > Need(o) /\ \E u \in S : Value(S \ {u}) <= Need(o)}

\* Without enough outputs createrawtransaction gets the wrong parameters.
ListUnspent(w) ==
  /\ At(w, "list") /\ kind[job[w].order] = "BTC"
  /\ \/ \E S \in Picks(job[w].order) : GoOn(w, [job[w] EXCEPT !.coins = S])
     \/ Picks(job[w].order) = {} /\ Fail(w)
  /\ UNCHANGED <<kind, lost, opened, nodeVars, boundVars>>

\* OMNI: without an output to pay the fee from, ret is still true.
ListFeeOutputs(w) ==
  /\ At(w, "list") /\ kind[job[w].order] = "OMNI"
  /\ IF FeeUnspent > 0 THEN GoOn(w, job[w]) ELSE Answer(w, "empty")
  /\ UNCHANGED <<kind, lost, opened, nodeVars, boundVars>>

Prepare(w) ==
  /\ At(w, "sign") \/ At(w, "unlock")
  /\ GoOn(w, job[w])
  /\ UNCHANGED <<kind, lost, opened, nodeVars, boundVars>>

\* Slip: the block is asked for once.
GetInfo_Once(w) ==
  /\ At(w, "block")
  /\ GoOn(w, [job[w] EXCEPT !.block = 1])
  /\ UNCHANGED <<kind, lost, opened, nodeVars, boundVars>>

\* get_info and get_block: what makes the id of a transaction of EOS new.
GetInfo(w) ==
  /\ At(w, "block")
  /\ GoOn(w, [job[w] EXCEPT !.block = head])
  /\ UNCHANGED <<kind, lost, opened, nodeVars, boundVars>>

\* getPrivateKey: DB::Open.
OpenWallet(w) ==
  /\ At(w, "open")
  /\ IF opened = "none" THEN opened' = w /\ GoOn(w, job[w])
                        ELSE UNCHANGED opened /\ Fail(w)
  /\ UNCHANGED <<kind, lost, nodeVars, boundVars>>

\* db->Get, and `delete db` in any case.
ReadKey(w) ==
  /\ At(w, "get") /\ opened' = "none"
  /\ \/ GoOn(w, job[w]) /\ UNCHANGED boundVars
     \/ Fault /\ Fail(w)
  /\ UNCHANGED <<kind, lost, nodeVars>>

\* calcGasAndPrice and getTransactionCount.  A fee that is too small is an
\* empty answer for ETH, which is no JSON, and a text with code 0 for ERC20.
GetNonce(w) ==
  /\ At(w, "nonce")
  /\ IF job[w].order \notin SmallFee THEN GoOn(w, [job[w] EXCEPT !.nonce = PendingCount])
     ELSE IF kind[job[w].order] = "ETH" THEN Fail(w) ELSE Answer(w, "text")
  /\ UNCHANGED <<kind, lost, opened, nodeVars, boundVars>>

\* What the handler makes of a reply in which the node refuses: for XRP and OMNI
\* ret is true since the call itself went well.
Refused(w) == IF kind[job[w].order] \in {"XRP", "OMNI"} THEN Answer(w, "empty") ELSE Fail(w)

\* Slip: ret is not set to true.
Send_KeepsRet(w) ==
  /\ At(w, "send")
  /\ IF Accepts(job[w]) THEN Accept(job[w]) /\ Fail(w) ELSE Refused(w) /\ UNCHANGED nodeVars
  /\ UNCHANGED <<kind, lost, opened, boundVars>>

\* Slip: a reply in which the node refuses is not told from the other.
Send_Unchecked(w) ==
  /\ At(w, "send") /\ Answer(w, "txid")
  /\ IF Accepts(job[w]) THEN Accept(job[w]) ELSE UNCHANGED nodeVars
  /\ UNCHANGED <<kind, lost, opened, boundVars>>

\* The last call: sendrawtransaction, submit, omni_funded_send, push_transaction.
Send(w) ==
  /\ At(w, "send")
  /\ IF Accepts(job[w]) THEN Accept(job[w]) /\ Answer(w, "txid")
                        ELSE Refused(w) /\ UNCHANGED nodeVars
  /\ UNCHANGED <<kind, lost, opened, boundVars>>

\* The node refuses for a reason of its own.
SendRefused(w) ==
  /\ At(w, "send") /\ Fault /\ Refused(w)
  /\ UNCHANGED <<kind, lost, opened, nodeVars>>

\* The node accepts, its reply comes after the timeout of 120 seconds or never.
ReplyLost(w) ==
  /\ At(w, "send") /\ Accepts(job[w]) /\ Fault
  /\ Accept(job[w]) /\ Fail(w)
  /\ lost' = IF job[w].live THEN [lost EXCEPT ![job[w].order] = @ + 1] ELSE lost
  /\ UNCHANGED <<kind, opened>>

\* A call that does not reach the node.
CallFails(w) ==
  /\ job[w] # Idle /\ ~At(w, "get") /\ Fault /\ Fail(w)
  /\ UNCHANGED <<kind, lost, opened, nodeVars>>

Transfer(w) ==
  \/ ListUnspent(w) \/ ListFeeOutputs(w) \/ Prepare(w) \/ GetInfo(w)
  \/ OpenWallet(w) \/ ReadKey(w) \/ GetNonce(w) \/ Send(w)

-------------------------------------------------------------------------------
(* The rest of the server.                                                 *)

\* setPrivateKey, in the scheduler thread (module AddressPool).
SchedulerOpens ==
  /\ opens < MaxOpens /\ opens' = opens + 1
  /\ opened = "none" /\ opened' = "scheduler"
  /\ UNCHANGED <<kind, order, lost, job, nodeVars, faults, restarts>>

SchedulerCloses ==
  /\ opened = "scheduler" /\ opened' = "none"
  /\ UNCHANGED <<kind, order, lost, job, nodeVars, boundVars>>

Restart ==
  /\ restarts < MaxRestarts /\ restarts' = restarts + 1
  /\ LET broken == {job[w].order : w \in {v \in Worker : job[v].live}} IN
       /\ order' = [o \in Order |-> IF o \in broken THEN AfterError(o) ELSE order[o]]
       /\ lost' = [o \in Order |-> IF o \in broken THEN lost[o] + 1 ELSE lost[o]]
  /\ job' = [w \in Worker |-> Idle] /\ opened' = "none"
  /\ UNCHANGED <<kind, nodeVars, opens, faults>>

Next ==
  \/ \E w \in Worker, o \in Order : Ask(w, o)
  \/ \E w \in Worker : Transfer(w) \/ HangUp(w) \/ SendRefused(w) \/ ReplyLost(w) \/ CallFails(w)
  \/ \E c \in Coin : Mine(c)
  \/ SchedulerOpens \/ SchedulerCloses \/ Restart

Spec == Init /\ [][Next]_vars

\* Workers go on (calls to nodes have a timeout), the scheduler closes wallet_db,
\* blocks are mined, and callers ask again, behind whom the queue is fair.
FairSpec ==
  /\ Spec /\ WF_vars(SchedulerCloses)
  /\ \A w \in Worker : WF_vars(Transfer(w))
  /\ \A c \in Coin : WF_vars(Mine(c))
  /\ \A o \in Order : SF_vars(\E w \in Worker : Ask(w, o))

-------------------------------------------------------------------------------
(* Properties.                                                             *)

TypeOK ==
  /\ kind \in [Order -> Coin] /\ lost \in [Order -> Nat]
  /\ order \in [Order -> {"ready", "asked", "failed", "txid", "empty", "text"}]
  /\ \A w \in Worker :
       \/ job[w] = Idle
       \/ job[w].order \in Order /\ job[w].pc \in DOMAIN Calls[kind[job[w].order]]
  /\ opened \in Worker \cup {"none", "scheduler"} /\ \A w \in Worker : opened = w <=> At(w, "get")
  /\ mempool \cap mined = {} /\ \A t \in Accepted : t.order \in Order
  /\ head \in Nat /\ opens \in Nat /\ faults \in Nat /\ restarts \in Nat

\* A caller who asks again after `rpc call fail!` (relay.cpp:147) pays twice only
\* if an answer was lost: no error is reported for a payment the node accepted,
\* whatever other workers do between the calls.
ErrorMeansUnpaid ==
  \A o \in Order :
    Cardinality(Payments(o)) <= lost[o] + (IF order[o] = "txid" THEN 1 ELSE 0)

\* A caller who is told a transaction id is paid for in the end.  With different
\* fees of two ETH orders the later one replaces the other if both read the same
\* nonce (ethwalletweb3.py:202).
TxidMeansPaid == \A o \in Order : order[o] = "txid" => Payments(o) # {}

\* An order that is asked again after errors is answered in the end: neither
\* workers that take one another's outputs and nonces nor the use of wallet_db
\* in other threads keeps it from being answered, and wallet_db is closed again.
Settled == \A o \in Retried : <>(order[o] \in {"txid", "empty", "text"})

\* A success without a payment: OMNI without a free output for the fee, XRP
\* and OMNI if the node refuses, ERC20 with a small fee.
SuccessMeansPaid == \A o \in Order : order[o] \in {"txid", "empty", "text"} => Payments(o) # {}
================================================================================
