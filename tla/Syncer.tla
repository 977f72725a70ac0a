-------------------------------- MODULE Syncer --------------------------------
(***************************************************************************)
(* The monitor process (monitor/src/syncer.cpp): one libevent thread that  *)
(* polls a block-chain node per coin, collects SQL statements for every    *)
(* transaction that touches an address of the wallet, reports each such    *)
(* transaction to the merchant's callback URL, and now and then commits    *)
(* the collected statements together with a `block` row, the scan point    *)
(* from which the next pass (also the first one after a restart) resumes.  *)
(*                                                                         *)
(* The five scan functions share one control structure; what differs       *)
(* between them is named below (Polled, ReportsPending, FirstHeight,       *)
(* LastHeight, IsFlushPoint, AbandonsPass, ...) and parameterised by the   *)
(* coin.  Every RPC and every commit is an action of its own, so that      *)
(* crashes, lost connections, new blocks, reorganisations and new          *)
(* addresses fall between any two of them.                                 *)
(*                                                                         *)
(* Data abstracted: a block is the set of its transactions, a transaction  *)
(* pays one address, amounts, flags (see BtcUtxo) and the `txaccount` rows *)
(* that go with the `txutxo` rows are left out.                            *)
(*                                                                         *)
(* An operator named X_Suffix is X with a plausible slip; it is used only  *)
(* to show that a property would notice it.                                *)
(***************************************************************************)
EXTENDS Integers, Sequences, FiniteSets

CONSTANTS
  Coin,            \* the coins scanned, a subset of AllCoins
  Tx,              \* transactions
  CoinOf,          \* [Tx -> Coin]
  Address,         \* addresses on all chains
  AddressOf,       \* [Tx -> Address], the address a transaction pays
  Wallet,          \* [Coin -> SUBSET Address], addresses the server may create
  InitialAccount,  \* addresses in table account before the monitor is set up
  Every,           \* [Coin -> Nat], blocks between scan points (100, ETH 500)
  EOSStart,        \* first block scanEOS asks for (56264 + 1)
  Reorging,        \* coins whose node may replace its latest block
  ConnectionDrops, \* whether the database connection may be lost
  MaxHeight,       \* bound: blocks per chain
  RowCap,          \* bound: row counts are not told apart from RowCap on
  MaxFaults,       \* bound: failed RPCs, database statements and connections
  MaxCrashes       \* bound: deaths of the process

AllCoins == {"BTC", "ETH", "XRP", "EOS", "OMNI"}
ReCallbackTask == "ReCallback"
Task == Coin \cup {ReCallbackTask}

\* Every address the server may create.
WalletAddress == UNION {Wallet[c] : c \in Coin}

ASSUME CoinAssumption == Coin \subseteq AllCoins
ASSUME TxAssumption ==
  /\ CoinOf \in [Tx -> Coin]
  /\ AddressOf \in [Tx -> Address]
  /\ Wallet \in [Coin -> SUBSET Address]
  /\ InitialAccount \subseteq WalletAddress
ASSUME BoundAssumption ==
  /\ Every \in [Coin -> Nat \ {0}] /\ EOSStart \in Nat \ {0}
  /\ Reorging \subseteq Coin /\ ConnectionDrops \in BOOLEAN
  /\ MaxHeight \in Nat /\ MaxFaults \in Nat /\ MaxCrashes \in Nat
  /\ RowCap \in Nat \ {0}

VARIABLES
  \* the nodes and the server
  chain,           \* [Coin -> Seq(SUBSET Tx)], the node's best chain
  account,         \* addresses in table account
  \* the database
  utxo,            \* [Tx -> 0..RowCap], rows of table txutxo
  marker,          \* [Coin -> Nat], MAX(height) of table block
  \* what the database turned away, known to nobody
  refused,         \* transactions with a txutxo row that was not stored
  unmarked,        \* [Coin -> Nat], height of the latest `block` row if it was not
  \* the merchant
  posted,          \* transactions whose callback was answered
  acked,           \* transactions whose callback was answered other than 1
  \* the process
  up, dbup,        \* running; its database connection is usable
  boot,            \* tasks registerTask has yet to call
  armed,           \* tasks whose timer is pending
  known,           \* [Coin -> SUBSET Address], s_address_id_*, *_base_address_
  vect_sql,        \* [Tx -> 0..RowCap], txutxo rows in vect_sql_
  s_json_callback, \* transactions to report again
  task, step,      \* the scan running and what it does next
  i, height, todo, \* its loop variables; transactions of block i left to do
  \* budgets
  faults, crashes

nodeVars == <<chain, account>>
dbVars == <<utxo, marker, refused, unmarked>>
merchantVars == <<posted, acked>>
timerVars == <<boot, armed>>
scanVars == <<task, step, i, height, todo>>
budgetVars == <<faults, crashes>>
vars == <<nodeVars, dbVars, merchantVars, up, dbup, timerVars, known,
          vect_sql, s_json_callback, scanVars, budgetVars>>

-------------------------------------------------------------------------------
(* The differences between the scan functions.                             *)

\* The address map is read from table account by every timer callback; XRP and
\* EOS have one base address each, read once by init().
Polled == {"BTC", "ETH", "OMNI"}

\* scanEOS records every transfer: it sets the flag from the base address but
\* never skips a transfer that has it on neither side.
IsRecorded(c, t) == c = "EOS" \/ AddressOf[t] \in known[c]

\* Slip: the next pass starts with the block scanned last.
FirstHeight_Again(c) == marker[c]

\* Slip: the next pass leaves one block out.
FirstHeight_Skips(c) == marker[c] + 2


\* scanEOS has pre_height + 1 commented out and a constant in its place.
FirstHeight(c) == IF c = "EOS" THEN EOSStart ELSE marker[c] + 1

\* scanETH asks for the pending block, which is not in the chain yet.
LastHeight(c) == IF c = "ETH" THEN Len(chain[c]) + 1 ELSE Len(chain[c])

\* Slip: the last block of a pass gets no `block` row of its own.
IsFlushPoint_RoundOnly(c) == i % Every[c] = 0


\* Whether the block just scanned gets a `block` row and a commit.
IsFlushPoint(c) ==
  IF c = "ETH" THEN i % Every[c] = 0 /\ i = height
               ELSE i % Every[c] = 0 \/ i = height

\* A transaction is fetched by an RPC of its own, except on ETH.
FetchesTx == Coin \ {"ETH"}

\* Slip: no scan looks at `ok` after the loop over the transactions.
AbandonsPass_Never == {}

\* scanBTC leaves the pass when that RPC fails (`ok`); the others only leave
\* the loop over the block's transactions.
AbandonsPass == {"BTC"}

\* An answer without the block (status, validated, result, transactions) makes
\* these scans `continue` with the next height.
SkipsBlock == {"ETH", "XRP", "EOS"}

\* An answer without the transaction makes these continue with the next one.
SkipsTx == {"XRP", "EOS", "OMNI"}

Capped(n) == IF n > RowCap THEN RowCap ELSE n

-------------------------------------------------------------------------------
NoRows == [t \in Tx |-> 0]

Init ==
  /\ chain = [c \in Coin |-> <<>>] /\ account = InitialAccount
  /\ utxo = NoRows /\ marker = [c \in Coin |-> 0]
  /\ refused = {} /\ unmarked = [c \in Coin |-> 0]
  /\ posted = {} /\ acked = {}
  /\ up = FALSE /\ dbup = FALSE /\ boot = {} /\ armed = {}
  /\ known = [c \in Coin |-> {}]
  /\ vect_sql = NoRows /\ s_json_callback = {}
  /\ task = "none" /\ step = "tip" /\ i = 0 /\ height = 0 /\ todo = {}
  /\ faults = 0 /\ crashes = 0

-------------------------------------------------------------------------------
(* The node and the server.                                                *)

Mined(c) == UNION {chain[c][h] : h \in DOMAIN chain[c]}

\* Nobody pays an address of the wallet before the server created it.
Mempool(c) == {t \in Tx : /\ CoinOf[t] = c
                          /\ t \notin Mined(c)
                          /\ AddressOf[t] \in Wallet[c] => AddressOf[t] \in account}

Mine(c) ==
  /\ Len(chain[c]) < MaxHeight
  /\ \E b \in SUBSET Mempool(c) : chain' = [chain EXCEPT ![c] = Append(@, b)]
  /\ UNCHANGED <<account, dbVars, merchantVars, up, dbup, timerVars, known,
                 vect_sql, s_json_callback, scanVars, budgetVars>>

Reorg(c) ==
  /\ c \in Reorging /\ chain[c] # <<>>
  /\ \E b \in SUBSET (Mempool(c) \cup chain[c][Len(chain[c])]) :
       chain' = [chain EXCEPT ![c][Len(chain[c])] = b]
  /\ UNCHANGED <<account, dbVars, merchantVars, up, dbup, timerVars, known,
                 vect_sql, s_json_callback, scanVars, budgetVars>>

\* The server adds addresses while the monitor runs.
CreateAddress ==
  /\ \E a \in WalletAddress \ account : account' = account \cup {a}
  /\ UNCHANGED <<chain, dbVars, merchantVars, up, dbup, timerVars, known,
                 vect_sql, s_json_callback, scanVars, budgetVars>>

-------------------------------------------------------------------------------
(* The life of the process.                                                *)

\* main(), Syncer::init: the address in the first row is the base address of
\* XRP, likewise of EOS; without one init throws or asserts.  (After a SELECT of the
\* nodes that failed every pass returns at once: faults without bound.)
Start ==
  /\ ~up
  /\ up' = TRUE /\ dbup' = TRUE
  /\ boot' = Task
  /\ \E base \in [Coin \ Polled -> account] :
       /\ \A c \in Coin \ Polled : base[c] \in Wallet[c]
       /\ known' = [c \in Coin |-> IF c \in Polled THEN {} ELSE {base[c]}]
  /\ UNCHANGED <<nodeVars, dbVars, merchantVars, armed, vect_sql,
                 s_json_callback, scanVars, budgetVars>>

\* The process dies: everything but the database and the merchant is lost.
Die ==
  /\ crashes < MaxCrashes /\ crashes' = crashes + 1
  /\ up' = FALSE /\ dbup' = FALSE /\ boot' = {} /\ armed' = {}
  /\ known' = [c \in Coin |-> {}]
  /\ vect_sql' = NoRows /\ s_json_callback' = {}
  /\ task' = "none" /\ step' = "tip" /\ i' = 0 /\ height' = 0 /\ todo' = {}
  /\ UNCHANGED <<nodeVars, dbVars, faults>>

Crash == up /\ Die /\ UNCHANGED merchantVars

Fault == faults < MaxFaults /\ faults' = faults + 1 /\ UNCHANGED crashes

\* Nothing reconnects: the handle stays unusable until the process restarts.
LoseConnection ==
  /\ ConnectionDrops /\ up /\ dbup /\ Fault
  /\ dbup' = FALSE
  /\ UNCHANGED <<nodeVars, dbVars, merchantVars, up, timerVars, known,
                 vect_sql, s_json_callback, scanVars>>

-------------------------------------------------------------------------------
(* Timers.                                                                 *)

RegisterOrder == [BTC |-> 1, ETH |-> 2, XRP |-> 3, EOS |-> 4, OMNI |-> 5,
                  ReCallback |-> 6]

\* REFLEX_TASK calls each task once, in order, before the event loop runs.
MayFire(k) ==
  /\ up /\ task = "none"
  /\ IF boot = {} THEN k \in armed
                  ELSE k \in boot /\ \A l \in boot : RegisterOrder[k] <= RegisterOrder[l]

\* ScanBTC, ScanETH, ScanXRP, ScanEOS, ScanOMNI_USDT up to the call of the scan
\* function.  A SELECT that fails adds nothing to the map, and an empty map
\* returns before SetTimeout.
ScanTimer(c) ==
  /\ MayFire(c)
  /\ boot' = boot \ {c} /\ armed' = armed \ {c}
  /\ \/ c \in Polled /\ dbup /\ UNCHANGED budgetVars
        /\ known' = [known EXCEPT ![c] = @ \cup (account \cap Wallet[c])]
     \/ c \in Polled /\ dbup /\ Fault /\ UNCHANGED known
     \/ ~(c \in Polled /\ dbup) /\ UNCHANGED <<known, budgetVars>>
  /\ IF known'[c] = {} THEN UNCHANGED task ELSE task' = c
  /\ UNCHANGED <<nodeVars, dbVars, merchantVars, up, dbup, vect_sql,
                 s_json_callback, step, i, height, todo>>

\* The scan function returned; the timer callback arms its timer again.
Finish(c) ==
  /\ armed' = armed \cup {c}
  /\ task' = "none" /\ step' = "tip" /\ i' = 0 /\ height' = 0 /\ todo' = {}
  /\ UNCHANGED boot

-------------------------------------------------------------------------------
(* A scan.                                                                 *)

\* Slip: the scan function's early return skips SetTimeout.
ReadHeights_Disarms(c) ==
  /\ task = c /\ step = "tip"
  /\ \/ dbup
        /\ i' = FirstHeight(c) /\ height' = LastHeight(c) /\ step' = "block"
        /\ UNCHANGED <<task, todo, timerVars, budgetVars>>
     \/ ~dbup /\ Finish(c) /\ UNCHANGED budgetVars
     \/ dbup /\ Fault /\ task' = "none" /\ UNCHANGED <<step, i, height, todo, timerVars>>
  /\ UNCHANGED <<nodeVars, dbVars, merchantVars, up, dbup, known, vect_sql,
                 s_json_callback>>

\* getCurrentHeight and the RPC that asks for the node's height; either may fail.
ReadHeights(c) ==
  /\ task = c /\ step = "tip"
  /\ \/ dbup
        /\ i' = FirstHeight(c) /\ height' = LastHeight(c) /\ step' = "block"
        /\ UNCHANGED <<task, todo, timerVars, budgetVars>>
     \/ ~dbup /\ Finish(c) /\ UNCHANGED budgetVars
     \/ dbup /\ Fault /\ Finish(c)
  /\ UNCHANGED <<nodeVars, dbVars, merchantVars, up, dbup, known, vect_sql,
                 s_json_callback>>

\* The loop over the heights is done.
PassEnds(c) ==
  /\ task = c /\ step = "block" /\ i > height
  /\ Finish(c)
  /\ UNCHANGED <<nodeVars, dbVars, merchantVars, up, dbup, known, vect_sql,
                 s_json_callback, budgetVars>>

NextHeight == i' = i + 1 /\ step' = "block" /\ todo' = {} /\ UNCHANGED <<task, height>>

\* ETH: the pending block does not exist by its number; the null result reads as
\* a block without transactions.
BlockFound(c) ==
  /\ LET b == IF i <= Len(chain[c]) THEN chain[c][i] ELSE {} IN
       IF c = "OMNI" /\ b = {}
         THEN NextHeight
         ELSE todo' = b /\ step' = "tx" /\ UNCHANGED <<task, i, height>>
  /\ UNCHANGED <<timerVars, budgetVars>>

\* A failed RPC ends the pass; what is in vect_sql_ stays there.
BlockFails(c) == Fault /\ Finish(c)

BlockSkipped(c) == c \in SkipsBlock /\ Fault /\ NextHeight /\ UNCHANGED timerVars

FetchBlock(c) ==
  /\ task = c /\ step = "block" /\ i <= height
  /\ BlockFound(c) \/ BlockFails(c) \/ BlockSkipped(c)
  /\ UNCHANGED <<nodeVars, dbVars, merchantVars, up, dbup, known, vect_sql,
                 s_json_callback>>

InBlock(c, t) == task = c /\ step = "tx" /\ t \in todo

\* A transaction to record: its row joins vect_sql_ and callbackTransaction
\* posts it; an answer with code 1 keeps it for reCallback.
RecordTx(c, t) ==
  /\ InBlock(c, t) /\ IsRecorded(c, t)
  /\ vect_sql' = [vect_sql EXCEPT ![t] = Capped(@ + 1)]
  /\ posted' = posted \cup {t}
  /\ \/ acked' = acked \cup {t} /\ UNCHANGED s_json_callback
     \/ s_json_callback' = s_json_callback \cup {t} /\ UNCHANGED acked
  /\ todo' = todo \ {t}
  /\ UNCHANGED <<nodeVars, dbVars, up, dbup, timerVars, known, task, step, i,
                 height, budgetVars>>

\* Slip: the exception is caught and the scan goes on without the callback.
CallbackThrows_Caught(c, t) ==
  /\ InBlock(c, t) /\ IsRecorded(c, t)
  /\ vect_sql' = [vect_sql EXCEPT ![t] = Capped(@ + 1)]
  /\ todo' = todo \ {t}
  /\ UNCHANGED <<nodeVars, dbVars, merchantVars, up, dbup, timerVars, known,
                 s_json_callback, task, step, i, height, budgetVars>>

\* A callback that is not answered leaves json_response null: get<int> throws
\* and nothing catches it.
CallbackThrows(c, t) ==
  /\ InBlock(c, t) /\ IsRecorded(c, t)
  /\ Die /\ UNCHANGED merchantVars

IgnoreTx(c, t) ==
  /\ InBlock(c, t) /\ ~IsRecorded(c, t)
  /\ todo' = todo \ {t}
  /\ UNCHANGED <<nodeVars, dbVars, merchantVars, up, dbup, timerVars, known,
                 vect_sql, s_json_callback, task, step, i, height, budgetVars>>

\* The RPC for the transaction fails.
TxFails(c, t) ==
  /\ InBlock(c, t) /\ c \in FetchesTx /\ Fault
  /\ IF c \in AbandonsPass
       THEN Finish(c)
       ELSE todo' = {} /\ UNCHANGED <<timerVars, task, step, i, height>>
  /\ UNCHANGED <<nodeVars, dbVars, merchantVars, up, dbup, known, vect_sql,
                 s_json_callback>>

\* The RPC answers without a usable transaction.
TxSkipped(c, t) ==
  /\ InBlock(c, t) /\ c \in SkipsTx /\ Fault
  /\ todo' = todo \ {t}
  /\ UNCHANGED <<nodeVars, dbVars, merchantVars, up, dbup, timerVars, known,
                 vect_sql, s_json_callback, task, step, i, height>>

\* The batch has run: the rows `stored` of vect_sql_ are in txutxo, and block i
\* in table block if `marked`.
Store(c, stored, marked) ==
  /\ utxo' = [t \in Tx |-> Capped(utxo[t] + stored[t])]
  /\ marker' = [marker EXCEPT ![c] = IF marked /\ i > @ THEN i ELSE @]
  /\ refused' = refused \cup {t \in Tx : stored[t] < vect_sql[t]}
  /\ unmarked' = [unmarked EXCEPT ![c] = IF marked THEN 0 ELSE i]

\* Any INSERT of the batch may fail by itself: that is logged, and the COMMIT
\* keeps the others.
StoreSome(c) ==
  \E stored \in [Tx -> 0..RowCap], marked \in BOOLEAN :
    /\ \A t \in Tx : stored[t] <= vect_sql[t]
    /\ ~(marked /\ stored = vect_sql)
    /\ Store(c, stored, marked)

\* Slip: vect_sql_ is not cleared.
RefreshDB_KeepsBuffer(c) ==
  /\ UNCHANGED vect_sql
  /\ \/ dbup /\ Store(c, vect_sql, TRUE) /\ UNCHANGED budgetVars
     \/ dbup /\ Fault /\ StoreSome(c)
     \/ ~dbup /\ UNCHANGED <<dbVars, budgetVars>>

\* refreshDB: everything in vect_sql_, whichever coin put it there, leaves the
\* buffer.  Over a lost connection all the statements fail.
RefreshDB(c) ==
  /\ vect_sql' = NoRows
  /\ \/ dbup /\ Store(c, vect_sql, TRUE) /\ UNCHANGED budgetVars
     \/ dbup /\ Fault /\ StoreSome(c)
     \/ ~dbup /\ UNCHANGED <<dbVars, budgetVars>>

\* The last transaction of block i is done.
BlockEnds(c) ==
  /\ task = c /\ step = "tx" /\ todo = {}
  /\ IF IsFlushPoint(c) THEN RefreshDB(c)
                       ELSE UNCHANGED <<dbVars, vect_sql, budgetVars>>
  /\ NextHeight
  /\ UNCHANGED <<nodeVars, merchantVars, up, dbup, timerVars, known,
                 s_json_callback>>

-------------------------------------------------------------------------------
(* Callbacks to repeat.                                                    *)

\* Slip: s_json_callback is cleared after the copy was taken.
ReCallback_Forgets ==
  /\ MayFire(ReCallbackTask)
  /\ boot' = boot \ {ReCallbackTask} /\ armed' = armed \cup {ReCallbackTask}
  /\ \E kept \in SUBSET s_json_callback : acked' = acked \cup (s_json_callback \ kept)
  /\ s_json_callback' = {}
  /\ UNCHANGED <<nodeVars, dbVars, posted, up, dbup, known, vect_sql, scanVars,
                 budgetVars>>

\* The answers decide which callbacks stay in s_json_callback.
ReCallback ==
  /\ MayFire(ReCallbackTask)
  /\ boot' = boot \ {ReCallbackTask} /\ armed' = armed \cup {ReCallbackTask}
  /\ \E kept \in SUBSET s_json_callback :
       /\ s_json_callback' = kept
       /\ acked' = acked \cup (s_json_callback \ kept)
  /\ UNCHANGED <<nodeVars, dbVars, posted, up, dbup, known, vect_sql, scanVars,
                 budgetVars>>

\* A missing answer throws, after some callbacks were acknowledged.
ReCallbackThrows ==
  /\ MayFire(ReCallbackTask) /\ s_json_callback # {}
  /\ \E S \in SUBSET s_json_callback :
       S # s_json_callback /\ acked' = acked \cup S
  /\ Die /\ UNCHANGED posted

-------------------------------------------------------------------------------
Scan(c) ==
  \/ ScanTimer(c) \/ ReadHeights(c) \/ FetchBlock(c) \/ BlockEnds(c) \/ PassEnds(c)
  \/ \E t \in Tx : \/ RecordTx(c, t) \/ IgnoreTx(c, t) \/ CallbackThrows(c, t)
                   \/ TxFails(c, t) \/ TxSkipped(c, t)

Next ==
  \/ \E c \in Coin : Mine(c) \/ Reorg(c) \/ Scan(c)
  \/ CreateAddress
  \/ Start \/ Crash \/ LoseConnection
  \/ ReCallback \/ ReCallbackThrows

Spec == Init /\ [][Next]_vars

\* Every pending timer of the libevent loop fires some time (libevent runs them
\* in the order of their deadlines), a call that began goes on (RPC and SQL calls
\* return or fail), and a dead monitor is started again by its operator.
FairSpec ==
  /\ Spec
  /\ WF_vars(Start) /\ WF_vars(ReCallback)
  /\ \A c \in Coin : SF_vars(ScanTimer(c)) /\ WF_vars(Scan(c))

-------------------------------------------------------------------------------
(* Properties.                                                             *)

TypeOK ==
  /\ chain \in [Coin -> Seq(SUBSET Tx)]
  /\ account \in SUBSET WalletAddress
  /\ utxo \in [Tx -> 0..RowCap] /\ marker \in [Coin -> Nat]
  /\ refused \in SUBSET Tx /\ unmarked \in [Coin -> Nat]
  /\ posted \in SUBSET Tx /\ acked \in SUBSET Tx
  /\ up \in BOOLEAN /\ dbup \in BOOLEAN
  /\ boot \in SUBSET Task /\ armed \in SUBSET Task
  /\ known \in [Coin -> SUBSET WalletAddress]
  /\ vect_sql \in [Tx -> 0..RowCap] /\ s_json_callback \in SUBSET Tx
  /\ task \in Coin \cup {"none"} /\ step \in {"tip", "block", "tx"}
  /\ i \in Nat /\ (step # "tip" => i > 0)
  /\ height \in Nat /\ todo \in SUBSET Tx
  /\ faults \in Nat /\ crashes \in Nat

\* Addresses of coin c that the server had created before the monitor was set up.
FirstAccounts(c) == InitialAccount \cap Wallet[c]

\* The blocks below EOSStart are not scanned.
FirstScanned(c) == IF c = "EOS" THEN EOSStart ELSE 1

\* A transaction is in txutxo, or an INSERT of its row failed.
Settled(t) == utxo[t] > 0 \/ t \in refused

\* Every transaction that pays an address of A at or below the scan point, the
\* highest `block` row, is settled.
RecordedBelowMarker(c, A) ==
  \A h \in FirstScanned(c)..marker[c] : h <= Len(chain[c]) =>
    \A t \in chain[c][h] : AddressOf[t] \in A => Settled(t)
DepositsRecorded(c) == RecordedBelowMarker(c, FirstAccounts(c))

\* scanBTC (lines 426-429) writes no `block` row over a transaction it could
\* not fetch, so its scan point never covers a deposit that is not recorded:
\* not after failed RPCs, failed SELECTs, a lost connection, a crash at any step,
\* or commits made on behalf of the other coins that share vect_sql_.  The one
\* way past it is the deposit's own INSERT: one that fails is only logged, and
\* the `block` row after it is committed (db_mysql.cpp:47-51, 105-109).
BTCDepositsRecorded == DepositsRecorded("BTC")

\* What makes BTCDepositsRecorded inductive: during a pass over a usable
\* connection, everything the pass went by is settled or still in vect_sql_, and
\* an address map that is not empty has all the first addresses.
Held(t) == Settled(t) \/ vect_sql[t] > 0
HeldAmong(c, T) == \A t \in T : AddressOf[t] \in FirstAccounts(c) => Held(t)
PassHolds(c) ==
  dbup /\ task = c =>
    /\ FirstAccounts(c) \subseteq known[c]
    /\ step # "tip" =>
         /\ height <= Len(chain[c])
         /\ i <= Len(chain[c]) + 1 \/ i = FirstScanned(c)
         /\ \A h \in FirstScanned(c)..Len(chain[c]) :
              h < i => HeldAmong(c, chain[c][h])
    /\ step = "tx" => i <= height /\ HeldAmong(c, chain[c][i] \ todo)
MapComplete(c) == known[c] # {} => FirstAccounts(c) \subseteq known[c]
ScanPointInv(c) ==
  /\ InitialAccount \subseteq account
  /\ ~up => task = "none"
  /\ task = "none" => step = "tip"
  /\ MapComplete(c)
  /\ marker[c] <= Len(chain[c])
  /\ DepositsRecorded(c)
  /\ PassHolds(c)
BTCScanPointInv == "BTC" \notin Reorging => ScanPointInv("BTC")

\* A deposit reaches txutxo only after the merchant answered its callback: the
\* row and the callback are made in one step, and a callback that gets no
\* answer takes the uncommitted row down with the process (lines 261-282).
ReportedBeforeRecorded == \A t \in Tx : utxo[t] > 0 => t \in posted

\* Rows and scan point leave in one database transaction (batchRefreshDB), so a
\* crash at any moment makes scanBTC and scanXRP neither lose nor repeat a row:
\* without failed RPCs, statements or connections every deposit has at most one.
RecordedOnce ==
  faults = 0 =>
    \A t \in Tx : CoinOf[t] \in {"BTC", "XRP"} \ Reorging => utxo[t] <= 1

\* While the process lives, a callback the merchant answered with code 1 stays
\* in s_json_callback until it is acknowledged (reCallback, lines 236-259).
RetriesKept == crashes = 0 => posted \subseteq acked \cup s_json_callback

\* Once a scan has addresses to look for, its timer is pending again whenever
\* it does not run, on every path out of the scan (SetTimeout, lines 16-107).
TimerKept ==
  \A c \in Coin : up /\ known[c] # {} => c \in boot \cup armed \cup {task}

\* A pass of scanBTC that got through to the height it set out for leaves the
\* scan point there, so the next pass starts with the next block (line 431),
\* unless that very `block` row was refused; then the next pass repeats blocks.
PassMovesScanPoint ==
  [][PassEnds("BTC") /\ dbup =>
       marker["BTC"] = height \/ unmarked["BTC"] = height]_vars

\* Whatever the address map held when a pass of scanBTC began is held for each
\* block the pass completes, also for addresses the server created after the
\* monitor started, unless the INSERT of the row failed.
KnownDepositsHeld ==
  [][BlockEnds("BTC") /\ dbup /\ "BTC" \notin Reorging =>
       \A t \in chain["BTC"][i] : AddressOf[t] \in known["BTC"] => Held(t)']_vars

\* XRP and EOS look for one base address: init takes the first row it finds.
OneBase(c) == c \notin Polled => \A a, b \in Wallet[c] : a = b

\* A scan loses a payment to an address that was there when the monitor was set
\* up only after an RPC or a database statement failed or the connection was
\* lost: crashes, merchants who do not answer and commits for other coins are no
\* reason.  (BTCLateDepositsRecorded tells of addresses created later; the scan
\* of ETH is left out, see the next property.)
LossNeedsFault ==
  faults = 0 =>
    \A c \in Coin \ (Reorging \cup {"ETH"}) : OneBase(c) => DepositsRecorded(c)

\* A scan point of ETH is a pending block at a multiple of 500 (line 645), and
\* without faults such a block is all that it may cover without a row.
ETHLossConfined ==
  faults = 0 /\ "ETH" \in Coin \ Reorging =>
    \A h \in 1..marker["ETH"] : h <= Len(chain["ETH"]) /\ h % Every["ETH"] # 0 =>
      \A t \in chain["ETH"][h] : AddressOf[t] \in FirstAccounts("ETH") => utxo[t] > 0

\* What the comment on table block says of all coins: `block` is kept as the
\* point up to which the chain was scanned (doc/otc.sql:41).  For scanXRP, whose
\* `break` at line 733 only leaves the loop over the transactions:
XRPDepositsRecorded == DepositsRecorded("XRP")

\* For scanOMNI_USDT, whose `break` at line 1007 does the same:
OMNIDepositsRecorded == DepositsRecorded("OMNI")

\* For scanETH, whose only scan points (line 645) are pending blocks:
ETHDepositsRecorded == DepositsRecorded("ETH")

\* For scanETH: a pass that got through leaves the scan point at the latest
\* block, the one below the pending block it ended with.
ETHPassMovesScanPoint ==
  [][PassEnds("ETH") /\ dbup => marker["ETH"] >= height - 1]_vars

\* A transfer is one row (doc/otc.sql:124), although scanETH buffers the rows of
\* a block in each of the passes that write no scan point.
ETHRecordedOnce == faults = 0 => \A t \in Tx : CoinOf[t] = "ETH" => utxo[t] <= 1

\* The same, whenever the server created the address: nobody can pay an address
\* before it is in table account.
BTCLateDepositsRecorded == RecordedBelowMarker("BTC", Wallet["BTC"])

\* The comment on table block without the exception for refused rows: a scan
\* point says that the deposits up to it are in txutxo.
BTCRowsBelowMarker ==
  \A h \in 1..marker["BTC"] : h <= Len(chain["BTC"]) =>
    \A t \in chain["BTC"][h] : AddressOf[t] \in FirstAccounts("BTC") => utxo[t] > 0

\* A transfer is one row: txutxo.txid is `the unique identifier of the
\* transaction` (doc/otc.sql:124).
EOSRecordedOnce == \A t \in Tx : CoinOf[t] = "EOS" => utxo[t] <= 1

\* A row's address is `the output address, the one that receives the coins`
\* (doc/otc.sql:126): a row stands for a transfer that pays the wallet.
EOSRecordsOwn ==
  \A t \in Tx : CoinOf[t] = "EOS" /\ utxo[t] > 0 => AddressOf[t] \in Wallet["EOS"]

\* A scan that found no address when its timer fired has no timer any more.
Stopped(c) == up /\ known[c] = {} /\ c \notin boot \cup armed



\* The monitor implements the abstract ledger for BTC.
BTC == INSTANCE DepositLedger WITH
  Payment <- {t \in Tx : CoinOf[t] = "BTC"},
  Owed <- {t \in Tx : AddressOf[t] \in FirstAccounts("BTC")},
  chain <- chain["BTC"],
  recorded <- {t \in Tx : CoinOf[t] = "BTC" /\ utxo[t] > 0},
  refused <- {t \in refused : CoinOf[t] = "BTC"},
  scanPoint <- marker["BTC"]
BTCLedger == BTC!LedgerSpec
===============================================================================
