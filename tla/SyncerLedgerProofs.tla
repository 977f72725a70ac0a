--------------------------- MODULE SyncerLedgerProofs ---------------------------
(***************************************************************************)
(* More about Syncer.  While no RPC, statement or connection fails: no row *)
(* is written twice, and what a scan point of ETH may pass over.  In any   *)
(* case: callbacks, timers, what a pass of scanBTC leaves behind, and that *)
(* the monitor implements DepositLedger for BTC.                           *)
(***************************************************************************)
EXTENDS SyncerProofs

-------------------------------------------------------------------------------
(* While nothing fails.                                                    *)

\* Where the process is.
Calm ==
  /\ ~up => task = "none"
  /\ task = "none" => step = "tip"
  /\ faults = 0 /\ up => dbup

\* A row of t is in txutxo or in vect_sql_.
Rowed(t) == utxo[t] > 0 \/ vect_sql[t] > 0

LEMMA CommitRows ==
  ASSUME TypeOK, NEW c \in Coin, RefreshDB(c), dbup, ~Fault
  PROVE  /\ marker' = [marker EXCEPT ![c] = IF i > @ THEN i ELSE @]
         /\ \A t \in Tx : /\ utxo'[t] = Capped(utxo[t] + vect_sql[t]) /\ vect_sql'[t] = 0
                          /\ utxo[t] > 0 => utxo'[t] > 0
                          /\ Rowed(t) => utxo'[t] > 0
                          /\ Rowed(t)' => Rowed(t)
<1>1. utxo' = [t \in Tx |-> Capped(utxo[t] + vect_sql[t])] /\ vect_sql' = NoRows
      /\ marker' = [marker EXCEPT ![c] = IF i > @ THEN i ELSE @]
  BY CommitCalm, CommitFacts
<1>2. ASSUME NEW t \in Tx
      PROVE  /\ utxo'[t] = Capped(utxo[t] + vect_sql[t]) /\ vect_sql'[t] = 0
             /\ utxo[t] \in Nat /\ vect_sql[t] \in Nat
             /\ utxo'[t] > 0 <=> utxo[t] + vect_sql[t] > 0
  <2>1. utxo[t] \in Nat /\ vect_sql[t] \in Nat /\ utxo[t] + vect_sql[t] \in Nat
    BY BoundAssumption DEF TypeOK
  <2>2. utxo'[t] = Capped(utxo[t] + vect_sql[t]) /\ vect_sql'[t] = 0
    BY <1>1 DEF NoRows
  <2> QED
    BY <2>1, <2>2, CappedType
<1> QED
  BY <1>1, <1>2 DEF Rowed

\* What a step of the scan of c does when nothing fails.
Begins(c) == ScanTimer(c) \/ ReadHeights(c)
Goes(c) ==
  \/ FetchBlock(c) /\ BlockFound(c)
  \/ \E t \in Tx : RecordTx(c, t) \/ IgnoreTx(c, t)
  \/ BlockEnds(c) \/ PassEnds(c)

LEMMA StepKinds ==
  ASSUME TypeOK, [Next]_vars, faults' = 0
  PROVE  \/ \E c \in Coin : Mine(c) \/ Reorg(c)
         \/ CreateAddress \/ Start \/ Die \/ ReCallback \/ UNCHANGED vars
         \/ \E c \in Coin : Begins(c) \/ Goes(c)
<1>1. ~Fault
  BY NoFault
<1>2. ASSUME NEW c \in Coin, FetchBlock(c) PROVE BlockFound(c)
  BY <1>1, <1>2 DEF FetchBlock, BlockFails, BlockSkipped
<1>3. ASSUME NEW c \in Coin, NEW t \in Tx, TxFails(c, t) \/ TxSkipped(c, t) PROVE FALSE
  BY <1>1, <1>3 DEF TxFails, TxSkipped
<1> QED
  BY <1>1, <1>2, <1>3
  DEF Next, Scan, Begins, Goes, Crash, CallbackThrows, ReCallbackThrows, LoseConnection

LEMMA CalmStep == ASSUME TypeOK, Calm, [Next]_vars PROVE Calm'
<1> USE DEF Calm, scanVars, timerVars, budgetVars
<1>1. \A c \in Coin : c # "none"
  BY CoinAssumption DEF AllCoins
<1>2. CASE UNCHANGED <<up, dbup, task, step>> /\ (faults' = faults \/ Fault)
  BY <1>2 DEF Fault, TypeOK
<1>3. CASE Start
  BY <1>3 DEF Start
<1>4. CASE Die
  BY <1>4 DEF Die
<1>5. CASE LoseConnection
  BY <1>5 DEF LoseConnection, Fault, TypeOK
<1>6. ASSUME NEW c \in Coin, ScanTimer(c) PROVE Calm'
  <2>1. faults' = faults \/ Fault
    BY <1>6 DEF ScanTimer
  <2> QED
    BY <1>1, <1>6, <2>1 DEF ScanTimer, MayFire, Fault, TypeOK
<1>7. ASSUME NEW c \in Coin, task = c, UNCHANGED <<up, dbup>>, faults' = faults \/ Fault,
             Finish(c) \/ task' = task
      PROVE  Calm'
  BY <1>1, <1>7 DEF Finish, Fault, TypeOK
<1>8. ASSUME NEW c \in Coin, ReadHeights(c) \/ FetchBlock(c) \/ BlockEnds(c) \/ PassEnds(c)
      PROVE  Calm'
  <2>1. CASE BlockEnds(c)
    BY <1>7, <2>1, CommitFacts DEF BlockEnds, NextHeight
  <2> QED
    BY <1>7, <1>8, <2>1
    DEF ReadHeights, FetchBlock, BlockFound, BlockFails, BlockSkipped, NextHeight, PassEnds
<1>9. ASSUME NEW c \in Coin, NEW t \in Tx,
             RecordTx(c, t) \/ IgnoreTx(c, t) \/ TxFails(c, t) \/ TxSkipped(c, t)
      PROVE  Calm'
  BY <1>7, <1>9 DEF RecordTx, IgnoreTx, TxFails, TxSkipped, InBlock
<1> QED
  BY <1>2, <1>3, <1>4, <1>5, <1>6, <1>8, <1>9
  DEF Next, Scan, Mine, Reorg, CreateAddress, Crash, CallbackThrows, ReCallback,
      ReCallbackThrows, vars

LEMMA CalmHolds == Spec => []Calm
<1>1. Init => Calm
  BY DEF Init, Calm
<1> QED
  BY <1>1, CalmStep, TypeCorrect, PTL DEF Spec

-------------------------------------------------------------------------------
(* One row per deposit.                                                    *)

\* A transaction is in one block of its coin; a row in txutxo is of a block at
\* or below the scan point, one in vect_sql_ of a block the pass has gone by.
OnceInv(c) ==
  /\ marker[c] <= Len(chain[c])
  /\ \A g, h \in 1..Len(chain[c]) : \A t \in chain[c][g] : t \in chain[c][h] => g = h
  /\ task = c /\ step # "tip" =>
       /\ height <= Len(chain[c]) /\ marker[c] < i /\ i <= height + 1
       /\ i > height => marker[c] = height
       /\ step = "tx" => i <= height /\ todo \subseteq chain[c][i]
  /\ \A h \in 1..Len(chain[c]) : \A t \in chain[c][h] :
       /\ utxo[t] > 0 => utxo[t] = 1 /\ vect_sql[t] = 0 /\ h <= marker[c]
       /\ vect_sql[t] > 0 => /\ vect_sql[t] = 1 /\ task = c /\ step # "tip" /\ marker[c] < h
                             /\ h < i \/ (h = i /\ step = "tx" /\ t \notin todo)
  /\ \A t \in Tx : CoinOf[t] = c /\ Rowed(t) => t \in Mined(c)

\* Every coin's blocks and the transactions at hand are of that coin.
OwnCoin ==
  /\ \A c \in Coin : \A h \in 1..Len(chain[c]) : \A t \in chain[c][h] : CoinOf[t] = c
  /\ task \in Coin /\ step = "tx" => \A t \in todo : CoinOf[t] = task

LEMMA OwnCoinStep ==
  ASSUME TypeOK, TypeOK', Calm, OwnCoin, [Next]_vars
  PROVE  OwnCoin'
<1> USE DEF OwnCoin
<1>1. ASSUME UNCHANGED chain,
             task' \in Coin /\ step' = "tx" => task' = task /\ step = "tx" /\ todo' \subseteq todo
      PROVE  OwnCoin'
  BY <1>1
<1>2. ASSUME NEW c \in Coin, Mine(c) \/ Reorg(c) PROVE OwnCoin'
  <2>1. UNCHANGED scanVars /\ \A d \in Coin \ {c} : chain'[d] = chain[d]
    BY <1>2 DEF Mine, Reorg, TypeOK
  <2>2. \A h \in 1..Len(chain'[c]) : \A t \in chain'[c][h] : CoinOf[t] = c
    <3>1. chain[c] \in Seq(SUBSET Tx) /\ Len(chain[c]) \in Nat
      BY CoinType
    <3>2. CASE Mine(c)
      <4>1. PICK b \in SUBSET {t \in Tx : CoinOf[t] = c} : chain'[c] = Append(chain[c], b)
        BY <3>2 DEF Mine, Mempool, TypeOK
      <4> QED
        BY <3>1, <4>1
    <3>3. CASE Reorg(c)
      <4>1. Len(chain[c]) \in 1..Len(chain[c])
        BY <3>1, <3>3 DEF Reorg
      <4>2. Mempool(c) \cup chain[c][Len(chain[c])] \subseteq {t \in Tx : CoinOf[t] = c}
        BY <3>1, <4>1 DEF Mempool
      <4>3. PICK b \in SUBSET (Mempool(c) \cup chain[c][Len(chain[c])]) :
                 chain' = [chain EXCEPT ![c][Len(chain[c])] = b]
        BY <3>3 DEF Reorg
      <4>4. /\ Len(chain'[c]) = Len(chain[c])
            /\ \A h \in 1..Len(chain[c]) :
                 chain'[c][h] = IF h = Len(chain[c]) THEN b ELSE chain[c][h]
        BY <3>1, <4>3, SMTT(30) DEF TypeOK
      <4> QED
        BY <4>2, <4>4
    <3> QED
      BY <1>2, <3>2, <3>3
  <2> QED
    BY <2>1, <2>2 DEF scanVars
<1>3. CASE CreateAddress \/ Start \/ Die \/ LoseConnection \/ ReCallback \/ UNCHANGED vars
  BY <1>1, <1>3
  DEF CreateAddress, Start, Die, LoseConnection, ReCallback, nodeVars, scanVars, vars
<1>4. ASSUME NEW c \in Coin, ScanTimer(c) PROVE OwnCoin'
  <2>1. step' = "tip"
    BY <1>4 DEF ScanTimer, MayFire, Calm
  <2> QED
    BY <1>1, <1>4, <2>1 DEF ScanTimer, nodeVars
<1>5. ASSUME NEW c \in Coin, ReadHeights(c) \/ PassEnds(c) \/ BlockEnds(c) PROVE OwnCoin'
  BY <1>1, <1>5 DEF ReadHeights, PassEnds, BlockEnds, NextHeight, Finish, nodeVars
<1>6. ASSUME NEW c \in Coin, FetchBlock(c) PROVE OwnCoin'
  <2>1. UNCHANGED chain /\ task = c /\ step = "block"
    BY <1>6 DEF FetchBlock, nodeVars
  <2>2. CASE step' = "tx"
    <3>1. task' = c /\ todo' = IF i <= Len(chain[c]) THEN chain[c][i] ELSE {}
      BY <1>6, <2>1, <2>2
      DEF FetchBlock, BlockFound, BlockFails, BlockSkipped, NextHeight, Finish
    <3>2. i \in Nat /\ i > 0 /\ Len(chain[c]) \in Nat
      BY <2>1 DEF TypeOK
    <3> QED
      BY <2>1, <3>1, <3>2
  <2>3. CASE step' # "tx"
    BY <1>1, <2>1, <2>3
  <2> QED
    BY <2>2, <2>3
<1>7. ASSUME NEW c \in Coin, NEW t \in Tx,
             RecordTx(c, t) \/ IgnoreTx(c, t) \/ TxFails(c, t) \/ TxSkipped(c, t)
      PROVE  OwnCoin'
  BY <1>1, <1>7 DEF RecordTx, IgnoreTx, TxFails, TxSkipped, Finish, InBlock, nodeVars
<1> QED
  BY <1>2, <1>3, <1>4, <1>5, <1>6, <1>7
  DEF Next, Scan, Crash, CallbackThrows, ReCallbackThrows

LEMMA OwnCoinHolds == Spec => []OwnCoin
<1>1. Init => OwnCoin
  BY DEF Init, OwnCoin
<1> QED
  BY <1>1, OwnCoinStep, CalmHolds, TypeCorrect, PTL DEF Spec

\* The scans whose passes start at the scan point and leave it at the tip.
Exact == (Coin \cap {"BTC", "XRP"}) \ Reorging

\* A step outside the pass over c that keeps its chain, rows and scan point.
LEMMA OnceKept ==
  ASSUME TypeOK, Calm, NEW c \in Exact, OnceInv(c),
         chain'[c] = chain[c], marker'[c] = marker[c],
         \A t \in Tx : CoinOf[t] = c => utxo'[t] = utxo[t] /\ vect_sql'[t] \in {0, vect_sql[t]},
         OwnCoin,
         \/ UNCHANGED <<task, step, i, height, todo>>
         \/ /\ task' = c => step' = "tip"
            /\ (task # c \/ step = "tip" \/ \A t \in Tx : CoinOf[t] = c => vect_sql'[t] = 0)
  PROVE  OnceInv(c)'
<1>1. Mined(c)' = Mined(c)
  BY DEF Mined
<1>2. /\ marker[c] \in Nat /\ i \in Nat /\ height \in Nat /\ Len(chain[c]) \in Nat
      /\ \A t \in Tx : vect_sql[t] \in Nat
      /\ \A h \in 1..Len(chain[c]) : chain[c][h] \subseteq Tx
  BY BoundAssumption DEF TypeOK, Exact
<1>3. \A h \in 1..Len(chain[c]) : \A t \in chain[c][h] :
        t \in Tx /\ CoinOf[t] = c /\ utxo'[t] = utxo[t] /\ vect_sql'[t] \in {0, vect_sql[t]}
  BY <1>2 DEF OwnCoin, Exact
<1>4. \A t \in Tx : CoinOf[t] = c /\ Rowed(t)' => Rowed(t)
  BY <1>2 DEF Rowed
<1>5. CASE UNCHANGED <<task, step, i, height, todo>>
  BY <1>1, <1>2, <1>3, <1>4, <1>5, SMTT(30) DEF OnceInv
<1>6. CASE ~UNCHANGED <<task, step, i, height, todo>>
  <2>1. \A h \in 1..Len(chain[c]) : \A t \in chain[c][h] : vect_sql'[t] = 0
    BY <1>2, <1>3, <1>6 DEF OnceInv
  <2> QED
    BY <1>1, <1>2, <1>3, <1>4, <1>6, <2>1 DEF OnceInv
<1> QED
  BY <1>5, <1>6

\* The steps of the pass over e itself.
LEMMA OnceOwnStep ==
  ASSUME TypeOK, TypeOK', Calm, OwnCoin, NEW e \in Exact, OnceInv(e), faults = 0, ~Fault,
         Begins(e) \/ Goes(e)
  PROVE  OnceInv(e)'
<1> e \in Coin /\ e \in {"BTC", "XRP"}
  BY DEF Exact
<1>1. /\ marker[e] \in Nat /\ i \in Nat /\ height \in Nat /\ Len(chain[e]) \in Nat
      /\ \A t \in Tx : vect_sql[t] \in Nat /\ utxo[t] \in Nat
      /\ \A h \in 1..Len(chain[e]) : chain[e][h] \subseteq Tx
      /\ e # "none" /\ (step # "tip" => i > 0)
  <2>1. marker[e] \in Nat /\ Len(chain[e]) \in Nat /\ chain[e] \in Seq(SUBSET Tx) /\ e # "none"
    BY CoinType
  <2>2. \A t \in Tx : vect_sql[t] \in Nat /\ utxo[t] \in Nat
    BY BoundAssumption DEF TypeOK
  <2> QED
    BY <2>1, <2>2 DEF TypeOK
<1>2. task = e => up /\ dbup
  BY <1>1 DEF Calm
<1>3. CASE ScanTimer(e)
  <2>1. UNCHANGED <<chain, marker, utxo, vect_sql, step>> /\ step = "tip"
    BY <1>3 DEF ScanTimer, MayFire, Calm, nodeVars, dbVars
  <2> QED
    BY <2>1, OnceKept
<1>4. CASE ReadHeights(e)
  <2>1. UNCHANGED <<chain, marker, utxo, vect_sql>> /\ task = e /\ step = "tip" /\ task' = e
        /\ i' = marker[e] + 1 /\ height' = Len(chain[e]) /\ step' = "block"
    BY <1>2, <1>4 DEF ReadHeights, FirstHeight, LastHeight, nodeVars, dbVars
  <2>2. Mined(e)' = Mined(e)
    BY <2>1 DEF Mined
  <2> QED
    BY <1>1, <2>1, <2>2 DEF OnceInv, Rowed
<1>5. CASE FetchBlock(e)
  <2>1. /\ UNCHANGED <<chain, marker, utxo, vect_sql, task, i, height>> /\ task = e
        /\ step = "block" /\ step' = "tx" /\ i <= height
        /\ todo' = IF i <= Len(chain[e]) THEN chain[e][i] ELSE {}
    BY <1>5 DEF FetchBlock, BlockFound, BlockFails, BlockSkipped, nodeVars, dbVars
  <2>2. Mined(e)' = Mined(e)
    BY <2>1 DEF Mined
  <2> QED
    BY <1>1, <2>1, <2>2, SMTT(30) DEF OnceInv, Rowed
<1>6. CASE PassEnds(e)
  <2>1. UNCHANGED <<chain, marker, utxo, vect_sql>> /\ task' = "none" /\ task = e
        /\ step = "block" /\ i > height
    BY <1>6 DEF PassEnds, Finish, nodeVars, dbVars
  <2>2. \A h \in 1..Len(chain[e]) : \A t \in chain[e][h] : vect_sql[t] = 0
    BY <1>1, <2>1 DEF OnceInv
  <2>3. Mined(e)' = Mined(e)
    BY <2>1 DEF Mined
  <2> QED
    BY <1>1, <2>1, <2>2, <2>3 DEF OnceInv, Rowed
<1>7. ASSUME NEW t \in Tx, RecordTx(e, t) \/ IgnoreTx(e, t) PROVE OnceInv(e)'
  <2>1. /\ UNCHANGED <<chain, marker, utxo, task, step, i, height>> /\ task = e /\ step = "tx"
        /\ t \in todo /\ todo' = todo \ {t}
    BY <1>7 DEF RecordTx, IgnoreTx, InBlock, nodeVars, dbVars
  <2>2. \A s \in Tx \ {t} : vect_sql'[s] = vect_sql[s]
    BY <1>7 DEF RecordTx, IgnoreTx, TypeOK
  <2>3. i \in 1..Len(chain[e]) /\ t \in chain[e][i] /\ marker[e] < i
    BY <1>1, <2>1 DEF OnceInv
  <2>4. utxo[t] = 0 /\ vect_sql[t] = 0
    BY <1>1, <2>1, <2>3, SMTT(30) DEF OnceInv
  <2>5. vect_sql'[t] \in {0, 1}
    BY <1>7, <2>4, BoundAssumption DEF RecordTx, IgnoreTx, Capped, TypeOK
  <2>6. Mined(e)' = Mined(e) /\ t \in Mined(e)
    <3>1. DOMAIN chain[e] = 1..Len(chain[e])
      BY CoinType
    <3> QED
      BY <2>1, <2>3, <3>1 DEF Mined
  <2> QED
    BY <1>1, <2>1, <2>2, <2>3, <2>4, <2>5, <2>6, SMTT(30) DEF OnceInv, Rowed
<1>8. CASE BlockEnds(e)
  <2>1. /\ UNCHANGED <<chain, task, height>> /\ task = e /\ step = "tx" /\ todo = {}
        /\ i' = i + 1 /\ step' = "block" /\ todo' = {}
    BY <1>8 DEF BlockEnds, NextHeight, nodeVars
  <2>2. Mined(e)' = Mined(e)
    BY <2>1 DEF Mined
  <2>3. i <= height /\ marker[e] < i /\ height <= Len(chain[e])
    BY <1>1, <2>1 DEF OnceInv
  <2>4. CASE IsFlushPoint(e)
    <3>1. /\ marker'[e] = i
          /\ \A t \in Tx : utxo'[t] = Capped(utxo[t] + vect_sql[t]) /\ vect_sql'[t] = 0
      <4>1. RefreshDB(e) /\ dbup
        BY <1>2, <1>8, <2>1, <2>4 DEF BlockEnds
      <4> QED
        BY <1>1, <2>3, <4>1, CommitRows DEF TypeOK
    <3>2. \A t \in Tx : Rowed(t)' => Rowed(t)
      BY <1>2, <1>8, <2>1, <2>4, CommitRows DEF BlockEnds
    <3>3. \A h \in 1..Len(chain[e]) : \A t \in chain[e][h] :
            utxo'[t] > 0 => utxo'[t] = 1 /\ h <= i
      <4> SUFFICES ASSUME NEW h \in 1..Len(chain[e]), NEW t \in chain[e][h], utxo'[t] > 0
                   PROVE  utxo'[t] = 1 /\ h <= i
        OBVIOUS
      <4>1. /\ t \in Tx /\ utxo[t] \in Nat /\ vect_sql[t] \in Nat
            /\ utxo'[t] = Capped(utxo[t] + vect_sql[t])
        BY <1>1, <3>1
      <4>2. Capped(0) = 0 /\ Capped(1) = 1
        BY BoundAssumption DEF Capped
      <4>3. CASE utxo[t] > 0
        BY <1>1, <2>3, <4>1, <4>2, <4>3 DEF OnceInv
      <4>4. CASE utxo[t] = 0
        <5>1. vect_sql[t] > 0
          BY <4>1, <4>2, <4>4
        <5> QED
          BY <1>1, <4>1, <4>2, <4>4, <5>1 DEF OnceInv
      <4> QED
        BY <4>1, <4>3, <4>4
    <3> QED
      BY <1>1, <2>1, <2>2, <2>3, <3>1, <3>2, <3>3 DEF OnceInv
  <2>5. CASE ~IsFlushPoint(e)
    <3>1. UNCHANGED <<marker, utxo, vect_sql>> /\ i # height
      BY <1>8, <2>5 DEF BlockEnds, IsFlushPoint, dbVars
    <3>2. /\ marker[e] <= Len(chain[e]) /\ height <= Len(chain[e])
          /\ marker[e] < i' /\ i' <= height
      BY <1>1, <2>1, <2>3, <3>1 DEF OnceInv
    <3>3. \A h \in 1..Len(chain[e]) : \A t \in chain[e][h] :
            /\ utxo[t] > 0 => utxo[t] = 1 /\ vect_sql[t] = 0 /\ h <= marker[e]
            /\ vect_sql[t] > 0 => vect_sql[t] = 1 /\ marker[e] < h /\ h < i'
      BY <1>1, <2>1 DEF OnceInv
    <3>4. \A g, h \in 1..Len(chain[e]) : \A t \in chain[e][g] : t \in chain[e][h] => g = h
      BY DEF OnceInv
    <3>5. \A t \in Tx : CoinOf[t] = e /\ Rowed(t)' => t \in Mined(e)'
      BY <2>2, <3>1 DEF OnceInv, Rowed
    <3> QED
      BY <1>1, <2>1, <3>1, <3>2, <3>3, <3>4, <3>5 DEF OnceInv
  <2> QED
    BY <2>4, <2>5
<1> QED
  BY <1>3, <1>4, <1>5, <1>6, <1>7, <1>8 DEF Begins, Goes

\* The steps of another coin's pass: its commits find no row of e in vect_sql_.
LEMMA OnceOtherStep ==
  ASSUME TypeOK, TypeOK', Calm, OwnCoin, NEW e \in Exact, OnceInv(e), faults = 0, ~Fault,
         NEW c \in Coin \ {e}, Begins(c) \/ Goes(c)
  PROVE  OnceInv(e)'
<1>1. e \in Coin /\ e # "none" /\ c # "none"
  BY CoinType DEF Exact
<1>2. UNCHANGED chain /\ task # e /\ task' # e
  <2>1. CASE ScanTimer(c)
    BY <1>1, <2>1 DEF ScanTimer, MayFire, nodeVars
  <2>2. CASE ReadHeights(c) \/ FetchBlock(c) \/ PassEnds(c) \/ BlockEnds(c)
    BY <1>1, <2>2
    DEF ReadHeights, FetchBlock, BlockFound, BlockFails, BlockSkipped, PassEnds, BlockEnds,
        NextHeight, Finish, nodeVars
  <2>3. CASE \E t \in Tx : RecordTx(c, t) \/ IgnoreTx(c, t)
    BY <1>1, <2>3 DEF RecordTx, IgnoreTx, InBlock, nodeVars
  <2> QED
    BY <2>1, <2>2, <2>3 DEF Begins, Goes
<1>3. \A t \in Tx : CoinOf[t] = e => vect_sql[t] = 0
  <2>1. \A t \in Tx : vect_sql[t] \in Nat
    BY BoundAssumption DEF TypeOK
  <2>2. \A h \in 1..Len(chain[e]) : \A t \in chain[e][h] \cap Tx : vect_sql[t] = 0
    BY <1>2, <2>1 DEF OnceInv
  <2>3. DOMAIN chain[e] = 1..Len(chain[e])
    BY <1>1, CoinType
  <2> QED
    BY <2>1, <2>2, <2>3 DEF OnceInv, Rowed, Mined
<1>4. /\ marker'[e] = marker[e]
      /\ \A t \in Tx : CoinOf[t] = e => utxo'[t] = utxo[t] /\ vect_sql'[t] \in {0, vect_sql[t]}
  <2>1. CASE ScanTimer(c) \/ ReadHeights(c) \/ FetchBlock(c) \/ PassEnds(c)
    BY <2>1 DEF ScanTimer, ReadHeights, FetchBlock, PassEnds, dbVars
  <2>2. ASSUME NEW t \in Tx, RecordTx(c, t) \/ IgnoreTx(c, t)
        PROVE  /\ marker'[e] = marker[e]
               /\ \A s \in Tx : CoinOf[s] = e => utxo'[s] = utxo[s] /\ vect_sql'[s] = vect_sql[s]
    <3>1. CoinOf[t] # e
      BY <2>2 DEF RecordTx, IgnoreTx, InBlock, OwnCoin
    <3> QED
      BY <2>2, <3>1 DEF RecordTx, IgnoreTx, dbVars, TypeOK
  <2>3. CASE BlockEnds(c)
    <3>1. CASE RefreshDB(c) /\ dbup
      <4>1. marker'[e] = marker[e]
        <5>1. marker' = [marker EXCEPT ![c] = IF i > @ THEN i ELSE @]
          BY <3>1, CommitRows
        <5> QED
          BY <1>1, <5>1 DEF TypeOK
      <4>2. ASSUME NEW t \in Tx, CoinOf[t] = e PROVE utxo'[t] = utxo[t] /\ vect_sql'[t] = 0
        <5>1. utxo'[t] = Capped(utxo[t] + 0) /\ vect_sql'[t] = 0
          BY <1>3, <3>1, <4>2, CommitRows
        <5> QED
          BY <5>1, BoundAssumption, SMTT(30) DEF Capped, TypeOK
      <4> QED
        BY <4>1, <4>2
    <3>2. CASE RefreshDB(c) /\ ~dbup
      BY <3>2 DEF RefreshDB, NoRows, dbVars
    <3>3. CASE UNCHANGED <<dbVars, vect_sql>>
      BY <3>3 DEF dbVars
    <3> QED
      BY <2>3, <3>1, <3>2, <3>3 DEF BlockEnds
  <2> QED
    BY <2>1, <2>2, <2>3 DEF Begins, Goes
<1> QED
  BY <1>2, <1>4, OnceKept

LEMMA OnceStep ==
  ASSUME TypeOK, TypeOK', Calm, OwnCoin, NEW e \in Exact, OnceInv(e), [Next]_vars, faults' = 0
  PROVE  OnceInv(e)'
<1>1. faults = 0 /\ ~Fault /\ e \in Coin \ Reorging
  BY NoFault DEF Exact
<1>2. CASE \E c \in Coin : Begins(c) \/ Goes(c)
  BY <1>1, <1>2, OnceOwnStep, OnceOtherStep
<1>3. CASE CreateAddress \/ ReCallback \/ UNCHANGED vars
  <2>1. UNCHANGED <<chain, marker, utxo, vect_sql, task, step, i, height, todo>>
    BY <1>3 DEF CreateAddress, ReCallback, dbVars, nodeVars, scanVars, vars
  <2> QED
    BY <2>1, OnceKept
<1>4. CASE Start
  <2>1. UNCHANGED <<chain, marker, utxo, vect_sql, task, step, i, height, todo>>
    BY <1>4 DEF Start, dbVars, nodeVars, scanVars
  <2> QED
    BY <2>1, OnceKept
<1>5. CASE Die
  <2>1. UNCHANGED <<chain, marker, utxo>> /\ step' = "tip" /\ \A t \in Tx : vect_sql'[t] = 0
    BY <1>5 DEF Die, NoRows, dbVars, nodeVars
  <2> QED
    BY <2>1, OnceKept
<1>6. ASSUME NEW c \in Coin, Mine(c) \/ Reorg(c), c # e PROVE OnceInv(e)'
  <2>1. UNCHANGED <<marker, utxo, vect_sql, task, step, i, height, todo>> /\ chain'[e] = chain[e]
    BY <1>1, <1>6 DEF Mine, Reorg, dbVars, scanVars, TypeOK
  <2> QED
    BY <2>1, OnceKept
<1>7. CASE Mine(e)
  <2>1. UNCHANGED <<marker, utxo, vect_sql, task, step, i, height, todo>>
    BY <1>7 DEF Mine, dbVars, scanVars
  <2>2. PICK b \in SUBSET Mempool(e) : chain'[e] = Append(chain[e], b)
    BY <1>1, <1>7 DEF Mine, TypeOK
  <2>3. /\ chain[e] \in Seq(SUBSET Tx) /\ Len(chain[e]) \in Nat /\ marker[e] \in Nat
        /\ DOMAIN chain[e] = 1..Len(chain[e])
    BY <1>1, CoinType
  <2>4. b \subseteq Tx /\ \A t \in b : CoinOf[t] = e /\ t \notin Mined(e)
    BY <2>2 DEF Mempool
  <2>5. /\ Len(chain'[e]) = Len(chain[e]) + 1 /\ DOMAIN chain'[e] = 1..Len(chain'[e])
        /\ \A h \in 1..Len(chain[e]) : chain'[e][h] = chain[e][h]
        /\ chain'[e][Len(chain[e]) + 1] = b
    BY <2>2, <2>3, <2>4
  <2>6. \A t \in b : utxo[t] = 0 /\ vect_sql[t] = 0
    BY <2>4, BoundAssumption DEF OnceInv, Rowed, TypeOK
  <2>7. \A h \in 1..Len(chain[e]) : chain[e][h] \cap b = {}
    BY <2>3, <2>4 DEF Mined
  <2>8. Mined(e) \subseteq Mined(e)'
    BY <2>3, <2>5 DEF Mined
  <2>9. i \in Nat /\ height \in Nat
    BY DEF TypeOK
  <2>10. \A h \in 1..Len(chain'[e]) :
           \/ h \in 1..Len(chain[e]) /\ chain'[e][h] = chain[e][h]
           \/ h = Len(chain[e]) + 1 /\ chain'[e][h] = b
    BY <2>3, <2>5
  <2>11. ASSUME NEW g \in 1..Len(chain'[e]), NEW h \in 1..Len(chain'[e]),
                NEW t \in chain'[e][g], t \in chain'[e][h]
         PROVE  g = h
    BY <2>7, <2>10, <2>11, SMTT(30) DEF OnceInv
  <2>12. \A h \in 1..Len(chain'[e]) : \A t \in chain'[e][h] :
           \/ h \in 1..Len(chain[e]) /\ t \in chain[e][h]
           \/ utxo[t] = 0 /\ vect_sql[t] = 0
    <3> SUFFICES ASSUME NEW h \in 1..Len(chain'[e]), NEW t \in chain'[e][h]
                 PROVE  \/ h \in 1..Len(chain[e]) /\ t \in chain[e][h]
                        \/ utxo[t] = 0 /\ vect_sql[t] = 0
      OBVIOUS
    <3>1. CASE h \in 1..Len(chain[e]) /\ chain'[e][h] = chain[e][h]
      BY <3>1
    <3>2. CASE chain'[e][h] = b
      BY <2>6, <3>2
    <3> QED
      BY <2>10, <3>1, <3>2
  <2>13. task' = e /\ step' # "tip" =>
           /\ height <= Len(chain'[e]) /\ marker[e] < i /\ i <= height + 1
           /\ i > height => marker[e] = height
           /\ step' = "tx" => i <= height /\ todo \subseteq chain'[e][i]
    <3> SUFFICES ASSUME task = e, step # "tip"
                 PROVE  /\ height <= Len(chain'[e]) /\ marker[e] < i /\ i <= height + 1
                        /\ i > height => marker[e] = height
                        /\ step = "tx" => i <= height /\ todo \subseteq chain'[e][i]
      BY <2>1
    <3>1. /\ height <= Len(chain[e]) /\ marker[e] < i /\ i <= height + 1
          /\ i > height => marker[e] = height
          /\ step = "tx" => i <= height /\ todo \subseteq chain[e][i]
      BY DEF OnceInv
    <3> QED
      BY <2>3, <2>5, <2>9, <3>1, SMTT(30)
  <2>14. \A h \in 1..Len(chain'[e]) : \A t \in chain'[e][h] :
           /\ utxo[t] > 0 => utxo[t] = 1 /\ vect_sql[t] = 0 /\ h <= marker[e]
           /\ vect_sql[t] > 0 => /\ vect_sql[t] = 1 /\ task = e /\ step # "tip" /\ marker[e] < h
                                 /\ h < i \/ (h = i /\ step = "tx" /\ t \notin todo)
    BY <2>12 DEF OnceInv
  <2>15. marker[e] <= Len(chain'[e])
    BY <2>3, <2>5 DEF OnceInv
  <2>16. \A t \in Tx : CoinOf[t] = e /\ Rowed(t)' => t \in Mined(e)'
    BY <2>1, <2>8 DEF OnceInv, Rowed
  <2> QED
    BY <2>1, <2>11, <2>13, <2>14, <2>15, <2>16 DEF OnceInv
<1> QED
  BY <1>1, <1>2, <1>3, <1>4, <1>5, <1>6, <1>7, StepKinds DEF Reorg

\* A crash at any step of scanBTC or scanXRP repeats no row (db_mysql.cpp,
\* batchRefreshDB; syncer.cpp:431, 740): rows and scan point leave together.
THEOREM NoRowTwice == Spec => []RecordedOnce
<1> DEFINE OnceAll == faults = 0 => \A c \in Exact : OnceInv(c)
<1>1. Init => OnceAll
  <2> SUFFICES ASSUME Init, NEW c \in Exact PROVE OnceInv(c)
    OBVIOUS
  <2>1. c \in Coin /\ chain[c] = <<>> /\ marker[c] = 0 /\ step = "tip"
    BY DEF Init, Exact
  <2>2. \A t \in Tx : utxo[t] = 0 /\ vect_sql[t] = 0
    BY DEF Init, NoRows
  <2> QED
    BY <2>1, <2>2 DEF OnceInv, Rowed
<1>2. TypeOK /\ TypeOK' /\ Calm /\ OwnCoin /\ OnceAll /\ [Next]_vars => OnceAll'
  BY NoFault, OnceStep DEF Exact
<1>3. TypeOK /\ OnceAll => RecordedOnce
  <2> SUFFICES ASSUME TypeOK, OnceAll, faults = 0, NEW t \in Tx,
                      CoinOf[t] \in {"BTC", "XRP"} \ Reorging
               PROVE  utxo[t] <= 1
    BY DEF RecordedOnce
  <2>1. CoinOf[t] \in Exact /\ CoinOf[t] \in Coin /\ utxo[t] \in Nat
    BY TxAssumption, BoundAssumption DEF Exact, TypeOK
  <2>2. OnceInv(CoinOf[t]) /\ DOMAIN chain[CoinOf[t]] = 1..Len(chain[CoinOf[t]])
    BY <2>1, CoinType
  <2> QED
    BY <2>1, <2>2 DEF OnceInv, Rowed, Mined
<1> QED
  BY <1>1, <1>2, <1>3, TypeCorrect, CalmHolds, OwnCoinHolds, PTL DEF Spec

-------------------------------------------------------------------------------
(* The scan point of ETH.                                                  *)

Owed(t) == AddressOf[t] \in FirstAccounts("ETH")
Skipped(h) == h % Every["ETH"] = 0

\* A pass of scanETH ends with the pending block, so that all below its height
\* was there to be read; the scan point is a height it ended with.
ETHInv ==
  /\ InitialAccount \subseteq account
  /\ marker["ETH"] <= Len(chain["ETH"]) + 1 /\ Skipped(marker["ETH"])
  /\ \A h \in 1..Len(chain["ETH"]) : h <= marker["ETH"] /\ ~Skipped(h) =>
       \A t \in chain["ETH"][h] : Owed(t) => utxo[t] > 0
  /\ task = "ETH" =>
       /\ FirstAccounts("ETH") \subseteq known["ETH"]
       /\ step # "tip" =>
            /\ height <= Len(chain["ETH"]) + 1 /\ i <= height + 1
            /\ \A h \in 1..Len(chain["ETH"]) : h < i /\ h < height /\ ~Skipped(h) =>
                 \A t \in chain["ETH"][h] : Owed(t) => Rowed(t)
       /\ step = "tx" =>
            /\ i <= height
            /\ i < height => \A t \in chain["ETH"][i] \ todo : Owed(t) => Rowed(t)

LEMMA ETHKept ==
  ASSUME TypeOK, TypeOK', ETHInv, "ETH" \in Coin, account \subseteq account',
         chain'["ETH"] = chain["ETH"], marker'["ETH"] = marker["ETH"],
         \A t \in Tx : utxo[t] > 0 => utxo'[t] > 0,
         \/ task' # "ETH"
         \/ task' = "ETH" /\ step' = "tip" /\ FirstAccounts("ETH") \subseteq known'["ETH"]
         \/ UNCHANGED <<task, step, i, height, todo, known, utxo, vect_sql>>
  PROVE  ETHInv'
<1>1. /\ marker["ETH"] \in Nat /\ Len(chain["ETH"]) \in Nat
      /\ \A h \in 1..Len(chain["ETH"]) : chain["ETH"][h] \subseteq Tx
  <2>1. marker["ETH"] \in Nat /\ Len(chain["ETH"]) \in Nat /\ chain["ETH"] \in Seq(SUBSET Tx)
    BY CoinType
  <2> QED
    BY <2>1
<1>2. /\ InitialAccount \subseteq account'
      /\ marker'["ETH"] <= Len(chain'["ETH"]) + 1 /\ Skipped(marker'["ETH"])
  BY DEF ETHInv
<1>3. \A h \in 1..Len(chain'["ETH"]) : h <= marker'["ETH"] /\ ~Skipped(h) =>
        \A t \in chain'["ETH"][h] : Owed(t) => utxo'[t] > 0
  BY <1>1 DEF ETHInv
<1> QED
  BY <1>2, <1>3 DEF ETHInv, Owed, Skipped, FirstAccounts, Rowed

\* The steps of scanETH itself.
LEMMA ETHOwnStep ==
  ASSUME TypeOK, TypeOK', Calm, ETHInv, "ETH" \in Coin \ Reorging, faults = 0, ~Fault,
         Begins("ETH") \/ Goes("ETH")
  PROVE  ETHInv'
<1> "ETH" \in Coin
  OBVIOUS
<1>1. /\ marker["ETH"] \in Nat /\ i \in Nat /\ height \in Nat /\ Len(chain["ETH"]) \in Nat
      /\ chain["ETH"] \in Seq(SUBSET Tx) /\ (step # "tip" => i > 0)
      /\ \A t \in Tx : vect_sql[t] \in Nat /\ utxo[t] \in Nat
  <2>1. marker["ETH"] \in Nat /\ Len(chain["ETH"]) \in Nat /\ chain["ETH"] \in Seq(SUBSET Tx)
    BY CoinType
  <2>2. \A t \in Tx : vect_sql[t] \in Nat /\ utxo[t] \in Nat
    BY BoundAssumption DEF TypeOK
  <2> QED
    BY <2>1, <2>2 DEF TypeOK
<1>2. \A h \in 1..Len(chain["ETH"]) : chain["ETH"][h] \subseteq Tx
  BY <1>1
<1>3. task = "ETH" => up /\ dbup
  BY DEF Calm
<1>4. CASE ScanTimer("ETH")
  <2>1. UNCHANGED <<chain, account, marker, utxo, step>> /\ step = "tip" /\ dbup
    BY <1>4 DEF ScanTimer, MayFire, Calm, nodeVars, dbVars
  <2>2. FirstAccounts("ETH") \subseteq known'["ETH"]
    BY <1>4, <2>1 DEF ScanTimer, Polled, FirstAccounts, ETHInv, TypeOK
  <2> QED
    BY <2>1, <2>2, ETHKept
<1>5. CASE PassEnds("ETH")
  <2>1. UNCHANGED <<chain, account, marker, utxo>> /\ task' = "none"
    BY <1>5 DEF PassEnds, Finish, nodeVars, dbVars
  <2> QED
    BY <2>1, ETHKept
<1>6. CASE ReadHeights("ETH")
  <2>1. /\ UNCHANGED <<chain, account, marker, utxo, vect_sql, known, task>> /\ task = "ETH"
        /\ i' = marker["ETH"] + 1 /\ height' = Len(chain["ETH"]) + 1 /\ step' = "block"
    BY <1>3, <1>6 DEF ReadHeights, FirstHeight, LastHeight, nodeVars, dbVars
  <2>2. \A h \in 1..Len(chain["ETH"]) : h < marker["ETH"] + 1 /\ ~Skipped(h) =>
          \A t \in chain["ETH"][h] : Owed(t) => Rowed(t)
    BY <1>1 DEF ETHInv, Rowed
  <2> QED
    BY <1>1, <2>1, <2>2 DEF ETHInv, Owed, Skipped, FirstAccounts, Rowed
<1>7. CASE FetchBlock("ETH")
  <2>1. /\ UNCHANGED <<chain, account, marker, utxo, vect_sql, known, task, i, height>>
        /\ task = "ETH" /\ step = "block" /\ step' = "tx" /\ i <= height
        /\ todo' = IF i <= Len(chain["ETH"]) THEN chain["ETH"][i] ELSE {}
    BY <1>7 DEF FetchBlock, BlockFound, BlockFails, BlockSkipped, nodeVars, dbVars
  <2>2. i < height => i <= Len(chain["ETH"])
    BY <1>1, <2>1 DEF ETHInv
  <2> QED
    BY <1>1, <2>1, <2>2 DEF ETHInv, Owed, Skipped, FirstAccounts, Rowed
<1>8. ASSUME NEW t \in Tx, RecordTx("ETH", t) \/ IgnoreTx("ETH", t) PROVE ETHInv'
  <2>1. /\ UNCHANGED <<chain, account, marker, utxo, known, task, step, i, height>>
        /\ task = "ETH" /\ step = "tx" /\ t \in todo /\ todo' = todo \ {t}
    BY <1>8 DEF RecordTx, IgnoreTx, InBlock, nodeVars, dbVars
  <2>2. \A s \in Tx \ {t} : vect_sql'[s] = vect_sql[s]
    BY <1>8 DEF RecordTx, IgnoreTx, TypeOK
  <2>3. vect_sql'[t] \in {vect_sql[t], Capped(vect_sql[t] + 1)}
    BY <1>8 DEF RecordTx, IgnoreTx, TypeOK
  <2>4. \A s \in Tx : Rowed(s) => Rowed(s)'
    BY <1>1, <2>1, <2>2, <2>3, BoundAssumption DEF Rowed, Capped
  <2>5. Owed(t) => Rowed(t)'
    <3>1. CASE RecordTx("ETH", t)
      BY <1>1, <3>1, BoundAssumption, SMTT(30) DEF RecordTx, Rowed, Capped, TypeOK
    <3>2. CASE IgnoreTx("ETH", t)
      BY <2>1, <3>2 DEF IgnoreTx, IsRecorded, Owed, ETHInv
    <3> QED
      BY <1>8, <3>1, <3>2
  <2>6. i < height => i \in 1..Len(chain["ETH"])
    BY <1>1, <2>1 DEF ETHInv
  <2>7. i < height => \A s \in chain["ETH"][i] \ todo' : Owed(s) => Rowed(s)'
    BY <1>2, <2>1, <2>4, <2>5, <2>6 DEF ETHInv
  <2>8. \A h \in 1..Len(chain["ETH"]) : h < i /\ h < height /\ ~Skipped(h) =>
          \A s \in chain["ETH"][h] : Owed(s) => Rowed(s)'
    BY <1>2, <2>1, <2>4 DEF ETHInv
  <2> QED
    BY <2>1, <2>7, <2>8 DEF ETHInv, Owed, Skipped, FirstAccounts
<1>9. CASE BlockEnds("ETH")
  <2>1. /\ UNCHANGED <<chain, account, known, task, height>> /\ task = "ETH" /\ step = "tx"
        /\ todo = {} /\ i' = i + 1 /\ step' = "block"
    BY <1>9 DEF BlockEnds, NextHeight, nodeVars
  <2>2. /\ \A t \in Tx : utxo[t] > 0 => utxo'[t] > 0
        /\ \A t \in Tx : Rowed(t) => Rowed(t)'
    <3>1. CASE RefreshDB("ETH")
      BY <1>3, <2>1, <3>1, CommitRows DEF Rowed
    <3>2. CASE UNCHANGED <<dbVars, vect_sql>>
      BY <3>2 DEF Rowed, dbVars
    <3> QED
      BY <1>9, <3>1, <3>2 DEF BlockEnds
  <2>3. \A h \in 1..Len(chain["ETH"]) : h < i + 1 /\ h < height /\ ~Skipped(h) =>
          \A t \in chain["ETH"][h] : Owed(t) => Rowed(t)
    BY <1>1, <2>1 DEF ETHInv
  <2>4. \A h \in 1..Len(chain["ETH"]) : h < i + 1 /\ h < height /\ ~Skipped(h) =>
          \A t \in chain["ETH"][h] : Owed(t) => Rowed(t)'
    BY <1>2, <2>2, <2>3
  <2>5. /\ marker'["ETH"] <= Len(chain["ETH"]) + 1 /\ Skipped(marker'["ETH"])
        /\ \A h \in 1..Len(chain["ETH"]) : h <= marker'["ETH"] /\ ~Skipped(h) =>
             \A t \in chain["ETH"][h] : Owed(t) => utxo'[t] > 0
    <3>1. CASE marker'["ETH"] = marker["ETH"]
      BY <1>2, <2>2, <3>1 DEF ETHInv
    <3>2. CASE marker'["ETH"] # marker["ETH"]
      <4>1. marker'["ETH"] = i /\ i = height /\ Skipped(i) /\ RefreshDB("ETH") /\ dbup
        BY <1>9, <3>2, CommitFacts DEF BlockEnds, IsFlushPoint, Skipped, dbVars
      <4>2. \A t \in Tx : Rowed(t) => utxo'[t] > 0
        BY <4>1, CommitRows
      <4>3. \A h \in 1..Len(chain["ETH"]) : h <= i /\ ~Skipped(h) => h < i + 1 /\ h < height
        BY <1>1, <4>1
      <4> QED
        BY <1>1, <1>2, <2>1, <2>3, <4>1, <4>2, <4>3 DEF ETHInv
    <3> QED
      BY <3>1, <3>2
  <2> QED
    BY <1>1, <2>1, <2>4, <2>5 DEF ETHInv, Owed, Skipped, FirstAccounts
<1> QED
  BY <1>4, <1>5, <1>6, <1>7, <1>8, <1>9 DEF Begins, Goes

LEMMA ETHOtherStep ==
  ASSUME TypeOK, TypeOK', Calm, ETHInv, "ETH" \in Coin \ Reorging, faults = 0, ~Fault,
         NEW c \in Coin \ {"ETH"}, Begins(c) \/ Goes(c)
  PROVE  ETHInv'
<1>1. UNCHANGED <<chain, account>> /\ task' # "ETH"
  <2>1. CASE ScanTimer(c)
    BY <2>1 DEF ScanTimer, MayFire, nodeVars
  <2>2. CASE ReadHeights(c) \/ FetchBlock(c) \/ PassEnds(c) \/ BlockEnds(c)
    BY <2>2
    DEF ReadHeights, FetchBlock, BlockFound, BlockFails, BlockSkipped, PassEnds, BlockEnds,
        NextHeight, Finish, nodeVars
  <2>3. CASE \E t \in Tx : RecordTx(c, t) \/ IgnoreTx(c, t)
    BY <2>3 DEF RecordTx, IgnoreTx, InBlock, nodeVars
  <2> QED
    BY <2>1, <2>2, <2>3 DEF Begins, Goes
<1>2. marker'["ETH"] = marker["ETH"] /\ \A t \in Tx : utxo[t] > 0 => utxo'[t] > 0
  <2>1. CASE UNCHANGED dbVars
    BY <2>1 DEF dbVars
  <2>2. CASE RefreshDB(c)
    BY <2>2, CommitFacts
  <2> QED
    BY <2>1, <2>2
    DEF Begins, Goes, ScanTimer, ReadHeights, FetchBlock, PassEnds, BlockEnds, RecordTx,
        IgnoreTx, dbVars
<1> QED
  BY <1>1, <1>2, ETHKept

LEMMA ETHStep ==
  ASSUME TypeOK, TypeOK', Calm, ETHInv, "ETH" \in Coin \ Reorging, [Next]_vars, faults' = 0
  PROVE  ETHInv'
<1> "ETH" \in Coin
  OBVIOUS
<1>1. faults = 0 /\ ~Fault
  BY NoFault
<1>2. CASE \E c \in Coin : Begins(c) \/ Goes(c)
  BY <1>1, <1>2, ETHOwnStep, ETHOtherStep
<1>3. ASSUME UNCHANGED <<chain, marker, utxo, vect_sql, task, step, i, height, todo>>,
             account \subseteq account', known' = known \/ task = "none"
      PROVE  ETHInv'
  BY <1>3, ETHKept
<1>4. CASE CreateAddress \/ Start \/ ReCallback \/ UNCHANGED vars
  BY <1>3, <1>4
  DEF CreateAddress, Start, ReCallback, Calm, dbVars, nodeVars, scanVars, vars
<1>5. CASE Die
  BY <1>5, ETHKept DEF Die, dbVars, nodeVars
<1>6. ASSUME NEW c \in Coin, Mine(c) \/ Reorg(c), c # "ETH" PROVE ETHInv'
  <2>1. UNCHANGED <<account, marker, utxo, vect_sql, known, task, step, i, height, todo>>
        /\ chain'["ETH"] = chain["ETH"]
    BY <1>6 DEF Mine, Reorg, dbVars, scanVars, TypeOK
  <2> QED
    BY <2>1, ETHKept
<1>7. CASE Mine("ETH")
  <2>1. UNCHANGED <<account, marker, utxo, vect_sql, known, task, step, i, height, todo>>
    BY <1>7 DEF Mine, dbVars, scanVars
  <2>2. PICK b \in SUBSET Tx : chain'["ETH"] = Append(chain["ETH"], b)
    BY <1>7 DEF Mine, Mempool, TypeOK
  <2>3. /\ chain["ETH"] \in Seq(SUBSET Tx) /\ Len(chain["ETH"]) \in Nat
        /\ marker["ETH"] \in Nat /\ i \in Nat /\ height \in Nat /\ (step # "tip" => i > 0)
    BY CoinType DEF TypeOK
  <2>4. /\ Len(chain'["ETH"]) = Len(chain["ETH"]) + 1
        /\ \A h \in 1..Len(chain["ETH"]) : chain'["ETH"][h] = chain["ETH"][h]
    BY <2>2, <2>3
  <2>5. \A h \in 1..Len(chain'["ETH"]) : h \in 1..Len(chain["ETH"]) \/ h = Len(chain["ETH"]) + 1
    BY <2>3, <2>4
  <2>6. \A h \in 1..Len(chain'["ETH"]) : h <= marker["ETH"] /\ ~Skipped(h) =>
          \A t \in chain'["ETH"][h] : Owed(t) => utxo[t] > 0
    <3>1. Len(chain["ETH"]) + 1 <= marker["ETH"] => Skipped(Len(chain["ETH"]) + 1)
      BY <2>3 DEF ETHInv
    <3> QED
      BY <2>4, <2>5, <3>1 DEF ETHInv
  <2>7. task = "ETH" /\ step # "tip" =>
          \A h \in 1..Len(chain'["ETH"]) : h < i /\ h < height /\ ~Skipped(h) =>
            \A t \in chain'["ETH"][h] : Owed(t) => Rowed(t)
    <3>1. task = "ETH" /\ step # "tip" => ~(Len(chain["ETH"]) + 1 < height)
      BY <2>3 DEF ETHInv
    <3> QED
      BY <2>4, <2>5, <3>1 DEF ETHInv
  <2>8. task = "ETH" /\ step = "tx" /\ i < height =>
          \A t \in chain'["ETH"][i] \ todo : Owed(t) => Rowed(t)
    <3>1. task = "ETH" /\ step = "tx" /\ i < height => i \in 1..Len(chain["ETH"])
      BY <2>3 DEF ETHInv
    <3> QED
      BY <2>4, <3>1 DEF ETHInv
  <2> QED
    BY <2>1, <2>3, <2>4, <2>6, <2>7, <2>8 DEF ETHInv, Owed, Skipped, FirstAccounts, Rowed
<1> QED
  BY <1>1, <1>2, <1>4, <1>5, <1>6, <1>7, StepKinds DEF Reorg

\* Without failed RPCs the scan point of ETH passes over nothing but deposits in
\* a block at a multiple of 500 (syncer.cpp:645).
THEOREM ETHLosesAtMultiples == Spec => []ETHLossConfined
<1> DEFINE Confined == faults = 0 /\ "ETH" \in Coin \ Reorging => ETHInv
<1>1. Init => Confined
  <2> SUFFICES ASSUME Init, "ETH" \in Coin PROVE ETHInv
    OBVIOUS
  <2>1. chain["ETH"] = <<>> /\ marker["ETH"] = 0 /\ task = "none" /\ account = InitialAccount
    BY DEF Init
  <2>2. Every["ETH"] \in Nat \ {0}
    BY BoundAssumption
  <2>3. 0 % Every["ETH"] = 0
    BY <2>2
  <2> QED
    BY <2>1, <2>3 DEF ETHInv, Skipped
<1>2. TypeOK /\ TypeOK' /\ Calm /\ Confined /\ [Next]_vars => Confined'
  BY NoFault, ETHStep
<1>3. TypeOK /\ Confined => ETHLossConfined
  <2> SUFFICES ASSUME TypeOK, Confined, faults = 0, "ETH" \in Coin \ Reorging,
                      NEW h \in 1..marker["ETH"], h <= Len(chain["ETH"]), h % Every["ETH"] # 0,
                      NEW t \in chain["ETH"][h], AddressOf[t] \in FirstAccounts("ETH")
               PROVE  utxo[t] > 0
    BY DEF ETHLossConfined
  <2>1. marker["ETH"] \in Nat /\ Len(chain["ETH"]) \in Nat
    BY DEF TypeOK
  <2> QED
    BY <2>1 DEF ETHInv, Owed, Skipped
<1> QED
  BY <1>1, <1>2, <1>3, TypeCorrect, CalmHolds, PTL DEF Spec

-------------------------------------------------------------------------------
(* Whatever fails.                                                         *)

\* The actions of a scan that leave the database, the buffer, the callbacks and
\* the process alone.
Reads(c) ==
  \/ ScanTimer(c) \/ ReadHeights(c) \/ FetchBlock(c) \/ PassEnds(c)
  \/ \E t \in Tx : IgnoreTx(c, t) \/ TxFails(c, t) \/ TxSkipped(c, t)

LEMMA ReadsLeave ==
  ASSUME NEW c \in Coin, Reads(c)
  PROVE  UNCHANGED <<nodeVars, dbVars, merchantVars, up, dbup, vect_sql, s_json_callback, crashes>>
<1> USE DEF Fault, Finish, budgetVars
<1>1. CASE ScanTimer(c)
  BY <1>1 DEF ScanTimer
<1>2. CASE ReadHeights(c)
  BY <1>2 DEF ReadHeights
<1>3. CASE FetchBlock(c)
  BY <1>3 DEF FetchBlock, BlockFound, BlockFails, BlockSkipped
<1>4. CASE PassEnds(c)
  BY <1>4 DEF PassEnds
<1>5. CASE \E t \in Tx : IgnoreTx(c, t) \/ TxFails(c, t) \/ TxSkipped(c, t)
  BY <1>5 DEF IgnoreTx, TxFails, TxSkipped
<1> QED
  BY <1>1, <1>2, <1>3, <1>4, <1>5 DEF Reads

\* The actions that change neither rows nor callbacks.
Quiet ==
  \/ \E c \in Coin : Mine(c) \/ Reorg(c) \/ Reads(c)
  \/ CreateAddress \/ Start \/ LoseConnection
  \/ UNCHANGED vars

LEMMA QuietLeaves ==
  ASSUME Quiet
  PROVE  UNCHANGED <<dbVars, merchantVars, vect_sql, s_json_callback, crashes>>
BY ReadsLeave
DEF Quiet, Mine, Reorg, CreateAddress, Start, LoseConnection, Fault, budgetVars, vars

\* The death of the process, with or without callbacks acknowledged before.
LEMMA NextSplits ==
  ASSUME [Next]_vars
  PROVE  \/ Quiet
         \/ Die /\ UNCHANGED posted
         \/ \E c \in Coin, t \in Tx : RecordTx(c, t)
         \/ \E c \in Coin : BlockEnds(c)
         \/ ReCallback
BY DEF Next, Scan, Quiet, Reads, Crash, CallbackThrows, ReCallbackThrows, merchantVars

-------------------------------------------------------------------------------
(* Callbacks.                                                              *)

\* ReportedBeforeRecorded for the rows still in vect_sql_ too.
ReportInv == \A t \in Tx : Held(t) => t \in posted

\* No deposit reaches txutxo before the merchant answered its callback
\* (syncer.cpp:261-282): the rows of a callback without an answer die with the
\* process.
THEOREM ReportedFirst == Spec => []ReportedBeforeRecorded
<1>1. Init => ReportInv
  BY DEF Init, NoRows, ReportInv, Held, Settled
<1>2. TypeOK /\ ReportInv /\ [Next]_vars => ReportInv'
  <2> SUFFICES ASSUME TypeOK, ReportInv, [Next]_vars, NEW t \in Tx, Held(t)' PROVE t \in posted'
    BY DEF ReportInv
  <2>1. Held(t) => t \in posted
    BY DEF ReportInv
  <2>2. CASE Quiet
    BY <2>1, <2>2, QuietLeaves DEF dbVars, merchantVars, Held, Settled
  <2>3. CASE Die /\ UNCHANGED posted
    BY <2>1, <2>3 DEF Die, dbVars, NoRows, Held, Settled
  <2>4. ASSUME NEW c \in Coin, NEW r \in Tx, RecordTx(c, r) PROVE t \in posted'
    <3>1. t # r => vect_sql'[t] = vect_sql[t]
      BY <2>4 DEF RecordTx, TypeOK
    <3> QED
      BY <2>1, <2>4, <3>1 DEF RecordTx, dbVars, Held, Settled
  <2>5. ASSUME NEW c \in Coin, BlockEnds(c) PROVE t \in posted'
    <3>1. CASE RefreshDB(c)
      BY <2>1, <2>5, <3>1, CommitFacts DEF BlockEnds, merchantVars
    <3>2. CASE UNCHANGED <<dbVars, vect_sql>>
      BY <2>1, <2>5, <3>2 DEF dbVars, BlockEnds, merchantVars, Held, Settled
    <3> QED
      BY <2>5, <3>1, <3>2 DEF BlockEnds
  <2>6. CASE ReCallback
    BY <2>1, <2>6 DEF ReCallback, dbVars, Held, Settled
  <2> QED
    BY <2>2, <2>3, <2>4, <2>5, <2>6, NextSplits
<1>3. ReportInv => ReportedBeforeRecorded
  BY DEF ReportInv, ReportedBeforeRecorded, Held, Settled
<1> QED
  BY <1>1, <1>2, <1>3, TypeCorrect, PTL DEF Spec

\* While the process lives, no refused callback is forgotten (syncer.cpp:236-282).
THEOREM RefusedKept == Spec => []RetriesKept
<1>1. Init => RetriesKept
  BY DEF Init, RetriesKept
<1>2. TypeOK /\ RetriesKept /\ [Next]_vars => RetriesKept'
  <2> SUFFICES ASSUME TypeOK, RetriesKept, [Next]_vars PROVE RetriesKept'
    OBVIOUS
  <2>1. CASE Quiet
    BY <2>1, QuietLeaves DEF merchantVars, RetriesKept
  <2>2. CASE Die /\ UNCHANGED posted
    BY <2>2 DEF Die, RetriesKept, TypeOK
  <2>3. CASE \E c \in Coin, t \in Tx : RecordTx(c, t)
    BY <2>3 DEF RecordTx, RetriesKept, budgetVars
  <2>4. CASE \E c \in Coin : BlockEnds(c)
    <3>1. UNCHANGED <<merchantVars, s_json_callback, crashes>>
      BY <2>4 DEF BlockEnds, RefreshDB, Fault, budgetVars
    <3> QED
      BY <3>1 DEF RetriesKept, merchantVars
  <2>5. CASE ReCallback
    BY <2>5 DEF ReCallback, RetriesKept, budgetVars
  <2> QED
    BY <2>1, <2>2, <2>3, <2>4, <2>5, NextSplits
<1> QED
  BY <1>1, <1>2, TypeCorrect, PTL DEF Spec

-------------------------------------------------------------------------------
(* Timers.                                                                 *)

\* Every path out of a scan arms its timer again (syncer.cpp:16-107).
THEOREM TimersKept == Spec => []TimerKept
<1>1. Init => TimerKept
  BY DEF Init, TimerKept
<1>2. TypeOK /\ TimerKept /\ [Next]_vars => TimerKept'
  <2> SUFFICES ASSUME TypeOK, TimerKept, [Next]_vars, NEW c \in Coin, up', known'[c] # {}
               PROVE  c \in (boot \cup armed \cup {task})'
    BY DEF TimerKept
  <2> USE DEF timerVars, scanVars
  <2>1. up /\ known[c] # {} => c \in boot \cup armed \cup {task}
    BY DEF TimerKept
  <2>2. c # ReCallbackTask /\ c # "none"
    BY CoinAssumption DEF AllCoins, ReCallbackTask
  <2>3. CASE UNCHANGED <<up, known, boot, armed, task>>
    BY <2>1, <2>3
  <2>4. CASE Start
    BY <2>4 DEF Start, Task
  <2>5. CASE Die
    BY <2>5 DEF Die
  <2>6. ASSUME NEW d \in Coin, ScanTimer(d) PROVE c \in (boot \cup armed \cup {task})'
    <3>1. up /\ task = "none"
      BY <2>6 DEF ScanTimer, MayFire
    <3>2. CASE c = d
      BY <2>6, <3>2 DEF ScanTimer
    <3>3. CASE c # d
      <4>1. known'[c] = known[c]
        BY <2>6, <3>3 DEF ScanTimer, TypeOK
      <4> QED
        BY <2>1, <2>2, <2>6, <3>1, <3>3, <4>1 DEF ScanTimer
    <3> QED
      BY <3>2, <3>3
  <2>7. ASSUME NEW d \in Coin, task = d, Finish(d), UNCHANGED <<up, known>>
        PROVE  c \in (boot \cup armed \cup {task})'
    BY <2>1, <2>7 DEF Finish
  <2>8. CASE ReCallback
    BY <2>1, <2>2, <2>8 DEF ReCallback, MayFire
  <2>9. ASSUME NEW d \in Coin, Scan(d) PROVE c \in (boot \cup armed \cup {task})'
    <3>1. CASE ReadHeights(d) \/ PassEnds(d)
      BY <2>3, <2>7, <3>1 DEF ReadHeights, PassEnds
    <3>2. CASE FetchBlock(d)
      BY <2>3, <2>7, <3>2 DEF FetchBlock, BlockFound, BlockFails, BlockSkipped, NextHeight
    <3>3. CASE BlockEnds(d)
      BY <2>3, <3>3 DEF BlockEnds, NextHeight
    <3>4. ASSUME NEW t \in Tx, RecordTx(d, t) \/ IgnoreTx(d, t) \/ TxSkipped(d, t)
          PROVE  c \in (boot \cup armed \cup {task})'
      BY <2>3, <3>4 DEF RecordTx, IgnoreTx, TxSkipped
    <3>5. ASSUME NEW t \in Tx, TxFails(d, t) PROVE c \in (boot \cup armed \cup {task})'
      BY <2>3, <2>7, <3>5 DEF TxFails, InBlock
    <3>6. ASSUME NEW t \in Tx, CallbackThrows(d, t) PROVE c \in (boot \cup armed \cup {task})'
      BY <2>5, <3>6 DEF CallbackThrows
    <3> QED
      BY <2>6, <2>9, <3>1, <3>2, <3>3, <3>4, <3>5, <3>6 DEF Scan
  <2>10. ASSUME NEW d \in Coin, Mine(d) \/ Reorg(d) PROVE c \in (boot \cup armed \cup {task})'
    BY <2>3, <2>10 DEF Mine, Reorg
  <2>11. CASE CreateAddress \/ LoseConnection \/ UNCHANGED vars
    BY <2>3, <2>11 DEF CreateAddress, LoseConnection, vars
  <2> QED
    BY <2>4, <2>5, <2>8, <2>9, <2>10, <2>11 DEF Next, Crash, ReCallbackThrows
<1> QED
  BY <1>1, <1>2, TypeCorrect, PTL DEF Spec

-------------------------------------------------------------------------------
(* What a pass of scanBTC leaves behind.                                   *)

\* The scan point stays behind the pass and meets it where it has to, and what
\* known paid in the block at hand is held, except for what is in todo.
PassInv ==
  "BTC" \in Coin =>
    /\ ~up => task = "none"
    /\ task = "none" => step = "tip"
    /\ marker["BTC"] <= Len(chain["BTC"])
    /\ dbup /\ task = "BTC" /\ step # "tip" =>
         /\ height <= Len(chain["BTC"]) /\ marker["BTC"] < i /\ i <= height + 1
         /\ i > height => marker["BTC"] = height \/ unmarked["BTC"] = height
         /\ step = "tx" => i <= height
    /\ dbup /\ task = "BTC" /\ step = "tx" /\ "BTC" \notin Reorging =>
         \A t \in chain["BTC"][i] \ todo : AddressOf[t] \in known["BTC"] => Held(t)

\* A step that no pass of scanBTC over a usable connection makes.
LEMMA PassInvKept ==
  ASSUME TypeOK, PassInv, "BTC" \in Coin,
         ~up' => task' = "none", task' = "none" => step' = "tip",
         marker'["BTC"] = marker["BTC"], unmarked'["BTC"] = unmarked["BTC"], Len(chain["BTC"]) <= Len(chain'["BTC"]),
         Len(chain'["BTC"]) \in Nat,
         dbup' => task' # "BTC" \/ step' = "tip" \/ UNCHANGED <<dbup, task, step, i, height, todo>>,
         dbup' /\ task' = "BTC" /\ step' = "tx" /\ "BTC" \notin Reorging =>
           chain'["BTC"][i] = chain["BTC"][i] /\ known'["BTC"] = known["BTC"]
             /\ UNCHANGED <<utxo, refused, vect_sql>>
  PROVE  PassInv'
<1>1. Len(chain["BTC"]) \in Nat /\ marker["BTC"] \in Nat /\ i \in Nat /\ height \in Nat
  BY DEF TypeOK
<1> QED
  BY <1>1 DEF PassInv, Held, Settled

LEMMA PassInvStep ==
  ASSUME TypeOK, TypeOK', PassInv, [Next]_vars, "BTC" \in Coin
  PROVE  PassInv'
<1>1. /\ chain["BTC"] \in Seq(SUBSET Tx) /\ chain'["BTC"] \in Seq(SUBSET Tx)
      /\ Len(chain["BTC"]) \in Nat /\ Len(chain'["BTC"]) \in Nat
      /\ marker["BTC"] \in Nat /\ i \in Nat /\ height \in Nat
      /\ "BTC" # "none"
  <2>1. chain \in [Coin -> Seq(SUBSET Tx)] /\ chain' \in [Coin -> Seq(SUBSET Tx)]
    BY DEF TypeOK
  <2>2. marker \in [Coin -> Nat] /\ i \in Nat /\ height \in Nat
    BY DEF TypeOK
  <2> QED
    BY <2>1, <2>2
<1>2. (~up => task = "none") /\ (task = "none" => step = "tip")
  BY DEF PassInv
<1> USE DEF dbVars, nodeVars, scanVars, timerVars
<1>3. ASSUME UNCHANGED <<chain, dbVars, up, dbup, task, step, i, height, todo, known, vect_sql>>
      PROVE  PassInv'
  BY <1>1, <1>2, <1>3, PassInvKept
<1>4. ASSUME NEW c \in Coin, Mine(c) PROVE PassInv'
  <2>1. UNCHANGED <<dbVars, up, dbup, task, step, i, height, todo, known, vect_sql>>
    BY <1>4 DEF Mine
  <2>2. PICK b \in SUBSET Tx : chain' = [chain EXCEPT ![c] = Append(@, b)]
    BY <1>4 DEF Mine, Mempool
  <2>3. chain'["BTC"] \in {chain["BTC"], Append(chain["BTC"], b)}
    BY <2>2, <1>1 DEF TypeOK
  <2>4. /\ Len(chain["BTC"]) <= Len(chain'["BTC"])
        /\ \A h \in 1..Len(chain["BTC"]) : chain'["BTC"][h] = chain["BTC"][h]
    BY <2>3, <1>1
  <2>5. dbup /\ task = "BTC" /\ step = "tx" => i \in 1..Len(chain["BTC"])
    BY <1>1 DEF PassInv, TypeOK
  <2> QED
    BY <1>1, <1>2, <2>1, <2>4, <2>5, PassInvKept
<1>5. ASSUME NEW c \in Coin, Reorg(c) PROVE PassInv'
  <2>1. UNCHANGED <<dbVars, up, dbup, task, step, i, height, todo, known, vect_sql>>
    BY <1>5 DEF Reorg
  <2>2. Len(chain'["BTC"]) = Len(chain["BTC"]) /\ ("BTC" \notin Reorging => UNCHANGED chain["BTC"])
    BY <1>1, <1>5 DEF Reorg, TypeOK
  <2> QED
    BY <1>1, <1>2, <2>1, <2>2, PassInvKept
<1>6. CASE Start
  BY <1>1, <1>2, <1>6, PassInvKept DEF Start
<1>7. CASE Die
  BY <1>1, <1>7, PassInvKept DEF Die
<1>8. CASE LoseConnection
  <2>1. UNCHANGED <<chain, dbVars, up, task, step>> /\ dbup' = FALSE
    BY <1>8 DEF LoseConnection
  <2> QED
    BY <1>1, <1>2, <2>1, PassInvKept
<1>9. ASSUME NEW c \in Coin, ScanTimer(c) PROVE PassInv'
  <2>1. UNCHANGED <<chain, dbVars, up, step>> /\ up /\ step = "tip"
    BY <1>2, <1>9 DEF ScanTimer, MayFire
  <2> QED
    BY <1>1, <2>1, PassInvKept
<1>10. ASSUME NEW c \in Coin, Finish(c), up, UNCHANGED <<chain, dbVars, up>> PROVE PassInv'
  BY <1>1, <1>10, PassInvKept DEF Finish
<1>11. ASSUME NEW c \in Coin, task = c PROVE up /\ c # "none"
  BY <1>2, <1>11, CoinAssumption DEF AllCoins
<1>12. ASSUME NEW c \in Coin, c # "BTC", task = c, task' = c, UNCHANGED <<chain, up>>,
              marker'["BTC"] = marker["BTC"], unmarked'["BTC"] = unmarked["BTC"]
       PROVE  PassInv'
  BY <1>1, <1>11, <1>12, PassInvKept
<1>13. ASSUME NEW c \in Coin, ReadHeights(c) PROVE PassInv'
  <2>1. CASE Finish(c)
    BY <1>10, <1>11, <1>13, <2>1 DEF ReadHeights
  <2>2. CASE c = "BTC" /\ ~Finish(c)
    <3>1. i' = marker["BTC"] + 1 /\ height' = Len(chain["BTC"]) /\ step' = "block"
      BY <1>13, <2>2 DEF ReadHeights, FirstHeight, LastHeight
    <3>2. UNCHANGED <<chain, marker, up, task>> /\ task = "BTC"
      BY <1>13, <2>2 DEF ReadHeights
    <3> QED
      BY <1>1, <1>11, <3>1, <3>2 DEF PassInv
  <2>3. CASE c # "BTC" /\ ~Finish(c)
    BY <1>12, <1>13, <2>3 DEF ReadHeights
  <2> QED
    BY <2>1, <2>2, <2>3
<1>14. ASSUME NEW c \in Coin, FetchBlock(c) PROVE PassInv'
  <2>1. CASE Finish(c)
    BY <1>10, <1>11, <1>14, <2>1 DEF FetchBlock
  <2>2. CASE c = "BTC" /\ ~Finish(c)
    <3>1. BlockFound("BTC") /\ task = "BTC" /\ i <= height
      BY <1>14, <2>2 DEF FetchBlock, BlockFails, BlockSkipped, SkipsBlock
    <3>2. UNCHANGED <<chain, dbVars, up, dbup, known, vect_sql>>
      BY <1>14 DEF FetchBlock
    <3>3. UNCHANGED <<task, i, height>> /\ step' = "tx"
          /\ (i <= Len(chain["BTC"]) => todo' = chain["BTC"][i])
      BY <3>1 DEF BlockFound
    <3>4. step # "tip"
      BY <1>14 DEF FetchBlock
    <3> QED
      BY <1>1, <1>11, <3>1, <3>2, <3>3, <3>4 DEF PassInv
  <2>3. CASE c # "BTC" /\ ~Finish(c)
    BY <1>12, <1>14, <2>3 DEF FetchBlock, BlockFound, BlockFails, BlockSkipped, NextHeight
  <2> QED
    BY <2>1, <2>2, <2>3
<1>15. ASSUME NEW c \in Coin, PassEnds(c) PROVE PassInv'
  BY <1>10, <1>11, <1>15 DEF PassEnds
<1>16. ASSUME NEW c \in Coin, NEW t \in Tx, RecordTx(c, t) \/ IgnoreTx(c, t) PROVE PassInv'
  <2>1. CASE c = "BTC"
    <3>1. /\ UNCHANGED <<chain, dbVars, up, dbup, known, task, step, i, height>>
          /\ task = "BTC" /\ step = "tx" /\ todo' = todo \ {t}
      BY <1>16, <2>1 DEF RecordTx, IgnoreTx, InBlock
    <3>2. ASSUME NEW r \in Tx, Held(r) PROVE Held(r)'
      <4>1. CASE RecordTx(c, t)
        <5>1. vect_sql'[r] = IF r = t THEN Capped(vect_sql[t] + 1) ELSE vect_sql[r]
          BY <4>1 DEF RecordTx, TypeOK
        <5>2. vect_sql[t] \in Nat
          BY BoundAssumption DEF TypeOK
        <5> QED
          BY <3>1, <3>2, <5>1, <5>2, BoundAssumption DEF Held, Settled, Capped
      <4>2. CASE IgnoreTx(c, t)
        BY <4>2, <3>1, <3>2 DEF IgnoreTx, Held, Settled
      <4> QED
        BY <4>1, <4>2, <1>16
    <3>3. AddressOf[t] \in known["BTC"] => Held(t)'
      <4>1. CASE RecordTx(c, t)
        <5>1. vect_sql'[t] = Capped(vect_sql[t] + 1) /\ vect_sql[t] \in Nat
          BY <4>1, BoundAssumption DEF RecordTx, TypeOK
        <5> QED
          BY <5>1, BoundAssumption DEF Held, Capped
      <4>2. CASE IgnoreTx(c, t)
        BY <4>2, <2>1 DEF IgnoreTx, IsRecorded
      <4> QED
        BY <4>1, <4>2, <1>16
    <3>4. dbup => i \in 1..Len(chain["BTC"])
      BY <1>1, <3>1 DEF PassInv, TypeOK
    <3>5. dbup => chain["BTC"][i] \in SUBSET Tx
      BY <1>1, <3>4
    <3> QED
      BY <1>1, <1>11, <3>1, <3>2, <3>3, <3>5 DEF PassInv
  <2>2. CASE c # "BTC"
    BY <1>12, <1>16, <2>2 DEF RecordTx, IgnoreTx, InBlock
  <2> QED
    BY <2>1, <2>2
<1>17. ASSUME NEW c \in Coin, NEW t \in Tx, TxFails(c, t) \/ TxSkipped(c, t) PROVE PassInv'
  <2>1. CASE Finish(c)
    BY <1>10, <1>11, <1>17, <2>1 DEF TxFails, TxSkipped, InBlock
  <2>2. CASE ~Finish(c)
    <3>1. c # "BTC"
      BY <1>17, <2>2 DEF TxFails, TxSkipped, AbandonsPass, SkipsTx
    <3> QED
      BY <1>12, <1>17, <2>2, <3>1 DEF TxFails, TxSkipped, InBlock
  <2> QED
    BY <2>1, <2>2
<1>18. ASSUME NEW c \in Coin, BlockEnds(c) PROVE PassInv'
  <2>1. CASE c = "BTC"
    <3>1. /\ UNCHANGED <<chain, up, dbup, task, height>> /\ task = "BTC" /\ step = "tx"
          /\ i' = i + 1 /\ step' = "block"
      BY <1>18, <2>1 DEF BlockEnds, NextHeight
    <3>2. CASE ~dbup
      <4>1. UNCHANGED marker
        BY <1>18, <3>2 DEF BlockEnds, RefreshDB
      <4> QED
        BY <1>1, <1>11, <3>1, <3>2, <4>1 DEF PassInv
    <3>3. CASE dbup
      <4>1. marker["BTC"] < i /\ i <= height
        BY <3>1, <3>3 DEF PassInv
      <4>2. marker'["BTC"] \in {marker["BTC"], i}
        BY <1>18, <2>1, CommitFacts DEF BlockEnds
      <4>3. i = height => marker'["BTC"] = i \/ unmarked'["BTC"] = i
        BY <1>18, <2>1, <3>3, <4>1, CommitFacts DEF BlockEnds, IsFlushPoint
      <4> QED
        BY <1>1, <1>11, <3>1, <3>3, <4>1, <4>2, <4>3 DEF PassInv
    <3> QED
      BY <3>2, <3>3
  <2>2. CASE c # "BTC"
    <3>1. marker'["BTC"] = marker["BTC"] /\ unmarked'["BTC"] = unmarked["BTC"]
      BY <1>18, <2>2, CommitFacts DEF BlockEnds
    <3> QED
      BY <1>12, <1>18, <2>2, <3>1 DEF BlockEnds, NextHeight
  <2> QED
    BY <2>1, <2>2
<1> QED
  BY <1>3, <1>4, <1>5, <1>6, <1>7, <1>8, <1>9, <1>13, <1>14, <1>15, <1>16, <1>17, <1>18
  DEF Next, Scan, CreateAddress, Crash, CallbackThrows, ReCallback, ReCallbackThrows, vars

LEMMA PassInvHolds == Spec => []PassInv
<1>1. Init => PassInv
  BY DEF Init, PassInv
<1>2. TypeOK /\ TypeOK' /\ PassInv /\ [Next]_vars => PassInv'
  BY PassInvStep DEF PassInv
<1> QED
  BY <1>1, <1>2, TypeCorrect, PTL DEF Spec

\* A pass of scanBTC that got through leaves the scan point where it ended
\* (syncer.cpp:431), also on a node that reorganises, unless the INSERT of that
\* `block` row failed (db_mysql.cpp:47-51).
THEOREM PassReachesTip == Spec => PassMovesScanPoint
<1>1. TypeOK /\ PassInv => (PassEnds("BTC") /\ dbup => marker["BTC"] = height \/ unmarked["BTC"] = height)
  <2> SUFFICES ASSUME TypeOK, PassInv, PassEnds("BTC"), dbup
               PROVE  marker["BTC"] = height \/ unmarked["BTC"] = height
    OBVIOUS
  <2>1. task = "BTC" /\ "BTC" \in Coin /\ step = "block" /\ i > height
    BY DEF PassEnds, TypeOK
  <2> QED
    BY <2>1 DEF PassInv
<1> QED
  BY <1>1, PassInvHolds, TypeCorrect, PTL DEF PassMovesScanPoint

\* What the address map held when a pass began is held for every block the pass
\* completes (syncer.cpp:33, 298, 426), also for addresses created late, unless the
\* INSERT of the row failed.
THEOREM KnownHeld == Spec => KnownDepositsHeld
<1>1. TypeOK /\ PassInv =>
        (BlockEnds("BTC") /\ dbup /\ "BTC" \notin Reorging =>
           \A t \in chain["BTC"][i] : AddressOf[t] \in known["BTC"] => Held(t)')
  <2> SUFFICES ASSUME TypeOK, PassInv, BlockEnds("BTC"), dbup, "BTC" \notin Reorging,
                      NEW t \in chain["BTC"][i], AddressOf[t] \in known["BTC"]
               PROVE  Held(t)'
    BY Zenon
  <2>1. task = "BTC" /\ "BTC" \in Coin /\ step = "tx" /\ todo = {}
    BY DEF BlockEnds, TypeOK
  <2>2. Held(t)
    BY <2>1 DEF PassInv
  <2>3. t \in Tx
    <3>1. chain["BTC"] \in Seq(SUBSET Tx) /\ i \in 1..Len(chain["BTC"])
      BY <2>1 DEF PassInv, TypeOK
    <3>2. chain["BTC"][i] \in SUBSET Tx
      BY <3>1
    <3> QED
      BY <3>2
  <2>4. CASE RefreshDB("BTC")
    BY <2>1, <2>2, <2>3, <2>4, CommitFacts DEF Held
  <2>5. CASE UNCHANGED <<dbVars, vect_sql>>
    BY <2>2, <2>5 DEF dbVars, Held, Settled
  <2> QED
    BY <2>4, <2>5 DEF BlockEnds
<1> QED
  BY <1>1, PassInvHolds, TypeCorrect, PTL DEF KnownDepositsHeld

-------------------------------------------------------------------------------
(* The abstract ledger.                                                    *)

\* What the scan of BTC has at hand, and what has a row, is in the chain.
LedgerInv ==
  /\ task = "BTC" /\ step = "tx" => todo \subseteq Mined("BTC")
  /\ \A t \in Tx : CoinOf[t] = "BTC" /\ Held(t) => t \in Mined("BTC")

\* A step of a scan takes no block and hands no new transaction to the scan.
LEMMA LedgerKept ==
  ASSUME LedgerInv, UNCHANGED chain, "BTC" \in Coin,
         task' \in Coin /\ step' = "tx" => task' = task /\ step = "tx" /\ todo' \subseteq todo,
         \A t \in Tx : CoinOf[t] = "BTC" /\ Held(t)' => Held(t) \/ t \in Mined("BTC")
  PROVE  LedgerInv'
<1>1. Mined("BTC")' = Mined("BTC")
  BY DEF Mined
<1> QED
  BY <1>1 DEF LedgerInv

\* Blocks arrive, or the latest of another coin is replaced.
LEMMA LedgerChain ==
  ASSUME TypeOK, TypeOK', LedgerInv, "BTC" \in Coin \ Reorging,
         NEW c \in Coin, Mine(c) \/ Reorg(c)
  PROVE  LedgerInv' /\ (BTC!Extend \/ UNCHANGED BTC!ledgerVars)
<1>1. chain[c] \in Seq(SUBSET Tx) /\ Len(chain[c]) \in Nat
  BY CoinType
<1>2. UNCHANGED <<dbVars, vect_sql, scanVars>>
  BY DEF Mine, Reorg
<1>3. \A d \in Coin \ {c} : chain'[d] = chain[d]
  BY DEF Mine, Reorg, TypeOK
<1>4. ASSUME Mine(c)
      PROVE  \E b \in SUBSET {t \in Tx : CoinOf[t] = c} : chain'[c] = Append(chain[c], b)
  BY <1>4 DEF Mine, Mempool, TypeOK
<1>5. Mined("BTC") \subseteq Mined("BTC")'
  <2>1. CASE c = "BTC"
    <3>1. PICK b \in SUBSET Tx : chain'[c] = Append(chain[c], b)
      BY <1>4, <2>1 DEF Reorg
    <3>2. \A h \in 1..Len(chain[c]) : chain'[c][h] = chain[c][h] /\ h \in 1..Len(chain'[c])
      BY <1>1, <3>1
    <3>3. chain'[c] \in Seq(SUBSET Tx)
      BY DEF TypeOK
    <3> QED
      BY <1>1, <2>1, <3>2, <3>3 DEF Mined
  <2>2. CASE c # "BTC"
    BY <1>3, <2>2 DEF Mined
  <2> QED
    BY <2>1, <2>2
<1>6. LedgerInv'
  BY <1>2, <1>5 DEF LedgerInv, Held, Settled, dbVars, scanVars
<1>7. CASE c = "BTC"
  <2>1. BTC!Extend
    BY <1>2, <1>4, <1>7 DEF BTC!Extend, Reorg, dbVars
  <2> QED
    BY <1>6, <2>1
<1>8. CASE c # "BTC"
  BY <1>2, <1>3, <1>6, <1>8 DEF BTC!ledgerVars, dbVars
<1> QED
  BY <1>7, <1>8

\* A commit, by the scan of any coin, books rows; that of BTC may move the scan
\* point, over nothing that has no row.
LEMMA LedgerCommit ==
  ASSUME TypeOK, OwnCoin, LedgerInv, "BTC" \in Coin \ Reorging,
         ScanPointInv("BTC"), ScanPointInv("BTC")',
         NEW c \in Coin, BlockEnds(c)
  PROVE  LedgerInv' /\ (BTC!Book \/ BTC!Advance \/ UNCHANGED BTC!ledgerVars)
<1>1. UNCHANGED chain /\ step' = "block" /\ task = c
  BY DEF BlockEnds, NextHeight, nodeVars
<1>2. ASSUME NEW t \in Tx
      PROVE  /\ Held(t)' => Held(t)
             /\ utxo[t] > 0 => utxo'[t] > 0
             /\ t \in refused => t \in refused'
  <2>1. CASE RefreshDB(c)
    BY <2>1, CommitFacts
  <2>2. CASE UNCHANGED <<dbVars, vect_sql>>
    BY <2>2 DEF dbVars, Held, Settled
  <2> QED
    BY <2>1, <2>2 DEF BlockEnds
<1>3. LedgerInv'
  BY <1>1, <1>2, LedgerKept
<1> DEFINE row == {t \in Tx : CoinOf[t] = "BTC" /\ utxo[t] > 0}
           dropped == {t \in refused : CoinOf[t] = "BTC"}
           mined == BTC!Confirmed(Len(chain["BTC"]))
<1>4. mined = Mined("BTC")
  <2>1. DOMAIN chain["BTC"] = 1..Len(chain["BTC"])
    BY DEF TypeOK
  <2> QED
    BY <2>1 DEF BTC!Confirmed, Mined
<1>5. BTC!Settle
  <2>1. row \subseteq row' /\ row' \subseteq row \cup mined
    BY <1>2, <1>4 DEF LedgerInv, Held, Settled
  <2>2. refused \in SUBSET Tx /\ refused' \in SUBSET Tx
    <3>1. refused \in SUBSET Tx
      BY DEF TypeOK
    <3>2. refused' = refused \/ RefreshDB(c)
      BY DEF BlockEnds, dbVars
    <3> QED
      BY <3>1, <3>2, CommitFacts
  <2>3. dropped \subseteq dropped' /\ dropped' \subseteq dropped \cup mined
    BY <1>2, <1>4, <2>2 DEF LedgerInv, Held, Settled
  <2> QED
    BY <2>1, <2>3 DEF BTC!Settle
<1>6. CASE marker'["BTC"] = marker["BTC"]
  BY <1>1, <1>3, <1>5, <1>6 DEF BTC!Book
<1>7. CASE marker'["BTC"] # marker["BTC"]
  <2>1. marker["BTC"] \in Nat /\ i \in Nat /\ Len(chain["BTC"]) \in Nat
    BY DEF TypeOK
  <2>2. marker'["BTC"] = i /\ i > marker["BTC"]
    BY <1>7, <2>1, CommitFacts DEF BlockEnds, dbVars
  <2>3. marker'["BTC"] <= Len(chain["BTC"])
    BY <1>1 DEF ScanPointInv
  <2>4. BTC!Confirmed(i) \cap {t \in Tx : AddressOf[t] \in FirstAccounts("BTC")} 
          \subseteq row' \cup dropped'
    <3> SUFFICES ASSUME NEW h \in 1..i, NEW t \in chain["BTC"][h], t \in Tx,
                        AddressOf[t] \in FirstAccounts("BTC")
                 PROVE  CoinOf[t] = "BTC" /\ Settled(t)'
      BY DEF BTC!Confirmed, Settled
    <3>1. h \in 1..Len(chain["BTC"])
      BY <2>1, <2>2, <2>3
    <3> QED
      BY <1>1, <2>2, <3>1 DEF OwnCoin, ScanPointInv, DepositsRecorded, RecordedBelowMarker,
                              FirstAccounts, FirstScanned
  <2>5. BTC!Advance
    BY <1>1, <1>5, <2>1, <2>2, <2>3, <2>4 DEF BTC!Advance
  <2> QED
    BY <1>3, <2>5
<1> QED
  BY <1>3, <1>6, <1>7

LEMMA LedgerStep ==
  ASSUME TypeOK, TypeOK', OwnCoin, LedgerInv, "BTC" \in Coin \ Reorging,
         ScanPointInv("BTC"), ScanPointInv("BTC")', [Next]_vars
  PROVE  LedgerInv' /\ [BTC!LedgerNext]_(BTC!ledgerVars)
<1>1. ASSUME UNCHANGED <<chain, dbVars>> PROVE UNCHANGED BTC!ledgerVars
  BY <1>1 DEF BTC!ledgerVars, dbVars
<1>2. CASE \E c \in Coin : Mine(c) \/ Reorg(c)
  BY <1>2, LedgerChain DEF BTC!LedgerNext
<1>3. CASE \E c \in Coin : BlockEnds(c)
  BY <1>3, LedgerCommit DEF BTC!LedgerNext
<1>4. CASE Die
  <2>1. UNCHANGED <<chain, dbVars>> /\ step' = "tip" /\ \A t \in Tx : Held(t)' => Held(t)
    BY <1>4 DEF Die, nodeVars, dbVars, NoRows, Held, Settled
  <2> QED
    BY <1>1, <2>1, LedgerKept
<1>5. ASSUME UNCHANGED <<chain, dbVars, vect_sql>>,
             task' \in Coin /\ step' = "tx" => task' = task /\ step = "tx" /\ todo' \subseteq todo
      PROVE  LedgerInv' /\ UNCHANGED BTC!ledgerVars
  BY <1>1, <1>5, LedgerKept DEF Held, Settled, dbVars
<1>6. CASE CreateAddress \/ Start \/ LoseConnection \/ ReCallback \/ UNCHANGED vars
  BY <1>5, <1>6
  DEF CreateAddress, Start, LoseConnection, ReCallback, nodeVars, scanVars, vars
<1>7. ASSUME NEW c \in Coin, ScanTimer(c) PROVE LedgerInv' /\ UNCHANGED BTC!ledgerVars
  <2>1. step' = "tip"
    BY <1>7 DEF ScanTimer, MayFire, ScanPointInv
  <2> QED
    BY <1>5, <1>7, <2>1 DEF ScanTimer, nodeVars
<1>8. ASSUME NEW c \in Coin, ReadHeights(c) \/ PassEnds(c)
      PROVE  LedgerInv' /\ UNCHANGED BTC!ledgerVars
  BY <1>5, <1>8 DEF ReadHeights, PassEnds, Finish, nodeVars
<1>9. ASSUME NEW c \in Coin, FetchBlock(c) PROVE LedgerInv' /\ UNCHANGED BTC!ledgerVars
  <2>1. UNCHANGED <<chain, dbVars, vect_sql>> /\ task = c /\ step = "block"
    BY <1>9 DEF FetchBlock, nodeVars
  <2>2. CASE step' = "tx"
    <3>1. task' = c /\ todo' = IF i <= Len(chain[c]) THEN chain[c][i] ELSE {}
      BY <1>9, <2>1, <2>2
      DEF FetchBlock, BlockFound, BlockFails, BlockSkipped, NextHeight, Finish
    <3>2. i \in Nat /\ i > 0 /\ Len(chain[c]) \in Nat /\ DOMAIN chain[c] = 1..Len(chain[c])
      BY <2>1 DEF TypeOK
    <3> QED
      BY <1>1, <2>1, <3>1, <3>2 DEF LedgerInv, Mined, Held, Settled, dbVars
  <2>3. CASE step' # "tx"
    BY <1>5, <2>1, <2>3
  <2> QED
    BY <2>2, <2>3
<1>10. ASSUME NEW c \in Coin, NEW t \in Tx, IgnoreTx(c, t) \/ TxFails(c, t) \/ TxSkipped(c, t)
       PROVE  LedgerInv' /\ UNCHANGED BTC!ledgerVars
  BY <1>5, <1>10 DEF IgnoreTx, TxFails, TxSkipped, Finish, InBlock, nodeVars
<1>11. ASSUME NEW c \in Coin, NEW t \in Tx, RecordTx(c, t)
       PROVE  LedgerInv' /\ UNCHANGED BTC!ledgerVars
  <2>1. UNCHANGED <<chain, dbVars, task, step>> /\ todo' \subseteq todo
    BY <1>11 DEF RecordTx, nodeVars
  <2>2. \A r \in Tx \ {t} : vect_sql'[r] = vect_sql[r]
    BY <1>11 DEF RecordTx, TypeOK
  <2>3. CoinOf[t] = "BTC" => t \in Mined("BTC")
    BY <1>11 DEF RecordTx, InBlock, OwnCoin, LedgerInv
  <2>4. \A r \in Tx : CoinOf[r] = "BTC" /\ Held(r)' => Held(r) \/ r \in Mined("BTC")
    BY <2>1, <2>2, <2>3 DEF Held, Settled, dbVars
  <2> QED
    BY <1>1, <2>1, <2>4, LedgerKept
<1> QED
  BY <1>2, <1>3, <1>4, <1>6, <1>7, <1>8, <1>9, <1>10, <1>11
  DEF Next, Scan, Crash, CallbackThrows, ReCallbackThrows

\* The monitor does to the rows and the scan point of BTC only what the abstract
\* ledger may, in all its steps, failures and deaths (syncer.cpp:125-135, 285-439).
THEOREM LedgerRefined ==
  ASSUME "BTC" \in Coin \ Reorging
  PROVE  Spec => BTCLedger
<1>1. Init => LedgerInv /\ BTC!LedgerInit
  BY DEF Init, LedgerInv, NoRows, Held, Settled, BTC!LedgerInit
<1>2. TypeOK /\ TypeOK' /\ OwnCoin /\ ScanPointInv("BTC") /\ ScanPointInv("BTC")' /\ LedgerInv
      /\ [Next]_vars => LedgerInv' /\ [BTC!LedgerNext]_(BTC!ledgerVars)
  BY LedgerStep
<1> QED
  BY <1>1, <1>2, TypeCorrect, OwnCoinHolds, ScanPointHolds, PTL DEF Spec, BTCLedger, BTC!LedgerSpec
===============================================================================
