----------------------------- MODULE SyncerProofs -----------------------------
(***************************************************************************)
(* Proofs about Syncer, for all coins, chains, bounds and fault budgets.   *)
(***************************************************************************)
EXTENDS Syncer, TLAPS

LEMMA CappedType ==
  ASSUME NEW n \in Nat
  PROVE  Capped(n) \in 0..RowCap /\ (Capped(n) > 0 <=> n > 0)
  BY BoundAssumption DEF Capped

\* What a commit over a usable connection stores is part of vect_sql_, and all of
\* it if no statement fails (db_mysql.cpp:43-53, 102-110).
LEMMA CommitStores ==
  ASSUME TypeOK, NEW c \in Coin, RefreshDB(c), dbup
  PROVE  \E stored \in [Tx -> 0..RowCap], marked \in BOOLEAN :
           /\ \A t \in Tx : stored[t] <= vect_sql[t]
           /\ Store(c, stored, marked)
           /\ (stored = vect_sql /\ marked) \/ Fault
<1>1. \A t \in Tx : vect_sql[t] <= vect_sql[t]
  BY BoundAssumption DEF TypeOK
<1>2. CASE Store(c, vect_sql, TRUE)
  <2>1. vect_sql \in [Tx -> 0..RowCap] /\ TRUE \in BOOLEAN
    BY DEF TypeOK
  <2> QED
    BY <1>1, <1>2, <2>1
<1>3. CASE Fault /\ StoreSome(c)
  BY <1>3 DEF StoreSome
<1> QED
  BY <1>2, <1>3 DEF RefreshDB

\* What any commit does to the rows, the scan points and the buffer.
LEMMA CommitFacts ==
  ASSUME TypeOK, NEW c \in Coin, RefreshDB(c)
  PROVE  /\ utxo' \in [Tx -> 0..RowCap] /\ refused' \in SUBSET Tx
         /\ marker' \in [Coin -> Nat] /\ unmarked' \in [Coin -> Nat]
         /\ vect_sql' = NoRows /\ (Fault \/ UNCHANGED <<faults, crashes>>)
         /\ \A t \in Tx : utxo[t] > 0 => utxo'[t] > 0
         /\ refused \subseteq refused'
         /\ \A t \in Tx : Held(t)' => Held(t)
         /\ dbup => \A t \in Tx : Held(t) => Settled(t)'
         /\ \A d \in Coin \ {c} : marker'[d] = marker[d] /\ unmarked'[d] = unmarked[d]
         /\ marker'[c] # marker[c] => dbup /\ i > marker[c] /\ marker'[c] = i
         /\ dbup /\ i > marker[c] => marker'[c] = i \/ unmarked'[c] = i
<1>1. /\ utxo \in [Tx -> 0..RowCap] /\ vect_sql \in [Tx -> 0..RowCap] /\ RowCap \in Nat
      /\ marker \in [Coin -> Nat] /\ unmarked \in [Coin -> Nat] /\ i \in Nat
      /\ refused \in SUBSET Tx
  BY BoundAssumption DEF TypeOK
<1>2. vect_sql' = NoRows /\ (Fault \/ UNCHANGED <<faults, crashes>>)
  BY DEF RefreshDB, budgetVars
<1>3. CASE ~dbup
  <2>1. UNCHANGED <<utxo, marker, refused, unmarked>>
    BY <1>3 DEF RefreshDB, dbVars
  <2>2. \A t \in Tx : vect_sql'[t] = 0
    BY <1>2 DEF NoRows
  <2>3. \A t \in Tx : Held(t)' => Held(t)
    BY <2>1, <2>2 DEF Held, Settled
  <2> QED
    BY <1>1, <1>2, <1>3, <2>1, <2>3
<1>4. CASE dbup
  <2>1. PICK stored \in [Tx -> 0..RowCap], marked \in BOOLEAN :
               (\A t \in Tx : stored[t] <= vect_sql[t]) /\ Store(c, stored, marked)
    BY <1>4, CommitStores
  <2>2. /\ utxo' = [t \in Tx |-> Capped(utxo[t] + stored[t])]
        /\ marker' = [marker EXCEPT ![c] = IF marked /\ i > @ THEN i ELSE @]
        /\ refused' = refused \cup {t \in Tx : stored[t] < vect_sql[t]}
        /\ unmarked' = [unmarked EXCEPT ![c] = IF marked THEN 0 ELSE i]
    BY <2>1 DEF Store
  <2>3. ASSUME NEW t \in Tx
        PROVE  /\ utxo'[t] \in 0..RowCap
               /\ utxo'[t] > 0 <=> utxo[t] + stored[t] > 0
               /\ utxo[t] \in Nat /\ stored[t] \in Nat /\ vect_sql[t] \in Nat
               /\ stored[t] <= vect_sql[t] /\ vect_sql'[t] = 0
    <3>1. /\ utxo[t] \in Nat /\ stored[t] \in Nat /\ vect_sql[t] \in Nat
          /\ utxo[t] + stored[t] \in Nat
      BY <1>1
    <3>2. utxo'[t] = Capped(utxo[t] + stored[t])
      BY <2>2
    <3> QED
      BY <3>1, <3>2, <1>2, <2>1, CappedType DEF NoRows
  <2>4. utxo' \in [Tx -> 0..RowCap]
    BY <2>2, <2>3
  <2>5. \A t \in Tx : utxo[t] > 0 => utxo'[t] > 0
    BY <2>3
  <2>6. ASSUME NEW t \in Tx PROVE (Held(t)' => Held(t)) /\ (Held(t) => Settled(t)')
    BY <2>2, <2>3 DEF Held, Settled
  <2>7. marker' \in [Coin -> Nat] /\ unmarked' \in [Coin -> Nat] /\ refused' \in SUBSET Tx
    BY <1>1, <2>2
  <2>8. /\ \A d \in Coin \ {c} : marker'[d] = marker[d] /\ unmarked'[d] = unmarked[d]
        /\ marker'[c] # marker[c] => i > marker[c] /\ marker'[c] = i
        /\ i > marker[c] => marker'[c] = i \/ unmarked'[c] = i
    BY <1>1, <2>2
  <2> QED
    BY <1>2, <1>4, <2>2, <2>4, <2>5, <2>6, <2>7, <2>8
<1> QED
  BY <1>3, <1>4

\* Over a usable connection, if no statement fails.
LEMMA CommitCalm ==
  ASSUME TypeOK, NEW c \in Coin, RefreshDB(c), dbup, ~Fault
  PROVE  /\ utxo' = [t \in Tx |-> Capped(utxo[t] + vect_sql[t])]
         /\ marker' = [marker EXCEPT ![c] = IF i > @ THEN i ELSE @]
         /\ refused' = refused
<1>1. Store(c, vect_sql, TRUE)
  BY DEF RefreshDB
<1>2. {t \in Tx : vect_sql[t] < vect_sql[t]} = {}
  BY BoundAssumption DEF TypeOK
<1> QED
  BY <1>1, <1>2 DEF Store

\* The variables hold values of their types in every reachable state: no step
\* of the monitor (lines 16-1123 of syncer.cpp) makes one up.
THEOREM TypeCorrect == Spec => []TypeOK
<1>1. Init => TypeOK
  <2> SUFFICES ASSUME Init PROVE TypeOK
    OBVIOUS
  <2> USE DEF Init
  <2>1. chain \in [Coin -> Seq(SUBSET Tx)]
    OBVIOUS
  <2>2. utxo \in [Tx -> 0..RowCap] /\ vect_sql \in [Tx -> 0..RowCap]
    BY BoundAssumption DEF NoRows
  <2>3. /\ marker \in [Coin -> Nat] /\ unmarked \in [Coin -> Nat] /\ refused \in SUBSET Tx
        /\ known \in [Coin -> SUBSET WalletAddress]
    OBVIOUS
  <2> QED
    BY <2>1, <2>2, <2>3, TxAssumption DEF TypeOK
<1>2. TypeOK /\ [Next]_vars => TypeOK'
  <2> SUFFICES ASSUME TypeOK, [Next]_vars PROVE TypeOK'
    OBVIOUS
  <2> USE DEF TypeOK
  <2>1. ASSUME NEW c \in Coin, Mine(c) PROVE TypeOK'
    BY <2>1, SMTT(30) DEF Mine, Mempool, dbVars, merchantVars, timerVars, scanVars, budgetVars
  <2>2. ASSUME NEW c \in Coin, Reorg(c) PROVE TypeOK'
    <3>1. PICK b \in SUBSET (Mempool(c) \cup chain[c][Len(chain[c])]) :
            chain' = [chain EXCEPT ![c][Len(chain[c])] = b]
      BY <2>2 DEF Reorg
    <3>2. Len(chain[c]) \in 1..Len(chain[c]) /\ chain[c] \in Seq(SUBSET Tx)
      BY <2>2 DEF Reorg
    <3>3. b \in SUBSET Tx
      BY <3>1, <3>2 DEF Mempool
    <3>4. chain' \in [Coin -> Seq(SUBSET Tx)]
      BY <3>1, <3>2, <3>3
    <3> QED
      BY <3>4, <2>2 DEF Reorg, dbVars, merchantVars, timerVars, scanVars, budgetVars
  <2>3. ASSUME CreateAddress PROVE TypeOK'
    BY <2>3 DEF CreateAddress, dbVars, merchantVars, timerVars, scanVars, budgetVars
  <2>4. ASSUME Start PROVE TypeOK'
    BY <2>4 DEF Start, nodeVars, dbVars, merchantVars, scanVars, budgetVars, Task
  <2>5. ASSUME Die, acked' \in SUBSET Tx, posted' \in SUBSET Tx PROVE TypeOK'
    <3>1. NoRows \in [Tx -> 0..RowCap]
      BY BoundAssumption DEF NoRows
    <3>2. [c \in Coin |-> {}] \in [Coin -> SUBSET WalletAddress]
      OBVIOUS
    <3>3. up' \in BOOLEAN /\ dbup' \in BOOLEAN
      BY <2>5 DEF Die
    <3>4. crashes' \in Nat /\ faults' \in Nat /\ i' \in Nat /\ height' \in Nat
      BY <2>5 DEF Die
    <3> QED
      BY <2>5, <3>1, <3>2, <3>3, <3>4, Zenon DEF Die, nodeVars, dbVars
  <2>6. ASSUME Crash PROVE TypeOK'
    BY <2>6, <2>5 DEF Crash, merchantVars
  <2>7. ASSUME LoseConnection PROVE TypeOK'
    <3>1. up' \in BOOLEAN /\ dbup' \in BOOLEAN
      BY <2>7 DEF LoseConnection
    <3>2. crashes' \in Nat /\ faults' \in Nat
      BY <2>7 DEF LoseConnection, Fault
    <3> QED
      BY <2>7, <3>1, <3>2, Zenon
         DEF LoseConnection, nodeVars, dbVars, merchantVars, timerVars, scanVars
  <2>8. ASSUME ReCallback PROVE TypeOK'
    BY <2>8 DEF ReCallback, nodeVars, dbVars, scanVars, budgetVars, Task
  <2>9. ASSUME ReCallbackThrows PROVE TypeOK'
    BY <2>9, <2>5 DEF ReCallbackThrows
  <2>10. ASSUME NEW c \in Coin, ScanTimer(c) PROVE TypeOK'
    <3>1. known' \in [Coin -> SUBSET WalletAddress]
      BY <2>10, TxAssumption DEF ScanTimer
    <3>2. Fault \/ UNCHANGED <<faults, crashes>>
      BY <2>10 DEF ScanTimer, budgetVars
    <3>3. faults' \in Nat /\ crashes' \in Nat
      BY <3>2 DEF Fault
    <3>4. boot' = boot \ {c} /\ armed' = armed \ {c} /\ task' \in {task, c}
      BY <2>10 DEF ScanTimer
    <3>5. boot' \in SUBSET Task /\ armed' \in SUBSET Task /\ task' \in Coin \cup {"none"}
      BY <3>4
    <3>6. UNCHANGED <<chain, account, utxo, marker, refused, unmarked, posted, acked, up, dbup,
                      vect_sql, s_json_callback, step, i, height, todo>>
      BY <2>10 DEF ScanTimer, nodeVars, dbVars, merchantVars
    <3>7. /\ chain' \in [Coin -> Seq(SUBSET Tx)] /\ account' \in SUBSET WalletAddress
          /\ utxo' \in [Tx -> 0..RowCap] /\ marker' \in [Coin -> Nat]
          /\ refused' \in SUBSET Tx /\ unmarked' \in [Coin -> Nat]
          /\ posted' \in SUBSET Tx /\ acked' \in SUBSET Tx
          /\ up' \in BOOLEAN /\ dbup' \in BOOLEAN
      BY <3>6
    <3>8. /\ vect_sql' \in [Tx -> 0..RowCap] /\ s_json_callback' \in SUBSET Tx
          /\ step' \in {"tip", "block", "tx"} /\ i' \in Nat /\ (step' # "tip" => i' > 0)
          /\ height' \in Nat /\ todo' \in SUBSET Tx
      BY <3>6
    <3> QED
      BY <3>1, <3>3, <3>5, <3>7, <3>8
  <2>11. ASSUME NEW c \in Coin, ReadHeights(c) PROVE TypeOK'
    <3>1. FirstHeight(c) \in Nat \ {0} /\ LastHeight(c) \in Nat
      BY BoundAssumption DEF FirstHeight, LastHeight
    <3>2. UNCHANGED <<chain, account, utxo, marker, refused, unmarked, posted, acked, up, dbup,
                      known, vect_sql, s_json_callback, crashes>>
      BY <2>11 DEF ReadHeights, Fault, nodeVars, dbVars, merchantVars, budgetVars
    <3>3. faults' \in Nat
      BY <2>11 DEF ReadHeights, Fault, budgetVars
    <3>4. CASE Finish(c)
      BY <2>11, <3>2, <3>3, <3>4 DEF Finish, Task
    <3>5. CASE ~Finish(c)
      <4>1. UNCHANGED <<task, todo, boot, armed>> /\ step' = "block"
            /\ i' \in Nat \ {0} /\ height' \in Nat
        BY <2>11, <3>1, <3>5 DEF ReadHeights, timerVars
      <4> QED
        BY <3>2, <3>3, <4>1, SMTT(30)
    <3> QED
      BY <3>4, <3>5
  <2>12. ASSUME NEW c \in Coin, FetchBlock(c) PROVE TypeOK'
    <3>1. UNCHANGED <<nodeVars, dbVars, merchantVars, up, dbup, known, vect_sql, s_json_callback>>
      BY <2>12 DEF FetchBlock
    <3>2. CASE BlockFound(c)
      <4>1. (IF i <= Len(chain[c]) THEN chain[c][i] ELSE {}) \in SUBSET Tx
        <5>1. i > 0
          BY <2>12 DEF FetchBlock
        <5>2. CASE i <= Len(chain[c])
          BY <5>1, <5>2
        <5>3. CASE ~(i <= Len(chain[c]))
          BY <5>3
        <5> QED
          BY <5>2, <5>3
      <4>2. /\ todo' \in SUBSET Tx /\ step' \in {"block", "tx"} /\ i' \in Nat /\ i' > 0
            /\ UNCHANGED <<task, height, timerVars, budgetVars>>
        <5>1. i > 0
          BY <2>12 DEF FetchBlock
        <5> QED
          BY <3>2, <4>1, <5>1 DEF BlockFound, NextHeight
      <4> QED
        BY <3>1, <4>2 DEF nodeVars, dbVars, merchantVars, timerVars, budgetVars
    <3>3. CASE BlockFails(c)
      BY <3>1, <3>3 DEF BlockFails, Finish, Fault, Task, nodeVars, dbVars, merchantVars, budgetVars
    <3>4. CASE BlockSkipped(c)
      BY <3>1, <3>4 DEF BlockSkipped, NextHeight, Fault, nodeVars, dbVars, merchantVars, timerVars
    <3> QED
      BY <2>12, <3>2, <3>3, <3>4 DEF FetchBlock
  <2>13. ASSUME NEW c \in Coin, BlockEnds(c) PROVE TypeOK'
    <3>1. NoRows \in [Tx -> 0..RowCap]
      BY BoundAssumption DEF NoRows
    <3>2. /\ utxo' \in [Tx -> 0..RowCap] /\ vect_sql' \in [Tx -> 0..RowCap]
          /\ marker' \in [Coin -> Nat] /\ unmarked' \in [Coin -> Nat] /\ refused' \in SUBSET Tx
          /\ faults' \in Nat /\ crashes' \in Nat
      <4>1. CASE RefreshDB(c)
        <5>1. /\ utxo' \in [Tx -> 0..RowCap] /\ refused' \in SUBSET Tx
              /\ marker' \in [Coin -> Nat] /\ unmarked' \in [Coin -> Nat]
              /\ vect_sql' = NoRows /\ (Fault \/ UNCHANGED <<faults, crashes>>)
          BY <4>1, CommitFacts
        <5>2. faults' \in Nat /\ crashes' \in Nat
          BY <5>1, SMTT(30) DEF Fault
        <5> QED
          BY <3>1, <5>1, <5>2
      <4>2. CASE UNCHANGED <<dbVars, vect_sql, budgetVars>>
        BY <4>2 DEF dbVars, budgetVars
      <4> QED
        BY <4>1, <4>2, <2>13 DEF BlockEnds
    <3>3. /\ UNCHANGED <<chain, account, posted, acked, up, dbup, boot, armed, known,
                         s_json_callback, task, height>>
          /\ i' = i + 1 /\ step' = "block" /\ todo' = {}
      BY <2>13 DEF BlockEnds, NextHeight, nodeVars, merchantVars, timerVars
    <3>4. /\ chain' \in [Coin -> Seq(SUBSET Tx)] /\ account' \in SUBSET WalletAddress
          /\ posted' \in SUBSET Tx /\ acked' \in SUBSET Tx
          /\ up' \in BOOLEAN /\ dbup' \in BOOLEAN
          /\ boot' \in SUBSET Task /\ armed' \in SUBSET Task
          /\ known' \in [Coin -> SUBSET WalletAddress] /\ s_json_callback' \in SUBSET Tx
      BY <3>3
    <3>5. /\ task' \in Coin \cup {"none"} /\ height' \in Nat /\ todo' \in SUBSET Tx
          /\ step' \in {"tip", "block", "tx"} /\ i' \in Nat /\ (step' # "tip" => i' > 0)
      BY <3>3
    <3> QED
      BY <3>2, <3>4, <3>5
  <2>14. ASSUME NEW c \in Coin, PassEnds(c) PROVE TypeOK'
    BY <2>14 DEF PassEnds, Finish, Task, nodeVars, dbVars, merchantVars, budgetVars
  <2>15. ASSUME NEW c \in Coin, NEW t \in Tx, RecordTx(c, t) PROVE TypeOK'
    <3>1. Capped(vect_sql[t] + 1) \in 0..RowCap
      <4>1. vect_sql[t] + 1 \in Nat
        BY BoundAssumption
      <4> QED
        BY <4>1, CappedType
    <3> QED
      BY <2>15, <3>1 DEF RecordTx, InBlock, nodeVars, dbVars, timerVars, budgetVars
  <2>16. ASSUME NEW c \in Coin, NEW t \in Tx, IgnoreTx(c, t) PROVE TypeOK'
    BY <2>16 DEF IgnoreTx, nodeVars, dbVars, merchantVars, timerVars, budgetVars
  <2>17. ASSUME NEW c \in Coin, NEW t \in Tx, CallbackThrows(c, t) PROVE TypeOK'
    BY <2>17, <2>5 DEF CallbackThrows, merchantVars
  <2>18. ASSUME NEW c \in Coin, NEW t \in Tx, TxFails(c, t) PROVE TypeOK'
    BY <2>18, SMTT(30) DEF TxFails, Finish, Fault, Task, nodeVars, dbVars, merchantVars, timerVars
  <2>19. ASSUME NEW c \in Coin, NEW t \in Tx, TxSkipped(c, t) PROVE TypeOK'
    BY <2>19, SMTT(30) DEF TxSkipped, Fault, nodeVars, dbVars, merchantVars, timerVars
  <2>20. CASE UNCHANGED vars
    BY <2>20 DEF vars, nodeVars, dbVars, merchantVars, timerVars, scanVars, budgetVars
  <2> HIDE DEF TypeOK
  <2> QED
    BY <2>1, <2>2, <2>3, <2>4, <2>6, <2>7, <2>8, <2>9, <2>10, <2>11, <2>12, <2>13, <2>14,
       <2>15, <2>16, <2>17, <2>18, <2>19, <2>20 DEF Next, Scan
<1> QED
  BY <1>1, <1>2, PTL DEF Spec

-------------------------------------------------------------------------------
(* The scan point of BTC.                                                  *)

\* What no step changes for the worse: the accounts and rows there are, and the
\* blocks up to the height of the chain.
Keeps(c) ==
  /\ account \subseteq account'
  /\ chain'[c] \in Seq(SUBSET Tx)
  /\ Len(chain[c]) <= Len(chain'[c])
  /\ \A h \in 1..Len(chain[c]) : chain'[c][h] = chain[c][h]
  /\ \A t \in Tx : Settled(t) => Settled(t)'

LEMMA FirstScannedType == ASSUME NEW c \in Coin PROVE FirstScanned(c) \in Nat \ {0}
  BY BoundAssumption DEF FirstScanned

\* The scan point stays and so does what it covers.
LEMMA MarkerStays ==
  ASSUME TypeOK, TypeOK', NEW c \in Coin, Keeps(c), ScanPointInv(c), marker'[c] = marker[c]
  PROVE  /\ InitialAccount \subseteq account'
         /\ marker'[c] <= Len(chain'[c])
         /\ DepositsRecorded(c)'
<1>1. /\ marker[c] \in Nat /\ Len(chain[c]) \in Nat /\ Len(chain'[c]) \in Nat
      /\ FirstScanned(c) \in Nat \ {0}
  <2>1. FirstScanned(c) \in Nat \ {0}
    BY FirstScannedType
  <2>2. marker \in [Coin -> Nat] /\ chain \in [Coin -> Seq(SUBSET Tx)]
    BY DEF TypeOK
  <2>3. chain'[c] \in Seq(SUBSET Tx)
    BY DEF Keeps
  <2> QED
    BY <2>1, <2>2, <2>3
<1>2. marker'[c] <= Len(chain'[c]) /\ InitialAccount \subseteq account'
  BY <1>1 DEF Keeps, ScanPointInv
<1>3. ASSUME NEW h \in FirstScanned(c)..marker'[c], NEW t \in chain'[c][h],
             AddressOf[t] \in FirstAccounts(c)
      PROVE  Settled(t)'
  <2>1. h \in 1..Len(chain[c]) /\ h \in FirstScanned(c)..marker[c]
    BY <1>1 DEF ScanPointInv
  <2>2. t \in chain[c][h] /\ t \in Tx
    <3>1. chain'[c][h] = chain[c][h]
      BY <2>1 DEF Keeps
    <3>2. chain[c] \in Seq(SUBSET Tx)
      BY DEF TypeOK
    <3>3. chain[c][h] \in SUBSET Tx
      BY <3>2, <2>1
    <3> QED
      BY <1>3, <3>1, <3>3
  <2>3. Settled(t)
    BY <2>1, <2>2, <1>3 DEF ScanPointInv, DepositsRecorded, RecordedBelowMarker
  <2> QED
    BY <2>2, <2>3 DEF Keeps
<1> QED
  BY <1>2, <1>3 DEF DepositsRecorded, RecordedBelowMarker, FirstAccounts, FirstScanned

\* A step that leaves the loop variables of the pass over c alone keeps what the
\* pass holds, if the rows it holds stay held.
LEMMA PassStays ==
  ASSUME TypeOK, TypeOK', NEW c \in Coin, Keeps(c), PassHolds(c),
         dbup' => dbup, task' = c => task = c,
         task' = c => UNCHANGED <<step, i, height, todo>>,
         task' = c => known[c] \subseteq known'[c],
         task' = c => \A t \in Tx : Held(t) => Held(t)'
  PROVE  PassHolds(c)'
<1> SUFFICES ASSUME dbup', task' = c
             PROVE  /\ FirstAccounts(c) \subseteq known'[c]
                    /\ step' # "tip" =>
                         /\ height' <= Len(chain'[c])
                         /\ i' <= Len(chain'[c]) + 1 \/ i' = FirstScanned(c)
                         /\ \A h \in FirstScanned(c)..Len(chain'[c]) :
                              h < i' => HeldAmong(c, chain[c][h])'
                    /\ step' = "tx" => i' <= height' /\ HeldAmong(c, chain[c][i] \ todo)'
  BY DEF PassHolds, FirstAccounts, FirstScanned
<1>1. dbup /\ task = c /\ UNCHANGED <<step, i, height, todo>>
  OBVIOUS
<1>2. FirstAccounts(c) \subseteq known'[c]
  BY <1>1 DEF PassHolds
<1>3. /\ Len(chain[c]) \in Nat /\ Len(chain'[c]) \in Nat /\ Len(chain[c]) <= Len(chain'[c])
      /\ i \in Nat /\ height \in Nat /\ (step # "tip" => i > 0)
      /\ FirstScanned(c) \in Nat \ {0}
  BY FirstScannedType DEF TypeOK, Keeps
<1>4. ASSUME NEW T \in SUBSET Tx, HeldAmong(c, T), NEW U \in SUBSET T
      PROVE  \A t \in U : AddressOf[t] \in FirstAccounts(c) => Held(t)'
  BY <1>4 DEF HeldAmong
<1>5. ASSUME NEW h \in 1..Len(chain[c])
      PROVE  chain'[c][h] = chain[c][h] /\ chain[c][h] \in SUBSET Tx
  BY DEF Keeps, TypeOK
<1>6. ASSUME step' # "tip"
      PROVE  /\ height' <= Len(chain'[c])
             /\ i' <= Len(chain'[c]) + 1 \/ i' = FirstScanned(c)
             /\ \A h \in FirstScanned(c)..Len(chain'[c]) :
                  h < i' => HeldAmong(c, chain[c][h])'
  <2>1. /\ height <= Len(chain[c])
        /\ i <= Len(chain[c]) + 1 \/ i = FirstScanned(c)
        /\ \A h \in FirstScanned(c)..Len(chain[c]) : h < i => HeldAmong(c, chain[c][h])
    BY <1>1, <1>6 DEF PassHolds
  <2>2. ASSUME NEW h \in FirstScanned(c)..Len(chain'[c]), h < i'
        PROVE  HeldAmong(c, chain[c][h])'
    <3>1. h \in 1..Len(chain[c]) /\ h \in FirstScanned(c)..Len(chain[c]) /\ h < i
      BY <1>1, <1>3, <2>1, <2>2
    <3> QED
      BY <3>1, <2>1, <1>4, <1>5 DEF HeldAmong, FirstAccounts
  <2> QED
    BY <2>1, <2>2, <1>1, <1>3
<1>7. ASSUME step' = "tx"
      PROVE  i' <= height' /\ HeldAmong(c, chain[c][i] \ todo)'
  <2>1. i <= height /\ height <= Len(chain[c]) /\ HeldAmong(c, chain[c][i] \ todo)
    BY <1>1, <1>7 DEF PassHolds
  <2>2. i \in 1..Len(chain[c])
    BY <2>1, <1>1, <1>3, <1>7
  <2> QED
    BY <2>1, <2>2, <1>1, <1>4, <1>5 DEF HeldAmong, FirstAccounts
<1> QED
  BY <1>2, <1>6, <1>7

\* A step that keeps the scan point of c and is not made by the pass over c.
LEMMA OtherStep ==
  ASSUME TypeOK, TypeOK', NEW c \in Coin, Keeps(c), ScanPointInv(c), marker'[c] = marker[c],
         ~up' => task' = "none", task' = "none" => step' = "tip", MapComplete(c)',
         dbup' => task' # c
  PROVE  ScanPointInv(c)'
<1>1. PassHolds(c)'
  BY DEF PassHolds
<1> QED
  BY <1>1, MarkerStays DEF ScanPointInv

\* Types of the variables of one coin.
LEMMA CoinType ==
  ASSUME TypeOK, NEW c \in Coin
  PROVE  chain[c] \in Seq(SUBSET Tx) /\ Len(chain[c]) \in Nat /\ marker[c] \in Nat /\ c # "none"
  BY CoinAssumption DEF TypeOK, AllCoins

\* The environment and the life of the process leave the scan point alone.
LEMMA OutsideStep ==
  ASSUME TypeOK, TypeOK', NEW e \in Coin \ Reorging, OneBase(e), ScanPointInv(e),
         \/ \E c \in Coin : Mine(c) \/ Reorg(c)
         \/ CreateAddress \/ Start \/ Crash \/ LoseConnection
         \/ ReCallback \/ ReCallbackThrows
         \/ \E c \in Coin, t \in Tx : CallbackThrows(c, t)
         \/ UNCHANGED vars
  PROVE  ScanPointInv(e)'
<1>1. chain[e] \in Seq(SUBSET Tx) /\ Len(chain[e]) \in Nat /\ e # "none"
  BY CoinType
<1>2. ASSUME UNCHANGED <<nodeVars, dbVars>> PROVE Keeps(e) /\ UNCHANGED marker
  BY <1>1, <1>2 DEF Keeps, Settled, nodeVars, dbVars
<1> USE DEF Settled, MapComplete, FirstAccounts
<1>3. ASSUME NEW c \in Coin, Mine(c) PROVE ScanPointInv(e)'
  <2>1. PICK b \in SUBSET Tx : chain' = [chain EXCEPT ![c] = Append(@, b)]
    BY <1>3 DEF Mine, Mempool
  <2>2. Keeps(e)
    <3>1. CASE c = e
      <4>1. chain'[e] = Append(chain[e], b)
        BY <2>1, <3>1, <1>1 DEF TypeOK
      <4>2. /\ Len(chain'[e]) = Len(chain[e]) + 1
            /\ \A h \in 1..Len(chain[e]) : chain'[e][h] = chain[e][h]
            /\ chain'[e] \in Seq(SUBSET Tx)
        BY <4>1, <1>1
      <4> QED
        BY <4>2, <1>1, <1>3 DEF Keeps, Mine, dbVars
    <3>2. CASE c # e
      <4>1. chain'[e] = chain[e]
        BY <2>1, <3>2, <1>1 DEF TypeOK
      <4> QED
        BY <4>1, <1>1, <1>3 DEF Keeps, Mine, dbVars
    <3> QED
      BY <3>1, <3>2
  <2>3. UNCHANGED <<marker, up, dbup, task, step, i, height, todo, known, utxo, refused, vect_sql>>
    BY <1>3 DEF Mine, dbVars, scanVars
  <2>4. PassHolds(e)'
    BY <1>1, <2>2, <2>3, PassStays DEF ScanPointInv, Held
  <2> QED
    BY <1>1, <2>2, <2>3, <2>4, MarkerStays DEF ScanPointInv
<1>4. ASSUME NEW c \in Coin, Reorg(c) PROVE ScanPointInv(e)'
  <2>1. chain'[e] = chain[e]
    BY <1>1, <1>4 DEF Reorg, TypeOK
  <2>2. Keeps(e)
    BY <1>1, <2>1, <1>4 DEF Keeps, Reorg, dbVars
  <2>3. UNCHANGED <<marker, up, dbup, task, step, i, height, todo, known, utxo, refused, vect_sql>>
    BY <1>4 DEF Reorg, dbVars, scanVars
  <2>4. PassHolds(e)'
    BY <1>1, <2>2, <2>3, PassStays DEF ScanPointInv, Held
  <2> QED
    BY <1>1, <2>2, <2>3, <2>4, MarkerStays DEF ScanPointInv
<1>5. ASSUME CreateAddress \/ ReCallback \/ UNCHANGED vars PROVE ScanPointInv(e)'
  <2>1. UNCHANGED <<chain, utxo, refused, marker, up, dbup, task, step, i, height, todo, known,
                    vect_sql>>
    BY <1>5 DEF CreateAddress, ReCallback, vars, nodeVars, dbVars, scanVars
  <2>2. account \subseteq account'
    BY <1>5 DEF CreateAddress, ReCallback, vars, nodeVars
  <2>3. Keeps(e)
    BY <1>1, <2>1, <2>2 DEF Keeps
  <2>4. PassHolds(e)'
    BY <1>1, <2>1, <2>3, PassStays DEF ScanPointInv, Held
  <2> QED
    BY <1>1, <2>1, <2>3, <2>4, MarkerStays DEF ScanPointInv
<1>6. ASSUME Start PROVE ScanPointInv(e)'
  <2>1. /\ UNCHANGED <<nodeVars, dbVars, task, step>> /\ up' /\ task = "none"
    BY <1>6 DEF Start, ScanPointInv, scanVars
  <2>2. MapComplete(e)'
    <3>1. PICK base \in [Coin \ Polled -> account] :
               /\ \A c \in Coin \ Polled : base[c] \in Wallet[c]
               /\ known' = [c \in Coin |-> IF c \in Polled THEN {} ELSE {base[c]}]
      BY <1>6 DEF Start
    <3>2. CASE e \in Polled
      BY <3>1, <3>2
    <3>3. CASE e \notin Polled
      <4>1. known'[e] = {base[e]} /\ base[e] \in Wallet[e] /\ \A a, b \in Wallet[e] : a = b
        BY <3>1, <3>3 DEF OneBase
      <4> QED
        BY <4>1
    <3> QED
      BY <3>2, <3>3
  <2> QED
    BY <1>1, <1>2, <2>1, <2>2, OtherStep DEF ScanPointInv
<1>7. ASSUME Die PROVE ScanPointInv(e)'
  <2>1. UNCHANGED <<nodeVars, dbVars>> /\ task' = "none" /\ step' = "tip" /\ dbup' = FALSE
        /\ known'[e] = {}
    BY <1>7 DEF Die
  <2> QED
    BY <1>1, <1>2, <2>1, OtherStep
<1>8. ASSUME LoseConnection PROVE ScanPointInv(e)'
  <2>1. UNCHANGED <<nodeVars, dbVars, up, task, step, known>> /\ dbup' = FALSE
    BY <1>8 DEF LoseConnection, scanVars
  <2> QED
    BY <1>1, <1>2, <2>1, OtherStep DEF ScanPointInv
<1> QED
  BY <1>3, <1>4, <1>5, <1>6, <1>7, <1>8 DEF Crash, ReCallbackThrows, CallbackThrows

\* The steps of a scan, of e or of another coin.  That of BTC may fail; of ETH's
\* height less can be said.
LEMMA ScanStep ==
  ASSUME TypeOK, TypeOK', NEW e \in Coin \ (Reorging \cup {"ETH"}), ScanPointInv(e),
         e = "BTC" \/ faults' = 0,
         NEW c \in Coin,
         \/ ScanTimer(c) \/ ReadHeights(c) \/ FetchBlock(c) \/ BlockEnds(c) \/ PassEnds(c)
         \/ \E t \in Tx : RecordTx(c, t) \/ IgnoreTx(c, t) \/ TxFails(c, t) \/ TxSkipped(c, t)
  PROVE  ScanPointInv(e)'
<1>1. /\ chain[e] \in Seq(SUBSET Tx) /\ Len(chain[e]) \in Nat /\ marker[e] \in Nat
      /\ i \in Nat /\ (step # "tip" => i > 0) /\ height \in Nat /\ e # "none"
      /\ FirstScanned(e) \in Nat \ {0}
  BY CoinType, FirstScannedType DEF TypeOK
<1>2. UNCHANGED <<chain, account, up>>
  BY DEF ScanTimer, ReadHeights, FetchBlock, BlockEnds, PassEnds, RecordTx, IgnoreTx, TxFails,
         TxSkipped, nodeVars
<1>3. ASSUME \A t \in Tx : Settled(t) => Settled(t)' PROVE Keeps(e)
  BY <1>1, <1>2, <1>3 DEF Keeps
<1>4. ASSUME UNCHANGED dbVars PROVE Keeps(e) /\ UNCHANGED <<utxo, refused, marker>>
  BY <1>3, <1>4 DEF dbVars, Settled
<1>17. MapComplete(e)'
  <2>1. CASE UNCHANGED known
    BY <1>2, <2>1 DEF ScanPointInv, MapComplete, FirstAccounts
  <2>2. CASE ScanTimer(c)
    <3>1. known' = [known EXCEPT ![c] = @ \cup (account \cap Wallet[c])] \/ UNCHANGED known
      BY <2>2 DEF ScanTimer
    <3>2. known' = [known EXCEPT ![c] = @ \cup (account \cap Wallet[c])]
          => known'[e] \in {known[e], known[e] \cup (account \cap Wallet[e])}
      BY DEF TypeOK
    <3> QED
      BY <2>1, <3>1, <3>2 DEF ScanPointInv, MapComplete, FirstAccounts
  <2> QED
    BY <2>1, <2>2
    DEF ReadHeights, FetchBlock, BlockEnds, PassEnds, RecordTx, IgnoreTx, TxFails, TxSkipped
<1>5. Finish(c) => task' = "none" /\ step' = "tip"
  BY DEF Finish
<1>6. up \/ task = "none"
  BY DEF ScanPointInv
<1>7. ASSUME c # e PROVE ScanPointInv(e)'
  <2>1. task' \in {"none", c} /\ (task' = "none" => step' = "tip") /\ (~up => task' = "none")
    <3>1. CASE ScanTimer(c)
      BY <3>1 DEF ScanTimer, MayFire, ScanPointInv
    <3>2. CASE ReadHeights(c)
      BY <3>2, <1>5, <1>6, CoinAssumption DEF ReadHeights, AllCoins
    <3>3. CASE FetchBlock(c)
      BY <3>3, <1>5, <1>6, CoinAssumption
         DEF FetchBlock, BlockFound, BlockFails, BlockSkipped, NextHeight, AllCoins
    <3>4. CASE BlockEnds(c) \/ PassEnds(c)
      BY <3>4, <1>5, <1>6, CoinAssumption DEF BlockEnds, PassEnds, NextHeight, AllCoins
    <3>5. CASE \E t \in Tx : RecordTx(c, t) \/ IgnoreTx(c, t) \/ TxFails(c, t) \/ TxSkipped(c, t)
      BY <3>5, <1>5, <1>6, CoinAssumption
         DEF RecordTx, IgnoreTx, TxFails, TxSkipped, InBlock, AllCoins
    <3> QED
      BY <3>1, <3>2, <3>3, <3>4, <3>5
  <2>2. Keeps(e) /\ marker'[e] = marker[e]
    <3>1. CASE UNCHANGED dbVars
      BY <3>1, <1>4
    <3>2. CASE RefreshDB(c)
      BY <3>2, <1>3, <1>7, CommitFacts DEF Settled
    <3> QED
      BY <3>1, <3>2 DEF ScanTimer, ReadHeights, FetchBlock, BlockEnds, PassEnds, RecordTx,
                        IgnoreTx, TxFails, TxSkipped, dbVars
  <2>3. task' # e
    BY <2>1, <1>1, <1>7
  <2> QED
    BY <2>1, <2>2, <2>3, <1>2, <1>17, OtherStep
<1>8. ASSUME c = e, task' = "none", step' = "tip", UNCHANGED dbVars
      PROVE  ScanPointInv(e)'
  BY <1>1, <1>8, <1>4, <1>17, OtherStep
<1>9. ASSUME ScanTimer(e) PROVE ScanPointInv(e)'
  <2>1. /\ UNCHANGED <<dbVars, dbup, step>> /\ task = "none" /\ up /\ step = "tip"
        /\ task' \in {"none", e}
    BY <1>9 DEF ScanTimer, MayFire, ScanPointInv
  <2>2. task' = e => FirstAccounts(e) \subseteq known'[e]
    BY <1>1, <1>9, <1>17, <2>1 DEF ScanTimer, MapComplete, FirstAccounts
  <2>3. PassHolds(e)'
    BY <2>1, <2>2 DEF PassHolds, FirstAccounts, FirstScanned
  <2> QED
    BY <2>1, <2>3, <1>2, <1>4, <1>17, MarkerStays DEF ScanPointInv
<1>10. ASSUME ReadHeights(e), dbup, step' = "block", task' = task, UNCHANGED todo,
              i' = FirstHeight(e), height' = LastHeight(e)
       PROVE  ScanPointInv(e)'
  <2>1. UNCHANGED <<dbVars, dbup, known, vect_sql>> /\ task = e
    BY <1>10 DEF ReadHeights
  <2>2. i' \in {FirstScanned(e), marker[e] + 1} /\ height' = Len(chain[e])
    BY <1>10 DEF FirstHeight, FirstScanned, LastHeight
  <2>3. ASSUME NEW h \in FirstScanned(e)..Len(chain[e]), h < i'
        PROVE  \A t \in chain[e][h] : AddressOf[t] \in FirstAccounts(e) => Settled(t)
    <3>1. h \in FirstScanned(e)..marker[e]
      BY <2>2, <2>3, <1>1
    <3> QED
      BY <3>1, <2>3 DEF ScanPointInv, DepositsRecorded, RecordedBelowMarker
  <2>4. PassHolds(e)'
    <3>1. FirstAccounts(e) \subseteq known'[e]
      BY <1>10, <2>1 DEF ScanPointInv, PassHolds
    <3>2. i' <= Len(chain[e]) + 1 \/ i' = FirstScanned(e)
      BY <2>2, <1>1 DEF ScanPointInv
    <3>3. \A h \in FirstScanned(e)..Len(chain'[e]) : h < i' => HeldAmong(e, chain[e][h])'
      BY <2>1, <2>3, <1>2 DEF HeldAmong, Held, Settled, FirstAccounts, dbVars
    <3> QED
      BY <3>1, <3>2, <3>3, <2>2, <1>1, <1>2, <1>10 DEF PassHolds, FirstAccounts, FirstScanned
  <2> QED
    BY <2>1, <2>4, <1>1, <1>2, <1>4, <1>17, <1>6, <1>10, MarkerStays DEF ScanPointInv
<1>11. ASSUME FetchBlock(e), BlockFound(e), step' = "tx" PROVE ScanPointInv(e)'
  <2>1. UNCHANGED <<dbVars, dbup, known, vect_sql>> /\ task = e /\ step = "block" /\ i <= height
    BY <1>11 DEF FetchBlock
  <2>2. /\ todo' = (IF i <= Len(chain[e]) THEN chain[e][i] ELSE {}) /\ step' = "tx"
        /\ UNCHANGED <<task, i, height>>
    BY <1>11 DEF BlockFound, NextHeight
  <2>3. PassHolds(e)'
    <3>1. SUFFICES ASSUME dbup
                   PROVE  PassHolds(e)'
      BY <2>1 DEF PassHolds
    <3>2. /\ FirstAccounts(e) \subseteq known[e]
          /\ height <= Len(chain[e])
          /\ \A h \in FirstScanned(e)..Len(chain[e]) : h < i => HeldAmong(e, chain[e][h])
      BY <2>1, <3>1 DEF ScanPointInv, PassHolds
    <3>3. todo' = chain[e][i]
      BY <2>1, <2>2, <3>2, <1>1
    <3>4. HeldAmong(e, chain[e][i] \ todo)'
      BY <3>3, <2>2, <1>2 DEF HeldAmong
    <3>5. \A h \in FirstScanned(e)..Len(chain'[e]) : h < i' => HeldAmong(e, chain[e][h])'
      BY <3>2, <2>1, <2>2, <1>2 DEF HeldAmong, Held, Settled, FirstAccounts, dbVars
    <3> QED
      BY <3>2, <3>4, <3>5, <2>1, <2>2, <1>1, <1>2 DEF PassHolds, FirstAccounts, FirstScanned
  <2> QED
    BY <2>1, <2>2, <2>3, <1>2, <1>4, <1>17, <1>6, MarkerStays DEF ScanPointInv
<1>12. ASSUME NEW t \in Tx, RecordTx(e, t) \/ IgnoreTx(e, t) PROVE ScanPointInv(e)'
  <2>1. /\ UNCHANGED <<dbVars, dbup, known, task, step, i, height>>
        /\ task = e /\ step = "tx" /\ t \in todo /\ todo' = todo \ {t}
    BY <1>12 DEF RecordTx, IgnoreTx, InBlock
  <2>2. \A s \in Tx : Held(s) => Held(s)'
    <3>1. CASE IgnoreTx(e, t)
      BY <3>1 DEF IgnoreTx, Held, Settled, dbVars
    <3>2. CASE RecordTx(e, t)
      <4>1. /\ vect_sql[t] + 1 \in Nat /\ vect_sql[t] + 1 > 0
            /\ vect_sql' = [vect_sql EXCEPT ![t] = Capped(vect_sql[t] + 1)]
            /\ vect_sql \in [Tx -> 0..RowCap]
        <5>1. vect_sql[t] \in Nat /\ vect_sql \in [Tx -> 0..RowCap]
          BY BoundAssumption DEF TypeOK
        <5> QED
          BY <5>1, <3>2 DEF RecordTx
      <4>2. Capped(vect_sql[t] + 1) > 0
        BY <4>1, CappedType
      <4>3. \A s \in Tx : vect_sql[s] > 0 => vect_sql'[s] > 0
        BY <4>1, <4>2
      <4> QED
        BY <4>3, <2>1 DEF Held, Settled, dbVars
    <3> QED
      BY <1>12, <3>1, <3>2
  <2>3. dbup /\ AddressOf[t] \in FirstAccounts(e) => Held(t)'
    <3>1. CASE IgnoreTx(e, t)
      BY <3>1, <2>1 DEF IgnoreTx, IsRecorded, ScanPointInv, PassHolds
    <3>2. CASE RecordTx(e, t)
      <4>1. /\ vect_sql[t] + 1 \in Nat /\ vect_sql[t] + 1 > 0
            /\ vect_sql' = [vect_sql EXCEPT ![t] = Capped(vect_sql[t] + 1)]
            /\ vect_sql \in [Tx -> 0..RowCap]
        <5>1. vect_sql[t] \in Nat /\ vect_sql \in [Tx -> 0..RowCap]
          BY BoundAssumption DEF TypeOK
        <5> QED
          BY <5>1, <3>2 DEF RecordTx
      <4>2. Capped(vect_sql[t] + 1) > 0
        BY <4>1, CappedType
      <4> QED
        BY <4>1, <4>2 DEF Held
    <3> QED
      BY <1>12, <3>1, <3>2
  <2>4. PassHolds(e)'
    <3>1. SUFFICES ASSUME dbup PROVE PassHolds(e)'
      BY <2>1 DEF PassHolds
    <3>2. /\ FirstAccounts(e) \subseteq known[e]
          /\ height <= Len(chain[e]) /\ i <= height
          /\ \A h \in FirstScanned(e)..Len(chain[e]) : h < i => HeldAmong(e, chain[e][h])
          /\ HeldAmong(e, chain[e][i] \ todo)
      BY <2>1, <3>1 DEF ScanPointInv, PassHolds
    <3>3. \A h \in 1..Len(chain[e]) : chain[e][h] \in SUBSET Tx
      BY <1>1
    <3>4. \A h \in FirstScanned(e)..Len(chain'[e]) : h < i' => HeldAmong(e, chain[e][h])'
      BY <3>2, <3>3, <2>1, <2>2, <1>1, <1>2 DEF HeldAmong, FirstAccounts
    <3>5. i \in 1..Len(chain[e])
      BY <3>2, <2>1, <1>1
    <3>6. HeldAmong(e, chain[e][i] \ todo)'
      BY <3>1, <3>2, <3>3, <3>5, <2>1, <2>2, <2>3, <1>2 DEF HeldAmong, FirstAccounts
    <3> QED
      BY <3>2, <3>4, <3>6, <2>1, <1>1, <1>2 DEF PassHolds, FirstAccounts, FirstScanned
  <2> QED
    BY <2>1, <2>4, <1>2, <1>4, <1>17, <1>6, MarkerStays DEF ScanPointInv
<1>13. ASSUME BlockEnds(e) PROVE ScanPointInv(e)'
  <2>1. /\ task = e /\ step = "tx" /\ todo = {} /\ UNCHANGED <<dbup, known, task, height>>
        /\ i' = i + 1 /\ step' = "block" /\ todo' = {}
    BY <1>13 DEF BlockEnds, NextHeight
  <2>2. ASSUME dbup
        PROVE  /\ FirstAccounts(e) \subseteq known[e]
               /\ height <= Len(chain[e]) /\ i <= height
               /\ \A h \in FirstScanned(e)..Len(chain[e]) : h < i => HeldAmong(e, chain[e][h])
               /\ HeldAmong(e, chain[e][i])
    BY <2>1, <2>2 DEF ScanPointInv, PassHolds
  <2>3. \A h \in 1..Len(chain[e]) : chain[e][h] \in SUBSET Tx
    BY <1>1
  <2>4. dbup => \A h \in FirstScanned(e)..Len(chain[e]) : h < i + 1 => HeldAmong(e, chain[e][h])
    BY <2>2, <1>1
  <2>5. /\ \A t \in Tx : Settled(t) => Settled(t)'
        /\ dbup => \A t \in Tx : Held(t) => Held(t)'
    BY <1>13, CommitFacts DEF BlockEnds, Held, Settled, dbVars
  <2>6. PassHolds(e)'
    <3>1. SUFFICES ASSUME dbup PROVE PassHolds(e)'
      BY <2>1 DEF PassHolds
    <3>2. \A h \in FirstScanned(e)..Len(chain'[e]) : h < i' => HeldAmong(e, chain[e][h])'
      BY <3>1, <2>1, <2>3, <2>4, <2>5, <1>1, <1>2 DEF HeldAmong, FirstAccounts
    <3>3. i' <= Len(chain[e]) + 1
      BY <3>1, <2>1, <2>2, <1>1
    <3> QED
      BY <3>1, <3>2, <3>3, <2>1, <2>2, <1>2 DEF PassHolds, FirstAccounts, FirstScanned
  <2>7. CASE marker'[e] = marker[e]
    BY <2>1, <2>5, <2>6, <2>7, <1>2, <1>3, <1>17, <1>6, MarkerStays DEF ScanPointInv
  <2>8. CASE marker'[e] # marker[e]
    <3>1. dbup /\ RefreshDB(e) /\ marker'[e] = i
      BY <2>8, <1>13, CommitFacts DEF BlockEnds, dbVars
    <3>2. marker'[e] <= Len(chain[e])
      BY <3>1, <2>2, <1>1
    <3>3. ASSUME NEW h \in FirstScanned(e)..marker'[e], NEW t \in chain[e][h],
                 AddressOf[t] \in FirstAccounts(e)
          PROVE  Settled(t)'
      <4>1. h \in 1..Len(chain[e]) /\ h \in FirstScanned(e)..Len(chain[e]) /\ h < i + 1
        BY <3>1, <3>2, <1>1
      <4>2. t \in Tx /\ Held(t)
        BY <4>1, <3>1, <3>3, <2>3, <2>4 DEF HeldAmong
      <4> QED
        BY <4>2, <3>1, CommitFacts
    <3>4. DepositsRecorded(e)'
      BY <3>3, <1>2 DEF DepositsRecorded, RecordedBelowMarker, FirstAccounts, FirstScanned
    <3> QED
      BY <3>2, <3>4, <2>1, <2>6, <1>2, <1>17, <1>6 DEF ScanPointInv
  <2> QED
    BY <2>7, <2>8
<1>14. ASSUME FetchBlock(e), NextHeight, ~Fault, todo' = {} PROVE ScanPointInv(e)'
  <2>1. /\ UNCHANGED <<dbVars, dbup, known, vect_sql, task, height>> /\ task = e /\ step = "block"
        /\ i <= height /\ i' = i + 1 /\ step' = "block"
    BY <1>14 DEF FetchBlock, NextHeight
  <2>2. i <= Len(chain[e]) => chain[e][i] = {}
    BY <1>14, <2>1 DEF FetchBlock, BlockFound, BlockFails, BlockSkipped
  <2>3. PassHolds(e)'
    <3>1. SUFFICES ASSUME dbup PROVE PassHolds(e)'
      BY <2>1 DEF PassHolds
    <3>2. /\ FirstAccounts(e) \subseteq known[e]
          /\ height <= Len(chain[e]) /\ i' <= Len(chain[e]) + 1
          /\ \A h \in FirstScanned(e)..Len(chain[e]) : h < i => HeldAmong(e, chain[e][h])
      BY <2>1, <3>1, <1>1 DEF ScanPointInv, PassHolds
    <3>3. \A h \in FirstScanned(e)..Len(chain[e]) : h < i' => HeldAmong(e, chain[e][h])
      BY <1>1, <2>1, <2>2, <3>2 DEF HeldAmong
    <3>4. \A h \in FirstScanned(e)..Len(chain'[e]) : h < i' => HeldAmong(e, chain[e][h])'
      BY <3>3, <2>1, <1>2 DEF HeldAmong, Held, Settled, FirstAccounts, dbVars
    <3> QED
      BY <3>2, <3>4, <2>1, <1>2 DEF PassHolds, FirstAccounts, FirstScanned
  <2> QED
    BY <2>1, <2>3, <1>1, <1>2, <1>4, <1>17, <1>6, MarkerStays DEF ScanPointInv
<1>15. e # "BTC" => ~Fault
  BY DEF Fault, TypeOK
<1>16. ASSUME c = e PROVE ScanPointInv(e)'
  <2>1. CASE ReadHeights(e)
    BY <2>1, <1>5, <1>8, <1>10, <1>16 DEF ReadHeights
  <2>2. CASE FetchBlock(e)
    <3>1. UNCHANGED dbVars
      BY <2>2 DEF FetchBlock
    <3>2. \/ BlockFound(e) /\ step' = "tx"
          \/ NextHeight /\ todo' = {} /\ ~Fault
          \/ Finish(e)
      BY <2>2, <1>15
      DEF FetchBlock, BlockFound, BlockFails, BlockSkipped, SkipsBlock, NextHeight
    <3> QED
      BY <2>2, <3>1, <3>2, <1>5, <1>8, <1>11, <1>14, <1>16
  <2>3. CASE PassEnds(e)
    BY <2>3, <1>5, <1>8, <1>16 DEF PassEnds
  <2>4. CASE \E t \in Tx : TxFails(e, t) \/ TxSkipped(e, t)
    BY <2>4, <1>5, <1>8, <1>15, <1>16 DEF TxFails, TxSkipped, AbandonsPass, SkipsTx
  <2> QED
    BY <2>1, <2>2, <2>3, <2>4, <1>9, <1>12, <1>13, <1>16
<1> QED
  BY <1>7, <1>16

LEMMA ScanPointHolds ==
  ASSUME "BTC" \in Coin \ Reorging
  PROVE  Spec => []ScanPointInv("BTC")
<1>1. Init => ScanPointInv("BTC")
  BY TxAssumption
     DEF Init, ScanPointInv, DepositsRecorded, RecordedBelowMarker, PassHolds, MapComplete,
         FirstScanned
<1>2. TypeOK /\ TypeOK' /\ ScanPointInv("BTC") /\ [Next]_vars => ScanPointInv("BTC")'
  BY OutsideStep, ScanStep DEF Next, Scan, OneBase, Polled
<1> QED
  BY <1>1, <1>2, TypeCorrect, PTL DEF Spec

\* The scan point of BTC covers only deposits that are in txutxo or whose own
\* INSERT failed, whatever RPCs and other statements fail, whenever the connection
\* is lost or the process dies, and whichever other coins commit what scanBTC left
\* in vect_sql_ (lines 285-439, 125-135; db_mysql.cpp:43-110).
THEOREM ScanPointCorrect ==
  ASSUME "BTC" \in Coin \ Reorging
  PROVE  Spec => [](BTCScanPointInv /\ BTCDepositsRecorded)
<1>1. ScanPointInv("BTC") => BTCScanPointInv /\ BTCDepositsRecorded
  BY DEF ScanPointInv, BTCScanPointInv, BTCDepositsRecorded
<1> QED
  BY <1>1, ScanPointHolds, PTL

-------------------------------------------------------------------------------
(* The scan points of the other coins, as long as no RPC fails.            *)

LEMMA NoFault ==
  ASSUME TypeOK, [Next]_vars, faults' = 0
  PROVE  faults = 0 /\ ~Fault
<1>1. UNCHANGED faults \/ Fault
  <2>1. ASSUME NEW c \in Coin, BlockEnds(c) PROVE UNCHANGED faults \/ Fault
    BY <2>1, CommitFacts DEF BlockEnds, budgetVars
  <2> QED
    BY <2>1
    DEF Next, Scan, Mine, Reorg, CreateAddress, Start, Crash, Die, LoseConnection,
        ScanTimer, ReadHeights, FetchBlock, BlockFound, BlockFails, BlockSkipped,
        PassEnds, RecordTx, IgnoreTx, CallbackThrows, TxFails, TxSkipped,
        ReCallback, ReCallbackThrows, budgetVars, vars
<1> QED
  BY <1>1 DEF Fault, TypeOK

Tight == {c \in Coin \ (Reorging \cup {"ETH"}) : OneBase(c)}
FaultFreeInv == faults = 0 => \A c \in Tight : ScanPointInv(c)

\* No scan passes over a payment to a first address before an RPC or a statement
\* failed or the connection was lost (lines 431, 733, 884, 1007).
THEOREM LossFollowsFault == Spec => []LossNeedsFault
<1>1. Init => FaultFreeInv
  <2> SUFFICES ASSUME Init, NEW c \in Tight PROVE ScanPointInv(c)
    BY DEF FaultFreeInv
  <2>1. marker[c] = 0 /\ chain[c] = <<>> /\ known[c] = {} /\ FirstScanned(c) \in Nat \ {0}
    BY FirstScannedType DEF Init, Tight
  <2>2. InitialAccount \subseteq account /\ task = "none" /\ step = "tip" /\ dbup = FALSE
    BY DEF Init
  <2>3. DepositsRecorded(c)
    BY <2>1 DEF DepositsRecorded, RecordedBelowMarker
  <2> QED
    BY <2>1, <2>2, <2>3 DEF ScanPointInv, PassHolds, MapComplete
<1>2. TypeOK /\ TypeOK' /\ FaultFreeInv /\ [Next]_vars => FaultFreeInv'
  <2> SUFFICES ASSUME TypeOK, TypeOK', FaultFreeInv, [Next]_vars PROVE FaultFreeInv'
    OBVIOUS
  <2>1. faults' = 0 => faults = 0
    BY NoFault
  <2>2. ASSUME faults' = 0, NEW c \in Tight PROVE ScanPointInv(c)'
    <3>1. c \in Coin \ Reorging /\ ScanPointInv(c) /\ OneBase(c)
      BY <2>1, <2>2 DEF FaultFreeInv, Tight
    <3> QED
      BY <2>2, <3>1, OutsideStep, ScanStep DEF Next, Scan, Tight
  <2> QED
    BY <2>2 DEF FaultFreeInv, Tight, OneBase
<1>3. FaultFreeInv => LossNeedsFault
  BY DEF FaultFreeInv, Tight, LossNeedsFault, ScanPointInv
<1> QED
  BY <1>1, <1>2, <1>3, TypeCorrect, PTL DEF Spec
===============================================================================
