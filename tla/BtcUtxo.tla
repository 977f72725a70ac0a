-------------------------------- MODULE BtcUtxo --------------------------------
(***************************************************************************)
(* How scanBTC tells deposits, withdrawals and internal transfers apart    *)
(* (monitor/src/syncer.cpp).  An output is the wallet's when its address   *)
(* is in s_address_id_btc, a map that each timer adds to; a transaction    *)
(* spends from the wallet (`vin`) when s_txid_address holds the id of a    *)
(* transaction it spends from; that map grows with the scan and is filled  *)
(* from table txutxo at the start.  Both live in memory.                   *)
(*                                                                         *)
(* The scan's control is that of module Syncer, reduced to what the flags  *)
(* depend on: a block holds one transaction, a transaction is named by its *)
(* place in the chain, and an abandoned pass, a commit for another coin, a *)
(* new address and a crash may fall between any two blocks.                *)
(*                                                                         *)
(* An operator named X_Suffix is X with a plausible slip.                  *)
(***************************************************************************)
EXTENDS Integers, Sequences, FiniteSets

CONSTANTS
  Own, Other,     \* addresses that the server may create, and all others
  FirstOwn,       \* addresses in table account from the beginning
  NoAddress,      \* of an output without scriptPubKey.addresses
  Shapes,         \* the outputs that transactions may have, sequences of these
  Every,          \* blocks between scan points (100)
  Sharing,        \* whether another coin commits rows of an abandoned pass
  MaxTx,          \* bound: transactions
  MaxFaults,      \* bound: failed RPCs and SQL statements
  MaxCrashes      \* bound: deaths of the process

ASSUME UtxoAssumption ==
  /\ Own \cap Other = {} /\ NoAddress \notin Own /\ FirstOwn \subseteq Own
  /\ Shapes \subseteq Seq(Own \cup Other \cup {NoAddress})
  /\ Sharing \in BOOLEAN /\ Every \in Nat \ {0}
  /\ MaxTx \in Nat /\ MaxFaults \in Nat /\ MaxCrashes \in Nat

VARIABLES
  chain,          \* the transactions: [ins : set of <<txid, n>>, outs : Seq(address)]
  account,        \* addresses in table account
  txutxo, marker, \* the database: rows of the coin, MAX(height)
  s_address_id_btc, \* addresses in the map
  s_txid_address, \* ids in the map
  vect_sql,       \* rows not yet committed
  i, height,      \* the pass running; i = 0 between passes
  up, faults, crashes,
  \* history
  refused,        \* rows whose INSERT failed
  blind,          \* init once could not read txutxo
  made            \* rows this process made, with the address map it then had

nodeVars == <<chain, account>>
dbVars == <<txutxo, marker, refused>>
memVars == <<s_address_id_btc, s_txid_address, vect_sql, made>>
passVars == <<i, height>>
budgetVars == <<faults, crashes>>
vars == <<nodeVars, dbVars, memVars, passVars, up, budgetVars, blind>>

Outputs(t) == DOMAIN chain[t].outs
OwnOutput(o) == chain[o[1]].outs[o[2]] \in Own
Unspent ==
  {o \in UNION {{t} \X Outputs(t) : t \in DOMAIN chain} :
     \A t \in DOMAIN chain : o \notin chain[t].ins}

\* A row of txutxo; `out` is the output it stands for, `n` the column.
Row(t, out, n, flag) == [txid |-> t, out |-> out, n |-> n, flag |-> flag]
TxIds(rows) == {r.txid : r \in rows}

Init ==
  /\ chain = <<>> /\ account = FirstOwn /\ txutxo = {} /\ marker = 0
  /\ s_address_id_btc = {} /\ s_txid_address = {} /\ vect_sql = {} /\ i = 0 /\ height = 0
  /\ up = FALSE /\ faults = 0 /\ crashes = 0
  /\ refused = {} /\ blind = FALSE /\ made = {}

Fault == faults < MaxFaults /\ faults' = faults + 1 /\ UNCHANGED crashes

\* The node: inputs from outside the chain are left out, and all others of a
\* transaction are the wallet's or none is.  Nobody pays an address of the wallet
\* before the server created it.
Mine ==
  /\ Len(chain) < MaxTx
  /\ \E ins \in SUBSET Unspent, outs \in Shapes :
       /\ \A o, p \in ins : OwnOutput(o) = OwnOutput(p)
       /\ \A k \in DOMAIN outs : outs[k] \in Own => outs[k] \in account
       /\ chain' = Append(chain, [ins |-> ins, outs |-> outs])
  /\ UNCHANGED <<account, dbVars, memVars, passVars, up, budgetVars, blind>>

\* The server adds an address.
CreateAddress ==
  /\ \E a \in Own \ account : account' = account \cup {a}
  /\ UNCHANGED <<chain, dbVars, memVars, passVars, up, budgetVars, blind>>

\* Slip: the map starts empty.
Start_NoReload ==
  /\ ~up /\ up' = TRUE
  /\ UNCHANGED <<nodeVars, dbVars, memVars, passVars, budgetVars, blind>>

\* Syncer::init loads every row, whatever its flag, and goes on without when the
\* SELECT fails.
Start ==
  /\ ~up /\ up' = TRUE
  /\ \/ s_txid_address' = TxIds(txutxo) /\ UNCHANGED <<budgetVars, blind>>
     \/ Fault /\ blind' = TRUE /\ UNCHANGED s_txid_address
  /\ UNCHANGED <<nodeVars, dbVars, s_address_id_btc, vect_sql, made, passVars>>

Crash ==
  /\ up /\ crashes < MaxCrashes /\ crashes' = crashes + 1
  /\ up' = FALSE /\ s_address_id_btc' = {} /\ s_txid_address' = {} /\ vect_sql' = {}
  /\ made' = {} /\ i' = 0 /\ height' = 0
  /\ UNCHANGED <<nodeVars, dbVars, faults, blind>>

\* The timer adds to the address map.  When the SELECT fails the pass begins
\* without this step.
ReadAddresses ==
  /\ up /\ i = 0
  /\ s_address_id_btc' = s_address_id_btc \cup account
  /\ UNCHANGED <<nodeVars, dbVars, s_txid_address, vect_sql, made, passVars, up, budgetVars, blind>>

\* getCurrentHeight and getblockcount; without a new block the pass is over.
BeginPass ==
  /\ up /\ i = 0 /\ s_address_id_btc # {}
  /\ IF marker < Len(chain) THEN i' = marker + 1 /\ height' = Len(chain)
                            ELSE UNCHANGED passVars
  /\ UNCHANGED <<nodeVars, dbVars, memVars, up, budgetVars, blind>>

\* The search through the inputs.
Vin(t) == \E o \in chain[t].ins : o[1] \in s_txid_address

\* The outputs to addresses in the map, and those to others.
OwnOutputs(t) == {k \in Outputs(t) : chain[t].outs[k] \in s_address_id_btc}
OtherOutputs(t) == {k \in Outputs(t) : chain[t].outs[k] \notin s_address_id_btc \cup {NoAddress}}
PaysOwn(t) == OwnOutputs(t) # {}

\* The loop over the outputs: an address of the wallet gets the column n from
\* the loop over a script's addresses, which has one.
RowsOf(t) ==
  {Row(t, k, 0, IF Vin(t) THEN 2 ELSE 0) : k \in OwnOutputs(t)}
    \cup {Row(t, k, k - 1, 1) : k \in IF Vin(t) THEN OtherOutputs(t) ELSE {}}

\* Slip: an id is dropped from the map once it was spent from.
Remember_Spent(t) ==
  s_txid_address' = (s_txid_address \cup (IF PaysOwn(t) /\ ~Vin(t) THEN {t} ELSE {}))
                      \ {o[1] : o \in chain[t].ins}

\* Slip: only the first deposit of a pass is put into the map.
Remember_First(t) ==
  s_txid_address' = s_txid_address \cup
                    (IF PaysOwn(t) /\ ~Vin(t) /\ vect_sql = {} THEN {t} ELSE {})

\* Only a deposit is put into the map.
Remember(t) ==
  s_txid_address' = s_txid_address \cup (IF PaysOwn(t) /\ ~Vin(t) THEN {t} ELSE {})

\* The transaction of block t is classified.
Classify(t) ==
  /\ Remember(t)
  /\ made' = made \cup {[row |-> r, known |-> s_address_id_btc] : r \in RowsOf(t)}

\* refreshDB: each statement that fails is logged and the others are committed.
Commit(rows, lost) ==
  /\ txutxo' = txutxo \cup (rows \ lost) /\ refused' = refused \cup lost
  /\ vect_sql' = {}

\* At a scan point rows and `block` row are committed.
CommitBlock ==
  \/ Commit(vect_sql \cup RowsOf(i), {}) /\ marker' = i /\ UNCHANGED budgetVars
  \/ \E lost \in SUBSET (vect_sql \cup RowsOf(i)) :
       Fault /\ Commit(vect_sql \cup RowsOf(i), lost) /\ marker' \in {marker, i}

\* One block.
ScanBlock ==
  /\ i # 0
  /\ Classify(i)
  /\ IF i % Every = 0 \/ i = height
       THEN CommitBlock
       ELSE vect_sql' = vect_sql \cup RowsOf(i) /\ UNCHANGED <<dbVars, budgetVars>>
  /\ IF i = height THEN i' = 0 /\ height' = 0 ELSE i' = i + 1 /\ UNCHANGED height
  /\ UNCHANGED <<nodeVars, s_address_id_btc, up, blind>>

\* A failed RPC ends the pass after part of a block; the rows and the ids
\* collected so far stay.
Abandon ==
  /\ i # 0 /\ Fault
  /\ \/ UNCHANGED <<s_txid_address, vect_sql, made>>
     \/ Classify(i) /\ vect_sql' = vect_sql \cup RowsOf(i)
  /\ i' = 0 /\ height' = 0
  /\ UNCHANGED <<nodeVars, dbVars, s_address_id_btc, up, blind>>

\* Another coin reaches its scan point.
CommitOther ==
  /\ Sharing /\ up /\ i = 0 /\ vect_sql # {}
  /\ \/ Commit(vect_sql, {}) /\ UNCHANGED budgetVars
     \/ \E lost \in SUBSET vect_sql : Fault /\ Commit(vect_sql, lost)
  /\ UNCHANGED <<nodeVars, marker, s_address_id_btc, s_txid_address, made, passVars, up, blind>>

Next ==
  \/ Mine \/ CreateAddress \/ Start \/ Crash \/ ReadAddresses \/ BeginPass
  \/ ScanBlock \/ Abandon \/ CommitOther
Spec == Init /\ [][Next]_vars

-------------------------------------------------------------------------------
(* Properties.                                                             *)

Rows == txutxo \cup vect_sql

RowType == [txid : Nat, out : Nat, n : Nat, flag : {0, 1, 2}]

TypeOK ==
  /\ chain \in Seq([ins : SUBSET (Nat \X Nat), outs : Seq(Own \cup Other \cup {NoAddress})])
  /\ account \in SUBSET Own /\ s_address_id_btc \in SUBSET Own
  /\ txutxo \in SUBSET RowType /\ vect_sql \in SUBSET RowType /\ refused \in SUBSET RowType
  /\ made \in SUBSET [row : RowType, known : SUBSET Own]
  /\ s_txid_address \in SUBSET Nat
  /\ marker \in 0..Len(chain) /\ height \in 0..Len(chain)
  /\ i \in IF height = 0 THEN {0} ELSE marker + 1 .. height
  /\ up \in BOOLEAN /\ blind \in BOOLEAN /\ faults \in Nat /\ crashes \in Nat

SpendsFrom(t, u) == \E o \in chain[t].ins : o[1] = u
SpendsOwn(t) == \E o \in chain[t].ins : OwnOutput(o)
HasFlag(t, f) == \E r \in Rows : r.txid = t /\ r.flag = f

\* What SpendNotDeposit rests on: while the process runs, the map holds every
\* deposit with a row, committed or not.
DepositsRemembered ==
  up /\ ~blind => \A r \in Rows : r.flag = 0 => r.txid \in s_txid_address

\* A transaction that spends from a recorded deposit is not booked as a deposit
\* (lines 351-390), also when the deposit was recorded before a crash, by a pass
\* that was abandoned, or with another coin's commit.  Later the deposit may be
\* recorded: a pass over the same blocks again, with more addresses in the map.
SpendNotDeposit ==
  [][~blind =>
       \A r \in Rows' \ Rows : r.flag = 0 =>
         \A u \in DOMAIN chain : SpendsFrom(r.txid, u) => ~HasFlag(u, 0)]_vars

\* Such a transaction at or below the scan point has a row for each output to an
\* address, but for INSERTs that the database refused: nothing that leaves the
\* wallet is missing (lines 404-420), whenever the wallet's addresses were created.
SpendsRecorded ==
  ~blind =>
    \A t \in 1..marker : (\E u \in DOMAIN chain : SpendsFrom(t, u) /\ HasFlag(u, 0)) =>
      \A k \in Outputs(t) : chain[t].outs[k] # NoAddress =>
        \E r \in txutxo \cup refused : r.txid = t /\ r.out = k

\* Scanning a block again, after its pass was abandoned or its `block` row
\* refused, gives the flags it got the first time; if the address map has grown
\* since, an output may be taken for an internal transfer instead.
OneFlag ==
  \A m, l \in made :
    m.row.txid = l.row.txid /\ m.row.out = l.row.out /\ m.known \subseteq l.known =>
      \/ m.row.flag = l.row.flag
      \/ m.known # l.known /\ l.row.flag = 2

\* What the comment on txutxo.flag says, 0 for a deposit (doc/otc.sql:128): the
\* transaction spends nothing of the wallet.
DepositIsNoSpend == \A r \in Rows : r.flag = 0 => ~SpendsOwn(r.txid)

\* The same comment, 1 for a withdrawal: the transaction spends from the wallet.
WithdrawalIsSpend == \A r \in Rows : r.flag = 1 => SpendsOwn(r.txid)

\* What the comment on txutxo.n says (doc/otc.sql:125): which output of the
\* transaction it is.
RowNamesOutput == \A r, s \in Rows : r.txid = s.txid /\ r.n = s.n => r.out = s.out
===============================================================================
