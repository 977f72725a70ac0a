------------------------------- MODULE AddressPool ------------------------------
(***************************************************************************)
(* How the server makes the accounts that getrechargeaddress gives out     *)
(* (server/src/rpc/client.cpp): ClientRpc::getNewAddress, run by the       *)
(* scheduler thread once per coin every ten seconds.  An address of BTC or *)
(* OMNI comes from the node, one of ETH from the key generator, and its    *)
(* private key goes into wallet_db.  XRP and EOS have one base address,    *)
(* whose accounts differ in a tag; base address and highest tag are static *)
(* members that ClientRpc::init reads back from table account.             *)
(*                                                                         *)
(* Every call to a node, to wallet_db and to the database is an action.    *)
(* wallet_db is opened for each access, and only one thread at a time can  *)
(* have it open: transfers in the HTTP workers (module Transfers) make the *)
(* scheduler's access fail, and the other way round.                       *)
(*                                                                         *)
(* An operator named X_Suffix is X with a plausible slip.                  *)
(***************************************************************************)
EXTENDS Integers, Sequences, FiniteSets, FiniteSetsExt

CONSTANTS
  Coin,          \* the coins of table coin, a subset of AllCoins
  Quantity,      \* accounts created at a time (100)
  MaxUsers,      \* bound: accounts given to users
  MaxReads,      \* bound: keys read by transfers
  MaxFaults,     \* bound: calls that fail
  MaxRestarts    \* bound

AllCoins == {"BTC", "OMNI", "ETH", "XRP", "EOS"}
NodeKeeps == {"BTC", "OMNI"}   \* createAddressLocalChain: the node has the key
Tagged == {"XRP", "EOS"}

ASSUME PoolAssumption ==
  /\ Coin \subseteq AllCoins /\ Coin # {} /\ Quantity \in Nat \ {0}
  /\ MaxUsers \in Nat /\ MaxReads \in Nat /\ MaxFaults \in Nat /\ MaxRestarts \in Nat

VARIABLES
  account,       \* rows of table account
  users,         \* [Coin -> Nat], rows of table user
  wallet_db,     \* addresses whose private key is stored
  opened,        \* the thread that has wallet_db open
  base, max_tag, \* [Tagged -> address, Nat], the static members
  turn,          \* the task whose turn it is
  pool, maxId, k,\* the coin being created for, MAX(account_id), the loop's i
  fresh,         \* the address made last, while its key is not stored
  vect_sql,      \* rows of the batch
  blind,         \* whether a start could not read back a base address
  reads, faults, restarts

staticVars == <<base, max_tag>>
loopVars == <<turn, pool, maxId, k, fresh, vect_sql>>
boundVars == <<blind, reads, faults, restarts>>
vars == <<account, users, wallet_db, opened, staticVars, loopVars, boundVars>>

\* An empty string, and the base address of EOS, which comes with the database.
NoAddress == 0
EosBase == 1

\* The coins in the order in which their tasks are scheduled.
Tasks == <<"BTC", "ETH", "XRP", "EOS", "OMNI">>
Turns == {t \in DOMAIN Tasks : Tasks[t] \in Coin}

Row(c, id, a, tag) == [coin |-> c, id |-> id, address |-> a, tag |-> tag]
RowsOf(c) == {r \in account : r.coin = c}
Ids(c) == {r.id : r \in RowsOf(c)}
LastRow(c) == CHOOSE r \in RowsOf(c) : \A s \in RowsOf(c) : s.id <= r.id

Init ==
  /\ account = {Row(c, 0, IF c = "EOS" THEN EosBase ELSE NoAddress, 0) : c \in Coin}
  /\ users = [c \in Coin |-> 0]
  /\ wallet_db = {} /\ opened = "none"
  /\ base = [c \in Tagged |-> IF c = "EOS" /\ c \in Coin THEN EosBase ELSE NoAddress]
  /\ max_tag = [c \in Tagged |-> 0]
  /\ turn = Min(Turns) /\ pool = "none" /\ maxId = 0 /\ k = 0 /\ fresh = {} /\ vect_sql = {}
  /\ blind = FALSE /\ reads = 0 /\ faults = 0 /\ restarts = 0

Fault == faults < MaxFaults /\ faults' = faults + 1 /\ UNCHANGED <<blind, reads, restarts>>

-------------------------------------------------------------------------------
(* The rest of the server.                                                 *)

\* getrechargeaddress inserts a row into table user (module RechargeAddress).
GiveAccount(c) ==
  /\ MapThenSumSet(LAMBDA d : users[d], Coin) < MaxUsers
  /\ users[c] < Cardinality(RowsOf(c)) - 1
  /\ users' = [users EXCEPT ![c] = @ + 1]
  /\ UNCHANGED <<account, wallet_db, opened, staticVars, loopVars, boundVars>>

\* getPrivateKey of a transfer has wallet_db open; without it the transfer fails.
TransferOpens ==
  /\ reads < MaxReads /\ opened = "none"
  /\ opened' = "worker" /\ reads' = reads + 1
  /\ UNCHANGED <<account, users, wallet_db, staticVars, loopVars, blind, faults, restarts>>

TransferCloses ==
  /\ opened = "worker" /\ opened' = "none"
  /\ UNCHANGED <<account, users, wallet_db, staticVars, loopVars, boundVars>>

-------------------------------------------------------------------------------
(* getNewAddress.                                                          *)

\* The difference of the two counts, of which each includes a row 0.
IsStocked(c) == Cardinality(RowsOf(c)) - 1 - users[c] >= Quantity

\* Each task is put behind the others when it has run (module Scheduler).
NextTask ==
  turn' = Min(IF \E t \in Turns : t > turn THEN {t \in Turns : t > turn} ELSE Turns)


\* SELECT COUNT(*) ... MAX(account_id), and the return when the stock is full.
CountStock ==
  /\ pool = "none"
  /\ LET c == Tasks[turn] IN
       IF IsStocked(c) THEN NextTask /\ UNCHANGED <<pool, maxId>>
                       ELSE pool' = c /\ maxId' = Max(Ids(c)) /\ UNCHANGED turn
  /\ UNCHANGED <<account, users, wallet_db, opened, staticVars, k, fresh, vect_sql, boundVars>>

Creating == pool # "none" /\ k < Quantity /\ fresh = {}

\* The INSERT for account maxId + i + 1 joins the batch.
AddRow(a, tag) ==
  /\ vect_sql' = vect_sql \cup {Row(pool, maxId + k + 1, a, tag)}
  /\ k' = k + 1

\* Addresses are numbers; one that left no trace may come up again.
NewAddress ==
  Max({EosBase, base["XRP"]} \cup wallet_db \cup {r.address : r \in account \cup vect_sql}) + 1

Skip == k' = k + 1 /\ UNCHANGED vect_sql
Break == k' = Quantity /\ UNCHANGED vect_sql

\* BTC, OMNI: the node makes the address and keeps the key.
CreateAtNode ==
  /\ Creating /\ pool \in NodeKeeps
  /\ \/ AddRow(NewAddress, 0) /\ UNCHANGED boundVars
     \/ Skip /\ Fault
  /\ UNCHANGED <<account, users, wallet_db, opened, staticVars, turn, pool, maxId, fresh>>

\* Slip: every batch of XRP begins with a base address.
NeedsKey_PerBatch == pool = "ETH" \/ (pool = "XRP" /\ k = 0)

\* ETH always, XRP until it has its base address.
NeedsKey == pool = "ETH" \/ (pool = "XRP" /\ max_tag["XRP"] = 0)

\* createAddressOffline for ETH and for the base address of XRP.  For ETH it
\* reports a failure as success, with an empty address.
CreateOffline ==
  /\ Creating /\ NeedsKey
  /\ \/ fresh' = {NewAddress} /\ UNCHANGED <<k, vect_sql, boundVars>>
     \/ pool = "ETH" /\ Fault /\ fresh' = {NoAddress} /\ UNCHANGED <<k, vect_sql>>
     \/ pool = "XRP" /\ Fault /\ Break /\ UNCHANGED fresh
  /\ UNCHANGED <<account, users, wallet_db, opened, staticVars, turn, pool, maxId>>

\* setPrivateKey returned false: ETH goes on with the next address, XRP gives up.
NotStored == fresh' = {} /\ (IF pool = "ETH" THEN Skip ELSE Break) /\ UNCHANGED staticVars

\* DB::Open.
OpenWallet ==
  /\ fresh # {} /\ opened # "scheduler"
  /\ IF opened = "none"
       THEN opened' = "scheduler" /\ UNCHANGED <<staticVars, k, fresh, vect_sql>>
       ELSE UNCHANGED opened /\ NotStored
  /\ UNCHANGED <<account, users, wallet_db, turn, pool, maxId, boundVars>>

\* The key is stored: the row joins the batch, XRP has its base address.
Stored(a) ==
  /\ fresh' = {}
  /\ IF pool = "ETH"
       THEN AddRow(a, 0) /\ UNCHANGED staticVars
       ELSE /\ base' = [base EXCEPT !["XRP"] = a] /\ max_tag' = [max_tag EXCEPT !["XRP"] = 1]
            /\ AddRow(a, 1)

\* Slip: what Put returns is not looked at.
StoreKey_Unchecked ==
  /\ opened = "scheduler" /\ opened' = "none"
  /\ \E a \in fresh :
       \/ wallet_db' = wallet_db \cup {a} /\ Stored(a) /\ UNCHANGED boundVars
       \/ Fault /\ Stored(a) /\ UNCHANGED wallet_db
  /\ UNCHANGED <<account, users, turn, pool, maxId>>

\* db->Put, and `delete db`.
StoreKey ==
  /\ opened = "scheduler" /\ opened' = "none"
  /\ \E a \in fresh :
       \/ wallet_db' = wallet_db \cup {a} /\ Stored(a) /\ UNCHANGED boundVars
       \/ Fault /\ NotStored /\ UNCHANGED wallet_db
  /\ UNCHANGED <<account, users, turn, pool, maxId>>

\* XRP and EOS: another tag of the base address; without one, break.
NextTag ==
  /\ Creating /\ pool \in Tagged /\ ~NeedsKey
  /\ IF base[pool] = NoAddress
       THEN Break /\ UNCHANGED max_tag
       ELSE /\ max_tag' = [max_tag EXCEPT ![pool] = @ + 1]
            /\ AddRow(base[pool], max_tag[pool] + 1)
  /\ UNCHANGED <<account, users, wallet_db, opened, base, turn, pool, maxId, fresh, boundVars>>

\* Slip: the batch is not emptied.
Commit_KeepsBatch ==
  /\ pool # "none" /\ k >= Quantity /\ fresh = {}
  /\ \/ account' = account \cup vect_sql /\ UNCHANGED boundVars
     \/ Fault /\ \E S \in SUBSET vect_sql : S # vect_sql /\ account' = account \cup S
  /\ NextTask /\ pool' = "none" /\ maxId' = 0 /\ k' = 0
  /\ UNCHANGED <<users, wallet_db, opened, staticVars, fresh, vect_sql>>

\* batchRefreshDB: statements that fail are left out, the others are committed.
Commit ==
  /\ pool # "none" /\ k >= Quantity /\ fresh = {}
  /\ \/ account' = account \cup vect_sql /\ UNCHANGED boundVars
     \/ Fault /\ \E S \in SUBSET vect_sql : S # vect_sql /\ account' = account \cup S
  /\ NextTask /\ pool' = "none" /\ maxId' = 0 /\ k' = 0 /\ vect_sql' = {}
  /\ UNCHANGED <<users, wallet_db, opened, staticVars, fresh>>

-------------------------------------------------------------------------------
(* Restarts.                                                               *)

FoundIn(r) ==
  IF r.tag > 0 \/ r.coin = "EOS" THEN [base |-> r.address, max_tag |-> r.tag]
                                 ELSE [base |-> NoAddress, max_tag |-> 0]

\* Slip: the row with the lowest account id.
ReadBack_First(c) == FoundIn(CHOOSE r \in RowsOf(c) : \A s \in RowsOf(c) : r.id <= s.id)

\* What init makes of the account with the highest id.
ReadBack(c) == FoundIn(LastRow(c))

\* The process dies, by an exception of a task or otherwise, and runs init
\* again.  A SELECT of init that fails leaves the static members empty; nobody
\* looks at what init returns.
Restart ==
  /\ restarts < MaxRestarts /\ restarts' = restarts + 1
  /\ \E unread \in SUBSET (Tagged \cap Coin) :
       LET found == [c \in Tagged |-> IF c \in Coin \ unread THEN ReadBack(c)
                                      ELSE [base |-> NoAddress, max_tag |-> 0]] IN
       /\ faults' = faults + Cardinality(unread) /\ faults' <= MaxFaults
       /\ base' = [c \in Tagged |-> found[c].base]
       /\ max_tag' = [c \in Tagged |-> found[c].max_tag]
       /\ blind' = (blind \/ unread # {})
  /\ opened' = "none"
  /\ turn' = Min(Turns) /\ pool' = "none" /\ maxId' = 0 /\ k' = 0 /\ fresh' = {} /\ vect_sql' = {}
  /\ UNCHANGED <<account, users, wallet_db, reads>>

-------------------------------------------------------------------------------
GetNewAddress ==
  CountStock \/ CreateAtNode \/ CreateOffline \/ OpenWallet \/ StoreKey \/ NextTag \/ Commit

Next ==
  \/ \E c \in Coin : GiveAccount(c)
  \/ GetNewAddress \/ TransferOpens \/ TransferCloses \/ Restart

Spec == Init /\ [][Next]_vars

\* The scheduler calls every coin's task again and again, and a task goes on
\* (the calls to nodes have a timeout); a transfer closes wallet_db again.
FairSpec == Spec /\ WF_vars(GetNewAddress) /\ WF_vars(TransferCloses)

-------------------------------------------------------------------------------
(* Properties.                                                             *)

RowType == [coin : Coin, id : Nat, address : Nat, tag : Nat]

TypeOK ==
  /\ account \in SUBSET RowType /\ vect_sql \in SUBSET RowType
  /\ users \in [Coin -> Nat]
  /\ wallet_db \in SUBSET Nat /\ opened \in {"none", "worker", "scheduler"}
  /\ base \in [Tagged -> Nat] /\ max_tag \in [Tagged -> Nat]
  /\ turn \in Turns /\ pool \in {"none", Tasks[turn]} /\ maxId \in Nat /\ k \in 0..Quantity
  /\ fresh \in SUBSET Nat /\ (opened = "scheduler" => fresh # {})
  /\ blind \in BOOLEAN
  /\ reads \in Nat /\ faults \in Nat /\ restarts \in Nat

\* Whoever pays an address the server gave out pays one whose key it has:
\* setPrivateKey comes before the row, and a row whose key could not be stored,
\* because a transfer has wallet_db open or the disk refuses, is left out
\* (lines 706-716 and 727-737).
KeyBeforeRow ==
  \A r \in account :
    r.id > 0 /\ r.coin \in {"ETH", "XRP"} => r.address \in wallet_db

\* The accounts of a base address differ in their tags, by which the merchant
\* tells users apart, and a later account has a higher tag, which is what init
\* relies on: also after batches of which a part was lost, and after restarts
\* at any step.
TagsGrow ==
  \A r, s \in account :
    r.coin = s.coin /\ r.coin \in Tagged /\ r.address = s.address /\ r.id < s.id => r.tag < s.tag

\* An account id stands for one account (doc/otc.sql:21).
IdsUnique == \A r, s \in account : r.coin = s.coin /\ r.id = s.id => r = s

\* XRP has one base address, the one the monitor looks for (monitor/src/
\* syncer.cpp:156-170), unless a start could not read it back: not a second one
\* after a crash between storing its key and inserting its first row.
OneBase ==
  ~blind => \A r, s \in account : r.coin = "XRP" /\ s.coin = "XRP" /\ r.id > 0 /\ s.id > 0
                                    => r.address = s.address


\* An account's address is `the address on the block chain of the account`
\* (doc/otc.sql:23): it is not empty.
RowsHaveAddress == \A r \in account : r.id > 0 => r.address # NoAddress

\* getNewAddress implements the abstract stock that RechargeAddress takes from.
Stock == INSTANCE AccountStock WITH
  ids <- [c \in Coin |-> Ids(c)],
  batch <- [coin |-> pool, maxId |-> maxId]
StockKept == Stock!StockSpec
================================================================================
