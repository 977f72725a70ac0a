--------------------------- MODULE AddressPoolProofs ---------------------------
(***************************************************************************)
(* Proofs about AddressPool, for any coins, batches of any size and any    *)
(* number of users, transfers, faults and restarts.                        *)
(***************************************************************************)
EXTENDS AddressPool, FiniteSetTheorems, WellFoundedInduction, TLAPS

Rows == account \cup vect_sql

\* Where the loop is.  The base address XRP is about to get is no row's.
Loop ==
  /\ pool = "none" => maxId = 0 /\ k = 0 /\ fresh = {} /\ vect_sql = {}
  /\ fresh # {} => pool \in {"ETH", "XRP"} /\ k < Quantity
  /\ \A a \in fresh : pool = "XRP" =>
       max_tag["XRP"] = 0 /\ a # NoAddress /\ \A r \in Rows : r.address # a

\* The batch's account ids follow those of the table.
Numbered ==
  /\ \A c \in Coin : \E r \in account : r.coin = c
  /\ \A r \in account : r.coin = pool => r.id <= maxId
  /\ \A r \in vect_sql : r.coin = pool /\ r.id \in maxId + 1 .. maxId + k
  /\ \A r, s \in Rows : r.coin = s.coin /\ r.id = s.id => r = s

\* There are finitely many addresses, so that there always is a new one.
Bounded ==
  \E b \in Nat : /\ \A r \in Rows : r.id <= b /\ r.address <= b
                 /\ \A a \in wallet_db : a <= b

\* TagsGrow for the batch too; the static member max_tag is not behind the rows.
TagsInv ==
  /\ \A r, s \in Rows :
       r.coin = s.coin /\ r.coin \in Tagged /\ r.address = s.address /\ r.id < s.id => r.tag < s.tag
  /\ \A r \in Rows :
       r.coin \in Tagged /\ r.address = base[r.coin] /\ base[r.coin] # NoAddress
         => r.tag <= max_tag[r.coin]
  /\ \A r \in Rows :
       r.coin = "XRP" => IF r.id = 0 THEN r.tag = 0 ELSE r.tag > 0 /\ r.address # NoAddress

\* KeyBeforeRow for the batch too; the key of XRP's base address is stored.
KeysInv ==
  /\ \A r \in Rows : r.id > 0 /\ r.coin \in {"ETH", "XRP"} => r.address \in wallet_db
  /\ base["XRP"] # NoAddress => base["XRP"] \in wallet_db

\* OneBase for the batch too; the rows' address is the static member.
BaseInv ==
  ~blind => \A r \in Rows : r.coin = "XRP" /\ r.id > 0
                              => r.address = base["XRP"] /\ max_tag["XRP"] > 0

PoolInv == TypeOK /\ Loop /\ Numbered /\ Bounded /\ TagsInv /\ KeysInv /\ BaseInv

-------------------------------------------------------------------------------
(* Maxima and minima.                                                      *)

LEMMA MinExists ==
  ASSUME NEW T \in SUBSET Nat, T # {}
  PROVE  Min(T) \in T /\ \A t \in T : Min(T) <= t
<1>1. PICK m \in T : \A t \in T : ~ (<<t, m>> \in OpToRel(<, Nat))
  BY NatLessThanWellFounded, WFMin
<1>2. \A t \in T : m <= t
  <2> SUFFICES ASSUME NEW t \in T, t < m PROVE FALSE
    OBVIOUS
  <2>1. OpToRel(<, Nat) = {ss \in Nat \X Nat : ss[1] < ss[2]}
    BY DEF OpToRel
  <2>2. <<t, m>> \in OpToRel(<, Nat)
    BY <2>1
  <2> QED
    BY <1>1, <2>2
<1> QED
  BY <1>2 DEF Min

LEMMA MaxExists ==
  ASSUME NEW T \in SUBSET Nat, T # {}, NEW b \in Nat, \A t \in T : t <= b
  PROVE  Max(T) \in T /\ \A t \in T : t <= Max(T)
<1> DEFINE U == {n \in Nat : \A t \in T : t <= n}
<1>1. U \in SUBSET Nat /\ b \in U
  OBVIOUS
<1>2. PICK m \in U : \A n \in U : m <= n
  BY <1>1, MinExists
<1>3. m \in T
  <2>1. SUFFICES ASSUME m \notin T PROVE FALSE
    OBVIOUS
  <2>2. m # 0
    <3>1. PICK t \in T : TRUE
      OBVIOUS
    <3>2. t \in Nat /\ t <= m /\ t # m
      BY <1>2, <2>1, <3>1
    <3> QED
      BY <3>2
  <2>3. m - 1 \in U
    BY <1>2, <2>1, <2>2
  <2> QED
    BY <1>2, <2>3
<1> QED
  BY <1>2, <1>3 DEF Max

\* There is a task whose turn is next.
LEMMA TurnExists ==
  Min(Turns) \in Turns /\ (NextTask => turn' \in Turns)
<1>1. Turns \in SUBSET Nat /\ Turns # {}
  <2>1. DOMAIN Tasks = 1..5
    BY DEF Tasks
  <2>2. \A c \in Coin : \E t \in 1..5 : Tasks[t] = c
    BY PoolAssumption DEF AllCoins, Tasks
  <2> QED
    BY <2>1, <2>2, PoolAssumption DEF Turns
<1>2. Min(Turns) \in Turns
  BY <1>1, MinExists
<1>3. ASSUME NextTask PROVE turn' \in Turns
  <2>1. CASE \E t \in Turns : t > turn
    <3>1. {t \in Turns : t > turn} \in SUBSET Nat /\ {t \in Turns : t > turn} # {}
      BY <1>1, <2>1
    <3>2. Min({t \in Turns : t > turn}) \in {t \in Turns : t > turn}
      BY <3>1, MinExists
    <3> QED
      BY <1>3, <2>1, <3>2 DEF NextTask
  <2>2. CASE ~\E t \in Turns : t > turn
    BY <1>2, <1>3, <2>2 DEF NextTask
  <2> QED
    BY <2>1, <2>2
<1> QED
  BY <1>2, <1>3

\* The row with the highest account id, and that id.
LEMMA LastRowExists ==
  ASSUME TypeOK, Numbered, Bounded, NEW c \in Coin
  PROVE  /\ Max(Ids(c)) \in Nat /\ \A r \in account : r.coin = c => r.id <= Max(Ids(c))
         /\ LastRow(c) \in RowsOf(c) /\ \A s \in RowsOf(c) : s.id <= LastRow(c).id
<1>1. Ids(c) \in SUBSET Nat /\ Ids(c) # {}
  BY DEF Ids, RowsOf, TypeOK, RowType, Numbered
<1>2. PICK b \in Nat : \A t \in Ids(c) : t <= b
  BY DEF Bounded, Rows, Ids, RowsOf
<1>3. Max(Ids(c)) \in Ids(c) /\ \A t \in Ids(c) : t <= Max(Ids(c))
  BY <1>1, <1>2, MaxExists
<1>4. \E r \in RowsOf(c) : \A s \in RowsOf(c) : s.id <= r.id
  BY <1>3 DEF Ids
<1> QED
  BY <1>1, <1>3, <1>4 DEF LastRow, Ids, RowsOf

\* A new address is one that nothing has.
LEMMA NewAddressIsNew ==
  ASSUME TypeOK, Bounded
  PROVE  /\ NewAddress \in Nat /\ NewAddress # NoAddress
         /\ \A r \in Rows : r.address # NewAddress
<1> DEFINE T == {EosBase, base["XRP"]} \cup wallet_db \cup {r.address : r \in account \cup vect_sql}
<1>1. T \in SUBSET Nat /\ EosBase \in T
  <2>1. base["XRP"] \in Nat /\ EosBase \in Nat
    BY DEF TypeOK, EosBase, Tagged
  <2>2. wallet_db \in SUBSET Nat /\ \A r \in account \cup vect_sql : r.address \in Nat
    BY DEF TypeOK, RowType
  <2> QED
    BY <2>1, <2>2
<1>2. PICK b \in Nat : /\ \A r \in Rows : r.address <= b
                       /\ \A a \in wallet_db : a <= b
  BY DEF Bounded
<1>3. PICK d \in Nat : b <= d /\ EosBase <= d /\ base["XRP"] <= d
  <2>1. base["XRP"] \in Nat
    BY DEF TypeOK, Tagged
  <2>2. b <= b + base["XRP"] + EosBase /\ EosBase <= b + base["XRP"] + EosBase
        /\ base["XRP"] <= b + base["XRP"] + EosBase /\ b + base["XRP"] + EosBase \in Nat
    BY <2>1 DEF EosBase
  <2> QED
    BY <2>2
<1>4. \A t \in T : t <= d
  BY <1>1, <1>2, <1>3 DEF Rows
<1>5. Max(T) \in T /\ \A t \in T : t <= Max(T)
  BY <1>1, <1>4, MaxExists
<1>6. NewAddress = Max(T) + 1
  BY DEF NewAddress
<1>7. \A r \in Rows : r.address \in T
  BY DEF Rows
<1>8. Max(T) \in Nat /\ \A t \in T : t \in Nat /\ t <= Max(T)
  BY <1>1, <1>5
<1> HIDE DEF T
<1>9. \A n \in Nat : n + 1 \in Nat /\ n + 1 # 0 /\ \A m \in Nat : m <= n => m # n + 1
  OBVIOUS
<1>10. \A r \in Rows : r.address # Max(T) + 1
  BY <1>7, <1>8, <1>9
<1> QED
  BY <1>6, <1>8, <1>9, <1>10 DEF NoAddress

-------------------------------------------------------------------------------
(* The initial states, and three kinds of steps.                           *)

LEMMA InitHolds == Init => PoolInv
<1> SUFFICES ASSUME Init PROVE PoolInv
  OBVIOUS
<1>1. \A r \in Rows : /\ r.coin \in Coin /\ r.id = 0 /\ r.tag = 0
                      /\ r = Row(r.coin, 0, IF r.coin = "EOS" THEN EosBase ELSE NoAddress, 0)
  BY DEF Init, Rows, Row
<1>2. \A c \in Coin : \E r \in account : r.coin = c
  <2> TAKE c \in Coin
  <2>1. Row(c, 0, IF c = "EOS" THEN EosBase ELSE NoAddress, 0) \in account
    BY DEF Init
  <2> QED
    BY <2>1 DEF Row
<1>3. TypeOK
  <2>1. account \in SUBSET RowType /\ vect_sql \in SUBSET RowType
    BY DEF Init, Row, RowType, EosBase, NoAddress
  <2>2. users \in [Coin -> Nat] /\ base \in [Tagged -> Nat] /\ max_tag \in [Tagged -> Nat]
    BY DEF Init, EosBase, NoAddress
  <2>3. turn \in Turns /\ k \in 0..Quantity
    BY TurnExists, PoolAssumption DEF Init
  <2> QED
    BY <2>1, <2>2, <2>3 DEF Init, TypeOK
<1>4. Loop
  BY DEF Init, Loop
<1>5. Numbered
  BY <1>1, <1>2, PoolAssumption DEF Init, Numbered, Rows, AllCoins
<1>6. Bounded
  <2>1. \A r \in Rows : r.id <= 1 /\ r.address <= 1
    BY <1>1 DEF Row, EosBase, NoAddress
  <2> QED
    BY <2>1 DEF Init, Bounded
<1>7. TagsInv
  BY <1>1 DEF Init, TagsInv, Tagged
<1>8. KeysInv /\ BaseInv
  BY <1>1 DEF Init, KeysInv, BaseInv, Tagged
<1> QED
  BY <1>3, <1>4, <1>5, <1>6, <1>7, <1>8 DEF PoolInv

\* Steps that make no row and no address.
LEMMA SameRows ==
  ASSUME PoolInv, TypeOK', Loop', k' >= k \/ pool = "none",
         UNCHANGED <<account, vect_sql, wallet_db, staticVars, blind>>,
         UNCHANGED <<pool, maxId>> \/ (pool = "none" /\ maxId' = Max(Ids(pool')) /\ pool' \in Coin)
  PROVE  PoolInv'
<1> USE DEF PoolInv, staticVars
<1>1. Rows' = Rows
  BY DEF Rows
<1>2. Numbered'
  <2>1. /\ \A c \in Coin : \E r \in account' : r.coin = c
        /\ \A r, s \in Rows' : r.coin = s.coin /\ r.id = s.id => r = s
    BY <1>1 DEF Numbered
  <2>2. \A r \in account' : r.coin = pool' => r.id <= maxId'
    BY LastRowExists DEF Numbered
  <2>3. \A r \in vect_sql' : r.coin = pool' /\ r.id \in maxId' + 1 .. maxId' + k'
    BY DEF Numbered, Loop, TypeOK, RowType
  <2> QED
    BY <2>1, <2>2, <2>3 DEF Numbered
<1>3. Bounded'
  BY <1>1 DEF Bounded
<1>4. TagsInv'
  BY <1>1 DEF TagsInv
<1>5. KeysInv' /\ BaseInv'
  BY <1>1 DEF KeysInv, BaseInv
<1> QED
  BY <1>2, <1>3, <1>4, <1>5

\* Steps that put the row of a new account into the batch.
LEMMA NewRow ==
  ASSUME PoolInv, TypeOK', Loop', NEW a \in Nat, NEW tag \in Nat,
         pool # "none", AddRow(a, tag), UNCHANGED <<account, pool, maxId, blind>>,
         wallet_db \subseteq wallet_db', wallet_db' \subseteq wallet_db \cup {a},
         pool \in {"ETH", "XRP"} => a \in wallet_db',
         base'["XRP"] # NoAddress => base'["XRP"] \in wallet_db',
         \A c \in Tagged \ {pool} : base'[c] = base[c] /\ max_tag'[c] = max_tag[c],
         pool \in Tagged =>
           /\ a = base'[pool] /\ tag = max_tag'[pool] /\ tag > 0 /\ a # NoAddress
           /\ \A r \in Rows : r.address = a /\ r.coin = pool => r.tag < tag,
         pool = "XRP" => base'["XRP"] = base["XRP"] \/ max_tag["XRP"] = 0
  PROVE  PoolInv'
<1> USE DEF PoolInv
<1> DEFINE n == Row(pool, maxId + k + 1, a, tag)
<1>1. /\ n.coin = pool /\ n.id = maxId + k + 1 /\ n.address = a /\ n.tag = tag
      /\ Rows' = Rows \cup {n} /\ vect_sql' = vect_sql \cup {n} /\ k' = k + 1
      /\ n.id \in Nat /\ n.id > 0 /\ maxId \in Nat /\ k \in Nat
  BY DEF AddRow, Rows, Row, TypeOK
<1>2. \A r \in Rows : r.coin = pool => r.id < n.id
  BY <1>1 DEF Numbered, Rows, TypeOK, RowType
<1> HIDE DEF n
<1>3. Numbered'
  <2>1. \A r \in vect_sql' : r.coin = pool' /\ r.id \in maxId' + 1 .. maxId' + k'
    BY <1>1 DEF Numbered
  <2>2. \A r, s \in Rows' : r.coin = s.coin /\ r.id = s.id => r = s
    BY <1>1, <1>2 DEF Numbered
  <2> QED
    BY <2>1, <2>2 DEF Numbered
<1>4. Bounded'
  <2>1. PICK b \in Nat : /\ \A r \in Rows : r.id <= b /\ r.address <= b
                         /\ \A x \in wallet_db : x <= b
    BY DEF Bounded
  <2>2. /\ \A r \in Rows : r.id \in Nat /\ r.address \in Nat
        /\ \A x \in wallet_db : x \in Nat
    BY DEF Rows, TypeOK, RowType
  <2>3. b + n.id + a \in Nat /\ \A r \in Rows' : r.id <= b + n.id + a /\ r.address <= b + n.id + a
    BY <1>1, <2>1, <2>2
  <2>4. \A x \in wallet_db' : x <= b + n.id + a
    BY <1>1, <2>1, <2>2
  <2> QED
    BY <2>3, <2>4 DEF Bounded
<1>5. TagsInv'
  <2>1. ASSUME NEW r \in Rows', NEW s \in Rows', r.coin = s.coin, r.coin \in Tagged,
               r.address = s.address, r.id < s.id
        PROVE  r.tag < s.tag
    <3>1. CASE r \in Rows /\ s \in Rows
      BY <2>1, <3>1 DEF TagsInv
    <3>2. CASE r \in Rows /\ s = n
      BY <1>1, <2>1, <3>2
    <3>3. r # n
      BY <1>1, <1>2, <2>1 DEF Rows, TypeOK, RowType
    <3> QED
      BY <1>1, <3>1, <3>2, <3>3
  <2>2. ASSUME NEW r \in Rows', r.coin \in Tagged, r.address = base'[r.coin],
               base'[r.coin] # NoAddress
        PROVE  r.tag <= max_tag'[r.coin]
    <3>1. CASE r.coin # pool
      BY <1>1, <2>2, <3>1 DEF TagsInv
    <3>2. CASE r.coin = pool /\ r = n
      BY <1>1, <2>2, <3>2
    <3>3. CASE r.coin = pool /\ r \in Rows
      <4>1. r.tag < tag /\ r.tag \in Nat
        BY <2>2, <3>3 DEF Rows, TypeOK, RowType
      <4> QED
        BY <2>2, <3>3, <4>1
    <3> QED
      BY <1>1, <3>1, <3>2, <3>3
  <2>3. ASSUME NEW r \in Rows', r.coin = "XRP"
        PROVE  IF r.id = 0 THEN r.tag = 0 ELSE r.tag > 0 /\ r.address # NoAddress
    BY <1>1, <2>3 DEF TagsInv, Tagged
  <2> QED
    BY <2>1, <2>2, <2>3 DEF TagsInv
<1>6. KeysInv'
  BY <1>1 DEF KeysInv
<1>7. BaseInv'
  <2> SUFFICES ASSUME ~blind, NEW r \in Rows', r.coin = "XRP", r.id > 0
               PROVE  r.address = base'["XRP"] /\ max_tag'["XRP"] > 0
    BY DEF BaseInv
  <2>1. CASE pool # "XRP"
    BY <1>1, <2>1 DEF BaseInv, Tagged
  <2>2. CASE pool = "XRP" /\ r = n
    BY <1>1, <2>2 DEF Tagged
  <2>3. CASE pool = "XRP" /\ r \in Rows
    BY <2>3 DEF BaseInv, Tagged
  <2> QED
    BY <1>1, <2>1, <2>2, <2>3
<1> QED
  BY <1>3, <1>4, <1>5, <1>6, <1>7

\* Steps after which the batch is empty and the table has some of its rows: what
\* holds of rows alone.
LEMMA FewerRows ==
  ASSUME PoolInv, UNCHANGED wallet_db, account \subseteq account', account' \subseteq Rows,
         vect_sql' = {}, pool' = "none"
  PROVE  Numbered' /\ Bounded' /\ Rows' = account' /\ Rows' \subseteq Rows
<1>1. Rows' = account' /\ Rows' \subseteq Rows
  BY DEF Rows
<1>2. \A r \in account' : r.coin # "none"
  BY <1>1, PoolAssumption DEF PoolInv, TypeOK, RowType, Rows, AllCoins
<1>3. Numbered'
  BY <1>1, <1>2 DEF PoolInv, Numbered
<1>4. Bounded'
  BY <1>1 DEF PoolInv, Bounded
<1> QED
  BY <1>1, <1>3, <1>4

-------------------------------------------------------------------------------
(* The actions.                                                            *)

LEMMA QuietStep ==
  ASSUME PoolInv, (\E c \in Coin : GiveAccount(c)) \/ TransferOpens \/ TransferCloses
  PROVE  PoolInv'
<1> USE DEF loopVars, boundVars
<1>1. /\ UNCHANGED <<account, wallet_db, staticVars, loopVars, blind>>
  BY DEF GiveAccount, TransferOpens, TransferCloses
<1>2. Loop'
  BY <1>1 DEF PoolInv, Loop, Rows, staticVars
<1>3. TypeOK'
  <2>1. CASE \E c \in Coin : GiveAccount(c)
    BY <1>1, <2>1 DEF PoolInv, TypeOK, GiveAccount, staticVars
  <2>2. CASE TransferOpens
    BY <1>1, <2>2 DEF PoolInv, TypeOK, TransferOpens, staticVars
  <2>3. CASE TransferCloses
    BY <1>1, <2>3 DEF PoolInv, TypeOK, TransferCloses, staticVars
  <2> QED
    BY <2>1, <2>2, <2>3
<1> QED
  BY <1>1, <1>2, <1>3, SameRows DEF PoolInv, TypeOK

LEMMA CountStep == ASSUME PoolInv, CountStock PROVE PoolInv'
<1>1. /\ UNCHANGED <<account, users, wallet_db, opened, staticVars, k, fresh, vect_sql, boundVars>>
      /\ pool = "none"
  BY DEF CountStock
<1>2. Tasks[turn] \in Coin
  BY DEF PoolInv, TypeOK, Turns
<1>3. /\ maxId' \in Nat /\ turn' \in Turns /\ pool' \in {"none", Tasks[turn']}
      /\ \/ UNCHANGED <<pool, maxId>>
         \/ maxId' = Max(Ids(pool')) /\ pool' \in Coin
  <2>1. CASE IsStocked(Tasks[turn])
    BY <1>1, <2>1, TurnExists DEF CountStock, PoolInv, TypeOK
  <2>2. CASE ~IsStocked(Tasks[turn])
    <3>1. pool' = Tasks[turn] /\ maxId' = Max(Ids(Tasks[turn])) /\ turn' = turn
      BY <2>2 DEF CountStock
    <3> QED
      BY <1>2, <3>1, LastRowExists DEF PoolInv, TypeOK
  <2> QED
    BY <2>1, <2>2
<1>4. TypeOK'
  <2>1. /\ account' = account /\ users' = users /\ wallet_db' = wallet_db /\ opened' = opened
        /\ base' = base /\ max_tag' = max_tag /\ k' = k /\ fresh' = fresh /\ vect_sql' = vect_sql
        /\ blind' = blind /\ reads' = reads /\ faults' = faults /\ restarts' = restarts
    BY <1>1 DEF staticVars, boundVars
  <2>2. maxId' \in Nat /\ turn' \in Turns /\ pool' \in {"none", Tasks[turn']}
    BY <1>3
  <2> QED
    BY <2>1, <2>2 DEF PoolInv, TypeOK
<1>5. Loop'
  BY <1>1, <1>3, PoolAssumption DEF PoolInv, Loop, AllCoins
<1> QED
  BY <1>1, <1>3, <1>4, <1>5, SameRows DEF boundVars

\* What all steps of the loop leave alone.
LoopFrame == UNCHANGED <<account, users, turn, pool, maxId, blind, reads, restarts>>

LEMMA FaultCounted ==
  ASSUME TypeOK, Fault \/ UNCHANGED boundVars
  PROVE  faults' \in Nat /\ UNCHANGED <<blind, reads, restarts>>
  BY DEF TypeOK, Fault, boundVars

\* Skip and Break.
LEMMA LoopGoesOn ==
  ASSUME PoolInv, pool # "none", LoopFrame, Skip \/ Break, k < Quantity,
         UNCHANGED <<wallet_db, staticVars>>, fresh' = {}, faults' \in Nat,
         opened' \in {"none", "worker"}
  PROVE  PoolInv'
<1>1. k' \in 0..Quantity /\ k' >= k /\ vect_sql' = vect_sql
  BY PoolAssumption DEF Skip, Break, PoolInv, TypeOK
<1>2. TypeOK'
  BY <1>1 DEF PoolInv, TypeOK, LoopFrame, staticVars
<1>3. Loop'
  BY DEF Loop, LoopFrame
<1> QED
  BY <1>1, <1>2, <1>3, SameRows DEF LoopFrame

\* The types after a row was added.
LEMMA AddRowTypes ==
  ASSUME PoolInv, NEW a \in Nat, NEW tag \in Nat, AddRow(a, tag), LoopFrame, faults' \in Nat,
         pool # "none", k < Quantity, opened' \in {"none", "worker"}, fresh' = {},
         wallet_db' \in SUBSET Nat, base' \in [Tagged -> Nat], max_tag' \in [Tagged -> Nat]
  PROVE  TypeOK' /\ Loop'
<1>1. pool \in Coin /\ maxId + k + 1 \in Nat /\ k' \in 0..Quantity
  BY PoolAssumption DEF PoolInv, TypeOK, Turns, AddRow
<1>2. vect_sql' \in SUBSET RowType
  BY <1>1 DEF PoolInv, TypeOK, AddRow, Row, RowType
<1>3. TypeOK'
  BY <1>1, <1>2 DEF PoolInv, TypeOK, LoopFrame
<1>4. Loop'
  BY DEF Loop, LoopFrame
<1> QED
  BY <1>3, <1>4

LEMMA CreateAtNodeStep == ASSUME PoolInv, CreateAtNode PROVE PoolInv'
<1>1. /\ pool \in NodeKeeps /\ pool # "none" /\ k < Quantity /\ fresh = {} /\ fresh' = {}
      /\ UNCHANGED <<wallet_db, opened, staticVars>>
  BY DEF CreateAtNode, Creating
<1>2. LoopFrame /\ faults' \in Nat
  BY FaultCounted DEF CreateAtNode, LoopFrame, PoolInv, boundVars
<1>3. opened' \in {"none", "worker"}
  BY <1>1 DEF PoolInv, TypeOK
<1>4. CASE Skip
  BY <1>1, <1>2, <1>3, <1>4, LoopGoesOn
<1>5. CASE AddRow(NewAddress, 0)
  <2>1. NewAddress \in Nat
    BY NewAddressIsNew DEF PoolInv
  <2>2. TypeOK' /\ Loop'
    BY <1>1, <1>2, <1>3, <1>5, <2>1, AddRowTypes DEF PoolInv, TypeOK, staticVars
  <2>3. pool \notin {"ETH", "XRP"} /\ pool \notin Tagged
    BY <1>1 DEF NodeKeeps, Tagged
  <2> QED
    BY <1>1, <1>2, <1>5, <2>1, <2>2, <2>3, NewRow DEF LoopFrame, staticVars, PoolInv, KeysInv
<1> QED
  BY <1>4, <1>5 DEF CreateAtNode

LEMMA CreateOfflineStep == ASSUME PoolInv, CreateOffline PROVE PoolInv'
<1>1. /\ pool \in {"ETH", "XRP"} /\ k < Quantity /\ fresh = {}
      /\ pool = "XRP" => max_tag["XRP"] = 0
      /\ UNCHANGED <<wallet_db, opened, staticVars>>
  BY DEF CreateOffline, Creating, NeedsKey
<1>2. LoopFrame /\ faults' \in Nat
  BY FaultCounted DEF CreateOffline, LoopFrame, PoolInv, boundVars
<1>3. opened' \in {"none", "worker"}
  BY <1>1 DEF PoolInv, TypeOK
<1>4. CASE Break /\ fresh' = {}
  BY <1>1, <1>2, <1>3, <1>4, LoopGoesOn
<1>5. CASE /\ UNCHANGED <<k, vect_sql>>
           /\ fresh' = {NewAddress} \/ (pool = "ETH" /\ fresh' = {NoAddress})
  <2>1. /\ NewAddress \in Nat /\ NewAddress # NoAddress /\ NoAddress \in Nat
        /\ \A r \in Rows : r.address # NewAddress
    BY NewAddressIsNew DEF PoolInv, NoAddress
  <2>2. TypeOK'
    BY <1>1, <1>2, <1>3, <1>5, <2>1 DEF PoolInv, TypeOK, LoopFrame, staticVars
  <2>3. Loop'
    BY <1>1, <1>2, <1>5, <2>1 DEF PoolInv, Loop, LoopFrame, staticVars, Rows
  <2>4. k' >= k
    BY <1>5 DEF PoolInv, TypeOK
  <2> QED
    BY <1>1, <1>2, <1>5, <2>2, <2>3, <2>4, SameRows DEF LoopFrame
<1> QED
  BY <1>1, <1>4, <1>5 DEF CreateOffline

LEMMA OpenWalletStep == ASSUME PoolInv, OpenWallet PROVE PoolInv'
<1>1. /\ pool \in {"ETH", "XRP"} /\ k < Quantity /\ fresh # {} /\ opened # "scheduler"
      /\ LoopFrame /\ faults' \in Nat /\ UNCHANGED <<wallet_db, staticVars>>
  BY DEF OpenWallet, PoolInv, Loop, TypeOK, LoopFrame, boundVars, NotStored
<1>2. CASE opened = "none"
  <2>1. UNCHANGED <<k, fresh, vect_sql>> /\ opened' = "scheduler"
    BY <1>2 DEF OpenWallet
  <2>2. TypeOK' /\ k' >= k
    BY <1>1, <2>1 DEF PoolInv, TypeOK, LoopFrame, staticVars
  <2>3. Loop'
    BY <1>1, <2>1 DEF PoolInv, Loop, LoopFrame, staticVars, Rows
  <2> QED
    BY <1>1, <2>1, <2>2, <2>3, SameRows DEF LoopFrame
<1>3. CASE opened # "none"
  <2>1. NotStored /\ opened' = opened /\ opened \in {"none", "worker"}
    BY <1>1, <1>3 DEF OpenWallet, PoolInv, TypeOK
  <2> QED
    BY <1>1, <2>1, LoopGoesOn DEF NotStored
<1> QED
  BY <1>2, <1>3

LEMMA StoreKeyStep == ASSUME PoolInv, StoreKey PROVE PoolInv'
<1>1. PICK a \in fresh :
        \/ wallet_db' = wallet_db \cup {a} /\ Stored(a) /\ UNCHANGED boundVars
        \/ Fault /\ NotStored /\ UNCHANGED wallet_db
  BY DEF StoreKey
<1>2. /\ pool \in {"ETH", "XRP"} /\ pool # "none" /\ k < Quantity /\ opened' = "none" /\ a \in Nat
      /\ pool = "XRP" => max_tag["XRP"] = 0 /\ a # NoAddress /\ \A r \in Rows : r.address # a
  BY DEF StoreKey, PoolInv, Loop, TypeOK
<1>3. LoopFrame /\ faults' \in Nat
  BY <1>1, FaultCounted DEF StoreKey, LoopFrame, PoolInv, boundVars
<1>4. CASE NotStored /\ UNCHANGED wallet_db
  BY <1>2, <1>3, <1>4, LoopGoesOn DEF NotStored
<1>5. CASE wallet_db' = wallet_db \cup {a} /\ Stored(a)
  <2>1. wallet_db' \in SUBSET Nat
    BY <1>2, <1>5 DEF PoolInv, TypeOK
  <2>2. CASE pool = "ETH"
    <3>1. AddRow(a, 0) /\ UNCHANGED staticVars /\ fresh' = {}
      BY <1>5, <2>2 DEF Stored
    <3>2. TypeOK' /\ Loop'
      BY <1>2, <1>3, <2>1, <3>1, AddRowTypes DEF PoolInv, TypeOK, staticVars
    <3>3. pool \notin Tagged /\ pool # "XRP"
      BY <2>2 DEF Tagged
    <3> QED
      BY <1>2, <1>3, <1>5, <3>1, <3>2, <3>3, NewRow DEF LoopFrame, staticVars, PoolInv, KeysInv
  <2>3. CASE pool = "XRP"
    <3>1. /\ AddRow(a, 1) /\ fresh' = {}
          /\ base' = [base EXCEPT !["XRP"] = a] /\ max_tag' = [max_tag EXCEPT !["XRP"] = 1]
      BY <1>5, <2>3 DEF Stored
    <3>2. /\ base' \in [Tagged -> Nat] /\ max_tag' \in [Tagged -> Nat]
          /\ base'["XRP"] = a /\ max_tag'["XRP"] = 1
          /\ \A c \in Tagged \ {"XRP"} : base'[c] = base[c] /\ max_tag'[c] = max_tag[c]
      BY <1>2, <3>1 DEF PoolInv, TypeOK, Tagged
    <3>3. TypeOK' /\ Loop'
      BY <1>2, <1>3, <2>1, <3>1, <3>2, AddRowTypes
    <3> QED
      BY <1>2, <1>3, <1>5, <2>3, <3>1, <3>2, <3>3, NewRow DEF LoopFrame
  <2> QED
    BY <1>2, <2>2, <2>3
<1> QED
  BY <1>1, <1>4, <1>5

LEMMA NextTagStep == ASSUME PoolInv, NextTag PROVE PoolInv'
<1>1. /\ pool \in Tagged /\ pool # "none" /\ k < Quantity /\ fresh = {} /\ fresh' = {}
      /\ UNCHANGED <<wallet_db, opened, base>>
  BY DEF NextTag, Creating
<1>2. LoopFrame /\ faults' \in Nat
  BY FaultCounted DEF NextTag, LoopFrame, PoolInv, boundVars
<1>3. opened' \in {"none", "worker"}
  BY <1>1 DEF PoolInv, TypeOK
<1>4. CASE base[pool] = NoAddress
  BY <1>1, <1>2, <1>3, <1>4, LoopGoesOn DEF NextTag, staticVars
<1>5. CASE base[pool] # NoAddress
  <2> DEFINE tag == max_tag[pool] + 1
  <2>1. /\ max_tag' = [max_tag EXCEPT ![pool] = tag] /\ AddRow(base[pool], tag)
    BY <1>5 DEF NextTag
  <2>2. /\ base[pool] \in Nat /\ tag \in Nat /\ tag > 0 /\ max_tag' \in [Tagged -> Nat]
        /\ max_tag'[pool] = tag
        /\ \A c \in Tagged \ {pool} : base'[c] = base[c] /\ max_tag'[c] = max_tag[c]
    BY <1>1, <2>1 DEF PoolInv, TypeOK
  <2>3. \A r \in Rows : r.address = base[pool] /\ r.coin = pool => r.tag < tag
    <3>1. \A r \in Rows : r.address = base[pool] /\ r.coin = pool => r.tag <= max_tag[pool]
      BY <1>1, <1>5 DEF PoolInv, TagsInv
    <3>2. max_tag[pool] \in Nat /\ \A r \in Rows : r.tag \in Nat
      BY <1>1 DEF PoolInv, TypeOK, Rows, RowType
    <3> QED
      BY <3>1, <3>2
  <2> HIDE DEF tag
  <2>4. TypeOK' /\ Loop'
    BY <1>1, <1>2, <1>3, <2>1, <2>2, AddRowTypes DEF PoolInv, TypeOK
  <2>5. /\ pool \in {"ETH", "XRP"} => base[pool] \in wallet_db'
        /\ base'["XRP"] # NoAddress => base'["XRP"] \in wallet_db'
    BY <1>1, <1>5 DEF PoolInv, KeysInv, Tagged
  <2> QED
    BY <1>1, <1>2, <1>5, <2>1, <2>2, <2>3, <2>4, <2>5, NewRow DEF LoopFrame
<1> QED
  BY <1>4, <1>5

LEMMA CommitStep == ASSUME PoolInv, Commit PROVE PoolInv'
<1>1. /\ pool' = "none" /\ maxId' = 0 /\ k' = 0 /\ vect_sql' = {} /\ NextTask /\ fresh' = {}
      /\ pool # "none" /\ UNCHANGED <<users, wallet_db, opened, staticVars>>
  BY DEF Commit
<1>2. account \subseteq account' /\ account' \subseteq Rows
  BY DEF Commit, Rows
<1>3. UNCHANGED <<blind, reads, restarts>> /\ faults' \in Nat
  BY FaultCounted DEF Commit, PoolInv, boundVars
<1>4. Numbered' /\ Bounded' /\ Rows' = account' /\ Rows' \subseteq Rows
  BY <1>1, <1>2, FewerRows
<1>5. TypeOK'
  <2>1. account' \in SUBSET RowType /\ turn' \in Turns
    BY <1>1, <1>2, TurnExists DEF PoolInv, TypeOK, Rows
  <2>2. 0 \in 0..Quantity /\ opened' \in {"none", "worker"}
    BY <1>1, PoolAssumption DEF Commit, PoolInv, TypeOK
  <2> QED
    BY <1>1, <1>3, <2>1, <2>2 DEF PoolInv, TypeOK, staticVars
<1>6. Loop'
  BY <1>1 DEF Loop
<1>7. TagsInv'
  BY <1>1, <1>4 DEF PoolInv, TagsInv, staticVars
<1>8. KeysInv' /\ BaseInv'
  BY <1>1, <1>3, <1>4 DEF PoolInv, KeysInv, BaseInv, staticVars
<1> QED
  BY <1>4, <1>5, <1>6, <1>7, <1>8 DEF PoolInv

\* What a start reads back is the address and the tag of the last row.
LEMMA RestartStep == ASSUME PoolInv, Restart PROVE PoolInv'
<1> USE DEF PoolInv
<1>1. PICK unread \in SUBSET (Tagged \cap Coin) :
        LET found == [c \in Tagged |-> IF c \in Coin \ unread THEN ReadBack(c)
                                       ELSE [base |-> NoAddress, max_tag |-> 0]] IN
        /\ faults' = faults + Cardinality(unread)
        /\ base' = [c \in Tagged |-> found[c].base]
        /\ max_tag' = [c \in Tagged |-> found[c].max_tag]
        /\ blind' = (blind \/ unread # {})
  BY DEF Restart
<1>2. /\ opened' = "none" /\ turn' = Min(Turns) /\ pool' = "none" /\ maxId' = 0 /\ k' = 0
      /\ fresh' = {} /\ vect_sql' = {} /\ UNCHANGED <<account, users, wallet_db, reads>>
      /\ restarts' = restarts + 1
  BY DEF Restart
<1>3. Numbered' /\ Bounded' /\ Rows' = account /\ Rows' \subseteq Rows
  <2>1. account \subseteq account' /\ account' \subseteq Rows
    BY <1>2 DEF Rows
  <2> QED
    BY <1>2, <2>1, FewerRows
\* Of a base address that was not read back, or whose last row has no tag, nothing
\* is left; the others are those of the last row.
<1>4. ASSUME NEW c \in Tagged
      PROVE  \/ base'[c] = NoAddress /\ max_tag'[c] = 0
                /\ (c \notin Coin \/ c \in unread \/ (c = "XRP" /\ ~(LastRow(c).tag > 0)))
             \/ base'[c] = LastRow(c).address /\ max_tag'[c] = LastRow(c).tag
                /\ c \in Coin \ unread /\ (LastRow(c).tag > 0 \/ c = "EOS")
  <2>1. CASE c \notin Coin \ unread
    BY <1>1, <2>1
  <2>2. CASE c \in Coin \ unread
    <3>1. base'[c] = ReadBack(c).base /\ max_tag'[c] = ReadBack(c).max_tag
      BY <1>1, <2>2
    <3>2. LastRow(c).coin = c
      BY <2>2, LastRowExists DEF RowsOf
    <3> QED
      BY <2>2, <3>1, <3>2 DEF ReadBack, FoundIn, Tagged
  <2> QED
    BY <2>1, <2>2
<1>5. \A c \in Coin : /\ LastRow(c) \in account /\ LastRow(c).coin = c
                      /\ \A s \in account : s.coin = c => s.id <= LastRow(c).id
  BY LastRowExists DEF RowsOf
<1>6. \A r \in account : r.id \in Nat /\ r.address \in Nat /\ r.tag \in Nat /\ r.coin \in Coin
  BY DEF TypeOK, RowType
<1>7. TypeOK'
  <2>1. \A c \in Tagged : base'[c] \in Nat /\ max_tag'[c] \in Nat
    BY <1>4, <1>5, <1>6 DEF NoAddress
  <2>2. base' \in [Tagged -> Nat] /\ max_tag' \in [Tagged -> Nat]
    <3>1. base' = [c \in Tagged |-> base'[c]] /\ max_tag' = [c \in Tagged |-> max_tag'[c]]
      BY <1>1
    <3> QED
      BY <2>1, <3>1
  <2>3. faults' \in Nat /\ blind' \in BOOLEAN
    <3>1. IsFiniteSet({"XRP"} \cup {"EOS"})
      BY FS_Singleton, FS_Union
    <3>2. unread \subseteq {"XRP"} \cup {"EOS"}
      BY DEF Tagged
    <3>3. Cardinality(unread) \in Nat
      BY <3>1, <3>2, FS_Subset, FS_CardinalityType
    <3> QED
      BY <1>1, <3>3 DEF TypeOK
  <2>4. turn' \in Turns /\ 0 \in 0..Quantity
    BY <1>2, TurnExists, PoolAssumption
  <2> QED
    BY <1>2, <2>2, <2>3, <2>4 DEF TypeOK
<1>8. Loop'
  BY <1>2 DEF Loop
<1>9. TagsInv'
  <2>1. ASSUME NEW r \in account, r.coin \in Tagged, r.address = base'[r.coin],
               base'[r.coin] # NoAddress
        PROVE  r.tag <= max_tag'[r.coin]
    <3>1. /\ LastRow(r.coin) \in account /\ LastRow(r.coin).coin = r.coin
          /\ r.id <= LastRow(r.coin).id /\ LastRow(r.coin).address = r.address
          /\ max_tag'[r.coin] = LastRow(r.coin).tag
      BY <1>4, <1>5, <1>6, <2>1
    <3>2. CASE r.id = LastRow(r.coin).id
      <4>1. r = LastRow(r.coin)
        BY <3>1, <3>2 DEF Numbered, Rows
      <4> QED
        BY <1>6, <3>1, <4>1
    <3>3. CASE r.id < LastRow(r.coin).id
      <4>1. r.tag < LastRow(r.coin).tag
        BY <2>1, <3>1, <3>3 DEF TagsInv, Rows
      <4> QED
        BY <1>6, <3>1, <4>1
    <3> QED
      BY <1>6, <3>1, <3>2, <3>3
  <2> QED
    BY <1>3, <2>1 DEF TagsInv
<1>10. KeysInv'
  <2>1. ASSUME base'["XRP"] # NoAddress PROVE base'["XRP"] \in wallet_db
    <3>1. /\ "XRP" \in Coin /\ base'["XRP"] = LastRow("XRP").address
          /\ LastRow("XRP").tag > 0
      BY <1>4, <2>1 DEF Tagged
    <3>2. LastRow("XRP") \in Rows /\ LastRow("XRP").coin = "XRP" /\ LastRow("XRP").id > 0
      BY <1>5, <1>6, <3>1 DEF TagsInv, Rows
    <3> QED
      BY <3>1, <3>2 DEF KeysInv
  <2> QED
    BY <1>2, <1>3, <2>1 DEF KeysInv
<1>11. BaseInv'
  <2> SUFFICES ASSUME ~blind', NEW r \in account, r.coin = "XRP", r.id > 0
               PROVE  r.address = base'["XRP"] /\ max_tag'["XRP"] > 0
    BY <1>3 DEF BaseInv
  <2>1. ~blind /\ unread = {} /\ "XRP" \in Coin
    BY <1>1, <1>6
  <2>2. LastRow("XRP") \in account /\ LastRow("XRP").coin = "XRP" /\ LastRow("XRP").id > 0
    BY <1>5, <1>6, <2>1
  <2>3. LastRow("XRP").tag > 0 /\ LastRow("XRP").address = base["XRP"] /\ r.address = base["XRP"]
    BY <1>6, <2>1, <2>2 DEF TagsInv, BaseInv, Rows
  <2> QED
    BY <1>4, <2>1, <2>3 DEF Tagged
<1> QED
  BY <1>3, <1>7, <1>8, <1>9, <1>10, <1>11

-------------------------------------------------------------------------------
LEMMA NextHolds == PoolInv /\ [Next]_vars => PoolInv'
<1> SUFFICES ASSUME PoolInv, [Next]_vars PROVE PoolInv'
  OBVIOUS
<1>1. CASE UNCHANGED vars
  BY <1>1 DEF vars, staticVars, loopVars, boundVars, PoolInv, TypeOK, Loop, Numbered, Bounded,
              TagsInv, KeysInv, BaseInv, Rows
<1>2. CASE Next
  BY <1>2, QuietStep, CountStep, CreateAtNodeStep, CreateOfflineStep, OpenWalletStep,
     StoreKeyStep, NextTagStep, CommitStep, RestartStep DEF Next, GetNewAddress
<1> QED
  BY <1>1, <1>2

LEMMA PoolInvHolds == Spec => []PoolInv
  BY InitHolds, NextHolds, PTL DEF Spec

\* Every variable keeps its type, and the loop its range (client.cpp:725).
THEOREM PoolTypeCorrect == Spec => []TypeOK
  BY PoolInvHolds, PTL DEF PoolInv

\* No address is in table account without its key in wallet_db, whatever calls
\* fail and wherever the process dies (client.cpp:706-716, 727-744).
THEOREM KeysStored == Spec => []KeyBeforeRow
<1>1. PoolInv => KeyBeforeRow
  BY DEF PoolInv, KeysInv, KeyBeforeRow, Rows
<1> QED
  BY <1>1, PoolInvHolds, PTL

\* The tags of one base address grow with the account ids, and no account id is
\* used twice: also through lost batches and what init reads back
\* (client.cpp:492-507, 722-776).
THEOREM TagsAndIds == Spec => [](TagsGrow /\ IdsUnique)
<1>1. PoolInv => TagsGrow /\ IdsUnique
  BY DEF PoolInv, TagsInv, Numbered, TagsGrow, IdsUnique, Rows
<1> QED
  BY <1>1, PoolInvHolds, PTL

\* XRP has one base address, unless a start could not read it back
\* (client.cpp:494, 738).
THEOREM OneBaseAddress == Spec => []OneBase
<1>1. PoolInv => OneBase
  BY DEF PoolInv, BaseInv, OneBase, Rows
<1> QED
  BY <1>1, PoolInvHolds, PTL

-------------------------------------------------------------------------------
(* The refinement of AccountStock.                                         *)

FiniteRows == IsFiniteSet(account) /\ IsFiniteSet(vect_sql)

LEMMA FiniteInit == Init => FiniteRows
<1> SUFFICES ASSUME Init PROVE FiniteRows
  OBVIOUS
<1>1. IsFiniteSet(Coin)
  <2>1. IsFiniteSet({"BTC"} \cup {"OMNI"} \cup {"ETH"} \cup {"XRP"} \cup {"EOS"})
    BY FS_Singleton, FS_Union
  <2>2. Coin \subseteq {"BTC"} \cup {"OMNI"} \cup {"ETH"} \cup {"XRP"} \cup {"EOS"}
    BY PoolAssumption DEF AllCoins
  <2> QED
    BY <2>1, <2>2, FS_Subset
<1> DEFINE f == [c \in Coin |-> Row(c, 0, IF c = "EOS" THEN EosBase ELSE NoAddress, 0)]
<1>2. f \in Surjection(Coin, account)
  BY DEF Init, Surjection
<1>3. IsFiniteSet(account)
  BY <1>1, <1>2, FS_Surjection
<1> QED
  BY <1>3, FS_EmptySet DEF Init, FiniteRows

LEMMA FiniteStep == FiniteRows /\ [Next]_vars => FiniteRows'
<1> SUFFICES ASSUME FiniteRows, [Next]_vars PROVE FiniteRows'
  OBVIOUS
<1>1. account' \subseteq account \cup vect_sql
  BY DEF Next, vars, GetNewAddress, GiveAccount, TransferOpens, TransferCloses, CountStock,
         CreateAtNode, CreateOffline, OpenWallet, StoreKey, NextTag, Commit, Restart
<1>2. vect_sql' = vect_sql \/ vect_sql' = {} \/ \E n : vect_sql' = vect_sql \cup {n}
  BY DEF Next, vars, loopVars, GetNewAddress, GiveAccount, TransferOpens, TransferCloses, CountStock,
         CreateAtNode, CreateOffline, OpenWallet, StoreKey, NextTag, Commit, Restart,
         AddRow, Skip, Break, NotStored, Stored
<1>3. IsFiniteSet(account')
  BY <1>1, FS_Union, FS_Subset DEF FiniteRows
<1>4. IsFiniteSet(vect_sql')
  <2>1. CASE vect_sql' = vect_sql
    BY <2>1 DEF FiniteRows
  <2>2. CASE vect_sql' = {}
    BY <2>2, FS_EmptySet
  <2>3. ASSUME NEW n, vect_sql' = vect_sql \cup {n} PROVE IsFiniteSet(vect_sql')
    BY <2>3, FS_AddElement DEF FiniteRows
  <2> QED
    BY <1>2, <2>1, <2>2, <2>3
<1> QED
  BY <1>3, <1>4 DEF FiniteRows

\* The abstract stock counts ids, the code rows.
LEMMA StockedIsStocked ==
  ASSUME PoolInv, FiniteRows, NEW c \in Coin
  PROVE  IsStocked(c) <=> Stock!Stocked(c)
<1>1. IsFiniteSet(RowsOf(c))
  BY FS_Subset DEF FiniteRows, RowsOf
<1> DEFINE f == [r \in RowsOf(c) |-> r.id]
<1>2. f \in Bijection(RowsOf(c), Ids(c))
  <2>1. f \in [RowsOf(c) -> Ids(c)] /\ \A i \in Ids(c) : \E r \in RowsOf(c) : f[r] = i
    BY DEF Ids
  <2>2. \A r, s \in RowsOf(c) : f[r] = f[s] => r = s
    BY DEF PoolInv, Numbered, RowsOf, Rows
  <2> QED
    BY <2>1, <2>2 DEF Bijection, Injection, IsInjective, Surjection
<1>3. Cardinality(Ids(c)) = Cardinality(RowsOf(c))
  BY <1>1, <1>2, FS_Bijection DEF ExistsBijection
<1> QED
  <2>1. [d \in Coin |-> Ids(d)][c] = Ids(c)
    OBVIOUS
  <2>2. \A S : Stock!Cardinality(S) = Cardinality(S)
    BY Zenon DEF Cardinality, Stock!Cardinality
  <2>3. Stock!Stocked(c) <=> Cardinality(Ids(c)) - 1 - users[c] >= Quantity
    BY <2>1, <2>2 DEF Stock!Stocked
  <2> QED
    BY <1>3, <2>3 DEF IsStocked

StockIds == [c \in Coin |-> Ids(c)]
StockBatch == [coin |-> pool, maxId |-> maxId]

LEMMA StockInits == Init => Stock!StockInit
<1> SUFFICES ASSUME Init PROVE Stock!StockInit
  OBVIOUS
<1>1. \A c \in Coin : Ids(c) = {0}
  <2> TAKE c \in Coin
  <2>1. \A r \in account : r.id = 0
    BY DEF Init, Row
  <2>2. Row(c, 0, IF c = "EOS" THEN EosBase ELSE NoAddress, 0) \in RowsOf(c)
    BY DEF Init, RowsOf, Row
  <2>3. Row(c, 0, IF c = "EOS" THEN EosBase ELSE NoAddress, 0).id = 0
    BY DEF Row
  <2> QED
    BY <2>1, <2>2, <2>3 DEF Ids, RowsOf
<1> QED
  BY <1>1 DEF Init, Stock!StockInit, Stock!NoBatch

\* A step of the loop before its commit is none of the stock's.
LEMMA StockStutters ==
  UNCHANGED <<account, users, pool, maxId>> => UNCHANGED Stock!stockVars
  BY DEF Stock!stockVars, Ids, RowsOf

LEMMA StockSteps ==
  ASSUME PoolInv, FiniteRows, [Next]_vars PROVE [Stock!StockNext]_(Stock!stockVars)
<1> USE DEF PoolInv
<1>1. CASE UNCHANGED <<account, users, pool, maxId>>
  BY <1>1, StockStutters
<1>2. ASSUME NEW c \in Coin, GiveAccount(c) PROVE Stock!StockNext
  <2>1. UNCHANGED <<StockIds, StockBatch>> /\ users' = [users EXCEPT ![c] = @ + 1]
    BY <1>2 DEF GiveAccount, loopVars, StockIds, StockBatch, Ids, RowsOf
  <2> QED
    BY <2>1 DEF Stock!StockNext, Stock!Give, StockIds, StockBatch
<1>3. CASE CountStock /\ ~IsStocked(Tasks[turn])
  <2>1. Tasks[turn] \in Coin
    BY DEF TypeOK, Turns
  <2>2. /\ StockBatch = Stock!NoBatch /\ ~Stock!Stocked(Tasks[turn])
        /\ StockBatch' = [coin |-> Tasks[turn], maxId |-> Max(Ids(Tasks[turn]))]
        /\ UNCHANGED <<StockIds, users>>
    BY <1>3, <2>1, StockedIsStocked
    DEF CountStock, Loop, StockBatch, StockIds, Stock!NoBatch, Ids, RowsOf
  <2>3. Max(Ids(Tasks[turn])) = Stock!Max(StockIds[Tasks[turn]])
    BY <2>1 DEF StockIds, Max, Stock!Max
  <2>4. Stock!Count(Tasks[turn])
    BY <2>2, <2>3 DEF Stock!Count, StockBatch, StockIds
  <2> QED
    BY <2>1, <2>4 DEF Stock!StockNext
\* A batch ends with rows in the table, or with none.
<1>4. ASSUME pool # "none", pool' = "none", maxId' = 0, users' = users,
             account \subseteq account', account' \subseteq Rows
      PROVE  Stock!StockNext
  <2> DEFINE new == {r.id : r \in account' \ account}
  <2>1. pool \in Coin
    BY <1>4 DEF TypeOK, Turns
  <2>2. \A r \in account' \ account : r.coin = pool /\ r.id \in maxId + 1 .. maxId + Quantity
    BY <1>4, PoolAssumption DEF Numbered, TypeOK, Rows
  <2>3. new \in SUBSET (maxId + 1 .. maxId + Quantity)
    BY <2>2
  <2>4. [c \in Coin |-> Ids(c)]'[pool] = Ids(pool) \cup new
    <3>1. account' = account \cup (account' \ account)
      BY <1>4
    <3> QED
      BY <2>1, <2>2, <3>1 DEF Ids, RowsOf
  <2>5. \A c \in Coin \ {pool} : Ids(c)' = Ids(c)
    BY <1>4, <2>2 DEF Ids, RowsOf
  <2>6. StockIds' = [StockIds EXCEPT ![pool] = @ \cup new]
    BY <2>1, <2>4, <2>5 DEF StockIds
  <2>7. StockBatch # Stock!NoBatch /\ StockBatch' = Stock!NoBatch
        /\ StockBatch.coin = pool /\ StockBatch.maxId = maxId
    BY <1>4 DEF StockBatch, Stock!NoBatch
  <2> HIDE DEF new
  <2>8. Stock!Add
    BY <1>4, <2>3, <2>6, <2>7 DEF Stock!Add, StockIds, StockBatch
  <2> QED
    BY <2>8 DEF Stock!StockNext
<1>5. CASE Commit
  <2>1. pool # "none" /\ pool' = "none" /\ maxId' = 0 /\ users' = users
        /\ account \subseteq account' /\ account' \subseteq Rows
    BY <1>5 DEF Commit, Rows
  <2> QED
    BY <1>4, <2>1
<1>6. CASE Restart
  <2>1. pool' = "none" /\ maxId' = 0 /\ users' = users /\ account' = account
    BY <1>6 DEF Restart
  <2>2. pool = "none" => maxId = 0
    BY DEF Loop
  <2> QED
    BY <1>1, <1>4, <2>1, <2>2 DEF Rows
<1> QED
  BY <1>1, <1>2, <1>3, <1>5, <1>6
  DEF Next, vars, loopVars, GetNewAddress, TransferOpens, TransferCloses, CountStock,
      CreateAtNode, CreateOffline, OpenWallet, StoreKey, NextTag

\* getNewAddress, in all its steps and with all its failures, does to the table
\* only what the abstract stock may do: new ids above those it counted, at most
\* a batch of them, and none for a coin that has enough (client.cpp:636-795).
THEOREM StockRefined == Spec => StockKept
<1>1. Spec => []FiniteRows
  BY FiniteInit, FiniteStep, PTL DEF Spec
<1> QED
  BY <1>1, StockInits, StockSteps, PoolInvHolds, PTL DEF Spec, StockKept, Stock!StockSpec

===============================================================================
