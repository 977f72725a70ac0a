------------------------------ MODULE FlagsProofs ------------------------------
(***************************************************************************)
(* Proofs about BtcUtxo, for chains of any length, any outputs, wallets    *)
(* that grow, abandoned passes, refused statements and deaths of the       *)
(* process, and about TransferFlags, for any accounts and amounts.         *)
(***************************************************************************)
EXTENDS BtcUtxo, TransferFlags, TLAPS

Spent(t) == {o[1] : o \in chain[t].ins}

LEMMA SpentFacts ==
  ASSUME NEW t
  PROVE  /\ Vin(t) <=> \E v \in Spent(t) : v \in s_txid_address
         /\ \A u : SpendsFrom(t, u) <=> u \in Spent(t)
BY DEF Vin, SpendsFrom, Spent

\* An output is spent by a later transaction.
Ordered == \A t \in 1..Len(chain) : \A u \in Spent(t) : u \in 1..Len(chain) /\ u < t

\* Rows are of transactions in the chain.
Placed ==
  /\ \A r \in Rows : r.txid \in 1..Len(chain)
  /\ \A m \in made : m.row.txid \in 1..Len(chain)

Down ==
  ~up => /\ vect_sql = {} /\ i = 0 /\ height = 0
         /\ s_txid_address = {} /\ s_address_id_btc = {} /\ made = {}

\* SpendsRecorded for the blocks the pass has gone by.
PassRecorded ==
  ~blind /\ i # 0 =>
    \A t \in 1..Len(chain) : t < i /\ (\E u \in DOMAIN chain : SpendsFrom(t, u) /\ HasFlag(u, 0)) =>
      \A k \in Outputs(t) : chain[t].outs[k] # NoAddress =>
        \E r \in Rows \cup refused : r.txid = t /\ r.out = k

\* Each block between the scan point and t that pays an address of the map was
\* put into the other map, or spends from it.
JudgedTo(t) ==
  \A u \in 1..Len(chain) : marker < u /\ u < t /\ PaysOwn(u) => u \in s_txid_address \/ Vin(u)

\* A row made with the address map as it is has the flag it would get again.
MadeFits ==
  \A m \in made :
    /\ m.known \subseteq s_address_id_btc
    /\ m.row.flag = 1 <=> chain[m.row.txid].outs[m.row.out] \notin m.known
    /\ m.row.flag # 0 => Vin(m.row.txid)
    /\ m.known = s_address_id_btc => (Vin(m.row.txid) => m.row.flag # 0) /\ JudgedTo(m.row.txid)

PassJudged == i # 0 => JudgedTo(i)

UtxoInv ==
  /\ TypeOK /\ Ordered /\ Placed /\ Down /\ DepositsRemembered
  /\ SpendsRecorded /\ PassRecorded /\ MadeFits /\ PassJudged /\ OneFlag

-------------------------------------------------------------------------------
(* What a transaction's rows say.                                          *)

TxType == [ins : SUBSET (Nat \X Nat), outs : Seq(Own \cup Other \cup {NoAddress})]

LEMMA ChainFacts ==
  ASSUME TypeOK
  PROVE  /\ chain \in Seq(TxType) /\ Len(chain) \in Nat /\ DOMAIN chain = 1..Len(chain)
         /\ marker \in Nat /\ marker <= Len(chain) /\ i \in Nat /\ height \in Nat
         /\ i # 0 => i \in 1..Len(chain) /\ marker < i /\ i <= height /\ height <= Len(chain)
         /\ \A t \in 1..Len(chain) : chain[t] \in TxType /\ Outputs(t) \subseteq Nat \ {0}
<1>1. chain \in Seq(TxType) /\ Len(chain) \in Nat /\ DOMAIN chain = 1..Len(chain)
  BY DEF TypeOK, TxType
<1>2. marker \in Nat /\ marker <= Len(chain) /\ i \in Nat /\ height \in Nat
  BY <1>1 DEF TypeOK
<1>3. i # 0 => i \in 1..Len(chain) /\ marker < i /\ i <= height /\ height <= Len(chain)
  BY <1>1 DEF TypeOK
<1>4. ASSUME NEW t \in 1..Len(chain) PROVE chain[t] \in TxType /\ Outputs(t) \subseteq Nat \ {0}
  <2>1. chain[t] \in TxType
    BY <1>1
  <2>2. chain[t].outs \in Seq(Own \cup Other \cup {NoAddress})
    BY <2>1 DEF TxType
  <2> QED
    BY <2>1, <2>2 DEF Outputs
<1> QED
  BY <1>1, <1>2, <1>3, <1>4

LEMMA RowsFacts ==
  ASSUME NEW t
  PROVE  /\ \A r \in RowsOf(t) :
              /\ r.txid = t /\ r.out \in Outputs(t)
              /\ r.flag # 0 <=> Vin(t)
              /\ r.flag = 1 <=> chain[t].outs[r.out] \notin s_address_id_btc
              /\ r.flag \in {0, 1, 2}
              /\ r.flag = 0 => PaysOwn(t)
         /\ Vin(t) => \A k \in Outputs(t) : chain[t].outs[k] # NoAddress =>
                        \E r \in RowsOf(t) : r.txid = t /\ r.out = k
<1> DEFINE A == {Row(t, k, 0, IF Vin(t) THEN 2 ELSE 0) : k \in OwnOutputs(t)}
           B == {Row(t, k, k - 1, 1) : k \in IF Vin(t) THEN OtherOutputs(t) ELSE {}}
<1>1. RowsOf(t) = A \cup B
  BY DEF RowsOf
<1>2. ASSUME NEW r \in RowsOf(t)
      PROVE  /\ r.txid = t /\ r.out \in Outputs(t)
             /\ r.flag # 0 <=> Vin(t)
             /\ r.flag = 1 <=> chain[t].outs[r.out] \notin s_address_id_btc
             /\ r.flag \in {0, 1, 2}
             /\ r.flag = 0 => PaysOwn(t)
  <2>1. CASE r \in A
    <3>1. PICK k \in OwnOutputs(t) : r = Row(t, k, 0, IF Vin(t) THEN 2 ELSE 0)
      BY <2>1
    <3> QED
      BY <3>1 DEF Row, PaysOwn, OwnOutputs
  <2>2. CASE r \in B
    <3>1. Vin(t) /\ \E k \in OtherOutputs(t) : r = Row(t, k, k - 1, 1)
      BY <2>2
    <3>2. PICK k \in OtherOutputs(t) : r = Row(t, k, k - 1, 1)
      BY <3>1
    <3> QED
      BY <3>1, <3>2 DEF Row, PaysOwn, OtherOutputs
  <2> QED
    BY <1>1, <2>1, <2>2
<1>3. ASSUME Vin(t), NEW k \in Outputs(t), chain[t].outs[k] # NoAddress
      PROVE  \E r \in RowsOf(t) : r.txid = t /\ r.out = k
  <2>1. k \in OwnOutputs(t) \/ k \in OtherOutputs(t)
    BY <1>3 DEF OwnOutputs, OtherOutputs
  <2>2. Row(t, k, 0, 2) \in RowsOf(t) \/ Row(t, k, k - 1, 1) \in RowsOf(t)
    BY <1>1, <1>3, <2>1
  <2> QED
    BY <2>2 DEF Row
<1> QED
  BY <1>2, <1>3

LEMMA RowsType ==
  ASSUME TypeOK, i # 0
  PROVE  /\ RowsOf(i) \subseteq RowType
         /\ \A r \in RowsOf(i) :
              [row |-> r, known |-> s_address_id_btc] \in [row : RowType, known : SUBSET Own]
<1>1. i \in Nat /\ Outputs(i) \subseteq Nat \ {0}
  BY ChainFacts
<1>2. RowsOf(i) \subseteq RowType
  BY <1>1 DEF RowsOf, Row, RowType, OwnOutputs, OtherOutputs
<1> QED
  BY <1>2 DEF TypeOK

LEMMA MineFacts ==
  ASSUME TypeOK, Mine
  PROVE  /\ chain' \in Seq(TxType) /\ Len(chain') = Len(chain) + 1
         /\ \A t \in 1..Len(chain) : chain'[t] = chain[t]
         /\ \A o \in chain'[Len(chain) + 1].ins : o[1] \in 1..Len(chain)
<1>1. chain \in Seq(TxType) /\ Len(chain) \in Nat
  BY ChainFacts
<1>2. \A o \in Unspent : o \in Nat \X Nat /\ o[1] \in 1..Len(chain)
  <2> SUFFICES ASSUME NEW o \in Unspent PROVE o \in Nat \X Nat /\ o[1] \in 1..Len(chain)
    OBVIOUS
  <2>1. PICK t \in DOMAIN chain : o \in {t} \X Outputs(t)
    BY DEF Unspent
  <2>2. t \in 1..Len(chain) /\ Outputs(t) \subseteq Nat
    BY <2>1, ChainFacts
  <2> QED
    BY <2>1, <2>2
<1>3. PICK ins \in SUBSET Unspent, outs \in Shapes : chain' = Append(chain, [ins |-> ins, outs |-> outs])
  BY DEF Mine
<1> DEFINE x == [ins |-> ins, outs |-> outs]
<1>5. x \in TxType
  <2>1. outs \in Seq(Own \cup Other \cup {NoAddress})
    BY UtxoAssumption
  <2>2. ins \in SUBSET (Nat \X Nat)
    BY <1>2
  <2> QED
    BY <2>1, <2>2 DEF TxType
<1>6. \A o \in x.ins : o[1] \in 1..Len(chain)
  BY <1>2
<1> HIDE DEF x
<1>7. chain' = Append(chain, x)
  BY <1>3 DEF x
<1>8. chain'[Len(chain) + 1] = x
  BY <1>1, <1>5, <1>7
<1> QED
  BY <1>1, <1>5, <1>6, <1>7, <1>8

\* A commit moves rows to the table or to those refused, and nothing gets lost.
LEMMA CommitFacts ==
  ASSUME NEW rows, NEW lost \in SUBSET rows, Commit(rows, lost)
  PROVE  /\ txutxo \subseteq txutxo' /\ txutxo' \subseteq txutxo \cup rows
         /\ rows \subseteq txutxo' \cup refused' /\ refused' = refused \cup lost
         /\ vect_sql' = {} /\ refused \subseteq refused'
BY DEF Commit

LEMMA CommitsFacts ==
  /\ CommitBlock => \E lost \in SUBSET (vect_sql \cup RowsOf(i)) :
                      Commit(vect_sql \cup RowsOf(i), lost) /\ marker' \in {marker, i}
  /\ CommitOther => \E lost \in SUBSET vect_sql : Commit(vect_sql, lost)
BY DEF CommitBlock, CommitOther

LEMMA UtxoTypeStep == ASSUME TypeOK, [Next]_vars PROVE TypeOK'
<1> USE UtxoAssumption
<1> USE DEF nodeVars, dbVars, memVars, passVars, budgetVars
<1>1. ASSUME i # 0, Classify(i)
      PROVE  s_txid_address' \in SUBSET Nat /\ made' \in SUBSET [row : RowType, known : SUBSET Own]
  <2>1. i \in Nat /\ RowsOf(i) \subseteq RowType /\ i \in DOMAIN chain
    BY <1>1, RowsType, ChainFacts DEF TypeOK
  <2>2. s_txid_address' \in SUBSET Nat
    BY <1>1, <2>1 DEF Classify, Remember, TypeOK
  <2> QED
    BY <1>1, <2>1, <2>2 DEF Classify, TypeOK
<1>f. Fault => faults' \in Nat /\ crashes' \in Nat
  BY DEF Fault, TypeOK
<1>2. CASE Mine
  <2>1. UNCHANGED <<account, dbVars, memVars, passVars, up, budgetVars, blind>>
    BY <1>2 DEF Mine
  <2>2. chain' \in Seq(TxType) /\ Len(chain') = Len(chain) + 1 /\ Len(chain) \in Nat
    BY <1>2, MineFacts, ChainFacts
  <2>3. marker \in 0..Len(chain') /\ height \in 0..Len(chain')
    BY <2>2 DEF TypeOK
  <2> QED
    BY <2>1, <2>2, <2>3 DEF TypeOK, TxType
<1>10. CASE CreateAddress
  BY <1>10 DEF CreateAddress, TypeOK
<1>3. CASE Start
  BY <1>3, <1>f DEF Start, TypeOK, TxIds, RowType
<1>4. CASE Crash
  <2>1. crashes' \in Nat /\ marker \in 0..Len(chain) /\ 0 \in 0..Len(chain)
    BY <1>4, ChainFacts DEF Crash, TypeOK
  <2> QED
    BY <1>4, <2>1 DEF Crash, TypeOK
<1>11. CASE ReadAddresses
  BY <1>11 DEF ReadAddresses, TypeOK
<1>5. CASE BeginPass
  BY <1>5, ChainFacts DEF BeginPass, TypeOK
<1>6. CASE ScanBlock
  <2>1. i # 0 /\ chain' = chain /\ Classify(i)
    BY <1>6 DEF ScanBlock
  <2>2. /\ txutxo' \in SUBSET RowType /\ vect_sql' \in SUBSET RowType /\ refused' \in SUBSET RowType
        /\ marker' \in {marker, i} /\ faults' \in Nat /\ crashes' \in Nat
    <3>1. CASE CommitBlock
      BY <1>f, <2>1, <3>1, RowsType DEF CommitBlock, Commit, TypeOK
    <3>2. CASE vect_sql' = vect_sql \cup RowsOf(i) /\ UNCHANGED <<dbVars, budgetVars>>
      BY <2>1, <3>2, RowsType DEF TypeOK
    <3> QED
      BY <1>6, <3>1, <3>2 DEF ScanBlock
  <2>3. marker' \in 0..Len(chain') /\ height' \in 0..Len(chain')
        /\ i' \in (IF height' = 0 THEN {0} ELSE marker' + 1 .. height')
    <3>1. /\ Len(chain) \in Nat /\ marker \in 0..Len(chain) /\ height \in 0..Len(chain)
          /\ i \in marker + 1 .. height
      BY <2>1, ChainFacts DEF TypeOK
    <3>2. \/ i = height /\ i' = 0 /\ height' = 0
          \/ i # height /\ i' = i + 1 /\ height' = height
      BY <1>6 DEF ScanBlock
    <3> QED
      BY <2>1, <2>2, <3>1, <3>2
  <2> QED
    BY <1>1, <1>6, <2>1, <2>2, <2>3 DEF ScanBlock, TypeOK
<1>7. CASE Abandon
  <2>1. vect_sql' \in SUBSET RowType
    BY <1>7, RowsType DEF Abandon, TypeOK
  <2>2. s_txid_address' \in SUBSET Nat /\ made' \in SUBSET [row : RowType, known : SUBSET Own]
    BY <1>1, <1>7 DEF Abandon, TypeOK
  <2> QED
    BY <1>7, <1>f, <2>1, <2>2, ChainFacts, SMTT(30) DEF Abandon, TypeOK
<1>8. CASE CommitOther
  BY <1>8, <1>f DEF CommitOther, Commit, TypeOK
<1>9. CASE UNCHANGED vars
  BY <1>9 DEF vars, TypeOK
<1> QED
  BY <1>2, <1>3, <1>4, <1>5, <1>6, <1>7, <1>8, <1>9, <1>10, <1>11 DEF Next

-------------------------------------------------------------------------------
(* The steps, one by one.                                                  *)

LEMMA SameChain ==
  ASSUME UNCHANGED chain
  PROVE  /\ Ordered' <=> Ordered
         /\ \A t : /\ Outputs(t)' = Outputs(t) /\ Spent(t)' = Spent(t)
                   /\ \A u : SpendsFrom(t, u)' = SpendsFrom(t, u)
                   /\ s_address_id_btc' = s_address_id_btc => PaysOwn(t)' = PaysOwn(t)
                   /\ s_txid_address' = s_txid_address => Vin(t)' = Vin(t)
                   /\ s_txid_address \subseteq s_txid_address' /\ Vin(t) => Vin(t)'
BY DEF Ordered, Outputs, Spent, PaysOwn, OwnOutputs, SpendsFrom, Vin

\* What was judged stays so when the map holds more and the scan point moves on.
LEMMA JudgedMore ==
  ASSUME TypeOK, TypeOK', UNCHANGED <<chain, s_address_id_btc>>, marker <= marker',
         s_txid_address \subseteq s_txid_address', NEW t, JudgedTo(t)
  PROVE  JudgedTo(t)'
<1> SUFFICES ASSUME NEW u \in 1..Len(chain), marker' < u, u < t, PaysOwn(u)
             PROVE  u \in s_txid_address' \/ Vin(u)'
  BY SameChain DEF JudgedTo
<1>1. marker < u
  BY ChainFacts DEF TypeOK
<1> QED
  BY <1>1, SameChain DEF JudgedTo

\* The steps that make no row and leave both maps alone.
LEMMA QuietStep ==
  ASSUME UtxoInv, TypeOK', UNCHANGED <<chain, s_address_id_btc, s_txid_address, made, up, blind, marker>>,
         Rows' \subseteq Rows, txutxo \cup refused \subseteq txutxo' \cup refused',
         Rows \cup refused \subseteq Rows' \cup refused',
         i' # 0 => i' = i \/ i' = marker + 1,
         ~up => vect_sql' = {} /\ i' = 0 /\ height' = 0
  PROVE  UtxoInv'
<1>1. \A t : HasFlag(t, 0)' => HasFlag(t, 0)
  BY DEF HasFlag
<1>2. Ordered' /\ Placed' /\ Down' /\ DepositsRemembered' /\ OneFlag'
  BY SameChain DEF UtxoInv, Placed, Down, DepositsRemembered, OneFlag
<1>3. marker <= marker' /\ marker \in Nat /\ DOMAIN chain = 1..Len(chain) /\ Len(chain) \in Nat
  BY ChainFacts DEF UtxoInv
<1>4. \A t : JudgedTo(t) => JudgedTo(t)'
  BY <1>3, JudgedMore DEF UtxoInv
<1>5. MadeFits'
  BY <1>4, SameChain DEF UtxoInv, MadeFits
<1>6. PassJudged'
  <2>1. i' = marker + 1 => JudgedTo(i)'
    BY <1>3 DEF JudgedTo
  <2>2. i' = i => (i # 0 => JudgedTo(i)')
    BY <1>4 DEF UtxoInv, PassJudged
  <2> QED
    BY <2>1, <2>2 DEF PassJudged, JudgedTo
<1>7. SpendsRecorded'
  BY <1>1, SameChain DEF UtxoInv, SpendsRecorded
<1>8. PassRecorded'
  <2> SUFFICES ASSUME ~blind, i' # 0, NEW t \in 1..Len(chain), t < i', NEW u \in DOMAIN chain,
                      SpendsFrom(t, u), HasFlag(u, 0)', NEW k \in Outputs(t), chain[t].outs[k] # NoAddress
               PROVE  \E r \in Rows' \cup refused' : r.txid = t /\ r.out = k
    BY SameChain DEF PassRecorded
  <2>1. CASE i' = i
    BY <1>1, <2>1 DEF UtxoInv, PassRecorded
  <2>2. CASE i' = marker + 1
    <3>1. t \in 1..marker
      BY <1>3, <2>2
    <3>2. \E r \in txutxo \cup refused : r.txid = t /\ r.out = k
      BY <1>1, <3>1 DEF UtxoInv, SpendsRecorded
    <3> QED
      BY <3>2 DEF Rows
  <2> QED
    BY <2>1, <2>2
<1> QED
  BY <1>2, <1>5, <1>6, <1>7, <1>8 DEF UtxoInv

LEMMA MineStep == ASSUME UtxoInv, TypeOK', Mine PROVE UtxoInv'
<1> DEFINE n == Len(chain)
<1> USE DEF dbVars, memVars, passVars, budgetVars
<1>1. UNCHANGED <<txutxo, refused, made, marker, s_address_id_btc, s_txid_address, vect_sql, i, height, up, blind>>
  BY DEF Mine
<1>2. /\ n \in Nat /\ DOMAIN chain = 1..n /\ DOMAIN chain' = 1..(n + 1) /\ Len(chain') = n + 1
      /\ \A o \in chain'[n + 1].ins : o[1] \in 1..n
      /\ marker \in Nat /\ marker <= n /\ i \in Nat /\ (i # 0 => i <= n)
  BY MineFacts, ChainFacts DEF UtxoInv
<1>3. ASSUME NEW t \in 1..n
      PROVE  /\ Outputs(t)' = Outputs(t) /\ Spent(t)' = Spent(t) /\ chain'[t] = chain[t]
             /\ Vin(t)' = Vin(t) /\ PaysOwn(t)' = PaysOwn(t)
             /\ \A u : SpendsFrom(t, u)' = SpendsFrom(t, u)
  <2>1. chain'[t] = chain[t]
    BY MineFacts DEF UtxoInv
  <2> QED
    BY <1>1, <2>1 DEF Outputs, Spent, Vin, PaysOwn, OwnOutputs, SpendsFrom
<1>4. Rows' = Rows /\ \A t : HasFlag(t, 0)' = HasFlag(t, 0)
  BY <1>1 DEF Rows, HasFlag
<1>7. Ordered'
  <2> SUFFICES ASSUME NEW t \in 1..(n + 1), NEW u \in Spent(t)' PROVE u \in 1..(n + 1) /\ u < t
    BY <1>2 DEF Ordered
  <2>1. CASE t \in 1..n
    BY <1>2, <1>3, <2>1 DEF UtxoInv, Ordered
  <2>2. CASE t = n + 1
    BY <1>2, <2>2 DEF Spent
  <2> QED
    BY <1>2, <2>1, <2>2
<1>8. Placed' /\ Down' /\ DepositsRemembered' /\ OneFlag'
  BY <1>1, <1>2, <1>4 DEF UtxoInv, Placed, Down, DepositsRemembered, OneFlag
<1>9. \A t \in 1..n : JudgedTo(t) => JudgedTo(t)'
  BY <1>1, <1>2, <1>3 DEF JudgedTo
<1>10. MadeFits' /\ PassJudged'
  <2>1. \A m \in made : m.row.txid \in 1..n
    BY DEF UtxoInv, Placed
  <2>2. MadeFits'
    BY <1>1, <1>3, <1>9, <2>1 DEF UtxoInv, MadeFits
  <2>3. PassJudged'
    BY <1>1, <1>2, <1>9 DEF UtxoInv, PassJudged
  <2> QED
    BY <2>2, <2>3
<1>13. ASSUME NEW t \in 1..n, NEW u \in 1..(n + 1), SpendsFrom(t, u)' PROVE SpendsFrom(t, u) /\ u \in 1..n
  BY <1>2, <1>3, <1>13, SpentFacts DEF UtxoInv, Ordered
<1>14. SpendsRecorded'
  <2> SUFFICES ASSUME ~blind, NEW t \in 1..marker, NEW u \in 1..(n + 1), SpendsFrom(t, u)', HasFlag(u, 0),
                      NEW k \in Outputs(t)', chain'[t].outs[k] # NoAddress
               PROVE  \E r \in txutxo \cup refused : r.txid = t /\ r.out = k
    BY <1>1, <1>2, <1>4 DEF SpendsRecorded
  <2>1. t \in 1..n
    BY <1>2
  <2> QED
    BY <1>2, <1>3, <1>13, <2>1 DEF UtxoInv, SpendsRecorded
<1>15. PassRecorded'
  <2> SUFFICES ASSUME ~blind, i # 0, NEW t \in 1..(n + 1), t < i, NEW u \in 1..(n + 1), SpendsFrom(t, u)',
                      HasFlag(u, 0), NEW k \in Outputs(t)', chain'[t].outs[k] # NoAddress
               PROVE  \E r \in Rows \cup refused : r.txid = t /\ r.out = k
    BY <1>1, <1>2, <1>4 DEF PassRecorded
  <2>1. t \in 1..n
    BY <1>2
  <2> QED
    BY <1>2, <1>3, <1>13, <2>1 DEF UtxoInv, PassRecorded
<1> QED
  BY <1>7, <1>8, <1>10, <1>14, <1>15 DEF UtxoInv

LEMMA StartStep == ASSUME UtxoInv, TypeOK', Start PROVE UtxoInv'
<1> USE DEF nodeVars, dbVars, passVars, budgetVars
<1>1. /\ vect_sql = {} /\ i = 0 /\ made = {} /\ Rows = txutxo /\ Rows' = txutxo
      /\ UNCHANGED <<chain, txutxo, refused, marker, s_address_id_btc, vect_sql, made, i, height>>
      /\ up' /\ (~blind' => ~blind /\ s_txid_address' = TxIds(txutxo))
  BY DEF Start, UtxoInv, Down, Rows
<1>2. Ordered' /\ Placed' /\ Down' /\ OneFlag' /\ MadeFits' /\ PassJudged' /\ PassRecorded'
  BY <1>1, SameChain DEF UtxoInv, Placed, Down, OneFlag, MadeFits, PassJudged, PassRecorded
<1>3. DepositsRemembered'
  BY <1>1 DEF DepositsRemembered, TxIds
<1>4. SpendsRecorded'
  BY <1>1, SameChain DEF UtxoInv, SpendsRecorded, HasFlag
<1> QED
  BY <1>2, <1>3, <1>4 DEF UtxoInv

LEMMA CrashStep == ASSUME UtxoInv, TypeOK', Crash PROVE UtxoInv'
<1> USE DEF nodeVars, dbVars
<1>1. /\ vect_sql' = {} /\ i' = 0 /\ height' = 0 /\ made' = {} /\ ~up' /\ Rows' = txutxo
      /\ s_txid_address' = {} /\ s_address_id_btc' = {}
      /\ UNCHANGED <<chain, txutxo, refused, marker, blind>>
  BY DEF Crash, Rows
<1>2. Ordered' /\ Placed' /\ Down' /\ OneFlag' /\ MadeFits' /\ PassJudged' /\ PassRecorded'
      /\ DepositsRemembered'
  BY <1>1, SameChain DEF UtxoInv, Placed, Down, OneFlag, MadeFits, PassJudged, PassRecorded,
     DepositsRemembered, Rows
<1>3. \A t : HasFlag(t, 0)' => HasFlag(t, 0)
  BY <1>1 DEF HasFlag, Rows
<1>4. SpendsRecorded'
  BY <1>1, <1>3, SameChain DEF UtxoInv, SpendsRecorded
<1> QED
  BY <1>2, <1>4 DEF UtxoInv

LEMMA ReadStep == ASSUME UtxoInv, TypeOK', ReadAddresses PROVE UtxoInv'
<1> USE DEF nodeVars, dbVars, passVars, budgetVars
<1>1. /\ i = 0 /\ up /\ s_address_id_btc \subseteq s_address_id_btc'
      /\ UNCHANGED <<chain, txutxo, refused, marker, s_txid_address, vect_sql, made, i, height, up, blind>>
  BY DEF ReadAddresses
<1>2. CASE s_address_id_btc' = s_address_id_btc
  BY <1>1, <1>2, QuietStep DEF Rows
<1>3. CASE s_address_id_btc' # s_address_id_btc
  <2>1. \A m \in made : m.known # s_address_id_btc'
    BY <1>1, <1>3 DEF UtxoInv, MadeFits
  <2>2. MadeFits'
    BY <1>1, <2>1, SameChain DEF UtxoInv, MadeFits
  <2>3. Rows' = Rows
    BY <1>1 DEF Rows
  <2>4. Ordered' /\ Placed' /\ Down' /\ OneFlag' /\ PassJudged' /\ PassRecorded' /\ DepositsRemembered'
    BY <1>1, <2>3, SameChain DEF UtxoInv, Placed, Down, OneFlag, PassJudged, PassRecorded, DepositsRemembered
  <2>5. SpendsRecorded'
    BY <1>1, <2>3, SameChain DEF UtxoInv, SpendsRecorded, HasFlag
  <2> QED
    BY <2>2, <2>4, <2>5 DEF UtxoInv
<1> QED
  BY <1>2, <1>3

\* The rows of block i and the map after them, whatever becomes of the rows.
LEMMA ClassifyStep ==
  ASSUME UtxoInv, TypeOK', i # 0, Classify(i), UNCHANGED <<chain, s_address_id_btc, up, blind>>,
         Rows' \subseteq Rows \cup RowsOf(i),
         Rows \cup RowsOf(i) \cup refused \subseteq Rows' \cup refused',
         txutxo \cup refused \subseteq txutxo' \cup refused',
         marker' = marker \/ (marker' = i /\ vect_sql' = {}),
         i' = 0 \/ i' = i + 1
  PROVE  UtxoInv'
<1> DEFINE new == PaysOwn(i) /\ ~Vin(i)
<1>1. /\ up /\ i \in 1..Len(chain) /\ i \in Nat /\ marker \in Nat /\ marker < i
      /\ Len(chain) \in Nat /\ DOMAIN chain = 1..Len(chain) /\ marker <= marker' /\ TypeOK
  BY ChainFacts DEF UtxoInv, Down
<1>2. /\ s_txid_address \subseteq s_txid_address'
      /\ \A v : v \in s_txid_address' => v \in s_txid_address \/ (v = i /\ new)
      /\ new => i \in s_txid_address'
      /\ made' = made \cup {[row |-> r, known |-> s_address_id_btc] : r \in RowsOf(i)}
  BY DEF Classify, Remember
<1>3. /\ \A r \in RowsOf(i) :
           /\ r.txid = i /\ r.out \in Outputs(i)
           /\ r.flag # 0 <=> Vin(i)
           /\ r.flag = 1 <=> chain[i].outs[r.out] \notin s_address_id_btc
           /\ r.flag \in {0, 1, 2}
           /\ r.flag = 0 => new
      /\ Vin(i) => \A k \in Outputs(i) : chain[i].outs[k] # NoAddress =>
                     \E r \in RowsOf(i) : r.txid = i /\ r.out = k
  BY RowsFacts
<1> HIDE DEF new
<1>4. Ordered' /\ Down'
  BY <1>1, SameChain DEF UtxoInv, Down
<1>5. \A m \in made' : m \in made \/ (m.known = s_address_id_btc /\ m.row \in RowsOf(i))
  BY <1>2
<1>6. Placed'
  BY <1>1, <1>3, <1>5 DEF UtxoInv, Placed
<1>7. DepositsRemembered'
  BY <1>1, <1>2, <1>3 DEF UtxoInv, DepositsRemembered
<1>8. \A u : u \in Spent(i) => u # i
  BY <1>1 DEF UtxoInv, Ordered
<1>9. \A t : JudgedTo(t) => JudgedTo(t)'
  BY <1>1, <1>2, JudgedMore
<1>10. JudgedTo(i)
  BY DEF UtxoInv, PassJudged
<1>11. ASSUME NEW m \in made' PROVE m.known = s_address_id_btc => (Vin(m.row.txid)' <=> m.row.flag # 0)
  <2>1. CASE m \in made
    <3> SUFFICES ASSUME m.known = s_address_id_btc PROVE Vin(m.row.txid)' <=> m.row.flag # 0
      OBVIOUS
    <3> DEFINE t == m.row.txid
    <3>1. JudgedTo(t) /\ (Vin(t) <=> m.row.flag # 0) /\ t \in 1..Len(chain)
      BY <2>1 DEF UtxoInv, MadeFits, Placed
    <3> HIDE DEF t
    <3>2. \A u \in Spent(t) : u \in 1..Len(chain) /\ u < t
      BY <3>1 DEF UtxoInv, Ordered
    <3>3. new /\ i \in Spent(t) => i \in s_txid_address
      BY <1>1, <3>1, <3>2 DEF JudgedTo, new
    <3>4. \A v \in Spent(t) : v \in s_txid_address' <=> v \in s_txid_address
      BY <1>2, <3>3
    <3>5. Vin(t)' <=> \E v \in Spent(t)' : v \in s_txid_address'
      BY DEF Vin, Spent
    <3>6. Vin(t)' <=> Vin(t)
      BY <3>4, <3>5, SpentFacts, SameChain
    <3> QED
      BY <3>1, <3>6 DEF t
  <2>2. CASE m.known = s_address_id_btc /\ m.row \in RowsOf(i)
    <3> DEFINE t == m.row.txid
    <3>1. t = i /\ (m.row.flag # 0 <=> Vin(t))
      BY <1>3, <2>2
    <3> HIDE DEF t
    <3>2. \A v \in Spent(t) : v \in s_txid_address' <=> v \in s_txid_address
      BY <1>2, <1>8, <3>1
    <3>3. Vin(t)' <=> \E v \in Spent(t)' : v \in s_txid_address'
      BY DEF Vin, Spent
    <3>4. Vin(t)' <=> Vin(t)
      BY <3>2, <3>3, SpentFacts, SameChain
    <3> QED
      BY <3>1, <3>4 DEF t
  <2> QED
    BY <1>5, <2>1, <2>2
<1>12. MadeFits'
  <2> SUFFICES ASSUME NEW m \in made'
               PROVE  /\ m.known \subseteq s_address_id_btc
                      /\ m.row.flag = 1 <=> chain[m.row.txid].outs[m.row.out] \notin m.known
                      /\ m.row.flag # 0 => Vin(m.row.txid)'
                      /\ m.known = s_address_id_btc => (Vin(m.row.txid)' => m.row.flag # 0)
                                                       /\ JudgedTo(m.row.txid)'
    BY DEF MadeFits
  <2>1. CASE m \in made
    BY <1>2, <1>9, <1>11, <2>1, SameChain DEF UtxoInv, MadeFits
  <2>2. CASE m.known = s_address_id_btc /\ m.row \in RowsOf(i)
    BY <1>3, <1>9, <1>10, <1>11, <2>2
  <2> QED
    BY <1>5, <2>1, <2>2
<1>13. PassJudged'
  <2> SUFFICES ASSUME i' = i + 1, NEW u \in 1..Len(chain), marker' < u, u < i + 1, PaysOwn(u)
               PROVE  u \in s_txid_address' \/ Vin(u)'
    BY <1>1, SameChain DEF PassJudged, JudgedTo
  <2>1. CASE u = i
    BY <1>2, <2>1, SameChain DEF new
  <2>2. CASE u # i
    <3>1. u < i /\ marker < u
      BY <1>1, <2>2 DEF TypeOK
    <3>2. u \in s_txid_address \/ Vin(u)
      BY <1>10, <3>1 DEF JudgedTo
    <3> QED
      BY <1>2, <3>2, SameChain
  <2> QED
    BY <2>1, <2>2
<1>14. OneFlag'
  <2> SUFFICES ASSUME NEW m \in made', NEW l \in made', m.row.txid = l.row.txid, m.row.out = l.row.out,
                      m.known \subseteq l.known
               PROVE  m.row.flag = l.row.flag \/ (m.known # l.known /\ l.row.flag = 2)
    BY DEF OneFlag
  <2>1. \A x \in made' : /\ x.row.flag \in {0, 1, 2} /\ x.known \subseteq s_address_id_btc
                         /\ x.row.flag = 1 <=> chain[x.row.txid].outs[x.row.out] \notin x.known
                         /\ x.row.flag # 0 => Vin(x.row.txid)'
                         /\ x.known = s_address_id_btc => (Vin(x.row.txid)' => x.row.flag # 0)
    <3>1. \A x \in made' : x.row.flag \in {0, 1, 2}
      BY DEF TypeOK, RowType
    <3> QED
      BY <1>12, <3>1 DEF MadeFits
  <2>2. CASE m \in made /\ l \in made
    BY <2>2 DEF UtxoInv, OneFlag
  <2>3. CASE l.known = s_address_id_btc
    BY <2>1, <2>3
  <2>4. CASE m.known = s_address_id_btc
    BY <2>1, <2>4
  <2> QED
    BY <1>5, <2>2, <2>3, <2>4
<1>15. ASSUME NEW u, HasFlag(u, 0)', u # i PROVE HasFlag(u, 0)
  BY <1>3, <1>15 DEF HasFlag
<1>16. ASSUME ~blind, NEW t \in 1..i, NEW u \in DOMAIN chain, SpendsFrom(t, u), HasFlag(u, 0)',
              NEW k \in Outputs(t), chain[t].outs[k] # NoAddress
       PROVE  \E r \in Rows' \cup refused' : r.txid = t /\ r.out = k
  <2>1. u < t /\ t \in 1..Len(chain) /\ u # i
    BY <1>1, <1>16, SpentFacts DEF UtxoInv, Ordered
  <2>2. HasFlag(u, 0)
    BY <1>15, <1>16, <2>1
  <2>3. CASE t = i
    <3>1. u \in s_txid_address
      BY <1>1, <1>16, <2>2 DEF UtxoInv, DepositsRemembered, HasFlag
    <3>2. Vin(i)
      BY <1>16, <2>3, <3>1, SpentFacts
    <3>3. \E r \in RowsOf(i) : r.txid = t /\ r.out = k
      BY <1>3, <1>16, <2>3, <3>2
    <3> QED
      BY <3>3
  <2>4. CASE t < i
    <3>1. \E r \in Rows \cup refused : r.txid = t /\ r.out = k
      BY <1>1, <1>16, <2>1, <2>2, <2>4 DEF UtxoInv, PassRecorded
    <3> QED
      BY <3>1
  <2> QED
    BY <1>1, <2>3, <2>4
<1>17. SpendsRecorded'
  <2> SUFFICES ASSUME ~blind, NEW t \in 1..marker', NEW u \in DOMAIN chain, SpendsFrom(t, u), HasFlag(u, 0)',
                      NEW k \in Outputs(t), chain[t].outs[k] # NoAddress
               PROVE  \E r \in txutxo' \cup refused' : r.txid = t /\ r.out = k
    BY SameChain DEF SpendsRecorded
  <2>1. CASE marker' = i /\ vect_sql' = {}
    <3>1. Rows' = txutxo'
      BY <2>1 DEF Rows
    <3> QED
      BY <1>16, <2>1, <3>1
  <2>2. CASE marker' = marker
    <3>1. t \in 1..Len(chain) /\ t < i
      BY <1>1, <2>2
    <3>2. u # i
      BY <1>1, <3>1, SpentFacts DEF UtxoInv, Ordered
    <3>3. \E r \in txutxo \cup refused : r.txid = t /\ r.out = k
      BY <1>15, <2>2, <3>2 DEF UtxoInv, SpendsRecorded
    <3> QED
      BY <3>3
  <2> QED
    BY <2>1, <2>2
<1>18. PassRecorded'
  <2> SUFFICES ASSUME ~blind, i' = i + 1, NEW t \in 1..Len(chain), t < i + 1, NEW u \in DOMAIN chain,
                      SpendsFrom(t, u), HasFlag(u, 0)', NEW k \in Outputs(t), chain[t].outs[k] # NoAddress
               PROVE  \E r \in Rows' \cup refused' : r.txid = t /\ r.out = k
    BY <1>1, SameChain DEF PassRecorded
  <2>1. t \in 1..i
    BY <1>1
  <2> QED
    BY <1>16, <2>1
<1> QED
  BY <1>4, <1>6, <1>7, <1>12, <1>13, <1>14, <1>17, <1>18 DEF UtxoInv

LEMMA ScanStep == ASSUME UtxoInv, TypeOK', ScanBlock PROVE UtxoInv'
<1>1. /\ i # 0 /\ Classify(i) /\ UNCHANGED <<chain, s_address_id_btc, up, blind>>
      /\ i' = 0 \/ i' = i + 1
  BY DEF ScanBlock, nodeVars
<1>2. CASE CommitBlock
  <2>1. PICK lost \in SUBSET (vect_sql \cup RowsOf(i)) :
          Commit(vect_sql \cup RowsOf(i), lost) /\ marker' \in {marker, i}
    BY <1>2, CommitsFacts
  <2>2. /\ Rows' \subseteq Rows \cup RowsOf(i)
        /\ Rows \cup RowsOf(i) \cup refused \subseteq Rows' \cup refused'
        /\ txutxo \cup refused \subseteq txutxo' \cup refused' /\ vect_sql' = {}
    BY <2>1, CommitFacts DEF Rows
  <2> QED
    BY <1>1, <2>1, <2>2, ClassifyStep
<1>3. CASE vect_sql' = vect_sql \cup RowsOf(i) /\ UNCHANGED <<dbVars, budgetVars>>
  BY <1>1, <1>3, ClassifyStep DEF Rows, dbVars
<1> QED
  BY <1>2, <1>3 DEF ScanBlock

LEMMA AbandonStep == ASSUME UtxoInv, TypeOK', Abandon PROVE UtxoInv'
<1>1. /\ i # 0 /\ i' = 0 /\ height' = 0 /\ up
      /\ UNCHANGED <<chain, txutxo, refused, marker, s_address_id_btc, up, blind>>
  BY DEF Abandon, nodeVars, dbVars, UtxoInv, Down
<1>2. CASE UNCHANGED <<s_txid_address, vect_sql, made>>
  BY <1>1, <1>2, QuietStep DEF Rows
<1>3. CASE Classify(i) /\ vect_sql' = vect_sql \cup RowsOf(i)
  BY <1>1, <1>3, ClassifyStep DEF Rows
<1> QED
  BY <1>2, <1>3 DEF Abandon

LEMMA CommitOtherStep == ASSUME UtxoInv, TypeOK', CommitOther PROVE UtxoInv'
<1>1. /\ up /\ i = 0
      /\ UNCHANGED <<chain, marker, s_address_id_btc, s_txid_address, made, i, height, up, blind>>
  BY DEF CommitOther, nodeVars, passVars
<1>2. PICK lost \in SUBSET vect_sql : Commit(vect_sql, lost)
  BY CommitsFacts
<1>3. /\ Rows' \subseteq Rows /\ Rows \cup refused \subseteq Rows' \cup refused'
      /\ txutxo \cup refused \subseteq txutxo' \cup refused'
  BY <1>2, CommitFacts DEF Rows
<1> QED
  BY <1>1, <1>3, QuietStep

LEMMA QuietSteps ==
  ASSUME UtxoInv, TypeOK', CreateAddress \/ BeginPass \/ UNCHANGED vars
  PROVE  UtxoInv'
<1> USE DEF nodeVars, dbVars, memVars, passVars
<1>1. /\ UNCHANGED <<chain, txutxo, refused, marker, s_address_id_btc, s_txid_address, vect_sql, made, up, blind>>
      /\ (i' = i /\ height' = height) \/ (up /\ i' = marker + 1)
  BY DEF CreateAddress, BeginPass, vars
<1>2. ~up => vect_sql' = {} /\ i' = 0 /\ height' = 0
  BY <1>1 DEF UtxoInv, Down
<1> QED
  BY <1>1, <1>2, QuietStep DEF Rows

LEMMA UtxoInvHolds == Spec => []UtxoInv
<1>1. Init => UtxoInv
  <2> SUFFICES ASSUME Init PROVE UtxoInv
    OBVIOUS
  <2>1. Rows = {} /\ DOMAIN chain = {} /\ Len(chain) = 0
    BY DEF Init, Rows
  <2>2. TypeOK
    <3>1. <<>> \in Seq(TxType)
      OBVIOUS
    <3>2. chain \in Seq([ins : SUBSET (Nat \X Nat), outs : Seq(Own \cup Other \cup {NoAddress})])
      BY <3>1 DEF Init, TxType
    <3>3. marker \in 0..Len(chain) /\ height \in 0..Len(chain)
          /\ i \in (IF height = 0 THEN {0} ELSE marker + 1 .. height)
      BY <2>1 DEF Init
    <3> QED
      BY <3>2, <3>3, UtxoAssumption DEF Init, TypeOK
  <2> QED
    BY <2>1, <2>2
    DEF Init, UtxoInv, Ordered, Placed, Down, DepositsRemembered, SpendsRecorded, PassRecorded,
        MadeFits, PassJudged, OneFlag
<1>2. UtxoInv /\ [Next]_vars => UtxoInv'
  <2> SUFFICES ASSUME UtxoInv, [Next]_vars PROVE UtxoInv'
    OBVIOUS
  <2>1. TypeOK'
    BY UtxoTypeStep DEF UtxoInv
  <2> QED
    BY <2>1, MineStep, StartStep, CrashStep, ReadStep, ScanStep, AbandonStep, CommitOtherStep, QuietSteps
    DEF Next
<1> QED
  BY <1>1, <1>2, PTL DEF Spec

\* A transaction that spends from a recorded deposit is not booked as a deposit,
\* whatever the crashes, abandoned passes, refused rows, new addresses and other
\* coins' commits in between (syncer.cpp:351-390), unless init could not read txutxo.
THEOREM SpendsTold == Spec => SpendNotDeposit
<1> DEFINE P == ~blind => \A r \in Rows' \ Rows : r.flag = 0 =>
                  \A u \in DOMAIN chain : SpendsFrom(r.txid, u) => ~HasFlag(u, 0)
<1>1. ASSUME UtxoInv, [Next]_vars PROVE [P]_vars
  <2> USE <1>1
  <2>1. ASSUME i # 0, Rows' \subseteq Rows \cup RowsOf(i) PROVE P
    <3> SUFFICES ASSUME ~blind, NEW r \in Rows' \ Rows, r.flag = 0, NEW u \in DOMAIN chain,
                        SpendsFrom(r.txid, u), HasFlag(u, 0)
                 PROVE  FALSE
      OBVIOUS
    <3>1. r.txid = i /\ ~Vin(i)
      BY <2>1, RowsFacts
    <3>2. u \in s_txid_address
      BY <2>1 DEF UtxoInv, Down, DepositsRemembered, HasFlag
    <3> QED
      BY <3>1, <3>2, SpentFacts
  <2>2. Rows' \subseteq Rows => P
    OBVIOUS
  <2>3. CASE ScanBlock
    <3>1. i # 0
      BY <2>3 DEF ScanBlock
    <3>2. CASE CommitBlock
      <4>1. PICK lost \in SUBSET (vect_sql \cup RowsOf(i)) : Commit(vect_sql \cup RowsOf(i), lost)
        BY <3>2, CommitsFacts
      <4>2. Rows' \subseteq Rows \cup RowsOf(i)
        BY <4>1, CommitFacts DEF Rows
      <4> QED
        BY <2>1, <3>1, <4>2
    <3>3. CASE vect_sql' = vect_sql \cup RowsOf(i) /\ UNCHANGED <<dbVars, budgetVars>>
      BY <2>1, <3>1, <3>3 DEF Rows, dbVars
    <3> QED
      BY <2>3, <3>2, <3>3 DEF ScanBlock
  <2>4. CASE Abandon
    BY <2>1, <2>4 DEF Abandon, Rows, dbVars
  <2>5. CASE CommitOther
    <3>1. PICK lost \in SUBSET vect_sql : Commit(vect_sql, lost)
      BY <2>5, CommitsFacts
    <3>2. Rows' \subseteq Rows
      BY <3>1, CommitFacts DEF Rows
    <3> QED
      BY <2>2, <3>2
  <2>6. CASE Mine \/ CreateAddress \/ Start \/ ReadAddresses \/ BeginPass \/ Crash \/ UNCHANGED vars
    <3>1. Rows' \subseteq Rows
      BY <2>6 DEF Mine, CreateAddress, Start, ReadAddresses, BeginPass, Crash, vars, dbVars, memVars, Rows
    <3> QED
      BY <2>2, <3>1
  <2> QED
    BY <2>3, <2>4, <2>5, <2>6 DEF Next
<1> QED
  BY <1>1, UtxoInvHolds, PTL DEF Spec, SpendNotDeposit

\* At or below the scan point such a transaction has a row for each output to an
\* address, but for refused INSERTs (lines 404-420).
THEOREM SpendsComplete == Spec => []SpendsRecorded
<1>1. UtxoInv => SpendsRecorded
  BY DEF UtxoInv
<1> QED
  BY <1>1, UtxoInvHolds, PTL

\* A block that is scanned again under the same address map gets the flags it got
\* the first time; under a larger one an output may become an internal transfer.
THEOREM FlagsStable == Spec => []OneFlag
<1>1. UtxoInv => OneFlag
  BY DEF UtxoInv
<1> QED
  BY <1>1, UtxoInvHolds, PTL

\* While the process runs, s_txid_address holds every deposit that has a row,
\* unless init could not read txutxo.
THEOREM MapComplete == Spec => [](TypeOK /\ DepositsRemembered)
<1>1. UtxoInv => TypeOK /\ DepositsRemembered
  BY DEF UtxoInv
<1> QED
  BY <1>1, UtxoInvHolds, PTL

-------------------------------------------------------------------------------
(* TransferFlags.                                                          *)

FlagTypeOK ==
  /\ balance \in [Ledger -> Int] /\ booked \in [Ledger -> Int]
  /\ internal \in [Ledger -> Nat] /\ foreign \in [Ledger -> Nat]
  /\ phantom \in [Ledger -> Int] /\ unseen \in [Ledger -> Int]

FlagInv == FlagTypeOK /\ BalanceExplained

\* What may be added to the sum of the rows when a transfer is executed.
Entries(l, to, from, amount) ==
  IF IsBooked(l, to, from) THEN {Effect(flag, AmountOf(l, amount)) : flag \in FlagsFor(l, to, from)}
  ELSE {0}

LEMMA RowAmount ==
  ASSUME NEW amount \in Amount
  PROVE  /\ amount \in Nat \ {0}
         /\ \A l \in Ledger : AmountOf(l, amount) \in Nat
         /\ \A l : l # "ERC20" => AmountOf(l, amount) = amount
         /\ amount % Base = 0 /\ amount \div Base < Kept => AmountOf("ERC20", amount) * Base = amount
<1>1. amount \in Nat /\ amount # 0 /\ Base \in Nat /\ Base > 0 /\ Kept \in Nat /\ Kept > 0
  BY LedgerAssumption
<1>2. amount \div Base \in Nat
  BY <1>1
<1>3. (amount \div Base) % Kept \in Nat
  BY <1>1, <1>2
<1>4. (amount \div Base) < Kept => (amount \div Base) % Kept = amount \div Base
  BY <1>1, <1>2
<1>5. amount % Base = 0 => (amount \div Base) * Base = amount
  BY <1>1
<1> QED
  BY <1>1, <1>3, <1>4, <1>5 DEF AmountOf

\* What a transfer adds to the reported balance is its amount, moved or not.
LEMMA TransferDeltas ==
  ASSUME FlagTypeOK, NEW l \in Ledger, NEW src, NEW dst, NEW amount \in Amount, NEW moved \in Moved(l, amount),
         Transfer(l, src, dst, amount, moved),
         NEW to, NEW from, to = (dst \in Account[l]), from = (src \in Account[l])
  PROVE  /\ FlagTypeOK' \/ booked' \notin [Ledger -> Int]
         /\ \A m \in Ledger : Reported(m)' = IF m = l THEN Reported(m) + Signed(to, from, amount) ELSE Reported(m)
         /\ internal' = [internal EXCEPT ![l] = @ + (IF to /\ from THEN amount ELSE 0)]
         /\ foreign' = [foreign EXCEPT ![l] = @ + (IF to \/ from THEN 0 ELSE amount)]
         /\ \E e \in Entries(l, to, from, amount) : booked' = [booked EXCEPT ![l] = @ + e]
<1>1. amount \in Nat /\ moved \in Nat
  BY RowAmount DEF Moved
<1>2. /\ balance' = [balance EXCEPT ![l] = @ + Signed(to, from, moved)]
      /\ phantom' = [phantom EXCEPT ![l] = @ + Signed(to, from, amount - moved)]
      /\ internal' = [internal EXCEPT ![l] = @ + (IF to /\ from THEN amount ELSE 0)]
      /\ foreign' = [foreign EXCEPT ![l] = @ + (IF to \/ from THEN 0 ELSE amount)]
      /\ UNCHANGED unseen
  BY DEF Transfer
<1>3. /\ Signed(to, from, moved) \in Int /\ Signed(to, from, amount - moved) \in Int
      /\ Signed(to, from, moved) + Signed(to, from, amount - moved) = Signed(to, from, amount)
  BY <1>1 DEF Signed
<1>4. FlagTypeOK' \/ booked' \notin [Ledger -> Int]
  BY <1>1, <1>2, <1>3 DEF FlagTypeOK
<1>5. ASSUME NEW m \in Ledger
      PROVE  Reported(m)' = IF m = l THEN Reported(m) + Signed(to, from, amount) ELSE Reported(m)
  <2>1. balance[m] \in Int /\ phantom[m] \in Int /\ unseen[m] \in Int
    BY DEF FlagTypeOK
  <2>2. CASE m = l
    <3>1. /\ balance'[m] = balance[m] + Signed(to, from, moved) /\ unseen'[m] = unseen[m]
          /\ phantom'[m] = phantom[m] + Signed(to, from, amount - moved)
      BY <1>2, <2>2 DEF FlagTypeOK
    <3> QED
      BY <1>3, <2>1, <2>2, <3>1 DEF Reported
  <2>3. CASE m # l
    BY <1>2, <2>3 DEF FlagTypeOK, Reported
  <2> QED
    BY <2>2, <2>3
<1>6. CASE IsBooked(l, to, from)
  BY <1>2, <1>4, <1>5, <1>6 DEF Transfer, Entries
<1>7. CASE ~IsBooked(l, to, from)
  <2>1. booked' = [booked EXCEPT ![l] = @ + 0]
    BY <1>7 DEF Transfer, FlagTypeOK
  <2> QED
    BY <1>2, <1>4, <1>5, <1>7, <2>1 DEF Entries
<1> QED
  BY <1>6, <1>7

\* The entries, by ledger.
EntryFits(l, to, from, amount, e) ==
  LET both == (IF to THEN AmountOf(l, amount) ELSE 0) - (IF from THEN AmountOf(l, amount) ELSE 0) IN
  /\ e \in Int
  /\ l \in {"OMNI", "ERC20"} => e = both
  /\ l = "XRP" /\ ~(to /\ from) => e = both
  /\ l = "ETH" => e = IF to THEN amount ELSE IF from THEN -amount ELSE 0
  /\ l = "EOS" /\ (to \/ from) /\ ~(to /\ from) => e = IF to THEN amount ELSE -amount
  /\ l = "EOS" => e \in -amount..amount

LEMMA EntriesAre ==
  ASSUME NEW l \in Ledger, NEW to \in BOOLEAN, NEW from \in BOOLEAN, NEW amount \in Amount,
         NEW e \in Entries(l, to, from, amount)
  PROVE  EntryFits(l, to, from, amount, e)
<1>1. AmountOf(l, amount) \in Nat /\ amount \in Nat /\ (l # "ERC20" => AmountOf(l, amount) = amount)
  BY RowAmount
<1>2. l \in AllLedgers
  BY LedgerAssumption
<1>3. CASE l \in {"OMNI", "ERC20"}
  BY <1>1, <1>3 DEF EntryFits, Entries, IsBooked, FlagsFor, FlagOf, Effect, Deposit, Withdrawal, Internal
<1>4. CASE l = "XRP"
  BY <1>1, <1>4 DEF EntryFits, Entries, IsBooked, FlagsFor, FlagOfXRP, Effect, Deposit, Withdrawal, Internal
<1>5. CASE l = "ETH"
  BY <1>1, <1>5 DEF EntryFits, Entries, IsBooked, FlagsFor, FlagOfETH, Effect, Deposit, Withdrawal, Internal
<1>6. CASE l = "EOS"
  BY <1>1, <1>6 DEF EntryFits, Entries, IsBooked, FlagsFor, FlagsOfEOS, Effect, Deposit, Withdrawal, Internal
<1> QED
  BY <1>2, <1>3, <1>4, <1>5, <1>6 DEF AllLedgers

LEMMA FlagInitInv == FlagInit => FlagInv
BY LedgerAssumption DEF FlagInit, FlagInv, FlagTypeOK, BalanceExplained, OthersAsReported, Reported,
   ETHOffByInternal, EOSOffByForeign, ERC20OffByDigit, Nothing

LEMMA ReportedType == ASSUME FlagTypeOK PROVE \A l \in Ledger : Reported(l) \in Int
BY DEF FlagTypeOK, Reported

LEMMA SidedStepInv ==
  ASSUME FlagInv, NEW l \in Ledger, NEW src \in Account[l] \cup Stranger[l],
         NEW dst \in Account[l] \cup Stranger[l], NEW amount \in Amount, NEW moved \in Moved(l, amount),
         Transfer(l, src, dst, amount, moved),
         NEW to, NEW from, to = (dst \in Account[l]), from = (src \in Account[l])
  PROVE  FlagInv'
<1> DEFINE d == Signed(to, from, amount)
<1>a. /\ FlagTypeOK /\ amount \in Nat \ {0} /\ to \in BOOLEAN /\ from \in BOOLEAN
      /\ AmountOf(l, amount) \in Nat
  BY RowAmount DEF FlagInv
<1>c. l \in {"XRP", "EOS"} => ~(to /\ from)
  BY OneBaseAssumption DEF Transfer
<1>b. PICK e \in Entries(l, to, from, amount) :
        /\ FlagTypeOK' \/ booked' \notin [Ledger -> Int]
        /\ \A m \in Ledger : Reported(m)' = IF m = l THEN Reported(m) + d ELSE Reported(m)
        /\ internal' = [internal EXCEPT ![l] = @ + (IF to /\ from THEN amount ELSE 0)]
        /\ foreign' = [foreign EXCEPT ![l] = @ + (IF to \/ from THEN 0 ELSE amount)]
        /\ booked' = [booked EXCEPT ![l] = @ + e]
  <2>1. /\ FlagTypeOK' \/ booked' \notin [Ledger -> Int]
        /\ \A m \in Ledger : Reported(m)' = IF m = l THEN Reported(m) + Signed(to, from, amount) ELSE Reported(m)
        /\ internal' = [internal EXCEPT ![l] = @ + (IF to /\ from THEN amount ELSE 0)]
        /\ foreign' = [foreign EXCEPT ![l] = @ + (IF to \/ from THEN 0 ELSE amount)]
        /\ \E e \in Entries(l, to, from, amount) : booked' = [booked EXCEPT ![l] = @ + e]
    BY <1>a, TransferDeltas
  <2> QED
    BY <2>1
<1>d. EntryFits(l, to, from, amount, e)
  BY <1>a, <1>b, EntriesAre, Zenon
<1>e. d = (IF to THEN amount ELSE 0) - (IF from THEN amount ELSE 0)
  BY DEF Signed
<1> HIDE DEF d
<1>f. d \in Int /\ e \in Int /\ \A m \in Ledger : Reported(m) \in Int /\ booked[m] \in Int
  BY <1>a, <1>d, <1>e, ReportedType DEF EntryFits, FlagTypeOK
<1>1. FlagTypeOK'
  BY <1>a, <1>b, <1>f DEF FlagTypeOK
<1>g. \A m \in Ledger : booked'[m] = IF m = l THEN booked[m] + e ELSE booked[m]
  BY <1>a, <1>b DEF FlagTypeOK
<1>2. OthersAsReported'
  <2> SUFFICES ASSUME NEW m \in Ledger \cap {"OMNI", "XRP"} PROVE booked'[m] = Reported(m)'
    BY DEF OthersAsReported
  <2>1. booked[m] = Reported(m)
    BY DEF FlagInv, BalanceExplained, OthersAsReported
  <2>2. l \in {"OMNI", "XRP"} => e = d
    BY <1>a, <1>c, <1>d, <1>e, RowAmount DEF EntryFits
  <2> QED
    BY <1>b, <1>g, <2>1, <2>2
<1>3. ETHOffByInternal'
  <2> SUFFICES ASSUME "ETH" \in Ledger
               PROVE  booked'["ETH"] = Reported("ETH")' + internal'["ETH"]
    BY DEF ETHOffByInternal
  <2>1. booked["ETH"] = Reported("ETH") + internal["ETH"]
    BY DEF FlagInv, BalanceExplained, ETHOffByInternal
  <2>2. internal'["ETH"] = IF l = "ETH" /\ to /\ from THEN internal["ETH"] + amount ELSE internal["ETH"]
    BY <1>a, <1>b DEF FlagTypeOK
  <2>3. l = "ETH" => e = d + (IF to /\ from THEN amount ELSE 0)
    BY <1>a, <1>d, <1>e DEF EntryFits
  <2>4. internal["ETH"] \in Int
    BY <1>a DEF FlagTypeOK
  <2>5. Reported("ETH")' = IF l = "ETH" THEN Reported("ETH") + d ELSE Reported("ETH")
    BY <1>b
  <2>6. booked'["ETH"] = IF l = "ETH" THEN booked["ETH"] + e ELSE booked["ETH"]
    BY <1>g
  <2> QED
    BY <1>a, <1>f, <2>1, <2>2, <2>3, <2>4, <2>5, <2>6
<1>4. EOSOffByForeign'
  <2> SUFFICES ASSUME "EOS" \in Ledger
               PROVE  booked'["EOS"] - Reported("EOS")' \in -foreign'["EOS"]..foreign'["EOS"]
    BY DEF EOSOffByForeign
  <2>1. booked["EOS"] - Reported("EOS") \in -foreign["EOS"]..foreign["EOS"] /\ foreign["EOS"] \in Nat
    BY <1>a DEF FlagInv, BalanceExplained, EOSOffByForeign, FlagTypeOK
  <2>2. foreign'["EOS"] = IF l = "EOS" /\ ~(to \/ from) THEN foreign["EOS"] + amount ELSE foreign["EOS"]
    BY <1>a, <1>b DEF FlagTypeOK
  <2>3. Reported("EOS")' = IF l = "EOS" THEN Reported("EOS") + d ELSE Reported("EOS")
    BY <1>b
  <2>4. booked'["EOS"] = IF l = "EOS" THEN booked["EOS"] + e ELSE booked["EOS"]
    BY <1>g
  <2>5. l = "EOS" /\ (to \/ from) => e = d
    BY <1>a, <1>c, <1>d, <1>e DEF EntryFits
  <2>6. l = "EOS" /\ ~(to \/ from) => d = 0 /\ e \in -amount..amount
    BY <1>a, <1>d, <1>e DEF EntryFits
  <2> QED
    BY <1>a, <1>f, <2>1, <2>2, <2>3, <2>4, <2>5, <2>6
<1>5. ERC20OffByDigit'
  <2> SUFFICES ASSUME "ERC20" \in Ledger, \A a \in Amount : a % Base = 0 /\ a \div Base < Kept
               PROVE  booked'["ERC20"] * Base = Reported("ERC20")'
    BY DEF ERC20OffByDigit
  <2>1. booked["ERC20"] * Base = Reported("ERC20") /\ Base \in Nat
    BY LedgerAssumption DEF FlagInv, BalanceExplained, ERC20OffByDigit
  <2>2. CASE l # "ERC20"
    BY <1>b, <1>g, <2>1, <2>2
  <2>3. CASE l = "ERC20"
    <3>1. AmountOf(l, amount) * Base = amount
      BY <2>3, RowAmount
    <3>2. e * Base = d
      BY <1>a, <1>d, <1>e, <2>1, <2>3, <3>1 DEF EntryFits
    <3>3. (booked[l] + e) * Base = booked[l] * Base + e * Base
      BY <1>f, <2>1
    <3> QED
      BY <1>b, <1>g, <2>1, <2>3, <3>2, <3>3
  <2> QED
    BY <2>2, <2>3
<1> QED
  BY <1>1, <1>2, <1>3, <1>4, <1>5 DEF FlagInv, BalanceExplained

LEMMA FlagStepInv ==
  ASSUME FlagInv, NEW l \in Ledger, NEW src \in Account[l] \cup Stranger[l],
         NEW dst \in Account[l] \cup Stranger[l], NEW amount \in Amount, NEW moved \in Moved(l, amount),
         Transfer(l, src, dst, amount, moved)
  PROVE  FlagInv'
BY SidedStepInv, Zenon

LEMMA UnseenInv ==
  ASSUME FlagInv, NEW l \in Ledger, NEW change \in Int, Unseen(l, change)
  PROVE  FlagInv'
<1>1. /\ balance' = [balance EXCEPT ![l] = @ + change] /\ unseen' = [unseen EXCEPT ![l] = @ + change]
      /\ UNCHANGED <<booked, internal, foreign, phantom>> /\ FlagTypeOK
  BY DEF Unseen, FlagInv
<1>2. FlagTypeOK'
  BY <1>1 DEF FlagTypeOK
<1>3. \A m \in Ledger : Reported(m)' = Reported(m)
  BY <1>1 DEF FlagTypeOK, Reported
<1> QED
  BY <1>1, <1>2, <1>3 DEF FlagInv, BalanceExplained, OthersAsReported, ETHOffByInternal, EOSOffByForeign,
     ERC20OffByDigit

LEMMA FlagInvHolds == FlagSpec => []FlagInv
<1>1. ASSUME FlagInv, [FlagNext]_flagVars PROVE FlagInv'
  <2>1. ASSUME NEW l \in Ledger, TransferOn(l) PROVE FlagInv'
    BY <1>1, <2>1, FlagStepInv DEF TransferOn
  <2>2. ASSUME NEW l \in Ledger, UnseenOn(l) PROVE FlagInv'
    <3>1. PICK amount \in Amount : Unseen(l, amount) \/ Unseen(l, -amount)
      BY <2>2 DEF UnseenOn
    <3>2. amount \in Int /\ -amount \in Int
      BY RowAmount
    <3> QED
      BY <1>1, <3>1, <3>2, UnseenInv
  <2>3. CASE UNCHANGED flagVars
    BY <1>1, <2>3 DEF flagVars, FlagInv, FlagTypeOK, BalanceExplained, OthersAsReported, Reported,
       ETHOffByInternal, EOSOffByForeign, ERC20OffByDigit
  <2> QED
    BY <1>1, <2>1, <2>2, <2>3 DEF FlagNext
<1> QED
  BY <1>1, FlagInitInv, PTL DEF FlagSpec

\* Adding up the rows of txutxo gives the wallet's balance, off by the totals that
\* BalanceExplained names, whatever the amounts, the accounts, the number of
\* transfers, and whether they succeeded and moved the right token (syncer.cpp:561-613, 744-771, 891-929, 1016-1043).
THEOREM RowsExplainBalance == FlagSpec => []BalanceExplained
<1>1. FlagInv => BalanceExplained
  BY DEF FlagInv
<1> QED
  BY <1>1, FlagInvHolds, PTL
===============================================================================
