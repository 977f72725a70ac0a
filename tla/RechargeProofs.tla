----------------------------- MODULE RechargeProofs -----------------------------
(***************************************************************************)
(* Proofs about RechargeAddress, for any number of workers.                *)
(* NoSharedAccount, AddressStable and StockedMeansFree are violated (run   *)
(* RechargeShared and the configurations RechargeUnstable and              *)
(* RechargeStarves); what is proved is that they are violated only for     *)
(* coins for which workers raced and requests that were doubted.           *)
(***************************************************************************)
EXTENDS RechargeAddress, FiniteSetTheorems, WellFoundedInduction, TLAPS

LEMMA LeastOf ==
  ASSUME NEW T, T \subseteq Nat, T # {}
  PROVE  Min(T) \in T /\ \A t \in T : Min(T) <= t
<1>1. PICK t \in T : \A u \in T : ~ (<<u, t>> \in OpToRel(<, Nat))
  BY NatLessThanWellFounded, WFMin
<1>2. ASSUME NEW u \in T PROVE t <= u
  <2>1. <<u, t>> \in Nat \X Nat /\ <<u, t>>[1] = u /\ <<u, t>>[2] = t
    OBVIOUS
  <2>2. <<u, t>> \notin OpToRel(<, Nat)
    BY <1>1
  <2>3. ~ (u < t)
    BY <2>1, <2>2 DEF OpToRel
  <2> QED
    BY <2>3
<1> QED
  BY <1>2 DEF Min

LEMMA GreatestOf ==
  ASSUME NEW T, T \subseteq Nat, T # {}, NEW b \in Nat, \A t \in T : t <= b
  PROVE  Max(T) \in T /\ \A t \in T : t <= Max(T)
<1> DEFINE U == {n \in Nat : \A t \in T : t <= n}
<1>1. U \subseteq Nat /\ U # {}
  OBVIOUS
<1>2. PICK m \in U : \A n \in U : m <= n
  <2> HIDE DEF U
  <2> QED
    BY <1>1, LeastOf
<1>3. m \in Nat /\ \A t \in T : t \in Nat /\ t <= m
  BY <1>2
<1>4. m \in T
  <2> SUFFICES ASSUME m \notin T PROVE FALSE
    OBVIOUS
  <2>1. \A t \in T : t <= m - 1 /\ m - 1 \in Nat
    BY <1>3
  <2>2. m - 1 \in U
    BY <2>1
  <2>3. m <= m - 1
    BY <1>2, <2>2
  <2> QED
    BY <1>3, <2>3
<1> QED
  BY <1>3, <1>4 DEF Max

-------------------------------------------------------------------------------
(* Any number of workers.                                                  *)

\* Account ids are bounded: the tables are finite.
Bounded == \A c \in Coin : \E b \in Nat : account[c] \subseteq 0..b
Stocked == \A c \in Coin : 0 \in account[c]

RowSet(t, c, u) == {t[c][u][k] : k \in DOMAIN t[c][u]}
RowsExist == \A c \in Coin : \A u \in User : RowSet(user, c, u) \subseteq account[c]

CacheRecorded ==
  \A k \in DOMAIN s_usercoin_accountinfo :
    \A r \in Request : k = EncodeUser(r) => s_usercoin_accountinfo[k] \in RowSet(user, r.coin, r.user)
CacheType == \A k \in DOMAIN s_usercoin_accountinfo : s_usercoin_accountinfo[k] \in Nat

HistoryType == raced \subseteq Coin /\ doubted \subseteq Request /\ faults \in Nat

\* TypeOK with functions named as such.
Functional ==
  request \in [Worker -> [user : User \cup {0}, coin : Coin \cup {0}]] /\ picked \in [Worker -> Nat]

TableInv ==
  /\ TypeOK /\ Functional /\ Bounded /\ Stocked /\ RowsExist /\ CacheRecorded /\ AnswersRecorded

LEMMA EncodeInjective ==
  ASSUME NEW r \in Request, NEW q \in Request, EncodeUser(r) = EncodeUser(q)
  PROVE  r = q
<1>1. /\ r = [user |-> r.user, coin |-> r.coin] /\ q = [user |-> q.user, coin |-> q.coin]
      /\ r.user \in Nat /\ q.user \in Nat /\ r.coin \in 1..9 /\ q.coin \in 1..9
  BY AddressAssumption DEF Request
<1>2. r.user * 10 + r.coin = q.user * 10 + q.coin
  BY DEF EncodeUser
<1>3. r.user = q.user /\ r.coin = q.coin
  BY <1>1, <1>2, SMTT(30)
<1> QED
  BY <1>1, <1>3

LEMMA ZeroIsNoUser == 0 \notin User /\ 0 \notin Coin
BY AddressAssumption

LEMMA RequestType == \A r \in Request : r.user \in User /\ r.coin \in Coin
BY DEF Request

LEMMA AccountsFinite ==
  ASSUME TypeOK, Bounded, NEW c \in Coin
  PROVE  IsFiniteSet(account[c]) /\ account[c] \subseteq Nat /\ \E b \in Nat : \A a \in account[c] : a <= b
<1>1. PICK b \in Nat : account[c] \subseteq 0..b
  BY DEF Bounded
<1>2. IsFiniteSet(0..b)
  BY FS_Interval
<1> QED
  BY <1>1, <1>2, FS_Subset

LEMMA TableInit == Init => TableInv
<1> SUFFICES ASSUME Init PROVE TableInv
  OBVIOUS
<1>1. \A c \in Coin : \A u \in User : user[c][u] = <<>> /\ given[c][u] = {}
  BY DEF Init
<1>2. \A c \in Coin : \A u \in User : RowSet(user, c, u) = {}
  BY <1>1 DEF RowSet
<1>3. TypeOK
  <2>1. account \in [Coin -> SUBSET Nat] /\ given \in [Coin -> [User -> SUBSET Nat]]
    BY DEF Init
  <2>2. user \in [Coin -> [User -> Seq(Nat)]]
    BY DEF Init
  <2>3. /\ pc \in [Worker -> {"idle", "coin", "own", "pick", "insert"}]
        /\ \A w \in Worker : pc[w] = "idle"
    BY DEF Init
  <2>4. /\ open \in BOOLEAN /\ pool \in Coin \cup {0} /\ maxId \in Nat /\ HistoryType
    BY DEF Init, HistoryType
  <2>5. \A k \in DOMAIN s_usercoin_accountinfo : s_usercoin_accountinfo[k] \in Nat
    <3>1. s_usercoin_accountinfo = <<>> /\ DOMAIN <<>> = {}
      BY DEF Init
    <3> QED
      BY <3>1
  <2> QED
    BY <2>1, <2>2, <2>3, <2>4, <2>5 DEF TypeOK, HistoryType
<1>7. Functional
  BY DEF Init, Functional
<1>4. Bounded /\ Stocked
  <2>1. \A c \in Coin : account[c] = {0}
    BY DEF Init
  <2>2. {0} \subseteq 0..0 /\ 0 \in Nat
    OBVIOUS
  <2> QED
    BY <2>1, <2>2 DEF Bounded, Stocked
<1>5. CacheRecorded
  BY DEF Init, CacheRecorded
<1>6. RowsExist /\ AnswersRecorded
  BY <1>1, <1>2 DEF RowsExist, AnswersRecorded
<1> QED
  BY <1>3, <1>4, <1>5, <1>6, <1>7 DEF TableInv

\* A worker is done, and the tables are as they were.
LEMMA DoneTypes ==
  ASSUME TypeOK, Functional, NEW w \in Worker, Done(w)
  PROVE  /\ open' \in BOOLEAN /\ pc' \in [Worker -> {"idle", "coin", "own", "pick", "insert"}]
         /\ Functional'
         /\ \A v \in Worker : pc'[v] # "idle" =>
              pc[v] = pc'[v] /\ request'[v] = request[v] /\ picked'[v] = picked[v]
BY DEF Done, Goto, TypeOK, Functional

\* Table user is well-formed in the next state and has lost no row.
UserGrows ==
  /\ user' \in [Coin -> [User -> Seq(Nat)]]
  /\ \A c \in Coin : \A u \in User : RowSet(user, c, u) \subseteq RowSet(user', c, u)

LEMMA UserKept ==
  ASSUME TableInv, UNCHANGED <<account, user>>
  PROVE  UserGrows /\ RowsExist' /\ \A c \in Coin : \A u \in User : RowSet(user', c, u) = RowSet(user, c, u)
BY DEF TableInv, TypeOK, UserGrows, RowsExist, RowSet

\* Faults are counted, whether one occurs or not.
LEMMA FaultType ==
  ASSUME TableInv, Fault \/ UNCHANGED faults
  PROVE  faults' \in Nat
BY DEF Fault, TableInv, TypeOK

LEMMA ThrowInv ==
  ASSUME TableInv, NEW w \in Worker, Throw(w), UNCHANGED <<account, poolVars>>, HistoryType',
         UserGrows, RowsExist'
  PROVE  TableInv'
<1>1. /\ open' \in BOOLEAN /\ pc' \in [Worker -> {"idle", "coin", "own", "pick", "insert"}] /\ Functional'
      /\ \A v \in Worker : pc'[v] # "idle" =>
           pc[v] = pc'[v] /\ request'[v] = request[v] /\ picked'[v] = picked[v]
  BY DoneTypes DEF Throw, TableInv
<1>2. UNCHANGED <<account, pool, maxId, given, s_usercoin_accountinfo>>
  BY DEF Throw, poolVars
<1>3. TypeOK'
  BY <1>1, <1>2 DEF TableInv, TypeOK, HistoryType, UserGrows
<1>4. (Bounded /\ Stocked)'
  BY <1>2 DEF TableInv, Bounded, Stocked
<1>5. CacheRecorded'
  BY <1>2, RequestType DEF TableInv, CacheRecorded, UserGrows
<1>6. AnswersRecorded'
  BY <1>2 DEF TableInv, AnswersRecorded, UserGrows, RowSet
<1> QED
  BY <1>1, <1>3, <1>4, <1>5, <1>6 DEF TableInv

\* An answer is recorded in the state after it.
LEMMA AnswerInv ==
  ASSUME TableInv, NEW w \in Worker, NEW a, Answer(w, a), pc[w] # "idle",
         UNCHANGED <<account, poolVars>>, HistoryType', UserGrows, RowsExist',
         a \in RowSet(user', request[w].coin, request[w].user)
  PROVE  TableInv'
<1> DEFINE r == request[w]
           k0 == EncodeUser(r)
<1>1. /\ open' \in BOOLEAN /\ pc' \in [Worker -> {"idle", "coin", "own", "pick", "insert"}] /\ Functional'
      /\ \A v \in Worker : pc'[v] # "idle" =>
           pc[v] = pc'[v] /\ request'[v] = request[v] /\ picked'[v] = picked[v]
  BY DoneTypes DEF Answer, TableInv
<1>2. r \in Request /\ r.user \in User /\ r.coin \in Coin
  BY RequestType DEF TableInv, TypeOK
<1>3. UNCHANGED <<account, pool, maxId>>
  BY DEF poolVars
<1>4. a \in account[r.coin] /\ a \in Nat
  BY <1>2, <1>3 DEF RowsExist, TableInv, TypeOK
<1>5. /\ given' = [given EXCEPT ![r.coin][r.user] = @ \cup {a}]
      /\ DOMAIN s_usercoin_accountinfo' = DOMAIN s_usercoin_accountinfo \cup {k0}
      /\ s_usercoin_accountinfo'[k0] = a
      /\ \A k \in DOMAIN s_usercoin_accountinfo : k # k0 =>
           s_usercoin_accountinfo'[k] = s_usercoin_accountinfo[k]
  BY DEF Answer
<1>6. given' \in [Coin -> [User -> SUBSET Nat]]
  BY <1>2, <1>4, <1>5 DEF TableInv, TypeOK
<1>7. TypeOK'
  BY <1>1, <1>3, <1>4, <1>5, <1>6 DEF TableInv, TypeOK, HistoryType, UserGrows
<1>8. CacheRecorded'
  <2> SUFFICES ASSUME NEW k \in DOMAIN s_usercoin_accountinfo', NEW q \in Request, k = EncodeUser(q)
               PROVE  s_usercoin_accountinfo'[k] \in RowSet(user', q.coin, q.user)
    BY DEF CacheRecorded
  <2>1. CASE k = k0
    BY <1>2, <1>5, <2>1, EncodeInjective
  <2>2. CASE k # k0
    <3>1. k \in DOMAIN s_usercoin_accountinfo /\ s_usercoin_accountinfo'[k] = s_usercoin_accountinfo[k]
      BY <1>5, <2>2
    <3>2. s_usercoin_accountinfo[k] \in RowSet(user, q.coin, q.user)
      BY <3>1 DEF TableInv, CacheRecorded
    <3> QED
      BY <3>1, <3>2, RequestType DEF UserGrows
  <2> QED
    BY <2>1, <2>2
<1>9. AnswersRecorded'
  <2> SUFFICES ASSUME NEW c \in Coin, NEW u \in User
               PROVE  given'[c][u] \subseteq account'[c] \cap RowSet(user', c, u)
    BY DEF AnswersRecorded, RowSet
  <2>1. given[c][u] \subseteq account[c] \cap RowSet(user, c, u)
    BY DEF TableInv, AnswersRecorded, RowSet
  <2>2. given'[c][u] = IF c = r.coin /\ u = r.user THEN given[c][u] \cup {a} ELSE given[c][u]
    BY <1>2, <1>5 DEF TableInv, TypeOK
  <2>3. RowSet(user, c, u) \subseteq RowSet(user', c, u)
    BY DEF UserGrows
  <2> QED
    BY <1>3, <1>4, <2>1, <2>2, <2>3
<1>10. (Bounded /\ Stocked)'
  BY <1>3 DEF TableInv, Bounded, Stocked
<1> QED
  BY <1>1, <1>7, <1>8, <1>9, <1>10 DEF TableInv

\* A worker goes on to its next statement.
LEMMA GotoInv ==
  ASSUME TableInv, NEW w \in Worker, NEW l \in {"coin", "own", "pick"}, Goto(w, l), pc[w] # "idle",
         UNCHANGED <<account, user, s_usercoin_accountinfo, request, picked, poolVars, given>>,
         HistoryType', open' \in BOOLEAN
  PROVE  TableInv'
<1>1. pc' = [pc EXCEPT ![w] = l]
  BY DEF Goto
<1>2. TypeOK'
  BY <1>1 DEF TableInv, TypeOK, HistoryType, poolVars
<1>3. (Functional /\ Bounded /\ Stocked /\ RowsExist /\ CacheRecorded /\ AnswersRecorded)'
  BY DEF TableInv, Functional, Bounded, Stocked, RowsExist, CacheRecorded, AnswersRecorded, RowSet, poolVars
<1> QED
  BY <1>2, <1>3 DEF TableInv

LEMMA BeginInv ==
  ASSUME TableInv, NEW w \in Worker, NEW r \in Request, Begin(w, r)
  PROVE  TableInv'
<1>1. /\ pc' = [pc EXCEPT ![w] = "coin"] /\ request' = [request EXCEPT ![w] = r] /\ open' = TRUE
      /\ UNCHANGED <<account, user, s_usercoin_accountinfo, picked, pool, maxId, given, raced, doubted, faults>>
  BY DEF Begin, Goto, poolVars, historyVars
<1>2. TypeOK'
  BY <1>1 DEF TableInv, TypeOK, Functional
<1>3. Functional'
  BY <1>1 DEF TableInv, Functional, Request
<1>4. (Bounded /\ Stocked /\ RowsExist /\ CacheRecorded /\ AnswersRecorded)'
  BY <1>1 DEF TableInv, Bounded, Stocked, RowsExist, CacheRecorded, AnswersRecorded, RowSet
<1> QED
  BY <1>2, <1>3, <1>4 DEF TableInv

LEMMA LookUpInv ==
  ASSUME TableInv, NEW w \in Worker, LookUp(w)
  PROVE  TableInv'
<1> DEFINE k == EncodeUser(request[w])
<1>1. UNCHANGED <<account, user, poolVars, raced, doubted>> /\ (Fault \/ UNCHANGED faults)
  BY DEF LookUp
<1>2. /\ UserGrows /\ RowsExist'
      /\ \A c \in Coin : \A u \in User : RowSet(user', c, u) = RowSet(user, c, u)
  BY <1>1, UserKept
<1>3. HistoryType'
  BY <1>1, FaultType DEF TableInv, TypeOK, HistoryType
<1>4. CASE Throw(w)
  BY <1>1, <1>2, <1>3, <1>4, ThrowInv
<1>5. CASE k \in DOMAIN s_usercoin_accountinfo /\ Answer(w, s_usercoin_accountinfo[k])
  <2>1. pc[w] # "idle" /\ request[w] \in Request
    BY DEF LookUp, TableInv, TypeOK
  <2>2. s_usercoin_accountinfo[k] \in RowSet(user, request[w].coin, request[w].user)
    BY <1>5, <2>1 DEF TableInv, CacheRecorded
  <2>3. s_usercoin_accountinfo[k] \in RowSet(user', request[w].coin, request[w].user)
    BY <1>2, <2>1, <2>2, RequestType
  <2> QED
    BY <1>1, <1>2, <1>3, <1>5, <2>1, <2>3, AnswerInv
<1>6. CASE Goto(w, "own") /\ UNCHANGED <<open, request, picked, given, s_usercoin_accountinfo>>
  BY <1>1, <1>3, <1>6, GotoInv DEF LookUp, TableInv, TypeOK
<1> QED
  BY <1>4, <1>5, <1>6 DEF LookUp

LEMMA SelectOwnInv ==
  ASSUME TableInv, NEW w \in Worker, SelectOwn(w)
  PROVE  TableInv'
<1> DEFINE rows == user[request[w].coin][request[w].user]
<1>0. pc[w] = "own" /\ request[w] \in Request /\ request[w].coin \in Coin /\ request[w].user \in User
  BY RequestType DEF SelectOwn, TableInv, TypeOK
<1>1. UNCHANGED <<account, user, poolVars, raced>> /\ (Fault \/ UNCHANGED faults)
  BY DEF SelectOwn
<1>2. /\ UserGrows /\ RowsExist'
      /\ \A c \in Coin : \A u \in User : RowSet(user', c, u) = RowSet(user, c, u)
  BY <1>1, UserKept
<1>3. doubted' \in {doubted, doubted \cup {request[w]}}
  BY DEF SelectOwn
<1>4. HistoryType'
  BY <1>0, <1>1, <1>3, FaultType DEF TableInv, TypeOK, HistoryType
<1>5. CASE Len(rows) = 1 /\ Answer(w, rows[1])
  <2>1. rows \in Seq(Nat) /\ 1 \in DOMAIN rows
    BY <1>0, <1>5 DEF TableInv, TypeOK
  <2>2. rows[1] \in RowSet(user', request[w].coin, request[w].user)
    BY <1>0, <1>2, <2>1 DEF RowSet
  <2> QED
    BY <1>0, <1>1, <1>2, <1>4, <1>5, <2>2, AnswerInv
<1>6. CASE Goto(w, "pick") /\ UNCHANGED <<open, request, picked, given, s_usercoin_accountinfo>>
  BY <1>0, <1>1, <1>4, <1>6, GotoInv DEF TableInv, TypeOK
<1> QED
  BY <1>5, <1>6 DEF SelectOwn

LEMMA PickInv ==
  ASSUME TableInv, NEW w \in Worker, Pick(w)
  PROVE  TableInv'
<1> DEFINE F == Free(request[w].coin)
<1>0. pc[w] = "pick" /\ request[w] \in Request /\ request[w].coin \in Coin
  BY RequestType DEF Pick, TableInv, TypeOK
<1>1. UNCHANGED <<account, user, pool, maxId, doubted>> /\ (Fault \/ UNCHANGED faults)
  BY DEF Pick, poolVars
<1>2. HistoryType'
  <2>1. raced' \in {raced, raced \cup {request[w].coin}}
    BY DEF Pick
  <2> QED
    BY <1>0, <1>1, <2>1, FaultType DEF TableInv, TypeOK, HistoryType
<1>3. CASE Throw(w)
  BY <1>1, <1>2, <1>3, UserKept, ThrowInv DEF Pick
<1>4. CASE F # {} /\ Goto(w, "insert") /\ picked' = [picked EXCEPT ![w] = Min(F)]
           /\ UNCHANGED <<open, request, given, s_usercoin_accountinfo>>
  <2>1. F \subseteq account[request[w].coin] /\ account[request[w].coin] \subseteq Nat
    BY <1>0 DEF Free, TableInv, TypeOK
  <2>2. Min(F) \in account[request[w].coin] /\ Min(F) \in Nat
    BY <1>4, <2>1, LeastOf
  <2> HIDE DEF F
  <2>3. pc' = [pc EXCEPT ![w] = "insert"]
    BY <1>4 DEF Goto
  <2>4. TypeOK'
    BY <1>0, <1>1, <1>2, <1>4, <2>2, <2>3 DEF TableInv, TypeOK, HistoryType, Functional
  <2>5. Functional'
    BY <1>4, <2>2, <2>3 DEF TableInv, Functional
  <2>6. (Bounded /\ Stocked /\ RowsExist /\ CacheRecorded /\ AnswersRecorded)'
    BY <1>1, <1>4 DEF TableInv, Bounded, Stocked, RowsExist, CacheRecorded, AnswersRecorded, RowSet
  <2> QED
    BY <2>4, <2>5, <2>6 DEF TableInv
<1> QED
  BY <1>3, <1>4 DEF Pick

\* A row is added to table user.
RowAppended(c0, u0, a) ==
  /\ user' \in [Coin -> [User -> Seq(Nat)]]
  /\ \A c \in Coin : \A u \in User :
       user'[c][u] = IF c = c0 /\ u = u0 THEN Append(user[c][u], a) ELSE user[c][u]
  /\ \A c \in Coin : \A u \in User :
       RowSet(user', c, u) = IF c = c0 /\ u = u0 THEN RowSet(user, c, u) \cup {a} ELSE RowSet(user, c, u)

LEMMA RowAdded ==
  ASSUME user \in [Coin -> [User -> Seq(Nat)]], NEW c0 \in Coin, NEW u0 \in User, NEW a \in Nat,
         user' = [user EXCEPT ![c0][u0] = Append(@, a)]
  PROVE  RowAppended(c0, u0, a)
<1>1. Append(user[c0][u0], a) \in Seq(Nat)
  OBVIOUS
<1>2. user' \in [Coin -> [User -> Seq(Nat)]]
  BY <1>1
<1>3. \A c \in Coin : \A u \in User :
        user'[c][u] = IF c = c0 /\ u = u0 THEN Append(user[c][u], a) ELSE user[c][u]
  OBVIOUS
<1>4. ASSUME NEW c \in Coin, NEW u \in User
      PROVE  RowSet(user', c, u) = IF c = c0 /\ u = u0 THEN RowSet(user, c, u) \cup {a} ELSE RowSet(user, c, u)
  <2>1. CASE c = c0 /\ u = u0
    <3> DEFINE s == user[c][u]
    <3>1. s \in Seq(Nat) /\ user'[c][u] = Append(s, a)
      BY <1>3, <2>1
    <3> HIDE DEF s
    <3>2. {Append(s, a)[k] : k \in DOMAIN Append(s, a)} = {s[k] : k \in DOMAIN s} \cup {a}
      <4>1. /\ DOMAIN Append(s, a) = 1..Len(s) + 1 /\ DOMAIN s = 1..Len(s) /\ Len(s) \in Nat
            /\ Append(s, a)[Len(s) + 1] = a /\ \A k \in 1..Len(s) : Append(s, a)[k] = s[k]
        BY <3>1
      <4>2. \A k \in 1..Len(s) + 1 : k = Len(s) + 1 \/ k \in 1..Len(s)
        <5> DEFINE n == Len(s)
        <5>1. n \in Nat
          BY <4>1
        <5> HIDE DEF n
        <5>2. \A k \in 1..n + 1 : k = n + 1 \/ k \in 1..n
          BY <5>1
        <5> QED
          BY <5>2 DEF n
      <4>3. Len(s) + 1 \in DOMAIN Append(s, a) /\ \A k \in DOMAIN s : k \in DOMAIN Append(s, a)
        BY <4>1
      <4> QED
        BY <4>1, <4>2, <4>3
    <3> QED
      BY <2>1, <3>1, <3>2 DEF RowSet, s
  <2>2. CASE ~(c = c0 /\ u = u0)
    BY <1>3, <2>2 DEF RowSet
  <2> QED
    BY <2>1, <2>2
<1> QED
  BY <1>2, <1>3, <1>4 DEF RowAppended

\* What an INSERT of worker w does to table user, whatever it reports.
LEMMA InsertRow ==
  ASSUME TableInv, NEW w \in Worker, Insert(w)
  PROVE  /\ pc[w] = "insert" /\ request[w].coin \in Coin /\ request[w].user \in User
         /\ picked[w] \in account[request[w].coin] /\ picked[w] \in Nat
         /\ UNCHANGED user \/ RowAppended(request[w].coin, request[w].user, picked[w])
<1> DEFINE c0 == request[w].coin
           u0 == request[w].user
<1>1. /\ pc[w] = "insert" /\ c0 \in Coin /\ u0 \in User
      /\ picked[w] \in account[c0] /\ picked[w] \in Nat /\ user \in [Coin -> [User -> Seq(Nat)]]
  BY RequestType DEF Insert, TableInv, TypeOK
<1>2. UNCHANGED user \/ user' = [user EXCEPT ![c0][u0] = Append(@, picked[w])]
  BY DEF Insert, AddRow
<1> HIDE DEF c0, u0
<1>3. UNCHANGED user \/ RowAppended(c0, u0, picked[w])
  BY <1>1, <1>2, RowAdded
<1> QED
  BY <1>1, <1>3 DEF c0, u0

LEMMA InsertInv ==
  ASSUME TableInv, NEW w \in Worker, Insert(w)
  PROVE  TableInv'
<1> DEFINE c0 == request[w].coin
           u0 == request[w].user
<1>0. /\ pc[w] = "insert" /\ c0 \in Coin /\ u0 \in User
      /\ picked[w] \in account[c0] /\ picked[w] \in Nat
      /\ UNCHANGED user \/ RowAppended(c0, u0, picked[w])
  BY InsertRow
<1>1. UNCHANGED <<account, poolVars, raced, doubted>> /\ (Fault \/ UNCHANGED faults)
  BY DEF Insert
<1>2. HistoryType'
  BY <1>1, FaultType DEF TableInv, TypeOK, HistoryType
<1>3. UserGrows /\ RowsExist'
  <2>1. CASE UNCHANGED user
    BY <1>1, <2>1, UserKept
  <2>2. CASE RowAppended(c0, u0, picked[w])
    <3> HIDE DEF c0, u0
    <3>1. UserGrows
      BY <2>2 DEF RowAppended, UserGrows
    <3>2. RowsExist'
      BY <1>0, <1>1, <2>2 DEF RowAppended, TableInv, RowsExist
    <3> QED
      BY <3>1, <3>2
  <2> QED
    BY <1>0, <2>1, <2>2
<1>4. CASE Throw(w)
  BY <1>1, <1>2, <1>3, <1>4, ThrowInv
<1>5. CASE AddRow(request[w], picked[w]) /\ Answer(w, picked[w])
  <2>1. picked[w] \in RowSet(user', c0, u0)
    <3>1. user' = [user EXCEPT ![c0][u0] = Append(@, picked[w])] /\ user \in [Coin -> [User -> Seq(Nat)]]
      BY <1>5 DEF AddRow, TableInv, TypeOK
    <3> HIDE DEF c0, u0
    <3>2. RowAppended(c0, u0, picked[w])
      BY <1>0, <3>1, RowAdded
    <3> QED
      BY <1>0, <3>2 DEF RowAppended
  <2> QED
    BY <1>0, <1>1, <1>2, <1>3, <1>5, <2>1, AnswerInv
<1> QED
  BY <1>4, <1>5 DEF Insert

LEMMA CountStockInv ==
  ASSUME TableInv, NEW c \in Coin, CountStock(c)
  PROVE  TableInv' /\ (pool' # 0 => \A a \in account[pool'] : a <= maxId')
<1>1. PICK b \in Nat : account[c] \subseteq Nat /\ \A a \in account[c] : a <= b
  BY AccountsFinite DEF TableInv
<1>2. Max(account[c]) \in Nat /\ \A a \in account[c] : a <= Max(account[c])
  <2>1. account[c] # {}
    BY DEF TableInv, Stocked
  <2> QED
    BY <1>1, <2>1, GreatestOf
<1>3. UNCHANGED <<account, user, open, s_usercoin_accountinfo, pc, request, picked, given, raced, doubted, faults>>
  BY DEF CountStock, workerVars, historyVars
<1>4. pool = 0 /\ (UNCHANGED <<pool, maxId>> \/ (pool' = c /\ maxId' = Max(account[c])))
  BY DEF CountStock, poolVars
<1>5. TypeOK'
  BY <1>2, <1>3, <1>4 DEF TableInv, TypeOK
<1>6. (Functional /\ Bounded /\ Stocked /\ RowsExist /\ CacheRecorded /\ AnswersRecorded)'
  BY <1>3 DEF TableInv, Functional, Bounded, Stocked, RowsExist, CacheRecorded, AnswersRecorded, RowSet
<1> QED
  BY <1>2, <1>4, <1>5, <1>6 DEF TableInv

LEMMA AddAccountsInv ==
  ASSUME TableInv, AddAccounts
  PROVE  /\ TableInv'
         /\ pool' = 0 /\ pool \in Coin
         /\ \A c \in Coin : account[c] \subseteq account'[c] /\ (c # pool => account'[c] = account[c])
         /\ \A a \in account'[pool] \ account[pool] : a > maxId
<1>1. pool \in Coin /\ maxId \in Nat
  BY DEF AddAccounts, TableInv, TypeOK
<1>2. PICK ids \in SUBSET (maxId + 1 .. maxId + Quantity) :
        /\ faults' = faults + Quantity - Cardinality(ids)
        /\ account' = [account EXCEPT ![pool] = @ \cup ids]
  BY DEF AddAccounts
<1>3. /\ pool' = 0 /\ maxId' = 0
      /\ UNCHANGED <<user, open, s_usercoin_accountinfo, pc, request, picked, given, raced, doubted>>
  BY DEF AddAccounts, workerVars, historyVars
<1>4. Quantity \in Nat
  BY AddressAssumption
<1>5. IsFiniteSet(ids) /\ Cardinality(ids) \in Nat /\ Cardinality(ids) <= Quantity
  <2>1. IsFiniteSet(maxId + 1 .. maxId + Quantity) /\ Cardinality(maxId + 1 .. maxId + Quantity) = Quantity
    BY <1>1, <1>4, FS_Interval
  <2>2. IsFiniteSet(ids) /\ Cardinality(ids) <= Quantity
    BY <2>1, FS_Subset
  <2> QED
    BY <2>2, FS_CardinalityType
<1>6. \A x \in ids : x \in Nat /\ x > maxId /\ x <= maxId + Quantity
  BY <1>1, <1>4
<1>7. \A c \in Coin : account'[c] = IF c = pool THEN account[c] \cup ids ELSE account[c]
  BY <1>1, <1>2 DEF TableInv, TypeOK
<1>8. account' \in [Coin -> SUBSET Nat]
  BY <1>1, <1>2, <1>6 DEF TableInv, TypeOK
<1>9. \A c \in Coin : account[c] \subseteq account'[c]
  BY <1>7
<1>10. TypeOK'
  <2>1. faults' \in Nat
    BY <1>2, <1>4, <1>5 DEF TableInv, TypeOK
  <2>2. \A w \in Worker : pc'[w] = "insert" => picked'[w] \in account'[request'[w].coin]
    <3> SUFFICES ASSUME NEW w \in Worker, pc[w] = "insert" PROVE picked[w] \in account'[request[w].coin]
      BY <1>3
    <3>1. request[w].coin \in Coin /\ picked[w] \in account[request[w].coin]
      BY RequestType DEF TableInv, TypeOK
    <3> QED
      BY <1>9, <3>1
  <2> QED
    BY <1>3, <1>8, <2>1, <2>2 DEF TableInv, TypeOK
<1>11. Functional' /\ Stocked' /\ CacheRecorded'
  BY <1>3, <1>9 DEF TableInv, Functional, Stocked, CacheRecorded, RowSet
<1>12. RowsExist' /\ AnswersRecorded'
  <2>1. \A c \in Coin : \A u \in User : RowSet(user', c, u) = RowSet(user, c, u)
    BY <1>3 DEF RowSet
  <2>2. RowsExist'
    BY <1>9, <2>1 DEF TableInv, RowsExist
  <2>3. AnswersRecorded'
    BY <1>3, <1>9 DEF TableInv, AnswersRecorded
  <2> QED
    BY <2>2, <2>3
<1>13. Bounded'
  <2> SUFFICES ASSUME NEW c \in Coin PROVE \E b \in Nat : account'[c] \subseteq 0..b
    BY DEF Bounded
  <2>1. PICK b \in Nat : account[c] \subseteq 0..b
    BY DEF TableInv, Bounded
  <2>2. b + maxId + Quantity \in Nat
    BY <1>1, <1>4
  <2>3. account'[c] \subseteq 0..(b + maxId + Quantity)
    <3> SUFFICES ASSUME NEW a \in account'[c] PROVE a \in 0..(b + maxId + Quantity)
      OBVIOUS
    <3>2. a \in account[c] \/ a \in ids
      BY <1>7
    <3>3. ASSUME a \in account[c] PROVE a \in Nat /\ a <= b
      BY <2>1, <3>3
    <3>1. (a \in Nat /\ a <= b) \/ (a \in Nat /\ a <= maxId + Quantity)
      BY <1>6, <3>2, <3>3
    <3> QED
      BY <1>1, <1>4, <3>1
  <2> QED
    BY <2>2, <2>3
<1> QED
  BY <1>1, <1>3, <1>6, <1>7, <1>9, <1>10, <1>11, <1>12, <1>13 DEF TableInv

LEMMA RestartInv ==
  ASSUME TableInv, Restart
  PROVE  TableInv'
<1>1. UNCHANGED <<account, user, given, raced, doubted>>
  BY DEF Restart, historyVars
<1>2. TypeOK'
  <2>1. /\ pc' \in [Worker -> {"idle", "coin", "own", "pick", "insert"}]
        /\ \A w \in Worker : pc'[w] = "idle"
    BY DEF Restart
  <2>2. /\ open' \in BOOLEAN /\ pool' = 0 /\ maxId' = 0
    BY DEF Restart
  <2>4. \A k \in DOMAIN s_usercoin_accountinfo' : s_usercoin_accountinfo'[k] \in Nat
    <3>1. s_usercoin_accountinfo' = <<>> /\ DOMAIN <<>> = {}
      BY DEF Restart
    <3> QED
      BY <3>1
  <2>3. faults' \in Nat
    BY FaultType DEF Restart
  <2> QED
    BY <1>1, <2>1, <2>2, <2>3, <2>4 DEF TableInv, TypeOK
<1>3. Functional' /\ CacheRecorded'
  BY DEF Restart, Functional, CacheRecorded
<1>4. (Bounded /\ Stocked /\ RowsExist /\ AnswersRecorded)'
  BY <1>1 DEF TableInv, Bounded, Stocked, RowsExist, AnswersRecorded, RowSet
<1> QED
  BY <1>2, <1>3, <1>4 DEF TableInv

LEMMA TableStutter ==
  ASSUME TableInv, UNCHANGED vars
  PROVE  TableInv'
<1>1. TypeOK' /\ Functional'
  BY DEF vars, workerVars, poolVars, historyVars, TableInv, TypeOK, Functional
<1>2. (Bounded /\ Stocked /\ RowsExist /\ CacheRecorded /\ AnswersRecorded)'
  BY DEF vars, historyVars, TableInv, Bounded, Stocked, RowsExist, CacheRecorded, AnswersRecorded, RowSet
<1> QED
  BY <1>1, <1>2 DEF TableInv

LEMMA TableInvHolds == Spec => []TableInv
<1>1. ASSUME TableInv, [Next]_vars PROVE TableInv'
  BY <1>1, LookUpInv, SelectOwnInv, PickInv, InsertInv, BeginInv, CountStockInv, AddAccountsInv,
     RestartInv, TableStutter DEF Next, Serve
<1> QED
  BY <1>1, TableInit, PTL DEF Spec

\* An account is answered only when it exists and its row in table user is
\* written, whatever the workers do to each other's handle (relay.cpp:96-126).
THEOREM AnswersAreRecorded == Spec => [](TypeOK /\ AnswersRecorded)
<1>1. TableInv => TypeOK /\ AnswersRecorded
  BY DEF TableInv
<1> QED
  BY <1>1, TableInvHolds, PTL

-------------------------------------------------------------------------------
(* The accounts of a coin no workers raced for.                            *)

\* No account has two rows.
RowsApart(c) ==
  \A u, v \in User : \A k \in DOMAIN user[c][u] : \A l \in DOMAIN user[c][v] :
    /\ user[c][u][k] # 0
    /\ user[c][u][k] = user[c][v][l] => u = v /\ k = l

\* Accounts are given out in the order of their ids.
InIdOrder(c) == \A a \in account[c] : \A b \in UserAccounts(c) : a <= b => a \in UserAccounts(c)

\* a is the least of the accounts above all given out.
NextFree(c, a) ==
  /\ \A b \in UserAccounts(c) : b < a
  /\ \A x \in account[c] : (\A b \in UserAccounts(c) : b < x) => a <= x

\* What a worker has picked is still the next account when it is inserted.
Inserting(c) == {w \in Worker : pc[w] = "insert" /\ request[w].coin = c}
PickHolds(c) ==
  \A w \in Inserting(c) : NextFree(c, picked[w]) /\ \A v \in Inserting(c) : v = w

\* The scheduler adds accounts above all there are.
PoolAhead == pool # 0 => \A a \in account[pool] : a <= maxId

CoinInv(c) == RowsApart(c) /\ InIdOrder(c) /\ PickHolds(c)
RaceInv == TableInv /\ PoolAhead /\ \A c \in Coin \ raced : CoinInv(c)

LEMMA UserAccountsAre ==
  \A c \in Coin : \A a : a \in UserAccounts(c) <=> (a = 0 \/ \E u \in User : a \in RowSet(user, c, u))
BY DEF UserAccounts, RowSet

LEMMA UserAccountsExist ==
  ASSUME TableInv, NEW c \in Coin
  PROVE  UserAccounts(c) \subseteq account[c] /\ 0 \in UserAccounts(c)
BY UserAccountsAre DEF TableInv, RowsExist, Stocked

LEMMA LastGivenOut ==
  ASSUME TableInv, NEW c \in Coin
  PROVE  /\ Max(UserAccounts(c)) \in Nat
         /\ \A a \in Nat : a > Max(UserAccounts(c)) <=> \A b \in UserAccounts(c) : b < a
<1>1. UserAccounts(c) \subseteq account[c] /\ 0 \in UserAccounts(c)
  BY UserAccountsExist
<1>2. PICK b \in Nat : account[c] \subseteq Nat /\ \A a \in account[c] : a <= b
  BY AccountsFinite DEF TableInv
<1> DEFINE G == UserAccounts(c)
<1>3. G \subseteq Nat /\ G # {} /\ \A a \in G : a <= b
  BY <1>1, <1>2
<1> HIDE DEF G
<1>4. Max(G) \in G /\ \A a \in G : a <= Max(G)
  BY <1>3, GreatestOf
<1>5. Max(G) \in Nat /\ \A a \in Nat : a > Max(G) <=> \A x \in G : x < a
  <2> DEFINE m == Max(G)
  <2>1. m \in Nat /\ \A a \in G : a \in Nat /\ a <= m
    BY <1>3, <1>4
  <2>2. m \in G
    BY <1>4
  <2> HIDE DEF m
  <2>3. \A a \in Nat : a > m <=> \A x \in G : x < a
    BY <2>1, <2>2
  <2> QED
    BY <2>1, <2>3 DEF m
<1> QED
  BY <1>5 DEF G

LEMMA RaceInit == Init => RaceInv
<1> SUFFICES ASSUME Init PROVE RaceInv
  OBVIOUS
<1>1. TableInv /\ PoolAhead
  BY TableInit DEF Init, PoolAhead
<1>2. ASSUME NEW c \in Coin PROVE CoinInv(c)
  <2>1. \A u \in User : user[c][u] = <<>> /\ DOMAIN user[c][u] = {}
    BY DEF Init
  <2>2. RowsApart(c)
    BY <2>1 DEF RowsApart
  <2>3. \A a \in account[c] : a \in UserAccounts(c)
    BY UserAccountsAre DEF Init
  <2>4. PickHolds(c)
    BY DEF Init, PickHolds, Inserting
  <2> QED
    BY <2>2, <2>3, <2>4 DEF CoinInv, InIdOrder
<1> QED
  BY <1>1, <1>2 DEF RaceInv

\* A step that changes neither table, and after which nothing new is picked.
LEMMA CoinKept ==
  ASSUME NEW c \in Coin, CoinInv(c), UNCHANGED <<account, user>>,
         \A w \in Inserting(c)' : w \in Inserting(c) /\ picked'[w] = picked[w]
  PROVE  CoinInv(c)'
<1>1. UserAccounts(c)' = UserAccounts(c)
  BY DEF UserAccounts
<1>2. RowsApart(c)' /\ InIdOrder(c)'
  BY <1>1 DEF CoinInv, RowsApart, InIdOrder
<1>3. ASSUME NEW w \in Inserting(c)' PROVE NextFree(c, picked[w])' /\ \A v \in Inserting(c)' : v = w
  <2>1. NextFree(c, picked[w]) /\ picked'[w] = picked[w] /\ \A v \in Inserting(c)' : v = w
    BY <1>3 DEF CoinInv, PickHolds
  <2> QED
    BY <1>1, <2>1 DEF NextFree
<1> QED
  BY <1>2, <1>3 DEF CoinInv, PickHolds

\* Such a step preserves the invariant.
LEMMA TablesKept ==
  ASSUME RaceInv, TableInv', PoolAhead', UNCHANGED <<account, user>>, raced \subseteq raced',
         \A w \in Worker : pc'[w] = "insert" =>
           pc[w] = "insert" /\ request'[w] = request[w] /\ picked'[w] = picked[w]
  PROVE  RaceInv'
<1>1. \A c \in Coin : \A w \in Inserting(c)' : w \in Inserting(c) /\ picked'[w] = picked[w]
  BY DEF Inserting
<1>2. \A c \in Coin \ raced' : CoinInv(c)'
  BY <1>1, CoinKept DEF RaceInv
<1> QED
  BY <1>2 DEF RaceInv

LEMMA RaceServe ==
  ASSUME RaceInv, NEW w \in Worker, LookUp(w) \/ SelectOwn(w) \/ (Pick(w) /\ Throw(w))
  PROVE  RaceInv'
<1>1. TableInv'
  BY LookUpInv, SelectOwnInv, PickInv DEF RaceInv
<1>2. UNCHANGED <<account, user, pool, maxId>> /\ raced \subseteq raced'
  BY DEF LookUp, SelectOwn, Pick, poolVars
<1>3. PoolAhead'
  BY <1>2 DEF RaceInv, PoolAhead
<1>4. \/ Done(w)
      \/ \E l \in {"own", "pick"} : Goto(w, l) /\ UNCHANGED <<request, picked>>
  BY DEF LookUp, SelectOwn, Throw, Answer
<1>5. \A v \in Worker : pc'[v] = "insert" =>
        pc[v] = "insert" /\ request'[v] = request[v] /\ picked'[v] = picked[v]
  BY <1>4 DEF Done, Goto, RaceInv, TableInv, TypeOK, Functional
<1> QED
  BY <1>1, <1>2, <1>3, <1>5, TablesKept

LEMMA RaceBegin ==
  ASSUME RaceInv, NEW w \in Worker, NEW r \in Request, Begin(w, r)
  PROVE  RaceInv'
<1>1. TableInv'
  BY BeginInv DEF RaceInv
<1>2. UNCHANGED <<account, user, pool, maxId, raced>>
  BY DEF Begin, poolVars, historyVars
<1>3. PoolAhead'
  BY <1>2 DEF RaceInv, PoolAhead
<1>4. \A v \in Worker : pc'[v] = "insert" =>
        pc[v] = "insert" /\ request'[v] = request[v] /\ picked'[v] = picked[v]
  BY DEF Begin, Goto, RaceInv, TableInv, TypeOK, Functional
<1> QED
  BY <1>1, <1>2, <1>3, <1>4, TablesKept

\* A worker picks an account: the next one, and no other worker holds one of
\* the coin, or they race.
LEMMA RacePick ==
  ASSUME RaceInv, NEW w \in Worker, Pick(w)
  PROVE  RaceInv'
<1> DEFINE c0 == request[w].coin
<1>1. TableInv' /\ c0 \in Coin
  BY PickInv, RequestType DEF Pick, RaceInv, TableInv, TypeOK
<1>2. UNCHANGED <<account, user, pool, maxId>> /\ raced \subseteq raced'
  BY DEF Pick, poolVars
<1>3. PoolAhead'
  BY <1>2 DEF RaceInv, PoolAhead
<1>4. CASE Throw(w)
  BY <1>4, RaceServe
<1>5. CASE /\ Free(c0) # {} /\ Goto(w, "insert") /\ picked' = [picked EXCEPT ![w] = Min(Free(c0))]
           /\ raced' = IF Meanwhile(w, {"insert"}, LAMBDA q : q.coin = c0) THEN raced \cup {c0} ELSE raced
           /\ UNCHANGED request
  <2>1. /\ pc' = [pc EXCEPT ![w] = "insert"] /\ picked'[w] = Min(Free(c0))
        /\ \A v \in Worker \ {w} : pc'[v] = pc[v] /\ picked'[v] = picked[v]
    BY <1>5 DEF Goto, RaceInv, TableInv, TypeOK, Functional
  <2> SUFFICES ASSUME NEW c \in Coin \ raced' PROVE CoinInv(c)'
    BY <1>1, <1>3 DEF RaceInv
  <2>2. CoinInv(c)
    BY <1>2 DEF RaceInv
  <2>3. CASE c # c0
    <3>1. \A v \in Inserting(c)' : v \in Inserting(c) /\ picked'[v] = picked[v]
      BY <1>5, <2>1, <2>3 DEF Inserting, RaceInv, TableInv, TypeOK
    <3> QED
      BY <1>2, <2>2, <3>1, CoinKept
  <2>4. CASE c = c0
    <3>1. ~Meanwhile(w, {"insert"}, LAMBDA q : q.coin = c0)
      BY <1>5, <2>4
    <3>2. \A v \in Worker \ {w} : ~(pc[v] = "insert" /\ request[v].coin = c0)
      BY <3>1 DEF Meanwhile
    <3>3. Inserting(c)' \subseteq {w}
      BY <1>5, <2>1, <2>4, <3>2 DEF Inserting
    <3>4. NextFree(c, Min(Free(c)))
      <4> DEFINE F == Free(c)
      <4>1. account[c] \subseteq Nat
        BY DEF RaceInv, TableInv, TypeOK
      <4>2. F = {a \in account[c] : \A b \in UserAccounts(c) : b < a}
        BY <4>1, LastGivenOut DEF Free, RaceInv
      <4>3. F \subseteq Nat /\ F # {}
        BY <1>5, <2>4, <4>1, <4>2
      <4>4. Min(F) \in F /\ \A a \in F : Min(F) <= a
        <5> HIDE DEF F
        <5> QED
          BY <4>3, LeastOf
      <4> QED
        BY <4>2, <4>4 DEF NextFree
    <3>5. UserAccounts(c)' = UserAccounts(c)
      BY <1>2 DEF UserAccounts
    <3>6. NextFree(c, picked[w])'
      BY <1>2, <2>1, <2>4, <3>4, <3>5 DEF NextFree
    <3>7. RowsApart(c)' /\ InIdOrder(c)'
      BY <1>2, <2>2, <3>5 DEF CoinInv, RowsApart, InIdOrder
    <3> QED
      BY <3>3, <3>6, <3>7 DEF CoinInv, PickHolds
  <2> QED
    BY <2>3, <2>4
<1> QED
  BY <1>4, <1>5 DEF Pick

\* The elements of a sequence with one more.
LEMMA AppendedAt ==
  ASSUME NEW t \in Seq(Nat), NEW a \in Nat, NEW k \in DOMAIN Append(t, a)
  PROVE  \/ k \in DOMAIN t /\ Append(t, a)[k] = t[k]
         \/ k = Len(t) + 1 /\ k \notin DOMAIN t /\ Append(t, a)[k] = a
OBVIOUS

\* The row of the next account is added.
LEMMA NextRow ==
  ASSUME TableInv, NEW c \in Coin, RowsApart(c), InIdOrder(c), UNCHANGED account,
         NEW u0 \in User, NEW p \in account[c], NextFree(c, p), RowAppended(c, u0, p)
  PROVE  RowsApart(c)' /\ InIdOrder(c)'
<1>1. account[c] \subseteq Nat /\ UserAccounts(c) \subseteq account[c] /\ 0 \in UserAccounts(c) /\ p \in Nat
  BY UserAccountsExist DEF TableInv, TypeOK
<1>2. p # 0 /\ p \notin UserAccounts(c)
  BY <1>1 DEF NextFree
<1>3. \A u \in User : \A k \in DOMAIN user[c][u] : user[c][u][k] # p
  BY <1>2, UserAccountsAre DEF RowSet
<1>4. \A u \in User : \A k \in DOMAIN user'[c][u] :
        \/ k \in DOMAIN user[c][u] /\ user'[c][u][k] = user[c][u][k]
        \/ u = u0 /\ k = Len(user[c][u0]) + 1 /\ user'[c][u][k] = p
  <2> SUFFICES ASSUME NEW u \in User, NEW k \in DOMAIN user'[c][u]
               PROVE  \/ k \in DOMAIN user[c][u] /\ user'[c][u][k] = user[c][u][k]
                      \/ u = u0 /\ k = Len(user[c][u0]) + 1 /\ user'[c][u][k] = p
    OBVIOUS
  <2>1. user[c][u] \in Seq(Nat)
    BY DEF TableInv, TypeOK
  <2>2. user'[c][u] = IF u = u0 THEN Append(user[c][u], p) ELSE user[c][u]
    BY DEF RowAppended
  <2> QED
    BY <1>1, <2>1, <2>2, AppendedAt
<1>5. RowsApart(c)'
  BY <1>2, <1>3, <1>4 DEF RowsApart
<1>6. \A a : a \in UserAccounts(c)' <=> (a \in UserAccounts(c) \/ a = p)
  <2> SUFFICES ASSUME NEW a PROVE a \in UserAccounts(c)' <=> (a \in UserAccounts(c) \/ a = p)
    OBVIOUS
  <2>1. a \in UserAccounts(c)' <=> (a = 0 \/ \E u \in User : a \in RowSet(user', c, u))
    BY DEF UserAccounts, RowSet
  <2>2. a \in UserAccounts(c) <=> (a = 0 \/ \E u \in User : a \in RowSet(user, c, u))
    BY UserAccountsAre
  <2> QED
    BY <2>1, <2>2 DEF RowAppended
<1>7. InIdOrder(c)'
  <2> SUFFICES ASSUME NEW a \in account[c], NEW b \in UserAccounts(c)', a <= b
               PROVE  a \in UserAccounts(c)'
    BY DEF InIdOrder
  <2>1. CASE b \in UserAccounts(c)
    BY <1>6, <2>1 DEF InIdOrder
  <2>2. CASE b = p
    <3>1. CASE \A x \in UserAccounts(c) : x < a
      <4>1. p <= a
        BY <3>1 DEF NextFree
      <4> QED
        BY <1>1, <1>6, <2>2, <4>1
    <3>2. CASE \E x \in UserAccounts(c) : ~(x < a)
      <4>1. PICK x \in UserAccounts(c) : a <= x
        BY <1>1, <3>2
      <4> QED
        BY <1>6, <4>1 DEF InIdOrder
    <3> QED
      BY <3>1, <3>2
  <2> QED
    BY <1>6, <2>1, <2>2
<1> QED
  BY <1>5, <1>7

LEMMA RaceInsert ==
  ASSUME RaceInv, NEW w \in Worker, Insert(w)
  PROVE  RaceInv'
<1> DEFINE c0 == request[w].coin
           u0 == request[w].user
           p == picked[w]
<1>1. TableInv'
  BY InsertInv DEF RaceInv
<1>2. UNCHANGED <<account, pool, maxId, raced>>
  BY DEF Insert, poolVars
<1>3. PoolAhead'
  BY <1>2 DEF RaceInv, PoolAhead
<1>4. /\ pc[w] = "insert" /\ c0 \in Coin /\ u0 \in User /\ p \in account[c0]
      /\ UNCHANGED user \/ RowAppended(c0, u0, p)
  BY InsertRow DEF RaceInv
<1>5. Done(w)
  BY DEF Insert, Throw, Answer
<1>6. \A v \in Worker : pc'[v] = "insert" =>
        v # w /\ pc[v] = "insert" /\ request'[v] = request[v] /\ picked'[v] = picked[v]
  BY <1>5 DEF Done, Goto, RaceInv, TableInv, TypeOK, Functional
<1>7. CASE UNCHANGED user
  BY <1>1, <1>2, <1>3, <1>6, <1>7, TablesKept
<1>8. CASE RowAppended(c0, u0, p)
  <2> SUFFICES ASSUME NEW c \in Coin \ raced PROVE CoinInv(c)'
    BY <1>1, <1>2, <1>3 DEF RaceInv
  <2>1. CoinInv(c)
    BY DEF RaceInv
  <2>2. CASE c = c0
    <3>1. w \in Inserting(c)
      BY <1>4, <2>2 DEF Inserting
    <3>2. NextFree(c, p) /\ \A v \in Inserting(c) : v = w
      BY <2>1, <3>1 DEF CoinInv, PickHolds
    <3>3. Inserting(c)' = {}
      BY <1>6, <3>2 DEF Inserting
    <3>4. RowsApart(c)' /\ InIdOrder(c)'
      <4>1. p \in account[c] /\ u0 \in User /\ RowAppended(c, u0, p) /\ TableInv
        BY <1>4, <1>8, <2>2 DEF RaceInv
      <4> HIDE DEF c0, u0, p
      <4> QED
        BY <1>2, <2>1, <3>2, <4>1, NextRow DEF CoinInv
    <3> QED
      BY <3>3, <3>4 DEF CoinInv, PickHolds
  <2>3. CASE c # c0
    <3>1. \A u \in User : user'[c][u] = user[c][u]
      BY <1>8, <2>3 DEF RowAppended
    <3>2. UserAccounts(c)' = UserAccounts(c)
      BY <3>1 DEF UserAccounts
    <3>3. RowsApart(c)' /\ InIdOrder(c)'
      BY <1>2, <2>1, <3>1, <3>2 DEF CoinInv, RowsApart, InIdOrder
    <3>4. \A v \in Inserting(c)' : v \in Inserting(c) /\ picked'[v] = picked[v]
      BY <1>6 DEF Inserting
    <3>5. PickHolds(c)'
      BY <1>2, <2>1, <3>2, <3>4 DEF CoinInv, PickHolds, NextFree
    <3> QED
      BY <3>3, <3>5 DEF CoinInv
  <2> QED
    BY <2>2, <2>3
<1> QED
  BY <1>4, <1>7, <1>8

LEMMA RaceCountStock ==
  ASSUME RaceInv, NEW c \in Coin, CountStock(c)
  PROVE  RaceInv'
<1>1. TableInv' /\ (pool' # 0 => \A a \in account[pool'] : a <= maxId')
  BY CountStockInv DEF RaceInv
<1>2. UNCHANGED <<account, user, pc, request, picked, raced>>
  BY DEF CountStock, workerVars, historyVars
<1>3. PoolAhead'
  BY <1>1, <1>2 DEF PoolAhead
<1> QED
  BY <1>1, <1>2, <1>3, TablesKept

LEMMA RaceAddAccounts ==
  ASSUME RaceInv, AddAccounts
  PROVE  RaceInv'
<1>1. /\ TableInv' /\ pool' = 0 /\ pool \in Coin
      /\ \A c \in Coin : account[c] \subseteq account'[c] /\ (c # pool => account'[c] = account[c])
      /\ \A a \in account'[pool] \ account[pool] : a > maxId
  BY AddAccountsInv DEF RaceInv
<1>2. UNCHANGED <<user, pc, request, picked, raced>>
  BY DEF AddAccounts, workerVars, historyVars
<1>3. \A c \in Coin : UserAccounts(c)' = UserAccounts(c) /\ Inserting(c)' = Inserting(c)
  BY <1>2 DEF UserAccounts, Inserting
<1>4. \A c \in Coin : \A a \in account'[c] \ account[c] : \A x \in account[c] : x < a
  <2> SUFFICES ASSUME NEW c \in Coin, NEW a \in account'[c] \ account[c], NEW x \in account[c] PROVE x < a
    OBVIOUS
  <2>1. c = pool /\ a > maxId /\ pool # 0
    BY <1>1, ZeroIsNoUser
  <2>2. x <= maxId
    BY <2>1 DEF RaceInv, PoolAhead
  <2>3. x \in Nat /\ a \in Nat /\ maxId \in Nat
    BY <1>1 DEF RaceInv, TableInv, TypeOK
  <2> QED
    BY <2>1, <2>2, <2>3
<1>5. \A c \in Coin : UserAccounts(c) \subseteq account[c] /\ account[c] \subseteq Nat /\ account'[c] \subseteq Nat
  BY <1>1, UserAccountsExist DEF RaceInv, TableInv, TypeOK
<1>6. PoolAhead'
  BY <1>1 DEF PoolAhead
<1> SUFFICES ASSUME NEW c \in Coin \ raced PROVE CoinInv(c)'
  BY <1>1, <1>2, <1>6 DEF RaceInv
<1>7. CoinInv(c)
  BY DEF RaceInv
<1>8. RowsApart(c)'
  BY <1>2, <1>7 DEF CoinInv, RowsApart
<1>9. InIdOrder(c)'
  <2> SUFFICES ASSUME NEW a \in account'[c], NEW b \in UserAccounts(c), a <= b
               PROVE  a \in UserAccounts(c)
    BY <1>3 DEF InIdOrder
  <2>1. a \in account[c]
    BY <1>4, <1>5
  <2> QED
    BY <1>7, <2>1 DEF CoinInv, InIdOrder
<1>10. PickHolds(c)'
  <2> SUFFICES ASSUME NEW w \in Inserting(c) PROVE NextFree(c, picked[w])' /\ \A v \in Inserting(c) : v = w
    BY <1>3 DEF PickHolds
  <2>1. NextFree(c, picked[w]) /\ (\A v \in Inserting(c) : v = w) /\ picked[w] \in account[c]
    BY <1>7 DEF CoinInv, PickHolds, Inserting, RaceInv, TableInv, TypeOK
  <2>2. ASSUME NEW x \in account'[c], \A b \in UserAccounts(c) : b < x PROVE picked[w] <= x
    <3>1. CASE x \in account[c]
      BY <2>1, <2>2, <3>1 DEF NextFree
    <3>2. CASE x \notin account[c]
      BY <1>4, <1>5, <2>1, <3>2
    <3> QED
      BY <3>1, <3>2
  <2> QED
    BY <1>2, <1>3, <2>1, <2>2 DEF NextFree
<1> QED
  BY <1>8, <1>9, <1>10 DEF CoinInv

LEMMA RaceRestart ==
  ASSUME RaceInv, Restart
  PROVE  RaceInv'
<1>1. TableInv'
  BY RestartInv DEF RaceInv
<1>2. UNCHANGED <<account, user, raced>> /\ pool' = 0 /\ \A w \in Worker : pc'[w] = "idle"
  BY DEF Restart, historyVars
<1>3. PoolAhead'
  BY <1>2 DEF PoolAhead
<1> QED
  BY <1>1, <1>2, <1>3, TablesKept

LEMMA RaceInvHolds == Spec => []RaceInv
<1>1. ASSUME RaceInv, [Next]_vars PROVE RaceInv'
  <2>1. CASE Next
    BY <1>1, <2>1, RaceBegin, RaceServe, RacePick, RaceInsert, RaceCountStock, RaceAddAccounts, RaceRestart
    DEF Next, Serve
  <2>2. CASE UNCHANGED vars
    <3>1. UNCHANGED <<account, user, pc, request, picked, pool, maxId, raced>>
      BY <2>2 DEF vars, workerVars, poolVars, historyVars
    <3>2. TableInv'
      BY <1>1, <2>2, TableStutter DEF RaceInv
    <3>3. PoolAhead'
      BY <1>1, <3>1 DEF RaceInv, PoolAhead
    <3> QED
      BY <1>1, <3>1, <3>2, <3>3, TablesKept
  <2> QED
    BY <1>1, <2>1, <2>2
<1> QED
  BY <1>1, RaceInit, PTL DEF Spec

\* Users share an account of a coin only if workers raced for one
\* (relay.cpp:96-109, doc/otc.sql:21), however many workers there are.
THEOREM AccountsApart == Spec => []SharingNeedsRace
<1>1. ASSUME RaceInv PROVE SharingNeedsRace
  <2> SUFFICES ASSUME NEW c \in Coin \ raced, NEW u \in User, NEW v \in User, u # v
               PROVE  given[c][u] \cap given[c][v] = {}
    BY DEF SharingNeedsRace, Apart
  <2>1. given[c][u] \subseteq RowSet(user, c, u) /\ given[c][v] \subseteq RowSet(user, c, v)
    BY <1>1 DEF RaceInv, TableInv, AnswersRecorded, RowSet
  <2>2. RowSet(user, c, u) \cap RowSet(user, c, v) = {}
    BY <1>1 DEF RaceInv, CoinInv, RowsApart, RowSet
  <2> QED
    BY <2>1, <2>2
<1> QED
  BY <1>1, RaceInvHolds, PTL

-------------------------------------------------------------------------------
(* The account of a user whose request was never doubted.                  *)

Writers(r) == {w \in Worker : pc[w] \in {"pick", "insert"} /\ request[w] = r}

\* Only one worker at a time is about to write a row for the request, and only
\* while there is none.
RequestInv(r) ==
  /\ Len(user[r.coin][r.user]) <= 1
  /\ \A w \in Writers(r) : user[r.coin][r.user] = <<>> /\ \A v \in Writers(r) : v = w
DoubtInv == TableInv /\ \A r \in Request \ doubted : RequestInv(r)

LEMMA RequestIs ==
  \A r, q \in Request : r.coin = q.coin /\ r.user = q.user => r = q
BY DEF Request

\* A step that changes no row, and after which no other worker is about to
\* write one.
LEMMA WritersKept ==
  ASSUME DoubtInv, TableInv', UNCHANGED user, doubted \subseteq doubted',
         \A w \in Worker : pc'[w] \in {"pick", "insert"} =>
           pc[w] \in {"pick", "insert"} /\ request'[w] = request[w]
  PROVE  DoubtInv'
<1>1. \A r \in Request : Writers(r)' \subseteq Writers(r)
  BY DEF Writers
<1>2. \A r \in Request \ doubted' : RequestInv(r)'
  BY <1>1 DEF DoubtInv, RequestInv
<1> QED
  BY <1>2 DEF DoubtInv

LEMMA DoubtLookUp ==
  ASSUME DoubtInv, NEW w \in Worker, LookUp(w) \/ Pick(w) \/ \E r \in Request : Begin(w, r)
  PROVE  DoubtInv'
<1>1. TableInv'
  BY LookUpInv, PickInv, BeginInv DEF DoubtInv
<1>2. UNCHANGED <<user, doubted>>
  BY DEF LookUp, Pick, Begin, historyVars
<1>3. \/ Done(w)
      \/ Goto(w, "own") /\ UNCHANGED request
      \/ Goto(w, "insert") /\ pc[w] = "pick" /\ UNCHANGED request
      \/ Goto(w, "coin") /\ \E r \in Request : request' = [request EXCEPT ![w] = r]
  BY DEF LookUp, Pick, Begin, Throw, Answer
<1>4. \A v \in Worker : pc'[v] \in {"pick", "insert"} =>
        pc[v] \in {"pick", "insert"} /\ request'[v] = request[v]
  BY <1>3 DEF Done, Goto, DoubtInv, TableInv, TypeOK, Functional
<1> QED
  BY <1>1, <1>2, <1>4, WritersKept

LEMMA DoubtSelectOwn ==
  ASSUME DoubtInv, NEW w \in Worker, SelectOwn(w)
  PROVE  DoubtInv'
<1> DEFINE r0 == request[w]
           rows == user[r0.coin][r0.user]
<1>1. TableInv' /\ r0 \in Request
  BY SelectOwnInv DEF SelectOwn, DoubtInv, TableInv, TypeOK
<1>2. UNCHANGED user
  BY DEF SelectOwn
<1>3. CASE Done(w) /\ UNCHANGED doubted
  <2>1. \A v \in Worker : pc'[v] \in {"pick", "insert"} =>
          pc[v] \in {"pick", "insert"} /\ request'[v] = request[v]
    BY <1>3 DEF Done, Goto, DoubtInv, TableInv, TypeOK, Functional
  <2> QED
    BY <1>1, <1>2, <1>3, <2>1, WritersKept
<1>4. CASE /\ Goto(w, "pick") /\ UNCHANGED request
           /\ doubted' = IF rows # <<>> \/ Meanwhile(w, {"pick", "insert"}, LAMBDA q : q = r0)
                           THEN doubted \cup {r0} ELSE doubted
  <2>1. pc'[w] = "pick" /\ \A v \in Worker \ {w} : pc'[v] = pc[v]
    BY <1>4 DEF Goto, DoubtInv, TableInv, TypeOK
  <2> SUFFICES ASSUME NEW r \in Request \ doubted' PROVE RequestInv(r)'
    BY <1>1 DEF DoubtInv
  <2>2. RequestInv(r)
    BY <1>4 DEF DoubtInv
  <2>3. CASE r # r0
    <3>1. Writers(r)' \subseteq Writers(r)
      BY <1>4, <2>1, <2>3 DEF Writers
    <3> QED
      BY <1>2, <2>2, <3>1 DEF RequestInv
  <2>4. CASE r = r0
    <3>1. rows = <<>> /\ ~Meanwhile(w, {"pick", "insert"}, LAMBDA q : q = r0)
      BY <1>4, <2>4
    <3>2. \A v \in Worker \ {w} : ~(pc[v] \in {"pick", "insert"} /\ request[v] = r0)
      BY <3>1 DEF Meanwhile
    <3>3. Writers(r)' \subseteq {w}
      BY <1>4, <2>1, <2>4, <3>2 DEF Writers
    <3> QED
      BY <1>2, <2>2, <2>4, <3>1, <3>3 DEF RequestInv
  <2> QED
    BY <2>3, <2>4
<1> QED
  BY <1>3, <1>4 DEF SelectOwn, Answer

LEMMA DoubtInsert ==
  ASSUME DoubtInv, NEW w \in Worker, Insert(w)
  PROVE  DoubtInv'
<1> DEFINE r0 == request[w]
<1>1. TableInv' /\ r0 \in Request
  BY InsertInv DEF Insert, DoubtInv, TableInv, TypeOK
<1>2. /\ pc[w] = "insert" /\ r0.coin \in Coin /\ r0.user \in User /\ picked[w] \in Nat
      /\ UNCHANGED user \/ RowAppended(r0.coin, r0.user, picked[w])
  BY InsertRow DEF DoubtInv
<1>3. UNCHANGED doubted /\ Done(w)
  BY DEF Insert, Throw, Answer
<1>4. \A v \in Worker : pc'[v] \in {"pick", "insert"} =>
        v # w /\ pc[v] \in {"pick", "insert"} /\ request'[v] = request[v]
  BY <1>3 DEF Done, Goto, DoubtInv, TableInv, TypeOK, Functional
<1>5. CASE UNCHANGED user
  BY <1>1, <1>3, <1>4, <1>5, WritersKept
<1>6. CASE RowAppended(r0.coin, r0.user, picked[w])
  <2> SUFFICES ASSUME NEW r \in Request \ doubted PROVE RequestInv(r)'
    BY <1>1, <1>3 DEF DoubtInv
  <2>1. RequestInv(r) /\ r.coin \in Coin /\ r.user \in User
    BY RequestType DEF DoubtInv
  <2>2. CASE r # r0
    <3>1. ~(r.coin = r0.coin /\ r.user = r0.user)
      BY <1>1, <2>2, RequestIs
    <3>2. user'[r.coin][r.user] = user[r.coin][r.user]
      BY <1>6, <2>1, <3>1 DEF RowAppended
    <3>3. Writers(r)' \subseteq Writers(r)
      BY <1>4 DEF Writers
    <3> QED
      BY <2>1, <3>2, <3>3 DEF RequestInv
  <2>3. CASE r = r0
    <3>1. w \in Writers(r)
      BY <1>2, <2>3 DEF Writers
    <3>2. user[r.coin][r.user] = <<>> /\ \A v \in Writers(r) : v = w
      BY <2>1, <3>1 DEF RequestInv
    <3>3. user'[r.coin][r.user] = Append(<<>>, picked[w])
      BY <1>2, <1>6, <2>3, <3>2 DEF RowAppended
    <3>4. Len(user'[r.coin][r.user]) = 1
      BY <1>2, <3>3
    <3>5. Writers(r)' = {}
      BY <1>4, <3>2 DEF Writers
    <3> QED
      BY <3>4, <3>5 DEF RequestInv
  <2> QED
    BY <2>2, <2>3
<1> QED
  BY <1>2, <1>5, <1>6

LEMMA DoubtScheduler ==
  ASSUME DoubtInv, AddAccounts \/ Restart \/ \E c \in Coin : CountStock(c)
  PROVE  DoubtInv'
<1>1. TableInv'
  BY AddAccountsInv, RestartInv, CountStockInv DEF DoubtInv
<1>2. /\ UNCHANGED <<user, doubted>>
      /\ UNCHANGED <<pc, request>> \/ \A w \in Worker : pc'[w] = "idle"
  BY DEF AddAccounts, Restart, CountStock, workerVars, historyVars
<1> QED
  BY <1>1, <1>2, WritersKept

LEMMA DoubtInvHolds == Spec => []DoubtInv
<1>1. ASSUME Init PROVE DoubtInv
  <2>1. \A r \in Request : user[r.coin][r.user] = <<>> /\ Writers(r) = {}
    BY <1>1, RequestType DEF Init, Writers
  <2>2. Len(<<>>) = 0
    OBVIOUS
  <2> QED
    BY <1>1, <2>1, <2>2, TableInit DEF DoubtInv, RequestInv
<1>2. ASSUME DoubtInv, [Next]_vars PROVE DoubtInv'
  <2>1. CASE Next
    BY <1>2, <2>1, DoubtLookUp, DoubtSelectOwn, DoubtInsert, DoubtScheduler DEF Next, Serve
  <2>2. CASE UNCHANGED vars
    <3>1. UNCHANGED <<user, pc, request, doubted>>
      BY <2>2 DEF vars, workerVars, historyVars
    <3>2. TableInv'
      BY <1>2, <2>2, TableStutter DEF DoubtInv
    <3> QED
      BY <1>2, <3>1, <3>2, WritersKept
  <2> QED
    BY <1>2, <2>1, <2>2
<1> QED
  BY <1>1, <1>2, PTL DEF Spec

\* A user is given a second account only if he was once taken for a new one
\* (the SELECT of relay.cpp:79 that failed, or was too early), however many
\* workers there are and whatever statement fails.
THEOREM AccountsStable == Spec => []SecondNeedsDoubt
<1>1. ASSUME DoubtInv PROVE SecondNeedsDoubt
  <2> SUFFICES ASSUME NEW r \in Request \ doubted PROVE Cardinality(given[r.coin][r.user]) <= 1
    BY DEF SecondNeedsDoubt, GivenOnce
  <2> DEFINE c == r.coin
             u == r.user
  <2>0. c \in Coin /\ u \in User
    BY RequestType
  <2> HIDE DEF c, u
  <2>1. given[c][u] \subseteq RowSet(user, c, u)
    BY <1>1, <2>0 DEF DoubtInv, TableInv, AnswersRecorded, RowSet
  <2>2. user[c][u] \in Seq(Nat) /\ Len(user[c][u]) <= 1
    BY <1>1, <2>0 DEF DoubtInv, RequestInv, TableInv, TypeOK, c, u
  <2>3. DOMAIN user[c][u] \subseteq {1}
    BY <2>2
  <2>4. given[c][u] \subseteq {user[c][u][1]}
    BY <2>1, <2>3 DEF RowSet
  <2>5. given[c][u] = {} \/ given[c][u] = {user[c][u][1]}
    BY <2>4
  <2>6. Cardinality({}) = 0 /\ Cardinality({user[c][u][1]}) = 1
    BY FS_EmptySet, FS_Singleton
  <2>7. Cardinality(given[c][u]) <= 1
    BY <2>5, <2>6
  <2> QED
    BY <2>7 DEF c, u
<1> QED
  BY <1>1, DoubtInvHolds, PTL

-------------------------------------------------------------------------------
(* The stock of a coin no workers raced for.                               *)

\* The count of the rows of table user is that of the accounts given out.
LEMMA RowsCount ==
  ASSUME RaceInv, NEW c \in Coin \ raced
  PROVE  /\ IsFiniteSet(UserAccounts(c)) /\ Cardinality(UserAccounts(c)) = CountUser(c)
         /\ CountUser(c) \in Nat
<1> DEFINE R == Rows(c)
           G == UserAccounts(c) \ {0}
           f == [x \in R |-> user[c][x[1]][x[2]]]
<1>1. IsFiniteSet(UserAccounts(c)) /\ 0 \in UserAccounts(c)
  BY AccountsFinite, UserAccountsExist, FS_Subset DEF RaceInv, TableInv
<1>2. RowsApart(c)
  BY DEF RaceInv, CoinInv
<1>3. ASSUME NEW x \in R
      PROVE  x[1] \in User /\ x[2] \in DOMAIN user[c][x[1]] /\ x = <<x[1], x[2]>> /\ f[x] \in G
  <2>1. PICK u \in User : x \in {u} \X DOMAIN user[c][u]
    BY DEF Rows
  <2>2. x[1] = u /\ x[2] \in DOMAIN user[c][u] /\ x = <<x[1], x[2]>>
    BY <2>1
  <2>3. f[x] = user[c][u][x[2]] /\ f[x] # 0 /\ f[x] \in RowSet(user, c, u)
    BY <1>2, <2>2 DEF RowsApart, RowSet
  <2>4. f[x] \in UserAccounts(c)
    BY <2>3, UserAccountsAre
  <2> QED
    BY <2>2, <2>3, <2>4
<1>4. ASSUME NEW x \in R, NEW y \in R, f[x] = f[y] PROVE x = y
  <2>1. /\ x[1] \in User /\ x[2] \in DOMAIN user[c][x[1]] /\ x = <<x[1], x[2]>>
        /\ y[1] \in User /\ y[2] \in DOMAIN user[c][y[1]] /\ y = <<y[1], y[2]>>
    BY <1>3
  <2>2. user[c][x[1]][x[2]] = user[c][y[1]][y[2]]
    BY <1>4
  <2>3. x[1] = y[1] /\ x[2] = y[2]
    BY <1>2, <2>1, <2>2 DEF RowsApart
  <2> QED
    BY <2>1, <2>3
<1>5. ASSUME NEW a \in G PROVE \E x \in R : f[x] = a
  <2>1. PICK u \in User : a \in RowSet(user, c, u)
    BY UserAccountsAre
  <2>2. PICK k \in DOMAIN user[c][u] : a = user[c][u][k]
    BY <2>1 DEF RowSet
  <2>3. <<u, k>> \in R
    BY DEF Rows
  <2>4. f[<<u, k>>] = a
    BY <2>2, <2>3
  <2> QED
    BY <2>3, <2>4
<1>6. IsFiniteSet(G) /\ Cardinality(G) = Cardinality(UserAccounts(c)) - 1
  BY <1>1, FS_RemoveElement
<1>7. f \in Injection(R, G) /\ f \in Surjection(R, G)
  <2> HIDE DEF R, G
  <2>1. DOMAIN f = R /\ f \in [R -> G]
    BY <1>3
  <2> HIDE DEF f
  <2> QED
    BY <1>4, <1>5, <2>1 DEF Injection, Surjection, IsInjective
<1>8. Cardinality(R) = Cardinality(G)
  <2> HIDE DEF R, G, f
  <2> QED
    BY <1>6, <1>7, FS_Injection
<1>9. Cardinality(UserAccounts(c)) \in Nat
  BY <1>1, FS_CardinalityType
<1> QED
  BY <1>1, <1>6, <1>8, <1>9 DEF CountUser

\* However many workers there are, users wait for a stock that the scheduler
\* takes for full only if workers raced (client.cpp:677-681, relay.cpp:103).
THEOREM StockIsFree == Spec => []StarvingNeedsRace
<1>1. ASSUME RaceInv PROVE StarvingNeedsRace
  <2> SUFFICES ASSUME NEW c \in Coin \ raced, IsStocked(c), Free(c) = {} PROVE FALSE
    BY DEF StarvingNeedsRace, HasFree
  <2>1. UserAccounts(c) \subseteq account[c] /\ account[c] \subseteq Nat
    BY <1>1, UserAccountsExist DEF RaceInv, TableInv, TypeOK
  <2>2. account[c] \subseteq UserAccounts(c)
    <3> SUFFICES ASSUME NEW a \in account[c], a \notin UserAccounts(c) PROVE FALSE
      OBVIOUS
    <3>1. \A b \in UserAccounts(c) : b < a
      BY <1>1, <2>1 DEF RaceInv, CoinInv, InIdOrder
    <3>2. a \in Free(c)
      BY <1>1, <2>1, <3>1, LastGivenOut DEF Free, RaceInv
    <3> QED
      BY <3>2
  <2>3. Cardinality(account[c]) = CountUser(c) /\ CountUser(c) \in Nat
    <3>1. account[c] = UserAccounts(c)
      BY <2>1, <2>2
    <3> QED
      BY <1>1, <3>1, RowsCount
  <2>4. (Cardinality(account[c]) - CountUser(c)) % SizeT = 0
    <3>1. Cardinality(account[c]) - CountUser(c) = 0 /\ SizeT \in Nat /\ SizeT > 0
      BY <2>3, AddressAssumption
    <3>2. 0 % SizeT = 0
      BY <3>1
    <3> QED
      BY <3>1, <3>2
  <2> QED
    BY <2>4, AddressAssumption DEF IsStocked
<1> QED
  BY <1>1, RaceInvHolds, PTL

-------------------------------------------------------------------------------
(* How large the stock gets.                                               *)

\* A size_t holds twice the quantity (2^64 and 200).
StockFits == 2 * Quantity <= SizeT

LEMMA FreeAre ==
  ASSUME RaceInv, NEW c \in Coin \ raced
  PROVE  /\ Free(c) = account[c] \ UserAccounts(c)
         /\ IsFiniteSet(Free(c)) /\ Cardinality(Free(c)) \in Nat
         /\ Cardinality(Free(c)) = Cardinality(account[c]) - CountUser(c)
<1>1. UserAccounts(c) \subseteq account[c] /\ account[c] \subseteq Nat
  BY UserAccountsExist DEF RaceInv, TableInv, TypeOK
<1>2. Free(c) = account[c] \ UserAccounts(c)
  <2>1. ASSUME NEW a \in account[c] PROVE a \in Free(c) <=> a \notin UserAccounts(c)
    <3>1. a \in Free(c) <=> \A b \in UserAccounts(c) : b < a
      BY <1>1, LastGivenOut DEF Free, RaceInv
    <3>2. a \notin UserAccounts(c) <=> \A b \in UserAccounts(c) : b < a
      BY <1>1 DEF RaceInv, CoinInv, InIdOrder
    <3> QED
      BY <3>1, <3>2
  <2> QED
    BY <2>1 DEF Free
<1>3. IsFiniteSet(account[c])
  BY AccountsFinite DEF RaceInv, TableInv
<1>4. IsFiniteSet(Free(c)) /\ Cardinality(Free(c)) \in Nat
  BY <1>2, <1>3, FS_Subset, FS_CardinalityType
<1>5. /\ account[c] \cap UserAccounts(c) = UserAccounts(c)
      /\ Cardinality(account[c] \ UserAccounts(c)) = Cardinality(account[c]) - Cardinality(account[c] \cap UserAccounts(c))
  BY <1>1, <1>3, FS_Difference
<1> QED
  BY <1>2, <1>4, <1>5, RowsCount

\* The accounts that are free are those not given out, in this state and in
\* the next.
FreeIsRest == \A c \in Coin \ raced : Free(c) = account[c] \ UserAccounts(c)
LEMMA FreeIs == RaceInv => FreeIsRest
BY FreeAre DEF FreeIsRest
LEMMA FreeIsNext == RaceInv' => FreeIsRest'
BY FreeIs, PTL

LEMMA SmallRemainder ==
  ASSUME NEW n \in Nat, NEW d \in Nat, d < n
  PROVE  d % n = d
OBVIOUS

\* Table user only grows, and so does the set of coins raced for.
LEMMA RowsStay ==
  ASSUME RaceInv, [Next]_vars
  PROVE  raced \subseteq raced' /\ \A c \in Coin : UserAccounts(c) \subseteq UserAccounts(c)'
<1>1. ASSUME UNCHANGED user PROVE \A c \in Coin : UserAccounts(c) \subseteq UserAccounts(c)'
  BY <1>1 DEF UserAccounts
<1>2. ASSUME NEW w \in Worker, Insert(w)
      PROVE  UNCHANGED raced /\ \A c \in Coin : UserAccounts(c) \subseteq UserAccounts(c)'
  <2>1. UNCHANGED user \/ RowAppended(request[w].coin, request[w].user, picked[w])
    BY <1>2, InsertRow DEF RaceInv
  <2>2. CASE RowAppended(request[w].coin, request[w].user, picked[w])
    <3>1. \A c \in Coin : \A u \in User : RowSet(user, c, u) \subseteq RowSet(user', c, u)
      BY <2>2 DEF RowAppended
    <3> QED
      BY <1>2, <3>1 DEF UserAccounts, RowSet, Insert
  <2> QED
    BY <1>1, <1>2, <2>1, <2>2 DEF Insert
<1>3. CASE \E w \in Worker : LookUp(w) \/ SelectOwn(w) \/ Pick(w) \/ \E r \in Request : Begin(w, r)
  BY <1>1, <1>3 DEF LookUp, SelectOwn, Pick, Begin, historyVars
<1>4. CASE AddAccounts \/ Restart \/ \E k \in Coin : CountStock(k)
  BY <1>1, <1>4 DEF AddAccounts, Restart, CountStock, historyVars
<1>5. CASE UNCHANGED vars
  BY <1>1, <1>5 DEF vars, historyVars
<1> QED
  BY <1>2, <1>3, <1>4, <1>5 DEF Next, Serve

\* The stock is below twice the quantity, and below the quantity while the
\* scheduler is about to add to it.
StockSmall ==
  \A c \in Coin \ raced :
                  /\ Cardinality(Free(c)) < 2 * Quantity
                  /\ pool = c => Cardinality(Free(c)) < Quantity

\* Accounts are given out, but none is added.
LEMMA StockShrinks ==
  ASSUME RaceInv, RaceInv', [Next]_vars, UNCHANGED account, NEW c \in Coin \ raced'
  PROVE  Cardinality(Free(c)') <= Cardinality(Free(c)) /\ Cardinality(Free(c)') \in Nat
<1>0. c \in Coin \ raced
  BY RowsStay
<1>1. Free(c)' = account[c] \ UserAccounts(c)' /\ Free(c) = account[c] \ UserAccounts(c)
  BY <1>0, FreeIs, FreeIsNext DEF FreeIsRest
<1>2. IsFiniteSet(Free(c)) /\ Free(c)' \subseteq Free(c)
  BY <1>0, <1>1, FreeAre, RowsStay
<1> QED
  BY <1>2, FS_Subset, FS_CardinalityType

LEMMA StockStep ==
  ASSUME StockFits, RaceInv, RaceInv', StockSmall, [Next]_vars
  PROVE  StockSmall'
<1>0. Quantity \in Nat /\ SizeT \in Nat /\ Quantity > 0 /\ 0 \notin Coin
  BY AddressAssumption, ZeroIsNoUser
<1>1. ASSUME UNCHANGED account, pool' \in {0, pool} PROVE StockSmall'
  <2> SUFFICES ASSUME NEW c \in Coin \ raced'
               PROVE  Cardinality(Free(c)') < 2 * Quantity /\ (pool' = c => Cardinality(Free(c)') < Quantity)
    BY DEF StockSmall
  <2>0. c \in Coin \ raced
    BY RowsStay
  <2>1. /\ Cardinality(Free(c)') <= Cardinality(Free(c)) /\ Cardinality(Free(c)') \in Nat
        /\ Cardinality(Free(c)) \in Nat
    BY <1>1, <2>0, StockShrinks, FreeAre
  <2>2. Cardinality(Free(c)) < 2 * Quantity /\ (pool = c => Cardinality(Free(c)) < Quantity)
    BY <2>0 DEF StockSmall
  <2>3. pool' = c => pool = c
    BY <1>0, <1>1
  <2> QED
    BY <1>0, <2>1, <2>2, <2>3
<1>2. ASSUME NEW k \in Coin, CountStock(k) PROVE StockSmall'
  <2>1. CASE UNCHANGED poolVars
    BY <1>1, <1>2, <2>1 DEF CountStock, poolVars
  <2>2. CASE ~UNCHANGED poolVars
    <3>1. ~IsStocked(k) /\ pool' = k /\ UNCHANGED <<account, user, raced>>
      BY <1>2, <2>2 DEF CountStock, historyVars
    <3>2. ASSUME k \notin raced PROVE Cardinality(Free(k)) < Quantity
      <4> DEFINE d == Cardinality(Free(k))
      <4>1. d \in Nat /\ d = Cardinality(account[k]) - CountUser(k) /\ d < 2 * Quantity
        BY <3>2, FreeAre DEF StockSmall
      <4>2. ~(d % SizeT >= Quantity)
        BY <3>1, <4>1 DEF IsStocked
      <4> HIDE DEF d
      <4>3. d < SizeT
        BY <1>0, <4>1 DEF StockFits
      <4>4. d % SizeT = d
        BY <1>0, <4>1, <4>3, SmallRemainder
      <4> QED
        BY <1>0, <4>1, <4>2, <4>4 DEF d
    <3>3. ASSUME NEW c \in Coin \ raced PROVE Free(c)' = Free(c)
      <4>1. c \in Coin \ raced' /\ UNCHANGED <<account, user>>
        BY <3>1
      <4>2. UserAccounts(c)' = UserAccounts(c)
        BY <4>1 DEF UserAccounts
      <4>3. Free(c) = account[c] \ UserAccounts(c)
        BY FreeIs DEF FreeIsRest
      <4>4. Free(c)' = account'[c] \ UserAccounts(c)'
        BY <4>1, FreeIsNext DEF FreeIsRest
      <4> QED
        BY <4>1, <4>2, <4>3, <4>4
    <3>0. raced' = raced /\ pool' = k
      BY <3>1
    <3> SUFFICES ASSUME NEW c \in Coin \ raced
                 PROVE  Cardinality(Free(c)') < 2 * Quantity /\ (k = c => Cardinality(Free(c)') < Quantity)
      BY <3>0 DEF StockSmall
    <3>4. Cardinality(Free(c)) < 2 * Quantity /\ (c = k => Cardinality(Free(c)) < Quantity)
      BY <3>2 DEF StockSmall
    <3>5. Free(c)' = Free(c)
      BY <3>3
    <3> QED
      BY <3>4, <3>5
  <2> QED
    BY <2>1, <2>2
<1>3. ASSUME AddAccounts PROVE StockSmall'
  <2>1. pool # 0 /\ pool' = 0 /\ UNCHANGED <<user, raced>>
    BY <1>3 DEF AddAccounts, historyVars
  <2>2. PICK ids \in SUBSET (maxId + 1 .. maxId + Quantity) : account' = [account EXCEPT ![pool] = @ \cup ids]
    BY <1>3 DEF AddAccounts
  <2>3. pool \in Coin /\ maxId \in Nat /\ account \in [Coin -> SUBSET Nat]
    BY <2>1 DEF RaceInv, TableInv, TypeOK
  <2>4. IsFiniteSet(ids) /\ Cardinality(ids) \in Nat /\ Cardinality(ids) <= Quantity
    <3>1. /\ IsFiniteSet(maxId + 1 .. maxId + Quantity)
          /\ Cardinality(maxId + 1 .. maxId + Quantity) = Quantity
      <4>1. maxId + 1 \in Int /\ maxId + Quantity \in Int
        BY <1>0, <2>3
      <4>2. maxId + 1 <= maxId + Quantity /\ (maxId + Quantity) - (maxId + 1) + 1 = Quantity
        BY <1>0, <2>3
      <4> QED
        BY <4>1, <4>2, FS_Interval
    <3>2. IsFiniteSet(ids) /\ Cardinality(ids) <= Cardinality(maxId + 1 .. maxId + Quantity)
      BY <3>1, FS_Subset
    <3> QED
      BY <3>1, <3>2, FS_CardinalityType
  <2> SUFFICES ASSUME NEW c \in Coin \ raced
               PROVE  Cardinality(Free(c)') < 2 * Quantity /\ pool' # c
    BY <2>1 DEF StockSmall
  <2>5. UserAccounts(c)' = UserAccounts(c)
    BY <2>1 DEF UserAccounts
  <2>6. Free(c)' = account'[c] \ UserAccounts(c) /\ Free(c) = account[c] \ UserAccounts(c)
    BY <2>1, <2>5, FreeIs, FreeIsNext DEF FreeIsRest
  <2>7. IsFiniteSet(Free(c)) /\ Cardinality(Free(c)) \in Nat
    BY FreeAre
  <2>8. CASE c # pool
    <3>1. Free(c)' = Free(c)
      BY <2>2, <2>3, <2>6, <2>8
    <3> QED
      BY <1>0, <2>1, <3>1 DEF StockSmall
  <2>9. CASE c = pool
    <3>1. Free(c)' \subseteq Free(c) \cup ids
      BY <2>2, <2>3, <2>6, <2>9
    <3>2. /\ IsFiniteSet(Free(c) \cup ids)
          /\ Cardinality(Free(c) \cup ids) = Cardinality(Free(c)) + Cardinality(ids) - Cardinality(Free(c) \cap ids)
      BY <2>4, <2>7, FS_Union
    <3>3. IsFiniteSet(Free(c) \cap ids)
      BY <2>4, FS_Intersection
    <3>4. Cardinality(Free(c) \cap ids) \in Nat
      BY <3>3, FS_CardinalityType
    <3>5. /\ Cardinality(Free(c)') <= Cardinality(Free(c) \cup ids)
          /\ Cardinality(Free(c)') \in Nat
      BY <3>1, <3>2, FS_Subset, FS_CardinalityType
    <3>6. Cardinality(Free(c)) < Quantity
      BY <2>9 DEF StockSmall
    <3>7. Cardinality(Free(c)') < 2 * Quantity
      BY <1>0, <2>4, <2>7, <3>2, <3>4, <3>5, <3>6
    <3> QED
      BY <1>0, <2>1, <3>7
  <2> QED
    BY <2>8, <2>9
<1>4. ASSUME Restart PROVE StockSmall'
  BY <1>1, <1>4 DEF Restart
<1>5. ASSUME NEW w \in Worker, Serve(w) \/ \E r \in Request : Begin(w, r) PROVE StockSmall'
  <2>1. UNCHANGED account /\ UNCHANGED poolVars
    BY <1>5 DEF Serve, Begin, LookUp, SelectOwn, Pick, Insert
  <2> QED
    BY <1>1, <2>1 DEF poolVars
<1>6. ASSUME UNCHANGED vars PROVE StockSmall'
  BY <1>1, <1>6 DEF vars, poolVars
<1> QED
  BY <1>2, <1>3, <1>4, <1>5, <1>6 DEF Next

LEMMA StockStart == ASSUME Init PROVE StockSmall
<1> SUFFICES ASSUME NEW c \in Coin \ raced PROVE Cardinality(Free(c)) < 2 * Quantity /\ pool # c
  BY DEF StockSmall
<1>1. RaceInv
  BY RaceInit
<1>2. Free(c) = account[c] \ UserAccounts(c) /\ 0 \in UserAccounts(c)
  BY <1>1, FreeAre, UserAccountsExist DEF RaceInv
<1>3. account[c] = {0} /\ pool = 0
  BY DEF Init
<1>4. Free(c) = {}
  BY <1>2, <1>3
<1>5. Cardinality({}) = 0
  BY FS_EmptySet
<1>6. Quantity \in Nat /\ Quantity > 0
  BY AddressAssumption
<1> QED
  BY <1>3, <1>4, <1>5, <1>6, ZeroIsNoUser

\* However many workers there are, the stock of a coin that they did not race
\* for never reaches twice the quantity: the scheduler adds a batch only to a
\* stock that was below the quantity when it counted, however long ago that was
\* (client.cpp:677-681).
THEOREM StockStaysSmall == ASSUME StockFits PROVE Spec => []StockBounded
<1>1. RaceInv /\ RaceInv' /\ StockSmall /\ [Next]_vars => StockSmall'
  BY StockStep
<1>2. Init => StockSmall
  BY StockStart
<1>3. StockSmall => StockBounded
  BY DEF StockSmall, StockBounded
<1> QED
  BY <1>1, <1>2, <1>3, RaceInvHolds, PTL DEF Spec

===============================================================================
