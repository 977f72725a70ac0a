---------------------------- MODULE RechargeAddress ----------------------------
(***************************************************************************)
(* How the server hands out recharge addresses.  The RPC command           *)
(* getrechargeaddress (server/src/rpc/relay.cpp) runs in the HTTP worker   *)
(* threads and gives a user the first account above every account given    *)
(* out so far; the scheduler thread (server/src/main.cpp,                  *)
(* ClientRpc::getNewAddress) keeps a stock of accounts per coin.           *)
(*                                                                         *)
(* Every SQL statement is an action, so that those of several workers and  *)
(* of the scheduler interleave.  All workers use one database handle,      *)
(* g_db_mysql, which each of them opens and closes; the scheduler has its  *)
(* own.  The concurrent accesses to the handle's and the cache's memory    *)
(* are modelled as atomic ones.  A statement may also fail by itself, as a *)
(* fault of the database.                                                  *)
(*                                                                         *)
(* An operator named X_Suffix is X with a plausible slip.                  *)
(***************************************************************************)
EXTENDS Integers, Sequences, FiniteSets, FiniteSetsExt

CONSTANTS
  Coin,           \* coin ids, all below 10
  User,           \* user ids
  Worker,         \* HTTP worker threads (4)
  Quantity,       \* accounts created at a time (100)
  SizeT,          \* number of values of a size_t
  MaxFaults       \* bound: addresses not created, statements that fail, restarts

ASSUME AddressAssumption ==
  /\ Coin \subseteq 1..9 /\ User \subseteq Nat \ {0}
  /\ Quantity \in Nat \ {0} /\ SizeT \in Nat /\ SizeT > Quantity
  /\ MaxFaults \in Nat

VARIABLES
  account,        \* [Coin -> SUBSET Nat], account ids in table account
  user,           \* [Coin -> [User -> Seq(Nat)]], the account ids in table user
  open,           \* g_db_mysql is connected
  s_usercoin_accountinfo, \* the cache: a function from keys to account ids
  pc, request, picked,    \* [Worker -> ...], the request a worker serves
  pool, maxId,    \* the coin the scheduler creates accounts for, or 0
  given,          \* [Coin -> [User -> SUBSET Nat]], accounts ever answered
  raced,          \* coins with an account picked by one worker while another
                  \* was about to insert the one it had picked
  doubted,        \* requests taken for those of a new user while the user had a
                  \* row, or while another worker was about to write one
  faults

historyVars == <<given, raced, doubted>>
workerVars == <<pc, request, picked>>
poolVars == <<pool, maxId>>
vars == <<account, user, open, s_usercoin_accountinfo, workerVars, poolVars,
          historyVars, faults>>

\* std::to_string(user_id) + std::to_string(coin_id)
EncodeUser(r) == r.user * 10 + r.coin

\* Table user has a row of user 0 and account 0 from the start.
UserAccounts(c) == {0} \cup UNION {{user[c][u][k] : k \in DOMAIN user[c][u]} : u \in User}
Rows(c) == UNION {{u} \X DOMAIN user[c][u] : u \in User}
CountUser(c) == 1 + Cardinality(Rows(c))

Init ==
  /\ account = [c \in Coin |-> {0}] /\ user = [c \in Coin |-> [u \in User |-> <<>>]]
  /\ open = FALSE /\ s_usercoin_accountinfo = <<>>
  /\ pc = [w \in Worker |-> "idle"]
  /\ request = [w \in Worker |-> [user |-> 0, coin |-> 0]] /\ picked = [w \in Worker |-> 0]
  /\ pool = 0 /\ maxId = 0
  /\ given = [c \in Coin |-> [u \in User |-> {}]] /\ raced = {} /\ doubted = {}
  /\ faults = 0

-------------------------------------------------------------------------------
(* getrechargeaddress.                                                     *)

Goto(w, l) == pc' = [pc EXCEPT ![w] = l]

\* A fault, as a statement that fails over a usable connection.
Fault == faults < MaxFaults /\ faults' = faults + 1

\* Another worker is between the statements of ls, for a request that agrees.
Meanwhile(w, ls, Agree(_)) == \E v \in Worker \ {w} : pc[v] \in ls /\ Agree(request[v])

\* The command throws or returns: the worker closes the handle and is free.
Done(w) ==
  /\ open' = FALSE
  /\ Goto(w, "idle")
  /\ request' = [request EXCEPT ![w] = [user |-> 0, coin |-> 0]]
  /\ picked' = [picked EXCEPT ![w] = 0]

Throw(w) == Done(w) /\ UNCHANGED <<given, s_usercoin_accountinfo>>

Answer(w, a) ==
  LET r == request[w] IN
  /\ Done(w)
  /\ given' = [given EXCEPT ![r.coin][r.user] = @ \cup {a}]
  /\ s_usercoin_accountinfo' =
       [k \in DOMAIN s_usercoin_accountinfo \cup {EncodeUser(r)} |->
          IF k = EncodeUser(r) THEN a ELSE s_usercoin_accountinfo[k]]

\* openDB
Begin(w, r) ==
  /\ pc[w] = "idle" /\ Goto(w, "coin")
  /\ open' = TRUE
  /\ request' = [request EXCEPT ![w] = r]
  /\ UNCHANGED <<account, user, s_usercoin_accountinfo, picked, poolVars, historyVars, faults>>

\* The SELECT of the coin id, which may fail, and the cache.
LookUp(w) ==
  /\ pc[w] = "coin"
  /\ LET k == EncodeUser(request[w]) IN
       \/ /\ (~open /\ UNCHANGED faults) \/ (open /\ Fault)
          /\ Throw(w)
       \/ /\ open /\ k \in DOMAIN s_usercoin_accountinfo
          /\ Answer(w, s_usercoin_accountinfo[k]) /\ UNCHANGED faults
       \/ /\ open /\ k \notin DOMAIN s_usercoin_accountinfo
          /\ Goto(w, "own")
          /\ UNCHANGED <<open, request, picked, given, s_usercoin_accountinfo, faults>>
  /\ UNCHANGED <<account, user, poolVars, raced, doubted>>

\* Slip: the cache is all the server looks at.
SelectOwn_CacheOnly(w) ==
  /\ pc[w] = "own"
  /\ Goto(w, "pick")
  /\ UNCHANGED <<open, request, picked, given, s_usercoin_accountinfo>>
  /\ UNCHANGED <<account, user, poolVars, raced, doubted, faults>>

\* The SELECT of the user's account.  By a fault, over a closed handle, or with
\* two rows for the user in its subquery, it fails; the result of getData is
\* ignored, so that a failure reads as no account.
SelectOwn(w) ==
  /\ pc[w] = "own"
  /\ LET r == request[w]
         rows == user[r.coin][r.user]
     IN \/ /\ open /\ Len(rows) = 1 /\ Answer(w, rows[1])
           /\ UNCHANGED <<doubted, faults>>
        \/ /\ IF open /\ Len(rows) = 1 THEN Fault ELSE UNCHANGED faults
           /\ Goto(w, "pick")
           /\ doubted' = IF rows # <<>> \/ Meanwhile(w, {"pick", "insert"}, LAMBDA q : q = r)
                           THEN doubted \cup {r} ELSE doubted
           /\ UNCHANGED <<open, request, picked, given, s_usercoin_accountinfo>>
  /\ UNCHANGED <<account, user, poolVars, raced>>

\* Slip: >= for >.
Free_Again(c) == {a \in account[c] : a >= Max(UserAccounts(c))}

\* The accounts above the last one given out.
Free(c) == {a \in account[c] : a > Max(UserAccounts(c))}

\* The SELECT of the first of them; without one, or if it fails, "address is
\* creating ,wait a minute".
Pick(w) ==
  /\ pc[w] = "pick"
  /\ LET c == request[w].coin IN
       \/ /\ open /\ Free(c) # {} /\ Goto(w, "insert")
          /\ picked' = [picked EXCEPT ![w] = Min(Free(c))]
          /\ raced' = IF Meanwhile(w, {"insert"}, LAMBDA q : q.coin = c)
                        THEN raced \cup {c} ELSE raced
          /\ UNCHANGED <<open, request, given, s_usercoin_accountinfo, faults>>
       \/ /\ IF open /\ Free(c) # {} THEN Fault ELSE UNCHANGED faults
          /\ Throw(w) /\ UNCHANGED raced
  /\ UNCHANGED <<account, user, poolVars, doubted>>

AddRow(r, a) == user' = [user EXCEPT ![r.coin][r.user] = Append(@, a)]

\* Slip: the account is answered before the row is known to be written.
Insert_Unchecked(w) ==
  /\ pc[w] = "insert"
  /\ Answer(w, picked[w])
  /\ AddRow(request[w], picked[w]) \/ UNCHANGED user
  /\ UNCHANGED <<account, poolVars, raced, doubted, faults>>

\* The INSERT into table user.  If it fails over an open handle its row may be
\* written all the same, with the reply lost.
Insert(w) ==
  /\ pc[w] = "insert"
  /\ \/ /\ open /\ AddRow(request[w], picked[w])
        /\ Answer(w, picked[w]) /\ UNCHANGED faults
     \/ /\ \/ ~open /\ UNCHANGED <<user, faults>>
           \/ open /\ Fault /\ (AddRow(request[w], picked[w]) \/ UNCHANGED user)
        /\ Throw(w)
  /\ UNCHANGED <<account, poolVars, raced, doubted>>

-------------------------------------------------------------------------------
(* getNewAddress, called for each coin by the scheduler thread.            *)

\* Slip: accounts given out count as stock.
IsStocked_CountsAll(c) == Cardinality(account[c]) >= Quantity

\* The subtraction is one of size_t.  If the SELECT fails nothing happens.
IsStocked(c) == (Cardinality(account[c]) - CountUser(c)) % SizeT >= Quantity

CountStock(c) ==
  /\ pool = 0
  /\ IF IsStocked(c) THEN UNCHANGED poolVars ELSE pool' = c /\ maxId' = Max(account[c])
  /\ UNCHANGED <<account, user, open, s_usercoin_accountinfo, workerVars, historyVars, faults>>

\* One batch: an address that cannot be created leaves its account id out.
AddAccounts ==
  /\ pool # 0
  /\ \E ids \in SUBSET (maxId + 1 .. maxId + Quantity) :
       /\ faults' = faults + Quantity - Cardinality(ids) /\ faults' <= MaxFaults
       /\ account' = [account EXCEPT ![pool] = @ \cup ids]
  /\ pool' = 0 /\ maxId' = 0
  /\ UNCHANGED <<user, open, s_usercoin_accountinfo, workerVars, historyVars>>

\* The server process dies and is started again.
Restart ==
  /\ Fault
  /\ open' = FALSE /\ s_usercoin_accountinfo' = <<>>
  /\ pc' = [w \in Worker |-> "idle"]
  /\ request' = [w \in Worker |-> [user |-> 0, coin |-> 0]] /\ picked' = [w \in Worker |-> 0]
  /\ pool' = 0 /\ maxId' = 0
  /\ UNCHANGED <<account, user, historyVars>>

Request == [user : User, coin : Coin]
Serve(w) == LookUp(w) \/ SelectOwn(w) \/ Pick(w) \/ Insert(w)

Next ==
  \/ \E w \in Worker : Serve(w) \/ \E r \in Request : Begin(w, r)
  \/ \E c \in Coin : CountStock(c)
  \/ AddAccounts \/ Restart

Spec == Init /\ [][Next]_vars

\* The scheduler calls getNewAddress for every coin again and again, a worker
\* that began goes on, and a user who was told to wait a minute asks again.
FairSpec ==
  /\ Spec /\ WF_vars(AddAccounts)
  /\ \A c \in Coin : SF_vars(CountStock(c))
  /\ \A w \in Worker : WF_vars(Serve(w))
  /\ \A r \in Request : SF_vars(\E w \in Worker : Begin(w, r))

-------------------------------------------------------------------------------
(* Properties.                                                             *)

TypeOK ==
  /\ account \in [Coin -> SUBSET Nat]
  /\ user \in [Coin -> [User -> Seq(Nat)]]
  /\ open \in BOOLEAN
  /\ \A k \in DOMAIN s_usercoin_accountinfo : s_usercoin_accountinfo[k] \in Nat
  /\ pc \in [Worker -> {"idle", "coin", "own", "pick", "insert"}]
  /\ \A w \in Worker : pc[w] # "idle" => request[w] \in Request
  /\ \A w \in Worker : pc[w] = "insert" => picked[w] \in account[request[w].coin]
  /\ pool \in Coin \cup {0} /\ maxId \in Nat
  /\ given \in [Coin -> [User -> SUBSET Nat]]
  /\ raced \subseteq Coin /\ doubted \subseteq Request
  /\ faults \in Nat

\* An account id tells the accounts of a coin apart (doc/otc.sql:21): no two
\* users are given the same one.  Two workers violate it.
Apart(c) == \A u, v \in User : u # v => given[c][u] \cap given[c][v] = {}
NoSharedAccount == \A c \in Coin : Apart(c)

\* Users share an account of a coin only if a worker picked one for it between
\* the pick and the INSERT of another worker (relay.cpp:96-109).
SharingNeedsRace == \A c \in Coin \ raced : Apart(c)

\* Table user maps a user to his account: he gets the same one each time he
\* asks, from the cache, from the table, and after a restart.  A failed SELECT
\* and two workers violate it.
GivenOnce(r) == Cardinality(given[r.coin][r.user]) <= 1
AddressStable == \A r \in Request : GivenOnce(r)

\* A user is given a second account only if he was once taken for a new one
\* though he had a row (the unchecked SELECT, relay.cpp:79), or while another
\* worker was about to write his first.
SecondNeedsDoubt == \A r \in Request \ doubted : GivenOnce(r)

\* An account is answered only when it exists and its row in table user is
\* written (refreshDB is checked, lines 108-113): deposits find their user.
AnswersRecorded ==
  \A c \in Coin : \A u \in User :
    given[c][u] \subseteq account[c] \cap {user[c][u][k] : k \in DOMAIN user[c][u]}

\* The scheduler stops at twice the quantity, whatever happens between its
\* count and its insertions (client.cpp, lines 677-681), unless workers raced.
StockBounded == \A c \in Coin \ raced : Cardinality(Free(c)) < 2 * Quantity

\* The scheduler leaves the stock alone only while there is an account to give
\* out: "address is creating ,wait a minute" (relay.cpp:103) is no lie.  Two
\* workers violate it: both rows of a shared account count as accounts used up.
HasFree(c) == IsStocked(c) => Free(c) # {}
StockedMeansFree == \A c \in Coin : HasFree(c)

\* Users wait for a stock that the scheduler takes for full only if workers
\* raced for an account of the coin, whatever statement failed.
StarvingNeedsRace == \A c \in Coin \ raced : HasFree(c)

\* Whoever is told "address is creating ,wait a minute" (relay.cpp:103) and
\* asks again gets an address once requests no longer meet in two workers, of
\* which one closes the other's handle, unless they raced for an account of the
\* coin: failed creations, failed statements and restarts only delay it.
Lonely == \A v, w \in Worker : pc[v] # "idle" /\ pc[w] # "idle" => v = w
Served ==
  \A c \in Coin : \A u \in User : <>[]Lonely => <>(given[c][u] # {} \/ c \in raced)
===============================================================================
