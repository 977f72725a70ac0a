---------------------------- MODULE TransfersProofs ----------------------------
(***************************************************************************)
(* Proofs about Transfers, for any number of workers and orders, any       *)
(* amounts and fees, and any number of lost answers and restarts.          *)
(***************************************************************************)
EXTENDS Transfers, FiniteSetTheorems, TLAPS

LEMMA FewerCounted ==
  ASSUME NEW P, NEW Q, IsFiniteSet(P), Q \subseteq P
  PROVE  /\ IsFiniteSet(Q) /\ Cardinality(Q) \in Nat /\ Cardinality(P) \in Nat
         /\ Cardinality(Q) <= Cardinality(P)
BY FS_Subset, FS_CardinalityType

LEMMA OneMoreCounted ==
  ASSUME NEW P, NEW Q, NEW t, IsFiniteSet(P), Q \subseteq P \cup {t}
  PROVE  /\ IsFiniteSet(Q) /\ Cardinality(Q) \in Nat /\ Cardinality(P) \in Nat
         /\ Cardinality(Q) <= Cardinality(P) + 1
<1>1. IsFiniteSet(P \cup {t}) /\ Cardinality(P \cup {t}) <= Cardinality(P) + 1 /\ Cardinality(P) \in Nat
  <2>1. /\ IsFiniteSet(P \cup {t})
        /\ Cardinality(P \cup {t}) = IF t \in P THEN Cardinality(P) ELSE Cardinality(P) + 1
    BY FS_AddElement
  <2>2. Cardinality(P) \in Nat
    BY FS_CardinalityType
  <2> QED
    BY <2>1, <2>2
<1>2. IsFiniteSet(Q) /\ Cardinality(Q) \in Nat /\ Cardinality(P \cup {t}) \in Nat
      /\ Cardinality(Q) <= Cardinality(P \cup {t})
  BY <1>1, FewerCounted
<1> QED
  BY <1>1, <1>2

LEMMA OneLessCounted ==
  ASSUME NEW P, NEW t \in P, IsFiniteSet(P)
  PROVE  /\ IsFiniteSet(P \ {t}) /\ Cardinality(P \ {t}) \in Nat /\ Cardinality(P) \in Nat
         /\ Cardinality(P \ {t}) = Cardinality(P) - 1
BY FS_RemoveElement, FS_CardinalityType

-------------------------------------------------------------------------------
(* The invariant.                                                          *)

Told(o) == IF order[o] = "txid" THEN 1 ELSE 0

\* The workers that serve an order whose caller no longer waits for them.
Unheard(o) == {w \in Worker : job[w] # Idle /\ job[w].order = o /\ ~job[w].live}

Shape(j) ==
  j = [order |-> j.order, pc |-> j.pc, live |-> j.live, coins |-> j.coins, nonce |-> j.nonce,
       block |-> j.block]

JobFits(j) ==
  /\ Shape(j)
  /\ j.order \in Order /\ j.live \in BOOLEAN /\ j.pc \in Nat

JobsFit ==
  /\ order \in [Order -> {"ready", "asked", "failed", "txid", "empty", "text"}]
  /\ lost \in [Order -> Nat]
  /\ job = [w \in Worker |-> job[w]]
  /\ \A w \in Worker : job[w] # Idle => JobFits(job[w])

\* A caller waits for at most one worker.
CallersWait ==
  /\ \A w \in Worker : job[w] # Idle /\ job[w].live => order[job[w].order] = "asked"
  /\ \A v, w \in Worker :
       job[v] # Idle /\ job[w] # Idle /\ job[v].live /\ job[w].live /\ job[v].order = job[w].order => v = w

Finite == \A o \in Order : IsFiniteSet(Payments(o)) /\ IsFiniteSet(Unheard(o))

\* A worker that is not heard may still pay: it counts as if it had.
AnswersLost ==
  \A o \in Order : Cardinality(Payments(o)) + Cardinality(Unheard(o)) <= lost[o] + Told(o)

\* Only a transaction of ETH is replaced, by one of a greater fee.
Outbid(o) == Chain(kind[o]) = "ETH" /\ \E p \in Order : Fee[p] > Fee[o]
PaidUnlessOutbid == \A o \in Order : order[o] = "txid" /\ ~Outbid(o) => Payments(o) # {}

PayInv == JobsFit /\ CallersWait /\ Finite /\ AnswersLost /\ PaidUnlessOutbid

LEMMA IdleIsNotLive == Idle.live = FALSE
BY DEF Idle

LEMMA ToldType == \A o \in Order : Told(o) \in {0, 1}
BY DEF Told

LEMMA PayInit == Init => PayInv
<1> SUFFICES ASSUME Init PROVE PayInv
  OBVIOUS
<1>1. JobsFit /\ CallersWait /\ PaidUnlessOutbid
  BY DEF Init, JobsFit, CallersWait, PaidUnlessOutbid
<1>2. \A o \in Order : Payments(o) = {} /\ Unheard(o) = {} /\ lost[o] = 0
  BY DEF Init, Payments, Accepted, Unheard
<1>3. IsFiniteSet({}) /\ Cardinality({}) = 0
  BY FS_EmptySet
<1>4. Finite /\ AnswersLost
  <2>1. ASSUME NEW o \in Order
        PROVE  /\ IsFiniteSet(Payments(o)) /\ IsFiniteSet(Unheard(o))
               /\ Cardinality(Payments(o)) + Cardinality(Unheard(o)) <= lost[o] + Told(o)
    <3>1. Cardinality(Payments(o)) = 0 /\ Cardinality(Unheard(o)) = 0 /\ lost[o] = 0
      BY <1>2, <1>3
    <3>2. Told(o) \in {0, 1}
      BY ToldType
    <3> QED
      BY <1>2, <1>3, <3>1, <3>2
  <2> QED
    BY <2>1 DEF Finite, AnswersLost
<1> QED
  BY <1>1, <1>4 DEF PayInv

-------------------------------------------------------------------------------
(* What the steps do.                                                      *)

\* The orders but o are left alone.
OthersKept(o) ==
  /\ kind' = kind
  /\ order' \in [Order -> {"ready", "asked", "failed", "txid", "empty", "text"}]
  /\ lost' \in [Order -> Nat]
  /\ \A p \in Order : p # o => order'[p] = order[p] /\ lost'[p] = lost[p]

\* A worker goes on with its order; nothing else changes.
GoesOn(w) ==
  /\ UNCHANGED <<kind, order, lost, mempool, mined>>
  /\ \E j : /\ job' = [job EXCEPT ![w] = j] /\ j # Idle
            /\ JobFits(j) /\ j.order = job[w].order /\ j.live = job[w].live

\* A worker ends, without having paid.
EndsUnpaid(w, o) ==
  /\ job[w] # Idle /\ job[w].order = o /\ job' = [job EXCEPT ![w] = Idle]
  /\ OthersKept(o) /\ UNCHANGED <<mempool, mined>>
  /\ lost'[o] = lost[o]
  /\ IF job[w].live THEN order'[o] # "txid" ELSE order'[o] = order[o]

\* A worker ends, and the node has its transaction.  Others it replaces are of
\* orders it outbids.
EndsPaid(w, o, t) ==
  /\ job[w] # Idle /\ job[w].order = o /\ job' = [job EXCEPT ![w] = Idle]
  /\ OthersKept(o)
  /\ t.order = o /\ t \in mempool' \cup mined'
  /\ mempool' \cup mined' \subseteq Accepted \cup {t}
  /\ \A s \in Accepted : s.order \in Order /\ ~Outbid(s.order) => s \in mempool' \cup mined'
  /\ IF job[w].live
       THEN \/ order'[o] = "txid" /\ lost'[o] = lost[o]
            \/ order'[o] # "txid" /\ lost'[o] = lost[o] + 1
       ELSE order'[o] = order[o] /\ lost'[o] = lost[o]

LEMMA GoesOnInv ==
  ASSUME PayInv, NEW w \in Worker, job[w] # Idle, GoesOn(w)
  PROVE  PayInv'
<1>1. PICK j : /\ job' = [job EXCEPT ![w] = j] /\ j # Idle
               /\ JobFits(j) /\ j.order = job[w].order /\ j.live = job[w].live
  BY DEF GoesOn
<1>2. UNCHANGED <<kind, order, lost, mempool, mined>>
  BY DEF GoesOn
<1>3. /\ job' = [v \in Worker |-> job'[v]]
      /\ \A v \in Worker : job'[v] = IF v = w THEN j ELSE job[v]
  BY <1>1 DEF PayInv, JobsFit
<1>4. JobsFit'
  BY <1>1, <1>2, <1>3 DEF PayInv, JobsFit, JobFits, Idle
<1>5. CallersWait'
  BY <1>1, <1>2, <1>3 DEF PayInv, CallersWait, Idle
<1>6. ASSUME NEW o \in Order PROVE Payments(o)' = Payments(o) /\ Unheard(o)' = Unheard(o) /\ Told(o)' = Told(o)
  BY <1>1, <1>2, <1>3 DEF Payments, Accepted, Unheard, Told, Idle
<1>7. (Finite /\ AnswersLost)'
  BY <1>2, <1>6 DEF PayInv, Finite, AnswersLost
<1>8. PaidUnlessOutbid'
  BY <1>2, <1>6 DEF PayInv, PaidUnlessOutbid, Outbid
<1> QED
  BY <1>4, <1>5, <1>7, <1>8 DEF PayInv

\* A worker that ends leaves the callers of the others waiting.
LEMMA WorkerEnds ==
  ASSUME PayInv, NEW w \in Worker, NEW o \in Order,
         job[w] # Idle, job[w].order = o, job' = [job EXCEPT ![w] = Idle],
         OthersKept(o), ~job[w].live => order'[o] = order[o]
  PROVE  /\ JobsFit' /\ CallersWait'
         /\ \A p \in Order : Unheard(p)' =
              IF p = o /\ ~job[w].live THEN Unheard(p) \ {w} ELSE Unheard(p)
         /\ ~job[w].live => w \in Unheard(o)
         /\ job[w].live => order[o] = "asked"
<1>1. /\ job' = [v \in Worker |-> job'[v]]
      /\ \A v \in Worker : job'[v] = IF v = w THEN Idle ELSE job[v]
  BY DEF PayInv, JobsFit
<1>2. JobsFit'
  BY <1>1 DEF PayInv, JobsFit, JobFits, OthersKept, Idle
<1>3. CallersWait'
  <2>1. ASSUME NEW v \in Worker, job'[v] # Idle, job'[v].live PROVE order'[job'[v].order] = "asked"
    <3>1. v # w /\ job'[v] = job[v]
      BY <1>1, <2>1
    <3>2. order[job[v].order] = "asked" /\ job[v].order \in Order
      BY <2>1, <3>1 DEF PayInv, CallersWait, JobsFit, JobFits
    <3>3. CASE job[v].order = o
      <4>1. ~job[w].live
        BY <2>1, <3>1, <3>3 DEF PayInv, CallersWait
      <4> QED
        BY <3>1, <3>2, <3>3, <4>1
    <3>4. CASE job[v].order # o
      BY <3>1, <3>2, <3>4 DEF OthersKept
    <3> QED
      BY <3>3, <3>4
  <2> QED
    BY <1>1, <2>1 DEF PayInv, CallersWait, Idle
<1>4. \A p \in Order : Unheard(p)' = IF p = o /\ ~job[w].live THEN Unheard(p) \ {w} ELSE Unheard(p)
  BY <1>1 DEF Unheard, Idle
<1>5. /\ ~job[w].live => w \in Unheard(o)
      /\ job[w].live => order[o] = "asked"
  BY DEF Unheard, PayInv, CallersWait
<1> QED
  BY <1>2, <1>3, <1>4, <1>5

LEMMA EndsUnpaidInv ==
  ASSUME PayInv, NEW w \in Worker, NEW o \in Order, EndsUnpaid(w, o)
  PROVE  PayInv'
<1>1. /\ JobsFit' /\ CallersWait'
      /\ \A p \in Order : Unheard(p)' = IF p = o /\ ~job[w].live THEN Unheard(p) \ {w} ELSE Unheard(p)
      /\ job[w].live => order[o] = "asked"
  BY WorkerEnds DEF EndsUnpaid
<1>2. \A p \in Order : Payments(p)' = Payments(p) /\ Unheard(p)' \subseteq Unheard(p)
  BY <1>1 DEF EndsUnpaid, Payments, Accepted
<1>3. ASSUME NEW p \in Order PROVE lost'[p] = lost[p] /\ Told(p)' = Told(p)
  BY <1>1 DEF EndsUnpaid, OthersKept, Told
<1>4. ASSUME NEW p \in Order
      PROVE  /\ IsFiniteSet(Payments(p)') /\ IsFiniteSet(Unheard(p)')
             /\ Cardinality(Payments(p)') + Cardinality(Unheard(p)') <= lost'[p] + Told(p)'
  <2>1. /\ IsFiniteSet(Payments(p)) /\ IsFiniteSet(Unheard(p))
        /\ Cardinality(Payments(p)) + Cardinality(Unheard(p)) <= lost[p] + Told(p)
        /\ lost[p] \in Nat /\ Told(p) \in Nat
    BY ToldType DEF PayInv, Finite, AnswersLost, JobsFit
  <2>2. Cardinality(Payments(p)) \in Nat
    BY <2>1, FS_CardinalityType
  <2>3. /\ IsFiniteSet(Unheard(p)') /\ Cardinality(Unheard(p)') \in Nat /\ Cardinality(Unheard(p)) \in Nat
        /\ Cardinality(Unheard(p)') <= Cardinality(Unheard(p))
    BY <1>2, <2>1, FewerCounted
  <2> QED
    BY <1>2, <1>3, <2>1, <2>2, <2>3
<1>5. Finite' /\ AnswersLost'
  BY <1>4 DEF Finite, AnswersLost
<1>6. PaidUnlessOutbid'
  <2> SUFFICES ASSUME NEW p \in Order, order'[p] = "txid", ~Outbid(p)' PROVE Payments(p)' # {}
    BY DEF PaidUnlessOutbid
  <2>1. order[p] = "txid"
    BY DEF EndsUnpaid, OthersKept
  <2>2. ~Outbid(p)
    BY DEF EndsUnpaid, OthersKept, Outbid
  <2> QED
    BY <1>2, <2>1, <2>2 DEF PayInv, PaidUnlessOutbid
<1> QED
  BY <1>1, <1>5, <1>6 DEF PayInv

LEMMA EndsPaidInv ==
  ASSUME PayInv, NEW w \in Worker, NEW o \in Order, NEW t, EndsPaid(w, o, t)
  PROVE  PayInv'
<1>1. /\ JobsFit' /\ CallersWait'
      /\ \A p \in Order : Unheard(p)' = IF p = o /\ ~job[w].live THEN Unheard(p) \ {w} ELSE Unheard(p)
      /\ ~job[w].live => w \in Unheard(o)
      /\ job[w].live => order[o] = "asked"
  BY WorkerEnds DEF EndsPaid
<1>2. \A p \in Order : Payments(p)' \subseteq IF p = o THEN Payments(p) \cup {t} ELSE Payments(p)
  BY DEF EndsPaid, Payments, Accepted
<1>3. ASSUME NEW p \in Order
      PROVE  /\ IsFiniteSet(Payments(p)') /\ IsFiniteSet(Unheard(p)')
             /\ Cardinality(Payments(p)') + Cardinality(Unheard(p)') <= lost'[p] + Told(p)'
  <2>1. /\ IsFiniteSet(Payments(p)) /\ IsFiniteSet(Unheard(p))
        /\ Cardinality(Payments(p)) + Cardinality(Unheard(p)) <= lost[p] + Told(p)
        /\ lost[p] \in Nat /\ Told(p) \in Nat
    BY ToldType DEF PayInv, Finite, AnswersLost, JobsFit
  <2>2. CASE p # o
    <3>1. /\ IsFiniteSet(Payments(p)') /\ Cardinality(Payments(p)') \in Nat /\ Cardinality(Payments(p)) \in Nat
          /\ Cardinality(Payments(p)') <= Cardinality(Payments(p))
      BY <1>2, <2>1, <2>2, FewerCounted
    <3>2. Unheard(p)' = Unheard(p) /\ lost'[p] = lost[p] /\ Told(p)' = Told(p)
      BY <1>1, <2>2 DEF EndsPaid, OthersKept, Told
    <3>3. Cardinality(Unheard(p)) \in Nat
      BY <2>1, FS_CardinalityType
    <3> QED
      BY <2>1, <3>1, <3>2, <3>3
  <2>3. CASE p = o
    <3>1. /\ IsFiniteSet(Payments(p)') /\ Cardinality(Payments(p)') \in Nat /\ Cardinality(Payments(p)) \in Nat
          /\ Cardinality(Payments(p)') <= Cardinality(Payments(p)) + 1
      BY <1>2, <2>1, <2>3, OneMoreCounted
    <3>2. CASE job[w].live
      <4>1. Unheard(p)' = Unheard(p) /\ order[p] = "asked"
        BY <1>1, <2>3, <3>2
      <4>2. lost'[p] + Told(p)' = lost[p] + Told(p) + 1
        BY <2>1, <2>3, <3>2, <4>1 DEF EndsPaid, Told
      <4>3. Cardinality(Unheard(p)) \in Nat
        BY <2>1, FS_CardinalityType
      <4> QED
        BY <2>1, <3>1, <4>1, <4>2, <4>3
    <3>3. CASE ~job[w].live
      <4>1. Unheard(p)' = Unheard(p) \ {w} /\ w \in Unheard(p)
        BY <1>1, <2>3, <3>3
      <4>2. /\ IsFiniteSet(Unheard(p)') /\ Cardinality(Unheard(p)') \in Nat /\ Cardinality(Unheard(p)) \in Nat
            /\ Cardinality(Unheard(p)') = Cardinality(Unheard(p)) - 1
        BY <2>1, <4>1, OneLessCounted
      <4>3. lost'[p] = lost[p] /\ Told(p)' = Told(p)
        BY <2>3, <3>3 DEF EndsPaid, Told
      <4> QED
        BY <2>1, <3>1, <4>2, <4>3
    <3> QED
      BY <3>2, <3>3
  <2> QED
    BY <2>2, <2>3
<1>4. Finite' /\ AnswersLost'
  BY <1>3 DEF Finite, AnswersLost
<1>5. PaidUnlessOutbid'
  <2> SUFFICES ASSUME NEW p \in Order, order'[p] = "txid", ~Outbid(p)' PROVE Payments(p)' # {}
    BY DEF PaidUnlessOutbid
  <2>1. ~Outbid(p)
    BY DEF EndsPaid, OthersKept, Outbid
  <2>2. CASE p = o
    BY <2>2 DEF EndsPaid, Payments, Accepted
  <2>3. CASE p # o
    <3>1. order[p] = "txid"
      BY <2>3 DEF EndsPaid, OthersKept
    <3>2. PICK s \in Payments(p) : TRUE
      BY <2>1, <3>1 DEF PayInv, PaidUnlessOutbid
    <3>3. s \in Accepted /\ s.order = p
      BY <3>2 DEF Payments
    <3>4. s \in mempool' \cup mined'
      BY <2>1, <3>3 DEF EndsPaid
    <3> QED
      BY <3>3, <3>4 DEF Payments, Accepted
  <2> QED
    BY <2>2, <2>3
<1> QED
  BY <1>1, <1>4, <1>5 DEF PayInv

-------------------------------------------------------------------------------
(* The actions.                                                            *)

\* A worker that serves an order.
Serves(w, o) == w \in Worker /\ o \in Order /\ job[w] # Idle /\ job[w].order = o

LEMMA BusyWorker ==
  ASSUME PayInv, NEW w \in Worker, job[w] # Idle
  PROVE  \E o \in Order : Serves(w, o)
BY DEF PayInv, JobsFit, JobFits, Serves

LEMMA GoOnInv ==
  ASSUME PayInv, NEW w \in Worker, job[w] # Idle,
         NEW j, JobFits(j), j.order = job[w].order, j.live = job[w].live,
         GoOn(w, j), UNCHANGED <<kind, lost, mempool, mined>>
  PROVE  PayInv'
<1> DEFINE k == [j EXCEPT !.pc = @ + 1]
<1>1. k = [order |-> j.order, pc |-> j.pc + 1, live |-> j.live, coins |-> j.coins, nonce |-> j.nonce,
           block |-> j.block]
  BY DEF JobFits, Shape
<1>2. k.pc = j.pc + 1 /\ j.pc \in Nat /\ Idle.pc = 0
  BY <1>1 DEF JobFits, Idle
<1>3. JobFits(k) /\ k.order = job[w].order /\ k.live = job[w].live
  BY <1>1 DEF JobFits, Shape
<1>4. k # Idle
  <2>1. k.pc # Idle.pc
    BY <1>2
  <2> HIDE DEF k
  <2> QED
    BY <2>1
<1>5. job' = [job EXCEPT ![w] = k] /\ order' = order
  BY DEF GoOn
<1>6. GoesOn(w)
  BY <1>3, <1>4, <1>5 DEF GoesOn
<1> QED
  BY <1>6, GoesOnInv

\* The answer reaches a caller who still waits.
AnswerReaches(w, o, a) ==
  /\ job' = [job EXCEPT ![w] = Idle]
  /\ order' \in [Order -> {"ready", "asked", "failed", "txid", "empty", "text"}]
  /\ \A p \in Order : p # o => order'[p] = order[p]
  /\ order'[o] = IF job[w].live THEN a ELSE order[o]

LEMMA AnswerEffect ==
  ASSUME PayInv, NEW w \in Worker, NEW o \in Order, Serves(w, o),
         NEW a \in {"ready", "failed", "txid", "empty", "text"}, Answer(w, a)
  PROVE  AnswerReaches(w, o, a)
BY DEF Answer, AnswerReaches, Serves, PayInv, JobsFit

LEMMA AnswerInv ==
  ASSUME PayInv, NEW w \in Worker, job[w] # Idle,
         NEW a \in {"ready", "failed", "empty", "text"}, Answer(w, a),
         UNCHANGED <<kind, lost, mempool, mined>>
  PROVE  PayInv'
<1>1. PICK o \in Order : Serves(w, o)
  BY BusyWorker
<1>2. AnswerReaches(w, o, a)
  BY <1>1, AnswerEffect
<1>3. OthersKept(o)
  BY <1>2 DEF AnswerReaches, OthersKept, PayInv, JobsFit
<1>4. EndsUnpaid(w, o)
  BY <1>1, <1>2, <1>3 DEF AnswerReaches, EndsUnpaid, Serves
<1> QED
  BY <1>4, EndsUnpaidInv

LEMMA AfterErrorType == \A o : AfterError(o) \in {"ready", "failed"}
BY DEF AfterError

LEMMA FailInv ==
  ASSUME PayInv, NEW w \in Worker, job[w] # Idle, Fail(w), UNCHANGED <<kind, lost, mempool, mined>>
  PROVE  PayInv'
BY AnswerInv, AfterErrorType DEF Fail

LEMMA RefusedInv ==
  ASSUME PayInv, NEW w \in Worker, job[w] # Idle, Refused(w), UNCHANGED <<kind, lost, mempool, mined>>
  PROVE  PayInv'
BY AnswerInv, FailInv DEF Refused

LEMMA BusyFits ==
  ASSUME PayInv, NEW w \in Worker, job[w] # Idle
  PROVE  /\ JobFits(job[w])
         /\ \A S : LET j == [job[w] EXCEPT !.coins = S]
                   IN  JobFits(j) /\ j.order = job[w].order /\ j.live = job[w].live
         /\ \A n : LET j == [job[w] EXCEPT !.nonce = n]
                   IN  JobFits(j) /\ j.order = job[w].order /\ j.live = job[w].live
         /\ \A b : LET j == [job[w] EXCEPT !.block = b]
                   IN  JobFits(j) /\ j.order = job[w].order /\ j.live = job[w].live
BY DEF PayInv, JobsFit, JobFits, Shape

\* The calls before the last one.
LEMMA CallsInv ==
  ASSUME PayInv, NEW w \in Worker,
         \/ ListUnspent(w) \/ ListFeeOutputs(w) \/ Prepare(w) \/ GetInfo(w)
         \/ OpenWallet(w) \/ ReadKey(w) \/ GetNonce(w)
  PROVE  PayInv'
<1>1. job[w] # Idle
  BY DEF ListUnspent, ListFeeOutputs, Prepare, GetInfo, OpenWallet, ReadKey, GetNonce, At
<1>2. UNCHANGED <<kind, lost, mempool, mined>>
  BY DEF ListUnspent, ListFeeOutputs, Prepare, GetInfo, OpenWallet, ReadKey, GetNonce, nodeVars
<1>3. \/ Fail(w) \/ Answer(w, "empty") \/ Answer(w, "text") \/ GoOn(w, job[w])
      \/ \E S : GoOn(w, [job[w] EXCEPT !.coins = S])
      \/ GoOn(w, [job[w] EXCEPT !.nonce = PendingCount])
      \/ GoOn(w, [job[w] EXCEPT !.block = head])
  BY DEF ListUnspent, ListFeeOutputs, Prepare, GetInfo, OpenWallet, ReadKey, GetNonce
<1>4. CASE Fail(w)
  BY <1>1, <1>2, <1>4, FailInv
<1>5. CASE Answer(w, "empty") \/ Answer(w, "text")
  BY <1>1, <1>2, <1>5, AnswerInv
<1>6. CASE GoOn(w, job[w])
  BY <1>1, <1>2, <1>6, BusyFits, GoOnInv
<1>7. CASE \E S : GoOn(w, [job[w] EXCEPT !.coins = S])
  BY <1>1, <1>2, <1>7, BusyFits, GoOnInv
<1>8. CASE GoOn(w, [job[w] EXCEPT !.nonce = PendingCount])
  BY <1>1, <1>2, <1>8, BusyFits, GoOnInv
<1>9. CASE GoOn(w, [job[w] EXCEPT !.block = head])
  BY <1>1, <1>2, <1>9, BusyFits, GoOnInv
<1> QED
  BY <1>3, <1>4, <1>5, <1>6, <1>7, <1>8, <1>9

\* What the node does with a transaction it accepts.
LEMMA AcceptEffect ==
  ASSUME NEW w \in Worker, NEW o \in Order, Serves(w, o), Accept(job[w])
  PROVE  \E t : /\ t.order = o /\ t \in mempool' \cup mined'
                /\ mempool' \cup mined' \subseteq Accepted \cup {t}
                /\ \A s \in Accepted : s.order \in Order /\ ~Outbid(s.order) => s \in mempool' \cup mined'
<1> DEFINE t == Transaction(job[w])
           R == IF Chain(kind[job[w].order]) = "ETH" THEN Replaces(job[w].order, job[w].nonce) ELSE {}
<1>1. t.order = o
  BY DEF Transaction, Serves
<1>2. mempool' = (mempool \ R) \cup {t} /\ mined' = mined
  BY DEF Accept
<1>3. ASSUME NEW s \in R, s.order \in Order PROVE Outbid(s.order)
  <2>1. s \in On("ETH", mempool) /\ Fee[job[w].order] > Fee[s.order]
    BY DEF Replaces
  <2>2. Chain(kind[s.order]) = "ETH"
    BY <2>1 DEF On
  <2> QED
    BY <2>1, <2>2 DEF Outbid, Serves
<1> HIDE DEF t, R
<1>4. t \in mempool' \cup mined' /\ mempool' \cup mined' \subseteq Accepted \cup {t}
  BY <1>2 DEF Accepted
<1>5. \A s \in Accepted : s.order \in Order /\ ~Outbid(s.order) => s \in mempool' \cup mined'
  BY <1>2, <1>3 DEF Accepted
<1> QED
  BY <1>1, <1>4, <1>5

LEMMA SendInv ==
  ASSUME PayInv, NEW w \in Worker, Send(w)
  PROVE  PayInv'
<1>1. job[w] # Idle
  BY DEF Send, At
<1>2. CASE Refused(w) /\ UNCHANGED nodeVars
  BY <1>1, <1>2, RefusedInv DEF Send, nodeVars
<1>3. CASE Accept(job[w]) /\ Answer(w, "txid")
  <2>1. PICK o \in Order : Serves(w, o)
    BY <1>1, BusyWorker
  <2>2. PICK t : /\ t.order = o /\ t \in mempool' \cup mined'
                 /\ mempool' \cup mined' \subseteq Accepted \cup {t}
                 /\ \A s \in Accepted : s.order \in Order /\ ~Outbid(s.order) => s \in mempool' \cup mined'
    BY <1>3, <2>1, AcceptEffect
  <2>3. AnswerReaches(w, o, "txid")
    BY <1>3, <2>1, AnswerEffect
  <2>4. kind' = kind /\ lost' = lost
    BY DEF Send
  <2>5. OthersKept(o)
    BY <2>3, <2>4 DEF AnswerReaches, OthersKept, PayInv, JobsFit
  <2>6. EndsPaid(w, o, t)
    BY <2>1, <2>2, <2>3, <2>4, <2>5 DEF AnswerReaches, EndsPaid, Serves
  <2> QED
    BY <2>6, EndsPaidInv
<1> QED
  BY <1>2, <1>3 DEF Send

LEMMA ReplyLostInv ==
  ASSUME PayInv, NEW w \in Worker, ReplyLost(w)
  PROVE  PayInv'
<1>1. job[w] # Idle
  BY DEF ReplyLost, At
<1>2. PICK o \in Order : Serves(w, o)
  BY <1>1, BusyWorker
<1>3. PICK t : /\ t.order = o /\ t \in mempool' \cup mined'
               /\ mempool' \cup mined' \subseteq Accepted \cup {t}
               /\ \A s \in Accepted : s.order \in Order /\ ~Outbid(s.order) => s \in mempool' \cup mined'
  BY <1>2, AcceptEffect DEF ReplyLost
<1>4. \E a \in {"ready", "failed"} : AnswerReaches(w, o, a)
  BY <1>2, AnswerEffect, AfterErrorType DEF ReplyLost, Fail
<1>5. /\ kind' = kind
      /\ lost' = IF job[w].live THEN [lost EXCEPT ![o] = @ + 1] ELSE lost
  BY <1>2 DEF ReplyLost, Serves
<1>6. lost \in [Order -> Nat]
  BY DEF PayInv, JobsFit
<1>7. /\ lost' \in [Order -> Nat] /\ \A p \in Order : p # o => lost'[p] = lost[p]
      /\ lost'[o] = IF job[w].live THEN lost[o] + 1 ELSE lost[o]
  BY <1>5, <1>6
<1>8. OthersKept(o)
  BY <1>4, <1>5, <1>7 DEF AnswerReaches, OthersKept
<1>9. EndsPaid(w, o, t)
  BY <1>2, <1>3, <1>4, <1>7, <1>8 DEF AnswerReaches, EndsPaid, Serves
<1> QED
  BY <1>9, EndsPaidInv

LEMMA FailsInv ==
  ASSUME PayInv, NEW w \in Worker, SendRefused(w) \/ CallFails(w)
  PROVE  PayInv'
<1>1. job[w] # Idle /\ UNCHANGED <<kind, lost, mempool, mined>>
  BY DEF SendRefused, CallFails, At, nodeVars
<1> QED
  BY <1>1, FailInv, RefusedInv DEF SendRefused, CallFails

LEMMA ShapeUpdates ==
  ASSUME NEW j, Shape(j), NEW x
  PROVE  /\ LET k == [j EXCEPT !.order = x]
            IN  Shape(k) /\ k.order = x /\ k.pc = j.pc /\ k.live = j.live
         /\ LET k == [j EXCEPT !.pc = x]
            IN  Shape(k) /\ k.order = j.order /\ k.pc = x /\ k.live = j.live
         /\ LET k == [j EXCEPT !.live = x]
            IN  Shape(k) /\ k.order = j.order /\ k.pc = j.pc /\ k.live = x
BY DEF Shape

LEMMA AskInv ==
  ASSUME PayInv, NEW w \in Worker, NEW o \in Order, Ask(w, o)
  PROVE  PayInv'
<1> DEFINE j == [Idle EXCEPT !.order = o, !.pc = 1, !.live = TRUE]
<1>1. Shape(j) /\ j.order = o /\ j.pc = 1 /\ j.live = TRUE
  <2>0. PICK n : n = 1
    OBVIOUS
  <2> DEFINE j1 == [Idle EXCEPT !.order = o]
             j2 == [j1 EXCEPT !.pc = n]
  <2>1. Shape(Idle)
    BY DEF Idle, Shape
  <2>2. Shape(j1) /\ j1.order = o
    BY <2>1, ShapeUpdates
  <2> HIDE DEF j1
  <2>3. Shape(j2) /\ j2.order = o /\ j2.pc = 1
    <3>1. LET k == [j1 EXCEPT !.pc = n]
          IN  Shape(k) /\ k.order = j1.order /\ k.pc = n /\ k.live = j1.live
      BY <2>2, ShapeUpdates
    <3> QED
      BY <2>0, <2>2, <3>1
  <2> HIDE DEF j2
  <2>4. LET k == [j2 EXCEPT !.live = TRUE]
        IN  Shape(k) /\ k.order = o /\ k.pc = 1 /\ k.live = TRUE
    BY <2>3, ShapeUpdates
  <2>5. j = [j2 EXCEPT !.live = TRUE]
    BY <2>0 DEF j1, j2
  <2> HIDE DEF j
  <2> QED
    BY <2>4, <2>5
<1>2. JobFits(j) /\ j.order = o /\ j.live /\ j # Idle
  <2> HIDE DEF j
  <2> QED
    <3>1. TRUE \in BOOLEAN /\ 1 \in Nat
      OBVIOUS
    <3>2. j # Idle
      BY <1>1, IdleIsNotLive
    <3> QED
      BY <1>1, <3>1, <3>2 DEF JobFits
<1>3. /\ job[w] = Idle /\ order[o] = "ready" /\ job' = [job EXCEPT ![w] = j]
      /\ order' = [order EXCEPT ![o] = "asked"] /\ UNCHANGED <<kind, lost, mempool, mined>>
  BY DEF Ask, nodeVars
<1> HIDE DEF j
<1>4. /\ job' = [v \in Worker |-> job'[v]]
      /\ \A v \in Worker : job'[v] = IF v = w THEN j ELSE job[v]
  BY <1>3 DEF PayInv, JobsFit
<1>5. /\ order' \in [Order -> {"ready", "asked", "failed", "txid", "empty", "text"}]
      /\ \A p \in Order : order'[p] = IF p = o THEN "asked" ELSE order[p]
  BY <1>3 DEF PayInv, JobsFit
<1>6. JobsFit'
  BY <1>2, <1>3, <1>4, <1>5 DEF PayInv, JobsFit, JobFits, Idle
<1>7. CallersWait'
  <2>1. \A v \in Worker : job[v] # Idle /\ job[v].live => job[v].order # o /\ job[v].order \in Order
    BY <1>3 DEF PayInv, CallersWait, JobsFit, JobFits
  <2> QED
    BY <1>2, <1>4, <1>5, <2>1 DEF PayInv, CallersWait, Idle
<1>8. ASSUME NEW p \in Order PROVE Payments(p)' = Payments(p) /\ Unheard(p)' = Unheard(p) /\ Told(p)' = Told(p)
  BY <1>2, <1>3, <1>4, <1>5 DEF Payments, Accepted, Unheard, Told, Idle
<1>9. (Finite /\ AnswersLost)'
  BY <1>3, <1>8 DEF PayInv, Finite, AnswersLost
<1>10. PaidUnlessOutbid'
  BY <1>3, <1>5, <1>8 DEF PayInv, PaidUnlessOutbid, Outbid
<1> QED
  BY <1>6, <1>7, <1>9, <1>10 DEF PayInv

LEMMA HangUpInv ==
  ASSUME PayInv, NEW w \in Worker, HangUp(w)
  PROVE  PayInv'
<1> DEFINE j == [job[w] EXCEPT !.live = FALSE]
<1>0. job[w] # Idle /\ job[w].live
  BY IdleIsNotLive DEF HangUp
<1>1. PICK o \in Order : job[w].order = o
  BY <1>0, BusyWorker DEF Serves
<1>2. JobFits(job[w])
  BY <1>0 DEF PayInv, JobsFit
<1>3. JobFits(j) /\ j.order = o /\ ~j.live
  <2>1. Shape(job[w])
    BY <1>2 DEF JobFits
  <2>2. Shape(j) /\ j.order = job[w].order /\ j.pc = job[w].pc /\ j.live = FALSE
    BY <2>1, ShapeUpdates
  <2> HIDE DEF j
  <2> QED
    BY <1>1, <1>2, <2>2 DEF JobFits
<1>4. /\ job' = [job EXCEPT ![w] = j]
      /\ order' = [order EXCEPT ![o] = AfterError(o)] /\ lost' = [lost EXCEPT ![o] = @ + 1]
      /\ UNCHANGED <<kind, mempool, mined>>
  BY <1>1 DEF HangUp, nodeVars, PayInv, JobsFit
<1> HIDE DEF j
<1>5. /\ job' = [v \in Worker |-> job'[v]]
      /\ \A v \in Worker : job'[v] = IF v = w THEN j ELSE job[v]
  BY <1>4 DEF PayInv, JobsFit
<1>6. /\ order' \in [Order -> {"ready", "asked", "failed", "txid", "empty", "text"}]
      /\ \A p \in Order : order'[p] = IF p = o THEN AfterError(o) ELSE order[p]
  BY <1>4, AfterErrorType DEF PayInv, JobsFit
<1>7. lost' \in [Order -> Nat] /\ \A p \in Order : lost'[p] = IF p = o THEN lost[o] + 1 ELSE lost[p]
  BY <1>4 DEF PayInv, JobsFit
<1>8. JobsFit'
  BY <1>3, <1>5, <1>6, <1>7 DEF PayInv, JobsFit, JobFits, Idle
<1>9. \A v \in Worker : job[v] # Idle /\ job[v].live /\ v # w => job[v].order # o /\ job[v].order \in Order
  BY <1>0, <1>1 DEF PayInv, CallersWait, JobsFit, JobFits
<1>10. CallersWait'
  BY <1>3, <1>5, <1>6, <1>9 DEF PayInv, CallersWait, Idle
<1>11. order[o] = "asked" /\ AfterError(o) # "txid"
  BY <1>0, <1>1, AfterErrorType DEF PayInv, CallersWait
<1>12. ASSUME NEW p \in Order
       PROVE  /\ Payments(p)' = Payments(p) /\ Told(p)' = Told(p)
              /\ Unheard(p)' \subseteq IF p = o THEN Unheard(p) \cup {w} ELSE Unheard(p)
  <2>1. Payments(p)' = Payments(p)
    BY <1>4 DEF Payments, Accepted
  <2>2. Told(p)' = Told(p)
    BY <1>6, <1>11 DEF Told
  <2>3. Unheard(p)' \subseteq IF p = o THEN Unheard(p) \cup {w} ELSE Unheard(p)
    BY <1>3, <1>5 DEF Unheard, Idle
  <2> QED
    BY <2>1, <2>2, <2>3
<1>13. ASSUME NEW p \in Order
       PROVE  /\ IsFiniteSet(Payments(p)') /\ IsFiniteSet(Unheard(p)')
              /\ Cardinality(Payments(p)') + Cardinality(Unheard(p)') <= lost'[p] + Told(p)'
  <2>1. /\ IsFiniteSet(Payments(p)) /\ IsFiniteSet(Unheard(p))
        /\ Cardinality(Payments(p)) + Cardinality(Unheard(p)) <= lost[p] + Told(p)
        /\ lost[p] \in Nat /\ Told(p) \in Nat
    BY ToldType DEF PayInv, Finite, AnswersLost, JobsFit
  <2>2. Cardinality(Payments(p)) \in Nat
    BY <2>1, FS_CardinalityType
  <2>3. CASE p = o
    <3>1. /\ IsFiniteSet(Unheard(p)') /\ Cardinality(Unheard(p)') \in Nat /\ Cardinality(Unheard(p)) \in Nat
          /\ Cardinality(Unheard(p)') <= Cardinality(Unheard(p)) + 1
      BY <1>12, <2>1, <2>3, OneMoreCounted
    <3>2. lost'[p] = lost[p] + 1
      BY <1>7, <2>3
    <3> QED
      BY <1>12, <2>1, <2>2, <3>1, <3>2
  <2>4. CASE p # o
    <3>1. /\ IsFiniteSet(Unheard(p)') /\ Cardinality(Unheard(p)') \in Nat /\ Cardinality(Unheard(p)) \in Nat
          /\ Cardinality(Unheard(p)') <= Cardinality(Unheard(p))
      BY <1>12, <2>1, <2>4, FewerCounted
    <3>2. lost'[p] = lost[p]
      BY <1>7, <2>4
    <3> QED
      BY <1>12, <2>1, <2>2, <3>1, <3>2
  <2> QED
    BY <2>3, <2>4
<1>14. Finite' /\ AnswersLost'
  BY <1>13 DEF Finite, AnswersLost
<1>15. PaidUnlessOutbid'
  BY <1>4, <1>6, <1>11, <1>12 DEF PayInv, PaidUnlessOutbid, Outbid
<1> QED
  BY <1>8, <1>10, <1>14, <1>15 DEF PayInv

LEMMA RestartInv ==
  ASSUME PayInv, Restart
  PROVE  PayInv'
<1> DEFINE broken == {job[w].order : w \in {v \in Worker : job[v].live}}
<1>1. /\ order' = [o \in Order |-> IF o \in broken THEN AfterError(o) ELSE order[o]]
      /\ lost' = [o \in Order |-> IF o \in broken THEN lost[o] + 1 ELSE lost[o]]
      /\ job' = [w \in Worker |-> Idle] /\ UNCHANGED <<kind, mempool, mined>>
  BY DEF Restart, nodeVars
<1>2. \A o \in Order : o \in broken => order[o] = "asked"
  BY IdleIsNotLive DEF PayInv, CallersWait
<1> HIDE DEF broken
<1>3. /\ order' \in [Order -> {"ready", "asked", "failed", "txid", "empty", "text"}]
      /\ lost' \in [Order -> Nat]
  BY <1>1, AfterErrorType DEF PayInv, JobsFit
<1>4. JobsFit'
  BY <1>1, <1>3 DEF JobsFit
<1>5. CallersWait'
  BY <1>1 DEF CallersWait
<1>6. ASSUME NEW o \in Order PROVE Payments(o)' = Payments(o) /\ Told(o)' = Told(o) /\ Unheard(o)' = {}
  BY <1>1, <1>2, AfterErrorType DEF Payments, Accepted, Told, Unheard
<1>7. ASSUME NEW o \in Order
      PROVE  /\ IsFiniteSet(Payments(o)') /\ IsFiniteSet(Unheard(o)')
             /\ Cardinality(Payments(o)') + Cardinality(Unheard(o)') <= lost'[o] + Told(o)'
  <2>1. /\ IsFiniteSet(Payments(o)) /\ IsFiniteSet(Unheard(o))
        /\ Cardinality(Payments(o)) + Cardinality(Unheard(o)) <= lost[o] + Told(o)
        /\ lost[o] \in Nat /\ Told(o) \in Nat
    BY ToldType DEF PayInv, Finite, AnswersLost, JobsFit
  <2>2. Cardinality(Payments(o)) \in Nat /\ Cardinality(Unheard(o)) \in Nat
    BY <2>1, FS_CardinalityType
  <2>3. IsFiniteSet({}) /\ Cardinality({}) = 0
    BY FS_EmptySet
  <2>4. lost'[o] = lost[o] \/ lost'[o] = lost[o] + 1
    BY <1>1
  <2> QED
    BY <1>6, <2>1, <2>2, <2>3, <2>4
<1>8. Finite' /\ AnswersLost'
  BY <1>7 DEF Finite, AnswersLost
<1>9. PaidUnlessOutbid'
  <2>1. \A o \in Order : order'[o] = "txid" => order[o] = "txid"
    BY <1>1, AfterErrorType
  <2> QED
    BY <1>1, <1>6, <2>1 DEF PayInv, PaidUnlessOutbid, Outbid
<1> QED
  BY <1>4, <1>5, <1>8, <1>9 DEF PayInv

\* A step of a node or of the scheduler.
LEMMA OthersInv ==
  ASSUME PayInv, UNCHANGED <<kind, order, lost, job>>, mempool' \cup mined' = mempool \cup mined
  PROVE  PayInv'
<1>1. \A o \in Order : Payments(o)' = Payments(o) /\ Unheard(o)' = Unheard(o) /\ Told(o)' = Told(o)
  BY DEF Payments, Accepted, Unheard, Told
<1>2. JobsFit' /\ CallersWait'
  BY DEF PayInv, JobsFit, CallersWait
<1>3. Finite' /\ AnswersLost'
  BY <1>1 DEF PayInv, Finite, AnswersLost
<1>4. PaidUnlessOutbid'
  BY <1>1 DEF PayInv, PaidUnlessOutbid, Outbid
<1> QED
  BY <1>2, <1>3, <1>4 DEF PayInv

LEMMA PayInvHolds == Spec => []PayInv
<1>1. ASSUME PayInv, [Next]_vars PROVE PayInv'
  <2>1. CASE \E w \in Worker, o \in Order : Ask(w, o)
    BY <1>1, <2>1, AskInv
  <2>2. CASE \E w \in Worker : Transfer(w)
    BY <1>1, <2>2, CallsInv, SendInv DEF Transfer
  <2>3. CASE \E w \in Worker : HangUp(w) \/ SendRefused(w) \/ ReplyLost(w) \/ CallFails(w)
    BY <1>1, <2>3, HangUpInv, FailsInv, ReplyLostInv
  <2>4. CASE \E c \in Coin : Mine(c)
    <3>1. UNCHANGED <<kind, order, lost, job>> /\ mempool' \cup mined' = mempool \cup mined
      BY <2>4 DEF Mine, On
    <3> QED
      BY <1>1, <3>1, OthersInv
  <2>5. CASE SchedulerOpens \/ SchedulerCloses
    <3>1. UNCHANGED <<kind, order, lost, job, mempool, mined>>
      BY <2>5 DEF SchedulerOpens, SchedulerCloses, nodeVars
    <3> QED
      BY <1>1, <3>1, OthersInv
  <2>6. CASE Restart
    BY <1>1, <2>6, RestartInv
  <2>7. CASE UNCHANGED vars
    <3>1. UNCHANGED <<kind, order, lost, job, mempool, mined>>
      BY <2>7 DEF vars
    <3> QED
      BY <1>1, <3>1, OthersInv
  <2> QED
    BY <1>1, <2>1, <2>2, <2>3, <2>4, <2>5, <2>6, <2>7 DEF Next
<1> QED
  BY <1>1, PayInit, PTL DEF Spec

-------------------------------------------------------------------------------
(* What the invariant says.                                                *)

\* An order is paid for no more often than answers to it were lost, and once
\* more if its caller was told a transaction id: `rpc call fail!`
\* (relay.cpp:147) is not said of a payment the node accepted.
THEOREM ErrorsAreUnpaid == Spec => []ErrorMeansUnpaid
<1>1. ASSUME PayInv PROVE ErrorMeansUnpaid
  <2> SUFFICES ASSUME NEW o \in Order PROVE Cardinality(Payments(o)) <= lost[o] + Told(o)
    BY DEF ErrorMeansUnpaid, Told
  <2>1. /\ IsFiniteSet(Payments(o)) /\ IsFiniteSet(Unheard(o))
        /\ Cardinality(Payments(o)) + Cardinality(Unheard(o)) <= lost[o] + Told(o)
        /\ lost[o] \in Nat /\ Told(o) \in Nat
    BY <1>1, ToldType DEF PayInv, Finite, AnswersLost, JobsFit
  <2>2. Cardinality(Payments(o)) \in Nat /\ Cardinality(Unheard(o)) \in Nat
    BY <2>1, FS_CardinalityType
  <2> QED
    BY <2>1, <2>2
<1> QED
  BY <1>1, PayInvHolds, PTL

\* Who was told a transaction id is paid for, unless another order of ETH
\* offers more (ethwalletweb3.py:202).
THEOREM TxidsArePaid == Spec => []PaidUnlessOutbid
<1>1. PayInv => PaidUnlessOutbid
  BY DEF PayInv
<1> QED
  BY <1>1, PayInvHolds, PTL

\* If no order offers more than another, every transaction id is of a payment.
THEOREM TxidsArePaidAtOneFee ==
  ASSUME \A o, p \in Order : Fee[o] = Fee[p]
  PROVE  Spec => []TxidMeansPaid
<1>1. \A o \in Order : ~Outbid(o)
  BY TransferAssumption DEF Outbid
<1>2. PayInv => TxidMeansPaid
  BY <1>1 DEF PayInv, PaidUnlessOutbid, TxidMeansPaid
<1> QED
  BY <1>2, PayInvHolds, PTL
================================================================================
