---------------------------- MODULE HttpServerProofs ----------------------------
(***************************************************************************)
(* Proofs about HttpServer, for any number of requests and workers and any *)
(* depth of the work queue.                                                *)
(***************************************************************************)
EXTENDS HttpServer, FiniteSetTheorems, SequenceTheorems, TLAPS

Busy(w) == thread[w] \in {"serve", "reply"}
InQueue(r) == \E k \in 1..Len(queue) : queue[k] = r
InService(r) == \E w \in Worker : serving[w] = r

\* Where a request may be: once in the queue, or with one worker who is busy.
Places ==
  /\ \A w \in Worker : Busy(w) <=> serving[w] # NoRequest
  /\ \A w \in Worker : serving[w] \in received \cup {NoRequest}
  /\ \A v, w \in Worker : serving[v] = serving[w] => v = w \/ serving[w] = NoRequest
  /\ \A k \in 1..Len(queue) : queue[k] \in received
  /\ \A j, k \in 1..Len(queue) : queue[j] = queue[k] => j = k
  /\ \A k \in 1..Len(queue), w \in Worker : serving[w] # queue[k]

\* OneReply, a request at a time.
Replies ==
  \A r \in Request :
    written[r] = IF r \in received /\ ~InQueue(r) /\ ~InService(r) THEN 1 ELSE 0

HttpInv == TypeOK /\ Places /\ Replies

LEMMA InitHolds == Init => HttpInv
<1> SUFFICES ASSUME Init PROVE HttpInv
  OBVIOUS
<1> USE HttpAssumption DEF Init
<1>1. queue \in Seq(Request) /\ Len(queue) = 0
  BY EmptySeq
<1>2. TypeOK
  <2>1. /\ thread \in [Worker -> {"unborn", "run", "wait", "serve", "reply"}]
        /\ serving \in [Worker -> Request \cup {NoRequest}]
    OBVIOUS
  <2>2. /\ answer \in [Request -> Kind \cup {"none", "full", "warmup", "ok", "error"}]
        /\ written \in [Request -> Nat]
    OBVIOUS
  <2>3. Len(queue) <= MaxDepth
    BY <1>1
  <2> QED
    BY <1>1, <2>1, <2>2, <2>3 DEF TypeOK
<1>3. Places
  BY <1>1 DEF Places, Busy
<1>4. Replies
  BY <1>1 DEF Replies
<1> QED
  BY <1>2, <1>3, <1>4 DEF HttpInv

\* The steps that leave the requests where they are.
LEMMA StayStep ==
  ASSUME TypeOK', HttpInv,
         UNCHANGED <<received, queue, serving, written>>,
         \A w \in Worker : Busy(w)' <=> Busy(w)
  PROVE  HttpInv'
<1>1. Places'
  BY Zenon DEF HttpInv, Places
<1>2. Replies'
  BY Zenon DEF HttpInv, Replies, InQueue, InService
<1> QED
  BY <1>1, <1>2 DEF HttpInv

\* http_request_cb: the request is new, so it is nowhere yet.
LEMMA ReceiveStep == ASSUME HttpInv, NEW r \in Request, Receive(r) PROVE HttpInv'
<1> USE HttpAssumption DEF HttpInv
<1>1. r \notin received /\ received' = received \cup {r} /\ serving' = serving
  BY DEF Receive
<1>2. ~InQueue(r) /\ ~InService(r) /\ written[r] = 0
  BY <1>1 DEF Places, InQueue, InService, Replies
<1>3. \A w \in Worker : Busy(w)' <=> Busy(w)
  BY DEF Receive, Enqueue, NotifyOne, In, Busy, TypeOK
<1>4. TypeOK'
  <2>1. thread' \in [Worker -> {"unborn", "run", "wait", "serve", "reply"}]
    BY DEF TypeOK, Receive, Enqueue, NotifyOne, In
  <2>2. queue' \in Seq(Request) /\ Len(queue') <= MaxDepth
    <3>1. CASE queue' = queue
      BY <3>1 DEF TypeOK
    <3>2. CASE queue' = Append(queue, r) /\ Len(queue) < MaxDepth
      BY <3>2, AppendProperties DEF TypeOK
    <3> QED
      BY <3>1, <3>2 DEF Receive, Enqueue, TypeOK
  <2>3. /\ answer' \in [Request -> Kind \cup {"none", "full", "warmup", "ok", "error"}]
        /\ written' \in [Request -> Nat] /\ event' \in SUBSET Request
    <3>1. CASE UNCHANGED <<answer, written, event>>
      BY <3>1 DEF TypeOK
    <3>2. ASSUME NEW o \in {"refused", "nopath", "full"}, WriteReply(r, o)
          PROVE  /\ answer' \in [Request -> Kind \cup {"none", "full", "warmup", "ok", "error"}]
                 /\ written' \in [Request -> Nat] /\ event' \in SUBSET Request
      <4>1. o \in Kind \cup {"none", "full", "warmup", "ok", "error"}
        BY DEF Kind
      <4> QED
        BY <3>2, <4>1 DEF TypeOK, WriteReply
    <3>3. \/ UNCHANGED <<answer, written, event>>
          \/ \E o \in {"refused", "nopath", "full"} : WriteReply(r, o)
      BY Zenon DEF Receive, Enqueue
    <3> QED
      BY <3>1, <3>2, <3>3
  <2> QED
    BY <1>1, <2>1, <2>2, <2>3 DEF TypeOK, Receive
<1>5. CASE queue' = queue /\ WriteReply(r, answer'[r])
  <2>1. Places'
    BY <1>1, <1>3, <1>5 DEF Places
  <2>2. Replies'
    BY <1>1, <1>2, <1>5 DEF Replies, InQueue, InService, WriteReply, TypeOK
  <2> QED
    BY <2>1, <2>2, <1>4
<1>6. CASE queue' = Append(queue, r) /\ written' = written
  <2>1. /\ Len(queue') = Len(queue) + 1 /\ queue'[Len(queue) + 1] = r
        /\ \A k \in 1..Len(queue) : queue'[k] = queue[k]
    BY <1>6 DEF TypeOK
  <2>2. Len(queue) \in Nat
    BY DEF TypeOK
  <2>3. Places'
    BY <1>1, <1>2, <1>3, <2>1, <2>2 DEF Places, InQueue, InService
  <2>4. \A q \in Request : InQueue(q)' <=> InQueue(q) \/ q = r
    BY <2>1, <2>2 DEF InQueue
  <2>5. Replies'
    BY <1>1, <1>2, <1>6, <2>4 DEF Replies, InService, TypeOK
  <2> QED
    BY <2>3, <2>5, <1>4
<1> QED
  BY <1>5, <1>6 DEF Receive, Enqueue, WriteReply, TypeOK

\* WorkQueue::Run takes the first request out of the queue.
LEMMA TakeStep ==
  ASSUME HttpInv, NEW w \in Worker, Take(w), queue # <<>> PROVE HttpInv'
<1> USE HttpAssumption DEF HttpInv
<1>1. /\ Len(queue) \in Nat \ {0} /\ Len(queue') = Len(queue) - 1
      /\ \A k \in 1..Len(queue) - 1 : queue'[k] = queue[k + 1]
      /\ queue' \in Seq(Request)
  <2>1. queue' = Tail(queue) /\ queue \in Seq(Request)
    BY DEF Take, TypeOK
  <2> QED
    BY <2>1, EmptySeq, HeadTailProperties
<1>2. /\ serving' = [serving EXCEPT ![w] = queue[1]] /\ serving[w] = NoRequest
      /\ thread' = [thread EXCEPT ![w] = "serve"] /\ queue[1] \in Request
  <2>1. Head(queue) = queue[1] /\ Head(queue) \in Request
    BY HeadTailProperties DEF TypeOK
  <2>2. thread[w] = "run" /\ serving[w] = NoRequest
    BY DEF Take, Places, Busy
  <2> QED
    BY <2>1, <2>2 DEF Take
<1>3. UNCHANGED <<received, written, answer, event, sent, main, fRPCInWarmup, fRequestShutdown>>
  BY DEF Take, replyVars
<1>4. TypeOK'
  BY <1>1, <1>2, <1>3 DEF TypeOK
<1>5. Places'
  <2>1. /\ \A v \in Worker : Busy(v)' <=> serving'[v] # NoRequest
        /\ \A v \in Worker : serving'[v] \in received' \cup {NoRequest}
    BY <1>1, <1>2, <1>3 DEF Places, Busy, TypeOK
  <2>2. \A u, v \in Worker : serving'[u] = serving'[v] => u = v \/ serving'[v] = NoRequest
    BY <1>1, <1>2 DEF Places, TypeOK
  <2>3. /\ \A k \in 1..Len(queue') : queue'[k] \in received'
        /\ \A j, k \in 1..Len(queue') : queue'[j] = queue'[k] => j = k
    <3>1. \A k \in 1..Len(queue') : k + 1 \in 1..Len(queue) /\ queue'[k] = queue[k + 1]
      BY <1>1
    <3>2. \A j, k \in 1..Len(queue') : j + 1 = k + 1 => j = k
      OBVIOUS
    <3>3. \A k \in 1..Len(queue') : queue'[k] \in received'
      BY <1>3, <3>1 DEF Places
    <3>4. ASSUME NEW j \in 1..Len(queue'), NEW k \in 1..Len(queue'), queue'[j] = queue'[k]
          PROVE  j = k
      <4>1. j + 1 \in 1..Len(queue) /\ k + 1 \in 1..Len(queue) /\ queue[j + 1] = queue[k + 1]
        BY <3>1, <3>4
      <4>2. j + 1 = k + 1
        BY <4>1 DEF Places
      <4> QED
        BY <3>2, <4>2
    <3> QED
      BY <3>3, <3>4
  <2>4. \A k \in 1..Len(queue'), v \in Worker : serving'[v] # queue'[k]
    <3> TAKE k \in 1..Len(queue'), v \in Worker
    <3>1. /\ k + 1 \in 1..Len(queue) /\ queue'[k] = queue[k + 1] /\ 1 \in 1..Len(queue)
          /\ k + 1 # 1
      BY <1>1
    <3>2. queue[1] # queue[k + 1] /\ serving[v] # queue[k + 1]
      BY <3>1 DEF Places
    <3> QED
      BY <1>2, <3>1, <3>2 DEF TypeOK
  <2> QED
    BY <2>1, <2>2, <2>3, <2>4 DEF Places
<1>6. Replies'
  <2>1. \A r \in Request : InQueue(r) <=> r = queue[1] \/ InQueue(r)'
    <3>1. \A k \in 1..Len(queue) : k = 1 \/ (k - 1 \in 1..Len(queue') /\ queue'[k - 1] = queue[k])
      BY <1>1
    <3>2. \A k \in 1..Len(queue') : k + 1 \in 1..Len(queue) /\ queue'[k] = queue[k + 1]
      BY <1>1
    <3>3. 1 \in 1..Len(queue)
      BY <1>1
    <3> QED
      BY <3>1, <3>2, <3>3 DEF InQueue
  <2>2. \A r \in Request : InService(r)' <=> r = queue[1] \/ InService(r)
    BY <1>2 DEF InService, TypeOK
  <2> QED
    BY <1>3, <2>1, <2>2 DEF Replies
<1> QED
  BY <1>4, <1>5, <1>6

\* The handler's WriteReply: the request leaves its worker.
LEMMA ReplyStep == ASSUME HttpInv, NEW w \in Worker, Reply(w) PROVE HttpInv'
<1> USE HttpAssumption DEF HttpInv
<1>1. serving[w] \in Request /\ serving[w] \in received /\ thread[w] = "reply"
  BY DEF Reply, Places, Busy, TypeOK
<1>2. /\ serving' = [serving EXCEPT ![w] = NoRequest] /\ thread' = [thread EXCEPT ![w] = "run"]
      /\ written' = [written EXCEPT ![serving[w]] = @ + 1]
      /\ UNCHANGED <<queue, received>>
  BY DEF Reply, WriteReply
<1>3. TypeOK'
  BY <1>1, <1>2 DEF TypeOK, Reply, WriteReply
<1>4. Places'
  BY <1>1, <1>2 DEF Places, Busy, TypeOK
<1>5. Replies'
  <2>1. ~InQueue(serving[w]) /\ InService(serving[w]) /\ written[serving[w]] = 0
    BY <1>1 DEF Places, InQueue, InService, Replies
  <2>2. \A r \in Request : InService(r)' <=> InService(r) /\ r # serving[w]
    BY <1>1, <1>2 DEF InService, Places, TypeOK
  <2>3. \A r \in Request : InQueue(r)' <=> InQueue(r)
    BY <1>2 DEF InQueue
  <2> QED
    BY <1>1, <1>2, <2>1, <2>2, <2>3 DEF Replies, TypeOK
<1> QED
  BY <1>3, <1>4, <1>5

\* A process that is started again is as good as new.
LEMMA StartsAnew == Init' => HttpInv'
BY InitHolds, PTL

LEMMA AbortStep == ASSUME NEW w \in Worker, Abort(w) PROVE HttpInv'
BY StartsAnew DEF Abort, Init

LEMMA NextHolds == HttpInv /\ [Next]_vars => HttpInv'
<1> SUFFICES ASSUME HttpInv, [Next]_vars PROVE HttpInv'
  OBVIOUS
<1> USE DEF TypeOK, Busy
<1>1. CASE StartEventThread
  BY <1>1, StayStep DEF StartEventThread, workerVars, replyVars, HttpInv
<1>2. CASE FinishWarmup
  BY <1>2, StayStep DEF FinishWarmup, workerVars, replyVars, HttpInv
<1>3. ASSUME NEW w \in Worker, StartWorker(w) PROVE HttpInv'
  BY <1>3, StayStep DEF StartWorker, replyVars, HttpInv
<1>4. ASSUME NEW w \in Worker, WakeUp(w) PROVE HttpInv'
  BY <1>4, StayStep DEF WakeUp, replyVars, HttpInv
<1>5. ASSUME NEW w \in Worker, Take(w), queue = <<>> PROVE HttpInv'
  BY <1>5, StayStep DEF Take, replyVars, HttpInv
<1>6. ASSUME NEW w \in Worker, Execute(w) PROVE HttpInv'
  BY <1>6, StayStep, HttpAssumption DEF Execute, HttpInv
<1>7. ASSUME NEW r \in Request, SendReply(r) PROVE HttpInv'
  BY <1>7, StayStep DEF SendReply, workerVars, HttpInv
<1>8. CASE UNCHANGED vars
  BY <1>8, StayStep DEF vars, workerVars, replyVars, HttpInv
<1>9. ASSUME NEW w \in Worker, Abort(w) PROVE HttpInv'
  BY <1>9, AbortStep
<1> QED
  BY <1>1, <1>2, <1>3, <1>4, <1>5, <1>6, <1>7, <1>8, <1>9, ReceiveStep, TakeStep, ReplyStep DEF Next, Serve

LEMMA HttpInvHolds == Spec => []HttpInv
  BY InitHolds, NextHolds, PTL DEF Spec

\* Every variable keeps its type, and the work queue its bound (httpserver.cpp,
\* line 89).
THEOREM HttpTypeCorrect == Spec => []TypeOK
  BY HttpInvHolds, PTL DEF HttpInv

\* A request's reply is written once: by the event thread, if it never was in
\* the queue, else by the one worker that took it (lines 85-112 and 594).
THEOREM OneReplyEach == Spec => []OneReply
<1>1. HttpInv => OneReply
  <2> SUFFICES ASSUME HttpInv, NEW r \in Request
               PROVE  written[r] = IF r \in received \ (Queued \cup Served) THEN 1 ELSE 0
    BY DEF OneReply
  <2>1. r \in Queued <=> InQueue(r)
    <3>1. DOMAIN queue = 1..Len(queue)
      BY LenProperties DEF HttpInv, TypeOK
    <3> QED
      BY <3>1 DEF Queued, InQueue
  <2>2. r \in Served <=> InService(r)
    BY HttpAssumption DEF Served, InService
  <2> QED
    BY <2>1, <2>2 DEF HttpInv, Replies
<1> QED
  BY <1>1, HttpInvHolds, PTL

-------------------------------------------------------------------------------
\* The number of threads awake when one becomes ready, and when one takes a
\* request.
LEMMA RunFinite ==
  IsFiniteSet(In("run")) /\ Cardinality(In("run")) \in Nat
  BY FS_Subset, FS_CardinalityType, HttpAssumption DEF In

LEMMA BecomesReady ==
  ASSUME TypeOK, NEW w \in Worker, thread[w] # "run", thread' = [thread EXCEPT ![w] = "run"]
  PROVE  /\ In("wait")' \subseteq In("wait")
         /\ Cardinality(In("run")') = Cardinality(In("run")) + 1
<1>1. In("wait")' \subseteq In("wait") /\ In("run")' = In("run") \cup {w} /\ w \notin In("run")
  BY DEF In, TypeOK
<1>2. Cardinality(In("run") \cup {w}) = Cardinality(In("run")) + 1
  BY <1>1, RunFinite, FS_AddElement
<1> QED
  BY <1>1, <1>2

LEMMA BecomesBusy ==
  ASSUME TypeOK, NEW w \in Worker, thread[w] = "run", thread' = [thread EXCEPT ![w] = "serve"]
  PROVE  /\ In("wait")' = In("wait")
         /\ Cardinality(In("run")') = Cardinality(In("run")) - 1
<1>1. In("wait")' = In("wait") /\ In("run")' = In("run") \ {w} /\ w \in In("run")
  BY DEF In, TypeOK
<1>2. Cardinality(In("run") \ {w}) = Cardinality(In("run")) - 1
  BY <1>1, RunFinite, FS_RemoveElement
<1> QED
  BY <1>1, <1>2

LEMMA SleepersStep ==
  ASSUME HttpInv, NoSleeperNeeded, [Next]_vars PROVE NoSleeperNeeded'
<1> USE DEF HttpInv, NoSleeperNeeded
<1>1. Len(queue) \in Nat
  BY DEF TypeOK
<1>2. CASE UNCHANGED <<queue, thread>>
  BY <1>2 DEF In
\* A thread that becomes ready leaves the queue alone.
<1>3. ASSUME NEW w \in Worker, StartWorker(w) \/ WakeUp(w) \/ Reply(w)
      PROVE  NoSleeperNeeded'
  <2>1. /\ thread' = [thread EXCEPT ![w] = "run"] /\ thread[w] # "run"
        /\ queue' = queue
    BY <1>3 DEF StartWorker, WakeUp, Reply
  <2>2. /\ In("wait")' \subseteq In("wait")
        /\ Cardinality(In("run")') = Cardinality(In("run")) + 1
    BY <2>1, BecomesReady
  <2> QED
    BY <1>1, <2>1, <2>2, RunFinite
<1>4. ASSUME NEW w \in Worker, Execute(w) PROVE NoSleeperNeeded'
  <2>1. /\ thread' = [thread EXCEPT ![w] = "reply"] /\ thread[w] = "serve"
        /\ queue' = queue
    BY <1>4 DEF Execute
  <2>2. In("wait")' = In("wait") /\ In("run")' = In("run")
    BY <2>1 DEF In, TypeOK
  <2> QED
    BY <2>1, <2>2
<1>5. ASSUME NEW w \in Worker, Take(w) PROVE NoSleeperNeeded'
  <2>1. CASE queue = <<>>
    <3>1. /\ thread' = [thread EXCEPT ![w] = "wait"] /\ thread[w] = "run"
          /\ Len(queue') = 0
      BY <1>5, <2>1, EmptySeq DEF Take
    <3>2. Cardinality(In("run")') \in Nat
      <4>1. In("run")' \in SUBSET Worker
        BY DEF In
      <4> QED
        BY <4>1, FS_Subset, FS_CardinalityType, HttpAssumption
    <3> QED
      BY <3>1, <3>2
  <2>2. CASE queue # <<>>
    <3>1. /\ thread' = [thread EXCEPT ![w] = "serve"] /\ thread[w] = "run"
          /\ Len(queue') = Len(queue) - 1
      BY <1>5, <2>2, HeadTailProperties DEF Take, TypeOK
    <3>2. /\ In("wait")' = In("wait")
          /\ Cardinality(In("run")') = Cardinality(In("run")) - 1
      BY <3>1, BecomesBusy
    <3> QED
      BY <1>1, <3>1, <3>2, RunFinite
  <2> QED
    BY <2>1, <2>2
\* A request is queued: a sleeper is woken for it, if there is one.
<1>6. ASSUME NEW r \in Request, Receive(r) PROVE NoSleeperNeeded'
  <2>1. CASE queue' = Append(queue, r) /\ NotifyOne
    <3>1. Len(queue') = Len(queue) + 1
      BY <2>1, AppendProperties DEF TypeOK
    <3>2. CASE In("wait") = {}
      BY <2>1, <3>2 DEF NotifyOne, In
    <3>3. CASE In("wait") # {}
      <4>1. PICK w \in In("wait") : thread' = [thread EXCEPT ![w] = "run"]
        BY <2>1, <3>3 DEF NotifyOne
      <4>2. w \in Worker /\ thread[w] # "run"
        BY DEF In
      <4>3. Cardinality(In("run")') = Cardinality(In("run")) + 1
        BY <4>1, <4>2, BecomesReady
      <4> QED
        BY <1>1, <3>1, <3>3, <4>3, RunFinite
    <3> QED
      BY <3>2, <3>3
  <2> QED
    BY <1>2, <1>6, <2>1 DEF Receive, Enqueue
<1>7. ASSUME NEW w \in Worker, Abort(w) PROVE NoSleeperNeeded'
  BY <1>7 DEF Abort, In
<1> QED
  BY <1>2, <1>3, <1>4, <1>5, <1>6, <1>7
  DEF Next, Serve, StartEventThread, FinishWarmup, SendReply, vars, workerVars

\* notify_one is enough: a worker sleeps only while the workers awake are as
\* many as the requests queued, whatever wakes without cause (lines 85-104).
THEOREM NoSleepers == Spec => []NoSleeperNeeded
<1>1. Init => NoSleeperNeeded
  BY DEF Init, NoSleeperNeeded, In
<1> QED
  BY <1>1, SleepersStep, HttpInvHolds, PTL DEF Spec
================================================================================
