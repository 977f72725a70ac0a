------------------------------ MODULE HttpServer ------------------------------
(***************************************************************************)
(* The server's request handling: the event thread of libevent receives    *)
(* requests and puts them into the work queue, the worker threads run the  *)
(* JSON-RPC and REST handlers, and replies go back through events that     *)
(* only the event thread sends (server/src/httpserver.cpp, httprpc.cpp,    *)
(* rpc/server.cpp).  The main thread starts the threads, ends the warm-up  *)
(* and then waits for the scheduler thread for good (main.cpp).            *)
(*                                                                         *)
(* A critical section of the queue's mutex is an action; so are the        *)
(* handler's test of the warm-up flag and its WriteReply.  Connections,    *)
(* headers and bodies are left out.                                        *)
(*                                                                         *)
(* An operator named X_Suffix is X with a plausible slip.                  *)
(***************************************************************************)
EXTENDS Integers, Sequences, FiniteSets

CONSTANTS
  Request,       \* requests
  KindOf,        \* [Request -> Kind]
  Worker,        \* worker threads (-rpcthreads)
  MaxDepth,      \* maxDepth of the queue (-rpcworkqueue)
  NoRequest

\* What the server makes of a request: refused for its method (ClientAllowed lets
\* every address pass), without a handler for its path, a command, the command
\* stop, an object that lacks one of the members id, method and params.
Kind == {"refused", "nopath", "command", "stop", "incomplete"}

ASSUME HttpAssumption ==
  /\ KindOf \in [Request -> Kind] /\ NoRequest \notin Request
  /\ IsFiniteSet(Worker) /\ Worker # {} /\ MaxDepth \in Nat \ {0}

VARIABLES
  main,             \* what the main thread has done
  fRPCInWarmup, fRequestShutdown,
  received,         \* requests the event thread has seen
  queue,            \* the work queue
  thread, serving,  \* [Worker -> ...], state and request of a worker
  answer,           \* [Request -> outcome of WriteReply]
  written,          \* [Request -> Nat], calls of WriteReply
  event,            \* requests whose reply event is active
  sent              \* requests answered

workerVars == <<thread, serving>>
replyVars == <<answer, written, event, sent>>
vars == <<main, fRPCInWarmup, fRequestShutdown, received, queue, workerVars, replyVars>>

In(state) == {w \in Worker : thread[w] = state}

Init ==
  /\ main = "init" /\ fRPCInWarmup = TRUE /\ fRequestShutdown = FALSE
  /\ received = {} /\ queue = <<>>
  /\ thread = [w \in Worker |-> "unborn"] /\ serving = [w \in Worker |-> NoRequest]
  /\ answer = [r \in Request |-> "none"] /\ written = [r \in Request |-> 0]
  /\ event = {} /\ sent = {}

-------------------------------------------------------------------------------
(* The main thread.                                                        *)

\* AppInitServers up to the creation of the event thread.
StartEventThread ==
  /\ main = "init" /\ main' = "starting"
  /\ UNCHANGED <<fRPCInWarmup, fRequestShutdown, received, queue, workerVars, replyVars>>

StartWorker(w) ==
  /\ main = "starting" /\ thread[w] = "unborn"
  /\ thread' = [thread EXCEPT ![w] = "run"]
  /\ UNCHANGED <<main, fRPCInWarmup, fRequestShutdown, received, queue, serving, replyVars>>

\* SetRPCWarmupFinished, then thread_scheduler.join().
FinishWarmup ==
  /\ main = "starting" /\ In("unborn") = {}
  /\ main' = "join" /\ fRPCInWarmup' = FALSE
  /\ UNCHANGED <<fRequestShutdown, received, queue, workerVars, replyVars>>

-------------------------------------------------------------------------------
(* The event thread.                                                       *)

\* HTTPRequest::WriteReply: the reply is sent by an event of the event thread.
WriteReply(r, outcome) ==
  /\ written' = [written EXCEPT ![r] = @ + 1]
  /\ answer' = [answer EXCEPT ![r] = outcome]
  /\ event' = event \cup {r}

\* One waiting worker, if there is one, goes on.
NotifyOne ==
  IF In("wait") = {} THEN UNCHANGED thread
  ELSE \E w \in In("wait") : thread' = [thread EXCEPT ![w] = "run"]

\* Slip: nobody is notified.
Enqueue_Silent(r) ==
  /\ IF Len(queue) >= MaxDepth
       THEN UNCHANGED queue /\ WriteReply(r, "full")
       ELSE queue' = Append(queue, r) /\ UNCHANGED <<answer, written, event>>
  /\ UNCHANGED thread

\* Slip: the depth is tested after the item was put into the queue.
Enqueue_TestsLate(r) ==
  /\ queue' = Append(queue, r)
  /\ IF Len(queue') > MaxDepth
       THEN UNCHANGED thread /\ WriteReply(r, "full")
       ELSE NotifyOne /\ UNCHANGED <<answer, written, event>>

\* WorkQueue::Enqueue and what http_request_cb makes of its result.
Enqueue(r) ==
  IF Len(queue) >= MaxDepth
    THEN UNCHANGED <<queue, thread>> /\ WriteReply(r, "full")
    ELSE queue' = Append(queue, r) /\ NotifyOne /\ UNCHANGED <<answer, written, event>>

\* http_request_cb.
Receive(r) ==
  /\ main # "init" /\ r \notin received
  /\ received' = received \cup {r}
  /\ IF KindOf[r] \in {"refused", "nopath"}
       THEN WriteReply(r, KindOf[r]) /\ UNCHANGED <<queue, thread>>
       ELSE Enqueue(r)
  /\ UNCHANGED <<main, fRPCInWarmup, fRequestShutdown, serving, sent>>

\* The closure of WriteReply.
SendReply(r) ==
  /\ r \in event
  /\ event' = event \ {r} /\ sent' = sent \cup {r}
  /\ UNCHANGED <<main, fRPCInWarmup, fRequestShutdown, received, queue, workerVars, answer, written>>

-------------------------------------------------------------------------------
(* A worker thread.                                                        *)

\* Slip: the first request stays in the queue.
Take_LeavesFront(w) ==
  /\ thread[w] = "run"
  /\ IF queue = <<>>
       THEN thread' = [thread EXCEPT ![w] = "wait"] /\ UNCHANGED serving
       ELSE /\ thread' = [thread EXCEPT ![w] = "serve"]
            /\ serving' = [serving EXCEPT ![w] = Head(queue)]
  /\ UNCHANGED <<queue, main, fRPCInWarmup, fRequestShutdown, received, replyVars>>

\* WorkQueue::Run under the mutex: wait, or take the first request.
Take(w) ==
  /\ thread[w] = "run"
  /\ IF queue = <<>>
       THEN thread' = [thread EXCEPT ![w] = "wait"] /\ UNCHANGED <<queue, serving>>
       ELSE /\ thread' = [thread EXCEPT ![w] = "serve"]
            /\ serving' = [serving EXCEPT ![w] = Head(queue)]
            /\ queue' = Tail(queue)
  /\ UNCHANGED <<main, fRPCInWarmup, fRequestShutdown, received, replyVars>>

\* A condition variable may wake without a notification.
WakeUp(w) ==
  /\ thread[w] = "wait"
  /\ thread' = [thread EXCEPT ![w] = "run"]
  /\ UNCHANGED <<main, fRPCInWarmup, fRequestShutdown, received, queue, serving, replyVars>>

\* HTTPReq_JSONRPC and CRPCTable::execute: the handler throws in warm-up, its
\* command returns or throws; exceptions become error replies.
Execute(w) ==
  /\ thread[w] = "serve" /\ KindOf[serving[w]] # "incomplete"
  /\ thread' = [thread EXCEPT ![w] = "reply"]
  /\ \E outcome \in IF fRPCInWarmup THEN {"warmup"} ELSE {"ok", "error"} :
       /\ answer' = [answer EXCEPT ![serving[w]] = outcome]
       /\ fRequestShutdown' = (fRequestShutdown \/ (KindOf[serving[w]] = "stop" /\ outcome = "ok"))
  /\ UNCHANGED <<main, fRPCInWarmup, received, queue, serving, written, event, sent>>

\* JSONRPCRequest::parse reads the members of a const object, where reading one
\* that is missing is no null value but a failed assertion (json.hpp:10292, with
\* the build type of the repository), in warm-up or not.  The process ends with
\* all it had received, and is started again.
Abort(w) ==
  /\ thread[w] = "serve" /\ KindOf[serving[w]] = "incomplete"
  /\ main' = "init" /\ fRPCInWarmup' = TRUE /\ fRequestShutdown' = FALSE
  /\ received' = {} /\ queue' = <<>>
  /\ thread' = [v \in Worker |-> "unborn"] /\ serving' = [v \in Worker |-> NoRequest]
  /\ answer' = [r \in Request |-> "none"] /\ written' = [r \in Request |-> 0]
  /\ event' = {} /\ sent' = {}

\* The handler's WriteReply; the work item and its request are destroyed, which
\* writes no second reply (replySent).
Reply(w) ==
  /\ thread[w] = "reply"
  /\ WriteReply(serving[w], answer[serving[w]])
  /\ thread' = [thread EXCEPT ![w] = "run"] /\ serving' = [serving EXCEPT ![w] = NoRequest]
  /\ UNCHANGED <<main, fRPCInWarmup, fRequestShutdown, received, queue, sent>>

Serve(w) == Take(w) \/ Execute(w) \/ Abort(w) \/ Reply(w)

Next ==
  \/ StartEventThread \/ FinishWarmup
  \/ \E w \in Worker : StartWorker(w) \/ WakeUp(w) \/ Serve(w)
  \/ \E r \in Request : Receive(r) \/ SendReply(r)

Spec == Init /\ [][Next]_vars

\* Threads that can run do; a command comes back (the calls to nodes have a
\* timeout, rpc/client.cpp lines 252-253); clients need not send anything.
FairSpec ==
  /\ Spec /\ WF_vars(StartEventThread) /\ WF_vars(FinishWarmup)
  /\ \A w \in Worker : WF_vars(StartWorker(w)) /\ WF_vars(Serve(w))
  /\ \A r \in Request : WF_vars(SendReply(r))

-------------------------------------------------------------------------------
(* Properties.                                                             *)

Queued == {queue[k] : k \in DOMAIN queue}
Served == {serving[w] : w \in Worker} \ {NoRequest}

TypeOK ==
  /\ main \in {"init", "starting", "join"}
  /\ fRPCInWarmup \in BOOLEAN /\ fRequestShutdown \in BOOLEAN
  /\ received \in SUBSET Request /\ queue \in Seq(Request) /\ Len(queue) <= MaxDepth
  /\ thread \in [Worker -> {"unborn", "run", "wait", "serve", "reply"}]
  /\ serving \in [Worker -> Request \cup {NoRequest}]
  /\ answer \in [Request -> Kind \cup {"none", "full", "warmup", "ok", "error"}]
  /\ written \in [Request -> Nat]
  /\ event \in SUBSET Request /\ sent \in SUBSET Request

\* A request is in exactly one place, so it is handled by one worker, and its
\* reply is written once: not by the event thread and a worker (the assertion
\* on replySent, line 594), not by two workers.
OneReply ==
  \A r \in Request :
    written[r] = IF r \in received \ (Queued \cup Served) THEN 1 ELSE 0

\* A worker sleeps only while enough workers are awake to take all that is
\* queued: notify_one wakes enough (lines 85-104).
NoSleeperNeeded == In("wait") # {} => Len(queue) <= Cardinality(In("run"))

\* Every request is answered, or the process ends before it is: only a request
\* without id, method or params ends it, which JSONRPCRequest::parse would answer
\* with an error if it could (rpc/server.cpp:388-404).
EveryRequestAnswered == \A r \in Request : r \in received ~> (r \in sent \/ r \notin received)

\* What its help text says of the command stop, "Stop Bitcoin server." and
\* "Event loop will exit after current HTTP requests have been handled"
\* (rpc/server.cpp:265-267): the main thread leaves its wait.
StopStops == fRequestShutdown ~> main # "join"
===============================================================================
