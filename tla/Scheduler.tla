-------------------------------- MODULE Scheduler -------------------------------
(***************************************************************************)
(* The task scheduler of the server (server/src/scheduler.cpp): class      *)
(* CScheduler, whose threads take tasks from a queue ordered by time, and  *)
(* class SingleThreadedSchedulerClient, which runs callbacks one at a time *)
(* on those threads.                                                       *)
(*                                                                         *)
(* newTaskMutex is held from one wait or one task to the next, so what a   *)
(* thread does in between is one action; the same holds for a block under  *)
(* m_cs_callbacks_pending.  Time is kept as what is left of a delay: Tick  *)
(* shortens all of them, and the queue, a sequence, keeps the order of     *)
(* those that are due.                                                     *)
(*                                                                         *)
(* An operator named X_Suffix is X with a plausible slip.                  *)
(***************************************************************************)
EXTENDS Integers, Sequences, FiniteSets, SequencesExt

CONSTANTS
  Thread,       \* threads that may call serviceQueue
  Every,        \* tasks of scheduleEvery, a sequence
  Delta,        \* their period
  Once,         \* tasks of schedule, a set
  Callback,     \* callbacks for AddToProcessQueue, one per calling thread
  MaxThrows     \* bound: tasks that end with an exception

VARIABLES
  taskQueue,    \* sequence of [task, due], ordered by due
  at, doing,    \* where each thread is; the task or callback it runs
  wait,         \* what is left of a thread's wait_until
  stopRequested, stopWhenEmpty,
  m_callbacks_pending, m_are_callbacks_running,
  ran,          \* callbacks that have run
  throws

clientVars == <<m_callbacks_pending, m_are_callbacks_running, ran>>
stopVars == <<stopRequested, stopWhenEmpty>>
schedulerVars == <<taskQueue, at, doing, wait, stopVars, clientVars, throws>>

\* The thread that empties the callbacks at the end.
Main == "main"
Runner == Thread \cup {Main}
Actor == Runner \cup Callback
EveryTask == Range(Every)
Nothing == "nothing"
Exception == "exception"

\* The tasks differ from each other and from the callbacks, and scheduling them
\* all takes no longer than their period.
ASSUME SchedulerAssumption ==
  /\ Every \in Seq(EveryTask) /\ Delta \in Nat /\ Len(Every) <= Delta + 1 /\ MaxThrows \in Nat
  /\ \A i, j \in DOMAIN Every : Every[i] = Every[j] => i = j
  /\ IsFiniteSet(Once) /\ "ProcessQueue" \notin EveryTask \cup Once
  /\ EveryTask \cap (Once \cup Callback \cup {Nothing, Exception}) = {}
  /\ Thread \cap (Callback \cup {Main}) = {}

\* Tasks of one of the two kinds, scheduled at once or with some time between,
\* and any number of threads.
SchedulerInit ==
  /\ \/ \E gap \in 0..1 :
          taskQueue = [i \in DOMAIN Every |-> [task |-> Every[i], due |-> Delta + (i - 1) * gap]]
     \/ taskQueue = SetToSeq({[task |-> o, due |-> Delta] : o \in Once})
  /\ \E S \in SUBSET Thread \ {{}} :
       at = [a \in Actor |-> IF a \in S THEN "loop" ELSE IF a \in Thread THEN "unused" ELSE "idle"]
  /\ doing = [a \in Actor |-> IF a \in Callback THEN a ELSE Nothing]
  /\ wait = [t \in Thread |-> 0]
  /\ stopRequested = FALSE /\ stopWhenEmpty = FALSE
  /\ m_callbacks_pending = <<>> /\ m_are_callbacks_running = FALSE /\ ran = {} /\ throws = 0

Servicing == {t \in Thread : at[t] \notin {"unused", "left"}}
ShouldStop == stopRequested \/ (stopWhenEmpty /\ taskQueue = <<>>)

-------------------------------------------------------------------------------
(* The queue and its condition variable.                                   *)

\* Slip: a new entry is put in front.
Insert_Front(task, due) == taskQueue' = <<[task |-> task, due |-> due]>> \o taskQueue

\* taskQueue.insert: behind the entries with the same key.
Insert(task, due) ==
  \E i \in 1..Len(taskQueue) + 1 :
    /\ \A j \in DOMAIN taskQueue : j < i <=> taskQueue[j].due <= due
    /\ taskQueue' = InsertAt(taskQueue, i, [task |-> task, due |-> due])

\* Threads that wait on newTaskScheduled.
Waiting == {t \in Thread : at[t] \in {"waiting", "timed"}}

\* The actor moves to pc, and notify_one wakes one of the waiting threads.
MoveAndNotify(a, pc) ==
  \/ Waiting \ {a} = {} /\ at' = [at EXCEPT ![a] = pc] /\ UNCHANGED wait
  \/ \E t \in Waiting \ {a} : at' = [at EXCEPT ![a] = pc, ![t] = "check"] /\ wait' = [wait EXCEPT ![t] = 0]

Move(a, pc) == at' = [at EXCEPT ![a] = pc]

\* What is left of a delay when time has passed.
Less(delay) == IF delay > 0 THEN delay - 1 ELSE 0

Tick ==
  /\ \/ \E i \in DOMAIN taskQueue : taskQueue[i].due > 0
     \/ \E t \in Thread : wait[t] > 0
  /\ taskQueue' = [i \in DOMAIN taskQueue |-> [task |-> taskQueue[i].task, due |-> Less(taskQueue[i].due)]]
  /\ wait' = [t \in Thread |-> Less(wait[t])]
  /\ UNCHANGED <<at, doing, stopVars, clientVars, throws>>

-------------------------------------------------------------------------------
(* CScheduler::serviceQueue.                                               *)

\* The head of the loop, and the inner loops after a wake-up.
LookAtQueue(t) ==
  /\ t \in Thread /\ at[t] \in {"loop", "check"}
  /\ \/ ShouldStop /\ MoveAndNotify(t, "left")
     \/ ~ShouldStop /\ taskQueue = <<>> /\ UNCHANGED wait
          /\ Move(t, IF at[t] = "loop" THEN "seeding" ELSE "waiting")
     \/ ~ShouldStop /\ taskQueue # <<>> /\ wait' = [wait EXCEPT ![t] = Head(taskQueue).due]
          /\ Move(t, "timed")
  /\ UNCHANGED <<taskQueue, doing, stopVars, clientVars, throws>>

\* RandAddSeedSleep, without the lock.
Seeded(t) ==
  /\ at[t] = "seeding" /\ Move(t, "check")
  /\ UNCHANGED <<taskQueue, doing, wait, stopVars, clientVars, throws>>

\* A wait may end for no reason before its time.
Spurious(t) ==
  /\ t \in Waiting /\ (at[t] = "timed" => wait[t] > 0)
  /\ Move(t, "check") /\ wait' = [wait EXCEPT ![t] = 0]
  /\ UNCHANGED <<taskQueue, doing, stopVars, clientVars, throws>>

Timeout(t) ==
  /\ at[t] = "timed" /\ wait[t] = 0 /\ Move(t, "timeout")
  /\ UNCHANGED <<taskQueue, doing, wait, stopVars, clientVars, throws>>

\* The first task is taken, whether or not it is the one waited for.
TakeTask(t) ==
  /\ at[t] = "timeout"
  /\ IF ShouldStop \/ taskQueue = <<>>
       THEN Move(t, "loop") /\ UNCHANGED <<taskQueue, doing>>
       ELSE LET f == Head(taskQueue).task IN
            /\ taskQueue' = Tail(taskQueue)
            /\ doing' = IF f = "ProcessQueue" THEN doing ELSE [doing EXCEPT ![t] = f]
            /\ Move(t, IF f = "ProcessQueue" THEN "process" ELSE "running")
  /\ UNCHANGED <<wait, stopVars, clientVars, throws>>

\* Slip: schedule in place of scheduleFromNow.
TaskEnds_AtOnce(t) ==
  /\ at[t] = "running" /\ doing' = [doing EXCEPT ![t] = Nothing]
  /\ IF doing[t] \in EveryTask THEN Insert(doing[t], 0) /\ MoveAndNotify(t, "loop")
                               ELSE Move(t, "loop") /\ UNCHANGED <<taskQueue, wait>>
  /\ UNCHANGED <<stopVars, clientVars, throws>>

\* f() returns; Repeat puts the task back.
TaskEnds(t) ==
  /\ at[t] = "running" /\ doing' = [doing EXCEPT ![t] = Nothing]
  /\ IF doing[t] \in EveryTask THEN Insert(doing[t], Delta) /\ MoveAndNotify(t, "loop")
                               ELSE Move(t, "loop") /\ UNCHANGED <<taskQueue, wait>>
  /\ UNCHANGED <<stopVars, clientVars, throws>>

\* f() throws, which ends serviceQueue in this thread.
TaskThrows(t) ==
  /\ at[t] = "running" /\ throws < MaxThrows /\ throws' = throws + 1
  /\ Move(t, "left") /\ doing' = [doing EXCEPT ![t] = Nothing]
  /\ UNCHANGED <<taskQueue, wait, stopVars, clientVars>>

\* Slip: the waiting threads are not woken.
Stop_Silent(drain) ==
  /\ ~stopRequested /\ ~stopWhenEmpty
  /\ stopWhenEmpty' = drain /\ stopRequested' = ~drain
  /\ UNCHANGED <<taskQueue, at, doing, wait, clientVars, throws>>

Stop(drain) ==
  /\ ~stopRequested /\ ~stopWhenEmpty
  /\ stopWhenEmpty' = drain /\ stopRequested' = ~drain
  /\ at' = [a \in Actor |-> IF a \in Waiting THEN "check" ELSE at[a]] /\ wait' = [t \in Thread |-> 0]
  /\ UNCHANGED <<taskQueue, doing, clientVars, throws>>

-------------------------------------------------------------------------------
(* SingleThreadedSchedulerClient.                                          *)

AddToProcessQueue(c) ==
  /\ at[c] = "idle"
  /\ m_callbacks_pending' = Append(m_callbacks_pending, c) /\ Move(c, "maybe")
  /\ UNCHANGED <<taskQueue, doing, wait, stopVars, m_are_callbacks_running, ran, throws>>

\* Where a thread goes on when ProcessQueue or AddToProcessQueue ends.
After(a) == IF a \in Callback THEN "added" ELSE IF doing[a] = Exception THEN "left" ELSE "loop"
Returns(a) == Move(a, After(a))

\* The two tests of MaybeScheduleProcessQueue, under the lock.
MaybeScheduleProcessQueue(a) ==
  /\ at[a] = "maybe"
  /\ IF m_are_callbacks_running \/ m_callbacks_pending = <<>> THEN Returns(a) ELSE Move(a, "schedule")
  /\ UNCHANGED <<taskQueue, doing, wait, stopVars, clientVars, throws>>

\* schedule(ProcessQueue), after the lock is released.
ScheduleProcessQueue(a) ==
  /\ at[a] = "schedule"
  /\ Insert("ProcessQueue", 0) /\ MoveAndNotify(a, After(a))
  /\ UNCHANGED <<doing, stopVars, clientVars, throws>>

\* Slip: m_are_callbacks_running is not looked at.
ProcessQueue_Concurrent(a) ==
  /\ at[a] = "process"
  /\ IF m_callbacks_pending = <<>>
       THEN Returns(a) /\ UNCHANGED <<doing, clientVars>>
       ELSE /\ m_are_callbacks_running' = TRUE /\ Move(a, "callback")
            /\ doing' = [doing EXCEPT ![a] = Head(m_callbacks_pending)]
            /\ m_callbacks_pending' = Tail(m_callbacks_pending) /\ UNCHANGED ran
  /\ UNCHANGED <<taskQueue, wait, stopVars, throws>>

ProcessQueue(a) ==
  /\ at[a] = "process"
  /\ IF m_are_callbacks_running \/ m_callbacks_pending = <<>>
       THEN Returns(a) /\ UNCHANGED <<doing, clientVars>>
       ELSE /\ m_are_callbacks_running' = TRUE /\ Move(a, "callback")
            /\ doing' = [doing EXCEPT ![a] = Head(m_callbacks_pending)]
            /\ m_callbacks_pending' = Tail(m_callbacks_pending) /\ UNCHANGED ran
  /\ UNCHANGED <<taskQueue, wait, stopVars, throws>>

\* The callback returns or throws: RAIICallbacksRunning is destroyed.
CallbackEnds(a) ==
  /\ at[a] = "callback" /\ m_are_callbacks_running' = FALSE
  /\ ran' = ran \cup {doing[a]} /\ Move(a, "maybe")
  /\ \/ doing' = [doing EXCEPT ![a] = Nothing] /\ UNCHANGED throws
     \/ /\ a \in Thread /\ throws < MaxThrows /\ throws' = throws + 1
        /\ doing' = [doing EXCEPT ![a] = Exception]
  /\ UNCHANGED <<taskQueue, wait, stopVars, m_callbacks_pending>>

\* EmptyQueue, when no thread services the queue any more.
EmptyQueue ==
  /\ \/ at[Main] = "idle" /\ stopRequested /\ Servicing = {} /\ Move(Main, "process")
     \/ at[Main] = "loop" /\ Move(Main, IF m_callbacks_pending = <<>> THEN "left" ELSE "process")
  /\ UNCHANGED <<taskQueue, doing, wait, stopVars, clientVars, throws>>

-------------------------------------------------------------------------------
ServiceQueue(t) ==
  LookAtQueue(t) \/ Seeded(t) \/ Timeout(t) \/ TakeTask(t) \/ TaskEnds(t)

Client(a) ==
  \/ MaybeScheduleProcessQueue(a) \/ ScheduleProcessQueue(a) \/ ProcessQueue(a) \/ CallbackEnds(a)

SchedulerNext ==
  \/ Tick \/ EmptyQueue
  \/ \E t \in Thread : ServiceQueue(t) \/ Spurious(t) \/ TaskThrows(t)
  \/ \E c \in Callback : AddToProcessQueue(c)
  \/ \E a \in Actor : Client(a)
  \/ \E drain \in BOOLEAN : Stop(drain)

SchedulerSpec == SchedulerInit /\ [][SchedulerNext]_schedulerVars

\* Time passes, threads run and tasks end; nobody has to add, stop or throw.
SchedulerFairness ==
  /\ WF_schedulerVars(Tick) /\ WF_schedulerVars(EmptyQueue)
  /\ \A t \in Thread : WF_schedulerVars(ServiceQueue(t))
  /\ \A a \in Actor : WF_schedulerVars(Client(a))

SchedulerFairSpec == SchedulerSpec /\ SchedulerFairness
-------------------------------------------------------------------------------
(* Properties.                                                             *)

LastDue == Delta + Len(Every)

SchedulerTypeOK ==
  /\ taskQueue \in Seq([task : EveryTask \cup Once \cup {"ProcessQueue"}, due : 0..LastDue])
  /\ \A i \in 2..Len(taskQueue) : taskQueue[i - 1].due <= taskQueue[i].due
  /\ wait \in [Thread -> 0..LastDue]
  /\ m_callbacks_pending \in Seq(Callback) /\ ran \subseteq Callback
  /\ \A a \in Actor :
       at[a] \in {"unused", "idle", "loop", "check", "seeding", "waiting", "timed", "timeout", "running",
                  "process", "callback", "maybe", "schedule", "added", "left"}
  /\ m_are_callbacks_running = (\E a \in Runner : at[a] = "callback")

Alone == \E t \in Thread : {u \in Thread : at[u] # "unused"} = {t}

\* `Call func at/after time t` (scheduler.h:42).  With more threads one that
\* waited in vain for a task takes the next one before its time.
Early == \E t \in Thread : at[t] = "timeout" /\ at'[t] \in {"running", "process"} /\ Head(taskQueue).due > 0
NotEarly == [][~Early]_schedulerVars

\* It is true while one thread services the queue, as in this program, whatever
\* other threads insert in the meantime.
NotEarlyAlone == [][Alone => ~Early]_schedulerVars

\* With one thread the tasks of scheduleEvery take turns in the order in which
\* they were scheduled, however long each of them takes: module AddressPool
\* rests on it.
Queued(e) == \E i \in DOMAIN taskQueue : taskQueue[i].task = e
Before(e, f) ==
  \/ \E i, j \in DOMAIN taskQueue : i < j /\ taskQueue[i].task = e /\ taskQueue[j].task = f
  \/ Queued(e) /\ \E t \in Thread : doing[t] = f
Begins(e) == \E t \in Thread : doing[t] # e /\ doing'[t] = e
InTurn ==
  [][Alone /\ throws' = 0 =>
       \A e, f \in EveryTask : e # f =>
         /\ Begins(e) => Before(e, f)
         /\ Before(e, f)' <=> Begins(f) \/ (Before(e, f) /\ ~Begins(e))]_schedulerVars

\* `no two jobs will be executed at the same time` (scheduler.h:87), and in the
\* order in which they were added.
Serial == INSTANCE SerialQueue WITH
  pending <- m_callbacks_pending,
  current <- {doing[a] : a \in {b \in Runner : at[b] = "callback"}}
OneJobAtATime == Serial!SerialSpec

\* Every callback that was added runs, also one added while another is about to
\* end or by a thread that finds callbacks running; unless threads stopped.
CallbacksRun ==
  \A c \in Callback :
    (at[c] # "idle") ~> (c \in ran \/ stopRequested \/ stopWhenEmpty \/ Servicing = {})

\* stop ends every thread: at once, or when there is no work left; also the ones
\* that waited for a task another thread took.
AllStop ==
  stopRequested \/ (stopWhenEmpty /\ throws = 0 /\ (\A i \in DOMAIN taskQueue : taskQueue[i].task \notin EveryTask)
    /\ \A t \in Thread : doing[t] \notin EveryTask)
    ~> (Servicing = {})

\* Tasks of scheduleEvery are taken again and again while a thread is there.
RunsAgain ==
  \A e \in EveryTask :
    []<>(\A i \in DOMAIN taskQueue : taskQueue[i].task # e) \/ <>[](Servicing = {})
================================================================================
