----------------------------- MODULE ThreadPool -----------------------------
(***************************************************************************)
(* threading::ThreadPool and the threading::ThreadManager in front of it   *)
(* (src/cppLib/code/Threading).  Every long-running activity of the        *)
(* program lives on this pool: the socket receive loop, the server's send  *)
(* handler and the map generator are all tasks given to AddTask.           *)
(*                                                                         *)
(* Each section the code runs under m_mutex is one action, because every   *)
(* access to m_qTasks and m_bStop is made under that mutex; what the code  *)
(* does after unlocking (the notify calls, the task itself) is a step of   *)
(* its own.  The unlocked template overload ThreadPool.h:41-62 has no      *)
(* caller and is not modelled.                                             *)
(***************************************************************************)
EXTENDS Naturals, Sequences, FiniteSets

CONSTANTS
    Workers,    \* the threads the constructor starts
    Callers,    \* the threads that call ThreadManager::AddTask
    Tasks,      \* the tasks that may be submitted, each at most once
    LoopTasks,  \* the tasks that run until they are told to end (SelectThread)
    NoTask      \* what a worker holds between two tasks

ASSUME PoolAssumption ==
    /\ IsFiniteSet(Workers) /\ Workers # {}
    /\ IsFiniteSet(Callers)
    /\ LoopTasks \subseteq Tasks
    /\ NoTask \notin Tasks

VARIABLES
    queue,      \* m_qTasks
    stop,       \* m_bStop
    worker,     \* where each worker thread is
    task,       \* the task a worker executes
    caller,     \* where each caller is in ThreadPool::enqueue
    destroyer,  \* where the thread that destroys the pool is
    ended,      \* the loop tasks that were told to end
    accepted,   \* history: the tasks enqueue accepted, in order
    refused,    \* history: the tasks enqueue refused
    started,    \* history: the tasks taken by a worker, in order
    finished    \* history: the tasks that returned

vars == <<queue, stop, worker, task, caller, destroyer, ended,
          accepted, refused, started, finished>>

history == <<accepted, refused, started, finished>>

Waiting == {w \in Workers : worker[w] = "wait"}
Awake   == {w \in Workers : worker[w] = "check"}
Pending == {c \in Callers : caller[c] = "notify"}

ItemsOf(s) == {s[i] : i \in DOMAIN s}

Running == {task[w] : w \in {v \in Workers : worker[v] = "run"}}

-----------------------------------------------------------------------------
Init ==
    /\ queue = <<>>
    /\ stop = FALSE
    /\ worker = [w \in Workers |-> "check"]
    /\ task = [w \in Workers |-> NoTask]
    /\ caller = [c \in Callers |-> "idle"]
    /\ destroyer = "idle"
    /\ ended = {}
    /\ accepted = <<>>
    /\ refused = {}
    /\ started = <<>>
    /\ finished = {}

(***************************************************************************)
(* AddTask holds the manager's m_mtx across enqueue and its notify_one, so *)
(* one caller at a time is inside.                                         *)
(***************************************************************************)
ManagerFree == Pending = {}

Fresh(t) == t \notin ItemsOf(accepted) \cup refused

AddTaskWithoutNotify(c, t) ==
    /\ ManagerFree
    /\ Fresh(t)
    /\ ~stop
    /\ queue' = Append(queue, t)
    /\ accepted' = Append(accepted, t)
    /\ UNCHANGED <<stop, worker, task, caller, destroyer, ended, refused, started, finished>>

\* enqueue up to the end of its critical section
AddTask(c, t) ==
    /\ ManagerFree
    /\ Fresh(t)
    /\ ~stop
    /\ queue' = Append(queue, t)
    /\ accepted' = Append(accepted, t)
    /\ caller' = [caller EXCEPT ![c] = "notify"]
    /\ UNCHANGED <<stop, worker, task, destroyer, ended, refused, started, finished>>

\* enqueue on a stopped pool throws; AddTask logs the exception
AddTaskRefused(c, t) ==
    /\ ManagerFree
    /\ Fresh(t)
    /\ stop
    /\ refused' = refused \cup {t}
    /\ UNCHANGED <<queue, stop, worker, task, caller, destroyer, ended,
                   accepted, started, finished>>

\* notify_one and notify_all; a notification nobody waits for has no effect
WakeOne == IF Waiting = {} THEN UNCHANGED worker
                           ELSE \E w \in Waiting : worker' = [worker EXCEPT ![w] = "check"]

WakeAll == worker' = [w \in Workers |-> IF w \in Waiting THEN "check" ELSE worker[w]]

\* the notify_one enqueue issues after unlocking
NotifyOne(c) ==
    /\ caller[c] = "notify"
    /\ caller' = [caller EXCEPT ![c] = "idle"]
    /\ WakeOne
    /\ UNCHANGED <<queue, stop, task, destroyer, ended, history>>

-----------------------------------------------------------------------------
(***************************************************************************)
(* The worker loop.  A worker in "check" is about to evaluate Predicate()  *)
(* under the mutex, on entry to wait or after a wake-up.                   *)
(***************************************************************************)
Predicate == stop \/ queue # <<>>

ExitOnStopAlone == stop

MayExit == stop /\ queue = <<>>

Wait(w) ==
    /\ worker[w] = "check"
    /\ ~Predicate
    /\ worker' = [worker EXCEPT ![w] = "wait"]
    /\ UNCHANGED <<queue, stop, task, caller, destroyer, ended, history>>

\* std::condition_variable may wake a waiting thread without a notification
SpuriousWakeup(w) ==
    /\ worker[w] = "wait"
    /\ worker' = [worker EXCEPT ![w] = "check"]
    /\ UNCHANGED <<queue, stop, task, caller, destroyer, ended, history>>

NotPopped == queue

Popped == Tail(queue)

Take(w) ==
    /\ worker[w] = "check"
    /\ queue # <<>>
    /\ ~MayExit
    /\ task' = [task EXCEPT ![w] = Head(queue)]
    /\ started' = Append(started, Head(queue))
    /\ queue' = Popped
    /\ worker' = [worker EXCEPT ![w] = "run"]
    /\ UNCHANGED <<stop, caller, destroyer, ended, accepted, refused, finished>>

Exit(w) ==
    /\ worker[w] = "check"
    /\ MayExit
    /\ worker' = [worker EXCEPT ![w] = "exit"]
    /\ UNCHANGED <<queue, stop, task, caller, destroyer, ended, history>>

FinishKeepingTask(w) ==
    /\ worker[w] = "run"
    /\ task[w] \in LoopTasks => task[w] \in ended
    /\ finished' = finished \cup {task[w]}
    /\ worker' = [worker EXCEPT ![w] = "check"]
    /\ UNCHANGED <<queue, stop, task, caller, destroyer, ended, accepted, refused, started>>

\* task() returns; a loop task returns only once it was told to end
Finish(w) ==
    /\ worker[w] = "run"
    /\ task[w] \in LoopTasks => task[w] \in ended
    /\ finished' = finished \cup {task[w]}
    /\ task' = [task EXCEPT ![w] = NoTask]
    /\ worker' = [worker EXCEPT ![w] = "check"]
    /\ UNCHANGED <<queue, stop, caller, destroyer, ended, accepted, refused, started>>

\* the owner of a loop task clears the flag its loop tests (Socket::Close)
EndLoop(t) ==
    /\ t \in LoopTasks \ ended
    /\ ended' = ended \cup {t}
    /\ UNCHANGED <<queue, stop, worker, task, caller, destroyer, history>>

-----------------------------------------------------------------------------
\* ThreadManager::Destroy reaches ~ThreadPool: set m_bStop ...
Stop ==
    /\ destroyer = "idle"
    /\ stop' = TRUE
    /\ destroyer' = "notify"
    /\ UNCHANGED <<queue, worker, task, caller, ended, history>>

\* ... notify_all ...
NotifyAll ==
    /\ destroyer = "notify"
    /\ WakeAll
    /\ destroyer' = "join"
    /\ UNCHANGED <<queue, stop, task, caller, ended, history>>

\* ... and join every worker
Join ==
    /\ destroyer = "join"
    /\ \A w \in Workers : worker[w] = "exit"
    /\ destroyer' = "joined"
    /\ UNCHANGED <<queue, stop, worker, task, caller, ended, history>>

-----------------------------------------------------------------------------
WorkerStep(w) == Wait(w) \/ Take(w) \/ Exit(w) \/ Finish(w)

DestroyStep == NotifyAll \/ Join

Next ==
    \/ \E c \in Callers, t \in Tasks : AddTask(c, t) \/ AddTaskRefused(c, t)
    \/ \E c \in Callers : NotifyOne(c)
    \/ \E w \in Workers : WorkerStep(w) \/ SpuriousWakeup(w)
    \/ \E t \in LoopTasks : EndLoop(t)
    \/ Stop
    \/ DestroyStep

Spec == Init /\ [][Next]_vars

(***************************************************************************)
(* The operating system keeps running every thread that can run.  Nothing  *)
(* is assumed of callers' decisions to add tasks, to end a loop task or to *)
(* destroy the pool, nor of spurious wake-ups.                             *)
(***************************************************************************)
Fairness ==
    /\ \A w \in Workers : WF_vars(WorkerStep(w))
    /\ \A c \in Callers : WF_vars(NotifyOne(c))
    /\ WF_vars(DestroyStep)

FairSpec == Spec /\ Fairness

-----------------------------------------------------------------------------
\* Every variable keeps its type, and a worker holds a task exactly while it runs one (ThreadPool.cpp:32-48).
TypeOK ==
    /\ queue \in Seq(Tasks)
    /\ stop \in BOOLEAN
    /\ worker \in [Workers -> {"check", "wait", "run", "exit"}]
    /\ task \in [Workers -> Tasks \cup {NoTask}]
    /\ \A w \in Workers : worker[w] = "run" <=> task[w] # NoTask
    /\ caller \in [Callers -> {"idle", "notify"}]
    /\ destroyer \in {"idle", "notify", "join", "joined"}
    /\ ended \subseteq LoopTasks
    /\ accepted \in Seq(Tasks)
    /\ refused \subseteq Tasks
    /\ started \in Seq(Tasks)
    /\ finished \subseteq Tasks

\* Whatever callers, workers and the destroyer interleave, the tasks that were started followed by those
\* still queued are the accepted tasks: none is lost, started twice or started out of order (enqueue and
\* the worker loop, ThreadPool.cpp:29-65).
AcceptedInOrder == accepted = started \o queue

\* A worker sleeps on the condition variable only while every queued task is matched by a worker already
\* awake or by a notify_one still to come, so the notify after the unlock (ThreadPool.cpp:64) is never lost.
NoLostWakeup == Waiting # {} => Len(queue) <= Cardinality(Awake) + Cardinality(Pending)

\* Once ~ThreadPool has notified, no worker is left asleep: a worker that tested Predicate before m_bStop
\* was set cannot go to sleep after notify_all (ThreadPool.cpp:67-76).
StopWakesAll == stop /\ Waiting # {} => destroyer = "notify"

\* When the destructor has joined the workers, every accepted task has run to its end, the ones still
\* queued when the pool was stopped included (the exit test, ThreadPool.cpp:42).
JoinedAfterAllTasks == destroyer = "joined" => queue = <<>> /\ ItemsOf(accepted) = finished

\* A task enqueue accepted is eventually taken by a worker, provided the loop tasks leave one free
\* (ThreadPool.cpp:55-65): checked with fewer loop tasks than workers.
EveryTaskStarts == \A t \in Tasks : t \in ItemsOf(accepted) ~> t \in ItemsOf(started)

\* Destroying the pool returns, provided the loop tasks it still has to run out are told to end
\* (ThreadPool.cpp:67-76).
DestroyReturns == destroyer # "idle" /\ ended = LoopTasks ~> destroyer = "joined"
=============================================================================
