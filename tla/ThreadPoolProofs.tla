-------------------------- MODULE ThreadPoolProofs --------------------------
(***************************************************************************)
(* Theorems about ThreadPool, for any number of workers, callers and       *)
(* tasks.  The safety of the pool rests on one inductive invariant, IInv:  *)
(* the type invariant, the three invariants TLC checks on a small pool,    *)
(* and three facts that tie the workers to the history variables.          *)
(***************************************************************************)
EXTENDS ThreadPool, FiniteSetTheorems, SequenceTheorems, TLAPS

\* m_bStop is set exactly once the destroyer has begun.
StopSet == stop <=> destroyer # "idle"

\* A worker leaves its loop only when the pool is stopped and nothing is queued, and nothing is queued later.
ExitsDrained == \A w \in Workers : worker[w] = "exit" => stop /\ queue = <<>>

\* Every task a worker took has returned or is being run.
Accounted == ItemsOf(started) = finished \cup Running

\* The destroyer goes past join only when every worker has left its loop.
JoinWaited == destroyer = "joined" => \A w \in Workers : worker[w] = "exit"

IInv ==
    /\ TypeOK
    /\ AcceptedInOrder
    /\ NoLostWakeup
    /\ StopWakesAll
    /\ StopSet
    /\ ExitsDrained
    /\ Accounted
    /\ JoinWaited

-----------------------------------------------------------------------------
\* Sequences: moving the head of the queue to the end of what was started leaves their concatenation alone.
LEMMA TakeConcat ==
    ASSUME NEW S, NEW s \in Seq(S), NEW q \in Seq(S), q # <<>>
    PROVE  Append(s, Head(q)) \o Tail(q) = s \o q
<1>1. Append(s, Head(q)) = s \o <<Head(q)>> /\ <<Head(q)>> \o Tail(q) = q
  BY HeadTailProperties, ConcatProperties, SeqEqual
<1>2. Head(q) \in S /\ Tail(q) \in Seq(S) /\ <<Head(q)>> \in Seq(S)
  BY HeadTailProperties
<1>3. (s \o <<Head(q)>>) \o Tail(q) = s \o (<<Head(q)>> \o Tail(q))
  BY <1>2, ConcatAssociative
<1> QED BY <1>1, <1>3

\* Sequences: queueing one more element appends it to the concatenation.
LEMMA AppendConcat ==
    ASSUME NEW S, NEW s \in Seq(S), NEW q \in Seq(S), NEW t \in S
    PROVE  s \o Append(q, t) = Append(s \o q, t)
<1>1. <<t>> \in Seq(S) /\ Append(q, t) = q \o <<t>>
  OBVIOUS
<1>2. s \o q \in Seq(S)
  BY ConcatProperties
<1>3. Append(s \o q, t) = (s \o q) \o <<t>>
  BY <1>2
<1> QED BY <1>1, <1>3, ConcatAssociative

\* The elements of a sequence with one more element at its end.
LEMMA ItemsOfAppend ==
    ASSUME NEW S, NEW s \in Seq(S), NEW t \in S
    PROVE  ItemsOf(Append(s, t)) = ItemsOf(s) \cup {t}
<1>1. Len(Append(s, t)) = Len(s) + 1 /\ DOMAIN Append(s, t) = 1..(Len(s) + 1) /\ Len(s) \in Nat
  OBVIOUS
<1>2. \A i \in 1..Len(s) : Append(s, t)[i] = s[i]
  OBVIOUS
<1>3. Append(s, t)[Len(s) + 1] = t
  OBVIOUS
<1>4. 1..(Len(s) + 1) = 1..Len(s) \cup {Len(s) + 1} /\ DOMAIN s = 1..Len(s)
  BY <1>1
<1> QED BY <1>1, <1>2, <1>3, <1>4 DEF ItemsOf

-----------------------------------------------------------------------------
LEMMA TypeInit == Init => TypeOK
<1> SUFFICES ASSUME Init PROVE TypeOK
  OBVIOUS
<1>1. stop \in BOOLEAN /\ task \in [Workers -> Tasks \cup {NoTask}]
  BY DEF Init
<1>2. \A w \in Workers : worker[w] = "run" <=> task[w] # NoTask
  BY DEF Init
<1>3. <<>> \in Seq(Tasks)
  BY EmptySeq
<1> QED BY <1>1, <1>2, <1>3 DEF Init, TypeOK

\* Every step keeps the types, and a worker holding a task exactly while it runs one.
LEMMA TypeStep == TypeOK /\ [Next]_vars => TypeOK'
<1> SUFFICES ASSUME TypeOK, [Next]_vars PROVE TypeOK'
  OBVIOUS
<1> USE DEF TypeOK
<1>1. ASSUME NEW c \in Callers, NEW t \in Tasks, AddTask(c, t) PROVE TypeOK'
  BY <1>1 DEF AddTask
<1>2. ASSUME NEW c \in Callers, NEW t \in Tasks, AddTaskRefused(c, t) PROVE TypeOK'
  BY <1>2 DEF AddTaskRefused
<1>3. ASSUME NEW c \in Callers, NotifyOne(c) PROVE TypeOK'
  BY <1>3 DEF NotifyOne, WakeOne, Waiting, history
<1>4. ASSUME NEW w \in Workers, Wait(w) PROVE TypeOK'
  BY <1>4 DEF Wait, history
<1>5. ASSUME NEW w \in Workers, Take(w) PROVE TypeOK'
  <2>1. Head(queue) \in Tasks /\ Tail(queue) \in Seq(Tasks)
    BY <1>5, HeadTailProperties DEF Take
  <2>2. Head(queue) # NoTask
    BY <2>1, PoolAssumption DEF PoolAssumption
  <2> QED BY <1>5, <2>1, <2>2 DEF Take, Popped
<1>6. ASSUME NEW w \in Workers, Exit(w) PROVE TypeOK'
  BY <1>6 DEF Exit, history
<1>7. ASSUME NEW w \in Workers, Finish(w) PROVE TypeOK'
  BY <1>7 DEF Finish
<1>8. ASSUME NEW w \in Workers, SpuriousWakeup(w) PROVE TypeOK'
  BY <1>8 DEF SpuriousWakeup, history
<1>9. ASSUME NEW t \in LoopTasks, EndLoop(t) PROVE TypeOK'
  BY <1>9 DEF EndLoop, history
<1>10. CASE Stop
  BY <1>10 DEF Stop, history
<1>11. CASE NotifyAll
  BY <1>11 DEF NotifyAll, WakeAll, Waiting, history
<1>12. CASE Join
  BY <1>12 DEF Join, history
<1>13. CASE UNCHANGED vars
  BY <1>13 DEF vars
<1> QED
  BY <1>1, <1>2, <1>3, <1>4, <1>5, <1>6, <1>7, <1>8, <1>9, <1>10, <1>11, <1>12, <1>13
  DEF Next, WorkerStep, DestroyStep

\* Every variable of the pool keeps its type in every reachable state.
THEOREM TypeCorrect == Spec => []TypeOK
  BY TypeInit, TypeStep, PTL DEF Spec

-----------------------------------------------------------------------------
\* The initial state: every worker is awake, nothing was submitted, the pool is not stopped.
LEMMA InvInit == Init => IInv
<1> SUFFICES ASSUME Init PROVE IInv
  OBVIOUS
<1>1. TypeOK
  BY TypeInit
<1>2. AcceptedInOrder
  BY DEF Init, AcceptedInOrder
<1>3. Waiting = {}
  BY DEF Init, Waiting
<1>4. StopSet
  <2>1. ~stop /\ destroyer = "idle"
    BY Zenon DEF Init
  <2> QED BY <2>1 DEF StopSet
<1>5. JoinWaited
  BY DEF Init, JoinWaited
<1>6. ExitsDrained
  BY DEF Init, ExitsDrained
<1>7. Accounted
  BY DEF Init, Accounted, ItemsOf, Running
<1> QED BY <1>1, <1>2, <1>3, <1>4, <1>5, <1>6, <1>7 DEF IInv, NoLostWakeup, StopWakesAll

\* What was started, followed by what is queued, stays the sequence of accepted tasks.
LEMMA OrderStep == TypeOK /\ AcceptedInOrder /\ [Next]_vars => AcceptedInOrder'
<1> SUFFICES ASSUME TypeOK, AcceptedInOrder, [Next]_vars PROVE AcceptedInOrder'
  OBVIOUS
<1> USE DEF AcceptedInOrder
<1>1. ASSUME NEW c \in Callers, NEW t \in Tasks, AddTask(c, t) PROVE AcceptedInOrder'
  <2>1. started \o Append(queue, t) = Append(started \o queue, t)
    BY AppendConcat DEF TypeOK
  <2> QED BY <1>1, <2>1 DEF AddTask
<1>2. ASSUME NEW w \in Workers, Take(w) PROVE AcceptedInOrder'
  <2>1. Append(started, Head(queue)) \o Tail(queue) = started \o queue
    BY <1>2, TakeConcat DEF Take, TypeOK
  <2> QED BY <1>2, <2>1 DEF Take, Popped
<1>3. CASE UNCHANGED <<queue, accepted, started>>
  BY <1>3
<1> QED
  BY <1>1, <1>2, <1>3
  DEF Next, WorkerStep, DestroyStep, vars, history, AddTaskRefused, NotifyOne, Wait, Exit, Finish,
      SpuriousWakeup, EndLoop, Stop, NotifyAll, Join

\* A stopped pool takes no more tasks, so a worker that left its loop finds nothing queued behind it.
LEMMA StopStep == TypeOK /\ StopSet /\ ExitsDrained /\ StopWakesAll /\ JoinWaited /\ [Next]_vars
                      => StopSet' /\ ExitsDrained' /\ StopWakesAll' /\ JoinWaited'
<1> SUFFICES ASSUME TypeOK, StopSet, ExitsDrained, StopWakesAll, JoinWaited, [Next]_vars
             PROVE  StopSet' /\ ExitsDrained' /\ StopWakesAll' /\ JoinWaited'
  OBVIOUS
<1> USE DEF StopSet, ExitsDrained, StopWakesAll, JoinWaited, Waiting
<1>1. ASSUME NEW c \in Callers, NEW t \in Tasks, AddTask(c, t)
      PROVE  StopSet' /\ ExitsDrained' /\ StopWakesAll' /\ JoinWaited'
  BY <1>1 DEF AddTask
<1>2. ASSUME NEW c \in Callers, NEW t \in Tasks, AddTaskRefused(c, t)
      PROVE  StopSet' /\ ExitsDrained' /\ StopWakesAll' /\ JoinWaited'
  BY <1>2 DEF AddTaskRefused
<1>3. ASSUME NEW c \in Callers, NotifyOne(c)
      PROVE  StopSet' /\ ExitsDrained' /\ StopWakesAll' /\ JoinWaited'
  BY <1>3 DEF NotifyOne, WakeOne, TypeOK, history
<1>4. ASSUME NEW w \in Workers, Wait(w)
      PROVE  StopSet' /\ ExitsDrained' /\ StopWakesAll' /\ JoinWaited'
  BY <1>4 DEF Wait, Predicate, TypeOK, history
<1>5. ASSUME NEW w \in Workers, Take(w)
      PROVE  StopSet' /\ ExitsDrained' /\ StopWakesAll' /\ JoinWaited'
  BY <1>5 DEF Take, TypeOK
<1>6. ASSUME NEW w \in Workers, Exit(w)
      PROVE  StopSet' /\ ExitsDrained' /\ StopWakesAll' /\ JoinWaited'
  BY <1>6 DEF Exit, MayExit, TypeOK, history
<1>7. ASSUME NEW w \in Workers, Finish(w)
      PROVE  StopSet' /\ ExitsDrained' /\ StopWakesAll' /\ JoinWaited'
  BY <1>7 DEF Finish, TypeOK
<1>8. ASSUME NEW w \in Workers, SpuriousWakeup(w)
      PROVE  StopSet' /\ ExitsDrained' /\ StopWakesAll' /\ JoinWaited'
  BY <1>8 DEF SpuriousWakeup, TypeOK, history
<1>9. ASSUME NEW t \in LoopTasks, EndLoop(t)
      PROVE  StopSet' /\ ExitsDrained' /\ StopWakesAll' /\ JoinWaited'
  BY <1>9 DEF EndLoop, history
<1>10. CASE Stop
  BY <1>10 DEF Stop, TypeOK, history
<1>11. CASE NotifyAll
  BY <1>11 DEF NotifyAll, WakeAll, TypeOK, history
<1>12. CASE Join
  BY <1>12 DEF Join, history
<1>13. CASE UNCHANGED vars
  BY <1>13 DEF vars
<1> QED
  BY <1>1, <1>2, <1>3, <1>4, <1>5, <1>6, <1>7, <1>8, <1>9, <1>10, <1>11, <1>12, <1>13
  DEF Next, WorkerStep, DestroyStep

\* A task leaves the workers only by returning.
LEMMA AccountedStep == TypeOK /\ Accounted /\ [Next]_vars => Accounted'
<1> SUFFICES ASSUME TypeOK, Accounted, [Next]_vars PROVE Accounted'
  OBVIOUS
<1> USE DEF Accounted
<1>1. ASSUME NEW w \in Workers, Take(w) PROVE Accounted'
  <2>1. Head(queue) \in Tasks
    BY <1>1, HeadTailProperties DEF Take, TypeOK
  <2>2. ItemsOf(started') = ItemsOf(started) \cup {Head(queue)}
    BY <1>1, <2>1, ItemsOfAppend DEF Take, TypeOK
  <2>3. Running' = Running \cup {Head(queue)}
    BY <1>1 DEF Take, TypeOK, Running
  <2> QED BY <1>1, <2>2, <2>3 DEF Take
<1>2. ASSUME NEW w \in Workers, Finish(w) PROVE Accounted'
  <2>1. Running' \cup {task[w]} = Running
    BY <1>2 DEF Finish, TypeOK, Running
  <2> QED BY <1>2, <2>1 DEF Finish, ItemsOf
<1>3. ASSUME UNCHANGED <<started, finished, task>>,
             \A w \in Workers : worker[w] = "run" <=> worker'[w] = "run"
      PROVE  Accounted'
  BY <1>3 DEF Running, ItemsOf
<1>4. ASSUME NEW c \in Callers, NotifyOne(c) PROVE Accounted'
  BY <1>3, <1>4 DEF NotifyOne, WakeOne, Waiting, TypeOK, history
<1>5. ASSUME NEW w \in Workers, Wait(w) \/ Exit(w) \/ SpuriousWakeup(w) PROVE Accounted'
  BY <1>3, <1>5 DEF Wait, Exit, SpuriousWakeup, TypeOK, history
<1>6. CASE NotifyAll
  BY <1>3, <1>6 DEF NotifyAll, WakeAll, Waiting, TypeOK, history
<1>7. CASE UNCHANGED <<started, finished, task, worker>>
  BY <1>3, <1>7
<1> QED
  BY <1>1, <1>2, <1>4, <1>5, <1>6, <1>7
  DEF Next, WorkerStep, DestroyStep, vars, history, AddTask, AddTaskRefused, EndLoop, Stop, Join

-----------------------------------------------------------------------------
\* The counts NoLostWakeup compares are natural numbers.
LEMMA Counts ==
    /\ IsFiniteSet(Awake) /\ Cardinality(Awake) \in Nat
    /\ IsFiniteSet(Pending) /\ Cardinality(Pending) \in Nat
<1>1. Awake \in SUBSET Workers /\ Pending \in SUBSET Callers
  BY DEF Awake, Pending
<1> QED BY <1>1, PoolAssumption, FS_Subset, FS_CardinalityType DEF PoolAssumption

\* The same in the next state.
LEMMA CountsNext ==
    /\ IsFiniteSet(Awake') /\ Cardinality(Awake') \in Nat
    /\ IsFiniteSet(Pending') /\ Cardinality(Pending') \in Nat
<1>1. Awake' \in SUBSET Workers /\ Pending' \in SUBSET Callers
  BY DEF Awake, Pending
<1> QED BY <1>1, PoolAssumption, FS_Subset, FS_CardinalityType DEF PoolAssumption

\* While a worker sleeps, the tasks queued are covered by awake workers and pending notifications.
LEMMA WakeupStep == TypeOK /\ NoLostWakeup /\ [Next]_vars => NoLostWakeup'
<1> SUFFICES ASSUME TypeOK, NoLostWakeup, [Next]_vars, Waiting' # {}
             PROVE  Len(queue') <= Cardinality(Awake') + Cardinality(Pending')
  BY DEF NoLostWakeup
<1> USE Counts, CountsNext DEF NoLostWakeup
<1>1. ASSUME NEW c \in Callers, NEW t \in Tasks, AddTask(c, t)
      PROVE  Len(queue') <= Cardinality(Awake') + Cardinality(Pending')
  <2>1. Len(queue') = Len(queue) + 1 /\ Len(queue) \in Nat
    BY <1>1 DEF AddTask, TypeOK
  <2>2. Awake' = Awake /\ Waiting' = Waiting
    BY <1>1 DEF AddTask, Awake, Waiting
  <2>3. Pending' = Pending \cup {c} /\ c \notin Pending
    BY <1>1 DEF AddTask, ManagerFree, Pending, TypeOK
  <2>4. Cardinality(Pending') = Cardinality(Pending) + 1
    BY <2>3, FS_AddElement
  <2> QED BY <2>1, <2>2, <2>4
<1>2. ASSUME NEW c \in Callers, NotifyOne(c)
      PROVE  Len(queue') <= Cardinality(Awake') + Cardinality(Pending')
  <2>1. Pending' = Pending \ {c} /\ c \in Pending
    BY <1>2 DEF NotifyOne, Pending, TypeOK
  <2>2. Cardinality(Pending') = Cardinality(Pending) - 1
    BY <2>1, FS_RemoveElement
  <2>3. Waiting # {}
    BY <1>2 DEF NotifyOne, WakeOne, Waiting
  <2>4. PICK w \in Waiting : worker' = [worker EXCEPT ![w] = "check"]
    BY <1>2, <2>3 DEF NotifyOne, WakeOne
  <2>5. Awake' = Awake \cup {w} /\ w \notin Awake
    BY <2>4 DEF Awake, Waiting, TypeOK
  <2>6. Cardinality(Awake') = Cardinality(Awake) + 1
    BY <2>5, FS_AddElement
  <2>7. queue' = queue /\ Len(queue) \in Nat
    BY <1>2 DEF NotifyOne, TypeOK
  <2> QED BY <2>2, <2>3, <2>6, <2>7
<1>3. ASSUME NEW w \in Workers, Wait(w)
      PROVE  Len(queue') <= Cardinality(Awake') + Cardinality(Pending')
  <2>1. queue' = <<>>
    BY <1>3 DEF Wait, Predicate
  <2> QED BY <2>1, EmptySeq
<1>4. ASSUME NEW w \in Workers, Take(w)
      PROVE  Len(queue') <= Cardinality(Awake') + Cardinality(Pending')
  <2>1. Len(queue') = Len(queue) - 1 /\ Len(queue) \in Nat
    BY <1>4, HeadTailProperties DEF Take, Popped, TypeOK
  <2>2. Awake' = Awake \ {w} /\ w \in Awake /\ Waiting' = Waiting
    BY <1>4 DEF Take, Awake, Waiting, TypeOK
  <2>3. Cardinality(Awake') = Cardinality(Awake) - 1
    BY <2>2, FS_RemoveElement
  <2>4. Pending' = Pending
    BY <1>4 DEF Take, Pending
  <2> QED BY <2>1, <2>2, <2>3, <2>4
<1>5. ASSUME NEW w \in Workers, Exit(w)
      PROVE  Len(queue') <= Cardinality(Awake') + Cardinality(Pending')
  <2>1. queue' = <<>>
    BY <1>5 DEF Exit, MayExit
  <2> QED BY <2>1, EmptySeq
<1>6. ASSUME NEW w \in Workers, Finish(w) \/ SpuriousWakeup(w)
      PROVE  Len(queue') <= Cardinality(Awake') + Cardinality(Pending')
  <2>1. Awake' = Awake \cup {w} /\ w \notin Awake
    BY <1>6 DEF Finish, SpuriousWakeup, Awake, TypeOK, history
  <2>2. Waiting' \subseteq Waiting
    BY <1>6 DEF Finish, SpuriousWakeup, Waiting, TypeOK, history
  <2>3. Cardinality(Awake') = Cardinality(Awake) + 1
    BY <2>1, FS_AddElement
  <2>4. Pending' = Pending /\ queue' = queue /\ Len(queue) \in Nat
    BY <1>6 DEF Finish, SpuriousWakeup, Pending, TypeOK, history
  <2> QED BY <2>2, <2>3, <2>4
<1>7. CASE NotifyAll
  <2>1. Waiting' = {}
    BY <1>7 DEF NotifyAll, WakeAll, Waiting
  <2> QED BY <2>1
<1>8. CASE UNCHANGED <<queue, worker, caller>>
  <2>1. Awake' = Awake /\ Waiting' = Waiting /\ Pending' = Pending
    BY <1>8 DEF Awake, Waiting, Pending
  <2> QED BY <1>8, <2>1
<1> QED
  BY <1>1, <1>2, <1>3, <1>4, <1>5, <1>6, <1>7, <1>8
  DEF Next, WorkerStep, DestroyStep, vars, history, AddTaskRefused, EndLoop, Stop, Join

-----------------------------------------------------------------------------
\* The inductive invariant holds in every reachable state.
LEMMA InvCorrect == Spec => []IInv
<1>1. IInv /\ [Next]_vars => IInv'
  BY TypeStep, OrderStep, StopStep, AccountedStep, WakeupStep DEF IInv
<1> QED BY <1>1, InvInit, PTL DEF Spec

\* No accepted task is lost, duplicated or started out of order (enqueue and the worker loop).
THEOREM OrderCorrect == Spec => []AcceptedInOrder
<1>1. IInv => AcceptedInOrder
  BY DEF IInv
<1> QED BY <1>1, InvCorrect, PTL

\* The notify_one that follows the unlock in enqueue is never lost.
THEOREM WakeupCorrect == Spec => []NoLostWakeup
<1>1. IInv => NoLostWakeup
  BY DEF IInv
<1> QED BY <1>1, InvCorrect, PTL

\* After the destructor's notify_all no worker sleeps, and none falls asleep again.
THEOREM StopCorrect == Spec => []StopWakesAll
<1>1. IInv => StopWakesAll
  BY DEF IInv
<1> QED BY <1>1, InvCorrect, PTL

\* When the destructor has joined the workers, every accepted task has run to its end.
THEOREM JoinCorrect == Spec => []JoinedAfterAllTasks
<1>1. ASSUME IInv, destroyer = "joined"
      PROVE  queue = <<>> /\ ItemsOf(accepted) = finished
  <2>1. \A w \in Workers : worker[w] = "exit"
    BY <1>1 DEF IInv, JoinWaited
  <2>2. queue = <<>>
    BY <1>1, <2>1, PoolAssumption DEF IInv, ExitsDrained, PoolAssumption
  <2>3. accepted = started
    BY <1>1, <2>2, ConcatEmptySeq DEF IInv, AcceptedInOrder, TypeOK
  <2>4. Running = {}
    BY <2>1 DEF Running
  <2> QED BY <1>1, <2>2, <2>3, <2>4 DEF IInv, Accounted
<1>2. IInv => JoinedAfterAllTasks
  BY <1>1 DEF JoinedAfterAllTasks
<1> QED BY <1>2, InvCorrect, PTL

-----------------------------------------------------------------------------
(* A task runs once: enqueue is given each std::function once, and the mutex hands it to one worker. *)

\* No task was accepted twice: every call of enqueue makes a task of its own.
AcceptedOnce == \A i, j \in 1..Len(accepted) : accepted[i] = accepted[j] => i = j

\* No two workers run one task, and no task that returned is run again.
RunOnce ==
    /\ \A v, w \in Workers : worker[v] = "run" /\ worker[w] = "run" /\ task[v] = task[w] => v = w
    /\ Running \cap finished = {}

\* Sequences: if the concatenation repeats nothing, the head of the second is not in the first.
LEMMA HeadIsNew ==
    ASSUME NEW S, NEW s \in Seq(S), NEW q \in Seq(S), q # <<>>,
           \A i, j \in 1..Len(s \o q) : (s \o q)[i] = (s \o q)[j] => i = j
    PROVE  Head(q) \notin ItemsOf(s)
<1>1. /\ Len(s) \in Nat /\ Len(q) \in Nat \ {0} /\ Len(s \o q) = Len(s) + Len(q)
      /\ DOMAIN s = 1..Len(s)
  BY EmptySeq, LenProperties, ConcatProperties
<1>2. (s \o q)[Len(s) + 1] = Head(q)
  <2>1. (s \o q)[Len(s) + 1] = q[1]
    BY <1>1, ConcatProperties
  <2> QED BY <2>1, HeadTailProperties
<1>3. ASSUME NEW i \in DOMAIN s, s[i] = Head(q) PROVE FALSE
  <2>1. i \in 1..Len(s) /\ (s \o q)[i] = s[i]
    BY <1>1, ConcatProperties
  <2>2. i \in 1..Len(s \o q) /\ Len(s) + 1 \in 1..Len(s \o q) /\ i # Len(s) + 1
    BY <1>1, <2>1
  <2> QED BY <1>2, <1>3, <2>1, <2>2
<1> QED BY <1>3 DEF ItemsOf

\* Only AddTask lengthens what was accepted, by a task that is not in it.
LEMMA AcceptedOnceStep == TypeOK /\ AcceptedOnce /\ [Next]_vars => AcceptedOnce'
<1> SUFFICES ASSUME TypeOK, AcceptedOnce, [Next]_vars PROVE AcceptedOnce'
  OBVIOUS
<1>1. ASSUME NEW c \in Callers, NEW t \in Tasks, AddTask(c, t) PROVE AcceptedOnce'
  <2>1. accepted \in Seq(Tasks) /\ Len(accepted) \in Nat /\ DOMAIN accepted = 1..Len(accepted)
    BY LenProperties DEF TypeOK
  <2>2. /\ Len(accepted') = Len(accepted) + 1 /\ accepted'[Len(accepted) + 1] = t
        /\ \A i \in 1..Len(accepted) : accepted'[i] = accepted[i]
    BY <1>1, <2>1, AppendProperties DEF AddTask
  <2>3. \A i \in 1..Len(accepted) : accepted[i] # t
    BY <1>1, <2>1 DEF AddTask, Fresh, ItemsOf
  <2> SUFFICES ASSUME NEW i \in 1..Len(accepted'), NEW j \in 1..Len(accepted'), accepted'[i] = accepted'[j]
               PROVE  i = j
    BY DEF AcceptedOnce
  <2>4. \A k \in 1..Len(accepted') : k \in 1..Len(accepted) \/ k = Len(accepted) + 1
    BY <2>1, <2>2
  <2>5. CASE i \in 1..Len(accepted) /\ j \in 1..Len(accepted)
    BY <2>2, <2>5 DEF AcceptedOnce
  <2>6. CASE i = Len(accepted) + 1 \/ j = Len(accepted) + 1
    BY <2>2, <2>3, <2>4, <2>6
  <2> QED BY <2>4, <2>5, <2>6
<1>2. CASE accepted' = accepted
  BY <1>2 DEF AcceptedOnce
<1> QED
  BY <1>1, <1>2
  DEF Next, WorkerStep, DestroyStep, vars, history, AddTaskRefused, NotifyOne, Wait, SpuriousWakeup, Take, Exit,
      Finish, EndLoop, Stop, NotifyAll, Join

\* A worker takes a task that is neither run by another nor finished, and finishes the one it runs.
LEMMA RunOnceStep == IInv /\ AcceptedOnce /\ RunOnce /\ [Next]_vars => RunOnce'
<1> SUFFICES ASSUME IInv, AcceptedOnce, RunOnce, [Next]_vars PROVE RunOnce'
  OBVIOUS
<1>1. TypeOK /\ AcceptedInOrder /\ Accounted
  BY DEF IInv
<1>2. ASSUME NEW w \in Workers, Take(w) PROVE RunOnce'
  <2> DEFINE t == Head(queue)
  <2>1. t \notin finished \cup Running
    <3>1. queue \in Seq(Tasks) /\ started \in Seq(Tasks) /\ queue # <<>> /\ accepted = started \o queue
      BY <1>1, <1>2 DEF TypeOK, AcceptedInOrder, Take
    <3>2. t \notin ItemsOf(started)
      BY <3>1, HeadIsNew DEF AcceptedOnce
    <3> QED BY <1>1, <3>2 DEF Accounted
  <2> HIDE DEF t
  <2>2. /\ \A v \in Workers : worker'[v] = IF v = w THEN "run" ELSE worker[v]
        /\ \A v \in Workers : task'[v] = IF v = w THEN t ELSE task[v]
        /\ worker[w] = "check" /\ finished' = finished
    BY <1>1, <1>2 DEF Take, TypeOK, t
  <2>3. \A v \in Workers : worker'[v] = "run" /\ v # w => task'[v] \in Running
    BY <2>2 DEF Running
  <2>4. ASSUME NEW u \in Workers, NEW v \in Workers, worker'[u] = "run", worker'[v] = "run", task'[u] = task'[v]
        PROVE  u = v
    <3>1. CASE u # w /\ v # w
      BY <2>2, <2>4, <3>1 DEF RunOnce
    <3>2. CASE u = w \/ v = w
      BY <2>1, <2>2, <2>3, <2>4, <3>2
    <3> QED BY <3>1, <3>2
  <2>5. (Running \cap finished)' = {}
    <3>1. ASSUME NEW v \in Workers, worker'[v] = "run" PROVE task'[v] \notin finished
      BY <2>1, <2>2, <2>3, <3>1 DEF RunOnce
    <3> QED BY <2>2, <3>1 DEF Running
  <2> QED BY <2>4, <2>5 DEF RunOnce
<1>3. ASSUME NEW w \in Workers, Finish(w) PROVE RunOnce'
  <2>1. /\ \A v \in Workers : worker'[v] = IF v = w THEN "check" ELSE worker[v]
        /\ \A v \in Workers : v # w => task'[v] = task[v]
        /\ worker[w] = "run" /\ finished' = finished \cup {task[w]}
    BY <1>1, <1>3 DEF Finish, TypeOK
  <2>2. ASSUME NEW v \in Workers, worker'[v] = "run"
        PROVE  v # w /\ worker[v] = "run" /\ task'[v] = task[v]
    BY <2>1, <2>2
  <2>3. ASSUME NEW u \in Workers, NEW v \in Workers, worker'[u] = "run", worker'[v] = "run", task'[u] = task'[v]
        PROVE  u = v
    BY <2>2, <2>3 DEF RunOnce
  <2>4. (Running \cap finished)' = {}
    <3>1. ASSUME NEW v \in Workers, worker'[v] = "run" PROVE task'[v] \notin finished'
      <4>1. task[v] # task[w] /\ task[v] \notin finished
        BY <2>1, <2>2, <3>1 DEF RunOnce, Running
      <4> QED BY <2>1, <2>2, <3>1, <4>1
    <3> QED BY <3>1 DEF Running
  <2> QED BY <2>3, <2>4 DEF RunOnce
<1>4. ASSUME task' = task, finished' = finished,
             \A w \in Workers : worker'[w] = "run" <=> worker[w] = "run"
      PROVE  RunOnce'
  BY <1>4 DEF RunOnce, Running
<1>5. ASSUME NEW w \in Workers, Wait(w) \/ Exit(w) \/ SpuriousWakeup(w) PROVE RunOnce'
  <2>1. /\ \A v \in Workers : worker'[v] = "run" <=> worker[v] = "run"
        /\ task' = task /\ finished' = finished
    BY <1>1, <1>5 DEF TypeOK, Wait, Exit, SpuriousWakeup, history
  <2> QED BY <1>4, <2>1
<1>6. ASSUME NEW c \in Callers, NotifyOne(c) PROVE RunOnce'
  <2>1. /\ \A v \in Workers : worker'[v] = "run" <=> worker[v] = "run"
        /\ task' = task /\ finished' = finished
    BY <1>1, <1>6 DEF TypeOK, NotifyOne, WakeOne, Waiting, history
  <2> QED BY <1>4, <2>1
<1>7. CASE NotifyAll
  <2>1. /\ \A v \in Workers : worker'[v] = "run" <=> worker[v] = "run"
        /\ task' = task /\ finished' = finished
    BY <1>1, <1>7 DEF TypeOK, NotifyAll, WakeAll, Waiting, history
  <2> QED BY <1>4, <2>1
<1>8. CASE UNCHANGED <<worker, task, finished>>
  BY <1>4, <1>8
<1> QED
  BY <1>2, <1>3, <1>5, <1>6, <1>7, <1>8
  DEF Next, WorkerStep, DestroyStep, vars, history, AddTask, AddTaskRefused, EndLoop, Stop, Join

\* Every accepted task is run by one worker, once: no two workers have taken the same task from the queue, and
\* none takes one that has run (the worker loop, ThreadPool.cpp:32-48).
THEOREM RunOnceCorrect == Spec => []RunOnce
<1>1. Init => AcceptedOnce /\ RunOnce
  <2>1. Init => Running = {}
    BY DEF Init, Running
  <2>2. Init => Len(accepted) = 0
    BY EmptySeq DEF Init
  <2> QED BY <2>1, <2>2 DEF Init, AcceptedOnce, RunOnce
<1>2. Spec => []AcceptedOnce
  <2>1. IInv => TypeOK
    BY DEF IInv
  <2> QED BY <1>1, <2>1, AcceptedOnceStep, InvCorrect, PTL DEF Spec
<1> QED BY <1>1, <1>2, RunOnceStep, InvCorrect, PTL DEF Spec
=============================================================================
