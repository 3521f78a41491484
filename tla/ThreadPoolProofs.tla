---------------------------- MODULE ThreadPoolProofs ---------------------------
(* Theorems about ThreadPool, for any threads, any tasks and any bound.    *)
EXTENDS ThreadPool, DataLemmas, FiniteSetTheorems

(* What one notify may leave asleep.                                       *)
LEMMA NotifyWakes ==
    ASSUME NEW condition, NEW left \in notify(condition)
    PROVE  /\ left \subseteq condition
           /\ condition = {} => left = {}
           /\ condition # {} => \E t \in condition : left = condition \ {t}
BY DEF notify

(* What take() may leave asleep on notFull_.                               *)
LEMMA TakeWakes ==
    ASSUME TakeTask
    PROVE  /\ notFull_' \subseteq notFull_
           /\ maxQueueSize_ > 0 => notFull_' \in notify(notFull_)
BY NotifyWakes DEF TakeTask

(* The steps of Next, with those of run() and RunWoken() put together: the *)
(* caller is not asleep and has its task.                                  *)
RunStep(t, x) ==
    /\ RunLocked(t, x)
    /\ t \notin notFull_
    /\ \/ call[t] = NoTask /\ x \notin given /\ given' = given \cup {x}
       \/ call[t] = x /\ UNCHANGED given

LEMMA RunSteps ==
    ASSUME TypeOK, NEW t \in Callers
    PROVE  /\ RunWoken(t) => call[t] \in Tasks /\ RunStep(t, call[t])
           /\ \A x \in Tasks : run(t, x) => RunStep(t, x)
BY DEF TypeOK, RunWoken, run, MayRun, RunStep

(* The steps of a thread outside run() and take(), and of start() and      *)
(* StopReturns.                                                            *)
ThreadStep(w) ==
    \/ StartThread(w) \/ RunInThread(w) \/ TestRunning(w) \/ UserReturns(w) \/ UserThrows(w)
    \/ ThreadCrashes(w) \/ startThread(w) \/ join(w)

OwnerStep == start \/ StartReturns \/ StopReturns

(* A step after which the same tasks are queued and the same threads wait. *)
Quiet ==
    /\ UNCHANGED <<queue_, notEmpty_, notFull_, call, taken>>
    /\ given \subseteq given' /\ (running_ => running_')
    /\ \A w \in Workers : worker'[w] = "waiting" <=> worker[w] = "waiting"

(* A step that stops the pool.                                             *)
Stopping ==
    /\ UNCHANGED <<queue_, worker, call, given, taken>>
    /\ ~running_' /\ notEmpty_' = {} /\ notFull_' = {}

LEMMA ThreadStepIsQuiet ==
    ASSUME TypeOK, NEW w \in Workers, ThreadStep(w)
    PROVE  /\ Quiet /\ UNCHANGED <<running_, given>> /\ owner' \in {owner, "aborted"}
           /\ worker' \in [Workers -> Stages]
<1> USE DEF TypeOK, Quiet, Stages
<1>1. CASE StartThread(w)
  BY <1>1 DEF StartThread, ThreadStart
<1>2. CASE RunInThread(w) \/ TestRunning(w) \/ UserReturns(w) \/ startThread(w)
  BY <1>2 DEF RunInThread, countDown, count_, TestRunning, UserReturns, UserCode, startThread
<1>3. CASE UserThrows(w) \/ ThreadCrashes(w)
  BY <1>3 DEF UserThrows, UserCode, ThreadCrashes, abort
<1>4. CASE join(w)
  BY <1>4 DEF join, abort
<1> QED BY <1>1, <1>2, <1>3, <1>4 DEF ThreadStep

LEMMA NextSteps ==
    ASSUME TypeOK, [Next]_vars
    PROVE  \/ Quiet \/ Stopping
           \/ \E w \in Workers : take(w)
           \/ \E t \in Callers : SpuriousWakeup(t) \/ \E x \in Tasks : RunStep(t, x)
<1>1. CASE OwnerStep \/ \E t \in Callers : \E x \in Tasks : RunInline(t, x)
  BY <1>1 DEF OwnerStep, start, StartReturns, StopReturns, RunInline, Quiet
<1>2. CASE stop
  BY <1>2 DEF stop, StopLocked, notifyAll, Stopping
<1>3. CASE Delete
  BY <1>3 DEF Delete, StopLocked, notifyAll, Stopping, Quiet
<1>4. CASE \E w \in Workers : ThreadStep(w)
  BY <1>4, ThreadStepIsQuiet
<1>5. CASE UNCHANGED vars
  BY <1>5 DEF vars, Quiet
<1> QED BY <1>1, <1>2, <1>3, <1>4, <1>5, RunSteps DEF Next, WorkerSteps, StopSteps, ThreadStep, OwnerStep

--------------------------------------------------------------------------------
(* Types.                                                                  *)

LEMMA InitType == Init => TypeOK
<1> SUFFICES ASSUME Init PROVE TypeOK
  OBVIOUS
<1>1. queue_ \in Seq(Tasks)
  BY DEF Init
<1>2. running_ \in BOOLEAN
  BY DEF Init
<1>3. /\ worker \in [Workers -> Stages]
      /\ call \in [Callers -> Tasks \cup {NoTask}]
  BY DEF Init, Stages
<1>4. notEmpty_ = {} /\ notFull_ = {} /\ owner = "new" /\ given = {} /\ taken = {}
  BY DEF Init
<1> QED BY <1>1, <1>2, <1>3, <1>4 DEF TypeOK, Phases

LEMMA RunType ==
    ASSUME TypeOK, NEW t \in Callers, NEW x \in Tasks, RunStep(t, x)
    PROVE  TypeOK'
<1> USE DEF TypeOK, RunStep, RunLocked
<1>1. x # NoTask
  BY ThreadPoolAssumption
<1>2. UNCHANGED <<running_, worker, owner, taken>> /\ given' \subseteq Tasks
  OBVIOUS
<1>3. CASE WaitNotFull(t, x)
  <2>1. call' \in [Callers -> Tasks \cup {NoTask}] /\ UNCHANGED <<queue_, notEmpty_>>
    BY <1>3 DEF WaitNotFull
  <2>2. \A u \in notFull_' : u \in Callers /\ call'[u] # NoTask
    BY <1>1, <1>3 DEF WaitNotFull, wait
  <2> QED BY <1>2, <2>1, <2>2
<1>4. CASE Push(t, x)
  <2>1. call' \in [Callers -> Tasks \cup {NoTask}] /\ queue_' \in Seq(Tasks) /\ UNCHANGED notFull_
    BY <1>4 DEF Push
  <2>2. \A u \in notFull_' : u \in Callers /\ call'[u] # NoTask
    BY <1>4 DEF Push
  <2>3. notEmpty_' \subseteq notEmpty_
    BY <1>4, NotifyWakes DEF Push
  <2> QED BY <1>2, <2>1, <2>2, <2>3
<1>5. CASE call' = [call EXCEPT ![t] = NoTask] /\ UNCHANGED <<queue_, notEmpty_, notFull_>>
  BY <1>2, <1>5
<1> QED BY <1>3, <1>4, <1>5

LEMMA TypeStep == TypeOK /\ [Next]_vars => TypeOK'
<1> SUFFICES ASSUME TypeOK, [Next]_vars PROVE TypeOK'
  OBVIOUS
<1> USE DEF TypeOK
<1>1. CASE OwnerStep
  BY <1>1 DEF OwnerStep, start, StartReturns, StopReturns, Phases
<1>2. ASSUME NEW w \in Workers, ThreadStep(w) PROVE TypeOK'
  BY <1>2, ThreadStepIsQuiet DEF Quiet, Phases
<1>3. ASSUME NEW w \in Workers, take(w) PROVE TypeOK'
  <2>1. CASE queue_ = <<>>
    BY <1>3, <2>1 DEF take, wait, Stages
  <2>2. CASE queue_ # <<>>
    <3>1. /\ TakeTask /\ worker' = [worker EXCEPT ![w] = "task"] /\ w \notin notEmpty_
          /\ UNCHANGED <<running_, call, owner, given>>
      BY <1>3, <2>2 DEF take
    <3>2. queue_' \in Seq(Tasks) /\ taken' \subseteq Tasks /\ UNCHANGED notEmpty_
      BY <2>2, <3>1 DEF TakeTask
    <3> QED BY <3>1, <3>2, TakeWakes DEF Stages
  <2> QED BY <2>1, <2>2
<1>4. ASSUME NEW t \in Callers, NEW x \in Tasks, RunStep(t, x) PROVE TypeOK'
  BY <1>4, RunType
<1>5. ASSUME NEW t \in Callers, NEW x \in Tasks, RunInline(t, x) PROVE TypeOK'
  BY <1>5 DEF RunInline
<1>6. ASSUME NEW t \in Callers, SpuriousWakeup(t) PROVE TypeOK'
  BY <1>6 DEF SpuriousWakeup
<1>7. CASE stop \/ Delete
  BY <1>7 DEF stop, Delete, StopLocked, notifyAll, Phases
<1>8. CASE UNCHANGED vars
  BY <1>8 DEF vars
<1> QED BY <1>1, <1>2, <1>3, <1>4, <1>5, <1>6, <1>7, <1>8, RunSteps
        DEF Next, WorkerSteps, StopSteps, ThreadStep, OwnerStep

(* Every variable of the pool stays in its type.                           *)
THEOREM PoolTypeCorrect == Spec => []TypeOK
BY InitType, TypeStep, PTL DEF Spec

--------------------------------------------------------------------------------
(* The bound, and nobody asleep on a stopped pool.                         *)

LEMMA BoundedStep ==
    ASSUME TypeOK, QueueBounded, [Next]_vars
    PROVE  QueueBounded'
<1> USE DEF TypeOK, QueueBounded, queueSize
<1>1. ASSUME NEW t \in Callers, NEW x \in Tasks, RunStep(t, x) PROVE QueueBounded'
  <2>1. CASE ~isFull /\ Push(t, x)
    <3>1. Len(queue_') = Len(queue_) + 1
      BY <2>1 DEF Push
    <3> QED BY <2>1, <3>1, ThreadPoolAssumption DEF isFull
  <2>2. CASE UNCHANGED queue_
    BY <2>2
  <2> QED BY <1>1, <2>1, <2>2 DEF RunStep, RunLocked, WaitNotFull
<1>2. ASSUME NEW w \in Workers, take(w) PROVE QueueBounded'
  <2>1. CASE queue_ = <<>>
    BY <1>2, <2>1 DEF take
  <2>2. CASE queue_ # <<>>
    <3>1. Len(queue_') = Len(queue_) - 1
      BY <1>2, <2>2 DEF take, TakeTask
    <3> QED BY <3>1, ThreadPoolAssumption
  <2> QED BY <2>1, <2>2
<1>3. CASE Quiet \/ Stopping \/ \E t \in Callers : SpuriousWakeup(t)
  BY <1>3 DEF Quiet, Stopping, SpuriousWakeup
<1> QED BY <1>1, <1>2, <1>3, NextSteps

LEMMA StoppedStep ==
    ASSUME TypeOK, StoppedWakesAll, [Next]_vars
    PROVE  StoppedWakesAll'
<1> USE DEF StoppedWakesAll
<1>1. ASSUME NEW t \in Callers, NEW x \in Tasks, RunStep(t, x) PROVE StoppedWakesAll'
  <2>1. CASE running_
    BY <1>1, <2>1 DEF RunStep, RunLocked
  <2>2. CASE ~running_
    BY <1>1, <2>2 DEF RunStep, RunLocked
  <2> QED BY <2>1, <2>2
<1>2. ASSUME NEW w \in Workers, take(w) PROVE StoppedWakesAll'
  <2>1. CASE running_
    BY <1>2, <2>1 DEF take
  <2>2. CASE ~running_
    BY <1>2, <2>2, TakeWakes DEF take, TakeTask
  <2> QED BY <2>1, <2>2
<1>3. CASE Quiet \/ Stopping \/ \E t \in Callers : SpuriousWakeup(t)
  BY <1>3 DEF Quiet, Stopping, SpuriousWakeup
<1> QED BY <1>1, <1>2, <1>3, NextSteps

(* ThreadPool::run: the queue never outgrows maxQueueSize_.                *)
THEOREM PoolIsBounded == Spec => []QueueBounded
<1>1. Init => QueueBounded
  BY ThreadPoolAssumption DEF Init, QueueBounded, queueSize
<1> QED BY <1>1, InitType, TypeStep, BoundedStep, PTL DEF Spec

(* ThreadPool::stop wakes everybody, and nobody waits afterwards.          *)
THEOREM NobodyLeftAsleep == Spec => []StoppedWakesAll
<1>1. Init => StoppedWakesAll
  BY DEF Init, StoppedWakesAll
<1> QED BY <1>1, InitType, TypeStep, StoppedStep, PTL DEF Spec

--------------------------------------------------------------------------------
(* Lost wake-ups.                                                          *)

LEMMA FiniteWoken ==
    /\ IsFiniteSet(WokenWorkers) /\ Cardinality(WokenWorkers) \in Nat
    /\ IsFiniteSet(WokenCallers) /\ Cardinality(WokenCallers) \in Nat
<1>1. IsFiniteSet(Workers) /\ IsFiniteSet(Callers)
  BY ThreadPoolAssumption, FS_Union DEF Callers
<1>2. WokenWorkers \in SUBSET Workers /\ WokenCallers \in SUBSET Callers
  BY DEF WokenWorkers, WokenCallers
<1> QED BY <1>1, <1>2, FS_Subset, FS_CardinalityType

(* A thread leaves a set of sleepers, or one enters the woken.             *)
LEMMA OneMore ==
    ASSUME NEW S, NEW t, IsFiniteSet(S), t \notin S
    PROVE  Cardinality(S \cup {t}) = Cardinality(S) + 1
BY FS_AddElement

LEMMA OneLess ==
    ASSUME NEW S, NEW t, IsFiniteSet(S), t \in S
    PROVE  Cardinality(S \ {t}) = Cardinality(S) - 1
BY FS_RemoveElement

LEMMA WorkersStep ==
    ASSUME TypeOK, StoppedWakesAll, WorkersWoken, [Next]_vars
    PROVE  WorkersWoken'
<1> USE DEF TypeOK, WorkersWoken
<1>1. ASSUME NEW t \in Callers, NEW x \in Tasks, RunStep(t, x) PROVE WorkersWoken'
  <2>1. UNCHANGED worker
    BY <1>1 DEF RunStep, RunLocked
  <2>2. CASE UNCHANGED <<queue_, notEmpty_>>
    BY <2>1, <2>2 DEF WokenWorkers
  <2>3. CASE Push(t, x)
    <3>1. Len(queue_') = Len(queue_) + 1 /\ notEmpty_' \in notify(notEmpty_)
      BY <2>3 DEF Push
    <3>2. CASE notEmpty_ = {}
      BY <3>1, <3>2, NotifyWakes
    <3>3. CASE notEmpty_ # {}
      <4>1. PICK u \in notEmpty_ : notEmpty_' = notEmpty_ \ {u}
        BY <3>1, <3>3, NotifyWakes
      <4>2. u \notin WokenWorkers /\ WokenWorkers' = WokenWorkers \cup {u}
        BY <2>1, <4>1 DEF WokenWorkers
      <4>3. Cardinality(WokenWorkers') = Cardinality(WokenWorkers) + 1
        BY <4>2, FiniteWoken, OneMore
      <4> QED BY <3>1, <3>3, <4>3, FiniteWoken
    <3> QED BY <3>2, <3>3
  <2> QED BY <1>1, <2>2, <2>3 DEF RunStep, RunLocked, WaitNotFull
<1>2. ASSUME NEW w \in Workers, take(w) PROVE WorkersWoken'
  <2>1. CASE queue_ = <<>> /\ running_
    <3>1. queue_' = <<>>
      BY <1>2, <2>1 DEF take
    <3>2. Len(queue_') = 0 /\ Cardinality(WokenWorkers)' \in Nat
      <4>1. WokenWorkers' \in SUBSET Workers
        BY DEF WokenWorkers
      <4> QED BY <3>1, <4>1, ThreadPoolAssumption, FS_Subset, FS_CardinalityType
    <3> QED BY <3>2
  <2>2. CASE queue_ = <<>> /\ ~running_
    BY <1>2, <2>2 DEF take, StoppedWakesAll
  <2>3. CASE queue_ # <<>>
    <3>1. /\ worker' = [worker EXCEPT ![w] = "task"] /\ w \notin notEmpty_ /\ UNCHANGED notEmpty_
          /\ Len(queue_') = Len(queue_) - 1
          /\ worker[w] \in {"take", "waiting"}
      BY <1>2, <2>3 DEF take, TakeTask
    <3>2. CASE worker[w] = "take"
      <4>1. WokenWorkers' = WokenWorkers
        BY <3>1, <3>2 DEF WokenWorkers
      <4> QED BY <3>1, <4>1, FiniteWoken
    <3>3. CASE worker[w] = "waiting"
      <4>1. w \in WokenWorkers /\ WokenWorkers' = WokenWorkers \ {w}
        BY <3>1, <3>3 DEF WokenWorkers
      <4>2. Cardinality(WokenWorkers') = Cardinality(WokenWorkers) - 1
        BY <4>1, FiniteWoken, OneLess
      <4> QED BY <3>1, <4>2, FiniteWoken
    <3> QED BY <3>1, <3>2, <3>3
  <2> QED BY <2>1, <2>2, <2>3
<1>3. ASSUME NEW t \in Callers, SpuriousWakeup(t) PROVE WorkersWoken'
  <2>1. UNCHANGED <<queue_, worker>> /\ notEmpty_' = notEmpty_ \ {t}
    BY <1>3 DEF SpuriousWakeup
  <2>2. WokenWorkers' = WokenWorkers \/ (t \notin WokenWorkers /\ WokenWorkers' = WokenWorkers \cup {t})
    BY <2>1 DEF WokenWorkers
  <2>3. Cardinality(WokenWorkers)' >= Cardinality(WokenWorkers) /\ Cardinality(WokenWorkers)' \in Nat
    BY <2>2, FiniteWoken, OneMore
  <2> QED BY <2>1, <2>3, FiniteWoken
<1>4. CASE Quiet
  <2>1. UNCHANGED <<queue_, notEmpty_>> /\ WokenWorkers' = WokenWorkers
    BY <1>4 DEF Quiet, WokenWorkers
  <2> QED BY <2>1
<1>5. CASE Stopping
  BY <1>5 DEF Stopping
<1> QED BY <1>1, <1>2, <1>3, <1>4, <1>5, NextSteps

(* ThreadPool::run sends one notify for each task: while a worker sleeps,  *)
(* there are as many woken workers as tasks in the queue.                  *)
THEOREM NoWorkerOversleeps == Spec => []WorkersWoken
<1>1. Init => WorkersWoken /\ StoppedWakesAll
  BY DEF Init, WorkersWoken, StoppedWakesAll
<1> QED BY <1>1, InitType, TypeStep, StoppedStep, WorkersStep, PTL DEF Spec

LEMMA CallersStep ==
    ASSUME TypeOK, StoppedWakesAll, CallersWoken, [Next]_vars
    PROVE  CallersWoken'
<1> USE DEF TypeOK, CallersWoken
<1> USE ThreadPoolAssumption
<1>0. Cardinality(WokenCallers)' \in Nat
  <2>1. WokenCallers' \in SUBSET Callers
    BY DEF WokenCallers
  <2> QED BY <2>1, FS_Union, FS_Subset, FS_CardinalityType DEF Callers
<1>1. ASSUME NEW t \in Callers, NEW x \in Tasks, RunStep(t, x) PROVE CallersWoken'
  <2>1. t \notin notFull_ /\ call[t] \in {NoTask, x} /\ x # NoTask
    BY <1>1 DEF RunStep
  <2>2. CASE isFull /\ WaitNotFull(t, x)
    <3>1. Len(queue_') >= maxQueueSize_
      BY <2>2 DEF WaitNotFull, isFull
    <3> QED BY <1>0, <3>1, <2>2 DEF WaitNotFull
  <2>3. CASE Push(t, x)
    <3>1. Len(queue_') = Len(queue_) + 1 /\ UNCHANGED notFull_ /\ call' = [call EXCEPT ![t] = NoTask]
      BY <2>3 DEF Push
    <3>2. CASE call[t] = NoTask
      <4>1. WokenCallers' = WokenCallers
        BY <3>1, <3>2 DEF WokenCallers
      <4> QED BY <3>1, <4>1, FiniteWoken
    <3>3. CASE call[t] = x
      <4>1. t \in WokenCallers /\ WokenCallers' = WokenCallers \ {t}
        BY <2>1, <3>1, <3>3 DEF WokenCallers
      <4>2. Cardinality(WokenCallers') = Cardinality(WokenCallers) - 1
        BY <4>1, FiniteWoken, OneLess
      <4> QED BY <3>1, <4>2, FiniteWoken
    <3> QED BY <2>1, <3>2, <3>3
  <2>4. CASE ~running_ /\ UNCHANGED notFull_
    BY <2>4 DEF StoppedWakesAll
  <2> QED BY <1>1, <2>2, <2>3, <2>4 DEF RunStep, RunLocked
<1>2. ASSUME NEW w \in Workers, take(w) PROVE CallersWoken'
  <2>1. CASE queue_ = <<>>
    <3>1. UNCHANGED <<queue_, notFull_, call>>
      BY <1>2, <2>1 DEF take
    <3> QED BY <3>1 DEF WokenCallers
  <2>2. CASE queue_ # <<>> /\ maxQueueSize_ > 0
    <3>1. UNCHANGED call /\ Len(queue_') = Len(queue_) - 1 /\ notFull_' \in notify(notFull_)
      BY <1>2, <2>2 DEF take, TakeTask
    <3>2. CASE notFull_ = {}
      BY <3>1, <3>2, NotifyWakes
    <3>3. CASE notFull_ # {}
      <4>1. PICK u \in notFull_ : notFull_' = notFull_ \ {u}
        BY <3>1, <3>3, NotifyWakes
      <4>2. u \notin WokenCallers /\ WokenCallers' = WokenCallers \cup {u}
        BY <3>1, <4>1 DEF WokenCallers
      <4>3. Cardinality(WokenCallers') = Cardinality(WokenCallers) + 1
        BY <4>2, FiniteWoken, OneMore
      <4> QED BY <3>1, <3>3, <4>3, FiniteWoken
    <3> QED BY <3>2, <3>3
  <2>3. CASE queue_ # <<>> /\ maxQueueSize_ = 0
    <3>1. Len(queue_') \in Nat
      BY <1>2, <2>3 DEF take, TakeTask
    <3> QED BY <1>0, <2>3, <3>1
  <2> QED BY <2>1, <2>2, <2>3
<1>3. ASSUME NEW t \in Callers, SpuriousWakeup(t) PROVE CallersWoken'
  <2>1. UNCHANGED <<queue_, call>> /\ notFull_' = notFull_ \ {t}
    BY <1>3 DEF SpuriousWakeup
  <2>2. WokenCallers' = WokenCallers \/ (t \notin WokenCallers /\ WokenCallers' = WokenCallers \cup {t})
    BY <2>1 DEF WokenCallers
  <2>3. Cardinality(WokenCallers)' >= Cardinality(WokenCallers)
    BY <2>2, FiniteWoken, OneMore
  <2> QED BY <1>0, <2>1, <2>3, FiniteWoken
<1>4. CASE Quiet
  <2>1. UNCHANGED <<queue_, notFull_, call>>
    BY <1>4 DEF Quiet
  <2> QED BY <2>1 DEF WokenCallers
<1>5. CASE Stopping
  BY <1>5 DEF Stopping
<1> QED BY <1>1, <1>2, <1>3, <1>4, <1>5, NextSteps

(* ThreadPool::take sends one notify for each task: while a caller sleeps, *)
(* there are as many woken callers as free slots in the queue.             *)
THEOREM NoCallerOversleeps == Spec => []CallersWoken
<1>1. Init => CallersWoken /\ StoppedWakesAll
  BY DEF Init, CallersWoken, StoppedWakesAll
<1> QED BY <1>1, InitType, TypeStep, StoppedStep, CallersStep, PTL DEF Spec

--------------------------------------------------------------------------------
(* The queue.                                                              *)

(* A task that waits in a call of run() was never queued, and waits in one *)
(* call only.                                                              *)
Handed ==
    /\ Range(queue_) \cup taken \subseteq given
    /\ \A t \in Callers : call[t] # NoTask => call[t] \in given \ (Range(queue_) \cup taken)
    /\ \A t, u \in Callers : call[t] # NoTask /\ call[t] = call[u] => t = u

LEMMA RunHands ==
    ASSUME TypeOK, Handed, NEW t \in Callers, NEW x \in Tasks, RunStep(t, x)
    PROVE  Handed' /\ [Queue!Next]_<<queue_, taken>>
<1> USE DEF TypeOK, Handed
<1>1. /\ x \notin Range(queue_) \cup taken
      /\ x \in given' /\ given \subseteq given' /\ given' \subseteq given \cup {x}
      /\ \A u \in Callers \ {t} : call[u] # x
      /\ x # NoTask /\ UNCHANGED taken
  BY ThreadPoolAssumption DEF RunStep, RunLocked
<1>2. CASE WaitNotFull(t, x)
  BY <1>1, <1>2 DEF WaitNotFull
<1>3. CASE Push(t, x)
  <2>1. /\ queue_' = Append(queue_, x)
        /\ call' = [call EXCEPT ![t] = NoTask]
    BY <1>3 DEF Push
  <2>2. Range(queue_') = Range(queue_) \cup {x}
    BY <2>1, RangeAppend
  <2>3. Handed'
    <3>1. (Range(queue_) \cup taken \subseteq given)'
      BY <1>1, <2>2
    <3>2. ASSUME NEW u \in Callers, call'[u] # NoTask
          PROVE  u # t /\ call'[u] = call[u] /\ call[u] \in given' \ (Range(queue_') \cup taken')
      BY <1>1, <2>1, <2>2, <3>2
    <3> QED BY <3>1, <3>2
  <2>4. Queue!Submit(x)
    BY <1>1, <2>1 DEF Queue!Submit, Queue!Range, Range
  <2> QED BY <2>3, <2>4 DEF Queue!Next
<1>4. CASE call' = [call EXCEPT ![t] = NoTask] /\ UNCHANGED <<queue_, notEmpty_, notFull_>>
  <2>1. ASSUME NEW u \in Callers, call'[u] # NoTask PROVE u # t /\ call'[u] = call[u]
    BY <1>4, <2>1
  <2> QED BY <1>1, <1>4, <2>1
<1> QED BY <1>2, <1>3, <1>4 DEF RunStep, RunLocked

LEMMA QueueStep ==
    ASSUME TypeOK, Handed, [Next]_vars
    PROVE  Handed' /\ [Queue!Next]_<<queue_, taken>>
<1>1. ASSUME NEW w \in Workers, take(w) PROVE Handed' /\ [Queue!Next]_<<queue_, taken>>
  <2>1. CASE queue_ = <<>>
    BY <1>1, <2>1 DEF take, Handed
  <2>2. CASE queue_ # <<>>
    <3>1. /\ queue_' = Tail(queue_) /\ taken' = taken \cup {Head(queue_)}
          /\ UNCHANGED <<call, given>>
      BY <1>1, <2>2 DEF take, TakeTask
    <3>2. Queue!Start
      BY <2>2, <3>1 DEF Queue!Start
    <3>3. Range(queue_') \cup taken' \subseteq Range(queue_) \cup taken
      <4>1. Head(queue_) \in Range(queue_)
        <5>1. 1 \in DOMAIN queue_ /\ Head(queue_) = queue_[1]
          BY <2>2, EmptyQueue DEF TypeOK
        <5> QED BY <5>1 DEF Range
      <4>2. Range(Tail(queue_)) \subseteq Range(queue_)
        <5>1. \A i \in DOMAIN Tail(queue_) : i + 1 \in DOMAIN queue_ /\ Tail(queue_)[i] = queue_[i + 1]
          BY <2>2, EmptyQueue DEF TypeOK
        <5> QED BY <5>1 DEF Range
      <4> QED BY <3>1, <4>1, <4>2
    <3>4. Handed'
      BY <3>1, <3>3 DEF Handed
    <3> QED BY <3>2, <3>4 DEF Queue!Next
  <2> QED BY <2>1, <2>2
<1>2. CASE Quiet \/ Stopping \/ \E t \in Callers : SpuriousWakeup(t)
  <2>1. UNCHANGED <<queue_, taken, call>> /\ given \subseteq given'
    BY <1>2 DEF Quiet, Stopping, SpuriousWakeup
  <2> QED BY <2>1 DEF Handed
<1> QED BY <1>1, <1>2, NextSteps, RunHands

(* ThreadPool::run and take: tasks leave the queue in the order they       *)
(* joined it, each once, for any number of callers and workers.            *)
THEOREM TasksAreFIFO == Spec => TasksFIFO
<1>1. Init => Handed /\ Queue!Init
  BY DEF Init, Handed, Queue!Init, Range
<1> QED BY <1>1, InitType, TypeStep, QueueStep, PTL DEF Spec, TasksFIFO, Queue!Spec
================================================================================
