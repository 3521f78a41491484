------------------------------- MODULE ThreadPool ------------------------------
(***************************************************************************)
(* muduo::ThreadPool (src/event_server/thread/ThreadPool.cc) with the      *)
(* start of its Threads: a queue of tasks under one mutex, two condition   *)
(* variables, and worker threads.                                          *)
(*                                                                         *)
(* A critical section is one step; Condition::wait ends it, and what       *)
(* follows the wait is a step of its own once the thread is woken and has  *)
(* the mutex again.  Signals may be overtaken and wake-ups may be spurious.*)
(* pthread_create may fail and tasks may throw.  A failed assertion and    *)
(* abort() end the process: owner is "aborted" and nothing happens more.   *)
(***************************************************************************)
EXTENDS Naturals, Sequences, Functions, FiniteSets

CONSTANTS
    Workers,       \* the threads start() creates
    Clients,       \* the other threads that call run()
    Tasks,         \* the tasks that may be given to run(), each once
    NoTask,        \* not a task
    maxQueueSize_  \* 0: no bound

ASSUME ThreadPoolAssumption ==
    /\ IsFiniteSet(Workers) /\ IsFiniteSet(Clients)
    /\ Workers \cap Clients = {}
    /\ NoTask \notin Tasks
    /\ maxQueueSize_ \in Nat

(* A task may call run() on the pool it runs in.                           *)
Callers == Clients \cup Workers

VARIABLES
    queue_, running_,
    notEmpty_, notFull_,  \* the threads asleep in wait() of the condition
    worker,  \* per worker: a member of Stages
    call,    \* per caller of run() that waits for a slot: its task
    owner,   \* of start(), stop() and the destructor: a member of Phases
    given,   \* history: the tasks given to run()
    taken    \* history: the tasks take() returned

(* "failed": pthread_create did.  "init", "task": inside user code, which   *)
(* an unknown exception leaves as "crashed".  "done": func_ returned.      *)
Stages == {"absent", "failed", "created", "init", "loop", "take", "waiting", "task", "crashed",
           "done", "exited", "joined"}

Phases == {"new", "starting", "started", "joining", "stopped", "deleting", "deleted", "aborted"}

vars == <<queue_, running_, notEmpty_, notFull_, worker, call, owner, given, taken>>

Init ==
    /\ queue_ = <<>> /\ running_ = FALSE
    /\ notEmpty_ = {} /\ notFull_ = {}
    /\ worker = [w \in Workers |-> "absent"]
    /\ call = [t \in Callers |-> NoTask]
    /\ owner = "new"
    /\ given = {} /\ taken = {}

threads_ == {w \in Workers : worker[w] # "absent"}

isFull == maxQueueSize_ > 0 /\ Len(queue_) >= maxQueueSize_

queueSize == Len(queue_)

(* Condition: the threads asleep after wait(), and those that may be after *)
(* notify() and notifyAll().                                               *)
wait(condition, t) == condition \cup {t}

notify(condition) ==
    IF condition = {} THEN {{}} ELSE {condition \ {t} : t \in condition}

notifyAll(condition) == {}

(* The process ends.                                                       *)
abort ==
    /\ owner' = "aborted"
    /\ UNCHANGED <<queue_, running_, notEmpty_, notFull_, worker, call, given, taken>>

--------------------------------------------------------------------------------
(* ThreadPool::start and Thread::start.                                    *)

start ==
    /\ owner = "new"
    /\ owner' = "starting"
    /\ running_' = TRUE
    /\ UNCHANGED <<queue_, notEmpty_, notFull_, worker, call, given, taken>>

(* latch_ of the threads that were created, and CountDownLatch::wait.      *)
count_ == [w \in Workers |-> IF worker[w] = "created" THEN 1 ELSE 0]

Latched == \A w \in Workers : count_[w] = 0

(* Thread::start: when pthread_create fails the thread never runs, and the *)
(* pool goes on with the next.                                             *)
ThreadStart(w) == \E stage \in {"created", "failed"} : worker' = [worker EXCEPT ![w] = stage]

StartThread(w) ==
    /\ owner = "starting" /\ Latched
    /\ worker[w] = "absent"
    /\ ThreadStart(w)
    /\ UNCHANGED <<queue_, running_, notEmpty_, notFull_, call, owner, given, taken>>

(* The new thread counts the latch down and calls func_, which begins with *)
(* threadInitCallback_.                                                    *)
countDown(w) ==
    /\ count_[w] = 1
    /\ worker' = [worker EXCEPT ![w] = "init"]

RunInThread(w) ==
    /\ countDown(w)
    /\ UNCHANGED <<queue_, running_, notEmpty_, notFull_, call, owner, given, taken>>

StartReturns ==
    /\ owner = "starting" /\ Latched
    /\ threads_ = Workers
    /\ owner' = "started"
    /\ UNCHANGED <<queue_, running_, notEmpty_, notFull_, worker, call, given, taken>>

--------------------------------------------------------------------------------
(* ThreadPool::run.                                                        *)

(* A slip: a caller waits on the workers' condition.                       *)
WaitNotEmpty(t, x) ==
    /\ call' = [call EXCEPT ![t] = x]
    /\ notEmpty_' = wait(notEmpty_, t)
    /\ UNCHANGED <<queue_, notFull_>>

WaitNotFull(t, x) ==
    /\ call' = [call EXCEPT ![t] = x]
    /\ notFull_' = wait(notFull_, t)
    /\ UNCHANGED <<queue_, notEmpty_>>

(* A slip: workers are notified only of a queue that was empty.            *)
PushNotifiesIfEmpty(t, x) ==
    /\ call' = [call EXCEPT ![t] = NoTask]
    /\ queue_' = Append(queue_, x)
    /\ notEmpty_' \in IF queue_ = <<>> THEN notify(notEmpty_) ELSE {notEmpty_}
    /\ UNCHANGED notFull_

(* A slip: the wrong condition is notified.                                *)
PushNotifiesCallers(t, x) ==
    /\ call' = [call EXCEPT ![t] = NoTask]
    /\ queue_' = Append(queue_, x)
    /\ notFull_' \in notify(notFull_)
    /\ UNCHANGED notEmpty_

Push(t, x) ==
    /\ call' = [call EXCEPT ![t] = NoTask]
    /\ queue_' = Append(queue_, x)
    /\ notEmpty_' \in notify(notEmpty_)
    /\ UNCHANGED notFull_

(* The caller has the mutex: wait, give up on a stopped pool, or push.     *)
RunLocked(t, x) ==
    /\ \/ running_ /\ isFull /\ WaitNotFull(t, x)
       \/ running_ /\ ~isFull /\ Push(t, x)
       \/ ~running_ /\ call' = [call EXCEPT ![t] = NoTask]
                    /\ UNCHANGED <<queue_, notEmpty_, notFull_>>
    /\ UNCHANGED <<running_, worker, owner, taken>>

(* run() reads threads_ without the mutex, so it is not called while       *)
(* start() fills it; nor by a client once the pool is being deleted.       *)
UserCode == {w \in Workers : worker[w] \in {"init", "task"}}

MayRun(t, x) ==
    /\ owner # "starting"
    /\ call[t] = NoTask
    /\ IF t \in Workers THEN t \in UserCode ELSE owner \notin {"deleting", "deleted"}
    /\ x \notin given

(* Without threads the caller executes the task itself.                    *)
RunInline(t, x) ==
    /\ MayRun(t, x)
    /\ threads_ = {}
    /\ given' = given \cup {x}
    /\ UNCHANGED <<queue_, running_, notEmpty_, notFull_, worker, call, owner, taken>>

run(t, x) ==
    /\ MayRun(t, x)
    /\ threads_ # {}
    /\ given' = given \cup {x}
    /\ RunLocked(t, x)

(* A slip: the caller that was woken does not test isFull() again.         *)
RunWokenNoTest(t) ==
    /\ call[t] # NoTask /\ t \notin notFull_
    /\ IF running_ THEN Push(t, call[t])
       ELSE call' = [call EXCEPT ![t] = NoTask] /\ UNCHANGED <<queue_, notEmpty_, notFull_>>
    /\ UNCHANGED <<running_, worker, owner, given, taken>>

RunWoken(t) ==
    /\ call[t] # NoTask /\ t \notin notFull_
    /\ RunLocked(t, call[t])
    /\ UNCHANGED given

--------------------------------------------------------------------------------
(* ThreadPool::runInThread and take.                                       *)

(* The test of running_, made without the mutex.                           *)
TestRunning(w) ==
    /\ worker[w] = "loop"
    /\ worker' = [worker EXCEPT ![w] = IF running_ THEN "take" ELSE "done"]
    /\ UNCHANGED <<queue_, running_, notEmpty_, notFull_, call, owner, given, taken>>

(* A slip: the newest task is taken.                                       *)
TakeTaskNewest ==
    /\ queue_' = SubSeq(queue_, 1, Len(queue_) - 1)
    /\ taken' = taken \cup {queue_[Len(queue_)]}
    /\ notFull_' \in IF maxQueueSize_ > 0 THEN notify(notFull_) ELSE {notFull_}
    /\ UNCHANGED notEmpty_

(* A slip: callers are notified only of a queue that was full.             *)
TakeTaskNotifiesIfFull ==
    /\ queue_' = Tail(queue_)
    /\ taken' = taken \cup {Head(queue_)}
    /\ notFull_' \in IF isFull THEN notify(notFull_) ELSE {notFull_}
    /\ UNCHANGED notEmpty_

TakeTask ==
    /\ queue_' = Tail(queue_)
    /\ taken' = taken \cup {Head(queue_)}
    /\ notFull_' \in IF maxQueueSize_ > 0 THEN notify(notFull_) ELSE {notFull_}
    /\ UNCHANGED notEmpty_

(* The worker has the mutex: wait, return a task, or return none.          *)
take(w) ==
    /\ worker[w] = "take" \/ (worker[w] = "waiting" /\ w \notin notEmpty_)
    /\ \/ /\ queue_ = <<>> /\ running_
          /\ worker' = [worker EXCEPT ![w] = "waiting"]
          /\ notEmpty_' = wait(notEmpty_, w)
          /\ UNCHANGED <<queue_, notFull_, taken>>
       \/ /\ queue_ # <<>>
          /\ worker' = [worker EXCEPT ![w] = "task"]
          /\ TakeTask
       \/ /\ queue_ = <<>> /\ ~running_
          /\ worker' = [worker EXCEPT ![w] = "loop"]
          /\ UNCHANGED <<queue_, notEmpty_, notFull_, taken>>
    /\ UNCHANGED <<running_, call, owner, given>>

(* threadInitCallback_ or a task returns.                                  *)
UserReturns(w) ==
    /\ w \in UserCode /\ call[w] = NoTask
    /\ worker' = [worker EXCEPT ![w] = "loop"]
    /\ UNCHANGED <<queue_, running_, notEmpty_, notFull_, call, owner, given, taken>>

(* It throws: runInThread aborts, or lets what is not a std::exception go. *)
UserThrows(w) ==
    /\ w \in UserCode /\ call[w] = NoTask
    /\ \/ abort
       \/ /\ worker' = [worker EXCEPT ![w] = "crashed"]
          /\ UNCHANGED <<queue_, running_, notEmpty_, notFull_, call, owner, given, taken>>

(* No exception leaves a thread.                                           *)
ThreadCrashes(w) == worker[w] = "crashed" /\ abort

(* func_ has returned, and so does the thread.                             *)
startThread(w) ==
    /\ worker[w] = "done"
    /\ worker' = [worker EXCEPT ![w] = "exited"]
    /\ UNCHANGED <<queue_, running_, notEmpty_, notFull_, call, owner, given, taken>>

(* pthread_cond_wait may return without a signal.                          *)
SpuriousWakeup(t) ==
    /\ t \in notEmpty_ \cup notFull_
    /\ notEmpty_' = notEmpty_ \ {t} /\ notFull_' = notFull_ \ {t}
    /\ UNCHANGED <<queue_, running_, worker, call, owner, given, taken>>

--------------------------------------------------------------------------------
(* ThreadPool::stop and the destructor.                                    *)

(* A slip: only the workers are woken.                                     *)
StopLockedForgetsCallers ==
    /\ running_' = FALSE
    /\ notEmpty_' = notifyAll(notEmpty_)
    /\ UNCHANGED notFull_

StopLocked ==
    /\ running_' = FALSE
    /\ notEmpty_' = notifyAll(notEmpty_) /\ notFull_' = notifyAll(notFull_)

stop ==
    /\ owner = "started"
    /\ owner' = "joining"
    /\ StopLocked
    /\ UNCHANGED <<queue_, worker, call, given, taken>>

(* Thread::join asserts started_.                                          *)
join(w) ==
    /\ owner \in {"joining", "deleting"}
    /\ \/ worker[w] = "failed" /\ abort
       \/ /\ worker[w] = "exited"
          /\ worker' = [worker EXCEPT ![w] = "joined"]
          /\ UNCHANGED <<queue_, running_, notEmpty_, notFull_, call, owner, given, taken>>

StopReturns ==
    /\ owner \in {"joining", "deleting"}
    /\ \A w \in threads_ : worker[w] = "joined"
    /\ owner' = IF owner = "joining" THEN "stopped" ELSE "deleted"
    /\ UNCHANGED <<queue_, running_, notEmpty_, notFull_, worker, call, given, taken>>

(* ~ThreadPool, when no client is in run(): a pool that runs is stopped.   *)
Delete ==
    /\ owner \in {"new", "started", "stopped"}
    /\ \A t \in Clients : call[t] = NoTask
    /\ IF running_ THEN owner' = "deleting" /\ StopLocked
       ELSE owner' = "deleted" /\ UNCHANGED <<running_, notEmpty_, notFull_>>
    /\ UNCHANGED <<queue_, worker, call, given, taken>>

--------------------------------------------------------------------------------
Alive == owner # "aborted"

WorkerSteps(w) ==
    RunInThread(w) \/ TestRunning(w) \/ take(w) \/ UserReturns(w) \/ startThread(w)

StopSteps == StopReturns \/ \E w \in Workers : join(w)

Next ==
    /\ Alive
    /\ \/ start \/ StartReturns \/ stop \/ Delete \/ StopSteps
       \/ \E w \in Workers : StartThread(w) \/ WorkerSteps(w) \/ UserThrows(w) \/ ThreadCrashes(w)
       \/ \E t \in Callers :
             RunWoken(t) \/ SpuriousWakeup(t) \/ \E x \in Tasks : RunInline(t, x) \/ run(t, x)

Spec == Init /\ [][Next]_vars

(* Threads that are not asleep go on, tasks return or throw, and a stop()  *)
(* that was called goes on to its joins; nobody has to call run() or       *)
(* stop().                                                                 *)
Fairness ==
    /\ \A w \in Workers : WF_vars(Alive /\ WorkerSteps(w)) /\ WF_vars(Alive /\ ThreadCrashes(w))
    /\ \A t \in Callers : WF_vars(Alive /\ RunWoken(t))
    /\ WF_vars(Alive /\ StopSteps)

FairSpec == Spec /\ Fairness

--------------------------------------------------------------------------------
(* Every variable stays in its type: workers sleep on notEmpty_ only, and  *)
(* on notFull_ only who has a task to push.                                *)
TypeOK ==
    /\ queue_ \in Seq(Tasks) /\ running_ \in BOOLEAN
    /\ worker \in [Workers -> Stages]
    /\ call \in [Callers -> Tasks \cup {NoTask}]
    /\ owner \in Phases
    /\ given \subseteq Tasks /\ taken \subseteq Tasks
    /\ notEmpty_ \subseteq {w \in Workers : worker[w] = "waiting"}
    /\ notFull_ \subseteq {t \in Callers : call[t] # NoTask}

(* run(): the queue never outgrows its bound, although a caller that was   *)
(* woken for a free slot may find that another took it.                    *)
QueueBounded == maxQueueSize_ > 0 => queueSize <= maxQueueSize_

(* Woken and not yet back in the mutex.                                    *)
WokenWorkers == {w \in Workers : worker[w] = "waiting"} \ notEmpty_
WokenCallers == {t \in Callers : call[t] # NoTask} \ notFull_

(* One notify() for each task pushed is enough: while a worker sleeps,     *)
(* every task in the queue has a worker on its way to it.                  *)
WorkersWoken == notEmpty_ # {} => Len(queue_) <= Cardinality(WokenWorkers)

(* One notify() for each task taken is enough: while a caller sleeps,      *)
(* every free slot has a caller on its way to it.                          *)
CallersWoken == notFull_ # {} => maxQueueSize_ <= Len(queue_) + Cardinality(WokenCallers)

(* stop() leaves nobody asleep, and nobody falls asleep on a pool that     *)
(* does not run.                                                           *)
StoppedWakesAll == ~running_ => notEmpty_ = {} /\ notFull_ = {}

(* Tasks are taken in the order they were queued, each once.               *)
Queue == INSTANCE TaskQueue WITH Items <- Tasks, pending <- queue_, started <- taken
TasksFIFO == Queue!Spec

(* Every worker that started is inside user code that wants a slot of the  *)
(* full queue: the only way for the pool to stop working.                  *)
SelfBlocked == \A w \in Workers : worker[w] = "failed" \/ (isFull /\ call[w] # NoTask)

(* A task in the queue is taken, unless the pool is stopped, its own tasks *)
(* block all of it, or a task crashes the process.  One thread that could  *)
(* be created is enough.                                                   *)
TaskRuns ==
    \A x \in Tasks : x \in Range(queue_) ~> (x \in taken \/ ~running_ \/ SelfBlocked \/ ~Alive)

(* stop() and the destructor return, and every run() that waited for a     *)
(* slot has returned, even when the tasks had blocked the pool             *)
(* (ThreadPool.h:43: a call after stop() returns immediately), unless a    *)
(* thread could not be created or a task threw.                            *)
StopReleases ==
    owner \in {"joining", "deleting"} ~>
        IF Alive THEN owner \in {"stopped", "deleted"} /\ \A t \in Callers : call[t] = NoTask
        ELSE \E w \in Workers : worker[w] \in {"failed", "crashed"} \cup {"init", "task"}
================================================================================
