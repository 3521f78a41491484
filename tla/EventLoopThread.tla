----------------------------- MODULE EventLoopThread ---------------------------
(***************************************************************************)
(* EventLoopThread and EventLoopThreadPool (src/event_server/thread/): the *)
(* threads that run the io loops, and the three promises by which the      *)
(* thread that makes them waits for each loop to exist and to turn.        *)
(*                                                                         *)
(* The dispatcher of a thread is what Dispatcher.tla shows it to be: its   *)
(* posted callbacks run in order on its thread, and exit() makes run()     *)
(* return.  What is posted and what the loop does besides is left to the   *)
(* module that extends this one.                                           *)
(***************************************************************************)
EXTENDS Integers, Sequences, FiniteSets

CONSTANTS
    Loops,    \* EventLoopThreadPool::loopThreadVector_, in order
    Ready,    \* the callback that sets promiseForLoop_
    NoLoop    \* a null pointer to a dispatcher

ASSUME LoopsAssumption ==
    /\ Loops \in Seq({Loops[i] : i \in DOMAIN Loops}) /\ Loops # <<>>
    /\ \A i, j \in DOMAIN Loops : Loops[i] = Loops[j] => i = j
    /\ \A i \in DOMAIN Loops : Loops[i] # NoLoop

Threads == {Loops[i] : i \in DOMAIN Loops}

VARIABLES
    maker,   \* what the owner of the pool does, and to which element
    thread,  \* threadFunc(): "none", "spawned", "waits", "loop", "left", "finished"
    loop_,   \* EventLoopThread::loop_ is set
    granted, \* promiseForRun_ has its value
    looping, \* promiseForLoop_ has its value
    posts,   \* the callbacks posted to the dispatcher and not yet run
    exiting, \* exit() was called on the dispatcher
    busy,    \* the loop thread is inside a callback that another thread can observe
    fault    \* "none", or what ended the program: undefined behaviour, a fatal error

threadVars == <<maker, thread, loop_, granted, looping, posts, exiting, busy, fault>>

(* The program goes on. *)
Unbroken == fault = "none"

Maker(stage, i) == Unbroken /\ maker.stage = stage /\ maker.i = i
Thread(i, stage) == Unbroken /\ thread[Loops[i]] = stage
At(stage, i) == [stage |-> stage, i |-> i]
(* The next element, or the next stage after the last. *)
After(stage, i, next) == IF i < Len(Loops) THEN At(stage, i + 1) ELSE At(next, 1)

ThreadsInit ==
    /\ maker = At("construct", 1)
    /\ thread = [l \in Threads |-> "none"]
    /\ loop_ = [l \in Threads |-> FALSE]
    /\ granted = [l \in Threads |-> FALSE]
    /\ looping = [l \in Threads |-> FALSE]
    /\ posts = [l \in Threads |-> <<>>]
    /\ exiting = [l \in Threads |-> FALSE]
    /\ busy = [l \in Threads |-> "no"]
    /\ fault = "none"

(* ---------------------------- the pool's owner -------------------------- *)
(* EventLoopThread(): the thread starts in the middle of the member list,  *)
(* before loopThreadName_, the promises and once_ are constructed.         *)
Spawn(i) ==
    /\ Maker("construct", i)
    /\ thread' = [thread EXCEPT ![Loops[i]] = "spawned"]
    /\ maker' = At("members", i)
    /\ UNCHANGED <<loop_, granted, looping, posts, exiting, busy, fault>>

ConstructMembers(i) ==
    /\ Maker("members", i)
    /\ maker' = At("future", i)
    /\ UNCHANGED <<thread, loop_, granted, looping, posts, exiting, busy, fault>>

(* A slip: the pointer that the future brings is not kept.                 *)
GetLoopNotKept(i) ==
    /\ Maker("future", i) /\ thread[Loops[i]] = "waits"
    /\ maker' = After("construct", i, "run")
    /\ UNCHANGED <<thread, loop_, granted, looping, posts, exiting, busy, fault>>

(* loop_ = f.get(), and the constructor goes on to the next thread.        *)
GetLoop(i) ==
    /\ Maker("future", i) /\ thread[Loops[i]] = "waits"
    /\ loop_' = [loop_ EXCEPT ![Loops[i]] = TRUE]
    /\ maker' = After("construct", i, "run")
    /\ UNCHANGED <<thread, granted, looping, posts, exiting, busy, fault>>

(* A slip: the two promises are taken in the other order.                  *)
GrantAfterTurn(i) ==
    /\ Maker("run", i) /\ looping[Loops[i]]
    /\ granted' = [granted EXCEPT ![Loops[i]] = TRUE]
    /\ maker' = At("turn", i)
    /\ UNCHANGED <<thread, loop_, looping, posts, exiting, busy, fault>>

(* run(), by call_once: let the thread go, then wait for its loop to turn. *)
Grant(i) ==
    /\ Maker("run", i)
    /\ granted' = [granted EXCEPT ![Loops[i]] = TRUE]
    /\ maker' = At("turn", i)
    /\ UNCHANGED <<thread, loop_, looping, posts, exiting, busy, fault>>

SeesLoopTurn(i) ==
    /\ Maker("turn", i) /\ looping[Loops[i]]
    /\ maker' = After("run", i, "started")
    /\ UNCHANGED <<thread, loop_, granted, looping, posts, exiting, busy, fault>>

(* EventLoopThread::getLoop reads loop_ without its mutex. *)
getLoop(l) == IF loop_[l] THEN l ELSE NoLoop
getLoops == [i \in DOMAIN Loops |-> getLoop(Loops[i])]

(* Who asks every loop to exit may wait for all of them, and leaves the    *)
(* destructors nothing to join.                                            *)
AskExits ==
    /\ Maker("started", 1)
    /\ exiting' = [l \in Threads |-> exiting[l] \/ \E i \in DOMAIN Loops : getLoops[i] = l]
    /\ maker' = At("wait", 1)
    /\ UNCHANGED <<thread, loop_, granted, looping, posts, busy, fault>>

(* EventLoopThread::wait, thread_.join(). *)
wait(l) == thread[l] = "finished"

Wait(i) ==
    /\ Maker("wait", i) /\ wait(Loops[i])
    /\ maker' = After("wait", i, "waited")
    /\ UNCHANGED <<thread, loop_, granted, looping, posts, exiting, busy, fault>>

(* ~EventLoopThread, where run() has nothing left to do: loop_ is read     *)
(* under loopMutex_, and a loop that is there is told to exit.             *)
AskExit(i) ==
    /\ Maker("exit", i)
    /\ exiting' = IF loop_[Loops[i]] THEN [exiting EXCEPT ![Loops[i]] = TRUE] ELSE exiting
    /\ maker' = At("join", i)
    /\ UNCHANGED <<thread, loop_, granted, looping, posts, busy, fault>>

Join(i) ==
    /\ Maker("join", i) /\ thread[Loops[i]] = "finished"
    /\ maker' = After("exit", i, "joined")
    /\ UNCHANGED <<thread, loop_, granted, looping, posts, exiting, busy, fault>>

PoolStep ==
    \E i \in DOMAIN Loops :
        Spawn(i) \/ ConstructMembers(i) \/ GetLoop(i) \/ Grant(i) \/ SeesLoopTurn(i)
            \/ Wait(i) \/ AskExit(i) \/ Join(i)

(* ------------------------------ threadFunc() ---------------------------- *)
(* The thread reads loopThreadName_, makes its dispatcher, posts the       *)
(* callback that will say the loop turns, and hands out the pointer.  To   *)
(* be faster than the constructor is undefined: those members do not exist *)
(* yet.                                                                    *)
MakeLoop(i) ==
    /\ Thread(i, "spawned")
    /\ fault' = IF Maker("members", i) THEN "unconstructed" ELSE fault
    /\ posts' = [posts EXCEPT ![Loops[i]] = <<Ready>>]
    /\ thread' = [thread EXCEPT ![Loops[i]] = "waits"]
    /\ UNCHANGED <<maker, loop_, granted, looping, exiting, busy>>

EnterLoop(i) ==
    /\ Thread(i, "waits") /\ granted[Loops[i]]
    /\ thread' = [thread EXCEPT ![Loops[i]] = "loop"]
    /\ UNCHANGED <<maker, loop_, granted, looping, posts, exiting, busy, fault>>

InLoop(l) == Unbroken /\ thread[l] = "loop" /\ busy[l] = "no"

TurnLoop(i) ==
    /\ InLoop(Loops[i]) /\ posts[Loops[i]] # <<>> /\ Head(posts[Loops[i]]) = Ready
    /\ looping' = [looping EXCEPT ![Loops[i]] = TRUE]
    /\ posts' = [posts EXCEPT ![Loops[i]] = Tail(@)]
    /\ UNCHANGED <<maker, thread, loop_, granted, exiting, busy, fault>>

(* The event of exit() is queued behind those of earlier posts, and run()  *)
(* returns only when the queue is empty.                                   *)
LeaveLoop(i) ==
    /\ InLoop(Loops[i]) /\ exiting[Loops[i]] /\ posts[Loops[i]] = <<>>
    /\ thread' = [thread EXCEPT ![Loops[i]] = "left"]
    /\ UNCHANGED <<maker, loop_, granted, looping, posts, exiting, busy, fault>>

(* loop_->exit() and loop_ = nullptr under loopMutex_; then the thread's   *)
(* own pointer goes.                                                       *)
EndThread(i) ==
    /\ Thread(i, "left")
    /\ loop_' = [loop_ EXCEPT ![Loops[i]] = FALSE]
    /\ thread' = [thread EXCEPT ![Loops[i]] = "finished"]
    /\ UNCHANGED <<maker, granted, looping, posts, exiting, busy, fault>>

ThreadStep(i) == MakeLoop(i) \/ EnterLoop(i) \/ TurnLoop(i) \/ LeaveLoop(i) \/ EndThread(i)
================================================================================
