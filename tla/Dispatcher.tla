------------------------------- MODULE Dispatcher ------------------------------
(***************************************************************************)
(* Event::Dispatcher (src/event_server/event/Dispatcher.cpp) on top of its *)
(* LibeventScheduler: one thread runs the loop, the others post callbacks  *)
(* and call exit().  Callbacks, their destructors, the destructors of      *)
(* deferred-deleted objects and the callbacks of file events are user code *)
(* that runs on the loop thread and may call back into the dispatcher.     *)
(*                                                                         *)
(* A call is cut where another thread can interfere: post() is the locked  *)
(* part, then enabled(), then event_active(); the loop takes an event off  *)
(* the active queue, then takes post_lock_.                                *)
(***************************************************************************)
EXTENDS EventBase, FiniteSets

CONSTANTS
    Loop,       \* the thread that calls run()
    Posters,    \* the other threads that hold a pointer to the dispatcher
    Callbacks,  \* the callbacks that may be posted, each object once
    Objects,    \* the objects that may be handed to deferredDelete
    NullPtr,    \* a DeferredDeletablePtr after reset()
    Fds,        \* the file events registered with the event base
    RunMode,    \* the RunType given to run()
    MaxRuns,    \* bound: calls of run()
    MaxExits    \* bound: calls of exit()

ASSUME DispatcherAssumption ==
    /\ Loop \notin Posters
    /\ NullPtr \notin Objects
    /\ IsFiniteSet(Fds)
    /\ Fds \cap {post_cb_, deferred_delete_cb_, loopexit_cb} = {}
    /\ RunMode \in {"Block", "NonBlock", "RunUntilExit"}
    /\ MaxRuns \in Nat /\ MaxExits \in Nat

Threads == Posters \cup {Loop}

VARIABLES
    post_callbacks_,     \* guarded by post_lock_
    callbacks,           \* the local list of runPostCallbacks
    to_delete,           \* to_delete_1_ and to_delete_2_
    current_to_delete_,  \* which of the two current_to_delete_ points to
    deferred_deleting_,
    phase,    \* run(): "new", "flush", then event_base_loop: "top", "poll", "process"; "done"
    posting,  \* runPostCallbacks: "none", "take", "run", in user code "body" or "dtor"
    inFd,     \* a file event's callback runs
    clearing, \* the calls of clearDeferredDeleteList in progress, innermost last
    step,     \* per thread, scheduleCallbackCurrentIteration: "idle", "enabled", "event_active"
    target,   \* per thread, the schedulable callback that call is made on
    ran,        \* history: the callbacks started
    destroyed,  \* history: the objects whose destructor was started
    runs, exits, returns   \* history: calls of run(), of exit(), returns of run()

postVars  == <<post_callbacks_, callbacks, posting, ran>>
clearVars == <<to_delete, current_to_delete_, deferred_deleting_, clearing, destroyed>>
schedVars == <<step, target>>
baseVars  == <<active, gotterm>>
loopVars  == <<phase, inFd, runs, returns>>
vars == <<postVars, clearVars, schedVars, baseVars, loopVars, exits>>

Init ==
    /\ EventBaseInit
    /\ post_callbacks_ = <<>> /\ callbacks = <<>> /\ posting = "none" /\ ran = {}
    /\ to_delete = [v \in 1..2 |-> <<>>] /\ current_to_delete_ = 1
    /\ deferred_deleting_ = FALSE /\ clearing = <<>> /\ destroyed = {}
    /\ step = [t \in Threads |-> "idle"] /\ target = [t \in Threads |-> post_cb_]
    /\ phase = "new" /\ inFd = FALSE
    /\ runs = 0 /\ exits = 0 /\ returns = 0

--------------------------------------------------------------------------------
(* Whose code the loop thread is in.                                       *)

Innermost == clearing[Len(clearing)]

(* Not inside runPostCallbacks, clearDeferredDeleteList or a file event's  *)
(* callback: the loop thread executes libevent's own loop.                 *)
AtBase == posting = "none" /\ ~inFd /\ clearing = <<>>

(* The loop thread runs code of the dispatcher's user: before and after    *)
(* run(), in a callback, or in a destructor.                               *)
InUserCode ==
    IF clearing # <<>> THEN Innermost.dtor
    ELSE posting \in {"body", "dtor"} \/ inFd \/ phase \in {"new", "done"}

(* Thread t may call into the dispatcher.                                  *)
MayCall(t) == step[t] = "idle" /\ (t = Loop => InUserCode)

--------------------------------------------------------------------------------
(* SchedulableCallbackImpl::scheduleCallbackCurrentIteration.              *)

Schedule(t, cb) ==
    /\ step' = [step EXCEPT ![t] = "enabled"]
    /\ target' = [target EXCEPT ![t] = cb]

(* A slip: the test of enabled() the wrong way round.                      *)
CheckEnabledInverted(t) ==
    /\ step[t] = "enabled"
    /\ step' = [step EXCEPT ![t] = IF evtimer_pending(target[t]) THEN "event_active" ELSE "idle"]
    /\ UNCHANGED <<postVars, clearVars, target, baseVars, loopVars, exits>>

(* enabled() and event_active() take the lock of the base one after the    *)
(* other.                                                                  *)
CheckEnabled(t) ==
    /\ step[t] = "enabled"
    /\ step' = [step EXCEPT ![t] = IF evtimer_pending(target[t]) THEN "idle" ELSE "event_active"]
    /\ UNCHANGED <<postVars, clearVars, target, baseVars, loopVars, exits>>

Activate(t) ==
    /\ step[t] = "event_active"
    /\ event_active(target[t])
    /\ step' = [step EXCEPT ![t] = "idle"]
    /\ UNCHANGED <<postVars, clearVars, target, gotterm, loopVars, exits>>

--------------------------------------------------------------------------------
(* Calls into the dispatcher.                                              *)

(* The callbacks the loop still has to start, in the order of the posts:   *)
(* the rest of the group being run, then the list under the lock.          *)
PostPending ==
    (IF posting = "body" THEN Tail(callbacks) ELSE callbacks) \o post_callbacks_

(* A slip: post() tests whether the list is empty after the push_back.     *)
postTestsAfterPush(t, c) ==
    /\ MayCall(t)
    /\ c \notin Range(PostPending) \cup ran
    /\ post_callbacks_' = Append(post_callbacks_, c)
    /\ IF post_callbacks_' = <<>> THEN Schedule(t, post_cb_) ELSE UNCHANGED schedVars
    /\ UNCHANGED <<callbacks, posting, ran, clearVars, baseVars, loopVars, exits>>

post(t, c) ==
    /\ MayCall(t)
    /\ c \notin Range(PostPending) \cup ran
    /\ LET do_post == post_callbacks_ = <<>> IN
         IF do_post THEN Schedule(t, post_cb_) ELSE UNCHANGED schedVars
    /\ post_callbacks_' = Append(post_callbacks_, c)
    /\ UNCHANGED <<callbacks, posting, ran, clearVars, baseVars, loopVars, exits>>

exit(t) ==
    /\ MayCall(t)
    /\ exits < MaxExits
    /\ exits' = exits + 1
    /\ event_base_loopexit
    /\ UNCHANGED <<postVars, clearVars, schedVars, gotterm, loopVars>>

(* A slip: during a clear, deferredDelete relies on it to take the object. *)
deferredDeleteTrustsClear(o) ==
    /\ MayCall(Loop)
    /\ o \notin Range(to_delete[1]) \cup Range(to_delete[2]) \cup destroyed
    /\ to_delete' = [to_delete EXCEPT ![current_to_delete_] = Append(@, o)]
    /\ IF Len(to_delete'[current_to_delete_]) = 1 /\ ~deferred_deleting_
         THEN Schedule(Loop, deferred_delete_cb_)
         ELSE UNCHANGED schedVars
    /\ UNCHANGED <<postVars, current_to_delete_, deferred_deleting_, clearing, destroyed,
                   baseVars, loopVars, exits>>

(* Only the loop thread defers deletions: the lists have no lock.          *)
deferredDelete(o) ==
    /\ MayCall(Loop)
    /\ o \notin Range(to_delete[1]) \cup Range(to_delete[2]) \cup destroyed
    /\ to_delete' = [to_delete EXCEPT ![current_to_delete_] = Append(@, o)]
    /\ IF Len(to_delete'[current_to_delete_]) = 1
         THEN Schedule(Loop, deferred_delete_cb_)
         ELSE UNCHANGED schedVars
    /\ UNCHANGED <<postVars, current_to_delete_, deferred_deleting_, clearing, destroyed,
                   baseVars, loopVars, exits>>

(* A slip: a nested clear is not refused.                                  *)
BeginClearReentrant ==
    IF to_delete[current_to_delete_] = <<>>
      THEN UNCHANGED clearVars
      ELSE /\ current_to_delete_' = 3 - current_to_delete_
           /\ deferred_deleting_' = TRUE
           /\ clearing' = Append(clearing, [vec |-> current_to_delete_, i |-> 0, dtor |-> FALSE,
                                            n |-> Len(to_delete[current_to_delete_])])
           /\ UNCHANGED <<to_delete, destroyed>>

(* A slip: the swap always goes to the next vector.                        *)
BeginClearNoToggle ==
    IF deferred_deleting_ \/ to_delete[current_to_delete_] = <<>>
      THEN UNCHANGED clearVars
      ELSE /\ current_to_delete_' = current_to_delete_ + 1
           /\ deferred_deleting_' = TRUE
           /\ clearing' = Append(clearing, [vec |-> current_to_delete_, i |-> 0, dtor |-> FALSE,
                                            n |-> Len(to_delete[current_to_delete_])])
           /\ UNCHANGED <<to_delete, destroyed>>

(* clearDeferredDeleteList up to its loop: give up, or swap the vectors    *)
(* and begin to destroy the n objects of the one that was current.         *)
BeginClear ==
    IF deferred_deleting_ \/ to_delete[current_to_delete_] = <<>>
      THEN UNCHANGED clearVars
      ELSE /\ current_to_delete_' = 3 - current_to_delete_
           /\ deferred_deleting_' = TRUE
           /\ clearing' = Append(clearing, [vec |-> current_to_delete_, i |-> 0, dtor |-> FALSE,
                                            n |-> Len(to_delete[current_to_delete_])])
           /\ UNCHANGED <<to_delete, destroyed>>

(* User code calls clearDeferredDeleteList itself.                         *)
clearDeferredDeleteList ==
    /\ MayCall(Loop)
    /\ BeginClear
    /\ UNCHANGED <<postVars, schedVars, baseVars, loopVars, exits>>
--------------------------------------------------------------------------------
(* run() and runPostCallbacks.                                             *)

(* run() flushes the posted callbacks before it enters libevent's loop.    *)
run ==
    /\ phase \in {"new", "done"} /\ clearing = <<>> /\ step[Loop] = "idle"
    /\ runs < MaxRuns
    /\ runs' = runs + 1
    /\ phase' = "flush"
    /\ posting' = "take"
    /\ UNCHANGED <<post_callbacks_, callbacks, ran, clearVars, schedVars, baseVars,
                   inFd, returns, exits>>

(* A slip: the list is copied, not moved.                                  *)
TakePostsCopy ==
    /\ posting = "take"
    /\ callbacks' = post_callbacks_
    /\ posting' = "run"
    /\ UNCHANGED <<post_callbacks_, ran, clearVars, schedVars, baseVars, loopVars, exits>>

TakePosts ==
    /\ posting = "take"
    /\ callbacks' = post_callbacks_
    /\ post_callbacks_' = <<>>
    /\ posting' = "run"
    /\ UNCHANGED <<ran, clearVars, schedVars, baseVars, loopVars, exits>>

RunFront ==
    /\ posting = "run" /\ callbacks # <<>>
    /\ posting' = "body"
    /\ ran' = ran \cup {Head(callbacks)}
    /\ UNCHANGED <<post_callbacks_, callbacks, clearVars, schedVars, baseVars, loopVars, exits>>

(* The callback has returned: pop_front unlinks it and destroys it.        *)
PopFront ==
    /\ posting = "body" /\ clearing = <<>> /\ step[Loop] = "idle"
    /\ callbacks' = Tail(callbacks)
    /\ posting' = "dtor"
    /\ UNCHANGED <<post_callbacks_, ran, clearVars, schedVars, baseVars, loopVars, exits>>

CallbackDestroyed ==
    /\ posting = "dtor" /\ clearing = <<>> /\ step[Loop] = "idle"
    /\ posting' = "run"
    /\ UNCHANGED <<post_callbacks_, callbacks, ran, clearVars, schedVars, baseVars, loopVars, exits>>

(* A slip: the loop is entered with the termination flag of the last run.  *)
PostsDoneKeepsGotterm ==
    /\ posting = "run" /\ callbacks = <<>>
    /\ posting' = "none"
    /\ phase' = IF phase = "flush" THEN "top" ELSE phase
    /\ UNCHANGED <<post_callbacks_, callbacks, ran, clearVars, schedVars, baseVars,
                   inFd, runs, returns, exits>>

(* The end of runPostCallbacks.  After the flush of run(), event_base_loop *)
(* starts by forgetting an earlier request to terminate.                   *)
PostsDone ==
    /\ posting = "run" /\ callbacks = <<>>
    /\ posting' = "none"
    /\ IF phase = "flush"
         THEN phase' = "top" /\ gotterm' = FALSE
         ELSE UNCHANGED <<phase, gotterm>>
    /\ UNCHANGED <<post_callbacks_, callbacks, ran, clearVars, schedVars, active,
                   inFd, runs, returns, exits>>

--------------------------------------------------------------------------------
(* The rest of clearDeferredDeleteList.                                    *)

(* A slip: the objects are destroyed last first.                           *)
ResetLast ==
    /\ clearing # <<>>
    /\ LET f == Innermost IN
         /\ ~f.dtor /\ f.i < f.n
         /\ destroyed' = destroyed \cup {to_delete[f.vec][f.n - f.i]}
         /\ to_delete' = [to_delete EXCEPT ![f.vec][f.n - f.i] = NullPtr]
         /\ clearing' = [clearing EXCEPT ![Len(clearing)] = [f EXCEPT !.i = @ + 1, !.dtor = TRUE]]
    /\ UNCHANGED <<postVars, current_to_delete_, deferred_deleting_, schedVars, baseVars,
                   loopVars, exits>>

ResetNext ==
    /\ clearing # <<>>
    /\ LET f == Innermost IN
         /\ ~f.dtor /\ f.i < f.n
         /\ destroyed' = destroyed \cup {to_delete[f.vec][f.i + 1]}
         /\ to_delete' = [to_delete EXCEPT ![f.vec][f.i + 1] = NullPtr]
         /\ clearing' = [clearing EXCEPT ![Len(clearing)] = [f EXCEPT !.i = @ + 1, !.dtor = TRUE]]
    /\ UNCHANGED <<postVars, current_to_delete_, deferred_deleting_, schedVars, baseVars,
                   loopVars, exits>>

ObjectDestroyed ==
    /\ clearing # <<>> /\ Innermost.dtor /\ step[Loop] = "idle"
    /\ clearing' = [clearing EXCEPT ![Len(clearing)] = [Innermost EXCEPT !.dtor = FALSE]]
    /\ UNCHANGED <<postVars, to_delete, current_to_delete_, deferred_deleting_, destroyed,
                   schedVars, baseVars, loopVars, exits>>

(* A slip: deferred_deleting_ stays set.                                   *)
EndClearStaysDeleting ==
    /\ clearing # <<>> /\ ~Innermost.dtor /\ Innermost.i = Innermost.n
    /\ to_delete' = [to_delete EXCEPT ![Innermost.vec] = <<>>]
    /\ clearing' = SubSeq(clearing, 1, Len(clearing) - 1)
    /\ UNCHANGED <<postVars, current_to_delete_, deferred_deleting_, destroyed, schedVars,
                   baseVars, loopVars, exits>>

EndClear ==
    /\ clearing # <<>> /\ ~Innermost.dtor /\ Innermost.i = Innermost.n
    /\ to_delete' = [to_delete EXCEPT ![Innermost.vec] = <<>>]
    /\ deferred_deleting_' = FALSE
    /\ clearing' = SubSeq(clearing, 1, Len(clearing) - 1)
    /\ UNCHANGED <<postVars, current_to_delete_, destroyed, schedVars, baseVars, loopVars, exits>>

--------------------------------------------------------------------------------
(* LibeventScheduler::run.                                                 *)

(* A slip: every run waits for an exit().                                  *)
flagNeverEmpty == {"EVLOOP_NO_EXIT_ON_EMPTY"}

(* The flags of event_base_loop: NonBlock falls through to Block.          *)
flag == CASE RunMode \in {"NonBlock", "Block"} -> {}
          [] RunMode = "RunUntilExit" -> {"EVLOOP_NO_EXIT_ON_EMPTY"}

(* A slip: active events do not keep the loop alive.                       *)
LoopTopIgnoresActive ==
    /\ phase = "top"
    /\ IF gotterm \/ ("EVLOOP_NO_EXIT_ON_EMPTY" \notin flag /\ Fds = {})
         THEN phase' = "done" /\ returns' = returns + 1
         ELSE phase' = "poll" /\ UNCHANGED returns
    /\ UNCHANGED <<postVars, clearVars, schedVars, baseVars, inFd, runs, exits>>

(* The top of an iteration: return when asked to, or when no event is left *)
(* (registered file events count, callbacks of a Dispatcher only while     *)
(* they are active).                                                       *)
LoopTop ==
    /\ phase = "top"
    /\ IF \/ gotterm
          \/ "EVLOOP_NO_EXIT_ON_EMPTY" \notin flag /\ active = <<>> /\ Fds = {}
         THEN phase' = "done" /\ returns' = returns + 1
         ELSE phase' = "poll" /\ UNCHANGED returns
    /\ UNCHANGED <<postVars, clearVars, schedVars, baseVars, inFd, runs, exits>>

(* Any order in which the poll may report file events.                     *)
ReadyLists == {s \in UNION {[1..n -> Fds] : n \in 0..Cardinality(Fds)} : IsInjective(s)}

(* A slip: event_active does not wake the poll (libevent without threads). *)
PollNotWoken(ready) ==
    /\ phase = "poll"
    /\ ready # <<>>
    /\ active' = active \o ready
    /\ phase' = "process"
    /\ UNCHANGED <<postVars, clearVars, schedVars, gotterm, inFd, runs, returns, exits>>

(* The poll sleeps until a file event is ready or an event is active:      *)
(* event_active from another thread wakes it.                              *)
Poll(ready) ==
    /\ phase = "poll"
    /\ active # <<>> \/ ready # <<>> \/ "EVLOOP_NONBLOCK" \in flag
    /\ active' = active \o ready
    /\ phase' = "process"
    /\ UNCHANGED <<postVars, clearVars, schedVars, gotterm, inFd, runs, returns, exits>>

(* The work list is run until it is empty, with what is added meanwhile.   *)
ProcessPostCb ==
    /\ phase = "process" /\ AtBase
    /\ event_process(post_cb_)
    /\ posting' = "take"
    /\ UNCHANGED <<post_callbacks_, callbacks, ran, clearVars, schedVars, gotterm, loopVars, exits>>

(* The callback touches nothing another thread sees before its destructors *)
(* run, so taking the event and BeginClear are one step.                   *)
ProcessDeferredDeleteCb ==
    /\ phase = "process" /\ AtBase
    /\ event_process(deferred_delete_cb_)
    /\ BeginClear
    /\ UNCHANGED <<postVars, schedVars, gotterm, loopVars, exits>>

ProcessLoopExit ==
    /\ phase = "process" /\ AtBase
    /\ event_process(loopexit_cb)
    /\ gotterm' = TRUE
    /\ UNCHANGED <<postVars, clearVars, schedVars, loopVars, exits>>

ProcessFd ==
    /\ phase = "process" /\ AtBase
    /\ \E fd \in Fds : event_process(fd)
    /\ inFd' = TRUE
    /\ UNCHANGED <<postVars, clearVars, schedVars, gotterm, phase, runs, returns, exits>>

FdReturns ==
    /\ inFd /\ clearing = <<>> /\ step[Loop] = "idle"
    /\ inFd' = FALSE
    /\ UNCHANGED <<postVars, clearVars, schedVars, baseVars, phase, runs, returns, exits>>

EndIteration ==
    /\ phase = "process" /\ AtBase
    /\ active = <<>>
    /\ phase' = "top"
    /\ UNCHANGED <<postVars, clearVars, schedVars, baseVars, inFd, runs, returns, exits>>

--------------------------------------------------------------------------------
(* What the loop thread does whatever its user code and the poll choose.   *)
LoopProgress ==
    \/ TakePosts \/ RunFront \/ PopFront \/ CallbackDestroyed \/ PostsDone
    \/ ResetNext \/ ObjectDestroyed \/ EndClear
    \/ LoopTop \/ Poll(<<>>)
    \/ ProcessPostCb \/ ProcessDeferredDeleteCb \/ ProcessLoopExit \/ ProcessFd
    \/ FdReturns \/ EndIteration

Scheduling(t) == CheckEnabled(t) \/ Activate(t)

Next ==
    \/ \E t \in Threads : Scheduling(t) \/ exit(t) \/ \E c \in Callbacks : post(t, c)
    \/ \E o \in Objects : deferredDelete(o)
    \/ clearDeferredDeleteList
    \/ run
    \/ LoopProgress
    \/ \E ready \in ReadyLists \ {<<>>} : Poll(ready)

Spec == Init /\ [][Next]_vars

(* Threads that are inside a call finish it, user code returns, and the    *)
(* loop thread does call run() once; nothing makes a file event ready.     *)
Fairness ==
    /\ \A t \in Threads : WF_vars(Scheduling(t))
    /\ WF_vars(LoopProgress)
    /\ WF_vars(runs = 0 /\ run)

FairSpec == Spec /\ Fairness

--------------------------------------------------------------------------------
Frame == [vec : 1..2, i : Nat, n : Nat, dtor : BOOLEAN]

(* Every variable stays in its type.                                       *)
TypeOK ==
    /\ active \in Seq(SchedulableCallbacks \cup {loopexit_cb} \cup Fds)
    /\ gotterm \in BOOLEAN
    /\ post_callbacks_ \in Seq(Callbacks) /\ callbacks \in Seq(Callbacks)
    /\ posting \in {"none", "take", "run", "body", "dtor"}
    /\ ran \subseteq Callbacks
    /\ to_delete \in [1..2 -> Seq(Objects \cup {NullPtr})]
    /\ current_to_delete_ \in 1..2
    /\ deferred_deleting_ \in BOOLEAN
    /\ clearing \in Seq(Frame)
    /\ destroyed \subseteq Objects
    /\ step \in [Threads -> {"idle", "enabled", "event_active"}]
    /\ target \in [Threads -> SchedulableCallbacks]
    /\ phase \in {"new", "flush", "top", "poll", "process", "done"}
    /\ inFd \in BOOLEAN
    /\ runs \in 0..MaxRuns /\ exits \in 0..MaxExits /\ returns \in Nat

(* Some thread is inside scheduleCallbackCurrentIteration of cb.           *)
BeingScheduled(cb) == \E t \in Threads : step[t] # "idle" /\ target[t] = cb

(* post(): only the thread that found the list empty schedules post_cb_,   *)
(* outside the lock.  Even so a callback in the list is never stranded:    *)
(* post_cb_ is active, or a thread is on its way to make it so, or the     *)
(* loop is about to take the list.                                         *)
PostArmed ==
    post_callbacks_ # <<>> =>
        \/ evtimer_pending(post_cb_)
        \/ BeingScheduled(post_cb_)
        \/ posting = "take"

(* deferredDelete(): only the object that makes the vector one long        *)
(* schedules deferred_delete_cb_.  Whatever user code clears by hand or    *)
(* defers from a destructor, an object in the current vector always has a  *)
(* clear coming.                                                           *)
DeleteArmed ==
    to_delete[current_to_delete_] # <<>> =>
        evtimer_pending(deferred_delete_cb_) \/ BeingScheduled(deferred_delete_cb_)

(* clearDeferredDeleteList walks a vector by index while destructors run   *)
(* that call deferredDelete and clearDeferredDeleteList: the vector it     *)
(* walks never is the one being appended to, keeps its length, and only    *)
(* the objects it has passed are gone from it.                             *)
ClearedVectorFrozen ==
    \A k \in 1..Len(clearing) :
        LET f == clearing[k] IN
          /\ f.vec # current_to_delete_
          /\ Len(to_delete[f.vec]) = f.n
          /\ \A j \in 1..f.n : to_delete[f.vec][j] = NullPtr <=> j <= f.i

(* What keeps it so: one clear at a time, told by deferred_deleting_; the  *)
(* vector that is neither cleared nor current is empty, so the swap gives  *)
(* the destructors a fresh one; the current vector holds live objects.     *)
ClearDiscipline ==
    /\ Len(clearing) <= 1
    /\ deferred_deleting_ <=> clearing # <<>>
    /\ clearing = <<>> => to_delete[3 - current_to_delete_] = <<>>
    /\ clearing # <<>> => Innermost.i <= Innermost.n
    /\ ClearedVectorFrozen
    /\ \A j \in 1..Len(to_delete[current_to_delete_]) :
          to_delete[current_to_delete_][j] \in Objects

(* run(RunUntilExit) returns only for an exit() of its own: a return uses  *)
(* up at least one call, and a second run() does not return because of the *)
(* exit() that ended the first.                                            *)
ReturnsPaidByExits == RunMode = "RunUntilExit" => returns <= exits

(* The objects still to be destroyed, in the order they were deferred: the *)
(* rest of the vector being cleared, then the current one.                 *)
DeletePending ==
    (IF clearing = <<>> THEN <<>>
     ELSE SubSeq(to_delete[Innermost.vec], Innermost.i + 1, Innermost.n))
    \o to_delete[current_to_delete_]

(* Posted callbacks are started in the order of the posts, each once,      *)
(* across re-posts from callbacks and their destructors.                   *)
Posts == INSTANCE TaskQueue WITH Items <- Callbacks, pending <- PostPending, started <- ran
PostsFIFO == Posts!Spec

(* Deferred objects are destroyed in the order they were deferred, each    *)
(* once, across the swaps of the two vectors.                              *)
Deletes == INSTANCE TaskQueue WITH Items <- Objects, pending <- DeletePending, started <- destroyed
DeletesFIFO == Deletes!Spec

(* run(Block) returns by itself only when it leaves nothing behind: no     *)
(* object, and no callback but those of a post() still in progress.        *)
BlockReturnsDrained ==
    [][phase = "top" /\ phase' = "done" /\ ~gotterm =>
          /\ post_callbacks_ # <<>> => BeingScheduled(post_cb_)
          /\ DeletePending = <<>>]_vars

(* A callback posted before or during run() is started unless run()        *)
(* returns first.                                                          *)
PostRuns ==
    \A c \in Callbacks : c \in Range(PostPending) ~> (c \in ran \/ phase = "done")

(* An object deferred before or during run() is destroyed unless run()     *)
(* returns first.                                                          *)
DeleteRuns ==
    \A o \in Objects : o \in Range(DeletePending) ~> (o \in destroyed \/ phase = "done")

(* An exit(), even one made before run() or by another thread while the    *)
(* loop sleeps in the poll, makes run() return.                            *)
ExitStops == evtimer_pending(loopexit_cb) ~> phase = "done"

(* run(Block) "runs the event-loop until there are no pending events"      *)
(* (Dispatcher.h:37), so with no file event registered it returns by       *)
(* itself.  The comment of run() (lines 30-34) says instead that blocking  *)
(* mode "will not return until exit() is called": the code follows line 37.*)
BlockTerminates == RunMode = "Block" /\ Fds = {} => <>(phase = "done")

(* The comment of runPostCallbacks (Dispatcher.cpp:98-101): the deferred   *)
(* delete list is cleared before posted callbacks run.  The call is        *)
(* commented out.                                                          *)
DeferredClearedBeforePosts ==
    [][posting = "take" /\ callbacks' # <<>> => to_delete[current_to_delete_] = <<>>]_vars

(* RunType::NonBlock (Dispatcher.h:38-40): run() executes what is active   *)
(* and then returns.                                                       *)
NonBlockReturns == RunMode = "NonBlock" => phase = "top" ~> phase = "done"
================================================================================
