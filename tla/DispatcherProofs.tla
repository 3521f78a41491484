---------------------------- MODULE DispatcherProofs ---------------------------
(* Proofs about Dispatcher, for any threads, callbacks, objects and file   *)
(* events, any RunType, and any number of runs and exits.                  *)
EXTENDS Dispatcher, DataLemmas, FiniteSetTheorems, TLAPS

--------------------------------------------------------------------------------
(* What the poll reports is a sequence of file events.                     *)
LEMMA ReadyListsType == ReadyLists \subseteq Seq(Fds)
<1>1. Cardinality(Fds) \in Nat
  BY DispatcherAssumption, FS_CardinalityType
<1>2. ASSUME NEW n \in 0..Cardinality(Fds), NEW s \in [1..n -> Fds] PROVE s \in Seq(Fds)
  BY <1>1
<1> QED BY <1>2 DEF ReadyLists

--------------------------------------------------------------------------------
(* The types and the discipline of clearDeferredDeleteList support each    *)
(* other: the object a clear destroys is an object because the clear has   *)
(* not passed it yet.  And pop_front always has a callback to pop.         *)
BodyHasCallback == posting = "body" => callbacks # <<>>

Safe == TypeOK /\ ClearDiscipline /\ BodyHasCallback

(* The swap of the vectors: ProcessDeferredDeleteCb and user code.         *)
LEMMA BeginClearSafe ==
    ASSUME Safe, BeginClear
    PROVE  /\ to_delete' \in [1..2 -> Seq(Objects \cup {NullPtr})]
           /\ current_to_delete_' \in 1..2
           /\ deferred_deleting_' \in BOOLEAN
           /\ clearing' \in Seq(Frame)
           /\ destroyed' \subseteq Objects
           /\ ClearDiscipline'
<1> USE DEF Safe, TypeOK
<1>1. CASE deferred_deleting_ \/ to_delete[current_to_delete_] = <<>>
  <2>1. UNCHANGED clearVars
    BY <1>1 DEF BeginClear
  <2> QED BY <2>1 DEF clearVars, ClearDiscipline, ClearedVectorFrozen, Innermost
<1>2. CASE ~(deferred_deleting_ \/ to_delete[current_to_delete_] = <<>>)
  <2> DEFINE f == [vec |-> current_to_delete_, i |-> 0, dtor |-> FALSE,
                   n |-> Len(to_delete[current_to_delete_])]
  <2>1. /\ current_to_delete_' = 3 - current_to_delete_
        /\ deferred_deleting_' = TRUE
        /\ clearing' = Append(clearing, f)
        /\ UNCHANGED <<to_delete, destroyed>>
    BY <1>2 DEF BeginClear
  <2>2. clearing = <<>>
    BY <1>2 DEF ClearDiscipline
  <2>3. f \in Frame
    BY DEF Frame
  <2>4. clearing' = <<f>>
    BY <2>1, <2>2
  <2>5. \A j \in 1..f.n : to_delete[f.vec][j] # NullPtr
    BY DispatcherAssumption DEF ClearDiscipline
  <2>6. ClearedVectorFrozen'
    <3>1. Len(clearing') = 1 /\ clearing'[1] = f
      BY <2>4
    <3>2. f.vec # current_to_delete_' /\ Len(to_delete'[f.vec]) = f.n
      BY <2>1
    <3>3. \A j \in 1..f.n : to_delete'[f.vec][j] = NullPtr <=> j <= f.i
      BY <2>1, <2>5
    <3> QED BY <3>1, <3>2, <3>3 DEF ClearedVectorFrozen
  <2>7. to_delete'[current_to_delete_'] = <<>>
    BY <2>1, <2>2 DEF ClearDiscipline
  <2>8. Len(clearing') = 1 /\ Innermost' = f /\ clearing' # <<>>
    BY <2>4 DEF Innermost
  <2>9. ClearDiscipline'
    BY <2>1, <2>6, <2>7, <2>8 DEF ClearDiscipline
  <2> QED BY <2>1, <2>3, <2>4, <2>9
<1> QED BY <1>1, <1>2

LEMMA ClearUntouched ==
    ASSUME ClearDiscipline, UNCHANGED clearVars
    PROVE  ClearDiscipline'
BY DEF ClearDiscipline, ClearedVectorFrozen, Innermost, clearVars

(* deferredDelete appends to the current vector, which no clear walks.     *)
LEMMA DeferredDeleteSafe ==
    ASSUME Safe, NEW o \in Objects, deferredDelete(o)
    PROVE  Safe'
<1> USE DEF Safe, TypeOK
<1>1. /\ to_delete' = [to_delete EXCEPT ![current_to_delete_] = Append(@, o)]
      /\ UNCHANGED <<postVars, current_to_delete_, deferred_deleting_, clearing, destroyed,
                     baseVars, loopVars, exits>>
  BY DEF deferredDelete
<1>2. step' \in [Threads -> {"idle", "enabled", "event_active"}]
      /\ target' \in [Threads -> SchedulableCallbacks]
  BY DEF deferredDelete, Schedule, schedVars, SchedulableCallbacks
<1>3. to_delete' \in [1..2 -> Seq(Objects \cup {NullPtr})]
  <2>1. Append(to_delete[current_to_delete_], o) \in Seq(Objects \cup {NullPtr})
    OBVIOUS
  <2> QED BY <1>1, <2>1
<1>4. TypeOK'
  BY <1>1, <1>2, <1>3 DEF postVars, baseVars, loopVars
<1>5. to_delete'[3 - current_to_delete_] = to_delete[3 - current_to_delete_]
  BY <1>1
<1>6. ClearedVectorFrozen'
  <2>1. SUFFICES ASSUME NEW k \in 1..Len(clearing)
                 PROVE  LET f == clearing[k] IN
                          /\ f.vec # current_to_delete_
                          /\ Len(to_delete'[f.vec]) = f.n
                          /\ \A j \in 1..f.n : to_delete'[f.vec][j] = NullPtr <=> j <= f.i
    BY <1>1, SMTT(60) DEF ClearedVectorFrozen
  <2>2. clearing[k] \in Frame /\ clearing[k].vec # current_to_delete_
    BY DEF ClearDiscipline, ClearedVectorFrozen
  <2>3. to_delete'[clearing[k].vec] = to_delete[clearing[k].vec]
    BY <1>1, <2>2 DEF Frame
  <2> QED BY <2>2, <2>3 DEF ClearDiscipline, ClearedVectorFrozen
<1>7. \A j \in 1..Len(to_delete'[current_to_delete_]) : to_delete'[current_to_delete_][j] \in Objects
  BY <1>1 DEF ClearDiscipline
<1>8. ClearDiscipline'
  BY <1>1, <1>5, <1>6, <1>7 DEF ClearDiscipline, Innermost
<1>9. BodyHasCallback'
  BY <1>1 DEF BodyHasCallback, postVars
<1> QED BY <1>4, <1>8, <1>9

(* One call of clearDeferredDeleteList is in progress.                     *)
LEMMA OneClear ==
    ASSUME Safe, clearing # <<>>
    PROVE  /\ Len(clearing) = 1 /\ clearing = <<Innermost>>
           /\ Innermost \in Frame /\ Innermost.i <= Innermost.n
           /\ Innermost.vec = 3 - current_to_delete_
           /\ Len(to_delete[Innermost.vec]) = Innermost.n
           /\ \A j \in 1..Innermost.n : to_delete[Innermost.vec][j] = NullPtr <=> j <= Innermost.i
<1>1. /\ Len(clearing) = 1
      /\ Innermost = clearing[1] /\ clearing = <<Innermost>> /\ Innermost \in Frame
  <2>1. clearing \in Seq(Frame) /\ Len(clearing) <= 1
    BY DEF Safe, TypeOK, ClearDiscipline
  <2>2. Len(clearing) = 1 /\ clearing = <<clearing[1]>> /\ clearing[1] \in Frame
    BY <2>1, SingletonQueue
  <2> QED BY <2>2 DEF Innermost
<1>3. /\ Innermost.vec # current_to_delete_
      /\ Len(to_delete[Innermost.vec]) = Innermost.n
      /\ \A j \in 1..Innermost.n : to_delete[Innermost.vec][j] = NullPtr <=> j <= Innermost.i
  BY <1>1 DEF Safe, ClearDiscipline, ClearedVectorFrozen
<1>4. Innermost.vec = 3 - current_to_delete_
  BY <1>1, <1>3 DEF Frame, Safe, TypeOK
<1> QED BY <1>1, <1>3, <1>4 DEF Safe, ClearDiscipline

(* The destructor of the next object begins.                               *)
LEMMA ResetNextSafe ==
    ASSUME Safe, ResetNext
    PROVE  Safe'
<1>1. PICK f, g :
        /\ f = Innermost /\ g = [f EXCEPT !.i = @ + 1, !.dtor = TRUE]
        /\ clearing # <<>> /\ f.i < f.n
        /\ destroyed' = destroyed \cup {to_delete[f.vec][f.i + 1]}
        /\ to_delete' = [to_delete EXCEPT ![f.vec][f.i + 1] = NullPtr]
        /\ clearing' = [clearing EXCEPT ![Len(clearing)] = g]
        /\ UNCHANGED <<postVars, current_to_delete_, deferred_deleting_, schedVars, baseVars,
                       loopVars, exits>>
  BY DEF ResetNext
<1>2. /\ Len(clearing) = 1 /\ clearing = <<f>>
      /\ f \in Frame
      /\ f.vec = 3 - current_to_delete_
      /\ Len(to_delete[f.vec]) = f.n
      /\ \A j \in 1..f.n : to_delete[f.vec][j] = NullPtr <=> j <= f.i
  BY <1>1, OneClear
<1>3. /\ f.vec \in 1..2 /\ f.i \in Nat /\ f.n \in Nat /\ f.i + 1 \in 1..f.n
      /\ current_to_delete_ \in 1..2 /\ f.vec # current_to_delete_
  BY <1>1, <1>2 DEF Frame, Safe, TypeOK
<1>4. g \in Frame /\ g.vec = f.vec /\ g.n = f.n /\ g.i = f.i + 1
  <2>1. f.i + 1 \in Nat
    BY <1>3
  <2> QED BY <1>1, <1>2, <2>1 DEF Frame
<1>5. clearing' = <<g>>
  BY <1>1, <1>2, ReplaceOnly
<1>6. to_delete \in [1..2 -> Seq(Objects \cup {NullPtr})]
  BY DEF Safe, TypeOK
<1>7. to_delete[f.vec][f.i + 1] \in Objects
  BY <1>2, <1>3, <1>6
<1>8. PICK v : /\ v = [to_delete[f.vec] EXCEPT ![f.i + 1] = NullPtr]
               /\ v \in Seq(Objects \cup {NullPtr}) /\ Len(v) = f.n
               /\ \A j \in 1..f.n : v[j] = IF j = f.i + 1 THEN NullPtr ELSE to_delete[f.vec][j]
  <2>1. to_delete[f.vec] \in Seq(Objects \cup {NullPtr})
    BY <1>3, <1>6
  <2>2. f.i + 1 \in 1..Len(to_delete[f.vec])
    BY <1>2, <1>3
  <2>3. NullPtr \in Objects \cup {NullPtr}
    OBVIOUS
  <2> DEFINE u == [to_delete[f.vec] EXCEPT ![f.i + 1] = NullPtr]
  <2>4. /\ u \in Seq(Objects \cup {NullPtr}) /\ Len(u) = Len(to_delete[f.vec])
        /\ \A j \in 1..Len(to_delete[f.vec]) :
              u[j] = IF j = f.i + 1 THEN NullPtr ELSE to_delete[f.vec][j]
    BY <2>1, <2>2, <2>3, ReplaceOne
  <2> HIDE DEF u
  <2>5. \E v : v = u
    OBVIOUS
  <2> QED BY <1>2, <2>4, <2>5 DEF u
<1>9. /\ to_delete' \in [1..2 -> Seq(Objects \cup {NullPtr})]
      /\ to_delete'[current_to_delete_] = to_delete[current_to_delete_]
      /\ to_delete'[f.vec] = v
  BY <1>1, <1>3, <1>6, <1>8
<1>10. \A j \in 1..f.n : to_delete'[f.vec][j] = NullPtr <=> j <= g.i
  BY <1>2, <1>3, <1>4, <1>8, <1>9, SMTT(60)
<1>11. clearing' \in Seq(Frame) /\ Len(clearing') = 1 /\ clearing'[1] = g /\ clearing' # <<>>
  BY <1>4, <1>5, SingletonType
<1>12. TypeOK'
  BY <1>1, <1>7, <1>9, <1>11 DEF Safe, TypeOK, postVars, schedVars, baseVars, loopVars
<1>13. Innermost' = g
  BY <1>11 DEF Innermost
<1>14. ClearedVectorFrozen'
  <2>1. /\ clearing'[1].vec # current_to_delete_'
        /\ Len(to_delete'[clearing'[1].vec]) = clearing'[1].n
        /\ \A j \in 1..clearing'[1].n : to_delete'[clearing'[1].vec][j] = NullPtr <=> j <= clearing'[1].i
    BY <1>1, <1>3, <1>4, <1>8, <1>9, <1>10, <1>11
  <2> QED BY <1>11, <2>1 DEF ClearedVectorFrozen
<1>15. ClearDiscipline'
  BY <1>1, <1>3, <1>4, <1>9, <1>11, <1>13, <1>14 DEF Safe, ClearDiscipline
<1>16. BodyHasCallback'
  BY <1>1 DEF Safe, BodyHasCallback, postVars
<1> QED BY <1>12, <1>15, <1>16 DEF Safe

(* A destructor returns.                                                   *)
LEMMA ObjectDestroyedSafe ==
    ASSUME Safe, ObjectDestroyed
    PROVE  Safe'
<1>1. PICK f, g :
        /\ f = Innermost /\ g = [f EXCEPT !.dtor = FALSE]
        /\ clearing # <<>>
        /\ clearing' = [clearing EXCEPT ![Len(clearing)] = g]
        /\ UNCHANGED <<postVars, to_delete, current_to_delete_, deferred_deleting_, destroyed,
                       schedVars, baseVars, loopVars, exits>>
  BY DEF ObjectDestroyed
<1>2. Len(clearing) = 1 /\ clearing = <<f>> /\ f \in Frame /\ f.i <= f.n
  BY <1>1, OneClear
<1>3. g \in Frame /\ g.vec = f.vec /\ g.n = f.n /\ g.i = f.i
  BY <1>1, <1>2 DEF Frame
<1>4. clearing' = <<g>>
  BY <1>1, <1>2, ReplaceOnly
<1>5. clearing' \in Seq(Frame) /\ Len(clearing') = 1 /\ clearing'[1] = g /\ clearing' # <<>>
  BY <1>3, <1>4, SingletonType
<1>6. TypeOK'
  BY <1>1, <1>5 DEF Safe, TypeOK, postVars, schedVars, baseVars, loopVars
<1>7. Innermost' = g
  BY <1>5 DEF Innermost
<1>8. ClearedVectorFrozen'
  BY <1>1, <1>2, <1>3, <1>5, OneClear DEF Safe, ClearDiscipline, ClearedVectorFrozen
<1>9. ClearDiscipline'
  BY <1>1, <1>2, <1>3, <1>5, <1>7, <1>8 DEF Safe, ClearDiscipline
<1>10. BodyHasCallback'
  BY <1>1 DEF Safe, BodyHasCallback, postVars
<1> QED BY <1>6, <1>9, <1>10 DEF Safe

(* The cleared vector is empty again and may be swapped in.                *)
LEMMA EndClearSafe ==
    ASSUME Safe, EndClear
    PROVE  Safe'
<1>1. PICK f :
        /\ f = Innermost
        /\ clearing # <<>>
        /\ to_delete' = [to_delete EXCEPT ![f.vec] = <<>>]
        /\ deferred_deleting_' = FALSE
        /\ clearing' = SubSeq(clearing, 1, Len(clearing) - 1)
        /\ UNCHANGED <<postVars, current_to_delete_, destroyed, schedVars, baseVars, loopVars, exits>>
  BY DEF EndClear
<1>2. Len(clearing) = 1 /\ clearing = <<f>> /\ f \in Frame /\ f.vec = 3 - current_to_delete_
  BY <1>1, OneClear
<1>3. clearing' = <<>> /\ clearing' \in Seq(Frame) /\ Len(clearing') = 0
  BY <1>1, <1>2
<1>4. /\ to_delete' \in [1..2 -> Seq(Objects \cup {NullPtr})]
      /\ to_delete'[3 - current_to_delete_] = <<>>
      /\ to_delete'[current_to_delete_] = to_delete[current_to_delete_]
  BY <1>1, <1>2 DEF Safe, TypeOK
<1>5. TypeOK'
  BY <1>1, <1>3, <1>4 DEF Safe, TypeOK, postVars, schedVars, baseVars, loopVars
<1>6. ClearDiscipline'
  BY <1>1, <1>3, <1>4 DEF Safe, ClearDiscipline, ClearedVectorFrozen
<1>7. BodyHasCallback'
  BY <1>1 DEF Safe, BodyHasCallback, postVars
<1> QED BY <1>5, <1>6, <1>7 DEF Safe

--------------------------------------------------------------------------------
LEMMA InitSafe == Init => Safe
<1> SUFFICES ASSUME Init PROVE Safe
  OBVIOUS
<1>1. TypeOK
  <2>1. /\ active = <<>> /\ post_callbacks_ = <<>> /\ callbacks = <<>> /\ clearing = <<>>
        /\ gotterm = FALSE /\ posting = "none" /\ ran = {} /\ destroyed = {}
        /\ phase = "new" /\ inFd = FALSE /\ deferred_deleting_ = FALSE
        /\ current_to_delete_ = 1 /\ runs = 0 /\ exits = 0 /\ returns = 0
    BY DEF Init, EventBaseInit
  <2>2. to_delete \in [1..2 -> Seq(Objects \cup {NullPtr})]
    BY DEF Init
  <2>3. /\ step \in [Threads -> {"idle", "enabled", "event_active"}]
        /\ target \in [Threads -> SchedulableCallbacks]
    BY DEF Init, SchedulableCallbacks
  <2>4. runs \in 0..MaxRuns /\ exits \in 0..MaxExits
    BY <2>1, DispatcherAssumption
  <2>5. /\ active \in Seq(SchedulableCallbacks \cup {loopexit_cb} \cup Fds)
        /\ post_callbacks_ \in Seq(Callbacks) /\ callbacks \in Seq(Callbacks)
        /\ clearing \in Seq(Frame)
    BY <2>1
  <2>6. gotterm \in BOOLEAN /\ deferred_deleting_ \in BOOLEAN /\ inFd \in BOOLEAN
    BY <2>1, Zenon
  <2>7. /\ posting \in {"none", "take", "run", "body", "dtor"}
        /\ ran \subseteq Callbacks /\ destroyed \subseteq Objects
        /\ current_to_delete_ \in 1..2 /\ returns \in Nat
        /\ phase \in {"new", "flush", "top", "poll", "process", "done"}
    BY <2>1, SMT
  <2> QED BY <2>2, <2>3, <2>4, <2>5, <2>6, <2>7 DEF TypeOK
<1>2. ClearDiscipline
  BY DEF Init, ClearDiscipline, ClearedVectorFrozen
<1> QED BY <1>1, <1>2 DEF Safe, Init, BodyHasCallback

(* The steps of scheduleCallbackCurrentIteration.                          *)
LEMMA SchedulingSafe ==
    ASSUME Safe, NEW t \in Threads, Scheduling(t)
    PROVE  Safe'
<1> USE DEF Safe
<1>1. UNCHANGED clearVars /\ BodyHasCallback'
  BY DEF Scheduling, CheckEnabled, Activate, BodyHasCallback, postVars
<1>2. CASE CheckEnabled(t)
  <2>1. TypeOK'
    BY <1>2 DEF CheckEnabled, TypeOK, postVars, clearVars, baseVars, loopVars
  <2> QED BY <1>1, <2>1, ClearUntouched
<1>3. CASE Activate(t)
  <2>1. target[t] \in SchedulableCallbacks \cup {loopexit_cb} \cup Fds
    BY DEF TypeOK
  <2>2. active' \in Seq(SchedulableCallbacks \cup {loopexit_cb} \cup Fds)
    BY <1>3, <2>1 DEF Activate, event_active, TypeOK
  <2>3. TypeOK'
    BY <1>3, <2>2 DEF Activate, TypeOK, postVars, clearVars, loopVars
  <2> QED BY <1>1, <2>3, ClearUntouched
<1> QED BY <1>2, <1>3 DEF Scheduling

(* The calls any thread may make.                                          *)
LEMMA CallsSafe ==
    ASSUME Safe, NEW t \in Threads, exit(t) \/ \E c \in Callbacks : post(t, c)
    PROVE  Safe'
<1> USE DEF Safe
<1>1. UNCHANGED clearVars /\ BodyHasCallback'
  BY DEF exit, post, BodyHasCallback, postVars
<1>2. CASE exit(t)
  <2>1. active' \in Seq(SchedulableCallbacks \cup {loopexit_cb} \cup Fds)
    BY <1>2 DEF exit, event_base_loopexit, TypeOK
  <2>2. exits' \in 0..MaxExits
    BY <1>2, DispatcherAssumption DEF exit, TypeOK
  <2>3. TypeOK'
    BY <1>2, <2>1, <2>2 DEF exit, TypeOK, postVars, clearVars, schedVars, loopVars
  <2> QED BY <1>1, <2>3, ClearUntouched
<1>3. CASE \E c \in Callbacks : post(t, c)
  <2>1. PICK c \in Callbacks : post(t, c)
    BY <1>3
  <2>2. step' \in [Threads -> {"idle", "enabled", "event_active"}]
        /\ target' \in [Threads -> SchedulableCallbacks]
    BY <2>1 DEF post, Schedule, schedVars, TypeOK, SchedulableCallbacks
  <2>3. TypeOK'
    BY <2>1, <2>2 DEF post, TypeOK, clearVars, baseVars, loopVars
  <2> QED BY <1>1, <2>3, ClearUntouched
<1> QED BY <1>2, <1>3

(* run() and the steps of runPostCallbacks.                                *)
LEMMA RunPostsSafe ==
    ASSUME Safe,
           run \/ TakePosts \/ RunFront \/ PopFront \/ CallbackDestroyed \/ PostsDone
    PROVE  Safe'
<1> USE DEF Safe
<1>1. UNCHANGED clearVars /\ BodyHasCallback'
  BY DEF run, TakePosts, RunFront, PopFront, CallbackDestroyed, PostsDone, BodyHasCallback
<1>2. TypeOK'
  <2>1. CASE run
    BY <2>1, DispatcherAssumption DEF run, TypeOK, clearVars, schedVars, baseVars
  <2>2. CASE TakePosts
    BY <2>2 DEF TakePosts, TypeOK, clearVars, schedVars, baseVars, loopVars
  <2>3. CASE RunFront
    BY <2>3 DEF RunFront, TypeOK, clearVars, schedVars, baseVars, loopVars
  <2>4. CASE PopFront
    <3>1. Tail(callbacks) \in Seq(Callbacks)
      BY <2>4 DEF PopFront, BodyHasCallback, TypeOK
    <3> QED BY <2>4, <3>1 DEF PopFront, TypeOK, clearVars, schedVars, baseVars, loopVars
  <2>5. CASE CallbackDestroyed
    BY <2>5 DEF CallbackDestroyed, TypeOK, clearVars, schedVars, baseVars, loopVars
  <2>6. CASE PostsDone
    BY <2>6 DEF PostsDone, TypeOK, clearVars, schedVars
  <2> QED BY <2>1, <2>2, <2>3, <2>4, <2>5, <2>6
<1> QED BY <1>1, <1>2, ClearUntouched

(* The file events, the top of the loop and the work list.                 *)
LEMMA LoopSafe ==
    ASSUME Safe,
           \/ LoopTop \/ \E ready \in Seq(Fds) : Poll(ready)
           \/ ProcessPostCb \/ ProcessLoopExit \/ ProcessFd \/ FdReturns \/ EndIteration
    PROVE  Safe'
<1> USE DEF Safe
<1>1. UNCHANGED clearVars /\ BodyHasCallback'
  BY DEF LoopTop, Poll, ProcessPostCb, ProcessLoopExit, ProcessFd, FdReturns, EndIteration,
         BodyHasCallback, postVars
<1> DEFINE Events == SchedulableCallbacks \cup {loopexit_cb} \cup Fds
<1>2. ASSUME NEW e, event_process(e) PROVE active' \in Seq(Events)
  BY <1>2 DEF event_process, TypeOK
<1>3. TypeOK'
  <2>1. CASE LoopTop
    BY <2>1 DEF LoopTop, TypeOK, postVars, clearVars, schedVars, baseVars
  <2>2. CASE \E ready \in Seq(Fds) : Poll(ready)
    <3>1. PICK ready \in Seq(Fds) : Poll(ready)
      BY <2>2
    <3>2. ready \in Seq(Events) /\ active \in Seq(Events)
      BY DEF TypeOK
    <3>3. active \o ready \in Seq(Events)
      BY <3>2
    <3> QED BY <3>1, <3>3 DEF Poll, TypeOK, postVars, clearVars, schedVars
  <2>3. CASE ProcessPostCb
    <3>1. active' \in Seq(Events)
      BY <1>2, <2>3 DEF ProcessPostCb
    <3> QED BY <2>3, <3>1 DEF ProcessPostCb, TypeOK, clearVars, schedVars, loopVars
  <2>4. CASE ProcessLoopExit
    <3>1. active' \in Seq(Events)
      BY <1>2, <2>4 DEF ProcessLoopExit
    <3> QED BY <2>4, <3>1 DEF ProcessLoopExit, TypeOK, postVars, clearVars, schedVars, loopVars
  <2>5. CASE ProcessFd
    <3>1. active' \in Seq(Events)
      BY <1>2, <2>5 DEF ProcessFd
    <3> QED BY <2>5, <3>1 DEF ProcessFd, TypeOK, postVars, clearVars, schedVars
  <2>6. CASE FdReturns
    BY <2>6 DEF FdReturns, TypeOK, postVars, clearVars, schedVars, baseVars
  <2>7. CASE EndIteration
    BY <2>7 DEF EndIteration, TypeOK, postVars, clearVars, schedVars, baseVars
  <2> QED BY <2>1, <2>2, <2>3, <2>4, <2>5, <2>6, <2>7
<1> QED BY <1>1, <1>3, ClearUntouched

(* clearDeferredDeleteList is entered from the loop or by user code.       *)
LEMMA EnterClearSafe ==
    ASSUME Safe, ProcessDeferredDeleteCb \/ clearDeferredDeleteList
    PROVE  Safe'
<1>1. BeginClear /\ UNCHANGED <<postVars, schedVars, gotterm, loopVars, exits>>
  BY DEF ProcessDeferredDeleteCb, clearDeferredDeleteList, baseVars
<1>2. active' \in Seq(SchedulableCallbacks \cup {loopexit_cb} \cup Fds)
  <2>1. CASE ProcessDeferredDeleteCb
    BY <2>1 DEF ProcessDeferredDeleteCb, event_process, Safe, TypeOK
  <2>2. CASE clearDeferredDeleteList
    BY <2>2 DEF clearDeferredDeleteList, baseVars, Safe, TypeOK
  <2> QED BY <2>1, <2>2
<1>3. TypeOK'
  BY <1>1, <1>2, BeginClearSafe DEF Safe, TypeOK, postVars, schedVars, loopVars
<1>4. BodyHasCallback'
  BY <1>1 DEF Safe, BodyHasCallback, postVars
<1> QED BY <1>1, <1>3, <1>4, BeginClearSafe DEF Safe

(* Every step keeps Safe.                                                  *)
LEMMA NextSafe == Safe /\ [Next]_vars => Safe'
<1> SUFFICES ASSUME Safe, [Next]_vars PROVE Safe'
  OBVIOUS
<1>1. ASSUME NEW t \in Threads, Scheduling(t) \/ exit(t) \/ \E c \in Callbacks : post(t, c)
      PROVE  Safe'
  BY <1>1, SchedulingSafe, CallsSafe
<1>2. ASSUME NEW o \in Objects, deferredDelete(o) PROVE Safe'
  BY <1>2, DeferredDeleteSafe
<1>3. CASE clearDeferredDeleteList \/ ProcessDeferredDeleteCb
  BY <1>3, EnterClearSafe
<1>4. CASE run \/ TakePosts \/ RunFront \/ PopFront \/ CallbackDestroyed \/ PostsDone
  BY <1>4, RunPostsSafe
<1>5. CASE ResetNext \/ ObjectDestroyed \/ EndClear
  BY <1>5, ResetNextSafe, ObjectDestroyedSafe, EndClearSafe
<1>6. ASSUME \/ LoopTop \/ Poll(<<>>) \/ \E ready \in ReadyLists \ {<<>>} : Poll(ready)
             \/ ProcessPostCb \/ ProcessLoopExit \/ ProcessFd \/ FdReturns \/ EndIteration
      PROVE  Safe'
  <2>1. <<>> \in Seq(Fds) /\ ReadyLists \subseteq Seq(Fds)
    BY ReadyListsType
  <2> QED BY <1>6, <2>1, LoopSafe
<1>7. CASE UNCHANGED vars
  BY <1>7, ClearUntouched DEF vars, postVars, clearVars, schedVars, baseVars, loopVars, Safe,
                              TypeOK, BodyHasCallback
<1> QED BY <1>1, <1>2, <1>3, <1>4, <1>5, <1>6, <1>7 DEF Next, LoopProgress

(* Every variable of the dispatcher keeps its type.                        *)
THEOREM TypeCorrect == Spec => []TypeOK
<1>1. Safe => TypeOK
  BY DEF Safe
<1> QED BY InitSafe, NextSafe, <1>1, PTL DEF Spec

(* clearDeferredDeleteList: the vector being cleared is frozen however its *)
(* destructors call back into the dispatcher.                              *)
THEOREM ClearIsSafe == Spec => []ClearedVectorFrozen
<1>1. Safe => ClearedVectorFrozen
  BY DEF Safe, ClearDiscipline
<1> QED BY InitSafe, NextSafe, <1>1, PTL DEF Spec

(* deferred_deleting_ and current_to_delete_ say whether a clear is in     *)
(* progress and which vector is free, however the calls are nested.        *)
THEOREM ClearsFollowDiscipline == Spec => []ClearDiscipline
<1>1. Safe => ClearDiscipline
  BY DEF Safe
<1> QED BY InitSafe, NextSafe, <1>1, PTL DEF Spec

--------------------------------------------------------------------------------
(* A schedulable callback that is active, or about to be made active, is   *)
(* so until the loop takes it off the active queue.                        *)
Armed(cb) == evtimer_pending(cb) \/ BeingScheduled(cb)

LEMMA SchedulingKeepsArmed ==
    ASSUME TypeOK, NEW cb, Armed(cb), NEW t \in Threads, Scheduling(t)
    PROVE  Armed(cb)'
<1>1. CASE CheckEnabled(t)
  <2>1. active' = active /\ target' = target
        /\ step' = [step EXCEPT ![t] = IF evtimer_pending(target[t]) THEN "idle" ELSE "event_active"]
    BY <1>1 DEF CheckEnabled, baseVars
  <2>2. CASE evtimer_pending(cb)
    BY <2>1, <2>2 DEF Armed, evtimer_pending
  <2>3. CASE ~evtimer_pending(cb) /\ BeingScheduled(cb)
    <3>1. PICK u \in Threads : step[u] # "idle" /\ target[u] = cb
      BY <2>3 DEF BeingScheduled
    <3>2. step'[u] # "idle" /\ target'[u] = cb
      BY <2>1, <2>3, <3>1 DEF TypeOK
    <3> QED BY <3>2 DEF Armed, BeingScheduled
  <2> QED BY <2>2, <2>3 DEF Armed
<1>2. CASE Activate(t)
  <2>1. target' = target /\ step' = [step EXCEPT ![t] = "idle"]
        /\ active' = IF target[t] \in Range(active) THEN active ELSE Append(active, target[t])
    BY <1>2 DEF Activate, event_active
  <2>2. Range(active') = Range(active) \cup {target[t]}
    BY <2>1, RangeAppend DEF TypeOK
  <2>3. CASE evtimer_pending(cb) \/ target[t] = cb
    BY <2>2, <2>3 DEF Armed, evtimer_pending
  <2>4. CASE BeingScheduled(cb) /\ target[t] # cb
    <3>1. PICK u \in Threads : step[u] # "idle" /\ target[u] = cb
      BY <2>4 DEF BeingScheduled
    <3>2. step'[u] # "idle" /\ target'[u] = cb
      BY <2>1, <2>4, <3>1 DEF TypeOK
    <3> QED BY <3>2 DEF Armed, BeingScheduled
  <2> QED BY <2>3, <2>4 DEF Armed
<1> QED BY <1>1, <1>2 DEF Scheduling

(* A thread that enters scheduleCallbackCurrentIteration was in none.      *)
LEMMA ScheduleKeepsArmed ==
    ASSUME TypeOK, NEW cb, NEW t \in Threads, step[t] = "idle",
           Armed(cb), (\E c : Schedule(t, c)) \/ UNCHANGED schedVars, active' = active
    PROVE  Armed(cb)'
<1>1. CASE evtimer_pending(cb)
  BY <1>1 DEF Armed, evtimer_pending
<1>2. CASE BeingScheduled(cb)
  <2>1. PICK u \in Threads : step[u] # "idle" /\ target[u] = cb
    BY <1>2 DEF BeingScheduled
  <2>2. step'[u] # "idle" /\ target'[u] = cb
    BY <2>1 DEF Schedule, schedVars, TypeOK
  <2> QED BY <2>2 DEF Armed, BeingScheduled
<1> QED BY <1>1, <1>2 DEF Armed

LEMMA ScheduleArms ==
    ASSUME TypeOK, NEW cb, NEW t \in Threads, Schedule(t, cb)
    PROVE  BeingScheduled(cb)'
<1>1. step'[t] # "idle" /\ target'[t] = cb
  BY DEF Schedule, TypeOK
<1> QED BY <1>1 DEF BeingScheduled

(* Nothing but its own turn disarms a callback.                            *)
LEMMA ArmedKept ==
    ASSUME TypeOK, NEW cb, Armed(cb), [Next]_vars, ~event_process(cb)
    PROVE  Armed(cb)'
<1>1. ASSUME UNCHANGED schedVars, Range(active) \subseteq Range(active') PROVE Armed(cb)'
  BY <1>1 DEF Armed, evtimer_pending, BeingScheduled, schedVars
<1>2. ASSUME UNCHANGED schedVars, NEW e, event_process(e) PROVE Armed(cb)'
  <2>1. e # cb
    BY <1>2
  <2>2. ASSUME evtimer_pending(cb) PROVE evtimer_pending(cb)'
    BY <1>2, <2>1, <2>2, RangeTail DEF event_process, evtimer_pending, TypeOK
  <2> QED BY <1>2, <2>2 DEF Armed, BeingScheduled, schedVars
<1>3. ASSUME NEW t \in Threads, Scheduling(t) \/ exit(t) \/ \E c \in Callbacks : post(t, c)
      PROVE  Armed(cb)'
  <2>1. CASE Scheduling(t)
    BY <2>1, SchedulingKeepsArmed
  <2>2. CASE exit(t)
    <3>1. Range(active') = Range(active) \cup {loopexit_cb}
      BY <2>2, RangeAppend DEF exit, event_base_loopexit, TypeOK
    <3> QED BY <1>1, <2>2, <3>1 DEF exit
  <2>3. CASE \E c \in Callbacks : post(t, c)
    <3>1. step[t] = "idle" /\ active' = active /\ (Schedule(t, post_cb_) \/ UNCHANGED schedVars)
      BY <2>3 DEF post, MayCall, baseVars
    <3> QED BY <3>1, ScheduleKeepsArmed
  <2> QED BY <1>3, <2>1, <2>2, <2>3
<1>4. ASSUME NEW o \in Objects, deferredDelete(o) PROVE Armed(cb)'
  <2>1. /\ Loop \in Threads /\ step[Loop] = "idle" /\ active' = active
        /\ Schedule(Loop, deferred_delete_cb_) \/ UNCHANGED schedVars
    BY <1>4 DEF deferredDelete, MayCall, baseVars, Threads
  <2> QED BY <2>1, ScheduleKeepsArmed
<1>5. CASE ProcessPostCb \/ ProcessDeferredDeleteCb \/ ProcessLoopExit \/ ProcessFd
  BY <1>2, <1>5 DEF ProcessPostCb, ProcessDeferredDeleteCb, ProcessLoopExit, ProcessFd
<1>6. ASSUME NEW ready \in Seq(Fds), Poll(ready) PROVE Armed(cb)'
  <2>1. /\ ready \in Seq(SchedulableCallbacks \cup {loopexit_cb} \cup Fds)
        /\ active \in Seq(SchedulableCallbacks \cup {loopexit_cb} \cup Fds)
    BY DEF TypeOK
  <2>2. Range(active) \subseteq Range(active')
    BY <1>6, <2>1, RangeConcat DEF Poll
  <2> QED BY <1>1, <1>6, <2>2 DEF Poll
<1>7. CASE \/ clearDeferredDeleteList
           \/ run \/ TakePosts \/ RunFront \/ PopFront \/ CallbackDestroyed \/ PostsDone
           \/ ResetNext \/ ObjectDestroyed \/ EndClear
           \/ LoopTop \/ FdReturns \/ EndIteration
           \/ UNCHANGED vars
  <2>1. UNCHANGED <<schedVars, active>>
    BY <1>7 DEF clearDeferredDeleteList, run, TakePosts, RunFront, PopFront, CallbackDestroyed,
                PostsDone, ResetNext, ObjectDestroyed, EndClear, LoopTop, FdReturns,
                EndIteration, baseVars, vars
  <2> QED BY <1>1, <2>1
<1>8. <<>> \in Seq(Fds) /\ ReadyLists \subseteq Seq(Fds)
  BY ReadyListsType
<1> QED BY <1>3, <1>4, <1>5, <1>6, <1>7, <1>8 DEF Next, LoopProgress

(* The argument for post(): the thread that finds the list empty schedules *)
(* post_cb_; a thread that finds it non-empty may rely on that; and the    *)
(* turn of post_cb_ leads straight to taking the list.                     *)
LEMMA PostArmedStep == TypeOK /\ PostArmed /\ [Next]_vars => PostArmed'
<1> SUFFICES ASSUME TypeOK, PostArmed, [Next]_vars, post_callbacks_' # <<>>
             PROVE  Armed(post_cb_)' \/ posting' = "take"
  BY DEF PostArmed, Armed
<1>1. ASSUME post_callbacks_ # <<>>, ~event_process(post_cb_), posting' = posting
      PROVE  Armed(post_cb_)' \/ posting' = "take"
  BY <1>1, ArmedKept DEF PostArmed, Armed
<1>2. ASSUME NEW t \in Threads, NEW c \in Callbacks, post(t, c)
      PROVE  Armed(post_cb_)' \/ posting' = "take"
  <2>1. CASE post_callbacks_ = <<>>
    BY <1>2, <2>1, ScheduleArms DEF post, Armed
  <2>2. CASE post_callbacks_ # <<>>
    <3>1. UNCHANGED schedVars /\ step[t] = "idle" /\ active' = active /\ posting' = posting
      BY <1>2, <2>2 DEF post, MayCall, baseVars
    <3> QED BY <2>2, <3>1, ScheduleKeepsArmed DEF PostArmed, Armed
  <2> QED BY <2>1, <2>2
<1>3. CASE ProcessPostCb \/ run
  BY <1>3 DEF ProcessPostCb, run
<1>4. CASE TakePosts
  BY <1>4 DEF TakePosts
<1>5. CASE \E t \in Threads : Scheduling(t) \/ exit(t)
  <2>1. PICK t \in Threads : Scheduling(t) \/ exit(t)
    BY <1>5
  <2>2. UNCHANGED <<post_callbacks_, posting>>
    BY <2>1 DEF Scheduling, CheckEnabled, Activate, exit, postVars
  <2>3. ~(active # <<>> /\ Len(active') = Len(active) - 1)
    BY <2>1 DEF Scheduling, CheckEnabled, Activate, event_active, exit, event_base_loopexit,
                baseVars, TypeOK
  <2>4. ~event_process(post_cb_)
    BY <2>3 DEF event_process, TypeOK
  <2> QED BY <1>1, <2>2, <2>4
<1>6. CASE \/ \E o \in Objects : deferredDelete(o)
           \/ clearDeferredDeleteList
           \/ RunFront \/ PopFront \/ CallbackDestroyed \/ PostsDone
           \/ ResetNext \/ ObjectDestroyed \/ EndClear \/ LoopTop \/ FdReturns \/ EndIteration
           \/ UNCHANGED vars
  <2>1. UNCHANGED <<post_callbacks_, active>>
    BY <1>6 DEF deferredDelete, clearDeferredDeleteList, RunFront, PopFront, CallbackDestroyed,
                PostsDone, ResetNext, ObjectDestroyed, EndClear, LoopTop, FdReturns,
                EndIteration, postVars, baseVars, vars
  <2>2. posting = "take" => posting' = "take"
    BY <1>6 DEF deferredDelete, clearDeferredDeleteList, RunFront, PopFront, CallbackDestroyed,
                PostsDone, ResetNext, ObjectDestroyed, EndClear, LoopTop, FdReturns,
                EndIteration, postVars, vars
  <2>3. ~event_process(post_cb_)
    BY <2>1 DEF event_process, TypeOK
  <2> QED BY <2>1, <2>2, <2>3, ArmedKept DEF PostArmed, Armed
<1>7. CASE ProcessDeferredDeleteCb \/ ProcessLoopExit \/ ProcessFd
  <2>1. UNCHANGED <<post_callbacks_, posting>>
    BY <1>7 DEF ProcessDeferredDeleteCb, ProcessLoopExit, ProcessFd, postVars
  <2>2. Head(active) # post_cb_
    BY <1>7, DispatcherAssumption
       DEF ProcessDeferredDeleteCb, ProcessLoopExit, ProcessFd, event_process,
           post_cb_, deferred_delete_cb_, loopexit_cb
  <2> QED BY <1>1, <2>1, <2>2 DEF event_process
<1>8. ASSUME NEW ready \in Seq(Fds), Poll(ready)
      PROVE  Armed(post_cb_)' \/ posting' = "take"
  <2>1. UNCHANGED <<post_callbacks_, posting>> /\ active' = active \o ready
    BY <1>8 DEF Poll, postVars
  <2>2. Len(active') >= Len(active)
    BY <2>1 DEF TypeOK
  <2>3. ~event_process(post_cb_)
    BY <2>2 DEF event_process, TypeOK
  <2> QED BY <1>1, <2>1, <2>3
<1>9. <<>> \in Seq(Fds) /\ ReadyLists \subseteq Seq(Fds)
  BY ReadyListsType
<1> QED BY <1>2, <1>3, <1>4, <1>5, <1>6, <1>7, <1>8, <1>9 DEF Next, LoopProgress

(* Dispatcher::post: no callback in the list is ever stranded.             *)
THEOREM PostNeverStranded == Spec => []PostArmed
<1>1. Init => PostArmed
  BY DEF Init, PostArmed
<1>2. Safe => TypeOK
  BY DEF Safe
<1> QED BY InitSafe, NextSafe, PostArmedStep, <1>1, <1>2, PTL DEF Spec

(* The argument for deferredDelete(): the vector that becomes current is   *)
(* empty, so its first object always schedules deferred_delete_cb_.        *)
LEMMA DeleteArmedStep == Safe /\ DeleteArmed /\ [Next]_vars => DeleteArmed'
<1> SUFFICES ASSUME Safe, DeleteArmed, [Next]_vars,
                    to_delete'[current_to_delete_'] # <<>>
             PROVE  Armed(deferred_delete_cb_)'
  BY DEF DeleteArmed, Armed
<1> USE DEF Safe
<1>1. ASSUME to_delete[current_to_delete_] # <<>>, ~event_process(deferred_delete_cb_)
      PROVE  Armed(deferred_delete_cb_)'
  BY <1>1, ArmedKept DEF DeleteArmed, Armed
<1>2. ASSUME NEW o \in Objects, deferredDelete(o)
      PROVE  Armed(deferred_delete_cb_)'
  <2> DEFINE s == to_delete[current_to_delete_]
  <2>1. /\ s \in Seq(Objects \cup {NullPtr})
        /\ to_delete'[current_to_delete_] = Append(s, o)
    BY <1>2 DEF deferredDelete, TypeOK
  <2>2. CASE s = <<>>
    <3>1. Len(to_delete'[current_to_delete_]) = 1
      BY <2>1, <2>2
    <3>2. Schedule(Loop, deferred_delete_cb_) /\ Loop \in Threads
      BY <1>2, <3>1 DEF deferredDelete, Threads
    <3> QED BY <3>2, ScheduleArms DEF Armed
  <2>3. CASE s # <<>>
    <3>1. active' = active
      BY <1>2 DEF deferredDelete, baseVars
    <3>2. ~event_process(deferred_delete_cb_)
      BY <3>1 DEF event_process, TypeOK
    <3> QED BY <1>1, <2>3, <3>2
  <2> QED BY <2>2, <2>3
<1>3. ASSUME BeginClear PROVE to_delete'[current_to_delete_'] = <<>> \/ UNCHANGED clearVars
  BY <1>3 DEF BeginClear, ClearDiscipline
<1>4. CASE clearDeferredDeleteList
  <2>1. UNCHANGED clearVars /\ active' = active
    BY <1>3, <1>4 DEF clearDeferredDeleteList, baseVars
  <2>2. ~event_process(deferred_delete_cb_)
    BY <2>1 DEF event_process, TypeOK
  <2> QED BY <1>1, <2>1, <2>2 DEF clearVars
<1>5. CASE ProcessDeferredDeleteCb
  <2>1. BeginClear /\ clearing = <<>>
    BY <1>5 DEF ProcessDeferredDeleteCb, AtBase
  <2>2. ~deferred_deleting_
    BY <2>1 DEF ClearDiscipline
  <2>3. to_delete[current_to_delete_] = <<>> => UNCHANGED clearVars
    BY <2>1 DEF BeginClear
  <2>4. to_delete'[current_to_delete_'] = <<>>
    BY <2>1, <2>2, <2>3 DEF BeginClear, ClearDiscipline, clearVars
  <2> QED BY <2>4
<1>6. CASE ResetNext \/ ObjectDestroyed \/ EndClear
  <2>1. clearing # <<>> /\ active' = active /\ current_to_delete_' = current_to_delete_
    BY <1>6 DEF ResetNext, ObjectDestroyed, EndClear, baseVars
  <2>2. Innermost.vec = 3 - current_to_delete_ /\ Innermost.vec # current_to_delete_
    BY <2>1, OneClear DEF TypeOK
  <2>3. to_delete'[current_to_delete_] = to_delete[current_to_delete_]
    BY <1>6, <2>2 DEF ResetNext, ObjectDestroyed, EndClear, TypeOK
  <2>4. ~event_process(deferred_delete_cb_)
    BY <2>1 DEF event_process, TypeOK
  <2> QED BY <1>1, <2>1, <2>3, <2>4
<1>7. CASE \/ \E t \in Threads : Scheduling(t) \/ exit(t) \/ \E c \in Callbacks : post(t, c)
           \/ run \/ TakePosts \/ RunFront \/ PopFront \/ CallbackDestroyed \/ PostsDone
           \/ LoopTop \/ FdReturns \/ EndIteration
           \/ UNCHANGED vars
  <2>1. UNCHANGED clearVars
    BY <1>7 DEF Scheduling, CheckEnabled, Activate, exit, post, run, TakePosts, RunFront, PopFront,
                CallbackDestroyed, PostsDone, LoopTop, FdReturns, EndIteration, vars
  <2>2. ~(active # <<>> /\ Len(active') = Len(active) - 1)
    BY <1>7 DEF Scheduling, CheckEnabled, Activate, event_active, exit, event_base_loopexit, post,
                run, TakePosts, RunFront, PopFront, CallbackDestroyed, PostsDone, LoopTop,
                FdReturns, EndIteration, baseVars, vars, TypeOK
  <2>3. ~event_process(deferred_delete_cb_)
    BY <2>2 DEF event_process, TypeOK
  <2> QED BY <1>1, <2>1, <2>3 DEF clearVars
<1>8. CASE ProcessPostCb \/ ProcessLoopExit \/ ProcessFd
  <2>1. UNCHANGED clearVars
    BY <1>8 DEF ProcessPostCb, ProcessLoopExit, ProcessFd
  <2>2. Head(active) # deferred_delete_cb_
    BY <1>8, DispatcherAssumption
       DEF ProcessPostCb, ProcessLoopExit, ProcessFd, event_process,
           post_cb_, deferred_delete_cb_, loopexit_cb
  <2> QED BY <1>1, <2>1, <2>2 DEF event_process, clearVars
<1>9. ASSUME NEW ready \in Seq(Fds), Poll(ready) PROVE Armed(deferred_delete_cb_)'
  <2>1. UNCHANGED clearVars /\ active' = active \o ready
    BY <1>9 DEF Poll
  <2>2. Len(active') >= Len(active)
    BY <2>1 DEF TypeOK
  <2>3. ~event_process(deferred_delete_cb_)
    BY <2>2 DEF event_process, TypeOK
  <2> QED BY <1>1, <2>1, <2>3 DEF clearVars
<1>10. <<>> \in Seq(Fds) /\ ReadyLists \subseteq Seq(Fds)
  BY ReadyListsType
<1> QED BY <1>2, <1>4, <1>5, <1>6, <1>7, <1>8, <1>9, <1>10 DEF Next, LoopProgress

(* Dispatcher::deferredDelete: no object in the current vector is ever     *)
(* forgotten.                                                              *)
THEOREM DeleteNeverForgotten == Spec => []DeleteArmed
<1>1. Init => DeleteArmed
  BY DEF Init, DeleteArmed
<1> QED BY InitSafe, NextSafe, DeleteArmedStep, <1>1, PTL DEF Spec

--------------------------------------------------------------------------------
(* run(RunUntilExit): each exit() is one event in the active queue, then   *)
(* at most one gotterm that the loop still looks at, then one return; the  *)
(* gotterm a run leaves behind is forgotten by the next.                   *)
InLoop == phase \in {"top", "poll", "process"}

ExitsOwed ==
    RunMode = "RunUntilExit" =>
        returns + Occurrences(active, loopexit_cb) + (IF gotterm /\ InLoop THEN 1 ELSE 0) <= exits

LEMMA ExitsOwedKept ==
    ASSUME TypeOK, ExitsOwed, UNCHANGED <<returns, exits>>,
           Occurrences(active, loopexit_cb)' <= Occurrences(active, loopexit_cb),
           Occurrences(active, loopexit_cb)' \in Nat,
           gotterm' /\ InLoop' => gotterm /\ InLoop
    PROVE  ExitsOwed'
<1>1. Occurrences(active, loopexit_cb) \in Nat
  BY OccurrencesType DEF TypeOK
<1> QED BY <1>1 DEF ExitsOwed, TypeOK

LEMMA ExitsOwedStep == TypeOK /\ ExitsOwed /\ [Next]_vars => ExitsOwed'
<1> SUFFICES ASSUME TypeOK, ExitsOwed, [Next]_vars PROVE ExitsOwed'
  OBVIOUS
<1> DEFINE Events == SchedulableCallbacks \cup {loopexit_cb} \cup Fds
           count == Occurrences(active, loopexit_cb)
<1>1. active \in Seq(Events) /\ returns \in Nat /\ exits \in Nat /\ count \in Nat
  BY OccurrencesType DEF TypeOK
<1>2. post_cb_ # loopexit_cb /\ deferred_delete_cb_ # loopexit_cb /\ loopexit_cb \notin Fds
      /\ loopexit_cb \in Events
  BY DispatcherAssumption DEF post_cb_, deferred_delete_cb_, loopexit_cb
<1> HIDE DEF Events
<1>3. CASE UNCHANGED <<active, returns, exits>> /\ (gotterm' /\ InLoop' => gotterm /\ InLoop)
  BY <1>1, <1>3, ExitsOwedKept
<1>4. ASSUME NEW t \in Threads, exit(t) PROVE ExitsOwed'
  <2>1. exits' = exits + 1 /\ active' = Append(active, loopexit_cb) /\ UNCHANGED <<returns, gotterm, phase>>
    BY <1>4 DEF exit, event_base_loopexit, loopVars
  <2>2. count' = count + 1
    BY <1>1, <1>2, <2>1, OccurrencesAppend
  <2> HIDE DEF count
  <2> QED BY <1>1, <2>1, <2>2 DEF ExitsOwed, InLoop, count
<1>5. ASSUME NEW t \in Threads, Scheduling(t) PROVE ExitsOwed'
  <2>1. UNCHANGED <<returns, exits, gotterm, phase>>
    BY <1>5 DEF Scheduling, CheckEnabled, Activate, baseVars, loopVars
  <2>2. count' = count
    <3>1. target[t] # loopexit_cb /\ target[t] \in Events
      BY <1>2 DEF TypeOK, SchedulableCallbacks, Events
    <3>2. active' = active \/ active' = Append(active, target[t])
      BY <1>5 DEF Scheduling, CheckEnabled, Activate, event_active, baseVars
    <3>3. Occurrences(Append(active, target[t]), loopexit_cb) = count
      BY <1>1, <3>1, OccurrencesAppend
    <3> QED BY <3>2, <3>3
  <2> QED BY <1>1, <2>1, <2>2, ExitsOwedKept DEF InLoop
<1>6. ASSUME NEW e, event_process(e), UNCHANGED <<returns, exits, phase>>,
             e = loopexit_cb \/ UNCHANGED gotterm
      PROVE  ExitsOwed'
  <2>1. active # <<>> /\ Head(active) = e /\ active' = Tail(active) /\ active' \in Seq(Events)
    BY <1>1, <1>6 DEF event_process
  <2>2. count' <= count - IF e = loopexit_cb THEN 1 ELSE 0
    BY <1>1, <2>1, OccurrencesTail
  <2>3. count' \in Nat
    BY <2>1, OccurrencesType
  <2> HIDE DEF count
  <2>4. CASE e = loopexit_cb
    BY <1>1, <1>6, <2>2, <2>3, <2>4 DEF ExitsOwed, InLoop, count
  <2>5. CASE e # loopexit_cb
    <3>1. gotterm' = gotterm
      BY <1>6, <2>5
    <3>2. count' <= count
      BY <1>1, <2>2, <2>3, <2>5
    <3> QED BY <1>6, <2>3, <3>1, <3>2, ExitsOwedKept DEF InLoop, count
  <2> QED BY <2>4, <2>5
<1>7. ProcessPostCb \/ ProcessDeferredDeleteCb \/ ProcessFd => ExitsOwed'
  <2>1. ASSUME ProcessPostCb \/ ProcessDeferredDeleteCb \/ ProcessFd
        PROVE  UNCHANGED <<returns, exits, phase, gotterm>> /\ \E e : event_process(e)
    BY <2>1 DEF ProcessPostCb, ProcessDeferredDeleteCb, ProcessFd, loopVars
  <2> QED BY <1>6, <2>1
<1>8. ProcessLoopExit => ExitsOwed'
  BY <1>6 DEF ProcessLoopExit, loopVars
<1>9. CASE LoopTop
  <2>1. CASE gotterm
    <3>1. phase = "top" /\ phase' = "done" /\ returns' = returns + 1 /\ UNCHANGED <<exits, active>>
      BY <1>9, <2>1 DEF LoopTop, baseVars
    <3>2. count' = count
      BY <3>1
    <3> HIDE DEF count
    <3> QED BY <1>1, <2>1, <3>1, <3>2 DEF ExitsOwed, InLoop, count
  <2>2. CASE ~gotterm /\ RunMode = "RunUntilExit"
    <3>1. "EVLOOP_NO_EXIT_ON_EMPTY" \in flag
      BY <2>2 DEF flag
    <3> QED BY <1>3, <1>9, <2>2, <3>1 DEF LoopTop, baseVars
  <2>3. CASE RunMode # "RunUntilExit"
    BY <2>3 DEF ExitsOwed
  <2> QED BY <2>1, <2>2, <2>3
<1>10. ASSUME NEW ready \in Seq(Fds), Poll(ready) PROVE ExitsOwed'
  <2>1. active' = active \o ready /\ UNCHANGED <<returns, exits, gotterm>> /\ phase = "poll"
    BY <1>10 DEF Poll
  <2>2. ready \in Seq(Events) /\ loopexit_cb \notin Range(ready)
    BY <1>2 DEF Events, Range
  <2>3. count' = count
    BY <1>1, <2>1, <2>2, OccurrencesConcat
  <2> QED BY <1>1, <2>1, <2>3, ExitsOwedKept DEF InLoop
<1>11. CASE PostsDone
  <2>1. UNCHANGED <<active, returns, exits>> /\ (gotterm' /\ InLoop' => gotterm /\ InLoop)
    BY <1>11 DEF PostsDone, InLoop
  <2> QED BY <1>3, <2>1
<1>12. CASE run
  <2>1. UNCHANGED <<active, returns, exits>> /\ ~InLoop'
    BY <1>12 DEF run, baseVars, InLoop
  <2> QED BY <1>3, <2>1
<1>13. CASE EndIteration
  BY <1>3, <1>13 DEF EndIteration, baseVars, InLoop
<1>14. CASE \/ \E t \in Threads, c \in Callbacks : post(t, c)
            \/ \E o \in Objects : deferredDelete(o)
            \/ clearDeferredDeleteList
            \/ TakePosts \/ RunFront \/ PopFront \/ CallbackDestroyed
            \/ ResetNext \/ ObjectDestroyed \/ EndClear \/ FdReturns \/ UNCHANGED vars
  <2>1. UNCHANGED <<active, gotterm, phase, returns, exits>>
    BY <1>14 DEF post, deferredDelete, clearDeferredDeleteList, TakePosts, RunFront, PopFront, CallbackDestroyed,
                 ResetNext, ObjectDestroyed, EndClear, FdReturns, baseVars, loopVars, vars
  <2> QED BY <1>3, <2>1 DEF InLoop
<1>15. <<>> \in Seq(Fds) /\ ReadyLists \subseteq Seq(Fds)
  BY ReadyListsType
<1> QED BY <1>4, <1>5, <1>7, <1>8, <1>9, <1>10, <1>11, <1>12, <1>13, <1>14, <1>15 DEF Next, LoopProgress

(* A run(RunUntilExit) returns only for an exit() that no other return has *)
(* used up, whatever was called from where and in which state of the loop. *)
THEOREM NoUnpaidReturn == Spec => []ReturnsPaidByExits
<1>1. Init => ExitsOwed
  BY OccurrencesEmpty DEF Init, EventBaseInit, ExitsOwed, InLoop
<1>2. TypeOK /\ ExitsOwed => ReturnsPaidByExits
  <2> SUFFICES ASSUME TypeOK, ExitsOwed, RunMode = "RunUntilExit" PROVE returns <= exits
    BY DEF ReturnsPaidByExits
  <2>1. Occurrences(active, loopexit_cb) \in Nat
    BY OccurrencesType DEF TypeOK
  <2> QED BY <2>1 DEF ExitsOwed, TypeOK
<1>3. Safe => TypeOK
  BY DEF Safe
<1> QED BY InitSafe, NextSafe, ExitsOwedStep, <1>1, <1>2, <1>3, PTL DEF Spec

--------------------------------------------------------------------------------
(* Where the loop thread is: it schedules only from user code, there is no *)
(* user code at the top of the loop, and only it schedules                 *)
(* deferred_delete_cb_.                                                    *)
Where ==
    /\ step[Loop] # "idle" => InUserCode
    /\ \A t \in Threads : step[t] # "idle" /\ target[t] = deferred_delete_cb_ => t = Loop
    /\ phase \in {"top", "poll"} => AtBase
    /\ phase = "flush" => posting # "none"
    /\ phase \in {"new", "done"} => posting = "none" /\ ~inFd
    /\ inFd => posting = "none"
    /\ posting \in {"take", "run"} => clearing = <<>>

LEMMA WhereStep == TypeOK /\ Where /\ [Next]_vars => Where'
<1> SUFFICES ASSUME TypeOK, Where, [Next]_vars PROVE Where'
  OBVIOUS
<1>1. InUserCode /\ clearing = <<>> => posting \in {"body", "dtor"} \/ inFd \/ phase \in {"new", "done"}
  BY DEF InUserCode
<1>2. CASE UNCHANGED <<phase, posting, inFd, clearing, schedVars>>
  BY <1>2 DEF Where, AtBase, InUserCode, Innermost, schedVars
<1>3. ASSUME NEW t \in Threads, NEW cb, cb = deferred_delete_cb_ => t = Loop,
             MayCall(t), Schedule(t, cb), UNCHANGED <<phase, posting, inFd, clearing>>
      PROVE  Where'
  <2>1. \A u \in Threads : u # t => step'[u] = step[u] /\ target'[u] = target[u]
    BY <1>3 DEF Schedule, TypeOK
  <2>2. target'[t] = cb /\ (t = Loop => InUserCode)
    BY <1>3 DEF Schedule, MayCall, TypeOK
  <2>3. InUserCode' <=> InUserCode
    BY <1>3 DEF InUserCode, Innermost
  <2>4. Loop \in Threads
    BY DEF Threads
  <2>5. step'[Loop] # "idle" => InUserCode'
    BY <2>1, <2>2, <2>3, <2>4 DEF Where
  <2>6. \A u \in Threads : step'[u] # "idle" /\ target'[u] = deferred_delete_cb_ => u = Loop
    BY <1>3, <2>1, <2>2 DEF Where
  <2> QED BY <1>3, <2>5, <2>6 DEF Where, AtBase
<1>4. ASSUME NEW t \in Threads, exit(t) \/ \E c \in Callbacks : post(t, c) PROVE Where'
  <2>1. UNCHANGED <<phase, posting, inFd, clearing>>
    BY <1>4 DEF exit, post, postVars, clearVars, loopVars
  <2>2. UNCHANGED schedVars \/ (MayCall(t) /\ Schedule(t, post_cb_))
    BY <1>4 DEF exit, post
  <2>3. post_cb_ # deferred_delete_cb_
    BY DEF post_cb_, deferred_delete_cb_
  <2> QED BY <1>2, <1>3, <2>1, <2>2, <2>3
<1>5. ASSUME NEW o \in Objects, deferredDelete(o) PROVE Where'
  <2>1. UNCHANGED <<phase, posting, inFd, clearing>>
    BY <1>5 DEF deferredDelete, postVars, loopVars
  <2>2. UNCHANGED schedVars \/ (MayCall(Loop) /\ Schedule(Loop, deferred_delete_cb_))
    BY <1>5 DEF deferredDelete
  <2> QED BY <1>2, <1>3, <2>1, <2>2 DEF Threads
<1>6. ASSUME NEW t \in Threads, Scheduling(t) PROVE Where'
  <2>1. UNCHANGED <<phase, posting, inFd, clearing, target>> /\ step[t] # "idle"
        /\ \E s : step' = [step EXCEPT ![t] = s]
    BY <1>6 DEF Scheduling, CheckEnabled, Activate, postVars, clearVars, loopVars
  <2>2. \A u \in Threads : step'[u] # "idle" => step[u] # "idle"
    BY <2>1 DEF TypeOK
  <2>3. Loop \in Threads /\ (InUserCode' <=> InUserCode)
    BY <2>1 DEF Threads, InUserCode, Innermost
  <2>4. step'[Loop] # "idle" => InUserCode'
    BY <2>2, <2>3 DEF Where
  <2>5. \A u \in Threads : step'[u] # "idle" /\ target'[u] = deferred_delete_cb_ => u = Loop
    BY <2>1, <2>2 DEF Where
  <2> QED BY <2>1, <2>4, <2>5 DEF Where, AtBase
<1> DEFINE Laid == /\ phase \in {"top", "poll"} => AtBase
                   /\ phase = "flush" => posting # "none"
                   /\ phase \in {"new", "done"} => posting = "none" /\ ~inFd
                   /\ inFd => posting = "none"
                   /\ posting \in {"take", "run"} => clearing = <<>>
<1>8. ASSUME step[Loop] = "idle", UNCHANGED schedVars, Laid' PROVE Where'
  BY <1>8 DEF Where, schedVars
<1>9. CASE run \/ TakePosts \/ RunFront \/ PopFront \/ CallbackDestroyed \/ PostsDone
  <2>1. step[Loop] = "idle"
    BY <1>1, <1>9 DEF run, TakePosts, RunFront, PopFront, CallbackDestroyed, PostsDone, Where
  <2>2. UNCHANGED <<clearing, schedVars>>
    BY <1>9 DEF run, TakePosts, RunFront, PopFront, CallbackDestroyed, PostsDone, clearVars
  <2>3. Laid'
    BY <1>9, <2>2 DEF run, TakePosts, RunFront, PopFront, CallbackDestroyed, PostsDone, Where, AtBase, loopVars
  <2> QED BY <1>8, <2>1, <2>2, <2>3
<1>10. CASE LoopTop \/ EndIteration \/ FdReturns \/ \E ready \in Seq(Fds) : Poll(ready)
  <2>1. step[Loop] = "idle"
    BY <1>1, <1>10 DEF LoopTop, EndIteration, FdReturns, Poll, Where, AtBase
  <2>2. UNCHANGED <<clearing, schedVars, posting>>
    BY <1>10 DEF LoopTop, EndIteration, FdReturns, Poll, clearVars, postVars
  <2>3. Laid'
    BY <1>10, <2>2 DEF LoopTop, EndIteration, FdReturns, Poll, Where, AtBase
  <2> QED BY <1>8, <2>1, <2>2, <2>3
<1>11. CASE ProcessPostCb \/ ProcessDeferredDeleteCb \/ ProcessLoopExit \/ ProcessFd
  <2>1. AtBase /\ phase = "process" /\ UNCHANGED <<phase, schedVars>>
    BY <1>11 DEF ProcessPostCb, ProcessDeferredDeleteCb, ProcessLoopExit, ProcessFd, loopVars
  <2>2. step[Loop] = "idle"
    BY <1>1, <2>1 DEF Where, AtBase
  <2>3. Laid'
    BY <1>11, <2>1 DEF ProcessPostCb, ProcessDeferredDeleteCb, ProcessLoopExit, ProcessFd, AtBase,
                       loopVars, postVars, clearVars
  <2> QED BY <1>8, <2>1, <2>2, <2>3
<1>12. CASE clearDeferredDeleteList
  <2>1. step[Loop] = "idle" /\ InUserCode /\ UNCHANGED <<phase, posting, inFd, schedVars>>
    BY <1>12 DEF clearDeferredDeleteList, MayCall, postVars, loopVars
  <2>2. CASE clearing # <<>>
    BY <1>8, <2>1, <2>2 DEF Where, AtBase
  <2>3. CASE clearing = <<>>
    BY <1>1, <1>8, <2>1, <2>3 DEF Where, AtBase
  <2> QED BY <2>2, <2>3
<1>13. CASE ResetNext \/ ObjectDestroyed \/ EndClear
  <2>1. clearing # <<>> /\ UNCHANGED <<phase, posting, inFd, schedVars>> /\ step[Loop] = "idle"
    BY <1>13 DEF ResetNext, ObjectDestroyed, EndClear, Where, InUserCode, postVars, loopVars
  <2> QED BY <1>8, <2>1 DEF Where, AtBase
<1>14. UNCHANGED vars => Where'
  BY <1>2 DEF vars, loopVars, postVars, clearVars
<1>15. <<>> \in Seq(Fds) /\ ReadyLists \subseteq Seq(Fds)
  BY ReadyListsType
<1> QED BY <1>4, <1>5, <1>6, <1>9, <1>10, <1>11, <1>12, <1>13, <1>14, <1>15 DEF Next, LoopProgress

LEMMA WhereAlways == Spec => []Where
<1>1. Init => Where
  BY DEF Init, Where, AtBase, InUserCode, Threads
<1>2. Safe => TypeOK
  BY DEF Safe
<1> QED BY InitSafe, NextSafe, WhereStep, <1>1, <1>2, PTL DEF Spec

(* A run(Block) that returns by itself found the active queue empty, and   *)
(* then nobody but a post() in progress can still owe the loop a callback. *)
THEOREM NothingLeftBehind == Spec => BlockReturnsDrained
<1> DEFINE Drained == phase = "top" /\ phase' = "done" /\ ~gotterm =>
          /\ post_callbacks_ # <<>> => BeingScheduled(post_cb_)
          /\ DeletePending = <<>>
<1>1. Safe /\ Where /\ PostArmed /\ DeleteArmed /\ [Next]_vars => [Drained]_vars
  <2> SUFFICES ASSUME Safe, Where, PostArmed, DeleteArmed, Next,
                      phase = "top", phase' = "done", ~gotterm
               PROVE  /\ post_callbacks_ # <<>> => BeingScheduled(post_cb_)
                      /\ DeletePending = <<>>
    OBVIOUS
  <2>1. LoopTop
    <3>1. <<>> \in Seq(Fds) /\ ReadyLists \subseteq Seq(Fds)
      BY ReadyListsType
    <3>2. \A ready : ~Poll(ready)
      BY DEF Poll
    <3> QED BY <3>2 DEF Next, LoopProgress, Scheduling, CheckEnabled, Activate, exit, post, deferredDelete,
                clearDeferredDeleteList, run, TakePosts, RunFront, PopFront, CallbackDestroyed, PostsDone,
                ResetNext, ObjectDestroyed, EndClear, ProcessPostCb, ProcessDeferredDeleteCb, ProcessLoopExit,
                ProcessFd, FdReturns, EndIteration, loopVars
  <2>2. active = <<>>
    BY <2>1 DEF LoopTop
  <2>3. \A e : ~evtimer_pending(e)
    BY <2>2 DEF evtimer_pending, Range
  <2>4. posting = "none" /\ clearing = <<>> /\ ~InUserCode /\ step[Loop] = "idle"
    BY DEF Where, AtBase, InUserCode
  <2>5. ~BeingScheduled(deferred_delete_cb_)
    BY <2>4 DEF Where, BeingScheduled
  <2>6. to_delete[current_to_delete_] = <<>>
    BY <2>3, <2>5 DEF DeleteArmed
  <2>7. DeletePending = <<>>
    <3>1. <<>> \o <<>> = <<>>
      OBVIOUS
    <3> QED BY <2>4, <2>6, <3>1 DEF DeletePending
  <2>8. post_callbacks_ # <<>> => BeingScheduled(post_cb_)
    BY <2>3, <2>4 DEF PostArmed
  <2> QED BY <2>7, <2>8
<1>2. Spec => [][Drained]_vars
  BY <1>1, InitSafe, NextSafe, WhereAlways, PostNeverStranded, DeleteNeverForgotten, PTL DEF Spec
<1> QED BY <1>2 DEF BlockReturnsDrained

--------------------------------------------------------------------------------
(* Dispatcher implements TaskQueue twice: the posted callbacks and the     *)
(* deferred objects are each started once, in the order they were handed   *)
(* over.                                                                   *)

(* The local list of runPostCallbacks is empty whenever it is about to be  *)
(* overwritten, because the loop is in runPostCallbacks only while it      *)
(* flushes or works on its active events.                                  *)
GroupDone ==
    /\ posting \in {"none", "take"} => callbacks = <<>>
    /\ phase \in {"new", "top", "poll", "done"} => posting = "none"

LEMMA GroupDoneStep == TypeOK /\ GroupDone /\ [Next]_vars => GroupDone'
<1> SUFFICES ASSUME TypeOK, GroupDone, [Next]_vars PROVE GroupDone'
  OBVIOUS
<1>1. CASE run \/ TakePosts \/ RunFront \/ PopFront \/ CallbackDestroyed \/ PostsDone
  BY <1>1 DEF run, TakePosts, RunFront, PopFront, CallbackDestroyed, PostsDone, loopVars, GroupDone,
              TypeOK
<1>2. CASE \/ LoopTop \/ (\E ready \in ReadyLists \cup {<<>>} : Poll(ready))
           \/ EndIteration \/ ProcessPostCb
  BY <1>2 DEF LoopTop, Poll, EndIteration, ProcessPostCb, AtBase, GroupDone, postVars, loopVars
<1>3. CASE \/ \E t \in Threads : Scheduling(t) \/ exit(t) \/ \E c \in Callbacks : post(t, c)
           \/ \E o \in Objects : deferredDelete(o)
           \/ clearDeferredDeleteList
           \/ ResetNext \/ ObjectDestroyed \/ EndClear
           \/ ProcessDeferredDeleteCb \/ ProcessLoopExit \/ ProcessFd \/ FdReturns
           \/ UNCHANGED vars
  <2>1. UNCHANGED <<callbacks, posting, phase>>
    BY <1>3 DEF Scheduling, CheckEnabled, Activate, exit, post, deferredDelete,
                clearDeferredDeleteList, ResetNext, ObjectDestroyed, EndClear,
                ProcessDeferredDeleteCb, ProcessLoopExit, ProcessFd, FdReturns,
                postVars, loopVars, vars
  <2> QED BY <2>1 DEF GroupDone
<1> QED BY <1>1, <1>2, <1>3 DEF Next, LoopProgress

--------------------------------------------------------------------------------
(* Posted callbacks.                                                       *)
LEMMA PostsStep ==
    ASSUME Safe, GroupDone, [Next]_vars
    PROVE  [Posts!Next]_<<PostPending, ran>>
<1> USE DEF Safe
<1>1. /\ callbacks \in Seq(Callbacks) /\ post_callbacks_ \in Seq(Callbacks)
      /\ posting = "body" => callbacks # <<>>
      /\ (IF posting = "body" THEN Tail(callbacks) ELSE callbacks) \in Seq(Callbacks)
  BY DEF TypeOK, BodyHasCallback
<1>2. ASSUME NEW t \in Threads, NEW c \in Callbacks, post(t, c)
      PROVE  Posts!Submit(c)
  <2>1. /\ c \notin Range(PostPending) \cup ran
        /\ post_callbacks_' = Append(post_callbacks_, c)
        /\ UNCHANGED <<callbacks, posting, ran>>
    BY <1>2 DEF post
  <2>2. PostPending' = Append(PostPending, c)
    <3> DEFINE s == IF posting = "body" THEN Tail(callbacks) ELSE callbacks
    <3>1. s \in Seq(Callbacks)
      BY <1>1
    <3>2. s' = s
      BY <2>1
    <3>3. PostPending = s \o post_callbacks_ /\ PostPending' = s' \o post_callbacks_'
      BY DEF PostPending
    <3> HIDE DEF s
    <3>4. s \o Append(post_callbacks_, c) = Append(s \o post_callbacks_, c)
      BY <1>1, <3>1, ConcatAppend
    <3> QED BY <2>1, <3>2, <3>3, <3>4
  <2> QED BY <2>1, <2>2 DEF Posts!Submit, Posts!Range, Range
<1>3. CASE RunFront
  <2>1. /\ posting = "run" /\ callbacks # <<>> /\ posting' = "body"
        /\ ran' = ran \cup {Head(callbacks)}
        /\ UNCHANGED <<post_callbacks_, callbacks>>
    BY <1>3 DEF RunFront
  <2>2. /\ PostPending = callbacks \o post_callbacks_
        /\ PostPending' = Tail(callbacks) \o post_callbacks_
    BY <2>1 DEF PostPending
  <2>3. Posts!Start
    BY <1>1, <2>1, <2>2, ConcatTail DEF Posts!Start
  <2> QED BY <2>3 DEF Posts!Next
<1>4. CASE TakePosts
  <2>1. callbacks = <<>>
    BY <1>4 DEF TakePosts, GroupDone
  <2>2. UNCHANGED <<PostPending, ran>>
    BY <1>1, <1>4, <2>1, ConcatEmpty DEF TakePosts, PostPending
  <2> QED BY <2>2
<1>5. CASE PopFront \/ CallbackDestroyed \/ PostsDone
  <2>1. UNCHANGED <<PostPending, ran>>
    BY <1>5 DEF PopFront, CallbackDestroyed, PostsDone, PostPending
  <2> QED BY <2>1
<1>6. CASE run \/ ProcessPostCb
  <2>1. UNCHANGED <<post_callbacks_, callbacks, ran>> /\ posting # "body" /\ posting' # "body"
    BY <1>6 DEF run, ProcessPostCb, AtBase, GroupDone
  <2>2. UNCHANGED <<PostPending, ran>>
    BY <2>1 DEF PostPending
  <2> QED BY <2>2
<1>7. CASE \/ \E t \in Threads : Scheduling(t) \/ exit(t)
           \/ \E o \in Objects : deferredDelete(o)
           \/ clearDeferredDeleteList
           \/ ResetNext \/ ObjectDestroyed \/ EndClear
           \/ LoopTop \/ (\E ready \in ReadyLists \cup {<<>>} : Poll(ready))
           \/ ProcessDeferredDeleteCb \/ ProcessLoopExit \/ ProcessFd \/ FdReturns \/ EndIteration
           \/ UNCHANGED vars
  <2>1. UNCHANGED postVars
    BY <1>7 DEF Scheduling, CheckEnabled, Activate, exit, deferredDelete,
                clearDeferredDeleteList, ResetNext, ObjectDestroyed, EndClear, LoopTop, Poll,
                ProcessDeferredDeleteCb, ProcessLoopExit, ProcessFd, FdReturns, EndIteration, vars
  <2> QED BY <2>1 DEF PostPending, postVars
<1> QED BY <1>2, <1>3, <1>4, <1>5, <1>6, <1>7 DEF Next, LoopProgress, Posts!Next

(* Dispatcher::post: callbacks run in the order they were posted, each     *)
(* once.                                                                   *)
THEOREM PostsAreFIFO == Spec => PostsFIFO
<1>1. Init => GroupDone /\ Posts!Init
  BY ConcatEmpty DEF Init, GroupDone, Posts!Init, PostPending
<1> QED
  BY InitSafe, NextSafe, GroupDoneStep, PostsStep, <1>1, PTL
     DEF Spec, PostsFIFO, Posts!Spec, Safe

--------------------------------------------------------------------------------
(* Deferred objects.                                                       *)

LEMMA DeletesStep ==
    ASSUME Safe, [Next]_vars
    PROVE  [Deletes!Next]_<<DeletePending, destroyed>>
<1> USE DEF Safe
<1> DEFINE cur == to_delete[current_to_delete_]
           rest == IF clearing = <<>> THEN <<>>
                   ELSE SubSeq(to_delete[Innermost.vec], Innermost.i + 1, Innermost.n)
           T == Objects \cup {NullPtr}
<1>1. DeletePending = rest \o cur /\ cur \in Seq(T) /\ to_delete \in [1..2 -> Seq(T)]
  BY DEF DeletePending, TypeOK
<1>2. ASSUME clearing # <<>>
      PROVE  /\ Innermost.vec \in 1..2 /\ Innermost.vec # current_to_delete_
             /\ Innermost.i \in Nat /\ Innermost.n \in Nat /\ Innermost.i <= Innermost.n
             /\ to_delete[Innermost.vec] \in Seq(T) /\ Len(to_delete[Innermost.vec]) = Innermost.n
  BY <1>2, OneClear DEF TypeOK, Frame
<1>3. rest \in Seq(T) /\ Range(rest) \subseteq Range(to_delete[1]) \cup Range(to_delete[2])
  <2>1. CASE clearing = <<>>
    BY <2>1 DEF Range
  <2>2. CASE clearing # <<>>
    <3> DEFINE s == to_delete[Innermost.vec]
               i == Innermost.i
    <3>1. s \in Seq(T) /\ i \in Nat /\ i <= Len(s) /\ Len(s) = Innermost.n
      BY <1>2, <2>2
    <3>2. rest = SubSeq(s, i + 1, Len(s))
      BY <2>2, <3>1
    <3>3. Innermost.vec = 1 \/ Innermost.vec = 2
      BY <1>2, <2>2
    <3>4. Range(s) \subseteq Range(to_delete[1]) \cup Range(to_delete[2])
      BY <3>3
    <3> HIDE DEF rest, s, i, T
    <3> QED BY <3>1, <3>2, <3>4, SubSeqRest
  <2> QED BY <2>1, <2>2
<1>4. Range(cur) \subseteq Range(to_delete[1]) \cup Range(to_delete[2])
  BY DEF TypeOK
<1>5. ASSUME NEW o \in Objects, deferredDelete(o) PROVE Deletes!Next
  <2>1. /\ o \notin Range(to_delete[1]) \cup Range(to_delete[2]) \cup destroyed
        /\ to_delete' = [to_delete EXCEPT ![current_to_delete_] = Append(@, o)]
        /\ UNCHANGED <<current_to_delete_, clearing, destroyed>>
    BY <1>5 DEF deferredDelete
  <2>2. cur' = Append(cur, o)
    BY <1>1, <2>1 DEF TypeOK
  <2>3. rest' = rest
    <3>1. CASE clearing = <<>>
      BY <2>1, <3>1
    <3>2. CASE clearing # <<>>
      <4>1. to_delete'[Innermost.vec] = to_delete[Innermost.vec]
        BY <1>1, <1>2, <2>1, <3>2
      <4>2. Innermost' = Innermost /\ clearing' # <<>>
        BY <2>1, <3>2 DEF Innermost
      <4>3. rest' = SubSeq(to_delete'[Innermost'.vec], Innermost'.i + 1, Innermost'.n)
        BY <4>2
      <4> QED BY <3>2, <4>1, <4>2, <4>3
    <3> QED BY <3>1, <3>2
  <2>4. DeletePending' = rest' \o cur'
    BY DEF DeletePending
  <2> HIDE DEF rest, cur
  <2>5. DeletePending' = Append(DeletePending, o)
    BY <1>1, <1>3, <2>2, <2>3, <2>4, ConcatAppend
  <2>6. o \notin Range(DeletePending)
    <3>1. Range(rest \o cur) \subseteq Range(rest) \cup Range(cur)
      BY <1>1, <1>3, RangeOfConcat
    <3> QED BY <1>1, <1>3, <1>4, <2>1, <3>1
  <2>7. Deletes!Submit(o)
    BY <2>1, <2>5, <2>6 DEF Deletes!Submit, Deletes!Range, Range
  <2> QED BY <2>7 DEF Deletes!Next
<1>6. ASSUME BeginClear PROVE UNCHANGED <<DeletePending, destroyed>>
  <2>1. CASE UNCHANGED clearVars
    BY <2>1 DEF clearVars, DeletePending, Innermost
  <2>2. CASE ~UNCHANGED clearVars
    <3> DEFINE f == [vec |-> current_to_delete_, i |-> 0, dtor |-> FALSE, n |-> Len(cur)]
    <3>1. /\ ~deferred_deleting_ /\ clearing = <<>> /\ clearing' = Append(clearing, f)
          /\ current_to_delete_' = 3 - current_to_delete_
          /\ UNCHANGED <<to_delete, destroyed>>
      BY <1>6, <2>2 DEF BeginClear, ClearDiscipline
    <3>2. clearing' = <<f>> /\ Innermost' = f /\ clearing' # <<>>
      BY <3>1, SingletonType DEF Innermost
    <3>3. to_delete'[current_to_delete_'] = <<>>
      BY <3>1 DEF ClearDiscipline
    <3>4. SubSeq(cur, 1, Len(cur)) = cur
      BY <1>1
    <3>5. DeletePending' = cur \o <<>>
      BY <3>1, <3>2, <3>3, <3>4 DEF DeletePending
    <3>6. DeletePending = <<>> \o cur
      BY <3>1 DEF DeletePending
    <3> QED BY <1>1, <3>1, <3>5, <3>6, ConcatEmpty
  <2> QED BY <2>1, <2>2
<1>7. CASE ResetNext
  <2>1. PICK f, g :
          /\ f = Innermost /\ g = [f EXCEPT !.i = @ + 1, !.dtor = TRUE]
          /\ clearing # <<>> /\ f.i < f.n
          /\ destroyed' = destroyed \cup {to_delete[f.vec][f.i + 1]}
          /\ to_delete' = [to_delete EXCEPT ![f.vec][f.i + 1] = NullPtr]
          /\ clearing' = [clearing EXCEPT ![Len(clearing)] = g]
          /\ UNCHANGED current_to_delete_
    BY <1>7 DEF ResetNext
  <2>2. /\ Len(clearing) = 1 /\ clearing = <<f>> /\ f \in Frame
        /\ f.vec \in 1..2 /\ f.vec # current_to_delete_ /\ f.i \in Nat
        /\ to_delete[f.vec] \in Seq(T) /\ Len(to_delete[f.vec]) = f.n
    BY <1>2, <2>1, OneClear
  <2>3. g.vec = f.vec /\ g.n = f.n /\ g.i = f.i + 1
    BY <2>1, <2>2 DEF Frame
  <2>4. clearing' = <<g>> /\ Innermost' = g /\ clearing' # <<>>
    BY <2>1, <2>2, ReplaceOnly, SingletonType DEF Innermost
  <2> DEFINE s == to_delete[f.vec]
             u == to_delete'[f.vec]
  <2>5. u = [s EXCEPT ![f.i + 1] = NullPtr]
        /\ to_delete'[current_to_delete_'] = cur
    BY <1>1, <2>1, <2>2
  <2>6. u \in Seq(T) /\ Len(u) = Len(s) /\ \A j \in f.i + 2..Len(s) : u[j] = s[j]
    <3>1. f.i + 1 \in 1..Len(s) /\ NullPtr \in T
      BY <2>1, <2>2
    <3> QED BY <2>2, <2>5, <3>1, ReplaceOne
  <2>7. /\ SubSeq(s, f.i + 1, Len(s)) \in Seq(T)
        /\ SubSeq(s, f.i + 1, Len(s)) # <<>>
        /\ Head(SubSeq(s, f.i + 1, Len(s))) = s[f.i + 1]
        /\ Tail(SubSeq(s, f.i + 1, Len(s))) = SubSeq(u, f.i + 2, Len(s))
    <3> HIDE DEF s, u, T
    <3>1. s \in Seq(T) /\ f.i \in Nat /\ f.i < Len(s)
      BY <2>1, <2>2 DEF s
    <3> QED BY <2>6, <3>1, SubSeqStep
  <2>8. /\ DeletePending = SubSeq(s, f.i + 1, Len(s)) \o cur
        /\ DeletePending' = SubSeq(u, f.i + 2, Len(s)) \o cur
    <3>1. DeletePending = SubSeq(to_delete[f.vec], f.i + 1, f.n) \o cur
      BY <2>1 DEF DeletePending
    <3>2. DeletePending' = SubSeq(to_delete'[Innermost'.vec], Innermost'.i + 1, Innermost'.n)
                             \o to_delete'[current_to_delete_']
      BY <2>4 DEF DeletePending
    <3>3. f.i + 1 + 1 = f.i + 2
      BY <2>2
    <3>4. DeletePending' = SubSeq(to_delete'[f.vec], f.i + 2, f.n) \o cur
      BY <2>3, <2>4, <2>5, <3>2, <3>3
    <3> QED BY <2>2, <3>1, <3>4
  <2>9. /\ DeletePending # <<>> /\ Head(DeletePending) = s[f.i + 1]
        /\ DeletePending' = Tail(DeletePending)
    <3> DEFINE a == SubSeq(s, f.i + 1, Len(s))
               b == SubSeq(u, f.i + 2, Len(s))
    <3>1. /\ a \in Seq(T) /\ a # <<>> /\ cur \in Seq(T)
          /\ Head(a) = s[f.i + 1] /\ Tail(a) = b
      BY <1>1, <2>7
    <3>2. DeletePending = a \o cur /\ DeletePending' = b \o cur
      BY <2>8
    <3> HIDE DEF a, b, s, u, cur, T
    <3>3. a \o cur # <<>> /\ Head(a \o cur) = Head(a) /\ Tail(a \o cur) = Tail(a) \o cur
      BY <3>1, ConcatTail
    <3> QED BY <3>1, <3>2, <3>3
  <2>10. Deletes!Start
    BY <2>1, <2>9 DEF Deletes!Start
  <2> QED BY <2>10 DEF Deletes!Next
<1>8. CASE ObjectDestroyed
  <2>1. PICK f, g :
          /\ f = Innermost /\ g = [f EXCEPT !.dtor = FALSE]
          /\ clearing # <<>>
          /\ clearing' = [clearing EXCEPT ![Len(clearing)] = g]
          /\ UNCHANGED <<to_delete, current_to_delete_, destroyed>>
    BY <1>8 DEF ObjectDestroyed
  <2>2. Len(clearing) = 1 /\ clearing = <<f>> /\ f \in Frame
    BY <2>1, OneClear
  <2>3. g.vec = f.vec /\ g.n = f.n /\ g.i = f.i
    BY <2>1, <2>2 DEF Frame
  <2>4. Innermost' = g /\ clearing' # <<>>
    BY <2>1, <2>2, ReplaceOnly, SingletonType DEF Innermost
  <2>5. DeletePending' = SubSeq(to_delete'[Innermost'.vec], Innermost'.i + 1, Innermost'.n)
                           \o to_delete'[current_to_delete_']
    BY <2>4 DEF DeletePending
  <2>6. DeletePending = SubSeq(to_delete[f.vec], f.i + 1, f.n) \o cur
    BY <2>1 DEF DeletePending
  <2>7. UNCHANGED <<DeletePending, destroyed>>
    BY <2>1, <2>3, <2>4, <2>5, <2>6
  <2> QED BY <2>7
<1>9. CASE EndClear
  <2>1. /\ clearing # <<>> /\ Innermost.i = Innermost.n
        /\ to_delete' = [to_delete EXCEPT ![Innermost.vec] = <<>>]
        /\ clearing' = SubSeq(clearing, 1, Len(clearing) - 1)
        /\ UNCHANGED <<current_to_delete_, destroyed>>
    BY <1>9 DEF EndClear
  <2>2. clearing' = <<>>
    BY <2>1, OneClear
  <2>3. to_delete'[current_to_delete_] = cur
    BY <1>1, <1>2, <2>1
  <2>4. rest = <<>>
    <3> DEFINE s == to_delete[Innermost.vec]
    <3>1. /\ s \in Seq(T) /\ Innermost.i \in Nat /\ Innermost.i = Len(s)
          /\ rest = SubSeq(s, Innermost.i + 1, Len(s))
      BY <1>2, <2>1
    <3> HIDE DEF rest, s, T
    <3> QED BY <3>1, SubSeqRest
  <2>5. DeletePending' = <<>> \o cur
    BY <2>1, <2>2, <2>3 DEF DeletePending
  <2>6. DeletePending = <<>> \o cur
    BY <1>1, <2>4
  <2> QED BY <2>1, <2>5, <2>6
<1>10. CASE clearDeferredDeleteList \/ ProcessDeferredDeleteCb
  BY <1>6, <1>10 DEF clearDeferredDeleteList, ProcessDeferredDeleteCb
<1>11. CASE \/ \E t \in Threads : Scheduling(t) \/ exit(t) \/ \E c \in Callbacks : post(t, c)
            \/ run \/ TakePosts \/ RunFront \/ PopFront \/ CallbackDestroyed \/ PostsDone
            \/ LoopTop \/ (\E ready \in ReadyLists \cup {<<>>} : Poll(ready))
            \/ ProcessPostCb \/ ProcessLoopExit \/ ProcessFd \/ FdReturns \/ EndIteration
            \/ UNCHANGED vars
  <2>1. UNCHANGED clearVars
    BY <1>11 DEF Scheduling, CheckEnabled, Activate, exit, post, run, TakePosts, RunFront, PopFront,
                 CallbackDestroyed, PostsDone, LoopTop, Poll, ProcessPostCb, ProcessLoopExit,
                 ProcessFd, FdReturns, EndIteration, vars
  <2> QED BY <2>1 DEF DeletePending, Innermost, clearVars
<1> QED BY <1>5, <1>7, <1>8, <1>9, <1>10, <1>11 DEF Next, LoopProgress

(* Dispatcher::deferredDelete: objects are destroyed in the order they     *)
(* were deferred, each once.                                               *)
THEOREM DeletesAreFIFO == Spec => DeletesFIFO
<1>1. Init => Deletes!Init
  BY ConcatEmpty DEF Init, Deletes!Init, DeletePending
<1> QED BY InitSafe, NextSafe, DeletesStep, <1>1, PTL DEF Spec, DeletesFIFO, Deletes!Spec
================================================================================
