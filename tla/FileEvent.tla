-------------------------------- MODULE FileEvent ------------------------------
(***************************************************************************)
(* FileEventImpl (src/event_server/event/file_event_impl.cc) and the       *)
(* SchedulableCallbackImpl it owns, on the loop of one dispatcher.  A file *)
(* event calls back for what its descriptor is ready for and for what      *)
(* activate() injects; the activation callback is a timer of no delay.     *)
(*                                                                         *)
(* libevent is external.  An iteration polls when nothing is active: it    *)
(* activates the file events whose descriptors have something to report,   *)
(* then the timers that are due, and runs them in that order.              *)
(***************************************************************************)
EXTENDS Integers

CONSTANTS
    Files,       \* the file events
    Events,      \* FileReadyType
    Masks,       \* Masks[f]: the event masks f is enabled for
    Edge,        \* the file events whose trigger_ is FileTriggerType::Edge
    None,        \* no callback runs
    Elsewhere,   \* the callback of something else, a posted one
    MaxEnables   \* bound: the calls of setEnabled

ASSUME FileAssumption ==
    /\ Edge \subseteq Files
    /\ {None, Elsewhere} \cap Files = {} /\ None # Elsewhere
    /\ \A f \in Files : Masks[f] \subseteq SUBSET Events
    /\ MaxEnables \in Nat

VARIABLES
    alive,    \* the file events that exist
    enabled_events_, injected_activation_events_,
    timer,    \* the file events whose activation_cb_ is in the heap of timers
    due,      \* those whose activation_cb_ is active
    fired,    \* fired[f]: what raw_event_ of f is active with
    other,    \* a callback of something else is active
    running,  \* the file event whose cb_ runs, Elsewhere or None
    given,    \* the events it was called with
    ready,    \* what the descriptors are ready for
    edge,     \* what became ready, or was registered, since the last report
    enables   \* the calls of setEnabled left

callVars == <<alive, enabled_events_, injected_activation_events_, timer, due, fired>>
loopVars == <<other, running, given>>
vars == <<callVars, loopVars, ready, edge, enables>>

TypeOK ==
    /\ alive \subseteq Files /\ timer \subseteq Files /\ due \subseteq Files
    /\ enabled_events_ \in [Files -> SUBSET Events]
    /\ injected_activation_events_ \in [Files -> SUBSET Events]
    /\ fired \in [Files -> SUBSET Events]
    /\ ready \in [Files -> SUBSET Events] /\ edge \in [Files -> SUBSET Events]
    /\ other \in BOOLEAN /\ running \in Files \cup {None, Elsewhere}
    /\ given \subseteq Events /\ enables \in 0 .. MaxEnables

UsedEvents(f) == UNION Masks[f]

Init ==
    /\ alive = {}
    /\ enabled_events_ = [f \in Files |-> {}]
    /\ injected_activation_events_ = [f \in Files |-> {}]
    /\ timer = {} /\ due = {} /\ fired = [f \in Files |-> {}]
    /\ other = FALSE /\ running = None /\ given = {}
    /\ ready = [f \in Files |-> {}]
    /\ edge = [f \in Files |-> Events]
    /\ enables = MaxEnables

(* --------------------------- the descriptors ---------------------------- *)
Arrive(f, e) ==
    /\ e \in UsedEvents(f)
    /\ ready' = [ready EXCEPT ![f] = @ \cup {e}]
    /\ edge' = [edge EXCEPT ![f] = @ \cup {e}]
    /\ UNCHANGED <<callVars, loopVars, enables>>

Drain(f, e) ==
    /\ e \in ready[f]
    /\ ready' = [ready EXCEPT ![f] = @ \ {e}]
    /\ UNCHANGED <<callVars, loopVars, edge, enables>>

(* ------------------------ the activation callback ----------------------- *)
enabled(f) == f \in timer \cup due

(* A slip: the callback is put into the iteration that runs.               *)
scheduleCallbackCurrentIteration(f) ==
    /\ due' = IF enabled(f) THEN due ELSE due \cup {f}
    /\ UNCHANGED timer

scheduleCallbackNextIteration(f) ==
    /\ timer' = IF enabled(f) THEN timer ELSE timer \cup {f}
    /\ UNCHANGED due

cancel(f) == timer' = timer \ {f} /\ due' = due \ {f}

(* The constructor assigns its timer to the base, and does not schedule it. *)
SchedulableCallbackImpl(f) == timer' = timer \ {f} /\ due' = due \ {f}

createSchedulableCallback(f) == SchedulableCallbackImpl(f)

(* ------------------- what user code does to a file event ---------------- *)
InUserCode == running # None

(* The constructor registers the descriptor for the mask it is given, also *)
(* one that another file event watched before.                             *)
FileEventImpl(f, events) ==
    /\ InUserCode /\ f \notin alive /\ events \in Masks[f]
    /\ alive' = alive \cup {f}
    /\ enabled_events_' = [enabled_events_ EXCEPT ![f] = events]
    /\ injected_activation_events_' = [injected_activation_events_ EXCEPT ![f] = {}]
    /\ createSchedulableCallback(f)
    /\ fired' = [fired EXCEPT ![f] = {}]
    /\ edge' = [edge EXCEPT ![f] = Events]
    /\ UNCHANGED <<loopVars, ready, enables>>

activate(f, events) ==
    /\ InUserCode /\ f \in alive
    /\ events \in (SUBSET UsedEvents(f)) \ {{}}
    /\ IF injected_activation_events_[f] = {} THEN scheduleCallbackNextIteration(f)
       ELSE UNCHANGED <<timer, due>>
    /\ injected_activation_events_' = [injected_activation_events_ EXCEPT ![f] = @ \cup events]
    /\ UNCHANGED <<alive, enabled_events_, fired, loopVars, ready, edge, enables>>

(* A slip: an unchanged mask is not registered anew, edge triggered or not. *)
updateEventsSkips(f, events) ==
    IF events = enabled_events_[f] THEN UNCHANGED <<enabled_events_, fired, edge>>
    ELSE /\ enabled_events_' = [enabled_events_ EXCEPT ![f] = events]
         /\ fired' = [fired EXCEPT ![f] = {}]
         /\ edge' = [edge EXCEPT ![f] = Events]

(* event_del takes the event off the active queue; event_add registers the *)
(* descriptor, which then reports all it is ready for.                     *)
updateEvents(f, events) ==
    IF events = enabled_events_[f] /\ f \notin Edge THEN UNCHANGED <<enabled_events_, fired, edge>>
    ELSE /\ enabled_events_' = [enabled_events_ EXCEPT ![f] = events]
         /\ fired' = [fired EXCEPT ![f] = {}]
         /\ edge' = [edge EXCEPT ![f] = Events]

setEnabled(f, events) ==
    /\ InUserCode /\ f \in alive /\ events \in Masks[f]
    /\ enables > 0 /\ enables' = enables - 1
    /\ injected_activation_events_' = [injected_activation_events_ EXCEPT ![f] = {}]
    /\ IF injected_activation_events_[f] # {} THEN cancel(f) ELSE UNCHANGED <<timer, due>>
    /\ updateEvents(f, events)
    /\ UNCHANGED <<alive, loopVars, ready>>

(* ~FileEventImpl, also from its own callback: both events leave the base. *)
Destroy(f) ==
    /\ InUserCode /\ f \in alive
    /\ alive' = alive \ {f}
    /\ enabled_events_' = [enabled_events_ EXCEPT ![f] = {}]
    /\ injected_activation_events_' = [injected_activation_events_ EXCEPT ![f] = {}]
    /\ fired' = [fired EXCEPT ![f] = {}]
    /\ cancel(f)
    /\ UNCHANGED <<loopVars, ready, edge, enables>>

UserCall ==
    \E f \in Files :
        \/ \E events \in SUBSET Events :
              FileEventImpl(f, events) \/ activate(f, events) \/ setEnabled(f, events)
        \/ Destroy(f)

(* -------------------------------- the loop ------------------------------ *)
(* A slip: the activation callback stays scheduled.                        *)
mergeInjectedEventsNotCancelled(f, events) ==
    /\ running' = f /\ given' = events \cup injected_activation_events_[f]
    /\ injected_activation_events_' = [injected_activation_events_ EXCEPT ![f] = {}]
    /\ UNCHANGED timer

(* mergeInjectedEventsAndRunCb, up to the call of cb_.                     *)
mergeInjectedEventsAndRunCb(f, events) ==
    /\ running' = f /\ given' = events \cup injected_activation_events_[f]
    /\ injected_activation_events_' = [injected_activation_events_ EXCEPT ![f] = {}]
    /\ timer' = IF injected_activation_events_[f] # {} THEN timer \ {f} ELSE timer

Reported(f) ==
    LET now == ready[f] \cap enabled_events_[f]
    IN  IF f \in Edge /\ edge[f] \cap enabled_events_[f] = {} THEN {} ELSE now

(* With nothing active the loop polls, and sleeps while there is nothing   *)
(* to do.                                                                  *)
NothingActive == running = None /\ ~other /\ due = {} /\ \A f \in Files : fired[f] = {}

Poll ==
    /\ NothingActive
    /\ fired' = [f \in Files |-> Reported(f)]
    /\ due' = timer /\ timer' = {}
    /\ other' \in BOOLEAN
    /\ fired' # fired \/ due' # {} \/ other'
    /\ edge' = [f \in Files |-> edge[f] \ enabled_events_[f]]
    /\ UNCHANGED <<alive, enabled_events_, injected_activation_events_, running, given, ready, enables>>

RawEvent(f) ==
    /\ running = None /\ fired[f] # {}
    /\ mergeInjectedEventsAndRunCb(f, fired[f])
    /\ fired' = [fired EXCEPT ![f] = {}]
    /\ due' = IF injected_activation_events_[f] # {} THEN due \ {f} ELSE due
    /\ UNCHANGED <<alive, enabled_events_, other, ready, edge, enables>>

ActivationCb(f) ==
    /\ running = None /\ \A g \in Files : fired[g] = {}
    /\ f \in due /\ due' = due \ {f}
    /\ mergeInjectedEventsAndRunCb(f, {})
    /\ UNCHANGED <<alive, enabled_events_, fired, other, ready, edge, enables>>

OtherCallback ==
    /\ running = None /\ other
    /\ other' = FALSE /\ running' = Elsewhere
    /\ UNCHANGED <<callVars, given, ready, edge, enables>>

Return ==
    /\ InUserCode /\ running' = None /\ given' = {}
    /\ UNCHANGED <<callVars, other, ready, edge, enables>>

LoopStep == Poll \/ (\E f \in Files : RawEvent(f) \/ ActivationCb(f)) \/ OtherCallback \/ Return

Next ==
    \/ \E f \in Files, e \in Events : Arrive(f, e) \/ Drain(f, e)
    \/ UserCall
    \/ LoopStep

(* The loop runs, and a callback returns.  Of what is active everything    *)
(* has its turn, since the queue is emptied before the next poll.          *)
Fairness == WF_vars(LoopStep) /\ WF_vars(Return)

Spec == Init /\ [][Next]_vars /\ Fairness

(* ------------------------------ properties ------------------------------ *)
(* "Armed iff pending_activation_events_ != 0" (file_event_impl.h): on it  *)
(* rest the assertions of activate() and of the activation callback, and   *)
(* a callback is never called with no event.                               *)
InjectedArmed ==
    /\ \A f \in Files : injected_activation_events_[f] # {} <=> enabled(f)
    /\ running \in Files => given # {}

(* What the descriptor is ready for and the file event is enabled for is   *)
(* passed to its callback unless it goes away or the mask changes first:   *)
(* by the poll, or, when an edge was already reported, by what user code   *)
(* injects to be called again.  setEnabled drops the injected events and   *)
(* must get them back from the descriptor.                                 *)
Wanted(f) == ready[f] \cap enabled_events_[f]
Awaited(f) ==
    IF f \in Edge THEN Wanted(f) \cap (edge[f] \cup fired[f] \cup injected_activation_events_[f])
    ELSE Wanted(f)

(* Nothing awaited is missed, and what is injected is called back even     *)
(* when callbacks activate themselves again for ever.                      *)
EventsDelivered ==
    \A f \in Files, e \in Events :
        /\ e \in Awaited(f) ~> (running = f /\ e \in given) \/ e \notin Wanted(f)
        /\ e \in injected_activation_events_[f] ~> e \notin injected_activation_events_[f]
================================================================================
