----------------------------- MODULE FileEventProofs ---------------------------
(* For any number of file events and any masks: the activation callback of *)
(* a file event is scheduled exactly while events are injected.            *)
EXTENDS FileEvent, TLAPS

(* The inductive invariant.  Neither half stands alone: that a callback is *)
(* never called with no event rests on who is scheduled, and what the      *)
(* activation callback finds is typed by TypeOK.                           *)
Inv == TypeOK /\ InjectedArmed

(* At first there is no file event.                                        *)
LEMMA InitInv == Init => Inv
<1> SUFFICES ASSUME Init PROVE Inv
  OBVIOUS
<1>1. None \notin Files
  BY FileAssumption
<1>2. TypeOK
  <2>1. alive \subseteq Files /\ timer \subseteq Files /\ due \subseteq Files
    BY DEF Init
  <2>2. /\ enabled_events_ \in [Files -> SUBSET Events] /\ fired \in [Files -> SUBSET Events]
        /\ injected_activation_events_ \in [Files -> SUBSET Events]
        /\ ready \in [Files -> SUBSET Events] /\ edge \in [Files -> SUBSET Events]
    BY DEF Init
  <2>3. other \in BOOLEAN /\ running \in Files \cup {None, Elsewhere} /\ given \subseteq Events
    BY DEF Init
  <2>4. enables \in 0 .. MaxEnables
    BY FileAssumption DEF Init
  <2> QED
    BY <2>1, <2>2, <2>3, <2>4 DEF TypeOK
<1>3. InjectedArmed
  BY <1>1 DEF Init, InjectedArmed, enabled
<1> QED
  BY <1>2, <1>3 DEF Inv

(* What user code does to a file event (its constructor, activate,         *)
(* setEnabled and the destructor) leaves its callback scheduled just when it must be.         *)
LEMMA UserCallInv == Inv /\ UserCall => Inv'
<1> SUFFICES ASSUME Inv, UserCall PROVE Inv'
  OBVIOUS
<1> USE DEF Inv, TypeOK, InjectedArmed, enabled, UsedEvents
<1>1. PICK f \in Files :
        \/ \E events \in SUBSET Events :
              FileEventImpl(f, events) \/ activate(f, events) \/ setEnabled(f, events)
        \/ Destroy(f)
  BY DEF UserCall
<1>2. ASSUME NEW events \in SUBSET Events, activate(f, events)
      PROVE  Inv'
  <2>1. events # {} /\ injected_activation_events_' =
            [injected_activation_events_ EXCEPT ![f] = @ \cup events]
    BY <1>2 DEF activate
  <2>2. CASE injected_activation_events_[f] = {}
    BY <1>2, <2>1, <2>2 DEF activate, scheduleCallbackNextIteration, loopVars
  <2>3. CASE injected_activation_events_[f] # {}
    BY <1>2, <2>1, <2>3 DEF activate, loopVars
  <2> QED
    BY <2>2, <2>3
<1>3. ASSUME NEW events \in SUBSET Events, setEnabled(f, events)
      PROVE  Inv'
  <2>1. TypeOK'
    <3>1. timer' \subseteq Files /\ due' \subseteq Files
      BY <1>3 DEF setEnabled, cancel
    <3>2. enabled_events_' \in [Files -> SUBSET Events] /\ fired' \in [Files -> SUBSET Events]
            /\ edge' \in [Files -> SUBSET Events]
      BY <1>3 DEF setEnabled, updateEvents
    <3>3. enables' \in 0 .. MaxEnables
      BY <1>3, FileAssumption DEF setEnabled
    <3>4. injected_activation_events_' \in [Files -> SUBSET Events]
      BY <1>3 DEF setEnabled
    <3>5. UNCHANGED <<alive, loopVars, ready>>
      BY <1>3 DEF setEnabled
    <3> QED
      BY <3>1, <3>2, <3>3, <3>4, <3>5 DEF loopVars
  <2>2. InjectedArmed'
    BY <1>3 DEF setEnabled, cancel, loopVars
  <2> QED
    BY <2>1, <2>2
<1>4. CASE Destroy(f)
  BY <1>4 DEF Destroy, cancel, loopVars
<1>5. ASSUME NEW events \in SUBSET Events, FileEventImpl(f, events)
      PROVE  Inv'
  BY <1>5 DEF FileEventImpl, createSchedulableCallback, SchedulableCallbackImpl, loopVars
<1> QED
  BY <1>1, <1>2, <1>3, <1>4, <1>5

(* Polling, running a callback and returning from it.                      *)
LEMMA LoopStepInv == Inv /\ LoopStep => Inv'
<1> SUFFICES ASSUME Inv, LoopStep PROVE Inv'
  OBVIOUS
<1> USE DEF Inv, TypeOK, InjectedArmed, enabled
<1>1. CASE Poll
  <2>1. \A f \in Files : Reported(f) \in SUBSET Events
    BY DEF Reported
  <2> QED
    BY <1>1, <2>1 DEF Poll, NothingActive
<1>2. ASSUME NEW f \in Files, RawEvent(f)
      PROVE  Inv'
  BY <1>2, FileAssumption DEF RawEvent, mergeInjectedEventsAndRunCb
<1>3. ASSUME NEW f \in Files, ActivationCb(f)
      PROVE  Inv'
  BY <1>3, FileAssumption DEF ActivationCb, mergeInjectedEventsAndRunCb
<1>4. CASE OtherCallback
  BY <1>4, FileAssumption DEF OtherCallback, callVars
<1>5. CASE Return
  BY <1>5, FileAssumption DEF Return, callVars
<1> QED
  BY <1>1, <1>2, <1>3, <1>4, <1>5 DEF LoopStep

(* No step of the program or of a peer leaves the invariant.               *)
LEMMA NextInv == Inv /\ [Next]_vars => Inv'
<1> SUFFICES ASSUME Inv, [Next]_vars PROVE Inv'
  OBVIOUS
<1>1. ASSUME NEW f \in Files, NEW e \in Events, Arrive(f, e) \/ Drain(f, e)
      PROVE  Inv'
  BY <1>1 DEF Arrive, Drain, Inv, TypeOK, InjectedArmed, enabled, callVars, loopVars
<1>2. CASE UNCHANGED vars
  BY <1>2 DEF vars, callVars, loopVars, Inv, TypeOK, InjectedArmed, enabled
<1> QED
  BY <1>1, <1>2, UserCallInv, LoopStepInv DEF Next

(* "Armed iff pending_activation_events_ != 0": the assertions that        *)
(* activate() and the activation callback make hold in every run, and no   *)
(* cb_ is called without an event.                                         *)
THEOREM ActivationArmed == Spec => []InjectedArmed
<1>1. Inv => InjectedArmed
  BY DEF Inv
<1> QED
  BY <1>1, InitInv, NextInv, PTL DEF Spec
================================================================================
