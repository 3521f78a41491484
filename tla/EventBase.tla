------------------------------- MODULE EventBase -------------------------------
(***************************************************************************)
(* libevent's event_base, as the code under src/event_server/event uses    *)
(* it.  libevent is not part of the repository: its calls are external,    *)
(* and say what the callers in schedulable_cb_impl.cc and                  *)
(* libevent_scheduler.cc rely on.                                          *)
(*                                                                         *)
(*   active    the queue of active events, in the order they run           *)
(*   gotterm   set when the event of event_base_loopexit has run, read     *)
(*             only at the top of an iteration of event_base_loop          *)
(*                                                                         *)
(* Every libevent call takes the lock of the base, so each is one step.    *)
(***************************************************************************)
EXTENDS Naturals, Sequences, Functions

VARIABLES active, gotterm

(* The two schedulable callbacks a Dispatcher owns, and the one-shot event *)
(* that event_base_loopexit(base, NULL) allocates and activates.           *)
post_cb_            == "post_cb_"
deferred_delete_cb_ == "deferred_delete_cb_"
loopexit_cb         == "event_loopexit_cb"

SchedulableCallbacks == {post_cb_, deferred_delete_cb_}

EventBaseInit == active = <<>> /\ gotterm = FALSE

(* evtimer_pending: none of the events above has a timeout, so an event is *)
(* pending exactly when it is in the active queue.                         *)
evtimer_pending(e) == e \in Range(active)

(* event_active: to the end of the queue, unless already there.            *)
event_active(e) ==
    active' = IF e \in Range(active) THEN active ELSE Append(active, e)

(* event_base_loopexit(base, NULL): a new one-shot event at every call.    *)
event_base_loopexit == active' = Append(active, loopexit_cb)

(* event_process_active takes an event off the queue before it runs it.    *)
event_process(e) == active # <<>> /\ Head(active) = e /\ active' = Tail(active)
================================================================================
