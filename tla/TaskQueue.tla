------------------------------- MODULE TaskQueue -------------------------------
(***************************************************************************)
(* What Dispatcher::post and Dispatcher::deferredDelete promise about the  *)
(* items handed to them: an item that was submitted waits in one FIFO      *)
(* queue until the loop starts it, and is started exactly once.            *)
(***************************************************************************)
EXTENDS Naturals, Sequences, Functions

CONSTANT Items

VARIABLES pending,   \* the items submitted and not yet started, in order
          started    \* the items whose callback or destructor was started

TypeOK == pending \in Seq(Items) /\ started \subseteq Items

Init == pending = <<>> /\ started = {}

(* A thread hands over an item that nobody has handed over before.         *)
Submit(x) ==
    /\ x \notin Range(pending) \cup started
    /\ pending' = Append(pending, x)
    /\ UNCHANGED started

(* The loop starts the oldest item.                                        *)
Start ==
    /\ pending # <<>>
    /\ started' = started \cup {Head(pending)}
    /\ pending' = Tail(pending)

Next == Start \/ \E x \in Items : Submit(x)

Spec == Init /\ [][Next]_<<pending, started>>
================================================================================
