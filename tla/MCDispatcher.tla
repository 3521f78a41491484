------------------------------ MODULE MCDispatcher -----------------------------
(* Instances of Dispatcher for TLC.                                        *)
EXTENDS Dispatcher, TLC

(* Posters, callbacks and objects are interchangeable in the safety        *)
(* properties.                                                             *)
Symmetry ==
    Permutations(Posters) \cup Permutations(Callbacks) \cup Permutations(Objects)
================================================================================
