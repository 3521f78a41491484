------------------------------ MODULE MCThreadPool -----------------------------
(* Instances of ThreadPool for TLC.                                        *)
EXTENDS ThreadPool, TLC

(* Workers, clients and tasks are interchangeable in the safety properties.*)
Symmetry == Permutations(Workers) \cup Permutations(Clients) \cup Permutations(Tasks)
================================================================================
