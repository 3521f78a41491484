------------------------------- MODULE MCFileEvent -----------------------------
(* Instances of FileEvent for TLC: an edge triggered file event with a     *)
(* mask that changes, and a level triggered one for reading.               *)
EXTENDS FileEvent, TLC
CONSTANTS f, g, Read, Write
MasksOfBoth == (f :> {{}, {Read}, {Read, Write}}) @@ (g :> {{Read}})
================================================================================
