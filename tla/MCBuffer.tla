-------------------------------- MODULE MCBuffer -------------------------------
(* Instances of Buffer for TLC: bytes of three values, 0, CR and LF.       *)
EXTENDS Buffer

SomeData == {<<>>, <<0>>, <<CR>>, <<LF>>, <<CR, LF>>, <<LF, 0, CR>>}
SomeNumbers == {-1, 1}
================================================================================
