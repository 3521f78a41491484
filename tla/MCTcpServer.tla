------------------------------- MODULE MCTcpServer -----------------------------
(* Instances of TcpServer for TLC.                                         *)
EXTENDS TcpServer, TLC
CONSTANTS l1, l2
OneLoop == <<l1>>
TwoLoops == <<l1, l2>>
================================================================================
