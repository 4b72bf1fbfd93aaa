------------------------------- MODULE MCPopen -------------------------------
(* Popen for TLC: two calls of the net thread and one of the worker.  Four   *)
(* descriptors are enough for both threads at once; after a failed fork      *)
(* they run out.                                                             *)
EXTENDS Popen

MCFd == 3 .. 6
MCMaxRound == [net |-> 2, worker |-> 1]
=============================================================================
