---------------------------- MODULE MCRunCmdWait ----------------------------
(* RunCmdWait for TLC.  Two clients (so two commands, one after the other or *)
(* side by side).  An answer carries Cap = 5 bytes: the first command prints *)
(* two short lines that fit one answer together, the second one line that is *)
(* longer than an answer.                                                    *)
EXTENDS RunCmdWait, TLC

CONSTANTS c1, c2

MCOutput == (c1 :> << <<1>>, <<2>> >>) @@ (c2 :> << <<3, 4, 5, 6, 7, 8>> >>)
=============================================================================
