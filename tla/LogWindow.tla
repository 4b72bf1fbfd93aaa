------------------------------ MODULE LogWindow ------------------------------
(***************************************************************************)
(* What the firmware log promises its reader: `udb msh log` shows the last *)
(* N bytes that were printed, in order, and nothing else.  No buffer, no   *)
(* head, no wrap-around.  RingLog (server/src/rlog.c) implements it.       *)
(***************************************************************************)
EXTENDS Integers, Sequences

CONSTANTS Char,      \* the characters a message is made of
          N,         \* capacity of the log, RLOG_MAX_LOG_BUF_SIZE
          MaxLog     \* longest message stored, RLOG_MAX_ONE_LOG_SIZE - 2

VARIABLES window,    \* the bytes the log holds
          shown      \* what the last `msh log` copied out

LastN(s) == IF Len(s) <= N THEN s ELSE SubSeq(s, Len(s) - N + 1, Len(s))

Init == window = << >> /\ shown = << >>

Log(s) == window' = LastN(window \o s) /\ shown' = shown

Show == shown' = window /\ window' = window

Next == \/ \E n \in 0 .. MaxLog : \E s \in [1 .. n -> Char] : Log(s)
        \/ Show

Spec == Init /\ [][Next]_<<window, shown>>
=============================================================================
