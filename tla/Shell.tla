------------------------------- MODULE Shell -------------------------------
(***************************************************************************)
(* `udb shell` (interactive or with a command) and `udb msh`: the client   *)
(* (client/src/shell.cpp: interactive_shell, exec_cmd, msh_exec_cmd) has a *)
(* command run to its end on the device and then drains the output in      *)
(* pieces of one datagram.  The server keeps one global control block and  *)
(* buffer per kind of command, and one current directory for everybody     *)
(* (udb_debug.c: udb_debug_runcmd, udb_debug_msh, their pull-outs, and     *)
(* uvc_runcmd_input_handle, which runs `cd` and `exit` in the server).     *)
(* Clients run one after the other and may be killed.  A client that       *)
(* platform_windows.cpp built sets a receive time-out of 100 ms; then a    *)
(* read may return with nothing and the client goes on.  Datagrams are not *)
(* lost here (PullFile models loss for the same kind of loop).             *)
(*                                                                         *)
(* A command line is a sequence of words; "|" and ";" are words too.       *)
(* Bytes are numbers, 0 is the C string terminator, Newline is '\n'.       *)
(***************************************************************************)
EXTENDS Integers, Sequences

CONSTANTS
    Dirs, Home,        \* the directories chdir can enter; the server's first one
    Lines,             \* the command lines a user types
    Output(_, _),      \* what sh -c prints for a line in a directory
    Help, Logs,        \* what `msh` prints; what the log may hold at `msh log`
    ProtSize,          \* udb_ctrl.prot_size
    BufSize,           \* sizeof(runcmd_buf)
    MaxSession, MaxCmd,  \* bounds: client processes, lines typed in one of them
    PopenMayFail,      \* TRUE: uvc_popen may return NULL
    Endless,           \* the lines with which fread or waitpid may never return: without
                       \* `timeout 3` ('-'), or something of theirs outlives it
    RecvTimeout,       \* TRUE: a client may have a receive time-out
    Unfixed            \* the command has not run yet

Newline == 10
Pwd == <<"pwd">>

ASSUME ShellAssumption ==
    /\ Home \in Dirs
    /\ ProtSize \in Nat \ {0} /\ BufSize \in Nat \ {0}
    /\ MaxSession \in Nat /\ MaxCmd \in Nat
    /\ PopenMayFail \in BOOLEAN /\ RecvTimeout \in BOOLEAN
    /\ Endless \subseteq Lines \ {Pwd}
    /\ Pwd \in Lines
    /\ \A line \in Lines, d \in Dirs : Output(line, d) \in Seq(Nat \ {0})
    /\ Help \in Seq(Nat \ {0}) /\ Logs \subseteq Seq(Nat \ {0})
    /\ Unfixed \notin Seq(Nat)

Kinds == {"RUN_CMD", "MSH_CMD"}

VARIABLES
    \* the server: udb_auth_ok, its current directory, whether it waits for a
    \* command that does not end, and for each kind of command the buffer and
    \* the sizes of udb_runcmd_ctrl / udb_mshcmd_ctrl
    udb_auth_ok, cwd, blocked, pullout, used_size, cp_offset,
    \* the network
    inbox, mail,
    \* the client: its number, how it was started, its place, what it is
    \* waiting for, lines typed, whether its socket has a receive time-out,
    \* and the locals of the drain loop
    session, mode, cpc, doing, typed, so_rcvtimeo, get_size, cp_size,
    \* the text shown for the current command; history: what that command
    \* printed on the device, and what was shown when a read of this client
    \* first timed out
    text, snap, kept

ctrlVars   == <<pullout, used_size, cp_offset>>
serverVars == <<udb_auth_ok, cwd, blocked, ctrlVars>>
clientVars == <<session, mode, cpc, doing, typed, so_rcvtimeo, get_size, cp_size, text, kept>>
vars == <<serverVars, inbox, mail, clientVars, snap>>

Init ==
    /\ udb_auth_ok = FALSE /\ cwd = Home /\ blocked = FALSE
    /\ pullout = [k \in Kinds |-> << >>]
    /\ used_size = [k \in Kinds |-> 0] /\ cp_offset = [k \in Kinds |-> 0]
    /\ inbox = << >> /\ mail = << >>
    /\ session = 0 /\ mode = "none" /\ cpc = "idle" /\ doing = "cmd" /\ typed = 0
    /\ so_rcvtimeo = FALSE /\ get_size = 0 /\ cp_size = 0
    /\ text = << >> /\ snap = Unfixed /\ kept = Unfixed

Waiting == cpc \in {"size", "piece"}
Running == Waiting \/ cpc \in {"shown", "prompt"}
InStep == kept = Unfixed     \* no read of this client timed out

Zeros(n) == [i \in 1 .. n |-> 0]
Prefix(s, n) == IF Len(s) <= n THEN s ELSE SubSeq(s, 1, n)

-----------------------------------------------------------------------------
(* uvc_runcmd_input_handle: split the line and run a built-in.               *)

HasWord(line, w) == \E i \in 1 .. Len(line) : line[i] = w

(* Only a line without ';' and without pipes is looked at. *)
IsSimple(line) == line # << >> /\ ~HasWord(line, ";") /\ ~HasWord(line, "|")

Chdir(line) == IF Len(line) >= 2 /\ line[2] \in Dirs THEN line[2] ELSE cwd

(* 1: a built-in was run, -1: it failed, 0: not a built-in. *)
InputHandle(line) ==
    IF ~IsSimple(line) THEN 0
    ELSE CASE line[1] = "exit" -> 1
           [] line[1] = "cd"   -> IF Len(line) >= 2 /\ line[2] \in Dirs THEN 1 ELSE -1
           [] OTHER            -> 0

-----------------------------------------------------------------------------
(* The server: one iteration of the net thread's loop per action.            *)

Received(chan) == ~blocked /\ inbox # << >> /\ Head(inbox).chan = chan
Mine == Head(inbox).sess = session /\ Running      \* its socket is open

SendTo(resp) == mail' = IF Mine THEN Append(mail, resp) ELSE mail

(* History: the output of the command that a client in step has just sent. *)
Record(out) == snap' = IF Mine /\ InStep THEN out ELSE snap

(* udb_debug_auth, for a `udb auth` of some other process. *)
udb_debug_auth ==
    /\ ~blocked
    /\ \E key_ok \in BOOLEAN : udb_auth_ok' = (udb_auth_ok \/ key_ok)
    /\ UNCHANGED <<cwd, blocked, ctrlVars, inbox, mail, clientVars, snap>>

(* udb_debug_bridge refuses: an empty answer. *)
udb_debug_bridge_refuse ==
    /\ ~blocked /\ inbox # << >> /\ ~udb_auth_ok
    /\ inbox' = Tail(inbox)
    /\ SendTo(<< >>)
    /\ Record(IF snap = Unfixed THEN << >> ELSE snap)
    /\ UNCHANGED <<serverVars, clientVars>>

(* A handler leaves out in the buffer and announces its size. *)
Announce(kind, out) ==
    /\ pullout' = [pullout EXCEPT ![kind] = out]
    /\ used_size' = [used_size EXCEPT ![kind] = Len(out)]
    /\ cp_offset' = [cp_offset EXCEPT ![kind] = 0]
    /\ SendTo(<<Len(out)>> \o Zeros(ProtSize - 1))
    /\ Record(out)

(* What the command gets to print: `timeout 3` may end it early (never so    *)
(* a mere pwd); what exceeds the buffer is not read.                         *)
Printed(line) ==
    LET out == Output(line, cwd)
    IN  {Prefix(out, BufSize - 1)} \cup
        (IF line = Pwd THEN {} ELSE {Prefix(SubSeq(out, 1, n), BufSize - 1) : n \in 0 .. Len(out)})

(* udb_debug_runcmd: a built-in answers with a newline; else popen and read  *)
(* the output to its end.  When popen fails the buffer is zeroed, the answer *)
(* empty and the sizes are those of the previous command.  With a command    *)
(* that does not end the thread stays in fread or in uvc_pclose's waitpid.   *)
udb_debug_runcmd ==
    /\ Received("RUN_CMD") /\ udb_auth_ok
    /\ inbox' = Tail(inbox)
    /\ LET line == Head(inbox).line
           ret  == InputHandle(line)
       IN  /\ cwd' = IF ret = 1 /\ line[1] = "cd" THEN Chdir(line) ELSE cwd
           /\ \/ /\ ret = 1
                 /\ Announce("RUN_CMD", <<Newline>>) /\ UNCHANGED blocked
              \/ /\ ret # 1
                 /\ \E out \in Printed(line) : Announce("RUN_CMD", out)
                 /\ UNCHANGED blocked
              \/ /\ ret # 1 /\ PopenMayFail
                 /\ pullout' = [pullout EXCEPT !["RUN_CMD"] = Zeros(Len(@))]
                 /\ SendTo(<< >>) /\ Record(<< >>)
                 /\ UNCHANGED <<blocked, used_size, cp_offset>>
              \/ /\ ret # 1 /\ line \in Endless
                 /\ blocked' = TRUE
                 /\ UNCHANGED <<ctrlVars, mail, snap>>
    /\ UNCHANGED <<udb_auth_ok, clientVars>>

(* udb_debug_msh: help, the log, or (any other word) a zeroed buffer whose   *)
(* sizes are those of the previous command and an answer of zeros.           *)
udb_debug_msh ==
    /\ Received("MSH_CMD") /\ udb_auth_ok
    /\ inbox' = Tail(inbox)
    /\ LET line == Head(inbox).line IN
       \/ /\ line = << >>
          /\ Announce("MSH_CMD", Help)
       \/ /\ line # << >> /\ line[1] = "log"
          /\ \E out \in Logs : Announce("MSH_CMD", out)
       \/ /\ line # << >> /\ line[1] # "log"
          /\ pullout' = [pullout EXCEPT !["MSH_CMD"] = Zeros(Len(@))]
          /\ SendTo(Zeros(ProtSize)) /\ Record(<< >>)
          /\ UNCHANGED <<used_size, cp_offset>>
    /\ UNCHANGED <<udb_auth_ok, cwd, blocked, clientVars>>

PulloutOf(kind) == IF kind = "RUN_CMD" THEN "RUN_CMD_PULLOUT" ELSE "MSH_CMD_PULLOUT"

\* MUTANT: the offset is not advanced.
NextOffset_stuck(kind, n) == cp_offset[kind]

NextOffset(kind, n) == cp_offset[kind] + n

(* udb_debug_runcmd_pullout and udb_debug_msh_pullout, the same code. *)
udb_debug_pullout(kind) ==
    /\ Received(PulloutOf(kind)) /\ udb_auth_ok
    /\ inbox' = Tail(inbox)
    /\ LET n == Head(inbox).cp
           next == NextOffset(kind, n)
       IN  IF cp_offset[kind] + n > used_size[kind]
           THEN SendTo(Zeros(ProtSize)) /\ UNCHANGED ctrlVars
           ELSE /\ SendTo(SubSeq(pullout[kind], cp_offset[kind] + 1, cp_offset[kind] + n)
                            \o Zeros(ProtSize - n))
                /\ IF next = used_size[kind]
                   THEN /\ used_size' = [used_size EXCEPT ![kind] = 0]
                        /\ cp_offset' = [cp_offset EXCEPT ![kind] = 0]
                        /\ pullout' = [pullout EXCEPT ![kind] = << >>]
                   ELSE /\ cp_offset' = [cp_offset EXCEPT ![kind] = next]
                        /\ UNCHANGED <<used_size, pullout>>
    /\ UNCHANGED <<udb_auth_ok, cwd, blocked, clientVars, snap>>

-----------------------------------------------------------------------------
(* The client.                                                               *)

Kind == IF mode = "msh" THEN "MSH_CMD" ELSE "RUN_CMD"

Command(sess, chan, line) ==
    Append(inbox, [sess |-> sess, chan |-> chan, line |-> line, cp |-> 0])
Pull(n) == Append(inbox, [sess |-> session, chan |-> PulloutOf(Kind), line |-> << >>, cp |-> n])

(* main starts exec_cmd, msh_exec_cmd, or interactive_shell, which asks for  *)
(* the directory first.                                                      *)
shell_start ==
    /\ ~Running /\ session < MaxSession
    /\ session' = session + 1 /\ mail' = << >>
    /\ \/ /\ mode' = "shell" /\ doing' = "first"
          /\ inbox' = Command(session + 1, "RUN_CMD", Pwd)
       \/ /\ mode' = "exec" /\ doing' = "cmd"
          /\ \E line \in Lines : inbox' = Command(session + 1, "RUN_CMD", line)
       \/ /\ mode' = "msh" /\ doing' = "cmd"
          /\ \E line \in {<< >>, <<"log">>, <<"x">>} :
                inbox' = Command(session + 1, "MSH_CMD", line)
    /\ so_rcvtimeo' \in IF RecvTimeout THEN BOOLEAN ELSE {FALSE}
    /\ cpc' = "size" /\ typed' = 0 /\ get_size' = 0 /\ cp_size' = 0
    /\ text' = << >> /\ snap' = Unfixed /\ kept' = Unfixed
    /\ UNCHANGED serverVars

Pad(dgram) == dgram \o Zeros(ProtSize - Len(dgram))

(* The ways udb_ctrl_read can fill the zeroed read_buf: with the next         *)
(* datagram, or, when the receive time-out is set, with nothing.              *)
Reads ==
    (IF mail # << >> THEN {[buf |-> Pad(Head(mail)), rest |-> Tail(mail), late |-> FALSE]}
     ELSE {})
    \cup (IF so_rcvtimeo THEN {[buf |-> Zeros(ProtSize), rest |-> mail, late |-> TRUE]} ELSE {})

(* The characters printf("%s") shows of a buffer. *)
CStr(buf) == LET ends == {i \in 1 .. Len(buf) : buf[i] = 0}
             IN  IF ends = {} THEN buf
                 ELSE SubSeq(buf, 1, (CHOOSE i \in ends : \A j \in ends : i <= j) - 1)

(* The prompt drops the newline that ends a piece, except in the first one. *)
Strip(s) == IF s # << >> /\ s[Len(s)] = Newline THEN SubSeq(s, 1, Len(s) - 1) ELSE s
Shown(s) == IF doing = "pwd" THEN Strip(s) ELSE s

(* History: after a first time-out the client takes each answer for that of  *)
(* a later request.                                                          *)
ToShow == IF snap = Unfixed \/ ~InStep THEN snap ELSE Shown(snap)
Keep(r) == IF r.late /\ InStep THEN kept' = text /\ snap' = ToShow
           ELSE UNCHANGED <<kept, snap>>

\* MUTANT: every piece is asked for as a full datagram.
PieceSize_full(left) == ProtSize
\* MUTANT: nothing is asked for when less than a datagram is left.
PieceSize_zero(left) == IF left < ProtSize THEN 0 ELSE ProtSize

PieceSize(left) == IF left < ProtSize THEN left ELSE ProtSize

(* The answer to the command: the size; ask for the first piece. *)
shell_size ==
    /\ cpc = "size"
    /\ \E r \in Reads :
          /\ mail' = r.rest /\ Keep(r)
          /\ get_size' = r.buf[1]
          /\ cp_size' = PieceSize(r.buf[1])
    /\ inbox' = Pull(cp_size')
    /\ cpc' = "piece"
    /\ UNCHANGED <<serverVars, session, mode, doing, typed, so_rcvtimeo, text>>

(* A piece that is not the last: show it, ask for the next. *)
shell_piece ==
    /\ cpc = "piece" /\ get_size - cp_size # 0
    /\ \E r \in Reads :
          /\ mail' = r.rest /\ Keep(r)
          /\ text' = text \o Shown(CStr(r.buf))
    /\ get_size' = get_size - cp_size
    /\ cp_size' = PieceSize(get_size')
    /\ inbox' = Pull(cp_size')
    /\ UNCHANGED <<serverVars, session, mode, cpc, doing, typed, so_rcvtimeo>>

(* Where the last piece leads: back to main, to the prompt, or (shown below) *)
(* from a command of the interactive shell to asking for the directory.      *)
AfterLast == CASE mode # "shell" -> "done"
               [] mode = "shell" /\ doing = "cmd" -> "shown"
               [] OTHER          -> "prompt"

shell_last ==
    /\ cpc = "piece" /\ get_size - cp_size = 0
    /\ \E r \in Reads :
          /\ mail' = r.rest /\ Keep(r)
          /\ text' = text \o Shown(CStr(r.buf))
    /\ get_size' = 0 /\ cp_size' = 0
    /\ cpc' = AfterLast
    /\ UNCHANGED <<serverVars, inbox, session, mode, doing, typed, so_rcvtimeo>>

(* History: a client in step starts to show the next command. *)
NextText == text' = << >> /\ snap' = IF InStep THEN Unfixed ELSE snap

\* MUTANT: the prompt is not asked for again, the old directory is shown.
shell_pwd_cached ==
    /\ cpc = "shown"
    /\ cpc' = "prompt" /\ doing' = "pwd"
    /\ text' = Strip(Output(Pwd, Home))
    /\ UNCHANGED <<serverVars, inbox, mail, session, mode, typed, so_rcvtimeo, get_size, cp_size,
                   snap, kept>>

(* After each command the interactive shell asks for the directory again. *)
shell_pwd ==
    /\ cpc = "shown"
    /\ inbox' = Command(session, "RUN_CMD", Pwd)
    /\ cpc' = "size" /\ doing' = "pwd"
    /\ NextText
    /\ UNCHANGED <<serverVars, mail, session, mode, typed, so_rcvtimeo, get_size, cp_size, kept>>

(* The user types a line; "exit" ends the client. *)
shell_type ==
    /\ cpc = "prompt" /\ typed < MaxCmd
    /\ \E line \in Lines :
          IF line # << >> /\ line[1] = "exit"
          THEN /\ cpc' = "done"
               /\ UNCHANGED <<inbox, doing, typed, text, snap>>
          ELSE /\ inbox' = Command(session, "RUN_CMD", line)
               /\ cpc' = "size" /\ doing' = "cmd" /\ typed' = typed + 1
               /\ NextText
    /\ UNCHANGED <<serverVars, mail, session, mode, so_rcvtimeo, get_size, cp_size, kept>>

(* The user interrupts a client that waits; its socket is gone.  (At the     *)
(* prompt this is no different from "exit".)                                 *)
Kill ==
    /\ Waiting
    /\ cpc' = "killed" /\ mail' = << >>
    /\ UNCHANGED <<serverVars, inbox, session, mode, doing, typed, so_rcvtimeo, get_size, cp_size,
                   text, snap, kept>>

-----------------------------------------------------------------------------
Server == \/ udb_debug_bridge_refuse \/ udb_debug_runcmd \/ udb_debug_msh
          \/ \E kind \in Kinds : udb_debug_pullout(kind)
Client == shell_size \/ shell_piece \/ shell_last \/ shell_pwd

Next == udb_debug_auth \/ Server \/ shell_start \/ Client \/ shell_type \/ Kill

Spec == Init /\ [][Next]_vars

(* The server keeps running until a command does not end; so does the        *)
(* client.  Nobody has to type.                                              *)
FairSpec == Spec /\ WF_vars(Server) /\ WF_vars(Client)

-----------------------------------------------------------------------------
(* Types; a client never waits for a negative or a made-up number of bytes,  *)
(* and the drain offset of each kind stays within what its command left.     *)
TypeOK ==
    /\ udb_auth_ok \in BOOLEAN /\ cwd \in Dirs /\ blocked \in BOOLEAN
    /\ \A k \in Kinds : /\ pullout[k] \in Seq(Nat)
                        /\ cp_offset[k] \in 0 .. used_size[k]
                        /\ used_size[k] <= Len(pullout[k])
    /\ cpc \in {"idle", "size", "piece", "shown", "prompt", "done", "killed"}
    /\ mode \in {"none", "shell", "exec", "msh"} /\ doing \in {"first", "pwd", "cmd"}
    /\ session \in 0 .. MaxSession /\ typed \in 0 .. MaxCmd
    /\ get_size \in Nat /\ cp_size \in 0 .. ProtSize /\ so_rcvtimeo \in BOOLEAN

(* Everything a command may leave in a buffer. *)
Texts == {<< >>, <<Newline>>, Help} \cup Logs
         \cup {Prefix(Output(l, d), n) : l \in Lines, d \in Dirs, n \in 0 .. BufSize - 1}

Phase == CASE ~InStep \/ cpc = "killed" -> "abandoned"
           [] InStep /\ Waiting       -> "copying"
           [] InStep /\ cpc = "idle"  -> "idle"
           [] OTHER                   -> "done"

FC == INSTANCE FileCopy WITH
         Contents <- Texts \cup {Strip(t) : t \in Texts},
         src   <- ToShow,
         dst   <- IF InStep THEN text ELSE kept,
         phase <- Phase

(* What `udb shell` and `udb msh` show is, at every moment, a prefix of what *)
(* this very command left in the server's buffer, and all of it when the     *)
(* prompt comes back or the client returns, whatever an earlier, killed      *)
(* client left in the control blocks or in the queue, and also when popen    *)
(* failed or the client is refused (udb_debug_runcmd, udb_debug_pullout, the *)
(* drain loops of shell.cpp).  This is so up to the moment a read of the     *)
(* client times out: from then on it takes each answer for that of a later   *)
(* request, until the end of the process; the client after it shows its own  *)
(* output again, although the server may still answer the old requests.      *)
ShowsOutput == FC!Spec

(* The directory in the prompt of the interactive shell is the one the next  *)
(* command will run in: `cd` runs in the server, the prompt is fetched       *)
(* afterwards, and what a killed or timed-out client had still queued comes  *)
(* before (interactive_shell, uvc_runcmd_input_handle).  A client whose      *)
(* own reads timed out shows the answers late and promises nothing.          *)
PromptTellsDirectory ==
    cpc = "prompt" /\ InStep /\ text # << >> =>
        LET out == Prefix(Output(Pwd, cwd), BufSize - 1) IN text \in {out, Strip(out)}

(* A command that was sent comes to its end: the client gets back to the     *)
(* prompt or returns (the drain loops of shell.cpp make progress with every  *)
(* answer), unless it has no time-out and the server, which runs commands in *)
(* its only network thread, waits for one that does not end (fread in        *)
(* udb_debug_runcmd, waitpid in uvc_pclose): then every client hangs.        *)
ShellReturns ==
    cpc \in {"size", "piece", "shown"} ~>
        cpc \in {"prompt", "done", "killed"} \/ (blocked /\ ~so_rcvtimeo)
=============================================================================
