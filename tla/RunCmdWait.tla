----------------------------- MODULE RunCmdWait -----------------------------
(***************************************************************************)
(* `udb runcmd`: run a command on the device and show its output while it  *)
(* runs.  Three kinds of process share udb_runcmd_wait_ctrl, runcmd_buf    *)
(* and the receive buffer of the net thread, without a lock around them:   *)
(*                                                                         *)
(*   - the net thread (net_debugd.c): receives a datagram, calls the       *)
(*     handler, answers, zeroes its buffer;                                *)
(*   - one worker thread per accepted RUN_CMD_WAIT request                 *)
(*     (udb_debug_runcmd_wait_thread): copies the command OUT OF THE NET   *)
(*     THREAD'S BUFFER, runs it, appends its output line by line;          *)
(*   - the clients (client/src/shell.cpp, exec_cmd_wait): ask, then poll.  *)
(*                                                                         *)
(* Shared words are read and written one at a time in program order.  The  *)
(* server is already authenticated.  Datagrams are neither lost nor        *)
(* reordered here (PullFile models loss), and the client is the Linux one, *)
(* whose receive blocks (PullFile, PushFile and Shell model the Windows    *)
(* client, whose receive gives up after 100 ms).                           *)
(***************************************************************************)
EXTENDS Integers, Sequences, FiniteSets

CONSTANTS
    Client,        \* client processes; a client stands for the command it sends too
    Output,        \* Output[c]: the lines command c prints, each a sequence of characters
    ProtSize,      \* UDB_PROT_SIZE, the size of a datagram
    BufSize,       \* sizeof(runcmd_buf)
    U32,           \* unsigned int arithmetic is modulo U32
    Limit,         \* the 300 ms after which a worker gives up, in ticks
    ClockMod,      \* os_time_get_boot_ms() wraps at ClockMod ticks
    MayWrap,       \* FALSE: the device is not up long enough for that
    Concurrent,    \* TRUE: clients run side by side; FALSE: one after the other
    MayKill,       \* TRUE: a client may be killed at any time
    MayStall,      \* TRUE: a polling client may stay silent longer than Limit
    PopenMayFail,  \* TRUE: uvc_popen may return NULL
    CreateMayFail  \* TRUE: pthread_create may fail

Empty == "empty"      \* the empty command string: a zeroed receive buffer
Torn  == "torn"       \* a command string read while it was being zeroed
NoCmd == "nocmd"

ASSUME WaitAssumption ==
    /\ ProtSize \in Nat /\ ProtSize > 1
    /\ BufSize \in Nat /\ U32 \in Nat /\ U32 > BufSize + ProtSize
    /\ Limit \in Nat /\ ClockMod \in Nat /\ ClockMod > 2 * Limit
    /\ {MayWrap, Concurrent, MayKill, MayStall, PopenMayFail, CreateMayFail} \subseteq BOOLEAN
    /\ Client \cap {Empty, Torn, NoCmd} = {}
    /\ Output \in [Client -> Seq(Seq(Nat \ {0}))]

VARIABLES
    \* udb_runcmd_wait_ctrl and the static buffer it points to
    single_instance, cmd_finish, used_size, cp_offset, tm_last_update, runcmd_buf,
    \* the net thread: where it is, the request in hand, the command string at
    \* buf + 4, and the locals of udb_debug_runcmd_wait_pullout
    npc, req, netbuf, pull_finish, cp_size,
    \* the worker of each client's request
    wpc, thread_cmd, nlines, tm_curr,
    \* the clients and the datagrams under way
    cpc, printed, reply, inbox,
    \* the boot clock
    now,
    \* history: ticks since the last poll, and since the worker read tm_curr;
    \* whether the clock wrapped since one of the two; the clients a poll of
    \* which was handled before their worker had reset cmd_finish
    elapsed, lag, wrapped, early

ctrlVars   == <<single_instance, cmd_finish, used_size, cp_offset, tm_last_update, runcmd_buf>>
netVars    == <<npc, req, netbuf, pull_finish, cp_size>>
workerVars == <<wpc, thread_cmd, nlines, tm_curr>>
clientVars == <<cpc, printed, reply, inbox>>
timeVars   == <<now, elapsed, lag, wrapped>>
vars == <<ctrlVars, netVars, workerVars, clientVars, timeVars, early>>

Cap == ProtSize - 1          \* payload of a RUN_CMD_WAIT_PULLOUT answer
NoReq == [from |-> NoCmd, chan |-> "none"]
NoReply == [state |-> -1, data |-> << >>]

(* What the program sh -c runs for a command string prints. *)
Lines(cmd) == IF cmd \in Client THEN Output[cmd] ELSE << >>

(* The request of c has the slot: its worker runs, or could not be created.  *)
WorkerActive(c) == wpc[c] \notin {"none", "gone"}
(* The request was accepted, but its worker has not executed cmd_finish = 0. *)
WorkerStale(c) == wpc[c] \in {"reset_used", "reset_finish", "nothread"}

-----------------------------------------------------------------------------
Init ==
    /\ single_instance = 0 /\ cmd_finish = 0 /\ used_size = 0 /\ cp_offset = 0
    /\ tm_last_update = 0 /\ runcmd_buf = [i \in 0 .. BufSize - 1 |-> 0]
    /\ npc = "recv" /\ req = NoReq /\ netbuf = Empty /\ pull_finish = 0 /\ cp_size = 0
    /\ wpc = [c \in Client |-> "none"]
    /\ thread_cmd = [c \in Client |-> NoCmd]
    /\ nlines = [c \in Client |-> 0]
    /\ tm_curr = 0
    /\ cpc = [c \in Client |-> "idle"]
    /\ printed = [c \in Client |-> << >>]
    /\ reply = [c \in Client |-> NoReply]
    /\ inbox = << >>
    /\ now = 0 /\ elapsed = 0 /\ lag = 0 /\ wrapped = FALSE /\ early = {}

-----------------------------------------------------------------------------
(* Clients: exec_cmd_wait.                                                  *)

Live(c) == cpc[c] \notin {"idle", "rejected", "done", "killed"}

Send(c, chan) == inbox' = Append(inbox, [from |-> c, chan |-> chan])

exec_cmd_wait_start(c) ==
    /\ cpc[c] = "idle"
    /\ Concurrent \/ \A d \in Client : ~Live(d)
    /\ Send(c, "RUN_CMD_WAIT")
    /\ cpc' = [cpc EXCEPT ![c] = "asked"]
    /\ UNCHANGED <<ctrlVars, netVars, workerVars, printed, reply, timeVars, early>>

(* The answer to RUN_CMD_WAIT: the support flag. *)
exec_cmd_wait_accept(c) ==
    /\ cpc[c] = "asked" /\ reply[c] # NoReply
    /\ cpc' = [cpc EXCEPT ![c] = IF reply[c].state = 1 THEN "poll" ELSE "rejected"]
    /\ reply' = [reply EXCEPT ![c] = NoReply]
    /\ UNCHANGED <<ctrlVars, netVars, workerVars, printed, inbox, timeVars, early>>

exec_cmd_wait_poll(c) ==
    /\ cpc[c] = "poll"
    /\ Send(c, "RUN_CMD_WAIT_PULLOUT")
    /\ cpc' = [cpc EXCEPT ![c] = "polled"]
    /\ UNCHANGED <<ctrlVars, netVars, workerVars, printed, reply, timeVars, early>>

(* The answer to a poll: print it, leave when its state byte is 1.  The      *)
(* usleep of a poll without output is absorbed in when the next poll comes.  *)
exec_cmd_wait_print(c) ==
    /\ cpc[c] = "polled" /\ reply[c] # NoReply
    /\ printed' = [printed EXCEPT ![c] = @ \o reply[c].data]
    /\ cpc' = [cpc EXCEPT ![c] = IF reply[c].state = 1 THEN "done" ELSE "poll"]
    /\ reply' = [reply EXCEPT ![c] = NoReply]
    /\ UNCHANGED <<ctrlVars, netVars, workerVars, inbox, timeVars, early>>

(* The user interrupts the client. *)
Kill(c) ==
    /\ MayKill /\ Live(c)
    /\ cpc' = [cpc EXCEPT ![c] = "killed"]
    /\ reply' = [reply EXCEPT ![c] = NoReply]
    /\ UNCHANGED <<ctrlVars, netVars, workerVars, printed, inbox, timeVars, early>>

-----------------------------------------------------------------------------
(* The net thread: net_debugd_entry_thread and the two handlers.            *)

(* recvfrom overwrites the buffer a worker may still be reading: the content *)
(* of a poll is zero where the command of a RUN_CMD_WAIT stands.             *)
net_recv ==
    /\ npc = "recv" /\ inbox # << >>
    /\ LET r == Head(inbox) IN
       /\ req' = r
       /\ netbuf' = IF r.chan = "RUN_CMD_WAIT" THEN r.from ELSE Empty
       /\ npc' = r.chan
    /\ inbox' = Tail(inbox)
    /\ UNCHANGED <<ctrlVars, pull_finish, cp_size, workerVars, cpc, printed, reply,
                   timeVars, early>>

(* sendto: the answer reaches the socket of a client that still runs. *)
Answer(c, state, data) ==
    reply' = IF Live(c) THEN [reply EXCEPT ![c] = [state |-> state, data |-> data]]
             ELSE reply

PollSeen == /\ elapsed' = 0 /\ lag' = lag
            /\ wrapped' = (wrapped /\ \E c \in Client : wpc[c] = "check")

(* pthread_create and pthread_detach, both unchecked, and the answer.  When  *)
(* no thread can be created, pthread_detach gets an id that was never        *)
(* written: it returns an error, or the server dies of it.                   *)
start_worker(c) ==
    \/ /\ \/ wpc' = [wpc EXCEPT ![c] = "reset_used"]
          \/ CreateMayFail /\ wpc' = [wpc EXCEPT ![c] = "nothread"]
       /\ Answer(c, 1, << >>) /\ npc' = "clear"
    \/ /\ CreateMayFail /\ wpc' = [wpc EXCEPT ![c] = "nothread"]
       /\ npc' = "dead" /\ UNCHANGED reply

\* MUTANT: no check of single_instance.
udb_debug_runcmd_wait_unguarded ==
    /\ npc = "RUN_CMD_WAIT"
    /\ single_instance' = 1
    /\ tm_last_update' = now
    /\ start_worker(req.from)
    /\ cp_offset' = 0
    /\ PollSeen
    /\ UNCHANGED <<cmd_finish, used_size, runcmd_buf, req, netbuf, pull_finish, cp_size,
                   thread_cmd, nlines, tm_curr, cpc, printed, inbox, now, early>>

\* MUTANT: cp_offset keeps the value the previous command left.
udb_debug_runcmd_wait_keep_offset ==
    /\ npc = "RUN_CMD_WAIT"
    /\ \/ /\ single_instance = 1
          /\ Answer(req.from, 0, << >>)
          /\ UNCHANGED <<single_instance, tm_last_update, cp_offset, wpc, elapsed, lag, wrapped>>
          /\ npc' = "clear"
       \/ /\ single_instance = 0
          /\ single_instance' = 1
          /\ tm_last_update' = now
          /\ start_worker(req.from)
          /\ cp_offset' = cp_offset
          /\ PollSeen
    /\ UNCHANGED <<cmd_finish, used_size, runcmd_buf, req, netbuf, pull_finish, cp_size,
                   thread_cmd, nlines, tm_curr, cpc, printed, inbox, now, early>>

(* udb_debug_runcmd_wait: refuse while a worker is active, else start one.   *)
(* It leaves used_size and cmd_finish to the worker.  One action: the new    *)
(* worker touches neither cp_offset nor the answer, which the handler writes *)
(* after pthread_create.                                                     *)
udb_debug_runcmd_wait ==
    /\ npc = "RUN_CMD_WAIT"
    /\ \/ /\ single_instance = 1
          /\ Answer(req.from, 0, << >>)
          /\ UNCHANGED <<single_instance, tm_last_update, cp_offset, wpc, elapsed, lag, wrapped>>
          /\ npc' = "clear"
       \/ /\ single_instance = 0
          /\ single_instance' = 1
          /\ tm_last_update' = now
          /\ start_worker(req.from)
          /\ cp_offset' = 0
          /\ PollSeen
    /\ UNCHANGED <<cmd_finish, used_size, runcmd_buf, req, netbuf, pull_finish, cp_size,
                   thread_cmd, nlines, tm_curr, cpc, printed, inbox, now, early>>

Sub32(a, b) == (a - b) % U32

(* udb_debug_runcmd_wait_pullout reads cmd_finish once, and used_size twice  *)
(* (in the -O2 build of server/build): in wait_pullout_state and, since      *)
(* resp[0] = pull_finish may alias it, again in wait_pullout_copy.           *)
wait_pullout_begin ==
    /\ npc = "RUN_CMD_WAIT_PULLOUT"
    /\ pull_finish' = cmd_finish
    /\ early' = IF WorkerStale(req.from) THEN early \cup {req.from} ELSE early
    /\ npc' = "pullout_state"
    /\ UNCHANGED <<ctrlVars, req, netbuf, cp_size, workerVars, clientVars, timeVars>>

\* MUTANT: the last answer is recognised only once everything has been sent.
wait_pullout_state_after_end ==
    /\ npc = "pullout_state"
    /\ LET short == cp_offset > used_size IN
       /\ pull_finish' = IF short THEN pull_finish ELSE 0
       /\ cp_size' = IF short THEN Sub32(used_size, cp_offset) ELSE Cap
    /\ npc' = "pullout_copy"
    /\ UNCHANGED <<ctrlVars, req, netbuf, workerVars, clientVars, timeVars, early>>

(* Less than an answer's payload is left: send that much, and if the command *)
(* is over this is the last answer.                                          *)
wait_pullout_state ==
    /\ npc = "pullout_state"
    /\ LET short == (cp_offset + Cap) % U32 > used_size IN
       /\ pull_finish' = IF short THEN pull_finish ELSE 0
       /\ cp_size' = IF short THEN Sub32(used_size, cp_offset) ELSE Cap
    /\ npc' = "pullout_copy"
    /\ UNCHANGED <<ctrlVars, req, netbuf, workerVars, clientVars, timeVars, early>>

(* The byte at an offset of the static buffer; past its end, zeroed memory.  *)
Byte(i) == IF i < BufSize THEN runcmd_buf[i] ELSE 0
StrLen(off) == CHOOSE n \in 0 .. BufSize :
                  /\ Byte(off + n) = 0
                  /\ \A m \in 0 .. n - 1 : Byte(off + m) # 0

MinOf(a, b) == IF a <= b THEN a ELSE b

(* How many bytes are copied: what was decided before, at most what is left, *)
(* at most one line with its terminating NUL.                                *)
PulloutSize ==
    MinOf(MinOf(cp_size, Sub32(used_size, cp_offset)), StrLen(cp_offset) + 1)

(* The bytes of the answer as a C string: what the client prints. *)
CString(off, n) == [i \in 1 .. MinOf(n, StrLen(off)) |-> Byte(off + i - 1)]

(* The rest of udb_debug_runcmd_wait_pullout, sendto included: copy one line *)
(* at most; when pull_finish, reset the offsets and zero the whole buffer.   *)
wait_pullout_copy ==
    /\ npc = "pullout_copy"
    /\ LET n == PulloutSize IN
       /\ Answer(req.from, pull_finish, CString(cp_offset, n))
       /\ IF pull_finish = 1
          THEN /\ used_size' = 0 /\ cp_offset' = 0
               /\ runcmd_buf' = [i \in 0 .. BufSize - 1 |-> 0]
          ELSE /\ cp_offset' = (cp_offset + n) % U32
               /\ UNCHANGED <<used_size, runcmd_buf>>
    /\ tm_last_update' = now /\ PollSeen
    /\ npc' = "clear"
    /\ UNCHANGED <<single_instance, cmd_finish, req, netbuf, pull_finish, cp_size,
                   workerVars, cpc, printed, inbox, now, early>>

(* memset(buf, 0, ...) after the answer has been sent. *)
net_clear ==
    /\ npc = "clear"
    /\ netbuf' = Empty
    /\ req' = NoReq
    /\ pull_finish' = 0 /\ cp_size' = 0     \* dead until the next poll sets them
    /\ npc' = "recv"
    /\ UNCHANGED <<ctrlVars, workerVars, clientVars, timeVars, early>>

-----------------------------------------------------------------------------
(* The worker thread: udb_debug_runcmd_wait_thread.                         *)

Goto(c, pc) == wpc' = [wpc EXCEPT ![c] = pc]

\* MUTANT: used_size keeps the length of the previous command's output.
worker_reset_used_skipped(c) ==
    /\ wpc[c] = "reset_used"
    /\ Goto(c, "reset_finish")
    /\ UNCHANGED <<ctrlVars, netVars, thread_cmd, nlines, tm_curr, clientVars, timeVars, early>>

worker_reset_used(c) ==
    /\ wpc[c] = "reset_used"
    /\ used_size' = 0
    /\ Goto(c, "reset_finish")
    /\ UNCHANGED <<single_instance, cmd_finish, cp_offset, tm_last_update, runcmd_buf, netVars,
                   thread_cmd, nlines, tm_curr, clientVars, timeVars, early>>

\* MUTANT: cmd_finish keeps the value the previous command left.
worker_reset_finish_skipped(c) ==
    /\ wpc[c] = "reset_finish"
    /\ Goto(c, "copy")
    /\ UNCHANGED <<ctrlVars, netVars, thread_cmd, nlines, tm_curr, clientVars, timeVars, early>>

worker_reset_finish(c) ==
    /\ wpc[c] = "reset_finish"
    /\ cmd_finish' = 0
    /\ Goto(c, "copy")
    /\ UNCHANGED <<single_instance, used_size, cp_offset, tm_last_update, runcmd_buf, netVars,
                   thread_cmd, nlines, tm_curr, clientVars, timeVars, early>>

(* memcpy(thread_cmd, cmd, strlen(cmd)) from the net thread's buffer, which   *)
(* the net thread may have zeroed, be zeroing or have filled again.           *)
worker_copy(c) ==
    /\ wpc[c] = "copy"
    /\ \E s \in {netbuf} \cup (IF npc = "clear" /\ netbuf # Empty THEN {Torn, Empty} ELSE {}) :
          thread_cmd' = [thread_cmd EXCEPT ![c] = s]
    /\ Goto(c, "popen")
    /\ UNCHANGED <<ctrlVars, netVars, nlines, tm_curr, clientVars, timeVars, early>>

\* MUTANT: the error path returns without going to exit_handle.
worker_popen_leak(c) ==
    /\ wpc[c] = "popen"
    /\ \/ Goto(c, "fgets")
       \/ PopenMayFail /\ Goto(c, "gone")
    /\ UNCHANGED <<ctrlVars, netVars, thread_cmd, nlines, tm_curr, clientVars, timeVars, early>>

worker_popen(c) ==
    /\ wpc[c] = "popen"
    /\ \/ Goto(c, "fgets")
       \/ PopenMayFail /\ Goto(c, "exit_handle")
    /\ UNCHANGED <<ctrlVars, netVars, thread_cmd, nlines, tm_curr, clientVars, timeVars, early>>

(* fgets returns a line, and the clock is read; or it meets the end of file. *)
worker_fgets(c) ==
    /\ wpc[c] = "fgets"
    /\ IF nlines[c] < Len(Lines(thread_cmd[c]))
       THEN tm_curr' = now /\ lag' = 0 /\ Goto(c, "check")
       ELSE Goto(c, "pclose") /\ UNCHANGED <<tm_curr, lag>>
    /\ UNCHANGED <<ctrlVars, netVars, thread_cmd, nlines, clientVars, now, elapsed, wrapped, early>>

\* MUTANT: the age of the last poll as a plain unsigned difference.
TmDiff_unsigned == (tm_curr - tm_last_update) % U32

TmDiff == IF tm_curr > tm_last_update THEN tm_curr - tm_last_update
          ELSE tm_last_update - tm_curr

(* No poll for too long: uvc_pclose, and leave without cmd_finish = 1. *)
worker_timeout(c) ==
    /\ wpc[c] = "check" /\ TmDiff > Limit
    /\ tm_curr' = 0 /\ lag' = 0
    /\ Goto(c, "exit_handle")
    /\ UNCHANGED <<ctrlVars, netVars, thread_cmd, nlines, clientVars, now, elapsed, wrapped, early>>

(* Append the line and its NUL to the buffer. *)
worker_append(c) ==
    /\ wpc[c] = "check" /\ TmDiff <= Limit
    /\ LET line == Lines(thread_cmd[c])[nlines[c] + 1]
           len  == Len(line) + 1
       IN  /\ runcmd_buf' = [i \in 0 .. BufSize - 1 |->
                 IF i < used_size \/ i >= used_size + len THEN runcmd_buf[i]
                 ELSE IF i = used_size + len - 1 THEN 0
                 ELSE line[i - used_size + 1]]
           /\ used_size' = used_size + len
    /\ nlines' = [nlines EXCEPT ![c] = @ + 1]
    /\ tm_curr' = 0 /\ lag' = 0
    /\ Goto(c, "fgets")
    /\ UNCHANGED <<single_instance, cmd_finish, cp_offset, tm_last_update, netVars,
                   thread_cmd, clientVars, now, elapsed, wrapped, early>>

(* End of file: uvc_pclose waits for the child to exit. *)
worker_pclose(c) ==
    /\ wpc[c] = "pclose"
    /\ Goto(c, "finish")
    /\ UNCHANGED <<ctrlVars, netVars, thread_cmd, nlines, tm_curr, clientVars, timeVars, early>>

worker_finish(c) ==
    /\ wpc[c] = "finish"
    /\ cmd_finish' = 1
    /\ Goto(c, "exit_handle")
    /\ UNCHANGED <<single_instance, used_size, cp_offset, tm_last_update, runcmd_buf, netVars,
                   thread_cmd, nlines, tm_curr, clientVars, timeVars, early>>

(* exit_handle: give the slot back. *)
worker_exit_handle(c) ==
    /\ wpc[c] = "exit_handle"
    /\ single_instance' = 0
    /\ Goto(c, "gone")
    /\ elapsed' = 0 /\ wrapped' = FALSE     \* history of a worker that is over
    /\ UNCHANGED <<cmd_finish, used_size, cp_offset, tm_last_update, runcmd_buf, netVars,
                   thread_cmd, nlines, tm_curr, clientVars, now, lag, early>>

-----------------------------------------------------------------------------
(* Time, which matters to a worker only.  A worker may be held up for any    *)
(* time between its read of the clock and its read of tm_last_update; a      *)
(* client that is not stalled polls within the limit.                        *)
Tick ==
    /\ \E c \in Client : WorkerActive(c)
    /\ MayStall \/ ((\E c \in Client : Live(c)) => elapsed < Limit)
    /\ MayWrap \/ now + 1 < ClockMod
    /\ now' = (now + 1) % ClockMod
    /\ elapsed' = MinOf(elapsed + 1, Limit + 1)
    /\ lag' = IF \E c \in Client : wpc[c] = "check" THEN MinOf(lag + 1, Limit + 1) ELSE lag
    /\ wrapped' = (wrapped \/ now' = 0)
    /\ UNCHANGED <<ctrlVars, netVars, workerVars, clientVars, early>>

ClientStep(c) == \/ exec_cmd_wait_start(c) \/ exec_cmd_wait_accept(c)
                 \/ exec_cmd_wait_poll(c)  \/ exec_cmd_wait_print(c)

NetStep == \/ net_recv \/ udb_debug_runcmd_wait
           \/ wait_pullout_begin \/ wait_pullout_state \/ wait_pullout_copy \/ net_clear

WorkerStep(c) == \/ worker_reset_used(c) \/ worker_reset_finish(c) \/ worker_copy(c)
                 \/ worker_popen(c) \/ worker_fgets(c)
                 \/ worker_timeout(c) \/ worker_append(c)
                 \/ worker_pclose(c) \/ worker_finish(c) \/ worker_exit_handle(c)

Next == \/ NetStep \/ Tick
        \/ \E c \in Client : ClientStep(c) \/ Kill(c) \/ WorkerStep(c)

Spec == Init /\ [][Next]_vars

(* Every thread and process that can run is eventually scheduled, and the    *)
(* commands end: the assumption of the liveness properties.  Clock ticks     *)
(* and kills need not happen.                                                *)
FairSpec == /\ Spec
            /\ WF_vars(NetStep)
            /\ \A c \in Client : WF_vars(ClientStep(c)) /\ WF_vars(WorkerStep(c))

-----------------------------------------------------------------------------
(* Properties.                                                              *)

(* Types; the output of the commands fits the buffer, so used_size and       *)
(* cp_offset stay within it (worker_append, wait_pullout_copy).              *)
TypeOK ==
    /\ single_instance \in {0, 1} /\ cmd_finish \in {0, 1} /\ pull_finish \in {0, 1}
    /\ used_size \in 0 .. BufSize
    /\ cp_offset \in 0 .. U32 - 1 /\ cp_size \in 0 .. U32 - 1
    /\ tm_last_update \in 0 .. ClockMod - 1 /\ now \in 0 .. ClockMod - 1
    /\ npc \in {"recv", "RUN_CMD_WAIT", "RUN_CMD_WAIT_PULLOUT", "pullout_state", "pullout_copy",
               "clear", "dead"}
    /\ netbuf \in Client \cup {Empty}
    /\ wpc \in [Client -> {"none", "reset_used", "reset_finish", "copy", "popen", "fgets",
                           "check", "pclose", "finish", "exit_handle", "gone", "nothread"}]
    /\ thread_cmd \in [Client -> Client \cup {Empty, Torn, NoCmd}]
    /\ cpc \in [Client -> {"idle", "asked", "poll", "polled", "rejected", "done", "killed"}]

(* "runcmd: only support single instance": two workers never run at once,    *)
(* although the flag is read without the mutex (udb_debug_runcmd_wait) and   *)
(* cleared by another thread (exit_handle).                                  *)
SingleInstance ==
    /\ \A c, d \in Client : WorkerActive(c) /\ WorkerActive(d) => c = d
    /\ (\E c \in Client : WorkerActive(c)) <=> single_instance = 1

(* All characters of the first n lines, and of all lines. *)
TextUpto(lines) ==
    LET upto[n \in 0 .. Len(lines)] == IF n = 0 THEN << >> ELSE upto[n - 1] \o lines[n]
    IN  upto
Text(lines) == TextUpto(lines)[Len(lines)]

IsPrefixOf(s, t) == Len(s) <= Len(t) /\ SubSeq(t, 1, Len(s)) = s

(* What a client prints is a prefix of what its worker's command printed,    *)
(* with no byte skipped, repeated or taken from an earlier command: worker   *)
(* and net thread move used_size, cp_offset and the buffer without a lock,   *)
(* lines longer than a datagram are cut and continued.  It needs the worker  *)
(* to have reset cmd_finish before the first poll (early is empty).          *)
OutputFaithful ==
    \A c \in Client : c \notin early => IsPrefixOf(printed[c], Text(Lines(thread_cmd[c])))

(* "run cmd and wait for exit", unless a poll overtook the worker's reset of *)
(* cmd_finish: a client that returns does so after its command was read to   *)
(* the end and uvc_pclose has waited for it.                                 *)
WaitsForExit ==
    \A c \in Client : cpc[c] = "done" /\ c \notin early =>
        /\ wpc[c] \in {"exit_handle", "gone"}
        /\ nlines[c] = Len(Lines(thread_cmd[c]))

(* A worker leaves without having said that its command is over only when    *)
(* popen failed, when no poll was handled for longer than the limit, when it *)
(* was itself held up for longer than the limit between its read of the      *)
(* clock and its read of tm_last_update, or when the 32-bit millisecond      *)
(* clock wrapped between the two instants it compares; a poll that slips in  *)
(* between the two reads, so that the instants come in the other order, is   *)
(* no reason (TmDiff, worker_timeout, worker_finish).                        *)
AbortJustified ==
    [][\A c \in Client :
          wpc[c] # "exit_handle" /\ wpc'[c] = "exit_handle" /\ cmd_finish' = 0
             => wpc[c] = "popen" \/ elapsed > Limit \/ lag > Limit \/ wrapped]_vars

(* Whatever way a worker ends (end of file, time-out, failed popen), the     *)
(* single-instance slot is given back; only a worker that could not be       *)
(* created keeps it for good.                                                *)
InstanceReleased ==
    single_instance = 1 ~> single_instance = 0 \/ \E c \in Client : wpc[c] = "nothread"

(* A client that was accepted returns (the loop of exec_cmd_wait ends) or is *)
(* killed, unless its worker left without saying that the command is over,   *)
(* which AbortJustified restricts, or could not be created.                  *)
ClientReturns ==
    \A c \in Client : cpc[c] = "poll" ~>
        cpc[c] \in {"done", "killed"} \/ (wpc[c] \in {"gone", "nothread"} /\ cmd_finish = 0)

-----------------------------------------------------------------------------
(* What the usage text and the comments say, without the provisos above.     *)

(* client/src/udb.cpp "runcmd [cmd] : run cmd and wait for exit".            *)
ReturnsAfterExit ==
    \A c \in Client : cpc[c] = "done" => wpc[c] \in {"exit_handle", "gone"}

(* server/src/udb_debug.c "send mem data to host,when finish, free mem".     *)
AllOutputSent ==
    \A c \in Client : cpc[c] = "done" /\ c \notin early =>
        printed[c] = Text(Lines(thread_cmd[c]))

(* client/src/udb.cpp "runcmd [cmd] : run cmd ...": the command that runs on *)
(* the device is the one the client sent.                                    *)
RunsRequestedCommand == \A c \in Client : thread_cmd[c] \in {NoCmd, c}
=============================================================================
