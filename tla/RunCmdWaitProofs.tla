--------------------------- MODULE RunCmdWaitProofs ---------------------------
(***************************************************************************)
(* For any number of clients, commands and outputs: at most one runcmd     *)
(* worker is active; a worker gives up only when it was not polled; of     *)
(* clients that run one after the other, each returns after its command.   *)
(* Of commands whose output fits the buffer: every variable keeps its      *)
(* type, and what a client of such a sequence prints is the beginning of   *)
(* its command's output.                                                   *)
(***************************************************************************)
EXTENDS RunCmdWait, SeqFacts

Pcs == {"none", "reset_used", "reset_finish", "copy", "popen", "fgets", "check",
        "pclose", "finish", "exit_handle", "gone", "nothread"}
Requests == [from : Client, chan : {"RUN_CMD_WAIT", "RUN_CMD_WAIT_PULLOUT"}]

(* The part of the types that the argument needs: the request in the net     *)
(* thread's hands comes from a client.                                       *)
RequestsOK ==
    /\ wpc \in [Client -> Pcs]
    /\ inbox \in Seq(Requests)
    /\ npc = "RUN_CMD_WAIT" => req \in Requests

SIInv == RequestsOK /\ SingleInstance

ctrlActive == <<wpc, single_instance>>

(* What the handler of RUN_CMD_WAIT does to the places and the answer,       *)
(* whether a worker is refused, created or could not be created.             *)
LEMMA AcceptFacts ==
    ASSUME udb_debug_runcmd_wait
    PROVE  /\ npc = "RUN_CMD_WAIT" /\ npc' \in {"clear", "dead"} /\ req' = req
           /\ wpc' = wpc \/ \E pc \in {"reset_used", "nothread"} : wpc' = [wpc EXCEPT ![req.from] = pc]
           /\ reply' = reply \/ \E s \in {0, 1} : Answer(req.from, s, << >>)
           /\ single_instance = 1 => wpc' = wpc /\ Answer(req.from, 0, << >>)
           /\ single_instance # 1 =>
                 /\ \E pc \in {"reset_used", "nothread"} : wpc' = [wpc EXCEPT ![req.from] = pc]
                 /\ single_instance' = 1 /\ cp_offset' = 0
  BY DEF udb_debug_runcmd_wait, start_worker

(* A step that changes neither a worker's place nor the flag keeps the       *)
(* single-instance property.                                                 *)
LEMMA UnchangedActive ==
    ASSUME SingleInstance, UNCHANGED ctrlActive
    PROVE  SingleInstance'
BY DEF SingleInstance, WorkerActive, ctrlActive

(* A worker that moves from one active place to another keeps it too.        *)
LEMMA MovedActive ==
    ASSUME SIInv, NEW c \in Client, WorkerActive(c),
           NEW pc \in Pcs \ {"none", "gone"}, Goto(c, pc), UNCHANGED single_instance
    PROVE  wpc' \in [Client -> Pcs] /\ SingleInstance'
<1>1. wpc' = [wpc EXCEPT ![c] = pc] /\ wpc \in [Client -> Pcs]
  BY DEF Goto, SIInv, RequestsOK
<1>2. \A d \in Client : wpc'[d] \notin {"none", "gone"} <=> wpc[d] \notin {"none", "gone"}
  BY <1>1 DEF WorkerActive
<1> QED BY <1>1, <1>2 DEF SIInv, SingleInstance, WorkerActive

(* Every step keeps the request types and the single-instance property.      *)
LEMMA SIStep ==
    ASSUME SIInv, [Next]_vars
    PROVE  SIInv'
<1>0. /\ wpc \in [Client -> Pcs] /\ inbox \in Seq(Requests)
      /\ npc = "RUN_CMD_WAIT" => req \in Requests
      /\ SingleInstance
  BY DEF SIInv, RequestsOK
<1>1. CASE net_recv
  <2>1. inbox # << >> /\ req' = Head(inbox) /\ inbox' = Tail(inbox)
    BY <1>1 DEF net_recv
  <2>2. req' \in Requests /\ inbox' \in Seq(Requests)
    BY <1>0, <2>1, HeadTailProperties
  <2>3. UNCHANGED ctrlActive
    BY <1>1 DEF net_recv, ctrlActive, ctrlVars, workerVars
  <2> QED BY <1>0, <2>2, <2>3, UnchangedActive DEF SIInv, RequestsOK, ctrlActive
<1>2. CASE udb_debug_runcmd_wait
  <2>1. req.from \in Client /\ npc' # "RUN_CMD_WAIT" /\ inbox' = inbox
    BY <1>0, <1>2, AcceptFacts DEF udb_debug_runcmd_wait, Requests
  <2>2. CASE single_instance = 1
    <3>1. UNCHANGED ctrlActive
      BY <1>2, <2>2 DEF udb_debug_runcmd_wait, ctrlActive
    <3> QED BY <1>0, <2>1, <3>1, UnchangedActive DEF SIInv, RequestsOK, ctrlActive
  <2>3. CASE single_instance # 1
    <3>1. PICK pc \in {"reset_used", "nothread"} :
             wpc' = [wpc EXCEPT ![req.from] = pc] /\ single_instance' = 1
      BY <1>2, <2>3, AcceptFacts
    <3>2. \A d \in Client : wpc[d] \in {"none", "gone"}
      BY <1>0, <2>3 DEF SingleInstance, WorkerActive
    <3>3. wpc' \in [Client -> Pcs]
      BY <1>0, <3>1 DEF Pcs
    <3>4. \A d \in Client : wpc'[d] \notin {"none", "gone"} <=> d = req.from
      BY <1>0, <2>1, <3>1, <3>2
    <3>5. SingleInstance'
      BY <2>1, <3>1, <3>4 DEF SingleInstance, WorkerActive
    <3> QED BY <1>0, <2>1, <3>3, <3>5 DEF SIInv, RequestsOK
  <2> QED BY <2>2, <2>3
<1>3. CASE wait_pullout_begin \/ wait_pullout_state \/ wait_pullout_copy \/ net_clear
  <2>1. UNCHANGED ctrlActive /\ inbox' = inbox /\ npc' # "RUN_CMD_WAIT"
    BY <1>3 DEF wait_pullout_begin, wait_pullout_state, wait_pullout_copy, net_clear, ctrlActive,
                ctrlVars, workerVars, clientVars
  <2> QED BY <1>0, <2>1, UnchangedActive DEF SIInv, RequestsOK, ctrlActive
<1>4. CASE Tick
  <2>1. UNCHANGED <<ctrlActive, inbox, npc, req>>
    BY <1>4 DEF Tick, ctrlActive, ctrlVars, workerVars, clientVars, netVars
  <2> QED BY <1>0, <2>1, UnchangedActive DEF SIInv, RequestsOK, ctrlActive
<1>5. ASSUME NEW c \in Client, ClientStep(c) \/ Kill(c) PROVE SIInv'
  <2>1. UNCHANGED <<ctrlActive, npc, req>>
    BY <1>5 DEF ClientStep, Kill, exec_cmd_wait_start, exec_cmd_wait_accept,
                exec_cmd_wait_poll, exec_cmd_wait_print, ctrlActive, ctrlVars,
                workerVars, netVars
  <2>2. \/ inbox' = inbox
        \/ inbox' = Append(inbox, [from |-> c, chan |-> "RUN_CMD_WAIT"])
        \/ inbox' = Append(inbox, [from |-> c, chan |-> "RUN_CMD_WAIT_PULLOUT"])
    BY <1>5 DEF ClientStep, Kill, exec_cmd_wait_start, exec_cmd_wait_accept,
                exec_cmd_wait_poll, exec_cmd_wait_print, Send
  <2>3. /\ [from |-> c, chan |-> "RUN_CMD_WAIT"] \in Requests
        /\ [from |-> c, chan |-> "RUN_CMD_WAIT_PULLOUT"] \in Requests
    BY DEF Requests
  <2>4. inbox' \in Seq(Requests)
    BY <1>0, <2>2, <2>3
  <2> QED BY <1>0, <2>1, <2>4, UnchangedActive DEF SIInv, RequestsOK, ctrlActive
<1>6. ASSUME NEW c \in Client, WorkerStep(c) PROVE SIInv'
  <2>1. UNCHANGED <<npc, req, inbox>>
    BY <1>6 DEF WorkerStep, worker_reset_used, worker_reset_finish, worker_copy,
                worker_popen, worker_fgets, worker_timeout, worker_append,
                worker_pclose, worker_finish, worker_exit_handle, netVars, clientVars
  <2>2. CASE worker_exit_handle(c)
    <3>1. wpc' = [wpc EXCEPT ![c] = "gone"] /\ single_instance' = 0 /\ WorkerActive(c)
      BY <2>2 DEF worker_exit_handle, Goto, WorkerActive
    <3>2. wpc' \in [Client -> Pcs]
      BY <1>0, <3>1 DEF Pcs
    <3>3. \A d \in Client : wpc'[d] \in {"none", "gone"}
      BY <1>0, <3>1 DEF SingleInstance, WorkerActive
    <3>4. SingleInstance'
      BY <3>1, <3>3 DEF SingleInstance, WorkerActive
    <3> QED BY <1>0, <2>1, <3>2, <3>4 DEF SIInv, RequestsOK
  <2>3. CASE ~worker_exit_handle(c)
    <3>1. /\ WorkerActive(c) /\ UNCHANGED single_instance
          /\ \E pc \in Pcs \ {"none", "gone"} : Goto(c, pc)
      BY <1>6, <2>3 DEF WorkerStep, worker_reset_used, worker_reset_finish, worker_copy,
                worker_popen, worker_fgets, worker_timeout, worker_append,
                worker_pclose, worker_finish, WorkerActive, Pcs, ctrlVars
    <3>2. wpc' \in [Client -> Pcs] /\ SingleInstance'
      BY <3>1, MovedActive
    <3> QED BY <1>0, <2>1, <3>2 DEF SIInv, RequestsOK
  <2> QED BY <2>2, <2>3
<1>7. CASE UNCHANGED vars
  <2>1. UNCHANGED <<ctrlActive, inbox, npc, req>>
    BY <1>7 DEF vars, ctrlActive, ctrlVars, workerVars, clientVars, netVars
  <2> QED BY <1>0, <2>1, UnchangedActive DEF SIInv, RequestsOK, ctrlActive
<1> QED BY <1>1, <1>2, <1>3, <1>4, <1>5, <1>6, <1>7 DEF Next, NetStep

(* "runcmd: only support single instance" holds for every number of clients: *)
(* the unlocked test of single_instance in udb_debug_runcmd_wait is safe     *)
(* because only the net thread sets the flag, and only the one worker that   *)
(* exists clears it, as its last step.                                       *)
THEOREM OneWorker == Spec => []SingleInstance
<1>1. Init => SIInv
  BY DEF Init, SIInv, RequestsOK, SingleInstance, WorkerActive, Pcs
<1>2. SIInv /\ [Next]_vars => SIInv'
  BY SIStep
<1>3. SIInv => SingleInstance
  BY DEF SIInv
<1> QED BY <1>1, <1>2, <1>3, PTL DEF Spec
-----------------------------------------------------------------------------
(* The time-out.                                                            *)

(* Until the clock wraps, the last poll is elapsed ticks ago (the count      *)
(* saturates past the limit), and what a worker read of the clock is lag     *)
(* ticks old when it compares.                                               *)
ClockInv == now \in 0 .. ClockMod - 1 /\ elapsed \in Nat /\ lag \in Nat /\ wrapped \in BOOLEAN
LastPollInv ==
    (\E c \in Client : WorkerActive(c)) /\ ~wrapped =>
        /\ tm_last_update \in Nat /\ tm_last_update <= now
        /\ (elapsed <= Limit => now = tm_last_update + elapsed)
ReadInv ==
    \A c \in Client : wpc[c] = "check" /\ ~wrapped =>
        /\ tm_curr \in Nat /\ tm_curr <= now
        /\ (lag <= Limit => now = tm_curr + lag)
TimeInv == ClockInv /\ LastPollInv /\ ReadInv

clockSide == <<now, elapsed, lag, wrapped, tm_last_update, tm_curr, wpc>>

LEMMA TimeUnchanged ==
    ASSUME TimeInv, UNCHANGED clockSide
    PROVE  TimeInv'
BY DEF TimeInv, ClockInv, LastPollInv, ReadInv, clockSide, WorkerActive

LEMMA TimeStep ==
    ASSUME SIInv, TimeInv, [Next]_vars
    PROVE  TimeInv'
<1>0. /\ wpc \in [Client -> Pcs] /\ SingleInstance
      /\ now \in 0 .. ClockMod - 1 /\ elapsed \in Nat /\ lag \in Nat /\ wrapped \in BOOLEAN
      /\ Limit \in Nat /\ ClockMod \in Nat /\ ClockMod > 0
      /\ now \in Nat
  BY WaitAssumption DEF SIInv, RequestsOK, TimeInv, ClockInv
<1>1. CASE \/ net_recv \/ wait_pullout_begin \/ wait_pullout_state \/ net_clear \/ UNCHANGED vars
           \/ \E c \in Client : ClientStep(c) \/ Kill(c)
  <2>1. UNCHANGED clockSide
    BY <1>1 DEF net_recv, wait_pullout_begin, wait_pullout_state, net_clear, ClientStep, Kill,
                exec_cmd_wait_start, exec_cmd_wait_accept, exec_cmd_wait_poll, exec_cmd_wait_print,
                vars, ctrlVars, workerVars, timeVars, clockSide
  <2> QED BY <2>1, TimeUnchanged
<1>2. CASE udb_debug_runcmd_wait
  <2>1. CASE single_instance = 1
    <3>1. UNCHANGED clockSide
      BY <1>2, <2>1 DEF udb_debug_runcmd_wait, clockSide
    <3> QED BY <3>1, TimeUnchanged
  <2>2. CASE single_instance # 1
    <3>0. /\ tm_last_update' = now /\ now' = now /\ elapsed' = 0 /\ lag' = lag
          /\ wrapped' = (wrapped /\ \E c \in Client : wpc[c] = "check")
      BY <1>2, <2>2 DEF udb_debug_runcmd_wait, PollSeen
    <3>1. PICK pc \in {"reset_used", "nothread"} :
          /\ tm_last_update' = now /\ now' = now /\ elapsed' = 0 /\ lag' = lag
          /\ wrapped' = (wrapped /\ \E c \in Client : wpc[c] = "check")
          /\ wpc' = [wpc EXCEPT ![req.from] = pc]
      BY <1>2, <2>2, <3>0, AcceptFacts
    <3>2. \A d \in Client : wpc[d] \in {"none", "gone"}
      BY <1>0, <2>2 DEF SingleInstance, WorkerActive
    <3>3. \A d \in Client : wpc'[d] # "check"
      BY <1>0, <3>1, <3>2
    <3>4. wrapped' = FALSE
      BY <3>1, <3>2
    <3> QED BY <1>0, <3>1, <3>3, <3>4 DEF TimeInv, ClockInv, LastPollInv, ReadInv
  <2> QED BY <2>1, <2>2
<1>3. CASE wait_pullout_copy
  <2>1. /\ tm_last_update' = now /\ now' = now /\ elapsed' = 0 /\ lag' = lag
        /\ wrapped' = (wrapped /\ \E c \in Client : wpc[c] = "check")
        /\ wpc' = wpc /\ tm_curr' = tm_curr
    BY <1>3 DEF wait_pullout_copy, PollSeen, workerVars
  <2>2. wrapped' \in BOOLEAN
    BY <1>0, <2>1
  <2>3. ReadInv'
    <3>1. SUFFICES ASSUME NEW c \in Client, wpc'[c] = "check", ~wrapped'
                   PROVE  tm_curr \in Nat /\ tm_curr <= now /\ (lag <= Limit => now = tm_curr + lag)
      BY <2>1 DEF ReadInv
    <3>2. wpc[c] = "check" /\ ~wrapped
      BY <2>1, <3>1
    <3> QED BY <3>2 DEF TimeInv, ReadInv
  <2> QED BY <1>0, <2>1, <2>2, <2>3 DEF TimeInv, ClockInv, LastPollInv
<1>4. CASE Tick
  <2>1. /\ now' = (now + 1) % ClockMod
        /\ elapsed' = (IF elapsed + 1 <= Limit + 1 THEN elapsed + 1 ELSE Limit + 1)
        /\ lag' = IF \E c \in Client : wpc[c] = "check"
                  THEN (IF lag + 1 <= Limit + 1 THEN lag + 1 ELSE Limit + 1) ELSE lag
        /\ wrapped' = (wrapped \/ now' = 0)
        /\ wpc' = wpc /\ tm_curr' = tm_curr /\ tm_last_update' = tm_last_update
    BY <1>4 DEF Tick, MinOf, ctrlVars, workerVars
  <2>2. now' \in 0 .. ClockMod - 1 /\ elapsed' \in Nat /\ lag' \in Nat /\ wrapped' \in BOOLEAN
    BY <1>0, <2>1
  <2>3. now' = now + 1 \/ now' = 0
    BY <1>0, <2>1
  <2>4. ASSUME ~wrapped' PROVE ~wrapped /\ now' = now + 1
    BY <2>1, <2>3, <2>4
  <2>5. elapsed' <= Limit => elapsed <= Limit /\ elapsed' = elapsed + 1
    BY <1>0, <2>1
  <2>6. LastPollInv'
    <3>1. SUFFICES ASSUME \E c \in Client : WorkerActive(c)', ~wrapped'
                   PROVE  /\ tm_last_update \in Nat /\ tm_last_update <= now'
                          /\ (elapsed' <= Limit => now' = tm_last_update + elapsed')
      BY <2>1 DEF LastPollInv
    <3>2. /\ tm_last_update \in Nat /\ tm_last_update <= now
          /\ (elapsed <= Limit => now = tm_last_update + elapsed)
      BY <2>1, <2>4, <3>1 DEF TimeInv, LastPollInv, WorkerActive
    <3> QED BY <1>0, <2>4, <2>5, <3>1, <3>2
  <2>7. ReadInv'
    <3>1. SUFFICES ASSUME NEW c \in Client, wpc[c] = "check", ~wrapped'
                   PROVE  tm_curr \in Nat /\ tm_curr <= now' /\ (lag' <= Limit => now' = tm_curr + lag')
      BY <2>1 DEF ReadInv
    <3>2. tm_curr \in Nat /\ tm_curr <= now /\ (lag <= Limit => now = tm_curr + lag)
      BY <2>4, <3>1 DEF TimeInv, ReadInv
    <3>3. lag' = IF lag + 1 <= Limit + 1 THEN lag + 1 ELSE Limit + 1
      BY <2>1, <3>1
    <3> QED BY <1>0, <2>4, <3>1, <3>2, <3>3
  <2> QED BY <2>2, <2>6, <2>7 DEF TimeInv, ClockInv
<1>5. ASSUME NEW c \in Client, WorkerStep(c) PROVE TimeInv'
  <2>0. now' = now /\ tm_last_update' = tm_last_update
    BY <1>5 DEF WorkerStep, worker_reset_used, worker_reset_finish, worker_copy, worker_popen,
                worker_fgets, worker_timeout, worker_append, worker_pclose, worker_finish,
                worker_exit_handle, ctrlVars, timeVars
  <2>1. WorkerActive(c) /\ \A d \in Client : d # c => wpc[d] \in {"none", "gone"}
    BY <1>0, <1>5 DEF SingleInstance, WorkerActive, WorkerStep, worker_reset_used,
                worker_reset_finish, worker_copy, worker_popen, worker_fgets, worker_timeout,
                worker_append, worker_pclose, worker_finish, worker_exit_handle
  <2>2. PICK pc \in Pcs : wpc' = [wpc EXCEPT ![c] = pc]
    BY <1>5 DEF WorkerStep, worker_reset_used, worker_reset_finish, worker_copy, worker_popen,
                worker_fgets, worker_timeout, worker_append, worker_pclose, worker_finish,
                worker_exit_handle, Goto, Pcs
  <2>3. \A d \in Client : wpc'[d] = IF d = c THEN pc ELSE wpc[d]
    BY <1>0, <2>2
  <2>4. CASE worker_exit_handle(c)
    <3>1. pc = "gone" /\ elapsed' = 0 /\ lag' = lag /\ wrapped' = FALSE
      BY <1>0, <2>3, <2>4 DEF worker_exit_handle, Goto
    <3>2. \A d \in Client : wpc'[d] \in {"none", "gone"}
      BY <2>1, <2>3, <3>1
    <3> QED BY <1>0, <2>0, <3>1, <3>2 DEF TimeInv, ClockInv, LastPollInv, ReadInv, WorkerActive
  <2>5. CASE ~worker_exit_handle(c)
    <3>1. elapsed' = elapsed /\ wrapped' = wrapped /\ lag' \in {lag, 0}
      BY <1>5, <2>5 DEF WorkerStep, worker_reset_used, worker_reset_finish, worker_copy,
                worker_popen, worker_fgets, worker_timeout, worker_append, worker_pclose,
                worker_finish, timeVars
    <3>2. pc = "check" => tm_curr' = now /\ lag' = 0
      BY <1>0, <1>5, <2>3, <2>5 DEF WorkerStep, worker_reset_used, worker_reset_finish, worker_copy,
                worker_popen, worker_fgets, worker_timeout, worker_append, worker_pclose,
                worker_finish, Goto
    <3>3. ReadInv'
      BY <1>0, <2>0, <2>1, <2>3, <3>2 DEF ReadInv
    <3>4. LastPollInv'
      BY <2>0, <2>1, <3>1 DEF TimeInv, LastPollInv
    <3> QED BY <1>0, <2>0, <3>1, <3>3, <3>4 DEF TimeInv, ClockInv
  <2> QED BY <2>4, <2>5
<1> QED BY <1>1, <1>2, <1>3, <1>4, <1>5 DEF Next, NetStep

(* A worker that finds a poll within the limit goes on, whatever the net     *)
(* thread does between its two reads (udb_debug_runcmd_wait_thread): the     *)
(* absolute difference it compares is at most the age of the last poll or,   *)
(* when the poll came after it read the clock, at most the time since that   *)
(* read; nothing bounds the latter, a worker that is held up that long       *)
(* leaves although its client polls.                                         *)
THEOREM WorkerAbort == Spec => AbortJustified
<1>1. Init => SIInv /\ TimeInv
  <2>1. Init => SIInv
    BY DEF Init, SIInv, RequestsOK, SingleInstance, WorkerActive, Pcs
  <2>2. ASSUME Init PROVE TimeInv
    <3>1. 0 \in 0 .. ClockMod - 1
      BY WaitAssumption
    <3>2. now = 0 /\ elapsed = 0 /\ lag = 0 /\ wrapped = FALSE /\ wpc = [c \in Client |-> "none"]
      BY <2>2 DEF Init
    <3>3. \A c \in Client : wpc[c] = "none"
      BY <3>2
    <3> QED BY <3>1, <3>2, <3>3 DEF TimeInv, ClockInv, LastPollInv, ReadInv, WorkerActive
  <2> QED BY <2>1, <2>2
<1>2. SIInv /\ TimeInv /\ [Next]_vars => (SIInv /\ TimeInv)'
  BY SIStep, TimeStep
<1>3. SIInv /\ TimeInv /\ [Next]_vars =>
        [\A c \in Client :
          wpc[c] # "exit_handle" /\ wpc'[c] = "exit_handle" /\ cmd_finish' = 0
             => wpc[c] = "popen" \/ elapsed > Limit \/ lag > Limit \/ wrapped]_vars
  <2> SUFFICES ASSUME SIInv, TimeInv, [Next]_vars, NEW c \in Client,
                      wpc[c] # "exit_handle", wpc'[c] = "exit_handle", cmd_finish' = 0,
                      wpc[c] # "popen", ~wrapped, ~(elapsed > Limit), ~(lag > Limit)
               PROVE  FALSE
    OBVIOUS
  <2>0. /\ wpc \in [Client -> Pcs] /\ SingleInstance
        /\ now \in Nat /\ elapsed \in Nat /\ lag \in Nat /\ Limit \in Nat
    BY WaitAssumption DEF SIInv, RequestsOK, TimeInv, ClockInv
  <2>1. PICK d \in Client : WorkerStep(d)
    <3>1. CASE net_recv \/ wait_pullout_begin \/ wait_pullout_state \/ wait_pullout_copy
               \/ net_clear \/ Tick \/ UNCHANGED vars
               \/ \E d \in Client : ClientStep(d) \/ Kill(d)
      <4>1. wpc' = wpc
        BY <3>1 DEF net_recv, wait_pullout_begin, wait_pullout_state, wait_pullout_copy, net_clear,
                Tick, ClientStep, Kill, exec_cmd_wait_start, exec_cmd_wait_accept,
                exec_cmd_wait_poll, exec_cmd_wait_print, vars, workerVars
      <4> QED BY <4>1
    <3>2. CASE udb_debug_runcmd_wait
      <4>1. wpc' = wpc \/ \E pc \in {"reset_used", "nothread"} : wpc' = [wpc EXCEPT ![req.from] = pc]
        BY <3>2, AcceptFacts
      <4> QED BY <2>0, <4>1
    <3> QED BY <3>1, <3>2 DEF Next, NetStep
  <2>2. c = d /\ wpc[c] = "check" /\ TmDiff > Limit
    BY <2>0, <2>1 DEF WorkerStep, worker_reset_used, worker_reset_finish, worker_copy, worker_popen,
                worker_fgets, worker_timeout, worker_append, worker_pclose, worker_finish,
                worker_exit_handle, Goto
  <2>3. tm_curr \in Nat /\ tm_curr <= now /\ now = tm_curr + lag
    BY <2>0, <2>2 DEF TimeInv, ReadInv
  <2>4. tm_last_update \in Nat /\ tm_last_update <= now /\ now = tm_last_update + elapsed
    BY <2>0, <2>2 DEF TimeInv, LastPollInv, WorkerActive
  <2> QED BY <2>0, <2>2, <2>3, <2>4 DEF TmDiff
<1> QED BY <1>1, <1>2, <1>3, PTL DEF Spec, AbortJustified
-----------------------------------------------------------------------------
(* The clients run one after the other: a client returns after its command.  *)

Ask(c)  == [from |-> c, chan |-> "RUN_CMD_WAIT"]
Poll(c) == [from |-> c, chan |-> "RUN_CMD_WAIT_PULLOUT"]

(* A request of a client is queued, or in the net thread's hands. *)
Queued(r)  == \E i \in 1 .. Len(inbox) : inbox[i] = r
Asking(c)  == npc = "RUN_CMD_WAIT" /\ req.from = c
Polling(c) == npc \in {"RUN_CMD_WAIT_PULLOUT", "pullout_state", "pullout_copy"} /\ req.from = c

(* The command was read to its end and uvc_pclose has waited for it. *)
Finished(c) == /\ wpc[c] \in {"exit_handle", "gone"}
               /\ nlines[c] = Len(Lines(thread_cmd[c]))

ClientPcs == {"idle", "asked", "poll", "polled", "rejected", "done", "killed"}
NetPcs == {"recv", "RUN_CMD_WAIT", "RUN_CMD_WAIT_PULLOUT", "pullout_state", "pullout_copy", "clear",
           "dead"}

WaitTypes ==
    /\ npc \in NetPcs
    /\ npc \notin {"recv", "clear"} => req.from \in Client
    /\ cpc \in [Client -> ClientPcs]
    /\ thread_cmd = [c \in Client |-> thread_cmd[c]]
    /\ nlines \in [Client -> Nat]
    /\ reply = [c \in Client |-> reply[c]]

(* A client asks once; while it waits for the answer nobody is behind it in  *)
(* the queue, if one client runs at a time; it polls, and is told that it was accepted, only when it has   *)
(* been given a worker.                                                      *)
AskedOnce(c) ==
    /\ \A i, j \in 1 .. Len(inbox) : inbox[i] = Ask(c) /\ inbox[j] = Ask(c) => i = j
    /\ ~(Queued(Ask(c)) /\ Asking(c))
AskPending(c) ==
    Queued(Ask(c)) \/ Asking(c) =>
        wpc[c] = "none" /\ cpc[c] \in {"asked", "killed"} /\ reply[c] = NoReply
AskLast(c) ==
    ~Concurrent /\ cpc[c] = "asked" =>
        /\ \A i \in 1 .. Len(inbox) : inbox[i] = Ask(c) => i = Len(inbox)
        /\ (Asking(c) => inbox = << >>)
PollPending(c) ==
    Queued(Poll(c)) \/ Polling(c) => wpc[c] # "none" /\ cpc[c] \notin {"idle", "asked"}
BeforeAsk(c) == cpc[c] = "idle" => wpc[c] = "none" /\ reply[c] = NoReply
HasWorker(c) ==
    cpc[c] \in {"poll", "polled", "done"} \/ (cpc[c] = "asked" /\ reply[c].state = 1)
        => wpc[c] # "none"
AskInv == \A c \in Client : /\ AskedOnce(c) /\ AskPending(c) /\ AskLast(c)
                            /\ PollPending(c) /\ BeforeAsk(c) /\ HasWorker(c)

(* One client at a time, and while one that has a worker runs, no other has  *)
(* an active worker or is going to get one.                                  *)
OneLive == \A c, d \in Client : Live(c) /\ Live(d) => c = d
Alone ==
    \A c, d \in Client : Live(c) /\ wpc[c] # "none" /\ c # d =>
        ~WorkerActive(d) /\ ~Asking(d) /\ ~Queued(Ask(d))

(* How far the worker has read the output. *)
LinesInv ==
    \A c \in Client :
        /\ (wpc[c] \in {"none", "reset_used", "reset_finish", "copy", "popen"} => nlines[c] = 0)
        /\ (wpc[c] = "fgets" => nlines[c] <= Len(Lines(thread_cmd[c])))
        /\ (wpc[c] = "check" => nlines[c] < Len(Lines(thread_cmd[c])))
        /\ (wpc[c] \in {"pclose", "finish"} => nlines[c] = Len(Lines(thread_cmd[c])))

(* Wherever a "finished" is on its way to a client that runs, it is true:    *)
(* in cmd_finish, in the net thread's local, in the answer, at the client.   *)
FlagTrue(c) == Live(c) /\ wpc[c] # "none" /\ ~WorkerStale(c) /\ cmd_finish = 1 => Finished(c)
LocalTrue(c) ==
    /\ Live(c) /\ npc \in {"pullout_state", "pullout_copy"} /\ req.from = c
    /\ pull_finish = 1 /\ c \notin early
    => Finished(c)
AnswerTrue(c) == cpc[c] \in {"poll", "polled"} /\ reply[c].state = 1 /\ c \notin early => Finished(c)
ReturnTrue(c) == cpc[c] = "done" /\ c \notin early => Finished(c)
FinishInv == \A c \in Client : FlagTrue(c) /\ LocalTrue(c) /\ AnswerTrue(c) /\ ReturnTrue(c)

WaitInv == SIInv /\ WaitTypes /\ AskInv /\ OneLive /\ Alone /\ LinesInv /\ FinishInv

(* Requests tell their client and their channel. *)
LEMMA RequestFacts ==
    ASSUME NEW c \in Client
    PROVE  /\ Ask(c) \in Requests /\ Poll(c) \in Requests
           /\ Ask(c).from = c /\ Ask(c).chan = "RUN_CMD_WAIT"
           /\ Poll(c).from = c /\ Poll(c).chan = "RUN_CMD_WAIT_PULLOUT"
           /\ \A d \in Client : (Ask(c) = Ask(d) => c = d) /\ (Poll(c) = Poll(d) => c = d)
           /\ \A d \in Client : Ask(c) # Poll(d)
           /\ \A r \in Requests : r.from = c =>
                 /\ (r.chan = "RUN_CMD_WAIT" => r = Ask(c))
                 /\ (r.chan = "RUN_CMD_WAIT_PULLOUT" => r = Poll(c))
<1>1. Ask(c) \in Requests /\ Poll(c) \in Requests
  BY DEF Ask, Poll, Requests
<1>2. \A d \in Client : /\ Ask(d).from = d /\ Ask(d).chan = "RUN_CMD_WAIT"
                        /\ Poll(d).from = d /\ Poll(d).chan = "RUN_CMD_WAIT_PULLOUT"
  BY DEF Ask, Poll
<1>3. \A r \in Requests : r.from = c =>
         /\ (r.chan = "RUN_CMD_WAIT" => r = Ask(c))
         /\ (r.chan = "RUN_CMD_WAIT_PULLOUT" => r = Poll(c))
  BY DEF Requests, Ask, Poll
<1> QED BY <1>1, <1>2, <1>3

(* A step of a worker: nothing of the net thread and the clients changes,    *)
(* and of the other workers nothing.                                         *)
LEMMA WorkerMoves ==
    ASSUME SIInv, WaitTypes, NEW c \in Client, WorkerStep(c)
    PROVE  /\ UNCHANGED <<npc, req, pull_finish, cpc, reply, inbox, early>>
           /\ WorkerActive(c) /\ wpc'[c] # "none"
           /\ \A d \in Client : d # c => /\ wpc'[d] = wpc[d] /\ nlines'[d] = nlines[d]
                                         /\ thread_cmd'[d] = thread_cmd[d]
<1>1. /\ wpc \in [Client -> Pcs] /\ nlines \in [Client -> Nat]
      /\ thread_cmd = [d \in Client |-> thread_cmd[d]]
  BY DEF SIInv, RequestsOK, WaitTypes
<1>2. UNCHANGED <<npc, req, pull_finish, cpc, reply, inbox, early>>
  BY DEF WorkerStep, worker_reset_used, worker_reset_finish, worker_copy, worker_popen,
         worker_fgets, worker_timeout, worker_append, worker_pclose, worker_finish,
         worker_exit_handle, netVars, clientVars
<1>3. WorkerActive(c) /\ \E pc \in Pcs \ {"none"} : wpc' = [wpc EXCEPT ![c] = pc]
  BY DEF WorkerStep, worker_reset_used, worker_reset_finish, worker_copy, worker_popen,
         worker_fgets, worker_timeout, worker_append, worker_pclose, worker_finish,
         worker_exit_handle, Goto, Pcs, WorkerActive
<1>4. nlines' = nlines \/ nlines' = [nlines EXCEPT ![c] = @ + 1]
  BY DEF WorkerStep, worker_reset_used, worker_reset_finish, worker_copy, worker_popen,
         worker_fgets, worker_timeout, worker_append, worker_pclose, worker_finish,
         worker_exit_handle
<1>5. thread_cmd' = thread_cmd \/ \E s : thread_cmd' = [thread_cmd EXCEPT ![c] = s]
  BY DEF WorkerStep, worker_reset_used, worker_reset_finish, worker_copy, worker_popen,
         worker_fgets, worker_timeout, worker_append, worker_pclose, worker_finish,
         worker_exit_handle
<1>6. wpc'[c] # "none" /\ \A d \in Client : d # c => wpc'[d] = wpc[d]
  BY <1>1, <1>3
<1>7. \A d \in Client : d # c => nlines'[d] = nlines[d]
  BY <1>1, <1>4
<1>8. \A d \in Client : d # c => thread_cmd'[d] = thread_cmd[d]
  BY <1>1, <1>5
<1> QED BY <1>2, <1>3, <1>6, <1>7, <1>8

(* Answers change only the reply of the client in hand. *)
LEMMA AnswerFacts ==
    ASSUME WaitTypes, NEW c \in Client, NEW state, NEW data, Answer(c, state, data)
    PROVE  /\ reply' = [d \in Client |-> reply'[d]]
           /\ \A d \in Client : d # c => reply'[d] = reply[d]
           /\ Live(c) => reply'[c].state = state
           /\ ~Live(c) => reply'[c] = reply[c]
<1>1. reply = [d \in Client |-> reply[d]]
  BY DEF WaitTypes
<1> QED BY <1>1 DEF Answer

LEMMA WaitTypesStep ==
    ASSUME SIInv, WaitTypes, [Next]_vars
    PROVE  WaitTypes'
<1>0. /\ npc \in NetPcs /\ (npc \notin {"recv", "clear"} => req.from \in Client)
      /\ cpc \in [Client -> ClientPcs] /\ nlines \in [Client -> Nat]
      /\ thread_cmd = [c \in Client |-> thread_cmd[c]]
      /\ reply = [c \in Client |-> reply[c]]
      /\ inbox \in Seq(Requests)
  BY DEF SIInv, RequestsOK, WaitTypes
<1>1. CASE net_recv
  <2>1. /\ inbox # << >> /\ req' = Head(inbox) /\ npc' = Head(inbox).chan
        /\ UNCHANGED <<cpc, nlines, thread_cmd, reply>>
    BY <1>1 DEF net_recv, workerVars
  <2>2. Head(inbox) \in Requests
    BY <1>0, <2>1, TailFacts
  <2>3. npc' \in NetPcs /\ req'.from \in Client
    BY <2>1, <2>2 DEF Requests, NetPcs
  <2> QED BY <1>0, <2>1, <2>3 DEF WaitTypes
<1>2. CASE udb_debug_runcmd_wait \/ wait_pullout_copy
  <2>1. /\ npc' \in {"clear", "dead"} /\ UNCHANGED <<cpc, nlines, thread_cmd, req>> /\ req.from \in Client
    BY <1>0, <1>2, AcceptFacts DEF udb_debug_runcmd_wait, wait_pullout_copy, workerVars
  <2>2. reply' = reply \/ \E s, data : Answer(req.from, s, data)
    BY <1>2, AcceptFacts DEF wait_pullout_copy
  <2>3. reply' = [d \in Client |-> reply'[d]]
    BY <1>0, <2>1, <2>2, AnswerFacts
  <2> QED BY <1>0, <2>1, <2>3 DEF WaitTypes, NetPcs
<1>3. CASE wait_pullout_begin \/ wait_pullout_state \/ net_clear
  <2>1. /\ npc' \in {"pullout_state", "pullout_copy", "recv"}
        /\ npc' # "recv" => npc \notin {"recv", "clear"} /\ req' = req
        /\ UNCHANGED <<cpc, nlines, thread_cmd, reply>>
    BY <1>3 DEF wait_pullout_begin, wait_pullout_state, net_clear, workerVars, clientVars
  <2> QED BY <1>0, <2>1 DEF WaitTypes, NetPcs
<1>4. CASE Tick \/ UNCHANGED vars
  <2>1. UNCHANGED <<npc, req, cpc, nlines, thread_cmd, reply>>
    BY <1>4 DEF Tick, vars, netVars, workerVars, clientVars
  <2> QED BY <1>0, <2>1 DEF WaitTypes
<1>5. ASSUME NEW c \in Client, ClientStep(c) \/ Kill(c) PROVE WaitTypes'
  <2>1. UNCHANGED <<npc, req, nlines, thread_cmd>>
    BY <1>5 DEF ClientStep, Kill, exec_cmd_wait_start, exec_cmd_wait_accept, exec_cmd_wait_poll,
                exec_cmd_wait_print, netVars, workerVars
  <2>2. \E pc \in ClientPcs : cpc' = [cpc EXCEPT ![c] = pc]
    BY <1>5 DEF ClientStep, Kill, exec_cmd_wait_start, exec_cmd_wait_accept, exec_cmd_wait_poll,
                exec_cmd_wait_print, ClientPcs
  <2>3. reply' = reply \/ reply' = [reply EXCEPT ![c] = NoReply]
    BY <1>5 DEF ClientStep, Kill, exec_cmd_wait_start, exec_cmd_wait_accept, exec_cmd_wait_poll,
                exec_cmd_wait_print
  <2>4. reply' = [d \in Client |-> reply'[d]]
    BY <1>0, <2>3
  <2> QED BY <1>0, <2>1, <2>2, <2>4 DEF WaitTypes
<1>6. ASSUME NEW c \in Client, WorkerStep(c) PROVE WaitTypes'
  <2>1. UNCHANGED <<npc, req, cpc, reply>>
    BY <1>6, WorkerMoves
  <2>2. nlines' = nlines \/ nlines' = [nlines EXCEPT ![c] = @ + 1]
    BY <1>6 DEF WorkerStep, worker_reset_used, worker_reset_finish, worker_copy, worker_popen,
                worker_fgets, worker_timeout, worker_append, worker_pclose, worker_finish,
                worker_exit_handle
  <2>3. thread_cmd' = thread_cmd \/ worker_copy(c)
    BY <1>6 DEF WorkerStep, worker_reset_used, worker_reset_finish, worker_copy, worker_popen,
                worker_fgets, worker_timeout, worker_append, worker_pclose, worker_finish,
                worker_exit_handle
  <2>4. ASSUME worker_copy(c) PROVE thread_cmd' = [d \in Client |-> thread_cmd'[d]]
    <3>1. PICK s : thread_cmd' = [thread_cmd EXCEPT ![c] = s]
      BY <2>4 DEF worker_copy
    <3> QED BY <1>0, <3>1
  <2>5. thread_cmd' = [d \in Client |-> thread_cmd'[d]]
    BY <1>0, <2>3, <2>4
  <2>6. nlines' \in [Client -> Nat]
    BY <1>0, <2>2
  <2> QED BY <1>0, <2>1, <2>5, <2>6 DEF WaitTypes
<1> QED BY <1>1, <1>2, <1>3, <1>4, <1>5, <1>6 DEF Next, NetStep
(* The queue when the net thread takes a request, ... *)
LEMMA QueueTail ==
    ASSUME inbox \in Seq(Requests), inbox # << >>, inbox' = Tail(inbox)
    PROVE  /\ Queued(Head(inbox)) /\ (\A r : Queued(r)' => Queued(r))
           /\ Len(inbox) \in Nat \ {0} /\ Len(inbox') = Len(inbox) - 1
           /\ Head(inbox) = inbox[1] /\ Head(inbox) \in Requests
           /\ \A i \in 1 .. Len(inbox') : i + 1 \in 1 .. Len(inbox) /\ inbox'[i] = inbox[i + 1]
<1>1. /\ Len(inbox) \in Nat \ {0} /\ Len(inbox') = Len(inbox) - 1
      /\ Head(inbox) = inbox[1] /\ Head(inbox) \in Requests
      /\ \A i \in 1 .. Len(inbox') : i + 1 \in 1 .. Len(inbox) /\ inbox'[i] = inbox[i + 1]
  BY TailFacts
<1>2. Queued(Head(inbox))
  BY <1>1 DEF Queued
<1>3. \A r : Queued(r)' => Queued(r)
  BY <1>1 DEF Queued
<1> QED BY <1>1, <1>2, <1>3

(* ... and when a client sends one. *)
LEMMA QueueAppend ==
    ASSUME inbox \in Seq(Requests), NEW x \in Requests, inbox' = Append(inbox, x)
    PROVE  /\ \A r : Queued(r)' <=> Queued(r) \/ r = x
           /\ Len(inbox) \in Nat /\ Len(inbox') = Len(inbox) + 1 /\ inbox'[Len(inbox) + 1] = x
           /\ \A i \in 1 .. Len(inbox) : inbox'[i] = inbox[i]
<1>1. /\ Len(inbox) \in Nat /\ Len(inbox') = Len(inbox) + 1 /\ inbox'[Len(inbox) + 1] = x
      /\ \A i \in 1 .. Len(inbox) : inbox'[i] = inbox[i]
  BY AppendFacts
<1>2. \A r : Queued(r)' <=> Queued(r) \/ r = x
  BY <1>1 DEF Queued
<1> QED BY <1>1, <1>2

AskOf(c) == /\ AskedOnce(c) /\ AskPending(c) /\ AskLast(c)
            /\ PollPending(c) /\ BeforeAsk(c) /\ HasWorker(c)

(* The net thread takes the next request. *)
LEMMA AskRecv ==
    ASSUME SIInv, WaitTypes, AskInv, net_recv, NEW c \in Client
    PROVE  AskOf(c)'
<1>0. /\ inbox \in Seq(Requests) /\ inbox # << >> /\ inbox' = Tail(inbox)
      /\ npc = "recv" /\ req' = Head(inbox) /\ npc' = Head(inbox).chan
      /\ UNCHANGED <<wpc, cpc, reply>>
      /\ AskOf(c)
  BY DEF SIInv, RequestsOK, net_recv, workerVars, AskInv, AskOf
<1>1. /\ Queued(Head(inbox)) /\ (\A r : Queued(r)' => Queued(r))
      /\ Len(inbox) \in Nat \ {0} /\ Len(inbox') = Len(inbox) - 1
      /\ Head(inbox) = inbox[1] /\ Head(inbox) \in Requests
      /\ \A i \in 1 .. Len(inbox') : i + 1 \in 1 .. Len(inbox) /\ inbox'[i] = inbox[i + 1]
  BY <1>0, QueueTail
<1>2. Asking(c)' => inbox[1] = Ask(c)
  BY <1>0, <1>1, RequestFacts DEF Asking
<1>3. Polling(c)' => inbox[1] = Poll(c)
  <2>1. Head(inbox).chan \in {"RUN_CMD_WAIT", "RUN_CMD_WAIT_PULLOUT"}
    BY <1>1 DEF Requests
  <2> QED BY <1>0, <1>1, <2>1, RequestFacts DEF Polling
<1>4. AskedOnce(c)'
  <2>1. \A i, j \in 1 .. Len(inbox) : inbox[i] = Ask(c) /\ inbox[j] = Ask(c) => i = j
    BY <1>0 DEF AskOf, AskedOnce
  <2>2. ASSUME NEW i \in 1 .. Len(inbox'), NEW j \in 1 .. Len(inbox'),
               inbox'[i] = Ask(c), inbox'[j] = Ask(c)
        PROVE  i = j
    <3>1. i + 1 = j + 1
      BY <1>1, <2>1, <2>2
    <3>2. i \in Int /\ j \in Int
      BY <1>1
    <3> QED BY <3>1, <3>2
  <2>3. ASSUME Queued(Ask(c))', Asking(c)' PROVE FALSE
    <3>1. PICK i \in 1 .. Len(inbox') : inbox'[i] = Ask(c)
      BY <2>3 DEF Queued
    <3>2. i + 1 \in 1 .. Len(inbox) /\ inbox[i + 1] = Ask(c) /\ inbox[1] = Ask(c) /\ 1 \in 1 .. Len(inbox)
      BY <1>1, <1>2, <2>3, <3>1
    <3>3. i + 1 = 1
      BY <2>1, <3>2
    <3> QED BY <1>1, <3>3
  <2>4. (\A i, j \in 1 .. Len(inbox) : inbox[i] = Ask(c) /\ inbox[j] = Ask(c) => i = j)'
    BY <2>2 DEF Ask
  <2> QED BY <2>3, <2>4 DEF AskedOnce
<1>5. AskPending(c)'
  BY <1>0, <1>1, <1>2 DEF AskOf, AskPending
<1>6. AskLast(c)'
  <2>1. SUFFICES ASSUME ~Concurrent, cpc[c] = "asked"
                 PROVE  /\ \A i \in 1 .. Len(inbox') : inbox'[i] = Ask(c) => i = Len(inbox')
                        /\ (Asking(c)' => inbox' = << >>)
    BY <1>0 DEF AskLast, Ask
  <2>2. \A i \in 1 .. Len(inbox) : inbox[i] = Ask(c) => i = Len(inbox)
    BY <1>0, <2>1 DEF AskOf, AskLast
  <2>3. ASSUME NEW i \in 1 .. Len(inbox'), inbox'[i] = Ask(c) PROVE i = Len(inbox')
    <3>1. i + 1 = Len(inbox)
      BY <1>1, <2>2, <2>3
    <3> QED BY <1>1, <3>1
  <2>4. ASSUME Asking(c)' PROVE inbox' = << >>
    <3>1. 1 = Len(inbox)
      BY <1>1, <1>2, <2>2, <2>4
    <3>2. Len(inbox') = 0 /\ inbox' \in Seq(Requests)
      BY <1>0, <1>1, <3>1, TailFacts
    <3> QED BY <3>2
  <2> QED BY <2>3, <2>4
<1>7. PollPending(c)'
  BY <1>0, <1>1, <1>3 DEF AskOf, PollPending
<1>8. BeforeAsk(c)' /\ HasWorker(c)'
  BY <1>0 DEF AskOf, BeforeAsk, HasWorker
<1> QED BY <1>4, <1>5, <1>6, <1>7, <1>8 DEF AskOf

(* The queue and the client stay; its worker may move, and the net thread go *)
(* on with the request in hand.                                              *)
LEMMA AskElsewhere ==
    ASSUME WaitTypes, AskInv, NEW c \in Client,
           UNCHANGED inbox, cpc'[c] = cpc[c], reply'[c] = reply[c],
           wpc'[c] = wpc[c] \/ (wpc[c] # "none" /\ wpc'[c] # "none"),
           Asking(c)' => Asking(c), Polling(c)' => Polling(c)
    PROVE  AskOf(c)'
<1>1. AskOf(c)
  BY DEF AskInv, AskOf
<1>2. (\A r : Queued(r)' <=> Queued(r)) /\ inbox' = inbox
  BY DEF Queued
<1>3. AskedOnce(c)'
  BY <1>1, <1>2 DEF AskOf, AskedOnce, Ask
<1>4. AskPending(c)' /\ PollPending(c)'
  BY <1>1, <1>2 DEF AskOf, AskPending, PollPending
<1>5. AskLast(c)'
  BY <1>1, <1>2 DEF AskOf, AskLast, Ask
<1>6. BeforeAsk(c)' /\ HasWorker(c)'
  BY <1>1, <1>2 DEF AskOf, BeforeAsk, HasWorker
<1> QED BY <1>3, <1>4, <1>5, <1>6 DEF AskOf

(* The net thread answers the client in hand. *)
LEMMA AskAnswer ==
    ASSUME SIInv, WaitTypes, AskInv, udb_debug_runcmd_wait \/ wait_pullout_copy, NEW c \in Client
    PROVE  AskOf(c)'
<1>0. /\ UNCHANGED <<inbox, cpc>> /\ npc' \in {"clear", "dead"} /\ req.from \in Client
      /\ wpc \in [Client -> Pcs] /\ cpc \in [Client -> ClientPcs]
      /\ AskOf(c)
  BY AcceptFacts DEF SIInv, RequestsOK, WaitTypes, udb_debug_runcmd_wait, wait_pullout_copy, AskInv, AskOf
<1>1. ~Asking(c)' /\ ~Polling(c)'
  BY <1>0 DEF Asking, Polling
<1>2. (\A r : Queued(r)' <=> Queued(r)) /\ inbox' = inbox /\ cpc' = cpc
  BY <1>0 DEF Queued
<1>3. CASE c # req.from
  <2>1. reply' = reply \/ \E s, data : Answer(req.from, s, data)
    BY AcceptFacts DEF wait_pullout_copy
  <2>2. reply'[c] = reply[c]
    BY <1>0, <1>3, <2>1, AnswerFacts
  <2>3. wpc'[c] = wpc[c]
    BY <1>0, <1>3, AcceptFacts DEF wait_pullout_copy, workerVars
  <2> QED BY <1>0, <1>1, <2>2, <2>3, AskElsewhere
<1>4. CASE c = req.from /\ udb_debug_runcmd_wait
  <2>1. /\ Asking(c) /\ wpc[c] = "none" /\ cpc[c] \in {"asked", "killed"} /\ reply[c] = NoReply
        /\ ~Queued(Ask(c)) /\ ~Queued(Poll(c))
    BY <1>0, <1>4 DEF udb_debug_runcmd_wait, Asking, AskOf, AskedOnce, AskPending, PollPending
  <2>2. AskedOnce(c)'
    BY <1>0, <1>1, <1>2 DEF AskOf, AskedOnce, Ask
  <2>3. AskPending(c)' /\ PollPending(c)'
    BY <1>1, <1>2, <2>1 DEF AskPending, PollPending
  <2>4. AskLast(c)'
    BY <1>0, <1>1, <1>2 DEF AskOf, AskLast, Ask
  <2>5. BeforeAsk(c)'
    BY <1>0, <2>1 DEF BeforeAsk
  <2>6. HasWorker(c)'
    <3>1. SUFFICES ASSUME cpc[c] = "asked", reply'[c].state = 1 PROVE wpc'[c] # "none"
      BY <1>0, <2>1 DEF HasWorker
    <3>2. Live(c)
      BY <3>1 DEF Live
    <3>3. CASE single_instance = 1
      <4>1. Answer(c, 0, << >>)
        BY <1>4, <3>3 DEF udb_debug_runcmd_wait
      <4>2. reply'[c].state = 0
        BY <3>2, <4>1, AnswerFacts
      <4> QED BY <3>1, <4>2
    <3>4. CASE single_instance # 1
      BY <1>0, <1>4, <3>4, AcceptFacts
    <3> QED BY <3>3, <3>4
  <2> QED BY <2>2, <2>3, <2>4, <2>5, <2>6 DEF AskOf
<1>5. CASE c = req.from /\ wait_pullout_copy
  <2>1. Polling(c) /\ wpc[c] # "none" /\ cpc[c] \notin {"idle", "asked"} /\ wpc' = wpc
    BY <1>0, <1>5 DEF wait_pullout_copy, Polling, AskOf, PollPending, workerVars
  <2>2. ~Queued(Ask(c))
    BY <1>0, <2>1 DEF AskOf, AskPending
  <2>3. AskedOnce(c)'
    BY <1>0, <1>1, <1>2 DEF AskOf, AskedOnce, Ask
  <2>4. AskPending(c)' /\ PollPending(c)' /\ AskLast(c)' /\ BeforeAsk(c)' /\ HasWorker(c)'
    BY <1>0, <1>1, <1>2, <2>1, <2>2 DEF AskPending, PollPending, AskLast, BeforeAsk, HasWorker
  <2> QED BY <2>3, <2>4 DEF AskOf
<1> QED BY <1>3, <1>4, <1>5
(* What a client's step leaves alone. *)
LEMMA ClientMoves ==
    ASSUME SIInv, WaitTypes, NEW d \in Client, ClientStep(d) \/ Kill(d)
    PROVE  /\ UNCHANGED <<npc, req, pull_finish, cmd_finish, wpc, nlines, thread_cmd, early>>
           /\ \A c \in Client : (Asking(c)' <=> Asking(c)) /\ (Polling(c)' <=> Polling(c))
           /\ \A c \in Client : c # d => cpc'[c] = cpc[c] /\ reply'[c] = reply[c]
<1>1. UNCHANGED <<npc, req, pull_finish, cmd_finish, wpc, nlines, thread_cmd, early>>
  BY DEF ClientStep, Kill, exec_cmd_wait_start, exec_cmd_wait_accept, exec_cmd_wait_poll,
         exec_cmd_wait_print, netVars, workerVars, ctrlVars
<1>2. cpc \in [Client -> ClientPcs] /\ reply = [c \in Client |-> reply[c]]
  BY DEF WaitTypes
<1>3. (\E pc : cpc' = [cpc EXCEPT ![d] = pc]) /\ (reply' = reply \/ reply' = [reply EXCEPT ![d] = NoReply])
  BY DEF ClientStep, Kill, exec_cmd_wait_start, exec_cmd_wait_accept, exec_cmd_wait_poll,
         exec_cmd_wait_print
<1>4. \A c \in Client : c # d => cpc'[c] = cpc[c]
  BY <1>2, <1>3
<1>5. \A c \in Client : c # d => reply'[c] = reply[c]
  BY <1>2, <1>3
<1>6. \A c \in Client : (Asking(c)' <=> Asking(c)) /\ (Polling(c)' <=> Polling(c))
  BY <1>1 DEF Asking, Polling
<1> QED BY <1>1, <1>4, <1>5, <1>6

(* A client sends a request: nobody else waits for an answer to its own. *)
LEMMA AskSend ==
    ASSUME SIInv, WaitTypes, AskInv, ~Concurrent => OneLive, NEW c \in Client, NEW d \in Client,
           exec_cmd_wait_start(d) \/ exec_cmd_wait_poll(d)
    PROVE  AskOf(c)'
<1>0. /\ UNCHANGED <<npc, req, wpc, reply>> /\ AskOf(c) /\ AskOf(d)
      /\ (Asking(c)' <=> Asking(c)) /\ (Polling(c)' <=> Polling(c))
      /\ inbox \in Seq(Requests) /\ cpc \in [Client -> ClientPcs]
      /\ (c # d => cpc'[c] = cpc[c])
  <2>1. ClientStep(d)
    BY DEF ClientStep
  <2>2. UNCHANGED <<npc, req, wpc, reply>>
    BY DEF exec_cmd_wait_start, exec_cmd_wait_poll, netVars, workerVars
  <2> QED BY <2>1, <2>2, ClientMoves DEF AskInv, AskOf, SIInv, RequestsOK, WaitTypes
<1>1. CASE exec_cmd_wait_start(d)
  <2>1. /\ inbox' = Append(inbox, Ask(d)) /\ cpc[d] = "idle" /\ cpc'[d] = "asked"
        /\ ~Concurrent => \A e \in Client : ~Live(e)
    BY <1>0, <1>1 DEF exec_cmd_wait_start, Send, Ask
  <2>2. /\ \A r : Queued(r)' <=> Queued(r) \/ r = Ask(d)
        /\ Len(inbox) \in Nat /\ Len(inbox') = Len(inbox) + 1 /\ inbox'[Len(inbox) + 1] = Ask(d)
        /\ \A i \in 1 .. Len(inbox) : inbox'[i] = inbox[i]
    BY <1>0, <2>1, RequestFacts, QueueAppend
  <2>3. CASE c = d
    <3>1. /\ ~Queued(Ask(c)) /\ ~Asking(c) /\ ~Queued(Poll(c)) /\ ~Polling(c)
          /\ wpc[c] = "none" /\ reply[c] = NoReply
      BY <1>0, <2>1, <2>3 DEF AskOf, AskPending, PollPending, BeforeAsk
    <3>2. \A i \in 1 .. Len(inbox') : inbox'[i] = Ask(c) => i = Len(inbox')
      BY <2>2, <3>1 DEF Queued
    <3>3. AskedOnce(c)'
      BY <1>0, <3>1, <3>2 DEF AskedOnce, Ask
    <3>4. AskLast(c)'
      BY <1>0, <3>1, <3>2 DEF AskLast, Ask
    <3>5. AskPending(c)' /\ BeforeAsk(c)'
      BY <1>0, <2>1, <2>3, <3>1 DEF AskPending, BeforeAsk
    <3>6. ~Queued(Poll(c))' /\ ~Polling(c)'
      BY <1>0, <2>2, <2>3, <3>1, RequestFacts
    <3>7. HasWorker(c)'
      BY <1>0, <2>1, <2>3, <3>1 DEF HasWorker, NoReply
    <3> QED BY <3>3, <3>4, <3>5, <3>6, <3>7 DEF AskOf, PollPending
  <2>4. CASE c # d
    <3>1. Ask(d) # Ask(c) /\ Ask(d) # Poll(c)
      BY <2>4, RequestFacts
    <3>2. (Queued(Ask(c))' <=> Queued(Ask(c))) /\ (Queued(Poll(c))' <=> Queued(Poll(c)))
      BY <2>2, <3>1
    <3>3. cpc'[c] = cpc[c] /\ (~Concurrent => cpc[c] # "asked")
      BY <1>0, <2>1, <2>4 DEF Live
    <3>4. AskedOnce(c)'
      <4>1. \A i \in 1 .. Len(inbox') : inbox'[i] = Ask(c) => i \in 1 .. Len(inbox) /\ inbox[i] = Ask(c)
        BY <2>2, <3>1
      <4>2. (\A i, j \in 1 .. Len(inbox) : inbox[i] = Ask(c) /\ inbox[j] = Ask(c) => i = j)'
        BY <1>0, <4>1 DEF AskOf, AskedOnce, Ask
      <4> QED BY <1>0, <3>2, <4>2 DEF AskOf, AskedOnce
    <3>5. AskPending(c)' /\ PollPending(c)' /\ AskLast(c)' /\ BeforeAsk(c)' /\ HasWorker(c)'
      BY <1>0, <3>2, <3>3 DEF AskOf, AskPending, PollPending, AskLast, BeforeAsk, HasWorker
    <3> QED BY <3>4, <3>5 DEF AskOf
  <2> QED BY <2>3, <2>4
<1>2. CASE exec_cmd_wait_poll(d)
  <2>1. /\ inbox' = Append(inbox, Poll(d)) /\ cpc[d] = "poll" /\ cpc'[d] = "polled"
        /\ Live(d) /\ wpc[d] # "none"
    BY <1>0, <1>2 DEF exec_cmd_wait_poll, Send, Poll, Live, AskOf, HasWorker
  <2>2. /\ \A r : Queued(r)' <=> Queued(r) \/ r = Poll(d)
        /\ Len(inbox) \in Nat /\ Len(inbox') = Len(inbox) + 1 /\ inbox'[Len(inbox) + 1] = Poll(d)
        /\ \A i \in 1 .. Len(inbox) : inbox'[i] = inbox[i]
    BY <1>0, <2>1, RequestFacts, QueueAppend
  <2>3. Poll(d) # Ask(c) /\ (c # d => Poll(d) # Poll(c))
    BY RequestFacts
  <2>4. Queued(Ask(c))' <=> Queued(Ask(c))
    BY <2>2, <2>3
  <2>5. ~Concurrent => cpc[c] # "asked" /\ cpc'[c] # "asked"
    BY <1>0, <2>1 DEF Live, OneLive
  <2>6. AskedOnce(c)'
    <3>1. \A i \in 1 .. Len(inbox') : inbox'[i] = Ask(c) => i \in 1 .. Len(inbox) /\ inbox[i] = Ask(c)
      BY <2>2, <2>3
    <3>2. (\A i, j \in 1 .. Len(inbox) : inbox[i] = Ask(c) /\ inbox[j] = Ask(c) => i = j)'
      BY <1>0, <3>1 DEF AskOf, AskedOnce, Ask
    <3> QED BY <1>0, <2>4, <3>2 DEF AskOf, AskedOnce
  <2>7. CASE c = d
    <3>1. ~Queued(Ask(c)) /\ ~Asking(c)
      BY <1>0, <2>1, <2>7 DEF AskOf, AskPending
    <3> QED BY <1>0, <2>1, <2>4, <2>6, <2>7, <3>1
            DEF AskOf, AskPending, PollPending, AskLast, BeforeAsk, HasWorker
  <2>8. CASE c # d
    <3>1. (Queued(Poll(c))' <=> Queued(Poll(c))) /\ cpc'[c] = cpc[c]
      BY <1>0, <2>2, <2>3, <2>8
    <3> QED BY <1>0, <2>4, <2>5, <2>6, <3>1
            DEF AskOf, AskPending, PollPending, AskLast, BeforeAsk, HasWorker
  <2> QED BY <2>7, <2>8
<1> QED BY <1>1, <1>2

(* A client reads an answer, or is killed. *)
LEMMA AskRead ==
    ASSUME SIInv, WaitTypes, AskInv, NEW c \in Client, NEW d \in Client,
           exec_cmd_wait_accept(d) \/ exec_cmd_wait_print(d) \/ Kill(d)
    PROVE  AskOf(c)'
<1>1. ClientStep(d) \/ Kill(d)
  BY DEF ClientStep
<1>2. /\ UNCHANGED <<npc, req, wpc>> /\ AskOf(c)
      /\ (Asking(c)' <=> Asking(c)) /\ (Polling(c)' <=> Polling(c))
      /\ (c # d => cpc'[c] = cpc[c] /\ reply'[c] = reply[c])
      /\ inbox' = inbox /\ cpc \in [Client -> ClientPcs] /\ reply = [e \in Client |-> reply[e]]
  <2>1. inbox' = inbox
    BY DEF exec_cmd_wait_accept, exec_cmd_wait_print, Kill
  <2> QED BY <1>1, <2>1, ClientMoves DEF AskInv, AskOf, WaitTypes
<1>3. CASE c # d
  BY <1>2, <1>3, AskElsewhere
<1>4. CASE c = d
  <2>1. \A r : Queued(r)' <=> Queued(r)
    BY <1>2 DEF Queued
  <2>2. AskedOnce(c)'
    BY <1>2, <2>1 DEF AskOf, AskedOnce, Ask
  <2>3. reply'[c] = NoReply
    BY <1>2, <1>4 DEF exec_cmd_wait_accept, exec_cmd_wait_print, Kill
  <2>4. CASE exec_cmd_wait_accept(d)
    <3>1. /\ cpc[c] = "asked" /\ reply[c] # NoReply
          /\ cpc'[c] = IF reply[c].state = 1 THEN "poll" ELSE "rejected"
      BY <1>2, <1>4, <2>4 DEF exec_cmd_wait_accept
    <3>2. ~Queued(Ask(c)) /\ ~Asking(c) /\ ~Queued(Poll(c)) /\ ~Polling(c)
      BY <1>2, <3>1 DEF AskOf, AskPending, PollPending
    <3>3. cpc'[c] = "poll" => wpc[c] # "none"
      BY <1>2, <3>1 DEF AskOf, HasWorker
    <3> QED BY <1>2, <2>1, <2>2, <3>1, <3>2, <3>3
            DEF AskOf, AskPending, PollPending, AskLast, BeforeAsk, HasWorker
  <2>5. CASE exec_cmd_wait_print(d)
    <3>1. cpc[c] = "polled" /\ cpc'[c] \in {"done", "poll"} /\ wpc[c] # "none"
      BY <1>2, <1>4, <2>5 DEF exec_cmd_wait_print, AskOf, HasWorker
    <3>2. ~Queued(Ask(c)) /\ ~Asking(c)
      BY <1>2, <3>1 DEF AskOf, AskPending
    <3> QED BY <1>2, <2>1, <2>2, <3>1, <3>2
            DEF AskOf, AskPending, PollPending, AskLast, BeforeAsk, HasWorker
  <2>6. CASE Kill(d)
    <3>1. cpc'[c] = "killed"
      BY <1>2, <1>4, <2>6 DEF Kill
    <3> QED BY <1>2, <2>1, <2>2, <2>3, <3>1
            DEF AskOf, AskPending, PollPending, AskLast, BeforeAsk, HasWorker
  <2> QED BY <2>4, <2>5, <2>6
<1> QED BY <1>3, <1>4

LEMMA AskStep ==
    ASSUME SIInv, WaitTypes, AskInv, ~Concurrent => OneLive, [Next]_vars
    PROVE  AskInv'
<1> SUFFICES ASSUME NEW c \in Client PROVE AskOf(c)'
  BY DEF AskInv, AskOf
<1>1. CASE net_recv
  BY <1>1, AskRecv
<1>2. CASE udb_debug_runcmd_wait \/ wait_pullout_copy
  BY <1>2, AskAnswer
<1>3. CASE wait_pullout_begin \/ wait_pullout_state \/ net_clear \/ Tick \/ UNCHANGED vars
  <2>1. UNCHANGED inbox /\ cpc'[c] = cpc[c] /\ reply'[c] = reply[c] /\ wpc'[c] = wpc[c]
    BY <1>3 DEF wait_pullout_begin, wait_pullout_state, net_clear, Tick, vars, clientVars, workerVars
  <2>2. (Asking(c)' => Asking(c)) /\ (Polling(c)' => Polling(c))
    BY <1>3 DEF wait_pullout_begin, wait_pullout_state, net_clear, Tick, vars, netVars, Asking, Polling
  <2> QED BY <2>1, <2>2, AskElsewhere
<1>4. ASSUME NEW d \in Client, ClientStep(d) \/ Kill(d) PROVE AskOf(c)'
  BY <1>4, AskSend, AskRead DEF ClientStep
<1>5. ASSUME NEW d \in Client, WorkerStep(d) PROVE AskOf(c)'
  <2>1. /\ UNCHANGED <<npc, req, cpc, reply, inbox>> /\ WorkerActive(d) /\ wpc'[d] # "none"
        /\ (c # d => wpc'[c] = wpc[c])
    BY <1>5, WorkerMoves
  <2>2. (Asking(c)' => Asking(c)) /\ (Polling(c)' => Polling(c))
    BY <2>1 DEF Asking, Polling
  <2>3. wpc'[c] = wpc[c] \/ (wpc[c] # "none" /\ wpc'[c] # "none")
    BY <2>1 DEF WorkerActive
  <2>4. UNCHANGED inbox /\ cpc'[c] = cpc[c] /\ reply'[c] = reply[c]
    BY <2>1
  <2> QED BY <2>2, <2>3, <2>4, AskElsewhere
<1> QED BY <1>1, <1>2, <1>3, <1>4, <1>5 DEF Next, NetStep
LEMMA AloneStep ==
    ASSUME SIInv, WaitTypes, AskInv, OneLive, Alone, ~Concurrent, [Next]_vars
    PROVE  OneLive' /\ Alone'
<1>0. /\ cpc \in [Client -> ClientPcs] /\ wpc \in [Client -> Pcs] /\ inbox \in Seq(Requests)
      /\ SingleInstance /\ \A c \in Client : AskOf(c)
  BY DEF SIInv, RequestsOK, WaitTypes, AskInv, AskOf
<1>1. CASE \/ NetStep \/ Tick \/ UNCHANGED vars \/ \E d \in Client : WorkerStep(d)
  <2>1. cpc' = cpc
    <3>1. ASSUME NEW d \in Client, WorkerStep(d) PROVE cpc' = cpc
      BY <3>1, WorkerMoves
    <3>2. ASSUME NetStep \/ Tick \/ UNCHANGED vars PROVE cpc' = cpc
      BY <3>2 DEF NetStep, Tick, vars, clientVars, net_recv, udb_debug_runcmd_wait,
                  wait_pullout_begin, wait_pullout_state, wait_pullout_copy, net_clear
    <3> QED BY <1>1, <3>1, <3>2
  <2>2. OneLive'
    BY <2>1 DEF OneLive, Live
  <2>3. SUFFICES ASSUME NEW c \in Client, NEW d \in Client, Live(c), wpc'[c] # "none", c # d
                 PROVE  ~WorkerActive(d)' /\ ~Asking(d)' /\ ~Queued(Ask(d))'
    BY <2>1, <2>2 DEF Alone, Live, Ask
  <2>4. CASE net_recv
    <3>1. wpc' = wpc /\ npc = "recv" /\ req' = Head(inbox) /\ npc' = Head(inbox).chan
          /\ inbox # << >> /\ inbox' = Tail(inbox)
      BY <2>4 DEF net_recv, workerVars
    <3>2. ~WorkerActive(d) /\ ~Queued(Ask(d))
      BY <2>3, <3>1 DEF Alone
    <3>3. Queued(Head(inbox)) /\ (\A r : Queued(r)' => Queued(r)) /\ Head(inbox) \in Requests
      BY <1>0, <3>1, QueueTail
    <3>4. ~Asking(d)'
      BY <3>1, <3>2, <3>3, RequestFacts DEF Asking
    <3> QED BY <3>1, <3>2, <3>3, <3>4 DEF WorkerActive
  <2>5. CASE udb_debug_runcmd_wait /\ single_instance # 1
    <3>1. PICK pc \in {"reset_used", "nothread"} :
          /\ wpc' = [wpc EXCEPT ![req.from] = pc] /\ inbox' = inbox /\ npc' \in {"clear", "dead"}
          /\ npc = "RUN_CMD_WAIT" /\ req.from \in Client
      BY <2>5, AcceptFacts DEF udb_debug_runcmd_wait, WaitTypes
    <3>2. \A e \in Client : wpc[e] \in {"none", "gone"}
      BY <1>0, <2>5 DEF SingleInstance, WorkerActive
    <3>3. c = req.from
      <4>1. Asking(req.from)
        BY <3>1 DEF Asking
      <4> QED BY <1>0, <2>3, <3>1, <4>1 DEF Alone
    <3>4. inbox = << >>
      <4>1. Asking(c) /\ cpc[c] \in {"asked", "killed"}
        BY <1>0, <3>1, <3>3 DEF Asking, AskOf, AskPending
      <4>2. cpc[c] = "asked"
        BY <2>3, <4>1 DEF Live
      <4> QED BY <1>0, <4>1, <4>2 DEF AskOf, AskLast
    <3>5. ~Queued(Ask(d))'
      BY <3>1, <3>4 DEF Queued
    <3> QED BY <1>0, <2>3, <3>1, <3>2, <3>3, <3>5 DEF WorkerActive, Asking
  <2>6. CASE \/ (udb_debug_runcmd_wait /\ single_instance = 1) \/ wait_pullout_begin
             \/ wait_pullout_state \/ wait_pullout_copy \/ net_clear \/ Tick \/ UNCHANGED vars
    <3>1. wpc' = wpc /\ inbox' = inbox /\ (Asking(d)' => Asking(d))
      BY <2>6 DEF udb_debug_runcmd_wait, wait_pullout_begin, wait_pullout_state, wait_pullout_copy,
                  net_clear, Tick, vars, netVars, workerVars, clientVars, Asking
    <3> QED BY <2>3, <3>1 DEF Alone, WorkerActive, Queued
  <2>7. ASSUME NEW e \in Client, WorkerStep(e)
        PROVE  ~WorkerActive(d)' /\ ~Asking(d)' /\ ~Queued(Ask(d))'
    <3>1. /\ UNCHANGED <<npc, req, inbox>> /\ WorkerActive(e)
          /\ \A f \in Client : f # e => wpc'[f] = wpc[f]
      BY <2>7, WorkerMoves
    <3>2. wpc[c] # "none"
      BY <2>3, <3>1 DEF WorkerActive
    <3>3. ~WorkerActive(d) /\ ~Asking(d) /\ ~Queued(Ask(d))
      BY <2>3, <3>2 DEF Alone
    <3>4. wpc'[d] = wpc[d]
      BY <3>1, <3>3
    <3> QED BY <3>1, <3>3, <3>4 DEF WorkerActive, Asking, Queued
  <2>8. single_instance = 1 \/ single_instance # 1
    OBVIOUS
  <2> QED BY <1>1, <2>4, <2>5, <2>6, <2>7, <2>8 DEF NetStep
<1>2. ASSUME NEW e \in Client, ClientStep(e) \/ Kill(e) PROVE OneLive' /\ Alone'
  <2>0. /\ wpc' = wpc /\ \A c \in Client : (Asking(c)' <=> Asking(c))
        /\ \A c \in Client : c # e => cpc'[c] = cpc[c]
    BY <1>2, ClientMoves
  <2>1. CASE exec_cmd_wait_start(e)
    <3>1. cpc[e] = "idle" /\ \A c \in Client : ~Live(c)
      BY <2>1 DEF exec_cmd_wait_start
    <3>2. \A c \in Client : Live(c)' => c = e
      BY <2>0, <3>1 DEF Live
    <3>3. wpc'[e] = "none"
      BY <1>0, <2>0, <3>1 DEF AskOf, BeforeAsk
    <3> QED BY <3>2, <3>3 DEF OneLive, Alone
  <2>2. CASE ~exec_cmd_wait_start(e)
    <3>1. /\ cpc[e] \in {"asked", "poll", "polled"} \/ Live(e)
          /\ inbox' = inbox \/ inbox' = Append(inbox, Poll(e))
      BY <1>2, <2>2 DEF ClientStep, Kill, exec_cmd_wait_accept, exec_cmd_wait_poll,
                        exec_cmd_wait_print, Send, Poll
    <3>2. Live(e)
      BY <3>1 DEF Live
    <3>3. \A c \in Client : Live(c)' => Live(c)
      BY <2>0, <3>2 DEF Live
    <3>4. \A d \in Client : Queued(Ask(d))' => Queued(Ask(d))
      <4>1. CASE inbox' = inbox
        BY <4>1 DEF Queued, Ask
      <4>2. CASE inbox' = Append(inbox, Poll(e))
        <5>1. \A r : Queued(r)' <=> Queued(r) \/ r = Poll(e)
          BY <1>0, <4>2, RequestFacts, QueueAppend
        <5>2. \A d \in Client : Ask(d) # Poll(e)
          BY RequestFacts
        <5> QED BY <5>1, <5>2
      <4> QED BY <3>1, <4>1, <4>2
    <3>5. OneLive'
      BY <3>3 DEF OneLive
    <3>6. Alone'
      BY <2>0, <3>3, <3>4 DEF Alone, WorkerActive
    <3> QED BY <3>5, <3>6
  <2> QED BY <2>1, <2>2
<1> QED BY <1>1, <1>2 DEF Next

(* What a command prints is a finite number of lines. *)
LEMMA LinesFinite == \A cmd : Len(Lines(cmd)) \in Nat
<1>1. \A c \in Client : Len(Output[c]) \in Nat
  BY WaitAssumption
<1>2. Len(<< >>) \in Nat
  OBVIOUS
<1> QED BY <1>1, <1>2 DEF Lines

LEMMA LinesStep ==
    ASSUME SIInv, WaitTypes, AskInv, LinesInv, [Next]_vars
    PROVE  LinesInv'
<1>0. /\ wpc \in [Client -> Pcs] /\ nlines \in [Client -> Nat]
      /\ thread_cmd = [c \in Client |-> thread_cmd[c]]
  BY DEF SIInv, RequestsOK, WaitTypes
<1>1. CASE udb_debug_runcmd_wait
  <2>1. UNCHANGED <<nlines, thread_cmd>> /\ req.from \in Client /\ npc = "RUN_CMD_WAIT"
    BY <1>1 DEF udb_debug_runcmd_wait, WaitTypes
  <2>2. wpc[req.from] = "none" /\ nlines[req.from] = 0
    BY <2>1 DEF AskInv, AskPending, Asking, LinesInv
  <2>3. wpc' = wpc \/ \E pc \in {"reset_used", "nothread"} : wpc' = [wpc EXCEPT ![req.from] = pc]
    BY <1>1, AcceptFacts
  <2>4. \A c \in Client : wpc'[c] = wpc[c] \/ (wpc'[c] \in {"reset_used", "nothread"} /\ nlines[c] = 0)
    BY <1>0, <2>2, <2>3
  <2> QED BY <2>1, <2>4 DEF LinesInv
<1>2. CASE \/ net_recv \/ wait_pullout_begin \/ wait_pullout_state \/ wait_pullout_copy
           \/ net_clear \/ Tick \/ UNCHANGED vars \/ \E c \in Client : ClientStep(c) \/ Kill(c)
  <2>1. UNCHANGED <<wpc, nlines, thread_cmd>>
    BY <1>2 DEF net_recv, wait_pullout_begin, wait_pullout_state, wait_pullout_copy, net_clear, Tick,
                vars, workerVars, ClientStep, Kill, exec_cmd_wait_start, exec_cmd_wait_accept,
                exec_cmd_wait_poll, exec_cmd_wait_print
  <2> QED BY <2>1 DEF LinesInv
<1>3. ASSUME NEW c \in Client, WorkerStep(c) PROVE LinesInv'
  <2>1. \A d \in Client : d # c => /\ wpc'[d] = wpc[d] /\ nlines'[d] = nlines[d]
                                   /\ thread_cmd'[d] = thread_cmd[d]
    BY <1>3, WorkerMoves
  <2>2. SUFFICES
          /\ (wpc'[c] \in {"none", "reset_used", "reset_finish", "copy", "popen"} => nlines'[c] = 0)
          /\ (wpc'[c] = "fgets" => nlines'[c] <= Len(Lines(thread_cmd'[c])))
          /\ (wpc'[c] = "check" => nlines'[c] < Len(Lines(thread_cmd'[c])))
          /\ (wpc'[c] \in {"pclose", "finish"} => nlines'[c] = Len(Lines(thread_cmd'[c])))
    BY <2>1 DEF LinesInv, Lines
  <2>3. nlines[c] \in Nat /\ Len(Lines(thread_cmd[c])) \in Nat
    BY <1>0, LinesFinite
  <2>4. CASE worker_reset_used(c) \/ worker_reset_finish(c) \/ worker_copy(c)
    <3>1. wpc'[c] \in {"reset_finish", "copy", "popen"} /\ nlines' = nlines
          /\ wpc[c] \in {"reset_used", "reset_finish", "copy"}
      BY <1>0, <2>4 DEF worker_reset_used, worker_reset_finish, worker_copy, Goto
    <3> QED BY <3>1 DEF LinesInv
  <2>5. CASE worker_popen(c)
    <3>1. wpc'[c] \in {"fgets", "exit_handle"} /\ UNCHANGED <<nlines, thread_cmd>> /\ wpc[c] = "popen"
      BY <1>0, <2>5 DEF worker_popen, Goto
    <3>2. nlines[c] = 0
      BY <3>1 DEF LinesInv
    <3> QED BY <2>3, <3>1, <3>2
  <2>6. CASE worker_fgets(c)
    <3>1. /\ wpc'[c] = IF nlines[c] < Len(Lines(thread_cmd[c])) THEN "check" ELSE "pclose"
          /\ UNCHANGED <<nlines, thread_cmd>> /\ wpc[c] = "fgets"
      BY <1>0, <2>6 DEF worker_fgets, Goto
    <3>2. nlines[c] <= Len(Lines(thread_cmd[c]))
      BY <3>1 DEF LinesInv
    <3> QED BY <2>3, <3>1, <3>2
  <2>7. CASE worker_timeout(c) \/ worker_finish(c) \/ worker_exit_handle(c)
    <3>1. wpc'[c] \in {"exit_handle", "gone"}
      BY <1>0, <2>7 DEF worker_timeout, worker_finish, worker_exit_handle, Goto
    <3> QED BY <3>1
  <2>8. CASE worker_append(c)
    <3>1. wpc'[c] = "fgets" /\ wpc[c] = "check" /\ nlines'[c] = nlines[c] + 1 /\ thread_cmd' = thread_cmd
      BY <1>0, <2>8 DEF worker_append, Goto
    <3>2. nlines[c] < Len(Lines(thread_cmd[c]))
      BY <3>1 DEF LinesInv
    <3> QED BY <2>3, <3>1, <3>2
  <2>9. CASE worker_pclose(c)
    <3>1. wpc'[c] = "finish" /\ UNCHANGED <<nlines, thread_cmd>> /\ wpc[c] = "pclose"
      BY <1>0, <2>9 DEF worker_pclose, Goto
    <3> QED BY <3>1 DEF LinesInv
  <2> QED BY <1>3, <2>4, <2>5, <2>6, <2>7, <2>8, <2>9 DEF WorkerStep
<1> QED BY <1>1, <1>2, <1>3 DEF Next, NetStep
FinishOf(c) == FlagTrue(c) /\ LocalTrue(c) /\ AnswerTrue(c) /\ ReturnTrue(c)

(* A command that is over stays over. *)
LEMMA FinishedStays ==
    ASSUME SIInv, WaitTypes, AskInv, [Next]_vars, NEW c \in Client, Finished(c)
    PROVE  Finished(c)'
<1>0. wpc \in [Client -> Pcs] /\ wpc[c] \in {"exit_handle", "gone"}
  BY DEF SIInv, RequestsOK, Finished
<1>1. CASE udb_debug_runcmd_wait
  <2>1. req.from \in Client /\ npc = "RUN_CMD_WAIT" /\ UNCHANGED <<nlines, thread_cmd>>
    BY <1>1 DEF udb_debug_runcmd_wait, WaitTypes
  <2>2. wpc[req.from] = "none"
    BY <2>1 DEF AskInv, AskPending, Asking
  <2>3. wpc' = wpc \/ \E pc \in {"reset_used", "nothread"} : wpc' = [wpc EXCEPT ![req.from] = pc]
    BY <1>1, AcceptFacts
  <2>4. wpc'[c] = wpc[c]
    BY <1>0, <2>2, <2>3
  <2> QED BY <2>1, <2>4 DEF Finished
<1>2. CASE \/ net_recv \/ wait_pullout_begin \/ wait_pullout_state \/ wait_pullout_copy
           \/ net_clear \/ Tick \/ UNCHANGED vars \/ \E d \in Client : ClientStep(d) \/ Kill(d)
  <2>1. UNCHANGED <<wpc, nlines, thread_cmd>>
    BY <1>2 DEF net_recv, wait_pullout_begin, wait_pullout_state, wait_pullout_copy, net_clear, Tick,
                vars, workerVars, ClientStep, Kill, exec_cmd_wait_start, exec_cmd_wait_accept,
                exec_cmd_wait_poll, exec_cmd_wait_print
  <2> QED BY <2>1 DEF Finished
<1>3. ASSUME NEW d \in Client, WorkerStep(d) PROVE Finished(c)'
  <2>1. CASE d # c
    BY <1>3, <2>1, WorkerMoves DEF Finished
  <2>2. CASE d = c
    <3>1. worker_exit_handle(c)
      BY <1>0, <1>3, <2>2 DEF WorkerStep, worker_reset_used, worker_reset_finish, worker_copy,
             worker_popen, worker_fgets, worker_timeout, worker_append, worker_pclose, worker_finish
    <3>2. wpc'[c] = "gone" /\ UNCHANGED <<nlines, thread_cmd>>
      BY <1>0, <3>1 DEF worker_exit_handle, Goto
    <3> QED BY <3>2 DEF Finished
  <2> QED BY <2>1, <2>2
<1> QED BY <1>1, <1>2, <1>3 DEF Next, NetStep

(* A step with which no new "finished" of client c comes up. *)
LEMMA FinishElsewhere ==
    ASSUME NEW c \in Client, FinishOf(c), Finished(c) => Finished(c)',
           Live(c)' => Live(c), wpc[c] = "none" => wpc'[c] = "none",
           WorkerStale(c) => WorkerStale(c)' \/ cmd_finish' = 0,
           cmd_finish' = 1 => cmd_finish = 1,
           npc' \in {"pullout_state", "pullout_copy"} =>
               /\ npc \in {"pullout_state", "pullout_copy"} /\ req' = req
               /\ (pull_finish' = 1 => pull_finish = 1),
           early \subseteq early',
           cpc'[c] \in {"poll", "polled"} /\ reply'[c].state = 1 =>
               cpc[c] \in {"poll", "polled"} /\ reply[c].state = 1,
           cpc'[c] = "done" => cpc[c] = "done"
    PROVE  FinishOf(c)'
<1>1. FlagTrue(c)'
  BY DEF FinishOf, FlagTrue
<1>2. LocalTrue(c)'
  BY DEF FinishOf, LocalTrue
<1>3. AnswerTrue(c)' /\ ReturnTrue(c)'
  BY DEF FinishOf, AnswerTrue, ReturnTrue
<1> QED BY <1>1, <1>2, <1>3 DEF FinishOf

LEMMA FinishStep ==
    ASSUME SIInv, WaitTypes, AskInv, OneLive, Alone, LinesInv, FinishInv, ~Concurrent, [Next]_vars
    PROVE  FinishInv'
<1> SUFFICES ASSUME NEW c \in Client PROVE FinishOf(c)'
  BY DEF FinishInv, FinishOf
<1>0. /\ FinishOf(c) /\ AskOf(c) /\ (Finished(c) => Finished(c)')
      /\ wpc \in [Client -> Pcs] /\ cpc \in [Client -> ClientPcs]
      /\ reply = [d \in Client |-> reply[d]]
      /\ npc \notin {"recv", "clear"} => req.from \in Client
      /\ inbox \in Seq(Requests)
  BY FinishedStays DEF FinishInv, FinishOf, AskInv, AskOf, SIInv, RequestsOK, WaitTypes
<1>1. CASE net_recv \/ wait_pullout_state \/ net_clear \/ Tick \/ UNCHANGED vars
  <2>1. UNCHANGED <<wpc, cpc, reply, cmd_finish, early>>
    BY <1>1 DEF net_recv, wait_pullout_state, net_clear, Tick, vars, workerVars, clientVars, ctrlVars
  <2>2. npc' \in {"pullout_state", "pullout_copy"} =>
               /\ npc \in {"pullout_state", "pullout_copy"} /\ req' = req
               /\ (pull_finish' = 1 => pull_finish = 1)
    <3>1. ASSUME net_recv PROVE npc' \notin {"pullout_state", "pullout_copy"}
      <4>1. Head(inbox) \in Requests /\ npc' = Head(inbox).chan
        BY <1>0, <3>1, TailFacts DEF net_recv
      <4> QED BY <4>1 DEF Requests
    <3> QED BY <1>1, <3>1 DEF wait_pullout_state, net_clear, Tick, vars, netVars
  <2>3. (Live(c)' => Live(c)) /\ (WorkerStale(c) => WorkerStale(c)')
    BY <2>1 DEF Live, WorkerStale
  <2> QED BY <1>0, <2>1, <2>2, <2>3, FinishElsewhere
<1>2. CASE udb_debug_runcmd_wait
  <2>1. /\ UNCHANGED <<cpc, cmd_finish, early>> /\ npc' \in {"clear", "dead"} /\ req.from \in Client
        /\ Asking(req.from)
    BY <1>0, <1>2, AcceptFacts DEF udb_debug_runcmd_wait, Asking
  <2>2. wpc' = wpc \/ \E pc \in {"reset_used", "nothread"} : wpc' = [wpc EXCEPT ![req.from] = pc]
    BY <1>2, AcceptFacts
  <2>3. reply' = reply \/ \E s, data : Answer(req.from, s, data)
    BY <1>2, AcceptFacts
  <2>4. CASE c # req.from
    <3>1. wpc'[c] = wpc[c] /\ reply'[c] = reply[c]
      BY <1>0, <2>1, <2>2, <2>3, <2>4, AnswerFacts
    <3>2. (Live(c)' => Live(c)) /\ (WorkerStale(c) => WorkerStale(c)')
      BY <2>1, <3>1 DEF Live, WorkerStale
    <3> QED BY <1>0, <2>1, <3>1, <3>2, FinishElsewhere
  <2>5. CASE c = req.from
    <3>1. wpc[c] = "none" /\ cpc[c] \in {"asked", "killed"}
      BY <1>0, <2>1, <2>5 DEF AskOf, AskPending
    <3>2. wpc'[c] = "none" \/ WorkerStale(c)'
      BY <1>0, <2>2, <3>1 DEF WorkerStale
    <3> QED BY <2>1, <3>1, <3>2 DEF FinishOf, FlagTrue, LocalTrue, AnswerTrue, ReturnTrue
  <2> QED BY <2>4, <2>5
<1>3. CASE wait_pullout_begin
  <2>1. /\ UNCHANGED <<wpc, cpc, reply, cmd_finish, req>> /\ pull_finish' = cmd_finish
        /\ npc = "RUN_CMD_WAIT_PULLOUT" /\ npc' = "pullout_state"
        /\ early' = IF WorkerStale(req.from) THEN early \cup {req.from} ELSE early
    BY <1>3 DEF wait_pullout_begin, workerVars, clientVars, ctrlVars
  <2>2. FlagTrue(c)'
    BY <1>0, <2>1 DEF FinishOf, FlagTrue, Live, WorkerStale
  <2>3. LocalTrue(c)'
    <3>1. SUFFICES ASSUME Live(c), req.from = c, cmd_finish = 1, c \notin early' PROVE Finished(c)'
      BY <2>1 DEF LocalTrue, Live
    <3>2. ~WorkerStale(c)
      BY <2>1, <3>1
    <3>3. wpc[c] # "none"
      BY <1>0, <2>1, <3>1 DEF AskOf, PollPending, Polling
    <3> QED BY <1>0, <3>1, <3>2, <3>3 DEF FinishOf, FlagTrue
  <2>4. AnswerTrue(c)' /\ ReturnTrue(c)'
    BY <1>0, <2>1 DEF FinishOf, AnswerTrue, ReturnTrue
  <2> QED BY <2>2, <2>3, <2>4 DEF FinishOf
<1>4. CASE wait_pullout_copy
  <2>1. /\ UNCHANGED <<wpc, cpc, cmd_finish, early>> /\ npc = "pullout_copy" /\ npc' = "clear"
        /\ req.from \in Client
    BY <1>0, <1>4 DEF wait_pullout_copy, workerVars
  <2>2. Answer(req.from, pull_finish, CString(cp_offset, PulloutSize))
    BY <1>4 DEF wait_pullout_copy
  <2>3. FlagTrue(c)' /\ LocalTrue(c)' /\ ReturnTrue(c)'
    BY <1>0, <2>1 DEF FinishOf, FlagTrue, LocalTrue, ReturnTrue, Live, WorkerStale
  <2>4. AnswerTrue(c)'
    <3>1. SUFFICES ASSUME cpc[c] \in {"poll", "polled"}, reply'[c].state = 1, c \notin early
                   PROVE  Finished(c)
      BY <1>0, <2>1 DEF AnswerTrue
    <3>2. Live(c)
      BY <3>1 DEF Live
    <3>3. CASE c # req.from
      <4>1. reply'[c] = reply[c]
        BY <2>1, <2>2, <3>3, AnswerFacts
      <4> QED BY <1>0, <3>1, <4>1 DEF FinishOf, AnswerTrue
    <3>4. CASE c = req.from
      <4>1. reply'[c].state = pull_finish
        BY <2>1, <2>2, <3>2, <3>4, AnswerFacts
      <4> QED BY <1>0, <2>1, <3>1, <3>2, <3>4, <4>1 DEF FinishOf, LocalTrue
    <3> QED BY <3>3, <3>4
  <2> QED BY <2>3, <2>4 DEF FinishOf
<1>5. ASSUME NEW d \in Client, ClientStep(d) \/ Kill(d) PROVE FinishOf(c)'
  <2>0. /\ UNCHANGED <<npc, req, pull_finish, cmd_finish, wpc, early>>
        /\ (c # d => cpc'[c] = cpc[c] /\ reply'[c] = reply[c])
        /\ (WorkerStale(c) => WorkerStale(c)')
    <3>1. /\ UNCHANGED <<npc, req, pull_finish, cmd_finish, wpc, early>>
          /\ (c # d => cpc'[c] = cpc[c] /\ reply'[c] = reply[c])
      BY <1>5, ClientMoves
    <3> QED BY <3>1 DEF WorkerStale
  <2>1. CASE c # d
    <3>1. Live(c)' => Live(c)
      BY <2>0, <2>1 DEF Live
    <3> QED BY <1>0, <2>0, <2>1, <3>1, FinishElsewhere
  <2>2. CASE c = d /\ exec_cmd_wait_start(d)
    <3>1. cpc[c] = "idle" /\ cpc'[c] = "asked"
      BY <1>0, <2>2 DEF exec_cmd_wait_start
    <3>2. wpc[c] = "none" /\ ~Polling(c)
      BY <1>0, <3>1 DEF AskOf, BeforeAsk, PollPending
    <3> QED BY <2>0, <3>1, <3>2 DEF FinishOf, FlagTrue, LocalTrue, AnswerTrue, ReturnTrue, Polling
  <2>3. CASE c = d /\ (exec_cmd_wait_accept(d) \/ Kill(d))
    <3>1. /\ reply'[c] = NoReply /\ Live(c)
          /\ cpc'[c] \in {"poll", "rejected", "killed"}
      BY <1>0, <2>3 DEF exec_cmd_wait_accept, Kill, Live
    <3>2. reply'[c].state # 1
      BY <3>1 DEF NoReply
    <3> QED BY <1>0, <2>0, <3>1, <3>2, FinishElsewhere
  <2>4. CASE c = d /\ exec_cmd_wait_poll(d)
    <3>1. cpc[c] = "poll" /\ cpc'[c] = "polled" /\ reply' = reply /\ Live(c)
      BY <1>0, <2>4 DEF exec_cmd_wait_poll, Live
    <3> QED BY <1>0, <2>0, <3>1, FinishElsewhere
  <2>5. CASE c = d /\ exec_cmd_wait_print(d)
    <3>1. /\ cpc[c] = "polled" /\ reply'[c] = NoReply /\ Live(c)
          /\ cpc'[c] = IF reply[c].state = 1 THEN "done" ELSE "poll"
      BY <1>0, <2>5 DEF exec_cmd_wait_print, Live
    <3>2. reply'[c].state # 1
      BY <3>1 DEF NoReply
    <3>3. ReturnTrue(c)'
      BY <1>0, <2>0, <3>1 DEF ReturnTrue, FinishOf, AnswerTrue
    <3>4. FlagTrue(c)' /\ LocalTrue(c)'
      BY <1>0, <2>0, <3>1 DEF FinishOf, FlagTrue, LocalTrue, WorkerStale
    <3>5. AnswerTrue(c)'
      BY <3>2 DEF AnswerTrue
    <3> QED BY <3>3, <3>4, <3>5 DEF FinishOf
  <2> QED BY <1>5, <2>1, <2>2, <2>3, <2>4, <2>5 DEF ClientStep
<1>6. ASSUME NEW d \in Client, WorkerStep(d) PROVE FinishOf(c)'
  <2>0. /\ UNCHANGED <<npc, req, pull_finish, cpc, reply, early>>
        /\ WorkerActive(d) /\ (d # c => wpc'[c] = wpc[c])
    BY <1>6, WorkerMoves
  <2>1. Live(c)' <=> Live(c)
    BY <2>0 DEF Live
  <2>2. LocalTrue(c)' /\ AnswerTrue(c)' /\ ReturnTrue(c)'
    BY <1>0, <2>0, <2>1 DEF FinishOf, LocalTrue, AnswerTrue, ReturnTrue
  <2>3. FlagTrue(c)'
    <3>1. SUFFICES ASSUME Live(c), wpc'[c] # "none", ~WorkerStale(c)', cmd_finish' = 1
                   PROVE  Finished(c)'
      BY <2>1 DEF FlagTrue
    <3>2. wpc[c] # "none"
      BY <2>0, <3>1 DEF WorkerActive
    <3>3. d = c
      BY <2>0, <3>1, <3>2 DEF Alone
    <3>4. CASE worker_finish(c)
      <4>1. wpc[c] = "finish" /\ wpc'[c] = "exit_handle" /\ UNCHANGED <<nlines, thread_cmd>>
        BY <1>0, <3>4 DEF worker_finish, Goto
      <4>2. nlines[c] = Len(Lines(thread_cmd[c]))
        BY <4>1 DEF LinesInv
      <4> QED BY <4>1, <4>2 DEF Finished
    <3>5. CASE ~worker_finish(c)
      <4>1. ~worker_reset_finish(c) /\ cmd_finish' = cmd_finish
        BY <1>6, <3>1, <3>3, <3>5 DEF WorkerStep, worker_reset_used, worker_reset_finish, worker_copy,
               worker_popen, worker_fgets, worker_timeout, worker_append, worker_pclose,
               worker_exit_handle, ctrlVars
      <4>2. ~WorkerStale(c)
        BY <1>0, <1>6, <3>1, <3>3, <4>1 DEF WorkerStep, worker_reset_used, worker_copy,
               worker_popen, worker_fgets, worker_timeout, worker_append, worker_pclose,
               worker_finish, worker_exit_handle, Goto, WorkerStale
      <4> QED BY <1>0, <3>1, <3>2, <4>1, <4>2 DEF FinishOf, FlagTrue
    <3> QED BY <3>4, <3>5
  <2> QED BY <2>2, <2>3 DEF FinishOf
<1> QED BY <1>1, <1>2, <1>3, <1>4, <1>5, <1>6 DEF Next, NetStep

(* What every order of the requests keeps, and what clients that run one    *)
(* after the other keep besides.                                             *)
OrderInv == SIInv /\ WaitTypes /\ AskInv /\ LinesInv /\ (~Concurrent => OneLive /\ Alone)

(* Every step keeps it, ... *)
LEMMA OrderStep ==
    ASSUME OrderInv, [Next]_vars
    PROVE  OrderInv'
<1>1. SIInv' /\ WaitTypes'
  BY SIStep, WaitTypesStep DEF OrderInv
<1>2. AskInv' /\ LinesInv'
  BY AskStep, LinesStep DEF OrderInv
<1>3. ASSUME ~Concurrent PROVE OneLive' /\ Alone'
  BY <1>3, AloneStep DEF OrderInv
<1> QED BY <1>1, <1>2, <1>3 DEF OrderInv

(* ... and it holds at the start. *)
LEMMA OrderInit ==
    ASSUME Init
    PROVE  OrderInv
<1>0. /\ cpc = [c \in Client |-> "idle"] /\ wpc = [c \in Client |-> "none"] /\ inbox = << >>
      /\ nlines = [c \in Client |-> 0] /\ thread_cmd = [c \in Client |-> NoCmd]
      /\ reply = [c \in Client |-> NoReply] /\ npc = "recv"
  BY DEF Init
<1>1. SIInv
  BY DEF Init, SIInv, RequestsOK, SingleInstance, WorkerActive, Pcs
<1>2. WaitTypes
  BY <1>0 DEF WaitTypes, ClientPcs, NetPcs
<1>3. \A c \in Client : /\ cpc[c] = "idle" /\ wpc[c] = "none" /\ nlines[c] = 0 /\ reply[c] = NoReply
                        /\ ~Asking(c) /\ ~Polling(c)
  BY <1>0 DEF Asking, Polling
<1>4. (\A r : ~Queued(r)) /\ 1 .. Len(inbox) = {}
  BY <1>0 DEF Queued
<1>5. AskInv
  BY <1>3, <1>4 DEF AskInv, AskedOnce, AskPending, AskLast, PollPending, BeforeAsk, HasWorker
<1>6. OneLive /\ Alone /\ LinesInv
  BY <1>3 DEF OneLive, Alone, LinesInv, Live
<1> QED BY <1>1, <1>2, <1>5, <1>6 DEF OrderInv

(* "run cmd and wait for exit": of clients that run one after the other,     *)
(* killed or not, every one that returns does so after its command was read  *)
(* to the end, unless a poll overtook its worker's reset of cmd_finish.  The *)
(* one "finished" that can reach it is its own: while it runs, no worker of  *)
(* a client killed before is active or about to be created, because the      *)
(* requests are served in order and the slot was free when it was accepted.  *)
THEOREM ClientWaits ==
    ASSUME ~Concurrent
    PROVE  Spec => []WaitsForExit
<1>1. Init => WaitInv
  <2> SUFFICES ASSUME Init PROVE WaitInv
    OBVIOUS
  <2>1. OrderInv
    BY OrderInit
  <2>2. FinishInv
    <3>1. /\ \A c \in Client : cpc[c] = "idle" /\ wpc[c] = "none" /\ reply[c] = NoReply
          /\ npc = "recv" /\ cmd_finish = 0
      BY DEF Init
    <3> QED BY <3>1 DEF FinishInv, FlagTrue, LocalTrue, AnswerTrue, ReturnTrue, Live
  <2> QED BY <2>1, <2>2 DEF OrderInv, WaitInv
<1>2. WaitInv /\ [Next]_vars => WaitInv'
  BY SIStep, WaitTypesStep, AskStep, AloneStep, LinesStep, FinishStep DEF WaitInv
<1>3. WaitInv => WaitsForExit
  BY DEF WaitInv, FinishInv, ReturnTrue, Finished, WaitsForExit
<1> QED BY <1>1, <1>2, <1>3, PTL DEF Spec

-----------------------------------------------------------------------------
(* The text of a command's lines.  Induction over their number is the choice *)
(* of the least number for which a claim fails.                              *)

(* The place in the text where line i ends. *)
End(lines, i) == Len(TextUpto(lines)[i])

(* The recursive function that TextUpto defines exists: a least length for   *)
(* which it did not would have one, extended from the length before.         *)
LEMMA TextUptoDef ==
    ASSUME NEW lines, Len(lines) \in Nat
    PROVE  TextUpto(lines) = [n \in 0 .. Len(lines) |->
              IF n = 0 THEN << >> ELSE TextUpto(lines)[n - 1] \o lines[n]]
<1> DEFINE Rec(f, N) == f = [n \in 0 .. N |-> IF n = 0 THEN << >> ELSE f[n - 1] \o lines[n]]
           T == {N \in Nat : ~ \E f : Rec(f, N)}
<1>1. T = {}
  <2>1. SUFFICES ASSUME T # {} PROVE FALSE
    OBVIOUS
  <2>2. PICK N \in T : \A M \in T : N <= M
    <3>1. T \subseteq Nat
      OBVIOUS
    <3> HIDE DEF T
    <3> QED BY <2>1, <3>1, LeastNat
  <2>3. N \in Nat /\ ~ \E f : Rec(f, N)
    OBVIOUS
  <2>4. N # 0
    <3>1. SUFFICES ASSUME N = 0 PROVE FALSE
      OBVIOUS
    <3> DEFINE f0 == [n \in 0 .. 0 |-> << >>]
    <3>2. Rec(f0, 0)
      <4>1. f0 = [n \in 0 .. 0 |-> IF n = 0 THEN << >> ELSE f0[n - 1] \o lines[n]]
        <5> DEFINE h == [n \in 0 .. 0 |-> IF n = 0 THEN << >> ELSE f0[n - 1] \o lines[n]]
        <5>1. \A n \in 0 .. 0 : n = 0
          OBVIOUS
        <5>2. \A n \in 0 .. 0 : h[n] = << >>
          BY <5>1
        <5>3. h = [n \in 0 .. 0 |-> h[n]]
          OBVIOUS
        <5> HIDE DEF h
        <5>4. h = f0
          BY <5>2, <5>3
        <5> QED BY <5>4 DEF h
      <4> QED BY <4>1
    <3> QED BY <2>3, <3>1, <3>2
  <2>5. N - 1 \in Nat /\ N - 1 \notin T
    <3>1. N - 1 \in Nat /\ ~(N <= N - 1)
      BY <2>3, <2>4
    <3> HIDE DEF T
    <3> QED BY <2>2, <3>1
  <2>6. PICK f : Rec(f, N - 1)
    BY <2>5
  <2> DEFINE g == [n \in 0 .. N |-> IF n = N THEN f[N - 1] \o lines[N] ELSE f[n]]
  <2>7. ASSUME NEW n \in 0 .. N
        PROVE  g[n] = IF n = 0 THEN << >> ELSE g[n - 1] \o lines[n]
    <3>1. CASE n = 0
      <4>1. g[0] = f[0]
        BY <2>3, <2>4
      <4>2. f[0] = << >>
        BY <2>5, <2>6
      <4> QED BY <3>1, <4>1, <4>2
    <3>2. CASE n # 0 /\ n # N
      <4>1. n \in 0 .. N - 1 /\ n - 1 \in 0 .. N - 1 /\ n - 1 # N /\ n - 1 \in 0 .. N
        BY <2>3, <3>2
      <4>2. f[n] = f[n - 1] \o lines[n]
        BY <2>6, <3>2, <4>1
      <4>3. g[n] = f[n] /\ g[n - 1] = f[n - 1]
        BY <3>2, <4>1
      <4> QED BY <3>2, <4>2, <4>3
    <3>3. CASE n = N
      <4>1. N - 1 \in 0 .. N /\ N - 1 # N /\ N \in 0 .. N
        BY <2>3, <2>4
      <4>2. g[N] = f[N - 1] \o lines[N] /\ g[N - 1] = f[N - 1]
        BY <4>1
      <4> QED BY <2>4, <3>3, <4>2
    <3> QED BY <3>1, <3>2, <3>3
  <2>8. Rec(g, N)
    <3>1. g = [n \in 0 .. N |-> g[n]]
      OBVIOUS
    <3> HIDE DEF g
    <3> QED BY <2>7, <3>1
  <2> QED BY <2>3, <2>8
<1>2. \E f : Rec(f, Len(lines))
  BY <1>1
<1>3. TextUpto(lines) = CHOOSE f : Rec(f, Len(lines))
  BY DEF TextUpto
<1>4. Rec(TextUpto(lines), Len(lines))
  <2> HIDE DEF Rec
  <2> QED BY <1>2, <1>3
<1> QED BY <1>4

(* The characters of the lines, one line after the other. *)
LEMMA TextUptoStep ==
    ASSUME NEW S, NEW lines \in Seq(Seq(S))
    PROVE  /\ TextUpto(lines)[0] = << >>
           /\ \A n \in 1 .. Len(lines) : TextUpto(lines)[n] = TextUpto(lines)[n - 1] \o lines[n]
<1>1. Len(lines) \in Nat
  OBVIOUS
<1>2. TextUpto(lines) = [n \in 0 .. Len(lines) |->
          IF n = 0 THEN << >> ELSE TextUpto(lines)[n - 1] \o lines[n]]
  BY <1>1, TextUptoDef
<1>3. \A n \in 0 .. Len(lines) : TextUpto(lines)[n] =
          IF n = 0 THEN << >> ELSE TextUpto(lines)[n - 1] \o lines[n]
  <2> DEFINE u == TextUpto(lines)
  <2> HIDE DEF u
  <2>1. u = [n \in 0 .. Len(lines) |-> IF n = 0 THEN << >> ELSE u[n - 1] \o lines[n]]
    BY <1>2 DEF u
  <2>2. \A n \in 0 .. Len(lines) : u[n] = IF n = 0 THEN << >> ELSE u[n - 1] \o lines[n]
    BY <2>1
  <2> QED BY <2>2 DEF u
<1>4. 0 \in 0 .. Len(lines) /\ \A n \in 1 .. Len(lines) : n \in 0 .. Len(lines) /\ n # 0
  BY <1>1
<1> QED BY <1>3, <1>4

(* The text of the first n lines is made of the lines' characters. *)
LEMMA TextUptoType ==
    ASSUME NEW S, NEW lines \in Seq(Seq(S)), NEW n \in 0 .. Len(lines)
    PROVE  TextUpto(lines)[n] \in Seq(S)
<1> DEFINE T == {k \in Nat : k <= Len(lines) /\ TextUpto(lines)[k] \notin Seq(S)}
<1>0. Len(lines) \in Nat
  OBVIOUS
<1>1. SUFFICES ASSUME T # {} PROVE FALSE
  BY <1>0
<1>2. PICK k \in T : \A m \in T : k <= m
  <2>1. T \subseteq Nat
    OBVIOUS
  <2> HIDE DEF T
  <2> QED BY <1>1, <2>1, LeastNat
<1>3. k \in Nat /\ k <= Len(lines) /\ TextUpto(lines)[k] \notin Seq(S)
  OBVIOUS
<1>4. k # 0
  BY <1>3, TextUptoStep, EmptySeq
<1>5. k - 1 \in Nat /\ k - 1 <= Len(lines) /\ k \in 1 .. Len(lines) /\ ~(k <= k - 1)
  BY <1>0, <1>3, <1>4
<1>6. k - 1 \notin T
  <2> HIDE DEF T
  <2> QED BY <1>2, <1>5
<1>7. TextUpto(lines)[k - 1] \in Seq(S) /\ lines[k] \in Seq(S)
  BY <1>5, <1>6, ElementOfSeq
<1>8. TextUpto(lines)[k] = TextUpto(lines)[k - 1] \o lines[k]
  BY <1>5, TextUptoStep
<1> QED BY <1>3, <1>7, <1>8, JoinFacts

(* Every line ends its length after the one before it, the last one where    *)
(* the text ends.                                                            *)
LEMMA EndFacts ==
    ASSUME NEW S, NEW lines \in Seq(Seq(S))
    PROVE  /\ End(lines, 0) = 0 /\ End(lines, Len(lines)) = Len(Text(lines))
           /\ Text(lines) \in Seq(S)
           /\ \A n \in 0 .. Len(lines) : End(lines, n) \in Nat
           /\ \A n \in 1 .. Len(lines) :
                 lines[n] \in Seq(S) /\ End(lines, n) = End(lines, n - 1) + Len(lines[n])
<1>0. Len(lines) \in Nat /\ Len(lines) \in 0 .. Len(lines)
  OBVIOUS
<1>1. End(lines, 0) = 0 /\ End(lines, Len(lines)) = Len(Text(lines))
  <2>1. TextUpto(lines)[0] = << >> /\ Len(<< >>) = 0
    BY TextUptoStep
  <2> QED BY <2>1 DEF End, Text
<1>2. Text(lines) \in Seq(S)
  BY <1>0, TextUptoType DEF Text
<1>3. \A n \in 0 .. Len(lines) : End(lines, n) \in Nat
  <2>1. \A n \in 0 .. Len(lines) : TextUpto(lines)[n] \in Seq(S)
    BY TextUptoType
  <2> QED BY <2>1, LenProperties DEF End
<1>4. ASSUME NEW n \in 1 .. Len(lines)
      PROVE  lines[n] \in Seq(S) /\ End(lines, n) = End(lines, n - 1) + Len(lines[n])
  <2>1. n - 1 \in 0 .. Len(lines)
    BY <1>0
  <2>2. PICK a \in Seq(S), b \in Seq(S) : a = TextUpto(lines)[n - 1] /\ b = lines[n]
    BY <2>1, TextUptoType, ElementOfSeq
  <2>3. TextUpto(lines)[n] = a \o b
    BY <2>2, TextUptoStep
  <2>4. Len(a \o b) = Len(a) + Len(b)
    BY JoinFacts
  <2> QED BY <2>2, <2>3, <2>4 DEF End
<1> QED BY <1>1, <1>2, <1>3, <1>4

(* The text of the first n lines begins with that of the first i. *)
LEMMA TextUptoPrefix ==
    ASSUME NEW S, NEW lines \in Seq(Seq(S)), NEW n \in 0 .. Len(lines), NEW i \in 0 .. n
    PROVE  /\ End(lines, i) <= End(lines, n)
           /\ \A p \in 1 .. End(lines, i) : TextUpto(lines)[n][p] = TextUpto(lines)[i][p]
<1> DEFINE Bad(k) == ~(/\ End(lines, i) <= End(lines, k)
                       /\ \A p \in 1 .. End(lines, i) : TextUpto(lines)[k][p] = TextUpto(lines)[i][p])
           T == {k \in Nat : i <= k /\ k <= Len(lines) /\ Bad(k)}
<1>0. Len(lines) \in Nat /\ n \in Nat /\ i \in Nat /\ i <= n /\ n <= Len(lines)
  OBVIOUS
<1>1. SUFFICES ASSUME T # {} PROVE FALSE
  BY <1>0
<1>2. PICK k \in T : \A m \in T : k <= m
  <2>1. T \subseteq Nat
    OBVIOUS
  <2> HIDE DEF T
  <2> QED BY <1>1, <2>1, LeastNat
<1>3. k \in Nat /\ i <= k /\ k <= Len(lines) /\ Bad(k)
  OBVIOUS
<1>e. i \in 0 .. Len(lines) /\ End(lines, i) \in Nat
  BY <1>0, EndFacts
<1>4. k # i
  <2>1. ~Bad(i)
    BY <1>e
  <2> HIDE DEF Bad
  <2> QED BY <1>3, <2>1
<1>5. /\ k - 1 \in Nat /\ i <= k - 1 /\ k - 1 <= Len(lines) /\ k \in 1 .. Len(lines)
      /\ ~(k <= k - 1) /\ k - 1 \in 0 .. Len(lines)
  <2> HIDE DEF T, Bad
  <2> QED BY <1>0, <1>3, <1>4
<1>6. k - 1 \notin T
  <2> HIDE DEF T
  <2> QED BY <1>2, <1>5
<1>7. /\ End(lines, i) <= End(lines, k - 1)
      /\ \A p \in 1 .. End(lines, i) : TextUpto(lines)[k - 1][p] = TextUpto(lines)[i][p]
  <2> HIDE DEF Bad
  <2>1. ~Bad(k - 1)
    BY <1>5, <1>6
  <2> QED BY <2>1 DEF Bad
<1>8. PICK a \in Seq(S), b \in Seq(S) : a = TextUpto(lines)[k - 1] /\ b = lines[k]
  BY <1>5, TextUptoType, ElementOfSeq
<1>9. /\ TextUpto(lines)[k] = a \o b /\ Len(a) = End(lines, k - 1)
      /\ \A p \in 1 .. Len(a) : (a \o b)[p] = a[p]
      /\ Len(a \o b) = Len(a) + Len(b) /\ Len(a) \in Nat /\ Len(b) \in Nat
  <2>1. TextUpto(lines)[k] = a \o b /\ Len(a) = End(lines, k - 1)
    BY <1>5, <1>8, TextUptoStep DEF End
  <2>2. Len(a \o b) = Len(a) + Len(b) /\ \A p \in 1 .. Len(a) : (a \o b)[p] = a[p]
    BY JoinFacts
  <2>3. Len(a) \in Nat /\ Len(b) \in Nat
    BY LenProperties
  <2> QED BY <2>1, <2>2, <2>3, Zenon
<1>10. End(lines, i) <= End(lines, k)
  BY <1>e, <1>7, <1>9 DEF End
<1>11. ASSUME NEW p \in 1 .. End(lines, i) PROVE TextUpto(lines)[k][p] = TextUpto(lines)[i][p]
  <2>1. p \in 1 .. Len(a)
    BY <1>e, <1>7, <1>9
  <2> QED BY <1>7, <1>8, <1>9, <2>1
<1>12. ~Bad(k)
  BY <1>10, <1>11
<1> QED
  <2> HIDE DEF Bad
  <2> QED BY <1>3, <1>12

(* Character m of line n in the whole text. *)
LEMMA TextFacts ==
    ASSUME NEW S, NEW lines \in Seq(Seq(S)), NEW n \in 1 .. Len(lines)
    PROVE  /\ End(lines, n) <= Len(Text(lines))
           /\ \A m \in 1 .. Len(lines[n]) : Text(lines)[End(lines, n - 1) + m] = lines[n][m]
<1>0. /\ Len(lines) \in Nat /\ Len(lines) \in 0 .. Len(lines) /\ n \in 0 .. Len(lines)
      /\ n - 1 \in 0 .. Len(lines)
  OBVIOUS
<1>1. /\ End(lines, n) <= End(lines, Len(lines))
      /\ \A p \in 1 .. End(lines, n) : TextUpto(lines)[Len(lines)][p] = TextUpto(lines)[n][p]
  BY <1>0, TextUptoPrefix
<1>2. PICK a \in Seq(S), b \in Seq(S) : a = TextUpto(lines)[n - 1] /\ b = lines[n]
  BY <1>0, TextUptoType, ElementOfSeq
<1>3. /\ TextUpto(lines)[n] = a \o b /\ Len(a) = End(lines, n - 1)
      /\ \A p \in 1 .. Len(b) : (a \o b)[Len(a) + p] = b[p]
      /\ Len(a \o b) = Len(a) + Len(b) /\ Len(a) \in Nat /\ Len(b) \in Nat
  <2>1. TextUpto(lines)[n] = a \o b /\ Len(a) = End(lines, n - 1)
    BY <1>2, TextUptoStep DEF End
  <2>2. Len(a \o b) = Len(a) + Len(b) /\ \A p \in 1 .. Len(b) : (a \o b)[Len(a) + p] = b[p]
    BY JoinFacts
  <2>3. Len(a) \in Nat /\ Len(b) \in Nat
    BY LenProperties
  <2> QED BY <2>1, <2>2, <2>3, Zenon
<1>4. ASSUME NEW m \in 1 .. Len(b) PROVE Text(lines)[End(lines, n - 1) + m] = b[m]
  <2>1. Len(a) + m \in 1 .. End(lines, n)
    BY <1>3 DEF End
  <2>2. TextUpto(lines)[Len(lines)][Len(a) + m] = TextUpto(lines)[n][Len(a) + m]
    BY <1>1, <2>1
  <2> QED BY <1>3, <2>2 DEF Text
<1> QED BY <1>1, <1>2, <1>4, EndFacts

-----------------------------------------------------------------------------
(* The types of all variables, of overlapping clients too. *)
(* The output of every command fits the buffer: worker_append does not check *)
(* it, and the code promises nothing when it does not hold.                  *)
OutputFits == \A c \in Client : Len(Text(Output[c])) + Len(Output[c]) <= BufSize

(* The lines of the command that the worker of client c runs. *)
OutputOf(c) == Lines(thread_cmd[c])

(* What a command prints: lines of characters, none of them a NUL. *)
LEMMA LinesType == \A cmd : Lines(cmd) \in Seq(Seq(Nat \ {0}))
<1>1. << >> \in Seq(Seq(Nat \ {0}))
  BY EmptySeq
<1>2. \A c \in Client : Output[c] \in Seq(Seq(Nat \ {0}))
  BY WaitAssumption
<1> QED BY <1>1, <1>2 DEF Lines

(* The end of the first n lines, with their NULs, lies in the buffer. *)
LEMMA OutputInBuffer ==
    ASSUME OutputFits, NEW cmd, NEW n \in 0 .. Len(Lines(cmd))
    PROVE  End(Lines(cmd), n) \in Nat /\ End(Lines(cmd), n) + n <= BufSize
<1>0. /\ Lines(cmd) \in Seq(Seq(Nat \ {0})) /\ Len(Lines(cmd)) \in Nat /\ BufSize \in Nat
      /\ Len(Lines(cmd)) \in 0 .. Len(Lines(cmd))
  BY LinesType, LinesFinite, WaitAssumption
<1>1. /\ End(Lines(cmd), Len(Lines(cmd))) = Len(Text(Lines(cmd)))
      /\ End(Lines(cmd), n) \in Nat /\ End(Lines(cmd), Len(Lines(cmd))) \in Nat
  BY <1>0, EndFacts
<1>2. End(Lines(cmd), n) <= End(Lines(cmd), Len(Lines(cmd)))
  BY <1>0, TextUptoPrefix
<1>3. Len(Text(Lines(cmd))) + Len(Lines(cmd)) <= BufSize
  <2>1. CASE cmd \in Client
    BY <2>1 DEF OutputFits, Lines
  <2>2. CASE cmd \notin Client
    <3>1. Lines(cmd) = << >>
      BY <2>2 DEF Lines
    <3>2. Len(Lines(cmd)) = 0
      BY <3>1
    <3>3. Len(Text(Lines(cmd))) = 0
      BY <1>0, <1>1, <3>2, EndFacts
    <3> QED BY <1>0, <3>2, <3>3
  <2> QED BY <2>1, <2>2
<1> QED BY <1>0, <1>1, <1>2, <1>3

(* strlen finds the first NUL: past the end of the buffer there is one. *)
LEMMA StrLenFacts ==
    ASSUME NEW off \in Nat
    PROVE  /\ StrLen(off) \in 0 .. BufSize /\ Byte(off + StrLen(off)) = 0
           /\ \A m \in 0 .. StrLen(off) - 1 : Byte(off + m) # 0
<1> DEFINE T == {n \in Nat : Byte(off + n) = 0}
           Is(n) == Byte(off + n) = 0 /\ \A m \in 0 .. n - 1 : Byte(off + m) # 0
<1>0. BufSize \in Nat
  BY WaitAssumption
<1>1. BufSize \in T
  BY <1>0 DEF Byte
<1>2. PICK n \in T : \A m \in T : n <= m
  <2>1. T \subseteq Nat /\ T # {}
    BY <1>1
  <2> HIDE DEF T
  <2> QED BY <2>1, LeastNat
<1>3. n \in Nat /\ Byte(off + n) = 0
  OBVIOUS
<1>4. n \in 0 .. BufSize
  <2>1. n <= BufSize
    BY <1>1, <1>2
  <2> QED BY <1>0, <1>3, <2>1
<1>5. ASSUME NEW m \in 0 .. n - 1 PROVE Byte(off + m) # 0
  <2>1. m \in Nat /\ ~(n <= m)
    BY <1>3
  <2>2. m \notin T
    <3> HIDE DEF T
    <3> QED BY <1>2, <2>1
  <2> QED BY <2>1, <2>2
<1>6. Is(n)
  BY <1>3, <1>5
<1>7. StrLen(off) = CHOOSE k \in 0 .. BufSize : Is(k)
  BY DEF StrLen
<1>8. StrLen(off) \in 0 .. BufSize /\ Is(StrLen(off))
  <2> HIDE DEF Is
  <2> QED BY <1>4, <1>6, <1>7
<1> QED BY <1>8

(* The size of an answer is a number. *)
LEMMA PulloutSizeType ==
    ASSUME cp_offset \in Nat, cp_size \in Nat, used_size \in Nat
    PROVE  PulloutSize \in Nat
<1>1. U32 \in Nat \ {0}
  BY WaitAssumption
<1>2. Sub32(used_size, cp_offset) \in 0 .. U32 - 1
  BY <1>1 DEF Sub32
<1>3. StrLen(cp_offset) \in Nat
  BY StrLenFacts, WaitAssumption
<1> QED BY <1>1, <1>2, <1>3 DEF PulloutSize, MinOf

-----------------------------------------------------------------------------
(* The worker has written at most the lines it has read; less, when a poll   *)
(* that ends the command before it resets the offsets meanwhile.             *)
UsedBound ==
    \A c \in Client : WorkerActive(c) /\ wpc[c] \notin {"reset_used", "nothread"} =>
        /\ nlines[c] <= Len(OutputOf(c))
        /\ used_size <= End(OutputOf(c), nlines[c]) + nlines[c]

(* The words of the control block and of the net thread. *)
WordsOK ==
    /\ cmd_finish \in {0, 1} /\ pull_finish \in {0, 1}
    /\ cp_offset \in 0 .. U32 - 1 /\ cp_size \in 0 .. U32 - 1
    /\ tm_last_update \in 0 .. ClockMod - 1 /\ now \in 0 .. ClockMod - 1
    /\ single_instance \in {0, 1}
    /\ netbuf \in Client \cup {Empty}
    /\ thread_cmd \in [Client -> Client \cup {Empty, Torn, NoCmd}]

(* Every step keeps the words in their ranges. *)
LEMMA WordsStep ==
    ASSUME OrderInv, WordsOK, used_size \in 0 .. BufSize, [Next]_vars
    PROVE  WordsOK'
<1>0. /\ U32 \in Nat \ {0} /\ ClockMod \in Nat \ {0} /\ U32 > ProtSize /\ ProtSize \in Nat /\ ProtSize > 1
      /\ used_size \in Nat /\ cp_offset \in Nat /\ cp_size \in Nat /\ now \in Nat /\ BufSize \in Nat
  BY WaitAssumption DEF WordsOK
<1>1. CASE net_recv
  <2>1. /\ UNCHANGED <<ctrlVars, pull_finish, cp_size, thread_cmd, now>>
        /\ inbox # << >> /\ netbuf' = IF Head(inbox).chan = "RUN_CMD_WAIT" THEN Head(inbox).from ELSE Empty
    BY <1>1 DEF net_recv, workerVars, timeVars
  <2>2. Head(inbox) \in Requests
    BY <2>1, TailFacts DEF OrderInv, SIInv, RequestsOK
  <2>3. Head(inbox).from \in Client
    BY <2>2 DEF Requests
  <2> QED BY <2>1, <2>3 DEF WordsOK, ctrlVars
<1>2. CASE udb_debug_runcmd_wait
  <2>1. /\ UNCHANGED <<cmd_finish, netbuf, pull_finish, cp_size, thread_cmd, now>>
        /\ single_instance' \in {0, 1}
        /\ tm_last_update' \in {now, tm_last_update} /\ cp_offset' \in {0, cp_offset}
    BY <1>2 DEF udb_debug_runcmd_wait
  <2> QED BY <1>0, <2>1 DEF WordsOK
<1>3. CASE wait_pullout_begin \/ wait_pullout_state \/ net_clear
  <2>1. UNCHANGED <<ctrlVars, thread_cmd, now>> /\ netbuf' \in {netbuf, Empty}
    BY <1>3 DEF wait_pullout_begin, wait_pullout_state, net_clear, workerVars, timeVars
  <2>2. pull_finish' \in {0, pull_finish, cmd_finish}
    BY <1>3 DEF wait_pullout_begin, wait_pullout_state, net_clear
  <2>3. cp_size' \in {cp_size, 0, Cap, Sub32(used_size, cp_offset)}
    BY <1>3 DEF wait_pullout_begin, wait_pullout_state, net_clear
  <2>4. cp_size' \in 0 .. U32 - 1
    <3>1. Sub32(used_size, cp_offset) \in 0 .. U32 - 1 /\ Cap \in 0 .. U32 - 1
      BY <1>0 DEF Sub32, Cap
    <3>2. 0 \in 0 .. U32 - 1
      BY <1>0
    <3> QED BY <2>3, <3>1, <3>2 DEF WordsOK
  <2> QED BY <2>1, <2>2, <2>4 DEF WordsOK, ctrlVars
<1>4. CASE wait_pullout_copy
  <2>1. /\ UNCHANGED <<single_instance, cmd_finish, netbuf, pull_finish, cp_size, thread_cmd, now>>
        /\ tm_last_update' = now /\ cp_offset' \in {0, (cp_offset + PulloutSize) % U32}
    BY <1>4 DEF wait_pullout_copy, workerVars
  <2>2. (cp_offset + PulloutSize) % U32 \in 0 .. U32 - 1
    <3>1. PulloutSize \in Nat
      BY <1>0, PulloutSizeType
    <3> QED BY <1>0, <3>1
  <2> QED BY <1>0, <2>1, <2>2 DEF WordsOK
<1>5. CASE Tick
  <2>1. UNCHANGED <<ctrlVars, netVars, thread_cmd>> /\ now' = (now + 1) % ClockMod
    BY <1>5 DEF Tick, workerVars
  <2> QED BY <1>0, <2>1 DEF WordsOK, ctrlVars, netVars
<1>6. ASSUME NEW c \in Client, ClientStep(c) \/ Kill(c) PROVE WordsOK'
  <2>1. UNCHANGED <<ctrlVars, netVars, thread_cmd, now>>
    BY <1>6 DEF ClientStep, Kill, exec_cmd_wait_start, exec_cmd_wait_accept, exec_cmd_wait_poll,
                exec_cmd_wait_print, workerVars, timeVars
  <2> QED BY <2>1 DEF WordsOK, ctrlVars, netVars
<1>7. ASSUME NEW c \in Client, WorkerStep(c) PROVE WordsOK'
  <2>1. UNCHANGED <<netVars, now, cp_offset, tm_last_update>>
    BY <1>7 DEF WorkerStep, worker_reset_used, worker_reset_finish, worker_copy, worker_popen,
                worker_fgets, worker_timeout, worker_append, worker_pclose, worker_finish,
                worker_exit_handle, timeVars, ctrlVars
  <2>2. cmd_finish' \in {cmd_finish, 0, 1} /\ single_instance' \in {single_instance, 0}
    BY <1>7 DEF WorkerStep, worker_reset_used, worker_reset_finish, worker_copy, worker_popen,
                worker_fgets, worker_timeout, worker_append, worker_pclose, worker_finish,
                worker_exit_handle, ctrlVars
  <2>3. thread_cmd' = thread_cmd \/ \E x \in {netbuf, Torn, Empty} : thread_cmd' = [thread_cmd EXCEPT ![c] = x]
    BY <1>7 DEF WorkerStep, worker_reset_used, worker_reset_finish, worker_copy, worker_popen,
                worker_fgets, worker_timeout, worker_append, worker_pclose, worker_finish,
                worker_exit_handle
  <2>4. thread_cmd' \in [Client -> Client \cup {Empty, Torn, NoCmd}]
    BY <2>3 DEF WordsOK
  <2> QED BY <2>1, <2>2, <2>4 DEF WordsOK, netVars
<1>8. CASE UNCHANGED vars
  <2>1. UNCHANGED <<ctrlVars, netVars, thread_cmd, now>>
    BY <1>8 DEF vars, workerVars, timeVars
  <2> QED BY <2>1 DEF WordsOK, ctrlVars, netVars
<1> QED BY <1>1, <1>2, <1>3, <1>4, <1>5, <1>6, <1>7, <1>8 DEF Next, NetStep

(* Every step keeps the bound on used_size: it is what the worker wrote, or 0. *)
LEMMA UsedStep ==
    ASSUME OutputFits, OrderInv, WordsOK, used_size \in 0 .. BufSize, UsedBound, [Next]_vars
    PROVE  used_size' \in 0 .. BufSize /\ UsedBound'
<1>0. /\ wpc \in [Client -> Pcs] /\ nlines \in [Client -> Nat] /\ BufSize \in Nat
      /\ SingleInstance /\ thread_cmd = [c \in Client |-> thread_cmd[c]]
  BY WaitAssumption DEF OrderInv, SIInv, RequestsOK, WaitTypes
<1>z. \A cmd : End(Lines(cmd), 0) = 0 /\ Len(Lines(cmd)) \in Nat
  BY LinesType, LinesFinite, EndFacts
<1>1. CASE udb_debug_runcmd_wait
  <2>1. UNCHANGED <<used_size, nlines, thread_cmd>>
    BY <1>1 DEF udb_debug_runcmd_wait
  <2>2. wpc' = wpc \/ \E pc \in {"reset_used", "nothread"} : wpc' = [wpc EXCEPT ![req.from] = pc]
    BY <1>1, AcceptFacts
  <2>3. \A c \in Client : wpc'[c] \notin {"reset_used", "nothread"} => wpc'[c] = wpc[c]
    BY <1>0, <2>2
  <2> QED BY <2>1, <2>3 DEF UsedBound, WorkerActive, OutputOf
<1>2. CASE \/ net_recv \/ wait_pullout_begin \/ wait_pullout_state \/ net_clear \/ Tick
           \/ UNCHANGED vars \/ \E c \in Client : ClientStep(c) \/ Kill(c)
  <2>1. UNCHANGED <<wpc, nlines, thread_cmd, used_size>>
    BY <1>2 DEF net_recv, wait_pullout_begin, wait_pullout_state, net_clear, Tick,
                vars, workerVars, ctrlVars, ClientStep, Kill, exec_cmd_wait_start,
                exec_cmd_wait_accept, exec_cmd_wait_poll, exec_cmd_wait_print
  <2> QED BY <2>1 DEF UsedBound, WorkerActive, OutputOf
<1>3. CASE wait_pullout_copy
  <2>1. UNCHANGED <<wpc, nlines, thread_cmd>> /\ used_size' \in {0, used_size}
    BY <1>3 DEF wait_pullout_copy, workerVars
  <2>2. ASSUME NEW c \in Client, WorkerActive(c), wpc[c] \notin {"reset_used", "nothread"}
        PROVE  /\ nlines[c] <= Len(OutputOf(c))
               /\ used_size' <= End(OutputOf(c), nlines[c]) + nlines[c]
    <3>1. /\ nlines[c] <= Len(OutputOf(c)) /\ nlines[c] \in Nat
          /\ used_size <= End(OutputOf(c), nlines[c]) + nlines[c]
      BY <1>0, <2>2 DEF UsedBound
    <3>2. nlines[c] \in 0 .. Len(OutputOf(c))
      BY <1>z, <3>1 DEF OutputOf
    <3>3. End(OutputOf(c), nlines[c]) \in Nat
      BY <3>2, OutputInBuffer DEF OutputOf
    <3> QED BY <2>1, <3>1, <3>3
  <2>3. used_size' \in 0 .. BufSize
    BY <1>0, <2>1
  <2> QED BY <2>1, <2>2, <2>3 DEF UsedBound, WorkerActive, OutputOf
<1>4. ASSUME NEW c \in Client, WorkerStep(c) PROVE used_size' \in 0 .. BufSize /\ UsedBound'
  <2>1. /\ WorkerActive(c)
        /\ \A d \in Client : d # c => /\ wpc'[d] = wpc[d] /\ nlines'[d] = nlines[d]
                                      /\ thread_cmd'[d] = thread_cmd[d]
    BY <1>4, WorkerMoves DEF OrderInv
  <2>2. \A d \in Client : d # c => ~WorkerActive(d)
    BY <1>0, <2>1 DEF SingleInstance
  <2>3. SUFFICES /\ used_size' \in 0 .. BufSize
                 /\ (wpc'[c] \notin {"none", "gone", "reset_used", "nothread"} =>
                       /\ nlines'[c] <= Len(Lines(thread_cmd'[c]))
                       /\ used_size' <= End(Lines(thread_cmd'[c]), nlines'[c]) + nlines'[c])
    BY <2>1, <2>2 DEF UsedBound, WorkerActive, OutputOf
  <2>4. CASE worker_reset_used(c) \/ worker_reset_finish(c) \/ worker_copy(c)
    <3>1. /\ nlines' = nlines /\ (used_size' = used_size \/ used_size' = 0)
          /\ wpc[c] \in {"reset_used", "reset_finish", "copy"}
          /\ (wpc[c] = "reset_used" => used_size' = 0)
      BY <2>4 DEF worker_reset_used, worker_reset_finish, worker_copy, ctrlVars
    <3>2. nlines[c] = 0
      BY <3>1 DEF OrderInv, LinesInv
    <3>3. used_size' = 0
      <4>1. CASE wpc[c] # "reset_used"
        <5>1. used_size <= End(Lines(thread_cmd[c]), nlines[c]) + nlines[c]
          BY <2>1, <3>1, <4>1 DEF UsedBound, OutputOf
        <5>2. used_size <= 0
          BY <1>z, <3>2, <5>1
        <5> QED BY <1>0, <3>1, <5>2
      <4> QED BY <3>1, <4>1
    <3>4. End(Lines(thread_cmd'[c]), 0) = 0 /\ Len(Lines(thread_cmd'[c])) \in Nat
      BY <1>z
    <3> QED BY <1>0, <3>1, <3>2, <3>3, <3>4
  <2>5. CASE \/ worker_popen(c) \/ worker_fgets(c) \/ worker_timeout(c) \/ worker_pclose(c)
             \/ worker_finish(c) \/ worker_exit_handle(c)
    <3>1. UNCHANGED <<nlines, thread_cmd, used_size>> /\ wpc[c] \notin {"reset_used", "nothread"}
      BY <2>5 DEF worker_popen, worker_fgets, worker_timeout, worker_pclose, worker_finish,
                  worker_exit_handle, ctrlVars
    <3> QED BY <2>1, <3>1 DEF UsedBound, OutputOf
  <2>6. CASE worker_append(c)
    <3> DEFINE L == Lines(thread_cmd[c])
               k == nlines[c]
    <3>1. /\ wpc[c] = "check" /\ thread_cmd' = thread_cmd /\ nlines'[c] = k + 1
          /\ used_size' = used_size + (Len(L[k + 1]) + 1)
      BY <1>0, <2>6 DEF worker_append
    <3>2. k \in Nat /\ k < Len(L) /\ used_size <= End(L, k) + k /\ Len(L) \in Nat
      BY <1>0, <1>z, <2>1, <3>1 DEF UsedBound, OutputOf, OrderInv, LinesInv
    <3>3. L \in Seq(Seq(Nat \ {0})) /\ k + 1 \in 1 .. Len(L) /\ k + 1 \in 0 .. Len(L) /\ k \in 0 .. Len(L)
      BY <3>2, LinesType
    <3>4. /\ L[k + 1] \in Seq(Nat \ {0}) /\ End(L, k) \in Nat
          /\ End(L, k + 1) = End(L, (k + 1) - 1) + Len(L[k + 1])
      BY <3>3, EndFacts
    <3>5. End(L, k + 1) \in Nat /\ End(L, k + 1) + (k + 1) <= BufSize
      BY <3>3, OutputInBuffer
    <3>6. Len(L[k + 1]) \in Nat /\ (k + 1) - 1 = k
      BY <3>2, <3>4
    <3> HIDE DEF L, k
    <3>8. End(L, k + 1) = End(L, k) + Len(L[k + 1])
      BY <3>4, <3>6
    <3>7. /\ used_size' \in 0 .. BufSize /\ used_size' <= End(L, k + 1) + (k + 1)
          /\ k + 1 <= Len(L)
      <4>1. PICK e \in Nat, f \in Nat, l \in Nat : e = End(L, k) /\ f = End(L, k + 1) /\ l = Len(L[k + 1])
        BY <3>4, <3>5, <3>6
      <4>2. /\ f = e + l /\ used_size <= e + k /\ f + (k + 1) <= BufSize /\ used_size' = used_size + (l + 1)
            /\ used_size \in Nat
        BY <3>1, <3>2, <3>5, <3>8, <4>1
      <4>3. used_size' \in 0 .. BufSize /\ used_size' <= f + (k + 1) /\ k + 1 <= Len(L)
        BY <1>0, <3>2, <4>2
      <4> QED BY <4>1, <4>3
    <3> QED BY <3>1, <3>7 DEF L, k
  <2> QED BY <1>4, <2>4, <2>5, <2>6 DEF WorkerStep
<1> QED BY <1>1, <1>2, <1>3, <1>4 DEF Next, NetStep

(* Both hold at the start. *)
LEMMA WordsInit ==
    ASSUME Init
    PROVE  WordsOK /\ used_size \in 0 .. BufSize /\ UsedBound
<1>1. BufSize \in Nat /\ U32 \in Nat \ {0} /\ ClockMod \in Nat \ {0}
  BY WaitAssumption
<1>2. WordsOK /\ used_size \in 0 .. BufSize
  BY <1>1 DEF WordsOK, Init
<1>3. UsedBound
  BY DEF Init, UsedBound, WorkerActive
<1> QED BY <1>2, <1>3

(* Every word of the control block stays in its range, whoever runs beside   *)
(* whom: the worker writes used_size without a bound (worker_append), and    *)
(* stays within the buffer if the outputs fit it, because it has reset       *)
(* used_size itself and whatever a poll does to it meanwhile only lowers it. *)
THEOREM WaitTyped ==
    ASSUME OutputFits
    PROVE  Spec => []TypeOK
<1> DEFINE TInv == OrderInv /\ WordsOK /\ used_size \in 0 .. BufSize /\ UsedBound
<1>1. Init => TInv
  BY OrderInit, WordsInit
<1>2. TInv /\ [Next]_vars => TInv'
  BY OrderStep, WordsStep, UsedStep
<1>3. TInv => TypeOK
  BY DEF TypeOK, OrderInv, WordsOK, SIInv, RequestsOK, WaitTypes, NetPcs, ClientPcs, Pcs
<1> HIDE DEF TInv
<1> QED BY <1>1, <1>2, <1>3, PTL DEF Spec

-----------------------------------------------------------------------------
(* Output in order, without loss.  While a client runs, the buffer holds the *)
(* lines its worker has read, each with its NUL, and cp_offset stands where  *)
(* what the client got ends; nobody else is served or writes meanwhile.      *)

(* What client c has printed and what is on its way to it. *)
Got(c) == printed[c] \o reply[c].data

(* The client has a worker and was not told that the command is over. *)
Running(c) == Live(c) /\ wpc[c] # "none" /\ ~(cpc[c] = "polled" /\ reply[c].state = 1)

(* Bytes. *)
DataTypes ==
    /\ printed \in [Client -> Seq(Nat)]
    /\ reply \in [Client -> [state : Int, data : Seq(Nat)]]
    /\ runcmd_buf \in [0 .. BufSize - 1 -> Nat]

(* A client that runs has one poll under way at most, and then no answer; no *)
(* poll of another client is left over when it has a worker.                 *)
PollOnce(c) ==
    /\ \A i, j \in 1 .. Len(inbox) : inbox[i] = Poll(c) /\ inbox[j] = Poll(c) /\ Live(c) => i = j
    /\ ~(Queued(Poll(c)) /\ Polling(c) /\ Live(c))
    /\ ((Queued(Poll(c)) \/ Polling(c)) /\ Live(c) => cpc[c] = "polled" /\ reply[c] = NoReply)
    /\ (cpc[c] = "poll" => reply[c] = NoReply)
PollAlone(c) ==
    Live(c) /\ wpc[c] # "none" =>
        \A d \in Client : d # c => ~Queued(Poll(d)) /\ ~Polling(d)

(* No answer is being made for a client whose worker has not begun. *)
StaleQuiet(c) ==
    WorkerStale(c) /\ c \notin early =>
        ~(npc \in {"pullout_state", "pullout_copy"} /\ req.from = c)

(* A client whose command has not begun got nothing yet. *)
Fresh(c) ==
    /\ (wpc[c] \in {"none", "reset_used", "reset_finish", "copy"} /\ c \notin early
            => Got(c) = << >>)
    /\ (cpc[c] = "asked" => reply[c].data = << >>)

(* The buffer holds the lines read so far, each with its NUL. *)
Filled(c) ==
    \A i \in 1 .. nlines[c] :
        /\ \A p \in End(OutputOf(c), i - 1) + 1 .. End(OutputOf(c), i) :
              runcmd_buf[p + i - 2] = Text(OutputOf(c))[p]
        /\ runcmd_buf[End(OutputOf(c), i) + i - 1] = 0

(* cp_offset stands in line j + 1, and what the client got is the text up to *)
(* there: g characters, j NULs.                                              *)
CursorAt(c, j, g) ==
    /\ End(OutputOf(c), j) <= g
    /\ (j < nlines[c] => g <= End(OutputOf(c), j + 1))
    /\ (j = nlines[c] => g = End(OutputOf(c), j))
    /\ cp_offset = g + j
    /\ Got(c) = SubSeq(Text(OutputOf(c)), 1, g)
Cursor(c) == \E j \in 0 .. nlines[c] : \E g \in 0 .. Len(Text(OutputOf(c))) : CursorAt(c, j, g)

(* While a client runs: where the worker writes and the net thread reads. *)
Stream(c) ==
    Running(c) /\ c \notin early =>
        /\ (wpc[c] \in {"reset_used", "nothread"} => cp_offset = 0)
        /\ (wpc[c] \notin {"reset_used", "nothread"} =>
              /\ nlines[c] <= Len(OutputOf(c))
              /\ used_size = End(OutputOf(c), nlines[c]) + nlines[c]
              /\ Filled(c) /\ Cursor(c))

(* What a client got is the beginning of its command's output. *)
GotPrefix(c) == c \notin early => IsPrefixOf(Got(c), Text(OutputOf(c)))

QuietOf(c) == PollOnce(c) /\ PollAlone(c) /\ StaleQuiet(c)
DataOf(c) == Fresh(c) /\ Stream(c) /\ GotPrefix(c)
WordsInv == WordsOK /\ used_size \in 0 .. BufSize

(* The answer's string: bytes of the buffer, up to the first NUL. *)
LEMMA CStringFacts ==
    ASSUME DataTypes, NEW off \in Nat, NEW n \in Nat
    PROVE  /\ CString(off, n) \in Seq(Nat) /\ Len(CString(off, n)) = MinOf(n, StrLen(off))
           /\ \A i \in 1 .. MinOf(n, StrLen(off)) : CString(off, n)[i] = Byte(off + i - 1)
<1>0. BufSize \in Nat /\ StrLen(off) \in 0 .. BufSize
  BY StrLenFacts, WaitAssumption
<1>1. PICK k \in Nat : k = MinOf(n, StrLen(off))
  BY <1>0 DEF MinOf
<1>2. \A i \in 1 .. k : Byte(off + i - 1) \in Nat
  <2>1. SUFFICES ASSUME NEW i \in 1 .. k PROVE Byte(off + i - 1) \in Nat
    OBVIOUS
  <2>2. off + i - 1 \in Nat
    OBVIOUS
  <2>3. off + i - 1 < BufSize => off + i - 1 \in 0 .. BufSize - 1
    BY <1>0, <2>2
  <2> QED BY <2>3 DEF Byte, DataTypes
<1>3. CString(off, n) = [i \in 1 .. k |-> Byte(off + i - 1)]
  BY <1>1 DEF CString
<1>4. CString(off, n) \in [1 .. k -> Nat]
  BY <1>2, <1>3
<1>5. CString(off, n) \in Seq(Nat) /\ Len(CString(off, n)) = k
  BY <1>4, FunctionIsSeq
<1> QED BY <1>1, <1>3, <1>5

(* Every step keeps the types of the data. *)
LEMMA DataStep ==
    ASSUME OrderInv, WordsInv, DataTypes, [Next]_vars
    PROVE  DataTypes'
<1>0. /\ printed \in [Client -> Seq(Nat)] /\ reply \in [Client -> [state : Int, data : Seq(Nat)]]
      /\ runcmd_buf \in [0 .. BufSize - 1 -> Nat]
      /\ used_size \in Nat /\ cp_offset \in Nat /\ cp_size \in Nat /\ pull_finish \in Int
  BY WaitAssumption DEF DataTypes, WordsInv, WordsOK
<1>n. NoReply \in [state : Int, data : Seq(Nat)]
  <2>1. << >> \in Seq(Nat)
    BY EmptySeq
  <2> QED BY <2>1 DEF NoReply
<1>1. CASE udb_debug_runcmd_wait
  <2>1. /\ UNCHANGED <<printed, runcmd_buf>>
        /\ reply' = reply \/ \E s \in {0, 1} : Answer(req.from, s, << >>)
    BY <1>1, AcceptFacts DEF udb_debug_runcmd_wait
  <2>2. << >> \in Seq(Nat)
    BY EmptySeq
  <2>3. reply' \in [Client -> [state : Int, data : Seq(Nat)]]
    <3>1. PICK s \in {0, 1} : reply' = reply \/ Answer(req.from, s, << >>)
      BY <2>1
    <3>2. [state |-> s, data |-> << >>] \in [state : Int, data : Seq(Nat)]
      BY <2>2
    <3> QED BY <1>0, <3>1, <3>2 DEF Answer
  <2> QED BY <1>0, <2>1, <2>3 DEF DataTypes
<1>2. CASE wait_pullout_copy
  <2>1. /\ printed' = printed /\ Answer(req.from, pull_finish, CString(cp_offset, PulloutSize))
        /\ runcmd_buf' \in {runcmd_buf, [i \in 0 .. BufSize - 1 |-> 0]}
    BY <1>2 DEF wait_pullout_copy
  <2>2. CString(cp_offset, PulloutSize) \in Seq(Nat)
    BY <1>0, PulloutSizeType, CStringFacts
  <2>3. reply' \in [Client -> [state : Int, data : Seq(Nat)]]
    BY <1>0, <2>1, <2>2 DEF Answer
  <2>4. runcmd_buf' \in [0 .. BufSize - 1 -> Nat]
    BY <1>0, <2>1
  <2> QED BY <1>0, <2>1, <2>3, <2>4 DEF DataTypes
<1>3. CASE \/ net_recv \/ wait_pullout_begin \/ wait_pullout_state \/ net_clear \/ Tick
           \/ UNCHANGED vars
  <2>1. UNCHANGED <<printed, reply, runcmd_buf>>
    BY <1>3 DEF net_recv, wait_pullout_begin, wait_pullout_state, net_clear, Tick,
                vars, clientVars, ctrlVars
  <2> QED BY <2>1 DEF DataTypes
<1>4. ASSUME NEW c \in Client, ClientStep(c) \/ Kill(c) PROVE DataTypes'
  <2>1. /\ runcmd_buf' = runcmd_buf
        /\ reply' = reply \/ reply' = [reply EXCEPT ![c] = NoReply]
        /\ printed' = printed \/ printed' = [printed EXCEPT ![c] = @ \o reply[c].data]
    BY <1>4 DEF ClientStep, Kill, exec_cmd_wait_start, exec_cmd_wait_accept, exec_cmd_wait_poll,
                exec_cmd_wait_print, ctrlVars
  <2>2. reply' \in [Client -> [state : Int, data : Seq(Nat)]]
    BY <1>0, <1>n, <2>1
  <2>3. printed[c] \o reply[c].data \in Seq(Nat)
    <3>1. printed[c] \in Seq(Nat) /\ reply[c].data \in Seq(Nat)
      BY <1>0
    <3> QED BY <3>1, JoinFacts
  <2>4. printed' \in [Client -> Seq(Nat)]
    BY <1>0, <2>1, <2>3
  <2> QED BY <1>0, <2>1, <2>2, <2>4 DEF DataTypes
<1>5. ASSUME NEW c \in Client, WorkerStep(c) PROVE DataTypes'
  <2>1. UNCHANGED <<printed, reply>>
    BY <1>5 DEF WorkerStep, worker_reset_used, worker_reset_finish, worker_copy, worker_popen,
                worker_fgets, worker_timeout, worker_append, worker_pclose, worker_finish,
                worker_exit_handle, clientVars
  <2>2. CASE ~worker_append(c)
    <3>1. runcmd_buf' = runcmd_buf
      BY <1>5, <2>2 DEF WorkerStep, worker_reset_used, worker_reset_finish, worker_copy, worker_popen,
                worker_fgets, worker_timeout, worker_pclose, worker_finish,
                worker_exit_handle, ctrlVars
    <3> QED BY <1>0, <2>1, <3>1 DEF DataTypes
  <2>3. CASE worker_append(c)
    <3> DEFINE L == Lines(thread_cmd[c])
               k == nlines[c]
    <3>1. wpc[c] = "check" /\ k \in Nat /\ k < Len(L) /\ Len(L) \in Nat
      BY <2>3, LinesFinite DEF worker_append, OrderInv, LinesInv, WaitTypes
    <3>2. L \in Seq(Seq(Nat \ {0})) /\ k + 1 \in 1 .. Len(L)
      BY <3>1, LinesType
    <3>3. PICK line \in Seq(Nat \ {0}) : line = L[k + 1]
      BY <3>2, ElementOfSeq
    <3>4. runcmd_buf' = [i \in 0 .. BufSize - 1 |->
                 IF i < used_size \/ i >= used_size + (Len(line) + 1) THEN runcmd_buf[i]
                 ELSE IF i = used_size + (Len(line) + 1) - 1 THEN 0
                 ELSE line[i - used_size + 1]]
      BY <2>3, <3>3 DEF worker_append
    <3>5. ASSUME NEW i \in 0 .. BufSize - 1,
                 ~(i < used_size \/ i >= used_size + (Len(line) + 1)),
                 i # used_size + (Len(line) + 1) - 1
          PROVE  line[i - used_size + 1] \in Nat
      <4>1. Len(line) \in Nat /\ i \in Nat
        BY WaitAssumption
      <4>2. i - used_size + 1 \in 1 .. Len(line)
        <5>1. PICK l \in Nat, u \in Nat : l = Len(line) /\ u = used_size
          BY <1>0, <4>1
        <5>2. i >= u /\ i < u + (l + 1) /\ i # u + (l + 1) - 1
          BY <3>5, <4>1, <5>1
        <5>3. i - u + 1 \in 1 .. l
          BY <4>1, <5>2
        <5> QED BY <5>1, <5>3
      <4> QED BY <4>2
    <3>6. runcmd_buf' \in [0 .. BufSize - 1 -> Nat]
      BY <1>0, <3>4, <3>5
    <3> QED BY <1>0, <2>1, <3>6 DEF DataTypes
  <2> QED BY <2>2, <2>3
<1> QED BY <1>1, <1>2, <1>3, <1>4, <1>5 DEF Next, NetStep

(* The cursor stays within what was written. *)
LEMMA CursorBound ==
    ASSUME NEW lines \in Seq(Seq(Nat \ {0})), NEW k \in 0 .. Len(lines), NEW j \in 0 .. k, NEW g \in Nat,
           j < k => g <= End(lines, j + 1), j = k => g = End(lines, j)
    PROVE  End(lines, k) \in Nat /\ g <= End(lines, k) /\ g + j <= End(lines, k) + k
           /\ g <= Len(Text(lines))
<1>0. /\ Len(lines) \in Nat /\ k \in Nat /\ j \in Nat /\ j <= k /\ k <= Len(lines)
      /\ Len(lines) \in 0 .. Len(lines)
  OBVIOUS
<1>1. End(lines, k) \in Nat /\ End(lines, Len(lines)) = Len(Text(lines))
      /\ End(lines, Len(lines)) \in Nat
  BY <1>0, EndFacts
<1>2. End(lines, k) <= End(lines, Len(lines))
  BY <1>0, TextUptoPrefix
<1>3. g <= End(lines, k)
  <2>1. CASE j = k
    BY <1>1, <2>1
  <2>2. CASE j < k
    <3>1. j + 1 \in 0 .. k /\ j + 1 \in 0 .. Len(lines)
      BY <1>0, <2>2
    <3>2. End(lines, j + 1) <= End(lines, k) /\ End(lines, j + 1) \in Nat
      BY <3>1, TextUptoPrefix, EndFacts
    <3> QED BY <1>1, <2>2, <3>2
  <2> QED BY <1>0, <2>1, <2>2
<1> QED BY <1>0, <1>1, <1>2, <1>3

(* Arithmetic that does not wrap. *)
LEMMA SmallMod ==
    ASSUME NEW x \in Nat, NEW n \in Nat, x < n
    PROVE  x % n = x
  OBVIOUS

(* wait_pullout_copy takes the bytes at cp_offset up to the next NUL: the    *)
(* string it sends continues the text, and cp_offset again stands in a line. *)
LEMMA CopyAdvance ==
    ASSUME DataTypes, WordsInv, NEW c \in Client, nlines[c] \in Nat, nlines[c] <= Len(OutputOf(c)),
           used_size = End(OutputOf(c), nlines[c]) + nlines[c], Filled(c),
           NEW j \in 0 .. nlines[c], NEW g \in Nat, CursorAt(c, j, g)
    PROVE  \E j2 \in 0 .. nlines[c] : \E g2 \in 0 .. Len(Text(OutputOf(c))) :
              /\ End(OutputOf(c), j2) <= g2
              /\ (j2 < nlines[c] => g2 <= End(OutputOf(c), j2 + 1))
              /\ (j2 = nlines[c] => g2 = End(OutputOf(c), j2))
              /\ (cp_offset + PulloutSize) % U32 = g2 + j2
              /\ SubSeq(Text(OutputOf(c)), 1, g) \o CString(cp_offset, PulloutSize)
                     = SubSeq(Text(OutputOf(c)), 1, g2)
<1> DEFINE O == OutputOf(c)
           k == nlines[c]
           T == Text(O)
<1>0. /\ BufSize \in Nat /\ U32 \in Nat /\ U32 > BufSize
      /\ used_size \in Nat /\ used_size <= BufSize /\ cp_offset \in Nat /\ cp_size \in Nat
      /\ O \in Seq(Seq(Nat \ {0})) /\ k \in Nat /\ k <= Len(O) /\ Len(O) \in Nat
  BY WaitAssumption, LinesType, LinesFinite DEF WordsInv, WordsOK, OutputOf
<1>1. /\ End(O, j) <= g /\ (j < k => g <= End(O, j + 1)) /\ (j = k => g = End(O, j))
      /\ cp_offset = g + j
  BY DEF CursorAt
<1>2. /\ T \in Seq(Nat \ {0}) /\ T \in Seq(Nat)
  BY <1>0, EndFacts
<1>3. k \in 0 .. Len(O) /\ j \in Nat /\ j <= k
  BY <1>0
<1>4. End(O, k) \in Nat /\ g <= End(O, k) /\ g + j <= End(O, k) + k /\ g <= Len(T)
  BY <1>0, <1>1, <1>3, CursorBound
<1>5. used_size = End(O, k) + k /\ cp_offset <= used_size
  BY <1>1, <1>4
<1>6. Filled(c)
  OBVIOUS
<1> HIDE DEF O, k, T
<1>7. Sub32(used_size, cp_offset) = used_size - cp_offset
  <2>1. PICK d \in Nat : d = used_size - cp_offset /\ d < U32
    BY <1>0, <1>5
  <2>2. d % U32 = d
    BY <1>0, <2>1, SmallMod
  <2> QED BY <2>1, <2>2 DEF Sub32
<1>8. StrLen(cp_offset) \in Nat
  <2>1. StrLen(cp_offset) \in 0 .. BufSize
    BY <1>0, StrLenFacts
  <2> QED BY <1>0, <2>1
<1>9. PICK n \in Nat : /\ n = PulloutSize /\ n <= used_size - cp_offset /\ n <= StrLen(cp_offset) + 1
                       /\ n <= cp_size
  <2>1. PICK d \in Nat, l \in Nat, x \in Nat :
            d = used_size - cp_offset /\ l = StrLen(cp_offset) + 1 /\ x = cp_size
    <3>1. used_size - cp_offset \in Nat
      BY <1>0, <1>5
    <3>2. StrLen(cp_offset) + 1 \in Nat
      BY <1>8
    <3>3. cp_size \in Nat
      BY <1>0
    <3> QED BY <3>1, <3>2, <3>3, Zenon
  <2>2. PulloutSize = MinOf(MinOf(x, d), l)
    BY <1>7, <2>1 DEF PulloutSize
  <2>3. \E n \in Nat : n = MinOf(MinOf(x, d), l) /\ n <= d /\ n <= l /\ n <= x
    BY DEF MinOf
  <2> QED BY <2>1, <2>2, <2>3
<1>10. (cp_offset + n) % U32 = cp_offset + n
  <2>1. cp_offset + n \in Nat /\ cp_offset + n < U32
    BY <1>0, <1>5, <1>9
  <2> QED BY <1>0, <2>1, SmallMod
<1>11. PICK q \in Nat : q = MinOf(n, StrLen(cp_offset))
  BY <1>8 DEF MinOf
<1>12. PICK s \in Seq(Nat) : /\ s = CString(cp_offset, n) /\ Len(s) = q
                             /\ \A i \in 1 .. q : s[i] = Byte(cp_offset + i - 1)
  <2>1. cp_offset \in Nat
    BY <1>0
  <2>2. /\ CString(cp_offset, n) \in Seq(Nat) /\ Len(CString(cp_offset, n)) = MinOf(n, StrLen(cp_offset))
        /\ \A i \in 1 .. MinOf(n, StrLen(cp_offset)) :
              CString(cp_offset, n)[i] = Byte(cp_offset + i - 1)
    BY <2>1, CStringFacts
  <2> QED BY <1>11, <2>2, Zenon
<1>13. PICK a \in Seq(Nat) : a = SubSeq(T, 1, g) /\ Len(a) = g
  <2>1. 1 \in Nat /\ 1 <= g + 1
    OBVIOUS
  <2>2. SubSeq(T, 1, g) \in Seq(Nat) /\ Len(SubSeq(T, 1, g)) = g - 1 + 1
    BY <1>2, <1>4, <2>1, SliceFacts
  <2>3. g - 1 + 1 = g
    OBVIOUS
  <2> QED BY <2>2, <2>3
<1>14. SUFFICES \E j2 \in 0 .. k : \E g2 \in 0 .. Len(T) :
              /\ End(O, j2) <= g2
              /\ (j2 < k => g2 <= End(O, j2 + 1))
              /\ (j2 = k => g2 = End(O, j2))
              /\ cp_offset + n = g2 + j2
              /\ a \o s = SubSeq(T, 1, g2)
  BY <1>9, <1>10, <1>12, <1>13 DEF O, k, T
<1>15. CASE j = k
  <2>1. n = 0 /\ q = 0
    BY <1>1, <1>5, <1>8, <1>9, <1>11, <1>15 DEF MinOf
  <2>2. s = << >>
    BY <1>12, <2>1, EmptySeq
  <2>3. a \o s = a
    BY <2>2
  <2>4. g \in 0 .. Len(T) /\ j \in 0 .. k
    BY <1>2, <1>3, <1>4
  <2>5. cp_offset + n = g + j
    BY <1>0, <1>1, <2>1
  <2> QED BY <1>1, <1>13, <2>3, <2>4, <2>5
<1>16. CASE j < k
  <2>1. j + 1 \in 1 .. k /\ j + 1 \in 1 .. Len(O) /\ j + 1 \in 0 .. k /\ j + 1 \in 0 .. Len(O)
        /\ (j + 1) - 1 = j /\ j \in 0 .. Len(O)
    BY <1>0, <1>3, <1>16
  <2>2. PICK e \in Nat : e = End(O, j + 1)
    BY <1>0, <2>1, EndFacts
  <2>3. e <= End(O, k) /\ g <= e
    BY <1>0, <1>1, <1>3, <1>16, <2>1, <2>2, TextUptoPrefix
  <2>4. /\ \A p \in End(O, j) + 1 .. e : runcmd_buf[p + (j + 1) - 2] = T[p]
        /\ runcmd_buf[e + (j + 1) - 1] = 0
    <3>1. /\ \A p \in End(O, (j + 1) - 1) + 1 .. End(O, j + 1) : runcmd_buf[p + (j + 1) - 2] = T[p]
          /\ runcmd_buf[End(O, j + 1) + (j + 1) - 1] = 0
      BY <1>6, <2>1 DEF Filled, O, k, T
    <3> QED BY <2>1, <2>2, <3>1
  <2>5. PICK w \in Nat : w = e - g
    BY <2>2, <2>3
  <2>6. ASSUME NEW i \in 0 .. w - 1 PROVE Byte(cp_offset + i) = T[g + i + 1] /\ T[g + i + 1] # 0
    <3>1. g + i + 1 \in End(O, j) + 1 .. e /\ (g + i + 1) + (j + 1) - 2 = cp_offset + i
      <4>1. End(O, j) \in Nat
        BY <1>0, <2>1, EndFacts
      <4> QED BY <1>1, <1>3, <2>5, <4>1
    <3>2. runcmd_buf[cp_offset + i] = T[g + i + 1]
      BY <2>4, <3>1
    <3>3. cp_offset + i < BufSize
      BY <1>0, <1>1, <1>4, <1>5, <1>3, <2>3, <2>5
    <3>4. g + i + 1 \in 1 .. Len(T)
      <4>1. e <= Len(T)
        BY <1>0, <2>1, <2>2, TextFacts DEF T
      <4> QED BY <1>2, <2>5, <4>1
    <3>5. T[g + i + 1] \in Nat \ {0}
      BY <1>2, <3>4, ElementOfSeq
    <3> QED BY <3>2, <3>3, <3>5 DEF Byte
  <2>7. Byte(cp_offset + w) = 0
    <3>1. e + (j + 1) - 1 = cp_offset + w
      BY <1>1, <1>3, <2>5
    <3> QED BY <2>4, <3>1 DEF Byte
  <2>8. StrLen(cp_offset) = w
    <3>1. /\ Byte(cp_offset + StrLen(cp_offset)) = 0
          /\ \A m \in 0 .. StrLen(cp_offset) - 1 : Byte(cp_offset + m) # 0
      BY <1>0, StrLenFacts
    <3>2. ~(StrLen(cp_offset) < w)
      <4>1. SUFFICES ASSUME StrLen(cp_offset) < w PROVE FALSE
        OBVIOUS
      <4>2. StrLen(cp_offset) \in 0 .. w - 1
        BY <1>8, <4>1
      <4> QED BY <2>6, <3>1, <4>2
    <3>3. ~(w < StrLen(cp_offset))
      <4>1. SUFFICES ASSUME w < StrLen(cp_offset) PROVE FALSE
        OBVIOUS
      <4>2. w \in 0 .. StrLen(cp_offset) - 1
        BY <1>8, <4>1
      <4> QED BY <2>7, <3>1, <4>2
    <3> QED BY <1>8, <3>2, <3>3
  <2>9. n <= w + 1 /\ (n <= w => q = n) /\ (n = w + 1 => q = w) /\ q <= w
    BY <1>9, <1>11, <2>8 DEF MinOf
  <2>10. g + q <= Len(T)
    <3>1. e <= Len(T)
      BY <1>0, <2>1, <2>2, TextFacts DEF T
    <3> QED BY <1>2, <2>5, <2>9, <3>1
  <2>11. s = SubSeq(T, g + 1, g + q)
    <3>1. g + 1 \in Nat /\ g + q \in Nat /\ 1 <= g + 1 /\ g + 1 <= (g + q) + 1
      OBVIOUS
    <3> DEFINE b == SubSeq(T, g + 1, g + q)
    <3>2. /\ b \in Seq(Nat) /\ Len(b) = (g + q) - (g + 1) + 1
          /\ \A i \in 1 .. (g + q) - (g + 1) + 1 : b[i] = T[(g + 1) + i - 1]
      <4>1. PICK x \in Nat, y \in Nat : x = g + 1 /\ y = g + q
        BY <3>1
      <4>2. 1 <= x /\ y <= Len(T) /\ x <= y + 1
        BY <2>10, <3>1, <4>1
      <4>3. /\ SubSeq(T, x, y) \in Seq(Nat) /\ Len(SubSeq(T, x, y)) = y - x + 1
            /\ \A i \in 1 .. y - x + 1 : SubSeq(T, x, y)[i] = T[x + i - 1]
        <5>1. T \in Seq(Nat)
          BY <1>2
        <5>2. 1 <= x /\ y <= Len(T) /\ x <= y + 1
          BY <4>2
        <5> QED BY <5>1, <5>2, SliceFacts
      <4> QED BY <4>1, <4>3
    <3> HIDE DEF b
    <3>6. (g + q) - (g + 1) + 1 = q /\ \A i \in 1 .. q : (g + 1) + i - 1 = g + i
      OBVIOUS
    <3>3. Len(b) = q /\ \A i \in 1 .. q : b[i] = T[g + i]
      BY <3>2, <3>6
    <3>4. ASSUME NEW i \in 1 .. q PROVE s[i] = b[i]
      <4>1. i - 1 \in 0 .. w - 1 /\ g + (i - 1) + 1 = g + i /\ cp_offset + i - 1 = cp_offset + (i - 1)
        BY <1>0, <2>9
      <4>2. Byte(cp_offset + (i - 1)) = T[g + (i - 1) + 1]
        BY <2>6, <4>1
      <4> QED BY <1>12, <3>3, <4>1, <4>2
    <3>5. s = b
      BY <1>12, <3>2, <3>3, <3>4, SeqEqual
    <3> QED BY <3>5 DEF b
  <2>12. a \o s = SubSeq(T, 1, g + q)
    BY <1>2, <1>13, <2>10, <2>11, PrefixGrows
  <2>13. CASE n <= w
    <3>1. g + q \in 0 .. Len(T) /\ j \in 0 .. k /\ End(O, j) <= g + q /\ g + q <= e /\ j # k
      <4>1. End(O, j) \in Nat
        BY <1>0, <2>1, EndFacts
      <4> QED BY <1>1, <1>2, <1>3, <1>16, <2>5, <2>9, <2>10, <4>1
    <3>2. cp_offset + n = (g + q) + j
      BY <1>1, <1>3, <2>9, <2>13
    <3> QED BY <2>2, <2>12, <3>1, <3>2
  <2>14. CASE n = w + 1
    <3>1. g + q = e /\ g + q \in 0 .. Len(T)
      BY <1>2, <2>5, <2>9, <2>10, <2>14
    <3>2. cp_offset + n = (g + q) + (j + 1)
      BY <1>1, <1>3, <2>9, <2>14
    <3>3. j + 1 < k => g + q <= End(O, (j + 1) + 1)
      <4>1. SUFFICES ASSUME j + 1 < k PROVE g + q <= End(O, (j + 1) + 1)
        OBVIOUS
      <4>2. (j + 1) + 1 \in 0 .. Len(O) /\ j + 1 \in 0 .. (j + 1) + 1
        BY <1>0, <1>3, <4>1
      <4>3. End(O, j + 1) <= End(O, (j + 1) + 1)
        BY <1>0, <4>2, TextUptoPrefix
      <4> QED BY <2>2, <3>1, <4>3
    <3>4. End(O, j + 1) <= g + q /\ (j + 1 = k => g + q = End(O, j + 1))
      BY <2>2, <3>1
    <3> QED BY <2>1, <2>12, <3>1, <3>2, <3>3, <3>4
  <2>15. n <= w \/ n = w + 1
    BY <2>9
  <2> QED BY <2>13, <2>14, <2>15
<1>17. j = k \/ j < k
  BY <1>0, <1>3
<1> QED BY <1>15, <1>16, <1>17

(* The polls of client c: the queue and the net thread. *)
LEMMA QuietNet ==
    ASSUME OrderInv, ~Concurrent, NEW c \in Client, QuietOf(c), NetStep
    PROVE  QuietOf(c)'
<1>0. /\ AskOf(c) /\ inbox \in Seq(Requests) /\ wpc \in [Client -> Pcs] /\ WaitTypes
      /\ (npc \notin {"recv", "clear"} => req.from \in Client)
      /\ PollOnce(c) /\ PollAlone(c) /\ StaleQuiet(c)
  BY DEF OrderInv, AskInv, AskOf, SIInv, RequestsOK, WaitTypes, QuietOf
<1>1. CASE net_recv
  <2>1. /\ inbox # << >> /\ inbox' = Tail(inbox) /\ npc = "recv" /\ req' = Head(inbox)
        /\ npc' = Head(inbox).chan /\ UNCHANGED <<wpc, cpc, reply, early>>
    BY <1>1 DEF net_recv, workerVars
  <2>2. /\ Queued(Head(inbox)) /\ (\A r : Queued(r)' => Queued(r))
        /\ Len(inbox) \in Nat \ {0} /\ Len(inbox') = Len(inbox) - 1
        /\ Head(inbox) = inbox[1] /\ Head(inbox) \in Requests
        /\ \A i \in 1 .. Len(inbox') : i + 1 \in 1 .. Len(inbox) /\ inbox'[i] = inbox[i + 1]
    BY <1>0, <2>1, QueueTail
  <2>3. npc' \in {"RUN_CMD_WAIT", "RUN_CMD_WAIT_PULLOUT"}
    BY <2>1, <2>2 DEF Requests
  <2>4. \A d \in Client : Polling(d)' => inbox[1] = Poll(d) /\ Queued(Poll(d))
    BY <2>1, <2>2, <2>3, RequestFacts DEF Polling
  <2>5. \A i, j \in 1 .. Len(inbox) : inbox[i] = Poll(c) /\ inbox[j] = Poll(c) /\ Live(c) => i = j
    BY <1>0 DEF PollOnce
  <2>6. ASSUME NEW i \in 1 .. Len(inbox'), NEW j \in 1 .. Len(inbox'),
               inbox'[i] = Poll(c), inbox'[j] = Poll(c), Live(c)
        PROVE  i = j
    <3>1. i + 1 = j + 1
      BY <2>2, <2>5, <2>6
    <3>2. i \in Int /\ j \in Int
      BY <2>2
    <3> QED BY <3>1, <3>2
  <2>7. ASSUME Queued(Poll(c))', Polling(c)', Live(c) PROVE FALSE
    <3>1. PICK i \in 1 .. Len(inbox') : inbox'[i] = Poll(c)
      BY <2>7 DEF Queued
    <3>2. i + 1 \in 1 .. Len(inbox) /\ inbox[i + 1] = Poll(c) /\ inbox[1] = Poll(c) /\ 1 \in 1 .. Len(inbox)
      BY <2>2, <2>4, <2>7, <3>1
    <3>3. i + 1 = 1
      BY <2>5, <2>7, <3>2
    <3> QED BY <2>2, <3>3
  <2>8. Live(c)' <=> Live(c)
    BY <2>1 DEF Live
  <2>9. PollOnce(c)'
    <3>1. (\A i, j \in 1 .. Len(inbox) : inbox[i] = Poll(c) /\ inbox[j] = Poll(c) /\ Live(c) => i = j)'
      BY <2>6, <2>8 DEF Poll
    <3>2. (Queued(Poll(c)) \/ Polling(c))' => Queued(Poll(c))
      BY <2>2, <2>4
    <3> QED BY <1>0, <2>1, <2>7, <2>8, <3>1, <3>2 DEF PollOnce
  <2>10. PollAlone(c)'
    BY <1>0, <2>1, <2>2, <2>4, <2>8 DEF PollAlone
  <2>11. StaleQuiet(c)'
    BY <2>3 DEF StaleQuiet
  <2> QED BY <2>9, <2>10, <2>11 DEF QuietOf
<1>2. CASE wait_pullout_begin \/ wait_pullout_state \/ net_clear
  <2>1. /\ UNCHANGED <<inbox, wpc, cpc, reply>> /\ early \subseteq early'
        /\ \A d \in Client : Polling(d)' => Polling(d)
    BY <1>2 DEF wait_pullout_begin, wait_pullout_state, net_clear, workerVars, clientVars, Polling
  <2>2. (\A r : Queued(r)' <=> Queued(r)) /\ (Live(c)' <=> Live(c)) /\ (WorkerStale(c)' <=> WorkerStale(c))
    BY <2>1 DEF Queued, Live, WorkerStale
  <2>3. PollOnce(c)'
    <3>1. (\A i, j \in 1 .. Len(inbox) : inbox[i] = Poll(c) /\ inbox[j] = Poll(c) /\ Live(c) => i = j)'
      BY <1>0, <2>1, <2>2 DEF Poll, PollOnce
    <3> QED BY <1>0, <2>1, <2>2, <3>1 DEF PollOnce
  <2>4. PollAlone(c)'
    BY <1>0, <2>1, <2>2 DEF PollAlone
  <2>5. StaleQuiet(c)'
    <3>1. CASE wait_pullout_begin
      <4>1. req' = req /\ early' = IF WorkerStale(req.from) THEN early \cup {req.from} ELSE early
        BY <3>1 DEF wait_pullout_begin
      <4> QED BY <2>2, <4>1 DEF StaleQuiet
    <3>2. CASE wait_pullout_state
      <4>1. req' = req /\ npc = "pullout_state" /\ early' = early
        BY <3>2 DEF wait_pullout_state
      <4> QED BY <1>0, <2>2, <4>1 DEF StaleQuiet
    <3>3. CASE net_clear
      BY <3>3 DEF net_clear, StaleQuiet
    <3> QED BY <1>2, <3>1, <3>2, <3>3
  <2> QED BY <2>3, <2>4, <2>5 DEF QuietOf
<1>3. CASE udb_debug_runcmd_wait \/ wait_pullout_copy
  <2>1. UNCHANGED <<inbox, cpc>> /\ npc' \in {"clear", "dead"} /\ req.from \in Client
    BY <1>0, <1>3, AcceptFacts DEF udb_debug_runcmd_wait, wait_pullout_copy
  <2>2. /\ (\A r : Queued(r)' <=> Queued(r)) /\ (Live(c)' <=> Live(c))
        /\ \A d \in Client : ~Polling(d)'
    BY <2>1 DEF Queued, Live, Polling
  <2>3. reply' = reply \/ \E s, data : Answer(req.from, s, data)
    BY <1>3, AcceptFacts DEF wait_pullout_copy
  <2>4. c # req.from \/ ~Live(c) => reply'[c] = reply[c]
    BY <1>0, <2>1, <2>3, AnswerFacts
  <2>5. StaleQuiet(c)'
    BY <2>1 DEF StaleQuiet
  <2>6. PollOnce(c)'
    <3>1. (\A i, j \in 1 .. Len(inbox) : inbox[i] = Poll(c) /\ inbox[j] = Poll(c) /\ Live(c) => i = j)'
      BY <1>0, <2>1, <2>2 DEF Poll, PollOnce
    <3>2. CASE c # req.from \/ ~Live(c)
      BY <1>0, <2>1, <2>2, <2>4, <3>1, <3>2 DEF PollOnce
    <3>3. CASE c = req.from /\ Live(c)
      <4>1. ~Queued(Poll(c)) /\ cpc[c] # "poll"
        <5>1. CASE udb_debug_runcmd_wait
          <6>1. Asking(c)
            BY <3>3, <5>1 DEF udb_debug_runcmd_wait, Asking
          <6> QED BY <1>0, <6>1 DEF AskOf, AskPending, PollPending
        <5>2. CASE wait_pullout_copy
          <6>1. Polling(c)
            BY <3>3, <5>2 DEF wait_pullout_copy, Polling
          <6> QED BY <1>0, <3>3, <6>1 DEF PollOnce
        <5> QED BY <1>3, <5>1, <5>2
      <4> QED BY <2>1, <2>2, <3>1, <4>1 DEF PollOnce
    <3> QED BY <3>2, <3>3
  <2>7. PollAlone(c)'
    <3>1. SUFFICES ASSUME Live(c), wpc'[c] # "none", NEW d \in Client, d # c PROVE ~Queued(Poll(d))
      BY <2>2 DEF PollAlone
    <3>2. CASE wpc[c] # "none"
      BY <1>0, <3>1, <3>2 DEF PollAlone
    <3>3. CASE wpc[c] = "none"
      <4>1. /\ udb_debug_runcmd_wait
            /\ wpc' = wpc \/ \E pc \in {"reset_used", "nothread"} : wpc' = [wpc EXCEPT ![req.from] = pc]
        BY <1>3, <3>1, <3>3, AcceptFacts DEF wait_pullout_copy, workerVars
      <4>2. c = req.from /\ Asking(c)
        BY <1>0, <3>1, <3>3, <4>1 DEF udb_debug_runcmd_wait, Asking
      <4>3. cpc[c] = "asked"
        BY <1>0, <3>1, <4>2 DEF AskOf, AskPending, Live
      <4>4. inbox = << >>
        BY <1>0, <4>2, <4>3 DEF AskOf, AskLast
      <4> QED BY <4>4 DEF Queued
    <3> QED BY <3>2, <3>3
  <2> QED BY <2>5, <2>6, <2>7 DEF QuietOf
<1> QED BY <1>1, <1>2, <1>3 DEF NetStep

(* The polls of client c: a step of a client. *)
LEMMA QuietClient ==
    ASSUME OrderInv, ~Concurrent, NEW c \in Client, QuietOf(c), NEW e \in Client, ClientStep(e) \/ Kill(e)
    PROVE  QuietOf(c)'
<1>0. /\ AskOf(c) /\ inbox \in Seq(Requests) /\ cpc \in [Client -> ClientPcs] /\ OneLive
      /\ reply = [d \in Client |-> reply[d]]
      /\ PollOnce(c) /\ PollAlone(c) /\ StaleQuiet(c)
  BY DEF OrderInv, AskInv, AskOf, SIInv, RequestsOK, WaitTypes, QuietOf
<1>1. /\ UNCHANGED <<npc, req, wpc, early>>
      /\ \A d \in Client : Polling(d)' <=> Polling(d)
      /\ (c # e => cpc'[c] = cpc[c] /\ reply'[c] = reply[c])
  BY ClientMoves DEF OrderInv
<1>2. StaleQuiet(c)'
  BY <1>0, <1>1 DEF StaleQuiet, WorkerStale
<1>3. CASE c # e /\ (exec_cmd_wait_start(e) \/ exec_cmd_wait_poll(e))
  <2>1. ~Live(c)
    <3>1. CASE exec_cmd_wait_start(e)
      BY <3>1 DEF exec_cmd_wait_start
    <3>2. CASE exec_cmd_wait_poll(e)
      <4>1. Live(e)
        BY <3>2 DEF exec_cmd_wait_poll, Live
      <4> QED BY <1>0, <1>3, <4>1 DEF OneLive
    <3> QED BY <1>3, <3>1, <3>2
  <2>2. ~Live(c)' /\ cpc'[c] # "poll"
    BY <1>1, <1>3, <2>1 DEF Live
  <2> QED BY <1>2, <2>2 DEF QuietOf, PollOnce, PollAlone
<1>4. CASE c = e /\ exec_cmd_wait_start(e)
  <2>1. inbox' = Append(inbox, Ask(c)) /\ cpc[c] = "idle" /\ cpc'[c] = "asked"
    BY <1>0, <1>4 DEF exec_cmd_wait_start, Send, Ask
  <2>2. \A r : Queued(r)' <=> Queued(r) \/ r = Ask(c)
    BY <1>0, <2>1, RequestFacts, QueueAppend
  <2>3. wpc[c] = "none" /\ ~Queued(Poll(c)) /\ ~Polling(c)
    BY <1>0, <2>1 DEF AskOf, BeforeAsk, PollPending
  <2>4. ~Queued(Poll(c))' /\ ~Polling(c)'
    BY <1>1, <2>2, <2>3, RequestFacts
  <2>5. PollOnce(c)'
    BY <2>1, <2>4 DEF PollOnce, Queued
  <2> QED BY <1>1, <1>2, <2>3, <2>5 DEF QuietOf, PollAlone
<1>5. CASE c = e /\ exec_cmd_wait_poll(e)
  <2>1. /\ inbox' = Append(inbox, Poll(c)) /\ cpc[c] = "poll" /\ cpc'[c] = "polled" /\ Live(c)
        /\ reply' = reply
    BY <1>0, <1>5 DEF exec_cmd_wait_poll, Send, Poll, Live
  <2>2. /\ \A r : Queued(r)' <=> Queued(r) \/ r = Poll(c)
        /\ Len(inbox) \in Nat /\ Len(inbox') = Len(inbox) + 1 /\ inbox'[Len(inbox) + 1] = Poll(c)
        /\ \A i \in 1 .. Len(inbox) : inbox'[i] = inbox[i]
    BY <1>0, <2>1, RequestFacts, QueueAppend
  <2>3. ~Queued(Poll(c)) /\ ~Polling(c) /\ reply[c] = NoReply
    BY <1>0, <2>1 DEF PollOnce
  <2>4. \A i \in 1 .. Len(inbox') : inbox'[i] = Poll(c) => i = Len(inbox')
    BY <2>2, <2>3 DEF Queued
  <2>5. PollOnce(c)'
    <3>1. (\A i, j \in 1 .. Len(inbox) : inbox[i] = Poll(c) /\ inbox[j] = Poll(c) /\ Live(c) => i = j)'
      BY <2>4 DEF Poll
    <3> QED BY <1>1, <2>1, <2>3, <3>1 DEF PollOnce
  <2>6. PollAlone(c)'
    <3>1. \A d \in Client : d # c => Poll(d) # Poll(c)
      BY RequestFacts
    <3>2. \A d \in Client : d # c => (Queued(Poll(d))' <=> Queued(Poll(d)))
      BY <2>2, <3>1
    <3> QED BY <1>0, <1>1, <2>1, <3>2 DEF PollAlone
  <2> QED BY <1>2, <2>5, <2>6 DEF QuietOf
<1>6. CASE exec_cmd_wait_accept(e) \/ exec_cmd_wait_print(e) \/ Kill(e)
  <2>1. inbox' = inbox /\ Live(e)
    BY <1>6 DEF exec_cmd_wait_accept, exec_cmd_wait_print, Kill, Live
  <2>2. (\A r : Queued(r)' <=> Queued(r)) /\ (Live(c)' => Live(c))
    BY <1>1, <2>1 DEF Queued, Live
  <2>3. PollAlone(c)'
    BY <1>0, <1>1, <2>2 DEF PollAlone
  <2>4. (\A i, j \in 1 .. Len(inbox) : inbox[i] = Poll(c) /\ inbox[j] = Poll(c) /\ Live(c) => i = j)'
    BY <1>0, <2>1, <2>2 DEF PollOnce, Poll
  <2>5. CASE c # e
    BY <1>0, <1>1, <1>2, <2>2, <2>3, <2>4, <2>5 DEF QuietOf, PollOnce
  <2>6. CASE c = e
    <3>1. reply'[c] = NoReply
      BY <1>0, <1>6, <2>6 DEF exec_cmd_wait_accept, exec_cmd_wait_print, Kill
    <3>2. Live(c)' => ~Queued(Poll(c)) /\ ~Polling(c)
      <4>1. CASE exec_cmd_wait_accept(e)
        BY <1>0, <2>6, <4>1 DEF exec_cmd_wait_accept, AskOf, PollPending
      <4>2. CASE exec_cmd_wait_print(e)
        BY <1>0, <2>1, <2>6, <4>2 DEF exec_cmd_wait_print, PollOnce
      <4>3. CASE Kill(e)
        BY <1>0, <2>6, <4>3 DEF Kill, Live
      <4> QED BY <1>6, <4>1, <4>2, <4>3
    <3>3. PollOnce(c)'
      BY <1>0, <1>1, <2>2, <2>4, <3>1, <3>2 DEF PollOnce
    <3> QED BY <1>2, <2>3, <3>3 DEF QuietOf
  <2> QED BY <2>5, <2>6
<1> QED BY <1>3, <1>4, <1>5, <1>6 DEF ClientStep

(* The polls of client c: every step. *)
LEMMA QuietStep ==
    ASSUME OrderInv, ~Concurrent, NEW c \in Client, QuietOf(c), [Next]_vars
    PROVE  QuietOf(c)'
<1>0. PollOnce(c) /\ PollAlone(c) /\ StaleQuiet(c) /\ wpc \in [Client -> Pcs]
  BY DEF QuietOf, OrderInv, SIInv, RequestsOK
<1>1. CASE \/ Tick \/ UNCHANGED vars \/ \E e \in Client : WorkerStep(e)
  <2>1. UNCHANGED <<npc, req, cpc, reply, inbox, early>>
    <3>1. ASSUME NEW e \in Client, WorkerStep(e) PROVE UNCHANGED <<npc, req, cpc, reply, inbox, early>>
      BY <3>1, WorkerMoves DEF OrderInv
    <3> QED BY <1>1, <3>1 DEF Tick, vars, netVars, clientVars
  <2>2. (wpc'[c] # "none" => wpc[c] # "none") /\ (WorkerStale(c)' => WorkerStale(c))
    <3>1. CASE Tick \/ UNCHANGED vars
      BY <3>1 DEF Tick, vars, workerVars, WorkerStale
    <3>2. ASSUME NEW e \in Client, WorkerStep(e)
          PROVE  (wpc'[c] # "none" => wpc[c] # "none") /\ (WorkerStale(c)' => WorkerStale(c))
      <4>1. CASE e # c
        BY <3>2, <4>1, WorkerMoves DEF OrderInv, WorkerStale
      <4>2. CASE e = c
        <5>1. wpc[c] # "none"
          BY <3>2, <4>2, WorkerMoves DEF OrderInv, WorkerActive
        <5>2. WorkerStale(c)' => WorkerStale(c)
          BY <1>0, <3>2, <4>2 DEF WorkerStep, worker_reset_used, worker_reset_finish, worker_copy,
             worker_popen, worker_fgets, worker_timeout, worker_append, worker_pclose,
             worker_finish, worker_exit_handle, Goto, WorkerStale
        <5> QED BY <5>1, <5>2
      <4> QED BY <4>1, <4>2
    <3> QED BY <1>1, <3>1, <3>2
  <2>3. /\ (\A r : Queued(r)' <=> Queued(r)) /\ (\A d \in Client : Polling(d)' <=> Polling(d))
        /\ (Live(c)' <=> Live(c))
    BY <2>1 DEF Queued, Polling, Live
  <2>4. (\A i, j \in 1 .. Len(inbox) : inbox[i] = Poll(c) /\ inbox[j] = Poll(c) /\ Live(c) => i = j)'
    BY <1>0, <2>1, <2>3 DEF PollOnce, Poll
  <2>5. PollOnce(c)'
    BY <1>0, <2>1, <2>3, <2>4 DEF PollOnce
  <2>6. PollAlone(c)'
    BY <1>0, <2>2, <2>3 DEF PollAlone
  <2>7. StaleQuiet(c)'
    BY <1>0, <2>1, <2>2 DEF StaleQuiet
  <2> QED BY <2>5, <2>6, <2>7 DEF QuietOf
<1>2. CASE NetStep
  BY <1>2, QuietNet
<1>3. CASE \E e \in Client : ClientStep(e) \/ Kill(e)
  BY <1>3, QuietClient
<1> QED BY <1>1, <1>2, <1>3 DEF Next

(* A worker that has not started its command. *)
FreshPcs == {"none", "reset_used", "reset_finish", "copy"}

(* A step that leaves what client c got, and of a client that runs the       *)
(* buffer too.                                                               *)
LEMMA DataKept ==
    ASSUME NEW c \in Client, DataOf(c), early \subseteq early', Got(c)' = Got(c),
           thread_cmd'[c] = thread_cmd[c],
           wpc'[c] \in FreshPcs => wpc[c] \in FreshPcs,
           cpc'[c] = "asked" => reply'[c].data = << >>,
           Running(c)' => /\ Running(c) /\ nlines'[c] = nlines[c]
                          /\ UNCHANGED <<used_size, cp_offset, runcmd_buf>>
                          /\ (wpc'[c] \in {"reset_used", "nothread"} <=> wpc[c] \in {"reset_used", "nothread"})
    PROVE  DataOf(c)'
<1>1. OutputOf(c)' = OutputOf(c)
  BY DEF OutputOf
<1>2. Fresh(c)'
  BY DEF DataOf, Fresh, FreshPcs
<1>3. GotPrefix(c)'
  BY <1>1 DEF DataOf, GotPrefix
<1>4. Stream(c)'
  <2>1. SUFFICES ASSUME Running(c)', c \notin early'
                 PROVE  /\ (wpc'[c] \in {"reset_used", "nothread"} => cp_offset' = 0)
                        /\ (wpc'[c] \notin {"reset_used", "nothread"} =>
                              /\ nlines'[c] <= Len(OutputOf(c)')
                              /\ used_size' = End(OutputOf(c)', nlines'[c]) + nlines'[c]
                              /\ Filled(c)' /\ Cursor(c)')
    BY DEF Stream
  <2>2. /\ Running(c) /\ nlines'[c] = nlines[c] /\ UNCHANGED <<used_size, cp_offset, runcmd_buf>>
        /\ (wpc'[c] \in {"reset_used", "nothread"} <=> wpc[c] \in {"reset_used", "nothread"})
        /\ c \notin early
    BY <2>1
  <2>3. (Filled(c) => Filled(c)') /\ (Cursor(c) => Cursor(c)')
    BY <1>1, <2>2 DEF Filled, Cursor, CursorAt
  <2> QED BY <1>1, <2>2, <2>3 DEF DataOf, Stream
<1> QED BY <1>2, <1>3, <1>4 DEF DataOf

(* What a client got: what it printed, then what the answer holds. *)
LEMMA GotTypes ==
    ASSUME DataTypes, NEW c \in Client
    PROVE  /\ printed[c] \in Seq(Nat) /\ reply[c].data \in Seq(Nat) /\ Got(c) \in Seq(Nat)
           /\ NoReply.data = << >> /\ NoReply.state # 1
           /\ (reply[c].data = << >> => Got(c) = printed[c])
           /\ Len(Got(c)) = Len(printed[c]) + Len(reply[c].data)
           /\ SubSeq(Got(c), 1, Len(printed[c])) = printed[c]
           /\ Len(printed[c]) <= Len(Got(c)) /\ (Got(c) = << >> => printed[c] = << >>)
           /\ printed[c] \o << >> = printed[c]
<1>1. PICK p \in Seq(Nat), d \in Seq(Nat) : p = printed[c] /\ d = reply[c].data
  BY DEF DataTypes
<1>2. /\ p \o d \in Seq(Nat) /\ Len(p \o d) = Len(p) + Len(d)
      /\ \A i \in 1 .. Len(p) : (p \o d)[i] = p[i]
  BY JoinFacts
<1>3. d = << >> => p \o d = p
  OBVIOUS
<1>4. SubSeq(p \o d, 1, Len(p)) = p
  <2>1. PICK g \in Seq(Nat) : g = p \o d
    BY <1>2
  <2>2. Len(p) \in Nat /\ Len(d) \in Nat
    OBVIOUS
  <2>3. 1 \in Nat /\ Len(p) <= Len(g) /\ 1 <= Len(p) + 1
    BY <1>2, <2>1, <2>2
  <2>4. /\ SubSeq(g, 1, Len(p)) \in Seq(Nat) /\ Len(SubSeq(g, 1, Len(p))) = Len(p) - 1 + 1
        /\ \A i \in 1 .. Len(p) - 1 + 1 : SubSeq(g, 1, Len(p))[i] = g[1 + i - 1]
    BY <2>2, <2>3, SliceFacts
  <2>5. PICK a \in Seq(Nat) : /\ a = SubSeq(g, 1, Len(p)) /\ Len(a) = Len(p)
                              /\ \A i \in 1 .. Len(p) : a[i] = g[i]
    <3>1. PICK l \in Nat : l = Len(p) /\ l - 1 + 1 = l /\ \A i \in 1 .. l : 1 + i - 1 = i
      BY <2>2
    <3> QED BY <2>4, <3>1
  <2>6. \A i \in 1 .. Len(p) : a[i] = p[i]
    BY <1>2, <2>1, <2>5
  <2>7. a = p
    BY <2>5, <2>6, SeqEqual
  <2> QED BY <2>1, <2>5, <2>7
<1>5. NoReply.data = << >> /\ NoReply.state # 1
  BY DEF NoReply
<1>6. Len(p) <= Len(p \o d) /\ (Len(p \o d) = 0 => Len(p) = 0)
  <2>1. PICK x \in Nat, y \in Nat : x = Len(p) /\ y = Len(d)
    OBVIOUS
  <2> QED BY <1>2, <2>1
<1>7. p \o d = << >> => p = << >>
  BY <1>2, <1>6, EmptySeq
<1>8. p \o << >> = p
  OBVIOUS
<1> QED BY <1>1, <1>2, <1>3, <1>4, <1>5, <1>6, <1>7, <1>8 DEF Got

(* The output of a command is a sequence of bytes. *)
LEMMA OutputBytes ==
    ASSUME NEW c \in Client
    PROVE  Text(OutputOf(c)) \in Seq(Nat)
<1>1. PICK O \in Seq(Seq(Nat \ {0})) : O = OutputOf(c)
  BY LinesType DEF OutputOf
<1>2. Text(O) \in Seq(Nat \ {0})
  BY EndFacts
<1>3. Text(O) \in Seq(Nat)
  BY <1>2
<1> QED BY <1>1, <1>3

(* The beginning of a prefix is a prefix. *)
LEMMA PrefixTrans ==
    ASSUME NEW s \in Seq(Nat), NEW t \in Seq(Nat), NEW u \in Seq(Nat),
           Len(s) <= Len(t), SubSeq(t, 1, Len(s)) = s, IsPrefixOf(t, u)
    PROVE  IsPrefixOf(s, u)
<1>1. Len(t) <= Len(u) /\ SubSeq(u, 1, Len(t)) = t
  BY DEF IsPrefixOf
<1>2. Len(s) \in Nat /\ Len(t) \in Nat /\ Len(u) \in Nat
  OBVIOUS
<1>3. SubSeq(SubSeq(u, 1, Len(t)), 1, Len(s)) = SubSeq(u, 1, Len(s))
  BY <1>1, <1>2, PrefixOfPrefix
<1> QED BY <1>1, <1>2, <1>3 DEF IsPrefixOf

(* A prefix of a given length. *)
LEMMA PrefixOfLength ==
    ASSUME NEW u \in Seq(Nat), NEW g \in Nat, g <= Len(u)
    PROVE  IsPrefixOf(SubSeq(u, 1, g), u) /\ (g = 0 => SubSeq(u, 1, g) = << >>)
<1>1. 1 \in Nat /\ 1 <= g + 1
  OBVIOUS
<1>2. SubSeq(u, 1, g) \in Seq(Nat) /\ Len(SubSeq(u, 1, g)) = g - 1 + 1
  BY <1>1, SliceFacts
<1>3. Len(SubSeq(u, 1, g)) = g
  BY <1>2
<1>4. g = 0 => SubSeq(u, 1, g) = << >>
  BY <1>2, <1>3, EmptySeq
<1> QED BY <1>3, <1>4 DEF IsPrefixOf

(* A command that has printed nothing yet: the buffer and the cursor. *)
LEMMA StreamStart ==
    ASSUME NEW c \in Client, nlines'[c] = 0, used_size' = 0, cp_offset' = 0, Got(c)' = << >>
    PROVE  /\ nlines'[c] <= Len(OutputOf(c)')
           /\ used_size' = End(OutputOf(c)', nlines'[c]) + nlines'[c]
           /\ Filled(c)' /\ Cursor(c)'
<1>1. PICK O \in Seq(Seq(Nat \ {0})) : O = OutputOf(c)'
  BY LinesType DEF OutputOf
<1>2. /\ Len(O) \in Nat /\ End(O, 0) = 0 /\ Text(O) \in Seq(Nat \ {0}) /\ Len(Text(O)) \in Nat
      /\ Text(O) \in Seq(Nat)
  BY <1>1, EndFacts
<1>3. nlines'[c] <= Len(O) /\ used_size' = End(O, nlines'[c]) + nlines'[c]
  BY <1>2
<1>4. Filled(c)'
  BY DEF Filled
<1>5. Cursor(c)'
  <2>1. 0 \in 0 .. nlines'[c] /\ 0 \in 0 .. Len(Text(O))
    BY <1>2
  <2>2. SubSeq(Text(O), 1, 0) = << >>
    BY <1>2, PrefixOfLength
  <2>3. CursorAt(c, 0, 0)'
    BY <1>1, <1>2, <2>2 DEF CursorAt
  <2> QED BY <1>1, <2>1, <2>3 DEF Cursor
<1> QED BY <1>1, <1>3, <1>4, <1>5

(* What the steps need of client c. *)
OutTypes == DataTypes /\ WordsInv /\ OrderInv

(* The handler of RUN_CMD_WAIT gives client c a worker, or refuses it. *)
LEMMA DataAccept ==
    ASSUME OutTypes, ~Concurrent, NEW c \in Client, DataOf(c), udb_debug_runcmd_wait
    PROVE  DataOf(c)'
<1>0. /\ WaitTypes /\ wpc \in [Client -> Pcs] /\ npc = "RUN_CMD_WAIT" /\ req.from \in Client
      /\ AskOf(c) /\ AskOf(req.from) /\ Asking(req.from) /\ Alone
      /\ reply \in [Client -> [state : Int, data : Seq(Nat)]]
  BY DEF OutTypes, OrderInv, SIInv, RequestsOK, WaitTypes, AskInv, AskOf, udb_debug_runcmd_wait,
         Asking, DataTypes
<1>1. UNCHANGED <<used_size, runcmd_buf, thread_cmd, nlines, cpc, printed, early>>
  BY DEF udb_debug_runcmd_wait
<1>2. PICK s \in {0, 1} : reply' = reply \/ Answer(req.from, s, << >>)
  BY AcceptFacts
<1>3. wpc' = wpc \/ \E pc \in {"reset_used", "nothread"} : wpc' = [wpc EXCEPT ![req.from] = pc]
  BY AcceptFacts
<1>4. CASE c # req.from
  <2>1. wpc'[c] = wpc[c] /\ reply'[c] = reply[c] /\ Got(c)' = Got(c)
    <3>1. wpc'[c] = wpc[c]
      BY <1>0, <1>3, <1>4
    <3>2. reply'[c] = reply[c]
      BY <1>0, <1>2, <1>4, AnswerFacts
    <3> QED BY <1>1, <3>1, <3>2 DEF Got
  <2>2. ~Running(c)'
    BY <1>0, <1>1, <1>4, <2>1 DEF Running, Live, Alone
  <2>3. cpc'[c] = "asked" => reply'[c].data = << >>
    BY <1>1, <2>1 DEF DataOf, Fresh
  <2> QED BY <1>1, <2>1, <2>2, <2>3, DataKept
<1>5. CASE c = req.from
  <2>1. wpc[c] = "none" /\ reply[c] = NoReply
    BY <1>0, <1>5 DEF AskOf, AskPending
  <2>2. reply'[c].data = << >>
    <3>1. CASE Live(c)
      <4>1. reply' = reply \/ reply' = [reply EXCEPT ![c] = [state |-> s, data |-> << >>]]
        BY <1>2, <1>5, <3>1 DEF Answer
      <4>2. reply'[c] = reply[c] \/ reply'[c] = [state |-> s, data |-> << >>]
        BY <1>0, <4>1
      <4>3. reply[c].data = << >>
        BY <2>1, GotTypes DEF OutTypes
      <4> QED BY <4>2, <4>3
    <3>2. CASE ~Live(c)
      <4>1. reply' = reply
        BY <1>2, <1>5, <3>2 DEF Answer
      <4> QED BY <2>1, <4>1, GotTypes DEF OutTypes
    <3> QED BY <3>1, <3>2
  <2>3. reply[c].data = << >>
    BY <2>1, GotTypes DEF OutTypes
  <2>4. Got(c)' = Got(c)
    <3>1. Got(c)' = printed[c] \o reply'[c].data /\ Got(c) = printed[c] \o reply[c].data
      BY <1>1 DEF Got
    <3> QED BY <2>2, <2>3, <3>1
  <2>5. CASE single_instance = 1
    <3>1. wpc' = wpc
      BY <2>5 DEF udb_debug_runcmd_wait
    <3>2. ~Running(c)' /\ wpc'[c] = wpc[c]
      BY <2>1, <3>1 DEF Running
    <3> QED BY <1>1, <2>2, <2>4, <3>2, DataKept
  <2>6. CASE single_instance # 1
    <3>1. wpc'[c] \in {"reset_used", "nothread"} /\ cp_offset' = 0
      BY <1>0, <1>5, <2>6, AcceptFacts
    <3>2. Fresh(c)'
      BY <1>1, <2>1, <2>2, <2>4 DEF DataOf, Fresh
    <3>3. Stream(c)'
      BY <3>1 DEF Stream
    <3>4. GotPrefix(c)'
      BY <1>1, <2>4 DEF DataOf, GotPrefix, OutputOf
    <3> QED BY <3>2, <3>3, <3>4 DEF DataOf
  <2> QED BY <2>5, <2>6
<1> QED BY <1>4, <1>5

(* The net thread copies the answer to a poll. *)
LEMMA DataCopy ==
    ASSUME OutTypes, NEW c \in Client, DataOf(c), QuietOf(c), wait_pullout_copy
    PROVE  DataOf(c)'
<1>0. /\ WaitTypes /\ npc = "pullout_copy" /\ req.from \in Client /\ Polling(req.from)
      /\ AskOf(c) /\ PollOnce(c) /\ PollAlone(c) /\ StaleQuiet(c)
      /\ reply \in [Client -> [state : Int, data : Seq(Nat)]] /\ nlines \in [Client -> Nat]
  BY DEF OutTypes, OrderInv, WaitTypes, AskInv, AskOf, wait_pullout_copy, Polling, DataTypes, QuietOf
<1>1. UNCHANGED <<wpc, thread_cmd, nlines, cpc, printed, early>>
  BY DEF wait_pullout_copy, workerVars
<1>2. Answer(req.from, pull_finish, CString(cp_offset, PulloutSize))
  BY DEF wait_pullout_copy
<1>3. CASE c # req.from
  <2>1. reply'[c] = reply[c] /\ Got(c)' = Got(c)
    <3>1. reply'[c] = reply[c]
      BY <1>0, <1>2, <1>3, AnswerFacts
    <3> QED BY <1>1, <3>1 DEF Got
  <2>2. ~Running(c)'
    BY <1>0, <1>1, <1>3, <2>1 DEF Running, Live, PollAlone
  <2>3. cpc'[c] = "asked" => reply'[c].data = << >>
    BY <1>1, <2>1 DEF DataOf, Fresh
  <2>4. wpc'[c] = wpc[c] /\ thread_cmd'[c] = thread_cmd[c] /\ early \subseteq early'
    BY <1>1
  <2> QED BY <2>1, <2>2, <2>3, <2>4, DataKept
<1>4. CASE c = req.from /\ ~Live(c)
  <2>1. reply'[c] = reply[c] /\ Got(c)' = Got(c)
    <3>1. reply'[c] = reply[c]
      BY <1>2, <1>4 DEF Answer
    <3> QED BY <1>1, <3>1 DEF Got
  <2>2. ~Running(c)'
    BY <1>1, <1>4 DEF Running, Live
  <2>3. cpc'[c] = "asked" => reply'[c].data = << >>
    BY <1>1, <2>1 DEF DataOf, Fresh
  <2>4. wpc'[c] = wpc[c] /\ thread_cmd'[c] = thread_cmd[c] /\ early \subseteq early'
    BY <1>1
  <2> QED BY <2>1, <2>2, <2>3, <2>4, DataKept
<1>5. CASE c = req.from /\ Live(c)
  <2>1. cpc[c] = "polled" /\ reply[c] = NoReply /\ wpc[c] # "none"
    BY <1>0, <1>5 DEF PollOnce, AskOf, PollPending
  <2>2. SUFFICES ASSUME c \notin early PROVE DataOf(c)'
    BY <1>1, <2>1 DEF DataOf, Fresh, Stream, GotPrefix
  <2>3. Running(c)
    BY <1>5, <2>1, GotTypes DEF Running, OutTypes
  <2>4. wpc[c] \notin {"reset_used", "reset_finish", "nothread"}
    BY <1>0, <1>5, <2>2 DEF StaleQuiet, WorkerStale
  <2>5. /\ nlines[c] <= Len(OutputOf(c)) /\ nlines[c] \in Nat
        /\ used_size = End(OutputOf(c), nlines[c]) + nlines[c]
        /\ Filled(c) /\ Cursor(c)
    BY <1>0, <2>2, <2>3, <2>4 DEF DataOf, Stream
  <2>6. PICK j \in 0 .. nlines[c] : \E g \in 0 .. Len(Text(OutputOf(c))) : CursorAt(c, j, g)
    BY <2>5 DEF Cursor
  <2>7. PICK g \in 0 .. Len(Text(OutputOf(c))) : CursorAt(c, j, g)
    BY <2>6
  <2>o. PICK O \in Seq(Seq(Nat \ {0})) : O = OutputOf(c)
    BY LinesType DEF OutputOf
  <2>t. Text(O) \in Seq(Nat) /\ Len(Text(O)) \in Nat
    <3>1. Text(O) \in Seq(Nat \ {0})
      BY EndFacts
    <3> QED BY <3>1
  <2>8. g \in Nat
    BY <2>7, <2>o, <2>t
  <2> DEFINE d == CString(cp_offset, PulloutSize)
  <2>9. PICK j2 \in 0 .. nlines[c] : \E g2 \in 0 .. Len(Text(OutputOf(c))) :
              /\ End(OutputOf(c), j2) <= g2
              /\ (j2 < nlines[c] => g2 <= End(OutputOf(c), j2 + 1))
              /\ (j2 = nlines[c] => g2 = End(OutputOf(c), j2))
              /\ (cp_offset + PulloutSize) % U32 = g2 + j2
              /\ SubSeq(Text(OutputOf(c)), 1, g) \o d = SubSeq(Text(OutputOf(c)), 1, g2)
    BY <2>5, <2>7, <2>8, CopyAdvance DEF OutTypes
  <2>10. PICK g2 \in 0 .. Len(Text(O)) :
              /\ End(O, j2) <= g2
              /\ (j2 < nlines[c] => g2 <= End(O, j2 + 1))
              /\ (j2 = nlines[c] => g2 = End(O, j2))
              /\ (cp_offset + PulloutSize) % U32 = g2 + j2
              /\ SubSeq(Text(O), 1, g) \o d = SubSeq(Text(O), 1, g2)
    BY <2>9, <2>o
  <2>11. reply'[c] = [state |-> pull_finish, data |-> d]
    <3>1. reply' = [reply EXCEPT ![c] = [state |-> pull_finish, data |-> d]]
      BY <1>2, <1>5 DEF Answer
    <3> QED BY <1>0, <3>1
  <2>12. reply'[c].state = pull_finish /\ reply'[c].data = d
    BY <2>11
  <2> HIDE DEF d
  <2>13. Got(c)' = SubSeq(Text(O), 1, g2)
    <3>1. printed[c] = SubSeq(Text(O), 1, g)
      <4>1. Got(c) = printed[c]
        BY <2>1, GotTypes DEF OutTypes
      <4>2. Got(c) = SubSeq(Text(O), 1, g)
        BY <2>7, <2>o DEF CursorAt
      <4> QED BY <4>1, <4>2
    <3>2. Got(c)' = printed[c] \o d
      BY <1>1, <2>12 DEF Got
    <3> QED BY <2>10, <3>1, <3>2
  <2>14. OutputOf(c)' = O /\ g2 \in Nat /\ g2 <= Len(Text(O))
    BY <1>1, <2>o, <2>t DEF OutputOf
  <2>15. IsPrefixOf(SubSeq(Text(O), 1, g2), Text(O)) /\ (g2 = 0 => SubSeq(Text(O), 1, g2) = << >>)
    BY <2>t, <2>14, PrefixOfLength
  <2>16. GotPrefix(c)'
    BY <2>13, <2>14, <2>15 DEF GotPrefix
  <2>17. Fresh(c)'
    <3>1. ASSUME wpc[c] = "copy" PROVE Got(c)' = << >>
      <4>1. nlines[c] = 0
        BY <3>1 DEF OutTypes, OrderInv, LinesInv
      <4>2. j2 = 0
        BY <4>1
      <4>3. g2 = 0
        BY <2>10, <4>1, <4>2, EndFacts
      <4> QED BY <2>13, <2>15, <4>3
    <3> QED BY <1>1, <2>1, <2>4, <3>1 DEF Fresh
  <2>18. Stream(c)'
    <3>1. SUFFICES ASSUME Running(c)'
                   PROVE  /\ used_size' = End(O, nlines[c]) + nlines[c]
                          /\ Filled(c)' /\ Cursor(c)'
      BY <1>1, <2>4, <2>5, <2>14, <2>o DEF Stream
    <3>2. pull_finish # 1
      BY <1>1, <2>1, <2>12, <3>1 DEF Running
    <3>3. UNCHANGED <<used_size, runcmd_buf>> /\ cp_offset' = g2 + j2
      BY <2>10, <3>2 DEF wait_pullout_copy
    <3>4. Filled(c)'
      BY <1>1, <2>5, <2>14, <2>o, <3>3 DEF Filled
    <3>5. CursorAt(c, j2, g2)'
      BY <1>1, <2>10, <2>13, <2>14, <3>3 DEF CursorAt
    <3>6. Cursor(c)'
      BY <1>1, <2>14, <3>5 DEF Cursor
    <3> QED BY <2>5, <2>o, <3>3, <3>4, <3>6
  <2> QED BY <2>16, <2>17, <2>18 DEF DataOf
<1> QED BY <1>3, <1>4, <1>5

(* A client prints an answer, asks, polls or is killed. *)
LEMMA DataClient ==
    ASSUME OutTypes, NEW c \in Client, DataOf(c), NEW e \in Client, ClientStep(e) \/ Kill(e)
    PROVE  DataOf(c)'
<1>0. /\ AskOf(c) /\ cpc \in [Client -> ClientPcs] /\ printed \in [Client -> Seq(Nat)]
      /\ reply \in [Client -> [state : Int, data : Seq(Nat)]]
  BY DEF OutTypes, OrderInv, WaitTypes, AskInv, AskOf, DataTypes
<1>1. /\ UNCHANGED <<wpc, nlines, thread_cmd, early>>
      /\ (c # e => cpc'[c] = cpc[c] /\ reply'[c] = reply[c])
  BY ClientMoves DEF OutTypes, OrderInv
<1>2. UNCHANGED <<used_size, cp_offset, runcmd_buf>>
  BY DEF ClientStep, Kill, exec_cmd_wait_start, exec_cmd_wait_accept, exec_cmd_wait_poll,
         exec_cmd_wait_print, ctrlVars
<1>3. /\ printed[c] \in Seq(Nat) /\ reply[c].data \in Seq(Nat) /\ Got(c) \in Seq(Nat)
      /\ NoReply.data = << >> /\ NoReply.state # 1
      /\ (reply[c].data = << >> => Got(c) = printed[c])
      /\ Len(Got(c)) = Len(printed[c]) + Len(reply[c].data)
      /\ SubSeq(Got(c), 1, Len(printed[c])) = printed[c]
      /\ Len(printed[c]) <= Len(Got(c)) /\ (Got(c) = << >> => printed[c] = << >>)
      /\ printed[c] \o << >> = printed[c]
  BY GotTypes DEF OutTypes
<1>4. CASE c # e
  <2>1. printed' = printed \/ printed' = [printed EXCEPT ![e] = @ \o reply[e].data]
    BY DEF ClientStep, Kill, exec_cmd_wait_start, exec_cmd_wait_accept, exec_cmd_wait_poll,
           exec_cmd_wait_print
  <2>2. printed'[c] = printed[c]
    BY <1>0, <1>4, <2>1
  <2>3. Got(c)' = Got(c) /\ (Running(c)' => Running(c))
    BY <1>1, <1>4, <2>2 DEF Got, Running, Live
  <2>4. cpc'[c] = "asked" => reply'[c].data = << >>
    BY <1>1, <1>4 DEF DataOf, Fresh
  <2> QED BY <1>1, <1>2, <2>3, <2>4, DataKept
<1>5. CASE c = e /\ (exec_cmd_wait_start(e) \/ exec_cmd_wait_poll(e))
  <2>1. /\ UNCHANGED <<printed, reply>>
        /\ (cpc[c] = "idle" /\ cpc'[c] = "asked") \/ (cpc[c] = "poll" /\ cpc'[c] = "polled")
    BY <1>0, <1>5 DEF exec_cmd_wait_start, exec_cmd_wait_poll
  <2>2. Got(c)' = Got(c)
    BY <2>1 DEF Got
  <2>3. cpc[c] = "idle" => reply[c].data = << >> /\ wpc[c] = "none"
    BY <1>0, <1>3 DEF AskOf, BeforeAsk
  <2>4. Running(c)' => Running(c)
    BY <1>1, <2>1, <2>3 DEF Running, Live
  <2>5. cpc'[c] = "asked" => reply'[c].data = << >>
    BY <2>1, <2>3
  <2> QED BY <1>1, <1>2, <2>2, <2>4, <2>5, DataKept
<1>6. CASE c = e /\ exec_cmd_wait_accept(e)
  <2>1. /\ printed' = printed /\ reply'[c] = NoReply /\ cpc[c] = "asked"
        /\ cpc'[c] \in {"poll", "rejected"}
    BY <1>0, <1>6 DEF exec_cmd_wait_accept
  <2>2. reply[c].data = << >>
    BY <2>1 DEF DataOf, Fresh
  <2>3. Got(c)' = Got(c)
    BY <1>3, <2>1, <2>2 DEF Got
  <2>4. Running(c)' => Running(c)
    BY <1>1, <2>1 DEF Running, Live
  <2>5. cpc'[c] # "asked"
    BY <2>1
  <2> QED BY <1>1, <1>2, <2>3, <2>4, <2>5, DataKept
<1>7. CASE c = e /\ exec_cmd_wait_print(e)
  <2>1. /\ printed'[c] = printed[c] \o reply[c].data /\ reply'[c] = NoReply /\ cpc[c] = "polled"
        /\ cpc'[c] = IF reply[c].state = 1 THEN "done" ELSE "poll"
    BY <1>0, <1>7 DEF exec_cmd_wait_print
  <2>2. Got(c)' = Got(c)
    <3>1. Got(c)' = Got(c) \o << >>
      BY <1>3, <2>1 DEF Got
    <3> QED BY <1>3, <3>1
  <2>3. Running(c)' => Running(c)
    BY <1>1, <2>1 DEF Running, Live
  <2>4. cpc'[c] # "asked"
    BY <2>1
  <2> QED BY <1>1, <1>2, <2>2, <2>3, <2>4, DataKept
<1>8. CASE c = e /\ Kill(e)
  <2>1. printed' = printed /\ reply'[c] = NoReply /\ cpc'[c] = "killed"
    BY <1>0, <1>8 DEF Kill
  <2>2. Got(c)' = printed[c]
    <3>1. reply'[c].data = << >> /\ printed'[c] = printed[c]
      BY <1>3, <2>1
    <3>2. Got(c)' = printed[c] \o << >>
      BY <3>1 DEF Got
    <3> QED BY <1>3, <3>2
  <2>3. ~Running(c)'
    BY <2>1 DEF Running, Live
  <2>4. Fresh(c)'
    <3>1. wpc'[c] = wpc[c] /\ (c \notin early' => c \notin early) /\ cpc'[c] # "asked"
      BY <1>1, <2>1
    <3>2. Got(c) = << >> => Got(c)' = << >>
      BY <1>3, <2>2
    <3> QED BY <3>1, <3>2 DEF DataOf, Fresh
  <2>5. GotPrefix(c)'
    <3>1. SUFFICES ASSUME c \notin early PROVE IsPrefixOf(printed[c], Text(OutputOf(c)))
      BY <1>1, <2>2 DEF GotPrefix, OutputOf
    <3>2. IsPrefixOf(Got(c), Text(OutputOf(c)))
      BY <3>1 DEF DataOf, GotPrefix
    <3>3. Text(OutputOf(c)) \in Seq(Nat)
      BY OutputBytes
    <3> QED BY <1>3, <3>2, <3>3, PrefixTrans
  <2> QED BY <2>3, <2>4, <2>5 DEF DataOf, Stream
<1> QED BY <1>4, <1>5, <1>6, <1>7, <1>8 DEF ClientStep

(* The worker appends a line: the bytes before it stay, it is line           *)
(* nlines[c] + 1, and the cursor stands where it stood.                      *)
LEMMA StreamAppend ==
    ASSUME OutTypes, OutputFits, NEW c \in Client, worker_append(c),
           used_size = End(OutputOf(c), nlines[c]) + nlines[c], Filled(c), Cursor(c)
    PROVE  /\ nlines'[c] <= Len(OutputOf(c)')
           /\ used_size' = End(OutputOf(c)', nlines'[c]) + nlines'[c]
           /\ Filled(c)' /\ Cursor(c)'
<1>0. nlines \in [Client -> Nat] /\ BufSize \in Nat /\ wpc[c] = "check"
  BY WaitAssumption DEF OutTypes, OrderInv, WaitTypes, worker_append
<1>1. PICK O \in Seq(Seq(Nat \ {0})) : O = OutputOf(c)
  BY LinesType DEF OutputOf
<1>2. PICK k \in Nat : k = nlines[c] /\ k < Len(O) /\ Len(O) \in Nat
  BY <1>0, <1>1 DEF OutTypes, OrderInv, LinesInv, OutputOf
<1>3. k + 1 \in 1 .. Len(O) /\ k + 1 \in 0 .. Len(O) /\ k \in 0 .. Len(O) /\ (k + 1) - 1 = k
  BY <1>2
<1>4. PICK line \in Seq(Nat \ {0}) : line = O[k + 1]
  BY <1>3, ElementOfSeq
<1>5. PICK e \in Nat, f \in Nat, l \in Nat : e = End(O, k) /\ f = End(O, k + 1) /\ l = Len(line) /\ f = e + l
  <2>1. End(O, k) \in Nat /\ End(O, k + 1) \in Nat /\ End(O, k + 1) = End(O, (k + 1) - 1) + Len(O[k + 1])
    BY <1>3, EndFacts
  <2> QED BY <1>3, <1>4, <2>1
<1>6. f + (k + 1) <= BufSize
  BY <1>1, <1>3, <1>5, OutputInBuffer DEF OutputOf
<1>7. used_size = e + k
  BY <1>1, <1>2, <1>5
<1>8. /\ thread_cmd' = thread_cmd /\ nlines'[c] = k + 1 /\ used_size' = used_size + (l + 1)
      /\ UNCHANGED <<cp_offset, printed, reply>>
      /\ runcmd_buf' = [i \in 0 .. BufSize - 1 |->
                 IF i < used_size \/ i >= used_size + (l + 1) THEN runcmd_buf[i]
                 ELSE IF i = used_size + (l + 1) - 1 THEN 0
                 ELSE line[i - used_size + 1]]
  BY <1>0, <1>1, <1>2, <1>4, <1>5 DEF worker_append, OutputOf, clientVars
<1>9. /\ \A i \in 0 .. BufSize - 1 : i < e + k => runcmd_buf'[i] = runcmd_buf[i]
      /\ \A m \in 1 .. l : runcmd_buf'[e + k + m - 1] = line[m]
      /\ runcmd_buf'[e + k + l] = 0
  <2>1. \A i \in 0 .. BufSize - 1 : i < e + k => runcmd_buf'[i] = runcmd_buf[i]
    BY <1>7, <1>8
  <2>2. ASSUME NEW m \in 1 .. l PROVE runcmd_buf'[e + k + m - 1] = line[m]
    <3>1. PICK i \in 0 .. BufSize - 1 : i = e + k + m - 1
      <4>1. m \in Nat /\ 1 <= m /\ m <= l /\ (e + l) + (k + 1) <= BufSize
        BY <1>5, <1>6
      <4>2. e + k + m - 1 \in 0 .. BufSize - 1
        BY <1>0, <4>1
      <4> QED BY <4>2
    <3>2. /\ ~(i < e + k \/ i >= e + k + (l + 1)) /\ i # e + k + (l + 1) - 1
          /\ i - (e + k) + 1 = m
      BY <3>1
    <3>3. runcmd_buf'[i] = line[i - (e + k) + 1]
      BY <1>7, <1>8, <3>2
    <3> QED BY <3>1, <3>2, <3>3
  <2>3. runcmd_buf'[e + k + l] = 0
    <3>1. PICK i \in 0 .. BufSize - 1 : i = e + k + l
      <4>1. (e + l) + (k + 1) <= BufSize
        BY <1>5, <1>6
      <4>2. e + k + l \in 0 .. BufSize - 1
        BY <1>0, <4>1
      <4> QED BY <4>2
    <3>2. ~(i < e + k \/ i >= e + k + (l + 1)) /\ i = e + k + (l + 1) - 1
      BY <3>1
    <3>3. runcmd_buf'[i] = 0
      BY <1>7, <1>8, <3>2
    <3> QED BY <3>1, <3>3
  <2> QED BY <2>1, <2>2, <2>3
<1>10. OutputOf(c)' = O
  BY <1>1, <1>8 DEF OutputOf
<1>11. k + 1 <= Len(O) /\ used_size' = f + (k + 1)
  <2>1. used_size' = (e + k) + (l + 1)
    BY <1>7, <1>8, Zenon
  <2>2. (e + k) + (l + 1) = (e + l) + (k + 1)
    OBVIOUS
  <2> QED BY <1>2, <1>5, <2>1, <2>2
<1>14. nlines'[c] = k + 1
  BY <1>8
<1>12. Filled(c)'
  <2> DEFINE T == Text(O)
  <2>1. SUFFICES ASSUME NEW i \in 1 .. k + 1
                 PROVE  /\ \A p \in End(O, i - 1) + 1 .. End(O, i) : runcmd_buf'[p + i - 2] = T[p]
                        /\ runcmd_buf'[End(O, i) + i - 1] = 0
    BY <1>10, <1>14 DEF Filled
  <2>2. CASE i \in 1 .. k
    <3>1. /\ \A p \in End(O, i - 1) + 1 .. End(O, i) : runcmd_buf[p + i - 2] = T[p]
          /\ runcmd_buf[End(O, i) + i - 1] = 0
      BY <1>1, <1>2, <2>2 DEF Filled
    <3>2. i \in 0 .. k /\ i \in 0 .. Len(O) /\ i - 1 \in 0 .. Len(O)
      BY <1>2, <2>2
    <3>3. PICK x \in Nat, y \in Nat : x = End(O, i - 1) /\ y = End(O, i) /\ y <= e
      <4>1. End(O, i - 1) \in Nat /\ End(O, i) \in Nat
        BY <3>2, EndFacts
      <4>2. End(O, i) <= End(O, k)
        BY <1>3, <3>2, TextUptoPrefix
      <4> QED BY <1>5, <4>1, <4>2
    <3>6. i \in Nat /\ 1 <= i /\ i <= k /\ e + k < BufSize /\ BufSize \in Nat
      <4>1. e <= f
        BY <1>5
      <4> QED BY <1>0, <1>6, <2>2, <4>1
    <3>4. ASSUME NEW p \in x + 1 .. y PROVE runcmd_buf'[p + i - 2] = T[p]
      <4>1. p + i - 2 \in 0 .. BufSize - 1 /\ p + i - 2 < e + k
        <5>1. p \in Nat /\ 1 <= p /\ p <= e
          BY <3>3, <3>4
        <5> QED BY <3>6, <5>1
      <4> QED BY <1>9, <3>1, <3>3, <4>1
    <3>5. runcmd_buf'[y + i - 1] = 0
      <4>1. y + i - 1 \in 0 .. BufSize - 1 /\ y + i - 1 < e + k
        BY <3>3, <3>6
      <4> QED BY <1>9, <3>1, <3>3, <4>1
    <3> QED BY <3>3, <3>4, <3>5
  <2>3. CASE i = k + 1
    <3>1. \A m \in 1 .. l : T[e + m] = line[m]
      <4>1. \A m \in 1 .. Len(O[k + 1]) : Text(O)[End(O, (k + 1) - 1) + m] = O[k + 1][m]
        BY <1>3, TextFacts
      <4> QED BY <1>3, <1>4, <1>5, <4>1
    <3> HIDE DEF T
    <3>2. ASSUME NEW p \in e + 1 .. f PROVE runcmd_buf'[p + (k + 1) - 2] = T[p]
      <4>1. PICK m \in 1 .. l : p = e + m
        <5>0. p \in e + 1 .. e + l
          BY <1>5, <3>2, Zenon
        <5>1. p - e \in 1 .. l /\ p = e + (p - e)
          BY <5>0
        <5> QED BY <5>1
      <4>2. p + (k + 1) - 2 = e + k + m - 1
        BY <4>1
      <4> QED BY <1>9, <3>1, <4>1, <4>2
    <3>3. runcmd_buf'[f + (k + 1) - 1] = 0
      <4>1. f + (k + 1) - 1 = e + k + l
        BY <1>5
      <4> QED BY <1>9, <4>1
    <3>4. End(O, i - 1) = e /\ End(O, i) = f
      BY <1>3, <1>5, <2>3
    <3> QED BY <2>3, <3>2, <3>3, <3>4
  <2>4. i \in 1 .. k \/ i = k + 1
    BY <2>1
  <2> QED BY <2>2, <2>3, <2>4
<1>13. Cursor(c)'
  <2>1. PICK j \in 0 .. k : \E g \in 0 .. Len(Text(O)) : CursorAt(c, j, g)
    BY <1>1, <1>2 DEF Cursor
  <2>2. PICK g \in 0 .. Len(Text(O)) : CursorAt(c, j, g)
    BY <2>1
  <2>3. /\ End(O, j) <= g /\ (j < k => g <= End(O, j + 1)) /\ (j = k => g = End(O, j))
        /\ cp_offset = g + j /\ Got(c) = SubSeq(Text(O), 1, g)
    BY <1>1, <1>2, <2>2 DEF CursorAt
  <2>4. j = k => g <= End(O, j + 1)
    BY <1>5, <2>3
  <2>5. j \in 0 .. k + 1 /\ j # k + 1 /\ (j < k \/ j = k)
    BY <1>2
  <2>6. Got(c)' = Got(c)
    BY <1>8 DEF Got
  <2>7. CursorAt(c, j, g)'
    BY <1>8, <1>10, <2>3, <2>4, <2>5, <2>6 DEF CursorAt
  <2> QED BY <1>8, <1>10, <2>5, <2>7 DEF Cursor
<1> QED BY <1>5, <1>8, <1>10, <1>11, <1>12, <1>13

(* A step of a worker. *)
LEMMA DataWorker ==
    ASSUME OutTypes, OutputFits, ~Concurrent, NEW c \in Client, DataOf(c), NEW e \in Client, WorkerStep(e)
    PROVE  DataOf(c)'
<1>0. /\ UNCHANGED <<cpc, reply, early>> /\ WorkerActive(e) /\ Alone
      /\ wpc \in [Client -> Pcs] /\ nlines \in [Client -> Nat]
      /\ (c # e => wpc'[c] = wpc[c] /\ nlines'[c] = nlines[c] /\ thread_cmd'[c] = thread_cmd[c])
  BY WorkerMoves DEF OutTypes, OrderInv, SIInv, RequestsOK, WaitTypes
<1>1. UNCHANGED <<printed, cp_offset>>
  BY DEF WorkerStep, worker_reset_used, worker_reset_finish, worker_copy, worker_popen,
         worker_fgets, worker_timeout, worker_append, worker_pclose, worker_finish,
         worker_exit_handle, clientVars, ctrlVars
<1>2. Got(c)' = Got(c)
  BY <1>0, <1>1 DEF Got
<1>3. cpc'[c] = "asked" => reply'[c].data = << >>
  BY <1>0 DEF DataOf, Fresh
<1>4. CASE c # e
  <2>1. ~Running(c)'
    BY <1>0, <1>4 DEF Running, Live, Alone
  <2> QED BY <1>0, <1>2, <1>3, <1>4, <2>1, DataKept
<1>5. CASE c = e
  <2>1. WorkerActive(c) /\ (Running(c)' => Running(c))
    BY <1>0, <1>5 DEF Running, Live, WorkerActive
  <2>2. CASE worker_reset_used(c) \/ worker_copy(c)
    <3>1. /\ wpc[c] \in {"reset_used", "copy"} /\ nlines' = nlines
          /\ wpc'[c] \in {"reset_finish", "popen"}
          /\ (wpc[c] = "reset_used" => used_size' = 0 /\ thread_cmd' = thread_cmd)
          /\ (wpc[c] = "copy" => used_size' = used_size /\ wpc'[c] = "popen")
      BY <1>0, <2>2 DEF worker_reset_used, worker_copy, Goto, ctrlVars
    <3>2. nlines[c] = 0
      BY <3>1 DEF OutTypes, OrderInv, LinesInv
    <3>3. c \notin early => Got(c) = << >>
      BY <3>1 DEF DataOf, Fresh
    <3>4. Fresh(c)'
      BY <1>0, <1>2, <1>3, <3>3 DEF Fresh
    <3>5. GotPrefix(c)'
      <4>1. SUFFICES ASSUME c \notin early PROVE IsPrefixOf(<< >>, Text(OutputOf(c)'))
        BY <1>0, <1>2, <3>3 DEF GotPrefix
      <4>2. OutputOf(c)' \in Seq(Seq(Nat \ {0}))
        BY LinesType DEF OutputOf
      <4>3. PICK t \in Seq(Nat) : t = Text(OutputOf(c)')
        <5>1. Text(OutputOf(c)') \in Seq(Nat \ {0})
          BY <4>2, EndFacts
        <5> QED BY <5>1
      <4>4. 0 <= Len(t) /\ 0 \in Nat
        OBVIOUS
      <4>5. IsPrefixOf(SubSeq(t, 1, 0), t) /\ SubSeq(t, 1, 0) = << >>
        BY <4>4, PrefixOfLength
      <4> QED BY <4>3, <4>5
    <3>6. Stream(c)'
      <4>1. SUFFICES ASSUME Running(c)', c \notin early
                     PROVE  /\ nlines'[c] <= Len(OutputOf(c)')
                            /\ used_size' = End(OutputOf(c)', nlines'[c]) + nlines'[c]
                            /\ Filled(c)' /\ Cursor(c)'
        BY <1>0, <3>1 DEF Stream
      <4>2. cp_offset = 0 /\ used_size' = 0
        <5>1. CASE wpc[c] = "reset_used"
          BY <2>1, <3>1, <4>1, <5>1 DEF DataOf, Stream
        <5>2. CASE wpc[c] = "copy"
          <6>1. used_size = End(OutputOf(c), nlines[c]) + nlines[c] /\ Cursor(c)
            BY <2>1, <4>1, <5>2 DEF DataOf, Stream
          <6>2. PICK j \in 0 .. nlines[c] : \E g \in 0 .. Len(Text(OutputOf(c))) : CursorAt(c, j, g)
            BY <6>1 DEF Cursor
          <6>3. j = 0 /\ j = nlines[c]
            BY <3>2
          <6>4. End(OutputOf(c), 0) = 0
            BY LinesType, EndFacts DEF OutputOf
          <6>5. used_size = 0 /\ cp_offset = 0
            BY <3>2, <6>1, <6>2, <6>3, <6>4 DEF CursorAt
          <6> QED BY <3>1, <5>2, <6>5
        <5> QED BY <3>1, <5>1, <5>2
      <4>3. nlines'[c] = 0 /\ cp_offset' = 0 /\ Got(c)' = << >>
        BY <1>1, <1>2, <3>1, <3>2, <3>3, <4>1, <4>2
      <4> QED BY <4>2, <4>3, StreamStart
    <3> QED BY <3>4, <3>5, <3>6 DEF DataOf
  <2>3. CASE worker_append(c)
    <3>1. wpc[c] = "check" /\ wpc'[c] = "fgets" /\ thread_cmd' = thread_cmd
      BY <1>0, <2>3 DEF worker_append, Goto
    <3>2. Fresh(c)'
      BY <1>0, <1>3, <3>1 DEF Fresh
    <3>3. GotPrefix(c)'
      BY <1>0, <1>2, <3>1 DEF DataOf, GotPrefix, OutputOf
    <3>4. Stream(c)'
      <4>1. SUFFICES ASSUME Running(c)', c \notin early
                     PROVE  /\ nlines'[c] <= Len(OutputOf(c)')
                            /\ used_size' = End(OutputOf(c)', nlines'[c]) + nlines'[c]
                            /\ Filled(c)' /\ Cursor(c)'
        BY <1>0, <3>1 DEF Stream
      <4>2. used_size = End(OutputOf(c), nlines[c]) + nlines[c] /\ Filled(c) /\ Cursor(c)
        BY <2>1, <3>1, <4>1 DEF DataOf, Stream
      <4> QED BY <2>3, <4>2, StreamAppend
    <3> QED BY <3>2, <3>3, <3>4 DEF DataOf
  <2>4. CASE \/ worker_reset_finish(c) \/ worker_popen(c) \/ worker_fgets(c) \/ worker_timeout(c)
             \/ worker_pclose(c) \/ worker_finish(c) \/ worker_exit_handle(c)
    <3>1. /\ UNCHANGED <<used_size, runcmd_buf, thread_cmd, nlines>>
          /\ wpc[c] \notin {"reset_used", "nothread"} /\ wpc'[c] \notin {"reset_used", "nothread"}
          /\ (wpc'[c] \in FreshPcs => wpc[c] \in FreshPcs)
      BY <1>0, <2>4 DEF worker_reset_finish, worker_popen, worker_fgets, worker_timeout, worker_pclose,
         worker_finish, worker_exit_handle, Goto, ctrlVars, FreshPcs
    <3> QED BY <1>0, <1>1, <1>2, <1>3, <2>1, <3>1, DataKept
  <2> QED BY <1>5, <2>2, <2>3, <2>4 DEF WorkerStep
<1> QED BY <1>4, <1>5

(* The data of client c: every step. *)
LEMMA DataOfStep ==
    ASSUME OutTypes, OutputFits, ~Concurrent, NEW c \in Client, DataOf(c), QuietOf(c), [Next]_vars
    PROVE  DataOf(c)'
<1>1. CASE \/ net_recv \/ wait_pullout_begin \/ wait_pullout_state \/ net_clear \/ Tick
           \/ UNCHANGED vars
  <2>1. /\ UNCHANGED <<cpc, printed, reply, wpc, thread_cmd, nlines, used_size, cp_offset, runcmd_buf>>
        /\ early \subseteq early'
    BY <1>1 DEF net_recv, wait_pullout_begin, wait_pullout_state, net_clear, Tick, vars,
                workerVars, clientVars, ctrlVars
  <2>2. Got(c)' = Got(c) /\ (Running(c)' <=> Running(c))
    BY <2>1 DEF Got, Running, Live
  <2>3. cpc'[c] = "asked" => reply'[c].data = << >>
    BY <2>1 DEF DataOf, Fresh
  <2> QED BY <2>1, <2>2, <2>3, DataKept
<1>2. CASE udb_debug_runcmd_wait
  BY <1>2, DataAccept
<1>3. CASE wait_pullout_copy
  BY <1>3, DataCopy
<1>4. ASSUME NEW e \in Client, ClientStep(e) \/ Kill(e) PROVE DataOf(c)'
  BY <1>4, DataClient
<1>5. ASSUME NEW e \in Client, WorkerStep(e) PROVE DataOf(c)'
  BY <1>5, DataWorker
<1> QED BY <1>1, <1>2, <1>3, <1>4, <1>5 DEF Next, NetStep

(* Of clients that run one after the other, killed or not, each prints a     *)
(* beginning of the output of its own command, in order and without gaps,    *)
(* while the worker appends lines to runcmd_buf and the net thread takes     *)
(* them out at cp_offset, a part of one string for each poll, and no lock   *)
(* is held; unless a poll overtook its worker's reset of the control block.  *)
THEOREM OutputIsFaithful ==
    ASSUME ~Concurrent, OutputFits
    PROVE  Spec => []OutputFaithful
<1> DEFINE Inv == /\ OutTypes /\ UsedBound
                  /\ \A c \in Client : QuietOf(c) /\ DataOf(c)
<1>1. Init => Inv
  <2> SUFFICES ASSUME Init PROVE Inv
    OBVIOUS
  <2>0. /\ cpc = [c \in Client |-> "idle"] /\ wpc = [c \in Client |-> "none"] /\ inbox = << >>
        /\ reply = [c \in Client |-> NoReply] /\ npc = "recv" /\ thread_cmd = [c \in Client |-> NoCmd]
        /\ printed = [c \in Client |-> << >>] /\ runcmd_buf = [i \in 0 .. BufSize - 1 |-> 0]
    BY DEF Init
  <2>1. OrderInv
    BY OrderInit
  <2>2. WordsInv /\ UsedBound
    BY WordsInit DEF WordsInv
  <2>3. DataTypes
    <3>1. << >> \in Seq(Nat)
      BY EmptySeq
    <3>2. NoReply \in [state : Int, data : Seq(Nat)]
      BY <3>1 DEF NoReply
    <3> QED BY <2>0, <3>1, <3>2 DEF DataTypes
  <2>4. ASSUME NEW c \in Client PROVE QuietOf(c) /\ DataOf(c)
    <3>1. /\ cpc[c] = "idle" /\ wpc[c] = "none" /\ reply[c] = NoReply /\ ~Polling(c) /\ printed[c] = << >>
          /\ (\A r : ~Queued(r)) /\ 1 .. Len(inbox) = {}
      BY <2>0 DEF Queued, Polling
    <3>2. PollOnce(c) /\ PollAlone(c) /\ StaleQuiet(c)
      BY <3>1 DEF PollOnce, PollAlone, StaleQuiet, WorkerStale
    <3>3. Got(c) = << >>
      BY <2>3, <3>1, GotTypes
    <3>4. Fresh(c) /\ Stream(c)
      BY <3>1, <3>3 DEF Fresh, Stream, Running
    <3>5. PICK t \in Seq(Nat) : t = Text(OutputOf(c))
      <4>1. Text(OutputOf(c)) \in Seq(Nat \ {0})
        BY LinesType, EndFacts DEF OutputOf
      <4> QED BY <4>1
    <3>6. 0 <= Len(t) /\ 0 \in Nat
      OBVIOUS
    <3>7. IsPrefixOf(SubSeq(t, 1, 0), t) /\ SubSeq(t, 1, 0) = << >>
      BY <3>6, PrefixOfLength
    <3>8. GotPrefix(c)
      BY <3>3, <3>5, <3>7 DEF GotPrefix
    <3> QED BY <3>2, <3>4, <3>8 DEF QuietOf, DataOf
  <2> QED BY <2>1, <2>2, <2>3, <2>4 DEF OutTypes
<1>2. Inv /\ [Next]_vars => Inv'
  <2> SUFFICES ASSUME Inv, [Next]_vars PROVE Inv'
    OBVIOUS
  <2>1. OrderInv' /\ DataTypes'
    BY OrderStep, DataStep DEF OutTypes
  <2>2. WordsInv' /\ UsedBound'
    BY WordsStep, UsedStep DEF OutTypes, WordsInv
  <2>3. ASSUME NEW c \in Client PROVE QuietOf(c)' /\ DataOf(c)'
    BY QuietStep, DataOfStep DEF OutTypes
  <2> QED BY <2>1, <2>2, <2>3 DEF OutTypes
<1>3. Inv => OutputFaithful
  <2> SUFFICES ASSUME Inv, NEW c \in Client, c \notin early
               PROVE  IsPrefixOf(printed[c], Text(Lines(thread_cmd[c])))
    BY DEF OutputFaithful
  <2>1. IsPrefixOf(Got(c), Text(OutputOf(c)))
    BY DEF DataOf, GotPrefix
  <2>2. /\ printed[c] \in Seq(Nat) /\ Got(c) \in Seq(Nat) /\ reply[c].data \in Seq(Nat)
        /\ Len(Got(c)) = Len(printed[c]) + Len(reply[c].data)
        /\ SubSeq(Got(c), 1, Len(printed[c])) = printed[c]
        /\ Len(printed[c]) <= Len(Got(c))
    BY GotTypes DEF OutTypes
  <2>4. Text(OutputOf(c)) \in Seq(Nat)
    BY OutputBytes
  <2>5. IsPrefixOf(printed[c], Text(OutputOf(c)))
    BY <2>1, <2>2, <2>4, PrefixTrans
  <2> QED BY <2>5 DEF OutputOf
<1> HIDE DEF Inv
<1> QED BY <1>1, <1>2, <1>3, PTL DEF Spec
=============================================================================
