-------------------------------- MODULE Popen --------------------------------
(***************************************************************************)
(* uvc_popen and uvc_pclose of server/src/udb_debug.c, called by two       *)
(* threads of the server at once: the net thread (RUN_CMD, which reads to  *)
(* the end of the output) and the worker of RUN_CMD_WAIT (which may give   *)
(* up when a line arrives).  They share the table childpid, indexed by     *)
(* descriptor, and the process's descriptors; nothing is locked.  A child  *)
(* inherits every descriptor that is open when it is forked, and closes    *)
(* those that the table names.                                             *)
(*                                                                         *)
(* A call of uvc_popen is a pair <<thread, round>>; it also names the pipe *)
(* and the child of that call.                                             *)
(***************************************************************************)
EXTENDS Integers, FiniteSets, FiniteSetsExt

CONSTANTS
    Net, Worker,   \* the two threads
    Fd,            \* the descriptors (RLIMIT_NOFILE): an interval of numbers
    MaxRound,      \* bound on the number of calls, for each thread
    MayFail,       \* TRUE: the C library's calls may fail
    Null, Free,    \* a null pointer; a descriptor that is not open
    NoPid          \* the zero of an unused entry

Thread == {Net, Worker}
Call == UNION {{t} \X (1 .. MaxRound[t]) : t \in Thread}
End == Call \X {"r", "w"}                     \* the two ends of every pipe

ASSUME PopenAssumption ==
    /\ Net # Worker /\ MaxRound \in [Thread -> Nat] /\ MayFail \in BOOLEAN
    /\ Fd \subseteq Nat /\ IsFiniteSet(Fd)
    /\ NoPid \notin Call /\ Free \notin End /\ Null \notin [Fd -> Call \cup {NoPid}]

VARIABLES
    childpid,                \* Null, or for every descriptor a child or NoPid
    fds,                     \* what every descriptor of the server is
    pc, round, pfd, pid,     \* of each thread: place, call, pfd[], pid
    kid, kind, holds,        \* of each child: state, behaviour, ends it has open
    raced, failed            \* history: a second first call replaced childpid;
                             \* a call failed half-way

vars == <<childpid, fds, pc, round, pfd, pid, kid, kind, holds, raced, failed>>
kidVars == <<kid, kind, holds>>
NoPfd == [r |-> 0, w |-> 0]

Init ==
    /\ childpid = Null
    /\ fds = [i \in Fd |-> Free]
    /\ pc = [t \in Thread |-> "idle"] /\ round = [t \in Thread |-> 0]
    /\ pfd = [t \in Thread |-> NoPfd] /\ pid = [t \in Thread |-> NoPid]
    /\ kid = [c \in Call |-> "none"] /\ kind = [c \in Call |-> "short"]
    /\ holds = [c \in Call |-> {}]
    /\ raced = FALSE /\ failed = FALSE

Mine(t) == <<t, round[t]>>
Goto(t, place) == pc' = [pc EXCEPT ![t] = place]

(* The locals of a call are gone when uvc_pclose returns. *)
Forget(t) == pfd' = [pfd EXCEPT ![t] = NoPfd] /\ pid' = [pid EXCEPT ![t] = NoPid]

-----------------------------------------------------------------------------
(* uvc_popen(cmd, "r", ...)                                                  *)

popen_check(t) ==
    /\ pc[t] = "idle" /\ round[t] < MaxRound[t]
    /\ round' = [round EXCEPT ![t] = @ + 1]
    /\ Goto(t, IF childpid = Null THEN "calloc" ELSE "pipe")
    /\ UNCHANGED <<childpid, fds, pfd, pid, kidVars, raced, failed>>

(* "first time through": the test and the assignment are not one step, and   *)
(* a calloc that fails assigns as well; getrlimit fails before it.           *)
popen_calloc(t) ==
    /\ pc[t] = "calloc"
    /\ \/ childpid' = [i \in Fd |-> NoPid] /\ Goto(t, "pipe")
       \/ MayFail /\ childpid' \in {childpid, Null} /\ Goto(t, "idle")
    /\ raced' = (raced \/ (childpid # Null /\ childpid' # childpid))
    /\ UNCHANGED <<fds, round, pfd, pid, kidVars, failed>>

(* pipe takes the two lowest free descriptors. *)
popen_pipe(t) ==
    /\ pc[t] = "pipe"
    /\ LET free == {i \in Fd : fds[i] = Free} IN
       \/ /\ Cardinality(free) >= 2
          /\ LET r == Min(free)
                 w == Min(free \ {r})
             IN  /\ pfd' = [pfd EXCEPT ![t] = [r |-> r, w |-> w]]
                 /\ fds' = [fds EXCEPT ![r] = <<Mine(t), "r">>, ![w] = <<Mine(t), "w">>]
          /\ Goto(t, "fork")
       \/ /\ Cardinality(free) < 2 \/ MayFail
          /\ Goto(t, "idle") /\ UNCHANGED <<fds, pfd>>
    /\ UNCHANGED <<childpid, round, pid, kidVars, raced, failed>>

(* What a command may do: exit by itself or by `timeout 3`, which RUN_CMD    *)
(* puts before every command that does not start with '-'; print for ever;   *)
(* print at most a line and then stay; close its output and stay; exit and   *)
(* leave behind a process that has its output open.  A child that finds no   *)
(* table dies before exec.                                                   *)
Kinds == IF childpid = Null THEN {"short"}
         ELSE {"short", "writer", "line", "closed", "daemon"}

Listed(i) == childpid # Null /\ childpid[i] # NoPid


(* The ends a new child of t has open once it has set up its descriptors. *)
Inherited(t) ==
    {fds[i] : i \in {j \in Fd : fds[j] # Free /\ ~Listed(j) /\ j # pfd[t].r}}

(* fork and, in the child, everything up to exec; or fork fails, and the     *)
(* pipe stays open.                                                          *)
popen_fork(t) ==
    /\ pc[t] = "fork"
    /\ \/ /\ kid' = [kid EXCEPT ![Mine(t)] = "running"]
          /\ \E k \in Kinds :
                /\ kind' = [kind EXCEPT ![Mine(t)] = k]
                /\ holds' = [holds EXCEPT ![Mine(t)] =
                                Inherited(t) \ (IF k = "closed" THEN {<<Mine(t), "w">>} ELSE {})]
          /\ Goto(t, "close") /\ UNCHANGED failed
       \/ /\ MayFail /\ Goto(t, "idle") /\ failed' = TRUE
          /\ UNCHANGED kidVars
    /\ UNCHANGED <<childpid, fds, round, pfd, pid, raced>>

(* The parent closes the write end; fdopen. *)
popen_close(t) ==
    /\ pc[t] = "close"
    /\ fds' = [fds EXCEPT ![pfd[t].w] = Free]
    /\ \/ Goto(t, "record") /\ UNCHANGED failed
       \/ MayFail /\ Goto(t, "idle") /\ failed' = TRUE
    /\ UNCHANGED <<childpid, round, pfd, pid, kidVars, raced>>

\* MUTANT: the child is filed under the descriptor that was closed.
popen_record_w(t) ==
    /\ pc[t] = "record" /\ childpid # Null
    /\ childpid' = [childpid EXCEPT ![pfd[t].w] = Mine(t)]
    /\ Goto(t, "read")
    /\ UNCHANGED <<fds, round, pfd, pid, kidVars, raced, failed>>

(* The child is filed under its descriptor; without a table the process      *)
(* dies.                                                                     *)
popen_record(t) ==
    /\ pc[t] = "record"
    /\ IF childpid = Null
       THEN pc' = [u \in Thread |-> "dead"] /\ UNCHANGED childpid
       ELSE /\ childpid' = [childpid EXCEPT ![pfd[t].r] = Mine(t)]
            /\ Goto(t, "read")
    /\ UNCHANGED <<fds, round, pfd, pid, kidVars, raced, failed>>

-----------------------------------------------------------------------------
(* The callers between the two.                                              *)

IsOpen(end) == (\E i \in Fd : fds[i] = end) \/ (\E c \in Call : end \in holds[c])

(* udb_debug_runcmd's fread ends with the output or with the buffer, the     *)
(* worker's fgets loop with the output.                                      *)
read_output(t) ==
    /\ pc[t] = "read"
    /\ \/ ~IsOpen(<<Mine(t), "w">>)
       \/ t = Net /\ kid[Mine(t)] = "running" /\ kind[Mine(t)] \in {"short", "writer"}
    /\ Goto(t, "pclose")
    /\ UNCHANGED <<childpid, fds, round, pfd, pid, kidVars, raced, failed>>

(* The worker gives up when it gets a line and nobody has polled lately. *)
worker_timeout ==
    /\ pc[Worker] = "read"
    /\ kid[Mine(Worker)] = "running" /\ kind[Mine(Worker)] \in {"short", "writer", "line"}
    /\ Goto(Worker, "pclose")
    /\ UNCHANGED <<childpid, fds, round, pfd, pid, kidVars, raced, failed>>

-----------------------------------------------------------------------------
(* uvc_pclose                                                                *)

(* Take the child from the table, or return -1. *)
pclose_take(t) ==
    /\ pc[t] = "pclose"
    /\ IF Listed(pfd[t].r)
       THEN /\ pid' = [pid EXCEPT ![t] = childpid[pfd[t].r]]
            /\ childpid' = [childpid EXCEPT ![pfd[t].r] = NoPid]
            /\ Goto(t, "fclose")
       ELSE Goto(t, "idle") /\ UNCHANGED <<childpid, pid>>
    /\ UNCHANGED <<fds, round, pfd, kidVars, raced, failed>>

\* MUTANT: the stream is not closed.
pclose_fclose_skipped(t) ==
    /\ pc[t] = "fclose"
    /\ Goto(t, "wait")
    /\ UNCHANGED <<childpid, fds, round, pfd, pid, kidVars, raced, failed>>

(* An fclose that fails has closed the descriptor; the child is not waited   *)
(* for.                                                                      *)
pclose_fclose(t) ==
    /\ pc[t] = "fclose"
    /\ fds' = [fds EXCEPT ![pfd[t].r] = Free]
    /\ \/ Goto(t, "wait") /\ UNCHANGED failed
       \/ MayFail /\ Goto(t, "idle") /\ failed' = TRUE
    /\ UNCHANGED <<childpid, round, pfd, pid, kidVars, raced>>

\* MUTANT: the entry is cleared when the child has exited.
pclose_wait_clear(t) ==
    /\ pc[t] = "wait" /\ kid[pid[t]] = "zombie"
    /\ kid' = [kid EXCEPT ![pid[t]] = "reaped"]
    /\ childpid' = IF childpid = Null THEN Null ELSE [childpid EXCEPT ![pfd[t].r] = NoPid]
    /\ Goto(t, "idle") /\ Forget(t)
    /\ UNCHANGED <<fds, round, kind, holds, raced, failed>>

(* waitpid *)
pclose_wait(t) ==
    /\ pc[t] = "wait" /\ kid[pid[t]] = "zombie"
    /\ kid' = [kid EXCEPT ![pid[t]] = "reaped"]
    /\ Goto(t, "idle") /\ Forget(t)
    /\ UNCHANGED <<childpid, fds, round, kind, holds, raced, failed>>

-----------------------------------------------------------------------------
(* The children.  A writer is ended by SIGPIPE once nobody has the read end  *)
(* open.                                                                     *)
kid_exit(c) ==
    /\ kid[c] = "running"
    /\ kind[c] \in {"short", "daemon"} \/ (kind[c] = "writer" /\ ~IsOpen(<<c, "r">>))
    /\ kid' = [kid EXCEPT ![c] = "zombie"]
    /\ IF kind[c] = "daemon" THEN UNCHANGED <<holds, kind>>
       ELSE holds' = [holds EXCEPT ![c] = {}] /\ kind' = [kind EXCEPT ![c] = "short"]
    /\ UNCHANGED <<childpid, fds, pc, round, pfd, pid, raced, failed>>

uvc_popen(t) == popen_calloc(t) \/ popen_pipe(t) \/ popen_fork(t) \/ popen_close(t) \/ popen_record(t)
uvc_pclose(t) == pclose_take(t) \/ pclose_fclose(t) \/ pclose_wait(t)
Step(t) == uvc_popen(t) \/ read_output(t) \/ uvc_pclose(t)

Next == \/ \E t \in Thread : popen_check(t) \/ Step(t)
        \/ worker_timeout
        \/ \E c \in Call : kid_exit(c)

Spec == Init /\ [][Next]_vars

(* Threads and children that can go on do; nobody has to call uvc_popen, and *)
(* the worker need not give up.                                              *)
FairSpec == /\ Spec
            /\ \A t \in Thread : WF_vars(Step(t))
            /\ \A c \in Call : WF_vars(kid_exit(c))

-----------------------------------------------------------------------------
(* Every entry of childpid is filed under the open descriptor that reads     *)
(* that child's output: what the new child closes is never something else    *)
(* that got the same number (uvc_pclose clears the entry before it closes    *)
(* the descriptor, uvc_popen makes it after).                                *)
TableMatches ==
    childpid # Null =>
        \A i \in Fd : childpid[i] # NoPid => fds[i] = <<childpid[i], "r">>

(* uvc_pclose finds the child of its own call and no other, although the     *)
(* other thread gets descriptors with the same numbers; it finds none only   *)
(* when a second first call replaced the table.                              *)
PcloseFindsChild ==
    \A t \in Thread :
        /\ pc[t] \in {"fclose", "wait"} => pid[t] = Mine(t)
        /\ pc[t] \in {"read", "pclose"} /\ ~raced => childpid[pfd[t].r] = Mine(t)

(* When no call is under way the server has no descriptor and no child left, *)
(* unless fork, fdopen or fclose failed (their error paths free nothing) or  *)
(* the first two calls raced.                                                *)
NothingLeft ==
    (\A t \in Thread : pc[t] = "idle") /\ ~failed /\ ~raced =>
        /\ \A i \in Fd : fds[i] = Free
        /\ \A c \in Call : kid[c] \in {"none", "reaped"}

(* The child of call behaves in one of these ways. *)
Behaves(call, kinds) == call \in Call /\ kind[call] \in kinds

(* A process that another call left running has the end open. *)
HeldBeside(call, end) == \E c \in Call \ {call} : <<call, end>> \in holds[c]

=============================================================================
