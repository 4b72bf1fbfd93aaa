------------------------------ MODULE PushFile ------------------------------
(***************************************************************************)
(* `udb push`: the client (client/src/file.cpp, push_file) announces a     *)
(* file, sends it in pieces and closes it; the server keeps ONE global     *)
(* FILE pointer, udb_pushfile_ctrl.fp.  The client waits for an answer to  *)
(* each request and looks at none of them.  A Windows client waits 100 ms  *)
(* at most and then goes on, so that its requests pile up in the server's  *)
(* queue; a Linux client waits for ever.  Clients push to one path, one    *)
(* after the other, and may be killed; datagrams may be lost.              *)
(*                                                                         *)
(* fwrite fills the stream's buffer; bytes reach the device's file when    *)
(* the C library flushes, at the latest in fclose.                         *)
(***************************************************************************)
EXTENDS Integers, Sequences

CONSTANTS
    Contents,      \* the contents a local file may have
    MaxPkg,        \* PUSH_MAX_PKG_SIZE, the bytes of a piece
    U32,           \* the file size is an unsigned int
    MaxSession,    \* bound on the number of push commands
    MayLose,       \* TRUE: datagrams may be lost
    OpenMayFail,   \* TRUE: fopen on the device may fail
    RecvTimeout,   \* TRUE: a client may be one that sets SO_RCVTIMEO
    Unfixed        \* no INIT of this client has been handled yet

ASSUME PushAssumption ==
    /\ MaxPkg \in Nat \ {0} /\ U32 \in Nat \ {0} /\ MaxSession \in Nat
    /\ {MayLose, OpenMayFail, RecvTimeout} \subseteq BOOLEAN
    /\ Contents \subseteq Seq(Nat) /\ Unfixed \notin Seq(Nat)

VARIABLES
    \* the server: udb_auth_ok, whether fp is a stream or NULL, the bytes
    \* written to the stream, the device's file, whether the process still runs
    udb_auth_ok, fp, stream, disk, up,
    \* the network: the server's socket queue, the socket of the current client
    inbox, mail,
    \* the client: the number of the current push command, its place in
    \* push_file, its local file, the bytes it has still to send, whether its
    \* reads give up after 100 ms
    session, cpc, source, left_size, so_rcvtimeo,
    \* history: what became of each client's INIT; what was lost since this
    \* client started; whether a read of this client timed out; the copy when
    \* this client first went on after a request of its own was lost
    outcome, lost, late, kept

serverVars == <<fp, stream, disk, up>>
clientVars == <<session, cpc, source, left_size, so_rcvtimeo>>
histVars   == <<outcome, lost, late, kept>>
vars == <<udb_auth_ok, serverVars, inbox, mail, clientVars, histVars>>

Init ==
    /\ udb_auth_ok = FALSE
    /\ fp = "null" /\ stream = << >> /\ disk = << >> /\ up = TRUE
    /\ inbox = << >> /\ mail = << >>
    /\ session = 0 /\ cpc = "idle" /\ source = << >> /\ left_size = 0
    /\ so_rcvtimeo = FALSE
    /\ outcome = [s \in 1 .. MaxSession |-> "none"]
    /\ lost = {} /\ late = FALSE /\ kept = Unfixed

Running == cpc \in {"init", "proc", "fini"}

-----------------------------------------------------------------------------
(* The environment of the transfer.                                          *)

(* udb_debug_auth, for a `udb auth` of some other process. *)
udb_debug_auth ==
    /\ up
    /\ \E key_ok \in BOOLEAN : udb_auth_ok' = (udb_auth_ok \/ key_ok)
    /\ UNCHANGED <<serverVars, inbox, mail, clientVars, histVars>>

(* The C library writes buffered bytes out whenever it likes. *)
Flush ==
    /\ up /\ fp = "open"
    /\ \E n \in Len(disk) + 1 .. Len(stream) : disk' = SubSeq(stream, 1, n)
    /\ UNCHANGED <<udb_auth_ok, fp, stream, up, inbox, mail, clientVars, histVars>>

(* A datagram is lost on its way, before the next one is sent. *)
LoseRequest ==
    /\ MayLose /\ inbox # << >>
    /\ inbox' = SubSeq(inbox, 1, Len(inbox) - 1)
    /\ lost' = lost \cup {"request"}
    /\ outcome' = LET r == inbox[Len(inbox)]
                  IN  IF r.chan = "PUSH_FILE_INIT" THEN [outcome EXCEPT ![r.sess] = "lost"] ELSE outcome
    /\ UNCHANGED <<udb_auth_ok, serverVars, mail, clientVars, late, kept>>

LoseReply ==
    /\ MayLose /\ mail # << >>
    /\ mail' = Tail(mail)
    /\ lost' = lost \cup {"reply"}
    /\ UNCHANGED <<udb_auth_ok, serverVars, inbox, clientVars, outcome, late, kept>>

-----------------------------------------------------------------------------
(* The server: one iteration of the net thread's loop per action.            *)

Received(chan) == up /\ inbox # << >> /\ Head(inbox).chan = chan

(* sendto; the bridge leaves the answer empty without authentication. *)
SendTo(sess, resp) ==
    mail' = IF sess = session /\ Running THEN Append(mail, resp) ELSE mail

(* udb_debug_bridge refuses any request but UDB_AUTH. *)
udb_debug_bridge_refuse ==
    /\ up /\ inbox # << >> /\ ~udb_auth_ok
    /\ inbox' = Tail(inbox)
    /\ SendTo(Head(inbox).sess, "")
    /\ outcome' = IF Head(inbox).chan = "PUSH_FILE_INIT"
                  THEN [outcome EXCEPT ![Head(inbox).sess] = "refused"] ELSE outcome
    /\ UNCHANGED <<udb_auth_ok, serverVars, clientVars, lost, late, kept>>

\* MUTANT: a file that is still open is used again, neither closed nor truncated.
udb_debug_pushfile_init_reuse ==
    /\ Received("PUSH_FILE_INIT") /\ udb_auth_ok
    /\ inbox' = Tail(inbox)
    /\ fp' = "open"
    /\ IF fp = "open" THEN UNCHANGED <<stream, disk>> ELSE stream' = << >> /\ disk' = << >>
    /\ SendTo(Head(inbox).sess, "INITOK")
    /\ outcome' = [outcome EXCEPT ![Head(inbox).sess] = "ok"]
    /\ UNCHANGED <<udb_auth_ok, up, clientVars, lost, late, kept>>

(* udb_debug_pushfile_init: close what an earlier client left open, then    *)
(* fopen(path, "wb"), which truncates the file.                             *)
udb_debug_pushfile_init ==
    /\ Received("PUSH_FILE_INIT") /\ udb_auth_ok
    /\ inbox' = Tail(inbox)
    /\ \E ok \in (IF OpenMayFail THEN BOOLEAN ELSE {TRUE}) :
          /\ fp' = IF ok THEN "open" ELSE "null"
          /\ stream' = << >>
          /\ disk' = CASE ok -> << >> [] ~ok /\ fp = "open" -> stream [] OTHER -> disk
          /\ SendTo(Head(inbox).sess, IF ok THEN "INITOK" ELSE "INITNO")
          /\ outcome' = [outcome EXCEPT ![Head(inbox).sess] = IF ok THEN "ok" ELSE "no"]
    /\ UNCHANGED <<udb_auth_ok, up, clientVars, lost, late, kept>>

\* MUTANT: a piece that is not full is taken for the last one and closes the file.
udb_debug_pushfile_proc_closes ==
    /\ Received("PUSH_FILE_PROC") /\ udb_auth_ok
    /\ inbox' = Tail(inbox)
    /\ IF fp = "open" \/ Head(inbox).data = << >>
       THEN /\ stream' = stream \o Head(inbox).data
            /\ fp' = IF Len(Head(inbox).data) < MaxPkg THEN "null" ELSE fp
            /\ disk' = IF Len(Head(inbox).data) < MaxPkg THEN stream' ELSE disk
            /\ up' = up /\ SendTo(Head(inbox).sess, "PROCOK")
       ELSE up' = FALSE /\ UNCHANGED <<stream, mail, fp, disk>>
    /\ UNCHANGED <<udb_auth_ok, clientVars, histVars>>

(* udb_debug_pushfile_proc: fwrite(buf + ..., wrlen, 1, fp).  With a null fp *)
(* the process dies, except that fwrite of no bytes touches nothing.         *)
udb_debug_pushfile_proc ==
    /\ Received("PUSH_FILE_PROC") /\ udb_auth_ok
    /\ inbox' = Tail(inbox)
    /\ \/ /\ fp = "open"
          /\ stream' = stream \o Head(inbox).data
          /\ SendTo(Head(inbox).sess, "PROCOK")
          /\ UNCHANGED up
       \/ /\ fp = "null" /\ Head(inbox).data = << >>
          /\ SendTo(Head(inbox).sess, "PROCOK")
          /\ UNCHANGED <<stream, up>>
       \/ /\ fp = "null" /\ Head(inbox).data # << >>
          /\ up' = FALSE
          /\ UNCHANGED <<stream, mail>>
    /\ UNCHANGED <<udb_auth_ok, fp, disk, clientVars, histVars>>

\* MUTANT: the file is forgotten, not closed.
udb_debug_pushfile_fini_forget ==
    /\ Received("PUSH_FILE_FINI") /\ udb_auth_ok
    /\ inbox' = Tail(inbox)
    /\ IF fp = "open"
       THEN fp' = "null" /\ SendTo(Head(inbox).sess, "FINIOK") /\ UNCHANGED <<disk, up>>
       ELSE up' = FALSE /\ UNCHANGED <<disk, fp, mail>>
    /\ UNCHANGED <<udb_auth_ok, stream, clientVars, histVars>>

(* udb_debug_pushfile_fini: fclose(fp), which flushes; fclose(NULL) kills    *)
(* the process.                                                              *)
udb_debug_pushfile_fini ==
    /\ Received("PUSH_FILE_FINI") /\ udb_auth_ok
    /\ inbox' = Tail(inbox)
    /\ \/ /\ fp = "open"
          /\ fp' = "null" /\ disk' = stream
          /\ SendTo(Head(inbox).sess, "FINIOK")
          /\ UNCHANGED up
       \/ /\ fp = "null"
          /\ up' = FALSE
          /\ UNCHANGED <<fp, disk, mail>>
    /\ UNCHANGED <<udb_auth_ok, stream, clientVars, histVars>>

-----------------------------------------------------------------------------
(* The client: push_file.                                                    *)

Request(sess, chan, data) == Append(inbox, [sess |-> sess, chan |-> chan, data |-> data])

(* What the client believes the size to be: (unsigned int)ftell(fp). *)
FileSize(content) == Len(content) % U32

\* MUTANT: off by one, one byte more than a piece is still sent as one.
PieceSize_over(left) == IF left <= MaxPkg + 1 THEN left ELSE MaxPkg
\* MUTANT: nothing is sent when less than a piece is left.
PieceSize_zero(left) == IF left < MaxPkg THEN 0 ELSE MaxPkg

PieceSize(left) == IF left < MaxPkg THEN left ELSE MaxPkg

(* The next piece of the local file; fread past its end leaves zeros. *)
Piece(left) ==
    LET sent == FileSize(source) - left
    IN  [i \in 1 .. PieceSize(left) |-> IF sent + i <= Len(source) THEN source[sent + i] ELSE 0]

(* Open the local file, measure it, send UDB_PUSH_FILE_INIT. *)
push_file_start ==
    /\ ~Running /\ session < MaxSession
    /\ session' = session + 1
    /\ \E content \in Contents : source' = content /\ left_size' = FileSize(content)
    /\ cpc' = "init"
    /\ so_rcvtimeo' \in IF RecvTimeout THEN BOOLEAN ELSE {FALSE}
    /\ mail' = << >>                          \* a new socket
    /\ inbox' = Request(session + 1, "PUSH_FILE_INIT", << >>)
    /\ lost' = {} /\ late' = FALSE /\ kept' = Unfixed
    /\ UNCHANGED <<udb_auth_ok, serverVars, outcome>>

(* History: the device accepted the current client's INIT; all its requests  *)
(* so far arrived; what the device has of its file.                          *)
Started == session # 0 /\ outcome[session] = "ok"
Whole   == "request" \notin lost
Copy    == CASE ~Started -> << >> [] Started /\ kept = Unfixed -> disk [] OTHER -> kept

(* udb_ctrl_read: the next datagram is taken, whatever it says; or none came *)
(* in time, when the receive time-out is set.                                *)
Reads ==
    \/ mail # << >> /\ mail' = Tail(mail) /\ late' = late
    \/ so_rcvtimeo /\ mail' = mail /\ late' = TRUE

(* Any answer to INIT, or none: send the first piece, of an empty file too. *)
push_file_first ==
    /\ cpc = "init" /\ Reads
    /\ inbox' = Request(session, "PUSH_FILE_PROC", Piece(left_size))
    /\ cpc' = "proc"
    /\ kept' = IF Whole THEN kept ELSE Copy
    /\ UNCHANGED <<udb_auth_ok, serverVars, session, source, left_size, so_rcvtimeo, outcome, lost>>

(* Any answer to a piece, or none: send the next one, or FINI. *)
push_file_next ==
    /\ cpc = "proc" /\ Reads
    /\ left_size' = (left_size - PieceSize(left_size)) % U32
    /\ IF left_size' = 0
       THEN cpc' = "fini" /\ inbox' = Request(session, "PUSH_FILE_FINI", << >>)
       ELSE cpc' = cpc /\ inbox' = Request(session, "PUSH_FILE_PROC", Piece(left_size'))
    /\ kept' = IF Whole THEN kept ELSE Copy
    /\ UNCHANGED <<udb_auth_ok, serverVars, session, source, so_rcvtimeo, outcome, lost>>

(* Any answer to FINI, or none: done. *)
push_file_end ==
    /\ cpc = "fini" /\ Reads
    /\ cpc' = "done"
    /\ UNCHANGED <<udb_auth_ok, serverVars, inbox, session, source, left_size, so_rcvtimeo,
                   outcome, lost, kept>>

(* The user interrupts the client; its socket is gone. *)
Kill ==
    /\ Running
    /\ cpc' = "killed" /\ mail' = << >>
    /\ UNCHANGED <<udb_auth_ok, serverVars, inbox, session, source, left_size, so_rcvtimeo, histVars>>

-----------------------------------------------------------------------------
Server == \/ udb_debug_bridge_refuse \/ udb_debug_pushfile_init
          \/ udb_debug_pushfile_proc \/ udb_debug_pushfile_fini
Client == push_file_first \/ push_file_next \/ push_file_end

Next == \/ udb_debug_auth \/ Flush \/ LoseRequest \/ LoseReply
        \/ Server \/ push_file_start \/ Client \/ Kill

Spec == Init /\ [][Next]_vars

(* The server and the client keep running. *)
FairSpec == Spec /\ WF_vars(Server) /\ WF_vars(Client)

-----------------------------------------------------------------------------
(* Types of the protocol state (push_file, udb_pushfile_ctrl); a piece never *)
(* exceeds PUSH_MAX_PKG_SIZE and the bytes still to send never exceed the    *)
(* size.                                                                     *)
TypeOK ==
    /\ udb_auth_ok \in BOOLEAN /\ up \in BOOLEAN
    /\ fp \in {"null", "open"}
    /\ stream \in Seq(Nat) /\ disk \in Seq(Nat)
    /\ cpc \in {"idle", "init", "proc", "fini", "done", "killed"}
    /\ session \in 0 .. MaxSession
    /\ source \in Contents \cup {<< >>} /\ left_size \in 0 .. FileSize(source)
    /\ \A i \in 1 .. Len(inbox) : Len(inbox[i].data) <= MaxPkg
    /\ so_rcvtimeo \in BOOLEAN /\ late \in BOOLEAN
    /\ outcome \in [1 .. MaxSession -> {"none", "ok", "no", "refused", "lost"}]
    /\ lost \subseteq {"request", "reply"} /\ kept \in {Unfixed} \cup Seq(Nat)

Phase == CASE cpc = "idle" -> "idle"
           [] Running /\ ~late -> "copying"
           [] cpc = "done" /\ ~late /\ Started -> "done"
           [] OTHER -> "abandoned"

Expressible(content) == SubSeq(content, 1, Len(content) % U32)

FC == INSTANCE FileCopy WITH
         Contents <- {Expressible(content) : content \in Contents},
         src   <- IF Started THEN Expressible(source) ELSE Unfixed,
         dst   <- Copy,
         phase <- Phase

(* A push whose INIT the device accepted implements the abstract file copy:  *)
(* the device's file is always a prefix of the local one, whatever an        *)
(* earlier, killed or overtaken client left open, buffered or queued, and it *)
(* is complete when push_file returns (files below 4 GiB).  A client whose   *)
(* INIT failed or was refused, or one of whose reads timed out, returns as   *)
(* well; that push counts as abandoned.  Up to the point where a client goes *)
(* on after one of its requests was lost: from there the file has a hole.    *)
PushesFile == FC!Spec

(* Late and lost answers do no harm: once the server has handled what this   *)
(* client sent, an accepted push that returned left the whole file on the    *)
(* device, unless one of its requests was lost, although the client went on  *)
(* without waiting (push_file's 100 ms on Windows).                          *)
PushArrives ==
    cpc = "done" /\ Started /\ Whole /\ (\A i \in 1 .. Len(inbox) : inbox[i].sess # session) =>
        disk = Expressible(source)

(* Unless a datagram is lost or the server died, a push ends; that of a      *)
(* client with a receive time-out ends whatever happens.                     *)
PushEnds == Running /\ lost = {} ~> ~Running \/ (~so_rcvtimeo /\ (lost # {} \/ ~up))

Uses(r) == r.chan = "PUSH_FILE_FINI" \/ (r.chan = "PUSH_FILE_PROC" /\ r.data # << >>)

(* The server uses a null fp (and dies) only for a client whose INIT failed, *)
(* was refused or was lost, the answers that the client does not read or     *)
(* does not wait for: an accepted INIT keeps fp open until that client's     *)
(* FINI, also across killed clients and clients that run ahead of the server *)
(* (udb_debug_pushfile_proc, udb_debug_pushfile_fini).                       *)
NullFpOnlyAfterFailedInit ==
    up /\ fp = "null" /\ inbox # << >> /\ Uses(Head(inbox)) =>
        outcome[Head(inbox).sess] \in {"no", "refused", "lost"}
=============================================================================
