------------------------------ MODULE PullFile ------------------------------
(***************************************************************************)
(* `udb pull`: the client (client/src/file.cpp, pull_file) asks for a file *)
(* and fetches it in pieces of one datagram; the server keeps ONE global   *)
(* udb_pullfile_ctrl, whoever asks.  Clients run one after the other, each *)
(* with a socket of its own; a client may be killed and leave requests     *)
(* behind.  Datagrams may be lost; the order in which the server's socket  *)
(* receives them is the order in which they were sent.  The protocol has   *)
(* no sequence numbers.  The Linux client waits without a time-out; the    *)
(* Windows client goes on after 100 ms with a zeroed buffer.  With         *)
(* RecvTimeout every client may be either of the two.                      *)
(*                                                                         *)
(* A datagram is a sequence of ProtSize cells.  A cell is a byte; the      *)
(* 32-bit size at the start of an INIT answer is one cell.                 *)
(***************************************************************************)
EXTENDS Integers, Sequences

CONSTANTS
    Contents,      \* the contents the device's file may have
    ProtSize,      \* UDB_PROT_SIZE / udb_ctrl.prot_size
    U32,           \* unsigned int arithmetic is modulo U32
    MaxSession,    \* bound on the number of pull commands
    MayLose,       \* TRUE: datagrams may be lost
    RecvTimeout,   \* TRUE: a client may be one that sets SO_RCVTIMEO
    NoFile,        \* there is no such file: fopen fails
    NullPtr,       \* a null pointer
    Unfixed        \* no version of the file has been read yet

ASSUME PullAssumption ==
    /\ ProtSize \in Nat \ {0}
    /\ U32 \in Nat /\ U32 > ProtSize
    /\ MaxSession \in Nat
    /\ {MayLose, RecvTimeout} \subseteq BOOLEAN
    /\ Contents \subseteq Seq(Nat)
    /\ << >> \in Contents
    /\ \A x \in {NoFile, NullPtr, Unfixed} : x \notin Seq(Nat)

VARIABLES
    \* the server: udb_auth_ok, the file on the device, udb_pullfile_ctrl
    udb_auth_ok, file, pullout, used_size, cp_offset,
    \* the network: the server's socket queue, the socket of the current client
    inbox, mail,
    \* the client: the number of the current pull command, its place in
    \* pull_file, its locals, the local file
    session, cpc, get_size, cp_size, local,
    so_rcvtimeo,   \* a Windows client: a read gives up after 100 ms
    \* history: the version of the file the server read for this client;
    \* whether a datagram was lost since this client started; what was in the
    \* local file when a read of this client first timed out
    snap, lost, kept

serverVars == <<pullout, used_size, cp_offset>>
clientVars == <<session, cpc, get_size, cp_size, local, so_rcvtimeo>>
vars == <<udb_auth_ok, file, serverVars, inbox, mail, clientVars, snap, lost, kept>>

Init ==
    /\ udb_auth_ok = FALSE
    /\ file \in Contents \cup {NoFile}
    /\ pullout = NullPtr /\ used_size = 0 /\ cp_offset = 0
    /\ inbox = << >> /\ mail = << >>
    /\ session = 0 /\ cpc = "idle" /\ get_size = 0 /\ cp_size = 0 /\ local = << >>
    /\ so_rcvtimeo = FALSE
    /\ snap = Unfixed /\ lost = FALSE /\ kept = Unfixed

Running == cpc \in {"init", "pull"}

-----------------------------------------------------------------------------
(* The environment of the transfer.                                          *)

(* Something on the device replaces, creates or deletes the file. *)
FileChanges ==
    /\ file' \in (Contents \cup {NoFile}) \ {file}
    /\ UNCHANGED <<udb_auth_ok, serverVars, inbox, mail, clientVars, snap, lost, kept>>

(* udb_debug_auth, for a `udb auth` of some other process: a right key is   *)
(* remembered, a wrong one forgets nothing.                                 *)
udb_debug_auth ==
    /\ \E key_ok \in BOOLEAN : udb_auth_ok' = (udb_auth_ok \/ key_ok)
    /\ UNCHANGED <<file, serverVars, inbox, mail, clientVars, snap, lost, kept>>

(* A datagram is lost on its way, before the next one is sent. *)
LoseRequest ==
    /\ MayLose /\ inbox # << >>
    /\ inbox' = SubSeq(inbox, 1, Len(inbox) - 1)
    /\ lost' = TRUE
    /\ UNCHANGED <<udb_auth_ok, file, serverVars, mail, clientVars, snap, kept>>

LoseReply ==
    /\ MayLose /\ mail # << >>
    /\ mail' = Tail(mail)
    /\ lost' = TRUE
    /\ UNCHANGED <<udb_auth_ok, file, serverVars, inbox, clientVars, snap, kept>>

-----------------------------------------------------------------------------
(* The server: one iteration of the net thread's loop per action, that is    *)
(* recvfrom, udb_debug_bridge, sendto and the clearing of its buffers.       *)

Zeros(n) == [i \in 1 .. n |-> 0]

\* MUTANT: an empty answer is not sent.
SendTo_silent(sess, resp) ==
    mail' = IF sess = session /\ Running /\ udb_auth_ok THEN Append(mail, resp) ELSE mail

(* A datagram reaches the current client's socket, never an earlier one's.   *)
(* Without authentication the bridge leaves result_len at 0.                 *)
SendTo(sess, resp) ==
    mail' = IF sess = session /\ Running
            THEN Append(mail, IF udb_auth_ok THEN resp ELSE << >>) ELSE mail

(* The size udb_debug_pullfile_init reports: (unsigned int)st.st_size. *)
SizeOf(content) == IF content = NoFile THEN 0 ELSE Len(content) % U32

\* MUTANT: cp_offset is not reset, as if the last transfer always reached its end.
udb_debug_pullfile_init_keep ==
    /\ inbox # << >> /\ Head(inbox).chan = "PULL_FILE_INIT"
    /\ inbox' = Tail(inbox)
    /\ IF udb_auth_ok
       THEN /\ used_size' = SizeOf(file)
            /\ cp_offset' = cp_offset
            /\ pullout' = IF file = NoFile THEN NullPtr ELSE file
       ELSE UNCHANGED serverVars
    /\ SendTo(Head(inbox).sess, <<SizeOf(file)>> \o Zeros(ProtSize - 1))
    /\ snap' = IF Head(inbox).sess = session /\ Running
               THEN IF udb_auth_ok /\ file # NoFile THEN file ELSE << >>
               ELSE snap
    /\ UNCHANGED <<udb_auth_ok, file, clientVars, lost, kept>>

(* udb_debug_pullfile_init: read the whole file into memory. *)
udb_debug_pullfile_init ==
    /\ inbox # << >> /\ Head(inbox).chan = "PULL_FILE_INIT"
    /\ inbox' = Tail(inbox)
    /\ IF udb_auth_ok
       THEN /\ used_size' = SizeOf(file)
            /\ cp_offset' = 0
            /\ pullout' = IF file = NoFile THEN NullPtr ELSE file
       ELSE UNCHANGED serverVars
    /\ SendTo(Head(inbox).sess, <<SizeOf(file)>> \o Zeros(ProtSize - 1))
    /\ snap' = IF Head(inbox).sess = session /\ Running
               THEN IF udb_auth_ok /\ file # NoFile THEN file ELSE << >>
               ELSE snap
    /\ UNCHANGED <<udb_auth_ok, file, clientVars, lost, kept>>

(* The client asks for more than is left: answer zeros, change nothing. *)
PullRefused(n) == (cp_offset + n) % U32 > used_size

(* The piece that ends the transfer frees the copy. *)
PullFinished(n) == cp_offset + n = used_size

(* udb_debug_pullfile_pullout *)
udb_debug_pullfile_pullout ==
    /\ inbox # << >> /\ Head(inbox).chan = "PULL_FILE_PULLOUT"
    /\ inbox' = Tail(inbox)
    /\ LET n == Head(inbox).cp IN
       \/ /\ udb_auth_ok /\ PullRefused(n)
          /\ SendTo(Head(inbox).sess, Zeros(ProtSize))
          /\ UNCHANGED serverVars
       \/ /\ udb_auth_ok /\ ~PullRefused(n)
          /\ SendTo(Head(inbox).sess,
                    IF n = 0 THEN Zeros(ProtSize)
                    ELSE SubSeq(pullout, cp_offset + 1, cp_offset + n) \o Zeros(ProtSize - n))
          /\ IF PullFinished(n)
             THEN used_size' = 0 /\ cp_offset' = 0 /\ pullout' = NullPtr
             ELSE cp_offset' = cp_offset + n /\ UNCHANGED <<used_size, pullout>>
       \/ /\ ~udb_auth_ok
          /\ SendTo(Head(inbox).sess, << >>)
          /\ UNCHANGED serverVars
    /\ UNCHANGED <<udb_auth_ok, file, clientVars, snap, lost, kept>>

-----------------------------------------------------------------------------
(* The client: pull_file.                                                    *)

Request(sess, chan, n) == Append(inbox, [sess |-> sess, chan |-> chan, cp |-> n])

(* Open the local file for writing, send UDB_PULL_FILE_INIT. *)
pull_file_start ==
    /\ ~Running /\ session < MaxSession
    /\ session' = session + 1
    /\ cpc' = "init"
    /\ local' = << >> /\ get_size' = 0 /\ cp_size' = 0
    /\ mail' = << >>                          \* a new socket
    /\ so_rcvtimeo' \in IF RecvTimeout THEN BOOLEAN ELSE {FALSE}
    /\ inbox' = Request(session + 1, "PULL_FILE_INIT", 0)
    /\ snap' = Unfixed /\ lost' = FALSE /\ kept' = Unfixed
    /\ UNCHANGED <<udb_auth_ok, file, serverVars>>

Pad(dgram) == dgram \o Zeros(ProtSize - Len(dgram))

\* MUTANT: a read that timed out also empties the socket.
Reads_drain ==
    (IF mail # << >> THEN {[buf |-> Pad(Head(mail)), rest |-> Tail(mail), late |-> FALSE]}
     ELSE {})
    \cup (IF so_rcvtimeo THEN {[buf |-> Zeros(ProtSize), rest |-> << >>, late |-> TRUE]} ELSE {})

(* The ways udb_ctrl_read can fill the zeroed read_buf: with the next         *)
(* datagram, or, when the receive time-out is set, with nothing.              *)
Reads ==
    (IF mail # << >> THEN {[buf |-> Pad(Head(mail)), rest |-> Tail(mail), late |-> FALSE]}
     ELSE {})
    \cup (IF so_rcvtimeo THEN {[buf |-> Zeros(ProtSize), rest |-> mail, late |-> TRUE]} ELSE {})

(* History: after a first time-out the client takes each answer for that of  *)
(* a later request.                                                          *)
Keep(r) == kept' = IF r.late /\ kept = Unfixed THEN local ELSE kept
InStep == kept = Unfixed

\* MUTANT: the whole rest is asked for at once.
PieceSize_rest(left) == left

PieceSize(left) == IF left < ProtSize THEN left ELSE ProtSize

\* MUTANT: the loop stops when less than a datagram is left.
MoreToPull_short(left) == left >= ProtSize

MoreToPull(left) == left # 0

(* The INIT answer: the size; ask for the first piece. *)
pull_file_size ==
    /\ cpc = "init"
    /\ \E r \in Reads :
          /\ mail' = r.rest /\ Keep(r)
          /\ get_size' = r.buf[1]
          /\ cp_size' = PieceSize(r.buf[1])
    /\ inbox' = Request(session, "PULL_FILE_PULLOUT", cp_size')
    /\ cpc' = "pull"
    /\ UNCHANGED <<udb_auth_ok, file, serverVars, session, local, so_rcvtimeo, snap, lost>>

(* A piece: write it to the local file; ask for the next one or finish. *)
pull_file_piece ==
    /\ cpc = "pull"
    /\ \E r \in Reads :
          /\ mail' = r.rest /\ Keep(r)
          /\ local' = local \o SubSeq(r.buf, 1, cp_size)
    /\ get_size' = get_size - cp_size
    /\ IF MoreToPull(get_size')
       THEN /\ cpc' = "pull" /\ cp_size' = PieceSize(get_size')
            /\ inbox' = Request(session, "PULL_FILE_PULLOUT", cp_size')
       ELSE /\ cpc' = "done" /\ cp_size' = 0 /\ inbox' = inbox
    /\ UNCHANGED <<udb_auth_ok, file, serverVars, session, so_rcvtimeo, snap, lost>>

(* The user interrupts the client; its socket is gone. *)
Kill ==
    /\ Running
    /\ cpc' = "killed" /\ mail' = << >>
    /\ UNCHANGED <<udb_auth_ok, file, serverVars, inbox, session, get_size, cp_size, local,
                   so_rcvtimeo, snap, lost, kept>>

-----------------------------------------------------------------------------
Server == udb_debug_pullfile_init \/ udb_debug_pullfile_pullout
Client == pull_file_size \/ pull_file_piece

Next == \/ FileChanges \/ udb_debug_auth \/ LoseRequest \/ LoseReply
        \/ Server \/ pull_file_start \/ Client \/ Kill

Spec == Init /\ [][Next]_vars

(* The server and the client keep running. *)
FairSpec == Spec /\ WF_vars(Server) /\ WF_vars(Client)

-----------------------------------------------------------------------------
(* Types of the protocol state (pull_file, udb_pullfile_ctrl). *)
TypeOK ==
    /\ udb_auth_ok \in BOOLEAN
    /\ file \in Contents \cup {NoFile}
    /\ pullout \in Contents \cup {NullPtr}
    /\ used_size \in 0 .. U32 - 1 /\ cp_offset \in 0 .. U32 - 1
    /\ cpc \in {"idle", "init", "pull", "done", "killed"}
    /\ session \in 0 .. MaxSession
    /\ inbox \in Seq([sess : 1 .. MaxSession, chan : {"PULL_FILE_INIT", "PULL_FILE_PULLOUT"},
                      cp : 0 .. ProtSize])
    /\ get_size \in Nat /\ cp_size \in 0 .. ProtSize /\ so_rcvtimeo \in BOOLEAN
    /\ snap \in Contents \cup {Unfixed}
    /\ kept \in {Unfixed} \cup Seq(Nat)

(* udb_pullfile_ctrl describes memory the server owns: every piece the       *)
(* server copies out lies inside the file it read, also for requests that a  *)
(* killed client left in the queue (udb_debug_pullfile_pullout's memcpy).    *)
CopiesInBounds ==
    /\ cp_offset <= used_size
    /\ pullout = NullPtr => used_size = 0
    /\ pullout # NullPtr => used_size <= Len(pullout)

(* The part of a file that its size word can express: all of it below 4 GiB. *)
Expressible(content) == IF content = Unfixed THEN Unfixed
                        ELSE SubSeq(content, 1, Len(content) % U32)

Phase == CASE ~InStep \/ cpc = "killed" -> "abandoned"
           [] InStep /\ Running -> "copying"
           [] OTHER -> cpc

FC == INSTANCE FileCopy WITH Contents <- {Expressible(content) : content \in Contents},
                             src <- Expressible(snap), dst <- IF InStep THEN local ELSE kept, phase <- Phase

(* The pull command (pull_file and the two handlers) implements the abstract *)
(* file copy: at every moment, also when it hangs or is killed, the local    *)
(* file is a prefix of one version of the device's file.  A client whose     *)
(* read timed out has abandoned the copy at that point.                      *)
CopiesFile == FC!Spec

NonZero(s) == SelectSeq(s, LAMBDA byte : byte # 0)

(* What a time-out can do to a pull while no datagram is lost: pull_file     *)
(* reports completion although the answers came late, with blocks of zeros   *)
(* in the file and its end missing; but the bytes that did arrive are those  *)
(* of one version of the file, in order, none repeated or skipped, and       *)
(* the file has the right length (or none, when the size came late).         *)
LateInOrder ==
    ~lost /\ local # << >> =>
        /\ snap # Unfixed
        /\ LET got == NonZero(local) IN got = SubSeq(NonZero(Expressible(snap)), 1, Len(got))
        /\ cpc = "done" => Len(local) = Len(Expressible(snap))

(* As long as no datagram is lost, a pull ends: a client without a time-out  *)
(* gets an answer to every request (it has no retry, so one lost datagram    *)
(* stops it for ever), and the loop of pull_file makes progress with every   *)
(* answer; a client with one needs the progress only, lost datagrams or not. *)
PullEnds == Running /\ ~lost ~> ~Running \/ (lost /\ ~so_rcvtimeo)
=============================================================================
