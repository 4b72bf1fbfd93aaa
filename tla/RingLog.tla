------------------------------- MODULE RingLog -------------------------------
(***************************************************************************)
(* The firmware's in-memory log (server/src/rlog.c).  Every printf of the  *)
(* server is also stored in a ring of N bytes; `udb msh log` copies the    *)
(* ring into mshcmd_buf (udb_debug.c, udb_debug_msh_cmd_log).              *)
(*                                                                         *)
(* Pointers are offsets from rbuf_start, so rbuf_end is N.  The head may   *)
(* rest on rbuf_end: rbuf_put wraps only when a message does not fit.      *)
(***************************************************************************)
EXTENDS Integers, Sequences

CONSTANTS Char,      \* the characters a message is made of
          Nul,       \* the initial content of the static buffer
          N,         \* rbuf_size = RLOG_MAX_LOG_BUF_SIZE
          FullSize,  \* the literal 512 that rbuf_put stores when the ring is full
          MaxLog,    \* longest message vsnprintf leaves in tmp_buf
          MaxFmt     \* longest formatted message that is tried (a bound)

ASSUME RingAssumption ==
    /\ N \in Nat \ {0}
    /\ FullSize = N                 \* 512 = RLOG_MAX_LOG_BUF_SIZE
    /\ MaxLog \in Nat /\ MaxLog <= N    \* 126 <= 512
    /\ MaxFmt \in Nat

VARIABLES g_rlog_buf,      \* the static array, one byte longer than the ring
          rbuf_head,       \* offset of the next byte to write, 0 .. N
          rbuf_usedsize,
          rbuf_full,
          mshcmd           \* what the last `msh log` left in mshcmd_buf

vars == <<g_rlog_buf, rbuf_head, rbuf_usedsize, rbuf_full, mshcmd>>

(* memcpy of a sequence of bytes to offset `at` of an array *)
MemCpy(buf, at, data) ==
    [i \in DOMAIN buf |->
        IF at <= i /\ i < at + Len(data) THEN data[i - at + 1] ELSE buf[i]]

rbuf_init ==
    /\ g_rlog_buf = [i \in 0 .. N |-> Nul]
    /\ rbuf_head = 0
    /\ rbuf_usedsize = 0
    /\ rbuf_full = 0

\* MUTANT: the room left is measured to the end of the array, not of the ring.
rbuf_put_copy_past_end(data) ==
    LET left == N + 1 - rbuf_head IN
    IF left >= Len(data)
    THEN /\ g_rlog_buf' = MemCpy(g_rlog_buf, rbuf_head, data)
         /\ rbuf_head' = rbuf_head + Len(data)
    ELSE /\ g_rlog_buf' = MemCpy(MemCpy(g_rlog_buf, rbuf_head, SubSeq(data, 1, left)),
                                 0, SubSeq(data, left + 1, Len(data)))
         /\ rbuf_head' = Len(data) - left

(* The bytes rbuf_put copies, where they go and the head it leaves. *)
rbuf_put_copy(data) ==
    LET left == N - rbuf_head IN
    IF left >= Len(data)
    THEN /\ g_rlog_buf' = MemCpy(g_rlog_buf, rbuf_head, data)
         /\ rbuf_head' = rbuf_head + Len(data)
    ELSE /\ g_rlog_buf' = MemCpy(MemCpy(g_rlog_buf, rbuf_head, SubSeq(data, 1, left)),
                                 0, SubSeq(data, left + 1, Len(data)))
         /\ rbuf_head' = Len(data) - left

\* MUTANT: the ring is flagged full, the used size keeps its old value.
rbuf_put_account_stale(count) ==
    IF rbuf_full = 0
    THEN IF rbuf_usedsize + count > N
         THEN rbuf_full' = 1 /\ rbuf_usedsize' = rbuf_usedsize
         ELSE rbuf_usedsize' = rbuf_usedsize + count /\ rbuf_full' = rbuf_full
    ELSE UNCHANGED <<rbuf_full, rbuf_usedsize>>

rbuf_put_account(count) ==
    IF rbuf_full = 0
    THEN IF rbuf_usedsize + count > N
         THEN rbuf_full' = 1 /\ rbuf_usedsize' = FullSize
         ELSE rbuf_usedsize' = rbuf_usedsize + count /\ rbuf_full' = rbuf_full
    ELSE UNCHANGED <<rbuf_full, rbuf_usedsize>>

rbuf_put(data) == rbuf_put_copy(data) /\ rbuf_put_account(Len(data))

\* MUTANT: the dump always starts at the start of the array.
rbuf_get_from_start(count, offset) ==
    [i \in 1 .. count |-> g_rlog_buf[offset + i - 1]]

(* The bytes rbuf_get copies out.  `left` is a size_t: were it negative it   *)
(* would be huge, and the copy would run past the array in one piece.        *)
rbuf_get(count, offset) ==
    LET off_head == IF rbuf_full = 1 THEN rbuf_head + offset ELSE offset
        left     == N - off_head
    IN  [i \in 1 .. count |-> IF left < 0 \/ left >= count \/ i <= left
                              THEN g_rlog_buf[off_head + i - 1]
                              ELSE g_rlog_buf[i - left - 1]]

rlog_size == rbuf_usedsize

-----------------------------------------------------------------------------
Init == rbuf_init /\ mshcmd = << >>

(* rlog_printf2buf: vsnprintf cuts the message, strlen measures what is left. *)
rlog_printf2buf(msg) ==
    /\ rbuf_put(IF Len(msg) <= MaxLog THEN msg ELSE SubSeq(msg, 1, MaxLog))
    /\ UNCHANGED mshcmd

(* udb_debug_msh_cmd_log: nr = rlog_size(); rlog_dump(pullout, nr, 0). *)
udb_debug_msh_cmd_log ==
    /\ mshcmd' = rbuf_get(rlog_size, 0)
    /\ UNCHANGED <<g_rlog_buf, rbuf_head, rbuf_usedsize, rbuf_full>>

Next == \/ \E n \in 0 .. MaxFmt : \E msg \in [1 .. n -> Char] : rlog_printf2buf(msg)
        \/ udb_debug_msh_cmd_log

Spec == Init /\ [][Next]_vars

-----------------------------------------------------------------------------
(* Every variable holds a value of its C type; the head stays inside the    *)
(* ring and the spare byte of the array is never written (rlog.c 75-102).   *)
TypeOK ==
    /\ g_rlog_buf \in [0 .. N -> Char \cup {Nul}]
    /\ g_rlog_buf[N] = Nul
    /\ rbuf_head \in 0 .. N
    /\ rbuf_usedsize \in 0 .. N
    /\ rbuf_full \in {0, 1}
    /\ mshcmd \in Seq(Char)

(* The accounting of rbuf_put agrees with the head: until the ring wraps    *)
(* the used size is the head, afterwards it is the whole ring, and every    *)
(* byte that counts as used has been written.                               *)
RingConsistent ==
    /\ rbuf_full = 0 => rbuf_usedsize = rbuf_head
    /\ rbuf_full = 1 => rbuf_usedsize = N
    /\ \A i \in 0 .. N - 1 : (rbuf_full = 1 \/ i < rbuf_head) => g_rlog_buf[i] \in Char

(* What `msh log` would show now. *)
Window == rbuf_get(rlog_size, 0)

(* The ring implements the sliding window of the last N bytes printed: each *)
(* printf appends to what `msh log` shows and drops only from its front, on *)
(* every side of the wrap-around (rbuf_put, rbuf_get).                      *)
LW == INSTANCE LogWindow WITH window <- Window, shown <- mshcmd
ShowsLastBytes == LW!Spec
=============================================================================
