---------------------------- MODULE RingLogProofs ----------------------------
(***************************************************************************)
(* RingLog for every ring size, every character set and every message      *)
(* bound: its invariants, and that it implements LogWindow.                *)
(***************************************************************************)
EXTENDS RingLog, SeqFacts

Inv == TypeOK /\ RingConsistent

(* vsnprintf's cut: what rlog_printf2buf stores is a sequence of at most    *)
(* MaxLog characters.                                                       *)
LEMMA StoredMessage ==
    ASSUME NEW n \in Nat, NEW msg \in [1 .. n -> Char],
           NEW s, s = IF Len(msg) <= MaxLog THEN msg ELSE SubSeq(msg, 1, MaxLog)
    PROVE  s \in Seq(Char) /\ Len(s) \in 0 .. MaxLog
<1>1. msg \in Seq(Char) /\ Len(msg) = n
  OBVIOUS
<1>2. CASE Len(msg) <= MaxLog
  BY <1>1, <1>2, RingAssumption
<1>3. CASE Len(msg) > MaxLog
  <2>1. s = SubSeq(msg, 1, MaxLog)
    BY <1>1, <1>3, RingAssumption
  <2>3. s \in Seq(Char) /\ Len(s) = MaxLog - 1 + 1
    BY <2>1, <1>1, <1>3, SliceFacts, RingAssumption
  <2> QED BY <2>3, RingAssumption
<1> QED BY <1>1, <1>2, <1>3, RingAssumption

(* What rbuf_put does to each byte of the array, in the two cases of the    *)
(* code: the message fits before rbuf_end, or it wraps.                     *)
LEMMA PutCells ==
    ASSUME TypeOK, NEW d \in Seq(Char), Len(d) <= N, rbuf_put_copy(d)
    PROVE  /\ DOMAIN g_rlog_buf' = 0 .. N
           /\ rbuf_head + Len(d) <= N =>
                /\ rbuf_head' = rbuf_head + Len(d)
                /\ \A i \in 0 .. N : g_rlog_buf'[i] =
                     IF rbuf_head <= i /\ i < rbuf_head + Len(d)
                     THEN d[i - rbuf_head + 1] ELSE g_rlog_buf[i]
           /\ rbuf_head + Len(d) > N =>
                /\ rbuf_head' = rbuf_head + Len(d) - N
                /\ \A i \in 0 .. N : g_rlog_buf'[i] =
                     IF i < rbuf_head + Len(d) - N THEN d[N - rbuf_head + i + 1]
                     ELSE IF rbuf_head <= i /\ i < N THEN d[i - rbuf_head + 1]
                     ELSE g_rlog_buf[i]
<1> DEFINE left == N - rbuf_head
           d1 == SubSeq(d, 1, left)
           d2 == SubSeq(d, left + 1, Len(d))
<1>1. /\ N \in Nat /\ rbuf_head \in 0 .. N /\ Len(d) \in Nat /\ left \in 0 .. N
      /\ DOMAIN g_rlog_buf = 0 .. N
  BY RingAssumption DEF TypeOK
<1>2. CASE left >= Len(d)
  <2>1. /\ g_rlog_buf' = MemCpy(g_rlog_buf, rbuf_head, d)
        /\ rbuf_head' = rbuf_head + Len(d)
    BY <1>2 DEF rbuf_put_copy
  <2> QED BY <2>1, <1>1, <1>2 DEF MemCpy
<1>3. CASE left < Len(d)
  <2>1. /\ g_rlog_buf' = MemCpy(MemCpy(g_rlog_buf, rbuf_head, d1), 0, d2)
        /\ rbuf_head' = Len(d) - left
    BY <1>1, <1>3 DEF rbuf_put_copy
  <2>3. /\ Len(d1) = left
        /\ \A i \in 1 .. left : d1[i] = d[i]
    <3>1. /\ Len(d1) = left - 1 + 1
          /\ \A i \in 1 .. left - 1 + 1 : d1[i] = d[1 + i - 1]
      BY <1>1, <1>3, SliceFacts
    <3> QED BY <3>1, <1>1
  <2>4. /\ Len(d2) = Len(d) - left
        /\ \A i \in 1 .. Len(d) - left : d2[i] = d[left + i]
    <3> DEFINE m == left + 1
    <3>1. m \in Nat /\ 1 <= m /\ m <= Len(d) + 1
      BY <1>1, <1>3
    <3> HIDE DEF m
    <3>2. /\ Len(SubSeq(d, m, Len(d))) = Len(d) - m + 1
          /\ \A i \in 1 .. Len(d) - m + 1 : SubSeq(d, m, Len(d))[i] = d[m + i - 1]
      BY <3>1, <1>1, SliceFacts
    <3> QED BY <3>2, <1>1 DEF m
  <2> HIDE DEF d1, d2
  <2>5. \A i \in 0 .. N : MemCpy(g_rlog_buf, rbuf_head, d1)[i] =
            IF rbuf_head <= i /\ i < N THEN d[i - rbuf_head + 1] ELSE g_rlog_buf[i]
    BY <2>3, <1>1 DEF MemCpy
  <2>6. DOMAIN MemCpy(g_rlog_buf, rbuf_head, d1) = 0 .. N
    BY <1>1 DEF MemCpy
  <2>7. /\ DOMAIN g_rlog_buf' = 0 .. N
        /\ \A i \in 0 .. N : g_rlog_buf'[i] =
             IF 0 <= i /\ i < 0 + Len(d2) THEN d2[i - 0 + 1]
             ELSE MemCpy(g_rlog_buf, rbuf_head, d1)[i]
    <3> DEFINE m == MemCpy(g_rlog_buf, rbuf_head, d1)
    <3> HIDE DEF m
    <3>1. DOMAIN m = 0 .. N /\ g_rlog_buf' = MemCpy(m, 0, d2)
      BY <2>1, <2>6 DEF m
    <3>2. /\ DOMAIN g_rlog_buf' = 0 .. N
          /\ \A i \in 0 .. N : g_rlog_buf'[i] =
               IF 0 <= i /\ i < 0 + Len(d2) THEN d2[i - 0 + 1] ELSE m[i]
      BY <3>1 DEF MemCpy
    <3> QED BY <3>2 DEF m
  <2>8. rbuf_head' = rbuf_head + Len(d) - N
    BY <2>1, <1>1
  <2>9. \A i \in 0 .. N : g_rlog_buf'[i] =
            IF i < rbuf_head + Len(d) - N THEN d[N - rbuf_head + i + 1]
            ELSE IF rbuf_head <= i /\ i < N THEN d[i - rbuf_head + 1]
            ELSE g_rlog_buf[i]
    <3> SUFFICES ASSUME NEW i \in 0 .. N
                 PROVE  g_rlog_buf'[i] =
                          IF i < rbuf_head + Len(d) - N THEN d[N - rbuf_head + i + 1]
                          ELSE IF rbuf_head <= i /\ i < N THEN d[i - rbuf_head + 1]
                          ELSE g_rlog_buf[i]
      OBVIOUS
    <3>1. CASE i < Len(d2)
      <4>1. g_rlog_buf'[i] = d2[i + 1]
        BY <2>7, <3>1
      <4>2. d2[i + 1] = d[left + (i + 1)]
        BY <2>4, <3>1, <1>1
      <4>3. i < rbuf_head + Len(d) - N /\ left + (i + 1) = N - rbuf_head + i + 1
        BY <2>4, <3>1, <1>1
      <4> HIDE DEF left
      <4> QED BY <4>1, <4>2, <4>3
    <3>2. CASE ~(i < Len(d2))
      <4>1. g_rlog_buf'[i] = MemCpy(g_rlog_buf, rbuf_head, d1)[i]
        BY <2>7, <3>2
      <4> QED BY <4>1, <2>5, <2>4, <3>2, <1>1
    <3> QED BY <3>1, <3>2
  <2>10. ~(rbuf_head + Len(d) <= N)
    BY <1>1, <1>3
  <2>11. DOMAIN g_rlog_buf' = 0 .. N
    BY <2>7
  <2> HIDE DEF left, d1, d2
  <2> QED BY <2>8, <2>9, <2>10, <2>11
<1> QED BY <1>1, <1>2, <1>3

(* What `msh log` would show, byte by byte. *)
WindowFacts ==
    /\ Window \in Seq(Char)
    /\ Len(Window) = rbuf_usedsize
    /\ rbuf_full = 0 => \A i \in 1 .. rbuf_usedsize : Window[i] = g_rlog_buf[i - 1]
    /\ rbuf_full = 1 => \A i \in 1 .. N : Window[i] =
           IF i <= N - rbuf_head THEN g_rlog_buf[rbuf_head + i - 1]
           ELSE g_rlog_buf[i - (N - rbuf_head) - 1]

(* The invariant makes rbuf_get(rlog_size(), 0) read exactly the used bytes, *)
(* oldest first, in one memcpy or in two.                                    *)
LEMMA WindowCells == Inv => WindowFacts
<1> SUFFICES ASSUME Inv PROVE WindowFacts
  OBVIOUS
<1> USE DEF WindowFacts
<1>1. /\ N \in Nat /\ rbuf_head \in 0 .. N /\ rbuf_usedsize \in 0 .. N
      /\ rbuf_full \in {0, 1}
  BY RingAssumption DEF Inv, TypeOK
<1>2. CASE rbuf_full = 0
  <2>1. rbuf_usedsize = rbuf_head
    BY <1>2 DEF Inv, RingConsistent
  <2>2. Window = [i \in 1 .. rbuf_usedsize |-> g_rlog_buf[i - 1]]
    BY <1>1, <1>2, <2>1 DEF Window, rbuf_get, rlog_size
  <2>3. \A i \in 1 .. rbuf_usedsize : g_rlog_buf[i - 1] \in Char
    BY <1>1, <2>1 DEF Inv, RingConsistent
  <2>4. Window \in [1 .. rbuf_usedsize -> Char]
    BY <2>2, <2>3
  <2> QED BY <2>2, <2>4, <1>1, <1>2
<1>3. CASE rbuf_full = 1
  <2>1. rbuf_usedsize = N
    BY <1>3 DEF Inv, RingConsistent
  <2>2. Window = [i \in 1 .. N |-> IF i <= N - rbuf_head THEN g_rlog_buf[rbuf_head + i - 1]
                                   ELSE g_rlog_buf[i - (N - rbuf_head) - 1]]
    BY <1>1, <1>3, <2>1 DEF Window, rbuf_get, rlog_size
  <2>3. \A i \in 0 .. N - 1 : g_rlog_buf[i] \in Char
    BY <1>3 DEF Inv, RingConsistent
  <2>4. Window \in [1 .. N -> Char]
    BY <2>2, <2>3, <1>1
  <2>5. Window \in Seq(Char) /\ Len(Window) = rbuf_usedsize
    BY <2>1, <2>4, <1>1
  <2>6. \A i \in 1 .. N : Window[i] =
            IF i <= N - rbuf_head THEN g_rlog_buf[rbuf_head + i - 1]
            ELSE g_rlog_buf[i - (N - rbuf_head) - 1]
    BY <2>2
  <2> QED BY <2>5, <2>6, <1>3
<1> QED BY <1>1, <1>2, <1>3

(* rbuf_put keeps the invariant: the head stays in the ring, the accounting *)
(* follows it and every byte that counts as used has been written.          *)
LEMMA PutKeepsInv ==
    ASSUME Inv, NEW d \in Seq(Char), Len(d) <= N, rbuf_put(d), UNCHANGED mshcmd
    PROVE  Inv'
<1>1. /\ N \in Nat /\ rbuf_head \in 0 .. N /\ rbuf_usedsize \in 0 .. N
      /\ rbuf_full \in {0, 1} /\ Len(d) \in Nat /\ FullSize = N /\ N > 0
      /\ \A i \in 1 .. Len(d) : d[i] \in Char
      /\ \A i \in 0 .. N : g_rlog_buf[i] \in Char \cup {Nul}
      /\ g_rlog_buf[N] = Nul
      /\ mshcmd \in Seq(Char)
  BY RingAssumption DEF Inv, TypeOK
<1>2. rbuf_put_copy(d) /\ rbuf_put_account(Len(d)) /\ TypeOK
  BY DEF rbuf_put, Inv
<1>3. /\ rbuf_full = 0 => rbuf_usedsize = rbuf_head
      /\ rbuf_full = 1 => rbuf_usedsize = N
      /\ \A i \in 0 .. N - 1 : (rbuf_full = 1 \/ i < rbuf_head) => g_rlog_buf[i] \in Char
  BY DEF Inv, RingConsistent
<1>4. g_rlog_buf' \in [DOMAIN g_rlog_buf' -> {g_rlog_buf'[i] : i \in DOMAIN g_rlog_buf'}]
  BY <1>2 DEF rbuf_put_copy, MemCpy
<1>5. /\ rbuf_usedsize' \in 0 .. N /\ rbuf_full' \in {0, 1}
      /\ rbuf_full' = 0 => rbuf_full = 0 /\ rbuf_usedsize' = rbuf_head + Len(d)
                           /\ rbuf_head + Len(d) <= N
      /\ rbuf_full' = 1 => rbuf_usedsize' = N /\ (rbuf_full = 1 \/ rbuf_head + Len(d) > N)
  BY <1>1, <1>2, <1>3 DEF rbuf_put_account
<1>6. CASE rbuf_head + Len(d) <= N
  <2>1. /\ DOMAIN g_rlog_buf' = 0 .. N
        /\ rbuf_head' = rbuf_head + Len(d)
        /\ \A i \in 0 .. N : g_rlog_buf'[i] =
             IF rbuf_head <= i /\ i < rbuf_head + Len(d)
             THEN d[i - rbuf_head + 1] ELSE g_rlog_buf[i]
    BY <1>2, <1>6, PutCells
  <2>2. \A i \in 0 .. N : g_rlog_buf'[i] \in Char \cup {Nul}
    BY <2>1, <1>1
  <2>3. g_rlog_buf' \in [0 .. N -> Char \cup {Nul}]
    BY <2>1, <2>2, <1>4
  <2>4. TypeOK'
    BY <2>1, <2>3, <1>1, <1>5, <1>6 DEF TypeOK
  <2>a. \A i \in 0 .. N - 1 : (rbuf_full' = 1 \/ i < rbuf_head') => g_rlog_buf'[i] \in Char
    <3> SUFFICES ASSUME NEW i \in 0 .. N - 1, rbuf_full' = 1 \/ i < rbuf_head'
                 PROVE  g_rlog_buf'[i] \in Char
      OBVIOUS
    <3>1. CASE rbuf_head <= i /\ i < rbuf_head + Len(d)
      <4>1. i - rbuf_head + 1 \in 1 .. Len(d)
        BY <3>1, <1>1
      <4>2. g_rlog_buf'[i] = d[i - rbuf_head + 1]
        BY <3>1, <2>1, <1>1
      <4> QED BY <4>1, <4>2, <1>1
    <3>2. CASE ~(rbuf_head <= i /\ i < rbuf_head + Len(d))
      <4>1. g_rlog_buf'[i] = g_rlog_buf[i]
        BY <3>2, <2>1, <1>1
      <4>2. rbuf_full = 1 \/ i < rbuf_head
        BY <3>2, <2>1, <1>1, <1>5, <1>6
      <4> QED BY <4>1, <4>2, <1>3
    <3> QED BY <3>1, <3>2
  <2>5. RingConsistent'
    BY <2>1, <2>a, <1>1, <1>5, <1>6 DEF RingConsistent
  <2> QED BY <2>4, <2>5 DEF Inv
<1>7. CASE rbuf_head + Len(d) > N
  <2>1. /\ DOMAIN g_rlog_buf' = 0 .. N
        /\ rbuf_head' = rbuf_head + Len(d) - N
        /\ \A i \in 0 .. N : g_rlog_buf'[i] =
             IF i < rbuf_head + Len(d) - N THEN d[N - rbuf_head + i + 1]
             ELSE IF rbuf_head <= i /\ i < N THEN d[i - rbuf_head + 1]
             ELSE g_rlog_buf[i]
    BY <1>2, <1>7, PutCells
  <2>a. \A i \in 0 .. N : i < N /\ (i < rbuf_head + Len(d) - N \/ rbuf_head <= i)
                            => g_rlog_buf'[i] \in Char
    <3> SUFFICES ASSUME NEW i \in 0 .. N, i < N,
                        i < rbuf_head + Len(d) - N \/ rbuf_head <= i
                 PROVE  g_rlog_buf'[i] \in Char
      OBVIOUS
    <3>1. CASE i < rbuf_head + Len(d) - N
      <4>1. N - rbuf_head + i + 1 \in 1 .. Len(d)
        BY <3>1, <1>1, <1>7
      <4>2. g_rlog_buf'[i] = d[N - rbuf_head + i + 1]
        BY <3>1, <2>1
      <4> QED BY <4>1, <4>2, <1>1
    <3>2. CASE ~(i < rbuf_head + Len(d) - N)
      <4>1. i - rbuf_head + 1 \in 1 .. Len(d)
        BY <3>2, <1>1, <1>7
      <4>2. g_rlog_buf'[i] = d[i - rbuf_head + 1]
        BY <3>2, <2>1
      <4> QED BY <4>1, <4>2, <1>1
    <3> QED BY <3>1, <3>2
  <2>b. \A i \in 0 .. N : ~(i < N /\ (i < rbuf_head + Len(d) - N \/ rbuf_head <= i))
                            => g_rlog_buf'[i] = g_rlog_buf[i]
    BY <2>1, <1>1, <1>7
  <2>2. \A i \in 0 .. N : g_rlog_buf'[i] \in Char \cup {Nul}
    BY <2>a, <2>b, <1>1
  <2>3. g_rlog_buf' \in [0 .. N -> Char \cup {Nul}]
    BY <2>1, <2>2, <1>4
  <2>4. TypeOK'
    BY <2>1, <2>3, <1>1, <1>5, <1>7 DEF TypeOK
  <2>5. RingConsistent'
    <3>1. \A i \in 0 .. N - 1 : g_rlog_buf'[i] \in Char
      BY <2>a, <2>b, <1>1, <1>3, <1>5, <1>7
    <3>2. rbuf_full' = 1 /\ rbuf_usedsize' = N
      BY <1>1, <1>5, <1>7
    <3> QED BY <3>1, <3>2 DEF RingConsistent
  <2> QED BY <2>4, <2>5 DEF Inv
<1> QED BY <1>1, <1>6, <1>7

(* rbuf_put slides the window: it appends the message to what `msh log`     *)
(* shows and drops bytes only from the front.                               *)
LEMMA PutSlidesWindow ==
    ASSUME Inv, Inv', NEW d \in Seq(Char), Len(d) <= N, rbuf_put(d)
    PROVE  Window' = LW!LastN(Window \o d)
<1> DEFINE k == Len(d)
           h == rbuf_head
           w == Window \o d
           u == rbuf_usedsize
<1>1. /\ N \in Nat /\ h \in 0 .. N /\ u \in 0 .. N
      /\ rbuf_full \in {0, 1} /\ k \in Nat /\ FullSize = N /\ N > 0
      /\ rbuf_head' \in 0 .. N
  BY RingAssumption DEF Inv, TypeOK
<1>2. rbuf_put_copy(d) /\ rbuf_put_account(k) /\ TypeOK
  BY DEF rbuf_put, Inv
<1>3. /\ rbuf_full = 0 => u = h
      /\ rbuf_full = 1 => u = N
  BY DEF Inv, RingConsistent
<1>4. /\ Window \in Seq(Char)
      /\ Len(Window) = u
      /\ rbuf_full = 0 => \A i \in 1 .. u : Window[i] = g_rlog_buf[i - 1]
      /\ rbuf_full = 1 => \A i \in 1 .. N : Window[i] =
             IF i <= N - h THEN g_rlog_buf[h + i - 1] ELSE g_rlog_buf[i - (N - h) - 1]
  BY WindowCells DEF WindowFacts
<1>5. /\ Window' \in Seq(Char)
      /\ Len(Window') = rbuf_usedsize'
      /\ rbuf_full' = 0 => \A i \in 1 .. rbuf_usedsize' : Window'[i] = g_rlog_buf'[i - 1]
      /\ rbuf_full' = 1 => \A i \in 1 .. N : Window'[i] =
             IF i <= N - rbuf_head' THEN g_rlog_buf'[rbuf_head' + i - 1]
             ELSE g_rlog_buf'[i - (N - rbuf_head') - 1]
  <2>1. WindowFacts'
    BY WindowCells, PTL
  <2> QED BY <2>1 DEF WindowFacts
<1>6. /\ w \in Seq(Char)
      /\ Len(w) = u + k
      /\ \A i \in 1 .. u + k : w[i] = IF i <= u THEN Window[i] ELSE d[i - u]
  BY <1>4, ConcatProperties
<1> HIDE DEF w
<1>7. CASE rbuf_full = 0 /\ h + k <= N
  <2>1. rbuf_full' = 0 /\ rbuf_usedsize' = h + k
    BY <1>1, <1>2, <1>3, <1>7 DEF rbuf_put_account
  <2>2. LW!LastN(w) = w
    BY <1>6, <1>3, <1>7 DEF LW!LastN
  <2>3. \A i \in 0 .. N : g_rlog_buf'[i] =
             IF h <= i /\ i < h + k THEN d[i - h + 1] ELSE g_rlog_buf[i]
    BY <1>2, <1>7, PutCells
  <2>4. \A i \in 1 .. h + k : Window'[i] = w[i]
    <3> SUFFICES ASSUME NEW i \in 1 .. h + k PROVE Window'[i] = w[i]
      OBVIOUS
    <3>1. Window'[i] = IF h <= i - 1 THEN d[(i - 1) - h + 1] ELSE g_rlog_buf[i - 1]
      BY <2>1, <2>3, <1>1, <1>5, <1>7
    <3>2. w[i] = IF i <= h THEN g_rlog_buf[i - 1] ELSE d[i - h]
      BY <1>1, <1>3, <1>4, <1>6, <1>7
    <3> QED BY <3>1, <3>2, <1>1
  <2>5. Window' = w
    BY <2>1, <2>4, <1>1, <1>3, <1>5, <1>6, <1>7, SeqEqual
  <2> QED BY <2>2, <2>5 DEF w
<1>8. CASE u + k > N
  <2>1. rbuf_full' = 1 /\ rbuf_usedsize' = N
    BY <1>1, <1>2, <1>3, <1>8 DEF rbuf_put_account
  <2>2. /\ LW!LastN(w) \in Seq(Char) /\ Len(LW!LastN(w)) = N
        /\ \A i \in 1 .. N : LW!LastN(w)[i] = w[u + k - N + i]
    <3> DEFINE m == u + k - N + 1
               n == u + k
    <3>1. m \in Nat /\ n \in Nat /\ 1 <= m /\ n <= Len(w) /\ m <= n + 1
      BY <1>1, <1>6, <1>8
    <3>2. LW!LastN(w) = SubSeq(w, m, n)
      BY <1>6, <1>8, <1>1 DEF LW!LastN
    <3> HIDE DEF m, n
    <3>3. /\ SubSeq(w, m, n) \in Seq(Char)
          /\ Len(SubSeq(w, m, n)) = n - m + 1
          /\ \A i \in 1 .. n - m + 1 : SubSeq(w, m, n)[i] = w[m + i - 1]
      BY <3>1, <1>6, SliceFacts
    <3> QED BY <3>2, <3>3, <1>1 DEF m, n
  <2>3. \A i \in 1 .. N : Window'[i] = w[u + k - N + i]
    <3> SUFFICES ASSUME NEW i \in 1 .. N PROVE Window'[i] = w[u + k - N + i]
      OBVIOUS
    <3>1. w[u + k - N + i] = IF k - N + i <= 0 THEN Window[u + k - N + i] ELSE d[k - N + i]
      <4> DEFINE j == u + k - N + i
      <4>1. j \in 1 .. u + k
        BY <1>1, <1>8
      <4>2. w[j] = IF j <= u THEN Window[j] ELSE d[j - u]
        BY <4>1, <1>6
      <4> QED BY <4>2, <1>1
    <3>2. Window'[i] = IF i <= N - rbuf_head' THEN g_rlog_buf'[rbuf_head' + i - 1]
                       ELSE g_rlog_buf'[i - (N - rbuf_head') - 1]
      BY <2>1, <1>5
    <3>3. CASE h + k <= N
      <4>1. /\ rbuf_head' = h + k
            /\ \A c \in 0 .. N : g_rlog_buf'[c] =
                 IF h <= c /\ c < h + k THEN d[c - h + 1] ELSE g_rlog_buf[c]
        BY <1>2, <3>3, PutCells
      <4>2. rbuf_full = 1 /\ u = N
        BY <1>1, <1>3, <1>8, <3>3
      <4>3. CASE i <= N - (h + k)
        <5>1. Window'[i] = g_rlog_buf[h + k + i - 1]
          <6>1. h + k + i - 1 \in 0 .. N /\ ~(h + k + i - 1 < h + k)
            BY <4>3, <1>1
          <6> QED BY <6>1, <4>1, <4>3, <3>2
        <5>2. Window[k + i] = g_rlog_buf[h + (k + i) - 1]
          BY <4>2, <4>3, <1>1, <1>4
        <5>3. k - N + i <= 0 /\ u + k - N + i = k + i /\ h + k + i - 1 = h + (k + i) - 1
          BY <4>2, <4>3, <1>1
        <5> QED BY <5>1, <5>2, <5>3, <3>1
      <4>4. CASE i > N - (h + k)
        <5> DEFINE c == i - (N - (h + k)) - 1
        <5>1. Window'[i] = g_rlog_buf'[c]
          BY <4>1, <4>4, <3>2, <1>1
        <5>2. c \in 0 .. N /\ c < h + k
          BY <4>4, <3>3, <1>1
        <5>3. CASE h <= c
          <6>1. Window'[i] = d[c - h + 1]
            BY <5>1, <5>2, <5>3, <4>1
          <6>2. ~(k - N + i <= 0) /\ c - h + 1 = k - N + i
            BY <5>3, <1>1
          <6> QED BY <6>1, <6>2, <3>1
        <5>4. CASE c < h
          <6>1. Window'[i] = g_rlog_buf[c]
            BY <5>1, <5>2, <5>4, <4>1, <1>1
          <6>2. k - N + i <= 0 /\ u + k - N + i = k + i /\ k + i \in 1 .. N
            BY <5>4, <4>2, <1>1
          <6>3. Window[k + i] = g_rlog_buf[(k + i) - (N - h) - 1]
            <7>1. ~(k + i <= N - h)
              BY <4>4, <1>1
            <7> QED BY <7>1, <6>2, <4>2, <1>4
          <6>4. (k + i) - (N - h) - 1 = c
            BY <1>1
          <6> QED BY <6>1, <6>2, <6>3, <6>4, <3>1
        <5> QED BY <5>3, <5>4, <5>2, <1>1
      <4> QED BY <4>3, <4>4, <1>1
    <3>4. CASE h + k > N
      <4>1. /\ rbuf_head' = h + k - N
            /\ \A c \in 0 .. N : g_rlog_buf'[c] =
                 IF c < h + k - N THEN d[N - h + c + 1]
                 ELSE IF h <= c /\ c < N THEN d[c - h + 1]
                 ELSE g_rlog_buf[c]
        BY <1>2, <3>4, PutCells
      <4>2. CASE i <= N - (h + k - N)
        <5> DEFINE c == h + k - N + i - 1
        <5>1. c \in 0 .. N - 1 /\ ~(c < h + k - N) /\ Window'[i] = g_rlog_buf'[c]
          <6>1. c \in 0 .. N - 1 /\ ~(c < h + k - N)
            BY <4>2, <3>4, <1>1
          <6>2. i <= N - rbuf_head' /\ rbuf_head' + i - 1 = c
            BY <4>1, <4>2, <1>1
          <6>3. Window'[i] = g_rlog_buf'[rbuf_head' + i - 1]
            BY <6>2, <3>2
          <6> QED BY <6>1, <6>2, <6>3
        <5>2. CASE h <= c
          <6>1. Window'[i] = d[c - h + 1]
            BY <5>1, <5>2, <4>1, <1>1
          <6>2. ~(k - N + i <= 0) /\ c - h + 1 = k - N + i
            BY <5>2, <1>1
          <6> QED BY <6>1, <6>2, <3>1
        <5>3. CASE c < h
          <6>1. Window'[i] = g_rlog_buf[c]
            BY <5>1, <5>3, <4>1, <1>1
          <6>2. k - N + i <= 0
            BY <5>3, <1>1
          <6>3. w[u + k - N + i] = Window[u + k - N + i]
            BY <6>2, <3>1
          <6>4. Window[u + k - N + i] = g_rlog_buf[c]
            <7>1. CASE rbuf_full = 0
              BY <7>1, <6>2, <5>1, <1>1, <1>3, <1>4
            <7>2. CASE rbuf_full = 1
              <8>1. u = N /\ k + i \in 1 .. N
                BY <7>2, <6>2, <1>1, <1>3
              <8>2. Window[k + i] = IF k + i <= N - h THEN g_rlog_buf[h + (k + i) - 1]
                                    ELSE g_rlog_buf[(k + i) - (N - h) - 1]
                BY <8>1, <7>2, <1>4
              <8>3. ~(k + i <= N - h)
                BY <3>4, <1>1
              <8>4. u + k - N + i = k + i /\ (k + i) - (N - h) - 1 = c
                BY <8>1, <1>1
              <8> QED BY <8>2, <8>3, <8>4
            <7> QED BY <7>1, <7>2, <1>1
          <6> QED BY <6>1, <6>3, <6>4
        <5> QED BY <5>1, <5>2, <5>3, <1>1
      <4>3. CASE i > N - (h + k - N)
        <5> DEFINE c == i - (N - (h + k - N)) - 1
        <5>1. c \in 0 .. N /\ c < h + k - N /\ Window'[i] = g_rlog_buf'[c]
          <6>1. c \in 0 .. N /\ c < h + k - N
            BY <4>3, <3>4, <1>1
          <6>2. ~(i <= N - rbuf_head') /\ i - (N - rbuf_head') - 1 = c
            BY <4>1, <4>3, <1>1
          <6>3. Window'[i] = g_rlog_buf'[i - (N - rbuf_head') - 1]
            BY <6>2, <3>2
          <6> QED BY <6>1, <6>2, <6>3
        <5>2. Window'[i] = d[N - h + c + 1]
          BY <5>1, <4>1
        <5>3. ~(k - N + i <= 0) /\ N - h + c + 1 = k - N + i
          BY <4>3, <1>1
        <5> QED BY <5>2, <5>3, <3>1
      <4> QED BY <4>2, <4>3, <1>1
    <3> QED BY <3>3, <3>4, <1>1
  <2>4. Window' = LW!LastN(w)
    <3> DEFINE x == Window'
               y == LW!LastN(w)
    <3>1. x \in Seq(Char) /\ y \in Seq(Char) /\ Len(x) = N /\ Len(y) = N
      BY <2>1, <2>2, <1>5
    <3>2. \A i \in 1 .. N : x[i] = y[i]
      BY <2>2, <2>3
    <3> HIDE DEF x, y
    <3>3. x = y
      BY <3>1, <3>2, SeqEqual
    <3> QED BY <3>3 DEF x, y
  <2> QED BY <2>4 DEF w
<1>9. CASE rbuf_full = 1 /\ u + k <= N
  <2>1. k = 0 /\ u = N
    BY <1>1, <1>3, <1>9
  <2>2. rbuf_full' = 1 /\ rbuf_usedsize' = N
    BY <1>1, <1>2, <1>3, <1>9 DEF rbuf_put_account
  <2>3. /\ rbuf_head' = h
        /\ \A c \in 0 .. N : g_rlog_buf'[c] = g_rlog_buf[c]
    <3>1. h + k <= N /\ TypeOK /\ rbuf_put_copy(d)
      BY <1>1, <1>2, <2>1
    <3>2. /\ rbuf_head' = h + k
          /\ \A i \in 0 .. N : g_rlog_buf'[i] =
               IF h <= i /\ i < h + k THEN d[i - h + 1] ELSE g_rlog_buf[i]
      BY <3>1, PutCells
    <3>3. h + k = h /\ \A i \in 0 .. N : ~(h <= i /\ i < h + k)
      BY <2>1, <1>1
    <3> QED BY <3>2, <3>3
  <2>4. \A i \in 1 .. N : Window'[i] = w[i]
    BY <2>1, <2>2, <2>3, <1>1, <1>4, <1>5, <1>6, <1>9
  <2>5. LW!LastN(w) = w
    BY <1>6, <2>1, <1>1 DEF LW!LastN
  <2>6. Window' = w
    BY <2>1, <2>2, <2>4, <1>1, <1>5, <1>6, SeqEqual
  <2> QED BY <2>5, <2>6 DEF w
<1> QED BY <1>1, <1>3, <1>7, <1>8, <1>9

(* The log's invariant, for every ring size: types, the head inside the     *)
(* ring, the accounting in step with the head (rbuf_put).                   *)
THEOREM RingInvariant == Spec => [](TypeOK /\ RingConsistent)
<1>1. Init => Inv
  BY RingAssumption DEF Init, rbuf_init, Inv, TypeOK, RingConsistent
<1>2. Inv /\ [Next]_vars => Inv'
  <2> SUFFICES ASSUME Inv, [Next]_vars PROVE Inv'
    OBVIOUS
  <2>1. ASSUME NEW n \in 0 .. MaxFmt, NEW msg \in [1 .. n -> Char], rlog_printf2buf(msg)
        PROVE  Inv'
    <3> DEFINE s == IF Len(msg) <= MaxLog THEN msg ELSE SubSeq(msg, 1, MaxLog)
    <3>1. s \in Seq(Char) /\ Len(s) <= N
      BY StoredMessage, RingAssumption
    <3>2. rbuf_put(s) /\ UNCHANGED mshcmd
      BY <2>1 DEF rlog_printf2buf
    <3> HIDE DEF s
    <3> QED BY <3>1, <3>2, PutKeepsInv
  <2>2. CASE udb_debug_msh_cmd_log
    <3>1. mshcmd' \in Seq(Char)
      BY <2>2, WindowCells DEF udb_debug_msh_cmd_log, WindowFacts, Window
    <3> QED BY <2>2, <3>1 DEF udb_debug_msh_cmd_log, Inv, TypeOK, RingConsistent
  <2>3. CASE UNCHANGED vars
    BY <2>3 DEF vars, Inv, TypeOK, RingConsistent
  <2> QED BY <2>1, <2>2, <2>3 DEF Next
<1>3. Inv => TypeOK /\ RingConsistent
  BY DEF Inv
<1> QED BY <1>1, <1>2, <1>3, PTL DEF Spec

(* Types: the head stays inside the ring and the spare byte of the array is *)
(* never written, for every ring size and every message (rbuf_put).         *)
THEOREM RingTypes == Spec => []TypeOK
  BY RingInvariant, PTL

(* The ring of rlog.c implements the sliding window of the last N bytes:    *)
(* `udb msh log` shows exactly the last bytes printed, whatever wrapped.    *)
THEOREM RingImplementsWindow == Spec => ShowsLastBytes
<1>1. Init => LW!Init
  BY RingAssumption DEF Init, rbuf_init, LW!Init, Window, rbuf_get, rlog_size
<1>2. Inv /\ Inv' /\ [Next]_vars => [LW!Next]_<<Window, mshcmd>>
  <2> SUFFICES ASSUME Inv, Inv', [Next]_vars PROVE [LW!Next]_<<Window, mshcmd>>
    OBVIOUS
  <2>1. ASSUME NEW n \in 0 .. MaxFmt, NEW msg \in [1 .. n -> Char], rlog_printf2buf(msg)
        PROVE  LW!Next
    <3> DEFINE s == IF Len(msg) <= MaxLog THEN msg ELSE SubSeq(msg, 1, MaxLog)
    <3>1. s \in Seq(Char) /\ Len(s) \in 0 .. MaxLog /\ Len(s) <= N
      BY StoredMessage, RingAssumption
    <3>2. rbuf_put(s) /\ mshcmd' = mshcmd
      BY <2>1 DEF rlog_printf2buf
    <3> HIDE DEF s
    <3>3. Window' = LW!LastN(Window \o s)
      BY <3>1, <3>2, PutSlidesWindow
    <3>4. s \in [1 .. Len(s) -> Char]
      BY <3>1
    <3> QED BY <3>1, <3>2, <3>3, <3>4 DEF LW!Next, LW!Log
  <2>2. CASE udb_debug_msh_cmd_log
    <3>1. Window' = Window
      BY <2>2 DEF udb_debug_msh_cmd_log, Window, rbuf_get, rlog_size
    <3> QED BY <2>2, <3>1 DEF udb_debug_msh_cmd_log, Window, LW!Next, LW!Show
  <2>3. CASE UNCHANGED vars
    BY <2>3 DEF vars, Window, rbuf_get, rlog_size
  <2> QED BY <2>1, <2>2, <2>3 DEF Next
<1>3. Spec => []Inv
  BY RingInvariant, PTL DEF Inv
<1> QED BY <1>1, <1>2, <1>3, PTL DEF Spec, ShowsLastBytes, LW!Spec
=============================================================================
