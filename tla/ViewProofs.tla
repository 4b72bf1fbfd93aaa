----------------------------- MODULE ViewProofs -----------------------------
(***************************************************************************)
(* For any number of buffers, frames and terminals: the V4L2 buffers never *)
(* get lost or shared, so that a frame is never overwritten while it is    *)
(* read and the stream never stalls for want of a buffer; the bitmap of a  *)
(* depth frame is ordered by depth; the five threads make exactly the      *)
(* picture; the dump file is what the frames, one written over the other,  *)
(* leave; and no row of an earlier picture stays on the screen.            *)
(***************************************************************************)
EXTENDS View, SeqFacts, FiniteSetTheorems

(* The places where the client has a frame in its hands. *)
Working == stage \in {"got", "threads", "draw", "text", "requeue"}

Distinct(s) == \A i, j \in 1..Len(s) : s[i] = s[j] => i = j
Apart(s, t) == \A i \in 1..Len(s), j \in 1..Len(t) : s[i] # t[j]
Absent(b, s) == \A i \in 1..Len(s) : s[i] # b

MemOK ==
    /\ DOMAIN mem = Buffers
    /\ Working => held.buf \in Buffers

(* Over V4L2 no buffer is in two places at once: waiting to be filled,      *)
(* filled, or in the client's hands.                                        *)
OneOwner ==
    opts.drv = "v4l2" =>
        /\ queued \in Seq(Buffers) /\ done \in Seq(Buffers)
        /\ Distinct(queued) /\ Distinct(done) /\ Apart(queued, done)
        /\ Working => Absent(held.buf, queued) /\ Absent(held.buf, done)
        /\ stage = "start" => done = <<>> /\ queued = <<>>

(* No buffer gets lost. *)
Enough ==
    (opts.drv = "v4l2" /\ Streaming) =>
        Len(queued) + Len(done) + (IF Working THEN 1 ELSE 0) >= 2

BufferInv == MemOK /\ OneOwner /\ Enough /\ FrameIntact

-----------------------------------------------------------------------------
(* Taking the first element of a queue without duplicates. *)
LEMMA TakeFirst ==
    ASSUME NEW S, NEW s \in Seq(S), s # <<>>, Distinct(s)
    PROVE  /\ Head(s) \in S /\ Head(s) = s[1]
           /\ Tail(s) \in Seq(S) /\ Len(Tail(s)) = Len(s) - 1
           /\ \A i \in 1..Len(Tail(s)) : Tail(s)[i] = s[i + 1]
           /\ Distinct(Tail(s)) /\ Absent(Head(s), Tail(s))
<1>1. /\ Head(s) \in S /\ Head(s) = s[1]
      /\ Tail(s) \in Seq(S) /\ Len(Tail(s)) = Len(s) - 1
      /\ \A i \in 1..Len(Tail(s)) : Tail(s)[i] = s[i + 1]
  BY HeadTailProperties
<1>2. Len(s) \in Nat /\ Len(s) >= 1
  OBVIOUS
<1>3. Distinct(Tail(s))
  BY <1>1, <1>2 DEF Distinct
<1>4. Absent(Head(s), Tail(s))
  BY <1>1, <1>2 DEF Distinct, Absent
<1> QED
  BY <1>1, <1>3, <1>4

(* Putting at the end of a queue what is not in it. *)
LEMMA PutLast ==
    ASSUME NEW S, NEW s \in Seq(S), NEW b \in S, Distinct(s), Absent(b, s)
    PROVE  /\ Append(s, b) \in Seq(S) /\ Len(Append(s, b)) = Len(s) + 1
           /\ \A i \in 1..Len(Append(s, b)) :
                 Append(s, b)[i] = IF i <= Len(s) THEN s[i] ELSE b
           /\ Distinct(Append(s, b))
<1>1. /\ Append(s, b) \in Seq(S) /\ Len(Append(s, b)) = Len(s) + 1
      /\ \A i \in 1..Len(Append(s, b)) :
            Append(s, b)[i] = IF i <= Len(s) THEN s[i] ELSE b
  BY AppendProperties
<1>2. Len(s) \in Nat
  OBVIOUS
<1>3. Distinct(Append(s, b))
  BY <1>1, <1>2 DEF Distinct, Absent
<1> QED
  BY <1>1, <1>3

LEMMA InitBuffers == Init => BufferInv
<1> SUFFICES ASSUME Init PROVE BufferInv
  OBVIOUS
<1>1. MemOK /\ FrameIntact /\ Enough
  BY DEF Init, MemOK, Working, FrameIntact, Enough, Streaming
<1>2. OneOwner
  BY DEF Init, OneOwner, Working, Distinct, Apart
<1> QED
  BY <1>1, <1>2 DEF BufferInv

(* A step that moves no buffer and leaves the client on the same side. *)
LEMMA KeepBuffers ==
    ASSUME BufferInv, UNCHANGED <<opts, queued, done, held>>,
           DOMAIN mem' = DOMAIN mem,
           stage' = "got" => stage = "got" /\ mem' = mem,
           Working' <=> Working, Streaming' <=> Streaming,
           stage' = "start" => stage = "start"
    PROVE  BufferInv'
<1>1. MemOK'
  BY DEF BufferInv, MemOK
<1>2. OneOwner'
  BY DEF BufferInv, OneOwner, Distinct, Apart, Absent
<1>3. Enough'
  BY DEF BufferInv, Enough
<1>4. FrameIntact'
  BY DEF BufferInv, FrameIntact
<1> QED
  BY <1>1, <1>2, <1>3, <1>4 DEF BufferInv

(* A step that ends the client, or gets it to a sleep without a stream. *)
LEMMA EndBuffers ==
    ASSUME BufferInv, UNCHANGED <<opts, queued, done, mem>>,
           stage' \in Ended \cup {"idle"}
    PROVE  BufferInv'
<1>1. MemOK' /\ Enough' /\ FrameIntact'
  BY DEF BufferInv, MemOK, Enough, FrameIntact, Working, Streaming, Ended
<1>2. OneOwner'
  BY DEF BufferInv, OneOwner, Distinct, Apart, Absent, Working, Ended
<1> QED
  BY <1>1, <1>2 DEF BufferInv

LEMMA StartBuffers ==
    ASSUME BufferInv, v4l2_start \/ libuvc_start \/ not_uvc
    PROVE  BufferInv'
<1>1. CASE stage' \in Ended \cup {"idle"}
  <2>1. UNCHANGED <<opts, queued, done, mem>>
    BY <1>1 DEF v4l2_start, libuvc_start, not_uvc, Idle, Ended
  <2> QED
    BY <1>1, <2>1, EndBuffers
<1>2. CASE stage' = "wait" /\ libuvc_start
  BY <1>2 DEF BufferInv, MemOK, OneOwner, Enough, FrameIntact, Working,
              libuvc_start, Idle
<1>3. CASE stage' = "wait" /\ v4l2_start
  <2>1. PICK n \in Buffers : n >= 2 /\ queued' = [i \in 1..n |-> i]
    BY <1>3, ViewAssumption DEF v4l2_start, Buffers
  <2>2. /\ opts.drv = "v4l2" /\ stage = "start"
        /\ UNCHANGED <<opts, mem, held, done>> /\ done = <<>>
    BY <1>3 DEF v4l2_start, Idle, BufferInv, OneOwner
  <2>3. /\ queued' \in Seq(Buffers) /\ Len(queued') = n
        /\ \A i \in 1..n : queued'[i] = i
    <3>1. n \in Nat /\ \A i \in 1..n : i \in Buffers
      BY ViewAssumption DEF Buffers
    <3> QED
      BY <2>1, <3>1
  <2>4. MemOK' /\ FrameIntact'
    BY <1>3, <2>2 DEF BufferInv, MemOK, FrameIntact, Working
  <2>5. OneOwner'
    <3>1. done' \in Seq(Buffers) /\ Distinct(done') /\ Apart(queued', done')
      BY <2>2 DEF Distinct, Apart
    <3>2. Distinct(queued')
      BY <2>3 DEF Distinct
    <3> QED
      BY <1>3, <2>3, <3>1, <3>2 DEF OneOwner, Distinct, Apart, Working
  <2>6. Enough'
    BY <1>3, <2>1, <2>2, <2>3, ViewAssumption DEF Enough, Working, Buffers
  <2> QED
    BY <2>4, <2>5, <2>6 DEF BufferInv
<1> QED
  BY <1>1, <1>2, <1>3 DEF v4l2_start, libuvc_start, not_uvc, Ended

(* The driver fills the first queued buffer, which is not the one in the    *)
(* client's hands.                                                          *)
LEMMA CameraBuffers ==
    ASSUME BufferInv, CameraFrame
    PROVE  BufferInv'
<1>0. UNCHANGED <<opts, stage, held>>
  BY DEF CameraFrame
<1>1. CASE opts.drv = "v4l2" /\ queued # <<>>
  <2> DEFINE b == Head(queued)
  <2>1. /\ queued \in Seq(Buffers) /\ done \in Seq(Buffers)
        /\ Distinct(queued) /\ Distinct(done) /\ Apart(queued, done)
        /\ Working => Absent(held.buf, queued) /\ Absent(held.buf, done)
        /\ stage # "start"
    BY <1>1 DEF BufferInv, OneOwner
  <2>2. /\ queued' = Tail(queued) /\ done' = Append(done, b)
        /\ mem' = [mem EXCEPT ![b] = [frame |-> seq + 1, px |-> Depths[seq + 1]]]
    BY <1>1 DEF CameraFrame
  <2>3. /\ b \in Buffers /\ b = queued[1] /\ Len(queued) \in Nat /\ Len(queued) >= 1
        /\ queued' \in Seq(Buffers) /\ Len(queued') = Len(queued) - 1
        /\ \A i \in 1..Len(queued') : queued'[i] = queued[i + 1]
        /\ Distinct(queued') /\ Absent(b, queued')
    BY <1>1, <2>1, <2>2, TakeFirst
  <2>4. Absent(b, done) /\ Len(done) \in Nat
    BY <2>1, <2>3 DEF Apart, Absent
  <2>5. /\ done' \in Seq(Buffers) /\ Len(done') = Len(done) + 1
        /\ \A i \in 1..Len(done') : done'[i] = IF i <= Len(done) THEN done[i] ELSE b
        /\ Distinct(done')
    BY <2>1, <2>2, <2>3, <2>4, PutLast
  <2> HIDE DEF b
  <2>6. Apart(queued', done')
    <3> SUFFICES ASSUME NEW i \in 1..Len(queued'), NEW j \in 1..Len(done')
                 PROVE  queued'[i] # done'[j]
      BY DEF Apart
    <3>1. i + 1 \in 1..Len(queued) /\ queued'[i] = queued[i + 1]
      BY <2>3
    <3>2. CASE j <= Len(done)
      <4>1. j \in 1..Len(done) /\ done'[j] = done[j]
        BY <2>4, <2>5, <3>2
      <4> QED
        BY <2>1, <3>1, <4>1 DEF Apart
    <3>3. CASE ~(j <= Len(done))
      <4>1. done'[j] = b
        BY <2>5, <3>3
      <4> QED
        BY <2>3, <4>1 DEF Absent
    <3> QED
      BY <3>2, <3>3
  <2>7. ASSUME Working
        PROVE  Absent(held.buf, queued') /\ Absent(held.buf, done')
    <3>1. Absent(held.buf, queued) /\ Absent(held.buf, done)
      BY <2>1, <2>7
    <3>2. Absent(held.buf, queued')
      BY <2>3, <3>1 DEF Absent
    <3>3. held.buf # b
      BY <2>3, <3>1 DEF Absent
    <3>4. ASSUME NEW j \in 1..Len(done') PROVE done'[j] # held.buf
      BY <2>4, <2>5, <3>1, <3>3 DEF Absent
    <3> QED
      BY <3>2, <3>4 DEF Absent
  <2>8. MemOK' /\ FrameIntact'
    <3>1. Working => held.buf # b
      BY <2>1, <2>3 DEF Absent
    <3> QED
      BY <1>0, <2>2, <3>1 DEF BufferInv, MemOK, FrameIntact, Working
  <2>9. OneOwner'
    BY <1>0, <2>1, <2>3, <2>5, <2>6, <2>7 DEF OneOwner, Working
  <2>10. Enough'
    BY <1>0, <2>3, <2>4, <2>5 DEF BufferInv, Enough, Working, Streaming
  <2> QED
    BY <2>8, <2>9, <2>10 DEF BufferInv
<1>2. CASE opts.drv = "v4l2" /\ queued = <<>>
  <2>1. UNCHANGED <<mem, queued, done>>
    BY <1>2 DEF CameraFrame
  <2> QED
    BY <1>0, <2>1, KeepBuffers DEF Working, Streaming
<1>3. CASE opts.drv = "usbfs"
  BY <1>0, <1>3 DEF CameraFrame, BufferInv, MemOK, OneOwner, Enough, FrameIntact,
                    Working
<1> QED
  BY <1>1, <1>2, <1>3 DEF CameraFrame

LEMMA TakeBuffers ==
    ASSUME BufferInv, v4l2_dqbuf
    PROVE  BufferInv'
<1> DEFINE b == Head(done)
<1>1. /\ queued \in Seq(Buffers) /\ done \in Seq(Buffers)
      /\ Distinct(queued) /\ Distinct(done) /\ Apart(queued, done)
      /\ opts.drv = "v4l2" /\ stage = "wait" /\ done # <<>>
  BY DEF v4l2_dqbuf, BufferInv, OneOwner
<1>2. /\ done' = Tail(done) /\ stage' = "got" /\ UNCHANGED <<opts, mem, queued>>
      /\ held' = [buf |-> b, frame |-> mem[b].frame]
  BY DEF v4l2_dqbuf
<1>3. /\ b \in Buffers /\ b = done[1] /\ Len(done) \in Nat /\ Len(done) >= 1
      /\ done' \in Seq(Buffers) /\ Len(done') = Len(done) - 1
      /\ \A i \in 1..Len(done') : done'[i] = done[i + 1]
      /\ Distinct(done') /\ Absent(b, done')
  BY <1>1, <1>2, TakeFirst
<1>4. Absent(b, queued)
  BY <1>1, <1>3 DEF Apart, Absent
<1>5. Apart(queued, done') /\ Len(queued) \in Nat
  BY <1>1, <1>3 DEF Apart
<1>6. MemOK' /\ FrameIntact'
  BY <1>2, <1>3 DEF BufferInv, MemOK, FrameIntact, Working
<1>7. OneOwner'
  BY <1>1, <1>2, <1>3, <1>4, <1>5 DEF OneOwner, Working
<1>8. Enough'
  BY <1>1, <1>2, <1>3, <1>5 DEF BufferInv, Enough, Working, Streaming, Ended
<1> QED
  BY <1>6, <1>7, <1>8 DEF BufferInv

LEMMA GiveBackBuffers ==
    ASSUME BufferInv, frame_end
    PROVE  BufferInv'
<1>0. stage = "requeue" /\ UNCHANGED <<opts, mem, done>> /\ Working
  BY DEF frame_end, Working
<1>1. CASE opts.drv = "v4l2" /\ stage' = "wait"
  <2>1. /\ queued \in Seq(Buffers) /\ done \in Seq(Buffers)
        /\ Distinct(queued) /\ Distinct(done) /\ Apart(queued, done)
        /\ Absent(held.buf, queued) /\ Absent(held.buf, done)
        /\ held.buf \in Buffers
    BY <1>0, <1>1 DEF BufferInv, OneOwner, MemOK
  <2>2. queued' = Append(queued, held.buf)
    BY <1>1 DEF frame_end
  <2>3. /\ queued' \in Seq(Buffers) /\ Len(queued') = Len(queued) + 1
        /\ \A i \in 1..Len(queued') :
              queued'[i] = IF i <= Len(queued) THEN queued[i] ELSE held.buf
        /\ Distinct(queued')
    BY <2>1, <2>2, PutLast
  <2>4. Len(queued) \in Nat /\ Len(done) \in Nat
    BY <2>1
  <2>5. Apart(queued', done)
    BY <2>1, <2>3, <2>4 DEF Apart, Absent
  <2>6. MemOK' /\ FrameIntact'
    BY <1>0, <1>1 DEF BufferInv, MemOK, FrameIntact, Working
  <2>7. OneOwner'
    BY <1>0, <1>1, <2>1, <2>3, <2>5 DEF OneOwner, Working
  <2>8. Enough'
    BY <1>0, <1>1, <2>3, <2>4 DEF BufferInv, Enough, Working, Streaming, Ended
  <2> QED
    BY <2>6, <2>7, <2>8 DEF BufferInv
<1>2. CASE opts.drv = "v4l2" /\ stage' = "exit"
  <2>1. UNCHANGED queued
    BY <1>2 DEF frame_end
  <2> QED
    BY <1>0, <1>2, <2>1, EndBuffers DEF Ended
<1>3. CASE opts.drv = "usbfs"
  BY <1>0, <1>3 DEF frame_end, BufferInv, MemOK, OneOwner, Enough, FrameIntact,
                    Working
<1> QED
  BY <1>1, <1>2, <1>3 DEF frame_end

LEMMA CallbackBuffers ==
    ASSUME BufferInv, libuvc_cb
    PROVE  BufferInv'
<1>1. 1 \in Buffers
  BY ViewAssumption DEF Buffers
<1>2. MemOK' /\ FrameIntact'
  BY <1>1 DEF libuvc_cb, BufferInv, MemOK, FrameIntact, Working
<1>3. OneOwner' /\ Enough'
  BY DEF libuvc_cb, OneOwner, Enough
<1> QED
  BY <1>2, <1>3 DEF BufferInv

(* The steps between taking and giving back. *)
LEMMA WorkBuffers ==
    ASSUME BufferInv,
           \/ dump_frame \/ print_img \/ join \/ draw \/ view_text
           \/ \E n \in 0..(THREAD_NUM - 1) : trans_to_chardata(n)
    PROVE  BufferInv'
<1>1. /\ UNCHANGED <<opts, queued, done, held>>
      /\ Working /\ Working' /\ Streaming /\ Streaming'
      /\ stage' # "got" /\ stage' # "start"
  BY DEF dump_frame, print_img, join, draw, view_text, trans_to_chardata,
         Working, Streaming, Ended
<1>2. DOMAIN mem' = DOMAIN mem
  BY DEF dump_frame, print_img, join, draw, view_text, trans_to_chardata
<1> QED
  BY <1>1, <1>2, KeepBuffers

LEMMA StepBuffers == BufferInv /\ [Next]_vars => BufferInv'
<1> SUFFICES ASSUME BufferInv, [Next]_vars PROVE BufferInv'
  OBVIOUS
<1>1. CASE not_uvc \/ v4l2_start \/ libuvc_start
  BY <1>1, StartBuffers
<1>2. CASE v4l2_dqbuf
  BY <1>2, TakeBuffers
<1>3. CASE v4l2_dqbuf_fails
  BY <1>3, EndBuffers DEF v4l2_dqbuf_fails, Idle, Ended
<1>4. CASE libuvc_cb
  BY <1>4, CallbackBuffers
<1>5. CASE frame_end
  BY <1>5, GiveBackBuffers
<1>6. CASE \/ dump_frame \/ print_img \/ join \/ draw \/ view_text
           \/ \E n \in 0..(THREAD_NUM - 1) : trans_to_chardata(n)
  BY <1>6, WorkBuffers
<1>7. CASE CameraFrame
  BY <1>7, CameraBuffers
<1>8. CASE Unplug \/ ResizeTerminal
  BY <1>8, KeepBuffers DEF Unplug, ResizeTerminal, Working, Streaming
<1>9. CASE UNCHANGED vars
  BY <1>9, KeepBuffers DEF vars, Working, Streaming
<1> QED
  BY <1>1, <1>2, <1>3, <1>4, <1>5, <1>6, <1>7, <1>8, <1>9 DEF Next, Client

LEMMA BuffersSuffice == BufferInv => FrameIntact /\ NeverStarved
<1> SUFFICES ASSUME BufferInv PROVE FrameIntact /\ NeverStarved
  OBVIOUS
<1>1. ASSUME stage = "wait", opts.drv = "v4l2" PROVE queued # <<>> \/ done # <<>>
  <2>1. Len(queued) + Len(done) >= 2
    BY <1>1 DEF BufferInv, Enough, Streaming, Working, Ended
  <2> QED
    BY <2>1
<1> QED
  BY <1>1 DEF BufferInv, NeverStarved

(* v4l2_read_frame hands no buffer back before it has been processed, and   *)
(* hands every one back: the frame that v4l2_process_buffer or libuvc_cb    *)
(* reads is the one that was taken, for any number of buffers, frames and   *)
(* terminal sizes.                                                          *)
THEOREM FrameStaysIntact == Spec => []FrameIntact
<1>1. Init => BufferInv
  BY InitBuffers
<1>2. BufferInv /\ [Next]_vars => BufferInv'
  BY StepBuffers
<1>3. BufferInv => FrameIntact
  BY BuffersSuffice
<1> QED
  BY <1>1, <1>2, <1>3, PTL DEF Spec

(* The loop of v4l2_cap_loop loses no buffer: whenever it waits for a frame *)
(* the driver has a buffer, for any number of buffers the driver granted.   *)
THEOREM StreamNeverStarved == Spec => []NeverStarved
<1>1. Init => BufferInv
  BY InitBuffers
<1>2. BufferInv /\ [Next]_vars => BufferInv'
  BY StepBuffers
<1>3. BufferInv => NeverStarved
  BY BuffersSuffice
<1> QED
  BY <1>1, <1>2, <1>3, PTL DEF Spec
-----------------------------------------------------------------------------
(* The pixels.                                                              *)

(* The share of one thread when the rows of cells divide by five. *)
LEMMA ShareFacts ==
    ASSUME NEW w \in Nat, NEW h \in Nat, h % THREAD_NUM = 0
    PROVE  \E k \in Nat : /\ h = 5 * k /\ (w * h) \div THREAD_NUM = w * k
                          /\ (w * 4 * h * 8) \div THREAD_NUM = 32 * (w * k)
                          /\ ((h * 8) \div THREAD_NUM + 7) \div 8 = k
<1>1. PICK k \in Nat : h = 5 * k
  BY DEF THREAD_NUM
<1>2. PICK m \in Nat : m = w * k
  OBVIOUS
<1>3. w * h = 5 * m /\ w * 4 * h * 8 = 5 * (32 * m) /\ h * 8 = 5 * (8 * k)
  BY <1>1, <1>2
<1>4. (5 * m) \div 5 = m /\ (5 * (32 * m)) \div 5 = 32 * m
  OBVIOUS
<1>5. ((5 * (8 * k)) \div 5 + 7) \div 8 = k
  OBVIOUS
<1> QED BY <1>1, <1>2, <1>3, <1>4, <1>5 DEF THREAD_NUM

(* The first pixel of the tile of cell i; the same counted by thread n from *)
(* its own first cell and pixel, with k rows for each thread.               *)
Exact(i, w) == (i \div w) * 8 * (w * 4) + 4 * (i % w)
FirstOf(w, k, n) == (w * k) * n
InStrip(i, w, k, n) == (32 * (w * k)) * n + TileOffset(i - (w * k) * n, w * 4)

(* Thread n's tiles are the picture's.                                      *)
LEMMA StripExact ==
    ASSUME NEW w \in Nat \ {0}, NEW k \in Nat, NEW n \in Nat,
           NEW i \in Int, i >= FirstOf(w, k, n)
    PROVE  InStrip(i, w, k, n) = Exact(i, w)
<1>1. PICK m \in Nat : m = (w * k) * n
  OBVIOUS
<1>2. (w * 4) \div 4 = w
  OBVIOUS
<1>3. PICK q \in Int, r \in 0 .. w - 1 :
         /\ i - m = w * q + r /\ q = (i - m) \div w /\ r = (i - m) % w
  <2>1. i - m \in Int
    OBVIOUS
  <2> QED BY <2>1, DivFacts
<1>4. i = w * (k * n + q) + r
  <2>1. w * (k * n + q) = m + w * q
    BY <1>1
  <2>2. PICK u \in Int : u = w * q
    OBVIOUS
  <2>3. PICK v : v = w * (k * n + q)
    OBVIOUS
  <2>4. i - m = u + r /\ v = m + u
    BY <1>3, <2>1, <2>2, <2>3
  <2>5. i = v + r
    BY <2>4
  <2> QED BY <2>3, <2>5
<1>5. i \div w = k * n + q /\ i % w = r
  <2>1. k * n + q \in Int
    OBVIOUS
  <2> QED BY <1>4, <2>1, DivUnique
<1>6. TileOffset(i - m, w * 4) = q * 8 * (w * 4) + 4 * r
  BY <1>2, <1>3 DEF TileOffset
<1>7. (32 * (w * k)) * n + (q * 8 * (w * 4) + 4 * r) = (k * n + q) * 8 * (w * 4) + 4 * r
  <2>1. (k * n + q) * 8 * (w * 4) = (32 * (w * k)) * n + q * 8 * (w * 4)
    OBVIOUS
  <2>2. PICK u \in Int, v \in Int : u = (32 * (w * k)) * n /\ v = q * 8 * (w * 4)
    OBVIOUS
  <2> QED BY <2>1, <2>2
<1>8. InStrip(i, w, k, n) = (32 * (w * k)) * n + (q * 8 * (w * 4) + 4 * r)
  BY <1>1, <1>6 DEF InStrip
<1>9. Exact(i, w) = (k * n + q) * 8 * (w * 4) + 4 * r
  BY <1>5 DEF Exact
<1> QED BY <1>7, <1>8, <1>9

LEMMA PixelsAreNat == Pixel \subseteq Nat
  BY DEF Pixel

(* Brightness falls with the number of pixels as near or nearer. *)
LEMMA BrightnessFacts ==
    ASSUME NEW n \in Nat \ {0}, NEW g \in 1 .. n
    PROVE  /\ (256 * (n - g)) \div n \in 0 .. 255
           /\ \A h \in g .. n : (256 * (n - h)) \div n <= (256 * (n - g)) \div n
<1>1. ASSUME NEW h \in g .. n PROVE (256 * (n - h)) \div n <= (256 * (n - g)) \div n
  <2>1. 256 * (n - h) \in Int /\ 256 * (n - g) \in Int /\ 256 * (n - h) <= 256 * (n - g)
    OBVIOUS
  <2> QED BY <2>1, DivOrder
<1>2. PICK q \in Int, r \in 0 .. n - 1 : 256 * (n - g) = n * q + r /\ q = (256 * (n - g)) \div n
  <2>1. 256 * (n - g) \in Int
    OBVIOUS
  <2> QED BY <2>1, DivFacts
<1>3. q >= 0
  <2>1. SUFFICES ASSUME q <= -1 PROVE FALSE
    OBVIOUS
  <2>2. n * q <= n * (-1) /\ n * (-1) = -n
    BY <2>1, ProductOrder
  <2>3. PICK u \in Int : u = n * q
    OBVIOUS
  <2> QED BY <1>2, <2>2, <2>3
<1>4. q <= 255
  <2>1. SUFFICES ASSUME 256 <= q PROVE FALSE
    OBVIOUS
  <2>2. n * 256 <= n * q
    BY <2>1, ProductOrder
  <2>3. PICK u \in Int : u = n * q
    OBVIOUS
  <2> QED BY <1>2, <2>2, <2>3
<1> QED BY <1>1, <1>2, <1>3, <1>4

(* What depth2bmp_hist makes of a frame. *)
LEMMA BitmapFacts ==
    ASSUME NEW raw \in Seq(Nat), NEW bmp1, bmp1 = depth2bmp_hist(Shift(raw))
    PROVE  /\ DOMAIN bmp1 = DOMAIN raw
           /\ \A p, q \in DOMAIN bmp1 :
                /\ bmp1[p] \in 0 .. 255
                /\ (raw[p] < 8 => bmp1[p] = 0)
                /\ (raw[p] >= 8 /\ raw[p] <= raw[q] => bmp1[p] >= bmp1[q])
                /\ (raw[p] \div 8 = raw[q] \div 8 => bmp1[p] = bmp1[q])
<1> DEFINE D == DOMAIN raw
           px == Shift(raw)
           P == {p \in D : px[p] # 0}
           B(v) == {p \in D : px[p] # 0 /\ px[p] <= v}
           points == Cardinality(P)
<1>1. /\ D = 1 .. Len(raw) /\ Len(raw) \in Nat /\ DOMAIN px = D
      /\ \A p \in D : raw[p] \in Nat /\ px[p] = raw[p] \div 8
  BY DEF Shift
<1>2. \A p \in D : px[p] \in Nat /\ (px[p] = 0 <=> raw[p] < 8)
  BY <1>1
<1>3. IsFiniteSet(P) /\ points \in Nat
  <2>1. IsFiniteSet(D)
    BY <1>1, FS_Interval
  <2>2. P \in SUBSET D
    OBVIOUS
  <2> QED BY <2>1, <2>2, FS_Subset, FS_CardinalityType
<1>4. \A v : B(v) \in SUBSET P /\ IsFiniteSet(B(v)) /\ Cardinality(B(v)) \in Nat
             /\ Cardinality(B(v)) <= points
  BY <1>3, FS_Subset, FS_CardinalityType
<1>5. \A p \in P : Cardinality(B(px[p])) \in 1 .. points /\ points \in Nat \ {0}
  <2>1. TAKE p \in P
  <2>2. p \in B(px[p])
    BY <1>2
  <2>3. Cardinality(B(px[p])) # 0
    BY <1>4, <2>2, FS_EmptySet
  <2>4. PICK x \in Nat : x = Cardinality(B(px[p]))
    BY <1>4
  <2>5. x <= points
    BY <1>4, <2>4
  <2> QED BY <1>3, <2>3, <2>4, <2>5
<1>6. /\ DOMAIN bmp1 = D
      /\ \A p \in D : px[p] = 0 => bmp1[p] = 0
      /\ \A p \in D : px[p] # 0 =>
            bmp1[p] = (256 * (points - Cardinality(B(px[p])))) \div points
  BY <1>1 DEF depth2bmp_hist, histgram
<1>11. \A p \in D : p \in P <=> px[p] # 0
  OBVIOUS
<1> HIDE DEF D, px, P, B, points
<1>7. \A p \in D : bmp1[p] \in 0 .. 255
  <2>1. TAKE p \in D
  <2>2. CASE p \in P
    <3>1. PICK g \in 1 .. points : g = Cardinality(B(px[p]))
      BY <1>5, <2>2
    <3>2. (256 * (points - g)) \div points \in 0 .. 255
      <4>1. points \in Nat \ {0}
        BY <1>5, <2>2
      <4> QED BY <4>1, BrightnessFacts, Zenon
    <3>3. bmp1[p] = (256 * (points - g)) \div points
      BY <1>6, <1>11, <2>2, <3>1
    <3> QED BY <3>2, <3>3
  <2>3. CASE p \notin P
    <3>1. bmp1[p] = 0
      BY <1>6, <1>11, <2>3
    <3>2. 0 \in 0 .. 255
      OBVIOUS
    <3> QED BY <3>1, <3>2, Zenon
  <2> QED BY <2>2, <2>3
<1>8. \A p \in D : raw[p] < 8 => bmp1[p] = 0
  BY <1>2, <1>6
<1>9. ASSUME NEW p \in D, NEW q \in D, raw[p] >= 8, raw[p] <= raw[q] PROVE bmp1[p] >= bmp1[q]
  <2>1. p \in P /\ q \in P
    BY <1>1, <1>2, <1>11, <1>9
  <2>2. px[p] <= px[q]
    BY <1>1, <1>9, DivOrder
  <2>3. B(px[p]) \in SUBSET B(px[q])
    BY <1>2, <2>2 DEF B
  <2>4. Cardinality(B(px[p])) <= Cardinality(B(px[q]))
    BY <1>4, <2>3, FS_Subset
  <2>5. PICK g \in 1 .. points : g = Cardinality(B(px[p]))
    BY <1>5, <2>1
  <2>6. PICK h \in 1 .. points : h = Cardinality(B(px[q]))
    BY <1>5, <2>1
  <2>7. h \in g .. points /\ points \in Nat \ {0}
    BY <1>5, <2>1, <2>4, <2>5, <2>6
  <2>8. (256 * (points - h)) \div points <= (256 * (points - g)) \div points
    BY <2>7, BrightnessFacts
  <2>9. /\ bmp1[p] = (256 * (points - g)) \div points
        /\ bmp1[q] = (256 * (points - h)) \div points
    BY <1>6, <1>11, <2>1, <2>5, <2>6
  <2>10. PICK x \in 0 .. 255, y \in 0 .. 255 : x = bmp1[p] /\ y = bmp1[q]
    BY <1>7, Zenon
  <2> QED BY <2>8, <2>9, <2>10
<1>10. ASSUME NEW p \in D, NEW q \in D, raw[p] \div 8 = raw[q] \div 8 PROVE bmp1[p] = bmp1[q]
  <2>1. px[p] = px[q]
    BY <1>1, <1>10
  <2> QED BY <1>6, <2>1
<1> QED BY <1>6, <1>7, <1>8, <1>9, <1>10 DEF D

(* The buffers that wait to be taken and the one just taken hold the pixels *)
(* the camera sent; the bitmap is made from those of the frame in hand.     *)
Sent(m, b) == \E f \in Frames : m[b].frame = f /\ m[b].px = Depths[f]
CountInv == seq \in 0..MaxFrame /\ term \in Terms /\ taken \in Seq(Frames)
FilledInv ==
    /\ (opts.drv = "v4l2" => \A i \in 1..Len(done) : Sent(mem, done[i]))
    /\ (opts.drv = "usbfs" => done \in Seq(Frames))
    /\ (Working => held.frame \in Frames)
    /\ (stage = "got" => mem[held.buf].px = Depths[held.frame])
BitmapInv ==
    bmp # <<>> => /\ stage \in {"threads", "draw", "text", "requeue"}
                  /\ bmp = depth2bmp_hist(Shift(Depths[held.frame]))
PixelInv == CountInv /\ FilledInv /\ BitmapInv

LEMMA PixelStart ==
    ASSUME PixelInv, v4l2_start \/ libuvc_start \/ not_uvc \/ v4l2_dqbuf_fails
    PROVE  PixelInv'
<1>1. /\ stage \in {"start", "wait"} /\ stage' \in {"return", "exit", "wait", "crash", "idle"}
      /\ UNCHANGED <<opts, mem, done, held, bmp, seq, taken, term>>
  BY DEF v4l2_start, libuvc_start, not_uvc, v4l2_dqbuf_fails, Idle, cameraVars, termVars, drawVars
<1> QED BY <1>1 DEF PixelInv, CountInv, FilledInv, BitmapInv, Working, Sent

LEMMA PixelCamera ==
    ASSUME BufferInv, PixelInv, CameraFrame
    PROVE  PixelInv'
<1>0. /\ UNCHANGED <<opts, stage, held, bmp, taken, term>> /\ seq' = seq + 1 /\ seq < MaxFrame
      /\ seq \in 0..MaxFrame /\ MaxFrame \in Nat
  BY ViewAssumption DEF CameraFrame, termVars, drawVars, PixelInv, CountInv
<1>1. CountInv' /\ seq + 1 \in Frames
  BY <1>0 DEF PixelInv, CountInv, Frames
<1>2. BitmapInv'
  BY <1>0 DEF PixelInv, BitmapInv
<1>3. CASE opts.drv = "v4l2" /\ queued # <<>>
  <2>1. /\ queued \in Seq(Buffers) /\ done \in Seq(Buffers) /\ Apart(queued, done)
        /\ (Working => held.buf \in Buffers /\ Absent(held.buf, queued)) /\ DOMAIN mem = Buffers
    BY <1>3 DEF BufferInv, OneOwner, MemOK
  <2>2. PICK b \in Buffers : b = Head(queued) /\ b = queued[1] /\ 1 \in 1..Len(queued)
    BY <1>3, <2>1, TailFacts
  <2>3. /\ done' = Append(done, b)
        /\ mem' = [mem EXCEPT ![b] = [frame |-> seq + 1, px |-> Depths[seq + 1]]]
    BY <1>3, <2>2 DEF CameraFrame
  <2>4. /\ Len(done') = Len(done) + 1 /\ Len(done) \in Nat /\ done'[Len(done) + 1] = b
        /\ \A i \in 1..Len(done) : done'[i] = done[i]
    BY <2>1, <2>3, AppendFacts
  <2>5. Sent(mem', b)
    BY <1>1, <2>1, <2>3 DEF Sent
  <2>6. ASSUME NEW i \in 1..Len(done) PROVE Sent(mem', done[i])
    <3>1. done[i] # b /\ done[i] \in Buffers
      BY <2>1, <2>2 DEF Apart
    <3>2. Sent(mem, done[i])
      BY <1>3 DEF PixelInv, FilledInv
    <3> QED BY <2>1, <2>3, <3>1, <3>2 DEF Sent
  <2>7. \A i \in 1..Len(done') : Sent(mem', done'[i])
    BY <2>4, <2>5, <2>6
  <2>8. stage = "got" => mem'[held.buf] = mem[held.buf]
    BY <2>1, <2>2, <2>3 DEF Working, Absent
  <2>9. FilledInv'
    BY <1>0, <1>3, <2>7, <2>8 DEF PixelInv, FilledInv, Working
  <2> QED BY <1>1, <1>2, <2>9 DEF PixelInv
<1>4. CASE opts.drv = "v4l2" /\ queued = <<>>
  <2>1. UNCHANGED <<mem, done>>
    BY <1>4 DEF CameraFrame
  <2> QED BY <1>0, <1>1, <1>2, <2>1 DEF PixelInv, FilledInv, Working
<1>5. CASE opts.drv = "usbfs"
  <2>1. UNCHANGED mem /\ done' = <<seq + 1>>
    BY <1>5 DEF CameraFrame
  <2>2. done' \in Seq(Frames)
    BY <1>1, <2>1
  <2> QED BY <1>0, <1>1, <1>2, <1>5, <2>1, <2>2 DEF PixelInv, FilledInv, Working
<1> QED BY <1>3, <1>4, <1>5 DEF CameraFrame

LEMMA PixelTake ==
    ASSUME BufferInv, PixelInv, v4l2_dqbuf \/ libuvc_cb
    PROVE  PixelInv'
<1>0. /\ UNCHANGED <<opts, bmp, taken, term, seq>> /\ stage' = "got" /\ stage = "wait"
      /\ done # <<>>
  BY DEF v4l2_dqbuf, libuvc_cb, cameraVars, termVars, drawVars
<1>1. CountInv' /\ BitmapInv'
  BY <1>0 DEF PixelInv, CountInv, BitmapInv
<1>2. CASE v4l2_dqbuf
  <2>1. /\ done \in Seq(Buffers) /\ done' = Tail(done) /\ mem' = mem /\ opts.drv = "v4l2"
        /\ held' = [buf |-> Head(done), frame |-> mem[Head(done)].frame]
    BY <1>2 DEF v4l2_dqbuf, BufferInv, OneOwner
  <2>2. /\ Head(done) = done[1] /\ Len(done) \in Nat \ {0} /\ Len(done') = Len(done) - 1
        /\ \A i \in 1..Len(done') : i + 1 \in 1..Len(done) /\ done'[i] = done[i + 1]
    BY <1>0, <2>1, TailFacts
  <2>3. \A i \in 1..Len(done) : Sent(mem, done[i])
    BY <2>1 DEF PixelInv, FilledInv
  <2>4. \A i \in 1..Len(done') : Sent(mem', done'[i])
    BY <2>1, <2>2, <2>3
  <2>5. Sent(mem, Head(done))
    BY <2>2, <2>3
  <2>6. held'.frame \in Frames /\ mem'[held'.buf].px = Depths[held'.frame]
    BY <2>1, <2>5 DEF Sent
  <2>7. FilledInv'
    BY <1>0, <2>1, <2>4, <2>6 DEF FilledInv
  <2> QED BY <1>1, <2>7 DEF PixelInv
<1>3. CASE libuvc_cb
  <2>1. /\ done \in Seq(Frames) /\ done' = <<>> /\ opts.drv = "usbfs"
        /\ mem' = [mem EXCEPT ![1] = [frame |-> done[1], px |-> Depths[done[1]]]]
        /\ held' = [buf |-> 1, frame |-> done[1]]
        /\ DOMAIN mem = Buffers /\ 1 \in Buffers
    BY <1>3, ViewAssumption DEF libuvc_cb, PixelInv, FilledInv, BufferInv, MemOK, Buffers
  <2>2. done[1] \in Frames /\ done' \in Seq(Frames)
    BY <1>0, <2>1, TailFacts
  <2>3. held'.frame \in Frames /\ mem'[held'.buf].px = Depths[held'.frame]
    BY <2>1, <2>2
  <2>4. FilledInv'
    BY <1>0, <2>1, <2>2, <2>3 DEF FilledInv
  <2> QED BY <1>1, <2>4 DEF PixelInv
<1> QED BY <1>2, <1>3

LEMMA PixelWork ==
    ASSUME BufferInv, PixelInv,
           \/ dump_frame \/ print_img \/ join \/ draw \/ view_text \/ frame_end
           \/ \E n \in 0..(THREAD_NUM - 1) : trans_to_chardata(n)
    PROVE  PixelInv'
<1>0. /\ UNCHANGED <<opts, done, seq, term>> /\ Working /\ stage' # "got"
      /\ held.frame \in Frames /\ taken \in Seq(Frames) /\ term \in Terms /\ seq \in 0..MaxFrame
  BY DEF dump_frame, print_img, join, draw, view_text, frame_end, trans_to_chardata, cameraVars,
         termVars, Working, PixelInv, FilledInv, CountInv
<1>1. CountInv'
  <2>1. taken' = taken \/ taken' = Append(taken, held.frame)
    BY DEF dump_frame, print_img, join, draw, view_text, frame_end, trans_to_chardata
  <2>2. taken' \in Seq(Frames)
    BY <1>0, <2>1, AppendFacts
  <2> QED BY <1>0, <2>2 DEF CountInv
<1>2. Working' => held' = held
  BY DEF dump_frame, print_img, join, draw, view_text, frame_end, trans_to_chardata, Working
<1>3. BitmapInv'
  <2>1. CASE print_img
    <3>1. /\ stage' \in {"threads", "draw", "text", "requeue"} /\ held' = held /\ stage = "got"
          /\ bmp' = bmp \/ bmp' = depth2bmp_hist(Shift(mem[held.buf].px))
      BY <2>1 DEF print_img
    <3>2. mem[held.buf].px = Depths[held.frame]
      BY <3>1 DEF PixelInv, FilledInv
    <3> QED BY <3>1, <3>2 DEF PixelInv, BitmapInv
  <2>2. CASE frame_end
    BY <2>2 DEF frame_end, BitmapInv
  <2>3. CASE ~print_img /\ ~frame_end
    <3>1. bmp' = bmp /\ held' = held /\ stage' \in {"threads", "draw", "text", "requeue"}
      BY <2>3 DEF dump_frame, join, draw, view_text, trans_to_chardata, drawVars
    <3> QED BY <3>1 DEF PixelInv, BitmapInv
  <2> QED BY <2>1, <2>2, <2>3
<1>4. mem' = mem \/ mem' = [mem EXCEPT ![held.buf].px = Shift(@)]
  BY DEF dump_frame, print_img, join, draw, view_text, frame_end, trans_to_chardata
<1>5. ASSUME opts.drv = "v4l2", NEW i \in 1..Len(done) PROVE Sent(mem', done[i])
  <2>1. /\ done \in Seq(Buffers) /\ Absent(held.buf, done) /\ DOMAIN mem = Buffers
        /\ Sent(mem, done[i])
    BY <1>0, <1>5 DEF BufferInv, OneOwner, MemOK, PixelInv, FilledInv
  <2>2. done[i] # held.buf /\ done[i] \in Buffers
    BY <2>1 DEF Absent
  <2>3. mem'[done[i]] = mem[done[i]]
    BY <1>4, <2>1, <2>2
  <2> QED BY <2>1, <2>3 DEF Sent
<1>6. FilledInv'
  BY <1>0, <1>2, <1>5 DEF PixelInv, FilledInv
<1> QED BY <1>1, <1>3, <1>6 DEF PixelInv

LEMMA PixelStep == BufferInv /\ PixelInv /\ [Next]_vars => PixelInv'
<1> SUFFICES ASSUME BufferInv, PixelInv, [Next]_vars PROVE PixelInv'
  OBVIOUS
<1>1. CASE not_uvc \/ v4l2_start \/ libuvc_start \/ v4l2_dqbuf_fails
  BY <1>1, PixelStart
<1>2. CASE v4l2_dqbuf \/ libuvc_cb
  BY <1>2, PixelTake
<1>3. CASE \/ dump_frame \/ print_img \/ join \/ draw \/ view_text \/ frame_end
           \/ \E n \in 0..(THREAD_NUM - 1) : trans_to_chardata(n)
  BY <1>3, PixelWork
<1>4. CASE CameraFrame
  BY <1>4, PixelCamera
<1>5. CASE Unplug \/ ResizeTerminal \/ UNCHANGED vars
  <2>1. UNCHANGED <<opts, stage, mem, done, held, bmp, seq, taken>> /\ (term' = term \/ term' \in Terms)
    BY <1>5 DEF Unplug, ResizeTerminal, vars, cameraVars, termVars, drawVars
  <2> QED BY <2>1 DEF PixelInv, CountInv, FilledInv, BitmapInv, Working
<1> QED
  BY <1>1, <1>2, <1>3, <1>4, <1>5 DEF Next, Client

LEMMA InitPixels == Init => PixelInv
<1> SUFFICES ASSUME Init PROVE PixelInv
  OBVIOUS
<1>1. /\ seq = 0 /\ term \in Terms /\ taken = <<>> /\ done = <<>> /\ stage = "start" /\ bmp = <<>>
      /\ 0 \in 0..MaxFrame
  BY ViewAssumption DEF Init
<1>2. <<>> \in Seq(Frames) /\ 1..Len(<<>>) = {}
  OBVIOUS
<1> QED BY <1>1, <1>2 DEF PixelInv, CountInv, FilledInv, BitmapInv, Working

(* depth2bmp_hist of any depth frame: nearer is never darker, equal depths   *)
(* are equally bright, no depth is black, every value fits a byte.  That the *)
(* pixels are those of the frame that was taken needs the owners of the      *)
(* buffers: the bitmap is made in place, with its pixels shifted, in a       *)
(* buffer that the driver fills again.                                       *)
THEOREM BitmapIsOrdered == Spec => []NearerIsBrighter
<1>1. Init => BufferInv /\ PixelInv
  BY InitBuffers, InitPixels
<1>2. BufferInv /\ PixelInv /\ [Next]_vars => (BufferInv /\ PixelInv)'
  BY StepBuffers, PixelStep
<1>3. BufferInv /\ PixelInv => NearerIsBrighter
  <2> SUFFICES ASSUME PixelInv, bmp # <<>> PROVE NearerIsBrighter
    BY DEF NearerIsBrighter
  <2>1. held.frame \in Frames /\ bmp = depth2bmp_hist(Shift(Depths[held.frame]))
    BY DEF PixelInv, FilledInv, BitmapInv, Working
  <2>2. Depths[held.frame] \in Seq(Pixel)
    <3>1. Depths \in Seq(Seq(Pixel)) /\ Len(Depths) >= MaxFrame /\ MaxFrame \in Nat
      BY ViewAssumption, FrameAssumption
    <3>2. PICK f \in Frames : f = held.frame
      BY <2>1
    <3>3. f \in 1..Len(Depths)
      BY <3>1 DEF Frames
    <3>4. Depths[f] \in Seq(Pixel)
      BY <3>1, <3>3, ElementOfSeq
    <3> QED BY <3>2, <3>4
  <2>3. Depths[held.frame] \in Seq(Nat)
    <3>1. PICK s \in Seq(Pixel) : s = Depths[held.frame]
      BY <2>2
    <3>2. Len(s) \in Nat /\ s \in [1..Len(s) -> Pixel]
      BY LenProperties
    <3>3. Pixel \subseteq Nat
      BY PixelsAreNat
    <3>4. s \in Seq(Nat)
      <4>1. \A i \in 1..Len(s) : s[i] \in Nat
        BY <3>2, <3>3
      <4>2. s = [i \in 1..Len(s) |-> s[i]]
        BY <3>2
      <4>3. [i \in 1..Len(s) |-> s[i]] \in Seq(Nat)
        BY <3>2, <4>1
      <4> QED BY <4>2, <4>3
    <3> QED BY <3>1, <3>4
  <2>4. PICK raw \in Seq(Nat) : raw = Depths[held.frame]
    BY <2>3
  <2>b. PICK b : b = bmp
    OBVIOUS
  <2>5. \A p, q \in DOMAIN b :
           /\ b[p] \in 0 .. 255
           /\ (raw[p] < 8 => b[p] = 0)
           /\ (raw[p] >= 8 /\ raw[p] <= raw[q] => b[p] >= b[q])
           /\ (raw[p] \div 8 = raw[q] \div 8 => b[p] = b[q])
    <3>1. b = depth2bmp_hist(Shift(raw))
      BY <2>1, <2>4, <2>b
    <3> QED BY <3>1, BitmapFacts
  <2> QED BY <2>4, <2>b, <2>5, Zenon DEF NearerIsBrighter
<1> QED
  BY <1>1, <1>2, <1>3, PTL DEF Spec
-----------------------------------------------------------------------------
(* The threads.                                                             *)

Threads == 0..(THREAD_NUM - 1)

(* The cells thread n makes. *)
FirstCell(n) == ((pic.w * pic.h) \div THREAD_NUM) * n
Strip(n) == FirstCell(n)..(FirstCell(n) + pic.w * StripRows - 1)

PicTypes ==
    /\ pic = [w |-> pic.w, h |-> pic.h, cells |-> pic.cells, ended |-> pic.ended,
              over |-> pic.over, shown |-> pic.shown]
    /\ pic.w \in Nat \ {0} /\ pic.h \in Nat
    /\ DOMAIN pic.cells = 0..(pic.w * pic.h - 1)
    /\ pic.ended \subseteq Threads

(* What the threads that have ended made is right, whatever the others do.  *)
StripsExact ==
    pic.h % THREAD_NUM = 0 =>
        /\ pic.over = FALSE
        /\ \A n \in pic.ended : \A i \in Strip(n) : pic.cells[i] = Exact(i, pic.w)

PicInv ==
    stage \in {"threads", "draw"} =>
        /\ PicTypes /\ StripsExact
        /\ (stage = "draw" /\ ~opts.compat => pic.ended = Threads)

LEMMA NewPicExact ==
    ASSUME CountInv, print_img
    PROVE  PicInv'
<1>1. SUFFICES ASSUME stage' \in {"threads", "draw"} PROVE PicInv'
  BY DEF PicInv
<1>2. /\ pic' = NewPic /\ opts' = opts
      /\ stage' = IF opts.compat THEN "draw" ELSE "threads"
  BY <1>1 DEF print_img
<1>3. CellSize[1] \in Nat \ {0} /\ CellSize[2] \in Nat
  <2>1. CASE opts.resize
    <3>1. IdealSize[term] \in (Nat \ {0}) \X (Nat \ {0})
      BY RoomAssumption DEF CountInv
    <3> QED BY <2>1, <3>1 DEF CellSize
  <2>2. CASE ~opts.resize
    <3>1. Width \div 4 \in Nat \ {0} /\ Height \div 8 \in Nat
      BY ViewAssumption DEF THREAD_NUM
    <3> QED BY <2>2, <3>1 DEF CellSize
  <2> QED BY <2>1, <2>2
<1>4. /\ pic'.w = CellSize[1] /\ pic'.h = CellSize[2] /\ pic'.ended = {} /\ pic'.over = FALSE
      /\ pic'.cells = [i \in 0..(pic'.w * pic'.h - 1) |-> -1]
      /\ pic' = [w |-> pic'.w, h |-> pic'.h, cells |-> pic'.cells, ended |-> pic'.ended,
                 over |-> pic'.over, shown |-> pic'.shown]
  BY <1>2 DEF NewPic
<1>5. PicTypes'
  BY <1>3, <1>4 DEF PicTypes
<1>6. StripsExact'
  BY <1>4 DEF StripsExact
<1> QED BY <1>2, <1>5, <1>6 DEF PicInv

LEMMA ThreadExact ==
    ASSUME PicInv, NEW n \in Threads, trans_to_chardata(n)
    PROVE  PicInv'
<1>0. stage = "threads" /\ stage' = "threads" /\ PicTypes /\ StripsExact
  BY DEF trans_to_chardata, PicInv
<1>1. PICK w \in Nat \ {0}, h \in Nat : w = pic.w /\ h = pic.h
  BY <1>0 DEF PicTypes
<1>2. /\ pic'.w = w /\ pic'.h = h /\ pic'.ended = pic.ended \cup {n}
      /\ pic'.over = (pic.over \/ FirstCell(n) + w * StripRows > w * h)
      /\ DOMAIN pic'.cells = DOMAIN pic.cells
      /\ \A i \in DOMAIN pic.cells : pic'.cells[i] =
            IF i \in Strip(n)
            THEN ((w * 4 * h * 8) \div THREAD_NUM) * n + TileOffset(i - FirstCell(n), w * 4)
            ELSE pic.cells[i]
      /\ pic' = [w |-> pic'.w, h |-> pic'.h, cells |-> pic'.cells, ended |-> pic'.ended,
                 over |-> pic'.over, shown |-> pic'.shown]
  BY <1>0, <1>1 DEF trans_to_chardata, PicTypes, FirstCell, Strip
<1>3. PicTypes'
  BY <1>0, <1>1, <1>2 DEF PicTypes
<1>4. ASSUME h % THREAD_NUM = 0
      PROVE  pic'.over = FALSE /\ \A m \in pic'.ended : \A i \in Strip(m)' : pic'.cells[i] = Exact(i, w)
  <2>1. PICK k \in Nat : /\ h = 5 * k /\ (w * h) \div THREAD_NUM = w * k
                         /\ (w * 4 * h * 8) \div THREAD_NUM = 32 * (w * k)
                         /\ ((h * 8) \div THREAD_NUM + 7) \div 8 = k
    BY <1>4, ShareFacts
  <2>2. PICK s \in Nat : s = w * k
    OBVIOUS
  <2>3. StripRows = k /\ StripRows' = k /\ w * h = 5 * s
    BY <1>1, <1>2, <2>1, <2>2 DEF StripRows
  <2>4. \A m \in Threads : FirstCell(m) = s * m /\ Strip(m) = (s * m)..(s * m + s - 1)
                           /\ Strip(m)' = (s * m)..(s * m + s - 1)
    BY <1>1, <1>2, <2>1, <2>2, <2>3 DEF FirstCell, Strip
  <2>5. pic'.over = FALSE
    <3>1. n \in Nat /\ n <= 4
      BY DEF Threads, THREAD_NUM
    <3>2. s * n <= s * 4
      BY <3>1, ProductOrder
    <3>3. PICK u \in Nat : u = s * n
      BY <3>1
    <3>4. ~(s * n + s > 5 * s)
      BY <3>2, <3>3
    <3>5. pic.over = FALSE /\ FirstCell(n) = s * n /\ w * StripRows = s
      BY <1>0, <1>1, <1>4, <2>2, <2>3, <2>4 DEF StripsExact
    <3>6. ~(FirstCell(n) + w * StripRows > w * h)
      BY <2>3, <3>4, <3>5
    <3> QED BY <1>2, <3>5, <3>6
  <2>6. ASSUME NEW m \in pic'.ended, NEW i \in (s * m)..(s * m + s - 1)
        PROVE  pic'.cells[i] = Exact(i, w)
    <3>0. m \in Threads
      BY <1>2, <1>0 DEF PicTypes
    <3>1. m \in Threads /\ m \in Nat /\ m <= 4 /\ n \in Nat
      BY <3>0 DEF Threads, THREAD_NUM
    <3>2. i \in DOMAIN pic.cells
      <4>1. s * m <= s * 4
        BY <3>1, ProductOrder
      <4>2. PICK u \in Nat : u = s * m
        BY <3>1
      <4>3. i \in 0..(5 * s - 1)
        BY <4>1, <4>2
      <4> QED BY <1>0, <1>1, <2>3, <4>3 DEF PicTypes
    <3>3. CASE i \in Strip(n)
      <4>1. i \in (s * n)..(s * n + s - 1) /\ FirstCell(n) = s * n
        BY <2>4, <3>3
      <4>2. pic'.cells[i] = (32 * (w * k)) * n + TileOffset(i - (w * k) * n, w * 4)
        BY <1>2, <2>1, <2>2, <3>2, <3>3, <4>1
      <4>3. i \in Int /\ i >= (w * k) * n
        <5>1. PICK u \in Nat : u = s * n
          BY <3>1
        <5>2. i \in Int /\ i >= u
          BY <4>1, <5>1
        <5> QED BY <2>2, <5>1, <5>2
      <4>4. InStrip(i, w, k, n) = Exact(i, w)
        <5>1. w \in Nat \ {0} /\ k \in Nat /\ n \in Nat
          BY <3>1
        <5>2. i \in Int
          BY <4>3
        <5>3. i >= FirstOf(w, k, n)
          BY <4>3 DEF FirstOf
        <5> QED BY <5>1, <5>2, <5>3, StripExact
      <4> QED BY <4>2, <4>4 DEF InStrip
    <3>4. CASE i \notin Strip(n)
      <4>1. m # n
        BY <2>4, <3>1, <3>4
      <4>2. m \in pic.ended /\ i \in Strip(m)
        BY <1>2, <2>4, <3>1, <4>1
      <4>3. pic.cells[i] = Exact(i, w)
        BY <1>0, <1>1, <1>4, <4>2 DEF StripsExact
      <4> QED BY <1>2, <3>2, <3>4, <4>3
    <3> QED BY <3>3, <3>4
  <2>7. ASSUME NEW m \in pic'.ended PROVE m \in Threads
    BY <1>0, <1>2 DEF PicTypes
  <2> QED BY <2>4, <2>5, <2>6, <2>7
<1>5. StripsExact'
  BY <1>2, <1>4 DEF StripsExact
<1> QED BY <1>0, <1>3, <1>5 DEF PicInv

LEMMA PicStep == CountInv /\ PicInv /\ [Next]_vars => PicInv'
<1> SUFFICES ASSUME CountInv, PicInv, [Next]_vars PROVE PicInv'
  OBVIOUS
<1>1. CASE print_img
  BY <1>1, NewPicExact
<1>2. CASE \E n \in 0..(THREAD_NUM - 1) : trans_to_chardata(n)
  BY <1>2, ThreadExact DEF Threads
<1>3. CASE join
  <2>1. UNCHANGED <<pic, opts>> /\ stage = "threads" /\ pic.ended = Threads
    BY <1>3 DEF join, drawVars, Threads
  <2> QED BY <2>1 DEF PicInv, PicTypes, StripsExact, Strip, FirstCell, StripRows
<1>4. CASE \/ not_uvc \/ v4l2_start \/ libuvc_start \/ v4l2_dqbuf \/ v4l2_dqbuf_fails \/ libuvc_cb
           \/ frame_end \/ dump_frame \/ draw \/ view_text
  <2>1. stage' \notin {"threads", "draw"}
    BY <1>4 DEF not_uvc, v4l2_start, libuvc_start, v4l2_dqbuf, v4l2_dqbuf_fails, libuvc_cb,
                frame_end, dump_frame, draw, view_text
  <2> QED BY <2>1 DEF PicInv
<1>5. CASE CameraFrame \/ Unplug \/ ResizeTerminal \/ UNCHANGED vars
  <2>1. UNCHANGED <<pic, stage, opts>>
    BY <1>5 DEF CameraFrame, Unplug, ResizeTerminal, vars, drawVars
  <2> QED BY <2>1 DEF PicInv, PicTypes, StripsExact, Strip, FirstCell, StripRows
<1> QED BY <1>1, <1>2, <1>3, <1>4, <1>5 DEF Next, Client

(* print_raw_img's shares for its five threads, two divisions that round     *)
(* down and one that rounds up, cover a picture exactly when its rows of     *)
(* cells divide by five: for every such width and height, in whatever order  *)
(* the threads run, each cell is made from its own tile and none is written  *)
(* outside.                                                                  *)
THEOREM ThreadsMakePicture == Spec => []PictureExact
<1>1. Init => BufferInv /\ PixelInv /\ PicInv
  BY InitBuffers, InitPixels DEF Init, PicInv
<1>2. BufferInv /\ PixelInv /\ PicInv /\ [Next]_vars => (BufferInv /\ PixelInv /\ PicInv)'
  BY StepBuffers, PixelStep, PicStep DEF PixelInv
<1>3. PicInv => PictureExact
  <2> SUFFICES ASSUME PicInv, stage = "draw", ~opts.compat, pic.h % THREAD_NUM = 0
               PROVE  ~pic.over /\ \A i \in DOMAIN pic.cells : pic.cells[i] = Exact(i, pic.w)
    BY DEF PictureExact, Exact
  <2>0. PicTypes /\ StripsExact /\ pic.ended = Threads
    BY DEF PicInv
  <2>1. PICK w \in Nat \ {0}, h \in Nat : w = pic.w /\ h = pic.h
    BY <2>0 DEF PicTypes
  <2>2. PICK k \in Nat : /\ h = 5 * k /\ (w * h) \div THREAD_NUM = w * k
                         /\ (w * 4 * h * 8) \div THREAD_NUM = 32 * (w * k)
                         /\ ((h * 8) \div THREAD_NUM + 7) \div 8 = k
    <3>1. h % THREAD_NUM = 0 /\ w \in Nat
      BY <2>1
    <3> QED BY <3>1, ShareFacts
  <2>3. PICK s \in Nat : s = w * k
    OBVIOUS
  <2>4. StripRows = k /\ w * h = 5 * s
    BY <2>1, <2>2, <2>3 DEF StripRows
  <2>5. \A m \in Threads : Strip(m) = (s * m)..(s * m + s - 1)
    BY <2>1, <2>2, <2>3, <2>4 DEF FirstCell, Strip
  <2>6. ASSUME NEW i \in DOMAIN pic.cells PROVE \E m \in Threads : i \in Strip(m)
    <3>1. i \in 0..(5 * s - 1)
      BY <2>0, <2>1, <2>4 DEF PicTypes
    <3>2. \E m \in {0, 1, 2, 3, 4} : i \in (s * m)..(s * m + s - 1)
      BY <3>1
    <3>3. {0, 1, 2, 3, 4} \subseteq Threads
      BY DEF Threads, THREAD_NUM
    <3>4. PICK m \in {0, 1, 2, 3, 4} : i \in (s * m)..(s * m + s - 1)
      BY <3>2
    <3>5. m \in Threads /\ i \in Strip(m)
      BY <2>5, <3>3, <3>4, Zenon
    <3> QED BY <3>5
  <2> QED BY <2>0, <2>6 DEF StripsExact
<1> QED
  BY <1>1, <1>2, <1>3, PTL DEF Spec
-----------------------------------------------------------------------------
(* The dump file.  Byte i was written by the last of the frames w whose      *)
(* length L reaches it, and the file is as long as the longest of them.      *)

Layers(d, w, L) ==
    /\ \A k \in 1..Len(w) : L[w[k]] <= Len(d)
    /\ \A i \in 1..Len(d) : \E k \in 1..Len(w) :
          /\ L[w[k]] >= i /\ d[i] = w[k]
          /\ \A j \in 1..Len(w) : j > k => L[w[j]] < i

Lengths == [f \in Frames |-> Length(f)]

(* Writing a frame over the start of the file adds a layer. *)
LEMMA OneMoreLayer ==
    ASSUME NEW L \in [Frames -> Nat], NEW w \in Seq(Frames), NEW d \in Seq(Frames),
           NEW f \in Frames, Layers(d, w, L), NEW e \in Seq(Frames),
           L[f] <= Len(e), Len(d) <= Len(e), Len(e) = L[f] \/ Len(e) = Len(d),
           \A i \in 1..Len(e) : e[i] = IF i <= L[f] THEN f ELSE d[i]
    PROVE  Layers(e, Append(w, f), L)
<1>1. PICK n \in Nat, size \in Nat, m \in Nat : n = Len(d) /\ size = L[f] /\ m = Len(e)
  OBVIOUS
<1>2. /\ n <= m /\ size <= m /\ \A i \in 1..m : i > size => i \in 1..n
      /\ \A i \in 1..m : e[i] = IF i <= size THEN f ELSE d[i]
  BY <1>1
<1>5. PICK a \in Seq(Frames) : a = Append(w, f)
  BY AppendFacts
<1>6. /\ Len(a) = Len(w) + 1 /\ a[Len(w) + 1] = f /\ Len(w) \in Nat
      /\ \A k \in 1..Len(w) : a[k] = w[k]
      /\ \A j \in 1..Len(a) : j = Len(w) + 1 \/ j \in 1..Len(w)
  BY <1>5, AppendFacts
<1>7. ASSUME NEW k \in 1..Len(a) PROVE L[a[k]] <= m
  <2>1. CASE k = Len(w) + 1
    BY <1>1, <1>2, <1>6, <2>1
  <2>2. CASE k \in 1..Len(w)
    <3>1. a[k] = w[k] /\ L[w[k]] <= n /\ w[k] \in Frames
      BY <1>1, <1>6, <2>2, ElementOfSeq DEF Layers
    <3>2. L[w[k]] \in Nat
      BY <3>1
    <3> QED BY <1>2, <3>1, <3>2
  <2> QED BY <1>6, <2>1, <2>2
<1>8. ASSUME NEW i \in 1..m
      PROVE  \E k \in 1..Len(a) : /\ L[a[k]] >= i /\ e[i] = a[k]
                                  /\ \A j \in 1..Len(a) : j > k => L[a[j]] < i
  <2>1. CASE i <= size
    <3>1. Len(w) + 1 \in 1..Len(a) /\ e[i] = f /\ L[f] >= i
      BY <1>1, <1>2, <1>6, <2>1
    <3>2. \A j \in 1..Len(a) : ~(j > Len(w) + 1)
      BY <1>6
    <3> QED BY <1>6, <3>1, <3>2
  <2>2. CASE ~(i <= size)
    <3>1. i \in 1..n /\ e[i] = d[i] /\ L[f] < i
      BY <1>1, <1>2, <2>2
    <3>2. PICK k \in 1..Len(w) : /\ L[w[k]] >= i /\ d[i] = w[k]
                                 /\ \A j \in 1..Len(w) : j > k => L[w[j]] < i
      BY <1>1, <3>1 DEF Layers
    <3>3. k \in 1..Len(a) /\ a[k] = w[k]
      BY <1>6
    <3>4. ASSUME NEW j \in 1..Len(a), j > k PROVE L[a[j]] < i
      <4>1. CASE j = Len(w) + 1
        BY <1>6, <3>1, <4>1
      <4>2. CASE j \in 1..Len(w)
        BY <1>6, <3>2, <3>4, <4>2
      <4> QED BY <1>6, <4>1, <4>2
    <3> QED BY <3>1, <3>2, <3>3, <3>4
  <2> QED BY <2>1, <2>2
<1>9. Layers(e, a, L)
  <2>1. \A k \in 1..Len(a) : L[a[k]] <= Len(e)
    BY <1>1, <1>7
  <2>2. \A i \in 1..Len(e) : \E k \in 1..Len(a) :
           /\ L[a[k]] >= i /\ e[i] = a[k]
           /\ \A j \in 1..Len(a) : j > k => L[a[j]] < i
    BY <1>1, <1>8
  <2> QED BY <2>1, <2>2 DEF Layers
<1> QED BY <1>5, <1>9

(* capture is never where only view goes; the file has one layer for each    *)
(* frame taken and, between its write and the end of its handling, one for   *)
(* the frame in the client's hands.                                          *)
DumpInv ==
    opts.cmd = "capture" =>
        /\ stage \notin {"threads", "draw", "text"}
        /\ opts.dump =>
              /\ dump \in Seq(Frames)
              /\ Layers(dump, IF stage = "requeue" THEN Append(taken, held.frame)
                              ELSE taken, Lengths)

LEMMA LengthsAreNat == Lengths \in [Frames -> Nat]
<1> SUFFICES ASSUME NEW f \in Frames PROVE Length(f) \in Nat
  BY DEF Lengths
<1>1. MjpegLengths \in Seq(Nat) /\ Len(MjpegLengths) >= MaxFrame /\ MaxFrame \in Nat /\ YuyvLength \in Nat
  BY ViewAssumption, FrameAssumption
<1>2. f \in 1..Len(MjpegLengths)
  BY <1>1 DEF Frames
<1>3. MjpegLengths[f] \in Nat
  BY <1>1, <1>2, ElementOfSeq
<1> QED BY <1>1, <1>3 DEF Length

LEMMA DumpStep == BufferInv /\ PixelInv /\ DumpInv /\ [Next]_vars => DumpInv'
<1> SUFFICES ASSUME BufferInv, PixelInv, DumpInv, [Next]_vars PROVE DumpInv'
  OBVIOUS
<1>1. CASE dump_frame
  <2>1. /\ stage = "got" /\ stage' = "requeue" /\ UNCHANGED <<opts, taken, held>>
        /\ opts.cmd = "capture"
        /\ (opts.dump => dump' = [i \in 1..(IF Length(held.frame) > Len(dump) THEN Length(held.frame)
                                            ELSE Len(dump)) |->
                             IF i <= Length(held.frame) THEN mem[held.buf].frame ELSE dump[i]])
    BY <1>1 DEF dump_frame
  <2>2. held.frame \in Frames /\ mem[held.buf].frame = held.frame /\ taken \in Seq(Frames)
    BY <2>1 DEF BufferInv, FrameIntact, PixelInv, FilledInv, CountInv, Working
  <2>3. Length(held.frame) = Lengths[held.frame] /\ Lengths' = Lengths
    BY <2>1, <2>2 DEF Lengths, Length
  <2>4. ASSUME opts.dump PROVE dump' \in Seq(Frames) /\ Layers(dump', Append(taken, held.frame), Lengths)
    <3>1. dump \in Seq(Frames) /\ Layers(dump, taken, Lengths)
      BY <2>1, <2>4 DEF DumpInv
    <3>2. dump' = [i \in 1..(IF Lengths[held.frame] > Len(dump) THEN Lengths[held.frame]
                             ELSE Len(dump)) |->
                      IF i <= Lengths[held.frame] THEN held.frame ELSE dump[i]]
      BY <2>1, <2>2, <2>3, <2>4
    <3>3. PICK L \in [Frames -> Nat], f \in Frames, d \in Seq(Frames), w \in Seq(Frames) :
             L = Lengths /\ f = held.frame /\ d = dump /\ w = taken
      BY <2>2, <3>1, LengthsAreNat
    <3>e. PICK e : e = dump'
      OBVIOUS
    <3>4. PICK m \in Nat : m = IF L[f] > Len(d) THEN L[f] ELSE Len(d)
      OBVIOUS
    <3>5. e = [i \in 1..m |-> IF i <= L[f] THEN f ELSE d[i]]
      BY <3>2, <3>3, <3>4, <3>e
    <3>6. \A i \in 1..m : (IF i <= L[f] THEN f ELSE d[i]) \in Frames
      BY <3>4
    <3>7. e \in [1..m -> Frames]
      BY <3>5, <3>6
    <3>8. e \in Seq(Frames) /\ Len(e) = m
      BY <3>7, FunctionIsSeq
    <3>9. /\ L[f] <= Len(e) /\ Len(d) <= Len(e) /\ (Len(e) = L[f] \/ Len(e) = Len(d))
          /\ \A i \in 1..Len(e) : e[i] = IF i <= L[f] THEN f ELSE d[i]
      BY <3>4, <3>5, <3>8
    <3>10. Layers(d, w, L)
      BY <3>1, <3>3
    <3>11. Layers(e, Append(w, f), L)
      BY <3>8, <3>9, <3>10, OneMoreLayer
    <3> QED BY <3>3, <3>8, <3>11, <3>e
  <2> QED BY <2>1, <2>3, <2>4 DEF DumpInv
<1>2. CASE frame_end
  <2>1. /\ stage = "requeue" /\ stage' \in {"wait", "exit"} /\ taken' = Append(taken, held.frame)
        /\ UNCHANGED <<opts, dump>>
    BY <1>2 DEF frame_end
  <2>2. Lengths' = Lengths
    BY <2>1 DEF Lengths, Length
  <2> QED BY <2>1, <2>2 DEF DumpInv
<1>3. CASE not_uvc \/ v4l2_start \/ libuvc_start \/ v4l2_dqbuf \/ v4l2_dqbuf_fails \/ libuvc_cb
  <2>1. /\ stage \in {"start", "wait"} /\ stage' \notin {"threads", "draw", "text", "requeue"}
        /\ UNCHANGED <<opts, dump, taken>>
    BY <1>3 DEF not_uvc, v4l2_start, libuvc_start, v4l2_dqbuf, v4l2_dqbuf_fails, libuvc_cb, Idle
  <2>2. Lengths' = Lengths
    BY <2>1 DEF Lengths, Length
  <2> QED BY <2>1, <2>2 DEF DumpInv
<1>4. CASE print_img \/ join \/ draw \/ view_text \/ \E n \in 0..(THREAD_NUM - 1) : trans_to_chardata(n)
  <2>1. (opts.cmd = "view" \/ stage \in {"threads", "draw", "text"}) /\ UNCHANGED opts
    BY <1>4 DEF print_img, join, draw, view_text, trans_to_chardata
  <2> QED BY <2>1 DEF DumpInv
<1>5. CASE CameraFrame \/ Unplug \/ ResizeTerminal \/ UNCHANGED vars
  <2>1. UNCHANGED <<opts, stage, dump, taken, held>>
    BY <1>5 DEF CameraFrame, Unplug, ResizeTerminal, vars
  <2>2. Lengths' = Lengths
    BY <2>1 DEF Lengths, Length
  <2> QED BY <2>1, <2>2 DEF DumpInv
<1> QED BY <1>1, <1>2, <1>3, <1>4, <1>5 DEF Next, Client

(* The dump file of `capture -d`, whatever the lengths of the frames and     *)
(* however the driver fills its buffers meanwhile: each byte is of the last  *)
(* frame long enough to reach it, so the file begins with the whole latest   *)
(* frame, and YUYV frames leave exactly the latest one.                      *)
THEOREM DumpIsLayered == Spec => []DumpLayers
<1>1. Init => BufferInv /\ PixelInv /\ DumpInv
  <2>1. Init => DumpInv
    <3> SUFFICES ASSUME Init PROVE DumpInv
      OBVIOUS
    <3>1. stage = "start" /\ dump = <<>> /\ taken = <<>>
      BY DEF Init
    <3>2. <<>> \in Seq(Frames) /\ 1..Len(<<>>) = {}
      OBVIOUS
    <3> QED BY <3>1, <3>2 DEF DumpInv, Layers
  <2> QED BY <2>1, InitBuffers, InitPixels
<1>2. BufferInv /\ PixelInv /\ DumpInv /\ [Next]_vars => (BufferInv /\ PixelInv /\ DumpInv)'
  BY StepBuffers, PixelStep, DumpStep
<1>3. PixelInv /\ DumpInv => DumpLayers
  <2> SUFFICES ASSUME PixelInv, DumpInv, stage = "wait", opts.cmd = "capture", opts.dump, taken # <<>>
               PROVE  /\ \A k \in DOMAIN taken : Len(dump) >= Length(taken[k])
                      /\ \A i \in DOMAIN dump : \E k \in DOMAIN taken : Length(taken[k]) >= i
                      /\ \A i \in DOMAIN dump : dump[i] = LastReaching(i)
                      /\ ~opts.mjpeg => dump = [i \in 1..YuyvLength |-> taken[Len(taken)]]
    BY DEF DumpLayers
  <2>1. /\ taken \in Seq(Frames) /\ dump \in Seq(Frames) /\ Layers(dump, taken, Lengths)
        /\ DOMAIN taken = 1..Len(taken) /\ DOMAIN dump = 1..Len(dump)
    BY DEF PixelInv, CountInv, DumpInv
  <2>2. /\ Len(taken) \in Nat /\ Len(taken) >= 1 /\ Len(dump) \in Nat
        /\ \A k \in 1..Len(taken) : taken[k] \in Frames
    BY <2>1
  <2>3. \A k \in 1..Len(taken) : Lengths[taken[k]] = Length(taken[k]) /\ Length(taken[k]) \in Nat
    BY <2>2, LengthsAreNat DEF Lengths
  <2>4. \A k \in 1..Len(taken) : Length(taken[k]) <= Len(dump)
    BY <2>1, <2>3 DEF Layers
  <2>5. \A i \in 1..Len(dump) : \E k \in 1..Len(taken) :
           /\ Length(taken[k]) >= i /\ dump[i] = taken[k]
           /\ \A j \in 1..Len(taken) : j > k => Length(taken[j]) < i
    <3> SUFFICES ASSUME NEW i \in 1..Len(dump)
                 PROVE  \E k \in 1..Len(taken) :
                           /\ Length(taken[k]) >= i /\ dump[i] = taken[k]
                           /\ \A j \in 1..Len(taken) : j > k => Length(taken[j]) < i
      OBVIOUS
    <3>1. PICK k \in 1..Len(taken) :
             /\ Lengths[taken[k]] >= i /\ dump[i] = taken[k]
             /\ \A j \in 1..Len(taken) : j > k => Lengths[taken[j]] < i
      BY <2>1 DEF Layers
    <3>2. \A j \in 1..Len(taken) : j > k => Length(taken[j]) < i
      BY <2>3, <3>1
    <3>3. Length(taken[k]) >= i
      BY <2>3, <3>1
    <3> QED BY <3>1, <3>2, <3>3
  <2>6. ASSUME NEW i \in 1..Len(dump) PROVE dump[i] = LastReaching(i)
    <3> DEFINE long == {k \in DOMAIN taken : Length(taken[k]) >= i}
               Last(k) == k \in long /\ \A j \in long : j <= k
    <3>1. PICK k \in 1..Len(taken) :
             /\ Length(taken[k]) >= i /\ dump[i] = taken[k]
             /\ \A j \in 1..Len(taken) : j > k => Length(taken[j]) < i
      BY <2>5
    <3>2. long \subseteq Nat /\ k \in long
      BY <2>1, <2>2, <3>1
    <3>3. ASSUME NEW j \in long PROVE j <= k
      BY <2>1, <2>2, <2>3, <3>1
    <3>4. PICK c : c = CHOOSE x \in long : \A j \in long : j <= x
      OBVIOUS
    <3>5. c \in long /\ \A j \in long : j <= c
      <4> HIDE DEF long
      <4> QED BY <3>2, <3>3, <3>4
    <3>6. c = k
      BY <3>2, <3>3, <3>5
    <3> QED BY <3>1, <3>4, <3>6 DEF LastReaching
  <2>7. ASSUME ~opts.mjpeg PROVE dump = [i \in 1..YuyvLength |-> taken[Len(taken)]]
    <3>1. YuyvLength \in Nat /\ \A k \in 1..Len(taken) : Length(taken[k]) = YuyvLength
      BY <2>7, ViewAssumption DEF Length
    <3>2. YuyvLength <= Len(dump)
      BY <2>2, <2>4, <3>1
    <3>3. ASSUME NEW i \in 1..Len(dump) PROVE i <= YuyvLength /\ dump[i] = taken[Len(taken)]
      <4>1. PICK k \in 1..Len(taken) :
               /\ Length(taken[k]) >= i /\ dump[i] = taken[k]
               /\ \A j \in 1..Len(taken) : j > k => Length(taken[j]) < i
        BY <2>5
      <4>2. i <= YuyvLength
        BY <3>1, <4>1
      <4>3. k = Len(taken)
        BY <2>2, <3>1, <4>1, <4>2
      <4> QED BY <4>1, <4>2, <4>3
    <3>4. Len(dump) = YuyvLength
      BY <2>2, <3>1, <3>2, <3>3
    <3> QED BY <2>1, <3>3, <3>4
  <2> QED BY <2>1, <2>2, <2>3, <2>4, <2>5, <2>6, <2>7
<1> QED
  BY <1>1, <1>2, <1>3, PTL DEF Spec
-----------------------------------------------------------------------------
(* The screen. *)

(* The size of the pictures drawn since print_img last found a new size, and *)
(* the rows that one takes on terminal t.                                    *)
PicSize == IF opts.resize THEN last_calc ELSE <<Width \div 4, Height \div 8>>
RowsOn(t) == PicSize[2] * ((PicSize[1] + t[1] - 1) \div t[1])

(* Screens of R rows; what n lines of x make of one: the other rows have     *)
(* moved up, or kept their place if the lines were put at the top.           *)
Screens(R) == [rows : [1..R -> Nat], cur : 1..R]
Risen(s, u, x, R) ==
    \A i \in 1..R : u.rows[i] # 0 /\ u.rows[i] # x => \E j \in 1..R : i <= j /\ u.rows[i] = s.rows[j]
OnTop(s, u, x, n, R) ==
    \A i \in 1..R : u.rows[i] # 0 => \/ u.rows[i] = x /\ i <= n
                                     \/ u.rows[i] = s.rows[i] /\ i > n

ScreenTypes ==
    /\ screen \in Screens(term[2])
    /\ term \in Terms /\ last_calc \in Nat \X Nat
    /\ (pic.shown => stage \in {"text", "requeue"})

(* Without -b a picture is drawn from the first row on. *)
Drawing ==
    stage \in {"threads", "draw"} =>
        pic.w = PicSize[1] /\ pic.h = PicSize[2] /\ (~opts.batch => screen.cur = 1)

(* Only the rows that a picture takes show one, ... *)
InPicture ==
    \A i \in 1..term[2] : screen.rows[i] # 0 =>
        drawnOn # {} /\ \A t \in Terms : drawnOn = {t} => i <= RowsOn(t)

(* ... and once the frame is drawn, this one. *)
OneFrame ==
    pic.shown => \A t \in Terms : drawnOn = {t} =>
                    \A i \in 1..term[2] : screen.rows[i] \in {0, held.frame}

ScreenInv == ScreenTypes /\ Drawing /\ (~opts.batch => InPicture /\ OneFrame)

(* A picture takes a number of rows. *)
LEMMA RowsType ==
    ASSUME last_calc \in Nat \X Nat, NEW t \in Terms
    PROVE  PicSize \in Nat \X Nat /\ RowsOn(t) \in Nat
<1>1. PicSize \in Nat \X Nat
  <2>1. Width \div 4 \in Nat /\ Height \div 8 \in Nat
    BY ViewAssumption
  <2> QED BY <2>1 DEF PicSize
<1>2. PICK w \in Nat, h \in Nat : w = PicSize[1] /\ h = PicSize[2]
  BY <1>1
<1>3. PICK c \in Nat \ {0} : c = t[1]
  BY RoomAssumption
<1>4. PICK q \in Nat : q = (w + c - 1) \div c
  <2>1. w + c - 1 \in Nat
    OBVIOUS
  <2>2. (w + c - 1) \div c \in Nat
    BY <2>1
  <2> QED BY <2>2
<1>5. h * q \in Nat
  OBVIOUS
<1> QED BY <1>1, <1>2, <1>3, <1>4, <1>5 DEF RowsOn

LEMMA PutFacts ==
    ASSUME NEW R \in Nat \ {0}, NEW s \in Screens(R), NEW x \in Nat, NEW n \in Nat
    PROVE  /\ PutLines(s, x, n) \in Screens(R) /\ Risen(s, PutLines(s, x, n), x, R)
           /\ (s.cur = 1 => OnTop(s, PutLines(s, x, n), x, n, R))
<1>1. PICK rows \in [1..R -> Nat], cur \in 1..R : rows = s.rows /\ cur = s.cur
  BY DEF Screens
<1>2. Len(s.rows) = R
  BY <1>1, FunctionIsSeq
<1>3. PICK k \in Nat : /\ (cur + n > R => k = cur + n - R) /\ (~(cur + n > R) => k = 0)
                       /\ (IF cur + n > R THEN cur + n - R ELSE 0) = k
  <2>1. CASE cur + n > R
    <3>1. cur + n - R \in Nat
      BY <2>1
    <3> QED BY <2>1, <3>1
  <2>2. CASE ~(cur + n > R)
    BY <2>2
  <2> QED BY <2>1, <2>2
<1> DEFINE Row(j) == IF j \in cur..(cur + n - 1) THEN x ELSE IF j <= R THEN rows[j] ELSE 0
           f == [i \in 1..R |-> Row(i + k)]
<1>4. PutLines(s, x, n) = [rows |-> f, cur |-> cur + n - k]
  BY <1>1, <1>2, <1>3 DEF PutLines
<1>5. ASSUME NEW i \in 1..R PROVE Row(i + k) \in Nat
  <2>1. i + k <= R => i + k \in 1..R
    OBVIOUS
  <2> QED BY <2>1
<1>6. f \in [1..R -> Nat]
  BY <1>5
<1>7. cur + n - k \in 1..R
  BY <1>3
<1>8. \A i \in 1..R : f[i] = Row(i + k)
  OBVIOUS
<1> HIDE DEF f
<1>9. PutLines(s, x, n).rows = f /\ PutLines(s, x, n) \in [rows : [1..R -> Nat], cur : 1..R]
  <2>1. PICK c \in 1..R : c = cur + n - k
    BY <1>7
  <2>2. PutLines(s, x, n) = [rows |-> f, cur |-> c]
    BY <1>4, <2>1, Zenon
  <2>3. PutLines(s, x, n).rows = f
    BY <2>2
  <2>4. [rows |-> f, cur |-> c] \in [rows : [1..R -> Nat], cur : 1..R]
    BY <1>6
  <2> QED BY <2>2, <2>3, <2>4, Zenon
<1>10. ASSUME NEW i \in 1..R
       PROVE  /\ (i + k \in cur..(cur + n - 1) => f[i] = x)
              /\ (i + k \notin cur..(cur + n - 1) /\ i + k <= R => f[i] = rows[i + k])
              /\ (i + k \notin cur..(cur + n - 1) /\ i + k > R => f[i] = 0)
  <2>1. f[i] = Row(i + k) /\ (i + k > R => ~(i + k <= R))
    BY <1>8
  <2> QED BY <2>1
<1>11. ASSUME NEW i \in 1..R, f[i] # 0, f[i] # x
       PROVE  \E j \in 1..R : i <= j /\ f[i] = rows[j]
  <2>1. i + k <= R \/ i + k > R
    OBVIOUS
  <2>2. i + k <= R /\ f[i] = rows[i + k]
    BY <1>10, <1>11, <2>1
  <2>3. i + k \in 1..R /\ i <= i + k
    BY <2>2
  <2> QED BY <2>2, <2>3
<1>12. ASSUME cur = 1, NEW i \in 1..R, f[i] # 0
       PROVE  (f[i] = x /\ i <= n) \/ (f[i] = rows[i] /\ i > n)
  <2>1. CASE i + k \in 1..n
    <3>1. i + k \in cur..(cur + n - 1) /\ i <= n
      BY <1>12, <2>1
    <3> QED BY <1>10, <3>1
  <2>2. CASE i + k \notin 1..n
    <3>1. i + k > n /\ i + k \notin cur..(cur + n - 1)
      BY <1>12, <2>2
    <3>2. i + k <= R \/ i + k > R
      OBVIOUS
    <3>3. i + k <= R /\ f[i] = rows[i + k]
      BY <1>10, <1>12, <3>1, <3>2
    <3>4. k = 0
      BY <1>3, <1>12, <3>1, <3>3
    <3>5. i + k = i
      BY <3>4
    <3> QED BY <3>1, <3>3, <3>5
  <2> QED BY <2>1, <2>2
<1>13. Risen(s, PutLines(s, x, n), x, R)
  BY <1>1, <1>9, <1>11 DEF Risen
<1>14. s.cur = 1 => OnTop(s, PutLines(s, x, n), x, n, R)
  BY <1>1, <1>9, <1>12 DEF OnTop
<1> QED BY <1>9, <1>13, <1>14 DEF Screens

(* A step that leaves the screen alone. *)
LEMMA ScreenKept ==
    ASSUME ScreenInv, UNCHANGED <<screen, term, drawnOn, last_calc, opts>>,
           pic'.shown => pic.shown /\ stage' \in {"text", "requeue"} /\ held' = held,
           stage' \in {"threads", "draw"} =>
               stage \in {"threads", "draw"} /\ pic'.w = pic.w /\ pic'.h = pic.h
    PROVE  ScreenInv'
<1>1. PicSize' = PicSize /\ \A t : RowsOn(t)' = RowsOn(t)
  BY DEF PicSize, RowsOn
<1>2. ScreenTypes'
  BY DEF ScreenInv, ScreenTypes
<1>3. Drawing'
  BY <1>1 DEF ScreenInv, Drawing
<1>4. ~opts.batch => InPicture'
  BY <1>1 DEF ScreenInv, InPicture
<1>5. ~opts.batch => OneFrame'
  BY DEF ScreenInv, OneFrame
<1> QED BY <1>2, <1>3, <1>4, <1>5 DEF ScreenInv

(* A line of text below the picture. *)
LEMMA ScreenText ==
    ASSUME ScreenInv, screen' = PutLine(screen, 0), UNCHANGED <<term, drawnOn, last_calc, opts>>,
           pic'.shown => pic.shown /\ held' = held, pic'.shown => stage' \in {"text", "requeue"},
           stage' \notin {"threads", "draw"}
    PROVE  ScreenInv'
<1>0. PICK R \in Nat \ {0} : R = term[2]
  BY RoomAssumption DEF ScreenInv, ScreenTypes
<1>1. PicSize' = PicSize /\ \A t : RowsOn(t)' = RowsOn(t)
  BY DEF PicSize, RowsOn
<1>2. PICK s \in Screens(R) : s = screen
  BY <1>0 DEF ScreenInv, ScreenTypes
<1>3. 0 \in Nat /\ 1 \in Nat
  OBVIOUS
<1>4. PICK u \in Screens(R) : u = PutLines(s, 0, 1) /\ Risen(s, u, 0, R)
  BY <1>3, PutFacts
<1>5. screen' = u
  BY <1>2, <1>4 DEF PutLine
<1>6. ScreenTypes'
  <2>1. term' = term /\ term \in Terms /\ last_calc' \in Nat \X Nat
    BY DEF ScreenInv, ScreenTypes
  <2> QED BY <1>0, <1>5, <2>1 DEF ScreenTypes
<1>7. Drawing'
  BY DEF Drawing
<1>8. ASSUME ~opts.batch PROVE InPicture'
  <2>1. SUFFICES ASSUME NEW i \in 1..R, u.rows[i] # 0
                 PROVE  drawnOn # {} /\ \A t \in Terms : drawnOn = {t} => i <= RowsOn(t)
    BY <1>0, <1>1, <1>5 DEF InPicture
  <2>2. PICK j \in 1..R : i <= j /\ s.rows[j] # 0
    BY <1>4, <2>1 DEF Risen
  <2>3. drawnOn # {} /\ \A t \in Terms : drawnOn = {t} => j <= RowsOn(t)
    BY <1>0, <1>2, <1>8, <2>2 DEF ScreenInv, InPicture
  <2>4. ASSUME NEW t \in Terms, drawnOn = {t} PROVE i <= RowsOn(t)
    <3>1. RowsOn(t) \in Int
      BY RowsType DEF ScreenInv, ScreenTypes
    <3> QED BY <2>2, <2>3, <2>4, <3>1
  <2> QED BY <2>3, <2>4
<1>9. ASSUME ~opts.batch PROVE OneFrame'
  <2>1. SUFFICES ASSUME pic'.shown, NEW t \in Terms, drawnOn = {t}, NEW i \in 1..R
                 PROVE  u.rows[i] \in {0, held.frame}
    BY <1>0, <1>5 DEF OneFrame
  <2>2. \A j \in 1..R : s.rows[j] \in {0, held.frame}
    BY <1>0, <1>2, <1>9, <2>1 DEF ScreenInv, OneFrame
  <2> QED BY <1>4, <2>2 DEF Risen
<1> QED BY <1>6, <1>7, <1>8, <1>9 DEF ScreenInv

(* The rows that still fit stay when the terminal is resized. *)
LEMMA ScreenResize ==
    ASSUME ScreenInv, ResizeTerminal
    PROVE  ScreenInv'
<1>0. PICK t \in Terms :
          /\ term' = t
          /\ screen' = [rows |-> [i \in 1..t[2] |-> IF i <= term[2] THEN screen.rows[i] ELSE 0],
                        cur  |-> IF screen.cur <= t[2] THEN screen.cur ELSE t[2]]
          /\ UNCHANGED <<opts, stage, held, last_calc, pic, drawnOn>>
  BY DEF ResizeTerminal
<1>1. PICK R \in Nat \ {0}, Q \in Nat \ {0} : R = term[2] /\ Q = t[2]
  BY RoomAssumption DEF ScreenInv, ScreenTypes
<1>2. PICK rows \in [1..R -> Nat], cur \in 1..R : rows = screen.rows /\ cur = screen.cur
  BY <1>1 DEF ScreenInv, ScreenTypes, Screens
<1>3. PicSize' = PicSize /\ \A v : RowsOn(v)' = RowsOn(v)
  BY <1>0 DEF PicSize, RowsOn
<1> DEFINE f == [i \in 1..Q |-> IF i <= R THEN rows[i] ELSE 0]
           c == IF cur <= Q THEN cur ELSE Q
<1>4. f \in [1..Q -> Nat] /\ c \in 1..Q /\ (cur = 1 => c = 1)
  OBVIOUS
<1>5. \A i \in 1..Q : f[i] # 0 => i \in 1..R /\ f[i] = rows[i]
  OBVIOUS
<1>6. screen' = [rows |-> f, cur |-> c]
  BY <1>0, <1>1, <1>2
<1> HIDE DEF f, c
<1>7. screen'.rows = f /\ screen'.cur = c /\ screen' \in Screens(Q)
  BY <1>4, <1>6 DEF Screens
<1>8. ScreenTypes'
  BY <1>0, <1>1, <1>7 DEF ScreenInv, ScreenTypes
<1>9. Drawing'
  BY <1>0, <1>2, <1>3, <1>4, <1>7 DEF ScreenInv, Drawing
<1>10. ASSUME ~opts.batch PROVE InPicture'
  <2>1. SUFFICES ASSUME NEW i \in 1..Q, f[i] # 0
                 PROVE  drawnOn # {} /\ \A v \in Terms : drawnOn = {v} => i <= RowsOn(v)
    BY <1>0, <1>1, <1>3, <1>7 DEF InPicture
  <2>2. i \in 1..R /\ rows[i] # 0
    BY <1>5, <2>1
  <2> QED BY <1>1, <1>2, <1>10, <2>2 DEF ScreenInv, InPicture
<1>11. ASSUME ~opts.batch PROVE OneFrame'
  <2>1. SUFFICES ASSUME pic.shown, NEW v \in Terms, drawnOn = {v}, NEW i \in 1..Q
                 PROVE  f[i] \in {0, held.frame}
    BY <1>0, <1>1, <1>7 DEF OneFrame
  <2>2. \A j \in 1..R : rows[j] \in {0, held.frame}
    BY <1>1, <1>2, <1>11, <2>1 DEF ScreenInv, OneFrame
  <2> QED BY <1>5, <2>2
<1> QED BY <1>0, <1>8, <1>9, <1>10, <1>11 DEF ScreenInv

(* print_img puts the cursor home and clears the screen for a new size. *)
LEMMA ScreenHome ==
    ASSUME ScreenInv, print_img
    PROVE  ScreenInv'
<1>0. /\ UNCHANGED <<opts, term, held>> /\ stage = "got" /\ ~pic.shown
      /\ stage' \in {"text", "threads", "draw"}
  BY DEF print_img, termVars, ScreenInv, ScreenTypes
<1>1. PICK R \in Nat \ {0} : R = term[2]
  BY RoomAssumption DEF ScreenInv, ScreenTypes
<1>2. PICK rows \in [1..R -> Nat], cur \in 1..R : screen = [rows |-> rows, cur |-> cur]
  BY <1>1 DEF ScreenInv, ScreenTypes, Screens
<1> DEFINE home == IF opts.batch THEN screen ELSE Home(screen)
           blank == [i \in 1..R |-> 0]
<1>3. PICK c \in 1..R : home = [rows |-> rows, cur |-> c] /\ (~opts.batch => c = 1)
  <2>1. CASE opts.batch
    BY <1>2, <2>1
  <2>2. CASE ~opts.batch
    <3>1. Home(screen) = [rows |-> rows, cur |-> 1] /\ 1 \in 1..R
      BY <1>2 DEF Home
    <3> QED BY <2>2, <3>1
  <2> QED BY <2>1, <2>2
<1>4. Blank(term[2]) = [rows |-> blank, cur |-> 1] /\ blank \in [1..R -> Nat] /\ 1 \in 1..R
      /\ \A i \in 1..R : blank[i] = 0
  BY <1>1 DEF Blank
<1>5. ~pic'.shown
  BY <1>0 DEF print_img, NewPic
<1> HIDE DEF blank
<1>6. CASE screen' = home /\ UNCHANGED <<last_calc, drawnOn>>
  <2>1. screen'.rows = rows /\ screen.rows = rows /\ screen'.cur = c /\ screen' \in Screens(R)
    BY <1>2, <1>3, <1>6 DEF Screens
  <2>2. ScreenTypes'
    BY <1>0, <1>1, <1>5, <1>6, <2>1 DEF ScreenInv, ScreenTypes
  <2>3. ~opts.batch => InPicture'
    BY <1>0, <1>6, <2>1 DEF ScreenInv, InPicture, RowsOn, PicSize
  <2>4. OneFrame'
    BY <1>5 DEF OneFrame
  <2>5. Drawing'
    <3>1. SUFFICES ASSUME stage' \in {"threads", "draw"} PROVE pic'.w = PicSize'[1] /\ pic'.h = PicSize'[2]
      BY <1>0, <1>3, <2>1 DEF Drawing
    <3>2. pic' = NewPic /\ last_calc' = IdealSize[term]
      BY <3>1 DEF print_img
    <3>3. PicSize' = CellSize
      BY <1>0, <3>2 DEF PicSize, CellSize
    <3>4. NewPic.w = CellSize[1] /\ NewPic.h = CellSize[2]
      BY DEF NewPic
    <3> QED BY <3>2, <3>3, <3>4
  <2> QED BY <1>0, <2>2, <2>3, <2>4, <2>5 DEF ScreenInv
<1>7. CASE screen' = Blank(term[2]) /\ last_calc' = IdealSize[term] /\ drawnOn' = {}
  <2>1. screen'.rows = blank /\ screen'.cur = 1 /\ screen' \in Screens(R)
    BY <1>4, <1>7 DEF Screens
  <2>2. ScreenTypes'
    <3>1. term \in Terms
      BY DEF ScreenInv, ScreenTypes
    <3>2. last_calc' \in Nat \X Nat
      BY <1>7, <3>1, RoomAssumption
    <3> QED BY <1>0, <1>1, <1>5, <2>1, <3>1, <3>2 DEF ScreenTypes
  <2>3. InPicture'
    BY <1>0, <1>1, <1>4, <2>1 DEF InPicture
  <2>4. OneFrame'
    BY <1>5 DEF OneFrame
  <2>5. Drawing'
    <3>1. SUFFICES ASSUME stage' \in {"threads", "draw"} PROVE pic'.w = PicSize'[1] /\ pic'.h = PicSize'[2]
      BY <2>1 DEF Drawing
    <3>2. pic' = NewPic
      BY <3>1 DEF print_img
    <3>3. PicSize' = CellSize
      BY <1>0, <1>7 DEF PicSize, CellSize
    <3>4. NewPic.w = CellSize[1] /\ NewPic.h = CellSize[2]
      BY DEF NewPic
    <3> QED BY <3>2, <3>3, <3>4
  <2> QED BY <1>0, <2>2, <2>3, <2>4, <2>5 DEF ScreenInv
<1>8. \/ screen' = home /\ UNCHANGED <<last_calc, drawnOn>>
      \/ screen' = Blank(term[2]) /\ last_calc' = IdealSize[term] /\ drawnOn' = {}
  BY DEF print_img, ClearOnChange
<1> QED BY <1>6, <1>7, <1>8

(* The picture is drawn over the last one, which took as many rows. *)
LEMMA ScreenDraw ==
    ASSUME ScreenInv, PixelInv, PicInv, draw
    PROVE  ScreenInv'
<1>0. /\ stage = "draw" /\ stage' = "text" /\ UNCHANGED <<opts, term, held, last_calc>>
      /\ drawnOn' = drawnOn \cup {term} /\ pic' = [pic EXCEPT !.shown = TRUE]
      /\ screen' = PutLines(screen, held.frame, pic.h * ScreenRows(pic.w))
  BY DEF draw, termVars
<1>1. PICK R \in Nat \ {0}, C \in Nat \ {0} : R = term[2] /\ C = term[1]
  BY RoomAssumption DEF ScreenInv, ScreenTypes
<1>2. PICK s \in Screens(R) : s = screen
  BY <1>1 DEF ScreenInv, ScreenTypes
<1>3. PICK x \in Nat : x = held.frame
  <2>1. held.frame \in Frames
    BY <1>0 DEF PixelInv, FilledInv, Working
  <2> QED BY <2>1, ViewAssumption DEF Frames
<1>4. PicSize' = PicSize /\ (\A t : RowsOn(t)' = RowsOn(t)) /\ term \in Terms
  BY <1>0 DEF PicSize, RowsOn, ScreenInv, ScreenTypes
<1>5. PICK n \in Nat : n = pic.h * ScreenRows(pic.w) /\ n = RowsOn(term)
  <2>1. pic.w = PicSize[1] /\ pic.h = PicSize[2]
    BY <1>0 DEF ScreenInv, Drawing
  <2>2. pic.h * ScreenRows(pic.w) = RowsOn(term)
    BY <2>1 DEF ScreenRows, RowsOn
  <2>3. RowsOn(term) \in Nat
    BY <1>4, RowsType DEF ScreenInv, ScreenTypes
  <2> QED BY <2>2, <2>3
<1>6. PICK u \in Screens(R) : u = PutLines(s, x, n) /\ (s.cur = 1 => OnTop(s, u, x, n, R))
  BY PutFacts
<1>7. screen' = u
  BY <1>0, <1>2, <1>3, <1>5, <1>6, Zenon
<1>8. ScreenTypes'
  BY <1>0, <1>1, <1>4, <1>7 DEF ScreenInv, ScreenTypes
<1>9. Drawing'
  BY <1>0 DEF Drawing
<1>10. ASSUME ~opts.batch, NEW t \in Terms, drawnOn' = {t}, NEW i \in 1..R, u.rows[i] # 0
       PROVE  i <= RowsOn(t) /\ u.rows[i] = x
  <2>1. t = term /\ (drawnOn = {} \/ drawnOn = {term})
    BY <1>0, <1>10
  <2>2. s.cur = 1
    BY <1>0, <1>2, <1>10 DEF ScreenInv, Drawing
  <2>3. (u.rows[i] = x /\ i <= n) \/ (u.rows[i] = s.rows[i] /\ i > n)
    BY <1>6, <1>10, <2>2 DEF OnTop
  <2>4. s.rows[i] # 0 => i <= n
    BY <1>1, <1>2, <1>4, <1>5, <1>10, <2>1 DEF ScreenInv, InPicture
  <2>5. u.rows[i] = x /\ i <= n
    BY <1>10, <2>3, <2>4
  <2> QED BY <1>5, <2>1, <2>5
<1>11. ASSUME ~opts.batch PROVE InPicture'
  <2>1. drawnOn' # {}
    BY <1>0
  <2>2. SUFFICES ASSUME NEW i \in 1..R, u.rows[i] # 0, NEW t \in Terms, drawnOn' = {t} PROVE i <= RowsOn(t)
    BY <1>0, <1>1, <1>4, <1>7, <2>1 DEF InPicture
  <2> QED BY <1>10, <1>11, <2>2
<1>12. ASSUME ~opts.batch PROVE OneFrame'
  <2>1. SUFFICES ASSUME NEW t \in Terms, drawnOn' = {t}, NEW i \in 1..R PROVE u.rows[i] \in {0, x}
    BY <1>0, <1>1, <1>3, <1>7 DEF OneFrame
  <2> QED BY <1>10, <1>12, <2>1
<1> QED BY <1>0, <1>8, <1>9, <1>11, <1>12 DEF ScreenInv

(* Every step keeps the screen. *)
LEMMA ScreenStep == ScreenInv /\ PixelInv /\ PicInv /\ [Next]_vars => ScreenInv'
<1> SUFFICES ASSUME ScreenInv, PixelInv, PicInv, [Next]_vars PROVE ScreenInv'
  OBVIOUS
<1>0. pic.shown => stage \in {"text", "requeue"}
  BY DEF ScreenInv, ScreenTypes
<1>1. CASE not_uvc \/ v4l2_start \/ libuvc_start \/ v4l2_dqbuf \/ v4l2_dqbuf_fails \/ libuvc_cb \/ dump_frame
  <2>1. /\ UNCHANGED <<screen, term, drawnOn, last_calc, opts, pic>> /\ stage \in {"start", "wait", "got"}
        /\ stage' \notin {"threads", "draw"}
    BY <1>1 DEF not_uvc, v4l2_start, libuvc_start, v4l2_dqbuf, v4l2_dqbuf_fails, libuvc_cb, dump_frame,
                Idle, termVars, drawVars
  <2>2. ~pic'.shown
    BY <1>0, <2>1
  <2> QED BY <2>1, <2>2, ScreenKept
<1>2. CASE CameraFrame \/ Unplug \/ UNCHANGED vars
  <2>1. UNCHANGED <<screen, term, drawnOn, last_calc, opts, pic, stage, held>>
    BY <1>2 DEF CameraFrame, Unplug, vars, termVars, drawVars
  <2> QED BY <1>0, <2>1, ScreenKept
<1>3. CASE join
  <2>1. /\ UNCHANGED <<screen, term, drawnOn, last_calc, opts, pic>> /\ stage = "threads"
    BY <1>3 DEF join, termVars, drawVars
  <2>2. ~pic'.shown
    BY <1>0, <2>1
  <2> QED BY <2>1, <2>2, ScreenKept
<1>4. ASSUME NEW n \in 0..(THREAD_NUM - 1), trans_to_chardata(n) PROVE ScreenInv'
  <2>1. UNCHANGED <<screen, term, drawnOn, last_calc, opts, stage>> /\ stage = "threads" /\ PicTypes
    BY <1>4 DEF trans_to_chardata, termVars, PicInv
  <2>2. pic'.w = pic.w /\ pic'.h = pic.h /\ pic'.shown = pic.shown
    BY <1>4, <2>1 DEF trans_to_chardata, PicTypes
  <2>3. ~pic'.shown
    BY <1>0, <2>1, <2>2
  <2> QED BY <2>1, <2>2, <2>3, ScreenKept
<1>5. CASE frame_end
  <2>1. /\ UNCHANGED <<term, drawnOn, last_calc, opts>> /\ pic' = NoPic
        /\ stage' \notin {"threads", "draw"} /\ (screen' = screen \/ screen' = PutLine(screen, 0))
    BY <1>5 DEF frame_end, termVars
  <2>2. ~pic'.shown
    BY <2>1 DEF NoPic
  <2>3. CASE screen' = screen
    BY <2>1, <2>2, <2>3, ScreenKept
  <2>4. CASE screen' = PutLine(screen, 0)
    BY <2>1, <2>2, <2>4, ScreenText
  <2> QED BY <2>1, <2>3, <2>4
<1>6. CASE view_text
  <2>1. /\ UNCHANGED <<term, drawnOn, last_calc, opts, pic, held>> /\ stage' = "requeue"
        /\ screen' = PutLine(screen, 0)
    BY <1>6 DEF view_text, termVars
  <2> QED BY <2>1, ScreenText
<1>7. CASE print_img
  BY <1>7, ScreenHome
<1>8. CASE draw
  BY <1>8, ScreenDraw
<1>9. CASE ResizeTerminal
  BY <1>9, ScreenResize
<1> QED BY <1>1, <1>2, <1>3, <1>4, <1>5, <1>6, <1>7, <1>8, <1>9 DEF Next, Client

(* print_img clears the screen when the size that fits the terminal is not   *)
(* the last one, and otherwise draws over the last picture: for any          *)
(* terminals, resized at any moment, even while a frame is drawn, and        *)
(* pictures that wrap or scroll, no row of an earlier frame is left, unless  *)
(* pictures were drawn on different terminals since.                         *)
THEOREM NothingStale == Spec => []NoStalePicture
<1> DEFINE Inv == BufferInv /\ PixelInv /\ PicInv /\ ScreenInv
<1>1. Init => Inv
  <2> SUFFICES ASSUME Init PROVE Inv
    OBVIOUS
  <2>1. BufferInv /\ PixelInv /\ PicInv
    BY InitBuffers, InitPixels DEF Init, PicInv
  <2>2. /\ stage = "start" /\ term \in Terms /\ last_calc = <<0, 0>> /\ pic = NoPic
        /\ screen = Blank(term[2]) /\ drawnOn = {}
    BY DEF Init
  <2>3. PICK R \in Nat \ {0} : R = term[2]
    BY <2>2, RoomAssumption
  <2>4. /\ screen = [rows |-> [i \in 1..R |-> 0], cur |-> 1]
        /\ [i \in 1..R |-> 0] \in [1..R -> Nat] /\ 1 \in 1..R
    BY <2>2, <2>3 DEF Blank
  <2>5. screen \in Screens(R) /\ ~pic.shown /\ \A i \in 1..R : screen.rows[i] = 0
    BY <2>2, <2>4 DEF Screens, NoPic
  <2>6. ScreenTypes
    BY <2>2, <2>3, <2>5 DEF ScreenTypes
  <2>7. Drawing /\ InPicture /\ OneFrame
    BY <2>2, <2>3, <2>5 DEF Drawing, InPicture, OneFrame
  <2> QED BY <2>1, <2>6, <2>7 DEF ScreenInv
<1>2. Inv /\ [Next]_vars => Inv'
  BY StepBuffers, PixelStep, PicStep, ScreenStep DEF PixelInv
<1>3. Inv => NoStalePicture
  <2> SUFFICES ASSUME ScreenInv, stage = "requeue", pic.shown, ~opts.batch, drawnOn = {term},
                      NEW i \in DOMAIN screen.rows
               PROVE  screen.rows[i] \in {0, held.frame}
    BY DEF NoStalePicture
  <2>1. term \in Terms /\ i \in 1..term[2]
    BY DEF ScreenInv, ScreenTypes, Screens
  <2> QED BY <2>1 DEF ScreenInv, OneFrame
<1> HIDE DEF Inv
<1> QED BY <1>1, <1>2, <1>3, PTL DEF Spec
=============================================================================
