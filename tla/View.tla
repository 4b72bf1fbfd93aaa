-------------------------------- MODULE View --------------------------------
(***************************************************************************)
(* `udb capture` and `udb view` on Linux: the camera's stream, taken from  *)
(* the V4L2 driver or from libuvc, is written into a dump file (capture)   *)
(* or drawn on the terminal (view).  The camera and the driver fill        *)
(* buffers while the client works on another one; five threads cut one     *)
(* picture into character cells; the user may resize the terminal.         *)
(*                                                                         *)
(* A frame is its number.  Its depth pixels are Depths[f] (a handful of    *)
(* pixels is enough to compare brightness) and its length is a small       *)
(* number.  A cell holds the offset, in the picture, of the first pixel of *)
(* the 4x8 tile it was computed from: which bitmap and which two colours   *)
(* stand for the tile is left out.  The screen is one entry for each row:  *)
(* the frame whose picture row it shows, 0 for text or nothing.            *)
(***************************************************************************)
EXTENDS Integers, Sequences, FiniteSets

CONSTANTS
    Width, Height,   \* the picture: 640 and 400 in the code
    Depths,          \* Depths[f]: the raw 16-bit pixels of frame f
    MjpegLengths,    \* MjpegLengths[f]: the length of frame f as MJPEG
    YuyvLength,      \* the length of every YUYV frame
    Options,         \* the command lines (and stack contents) considered
    Terms,           \* the terminal's possible sizes, <<columns, rows>>
    MaxFrame,        \* bound: the frames the camera delivers
    MaxResize,       \* bound: the times the user resizes the terminal
    MaxBuffers       \* bound: the buffers VIDIOC_REQBUFS grants

VARIABLES
    opts,     \* the command, the driver and the options
    stage,    \* where the client (with libuvc: its callback) is
    camera,   \* "up" or "gone"
    seq,      \* the number of the last frame the camera sent
    mem,      \* mem[b]: the frame in buffer b and its pixels
    queued,   \* buffers the driver may fill, in order
    done,     \* buffers filled and not yet taken, in order
    held,     \* the buffer the client took, and the frame that was in it
    taken,    \* the frames taken so far
    dump,     \* the dump file: the frame that wrote each byte
    term,     \* the terminal's size
    resizes,  \* how often it changed
    last_calc,\* print_img's static last_calc_w, last_calc_h
    bmp,      \* depth2bmp_hist's brightness of each pixel
    pic,      \* the picture being drawn: its cells and its threads
    screen,   \* the terminal's rows and the cursor's row
    drawnOn   \* history: the terminal's sizes when pictures were drawn
              \* since print_img last found a new size

vars == <<opts, stage, camera, seq, mem, queued, done, held, taken, dump,
          term, resizes, last_calc, bmp, pic, screen, drawnOn>>

cameraVars == <<camera, seq>>
termVars   == <<term, resizes>>
drawVars   == <<last_calc, bmp, pic, screen, drawnOn>>

THREAD_NUM == 5
None       == 0
Buffers    == 1..MaxBuffers
Frames     == 1..MaxFrame
Ended      == {"exit", "return", "crash"}
Pixel      == 0..(2^16 - 1)

ASSUME ViewAssumption ==
    /\ Width \in Nat /\ Width % 4 = 0 /\ Width > 0
    /\ Height \in Nat /\ Height % (8 * THREAD_NUM) = 0 /\ Height > 0
    /\ {MaxFrame, MaxResize, MaxBuffers, YuyvLength} \subseteq Nat
    /\ MaxBuffers >= 1

\* Every frame has its 16-bit pixels and its length.
ASSUME FrameAssumption ==
    /\ Depths \in Seq(Seq(Pixel)) /\ Len(Depths) >= MaxFrame
    /\ MjpegLengths \in Seq(Nat) /\ Len(MjpegLengths) >= MaxFrame

Length(f) == IF opts.mjpeg THEN MjpegLengths[f] ELSE YuyvLength

NoPic == [w |-> 0, h |-> 0, cells |-> <<>>, ended |-> {}, over |-> FALSE,
          shown |-> FALSE]

-----------------------------------------------------------------------------
(* The pixels *)

\* depth2bmp_hist: every pixel loses its three low bits, in the buffer itself.
Shift(px) == [p \in DOMAIN px |-> px[p] \div 8]

\* MUTANT: the pass that accumulates the histogram is missing.
HistgramNotAccumulated(px, v) ==
    Cardinality({p \in DOMAIN px : px[p] # 0 /\ px[p] = v})

\* The accumulated histogram at depth v.
histgram(px, v) == Cardinality({p \in DOMAIN px : px[p] # 0 /\ px[p] <= v})

\* The brightness of every pixel: 256 * (1 - accumulated / points), with
\* entry 0 of the histogram never counted.
depth2bmp_hist(px) ==
    LET points == Cardinality({p \in DOMAIN px : px[p] # 0}) IN
    [p \in DOMAIN px |->
        IF px[p] = 0 THEN 0
        ELSE (256 * (points - histgram(px, px[p]))) \div points]

\* C's conversion of a quotient of doubles to int.
Trunc(n, d) == IF n >= 0 THEN n \div d ELSE -((-n) \div d)

\* get_term_size's limits, less the padding.
TermRoom(t) == <<(IF t[1] > 400 THEN 400 ELSE t[1]) - 8,
                 (IF t[2] > 120 THEN 120 ELSE t[2]) - 4>>

\* One round of get_ideal_image_size's loop on a size.
Shrink(s, room) ==
    LET narrower == IF s[1] > room[1]
                    THEN <<s[1] - 8, Trunc((s[1] - 8) * Height, 2 * Width)>>
                    ELSE s
    IN  IF narrower[2] > room[2]
        THEN <<Trunc((narrower[2] - 4) * 2 * Width, Height), narrower[2] - 4>>
        ELSE narrower

\* get_ideal_image_size: characters are half as wide as high; the size
\* shrinks until a round leaves it alone.
get_ideal_image_size(t) ==
    LET fit[s \in Int \X Int] ==
            IF Shrink(s, TermRoom(t)) = s THEN s
            ELSE fit[Shrink(s, TermRoom(t))]
    IN  fit[<<2 * Width, Height>>]

\* Computed once for each terminal size.
IdealSize == [t \in Terms |-> get_ideal_image_size(t)]

\* The terminals considered have rows and columns, and room for a picture.
ASSUME RoomAssumption ==
    \A t \in Terms : /\ t \in (Nat \ {0}) \X (Nat \ {0})
                     /\ IdealSize[t] \in (Nat \ {0}) \X (Nat \ {0})

-----------------------------------------------------------------------------
(* The screen (external: the terminal) *)

Blank(n) == [rows |-> [i \in 1..n |-> 0], cur |-> 1]

\* n lines of x, each ending in a newline; at the bottom the screen scrolls.
PutLines(s, x, n) ==
    LET size   == Len(s.rows)
        scroll == IF s.cur + n > size THEN s.cur + n - size ELSE 0
        Row(j) == IF j \in s.cur..(s.cur + n - 1) THEN x
                  ELSE IF j <= size THEN s.rows[j] ELSE 0
    IN  [rows |-> [i \in 1..size |-> Row(i + scroll)],
         cur  |-> s.cur + n - scroll]

PutLine(s, x) == PutLines(s, x, 1)

\* A line wider than the terminal takes several rows.
ScreenRows(columns) == (columns + term[1] - 1) \div term[1]

Home(s) == [s EXCEPT !.cur = 1]

-----------------------------------------------------------------------------
(* Starting.  capture() and view() fill the handle on their stack; view    *)
(* sets img_resize only for -r and then compares it with 1, so without -r  *)
(* its value is whatever the stack held.                                   *)

CaptureOpts ==
    [cmd : {"capture"}, drv : {"v4l2", "usbfs"}, mjpeg : BOOLEAN,
     dump : BOOLEAN, compat : {FALSE}, resize : {FALSE}, batch : {FALSE}]

ViewOpts ==
    [cmd : {"view"}, drv : {"v4l2", "usbfs"}, mjpeg : BOOLEAN,
     dump : {FALSE}, compat : BOOLEAN, resize : BOOLEAN, batch : BOOLEAN]

ASSUME OptionsAssumption == Options \subseteq CaptureOpts \cup ViewOpts

Init ==
    /\ opts \in Options
    /\ stage = "start" /\ camera = "up" /\ seq = 0
    /\ mem = [b \in Buffers |-> [frame |-> None, px |-> <<>>]]
    /\ queued = <<>> /\ done = <<>>
    /\ held = [buf |-> None, frame |-> None]
    /\ taken = <<>> /\ dump = <<>>
    /\ term \in Terms /\ resizes = 0
    /\ last_calc = <<0, 0>> /\ bmp = <<>> /\ pic = NoPic
    /\ screen = Blank(term[2]) /\ drawnOn = {}

Idle == UNCHANGED <<opts, cameraVars, termVars, drawVars, mem, held, taken, dump>>

\* The selected device is not a UVC camera: both commands return.
not_uvc ==
    /\ stage = "start"
    /\ stage' = "return"
    /\ UNCHANGED <<queued, done>> /\ Idle

\* v4l2_init_device and v4l2_start_capturing: any ioctl or mmap may fail,
\* and fewer than two buffers are refused; otherwise every buffer is queued.
v4l2_start ==
    /\ stage = "start" /\ opts.drv = "v4l2"
    /\ \/ stage' = "exit" /\ UNCHANGED queued
       \/ \E n \in Buffers :
             IF n < 2 THEN stage' = "exit" /\ UNCHANGED queued
             ELSE /\ camera = "up"
                  /\ queued' = [i \in 1..n |-> i]
                  /\ stage' = "wait"
    /\ UNCHANGED done /\ Idle

\* libuvc_init_device goes on after an error, with the device handle
\* uninitialised: what libuvc then does with it is undefined.  (capture
\* leaves vid, pid and serial number uninitialised, so it may be led there
\* too.)  libuvc_start_capturing asks for the stream up to three times and
\* exits when it is refused; when only starting the stream fails the client
\* sleeps for ever.
libuvc_start ==
    /\ stage = "start" /\ opts.drv = "usbfs"
    /\ \E found \in BOOLEAN, refusals \in 0..3 :
          \/ ~found /\ stage' \in {"crash", "exit"}
          \/ found /\ refusals = 3 /\ stage' = "exit"
          \/ found /\ refusals < 3 /\ stage' = "idle"
          \/ found /\ refusals < 3 /\ camera = "up" /\ stage' = "wait"
    /\ UNCHANGED <<queued, done>> /\ Idle

-----------------------------------------------------------------------------
(* The camera and the drivers: V4L2 in the kernel, libuvc in the client *)

Streaming == stage \notin {"start", "idle"} \cup Ended

\* The camera sends a frame.  V4L2 fills the first queued buffer and drops
\* the frame when there is none; libuvc keeps only the newest frame, and
\* hands the callback a copy of it.
CameraFrame ==
    /\ Streaming /\ camera = "up" /\ seq < MaxFrame
    /\ seq' = seq + 1
    /\ \/ /\ opts.drv = "v4l2" /\ queued # <<>>
          /\ mem' = [mem EXCEPT ![Head(queued)] =
                        [frame |-> seq + 1, px |-> Depths[seq + 1]]]
          /\ queued' = Tail(queued)
          /\ done' = Append(done, Head(queued))
       \/ opts.drv = "v4l2" /\ queued = <<>> /\ UNCHANGED <<mem, queued, done>>
       \/ opts.drv = "usbfs" /\ done' = <<seq + 1>> /\ UNCHANGED <<mem, queued>>
    /\ UNCHANGED <<opts, stage, camera, held, taken, dump, termVars, drawVars>>

Unplug ==
    /\ camera = "up" /\ camera' = "gone"
    /\ UNCHANGED <<opts, stage, seq, mem, queued, done, held, taken, dump,
                   termVars, drawVars>>

\* The user resizes the terminal: the rows that still fit stay.
ResizeTerminal ==
    /\ opts.cmd = "view" /\ resizes < MaxResize
    /\ \E t \in Terms \ {term} :
          /\ term' = t
          /\ screen' =
                [rows |-> [i \in 1..t[2] |->
                              IF i <= term[2] THEN screen.rows[i] ELSE 0],
                 cur  |-> IF screen.cur <= t[2] THEN screen.cur ELSE t[2]]
    /\ resizes' = resizes + 1
    /\ UNCHANGED <<opts, stage, cameraVars, mem, queued, done, held, taken,
                   dump, last_calc, bmp, pic, drawnOn>>

-----------------------------------------------------------------------------
(* Taking and returning a frame *)

\* MUTANT: the buffer goes back to the driver before it is processed.
DequeueGivesBack ==
    /\ stage = "wait" /\ opts.drv = "v4l2" /\ camera = "up" /\ done # <<>>
    /\ held' = [buf |-> Head(done), frame |-> mem[Head(done)].frame]
    /\ done' = Tail(done) /\ queued' = Append(queued, Head(done))
    /\ stage' = "got"
    /\ UNCHANGED <<opts, cameraVars, mem, taken, dump, termVars, drawVars>>

\* v4l2_read_frame, VIDIOC_DQBUF: the oldest filled buffer.
v4l2_dqbuf ==
    /\ stage = "wait" /\ opts.drv = "v4l2" /\ camera = "up" /\ done # <<>>
    /\ held' = [buf |-> Head(done), frame |-> mem[Head(done)].frame]
    /\ done' = Tail(done)
    /\ stage' = "got"
    /\ UNCHANGED <<opts, cameraVars, mem, queued, taken, dump, termVars, drawVars>>

\* MUTANT: a failed VIDIOC_DQBUF is tried again.
DequeueRetries ==
    /\ stage = "wait" /\ opts.drv = "v4l2" /\ camera = "gone"
    /\ stage' = "wait" /\ UNCHANGED <<queued, done>> /\ Idle

\* VIDIOC_DQBUF fails once the camera is gone: the client exits.
v4l2_dqbuf_fails ==
    /\ stage = "wait" /\ opts.drv = "v4l2" /\ camera = "gone"
    /\ stage' = "exit" /\ UNCHANGED <<queued, done>> /\ Idle

\* libuvc's thread calls libuvc_cb with a copy of the newest frame; frames
\* that come meanwhile replace each other.
libuvc_cb ==
    /\ stage = "wait" /\ opts.drv = "usbfs" /\ done # <<>>
    /\ mem' = [mem EXCEPT ![1] = [frame |-> done[1], px |-> Depths[done[1]]]]
    /\ held' = [buf |-> 1, frame |-> done[1]]
    /\ done' = <<>>
    /\ stage' = "got"
    /\ UNCHANGED <<opts, cameraVars, queued, taken, dump, termVars, drawVars>>

\* MUTANT: VIDIOC_QBUF is forgotten.
NotRequeued ==
    /\ stage = "requeue"
    /\ taken' = Append(taken, held.frame)
    /\ held' = [buf |-> None, frame |-> None]
    /\ pic' = NoPic /\ bmp' = <<>>
    /\ screen' = PutLine(screen, 0)
    /\ stage' = "wait"
    /\ UNCHANGED <<opts, cameraVars, mem, queued, done, dump, termVars,
                   last_calc, drawnOn>>

\* The end of v4l2_read_frame, VIDIOC_QBUF (which fails when the camera is
\* gone), or of the callback; the frame's number and time are printed.
frame_end ==
    /\ stage = "requeue"
    /\ taken' = Append(taken, held.frame)
    /\ held' = [buf |-> None, frame |-> None]
    /\ pic' = NoPic /\ bmp' = <<>>
    /\ \/ opts.drv = "v4l2" /\ camera = "up" /\ stage' = "wait"
          /\ queued' = Append(queued, held.buf)
          /\ screen' = PutLine(screen, 0)
       \/ opts.drv = "v4l2" /\ camera = "gone" /\ stage' = "exit"
          /\ UNCHANGED <<queued, screen>>
       \/ opts.drv = "usbfs" /\ stage' = "wait"
          /\ screen' = PutLine(screen, 0) /\ UNCHANGED queued
    /\ UNCHANGED <<opts, cameraVars, mem, done, dump, termVars, last_calc,
                   drawnOn>>

-----------------------------------------------------------------------------
(* Working on a frame: v4l2_process_buffer, and the body of libuvc_cb *)

\* MUTANT: the frame is appended to the dump file.
AppendDump ==
    /\ stage = "got" /\ opts.cmd = "capture"
    /\ dump' = IF opts.dump
               THEN dump \o [i \in 1..Length(held.frame) |-> mem[held.buf].frame]
               ELSE dump
    /\ stage' = "requeue"
    /\ UNCHANGED <<opts, cameraVars, mem, queued, done, held, taken, termVars,
                   drawVars>>

\* capture: the frame is written over the start of the dump file, which is
\* never truncated; without -d there is nothing to do.
dump_frame ==
    /\ stage = "got" /\ opts.cmd = "capture"
    /\ LET size == Length(held.frame) IN
       dump' = IF opts.dump
               THEN [i \in 1..(IF size > Len(dump) THEN size ELSE Len(dump)) |->
                        IF i <= size THEN mem[held.buf].frame ELSE dump[i]]
               ELSE dump
    /\ stage' = "requeue"
    /\ UNCHANGED <<opts, cameraVars, mem, queued, done, held, taken, termVars,
                   drawVars>>

\* The size print_img draws: the terminal's with img_resize, the picture's
\* without, in cells.
CellSize == IF opts.resize THEN IdealSize[term] ELSE <<Width \div 4, Height \div 8>>

\* print_raw_img: the cells are malloc'ed (-1: not written yet) and the
\* threads are created.
NewPic ==
    LET s == CellSize IN
    [w |-> s[1], h |-> s[2],
     cells |-> [i \in 0..(s[1] * s[2] - 1) |-> -1],
     ended |-> {}, over |-> FALSE, shown |-> FALSE]

\* MUTANT: the screen is not cleared when the size changes.
ClearNever(s) == s

\* print_img clears the screen when the size that fits the terminal is not
\* the last one.
ClearOnChange(s) == IF last_calc # IdealSize[term] THEN Blank(term[2]) ELSE s

\* view: a depth frame becomes a bitmap (its pixels are shifted where they
\* are); the cursor goes home unless -b; a frame that cannot be decoded
\* leaves the screen as it is; the size is computed and the picture scaled
\* to it when it differs, which may fail.  In each failing case print_img
\* returns -1, which nobody looks at.
print_img ==
    /\ stage = "got" /\ opts.cmd = "view"
    /\ IF opts.mjpeg THEN UNCHANGED <<mem, bmp>>
       ELSE /\ mem' = [mem EXCEPT ![held.buf].px = Shift(@)]
            /\ bmp' = depth2bmp_hist(Shift(mem[held.buf].px))
    /\ LET home == IF opts.batch THEN screen ELSE Home(screen) IN
       \/ /\ opts.mjpeg
          /\ screen' = home /\ stage' = "text" /\ UNCHANGED <<last_calc, pic, drawnOn>>
       \/ /\ screen' = ClearOnChange(home)
          /\ last_calc' = IdealSize[term]
          /\ drawnOn' = IF last_calc # IdealSize[term] THEN {} ELSE drawnOn
          /\ \/ /\ opts.compat \/ opts.resize
                /\ stage' = "text" /\ UNCHANGED pic
             \/ /\ pic' = NewPic
                /\ stage' = IF opts.compat THEN "draw" ELSE "threads"
    /\ UNCHANGED <<opts, cameraVars, queued, done, held, taken, dump, termVars>>

\* The rows of cells one thread makes: its share of the picture's height,
\* in steps of 8 pixels.
StripRows == ((pic.h * 8) \div THREAD_NUM + 7) \div 8

\* findCharData: the offset, from a strip's first pixel, of the first pixel
\* of its k-th tile; the strip is as wide as the picture.
TileOffset(k, width) == (k \div (width \div 4)) * 8 * width + 4 * (k % (width \div 4))

\* trans_to_chardata_thread: thread n makes its cells.  Its first cell and
\* its first pixel are n fifths, rounded down, of all.  The threads share no
\* lock; a cell that two of them make keeps what the later one wrote, which
\* is every outcome there is for that cell.
trans_to_chardata(n) ==
    LET cell  == ((pic.w * pic.h) \div THREAD_NUM) * n
        pixel == ((pic.w * 4 * pic.h * 8) \div THREAD_NUM) * n
    IN  /\ stage = "threads" /\ n \notin pic.ended
        /\ pic' = [pic EXCEPT
             !.ended = @ \cup {n},
             !.over  = @ \/ cell + pic.w * StripRows > pic.w * pic.h,
             !.cells = [i \in DOMAIN @ |->
                          IF i \in cell..(cell + pic.w * StripRows - 1)
                          THEN pixel + TileOffset(i - cell, pic.w * 4) ELSE @[i]]]
        /\ UNCHANGED <<opts, stage, cameraVars, mem, queued, done, held, taken,
                       dump, termVars, last_calc, bmp, screen, drawnOn>>

\* MUTANT: only the last thread is joined.
JoinLast ==
    /\ stage = "threads" /\ THREAD_NUM - 1 \in pic.ended
    /\ stage' = "draw"
    /\ UNCHANGED <<opts, cameraVars, mem, queued, done, held, taken, dump,
                   termVars, drawVars>>

\* The threads are joined.
join ==
    /\ stage = "threads" /\ pic.ended = 0..(THREAD_NUM - 1)
    /\ stage' = "draw"
    /\ UNCHANGED <<opts, cameraVars, mem, queued, done, held, taken, dump,
                   termVars, drawVars>>

\* print_raw_img and print_raw_img_compat draw the rows.
draw ==
    /\ stage = "draw"
    /\ screen' = PutLines(screen, held.frame, pic.h * ScreenRows(pic.w))
    /\ pic' = [pic EXCEPT !.shown = TRUE] /\ drawnOn' = drawnOn \cup {term}
    /\ stage' = "text"
    /\ UNCHANGED <<opts, cameraVars, mem, queued, done, held, taken, dump,
                   termVars, last_calc, bmp>>

\* The line below the picture, printed whether it was drawn or not.
view_text ==
    /\ stage = "text"
    /\ screen' = PutLine(screen, 0)
    /\ stage' = "requeue"
    /\ UNCHANGED <<opts, cameraVars, mem, queued, done, held, taken, dump,
                   termVars, last_calc, bmp, pic, drawnOn>>

\* The client's own steps.
Client ==
    \/ not_uvc \/ v4l2_start \/ libuvc_start
    \/ v4l2_dqbuf \/ v4l2_dqbuf_fails \/ libuvc_cb \/ frame_end
    \/ dump_frame \/ print_img \/ join \/ draw \/ view_text
    \/ \E n \in 0..(THREAD_NUM - 1) : trans_to_chardata(n)

Next == Client \/ CameraFrame \/ Unplug \/ ResizeTerminal

\* The client is scheduled; nothing is assumed of the camera or the user.
Spec == Init /\ [][Next]_vars /\ WF_vars(Client)

-----------------------------------------------------------------------------
(* Properties *)

\* While v4l2_process_buffer (or libuvc_cb) reads a frame out of its buffer,
\* the driver has not put a later frame into it.
FrameIntact == stage = "got" => mem[held.buf].frame = held.frame

\* Whenever v4l2_read_frame waits in VIDIOC_DQBUF the driver still has a
\* buffer to fill or a filled one to hand out: no path of the loop loses
\* buffers until the stream stalls for ever.
NeverStarved ==
    (stage = "wait" /\ opts.drv = "v4l2") => queued # <<>> \/ done # <<>>

\* The last frame written that was at least i bytes long.
LastReaching(i) ==
    LET long == {k \in DOMAIN taken : Length(taken[k]) >= i} IN
    taken[CHOOSE k \in long : \A j \in long : j <= k]

\* Between frames the dump file of `capture -d` begins with the whole of the
\* latest frame; behind it are the ends of the earlier, longer frames, as
\* dump_frame seeks to the start and does not truncate.  With YUYV, whose
\* frames are all as long, the file is exactly the latest frame.
DumpLayers ==
    (stage = "wait" /\ opts.cmd = "capture" /\ opts.dump /\ taken # <<>>) =>
        /\ \A k \in DOMAIN taken : Len(dump) >= Length(taken[k])
        /\ \A i \in DOMAIN dump : \E k \in DOMAIN taken : Length(taken[k]) >= i
        /\ \A i \in DOMAIN dump : dump[i] = LastReaching(i)
        /\ ~opts.mjpeg => dump = [i \in 1..YuyvLength |-> taken[Len(taken)]]

\* Whatever the order in which print_raw_img's five threads run, when they
\* have been joined every cell of a picture whose rows of cells divide by
\* five was made from its own tile of the picture and no thread wrote
\* outside the cells.  (In other sizes, which only -r gives, the threads'
\* shares overlap and overrun.)
PictureExact ==
    (stage = "draw" /\ ~opts.compat /\ pic.h % THREAD_NUM = 0) =>
        /\ ~pic.over
        /\ \A i \in DOMAIN pic.cells :
              pic.cells[i] = (i \div pic.w) * 8 * (pic.w * 4) + 4 * (i % pic.w)

\* Without -b, once a frame is drawn no row of the screen shows an earlier
\* frame, a smaller picture never stands in the rests of a larger one,
\* however often the terminal was resized: unless a picture was drawn on
\* another terminal since print_img last found a new size.  (Two terminals
\* may give one size of picture, and then print_img does not clear; so may
\* one that changes while a frame is drawn and changes back.)
NoStalePicture ==
    (stage = "requeue" /\ pic.shown /\ ~opts.batch /\ drawnOn = {term}) =>
        \A i \in DOMAIN screen.rows : screen.rows[i] \in {0, held.frame}

\* depth2bmp_hist's picture of a depth frame: a nearer pixel is never darker
\* than a farther one, equal depths are equally bright, a pixel without
\* depth is black, and no brightness leaves a byte.
NearerIsBrighter ==
    bmp # <<>> =>
        LET raw == Depths[held.frame] IN
        \A p, q \in DOMAIN bmp :
            /\ bmp[p] \in 0..255
            /\ raw[p] < 8 => bmp[p] = 0
            /\ (raw[p] >= 8 /\ raw[p] <= raw[q]) => bmp[p] >= bmp[q]
            /\ raw[p] \div 8 = raw[q] \div 8 => bmp[p] = bmp[q]

\* Over V4L2, a client that is left without its camera exits, wherever in a
\* frame it was.  (Over libuvc it sleeps for ever in libuvc_cap_loop.)
EndsWhenUnplugged ==
    (opts.drv = "v4l2" /\ camera = "gone") ~> (stage \in Ended)

=============================================================================
