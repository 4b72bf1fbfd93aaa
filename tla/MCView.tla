------------------------------- MODULE MCView -------------------------------
(* A 12x40 picture (3 by 5 cells) on three terminals: they give pictures   *)
(* of 6 by 10 cells (two rows for each thread), of 5 by 8 (the threads      *)
(* overlap and overrun) and of 1 by 2 (some cells are made by no thread).   *)
EXTENDS View

MCTerms == {<<21, 14>>, <<13, 12>>, <<21, 7>>}

\* No depth, one tick of depth, equal after the shift, the largest value.
MCDepths == <<<<7, 8, 15, 65535>>, <<0, 24, 16, 17>>, <<3, 0, 7, 1>>>>

\* capture with and without -d, in both formats and over both drivers; view
\* over V4L2 with each option and over libuvc, in the picture's size and in
\* the terminal's.
View1(d, m, c, r, b) ==
    [cmd |-> "view", drv |-> d, mjpeg |-> m, dump |-> FALSE,
     compat |-> c, resize |-> r, batch |-> b]

MCOptions ==
    {o \in CaptureOpts : o.dump \/ o.drv = "v4l2"} \cup
    {View1("v4l2", TRUE, FALSE, TRUE, FALSE),
     View1("v4l2", FALSE, FALSE, FALSE, FALSE),
     View1("v4l2", FALSE, TRUE, TRUE, TRUE),
     View1("usbfs", FALSE, FALSE, TRUE, FALSE)}

MCMjpegLengths == <<2, 3, 1>>

=============================================================================
