----------------------------- MODULE MCPullFile -----------------------------
(* PullFile for TLC: datagrams of two bytes.  Files: empty, shorter than a   *)
(* datagram, one byte more, a whole number of datagrams, and one whose size  *)
(* does not fit the size word (U32 = 5).                                     *)
EXTENDS PullFile

MCContents == {<< >>, <<1>>, <<2, 3, 4>>, <<5, 6, 7, 8>>, <<1, 2, 3, 4, 5, 6, 7, 8>>}
=============================================================================
