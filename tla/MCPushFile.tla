----------------------------- MODULE MCPushFile -----------------------------
(* PushFile for TLC: pieces of two bytes.  Files: empty, shorter than a      *)
(* piece, a piece and a half, two pieces, and one whose size does not fit    *)
(* the size word (U32 = 5).                                                  *)
EXTENDS PushFile

MCContents == {<< >>, <<1>>, <<2, 3, 4>>, <<5, 6, 7, 8>>, <<1, 2, 3, 4, 5, 6, 7, 8>>}
=============================================================================
