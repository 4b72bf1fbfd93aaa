------------------------------ MODULE MCShell ------------------------------
(* Shell for TLC: two directories; built-ins that succeed and fail, a pipe   *)
(* and a list that contain cd, a command whose output is longer than the     *)
(* buffer, one without output; datagrams of two bytes, so that outputs need  *)
(* one or two pieces, with and without a remainder.                          *)
EXTENDS Shell

MCLines == {Pwd, << >>, <<"cd", "d2">>, <<"cd", "none">>, <<"exit">>,
            <<"cd", "d2", "|", "ls">>, <<"cd", "d2", ";", "ls">>, <<"ls">>}

MCOutput(line, dir) ==
    CASE line = Pwd -> IF dir = "d1" THEN <<1, Newline>> ELSE <<2, 3, Newline>>
      [] line = <<"ls">> -> IF dir = "d1" THEN <<1, 2, 3, 4, 5, Newline>> ELSE << >>
      [] line = <<"cd", "none">> -> <<4, Newline>>
      [] OTHER -> << >>

MCEndless == {<<"ls">>}

MCHelp == <<3, 2, Newline>>
MCLogs == {<< >>, <<3, Newline, 1, 2>>}
=============================================================================
