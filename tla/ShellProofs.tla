---------------------------- MODULE ShellProofs ----------------------------
(***************************************************************************)
(* For every packet and buffer size, any command lines, directories and    *)
(* outputs, and any number of clients one after the other: the pull-out    *)
(* offsets stay within what a command left, the text shown is that of the  *)
(* command that was sent, and the prompt tells the server's directory.     *)
(***************************************************************************)
EXTENDS Shell, SeqFacts

Byte == Nat \ {0}

LEMMA Assumptions ==
    /\ Home \in Dirs /\ ProtSize \in Nat \ {0} /\ BufSize \in Nat \ {0}
    /\ MaxSession \in Nat /\ MaxCmd \in Nat /\ PopenMayFail \in BOOLEAN /\ Pwd \in Lines
    /\ \A line \in Lines, d \in Dirs : Output(line, d) \in Seq(Byte)
    /\ Help \in Seq(Byte) /\ Logs \subseteq Seq(Byte) /\ Unfixed \notin Seq(Nat)
  BY ShellAssumption DEF Byte

LEMMA BytesAreNat == ASSUME NEW s \in Seq(Byte) PROVE s \in Seq(Nat)
<1>1. Byte \subseteq Nat
  BY DEF Byte
<1> QED BY <1>1, SeqMonotonic

-----------------------------------------------------------------------------
(* Datagrams.                                                                *)

LEMMA ZerosFacts ==
    ASSUME NEW n \in Nat
    PROVE  /\ Zeros(n) \in Seq(Nat) /\ Len(Zeros(n)) = n
           /\ \A i \in 1 .. n : Zeros(n)[i] = 0
<1>1. Zeros(n) \in [1 .. n -> Nat]
  BY DEF Zeros
<1>2. Zeros(n) \in Seq(Nat) /\ Len(Zeros(n)) = n
  BY <1>1, FunctionIsSeq
<1> QED BY <1>2 DEF Zeros

(* A string filled up with zeros reads as the string. *)
LEMMA CStrFacts ==
    ASSUME NEW s \in Seq(Byte), NEW n \in Nat
    PROVE  CStr(s \o Zeros(n)) = s
<1>1. PICK d \in Seq(Nat) : d = s \o Zeros(n)
  BY BytesAreNat, ZerosFacts, JoinFacts
<1>2. PICK k \in Nat : k = Len(s)
  OBVIOUS
<1>3. /\ Len(d) = k + n /\ \A i \in 1 .. k : d[i] = s[i]
      /\ \A i \in 1 .. n : d[k + i] = 0
  BY <1>1, <1>2, BytesAreNat, ZerosFacts, JoinFacts
<1>4. \A i \in 1 .. k : d[i] # 0
  BY <1>2, <1>3 DEF Byte
<1>5. CASE n = 0
  <2>1. {i \in 1 .. Len(d) : d[i] = 0} = {}
    BY <1>3, <1>4, <1>5
  <2>2. d = s
    <3>1. s \in Seq(Nat) /\ Len(d) = Len(s) /\ \A i \in 1 .. Len(s) : d[i] = s[i]
      BY <1>2, <1>3, <1>5, BytesAreNat
    <3> QED BY <3>1, SeqEqual
  <2> QED BY <1>1, <2>1, <2>2 DEF CStr
<1>6. CASE n > 0
  <2> DEFINE ends == {i \in 1 .. Len(d) : d[i] = 0}
  <2>1. k + 1 \in ends /\ \A j \in ends : k + 1 <= j
    <3>1. k + 1 \in 1 .. Len(d) /\ d[k + 1] = 0
      BY <1>3, <1>6
    <3>2. ASSUME NEW j \in ends PROVE k + 1 <= j
      BY <1>3, <1>4
    <3> QED BY <3>1, <3>2
  <2>2. ends \subseteq Nat
    OBVIOUS
  <2>3. PICK c : c = CHOOSE i \in ends : \A j \in ends : i <= j
    OBVIOUS
  <2>4. c \in ends /\ \A j \in ends : c <= j
    <3> HIDE DEF ends
    <3> QED BY <2>1, <2>3
  <2>5. c = k + 1
    BY <2>1, <2>2, <2>4
  <2>6. CStr(d) = SubSeq(d, 1, k)
    <3>1. ends # {} /\ c - 1 = k
      BY <2>1, <2>5
    <3> QED BY <2>3, <3>1 DEF CStr
  <2>7. SubSeq(d, 1, k) = s
    <3>1. /\ SubSeq(d, 1, k) \in Seq(Nat) /\ Len(SubSeq(d, 1, k)) = k
          /\ \A i \in 1 .. k : SubSeq(d, 1, k)[i] = d[i]
      <4>1. 1 \in Nat /\ 1 <= k + 1 /\ k <= Len(d)
        BY <1>3
      <4>2. /\ SubSeq(d, 1, k) \in Seq(Nat) /\ Len(SubSeq(d, 1, k)) = k - 1 + 1
            /\ \A i \in 1 .. k - 1 + 1 : SubSeq(d, 1, k)[i] = d[1 + i - 1]
        BY <4>1, SliceFacts
      <4> QED BY <4>2
    <3>2. \A i \in 1 .. k : SubSeq(d, 1, k)[i] = s[i]
      BY <1>3, <3>1
    <3> QED BY <1>2, <3>1, <3>2, BytesAreNat, SeqEqual
  <2> QED BY <1>1, <2>6, <2>7
<1> QED BY <1>5, <1>6

LEMMA PieceRead ==
    ASSUME NEW s \in Seq(Byte), Len(s) <= ProtSize
    PROVE  /\ s \o Zeros(ProtSize - Len(s)) \in Seq(Nat)
           /\ CStr(Pad(s \o Zeros(ProtSize - Len(s)))) = s
<1>1. PICK n \in Nat : n = ProtSize - Len(s)
  BY Assumptions
<1>2. PICK d \in Seq(Nat) : d = s \o Zeros(n)
  BY BytesAreNat, ZerosFacts, JoinFacts
<1>3. Len(d) = ProtSize
  BY <1>1, <1>2, Assumptions, BytesAreNat, ZerosFacts, JoinFacts
<1>4. Pad(d) = d
  <2>1. ProtSize - Len(d) = 0 /\ Pad(d) = d \o Zeros(0)
    BY <1>3, Assumptions DEF Pad
  <2>2. Zeros(0) \in Seq(Nat) /\ Len(Zeros(0)) = 0
    BY ZerosFacts
  <2>3. Zeros(0) = << >>
    BY <2>2
  <2> QED BY <2>1, <2>3
<1> QED BY <1>1, <1>2, <1>4, CStrFacts

LEMMA EmptyRead ==
    /\ << >> \in Seq(Nat) /\ Zeros(ProtSize) \in Seq(Nat)
    /\ CStr(Pad(<< >>)) = << >> /\ CStr(Pad(Zeros(ProtSize))) = << >>
    /\ Pad(<< >>)[1] = 0 /\ Pad(Zeros(ProtSize))[1] = 0
<1>1. PICK p \in Nat \ {0} : p = ProtSize
  BY Assumptions
<1>2. Zeros(p) \in Seq(Nat) /\ Len(Zeros(p)) = p /\ Zeros(p)[1] = 0
  BY ZerosFacts
<1>3. Zeros(0) = << >>
  <2>1. Zeros(0) \in Seq(Nat) /\ Len(Zeros(0)) = 0
    BY ZerosFacts
  <2> QED BY <2>1
<1>4. << >> \in Seq(Byte) /\ << >> \o Zeros(p) = Zeros(p)
  BY <1>2
<1>5. Pad(<< >>) = Zeros(p) /\ Pad(Zeros(p)) = Zeros(p)
  <2>1. p - Len(<< >>) = p /\ p - Len(Zeros(p)) = 0
    BY <1>2
  <2>2. Zeros(p) \o << >> = Zeros(p)
    BY <1>2
  <2> QED BY <1>1, <1>3, <1>4, <2>1, <2>2 DEF Pad
<1>6. CStr(Zeros(p)) = << >>
  <2>1. CStr(<< >> \o Zeros(p)) = << >>
    BY <1>4, CStrFacts
  <2> QED BY <1>4, <2>1
<1> QED BY <1>1, <1>2, <1>5, <1>6

LEMMA SizeRead ==
    ASSUME NEW n \in Nat
    PROVE  /\ <<n>> \o Zeros(ProtSize - 1) \in Seq(Nat)
           /\ Pad(<<n>> \o Zeros(ProtSize - 1))[1] = n
<1>1. PICK k \in Nat : k = ProtSize - 1
  BY Assumptions
<1>0. <<n>> \in Seq(Nat) /\ Len(<<n>>) = 1 /\ <<n>>[1] = n
  OBVIOUS
<1>2. PICK d \in Seq(Nat) : d = <<n>> \o Zeros(k)
  BY <1>0, ZerosFacts, JoinFacts
<1>3. Len(d) = k + 1 /\ d[1] = n
  BY <1>0, <1>2, ZerosFacts, JoinFacts
<1>4. Pad(d) = d \o Zeros(0)
  BY <1>1, <1>3, Assumptions DEF Pad
<1>5. (d \o Zeros(0))[1] = d[1]
  BY <1>3, ZerosFacts, JoinFacts
<1> QED BY <1>1, <1>2, <1>3, <1>4, <1>5
-----------------------------------------------------------------------------
(* What is shown of a text.                                                  *)

(* The prefix of a sequence, and a slice that follows it. *)
LEMMA PieceFacts ==
    ASSUME NEW s \in Seq(Byte), NEW d \in Nat, NEW n \in Nat, d + n <= Len(s)
    PROVE  /\ SubSeq(s, d + 1, d + n) \in Seq(Byte) /\ Len(SubSeq(s, d + 1, d + n)) = n
           /\ \A i \in 1 .. n : SubSeq(s, d + 1, d + n)[i] = s[d + i]
<1>1. PICK m \in Nat, k \in Nat : m = d + 1 /\ k = d + n
  OBVIOUS
<1>2. 1 <= m /\ k <= Len(s) /\ m <= k + 1
  BY <1>1
<1>3. /\ SubSeq(s, m, k) \in Seq(Byte) /\ Len(SubSeq(s, m, k)) = k - m + 1
      /\ \A i \in 1 .. k - m + 1 : SubSeq(s, m, k)[i] = s[m + i - 1]
  BY <1>2, SliceFacts
<1>4. k - m + 1 = n /\ \A i \in 1 .. n : m + i - 1 = d + i
  BY <1>1
<1> QED BY <1>1, <1>3, <1>4

LEMMA HeadFacts ==
    ASSUME NEW s \in Seq(Byte), NEW n \in Nat, n <= Len(s)
    PROVE  /\ SubSeq(s, 1, n) \in Seq(Byte) /\ Len(SubSeq(s, 1, n)) = n
           /\ \A i \in 1 .. n : SubSeq(s, 1, n)[i] = s[i]
<1>1. PICK z \in Nat : z = 0
  OBVIOUS
<1>2. z + n <= Len(s) /\ z + n = n /\ z + 1 = 1 /\ \A i \in 1 .. n : z + i = i
  BY <1>1
<1>3. /\ SubSeq(s, z + 1, z + n) \in Seq(Byte) /\ Len(SubSeq(s, z + 1, z + n)) = n
      /\ \A i \in 1 .. n : SubSeq(s, z + 1, z + n)[i] = s[z + i]
  BY <1>2, PieceFacts
<1> QED BY <1>2, <1>3

LEMMA WholeSlice ==
    ASSUME NEW s \in Seq(Byte)
    PROVE  SubSeq(s, 1, Len(s)) = s /\ SubSeq(s, 1, 0) = << >>
  OBVIOUS

LEMMA StripFacts ==
    ASSUME NEW s \in Seq(Byte)
    PROVE  /\ Strip(s) \in Seq(Byte)
           /\ (s = << >> \/ s[Len(s)] # Newline => Strip(s) = s)
           /\ (s # << >> /\ s[Len(s)] = Newline => Strip(s) = SubSeq(s, 1, Len(s) - 1))
           /\ \A k \in Nat : k < Len(s) => k <= Len(Strip(s)) /\ SubSeq(Strip(s), 1, k) = SubSeq(s, 1, k)
<1>1. CASE s = << >> \/ s[Len(s)] # Newline
  BY <1>1 DEF Strip
<1>2. CASE s # << >> /\ s[Len(s)] = Newline
  <2>1. Strip(s) = SubSeq(s, 1, Len(s) - 1) /\ Strip(s) \in Seq(Byte) /\ Len(Strip(s)) = Len(s) - 1
    BY <1>2, FrontFacts DEF Strip
  <2>2. ASSUME NEW k \in Nat, k < Len(s)
        PROVE  k <= Len(Strip(s)) /\ SubSeq(Strip(s), 1, k) = SubSeq(s, 1, k)
    <3>1. PICK m \in Nat : m = Len(s) - 1
      BY <1>2
    <3>2. k <= m /\ m <= Len(s)
      BY <2>2, <3>1
    <3>3. SubSeq(SubSeq(s, 1, m), 1, k) = SubSeq(s, 1, k)
      BY <3>2, PrefixOfPrefix
    <3> QED BY <2>1, <3>1, <3>2, <3>3
  <2> QED BY <1>2, <2>1, <2>2
<1> QED BY <1>1, <1>2

(* Only the newline at the very end is dropped by the last piece. *)
LEMMA LastPiece ==
    ASSUME NEW s \in Seq(Byte), NEW d \in Nat, NEW n \in Nat, d + n = Len(s), n > 0
    PROVE  SubSeq(s, 1, d) \o Strip(SubSeq(s, d + 1, d + n)) = Strip(s)
<1>0. d + n <= Len(s)
  OBVIOUS
<1>1. PICK t \in Seq(Byte) : t = SubSeq(s, d + 1, d + n)
  BY <1>0, PieceFacts
<1>2. Len(t) = n /\ t # << >> /\ t[n] = s[Len(s)] /\ s # << >>
  BY <1>0, <1>1, PieceFacts
<1>3. CASE s[Len(s)] # Newline
  <2>1. Strip(t) = t /\ Strip(s) = s
    BY <1>2, <1>3, StripFacts
  <2>2. SubSeq(s, 1, d) \o t = SubSeq(s, 1, d + n)
    BY <1>1, PrefixGrows
  <2> QED BY <1>1, <2>1, <2>2, WholeSlice
<1>4. CASE s[Len(s)] = Newline
  <2>1. PICK m \in Nat : m = n - 1
    OBVIOUS
  <2>2. Strip(s) = SubSeq(s, 1, d + m) /\ Strip(t) = SubSeq(t, 1, m)
    <3>1. Len(s) - 1 = d + m /\ Len(t) - 1 = m
      BY <1>2, <2>1
    <3> QED BY <1>2, <1>4, <3>1, StripFacts
  <2>3. SubSeq(t, 1, m) = SubSeq(s, d + 1, d + m)
    <3>0. d + m <= Len(s) /\ m <= Len(t)
      BY <1>2, <2>1
    <3>1. PICK a \in Seq(Byte) : a = SubSeq(s, d + 1, d + m)
      BY <3>0, PieceFacts
    <3>2. Len(a) = m /\ \A i \in 1 .. m : a[i] = s[d + i]
      BY <3>0, <3>1, PieceFacts
    <3>3. PICK b \in Seq(Byte) : b = SubSeq(t, 1, m)
      BY <3>0, HeadFacts
    <3>4. Len(b) = m /\ \A i \in 1 .. m : b[i] = t[i]
      BY <3>0, <3>3, HeadFacts
    <3>5. \A i \in 1 .. m : t[i] = s[d + i]
      <4>1. \A i \in 1 .. n : t[i] = s[d + i]
        BY <1>0, <1>1, PieceFacts
      <4> QED BY <2>1, <4>1
    <3>6. a = b
      BY <3>2, <3>4, <3>5, SeqEqual
    <3> QED BY <3>1, <3>3, <3>6
  <2>4. SubSeq(s, 1, d) \o SubSeq(s, d + 1, d + m) = SubSeq(s, 1, d + m)
    BY <2>1, PrefixGrows
  <2> QED BY <1>1, <2>2, <2>3, <2>4
<1> QED BY <1>3, <1>4

-----------------------------------------------------------------------------
(* What a command may leave.                                                 *)

LEMMA PrefixFacts ==
    ASSUME NEW s \in Seq(Byte), NEW n \in Nat
    PROVE  /\ Prefix(s, n) \in Seq(Byte) /\ Len(Prefix(s, n)) <= Len(s)
           /\ \A i \in 1 .. Len(Prefix(s, n)) : Prefix(s, n)[i] = s[i]
<1>1. CASE Len(s) <= n
  BY <1>1 DEF Prefix
<1>2. CASE ~(Len(s) <= n)
  <2>1. n <= Len(s)
    BY <1>2
  <2>2. /\ SubSeq(s, 1, n) \in Seq(Byte) /\ Len(SubSeq(s, 1, n)) = n
        /\ \A i \in 1 .. n : SubSeq(s, 1, n)[i] = s[i]
    BY <2>1, HeadFacts
  <2> QED BY <1>2, <2>2 DEF Prefix
<1> QED BY <1>1, <1>2

LEMMA TextsAreBytes == ASSUME NEW t \in Texts PROVE t \in Seq(Byte)
<1>1. << >> \in Seq(Byte) /\ <<Newline>> \in Seq(Byte)
  BY DEF Byte, Newline
<1>2. ASSUME NEW l \in Lines, NEW d \in Dirs, NEW n \in 0 .. BufSize - 1
      PROVE  Prefix(Output(l, d), n) \in Seq(Byte)
  BY Assumptions, PrefixFacts
<1>3. \/ t \in {<< >>, <<Newline>>, Help} \/ t \in Logs
      \/ \E l \in Lines, d \in Dirs, n \in 0 .. BufSize - 1 : t = Prefix(Output(l, d), n)
  BY DEF Texts
<1> QED BY <1>1, <1>2, <1>3, Assumptions

(* A prefix of a prefix is a prefix. *)
LEMMA ShorterPrefix ==
    ASSUME NEW s \in Seq(Byte), NEW m \in Nat, NEW n \in Nat, n <= Len(s)
    PROVE  \E k \in 0 .. m : Prefix(SubSeq(s, 1, n), m) = Prefix(s, k)
<1>1. PICK t \in Seq(Byte) : t = SubSeq(s, 1, n)
  BY HeadFacts
<1>2. Len(t) = n
  BY <1>1, PrefixOfPrefix
<1>3. CASE n <= m
  <2>1. Prefix(t, m) = t
    BY <1>2, <1>3 DEF Prefix
  <2>2. Prefix(s, n) = t
    <3>1. CASE n = Len(s)
      BY <1>1, <3>1, WholeSlice DEF Prefix
    <3>2. CASE n < Len(s)
      BY <1>1, <3>2 DEF Prefix
    <3> QED BY <3>1, <3>2
  <2> QED BY <1>1, <1>3, <2>1, <2>2
<1>4. CASE n > m
  <2>1. Prefix(t, m) = SubSeq(t, 1, m) /\ Prefix(s, m) = SubSeq(s, 1, m)
    BY <1>2, <1>4 DEF Prefix
  <2>2. SubSeq(t, 1, m) = SubSeq(s, 1, m)
    BY <1>1, <1>4, PrefixOfPrefix
  <2>3. m \in 0 .. m
    OBVIOUS
  <2> QED BY <1>1, <2>1, <2>2, <2>3
<1> QED BY <1>3, <1>4

LEMMA PrintedFacts ==
    ASSUME cwd \in Dirs, NEW line \in Lines, NEW out \in Printed(line)
    PROVE  out \in Texts /\ (line = Pwd => out = Prefix(Output(Pwd, cwd), BufSize - 1))
<1>1. PICK m \in Nat : m = BufSize - 1
  BY Assumptions
<1>2. PICK s \in Seq(Byte) : s = Output(line, cwd)
  BY Assumptions
<1>3. ASSUME NEW k \in 0 .. m PROVE Prefix(s, k) \in Texts
  BY <1>1, <1>2, <1>3 DEF Texts
<1>4. CASE out = Prefix(s, m)
  BY <1>1, <1>2, <1>3, <1>4
<1>5. CASE line # Pwd /\ \E n \in 0 .. Len(s) : out = Prefix(SubSeq(s, 1, n), m)
  <2>1. PICK n \in 0 .. Len(s) : out = Prefix(SubSeq(s, 1, n), m)
    BY <1>5
  <2>2. n \in Nat /\ n <= Len(s)
    OBVIOUS
  <2> QED BY <1>3, <1>5, <2>1, <2>2, ShorterPrefix
<1> QED BY <1>1, <1>2, <1>4, <1>5 DEF Printed
-----------------------------------------------------------------------------
(* The invariant.                                                            *)

MshLines == {<< >>, <<"log">>, <<"x">>}
Requests == [sess : Nat, chan : {"RUN_CMD", "MSH_CMD", "RUN_CMD_PULLOUT", "MSH_CMD_PULLOUT"},
             line : Lines \cup MshLines, cp : 0 .. ProtSize]
Dgrams == {s \in Seq(Nat) : Len(s) <= ProtSize}

ServerInv ==
    /\ udb_auth_ok \in BOOLEAN /\ cwd \in Dirs /\ blocked \in BOOLEAN
    /\ pullout \in [Kinds -> Seq(Nat)]
    /\ used_size \in [Kinds -> Nat] /\ cp_offset \in [Kinds -> Nat]
    /\ \A k \in Kinds : cp_offset[k] <= used_size[k] /\ used_size[k] <= Len(pullout[k])

RequestsInv ==
    /\ inbox \in Seq(Requests)
    /\ \A i \in 1 .. Len(inbox) : /\ inbox[i].chan = "RUN_CMD" => inbox[i].line \in Lines
                                  /\ inbox[i].sess <= session

ClientInv ==
    /\ cpc \in {"idle", "size", "piece", "shown", "prompt", "done", "killed"}
    /\ mode \in {"none", "shell", "exec", "msh"} /\ doing \in {"first", "pwd", "cmd"}
    /\ session \in 0 .. MaxSession /\ typed \in 0 .. MaxCmd
    /\ get_size \in Nat /\ cp_size \in 0 .. ProtSize /\ so_rcvtimeo \in BOOLEAN
    /\ cpc = "piece" => cp_size = PieceSize(get_size)
    /\ doing # "cmd" => mode = "shell"
    /\ cpc = "shown" => mode = "shell"
    /\ cpc = "prompt" => doing # "cmd"

(* What holds of every client, also of one that a time-out has put out of step. *)
Types == ServerInv /\ RequestsInv /\ ClientInv /\ mail \in Seq(Dgrams)

(* Only the last request in the queue can be the current client's. *)
OrderInv == \A i \in 1 .. Len(inbox) : i < Len(inbox) => inbox[i].sess < session

(* A client that waits has one request in the queue, the last one, or one    *)
(* answer, and then everything before its request was served too; or the     *)
(* server has stopped serving.                                               *)
WayInv ==
    /\ Len(mail) <= 1 /\ text \in Seq(Nat)
    /\ Waiting => \/ mail = << >> /\ inbox # << >> /\ inbox[Len(inbox)].sess = session
                  \/ mail # << >> /\ inbox = << >> /\ ~blocked
                  \/ mail = << >> /\ blocked
    /\ ~Waiting => mail = << >>
    /\ ~Waiting /\ cpc # "killed" => inbox = << >>

(* What this command left: for a pwd, the server's present directory. *)
SnapOK ==
    /\ snap \in Texts
    /\ doing # "cmd" /\ snap # << >> => snap = Prefix(Output(Pwd, cwd), BufSize - 1)

(* The server has n bytes less than all of it still to hand out. *)
Kept(n) ==
    snap # << >> => /\ udb_auth_ok
                    /\ pullout[Kind] = snap /\ used_size[Kind] = Len(snap) /\ cp_offset[Kind] = n

LastCommand ==
    /\ inbox[Len(inbox)].chan = Kind
    /\ doing # "cmd" => inbox[Len(inbox)].line = Pwd

CommandInv ==
    cpc = "size" =>
        /\ mail = << >> => snap = Unfixed
        /\ (mail = << >> /\ ~blocked) => LastCommand
        /\ mail # << >> => SnapOK /\ Kept(0) /\ Pad(mail[1])[1] = Len(snap)

Drained == Len(snap) - get_size

PieceInv ==
    cpc = "piece" =>
        /\ ~blocked /\ SnapOK /\ get_size <= Len(snap)
        /\ get_size = 0 => snap = << >>
        /\ mail = << >> => /\ Len(inbox) = 1 /\ inbox[1].cp = cp_size
                           /\ inbox[1].chan = PulloutOf(Kind)
                           /\ Kept(Drained)
        /\ mail # << >> => /\ CStr(Pad(mail[1])) = SubSeq(snap, Drained + 1, Drained + cp_size)
                           /\ cp_size # get_size => Kept(Drained + cp_size)

RestInv == (cpc \in {"shown", "prompt", "done"} => SnapOK) /\ (cpc = "idle" => snap = Unfixed)

(* A client in step with the server. *)
Inv == Types /\ OrderInv /\ WayInv /\ CommandInv /\ PieceInv /\ RestInv

(* The text shown so far. *)
TextInv ==
    /\ cpc \in {"idle", "size"} => text = << >>
    /\ cpc = "piece" => text = SubSeq(snap, 1, Drained)
    /\ cpc \in {"shown", "prompt", "done"} => text = Shown(snap)
-----------------------------------------------------------------------------
(* The server's steps.                                                       *)

LEMMA QueueHead ==
    ASSUME RequestsInv, inbox # << >>
    PROVE  /\ Head(inbox) \in Requests /\ Head(inbox) = inbox[1] /\ Len(inbox) \in Nat \ {0}
           /\ Tail(inbox) \in Seq(Requests) /\ Len(Tail(inbox)) = Len(inbox) - 1
           /\ \A i \in 1 .. Len(inbox) - 1 : Tail(inbox)[i] = inbox[i + 1]
  BY TailFacts DEF RequestsInv

LEMMA QueueServed ==
    ASSUME RequestsInv, inbox # << >>, inbox' = Tail(inbox), session' = session
    PROVE  RequestsInv' /\ (OrderInv => OrderInv')
<1>1. PICK q \in Seq(Requests) : q = Tail(inbox)
  BY QueueHead
<1>2. Len(q) = Len(inbox) - 1 /\ Len(inbox) \in Nat \ {0} /\ \A i \in 1 .. Len(q) : q[i] = inbox[i + 1]
  BY <1>1, QueueHead
<1>3. ASSUME NEW i \in 1 .. Len(q)
      PROVE  /\ q[i].chan = "RUN_CMD" => q[i].line \in Lines
             /\ q[i].sess <= session
             /\ OrderInv /\ i < Len(q) => q[i].sess < session
  <2>1. i + 1 \in 1 .. Len(inbox) /\ (i < Len(q) => i + 1 < Len(inbox)) /\ q[i] = inbox[i + 1]
    BY <1>2
  <2> QED BY <2>1 DEF RequestsInv, OrderInv
<1>4. inbox' = q /\ session' = session
  BY <1>1
<1>5. RequestsInv'
  BY <1>3, <1>4 DEF RequestsInv
<1>6. OrderInv => OrderInv'
  BY <1>3, <1>4 DEF OrderInv
<1> QED BY <1>5, <1>6

-----------------------------------------------------------------------------
(* The types, for every client.                                              *)

LEMMA EmptyDgrams ==
    /\ << >> \in Dgrams /\ Zeros(ProtSize) \in Dgrams
    /\ \A n \in Nat : <<n>> \o Zeros(ProtSize - 1) \in Dgrams
<1>1. PICK k \in Nat : k = ProtSize - 1
  BY Assumptions
<1>2. /\ Zeros(k) \in Seq(Nat) /\ Len(Zeros(k)) = k
      /\ Zeros(ProtSize) \in Seq(Nat) /\ Len(Zeros(ProtSize)) = ProtSize
  BY Assumptions, ZerosFacts
<1>3. << >> \in Dgrams /\ Zeros(ProtSize) \in Dgrams
  BY <1>2, Assumptions, EmptySeq DEF Dgrams
<1>4. ASSUME NEW n \in Nat PROVE <<n>> \o Zeros(k) \in Dgrams
  <2>1. <<n>> \in Seq(Nat) /\ Len(<<n>>) = 1
    OBVIOUS
  <2>2. PICK d : d = <<n>> \o Zeros(k)
    OBVIOUS
  <2>3. d \in Seq(Nat) /\ Len(d) = 1 + k
    BY <1>2, <2>1, <2>2, JoinFacts
  <2>4. Len(d) <= ProtSize
    BY <1>1, <2>3, Assumptions
  <2> QED BY <2>2, <2>3, <2>4 DEF Dgrams
<1> QED BY <1>1, <1>3, <1>4

LEMMA AnswerSent ==
    ASSUME mail \in Seq(Dgrams), NEW m \in Dgrams, SendTo(m)
    PROVE  mail' \in Seq(Dgrams)
  BY AppendFacts DEF SendTo

LEMMA AnnounceTypes ==
    ASSUME ServerInv, mail \in Seq(Dgrams), cwd' \in Dirs, UNCHANGED <<udb_auth_ok, blocked>>,
           NEW kind \in Kinds, NEW out \in Texts, Announce(kind, out)
    PROVE  ServerInv' /\ mail' \in Seq(Dgrams)
<1>1. out \in Seq(Nat) /\ Len(out) \in Nat
  BY TextsAreBytes, BytesAreNat
<1>2. /\ pullout' = [pullout EXCEPT ![kind] = out]
      /\ used_size' = [used_size EXCEPT ![kind] = Len(out)]
      /\ cp_offset' = [cp_offset EXCEPT ![kind] = 0]
      /\ SendTo(<<Len(out)>> \o Zeros(ProtSize - 1))
  BY DEF Announce
<1>3. ServerInv'
  BY <1>1, <1>2 DEF ServerInv
<1> QED BY <1>1, <1>2, <1>3, EmptyDgrams, AnswerSent

LEMMA FailTypes ==
    ASSUME ServerInv, mail \in Seq(Dgrams), UNCHANGED <<udb_auth_ok, cwd, blocked, used_size, cp_offset>>,
           NEW kind \in Kinds, pullout' = [pullout EXCEPT ![kind] = Zeros(Len(@))],
           NEW m \in Dgrams, SendTo(m)
    PROVE  ServerInv' /\ mail' \in Seq(Dgrams)
<1>1. PICK n \in Nat : n = Len(pullout[kind])
  BY DEF ServerInv
<1>2. pullout' = [pullout EXCEPT ![kind] = Zeros(n)] /\ Zeros(n) \in Seq(Nat) /\ Len(Zeros(n)) = n
  BY <1>1, ZerosFacts
<1> QED BY <1>1, <1>2, AnswerSent DEF ServerInv

LEMMA RuncmdTypes ==
    ASSUME Types, udb_debug_runcmd
    PROVE  ServerInv' /\ mail' \in Seq(Dgrams)
<1> DEFINE line == Head(inbox).line
           ret == InputHandle(line)
<1>0. /\ inbox # << >> /\ Head(inbox).chan = "RUN_CMD" /\ UNCHANGED udb_auth_ok /\ "RUN_CMD" \in Kinds
      /\ cwd' = IF ret = 1 /\ line[1] = "cd" THEN Chdir(line) ELSE cwd
  BY DEF udb_debug_runcmd, Received, Kinds
<1>1. cwd \in Dirs /\ cwd' \in Dirs /\ ServerInv /\ mail \in Seq(Dgrams)
  BY <1>0 DEF Chdir, Types, ServerInv
<1>2. line \in Lines
  BY <1>0, QueueHead DEF Types, RequestsInv
<1> HIDE DEF ret, line
<1>5. CASE Announce("RUN_CMD", <<Newline>>) /\ UNCHANGED blocked
  <2>1. <<Newline>> \in Texts
    BY DEF Texts
  <2> QED BY <1>0, <1>1, <1>5, <2>1, AnnounceTypes
<1>6. CASE (\E out \in Printed(line) : Announce("RUN_CMD", out)) /\ UNCHANGED blocked
  <2>1. PICK out \in Printed(line) : Announce("RUN_CMD", out)
    BY <1>6
  <2>2. out \in Texts
    BY <1>1, <1>2, PrintedFacts
  <2> QED BY <1>0, <1>1, <1>6, <2>1, <2>2, AnnounceTypes
<1>7. CASE /\ ret # 1
           /\ pullout' = [pullout EXCEPT !["RUN_CMD"] = Zeros(Len(@))]
           /\ SendTo(<< >>) /\ UNCHANGED <<blocked, used_size, cp_offset>>
  <2>1. cwd' = cwd
    BY <1>0, <1>7
  <2> QED BY <1>0, <1>1, <1>7, <2>1, EmptyDgrams, FailTypes
<1>8. CASE ret # 1 /\ blocked' = TRUE /\ UNCHANGED <<ctrlVars, mail>>
  BY <1>0, <1>1, <1>8 DEF ServerInv, ctrlVars
<1> QED BY <1>5, <1>6, <1>7, <1>8 DEF udb_debug_runcmd, ret, line

LEMMA MshTypes ==
    ASSUME Types, udb_debug_msh
    PROVE  ServerInv' /\ mail' \in Seq(Dgrams)
<1>0. /\ UNCHANGED <<udb_auth_ok, cwd, blocked>> /\ "MSH_CMD" \in Kinds /\ cwd' \in Dirs
      /\ ServerInv /\ mail \in Seq(Dgrams)
  BY DEF udb_debug_msh, Kinds, Types, ServerInv
<1>1. CASE Announce("MSH_CMD", Help)
  <2>1. Help \in Texts
    BY DEF Texts
  <2> QED BY <1>0, <1>1, <2>1, AnnounceTypes
<1>2. CASE \E out \in Logs : Announce("MSH_CMD", out)
  <2>1. PICK out \in Logs : Announce("MSH_CMD", out)
    BY <1>2
  <2>2. out \in Texts
    BY DEF Texts
  <2> QED BY <1>0, <2>1, <2>2, AnnounceTypes
<1>3. CASE /\ pullout' = [pullout EXCEPT !["MSH_CMD"] = Zeros(Len(@))]
           /\ SendTo(Zeros(ProtSize)) /\ UNCHANGED <<used_size, cp_offset>>
  BY <1>0, <1>3, EmptyDgrams, FailTypes
<1> QED BY <1>1, <1>2, <1>3 DEF udb_debug_msh

(* A piece of the buffer that is asked for: inside what the command left. *)
LEMMA PulloutTypes ==
    ASSUME Types, NEW kind \in Kinds, udb_debug_pullout(kind)
    PROVE  ServerInv' /\ mail' \in Seq(Dgrams)
<1>0. /\ inbox # << >> /\ UNCHANGED <<udb_auth_ok, cwd, blocked>> /\ ServerInv /\ mail \in Seq(Dgrams)
  BY DEF udb_debug_pullout, Received, Types
<1>1. PICK n \in Nat, off \in Nat, used \in Nat :
         /\ n = Head(inbox).cp /\ off = cp_offset[kind] /\ used = used_size[kind] /\ off <= used
         /\ n <= ProtSize
  BY <1>0, QueueHead, Assumptions DEF Types, ServerInv, Requests
<1>2. PICK buf \in Seq(Nat) : buf = pullout[kind] /\ used <= Len(buf)
  BY <1>1 DEF Types, ServerInv
<1>3. ASSUME off + n > used PROVE SendTo(Zeros(ProtSize)) /\ UNCHANGED <<pullout, used_size, cp_offset>>
  BY <1>1, <1>3 DEF udb_debug_pullout, ctrlVars
<1>4. ASSUME ~(off + n > used)
      PROVE  /\ SendTo(SubSeq(buf, off + 1, off + n) \o Zeros(ProtSize - n))
             /\ off + n = used =>
                   /\ used_size' = [used_size EXCEPT ![kind] = 0]
                   /\ cp_offset' = [cp_offset EXCEPT ![kind] = 0]
                   /\ pullout' = [pullout EXCEPT ![kind] = << >>]
             /\ off + n # used => /\ cp_offset' = [cp_offset EXCEPT ![kind] = off + n]
                                  /\ UNCHANGED <<used_size, pullout>>
  BY <1>1, <1>2, <1>4 DEF udb_debug_pullout, NextOffset
<1>5. ServerInv'
  <2>1. CASE off + n > used
    BY <1>0, <1>3, <2>1 DEF ServerInv
  <2>0. /\ pullout \in [Kinds -> Seq(Nat)] /\ used_size \in [Kinds -> Nat] /\ cp_offset \in [Kinds -> Nat]
        /\ \A k \in Kinds : cp_offset[k] <= used_size[k] /\ used_size[k] <= Len(pullout[k])
        /\ udb_auth_ok' \in BOOLEAN /\ cwd' \in Dirs /\ blocked' \in BOOLEAN
    BY <1>0 DEF ServerInv
  <2>2. CASE ~(off + n > used) /\ off + n = used
    <3>1. PICK e \in Seq(Nat) : e = << >> /\ Len(e) = 0
      BY EmptySeq
    <3>2. /\ used_size' = [used_size EXCEPT ![kind] = 0] /\ cp_offset' = [cp_offset EXCEPT ![kind] = 0]
          /\ pullout' = [pullout EXCEPT ![kind] = e]
      BY <1>4, <2>2, <3>1
    <3>3. /\ pullout' \in [Kinds -> Seq(Nat)] /\ used_size' \in [Kinds -> Nat] /\ cp_offset' \in [Kinds -> Nat]
      BY <2>0, <3>2
    <3>4. \A k \in Kinds : cp_offset'[k] <= used_size'[k] /\ used_size'[k] <= Len(pullout'[k])
      BY <2>0, <3>1, <3>2
    <3> QED BY <2>0, <3>3, <3>4 DEF ServerInv
  <2>3. CASE ~(off + n > used) /\ off + n # used
    <3>1. PICK o \in Nat : o = off + n /\ o <= used
      BY <1>1, <2>3
    <3>2. cp_offset' = [cp_offset EXCEPT ![kind] = o] /\ used_size' = used_size /\ pullout' = pullout
      BY <1>4, <2>3, <3>1
    <3>3. \A k \in Kinds : cp_offset'[k] <= used_size[k] /\ used_size[k] <= Len(pullout[k])
      BY <1>1, <2>0, <3>1, <3>2
    <3> QED BY <2>0, <3>2, <3>3 DEF ServerInv
  <2> QED BY <2>1, <2>2, <2>3
<1>6. mail' \in Seq(Dgrams)
  <2>1. CASE off + n > used
    BY <1>0, <1>3, <2>1, EmptyDgrams, AnswerSent
  <2>2. CASE ~(off + n > used)
    <3>0. PICK z \in Nat : z = ProtSize - n
      BY <1>1, Assumptions
    <3>1. PICK a \in Nat, b \in Nat : a = off + 1 /\ b = off + n
      OBVIOUS
    <3>13. PICK l \in Nat : l = Len(buf) /\ used <= l
      BY <1>2
    <3>14. n \in Nat /\ off \in Nat /\ used \in Nat
      OBVIOUS
    <3>15. 1 <= a /\ b <= l /\ a <= b + 1
      BY <2>2, <3>1, <3>13, <3>14, SMT
    <3>2. 1 <= a /\ b <= Len(buf) /\ a <= b + 1
      BY <3>13, <3>15
    <3>10. SubSeq(buf, a, b) \in Seq(Nat) /\ Len(SubSeq(buf, a, b)) = b - a + 1
      BY <3>2, SliceFacts
    <3>11. b - a + 1 = n
      <4>1. n \in Nat /\ off \in Nat
        OBVIOUS
      <4> QED BY <3>1, <4>1, SMT
    <3>3. PICK c \in Seq(Nat) : c = SubSeq(buf, a, b) /\ Len(c) = n
      BY <3>10, <3>11
    <3>9. PICK y \in Seq(Nat) : y = Zeros(z) /\ Len(y) = z
      BY ZerosFacts
    <3>12. c \o y \in Seq(Nat) /\ Len(c \o y) = Len(c) + Len(y)
      BY JoinFacts
    <3>4. PICK d \in Seq(Nat) : d = c \o y /\ Len(d) = n + z
      BY <3>3, <3>9, <3>12
    <3>5. d \in Seq(Nat) /\ Len(d) = n + z
      BY <3>4
    <3>6. Len(d) = ProtSize
      BY <1>1, <3>0, <3>1, <3>5, Assumptions
    <3>7. d \in Dgrams
      BY <3>5, <3>6, Assumptions DEF Dgrams
    <3>8. SendTo(d)
      BY <1>4, <2>2, <3>0, <3>1, <3>3, <3>4, <3>9
    <3> QED BY <1>0, <3>7, <3>8, AnswerSent
  <2> QED BY <2>1, <2>2
<1> QED BY <1>5, <1>6

LEMMA ServerTypes == ASSUME Types, Server PROVE Types'
<1>1. inbox # << >> /\ inbox' = Tail(inbox) /\ UNCHANGED clientVars
  BY DEF Server, udb_debug_bridge_refuse, udb_debug_runcmd, udb_debug_msh, udb_debug_pullout, Received
<1>2. UNCHANGED <<session, mode, cpc, doing, typed, so_rcvtimeo, get_size, cp_size>>
  BY <1>1 DEF clientVars
<1>3. RequestsInv' /\ ClientInv'
  BY <1>1, <1>2, QueueServed DEF Types, ClientInv, PieceSize
<1>4. ServerInv' /\ mail' \in Seq(Dgrams)
  <2>1. CASE udb_debug_bridge_refuse
    <3>1. SendTo(<< >>) /\ UNCHANGED <<udb_auth_ok, cwd, blocked, pullout, used_size, cp_offset>>
      BY <2>1 DEF udb_debug_bridge_refuse, serverVars, ctrlVars
    <3>2. ServerInv'
      BY <3>1 DEF Types, ServerInv
    <3> QED BY <3>1, <3>2, EmptyDgrams, AnswerSent DEF Types
  <2> QED BY <2>1, RuncmdTypes, MshTypes, PulloutTypes DEF Server
<1> QED BY <1>3, <1>4 DEF Types

-----------------------------------------------------------------------------
(* The server's steps, while the client is in step.                          *)

(* When the head of the queue is not the current client's request, either    *)
(* its command is still in the queue or it was killed.                       *)
LEMMA HeadOfOther ==
    ASSUME Inv, inbox # << >>, ~Mine, ~blocked
    PROVE  \/ cpc = "killed"
           \/ cpc = "size" /\ mail = << >> /\ Len(inbox) > 1
<1>1. CASE Waiting
  <2>1. mail = << >> /\ inbox[Len(inbox)].sess = session
    BY <1>1 DEF Inv, WayInv
  <2>2. Len(inbox) # 1
    BY <1>1, <2>1, QueueHead DEF Mine, Running, Inv, Types
  <2>3. cpc = "size"
    BY <1>1, <2>1, <2>2 DEF Inv, PieceInv, Waiting
  <2> QED BY <2>1, <2>2, <2>3, QueueHead DEF Inv, Types
<1>2. CASE ~Waiting
  BY <1>2 DEF Inv, WayInv
<1> QED BY <1>1, <1>2

LEMMA HeadOfMine ==
    ASSUME Inv, inbox # << >>, Mine, ~blocked
    PROVE  /\ mail = << >> /\ Len(inbox) = 1 /\ Tail(inbox) = << >> /\ Head(inbox) = inbox[Len(inbox)]
           /\ cpc \in {"size", "piece"}
<1>1. mail = << >> /\ Waiting
  BY DEF Inv, WayInv, Mine, Running, Waiting
<1>2. Len(inbox) = 1
  <2>1. inbox[1].sess = session /\ Len(inbox) \in Nat \ {0} /\ session \in Nat
    BY QueueHead DEF Mine, Inv, Types, ClientInv
  <2>2. 1 < Len(inbox) => inbox[1].sess < session
    BY <2>1 DEF Inv, OrderInv
  <2> QED BY <2>1, <2>2
<1>3. RequestsInv
  BY DEF Inv, Types
<1>4. Tail(inbox) = << >>
  <2>1. Tail(inbox) \in Seq(Requests) /\ Len(Tail(inbox)) = Len(inbox) - 1
    BY <1>3, QueueHead
  <2>2. Len(Tail(inbox)) = 0
    BY <1>2, <2>1
  <2> QED BY <2>1, <2>2, EmptySeq
<1>5. Head(inbox) = inbox[1]
  BY <1>3, QueueHead
<1> QED BY <1>1, <1>2, <1>4, <1>5 DEF Waiting

(* The command of the current client, when it is at the head of the queue. *)
LEMMA HeadCommand ==
    ASSUME Inv, inbox # << >>, Mine, ~blocked, cpc = "size"
    PROVE  /\ Head(inbox).chan = Kind /\ snap = Unfixed
           /\ (doing # "cmd" => Head(inbox).line = Pwd)
<1>1. mail = << >> /\ Head(inbox) = inbox[Len(inbox)]
  BY HeadOfMine
<1>2. snap = Unfixed /\ LastCommand
  BY <1>1 DEF Inv, CommandInv
<1> QED BY <1>1, <1>2 DEF LastCommand

LEMMA ServeOther ==
    ASSUME Inv, Types', inbox # << >>, ~Mine, ~blocked, inbox' = Tail(inbox),
           UNCHANGED <<mail, snap, clientVars>>
    PROVE  Inv'
<1>0. UNCHANGED <<session, mode, cpc, doing, typed, get_size, cp_size, text>>
  BY DEF clientVars
<1>1. OrderInv'
  BY <1>0, QueueServed DEF Inv, Types
<1>2. CASE cpc = "killed"
  BY <1>0, <1>1, <1>2 DEF Inv, Types, WayInv, CommandInv, PieceInv, RestInv, Waiting
<1>3. CASE cpc = "size" /\ mail = << >> /\ Len(inbox) > 1
  <2>1. /\ inbox' # << >> /\ inbox'[Len(inbox')] = inbox[Len(inbox)]
    <3>1. PICK n \in Nat : n = Len(inbox) /\ n > 1
      BY <1>3, QueueHead DEF Inv, Types
    <3>0. RequestsInv
      BY DEF Inv, Types
    <3>2. /\ Tail(inbox) \in Seq(Requests) /\ Len(Tail(inbox)) = n - 1
          /\ \A i \in 1 .. n - 1 : Tail(inbox)[i] = inbox[i + 1]
      BY <3>0, <3>1, QueueHead
    <3>3. n - 1 \in 1 .. n - 1 /\ (n - 1) + 1 = n
      BY <3>1
    <3>4. Len(inbox') = n - 1 /\ inbox'[n - 1] = inbox[n]
      BY <3>2, <3>3
    <3>5. inbox' # << >>
      <4>1. Len(inbox') # 0
        BY <3>1, <3>4
      <4> QED BY <4>1
    <3> QED BY <3>1, <3>4, <3>5
  <2>2. inbox[Len(inbox)].sess = session
    BY <1>3 DEF Inv, Types, WayInv, Waiting
  <2>3. WayInv'
    BY <1>0, <1>3, <2>1, <2>2 DEF Inv, Types, WayInv, Waiting
  <2>4. CommandInv'
    BY <1>0, <1>3, <2>1 DEF Inv, CommandInv, LastCommand, Kind
  <2> QED BY <1>0, <1>1, <1>3, <2>3, <2>4 DEF Inv, Types, PieceInv, RestInv
<1> QED BY <1>2, <1>3, HeadOfOther

LEMMA ServeCommand ==
    ASSUME Inv, Types', inbox # << >>, Mine, ~blocked, ~blocked', cpc = "size", inbox' = Tail(inbox),
           UNCHANGED clientVars, NEW m \in Seq(Nat), mail' = Append(mail, m),
           SnapOK', Kept(0)', Pad(m)[1] = Len(snap')
    PROVE  Inv'
<1>0. UNCHANGED <<session, mode, cpc, doing, typed, get_size, cp_size, text>>
  BY DEF clientVars
<1>1. OrderInv'
  BY <1>0, QueueServed DEF Inv, Types
<1>2. mail' = <<m>> /\ inbox' = << >>
  BY HeadOfMine
<1>3. mail' \in Seq(Seq(Nat)) /\ Len(mail') = 1 /\ mail'[1] = m /\ mail' # << >>
  BY <1>2
<1>4. WayInv'
  BY <1>0, <1>2, <1>3 DEF Inv, WayInv, Waiting
<1>5. CommandInv'
  BY <1>0, <1>3 DEF CommandInv
<1> QED BY <1>0, <1>1, <1>4, <1>5 DEF Inv, Types, PieceInv, RestInv

LEMMA ServePiece ==
    ASSUME Inv, Types', inbox # << >>, Mine, ~blocked, ~blocked', cpc = "piece", inbox' = Tail(inbox),
           UNCHANGED <<clientVars, snap, cwd>>,
           NEW m \in Seq(Nat), mail' = Append(mail, m),
           CStr(Pad(m)) = SubSeq(snap, Drained + 1, Drained + cp_size),
           cp_size # get_size => Kept(Drained + cp_size)'
    PROVE  Inv'
<1>0. UNCHANGED <<session, mode, cpc, doing, typed, get_size, cp_size, text>>
  BY DEF clientVars
<1>1. OrderInv'
  BY <1>0, QueueServed DEF Inv, Types
<1>2. mail' = <<m>> /\ inbox' = << >>
  BY HeadOfMine
<1>3. mail' \in Seq(Seq(Nat)) /\ Len(mail') = 1 /\ mail'[1] = m /\ mail' # << >>
  BY <1>2
<1>4. WayInv'
  BY <1>0, <1>2, <1>3 DEF Inv, WayInv, Waiting
<1>5. PieceInv'
  BY <1>0, <1>3 DEF Inv, Types, PieceInv, SnapOK, Drained, PieceSize
<1> QED BY <1>0, <1>1, <1>4, <1>5 DEF Inv, Types, CommandInv, RestInv
(* A handler that leaves out in the buffer and announces it. *)
LEMMA AnnounceInv ==
    ASSUME Inv, InStep, Types', inbox # << >>, udb_auth_ok, ~blocked, inbox' = Tail(inbox),
           UNCHANGED <<udb_auth_ok, blocked, clientVars>>, cwd' \in Dirs,
           NEW kind \in Kinds, Head(inbox).chan = kind,
           NEW out \in Texts, Announce(kind, out),
           Mine /\ doing # "cmd" => out = Prefix(Output(Pwd, cwd'), BufSize - 1)
    PROVE  Inv'
<1>1. out \in Seq(Nat) /\ Len(out) \in Nat
  BY TextsAreBytes, BytesAreNat
<1>2. /\ pullout' = [pullout EXCEPT ![kind] = out]
      /\ used_size' = [used_size EXCEPT ![kind] = Len(out)]
      /\ cp_offset' = [cp_offset EXCEPT ![kind] = 0]
  BY DEF Announce
<1>4. CASE ~Mine
  <2>1. mail' = mail /\ snap' = snap
    BY <1>4 DEF Announce, SendTo, Record
  <2> QED BY <1>4, <2>1, ServeOther
<1>5. CASE Mine
  <2>1. cpc = "size" /\ Kind = kind
    <3>1. cpc \in {"size", "piece"} /\ mail = << >> /\ Head(inbox) = inbox[Len(inbox)] /\ Len(inbox) = 1
      BY <1>5, HeadOfMine
    <3>2. cpc # "piece"
      BY <3>1 DEF Inv, Types, PieceInv, PulloutOf, Kinds
    <3> QED BY <1>5, <3>1, <3>2, HeadCommand
  <2>2. PICK m \in Seq(Nat) : m = <<Len(out)>> \o Zeros(ProtSize - 1)
    BY <1>1, SizeRead
  <2>3. mail' = Append(mail, m) /\ snap' = out
    BY <1>5, <2>2 DEF Announce, SendTo, Record
  <2>4. Pad(m)[1] = Len(snap')
    BY <1>1, <2>2, <2>3, SizeRead
  <2>5. UNCHANGED <<mode, doing>>
    BY DEF clientVars
  <2>6. SnapOK'
    BY <1>5, <2>3, <2>5 DEF SnapOK
  <2>7. Kept(0)'
    BY <1>2, <2>1, <2>3, <2>5 DEF Kept, Kind, Inv, Types, ServerInv
  <2> QED BY <1>5, <2>1, <2>3, <2>4, <2>6, <2>7, ServeCommand
<1> QED BY <1>4, <1>5

(* A handler that zeroes the buffer and leaves the sizes as they were. *)
LEMMA FailInv ==
    ASSUME Inv, InStep, Types', inbox # << >>, ~blocked, inbox' = Tail(inbox),
           UNCHANGED <<udb_auth_ok, cwd, blocked, clientVars>>,
           NEW kind \in Kinds, Head(inbox).chan = kind,
           NEW m \in Seq(Nat), SendTo(m), Pad(m)[1] = 0, Record(<< >>)
    PROVE  Inv'
<1>2. CASE ~Mine
  <2>1. mail' = mail /\ snap' = snap
    BY <1>2 DEF SendTo, Record
  <2> QED BY <1>2, <2>1, ServeOther
<1>3. CASE Mine
  <2>1. cpc = "size"
    <3>1. cpc \in {"size", "piece"} /\ mail = << >> /\ Head(inbox) = inbox[Len(inbox)] /\ Len(inbox) = 1
      BY <1>3, HeadOfMine
    <3>2. cpc # "piece"
      BY <3>1 DEF Inv, Types, PieceInv, PulloutOf, Kinds
    <3> QED BY <3>1, <3>2
  <2>2. mail' = Append(mail, m) /\ snap' = << >> /\ Len(snap') = 0
    BY <1>3 DEF SendTo, Record
  <2>3. SnapOK' /\ Kept(0)'
    BY <2>2 DEF SnapOK, Texts, Kept
  <2> QED BY <1>3, <2>1, <2>2, <2>3, ServeCommand
<1> QED BY <1>2, <1>3

LEMMA RefuseInv == ASSUME Inv, InStep, Types', udb_debug_bridge_refuse PROVE Inv'
<1>0. /\ ~blocked /\ inbox # << >> /\ ~udb_auth_ok /\ inbox' = Tail(inbox) /\ SendTo(<< >>)
      /\ snap' = (IF Mine /\ snap = Unfixed THEN << >> ELSE snap)
      /\ UNCHANGED <<udb_auth_ok, cwd, blocked, pullout, used_size, cp_offset, clientVars>>
  BY DEF udb_debug_bridge_refuse, serverVars, ctrlVars, Record
<1>2. CASE ~Mine
  <2>1. mail' = mail /\ snap' = snap
    BY <1>0, <1>2 DEF SendTo
  <2> QED BY <1>0, <1>2, <2>1, ServeOther
<1>3. PICK m \in Seq(Nat) : m = << >>
  BY EmptyRead
<1>4. CASE Mine /\ cpc = "size"
  <2>1. mail' = Append(mail, m) /\ snap' = << >> /\ Len(snap') = 0 /\ Pad(m)[1] = 0
    <3>1. snap = Unfixed
      BY <1>0, <1>4, HeadOfMine DEF Inv, Types, CommandInv
    <3> QED BY <1>0, <1>3, <1>4, <3>1, EmptyRead DEF SendTo
  <2>2. SnapOK' /\ Kept(0)'
    BY <2>1 DEF SnapOK, Texts, Kept
  <2> QED BY <1>0, <1>4, <2>1, <2>2, ServeCommand
<1>5. CASE Mine /\ cpc = "piece"
  <2>1. /\ snap \in Seq(Nat) /\ Kept(Drained) /\ cp_size = PieceSize(get_size)
        /\ get_size <= Len(snap) /\ get_size \in Nat
    BY <1>0, <1>5, HeadOfMine, TextsAreBytes, BytesAreNat DEF Inv, Types, PieceInv, SnapOK, ClientInv
  <2>2. snap = << >>
    BY <1>0, <2>1 DEF Kept
  <2>3. get_size = 0 /\ cp_size = 0 /\ Drained = 0
    BY <2>1, <2>2, Assumptions DEF PieceSize, Drained
  <2>4. snap # Unfixed
    BY <2>1, Assumptions
  <2>5. mail' = Append(mail, m) /\ snap' = snap /\ CStr(Pad(m)) = << >>
    BY <1>0, <1>3, <1>5, <2>4, EmptyRead DEF SendTo
  <2>6. CStr(Pad(m)) = SubSeq(snap, Drained + 1, Drained + cp_size)
    BY <2>2, <2>3, <2>5
  <2> QED BY <1>0, <1>5, <2>3, <2>5, <2>6, ServePiece
<1> QED BY <1>0, <1>2, <1>4, <1>5, HeadOfMine

(* The command does not end: the current client has not got its answer. *)
LEMMA BlockInv ==
    ASSUME Inv, Types', inbox # << >>, Head(inbox).chan = "RUN_CMD", ~blocked, blocked',
           inbox' = Tail(inbox), UNCHANGED <<mail, snap, clientVars>>
    PROVE  Inv'
<1>0. UNCHANGED <<session, mode, cpc, doing, typed, get_size, cp_size, text>>
  BY DEF clientVars
<1>1. CASE ~Mine
  BY <1>1, ServeOther
<1>2. CASE Mine
  <2>1. /\ cpc \in {"size", "piece"} /\ mail = << >> /\ Head(inbox) = inbox[Len(inbox)]
        /\ Len(inbox) = 1 /\ inbox' = << >>
    BY <1>2, HeadOfMine
  <2>2. cpc = "size" /\ snap = Unfixed
    BY <2>1 DEF Inv, CommandInv, PieceInv, PulloutOf
  <2>3. OrderInv'
    BY <1>0, QueueServed DEF Inv, Types
  <2>4. WayInv'
    BY <1>0, <2>1, <2>2 DEF Inv, WayInv, Waiting
  <2>5. CommandInv' /\ PieceInv' /\ RestInv'
    BY <1>0, <2>1, <2>2 DEF CommandInv, PieceInv, RestInv
  <2> QED BY <2>3, <2>4, <2>5 DEF Inv
<1> QED BY <1>1, <1>2

LEMMA RuncmdInv == ASSUME Inv, InStep, Types', udb_debug_runcmd PROVE Inv'
<1> DEFINE line == Head(inbox).line
           ret == InputHandle(line)
<1>0. /\ ~blocked /\ inbox # << >> /\ Head(inbox).chan = "RUN_CMD" /\ udb_auth_ok /\ inbox' = Tail(inbox)
      /\ UNCHANGED <<udb_auth_ok, clientVars>> /\ "RUN_CMD" \in Kinds
      /\ cwd' = IF ret = 1 /\ line[1] = "cd" THEN Chdir(line) ELSE cwd
  BY DEF udb_debug_runcmd, Received, Kinds
<1>1. cwd \in Dirs /\ cwd' \in Dirs
  BY <1>0 DEF Chdir, Inv, Types, ServerInv
<1>2. line \in Lines
  BY <1>0, QueueHead DEF Inv, Types, RequestsInv
<1>3. InputHandle(Pwd) = 0
  BY DEF InputHandle, Pwd
<1>4. Mine /\ doing # "cmd" => line = Pwd /\ ret = 0
  <2> SUFFICES ASSUME Mine, doing # "cmd" PROVE line = Pwd
    BY <1>3
  <2>1. cpc \in {"size", "piece"} /\ mail = << >> /\ Head(inbox) = inbox[Len(inbox)] /\ Len(inbox) = 1
    BY <1>0, HeadOfMine
  <2>2. cpc # "piece"
    BY <1>0, <2>1 DEF Inv, Types, PieceInv, PulloutOf
  <2> QED BY <1>0, <2>1, <2>2, HeadCommand
<1> HIDE DEF ret, line
<1>5. CASE ret = 1 /\ Announce("RUN_CMD", <<Newline>>) /\ UNCHANGED blocked
  <2>1. <<Newline>> \in Texts
    BY DEF Texts
  <2> QED BY <1>0, <1>1, <1>4, <1>5, <2>1, AnnounceInv
<1>6. CASE ret # 1 /\ (\E out \in Printed(line) : Announce("RUN_CMD", out)) /\ UNCHANGED blocked
  <2>1. PICK out \in Printed(line) : Announce("RUN_CMD", out)
    BY <1>6
  <2>2. out \in Texts /\ (line = Pwd => out = Prefix(Output(Pwd, cwd), BufSize - 1))
    BY <1>1, <1>2, PrintedFacts
  <2>3. cwd' = cwd
    BY <1>0, <1>6
  <2> QED BY <1>0, <1>1, <1>4, <1>6, <2>1, <2>2, <2>3, AnnounceInv
<1>7. CASE ret # 1 /\ SendTo(<< >>) /\ Record(<< >>) /\ UNCHANGED <<blocked, used_size, cp_offset>>
  <2>1. cwd' = cwd
    BY <1>0, <1>7
  <2> QED BY <1>0, <1>7, <2>1, EmptyRead, FailInv
<1>8. CASE blocked' = TRUE /\ UNCHANGED <<mail, snap>>
  BY <1>0, <1>8, BlockInv
<1> QED BY <1>5, <1>6, <1>7, <1>8 DEF udb_debug_runcmd, ret, line

LEMMA MshInv == ASSUME Inv, InStep, Types', udb_debug_msh PROVE Inv'
<1> DEFINE line == Head(inbox).line
<1>0. /\ ~blocked /\ inbox # << >> /\ Head(inbox).chan = "MSH_CMD" /\ udb_auth_ok /\ inbox' = Tail(inbox)
      /\ UNCHANGED <<udb_auth_ok, cwd, blocked, clientVars>> /\ "MSH_CMD" \in Kinds
  BY DEF udb_debug_msh, Received, Kinds
<1>1. cwd' \in Dirs
  BY <1>0 DEF Inv, Types, ServerInv
<1>2. ~(Mine /\ doing # "cmd")
  <2> SUFFICES ASSUME Mine PROVE mode = "msh"
    BY DEF Inv, Types, ClientInv
  <2>1. cpc \in {"size", "piece"} /\ mail = << >> /\ Head(inbox) = inbox[Len(inbox)] /\ Len(inbox) = 1
    BY <1>0, HeadOfMine
  <2>2. cpc = "size" => Head(inbox).chan = Kind
    BY <1>0, HeadCommand
  <2>3. cpc # "piece"
    BY <1>0, <2>1 DEF Inv, PieceInv, PulloutOf
  <2> QED BY <1>0, <2>1, <2>2, <2>3 DEF Kind
<1>3. CASE Announce("MSH_CMD", Help)
  <2>1. Help \in Texts
    BY DEF Texts
  <2> QED BY <1>0, <1>1, <1>2, <1>3, <2>1, AnnounceInv
<1>4. CASE \E out \in Logs : Announce("MSH_CMD", out)
  <2>1. PICK out \in Logs : Announce("MSH_CMD", out)
    BY <1>4
  <2>2. out \in Texts
    BY DEF Texts
  <2> QED BY <1>0, <1>1, <1>2, <2>1, <2>2, AnnounceInv
<1>5. CASE SendTo(Zeros(ProtSize)) /\ Record(<< >>) /\ UNCHANGED <<used_size, cp_offset>>
  BY <1>0, <1>5, EmptyRead, FailInv
<1> QED BY <1>3, <1>4, <1>5 DEF udb_debug_msh

LEMMA PulloutInv ==
    ASSUME Inv, Types', NEW kind \in Kinds, udb_debug_pullout(kind)
    PROVE  Inv'
<1>0. /\ ~blocked /\ inbox # << >> /\ Head(inbox).chan = PulloutOf(kind) /\ udb_auth_ok
      /\ inbox' = Tail(inbox) /\ UNCHANGED <<udb_auth_ok, cwd, blocked, clientVars, snap>>
  BY DEF udb_debug_pullout, Received
<1>1. PICK n \in Nat, off \in Nat, used \in Nat :
         n = Head(inbox).cp /\ off = cp_offset[kind] /\ used = used_size[kind] /\ off <= used
  <2>1. Head(inbox).cp \in Nat
    BY <1>0, QueueHead, Assumptions DEF Inv, Types, Requests
  <2>2. cp_offset[kind] \in Nat /\ used_size[kind] \in Nat /\ cp_offset[kind] <= used_size[kind]
    BY DEF Inv, Types, ServerInv
  <2> QED BY <2>1, <2>2
<1>2. PICK buf \in Seq(Nat) : buf = pullout[kind] /\ used <= Len(buf)
  BY <1>1 DEF Inv, Types, ServerInv
<1>3. ASSUME off + n > used PROVE SendTo(Zeros(ProtSize)) /\ UNCHANGED <<pullout, used_size, cp_offset>>
  BY <1>1, <1>3 DEF udb_debug_pullout, ctrlVars
<1>4. ASSUME ~(off + n > used)
      PROVE  /\ SendTo(SubSeq(buf, off + 1, off + n) \o Zeros(ProtSize - n))
             /\ off + n = used =>
                   /\ used_size' = [used_size EXCEPT ![kind] = 0]
                   /\ cp_offset' = [cp_offset EXCEPT ![kind] = 0]
                   /\ pullout' = [pullout EXCEPT ![kind] = << >>]
             /\ off + n # used => /\ cp_offset' = [cp_offset EXCEPT ![kind] = off + n]
                                  /\ UNCHANGED <<used_size, pullout>>
  BY <1>1, <1>2, <1>4 DEF udb_debug_pullout, NextOffset
<1>6. CASE ~Mine
  <2>1. mail' = mail
    BY <1>3, <1>4, <1>6 DEF SendTo
  <2> QED BY <1>0, <1>6, <2>1, ServeOther
<1>7. CASE Mine
  <2>1. cpc \in {"size", "piece"} /\ mail = << >> /\ Head(inbox) = inbox[Len(inbox)] /\ Len(inbox) = 1
    BY <1>0, <1>7, HeadOfMine
  <2>2. cpc = "piece"
    <3>1. cpc = "size" => Head(inbox).chan = Kind
      BY <1>0, <1>7, HeadCommand
    <3> QED BY <1>0, <2>1, <3>1 DEF PulloutOf, Kind
  <2>3. /\ Kind = kind /\ n = cp_size /\ Kept(Drained) /\ SnapOK
        /\ get_size <= Len(snap) /\ cp_size = PieceSize(get_size) /\ (get_size = 0 => snap = << >>)
    <3>1. cp_size = PieceSize(get_size)
      BY <2>2 DEF Inv, Types, ClientInv
    <3>2. /\ inbox[1].cp = cp_size /\ inbox[1].chan = PulloutOf(Kind) /\ Kept(Drained) /\ SnapOK
          /\ get_size <= Len(snap) /\ (get_size = 0 => snap = << >>)
      BY <2>1, <2>2 DEF Inv, PieceInv
    <3> QED BY <1>0, <1>1, <2>1, <3>1, <3>2 DEF PulloutOf, Kind, Kinds
  <2>4. snap \in Seq(Byte) /\ get_size \in Nat /\ cp_size \in Nat /\ cp_size <= get_size /\ cp_size <= ProtSize
    BY <2>3, TextsAreBytes, Assumptions DEF SnapOK, PieceSize, Inv, Types, ClientInv
  <2>5. PICK d \in Nat : d = Drained /\ d + get_size = Len(snap)
    <3>1. PICK l \in Nat, g \in Nat : l = Len(snap) /\ g = get_size /\ g <= l
      BY <2>3, <2>4
    <3>2. l - g \in Nat /\ (l - g) + g = l
      BY <3>1
    <3> QED BY <3>1, <3>2 DEF Drained
  <2>6. PICK s \in Seq(Byte) : s = SubSeq(snap, d + 1, d + n) /\ Len(s) = n
    <3>1. d + n <= Len(snap)
      BY <2>3, <2>4, <2>5
    <3>2. SubSeq(snap, d + 1, d + n) \in Seq(Byte) /\ Len(SubSeq(snap, d + 1, d + n)) = n
      <4>1. snap \in Seq(Byte) /\ n \in Nat
        BY <2>3, <2>4
      <4> QED BY <3>1, <4>1, PieceFacts
    <3> QED BY <3>2
  <2>0. s = SubSeq(buf, off + 1, off + n) /\ ~(off + n > used)
    <3>3. CASE snap # << >>
      <4>1. buf = snap /\ used = Len(snap) /\ off = d
        BY <1>1, <1>2, <2>3, <2>5, <3>3 DEF Kept
      <4>2. ~(off + n > used)
        BY <2>3, <2>4, <2>5, <4>1
      <4> QED BY <2>6, <4>1, <4>2
    <3>4. CASE snap = << >>
      <4>1. n = 0 /\ Len(s) = 0
        BY <2>3, <2>4, <2>6, <3>4
      <4>2. SubSeq(buf, off + 1, off + n) = << >>
        BY <4>1
      <4>3. s = << >>
        BY <4>1
      <4>4. ~(off + n > used)
        BY <1>1, <4>1
      <4> QED BY <4>2, <4>3, <4>4
    <3> QED BY <3>3, <3>4
  <2>7. PICK m \in Seq(Nat) : m = s \o Zeros(ProtSize - n)
    BY <2>3, <2>4, <2>6, PieceRead
  <2>8. mail' = Append(mail, m)
    BY <1>4, <1>7, <2>0, <2>7 DEF SendTo
  <2>9. CStr(Pad(m)) = SubSeq(snap, Drained + 1, Drained + cp_size)
    <3>1. CStr(Pad(m)) = s
      BY <2>3, <2>4, <2>6, <2>7, PieceRead
    <3> QED BY <2>3, <2>5, <2>6, <3>1
  <2>10. ASSUME cp_size # get_size PROVE Kept(Drained + cp_size)'
    <3>1. UNCHANGED <<mode, get_size, cp_size>>
      BY <1>0 DEF clientVars
    <3>2. CASE snap = << >>
      BY <1>0, <3>2 DEF Kept
    <3>3. CASE snap # << >>
      <4>1. buf = snap /\ used = Len(snap) /\ off = d
        BY <1>1, <1>2, <2>3, <2>5, <3>3 DEF Kept
      <4>2. off + n # used
        BY <2>3, <2>4, <2>5, <2>10, <4>1
      <4>3. cp_offset' = [cp_offset EXCEPT ![kind] = off + n] /\ UNCHANGED <<used_size, pullout>>
        BY <1>4, <2>0, <4>2
      <4>4. cp_offset'[kind] = d + cp_size /\ used_size'[kind] = Len(snap) /\ pullout'[kind] = snap
        BY <1>1, <1>2, <2>3, <4>1, <4>3 DEF Inv, Types, ServerInv
      <4>5. Kind' = kind /\ Drained' = d /\ snap' = snap /\ udb_auth_ok'
        BY <1>0, <2>3, <2>5, <3>1 DEF Kind, Drained
      <4> QED BY <3>1, <4>4, <4>5 DEF Kept
    <3> QED BY <3>2, <3>3
  <2> QED BY <1>0, <1>7, <2>2, <2>8, <2>9, <2>10, ServePiece
<1> QED BY <1>6, <1>7

-----------------------------------------------------------------------------
(* The client's steps.                                                       *)

(* A request put at the end of the queue. *)
LEMMA QueueAsked ==
    ASSUME Types, NEW r \in Requests, inbox' = Append(inbox, r), r.sess = session',
           session' \in Nat, session' >= session, r.chan = "RUN_CMD" => r.line \in Lines
    PROVE  /\ RequestsInv' /\ inbox' # << >> /\ inbox'[Len(inbox')] = r
           /\ Len(inbox') = Len(inbox) + 1
           /\ (inbox = << >> \/ session' > session => OrderInv')
<1>1. /\ inbox \in Seq(Requests) /\ session \in Nat
      /\ \A i \in 1 .. Len(inbox) : /\ inbox[i].chan = "RUN_CMD" => inbox[i].line \in Lines
                                    /\ inbox[i].sess <= session
  BY DEF Types, RequestsInv, ClientInv
<1>2. PICK q \in Seq(Requests) : q = Append(inbox, r)
  BY <1>1, AppendFacts
<1>3. /\ Len(q) = Len(inbox) + 1 /\ q[Len(inbox) + 1] = r /\ Len(inbox) \in Nat /\ q # << >>
      /\ \A i \in 1 .. Len(inbox) : q[i] = inbox[i]
  BY <1>1, <1>2, AppendFacts
<1>4. ASSUME NEW i \in 1 .. Len(q)
      PROVE  /\ q[i].chan = "RUN_CMD" => q[i].line \in Lines
             /\ q[i].sess <= session'
             /\ session' > session /\ i < Len(q) => q[i].sess < session'
  <2>1. CASE i = Len(inbox) + 1
    BY <1>3, <2>1
  <2>2. CASE i \in 1 .. Len(inbox)
    <3>0. inbox[i] \in Requests
      BY <1>1, <2>2, ElementOfSeq
    <3>1. inbox[i].sess \in Nat
      BY <3>0 DEF Requests
    <3>2. q[i] = inbox[i]
      BY <1>3, <2>2
    <3> QED BY <1>1, <2>2, <3>1, <3>2
  <2> QED BY <1>3, <2>1, <2>2
<1>5. inbox' = q
  BY <1>2
<1>6. RequestsInv'
  BY <1>2, <1>4, <1>5 DEF RequestsInv
<1>7. ASSUME inbox = << >> \/ session' > session PROVE OrderInv'
  <2>1. CASE inbox = << >>
    <3>1. Len(inbox') = 1
      BY <1>3, <1>5, <2>1
    <3> QED BY <3>1 DEF OrderInv
  <2>2. CASE session' > session
    BY <1>4, <1>5, <2>2 DEF OrderInv
  <2> QED BY <1>7, <2>1, <2>2
<1> QED BY <1>3, <1>5, <1>6, <1>7

LEMMA PullRequest ==
    ASSUME Types, NEW n \in 0 .. ProtSize
    PROVE  [sess |-> session, chan |-> PulloutOf(Kind), line |-> << >>, cp |-> n] \in Requests
  BY DEF Requests, PulloutOf, MshLines, Types, ClientInv

(* The client takes the one answer there is. *)
LEMMA AnswerTaken ==
    ASSUME Inv, Waiting, mail # << >>
    PROVE  Head(mail) = mail[1] /\ Tail(mail) = << >> /\ inbox = << >> /\ ~blocked
<1>1. mail \in Seq(Dgrams) /\ Len(mail) <= 1 /\ inbox = << >> /\ ~blocked
  BY DEF Inv, Types, WayInv
<1>2. PICK q \in Seq(Dgrams) : q = mail /\ Len(q) <= 1 /\ q # << >>
  BY <1>1
<1>3. /\ Head(q) = q[1] /\ Tail(q) \in Seq(Dgrams) /\ Len(Tail(q)) = Len(q) - 1
      /\ Len(q) \in Nat \ {0}
  BY <1>2, TailFacts
<1>4. Len(Tail(q)) = 0
  BY <1>2, <1>3
<1>5. Tail(q) = << >>
  BY <1>3, <1>4, EmptySeq
<1> QED BY <1>1, <1>2, <1>3, <1>5

LEMMA NoAnswer == << >> \in Seq(Dgrams) /\ << >> \in Seq(Nat) /\ Len(<< >>) <= 1
  BY EmptySeq

LEMMA PieceSizeFacts ==
    ASSUME NEW n \in Nat
    PROVE  PieceSize(n) \in 0 .. ProtSize /\ PieceSize(n) <= n /\ (PieceSize(n) = 0 => n = 0)
  BY Assumptions DEF PieceSize

(* A request for a piece, and one for a command. *)
LEMMA AskTypes ==
    ASSUME Types, get_size' \in Nat, cp_size' \in 0 .. ProtSize, cp_size' = PieceSize(get_size'),
           cpc' = "piece", mail' \in Seq(Dgrams), UNCHANGED <<serverVars, session, mode, doing, typed, so_rcvtimeo>>,
           inbox' = Append(inbox, [sess |-> session, chan |-> PulloutOf(Kind), line |-> << >>, cp |-> cp_size'])
    PROVE  Types'
<1>1. PICK r \in Requests : r = [sess |-> session, chan |-> PulloutOf(Kind), line |-> << >>, cp |-> cp_size']
  BY PullRequest
<1>2. /\ r.sess = session' /\ r.chan # "RUN_CMD" /\ session' \in Nat /\ session' >= session
      /\ inbox' = Append(inbox, r)
  BY <1>1 DEF PulloutOf, Types, ClientInv
<1>3. RequestsInv'
  BY <1>2, QueueAsked
<1>4. ClientInv' /\ ServerInv'
  BY DEF Types, ClientInv, ServerInv, serverVars, ctrlVars, PieceSize
<1> QED BY <1>3, <1>4 DEF Types

LEMMA SendTypes ==
    ASSUME Types, NEW chan \in {"RUN_CMD", "MSH_CMD"}, NEW line,
           chan = "RUN_CMD" => line \in Lines, chan = "MSH_CMD" => line \in MshLines,
           inbox' = Command(session', chan, line), session' \in 0 .. MaxSession, session' >= session,
           ClientInv', ServerInv', mail' \in Seq(Dgrams)
    PROVE  Types'
<1>1. PICK r : r = [sess |-> session', chan |-> chan, line |-> line, cp |-> 0]
  OBVIOUS
<1>2. r \in Requests /\ r.sess = session' /\ r.chan = chan /\ r.line = line /\ session' \in Nat
  BY <1>1, Assumptions DEF Requests
<1>3. inbox' = Append(inbox, r)
  BY <1>1 DEF Command
<1>4. RequestsInv'
  BY <1>2, <1>3, QueueAsked
<1> QED BY <1>4 DEF Types

(* What a read leaves in the buffer. *)
LEMMA ReadTypes ==
    ASSUME Types, NEW r \in Reads
    PROVE  r.rest \in Seq(Dgrams) /\ r.buf[1] \in Nat
<1>1. CASE mail # << >> /\ r = [buf |-> Pad(Head(mail)), rest |-> Tail(mail), late |-> FALSE]
  <2>1. Head(mail) \in Dgrams /\ Tail(mail) \in Seq(Dgrams)
    BY <1>1, TailFacts DEF Types
  <2>0. PICK g \in Seq(Nat) : g = Head(mail) /\ Len(g) <= ProtSize
    BY <2>1 DEF Dgrams
  <2>2. PICK k \in Nat : k = ProtSize - Len(g) /\ Len(g) \in Nat
    <3>1. PICK l \in Nat, n \in Nat : l = Len(g) /\ n = ProtSize /\ l <= n
      BY <2>0, Assumptions
    <3>2. n - l \in Nat
      BY <3>1
    <3> QED BY <3>1, <3>2
  <2>3. Zeros(k) \in Seq(Nat) /\ Len(Zeros(k)) = k
    BY ZerosFacts
  <2>4. PICK b : b = g \o Zeros(k)
    OBVIOUS
  <2>5. b \in Seq(Nat) /\ Len(b) = Len(g) + k
    BY <2>3, <2>4, JoinFacts
  <2>6. 1 \in 1 .. Len(b)
    BY <2>2, <2>5, Assumptions
  <2>7. b[1] \in Nat
    BY <2>5, <2>6, ElementOfSeq
  <2> QED BY <1>1, <2>0, <2>1, <2>2, <2>4, <2>7 DEF Pad
<1>2. CASE r = [buf |-> Zeros(ProtSize), rest |-> mail, late |-> TRUE]
  <2>1. Zeros(ProtSize)[1] = 0
    BY Assumptions, ZerosFacts
  <2> QED BY <1>2, <2>1 DEF Types
<1> QED BY <1>1, <1>2 DEF Reads

(* A client that stays in step has got the answer it waited for. *)
LEMMA ReadInStep ==
    ASSUME Inv, InStep, InStep', NEW r \in Reads, Keep(r)
    PROVE  mail # << >> /\ r.buf = Pad(Head(mail)) /\ r.rest = Tail(mail) /\ UNCHANGED <<kept, snap>>
<1>1. text # Unfixed
  BY Assumptions DEF Inv, WayInv
<1>2. ~r.late
  BY <1>1 DEF Keep, InStep
<1>3. mail # << >> /\ r = [buf |-> Pad(Head(mail)), rest |-> Tail(mail), late |-> FALSE]
  BY <1>2 DEF Reads
<1> QED BY <1>2, <1>3 DEF Keep

LEMMA ClientTypes == ASSUME Types, Client \/ shell_type \/ Kill PROVE Types'
<1>1. CASE shell_size
  <2>1. PICK r \in Reads : mail' = r.rest /\ get_size' = r.buf[1] /\ cp_size' = PieceSize(r.buf[1])
    BY <1>1 DEF shell_size
  <2>2. mail' \in Seq(Dgrams) /\ get_size' \in Nat /\ cp_size' \in 0 .. ProtSize /\ cp_size' = PieceSize(get_size')
    BY <2>1, ReadTypes, PieceSizeFacts
  <2>3. /\ cpc' = "piece" /\ inbox' = Append(inbox, [sess |-> session, chan |-> PulloutOf(Kind), line |-> << >>, cp |-> cp_size'])
        /\ UNCHANGED <<serverVars, session, mode, doing, typed, so_rcvtimeo>>
    BY <1>1 DEF shell_size, Pull
  <2> QED BY <2>2, <2>3, AskTypes
<1>2. CASE shell_piece
  <2>1. PICK r \in Reads : mail' = r.rest
    BY <1>2 DEF shell_piece
  <2>2. /\ cpc = "piece" /\ cpc' = "piece" /\ get_size' = get_size - cp_size /\ cp_size' = PieceSize(get_size')
        /\ inbox' = Append(inbox, [sess |-> session, chan |-> PulloutOf(Kind), line |-> << >>, cp |-> cp_size'])
        /\ UNCHANGED <<serverVars, session, mode, doing, typed, so_rcvtimeo>>
    BY <1>2 DEF shell_piece, Pull
  <2>3. get_size' \in Nat
    <3>1. get_size \in Nat /\ cp_size = PieceSize(get_size)
      BY <2>2 DEF Types, ClientInv
    <3>2. cp_size \in Nat /\ cp_size <= get_size
      BY <3>1, PieceSizeFacts, Assumptions
    <3> QED BY <2>2, <3>1, <3>2
  <2>4. mail' \in Seq(Dgrams) /\ cp_size' \in 0 .. ProtSize
    BY <2>1, <2>2, <2>3, ReadTypes, PieceSizeFacts
  <2> QED BY <2>2, <2>3, <2>4, AskTypes
<1>3. CASE shell_last
  <2>1. PICK r \in Reads : mail' = r.rest
    BY <1>3 DEF shell_last
  <2>2. /\ get_size' = 0 /\ cp_size' = 0 /\ cpc' = AfterLast
        /\ UNCHANGED <<serverVars, inbox, session, mode, doing, typed, so_rcvtimeo>>
    BY <1>3 DEF shell_last
  <2>3. mail' \in Seq(Dgrams)
    BY <2>1, ReadTypes
  <2>4. cpc' \in {"done", "shown", "prompt"} /\ (cpc' = "shown" => mode = "shell") /\ (cpc' = "prompt" => doing # "cmd")
    BY <2>2 DEF AfterLast
  <2>5. ClientInv' /\ RequestsInv' /\ ServerInv'
    BY <2>2, <2>4, Assumptions DEF Types, ClientInv, RequestsInv, ServerInv, serverVars, ctrlVars
  <2> QED BY <2>3, <2>5 DEF Types
<1>4. CASE shell_pwd
  <2>1. /\ cpc = "shown" /\ cpc' = "size" /\ doing' = "pwd" /\ inbox' = Command(session, "RUN_CMD", Pwd)
        /\ UNCHANGED <<serverVars, mail, session, mode, typed, so_rcvtimeo, get_size, cp_size>>
    BY <1>4 DEF shell_pwd
  <2>2. ClientInv' /\ ServerInv'
    BY <2>1 DEF Types, ClientInv, ServerInv, serverVars, ctrlVars
  <2>3. session' \in 0 .. MaxSession /\ session' >= session /\ session' = session
    BY <2>1 DEF Types, ClientInv
  <2> QED BY <2>1, <2>2, <2>3, Assumptions, SendTypes DEF Types
<1>5. CASE shell_type
  <2>1. /\ cpc = "prompt" /\ typed < MaxCmd
        /\ UNCHANGED <<serverVars, mail, session, mode, so_rcvtimeo, get_size, cp_size>>
    BY <1>5 DEF shell_type
  <2>2. mode = "shell" /\ ServerInv'
    BY <2>1 DEF Types, ClientInv, ServerInv, serverVars, ctrlVars
  <2>3. CASE cpc' = "done" /\ UNCHANGED <<inbox, doing, typed>>
    BY <2>1, <2>2, <2>3 DEF Types, ClientInv, RequestsInv
  <2>4. CASE \E line \in Lines : /\ inbox' = Command(session, "RUN_CMD", line)
                                 /\ cpc' = "size" /\ doing' = "cmd" /\ typed' = typed + 1
    <3>1. PICK line \in Lines : inbox' = Command(session, "RUN_CMD", line)
      BY <2>4
    <3>2. ClientInv'
      BY <2>1, <2>2, <2>4, Assumptions DEF Types, ClientInv
    <3>3. session' \in 0 .. MaxSession /\ session' >= session /\ session' = session
      BY <2>1 DEF Types, ClientInv
    <3> QED BY <2>1, <2>2, <3>1, <3>2, <3>3, SendTypes DEF Types
  <2> QED BY <1>5, <2>3, <2>4 DEF shell_type
<1>6. CASE Kill
  <2>1. /\ cpc' = "killed" /\ mail' = << >>
        /\ UNCHANGED <<serverVars, inbox, session, mode, doing, typed, so_rcvtimeo, get_size, cp_size>>
    BY <1>6 DEF Kill
  <2>2. ClientInv' /\ RequestsInv' /\ ServerInv'
    BY <2>1 DEF Types, ClientInv, RequestsInv, ServerInv, serverVars, ctrlVars
  <2> QED BY <2>1, <2>2, NoAnswer DEF Types
<1> QED BY <1>1, <1>2, <1>3, <1>4, <1>5, <1>6 DEF Client

LEMMA SizeInv == ASSUME Inv, InStep, InStep', Types', shell_size PROVE Inv'
<1>r. PICK r \in Reads : mail' = r.rest /\ Keep(r) /\ get_size' = r.buf[1] /\ cp_size' = PieceSize(r.buf[1])
  BY DEF shell_size
<1>0. /\ cpc = "size" /\ mail # << >> /\ cpc' = "piece" /\ Waiting
      /\ get_size' = Pad(Head(mail))[1] /\ cp_size' = PieceSize(get_size') /\ mail' = Tail(mail)
      /\ inbox' = Append(inbox, [sess |-> session, chan |-> PulloutOf(Kind), line |-> << >>, cp |-> cp_size'])
      /\ UNCHANGED <<udb_auth_ok, cwd, blocked, pullout, used_size, cp_offset, session, mode, doing, typed, text, snap>>
  <2>1. mail # << >> /\ r.buf = Pad(Head(mail)) /\ r.rest = Tail(mail) /\ UNCHANGED snap
    BY <1>r, ReadInStep
  <2>2. cpc = "size" /\ cpc' = "piece" /\ inbox' = Pull(cp_size')
        /\ UNCHANGED <<serverVars, session, mode, doing, typed, text>>
    BY DEF shell_size
  <2> QED BY <1>r, <2>1, <2>2 DEF Pull, serverVars, ctrlVars, Waiting
<1>1. mail' = << >> /\ inbox = << >> /\ ~blocked /\ get_size' = Pad(mail[1])[1]
  BY <1>0, AnswerTaken
<1>2. SnapOK /\ Kept(0) /\ get_size' = Len(snap)
  BY <1>0, <1>1 DEF Inv, Types, CommandInv
<1>3. snap \in Seq(Byte)
  BY <1>2, TextsAreBytes DEF SnapOK
<1>4. get_size' \in Nat /\ cp_size' \in 0 .. ProtSize /\ cp_size' \in Nat
  <2>1. PICK g \in Nat : g = get_size'
    BY <1>2, <1>3
  <2>2. PieceSize(g) \in 0 .. ProtSize
    BY PieceSizeFacts
  <2> QED BY <1>0, <2>1, <2>2, Assumptions
<1>6. PICK q \in Requests : q = [sess |-> session, chan |-> PulloutOf(Kind), line |-> << >>, cp |-> cp_size']
  BY <1>4, PullRequest DEF Inv
<1>7. q.sess = session /\ q.chan = PulloutOf(Kind) /\ q.cp = cp_size' /\ q.chan # "RUN_CMD"
  BY <1>6 DEF PulloutOf
<1>8. OrderInv' /\ inbox' # << >> /\ inbox'[Len(inbox')] = q /\ Len(inbox') = 1
  <2>1. session' \in Nat /\ session' >= session /\ q.sess = session' /\ Types
    BY <1>0, <1>7 DEF Inv, Types, ClientInv
  <2>2. inbox' = Append(inbox, q) /\ Len(inbox) = 0
    BY <1>0, <1>1, <1>6
  <2>3. OrderInv' /\ inbox' # << >> /\ inbox'[Len(inbox')] = q /\ Len(inbox') = Len(inbox) + 1
    BY <1>1, <1>7, <2>1, <2>2, QueueAsked
  <2> QED BY <2>2, <2>3
<1>9. WayInv'
  BY <1>0, <1>1, <1>7, <1>8, NoAnswer DEF Inv, WayInv, Waiting
<1>10. Drained' = 0 /\ Kind' = Kind
  BY <1>0, <1>2, <1>3 DEF Drained, Kind
<1>11. SnapOK' /\ Kept(Drained)'
  BY <1>0, <1>2, <1>10 DEF SnapOK, Kept
<1>12. PieceInv'
  <2>1. get_size' <= Len(snap') /\ (get_size' = 0 => snap' = << >>) /\ cp_size' = PieceSize(get_size')
    BY <1>0, <1>2, <1>3
  <2> QED BY <1>0, <1>1, <1>7, <1>8, <1>10, <1>11, <2>1 DEF PieceInv
<1> QED BY <1>0, <1>8, <1>9, <1>12 DEF Inv, CommandInv, RestInv

(* What the drain loop knows of the text and of the piece it got. *)
LEMMA DrainFacts ==
    ASSUME Inv, cpc = "piece", mail # << >>
    PROVE  /\ snap \in Seq(Byte) /\ SnapOK /\ get_size \in Nat /\ cp_size \in Nat
           /\ cp_size <= get_size /\ get_size <= Len(snap) /\ Len(snap) \in Nat
           /\ Drained \in Nat /\ Drained + get_size = Len(snap)
           /\ (cp_size = 0 => get_size = 0) /\ (get_size = 0 => snap = << >>)
           /\ CStr(Pad(Head(mail))) = SubSeq(snap, Drained + 1, Drained + cp_size)
           /\ (cp_size # get_size => Kept(Drained + cp_size))
<1>1. /\ SnapOK /\ get_size <= Len(snap) /\ cp_size = PieceSize(get_size) /\ get_size \in Nat
      /\ (get_size = 0 => snap = << >>)
      /\ CStr(Pad(mail[1])) = SubSeq(snap, Drained + 1, Drained + cp_size)
      /\ (cp_size # get_size => Kept(Drained + cp_size))
  BY DEF Inv, Types, PieceInv, ClientInv
<1>2. snap \in Seq(Byte) /\ Len(snap) \in Nat
  BY <1>1, TextsAreBytes DEF SnapOK
<1>3. cp_size \in Nat /\ cp_size <= get_size /\ (cp_size = 0 => get_size = 0)
  BY <1>1, PieceSizeFacts
<1>4. Drained \in Nat /\ Drained + get_size = Len(snap)
  BY <1>1, <1>2 DEF Drained
<1>5. Head(mail) = mail[1]
  BY AnswerTaken DEF Waiting
<1> QED BY <1>1, <1>2, <1>3, <1>4, <1>5

LEMMA TextGrows ==
    ASSUME Inv, cpc = "piece", mail # << >>
    PROVE  text \o Shown(CStr(Pad(Head(mail)))) \in Seq(Nat)
<1>1. PICK d \in Nat, n \in Nat :
         d = Drained /\ n = cp_size /\ snap \in Seq(Byte) /\ d + n <= Len(snap)
         /\ CStr(Pad(Head(mail))) = SubSeq(snap, d + 1, d + n)
  <2>1. /\ snap \in Seq(Byte) /\ get_size \in Nat /\ cp_size \in Nat /\ cp_size <= get_size
        /\ Drained \in Nat /\ Drained + get_size = Len(snap)
        /\ CStr(Pad(Head(mail))) = SubSeq(snap, Drained + 1, Drained + cp_size)
    BY DrainFacts
  <2>2. Drained + cp_size <= Len(snap)
    BY <2>1
  <2> QED BY <2>1, <2>2
<1>2. PICK p \in Seq(Byte) : p = SubSeq(snap, d + 1, d + n)
  BY <1>1, PieceFacts
<1>3. Shown(p) \in Seq(Nat)
  BY StripFacts, BytesAreNat DEF Shown
<1>4. text \in Seq(Nat)
  BY DEF Inv, WayInv
<1> QED BY <1>1, <1>2, <1>3, <1>4, JoinFacts

LEMMA NextPieceInv == ASSUME Inv, InStep, InStep', Types', shell_piece PROVE Inv'
<1>r. PICK r \in Reads : mail' = r.rest /\ Keep(r) /\ text' = text \o Shown(CStr(r.buf))
  BY DEF shell_piece
<1>0. /\ cpc = "piece" /\ mail # << >> /\ get_size - cp_size # 0 /\ cpc' = "piece" /\ Waiting
      /\ get_size' = get_size - cp_size /\ cp_size' = PieceSize(get_size') /\ mail' = Tail(mail)
      /\ text' = text \o Shown(CStr(Pad(Head(mail))))
      /\ inbox' = Append(inbox, [sess |-> session, chan |-> PulloutOf(Kind), line |-> << >>, cp |-> cp_size'])
      /\ UNCHANGED <<udb_auth_ok, cwd, blocked, pullout, used_size, cp_offset, session, mode, doing, typed, snap>>
  <2>1. mail # << >> /\ r.buf = Pad(Head(mail)) /\ r.rest = Tail(mail) /\ UNCHANGED snap
    BY <1>r, ReadInStep
  <2>2. /\ cpc = "piece" /\ get_size - cp_size # 0 /\ cpc' = "piece" /\ inbox' = Pull(cp_size')
        /\ get_size' = get_size - cp_size /\ cp_size' = PieceSize(get_size')
        /\ UNCHANGED <<serverVars, session, mode, doing, typed>>
    BY DEF shell_piece
  <2> QED BY <1>r, <2>1, <2>2 DEF Pull, serverVars, ctrlVars, Waiting
<1>1. mail' = << >> /\ inbox = << >> /\ ~blocked
  BY <1>0, AnswerTaken
<1>2. /\ snap \in Seq(Byte) /\ SnapOK /\ get_size \in Nat /\ cp_size \in Nat
      /\ cp_size <= get_size /\ get_size <= Len(snap) /\ Len(snap) \in Nat
      /\ Drained \in Nat /\ Drained + get_size = Len(snap) /\ cp_size # get_size
      /\ Kept(Drained + cp_size)
  <2>1. /\ snap \in Seq(Byte) /\ SnapOK /\ get_size \in Nat /\ cp_size \in Nat
        /\ cp_size <= get_size /\ get_size <= Len(snap) /\ Len(snap) \in Nat
        /\ Drained \in Nat /\ Drained + get_size = Len(snap)
        /\ (cp_size # get_size => Kept(Drained + cp_size))
    BY <1>0, DrainFacts
  <2>2. cp_size # get_size
    BY <1>0, <2>1
  <2> QED BY <2>1, <2>2
<1>4. get_size' \in Nat /\ cp_size' \in 0 .. ProtSize /\ cp_size' \in Nat /\ get_size' # 0
  BY <1>0, <1>2, PieceSizeFacts
<1>6. PICK q \in Requests : q = [sess |-> session, chan |-> PulloutOf(Kind), line |-> << >>, cp |-> cp_size']
  BY <1>4, PullRequest DEF Inv
<1>7. q.sess = session /\ q.chan = PulloutOf(Kind) /\ q.cp = cp_size' /\ q.chan # "RUN_CMD"
  BY <1>6 DEF PulloutOf
<1>8. OrderInv' /\ inbox' # << >> /\ inbox'[Len(inbox')] = q /\ Len(inbox') = 1
  <2>1. session' \in Nat /\ session' >= session /\ q.sess = session' /\ Types
    BY <1>0, <1>7 DEF Inv, Types, ClientInv
  <2>2. inbox' = Append(inbox, q) /\ Len(inbox) = 0
    BY <1>0, <1>1, <1>6
  <2>3. OrderInv' /\ inbox' # << >> /\ inbox'[Len(inbox')] = q /\ Len(inbox') = Len(inbox) + 1
    BY <1>1, <1>7, <2>1, <2>2, QueueAsked
  <2> QED BY <2>2, <2>3
<1>9. WayInv'
  <2>1. text' \in Seq(Nat)
    BY <1>0, TextGrows
  <2> QED BY <1>0, <1>1, <1>7, <1>8, <2>1, NoAnswer DEF WayInv, Waiting
<1>10. Drained' = Drained + cp_size /\ Kind' = Kind
  BY <1>0, <1>2 DEF Drained, Kind
<1>11. SnapOK' /\ Kept(Drained)'
  BY <1>0, <1>2, <1>10 DEF SnapOK, Kept
<1>12. PieceInv'
  <2>1. get_size' <= Len(snap') /\ (get_size' = 0 => snap' = << >>) /\ cp_size' = PieceSize(get_size')
    BY <1>0, <1>2, <1>4
  <2> QED BY <1>0, <1>1, <1>7, <1>8, <1>10, <1>11, <2>1 DEF PieceInv
<1> QED BY <1>0, <1>8, <1>9, <1>12 DEF Inv, CommandInv, RestInv

LEMMA LastInv == ASSUME Inv, InStep, InStep', Types', shell_last PROVE Inv'
<1>r. PICK r \in Reads : mail' = r.rest /\ Keep(r) /\ text' = text \o Shown(CStr(r.buf))
  BY DEF shell_last
<1>0. /\ cpc = "piece" /\ mail # << >> /\ cpc' = AfterLast /\ Waiting
      /\ get_size' = 0 /\ cp_size' = 0 /\ mail' = Tail(mail)
      /\ text' = text \o Shown(CStr(Pad(Head(mail))))
      /\ UNCHANGED <<udb_auth_ok, cwd, blocked, pullout, used_size, cp_offset, inbox, session, mode, doing, typed, snap>>
  <2>1. mail # << >> /\ r.buf = Pad(Head(mail)) /\ r.rest = Tail(mail) /\ UNCHANGED snap
    BY <1>r, ReadInStep
  <2>2. /\ cpc = "piece" /\ cpc' = AfterLast /\ get_size' = 0 /\ cp_size' = 0
        /\ UNCHANGED <<serverVars, inbox, session, mode, doing, typed>>
    BY DEF shell_last
  <2> QED BY <1>r, <2>1, <2>2 DEF serverVars, ctrlVars, Waiting
<1>1. mail' = << >> /\ inbox = << >> /\ SnapOK
  BY <1>0, AnswerTaken, DrainFacts
<1>2. cpc' \in {"done", "shown", "prompt"} /\ (cpc' = "shown" => mode = "shell") /\ (cpc' = "prompt" => doing # "cmd")
  BY <1>0 DEF AfterLast
<1>3. OrderInv'
  BY <1>0 DEF Inv, OrderInv
<1>4. WayInv'
  <2>1. text' \in Seq(Nat)
    BY <1>0, TextGrows
  <2> QED BY <1>0, <1>1, <1>2, <2>1, NoAnswer DEF WayInv, Waiting
<1>5. SnapOK'
  BY <1>0, <1>1 DEF SnapOK
<1> QED BY <1>2, <1>3, <1>4, <1>5 DEF Inv, CommandInv, PieceInv, RestInv

(* A command that is sent: by a client that starts, or by the interactive    *)
(* shell when everything before it has been answered.                        *)
LEMMA SendInv ==
    ASSUME Types, Types', NEW chan \in {"RUN_CMD", "MSH_CMD"}, NEW line,
           chan = "RUN_CMD" => line \in Lines, chan = "MSH_CMD" => line \in MshLines,
           inbox' = Command(session', chan, line),
           session' \in 0 .. MaxSession, inbox = << >> \/ session' > session, session' >= session,
           cpc' = "size", mail' = << >>, text' = << >>, snap' = Unfixed,
           chan = Kind', doing' # "cmd" => line = Pwd
    PROVE  Inv'
<1>1. PICK r : r = [sess |-> session', chan |-> chan, line |-> line, cp |-> 0]
  OBVIOUS
<1>2. r \in Requests /\ r.sess = session' /\ r.chan = chan /\ r.line = line /\ session' \in Nat
  BY <1>1, Assumptions DEF Requests
<1>3. inbox' = Append(inbox, r)
  BY <1>1 DEF Command
<1>4. OrderInv' /\ inbox' # << >> /\ inbox'[Len(inbox')] = r
  BY <1>2, <1>3, QueueAsked
<1>6. WayInv'
  BY <1>2, <1>4, NoAnswer DEF WayInv, Waiting
<1>7. CommandInv'
  BY <1>2, <1>4 DEF CommandInv, LastCommand
<1> QED BY <1>4, <1>6, <1>7 DEF Inv, PieceInv, RestInv

(* A new client is in step, whatever the one before it left. *)
LEMMA StartFacts ==
    ASSUME Types, shell_start
    PROVE  Types' /\ Inv'
<1>0. /\ ~Running /\ session < MaxSession /\ session' = session + 1 /\ mail' = << >> /\ text' = << >>
      /\ cpc' = "size" /\ typed' = 0 /\ get_size' = 0 /\ cp_size' = 0 /\ snap' = Unfixed
      /\ so_rcvtimeo' \in (IF RecvTimeout THEN BOOLEAN ELSE {FALSE}) /\ UNCHANGED serverVars
  BY DEF shell_start
<1>1. session' \in 0 .. MaxSession /\ session' > session /\ session' >= session
  BY <1>0, Assumptions DEF Types, ClientInv
<1>2. PICK chan \in {"RUN_CMD", "MSH_CMD"}, line \in Lines \cup MshLines :
         /\ (chan = "RUN_CMD" => line \in Lines) /\ (chan = "MSH_CMD" => line \in MshLines)
         /\ inbox' = Command(session', chan, line) /\ chan = Kind'
         /\ mode' \in {"shell", "exec", "msh"} /\ doing' \in {"first", "cmd"}
         /\ (doing' # "cmd" => line = Pwd /\ mode' = "shell")
  <2>1. CASE mode' = "shell" /\ doing' = "first" /\ inbox' = Command(session + 1, "RUN_CMD", Pwd)
    BY <1>0, <2>1, Assumptions DEF Kind
  <2>2. CASE mode' = "exec" /\ doing' = "cmd" /\ \E line \in Lines : inbox' = Command(session + 1, "RUN_CMD", line)
    BY <1>0, <2>2 DEF Kind
  <2>3. CASE /\ mode' = "msh" /\ doing' = "cmd"
             /\ \E line \in MshLines : inbox' = Command(session + 1, "MSH_CMD", line)
    BY <1>0, <2>3 DEF Kind
  <2> QED BY <2>1, <2>2, <2>3 DEF shell_start, MshLines
<1>s. so_rcvtimeo' \in BOOLEAN
  BY <1>0
<1>3. ClientInv' /\ ServerInv'
  <2>1. ClientInv'
    BY <1>0, <1>s, <1>1, <1>2, Assumptions DEF ClientInv
  <2>2. ServerInv'
    BY <1>0 DEF Types, ServerInv, serverVars, ctrlVars
  <2> QED BY <2>1, <2>2
<1>4. Types'
  BY <1>0, <1>1, <1>2, <1>3, NoAnswer, SendTypes
<1> QED BY <1>0, <1>1, <1>2, <1>4, SendInv

LEMMA PwdInv == ASSUME Inv, InStep, Types', shell_pwd PROVE Inv'
<1>0. /\ cpc = "shown" /\ inbox' = Command(session, "RUN_CMD", Pwd) /\ cpc' = "size" /\ doing' = "pwd"
      /\ text' = << >> /\ snap' = Unfixed /\ UNCHANGED <<mail, session, mode>>
  BY DEF shell_pwd, NextText
<1>1. mail = << >> /\ inbox = << >> /\ Types
  BY <1>0 DEF Inv, WayInv, Waiting
<1>2. Kind' = "RUN_CMD"
  BY <1>0, <1>1 DEF Types, ClientInv, Kind
<1>3. session' \in 0 .. MaxSession /\ session' >= session
  BY <1>0, <1>1 DEF Types, ClientInv
<1> QED BY <1>0, <1>1, <1>2, <1>3, Assumptions, SendInv

LEMMA TypeInv == ASSUME Inv, InStep, Types', shell_type PROVE Inv'
<1>0. cpc = "prompt" /\ UNCHANGED <<mail, session, mode>> /\ UNCHANGED serverVars
  BY DEF shell_type
<1>1. mail = << >> /\ inbox = << >> /\ mode = "shell" /\ SnapOK /\ Types
  BY <1>0 DEF Inv, Types, WayInv, ClientInv, RestInv, Waiting
<1>2. CASE cpc' = "done" /\ UNCHANGED <<inbox, doing, typed, text, snap>>
  <2>1. OrderInv'
    BY <1>0, <1>2 DEF Inv, OrderInv
  <2>2. WayInv'
    BY <1>0, <1>1, <1>2, NoAnswer DEF Inv, WayInv, Waiting
  <2>3. SnapOK'
    BY <1>0, <1>1, <1>2 DEF SnapOK, serverVars
  <2> QED BY <1>2, <2>1, <2>2, <2>3 DEF Inv, CommandInv, PieceInv, RestInv
<1>3. CASE \E line \in Lines :
              /\ inbox' = Command(session, "RUN_CMD", line) /\ cpc' = "size" /\ doing' = "cmd"
              /\ text' = << >> /\ snap' = Unfixed
  <2>1. PICK line \in Lines : inbox' = Command(session, "RUN_CMD", line)
    BY <1>3
  <2>2. cpc' = "size" /\ doing' = "cmd" /\ text' = << >> /\ snap' = Unfixed
    BY <1>3
  <2>3. Kind' = "RUN_CMD"
    BY <1>0, <1>1 DEF Kind
  <2>4. session' \in 0 .. MaxSession /\ session' >= session /\ session' = session
    BY <1>0, <1>1 DEF Types, ClientInv
  <2> QED BY <1>0, <1>1, <2>1, <2>2, <2>3, <2>4, SendInv
<1> QED BY <1>2, <1>3 DEF shell_type, NextText

LEMMA KillInv == ASSUME Inv, Types', Kill PROVE Inv'
<1>0. cpc' = "killed" /\ mail' = << >> /\ UNCHANGED <<inbox, session, text>>
  BY DEF Kill
<1>1. OrderInv'
  BY <1>0 DEF Inv, OrderInv
<1>2. WayInv'
  BY <1>0, NoAnswer DEF Inv, WayInv, Waiting
<1> QED BY <1>0, <1>1, <1>2 DEF Inv, CommandInv, PieceInv, RestInv

LEMMA AuthFacts ==
    ASSUME Types, udb_debug_auth \/ UNCHANGED vars
    PROVE  Types' /\ (Inv => Inv')
<1>0. /\ udb_auth_ok' \in BOOLEAN /\ (udb_auth_ok => udb_auth_ok')
      /\ UNCHANGED <<cwd, blocked, pullout, used_size, cp_offset, inbox, mail, snap>>
      /\ UNCHANGED <<session, mode, cpc, doing, typed, so_rcvtimeo, get_size, cp_size, text>>
  <2>1. CASE udb_debug_auth
    BY <2>1 DEF udb_debug_auth, clientVars, ctrlVars, Types, ServerInv
  <2>2. CASE UNCHANGED vars
    BY <2>2 DEF vars, serverVars, clientVars, ctrlVars, Types, ServerInv
  <2> QED BY <2>1, <2>2
<1>1. Types'
  <2>1. ServerInv' /\ RequestsInv' /\ ClientInv'
    BY <1>0 DEF Types, ServerInv, RequestsInv, ClientInv, PieceSize
  <2> QED BY <1>0, <2>1 DEF Types
<1> SUFFICES ASSUME Inv PROVE Inv'
  BY <1>1
<1>2. WayInv' /\ OrderInv'
  BY <1>0 DEF Inv, WayInv, Waiting, OrderInv
<1>3. Kind' = Kind /\ Drained' = Drained /\ (SnapOK => SnapOK')
  BY <1>0 DEF Kind, Drained, SnapOK
<1>4. CommandInv'
  <2>1. Kept(0) => Kept(0)'
    BY <1>0, <1>3 DEF Kept
  <2> QED BY <1>0, <1>3, <2>1 DEF Inv, CommandInv, LastCommand
<1>5. PieceInv'
  <2>1. /\ (Kept(Drained) => Kept(Drained)')
        /\ (Kept(Drained + cp_size) => Kept(Drained + cp_size)')
    BY <1>0, <1>3 DEF Kept
  <2> QED BY <1>0, <1>3, <2>1 DEF Inv, PieceInv
<1>6. RestInv'
  BY <1>0, <1>3 DEF Inv, RestInv
<1> QED BY <1>1, <1>2, <1>4, <1>5, <1>6 DEF Inv

(* The invariant of the specification. *)
ShellInv == Types /\ (InStep => Inv)

LEMMA InitInv == Init => ShellInv
<1> SUFFICES ASSUME Init PROVE Types /\ Inv
  BY DEF ShellInv
<1>1. ServerInv
  <2>1. PICK e \in Seq(Nat) : e = << >> /\ Len(e) = 0
    BY EmptySeq
  <2>2. pullout = [k \in Kinds |-> e] /\ used_size = [k \in Kinds |-> 0] /\ cp_offset = [k \in Kinds |-> 0]
    BY <2>1 DEF Init
  <2>3. udb_auth_ok \in BOOLEAN /\ cwd \in Dirs /\ blocked \in BOOLEAN
    BY Assumptions DEF Init
  <2>4. /\ pullout \in [Kinds -> Seq(Nat)] /\ used_size \in [Kinds -> Nat] /\ cp_offset \in [Kinds -> Nat]
    BY <2>2
  <2>5. \A k \in Kinds : cp_offset[k] <= used_size[k] /\ used_size[k] <= Len(pullout[k])
    BY <2>1, <2>2
  <2> QED BY <2>3, <2>4, <2>5 DEF ServerInv
<1>2. inbox = << >> /\ << >> \in Seq(Requests) /\ 1 .. Len(<< >>) = {}
  BY EmptySeq DEF Init
<1>3. RequestsInv /\ ClientInv /\ OrderInv
  <2>1. RequestsInv /\ OrderInv
    BY <1>2 DEF RequestsInv, OrderInv
  <2>2. /\ cpc = "idle" /\ mode = "none" /\ doing = "cmd" /\ session = 0 /\ typed = 0
        /\ so_rcvtimeo = FALSE /\ get_size = 0 /\ cp_size = 0
    BY DEF Init
  <2>3. 0 \in 0 .. MaxSession /\ 0 \in 0 .. MaxCmd /\ 0 \in 0 .. ProtSize
    BY Assumptions
  <2>4. ClientInv
    BY <2>2, <2>3 DEF ClientInv
  <2> QED BY <2>1, <2>4
<1>4. WayInv /\ mail \in Seq(Dgrams)
  BY <1>2, NoAnswer DEF Init, WayInv, Waiting
<1> QED BY <1>1, <1>3, <1>4 DEF Init, Types, Inv, CommandInv, PieceInv, RestInv

LEMMA TypesStep == ASSUME Types, [Next]_vars PROVE Types'
  BY ServerTypes, ClientTypes, StartFacts, AuthFacts DEF Next

(* Only a new client gets back in step. *)
LEMMA StaysInStep == ASSUME [Next]_vars, InStep', ~shell_start PROVE InStep
<1>1. CASE Server \/ udb_debug_auth \/ UNCHANGED vars
  BY <1>1 DEF Server, udb_debug_bridge_refuse, udb_debug_runcmd, udb_debug_msh, udb_debug_pullout,
              udb_debug_auth, vars, clientVars, InStep
<1>2. CASE shell_size \/ shell_piece \/ shell_last
  <2>1. \E r \in Reads : Keep(r)
    BY <1>2 DEF shell_size, shell_piece, shell_last
  <2> QED BY <2>1 DEF Keep, InStep
<1>3. CASE shell_pwd \/ shell_type \/ Kill
  BY <1>3 DEF shell_pwd, shell_type, Kill, InStep
<1> QED BY <1>1, <1>2, <1>3 DEF Next, Client

LEMMA StepInv == ShellInv /\ [Next]_vars => ShellInv'
<1> SUFFICES ASSUME ShellInv, [Next]_vars PROVE ShellInv'
  OBVIOUS
<1>1. Types /\ Types'
  BY TypesStep DEF ShellInv
<1> SUFFICES ASSUME InStep' PROVE Inv'
  BY <1>1 DEF ShellInv
<1>2. CASE shell_start
  BY <1>1, <1>2, StartFacts
<1>3. CASE ~shell_start
  <2>1. InStep /\ Inv
    BY <1>3, StaysInStep DEF ShellInv
  <2> QED BY <1>1, <1>3, <2>1, RefuseInv, RuncmdInv, MshInv, PulloutInv, SizeInv, NextPieceInv,
             LastInv, PwdInv, TypeInv, KillInv, AuthFacts DEF Next, Server, Client
<1> QED BY <1>2, <1>3

(* For every packet and buffer size and any commands, the offset of each     *)
(* pull-out stays within what its command left, whoever asks for how much,   *)
(* and no client waits for more bytes than were announced to it.             *)
THEOREM ShellTypes == Spec => []TypeOK
<1>1. ShellInv => TypeOK
  <2> SUFFICES ASSUME Types PROVE TypeOK
    BY DEF ShellInv
  <2>1. \A k \in Kinds : /\ pullout[k] \in Seq(Nat) /\ cp_offset[k] \in 0 .. used_size[k]
                         /\ used_size[k] <= Len(pullout[k])
    BY DEF Types, ServerInv
  <2> QED BY <2>1 DEF Types, ServerInv, ClientInv, TypeOK
<1> QED BY <1>1, InitInv, StepInv, PTL DEF Spec
-----------------------------------------------------------------------------
(* The text shown.                                                           *)

(* No directory has a newline in its name: pwd prints one line.  The prompt  *)
(* drops a newline at the end of every piece, not only of the last.          *)
PwdIsOneLine ==
    \A d \in Dirs : \A i \in 1 .. Len(Output(Pwd, d)) - 1 : Output(Pwd, d)[i] # Newline

(* A handler leaves the client alone, and fixes what is shown at most once.  *)
LEMMA ServerStep ==
    ASSUME Inv, InStep, Server
    PROVE  /\ inbox # << >> /\ inbox' = Tail(inbox)
           /\ UNCHANGED <<session, mode, cpc, doing, typed, get_size, cp_size, text>>
           /\ UNCHANGED kept /\ ~blocked /\ (snap' # snap => Mine /\ cpc = "size")
<1>1. /\ ~blocked /\ inbox # << >> /\ inbox' = Tail(inbox) /\ UNCHANGED clientVars
      /\ snap' # snap => /\ Mine
                         /\ snap = Unfixed \/ Head(inbox).chan \in {"RUN_CMD", "MSH_CMD"}
  <2>1. CASE udb_debug_bridge_refuse
    BY <2>1 DEF udb_debug_bridge_refuse, Record
  <2>2. CASE udb_debug_runcmd
    BY <2>2 DEF udb_debug_runcmd, Received, Announce, Record
  <2>3. CASE udb_debug_msh
    BY <2>3 DEF udb_debug_msh, Received, Announce, Record
  <2>4. CASE \E kind \in Kinds : udb_debug_pullout(kind)
    BY <2>4 DEF udb_debug_pullout, Received
  <2> QED BY <2>1, <2>2, <2>3, <2>4 DEF Server
<1>2. ASSUME Mine, snap = Unfixed \/ Head(inbox).chan \in {"RUN_CMD", "MSH_CMD"}
      PROVE  cpc = "size"
  <2>1. cpc \in {"size", "piece"} /\ mail = << >> /\ Head(inbox) = inbox[Len(inbox)] /\ Len(inbox) = 1
    BY <1>1, <1>2, HeadOfMine
  <2>2. cpc = "piece" => snap \in Seq(Nat) /\ Head(inbox).chan = PulloutOf(Kind)
    BY <2>1, TextsAreBytes, BytesAreNat DEF Inv, Types, PieceInv, SnapOK
  <2> QED BY <1>2, <2>1, <2>2, Assumptions DEF PulloutOf
<1> QED BY <1>1, <1>2 DEF clientVars

(* Inside the output of a pwd there is no newline. *)
LEMMA NoInnerNewline ==
    ASSUME PwdIsOneLine, Inv, SnapOK, doing # "cmd", NEW i \in Nat, 1 <= i, i < Len(snap)
    PROVE  snap[i] # Newline
<1>1. snap \in Seq(Byte)
  BY TextsAreBytes DEF SnapOK
<1>2. snap # << >>
  BY <1>1
<1>3. PICK s \in Seq(Byte), m \in Nat : s = Output(Pwd, cwd) /\ m = BufSize - 1
  BY Assumptions DEF Inv, Types, ServerInv
<1>4. snap = Prefix(s, m)
  BY <1>2, <1>3 DEF SnapOK
<1>5. Len(snap) <= Len(s) /\ \A j \in 1 .. Len(snap) : snap[j] = s[j]
  BY <1>4, PrefixFacts
<1>6. i \in 1 .. Len(s) - 1 /\ snap[i] = s[i]
  BY <1>1, <1>5
<1>7. cwd \in Dirs
  BY DEF Inv, Types, ServerInv
<1> QED BY <1>3, <1>6, <1>7 DEF PwdIsOneLine

LEMMA PieceShown ==
    ASSUME PwdIsOneLine, Inv, cpc = "piece", mail # << >>, get_size - cp_size # 0
    PROVE  SubSeq(snap, 1, Drained) \o Shown(CStr(Pad(Head(mail)))) = SubSeq(snap, 1, Drained + cp_size)
<1>1. PICK d \in Nat, n \in Nat :
         /\ d = Drained /\ n = cp_size /\ snap \in Seq(Byte) /\ SnapOK /\ n > 0
         /\ d + n < Len(snap) /\ CStr(Pad(Head(mail))) = SubSeq(snap, d + 1, d + n)
  <2>1. /\ snap \in Seq(Byte) /\ SnapOK /\ get_size \in Nat /\ cp_size \in Nat
        /\ cp_size <= get_size /\ Drained \in Nat /\ Drained + get_size = Len(snap)
        /\ (cp_size = 0 => get_size = 0)
        /\ CStr(Pad(Head(mail))) = SubSeq(snap, Drained + 1, Drained + cp_size)
    BY DrainFacts
  <2>2. cp_size > 0 /\ Drained + cp_size < Len(snap)
    BY <2>1
  <2> QED BY <2>1, <2>2
<1>0. d + n <= Len(snap)
  BY <1>1
<1>2. PICK p \in Seq(Byte) : p = SubSeq(snap, d + 1, d + n)
  BY <1>0, <1>1, PieceFacts
<1>3. Len(p) = n /\ p[n] = snap[d + n]
  BY <1>0, <1>1, <1>2, PieceFacts
<1>4. Shown(p) = p
  <2>1. CASE doing = "pwd"
    <3>1. snap[d + n] # Newline
      BY <1>1, <2>1, NoInnerNewline
    <3> QED BY <1>3, <2>1, <3>1, StripFacts DEF Shown
  <2>2. CASE doing # "pwd"
    BY <2>2 DEF Shown
  <2> QED BY <2>1, <2>2
<1>5. SubSeq(snap, 1, d) \o p = SubSeq(snap, 1, d + n)
  BY <1>0, <1>1, <1>2, PrefixGrows
<1> QED BY <1>1, <1>2, <1>4, <1>5

LEMMA LastShown ==
    ASSUME Inv, cpc = "piece", mail # << >>, get_size - cp_size = 0
    PROVE  SubSeq(snap, 1, Drained) \o Shown(CStr(Pad(Head(mail)))) = Shown(snap)
<1>1. PICK d \in Nat, n \in Nat :
         /\ d = Drained /\ n = cp_size /\ snap \in Seq(Byte) /\ (n = 0 => snap = << >>)
         /\ d + n = Len(snap) /\ CStr(Pad(Head(mail))) = SubSeq(snap, d + 1, d + n)
  <2>1. /\ snap \in Seq(Byte) /\ get_size \in Nat /\ cp_size \in Nat
        /\ Drained \in Nat /\ Drained + get_size = Len(snap)
        /\ (get_size = 0 => snap = << >>)
        /\ CStr(Pad(Head(mail))) = SubSeq(snap, Drained + 1, Drained + cp_size)
    BY DrainFacts
  <2>2. cp_size = get_size
    BY <2>1
  <2> QED BY <2>1, <2>2
<1>2. PICK p \in Seq(Byte) : p = SubSeq(snap, d + 1, d + n)
  <2>1. d + n <= Len(snap)
    BY <1>1
  <2> QED BY <1>1, <2>1, PieceFacts
<1>3. CASE doing = "pwd" /\ n > 0
  <2>1. SubSeq(snap, 1, d) \o Strip(SubSeq(snap, d + 1, d + n)) = Strip(snap)
    BY <1>1, <1>3, LastPiece
  <2> QED BY <1>1, <1>3, <2>1 DEF Shown
<1>4. CASE n = 0
  <2>1. snap = << >> /\ d = 0
    BY <1>1, <1>4
  <2>2. SubSeq(snap, 1, d) = << >> /\ SubSeq(snap, d + 1, d + n) = << >>
    BY <1>4, <2>1
  <2>3. Shown(<< >>) = << >>
    BY DEF Shown, Strip
  <2> QED BY <1>1, <2>1, <2>2, <2>3
<1>5. CASE doing # "pwd" /\ n > 0
  <2>0. d + n <= Len(snap)
    BY <1>1
  <2>1. SubSeq(snap, 1, d) \o SubSeq(snap, d + 1, d + n) = SubSeq(snap, 1, d + n)
    BY <1>1, <2>0, PrefixGrows
  <2>2. SubSeq(snap, 1, d + n) = snap
    BY <1>1, WholeSlice
  <2> QED BY <1>1, <1>5, <2>1, <2>2 DEF Shown
<1>6. n = 0 \/ n > 0
  OBVIOUS
<1> QED BY <1>3, <1>4, <1>5, <1>6

(* What the reads of a client that stays in step give. *)
LEMMA SizeStep ==
    ASSUME Inv, InStep, InStep', shell_size
    PROVE  /\ cpc = "size" /\ mail # << >> /\ cpc' = "piece" /\ UNCHANGED <<doing, text, snap>>
           /\ get_size' = Pad(Head(mail))[1]
<1>1. PICK r \in Reads : mail' = r.rest /\ Keep(r) /\ get_size' = r.buf[1]
  BY DEF shell_size
<1>2. mail # << >> /\ r.buf = Pad(Head(mail)) /\ UNCHANGED snap
  BY <1>1, ReadInStep
<1> QED BY <1>1, <1>2 DEF shell_size

LEMMA PieceStep ==
    ASSUME Inv, InStep, InStep', shell_piece
    PROVE  /\ cpc = "piece" /\ mail # << >> /\ get_size - cp_size # 0 /\ cpc' = "piece"
           /\ text' = text \o Shown(CStr(Pad(Head(mail)))) /\ get_size' = get_size - cp_size
           /\ UNCHANGED <<snap, doing>>
<1>1. PICK r \in Reads : mail' = r.rest /\ Keep(r) /\ text' = text \o Shown(CStr(r.buf))
  BY DEF shell_piece
<1>2. mail # << >> /\ r.buf = Pad(Head(mail)) /\ UNCHANGED snap
  BY <1>1, ReadInStep
<1> QED BY <1>1, <1>2 DEF shell_piece

LEMMA LastStep ==
    ASSUME Inv, InStep, InStep', shell_last
    PROVE  /\ cpc = "piece" /\ mail # << >> /\ get_size - cp_size = 0
           /\ cpc' \in {"done", "shown", "prompt"}
           /\ text' = text \o Shown(CStr(Pad(Head(mail)))) /\ UNCHANGED <<snap, doing>>
<1>1. PICK r \in Reads : mail' = r.rest /\ Keep(r) /\ text' = text \o Shown(CStr(r.buf))
  BY DEF shell_last
<1>2. mail # << >> /\ r.buf = Pad(Head(mail)) /\ UNCHANGED snap
  BY <1>1, ReadInStep
<1> QED BY <1>1, <1>2 DEF shell_last, AfterLast

(* What a client in step has shown, in every state. *)
ShownInv == InStep => TextInv

LEMMA TextStep == ASSUME PwdIsOneLine, ShellInv, ShownInv, [Next]_vars PROVE ShownInv'
<1> SUFFICES ASSUME InStep' PROVE TextInv'
  BY DEF ShownInv
<1>3. CASE shell_start
  BY <1>3 DEF shell_start, TextInv
<1> SUFFICES ASSUME ~shell_start PROVE TextInv'
  BY <1>3
<1>0. InStep /\ Inv /\ TextInv
  BY StaysInStep DEF ShellInv, ShownInv
<1>1. CASE Server
  BY <1>0, <1>1, ServerStep DEF TextInv, Drained, Shown
<1>2. CASE udb_debug_auth \/ UNCHANGED vars
  <2>1. UNCHANGED <<cpc, doing, get_size, text, snap>>
    BY <1>2 DEF udb_debug_auth, vars, clientVars
  <2> QED BY <1>0, <2>1 DEF TextInv, Drained, Shown
<1>9. CASE shell_pwd
  BY <1>9 DEF shell_pwd, NextText, TextInv
<1>4. CASE shell_type
  <2>1. \/ cpc' = "size" /\ text' = << >>
        \/ cpc' = "done" /\ cpc = "prompt" /\ UNCHANGED <<doing, text, snap>>
    BY <1>4 DEF shell_type, NextText
  <2> QED BY <1>0, <2>1 DEF TextInv, Shown
<1>5. CASE Kill
  BY <1>5 DEF Kill, TextInv
<1>6. CASE shell_size
  <2>1. /\ cpc = "size" /\ mail # << >> /\ cpc' = "piece" /\ UNCHANGED <<text, snap>>
        /\ get_size' = Pad(Head(mail))[1]
    BY <1>0, <1>6, SizeStep
  <2>2. SnapOK /\ get_size' = Len(snap)
    BY <1>0, <2>1, AnswerTaken DEF Inv, CommandInv, Waiting
  <2>3. snap \in Seq(Byte)
    BY <2>2, TextsAreBytes DEF SnapOK
  <2>4. Drained' = 0
    BY <2>1, <2>2, <2>3 DEF Drained
  <2>5. text' = << >> /\ SubSeq(snap, 1, 0) = << >>
    BY <1>0, <2>1, <2>3, WholeSlice DEF TextInv
  <2> QED BY <2>1, <2>4, <2>5 DEF TextInv
<1>7. CASE shell_piece
  <2>1. /\ cpc = "piece" /\ mail # << >> /\ get_size - cp_size # 0 /\ cpc' = "piece"
        /\ text' = text \o Shown(CStr(Pad(Head(mail)))) /\ get_size' = get_size - cp_size
        /\ UNCHANGED snap
    BY <1>0, <1>7, PieceStep
  <2>2. text' = SubSeq(snap, 1, Drained + cp_size)
    BY <1>0, <2>1, PieceShown DEF TextInv
  <2>3. get_size \in Nat /\ cp_size \in Nat /\ Len(snap) \in Nat
    BY <1>0, <2>1, DrainFacts
  <2>4. Drained' = Drained + cp_size
    BY <2>1, <2>3 DEF Drained
  <2> QED BY <2>1, <2>2, <2>4 DEF TextInv
<1>8. CASE shell_last
  <2>1. /\ cpc = "piece" /\ mail # << >> /\ get_size - cp_size = 0 /\ cpc' \in {"done", "shown", "prompt"}
        /\ text' = text \o Shown(CStr(Pad(Head(mail)))) /\ UNCHANGED <<snap, doing>>
    BY <1>0, <1>8, LastStep
  <2>2. text' = Shown(snap) /\ Shown(snap)' = Shown(snap)
    BY <1>0, <2>1, LastShown DEF TextInv, Shown
  <2> QED BY <2>1, <2>2 DEF TextInv
<1> QED BY <1>1, <1>2, <1>4, <1>5, <1>6, <1>7, <1>8, <1>9 DEF Next, Client

(* For every packet and buffer size, any commands and any clients before     *)
(* it, killed, timed out or not: the directory that the interactive shell    *)
(* shows in its prompt is the server's at that moment, as long as none of    *)
(* its own reads has timed out.                                              *)
THEOREM ShellPrompt == ASSUME PwdIsOneLine PROVE Spec => []PromptTellsDirectory
<1>1. Init => ShellInv /\ ShownInv
  BY InitInv DEF Init, ShownInv, TextInv
<1>2. ShellInv /\ ShownInv /\ [Next]_vars => (ShellInv /\ ShownInv)'
  BY StepInv, TextStep
<1>3. ShellInv /\ ShownInv => PromptTellsDirectory
  <2> SUFFICES ASSUME Inv, TextInv, cpc = "prompt", text # << >>
               PROVE  text \in {Prefix(Output(Pwd, cwd), BufSize - 1),
                                Strip(Prefix(Output(Pwd, cwd), BufSize - 1))}
    BY DEF PromptTellsDirectory, ShellInv, ShownInv
  <2>1. SnapOK /\ text = Shown(snap) /\ doing # "cmd"
    BY DEF Inv, Types, RestInv, TextInv, ClientInv
  <2>2. snap # << >>
    BY <2>1 DEF Shown, Strip
  <2> QED BY <2>1, <2>2 DEF SnapOK, Shown
<1> QED BY <1>1, <1>2, <1>3, PTL DEF Spec
-----------------------------------------------------------------------------
(* The refinement.                                                           *)

Dst == IF InStep THEN text ELSE kept

(* A client in step shows its own command. *)
LEMMA InStepMap ==
    ASSUME InStep
    PROVE  /\ Dst = text /\ ToShow = IF snap = Unfixed THEN Unfixed ELSE Shown(snap)
           /\ (Waiting => Phase = "copying") /\ (cpc = "killed" => Phase = "abandoned")
           /\ (cpc = "idle" => Phase = "idle")
           /\ (cpc \in {"shown", "prompt", "done"} => Phase = "done")
<1>1. Dst = text /\ ToShow = IF snap = Unfixed THEN Unfixed ELSE Shown(snap)
  BY DEF Dst, ToShow
<1>2. CASE cpc = "killed"
  BY <1>1, <1>2 DEF Phase, Waiting
<1>3. CASE Waiting
  BY <1>1, <1>3 DEF Phase, Waiting
<1>4. CASE cpc = "idle"
  BY <1>1, <1>4 DEF Phase, Waiting
<1>5. CASE cpc \in {"shown", "prompt", "done"}
  BY <1>1, <1>5 DEF Phase, Waiting
<1> QED BY <1>1, <1>2, <1>3, <1>4, <1>5

LEMMA OutOfStepMap ==
    ASSUME ~InStep
    PROVE  Dst = kept /\ ToShow = snap /\ Phase = "abandoned"
<1>1. Dst = kept /\ ToShow = snap
  BY DEF Dst, ToShow
<1>2. Phase = "abandoned"
  BY DEF Phase
<1> QED BY <1>1, <1>2

LEMMA ShownFacts ==
    ASSUME NEW s \in Seq(Byte)
    PROVE  Shown(s) \in Seq(Byte) /\ s # Unfixed /\ Shown(s) # Unfixed
<1>1. Shown(s) \in Seq(Byte)
  BY StripFacts DEF Shown
<1> QED BY <1>1, BytesAreNat, Assumptions

LEMMA ServerCopies ==
    ASSUME Inv, Inv', InStep, InStep', Server
    PROVE  FC!Next \/ UNCHANGED <<ToShow, Dst, Phase>>
<1>1. /\ ~blocked /\ inbox # << >> /\ inbox' = Tail(inbox)
      /\ UNCHANGED <<session, mode, cpc, doing, typed, get_size, cp_size, text, kept>>
      /\ (snap' # snap => Mine /\ cpc = "size")
  BY ServerStep
<1>2. Phase' = Phase /\ Dst' = Dst
  BY <1>1 DEF Phase, Waiting, InStep, Dst
<1>3. CASE snap' = snap
  BY <1>1, <1>2, <1>3 DEF ToShow, Shown, InStep
<1>4. CASE snap' # snap
  <2>1. Mine /\ cpc = "size" /\ cpc' = "size"
    BY <1>1, <1>4
  <2>2. mail = << >> /\ inbox' = << >>
    BY <1>1, <2>1, HeadOfMine
  <2>3. snap = Unfixed
    BY <2>1, <2>2 DEF Inv, CommandInv
  <2>4. mail' # << >>
    BY <1>4, <2>1, <2>3 DEF Inv, CommandInv
  <2>5. snap' \in Texts
    BY <2>1, <2>4 DEF Inv, CommandInv, SnapOK
  <2>6. snap' # Unfixed
    BY <1>4, <2>3
  <2>7. ToShow = Unfixed /\ ToShow' \in Texts \cup {Strip(t) : t \in Texts}
    BY <2>3, <2>5, <2>6 DEF ToShow, Shown
  <2>8. Phase = "copying"
    BY <2>1, InStepMap DEF Waiting
  <2>9. FC!Fix
    BY <1>2, <2>7, <2>8 DEF FC!Fix, FC!UnderWay, Dst
  <2> QED BY <2>9 DEF FC!Next
<1> QED BY <1>3, <1>4

(* A client that is not waiting starts to show another command. *)
LEMMA StartCopies ==
    ASSUME Phase # "copying", InStep', cpc' = "size", text' = << >>, snap' = Unfixed
    PROVE  FC!Next
<1>1. Phase' = "copying"
  BY DEF Phase, Waiting
<1>2. ToShow' = Unfixed /\ Dst' = << >>
  BY DEF ToShow, Dst
<1> QED BY <1>1, <1>2 DEF FC!Next, FC!Start, Dst

LEMMA PieceCopies ==
    ASSUME PwdIsOneLine, Inv, TextInv, InStep, InStep', shell_piece
    PROVE  FC!Next
<1>1. /\ cpc = "piece" /\ mail # << >> /\ get_size - cp_size # 0 /\ cpc' = "piece"
      /\ text' = text \o Shown(CStr(Pad(Head(mail)))) /\ UNCHANGED <<snap, doing>>
  BY PieceStep
<1>2. text = SubSeq(snap, 1, Drained) /\ text' = SubSeq(snap, 1, Drained + cp_size)
  BY <1>1, PieceShown DEF TextInv
<1>3. PICK d \in Nat, n \in Nat :
         d = Drained /\ n = Drained + cp_size /\ d <= n /\ n < Len(snap) /\ snap \in Seq(Byte)
  <2>1. /\ snap \in Seq(Byte) /\ get_size \in Nat /\ cp_size \in Nat /\ cp_size <= get_size
        /\ Drained \in Nat /\ Drained + get_size = Len(snap)
    BY <1>1, DrainFacts
  <2>2. Drained + cp_size \in Nat /\ Drained <= Drained + cp_size /\ Drained + cp_size < Len(snap)
    BY <1>1, <2>1
  <2> QED BY <2>1, <2>2
<1>4. PICK t \in Seq(Byte) : t = Shown(snap)
  BY <1>3, ShownFacts
<1>5. n <= Len(t) /\ SubSeq(t, 1, n) = SubSeq(snap, 1, n)
  BY <1>3, <1>4, StripFacts DEF Shown
<1>6. Len(text) = d
  <2>1. d <= Len(snap)
    BY <1>3
  <2> QED BY <1>2, <1>3, <2>1, HeadFacts
<1>7. n \in Len(text) .. Len(t)
  BY <1>3, <1>5, <1>6
<1>8. ToShow = t /\ ToShow' = t /\ ToShow # Unfixed
  <2>1. snap # Unfixed /\ t # Unfixed
    BY <1>3, <1>4, ShownFacts
  <2>2. Shown(snap)' = Shown(snap)
    BY <1>1 DEF Shown
  <2> QED BY <1>1, <1>4, <2>1, <2>2 DEF ToShow
<1>9. Phase = "copying" /\ Phase' = "copying" /\ Dst = text /\ Dst' = text'
  BY <1>1 DEF Phase, Waiting, Dst
<1>10. Dst' = SubSeq(ToShow, 1, n) /\ n \in Len(Dst) .. Len(ToShow) /\ ToShow' = ToShow
  BY <1>2, <1>3, <1>5, <1>7, <1>8, <1>9
<1>11. FC!Extend
  BY <1>8, <1>9, <1>10 DEF FC!Extend, FC!UnderWay, Dst
<1> QED BY <1>11 DEF FC!Next

LEMMA LastCopies ==
    ASSUME Inv, TextInv, InStep, InStep', shell_last
    PROVE  FC!Next
<1>1. /\ cpc = "piece" /\ mail # << >> /\ get_size - cp_size = 0 /\ cpc' \in {"done", "shown", "prompt"}
      /\ text' = text \o Shown(CStr(Pad(Head(mail)))) /\ UNCHANGED <<snap, doing>>
  BY LastStep
<1>2. text' = Shown(snap)
  BY <1>1, LastShown DEF TextInv
<1>3. snap \in Seq(Byte)
  BY <1>1, DrainFacts
<1>4. ToShow = Shown(snap) /\ ToShow' = ToShow /\ ToShow # Unfixed
  <2>1. snap # Unfixed /\ Shown(snap) # Unfixed
    BY <1>3, ShownFacts
  <2>2. Shown(snap)' = Shown(snap)
    BY <1>1 DEF Shown
  <2> QED BY <1>1, <2>1, <2>2 DEF ToShow
<1>5. Phase = "copying" /\ Phase' = "done" /\ Dst' = text'
  BY <1>1 DEF Phase, Waiting, Dst
<1>6. FC!Finish
  BY <1>2, <1>4, <1>5 DEF FC!Finish, Dst
<1> QED BY <1>6 DEF FC!Next

(* A client that stays in step. *)
LEMMA InStepCopies ==
    ASSUME PwdIsOneLine, Inv, Inv', TextInv, InStep, InStep', [Next]_vars, ~shell_start
    PROVE  FC!Next \/ UNCHANGED <<ToShow, Dst, Phase>>
<1>1. CASE Server
  BY <1>1, ServerCopies
<1>2. CASE udb_debug_auth \/ UNCHANGED vars
  <2>1. UNCHANGED <<cpc, doing, text, snap, kept>>
    BY <1>2 DEF udb_debug_auth, vars, clientVars
  <2> QED BY <2>1 DEF ToShow, Shown, Phase, Waiting, InStep, Dst
<1>3. CASE shell_pwd
  <2>1. cpc = "shown" /\ cpc' = "size" /\ text' = << >> /\ snap' = Unfixed
    BY <1>3 DEF shell_pwd, NextText
  <2>2. Phase # "copying"
    BY <2>1, InStepMap
  <2> QED BY <2>1, <2>2, StartCopies
<1>4. CASE shell_type
  <2>1. cpc = "prompt" /\ Phase = "done"
    BY <1>4, InStepMap DEF shell_type
  <2>2. \/ cpc' = "size" /\ text' = << >> /\ snap' = Unfixed
        \/ cpc' = "done" /\ UNCHANGED <<doing, text, snap>>
    BY <1>4 DEF shell_type, NextText
  <2>3. CASE cpc' = "size" /\ text' = << >> /\ snap' = Unfixed
    BY <2>1, <2>3, StartCopies
  <2>4. CASE cpc' = "done" /\ UNCHANGED <<doing, text, snap>>
    BY <2>1, <2>4 DEF ToShow, Shown, Phase, Waiting, Dst
  <2> QED BY <2>2, <2>3, <2>4
<1>5. CASE Kill
  <2>1. Waiting /\ cpc' = "killed" /\ UNCHANGED <<doing, text, snap>>
    BY <1>5 DEF Kill
  <2>2. Phase = "copying" /\ Phase' = "abandoned" /\ ToShow' = ToShow /\ Dst' = Dst
    <3>1. Phase = "copying"
      BY <2>1, InStepMap
    <3>2. Phase' = "abandoned"
      BY <2>1 DEF Phase, Waiting
    <3>3. ToShow' = ToShow /\ Dst' = Dst
      BY <2>1 DEF ToShow, Shown, Dst
    <3> QED BY <3>1, <3>2, <3>3
  <2> QED BY <2>2 DEF FC!Next, FC!Abandon, Dst
<1>6. CASE shell_size
  <2>1. cpc = "size" /\ cpc' = "piece" /\ UNCHANGED <<doing, text, snap>>
    BY <1>6, SizeStep
  <2> QED BY <2>1 DEF ToShow, Shown, Phase, Waiting, Dst
<1>7. CASE shell_piece
  BY <1>7, PieceCopies
<1>8. CASE shell_last
  BY <1>8, LastCopies
<1> QED BY <1>1, <1>2, <1>3, <1>4, <1>5, <1>6, <1>7, <1>8 DEF Next, Client

(* The read that times out: what was shown is given up at this point. *)
LEMMA LateCopies ==
    ASSUME Inv, InStep, ~InStep', [Next]_vars
    PROVE  FC!Next
<1>1. Waiting /\ kept' = text /\ snap' = ToShow
  <2>1. CASE shell_size \/ shell_piece \/ shell_last
    <3>1. Waiting /\ \E r \in Reads : Keep(r)
      BY <2>1 DEF shell_size, shell_piece, shell_last, Waiting
    <3> QED BY <3>1 DEF Keep, InStep
  <2>2. CASE ~(shell_size \/ shell_piece \/ shell_last)
    <3>1. UNCHANGED kept \/ kept' = Unfixed
      BY <2>2 DEF Next, Client, Server, udb_debug_bridge_refuse, udb_debug_runcmd, udb_debug_msh,
                  udb_debug_pullout, udb_debug_auth, vars, clientVars, shell_pwd, shell_type, Kill, shell_start
    <3> QED BY <3>1 DEF InStep
  <2> QED BY <2>1, <2>2
<1>2. Phase = "copying" /\ Dst = text
  BY <1>1, InStepMap
<1>3. Phase' = "abandoned" /\ Dst' = kept' /\ ToShow' = snap'
  BY DEF Phase, Dst, ToShow
<1>4. FC!Abandon
  BY <1>1, <1>2, <1>3 DEF FC!Abandon, Dst
<1> QED BY <1>4 DEF FC!Next

(* A client out of step, up to its end. *)
LEMMA LostCopies ==
    ASSUME ~InStep, ~InStep', [Next]_vars
    PROVE  UNCHANGED <<ToShow, Dst, Phase>>
<1>1. UNCHANGED <<kept, snap>>
  <2>1. CASE Server
    BY <2>1 DEF Server, udb_debug_bridge_refuse, udb_debug_runcmd, udb_debug_msh, udb_debug_pullout,
                Announce, Record, clientVars
  <2>2. CASE shell_size \/ shell_piece \/ shell_last
    <3>1. \E r \in Reads : Keep(r)
      BY <2>2 DEF shell_size, shell_piece, shell_last
    <3> QED BY <3>1 DEF Keep
  <2>3. CASE udb_debug_auth \/ UNCHANGED vars \/ shell_pwd \/ shell_type \/ Kill
    BY <2>3 DEF udb_debug_auth, vars, clientVars, shell_pwd, shell_type, Kill, NextText
  <2>4. CASE shell_start
    BY <2>4 DEF shell_start, InStep
  <2> QED BY <2>1, <2>2, <2>3, <2>4 DEF Next, Client
<1>2. Dst = kept /\ ToShow = snap /\ Phase = "abandoned"
  BY OutOfStepMap
<1>3. Dst' = kept' /\ ToShow' = snap' /\ Phase' = "abandoned"
  BY DEF Phase, Dst, ToShow
<1> QED BY <1>1, <1>2, <1>3

LEMMA ShellStep ==
    ASSUME PwdIsOneLine, ShellInv, ShellInv', ShownInv, [Next]_vars
    PROVE  FC!Next \/ UNCHANGED <<ToShow, Dst, Phase>>
<1>1. CASE shell_start
  <2>1. ~Running /\ InStep' /\ cpc' = "size" /\ text' = << >> /\ snap' = Unfixed
    BY <1>1 DEF shell_start, InStep
  <2>2. Phase # "copying"
    BY <2>1 DEF Phase, Running, Waiting
  <2> QED BY <2>1, <2>2, StartCopies
<1>2. CASE ~shell_start /\ InStep'
  <2>1. InStep /\ Inv /\ Inv' /\ TextInv
    BY <1>2, StaysInStep DEF ShellInv, ShownInv
  <2> QED BY <1>2, <2>1, InStepCopies
<1>3. CASE InStep /\ ~InStep'
  BY <1>3, LateCopies DEF ShellInv
<1>4. CASE ~InStep /\ ~InStep'
  BY <1>4, LostCopies
<1> QED BY <1>1, <1>2, <1>3, <1>4

(* `udb shell` and `udb msh` show their own command's output: at every       *)
(* moment a prefix of what this very command left on the device, all of it   *)
(* when the prompt comes back, whatever killed or timed-out clients left in  *)
(* the queue or in the control blocks, when popen failed, and for every      *)
(* datagram size; up to the first read of this client that times out.        *)
THEOREM ShellShowsOutput == ASSUME PwdIsOneLine PROVE Spec => ShowsOutput
<1>1. Init => ShellInv /\ ShownInv
  BY InitInv DEF Init, ShownInv, TextInv
<1>2. ShellInv /\ ShownInv /\ [Next]_vars => (ShellInv /\ ShownInv)'
  BY StepInv, TextStep
<1>3. Init => FC!Init
  <2> SUFFICES ASSUME Init PROVE FC!Init
    OBVIOUS
  <2>1. InStep /\ cpc = "idle" /\ text = << >> /\ snap = Unfixed
    BY DEF Init, InStep
  <2>2. Phase = "idle" /\ Dst = << >> /\ ToShow = Unfixed
    BY <2>1, InStepMap
  <2> QED BY <2>2 DEF FC!Init, Dst
<1>4. ShellInv /\ ShellInv' /\ ShownInv /\ [Next]_vars => [FC!Next]_<<ToShow, Dst, Phase>>
  BY ShellStep
<1> QED BY <1>1, <1>2, <1>3, <1>4, PTL DEF Spec, ShowsOutput, FC!Spec, Dst
=============================================================================
