--------------------------- MODULE PullFileProofs ---------------------------
(***************************************************************************)
(* Proofs about `udb pull`, for every datagram size, every set of file     *)
(* contents and any number of clients, with lost datagrams, killed clients *)
(* and time-outs.                                                          *)
(***************************************************************************)
EXTENDS PullFile, SeqFacts

Req == [sess : 1 .. MaxSession, chan : {"PULL_FILE_INIT", "PULL_FILE_PULLOUT"},
        cp : 0 .. ProtSize]
Datagram == {d \in Seq(Nat) : Len(d) <= ProtSize}

(* Types that TypeOK leaves out, and what the client knows of itself. *)
TypeInv ==
    /\ TypeOK
    /\ local \in Seq(Nat) /\ mail \in Seq(Datagram)
    /\ \A i \in 1 .. Len(inbox) : inbox[i].sess <= session
    /\ cpc = "pull" => cp_size = PieceSize(get_size)
    /\ cpc = "init" => InStep
    /\ cpc # "idle" => session # 0

Owned(i) == inbox[i].sess = session
IsInit(i) == inbox[i].chan = "PULL_FILE_INIT"

(* There is room for n more bytes in the server's copy, or no copy. *)
Fits(n) == used_size = 0 \/ cp_offset + n <= used_size

(* A request that asks for bytes was sent after its INIT was answered: no    *)
(* INIT is in front of it, and it fits even after all those before it.       *)
RequestsFit ==
    \A i \in 1 .. Len(inbox) : inbox[i].cp # 0 =>
        /\ \A j \in 1 .. i : ~IsInit(j)
        /\ Fits((i - 1) * ProtSize + inbox[i].cp)

(* So does the rest that the client will ask for. *)
ClientFits ==
    cpc = "pull" /\ get_size > cp_size =>
        /\ \A j \in 1 .. Len(inbox) : ~IsInit(j)
        /\ Fits(Len(inbox) * ProtSize + (get_size - cp_size))

BoundsInv == CopiesInBounds /\ RequestsFit /\ ClientFits

Size == Len(snap) % U32
ServerAt(n) == udb_auth_ok /\ cp_offset = n /\ used_size = Size /\ pullout = snap

(* The client's one request is the last in the server's queue. *)
Asked ==
    /\ inbox # << >> /\ mail = << >>
    /\ Owned(Len(inbox)) /\ \A i \in 1 .. Len(inbox) - 1 : ~Owned(i)
    /\ cpc = "init" => IsInit(Len(inbox)) /\ snap = Unfixed
    /\ cpc = "pull" => /\ Len(inbox) = 1 /\ ~IsInit(1) /\ inbox[1].cp = cp_size
                       /\ snap # Unfixed /\ get_size = Size - Len(local)
                       /\ get_size > 0 => ServerAt(Len(local))

(* Its answer is in the client's socket. *)
Answered ==
    /\ inbox = << >> /\ Len(mail) = 1 /\ snap # Unfixed
    /\ cpc = "init" => /\ Pad(mail[1])[1] = Size
                       /\ Size > 0 => ServerAt(0)
    /\ cpc = "pull" => /\ get_size = Size - Len(local)
                       /\ SubSeq(Pad(mail[1]), 1, cp_size)
                            = SubSeq(snap, Len(local) + 1, Len(local) + cp_size)
                       /\ get_size > cp_size => ServerAt(Len(local) + cp_size)

(* One of the two was lost. *)
Silent == mail = << >> /\ \A i \in 1 .. Len(inbox) : ~Owned(i)

InStepInv == InStep /\ Running => Asked \/ Answered \/ Silent

(* The local file is a prefix of the version that the server read. *)
PrefixInv ==
    InStep =>
        /\ snap = Unfixed \/ cpc = "init" => local = << >>
        /\ snap # Unfixed => Len(local) <= Size /\ local = SubSeq(snap, 1, Len(local))
        /\ cpc = "done" => snap # Unfixed /\ Len(local) = Size

(* The server reads the file at most once for a client. *)
InitOnce ==
    Running => \A i \in 1 .. Len(inbox) : Owned(i) /\ IsInit(i) =>
        /\ snap = Unfixed
        /\ \A j \in 1 .. Len(inbox) : Owned(j) /\ IsInit(j) => i = j

PullInv == TypeInv /\ BoundsInv /\ InStepInv /\ PrefixInv /\ InitOnce

-----------------------------------------------------------------------------
(* The operators of the model.                                               *)

LEMMA ZerosFacts ==
    ASSUME NEW n \in Nat
    PROVE  Zeros(n) \in Seq(Nat) /\ Len(Zeros(n)) = n /\ \A i \in 1 .. n : Zeros(n)[i] = 0
  BY DEF Zeros

(* A zeroed receive buffer holds the datagram and zeros behind it. *)
LEMMA PadFacts ==
    ASSUME NEW d \in Datagram
    PROVE  /\ Pad(d) \in Seq(Nat) /\ Len(Pad(d)) = ProtSize
           /\ \A i \in 1 .. Len(d) : Pad(d)[i] = d[i]
           /\ \A i \in Len(d) + 1 .. ProtSize : Pad(d)[i] = 0
<1>1. ProtSize \in Nat /\ d \in Seq(Nat) /\ Len(d) \in Nat /\ ProtSize - Len(d) \in Nat
  BY PullAssumption DEF Datagram
<1>2. PICK z \in Seq(Nat) : /\ z = Zeros(ProtSize - Len(d)) /\ Len(z) = ProtSize - Len(d)
                            /\ \A i \in 1 .. ProtSize - Len(d) : z[i] = 0
  BY <1>1, ZerosFacts
<1>3. PICK p \in Seq(Nat) : /\ p = d \o z /\ Len(p) = Len(d) + Len(z)
                            /\ \A i \in 1 .. Len(d) : p[i] = d[i]
                            /\ \A i \in 1 .. Len(z) : p[Len(d) + i] = z[i]
  <2>1. /\ d \o z \in Seq(Nat) /\ Len(d \o z) = Len(d) + Len(z)
        /\ \A i \in 1 .. Len(d) : (d \o z)[i] = d[i]
        /\ \A i \in 1 .. Len(z) : (d \o z)[Len(d) + i] = z[i]
    BY <1>1, JoinFacts
  <2> QED BY <2>1, Zenon
<1>4. Pad(d) = p
  BY <1>2, <1>3 DEF Pad
<1>5. ASSUME NEW i \in Len(d) + 1 .. ProtSize PROVE p[i] = 0
  <2>1. i - Len(d) \in 1 .. ProtSize - Len(d) /\ Len(d) + (i - Len(d)) = i
    BY <1>1
  <2> QED BY <2>1, <1>2, <1>3
<1> QED BY <1>1, <1>2, <1>3, <1>4, <1>5

LEMMA PieceSizeFacts ==
    ASSUME NEW left \in Nat
    PROVE  /\ PieceSize(left) \in 0 .. ProtSize /\ PieceSize(left) <= left
           /\ left - PieceSize(left) \in Nat
           /\ left > 0 => PieceSize(left) > 0
           /\ left > PieceSize(left) => PieceSize(left) = ProtSize
  BY PullAssumption DEF PieceSize

(* Arithmetic modulo U32. *)
LEMMA ModFacts ==
    ASSUME NEW n \in Nat
    PROVE  n % U32 \in 0 .. U32 - 1 /\ n % U32 <= n /\ (n < U32 => n % U32 = n)
  BY PullAssumption

LEMMA LessFits ==
    ASSUME NEW a \in Nat, NEW b \in Nat, NEW c \in Nat, NEW d \in Nat, NEW e \in Nat,
           a + (b + c) <= d, e <= c
    PROVE  a + (b + e) <= d
  OBVIOUS

LEMMA SnapFacts ==
    ASSUME TypeInv, snap # Unfixed
    PROVE  snap \in Contents /\ snap \in Seq(Nat) /\ Len(snap) \in Nat /\ Size \in 0 .. U32 - 1
           /\ Size <= Len(snap)
<1>1. snap \in Contents /\ snap \in Seq(Nat) /\ Len(snap) \in Nat
  BY PullAssumption DEF TypeInv, TypeOK
<1> QED BY <1>1, ModFacts DEF Size

LEMMA QueueFacts ==
    ASSUME PullInv
    PROVE  /\ inbox \in Seq(Req) /\ Len(inbox) \in Nat
           /\ \A i \in 1 .. Len(inbox) :
                 /\ inbox[i] \in Req /\ inbox[i].sess \in Nat /\ inbox[i].sess <= session
                 /\ inbox[i].cp \in 0 .. ProtSize
                 /\ IsInit(i) <=> inbox[i].chan # "PULL_FILE_PULLOUT"
<1>1. inbox \in Seq(Req)
  BY DEF PullInv, TypeInv, TypeOK, Req
<1>2. \A i \in 1 .. Len(inbox) : inbox[i] \in Req /\ inbox[i].sess <= session
  BY <1>1 DEF PullInv, TypeInv
<1> QED BY <1>1, <1>2 DEF Req, IsInit

-----------------------------------------------------------------------------
(* The environment.                                                          *)

LEMMA InitInv == Init => PullInv
<1> SUFFICES ASSUME Init PROVE PullInv
  OBVIOUS
<1>1. TypeInv
  <2>1. inbox \in Seq(Req) /\ mail \in Seq(Datagram) /\ local \in Seq(Nat)
    BY DEF Init
  <2>2. udb_auth_ok \in BOOLEAN
    BY DEF Init
  <2>3. used_size \in 0 .. U32 - 1 /\ cp_offset \in 0 .. U32 - 1 /\ session \in 0 .. MaxSession
        /\ get_size \in Nat /\ cp_size \in 0 .. ProtSize
    BY PullAssumption DEF Init
  <2>4. TypeOK
    BY <2>1, <2>2, <2>3 DEF Init, TypeOK, Req
  <2> QED BY <2>1, <2>4 DEF Init, TypeInv
<1>2. BoundsInv
  BY DEF Init, BoundsInv, CopiesInBounds, RequestsFit, ClientFits
<1>3. InStepInv /\ PrefixInv /\ InitOnce
  BY DEF Init, InStepInv, PrefixInv, InitOnce, Running
<1> QED BY <1>1, <1>2, <1>3 DEF PullInv

(* The file and the authentication may change under a transfer. *)
LEMMA EnvironmentInv ==
    ASSUME PullInv, file' \in Contents \cup {NoFile}, udb_auth_ok' \in BOOLEAN,
           udb_auth_ok => udb_auth_ok',
           UNCHANGED <<serverVars, inbox, mail, clientVars, snap, kept>>
    PROVE  PullInv'
<1> USE DEF serverVars, clientVars
<1>1. TypeInv'
  BY DEF PullInv, TypeInv, TypeOK, InStep
<1>2. BoundsInv'
  BY DEF PullInv, BoundsInv, CopiesInBounds, RequestsFit, ClientFits, Fits, IsInit
<1>3. Size' = Size /\ \A n : ServerAt(n) => ServerAt(n)'
  BY DEF Size, ServerAt
<1>4. Running' = Running /\ InStep' = InStep /\ \A i : Owned(i)' = Owned(i) /\ IsInit(i)' = IsInit(i)
  BY DEF Running, InStep, Owned, IsInit
<1>5. Asked => Asked'
  BY <1>3, <1>4 DEF Asked
<1>6. Answered => Answered'
  BY <1>3, <1>4 DEF Answered, Pad, Zeros
<1>7. Silent => Silent'
  BY <1>4 DEF Silent
<1>8. InStepInv'
  BY <1>4, <1>5, <1>6, <1>7 DEF PullInv, InStepInv
<1>9. PrefixInv'
  BY <1>3, <1>4 DEF PullInv, PrefixInv
<1>10. InitOnce'
  BY <1>4 DEF PullInv, InitOnce
<1> QED BY <1>1, <1>2, <1>8, <1>9, <1>10 DEF PullInv

LEMMA LoseRequestInv == PullInv /\ LoseRequest => PullInv'
<1> SUFFICES ASSUME PullInv, LoseRequest PROVE PullInv'
  OBVIOUS
<1> USE DEF serverVars, clientVars
<1>1. inbox \in Seq(Req) /\ inbox # << >>
  BY DEF LoseRequest, PullInv, TypeInv, TypeOK, Req
<1>2. /\ inbox' \in Seq(Req) /\ Len(inbox') = Len(inbox) - 1 /\ Len(inbox) \in Nat \ {0}
      /\ \A i \in 1 .. Len(inbox) - 1 : inbox'[i] = inbox[i]
  BY <1>1, FrontFacts DEF LoseRequest
<1>3. UNCHANGED <<udb_auth_ok, file, pullout, used_size, cp_offset, mail, session, cpc,
                  get_size, cp_size, local, so_rcvtimeo, snap, kept>>
  BY DEF LoseRequest
<1>4. /\ Running' = Running /\ InStep' = InStep /\ Size' = Size
      /\ \A n : Fits(n)' = Fits(n) /\ ServerAt(n)' = ServerAt(n)
  BY <1>3 DEF Running, InStep, Fits, ServerAt, Size
<1>5. \A i \in 1 .. Len(inbox') : i \in 1 .. Len(inbox) /\ inbox'[i] = inbox[i]
                                  /\ Owned(i)' = Owned(i) /\ IsInit(i)' = IsInit(i)
  BY <1>2, <1>3 DEF Owned, IsInit
<1>6. TypeInv'
  BY <1>2, <1>3, <1>4, <1>5 DEF PullInv, TypeInv, TypeOK, Req
<1>7. BoundsInv'
  <2>1. CopiesInBounds'
    BY <1>3 DEF PullInv, BoundsInv, CopiesInBounds
  <2>2. RequestsFit'
    <3> SUFFICES ASSUME NEW i \in 1 .. Len(inbox'), inbox'[i].cp # 0
                 PROVE  /\ \A j \in 1 .. i : ~IsInit(j)'
                        /\ Fits((i - 1) * ProtSize + inbox'[i].cp)
      BY <1>4 DEF RequestsFit
    <3>1. i \in 1 .. Len(inbox) /\ inbox[i].cp # 0 /\ inbox'[i].cp = inbox[i].cp
      BY <1>5
    <3>2. /\ \A j \in 1 .. i : ~IsInit(j)
          /\ Fits((i - 1) * ProtSize + inbox[i].cp)
      BY <3>1 DEF PullInv, BoundsInv, RequestsFit
    <3>3. \A j \in 1 .. i : j \in 1 .. Len(inbox')
      BY <1>2
    <3>4. \A j \in 1 .. i : ~IsInit(j)'
      BY <3>2, <3>3, <1>5
    <3> QED BY <3>1, <3>2, <3>4
  <2>3. ClientFits'
    <3> SUFFICES ASSUME cpc = "pull", get_size > cp_size
                 PROVE  /\ \A j \in 1 .. Len(inbox') : ~IsInit(j)'
                        /\ Fits(Len(inbox') * ProtSize + (get_size - cp_size))
      BY <1>3, <1>4 DEF ClientFits
    <3>1. /\ \A j \in 1 .. Len(inbox) : ~IsInit(j)
          /\ Fits(Len(inbox) * ProtSize + (get_size - cp_size))
      BY DEF PullInv, BoundsInv, ClientFits
    <3>2. used_size \in Nat /\ cp_offset \in Nat /\ get_size \in Nat /\ cp_size \in Nat
          /\ ProtSize \in Nat
      BY PullAssumption DEF PullInv, TypeInv, TypeOK
    <3>3. Len(inbox') * ProtSize = Len(inbox) * ProtSize - ProtSize
      BY <1>2, <3>2
    <3>4. Fits(Len(inbox') * ProtSize + (get_size - cp_size))
      <4> DEFINE m == Len(inbox) * ProtSize
      <4>1. m \in Nat
        BY <1>2, <3>2
      <4>2. Fits((m - ProtSize) + (get_size - cp_size))
        <5> HIDE DEF m
        <5>1. Fits(m + (get_size - cp_size))
          BY <3>1 DEF m
        <5> QED BY <5>1, <4>1, <3>2 DEF Fits
      <4> QED BY <4>2, <3>3
    <3> QED BY <3>1, <3>4, <1>5
  <2> QED BY <2>1, <2>2, <2>3 DEF BoundsInv
<1>8. InStepInv'
  <2> SUFFICES ASSUME InStep, Running PROVE Silent'
    BY <1>4 DEF InStepInv
  <2>1. Asked \/ Answered \/ Silent
    BY DEF PullInv, InStepInv
  <2>2. Asked \/ Silent
    BY <2>1, <1>1 DEF Answered
  <2> QED BY <2>2, <1>2, <1>3, <1>5 DEF Asked, Silent
<1>9. PrefixInv'
  BY <1>3, <1>4 DEF PullInv, PrefixInv
<1>10. InitOnce'
  BY <1>3, <1>4, <1>5 DEF PullInv, InitOnce
<1> QED BY <1>6, <1>7, <1>8, <1>9, <1>10 DEF PullInv

LEMMA LoseReplyInv == PullInv /\ LoseReply => PullInv'
<1> SUFFICES ASSUME PullInv, LoseReply PROVE PullInv'
  OBVIOUS
<1>1. mail \in Seq(Datagram) /\ mail # << >>
  BY DEF LoseReply, PullInv, TypeInv
<1>2. mail' \in Seq(Datagram) /\ Len(mail') = Len(mail) - 1
  BY <1>1, TailFacts DEF LoseReply
<1>3. UNCHANGED <<udb_auth_ok, file, pullout, used_size, cp_offset, inbox, session, cpc,
                  get_size, cp_size, local, so_rcvtimeo, snap, kept>>
  BY DEF LoseReply, serverVars, clientVars
<1>4. /\ Running' = Running /\ InStep' = InStep /\ Size' = Size
      /\ \A i : Owned(i)' = Owned(i) /\ IsInit(i)' = IsInit(i)
  BY <1>3 DEF Running, InStep, Size, Owned, IsInit
<1>5. TypeInv'
  BY <1>2, <1>3 DEF PullInv, TypeInv, TypeOK, InStep
<1>6. BoundsInv'
  BY <1>3 DEF PullInv, BoundsInv, CopiesInBounds, RequestsFit, ClientFits, Fits, IsInit
<1>7. InStepInv'
  <2> SUFFICES ASSUME InStep, Running PROVE Silent'
    BY <1>4 DEF InStepInv
  <2>1. inbox = << >> /\ Len(mail) = 1
    BY <1>1 DEF PullInv, InStepInv, Asked, Answered, Silent
  <2>2. mail' = << >>
    BY <2>1, <1>2
  <2> QED BY <2>1, <2>2, <1>3 DEF Silent
<1>8. PrefixInv'
  BY <1>3, <1>4 DEF PullInv, PrefixInv
<1>9. InitOnce'
  BY <1>3, <1>4 DEF PullInv, InitOnce
<1> QED BY <1>5, <1>6, <1>7, <1>8, <1>9 DEF PullInv

LEMMA KillInv == PullInv /\ Kill => PullInv'
<1> SUFFICES ASSUME PullInv, Kill PROVE PullInv'
  OBVIOUS
<1>1. UNCHANGED <<udb_auth_ok, file, pullout, used_size, cp_offset, inbox, session,
                  get_size, cp_size, local, so_rcvtimeo, snap, kept>>
      /\ cpc' = "killed" /\ mail' = << >>
  BY DEF Kill, serverVars
<1>2. ~Running' /\ InStep' = InStep /\ Size' = Size
  BY <1>1 DEF Running, InStep, Size
<1>3. TypeInv'
  <2>1. mail' \in Seq(Datagram)
    BY <1>1
  <2>2. session # 0
    BY DEF Kill, Running, PullInv, TypeInv
  <2> QED BY <1>1, <2>1, <2>2 DEF PullInv, TypeInv, TypeOK
<1>4. BoundsInv'
  BY <1>1 DEF PullInv, BoundsInv, CopiesInBounds, RequestsFit, ClientFits, Fits, IsInit
<1>5. InStepInv' /\ InitOnce'
  BY <1>2 DEF InStepInv, InitOnce
<1>6. PrefixInv'
  BY <1>1, <1>2 DEF PullInv, PrefixInv
<1> QED BY <1>3, <1>4, <1>5, <1>6 DEF PullInv

-----------------------------------------------------------------------------
(* The client.                                                               *)

(* A request is queued behind all others. *)
LEMMA RequestFacts ==
    ASSUME PullInv, NEW s \in 1 .. MaxSession, NEW n \in 0 .. ProtSize,
           NEW chan \in {"PULL_FILE_INIT", "PULL_FILE_PULLOUT"}, inbox' = Request(s, chan, n)
    PROVE  /\ inbox' \in Seq(Req) /\ inbox' # << >> /\ Len(inbox') = Len(inbox) + 1
           /\ Len(inbox) \in Nat
           /\ \A i \in 1 .. Len(inbox) : i \in 1 .. Len(inbox') /\ inbox'[i] = inbox[i]
           /\ inbox'[Len(inbox')] = [sess |-> s, chan |-> chan, cp |-> n]
           /\ \A i \in 1 .. Len(inbox') : i \in 1 .. Len(inbox) \/ i = Len(inbox')
<1> DEFINE r == [sess |-> s, chan |-> chan, cp |-> n]
<1>1. r \in Req /\ inbox \in Seq(Req) /\ inbox' = Append(inbox, r)
  BY DEF PullInv, TypeInv, TypeOK, Req, Request
<1> HIDE DEF r
<1>2. /\ inbox' \in Seq(Req) /\ inbox' # << >> /\ Len(inbox') = Len(inbox) + 1
      /\ Len(inbox) \in Nat
      /\ \A i \in 1 .. Len(inbox) : inbox'[i] = inbox[i]
      /\ inbox'[Len(inbox')] = r
  BY <1>1, AppendFacts
<1> QED BY <1>2 DEF r

LEMMA StartInv == PullInv /\ pull_file_start => PullInv'
<1> SUFFICES ASSUME PullInv, pull_file_start PROVE PullInv'
  OBVIOUS
<1>1. /\ UNCHANGED <<udb_auth_ok, file, pullout, used_size, cp_offset>>
      /\ session' = session + 1 /\ cpc' = "init" /\ local' = << >> /\ get_size' = 0
      /\ cp_size' = 0 /\ mail' = << >> /\ snap' = Unfixed /\ kept' = Unfixed
      /\ inbox' = Request(session + 1, "PULL_FILE_INIT", 0)
  BY DEF pull_file_start, serverVars
<1>2. session + 1 \in 1 .. MaxSession /\ session \in Nat
  BY PullAssumption DEF pull_file_start, PullInv, TypeInv, TypeOK
<1>3. 0 \in 0 .. ProtSize
  BY PullAssumption
<1>4. /\ inbox' \in Seq(Req) /\ inbox' # << >> /\ Len(inbox') = Len(inbox) + 1
      /\ Len(inbox) \in Nat
      /\ \A i \in 1 .. Len(inbox) : i \in 1 .. Len(inbox') /\ inbox'[i] = inbox[i]
      /\ inbox'[Len(inbox')] = [sess |-> session + 1, chan |-> "PULL_FILE_INIT", cp |-> 0]
      /\ \A i \in 1 .. Len(inbox') : i \in 1 .. Len(inbox) \/ i = Len(inbox')
  BY <1>1, <1>2, <1>3, RequestFacts
<1>5. \A i \in 1 .. Len(inbox) : inbox[i].sess <= session /\ inbox[i].sess \in Nat
  BY QueueFacts
<1>6. \A i \in 1 .. Len(inbox) : ~Owned(i)' /\ IsInit(i)' = IsInit(i)
  BY <1>1, <1>2, <1>4, <1>5 DEF Owned, IsInit
<1>7. Owned(Len(inbox))' /\ IsInit(Len(inbox))'
  BY <1>1, <1>4 DEF Owned, IsInit
<1>8. TypeInv'
  <2>1. mail' \in Seq(Datagram) /\ local' \in Seq(Nat)
    BY <1>1
  <2>2. ASSUME NEW i \in 1 .. Len(inbox') PROVE inbox'[i].sess <= session'
    <3>1. session' = session + 1
      BY <1>1
    <3>2. CASE i \in 1 .. Len(inbox)
      <4>1. inbox'[i] = inbox[i] /\ inbox[i].sess <= session /\ inbox[i].sess \in Nat
        BY <3>2, <1>4, <1>5
      <4> QED BY <4>1, <3>1, <1>2
    <3>3. CASE i = Len(inbox')
      <4>1. inbox'[i].sess = session + 1
        BY <3>3, <1>4
      <4> QED BY <4>1, <3>1, <1>2
    <3> QED BY <3>2, <3>3, <1>4
  <2>3. TypeOK'
    <3>1. so_rcvtimeo' \in BOOLEAN
      BY DEF pull_file_start
    <3> QED BY <3>1, <1>1, <1>2, <1>3, <1>4 DEF PullInv, TypeInv, TypeOK, Req
  <2> QED BY <1>1, <1>2, <2>1, <2>2, <2>3 DEF TypeInv, InStep
<1>9. BoundsInv'
  <2>1. CopiesInBounds' /\ ClientFits'
    BY <1>1 DEF PullInv, BoundsInv, CopiesInBounds, ClientFits
  <2>2. ASSUME NEW i \in 1 .. Len(inbox'), inbox'[i].cp # 0
        PROVE  /\ \A j \in 1 .. i : ~IsInit(j)'
               /\ Fits((i - 1) * ProtSize + inbox[i].cp)'
    <3>1. i \in 1 .. Len(inbox) /\ inbox'[i] = inbox[i]
      BY <2>2, <1>4
    <3>2. /\ \A j \in 1 .. i : ~IsInit(j)
          /\ Fits((i - 1) * ProtSize + inbox[i].cp)
      BY <3>1, <2>2 DEF PullInv, BoundsInv, RequestsFit
    <3>3. \A j \in 1 .. i : j \in 1 .. Len(inbox)
      BY <3>1, <1>4
    <3>4. \A j \in 1 .. i : ~IsInit(j)'
      BY <3>2, <3>3, <1>6
    <3>5. Fits((i - 1) * ProtSize + inbox[i].cp)'
      BY <3>1, <3>2, <1>1 DEF Fits
    <3> QED BY <3>4, <3>5
  <2> QED BY <2>1, <2>2 DEF BoundsInv, RequestsFit
<1>10. InStepInv'
  <2>1. Asked'
    BY <1>1, <1>4, <1>6, <1>7 DEF Asked
  <2> QED BY <2>1 DEF InStepInv
<1>11. PrefixInv'
  BY <1>1 DEF PrefixInv
<1>12. InitOnce'
  BY <1>1, <1>4, <1>6 DEF InitOnce
<1> QED BY <1>8, <1>9, <1>10, <1>11, <1>12 DEF PullInv
(* What a read leaves in the client's buffer. *)
LEMMA ReadFacts ==
    ASSUME PullInv, NEW r \in Reads
    PROVE  /\ r.buf \in Seq(Nat) /\ Len(r.buf) = ProtSize /\ r.rest \in Seq(Datagram)
           /\ r.late \in BOOLEAN
           /\ ~r.late => mail # << >> /\ r.buf = Pad(mail[1]) /\ r.rest = Tail(mail)
           /\ r.late => r.buf = Zeros(ProtSize)
<1>1. mail \in Seq(Datagram) /\ ProtSize \in Nat
  BY PullAssumption DEF PullInv, TypeInv
<1>2. CASE mail # << >> /\ r = [buf |-> Pad(Head(mail)), rest |-> Tail(mail), late |-> FALSE]
  <2>1. Head(mail) \in Datagram /\ Head(mail) = mail[1] /\ Tail(mail) \in Seq(Datagram)
    BY <1>1, <1>2, TailFacts
  <2> QED BY <1>2, <2>1, PadFacts
<1>3. CASE r = [buf |-> Zeros(ProtSize), rest |-> mail, late |-> TRUE]
  BY <1>1, <1>3, ZerosFacts
<1> QED BY <1>2, <1>3 DEF Reads

LEMMA SizeInv == PullInv /\ pull_file_size => PullInv'
<1> SUFFICES ASSUME PullInv, pull_file_size PROVE PullInv'
  OBVIOUS
<1>1. PICK r \in Reads : mail' = r.rest /\ Keep(r) /\ get_size' = r.buf[1]
                         /\ cp_size' = PieceSize(r.buf[1])
  BY DEF pull_file_size
<1>2. /\ UNCHANGED <<udb_auth_ok, file, pullout, used_size, cp_offset, session, local, so_rcvtimeo,
                  snap>>
      /\ cpc = "init" /\ cpc' = "pull" /\ inbox' = Request(session, "PULL_FILE_PULLOUT", cp_size')
  BY DEF pull_file_size, serverVars
<1>3. /\ r.buf \in Seq(Nat) /\ Len(r.buf) = ProtSize /\ r.rest \in Seq(Datagram)
      /\ r.late \in BOOLEAN
      /\ ~r.late => mail # << >> /\ r.buf = Pad(mail[1]) /\ r.rest = Tail(mail)
      /\ r.late => r.buf = Zeros(ProtSize)
  BY ReadFacts
<1>4. get_size' \in Nat /\ cp_size' = PieceSize(get_size')
  BY <1>1, <1>3, PullAssumption
<1>5. /\ cp_size' \in 0 .. ProtSize /\ cp_size' <= get_size'
      /\ get_size' > cp_size' => cp_size' = ProtSize
  BY <1>4, PieceSizeFacts
<1>6. /\ session \in 1 .. MaxSession /\ local = << >> /\ InStep /\ Running
      /\ Running' /\ local \in Seq(Nat) /\ used_size \in Nat /\ cp_offset \in Nat
      /\ ProtSize \in Nat
  <2>1. cpc = "init" => InStep
    BY DEF PullInv, TypeInv
  <2>2. session # 0
    BY <1>2 DEF PullInv, TypeInv
  <2> QED BY <1>2, <2>1, <2>2, PullAssumption
          DEF PullInv, TypeInv, TypeOK, PrefixInv, Running
<1>7. /\ inbox' \in Seq(Req) /\ inbox' # << >> /\ Len(inbox') = Len(inbox) + 1
      /\ Len(inbox) \in Nat
      /\ \A i \in 1 .. Len(inbox) : i \in 1 .. Len(inbox') /\ inbox'[i] = inbox[i]
      /\ inbox'[Len(inbox')] = [sess |-> session, chan |-> "PULL_FILE_PULLOUT", cp |-> cp_size']
      /\ \A i \in 1 .. Len(inbox') : i \in 1 .. Len(inbox) \/ i = Len(inbox')
  BY <1>2, <1>5, <1>6, RequestFacts
<1>8. /\ \A i \in 1 .. Len(inbox) : Owned(i)' = Owned(i) /\ IsInit(i)' = IsInit(i)
      /\ Owned(Len(inbox))' /\ ~IsInit(Len(inbox))'
  BY <1>2, <1>7 DEF Owned, IsInit
<1>9. TypeInv'
  <2>1. \A i \in 1 .. Len(inbox') : inbox'[i].sess <= session'
    BY <1>2, <1>6, <1>7, QueueFacts
  <2>2. kept' \in {Unfixed} \cup Seq(Nat)
    BY <1>1, <1>6 DEF Keep, PullInv, TypeInv, TypeOK
  <2>3. TypeOK'
    BY <1>2, <1>4, <1>5, <1>7, <2>2 DEF PullInv, TypeInv, TypeOK, Req
  <2> QED BY <1>1, <1>2, <1>3, <1>4, <1>6, <2>1, <2>3 DEF TypeInv, PieceSize
<1>10. InitOnce'
  BY <1>2, <1>6, <1>7, <1>8 DEF PullInv, InitOnce
<1>11. CopiesInBounds'
  BY <1>2 DEF PullInv, BoundsInv, CopiesInBounds
<1>12. CASE r.late
  <2>1. get_size' = 0 /\ cp_size' = 0
    <3>1. r.buf[1] = 0
      <4>1. Zeros(ProtSize)[1] = 0
        BY PullAssumption, ZerosFacts
      <4> QED BY <4>1, <1>3, <1>12
    <3> QED BY <3>1, <1>1, <1>4, <1>5
  <2>2. ~InStep'
    BY <1>1, <1>6, <1>12, PullAssumption DEF Keep, InStep
  <2>3. RequestsFit'
    <3> SUFFICES ASSUME NEW i \in 1 .. Len(inbox'), inbox'[i].cp # 0
                 PROVE  /\ \A j \in 1 .. i : ~IsInit(j)'
                        /\ Fits((i - 1) * ProtSize + inbox[i].cp)'
      BY DEF RequestsFit
    <3>1. i \in 1 .. Len(inbox) /\ inbox'[i] = inbox[i]
      BY <1>7, <2>1
    <3>2. /\ \A j \in 1 .. i : ~IsInit(j)
          /\ Fits((i - 1) * ProtSize + inbox[i].cp)
      BY <3>1 DEF PullInv, BoundsInv, RequestsFit
    <3>3. \A j \in 1 .. i : j \in 1 .. Len(inbox)
      BY <3>1, <1>7
    <3>4. \A j \in 1 .. i : ~IsInit(j)'
      BY <3>2, <3>3, <1>8
    <3>5. Fits((i - 1) * ProtSize + inbox[i].cp)'
      BY <3>1, <3>2, <1>2 DEF Fits
    <3> QED BY <3>4, <3>5
  <2>4. ClientFits'
    BY <2>1 DEF ClientFits
  <2> QED BY <1>9, <1>10, <1>11, <2>2, <2>3, <2>4 DEF PullInv, BoundsInv, InStepInv, PrefixInv
<1>13. CASE ~r.late
  <2>1. Answered
    BY <1>3, <1>6, <1>13 DEF PullInv, InStepInv, Asked, Silent
  <2>2. /\ inbox = << >> /\ Len(mail) = 1 /\ snap # Unfixed /\ get_size' = Size
        /\ Size > 0 => ServerAt(0)
    BY <2>1, <1>1, <1>2, <1>3, <1>13 DEF Answered
  <2>3. InStep' /\ mail' = << >> /\ Size' = Size /\ Size \in Nat
    <3>1. mail \in Seq(Datagram) /\ mail # << >>
      BY <1>3, <1>13 DEF PullInv, TypeInv
    <3>2. mail' \in Seq(Datagram) /\ Len(mail') = 0
      BY <3>1, <2>2, <1>1, <1>3, <1>13, TailFacts
    <3> QED BY <3>2, <2>2, <1>1, <1>2, <1>6, <1>13, SnapFacts DEF Keep, InStep, Size, PullInv
  <2>4. /\ Len(inbox') = 1 /\ inbox'[1].cp = cp_size' /\ inbox'[1].sess = session
        /\ \A i \in 1 .. Len(inbox') : i = 1
    BY <2>2, <1>7
  <2>5. RequestsFit'
    <3> SUFFICES ASSUME cp_size' # 0 PROVE Fits(0 * ProtSize + inbox[1].cp)'
      BY <1>8, <2>2, <2>4 DEF RequestsFit
    <3>1. used_size' = Size /\ cp_offset' = 0
      BY <1>2, <1>4, <1>5, <2>2 DEF ServerAt
    <3> QED BY <3>1, <2>2, <2>4, <1>4, <1>5, <1>6, <2>3 DEF Fits
  <2>6. ClientFits'
    <3> SUFFICES ASSUME get_size' > cp_size'
                 PROVE  Fits(Len(inbox) * ProtSize + (get_size - cp_size))'
      BY <1>8, <2>2, <2>4 DEF ClientFits
    <3>1. used_size' = Size /\ cp_offset' = 0 /\ cp_size' = ProtSize
      BY <1>2, <1>4, <1>5, <2>2 DEF ServerAt
    <3> QED BY <3>1, <2>2, <2>4, <1>4, <1>6, <2>3 DEF Fits
  <2>7. Asked'
    <3>1. get_size' > 0 => ServerAt(0)'
      BY <2>2, <2>3, <1>2 DEF ServerAt
    <3>2. Len(local') = 0
      BY <1>2, <1>6
    <3>3. ~IsInit(1)' /\ Owned(1)'
      BY <1>8, <2>4
    <3>4. get_size' = Size' - Len(local')
      BY <2>2, <2>3, <3>2
    <3> QED BY <3>1, <3>2, <3>3, <3>4, <2>2, <2>3, <2>4, <1>2, <1>7 DEF Asked
  <2>8. PrefixInv'
    <3>1. snap \in Seq(Nat) /\ SubSeq(snap, 1, 0) = << >> /\ Len(local) = 0
      BY <2>2, <1>6, SnapFacts DEF PullInv
    <3> QED BY <3>1, <2>2, <2>3, <1>2, <1>6 DEF PrefixInv
  <2> QED BY <1>9, <1>10, <1>11, <2>5, <2>6, <2>7, <2>8 DEF PullInv, BoundsInv, InStepInv
<1> QED BY <1>3, <1>12, <1>13
(* A piece is written to the local file and the next one is asked for. *)
LEMMA PieceInv == PullInv /\ pull_file_piece => PullInv'
<1> SUFFICES ASSUME PullInv, pull_file_piece PROVE PullInv'
  OBVIOUS
<1>1. PICK r \in Reads : mail' = r.rest /\ Keep(r) /\ local' = local \o SubSeq(r.buf, 1, cp_size)
  BY DEF pull_file_piece
<1>2. /\ UNCHANGED <<udb_auth_ok, file, pullout, used_size, cp_offset, session, so_rcvtimeo,
                  snap>>
      /\ cpc = "pull" /\ get_size' = get_size - cp_size
  BY DEF pull_file_piece, serverVars
<1>3. /\ r.buf \in Seq(Nat) /\ Len(r.buf) = ProtSize /\ r.rest \in Seq(Datagram)
      /\ r.late \in BOOLEAN
      /\ ~r.late => mail # << >> /\ r.buf = Pad(mail[1]) /\ r.rest = Tail(mail)
  BY ReadFacts
<1>4. /\ session \in 1 .. MaxSession /\ session \in Nat /\ Running /\ local \in Seq(Nat)
      /\ used_size \in Nat /\ cp_offset \in Nat /\ get_size \in Nat /\ cp_size \in 0 .. ProtSize
      /\ ProtSize \in Nat \ {0} /\ cp_size = PieceSize(get_size)
  BY <1>2, PullAssumption DEF PullInv, TypeInv, TypeOK, Running
<1>5. /\ cp_size <= get_size /\ get_size' \in Nat
      /\ get_size > cp_size => cp_size = ProtSize
      /\ get_size' # 0 <=> get_size > cp_size
  <2>1. /\ PieceSize(get_size) <= get_size /\ get_size - PieceSize(get_size) \in Nat
        /\ get_size > PieceSize(get_size) => PieceSize(get_size) = ProtSize
    BY <1>4, PieceSizeFacts
  <2>2. cp_size <= get_size /\ get_size - cp_size \in Nat /\ (get_size > cp_size => cp_size = ProtSize)
    BY <2>1, <1>4
  <2> QED BY <2>2, <1>2, <1>4
<1>6. local' \in Seq(Nat)
  <2>1. 1 \in Nat /\ cp_size \in Nat /\ cp_size <= Len(r.buf) /\ 1 <= cp_size + 1
    BY <1>3, <1>4
  <2>2. SubSeq(r.buf, 1, cp_size) \in Seq(Nat)
    BY <2>1, <1>3, SliceFacts
  <2> QED BY <2>2, <1>1, <1>4, JoinFacts
<1>7. kept' \in {Unfixed} \cup Seq(Nat)
  BY <1>1, <1>4 DEF Keep, PullInv, TypeInv, TypeOK
<1>8. CopiesInBounds'
  BY <1>2 DEF PullInv, BoundsInv, CopiesInBounds
<1>9. InStep' => InStep /\ ~r.late
  BY <1>1, <1>4, PullAssumption DEF Keep, InStep
<1>10. InStep' => /\ inbox = << >> /\ snap # Unfixed /\ mail' = << >>
                  /\ snap \in Seq(Nat) /\ Size \in Nat /\ Size <= Len(snap) /\ Size' = Size
                  /\ Len(local') = Len(local) + cp_size /\ Len(local) \in Nat
                  /\ get_size = Size - Len(local)
                  /\ local' = SubSeq(snap, 1, Len(local) + cp_size)
                  /\ get_size > cp_size => ServerAt(Len(local) + cp_size)
  <2> SUFFICES ASSUME InStep'
               PROVE  /\ inbox = << >> /\ snap # Unfixed /\ mail' = << >>
                      /\ snap \in Seq(Nat) /\ Size \in Nat /\ Size <= Len(snap) /\ Size' = Size
                      /\ Len(local') = Len(local) + cp_size /\ Len(local) \in Nat
                      /\ get_size = Size - Len(local)
                      /\ local' = SubSeq(snap, 1, Len(local) + cp_size)
                      /\ get_size > cp_size => ServerAt(Len(local) + cp_size)
    OBVIOUS
  <2>1. InStep /\ ~r.late /\ mail # << >>
    BY <1>3, <1>9
  <2>2. Answered
    BY <2>1, <1>4 DEF PullInv, InStepInv, Asked, Silent
  <2>3. /\ inbox = << >> /\ Len(mail) = 1 /\ snap # Unfixed /\ get_size = Size - Len(local)
        /\ SubSeq(Pad(mail[1]), 1, cp_size) = SubSeq(snap, Len(local) + 1, Len(local) + cp_size)
        /\ get_size > cp_size => ServerAt(Len(local) + cp_size)
    BY <2>2, <1>2 DEF Answered
  <2>4. mail' = << >>
    <3>1. mail \in Seq(Datagram) /\ mail' = Tail(mail)
      BY <2>1, <1>1, <1>3 DEF PullInv, TypeInv
    <3>2. mail' \in Seq(Datagram) /\ Len(mail') = 0
      BY <3>1, <2>1, <2>3, TailFacts
    <3> QED BY <3>2
  <2>5. /\ snap \in Seq(Nat) /\ Len(snap) \in Nat /\ Size \in Nat /\ Size <= Len(snap)
        /\ Size' = Size /\ Len(local) \in Nat
        /\ local = SubSeq(snap, 1, Len(local))
    <3>1. snap \in Seq(Nat) /\ Len(snap) \in Nat /\ Size \in Nat /\ Size <= Len(snap)
      BY <2>3, SnapFacts DEF PullInv
    <3>2. Size' = Size
      BY <1>2 DEF Size
    <3>3. local = SubSeq(snap, 1, Len(local))
      BY <2>1, <2>3 DEF PullInv, PrefixInv
    <3> QED BY <3>1, <3>2, <3>3, <1>4
  <2>6. Len(local) + cp_size <= Len(snap) /\ cp_size \in Nat
    BY <2>3, <2>5, <1>4, <1>5
  <2>7. local' = local \o SubSeq(snap, Len(local) + 1, Len(local) + cp_size)
    BY <2>1, <2>3, <1>1, <1>3
  <2>8. local' = SubSeq(snap, 1, Len(local) + cp_size)
    <3>1. PICK m \in Nat : m = Len(local)
      BY <2>5
    <3>2. SubSeq(snap, 1, m) \o SubSeq(snap, m + 1, m + cp_size) = SubSeq(snap, 1, m + cp_size)
      BY <3>1, <2>5, <2>6, PrefixGrows
    <3> QED BY <3>1, <3>2, <2>5, <2>7
  <2>9. Len(local') = Len(local) + cp_size
    <3>1. PICK m \in Nat : m = Len(local) + cp_size
      BY <2>5, <2>6
    <3>2. 1 \in Nat /\ m <= Len(snap) /\ 1 <= m + 1
      BY <3>1, <2>6
    <3>3. Len(SubSeq(snap, 1, m)) = m - 1 + 1
      BY <3>2, <2>5, SliceFacts
    <3> QED BY <3>1, <3>3, <2>8
  <2> QED BY <2>3, <2>4, <2>5, <2>8, <2>9
<1>11. CASE get_size' # 0
  <2>1. /\ cpc' = "pull" /\ cp_size' = PieceSize(get_size')
        /\ inbox' = Request(session, "PULL_FILE_PULLOUT", cp_size')
    BY <1>11 DEF pull_file_piece, MoreToPull
  <2>2. /\ cp_size' \in 0 .. ProtSize /\ cp_size' <= get_size'
        /\ get_size' > cp_size' => cp_size' = ProtSize
    BY <2>1, <1>5, PieceSizeFacts
  <2>3. /\ inbox' \in Seq(Req) /\ inbox' # << >> /\ Len(inbox') = Len(inbox) + 1
        /\ Len(inbox) \in Nat
        /\ \A i \in 1 .. Len(inbox) : i \in 1 .. Len(inbox') /\ inbox'[i] = inbox[i]
        /\ inbox'[Len(inbox')] = [sess |-> session, chan |-> "PULL_FILE_PULLOUT", cp |-> cp_size']
        /\ \A i \in 1 .. Len(inbox') : i \in 1 .. Len(inbox) \/ i = Len(inbox')
    BY <2>1, <2>2, <1>4, RequestFacts
  <2>4. /\ \A i \in 1 .. Len(inbox) : Owned(i)' = Owned(i) /\ IsInit(i)' = IsInit(i)
        /\ Owned(Len(inbox))' /\ ~IsInit(Len(inbox))'
    BY <1>2, <2>3 DEF Owned, IsInit
  <2>5. /\ \A j \in 1 .. Len(inbox) : ~IsInit(j)
        /\ Fits(Len(inbox) * ProtSize + get_size')
    BY <1>2, <1>5, <1>11 DEF PullInv, BoundsInv, ClientFits
  <2>6. \A j \in 1 .. Len(inbox') : ~IsInit(j)'
    BY <2>3, <2>4, <2>5
  <2>7. TypeInv'
    <3>1. \A i \in 1 .. Len(inbox') : inbox'[i].sess <= session'
      <4>1. TAKE i \in 1 .. Len(inbox')
      <4>2. session' = session /\ session \in Nat
        BY <1>2 DEF PullInv, TypeInv, TypeOK
      <4>3. CASE i \in 1 .. Len(inbox)
        <5>1. inbox'[i] = inbox[i] /\ inbox[i].sess <= session
          BY <4>3, <2>3, QueueFacts
        <5> QED BY <4>2, <5>1
      <4>4. CASE i = Len(inbox')
        <5>1. inbox'[i].sess = session
          BY <4>4, <2>3
        <5> QED BY <4>2, <5>1
      <4> QED BY <4>3, <4>4, <2>3
    <3>2. TypeOK'
      BY <1>2, <1>5, <1>7, <2>1, <2>2, <2>3 DEF PullInv, TypeInv, TypeOK, Req
    <3> QED BY <1>1, <1>2, <1>3, <1>4, <1>6, <2>1, <3>1, <3>2 DEF TypeInv, PieceSize
  <2>8. RequestsFit'
    <3> SUFFICES ASSUME NEW i \in 1 .. Len(inbox'), inbox'[i].cp # 0
                 PROVE  /\ \A j \in 1 .. i : ~IsInit(j)'
                        /\ Fits((i - 1) * ProtSize + inbox[i].cp)'
      BY DEF RequestsFit
    <3>1. \A j \in 1 .. i : ~IsInit(j)'
      <4>1. \A j \in 1 .. i : j \in 1 .. Len(inbox')
        BY <2>3
      <4> QED BY <4>1, <2>6
    <3>2. CASE i \in 1 .. Len(inbox)
      <4>1. inbox'[i] = inbox[i]
        BY <3>2, <2>3
      <4>2. Fits((i - 1) * ProtSize + inbox[i].cp)
        BY <3>2, <4>1 DEF PullInv, BoundsInv, RequestsFit
      <4> QED BY <3>1, <4>1, <4>2, <1>2 DEF Fits
    <3>3. CASE i = Len(inbox')
      <4>1. PICK m \in Nat : m = Len(inbox) * ProtSize
        BY <2>3, <1>4
      <4>2. (i - 1) * ProtSize = m /\ inbox'[i].cp = cp_size'
        BY <3>3, <4>1, <2>3
      <4>3. used_size = 0 \/ cp_offset + (m + get_size') <= used_size
        BY <4>1, <2>5 DEF Fits
      <4>4. used_size' = 0 \/ cp_offset' + (m + cp_size') <= used_size'
        <5>1. used_size' = used_size /\ cp_offset' = cp_offset
          BY <1>2
        <5>2. cp_size' \in Nat /\ get_size' \in Nat /\ cp_size' <= get_size'
          BY <2>2, <1>4, <1>5
        <5>3. used_size \in Nat /\ cp_offset \in Nat
          BY <1>4
        <5>4. m \in Nat
          BY <4>1
        <5>5. CASE used_size = 0
          BY <5>1, <5>5
        <5>6. CASE cp_offset + (m + get_size') <= used_size
          <6>1. cp_offset + (m + cp_size') <= used_size
            BY <5>2, <5>3, <5>4, <5>6, LessFits
          <6> QED BY <5>1, <6>1
        <5> QED BY <5>5, <5>6, <4>3
      <4>5. used_size' = 0 \/ cp_offset' + ((i - 1) * ProtSize + inbox'[i].cp) <= used_size'
        BY <4>2, <4>4
      <4>6. Fits((i - 1) * ProtSize + inbox[i].cp)'
        BY <4>5 DEF Fits
      <4> QED BY <3>1, <4>6
    <3> QED BY <3>2, <3>3, <2>3
  <2>9. ClientFits'
    <3> SUFFICES ASSUME get_size' > cp_size'
                 PROVE  Fits(Len(inbox) * ProtSize + (get_size - cp_size))'
      BY <2>6 DEF ClientFits
    <3>1. cp_size' = ProtSize
      BY <2>2
    <3>2. Len(inbox') * ProtSize = Len(inbox) * ProtSize + ProtSize
      BY <2>3, <1>4
    <3>3. PICK m \in Nat : m = Len(inbox) * ProtSize
      BY <2>3, <1>4
    <3>4. used_size = 0 \/ cp_offset + (m + get_size') <= used_size
      BY <2>5, <3>3 DEF Fits
    <3>5. used_size' = 0 \/ cp_offset' + ((m + ProtSize) + (get_size' - cp_size')) <= used_size'
      BY <3>1, <3>4, <1>2, <1>4, <1>5
    <3>6. used_size' = 0 \/ cp_offset' + (Len(inbox') * ProtSize + (get_size' - cp_size')) <= used_size'
      BY <3>2, <3>3, <3>5
    <3> QED BY <3>6 DEF Fits
  <2>10. InStepInv'
    <3> SUFFICES ASSUME InStep' PROVE Asked'
      BY DEF InStepInv
    <3>1. Len(inbox') = 1 /\ inbox'[1].cp = cp_size' /\ Owned(1)' /\ ~IsInit(1)'
      BY <1>10, <2>3, <2>4
    <3>2. get_size' = Size' - Len(local')
      <4>1. /\ Size \in Nat /\ Size' = Size /\ Len(local) \in Nat
            /\ Len(local') = Len(local) + cp_size /\ get_size = Size - Len(local)
        BY <1>10
      <4> QED BY <4>1, <1>2, <1>4
    <3>3. ServerAt(Len(local))'
      BY <1>2, <1>5, <1>10, <1>11 DEF ServerAt
    <3> QED BY <3>1, <3>2, <3>3, <1>2, <1>10, <2>1, <2>3 DEF Asked
  <2>11. PrefixInv'
    <3>1. InStep' => Len(local') <= Size'
      BY <1>10, <1>4, <1>5
    <3> QED BY <3>1, <1>2, <1>10, <2>1 DEF PrefixInv
  <2>12. InitOnce'
    BY <1>2, <2>6 DEF InitOnce
  <2> QED BY <1>8, <2>7, <2>8, <2>9, <2>10, <2>11, <2>12 DEF PullInv, BoundsInv
<1>12. CASE get_size' = 0
  <2>1. cpc' = "done" /\ cp_size' = 0 /\ inbox' = inbox
    BY <1>12 DEF pull_file_piece, MoreToPull
  <2>2. TypeInv'
    <3>1. 0 \in 0 .. ProtSize
      BY <1>4
    <3>2. TypeOK'
      BY <1>2, <1>5, <1>7, <2>1, <3>1 DEF PullInv, TypeInv, TypeOK
    <3> QED BY <1>1, <1>2, <1>3, <1>4, <1>6, <2>1, <3>2 DEF PullInv, TypeInv
  <2>3. RequestsFit' /\ ClientFits'
    BY <1>2, <2>1 DEF PullInv, BoundsInv, RequestsFit, ClientFits, Fits, IsInit
  <2>4. InStepInv' /\ InitOnce'
    BY <2>1 DEF InStepInv, InitOnce, Running
  <2>5. PrefixInv'
    <3>1. ASSUME InStep' PROVE Len(local') = Size' /\ Size' <= Size'
      <4>1. /\ Size \in Nat /\ Size' = Size /\ Len(local) \in Nat
            /\ Len(local') = Len(local) + cp_size /\ get_size = Size - Len(local)
        BY <3>1, <1>10
      <4> QED BY <4>1, <1>2, <1>4, <1>12
    <3> QED BY <3>1, <1>2, <1>10, <2>1 DEF PrefixInv
  <2> QED BY <1>8, <2>2, <2>3, <2>4, <2>5 DEF PullInv, BoundsInv
<1> QED BY <1>11, <1>12
-----------------------------------------------------------------------------
(* The server.                                                               *)

(* The request at the head of the queue is taken. *)
LEMMA PopFacts ==
    ASSUME PullInv, inbox # << >>, inbox' = Tail(inbox), session' = session
    PROVE  /\ inbox' \in Seq(Req) /\ Len(inbox') = Len(inbox) - 1 /\ Len(inbox) \in Nat \ {0}
           /\ Head(inbox) = inbox[1] /\ inbox[1] \in Req
           /\ \A i \in 1 .. Len(inbox') : /\ i + 1 \in 1 .. Len(inbox)
                                          /\ inbox'[i] = inbox[i + 1]
                                          /\ Owned(i)' = Owned(i + 1) /\ IsInit(i)' = IsInit(i + 1)
<1>1. /\ inbox \in Seq(Req) /\ inbox' \in Seq(Req) /\ Len(inbox') = Len(inbox) - 1
      /\ Len(inbox) \in Nat \ {0} /\ Head(inbox) = inbox[1] /\ inbox[1] \in Req
      /\ \A i \in 1 .. Len(inbox) - 1 : inbox'[i] = inbox[i + 1]
  BY QueueFacts, TailFacts
<1>2. \A i \in 1 .. Len(inbox') : i + 1 \in 1 .. Len(inbox) /\ inbox'[i] = inbox[i + 1]
  BY <1>1
<1> QED BY <1>1, <1>2 DEF Owned, IsInit

(* An answer reaches the current client's socket only. *)
LEMMA SendFacts ==
    ASSUME TypeInv, NEW s, NEW resp \in Datagram, SendTo(s, resp)
    PROVE  /\ mail' \in Seq(Datagram)
           /\ (s = session /\ Running /\ mail = << >>) =>
                 Len(mail') = 1 /\ mail'[1] = IF udb_auth_ok THEN resp ELSE << >>
           /\ ~(s = session /\ Running) => mail' = mail
<1>1. mail \in Seq(Datagram) /\ << >> \in Datagram
  BY PullAssumption DEF TypeInv, Datagram
<1>2. PICK d \in Datagram : d = IF udb_auth_ok THEN resp ELSE << >>
  BY <1>1
<1>3. mail' = IF s = session /\ Running THEN Append(mail, d) ELSE mail
  BY <1>2 DEF SendTo
<1> QED BY <1>1, <1>2, <1>3, AppendFacts

(* The answer to INIT starts with the size. *)
LEMMA InitReply ==
    ASSUME NEW n \in Nat
    PROVE  /\ <<n>> \o Zeros(ProtSize - 1) \in Datagram
           /\ Pad(<<n>> \o Zeros(ProtSize - 1))[1] = n
<1>1. ProtSize \in Nat \ {0} /\ ProtSize - 1 \in Nat
  BY PullAssumption
<1>2. PICK z \in Seq(Nat) : z = Zeros(ProtSize - 1) /\ Len(z) = ProtSize - 1
  BY <1>1, ZerosFacts
<1>3. PICK h \in Seq(Nat) : h = <<n>> /\ Len(h) = 1 /\ h[1] = n
  <2>1. <<n>> \in Seq(Nat) /\ Len(<<n>>) = 1 /\ <<n>>[1] = n
    OBVIOUS
  <2> QED BY <2>1, Zenon
<1>4. h \o z \in Seq(Nat) /\ Len(h \o z) = Len(h) + Len(z) /\ \A i \in 1 .. Len(h) : (h \o z)[i] = h[i]
  BY JoinFacts
<1>5. PICK d \in Datagram : d = h \o z /\ Len(d) = ProtSize /\ d[1] = n
  <2>1. PICK d \in Seq(Nat) : d = h \o z /\ Len(d) = Len(h) + Len(z)
                              /\ \A i \in 1 .. Len(h) : d[i] = h[i]
    BY <1>4, Zenon
  <2>2. Len(d) = ProtSize /\ d[1] = n
    BY <2>1, <1>1, <1>2, <1>3
  <2>3. d \in Datagram
    BY <2>2, <1>1 DEF Datagram
  <2> QED BY <2>1, <2>2, <2>3
<1>6. \A i \in 1 .. Len(d) : Pad(d)[i] = d[i]
  BY PadFacts
<1> QED BY <1>1, <1>2, <1>3, <1>5, <1>6

LEMMA EmptyReply == << >> \in Datagram /\ Pad(<< >>)[1] = 0
<1>1. << >> \in Datagram /\ Len(<< >>) = 0
  BY PullAssumption DEF Datagram
<1>2. \A i \in Len(<< >>) + 1 .. ProtSize : Pad(<< >>)[i] = 0
  BY <1>1, PadFacts
<1> QED BY <1>1, <1>2, PullAssumption

LEMMA SizeOfFacts ==
    ASSUME TypeInv
    PROVE  /\ SizeOf(file) \in 0 .. U32 - 1 /\ SizeOf(file) \in Nat
           /\ file # NoFile => /\ SizeOf(file) = Len(file) % U32 /\ SizeOf(file) <= Len(file)
                               /\ file \in Contents /\ file # NullPtr
           /\ file = NoFile => SizeOf(file) = 0
           /\ << >> \in Contents /\ << >> # Unfixed /\ Len(<< >>) % U32 = 0
           /\ file # NoFile => file # Unfixed
<1>1. file \in Contents \cup {NoFile} /\ 0 \in 0 .. U32 - 1
  BY PullAssumption DEF TypeInv, TypeOK
<1>2. \A c \in Contents : c # NullPtr /\ c # Unfixed /\ Len(c) \in Nat
  BY PullAssumption
<1>3. \A c \in Contents : Len(c) % U32 \in 0 .. U32 - 1 /\ Len(c) % U32 <= Len(c)
  BY <1>2, ModFacts
<1>4. << >> \in Contents /\ Len(<< >>) = 0 /\ 0 % U32 = 0
  BY PullAssumption
<1> QED BY <1>1, <1>2, <1>3, <1>4, PullAssumption DEF SizeOf

LEMMA ServeInitInv == PullInv /\ udb_debug_pullfile_init => PullInv'
<1> SUFFICES ASSUME PullInv, udb_debug_pullfile_init PROVE PullInv'
  OBVIOUS
<1>1. /\ inbox # << >> /\ inbox' = Tail(inbox) /\ Head(inbox).chan = "PULL_FILE_INIT"
      /\ UNCHANGED <<udb_auth_ok, file, session, cpc, get_size, cp_size, local, so_rcvtimeo, kept>>
      /\ SendTo(Head(inbox).sess, <<SizeOf(file)>> \o Zeros(ProtSize - 1))
      /\ snap' = IF Head(inbox).sess = session /\ Running
                 THEN IF udb_auth_ok /\ file # NoFile THEN file ELSE << >>
                 ELSE snap
  BY DEF udb_debug_pullfile_init, clientVars
<1>2. /\ udb_auth_ok => /\ used_size' = SizeOf(file) /\ cp_offset' = 0
                        /\ pullout' = IF file = NoFile THEN NullPtr ELSE file
      /\ ~udb_auth_ok => UNCHANGED <<pullout, used_size, cp_offset>>
  BY DEF udb_debug_pullfile_init, serverVars
<1>3. /\ inbox' \in Seq(Req) /\ Len(inbox') = Len(inbox) - 1 /\ Len(inbox) \in Nat \ {0}
      /\ Head(inbox) = inbox[1] /\ inbox[1] \in Req
      /\ \A i \in 1 .. Len(inbox') : /\ i + 1 \in 1 .. Len(inbox)
                                     /\ inbox'[i] = inbox[i + 1]
                                     /\ Owned(i)' = Owned(i + 1) /\ IsInit(i)' = IsInit(i + 1)
  BY <1>1, PopFacts
<1>4. IsInit(1) /\ Running' = Running /\ InStep' = InStep /\ TypeInv
  BY <1>1, <1>3 DEF IsInit, Running, InStep, PullInv
<1>5. /\ SizeOf(file) \in 0 .. U32 - 1 /\ SizeOf(file) \in Nat
      /\ file # NoFile => /\ SizeOf(file) = Len(file) % U32 /\ SizeOf(file) <= Len(file)
                          /\ file \in Contents /\ file # NullPtr
      /\ file = NoFile => SizeOf(file) = 0
      /\ << >> \in Contents /\ << >> # Unfixed /\ Len(<< >>) % U32 = 0
      /\ file # NoFile => file # Unfixed
  BY <1>4, SizeOfFacts
<1> DEFINE resp == <<SizeOf(file)>> \o Zeros(ProtSize - 1)
<1>6. resp \in Datagram /\ Pad(resp)[1] = SizeOf(file)
  BY <1>5, InitReply
<1>7. /\ mail' \in Seq(Datagram)
      /\ (Owned(1) /\ Running /\ mail = << >>) =>
            Len(mail') = 1 /\ mail'[1] = IF udb_auth_ok THEN resp ELSE << >>
      /\ ~(Owned(1) /\ Running) => mail' = mail
  BY <1>1, <1>3, <1>4, <1>6, SendFacts DEF Owned
<1> HIDE DEF resp
<1>8. TypeInv'
  <2>1. \A i \in 1 .. Len(inbox') : inbox'[i].sess <= session'
    BY <1>1, <1>3, QueueFacts
  <2>2. used_size' \in 0 .. U32 - 1 /\ cp_offset' \in 0 .. U32 - 1 /\ pullout' \in Contents \cup {NullPtr}
    BY <1>2, <1>4, <1>5, PullAssumption DEF TypeInv, TypeOK
  <2>3. snap' \in Contents \cup {Unfixed}
    BY <1>1, <1>4, <1>5 DEF TypeInv, TypeOK
  <2>4. TypeOK'
    BY <1>1, <1>3, <1>4, <2>2, <2>3 DEF TypeInv, TypeOK, Req
  <2> QED BY <1>1, <1>4, <1>7, <2>1, <2>4 DEF TypeInv
<1>9. BoundsInv'
  <2>1. CopiesInBounds'
    BY <1>2, <1>4, <1>5 DEF PullInv, BoundsInv, CopiesInBounds
  <2>2. \A i \in 1 .. Len(inbox) : inbox[i].cp = 0
    <3> SUFFICES ASSUME NEW i \in 1 .. Len(inbox), inbox[i].cp # 0 PROVE FALSE
      OBVIOUS
    <3>1. \A j \in 1 .. i : ~IsInit(j)
      BY DEF PullInv, BoundsInv, RequestsFit
    <3> QED BY <3>1, <1>4
  <2>3. RequestsFit'
    BY <2>2, <1>3 DEF RequestsFit
  <2>4. ClientFits'
    BY <1>1, <1>3, <1>4 DEF PullInv, BoundsInv, ClientFits
  <2> QED BY <2>1, <2>3, <2>4 DEF BoundsInv
<1>10. Owned(1) /\ Running => snap = Unfixed
  BY <1>3, <1>4 DEF PullInv, InitOnce
<1>11. ~(Owned(1) /\ Running) => snap' = snap /\ Size' = Size
  BY <1>1, <1>3 DEF Owned, Size
<1>12. Owned(1) /\ Running => /\ snap' # Unfixed /\ snap' \in Seq(Nat)
                              /\ Size' = IF udb_auth_ok THEN SizeOf(file) ELSE 0
                              /\ Size' > 0 => snap' = file /\ file # NoFile /\ udb_auth_ok
  <2> SUFFICES ASSUME Owned(1), Running
               PROVE  /\ snap' # Unfixed /\ snap' \in Seq(Nat)
                      /\ Size' = IF udb_auth_ok THEN SizeOf(file) ELSE 0
                      /\ Size' > 0 => snap' = file /\ file # NoFile /\ udb_auth_ok
    OBVIOUS
  <2>1. snap' = IF udb_auth_ok /\ file # NoFile THEN file ELSE << >>
    BY <1>1, <1>3 DEF Owned
  <2>2. CASE udb_auth_ok /\ file # NoFile
    BY <2>1, <2>2, <1>5, PullAssumption DEF Size
  <2>3. CASE ~(udb_auth_ok /\ file # NoFile)
    BY <2>1, <2>3, <1>5 DEF Size
  <2> QED BY <2>2, <2>3
<1>13. InStepInv'
  <2> SUFFICES ASSUME InStep, Running PROVE Asked' \/ Answered' \/ Silent'
    BY <1>4 DEF InStepInv
  <2>1. CASE Silent
    <3>1. ~Owned(1) /\ mail' = << >>
      BY <2>1, <1>3, <1>7 DEF Silent
    <3> QED BY <2>1, <3>1, <1>3 DEF Silent
  <2>2. CASE Asked /\ Len(inbox) # 1
    <3>1. cpc = "init" /\ ~Owned(1) /\ mail' = << >> /\ snap' = snap /\ snap = Unfixed
      BY <2>2, <1>3, <1>7, <1>11 DEF Asked, Running
    <3>2. Len(inbox') \in 1 .. Len(inbox') /\ Len(inbox') + 1 = Len(inbox) /\ inbox' # << >>
      BY <2>2, <1>3
    <3>3. Owned(Len(inbox))' /\ IsInit(Len(inbox))'
      <4>1. Owned(Len(inbox)) /\ IsInit(Len(inbox))
        BY <2>2, <3>1 DEF Asked
      <4>2. inbox'[Len(inbox')] = inbox[Len(inbox)]
        BY <3>2, <1>3
      <4> QED BY <4>1, <4>2, <1>1 DEF Owned, IsInit
    <3>4. \A i \in 1 .. Len(inbox') - 1 : ~Owned(i)'
      <4> TAKE i \in 1 .. Len(inbox') - 1
      <4>1. i \in 1 .. Len(inbox') /\ i + 1 \in 1 .. Len(inbox) - 1
        BY <1>3
      <4> QED BY <4>1, <2>2, <1>3 DEF Asked
    <3>5. Asked'
      BY <3>1, <3>2, <3>3, <3>4, <1>1 DEF Asked
    <3> QED BY <3>5
  <2>3. CASE Asked /\ Len(inbox) = 1
    <3>1. Owned(1) /\ mail = << >> /\ cpc = "init"
      BY <2>3, <1>4 DEF Asked, Running
    <3>2. inbox' = << >>
      BY <2>3, <1>3
    <3>3. Len(mail') = 1 /\ mail'[1] = IF udb_auth_ok THEN resp ELSE << >>
      BY <3>1, <1>7
    <3>4. /\ snap' # Unfixed
          /\ Size' = IF udb_auth_ok THEN SizeOf(file) ELSE 0
          /\ Size' > 0 => snap' = file /\ file # NoFile /\ udb_auth_ok
      BY <3>1, <1>12
    <3>5. Pad(mail'[1])[1] = Size'
      BY <3>3, <3>4, <1>6, EmptyReply
    <3>6. Size' > 0 => ServerAt(0)'
      BY <3>4, <1>1, <1>2 DEF ServerAt
    <3>7. Pad(mail'[1]) = Pad(mail[1])'
      BY DEF Pad, Zeros
    <3>8. Answered'
      BY <3>1, <3>2, <3>3, <3>4, <3>5, <3>6, <3>7, <1>1 DEF Answered
    <3> QED BY <3>8
  <2> QED BY <2>1, <2>2, <2>3, <1>1 DEF PullInv, InStepInv, Answered
<1>14. PrefixInv'
  <2> SUFFICES ASSUME InStep PROVE PrefixInv'
    BY <1>4 DEF PrefixInv
  <2>1. CASE Owned(1) /\ Running
    <3>1. local' = << >> /\ cpc' # "done"
      BY <2>1, <1>1, <1>10 DEF PullInv, PrefixInv, Running
    <3>2. snap' # Unfixed /\ snap' \in Seq(Nat) /\ Size' >= 0
      BY <2>1, <1>5, <1>12
    <3>3. Len(local') = 0 /\ SubSeq(snap', 1, 0) = << >>
      BY <3>1, <3>2
    <3> QED BY <3>1, <3>2, <3>3 DEF PrefixInv
  <2>2. CASE ~(Owned(1) /\ Running)
    BY <2>2, <1>1, <1>11 DEF PullInv, PrefixInv
  <2> QED BY <2>1, <2>2
<1>15. InitOnce'
  <2> SUFFICES ASSUME Running, NEW i \in 1 .. Len(inbox'), Owned(i)', IsInit(i)'
               PROVE  /\ snap' = Unfixed
                      /\ \A j \in 1 .. Len(inbox') : Owned(j)' /\ IsInit(j)' => i = j
    BY <1>4 DEF InitOnce
  <2>1. i + 1 \in 1 .. Len(inbox) /\ Owned(i + 1) /\ IsInit(i + 1)
    BY <1>3
  <2>2. snap = Unfixed /\ \A j \in 1 .. Len(inbox) : Owned(j) /\ IsInit(j) => i + 1 = j
    BY <2>1 DEF PullInv, InitOnce
  <2>3. ~Owned(1)
    BY <2>2, <1>3, <1>4
  <2>4. ASSUME NEW j \in 1 .. Len(inbox'), Owned(j)', IsInit(j)' PROVE i = j
    <3>1. j + 1 \in 1 .. Len(inbox) /\ Owned(j + 1) /\ IsInit(j + 1)
      BY <2>4, <1>3
    <3> QED BY <3>1, <2>2, <1>3
  <2> QED BY <2>2, <2>3, <2>4, <1>11
<1> QED BY <1>8, <1>9, <1>13, <1>14, <1>15 DEF PullInv
(* A piece of the server's copy, as it arrives in the client's buffer. *)
LEMMA PieceReply ==
    ASSUME NEW s \in Seq(Nat), NEW o \in Nat, NEW n \in 0 .. ProtSize, o + n <= Len(s)
    PROVE  /\ SubSeq(s, o + 1, o + n) \o Zeros(ProtSize - n) \in Datagram
           /\ SubSeq(Pad(SubSeq(s, o + 1, o + n) \o Zeros(ProtSize - n)), 1, n)
                = SubSeq(s, o + 1, o + n)
<1>1. ProtSize \in Nat \ {0} /\ ProtSize - n \in Nat /\ n \in Nat
  BY PullAssumption
<1>2. PICK z \in Seq(Nat) : z = Zeros(ProtSize - n) /\ Len(z) = ProtSize - n
  BY <1>1, ZerosFacts
<1>3. PICK a \in Seq(Nat) : a = SubSeq(s, o + 1, o + n) /\ Len(a) = n
  <2>1. PICK k \in Nat, m \in Nat : k = o + 1 /\ m = o + n
    BY <1>1
  <2>2. 1 <= k /\ m <= Len(s) /\ k <= m + 1
    BY <1>1, <2>1
  <2>3. SubSeq(s, k, m) \in Seq(Nat) /\ Len(SubSeq(s, k, m)) = m - k + 1
    BY <2>2, SliceFacts
  <2>4. m - k + 1 = n
    BY <1>1, <2>1
  <2> QED BY <2>1, <2>3, <2>4
<1>4. a \o z \in Seq(Nat) /\ Len(a \o z) = Len(a) + Len(z) /\ \A i \in 1 .. Len(a) : (a \o z)[i] = a[i]
  BY JoinFacts
<1>5. PICK d \in Seq(Nat) : d = a \o z /\ Len(d) = Len(a) + Len(z)
                            /\ \A i \in 1 .. Len(a) : d[i] = a[i]
  BY <1>4, Zenon
<1>6. Len(d) = ProtSize /\ d \in Datagram
  BY <1>1, <1>2, <1>3, <1>5 DEF Datagram
<1>7. PICK b \in Seq(Nat) : b = Pad(d) /\ Len(b) = ProtSize /\ \A i \in 1 .. Len(d) : b[i] = d[i]
  BY <1>6, PadFacts
<1>8. PICK c \in Seq(Nat) : c = SubSeq(b, 1, n) /\ Len(c) = n /\ \A i \in 1 .. n : c[i] = b[i]
  <2>1. 1 \in Nat /\ n <= Len(b) /\ 1 <= n + 1
    BY <1>1, <1>7
  <2>2. /\ SubSeq(b, 1, n) \in Seq(Nat) /\ Len(SubSeq(b, 1, n)) = n - 1 + 1
        /\ \A i \in 1 .. n - 1 + 1 : SubSeq(b, 1, n)[i] = b[1 + i - 1]
    BY <2>1, <1>1, SliceFacts
  <2>3. /\ SubSeq(b, 1, n) \in Seq(Nat) /\ Len(SubSeq(b, 1, n)) = n
        /\ \A i \in 1 .. n : SubSeq(b, 1, n)[i] = b[i]
    BY <2>2, <1>1
  <2> QED BY <2>3, Zenon
<1>9. ASSUME NEW i \in 1 .. n PROVE c[i] = a[i]
  <2>1. i \in 1 .. Len(a) /\ i \in 1 .. Len(d)
    BY <1>1, <1>3, <1>6
  <2>2. c[i] = b[i]
    BY <1>8
  <2>3. b[i] = d[i] /\ d[i] = a[i]
    BY <1>5, <1>7, <2>1
  <2> QED BY <2>2, <2>3
<1>10. c = a
  BY <1>3, <1>8, <1>9, SeqEqual
<1> QED BY <1>2, <1>3, <1>5, <1>6, <1>7, <1>8, <1>10

(* A request the server does not refuse stays inside the copy: RequestsFit   *)
(* rules out that cp_offset + cp wraps around.                               *)
LEMMA ServedFits ==
    ASSUME PullInv, inbox # << >>, ~PullRefused(inbox[1].cp)
    PROVE  /\ cp_offset + inbox[1].cp <= used_size
           /\ inbox[1].cp # 0 => pullout \in Contents /\ cp_offset + inbox[1].cp <= Len(pullout)
<1> DEFINE n == inbox[1].cp
<1>1. /\ n \in 0 .. ProtSize /\ n \in Nat /\ used_size \in 0 .. U32 - 1 /\ used_size \in Nat
      /\ cp_offset \in Nat /\ U32 \in Nat /\ ProtSize \in Nat /\ ProtSize < U32
      /\ pullout \in Contents \cup {NullPtr}
  <2>1. 1 \in 1 .. Len(inbox)
    BY QueueFacts
  <2> QED BY <2>1, QueueFacts, PullAssumption DEF PullInv, TypeInv, TypeOK
<1>2. /\ cp_offset <= used_size
      /\ pullout = NullPtr => used_size = 0
      /\ pullout # NullPtr => used_size <= Len(pullout)
  BY DEF PullInv, BoundsInv, CopiesInBounds
<1>3. n # 0 => used_size = 0 \/ cp_offset + n <= used_size
  <2>1. 1 \in 1 .. Len(inbox)
    BY QueueFacts
  <2>2. n # 0 => Fits((1 - 1) * ProtSize + n)
    BY <2>1 DEF PullInv, BoundsInv, RequestsFit
  <2> QED BY <2>2, <1>1 DEF Fits
<1>4. ~((cp_offset + n) % U32 > used_size)
  BY DEF PullRefused
<1> HIDE DEF n
<1>5. n # 0 => used_size # 0
  <2> SUFFICES ASSUME n # 0, used_size = 0 PROVE FALSE
    OBVIOUS
  <2>1. cp_offset + n = n /\ n < U32
    BY <1>1, <1>2
  <2>2. n % U32 = n
    BY <2>1, <1>1, ModFacts
  <2> QED BY <2>1, <2>2, <1>1, <1>4
<1>6. cp_offset + n <= used_size
  BY <1>1, <1>2, <1>3, <1>5
<1>7. n # 0 => pullout \in Contents /\ used_size <= Len(pullout)
  BY <1>1, <1>2, <1>5
<1>8. n # 0 => cp_offset + n <= Len(pullout)
  <2>1. pullout \in Contents => Len(pullout) \in Nat
    BY PullAssumption
  <2> QED BY <2>1, <1>1, <1>6, <1>7
<1> QED BY <1>6, <1>7, <1>8 DEF n
(* What serving a PULLOUT does: the answer and the server's new state. *)
Served(n, resp) ==
    \/ UNCHANGED serverVars
    \/ /\ udb_auth_ok /\ cp_offset + n <= used_size
       /\ IF PullFinished(n)
          THEN used_size' = 0 /\ cp_offset' = 0 /\ pullout' = NullPtr
          ELSE cp_offset' = cp_offset + n /\ UNCHANGED <<used_size, pullout>>
       /\ n # 0 => resp = SubSeq(pullout, cp_offset + 1, cp_offset + n) \o Zeros(ProtSize - n)

LEMMA PulloutServed ==
    ASSUME PullInv, udb_debug_pullfile_pullout
    PROVE  \E resp \in Datagram :
              /\ SendTo(inbox[1].sess, resp)
              /\ Served(inbox[1].cp, resp)
              /\ udb_auth_ok /\ ~PullRefused(inbox[1].cp) =>
                    /\ IF PullFinished(inbox[1].cp)
                       THEN used_size' = 0 /\ cp_offset' = 0 /\ pullout' = NullPtr
                       ELSE cp_offset' = cp_offset + inbox[1].cp /\ UNCHANGED <<used_size, pullout>>
                    /\ inbox[1].cp # 0 =>
                         resp = SubSeq(pullout, cp_offset + 1, cp_offset + inbox[1].cp)
                                  \o Zeros(ProtSize - inbox[1].cp)
<1> DEFINE n == inbox[1].cp
<1>1. inbox # << >> /\ Head(inbox) = inbox[1] /\ n \in 0 .. ProtSize
  <2>1. inbox # << >> /\ inbox \in Seq(Req)
    BY QueueFacts DEF udb_debug_pullfile_pullout
  <2>2. 1 \in 1 .. Len(inbox) /\ Head(inbox) = inbox[1]
    BY <2>1
  <2> QED BY <2>1, <2>2, QueueFacts
<1>2. Zeros(ProtSize) \in Datagram /\ << >> \in Datagram
  BY PullAssumption, ZerosFacts DEF Datagram
<1>3. CASE udb_auth_ok /\ PullRefused(n)
  <2>1. SendTo(inbox[1].sess, Zeros(ProtSize)) /\ UNCHANGED serverVars
    BY <1>1, <1>3 DEF udb_debug_pullfile_pullout
  <2> QED BY <2>1, <1>2, <1>3 DEF Served
<1>4. CASE ~udb_auth_ok
  <2>1. SendTo(inbox[1].sess, << >>) /\ UNCHANGED serverVars
    BY <1>1, <1>4 DEF udb_debug_pullfile_pullout
  <2> QED BY <2>1, <1>2, <1>4 DEF Served
<1>5. CASE udb_auth_ok /\ ~PullRefused(n)
  <2> DEFINE resp == IF n = 0 THEN Zeros(ProtSize)
                     ELSE SubSeq(pullout, cp_offset + 1, cp_offset + n) \o Zeros(ProtSize - n)
  <2>1. /\ SendTo(inbox[1].sess, resp)
        /\ IF PullFinished(n)
           THEN used_size' = 0 /\ cp_offset' = 0 /\ pullout' = NullPtr
           ELSE cp_offset' = cp_offset + n /\ UNCHANGED <<used_size, pullout>>
    BY <1>1, <1>5 DEF udb_debug_pullfile_pullout
  <2>2. /\ cp_offset + n <= used_size
        /\ n # 0 => pullout \in Contents /\ cp_offset + n <= Len(pullout)
    BY <1>1, <1>5, ServedFits
  <2>3. resp \in Datagram
    <3>1. cp_offset \in Nat /\ Contents \subseteq Seq(Nat)
      BY PullAssumption DEF PullInv, TypeInv, TypeOK
    <3>2. CASE n = 0
      BY <3>2, <1>2
    <3>3. CASE n # 0
      <4>1. pullout \in Seq(Nat) /\ cp_offset + n <= Len(pullout)
        BY <3>1, <3>3, <2>2
      <4>2. SubSeq(pullout, cp_offset + 1, cp_offset + n) \o Zeros(ProtSize - n) \in Datagram
        BY <3>1, <4>1, <1>1, PieceReply
      <4> QED BY <3>3, <4>2
    <3> QED BY <3>2, <3>3
  <2>4. Served(n, resp)
    BY <2>1, <2>2, <1>5 DEF Served
  <2>5. n # 0 => resp = SubSeq(pullout, cp_offset + 1, cp_offset + n) \o Zeros(ProtSize - n)
    OBVIOUS
  <2> HIDE DEF resp
  <2> QED BY <2>1, <2>3, <2>4, <2>5
<1> QED BY <1>3, <1>4, <1>5

(* The room shrinks by at most one datagram. *)
LEMMA RoomLeft ==
    ASSUME PullInv, NEW n \in 0 .. ProtSize, NEW resp, Served(n, resp), NEW k \in Nat,
           Fits(ProtSize + k)
    PROVE  used_size' = 0 \/ cp_offset' + k <= used_size'
<1>1. /\ used_size \in Nat /\ cp_offset \in Nat /\ ProtSize \in Nat /\ n \in Nat /\ n <= ProtSize
  BY PullAssumption DEF PullInv, TypeInv, TypeOK
<1>2. used_size = 0 \/ cp_offset + (ProtSize + k) <= used_size
  BY DEF Fits
<1>3. \/ used_size' = used_size /\ cp_offset' = cp_offset
      \/ used_size' = 0
      \/ used_size' = used_size /\ cp_offset' = cp_offset + n
  BY DEF Served, serverVars
<1> QED BY <1>1, <1>2, <1>3

LEMMA ServePulloutInv == PullInv /\ udb_debug_pullfile_pullout => PullInv'
<1> SUFFICES ASSUME PullInv, udb_debug_pullfile_pullout PROVE PullInv'
  OBVIOUS
<1>1. /\ inbox # << >> /\ inbox' = Tail(inbox) /\ Head(inbox).chan = "PULL_FILE_PULLOUT"
      /\ UNCHANGED <<udb_auth_ok, file, session, cpc, get_size, cp_size, local, so_rcvtimeo,
                    kept, snap>>
  BY DEF udb_debug_pullfile_pullout, clientVars
<1>2. /\ inbox' \in Seq(Req) /\ Len(inbox') = Len(inbox) - 1 /\ Len(inbox) \in Nat \ {0}
      /\ Head(inbox) = inbox[1] /\ inbox[1] \in Req
      /\ \A i \in 1 .. Len(inbox') : /\ i + 1 \in 1 .. Len(inbox)
                                     /\ inbox'[i] = inbox[i + 1]
                                     /\ Owned(i)' = Owned(i + 1) /\ IsInit(i)' = IsInit(i + 1)
  BY <1>1, PopFacts
<1>3. PICK n \in 0 .. ProtSize : n = inbox[1].cp
  BY <1>2 DEF Req
<1>4. PICK resp \in Datagram :
              /\ SendTo(inbox[1].sess, resp)
              /\ Served(n, resp)
              /\ udb_auth_ok /\ ~PullRefused(n) =>
                    /\ IF PullFinished(n)
                       THEN used_size' = 0 /\ cp_offset' = 0 /\ pullout' = NullPtr
                       ELSE cp_offset' = cp_offset + n /\ UNCHANGED <<used_size, pullout>>
                    /\ n # 0 => resp = SubSeq(pullout, cp_offset + 1, cp_offset + n)
                                         \o Zeros(ProtSize - n)
  BY <1>3, PulloutServed
<1>5. ~IsInit(1) /\ Running' = Running /\ InStep' = InStep /\ Size' = Size /\ TypeInv
  BY <1>1, <1>2 DEF IsInit, Running, InStep, Size, PullInv
<1>6. /\ mail' \in Seq(Datagram)
      /\ (Owned(1) /\ Running /\ mail = << >>) =>
            Len(mail') = 1 /\ mail'[1] = IF udb_auth_ok THEN resp ELSE << >>
      /\ ~(Owned(1) /\ Running) => mail' = mail
  BY <1>4, <1>5, SendFacts DEF Owned
<1>7. /\ used_size \in 0 .. U32 - 1 /\ cp_offset \in 0 .. U32 - 1 /\ pullout \in Contents \cup {NullPtr}
      /\ ProtSize \in Nat \ {0} /\ U32 \in Nat \ {0} /\ get_size \in Nat /\ cp_size \in Nat
      /\ Len(local) \in Nat /\ n \in Nat
  BY <1>5, PullAssumption DEF TypeInv, TypeOK
<1>8. CopiesInBounds /\ CopiesInBounds'
      /\ used_size' \in 0 .. U32 - 1 /\ cp_offset' \in 0 .. U32 - 1 /\ pullout' \in Contents \cup {NullPtr}
  <2>1. CopiesInBounds
    BY DEF PullInv, BoundsInv
  <2>2. CASE UNCHANGED serverVars
    BY <2>1, <2>2, <1>7 DEF CopiesInBounds, serverVars
  <2>3. CASE used_size' = 0 /\ cp_offset' = 0 /\ pullout' = NullPtr
    BY <2>1, <2>3, <1>7 DEF CopiesInBounds
  <2>4. CASE cp_offset' = cp_offset + n /\ UNCHANGED <<used_size, pullout>> /\ cp_offset + n <= used_size
    <3>1. cp_offset' \in 0 .. U32 - 1 /\ cp_offset' <= used_size'
      BY <2>4, <1>7
    <3> QED BY <3>1, <2>1, <2>4, <1>7 DEF CopiesInBounds
  <2> QED BY <2>2, <2>3, <2>4, <1>4 DEF Served
<1>9. TypeInv'
  <2>1. \A i \in 1 .. Len(inbox') : inbox'[i].sess <= session'
    BY <1>1, <1>2, QueueFacts
  <2>2. TypeOK'
    BY <1>1, <1>2, <1>5, <1>8 DEF TypeInv, TypeOK, Req
  <2> QED BY <1>1, <1>5, <1>6, <2>1, <2>2 DEF TypeInv
<1>10. RequestsFit'
  <2> SUFFICES ASSUME NEW i \in 1 .. Len(inbox'), inbox'[i].cp # 0
               PROVE  /\ \A j \in 1 .. i : ~IsInit(j)'
                      /\ Fits((i - 1) * ProtSize + inbox[i].cp)'
    BY DEF RequestsFit
  <2>1. i + 1 \in 1 .. Len(inbox) /\ inbox'[i] = inbox[i + 1]
    BY <1>2
  <2>2. /\ \A j \in 1 .. i + 1 : ~IsInit(j)
        /\ Fits(((i + 1) - 1) * ProtSize + inbox[i + 1].cp)
    BY <2>1 DEF PullInv, BoundsInv, RequestsFit
  <2>3. \A j \in 1 .. i : ~IsInit(j)'
    <3> TAKE j \in 1 .. i
    <3>1. j \in 1 .. Len(inbox') /\ j + 1 \in 1 .. i + 1
      BY <1>2
    <3> QED BY <3>1, <2>2, <1>2
  <2>4. PICK k \in Nat : k = (i - 1) * ProtSize + inbox'[i].cp
    <3>1. inbox'[i].cp \in Nat
      BY <2>1, <1>7, QueueFacts
    <3>2. i - 1 \in Nat
      BY <1>2
    <3>3. (i - 1) * ProtSize \in Nat
      BY <3>2, <1>7
    <3> QED BY <3>1, <3>3
  <2>5. ((i + 1) - 1) * ProtSize + inbox[i + 1].cp = ProtSize + k
    <3>1. inbox[i + 1].cp \in Nat /\ i \in Nat
      BY <2>1, <1>2, <1>7, QueueFacts
    <3>2. ((i + 1) - 1) * ProtSize = (i - 1) * ProtSize + ProtSize
      BY <3>1, <1>7
    <3> QED BY <3>1, <3>2, <2>1, <2>4, <1>7
  <2>6. Fits(ProtSize + k)
    BY <2>2, <2>5
  <2>7. used_size' = 0 \/ cp_offset' + k <= used_size'
    BY <2>6, <1>4, RoomLeft
  <2>8. Fits((i - 1) * ProtSize + inbox[i].cp)'
    BY <2>4, <2>7 DEF Fits
  <2> QED BY <2>3, <2>8
<1>11. ClientFits'
  <2> SUFFICES ASSUME cpc = "pull", get_size > cp_size
               PROVE  /\ \A j \in 1 .. Len(inbox') : ~IsInit(j)'
                      /\ Fits(Len(inbox) * ProtSize + (get_size - cp_size))'
    BY <1>1 DEF ClientFits
  <2>1. /\ \A j \in 1 .. Len(inbox) : ~IsInit(j)
        /\ Fits(Len(inbox) * ProtSize + (get_size - cp_size))
    BY DEF PullInv, BoundsInv, ClientFits
  <2>2. \A j \in 1 .. Len(inbox') : ~IsInit(j)'
    BY <2>1, <1>2
  <2>3. PICK g \in Nat : g = get_size - cp_size
    BY <1>7
  <2>4. PICK m \in Nat : m = Len(inbox') * ProtSize
    BY <1>2, <1>7
  <2>5. Len(inbox) * ProtSize = ProtSize + m
    BY <1>2, <1>7, <2>4
  <2>6. Len(inbox) * ProtSize + (get_size - cp_size) = ProtSize + (m + g)
    BY <2>3, <2>5, <1>7
  <2>7. Fits(ProtSize + (m + g)) /\ m + g \in Nat
    BY <2>1, <2>6, <2>3, <2>4
  <2>8. used_size' = 0 \/ cp_offset' + (m + g) <= used_size'
    BY <2>7, <1>4, RoomLeft
  <2>9. Fits(Len(inbox) * ProtSize + (get_size - cp_size))'
    BY <2>3, <2>4, <2>8, <1>1 DEF Fits
  <2> QED BY <2>2, <2>9
<1>12. InStepInv'
  <2> SUFFICES ASSUME InStep, Running PROVE Asked' \/ Answered' \/ Silent'
    BY <1>5 DEF InStepInv
  <2>1. CASE Silent
    <3>1. ~Owned(1) /\ mail' = << >>
      BY <2>1, <1>2, <1>6 DEF Silent
    <3> QED BY <2>1, <3>1, <1>2 DEF Silent
  <2>2. CASE Asked /\ Len(inbox) # 1
    <3>1. cpc = "init" /\ ~Owned(1) /\ mail' = << >> /\ snap = Unfixed
      BY <2>2, <1>2, <1>6 DEF Asked, Running
    <3>2. Len(inbox') \in 1 .. Len(inbox') /\ Len(inbox') + 1 = Len(inbox) /\ inbox' # << >>
      BY <2>2, <1>2
    <3>3. Owned(Len(inbox))' /\ IsInit(Len(inbox))'
      <4>1. Owned(Len(inbox)) /\ IsInit(Len(inbox))
        BY <2>2, <3>1 DEF Asked
      <4>2. inbox'[Len(inbox')] = inbox[Len(inbox)]
        BY <3>2, <1>2
      <4> QED BY <4>1, <4>2, <1>1 DEF Owned, IsInit
    <3>4. \A i \in 1 .. Len(inbox') - 1 : ~Owned(i)'
      <4> TAKE i \in 1 .. Len(inbox') - 1
      <4>1. i \in 1 .. Len(inbox') /\ i + 1 \in 1 .. Len(inbox) - 1
        BY <1>2
      <4> QED BY <4>1, <2>2, <1>2 DEF Asked
    <3>5. Asked'
      BY <3>1, <3>2, <3>3, <3>4, <1>1 DEF Asked
    <3> QED BY <3>5
  <2>3. CASE Asked /\ Len(inbox) = 1
    <3>1. /\ Owned(1) /\ mail = << >> /\ cpc = "pull" /\ n = cp_size
          /\ snap # Unfixed /\ get_size = Size - Len(local)
          /\ get_size > 0 => ServerAt(Len(local))
      BY <2>3, <1>3, <1>5 DEF Asked, Running
    <3>2. inbox' = << >>
      BY <2>3, <1>2
    <3>3. Len(mail') = 1 /\ mail'[1] = IF udb_auth_ok THEN resp ELSE << >>
      BY <3>1, <1>6
    <3>4. /\ snap \in Seq(Nat) /\ Size \in 0 .. U32 - 1 /\ Size <= Len(snap) /\ Len(snap) \in Nat
          /\ cp_size = PieceSize(get_size)
      BY <3>1, <1>5, SnapFacts DEF TypeInv
    <3>5. PICK p \in Nat : p = Len(local)
      BY <1>7
    <3>6. cp_size <= get_size /\ (get_size > 0 => cp_size > 0)
      BY <3>4, <1>7, PieceSizeFacts
    <3>7. CASE get_size = 0
      <4>1. cp_size = 0
        BY <3>6, <3>7, <1>7
      <4>2. SubSeq(snap, p + 1, p + 0) = << >>
        BY <3>4, <3>5
      <4>3. PICK b \in Seq(Nat) : b = Pad(mail'[1])
        <5>1. mail'[1] \in Datagram
          BY <3>3, EmptyReply
        <5> QED BY <5>1, PadFacts
      <4>4. SubSeq(b, 1, 0) = << >>
        OBVIOUS
      <4>5. SubSeq(Pad(mail'[1]), 1, cp_size) = SubSeq(snap, Len(local) + 1, Len(local) + cp_size)
        BY <4>1, <4>2, <4>3, <4>4, <3>5
      <4>6. Pad(mail[1])' = Pad(mail'[1])
        BY DEF Pad, Zeros
      <4>7. ~(get_size > cp_size)
        BY <4>1, <3>7
      <4>8. Answered'
        BY <4>5, <4>6, <4>7, <3>1, <3>2, <3>3, <1>1, <1>5 DEF Answered
      <4> QED BY <4>8
    <3>8. CASE get_size > 0
      <4>1. /\ udb_auth_ok /\ cp_offset = p /\ used_size = Size /\ pullout = snap
        BY <3>1, <3>5, <3>8 DEF ServerAt
      <4>2. p + n <= Size /\ n # 0 /\ (get_size > cp_size => p + n # Size)
        BY <3>1, <3>4, <3>5, <3>6, <3>8, <1>7
      <4>3. ~PullRefused(n)
        <5>1. (p + n) % U32 = p + n
          <6>1. p + n \in Nat /\ p + n < U32
            BY <4>2, <3>4, <1>7
          <6> QED BY <6>1, ModFacts
        <5> QED BY <5>1, <4>1, <4>2, <3>4, <1>7 DEF PullRefused
      <4>4. /\ resp = SubSeq(snap, p + 1, p + n) \o Zeros(ProtSize - n)
            /\ get_size > cp_size => cp_offset' = p + n /\ UNCHANGED <<used_size, pullout>>
        BY <4>1, <4>2, <4>3, <1>4 DEF PullFinished
      <4>5. SubSeq(Pad(resp), 1, n) = SubSeq(snap, p + 1, p + n)
        <5>1. p + n <= Len(snap)
          BY <4>2, <3>4, <1>7
        <5> QED BY <5>1, <4>4, <3>4, PieceReply
      <4>6. mail'[1] = resp
        BY <3>3, <4>1
      <4>7. SubSeq(Pad(mail'[1]), 1, cp_size) = SubSeq(snap, Len(local) + 1, Len(local) + cp_size)
        BY <4>5, <4>6, <3>1, <3>5
      <4>8. Pad(mail[1])' = Pad(mail'[1])
        BY DEF Pad, Zeros
      <4>9. get_size > cp_size => ServerAt(Len(local) + cp_size)'
        BY <4>1, <4>4, <3>1, <3>5, <1>1, <1>5 DEF ServerAt
      <4>10. Answered'
        BY <4>7, <4>8, <4>9, <3>1, <3>2, <3>3, <1>1, <1>5 DEF Answered
      <4> QED BY <4>10
    <3> QED BY <3>7, <3>8, <1>7
  <2> QED BY <2>1, <2>2, <2>3, <1>1 DEF PullInv, InStepInv, Answered
<1>13. PrefixInv'
  BY <1>1, <1>5 DEF PullInv, PrefixInv
<1>14. InitOnce'
  <2> SUFFICES ASSUME Running, NEW i \in 1 .. Len(inbox'), Owned(i)', IsInit(i)'
               PROVE  /\ snap' = Unfixed
                      /\ \A j \in 1 .. Len(inbox') : Owned(j)' /\ IsInit(j)' => i = j
    BY <1>5 DEF InitOnce
  <2>1. i + 1 \in 1 .. Len(inbox) /\ Owned(i + 1) /\ IsInit(i + 1)
    BY <1>2
  <2>2. snap = Unfixed /\ \A j \in 1 .. Len(inbox) : Owned(j) /\ IsInit(j) => i + 1 = j
    BY <2>1 DEF PullInv, InitOnce
  <2>3. ASSUME NEW j \in 1 .. Len(inbox'), Owned(j)', IsInit(j)' PROVE i = j
    <3>1. j + 1 \in 1 .. Len(inbox) /\ Owned(j + 1) /\ IsInit(j + 1)
      BY <2>3, <1>2
    <3> QED BY <3>1, <2>2, <1>2
  <2> QED BY <2>2, <2>3, <1>1
<1> QED BY <1>8, <1>9, <1>10, <1>11, <1>12, <1>13, <1>14 DEF PullInv, BoundsInv

-----------------------------------------------------------------------------
LEMMA NextInv == PullInv /\ [Next]_vars => PullInv'
<1> SUFFICES ASSUME PullInv, [Next]_vars PROVE PullInv'
  OBVIOUS
<1>1. CASE FileChanges
  BY <1>1, EnvironmentInv DEF FileChanges, PullInv, TypeInv, TypeOK
<1>2. CASE udb_debug_auth
  <2>1. PICK key_ok \in BOOLEAN : udb_auth_ok' = (udb_auth_ok \/ key_ok)
    BY <1>2 DEF udb_debug_auth
  <2>2. udb_auth_ok' \in BOOLEAN /\ (udb_auth_ok => udb_auth_ok') /\ file' \in Contents \cup {NoFile}
    BY <2>1, <1>2 DEF udb_debug_auth, PullInv, TypeInv, TypeOK
  <2> QED BY <2>2, <1>2, EnvironmentInv DEF udb_debug_auth
<1>3. CASE UNCHANGED vars
  BY <1>3, EnvironmentInv DEF vars, PullInv, TypeInv, TypeOK
<1> QED BY <1>1, <1>2, <1>3, LoseRequestInv, LoseReplyInv, ServeInitInv, ServePulloutInv,
           StartInv, SizeInv, PieceInv, KillInv DEF Next, Server, Client

LEMMA PullInvariant == Spec => []PullInv
  BY InitInv, NextInv, PTL DEF Spec

(* Types of the protocol state, for every set of contents: sizes and requests *)
(* stay in their ranges, also for a client that reads late answers.           *)
THEOREM PullTypes == Spec => []TypeOK
  BY PullInvariant, PTL DEF PullInv, TypeInv

(* The server never copies from outside the file it read                     *)
(* (udb_debug_pullfile_pullout's memcpy), whatever requests earlier clients  *)
(* left behind and although cp_offset + cp is computed modulo 2^32.          *)
THEOREM PullStaysInBounds == Spec => []CopiesInBounds
  BY PullInvariant, PTL DEF PullInv, BoundsInv

-----------------------------------------------------------------------------
(* The refinement of the abstract file copy.                                 *)

Dst == IF InStep THEN local ELSE kept
Src == Expressible(snap)

LEMMA SrcFacts ==
    ASSUME PullInv, snap # Unfixed
    PROVE  /\ Src = SubSeq(snap, 1, Size) /\ Src # Unfixed /\ Src \in Seq(Nat) /\ Len(Src) = Size
           /\ Src \in {Expressible(content) : content \in Contents}
<1>1. snap \in Contents /\ snap \in Seq(Nat) /\ Len(snap) \in Nat /\ Size \in Nat /\ Size <= Len(snap)
  BY SnapFacts DEF PullInv
<1>2. Src = SubSeq(snap, 1, Size)
  BY DEF Src, Expressible, Size
<1>3. Src \in Seq(Nat) /\ Len(Src) = Size
  <2>1. 1 \in Nat /\ 1 <= Size + 1
    BY <1>1
  <2>2. SubSeq(snap, 1, Size) \in Seq(Nat) /\ Len(SubSeq(snap, 1, Size)) = Size - 1 + 1
    BY <2>1, <1>1, SliceFacts
  <2> QED BY <2>2, <1>1, <1>2
<1>4. Src \in {Expressible(content) : content \in Contents}
  BY <1>1 DEF Src
<1> QED BY <1>2, <1>3, <1>4, PullAssumption

LEMMA StepCopies ==
    ASSUME PullInv, PullInv', [Next]_vars
    PROVE  FC!Next \/ UNCHANGED <<Src, Dst, Phase>>
<1>1. ASSUME UNCHANGED <<cpc, local, snap, kept>> PROVE UNCHANGED <<Src, Dst, Phase>>
  BY <1>1 DEF Src, Dst, Phase, Expressible, InStep, Running
<1>2. CASE FileChanges \/ udb_debug_auth \/ LoseRequest \/ LoseReply
           \/ udb_debug_pullfile_pullout \/ UNCHANGED vars
  BY <1>1, <1>2 DEF FileChanges, udb_debug_auth, LoseRequest, LoseReply,
                    udb_debug_pullfile_pullout, clientVars, vars
<1>3. CASE udb_debug_pullfile_init
  <2>1. /\ UNCHANGED <<cpc, local, kept>> /\ inbox # << >> /\ Head(inbox).chan = "PULL_FILE_INIT"
        /\ ~(Head(inbox).sess = session /\ Running) => snap' = snap
        /\ (Head(inbox).sess = session /\ Running) => snap' # Unfixed
    <3>1. << >> # Unfixed /\ (file # NoFile => file # Unfixed)
      BY SizeOfFacts DEF PullInv
    <3> QED BY <1>3, <3>1 DEF udb_debug_pullfile_init, clientVars
  <2>2. CASE ~(Head(inbox).sess = session /\ Running)
    BY <2>1, <2>2, <1>1
  <2>3. CASE Head(inbox).sess = session /\ Running
    <3>1. Head(inbox) = inbox[1] /\ 1 \in 1 .. Len(inbox)
      BY <2>1, QueueFacts
    <3>2. snap = Unfixed
      BY <2>1, <2>3, <3>1 DEF PullInv, InitOnce, Owned, IsInit
    <3>3. snap' # Unfixed
      BY <2>1, <2>3
    <3>4. Src = Unfixed /\ Src' \in {Expressible(content) : content \in Contents}
      <4>1. snap' \in Contents
        BY <3>3 DEF PullInv, TypeInv, TypeOK
      <4> QED BY <3>2, <4>1 DEF Src, Expressible
    <3>5. UNCHANGED <<Dst, Phase>> /\ Phase \in {"copying", "abandoned"}
      BY <2>1, <2>3 DEF Dst, Phase, InStep, Running
    <3>6. FC!Fix
      BY <3>4, <3>5 DEF FC!Fix, FC!UnderWay, Src, Dst
    <3> QED BY <3>6 DEF FC!Next
  <2> QED BY <2>2, <2>3
<1>4. CASE pull_file_start
  <2>1. /\ ~Running /\ Running' /\ InStep' /\ local' = << >> /\ snap' = Unfixed /\ cpc' = "init"
    BY <1>4 DEF pull_file_start, Running, InStep
  <2>2. Phase # "copying"
    BY <2>1 DEF Phase, Running, PullInv, TypeInv, TypeOK
  <2>3. Phase' = "copying" /\ Dst' = << >> /\ Src' = Unfixed
    BY <2>1 DEF Phase, Dst, Src, Expressible
  <2> QED BY <2>2, <2>3 DEF FC!Next, FC!Start, Dst, Src
<1>5. CASE pull_file_size
  <2>1. PICK r \in Reads : Keep(r)
    BY <1>5 DEF pull_file_size
  <2>2. /\ UNCHANGED <<local, snap>> /\ cpc = "init" /\ cpc' = "pull" /\ InStep
        /\ kept' = IF r.late THEN local ELSE kept
    BY <1>5, <2>1 DEF pull_file_size, Keep, PullInv, TypeInv, InStep
  <2>3. Src' = Src /\ Dst' = Dst
    <3>1. Src' = Src
      BY <2>2 DEF Src, Expressible
    <3>2. CASE InStep'
      BY <2>2, <3>1, <3>2 DEF Dst
    <3>3. CASE ~InStep'
      BY <2>2, <3>1, <3>3 DEF Dst, InStep
    <3> QED BY <3>1, <3>2, <3>3
  <2>4. Phase = "copying" /\ Phase' = IF InStep' THEN "copying" ELSE "abandoned"
    BY <2>2 DEF Phase, Running
  <2> QED BY <2>3, <2>4 DEF FC!Next, FC!Abandon, Src, Dst
<1>6. CASE pull_file_piece
  <2>1. PICK r \in Reads : mail' = r.rest /\ Keep(r) /\ local' = local \o SubSeq(r.buf, 1, cp_size)
    BY <1>6 DEF pull_file_piece
  <2>2. /\ snap' = snap /\ cpc = "pull" /\ cpc' \in {"pull", "done"} /\ Running
        /\ kept' = IF r.late /\ InStep THEN local ELSE kept
    BY <1>6, <2>1 DEF pull_file_piece, Keep, Running, InStep
  <2>3. Src' = Src /\ local \in Seq(Nat) /\ local # Unfixed
    BY <2>2, PullAssumption DEF Src, Expressible, PullInv, TypeInv
  <2>4. CASE ~InStep
    <3>1. kept' = kept /\ ~InStep'
      BY <2>2, <2>4 DEF InStep
    <3> QED BY <2>2, <2>3, <2>4, <3>1 DEF Dst, Phase
  <2>5. CASE InStep /\ r.late
    <3>1. kept' = local /\ ~InStep'
      BY <2>2, <2>3, <2>5 DEF InStep
    <3>2. Dst' = Dst /\ Phase = "copying" /\ Phase' = "abandoned"
      BY <2>2, <2>5, <3>1 DEF Dst, Phase
    <3> QED BY <2>3, <3>2 DEF FC!Next, FC!Abandon, Src, Dst
  <2>6. CASE InStep /\ ~r.late
    <3>1. InStep' /\ mail # << >>
      BY <2>2, <2>6, ReadFacts DEF InStep
    <3>2. snap # Unfixed
      BY <3>1, <2>2, <2>6 DEF PullInv, InStepInv, Asked, Answered, Silent
    <3>3. /\ Len(local') <= Size' /\ local' = SubSeq(snap', 1, Len(local'))
          /\ cpc' = "done" => Len(local') = Size'
      BY <3>1, <3>2, <2>2 DEF PullInv, PrefixInv
    <3>4. /\ Src = SubSeq(snap, 1, Size) /\ Src # Unfixed /\ Len(Src) = Size /\ Size' = Size
          /\ snap \in Seq(Nat) /\ Size \in Nat /\ Size <= Len(snap)
      BY <2>2, <3>2, SrcFacts, SnapFacts DEF PullInv, Size
    <3>5. Len(local) \in Nat /\ Len(local') \in Nat /\ Len(local) <= Len(local')
      <4>1. r.buf \in Seq(Nat) /\ Len(r.buf) = ProtSize /\ cp_size \in 0 .. ProtSize /\ ProtSize \in Nat
        BY ReadFacts, PullAssumption DEF PullInv, TypeInv, TypeOK
      <4>2. 1 \in Nat /\ cp_size \in Nat /\ cp_size <= Len(r.buf) /\ 1 <= cp_size + 1
        BY <4>1
      <4>3. PICK q \in Seq(Nat) : q = SubSeq(r.buf, 1, cp_size)
        <5>1. SubSeq(r.buf, 1, cp_size) \in Seq(Nat)
          BY <4>1, <4>2, SliceFacts
        <5> QED BY <5>1
      <4>4. Len(local \o q) = Len(local) + Len(q)
        BY <2>3, JoinFacts
      <4> QED BY <4>3, <4>4, <2>1, <2>3
    <3>6. Dst = local /\ Dst' = local' /\ Phase = "copying"
      BY <2>2, <2>6, <3>1 DEF Dst, Phase
    <3>7. PICK n \in Nat : n = Len(local')
      BY <3>5
    <3>8. local' = SubSeq(Src, 1, n) /\ n \in Len(local) .. Len(Src)
      <4>1. n <= Size
        BY <3>3, <3>4, <3>7
      <4>2. SubSeq(SubSeq(snap, 1, Size), 1, n) = SubSeq(snap, 1, n)
        BY <4>1, <3>4, PrefixOfPrefix
      <4>3. local' = SubSeq(Src, 1, n)
        BY <4>2, <3>3, <3>4, <3>7, <2>2
      <4>4. n \in Len(local) .. Len(Src)
        BY <4>1, <3>4, <3>5, <3>7
      <4> QED BY <4>3, <4>4
    <3>9. CASE cpc' = "pull"
      <4>1. Phase' = "copying"
        BY <3>1, <3>9 DEF Phase, Running
      <4>2. FC!Extend
        BY <4>1, <3>4, <3>6, <3>8, <2>3 DEF FC!Extend, FC!UnderWay, Src, Dst
      <4> QED BY <4>2 DEF FC!Next
    <3>10. CASE cpc' = "done"
      <4>1. Phase' = "done"
        BY <3>1, <3>10 DEF Phase, Running
      <4>2. Dst' = Src
        BY <3>3, <3>4, <3>6, <3>10, <2>2
      <4>3. FC!Finish
        BY <4>1, <4>2, <3>4, <3>6, <2>3 DEF FC!Finish, Src, Dst
      <4> QED BY <4>3 DEF FC!Next
    <3> QED BY <3>9, <3>10, <2>2
  <2> QED BY <2>4, <2>5, <2>6
<1>7. CASE Kill
  <2>1. /\ UNCHANGED <<local, snap, kept>> /\ Running /\ cpc' = "killed" /\ InStep' = InStep
    BY <1>7 DEF Kill, InStep
  <2>2. Src' = Src /\ Dst' = Dst
    BY <2>1 DEF Src, Dst, Expressible
  <2>3. Phase' = "abandoned" /\ Phase = IF InStep THEN "copying" ELSE "abandoned"
    BY <2>1 DEF Phase, Running
  <2> QED BY <2>2, <2>3 DEF FC!Next, FC!Abandon, Src, Dst
<1> QED BY <1>2, <1>3, <1>4, <1>5, <1>6, <1>7 DEF Next, Server, Client

(* `udb pull` implements the abstract file copy: the local file grows as a   *)
(* prefix of one version of the device's file and is that version when the   *)
(* command ends, for every datagram size and every interleaving with lost    *)
(* datagrams, killed clients, left-over requests and a changing file.        *)
THEOREM PullImplementsCopy == Spec => CopiesFile
<1>1. Init => FC!Init
  BY DEF Init, FC!Init, Expressible, InStep, Phase, Running
<1>2. PullInv /\ PullInv' /\ [Next]_vars => [FC!Next]_<<Src, Dst, Phase>>
  BY StepCopies
<1> QED BY <1>1, <1>2, PullInvariant, PTL DEF Spec, CopiesFile, FC!Spec, Src, Dst

=============================================================================
