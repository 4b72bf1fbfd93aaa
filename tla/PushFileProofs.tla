--------------------------- MODULE PushFileProofs ---------------------------
(***************************************************************************)
(* Proofs about `udb push`, for every piece size, every set of file        *)
(* contents and any number of clients, with lost datagrams, killed clients,*)
(* receive time-outs and fopen failing.                                    *)
(***************************************************************************)
EXTENDS PushFile, SeqFacts

Data == {d \in Seq(Nat) : Len(d) <= MaxPkg}
Chans == {"PUSH_FILE_INIT", "PUSH_FILE_PROC", "PUSH_FILE_FINI"}
Req == [sess : 1 .. MaxSession, chan : Chans, data : Data]
Reply == {"", "INITOK", "INITNO", "PROCOK", "FINIOK"}
Handled == {"ok", "no", "refused"}
Outcomes == {"none", "ok", "no", "refused", "lost"}

(* Types that TypeOK leaves out. *)
TypeInv ==
    /\ TypeOK
    /\ inbox \in Seq(Req) /\ mail \in Seq(Reply)
    /\ cpc # "idle" => session # 0 /\ source \in Contents
    /\ cpc = "idle" => session = 0
    /\ cpc = "init" => left_size = FileSize(source)

Owned(i) == inbox[i].sess = session
IsInit(i) == inbox[i].chan = "PUSH_FILE_INIT"
IsFini(i) == inbox[i].chan = "PUSH_FILE_FINI"

(* The queue holds the clients' requests in the order of the clients, those  *)
(* of a client from its INIT to its FINI; an INIT is undecided while it is   *)
(* queued, and once it was handled nothing of earlier clients is left.       *)
OrderInv ==
    /\ \A i \in 1 .. Len(inbox) :
          /\ inbox[i].sess <= session
          /\ IsInit(i) => outcome[inbox[i].sess] = "none"
          /\ Owned(i) /\ IsFini(i) => cpc \in {"fini", "done", "killed"}
    /\ \A i, j \in 1 .. Len(inbox) : i < j =>
          /\ inbox[i].sess <= inbox[j].sess
          /\ inbox[i].sess = inbox[j].sess => ~IsInit(j) /\ ~IsFini(i)
    /\ \A s \in 1 .. MaxSession :
          /\ s > session => outcome[s] = "none"
          /\ s <= session /\ outcome[s] = "none" =>
                \E i \in 1 .. Len(inbox) : IsInit(i) /\ inbox[i].sess = s
          /\ outcome[s] \in Handled => \A i \in 1 .. Len(inbox) : s <= inbox[i].sess

(* An accepted INIT keeps fp open for the requests of its client that are    *)
(* queued and for those that it will still send.                             *)
FpInv ==
    /\ \A i \in 1 .. Len(inbox) : ~IsInit(i) /\ outcome[inbox[i].sess] = "ok" => fp = "open"
    /\ Started /\ cpc \in {"init", "proc"} => fp = "open"

(* A client none of whose reads timed out has at most one request or answer  *)
(* under way, and goes on only if none was lost.                             *)
StepInv ==
    ~late =>
        /\ Running => \A i \in 1 .. Len(inbox) : Owned(i) =>
              i = Len(inbox) /\ mail = << >> /\ Whole /\ (cpc = "init" => IsInit(i))
        /\ Running /\ mail # << >> =>
              Len(mail) = 1 /\ Whole /\ inbox = << >> /\ outcome[session] \in Handled
        /\ cpc \in {"proc", "fini", "done"} => outcome[session] \in Handled
        /\ cpc = "done" => inbox = << >> /\ Whole

KeptInv == kept # Unfixed => ~Whole /\ (~Started => kept = << >>)

Size == FileSize(source)

(* Once the device accepted the current client's INIT, what was written to   *)
(* the stream, and of that what reached the disk, are prefixes of the local  *)
(* file.                                                                     *)
StreamInv ==
    Started /\ kept = Unfixed =>
        /\ udb_auth_ok
        /\ Len(disk) <= Len(stream) /\ Len(stream) <= Size
        /\ stream = SubSeq(source, 1, Len(stream)) /\ disk = SubSeq(source, 1, Len(disk))

(* The current client's INIT has not failed. *)
Alive == session # 0 /\ outcome[session] \in {"none", "ok"}

(* The bytes of the local file that the client has sent. *)
Sent == CASE cpc = "init" -> 0
          [] cpc = "proc" -> (Size - left_size) + PieceSize(left_size)
          [] OTHER -> Size

(* p[i] is the place in the local file where request i of the queue goes on. *)
Link(p, i) ==
    /\ Owned(i) /\ inbox[i].chan = "PUSH_FILE_PROC" =>
          p[i] <= p[i + 1] /\ p[i + 1] <= Size /\ inbox[i].data = SubSeq(source, p[i] + 1, p[i + 1])
    /\ Owned(i) /\ IsFini(i) => p[i] = Size /\ p[i + 1] = Size
    /\ ~Owned(i) \/ IsInit(i) => p[i + 1] = p[i]

Base == IF Started THEN Len(stream) ELSE 0

Chain(p) ==
    /\ p[1] = Base
    /\ \A i \in 1 .. Len(inbox) : Link(p, i)
    /\ Whole /\ cpc # "killed" => p[Len(inbox) + 1] = Sent

(* The queued pieces follow one another, from the end of the stream to what  *)
(* the client sent last.                                                     *)
ChainInv == Alive /\ kept = Unfixed => \E p \in [1 .. Len(inbox) + 1 -> Nat] : Chain(p)

(* After its FINI the client's requests end with it. *)
ArriveInv ==
    Alive /\ Whole /\ cpc \in {"fini", "done"} =>
        /\ inbox = << >> => fp = "null" /\ disk = stream /\ Len(stream) = Size
        /\ inbox # << >> => IsFini(Len(inbox))

PushInv == /\ TypeInv /\ OrderInv /\ FpInv /\ StepInv
           /\ KeptInv /\ StreamInv /\ ChainInv /\ ArriveInv

-----------------------------------------------------------------------------
(* The operators of the model.                                               *)

LEMMA SizeFacts ==
    ASSUME NEW content \in Seq(Nat)
    PROVE  FileSize(content) \in Nat /\ FileSize(content) < U32 /\ FileSize(content) <= Len(content)
<1>1. Len(content) \in Nat
  OBVIOUS
<1> QED BY <1>1, PushAssumption DEF FileSize

LEMMA PieceSizeFacts ==
    ASSUME NEW left \in Nat
    PROVE  PieceSize(left) \in 0 .. MaxPkg /\ PieceSize(left) \in Nat /\ PieceSize(left) <= left
  BY PushAssumption DEF PieceSize

(* A piece is the next slice of the local file. *)
LEMMA PieceFacts ==
    ASSUME source \in Seq(Nat), NEW left \in 0 .. Size
    PROVE  /\ Piece(left) \in Data
           /\ Piece(left) = SubSeq(source, Size - left + 1, Size - left + PieceSize(left))
           /\ Size - left \in Nat /\ Size - left + PieceSize(left) <= Size
<1>1. Size \in Nat /\ Size <= Len(source) /\ left \in Nat /\ Len(source) \in Nat
  BY SizeFacts DEF Size
<1>2. PICK k \in Nat : k = PieceSize(left) /\ k <= MaxPkg /\ k <= left
  BY <1>1, PieceSizeFacts, PushAssumption
<1>3. PICK m \in Nat : m = Size - left /\ m + k <= Size
  BY <1>1, <1>2
<1>4. PICK p \in Seq(Nat) : p = Piece(left) /\ Len(p) = k /\ \A i \in 1 .. k : p[i] = source[m + i]
  <2> DEFINE q == [i \in 1 .. k |-> source[m + i]]
  <2>1. \A i \in 1 .. k : m + i <= Len(source) /\ m + i \in 1 .. Len(source) /\ source[m + i] \in Nat
    <3> TAKE i \in 1 .. k
    <3>1. m + i <= Len(source) /\ m + i \in 1 .. Len(source)
      BY <1>1, <1>2, <1>3
    <3> QED BY <3>1
  <2>2. Piece(left) = q
    BY <2>1, <1>2, <1>3 DEF Piece, Size
  <2>3. q \in Seq(Nat) /\ Len(q) = k /\ \A i \in 1 .. k : q[i] = source[m + i]
    BY <2>1
  <2> HIDE DEF q
  <2> QED BY <2>2, <2>3
<1>5. PICK a \in Nat, b \in Nat : a = m + 1 /\ b = m + k
  OBVIOUS
<1>6. 1 <= a /\ b <= Len(source) /\ a <= b + 1 /\ b - a + 1 = k
  BY <1>1, <1>3, <1>5
<1>7. PICK s \in Seq(Nat) : s = SubSeq(source, a, b) /\ Len(s) = b - a + 1
                            /\ \A i \in 1 .. b - a + 1 : s[i] = source[a + i - 1]
  <2>1. /\ SubSeq(source, a, b) \in Seq(Nat) /\ Len(SubSeq(source, a, b)) = b - a + 1
        /\ \A i \in 1 .. b - a + 1 : SubSeq(source, a, b)[i] = source[a + i - 1]
    BY <1>6, SliceFacts
  <2> QED BY <2>1, Zenon
<1>8. \A i \in 1 .. k : s[i] = source[m + i]
  <2> TAKE i \in 1 .. k
  <2>1. a + i - 1 = m + i
    BY <1>5
  <2> QED BY <2>1, <1>6, <1>7
<1>9. p = s
  BY <1>4, <1>6, <1>7, <1>8, SeqEqual
<1>10. p \in Data
  BY <1>2, <1>4 DEF Data
<1> QED BY <1>2, <1>3, <1>4, <1>5, <1>7, <1>9, <1>10

LEMMA SourceFacts ==
    ASSUME TypeInv, session # 0
    PROVE  /\ source \in Contents /\ source \in Seq(Nat) /\ Len(source) \in Nat
           /\ Size \in Nat /\ Size < U32 /\ Size <= Len(source) /\ left_size \in 0 .. Size
<1>1. source \in Contents /\ source \in Seq(Nat) /\ left_size \in 0 .. Size
  BY PushAssumption DEF TypeInv, TypeOK, Size
<1> QED BY <1>1, SizeFacts DEF Size

LEMMA QueueFacts ==
    ASSUME PushInv
    PROVE  /\ inbox \in Seq(Req) /\ Len(inbox) \in Nat /\ session \in Nat /\ session <= MaxSession
           /\ MaxSession \in Nat /\ outcome \in [1 .. MaxSession -> Outcomes]
           /\ \A i \in 1 .. Len(inbox) :
                 /\ inbox[i] \in Req /\ inbox[i].sess \in Nat /\ inbox[i].sess \in 1 .. MaxSession
                 /\ inbox[i].sess <= session
                 /\ inbox[i].chan \in Chans /\ inbox[i].data \in Data
<1>1. inbox \in Seq(Req) /\ session \in Nat /\ session <= MaxSession /\ MaxSession \in Nat
      /\ outcome \in [1 .. MaxSession -> Outcomes]
  BY PushAssumption DEF PushInv, TypeInv, TypeOK, Outcomes
<1>2. \A i \in 1 .. Len(inbox) : inbox[i] \in Req /\ inbox[i].sess <= session
  BY <1>1 DEF PushInv, OrderInv
<1> QED BY <1>1, <1>2 DEF Req

(* Once the current client's INIT was accepted, only its pieces and its FINI *)
(* are queued.                                                               *)
LEMMA StartedFacts ==
    ASSUME PushInv, Started
    PROVE  \A i \in 1 .. Len(inbox) : Owned(i) /\ ~IsInit(i)
<1>1. session \in 1 .. MaxSession /\ outcome[session] = "ok"
  BY QueueFacts DEF Started
<1>2. ASSUME NEW i \in 1 .. Len(inbox) PROVE Owned(i)
  BY <1>1, QueueFacts DEF PushInv, OrderInv, Handled, Owned
<1>3. ASSUME NEW i \in 1 .. Len(inbox) PROVE ~IsInit(i)
  BY <1>1, <1>2 DEF PushInv, OrderInv, Owned
<1> QED BY <1>2, <1>3

(* The INIT of the client at the head of the queue was handled or lost,      *)
(* unless it is the head itself.                                             *)
LEMMA HeadFacts ==
    ASSUME PushInv, inbox # << >>, ~IsInit(1)
    PROVE  outcome[inbox[1].sess] # "none"
<1>1. 1 \in 1 .. Len(inbox)
  BY QueueFacts
<1>2. SUFFICES ASSUME outcome[inbox[1].sess] = "none" PROVE FALSE
  OBVIOUS
<1>3. PICK i \in 1 .. Len(inbox) : IsInit(i) /\ inbox[i].sess = inbox[1].sess
  BY <1>1, <1>2, QueueFacts DEF PushInv, OrderInv
<1>4. 1 < i
  BY <1>3, QueueFacts
<1> QED BY <1>1, <1>3, <1>4 DEF PushInv, OrderInv

(* A request is queued behind all others. *)
LEMMA RequestFacts ==
    ASSUME PushInv, NEW s \in 1 .. MaxSession, NEW d \in Data, NEW chan \in Chans,
           inbox' = Request(s, chan, d)
    PROVE  /\ inbox' \in Seq(Req) /\ inbox' # << >> /\ Len(inbox') = Len(inbox) + 1
           /\ Len(inbox) \in Nat
           /\ \A i \in 1 .. Len(inbox) : i \in 1 .. Len(inbox') /\ inbox'[i] = inbox[i]
           /\ inbox'[Len(inbox')] = [sess |-> s, chan |-> chan, data |-> d]
           /\ \A i \in 1 .. Len(inbox') : i \in 1 .. Len(inbox) \/ i = Len(inbox')
<1> DEFINE r == [sess |-> s, chan |-> chan, data |-> d]
<1>1. r \in Req /\ inbox \in Seq(Req) /\ inbox' = Append(inbox, r)
  BY DEF PushInv, TypeInv, Req, Request
<1> HIDE DEF r
<1>2. /\ inbox' \in Seq(Req) /\ inbox' # << >> /\ Len(inbox') = Len(inbox) + 1
      /\ Len(inbox) \in Nat
      /\ \A i \in 1 .. Len(inbox) : inbox'[i] = inbox[i]
      /\ inbox'[Len(inbox')] = r
  BY <1>1, AppendFacts
<1> QED BY <1>2 DEF r

(* The request at the head of the queue is taken. *)
LEMMA PopFacts ==
    ASSUME PushInv, inbox # << >>, inbox' = Tail(inbox), session' = session
    PROVE  /\ inbox' \in Seq(Req) /\ Len(inbox') = Len(inbox) - 1 /\ Len(inbox) \in Nat \ {0}
           /\ Len(inbox') \in Nat
           /\ 1 \in 1 .. Len(inbox)
           /\ Head(inbox) = inbox[1] /\ inbox[1] \in Req
           /\ \A i \in 1 .. Len(inbox') :
                 /\ i + 1 \in 1 .. Len(inbox) /\ i + 1 # 1 /\ 1 < i + 1 /\ inbox'[i] = inbox[i + 1]
                 /\ Owned(i)' = Owned(i + 1) /\ IsInit(i)' = IsInit(i + 1) /\ IsFini(i)' = IsFini(i + 1)
<1>1. /\ inbox \in Seq(Req) /\ inbox' \in Seq(Req) /\ Len(inbox') = Len(inbox) - 1
      /\ Len(inbox) \in Nat \ {0} /\ Head(inbox) = inbox[1] /\ inbox[1] \in Req
      /\ \A i \in 1 .. Len(inbox) - 1 : inbox'[i] = inbox[i + 1]
  BY QueueFacts, TailFacts
<1>2. \A i \in 1 .. Len(inbox') : /\ i + 1 \in 1 .. Len(inbox) /\ inbox'[i] = inbox[i + 1]
                                   /\ i + 1 # 1 /\ 1 < i + 1
  BY <1>1
<1> QED BY <1>1, <1>2 DEF Owned, IsInit, IsFini

(* An answer reaches the current client's socket only. *)
LEMMA SendFacts ==
    ASSUME TypeInv, NEW s, NEW resp \in Reply, SendTo(s, resp)
    PROVE  /\ mail' \in Seq(Reply)
           /\ (s = session /\ Running /\ mail = << >>) => Len(mail') = 1
           /\ ~(s = session /\ Running) => mail' = mail
<1>1. mail \in Seq(Reply)
  BY DEF TypeInv
<1> QED BY <1>1, AppendFacts DEF SendTo

-----------------------------------------------------------------------------
(* The server takes a request from the queue.                                *)

(* What every handler does to the queue and to the history: an INIT gets the *)
(* outcome h, which is one of a handled INIT.                                *)
Served(h) ==
    /\ inbox # << >> /\ inbox' = Tail(inbox) /\ UNCHANGED <<clientVars, lost, late, kept, udb_auth_ok>>
    /\ outcome' = IF IsInit(1) THEN [outcome EXCEPT ![inbox[1].sess] = h] ELSE outcome
    /\ mail' \in Seq(Reply)
    /\ Owned(1) /\ Running /\ mail = << >> => mail' = mail \/ Len(mail') = 1
    /\ ~(Owned(1) /\ Running) => mail' = mail

LEMMA ServedFacts ==
    ASSUME PushInv, NEW h \in Handled, Served(h)
    PROVE  /\ UNCHANGED <<session, cpc, source, left_size, so_rcvtimeo, lost, late, kept, udb_auth_ok>>
           /\ Running' = Running /\ Whole' = Whole /\ Size' = Size /\ Sent' = Sent
           /\ inbox[1].sess \in 1 .. session /\ session \in 1 .. MaxSession /\ session \in Nat
           /\ outcome' \in [1 .. MaxSession -> Outcomes]
           /\ \A s \in 1 .. MaxSession :
                 outcome'[s] = IF IsInit(1) /\ s = inbox[1].sess THEN h ELSE outcome[s]
<1>1. UNCHANGED <<session, cpc, source, left_size, so_rcvtimeo, lost, late, kept, udb_auth_ok>>
      /\ inbox # << >>
  BY DEF Served, clientVars
<1>2. Running' = Running /\ Whole' = Whole /\ Size' = Size /\ Sent' = Sent
  BY <1>1 DEF Running, Whole, Size, FileSize, Sent, PieceSize
<1>3. inbox[1].sess \in 1 .. session /\ session \in 1 .. MaxSession /\ session \in Nat
  <2>1. 1 \in 1 .. Len(inbox)
    BY <1>1, QueueFacts
  <2> QED BY <2>1, QueueFacts
<1>4. outcome \in [1 .. MaxSession -> Outcomes] /\ h \in Outcomes
  BY QueueFacts DEF Handled, Outcomes
<1> QED BY <1>1, <1>2, <1>3, <1>4 DEF Served

LEMMA ServedOrder ==
    ASSUME PushInv, NEW h \in Handled, Served(h)
    PROVE  OrderInv'
<1>1. /\ UNCHANGED <<session, cpc>> /\ inbox[1].sess \in 1 .. session /\ session \in Nat
      /\ \A s \in 1 .. MaxSession :
            outcome'[s] = IF IsInit(1) /\ s = inbox[1].sess THEN h ELSE outcome[s]
  BY ServedFacts
<1>2. /\ Len(inbox) \in Nat \ {0} /\ 1 \in 1 .. Len(inbox) /\ Len(inbox') = Len(inbox) - 1
      /\ Len(inbox') \in Nat
      /\ \A i \in 1 .. Len(inbox') :
            /\ i + 1 \in 1 .. Len(inbox) /\ 1 < i + 1 /\ inbox'[i] = inbox[i + 1]
            /\ Owned(i)' = Owned(i + 1) /\ IsInit(i)' = IsInit(i + 1) /\ IsFini(i)' = IsFini(i + 1)
  BY <1>1, PopFacts DEF Served
<1>3. ASSUME NEW i \in 1 .. Len(inbox')
      PROVE  /\ inbox'[i].sess <= session'
             /\ IsInit(i)' => outcome'[inbox'[i].sess] = "none"
             /\ Owned(i)' /\ IsFini(i)' => cpc' \in {"fini", "done", "killed"}
  <2>1. /\ i + 1 \in 1 .. Len(inbox) /\ 1 < i + 1 /\ inbox'[i] = inbox[i + 1]
        /\ Owned(i)' = Owned(i + 1) /\ IsInit(i)' = IsInit(i + 1) /\ IsFini(i)' = IsFini(i + 1)
    BY <1>2
  <2>2. /\ inbox[i + 1].sess <= session /\ inbox[i + 1].sess \in 1 .. MaxSession
        /\ IsInit(i + 1) => outcome[inbox[i + 1].sess] = "none" /\ inbox[1].sess # inbox[i + 1].sess
        /\ Owned(i + 1) /\ IsFini(i + 1) => cpc \in {"fini", "done", "killed"}
    <3>1. PICK k \in 1 .. Len(inbox) : k = i + 1 /\ 1 < k
      BY <2>1
    <3>2. 1 \in 1 .. Len(inbox)
      BY <3>1, QueueFacts
    <3>3. /\ inbox[k].sess <= session
          /\ IsInit(k) => outcome[inbox[k].sess] = "none"
          /\ Owned(k) /\ IsFini(k) => cpc \in {"fini", "done", "killed"}
      BY DEF PushInv, OrderInv
    <3>4. inbox[1].sess = inbox[k].sess => ~IsInit(k)
      BY <3>1, <3>2 DEF PushInv, OrderInv
    <3>5. inbox[k].sess \in 1 .. MaxSession
      BY QueueFacts
    <3> QED BY <3>1, <3>3, <3>4, <3>5
  <2> QED BY <2>1, <2>2, <1>1
<1>4. ASSUME NEW i \in 1 .. Len(inbox'), NEW j \in 1 .. Len(inbox'), i < j
      PROVE  /\ inbox'[i].sess <= inbox'[j].sess
             /\ inbox'[i].sess = inbox'[j].sess => ~IsInit(j)' /\ ~IsFini(i)'
  <2>1. i + 1 \in 1 .. Len(inbox) /\ j + 1 \in 1 .. Len(inbox) /\ i + 1 < j + 1
    BY <1>2, <1>4
  <2>2. PICK k \in 1 .. Len(inbox), l \in 1 .. Len(inbox) : k = i + 1 /\ l = j + 1 /\ k < l
    BY <2>1
  <2>3. inbox[k].sess <= inbox[l].sess /\ (inbox[k].sess = inbox[l].sess => ~IsInit(l) /\ ~IsFini(k))
    BY <2>2 DEF PushInv, OrderInv
  <2>4. /\ inbox'[i] = inbox[k] /\ inbox'[j] = inbox[l] /\ IsInit(j)' = IsInit(l)
        /\ IsFini(i)' = IsFini(k)
    BY <1>2, <2>2
  <2> QED BY <2>3, <2>4
<1>5. ASSUME NEW s \in 1 .. MaxSession
      PROVE  /\ s > session' => outcome'[s] = "none"
             /\ s <= session' /\ outcome'[s] = "none" =>
                   \E i \in 1 .. Len(inbox') : IsInit(i)' /\ inbox'[i].sess = s
             /\ outcome'[s] \in Handled => \A i \in 1 .. Len(inbox') : s <= inbox'[i].sess
  <2>1. s > session => outcome'[s] = "none"
    BY <1>1 DEF PushInv, OrderInv
  <2>2. ASSUME s <= session, outcome'[s] = "none"
        PROVE  \E i \in 1 .. Len(inbox') : IsInit(i)' /\ inbox'[i].sess = s
    <3>1. outcome[s] = "none" /\ ~(IsInit(1) /\ s = inbox[1].sess)
      BY <2>2, <1>1 DEF Handled
    <3>2. PICK k \in 1 .. Len(inbox) : IsInit(k) /\ inbox[k].sess = s
      BY <3>1, <2>2 DEF PushInv, OrderInv
    <3>3. k # 1
      BY <3>1, <3>2
    <3>4. k - 1 \in 1 .. Len(inbox') /\ (k - 1) + 1 = k
      BY <3>3, <1>2
    <3> QED BY <3>2, <3>4, <1>2
  <2>3. ASSUME outcome'[s] \in Handled, NEW i \in 1 .. Len(inbox') PROVE s <= inbox'[i].sess
    <3>1. i + 1 \in 1 .. Len(inbox) /\ 1 < i + 1 /\ inbox'[i] = inbox[i + 1]
      BY <1>2
    <3>2. CASE s = inbox[1].sess
      BY <3>1, <3>2, <1>2 DEF PushInv, OrderInv
    <3>3. CASE s # inbox[1].sess
      <4>1. outcome[s] \in Handled
        BY <3>3, <2>3, <1>1
      <4> QED BY <4>1, <3>1 DEF PushInv, OrderInv
    <3> QED BY <3>2, <3>3
  <2> QED BY <2>1, <2>2, <2>3, <1>1
<1> QED BY <1>3, <1>4, <1>5 DEF OrderInv

LEMMA ServedStep ==
    ASSUME PushInv, NEW h \in Handled, Served(h)
    PROVE  StepInv'
<1> SUFFICES ASSUME ~late PROVE StepInv'
  BY ServedFacts DEF StepInv
<1>1. /\ UNCHANGED <<session, cpc, late>> /\ Running' = Running /\ Whole' = Whole
      /\ inbox[1].sess \in 1 .. session /\ session \in 1 .. MaxSession
      /\ \A s \in 1 .. MaxSession :
            outcome'[s] = IF IsInit(1) /\ s = inbox[1].sess THEN h ELSE outcome[s]
  BY ServedFacts
<1>2. /\ Len(inbox) \in Nat \ {0} /\ 1 \in 1 .. Len(inbox) /\ Len(inbox') = Len(inbox) - 1
      /\ inbox' \in Seq(Req) /\ inbox # << >>
      /\ \A i \in 1 .. Len(inbox') :
            /\ i + 1 \in 1 .. Len(inbox) /\ 1 < i + 1
            /\ Owned(i)' = Owned(i + 1) /\ IsInit(i)' = IsInit(i + 1)
  BY <1>1, PopFacts DEF Served
<1>3. cpc # "done"
  BY <1>2 DEF PushInv, StepInv
<1>4. Running => mail = << >>
  BY <1>2 DEF PushInv, StepInv
<1>5. outcome[session] \in Handled => outcome'[session] \in Handled
  BY <1>1
<1>6. CASE Owned(1) /\ Running
  <2>1. /\ 1 = Len(inbox) /\ Whole /\ (cpc = "init" => IsInit(1))
        /\ cpc \in {"proc", "fini"} => outcome[session] \in Handled
    BY <1>6, <1>2 DEF PushInv, StepInv
  <2>2. inbox' = << >> /\ Len(inbox') = 0
    BY <2>1, <1>2
  <2>3. mail' # << >> => Len(mail') = 1
    BY <1>4, <1>6 DEF Served
  <2>4. outcome'[session] \in Handled
    <3>1. CASE cpc = "init"
      <4>1. outcome'[session] = h
        BY <3>1, <2>1, <1>1, <1>6 DEF Owned
      <4> QED BY <4>1
    <3>2. CASE cpc # "init"
      <4>1. cpc \in {"proc", "fini"}
        BY <3>2, <1>6 DEF Running
      <4> QED BY <4>1, <2>1, <1>5
    <3> QED BY <3>1, <3>2
  <2> QED BY <2>1, <2>2, <2>3, <2>4, <1>1, <1>3 DEF StepInv
<1>7. CASE ~(Owned(1) /\ Running)
  <2>1. mail' = mail
    BY <1>7 DEF Served
  <2>2. ASSUME Running, NEW i \in 1 .. Len(inbox'), Owned(i)'
        PROVE  i = Len(inbox') /\ mail' = << >> /\ Whole /\ (cpc = "init" => IsInit(i)')
    <3>1. i + 1 \in 1 .. Len(inbox) /\ Owned(i + 1) /\ IsInit(i)' = IsInit(i + 1)
      BY <2>2, <1>2
    <3>2. i + 1 = Len(inbox) /\ mail = << >> /\ Whole /\ (cpc = "init" => IsInit(i + 1))
      BY <2>2, <3>1 DEF PushInv, StepInv
    <3> QED BY <3>1, <3>2, <2>1, <1>2
  <2>3. Running => mail' = << >>
    BY <2>1, <1>4
  <2>4. cpc \in {"proc", "fini"} => outcome'[session] \in Handled
    BY <1>5 DEF PushInv, StepInv
  <2> QED BY <2>2, <2>3, <2>4, <1>1, <1>3 DEF StepInv
<1> QED BY <1>6, <1>7

(* The pieces behind the served request still follow one another. *)
LEMMA ServedChain ==
    ASSUME PushInv, NEW h \in Handled, Served(h),
           IsInit(1) /\ Owned(1) /\ h = "ok" => stream' = << >>,
           Started /\ kept = Unfixed /\ inbox[1].chan = "PUSH_FILE_PROC" =>
               Len(stream') = Len(stream) + Len(inbox[1].data),
           Started /\ kept = Unfixed /\ IsFini(1) => stream' = stream
    PROVE  ChainInv'
<1> SUFFICES ASSUME Alive', kept = Unfixed
             PROVE  \E q \in [1 .. Len(inbox') + 1 -> Nat] : Chain(q)'
  BY ServedFacts DEF ChainInv
<1>1. /\ UNCHANGED <<session, cpc, source, left_size>> /\ Whole' = Whole /\ Size' = Size /\ Sent' = Sent
      /\ inbox[1].sess \in 1 .. session /\ session \in 1 .. MaxSession
      /\ \A s \in 1 .. MaxSession :
            outcome'[s] = IF IsInit(1) /\ s = inbox[1].sess THEN h ELSE outcome[s]
  BY ServedFacts
<1>2. /\ Len(inbox) \in Nat \ {0} /\ 1 \in 1 .. Len(inbox) /\ Len(inbox') = Len(inbox) - 1
      /\ Len(inbox') \in Nat /\ inbox # << >> /\ inbox[1].chan \in Chans
      /\ \A i \in 1 .. Len(inbox') :
            /\ i + 1 \in 1 .. Len(inbox) /\ inbox'[i] = inbox[i + 1]
            /\ Owned(i)' = Owned(i + 1) /\ IsInit(i)' = IsInit(i + 1) /\ IsFini(i)' = IsFini(i + 1)
  BY <1>1, PopFacts, QueueFacts DEF Served
<1>3. Alive
  <2>1. outcome'[session] \in {"none", "ok"}
    BY <1>1 DEF Alive
  <2>2. IsInit(1) => outcome[inbox[1].sess] = "none"
    BY <1>2 DEF PushInv, OrderInv
  <2> QED BY <2>1, <2>2, <1>1 DEF Alive
<1>4. PICK p \in [1 .. Len(inbox) + 1 -> Nat] : Chain(p)
  BY <1>3 DEF PushInv, ChainInv
<1>5. p[1] = Base /\ Link(p, 1) /\ (Whole /\ cpc # "killed" => p[Len(inbox) + 1] = Sent)
      /\ p[1] \in Nat /\ p[2] \in Nat
  BY <1>2, <1>4 DEF Chain
<1>6. Base' = p[2]
  <2>1. CASE ~Owned(1)
    <3>1. ~Started
      BY <2>1, <1>2, StartedFacts
    <3>2. ~Started'
      BY <3>1, <2>1, <1>1 DEF Started, Owned
    <3>3. p[1] = 0 /\ p[2] = p[1]
      BY <2>1, <3>1, <1>5 DEF Base, Link
    <3> QED BY <3>2, <3>3 DEF Base
  <2>2. CASE Owned(1) /\ IsInit(1)
    <3>1. ~Started
      BY <2>2, <1>2, StartedFacts
    <3>2. outcome'[session] = h
      BY <2>2, <1>1 DEF Owned
    <3>3. h = "ok"
      BY <3>2, <1>1 DEF Alive, Handled
    <3>4. stream' = << >> /\ p[1] = 0 /\ p[2] = p[1]
      BY <2>2, <3>1, <3>3, <1>5 DEF Base, Link
    <3> QED BY <3>4 DEF Base
  <2>3. CASE Owned(1) /\ ~IsInit(1)
    <3>1. outcome[session] = "ok" /\ Started
      BY <2>3, <1>1, <1>2, <1>3, HeadFacts DEF Alive, Started, Owned
    <3>2. Started' /\ p[1] = Len(stream)
      BY <3>1, <2>3, <1>1, <1>5 DEF Started, Base
    <3>3. CASE inbox[1].chan = "PUSH_FILE_PROC"
      <4>1. /\ p[1] <= p[2] /\ p[2] <= Size /\ inbox[1].data = SubSeq(source, p[1] + 1, p[2])
        BY <2>3, <3>3, <1>5 DEF Link
      <4>2. Size <= Len(source) /\ source \in Seq(Nat) /\ Size \in Nat /\ Len(source) \in Nat
        BY <3>1, SourceFacts DEF PushInv, Started
      <4>3. Len(inbox[1].data) = p[2] - (p[1] + 1) + 1
        <5>1. p[1] + 1 \in Nat /\ 1 <= p[1] + 1 /\ p[2] <= Len(source) /\ p[1] + 1 <= p[2] + 1
          BY <4>1, <4>2, <1>5
        <5> QED BY <5>1, <4>1, <4>2, <1>5, SliceFacts
      <4> QED BY <3>1, <3>2, <3>3, <4>1, <4>3, <1>5 DEF Base
    <3>4. CASE IsFini(1)
      <4>1. p[1] = Size /\ p[2] = Size /\ stream' = stream
        BY <2>3, <3>1, <3>4, <1>5 DEF Link
      <4> QED BY <3>2, <4>1 DEF Base
    <3> QED BY <3>3, <3>4, <2>3, <1>2 DEF Chans, IsInit, IsFini
  <2> QED BY <2>1, <2>2, <2>3
<1>7. PICK q \in [1 .. Len(inbox') + 1 -> Nat] : \A i \in 1 .. Len(inbox') + 1 : q[i] = p[i + 1]
  <2>1. \A i \in 1 .. Len(inbox') + 1 : i + 1 \in 1 .. Len(inbox) + 1
    BY <1>2
  <2>2. [i \in 1 .. Len(inbox') + 1 |-> p[i + 1]] \in [1 .. Len(inbox') + 1 -> Nat]
    BY <2>1, <1>4
  <2> QED BY <2>2
<1>8. q[1] = p[2] /\ q[Len(inbox') + 1] = p[Len(inbox) + 1]
  BY <1>2, <1>7
<1>9. ASSUME NEW i \in 1 .. Len(inbox') PROVE Link(q, i)'
  <2>1. q[i] = p[i + 1] /\ q[i + 1] = p[(i + 1) + 1] /\ i + 1 \in 1 .. Len(inbox)
    BY <1>2, <1>7
  <2>2. Link(p, i + 1)
    BY <2>1, <1>4 DEF Chain
  <2>3. /\ inbox'[i] = inbox[i + 1] /\ Owned(i)' = Owned(i + 1)
        /\ IsInit(i)' = IsInit(i + 1) /\ IsFini(i)' = IsFini(i + 1)
    BY <1>2
  <2> QED BY <2>1, <2>2, <2>3, <1>1 DEF Link
<1>10. Chain(q)'
  BY <1>1, <1>5, <1>6, <1>8, <1>9 DEF Chain
<1> QED BY <1>7, <1>10

(* The server's file while a request is served: an accepted INIT opens it,   *)
(* a FINI may close it, and nothing else does either.                        *)
LEMMA ServedFp ==
    ASSUME PushInv, NEW h \in Handled, Served(h),
           IsInit(1) /\ h = "ok" => fp' = "open",
           ~IsInit(1) /\ ~IsFini(1) => fp' = fp
    PROVE  FpInv'
<1>1. /\ UNCHANGED <<session, cpc>> /\ inbox[1].sess \in 1 .. session /\ session \in 1 .. MaxSession
      /\ session \in Nat
      /\ \A s \in 1 .. MaxSession :
            outcome'[s] = IF IsInit(1) /\ s = inbox[1].sess THEN h ELSE outcome[s]
  BY ServedFacts
<1>2. /\ Len(inbox) \in Nat \ {0} /\ 1 \in 1 .. Len(inbox)
      /\ \A i \in 1 .. Len(inbox') :
            /\ i + 1 \in 1 .. Len(inbox) /\ 1 < i + 1 /\ inbox'[i] = inbox[i + 1]
            /\ IsInit(i)' = IsInit(i + 1)
  BY <1>1, PopFacts DEF Served
<1>3. ASSUME NEW i \in 1 .. Len(inbox'), ~IsInit(i)', outcome'[inbox'[i].sess] = "ok"
      PROVE  fp' = "open"
  <2>1. /\ i + 1 \in 1 .. Len(inbox) /\ 1 < i + 1 /\ inbox'[i] = inbox[i + 1] /\ ~IsInit(i + 1)
        /\ inbox[i + 1].sess \in 1 .. MaxSession /\ inbox[i + 1].sess \in Nat /\ inbox[1].sess \in Nat
    BY <1>2, <1>3, QueueFacts
  <2>2. /\ inbox[1].sess <= inbox[i + 1].sess
        /\ inbox[1].sess = inbox[i + 1].sess => ~IsFini(1)
    BY <2>1, <1>2 DEF PushInv, OrderInv
  <2>3. CASE IsInit(1) /\ inbox[1].sess = inbox[i + 1].sess
    BY <2>1, <2>3, <1>1, <1>3
  <2>4. CASE ~(IsInit(1) /\ inbox[1].sess = inbox[i + 1].sess)
    <3>1. outcome[inbox[i + 1].sess] = "ok"
      BY <2>1, <2>4, <1>1, <1>3
    <3>2. inbox[i + 1].sess <= inbox[1].sess
      BY <2>1, <3>1, <1>2 DEF PushInv, OrderInv, Handled
    <3>3. fp = "open"
      BY <2>1, <3>1 DEF PushInv, FpInv
    <3>4. ~IsInit(1) /\ ~IsFini(1)
      BY <2>1, <2>2, <2>4, <3>2
    <3> QED BY <3>3, <3>4
  <2> QED BY <2>3, <2>4
<1>4. ASSUME Started', cpc \in {"init", "proc"} PROVE fp' = "open"
  <2>1. outcome'[session] = "ok" /\ session # 0
    BY <1>1, <1>4 DEF Started
  <2>2. CASE Started
    <3>1. Owned(1) /\ ~IsInit(1) /\ fp = "open"
      BY <2>2, <1>2, <1>4, StartedFacts DEF PushInv, FpInv
    <3>2. ~IsFini(1)
      BY <3>1, <1>2, <1>4 DEF PushInv, OrderInv
    <3> QED BY <3>1, <3>2
  <2>3. CASE ~Started
    <3>1. outcome[session] # "ok"
      BY <2>1, <2>3 DEF Started
    <3>2. IsInit(1) /\ h = "ok"
      BY <2>1, <3>1, <1>1
    <3> QED BY <3>2
  <2> QED BY <2>2, <2>3
<1> QED BY <1>1, <1>3, <1>4 DEF FpInv

LEMMA AliveFacts ==
    ASSUME PushInv, NEW h \in Handled, Served(h)
    PROVE  /\ Alive' => Alive
           /\ Started => Started'
           /\ Started' => Started \/ (IsInit(1) /\ Owned(1) /\ h = "ok")
           /\ Alive /\ Owned(1) /\ ~IsInit(1) => Started
           /\ Alive /\ ~Owned(1) => ~Started
<1>1. /\ UNCHANGED session /\ inbox[1].sess \in 1 .. session /\ session \in 1 .. MaxSession
      /\ \A s \in 1 .. MaxSession :
            outcome'[s] = IF IsInit(1) /\ s = inbox[1].sess THEN h ELSE outcome[s]
  BY ServedFacts
<1>2. inbox # << >> /\ 1 \in 1 .. Len(inbox)
  BY QueueFacts DEF Served
<1>3. IsInit(1) => outcome[inbox[1].sess] = "none"
  BY <1>2 DEF PushInv, OrderInv
<1>4. Alive' => Alive
  BY <1>1, <1>3 DEF Alive
<1>5. Started => Owned(1) /\ ~IsInit(1)
  BY <1>2, StartedFacts
<1>6. Started => Started'
  BY <1>1, <1>5 DEF Started
<1>7. Started' => Started \/ (IsInit(1) /\ Owned(1) /\ h = "ok")
  BY <1>1 DEF Started, Owned
<1>8. Alive /\ Owned(1) /\ ~IsInit(1) => Started
  BY <1>2, HeadFacts DEF Alive, Started, Owned
<1> QED BY <1>4, <1>5, <1>6, <1>7, <1>8

LEMMA ServedArrive ==
    ASSUME PushInv, NEW h \in Handled, Served(h),
           Started /\ Whole /\ IsFini(1) => fp' = "null" /\ disk' = stream /\ stream' = stream
    PROVE  ArriveInv'
<1>1. /\ UNCHANGED <<session, cpc, source>> /\ Whole' = Whole /\ Size' = Size
      /\ inbox[1].sess \in 1 .. session
  BY ServedFacts
<1>2. /\ Len(inbox) \in Nat \ {0} /\ 1 \in 1 .. Len(inbox) /\ Len(inbox') = Len(inbox) - 1
      /\ Len(inbox') \in Nat /\ inbox' \in Seq(Req) /\ inbox # << >>
      /\ \A i \in 1 .. Len(inbox') : IsFini(i)' = IsFini(i + 1)
  BY <1>1, PopFacts DEF Served
<1> SUFFICES ASSUME Alive', Whole, cpc \in {"fini", "done"}
             PROVE  /\ inbox' = << >> => fp' = "null" /\ disk' = stream' /\ Len(stream') = Size'
                    /\ inbox' # << >> => IsFini(Len(inbox))'
  BY <1>1 DEF ArriveInv
<1>3. Alive /\ IsFini(Len(inbox)) /\ kept = Unfixed
  <2>1. Alive
    BY AliveFacts
  <2> QED BY <2>1, <1>2 DEF PushInv, ArriveInv, KeptInv
<1>4. ASSUME inbox' = << >> PROVE fp' = "null" /\ disk' = stream' /\ Len(stream') = Size'
  <2>1. IsFini(1) /\ ~IsInit(1) /\ Len(inbox) = 1
    <3>1. Len(inbox) = 1
      BY <1>2, <1>4
    <3> QED BY <3>1, <1>3 DEF IsFini, IsInit
  <2>2. Owned(1)
    <3>1. CASE outcome[session] = "none"
      <4>1. PICK k \in 1 .. Len(inbox) : IsInit(k)
        BY <3>1, <1>3, QueueFacts DEF PushInv, OrderInv, Alive
      <4>2. k = 1
        BY <2>1
      <4> QED BY <4>1, <4>2, <2>1
    <3>2. CASE outcome[session] = "ok"
      <4>1. Started
        BY <3>2, <1>3 DEF Started, Alive
      <4> QED BY <4>1, <1>2, StartedFacts
    <3> QED BY <3>1, <3>2, <1>3 DEF Alive
  <2>3. Started
    BY <2>1, <2>2, <1>3, AliveFacts
  <2>4. PICK p \in [1 .. Len(inbox) + 1 -> Nat] : Chain(p)
    BY <1>3 DEF PushInv, ChainInv
  <2>5. Len(stream) = Size
    <3>1. p[1] = Base /\ Link(p, 1)
      BY <2>4, <1>2 DEF Chain
    <3> QED BY <3>1, <2>1, <2>2, <2>3 DEF Base, Link
  <2> QED BY <2>1, <2>3, <2>5, <1>1
<1>5. ASSUME inbox' # << >> PROVE IsFini(Len(inbox))'
  <2>1. PICK n \in 1 .. Len(inbox') : n = Len(inbox') /\ n + 1 = Len(inbox)
    BY <1>2, <1>5
  <2>2. IsFini(n)' = IsFini(n + 1)
    BY <2>1, <1>2
  <2> QED BY <2>1, <2>2, <1>3 DEF IsFini
<1> QED BY <1>4, <1>5

LEMMA ServedTypes ==
    ASSUME PushInv, NEW h \in Handled, Served(h),
           fp' \in {"null", "open"}, stream' \in Seq(Nat), disk' \in Seq(Nat), up' \in BOOLEAN
    PROVE  TypeInv'
<1>1. /\ UNCHANGED <<session, cpc, source, left_size, so_rcvtimeo, lost, late, kept, udb_auth_ok>>
      /\ outcome' \in [1 .. MaxSession -> Outcomes]
  BY ServedFacts
<1>2. inbox' \in Seq(Req)
  BY <1>1, PopFacts DEF Served
<1>3. \A i \in 1 .. Len(inbox') : Len(inbox'[i].data) <= MaxPkg
  <2> TAKE i \in 1 .. Len(inbox')
  <2>1. inbox'[i] \in Req
    BY <1>2
  <2> QED BY <2>1 DEF Req, Data
<1>4. mail' \in Seq(Reply)
  BY DEF Served
<1>5. FileSize(source)' = FileSize(source)
  BY <1>1 DEF FileSize
<1>6. TypeOK'
  BY <1>1, <1>3, <1>5 DEF PushInv, TypeInv, TypeOK, Outcomes
<1> QED BY <1>1, <1>2, <1>4, <1>5, <1>6 DEF PushInv, TypeInv

(* A handler keeps the invariant if it treats the file as the request says. *)
LEMMA ServedInv ==
    ASSUME PushInv, NEW h \in Handled, Served(h),
           fp' \in {"null", "open"}, stream' \in Seq(Nat), disk' \in Seq(Nat), up' \in BOOLEAN,
           IsInit(1) /\ h = "ok" =>
               udb_auth_ok /\ fp' = "open" /\ stream' = << >> /\ disk' = << >>,
           ~IsInit(1) /\ ~IsFini(1) => fp' = fp,
           Started /\ kept = Unfixed /\ inbox[1].chan = "PUSH_FILE_PROC" =>
               Len(stream') = Len(stream) + Len(inbox[1].data),
           Started /\ kept = Unfixed /\ IsFini(1) => stream' = stream,
           Started /\ Whole /\ IsFini(1) => fp' = "null" /\ disk' = stream /\ stream' = stream,
           Started /\ kept = Unfixed => StreamInv'
    PROVE  PushInv'
<1>1. TypeInv' /\ OrderInv' /\ StepInv'
  BY ServedTypes, ServedOrder, ServedStep
<1>2. FpInv' /\ ChainInv' /\ ArriveInv'
  BY ServedFp, ServedChain, ServedArrive
<1>3. UNCHANGED <<kept, lost, udb_auth_ok, source>> /\ Whole' = Whole /\ Size' = Size
  BY ServedFacts
<1>4. KeptInv'
  BY <1>3, AliveFacts DEF PushInv, KeptInv
<1>5. StreamInv'
  <2> SUFFICES ASSUME Started', kept = Unfixed PROVE StreamInv'
    BY <1>3 DEF StreamInv
  <2>1. CASE Started
    BY <2>1
  <2>2. CASE ~Started
    <3>1. IsInit(1) /\ Owned(1) /\ h = "ok"
      BY <2>2, AliveFacts
    <3>2. stream' = << >> /\ disk' = << >>
      BY <3>1
    <3>3. source' \in Seq(Nat) /\ Size' \in Nat
      <4>1. session # 0
        BY ServedFacts DEF Started
      <4> QED BY <4>1, <1>3, SourceFacts DEF PushInv
    <3>4. udb_auth_ok'
      BY <3>1, <1>3
    <3> QED BY <3>2, <3>3, <3>4 DEF StreamInv
  <2> QED BY <2>1, <2>2
<1> QED BY <1>1, <1>2, <1>4, <1>5 DEF PushInv

(* What a handler does besides its work on the file. *)
LEMMA ServedBy ==
    ASSUME PushInv, NEW h \in Handled, inbox # << >>, inbox' = Tail(inbox),
           UNCHANGED <<clientVars, lost, late, kept, udb_auth_ok>>,
           outcome' = IF IsInit(1) THEN [outcome EXCEPT ![inbox[1].sess] = h] ELSE outcome,
           mail' = mail \/ \E resp \in Reply : SendTo(inbox[1].sess, resp)
    PROVE  Served(h)
<1>1. mail \in Seq(Reply) /\ TypeInv
  BY DEF PushInv, TypeInv
<1>2. /\ mail' \in Seq(Reply)
      /\ Owned(1) /\ Running /\ mail = << >> => mail' = mail \/ Len(mail') = 1
      /\ ~(Owned(1) /\ Running) => mail' = mail
  <2>1. CASE mail' = mail
    BY <1>1, <2>1
  <2>2. CASE \E resp \in Reply : SendTo(inbox[1].sess, resp)
    <3>1. PICK resp \in Reply : SendTo(inbox[1].sess, resp)
      BY <2>2
    <3> QED BY <3>1, <1>1, SendFacts DEF Owned
  <2> QED BY <2>1, <2>2
<1> QED BY <1>2 DEF Served

LEMMA RefuseInv == ASSUME PushInv, udb_debug_bridge_refuse PROVE PushInv'
<1>1. /\ inbox # << >> /\ inbox' = Tail(inbox) /\ ~udb_auth_ok
      /\ SendTo(Head(inbox).sess, "")
      /\ UNCHANGED <<udb_auth_ok, serverVars, clientVars, lost, late, kept>>
  BY DEF udb_debug_bridge_refuse
<1>2. UNCHANGED session /\ UNCHANGED <<fp, stream, disk, up>>
  BY <1>1 DEF clientVars, serverVars
<1>3. Head(inbox) = inbox[1] /\ inbox[1] \in Req
  BY <1>1, <1>2, PopFacts
<1>4. Served("refused") /\ "refused" \in Handled
  <2>1. outcome' = IF IsInit(1) THEN [outcome EXCEPT ![inbox[1].sess] = "refused"] ELSE outcome
    BY <1>3 DEF udb_debug_bridge_refuse, IsInit
  <2>2. "refused" \in Handled /\ \E resp \in Reply : SendTo(inbox[1].sess, resp)
    BY <1>1, <1>3 DEF Handled, Reply
  <2> QED BY <2>1, <2>2, <1>1, ServedBy
<1>5. ~(Started /\ kept = Unfixed) /\ ~(Started /\ Whole)
  BY <1>1 DEF PushInv, StreamInv, KeptInv
<1>6. fp' \in {"null", "open"} /\ stream' \in Seq(Nat) /\ disk' \in Seq(Nat) /\ up' \in BOOLEAN
  BY <1>2 DEF PushInv, TypeInv, TypeOK
<1> QED BY <1>2, <1>4, <1>5, <1>6, ServedInv

LEMMA ServeInitInv == ASSUME PushInv, udb_debug_pushfile_init PROVE PushInv'
<1>1. /\ inbox # << >> /\ inbox' = Tail(inbox) /\ udb_auth_ok
      /\ Head(inbox).chan = "PUSH_FILE_INIT"
      /\ UNCHANGED <<udb_auth_ok, up, clientVars, lost, late, kept>>
  BY DEF udb_debug_pushfile_init, Received
<1>2. UNCHANGED session
  BY <1>1 DEF clientVars
<1>3. Head(inbox) = inbox[1] /\ inbox[1] \in Req /\ IsInit(1) /\ ~IsFini(1) /\ 1 \in 1 .. Len(inbox)
      /\ inbox[1].chan = "PUSH_FILE_INIT"
  BY <1>1, <1>2, PopFacts DEF IsInit, IsFini
<1>4. PICK ok \in BOOLEAN :
          /\ fp' = IF ok THEN "open" ELSE "null"
          /\ stream' = << >>
          /\ disk' = CASE ok -> << >> [] ~ok /\ fp = "open" -> stream [] OTHER -> disk
          /\ SendTo(inbox[1].sess, IF ok THEN "INITOK" ELSE "INITNO")
          /\ outcome' = [outcome EXCEPT ![inbox[1].sess] = IF ok THEN "ok" ELSE "no"]
  BY <1>3 DEF udb_debug_pushfile_init
<1>5. PICK h \in Handled : h = (IF ok THEN "ok" ELSE "no") /\ (h = "ok" => ok)
  BY <1>4 DEF Handled
<1>6. Served(h)
  <2>1. \E resp \in Reply : SendTo(inbox[1].sess, resp)
    BY <1>4 DEF Reply
  <2>2. outcome' = IF IsInit(1) THEN [outcome EXCEPT ![inbox[1].sess] = h] ELSE outcome
    BY <1>3, <1>4, <1>5
  <2> QED BY <2>1, <2>2, <1>1, ServedBy
<1>7. ~Started
  BY <1>3, StartedFacts
<1>8. fp' \in {"null", "open"} /\ stream' \in Seq(Nat) /\ disk' \in Seq(Nat) /\ up' \in BOOLEAN
  <2>1. stream \in Seq(Nat) /\ disk \in Seq(Nat) /\ << >> \in Seq(Nat) /\ up \in BOOLEAN
    BY DEF PushInv, TypeInv, TypeOK
  <2> QED BY <2>1, <1>1, <1>4
<1>9. h = "ok" => udb_auth_ok /\ fp' = "open" /\ stream' = << >> /\ disk' = << >>
  BY <1>1, <1>4, <1>5
<1> QED BY <1>3, <1>6, <1>7, <1>8, <1>9, ServedInv

(* The server's file is open for a request of a client whose INIT it         *)
(* accepted.                                                                 *)
LEMMA UseFacts ==
    ASSUME PushInv, inbox # << >>, ~IsInit(1), Started
    PROVE  fp = "open" /\ Owned(1) /\ 1 \in 1 .. Len(inbox)
<1>1. 1 \in 1 .. Len(inbox)
  BY QueueFacts
<1>2. Owned(1) /\ outcome[inbox[1].sess] = "ok"
  BY <1>1, StartedFacts DEF Started, Owned
<1> QED BY <1>1, <1>2 DEF PushInv, FpInv

LEMMA ServeProcInv == ASSUME PushInv, udb_debug_pushfile_proc PROVE PushInv'
<1>1. /\ inbox # << >> /\ inbox' = Tail(inbox) /\ udb_auth_ok
      /\ Head(inbox).chan = "PUSH_FILE_PROC"
      /\ UNCHANGED <<udb_auth_ok, clientVars, histVars>> /\ UNCHANGED <<fp, disk>>
  BY DEF udb_debug_pushfile_proc, Received
<1>2. UNCHANGED <<session, source, outcome, lost, late, kept>>
  BY <1>1 DEF clientVars, histVars
<1>3. /\ Head(inbox) = inbox[1] /\ inbox[1] \in Req /\ ~IsInit(1) /\ ~IsFini(1)
      /\ inbox[1].chan = "PUSH_FILE_PROC" /\ inbox[1].data \in Seq(Nat)
  BY <1>1, <1>2, PopFacts DEF IsInit, IsFini, Req, Data
<1>4. /\ fp = "open" => stream' = stream \o inbox[1].data /\ up' = up
      /\ fp = "null" => stream' = stream /\ (up' = up \/ up' = FALSE)
      /\ mail' = mail \/ SendTo(inbox[1].sess, "PROCOK")
  BY <1>3 DEF udb_debug_pushfile_proc
<1>5. Served("ok") /\ "ok" \in Handled
  <2>1. mail' = mail \/ \E resp \in Reply : SendTo(inbox[1].sess, resp)
    BY <1>4 DEF Reply
  <2>2. "ok" \in Handled
    BY DEF Handled
  <2> QED BY <2>1, <2>2, <1>1, <1>2, <1>3, ServedBy
<1>6. stream \in Seq(Nat) /\ disk \in Seq(Nat) /\ fp \in {"null", "open"} /\ up \in BOOLEAN
  BY DEF PushInv, TypeInv, TypeOK
<1>7. PICK d \in Seq(Nat) : d = inbox[1].data
  BY <1>3
<1>8. stream \o d \in Seq(Nat) /\ Len(stream \o d) = Len(stream) + Len(d)
  BY <1>6, JoinFacts
<1>9. fp' \in {"null", "open"} /\ stream' \in Seq(Nat) /\ disk' \in Seq(Nat) /\ up' \in BOOLEAN
  BY <1>1, <1>4, <1>6, <1>7, <1>8
<1>10. Started => stream' = stream \o d
  BY <1>1, <1>3, <1>4, <1>7, UseFacts
<1>11. Started => Len(stream') = Len(stream) + Len(inbox[1].data)
  BY <1>7, <1>8, <1>10
<1>12. ASSUME Started, kept = Unfixed PROVE StreamInv'
  <2>1. /\ udb_auth_ok /\ Len(disk) <= Len(stream) /\ disk = SubSeq(source, 1, Len(disk))
        /\ stream = SubSeq(source, 1, Len(stream))
    BY <1>12 DEF PushInv, StreamInv
  <2>2. /\ source \in Seq(Nat) /\ Len(source) \in Nat /\ Size \in Nat /\ Size <= Len(source)
    BY <1>12, SourceFacts DEF PushInv, Started
  <2>3. PICK p \in [1 .. Len(inbox) + 1 -> Nat] : Chain(p)
    BY <1>12 DEF PushInv, ChainInv, Alive, Started
  <2>4. p[1] = Len(stream) /\ p[1] \in Nat /\ p[2] \in Nat /\ Link(p, 1) /\ Owned(1)
    <3>1. 1 \in 1 .. Len(inbox) /\ Owned(1) /\ Len(inbox) \in Nat
      BY <1>1, <1>3, <1>12, UseFacts, QueueFacts
    <3>2. p[1] = Len(stream) /\ Link(p, 1)
      BY <3>1, <2>3, <1>12 DEF Chain, Base
    <3>3. 1 \in 1 .. Len(inbox) + 1 /\ 2 \in 1 .. Len(inbox) + 1
      BY <3>1
    <3>4. p[1] \in Nat /\ p[2] \in Nat
      BY <3>3
    <3> QED BY <3>1, <3>2, <3>4
  <2>5. p[1] <= p[2] /\ p[2] <= Size /\ d = SubSeq(source, p[1] + 1, p[2])
    BY <2>4, <1>3, <1>7 DEF Link
  <2>6. PICK m \in Nat, k \in Nat : m = Len(stream) /\ m + k = p[2] /\ p[1] = m
    <3>1. p[2] - p[1] \in Nat /\ p[1] + (p[2] - p[1]) = p[2]
      BY <2>4, <2>5
    <3> QED BY <3>1, <2>4
  <2>7. m + k <= Size /\ m + k <= Len(source) /\ d = SubSeq(source, m + 1, m + k)
    <3>1. m + k <= Size
      BY <2>5, <2>6
    <3>2. m + k <= Len(source)
      BY <3>1, <2>2
    <3>3. d = SubSeq(source, m + 1, m + k)
      BY <2>5, <2>6, Zenon
    <3> QED BY <3>1, <3>2, <3>3
  <2>8. stream' = SubSeq(source, 1, m + k)
    <3>1. SubSeq(source, 1, m) \o SubSeq(source, m + 1, m + k) = SubSeq(source, 1, m + k)
      BY <2>2, <2>7, PrefixGrows
    <3> QED BY <3>1, <2>1, <2>6, <2>7, <1>10, <1>12
  <2>9. Len(stream') = m + k
    <3>1. m + k \in Nat /\ m + k <= m + k
      OBVIOUS
    <3>2. Len(SubSeq(source, 1, m + k)) = m + k
      BY <3>1, <2>2, <2>7, PrefixOfPrefix
    <3> QED BY <3>2, <2>8
  <2>10. Len(disk) <= m + k
    <3>1. Len(disk) \in Nat
      BY <1>6
    <3> QED BY <3>1, <2>1, <2>6
  <2>11. Size' = Size
    BY <1>2 DEF Size, FileSize
  <2> QED BY <1>1, <1>2, <2>1, <2>7, <2>8, <2>9, <2>10, <2>11 DEF StreamInv
<1> QED BY <1>1, <1>3, <1>5, <1>9, <1>11, <1>12, ServedInv

LEMMA ServeFiniInv == ASSUME PushInv, udb_debug_pushfile_fini PROVE PushInv'
<1>1. /\ inbox # << >> /\ inbox' = Tail(inbox) /\ udb_auth_ok
      /\ Head(inbox).chan = "PUSH_FILE_FINI"
      /\ UNCHANGED <<udb_auth_ok, clientVars, histVars>> /\ UNCHANGED stream
  BY DEF udb_debug_pushfile_fini, Received
<1>2. UNCHANGED <<session, source, outcome, lost, late, kept>>
  BY <1>1 DEF clientVars, histVars
<1>3. /\ Head(inbox) = inbox[1] /\ inbox[1] \in Req /\ ~IsInit(1) /\ IsFini(1)
      /\ inbox[1].chan = "PUSH_FILE_FINI"
  BY <1>1, <1>2, PopFacts DEF IsInit, IsFini
<1>4. /\ fp = "open" => fp' = "null" /\ disk' = stream /\ up' = up
      /\ fp = "null" => fp' = fp /\ disk' = disk /\ up' = FALSE
      /\ mail' = mail \/ SendTo(inbox[1].sess, "FINIOK")
  BY <1>3 DEF udb_debug_pushfile_fini
<1>5. Served("ok") /\ "ok" \in Handled
  <2>1. mail' = mail \/ \E resp \in Reply : SendTo(inbox[1].sess, resp)
    BY <1>4 DEF Reply
  <2>2. "ok" \in Handled
    BY DEF Handled
  <2> QED BY <2>1, <2>2, <1>1, <1>2, <1>3, ServedBy
<1>6. stream \in Seq(Nat) /\ disk \in Seq(Nat) /\ fp \in {"null", "open"} /\ up \in BOOLEAN
  BY DEF PushInv, TypeInv, TypeOK
<1>7. fp' \in {"null", "open"} /\ stream' \in Seq(Nat) /\ disk' \in Seq(Nat) /\ up' \in BOOLEAN
  BY <1>1, <1>4, <1>6
<1>8. Started => fp' = "null" /\ disk' = stream
  BY <1>1, <1>3, <1>4, UseFacts
<1>9. ASSUME Started, kept = Unfixed PROVE StreamInv'
  <2>1. udb_auth_ok /\ Len(stream) <= Size /\ stream = SubSeq(source, 1, Len(stream)) /\ Len(stream) \in Nat
    BY <1>6, <1>9 DEF PushInv, StreamInv
  <2>2. Size' = Size
    BY <1>2 DEF Size, FileSize
  <2> QED BY <1>1, <1>2, <1>8, <1>9, <2>1, <2>2 DEF StreamInv
<1> QED BY <1>1, <1>3, <1>5, <1>7, <1>8, <1>9, ServedInv

-----------------------------------------------------------------------------
(* The client goes on.                                                       *)

(* A client that goes on without a time-out has had an answer. *)
LEMMA ReadFacts ==
    ASSUME PushInv, Reads, Running
    PROVE  /\ mail' \in Seq(Reply) /\ late' \in BOOLEAN /\ (late => late')
           /\ ~late' => /\ ~late /\ mail # << >> /\ mail' = << >> /\ Whole /\ inbox = << >>
                        /\ outcome[session] \in Handled
<1>1. mail \in Seq(Reply) /\ late \in BOOLEAN
  BY DEF PushInv, TypeInv, TypeOK
<1>2. CASE mail # << >> /\ mail' = Tail(mail) /\ late' = late
  <2>1. mail' \in Seq(Reply)
    BY <1>1, <1>2
  <2>2. ASSUME ~late
        PROVE  mail' = << >> /\ Whole /\ inbox = << >> /\ outcome[session] \in Handled
    <3>1. Len(mail) = 1 /\ Whole /\ inbox = << >> /\ outcome[session] \in Handled
      BY <1>2, <2>2 DEF PushInv, StepInv
    <3> QED BY <3>1, <1>1, <1>2
  <2> QED BY <2>1, <2>2, <1>1, <1>2
<1>3. CASE so_rcvtimeo /\ mail' = mail /\ late' = TRUE
  BY <1>1, <1>3
<1> QED BY <1>2, <1>3 DEF Reads

(* The history of what the device had when a hole was made. *)
LEMMA CopyTypes ==
    ASSUME PushInv
    PROVE  Copy \in Seq(Nat) /\ (~Started => Copy = << >>)
<1>1. disk \in Seq(Nat) /\ kept \in {Unfixed} \cup Seq(Nat)
  BY DEF PushInv, TypeInv, TypeOK
<1>2. CASE ~Started
  <2>1. Copy = << >>
    BY <1>2 DEF Copy
  <2> QED BY <2>1
<1>3. CASE Started
  BY <1>1, <1>3 DEF Copy
<1> QED BY <1>2, <1>3

(* The next request goes to the end of the queue, for a later place of the   *)
(* file.                                                                     *)
LEMMA AskInv ==
    ASSUME PushInv, Reads, cpc \in {"init", "proc"},
           UNCHANGED <<udb_auth_ok, serverVars, session, source, so_rcvtimeo, outcome, lost>>,
           kept' = IF Whole THEN kept ELSE Copy,
           left_size' \in 0 .. Size, cpc' \in {"proc", "fini"}, NEW d \in Data,
           NEW chan \in {"PUSH_FILE_PROC", "PUSH_FILE_FINI"},
           cpc' = "fini" <=> chan = "PUSH_FILE_FINI",
           inbox' = Request(session, chan, d),
           cpc' = "proc" => d = Piece(left_size'),
           cpc' = "fini" => left_size' = 0,
           Sent = Size - left_size'
    PROVE  PushInv'
<1>1. UNCHANGED <<fp, stream, disk, up>> /\ Running
  BY DEF serverVars, Running
<1>2. session \in 1 .. MaxSession /\ session \in Nat /\ session # 0 /\ source \in Contents
  <2>1. session \in 0 .. MaxSession /\ session # 0 /\ source \in Contents
    BY DEF PushInv, TypeInv, TypeOK
  <2> QED BY <2>1, PushAssumption
<1>3. /\ inbox' \in Seq(Req) /\ Len(inbox') = Len(inbox) + 1 /\ inbox' # << >> /\ Len(inbox) \in Nat
      /\ \A i \in 1 .. Len(inbox) : i \in 1 .. Len(inbox') /\ inbox'[i] = inbox[i]
      /\ inbox'[Len(inbox')] = [sess |-> session, chan |-> chan, data |-> d]
      /\ \A i \in 1 .. Len(inbox') : i \in 1 .. Len(inbox) \/ i = Len(inbox')
  <2>1. chan \in Chans
    BY DEF Chans
  <2> QED BY <2>1, <1>2, RequestFacts
<1>4. Size' = Size /\ FileSize(source)' = FileSize(source) /\ Whole' = Whole /\ Started' = Started
      /\ Alive' = Alive /\ Base' = Base
  BY <1>1 DEF Size, FileSize, Whole, Started, Alive, Base
<1>5. /\ mail' \in Seq(Reply) /\ late' \in BOOLEAN /\ (late => late')
      /\ ~late' => ~late /\ mail' = << >> /\ Whole /\ inbox = << >> /\ outcome[session] \in Handled
  BY <1>1, ReadFacts
<1>6. TypeInv'
  <2>1. \A i \in 1 .. Len(inbox') : Len(inbox'[i].data) <= MaxPkg
    <3> TAKE i \in 1 .. Len(inbox')
    <3>1. inbox'[i] \in Req
      BY <1>3
    <3> QED BY <3>1 DEF Req, Data
  <2>2. left_size' \in 0 .. FileSize(source)'
    BY <1>4 DEF Size
  <2>3. kept' \in {Unfixed} \cup Seq(Nat)
    BY CopyTypes DEF PushInv, TypeInv, TypeOK
  <2>4. TypeOK'
    BY <1>1, <1>5, <2>1, <2>2, <2>3 DEF PushInv, TypeInv, TypeOK
  <2> QED BY <1>2, <1>3, <1>5, <2>4 DEF PushInv, TypeInv
<1>7. /\ \A i \in 1 .. Len(inbox) : Owned(i)' = Owned(i) /\ IsInit(i)' = IsInit(i) /\ IsFini(i)' = IsFini(i)
      /\ inbox'[Len(inbox')].sess = session /\ inbox'[Len(inbox')].chan = chan
      /\ inbox'[Len(inbox')].data = d
  BY <1>3 DEF Owned, IsInit, IsFini
<1>8. PICK n \in Nat : n = Len(inbox') /\ n = Len(inbox) + 1 /\ n \in 1 .. Len(inbox') /\ n \notin 1 .. Len(inbox)
  BY <1>3
<1>9. Owned(n)' /\ ~IsInit(n)' /\ (IsFini(n)' <=> cpc' = "fini") /\ inbox'[n].sess = session
  BY <1>7, <1>8 DEF Owned, IsInit, IsFini
<1>10. OrderInv'
  <2>1. ASSUME NEW i \in 1 .. Len(inbox')
        PROVE  /\ inbox'[i].sess <= session'
               /\ IsInit(i)' => outcome'[inbox'[i].sess] = "none"
               /\ Owned(i)' /\ IsFini(i)' => cpc' \in {"fini", "done", "killed"}
    <3>1. CASE i = n
      BY <3>1, <1>2, <1>9
    <3>2. CASE i \in 1 .. Len(inbox)
      <4>1. /\ inbox[i].sess <= session /\ (IsInit(i) => outcome[inbox[i].sess] = "none")
            /\ Owned(i) => ~IsFini(i)
        BY <3>2 DEF PushInv, OrderInv
      <4> QED BY <3>2, <4>1, <1>3, <1>7
    <3> QED BY <3>1, <3>2, <1>3, <1>8
  <2>2. ASSUME NEW i \in 1 .. Len(inbox'), NEW j \in 1 .. Len(inbox'), i < j
        PROVE  /\ inbox'[i].sess <= inbox'[j].sess
               /\ inbox'[i].sess = inbox'[j].sess => ~IsInit(j)' /\ ~IsFini(i)'
    <3>1. i \in 1 .. Len(inbox)
      BY <2>2, <1>3, <1>8
    <3>2. CASE j = n
      <4>1. /\ inbox[i].sess <= session /\ inbox'[i] = inbox[i] /\ IsFini(i)' = IsFini(i)
            /\ inbox[i].sess = session => ~IsFini(i)
        BY <3>1, <1>3, <1>7 DEF PushInv, OrderInv, Owned
      <4> QED BY <3>2, <4>1, <1>9
    <3>3. CASE j \in 1 .. Len(inbox)
      <4>1. inbox'[i] = inbox[i] /\ inbox'[j] = inbox[j] /\ IsFini(i)' = IsFini(i) /\ IsInit(j)' = IsInit(j)
        BY <3>1, <3>3, <1>3, <1>7
      <4> QED BY <3>1, <3>3, <4>1, <2>2 DEF PushInv, OrderInv
    <3> QED BY <3>2, <3>3, <1>3, <1>8
  <2>3. ASSUME NEW s \in 1 .. MaxSession
        PROVE  /\ s > session' => outcome'[s] = "none"
               /\ s <= session' /\ outcome'[s] = "none" =>
                     \E i \in 1 .. Len(inbox') : IsInit(i)' /\ inbox'[i].sess = s
               /\ outcome'[s] \in Handled => \A i \in 1 .. Len(inbox') : s <= inbox'[i].sess
    <3>1. s > session' => outcome'[s] = "none"
      BY DEF PushInv, OrderInv
    <3>2. ASSUME s <= session, outcome[s] = "none"
          PROVE  \E i \in 1 .. Len(inbox') : IsInit(i)' /\ inbox'[i].sess = s
      <4>1. PICK i \in 1 .. Len(inbox) : IsInit(i) /\ inbox[i].sess = s
        BY <3>2 DEF PushInv, OrderInv
      <4> QED BY <4>1, <1>3, <1>7
    <3>3. ASSUME outcome[s] \in Handled, NEW i \in 1 .. Len(inbox') PROVE s <= inbox'[i].sess
      <4>1. CASE i = n
        <5>1. s <= session
          BY <3>3, <1>2 DEF PushInv, OrderInv, Handled
        <5> QED BY <4>1, <5>1, <1>9
      <4>2. CASE i \in 1 .. Len(inbox)
        BY <4>2, <3>3, <1>3 DEF PushInv, OrderInv
      <4> QED BY <4>1, <4>2, <1>3, <1>8
    <3> QED BY <3>1, <3>2, <3>3
  <2> QED BY <2>1, <2>2, <2>3 DEF OrderInv
<1>11. FpInv'
  <2>1. ASSUME NEW i \in 1 .. Len(inbox'), ~IsInit(i)', outcome[inbox'[i].sess] = "ok" PROVE fp = "open"
    <3>1. CASE i = n
      <4>1. Started
        BY <3>1, <2>1, <1>2, <1>9 DEF Started
      <4> QED BY <4>1 DEF PushInv, FpInv
    <3>2. CASE i \in 1 .. Len(inbox)
      BY <3>2, <2>1, <1>3, <1>7 DEF PushInv, FpInv
    <3> QED BY <3>1, <3>2, <1>3, <1>8
  <2>2. Started => fp = "open"
    BY DEF PushInv, FpInv
  <2> QED BY <2>1, <2>2, <1>1, <1>4 DEF FpInv
<1>12. StepInv'
  <2> SUFFICES ASSUME ~late' PROVE StepInv'
    BY DEF StepInv
  <2>1. mail' = << >> /\ Whole' /\ inbox = << >> /\ outcome'[session'] \in Handled
    BY <1>4, <1>5
  <2>2. \A i \in 1 .. Len(inbox') : i = Len(inbox')
    <3>1. Len(inbox') = 1
      BY <2>1, <1>3
    <3>2. \A i \in 1 .. 1 : i = 1
      OBVIOUS
    <3> QED BY <3>1, <3>2
  <2> QED BY <2>1, <2>2 DEF StepInv
<1>13. KeptInv'
  BY <1>4, CopyTypes DEF PushInv, KeptInv
<1>14. kept' = Unfixed => kept = Unfixed /\ Whole
  BY CopyTypes, PushAssumption
<1>15. StreamInv'
  BY <1>1, <1>4, <1>14 DEF PushInv, StreamInv
<1>16. ChainInv'
  <2> SUFFICES ASSUME Alive, kept' = Unfixed PROVE \E q \in [1 .. Len(inbox') + 1 -> Nat] : Chain(q)'
    BY <1>4 DEF ChainInv
  <2>1. PICK p \in [1 .. Len(inbox) + 1 -> Nat] : Chain(p)
    BY <1>14 DEF PushInv, ChainInv
  <2>2. p[1] = Base /\ p[Len(inbox) + 1] = Sent /\ \A i \in 1 .. Len(inbox) : Link(p, i)
    BY <2>1, <1>14 DEF Chain
  <2>3. PICK left \in 0 .. Size : left = left_size'
    OBVIOUS
  <2>4. Size \in Nat /\ source \in Seq(Nat)
    BY <1>2, SourceFacts DEF PushInv
  <2>5. PICK e \in Nat : e = Sent' /\ Sent <= e /\ e <= Size
                         /\ (cpc' = "proc" => d = SubSeq(source, Sent + 1, e))
                         /\ (cpc' = "fini" => Sent = Size /\ e = Size)
    <3>1. CASE cpc' = "fini"
      <4>1. Sent' = Size /\ Sent = Size
        BY <3>1, <1>4, <2>4 DEF Sent
      <4> QED BY <4>1, <3>1, <2>4
    <3>2. CASE cpc' = "proc"
      <4>1. /\ d = SubSeq(source, Size - left + 1, Size - left + PieceSize(left))
            /\ Size - left \in Nat /\ Size - left + PieceSize(left) <= Size
        BY <3>2, <2>3, <2>4, PieceFacts
      <4>2. Sent' = (Size - left) + PieceSize(left)
        BY <3>2, <1>4, <2>3 DEF Sent, PieceSize
      <4>3. PieceSize(left) \in Nat
        BY <2>3, <2>4, PieceSizeFacts
      <4>4. Sent = Size - left /\ cpc' # "fini"
        BY <2>3, <3>2
      <4>5. PICK a \in Nat, k \in Nat : a = Size - left /\ k = PieceSize(left)
        BY <4>1, <4>3
      <4>6. a + k \in Nat /\ a + k = Sent' /\ Sent <= a + k /\ a + k <= Size /\ Sent = a
        <5>1. Sent' = a + k /\ Sent = a /\ a + k <= Size
          BY <4>1, <4>2, <4>4, <4>5, Zenon
        <5>2. a + k \in Nat /\ a <= a + k
          OBVIOUS
        <5> QED BY <5>1, <5>2, Zenon
      <4>7. d = SubSeq(source, Sent + 1, a + k)
        BY <4>1, <4>5, <4>6
      <4> QED BY <4>4, <4>6, <4>7
    <3> QED BY <3>1, <3>2
  <2>6. PICK q \in [1 .. Len(inbox') + 1 -> Nat] :
            q[Len(inbox') + 1] = e /\ \A i \in 1 .. Len(inbox) + 1 : q[i] = p[i]
    <3> DEFINE f == [i \in 1 .. n + 1 |-> IF i = n + 1 THEN e ELSE p[i]]
    <3>1. \A i \in 1 .. n + 1 : i = n + 1 \/ i \in 1 .. Len(inbox) + 1
      BY <1>8
    <3>2. f \in [1 .. n + 1 -> Nat]
      BY <3>1
    <3>3. f[n + 1] = e /\ \A i \in 1 .. Len(inbox) + 1 : f[i] = p[i]
      BY <1>3, <1>8
    <3> HIDE DEF f
    <3> QED BY <3>2, <3>3, <1>8
  <2>7. ASSUME NEW i \in 1 .. Len(inbox') PROVE Link(q, i)'
    <3>1. CASE i \in 1 .. Len(inbox)
      <4>1. q[i] = p[i] /\ q[i + 1] = p[i + 1] /\ Link(p, i)
        BY <3>1, <2>2, <2>6, <1>3
      <4>2. inbox'[i] = inbox[i] /\ Owned(i)' = Owned(i) /\ IsInit(i)' = IsInit(i) /\ IsFini(i)' = IsFini(i)
        BY <3>1, <1>3, <1>7
      <4> QED BY <4>1, <4>2, <1>4 DEF Link
    <3>2. CASE i = n
      <4>1. q[i] = Sent /\ q[i + 1] = e
        BY <3>2, <2>2, <2>6, <1>3, <1>8
      <4>2. /\ inbox'[i].chan = "PUSH_FILE_PROC" => cpc' = "proc" /\ inbox'[i].data = d
            /\ IsFini(i)' => cpc' = "fini"
            /\ Owned(i)' /\ ~IsInit(i)'
        BY <3>2, <1>7, <1>8, <1>9
      <4> QED BY <4>1, <4>2, <2>5, <1>4 DEF Link
    <3> QED BY <3>1, <3>2, <1>3, <1>8
  <2>8. q[1] = Base'
    BY <2>2, <2>6, <1>3, <1>4
  <2>9. Chain(q)'
    BY <2>5, <2>6, <2>7, <2>8 DEF Chain
  <2> QED BY <2>6, <2>9
<1>17. ArriveInv'
  BY <1>3, <1>8, <1>9 DEF ArriveInv
<1> QED BY <1>6, <1>10, <1>11, <1>12, <1>13, <1>15, <1>16, <1>17 DEF PushInv

LEMMA FirstInv == ASSUME PushInv, push_file_first PROVE PushInv'
<1>1. /\ cpc = "init" /\ Reads /\ cpc' = "proc" /\ left_size' = left_size
      /\ inbox' = Request(session, "PUSH_FILE_PROC", Piece(left_size))
      /\ kept' = IF Whole THEN kept ELSE Copy
      /\ UNCHANGED <<udb_auth_ok, serverVars, session, source, so_rcvtimeo, outcome, lost>>
  BY DEF push_file_first
<1>2. source \in Seq(Nat) /\ left_size \in 0 .. Size /\ left_size = Size /\ Size \in Nat
  <2>1. session # 0 /\ left_size = Size
    BY <1>1 DEF PushInv, TypeInv, Size
  <2> QED BY <2>1, SourceFacts DEF PushInv
<1>3. PICK d \in Data : d = Piece(left_size)
  BY <1>2, PieceFacts
<1>4. Sent = Size - left_size
  BY <1>1, <1>2 DEF Sent
<1>5. d = Piece(left_size') /\ inbox' = Request(session, "PUSH_FILE_PROC", d)
  BY <1>1, <1>3
<1> QED BY <1>1, <1>2, <1>4, <1>5, AskInv

(* The client's arithmetic on the bytes left never wraps. *)
LEMMA LeftFacts ==
    ASSUME PushInv, cpc = "proc"
    PROVE  /\ (left_size - PieceSize(left_size)) % U32 = left_size - PieceSize(left_size)
           /\ left_size - PieceSize(left_size) \in 0 .. Size
           /\ Sent = Size - (left_size - PieceSize(left_size))
<1>1. Size \in Nat /\ Size < U32 /\ left_size \in 0 .. Size /\ left_size \in Nat /\ U32 \in Nat
  <2>1. session # 0
    BY DEF PushInv, TypeInv
  <2> QED BY <2>1, SourceFacts, PushAssumption DEF PushInv
<1>2. PICK k \in Nat : k = PieceSize(left_size) /\ k <= left_size
  BY <1>1, PieceSizeFacts
<1>3. left_size - k \in Nat /\ left_size - k < U32 /\ left_size - k <= Size
  BY <1>1, <1>2
<1>4. (left_size - k) % U32 = left_size - k
  BY <1>1, <1>3
<1>5. Sent = Size - (left_size - k)
  <2>1. Sent = (Size - left_size) + k
    BY <1>2 DEF Sent
  <2> QED BY <2>1, <1>1
<1> QED BY <1>2, <1>3, <1>4, <1>5, <1>1

LEMMA NextPieceInv == ASSUME PushInv, push_file_next PROVE PushInv'
<1>1. /\ cpc = "proc" /\ Reads /\ left_size' = (left_size - PieceSize(left_size)) % U32
      /\ kept' = IF Whole THEN kept ELSE Copy
      /\ UNCHANGED <<udb_auth_ok, serverVars, session, source, so_rcvtimeo, outcome, lost>>
  BY DEF push_file_next
<1>2. source \in Seq(Nat) /\ Size \in Nat
  <2>1. session # 0
    BY <1>1 DEF PushInv, TypeInv
  <2> QED BY <2>1, SourceFacts DEF PushInv
<1>3. PICK left \in 0 .. Size : left = left_size' /\ Sent = Size - left
  BY <1>1, LeftFacts
<1>4. CASE left_size' = 0
  <2>1. cpc' = "fini" /\ inbox' = Request(session, "PUSH_FILE_FINI", << >>)
    BY <1>4 DEF push_file_next
  <2>2. << >> \in Data
    BY PushAssumption DEF Data
  <2> QED BY <2>1, <2>2, <1>1, <1>3, <1>4, AskInv
<1>5. CASE left_size' # 0
  <2>1. cpc' = "proc" /\ inbox' = Request(session, "PUSH_FILE_PROC", Piece(left_size'))
    BY <1>1, <1>5 DEF push_file_next
  <2>2. PICK d \in Data : d = Piece(left)
    BY <1>2, PieceFacts
  <2> QED BY <2>1, <2>2, <1>1, <1>3, <1>5, AskInv
<1> QED BY <1>4, <1>5

LEMMA EndInv == ASSUME PushInv, push_file_end PROVE PushInv'
<1>1. /\ cpc = "fini" /\ Reads /\ Running /\ cpc' = "done"
      /\ UNCHANGED <<udb_auth_ok, fp, stream, disk, up, inbox, session, source, left_size, so_rcvtimeo,
                     outcome, lost, kept>>
  BY DEF push_file_end, Running, serverVars
<1>2. /\ mail' \in Seq(Reply) /\ late' \in BOOLEAN /\ (late => late')
      /\ ~late' => ~late /\ Whole /\ inbox = << >> /\ outcome[session] \in Handled
  BY <1>1, ReadFacts
<1>3. Size' = Size /\ FileSize(source)' = FileSize(source) /\ Whole' = Whole /\ Started' = Started
      /\ Alive' = Alive /\ Base' = Base /\ Sent' = Sent
  BY <1>1 DEF Size, FileSize, Whole, Started, Alive, Base, Sent
<1>4. TypeInv'
  BY <1>1, <1>2, <1>3 DEF PushInv, TypeInv, TypeOK
<1>5. OrderInv'
  BY <1>1 DEF PushInv, OrderInv, Owned, IsInit, IsFini
<1>6. FpInv' /\ KeptInv' /\ StreamInv'
  BY <1>1, <1>3 DEF PushInv, FpInv, KeptInv, StreamInv, IsInit
<1>7. StepInv'
  BY <1>1, <1>2, <1>3 DEF StepInv, Running
<1>8. ChainInv'
  <2> SUFFICES ASSUME Alive, kept = Unfixed PROVE \E q \in [1 .. Len(inbox') + 1 -> Nat] : Chain(q)'
    BY <1>1, <1>3 DEF ChainInv
  <2>1. PICK p \in [1 .. Len(inbox) + 1 -> Nat] : Chain(p)
    BY DEF PushInv, ChainInv
  <2>2. Chain(p)'
    BY <2>1, <1>1, <1>3 DEF Chain, Link, Owned, IsInit, IsFini
  <2> QED BY <2>1, <2>2, <1>1
<1>9. ArriveInv'
  BY <1>1, <1>3 DEF PushInv, ArriveInv, IsFini
<1> QED BY <1>4, <1>5, <1>6, <1>7, <1>8, <1>9 DEF PushInv

LEMMA StartInv == ASSUME PushInv, push_file_start PROVE PushInv'
<1>1. /\ ~Running /\ session < MaxSession /\ session' = session + 1 /\ cpc' = "init" /\ mail' = << >>
      /\ inbox' = Request(session + 1, "PUSH_FILE_INIT", << >>)
      /\ lost' = {} /\ late' = FALSE /\ kept' = Unfixed
      /\ UNCHANGED <<udb_auth_ok, outcome>> /\ UNCHANGED <<fp, stream, disk, up>>
      /\ so_rcvtimeo' \in BOOLEAN
  BY DEF push_file_start, serverVars
<1>2. PICK content \in Contents : source' = content /\ left_size' = FileSize(content)
  BY DEF push_file_start
<1>3. /\ session \in Nat /\ session' \in Nat /\ session' \in 1 .. MaxSession /\ session' # 0
      /\ session < session' /\ << >> \in Data /\ "PUSH_FILE_INIT" \in Chans
  <2>1. session \in Nat /\ session + 1 \in 1 .. MaxSession
    BY <1>1, QueueFacts
  <2>2. << >> \in Data
    BY PushAssumption DEF Data
  <2> QED BY <1>1, <2>1, <2>2 DEF Chans
<1>4. /\ inbox' \in Seq(Req) /\ inbox' # << >> /\ Len(inbox') = Len(inbox) + 1 /\ Len(inbox) \in Nat
      /\ \A i \in 1 .. Len(inbox) : i \in 1 .. Len(inbox') /\ inbox'[i] = inbox[i]
      /\ inbox'[Len(inbox')] = [sess |-> session', chan |-> "PUSH_FILE_INIT", data |-> << >>]
      /\ \A i \in 1 .. Len(inbox') : i \in 1 .. Len(inbox) \/ i = Len(inbox')
  BY <1>1, <1>3, RequestFacts
<1>5. FileSize(content) \in Nat /\ FileSize(content) \in 0 .. FileSize(content)
  <2>1. content \in Seq(Nat)
    BY <1>2, PushAssumption
  <2>2. FileSize(content) \in Nat
    BY <2>1, SizeFacts
  <2> QED BY <2>2
<1>6. TypeInv'
  <2>1. \A i \in 1 .. Len(inbox') : Len(inbox'[i].data) <= MaxPkg
    <3> TAKE i \in 1 .. Len(inbox')
    <3>1. inbox'[i] \in Req
      BY <1>4
    <3> QED BY <3>1 DEF Req, Data
  <2>2. left_size' \in 0 .. FileSize(source)' /\ source' \in Contents /\ left_size' = FileSize(source)'
    BY <1>2, <1>5 DEF FileSize
  <2>3. session' \in 0 .. MaxSession
    BY <1>3, QueueFacts
  <2>4. TypeOK'
    BY <1>1, <2>1, <2>2, <2>3 DEF PushInv, TypeInv, TypeOK
  <2> QED BY <1>1, <1>3, <1>4, <2>2, <2>4 DEF TypeInv
<1>7. PICK n \in Nat : n = Len(inbox') /\ n = Len(inbox) + 1 /\ n \in 1 .. Len(inbox') /\ n \notin 1 .. Len(inbox)
  BY <1>4
<1>8. /\ \A i \in 1 .. Len(inbox) : /\ ~Owned(i)' /\ IsInit(i)' = IsInit(i) /\ IsFini(i)' = IsFini(i)
                                    /\ inbox'[i] = inbox[i] /\ inbox[i].sess < session'
      /\ inbox'[n].sess = session' /\ IsInit(n)' /\ ~IsFini(n)' /\ Owned(n)'
  <2>1. ASSUME NEW i \in 1 .. Len(inbox)
        PROVE  /\ ~Owned(i)' /\ IsInit(i)' = IsInit(i) /\ IsFini(i)' = IsFini(i)
               /\ inbox'[i] = inbox[i] /\ inbox[i].sess < session'
    <3>1. inbox'[i] = inbox[i] /\ inbox[i].sess <= session /\ inbox[i].sess \in Nat
      BY <1>4, QueueFacts
    <3>2. inbox[i].sess < session' /\ inbox[i].sess # session'
      BY <3>1, <1>3
    <3> QED BY <3>1, <3>2 DEF Owned, IsInit, IsFini
  <2> QED BY <2>1, <1>4, <1>7 DEF Owned, IsInit, IsFini
<1>9. outcome[session'] = "none" /\ \A s \in 1 .. MaxSession : s > session' => outcome[s] = "none"
  BY <1>3 DEF PushInv, OrderInv
<1>10. OrderInv'
  <2>1. ASSUME NEW i \in 1 .. Len(inbox')
        PROVE  /\ inbox'[i].sess <= session'
               /\ IsInit(i)' => outcome'[inbox'[i].sess] = "none"
               /\ Owned(i)' /\ IsFini(i)' => cpc' \in {"fini", "done", "killed"}
    <3>1. CASE i = n
      BY <3>1, <1>1, <1>3, <1>8, <1>9
    <3>2. CASE i \in 1 .. Len(inbox)
      <4>1. IsInit(i) => outcome[inbox[i].sess] = "none"
        BY <3>2 DEF PushInv, OrderInv
      <4>2. inbox[i].sess <= session'
        BY <3>2, <1>3, <1>8, QueueFacts
      <4> QED BY <3>2, <4>1, <4>2, <1>1, <1>8
    <3> QED BY <3>1, <3>2, <1>4, <1>7
  <2>2. ASSUME NEW i \in 1 .. Len(inbox'), NEW j \in 1 .. Len(inbox'), i < j
        PROVE  /\ inbox'[i].sess <= inbox'[j].sess
               /\ inbox'[i].sess = inbox'[j].sess => ~IsInit(j)' /\ ~IsFini(i)'
    <3>1. i \in 1 .. Len(inbox)
      BY <2>2, <1>4, <1>7
    <3>2. CASE j = n
      <4>1. inbox'[i] = inbox[i] /\ inbox[i].sess < session' /\ inbox[i].sess \in Nat
        BY <3>1, <1>8, QueueFacts
      <4> QED BY <3>2, <4>1, <1>3, <1>8
    <3>3. CASE j \in 1 .. Len(inbox)
      <4>1. inbox'[i] = inbox[i] /\ inbox'[j] = inbox[j] /\ IsFini(i)' = IsFini(i) /\ IsInit(j)' = IsInit(j)
        BY <3>1, <3>3, <1>8
      <4> QED BY <3>1, <3>3, <4>1, <2>2 DEF PushInv, OrderInv
    <3> QED BY <3>2, <3>3, <1>4, <1>7
  <2>3. ASSUME NEW s \in 1 .. MaxSession
        PROVE  /\ s > session' => outcome'[s] = "none"
               /\ s <= session' /\ outcome'[s] = "none" =>
                     \E i \in 1 .. Len(inbox') : IsInit(i)' /\ inbox'[i].sess = s
               /\ outcome'[s] \in Handled => \A i \in 1 .. Len(inbox') : s <= inbox'[i].sess
    <3>1. s > session' => outcome'[s] = "none"
      BY <1>1, <1>9
    <3>2. ASSUME s <= session', outcome[s] = "none"
          PROVE  \E i \in 1 .. Len(inbox') : IsInit(i)' /\ inbox'[i].sess = s
      <4>1. CASE s = session'
        BY <4>1, <1>7, <1>8
      <4>2. CASE s <= session
        <5>1. PICK i \in 1 .. Len(inbox) : IsInit(i) /\ inbox[i].sess = s
          BY <4>2, <3>2 DEF PushInv, OrderInv
        <5> QED BY <5>1, <1>4, <1>8
      <4> QED BY <4>1, <4>2, <3>2, <1>1, <1>3
    <3>3. ASSUME outcome[s] \in Handled, NEW i \in 1 .. Len(inbox') PROVE s <= inbox'[i].sess
      <4>1. CASE i = n
        <5>1. s <= session'
          BY <3>3, <1>3, <1>9 DEF Handled
        <5> QED BY <4>1, <5>1, <1>8
      <4>2. CASE i \in 1 .. Len(inbox)
        BY <4>2, <3>3, <1>8 DEF PushInv, OrderInv
      <4> QED BY <4>1, <4>2, <1>4, <1>7
    <3> QED BY <3>1, <3>2, <3>3, <1>1
  <2> QED BY <2>1, <2>2, <2>3 DEF OrderInv
<1>11. ~Started' /\ Whole'
  BY <1>1, <1>9 DEF Started, Whole
<1>12. FpInv'
  <2>1. ASSUME NEW i \in 1 .. Len(inbox'), ~IsInit(i)', outcome[inbox'[i].sess] = "ok" PROVE fp = "open"
    <3>1. i \in 1 .. Len(inbox)
      BY <2>1, <1>4, <1>7, <1>8
    <3> QED BY <3>1, <2>1, <1>8 DEF PushInv, FpInv
  <2> QED BY <2>1, <1>1, <1>11 DEF FpInv
<1>13. StepInv'
  <2>1. \A i \in 1 .. Len(inbox') : Owned(i)' => i = n
    BY <1>4, <1>7, <1>8
  <2> QED BY <2>1, <1>1, <1>7, <1>8, <1>11 DEF StepInv
<1>14. KeptInv' /\ StreamInv' /\ ArriveInv'
  BY <1>1, <1>11 DEF KeptInv, StreamInv, ArriveInv
<1>15. ChainInv'
  <2>1. PICK q \in [1 .. Len(inbox') + 1 -> Nat] : \A i \in 1 .. Len(inbox') + 1 : q[i] = 0
    <3>1. [i \in 1 .. Len(inbox') + 1 |-> 0] \in [1 .. Len(inbox') + 1 -> Nat]
      OBVIOUS
    <3> QED BY <3>1
  <2>2. q[1] = 0 /\ q[Len(inbox') + 1] = 0 /\ \A i \in 1 .. Len(inbox') : q[i + 1] = q[i]
    BY <2>1, <1>4
  <2>3. ASSUME NEW i \in 1 .. Len(inbox') PROVE Link(q, i)'
    <3>1. ~Owned(i)' \/ IsInit(i)'
      BY <1>4, <1>7, <1>8
    <3>2. inbox'[i].chan = "PUSH_FILE_PROC" => ~IsInit(i)'
      BY DEF IsInit
    <3>3. IsFini(i)' => ~IsInit(i)'
      BY DEF IsInit, IsFini
    <3> QED BY <3>1, <3>2, <3>3, <2>2 DEF Link
  <2>4. Base' = 0 /\ Sent' = 0
    BY <1>1, <1>11 DEF Base, Sent
  <2>5. Chain(q)'
    BY <2>2, <2>3, <2>4 DEF Chain
  <2> QED BY <2>1, <2>5 DEF ChainInv
<1> QED BY <1>6, <1>10, <1>12, <1>13, <1>14, <1>15 DEF PushInv

-----------------------------------------------------------------------------
(* The environment.                                                          *)

(* The newest request is lost. *)
LEMMA LoseRequestInv == ASSUME PushInv, LoseRequest PROVE PushInv'
<1>1. /\ inbox # << >> /\ inbox' = SubSeq(inbox, 1, Len(inbox) - 1) /\ lost' = lost \cup {"request"}
      /\ UNCHANGED <<udb_auth_ok, fp, stream, disk, up, mail, session, cpc, source, left_size, so_rcvtimeo,
                     late, kept>>
  BY DEF LoseRequest, serverVars, clientVars
<1>2. PICK n \in Nat : n = Len(inbox) /\ n \in 1 .. Len(inbox)
  BY <1>1, QueueFacts
<1>3. /\ inbox' \in Seq(Req) /\ Len(inbox') = n - 1 /\ Len(inbox') \in Nat
      /\ \A i \in 1 .. Len(inbox') : inbox'[i] = inbox[i] /\ i \in 1 .. Len(inbox) /\ i < n
  <2>1. inbox \in Seq(Req)
    BY QueueFacts
  <2>2. /\ inbox' \in Seq(Req) /\ Len(inbox') = Len(inbox) - 1 /\ Len(inbox) \in Nat \ {0}
        /\ \A i \in 1 .. Len(inbox) - 1 : inbox'[i] = inbox[i]
    BY <1>1, <2>1, FrontFacts
  <2> QED BY <2>2, <1>2
<1>4. \A i \in 1 .. Len(inbox') : Owned(i)' = Owned(i) /\ IsInit(i)' = IsInit(i) /\ IsFini(i)' = IsFini(i)
  BY <1>1, <1>3 DEF Owned, IsInit, IsFini
<1>5. /\ outcome' \in [1 .. MaxSession -> Outcomes]
      /\ \A s \in 1 .. MaxSession :
            outcome'[s] = IF IsInit(n) /\ s = inbox[n].sess THEN "lost" ELSE outcome[s]
      /\ inbox[n].sess \in 1 .. MaxSession /\ inbox[n].sess \in 1 .. session
      /\ IsInit(n) => outcome[inbox[n].sess] = "none"
  <2>1. outcome' = IF IsInit(n) THEN [outcome EXCEPT ![inbox[n].sess] = "lost"] ELSE outcome
    BY <1>2 DEF LoseRequest, IsInit
  <2>2. inbox[n].sess \in 1 .. MaxSession /\ outcome \in [1 .. MaxSession -> Outcomes]
        /\ inbox[n].sess \in 1 .. session
    BY <1>2, QueueFacts
  <2>3. IsInit(n) => outcome[inbox[n].sess] = "none"
    BY <1>2 DEF PushInv, OrderInv
  <2> QED BY <2>1, <2>2, <2>3 DEF Outcomes
<1>6. session \in 1 .. MaxSession /\ session \in Nat /\ session # 0
  BY <1>5, QueueFacts
<1>7. /\ Size' = Size /\ FileSize(source)' = FileSize(source) /\ ~Whole' /\ Running' = Running
      /\ Started' = Started /\ Base' = Base /\ (Alive' => Alive)
  <2>1. Size' = Size /\ FileSize(source)' = FileSize(source) /\ ~Whole' /\ Running' = Running
    BY <1>1 DEF Size, FileSize, Whole, Running
  <2>2. Started' = Started
    BY <1>1, <1>5, <1>6 DEF Started
  <2> QED BY <2>1, <2>2, <1>1, <1>5, <1>6 DEF Base, Alive
<1>8. TypeInv'
  <2>1. \A i \in 1 .. Len(inbox') : Len(inbox'[i].data) <= MaxPkg
    <3> TAKE i \in 1 .. Len(inbox')
    <3>1. inbox'[i] \in Req
      BY <1>3
    <3> QED BY <3>1 DEF Req, Data
  <2>2. lost' \subseteq {"request", "reply"}
    BY <1>1 DEF PushInv, TypeInv, TypeOK
  <2>3. TypeOK'
    BY <1>1, <1>5, <1>7, <2>1, <2>2 DEF PushInv, TypeInv, TypeOK, Outcomes
  <2> QED BY <1>1, <1>3, <1>7, <2>3 DEF PushInv, TypeInv
<1>9. OrderInv'
  <2>1. ASSUME NEW i \in 1 .. Len(inbox')
        PROVE  /\ inbox'[i].sess <= session'
               /\ IsInit(i)' => outcome'[inbox'[i].sess] = "none"
               /\ Owned(i)' /\ IsFini(i)' => cpc' \in {"fini", "done", "killed"}
    <3>1. inbox'[i] = inbox[i] /\ i \in 1 .. Len(inbox) /\ i < n /\ inbox[i].sess \in 1 .. MaxSession
      BY <1>3, QueueFacts
    <3>2. /\ inbox[i].sess <= session /\ (IsInit(i) => outcome[inbox[i].sess] = "none")
          /\ Owned(i) /\ IsFini(i) => cpc \in {"fini", "done", "killed"}
          /\ inbox[i].sess = inbox[n].sess => ~IsInit(n)
      BY <3>1, <1>2 DEF PushInv, OrderInv
    <3> QED BY <3>1, <3>2, <1>1, <1>4, <1>5
  <2>2. ASSUME NEW i \in 1 .. Len(inbox'), NEW j \in 1 .. Len(inbox'), i < j
        PROVE  /\ inbox'[i].sess <= inbox'[j].sess
               /\ inbox'[i].sess = inbox'[j].sess => ~IsInit(j)' /\ ~IsFini(i)'
    <3>1. inbox'[i] = inbox[i] /\ i \in 1 .. Len(inbox) /\ inbox'[j] = inbox[j] /\ j \in 1 .. Len(inbox)
      BY <1>3
    <3> QED BY <3>1, <2>2, <1>4 DEF PushInv, OrderInv
  <2>3. ASSUME NEW s \in 1 .. MaxSession
        PROVE  /\ s > session' => outcome'[s] = "none"
               /\ s <= session' /\ outcome'[s] = "none" =>
                     \E i \in 1 .. Len(inbox') : IsInit(i)' /\ inbox'[i].sess = s
               /\ outcome'[s] \in Handled => \A i \in 1 .. Len(inbox') : s <= inbox'[i].sess
    <3>1. s > session => outcome'[s] = "none"
      <4>1. s > session => s # inbox[n].sess
        BY <1>5, <1>6
      <4> QED BY <4>1, <1>5 DEF PushInv, OrderInv
    <3>2. ASSUME s <= session, outcome'[s] = "none"
          PROVE  \E i \in 1 .. Len(inbox') : IsInit(i)' /\ inbox'[i].sess = s
      <4>1. outcome[s] = "none" /\ ~(IsInit(n) /\ s = inbox[n].sess)
        BY <3>2, <1>5
      <4>2. PICK i \in 1 .. Len(inbox) : IsInit(i) /\ inbox[i].sess = s
        BY <3>2, <4>1 DEF PushInv, OrderInv
      <4>3. i \in 1 .. Len(inbox')
        BY <4>1, <4>2, <1>2, <1>3
      <4> QED BY <4>2, <4>3, <1>3, <1>4
    <3>3. ASSUME outcome'[s] \in Handled, NEW i \in 1 .. Len(inbox') PROVE s <= inbox'[i].sess
      <4>1. outcome[s] \in Handled
        BY <3>3, <1>5 DEF Handled
      <4> QED BY <4>1, <1>3 DEF PushInv, OrderInv
    <3> QED BY <3>1, <3>2, <3>3, <1>1
  <2> QED BY <2>1, <2>2, <2>3 DEF OrderInv
<1>10. FpInv'
  <2>1. ASSUME NEW i \in 1 .. Len(inbox'), ~IsInit(i)', outcome'[inbox'[i].sess] = "ok" PROVE fp = "open"
    <3>1. /\ i \in 1 .. Len(inbox) /\ inbox'[i] = inbox[i] /\ ~IsInit(i)
          /\ inbox[i].sess \in 1 .. MaxSession
      BY <2>1, <1>3, <1>4, QueueFacts
    <3>2. outcome[inbox[i].sess] = "ok"
      BY <3>1, <2>1, <1>5
    <3> QED BY <3>1, <3>2 DEF PushInv, FpInv
  <2> QED BY <2>1, <1>1, <1>7 DEF PushInv, FpInv
<1>11. StepInv'
  <2> SUFFICES ASSUME ~late PROVE StepInv'
    BY <1>1 DEF StepInv
  <2>1. Running => \A i \in 1 .. Len(inbox') : ~Owned(i)'
    <3> SUFFICES ASSUME Running, NEW i \in 1 .. Len(inbox'), Owned(i)' PROVE FALSE
      OBVIOUS
    <3>1. i = n
      BY <1>2, <1>3, <1>4 DEF PushInv, StepInv
    <3> QED BY <3>1, <1>3
  <2>2. (Running => mail = << >>) /\ cpc # "done"
    BY <1>1 DEF PushInv, StepInv
  <2>3. cpc \in {"proc", "fini"} => outcome'[session] \in Handled
    BY <1>5, <1>6 DEF PushInv, StepInv, Handled
  <2> QED BY <2>1, <2>2, <2>3, <1>1, <1>7 DEF StepInv
<1>12. KeptInv' /\ StreamInv' /\ ArriveInv'
  BY <1>1, <1>7 DEF PushInv, KeptInv, StreamInv, ArriveInv
<1>13. ChainInv'
  <2> SUFFICES ASSUME Alive, kept = Unfixed PROVE \E q \in [1 .. Len(inbox') + 1 -> Nat] : Chain(q)'
    BY <1>1, <1>7 DEF ChainInv
  <2>1. PICK p \in [1 .. Len(inbox) + 1 -> Nat] : Chain(p)
    BY DEF PushInv, ChainInv
  <2>2. PICK q \in [1 .. Len(inbox') + 1 -> Nat] : \A i \in 1 .. Len(inbox') + 1 : q[i] = p[i]
    <3>1. \A i \in 1 .. Len(inbox') + 1 : i \in 1 .. Len(inbox) + 1
      BY <1>2, <1>3
    <3>2. [i \in 1 .. Len(inbox') + 1 |-> p[i]] \in [1 .. Len(inbox') + 1 -> Nat]
      BY <3>1, <2>1
    <3> QED BY <3>2
  <2>3. ASSUME NEW i \in 1 .. Len(inbox') PROVE Link(q, i)'
    <3>1. q[i] = p[i] /\ q[i + 1] = p[i + 1]
      BY <2>2, <1>3
    <3>2. Link(p, i)
      BY <2>1, <1>3 DEF Chain
    <3>3. inbox'[i] = inbox[i] /\ Owned(i)' = Owned(i) /\ IsInit(i)' = IsInit(i) /\ IsFini(i)' = IsFini(i)
      BY <1>3, <1>4
    <3> QED BY <3>1, <3>2, <3>3, <1>1, <1>7 DEF Link
  <2>4. q[1] = Base'
    <3>1. q[1] = p[1]
      BY <2>2, <1>3
    <3> QED BY <3>1, <2>1, <1>7 DEF Chain
  <2>5. Chain(q)'
    BY <2>3, <2>4, <1>7 DEF Chain
  <2> QED BY <2>2, <2>5
<1> QED BY <1>8, <1>9, <1>10, <1>11, <1>12, <1>13 DEF PushInv

(* A step that leaves the server, the queue and the client's place alone, or *)
(* kills the client.                                                         *)
LEMMA AsideInv ==
    ASSUME PushInv, UNCHANGED <<fp, stream, up, inbox, session, source, left_size, so_rcvtimeo,
                                outcome, late, kept>>,
           cpc' = cpc \/ (Running /\ cpc' = "killed"),
           mail' \in Seq(Reply), mail' = mail \/ (mail # << >> /\ mail' = Tail(mail)) \/ cpc' = "killed",
           lost' = lost \/ lost' = lost \cup {"reply"},
           udb_auth_ok' \in BOOLEAN, udb_auth_ok => udb_auth_ok', disk' \in Seq(Nat),
           fp = "null" => disk' = disk,
           Started /\ kept = Unfixed => Len(disk') <= Len(stream) /\ disk' = SubSeq(source, 1, Len(disk'))
    PROVE  PushInv'
<1>1. Size' = Size /\ FileSize(source)' = FileSize(source) /\ Whole' = Whole /\ Started' = Started
      /\ Alive' = Alive /\ Base' = Base
  BY DEF Size, FileSize, Whole, Started, Alive, Base
<1>2. TypeInv'
  <2>1. lost' \subseteq {"request", "reply"}
    BY DEF PushInv, TypeInv, TypeOK
  <2>2. TypeOK'
    BY <1>1, <2>1 DEF PushInv, TypeInv, TypeOK
  <2> QED BY <1>1, <2>2 DEF PushInv, TypeInv, Running
<1>3. OrderInv'
  BY DEF PushInv, OrderInv, Owned, IsInit, IsFini
<1>4. FpInv' /\ KeptInv' /\ StreamInv'
  BY <1>1 DEF PushInv, FpInv, KeptInv, StreamInv, IsInit
<1>5. StepInv'
  <2>1. CASE cpc' = "killed"
    BY <2>1 DEF StepInv, Running
  <2>2. CASE cpc' = cpc /\ cpc' # "killed"
    <3> SUFFICES ASSUME ~late PROVE StepInv'
      BY DEF StepInv
    <3>1. Running' = Running /\ \A i \in 1 .. Len(inbox) : Owned(i)' = Owned(i) /\ IsInit(i)' = IsInit(i)
      BY <2>2 DEF Running, Owned, IsInit
    <3>2. Running => mail' = mail \/ (mail # << >> /\ mail' = << >>)
      <4>1. mail # << >> /\ Running => Len(mail) = 1 /\ mail \in Seq(Reply)
        BY DEF PushInv, StepInv, TypeInv
      <4> QED BY <4>1, <2>2
    <3>3. Running /\ mail' # << >> => mail' = mail
      BY <3>2
    <3>4. mail = << >> /\ Running => mail' = << >>
      BY <3>2
    <3> QED BY <3>1, <3>3, <3>4, <1>1, <2>2 DEF PushInv, StepInv
  <2> QED BY <2>1, <2>2
<1>6. ChainInv'
  <2> SUFFICES ASSUME Alive, kept = Unfixed PROVE \E q \in [1 .. Len(inbox') + 1 -> Nat] : Chain(q)'
    BY <1>1 DEF ChainInv
  <2>1. PICK p \in [1 .. Len(inbox) + 1 -> Nat] : Chain(p)
    BY DEF PushInv, ChainInv
  <2>2. \A i \in 1 .. Len(inbox') : Link(p, i)'
    BY <2>1, <1>1 DEF Chain, Link, Owned, IsInit, IsFini
  <2>3. cpc' # "killed" => Sent' = Sent /\ cpc # "killed"
    BY <1>1 DEF Sent, PieceSize
  <2>4. Chain(p)'
    BY <2>1, <2>2, <2>3, <1>1 DEF Chain
  <2> QED BY <2>1, <2>4
<1>7. ArriveInv'
  BY <1>1 DEF PushInv, ArriveInv, IsFini
<1> QED BY <1>2, <1>3, <1>4, <1>5, <1>6, <1>7 DEF PushInv

LEMMA DiskFacts ==
    ASSUME PushInv
    PROVE  /\ disk \in Seq(Nat) /\ udb_auth_ok \in BOOLEAN /\ mail \in Seq(Reply)
           /\ Started /\ kept = Unfixed => Len(disk) <= Len(stream) /\ disk = SubSeq(source, 1, Len(disk))
  BY DEF PushInv, TypeInv, TypeOK, StreamInv

LEMMA AuthInv == ASSUME PushInv, udb_debug_auth PROVE PushInv'
<1>1. PICK key_ok \in BOOLEAN : udb_auth_ok' = (udb_auth_ok \/ key_ok)
  BY DEF udb_debug_auth
<1>2. udb_auth_ok' \in BOOLEAN /\ (udb_auth_ok => udb_auth_ok')
  BY <1>1, DiskFacts
<1>3. UNCHANGED <<fp, stream, disk, up, inbox, mail, session, cpc, source, left_size, so_rcvtimeo, outcome,
                  lost, late, kept>>
  BY DEF udb_debug_auth, serverVars, clientVars, histVars
<1> QED BY <1>2, <1>3, DiskFacts, AsideInv

(* What is flushed is a longer prefix of the stream. *)
LEMMA FlushFacts ==
    ASSUME PushInv, Flush
    PROVE  /\ disk' \in Seq(Nat)
           /\ Started /\ kept = Unfixed => /\ Len(disk') <= Len(stream) /\ Len(disk) <= Len(disk')
                                           /\ disk' = SubSeq(source, 1, Len(disk'))
<1>1. PICK n \in Len(disk) + 1 .. Len(stream) : disk' = SubSeq(stream, 1, n)
  BY DEF Flush
<1>2. disk \in Seq(Nat) /\ stream \in Seq(Nat) /\ Len(disk) \in Nat /\ Len(stream) \in Nat
  BY DEF PushInv, TypeInv, TypeOK
<1>3. n \in Nat /\ n <= Len(stream) /\ Len(disk) <= n /\ 1 \in Nat /\ 1 <= n + 1 /\ n - 1 + 1 = n
  BY <1>1, <1>2
<1>4. SubSeq(stream, 1, n) \in Seq(Nat) /\ Len(SubSeq(stream, 1, n)) = n - 1 + 1
  BY <1>2, <1>3, SliceFacts
<1>5. disk' \in Seq(Nat) /\ Len(disk') = n
  BY <1>1, <1>3, <1>4
<1>6. ASSUME Started, kept = Unfixed PROVE disk' = SubSeq(source, 1, n)
  <2>1. stream = SubSeq(source, 1, Len(stream)) /\ Len(stream) <= Len(source) /\ source \in Seq(Nat)
    <3>1. Len(stream) <= Size /\ stream = SubSeq(source, 1, Len(stream))
      BY <1>6 DEF PushInv, StreamInv
    <3>2. Size <= Len(source) /\ Size \in Nat /\ Len(source) \in Nat /\ source \in Seq(Nat)
      BY <1>6, SourceFacts DEF PushInv, Started
    <3>3. Len(stream) <= Len(source)
      BY <3>1, <3>2, <1>2
    <3> QED BY <3>1, <3>2, <3>3
  <2>2. PICK m \in Nat : m = Len(stream)
    BY <1>2
  <2>3. SubSeq(SubSeq(source, 1, m), 1, n) = SubSeq(source, 1, n)
    BY <2>1, <2>2, <1>3, PrefixOfPrefix
  <2> QED BY <2>1, <2>2, <2>3, <1>1
<1> QED BY <1>3, <1>5, <1>6

LEMMA FlushInv == ASSUME PushInv, Flush PROVE PushInv'
<1>1. fp = "open" /\ udb_auth_ok' = udb_auth_ok
      /\ UNCHANGED <<fp, stream, up, inbox, mail, session, cpc, source, left_size, so_rcvtimeo, outcome,
                     lost, late, kept>>
  BY DEF Flush, clientVars, histVars
<1> QED BY <1>1, FlushFacts, DiskFacts, AsideInv

LEMMA LoseReplyInv == ASSUME PushInv, LoseReply PROVE PushInv'
<1>1. /\ mail # << >> /\ mail' = Tail(mail) /\ lost' = lost \cup {"reply"}
      /\ UNCHANGED <<udb_auth_ok, fp, stream, disk, up, inbox, session, cpc, source, left_size, so_rcvtimeo,
                     outcome, late, kept>>
  BY DEF LoseReply, serverVars, clientVars
<1>2. mail' \in Seq(Reply)
  BY <1>1, DiskFacts
<1> QED BY <1>1, <1>2, DiskFacts, AsideInv

LEMMA KillInv == ASSUME PushInv, Kill PROVE PushInv'
<1>1. /\ Running /\ cpc' = "killed" /\ mail' = << >>
      /\ UNCHANGED <<udb_auth_ok, fp, stream, disk, up, inbox, session, source, left_size, so_rcvtimeo,
                     outcome, lost, late, kept>>
  BY DEF Kill, serverVars, histVars
<1>2. mail' \in Seq(Reply)
  BY <1>1
<1> QED BY <1>1, <1>2, DiskFacts, AsideInv

LEMMA InitInv == Init => PushInv
<1> SUFFICES ASSUME Init PROVE PushInv
  OBVIOUS
<1>1. << >> \in Seq(Nat) /\ << >> \in Seq(Req) /\ << >> \in Seq(Reply) /\ Len(<< >>) = 0
  OBVIOUS
<1>2. left_size \in 0 .. FileSize(source)
  <2>1. source \in Seq(Nat) /\ left_size = 0
    BY DEF Init
  <2>2. FileSize(source) \in Nat
    BY <2>1, SizeFacts
  <2> QED BY <2>1, <2>2
<1>3. \A i \in 1 .. Len(inbox) : FALSE
  BY <1>1 DEF Init
<1>4. outcome \in [1 .. MaxSession -> Outcomes] /\ \A s \in 1 .. MaxSession : outcome[s] = "none"
  BY DEF Init, Outcomes
<1>5. TypeInv
  <2>1. session \in 0 .. MaxSession
    BY PushAssumption DEF Init
  <2>2. TypeOK
    BY <1>1, <1>2, <1>3, <1>4, <2>1 DEF Init, TypeOK, Outcomes
  <2> QED BY <1>1, <2>2 DEF Init, TypeInv
<1>6. OrderInv
  <2>1. \A s \in 1 .. MaxSession : s > session /\ outcome[s] \notin Handled /\ ~(s <= session)
    BY <1>4 DEF Init, Handled
  <2> QED BY <1>3, <1>4, <2>1 DEF OrderInv
<1>7. ~Started /\ ~Alive /\ ~Running /\ cpc = "idle" /\ kept = Unfixed
  BY DEF Init, Started, Alive, Running
<1>8. FpInv /\ StepInv /\ KeptInv /\ StreamInv /\ ChainInv /\ ArriveInv
  BY <1>3, <1>7 DEF FpInv, StepInv, KeptInv, StreamInv, ChainInv, ArriveInv
<1> QED BY <1>5, <1>6, <1>8 DEF PushInv

LEMMA NextInv == PushInv /\ [Next]_vars => PushInv'
<1> SUFFICES ASSUME PushInv, [Next]_vars PROVE PushInv'
  OBVIOUS
<1>1. CASE UNCHANGED vars
  <2>1. UNCHANGED <<udb_auth_ok, fp, stream, disk, up, inbox, mail, session, cpc, source, left_size,
                    so_rcvtimeo, outcome, lost, late, kept>>
    BY <1>1 DEF vars, serverVars, clientVars, histVars
  <2> QED BY <2>1, DiskFacts, AsideInv
<1> QED BY <1>1, AuthInv, FlushInv, LoseRequestInv, LoseReplyInv, RefuseInv, ServeInitInv, ServeProcInv,
           ServeFiniInv, StartInv, FirstInv, NextPieceInv, EndInv, KillInv DEF Next, Server, Client

LEMMA PushInvariant == Spec => []PushInv
  BY InitInv, NextInv, PTL DEF Spec

(* Types of the protocol state (push_file, udb_pushfile_ctrl): no piece is   *)
(* longer than PUSH_MAX_PKG_SIZE and the bytes left never exceed the size,   *)
(* although they are computed modulo 2^32.                                   *)
THEOREM PushTypes == Spec => []TypeOK
  BY PushInvariant, PTL DEF PushInv, TypeInv

(* The server uses a null fp (udb_debug_pushfile_proc,                       *)
(* udb_debug_pushfile_fini) only for a client whose INIT failed, was refused *)
(* or was lost, however many clients were killed or ran ahead of the server  *)
(* and whatever they left queued.                                            *)
THEOREM PushNullFp == Spec => []NullFpOnlyAfterFailedInit
<1>1. PushInv => NullFpOnlyAfterFailedInit
  <2> SUFFICES ASSUME PushInv, fp = "null", inbox # << >>, Uses(Head(inbox))
               PROVE  outcome[Head(inbox).sess] \in {"no", "refused", "lost"}
    BY DEF NullFpOnlyAfterFailedInit
  <2>1. 1 \in 1 .. Len(inbox) /\ Head(inbox) = inbox[1]
    BY QueueFacts
  <2>2. ~IsInit(1)
    BY <2>1 DEF Uses, IsInit
  <2>3. outcome[inbox[1].sess] \in Outcomes
    BY <2>1, QueueFacts
  <2>4. outcome[inbox[1].sess] # "none" /\ outcome[inbox[1].sess] # "ok"
    BY <2>1, <2>2, HeadFacts DEF PushInv, FpInv
  <2> QED BY <2>1, <2>3, <2>4 DEF Outcomes
<1> QED BY <1>1, PushInvariant, PTL

(* Late and lost answers do no harm: once its requests were handled, an      *)
(* accepted push that returned and lost no request left the whole file on    *)
(* the device, however far the client ran ahead of the server.               *)
THEOREM PushWhole == Spec => []PushArrives
<1>1. PushInv => PushArrives
  <2> SUFFICES ASSUME PushInv, cpc = "done", Started, Whole,
                      \A i \in 1 .. Len(inbox) : inbox[i].sess # session
               PROVE  disk = Expressible(source)
    BY DEF PushArrives
  <2>1. inbox = << >>
    <3>1. \A i \in 1 .. Len(inbox) : FALSE
      BY StartedFacts DEF Owned
    <3>2. inbox \in Seq(Req) /\ Len(inbox) \in Nat
      BY QueueFacts
    <3>3. Len(inbox) = 0
      BY <3>1, <3>2
    <3> QED BY <3>2, <3>3
  <2>2. disk = stream /\ Len(stream) = Size
    BY <2>1 DEF PushInv, ArriveInv, Alive, Started
  <2>3. stream = SubSeq(source, 1, Len(stream))
    BY DEF PushInv, KeptInv, StreamInv
  <2> QED BY <2>2, <2>3 DEF Expressible, Size, FileSize
<1> QED BY <1>1, PushInvariant, PTL

-----------------------------------------------------------------------------
(* The refinement of the abstract file copy.                                 *)

Src == IF Started THEN Expressible(source) ELSE Unfixed

LEMMA SrcFacts ==
    ASSUME PushInv, Started
    PROVE  /\ Src = SubSeq(source, 1, Size) /\ Src # Unfixed /\ Src \in Seq(Nat) /\ Len(Src) = Size
           /\ source \in Seq(Nat) /\ Size \in Nat /\ Size <= Len(source)
<1>1. source \in Contents /\ source \in Seq(Nat) /\ Len(source) \in Nat /\ Size \in Nat /\ Size <= Len(source)
  BY SourceFacts DEF PushInv, Started
<1>2. Src = SubSeq(source, 1, Size)
  BY DEF Src, Expressible, Size, FileSize
<1>3. Src \in Seq(Nat) /\ Len(Src) = Size
  <2>1. 1 \in Nat /\ 1 <= Size + 1
    BY <1>1
  <2>2. SubSeq(source, 1, Size) \in Seq(Nat) /\ Len(SubSeq(source, 1, Size)) = Size - 1 + 1
    BY <2>1, <1>1, SliceFacts
  <2> QED BY <2>2, <1>1, <1>2
<1> QED BY <1>1, <1>2, <1>3, PushAssumption

(* What reaches the disk of an accepted push extends the abstract copy. *)
LEMMA DiskExtends ==
    ASSUME PushInv, PushInv', Started,
           UNCHANGED <<session, cpc, source, outcome, late, kept>>, ~(cpc = "done" /\ ~late),
           Len(disk) <= Len(disk') \/ kept # Unfixed
    PROVE  FC!Next \/ UNCHANGED <<Src, Copy, Phase>>
<1>1. Started' = Started /\ Src' = Src /\ Phase' = Phase
  BY DEF Started, Src, Expressible, Phase, Running
<1>2. CASE kept # Unfixed
  <2>1. Copy' = Copy
    BY <1>1, <1>2 DEF Copy
  <2> QED BY <2>1, <1>1
<1>3. CASE kept = Unfixed
  <2>1. /\ Src = SubSeq(source, 1, Size) /\ Src # Unfixed /\ Len(Src) = Size
        /\ source \in Seq(Nat) /\ Size \in Nat /\ Size <= Len(source)
    BY SrcFacts
  <2>2. Size' = Size
    BY DEF Size, FileSize
  <2>3. disk \in Seq(Nat) /\ disk' \in Seq(Nat) /\ Len(disk) \in Nat /\ Len(disk') \in Nat
    BY DEF PushInv, TypeInv, TypeOK
  <2>4. PICK n \in Nat : n = Len(disk')
    BY <2>3
  <2>5. disk' = SubSeq(source, 1, n) /\ n <= Size
    <3>1. /\ Len(disk') <= Len(stream') /\ Len(stream') <= Size' /\ disk' = SubSeq(source', 1, Len(disk'))
      BY <1>1, <1>3 DEF PushInv, StreamInv
    <3>2. Len(stream') \in Nat
      BY DEF PushInv, TypeInv, TypeOK
    <3> QED BY <3>1, <3>2, <2>1, <2>2, <2>4
  <2>6. SubSeq(SubSeq(source, 1, Size), 1, n) = SubSeq(source, 1, n)
    BY <2>1, <2>5, PrefixOfPrefix
  <2>7. disk' = SubSeq(Src, 1, n) /\ n \in Len(disk) .. Len(Src)
    <3>1. n \in Len(disk) .. Len(Src)
      BY <1>3, <2>1, <2>3, <2>4, <2>5
    <3> QED BY <3>1, <2>1, <2>5, <2>6
  <2>8. Copy = disk /\ Copy' = disk'
    BY <1>1, <1>3 DEF Copy
  <2>9. Phase \in {"copying", "abandoned"}
    <3>1. cpc # "idle"
      BY DEF PushInv, TypeInv, Started
    <3> QED BY <3>1 DEF Phase
  <2>10. FC!Extend
    BY <2>1, <2>7, <2>8, <2>9, <1>1 DEF FC!Extend, FC!UnderWay, Src
  <2> QED BY <2>10 DEF FC!Next
<1> QED BY <1>2, <1>3

(* The client goes on: the copy stays, and at its first time-out the         *)
(* transfer counts as abandoned.                                             *)
LEMMA GoOnCopies ==
    ASSUME PushInv, Running, Running', late => late', late \in BOOLEAN, late' \in BOOLEAN,
           UNCHANGED <<session, source, disk, outcome>>, kept' = IF Whole THEN kept ELSE Copy
    PROVE  FC!Next \/ UNCHANGED <<Src, Copy, Phase>>
<1>1. Started' = Started /\ Src' = Src
  BY DEF Started, Src, Expressible
<1>2. Copy' = Copy
  <2>1. Copy # Unfixed
    BY CopyTypes, PushAssumption
  <2> QED BY <1>1, <2>1 DEF Copy
<1>3. CASE late' = late
  BY <1>1, <1>2, <1>3 DEF Phase, Running
<1>4. CASE ~late /\ late'
  <2>1. Phase = "copying" /\ Phase' = "abandoned"
    BY <1>4 DEF Phase, Running
  <2> QED BY <2>1, <1>1, <1>2 DEF FC!Next, FC!Abandon, Src
<1> QED BY <1>3, <1>4

LEMMA StepCopies ==
    ASSUME PushInv, PushInv', [Next]_vars
    PROVE  FC!Next \/ UNCHANGED <<Src, Copy, Phase>>
<1>1. ASSUME UNCHANGED <<session, cpc, source, late, kept>>, Started' = Started, Started => disk' = disk
      PROVE  UNCHANGED <<Src, Copy, Phase>>
  BY <1>1 DEF Src, Copy, Phase, Expressible, Running
<1>2. CASE udb_debug_auth \/ LoseReply \/ UNCHANGED vars \/ udb_debug_pushfile_proc
  <2>1. UNCHANGED <<session, cpc, source, late, kept, outcome, disk>>
    BY <1>2 DEF udb_debug_auth, LoseReply, udb_debug_pushfile_proc, vars, clientVars, serverVars, histVars
  <2> QED BY <2>1, <1>1 DEF Started
<1>3. CASE LoseRequest \/ udb_debug_bridge_refuse
  <2>1. /\ UNCHANGED <<session, cpc, source, late, kept, disk>> /\ inbox # << >>
        /\ \/ outcome' = outcome
           \/ \E i \in 1 .. Len(inbox), v \in {"lost", "refused"} :
                 IsInit(i) /\ outcome' = [outcome EXCEPT ![inbox[i].sess] = v]
    <3>1. inbox # << >> => 1 \in 1 .. Len(inbox) /\ Len(inbox) \in 1 .. Len(inbox) /\ Head(inbox) = inbox[1]
      BY QueueFacts
    <3>2. CASE LoseRequest
      BY <3>1, <3>2 DEF LoseRequest, clientVars, serverVars, IsInit
    <3>3. CASE udb_debug_bridge_refuse
      BY <3>1, <3>3 DEF udb_debug_bridge_refuse, clientVars, serverVars, IsInit
    <3> QED BY <1>3, <3>2, <3>3
  <2>2. Started' = Started
    <3>1. CASE outcome' = outcome
      BY <2>1, <3>1 DEF Started
    <3>2. ASSUME NEW i \in 1 .. Len(inbox), NEW v \in {"lost", "refused"}, IsInit(i),
                 outcome' = [outcome EXCEPT ![inbox[i].sess] = v]
          PROVE  Started' = Started
      <4>1. ~Started
        BY <3>2, StartedFacts
      <4>2. session # 0 => session \in 1 .. MaxSession /\ outcome[session] # "ok"
        BY <4>1, QueueFacts DEF Started
      <4>3. outcome \in [1 .. MaxSession -> Outcomes]
        BY QueueFacts
      <4>4. ~Started'
        BY <3>2, <4>2, <4>3, <2>1 DEF Started
      <4> QED BY <4>1, <4>4 DEF Started
    <3> QED BY <2>1, <3>1, <3>2
  <2> QED BY <2>1, <2>2, <1>1
<1>4. CASE push_file_first \/ push_file_next
  <2>1. /\ UNCHANGED <<session, source, disk, outcome>> /\ Running /\ Running' /\ Reads
        /\ kept' = IF Whole THEN kept ELSE Copy
    BY <1>4 DEF push_file_first, push_file_next, serverVars, Running
  <2>2. (late => late') /\ late \in BOOLEAN /\ late' \in BOOLEAN
    BY <2>1, ReadFacts DEF PushInv, TypeInv, TypeOK
  <2> QED BY <2>1, <2>2, GoOnCopies
<1>5. CASE Flush
  <2>1. UNCHANGED <<session, cpc, source, outcome, late, kept>> /\ fp = "open"
    BY <1>5 DEF Flush, clientVars, histVars
  <2>2. CASE ~Started
    BY <1>1, <2>1, <2>2 DEF Started
  <2>3. CASE Started
    <3>1. ~(cpc = "done" /\ ~late)
      <4> SUFFICES ASSUME cpc = "done", ~late PROVE FALSE
        OBVIOUS
      <4>1. inbox = << >> /\ Whole
        BY DEF PushInv, StepInv
      <4> QED BY <4>1, <2>1, <2>3 DEF PushInv, ArriveInv, Alive, Started
    <3>2. Len(disk) <= Len(disk') \/ kept # Unfixed
      BY <1>5, <2>3, FlushFacts
    <3> QED BY <2>1, <2>3, <3>1, <3>2, DiskExtends
  <2> QED BY <2>2, <2>3
<1>6. CASE udb_debug_pushfile_init
  <2>1. /\ UNCHANGED <<session, cpc, source, late, kept>> /\ inbox # << >> /\ inbox' = Tail(inbox)
        /\ Head(inbox).chan = "PUSH_FILE_INIT"
    BY <1>6 DEF udb_debug_pushfile_init, Received, clientVars
  <2>2. Head(inbox) = inbox[1] /\ 1 \in 1 .. Len(inbox) /\ inbox[1] \in Req /\ IsInit(1)
    BY <2>1, PopFacts DEF IsInit
  <2>3. ~Started
    BY <2>2, StartedFacts
  <2>4. CASE ~Started'
    <3>1. Started' = Started
      BY <2>3, <2>4 DEF Started
    <3> QED BY <2>1, <2>3, <3>1, <1>1
  <2>5. CASE Started'
    <3>1. session \in 1 .. MaxSession /\ outcome[session] # "ok" /\ outcome'[session] = "ok"
      BY <2>1, <2>3, <2>5, QueueFacts DEF Started
    <3>2. PICK ok \in BOOLEAN : /\ disk' = CASE ok -> << >> [] ~ok /\ fp = "open" -> stream [] OTHER -> disk
                                /\ outcome' = [outcome EXCEPT ![inbox[1].sess] = IF ok THEN "ok" ELSE "no"]
      BY <1>6, <2>2 DEF udb_debug_pushfile_init
    <3>3. disk' = << >>
      <4>1. outcome \in [1 .. MaxSession -> Outcomes]
        BY QueueFacts
      <4>2. ok
        BY <3>1, <3>2, <4>1
      <4> QED BY <3>2, <4>2
    <3>4. Copy = << >> /\ Copy' = << >>
      <4>1. Copy = << >>
        BY <2>3, CopyTypes
      <4>2. kept # Unfixed => kept = << >>
        BY <2>3 DEF PushInv, KeptInv
      <4> QED BY <4>1, <4>2, <3>3, <2>1, <2>5 DEF Copy
    <3>5. Src = Unfixed /\ Src' \in {Expressible(content) : content \in Contents}
      <4>1. Src' = Expressible(source)
        BY <2>1, <2>5 DEF Src, Expressible
      <4>2. source \in Contents
        <5>1. session # 0
          BY <2>1, <2>5 DEF Started
        <5> QED BY <5>1, SourceFacts DEF PushInv
      <4> QED BY <4>1, <4>2, <2>3 DEF Src
    <3>6. Phase' = Phase /\ Phase \in {"copying", "abandoned"}
      <4>1. cpc # "idle"
        BY <3>1 DEF PushInv, TypeInv
      <4>2. ~(cpc = "done" /\ ~late)
        BY <2>1 DEF PushInv, StepInv
      <4> QED BY <4>1, <4>2, <2>1 DEF Phase, Running
    <3>7. FC!Fix
      BY <3>4, <3>5, <3>6 DEF FC!Fix, FC!UnderWay, Src
    <3> QED BY <3>7 DEF FC!Next
  <2> QED BY <2>4, <2>5
<1>7. CASE udb_debug_pushfile_fini
  <2>1. /\ UNCHANGED <<session, cpc, source, outcome, late, kept>> /\ inbox # << >>
        /\ (disk' = stream \/ disk' = disk)
    BY <1>7 DEF udb_debug_pushfile_fini, Received, clientVars, histVars
  <2>2. CASE ~Started
    BY <1>1, <2>1, <2>2 DEF Started
  <2>3. CASE Started
    <3>1. ~(cpc = "done" /\ ~late)
      BY <2>1 DEF PushInv, StepInv
    <3>2. Len(disk) <= Len(disk') \/ kept # Unfixed
      <4>1. kept = Unfixed => Len(disk) <= Len(stream)
        BY <2>3 DEF PushInv, StreamInv
      <4>2. Len(disk) \in Nat
        BY DEF PushInv, TypeInv, TypeOK
      <4> QED BY <4>1, <4>2, <2>1
    <3> QED BY <2>1, <2>3, <3>1, <3>2, DiskExtends
  <2> QED BY <2>2, <2>3
<1>8. CASE push_file_start
  <2>1. /\ ~Running /\ cpc' = "init" /\ late' = FALSE /\ session' = session + 1 /\ session < MaxSession
        /\ outcome' = outcome
    BY <1>8 DEF push_file_start
  <2>2. Phase # "copying" /\ Phase' = "copying"
    BY <2>1 DEF Phase, Running
  <2>3. ~Started'
    <3>1. session + 1 \in 1 .. MaxSession /\ session + 1 > session
      BY <2>1, QueueFacts
    <3>2. outcome[session + 1] = "none"
      BY <3>1 DEF PushInv, OrderInv
    <3> QED BY <2>1, <3>2 DEF Started
  <2>4. Src' = Unfixed /\ Copy' = << >>
    BY <2>3 DEF Src, Copy
  <2> QED BY <2>2, <2>4 DEF FC!Next, FC!Start, Src
<1>9. CASE push_file_end
  <2>1. /\ cpc = "fini" /\ Running /\ Reads /\ cpc' = "done" /\ ~Running'
        /\ UNCHANGED <<session, source, outcome, disk, kept>>
    BY <1>9 DEF push_file_end, serverVars, Running
  <2>2. /\ late \in BOOLEAN /\ late' \in BOOLEAN /\ (late => late')
        /\ ~late' => ~late /\ Whole /\ inbox = << >>
    BY <2>1, ReadFacts DEF PushInv, TypeInv, TypeOK
  <2>3. Started' = Started /\ Src' = Src /\ Copy' = Copy
    BY <2>1 DEF Src, Copy, Expressible, Started
  <2>4. CASE late
    BY <2>1, <2>2, <2>3, <2>4 DEF Phase
  <2>5. CASE ~late /\ (late' \/ ~Started)
    <3>1. Phase = "copying" /\ Phase' = "abandoned"
      BY <2>1, <2>3, <2>5 DEF Phase
    <3> QED BY <3>1, <2>3 DEF FC!Next, FC!Abandon, Src
  <2>6. CASE ~late' /\ Started
    <3>1. Phase = "copying" /\ Phase' = "done"
      BY <2>1, <2>2, <2>3, <2>6 DEF Phase
    <3>2. kept = Unfixed /\ disk = stream /\ Len(stream) = Size /\ stream = SubSeq(source, 1, Len(stream))
      <4>1. kept = Unfixed
        BY <2>2, <2>6 DEF PushInv, KeptInv
      <4> QED BY <4>1, <2>1, <2>2, <2>6 DEF PushInv, ArriveInv, StreamInv, Alive, Started
    <3>3. Src = SubSeq(source, 1, Size) /\ Src # Unfixed
      BY <2>6, SrcFacts
    <3>4. Copy' = Src
      BY <3>2, <3>3, <2>3, <2>6 DEF Copy
    <3>5. FC!Finish
      BY <3>1, <3>3, <3>4, <2>3 DEF FC!Finish, Src
    <3> QED BY <3>5 DEF FC!Next
  <2> QED BY <2>2, <2>4, <2>5, <2>6
<1>10. CASE Kill
  <2>1. Running /\ cpc' = "killed" /\ ~Running' /\ UNCHANGED <<session, source, outcome, disk, late, kept>>
        /\ late \in BOOLEAN
    BY <1>10 DEF Kill, serverVars, histVars, Running, PushInv, TypeInv, TypeOK
  <2>2. Src' = Src /\ Copy' = Copy
    BY <2>1 DEF Src, Copy, Expressible, Started
  <2>3. Phase' = "abandoned" /\ Phase \in {"copying", "abandoned"}
    BY <2>1 DEF Phase, Running
  <2> QED BY <2>2, <2>3 DEF FC!Next, FC!Abandon, Src
<1> QED BY <1>2, <1>3, <1>4, <1>5, <1>6, <1>7, <1>8, <1>9, <1>10 DEF Next, Server, Client

(* A push whose INIT the device accepted implements the abstract file copy,  *)
(* for every piece size and every interleaving with flushes of the C         *)
(* library, lost datagrams, clients that were killed or ran ahead of the     *)
(* server, and what they left queued.                                        *)
THEOREM PushImplementsCopy == Spec => PushesFile
<1>1. Init => FC!Init
  BY DEF Init, FC!Init, Started, Copy, Phase, Running
<1>2. PushInv /\ PushInv' /\ [Next]_vars => [FC!Next]_<<Src, Copy, Phase>>
  BY StepCopies
<1> QED BY <1>1, <1>2, PushInvariant, PTL DEF Spec, PushesFile, FC!Spec, Src

=============================================================================
