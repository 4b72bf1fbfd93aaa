----------------------------- MODULE PopenProofs -----------------------------
(***************************************************************************)
(* Proofs about uvc_popen and uvc_pclose called by two threads at once,    *)
(* for every number of calls and of descriptors, with calloc, pipe, fork,  *)
(* fdopen and fclose failing.                                              *)
(***************************************************************************)
EXTENDS Popen, SeqFacts, FiniteSetTheorems

Places == {"idle", "calloc", "pipe", "fork", "close", "record", "read", "pclose", "fclose", "wait",
           "dead"}

TypeInv ==
    /\ childpid # Null => childpid \in [Fd -> Call \cup {NoPid}]
    /\ fds \in [Fd -> End \cup {Free}]
    /\ pc \in [Thread -> Places]
    /\ round \in [Thread -> Nat] /\ \A t \in Thread : round[t] <= MaxRound[t]
    /\ \A t \in Thread : pc[t] \notin {"idle", "dead"} => round[t] # 0
    /\ pfd \in [Thread -> [r : Nat, w : Nat]]
    /\ pid \in [Thread -> Call \cup {NoPid}]
    /\ kid \in [Call -> {"none", "running", "zombie", "reaped"}]
    /\ raced \in BOOLEAN /\ failed \in BOOLEAN
    /\ \A t \in Thread : pc[t] \notin {"idle", "calloc", "dead"} /\ ~raced => childpid # Null

(* Where a thread has the two ends of its pipe open. *)
HasRead(t) == pc[t] \in {"fork", "close", "record", "read", "pclose", "fclose"}
HasWrite(t) == pc[t] \in {"fork", "close"}

(* A thread's descriptors are what it takes them for: no other thread closes *)
(* them or gets the same numbers.                                            *)
FdInv == \A t \in Thread :
    /\ HasRead(t) => pfd[t].r \in Fd /\ fds[pfd[t].r] = <<Mine(t), "r">>
    /\ HasWrite(t) => pfd[t].w \in Fd /\ fds[pfd[t].w] = <<Mine(t), "w">>

(* An entry of the table belongs to a call between popen_record and          *)
(* pclose_take, and there is one for each such call unless the first two     *)
(* calls raced.                                                              *)
TableInv ==
    /\ childpid # Null =>
          \A i \in Fd : childpid[i] # NoPid =>
              \E t \in Thread : /\ pc[t] \in {"read", "pclose"}
                                /\ i = pfd[t].r /\ childpid[i] = Mine(t)
    /\ PcloseFindsChild

(* Whatever is open or alive belongs to a call under way. *)
OwnedInv ==
    ~failed /\ ~raced =>
        /\ \A i \in Fd : fds[i] # Free =>
              \E t \in Thread : (HasRead(t) /\ i = pfd[t].r) \/ (HasWrite(t) /\ i = pfd[t].w)
        /\ \A c \in Call : kid[c] \in {"running", "zombie"} =>
              \E t \in Thread : /\ c = Mine(t)
                                /\ pc[t] \in {"close", "record", "read", "pclose", "fclose", "wait"}

PopenInv == TypeInv /\ FdInv /\ TableInv /\ OwnedInv

-----------------------------------------------------------------------------
(* The least of a set of descriptors. *)
LEMMA MinFacts ==
    ASSUME NEW S, S \subseteq Fd, S # {}
    PROVE  Min(S) \in S
<1>1. S \subseteq Nat
  BY PopenAssumption
<1>2. \E x \in S : \A y \in S : x <= y
  BY <1>1, LeastNat
<1> QED BY <1>2 DEF Min

(* pipe finds two descriptors that are free and distinct. *)
LEMMA TwoFree ==
    ASSUME NEW S, S \subseteq Fd, Cardinality(S) >= 2
    PROVE  /\ Min(S) \in S /\ Min(S \ {Min(S)}) \in S
           /\ Min(S \ {Min(S)}) # Min(S)
<1>1. IsFiniteSet(S) /\ Cardinality(S) \in Nat
  BY PopenAssumption, FS_Subset, FS_CardinalityType
<1>2. S # {}
  BY <1>1, FS_EmptySet
<1>3. Min(S) \in S
  BY <1>2, MinFacts
<1>4. PICK r \in S : r = Min(S)
  BY <1>3
<1>5. Cardinality(S \ {r}) = Cardinality(S) - 1
  BY <1>1, FS_RemoveElement
<1>6. S \ {r} # {}
  BY <1>1, <1>5, FS_EmptySet
<1>7. Min(S \ {r}) \in S \ {r}
  BY <1>6, MinFacts
<1> QED BY <1>3, <1>4, <1>7

LEMMA CallFacts ==
    ASSUME TypeInv, NEW t \in Thread
    PROVE  /\ pc[t] \notin {"idle", "dead"} => Mine(t) \in Call /\ Mine(t) # NoPid
           /\ pc[t] \notin {"idle", "dead"} =>
                 \A e \in {"r", "w"} : <<Mine(t), e>> \in End /\ <<Mine(t), e>> # Free
           /\ \A u \in Thread : Mine(t) = Mine(u) => t = u
<1>1. round[t] \in Nat /\ round[t] <= MaxRound[t] /\ MaxRound[t] \in Nat
  BY PopenAssumption DEF TypeInv, Thread
<1>2. \A u \in Thread : Mine(t) = Mine(u) => t = u
  BY DEF Mine
<1>3. ASSUME pc[t] \notin {"idle", "dead"}
      PROVE /\ Mine(t) \in Call /\ Mine(t) # NoPid
             /\ \A e \in {"r", "w"} : <<Mine(t), e>> # Free
  <2>1. round[t] \in 1 .. MaxRound[t]
    BY <1>1, <1>3 DEF TypeInv
  <2>2. <<t, round[t]>> \in {t} \X (1 .. MaxRound[t])
    BY <2>1
  <2>3. Mine(t) \in Call
    BY <2>2 DEF Call, Mine
  <2>4. \A e \in {"r", "w"} : <<Mine(t), e>> \in End
    BY <2>3 DEF End
  <2> QED BY <2>3, <2>4, PopenAssumption
<1> QED BY <1>2, <1>3 DEF End

LEMMA InitInv == Init => PopenInv
<1> SUFFICES ASSUME Init PROVE PopenInv
  OBVIOUS
<1>1. TypeInv
  <2>1. \A t \in Thread : round[t] <= MaxRound[t]
    BY PopenAssumption DEF Init, Thread
  <2> QED BY <2>1 DEF Init, TypeInv, Places, NoPfd
<1>2. FdInv /\ TableInv /\ OwnedInv
  BY DEF Init, FdInv, TableInv, OwnedInv, HasRead, HasWrite, PcloseFindsChild
<1> QED BY <1>1, <1>2 DEF PopenInv

(* A thread that only changes its place keeps what it has. *)
LEMMA PlaceFacts ==
    ASSUME TypeInv, NEW t \in Thread, NEW place \in Places, Goto(t, place)
    PROVE  /\ pc' \in [Thread -> Places] /\ pc'[t] = place
           /\ \A u \in Thread : u # t => pc'[u] = pc[u]
  BY DEF TypeInv, Goto
(* Two threads never share a descriptor. *)
LEMMA Apart ==
    ASSUME TypeInv, FdInv, NEW t \in Thread, NEW u \in Thread
    PROVE  /\ HasRead(t) /\ HasRead(u) /\ pfd[t].r = pfd[u].r => t = u
           /\ HasWrite(t) /\ HasWrite(u) /\ pfd[t].w = pfd[u].w => t = u
           /\ HasRead(t) /\ HasWrite(u) => pfd[t].r # pfd[u].w
<1>1. Mine(t) = Mine(u) => t = u
  BY CallFacts
<1>2. \A e, f : <<Mine(t), e>> = <<Mine(u), f>> => t = u /\ e = f
  BY <1>1
<1>3. "r" # "w"
  OBVIOUS
<1>4. /\ HasRead(t) => fds[pfd[t].r] = <<Mine(t), "r">>
      /\ HasWrite(t) => fds[pfd[t].w] = <<Mine(t), "w">>
      /\ HasRead(u) => fds[pfd[u].r] = <<Mine(u), "r">>
      /\ HasWrite(u) => fds[pfd[u].w] = <<Mine(u), "w">>
  BY DEF FdInv
<1> QED BY <1>2, <1>3, <1>4

LEMMA CheckInv == ASSUME PopenInv, NEW t \in Thread, popen_check(t) PROVE PopenInv'
<1>1. /\ pc[t] = "idle" /\ round[t] < MaxRound[t] /\ round' = [round EXCEPT ![t] = @ + 1]
      /\ Goto(t, IF childpid = Null THEN "calloc" ELSE "pipe")
      /\ UNCHANGED <<childpid, fds, pfd, pid, kid, raced, failed>> /\ TypeInv
  BY DEF popen_check, kidVars, PopenInv
<1>2. PICK place \in Places : Goto(t, place) /\ place \in {"calloc", "pipe"}
                              /\ (place = "pipe" => childpid # Null)
  BY <1>1 DEF Places
<1>3. /\ pc' \in [Thread -> Places] /\ pc'[t] = place
      /\ \A u \in Thread : u # t => pc'[u] = pc[u]
  BY <1>1, <1>2, PlaceFacts
<1>4. round' \in [Thread -> Nat] /\ round'[t] # 0 /\ round'[t] <= MaxRound[t]
      /\ \A u \in Thread : u # t => round'[u] = round[u] /\ Mine(u)' = Mine(u)
  <2>1. round \in [Thread -> Nat] /\ MaxRound[t] \in Nat
    BY PopenAssumption DEF PopenInv, TypeInv, Thread
  <2>2. round'[t] = round[t] + 1 /\ round[t] \in Nat
    BY <1>1, <2>1
  <2>3. round' \in [Thread -> Nat]
    BY <1>1, <2>1
  <2>4. \A u \in Thread : u # t => round'[u] = round[u]
    BY <1>1, <2>1
  <2> QED BY <1>1, <2>1, <2>2, <2>3, <2>4 DEF Mine
<1>5. TypeInv'
  BY <1>1, <1>2, <1>3, <1>4 DEF PopenInv, TypeInv
<1>6. \A u \in Thread : /\ u = t => ~HasRead(u) /\ ~HasRead(u)' /\ ~HasWrite(u) /\ ~HasWrite(u)'
                        /\ HasRead(u)' = HasRead(u) /\ HasWrite(u)' = HasWrite(u)
  BY <1>1, <1>2, <1>3 DEF HasRead, HasWrite
<1>7. FdInv'
  BY <1>1, <1>4, <1>6 DEF PopenInv, FdInv
<1>8. TableInv'
  BY <1>1, <1>2, <1>3, <1>4 DEF PopenInv, TableInv, PcloseFindsChild
<1>9. OwnedInv'
  <2> SUFFICES ASSUME ~failed, ~raced
      PROVE  /\ \A i \in Fd : fds[i] # Free => \E u \in Thread : (HasRead(u)' /\ i = pfd[u].r)
                                                                 \/ (HasWrite(u)' /\ i = pfd[u].w)
             /\ \A c \in Call : kid[c] \in {"running", "zombie"} =>
                  \E u \in Thread : /\ c = Mine(u)'
                                    /\ pc'[u] \in {"close", "record", "read", "pclose", "fclose", "wait"}
    BY <1>1 DEF OwnedInv
  <2>1. \A i \in Fd : fds[i] # Free => \E u \in Thread : (HasRead(u)' /\ i = pfd[u].r)
                                                         \/ (HasWrite(u)' /\ i = pfd[u].w)
    BY <1>6 DEF PopenInv, OwnedInv
  <2>2. ASSUME NEW c \in Call, kid[c] \in {"running", "zombie"}
        PROVE  \E u \in Thread : /\ c = Mine(u)'
                                 /\ pc'[u] \in {"close", "record", "read", "pclose", "fclose", "wait"}
    <3>1. PICK u \in Thread : /\ c = Mine(u)
                              /\ pc[u] \in {"close", "record", "read", "pclose", "fclose", "wait"}
      BY <2>2 DEF PopenInv, OwnedInv
    <3>2. u # t
      BY <3>1, <1>1
    <3> QED BY <3>1, <3>2, <1>3, <1>4
  <2> QED BY <2>1, <2>2
<1> QED BY <1>5, <1>7, <1>8, <1>9 DEF PopenInv

LEMMA CallocInv == ASSUME PopenInv, NEW t \in Thread, popen_calloc(t) PROVE PopenInv'
<1>1. /\ pc[t] = "calloc" /\ raced' = (raced \/ (childpid # Null /\ childpid' # childpid))
      /\ UNCHANGED <<fds, round, pfd, pid, kid, failed>> /\ TypeInv
  BY DEF popen_calloc, kidVars, PopenInv
<1>2. PICK place \in Places :
         /\ Goto(t, place)
         /\ \/ place = "pipe" /\ childpid' = [i \in Fd |-> NoPid]
            \/ place = "idle" /\ childpid' \in {childpid, Null}
  BY DEF popen_calloc, Places
<1>3. /\ pc' \in [Thread -> Places] /\ pc'[t] = place
      /\ \A u \in Thread : u # t => pc'[u] = pc[u]
  BY <1>1, <1>2, PlaceFacts
<1>4. \A u \in Thread : Mine(u)' = Mine(u)
  BY <1>1 DEF Mine
<1>5. /\ childpid' # Null => childpid' \in [Fd -> Call \cup {NoPid}]
      /\ place = "pipe" => childpid' # Null
  BY <1>1, <1>2, PopenAssumption DEF TypeInv
<1>6. /\ raced' \in BOOLEAN
      /\ ~raced' => ~raced /\ (childpid = Null \/ childpid' = childpid)
  BY <1>1 DEF TypeInv
<1>7. TypeInv'
  BY <1>1, <1>2, <1>3, <1>5, <1>6 DEF TypeInv
<1>8. \A u \in Thread : HasRead(u)' = HasRead(u) /\ HasWrite(u)' = HasWrite(u)
  BY <1>1, <1>2, <1>3 DEF HasRead, HasWrite
<1>9. FdInv'
  BY <1>1, <1>4, <1>8 DEF PopenInv, FdInv
<1>10. TableInv'
  <2>1. \A u \in Thread : /\ pc'[u] \in {"read", "pclose", "fclose", "wait"} => pc'[u] = pc[u]
                          /\ pc[u] \in {"read", "pclose"} => pc'[u] = pc[u]
    BY <1>1, <1>2, <1>3
  <2>2. ASSUME NEW u \in Thread, pc'[u] \in {"read", "pclose"}, ~raced'
        PROVE  childpid' = childpid
    BY <1>1, <1>6, <2>1, <2>2 DEF TypeInv
  <2>3. PcloseFindsChild'
    BY <1>1, <1>4, <1>6, <2>1, <2>2 DEF PopenInv, TableInv, PcloseFindsChild
  <2>4. ASSUME childpid' # Null, NEW i \in Fd, childpid'[i] # NoPid
        PROVE  \E u \in Thread : /\ pc'[u] \in {"read", "pclose"}
                                 /\ i = pfd[u].r /\ childpid'[i] = Mine(u)
    <3>1. childpid' = childpid /\ childpid # Null
      BY <1>2, <2>4
    <3> QED BY <3>1, <2>1, <2>4 DEF PopenInv, TableInv
  <2> QED BY <1>1, <1>4, <2>3, <2>4 DEF TableInv
<1>11. OwnedInv'
  <2>1. \A u \in Thread : pc[u] \in {"close", "record", "read", "pclose", "fclose", "wait"} => pc'[u] = pc[u]
    BY <1>1, <1>3
  <2> QED BY <1>1, <1>4, <1>6, <1>8, <2>1 DEF PopenInv, OwnedInv
<1> QED BY <1>7, <1>9, <1>10, <1>11 DEF PopenInv

LEMMA PipeInv == ASSUME PopenInv, NEW t \in Thread, popen_pipe(t) PROVE PopenInv'
<1> DEFINE free == {i \in Fd : fds[i] = Free}
<1>1. /\ pc[t] = "pipe" /\ TypeInv
      /\ UNCHANGED <<childpid, round, pid, kid, raced, failed>>
  BY DEF popen_pipe, kidVars, PopenInv
<1>2. \A u \in Thread : Mine(u)' = Mine(u)
  BY <1>1 DEF Mine
<1>3. CASE Goto(t, "idle") /\ UNCHANGED <<fds, pfd>>
  <2>1. /\ pc' \in [Thread -> Places] /\ pc'[t] = "idle"
        /\ \A u \in Thread : u # t => pc'[u] = pc[u]
    BY <1>1, <1>3, PlaceFacts DEF Places
  <2>2. TypeInv'
    BY <1>1, <1>3, <2>1 DEF TypeInv
  <2>3. \A u \in Thread : HasRead(u)' = HasRead(u) /\ HasWrite(u)' = HasWrite(u)
    BY <1>1, <2>1 DEF HasRead, HasWrite
  <2>4. FdInv'
    BY <1>2, <1>3, <2>3 DEF PopenInv, FdInv
  <2>5. TableInv'
    BY <1>1, <1>2, <1>3, <2>1 DEF PopenInv, TableInv, PcloseFindsChild
  <2>6. OwnedInv'
    BY <1>1, <1>2, <1>3, <2>1, <2>3 DEF PopenInv, OwnedInv
  <2> QED BY <2>2, <2>4, <2>5, <2>6 DEF PopenInv
<1>4. CASE /\ Cardinality(free) >= 2
           /\ LET r == Min(free)
                  w == Min(free \ {r})
              IN  /\ pfd' = [pfd EXCEPT ![t] = [r |-> r, w |-> w]]
                  /\ fds' = [fds EXCEPT ![r] = <<Mine(t), "r">>, ![w] = <<Mine(t), "w">>]
           /\ Goto(t, "fork")
  <2>1. free \subseteq Fd
    OBVIOUS
  <2>2. Min(free) \in free /\ Min(free \ {Min(free)}) \in free /\ Min(free \ {Min(free)}) # Min(free)
    BY <1>4, <2>1, TwoFree
  <2>3. PICK r \in free, w \in free :
            /\ r # w /\ pfd' = [pfd EXCEPT ![t] = [r |-> r, w |-> w]]
            /\ fds' = [fds EXCEPT ![r] = <<Mine(t), "r">>, ![w] = <<Mine(t), "w">>]
    <3> HIDE DEF free
    <3> QED BY <1>4, <2>2
  <2>4. /\ pc' \in [Thread -> Places] /\ pc'[t] = "fork"
        /\ \A u \in Thread : u # t => pc'[u] = pc[u]
    BY <1>1, <1>4, PlaceFacts DEF Places
  <2>5. r \in Fd /\ w \in Fd /\ r \in Nat /\ w \in Nat /\ fds[r] = Free /\ fds[w] = Free
    BY PopenAssumption
  <2>6. /\ pfd' \in [Thread -> [r : Nat, w : Nat]] /\ pfd'[t].r = r /\ pfd'[t].w = w
        /\ \A u \in Thread : u # t => pfd'[u] = pfd[u]
    BY <1>1, <2>3, <2>5 DEF TypeInv
  <2>7. /\ Mine(t) \in Call /\ <<Mine(t), "r">> \in End /\ <<Mine(t), "w">> \in End
    BY <1>1, CallFacts
  <2>8. /\ fds' \in [Fd -> End \cup {Free}] /\ fds'[r] = <<Mine(t), "r">> /\ fds'[w] = <<Mine(t), "w">>
        /\ \A i \in Fd : i # r /\ i # w => fds'[i] = fds[i]
    <3>1. fds \in [Fd -> End \cup {Free}]
      BY <1>1 DEF TypeInv
    <3> QED BY <3>1, <2>3, <2>5, <2>7
  <2>9. TypeInv'
    BY <1>1, <2>4, <2>6, <2>8 DEF TypeInv
  <2>10. \A u \in Thread : u # t => HasRead(u)' = HasRead(u) /\ HasWrite(u)' = HasWrite(u)
    BY <2>4 DEF HasRead, HasWrite
  <2>11. HasRead(t)' /\ HasWrite(t)' /\ ~HasRead(t) /\ ~HasWrite(t)
    BY <1>1, <2>4 DEF HasRead, HasWrite
  <2>12. FdInv'
    <3> SUFFICES ASSUME NEW u \in Thread
                 PROVE  /\ HasRead(u)' => pfd'[u].r \in Fd /\ fds'[pfd'[u].r] = <<Mine(u), "r">>
                        /\ HasWrite(u)' => pfd'[u].w \in Fd /\ fds'[pfd'[u].w] = <<Mine(u), "w">>
      BY <1>2 DEF FdInv
    <3>1. CASE u = t
      BY <3>1, <2>5, <2>6, <2>8
    <3>2. CASE u # t
      <4>1. /\ HasRead(u) => pfd[u].r \in Fd /\ fds[pfd[u].r] = <<Mine(u), "r">>
            /\ HasWrite(u) => pfd[u].w \in Fd /\ fds[pfd[u].w] = <<Mine(u), "w">>
        BY DEF PopenInv, FdInv
      <4>2. HasRead(u) \/ HasWrite(u) => <<Mine(u), "r">> # Free /\ <<Mine(u), "w">> # Free
        BY <1>1, CallFacts DEF HasRead, HasWrite
      <4>3. (HasRead(u) => pfd[u].r # r /\ pfd[u].r # w) /\ (HasWrite(u) => pfd[u].w # r /\ pfd[u].w # w)
        BY <4>1, <4>2, <2>5
      <4> QED BY <3>2, <4>1, <4>3, <2>6, <2>8, <2>10
    <3> QED BY <3>1, <3>2
  <2>13. TableInv'
    <3>1. \A u \in Thread : pc'[u] \in {"read", "pclose", "fclose", "wait"} => u # t
      BY <2>4
    <3>2. \A u \in Thread : pc[u] \in {"read", "pclose"} => u # t
      BY <1>1
    <3>3. PcloseFindsChild'
      BY <1>1, <1>2, <2>4, <2>6, <3>1 DEF PopenInv, TableInv, PcloseFindsChild
    <3> QED BY <1>1, <1>2, <2>4, <2>6, <3>2, <3>3 DEF PopenInv, TableInv
  <2>14. OwnedInv'
    <3> SUFFICES ASSUME ~failed, ~raced
        PROVE  /\ \A i \in Fd : fds'[i] # Free => \E u \in Thread : (HasRead(u)' /\ i = pfd'[u].r)
                                                                    \/ (HasWrite(u)' /\ i = pfd'[u].w)
               /\ \A c \in Call : kid[c] \in {"running", "zombie"} =>
                    \E u \in Thread : /\ c = Mine(u)
                                      /\ pc'[u] \in {"close", "record", "read", "pclose", "fclose", "wait"}
      BY <1>1, <1>2 DEF OwnedInv
    <3>1. ASSUME NEW i \in Fd, fds'[i] # Free
          PROVE  \E u \in Thread : (HasRead(u)' /\ i = pfd'[u].r) \/ (HasWrite(u)' /\ i = pfd'[u].w)
      <4>1. CASE i = r \/ i = w
        BY <4>1, <2>6, <2>11
      <4>2. CASE i # r /\ i # w
        <5>1. PICK u \in Thread : (HasRead(u) /\ i = pfd[u].r) \/ (HasWrite(u) /\ i = pfd[u].w)
          BY <3>1, <4>2, <2>8 DEF PopenInv, OwnedInv
        <5>2. u # t
          BY <5>1, <2>11
        <5> QED BY <5>1, <5>2, <2>6, <2>10
      <4> QED BY <4>1, <4>2
    <3>2. \A c \in Call : kid[c] \in {"running", "zombie"} =>
                    \E u \in Thread : /\ c = Mine(u)
                                      /\ pc'[u] \in {"close", "record", "read", "pclose", "fclose", "wait"}
      BY <1>1, <2>4 DEF PopenInv, OwnedInv
    <3> QED BY <3>1, <3>2
  <2> QED BY <2>9, <2>12, <2>13, <2>14 DEF PopenInv
<1> QED BY <1>3, <1>4 DEF popen_pipe
Alive == {"close", "record", "read", "pclose", "fclose", "wait"}

LEMMA ForkInv == ASSUME PopenInv, NEW t \in Thread, popen_fork(t) PROVE PopenInv'
<1>1. /\ pc[t] = "fork" /\ TypeInv
      /\ UNCHANGED <<childpid, fds, round, pfd, pid, raced>>
  BY DEF popen_fork, PopenInv
<1>2. \A u \in Thread : Mine(u)' = Mine(u)
  BY <1>1 DEF Mine
<1>3. PICK place \in Places :
         /\ Goto(t, place)
         /\ \/ place = "close" /\ failed' = failed /\ kid' = [kid EXCEPT ![Mine(t)] = "running"]
            \/ place = "idle" /\ failed' = TRUE /\ kid' = kid
  BY DEF popen_fork, kidVars, Places
<1>4. /\ pc' \in [Thread -> Places] /\ pc'[t] = place
      /\ \A u \in Thread : u # t => pc'[u] = pc[u]
  BY <1>1, <1>3, PlaceFacts
<1>5. kid' \in [Call -> {"none", "running", "zombie", "reaped"}] /\ failed' \in BOOLEAN
  BY <1>1, <1>3 DEF TypeInv
<1>6. TypeInv'
  BY <1>1, <1>4, <1>5 DEF TypeInv
<1>7. \A u \in Thread : /\ (HasRead(u)' => HasRead(u)) /\ (HasWrite(u)' => HasWrite(u))
                        /\ (u # t \/ place = "close" =>
                               HasRead(u)' = HasRead(u) /\ HasWrite(u)' = HasWrite(u))
  BY <1>1, <1>3, <1>4 DEF HasRead, HasWrite
<1>8. FdInv'
  <2>1. \A u \in Thread : (HasRead(u)' => HasRead(u)) /\ (HasWrite(u)' => HasWrite(u))
    BY <1>1, <1>3, <1>4 DEF HasRead, HasWrite
  <2> QED BY <1>1, <1>2, <2>1 DEF PopenInv, FdInv
<1>9. TableInv'
  <2>1. \A u \in Thread : /\ pc'[u] \in {"read", "pclose", "fclose", "wait"} => pc'[u] = pc[u]
                          /\ pc[u] \in {"read", "pclose"} => pc'[u] = pc[u]
    BY <1>1, <1>3, <1>4
  <2> QED BY <1>1, <1>2, <2>1 DEF PopenInv, TableInv, PcloseFindsChild
<1>10. OwnedInv'
  <2> SUFFICES ASSUME ~failed', ~raced
      PROVE  /\ \A i \in Fd : fds[i] # Free => \E u \in Thread : (HasRead(u)' /\ i = pfd[u].r)
                                                                 \/ (HasWrite(u)' /\ i = pfd[u].w)
             /\ \A c \in Call : kid'[c] \in {"running", "zombie"} =>
                                   \E u \in Thread : c = Mine(u) /\ pc'[u] \in Alive
    BY <1>1, <1>2 DEF OwnedInv, Alive
  <2>1. place = "close" /\ ~failed /\ kid' = [kid EXCEPT ![Mine(t)] = "running"]
    BY <1>3
  <2>2. \A i \in Fd : fds[i] # Free => \E u \in Thread : (HasRead(u)' /\ i = pfd[u].r)
                                                         \/ (HasWrite(u)' /\ i = pfd[u].w)
    BY <1>7, <2>1 DEF PopenInv, OwnedInv
  <2>3. ASSUME NEW c \in Call, kid'[c] \in {"running", "zombie"}
        PROVE  \E u \in Thread : c = Mine(u) /\ pc'[u] \in Alive
    <3>1. CASE c = Mine(t)
      BY <3>1, <2>1, <1>4 DEF Alive
    <3>2. CASE c # Mine(t)
      <4>1. kid'[c] = kid[c]
        BY <3>2, <2>1, <1>1 DEF TypeInv
      <4>2. PICK u \in Thread : c = Mine(u) /\ pc[u] \in Alive
        BY <4>1, <2>1, <2>3 DEF PopenInv, OwnedInv, Alive
      <4> QED BY <4>2, <3>2, <1>4
    <3> QED BY <3>1, <3>2
  <2> QED BY <2>2, <2>3
<1> QED BY <1>6, <1>8, <1>9, <1>10 DEF PopenInv

LEMMA CloseInv == ASSUME PopenInv, NEW t \in Thread, popen_close(t) PROVE PopenInv'
<1>1. /\ pc[t] = "close" /\ TypeInv /\ fds' = [fds EXCEPT ![pfd[t].w] = Free]
      /\ UNCHANGED <<childpid, round, pfd, pid, kid, raced>>
  BY DEF popen_close, kidVars, PopenInv
<1>2. \A u \in Thread : Mine(u)' = Mine(u)
  BY <1>1 DEF Mine
<1>3. PICK place \in Places :
         /\ Goto(t, place)
         /\ (place = "record" /\ failed' = failed) \/ (place = "idle" /\ failed' = TRUE)
  BY DEF popen_close, Places
<1>4. /\ pc' \in [Thread -> Places] /\ pc'[t] = place
      /\ \A u \in Thread : u # t => pc'[u] = pc[u]
  BY <1>1, <1>3, PlaceFacts
<1>5. HasWrite(t) /\ HasRead(t) /\ pfd[t].w \in Fd
  BY <1>1 DEF HasWrite, HasRead, PopenInv, FdInv
<1>6. /\ fds' \in [Fd -> End \cup {Free}] /\ fds'[pfd[t].w] = Free
      /\ \A i \in Fd : i # pfd[t].w => fds'[i] = fds[i]
  BY <1>1, <1>5 DEF TypeInv
<1>7. TypeInv'
  BY <1>1, <1>3, <1>4, <1>6 DEF TypeInv
<1>8. \A u \in Thread : /\ HasRead(u)' => HasRead(u)
                        /\ HasWrite(u)' => HasWrite(u) /\ u # t
                        /\ u # t => HasRead(u)' = HasRead(u) /\ HasWrite(u)' = HasWrite(u)
                        /\ place = "record" => HasRead(u)' = HasRead(u)
  BY <1>1, <1>3, <1>4 DEF HasRead, HasWrite
<1>9. FdInv'
  <2> SUFFICES ASSUME NEW u \in Thread
               PROVE  /\ HasRead(u)' => pfd[u].r \in Fd /\ fds'[pfd[u].r] = <<Mine(u), "r">>
                      /\ HasWrite(u)' => pfd[u].w \in Fd /\ fds'[pfd[u].w] = <<Mine(u), "w">>
    BY <1>1, <1>2 DEF FdInv
  <2>1. /\ HasRead(u) => pfd[u].r \in Fd /\ fds[pfd[u].r] = <<Mine(u), "r">>
        /\ HasWrite(u) => pfd[u].w \in Fd /\ fds[pfd[u].w] = <<Mine(u), "w">>
    BY DEF PopenInv, FdInv
  <2>2. (HasRead(u) => pfd[u].r # pfd[t].w) /\ (HasWrite(u) /\ u # t => pfd[u].w # pfd[t].w)
    BY <1>5, Apart DEF PopenInv
  <2> QED BY <2>1, <2>2, <1>6, <1>8
<1>10. TableInv'
  <2>1. \A u \in Thread : /\ pc'[u] \in {"read", "pclose", "fclose", "wait"} => pc'[u] = pc[u]
                          /\ pc[u] \in {"read", "pclose"} => pc'[u] = pc[u]
    BY <1>1, <1>3, <1>4
  <2> QED BY <1>1, <1>2, <2>1 DEF PopenInv, TableInv, PcloseFindsChild
<1>11. OwnedInv'
  <2> SUFFICES ASSUME ~failed', ~raced
      PROVE  /\ \A i \in Fd : fds'[i] # Free => \E u \in Thread : (HasRead(u)' /\ i = pfd[u].r)
                                                                  \/ (HasWrite(u)' /\ i = pfd[u].w)
             /\ \A c \in Call : kid[c] \in {"running", "zombie"} =>
                                   \E u \in Thread : c = Mine(u) /\ pc'[u] \in Alive
    BY <1>1, <1>2 DEF OwnedInv, Alive
  <2>1. place = "record" /\ ~failed
    BY <1>3
  <2>2. ASSUME NEW i \in Fd, fds'[i] # Free
        PROVE  \E u \in Thread : (HasRead(u)' /\ i = pfd[u].r) \/ (HasWrite(u)' /\ i = pfd[u].w)
    <3>1. fds[i] # Free /\ i # pfd[t].w
      BY <2>2, <1>6
    <3>2. PICK u \in Thread : (HasRead(u) /\ i = pfd[u].r) \/ (HasWrite(u) /\ i = pfd[u].w)
      BY <3>1, <2>1 DEF PopenInv, OwnedInv
    <3> QED BY <3>1, <3>2, <2>1, <1>8
  <2>3. \A u \in Thread : pc[u] \in Alive => pc'[u] \in Alive
    BY <1>4, <2>1 DEF Alive
  <2>4. \A c \in Call : kid[c] \in {"running", "zombie"} =>
                           \E u \in Thread : c = Mine(u) /\ pc'[u] \in Alive
    BY <2>1, <2>3 DEF PopenInv, OwnedInv, Alive
  <2> QED BY <2>2, <2>4
<1> QED BY <1>7, <1>9, <1>10, <1>11 DEF PopenInv

(* The store through a null pointer ends both threads. *)
LEMMA DeadInv == ASSUME PopenInv, NEW t \in Thread, popen_record(t), childpid = Null PROVE PopenInv'
<1>1. /\ pc[t] = "record" /\ TypeInv /\ pc' = [u \in Thread |-> "dead"]
      /\ UNCHANGED <<childpid, fds, round, pfd, pid, kid, raced, failed>>
  BY DEF popen_record, kidVars, PopenInv
<1>2. raced
  BY <1>1 DEF TypeInv
<1>3. TypeInv'
  BY <1>1, <1>2 DEF TypeInv, Places
<1> QED BY <1>1, <1>2, <1>3 DEF PopenInv, FdInv, TableInv, OwnedInv, HasRead, HasWrite, PcloseFindsChild

LEMMA RecordInv == ASSUME PopenInv, NEW t \in Thread, popen_record(t), childpid # Null PROVE PopenInv'
<1>1. /\ pc[t] = "record" /\ TypeInv /\ childpid' = [childpid EXCEPT ![pfd[t].r] = Mine(t)]
      /\ Goto(t, "read") /\ UNCHANGED <<fds, round, pfd, pid, kid, raced, failed>>
  BY DEF popen_record, kidVars, PopenInv
<1>2. \A u \in Thread : Mine(u)' = Mine(u)
  BY <1>1 DEF Mine
<1>3. /\ pc' \in [Thread -> Places] /\ pc'[t] = "read"
      /\ \A u \in Thread : u # t => pc'[u] = pc[u]
  BY <1>1, PlaceFacts DEF Places
<1>4. HasRead(t) /\ pfd[t].r \in Fd /\ Mine(t) \in Call /\ Mine(t) # NoPid /\ childpid # Null
      /\ childpid \in [Fd -> Call \cup {NoPid}]
  BY <1>1, CallFacts DEF HasRead, PopenInv, FdInv, TypeInv
<1>5. /\ childpid' \in [Fd -> Call \cup {NoPid}] /\ childpid'[pfd[t].r] = Mine(t)
      /\ \A i \in Fd : i # pfd[t].r => childpid'[i] = childpid[i]
  BY <1>1, <1>4
<1>6. childpid' # Null
  BY <1>5, PopenAssumption
<1>7. TypeInv'
  BY <1>1, <1>3, <1>5, <1>6 DEF TypeInv
<1>8. \A u \in Thread : HasRead(u)' = HasRead(u) /\ HasWrite(u)' = HasWrite(u)
  BY <1>1, <1>3 DEF HasRead, HasWrite
<1>9. FdInv'
  BY <1>1, <1>2, <1>8 DEF PopenInv, FdInv
<1>10. TableInv'
  <2>1. ASSUME NEW i \in Fd, childpid'[i] # NoPid
        PROVE  \E u \in Thread : pc'[u] \in {"read", "pclose"} /\ i = pfd[u].r /\ childpid'[i] = Mine(u)
    <3>1. CASE i = pfd[t].r
      BY <3>1, <1>3, <1>5
    <3>2. CASE i # pfd[t].r
      <4>1. PICK u \in Thread : pc[u] \in {"read", "pclose"} /\ i = pfd[u].r /\ childpid[i] = Mine(u)
        BY <2>1, <3>2, <1>4, <1>5 DEF PopenInv, TableInv
      <4> QED BY <4>1, <3>2, <1>3, <1>5
    <3> QED BY <3>1, <3>2
  <2>2. ASSUME NEW u \in Thread, pc'[u] \in {"read", "pclose"}, ~raced
        PROVE  childpid'[pfd[u].r] = Mine(u)
    <3>1. CASE u = t
      BY <3>1, <1>5
    <3>2. CASE u # t
      <4>1. pc[u] \in {"read", "pclose"} /\ childpid[pfd[u].r] = Mine(u) /\ HasRead(u)
        BY <2>2, <3>2, <1>3 DEF PopenInv, TableInv, PcloseFindsChild, HasRead
      <4>2. pfd[u].r \in Fd /\ pfd[u].r # pfd[t].r
        BY <3>2, <4>1, <1>4, Apart DEF PopenInv, FdInv
      <4> QED BY <4>1, <4>2, <1>5
    <3> QED BY <3>1, <3>2
  <2>3. \A u \in Thread : pc'[u] \in {"fclose", "wait"} => pid[u] = Mine(u)
    BY <1>3 DEF PopenInv, TableInv, PcloseFindsChild
  <2> QED BY <1>1, <1>2, <2>1, <2>2, <2>3 DEF TableInv, PcloseFindsChild
<1>11. OwnedInv'
  <2>1. \A u \in Thread : pc[u] \in Alive => pc'[u] \in Alive
    BY <1>3 DEF Alive
  <2> QED BY <1>1, <1>2, <1>8, <2>1 DEF PopenInv, OwnedInv, Alive
<1> QED BY <1>7, <1>9, <1>10, <1>11 DEF PopenInv

LEMMA ReadInv ==
    ASSUME PopenInv, NEW t \in Thread, read_output(t) \/ (t = Worker /\ worker_timeout)
    PROVE  PopenInv'
<1>1. /\ pc[t] = "read" /\ TypeInv /\ Goto(t, "pclose")
      /\ UNCHANGED <<childpid, fds, round, pfd, pid, kid, raced, failed>>
  BY DEF read_output, worker_timeout, kidVars, PopenInv
<1>2. \A u \in Thread : Mine(u)' = Mine(u)
  BY <1>1 DEF Mine
<1>3. /\ pc' \in [Thread -> Places] /\ pc'[t] = "pclose"
      /\ \A u \in Thread : u # t => pc'[u] = pc[u]
  BY <1>1, PlaceFacts DEF Places
<1>4. TypeInv'
  BY <1>1, <1>3 DEF TypeInv
<1>5. \A u \in Thread : HasRead(u)' = HasRead(u) /\ HasWrite(u)' = HasWrite(u)
  BY <1>1, <1>3 DEF HasRead, HasWrite
<1>6. FdInv'
  BY <1>1, <1>2, <1>5 DEF PopenInv, FdInv
<1>7. TableInv'
  <2>1. \A u \in Thread : /\ pc'[u] \in {"read", "pclose"} <=> pc[u] \in {"read", "pclose"}
                          /\ pc'[u] \in {"fclose", "wait"} <=> pc[u] \in {"fclose", "wait"}
    BY <1>1, <1>3
  <2> QED BY <1>1, <1>2, <2>1 DEF PopenInv, TableInv, PcloseFindsChild
<1>8. OwnedInv'
  <2>1. \A u \in Thread : pc[u] \in Alive => pc'[u] \in Alive
    BY <1>3 DEF Alive
  <2> QED BY <1>1, <1>2, <1>5, <2>1 DEF PopenInv, OwnedInv, Alive
<1> QED BY <1>4, <1>6, <1>7, <1>8 DEF PopenInv

(* What a thread finds in the table under its descriptor is its own child. *)
LEMMA OwnEntry ==
    ASSUME PopenInv, NEW t \in Thread, pc[t] = "pclose", Listed(pfd[t].r)
    PROVE  childpid[pfd[t].r] = Mine(t)
<1>1. HasRead(t) /\ pfd[t].r \in Fd /\ childpid # Null /\ childpid[pfd[t].r] # NoPid
  BY DEF HasRead, PopenInv, FdInv, Listed
<1>2. PICK u \in Thread : /\ pc[u] \in {"read", "pclose"} /\ pfd[t].r = pfd[u].r
                          /\ childpid[pfd[t].r] = Mine(u)
  BY <1>1 DEF PopenInv, TableInv
<1>3. u = t
  BY <1>1, <1>2, Apart DEF PopenInv, HasRead
<1> QED BY <1>2, <1>3

(* A thread that finds nothing had its entry in a table that was replaced. *)
LEMMA TakeNoneInv ==
    ASSUME PopenInv, NEW t \in Thread, pclose_take(t), ~Listed(pfd[t].r) PROVE PopenInv'
<1>1. /\ pc[t] = "pclose" /\ TypeInv /\ Goto(t, "idle")
      /\ UNCHANGED <<childpid, fds, round, pfd, pid, kid, raced, failed>>
  BY DEF pclose_take, kidVars, PopenInv
<1>2. \A u \in Thread : Mine(u)' = Mine(u)
  BY <1>1 DEF Mine
<1>3. /\ pc' \in [Thread -> Places] /\ pc'[t] = "idle"
      /\ \A u \in Thread : u # t => pc'[u] = pc[u]
  BY <1>1, PlaceFacts DEF Places
<1>4. raced
  <2>1. Mine(t) # NoPid
    BY <1>1, CallFacts
  <2>2. ~raced => childpid # Null /\ childpid[pfd[t].r] = Mine(t)
    BY <1>1 DEF PopenInv, TypeInv, TableInv, PcloseFindsChild
  <2> QED BY <2>1, <2>2, <1>1 DEF Listed, TypeInv
<1>5. TypeInv'
  BY <1>1, <1>3 DEF TypeInv
<1>6. \A u \in Thread : (HasRead(u)' => HasRead(u)) /\ (HasWrite(u)' => HasWrite(u))
  BY <1>1, <1>3 DEF HasRead, HasWrite
<1>7. FdInv'
  BY <1>1, <1>2, <1>6 DEF PopenInv, FdInv
<1>8. TableInv'
  <2>1. PcloseFindsChild'
    <3>1. \A u \in Thread : pc'[u] \in {"fclose", "wait"} => pc'[u] = pc[u]
      BY <1>3
    <3> QED BY <1>1, <1>2, <1>4, <3>1 DEF PopenInv, TableInv, PcloseFindsChild
  <2>2. ASSUME childpid # Null, NEW i \in Fd, childpid[i] # NoPid
        PROVE  \E u \in Thread : pc'[u] \in {"read", "pclose"} /\ i = pfd[u].r /\ childpid[i] = Mine(u)
    <3>1. PICK u \in Thread : pc[u] \in {"read", "pclose"} /\ i = pfd[u].r /\ childpid[i] = Mine(u)
      BY <2>2 DEF PopenInv, TableInv
    <3>2. u # t
      BY <2>2, <3>1 DEF Listed
    <3> QED BY <3>1, <3>2, <1>3
  <2> QED BY <1>1, <1>2, <2>1, <2>2 DEF TableInv
<1>9. OwnedInv'
  BY <1>1, <1>4 DEF OwnedInv
<1> QED BY <1>5, <1>7, <1>8, <1>9 DEF PopenInv

LEMMA TakeInv == ASSUME PopenInv, NEW t \in Thread, pclose_take(t), Listed(pfd[t].r) PROVE PopenInv'
<1>1. /\ pc[t] = "pclose" /\ TypeInv
      /\ pid' = [pid EXCEPT ![t] = childpid[pfd[t].r]]
      /\ childpid' = [childpid EXCEPT ![pfd[t].r] = NoPid]
      /\ UNCHANGED <<fds, round, pfd, kid, raced, failed>>
  BY DEF pclose_take, kidVars, PopenInv
<1>2. \A u \in Thread : Mine(u)' = Mine(u)
  BY <1>1 DEF Mine
<1>3. PICK place \in Places : Goto(t, place) /\ place = "fclose"
  BY DEF pclose_take, Places
<1>4. /\ pc' \in [Thread -> Places] /\ pc'[t] = place
      /\ \A u \in Thread : u # t => pc'[u] = pc[u]
  BY <1>1, <1>3, PlaceFacts
<1>5. /\ HasRead(t) /\ pfd[t].r \in Fd /\ childpid # Null /\ childpid \in [Fd -> Call \cup {NoPid}]
      /\ Mine(t) # NoPid
  BY <1>1, CallFacts DEF HasRead, PopenInv, FdInv, TypeInv, Listed
<1>6. /\ childpid' \in [Fd -> Call \cup {NoPid}] /\ childpid'[pfd[t].r] = NoPid
      /\ \A i \in Fd : i # pfd[t].r => childpid'[i] = childpid[i]
  BY <1>1, <1>5
<1>7. /\ pid' \in [Thread -> Call \cup {NoPid}] /\ pid'[t] = childpid[pfd[t].r]
      /\ \A u \in Thread : u # t => pid'[u] = pid[u]
  BY <1>1, <1>5 DEF TypeInv
<1>8. childpid' # Null
  BY <1>6, PopenAssumption
<1>9. TypeInv'
  BY <1>1, <1>3, <1>4, <1>6, <1>7, <1>8 DEF TypeInv
<1>10. \A u \in Thread : /\ HasRead(u)' => HasRead(u)
                         /\ HasWrite(u)' = HasWrite(u)
                         /\ (u # t \/ place = "fclose") => HasRead(u)' = HasRead(u)
  BY <1>1, <1>3, <1>4 DEF HasRead, HasWrite
<1>11. FdInv'
  BY <1>1, <1>2, <1>10 DEF PopenInv, FdInv
<1>12. TableInv'
  <2>1. ASSUME NEW i \in Fd, childpid'[i] # NoPid
        PROVE  \E u \in Thread : pc'[u] \in {"read", "pclose"} /\ i = pfd[u].r /\ childpid'[i] = Mine(u)
    <3>1. i # pfd[t].r /\ childpid'[i] = childpid[i]
      BY <2>1, <1>6
    <3>2. PICK u \in Thread : pc[u] \in {"read", "pclose"} /\ i = pfd[u].r /\ childpid[i] = Mine(u)
      BY <2>1, <3>1, <1>5 DEF PopenInv, TableInv
    <3> QED BY <3>1, <3>2, <1>4
  <2>2. ASSUME NEW u \in Thread, pc'[u] \in {"read", "pclose"}, ~raced
        PROVE  childpid'[pfd[u].r] = Mine(u)
    <3>1. u # t
      BY <2>2, <1>3, <1>4
    <3>2. pc[u] \in {"read", "pclose"} /\ childpid[pfd[u].r] = Mine(u) /\ HasRead(u)
      BY <2>2, <3>1, <1>4 DEF PopenInv, TableInv, PcloseFindsChild, HasRead
    <3>3. pfd[u].r \in Fd /\ pfd[u].r # pfd[t].r
      BY <3>1, <3>2, <1>5, Apart DEF PopenInv, FdInv
    <3> QED BY <3>2, <3>3, <1>6
  <2>3. ASSUME NEW u \in Thread, pc'[u] \in {"fclose", "wait"} PROVE pid'[u] = Mine(u)
    <3>1. CASE u = t
      BY <2>3, <3>1, <1>1, <1>3, <1>4, <1>7, OwnEntry
    <3>2. CASE u # t
      BY <2>3, <3>2, <1>4, <1>7 DEF PopenInv, TableInv, PcloseFindsChild
    <3> QED BY <3>1, <3>2
  <2> QED BY <1>1, <1>2, <2>1, <2>2, <2>3 DEF TableInv, PcloseFindsChild
<1>13. OwnedInv'
  <2> SUFFICES ASSUME ~failed, ~raced PROVE OwnedInv'
    BY <1>1 DEF OwnedInv
  <2>1. place = "fclose"
    BY <1>3
  <2>2. \A u \in Thread : /\ pc[u] \in Alive => pc'[u] \in Alive
                          /\ HasRead(u)' = HasRead(u) /\ HasWrite(u)' = HasWrite(u)
    BY <1>4, <1>10, <2>1 DEF Alive
  <2> QED BY <1>1, <1>2, <2>2 DEF PopenInv, OwnedInv, Alive
<1> QED BY <1>9, <1>11, <1>12, <1>13 DEF PopenInv

LEMMA FcloseInv == ASSUME PopenInv, NEW t \in Thread, pclose_fclose(t) PROVE PopenInv'
<1>1. /\ pc[t] = "fclose" /\ TypeInv /\ fds' = [fds EXCEPT ![pfd[t].r] = Free]
      /\ UNCHANGED <<childpid, round, pfd, pid, kid, raced>>
  BY DEF pclose_fclose, kidVars, PopenInv
<1>2. \A u \in Thread : Mine(u)' = Mine(u)
  BY <1>1 DEF Mine
<1>2a. PICK place \in Places :
          /\ Goto(t, place)
          /\ (place = "wait" /\ failed' = failed) \/ (place = "idle" /\ failed' = TRUE)
  BY DEF pclose_fclose, Places
<1>3. /\ pc' \in [Thread -> Places] /\ pc'[t] = place /\ place \in {"wait", "idle"}
      /\ \A u \in Thread : u # t => pc'[u] = pc[u]
  BY <1>1, <1>2a, PlaceFacts
<1>4. HasRead(t) /\ ~HasWrite(t) /\ pfd[t].r \in Fd
  BY <1>1 DEF HasRead, HasWrite, PopenInv, FdInv
<1>5. /\ fds' \in [Fd -> End \cup {Free}] /\ fds'[pfd[t].r] = Free
      /\ \A i \in Fd : i # pfd[t].r => fds'[i] = fds[i]
  BY <1>1, <1>4 DEF TypeInv
<1>6. TypeInv'
  BY <1>1, <1>3, <1>5, <1>2a DEF TypeInv
<1>7. \A u \in Thread : /\ HasRead(u)' => HasRead(u) /\ u # t
                        /\ HasWrite(u)' = HasWrite(u)
                        /\ u # t => HasRead(u)' = HasRead(u)
  BY <1>1, <1>3 DEF HasRead, HasWrite
<1>8. FdInv'
  <2> SUFFICES ASSUME NEW u \in Thread
               PROVE  /\ HasRead(u)' => pfd[u].r \in Fd /\ fds'[pfd[u].r] = <<Mine(u), "r">>
                      /\ HasWrite(u)' => pfd[u].w \in Fd /\ fds'[pfd[u].w] = <<Mine(u), "w">>
    BY <1>1, <1>2 DEF FdInv
  <2>1. /\ HasRead(u) => pfd[u].r \in Fd /\ fds[pfd[u].r] = <<Mine(u), "r">>
        /\ HasWrite(u) => pfd[u].w \in Fd /\ fds[pfd[u].w] = <<Mine(u), "w">>
    BY DEF PopenInv, FdInv
  <2>2. (HasRead(u) /\ u # t => pfd[u].r # pfd[t].r) /\ (HasWrite(u) => pfd[u].w # pfd[t].r)
    BY <1>4, Apart DEF PopenInv
  <2> QED BY <2>1, <2>2, <1>5, <1>7
<1>9. TableInv'
  <2>1. \A u \in Thread : /\ pc'[u] \in {"read", "pclose"} <=> pc[u] \in {"read", "pclose"}
                          /\ pc'[u] \in {"fclose", "wait"} => pc[u] \in {"fclose", "wait"}
    BY <1>1, <1>3
  <2> QED BY <1>1, <1>2, <2>1 DEF PopenInv, TableInv, PcloseFindsChild
<1>10. OwnedInv'
  <2> SUFFICES ASSUME ~failed', ~raced
      PROVE  /\ \A i \in Fd : fds'[i] # Free => \E u \in Thread : (HasRead(u)' /\ i = pfd[u].r)
                                                                  \/ (HasWrite(u)' /\ i = pfd[u].w)
             /\ \A c \in Call : kid[c] \in {"running", "zombie"} =>
                                   \E u \in Thread : c = Mine(u) /\ pc'[u] \in Alive
    BY <1>1, <1>2 DEF OwnedInv, Alive
  <2>0. place = "wait" /\ ~failed
    BY <1>2a
  <2>1. ASSUME NEW i \in Fd, fds'[i] # Free
        PROVE  \E u \in Thread : (HasRead(u)' /\ i = pfd[u].r) \/ (HasWrite(u)' /\ i = pfd[u].w)
    <3>1. fds[i] # Free /\ i # pfd[t].r
      BY <2>1, <1>5
    <3>2. PICK u \in Thread : (HasRead(u) /\ i = pfd[u].r) \/ (HasWrite(u) /\ i = pfd[u].w)
      BY <3>1, <2>0 DEF PopenInv, OwnedInv
    <3> QED BY <3>1, <3>2, <1>7
  <2>2. \A u \in Thread : pc[u] \in Alive => pc'[u] \in Alive
    BY <1>3, <2>0 DEF Alive
  <2>3. \A c \in Call : kid[c] \in {"running", "zombie"} =>
                           \E u \in Thread : c = Mine(u) /\ pc'[u] \in Alive
    BY <2>2, <2>0 DEF PopenInv, OwnedInv, Alive
  <2> QED BY <2>1, <2>3
<1> QED BY <1>6, <1>8, <1>9, <1>10 DEF PopenInv

LEMMA WaitInv == ASSUME PopenInv, NEW t \in Thread, pclose_wait(t) PROVE PopenInv'
<1>1. /\ pc[t] = "wait" /\ TypeInv /\ kid' = [kid EXCEPT ![pid[t]] = "reaped"] /\ Goto(t, "idle")
      /\ pfd' = [pfd EXCEPT ![t] = NoPfd] /\ pid' = [pid EXCEPT ![t] = NoPid]
      /\ UNCHANGED <<childpid, fds, round, raced, failed>>
  BY DEF pclose_wait, Forget, PopenInv
<1>2. \A u \in Thread : Mine(u)' = Mine(u)
  BY <1>1 DEF Mine
<1>3. /\ pc' \in [Thread -> Places] /\ pc'[t] = "idle"
      /\ \A u \in Thread : u # t => pc'[u] = pc[u]
  BY <1>1, PlaceFacts DEF Places
<1>4. pid[t] = Mine(t) /\ Mine(t) \in Call
  BY <1>1, CallFacts DEF PopenInv, TableInv, PcloseFindsChild
<1>5. /\ kid' \in [Call -> {"none", "running", "zombie", "reaped"}] /\ kid'[Mine(t)] = "reaped"
      /\ \A c \in Call : c # Mine(t) => kid'[c] = kid[c]
  BY <1>1, <1>4 DEF TypeInv
<1>6. /\ pfd' \in [Thread -> [r : Nat, w : Nat]] /\ pid' \in [Thread -> Call \cup {NoPid}]
      /\ \A u \in Thread : u # t => pfd'[u] = pfd[u] /\ pid'[u] = pid[u]
  BY <1>1 DEF TypeInv, NoPfd
<1>7. TypeInv'
  BY <1>1, <1>3, <1>5, <1>6 DEF TypeInv
<1>8. \A u \in Thread : /\ HasRead(u)' = HasRead(u) /\ HasWrite(u)' = HasWrite(u)
                        /\ HasRead(u) \/ HasWrite(u) => u # t
  BY <1>1, <1>3 DEF HasRead, HasWrite
<1>9. FdInv'
  <2> SUFFICES ASSUME NEW u \in Thread
               PROVE  /\ HasRead(u)' => pfd'[u].r \in Fd /\ fds[pfd'[u].r] = <<Mine(u), "r">>
                      /\ HasWrite(u)' => pfd'[u].w \in Fd /\ fds[pfd'[u].w] = <<Mine(u), "w">>
    BY <1>1, <1>2 DEF FdInv
  <2>1. HasRead(u)' \/ HasWrite(u)' => pfd'[u] = pfd[u]
    BY <1>6, <1>8
  <2> QED BY <1>8, <2>1 DEF PopenInv, FdInv
<1>10. TableInv'
  <2>1. \A u \in Thread : /\ pc'[u] \in {"read", "pclose", "fclose", "wait"} => u # t /\ pc'[u] = pc[u]
                          /\ pc[u] \in {"read", "pclose"} => u # t /\ pc'[u] = pc[u]
    BY <1>1, <1>3
  <2> QED BY <1>1, <1>2, <1>6, <2>1 DEF PopenInv, TableInv, PcloseFindsChild
<1>11. OwnedInv'
  <2> SUFFICES ASSUME ~failed, ~raced
      PROVE  /\ \A i \in Fd : fds[i] # Free => \E u \in Thread : (HasRead(u)' /\ i = pfd'[u].r)
                                                                 \/ (HasWrite(u)' /\ i = pfd'[u].w)
             /\ \A c \in Call : kid'[c] \in {"running", "zombie"} =>
                                   \E u \in Thread : c = Mine(u) /\ pc'[u] \in Alive
    BY <1>1, <1>2 DEF OwnedInv, Alive
  <2>1. \A i \in Fd : fds[i] # Free => \E u \in Thread : (HasRead(u)' /\ i = pfd'[u].r)
                                                         \/ (HasWrite(u)' /\ i = pfd'[u].w)
    BY <1>6, <1>8 DEF PopenInv, OwnedInv
  <2>2. ASSUME NEW c \in Call, kid'[c] \in {"running", "zombie"}
        PROVE  \E u \in Thread : c = Mine(u) /\ pc'[u] \in Alive
    <3>1. c # Mine(t) /\ kid[c] \in {"running", "zombie"}
      BY <2>2, <1>5
    <3>2. PICK u \in Thread : c = Mine(u) /\ pc[u] \in Alive
      BY <3>1 DEF PopenInv, OwnedInv, Alive
    <3> QED BY <3>1, <3>2, <1>3
  <2> QED BY <2>1, <2>2
<1> QED BY <1>7, <1>9, <1>10, <1>11 DEF PopenInv

LEMMA ExitInv == ASSUME PopenInv, NEW c \in Call, kid_exit(c) PROVE PopenInv'
<1>1. /\ kid[c] = "running" /\ kid' = [kid EXCEPT ![c] = "zombie"] /\ TypeInv
      /\ UNCHANGED <<childpid, fds, pc, round, pfd, pid, raced, failed>>
  BY DEF kid_exit, PopenInv
<1>2. \A u \in Thread : Mine(u)' = Mine(u) /\ HasRead(u)' = HasRead(u) /\ HasWrite(u)' = HasWrite(u)
  BY <1>1 DEF Mine, HasRead, HasWrite
<1>3. /\ kid' \in [Call -> {"none", "running", "zombie", "reaped"}]
      /\ \A d \in Call : kid'[d] \in {"running", "zombie"} => kid[d] \in {"running", "zombie"}
  BY <1>1 DEF TypeInv
<1>4. TypeInv'
  BY <1>1, <1>3 DEF TypeInv
<1>5. FdInv'
  BY <1>1, <1>2 DEF PopenInv, FdInv
<1>6. TableInv'
  BY <1>1, <1>2 DEF PopenInv, TableInv, PcloseFindsChild
<1>7. OwnedInv'
  BY <1>1, <1>2, <1>3 DEF PopenInv, OwnedInv
<1> QED BY <1>4, <1>5, <1>6, <1>7 DEF PopenInv

LEMMA StutterInv == ASSUME PopenInv, UNCHANGED vars PROVE PopenInv'
  BY DEF vars, PopenInv, TypeInv, FdInv, TableInv, OwnedInv, PcloseFindsChild, HasRead, HasWrite, Mine

LEMMA PopenInvariant == Spec => []PopenInv
<1>1. PopenInv /\ [Next]_vars => PopenInv'
  <2> SUFFICES ASSUME PopenInv, [Next]_vars PROVE PopenInv'
    OBVIOUS
  <2>1. ASSUME NEW t \in Thread, popen_check(t) \/ Step(t) PROVE PopenInv'
    BY <2>1, CheckInv, CallocInv, PipeInv, ForkInv, CloseInv, DeadInv, RecordInv, ReadInv, TakeNoneInv,
       TakeInv, FcloseInv, WaitInv DEF Step, uvc_popen, uvc_pclose
  <2>2. ASSUME worker_timeout PROVE PopenInv'
    BY <2>2, ReadInv DEF Thread
  <2> QED BY <2>1, <2>2, ExitInv, StutterInv DEF Next
<1> QED BY <1>1, InitInv, PTL DEF Spec

-----------------------------------------------------------------------------
(* Every entry of childpid is filed under the open descriptor that reads     *)
(* that child's output (uvc_popen, uvc_pclose), for every number of calls    *)
(* and every interleaving of the two threads.                                *)
THEOREM PopenTable == Spec => []TableMatches
<1>1. PopenInv => TableMatches
  BY DEF PopenInv, TableInv, TableMatches, FdInv, HasRead
<1> QED BY <1>1, PopenInvariant, PTL

(* uvc_pclose finds the child of its own call, and waits for no other.       *)
THEOREM PcloseOwnChild == Spec => []PcloseFindsChild
  BY PopenInvariant, PTL DEF PopenInv, TableInv

(* When no call is under way the server has no descriptor and no child left, *)
(* unless fork, fdopen or fclose failed or the first two calls raced for the *)
(* table.                                                                    *)
THEOREM PopenReturnsAll == Spec => []NothingLeft
<1>1. PopenInv => NothingLeft
  <2> SUFFICES ASSUME PopenInv, \A t \in Thread : pc[t] = "idle", ~failed, ~raced
               PROVE  (\A i \in Fd : fds[i] = Free) /\ \A c \in Call : kid[c] \in {"none", "reaped"}
    BY DEF NothingLeft
  <2>1. \A i \in Fd : fds[i] = Free
    BY DEF PopenInv, OwnedInv, HasRead, HasWrite
  <2>2. \A c \in Call : kid[c] \notin {"running", "zombie"} /\ kid[c] \in {"none", "running", "zombie", "reaped"}
    BY DEF PopenInv, OwnedInv, TypeInv
  <2> QED BY <2>1, <2>2
<1> QED BY <1>1, PopenInvariant, PTL
==============================================================================
