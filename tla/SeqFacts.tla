------------------------------- MODULE SeqFacts -------------------------------
(***************************************************************************)
(* Facts about sequences and numbers that the proofs of several modules    *)
(* use.  A memcpy of part of a buffer is a SubSeq in the models, a queue   *)
(* is taken from at its head and put to at its end.  The naturals are well *)
(* ordered: proofs by induction use a least counterexample.  Products and  *)
(* quotients of unknowns are kept to a few lemmas.                         *)
(***************************************************************************)
EXTENDS Integers, Sequences, SequenceTheorems, WellFoundedInduction, TLAPS

(* A slice that lies inside a sequence: its type, length and elements. *)
LEMMA SliceFacts ==
    ASSUME NEW S, NEW s \in Seq(S), NEW m \in Nat, NEW n \in Nat,
           1 <= m, n <= Len(s), m <= n + 1
    PROVE  /\ SubSeq(s, m, n) \in Seq(S)
           /\ Len(SubSeq(s, m, n)) = n - m + 1
           /\ \A i \in 1 .. n - m + 1 : SubSeq(s, m, n)[i] = s[m + i - 1]
<1>1. \A i \in m .. n : s[i] \in S
  OBVIOUS
<1>2. m \in Int /\ n \in Int
  OBVIOUS
<1>3. /\ SubSeq(s, m, n) \in Seq(S)
      /\ Len(SubSeq(s, m, n)) = IF m <= n THEN n - m + 1 ELSE 0
      /\ \A i \in 1 .. n - m + 1 : SubSeq(s, m, n)[i] = s[m + i - 1]
  BY <1>1, <1>2, SubSeqProperties
<1> QED BY <1>3

(* A queue: its first element taken, ... *)
LEMMA TailFacts ==
    ASSUME NEW S, NEW s \in Seq(S), s # << >>
    PROVE  /\ Len(s) \in Nat \ {0} /\ Head(s) \in S /\ Head(s) = s[1]
           /\ Tail(s) \in Seq(S) /\ Len(Tail(s)) = Len(s) - 1
           /\ \A i \in 1 .. Len(s) - 1 : Tail(s)[i] = s[i + 1]
  OBVIOUS

(* ... one element put at its end, ... *)
LEMMA AppendFacts ==
    ASSUME NEW S, NEW s \in Seq(S), NEW e \in S
    PROVE  /\ Append(s, e) \in Seq(S) /\ Append(s, e) # << >>
           /\ Len(Append(s, e)) = Len(s) + 1
           /\ \A i \in 1 .. Len(s) : Append(s, e)[i] = s[i]
           /\ Append(s, e)[Len(s) + 1] = e
  OBVIOUS

(* A function on 1..n is a sequence of length n. *)
LEMMA FunctionIsSeq ==
    ASSUME NEW S, NEW n \in Nat, NEW f \in [1 .. n -> S]
    PROVE  f \in Seq(S) /\ Len(f) = n
<1>1. f \in Seq(S)
  BY SeqDef
<1>2. Len(f) \in Nat /\ DOMAIN f = 1 .. Len(f) /\ DOMAIN f = 1 .. n
  BY <1>1, LenProperties
<1> QED BY <1>1, <1>2

(* A sequence with its last element dropped. *)
LEMMA FrontFacts ==
    ASSUME NEW S, NEW s \in Seq(S), s # << >>
    PROVE  /\ SubSeq(s, 1, Len(s) - 1) \in Seq(S)
           /\ Len(SubSeq(s, 1, Len(s) - 1)) = Len(s) - 1
           /\ \A i \in 1 .. Len(s) - 1 : SubSeq(s, 1, Len(s) - 1)[i] = s[i]
<1>1. PICK k \in Nat : k = Len(s) - 1
  OBVIOUS
<1>2. k <= Len(s) /\ 1 <= k + 1 /\ 1 \in Nat
  BY <1>1
<1>3. /\ SubSeq(s, 1, k) \in Seq(S)
      /\ Len(SubSeq(s, 1, k)) = k - 1 + 1
      /\ \A i \in 1 .. k - 1 + 1 : SubSeq(s, 1, k)[i] = s[1 + i - 1]
  BY <1>2, SliceFacts
<1>4. /\ SubSeq(s, 1, k) \in Seq(S)
      /\ Len(SubSeq(s, 1, k)) = k
      /\ \A i \in 1 .. k : SubSeq(s, 1, k)[i] = s[i]
  BY <1>3
<1> QED BY <1>1, <1>4

(* One sequence after another. *)
LEMMA JoinFacts ==
    ASSUME NEW S, NEW s \in Seq(S), NEW t \in Seq(S)
    PROVE  /\ s \o t \in Seq(S)
           /\ Len(s \o t) = Len(s) + Len(t)
           /\ \A i \in 1 .. Len(s) : (s \o t)[i] = s[i]
           /\ \A i \in 1 .. Len(t) : (s \o t)[Len(s) + i] = t[i]
  BY ConcatProperties

(* What has the elements of one sequence and then those of another is their *)
(* concatenation.                                                           *)
LEMMA JoinEqual ==
    ASSUME NEW S, NEW a \in Seq(S), NEW b \in Seq(S), NEW c \in Seq(S),
           Len(c) = Len(a) + Len(b),
           \A i \in 1 .. Len(a) : c[i] = a[i],
           \A i \in 1 .. Len(b) : c[Len(a) + i] = b[i]
    PROVE  a \o b = c
<1> DEFINE d == a \o b
<1>1. /\ d \in Seq(S) /\ Len(d) = Len(a) + Len(b)
      /\ \A i \in 1 .. Len(a) : d[i] = a[i]
      /\ \A i \in 1 .. Len(b) : d[Len(a) + i] = b[i]
  BY JoinFacts
<1> HIDE DEF d
<1>2. Len(a) \in Nat /\ Len(b) \in Nat
  OBVIOUS
<1>3. ASSUME NEW i \in 1 .. Len(d) PROVE d[i] = c[i]
  <2>1. CASE i <= Len(a)
    BY <2>1, <1>1, <1>2
  <2>2. CASE i > Len(a)
    <3>1. i - Len(a) \in 1 .. Len(b) /\ Len(a) + (i - Len(a)) = i
      BY <2>2, <1>1, <1>2
    <3> QED BY <3>1, <1>1
  <2> QED BY <2>1, <2>2, <1>1, <1>2
<1>4. d = c
  BY <1>1, <1>3, SeqEqual
<1> QED BY <1>4 DEF d

(* A prefix, continued by the slice that follows it, is a longer prefix. *)
LEMMA PrefixGrows ==
    ASSUME NEW S, NEW s \in Seq(S), NEW m \in Nat, NEW n \in Nat, m + n <= Len(s)
    PROVE  SubSeq(s, 1, m) \o SubSeq(s, m + 1, m + n) = SubSeq(s, 1, m + n)
<1> DEFINE a == SubSeq(s, 1, m)
           b == SubSeq(s, m + 1, m + n)
           c == SubSeq(s, 1, m + n)
<1>0. Len(s) \in Nat
  OBVIOUS
<1>1. a \in Seq(S) /\ Len(a) = m /\ \A i \in 1 .. m : a[i] = s[i]
  <2>1. 1 \in Nat /\ m <= Len(s) /\ 1 <= m + 1
    BY <1>0
  <2>2. /\ a \in Seq(S) /\ Len(a) = m - 1 + 1
        /\ \A i \in 1 .. m - 1 + 1 : a[i] = s[1 + i - 1]
    BY <2>1, SliceFacts
  <2> QED BY <2>2
<1>2. b \in Seq(S) /\ Len(b) = n /\ \A i \in 1 .. n : b[i] = s[m + i]
  <2>1. m + 1 \in Nat /\ m + n \in Nat /\ 1 <= m + 1 /\ m + 1 <= (m + n) + 1
    BY <1>0
  <2>2. /\ b \in Seq(S) /\ Len(b) = (m + n) - (m + 1) + 1
        /\ \A i \in 1 .. (m + n) - (m + 1) + 1 : b[i] = s[(m + 1) + i - 1]
    BY <2>1, SliceFacts
  <2> QED BY <2>2
<1>3. c \in Seq(S) /\ Len(c) = m + n /\ \A i \in 1 .. m + n : c[i] = s[i]
  <2>1. 1 \in Nat /\ m + n \in Nat /\ 1 <= (m + n) + 1
    BY <1>0
  <2>2. /\ c \in Seq(S) /\ Len(c) = (m + n) - 1 + 1
        /\ \A i \in 1 .. (m + n) - 1 + 1 : c[i] = s[1 + i - 1]
    BY <2>1, SliceFacts
  <2> QED BY <2>2
<1>4. /\ Len(c) = Len(a) + Len(b)
      /\ \A i \in 1 .. Len(a) : c[i] = a[i]
      /\ \A i \in 1 .. Len(b) : c[Len(a) + i] = b[i]
  <2> HIDE DEF a, b, c
  <2>1. ASSUME NEW i \in 1 .. m PROVE c[i] = a[i]
    BY <1>1, <1>3
  <2>2. ASSUME NEW i \in 1 .. n PROVE c[m + i] = b[i]
    <3>1. m + i \in 1 .. m + n
      OBVIOUS
    <3> QED BY <3>1, <1>2, <1>3
  <2> QED BY <2>1, <2>2, <1>1, <1>2, <1>3
<1> QED
  <2> HIDE DEF a, b, c
  <2>1. a \o b = c
    BY <1>1, <1>2, <1>3, <1>4, JoinEqual
  <2> QED BY <2>1 DEF a, b, c

(* A prefix of a prefix is a prefix. *)
LEMMA PrefixOfPrefix ==
    ASSUME NEW S, NEW s \in Seq(S), NEW m \in Nat, NEW n \in Nat, n <= m, m <= Len(s)
    PROVE  SubSeq(SubSeq(s, 1, m), 1, n) = SubSeq(s, 1, n) /\ Len(SubSeq(s, 1, m)) = m
<1>1. ASSUME NEW t \in Seq(S), NEW k \in Nat, k <= Len(t)
      PROVE  /\ SubSeq(t, 1, k) \in Seq(S) /\ Len(SubSeq(t, 1, k)) = k
             /\ \A i \in 1 .. k : SubSeq(t, 1, k)[i] = t[i]
  <2>1. 1 \in Nat /\ 1 <= k + 1
    OBVIOUS
  <2>2. /\ SubSeq(t, 1, k) \in Seq(S) /\ Len(SubSeq(t, 1, k)) = k - 1 + 1
        /\ \A i \in 1 .. k - 1 + 1 : SubSeq(t, 1, k)[i] = t[1 + i - 1]
    BY <2>1, <1>1, SliceFacts
  <2> QED BY <2>2
<1>2. PICK a \in Seq(S) : a = SubSeq(s, 1, m) /\ Len(a) = m /\ \A i \in 1 .. m : a[i] = s[i]
  BY <1>1
<1>3. n <= Len(s) /\ n <= Len(a)
  BY <1>2
<1>4. PICK b \in Seq(S) : b = SubSeq(a, 1, n) /\ Len(b) = n /\ \A i \in 1 .. n : b[i] = a[i]
  BY <1>1, <1>3
<1>5. PICK c \in Seq(S) : c = SubSeq(s, 1, n) /\ Len(c) = n /\ \A i \in 1 .. n : c[i] = s[i]
  BY <1>1, <1>3
<1>6. \A i \in 1 .. n : b[i] = c[i]
  BY <1>2, <1>4, <1>5
<1>7. b = c
  BY <1>4, <1>5, <1>6, SeqEqual
<1> QED BY <1>2, <1>4, <1>5, <1>7

(* A set of naturals that is not empty has a least element. *)
Less == {p \in Nat \X Nat : p[1] < p[2]}

LEMMA LeastNat ==
    ASSUME NEW T, T \subseteq Nat, T # {}
    PROVE  \E x \in T : \A y \in T : x <= y
<1>1. IsWellFoundedOn({p \in Nat \X Nat : p[1] < p[2]}, Nat)
  BY NatLessThanWellFounded DEF OpToRel
<1>2. IsWellFoundedOn(Less, Nat)
  BY <1>1 DEF Less
<1>3. PICK x \in T : \A y \in T : <<y, x>> \notin Less
  BY <1>2, WFMin
<1>4. \A y \in T : ~(y < x)
  BY <1>3 DEF Less
<1> QED BY <1>4

-----------------------------------------------------------------------------
(* Products and quotients. *)
LEMMA ProductOrder ==
    ASSUME NEW n \in Nat, NEW x \in Int, NEW y \in Int, x <= y
    PROVE  n * x <= n * y
  OBVIOUS

LEMMA DivFacts ==
    ASSUME NEW a \in Int, NEW n \in Nat \ {0}
    PROVE  /\ a \div n \in Int /\ a % n \in 0 .. n - 1
           /\ a = n * (a \div n) + (a % n)
  OBVIOUS

LEMMA DivUnique ==
    ASSUME NEW a \in Int, NEW n \in Nat \ {0}, NEW q \in Int, NEW r \in 0 .. n - 1, a = n * q + r
    PROVE  a \div n = q /\ a % n = r
<1>1. a \div n \in Int /\ a % n \in 0 .. n - 1 /\ a = n * (a \div n) + (a % n)
  BY DivFacts
<1>2. PICK d \in Int : d = a \div n
  BY <1>1
<1>3. ASSUME d < q PROVE FALSE
  <2>1. n * (d + 1) <= n * q
    BY <1>3, ProductOrder
  <2>2. n * (d + 1) = n * d + n
    OBVIOUS
  <2>3. PICK u \in Int, v \in Int : u = n * d /\ v = n * q
    OBVIOUS
  <2> QED BY <1>1, <1>2, <2>1, <2>2, <2>3
<1>4. ASSUME d > q PROVE FALSE
  <2>1. n * (q + 1) <= n * d
    BY <1>4, ProductOrder
  <2>2. n * (q + 1) = n * q + n
    OBVIOUS
  <2>3. PICK u \in Int, v \in Int : u = n * d /\ v = n * q
    OBVIOUS
  <2> QED BY <1>1, <1>2, <2>1, <2>2, <2>3
<1>5. d = q
  BY <1>3, <1>4
<1>6. PICK v \in Int : v = n * q
  OBVIOUS
<1> QED BY <1>1, <1>2, <1>5, <1>6

LEMMA DivOrder ==
    ASSUME NEW n \in Nat \ {0}, NEW a \in Int, NEW b \in Int, a <= b
    PROVE  a \div n <= b \div n
<1>1. PICK qa \in Int, ra \in 0 .. n - 1 : a = n * qa + ra /\ qa = a \div n
  BY DivFacts
<1>2. PICK qb \in Int, rb \in 0 .. n - 1 : b = n * qb + rb /\ qb = b \div n
  BY DivFacts
<1>3. SUFFICES ASSUME qb < qa PROVE FALSE
  BY <1>1, <1>2
<1>4. n * (qb + 1) <= n * qa /\ n * (qb + 1) = n * qb + n
  BY <1>3, ProductOrder
<1>5. PICK u \in Int, v \in Int : u = n * qa /\ v = n * qb
  OBVIOUS
<1> QED BY <1>1, <1>2, <1>4, <1>5
=============================================================================
