-------------------------- MODULE ModbusLink_proofs --------------------------
(***************************************************************************)
(* For every configuration, inputs and bounds of faults, on arbitrary      *)
(* bytes:                                                                  *)
(*  - LinkInv says where the bytes of a query and of its answer are while  *)
(*    the master waits and has given up nothing that was under way         *)
(*    (OnTime): ExactUntilLate follows;                                    *)
(*  - Uncut and Truthful say, on a network that does not cut, that slaves  *)
(*    get whole queries and that the master gets whole replies, which are  *)
(*    true of some device: NoPhantom and InputsAreReal hold after late     *)
(*    answers, too;                                                        *)
(*  - Prompt says that nothing is late where no time passes over bytes     *)
(*    under way.                                                           *)
(***************************************************************************)
EXTENDS ModbusLink, WellFoundedInduction, SequenceTheorems, TLAPS

-----------------------------------------------------------------------------
(* Induction and recursion. *)

LEMMA SetInduction ==
  ASSUME NEW S \in SUBSET Nat, 0 \in S, \A n \in S : n + 1 \in S
  PROVE  S = Nat
  <1> DEFINE R == {s \in Nat \X Nat : s[1] < s[2]}
  <1>1. IsWellFoundedOn(R, Nat)
    BY NatLessThanWellFounded, Zenon DEF OpToRel
  <1> SUFFICES ASSUME Nat \ S # {} PROVE FALSE
    OBVIOUS
  <1>2. PICK n \in Nat \ S : \A m \in Nat \ S : ~(<<m, n>> \in R)
    <2> HIDE DEF R
    <2> QED BY <1>1, WFMin, Zenon
  <1>3. n - 1 \in Nat
    BY SMT
  <1>4. <<n - 1, n>> \in R
    BY <1>3
  <1>5. n - 1 \in S
    BY <1>2, <1>3, <1>4
  <1> QED BY <1>3, <1>5

LEMMA Recursion ==
  ASSUME NEW T, NEW base \in T, NEW n \in Nat, NEW F \in [T \X (1..n) -> T]
  PROVE  \E g \in [0..n -> T] : g[0] = base /\ \A i \in 1..n : g[i] = F[<<g[i - 1], i>>]
  <1> DEFINE Is(g, m) == g[0] = base /\ \A i \in 1..m : g[i] = F[<<g[i - 1], i>>]
             N == {m \in Nat : m <= n => \E g \in [0..m -> T] : Is(g, m)}
  <1>1. 0 \in N
    <2>1. [i \in 0..0 |-> base] \in [0..0 -> T] /\ Is([i \in 0..0 |-> base], 0)
      OBVIOUS
    <2> QED BY <2>1
  <1>2. ASSUME NEW m \in N PROVE m + 1 \in N
    <2> SUFFICES ASSUME m + 1 <= n
                 PROVE  \E g \in [0..m + 1 -> T] : Is(g, m + 1)
      OBVIOUS
    <2>1. PICK g \in [0..m -> T] : Is(g, m)
      OBVIOUS
    <2> DEFINE h == [i \in 0..m + 1 |-> IF i = m + 1 THEN F[<<g[m], m + 1>>] ELSE g[i]]
    <2>2. F[<<g[m], m + 1>>] \in T
      <3>1. g[m] \in T /\ m + 1 \in 1..n
        BY <2>1
      <3> QED BY <3>1
    <2>3. h \in [0..m + 1 -> T]
      BY <2>2
    <2>4. h[m + 1] = F[<<g[m], m + 1>>] /\ \A i \in 0..m : h[i] = g[i]
      OBVIOUS
    <2>5. ASSUME NEW i \in 1..m + 1 PROVE h[i] = F[<<h[i - 1], i>>]
      <3> HIDE DEF h
      <3>1. CASE i = m + 1
        BY <2>4, <3>1
      <3>2. CASE i # m + 1
        <4>1. i \in 1..m /\ i \in 0..m /\ i - 1 \in 0..m
          BY <3>2
        <4> QED BY <2>1, <2>4, <4>1
      <3> QED BY <3>1, <3>2
    <2>6. h[0] = base
      BY <2>1, <2>4
    <2> HIDE DEF h
    <2> QED BY <2>3, <2>5, <2>6
  <1>3. N = Nat
    <2>1. N \in SUBSET Nat
      OBVIOUS
    <2> HIDE DEF N
    <2> QED BY <1>1, <1>2, <2>1, SetInduction
  <1>4. n \in N
    BY <1>3, Zenon
  <1> QED BY <1>4

\* What holds at the start and is kept by each step holds everywhere.
LEMMA Along ==
  ASSUME NEW n \in Nat, NEW S, 0 \in S, \A i \in 1..n : i - 1 \in S => i \in S
  PROVE  0..n \subseteq S
  <1> DEFINE N == {m \in Nat : m <= n => m \in S}
  <1>1. 0 \in N
    OBVIOUS
  <1>2. ASSUME NEW m \in N PROVE m + 1 \in N
    <2> SUFFICES ASSUME m + 1 <= n PROVE m + 1 \in S
      OBVIOUS
    <2>1. m + 1 \in 1..n /\ (m + 1) - 1 = m /\ m \in S
      OBVIOUS
    <2> QED BY <2>1
  <1>3. N = Nat
    <2>1. N \in SUBSET Nat
      OBVIOUS
    <2> HIDE DEF N
    <2> QED BY <1>1, <1>2, <2>1, SetInduction
  <1> QED BY <1>3

-----------------------------------------------------------------------------
(* Bits and bytes. *)

LEMMA Numbers ==
  /\ \A n : n \in Byte <=> n \in Nat /\ n <= 255
  /\ \A n : n \in Words <=> n \in Nat /\ n <= 65535
  BY DEF Byte, Words

LEMMA WordParts ==
  ASSUME NEW n \in Words
  PROVE  n \div 256 \in Byte /\ n % 256 \in Byte /\ 256 * (n \div 256) + (n % 256) = n
  <1>1. n \div 256 \in Byte /\ n % 256 \in Byte
    BY Numbers
  <1>2. 256 * (n \div 256) + (n % 256) = n
    BY Numbers
  <1> QED BY <1>1, <1>2

LEMMA WordOfBytes ==
  ASSUME NEW a \in Byte, NEW b \in Byte
  PROVE  256 * a + b \in Words
  BY Numbers

LEMMA ByteOfType ==
  ASSUME NEW on
  PROVE  ByteOf(on) \in Byte /\ (on \subseteq 0..3 => ByteOf(on) \in 0..15)
  BY Numbers DEF ByteOf

LEMMA EightBits ==
  ASSUME NEW b \in [0..7 -> {0, 1}], NEW n \in Nat, NEW i \in 0..7,
         n = b[0] + 2 * b[1] + 4 * b[2] + 8 * b[3] + 16 * b[4] + 32 * b[5] + 64 * b[6] + 128 * b[7]
  PROVE  (n \div 2 ^ i) % 2 = b[i]
  <1>1. /\ b[0] \in {0, 1} /\ b[1] \in {0, 1} /\ b[2] \in {0, 1} /\ b[3] \in {0, 1}
        /\ b[4] \in {0, 1} /\ b[5] \in {0, 1} /\ b[6] \in {0, 1} /\ b[7] \in {0, 1}
    OBVIOUS
  <1>2. CASE i = 0 BY <1>1, <1>2
  <1>3. CASE i = 1 BY <1>1, <1>3
  <1>4. CASE i = 2 BY <1>1, <1>4
  <1>5. CASE i = 3 BY <1>1, <1>5
  <1>6. CASE i = 4 BY <1>1, <1>6
  <1>7. CASE i = 5 BY <1>1, <1>7
  <1>8. CASE i = 6 BY <1>1, <1>8
  <1>9. CASE i = 7 BY <1>1, <1>9
  <1> QED BY <1>2, <1>3, <1>4, <1>5, <1>6, <1>7, <1>8, <1>9

LEMMA BitOfByte ==
  ASSUME NEW on, NEW i \in 0..7
  PROVE  IsSet(ByteOf(on), i) <=> i \in on
  <1> DEFINE b == [j \in 0..7 |-> IF j \in on THEN 1 ELSE 0]
             n == ByteOf(on)
  <1>1. b \in [0..7 -> {0, 1}] /\ n \in Nat
    BY ByteOfType, Numbers
  <1>2. n = b[0] + 2 * b[1] + 4 * b[2] + 8 * b[3] + 16 * b[4] + 32 * b[5] + 64 * b[6] + 128 * b[7]
    BY DEF ByteOf
  <1>3. IsSet(n, i) <=> (n \div 2 ^ i) % 2 = 1
    BY DEF IsSet
  <1>4. b[i] = 1 <=> i \in on
    OBVIOUS
  <1> HIDE DEF b, n
  <1>5. (n \div 2 ^ i) % 2 = b[i]
    BY <1>1, <1>2, EightBits
  <1> QED BY <1>3, <1>4, <1>5 DEF n

LEMMA XorType ==
  ASSUME NEW x \in Byte, NEW y \in Byte
  PROVE  Xor(x, y) \in Byte
  <1> DEFINE n(a, b) == NibbleXor[a][b]
  <1>1. \A a, b \in 0..15 : n(a, b) \in 0..15
    <2> TAKE a, b \in 0..15
    <2> DEFINE on == {i \in 0..3 : IsSet(a, i) # IsSet(b, i)}
    <2>1. n(a, b) = ByteOf(on)
      BY DEF NibbleXor
    <2>2. on \subseteq 0..3
      OBVIOUS
    <2> QED BY <2>1, <2>2, ByteOfType
  <1>2. x \div 16 \in 0..15 /\ x % 16 \in 0..15 /\ y \div 16 \in 0..15 /\ y % 16 \in 0..15
    BY Numbers
  <1>3. Xor(x, y) = 16 * n(x \div 16, y \div 16) + n(x % 16, y % 16)
    BY DEF Xor
  <1> HIDE DEF n
  <1>4. n(x \div 16, y \div 16) \in 0..15 /\ n(x % 16, y % 16) \in 0..15
    BY <1>1, <1>2
  <1> QED BY <1>3, <1>4, Numbers

LEMMA TablesType ==
  /\ \A i \in 1..256 : _auchCRCHi[i] \in Byte
  /\ \A i \in 1..256 : _auchCRCLo[i] \in Byte
  BY Numbers DEF _auchCRCHi, _auchCRCLo

-----------------------------------------------------------------------------
(* Frames. *)

Frame == Seq(Byte)

LEMMA FrameElements ==
  ASSUME NEW s \in Frame
  PROVE  Len(s) \in Nat /\ \A i \in 1..Len(s) : s[i] \in Byte
  BY DEF Frame

LEMMA NoBytes == None \in Frame /\ Len(None) = 0 /\ \A s \in Frame : Len(s) = 0 => s = None
  BY EmptySeq DEF Frame, None

LEMMA Same ==
  ASSUME NEW s \in Frame, NEW t \in Frame, Len(s) = Len(t), \A i \in 1..Len(s) : s[i] = t[i]
  PROVE  s = t
  BY SeqEqual DEF Frame

LEMMA Single ==
  ASSUME NEW a \in Byte
  PROVE  <<a>> \in Frame /\ Len(<<a>>) = 1 /\ <<a>>[1] = a
  BY DEF Frame

LEMMA Pair ==
  ASSUME NEW a \in Byte, NEW b \in Byte
  PROVE  <<a, b>> \in Frame /\ Len(<<a, b>>) = 2 /\ <<a, b>>[1] = a /\ <<a, b>>[2] = b
  BY DEF Frame

LEMMA Triple ==
  ASSUME NEW a \in Byte, NEW b \in Byte, NEW c \in Byte
  PROVE  /\ <<a, b, c>> \in Frame /\ Len(<<a, b, c>>) = 3
         /\ <<a, b, c>>[1] = a /\ <<a, b, c>>[2] = b /\ <<a, b, c>>[3] = c
  BY DEF Frame

LEMMA Joined ==
  ASSUME NEW s \in Frame, NEW t \in Frame
  PROVE  /\ s \o t \in Frame
         /\ Len(s \o t) = Len(s) + Len(t)
         /\ \A i \in 1..Len(s) : (s \o t)[i] = s[i]
         /\ \A i \in 1..Len(t) : (s \o t)[Len(s) + i] = t[i]
  <1>1. s \in Seq(Byte) /\ t \in Seq(Byte)
    BY DEF Frame
  <1>2. Len(s) \in Nat /\ Len(t) \in Nat
    BY FrameElements
  <1>3. /\ s \o t \in Seq(Byte)
        /\ Len(s \o t) = Len(s) + Len(t)
        /\ \A i \in 1..Len(s) + Len(t) : (s \o t)[i] = IF i <= Len(s) THEN s[i] ELSE t[i - Len(s)]
    <2> HIDE DEF Byte
    <2> QED BY <1>1, ConcatProperties, Zenon
  <1>4. ASSUME NEW i \in 1..Len(s) PROVE (s \o t)[i] = s[i]
    BY <1>2, <1>3
  <1>5. ASSUME NEW i \in 1..Len(t) PROVE (s \o t)[Len(s) + i] = t[i]
    <2>1. Len(s) + i \in 1..Len(s) + Len(t) /\ ~(Len(s) + i <= Len(s)) /\ (Len(s) + i) - Len(s) = i
      BY <1>2
    <2> QED BY <1>3, <2>1
  <1> QED BY <1>3, <1>4, <1>5 DEF Frame

LEMMA Piece ==
  ASSUME NEW s \in Frame, NEW m \in 1..Len(s) + 1, NEW n \in m - 1..Len(s)
  PROVE  /\ SubSeq(s, m, n) \in Frame
         /\ Len(SubSeq(s, m, n)) = n - m + 1
         /\ \A i \in 1..n - m + 1 : SubSeq(s, m, n)[i] = s[m + i - 1]
  <1>1. Len(s) \in Nat /\ \A i \in 1..Len(s) : s[i] \in Byte
    BY FrameElements
  <1>2. \A i \in m..n : s[i] \in Byte
    BY <1>1
  <1>3. /\ SubSeq(s, m, n) \in Seq(Byte)
        /\ Len(SubSeq(s, m, n)) = IF m <= n THEN n - m + 1 ELSE 0
        /\ \A i \in 1..n - m + 1 : SubSeq(s, m, n)[i] = s[m + i - 1]
    <2>1. m \in Int /\ n \in Int
      BY <1>1
    <2> HIDE DEF Byte
    <2> QED BY <1>2, <2>1, SubSeqProperties
  <1>4. m > n => n - m + 1 = 0
    BY <1>1
  <1> QED BY <1>1, <1>3, <1>4 DEF Frame

LEMMA Whole ==
  ASSUME NEW s \in Frame
  PROVE  SubSeq(s, 1, Len(s)) = s /\ SubSeq(s, 1, 0) = None /\ SubSeq(s, Len(s) + 1, Len(s)) = None
  <1>1. SubSeq(s, 1, Len(s)) = s
    BY SubSeqFull DEF Frame
  <1>2. Len(s) \in Nat
    BY FrameElements
  <1>3. SubSeq(s, 1, 0) = None /\ SubSeq(s, Len(s) + 1, Len(s)) = None
    BY <1>2, SubSeqEmpty DEF None
  <1> QED BY <1>1, <1>3

\* What is in front of another frame.
LEMMA Leading ==
  ASSUME NEW s \in Frame, NEW t \in Frame
  PROVE  SubSeq(s \o t, 1, Len(s)) = s
  <1> DEFINE p == SubSeq(s \o t, 1, Len(s))
  <1>1. /\ s \o t \in Frame /\ Len(s \o t) = Len(s) + Len(t)
        /\ \A i \in 1..Len(s) : (s \o t)[i] = s[i]
        /\ Len(s) \in Nat /\ Len(t) \in Nat
    BY Joined, FrameElements
  <1>2. /\ p \in Frame /\ Len(p) = Len(s)
        /\ \A i \in 1..Len(s) : p[i] = (s \o t)[i]
    <2>1. 1 \in 1..Len(s \o t) + 1 /\ Len(s) \in 1 - 1..Len(s \o t)
      BY <1>1
    <2>2. /\ p \in Frame /\ Len(p) = Len(s) - 1 + 1
          /\ \A i \in 1..Len(s) - 1 + 1 : p[i] = (s \o t)[1 + i - 1]
      BY <1>1, <2>1, Piece
    <2> HIDE DEF p
    <2> QED BY <1>1, <2>2
  <1> HIDE DEF p
  <1>3. p = s
    BY <1>1, <1>2, Same
  <1> QED BY <1>3 DEF p

\* Pieces of a frame side by side.
LEMMA Glued ==
  ASSUME NEW s \in Frame, NEW n \in 0..Len(s), NEW k \in 0..n
  PROVE  SubSeq(s, 1, k) \o SubSeq(s, k + 1, n) = SubSeq(s, 1, n)
  <1>1. Len(s) \in Nat
    BY FrameElements
  <1>2. 1 \in 1..Len(s) + 1 /\ k \in 1 - 1..Len(s) /\ n \in k..Len(s)
    BY <1>1
  <1> QED BY <1>2, ConcatAdjacentSubSeq DEF Frame

LEMMA Next1 ==
  ASSUME NEW s \in Frame, NEW k \in 0..Len(s) - 1
  PROVE  Append(SubSeq(s, 1, k), s[k + 1]) = SubSeq(s, 1, k + 1)
  <1> DEFINE p == SubSeq(s, 1, k)
             q == SubSeq(s, 1, k + 1)
  <1>1. Len(s) \in Nat /\ s[k + 1] \in Byte
    BY FrameElements
  <1>2. p \in Frame /\ Len(p) = k /\ \A i \in 1..k : p[i] = s[i]
    BY <1>1, Piece
  <1>3. q \in Frame /\ Len(q) = k + 1 /\ \A i \in 1..k + 1 : q[i] = s[i]
    BY <1>1, Piece
  <1> HIDE DEF p, q
  <1>4. /\ Append(p, s[k + 1]) \in Frame /\ Len(Append(p, s[k + 1])) = k + 1
        /\ \A i \in 1..k : Append(p, s[k + 1])[i] = p[i]
        /\ Append(p, s[k + 1])[k + 1] = s[k + 1]
    BY <1>1, <1>2, AppendProperties DEF Frame
  <1>5. \A i \in 1..k + 1 : Append(p, s[k + 1])[i] = q[i]
    BY <1>2, <1>3, <1>4
  <1>6. Append(p, s[k + 1]) = q
    BY <1>3, <1>4, <1>5, Same
  <1> QED BY <1>6 DEF p, q

\* The rest of a frame, in two parts.
LEMMA Parted ==
  ASSUME NEW s \in Frame, NEW k \in 0..Len(s), NEW n \in 0..Len(s) - k
  PROVE  LET rest == SubSeq(s, k + 1, Len(s)) IN
         /\ SubSeq(rest, 1, n) = SubSeq(s, k + 1, k + n)
         /\ SubSeq(rest, n + 1, Len(rest)) = SubSeq(s, k + n + 1, Len(s))
  <1> DEFINE rest == SubSeq(s, k + 1, Len(s))
             a == SubSeq(rest, 1, n)
             b == SubSeq(s, k + 1, k + n)
             c == SubSeq(rest, n + 1, Len(rest))
             d == SubSeq(s, k + n + 1, Len(s))
  <1>1. Len(s) \in Nat
    BY FrameElements
  <1>2. /\ rest \in Frame /\ Len(rest) = Len(s) - k
        /\ \A i \in 1..Len(s) - k : rest[i] = s[k + i]
    <2>1. k + 1 \in 1..Len(s) + 1 /\ Len(s) \in (k + 1) - 1..Len(s)
      BY <1>1
    <2>2. /\ rest \in Frame /\ Len(rest) = Len(s) - (k + 1) + 1
          /\ \A i \in 1..Len(s) - (k + 1) + 1 : rest[i] = s[(k + 1) + i - 1]
      BY <2>1, Piece
    <2> HIDE DEF rest
    <2> QED BY <1>1, <2>2
  <1>3. b \in Frame /\ Len(b) = n /\ \A i \in 1..n : b[i] = s[k + i]
    <2>1. k + 1 \in 1..Len(s) + 1 /\ k + n \in (k + 1) - 1..Len(s)
      BY <1>1
    <2>2. /\ b \in Frame /\ Len(b) = (k + n) - (k + 1) + 1
          /\ \A i \in 1..(k + n) - (k + 1) + 1 : b[i] = s[(k + 1) + i - 1]
      BY <2>1, Piece
    <2> HIDE DEF b
    <2> QED BY <1>1, <2>2
  <1>4. /\ d \in Frame /\ Len(d) = Len(s) - k - n
        /\ \A i \in 1..Len(s) - k - n : d[i] = s[k + n + i]
    <2>1. k + n + 1 \in 1..Len(s) + 1 /\ Len(s) \in (k + n + 1) - 1..Len(s)
      BY <1>1
    <2>2. /\ d \in Frame /\ Len(d) = Len(s) - (k + n + 1) + 1
          /\ \A i \in 1..Len(s) - (k + n + 1) + 1 : d[i] = s[(k + n + 1) + i - 1]
      BY <2>1, Piece
    <2> HIDE DEF d
    <2> QED BY <1>1, <2>2
  <1> HIDE DEF rest
  <1>5. a \in Frame /\ Len(a) = n /\ \A i \in 1..n : a[i] = rest[i]
    <2>1. 1 \in 1..Len(rest) + 1 /\ n \in 1 - 1..Len(rest)
      BY <1>1, <1>2
    <2>2. /\ a \in Frame /\ Len(a) = n - 1 + 1
          /\ \A i \in 1..n - 1 + 1 : a[i] = rest[1 + i - 1]
      BY <1>2, <2>1, Piece
    <2> HIDE DEF a
    <2> QED BY <1>1, <2>2
  <1>6. /\ c \in Frame /\ Len(c) = Len(s) - k - n
        /\ \A i \in 1..Len(s) - k - n : c[i] = rest[n + i]
    <2>1. n + 1 \in 1..Len(rest) + 1 /\ Len(rest) \in (n + 1) - 1..Len(rest)
      BY <1>1, <1>2
    <2>2. /\ c \in Frame /\ Len(c) = Len(rest) - (n + 1) + 1
          /\ \A i \in 1..Len(rest) - (n + 1) + 1 : c[i] = rest[(n + 1) + i - 1]
      BY <1>2, <2>1, Piece
    <2> HIDE DEF c
    <2> QED BY <1>1, <1>2, <2>2
  <1> HIDE DEF a, b, c, d
  <1>7. a = b
    <2>1. \A i \in 1..n : a[i] = b[i]
      BY <1>1, <1>2, <1>3, <1>5
    <2> QED BY <1>3, <1>5, <2>1, Same
  <1>8. c = d
    <2>1. \A i \in 1..Len(s) - k - n : c[i] = d[i]
      <3> TAKE i \in 1..Len(s) - k - n
      <3>1. n + i \in 1..Len(s) - k /\ k + (n + i) = k + n + i
        BY <1>1
      <3>2. rest[n + i] = s[k + n + i]
        BY <1>2, <3>1
      <3> QED BY <1>4, <1>6, <3>2
    <2> QED BY <1>4, <1>6, <2>1, Same
  <1> QED BY <1>7, <1>8 DEF a, b, c, d, rest

-----------------------------------------------------------------------------
(* The checksum. *)

LEMMA CrcStepType ==
  ASSUME NEW crc \in Byte \X Byte, NEW byte \in Byte
  PROVE  CrcStep(crc, byte) \in Byte \X Byte
  <1> DEFINE index == Xor(crc[1], byte) + 1
  <1>1. crc[1] \in Byte /\ crc[2] \in Byte
    OBVIOUS
  <1>2. index \in 1..256
    <2>1. Xor(crc[1], byte) \in Byte
      BY <1>1, XorType
    <2> QED BY <2>1, Numbers
  <1>3. _auchCRCHi[index] \in Byte /\ _auchCRCLo[index] \in Byte
    BY <1>2, TablesType
  <1>4. Xor(crc[2], _auchCRCHi[index]) \in Byte
    BY <1>1, <1>3, XorType
  <1>5. CrcStep(crc, byte) = <<Xor(crc[2], _auchCRCHi[index]), _auchCRCLo[index]>>
    BY DEF CrcStep
  <1> QED BY <1>3, <1>4, <1>5

LEMMA CrcType ==
  ASSUME NEW bytes \in Frame
  PROVE  CRC16(bytes) \in Byte \X Byte
  <1> DEFINE n == Len(bytes)
             T == Byte \X Byte
             base == <<255, 255>>
             f == CHOOSE g : g = [i \in 0..n |->
                               IF i = 0 THEN base ELSE CrcStep(g[i - 1], bytes[i])]
             F == [x \in T \X (1..n) |-> CrcStep(x[1], bytes[x[2]])]
  <1>1. n \in Nat /\ \A i \in 1..n : bytes[i] \in Byte
    BY DEF Frame
  <1>2. base \in T
    BY Numbers
  <1>3. F \in [T \X (1..n) -> T]
    <2>1. ASSUME NEW x \in T \X (1..n) PROVE CrcStep(x[1], bytes[x[2]]) \in T
      BY <1>1, CrcStepType
    <2> QED BY <2>1
  <1>4. PICK g \in [0..n -> T] :
          g[0] = base /\ \A i \in 1..n : g[i] = F[<<g[i - 1], i>>]
    <2> HIDE DEF F, T, n, f, base
    <2> QED BY <1>1, <1>2, <1>3, Recursion, SMTT(20)
  <1>5. ASSUME NEW i \in 1..n PROVE g[i] = CrcStep(g[i - 1], bytes[i])
    <2>1. i - 1 \in 0..n
      BY <1>1
    <2>2. <<g[i - 1], i>> \in T \X (1..n)
      BY <2>1
    <2> QED BY <1>4, <2>2
  <1>6. g = [i \in 0..n |-> IF i = 0 THEN base ELSE CrcStep(g[i - 1], bytes[i])]
    BY <1>1, <1>4, <1>5
  <1>7. f = [i \in 0..n |-> IF i = 0 THEN base ELSE CrcStep(f[i - 1], bytes[i])]
    BY <1>6, ZenonT(40)
  <1>8. f[0] = base /\ \A i \in 1..n : f[i] = CrcStep(f[i - 1], bytes[i])
    <2> HIDE DEF f, base
    <2> QED BY <1>1, <1>7
  <1>9. 0..n \subseteq {i \in 0..n : f[i] \in T}
    <2> DEFINE S == {i \in 0..n : f[i] \in T}
    <2> HIDE DEF f
    <2>1. 0 \in S
      BY <1>1, <1>2, <1>8
    <2>2. ASSUME NEW i \in 1..n, i - 1 \in S PROVE i \in S
      BY <1>1, <1>8, <2>2, CrcStepType
    <2> HIDE DEF S
    <2>3. 0..n \subseteq S
      BY <1>1, <2>1, <2>2, Along
    <2> QED BY <2>3 DEF S
  <1>10. CRC16(bytes) = f[n]
    BY DEF CRC16
  <1> HIDE DEF f
  <1> QED BY <1>1, <1>9, <1>10

LEMMA SealedIsFrame ==
  ASSUME NEW body \in Frame
  PROVE  /\ Sealed(body) \in Frame
         /\ Len(Sealed(body)) = Len(body) + 2
         /\ \A i \in 1..Len(body) : Sealed(body)[i] = body[i]
         /\ _IsChecksumOK(Sealed(body))
  <1> DEFINE crc == CRC16(body)
             q == Sealed(body)
  <1>1. crc \in Frame /\ Len(crc) = 2
    <2>1. crc[1] \in Byte /\ crc[2] \in Byte /\ crc = <<crc[1], crc[2]>>
      BY CrcType
    <2> HIDE DEF crc
    <2>2. <<crc[1], crc[2]>> \in Frame /\ Len(<<crc[1], crc[2]>>) = 2
      BY <2>1, Pair
    <2> QED BY <2>1, <2>2
  <1>2. q = body \o crc
    BY DEF Sealed
  <1> HIDE DEF crc
  <1>3. /\ q \in Frame /\ Len(q) = Len(body) + 2 /\ Len(body) \in Nat
        /\ \A i \in 1..Len(body) : q[i] = body[i]
    <2>1. /\ body \o crc \in Frame /\ Len(body \o crc) = Len(body) + Len(crc)
          /\ \A i \in 1..Len(body) : (body \o crc)[i] = body[i]
      BY <1>1, Joined, Zenon
    <2> HIDE DEF q
    <2> QED BY <1>1, <1>2, <2>1, FrameElements
  <1>4. SubSeq(q, 1, Len(q) - 2) = body
    <2> HIDE DEF q
    <2>1. SubSeq(q, 1, Len(body)) = body
      BY <1>1, <1>2, Leading
    <2>2. Len(q) - 2 = Len(body)
      BY <1>3
    <2> QED BY <2>1, <2>2
  <1>5. _IsChecksumOK(q)
    BY <1>4, Zenon DEF _IsChecksumOK
  <1> QED BY <1>3, <1>5

LEMMA WordIsFrame ==
  ASSUME NEW n \in Words
  PROVE  Word(n) \in Frame /\ Len(Word(n)) = 2 /\ 256 * Word(n)[1] + Word(n)[2] = n
  <1> DEFINE a == n \div 256
             b == n % 256
  <1>1. a \in Byte /\ b \in Byte /\ 256 * a + b = n
    BY WordParts
  <1>2. Word(n) = <<a, b>>
    BY DEF Word
  <1> HIDE DEF a, b
  <1> QED BY <1>1, <1>2, Pair

\* A head of bytes in front of two words.
Headed(head, m, n) == head \o Word(m) \o Word(n)

\* A frame that begins with head and has the words m and n after it.
HeadsAs(body, head, m, n) ==
  /\ body = Headed(head, m, n)
  /\ body \in Frame /\ Len(body) = Len(head) + 4
  /\ \A i \in 1..Len(head) : body[i] = head[i]
  /\ UInt16(body, Len(head) + 1) = m /\ UInt16(body, Len(head) + 3) = n

LEMMA HeadAndWords ==
  ASSUME NEW head \in Frame, NEW m \in Words, NEW n \in Words
  PROVE  \E body : HeadsAs(body, head, m, n)
  <1>0. PICK body : body = Headed(head, m, n)
    OBVIOUS
  <1>1. PICK w \in Frame : w = Word(m) /\ Len(w) = 2 /\ 256 * w[1] + w[2] = m
    BY WordIsFrame
  <1>2. PICK v \in Frame : v = Word(n) /\ Len(v) = 2 /\ 256 * v[1] + v[2] = n
    BY WordIsFrame
  <1>3. PICK h : h = head \o w
    OBVIOUS
  <1>4. Len(head) \in Nat
    BY FrameElements
  <1>5. /\ h \in Frame /\ Len(h) = Len(head) + 2
        /\ \A i \in 1..Len(head) : h[i] = head[i]
        /\ \A i \in 1..2 : h[Len(head) + i] = w[i]
    <2>1. /\ head \o w \in Frame /\ Len(head \o w) = Len(head) + Len(w)
          /\ \A i \in 1..Len(head) : (head \o w)[i] = head[i]
          /\ \A i \in 1..Len(w) : (head \o w)[Len(head) + i] = w[i]
      BY Joined, Zenon
    <2> QED BY <1>1, <1>3, <2>1
  <1>6. body = h \o v
    BY <1>0, <1>1, <1>2, <1>3 DEF Headed
  <1>7. /\ body \in Frame /\ Len(body) = Len(h) + 2
        /\ \A i \in 1..Len(h) : body[i] = h[i]
        /\ \A i \in 1..2 : body[Len(h) + i] = v[i]
    <2>1. /\ h \o v \in Frame /\ Len(h \o v) = Len(h) + Len(v)
          /\ \A i \in 1..Len(h) : (h \o v)[i] = h[i]
          /\ \A i \in 1..Len(v) : (h \o v)[Len(h) + i] = v[i]
      BY <1>5, Joined, Zenon
    <2> QED BY <1>2, <1>6, <2>1
  <1>8. \A i \in 1..Len(head) : body[i] = head[i]
    BY <1>4, <1>5, <1>7
  <1>9. body[Len(head) + 1] = w[1] /\ body[Len(head) + 2] = w[2]
    <2>1. Len(head) + 1 \in 1..Len(h) /\ Len(head) + 2 \in 1..Len(h)
      BY <1>4, <1>5
    <2> QED BY <1>5, <1>7, <2>1
  <1>10. body[Len(head) + 3] = v[1] /\ body[Len(head) + 4] = v[2]
    <2>1. Len(h) + 1 = Len(head) + 3 /\ Len(h) + 2 = Len(head) + 4
      BY <1>4, <1>5
    <2> QED BY <1>7, <2>1
  <1>11. UInt16(body, Len(head) + 1) = m
    <2>1. Len(head) + 1 + 1 = Len(head) + 2
      BY <1>4
    <2> QED BY <1>1, <1>9, <2>1 DEF UInt16
  <1>12. UInt16(body, Len(head) + 3) = n
    <2>1. Len(head) + 3 + 1 = Len(head) + 4
      BY <1>4
    <2> QED BY <1>2, <1>10, <2>1 DEF UInt16
  <1>13. Len(body) = Len(head) + 4
    BY <1>4, <1>5, <1>7
  <1> QED BY <1>0, <1>7, <1>8, <1>11, <1>12, <1>13 DEF HeadsAs

-----------------------------------------------------------------------------
(* Queries. *)

LEMMA Listed ==
  ASSUME NEW n \in Nat, NEW f \in [1..n -> Byte]
  PROVE  f \in Frame /\ Len(f) = n
  BY DEF Frame

LEMMA UInt16Type ==
  ASSUME NEW s \in Frame, NEW i \in 1..Len(s) - 1
  PROVE  UInt16(s, i) \in Words
  <1>1. i \in 1..Len(s) /\ i + 1 \in 1..Len(s)
    BY FrameElements
  <1>2. s[i] \in Byte /\ s[i + 1] \in Byte
    BY <1>1, FrameElements
  <1> QED BY <1>2, WordOfBytes DEF UInt16

LEMMA PackedType ==
  ASSUME NEW on, NEW count \in Nat
  PROVE  /\ PackedAll(on, count) \in Frame
         /\ Len(PackedAll(on, count)) = (count + 7) \div 8
  <1> DEFINE byte(k) == ByteOf({i \in 0..7 : 8 * (k - 1) + i < count /\ 8 * (k - 1) + i \in on})
             n == (count + 7) \div 8
             f == [k \in 1..n |-> byte(k)]
  <1>1. n \in Nat
    BY SMT
  <1>2. \A k \in 1..n : byte(k) \in Byte
    BY ByteOfType
  <1>3. PackedAll(on, count) = f
    BY DEF PackedAll
  <1> HIDE DEF byte, n
  <1>4. f \in [1..n -> Byte]
    BY <1>2
  <1> HIDE DEF f
  <1>5. f \in Frame /\ Len(f) = n
    BY <1>1, <1>4, Listed
  <1> QED BY <1>3, <1>5 DEF n

\* A function and two words, as all the queries begin.
LEMMA QueryBody ==
  ASSUME NEW fn \in Byte, NEW m \in Words, NEW n \in Words
  PROVE  LET body == Headed(<<Address, fn>>, m, n) IN
         /\ body \in Frame /\ Len(body) = 6
         /\ body[1] = Address /\ body[2] = fn /\ UInt16(body, 3) = m /\ UInt16(body, 5) = n
  <1>1. PICK head : head = <<Address, fn>>
    OBVIOUS
  <1>2. head \in Frame /\ Len(head) = 2 /\ head[1] = Address /\ head[2] = fn
    <2>1. Address \in Byte
      BY Numbers DEF Address
    <2> QED BY <1>1, <2>1, Pair
  <1>3. PICK body : HeadsAs(body, head, m, n)
    BY <1>2, HeadAndWords, Zenon
  <1>4. /\ body = Headed(head, m, n)
        /\ body \in Frame /\ Len(body) = Len(head) + 4
        /\ \A i \in 1..Len(head) : body[i] = head[i]
        /\ UInt16(body, Len(head) + 1) = m /\ UInt16(body, Len(head) + 3) = n
    BY <1>3 DEF HeadsAs
  <1>5. /\ body \in Frame /\ Len(body) = 6
        /\ body[1] = Address /\ body[2] = fn /\ UInt16(body, 3) = m /\ UInt16(body, 5) = n
    <2>1. Len(head) + 1 = 3 /\ Len(head) + 3 = 5 /\ Len(head) + 4 = 6
      BY <1>2
    <2>2. 1 \in 1..Len(head) /\ 2 \in 1..Len(head)
      BY <1>2
    <2> QED BY <1>2, <1>4, <2>1, <2>2, Zenon
  <1> QED BY <1>1, <1>4, <1>5

LEMMA SealedQuery ==
  ASSUME NEW body \in Frame, Len(body) >= 6, NEW q, q = Sealed(body)
  PROVE  /\ q \in Frame /\ Len(q) = Len(body) + 2 /\ _IsChecksumOK(q)
         /\ \A i \in 1..Len(body) : q[i] = body[i]
         /\ UInt16(q, 3) = UInt16(body, 3) /\ UInt16(q, 5) = UInt16(body, 5)
  <1>1. /\ q \in Frame /\ Len(q) = Len(body) + 2 /\ _IsChecksumOK(q)
        /\ \A i \in 1..Len(body) : q[i] = body[i]
    BY SealedIsFrame
  <1>2. Len(body) \in Nat
    BY FrameElements
  <1>3. q[3] = body[3] /\ q[4] = body[4] /\ q[5] = body[5] /\ q[6] = body[6]
    BY <1>1, <1>2
  <1> QED BY <1>1, <1>3 DEF UInt16

\* What the engine configures.
DeviceSet == [type : {"COIL", "DISCRETE_INPUT"}, start : Words, count : 1..32]

\* The bytes that n bits take.
BytesOf(n) == (n + 7) \div 8

LEMMA BytesAre ==
  ASSUME NEW n \in 1..32
  PROVE  /\ BytesOf(n) \in 1..4 /\ n <= 8 * BytesOf(n) /\ n \in Words
         /\ \A i \in 0..n - 1 : i \div 8 \in 0..BytesOf(n) - 1
  BY DEF BytesOf, Words

LEMMA BitOfBytes ==
  ASSUME NEW i \in Nat
  PROVE  i \div 8 \in Nat /\ i % 8 \in 0..7 /\ i = 8 * (i \div 8) + (i % 8)
  BY SMT

\* What slaves are asked.
IsQuery(q) ==
  /\ q \in Frame /\ q[1] = Address /\ _IsChecksumOK(q)
  /\ q[2] \in {1, 2, 15}
  /\ Len(q) = IF q[2] = 15 THEN 9 + q[7] ELSE 8
  /\ q[2] = 15 => q[7] \in 1..4

LEMMA ReadQueryIs ==
  ASSUME NEW d \in DeviceSet, NEW q, q = ReadQuery(d)
  PROVE  /\ IsQuery(q)
         /\ q[2] = IF d.type = "COIL" THEN 1 ELSE 2
         /\ UInt16(q, 3) = d.start /\ UInt16(q, 5) = d.count
  <1> DEFINE fn == IF d.type = "COIL" THEN 1 ELSE 2
  <1>1. fn \in Byte /\ fn \in {1, 2} /\ d.start \in Words /\ d.count \in Words
    BY Numbers DEF DeviceSet
  <1>2. PICK body : body = Headed(<<Address, fn>>, d.start, d.count)
    OBVIOUS
  <1>3. q = Sealed(body)
    BY <1>2 DEF ReadQuery, Headed
  <1>4. /\ body \in Frame /\ Len(body) = 6
        /\ body[1] = Address /\ body[2] = fn
        /\ UInt16(body, 3) = d.start /\ UInt16(body, 5) = d.count
    <2> HIDE DEF fn
    <2> QED BY <1>1, <1>2, QueryBody
  <1>5. /\ q \in Frame /\ Len(q) = Len(body) + 2 /\ _IsChecksumOK(q)
        /\ \A i \in 1..Len(body) : q[i] = body[i]
        /\ UInt16(q, 3) = UInt16(body, 3) /\ UInt16(q, 5) = UInt16(body, 5)
    <2>1. Len(body) >= 6
      BY <1>4
    <2> QED BY <1>3, <1>4, <2>1, SealedQuery, Zenon
  <1>6. q[1] = Address /\ q[2] = fn /\ Len(q) = 8
    BY <1>4, <1>5
  <1> QED BY <1>1, <1>4, <1>5, <1>6 DEF IsQuery

LEMMA WriteQueryIs ==
  ASSUME NEW d \in DeviceSet, NEW b, NEW q, q = WriteQuery(d, b)
  PROVE  /\ IsQuery(q) /\ q[2] = 15
         /\ UInt16(q, 3) = d.start /\ UInt16(q, 5) = d.count
  <1>1. 15 \in Byte /\ d.start \in Words /\ d.count \in Words /\ BytesOf(d.count) \in 1..4 /\ d.count \in Nat
    <2>1. d.start \in Words /\ d.count \in 1..32
      BY DEF DeviceSet
    <2> QED BY <2>1, Numbers, BytesAre
  <1>2. PICK head : head = Headed(<<Address, 15>>, d.start, d.count)
    OBVIOUS
  <1>3. /\ head \in Frame /\ Len(head) = 6
        /\ head[1] = Address /\ head[2] = 15
        /\ UInt16(head, 3) = d.start /\ UInt16(head, 5) = d.count
    BY <1>1, <1>2, QueryBody
  <1>4. PICK payload : payload = PackedAll({i \in 0..d.count - 1 : b[i + 1]}, d.count)
    OBVIOUS
  <1>5. PICK n \in 1..4 : payload \in Frame /\ Len(payload) = n
    BY <1>1, <1>4, PackedType DEF BytesOf
  <1>6. q = Sealed(head \o <<n>> \o payload)
    BY <1>2, <1>4, <1>5 DEF WriteQuery, Headed
  <1>7. PICK h : h = head \o <<n>>
    OBVIOUS
  <1>8. PICK size : size = <<n>> /\ size \in Frame /\ Len(size) = 1 /\ size[1] = n
    <2>1. n \in Byte
      BY DEF Byte
    <2>2. <<n>> \in Frame /\ Len(<<n>>) = 1 /\ <<n>>[1] = n
      BY <2>1, Single, Zenon
    <2> WITNESS <<n>>
    <2> QED BY <2>2, Zenon
  <1>9. /\ h \in Frame /\ Len(h) = Len(head) + Len(size)
        /\ \A i \in 1..Len(head) : h[i] = head[i]
        /\ \A i \in 1..Len(size) : h[Len(head) + i] = size[i]
    <2>1. /\ head \o size \in Frame /\ Len(head \o size) = Len(head) + Len(size)
          /\ \A i \in 1..Len(head) : (head \o size)[i] = head[i]
          /\ \A i \in 1..Len(size) : (head \o size)[Len(head) + i] = size[i]
      BY <1>3, <1>8, Joined, Zenon
    <2> QED BY <1>7, <1>8, <2>1
  <1>10. Len(h) = 7 /\ h[7] = n /\ \A i \in 1..6 : h[i] = head[i]
    <2>1. 1 \in 1..Len(size) /\ 6 + 1 = 7
      BY <1>8
    <2> QED BY <1>3, <1>8, <1>9, <2>1
  <1>11. PICK body : body = h \o payload
    OBVIOUS
  <1>12. /\ body \in Frame /\ Len(body) = Len(h) + Len(payload)
         /\ \A i \in 1..Len(h) : body[i] = h[i]
    <2>1. /\ h \o payload \in Frame /\ Len(h \o payload) = Len(h) + Len(payload)
          /\ \A i \in 1..Len(h) : (h \o payload)[i] = h[i]
          /\ \A i \in 1..Len(payload) : (h \o payload)[Len(h) + i] = payload[i]
      BY <1>5, <1>9, Joined, Zenon
    <2> QED BY <1>11, <2>1
  <1>13. Len(body) = 7 + n /\ body[7] = n /\ \A i \in 1..6 : body[i] = head[i]
    BY <1>5, <1>10, <1>12
  <1>14. q = Sealed(body)
    BY <1>6, <1>7, <1>11
  <1>15. /\ q \in Frame /\ Len(q) = 9 + n /\ _IsChecksumOK(q)
         /\ \A i \in 1..7 : q[i] = body[i]
         /\ UInt16(q, 3) = UInt16(body, 3) /\ UInt16(q, 5) = UInt16(body, 5)
    <2>1. Len(body) >= 6
      BY <1>13
    <2>2. /\ q \in Frame /\ Len(q) = Len(body) + 2 /\ _IsChecksumOK(q)
          /\ \A i \in 1..Len(body) : q[i] = body[i]
          /\ UInt16(q, 3) = UInt16(body, 3) /\ UInt16(q, 5) = UInt16(body, 5)
      BY <1>12, <1>14, <2>1, SealedQuery
    <2> QED BY <1>13, <2>2
  <1>16. UInt16(body, 3) = d.start /\ UInt16(body, 5) = d.count
    BY <1>3, <1>13 DEF UInt16
  <1>17. q[1] = Address /\ q[2] = 15 /\ q[7] = n
    BY <1>3, <1>13, <1>15
  <1> QED BY <1>15, <1>16, <1>17 DEF IsQuery

-----------------------------------------------------------------------------
(* Replies. *)

Functions == {1, 2, 3, 4, 5, 6, 15, 16}

LEMMA ErrorReplyIs ==
  ASSUME NEW fn \in Functions, NEW code \in Byte, NEW reply, reply = _SendErrorReply(fn, code)
  PROVE  reply \in Frame /\ Len(reply) = 5 /\ reply[2] = fn + 128
  <1> DEFINE f == fn + 128
  <1>1. f \in Byte /\ Address \in Byte
    BY Numbers DEF Functions, Address
  <1> HIDE DEF f
  <1>2. PICK body : body = <<Address, f, code>>
    OBVIOUS
  <1>3. body \in Frame /\ Len(body) = 3 /\ body[2] = f
    BY <1>1, <1>2, Triple
  <1>4. reply = Sealed(body)
    BY <1>2 DEF _SendErrorReply, f
  <1>5. /\ Sealed(body) \in Frame /\ Len(Sealed(body)) = Len(body) + 2
        /\ \A i \in 1..Len(body) : Sealed(body)[i] = body[i]
    BY <1>3, SealedIsFrame, Zenon
  <1>6. Len(body) + 2 = 5 /\ 2 \in 1..Len(body)
    BY <1>3
  <1> QED BY <1>3, <1>4, <1>5, <1>6 DEF f

LEMMA SuccessReplyIs ==
  ASSUME NEW fn \in Byte, NEW first \in Words, NEW count \in Words,
         NEW reply, reply = _SendSuccessReply(fn, first, count)
  PROVE  reply \in Frame /\ Len(reply) = 8 /\ reply[2] = fn
  <1>1. PICK body : body = Headed(<<Address, fn>>, first, count)
    OBVIOUS
  <1>2. body \in Frame /\ Len(body) = 6 /\ body[2] = fn
    BY <1>1, QueryBody
  <1>3. reply = Sealed(body)
    BY <1>1 DEF _SendSuccessReply, Headed
  <1>4. /\ Sealed(body) \in Frame /\ Len(Sealed(body)) = Len(body) + 2
        /\ \A i \in 1..Len(body) : Sealed(body)[i] = body[i]
    BY <1>2, SealedIsFrame, Zenon
  <1>5. Len(body) + 2 = 8 /\ 2 \in 1..Len(body)
    BY <1>2
  <1> QED BY <1>2, <1>3, <1>4, <1>5

LEMMA DataReplyIs ==
  ASSUME NEW fn \in Byte, NEW payload \in Frame, NEW reply, reply = _SendDataReply(fn, payload)
  PROVE  /\ reply \in Frame /\ Len(reply) = Len(payload) + 5 /\ reply[2] = fn
         /\ Len(payload) < 256 => reply[3] = Len(payload)
         /\ \A i \in 1..Len(payload) : reply[3 + i] = payload[i]
  <1> DEFINE n == Len(payload) % 256
  <1>1. n \in Byte /\ Address \in Byte /\ Len(payload) \in Nat
    BY FrameElements, Numbers DEF Address
  <1> HIDE DEF n
  <1>2. PICK head : head = <<Address, fn, n>>
    OBVIOUS
  <1>3. head \in Frame /\ Len(head) = 3 /\ head[2] = fn /\ head[3] = n
    BY <1>1, <1>2, Triple
  <1>4. PICK body : body = head \o payload
    OBVIOUS
  <1>5. /\ body \in Frame /\ Len(body) = Len(head) + Len(payload)
        /\ \A i \in 1..Len(head) : body[i] = head[i]
        /\ \A i \in 1..Len(payload) : body[Len(head) + i] = payload[i]
    <2>1. /\ head \o payload \in Frame /\ Len(head \o payload) = Len(head) + Len(payload)
          /\ \A i \in 1..Len(head) : (head \o payload)[i] = head[i]
          /\ \A i \in 1..Len(payload) : (head \o payload)[Len(head) + i] = payload[i]
      BY <1>3, Joined, Zenon
    <2> QED BY <1>4, <2>1
  <1>6. reply = Sealed(body)
    BY <1>2, <1>4 DEF _SendDataReply, n
  <1>7. /\ Sealed(body) \in Frame /\ Len(Sealed(body)) = Len(body) + 2
        /\ \A i \in 1..Len(body) : Sealed(body)[i] = body[i]
    BY <1>5, SealedIsFrame, Zenon
  <1>8. ASSUME NEW i \in 1..Len(payload) PROVE reply[3 + i] = payload[i]
    <2>1. 3 + i \in 1..Len(body)
      BY <1>1, <1>3, <1>5
    <2> QED BY <1>3, <1>5, <1>6, <1>7, <2>1
  <1>9. /\ 2 \in 1..Len(body) /\ 2 \in 1..Len(head) /\ 3 \in 1..Len(body) /\ 3 \in 1..Len(head)
        /\ Len(body) + 2 = Len(payload) + 5
    BY <1>1, <1>3, <1>5
  <1>10. Len(payload) < 256 => reply[3] = Len(payload)
    <2>1. reply[3] = n
      BY <1>3, <1>5, <1>6, <1>7, <1>9
    <2>2. Len(payload) < 256 => n = Len(payload)
      BY <1>1 DEF n
    <2> QED BY <2>1, <2>2
  <1> QED BY <1>3, <1>5, <1>6, <1>7, <1>8, <1>9, <1>10

\* A reply to a query for bits has the bytes for them, or reports an error.
ShowsBits(reply, first, count, bits) ==
  \A i \in 0..8 * BytesOf(count) - 1 :
    IsSet(reply[4 + i \div 8], i % 8) <=> i < count /\ first + i \in DOMAIN bits /\ bits[first + i]

Complete(reply, first, count, bits) ==
  /\ Len(reply) = 5 + BytesOf(count) /\ reply[3] = BytesOf(count)
  /\ ShowsBits(reply, first, count, bits)

LEMMA BitOfPacked ==
  ASSUME NEW on, NEW count \in 1..32, NEW i \in 0..8 * BytesOf(count) - 1
  PROVE  /\ i \div 8 + 1 \in 1..BytesOf(count)
         /\ IsSet(PackedAll(on, count)[i \div 8 + 1], i % 8) <=> i < count /\ i \in on
  <1>1. PICK k \in 1..BytesOf(count), j \in 0..7 : k = i \div 8 + 1 /\ j = i % 8 /\ 8 * (k - 1) + j = i
    <2>1. i \in Nat /\ BytesOf(count) \in 1..4
      BY BytesAre
    <2>2. i \div 8 \in Nat /\ i % 8 \in 0..7 /\ i = 8 * (i \div 8) + (i % 8)
      BY <2>1, BitOfBytes
    <2>3. PICK a \in Nat, j \in 0..7 : a = i \div 8 /\ j = i % 8 /\ i = 8 * a + j
      BY <2>2
    <2>4. a + 1 \in 1..BytesOf(count)
      BY <2>1, <2>3
    <2>5. 8 * ((a + 1) - 1) + j = i
      BY <2>3
    <2> QED BY <2>3, <2>4, <2>5
  <1> DEFINE set == {b \in 0..7 : 8 * (k - 1) + b < count /\ 8 * (k - 1) + b \in on}
  <1>2. PackedAll(on, count)[k] = ByteOf(set)
    BY <1>1 DEF PackedAll, BytesOf
  <1>3. IsSet(ByteOf(set), j) <=> j \in set
    <2> HIDE DEF set
    <2> QED BY BitOfByte
  <1>4. j \in set <=> i < count /\ i \in on
    BY <1>1
  <1> HIDE DEF set
  <1> QED BY <1>1, <1>2, <1>3, <1>4

LEMMA BitOfShown ==
  ASSUME NEW first \in Nat, NEW count \in 1..32, NEW bits, NEW reply, ShowsBits(reply, first, count, bits),
         NEW i \in 1..8 * BytesOf(count)
  PROVE  IsSet(reply[4 + (i - 1) \div 8], (i - 1) % 8) <=>
           i <= count /\ first + i - 1 \in DOMAIN bits /\ bits[first + i - 1]
  <1>1. BytesOf(count) \in 1..4
    BY BytesAre
  <1>2. PICK j \in 0..8 * BytesOf(count) - 1 : j = i - 1
    BY <1>1
  <1>3. IsSet(reply[4 + j \div 8], j % 8) <=> j < count /\ first + j \in DOMAIN bits /\ bits[first + j]
    BY DEF ShowsBits
  <1>4. (j < count <=> i <= count) /\ first + j = first + i - 1
    BY <1>1, <1>2
  <1> QED BY <1>2, <1>3, <1>4

LEMMA BitsReplyIs ==
  ASSUME NEW fn \in {1, 2}, NEW bits, NEW first \in Words, NEW count \in Words,
         NEW reply, reply = BitsReply(fn, bits, first, count)
  PROVE  /\ reply \in Frame
         /\ count \in 1..32 =>
              \/ Len(reply) = 5 /\ reply[2] = fn + 128
              \/ reply[2] = fn /\ Complete(reply, first, count, bits)
  <1> DEFINE on == {i \in 0..count - 1 : first + i \in DOMAIN bits /\ bits[first + i]}
             some == \E i \in 0..count - 1 : first + i \in DOMAIN bits
             code == IF count = 0 THEN 0 ELSE IllegalAddress
  <1>1. fn \in Functions /\ fn \in Byte /\ count \in Nat /\ first \in Nat /\ code \in Byte
    BY Numbers DEF Functions, IllegalAddress
  <1>2. PICK payload : payload = PackedAll(on, count)
    OBVIOUS
  <1>3. reply = IF some THEN _SendDataReply(fn, payload) ELSE _SendErrorReply(fn, code)
    BY <1>2 DEF BitsReply
  <1>4. payload \in Frame /\ Len(payload) = BytesOf(count)
    <2> HIDE DEF on
    <2> QED BY <1>1, <1>2, PackedType DEF BytesOf
  <1>5. CASE some
    <2>1. /\ reply \in Frame /\ Len(reply) = Len(payload) + 5 /\ reply[2] = fn
          /\ Len(payload) < 256 => reply[3] = Len(payload)
          /\ \A i \in 1..Len(payload) : reply[3 + i] = payload[i]
      <3>1. reply = _SendDataReply(fn, payload)
        BY <1>3, <1>5
      <3>2. fn \in Byte /\ payload \in Frame
        BY <1>1, <1>4
      <3> HIDE DEF on, some
      <3> QED BY ONLY <3>1, <3>2, DataReplyIs
    <2>2. ASSUME count \in 1..32 PROVE Complete(reply, first, count, bits)
      <3>1. PICK n \in 1..4 : n = BytesOf(count) /\ Len(payload) = n
        <4> HIDE DEF on, some, code
        <4>1. BytesOf(count) \in 1..4
          BY <2>2, BytesAre
        <4>2. Len(payload) = BytesOf(count)
          BY <1>4
        <4> QED BY <4>1, <4>2, Zenon
      <3>2. Len(reply) = 5 + n /\ reply[3] = n
        <4> HIDE DEF on, some
        <4>1. n + 5 = 5 + n /\ n < 256
          OBVIOUS
        <4> QED BY <2>1, <3>1, <4>1
      <3>3. ASSUME NEW i \in 0..8 * BytesOf(count) - 1
            PROVE  IsSet(reply[4 + i \div 8], i % 8) <=>
                     i < count /\ first + i \in DOMAIN bits /\ bits[first + i]
        <4>1. PICK k \in 1..n : k = i \div 8 + 1 /\ (IsSet(payload[k], i % 8) <=> i < count /\ i \in on)
          <5> HIDE DEF on, some
          <5> QED BY <1>2, <2>2, <3>1, BitOfPacked
        <4>2. 4 + i \div 8 = 3 + k
          <5> HIDE DEF on, some
          <5>1. i \in Nat
            BY <3>1
          <5>2. i \div 8 \in Nat
            BY <5>1, BitOfBytes
          <5> QED BY <4>1, <5>2
        <4>3. reply[4 + i \div 8] = payload[k]
          <5> HIDE DEF on, some
          <5> QED BY <2>1, <3>1, <4>1, <4>2
        <4>4. i < count => i \in 0..count - 1
          BY <2>2, <3>1
        <4>5. i \in on <=> i \in 0..count - 1 /\ first + i \in DOMAIN bits /\ bits[first + i]
          OBVIOUS
        <4> HIDE DEF on, some
        <4> QED BY <4>1, <4>3, <4>4, <4>5, Zenon
      <3> HIDE DEF on, some
      <3> QED BY <3>1, <3>2, <3>3 DEF Complete, ShowsBits
    <2> HIDE DEF on, some
    <2> QED BY <2>1, <2>2
  <1>6. CASE ~some
    <2>1. reply = _SendErrorReply(fn, code)
      BY <1>3, <1>6
    <2> HIDE DEF code
    <2> QED BY <1>1, <2>1, ErrorReplyIs
  <1> QED BY <1>5, <1>6

LEMMA RegistersReplyIs ==
  ASSUME NEW fn \in {3, 4}, NEW ain \in [0..RegisterCount - 1 -> Words],
         NEW first \in Words, NEW count \in Words
  PROVE  RegistersReply(fn, ain, first, count) \in Frame
  <1> DEFINE at(i) == IF first + i \in DOMAIN ain THEN ain[first + i] ELSE 0
             word(i) == Word(at(i))
             payload == [k \in 1..2 * count |-> word((k - 1) \div 2)[1 + ((k - 1) % 2)]]
             some == \E i \in 0..count - 1 : first + i \in DOMAIN ain
             code == IF count = 0 THEN 0 ELSE IllegalAddress
  <1>1. fn \in Functions /\ fn \in Byte /\ 2 * count \in Nat /\ code \in Byte
    BY Numbers DEF Functions, IllegalAddress
  <1>2. RegistersReply(fn, ain, first, count) =
          IF some THEN _SendDataReply(fn, payload) ELSE _SendErrorReply(fn, code)
    BY DEF RegistersReply
  <1>3. ASSUME NEW i PROVE word(i)[1] \in Byte /\ word(i)[2] \in Byte
    <2>1. at(i) \in Words
      BY Numbers
    <2> HIDE DEF at
    <2>2. word(i) \in Frame /\ Len(word(i)) = 2
      BY <2>1, WordIsFrame
    <2> HIDE DEF word
    <2>3. PICK w : w = word(i)
      OBVIOUS
    <2>4. 1 \in 1..Len(w) /\ 2 \in 1..Len(w) /\ w \in Frame
      BY <2>2, <2>3
    <2>5. w[1] \in Byte /\ w[2] \in Byte
      BY <2>4, FrameElements
    <2> QED BY <2>3, <2>5
  <1>4. payload \in [1..2 * count -> Byte]
    <2> HIDE DEF word
    <2>1. ASSUME NEW k \in 1..2 * count PROVE word((k - 1) \div 2)[1 + ((k - 1) % 2)] \in Byte
      <3>1. PICK j : j = (k - 1) \div 2
        OBVIOUS
      <3>2. PICK h \in {1, 2} : h = 1 + ((k - 1) % 2)
        BY <1>1
      <3> QED BY <1>3, <3>1, <3>2
    <2> QED BY <2>1
  <1>5. payload \in Frame
    <2> HIDE DEF payload
    <2> QED BY <1>1, <1>4, Listed
  <1> HIDE DEF payload, code, some
  <1>6. _SendDataReply(fn, payload) \in Frame
    BY <1>1, <1>5, DataReplyIs
  <1>7. _SendErrorReply(fn, code) \in Frame
    BY <1>1, ErrorReplyIs
  <1> QED BY <1>2, <1>6, <1>7

LEMMA ReplyType ==
  ASSUME NEW r \in Registers, NEW frame \in Frame, Len(frame) >= 8, frame[2] \in Functions
  PROVE  Reply(r, frame) \in Frame
  <1> DEFINE fn == frame[2]
             first == UInt16(frame, 3)
             count == UInt16(frame, 5)
  <1>1. first \in Words /\ count \in Words
    <2>1. 3 \in 1..Len(frame) - 1 /\ 5 \in 1..Len(frame) - 1
      BY FrameElements
    <2> QED BY <2>1, UInt16Type
  <1>2. 0 \in Byte /\ IllegalAddress \in Byte /\ fn \in Byte
    BY Numbers DEF IllegalAddress, Functions
  <1>3. /\ DOMAIN r.dout = 0..OutputCount - 1 /\ r.ain \in [0..RegisterCount - 1 -> Words]
    BY DEF Registers
  <1>4. CASE fn = 1
    <2>1. Reply(r, frame) = BitsReply(fn, r.dout, first, count)
      BY <1>4 DEF Reply
    <2> HIDE DEF first, count
    <2> QED BY <1>1, <1>4, <2>1, BitsReplyIs
  <1>5. CASE fn = 2
    <2>1. Reply(r, frame) = BitsReply(fn, r.din, first, count)
      BY <1>5 DEF Reply
    <2> HIDE DEF first, count
    <2> QED BY <1>1, <1>5, <2>1, BitsReplyIs
  <1>6. CASE fn \in {3, 4}
    <2>1. Reply(r, frame) = RegistersReply(fn, r.ain, first, count)
      BY <1>6 DEF Reply
    <2> HIDE DEF first, count
    <2> QED BY <1>1, <1>3, <1>6, <2>1, RegistersReplyIs
  <1>7. CASE fn = 5
    <2>1. Reply(r, frame) \in {frame, _SendErrorReply(fn, IllegalAddress)}
      BY <1>7 DEF Reply
    <2> QED BY <1>2, <2>1, ErrorReplyIs
  <1>8. CASE fn = 15
    <2>1. Reply(r, frame) \in {_SendSuccessReply(fn, first, count), _SendErrorReply(fn, 0),
                               _SendErrorReply(fn, IllegalAddress)}
      BY <1>8 DEF Reply
    <2> HIDE DEF first, count
    <2> QED BY <1>1, <1>2, <2>1, ErrorReplyIs, SuccessReplyIs
  <1>9. CASE fn \in {6, 16}
    <2>1. Reply(r, frame) \in {_SendErrorReply(fn, 0), _SendErrorReply(fn, IllegalAddress)}
      BY <1>9 DEF Reply
    <2> QED BY <1>2, <2>1, ErrorReplyIs
  <1> QED BY <1>4, <1>5, <1>6, <1>7, <1>8, <1>9 DEF Functions

LEMMA WrittenType ==
  ASSUME NEW r \in Registers, NEW frame
  PROVE  Written(r, frame) \in Registers /\ Written(r, frame).din = r.din
  <1>1. /\ r.dout \in [0..OutputCount - 1 -> BOOLEAN] /\ r.din \in [0..InputCount - 1 -> BOOLEAN]
        /\ r.ain \in [0..RegisterCount - 1 -> Words]
        /\ r = [dout |-> r.dout, din |-> r.din, ain |-> r.ain]
    BY DEF Registers
  <1>2. ASSUME NEW at, NEW v \in BOOLEAN
        PROVE  WriteCoil(r, at, v) \in Registers /\ WriteCoil(r, at, v).din = r.din
    BY <1>1 DEF WriteCoil, Registers
  <1>3. WriteCoils(r, frame) \in Registers /\ WriteCoils(r, frame).din = r.din
    <2>1. PICK new : new =
            [c \in DOMAIN r.dout |->
               IF c - UInt16(frame, 3) \in GivenCoils(frame)
               THEN IsSet(frame[8 + (c - UInt16(frame, 3)) \div 8], (c - UInt16(frame, 3)) % 8)
               ELSE r.dout[c]]
      OBVIOUS
    <2>2. new \in [0..OutputCount - 1 -> BOOLEAN]
      BY <1>1, <2>1 DEF IsSet
    <2>3. WriteCoils(r, frame) = [r EXCEPT !.dout = new]
      BY <2>1 DEF WriteCoils
    <2> QED BY <1>1, <2>2, <2>3 DEF Registers
  <1>4. Written(r, frame) \in {WriteCoil(r, UInt16(frame, 3), UInt16(frame, 5) # 0),
                               WriteCoils(r, frame), r}
    BY DEF Written
  <1> QED BY <1>2, <1>3, <1>4

LEMMA QueryLength ==
  ASSUME NEW q, IsQuery(q)
  PROVE  q \in Frame /\ Len(q) \in Nat /\ Len(q) >= 8 /\ Len(q) <= 13 /\ q[2] \in Functions /\ \A i \in 1..Len(q) : q[i] \in Byte
  <1>1. q \in Frame /\ q[2] \in Functions
    BY DEF IsQuery, Functions
  <1>2. Len(q) \in 8..13
    <2>1. CASE q[2] = 15
      <3>1. PICK n \in 1..4 : n = q[7]
        BY <2>1 DEF IsQuery
      <3>2. Len(q) = 9 + q[7]
        BY <2>1 DEF IsQuery
      <3>3. Len(q) = 9 + n
        BY <3>1, <3>2
      <3> QED BY <3>3
    <2>2. CASE q[2] # 15
      <3>1. Len(q) = 8
        BY <2>2 DEF IsQuery
      <3> QED BY <3>1
    <2> QED BY <2>1, <2>2
  <1>3. Len(q) \in Nat /\ Len(q) >= 8 /\ Len(q) <= 13
    <2>1. \A n \in 8..13 : n \in Nat /\ n >= 8 /\ n <= 13
      OBVIOUS
    <2> QED BY <1>2, <2>1, Zenon
  <1>4. \A i \in 1..Len(q) : q[i] \in Byte
    BY <1>1, FrameElements
  <1> QED BY <1>1, <1>3, <1>4, Zenon

\* What the queries of the engine are answered with.
LEMMA Answers ==
  ASSUME NEW q, IsQuery(q), NEW r \in Registers, UInt16(q, 5) \in 1..32,
         NEW reply, reply = Reply(r, q)
  PROVE  /\ reply \in Frame
         /\ Len(reply) >= 5 /\ Len(reply) <= IF q[2] = 15 THEN 8 ELSE 5 + BytesOf(UInt16(q, 5))
         /\ reply[2] = 2 => q[2] = 2 /\ Complete(reply, UInt16(q, 3), UInt16(q, 5), r.din)
         /\ q[2] = 2 /\ Len(reply) = 5 + BytesOf(UInt16(q, 5)) =>
              Complete(reply, UInt16(q, 3), UInt16(q, 5), r.din)
  <1>1. PICK first, count : first = UInt16(q, 3) /\ count = UInt16(q, 5)
    OBVIOUS
  <1>2. q \in Frame /\ q[2] \in {1, 2, 15} /\ Len(q) >= 8
    BY QueryLength DEF IsQuery
  <1>3. reply \in Frame
    BY <1>2, ReplyType DEF Functions
  <1>4. first \in Words /\ count \in Words /\ count \in 1..32
    <2>1. 3 \in 1..Len(q) - 1 /\ 5 \in 1..Len(q) - 1
      BY <1>2, FrameElements
    <2> QED BY <1>1, <1>2, <2>1, UInt16Type
  <1>5. PICK n \in 1..4 : n = BytesOf(count)
    BY <1>4, BytesAre
  <1>6. CASE q[2] = 1
    <2>1. reply = BitsReply(1, r.dout, first, count)
      BY <1>1, <1>6 DEF Reply
    <2>2. Len(reply) \in {5, 5 + n} /\ reply[2] \in {1 + 128, 1}
      <3>1. \/ Len(reply) = 5 /\ reply[2] = 1 + 128
            \/ reply[2] = 1 /\ Complete(reply, first, count, r.dout)
        BY <1>4, <2>1, BitsReplyIs
      <3> QED BY <1>5, <3>1 DEF Complete
    <2>3. reply[2] # 2 /\ Len(reply) >= 5 /\ Len(reply) <= 5 + n
      <3>1. \A l, f : l \in {5, 5 + n} /\ f \in {1 + 128, 1} => f # 2 /\ l >= 5 /\ l <= 5 + n
        OBVIOUS
      <3> QED BY <2>2, <3>1, Zenon
    <2> QED BY <1>1, <1>3, <1>5, <1>6, <2>3
  <1>7. CASE q[2] = 2
    <2>1. reply = BitsReply(2, r.din, first, count)
      BY <1>1, <1>7 DEF Reply
    <2>2. \/ Len(reply) = 5 /\ reply[2] = 2 + 128
          \/ Len(reply) = 5 + n /\ reply[2] = 2 /\ Complete(reply, first, count, r.din)
      BY <1>4, <1>5, <2>1, BitsReplyIs DEF Complete
    <2>3. \A l, f, complete :
            (l = 5 /\ f = 2 + 128) \/ (l = 5 + n /\ f = 2 /\ complete) =>
              /\ l >= 5 /\ l <= 5 + n
              /\ f = 2 => complete
              /\ l = 5 + n => complete
      OBVIOUS
    <2>4. /\ Len(reply) >= 5 /\ Len(reply) <= 5 + n
          /\ reply[2] = 2 => Complete(reply, first, count, r.din)
          /\ Len(reply) = 5 + n => Complete(reply, first, count, r.din)
      BY <2>2, <2>3, Zenon
    <2> QED BY <1>1, <1>3, <1>5, <1>7, <2>4
  <1>8. CASE q[2] = 15
    <2>1. reply \in {_SendSuccessReply(15, first, count), _SendErrorReply(15, 0),
                     _SendErrorReply(15, IllegalAddress)}
      BY <1>1, <1>8 DEF Reply
    <2>2. 15 \in Byte /\ 15 \in Functions /\ 0 \in Byte /\ IllegalAddress \in Byte
      BY Numbers DEF Functions, IllegalAddress
    <2>3. \/ Len(reply) = 8 /\ reply[2] = 15
          \/ Len(reply) = 5 /\ reply[2] = 15 + 128
      BY <1>4, <2>1, <2>2, ErrorReplyIs, SuccessReplyIs
    <2>4. reply[2] # 2 /\ Len(reply) >= 5 /\ Len(reply) <= 8
      <3>1. \A l, f : (l = 8 /\ f = 15) \/ (l = 5 /\ f = 15 + 128) => f # 2 /\ l >= 5 /\ l <= 8
        OBVIOUS
      <3> QED BY <2>3, <3>1, Zenon
    <2> QED BY <1>3, <1>8, <2>4
  <1> QED BY <1>2, <1>6, <1>7, <1>8

-----------------------------------------------------------------------------
(* The slave. *)

Slave == [buf : Frame, regs : Registers, out : Frame, done : Seq(Frame)]

\* A slave between two bytes.
Ready == {s \in Slave : Len(s.buf) < ReadBuffer}

LEMMA Bounds ==
  ReadBuffer \in Nat /\ ReadBuffer > 13 /\ Timeout \in Nat \ {0} /\ Conns \subseteq Nat \ {0}
  BY ModbusLinkAssumption

LEMMA ObeyedType ==
  ASSUME NEW s \in Slave, NEW frame \in Frame, Len(frame) >= 8, frame[2] \in Functions
  PROVE  Obeyed(s, frame) \in Slave
  <1>1. /\ s = [buf |-> s.buf, regs |-> s.regs, out |-> s.out, done |-> s.done]
        /\ s.buf \in Frame /\ s.regs \in Registers /\ s.out \in Frame /\ s.done \in Seq(Frame)
    BY DEF Slave
  <1>2. Written(s.regs, frame) \in Registers
    BY <1>1, WrittenType
  <1>3. s.out \o Reply(s.regs, frame) \in Frame
    <2>1. Reply(s.regs, frame) \in Frame
      BY <1>1, ReplyType
    <2> QED BY <1>1, <2>1, Joined
  <1>4. Append(s.done, frame) \in Seq(Frame)
    BY <1>1, AppendProperties
  <1>5. Obeyed(s, frame) \in
          {s, [buf |-> s.buf, regs |-> Written(s.regs, frame),
               out |-> s.out \o Reply(s.regs, frame), done |-> Append(s.done, frame)]}
    BY <1>1, Zenon DEF Obeyed
  <1>6. [buf |-> s.buf, regs |-> Written(s.regs, frame),
         out |-> s.out \o Reply(s.regs, frame), done |-> Append(s.done, frame)] \in Slave
    BY <1>1, <1>2, <1>3, <1>4, Zenon DEF Slave
  <1> QED BY <1>5, <1>6, Zenon

LEMMA SizeIs ==
  ASSUME NEW bytes \in Frame
  PROVE  \/ ExpectedSize(bytes) = -1 \/ ExpectedSize(bytes) = 0
         \/ ExpectedSize(bytes) \in Nat /\ ExpectedSize(bytes) >= 8 /\ bytes[2] \in Functions
  <1>1. Len(bytes) >= 8 => bytes[7] \in Nat
    <2> SUFFICES ASSUME Len(bytes) >= 8 PROVE bytes[7] \in Nat
      OBVIOUS
    <2>1. 7 \in 1..Len(bytes)
      BY FrameElements
    <2> QED BY <2>1, FrameElements, Numbers
  <1>2. Len(bytes) \in Nat
    BY FrameElements
  <1> QED BY <1>1, <1>2 DEF ExpectedSize, Functions

LEMMA ProcessedType ==
  ASSUME NEW s \in Slave
  PROVE  _ProcessReceivedData(s) \in Slave
  <1> DEFINE size == ExpectedSize(s.buf)
             frame == SubSeq(s.buf, 1, size)
             rest == SubSeq(s.buf, size + 1, Len(s.buf))
  <1>1. /\ s = [buf |-> s.buf, regs |-> s.regs, out |-> s.out, done |-> s.done]
        /\ s.buf \in Frame /\ s.regs \in Registers /\ s.out \in Frame /\ s.done \in Seq(Frame)
    BY DEF Slave
  <1>2. Len(s.buf) \in Nat
    BY <1>1, FrameElements
  <1>3. CASE size = -1
    <2>1. _ProcessReceivedData(s) = [s EXCEPT !.buf = None]
      BY <1>3 DEF _ProcessReceivedData, Processed, None
    <2> QED BY <1>1, <2>1, NoBytes DEF Slave
  <1>4. CASE size # -1 /\ (size = 0 \/ Len(s.buf) < size)
    <2>1. _ProcessReceivedData(s) = s
      BY <1>4 DEF _ProcessReceivedData, Processed
    <2> QED BY <2>1
  <1>5. CASE size # -1 /\ size # 0 /\ ~(Len(s.buf) < size)
    <2>1. size \in Nat /\ size >= 8 /\ s.buf[2] \in Functions /\ size <= Len(s.buf)
      BY <1>1, <1>2, <1>5, SizeIs
    <2>2. _ProcessReceivedData(s) = Obeyed([s EXCEPT !.buf = rest], frame)
      BY <1>5 DEF _ProcessReceivedData, Processed
    <2> HIDE DEF size
    <2>3. 1 \in 1..Len(s.buf) + 1 /\ size \in 1 - 1..Len(s.buf)
      BY <1>2, <2>1
    <2>4. /\ frame \in Frame /\ Len(frame) = size - 1 + 1
          /\ \A i \in 1..size - 1 + 1 : frame[i] = s.buf[1 + i - 1]
      BY <1>1, <2>3, Piece
    <2>5. size + 1 \in 1..Len(s.buf) + 1 /\ Len(s.buf) \in (size + 1) - 1..Len(s.buf)
      BY <1>2, <2>1
    <2>6. rest \in Frame
      BY <1>1, <2>5, Piece
    <2> HIDE DEF frame, rest
    <2>7. Len(frame) >= 8 /\ frame[2] \in Functions
      <3>1. Len(frame) = size /\ 2 \in 1..size - 1 + 1 /\ 1 + 2 - 1 = 2
        BY <2>1, <2>4
      <3>2. frame[2] = s.buf[2]
        BY <2>4, <3>1
      <3> QED BY <2>1, <3>1, <3>2
    <2>8. [s EXCEPT !.buf = rest] \in Slave
      BY <1>1, <2>6 DEF Slave
    <2> QED BY <2>2, <2>4, <2>7, <2>8, ObeyedType
  <1> DEFINE unknown == size = -1
             short == size = 0 \/ Len(s.buf) < size
  <1>6. ~unknown /\ ~short => size # 0 /\ ~(Len(s.buf) < size)
    OBVIOUS
  <1>7. CASE unknown
    BY <1>3, <1>7
  <1>8. CASE ~unknown /\ short
    BY <1>4, <1>8
  <1>9. CASE ~unknown /\ ~short
    BY <1>5, <1>6, <1>9
  <1> QED BY <1>7, <1>8, <1>9, Zenon

LEMMA CharType ==
  ASSUME NEW s \in Slave, NEW ch \in Byte
  PROVE  Uart_CharReceived(s, ch) \in Ready
  <1> DEFINE more == [s EXCEPT !.buf = Append(@, ch)]
             new == _ProcessReceivedData(more)
  <1>1. more \in Slave
    <2>1. s.buf \in Frame
      BY DEF Slave
    <2>2. Append(s.buf, ch) \in Frame
      BY <2>1, AppendProperties DEF Frame
    <2> QED BY <2>2 DEF Slave
  <1> HIDE DEF more
  <1>2. new \in Slave
    BY <1>1, ProcessedType
  <1>3. Uart_CharReceived(s, ch) = NotFull(new)
    BY DEF Uart_CharReceived, more
  <1> HIDE DEF new
  <1>4. NotFull(new) \in Ready
    <2>1. Len(new.buf) \in Nat
      BY <1>2, FrameElements DEF Slave
    <2>2. CASE Len(new.buf) >= ReadBuffer
      <3>1. NotFull(new) = [new EXCEPT !.buf = None]
        BY <2>2 DEF NotFull
      <3>2. [new EXCEPT !.buf = None] \in Slave /\ [new EXCEPT !.buf = None].buf = None
        BY <1>2, NoBytes DEF Slave
      <3>3. Len(None) < ReadBuffer
        BY NoBytes, Bounds
      <3> QED BY <3>1, <3>2, <3>3 DEF Ready
    <2>3. CASE ~(Len(new.buf) >= ReadBuffer)
      <3>1. NotFull(new) = new
        BY <2>3 DEF NotFull
      <3>2. Len(new.buf) < ReadBuffer
        BY <2>1, <2>3, Bounds
      <3> QED BY <1>2, <3>1, <3>2 DEF Ready
    <2> QED BY <2>2, <2>3
  <1> QED BY <1>3, <1>4

\* What a slave makes of bytes that arrive together is what it makes of them one by one.
LEMMA OneByOne ==
  ASSUME NEW s \in Ready, NEW bytes \in Frame
  PROVE  \E g \in [0..Len(bytes) -> Ready] :
           /\ g[0] = s /\ g[Len(bytes)] = Received(s, bytes)
           /\ \A i \in 1..Len(bytes) : g[i] = Uart_CharReceived(g[i - 1], bytes[i])
  <1> DEFINE n == Len(bytes)
             step(h, i) == Uart_CharReceived(h, bytes[i])
             f == CHOOSE g : g = [i \in 0..n |-> IF i = 0 THEN s ELSE step(g[i - 1], i)]
             F == [x \in Ready \X (1..n) |-> step(x[1], x[2])]
  <1>1. n \in Nat /\ \A i \in 1..n : bytes[i] \in Byte
    BY FrameElements
  <1>2. ASSUME NEW h \in Ready, NEW i \in 1..n PROVE step(h, i) \in Ready
    <2>1. h \in Slave
      BY DEF Ready
    <2> QED BY <1>1, <2>1, CharType
  <1>3. Received(s, bytes) = f[n]
    BY DEF Received
  <1> HIDE DEF step, n
  <1>4. F \in [Ready \X (1..n) -> Ready]
    BY <1>2
  <1>5. PICK g \in [0..n -> Ready] :
          g[0] = s /\ \A i \in 1..n : g[i] = F[<<g[i - 1], i>>]
    <2> HIDE DEF F
    <2> QED BY <1>1, <1>4, Recursion
  <1>6. ASSUME NEW i \in 1..n PROVE g[i] = step(g[i - 1], i)
    <2>1. i - 1 \in 0..n
      BY <1>1
    <2>2. <<g[i - 1], i>> \in Ready \X (1..n)
      BY <2>1
    <2> QED BY <1>5, <2>2
  <1>7. g = [i \in 0..n |-> IF i = 0 THEN s ELSE step(g[i - 1], i)]
    BY <1>1, <1>5, <1>6
  <1>8. f = [i \in 0..n |-> IF i = 0 THEN s ELSE step(f[i - 1], i)]
    BY <1>7, Zenon
  <1> HIDE DEF f, F
  <1>9. f[0] = s /\ \A i \in 1..n : f[i] = step(f[i - 1], i)
    BY <1>1, <1>8
  <1>10. \A i \in 0..n : f[i] \in Ready
    <2> DEFINE S == {i \in 0..n : f[i] \in Ready}
    <2>1. 0 \in S
      BY <1>1, <1>9
    <2>2. ASSUME NEW i \in 1..n, i - 1 \in S PROVE i \in S
      BY <1>1, <1>2, <1>9, <2>2
    <2> HIDE DEF S
    <2>3. 0..n \subseteq S
      BY <1>1, <2>1, <2>2, Along
    <2> QED BY <2>3 DEF S
  <1>11. f \in [0..n -> Ready]
    BY <1>8, <1>10
  <1> QED BY <1>3, <1>9, <1>11 DEF n, step

LEMMA ReceivedType ==
  ASSUME NEW s \in Ready, NEW bytes \in Frame
  PROVE  Received(s, bytes) \in Ready
  <1>1. PICK g \in [0..Len(bytes) -> Ready] : g[Len(bytes)] = Received(s, bytes)
    BY OneByOne
  <1>2. Len(bytes) \in 0..Len(bytes)
    BY FrameElements
  <1> QED BY <1>1, <1>2

-----------------------------------------------------------------------------
(* A slave that gets a query of the engine, all at once or in pieces. *)

\* A slave that holds bytes.
Holding(bytes, s) == [buf |-> bytes, regs |-> s.regs, out |-> s.out, done |-> s.done]

\* Slave s after the first k bytes of query q.
After(q, s, k) ==
  IF k < Len(q) THEN Holding(SubSeq(q, 1, k), s)
  ELSE [buf |-> None, regs |-> Written(s.regs, q), out |-> s.out \o Reply(s.regs, q),
        done |-> Append(s.done, q)]

LEMMA HoldingBuffer ==
  ASSUME NEW a, NEW b, NEW s
  PROVE  [Holding(a, s) EXCEPT !.buf = b] = Holding(b, s) /\ Holding(a, s).buf = a
  BY DEF Holding

LEMMA SizeOfQuery ==
  ASSUME NEW q, IsQuery(q), NEW k \in 1..Len(q)
  PROVE  \/ k < Len(q) /\ ExpectedSize(SubSeq(q, 1, k)) = 0
         \/ ExpectedSize(SubSeq(q, 1, k)) = Len(q)
  <1> DEFINE p == SubSeq(q, 1, k)
  <1>1. q \in Frame /\ Len(q) \in Nat /\ k \in Nat
    BY QueryLength
  <1>2. p \in Frame /\ Len(p) = k /\ \A i \in 1..k : p[i] = q[i]
    <2>1. 1 \in 1..Len(q) + 1 /\ k \in 1 - 1..Len(q)
      BY <1>1
    <2>2. /\ p \in Frame /\ Len(p) = k - 1 + 1
          /\ \A i \in 1..k - 1 + 1 : p[i] = q[1 + i - 1]
      BY <1>1, <2>1, Piece
    <2>3. k - 1 + 1 = k
      BY <1>1
    <2> HIDE DEF p
    <2> QED BY <1>1, <2>2, <2>3
  <1> HIDE DEF p
  <1>3. CASE k < 4
    <2>1. ExpectedSize(p) = 0
      BY <1>2, <1>3 DEF ExpectedSize
    <2>2. k < Len(q)
      BY <1>3 DEF IsQuery
    <2> QED BY <2>1, <2>2 DEF p
  <1>4. CASE k >= 4 /\ q[2] \in {1, 2}
    <2>1. p[2] = q[2] /\ ~(Len(p) < 4)
      BY <1>1, <1>2, <1>4
    <2>2. ExpectedSize(p) = 8
      BY <1>4, <2>1 DEF ExpectedSize
    <2>3. Len(q) = 8
      BY <1>4 DEF IsQuery
    <2> QED BY <2>2, <2>3 DEF p
  <1>5. CASE k >= 4 /\ q[2] = 15
    <2>1. p[2] = 15 /\ ~(Len(p) < 4) /\ Len(q) = 9 + q[7] /\ q[7] \in 1..4
      BY <1>1, <1>2, <1>5 DEF IsQuery
    <2>2. CASE k < 10
      <3>1. ExpectedSize(p) = 0
        BY <1>1, <1>2, <2>1, <2>2 DEF ExpectedSize
      <3> QED BY <2>1, <2>2, <3>1 DEF p
    <2>3. CASE k >= 10
      <3>1. p[7] = q[7] /\ Len(p) >= 10
        BY <1>2, <2>3
      <3>2. ExpectedSize(p) = 9 + q[7]
        BY <2>1, <3>1 DEF ExpectedSize
      <3> QED BY <2>1, <3>2 DEF p
    <2> QED BY <1>1, <2>2, <2>3
  <1> QED BY <1>1, <1>3, <1>4, <1>5 DEF IsQuery

LEMMA CharOfQuery ==
  ASSUME NEW q, IsQuery(q), NEW s \in Slave, NEW k \in 0..Len(q) - 1
  PROVE  Uart_CharReceived(After(q, s, k), q[k + 1]) = After(q, s, k + 1)
  <1> DEFINE h == Holding(SubSeq(q, 1, k), s)
             m == Holding(SubSeq(q, 1, k + 1), s)
             size == ExpectedSize(SubSeq(q, 1, k + 1))
  <1>1. q \in Frame /\ Len(q) \in Nat /\ Len(q) >= 8 /\ Len(q) <= 13 /\ k \in Nat /\ k < Len(q) /\ q[2] \in Functions
    BY QueryLength
  <1>2. After(q, s, k) = h
    BY <1>1 DEF After
  <1>3. [h EXCEPT !.buf = Append(@, q[k + 1])] = m
    <2>1. Append(SubSeq(q, 1, k), q[k + 1]) = SubSeq(q, 1, k + 1)
      BY <1>1, Next1
    <2>2. PICK c : c = Append(h.buf, q[k + 1])
      OBVIOUS
    <2>3. c = SubSeq(q, 1, k + 1)
      BY <2>1, <2>2, HoldingBuffer
    <2>4. [h EXCEPT !.buf = c] = Holding(c, s)
      BY HoldingBuffer
    <2> HIDE DEF h
    <2> QED BY <2>2, <2>3, <2>4
  <1>4. Uart_CharReceived(h, q[k + 1]) = NotFull(Processed(m, size))
    BY <1>3 DEF Uart_CharReceived, _ProcessReceivedData, Holding
  <1>5. Len(SubSeq(q, 1, k + 1)) = k + 1
    <2>1. 1 \in 1..Len(q) + 1 /\ k + 1 \in 1 - 1..Len(q)
      BY <1>1
    <2>2. Len(SubSeq(q, 1, k + 1)) = (k + 1) - 1 + 1
      BY <1>1, <2>1, Piece
    <2> QED BY <1>1, <2>2
  <1>6. (k + 1 < Len(q) /\ size = 0) \/ size = Len(q)
    BY <1>1, SizeOfQuery
  <1> HIDE DEF size
  <1>7. CASE k + 1 < Len(q)
    <2>1. m.buf = SubSeq(q, 1, k + 1)
      BY DEF Holding
    <2>2. size # -1 /\ (size = 0 \/ Len(m.buf) < size)
      BY <1>1, <1>5, <1>6, <1>7, <2>1
    <2>3. Processed(m, size) = m
      BY <2>2, Zenon DEF Processed
    <2>4. ~(Len(m.buf) >= ReadBuffer)
      BY <1>1, <1>5, <1>7, <2>1, Bounds
    <2>5. NotFull(m) = m
      BY <2>4, Zenon DEF NotFull
    <2>6. After(q, s, k + 1) = m
      BY <1>7 DEF After
    <2> HIDE DEF m, h
    <2> QED BY <1>2, <1>4, <2>3, <2>5, <2>6
  <1>8. CASE k + 1 = Len(q)
    <2>1. size = Len(q) /\ SubSeq(q, 1, k + 1) = q
      BY <1>1, <1>6, <1>8, Whole
    <2>2. m = Holding(q, s) /\ m.buf = q
      BY <2>1 DEF Holding
    <2>3. size # -1 /\ ~(size = 0 \/ Len(m.buf) < size)
      BY <1>1, <2>1, <2>2
    <2>4. SubSeq(q, size + 1, Len(q)) = None /\ SubSeq(q, 1, size) = q
      BY <1>1, <2>1, Whole
    <2>5. Processed(m, size) =
            Obeyed([m EXCEPT !.buf = SubSeq(m.buf, size + 1, Len(m.buf))], SubSeq(m.buf, 1, size))
      BY <2>3 DEF Processed
    <2>6. [m EXCEPT !.buf = SubSeq(m.buf, size + 1, Len(m.buf))] = Holding(None, s)
      <3>1. SubSeq(m.buf, size + 1, Len(m.buf)) = None
        BY <2>2, <2>4
      <3>2. PICK c : c = SubSeq(m.buf, size + 1, Len(m.buf))
        OBVIOUS
      <3>3. [Holding(q, s) EXCEPT !.buf = c] = Holding(c, s)
        BY HoldingBuffer
      <3> HIDE DEF m
      <3> QED BY <2>2, <3>1, <3>2, <3>3
    <2>7. Processed(m, size) = Obeyed(Holding(None, s), q)
      <3> HIDE DEF m
      <3> QED BY <2>2, <2>4, <2>5, <2>6
    <2>8. Obeyed(Holding(None, s), q) = After(q, s, k + 1)
      <3>1. q[1] = Address /\ _IsChecksumOK(q)
        BY DEF IsQuery
      <3>2. Obeyed(Holding(None, s), q) =
              [Holding(None, s) EXCEPT !.regs = Written(@, q), !.out = @ \o Reply(s.regs, q),
                                    !.done = Append(@, q)]
        BY <3>1 DEF Obeyed, Holding
      <3>3. ~(k + 1 < Len(q))
        BY <1>1, <1>8
      <3> QED BY <3>2, <3>3 DEF After, Holding
    <2>9. NotFull(After(q, s, k + 1)) = After(q, s, k + 1)
      <3>1. After(q, s, k + 1).buf = None
        BY <1>1, <1>8 DEF After
      <3>2. ~(Len(None) >= ReadBuffer)
        BY NoBytes, Bounds
      <3> QED BY <3>1, <3>2 DEF NotFull
    <2> HIDE DEF m, h
    <2> QED BY <1>2, <1>4, <2>7, <2>8, <2>9
  <1> QED BY <1>1, <1>7, <1>8

LEMMA MoreOfQuery ==
  ASSUME NEW q, IsQuery(q), NEW s \in Slave,
         NEW k \in 0..Len(q) - 1, NEW n \in 1..Len(q) - k
  PROVE  Received(Holding(SubSeq(q, 1, k), s), SubSeq(q, k + 1, k + n)) = After(q, s, k + n)
  <1> DEFINE h == Holding(SubSeq(q, 1, k), s)
             bytes == SubSeq(q, k + 1, k + n)
  <1>1. q \in Frame /\ Len(q) \in Nat /\ Len(q) <= 13 /\ k \in Nat /\ n \in Nat /\ k < Len(q)
    BY QueryLength
  <1>2. bytes \in Frame /\ Len(bytes) = n /\ \A i \in 1..n : bytes[i] = q[k + i]
    <2>1. k + 1 \in 1..Len(q) + 1 /\ k + n \in (k + 1) - 1..Len(q)
      BY <1>1
    <2>2. /\ bytes \in Frame /\ Len(bytes) = (k + n) - (k + 1) + 1
          /\ \A i \in 1..(k + n) - (k + 1) + 1 : bytes[i] = q[(k + 1) + i - 1]
      BY <1>1, <2>1, Piece
    <2> HIDE DEF bytes
    <2> QED BY <1>1, <2>2
  <1>3. h \in Ready
    <2>1. 1 \in 1..Len(q) + 1 /\ k \in 1 - 1..Len(q)
      BY <1>1
    <2>2. SubSeq(q, 1, k) \in Frame /\ Len(SubSeq(q, 1, k)) = k - 1 + 1
      BY <1>1, <2>1, Piece
    <2>3. Len(SubSeq(q, 1, k)) < ReadBuffer
      BY <1>1, <2>2, Bounds
    <2> QED BY <2>2, <2>3 DEF Ready, Slave, Holding
  <1> HIDE DEF bytes
  <1>4. PICK g \in [0..n -> Ready] :
          /\ g[0] = h /\ g[n] = Received(h, bytes)
          /\ \A i \in 1..n : g[i] = Uart_CharReceived(g[i - 1], bytes[i])
    BY <1>2, <1>3, OneByOne
  <1> DEFINE S == {i \in 0..n : g[i] = After(q, s, k + i)}
  <1>5. 0 \in S
    <2>1. After(q, s, k + 0) = h
      BY <1>1 DEF After
    <2> QED BY <1>1, <1>4, <2>1
  <1> HIDE DEF h
  <1>6. ASSUME NEW i \in 1..n, i - 1 \in S PROVE i \in S
    <2>1. g[i - 1] = After(q, s, k + (i - 1))
      BY <1>6
    <2>2. k + (i - 1) \in 0..Len(q) - 1 /\ (k + (i - 1)) + 1 = k + i
      BY <1>1
    <2>3. Uart_CharReceived(After(q, s, k + (i - 1)), q[k + i]) = After(q, s, k + i)
      BY <2>2, CharOfQuery
    <2>4. g[i] = After(q, s, k + i)
      BY <1>2, <1>4, <2>1, <2>3
    <2> QED BY <2>4
  <1>7. 0..n \subseteq S
    <2> HIDE DEF S
    <2> QED BY <1>1, <1>5, <1>6, Along
  <1>8. n \in S
    <2> HIDE DEF S
    <2> QED BY <1>1, <1>7
  <1> QED BY <1>4, <1>8 DEF bytes, h

\* From a slave with nothing to answer.
Idle(bytes, r) == [buf |-> bytes, regs |-> r, out |-> None, done |-> None]

Partial(q, r, k) ==
  IF k < Len(q) THEN Idle(SubSeq(q, 1, k), r)
  ELSE [buf |-> None, regs |-> Written(r, q), out |-> Reply(r, q), done |-> <<q>>]

LEMMA IdleIsSlave ==
  ASSUME NEW bytes \in Frame, NEW r \in Registers
  PROVE  Idle(bytes, r) \in Slave
  <1>1. None \in Seq(Frame)
    BY EmptySeq DEF None
  <1> QED BY <1>1, NoBytes DEF Slave, Idle

LEMMA ReceivedOfQuery ==
  ASSUME NEW q, IsQuery(q), NEW r \in Registers,
         NEW k \in 0..Len(q) - 1, NEW n \in 1..Len(q) - k
  PROVE  Received(Idle(SubSeq(q, 1, k), r), SubSeq(q, k + 1, k + n)) = Partial(q, r, k + n)
  <1>1. PICK s : s = Idle(None, r)
    OBVIOUS
  <1>2. s \in Slave /\ s.regs = r /\ s.out = None /\ s.done = None
    BY <1>1, NoBytes, IdleIsSlave DEF Idle
  <1>3. \A bytes : Holding(bytes, s) = Idle(bytes, r)
    BY <1>2 DEF Holding, Idle
  <1>4. None \o Reply(r, q) = Reply(r, q) /\ Append(None, q) = <<q>>
    <2>1. Reply(r, q) \in Frame
      BY QueryLength, ReplyType
    <2> QED BY <2>1, ConcatEmptySeq DEF Frame, None
  <1>5. After(q, s, k + n) = Partial(q, r, k + n)
    BY <1>2, <1>3, <1>4 DEF After, Partial
  <1>6. Received(Holding(SubSeq(q, 1, k), s), SubSeq(q, k + 1, k + n)) = After(q, s, k + n)
    BY <1>2, MoreOfQuery
  <1> QED BY <1>3, <1>5, <1>6

-----------------------------------------------------------------------------
(* The inductive invariant. *)

BitsTyped(bits) ==
  /\ DOMAIN bits = DOMAIN Devices
  /\ \A d \in DOMAIN Devices : bits[d] = None \/ bits[d] \in [1..Devices[d].count -> BOOLEAN]

EngineTypes ==
  /\ setup \in Setups
  /\ conn \in {0} \cup Conns
  /\ device \in DOMAIN Devices
  /\ stage \in {"pause", "read", "readWait", "write", "writeWait"}
  /\ failed \in 0..device - 1 /\ reconnect \in BOOLEAN /\ waited \in 0..Timeout
  /\ query \in Frame /\ got \in Frame
  /\ BitsTyped(data) /\ BitsTyped(want)
  /\ late \in BOOLEAN

NetTypes ==
  /\ up \in [Conns -> Frame] /\ down \in [Conns -> Frame]
  /\ state \in [Conns -> {"none", "open", "broken", "closed"}]
  /\ buf \in [Conns -> Frame] /\ \A c \in Conns : Len(buf[c]) < ReadBuffer
  /\ idle \in [Conns -> 0..Timeout + 1]

ProxyTypes ==
  /\ regs \in Registers
  /\ main \in {"starting", "running", "dead"} /\ scan \in 0..OutputCount
  /\ relay \in [0..OutputCount - 1 -> BOOLEAN]
  /\ been \subseteq [0..InputCount - 1 -> BOOLEAN] /\ input \in been
  /\ phantom \in BOOLEAN

\* Where the engine stands, and the query it asks there.
Engaged ==
  /\ stage # "pause" => conn # 0
  /\ conn # 0 => state[conn] \in {"open", "broken"} /\ main # "starting"
  /\ stage \in {"write", "writeWait"} => Device.type = "COIL" /\ want[device] # None
  /\ stage = "readWait" => query = ReadQuery(Device)
  /\ stage = "writeWait" => \E b \in [1..Device.count -> BOOLEAN] : query = WriteQuery(Device, b)

Settled(c) == up[c] = None /\ down[c] = None /\ buf[c] = None

\* The query is partly at the slave, partly under way.
Asking ==
  /\ got = None /\ down[conn] = None
  /\ buf[conn] = None \/ idle[conn] <= waited
  /\ \E k \in 0..Len(query) - 1 :
       buf[conn] = SubSeq(query, 1, k) /\ up[conn] = SubSeq(query, k + 1, Len(query))

\* The bits of device d are those of the inputs v.
Shown(d, bits, v) ==
  \A i \in 1..d.count :
    bits[i] <=> d.start + i - 1 \in DOMAIN v /\ v[d.start + i - 1]

\* What the slave may answer to the query.
Fits(reply) ==
  /\ reply \in Frame /\ Len(reply) <= Expected
  /\ stage = "readWait" /\ Device.type = "DISCRETE_INPUT" /\ Len(reply) = Expected =>
       \E v \in been : Shown(Device, BitsOf(reply), v)

\* The slave has answered; the answer is partly at the master, partly under way, or
\* lost with the connection.
Answering ==
  /\ up[conn] = None /\ buf[conn] = None
  /\ \E reply \in Frame : Fits(reply) /\ \E k \in 0..Len(reply) :
       /\ got = SubSeq(reply, 1, k)
       /\ down[conn] = None \/ down[conn] = SubSeq(reply, k + 1, Len(reply))

\* The inputs the engine has are those on their wires.
Real ==
  \A d \in DOMAIN Devices :
    Devices[d].type = "DISCRETE_INPUT" /\ data[d] # None =>
      \E v \in been : Shown(Devices[d], data[d], v)

\* As long as the master gave up no query that was still under way.
OnTime ==
  /\ ~phantom
  /\ main # "starting" => regs.din \in been
  /\ \A c \in Conns : Settled(c) \/ (c = conn /\ Waiting)
  /\ ~Waiting => got = None
  /\ Waiting => Asking \/ Answering
  /\ Real

LinkInv == EngineTypes /\ NetTypes /\ ProxyTypes /\ Engaged /\ (~late => OnTime)

LEMMA DevicesAre ==
  ASSUME setup \in Setups
  PROVE  /\ Len(Devices) \in Nat \ {0} /\ DOMAIN Devices = 1..Len(Devices)
         /\ \A d \in DOMAIN Devices : Devices[d] \in DeviceSet
  <1>1. Devices \in Seq(DeviceSet) /\ Len(Devices) \in 1..MaxDevices
    BY ModbusLinkAssumption DEF Devices, DeviceSet
  <1>2. MaxDevices \in Nat
    BY ModbusLinkAssumption
  <1>3. Len(Devices) \in Nat \ {0} /\ DOMAIN Devices = 1..Len(Devices)
    BY <1>1, <1>2, LenProperties
  <1> QED BY <1>1, <1>3, ElementOfSeq

LEMMA LinkInit == Init => LinkInv
  <1> SUFFICES ASSUME Init PROVE LinkInv
    OBVIOUS
  <1>1. /\ setup \in Setups /\ Len(Devices) \in Nat \ {0} /\ DOMAIN Devices = 1..Len(Devices)
        /\ None \in Frame /\ Len(None) = 0
    BY DevicesAre, NoBytes DEF Init
  <1>2. EngineTypes
    <2>1. BitsTyped(data) /\ BitsTyped(want)
      BY DEF Init, BitsTyped
    <2>2. 0 \in 0..1 - 1 /\ 0 \in 0..Timeout /\ 1 \in DOMAIN Devices
      BY <1>1, Bounds
    <2> QED BY <1>1, <2>1, <2>2 DEF Init, EngineTypes
  <1>3. NetTypes
    BY <1>1, Bounds DEF Init, NetTypes
  <1>4. ProxyTypes
    <2>1. input \in [0..InputCount - 1 -> BOOLEAN]
      BY ModbusLinkAssumption DEF Init
    <2>2. regs \in Registers
      BY Numbers DEF Init, Registers
    <2>3. scan \in 0..OutputCount /\ relay \in [0..OutputCount - 1 -> BOOLEAN]
      BY ModbusFramesAssumption DEF Init
    <2>4. been \subseteq [0..InputCount - 1 -> BOOLEAN] /\ input \in been /\ phantom \in BOOLEAN
      BY <2>1 DEF Init
    <2>5. main \in {"starting", "running", "dead"}
      BY DEF Init
    <2> QED BY <2>2, <2>3, <2>4, <2>5 DEF ProxyTypes
  <1>5. Engaged
    BY DEF Init, Engaged
  <1>6. OnTime
    BY DEF Init, OnTime, Settled, Waiting, Real
  <1> QED BY <1>2, <1>3, <1>4, <1>5, <1>6 DEF LinkInv

-----------------------------------------------------------------------------
(* The steps of the proxy and of the world. *)

\* What the engine and the connections are does not change when their variables do not.
LEMMA EngineStays ==
  ASSUME UNCHANGED <<setup, engineVars, netVars, buf, idle>>, EngineTypes, NetTypes
  PROVE  EngineTypes' /\ NetTypes'
  BY DEF EngineTypes, NetTypes, BitsTyped, Devices, engineVars, netVars

LEMMA EngagedStays ==
  ASSUME UNCHANGED <<setup, engineVars, state>>, Engaged, main = "starting" <=> main' = "starting"
  PROVE  Engaged'
  BY DEF Engaged, Device, Devices, engineVars

\* What was there to see is there to see when inputs change.
LEMMA OnTimeStays ==
  ASSUME UNCHANGED <<setup, conn, device, stage, query, got, waited, data, up, down, buf, idle,
                     phantom>>, OnTime,
         been \subseteq been', main' # "starting" => regs'.din \in been'
  PROVE  OnTime'
  <1>1. /\ setup' = setup /\ conn' = conn /\ device' = device /\ stage' = stage /\ query' = query
        /\ got' = got /\ waited' = waited /\ data' = data /\ up' = up /\ down' = down /\ buf' = buf
        /\ idle' = idle /\ phantom' = phantom
    OBVIOUS
  <1>2. Real'
    <2>1. ASSUME NEW d, NEW bits, NEW v PROVE Shown(d, bits, v)' = Shown(d, bits, v)
      BY DEF Shown
    <2> SUFFICES ASSUME NEW d \in DOMAIN Devices, Devices[d].type = "DISCRETE_INPUT", data[d] # None
                 PROVE  \E v \in been' : Shown(Devices[d], data[d], v)
      BY <1>1 DEF Real, Devices, Shown
    <2> QED BY DEF OnTime, Real
  <1>3. ASSUME NEW reply \in Frame, Fits(reply) PROVE Fits(reply)'
    <2>1. /\ Len(reply) <= Expected
          /\ stage = "readWait" /\ Device.type = "DISCRETE_INPUT" /\ Len(reply) = Expected =>
               \E v \in been' : Shown(Device, BitsOf(reply), v)
      BY <1>3 DEF Fits
    <2>2. Device' = Device /\ Expected' = Expected /\ BitsOf(reply)' = BitsOf(reply)
      BY <1>1 DEF Device, Devices, Expected, BitsOf
    <2>3. \A v : Shown(Device, BitsOf(reply), v)' <=> Shown(Device, BitsOf(reply), v)
      BY <2>2 DEF Shown
    <2> QED BY <1>1, <2>1, <2>2, <2>3 DEF Fits
  <1>4. Asking => Asking'
    BY <1>1 DEF Asking
  <1>5. Answering => Answering'
    <2> SUFFICES ASSUME Answering PROVE Answering'
      OBVIOUS
    <2>1. PICK reply \in Frame :
            Fits(reply) /\ \E k \in 0..Len(reply) :
              /\ got = SubSeq(reply, 1, k)
              /\ down[conn] = None \/ down[conn] = SubSeq(reply, k + 1, Len(reply))
      BY DEF Answering
    <2>2. Fits(reply)'
      BY <1>3, <2>1
    <2>3. up[conn] = None /\ buf[conn] = None
      BY DEF Answering
    <2> QED BY <1>1, <2>1, <2>2, <2>3 DEF Answering
  <1>6. \A c : Settled(c)' <=> Settled(c)
    BY <1>1 DEF Settled
  <1>7. Waiting' <=> Waiting
    BY <1>1 DEF Waiting
  <1>8. ~phantom' /\ (\A c \in Conns : Settled(c)' \/ (c = conn' /\ Waiting')) /\ (~Waiting' => got' = None)
    BY <1>1, <1>6, <1>7 DEF OnTime
  <1>9. Waiting' => Asking' \/ Answering'
    BY <1>4, <1>5, <1>7 DEF OnTime
  <1> QED BY <1>2, <1>8, <1>9 DEF OnTime

LEMMA ProxyStep ==
  ASSUME LinkInv, Start \/ ScanInputs \/ SetOutput \/ MainDies
  PROVE  LinkInv'
  <1>1. UNCHANGED <<setup, engineVars, netVars, slaveVars, worldVars>>
    BY DEF Start, ScanInputs, SetOutput, MainDies, ProxyOnly
  <1>2. UNCHANGED <<setup, engineVars, netVars, buf, idle, phantom, state, late, input, been, conn>>
    BY <1>1 DEF slaveVars, worldVars, netVars, engineVars
  <1>3. EngineTypes' /\ NetTypes'
    BY <1>2, EngineStays DEF LinkInv
  <1>4. ProxyTypes'
    <2>1. regs' \in Registers
      <3>1. regs = [dout |-> regs.dout, din |-> regs.din, ain |-> regs.ain] /\ regs \in Registers
            /\ relay \in [0..OutputCount - 1 -> BOOLEAN] /\ input \in [0..InputCount - 1 -> BOOLEAN]
        BY DEF LinkInv, ProxyTypes, Registers
      <3>2. regs' \in {regs, [regs EXCEPT !.din = input, !.dout = relay], [regs EXCEPT !.din = input]}
        BY DEF Start, ScanInputs, SetOutput, MainDies
      <3> QED BY <3>1, <3>2 DEF Registers
    <2>2. scan' \in 0..OutputCount /\ relay' \in [0..OutputCount - 1 -> BOOLEAN]
      <3>1. /\ OutputCount \in Nat /\ scan \in 0..OutputCount
            /\ relay \in [0..OutputCount - 1 -> BOOLEAN] /\ regs.dout \in [0..OutputCount - 1 -> BOOLEAN]
        BY ModbusFramesAssumption DEF LinkInv, ProxyTypes, Registers
      <3>2. CASE Start \/ MainDies
        BY <3>1, <3>2 DEF Start, MainDies
      <3>3. CASE ScanInputs
        <4>1. scan' = 1 /\ relay' = relay
          BY <3>3 DEF ScanInputs
        <4>2. OutputCount > 0
          BY ModbusLinkAssumption
        <4> QED BY <3>1, <4>1, <4>2
      <3>4. CASE SetOutput
        <4>1. scan - 1 \in 0..OutputCount - 1 /\ (scan + 1) % (OutputCount + 1) \in 0..OutputCount
          BY <3>1, <3>4 DEF SetOutput
        <4> QED BY <3>1, <3>4, <4>1 DEF SetOutput
      <3> QED BY <3>2, <3>3, <3>4
    <2>3. main' \in {"starting", "running", "dead"}
      BY DEF Start, ScanInputs, SetOutput, MainDies, LinkInv, ProxyTypes
    <2> QED BY <1>2, <2>1, <2>2, <2>3 DEF LinkInv, ProxyTypes
  <1>5. Engaged'
    <2>1. CASE Start
      <3>1. conn = 0 /\ stage = "pause"
        BY <2>1 DEF LinkInv, Engaged, Start
      <3>2. conn' = 0 /\ stage' = "pause"
        BY <1>1, <3>1 DEF engineVars
      <3> QED BY <3>2 DEF Engaged
    <2>2. CASE ScanInputs \/ SetOutput \/ MainDies
      <3>1. main # "starting" /\ main' # "starting"
        BY <2>2 DEF ScanInputs, SetOutput, MainDies
      <3> QED BY <1>2, <3>1, EngagedStays DEF LinkInv
    <2> QED BY <2>1, <2>2
  <1>6. ASSUME ~late' PROVE OnTime'
    <2>1. OnTime /\ ProxyTypes
      BY <1>2, <1>6 DEF LinkInv
    <2>2. regs \in Registers /\ input \in been
      BY <2>1 DEF ProxyTypes
    <2>3. main' # "starting" => regs'.din \in been'
      BY <1>2, <2>1, <2>2 DEF OnTime, Start, ScanInputs, SetOutput, MainDies, Registers
    <2> QED BY <1>1, <1>2, <2>1, <2>3, OnTimeStays DEF engineVars, netVars
  <1> QED BY <1>3, <1>4, <1>5, <1>6 DEF LinkInv

LEMMA ToggleStep ==
  ASSUME LinkInv, Toggle
  PROVE  LinkInv'
  <1>1. UNCHANGED <<setup, engineVars, netVars, buf, idle, phantom, state, late, regs, main, scan, relay>>
    BY DEF Toggle, slaveVars, netVars, engineVars, proxyVars
  <1>2. input' \in [0..InputCount - 1 -> BOOLEAN] /\ been' = been \cup {input'}
    <2>1. input \in [0..InputCount - 1 -> BOOLEAN]
      BY DEF LinkInv, ProxyTypes
    <2> QED BY <2>1 DEF Toggle
  <1>3. EngineTypes' /\ NetTypes'
    BY <1>1, EngineStays DEF LinkInv
  <1>4. ProxyTypes'
    BY <1>1, <1>2 DEF LinkInv, ProxyTypes
  <1>5. Engaged'
    BY <1>1, EngagedStays DEF LinkInv
  <1>6. ASSUME ~late' PROVE OnTime'
    <2>1. OnTime
      BY <1>1, <1>6 DEF LinkInv
    <2>2. been \subseteq been' /\ (main' # "starting" => regs'.din \in been')
      BY <1>1, <1>2, <2>1 DEF OnTime
    <2> QED BY <1>1, <2>1, <2>2, OnTimeStays DEF engineVars, netVars
  <1> QED BY <1>3, <1>4, <1>5, <1>6 DEF LinkInv

LEMMA BreakStep ==
  ASSUME LinkInv, Break
  PROVE  LinkInv'
  <1>1. /\ UNCHANGED <<setup, engineVars, up, buf, idle, phantom, late, input, been, proxyVars, regs>>
        /\ UNCHANGED <<conn, device, stage, query, got, waited, data, want, main, scan, relay>>
        /\ conn \in Conns /\ state' = [state EXCEPT ![conn] = "broken"]
        /\ down' = [down EXCEPT ![conn] = None]
    BY DEF Break, slaveVars, engineVars, proxyVars, LinkInv, EngineTypes
  <1>2. EngineTypes'
    BY <1>1 DEF LinkInv, EngineTypes, BitsTyped, Devices, engineVars
  <1>3. NetTypes'
    BY <1>1, NoBytes DEF LinkInv, NetTypes
  <1>4. ProxyTypes'
    BY <1>1 DEF LinkInv, ProxyTypes
  <1>5. Engaged'
    <2>1. state' [conn] = "broken"
      BY <1>1 DEF LinkInv, NetTypes
    <2> QED BY <1>1, <2>1 DEF LinkInv, Engaged, Device, Devices
  <1>6. ASSUME ~late' PROVE OnTime'
    <2>1. OnTime /\ NetTypes
      BY <1>1, <1>6 DEF LinkInv
    <2>2. \A c \in Conns : down'[c] = IF c = conn THEN None ELSE down[c]
      BY <1>1, <2>1 DEF NetTypes
    <2>3. \A c \in Conns : Settled(c)' \/ (c = conn' /\ Waiting')
      BY <1>1, <2>1, <2>2 DEF OnTime, Settled, Waiting
    <2>4. Asking => Asking'
      BY <1>1, <2>2 DEF Asking
    <2>5. Answering => Answering'
      <3> SUFFICES ASSUME Answering PROVE Answering'
        OBVIOUS
      <3>1. PICK reply \in Frame :
              Fits(reply) /\ \E k \in 0..Len(reply) : got = SubSeq(reply, 1, k)
        BY DEF Answering
      <3>2. Fits(reply)'
        BY <1>1, <3>1 DEF Fits, Device, Devices, Expected, BitsOf, Shown
      <3>3. up'[conn'] = None /\ buf'[conn'] = None /\ down'[conn'] = None
        BY <1>1, <2>2 DEF Answering
      <3> QED BY <1>1, <3>1, <3>2, <3>3 DEF Answering
    <2>6. Real'
      BY <1>1, <2>1 DEF OnTime, Real, Shown, Devices
    <2> QED BY <1>1, <2>1, <2>3, <2>4, <2>5, <2>6 DEF OnTime, Waiting
  <1> QED BY <1>2, <1>3, <1>4, <1>5, <1>6 DEF LinkInv

LEMMA WriteStep ==
  ASSUME LinkInv, NEW d \in DOMAIN Devices, Write(d)
  PROVE  LinkInv'
  <1>1. /\ UNCHANGED <<setup, conn, device, stage, failed, reconnect, query, got, waited, data, late,
                       up, down, state, buf, idle, phantom, regs, main, scan, relay, input, been>>
        /\ want[d] # None
    BY DEF Write, netVars, slaveVars, proxyVars
  <1>2. \A e \in DOMAIN Devices : 1 \in 1..Devices[e].count
    <2>1. \A e \in DOMAIN Devices : Devices[e] \in DeviceSet
      BY DevicesAre DEF LinkInv, EngineTypes
    <2>2. \A e \in DeviceSet : 1 \in 1..e.count
      BY DEF DeviceSet
    <2> QED BY <2>1, <2>2
  <1>3. PICK i \in 1..Devices[d].count : want' = [want EXCEPT ![d][i] = ~@]
    BY DEF Write
  <1>4. want[d] \in [1..Devices[d].count -> BOOLEAN] /\ DOMAIN want = DOMAIN Devices
    BY <1>1 DEF LinkInv, EngineTypes, BitsTyped
  <1>5. /\ DOMAIN want' = DOMAIN Devices
        /\ want'[d] \in [1..Devices[d].count -> BOOLEAN]
        /\ \A e \in DOMAIN Devices : e # d => want'[e] = want[e]
    BY <1>3, <1>4
  <1>6. \A e \in DOMAIN Devices : want[e] # None => want'[e] # None
    <2>1. want'[d] # None
      <3>1. 1 \in 1..Devices[d].count
        BY <1>2
      <3>2. 1 \in DOMAIN want'[d]
        BY <1>5, <3>1, Zenon
      <3>3. DOMAIN None = {}
        BY DEF None
      <3> QED BY <3>2, <3>3
    <2> QED BY <1>5, <2>1
  <1>7. EngineTypes'
    <2>1. BitsTyped(want)'
      BY <1>1, <1>5 DEF LinkInv, EngineTypes, BitsTyped, Devices
    <2>2. BitsTyped(data)'
      BY <1>1 DEF LinkInv, EngineTypes, BitsTyped, Devices
    <2> QED BY <1>1, <2>1, <2>2 DEF LinkInv, EngineTypes, Devices
  <1>8. NetTypes' /\ ProxyTypes'
    BY <1>1 DEF LinkInv, NetTypes, ProxyTypes
  <1>9. Engaged'
    <2>1. device \in DOMAIN Devices
      BY DEF LinkInv, EngineTypes
    <2> QED BY <1>1, <1>6, <2>1 DEF LinkInv, Engaged, Device, Devices
  <1>10. OnTime => OnTime'
    <2> SUFFICES ASSUME OnTime PROVE OnTime'
      OBVIOUS
    <2>1. been \subseteq been' /\ (main' # "starting" => regs'.din \in been')
      BY <1>1 DEF OnTime
    <2> QED BY <1>1, <2>1, OnTimeStays
  <1> QED BY <1>1, <1>7, <1>8, <1>9, <1>10 DEF LinkInv

LEMMA TickStep ==
  ASSUME LinkInv, Tick
  PROVE  LinkInv'
  <1>1. /\ UNCHANGED <<setup, conn, device, failed, reconnect, query, got, data, want, late,
                       up, down, state, buf, phantom, regs, main, scan, relay, input, been>>
        /\ stage' = IF stage = "pause" THEN "read" ELSE stage
        /\ waited' = IF Waiting THEN waited + 1 ELSE waited
        /\ idle' = [c \in Conns |-> IF idle[c] > Timeout THEN idle[c] ELSE idle[c] + 1]
        /\ stage = "pause" => conn # 0
        /\ Waiting => waited < Timeout
    BY DEF Tick, netVars, proxyVars, Waiting
  <1>2. Waiting' <=> Waiting
    BY <1>1 DEF Waiting
  <1>3. Timeout \in Nat /\ waited \in 0..Timeout /\ idle \in [Conns -> 0..Timeout + 1]
    BY Bounds DEF LinkInv, EngineTypes, NetTypes
  <1>4. waited' \in 0..Timeout /\ idle' \in [Conns -> 0..Timeout + 1]
    BY <1>1, <1>3
  <1>5. EngineTypes'
    <2>1. BitsTyped(data)' /\ BitsTyped(want)'
      BY <1>1 DEF LinkInv, EngineTypes, BitsTyped, Devices
    <2> QED BY <1>1, <1>4, <2>1 DEF LinkInv, EngineTypes, Devices
  <1>6. NetTypes' /\ ProxyTypes'
    BY <1>1, <1>4 DEF LinkInv, NetTypes, ProxyTypes
  <1>7. Engaged'
    BY <1>1 DEF LinkInv, Engaged, Device, Devices
  <1>8. ASSUME OnTime PROVE OnTime'
    <2>1. ASSUME Waiting, Asking PROVE Asking'
      <3>1. conn \in Conns
        BY <2>1 DEF LinkInv, EngineTypes, Engaged, Waiting
      <3>2. idle[conn] <= waited => idle'[conn] <= waited'
        BY <1>1, <1>3, <2>1, <3>1
      <3> QED BY <1>1, <2>1, <3>2 DEF Asking
    <2>2. ASSUME Waiting, Answering PROVE Answering'
      <3>1. stage' = stage
        BY <1>1, <2>2 DEF Waiting
      <3> QED BY <1>1, <2>2, <3>1 DEF Answering, Fits, Expected, BitsOf, Device, Devices, Shown
    <2>3. Real'
      BY <1>1, <1>8 DEF OnTime, Real, Shown, Devices
    <2>4. \A c \in Conns : Settled(c)' \/ (c = conn' /\ Waiting')
      BY <1>1, <1>2, <1>8 DEF OnTime, Settled
    <2> QED BY <1>1, <1>2, <1>8, <2>1, <2>2, <2>3, <2>4 DEF OnTime
  <1> QED BY <1>1, <1>5, <1>6, <1>7, <1>8 DEF LinkInv

-----------------------------------------------------------------------------
(* The steps of the engine. *)

LEMMA NextDeviceIs ==
  ASSUME EngineTypes, NetTypes, conn \in Conns, setup' = setup,
         NEW fails \in 0..device, NEW fatal \in BOOLEAN, NextDevice(fails, fatal)
  PROVE  /\ device' \in DOMAIN Devices /\ failed' \in 0..device' - 1 /\ reconnect' \in BOOLEAN
         /\ stage' = "pause" /\ conn' \in {0, conn}
         /\ state' \in [Conns -> {"none", "open", "broken", "closed"}]
         /\ conn' # 0 => state' = state
  <1>1. Len(Devices) \in Nat \ {0} /\ DOMAIN Devices = 1..Len(Devices) /\ device \in DOMAIN Devices
    BY DevicesAre DEF EngineTypes
  <1> DEFINE last == device = Len(Devices)
             closes == last /\ (reconnect \/ fatal \/ fails = Len(Devices))
  <1>2. /\ device' = IF last THEN 1 ELSE device + 1
        /\ failed' = IF last THEN 0 ELSE fails
        /\ reconnect' = (~last /\ (reconnect \/ fatal))
        /\ stage' = "pause"
        /\ conn' = IF closes THEN 0 ELSE conn
        /\ state' = IF closes /\ state[conn] = "open" THEN [state EXCEPT ![conn] = "closed"] ELSE state
    BY DEF NextDevice
  <1>3. device' \in DOMAIN Devices /\ failed' \in 0..device' - 1
    <2>1. CASE last
      <3>1. device' = 1 /\ failed' = 0
        BY <1>2, <2>1
      <3> QED BY <1>1, <3>1
    <2>2. CASE ~last
      <3>1. device' = device + 1 /\ failed' = fails
        BY <1>2, <2>2
      <3>2. device + 1 \in 1..Len(Devices) /\ fails \in 0..(device + 1) - 1
        BY <1>1, <2>2
      <3> QED BY <1>1, <3>1, <3>2
    <2> QED BY <2>1, <2>2
  <1>4. reconnect' \in BOOLEAN /\ conn' \in {0, conn}
    BY <1>2
  <1>5. /\ state' \in [Conns -> {"none", "open", "broken", "closed"}]
        /\ conn' # 0 => state' = state
    <2> HIDE DEF last, closes
    <2>1. conn # 0
      BY Bounds
    <2> QED BY <1>2, <2>1 DEF NetTypes
  <1> QED BY <1>2, <1>3, <1>4, <1>5

\* Between two devices the engine asks nothing.
LEMMA PausedIsEngaged ==
  ASSUME Engaged, stage' = "pause", conn' \in {0, conn}, conn' # 0 => state' = state, main' = main
  PROVE  Engaged'
  BY DEF Engaged

LEMMA PausedInTime ==
  ASSUME stage' = "pause", got' = None, ~phantom', main' # "starting" => regs'.din \in been',
         \A c \in Conns : Settled(c)', Real'
  PROVE  OnTime'
  BY DEF OnTime, Waiting

LEMMA RealStays ==
  ASSUME UNCHANGED <<setup, data, been>>, Real
  PROVE  Real'
  BY DEF Real, Shown, Devices

LEMMA ConnectStep ==
  ASSUME LinkInv, Connect
  PROVE  LinkInv'
  <1>1. /\ UNCHANGED <<setup, device, stage, failed, reconnect, query, waited, data, want, late,
                       up, phantom, regs, main, scan, relay, input, been>>
        /\ stage = "pause" /\ main # "starting" /\ got' = None
    BY DEF Connect, proxyVars, worldVars
  <1>2. PICK c \in Conns :
          /\ conn' = c /\ state' = [state EXCEPT ![c] = "open"]
          /\ down' = [down EXCEPT ![c] = None] /\ buf' = [buf EXCEPT ![c] = None]
          /\ idle' = [idle EXCEPT ![c] = 0]
    BY DEF Connect
  <1>3. EngineTypes'
    <2>1. BitsTyped(data)' /\ BitsTyped(want)'
      BY <1>1 DEF LinkInv, EngineTypes, BitsTyped, Devices
    <2> QED BY <1>1, <1>2, <2>1, NoBytes DEF LinkInv, EngineTypes, Devices
  <1>4. NetTypes'
    <2>1. None \in Frame /\ Len(None) < ReadBuffer /\ 0 \in 0..Timeout + 1
      BY NoBytes, Bounds
    <2>2. up' \in [Conns -> Frame] /\ down' \in [Conns -> Frame] /\ buf' \in [Conns -> Frame]
      BY <1>1, <1>2, <2>1 DEF LinkInv, NetTypes
    <2>3. \A b \in Conns : Len(buf'[b]) < ReadBuffer
      BY <1>2, <2>1 DEF LinkInv, NetTypes
    <2>4. idle' \in [Conns -> 0..Timeout + 1]
      BY <1>2, <2>1 DEF LinkInv, NetTypes
    <2>5. state' \in [Conns -> {"none", "open", "broken", "closed"}]
      BY <1>2 DEF LinkInv, NetTypes
    <2> QED BY <2>2, <2>3, <2>4, <2>5 DEF NetTypes
  <1>5. ProxyTypes'
    BY <1>1 DEF LinkInv, ProxyTypes
  <1>6. Engaged'
    <2>1. state'[conn'] = "open"
      BY <1>2 DEF LinkInv, NetTypes
    <2> QED BY <1>1, <2>1 DEF Engaged
  <1>7. ASSUME OnTime PROVE OnTime'
    <2>1. \A b \in Conns : Settled(b)
      BY <1>1, <1>7 DEF OnTime, Waiting
    <2>2. \A b \in Conns : Settled(b)'
      BY <1>1, <1>2, <2>1 DEF Settled, LinkInv, NetTypes
    <2>3. Real'
      BY <1>1, <1>7, RealStays DEF OnTime
    <2> QED BY <1>1, <1>7, <2>2, <2>3, PausedInTime DEF OnTime
  <1> QED BY <1>1, <1>3, <1>4, <1>5, <1>6, <1>7 DEF LinkInv

LEMMA AskStep ==
  ASSUME LinkInv, AskToRead \/ AskToWrite
  PROVE  LinkInv'
  <1>1. /\ UNCHANGED <<setup, data, want, late, down, buf, idle, phantom, regs, main, scan, relay,
                       input, been>>
        /\ got' = None /\ waited' = 0 /\ conn \in Conns /\ ~Waiting
    BY DEF AskToRead, AskToWrite, Ask, EngineOnly, slaveVars, proxyVars, worldVars,
           LinkInv, EngineTypes, Engaged, Waiting
  <1>2. PICK q, next :
          /\ next \in {"readWait", "writeWait"} /\ Ask(q, next)
          /\ next = "readWait" => q = ReadQuery(Device)
          /\ next = "writeWait" => stage = "write" /\ q = WriteQuery(Device, want[device])
    BY DEF AskToRead, AskToWrite
  <1>3. query' = q
    BY <1>2 DEF Ask
  <1>4. Device \in DeviceSet /\ device \in DOMAIN Devices /\ Device' = IF device' = device THEN Device ELSE Device'
    BY <1>1, DevicesAre DEF LinkInv, EngineTypes, Device, Devices
  <1>5. IsQuery(q)
    BY <1>2, <1>4, ReadQueryIs, WriteQueryIs
  <1>6. q \in Frame /\ Len(q) \in Nat /\ Len(q) >= 8
    BY <1>5, QueryLength
  <1>7. 0 \in 0..Timeout /\ None \in Frame
    BY Bounds, NoBytes
  <1>8. BitsTyped(data)' /\ BitsTyped(want)' /\ ProxyTypes'
    BY <1>1 DEF LinkInv, EngineTypes, BitsTyped, Devices, ProxyTypes
  <1>9. CASE state[conn] = "open"
    <2>1. /\ UNCHANGED <<conn, device, failed, reconnect, state>>
          /\ stage' = next /\ up' = [up EXCEPT ![conn] = @ \o q]
      BY <1>2, <1>9 DEF Ask
    <2>2. EngineTypes'
      <3>1. stage' \in {"readWait", "writeWait"}
        BY <1>2, <2>1
      <3> QED BY <1>1, <1>3, <1>6, <1>7, <1>8, <2>1, <3>1 DEF LinkInv, EngineTypes, Devices
    <2>3. up[conn] \o q \in Frame
      BY <1>1, <1>6, Joined DEF LinkInv, NetTypes
    <2>4. NetTypes'
      BY <1>1, <2>1, <2>3 DEF LinkInv, NetTypes
    <2>5. Engaged'
      <3>1. next = "writeWait" =>
              Device.type = "COIL" /\ want[device] # None /\ want[device] \in [1..Device.count -> BOOLEAN]
        BY <1>2, <1>4 DEF LinkInv, Engaged, EngineTypes, BitsTyped, Device, Devices
      <3>2. conn # 0 /\ main # "starting" /\ state[conn] \in {"open", "broken"}
        BY <1>1, Bounds DEF LinkInv, Engaged
      <3>3. Device' = Device
        BY <1>1, <2>1 DEF Device, Devices
      <3> QED BY <1>1, <1>2, <1>3, <2>1, <3>1, <3>2, <3>3 DEF Engaged
    <2>6. ASSUME OnTime PROVE OnTime'
      <3>1. \A c \in Conns : Settled(c)
        BY <1>1, <2>6 DEF OnTime
      <3>2. up'[conn] = q
        <4>1. up[conn] = None
          BY <1>1, <3>1 DEF Settled
        <4>2. None \o q = q
          BY <1>6, ConcatEmptySeq DEF Frame, None
        <4> QED BY <1>1, <2>1, <4>1, <4>2 DEF LinkInv, NetTypes
      <3>3. \A c \in Conns : c # conn => Settled(c)'
        BY <1>1, <2>1, <3>1 DEF Settled, LinkInv, NetTypes
      <3>4. Asking'
        <4>1. buf'[conn'] = None /\ down'[conn'] = None /\ up'[conn'] = q
          BY <1>1, <2>1, <3>1, <3>2 DEF Settled
        <4>2. 0 \in 0..Len(q) - 1 /\ SubSeq(q, 1, 0) = None /\ SubSeq(q, 0 + 1, Len(q)) = q
          BY <1>6, Whole
        <4> QED BY <1>1, <1>3, <4>1, <4>2 DEF Asking
      <3>5. Waiting'
        BY <1>2, <2>1 DEF Waiting
      <3>6. Real'
        BY <1>1, <2>6, RealStays DEF OnTime
      <3> QED BY <1>1, <2>1, <2>6, <3>3, <3>4, <3>5, <3>6 DEF OnTime
    <2> QED BY <1>1, <1>8, <2>2, <2>4, <2>5, <2>6 DEF LinkInv
  <1>10. CASE state[conn] # "open"
    <2>1. NextDevice(failed, TRUE) /\ UNCHANGED up
      BY <1>2, <1>10 DEF Ask
    <2>2. failed \in 0..device /\ TRUE \in BOOLEAN
      BY <1>4, DevicesAre DEF LinkInv, EngineTypes
    <2>3. /\ device' \in DOMAIN Devices /\ failed' \in 0..device' - 1 /\ reconnect' \in BOOLEAN
          /\ stage' = "pause" /\ conn' \in {0, conn}
          /\ state' \in [Conns -> {"none", "open", "broken", "closed"}]
          /\ conn' # 0 => state' = state
      BY <1>1, <2>1, <2>2, NextDeviceIs DEF LinkInv
    <2>4. EngineTypes'
      BY <1>1, <1>3, <1>6, <1>7, <1>8, <2>3 DEF LinkInv, EngineTypes, Devices
    <2>5. NetTypes'
      BY <1>1, <2>1, <2>3 DEF LinkInv, NetTypes
    <2>6. Engaged'
      BY <1>1, <2>3, PausedIsEngaged DEF LinkInv
    <2>7. ASSUME OnTime PROVE OnTime'
      <3>1. \A c \in Conns : Settled(c)'
        BY <1>1, <2>1, <2>7 DEF OnTime, Settled
      <3>2. Real'
        BY <1>1, <2>7, RealStays DEF OnTime
      <3> QED BY <1>1, <2>3, <2>7, <3>1, <3>2, PausedInTime DEF OnTime
    <2> QED BY <1>1, <1>8, <2>4, <2>5, <2>6, <2>7 DEF LinkInv
  <1> QED BY <1>9, <1>10

LEMMA ExpectedIs ==
  ASSUME EngineTypes
  PROVE  /\ Device \in DeviceSet /\ device \in DOMAIN Devices
         /\ BytesOf(Device.count) \in 1..4 /\ Expected \in 6..9
         /\ Expected = IF stage = "readWait" THEN 5 + BytesOf(Device.count) ELSE 8
  <1>1. Device \in DeviceSet /\ device \in DOMAIN Devices
    BY DevicesAre DEF EngineTypes, Device
  <1>2. BytesOf(Device.count) \in 1..4
    BY <1>1, BytesAre DEF DeviceSet
  <1>3. Expected = IF stage = "readWait" THEN 5 + BytesOf(Device.count) ELSE 8
    BY DEF Expected, BytesOf
  <1>4. Expected \in 6..9
    BY <1>2, <1>3
  <1> QED BY <1>1, <1>2, <1>3, <1>4

\* Where the engine waits, it has a connection.
LEMMA WaitsOn ==
  ASSUME LinkInv, Waiting
  PROVE  conn \in Conns /\ stage # "pause" /\ (stage = "readWait" \/ stage = "writeWait")
  BY DEF LinkInv, EngineTypes, Engaged, Waiting

\* When all the bytes of an answer are there, they are the answer and nothing else is.
LEMMA AnswerIsThere ==
  ASSUME LinkInv, OnTime, Waiting, Len(got) >= Expected
  PROVE  Len(got) = Expected /\ Fits(got) /\ \A c \in Conns : Settled(c)
  <1>1. EngineTypes /\ conn \in Conns /\ got \in Frame /\ Len(got) \in Nat
    BY WaitsOn, FrameElements DEF LinkInv, EngineTypes
  <1>2. Expected \in Nat /\ Expected > 0
    BY <1>1, ExpectedIs
  <1>3. Answering
    <2>1. Len(None) = 0
      BY NoBytes
    <2> QED BY <1>1, <1>2, <2>1 DEF OnTime, Asking
  <1>4. PICK reply \in Frame :
          Fits(reply) /\ \E k \in 0..Len(reply) :
            /\ got = SubSeq(reply, 1, k)
            /\ down[conn] = None \/ down[conn] = SubSeq(reply, k + 1, Len(reply))
    BY <1>3 DEF Answering
  <1>5. PICK k \in 0..Len(reply) :
            /\ got = SubSeq(reply, 1, k)
            /\ down[conn] = None \/ down[conn] = SubSeq(reply, k + 1, Len(reply))
    BY <1>4
  <1>6. Len(reply) \in Nat /\ Len(reply) <= Expected
    BY <1>4, FrameElements DEF Fits
  <1>7. Len(got) = k
    <2>1. 1 \in 1..Len(reply) + 1 /\ k \in 1 - 1..Len(reply)
      BY <1>6
    <2>2. Len(got) = k - 1 + 1
      BY <1>5, <2>1, Piece
    <2> QED BY <1>6, <2>2
  <1>8. k = Len(reply) /\ Len(reply) = Expected
    BY <1>2, <1>6, <1>7
  <1>9. got = reply /\ down[conn] = None
    BY <1>5, <1>8, Whole
  <1>10. Settled(conn)
    BY <1>3, <1>9 DEF Settled, Answering
  <1>11. \A c \in Conns : Settled(c)
    BY <1>10 DEF OnTime
  <1> QED BY <1>4, <1>7, <1>8, <1>9, <1>11

LEMMA TimesOutStep ==
  ASSUME LinkInv, TimesOut
  PROVE  LinkInv'
  <1>1. /\ UNCHANGED <<setup, query, waited, data, want, up, down, buf, idle, phantom, regs, main,
                       scan, relay, input, been>>
        /\ got' = None /\ Waiting /\ NextDevice(failed + 1, FALSE)
        /\ late' = (late \/ up[conn] # None \/ down[conn] # None)
    BY DEF TimesOut, EngineOnly, slaveVars, proxyVars, worldVars
  <1>2. conn \in Conns
    BY <1>1, WaitsOn
  <1>3. failed + 1 \in 0..device /\ FALSE \in BOOLEAN
    BY DevicesAre DEF LinkInv, EngineTypes
  <1>4. /\ device' \in DOMAIN Devices /\ failed' \in 0..device' - 1 /\ reconnect' \in BOOLEAN
        /\ stage' = "pause" /\ conn' \in {0, conn}
        /\ state' \in [Conns -> {"none", "open", "broken", "closed"}]
        /\ conn' # 0 => state' = state
    BY <1>1, <1>2, <1>3, NextDeviceIs DEF LinkInv
  <1>5. BitsTyped(data)' /\ BitsTyped(want)' /\ ProxyTypes'
    BY <1>1 DEF LinkInv, EngineTypes, BitsTyped, Devices, ProxyTypes
  <1>6. EngineTypes'
    BY <1>1, <1>2, <1>4, <1>5, NoBytes DEF LinkInv, EngineTypes, Devices
  <1>7. NetTypes'
    BY <1>1, <1>4 DEF LinkInv, NetTypes
  <1>8. Engaged'
    BY <1>1, <1>4, PausedIsEngaged DEF LinkInv
  <1>9. ASSUME ~late' PROVE OnTime'
    <2>1. OnTime /\ up[conn] = None /\ down[conn] = None
      BY <1>1, <1>9 DEF LinkInv
    <2>2. ~Asking
      <3> SUFFICES ASSUME Asking PROVE FALSE
        OBVIOUS
      <3>1. PICK k \in 0..Len(query) - 1 : up[conn] = SubSeq(query, k + 1, Len(query))
        BY DEF Asking
      <3>2. query \in Frame /\ Len(query) \in Nat
        BY FrameElements DEF LinkInv, EngineTypes
      <3>3. k + 1 \in 1..Len(query) + 1 /\ Len(query) \in (k + 1) - 1..Len(query)
        BY <3>2
      <3>4. Len(up[conn]) = Len(query) - (k + 1) + 1
        BY <3>1, <3>2, <3>3, Piece
      <3> QED BY <2>1, <3>2, <3>4, NoBytes
    <2>3. Settled(conn)
      BY <1>1, <2>1, <2>2 DEF OnTime, Answering, Settled
    <2>4. \A c \in Conns : Settled(c)'
      BY <1>1, <2>1, <2>3 DEF OnTime, Settled
    <2>5. Real'
      BY <1>1, <2>1, RealStays DEF OnTime
    <2> QED BY <1>1, <1>4, <2>1, <2>4, <2>5, PausedInTime DEF OnTime
  <1> QED BY <1>5, <1>6, <1>7, <1>8, <1>9 DEF LinkInv

LEMMA AnswerStep ==
  ASSUME LinkInv, Answer
  PROVE  LinkInv'
  <1> DEFINE reply == SubSeq(got, 1, Expected)
             bits == BitsOf(reply)
  <1>1. /\ UNCHANGED <<setup, query, waited, late, up, down, buf, idle, phantom, regs, main,
                       scan, relay, input, been>>
        /\ Waiting /\ Len(got) >= Expected
        /\ got' = SubSeq(got, Len(reply) + 1, Len(got))
    BY DEF Answer, Take, EngineOnly, slaveVars, proxyVars, worldVars
  <1>2. /\ conn \in Conns /\ conn # 0 /\ EngineTypes
        /\ Device \in DeviceSet /\ device \in DOMAIN Devices /\ Expected \in 6..9
    BY <1>1, WaitsOn, ExpectedIs, Bounds DEF LinkInv
  <1>3. /\ got \in Frame /\ Len(got) \in Nat
        /\ Len(reply) = Expected
    <2>1. got \in Frame /\ Len(got) \in Nat
      BY FrameElements DEF LinkInv, EngineTypes
    <2>2. 1 \in 1..Len(got) + 1 /\ Expected \in 1 - 1..Len(got)
      BY <1>1, <1>2, <2>1
    <2>3. Len(reply) = Expected - 1 + 1
      BY <2>1, <2>2, Piece
    <2> HIDE DEF reply
    <2> QED BY <1>2, <2>1, <2>3
  <1>4. got' \in Frame
    <2>1. Expected + 1 \in 1..Len(got) + 1 /\ Len(got) \in (Expected + 1) - 1..Len(got)
      BY <1>1, <1>2, <1>3
    <2> QED BY <1>1, <1>3, <2>1, Piece
  <1>5. bits \in [1..Device.count -> BOOLEAN] /\ bits # None
    <2>1. 1 \in 1..Device.count
      BY <1>2 DEF DeviceSet
    <2> QED BY <2>1 DEF BitsOf, IsSet, None
  <1>6. OnTime => got' = None /\ reply = got /\ Fits(got) /\ \A c \in Conns : Settled(c)
    <2> SUFFICES ASSUME OnTime
                 PROVE  got' = None /\ reply = got /\ Fits(got) /\ \A c \in Conns : Settled(c)
      OBVIOUS
    <2>1. Len(got) = Expected /\ Fits(got) /\ \A c \in Conns : Settled(c)
      BY <1>1, AnswerIsThere
    <2> QED BY <1>1, <1>3, <2>1, Whole
  <1>7. ProxyTypes'
    BY <1>1 DEF LinkInv, ProxyTypes
  <1> HIDE DEF reply
  \* What becomes of the bits.
  <1>8. \/ ~Accepted(reply) /\ NextDevice(failed + 1, FALSE) /\ UNCHANGED <<data, want>>
        \/ /\ stage = "writeWait" /\ data' = [data EXCEPT ![device] = want[device]]
           /\ NextDevice(failed, FALSE) /\ UNCHANGED want
        \/ /\ stage = "readWait" /\ data' = [data EXCEPT ![device] = bits]
           /\ want' = IF Device.type = "COIL" /\ want[device] = None
                      THEN [want EXCEPT ![device] = bits] ELSE want
           /\ \/ /\ Device.type = "COIL" /\ bits # want'[device] /\ stage' = "write"
                 /\ UNCHANGED <<conn, device, failed, reconnect, state>>
              \/ NextDevice(failed, FALSE)
    BY <1>1 DEF Answer, Read, Waiting, reply
  <1>9. BitsTyped(data') /\ BitsTyped(want')
    <2>1. BitsTyped(data) /\ BitsTyped(want)
      BY DEF LinkInv, EngineTypes
    <2>2. want[device] = None \/ want[device] \in [1..Devices[device].count -> BOOLEAN]
      BY <1>2, <2>1 DEF BitsTyped
    <2>3. bits \in [1..Devices[device].count -> BOOLEAN]
      BY <1>5 DEF Device
    <2> HIDE DEF bits
    <2>4. BitsTyped(data')
      BY <1>2, <1>8, <2>1, <2>2, <2>3 DEF BitsTyped
    <2>5. BitsTyped(want')
      BY <1>2, <1>8, <2>1, <2>3 DEF BitsTyped
    <2> QED BY <2>4, <2>5
  <1>10. BitsTyped(data)' /\ BitsTyped(want)'
    BY <1>1, <1>9 DEF BitsTyped, Devices
  <1> HIDE DEF bits
  <1>11. Real \/ late => Real' \/ late
    <2> SUFFICES ASSUME Real, ~late PROVE Real'
      OBVIOUS
    <2>1. OnTime
      BY DEF LinkInv
    <2>2. DOMAIN data = DOMAIN Devices
      BY DEF LinkInv, EngineTypes, BitsTyped
    <2>3. CASE data' = data
      BY <1>1, <2>3, RealStays
    <2>4. CASE stage = "writeWait" /\ data' = [data EXCEPT ![device] = want[device]]
      <3>1. Devices[device].type # "DISCRETE_INPUT"
        BY <2>4 DEF LinkInv, Engaged, Device
      <3> QED BY <1>1, <1>2, <2>2, <2>4, <3>1 DEF Real, Shown, Devices
    <2>5. CASE stage = "readWait" /\ data' = [data EXCEPT ![device] = bits]
      <3>1. Devices[device].type = "DISCRETE_INPUT" =>
              \E v \in been : Shown(Devices[device], bits, v)
        <4>1. Fits(got) /\ Len(got) = Expected /\ bits = BitsOf(got)
          BY <1>1, <1>6, <2>1, AnswerIsThere DEF bits
        <4> QED BY <2>5, <4>1 DEF Fits, Device
      <3>2. data'[device] = bits /\ \A d \in DOMAIN Devices : d # device => data'[d] = data[d]
        BY <1>2, <2>2, <2>5
      <3> QED BY <1>1, <3>1, <3>2 DEF Real, Shown, Devices
    <2> QED BY <1>8, <2>3, <2>4, <2>5
  <1>12. CASE NextDevice(failed, FALSE) \/ NextDevice(failed + 1, FALSE)
    <2>1. failed \in 0..device /\ failed + 1 \in 0..device /\ FALSE \in BOOLEAN
      BY DevicesAre DEF LinkInv, EngineTypes
    <2>2. /\ device' \in DOMAIN Devices /\ failed' \in 0..device' - 1 /\ reconnect' \in BOOLEAN
          /\ stage' = "pause" /\ conn' \in {0, conn}
          /\ state' \in [Conns -> {"none", "open", "broken", "closed"}]
          /\ conn' # 0 => state' = state
      BY <1>1, <1>2, <1>12, <2>1, NextDeviceIs DEF LinkInv
    <2>3. EngineTypes'
      BY <1>1, <1>2, <1>4, <1>10, <2>2 DEF EngineTypes, Devices
    <2>4. NetTypes'
      BY <1>1, <2>2 DEF LinkInv, NetTypes
    <2>5. Engaged'
      BY <1>1, <2>2, PausedIsEngaged DEF LinkInv
    <2>6. ASSUME ~late' PROVE OnTime'
      <3>1. OnTime /\ Real'
        BY <1>1, <1>11, <2>6 DEF LinkInv, OnTime
      <3>2. \A c \in Conns : Settled(c)'
        BY <1>1, <1>6, <3>1 DEF Settled
      <3> QED BY <1>1, <1>6, <2>2, <3>1, <3>2, PausedInTime DEF OnTime
    <2> QED BY <1>7, <2>3, <2>4, <2>5, <2>6 DEF LinkInv
  <1>13. CASE /\ Device.type = "COIL" /\ bits # want'[device] /\ stage' = "write"
              /\ UNCHANGED <<conn, device, failed, reconnect, state>>
              /\ want' = IF Device.type = "COIL" /\ want[device] = None
                         THEN [want EXCEPT ![device] = bits] ELSE want
    <2>1. EngineTypes'
      BY <1>1, <1>2, <1>4, <1>10, <1>13 DEF EngineTypes, Devices
    <2>2. NetTypes'
      BY <1>1, <1>13 DEF LinkInv, NetTypes
    <2>3. want'[device] # None
      <3>1. DOMAIN want = DOMAIN Devices
        BY DEF LinkInv, EngineTypes, BitsTyped
      <3> QED BY <1>2, <1>5, <1>13, <3>1
    <2>4. Engaged'
      <3>1. conn # 0 /\ state[conn] \in {"open", "broken"} /\ main # "starting"
        BY <1>2 DEF LinkInv, Engaged
      <3>2. Device' = Device
        BY <1>1, <1>13 DEF Device, Devices
      <3> QED BY <1>1, <1>13, <2>3, <3>1, <3>2 DEF Engaged
    <2>5. ASSUME ~late' PROVE OnTime'
      <3>1. OnTime /\ Real'
        BY <1>1, <1>11, <2>5 DEF LinkInv, OnTime
      <3>2. \A c \in Conns : Settled(c)'
        BY <1>1, <1>6, <3>1 DEF Settled
      <3>3. ~Waiting'
        BY <1>13 DEF Waiting
      <3> QED BY <1>1, <1>6, <3>1, <3>2, <3>3 DEF OnTime
    <2> QED BY <1>7, <2>1, <2>2, <2>4, <2>5 DEF LinkInv
  <1> QED BY <1>8, <1>12, <1>13

-----------------------------------------------------------------------------
(* The steps of the connections. *)

\* The query under way is one that the engine asks.
LEMMA QueryAsked ==
  ASSUME LinkInv, Waiting
  PROVE  /\ IsQuery(query) /\ query \in Asked
         /\ UInt16(query, 3) = Device.start /\ UInt16(query, 5) = Device.count
         /\ stage = "readWait" => query[2] # 15 /\ (Device.type = "DISCRETE_INPUT" => query[2] = 2)
         /\ stage # "readWait" => query[2] = 15
  <1>1. Device \in DeviceSet /\ device \in DOMAIN Devices /\ Device = Devices[device]
    BY ExpectedIs DEF LinkInv, Device
  <1>2. CASE stage = "readWait"
    <2>1. query = ReadQuery(Device)
      BY <1>2 DEF LinkInv, Engaged
    <2>2. query \in Asked
      BY <1>1, <2>1 DEF Asked
    <2>3. /\ IsQuery(query) /\ query[2] = IF Device.type = "COIL" THEN 1 ELSE 2
          /\ UInt16(query, 3) = Device.start /\ UInt16(query, 5) = Device.count
      BY <1>1, <2>1, ReadQueryIs
    <2> QED BY <1>2, <2>2, <2>3
  <1>3. CASE stage = "writeWait"
    <2>1. PICK b \in [1..Device.count -> BOOLEAN] : query = WriteQuery(Device, b)
      BY <1>3 DEF LinkInv, Engaged
    <2>2. Device.type = "COIL"
      BY <1>3 DEF LinkInv, Engaged
    <2>3. query \in Asked
      BY <1>1, <2>1, <2>2 DEF Asked
    <2>4. /\ IsQuery(query) /\ query[2] = 15
          /\ UInt16(query, 3) = Device.start /\ UInt16(query, 5) = Device.count
      BY <1>1, <2>1, WriteQueryIs
    <2> QED BY <1>3, <2>3, <2>4
  <1> QED BY <1>2, <1>3 DEF Waiting

LEMMA ArriveStep ==
  ASSUME LinkInv, NEW c \in Conns, Arrive(c)
  PROVE  LinkInv'
  <1>1. /\ UNCHANGED <<setup, conn, device, stage, failed, reconnect, query, waited, data, want, late,
                       up, state, buf, idle, phantom, regs, main, scan, relay, input, been>>
        /\ down[c] # None /\ c = conn
    BY DEF Arrive, slaveVars, proxyVars
  <1>2. PICK n \in 1..Len(down[c]) :
          /\ got' = got \o SubSeq(down[c], 1, n)
          /\ down' = [down EXCEPT ![c] = SubSeq(@, n + 1, Len(@))]
    BY DEF Arrive
  <1>3. down[c] \in Frame /\ Len(down[c]) \in Nat /\ got \in Frame
    BY FrameElements DEF LinkInv, NetTypes, EngineTypes
  <1>4. SubSeq(down[c], 1, n) \in Frame /\ SubSeq(down[c], n + 1, Len(down[c])) \in Frame
    <2>1. 1 \in 1..Len(down[c]) + 1 /\ n \in 1 - 1..Len(down[c])
      BY <1>3
    <2>2. n + 1 \in 1..Len(down[c]) + 1 /\ Len(down[c]) \in (n + 1) - 1..Len(down[c])
      BY <1>3
    <2> QED BY <1>3, <2>1, <2>2, Piece
  <1>5. EngineTypes'
    <2>1. got' \in Frame
      BY <1>2, <1>3, <1>4, Joined
    <2>2. BitsTyped(data)' /\ BitsTyped(want)'
      BY <1>1 DEF LinkInv, EngineTypes, BitsTyped, Devices
    <2> QED BY <1>1, <2>1, <2>2 DEF LinkInv, EngineTypes, Devices
  <1>6. NetTypes' /\ ProxyTypes'
    BY <1>1, <1>2, <1>4 DEF LinkInv, NetTypes, ProxyTypes
  <1>7. Engaged'
    BY <1>1 DEF LinkInv, Engaged, Device, Devices
  <1>8. ASSUME OnTime PROVE OnTime'
    <2>1. Waiting /\ ~Asking
      BY <1>1, <1>8 DEF OnTime, Settled, Asking
    <2>2. Answering
      BY <1>8, <2>1 DEF OnTime
    <2>3. PICK reply \in Frame :
            Fits(reply) /\ \E k \in 0..Len(reply) :
              /\ got = SubSeq(reply, 1, k)
              /\ down[conn] = None \/ down[conn] = SubSeq(reply, k + 1, Len(reply))
      BY <2>2 DEF Answering
    <2>4. PICK k \in 0..Len(reply) :
            got = SubSeq(reply, 1, k) /\ down[c] = SubSeq(reply, k + 1, Len(reply))
      BY <1>1, <2>3
    <2>5. Len(reply) \in Nat /\ Len(down[c]) = Len(reply) - k
      <3>1. Len(reply) \in Nat
        BY FrameElements
      <3>2. k + 1 \in 1..Len(reply) + 1 /\ Len(reply) \in (k + 1) - 1..Len(reply)
        BY <3>1
      <3>3. Len(down[c]) = Len(reply) - (k + 1) + 1
        BY <2>4, <3>2, Piece
      <3> QED BY <3>1, <3>3
    <2>6. n \in 0..Len(reply) - k /\ k + n \in 0..Len(reply)
      BY <2>5
    <2>7. /\ SubSeq(down[c], 1, n) = SubSeq(reply, k + 1, k + n)
          /\ SubSeq(down[c], n + 1, Len(down[c])) = SubSeq(reply, k + n + 1, Len(reply))
      BY <2>4, <2>6, Parted
    <2>8. got' = SubSeq(reply, 1, k + n)
      <3>1. k \in 0..k + n
        BY <2>5
      <3>2. SubSeq(reply, 1, k) \o SubSeq(reply, k + 1, k + n) = SubSeq(reply, 1, k + n)
        BY <2>6, <3>1, Glued
      <3> QED BY <1>2, <2>4, <2>7, <3>2
    <2>9. down'[c] = SubSeq(reply, k + n + 1, Len(reply)) /\ \A b \in Conns : b # c => down'[b] = down[b]
      BY <1>2, <2>7 DEF LinkInv, NetTypes
    <2>10. Fits(reply)'
      BY <1>1, <2>3 DEF Fits, Device, Devices, Expected, BitsOf, Shown
    <2>11. Answering'
      BY <1>1, <2>2, <2>6, <2>8, <2>9, <2>10 DEF Answering
    <2>12. Real'
      BY <1>1, <1>8, RealStays DEF OnTime
    <2>13. \A b \in Conns : Settled(b)' \/ (b = conn' /\ Waiting')
      BY <1>1, <1>8, <2>9 DEF OnTime, Settled, Waiting
    <2>14. Waiting'
      BY <1>1, <2>1 DEF Waiting
    <2> QED BY <1>1, <1>8, <2>11, <2>12, <2>13, <2>14 DEF OnTime
  <1> QED BY <1>1, <1>5, <1>6, <1>7, <1>8 DEF LinkInv

LEMMA ServeTypes ==
  ASSUME LinkInv, NEW c \in Conns, NEW n \in 1..Len(up[c])
  PROVE  /\ Received(Idle(Kept(c), regs), SubSeq(up[c], 1, n)) \in Ready
         /\ SubSeq(up[c], n + 1, Len(up[c])) \in Frame
  <1>1. up[c] \in Frame /\ Len(up[c]) \in Nat /\ buf[c] \in Frame /\ Len(buf[c]) < ReadBuffer
    BY FrameElements DEF LinkInv, NetTypes
  <1>2. Kept(c) \in Frame /\ Len(Kept(c)) < ReadBuffer
    BY <1>1, NoBytes, Bounds DEF Kept
  <1>3. Idle(Kept(c), regs) \in Ready
    <2>1. regs \in Registers /\ None \in Seq(Frame) /\ None \in Frame
      BY EmptySeq, NoBytes DEF LinkInv, ProxyTypes, None
    <2> QED BY <1>2, <2>1 DEF Idle, Ready, Slave
  <1>4. 1 \in 1..Len(up[c]) + 1 /\ n \in 1 - 1..Len(up[c])
    BY <1>1
  <1>5. SubSeq(up[c], 1, n) \in Frame
    BY <1>1, <1>4, Piece
  <1>6. n + 1 \in 1..Len(up[c]) + 1 /\ Len(up[c]) \in (n + 1) - 1..Len(up[c])
    BY <1>1
  <1>7. SubSeq(up[c], n + 1, Len(up[c])) \in Frame
    BY <1>1, <1>6, Piece
  <1> QED BY <1>3, <1>5, <1>7, ReceivedType

\* The slave gets more of the query that is under way.
LEMMA ServeInTime ==
  ASSUME LinkInv, OnTime, NEW c \in Conns, up[c] # None, NEW n \in 1..Len(up[c])
  PROVE  /\ c = conn /\ Waiting /\ got = None /\ down[c] = None
         /\ \E k \in 1..Len(query) :
              /\ Received(Idle(Kept(c), regs), SubSeq(up[c], 1, n)) = Partial(query, regs, k)
              /\ SubSeq(up[c], n + 1, Len(up[c])) = SubSeq(query, k + 1, Len(query))
  <1>1. c = conn /\ Waiting
    BY DEF OnTime, Settled
  <1>2. Asking
    BY <1>1 DEF OnTime, Answering
  <1>3. PICK k \in 0..Len(query) - 1 :
          buf[c] = SubSeq(query, 1, k) /\ up[c] = SubSeq(query, k + 1, Len(query))
    BY <1>1, <1>2 DEF Asking
  <1>4. IsQuery(query) /\ query \in Frame /\ Len(query) \in Nat /\ regs \in Registers
    BY <1>1, QueryAsked, QueryLength DEF LinkInv, ProxyTypes
  <1>5. Len(up[c]) = Len(query) - k
    <2>1. k + 1 \in 1..Len(query) + 1 /\ Len(query) \in (k + 1) - 1..Len(query)
      BY <1>4
    <2>2. Len(up[c]) = Len(query) - (k + 1) + 1
      BY <1>3, <1>4, <2>1, Piece
    <2> QED BY <1>4, <2>2
  <1>6. Kept(c) = buf[c]
    <2>1. waited \in 0..Timeout /\ idle[c] \in 0..Timeout + 1 /\ Timeout \in Nat
      BY Bounds DEF LinkInv, EngineTypes, NetTypes
    <2>2. buf[c] = None \/ idle[c] <= waited
      BY <1>1, <1>2 DEF Asking
    <2> QED BY <2>1, <2>2 DEF Kept
  <1>7. n \in 1..Len(query) - k /\ n \in 0..Len(query) - k /\ k \in 0..Len(query) /\ k + n \in 1..Len(query)
    BY <1>4, <1>5
  <1>8. /\ SubSeq(up[c], 1, n) = SubSeq(query, k + 1, k + n)
        /\ SubSeq(up[c], n + 1, Len(up[c])) = SubSeq(query, k + n + 1, Len(query))
    BY <1>3, <1>4, <1>7, Parted
  <1>9. Received(Idle(Kept(c), regs), SubSeq(up[c], 1, n)) = Partial(query, regs, k + n)
    BY <1>3, <1>4, <1>6, <1>7, <1>8, ReceivedOfQuery
  <1>10. got = None /\ down[c] = None
    BY <1>1, <1>2 DEF Asking
  <1> QED BY <1>1, <1>7, <1>8, <1>9, <1>10

LEMMA AnswerFits ==
  ASSUME LinkInv, OnTime, Waiting
  PROVE  Fits(Reply(regs, query))
  <1>1. /\ IsQuery(query)
        /\ UInt16(query, 3) = Device.start /\ UInt16(query, 5) = Device.count
        /\ stage = "readWait" => query[2] # 15 /\ (Device.type = "DISCRETE_INPUT" => query[2] = 2)
        /\ stage # "readWait" => query[2] = 15
    BY QueryAsked
  <1>2. /\ Device \in DeviceSet /\ Device.count \in 1..32 /\ Device.start \in Nat
        /\ BytesOf(Device.count) \in 1..4
        /\ Expected = IF stage = "readWait" THEN 5 + BytesOf(Device.count) ELSE 8
    BY ExpectedIs, Numbers DEF LinkInv, DeviceSet
  <1>3. regs \in Registers /\ regs.din \in been
    <2>1. main # "starting"
      BY WaitsOn, Bounds DEF LinkInv, Engaged
    <2> QED BY <2>1 DEF OnTime, LinkInv, ProxyTypes
  <1>0. PICK reply : reply = Reply(regs, query)
    OBVIOUS
  <1>4. /\ reply \in Frame
        /\ Len(reply) <= IF query[2] = 15 THEN 8 ELSE 5 + BytesOf(Device.count)
        /\ query[2] = 2 /\ Len(reply) = 5 + BytesOf(Device.count) =>
             ShowsBits(reply, Device.start, Device.count, regs.din)
    <2>1. UInt16(query, 5) \in 1..32
      BY <1>1, <1>2
    <2>2. /\ reply \in Frame
          /\ Len(reply) <= IF query[2] = 15 THEN 8 ELSE 5 + BytesOf(UInt16(query, 5))
          /\ query[2] = 2 /\ Len(reply) = 5 + BytesOf(UInt16(query, 5)) =>
               Complete(reply, UInt16(query, 3), UInt16(query, 5), regs.din)
      BY <1>0, <1>1, <1>3, <2>1, Answers
    <2> QED BY <1>1, <2>2 DEF Complete
  <1>5. Len(reply) <= Expected
    BY <1>1, <1>2, <1>4
  <1>6. ASSUME stage = "readWait", Device.type = "DISCRETE_INPUT", Len(reply) = Expected
        PROVE  Shown(Device, BitsOf(reply), regs.din)
    <2>1. ASSUME NEW i \in 1..Device.count
          PROVE  BitsOf(reply)[i] <=>
                   Device.start + i - 1 \in DOMAIN regs.din /\ regs.din[Device.start + i - 1]
      <3>1. i \in 1..8 * BytesOf(Device.count) /\ i <= Device.count
        BY <1>2, BytesAre
      <3>2. BitsOf(reply)[i] = IsSet(reply[4 + (i - 1) \div 8], (i - 1) % 8)
        BY DEF BitsOf
      <3>3. ShowsBits(reply, Device.start, Device.count, regs.din)
        BY <1>1, <1>2, <1>4, <1>6
      <3> QED BY <1>2, <3>1, <3>2, <3>3, BitOfShown
    <2> QED BY <2>1 DEF Shown
  <1> QED BY <1>0, <1>3, <1>4, <1>5, <1>6 DEF Fits

LEMMA ServeStep ==
  ASSUME LinkInv, NEW c \in Conns, Serve(c)
  PROVE  LinkInv'
  <1>1. /\ UNCHANGED <<setup, conn, device, stage, failed, reconnect, query, got, waited, data, want,
                       late, state, main, scan, relay, input, been>>
        /\ up[c] # None /\ idle' = [idle EXCEPT ![c] = 0]
    BY DEF Serve, engineVars, proxyVars
  <1>2. PICK n, s :
          /\ n \in 1..Len(up[c])
          /\ s = Received(Idle(Kept(c), regs), SubSeq(up[c], 1, n))
          /\ buf' = [buf EXCEPT ![c] = s.buf]
          /\ regs' = s.regs
          /\ phantom' = (phantom \/ \E i \in DOMAIN s.done : s.done[i] \notin Asked)
          /\ down' = IF state[c] = "open" THEN [down EXCEPT ![c] = @ \o s.out] ELSE down
          /\ up' = [up EXCEPT ![c] = SubSeq(@, n + 1, Len(@))]
    BY DEF Serve, Idle
  <1>3. s \in Ready /\ SubSeq(up[c], n + 1, Len(up[c])) \in Frame
    BY <1>2, ServeTypes
  <1>4. s.buf \in Frame /\ Len(s.buf) < ReadBuffer /\ s.regs \in Registers /\ s.out \in Frame
    BY <1>3 DEF Ready, Slave
  <1>5. EngineTypes'
    <2>1. BitsTyped(data)' /\ BitsTyped(want)'
      BY <1>1 DEF LinkInv, EngineTypes, BitsTyped, Devices
    <2> QED BY <1>1, <2>1 DEF LinkInv, EngineTypes, Devices
  <1>6. NetTypes'
    <2>1. down[c] \o s.out \in Frame
      BY <1>4, Joined DEF LinkInv, NetTypes
    <2>2. up' \in [Conns -> Frame] /\ down' \in [Conns -> Frame] /\ buf' \in [Conns -> Frame]
      BY <1>2, <1>3, <1>4, <2>1 DEF LinkInv, NetTypes
    <2>3. \A b \in Conns : Len(buf'[b]) < ReadBuffer
      BY <1>2, <1>4 DEF LinkInv, NetTypes
    <2>4. idle' \in [Conns -> 0..Timeout + 1]
      BY <1>1, Bounds DEF LinkInv, NetTypes
    <2> QED BY <1>1, <2>2, <2>3, <2>4 DEF LinkInv, NetTypes
  <1>7. ProxyTypes'
    <2>1. phantom' \in BOOLEAN
      BY <1>2 DEF LinkInv, ProxyTypes
    <2> QED BY <1>1, <1>2, <1>4, <2>1 DEF LinkInv, ProxyTypes
  <1>8. Engaged'
    BY <1>1 DEF LinkInv, Engaged, Device, Devices
  <1>9. ASSUME OnTime PROVE OnTime'
    <2>1. /\ c = conn /\ Waiting /\ got = None /\ down[c] = None
          /\ \E k \in 1..Len(query) :
               /\ s = Partial(query, regs, k)
               /\ SubSeq(up[c], n + 1, Len(up[c])) = SubSeq(query, k + 1, Len(query))
      BY <1>1, <1>2, <1>9, ServeInTime
    <2>2. PICK k \in 1..Len(query) :
            /\ s = Partial(query, regs, k)
            /\ SubSeq(up[c], n + 1, Len(up[c])) = SubSeq(query, k + 1, Len(query))
      BY <2>1
    <2>3. /\ IsQuery(query) /\ query \in Asked /\ query \in Frame /\ Len(query) \in Nat
          /\ Len(query) >= 8 /\ query[2] \in Functions
      BY <2>1, QueryAsked, QueryLength
    <2>4. Fits(Reply(regs, query))
      BY <1>9, <2>1, AnswerFits
    <2>5. up'[c] = SubSeq(query, k + 1, Len(query)) /\ buf'[c] = s.buf /\ idle'[c] = 0
      BY <1>1, <1>2, <2>2 DEF LinkInv, NetTypes
    <2>6. \A b \in Conns : b # c => up'[b] = up[b] /\ buf'[b] = buf[b] /\ down'[b] = down[b]
      BY <1>2 DEF LinkInv, NetTypes
    <2>7. \A b \in Conns : Settled(b)' \/ (b = conn' /\ Waiting')
      BY <1>1, <1>9, <2>1, <2>6 DEF OnTime, Settled, Waiting
    <2>8. Real'
      BY <1>1, <1>9, RealStays DEF OnTime
    <2>9. regs \in Registers
      BY DEF LinkInv, ProxyTypes
    <2>10. down'[c] = IF state[c] = "open" THEN None \o s.out ELSE None
      BY <1>2, <2>1 DEF LinkInv, NetTypes
    <2>11. Waiting'
      BY <1>1, <2>1 DEF Waiting
    <2>12. CASE k < Len(query)
      <3>1. s.buf = SubSeq(query, 1, k) /\ s.regs = regs /\ s.out = None /\ s.done = None
        BY <2>2, <2>12 DEF Partial, Idle
      <3>2. None \o None = None
        BY NoBytes, ConcatEmptySeq DEF Frame, None
      <3>3. down'[c] = None
        BY <2>10, <3>1, <3>2
      <3>4. ~phantom'
        <4>1. DOMAIN s.done = {}
          BY <3>1 DEF None
        <4> QED BY <1>2, <1>9, <4>1 DEF OnTime
      <3>5. Asking'
        <4>1. k \in 0..Len(query) - 1
          BY <2>3, <2>12
        <4>2. 0 <= waited
          BY DEF LinkInv, EngineTypes
        <4> QED BY <1>1, <2>1, <2>5, <3>1, <3>3, <4>1, <4>2 DEF Asking
      <3>6. main' # "starting" => regs'.din \in been'
        BY <1>1, <1>2, <1>9, <3>1 DEF OnTime
      <3> QED BY <2>7, <2>8, <2>11, <3>4, <3>5, <3>6 DEF OnTime
    <2>13. CASE k = Len(query)
      <3>0. PICK reply : reply = Reply(regs, query)
        OBVIOUS
      <3>1. /\ s.buf = None /\ s.regs = Written(regs, query) /\ s.out = reply
            /\ s.done = <<query>>
        BY <2>2, <2>3, <2>13, <3>0 DEF Partial
      <3>2. reply \in Frame
        BY <2>4, <3>0 DEF Fits
      <3>3. ~phantom'
        <4>1. \A i \in DOMAIN s.done : s.done[i] = query
          BY <3>1
        <4> QED BY <1>2, <1>9, <2>3, <4>1 DEF OnTime
      <3>4. regs'.din = regs.din
        BY <1>2, <2>9, <3>1, WrittenType
      <3>5. up'[c] = None
        BY <2>3, <2>5, <2>13, Whole
      <3>6. down'[c] = None \/ down'[c] = reply
        <4>1. None \o reply = reply
          BY <3>2, ConcatEmptySeq DEF Frame, None
        <4> QED BY <2>10, <3>1, <4>1
      <3>7. Fits(reply)'
        <4>1. Fits(reply)
          BY <2>4, <3>0
        <4> QED BY <1>1, <4>1 DEF Fits, Device, Devices, Expected, BitsOf, Shown
      <3>8. Answering'
        <4>1. 0 \in 0..Len(reply) /\ SubSeq(reply, 1, 0) = None /\ SubSeq(reply, 0 + 1, Len(reply)) = reply
          BY <3>2, Whole, FrameElements
        <4>2. got' = SubSeq(reply, 1, 0) /\ (down'[c] = None \/ down'[c] = SubSeq(reply, 0 + 1, Len(reply)))
          BY <1>1, <2>1, <3>6, <4>1
        <4>3. up'[conn'] = None /\ buf'[conn'] = None
          BY <1>1, <2>1, <2>5, <3>1, <3>5
        <4> QED BY <1>1, <2>1, <3>2, <3>7, <4>1, <4>2, <4>3 DEF Answering
      <3>9. main' # "starting" => regs'.din \in been'
        BY <1>1, <1>9, <3>4 DEF OnTime
      <3> QED BY <2>7, <2>8, <2>11, <3>3, <3>8, <3>9 DEF OnTime
    <2> QED BY <2>3, <2>12, <2>13
  <1> QED BY <1>1, <1>5, <1>6, <1>7, <1>8, <1>9 DEF LinkInv

LEMMA LinkStutters == LinkInv /\ UNCHANGED vars => LinkInv'
  <1> SUFFICES ASSUME LinkInv, UNCHANGED vars PROVE LinkInv'
    OBVIOUS
  <1>1. UNCHANGED <<setup, engineVars, netVars, buf, idle, phantom, state, late, regs, main, scan,
                    relay, input, been>>
    BY DEF vars, engineVars, netVars, slaveVars, proxyVars, worldVars
  <1>2. EngineTypes' /\ NetTypes' /\ ProxyTypes' /\ Engaged'
    BY <1>1, EngineStays, EngagedStays DEF LinkInv, ProxyTypes
  <1>3. OnTime => OnTime'
    <2> SUFFICES ASSUME OnTime PROVE OnTime'
      OBVIOUS
    <2>1. been \subseteq been' /\ (main' # "starting" => regs'.din \in been')
      BY <1>1 DEF OnTime
    <2> QED BY <1>1, <2>1, OnTimeStays DEF engineVars, netVars
  <1> QED BY <1>1, <1>2, <1>3 DEF LinkInv

LEMMA LinkNext == LinkInv /\ [Next]_vars => LinkInv'
  <1> SUFFICES ASSUME LinkInv, [Next]_vars PROVE LinkInv'
    OBVIOUS
  <1>1. CASE Connect
    BY <1>1, ConnectStep
  <1>2. CASE AskToRead \/ AskToWrite
    BY <1>2, AskStep
  <1>3. CASE Answer
    BY <1>3, AnswerStep
  <1>4. CASE TimesOut
    BY <1>4, TimesOutStep
  <1>5. CASE \E d \in DOMAIN Devices : Write(d)
    BY <1>5, WriteStep
  <1>6. CASE \E c \in Conns : Serve(c)
    BY <1>6, ServeStep
  <1>7. CASE \E c \in Conns : Arrive(c)
    BY <1>7, ArriveStep
  <1>8. CASE Break
    BY <1>8, BreakStep
  <1>9. CASE Tick
    BY <1>9, TickStep
  <1>10. CASE Proxy \/ MainDies
    BY <1>10, ProxyStep DEF Proxy
  <1>11. CASE Toggle
    BY <1>11, ToggleStep
  <1>12. CASE UNCHANGED vars
    BY <1>12, LinkStutters
  <1> QED BY <1>1, <1>2, <1>3, <1>4, <1>5, <1>6, <1>7, <1>8, <1>9, <1>10, <1>11, <1>12
          DEF Next, Engine

\* Every variable keeps its type, whatever bytes reach a slave: its buffer never fills, what
\* it writes are registers, and the loop always stands at a device.
THEOREM LinkTyped == Spec => []TypeOK
  <1>1. Init => LinkInv
    BY LinkInit
  <1>2. LinkInv /\ [Next]_vars => LinkInv'
    BY LinkNext
  <1>3. LinkInv => TypeOK
    <2> SUFFICES ASSUME LinkInv PROVE TypeOK
      OBVIOUS
    <2>1. failed \in 0..Len(Devices) - 1
      BY DevicesAre DEF LinkInv, EngineTypes
    <2>2. \A d \in DOMAIN Devices :
            {data[d], want[d]} \subseteq {None} \cup [1..Devices[d].count -> BOOLEAN]
      BY DEF LinkInv, EngineTypes, BitsTyped
    <2> QED BY <2>1, <2>2 DEF LinkInv, EngineTypes, NetTypes, ProxyTypes, TypeOK
  <1> QED BY <1>1, <1>2, <1>3, PTL DEF Spec

LEMMA LinkIsExact == LinkInv => ExactUntilLate
  <1> SUFFICES ASSUME LinkInv, ~late PROVE NoPhantom /\ InputsAreReal
    BY DEF ExactUntilLate
  <1>1. ~phantom /\ Real
    BY DEF LinkInv, OnTime
  <1>2. ASSUME NEW d \in DOMAIN Devices, Devices[d].type = "DISCRETE_INPUT", data[d] # None
        PROVE  \E v \in been : Shows(d, d, v)
    <2>1. PICK v \in been : Shown(Devices[d], data[d], v)
      BY <1>1, <1>2 DEF Real
    <2>2. \A i \in 1..Devices[d].count : i <= Devices[d].count
      BY DevicesAre DEF LinkInv, EngineTypes, DeviceSet
    <2> QED BY <2>1, <2>2 DEF Shown, Shows
  <1>3. InputsAreReal
    BY <1>2 DEF InputsAreReal
  <1> QED BY <1>1, <1>3 DEF NoPhantom

\* However queries and answers are cut and connections break, as long as the master gave up
\* no query while bytes of it were under way, no slave obeys a frame that was not asked, and
\* the inputs the engine has are those that were on their own wires.
THEOREM LinkExact == Spec => []ExactUntilLate
  <1>1. Init => LinkInv
    BY LinkInit
  <1>2. LinkInv /\ [Next]_vars => LinkInv'
    BY LinkNext
  <1>3. LinkInv => ExactUntilLate
    BY LinkIsExact
  <1> QED BY <1>1, <1>2, <1>3, PTL DEF Spec

-----------------------------------------------------------------------------
(* A network that does not cut. *)

LEMMA InTwo ==
  ASSUME NEW s \in Ready, NEW a \in Frame, NEW b \in Frame
  PROVE  Received(s, a \o b) = Received(Received(s, a), b)
  <1>1. PICK ab : ab = a \o b
    OBVIOUS
  <1>2. /\ ab \in Frame /\ Len(ab) = Len(a) + Len(b) /\ Len(a) \in Nat /\ Len(b) \in Nat
        /\ \A i \in 1..Len(a) : ab[i] = a[i]
        /\ \A i \in 1..Len(b) : ab[Len(a) + i] = b[i]
    <2>1. /\ a \o b \in Frame /\ Len(a \o b) = Len(a) + Len(b)
          /\ \A i \in 1..Len(a) : (a \o b)[i] = a[i]
          /\ \A i \in 1..Len(b) : (a \o b)[Len(a) + i] = b[i]
      BY Joined, Zenon
    <2>2. Len(a) \in Nat /\ Len(b) \in Nat
      BY FrameElements
    <2> QED BY <1>1, <2>1, <2>2
  <1>3. PICK g \in [0..Len(ab) -> Ready] :
          /\ g[0] = s /\ g[Len(ab)] = Received(s, ab)
          /\ \A i \in 1..Len(ab) : g[i] = Uart_CharReceived(g[i - 1], ab[i])
    BY <1>2, OneByOne
  <1>4. PICK ga \in [0..Len(a) -> Ready] :
          /\ ga[0] = s /\ ga[Len(a)] = Received(s, a)
          /\ \A i \in 1..Len(a) : ga[i] = Uart_CharReceived(ga[i - 1], a[i])
    BY OneByOne
  <1>5. g[Len(a)] = Received(s, a)
    <2> DEFINE S == {i \in 0..Len(a) : g[i] = ga[i]}
    <2>1. 0 \in S
      BY <1>2, <1>3, <1>4
    <2>2. ASSUME NEW i \in 1..Len(a), i - 1 \in S PROVE i \in S
      <3>1. i \in 1..Len(ab) /\ g[i - 1] = ga[i - 1] /\ i \in 0..Len(a)
        BY <1>2, <2>2
      <3>2. g[i] = Uart_CharReceived(g[i - 1], ab[i]) /\ ga[i] = Uart_CharReceived(ga[i - 1], a[i])
        BY <1>3, <1>4, <3>1
      <3>3. ab[i] = a[i]
        BY <1>2
      <3> QED BY <3>1, <3>2, <3>3
    <2> HIDE DEF S
    <2>3. 0..Len(a) \subseteq S
      BY <1>2, <2>1, <2>2, Along
    <2>4. Len(a) \in S
      <3>1. Len(a) \in 0..Len(a)
        BY <1>2
      <3> QED BY <2>3, <3>1, Zenon
    <2> QED BY <1>4, <2>4 DEF S
  <1>6. PICK t \in Ready : t = Received(s, a)
    BY ReceivedType
  <1>7. PICK gb \in [0..Len(b) -> Ready] :
          /\ gb[0] = t /\ gb[Len(b)] = Received(t, b)
          /\ \A i \in 1..Len(b) : gb[i] = Uart_CharReceived(gb[i - 1], b[i])
    BY OneByOne
  <1>8. g[Len(a) + Len(b)] = Received(t, b)
    <2> DEFINE S == {i \in 0..Len(b) : g[Len(a) + i] = gb[i]}
    <2>1. 0 \in S
      <3>1. Len(a) + 0 = Len(a) /\ 0 \in 0..Len(b)
        BY <1>2
      <3> QED BY <1>5, <1>6, <1>7, <3>1
    <2>2. ASSUME NEW i \in 1..Len(b), i - 1 \in S PROVE i \in S
      <3>1. /\ Len(a) + i \in 1..Len(ab) /\ (Len(a) + i) - 1 = Len(a) + (i - 1)
            /\ g[Len(a) + (i - 1)] = gb[i - 1] /\ i \in 0..Len(b)
        BY <1>2, <2>2
      <3>2. /\ g[Len(a) + i] = Uart_CharReceived(g[(Len(a) + i) - 1], ab[Len(a) + i])
            /\ gb[i] = Uart_CharReceived(gb[i - 1], b[i])
        BY <1>3, <1>7, <3>1
      <3>3. ab[Len(a) + i] = b[i]
        BY <1>2
      <3> QED BY <3>1, <3>2, <3>3
    <2> HIDE DEF S
    <2>3. 0..Len(b) \subseteq S
      BY <1>2, <2>1, <2>2, Along
    <2>4. g[Len(a) + Len(b)] = gb[Len(b)]
      <3>1. Len(b) \in 0..Len(b)
        BY <1>2
      <3>2. Len(b) \in S
        BY <2>3, <3>1, Zenon
      <3> QED BY <3>2 DEF S
    <2> QED BY <1>7, <2>4
  <1> QED BY <1>1, <1>2, <1>3, <1>6, <1>8

\* Bytes begin with a whole reply that shows the inputs of d, when the wires had v.
HasInputs(bytes, d, v) ==
  /\ d \in DeviceSet /\ d.type = "DISCRETE_INPUT"
  /\ Len(bytes) >= 5 + BytesOf(d.count) /\ bytes[3] = BytesOf(d.count)
  /\ ShowsBits(bytes, d.start, d.count, v)

\* Bytes for the master begin with a reply.  Where that is one to a query for inputs, it
\* shows those of some device, when the wires had one of B.
StartsTrue(bytes, B) ==
  /\ bytes \in Frame
  /\ bytes # None => Len(bytes) >= 5
  /\ bytes # None /\ bytes[2] = 2 =>
       \E e \in DOMAIN Devices, v \in B : HasInputs(bytes, Devices[e], v)

\* A query for a device.
AsksFor(q) ==
  /\ q \in Asked /\ IsQuery(q) /\ UInt16(q, 5) \in 1..32
  /\ q[2] = 2 => \E e \in DOMAIN Devices :
                   /\ Devices[e] \in DeviceSet /\ Devices[e].type = "DISCRETE_INPUT"
                   /\ UInt16(q, 3) = Devices[e].start /\ UInt16(q, 5) = Devices[e].count

LEMMA HasInputsLonger ==
  ASSUME NEW a \in Frame, NEW ab, Len(ab) \in Nat, Len(ab) >= Len(a), \A i \in 1..Len(a) : ab[i] = a[i],
         NEW d, NEW v, HasInputs(a, d, v)
  PROVE  HasInputs(ab, d, v)
  <1>1. d \in DeviceSet /\ d.count \in 1..32 /\ Len(a) \in Nat
    BY FrameElements DEF HasInputs, DeviceSet
  <1>2. PICK n \in 1..4 : n = BytesOf(d.count) /\ Len(a) >= 5 + n /\ a[3] = n
    BY <1>1, BytesAre DEF HasInputs
  <1>3. Len(ab) >= 5 + n /\ ab[3] = n
    BY <1>1, <1>2
  <1>4. ASSUME NEW i \in 0..8 * n - 1 PROVE ab[4 + i \div 8] = a[4 + i \div 8]
    <2>1. i \div 8 \in Nat /\ i % 8 \in 0..7 /\ i = 8 * (i \div 8) + (i % 8)
      BY BitOfBytes
    <2>2. PICK k \in Nat, j \in 0..7 : k = i \div 8 /\ i = 8 * k + j
      BY <2>1
    <2>3. k <= n - 1
      BY <2>2
    <2>4. 4 + k \in 1..Len(a)
      <3>1. PICK l \in Nat : l = Len(a) /\ l >= 5 + n
        BY <1>1, <1>2
      <3>2. 4 + k \in 1..l
        BY <2>3, <3>1
      <3> QED BY <3>1, <3>2
    <2> QED BY <2>2, <2>4
  <1>5. ShowsBits(ab, d.start, d.count, v)
    BY <1>2, <1>4 DEF HasInputs, ShowsBits
  <1> QED BY <1>2, <1>3, <1>5 DEF HasInputs

LEMMA NothingIsTrue == \A B : StartsTrue(None, B)
  BY NoBytes DEF StartsTrue

LEMMA JoinedIsTrue ==
  ASSUME NEW B, NEW a, StartsTrue(a, B), NEW b, StartsTrue(b, B)
  PROVE  StartsTrue(a \o b, B)
  <1>1. a \in Frame /\ b \in Frame /\ Len(a) \in Nat /\ Len(b) \in Nat
    BY FrameElements DEF StartsTrue
  <1>2. CASE a = None
    <2>1. a \o b = b
      BY <1>1, <1>2, ConcatEmptySeq DEF Frame, None
    <2> QED BY <2>1
  <1>3. CASE a # None
    <2>1. Len(a) >= 5
      BY <1>3 DEF StartsTrue
    <2>2. PICK ab : ab = a \o b
      OBVIOUS
    <2>3. ab \in Frame /\ Len(ab) = Len(a) + Len(b) /\ \A i \in 1..Len(a) : ab[i] = a[i]
      BY <1>1, <2>2, Joined
    <2>4. Len(ab) \in Nat /\ Len(ab) >= Len(a) /\ Len(ab) >= 5 /\ ab[2] = a[2]
      BY <1>1, <2>1, <2>3
    <2>5. \A d, v : HasInputs(a, d, v) => HasInputs(ab, d, v)
      BY <1>1, <2>3, <2>4, HasInputsLonger
    <2>6. StartsTrue(ab, B)
      BY <1>3, <2>3, <2>4, <2>5 DEF StartsTrue
    <2> QED BY <2>2, <2>6
  <1> QED BY <1>2, <1>3

LEMMA ReplyIsTrue ==
  ASSUME NEW q, AsksFor(q), NEW r \in Registers, NEW B, r.din \in B
  PROVE  StartsTrue(Reply(r, q), B)
  <1>1. PICK reply : reply = Reply(r, q)
    OBVIOUS
  <1>2. IsQuery(q) /\ UInt16(q, 5) \in 1..32
    BY DEF AsksFor
  <1>3. /\ reply \in Frame /\ Len(reply) >= 5
        /\ reply[2] = 2 => q[2] = 2 /\ Complete(reply, UInt16(q, 3), UInt16(q, 5), r.din)
    BY <1>1, <1>2, Answers
  <1>4. ASSUME reply[2] = 2
        PROVE  \E e \in DOMAIN Devices, v \in B : HasInputs(reply, Devices[e], v)
    <2>1. q[2] = 2 /\ Complete(reply, UInt16(q, 3), UInt16(q, 5), r.din)
      BY <1>3, <1>4
    <2>2. PICK e \in DOMAIN Devices :
            /\ Devices[e] \in DeviceSet /\ Devices[e].type = "DISCRETE_INPUT"
            /\ UInt16(q, 3) = Devices[e].start /\ UInt16(q, 5) = Devices[e].count
      BY <2>1 DEF AsksFor
    <2>3. Complete(reply, Devices[e].start, Devices[e].count, r.din)
      BY <2>1, <2>2
    <2>4. Len(reply) >= 5 + BytesOf(Devices[e].count)
      <3>1. PICK n \in 1..4 : n = BytesOf(Devices[e].count)
        BY <2>2, BytesAre DEF DeviceSet
      <3> QED BY <2>3, <3>1 DEF Complete
    <2>5. HasInputs(reply, Devices[e], r.din)
      BY <2>2, <2>3, <2>4 DEF HasInputs, Complete
    <2> QED BY <2>5
  <1>5. StartsTrue(reply, B)
    BY <1>3, <1>4 DEF StartsTrue
  <1> QED BY <1>1, <1>5

LEMMA TrueStaysTrue ==
  ASSUME setup' = setup, NEW B, NEW C, B \subseteq C, NEW bytes, StartsTrue(bytes, B)
  PROVE  StartsTrue(bytes, C)'
  <1>1. Devices' = Devices
    BY DEF Devices
  <1> QED BY <1>1 DEF StartsTrue

\* A slave that has obeyed what was asked, has nothing left, and has answered what is true.
Clean(s, B) ==
  /\ s \in Ready /\ s.buf = None
  /\ \A i \in DOMAIN s.done : s.done[i] \in Asked
  /\ s.regs.din \in B /\ StartsTrue(s.out, B)

\* Bytes that are whole queries: a slave that had nothing left has nothing left after them.
WholeQueries(bytes) ==
  /\ bytes \in Frame
  /\ \A B, s : Clean(s, B) => Clean(Received(s, bytes), B)

LEMMA NothingReceived == WholeQueries(None)
  <1>1. ASSUME NEW s \in Ready PROVE Received(s, None) = s
    <2>1. None \in Frame /\ Len(None) = 0
      BY NoBytes
    <2>2. \E g \in [0..Len(None) -> Ready] : g[0] = s /\ g[Len(None)] = Received(s, None)
      <3>1. \E g \in [0..Len(None) -> Ready] :
              /\ g[0] = s /\ g[Len(None)] = Received(s, None)
              /\ \A i \in 1..Len(None) : g[i] = Uart_CharReceived(g[i - 1], None[i])
        BY <2>1, OneByOne, Zenon
      <3> QED BY <3>1, Zenon
    <2> QED BY <2>1, <2>2, Zenon
  <1>2. ASSUME NEW B, NEW s, Clean(s, B) PROVE Clean(Received(s, None), B)
    <2>1. s \in Ready
      BY <1>2 DEF Clean
    <2>2. Received(s, None) = s
      BY <1>1, <2>1
    <2> QED BY <1>2, <2>2
  <1>3. None \in Frame
    BY NoBytes
  <1> QED BY <1>2, <1>3 DEF WholeQueries

LEMMA AnotherQuery ==
  ASSUME NEW bytes, WholeQueries(bytes), NEW q, AsksFor(q)
  PROVE  WholeQueries(bytes \o q)
  <1>0. q \in Asked /\ IsQuery(q)
    BY DEF AsksFor
  <1>1. bytes \in Frame /\ q \in Frame /\ Len(q) \in Nat /\ Len(q) >= 8
    BY <1>0, QueryLength DEF WholeQueries
  <1>2. bytes \o q \in Frame
    BY <1>1, Joined
  <1>3. ASSUME NEW B, NEW s, Clean(s, B) PROVE Clean(Received(s, bytes \o q), B)
    <2>1. PICK t : t = Received(s, bytes)
      OBVIOUS
    <2>2. Clean(t, B) /\ t \in Ready /\ t \in Slave /\ t.buf = None /\ s \in Ready
      BY <1>3, <2>1 DEF WholeQueries, Clean, Ready
    <2>3. Received(s, bytes \o q) = Received(t, q)
      BY <1>1, <2>1, <2>2, InTwo
    <2>4. Received(t, q) = After(q, t, Len(q))
      <3>1. 0 \in 0..Len(q) - 1 /\ Len(q) \in 1..Len(q) - 0 /\ 0 + Len(q) = Len(q) /\ 0 + 1 = 1
        BY <1>1
      <3>2. Received(Holding(SubSeq(q, 1, 0), t), SubSeq(q, 0 + 1, 0 + Len(q))) = After(q, t, 0 + Len(q))
        BY <1>0, <2>2, <3>1, MoreOfQuery
      <3>3. SubSeq(q, 1, 0) = None /\ SubSeq(q, 1, Len(q)) = q
        BY <1>1, Whole
      <3>4. Holding(None, t) = t
        BY <2>2 DEF Holding, Slave
      <3> QED BY <3>1, <3>2, <3>3, <3>4
    <2>5. PICK u : u = After(q, t, Len(q))
      OBVIOUS
    <2>6. u \in Ready
      BY <1>1, <2>2, <2>4, <2>5, ReceivedType
    <2>7. /\ u.buf = None /\ u.done = Append(t.done, q)
          /\ u.regs = Written(t.regs, q) /\ u.out = t.out \o Reply(t.regs, q)
      <3>1. PICK out, done, r :
              out = t.out \o Reply(t.regs, q) /\ done = Append(t.done, q) /\ r = Written(t.regs, q)
        OBVIOUS
      <3>2. u = [buf |-> None, regs |-> r, out |-> out, done |-> done]
        BY <1>1, <2>5, <3>1 DEF After
      <3>3. u.buf = None /\ u.regs = r /\ u.out = out /\ u.done = done
        BY <3>2
      <3> QED BY <3>1, <3>3
    <2>8. \A i \in DOMAIN u.done : u.done[i] \in Asked
      <3>1. t.done \in Seq(Frame) /\ Len(t.done) \in Nat /\ DOMAIN t.done = 1..Len(t.done)
        BY <2>2, LenProperties DEF Slave
      <3>2. /\ DOMAIN u.done = 1..Len(t.done) + 1
            /\ \A i \in 1..Len(t.done) : u.done[i] = t.done[i]
            /\ u.done[Len(t.done) + 1] = q
        BY <1>1, <2>7, <3>1, AppendProperties
      <3>3. \A i \in 1..Len(t.done) : t.done[i] \in Asked
        BY <2>2, <3>1 DEF Clean
      <3> QED BY <1>0, <3>1, <3>2, <3>3
    <2>9. t.regs \in Registers /\ t.regs.din \in B /\ StartsTrue(t.out, B)
      BY <2>2 DEF Slave, Clean
    <2>10. u.regs.din \in B
      BY <2>7, <2>9, WrittenType
    <2>11. StartsTrue(u.out, B)
      <3>1. StartsTrue(Reply(t.regs, q), B)
        BY <2>9, ReplyIsTrue
      <3>2. StartsTrue(t.out \o Reply(t.regs, q), B)
        BY <2>9, <3>1, JoinedIsTrue
      <3> QED BY <2>7, <3>2
    <2> QED BY <2>3, <2>4, <2>5, <2>6, <2>7, <2>8, <2>10, <2>11 DEF Clean
  <1> QED BY <1>2, <1>3 DEF WholeQueries

Uncut ==
  setup.cuts = 0 =>
    /\ cuts = 0 /\ ~phantom
    /\ main = "starting" => \A c \in Conns : up[c] = None
    /\ main # "starting" => regs.din \in been
    /\ \A c \in Conns : buf[c] = None /\ WholeQueries(up[c])

LEMMA UncutInit == Init => Uncut
  <1> SUFFICES ASSUME Init PROVE Uncut
    OBVIOUS
  <1>1. /\ setup.cuts = cuts /\ ~phantom /\ main = "starting"
        /\ \A c \in Conns : buf[c] = None /\ up[c] = None
    BY DEF Init
  <1> QED BY <1>1, NothingReceived DEF Uncut

LEMMA WholeQueriesStay ==
  ASSUME UNCHANGED setup, NEW c, NEW bytes, WholeQueries(bytes), up'[c] = bytes
  PROVE  WholeQueries(up[c])'
  <1>1. Asked' = Asked /\ Devices' = Devices
    BY DEF Asked, Devices
  <1>2. bytes \in Frame /\ \A B, s : Clean(s, B) => Clean(Received(s, bytes), B)
    BY DEF WholeQueries
  <1>3. ASSUME NEW B, NEW s, Clean(s, B)' PROVE Clean(Received(s, up[c]), B)'
    <2>1. PICK t : t = Received(s, bytes)
      OBVIOUS
    <2>2. Clean(s, B)
      BY <1>1, <1>3 DEF Clean, StartsTrue
    <2>3. Clean(t, B)
      BY <1>2, <2>1, <2>2
    <2>4. Received(s, up'[c]) = t
      BY <2>1
    <2> QED BY <1>1, <2>3, <2>4 DEF Clean, StartsTrue
  <1> QED BY <1>2, <1>3 DEF WholeQueries

\* A step that sends nothing to a slave, has none obey, and keeps the buffers.
LEMMA UncutStays ==
  ASSUME LinkInv, Uncut, setup' = setup, cuts = 0 => cuts' = 0, phantom' = phantom,
         \A c \in Conns : buf'[c] \in {None, buf[c]} /\ up'[c] = up[c],
         main' = "starting" => main = "starting",
         main' # "starting" => regs'.din \in been' \/ (main # "starting" /\ regs'.din = regs.din),
         been \subseteq been'
  PROVE  Uncut'
  <1> SUFFICES ASSUME setup.cuts = 0
               PROVE  /\ cuts' = 0 /\ ~phantom'
                      /\ main' = "starting" => \A c \in Conns : up'[c] = None
                      /\ main' # "starting" => regs'.din \in been'
                      /\ \A c \in Conns : buf'[c] = None /\ WholeQueries(up[c])'
    BY DEF Uncut
  <1>1. cuts' = 0 /\ ~phantom' /\ \A c \in Conns : buf'[c] = None
    BY DEF Uncut
  <1>2. ASSUME NEW c \in Conns PROVE WholeQueries(up[c])'
    <2>1. PICK bytes : bytes = up[c]
      OBVIOUS
    <2>2. WholeQueries(bytes)
      BY <2>1 DEF Uncut
    <2>3. up'[c] = bytes
      BY <2>1
    <2> QED BY <2>2, <2>3, WholeQueriesStay
  <1>3. main' = "starting" => \A c \in Conns : up'[c] = None
    BY DEF Uncut
  <1>4. main' # "starting" => regs'.din \in been'
    BY DEF Uncut
  <1> QED BY <1>1, <1>2, <1>3, <1>4

LEMMA UncutAsk ==
  ASSUME LinkInv, Uncut, AskToRead \/ AskToWrite
  PROVE  Uncut'
  <1>1. /\ UNCHANGED <<setup, cuts, phantom, buf, main, regs, been>>
        /\ conn \in Conns /\ main # "starting"
    <2>1. stage # "pause" \/ conn # 0
      BY DEF AskToRead, AskToWrite
    <2>2. conn # 0
      BY <2>1 DEF LinkInv, Engaged
    <2> QED BY <2>2 DEF AskToRead, AskToWrite, Ask, EngineOnly, slaveVars, proxyVars, worldVars,
                        LinkInv, EngineTypes, Engaged
  <1>2. PICK q, next :
          /\ next \in {"readWait", "writeWait"} /\ Ask(q, next)
          /\ next = "readWait" => q = ReadQuery(Device)
          /\ next = "writeWait" => stage = "write" /\ q = WriteQuery(Device, want[device])
    BY DEF AskToRead, AskToWrite
  <1>3. Device \in DeviceSet /\ device \in DOMAIN Devices /\ Device = Devices[device]
    BY DevicesAre DEF LinkInv, EngineTypes, Device
  <1>4. q \in Asked
    <2>1. CASE next = "readWait"
      BY <1>2, <1>3, <2>1 DEF Asked
    <2>2. CASE next = "writeWait"
      <3>1. Device.type = "COIL" /\ want[device] \in [1..Device.count -> BOOLEAN]
        BY <1>2, <1>3, <2>2 DEF LinkInv, Engaged, EngineTypes, BitsTyped
      <3>2. PICK b \in [1..Device.count -> BOOLEAN] : q = WriteQuery(Device, b)
        BY <1>2, <2>2, <3>1
      <3> QED BY <1>3, <3>1, <3>2 DEF Asked
    <2> QED BY <1>2, <2>1, <2>2
  <1>5. AsksFor(q)
    <2>1. IsQuery(q) /\ UInt16(q, 3) = Device.start /\ UInt16(q, 5) = Device.count
      BY <1>2, <1>3, ReadQueryIs, WriteQueryIs
    <2>2. q[2] = 2 => Device.type = "DISCRETE_INPUT"
      <3>1. CASE next = "readWait"
        <4>1. q[2] = IF Device.type = "COIL" THEN 1 ELSE 2
          BY <1>2, <1>3, <3>1, ReadQueryIs
        <4> QED BY <1>3, <4>1 DEF DeviceSet
      <3>2. CASE next = "writeWait"
        <4>1. q[2] = 15
          BY <1>2, <1>3, <3>2, WriteQueryIs
        <4> QED BY <4>1
      <3> QED BY <1>2, <3>1, <3>2
    <2>3. UInt16(q, 5) \in 1..32
      BY <1>3, <2>1 DEF DeviceSet
    <2> QED BY <1>3, <1>4, <2>1, <2>2, <2>3 DEF AsksFor
  <1>6. CASE up' = up
    BY <1>1, <1>6, UncutStays
  <1>7. CASE up' = [up EXCEPT ![conn] = @ \o q]
    <2> SUFFICES ASSUME setup.cuts = 0
                 PROVE  /\ cuts' = 0 /\ ~phantom' /\ main' # "starting" /\ regs'.din \in been'
                        /\ \A c \in Conns : buf'[c] = None /\ WholeQueries(up[c])'
      BY <1>1 DEF Uncut
    <2>1. /\ cuts' = 0 /\ ~phantom' /\ \A c \in Conns : buf'[c] = None
          /\ main' # "starting" /\ regs'.din \in been'
      BY <1>1 DEF Uncut
    <2>2. ASSUME NEW c \in Conns PROVE WholeQueries(up[c])'
      <3>1. WholeQueries(up[c])
        BY DEF Uncut
      <3>2. WholeQueries(up[c] \o q)
        BY <1>5, <3>1, AnotherQuery
      <3>3. PICK bytes : bytes = IF c = conn THEN up[c] \o q ELSE up[c]
        OBVIOUS
      <3>4. up'[c] = bytes
        BY <1>1, <1>7, <3>3 DEF LinkInv, NetTypes
      <3>5. WholeQueries(bytes)
        BY <3>1, <3>2, <3>3
      <3> QED BY <1>1, <3>4, <3>5, WholeQueriesStay
    <2> QED BY <2>1, <2>2
  <1>8. up' = up \/ up' = [up EXCEPT ![conn] = @ \o q]
    BY <1>2 DEF Ask
  <1> QED BY <1>6, <1>7, <1>8

\* A slave gets all that is under way to it.
LEMMA ServesWhole ==
  ASSUME LinkInv, Uncut, setup.cuts = 0, NEW c \in Conns, Serve(c)
  PROVE  \E s :
           /\ Clean(s, been) /\ main # "starting" /\ cuts' = 0
           /\ buf' = [buf EXCEPT ![c] = s.buf]
           /\ regs' = s.regs
           /\ phantom' = (phantom \/ \E i \in DOMAIN s.done : s.done[i] \notin Asked)
           /\ down' = IF state[c] = "open" THEN [down EXCEPT ![c] = @ \o s.out] ELSE down
           /\ up' = [up EXCEPT ![c] = None]
  <1>1. /\ cuts = 0 /\ ~phantom /\ \A b \in Conns : buf[b] = None /\ WholeQueries(up[b])
        /\ main = "starting" => up[c] = None
        /\ main # "starting" => regs.din \in been
    BY DEF Uncut
  <1>2. PICK n, s :
          /\ n \in 1..Len(up[c])
          /\ n < Len(up[c]) => cuts > 0
          /\ cuts' = IF n < Len(up[c]) THEN cuts - 1 ELSE cuts
          /\ s = Received(Idle(Kept(c), regs), SubSeq(up[c], 1, n))
          /\ buf' = [buf EXCEPT ![c] = s.buf]
          /\ regs' = s.regs
          /\ phantom' = (phantom \/ \E i \in DOMAIN s.done : s.done[i] \notin Asked)
          /\ down' = IF state[c] = "open" THEN [down EXCEPT ![c] = @ \o s.out] ELSE down
          /\ up' = [up EXCEPT ![c] = SubSeq(@, n + 1, Len(@))]
    BY DEF Serve, Idle
  <1>3. up[c] \in Frame /\ Len(up[c]) \in Nat
    BY FrameElements DEF LinkInv, NetTypes
  <1>4. n = Len(up[c]) /\ cuts' = 0
    BY <1>1, <1>2, <1>3
  <1>5. SubSeq(up[c], 1, n) = up[c] /\ SubSeq(up[c], n + 1, Len(up[c])) = None
    BY <1>3, <1>4, Whole
  <1>6. main # "starting" /\ regs.din \in been
    BY <1>1 DEF Serve
  <1>7. Clean(Idle(Kept(c), regs), been)
    <2>1. Kept(c) = None /\ regs \in Registers /\ None \in Frame
      BY <1>1, NoBytes DEF Kept, LinkInv, ProxyTypes
    <2>2. PICK i : i = Idle(None, regs)
      OBVIOUS
    <2>3. i \in Slave /\ i.buf = None /\ i.done = None /\ i.out = None /\ i.regs = regs
      BY <2>1, <2>2, IdleIsSlave DEF Idle
    <2>4. i \in Ready /\ DOMAIN i.done = {}
      BY <2>3, NoBytes, Bounds DEF Ready, None
    <2> QED BY <1>6, <2>1, <2>2, <2>3, <2>4, NothingIsTrue DEF Clean
  <1>8. Clean(s, been)
    <2>1. s = Received(Idle(Kept(c), regs), up[c])
      BY <1>2, <1>5
    <2> QED BY <1>1, <1>7, <2>1 DEF WholeQueries
  <1>9. up' = [up EXCEPT ![c] = None]
    BY <1>2, <1>5
  <1> QED BY <1>2, <1>4, <1>6, <1>8, <1>9

LEMMA UncutServe ==
  ASSUME LinkInv, Uncut, NEW c \in Conns, Serve(c)
  PROVE  Uncut'
  <1>1. UNCHANGED <<setup, main, been>>
    BY DEF Serve, proxyVars
  <1> SUFFICES ASSUME setup.cuts = 0
               PROVE  /\ cuts' = 0 /\ ~phantom' /\ main' # "starting" /\ regs'.din \in been'
                      /\ \A b \in Conns : buf'[b] = None /\ WholeQueries(up[b])'
    BY <1>1 DEF Uncut
  <1>2. cuts = 0 /\ ~phantom /\ \A b \in Conns : buf[b] = None /\ WholeQueries(up[b])
    BY DEF Uncut
  <1>3. PICK s :
          /\ Clean(s, been) /\ main # "starting" /\ cuts' = 0
          /\ buf' = [buf EXCEPT ![c] = s.buf]
          /\ regs' = s.regs
          /\ phantom' = (phantom \/ \E i \in DOMAIN s.done : s.done[i] \notin Asked)
          /\ up' = [up EXCEPT ![c] = None]
    BY ServesWhole
  <1>4. ~phantom' /\ s.buf = None /\ regs'.din \in been
    BY <1>2, <1>3 DEF Clean
  <1>5. ASSUME NEW b \in Conns PROVE buf'[b] = None /\ WholeQueries(up[b])'
    <2>1. PICK bytes : bytes = IF b = c THEN None ELSE up[b]
      OBVIOUS
    <2>2. up'[b] = bytes /\ buf'[b] = None
      BY <1>2, <1>3, <1>4, <2>1 DEF LinkInv, NetTypes
    <2>3. WholeQueries(bytes)
      BY <1>2, <2>1, NothingReceived
    <2> QED BY <1>1, <2>2, <2>3, WholeQueriesStay
  <1> QED BY <1>1, <1>3, <1>4, <1>5

LEMMA UncutNext == LinkInv /\ Uncut /\ [Next]_vars => Uncut'
  <1> SUFFICES ASSUME LinkInv, Uncut, [Next]_vars PROVE Uncut'
    OBVIOUS
  <1>1. CASE Connect
    <2>1. UNCHANGED <<setup, cuts, phantom, up, main, regs, been>>
      BY <1>1 DEF Connect, proxyVars, worldVars
    <2>2. \A c \in Conns : buf'[c] \in {None, buf[c]}
      BY <1>1 DEF Connect, LinkInv, NetTypes
    <2> QED BY <2>1, <2>2, UncutStays
  <1>2. CASE AskToRead \/ AskToWrite
    BY <1>2, UncutAsk
  <1>3. CASE Answer \/ TimesOut
    <2>1. UNCHANGED <<setup, cuts, phantom, up, buf, main, regs, been>>
      BY <1>3 DEF Answer, TimesOut, EngineOnly, slaveVars, proxyVars, worldVars
    <2> QED BY <2>1, UncutStays
  <1>4. CASE (\E d \in DOMAIN Devices : Write(d)) \/ Break \/ Tick \/ Toggle
    <2>1. UNCHANGED <<setup, cuts, phantom, up, buf, main, regs>> /\ been \subseteq been'
      BY <1>4 DEF Write, Break, Tick, Toggle, netVars, slaveVars, proxyVars
    <2> QED BY <2>1, UncutStays
  <1>5. CASE Proxy \/ MainDies
    <2>1. UNCHANGED <<setup, cuts, phantom, up, buf, been>>
      BY <1>5 DEF Proxy, Start, ScanInputs, SetOutput, MainDies, ProxyOnly, netVars, slaveVars,
                  worldVars
    <2>2. main' # "starting"
      BY <1>5 DEF Proxy, Start, ScanInputs, SetOutput, MainDies, LinkInv, ProxyTypes
    <2>3. CASE Start \/ ScanInputs
      <3>1. regs'.din = input /\ input \in been
        BY <2>3 DEF Start, ScanInputs, LinkInv, ProxyTypes, Registers
      <3> QED BY <2>1, <2>2, <3>1, UncutStays
    <2>4. CASE SetOutput \/ MainDies
      <3>1. regs' = regs /\ main # "starting"
        BY <2>4 DEF SetOutput, MainDies
      <3> QED BY <2>1, <2>2, <3>1, UncutStays
    <2> QED BY <1>5, <2>3, <2>4 DEF Proxy
  <1>6. CASE \E c \in Conns : Serve(c)
    BY <1>6, UncutServe
  <1>7. CASE \E c \in Conns : Arrive(c)
    <2>1. PICK c \in Conns : Arrive(c)
      BY <1>7
    <2>2. UNCHANGED <<setup, phantom, up, buf, main, regs, been>>
      BY <2>1 DEF Arrive, slaveVars, proxyVars
    <2>3. cuts = 0 => cuts' = 0
      <3>1. PICK n \in 1..Len(down[c]) :
              /\ n < Len(down[c]) => cuts > 0
              /\ cuts' = IF n < Len(down[c]) THEN cuts - 1 ELSE cuts
        BY <2>1 DEF Arrive
      <3> QED BY <3>1
    <2> QED BY <2>2, <2>3, UncutStays
  <1>8. CASE UNCHANGED vars
    <2>1. UNCHANGED <<setup, cuts, phantom, up, buf, main, regs, been>>
      BY <1>8 DEF vars, netVars, slaveVars, proxyVars, worldVars
    <2> QED BY <2>1, UncutStays
  <1> QED BY <1>1, <1>2, <1>3, <1>4, <1>5, <1>6, <1>7, <1>8 DEF Next, Engine

\* Every answer is that to a query for some device, in time or not.
FromSome(d) ==
  Devices[d].type = "DISCRETE_INPUT" /\ data[d] # None =>
    \E e \in DOMAIN Devices, v \in been :
      Devices[e].type = "DISCRETE_INPUT" /\ Shows(d, e, v)

Truthful ==
  setup.cuts = 0 =>
    /\ \A c \in Conns : StartsTrue(down[c], been)
    /\ Waiting => StartsTrue(got, been)
    /\ \A d \in DOMAIN Devices : FromSome(d)

LEMMA TruthfulInit == Init => Truthful
  <1> SUFFICES ASSUME Init PROVE Truthful
    OBVIOUS
  <1>1. (\A c \in Conns : down[c] = None) /\ ~Waiting /\ \A d \in DOMAIN Devices : data[d] = None
    BY DEF Init, Waiting
  <1> QED BY <1>1, NothingIsTrue DEF Truthful, FromSome

LEMMA FromSomeStays ==
  ASSUME setup' = setup, been \subseteq been', NEW d \in DOMAIN Devices, FromSome(d),
         Devices[d].type = "DISCRETE_INPUT" => data'[d] = data[d]
  PROVE  FromSome(d)'
  <1>1. Devices' = Devices
    BY DEF Devices
  <1>2. ASSUME Devices[d].type = "DISCRETE_INPUT"
        PROVE  \A e, v : Shows(d, e, v) => Shows(d, e, v)'
    BY <1>1, <1>2 DEF Shows
  <1> QED BY <1>1, <1>2 DEF FromSome

\* A step with which no answer comes nearer to the engine.
LEMMA TruthfulStays ==
  ASSUME Truthful, setup' = setup, been \subseteq been',
         \A c \in Conns : down'[c] \in {None, down[c]},
         Waiting' => got' = None \/ (Waiting /\ got' = got),
         \A d \in DOMAIN Devices : Devices[d].type = "DISCRETE_INPUT" => data'[d] = data[d]
  PROVE  Truthful'
  <1> SUFFICES ASSUME setup.cuts = 0
               PROVE  /\ \A c \in Conns : StartsTrue(down[c], been)'
                      /\ Waiting' => StartsTrue(got, been)'
                      /\ \A d \in DOMAIN Devices : FromSome(d)'
    BY DEF Truthful, Devices
  <1>1. ASSUME NEW bytes, bytes = None \/ StartsTrue(bytes, been) PROVE StartsTrue(bytes, been)'
    <2>1. StartsTrue(bytes, been)
      BY <1>1, NothingIsTrue
    <2> QED BY <2>1, TrueStaysTrue
  <1>2. \A d \in DOMAIN Devices : FromSome(d)'
    BY FromSomeStays DEF Truthful
  <1> QED BY <1>1, <1>2 DEF Truthful

LEMMA TruthfulServe ==
  ASSUME LinkInv, Uncut, Truthful, NEW c \in Conns, Serve(c)
  PROVE  Truthful'
  <1>1. UNCHANGED <<setup, stage, got, data, been>>
    BY DEF Serve, engineVars
  <1> SUFFICES ASSUME setup.cuts = 0
               PROVE  Truthful'
    BY <1>1 DEF Truthful
  <1>2. PICK s :
          /\ Clean(s, been)
          /\ down' = IF state[c] = "open" THEN [down EXCEPT ![c] = @ \o s.out] ELSE down
    BY ServesWhole
  <1>3. ASSUME NEW b \in Conns PROVE StartsTrue(down[b], been)'
    <2>1. PICK bytes : bytes = down'[b]
      OBVIOUS
    <2>2. StartsTrue(down[c], been) /\ StartsTrue(down[b], been) /\ StartsTrue(s.out, been)
      BY <1>2 DEF Truthful, Clean
    <2>3. StartsTrue(down[c] \o s.out, been)
      BY <2>2, JoinedIsTrue
    <2>4. bytes = down[b] \/ bytes = down[c] \o s.out
      BY <1>2, <2>1 DEF LinkInv, NetTypes
    <2>5. StartsTrue(bytes, been)
      BY <2>2, <2>3, <2>4
    <2>6. StartsTrue(bytes, been)'
      BY <1>1, <2>5, TrueStaysTrue
    <2> QED BY <2>1, <2>6
  <1>4. Waiting' => StartsTrue(got, been)'
    <2>1. PICK bytes : bytes = got
      OBVIOUS
    <2>2. Waiting' => StartsTrue(bytes, been)
      BY <1>1, <2>1 DEF Truthful, Waiting
    <2>3. Waiting' => StartsTrue(bytes, been)'
      BY <1>1, <2>2, TrueStaysTrue
    <2> QED BY <1>1, <2>1, <2>3
  <1>5. \A d \in DOMAIN Devices : FromSome(d)'
    BY <1>1, FromSomeStays DEF Truthful
  <1>6. Devices' = Devices
    BY <1>1 DEF Devices
  <1> QED BY <1>3, <1>4, <1>5, <1>6 DEF Truthful

LEMMA TruthfulArrive ==
  ASSUME LinkInv, Uncut, Truthful, NEW c \in Conns, Arrive(c)
  PROVE  Truthful'
  <1>1. UNCHANGED <<setup, stage, data, been>>
    BY DEF Arrive
  <1> SUFFICES ASSUME setup.cuts = 0
               PROVE  Truthful'
    BY <1>1 DEF Truthful
  <1>2. PICK n :
          /\ n \in 1..Len(down[c])
          /\ n < Len(down[c]) => cuts > 0
          /\ got' = got \o SubSeq(down[c], 1, n)
          /\ down' = [down EXCEPT ![c] = SubSeq(@, n + 1, Len(@))]
    BY DEF Arrive
  <1>3. down[c] \in Frame /\ Len(down[c]) \in Nat /\ cuts = 0
    BY FrameElements DEF LinkInv, NetTypes, Uncut
  <1>4. n = Len(down[c])
    BY <1>2, <1>3
  <1>5. got' = got \o down[c] /\ down' = [down EXCEPT ![c] = None]
    BY <1>2, <1>3, <1>4, Whole
  <1>6. ASSUME NEW b \in Conns PROVE StartsTrue(down[b], been)'
    <2>1. PICK bytes : bytes = down'[b]
      OBVIOUS
    <2>2. bytes = None \/ bytes = down[b]
      BY <1>5, <2>1 DEF LinkInv, NetTypes
    <2>3. StartsTrue(bytes, been)
      BY <2>2, NothingIsTrue DEF Truthful
    <2>4. StartsTrue(bytes, been)'
      BY <1>1, <2>3, TrueStaysTrue
    <2> QED BY <2>1, <2>4
  <1>7. Waiting' => StartsTrue(got, been)'
    <2>1. PICK bytes : bytes = got \o down[c]
      OBVIOUS
    <2>2. Waiting => StartsTrue(bytes, been)
      BY <2>1, JoinedIsTrue DEF Truthful
    <2>3. Waiting => StartsTrue(bytes, been)'
      BY <1>1, <2>2, TrueStaysTrue
    <2> QED BY <1>1, <1>5, <2>1, <2>3 DEF Waiting
  <1>8. \A d \in DOMAIN Devices : FromSome(d)'
    BY <1>1, FromSomeStays DEF Truthful
  <1>9. Devices' = Devices
    BY <1>1 DEF Devices
  <1> QED BY <1>6, <1>7, <1>8, <1>9 DEF Truthful

LEMMA TruthfulAnswer ==
  ASSUME LinkInv, Truthful, Answer
  PROVE  Truthful'
  <1> DEFINE reply == SubSeq(got, 1, Expected)
             bits == BitsOf(reply)
  <1>1. /\ UNCHANGED <<setup, down, been>> /\ ~Waiting' /\ Waiting /\ Len(got) >= Expected
    BY DEF Answer, EngineOnly, worldVars, NextDevice, Waiting
  <1>2. /\ Device \in DeviceSet /\ device \in DOMAIN Devices /\ Device = Devices[device]
        /\ Device.count \in 1..32 /\ BytesOf(Device.count) \in 1..4
        /\ Expected = IF stage = "readWait" THEN 5 + BytesOf(Device.count) ELSE 8
        /\ DOMAIN data = DOMAIN Devices
    BY ExpectedIs DEF LinkInv, EngineTypes, BitsTyped, Device, DeviceSet
  <1>3. \/ UNCHANGED data
        \/ stage = "writeWait" /\ data' = [data EXCEPT ![device] = want[device]]
        \/ stage = "readWait" /\ Accepted(reply) /\ data' = [data EXCEPT ![device] = bits]
    BY DEF Answer, Read, Waiting
  <1> HIDE DEF bits
  <1>4. CASE UNCHANGED data
    BY <1>1, <1>4, TruthfulStays
  <1>5. CASE stage = "writeWait" /\ data' = [data EXCEPT ![device] = want[device]]
    <2>1. Devices[device].type = "COIL"
      BY <1>2, <1>5 DEF LinkInv, Engaged
    <2>2. \A d \in DOMAIN Devices : Devices[d].type = "DISCRETE_INPUT" => data'[d] = data[d]
      BY <1>2, <1>5, <2>1
    <2> QED BY <1>1, <2>2, TruthfulStays
  <1>6. CASE stage = "readWait" /\ Accepted(reply) /\ data' = [data EXCEPT ![device] = bits]
    <2> SUFFICES ASSUME setup.cuts = 0 PROVE Truthful'
      BY <1>1 DEF Truthful
    <2>0. PICK at \in DOMAIN Devices : at = device
      BY <1>2
    <2>1. ASSUME Devices[device].type = "DISCRETE_INPUT"
          PROVE  \E e \in DOMAIN Devices, v \in been :
                   Devices[e].type = "DISCRETE_INPUT" /\ Shows(at, e, v)'
      <3>1. query[2] = 2
        BY <1>1, <1>2, <1>6, <2>1, QueryAsked
      <3>2. PICK n \in 1..4 : n = BytesOf(Device.count) /\ Expected = 5 + n
        BY <1>2, <1>6
      <3>3. got \in Frame /\ Len(got) \in Nat /\ Len(got) >= 5 + n
        BY <1>1, <3>2, FrameElements DEF LinkInv, EngineTypes
      <3>4. \A k \in 1..5 + n : reply[k] = got[k]
        <4>1. 1 \in 1..Len(got) + 1 /\ 5 + n \in 1 - 1..Len(got)
          BY <3>3
        <4> QED BY <3>2, <3>3, <4>1, Leading
      <3>5. got # None /\ got[2] = 2 /\ got[3] = n /\ StartsTrue(got, been)
        <4>1. reply[2] = query[2] /\ reply[3] = Expected - 5
          <5> HIDE DEF reply
          <5> QED BY <1>6 DEF Accepted
        <4>2. got # None
          BY <3>3, NoBytes
        <4>3. StartsTrue(got, been)
          BY <1>1 DEF Truthful
        <4>4. 2 \in 1..5 + n /\ 3 \in 1..5 + n /\ Expected - 5 = n
          BY <3>2
        <4> HIDE DEF reply
        <4> QED BY <3>1, <3>4, <4>1, <4>2, <4>3, <4>4
      <3>6. PICK e \in DOMAIN Devices, v \in been : HasInputs(got, Devices[e], v)
        BY <3>5 DEF StartsTrue
      <3> HIDE DEF reply
      <3>7. ASSUME NEW i \in 1..Devices[device].count
            PROVE  bits[i] <=>
                     /\ i <= Devices[e].count
                     /\ Devices[e].start + i - 1 \in DOMAIN v /\ v[Devices[e].start + i - 1]
        <4>1. /\ Devices[e].count \in 1..32 /\ Devices[e].start \in Nat
              /\ BytesOf(Devices[e].count) = n
          BY <3>5, <3>6, Numbers DEF HasInputs, DeviceSet
        <4>2. i \in 1..8 * n
          BY <1>2, <3>2, BytesAre
        <4>3. bits[i] = IsSet(reply[4 + (i - 1) \div 8], (i - 1) % 8)
          BY <1>2 DEF bits, BitsOf
        <4>4. reply[4 + (i - 1) \div 8] = got[4 + (i - 1) \div 8]
          <5>1. PICK j \in Nat : j = i - 1 /\ j < 8 * n
            BY <4>2
          <5>2. j \div 8 \in Nat /\ j % 8 \in 0..7 /\ j = 8 * (j \div 8) + (j % 8)
            BY BitOfBytes
          <5>3. PICK k \in Nat, b \in 0..7 : k = j \div 8 /\ j = 8 * k + b
            BY <5>2
          <5>4. 4 + k \in 1..5 + n
            BY <5>1, <5>3
          <5> QED BY <3>4, <5>1, <5>3, <5>4
        <4>5. IsSet(got[4 + (i - 1) \div 8], (i - 1) % 8) <=>
                /\ i <= Devices[e].count
                /\ Devices[e].start + i - 1 \in DOMAIN v /\ v[Devices[e].start + i - 1]
          <5>1. PICK first \in Nat, count \in 1..32 : first = Devices[e].start /\ count = Devices[e].count
            BY <4>1
          <5>2. ShowsBits(got, first, count, v)
            BY <3>6, <5>1 DEF HasInputs
          <5>3. i \in 1..8 * BytesOf(count)
            BY <4>1, <4>2, <5>1
          <5>4. IsSet(got[4 + (i - 1) \div 8], (i - 1) % 8) <=>
                  i <= count /\ first + i - 1 \in DOMAIN v /\ v[first + i - 1]
            BY ONLY <5>2, <5>3, BitOfShown
          <5> QED BY <5>1, <5>4
        <4> QED BY <4>3, <4>4, <4>5
      <3>8. data'[at] = bits /\ Devices' = Devices
        BY <1>1, <1>2, <1>6, <2>0 DEF Devices
      <3>9. Shows(at, e, v)'
        BY <2>0, <3>7, <3>8 DEF Shows
      <3>10. Devices[e].type = "DISCRETE_INPUT"
        BY <3>6 DEF HasInputs
      <3> QED BY <3>9, <3>10
    <2>2. Devices' = Devices
      BY <1>1 DEF Devices
    <2>3. FromSome(at)'
      BY <1>1, <2>0, <2>1, <2>2 DEF FromSome
    <2>4. ASSUME NEW d \in DOMAIN Devices, d # at PROVE FromSome(d)'
      <3>1. data'[d] = data[d]
        BY <1>2, <1>6, <2>0, <2>4
      <3> QED BY <1>1, <3>1, FromSomeStays DEF Truthful
    <2>5. \A c \in Conns : StartsTrue(down[c], been)'
      <3>1. \A c \in Conns : StartsTrue(down[c], been)
        BY DEF Truthful
      <3> QED BY <1>1, <2>2, <3>1 DEF StartsTrue
    <2> QED BY <1>1, <2>2, <2>3, <2>4, <2>5 DEF Truthful
  <1> QED BY <1>3, <1>4, <1>5, <1>6

LEMMA TruthfulNext == LinkInv /\ Uncut /\ Truthful /\ [Next]_vars => Truthful'
  <1> SUFFICES ASSUME LinkInv, Uncut, Truthful, [Next]_vars PROVE Truthful'
    OBVIOUS
  <1>1. CASE Connect
    <2>1. UNCHANGED <<setup, data, been>> /\ got' = None /\ \A c \in Conns : down'[c] \in {None, down[c]}
      BY <1>1 DEF Connect, worldVars, LinkInv, NetTypes
    <2> QED BY <2>1, TruthfulStays
  <1>2. CASE AskToRead \/ AskToWrite
    <2>1. UNCHANGED <<setup, data, down, been>> /\ got' = None
      BY <1>2 DEF AskToRead, AskToWrite, Ask, EngineOnly, worldVars
    <2> QED BY <2>1, TruthfulStays
  <1>3. CASE Answer
    BY <1>3, TruthfulAnswer
  <1>4. CASE TimesOut
    <2>1. UNCHANGED <<setup, data, down, been>> /\ got' = None
      BY <1>4 DEF TimesOut, EngineOnly, worldVars
    <2> QED BY <2>1, TruthfulStays
  <1>5. CASE (\E d \in DOMAIN Devices : Write(d)) \/ Toggle \/ UNCHANGED vars
    <2>1. UNCHANGED <<setup, data, down, got, stage>> /\ been \subseteq been'
      BY <1>5 DEF Write, Toggle, vars, engineVars, netVars, worldVars
    <2> QED BY <2>1, TruthfulStays DEF Waiting
  <1>6. CASE Proxy \/ MainDies
    <2>1. UNCHANGED <<setup, data, down, got, stage, been>>
      BY <1>6 DEF Proxy, Start, ScanInputs, SetOutput, MainDies, ProxyOnly, engineVars, netVars,
                  worldVars
    <2> QED BY <2>1, TruthfulStays DEF Waiting
  <1>7. CASE Break
    <2>1. /\ UNCHANGED <<setup, data, got, stage, been>>
          /\ \A c \in Conns : down'[c] \in {None, down[c]}
      BY <1>7 DEF Break, engineVars, LinkInv, NetTypes
    <2> QED BY <2>1, TruthfulStays DEF Waiting
  <1>8. CASE Tick
    <2>1. /\ UNCHANGED <<setup, data, got, down, been>>
          /\ stage' = IF stage = "pause" THEN "read" ELSE stage
      BY <1>8 DEF Tick, netVars
    <2>2. Waiting' => Waiting
      BY <2>1 DEF Waiting
    <2> QED BY <2>1, <2>2, TruthfulStays
  <1>9. CASE \E c \in Conns : Serve(c) \/ Arrive(c)
    BY <1>9, TruthfulServe, TruthfulArrive
  <1> QED BY <1>1, <1>2, <1>3, <1>4, <1>5, <1>6, <1>7, <1>8, <1>9 DEF Next, Engine

LEMMA UncutIsReal == LinkInv /\ Uncut /\ Truthful => (setup.cuts = 0 => NoPhantom /\ InputsAreReal)
  <1> SUFFICES ASSUME LinkInv, Uncut, Truthful, setup.cuts = 0 PROVE NoPhantom /\ InputsAreReal
    OBVIOUS
  <1>1. NoPhantom
    BY DEF Uncut, NoPhantom
  <1>2. CASE ~late
    BY <1>2, LinkIsExact DEF ExactUntilLate
  <1>3. CASE late
    <2>1. ASSUME NEW d \in DOMAIN Devices, Devices[d].type = "DISCRETE_INPUT", data[d] # None
          PROVE  \E e \in DOMAIN Devices, v \in been :
                   /\ e = d \/ (late /\ Devices[e].type = "DISCRETE_INPUT")
                   /\ Shows(d, e, v)
      <3>1. FromSome(d)
        BY DEF Truthful
      <3>2. PICK e \in DOMAIN Devices, v \in been :
              Devices[e].type = "DISCRETE_INPUT" /\ Shows(d, e, v)
        BY <2>1, <3>1 DEF FromSome
      <3> QED BY <1>3, <3>2
    <2> QED BY <1>1, <2>1 DEF InputsAreReal
  <1> QED BY <1>1, <1>2, <1>3

\* However late queries and answers come and however often connections break, as long as
\* the network cuts nothing, no slave obeys a frame that was not asked, and what the engine
\* has for inputs was on the wires of inputs: on their own as long as no answer was given up
\* that was still to come, else maybe on those that a late answer was for.
THEOREM LinkUncut == Spec => [](setup.cuts = 0 => NoPhantom /\ InputsAreReal)
  <1>1. Init => LinkInv /\ Uncut /\ Truthful
    BY LinkInit, UncutInit, TruthfulInit
  <1>2. LinkInv /\ Uncut /\ Truthful /\ [Next]_vars => LinkInv' /\ Uncut' /\ Truthful'
    BY LinkNext, UncutNext, TruthfulNext
  <1>3. LinkInv /\ Uncut /\ Truthful => (setup.cuts = 0 => NoPhantom /\ InputsAreReal)
    BY UncutIsReal
  <1> QED BY <1>1, <1>2, <1>3, PTL DEF Spec

-----------------------------------------------------------------------------
(* A network in which time passes only when nothing is under way. *)

Prompt ==
  setup.delays = 0 =>
    /\ delays = 0 /\ ~late
    /\ Waiting /\ waited > 0 => up[conn] = None /\ down[conn] = None

LEMMA PromptInit == Init => Prompt
  <1> SUFFICES ASSUME Init PROVE Prompt
    OBVIOUS
  <1>1. setup.delays = delays /\ ~late /\ ~Waiting
    BY DEF Init, Waiting
  <1> QED BY <1>1 DEF Prompt

\* A step after which the master does not wait.
LEMMA PromptStays ==
  ASSUME Prompt, UNCHANGED <<setup, delays, late>>, Waiting' => waited' = 0
  PROVE  Prompt'
  BY DEF Prompt

LEMMA PromptNext == LinkInv /\ Prompt /\ [Next]_vars => Prompt'
  <1> SUFFICES ASSUME LinkInv, Prompt, [Next]_vars PROVE Prompt'
    OBVIOUS
  <1>1. CASE Connect
    <2>1. UNCHANGED <<setup, delays, late>> /\ ~Waiting'
      BY <1>1 DEF Connect, worldVars, Waiting
    <2> QED BY <2>1, PromptStays
  <1>2. CASE AskToRead \/ AskToWrite
    <2>1. UNCHANGED <<setup, delays, late>> /\ waited' = 0
      BY <1>2 DEF AskToRead, AskToWrite, Ask, EngineOnly, worldVars
    <2> QED BY <2>1, PromptStays
  <1>3. CASE Answer
    <2>1. UNCHANGED <<setup, delays, late>>
      BY <1>3 DEF Answer, EngineOnly, worldVars
    <2>2. ~Waiting'
      BY <1>3 DEF Answer, NextDevice, Waiting
    <2> QED BY <2>1, <2>2, PromptStays
  <1>4. CASE TimesOut
    <2>1. setup' = setup /\ delays' = delays /\ stage' = "pause" /\ Waiting /\ waited >= Timeout
          /\ late' = (late \/ up[conn] # None \/ down[conn] # None)
      BY <1>4 DEF TimesOut, EngineOnly, worldVars, NextDevice
    <2>2. waited > 0
      BY <2>1, Bounds DEF LinkInv, EngineTypes
    <2>3. ~Waiting'
      BY <2>1 DEF Waiting
    <2> QED BY <2>1, <2>2, <2>3 DEF Prompt
  <1>5. CASE (\E d \in DOMAIN Devices : Write(d)) \/ Toggle \/ UNCHANGED vars
    <2>1. UNCHANGED <<setup, delays, late, stage, waited, up, down, conn>>
      BY <1>5 DEF Write, Toggle, vars, engineVars, netVars, worldVars
    <2> QED BY <2>1 DEF Prompt, Waiting
  <1>6. CASE Proxy \/ MainDies
    <2>1. UNCHANGED <<setup, delays, late, stage, waited, up, down, conn>>
      BY <1>6 DEF Proxy, Start, ScanInputs, SetOutput, MainDies, ProxyOnly, engineVars, netVars,
                  worldVars
    <2> QED BY <2>1 DEF Prompt, Waiting
  <1>7. CASE Break
    <2>1. /\ UNCHANGED <<setup, delays, late, stage, waited, up, conn>>
          /\ down' = [down EXCEPT ![conn] = None] /\ conn # 0
      BY <1>7 DEF Break, engineVars
    <2>2. down'[conn] = None
      BY <2>1 DEF LinkInv, EngineTypes, NetTypes
    <2> QED BY <2>1, <2>2 DEF Prompt, Waiting
  <1>8. ASSUME NEW c \in Conns, Serve(c) PROVE Prompt'
    <2>1. /\ UNCHANGED <<setup, delays, late, stage, waited, conn>> /\ up[c] # None
          /\ \A b \in Conns : b # c => up'[b] = up[b] /\ down'[b] = down[b]
      BY <1>8 DEF Serve, engineVars, LinkInv, NetTypes
    <2>2. Waiting => conn \in Conns
      BY WaitsOn DEF LinkInv
    <2> QED BY <2>1, <2>2 DEF Prompt, Waiting
  <1>9. ASSUME NEW c \in Conns, Arrive(c) PROVE Prompt'
    <2>1. /\ UNCHANGED <<setup, delays, late, stage, waited, conn, up>>
          /\ down[c] # None /\ c = conn
      BY <1>9 DEF Arrive
    <2> QED BY <2>1 DEF Prompt, Waiting
  <1>10. CASE Tick
    <2>1. /\ UNCHANGED <<setup, late, conn, up, down>> /\ (UnderWay => delays > 0)
          /\ delays' = IF UnderWay THEN delays - 1 ELSE delays
          /\ stage' = IF stage = "pause" THEN "read" ELSE stage
      BY <1>10 DEF Tick, netVars
    <2>2. Waiting' => Waiting
      BY <2>1 DEF Waiting
    <2>3. Waiting => conn \in Conns
      BY WaitsOn DEF LinkInv
    <2>4. setup.delays = 0 /\ Waiting => ~UnderWay /\ up[conn] = None /\ down[conn] = None
      BY <2>1, <2>3 DEF Prompt, UnderWay
    <2> QED BY <2>1, <2>2, <2>4 DEF Prompt
  <1> QED BY <1>1, <1>2, <1>3, <1>4, <1>5, <1>6, <1>7, <1>8, <1>9, <1>10 DEF Next, Engine

\* When no time passes over what is under way, however it is cut and connections break, the
\* master gives up no query that a slave still gets or has answered: no frame is obeyed that
\* was not asked, and every input the engine has was on its own wires.
THEOREM LinkPrompt == Spec => [](setup.delays = 0 => ~late /\ NoPhantom /\ InputsAreReal)
  <1>1. Init => LinkInv /\ Prompt
    BY LinkInit, PromptInit
  <1>2. LinkInv /\ Prompt /\ [Next]_vars => LinkInv' /\ Prompt'
    BY LinkNext, PromptNext
  <1>3. LinkInv /\ Prompt => (setup.delays = 0 => ~late /\ NoPhantom /\ InputsAreReal)
    BY LinkIsExact DEF Prompt, ExactUntilLate
  <1> QED BY <1>1, <1>2, <1>3, PTL DEF Spec
=============================================================================
