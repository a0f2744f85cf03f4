----------------------------- MODULE CodecProofs ------------------------------
(***************************************************************************)
(* That what one side writes the other reads, for fields of any width and  *)
(* any values in them, on a little-endian machine.                         *)
(***************************************************************************)
EXTENDS Codec, Integers, SequenceTheorems, WellFoundedInduction, TLAPS

\* Division by the values of a byte.
LEMMA DivMod ==
    ASSUME NEW b \in Nat, b > 1, NEW v \in Nat
    PROVE  /\ v % b \in 0..(b - 1)
           /\ v \div b \in Nat
           /\ v = (v % b) + (v \div b) * b
  OBVIOUS

LEMMA DivLess ==
    ASSUME NEW b \in Nat, b > 1, NEW v \in Nat, NEW n \in Nat, v < b * n
    PROVE  v \div b < n
  <1> DEFINE q == v \div b
             r == v % b
  <1>1. q \in Nat /\ r \in 0..(b - 1) /\ v = r + q * b
    BY DivMod
  <1> HIDE DEF q, r
  <1>2. q >= n => q * b >= n * b
    BY <1>1
  <1>3. q < n
    BY <1>1, <1>2
  <1>4. QED  BY <1>3 DEF q

LEMMA DivUnique ==
    ASSUME NEW b \in Nat, b > 1, NEW v \in Nat, NEW q \in Nat, NEW r \in 0..(b - 1),
           v = r + q * b
    PROVE  v \div b = q /\ v % b = r
  <1> DEFINE p == v \div b
             s == v % b
  <1>1. p \in Nat /\ s \in 0..(b - 1) /\ v = s + p * b
    BY DivMod
  <1> HIDE DEF p, s
  <1>2. p >= q + 1 => p * b >= q * b + b
    BY <1>1
  <1>3. q >= p + 1 => q * b >= p * b + b
    BY <1>1
  <1>4. p = q
    BY <1>1, <1>2, <1>3
  <1>5. s = r
    BY <1>1, <1>4
  <1>6. QED  BY <1>4, <1>5 DEF p, s

\* Shifting twice is shifting by the product.
LEMMA DivDiv ==
    ASSUME NEW a \in Nat, a > 1, NEW b \in Nat, b > 1, NEW v \in Nat
    PROVE  v \div (a * b) = (v \div a) \div b
  <1> DEFINE q == v \div a
             r == v % a
             p == q \div b
             s == q % b
  <1>1. q \in Nat /\ r \in 0..(a - 1) /\ v = r + q * a
    BY DivMod
  <1> HIDE DEF q, r
  <1>2. p \in Nat /\ s \in 0..(b - 1) /\ q = s + p * b
    BY <1>1, DivMod
  <1> HIDE DEF p, s
  <1>3. a * b \in Nat /\ a * b > 1
    BY a * b >= a * 1
  <1>4. q * a = s * a + p * (a * b)
    BY <1>1, <1>2
  <1>5. s * a <= (b - 1) * a
    BY <1>2
  <1>6. (b - 1) * a = a * b - a
    OBVIOUS
  <1>7. r + s * a \in 0..(a * b - 1)
    BY <1>1, <1>2, <1>5, <1>6
  <1>8. v = (r + s * a) + p * (a * b)
    BY <1>1, <1>2, <1>4
  <1> DEFINE d == a * b
             e == r + s * a
  <1>9. d \in Nat /\ d > 1 /\ e \in 0..(d - 1) /\ v = e + p * d /\ p \in Nat
    BY <1>2, <1>3, <1>7, <1>8
  <1> HIDE DEF d, e
  <1>10. v \div d = p
    BY <1>9, DivUnique
  <1>11. QED  BY <1>10 DEF d, p, q
-----------------------------------------------------------------------------
(* Where a field is in a message.                                            *)

\* The bytes t are in s from place first on.
Holds(s, first, t) ==
    /\ first \in Nat \ {0} /\ first + Len(t) - 1 <= Len(s)
    /\ \A i \in 1..Len(t) : s[first + i - 1] = t[i]

LEMMA HoldsFirst ==
    ASSUME NEW s \in Seq(Byte), NEW t \in Seq(Byte)
    PROVE  Holds(s \o t, 1, s)
  <1>1. Len(s) \in Nat /\ Len(t) \in Nat
    OBVIOUS
  <1>2. ASSUME NEW i \in 1..Len(s)
        PROVE  (s \o t)[1 + i - 1] = s[i]
    <2>1. i \in 1..(Len(s) + Len(t)) /\ 1 + i - 1 = i /\ i <= Len(s)
      BY <1>1
    <2>2. QED  BY <2>1, ConcatProperties
  <1>3. Len(s \o t) = Len(s) + Len(t)
    BY ConcatProperties
  <1>4. QED  BY <1>1, <1>2, <1>3 DEF Holds

LEMMA HoldsLast ==
    ASSUME NEW s \in Seq(Byte), NEW t \in Seq(Byte)
    PROVE  Holds(s \o t, Len(s) + 1, t)
  <1>1. Len(s) \in Nat /\ Len(t) \in Nat
    OBVIOUS
  <1>2. ASSUME NEW i \in 1..Len(t)
        PROVE  (s \o t)[Len(s) + 1 + i - 1] = t[i]
    <2> DEFINE j == Len(s) + i
    <2>1. /\ j \in 1..(Len(s) + Len(t)) /\ Len(s) + 1 + i - 1 = j
          /\ ~(j <= Len(s)) /\ j - Len(s) = i
      BY <1>1
    <2> HIDE DEF j
    <2>2. QED  BY <2>1, ConcatProperties
  <1>3. Len(s \o t) = Len(s) + Len(t)
    BY ConcatProperties
  <1>4. QED  BY <1>1, <1>2, <1>3 DEF Holds

\* What is appended moves nothing.
LEMMA HoldsStill ==
    ASSUME NEW s \in Seq(Byte), NEW t \in Seq(Byte), NEW u \in Seq(Byte), NEW first,
           Holds(s, first, u)
    PROVE  Holds(s \o t, first, u)
  <1>1. Len(s) \in Nat /\ Len(t) \in Nat /\ Len(u) \in Nat
    OBVIOUS
  <1>2. first \in Nat \ {0} /\ first + Len(u) - 1 <= Len(s)
    BY DEF Holds
  <1>3. ASSUME NEW i \in 1..Len(u)
        PROVE  (s \o t)[first + i - 1] = u[i]
    <2> DEFINE j == first + i - 1
    <2>1. j \in 1..(Len(s) + Len(t)) /\ j <= Len(s)
      BY <1>1, <1>2
    <2>2. s[j] = u[i]
      BY DEF Holds
    <2> HIDE DEF j
    <2>3. (s \o t)[j] = u[i]
      BY <2>1, <2>2, ConcatProperties
    <2>4. QED  BY <2>3 DEF j
  <1>4. Len(s \o t) = Len(s) + Len(t)
    BY ConcatProperties
  <1>5. QED  BY <1>1, <1>2, <1>3, <1>4 DEF Holds

\* A cut has the length asked for.
LEMMA FromLength ==
    ASSUME NEW s \in Seq(Byte), NEW first \in Nat \ {0}, NEW n \in Nat,
           first + n - 1 <= Len(s)
    PROVE  From(s, first, n) \in Seq(Byte) /\ Len(From(s, first, n)) = n
  <1>1. \A k \in 1..n : first + k - 1 \in 1..Len(s)
    BY Len(s) \in Nat
  <1>2. \A k \in 1..n : s[first + k - 1] \in Byte
    BY <1>1, ElementOfSeq
  <1>3. From(s, first, n) \in [1..n -> Byte]
    BY <1>2 DEF From
  <1>4. QED  BY <1>3

\* Cutting out the length of what is there gives what is there.
LEMMA Cut ==
    ASSUME NEW s \in Seq(Byte), NEW t \in Seq(Byte), NEW first, Holds(s, first, t)
    PROVE  From(s, first, Len(t)) = t
  <1>1. first \in Nat \ {0} /\ Len(t) \in Nat /\ first + Len(t) - 1 <= Len(s)
    BY DEF Holds
  <1>2. From(s, first, Len(t)) \in Seq(Byte) /\ Len(From(s, first, Len(t))) = Len(t)
    BY <1>1, FromLength
  <1>3. \A i \in 1..Len(t) : From(s, first, Len(t))[i] = t[i]
    BY DEF Holds, From
  <1>4. QED  BY <1>2, <1>3, SeqEqual

LEMMA CutWhole ==
    ASSUME NEW s \in Seq(Byte)
    PROVE  From(s, 1, Len(s)) = s
  <1>1. Holds(s, 1, s)
    BY Len(s) \in Nat DEF Holds
  <1>2. QED  BY <1>1, Cut

LEMMA Read16 ==
    ASSUME NEW s \in Seq(Byte), NEW t \in Seq(Byte), Len(t) = 2, NEW first, Holds(s, first, t)
    PROVE  At16(s, first) = At16(t, 1)
  <1>1. first \in Nat /\ s[first + 1 - 1] = t[1] /\ s[first + 2 - 1] = t[2]
    BY DEF Holds
  <1>2. first + 1 - 1 = first /\ first + 2 - 1 = first + 1 /\ 1 + 1 = 2
    BY <1>1
  <1>3. QED  BY <1>1, <1>2 DEF At16

LEMMA Read32 ==
    ASSUME NEW s \in Seq(Byte), NEW t \in Seq(Byte), Len(t) = 4, NEW first, Holds(s, first, t)
    PROVE  At32(s, first) = At32(t, 1)
  <1>1. /\ first \in Nat /\ s[first + 1 - 1] = t[1] /\ s[first + 2 - 1] = t[2]
        /\ s[first + 3 - 1] = t[3] /\ s[first + 4 - 1] = t[4]
    BY DEF Holds
  <1>2. /\ first + 1 - 1 = first /\ first + 2 - 1 = first + 1
        /\ first + 3 - 1 = first + 2 /\ first + 4 - 1 = first + 2 + 1
        /\ 1 + 1 = 2 /\ 1 + 2 = 3 /\ 1 + 2 + 1 = 4
    BY <1>1
  <1>3. QED  BY <1>1, <1>2 DEF At16, At32
-----------------------------------------------------------------------------
(* Numbers of two and of four bytes.                                         *)

\* The two bytes of a number, whoever writes them.
LEMMA TwoBytes ==
    ASSUME NEW v \in 0..(BYTE * BYTE - 1)
    PROVE  /\ v % BYTE \in Byte /\ v \div BYTE \in Byte /\ (v \div BYTE) % BYTE = v \div BYTE
           /\ (v % BYTE) + (v \div BYTE) * BYTE = v
  <1>1. BYTE \in Nat /\ BYTE > 1 /\ v \in Nat /\ v < BYTE * BYTE
    BY CodecConstantsOK
  <1> DEFINE q == v \div BYTE
             r == v % BYTE
  <1>2. q \in Nat /\ r \in 0..(BYTE - 1) /\ v = r + q * BYTE /\ q < BYTE
    BY <1>1, DivMod, DivLess
  <1> HIDE DEF q, r
  <1>3. q % BYTE = q
    BY <1>1, <1>2
  <1>4. QED  BY <1>1, <1>2, <1>3 DEF q, r, Byte

LEMMA Bytes16Read ==
    ASSUME LITTLE_ENDIAN, NEW v \in 0..(BYTE * BYTE - 1)
    PROVE  /\ Bytes16(v) \in Seq(Byte) /\ Len(Bytes16(v)) = 2
           /\ At16(Bytes16(v), 1) = v
  <1>1. Bytes16(v) = <<v % BYTE, v \div BYTE>>
    BY TwoBytes DEF Bytes16, Masked, Little16
  <1>2. QED  BY <1>1, TwoBytes DEF At16

LEMMA ToBytes16Read ==
    ASSUME NEW v \in 0..(BYTE * BYTE - 1)
    PROVE  /\ ToBytes16(v) \in Seq(Byte) /\ Len(ToBytes16(v)) = 2
           /\ At16(ToBytes16(v), 1) = v
  BY TwoBytes DEF ToBytes16, At16

\* The two halves of a number of four bytes.
LEMMA Halves ==
    ASSUME NEW v \in 0..(BYTE * BYTE * BYTE * BYTE - 1)
    PROVE  /\ v % (BYTE * BYTE) \in 0..(BYTE * BYTE - 1)
           /\ v \div (BYTE * BYTE) \in 0..(BYTE * BYTE - 1)
           /\ v = (v % (BYTE * BYTE)) + (v \div (BYTE * BYTE)) * (BYTE * BYTE)
  <1> DEFINE b == BYTE * BYTE
             n == BYTE * BYTE * BYTE * BYTE
  <1>0. BYTE \in Nat /\ BYTE > 1
    BY CodecConstantsOK
  <1>1. b \in Nat /\ b > 1 /\ b * b = n
    BY <1>0, BYTE * BYTE >= BYTE * 1
  <1>2. v \in Nat /\ v < b * b
    <2>1. v \in 0..(n - 1)
      OBVIOUS
    <2> HIDE DEF b, n
    <2>2. QED  BY <1>1, <2>1
  <1> HIDE DEF b, n
  <1>3. v % b \in 0..(b - 1) /\ v \div b \in Nat /\ v = (v % b) + (v \div b) * b
    BY <1>1, <1>2, DivMod
  <1>4. v \div b < b
    BY <1>1, <1>2, DivLess
  <1>5. v \div b \in 0..(b - 1)
    BY <1>1, <1>3, <1>4
  <1>6. QED  BY <1>3, <1>5 DEF b

LEMMA TwoPairs ==
    ASSUME NEW s \in Seq(Byte), NEW t \in Seq(Byte), Len(s) = 2, Len(t) = 2
    PROVE  /\ s \o t \in Seq(Byte) /\ Len(s \o t) = 4
           /\ (s \o t)[1] = s[1] /\ (s \o t)[2] = s[2]
           /\ (s \o t)[3] = t[1] /\ (s \o t)[4] = t[2]
  <1>1. s \o t \in Seq(Byte) /\ Len(s \o t) = 2 + 2
    BY ConcatProperties
  <1> DEFINE u == s \o t
  <1>2. Holds(u, 1, s) /\ Holds(u, 2 + 1, t)
    BY HoldsFirst, HoldsLast
  <1> HIDE DEF u
  <1>3. /\ \A i \in 1..2 : u[1 + i - 1] = s[i]
        /\ \A i \in 1..2 : u[2 + 1 + i - 1] = t[i]
    BY <1>2 DEF Holds
  <1>4. u[1 + 1 - 1] = s[1] /\ u[1 + 2 - 1] = s[2]
    BY <1>3, 1 \in 1..2, 2 \in 1..2
  <1>5. u[2 + 1 + 1 - 1] = t[1] /\ u[2 + 1 + 2 - 1] = t[2]
    BY <1>3, 1 \in 1..2, 2 \in 1..2
  <1>6. u[1] = s[1] /\ u[2] = s[2] /\ u[3] = t[1] /\ u[4] = t[2]
    BY <1>4, <1>5
  <1>7. QED  BY <1>1, <1>6 DEF u

LEMMA FourBytes ==
    ASSUME NEW a \in Byte, NEW b \in Byte, NEW c \in Byte, NEW d \in Byte
    PROVE  <<a, b>> \o <<c, d>> = <<a, b, c, d>>
  <1> DEFINE s == <<a, b>>
             t == <<c, d>>
             u == <<a, b, c, d>>
  <1>1. /\ s \in Seq(Byte) /\ t \in Seq(Byte) /\ Len(s) = 2 /\ Len(t) = 2
        /\ u \in Seq(Byte) /\ Len(u) = 4
        /\ u[1] = s[1] /\ u[2] = s[2] /\ u[3] = t[1] /\ u[4] = t[2]
    OBVIOUS
  <1> HIDE DEF s, t, u
  <1>2. /\ s \o t \in Seq(Byte) /\ Len(s \o t) = 4
        /\ (s \o t)[1] = s[1] /\ (s \o t)[2] = s[2]
        /\ (s \o t)[3] = t[1] /\ (s \o t)[4] = t[2]
    BY <1>1, TwoPairs
  <1>3. \A i \in 1..4 : (s \o t)[i] = u[i]
    BY <1>1, <1>2
  <1>4. s \o t = u
    BY <1>1, <1>2, <1>3, SeqEqual
  <1>5. QED  BY <1>4 DEF s, t, u

LEMMA ToBytes32Read ==
    ASSUME NEW v \in 0..(BYTE * BYTE * BYTE * BYTE - 1)
    PROVE  /\ ToBytes32(v) \in Seq(Byte) /\ Len(ToBytes32(v)) = 4
           /\ At32(ToBytes32(v), 1) = v
  <1> DEFINE b == BYTE * BYTE
             lo == v % b
             hi == v \div b
  <1>1. lo \in 0..(BYTE * BYTE - 1) /\ hi \in 0..(BYTE * BYTE - 1) /\ v = lo + hi * b
    BY Halves
  <1> HIDE DEF lo, hi
  <1>2. ToBytes32(v) = ToBytes16(lo) \o ToBytes16(hi)
    BY DEF ToBytes32, lo, hi
  <1>3. /\ ToBytes16(lo) \in Seq(Byte) /\ Len(ToBytes16(lo)) = 2 /\ At16(ToBytes16(lo), 1) = lo
        /\ ToBytes16(hi) \in Seq(Byte) /\ Len(ToBytes16(hi)) = 2 /\ At16(ToBytes16(hi), 1) = hi
    BY <1>1, ToBytes16Read
  <1> DEFINE s == ToBytes16(lo)
             t == ToBytes16(hi)
             u == s \o t
  <1>4. /\ s \in Seq(Byte) /\ t \in Seq(Byte) /\ Len(s) = 2 /\ Len(t) = 2
        /\ s[1] + s[2] * BYTE = lo /\ t[1] + t[2] * BYTE = hi
    BY <1>3, 1 + 1 = 2 DEF At16
  <1> HIDE DEF s, t
  <1>5. /\ u \in Seq(Byte) /\ Len(u) = 4
        /\ u[1] = s[1] /\ u[2] = s[2] /\ u[3] = t[1] /\ u[4] = t[2]
    BY <1>4, TwoPairs
  <1> HIDE DEF u
  <1>6. At16(u, 1) = lo /\ At16(u, 3) = hi
    BY <1>4, <1>5, 1 + 1 = 2, 3 + 1 = 4 DEF At16
  <1>7. At32(u, 1) = lo + hi * BYTE * BYTE
    BY <1>6, 1 + 2 = 3 DEF At32
  <1>8. hi * BYTE * BYTE = hi * b
    BY <1>1, CodecConstantsOK
  <1>9. QED  BY <1>1, <1>2, <1>5, <1>7, <1>8 DEF s, t, u

\* The client's four shifts give the bytes the server packs.
LEMMA Bytes32Same ==
    ASSUME LITTLE_ENDIAN, NEW v \in 0..(BYTE * BYTE * BYTE * BYTE - 1)
    PROVE  Bytes32(v) = ToBytes32(v)
  <1> DEFINE b == BYTE * BYTE
             lo == v % b
             hi == v \div b
             q == v \div BYTE
  <1>0. BYTE \in Nat /\ BYTE > 1 /\ b \in Nat /\ b > 1 /\ v \in Nat
    BY CodecConstantsOK, BYTE * BYTE >= BYTE * 1, Halves
  <1>1. lo \in 0..(BYTE * BYTE - 1) /\ hi \in 0..(BYTE * BYTE - 1) /\ v = lo + hi * b
    BY Halves
  <1>2. /\ lo % BYTE \in Byte /\ lo \div BYTE \in Byte
        /\ lo = (lo % BYTE) + (lo \div BYTE) * BYTE
        /\ hi % BYTE \in Byte /\ hi \div BYTE \in Byte
        /\ (hi \div BYTE) % BYTE = hi \div BYTE
    BY <1>1, TwoBytes
  <1>3. v % BYTE = lo % BYTE /\ v \div BYTE = (lo \div BYTE) + hi * BYTE
    <2> DEFINE r == lo % BYTE
               m == lo \div BYTE
               p == m + hi * BYTE
    <2>1. r \in 0..(BYTE - 1) /\ m \in Nat /\ lo = r + m * BYTE /\ hi \in Nat
      BY <1>0, <1>1, <1>2 DEF Byte
    <2> HIDE DEF r, m, lo, hi
    <2>2. p * BYTE = m * BYTE + hi * b /\ p \in Nat
      BY <1>0, <2>1
    <2>3. v = r + p * BYTE
      BY <1>0, <1>1, <2>1, <2>2
    <2> HIDE DEF p
    <2>4. v \div BYTE = p /\ v % BYTE = r
      BY <1>0, <2>1, <2>2, <2>3, DivUnique
    <2>5. QED  BY <2>4 DEF p, r, m
  <1>4. (v \div BYTE) % BYTE = lo \div BYTE
    <2> DEFINE m == lo \div BYTE
               w == v \div BYTE
    <2>1. m \in 0..(BYTE - 1) /\ hi \in Nat /\ w = m + hi * BYTE /\ w \in Nat
      BY <1>0, <1>1, <1>2, <1>3 DEF Byte
    <2> HIDE DEF m, w, hi
    <2>2. w % BYTE = m
      BY <1>0, <2>1, DivUnique
    <2>3. QED  BY <2>2 DEF m, w
  <1>5. v \div (BYTE * BYTE * BYTE) = hi \div BYTE
    BY <1>0, DivDiv
  <1>6. Bytes32(v) = <<v % BYTE, (v \div BYTE) % BYTE, hi % BYTE, (hi \div BYTE) % BYTE>>
    BY <1>5 DEF Bytes32, Masked, Little32
  <1>7. ToBytes32(v) = <<lo % BYTE, lo \div BYTE, hi % BYTE, hi \div BYTE>>
    BY <1>2, FourBytes DEF ToBytes32, ToBytes16
  <1>8. QED  BY <1>2, <1>3, <1>4, <1>6, <1>7

LEMMA Bytes32Read ==
    ASSUME LITTLE_ENDIAN, NEW v \in 0..(BYTE * BYTE * BYTE * BYTE - 1)
    PROVE  /\ Bytes32(v) \in Seq(Byte) /\ Len(Bytes32(v)) = 4
           /\ At32(Bytes32(v), 1) = v
  BY Bytes32Same, ToBytes32Read
-----------------------------------------------------------------------------
(* Messages of several fields, each where the ones before it end.            *)

LEMMA TwoFields ==
    ASSUME NEW a \in Seq(Byte), NEW b \in Seq(Byte)
    PROVE  /\ a \o b \in Seq(Byte) /\ Len(a \o b) = Len(a) + Len(b)
           /\ Holds(a \o b, 1, a)
           /\ Holds(a \o b, Len(a) + 1, b)
  BY HoldsFirst, HoldsLast, ConcatProperties

LEMMA ThreeFields ==
    ASSUME NEW a \in Seq(Byte), NEW b \in Seq(Byte), NEW c \in Seq(Byte)
    PROVE  /\ a \o b \o c \in Seq(Byte) /\ Len(a \o b \o c) = Len(a) + Len(b) + Len(c)
           /\ Holds(a \o b \o c, 1, a)
           /\ Holds(a \o b \o c, Len(a) + 1, b)
           /\ Holds(a \o b \o c, Len(a) + Len(b) + 1, c)
  <1> DEFINE s == a \o b
  <1>1. /\ s \in Seq(Byte) /\ Len(s) = Len(a) + Len(b)
        /\ Holds(s, 1, a) /\ Holds(s, Len(a) + 1, b)
    BY TwoFields
  <1> HIDE DEF s
  <1>2. Holds(s \o c, 1, a) /\ Holds(s \o c, Len(a) + 1, b)
    BY <1>1, HoldsStill
  <1>3. s \o c \in Seq(Byte) /\ Len(s \o c) = Len(s) + Len(c) /\ Holds(s \o c, Len(s) + 1, c)
    BY <1>1, TwoFields
  <1>4. QED  BY <1>1, <1>2, <1>3 DEF s

LEMMA FourFields ==
    ASSUME NEW a \in Seq(Byte), NEW b \in Seq(Byte), NEW c \in Seq(Byte), NEW d \in Seq(Byte)
    PROVE  /\ a \o b \o c \o d \in Seq(Byte)
           /\ Len(a \o b \o c \o d) = Len(a) + Len(b) + Len(c) + Len(d)
           /\ Holds(a \o b \o c \o d, 1, a)
           /\ Holds(a \o b \o c \o d, Len(a) + 1, b)
           /\ Holds(a \o b \o c \o d, Len(a) + Len(b) + 1, c)
           /\ Holds(a \o b \o c \o d, Len(a) + Len(b) + Len(c) + 1, d)
  <1> DEFINE s == a \o b \o c
  <1>1. /\ s \in Seq(Byte) /\ Len(s) = Len(a) + Len(b) + Len(c)
        /\ Holds(s, 1, a) /\ Holds(s, Len(a) + 1, b) /\ Holds(s, Len(a) + Len(b) + 1, c)
    BY ThreeFields
  <1> HIDE DEF s
  <1>2. /\ Holds(s \o d, 1, a) /\ Holds(s \o d, Len(a) + 1, b)
        /\ Holds(s \o d, Len(a) + Len(b) + 1, c)
    BY <1>1, HoldsStill
  <1>3. s \o d \in Seq(Byte) /\ Len(s \o d) = Len(s) + Len(d) /\ Holds(s \o d, Len(s) + 1, d)
    BY <1>1, TwoFields
  <1>4. QED  BY <1>1, <1>2, <1>3 DEF s

LEMMA FiveFields ==
    ASSUME NEW a \in Seq(Byte), NEW b \in Seq(Byte), NEW c \in Seq(Byte), NEW d \in Seq(Byte),
           NEW e \in Seq(Byte)
    PROVE  /\ a \o b \o c \o d \o e \in Seq(Byte)
           /\ Len(a \o b \o c \o d \o e) = Len(a) + Len(b) + Len(c) + Len(d) + Len(e)
           /\ Holds(a \o b \o c \o d \o e, 1, a)
           /\ Holds(a \o b \o c \o d \o e, Len(a) + 1, b)
           /\ Holds(a \o b \o c \o d \o e, Len(a) + Len(b) + 1, c)
           /\ Holds(a \o b \o c \o d \o e, Len(a) + Len(b) + Len(c) + 1, d)
           /\ Holds(a \o b \o c \o d \o e, Len(a) + Len(b) + Len(c) + Len(d) + 1, e)
  <1> DEFINE s == a \o b \o c \o d
  <1>1. /\ s \in Seq(Byte) /\ Len(s) = Len(a) + Len(b) + Len(c) + Len(d)
        /\ Holds(s, 1, a) /\ Holds(s, Len(a) + 1, b) /\ Holds(s, Len(a) + Len(b) + 1, c)
        /\ Holds(s, Len(a) + Len(b) + Len(c) + 1, d)
    BY FourFields
  <1> HIDE DEF s
  <1>2. /\ Holds(s \o e, 1, a) /\ Holds(s \o e, Len(a) + 1, b)
        /\ Holds(s \o e, Len(a) + Len(b) + 1, c)
        /\ Holds(s \o e, Len(a) + Len(b) + Len(c) + 1, d)
    BY <1>1, HoldsStill
  <1>3. s \o e \in Seq(Byte) /\ Len(s \o e) = Len(s) + Len(e) /\ Holds(s \o e, Len(s) + 1, e)
    BY <1>1, TwoFields
  <1>4. QED  BY <1>1, <1>2, <1>3 DEF s

LEMMA SixFields ==
    ASSUME NEW a \in Seq(Byte), NEW b \in Seq(Byte), NEW c \in Seq(Byte), NEW d \in Seq(Byte),
           NEW e \in Seq(Byte), NEW f \in Seq(Byte)
    PROVE  /\ a \o b \o c \o d \o e \o f \in Seq(Byte)
           /\ Len(a \o b \o c \o d \o e \o f)
                = Len(a) + Len(b) + Len(c) + Len(d) + Len(e) + Len(f)
           /\ Holds(a \o b \o c \o d \o e \o f, 1, a)
           /\ Holds(a \o b \o c \o d \o e \o f, Len(a) + 1, b)
           /\ Holds(a \o b \o c \o d \o e \o f, Len(a) + Len(b) + 1, c)
           /\ Holds(a \o b \o c \o d \o e \o f, Len(a) + Len(b) + Len(c) + 1, d)
           /\ Holds(a \o b \o c \o d \o e \o f, Len(a) + Len(b) + Len(c) + Len(d) + 1, e)
           /\ Holds(a \o b \o c \o d \o e \o f,
                    Len(a) + Len(b) + Len(c) + Len(d) + Len(e) + 1, f)
  <1> DEFINE s == a \o b \o c \o d \o e
  <1>1. /\ s \in Seq(Byte) /\ Len(s) = Len(a) + Len(b) + Len(c) + Len(d) + Len(e)
        /\ Holds(s, 1, a) /\ Holds(s, Len(a) + 1, b) /\ Holds(s, Len(a) + Len(b) + 1, c)
        /\ Holds(s, Len(a) + Len(b) + Len(c) + 1, d)
        /\ Holds(s, Len(a) + Len(b) + Len(c) + Len(d) + 1, e)
    BY FiveFields
  <1> HIDE DEF s
  <1>2. /\ Holds(s \o f, 1, a) /\ Holds(s \o f, Len(a) + 1, b)
        /\ Holds(s \o f, Len(a) + Len(b) + 1, c)
        /\ Holds(s \o f, Len(a) + Len(b) + Len(c) + 1, d)
        /\ Holds(s \o f, Len(a) + Len(b) + Len(c) + Len(d) + 1, e)
    BY <1>1, HoldsStill
  <1>3. s \o f \in Seq(Byte) /\ Len(s \o f) = Len(s) + Len(f) /\ Holds(s \o f, Len(s) + 1, f)
    BY <1>1, TwoFields
  <1>4. QED  BY <1>1, <1>2, <1>3 DEF s
-----------------------------------------------------------------------------
(* Names, which travel in a field of NAME_SIZE bytes.                        *)

LEMMA ResizedField ==
    ASSUME NEW name \in Seq(Byte)
    PROVE  Resized(name) \in Seq(Byte) /\ Len(Resized(name)) = NAME_SIZE
  <1>1. 0 \in Byte /\ NAME_SIZE \in Nat
    BY CodecConstantsOK DEF Byte
  <1>2. \A k \in 1..NAME_SIZE : (IF k <= Len(name) THEN name[k] ELSE 0) \in Byte
    BY <1>1, ElementOfSeq
  <1>3. Resized(name) \in [1..NAME_SIZE -> Byte]
    BY <1>2 DEF Resized
  <1>4. QED  BY <1>1, <1>3

\* What the server strips is the padding: no byte of a name is zero.
LEMMA StrippedIsShort ==
    ASSUME NEW name \in Seq(Byte \ {0})
    PROVE  Stripped(Resized(name)) = Short(name)
  <1> DEFINE n == IF Len(name) < NAME_SIZE THEN Len(name) ELSE NAME_SIZE
             s == Resized(name)
             last == {k \in DOMAIN s : s[k] # 0}
  <1>1. NAME_SIZE \in Nat /\ n \in Nat /\ n <= NAME_SIZE /\ n <= Len(name)
    BY CodecConstantsOK, Len(name) \in Nat
  <1>2. DOMAIN s = 1..NAME_SIZE /\ \A k \in 1..NAME_SIZE : s[k] = IF k <= Len(name) THEN name[k] ELSE 0
    BY DEF Resized
  <1>3. \A k \in 1..Len(name) : name[k] # 0
    BY ElementOfSeq
  <1>4. \A k \in 1..NAME_SIZE : s[k] # 0 <=> k <= n
    BY <1>1, <1>2, <1>3, Len(name) \in Nat
  <1>5. \A k \in 1..n : s[k] = name[k]
    BY <1>1, <1>2, Len(name) \in Nat
  <1>6. last = 1..n
    BY <1>1, <1>2, <1>4
  <1>7. From(s, 1, n) = From(name, 1, n)
    <2>1. \A k \in 1..n : 1 + k - 1 = k
      BY <1>1
    <2> HIDE DEF s, n
    <2>2. \A k \in 1..n : s[1 + k - 1] = name[1 + k - 1]
      BY <1>5, <2>1
    <2>3. QED  BY <2>2 DEF From
  <1>8. Stripped(s) = From(s, 1, n)
    <2>1. CASE last = {}
      <3>1. n = 0
        BY <1>1, <1>6, <2>1
      <3>2. QED  BY <2>1, <3>1 DEF Stripped
    <2>2. CASE last # {}
      <3>1. n \in last /\ \A j \in last : j <= n
        BY <1>1, <1>6, <2>2
      <3> DEFINE m == CHOOSE k \in last : \A j \in last : j <= k
      <3>2. m \in last /\ \A j \in last : j <= m
        BY <3>1
      <3>3. m = n
        BY <1>1, <1>6, <3>1, <3>2
      <3>4. Stripped(s) = From(s, 1, m)
        BY <2>2 DEF Stripped
      <3>5. QED  BY <3>3, <3>4
    <2>3. QED  BY <2>1, <2>2
  <1>9. QED  BY <1>7, <1>8 DEF Short
-----------------------------------------------------------------------------
(* Requests.                                                                 *)

Number16 == 0..(BYTE * BYTE - 1)
Number32 == 0..(BYTE * BYTE * BYTE * BYTE - 1)

LEMMA IdBytes ==
    ASSUME NEW id \in Ids
    PROVE  id \in Seq(Byte) /\ Len(id) = ID_SIZE
  <1>1. id \in [1..ID_SIZE -> Byte] /\ ID_SIZE \in Nat
    BY CodecConstantsOK
  <1>2. QED  BY <1>1

LEMMA KeyBytes ==
    ASSUME NEW key \in Keys
    PROVE  key \in Seq(Byte) /\ Len(key) = KEY_SIZE
  <1>1. key \in [1..KEY_SIZE -> Byte] /\ KEY_SIZE \in Nat
    BY CodecConstantsOK
  <1>2. QED  BY <1>1

LEMMA NameBytes ==
    ASSUME NEW name \in Names
    PROVE  name \in Seq(Byte \ {0}) /\ name \in Seq(Byte)
  <1>1. name \in Seq(Byte \ {0})
    BY CodecConstantsOK
  <1>2. QED  BY <1>1, SeqMonotonic

\* One is a version and a code.
LEMMA Ones == 1 \in Byte /\ 1 \in Number16
  <1>1. BYTE \in Nat /\ BYTE > 1
    BY CodecConstantsOK
  <1>2. BYTE * BYTE >= BYTE * 1
    BY <1>1
  <1>3. QED  BY <1>1, <1>2 DEF Byte, Number16

\* The fields a request has, by its kind.
LEMMA RequestFields ==
    ASSUME NEW r \in Requests
    PROVE  /\ r.id \in Ids /\ r.version \in Byte /\ r.code \in Number16 /\ r.name \in Names
           /\ r.kind \in {"name", "key", "file"}
           /\ r.kind = "key" => r.key \in Keys
           /\ r.kind = "file" => /\ r.file_size \in Number32 /\ r.orig_file_size \in Number32
                                 /\ r.packet_number \in Number16 /\ r.total_packets \in Number16
                                 /\ r.data \in Data
  BY Ones, CodecConstantsOK DEF Requests, Number16, Number32

\* Numbers in bytes, as the client writes them.
LEMMA Written16 ==
    ASSUME LITTLE_ENDIAN, NEW v \in Number16
    PROVE  /\ Bytes16(v) \in Seq(Byte) /\ Len(Bytes16(v)) = 2
           /\ At16(Bytes16(v), 1) = v
  BY Bytes16Read DEF Number16

LEMMA Written32 ==
    ASSUME LITTLE_ENDIAN, NEW v \in Number32
    PROVE  /\ Bytes32(v) \in Seq(Byte) /\ Len(Bytes32(v)) = 4
           /\ At32(Bytes32(v), 1) = v
  BY Bytes32Read DEF Number32

\* The fields of the payload of a file's packet, and where they are.
LEMMA FileFields ==
    ASSUME LITTLE_ENDIAN, NEW r \in Requests, r.kind = "file"
    PROVE  LET p == SendFilePayload(r) IN
           /\ p \in Seq(Byte) /\ Len(p) = 12 + NAME_SIZE + Len(r.data)
           /\ Holds(p, 1, Bytes32(r.file_size))
           /\ Holds(p, 5, Bytes32(r.orig_file_size))
           /\ Holds(p, 9, Bytes16(r.packet_number))
           /\ Holds(p, 11, Bytes16(r.total_packets))
           /\ Holds(p, 13, Resized(r.name))
           /\ Holds(p, NAME_SIZE + 13, r.data)
  <1> DEFINE a == Bytes32(r.file_size)
             b == Bytes32(r.orig_file_size)
             c == Bytes16(r.packet_number)
             d == Bytes16(r.total_packets)
             e == Resized(r.name)
             f == r.data
             p == SendFilePayload(r)
  <1>1. /\ r.file_size \in Number32 /\ r.orig_file_size \in Number32
        /\ r.packet_number \in Number16 /\ r.total_packets \in Number16
        /\ r.name \in Seq(Byte) /\ f \in Seq(Byte)
    BY RequestFields, NameBytes, CodecConstantsOK
  <1>2. /\ a \in Seq(Byte) /\ Len(a) = 4 /\ b \in Seq(Byte) /\ Len(b) = 4
        /\ c \in Seq(Byte) /\ Len(c) = 2 /\ d \in Seq(Byte) /\ Len(d) = 2
    BY <1>1, Written16, Written32
  <1>3. e \in Seq(Byte) /\ Len(e) = NAME_SIZE /\ NAME_SIZE \in Nat
    BY <1>1, ResizedField, CodecConstantsOK
  <1>4. p = a \o b \o c \o d \o e \o f
    BY DEF SendFilePayload
  <1> HIDE DEF a, b, c, d, e, f, p
  <1>5. /\ p \in Seq(Byte) /\ Len(p) = Len(a) + Len(b) + Len(c) + Len(d) + Len(e) + Len(f)
        /\ Holds(p, 1, a)
        /\ Holds(p, Len(a) + 1, b)
        /\ Holds(p, Len(a) + Len(b) + 1, c)
        /\ Holds(p, Len(a) + Len(b) + Len(c) + 1, d)
        /\ Holds(p, Len(a) + Len(b) + Len(c) + Len(d) + 1, e)
        /\ Holds(p, Len(a) + Len(b) + Len(c) + Len(d) + Len(e) + 1, f)
    <2>1. /\ a \in Seq(Byte) /\ b \in Seq(Byte) /\ c \in Seq(Byte) /\ d \in Seq(Byte)
          /\ e \in Seq(Byte) /\ f \in Seq(Byte)
      BY <1>1, <1>2, <1>3
    <2> DEFINE q == a \o b \o c \o d \o e \o f
    <2>2. /\ q \in Seq(Byte) /\ Len(q) = Len(a) + Len(b) + Len(c) + Len(d) + Len(e) + Len(f)
          /\ Holds(q, 1, a)
          /\ Holds(q, Len(a) + 1, b)
          /\ Holds(q, Len(a) + Len(b) + 1, c)
          /\ Holds(q, Len(a) + Len(b) + Len(c) + 1, d)
          /\ Holds(q, Len(a) + Len(b) + Len(c) + Len(d) + 1, e)
          /\ Holds(q, Len(a) + Len(b) + Len(c) + Len(d) + Len(e) + 1, f)
      BY <2>1, SixFields, SMTT(30)
    <2>3. p = q
      BY <1>4
    <2> HIDE DEF q
    <2>4. QED  BY <2>2, <2>3
  <1>6. /\ Len(a) + 1 = 5 /\ Len(a) + Len(b) + 1 = 9 /\ Len(a) + Len(b) + Len(c) + 1 = 11
        /\ Len(a) + Len(b) + Len(c) + Len(d) + 1 = 13
        /\ Len(a) + Len(b) + Len(c) + Len(d) + Len(e) + 1 = NAME_SIZE + 13
        /\ Len(a) + Len(b) + Len(c) + Len(d) + Len(e) + Len(f) = 12 + NAME_SIZE + Len(f)
    BY <1>1, <1>2, <1>3, Len(f) \in Nat
  <1>7. /\ p \in Seq(Byte) /\ Len(p) = 12 + NAME_SIZE + Len(f)
        /\ Holds(p, 1, a) /\ Holds(p, 5, b) /\ Holds(p, 9, c) /\ Holds(p, 11, d)
        /\ Holds(p, 13, e) /\ Holds(p, NAME_SIZE + 13, f)
    BY <1>5, <1>6
  <1>8. QED  BY <1>7 DEF a, b, c, d, e, f, p

\* A payload has a length that four bytes can say.
LEMMA PayloadBytes ==
    ASSUME LITTLE_ENDIAN, NEW r \in Requests
    PROVE  /\ Payload(r) \in Seq(Byte) /\ Len(Payload(r)) \in Number32
           /\ r.kind = "name" => Len(Payload(r)) = NAME_SIZE
  <1>1. /\ r.name \in Seq(Byte) /\ Resized(r.name) \in Seq(Byte)
        /\ Len(Resized(r.name)) = NAME_SIZE
    BY RequestFields, NameBytes, ResizedField
  <1> DEFINE n == BYTE * BYTE * BYTE * BYTE
  <1>2. /\ ID_SIZE \in Nat /\ NAME_SIZE \in Nat /\ KEY_SIZE \in Nat /\ n \in Nat
        /\ ID_SIZE + NAME_SIZE + KEY_SIZE + 12 < n
        /\ \A d \in Data : d \in Seq(Byte) /\ ID_SIZE + NAME_SIZE + 12 + Len(d) < n
    BY CodecConstantsOK, PayloadsFit
  <1>3. Number32 = 0..(n - 1)
    BY DEF Number32
  <1> HIDE DEF n
  <1>4. CASE r.kind = "name"
    <2>1. Payload(r) = Resized(r.name)
      BY <1>4 DEF Payload
    <2>2. QED  BY <1>1, <1>2, <1>3, <2>1
  <1>5. CASE r.kind = "key"
    <2>1. Payload(r) = Resized(r.name) \o r.key
      BY <1>5 DEF Payload
    <2>2. r.key \in Seq(Byte) /\ Len(r.key) = KEY_SIZE
      BY <1>5, RequestFields, KeyBytes
    <2>3. Payload(r) \in Seq(Byte) /\ Len(Payload(r)) = NAME_SIZE + KEY_SIZE
      BY <1>1, <2>1, <2>2, TwoFields
    <2>4. QED  BY <1>2, <1>3, <1>5, <2>3
  <1>6. CASE r.kind = "file"
    <2>1. Payload(r) = SendFilePayload(r)
      BY <1>6 DEF Payload
    <2>2. Payload(r) \in Seq(Byte) /\ Len(Payload(r)) = 12 + NAME_SIZE + Len(r.data)
      BY <1>6, <2>1, FileFields
    <2>3. r.data \in Seq(Byte) /\ Len(r.data) \in Nat /\ ID_SIZE + NAME_SIZE + 12 + Len(r.data) < n
      BY <1>2, <1>6, RequestFields
    <2> DEFINE l == Len(r.data)
               m == Len(Payload(r))
    <2>4. /\ l \in Nat /\ m = 12 + NAME_SIZE + l /\ ID_SIZE + NAME_SIZE + 12 + l < n
          /\ ID_SIZE \in Nat /\ NAME_SIZE \in Nat /\ n \in Nat
      BY <1>2, <2>2, <2>3
    <2> HIDE DEF l, m
    <2>5. m \in 0..(n - 1)
      BY <2>4
    <2>6. QED  BY <1>3, <1>6, <2>2, <2>5 DEF m
  <1>7. QED  BY <1>4, <1>5, <1>6, RequestFields

\* What the server should take from the header of a request.
HeaderMeant(r) ==
    [id |-> r.id, version |-> r.version, code |-> r.code, payload_size |-> Len(Payload(r))]

\* The server takes from the header what the client put in it, and the payload
\* is left.
LEMMA RequestHeaderRead ==
    ASSUME LITTLE_ENDIAN, NEW r \in Requests
    PROVE  LET s == Packet(r) IN
           /\ s \in Seq(Byte)
           /\ UnpackHeader(s) = HeaderMeant(r)
           /\ From(s, REQUEST_HEADER_SIZE + 1, Len(s) - REQUEST_HEADER_SIZE) = Payload(r)
  <1> DEFINE a == r.id
             b == <<r.version>>
             c == Bytes16(r.code)
             d == Bytes32(Len(Payload(r)))
             e == Payload(r)
             s == Packet(r)
  <1>1. a \in Seq(Byte) /\ Len(a) = ID_SIZE /\ ID_SIZE \in Nat
    BY RequestFields, IdBytes, CodecConstantsOK
  <1>2. b \in Seq(Byte) /\ Len(b) = 1 /\ b[1] = r.version
    BY RequestFields
  <1>3. c \in Seq(Byte) /\ Len(c) = 2 /\ At16(c, 1) = r.code
    BY RequestFields, Written16
  <1>4. /\ d \in Seq(Byte) /\ Len(d) = 4 /\ At32(d, 1) = Len(e)
        /\ e \in Seq(Byte) /\ Len(e) \in Nat
    BY PayloadBytes, Written32
  <1>5. s = a \o b \o c \o d \o e
    BY DEF Packet, RequestHeader
  <1>6. HeaderMeant(r) = [id |-> a, version |-> b[1], code |-> At16(c, 1), payload_size |-> At32(d, 1)]
    BY <1>2, <1>3, <1>4 DEF HeaderMeant
  <1>7. e = Payload(r) /\ s = Packet(r)
    OBVIOUS
  <1> HIDE DEF a, b, c, d, e, s
  <1>8. /\ s \in Seq(Byte) /\ Len(s) = Len(a) + Len(b) + Len(c) + Len(d) + Len(e)
        /\ Holds(s, 1, a)
        /\ Holds(s, Len(a) + 1, b)
        /\ Holds(s, Len(a) + Len(b) + 1, c)
        /\ Holds(s, Len(a) + Len(b) + Len(c) + 1, d)
        /\ Holds(s, Len(a) + Len(b) + Len(c) + Len(d) + 1, e)
    <2>1. /\ a \in Seq(Byte) /\ b \in Seq(Byte) /\ c \in Seq(Byte) /\ d \in Seq(Byte)
          /\ e \in Seq(Byte)
      BY <1>1, <1>2, <1>3, <1>4
    <2> DEFINE q == a \o b \o c \o d \o e
    <2>2. /\ q \in Seq(Byte) /\ Len(q) = Len(a) + Len(b) + Len(c) + Len(d) + Len(e)
          /\ Holds(q, 1, a)
          /\ Holds(q, Len(a) + 1, b)
          /\ Holds(q, Len(a) + Len(b) + 1, c)
          /\ Holds(q, Len(a) + Len(b) + Len(c) + 1, d)
          /\ Holds(q, Len(a) + Len(b) + Len(c) + Len(d) + 1, e)
      BY <2>1, FiveFields
    <2>3. s = q
      BY <1>5
    <2> HIDE DEF q
    <2>4. QED  BY <2>2, <2>3
  <1>9. /\ Len(a) + Len(b) + 1 = ID_SIZE + 2 /\ Len(a) + Len(b) + Len(c) + 1 = ID_SIZE + 4
        /\ Len(a) + Len(b) + Len(c) + Len(d) + 1 = REQUEST_HEADER_SIZE + 1
        /\ Len(s) - REQUEST_HEADER_SIZE = Len(e)
    BY <1>1, <1>2, <1>3, <1>4, <1>8 DEF REQUEST_HEADER_SIZE
  <1>10. /\ Holds(s, 1, a) /\ Holds(s, ID_SIZE + 1, b) /\ Holds(s, ID_SIZE + 2, c)
         /\ Holds(s, ID_SIZE + 4, d) /\ Holds(s, REQUEST_HEADER_SIZE + 1, e)
    BY <1>1, <1>8, <1>9
  <1>11. From(s, 1, ID_SIZE) = a
    BY <1>1, <1>8, Cut
  <1>12. s[ID_SIZE + 1] = b[1]
    <2>1. s[ID_SIZE + 1 + 1 - 1] = b[1]
      BY <1>2, <1>10, SMTT(30) DEF Holds
    <2>2. ID_SIZE + 1 + 1 - 1 = ID_SIZE + 1
      BY <1>1
    <2>3. QED  BY <2>1, <2>2
  <1>13. At16(s, ID_SIZE + 2) = At16(c, 1)
    BY <1>3, <1>8, <1>10, Read16
  <1>14. At32(s, ID_SIZE + 4) = At32(d, 1)
    BY <1>4, <1>8, <1>10, Read32
  <1>15. UnpackHeader(s) = HeaderMeant(r)
    BY <1>6, <1>11, <1>12, <1>13, <1>14 DEF UnpackHeader
  <1>16. From(s, REQUEST_HEADER_SIZE + 1, Len(s) - REQUEST_HEADER_SIZE) = e
    BY <1>4, <1>8, <1>9, <1>10, Cut
  <1>17. QED  BY <1>7, <1>8, <1>15, <1>16

\* What the server should take from the payload of a request.
BodyMeant(r, b) ==
    /\ \A f \in DOMAIN b \ {"name"} : b[f] = r[f]
    /\ b.name = Short(r.name)

\* A field of a name is read back as the name, wherever it is.
LEMMA NameRead ==
    ASSUME NEW s \in Seq(Byte), NEW first, NEW name \in Names,
           Holds(s, first, Resized(name))
    PROVE  Stripped(From(s, first, NAME_SIZE)) = Short(name)
  <1>1. Resized(name) \in Seq(Byte) /\ Len(Resized(name)) = NAME_SIZE
    BY NameBytes, ResizedField
  <1>2. From(s, first, NAME_SIZE) = Resized(name)
    BY <1>1, Cut
  <1>3. QED  BY <1>2, NameBytes, StrippedIsShort

LEMMA RequestPayloadRead ==
    ASSUME LITTLE_ENDIAN, NEW r \in Requests
    PROVE  BodyMeant(r, UnpackPayload(r.kind, Payload(r), Len(Payload(r))))
  <1> DEFINE s == Payload(r)
             b == UnpackPayload(r.kind, s, Len(s))
             e == Resized(r.name)
  <1>1. r.name \in Names /\ e \in Seq(Byte) /\ Len(e) = NAME_SIZE
    BY RequestFields, NameBytes, ResizedField
  <1>2. s \in Seq(Byte)
    BY PayloadBytes
  <1>3. CASE r.kind = "name"
    <2>1. s = e
      BY <1>3 DEF Payload
    <2>2. Holds(s, 1, e)
      <3> HIDE DEF s, e
      <3>1. QED  BY <1>1, <2>1, Len(e) \in Nat DEF Holds
    <2>3. b = [name |-> Short(r.name)]
      BY <1>1, <1>2, <1>3, <2>2, NameRead DEF UnpackPayload
    <2> HIDE DEF b
    <2>4. QED  BY <2>3 DEF BodyMeant, b
  <1>4. CASE r.kind = "key"
    <2>1. r.key \in Seq(Byte) /\ Len(r.key) = KEY_SIZE
      BY <1>4, RequestFields, KeyBytes
    <2>2. s = e \o r.key
      BY <1>4 DEF Payload
    <2>3. Holds(s, 1, e) /\ Holds(s, NAME_SIZE + 1, r.key)
      BY <1>1, <2>1, <2>2, TwoFields
    <2>4. Stripped(From(s, 1, NAME_SIZE)) = Short(r.name)
      BY <1>1, <1>2, <2>3, NameRead
    <2>5. From(s, NAME_SIZE + 1, KEY_SIZE) = r.key
      BY <1>2, <2>1, <2>3, Cut
    <2>6. b = [name |-> Short(r.name), key |-> r.key]
      BY <1>4, <2>4, <2>5 DEF UnpackPayload
    <2> HIDE DEF b
    <2>7. QED  BY <2>6 DEF BodyMeant, b
  <1>5. CASE r.kind = "file"
    <2> DEFINE f1 == Bytes32(r.file_size)
               f2 == Bytes32(r.orig_file_size)
               f3 == Bytes16(r.packet_number)
               f4 == Bytes16(r.total_packets)
               f6 == r.data
    <2>1. s = SendFilePayload(r)
      BY <1>5 DEF Payload
    <2>2. /\ Len(s) = 12 + NAME_SIZE + Len(f6)
          /\ Holds(s, 1, f1) /\ Holds(s, 5, f2) /\ Holds(s, 9, f3) /\ Holds(s, 11, f4)
          /\ Holds(s, 13, e) /\ Holds(s, NAME_SIZE + 13, f6)
      BY <1>5, <2>1, FileFields
    <2>3. /\ f1 \in Seq(Byte) /\ Len(f1) = 4 /\ At32(f1, 1) = r.file_size
          /\ f2 \in Seq(Byte) /\ Len(f2) = 4 /\ At32(f2, 1) = r.orig_file_size
      BY <1>5, RequestFields, Written32
    <2>4. /\ f3 \in Seq(Byte) /\ Len(f3) = 2 /\ At16(f3, 1) = r.packet_number
          /\ f4 \in Seq(Byte) /\ Len(f4) = 2 /\ At16(f4, 1) = r.total_packets
      BY <1>5, RequestFields, Written16
    <2>5. f6 \in Seq(Byte) /\ Len(f6) \in Nat /\ NAME_SIZE \in Nat
      BY <1>5, RequestFields, CodecConstantsOK
    <2>6. At32(s, 1) = r.file_size /\ At32(s, 5) = r.orig_file_size
      <3> HIDE DEF s, f1, f2
      <3>1. QED  BY <1>2, <2>2, <2>3, Read32
    <2>7. At16(s, 9) = r.packet_number /\ At16(s, 11) = r.total_packets
      <3> HIDE DEF s, f3, f4
      <3>1. QED  BY <1>2, <2>2, <2>4, Read16
    <2>8. Stripped(From(s, 13, NAME_SIZE)) = Short(r.name)
      BY <1>1, <1>2, <2>2, NameRead
    <2>9. From(s, FILE_PAYLOAD_SIZE_WITHOUT_DATA + 1, Len(s) - FILE_PAYLOAD_SIZE_WITHOUT_DATA)
            = r.data
      <3> HIDE DEF s, f6
      <3>1. /\ FILE_PAYLOAD_SIZE_WITHOUT_DATA + 1 = NAME_SIZE + 13
            /\ Len(s) - FILE_PAYLOAD_SIZE_WITHOUT_DATA = Len(f6)
        BY <2>2, <2>5, SMTT(30) DEF FILE_PAYLOAD_SIZE_WITHOUT_DATA
      <3>2. From(s, NAME_SIZE + 13, Len(f6)) = f6
        BY <1>2, <2>2, <2>5, Cut
      <3>3. QED  BY <3>1, <3>2 DEF f6
    <2>10. b = [file_size |-> r.file_size, orig_file_size |-> r.orig_file_size,
                packet_number |-> r.packet_number, total_packets |-> r.total_packets,
                name |-> Short(r.name), data |-> r.data]
      <3> HIDE DEF s
      <3>1. QED  BY <1>5, <2>6, <2>7, <2>8, <2>9 DEF UnpackPayload
    <2> HIDE DEF b
    <2>11. QED  BY <2>10 DEF BodyMeant, b
  <1>6. QED  BY <1>3, <1>4, <1>5, RequestFields

\* Taking all there is leaves nothing.
LEMMA NothingLeft ==
    ASSUME NEW s \in Seq(Byte)
    PROVE  From(s, Len(s) + 1, Len(s) - Len(s)) = <<>>
  <1>1. Len(s) \in Nat /\ Len(s) - Len(s) = 0 /\ Len(s) + 1 + 0 - 1 <= Len(s)
    OBVIOUS
  <1>2. /\ From(s, Len(s) + 1, 0) \in Seq(Byte)
        /\ Len(From(s, Len(s) + 1, 0)) = 0
    BY <1>1, FromLength
  <1>3. QED  BY <1>1, <1>2, EmptySeq
-----------------------------------------------------------------------------
(* Responses.                                                                *)

LEMMA ResponseFields ==
    ASSUME NEW r \in Responses
    PROVE  /\ r.id \in Ids /\ r.version \in Byte /\ r.code \in Number16
           /\ r.kind \in {"none", "id", "key", "file"}
           /\ r.kind = "key" => r.key \in Data
           /\ r.kind = "file" => r.name \in Names /\ r.size \in Number32 /\ r.checksum \in Number32
  BY Ones, CodecConstantsOK DEF Responses, Number16, Number32

\* No request has the fields of a response.
LEMMA RequestsAreNoResponses == Requests \cap Responses = {}
  <1>1. SUFFICES ASSUME NEW r \in Requests, r \in Responses
                 PROVE  FALSE
    OBVIOUS
  <1>2. "name" \in DOMAIN r
    BY DEF Requests
  <1>3. r.kind = "file" => "data" \in DOMAIN r
    BY DEF Requests
  <1>4. r.kind \in {"name", "key", "file"}
    BY DEF Requests
  <1>5. CASE r \in [kind : {"none", "id"}, version : Byte, code : Uint16, id : Ids]
    BY <1>4, <1>5
  <1>6. CASE r \in [kind : {"key"}, version : {1}, code : Uint16, id : Ids, key : Data]
    BY <1>2, <1>6
  <1>7. CASE r \in [kind : {"file"}, version : {1}, code : Uint16, id : Ids, name : Names,
                    size : Uint32, checksum : Uint32]
    BY <1>3, <1>7
  <1>8. QED  BY <1>1, <1>5, <1>6, <1>7 DEF Responses

\* Numbers in bytes, as the server packs them and the client takes them.
LEMMA Packed16 ==
    ASSUME NEW v \in Number16
    PROVE  /\ ToBytes16(v) \in Seq(Byte) /\ Len(ToBytes16(v)) = 2
           /\ At16(ToBytes16(v), 1) = v
  BY ToBytes16Read DEF Number16

LEMMA Packed32 ==
    ASSUME NEW v \in Number32
    PROVE  /\ ToBytes32(v) \in Seq(Byte) /\ Len(ToBytes32(v)) = 4
           /\ At32(ToBytes32(v), 1) = v
  BY ToBytes32Read DEF Number32

\* Where the fields of the answer to a file are.
LEMMA AnswerFields ==
    ASSUME NEW r \in Responses, r.kind = "file"
    PROVE  LET p == ResponsePayload(r) IN
           /\ p \in Seq(Byte) /\ Len(p) = ID_SIZE + NAME_SIZE + 8
           /\ Holds(p, ID_SIZE + NAME_SIZE + 5, ToBytes32(r.checksum))
  <1> DEFINE a == r.id
             b == ToBytes32(r.size)
             c == Resized(r.name)
             d == ToBytes32(r.checksum)
             p == ResponsePayload(r)
  <1>1. /\ a \in Seq(Byte) /\ Len(a) = ID_SIZE /\ ID_SIZE \in Nat /\ NAME_SIZE \in Nat
        /\ c \in Seq(Byte) /\ Len(c) = NAME_SIZE
    BY ResponseFields, IdBytes, NameBytes, ResizedField, CodecConstantsOK
  <1>2. b \in Seq(Byte) /\ Len(b) = 4 /\ d \in Seq(Byte) /\ Len(d) = 4
    BY ResponseFields, Packed32
  <1>3. p = a \o b \o c \o d
    BY DEF ResponsePayload
  <1> HIDE DEF a, b, c, d, p
  <1>4. /\ p \in Seq(Byte) /\ Len(p) = Len(a) + Len(b) + Len(c) + Len(d)
        /\ Holds(p, Len(a) + Len(b) + Len(c) + 1, d)
    <2>1. a \in Seq(Byte) /\ b \in Seq(Byte) /\ c \in Seq(Byte) /\ d \in Seq(Byte)
      BY <1>1, <1>2
    <2> DEFINE q == a \o b \o c \o d
    <2>2. /\ q \in Seq(Byte) /\ Len(q) = Len(a) + Len(b) + Len(c) + Len(d)
          /\ Holds(q, Len(a) + Len(b) + Len(c) + 1, d)
      BY <2>1, FourFields
    <2>3. p = q
      BY <1>3
    <2> HIDE DEF q
    <2>4. QED  BY <2>2, <2>3
  <1>5. /\ Len(a) + Len(b) + Len(c) + Len(d) = ID_SIZE + NAME_SIZE + 8
        /\ Len(a) + Len(b) + Len(c) + 1 = ID_SIZE + NAME_SIZE + 5
    BY <1>1, <1>2
  <1>6. p \in Seq(Byte) /\ Len(p) = ID_SIZE + NAME_SIZE + 8 /\ Holds(p, ID_SIZE + NAME_SIZE + 5, d)
    BY <1>4, <1>5
  <1>7. QED  BY <1>6 DEF p, d

\* What the client takes from the payload of a response, and that its length
\* can be said in four bytes.
LEMMA ResponsePayloadRead ==
    ASSUME LITTLE_ENDIAN, NEW r \in Responses
    PROVE  LET p == ResponsePayload(r)
               b == TakePayload(r.kind, p, Len(p))
           IN /\ p \in Seq(Byte) /\ Len(p) \in Number32
              /\ r.kind = "id" => b = r.id
              /\ r.kind = "key" => b = r.key
              /\ r.kind = "file" => b = r.checksum
  <1> DEFINE n == BYTE * BYTE * BYTE * BYTE
             p == ResponsePayload(r)
             b == TakePayload(r.kind, p, Len(p))
  <1>1. /\ ID_SIZE \in Nat /\ NAME_SIZE \in Nat /\ KEY_SIZE \in Nat /\ n \in Nat
        /\ ID_SIZE + NAME_SIZE + KEY_SIZE + 12 < n
        /\ \A d \in Data : d \in Seq(Byte) /\ ID_SIZE + NAME_SIZE + 12 + Len(d) < n
    BY CodecConstantsOK, PayloadsFit
  <1>2. Number32 = 0..(n - 1)
    BY DEF Number32
  <1>3. r.id \in Seq(Byte) /\ Len(r.id) = ID_SIZE
    BY ResponseFields, IdBytes
  <1> HIDE DEF n
  <1>4. CASE r.kind = "none"
    <2>1. p = <<>>
      BY <1>4 DEF ResponsePayload
    <2>2. p \in Seq(Byte) /\ Len(p) = 0
      BY <2>1, EmptySeq
    <2>3. QED  BY <1>1, <1>2, <1>4, <2>2
  <1>5. CASE r.kind = "id"
    <2>1. p = r.id
      BY <1>5 DEF ResponsePayload
    <2>2. b = p
      BY <1>5 DEF TakePayload
    <2>3. ID_SIZE \in Number32
      BY <1>1, <1>2
    <2>4. QED  BY <1>3, <1>5, <2>1, <2>2, <2>3
  <1>6. CASE r.kind = "key"
    <2> DEFINE k == r.key
    <2>1. p = r.id \o k
      BY <1>6 DEF ResponsePayload
    <2>2. k \in Seq(Byte) /\ Len(k) \in Nat /\ ID_SIZE + NAME_SIZE + 12 + Len(k) < n
      BY <1>1, <1>6, ResponseFields
    <2> HIDE DEF k
    <2>3. p \in Seq(Byte) /\ Len(p) = ID_SIZE + Len(k) /\ Holds(p, ID_SIZE + 1, k)
      BY <1>3, <2>1, <2>2, TwoFields
    <2> HIDE DEF p
    <2>4. Len(p) - ID_SIZE = Len(k) /\ Len(p) \in 0..(n - 1)
      <3> DEFINE l == Len(k)
                 m == Len(p)
      <3>1. l \in Nat /\ m = ID_SIZE + l /\ ID_SIZE + NAME_SIZE + 12 + l < n
        BY <2>2, <2>3
      <3> HIDE DEF l, m
      <3>2. m - ID_SIZE = l /\ m \in 0..(n - 1)
        BY <1>1, <3>1
      <3>3. QED  BY <3>2 DEF l, m
    <2>5. From(p, ID_SIZE + 1, Len(k)) = k
      BY <2>2, <2>3, Cut
    <2>6. b = k
      BY <1>6, <2>4, <2>5 DEF TakePayload
    <2>7. QED  BY <1>2, <1>6, <2>3, <2>4, <2>6 DEF p, k
  <1>7. CASE r.kind = "file"
    <2> DEFINE d == ToBytes32(r.checksum)
    <2>1. p \in Seq(Byte) /\ Len(p) = ID_SIZE + NAME_SIZE + 8 /\ Holds(p, ID_SIZE + NAME_SIZE + 5, d)
      BY <1>7, AnswerFields
    <2>2. d \in Seq(Byte) /\ Len(d) = 4 /\ At32(d, 1) = r.checksum
      BY <1>7, ResponseFields, Packed32
    <2>3. Len(p) - CHECKSUM_SIZE + 1 = ID_SIZE + NAME_SIZE + 5
      BY <1>1, <2>1 DEF CHECKSUM_SIZE
    <2>4. Len(p) \in Number32
      BY <1>1, <1>2, <2>1
    <2> HIDE DEF d, p
    <2>5. At32(p, ID_SIZE + NAME_SIZE + 5) = r.checksum
      BY <2>1, <2>2, Read32
    <2>6. b = r.checksum
      BY <1>7, <2>3, <2>5 DEF TakePayload, Get32, Little32
    <2>7. QED  BY <1>7, <2>1, <2>4, <2>6 DEF p
  <1>8. QED  BY <1>4, <1>5, <1>6, <1>7, ResponseFields

\* What the client should take from the header of a response.
AnswerMeant(r) ==
    [version |-> r.version, code |-> r.code, payload_size |-> Len(ResponsePayload(r))]

LEMMA ResponseHeaderRead ==
    ASSUME LITTLE_ENDIAN, NEW r \in Responses
    PROVE  LET s == Message(r) IN
           /\ s \in Seq(Byte)
           /\ UnpackResponseHeader(s) = AnswerMeant(r)
           /\ From(s, SERVER_RESPONSE_HEADER_SIZE + 1, Len(s) - SERVER_RESPONSE_HEADER_SIZE)
                = ResponsePayload(r)
  <1> DEFINE a == <<r.version>>
             b == ToBytes16(r.code)
             c == ToBytes32(Len(ResponsePayload(r)))
             d == ResponsePayload(r)
             s == Message(r)
  <1>1. a \in Seq(Byte) /\ Len(a) = 1 /\ a[1] = r.version
    BY ResponseFields
  <1>2. b \in Seq(Byte) /\ Len(b) = 2 /\ At16(b, 1) = r.code
    BY ResponseFields, Packed16
  <1>3. d \in Seq(Byte) /\ Len(d) \in Nat /\ Len(d) \in Number32
    BY ResponsePayloadRead
  <1>4. c \in Seq(Byte) /\ Len(c) = 4 /\ At32(c, 1) = Len(d)
    BY <1>3, Packed32
  <1>5. s = a \o b \o c \o d
    BY DEF Message
  <1>6. AnswerMeant(r) = [version |-> a[1], code |-> At16(b, 1), payload_size |-> At32(c, 1)]
    BY <1>1, <1>2, <1>4 DEF AnswerMeant
  <1>7. d = ResponsePayload(r) /\ s = Message(r)
    OBVIOUS
  <1> HIDE DEF a, b, c, d, s
  <1>8. /\ s \in Seq(Byte) /\ Len(s) = Len(a) + Len(b) + Len(c) + Len(d)
        /\ Holds(s, 1, a)
        /\ Holds(s, Len(a) + 1, b)
        /\ Holds(s, Len(a) + Len(b) + 1, c)
        /\ Holds(s, Len(a) + Len(b) + Len(c) + 1, d)
    <2>1. a \in Seq(Byte) /\ b \in Seq(Byte) /\ c \in Seq(Byte) /\ d \in Seq(Byte)
      BY <1>1, <1>2, <1>3, <1>4
    <2> DEFINE q == a \o b \o c \o d
    <2>2. /\ q \in Seq(Byte) /\ Len(q) = Len(a) + Len(b) + Len(c) + Len(d)
          /\ Holds(q, 1, a)
          /\ Holds(q, Len(a) + 1, b)
          /\ Holds(q, Len(a) + Len(b) + 1, c)
          /\ Holds(q, Len(a) + Len(b) + Len(c) + 1, d)
      BY <2>1, FourFields
    <2>3. s = q
      BY <1>5
    <2> HIDE DEF q
    <2>4. QED  BY <2>2, <2>3
  <1>9. /\ Len(a) + 1 = 2 /\ Len(a) + Len(b) + 1 = 4
        /\ Len(a) + Len(b) + Len(c) + 1 = SERVER_RESPONSE_HEADER_SIZE + 1
        /\ Len(s) - SERVER_RESPONSE_HEADER_SIZE = Len(d)
    BY <1>1, <1>2, <1>3, <1>4, <1>8 DEF SERVER_RESPONSE_HEADER_SIZE
  <1>10. /\ Holds(s, 1, a) /\ Holds(s, 2, b) /\ Holds(s, 4, c)
         /\ Holds(s, SERVER_RESPONSE_HEADER_SIZE + 1, d)
    BY <1>8, <1>9
  <1>11. s[1] = a[1]
    <2>1. s[1 + 1 - 1] = a[1]
      BY <1>1, <1>10 DEF Holds
    <2>2. QED  BY <2>1
  <1>12. At16(s, 2) = At16(b, 1)
    BY <1>2, <1>8, <1>10, Read16
  <1>13. At32(s, 4) = At32(c, 1)
    BY <1>4, <1>8, <1>10, Read32
  <1>14. UnpackResponseHeader(s) = AnswerMeant(r)
    BY <1>6, <1>11, <1>12, <1>13 DEF UnpackResponseHeader, Get16, Get32, Little16, Little32
  <1>15. From(s, SERVER_RESPONSE_HEADER_SIZE + 1, Len(s) - SERVER_RESPONSE_HEADER_SIZE) = d
    BY <1>3, <1>8, <1>9, <1>10, Cut
  <1>16. QED  BY <1>7, <1>8, <1>14, <1>15
-----------------------------------------------------------------------------
(* The id in me.info.                                                        *)

\* Induction: a set of numbers that is not empty has a least one.
LessThan == {ss \in Nat \X Nat : ss[1] < ss[2]}

LEMMA NatWellFounded == IsWellFoundedOn(LessThan, Nat)
  BY NatLessThanWellFounded DEF OpToRel, LessThan

LEMMA Least ==
    ASSUME NEW T \in SUBSET Nat, T # {}
    PROVE  \E x \in T : \A y \in T : x <= y
  <1>1. PICK x \in T : \A y \in T : ~(<<y, x>> \in LessThan)
    BY NatWellFounded, WFMin
  <1>2. ASSUME NEW y \in T
        PROVE  x <= y
    <2>1. <<y, x>> \in Nat \X Nat /\ <<y, x>>[1] = y /\ <<y, x>>[2] = x
      OBVIOUS
    <2>2. ~(y < x)
      BY <1>1, <2>1 DEF LessThan
    <2>3. QED  BY <2>2
  <1>3. QED  BY <1>2

LEMMA TwoOnes ==
    ASSUME NEW a \in Byte, NEW b \in Byte
    PROVE  <<a>> \o <<b>> = <<a, b>>
  <1> DEFINE s == <<a>>
             t == <<b>>
             u == <<a, b>>
  <1>1. /\ s \in Seq(Byte) /\ t \in Seq(Byte) /\ Len(s) = 1 /\ Len(t) = 1
        /\ u \in Seq(Byte) /\ Len(u) = 2 /\ u[1] = s[1] /\ u[2] = t[1]
    OBVIOUS
  <1> HIDE DEF s, t, u
  <1>2. s \o t \in Seq(Byte) /\ Len(s \o t) = 2
    BY <1>1, ConcatProperties
  <1>3. (s \o t)[1] = s[1] /\ (s \o t)[2] = t[1]
    <2> DEFINE w == s \o t
    <2>1. Holds(w, 1, s) /\ Holds(w, 1 + 1, t)
      BY <1>1, HoldsFirst, HoldsLast
    <2> HIDE DEF w
    <2>2. w[1 + 1 - 1] = s[1] /\ w[1 + 1 + 1 - 1] = t[1]
      BY <1>1, <2>1 DEF Holds
    <2>3. w[1] = s[1] /\ w[2] = t[1]
      BY <2>2
    <2>4. QED  BY <2>3 DEF w
  <1>4. \A i \in 1..2 : (s \o t)[i] = u[i]
    BY <1>1, <1>3
  <1>5. s \o t = u
    BY <1>1, <1>2, <1>4, SeqEqual
  <1>6. QED  BY <1>5 DEF s, t, u

\* The two digits of a byte.
LEMMA ByteDigits ==
    ASSUME NEW c \in Byte
    PROVE  /\ c \div DIGIT \in Byte /\ c % DIGIT \in Byte
           /\ c \div DIGIT \in 0..(DIGIT - 1) /\ c % DIGIT \in 0..(DIGIT - 1)
           /\ (c \div DIGIT) * DIGIT + (c % DIGIT) = c
           /\ Filled(Hex(c)) = <<c \div DIGIT, c % DIGIT>>
  <1>1. DIGIT \in Nat /\ BYTE \in Nat /\ BYTE > 1 /\ DIGIT * DIGIT = BYTE /\ c \in 0..(BYTE - 1)
    BY CodecConstantsOK DEF Byte
  <1>2. DIGIT > 1
    <2>1. DIGIT # 0 /\ DIGIT # 1
      BY <1>1
    <2>2. QED  BY <1>1, <2>1
  <1>3. DIGIT <= BYTE
    <2>1. DIGIT * DIGIT >= DIGIT * 1
      BY <1>1, <1>2
    <2>2. QED  BY <1>1, <2>1
  <1> DEFINE q == c \div DIGIT
             r == c % DIGIT
  <1>4. q \in Nat /\ r \in 0..(DIGIT - 1) /\ c = r + q * DIGIT /\ q < DIGIT
    <2>1. c \in Nat /\ c < DIGIT * DIGIT
      BY <1>1
    <2>2. q \in Nat /\ r \in 0..(DIGIT - 1) /\ c = r + q * DIGIT
      BY <1>1, <1>2, <2>1, DivMod
    <2>3. q < DIGIT
      BY <1>1, <1>2, <2>1, DivLess
    <2>4. QED  BY <2>2, <2>3
  <1>5. Hex(c) = IF c < DIGIT THEN <<c>> ELSE <<q, r>>
    BY DEF Hex
  <1> HIDE DEF q, r
  <1>6. /\ q \in Byte /\ r \in Byte /\ q * DIGIT + r = c
        /\ q \in 0..(DIGIT - 1) /\ r \in 0..(DIGIT - 1)
    BY <1>1, <1>3, <1>4 DEF Byte
  <1>7. CASE c < DIGIT
    <2>1. q = 0 /\ r = c
      <3>1. q >= 1 => q * DIGIT >= DIGIT
        BY <1>1, <1>4
      <3>2. q = 0
        BY <1>1, <1>4, <1>7, <3>1
      <3>3. q * DIGIT = 0
        BY <1>1, <3>2
      <3>4. QED  BY <1>1, <1>4, <3>2, <3>3
    <2>2. Filled(Hex(c)) = <<0>> \o <<c>>
      BY <1>5, <1>7 DEF Filled
    <2>3. <<0>> \o <<c>> = <<0, c>>
      BY TwoOnes, <1>1 DEF Byte
    <2>4. QED  BY <1>6, <2>1, <2>2, <2>3 DEF q, r
  <1>8. CASE ~(c < DIGIT)
    <2>1. Filled(Hex(c)) = <<q, r>>
      BY <1>5, <1>8 DEF Filled
    <2>2. QED  BY <1>6, <2>1 DEF q, r
  <1>9. QED  BY <1>7, <1>8

\* The digits of the first k bytes, without recursion.
Digits(bytes, k) ==
    [j \in 1..(2 * k) |-> IF j % 2 = 1 THEN bytes[(j + 1) \div 2] \div DIGIT
                                       ELSE bytes[j \div 2] % DIGIT]

LEMMA DigitsTyped ==
    ASSUME NEW bytes \in Seq(Byte), NEW k \in 0..Len(bytes)
    PROVE  Digits(bytes, k) \in Seq(Byte) /\ Len(Digits(bytes, k)) = 2 * k
  <1>1. ASSUME NEW j \in 1..(2 * k)
        PROVE  (IF j % 2 = 1 THEN bytes[(j + 1) \div 2] \div DIGIT
                             ELSE bytes[j \div 2] % DIGIT) \in Byte
    <2>1. j % 2 = 1 => (j + 1) \div 2 \in 1..Len(bytes)
      BY Len(bytes) \in Nat
    <2>2. j % 2 # 1 => j \div 2 \in 1..Len(bytes)
      BY Len(bytes) \in Nat
    <2>3. \A i \in 1..Len(bytes) : bytes[i] \div DIGIT \in Byte /\ bytes[i] % DIGIT \in Byte
      BY ElementOfSeq, ByteDigits
    <2>4. QED  BY <2>1, <2>2, <2>3
  <1>2. Digits(bytes, k) \in [1..(2 * k) -> Byte]
    BY <1>1 DEF Digits
  <1>3. 2 * k \in Nat
    OBVIOUS
  <1>4. QED  BY <1>2, <1>3

LEMMA DigitsStep ==
    ASSUME NEW bytes \in Seq(Byte), NEW k \in 1..Len(bytes)
    PROVE  Digits(bytes, k) = Digits(bytes, k - 1) \o Filled(Hex(bytes[k]))
  <1> DEFINE c == bytes[k]
             s == Digits(bytes, k - 1)
             t == <<c \div DIGIT, c % DIGIT>>
             u == Digits(bytes, k)
  <1>1. c \in Byte
    BY ElementOfSeq
  <1>2. /\ t \in Seq(Byte) /\ Len(t) = 2 /\ Filled(Hex(c)) = t
        /\ t[1] = c \div DIGIT /\ t[2] = c % DIGIT
    BY <1>1, ByteDigits
  <1>3. /\ s \in Seq(Byte) /\ Len(s) = 2 * (k - 1)
        /\ u \in Seq(Byte) /\ Len(u) = 2 * k
    BY DigitsTyped, Len(bytes) \in Nat
  <1>4. \A j \in 1..(2 * (k - 1)) : u[j] = s[j]
    BY Len(bytes) \in Nat DEF Digits
  <1>5. u[2 * k - 1] = t[1] /\ u[2 * k] = t[2]
    <2>1. /\ 2 * k - 1 \in 1..(2 * k) /\ 2 * k \in 1..(2 * k)
          /\ (2 * k - 1) % 2 = 1 /\ (2 * k - 1 + 1) \div 2 = k
          /\ (2 * k) % 2 = 0 /\ (2 * k) \div 2 = k
      BY Len(bytes) \in Nat
    <2>2. QED  BY <1>2, <2>1 DEF Digits
  <1> HIDE DEF c, s, t, u
  <1>6. /\ s \o t \in Seq(Byte) /\ Len(s \o t) = 2 * (k - 1) + 2
        /\ \A j \in 1..(2 * (k - 1) + 2) :
             (s \o t)[j] = IF j <= 2 * (k - 1) THEN s[j] ELSE t[j - 2 * (k - 1)]
    <2>1. /\ s \o t \in Seq(Byte) /\ Len(s \o t) = Len(s) + Len(t)
          /\ \A j \in 1..(Len(s) + Len(t)) :
               (s \o t)[j] = IF j <= Len(s) THEN s[j] ELSE t[j - Len(s)]
      BY <1>2, <1>3, ConcatProperties
    <2> DEFINE w == s \o t
    <2> HIDE DEF w
    <2>2. /\ w \in Seq(Byte) /\ Len(w) = Len(s) + Len(t)
          /\ \A j \in 1..(Len(s) + Len(t)) :
               w[j] = IF j <= Len(s) THEN s[j] ELSE t[j - Len(s)]
      BY <2>1 DEF w
    <2>3. Len(s) = 2 * (k - 1) /\ Len(t) = 2
      BY <1>2, <1>3
    <2>4. /\ w \in Seq(Byte) /\ Len(w) = 2 * (k - 1) + 2
          /\ \A j \in 1..(2 * (k - 1) + 2) :
               w[j] = IF j <= 2 * (k - 1) THEN s[j] ELSE t[j - 2 * (k - 1)]
      BY ONLY <2>2, <2>3
    <2>5. QED  BY <2>4 DEF w
  <1>7. k \in Nat /\ 2 * (k - 1) + 2 = 2 * k
    BY Len(bytes) \in Nat
  <1>8. ASSUME NEW j \in 1..(2 * k)
        PROVE  u[j] = (s \o t)[j]
    <2>1. CASE j <= 2 * (k - 1)
      BY <1>4, <1>6, <1>7, <2>1
    <2>2. CASE j = 2 * k - 1
      <3>1. j - 2 * (k - 1) = 1 /\ ~(j <= 2 * (k - 1))
        BY <1>7, <2>2
      <3>2. (s \o t)[j] = t[1]
        BY <1>6, <1>7, <3>1
      <3>3. QED  BY <1>5, <2>2, <3>2
    <2>3. CASE j = 2 * k
      <3>1. j - 2 * (k - 1) = 2 /\ ~(j <= 2 * (k - 1))
        BY <1>7, <2>3
      <3>2. (s \o t)[j] = t[2]
        BY <1>6, <1>7, <3>1
      <3>3. QED  BY <1>5, <2>3, <3>2
    <2>4. j <= 2 * (k - 1) \/ j = 2 * k - 1 \/ j = 2 * k
      BY <1>7
    <2>5. QED  BY <2>1, <2>2, <2>3, <2>4
  <1>9. u = s \o t
    BY <1>3, <1>6, <1>7, <1>8, SeqEqual
  <1>10. QED  BY <1>2, <1>9 DEF c, s, u

\* The equation of the recursive function in HexOf, and that it has one solution.
WritesHex(bytes, f) ==
    f = [k \in 0..Len(bytes) |->
            IF k = 0 THEN <<>> ELSE f[k - 1] \o Filled(Hex(bytes[k]))]

LEMMA HexOfSolves ==
    ASSUME NEW bytes
    PROVE  HexOf(bytes) = (CHOOSE f : WritesHex(bytes, f))[Len(bytes)]
  BY DEF HexOf, WritesHex

LEMMA DigitsSolve ==
    ASSUME NEW bytes \in Seq(Byte)
    PROVE  WritesHex(bytes, [k \in 0..Len(bytes) |-> Digits(bytes, k)])
  <1> DEFINE g == [k \in 0..Len(bytes) |-> Digits(bytes, k)]
  <1>1. ASSUME NEW k \in 0..Len(bytes)
        PROVE  g[k] = IF k = 0 THEN <<>> ELSE g[k - 1] \o Filled(Hex(bytes[k]))
    <2>1. CASE k = 0
      <3>1. Digits(bytes, 0) \in Seq(Byte) /\ Len(Digits(bytes, 0)) = 0
        BY DigitsTyped, Len(bytes) \in Nat
      <3>2. QED  BY <2>1, <3>1, EmptySeq
    <2>2. CASE k # 0
      <3>1. k \in 1..Len(bytes) /\ k - 1 \in 0..Len(bytes)
        BY <2>2, Len(bytes) \in Nat
      <3>2. g[k] = Digits(bytes, k) /\ g[k - 1] = Digits(bytes, k - 1)
        BY <3>1
      <3>3. QED  BY <2>2, <3>1, <3>2, DigitsStep
    <2>3. QED  BY <2>1, <2>2
  <1>2. QED  BY <1>1 DEF WritesHex

LEMMA OneSolution ==
    ASSUME NEW bytes \in Seq(Byte), NEW f, NEW g, WritesHex(bytes, f), WritesHex(bytes, g)
    PROVE  f = g
  <1> DEFINE T == {k \in 0..Len(bytes) : f[k] # g[k]}
  <1>1. \A k \in 0..Len(bytes) :
          /\ f[k] = IF k = 0 THEN <<>> ELSE f[k - 1] \o Filled(Hex(bytes[k]))
          /\ g[k] = IF k = 0 THEN <<>> ELSE g[k - 1] \o Filled(Hex(bytes[k]))
    BY Zenon DEF WritesHex
  <1>2. T = {}
    <2>1. SUFFICES ASSUME T # {}
                   PROVE  FALSE
      OBVIOUS
    <2>2. PICK k \in T : \A j \in T : k <= j
      <3>1. T \in SUBSET Nat
        OBVIOUS
      <3>2. QED  BY <2>1, <3>1, Least
    <2>3. k \in 0..Len(bytes) /\ f[k] # g[k]
      BY <2>2
    <2>4. k # 0
      BY <1>1, <2>3
    <2>5. k - 1 \in 0..Len(bytes) /\ ~(k <= k - 1)
      BY <2>3, <2>4, Len(bytes) \in Nat
    <2>6. f[k - 1] = g[k - 1]
      BY <2>2, <2>5
    <2>7. QED  BY <1>1, <2>3, <2>4, <2>6
  <1>3. \A k \in 0..Len(bytes) : f[k] = g[k]
    BY <1>2
  <1>4. QED  BY <1>3 DEF WritesHex

\* The file has the digits of the bytes, in order.
LEMMA HexOfIsDigits ==
    ASSUME NEW bytes \in Seq(Byte)
    PROVE  HexOf(bytes) = Digits(bytes, Len(bytes))
  <1> DEFINE g == [k \in 0..Len(bytes) |-> Digits(bytes, k)]
             f == CHOOSE h : WritesHex(bytes, h)
  <1>1. WritesHex(bytes, g)
    BY DigitsSolve
  <1>2. HexOf(bytes) = f[Len(bytes)]
    BY HexOfSolves
  <1>3. WritesHex(bytes, f)
    <2> HIDE DEF g
    <2>1. QED  BY <1>1
  <1>4. f = g
    <2> HIDE DEF f, g
    <2>1. QED  BY <1>1, <1>3, OneSolution
  <1>5. Len(bytes) \in 0..Len(bytes)
    OBVIOUS
  <1>6. QED  BY <1>2, <1>4, <1>5

\* Two digits for each byte.
LEMMA HexOfDigits ==
    ASSUME NEW bytes \in Seq(Byte)
    PROVE  HexOf(bytes) \in [1..(2 * Len(bytes)) -> 0..(DIGIT - 1)]
  <1> DEFINE n == Len(bytes)
  <1>1. n \in Nat /\ DIGIT \in Nat
    BY CodecConstantsOK
  <1>2. ASSUME NEW i \in 1..n
        PROVE  bytes[i] \div DIGIT \in 0..(DIGIT - 1) /\ bytes[i] % DIGIT \in 0..(DIGIT - 1)
    BY <1>2, ElementOfSeq, ByteDigits
  <1>3. ASSUME NEW j \in 1..(2 * n)
        PROVE  (IF j % 2 = 1 THEN bytes[(j + 1) \div 2] \div DIGIT
                             ELSE bytes[j \div 2] % DIGIT) \in 0..(DIGIT - 1)
    <2>1. j % 2 = 1 => (j + 1) \div 2 \in 1..n
      BY <1>1
    <2>2. j % 2 # 1 => j \div 2 \in 1..n
      BY <1>1
    <2>3. QED  BY <1>2, <2>1, <2>2
  <1>4. Digits(bytes, n) \in [1..(2 * n) -> 0..(DIGIT - 1)]
    BY <1>3 DEF Digits
  <1>5. QED  BY <1>4, HexOfIsDigits

\* What the client writes of an id it reads as that id.
LEMMA IdReadBack ==
    ASSUME NEW bytes \in Seq(Byte)
    PROVE  HexOf(bytes) \in Seq(Byte) /\ hex_to_binary(HexOf(bytes)) = bytes
  <1> DEFINE n == Len(bytes)
             s == Digits(bytes, n)
             b == hex_to_binary(s)
  <1>1. n \in Nat /\ n \in 0..Len(bytes)
    OBVIOUS
  <1>2. s \in Seq(Byte) /\ Len(s) = 2 * n
    BY <1>1, DigitsTyped
  <1>3. (2 * n + 1) \div 2 = n
    BY <1>1
  <1>4. \A k \in 1..n : s[2 * k - 1] = bytes[k] \div DIGIT /\ s[2 * k] = bytes[k] % DIGIT
    <2>1. SUFFICES ASSUME NEW k \in 1..n
                   PROVE  s[2 * k - 1] = bytes[k] \div DIGIT /\ s[2 * k] = bytes[k] % DIGIT
      OBVIOUS
    <2>2. /\ 2 * k - 1 \in 1..(2 * n) /\ 2 * k \in 1..(2 * n)
          /\ (2 * k - 1) % 2 = 1 /\ (2 * k - 1 + 1) \div 2 = k
          /\ (2 * k) % 2 = 0 /\ (2 * k) \div 2 = k
      BY <1>1
    <2>3. QED  BY <2>2 DEF Digits
  <1>5. \A k \in 1..n : s[2 * k - 1] * DIGIT + s[2 * k] = bytes[k]
    <2>1. \A k \in 1..n : bytes[k] \in Byte
      BY ElementOfSeq
    <2>2. QED  BY <1>4, <2>1, ByteDigits
  <1> HIDE DEF s
  <1>6. b = [k \in 1..n |-> s[2 * k - 1] * DIGIT + s[2 * k]]
    <2>1. \A k \in 1..n : 2 * k <= Len(s)
      BY <1>1, <1>2
    <2>2. QED  BY <1>2, <1>3, <2>1 DEF hex_to_binary
  <1>7. b = bytes
    BY <1>5, <1>6
  <1>8. QED  BY <1>2, <1>7, HexOfIsDigits DEF s
-----------------------------------------------------------------------------
(* The way of a message.                                                     *)

\* What the variables hold at each step, from the message alone.
RequestInv ==
    /\ message \in Requests
    /\ \/ pc = "request" /\ wire = <<>>
       \/ pc = "header" /\ wire = Packet(message)
       \/ pc = "payload" /\ wire = Payload(message) /\ header = HeaderMeant(message)
       \/ pc = "done" /\ wire = <<>> /\ header = HeaderMeant(message) /\ BodyMeant(message, body)

ResponseInv ==
    /\ message \in Responses
    /\ \/ pc = "response" /\ wire = <<>>
       \/ pc = "answer" /\ wire = Message(message)
       \/ pc = "answerPayload" /\ wire = ResponsePayload(message) /\ header = AnswerMeant(message)
       \/ pc = "store" /\ wire = <<>> /\ header = AnswerMeant(message)
            /\ message.kind = "id" /\ body = message.id
       \/ pc = "load" /\ wire = HexOf(message.id) /\ header = AnswerMeant(message)
            /\ message.kind = "id"
       \/ pc = "done" /\ wire = <<>> /\ header = AnswerMeant(message)
            /\ (message.kind = "id" => body = message.id)
            /\ (message.kind = "key" => body = message.key)
            /\ (message.kind = "file" => body = message.checksum)

CodecInv == RequestInv \/ ResponseInv

LEMMA CodecInitially == Init => CodecInv
  BY DEF Init, CodecInv, RequestInv, ResponseInv

\* What one step does to a request.
LEMMA RequestStep ==
    ASSUME LITTLE_ENDIAN, RequestInv, Next
    PROVE  RequestInv'
  <1> DEFINE r == message
  <1>1. r \in Requests
    BY DEF RequestInv
  <1>2. ASSUME Send
        PROVE  RequestInv'
    <2>1. pc = "request" /\ wire' = Packet(r) /\ pc' = "header" /\ message' = r
      BY <1>2 DEF Send, RequestInv
    <2>2. QED  BY <1>1, <2>1 DEF RequestInv
  <1>3. ASSUME ParseRequestHeader
        PROVE  RequestInv'
    <2>1. wire = Packet(r)
      BY <1>3 DEF ParseRequestHeader, RequestInv
    <2>2. /\ pc' = "payload" /\ message' = r /\ header' = UnpackHeader(wire)
          /\ wire' = From(wire, REQUEST_HEADER_SIZE + 1, Len(wire) - REQUEST_HEADER_SIZE)
      BY <1>3 DEF ParseRequestHeader, Taken
    <2>3. header' = HeaderMeant(r) /\ wire' = Payload(r)
      BY <1>1, <2>1, <2>2, RequestHeaderRead
    <2>4. QED  BY <1>1, <2>2, <2>3 DEF RequestInv
  <1>4. ASSUME ParsePayload
        PROVE  RequestInv'
    <2> DEFINE size == IF r.kind = "name" THEN NAME_SIZE ELSE header.payload_size
    <2>1. wire = Payload(r) /\ header = HeaderMeant(r)
      BY <1>4 DEF ParsePayload, RequestInv
    <2>2. size = Len(Payload(r))
      <3>1. header.payload_size = Len(Payload(r))
        BY <2>1 DEF HeaderMeant
      <3>2. r.kind = "name" => Len(Payload(r)) = NAME_SIZE
        BY <1>1, PayloadBytes
      <3>3. QED  BY <3>1, <3>2
    <2>3. /\ pc' = "done" /\ message' = r /\ header' = header
          /\ body' = UnpackPayload(r.kind, From(wire, 1, size), size)
          /\ wire' = From(wire, size + 1, Len(wire) - size)
      BY <1>4 DEF ParsePayload, Taken
    <2>4. Payload(r) \in Seq(Byte)
      BY <1>1, PayloadBytes
    <2>5. From(wire, 1, size) = Payload(r)
      BY <2>1, <2>2, <2>4, CutWhole
    <2>6. wire' = <<>>
      BY <2>1, <2>2, <2>3, <2>4, NothingLeft
    <2>7. BodyMeant(r, body')
      BY <1>1, <2>2, <2>3, <2>5, RequestPayloadRead
    <2>8. QED  BY <1>1, <2>1, <2>3, <2>6, <2>7 DEF RequestInv
  <1>5. ASSUME Over
        PROVE  RequestInv'
    BY <1>5 DEF Over, vars, RequestInv
  <1>6. CASE ReceiveHeader \/ ReceivePayload \/ WriteMeInfo \/ LoadStoredCredentials
    BY <1>6 DEF ReceiveHeader, ReceivePayload, WriteMeInfo, LoadStoredCredentials, RequestInv
  <1>7. QED  BY <1>2, <1>3, <1>4, <1>5, <1>6 DEF Next

\* What one step does to a response.
LEMMA ResponseStep ==
    ASSUME LITTLE_ENDIAN, ResponseInv, Next
    PROVE  ResponseInv'
  <1> DEFINE r == message
             p == ResponsePayload(message)
  <1>1. r \in Responses
    BY DEF ResponseInv
  <1>2. ASSUME Send
        PROVE  ResponseInv'
    <2>1. pc = "response" /\ wire' = Message(r) /\ pc' = "answer" /\ message' = r
      BY <1>2 DEF Send, ResponseInv
    <2>2. QED  BY <1>1, <2>1 DEF ResponseInv
  <1>3. ASSUME ReceiveHeader
        PROVE  ResponseInv'
    <2>1. wire = Message(r)
      BY <1>3 DEF ReceiveHeader, ResponseInv
    <2>2. /\ pc' = "answerPayload" /\ message' = r /\ header' = UnpackResponseHeader(wire)
          /\ wire' = From(wire, SERVER_RESPONSE_HEADER_SIZE + 1,
                          Len(wire) - SERVER_RESPONSE_HEADER_SIZE)
      BY <1>3 DEF ReceiveHeader, Taken
    <2>3. header' = AnswerMeant(r) /\ wire' = ResponsePayload(r)
      BY <1>1, <2>1, <2>2, ResponseHeaderRead
    <2>4. QED  BY <1>1, <2>2, <2>3 DEF ResponseInv
  <1>4. ASSUME ReceivePayload
        PROVE  ResponseInv'
    <2> DEFINE size == header.payload_size
    <2>1. wire = p /\ header = AnswerMeant(r) /\ size = Len(p)
      BY <1>4 DEF ReceivePayload, ResponseInv, AnswerMeant
    <2>2. /\ message' = r /\ header' = header
          /\ body' = TakePayload(r.kind, From(wire, 1, size), size)
          /\ wire' = From(wire, size + 1, Len(wire) - size)
          /\ pc' = IF r.kind = "id" THEN "store" ELSE "done"
      BY <1>4 DEF ReceivePayload, Taken
    <2>3. p \in Seq(Byte)
      BY <1>1, ResponsePayloadRead
    <2>4. From(wire, 1, size) = p
      BY <2>1, <2>3, CutWhole
    <2>5. wire' = <<>>
      BY <2>1, <2>2, <2>3, NothingLeft
    <2>6. body' = TakePayload(r.kind, p, Len(p))
      BY <2>1, <2>2, <2>4
    <2>7. /\ r.kind = "id" => body' = r.id
          /\ r.kind = "key" => body' = r.key
          /\ r.kind = "file" => body' = r.checksum
      BY <1>1, <2>6, ResponsePayloadRead
    <2>8. QED  BY <1>1, <2>1, <2>2, <2>5, <2>7 DEF ResponseInv
  <1>5. ASSUME WriteMeInfo
        PROVE  ResponseInv'
    BY <1>5 DEF WriteMeInfo, ResponseInv
  <1>6. ASSUME LoadStoredCredentials
        PROVE  ResponseInv'
    <2>1. /\ wire = HexOf(r.id) /\ header = AnswerMeant(r) /\ r.kind = "id"
          /\ pc' = "done" /\ body' = hex_to_binary(wire) /\ wire' = <<>>
          /\ message' = r /\ header' = header
      BY <1>6 DEF LoadStoredCredentials, ResponseInv
    <2>2. body' = r.id
      BY <1>1, <2>1, ResponseFields, IdBytes, IdReadBack
    <2>3. QED  BY <1>1, <2>1, <2>2 DEF ResponseInv
  <1>7. ASSUME Over
        PROVE  ResponseInv'
    BY <1>7 DEF Over, vars, ResponseInv
  <1>8. CASE ParseRequestHeader \/ ParsePayload
    BY <1>8 DEF ParseRequestHeader, ParsePayload, ResponseInv
  <1>9. QED  BY <1>2, <1>3, <1>4, <1>5, <1>6, <1>7, <1>8 DEF Next

LEMMA CodecInvariant == ASSUME LITTLE_ENDIAN PROVE Spec => []CodecInv
  <1>1. CodecInv /\ [Next]_vars => CodecInv'
    <2>1. ASSUME CodecInv, UNCHANGED vars
          PROVE  CodecInv'
      BY <2>1 DEF CodecInv, RequestInv, ResponseInv, vars
    <2>2. ASSUME CodecInv, Next
          PROVE  CodecInv'
      BY <2>2, RequestStep, ResponseStep DEF CodecInv
    <2>3. QED  BY <2>1, <2>2
  <1>2. QED  BY <1>1, CodecInitially, PTL DEF Spec
-----------------------------------------------------------------------------
\* The bytes on the way are bytes at every step, the message is of the kind that
\* the step is about, and me.info has two digits for each byte of the id.
THEOREM CodecTyped == ASSUME LITTLE_ENDIAN PROVE Spec => []TypeOK
  <1>1. ASSUME RequestInv
        PROVE  TypeOK
    <2>1. message \in Requests
      BY <1>1 DEF RequestInv
    <2>2. wire \in {<<>>, Packet(message), Payload(message)}
      BY <1>1 DEF RequestInv
    <2>3. <<>> \in Seq(Byte) /\ Packet(message) \in Seq(Byte) /\ Payload(message) \in Seq(Byte)
      BY <2>1, EmptySeq, RequestHeaderRead, PayloadBytes
    <2>4. pc \in {"request", "header", "payload", "done"}
      BY <1>1 DEF RequestInv
    <2>5. QED  BY <2>1, <2>2, <2>3, <2>4 DEF TypeOK
  <1>2. ASSUME ResponseInv
        PROVE  TypeOK
    <2>1. message \in Responses
      BY <1>2 DEF ResponseInv
    <2>2. wire \in {<<>>, Message(message), ResponsePayload(message), HexOf(message.id)}
      BY <1>2 DEF ResponseInv
    <2>3. /\ <<>> \in Seq(Byte) /\ Message(message) \in Seq(Byte)
          /\ ResponsePayload(message) \in Seq(Byte)
      BY <2>1, EmptySeq, ResponseHeaderRead, ResponsePayloadRead
    <2>4. HexOf(message.id) \in Seq(Byte)
      BY <2>1, ResponseFields, IdBytes, IdReadBack
    <2>5. pc \in {"response", "answer", "answerPayload", "store", "load", "done"}
      BY <1>2 DEF ResponseInv
    <2>6. ASSUME pc = "load"
          PROVE  wire \in [1..(2 * ID_SIZE) -> 0..(DIGIT - 1)]
      <3>1. wire = HexOf(message.id)
        BY <1>2, <2>6 DEF ResponseInv
      <3>2. message.id \in Seq(Byte) /\ Len(message.id) = ID_SIZE
        BY <2>1, ResponseFields, IdBytes
      <3>3. QED  BY <3>1, <3>2, HexOfDigits
    <2>7. QED  BY <2>1, <2>2, <2>3, <2>4, <2>5, <2>6 DEF TypeOK
  <1>3. CodecInv => TypeOK
    BY <1>1, <1>2 DEF CodecInv
  <1>4. QED  BY <1>3, CodecInvariant, PTL

\* For fields of any width and any values in them, the server takes every field
\* of a request as the client meant it and leaves nothing on the wire: the shifts
\* of the serialize functions agree with the formats of protocol_constants.py.
\* The client has to run where AESWrapper.cpp builds, on a little-endian machine.
THEOREM RequestReadAsMeantHolds == ASSUME LITTLE_ENDIAN PROVE Spec => []RequestReadAsMeant
  <1>1. CodecInv => RequestReadAsMeant
    <2>1. SUFFICES ASSUME CodecInv, Done(Requests)
                   PROVE  /\ wire = <<>>
                          /\ \A f \in {"id", "version", "code"} : header[f] = message[f]
                          /\ \A f \in DOMAIN body \ {"name"} : body[f] = message[f]
                          /\ body.name = Short(message.name)
      BY DEF RequestReadAsMeant
    <2>2. pc = "done" /\ message \in Requests
      BY <2>1 DEF Done
    <2>3. RequestInv
      BY <2>1, <2>2, RequestsAreNoResponses DEF CodecInv, ResponseInv
    <2>4. wire = <<>> /\ header = HeaderMeant(message) /\ BodyMeant(message, body)
      BY <2>2, <2>3 DEF RequestInv
    <2>5. \A f \in {"id", "version", "code"} : header[f] = message[f]
      BY <2>4 DEF HeaderMeant
    <2>6. QED  BY <2>4, <2>5 DEF BodyMeant
  <1>2. QED  BY <1>1, CodecInvariant, PTL

\* What is left of CodecInv when a response has been taken.
LEMMA ResponseTaken ==
    ASSUME CodecInv, Done(Responses)
    PROVE  /\ wire = <<>> /\ header = AnswerMeant(message)
           /\ message.kind = "id" => body = message.id
           /\ message.kind = "key" => body = message.key
           /\ message.kind = "file" => body = message.checksum
  <1>1. pc = "done" /\ message \in Responses
    BY DEF Done
  <1>2. ResponseInv
    BY <1>1, RequestsAreNoResponses DEF CodecInv, RequestInv
  <1>3. QED  BY <1>1, <1>2 DEF ResponseInv

\* For fields of any width, the client takes from a response the code, the key
\* and the checksum the server packed, and nothing of it is left for the next
\* (_construct_response_message against unpack_response_header and its callers).
THEOREM ResponseReadAsMeantHolds == ASSUME LITTLE_ENDIAN PROVE Spec => []ResponseReadAsMeant
  <1>1. CodecInv => ResponseReadAsMeant
    <2>1. SUFFICES ASSUME CodecInv, Done(Responses)
                   PROVE  /\ wire = <<>>
                          /\ header.version = message.version /\ header.code = message.code
                          /\ message.kind = "key" => body = message.key
                          /\ message.kind = "file" => body = message.checksum
      BY DEF ResponseReadAsMeant
    <2>2. QED  BY <2>1, ResponseTaken DEF AnswerMeant
  <1>2. QED  BY <1>1, CodecInvariant, PTL

\* An id of any length and any bytes comes back from me.info as the server gave
\* it: two digits are written for every byte, small ones too, and read in pairs
\* (write_me_info and hex_to_binary).
THEOREM IdSurvivesFileHolds == ASSUME LITTLE_ENDIAN PROVE Spec => []IdSurvivesFile
  <1>1. CodecInv => IdSurvivesFile
    BY ResponseTaken DEF IdSurvivesFile
  <1>2. QED  BY <1>1, CodecInvariant, PTL
=============================================================================
