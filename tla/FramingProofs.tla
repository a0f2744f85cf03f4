--------------------------- MODULE FramingProofs ----------------------------
(***************************************************************************)
(* Theorems about Framing, for any script of requests, any sizes of a      *)
(* header and of the payloads, and any pieces the bytes arrive in.         *)
(***************************************************************************)
EXTENDS Framing, Integers, SequenceTheorems, TLAPS

-----------------------------------------------------------------------------
(* The inductive invariant.  What is in the stream is described by places: *)
(* from any byte of it the end of its request is known, what lies between  *)
(* is the rest of that request, and what follows is the next one.          *)

Byte == Nat \X Nat
Size(r) == HEADER + PAYLOAD[Script[r]]

\* The bytes written and not read.
Stream == buf \o wire

\* Where in s the request of its i-th byte ends, or would.
EndOf(s, i) == i + Size(s[i][1]) - s[i][2]

\* The bytes of s are bytes of the first n requests.
Placed(s, n) == \A i \in 1..Len(s) : s[i][1] \in 1..n /\ s[i][2] \in 1..Size(s[i][1])

\* s has no gap, inside a request or between two.
Contiguous(s) ==
    \A i, j \in 1..Len(s) : i <= j =>
        /\ j <= EndOf(s, i) => s[j] = <<s[i][1], s[i][2] + (j - i)>>
        /\ j = EndOf(s, i) + 1 => s[j] = <<s[i][1] + 1, 1>>

\* s goes on to the end of request n.
Complete(s, n) ==
    \A i \in 1..Len(s) : /\ EndOf(s, i) <= Len(s)
                         /\ EndOf(s, i) = Len(s) <=> s[i][1] = n

\* The byte the server takes the next one for.
Expected == <<Len(handled) + 1, IF request = 0 THEN 1 ELSE HEADER + 1>>

ReadInv ==
    /\ Len(handled) <= sent
    /\ request # 0 => conn = "open" /\ request = Len(handled) + 1

OpenInv == conn = "open" =>
    /\ Placed(Stream, sent) /\ Contiguous(Stream)
    /\ Stream # <<>> => Stream[1] = Expected
    /\ here => /\ Complete(Stream, sent)
               /\ Stream = <<>> => request = 0 /\ Len(handled) = sent

\* What is left of a name that was cut short starts inside a request.
GarbledInv == conn = "garbled" =>
    /\ Stream # <<>> => Stream[1][2] # 1
    /\ here => Stream # <<>>

\* A request that is not handled yet has no answer on its way before it, and
\* only the last one sent may be waited for.
AnswerInv ==
    /\ \A i \in 1..Len(answers) : answers[i] # 0 =>
           i = 1 /\ answers[i] = sent /\ waiting /\ Len(handled) = sent
    /\ conn = "closed" =>
         \A i \in 1..Len(answers) : answers[i] = 0 => i = Len(answers)
    /\ conn # "closed" =>
         /\ \A i \in 1..Len(answers) : answers[i] # 0
         /\ Len(handled) < sent =>
              /\ answers = <<>>
              /\ \A r \in (Len(handled) + 1)..(sent - 1) : Script[r] = "packet"
              /\ Script[sent] # "packet" => waiting

FramingInv == TypeOK /\ ReadInv /\ OpenInv /\ GarbledInv /\ AnswerInv
-----------------------------------------------------------------------------
(* Sequences of bytes. *)

LEMMA Sizes ==
    /\ HEADER \in Nat \ {0} /\ Len(Script) \in Nat
    /\ \A k \in Kind : PAYLOAD[k] \in Nat \ {0}
    /\ \A r \in 1..Len(Script) : /\ Script[r] \in Kind
                                 /\ Size(r) \in Nat /\ HEADER < Size(r)
                                 /\ Size(r) = HEADER + PAYLOAD[Script[r]]
  BY FramingConstantsOK, LenProperties, ElementOfSeq DEF Size

LEMMA BytesOf ==
    ASSUME NEW r \in 1..Len(Script)
    PROVE  /\ Bytes(r) \in Seq(Byte) /\ Len(Bytes(r)) = Size(r)
           /\ \A i \in 1..Size(r) : Bytes(r)[i] = <<r, i>>
  <1>1. Size(r) \in Nat /\ r \in Nat
    BY Sizes
  <1>2. Bytes(r) = [i \in 1..Size(r) |-> <<r, i>>]
    BY DEF Bytes, Size
  <1>3. Bytes(r) \in [1..Size(r) -> Byte]
    BY <1>1, <1>2 DEF Byte
  <1>4. Bytes(r) \in Seq(Byte) /\ Len(Bytes(r)) = Size(r)
    BY <1>1, <1>3, SeqDef
  <1>5. QED  BY <1>2, <1>4

\* What is left of s without its first m bytes.
LEMMA DropProperties ==
    ASSUME NEW S, NEW s \in Seq(S), NEW m \in 0..Len(s)
    PROVE  /\ SubSeq(s, m + 1, Len(s)) \in Seq(S)
           /\ Len(SubSeq(s, m + 1, Len(s))) = Len(s) - m
           /\ \A i \in 1..(Len(s) - m) : SubSeq(s, m + 1, Len(s))[i] = s[m + i]
  <1>1. Len(s) \in Nat /\ m \in Nat /\ \A i \in (m + 1)..Len(s) : s[i] \in S
    BY LenProperties, ElementOfSeq
  <1>2. QED  BY <1>1, SubSeqProperties

LEMMA TakeProperties ==
    ASSUME NEW S, NEW s \in Seq(S), NEW m \in 0..Len(s)
    PROVE  /\ SubSeq(s, 1, m) \in Seq(S)
           /\ Len(SubSeq(s, 1, m)) = m
           /\ \A i \in 1..m : SubSeq(s, 1, m)[i] = s[i]
  <1>1. Len(s) \in Nat /\ m \in Nat /\ \A i \in 1..m : s[i] \in S
    BY LenProperties, ElementOfSeq
  <1>2. QED  BY <1>1, SubSeqProperties

LEMMA DropConcat ==
    ASSUME NEW S, NEW s \in Seq(S), NEW t \in Seq(S), NEW m \in 0..Len(s)
    PROVE  SubSeq(s \o t, m + 1, Len(s \o t)) = SubSeq(s, m + 1, Len(s)) \o t
  <1> DEFINE rest == SubSeq(s, m + 1, Len(s))
             all == s \o t
             left == SubSeq(all, m + 1, Len(all))
             right == rest \o t
  <1>0. Len(s) \in Nat /\ Len(t) \in Nat /\ m \in Nat
    BY LenProperties
  <1>1. /\ all \in Seq(S) /\ Len(all) = Len(s) + Len(t)
        /\ \A i \in 1..(Len(s) + Len(t)) :
             all[i] = IF i <= Len(s) THEN s[i] ELSE t[i - Len(s)]
    BY ConcatProperties
  <1>2. /\ rest \in Seq(S) /\ Len(rest) = Len(s) - m
        /\ \A i \in 1..(Len(s) - m) : rest[i] = s[m + i]
    BY DropProperties
  <1>3. m \in 0..Len(all)
    BY <1>0, <1>1
  <1>4. /\ left \in Seq(S) /\ Len(left) = Len(all) - m
        /\ \A i \in 1..(Len(all) - m) : left[i] = all[m + i]
    BY <1>1, <1>3, DropProperties
  <1>5. /\ right \in Seq(S) /\ Len(right) = Len(rest) + Len(t)
        /\ \A i \in 1..(Len(rest) + Len(t)) :
             right[i] = IF i <= Len(rest) THEN rest[i] ELSE t[i - Len(rest)]
    BY <1>2, ConcatProperties
  <1> HIDE DEF all, rest, left, right
  <1>6. Len(left) = Len(right)
    BY <1>0, <1>1, <1>2, <1>4, <1>5
  <1>7. ASSUME NEW i \in 1..Len(left)
        PROVE  left[i] = right[i]
    <2>1. left[i] = all[m + i] /\ i \in 1..(Len(all) - m)
      BY <1>0, <1>1, <1>4
    <2>2. CASE i <= Len(rest)
      BY <2>1, <2>2, <1>0, <1>1, <1>2, <1>4, <1>5, <1>6
    <2>3. CASE ~(i <= Len(rest))
      <3>1. right[i] = t[i - Len(rest)]
        BY <2>1, <2>3, <1>0, <1>1, <1>2, <1>5, <1>4
      <3>2. all[m + i] = t[(m + i) - Len(s)]
        BY <2>1, <2>3, <1>0, <1>1, <1>2, SMTT(30)
      <3>3. (m + i) - Len(s) = i - Len(rest)
        BY <1>0, <1>2
      <3>4. QED  BY <2>1, <3>1, <3>2, <3>3
    <2>4. QED  BY <2>2, <2>3
  <1>8. left = right
    BY <1>4, <1>5, <1>6, <1>7, SeqEqual
  <1>9. QED  BY <1>8 DEF all, rest, left, right

LEMMA MoveConcat ==
    ASSUME NEW S, NEW s \in Seq(S), NEW t \in Seq(S), NEW m \in 0..Len(t)
    PROVE  (s \o SubSeq(t, 1, m)) \o SubSeq(t, m + 1, Len(t)) = s \o t
  <1> DEFINE first == SubSeq(t, 1, m)
             rest == SubSeq(t, m + 1, Len(t))
  <1>0. Len(t) \in Nat /\ m \in Nat
    BY LenProperties
  <1>1. first \in Seq(S) /\ rest \in Seq(S)
    BY TakeProperties, DropProperties
  <1>2. 1 \in 1..Len(t) + 1 /\ m \in 1 - 1..Len(t) /\ Len(t) \in m..Len(t)
    BY <1>0
  <1>3. first \o rest = SubSeq(t, 1, Len(t))
    BY <1>2, ConcatAdjacentSubSeq
  <1>4. SubSeq(t, 1, Len(t)) = t
    BY SubSeqFull
  <1> HIDE DEF first, rest
  <1>5. (s \o first) \o rest = s \o (first \o rest)
    BY <1>1, ConcatAssociative, SMTT(30)
  <1>6. QED  BY <1>3, <1>4, <1>5 DEF first, rest
-----------------------------------------------------------------------------
(* What keeps a sequence of bytes without gaps. *)

\* The numbers in a byte of a request.
LEMMA PlacedBytes ==
    ASSUME NEW n \in 0..Len(Script), NEW s \in Seq(Byte), Placed(s, n),
           NEW i \in 1..Len(s)
    PROVE  /\ s[i] = <<s[i][1], s[i][2]>>
           /\ s[i][1] \in 1..n /\ s[i][2] \in Nat /\ 1 <= s[i][2]
           /\ Size(s[i][1]) \in Nat /\ s[i][2] <= Size(s[i][1])
           /\ EndOf(s, i) \in Nat /\ i <= EndOf(s, i)
  <1>1. s[i] \in Byte /\ Len(s) \in Nat
    BY ElementOfSeq, LenProperties
  <1>2. s[i][1] \in 1..n /\ s[i][2] \in 1..Size(s[i][1])
    BY DEF Placed
  <1>3. Size(s[i][1]) \in Nat
    BY <1>2, Sizes
  <1>4. s[i] = <<s[i][1], s[i][2]>>
    BY <1>1 DEF Byte
  <1>5. QED  BY <1>1, <1>2, <1>3, <1>4 DEF EndOf

LEMMA PrefixKeeps ==
    ASSUME NEW n \in 0..Len(Script), NEW s \in Seq(Byte), NEW t \in Seq(Byte),
           Placed(s, n), Contiguous(s),
           Len(t) <= Len(s), \A i \in 1..Len(t) : t[i] = s[i]
    PROVE  Placed(t, n) /\ Contiguous(t)
  <1>1. Len(s) \in Nat /\ Len(t) \in Nat
    BY LenProperties
  <1>2. \A i \in 1..Len(t) : i \in 1..Len(s) /\ EndOf(t, i) = EndOf(s, i)
    BY <1>1 DEF EndOf
  <1>3. Placed(t, n)
    BY <1>2 DEF Placed
  <1>4. Contiguous(t)
    BY <1>2, SMTT(30) DEF Contiguous
  <1>5. QED  BY <1>3, <1>4

LEMMA DropKeeps ==
    ASSUME NEW n \in 0..Len(Script), NEW s \in Seq(Byte), NEW t \in Seq(Byte),
           NEW m \in 0..Len(s),
           Placed(s, n), Contiguous(s),
           Len(t) = Len(s) - m, \A i \in 1..Len(t) : t[i] = s[m + i]
    PROVE  /\ Placed(t, n) /\ Contiguous(t)
           /\ Complete(s, n) => Complete(t, n)
  <1>1. Len(s) \in Nat /\ Len(t) \in Nat /\ m \in Nat
    BY LenProperties
  <1>2. ASSUME NEW i \in 1..Len(t)
        PROVE  /\ m + i \in 1..Len(s) /\ t[i] = s[m + i]
               /\ EndOf(s, m + i) \in Nat /\ EndOf(t, i) = EndOf(s, m + i) - m
    <2>1. m + i \in 1..Len(s) /\ t[i] = s[m + i]
      BY <1>1
    <2>2. /\ Size(s[m + i][1]) \in Nat /\ s[m + i][2] \in Nat
          /\ EndOf(s, m + i) \in Nat
      BY <2>1, PlacedBytes
    <2>3. EndOf(t, i) = EndOf(s, m + i) - m
      <3> DEFINE size == Size(s[m + i][1])
                 place == s[m + i][2]
      <3>1. EndOf(t, i) = i + size - place /\ EndOf(s, m + i) = (m + i) + size - place
        BY <2>1 DEF EndOf
      <3>2. size \in Nat /\ place \in Nat /\ i \in Nat
        BY <1>1, <2>2
      <3> HIDE DEF size, place
      <3>3. QED  BY <1>1, <3>1, <3>2
    <2>4. QED  BY <2>1, <2>2, <2>3
  <1>3. Placed(t, n)
    BY <1>2 DEF Placed
  <1>4. ASSUME NEW i \in 1..Len(t), NEW j \in 1..Len(t), i <= j
        PROVE  /\ j <= EndOf(t, i) => t[j] = <<t[i][1], t[i][2] + (j - i)>>
               /\ j = EndOf(t, i) + 1 => t[j] = <<t[i][1] + 1, 1>>
    <2>1. m + i <= m + j /\ (m + j) - (m + i) = j - i
      BY <1>1, <1>4
    <2>2. /\ m + j <= EndOf(s, m + i) =>
                s[m + j] = <<s[m + i][1], s[m + i][2] + ((m + j) - (m + i))>>
          /\ m + j = EndOf(s, m + i) + 1 => s[m + j] = <<s[m + i][1] + 1, 1>>
      BY <1>2, <2>1 DEF Contiguous
    <2>3. /\ j <= EndOf(t, i) => m + j <= EndOf(s, m + i)
          /\ j = EndOf(t, i) + 1 => m + j = EndOf(s, m + i) + 1
      <3> DEFINE e == EndOf(s, m + i)
      <3>1. e \in Nat /\ EndOf(t, i) = e - m /\ j \in Nat
        BY <1>1, <1>2
      <3> HIDE DEF e
      <3>2. /\ j <= e - m => m + j <= e
            /\ j = (e - m) + 1 => m + j = e + 1
        BY <1>1, <3>1
      <3>3. QED  BY <3>1, <3>2 DEF e
    <2>4. t[i] = s[m + i] /\ t[j] = s[m + j]
      BY <1>2
    <2>5. QED  BY <2>1, <2>2, <2>3, <2>4
  <1>5. ASSUME Complete(s, n), NEW i \in 1..Len(t)
        PROVE  EndOf(t, i) <= Len(t) /\ (EndOf(t, i) = Len(t) <=> t[i][1] = n)
    <2>1. EndOf(s, m + i) <= Len(s) /\ (EndOf(s, m + i) = Len(s) <=> s[m + i][1] = n)
      BY <1>2, <1>5 DEF Complete
    <2> DEFINE e == EndOf(s, m + i)
    <2>2. e \in Nat /\ EndOf(t, i) = e - m /\ t[i] = s[m + i]
      BY <1>2
    <2>3. e <= Len(s) /\ (e = Len(s) <=> t[i][1] = n)
      BY <2>1, <2>2
    <2> HIDE DEF e
    <2>4. e - m <= Len(t) /\ (e - m = Len(t) <=> e = Len(s))
      BY <1>1, <2>2, <2>3
    <2>5. QED  BY <2>2, <2>3, <2>4
  <1>6. QED
    <2>1. Contiguous(t)
      BY <1>4 DEF Contiguous
    <2>2. Complete(s, n) => Complete(t, n)
      BY <1>5 DEF Complete
    <2>3. QED  BY <1>3, <2>1, <2>2

LEMMA AppendKeeps ==
    ASSUME NEW n \in Nat, n + 1 \in 1..Len(Script), NEW s \in Seq(Byte),
           Placed(s, n), Contiguous(s), Complete(s, n)
    PROVE  LET t == s \o Bytes(n + 1) IN
           /\ t \in Seq(Byte) /\ Len(t) = Len(s) + Size(n + 1) /\ Len(s) < Len(t)
           /\ \A i \in 1..Len(s) : t[i] = s[i]
           /\ \A i \in 1..Size(n + 1) : t[Len(s) + i] = <<n + 1, i>>
           /\ Placed(t, n + 1) /\ Contiguous(t) /\ Complete(t, n + 1)
  <1> DEFINE r == n + 1
             t == s \o Bytes(r)
             L == Len(s)
             Z == Size(r)
  <1>0. L \in Nat /\ Z \in Nat /\ 0 < Z /\ r = n + 1 /\ r \in 1..Len(Script)
    BY LenProperties, Sizes
  <1>1. /\ Bytes(r) \in Seq(Byte) /\ Len(Bytes(r)) = Z
        /\ \A i \in 1..Z : Bytes(r)[i] = <<r, i>>
    BY <1>0, BytesOf
  <1>2. /\ t \in Seq(Byte) /\ Len(t) = L + Z
        /\ \A i \in 1..(L + Z) : t[i] = IF i <= L THEN s[i] ELSE Bytes(r)[i - L]
    BY <1>1, ConcatProperties, ZenonT(40)
  <1>3. Size(r) = Z
    OBVIOUS
  <1> HIDE DEF t, L, Z, r
  <1>4. ASSUME NEW i \in 1..L
        PROVE  /\ i \in 1..Len(t) /\ t[i] = s[i] /\ EndOf(t, i) = EndOf(s, i)
               /\ EndOf(s, i) \in Nat /\ i <= EndOf(s, i) /\ EndOf(s, i) <= L
               /\ EndOf(s, i) = L <=> s[i][1] = n
               /\ s[i][1] \in 1..n
    <2>1. i \in 1..Len(t) /\ t[i] = s[i]
      BY <1>0, <1>2
    <2>2. EndOf(t, i) = EndOf(s, i)
      BY <2>1 DEF EndOf
    <2>3. n \in 0..Len(Script) /\ i \in 1..Len(s)
      BY <1>0, Sizes DEF L
    <2>4. EndOf(s, i) \in Nat /\ i <= EndOf(s, i) /\ s[i][1] \in 1..n
      BY <2>3, PlacedBytes
    <2>5. EndOf(s, i) <= L /\ (EndOf(s, i) = L <=> s[i][1] = n)
      BY <2>3 DEF Complete, L
    <2>6. QED  BY <2>1, <2>2, <2>4, <2>5
  <1>5. ASSUME NEW i \in (L + 1)..(L + Z)
        PROVE  /\ i \in 1..Len(t) /\ t[i] = <<r, i - L>> /\ EndOf(t, i) = L + Z
               /\ t[i][1] = r /\ t[i][2] = i - L
    <2>1. i \in 1..Len(t) /\ t[i] = Bytes(r)[i - L] /\ i - L \in 1..Z
      BY <1>0, <1>2
    <2>2. t[i] = <<r, i - L>>
      BY <1>1, <2>1
    <2>3. t[i][1] = r /\ t[i][2] = i - L
      BY <2>2
    <2>4. EndOf(t, i) = i + Z - (i - L)
      BY <1>3, <2>3 DEF EndOf
    <2>5. QED  BY <1>0, <2>1, <2>2, <2>3, <2>4
  <1>6. \A i \in 1..Len(t) : i \in 1..L \/ i \in (L + 1)..(L + Z)
    BY <1>0, <1>2
  <1>7. Placed(t, r)
    <2>1. ASSUME NEW i \in 1..Len(t), i \in 1..L
          PROVE  t[i][1] \in 1..r /\ t[i][2] \in 1..Size(t[i][1])
      <3>1. s[i][1] \in 1..n /\ s[i][2] \in 1..Size(s[i][1])
        BY <2>1 DEF Placed, L
      <3>2. t[i] = s[i]
        BY <1>4, <2>1
      <3>3. 1..n \subseteq 1..r
        BY <1>0
      <3>4. QED  BY <3>1, <3>2, <3>3
    <2>2. ASSUME NEW i \in 1..Len(t), i \in (L + 1)..(L + Z)
          PROVE  t[i][1] \in 1..r /\ t[i][2] \in 1..Size(t[i][1])
      <3>1. t[i][1] = r /\ t[i][2] \in 1..Z
        BY <1>0, <1>5, <2>2
      <3>2. QED  BY <1>0, <1>3, <3>1
    <2>3. QED  BY <1>6, <2>1, <2>2 DEF Placed
  <1>8. Contiguous(t)
    <2> SUFFICES ASSUME NEW i \in 1..Len(t), NEW j \in 1..Len(t), i <= j
                 PROVE  /\ j <= EndOf(t, i) => t[j] = <<t[i][1], t[i][2] + (j - i)>>
                        /\ j = EndOf(t, i) + 1 => t[j] = <<t[i][1] + 1, 1>>
      BY DEF Contiguous
    <2>1. CASE i \in 1..L /\ j \in 1..L
      <3>1. /\ j <= EndOf(s, i) => s[j] = <<s[i][1], s[i][2] + (j - i)>>
            /\ j = EndOf(s, i) + 1 => s[j] = <<s[i][1] + 1, 1>>
        BY <2>1 DEF Contiguous, L
      <3>2. EndOf(t, i) = EndOf(s, i) /\ t[i] = s[i] /\ t[j] = s[j]
        BY <1>4, <2>1
      <3>3. QED  BY <3>1, <3>2
    <2>2. CASE i \in 1..L /\ j \in (L + 1)..(L + Z)
      <3> DEFINE e == EndOf(s, i)
      <3>1. /\ EndOf(t, i) = e /\ e \in Nat /\ e <= L
            /\ e = L <=> s[i][1] = n
            /\ t[i] = s[i]
        BY <1>4, <2>2
      <3>2. t[j] = <<r, j - L>>
        BY <1>5, <2>2
      <3> HIDE DEF e
      <3>3. ~(j <= e)
        BY <1>0, <2>2, <3>1
      <3>4. ASSUME j = e + 1
            PROVE  t[j] = <<t[i][1] + 1, 1>>
        <4>1. e = L /\ j - L = 1
          BY <1>0, <2>2, <3>1, <3>4
        <4>2. t[i][1] + 1 = r
          BY <1>0, <3>1, <4>1
        <4>3. QED  BY <3>2, <4>1, <4>2
      <3>5. QED  BY <3>1, <3>3, <3>4
    <2>3. CASE i \in (L + 1)..(L + Z) /\ j \in (L + 1)..(L + Z)
      <3>1. /\ t[j] = <<r, j - L>> /\ EndOf(t, i) = L + Z
            /\ t[i][1] = r /\ t[i][2] = i - L
        BY <1>5, <2>3
      <3>2. (i - L) + (j - i) = j - L /\ j # (L + Z) + 1
        BY <1>0, <2>3
      <3>3. QED  BY <3>1, <3>2
    <2>4. ~(i \in (L + 1)..(L + Z) /\ j \in 1..L)
      BY <1>0
    <2>5. QED  BY <1>6, <2>1, <2>2, <2>3, <2>4
  <1>9. Complete(t, r)
    <2>1. ASSUME NEW i \in 1..Len(t), i \in 1..L
          PROVE  EndOf(t, i) <= Len(t) /\ (EndOf(t, i) = Len(t) <=> t[i][1] = r)
      <3> DEFINE e == EndOf(s, i)
      <3>1. EndOf(t, i) = e /\ e \in Nat /\ e <= L /\ t[i] = s[i] /\ s[i][1] \in 1..n
        BY <1>4, <2>1
      <3> HIDE DEF e
      <3>2. e <= Len(t) /\ e # Len(t) /\ s[i][1] # r
        BY <1>0, <1>2, <3>1
      <3>3. QED  BY <3>1, <3>2
    <2>2. ASSUME NEW i \in 1..Len(t), i \in (L + 1)..(L + Z)
          PROVE  EndOf(t, i) <= Len(t) /\ (EndOf(t, i) = Len(t) <=> t[i][1] = r)
      <3>1. EndOf(t, i) = Len(t) /\ t[i][1] = r
        BY <1>2, <1>5, <2>2
      <3>2. QED  BY <1>0, <1>2, <3>1
    <2>3. QED  BY <1>6, <2>1, <2>2 DEF Complete
  <1>10. \A i \in 1..Z : t[L + i] = <<r, i>>
    <2>1. ASSUME NEW i \in 1..Z
          PROVE  t[L + i] = <<r, i>>
      <3>1. L + i \in (L + 1)..(L + Z) /\ (L + i) - L = i
        BY <1>0
      <3>2. QED  BY <1>5, <3>1
    <2>2. QED  BY <2>1
  <1>11. L < Len(t)
    BY <1>0, <1>2
  <1>12. /\ t \in Seq(Byte) /\ Len(t) = L + Z /\ L < Len(t)
         /\ \A i \in 1..L : t[i] = s[i]
         /\ \A i \in 1..Z : t[L + i] = <<r, i>>
         /\ Placed(t, r) /\ Contiguous(t) /\ Complete(t, r)
    BY <1>2, <1>4, <1>7, <1>8, <1>9, <1>10, <1>11
  <1>13. QED  BY <1>12 DEF t, L, Z, r
-----------------------------------------------------------------------------
(* What the server's reads do to the stream. *)

LEMMA StreamType ==
    ASSUME TypeOK
    PROVE  /\ buf \in Seq(Byte) /\ wire \in Seq(Byte) /\ Stream \in Seq(Byte)
           /\ Len(buf) \in Nat /\ Len(wire) \in Nat /\ Len(handled) \in Nat
           /\ Len(Stream) = Len(buf) + Len(wire)
           /\ \A i \in 1..Len(buf) : Stream[i] = buf[i] /\ buf[i] \in Byte
           /\ sent \in Nat /\ sent <= Len(Script) /\ request \in Nat /\ request <= sent
           /\ buf # <<>> => 0 < Len(buf)
           /\ Stream # <<>> => 0 < Len(Stream)
           /\ Len(Stream) # 0 => Stream # <<>>
  <1>1. buf \in Seq(Byte) /\ wire \in Seq(Byte) /\ handled \in Seq(1..sent)
    BY DEF TypeOK, Byte
  <1>2. Len(buf) \in Nat /\ Len(wire) \in Nat /\ Len(handled) \in Nat
    BY <1>1, LenProperties
  <1>3. /\ Stream \in Seq(Byte) /\ Len(Stream) = Len(buf) + Len(wire)
        /\ \A i \in 1..(Len(buf) + Len(wire)) :
             Stream[i] = IF i <= Len(buf) THEN buf[i] ELSE wire[i - Len(buf)]
    BY <1>1, ConcatProperties DEF Stream
  <1>4. \A i \in 1..Len(buf) : Stream[i] = buf[i] /\ buf[i] \in Byte
    BY <1>1, <1>2, <1>3, ElementOfSeq
  <1>5. sent \in Nat /\ sent <= Len(Script) /\ request \in Nat /\ request <= sent
    BY Sizes DEF TypeOK
  <1>6. (buf # <<>> => 0 < Len(buf)) /\ (Stream # <<>> => 0 < Len(Stream))
    <2>1. (buf # <<>> => Len(buf) \in Nat \ {0}) /\ (Stream # <<>> => Len(Stream) \in Nat \ {0})
      BY <1>1, <1>3, EmptySeq
    <2>2. QED  BY <2>1
  <1>7. Len(Stream) # 0 => Stream # <<>>
    BY EmptySeq
  <1>8. QED  BY <1>1, <1>2, <1>3, <1>4, <1>5, <1>6, <1>7

LEMMA AvailableType ==
    ASSUME TypeOK, NEW size \in Nat
    PROVE  /\ Available(size) \in 0..Len(buf) /\ Available(size) \in Nat
           /\ Len(buf) >= size => Available(size) = size
           /\ Len(buf) < size => Available(size) = Len(buf)
  <1>1. Len(buf) \in Nat
    BY StreamType
  <1>2. QED  BY <1>1 DEF Available

\* A recv takes bytes from the front of the stream.
LEMMA ReadDrops ==
    ASSUME TypeOK, NEW m \in 0..Len(buf),
           buf' = SubSeq(buf, m + 1, Len(buf)), wire' = wire
    PROVE  /\ Stream' \in Seq(Byte) /\ buf' \in Seq(Byte)
           /\ Len(buf') = Len(buf) - m
           /\ Len(Stream') = Len(Stream) - m
           /\ \A i \in 1..Len(Stream') : Stream'[i] = Stream[m + i]
  <1>1. /\ buf \in Seq(Byte) /\ wire \in Seq(Byte) /\ Stream \in Seq(Byte)
        /\ Len(buf) \in Nat /\ Len(wire) \in Nat /\ Len(Stream) = Len(buf) + Len(wire)
    BY StreamType
  <1>2. Stream' = SubSeq(Stream, m + 1, Len(Stream))
    BY <1>1, DropConcat DEF Stream
  <1>3. m \in 0..Len(Stream)
    BY <1>1
  <1>4. buf' \in Seq(Byte) /\ Len(buf') = Len(buf) - m
    BY <1>1, DropProperties
  <1>5. QED  BY <1>1, <1>2, <1>3, <1>4, DropProperties

\* A header that is taken for one is whole and starts with a request's first
\* byte.
LEMMA AlignedHeader ==
    ASSUME TypeOK, Aligned
    PROVE  /\ HEADER <= Len(buf) /\ 0 < Len(buf)
           /\ Available(HEADER) = HEADER
           /\ buf[1][1] \in 1..sent /\ buf[1][2] = 1
           /\ Stream[1] = buf[1]
  <1>1. PICK r \in 1..sent : Received(HEADER) = HeaderOf(r)
    BY DEF Aligned
  <1>2. r \in 1..Len(Script)
    BY Sizes DEF TypeOK
  <1>3. /\ HEADER \in Nat /\ 0 < HEADER /\ HEADER < Size(r) /\ Size(r) \in Nat
        /\ Len(buf) \in Nat /\ buf \in Seq(Byte)
    BY <1>2, Sizes, StreamType
  <1>4. /\ Bytes(r) \in Seq(Byte) /\ Len(Bytes(r)) = Size(r)
        /\ \A i \in 1..Size(r) : Bytes(r)[i] = <<r, i>>
    BY <1>2, BytesOf
  <1>5. /\ Len(HeaderOf(r)) = HEADER /\ HeaderOf(r)[1] = <<r, 1>>
    <2>1. HEADER \in 0..Len(Bytes(r)) /\ 1 \in 1..HEADER /\ 1 \in 1..Size(r)
      BY <1>3, <1>4
    <2>2. Len(SubSeq(Bytes(r), 1, HEADER)) = HEADER
          /\ SubSeq(Bytes(r), 1, HEADER)[1] = Bytes(r)[1]
      BY <1>4, <2>1, TakeProperties
    <2>3. QED  BY <1>4, <2>1, <2>2 DEF HeaderOf
  <1>6. Available(HEADER) \in 0..Len(buf) /\ Available(HEADER) \in Nat
    BY <1>3, AvailableType
  <1>7. /\ Len(Received(HEADER)) = Available(HEADER)
        /\ \A i \in 1..Available(HEADER) : Received(HEADER)[i] = buf[i]
    BY <1>3, <1>6, TakeProperties DEF Received
  <1>8. Available(HEADER) = HEADER /\ HEADER <= Len(buf) /\ 0 < Len(buf)
    BY <1>1, <1>3, <1>5, <1>6, <1>7
  <1>9. buf[1] = <<r, 1>>
    <2>1. 1 \in 1..Available(HEADER)
      BY <1>3, <1>8
    <2>2. QED  BY <1>1, <1>5, <1>7, <2>1
  <1>10. Stream[1] = buf[1]
    <2>1. 1 \in 1..Len(buf)
      BY <1>3, <1>8
    <2>2. QED  BY <2>1, StreamType
  <1>11. QED  BY <1>8, <1>9, <1>10
-----------------------------------------------------------------------------
(* Type correctness. *)

LEMMA ClosedType ==
    ASSUME TypeOK, Close, UNCHANGED clientVars, handled' \in Seq(1..sent),
           answers' \in Seq(0..sent)
    PROVE  TypeOK'
  BY EmptySeq DEF TypeOK, Close, clientVars

\* What a handler leaves: the request is over, and it is answered or not.
LEMMA HandledType ==
    ASSUME TypeOK, request # 0, Handled(request), UNCHANGED <<clientVars, wire>>,
           buf' \in Seq(Byte), conn' \in {"open", "garbled"}
    PROVE  TypeOK'
  <1>1. request \in 1..sent /\ request \in 0..sent
    BY StreamType DEF TypeOK
  <1>2. handled' \in Seq(1..sent)
    BY <1>1, AppendProperties DEF TypeOK, Handled
  <1>3. answers' \in Seq(0..sent)
    BY <1>1, AppendProperties DEF TypeOK, Handled, Answered
  <1>4. request' \in 0..sent
    BY StreamType DEF Handled
  <1>5. QED  BY <1>2, <1>3, <1>4 DEF TypeOK, clientVars, Byte

LEMMA TypeInit ==
    ASSUME Init
    PROVE  TypeOK
  <1>1. <<>> \in Seq(Nat \X Nat) /\ <<>> \in Seq(1..0) /\ <<>> \in Seq(0..0)
    BY EmptySeq
  <1>2. 0 \in 0..Len(Script) /\ 0 \in 0..0
    BY Sizes
  <1>3. sent = 0 /\ wire = <<>> /\ buf = <<>> /\ handled = <<>> /\ answers = <<>>
    BY DEF Init
  <1>4. handled \in Seq(1..sent) /\ answers \in Seq(0..sent)
    BY <1>1, <1>3
  <1>5. wire \in Seq(Nat \X Nat) /\ buf \in Seq(Nat \X Nat)
    BY <1>1, <1>3
  <1>6. QED  BY <1>2, <1>4, <1>5 DEF Init, TypeOK

LEMMA TypeStep ==
    ASSUME TypeOK, [Next]_vars
    PROVE  TypeOK'
  <1>1. ASSUME Send PROVE TypeOK'
    <2>1. sent + 1 \in 1..Len(Script) /\ sent \in Nat /\ sent' = sent + 1
      BY <1>1, Sizes DEF Send, TypeOK
    <2>2. Bytes(sent + 1) \in Seq(Byte)
      BY <2>1, BytesOf
    <2>3. wire' \in Seq(Nat \X Nat)
      BY <1>1, <2>2, ConcatProperties DEF Send, TypeOK, Byte
    <2>4. handled' \in Seq(1..sent') /\ answers' \in Seq(0..sent') /\ request' \in 0..sent'
      <3>1. 1..sent \subseteq 1..sent' /\ 0..sent \subseteq 0..sent'
        BY <2>1
      <3>2. handled' = handled /\ answers' = answers /\ request' = request
        BY <1>1 DEF Send
      <3>3. QED  BY <3>1, <3>2, SeqMonotonic DEF TypeOK
    <2>5. sent' \in 0..Len(Script) /\ waiting' \in BOOLEAN
      BY <1>1, <2>1, Sizes DEF Send
    <2>6. conn' = "closed" => wire' = <<>> /\ buf' = <<>> /\ request' = 0
      BY <1>1 DEF Send, TypeOK
    <2>7. QED  BY <1>1, <2>3, <2>4, <2>5, <2>6 DEF Send, TypeOK
  <1>2. ASSUME Receive PROVE TypeOK'
    <2>1. Tail(answers) \in Seq(0..sent)
      BY <1>2, HeadTailProperties DEF Receive, TypeOK
    <2>2. here' \in BOOLEAN
      BY <1>2 DEF Receive
    <2>3. QED  BY <1>2, <2>1, <2>2 DEF Receive, TypeOK
  <1>3. ASSUME Leave PROVE TypeOK'
    BY <1>3 DEF Leave, TypeOK
  <1>4. ASSUME Deliver PROVE TypeOK'
    <2>1. PICK n \in 1..Len(wire) : /\ buf' = buf \o SubSeq(wire, 1, n)
                                   /\ wire' = SubSeq(wire, n + 1, Len(wire))
      BY <1>4 DEF Deliver
    <2>2. n \in 0..Len(wire) /\ buf \in Seq(Byte) /\ wire \in Seq(Byte)
      BY StreamType
    <2>3. buf' \in Seq(Byte) /\ wire' \in Seq(Byte)
      BY <2>1, <2>2, TakeProperties, DropProperties, ConcatProperties
    <2>4. QED  BY <1>4, <2>3 DEF Deliver, TypeOK, Byte, clientVars
  <1>5. ASSUME Reset PROVE TypeOK'
    BY <1>5, EmptySeq DEF Reset, TypeOK, clientVars
  <1>6. ASSUME ParseHeader PROVE TypeOK'
    <2>1. Available(HEADER) \in 0..Len(buf) /\ buf[1][1] \in 0..sent
      <3>1. Available(HEADER) \in 0..Len(buf)
        BY Sizes, AvailableType
      <3>2. buf[1][1] \in 1..sent
        BY <1>6, AlignedHeader DEF ParseHeader
      <3>3. QED  BY <3>1, <3>2, StreamType
    <2>2. buf' \in Seq(Byte)
      BY <1>6, <2>1, StreamType, DropProperties DEF ParseHeader, Read
    <2>3. QED  BY <1>6, <2>1, <2>2 DEF ParseHeader, Readable, TypeOK, clientVars, Byte
  <1>7. ASSUME CloseSilently PROVE TypeOK'
    BY <1>7, ClosedType DEF CloseSilently, TypeOK
  <1>8. ASSUME CloseWithFailure PROVE TypeOK'
    <2>1. Append(answers, 0) \in Seq(0..sent)
      BY StreamType, AppendProperties DEF TypeOK
    <2>2. QED  BY <1>8, <2>1, ClosedType DEF CloseWithFailure, TypeOK
  <1>9. ASSUME ReadName PROVE TypeOK'
    <2>1. Available(PAYLOAD["name"]) \in 0..Len(buf)
      BY Sizes, AvailableType DEF Kind
    <2>2. buf' \in Seq(Byte)
      BY <1>9, <2>1, StreamType, DropProperties DEF ReadName, Read
    <2>3. conn' \in {"open", "garbled"}
      BY <1>9 DEF ReadName, TypeOK
    <2>4. QED  BY <1>9, <2>2, <2>3, HandledType DEF ReadName
  <1>10. ASSUME ReadPayload PROVE TypeOK'
    <2>1. request \in 1..Len(Script)
      BY <1>10, StreamType DEF ReadPayload
    <2>2. Available(PAYLOAD[Script[request]]) \in 0..Len(buf)
      BY <2>1, Sizes, AvailableType
    <2>3. buf' \in Seq(Byte)
      BY <1>10, <2>2, StreamType, DropProperties DEF ReadPayload, Read
    <2>4. conn' \in {"open", "garbled"}
      BY <1>10 DEF ReadPayload, TypeOK
    <2>5. QED  BY <1>10, <2>3, <2>4, HandledType DEF ReadPayload
  <1>11. ASSUME UNCHANGED vars PROVE TypeOK'
    BY <1>11 DEF vars, TypeOK
  <1>12. QED
    BY <1>1, <1>2, <1>3, <1>4, <1>5, <1>6, <1>7, <1>8, <1>9, <1>10, <1>11
       DEF Next, Client, Server, Over, ShortHeader, UnknownCode, LatePayload, NoPayload

\* Every state of Framing has the types TypeOK gives it: the connection is
\* empty once it is closed, and no request is handled or answered that was not
\* sent (RequestHandler.handle_request, Client/RequestsHandler.cpp).
THEOREM FramingTyped == Spec => []TypeOK
  <1>1. Init => TypeOK
    BY TypeInit
  <1>2. TypeOK /\ [Next]_vars => TypeOK'
    BY TypeStep
  <1>3. QED  BY <1>1, <1>2, PTL DEF Spec
-----------------------------------------------------------------------------
(* The server knows where it is in the stream. *)

StreamInv == ReadInv /\ OpenInv /\ GarbledInv

\* The bytes move from the network to the socket, and nothing is read.
LEMMA SameStream ==
    ASSUME TypeOK, StreamInv, Stream' = Stream, here' => here,
           UNCHANGED <<sent, conn, request, handled>>
    PROVE  StreamInv'
  <1> DEFINE s == Stream
  <1>1. ReadInv'
    BY DEF StreamInv, ReadInv
  <1>2. OpenInv'
    <2>1. Placed(s, sent)' <=> Placed(s, sent)
      BY DEF Placed
    <2>2. Contiguous(s)' <=> Contiguous(s)
      BY DEF Contiguous, EndOf
    <2>3. Complete(s, sent)' <=> Complete(s, sent)
      BY DEF Complete, EndOf
    <2>4. Expected' = Expected
      BY DEF Expected
    <2>5. QED  BY <2>1, <2>2, <2>3, <2>4 DEF StreamInv, OpenInv
  <1>3. GarbledInv'
    BY DEF StreamInv, GarbledInv
  <1>4. QED  BY <1>1, <1>2, <1>3 DEF StreamInv

LEMMA ClosedStream ==
    ASSUME StreamInv, conn' = "closed", request' = 0, UNCHANGED <<sent, handled>>
    PROVE  StreamInv'
  BY DEF StreamInv, ReadInv, OpenInv, GarbledInv

\* A request is written: it follows what is there.
LEMMA SendStream ==
    ASSUME TypeOK, StreamInv, Send
    PROVE  StreamInv'
  <1>1. /\ sent + 1 \in 1..Len(Script) /\ sent \in Nat /\ sent' = sent + 1
        /\ here /\ here' /\ UNCHANGED <<buf, conn, request, handled>>
        /\ Len(handled) \in Nat /\ Stream \in Seq(Byte)
        /\ buf \in Seq(Byte) /\ wire \in Seq(Byte)
    BY StreamType DEF Send
  <1>2. ReadInv'
    BY <1>1 DEF StreamInv, ReadInv
  <1>3. Bytes(sent + 1) \in Seq(Byte)
    BY <1>1, BytesOf
  <1>4. conn # "closed" => Stream' = Stream \o Bytes(sent + 1)
    <2>1. ASSUME conn # "closed"
          PROVE  Stream' = Stream \o Bytes(sent + 1)
      <3>1. wire' = wire \o Bytes(sent + 1) /\ buf' = buf
        BY <2>1 DEF Send
      <3> DEFINE new == Bytes(sent + 1)
      <3>2. new \in Seq(Byte) /\ Stream' = buf \o (wire \o new)
        BY <1>3, <3>1 DEF Stream
      <3> HIDE DEF new
      <3>3. \A s, t, u \in Seq(Byte) : (s \o t) \o u = s \o (t \o u)
        BY ConcatAssociative
      <3>4. (buf \o wire) \o new = buf \o (wire \o new)
        BY <1>1, <3>2, <3>3
      <3>5. QED  BY <3>2, <3>4 DEF Stream, new
    <2>2. QED  BY <2>1
  <1>5. ASSUME conn = "open"
        PROVE  OpenInv'
    <2> DEFINE t == Stream \o Bytes(sent + 1)
    <2>1. /\ Placed(Stream, sent) /\ Contiguous(Stream) /\ Complete(Stream, sent)
          /\ Stream # <<>> => Stream[1] = Expected
          /\ Stream = <<>> => request = 0 /\ Len(handled) = sent
      BY <1>1, <1>5 DEF StreamInv, OpenInv
    <2>2. /\ t \in Seq(Byte) /\ Len(Stream) < Len(t)
          /\ \A i \in 1..Len(Stream) : t[i] = Stream[i]
          /\ \A i \in 1..Size(sent + 1) : t[Len(Stream) + i] = <<sent + 1, i>>
          /\ Placed(t, sent + 1) /\ Contiguous(t) /\ Complete(t, sent + 1)
      BY <1>1, <2>1, AppendKeeps
    <2>3. Stream' = t
      BY <1>4, <1>5
    <2>4. Placed(Stream', sent') /\ Contiguous(Stream') /\ Complete(Stream', sent')
      BY <1>1, <2>2, <2>3
    <2>5. Stream' # <<>>
      <3>1. Len(t) # 0
        <4>1. Len(Stream) \in Nat /\ Len(t) \in Nat
          BY <1>1, <2>2, LenProperties
        <4> HIDE DEF t
        <4>2. QED  BY <2>2, <4>1
      <3>2. QED  BY <2>3, <3>1, EmptySeq
    <2>6. Stream'[1] = Expected'
      <3>1. Expected' = Expected
        BY <1>1 DEF Expected
      <3>2. CASE Stream # <<>>
        <4>1. 1 \in 1..Len(Stream)
          BY <3>2, StreamType
        <4>2. QED  BY <2>1, <2>2, <2>3, <3>1, <3>2, <4>1
      <3>3. CASE Stream = <<>>
        <4>1. Len(Stream) = 0 /\ 1 \in 1..Size(sent + 1)
          BY <1>1, <3>3, EmptySeq, Sizes
        <4>2. t[1] = <<sent + 1, 1>>
          <5>1. t[Len(Stream) + 1] = <<sent + 1, 1>>
            BY <2>2, <4>1
          <5>2. Len(Stream) + 1 = 1
            BY <4>1
          <5>3. QED  BY <5>1, <5>2
        <4>3. Expected = <<sent + 1, 1>>
          BY <2>1, <3>3 DEF Expected
        <4>4. QED  BY <2>3, <3>1, <4>2, <4>3
      <3>4. QED  BY <3>2, <3>3
    <2>7. QED  BY <2>4, <2>5, <2>6 DEF OpenInv, Placed, Contiguous, Complete, EndOf
  <1>6. conn # "open" => OpenInv'
    BY <1>1 DEF OpenInv
  <1>7. GarbledInv'
    <2> SUFFICES ASSUME conn = "garbled"
                 PROVE  Stream' # <<>> /\ Stream'[1] = Stream[1] /\ Stream[1][2] # 1
      BY <1>1 DEF GarbledInv
    <2>1. Stream # <<>> /\ Stream[1][2] # 1
      BY <1>1 DEF StreamInv, GarbledInv
    <2>2. 1 \in 1..Len(Stream) /\ Len(Stream) \in Nat
      BY <2>1, StreamType
    <2>3. /\ Len(Stream') = Len(Stream) + Len(Bytes(sent + 1))
          /\ Stream'[1] = Stream[1]
      <3>1. 1 \in 1..(Len(Stream) + Len(Bytes(sent + 1)))
        BY <1>3, <2>2, LenProperties
      <3>2. 1 <= Len(Stream)
        BY <2>2
      <3>3. QED  BY <1>1, <1>3, <1>4, <3>1, <3>2, ConcatProperties
    <2>4. Len(Stream') # 0
      BY <1>3, <2>2, <2>3, LenProperties
    <2>5. QED  BY <2>1, <2>3, <2>4, EmptySeq
  <1>8. QED  BY <1>2, <1>5, <1>6, <1>7 DEF StreamInv

\* A reset takes the bytes that have not arrived; the client is gone, so
\* nothing follows them.
LEMMA ResetStream ==
    ASSUME TypeOK, StreamInv, Reset
    PROVE  StreamInv'
  <1>1. /\ ~here /\ ~here' /\ UNCHANGED <<sent, buf, conn, request, handled>>
        /\ wire' = <<>>
        /\ Len(buf) \in Nat /\ Len(wire) \in Nat
        /\ buf \in Seq(Byte) /\ Stream \in Seq(Byte)
    BY StreamType DEF Reset, clientVars
  <1>2. Stream' = buf
    BY <1>1, ConcatEmptySeq DEF Stream
  <1>3. Len(buf) <= Len(Stream) /\ \A i \in 1..Len(buf) : buf[i] = Stream[i]
    BY <1>1, StreamType
  <1>4. buf # <<>> => /\ Stream # <<>> /\ buf[1] = Stream[1]
    <2>1. ASSUME buf # <<>>
          PROVE  Stream # <<>> /\ buf[1] = Stream[1]
      <3>1. 1 \in 1..Len(buf) /\ Len(Stream) # 0
        BY <1>1, <2>1, StreamType
      <3>2. QED  BY <1>3, <3>1, StreamType
    <2>2. QED  BY <2>1
  <1>5. ReadInv'
    BY <1>1 DEF StreamInv, ReadInv
  <1>6. ASSUME conn = "open"
        PROVE  OpenInv'
    <2>1. /\ Placed(Stream, sent) /\ Contiguous(Stream)
          /\ Stream # <<>> => Stream[1] = Expected
      BY <1>6 DEF StreamInv, OpenInv
    <2>2. sent \in 0..Len(Script)
      BY DEF TypeOK
    <2>3. Placed(buf, sent) /\ Contiguous(buf)
      BY <1>1, <1>3, <2>1, <2>2, PrefixKeeps
    <2>4. Expected' = Expected
      BY <1>1 DEF Expected
    <2>5. Placed(Stream', sent') /\ Contiguous(Stream')
      BY <1>1, <1>2, <2>3
    <2>6. Stream' # <<>> => Stream'[1] = Expected'
      BY <1>2, <1>4, <2>1, <2>4
    <2>7. QED  BY <1>1, <2>5, <2>6 DEF OpenInv, Placed, Contiguous, EndOf
  <1>7. conn # "open" => OpenInv'
    BY <1>1 DEF OpenInv
  <1>8. GarbledInv'
    BY <1>1, <1>2, <1>4 DEF StreamInv, GarbledInv
  <1>9. QED  BY <1>5, <1>6, <1>7, <1>8 DEF StreamInv

\* While the connection is open, the server stands at the request after those
\* it handled, and the rest of that request is next in the stream.
LEMMA NextRequest ==
    ASSUME TypeOK, StreamInv, conn = "open", Stream # <<>>
    PROVE  /\ Stream[1] = Expected /\ 1 \in 1..Len(Stream)
           /\ Len(handled) + 1 \in 1..sent
           /\ EndOf(Stream, 1) = IF request = 0 THEN Size(Len(handled) + 1)
                                 ELSE PAYLOAD[Script[Len(handled) + 1]]
           /\ here => /\ EndOf(Stream, 1) <= Len(Stream)
                      /\ EndOf(Stream, 1) = Len(Stream) => Len(handled) + 1 = sent
  <1> DEFINE k == Len(handled) + 1
  <1>1. /\ Placed(Stream, sent) /\ Stream[1] = Expected
        /\ here => Complete(Stream, sent)
        /\ 1 \in 1..Len(Stream) /\ Len(handled) \in Nat
    <2>1. 1 \in 1..Len(Stream)
      BY StreamType
    <2>2. QED  BY <2>1, StreamType DEF StreamInv, OpenInv
  <1>2. Stream[1][1] = k /\ Stream[1][2] = IF request = 0 THEN 1 ELSE HEADER + 1
    BY <1>1 DEF Expected
  <1>3. k \in 1..sent
    BY <1>1, <1>2 DEF Placed
  <1>4. /\ Size(k) \in Nat /\ HEADER \in Nat /\ PAYLOAD[Script[k]] \in Nat
        /\ Size(k) = HEADER + PAYLOAD[Script[k]]
    <2>1. k \in 1..Len(Script)
      BY <1>3, StreamType
    <2>2. QED  BY <2>1, Sizes
  <1>5. EndOf(Stream, 1) = 1 + Size(k) - (IF request = 0 THEN 1 ELSE HEADER + 1)
    BY <1>2 DEF EndOf
  <1>6. here => /\ EndOf(Stream, 1) <= Len(Stream)
                /\ EndOf(Stream, 1) = Len(Stream) => k = sent
    BY <1>1, <1>2 DEF Complete
  <1> HIDE DEF k
  <1>7. EndOf(Stream, 1) = IF request = 0 THEN Size(k) ELSE PAYLOAD[Script[k]]
    BY <1>4, <1>5
  <1>8. QED  BY <1>1, <1>3, <1>6, <1>7 DEF k

\* Bytes of the request the server stands at, by their places in the stream.
LEMMA NextBytes ==
    ASSUME TypeOK, StreamInv, conn = "open", Stream # <<>>, NEW j \in 1..Len(Stream)
    PROVE  /\ j <= EndOf(Stream, 1) =>
                Stream[j] = <<Len(handled) + 1, Expected[2] + (j - 1)>>
           /\ j = EndOf(Stream, 1) + 1 => Stream[j] = <<Len(handled) + 2, 1>>
  <1>1. Stream[1] = Expected /\ 1 \in 1..Len(Stream) /\ Len(handled) \in Nat
    BY NextRequest, StreamType
  <1>2. Contiguous(Stream) /\ 1 <= j
    BY <1>1 DEF StreamInv, OpenInv
  <1>3. /\ j <= EndOf(Stream, 1) => Stream[j] = <<Stream[1][1], Stream[1][2] + (j - 1)>>
        /\ j = EndOf(Stream, 1) + 1 => Stream[j] = <<Stream[1][1] + 1, 1>>
    BY <1>1, <1>2 DEF Contiguous
  <1>4. Stream[1][1] = Len(handled) + 1 /\ Stream[1][2] = Expected[2]
    BY <1>1 DEF Expected
  <1>5. Stream[1][1] + 1 = Len(handled) + 2
    BY <1>1, <1>4
  <1>6. QED  BY <1>3, <1>4, <1>5

\* The places of the bytes that are left, after a read of m of them.
LEMMA ReadKeeps ==
    ASSUME TypeOK, StreamInv, conn = "open", NEW m \in 0..Len(buf),
           buf' = SubSeq(buf, m + 1, Len(buf)), UNCHANGED <<wire, sent>>
    PROVE  /\ Placed(Stream', sent') /\ Contiguous(Stream')
           /\ here => Complete(Stream', sent')
           /\ Stream' # <<>> => /\ m + 1 \in 1..Len(Stream)
                               /\ Stream'[1] = Stream[m + 1]
           /\ Stream' = <<>> => Len(Stream) = m
  <1>1. /\ Placed(Stream, sent) /\ Contiguous(Stream)
        /\ here => Complete(Stream, sent)
    BY DEF StreamInv, OpenInv
  <1>2. /\ Stream \in Seq(Byte) /\ Len(Stream) \in Nat /\ m \in 0..Len(Stream)
        /\ m \in Nat /\ sent \in 0..Len(Script)
    BY StreamType DEF TypeOK
  <1>3. /\ Stream' \in Seq(Byte) /\ Len(Stream') = Len(Stream) - m
        /\ \A i \in 1..Len(Stream') : Stream'[i] = Stream[m + i]
    BY ReadDrops
  <1>4. /\ Placed(Stream', sent) /\ Contiguous(Stream')
        /\ Complete(Stream, sent) => Complete(Stream', sent)
    BY <1>1, <1>2, <1>3, DropKeeps
  <1>5. ASSUME Stream' # <<>>
        PROVE  m + 1 \in 1..Len(Stream) /\ Stream'[1] = Stream[m + 1]
    <2>1. Len(Stream') \in Nat \ {0}
      BY <1>3, <1>5, EmptySeq
    <2>2. 1 \in 1..Len(Stream')
      BY <2>1
    <2>3. QED  BY <1>2, <1>3, <2>2
  <1>6. Stream' = <<>> => Len(Stream) = m
    <2>1. Stream' = <<>> => Len(Stream') = 0
      BY EmptySeq
    <2>2. QED  BY <1>2, <1>3, <2>1
  <1>7. QED  BY <1>1, <1>4, <1>5, <1>6

\* A header is read where a request starts; a garbled connection has none.
LEMMA ParseStream ==
    ASSUME TypeOK, StreamInv, ParseHeader
    PROVE  StreamInv' /\ conn = "open" /\ request' = Len(handled) + 1
  <1>1. /\ HEADER <= Len(buf) /\ 0 < Len(buf) /\ Available(HEADER) = HEADER
        /\ buf[1][2] = 1 /\ Stream[1] = buf[1]
    BY AlignedHeader DEF ParseHeader
  <1>2. /\ conn # "closed" /\ request = 0 /\ request' = buf[1][1]
        /\ UNCHANGED <<sent, here, wire, conn, handled>>
        /\ buf' = SubSeq(buf, HEADER + 1, Len(buf))
    BY <1>1 DEF ParseHeader, Readable, Read, clientVars
  <1>3. HEADER \in Nat /\ HEADER \in 0..Len(buf) /\ Stream # <<>> /\ Len(handled) \in Nat
    <2>1. HEADER \in Nat /\ Len(buf) \in Nat /\ Len(Stream) # 0
      BY <1>1, Sizes, StreamType
    <2>2. QED  BY <1>1, <2>1, StreamType
  <1>4. conn = "open"
    <2>1. conn # "garbled"
      BY <1>1, <1>3 DEF StreamInv, GarbledInv
    <2>2. QED  BY <1>2, <2>1 DEF TypeOK
  <1> DEFINE k == Len(handled) + 1
  <1>5. /\ Stream[1] = <<k, 1>> /\ k \in 1..sent /\ EndOf(Stream, 1) = Size(k)
        /\ here => EndOf(Stream, 1) <= Len(Stream)
    BY <1>2, <1>3, <1>4, NextRequest DEF Expected
  <1>6. request' = k /\ request' # 0
    <2>1. request' = k
      BY <1>1, <1>2, <1>5
    <2>2. QED  BY <1>5, <2>1
  <1>7. HEADER < Size(k) /\ Size(k) \in Nat
    <2>1. k \in 1..Len(Script)
      BY <1>5, StreamType
    <2>2. QED  BY <2>1, Sizes
  <1>8. /\ Placed(Stream', sent') /\ Contiguous(Stream')
        /\ here => Complete(Stream', sent')
        /\ Stream' # <<>> => /\ HEADER + 1 \in 1..Len(Stream)
                            /\ Stream'[1] = Stream[HEADER + 1]
        /\ Stream' = <<>> => Len(Stream) = HEADER
    BY <1>2, <1>3, <1>4, ReadKeeps
  <1>9. Expected' = <<k, HEADER + 1>> /\ Expected[2] = 1
    BY <1>2, <1>6 DEF Expected
  <1>10. Stream' # <<>> => Stream'[1] = Expected'
    <2> SUFFICES ASSUME Stream' # <<>>
                 PROVE  Stream[HEADER + 1] = <<k, HEADER + 1>>
      BY <1>8, <1>9
    <2>1. HEADER + 1 \in 1..Len(Stream) /\ HEADER + 1 <= EndOf(Stream, 1)
      BY <1>3, <1>5, <1>7, <1>8
    <2>2. Stream[HEADER + 1] = <<k, Expected[2] + ((HEADER + 1) - 1)>>
      BY <1>3, <1>4, <2>1, NextBytes
    <2>3. Expected[2] + ((HEADER + 1) - 1) = HEADER + 1
      BY <1>3, <1>9
    <2>4. QED  BY <2>2, <2>3
  <1>11. here => Stream' # <<>>
    BY <1>3, <1>5, <1>7, <1>8
  <1>12. OpenInv'
    BY <1>2, <1>8, <1>10, <1>11 DEF OpenInv, Placed, Contiguous, Complete, EndOf
  <1>13. ReadInv' /\ GarbledInv'
    BY <1>2, <1>4, <1>5, <1>6 DEF ReadInv, GarbledInv, StreamInv
  <1>14. QED  BY <1>4, <1>6, <1>12, <1>13 DEF StreamInv

\* A payload is read to its end, which is where the next request starts.
LEMMA PayloadStream ==
    ASSUME TypeOK, StreamInv, request # 0, Handled(request),
           NEW size, size = PAYLOAD[Script[request]], Len(buf) >= size,
           buf' = SubSeq(buf, size + 1, Len(buf)),
           UNCHANGED <<sent, here, wire, conn>>
    PROVE  StreamInv' /\ Len(handled') = Len(handled) + 1
  <1> DEFINE k == Len(handled) + 1
  <1>1. conn = "open" /\ request = k /\ request' = 0 /\ Len(handled) \in Nat
    BY StreamType DEF StreamInv, ReadInv, Handled
  <1>2. k \in 1..sent /\ k \in 1..Len(Script)
    BY <1>1, StreamType
  <1>3. size \in Nat \ {0} /\ size \in 0..Len(buf) /\ Stream # <<>>
    <2>1. size \in Nat \ {0}
      BY <1>1, <1>2, Sizes
    <2>2. Len(buf) \in Nat /\ Len(Stream) # 0
      BY <2>1, StreamType
    <2>3. QED  BY <2>1, <2>2, StreamType
  <1>4. handled' = Append(handled, k) /\ Len(handled') = k
    <2>1. handled \in Seq(1..sent) /\ handled' = Append(handled, k)
      BY <1>1 DEF TypeOK, Handled
    <2>2. QED  BY <1>2, <2>1, AppendProperties
  <1>5. /\ EndOf(Stream, 1) = size
        /\ here /\ size = Len(Stream) => k = sent
    BY <1>1, <1>3, NextRequest
  <1>6. /\ Placed(Stream', sent') /\ Contiguous(Stream')
        /\ here => Complete(Stream', sent')
        /\ Stream' # <<>> => /\ size + 1 \in 1..Len(Stream)
                            /\ Stream'[1] = Stream[size + 1]
        /\ Stream' = <<>> => Len(Stream) = size
    BY <1>1, <1>3, ReadKeeps
  <1>7. Expected' = <<k + 1, 1>> /\ k + 1 = Len(handled) + 2
    BY <1>1, <1>4 DEF Expected
  <1>8. Stream' # <<>> => Stream'[1] = Expected'
    BY <1>1, <1>3, <1>5, <1>6, <1>7, NextBytes
  <1>9. here /\ Stream' = <<>> => k = sent
    BY <1>5, <1>6
  <1>10. OpenInv'
    BY <1>1, <1>4, <1>6, <1>8, <1>9 DEF OpenInv, Placed, Contiguous, Complete, EndOf
  <1>11. ReadInv' /\ GarbledInv'
    BY <1>1, <1>2, <1>4 DEF ReadInv, GarbledInv
  <1>12. QED  BY <1>4, <1>10, <1>11 DEF StreamInv

\* A name that is cut short leaves the rest of it in the stream.
LEMMA CutStream ==
    ASSUME TypeOK, StreamInv, request # 0, Handled(request),
           buf # <<>>, Len(buf) < PAYLOAD[Script[request]],
           buf' = SubSeq(buf, Len(buf) + 1, Len(buf)), conn' = "garbled",
           UNCHANGED <<sent, here, wire>>
    PROVE  StreamInv' /\ Len(handled') = Len(handled) + 1
  <1> DEFINE k == Len(handled) + 1
             m == Len(buf)
  <1>1. conn = "open" /\ request = k /\ request' = 0 /\ Len(handled) \in Nat
    BY StreamType DEF StreamInv, ReadInv, Handled
  <1>2. k \in 1..sent /\ k \in 1..Len(Script)
    BY <1>1, StreamType
  <1>3. /\ m \in Nat /\ 0 < m /\ m \in 0..m /\ Stream # <<>> /\ HEADER \in Nat
        /\ PAYLOAD[Script[k]] \in Nat
    <2>1. m \in Nat /\ 0 < m /\ Len(Stream) # 0
      BY StreamType
    <2>2. QED  BY <1>2, <2>1, StreamType, Sizes
  <1>4. handled' = Append(handled, k) /\ Len(handled') = k
    <2>1. handled \in Seq(1..sent) /\ handled' = Append(handled, k)
      BY <1>1 DEF TypeOK, Handled
    <2>2. QED  BY <1>2, <2>1, AppendProperties
  <1>5. /\ EndOf(Stream, 1) = PAYLOAD[Script[k]]
        /\ here => EndOf(Stream, 1) <= Len(Stream)
    BY <1>1, <1>2, <1>3, NextRequest
  <1>6. /\ Stream' # <<>> => /\ m + 1 \in 1..Len(Stream)
                            /\ Stream'[1] = Stream[m + 1]
        /\ Stream' = <<>> => Len(Stream) = m
    BY <1>1, <1>3, ReadKeeps
  <1>7. Stream' # <<>> => Stream'[1][2] # 1
    <2> SUFFICES ASSUME Stream' # <<>>
                 PROVE  Stream[m + 1][2] # 1
      BY <1>6
    <2>1. m + 1 \in 1..Len(Stream) /\ m + 1 <= EndOf(Stream, 1)
      BY <1>1, <1>3, <1>5, <1>6
    <2>2. Stream[m + 1] = <<k, Expected[2] + ((m + 1) - 1)>>
      BY <1>1, <1>3, <2>1, NextBytes
    <2>3. Expected[2] = HEADER + 1
      BY DEF Expected
    <2>4. Expected[2] + ((m + 1) - 1) # 1
      BY <1>3, <2>3
    <2>5. QED  BY <2>2, <2>4
  <1>8. here => Stream' # <<>>
    BY <1>1, <1>3, <1>5, <1>6
  <1>9. GarbledInv' /\ OpenInv'
    BY <1>7, <1>8 DEF GarbledInv, OpenInv
  <1>10. ReadInv'
    BY <1>1, <1>2, <1>4 DEF ReadInv
  <1>11. QED  BY <1>4, <1>9, <1>10 DEF StreamInv
-----------------------------------------------------------------------------
(* The answers in flight. *)

LEMMA AnswersType ==
    ASSUME TypeOK
    PROVE  /\ answers \in Seq(0..sent) /\ Len(answers) \in Nat
           /\ DOMAIN answers = 1..Len(answers)
           /\ answers # <<>> => 1 \in 1..Len(answers)
           /\ answers = <<>> => Len(answers) = 0
  <1>1. answers \in Seq(0..sent)
    BY DEF TypeOK
  <1>2. Len(answers) \in Nat /\ DOMAIN answers = 1..Len(answers)
    BY <1>1, LenProperties
  <1>3. answers # <<>> => Len(answers) \in Nat \ {0}
    BY <1>1, EmptySeq
  <1>4. answers = <<>> => Len(answers) = 0
    BY EmptySeq
  <1>5. QED  BY <1>1, <1>2, <1>3, <1>4

LEMMA SameAnswers ==
    ASSUME AnswerInv, conn' = "closed" => conn = "closed", conn = "closed" => conn' = conn,
           UNCHANGED <<sent, waiting, handled, answers>>
    PROVE  AnswerInv'
  BY DEF AnswerInv

LEMMA ClosedAnswers ==
    ASSUME TypeOK, AnswerInv, conn # "closed", conn' = "closed",
           UNCHANGED <<sent, waiting, handled>>,
           answers' = answers \/ answers' = Append(answers, 0)
    PROVE  AnswerInv'
  <1>1. ASSUME answers' = Append(answers, 0), NEW i \in 1..Len(answers'), answers'[i] # 0
        PROVE  i = 1 /\ answers'[i] = sent /\ waiting /\ Len(handled) = sent
    <2>1. /\ Len(answers') = Len(answers) + 1 /\ Len(answers) \in Nat
          /\ \A j \in 1..Len(answers) : answers'[j] = answers[j]
          /\ answers'[Len(answers) + 1] = 0
      <3>1. answers \in Seq(0..sent) /\ 0 \in 0..sent /\ Len(answers) \in Nat
        BY AnswersType, StreamType
      <3>2. QED  BY <1>1, <3>1, AppendProperties
    <2>2. i \in 1..Len(answers) /\ answers[i] = answers'[i]
      BY <1>1, <2>1
    <2>3. QED  BY <1>1, <2>2 DEF AnswerInv
  <1>2. ASSUME NEW i \in 1..Len(answers'), answers'[i] = 0
        PROVE  i = Len(answers')
    <2>1. \A j \in 1..Len(answers) : answers[j] # 0
      BY DEF AnswerInv
    <2>2. CASE answers' = answers
      BY <1>2, <2>1, <2>2
    <2>3. CASE answers' = Append(answers, 0)
      <3>1. answers \in Seq(0..sent) /\ 0 \in 0..sent /\ Len(answers) \in Nat
        BY AnswersType, StreamType
      <3>2. /\ Len(answers') = Len(answers) + 1
            /\ \A j \in 1..Len(answers) : answers'[j] = answers[j]
        BY <2>3, <3>1, AppendProperties
      <3>3. i \notin 1..Len(answers)
        BY <1>2, <2>1, <3>2
      <3>4. QED  BY <3>1, <3>2, <3>3
    <2>4. QED  BY <2>2, <2>3
  <1>3. QED  BY <1>1, <1>2 DEF AnswerInv

\* The client only sends when no answer is on its way to it, a failure of a
\* connection that is closed excepted.
LEMMA SendAnswers ==
    ASSUME TypeOK, ReadInv, AnswerInv, Send
    PROVE  AnswerInv'
  <1>1. /\ ~waiting /\ sent' = sent + 1 /\ waiting' = (Script[sent + 1] # "packet")
        /\ UNCHANGED <<conn, handled, answers>> /\ sent \in Nat /\ Len(handled) \in Nat
        /\ Len(handled) <= sent
    BY StreamType DEF Send, ReadInv
  <1>2. \A i \in 1..Len(answers) : answers[i] = 0
    BY <1>1 DEF AnswerInv
  <1>3. ASSUME conn # "closed"
        PROVE  answers = <<>>
    <2>1. 1 \notin 1..Len(answers)
      BY <1>2, <1>3 DEF AnswerInv
    <2>2. QED  BY <2>1, AnswersType
  <1>4. ASSUME conn # "closed", NEW r \in (Len(handled) + 1)..sent
        PROVE  Script[r] = "packet"
    <2>1. Len(handled) < sent
      BY <1>1, <1>4
    <2>2. /\ \A q \in (Len(handled) + 1)..(sent - 1) : Script[q] = "packet"
          /\ Script[sent] = "packet"
      BY <1>1, <1>4, <2>1 DEF AnswerInv
    <2>3. r = sent \/ r \in (Len(handled) + 1)..(sent - 1)
      BY <1>1, <1>4
    <2>4. QED  BY <2>2, <2>3
  <1>5. (sent + 1) - 1 = sent
    BY <1>1
  <1>6. QED  BY <1>1, <1>2, <1>3, <1>4, <1>5 DEF AnswerInv

LEMMA ReceiveAnswers ==
    ASSUME TypeOK, AnswerInv, Receive
    PROVE  AnswerInv'
  <1>1. /\ answers # <<>> /\ answers' = Tail(answers)
        /\ UNCHANGED <<sent, conn, handled>>
    BY DEF Receive
  <1>2. /\ Len(answers') = Len(answers) - 1 /\ Len(answers) \in Nat
        /\ \A i \in 1..Len(answers') : answers'[i] = answers[i + 1]
        /\ answers' \in Seq(0..sent)
    BY <1>1, AnswersType, HeadTailProperties
  <1>3. ASSUME NEW i \in 1..Len(answers')
        PROVE  answers'[i] = 0 /\ conn = "closed"
    <2>1. i + 1 \in 1..Len(answers) /\ i + 1 # 1
      BY <1>2
    <2>2. QED  BY <1>2, <2>1 DEF AnswerInv
  <1>4. conn # "closed" => ~(Len(handled) < sent)
    BY <1>1 DEF AnswerInv
  <1>5. ASSUME NEW i \in 1..Len(answers')
        PROVE  i = Len(answers')
    <2>1. i + 1 \in 1..Len(answers) /\ answers[i + 1] = 0 /\ conn = "closed"
      BY <1>2, <1>3
    <2>2. i + 1 = Len(answers)
      BY <2>1 DEF AnswerInv
    <2>3. QED  BY <1>2, <2>2
  <1>6. QED  BY <1>1, <1>3, <1>4, <1>5 DEF AnswerInv

\* A request is answered when it is the last one sent, and then awaited.
LEMMA HandledAnswers ==
    ASSUME TypeOK, ReadInv, AnswerInv, request # 0, Handled(request),
           Len(handled') = Len(handled) + 1, conn' # "closed",
           UNCHANGED <<sent, waiting>>
    PROVE  AnswerInv'
  <1>1. /\ conn # "closed" /\ request = Len(handled) + 1 /\ request <= sent
        /\ Len(handled) \in Nat /\ sent \in Nat /\ Len(handled) < sent
    BY StreamType DEF ReadInv
  <1>2. /\ answers = <<>>
        /\ \A r \in (Len(handled) + 1)..(sent - 1) : Script[r] = "packet"
        /\ Script[sent] # "packet" => waiting
    BY <1>1 DEF AnswerInv
  <1>3. answers' = IF Script[request] = "packet" THEN answers ELSE Append(answers, request)
    BY DEF Handled, Answered
  <1>4. CASE Script[request] = "packet"
    <2>1. answers' = <<>> /\ Len(answers') = 0
      BY <1>2, <1>3, <1>4, EmptySeq
    <2>2. (Len(handled) + 1) + 1 \in Nat
          /\ \A r \in ((Len(handled) + 1) + 1)..(sent - 1) : r \in (Len(handled) + 1)..(sent - 1)
      BY <1>1
    <2>3. QED  BY <1>2, <2>1, <2>2 DEF AnswerInv
  <1>5. CASE Script[request] # "packet"
    <2>1. request = sent
      BY <1>1, <1>2, <1>5
    <2>2. waiting
      BY <1>2, <1>5, <2>1
    <2>3. Len(answers') = 1 /\ answers'[1] = sent
      <3>1. answers \in Seq(0..sent) /\ sent \in 0..sent /\ Len(answers) = 0
        BY <1>1, <1>2, AnswersType
      <3>2. answers' = Append(answers, sent)
        BY <1>3, <1>5, <2>1
      <3>3. Len(answers') = Len(answers) + 1 /\ answers'[Len(answers) + 1] = sent
        BY <3>1, <3>2, AppendProperties
      <3>4. QED  BY <3>1, <3>3
    <2>4. Len(handled') = sent /\ sent # 0
      BY <1>1, <2>1
    <2>5. QED  BY <2>2, <2>3, <2>4 DEF AnswerInv
  <1>6. QED  BY <1>4, <1>5
-----------------------------------------------------------------------------
(* The invariant. *)

LEMMA FramingInit ==
    ASSUME Init
    PROVE  FramingInv
  <1>1. /\ Len(handled) = 0 /\ Len(answers) = 0 /\ Stream = <<>> /\ Len(Stream) = 0
    BY EmptySeq, ConcatEmptySeq DEF Init, Stream
  <1>2. TypeOK
    BY TypeInit
  <1>3. ReadInv /\ GarbledInv
    BY <1>1 DEF Init, ReadInv, GarbledInv
  <1>4. OpenInv
    BY <1>1 DEF Init, OpenInv, Placed, Contiguous, Complete
  <1>5. AnswerInv
    BY <1>1 DEF Init, AnswerInv
  <1>6. QED  BY <1>2, <1>3, <1>4, <1>5 DEF FramingInv

\* What the handler of a request does, however much of its payload it reads.
LEMMA ReadNameStep ==
    ASSUME TypeOK, StreamInv, ReadName
    PROVE  /\ StreamInv' /\ Len(handled') = Len(handled) + 1
           /\ conn' # "closed"
  <1> DEFINE size == PAYLOAD[Script[request]]
  <1>1. /\ request # 0 /\ Script[request] = "name" /\ buf # <<>> /\ Handled(request)
        /\ UNCHANGED <<sent, here, wire>> /\ size = PAYLOAD["name"]
    BY DEF ReadName, Named, clientVars
  <1>2. size \in Nat /\ Len(buf) \in Nat
    BY <1>1, Sizes, StreamType DEF Kind
  <1>3. conn = "open"
    BY <1>1 DEF StreamInv, ReadInv
  <1>4. CASE Len(buf) >= size
    <2>1. buf' = SubSeq(buf, size + 1, Len(buf)) /\ conn' = conn
      <3>1. Available(size) = size
        BY <1>2, <1>4, AvailableType
      <3>2. conn' = conn
        BY <1>1, <1>2, <1>4 DEF ReadName
      <3>3. QED  BY <1>1, <3>1, <3>2 DEF ReadName, Read
    <2>2. QED  BY <1>1, <1>3, <1>4, <2>1, PayloadStream
  <1>5. CASE Len(buf) < size
    <2>1. buf' = SubSeq(buf, Len(buf) + 1, Len(buf)) /\ conn' = "garbled"
      <3>1. Available(size) = Len(buf)
        BY <1>2, <1>5, AvailableType
      <3>2. conn' = "garbled"
        BY <1>1, <1>5 DEF ReadName
      <3>3. QED  BY <1>1, <3>1, <3>2 DEF ReadName, Read
    <2>2. QED  BY <1>1, <1>5, <2>1, CutStream
  <1>6. QED  BY <1>2, <1>4, <1>5

LEMMA ReadPayloadStep ==
    ASSUME TypeOK, StreamInv, ReadPayload
    PROVE  /\ StreamInv' /\ Len(handled') = Len(handled) + 1
           /\ conn' # "closed" /\ conn' = conn
  <1> DEFINE size == PAYLOAD[Script[request]]
  <1>1. /\ request # 0 /\ Handled(request) /\ Len(buf) >= size
        /\ UNCHANGED <<sent, here, wire, conn>>
    BY DEF ReadPayload, WholePayload, clientVars
  <1>2. size \in Nat
    <2>1. request \in 1..Len(Script)
      BY <1>1, StreamType
    <2>2. QED  BY <2>1, Sizes
  <1>3. conn = "open"
    BY <1>1 DEF StreamInv, ReadInv
  <1>4. buf' = SubSeq(buf, size + 1, Len(buf))
    <2>1. Available(size) = size
      BY <1>1, <1>2, AvailableType
    <2>2. QED  BY <2>1 DEF ReadPayload, Read
  <1>5. QED  BY <1>1, <1>3, <1>4, PayloadStream

LEMMA FramingStep ==
    ASSUME FramingInv, [Next]_vars
    PROVE  FramingInv'
  <1> USE DEF FramingInv
  <1>0. TypeOK' /\ StreamInv
    BY TypeStep DEF StreamInv
  <1>1. ASSUME Send PROVE FramingInv'
    BY <1>0, <1>1, SendStream, SendAnswers DEF StreamInv
  <1>2. ASSUME Receive PROVE FramingInv'
    <2>1. Stream' = Stream /\ (here' => here) /\ UNCHANGED <<sent, conn, request, handled>>
      BY <1>2 DEF Receive, Stream
    <2>2. StreamInv'
      BY <1>0, <2>1, SameStream
    <2>3. QED  BY <1>0, <1>2, <2>2, ReceiveAnswers DEF StreamInv
  <1>3. ASSUME Leave PROVE FramingInv'
    <2>1. /\ Stream' = Stream /\ (here' => here) /\ UNCHANGED <<sent, conn, request, handled>>
          /\ UNCHANGED <<sent, waiting, handled, answers, conn>>
      BY <1>3 DEF Leave, Stream
    <2>2. QED  BY <1>0, <2>1, SameStream, SameAnswers DEF StreamInv
  <1>4. ASSUME Deliver PROVE FramingInv'
    <2>1. PICK n \in 1..Len(wire) : /\ buf' = buf \o SubSeq(wire, 1, n)
                                   /\ wire' = SubSeq(wire, n + 1, Len(wire))
      BY <1>4 DEF Deliver
    <2>2. n \in 0..Len(wire) /\ buf \in Seq(Byte) /\ wire \in Seq(Byte)
      BY StreamType
    <2>3. Stream' = Stream
      BY <2>1, <2>2, MoveConcat DEF Stream
    <2>4. UNCHANGED <<sent, waiting, here, conn, request, handled, answers>>
      BY <1>4 DEF Deliver, clientVars
    <2>5. QED  BY <1>0, <2>3, <2>4, SameStream, SameAnswers DEF StreamInv
  <1>5. ASSUME Reset PROVE FramingInv'
    <2>1. UNCHANGED <<sent, waiting, handled, answers, conn>>
      BY <1>5 DEF Reset, clientVars
    <2>2. QED  BY <1>0, <1>5, <2>1, ResetStream, SameAnswers DEF StreamInv
  <1>6. ASSUME ParseHeader PROVE FramingInv'
    <2>1. UNCHANGED <<sent, waiting, handled, answers, conn>>
      BY <1>6 DEF ParseHeader, clientVars
    <2>2. QED  BY <1>0, <1>6, <2>1, ParseStream, SameAnswers DEF StreamInv
  <1>7. ASSUME CloseSilently \/ CloseWithFailure, conn # "closed" PROVE FramingInv'
    <2>1. /\ conn' = "closed" /\ request' = 0
          /\ UNCHANGED <<sent, waiting, handled>>
          /\ answers' = answers \/ answers' = Append(answers, 0)
      BY <1>7 DEF CloseSilently, CloseWithFailure, Close, clientVars
    <2>2. QED  BY <1>0, <1>7, <2>1, ClosedStream, ClosedAnswers DEF StreamInv
  <1>8. ASSUME ReadName PROVE FramingInv'
    <2>1. request # 0 /\ Handled(request) /\ UNCHANGED <<sent, waiting>>
      BY <1>8 DEF ReadName, clientVars
    <2>2. QED  BY <1>0, <1>8, <2>1, ReadNameStep, HandledAnswers DEF StreamInv
  <1>9. ASSUME ReadPayload PROVE FramingInv'
    <2>1. request # 0 /\ Handled(request) /\ UNCHANGED <<sent, waiting>>
      BY <1>9 DEF ReadPayload, clientVars
    <2>2. QED  BY <1>0, <1>9, <2>1, ReadPayloadStep, HandledAnswers DEF StreamInv
  <1>10. ASSUME UNCHANGED vars PROVE FramingInv'
    <2>1. /\ Stream' = Stream /\ (here' => here) /\ UNCHANGED <<sent, conn, request, handled>>
          /\ UNCHANGED <<sent, waiting, handled, answers, conn>>
      BY <1>10 DEF vars, Stream
    <2>2. QED  BY <1>0, <2>1, SameStream, SameAnswers DEF StreamInv
  <1>11. ASSUME ShortHeader \/ UnknownCode \/ LatePayload \/ NoPayload
         PROVE  (CloseSilently \/ CloseWithFailure) /\ conn # "closed"
    <2>1. CASE ShortHeader \/ UnknownCode
      BY <2>1 DEF ShortHeader, UnknownCode, Readable
    <2>2. CASE LatePayload \/ NoPayload
      BY <1>0, <2>2 DEF LatePayload, NoPayload, StreamInv, ReadInv
    <2>3. QED  BY <1>11, <2>1, <2>2
  <1>12. QED
    BY <1>1, <1>2, <1>3, <1>4, <1>5, <1>6, <1>7, <1>8, <1>9, <1>10, <1>11
       DEF Next, Client, Server, Over

\* The inductive invariant holds in every state.
LEMMA FramingCorrect == Spec => []FramingInv
  <1>1. Init => FramingInv
    BY FramingInit
  <1>2. FramingInv /\ [Next]_vars => FramingInv'
    BY FramingStep
  <1>3. QED  BY <1>1, <1>2, PTL DEF Spec

\* However the bytes of a connection are cut and the two sides interleave, an
\* answer in flight is the answer to the request sent last, or a failure that no
\* answer follows on a closed connection: the client never takes the answer to
\* one request for the answer to another (unpack_response_header, handle_client).
THEOREM AnswersFit == Spec => []AnswerFitsRequest
  <1>1. FramingInv => AnswerFitsRequest
    <2> SUFFICES ASSUME FramingInv, NEW i \in DOMAIN answers
                 PROVE  \/ answers[i] = sent /\ sent # 0
                        \/ answers[i] = 0 /\ conn = "closed" /\ i = Len(answers)
      BY DEF AnswerFitsRequest
    <2>1. i \in 1..Len(answers)
      BY AnswersType DEF FramingInv
    <2>2. QED  BY <2>1 DEF FramingInv, AnswerInv
  <1>2. QED  BY <1>1, FramingCorrect, PTL
-----------------------------------------------------------------------------
(* The connection keeps what RequestChannel promises. *)

LEMMA QueueIs ==
    ASSUME TypeOK, ReadInv
    PROVE  /\ conn = "closed" => Queue = <<>>
           /\ conn # "closed" =>
                /\ Queue \in Seq(Nat) /\ Len(Queue) = sent - Len(handled)
                /\ \A i \in 1..(sent - Len(handled)) : Queue[i] = Len(handled) + i
                /\ Len(handled) < sent => Queue # <<>> /\ Head(Queue) = Len(handled) + 1
  <1> SUFFICES ASSUME conn # "closed"
               PROVE  /\ Queue \in Seq(Nat) /\ Len(Queue) = sent - Len(handled)
                      /\ \A i \in 1..(sent - Len(handled)) : Queue[i] = Len(handled) + i
                      /\ Len(handled) < sent => Queue # <<>> /\ Head(Queue) = Len(handled) + 1
    BY DEF Queue
  <1> DEFINE k == Len(handled)
             n == sent - k
  <1>1. k \in Nat /\ n \in Nat /\ sent \in Nat
    BY StreamType DEF ReadInv
  <1>2. Queue = [i \in 1..n |-> k + i]
    BY DEF Queue
  <1> HIDE DEF k, n
  <1>3. Queue \in [1..n -> Nat]
    BY <1>1, <1>2
  <1>4. Queue \in Seq(Nat) /\ Len(Queue) = n
    BY <1>1, <1>3, SeqDef
  <1>5. \A i \in 1..n : Queue[i] = k + i
    BY <1>2
  <1>6. 0 < n => Queue # <<>> /\ Head(Queue) = k + 1
    <2> SUFFICES ASSUME 0 < n
                 PROVE  Queue # <<>> /\ Head(Queue) = k + 1
      OBVIOUS
    <2>1. Queue # <<>>
      <3>1. Len(Queue) # 0
        BY <1>1, <1>4
      <3>2. QED  BY <3>1, EmptySeq
    <2>2. Head(Queue) = Queue[1] /\ 1 \in 1..n
      BY <1>1, <1>4, <2>1
    <2>3. QED  BY <1>5, <2>1, <2>2
  <1>7. k < sent => 0 < n
    BY <1>1 DEF n
  <1>8. QED  BY <1>4, <1>5, <1>6, <1>7 DEF k, n

LEMMA QueueKeeps ==
    ASSUME UNCHANGED <<sent, conn, handled>>
    PROVE  Queue' = Queue
  BY DEF Queue

LEMMA SilentStep ==
    ASSUME UNCHANGED <<sent, conn, here, handled>>
    PROVE  UNCHANGED Channel!vars
  BY QueueKeeps DEF Channel!vars

LEMMA LeaveStep ==
    ASSUME here, here' = FALSE, UNCHANGED <<sent, conn, handled>>
    PROVE  Channel!Leave
  BY QueueKeeps DEF Channel!Leave

LEMMA SendStep ==
    ASSUME FramingInv, FramingInv', Send
    PROVE  Channel!Send
  <1>1. /\ here /\ sent < Len(Script) /\ sent' = sent + 1
        /\ UNCHANGED <<handled, conn, here>> /\ sent \in Nat /\ Len(handled) \in Nat
        /\ Len(handled) <= sent
    BY StreamType DEF Send, FramingInv, ReadInv
  <1>2. conn = "closed" => Queue' = Queue
    BY <1>1 DEF Queue
  <1>3. ASSUME conn # "closed"
        PROVE  Queue' = Append(Queue, sent + 1)
    <2> DEFINE k == Len(handled)
               longer == Append(Queue, sent + 1)
    <2>1. /\ Queue \in Seq(Nat) /\ Len(Queue) = sent - k
          /\ \A i \in 1..(sent - k) : Queue[i] = k + i
      BY <1>3, QueueIs DEF FramingInv
    <2>2. /\ Queue' \in Seq(Nat) /\ Len(Queue') = sent' - k
          /\ \A i \in 1..(sent' - k) : Queue'[i] = k + i
      <3>1. (conn # "closed" =>
              /\ Queue \in Seq(Nat) /\ Len(Queue) = sent - Len(handled)
              /\ \A i \in 1..(sent - Len(handled)) : Queue[i] = Len(handled) + i)'
        BY QueueIs, PTL DEF FramingInv
      <3>2. QED  BY <1>1, <1>3, <3>1
    <2>3. /\ longer \in Seq(Nat) /\ Len(longer) = (sent - k) + 1
          /\ \A i \in 1..(sent - k) : longer[i] = k + i
          /\ longer[(sent - k) + 1] = sent + 1
      BY <1>1, <2>1, AppendProperties
    <2> HIDE DEF k, longer
    <2>4. Len(longer) = Len(Queue')
      BY <1>1, <2>2, <2>3 DEF k
    <2>5. ASSUME NEW i \in 1..Len(longer)
          PROVE  longer[i] = Queue'[i]
      <3>1. k \in Nat /\ sent - k \in Nat
        BY <1>1 DEF k
      <3>2. i \in 1..(sent' - k) /\ Queue'[i] = k + i
        BY <2>2, <2>4
      <3>3. i \in 1..(sent - k) \/ i = (sent - k) + 1
        BY <2>3, <3>1
      <3>4. CASE i \in 1..(sent - k)
        BY <2>3, <3>2, <3>4
      <3>5. CASE i = (sent - k) + 1
        BY <1>1, <2>3, <3>1, <3>2, <3>5
      <3>6. QED  BY <3>3, <3>4, <3>5
    <2>6. longer = Queue'
      BY <2>2, <2>3, <2>4, <2>5, SeqEqual
    <2>7. QED  BY <2>6 DEF longer
  <1>4. QED  BY <1>1, <1>2, <1>3 DEF Channel!Send

LEMMA HandleStep ==
    ASSUME FramingInv, FramingInv', request # 0, Handled(request),
           Len(handled') = Len(handled) + 1, conn' # "closed",
           \/ conn' = conn
           \/ Script[request] \in Named /\ conn' = "garbled",
           UNCHANGED <<sent, here>>
    PROVE  Channel!Handle
  <1> DEFINE k == Len(handled)
  <1>1. /\ conn = "open" /\ request = k + 1 /\ k \in Nat /\ sent \in Nat /\ k < sent
        /\ handled' = Append(handled, request) /\ Len(handled') = k + 1
    BY StreamType DEF FramingInv, ReadInv, Handled
  <1>2. /\ Queue \in Seq(Nat) /\ Len(Queue) = sent - k
        /\ \A i \in 1..(sent - k) : Queue[i] = k + i
        /\ Queue # <<>> /\ Head(Queue) = k + 1
    BY <1>1, QueueIs DEF FramingInv
  <1>3. /\ Queue' \in Seq(Nat) /\ Len(Queue') = sent - (k + 1)
        /\ \A i \in 1..(sent - (k + 1)) : Queue'[i] = (k + 1) + i
    <2>1. (conn # "closed" =>
            /\ Queue \in Seq(Nat) /\ Len(Queue) = sent - Len(handled)
            /\ \A i \in 1..(sent - Len(handled)) : Queue[i] = Len(handled) + i)'
      BY QueueIs, PTL DEF FramingInv
    <2>2. QED  BY <1>1, <2>1
  <1>4. /\ Tail(Queue) \in Seq(Nat) /\ Len(Tail(Queue)) = (sent - k) - 1
        /\ \A i \in 1..Len(Tail(Queue)) : Tail(Queue)[i] = Queue[i + 1]
    BY <1>2, HeadTailProperties
  <1> DEFINE rest == Tail(Queue)
  <1> HIDE DEF k, rest
  <1>5. Len(rest) = Len(Queue')
    BY <1>1, <1>3, <1>4 DEF rest
  <1>6. ASSUME NEW i \in 1..Len(rest)
        PROVE  rest[i] = Queue'[i]
    <2>1. i \in 1..(sent - (k + 1)) /\ i + 1 \in 1..(sent - k)
      BY <1>1, <1>4 DEF rest
    <2>2. rest[i] = k + (i + 1) /\ Queue'[i] = (k + 1) + i
      BY <1>2, <1>3, <1>4, <2>1 DEF rest
    <2>3. QED  BY <1>1, <2>1, <2>2
  <1>7. rest = Queue'
    BY <1>3, <1>4, <1>5, <1>6, SeqEqual DEF rest
  <1>8. Queue' = Tail(Queue) /\ handled' = Append(handled, Head(Queue)) /\ Head(Queue) = request
    BY <1>1, <1>2, <1>7 DEF rest
  <1>9. QED  BY <1>1, <1>2, <1>8 DEF Channel!Handle

\* A connection is closed on what is left of a name, on a request that is not
\* handled yet, or when the client is gone.
LEMMA CloseStep ==
    ASSUME FramingInv, conn # "closed", Close, UNCHANGED <<sent, here, handled>>,
           buf # <<>> \/ ~here \/ request # 0
    PROVE  Channel!Close
  <1>1. conn' = "closed" /\ Queue' = <<>>
    BY DEF Close, Queue
  <1>2. Queue # <<>> \/ conn = "garbled" \/ ~here
    <2> SUFFICES ASSUME conn = "open", here
                 PROVE  Queue # <<>>
      BY DEF FramingInv, TypeOK
    <2>1. Stream # <<>>
      <3>1. CASE buf # <<>>
        <4>1. Len(Stream) # 0
          BY <3>1, StreamType DEF FramingInv
        <4>2. QED  BY <4>1, StreamType DEF FramingInv
      <3>2. CASE request # 0
        BY <3>2 DEF FramingInv, OpenInv
      <3>3. QED  BY <3>1, <3>2
    <2>2. Len(handled) + 1 \in 1..sent
      BY <2>1, NextRequest DEF FramingInv, StreamInv
    <2>3. Len(handled) < sent
      BY <2>2, StreamType DEF FramingInv
    <2>4. QED  BY <2>3, QueueIs DEF FramingInv
  <1>3. QED  BY <1>1, <1>2 DEF Channel!Close

LEMMA ChannelStep ==
    ASSUME FramingInv, FramingInv', [Next]_vars
    PROVE  [Channel!Next]_Channel!vars
  <1> USE DEF Channel!Next
  <1>1. ASSUME Send PROVE Channel!Next
    BY <1>1, SendStep
  <1>2. ASSUME Receive PROVE Channel!Next \/ UNCHANGED Channel!vars
    <2>1. here /\ here' \in BOOLEAN /\ UNCHANGED <<sent, conn, handled>>
      BY <1>2 DEF Receive
    <2>2. CASE here' = here
      BY <2>1, <2>2, SilentStep
    <2>3. CASE here' = FALSE
      BY <2>1, <2>3, LeaveStep
    <2>4. QED  BY <2>1, <2>2, <2>3
  <1>3. ASSUME Leave PROVE Channel!Next
    <2>1. here /\ here' = FALSE /\ UNCHANGED <<sent, conn, handled>>
      BY <1>3 DEF Leave
    <2>2. QED  BY <2>1, LeaveStep
  <1>4. ASSUME Deliver \/ Reset \/ ParseHeader \/ UNCHANGED vars
        PROVE  UNCHANGED Channel!vars
    <2>1. UNCHANGED <<sent, conn, here, handled>>
      BY <1>4 DEF Deliver, Reset, ParseHeader, clientVars, vars
    <2>2. QED  BY <2>1, SilentStep
  <1>5. ASSUME ShortHeader \/ UnknownCode \/ LatePayload \/ NoPayload PROVE Channel!Next
    <2>1. Close /\ UNCHANGED <<sent, here, handled>>
      BY <1>5 DEF ShortHeader, UnknownCode, LatePayload, NoPayload,
                  CloseSilently, CloseWithFailure, clientVars
    <2>2. buf # <<>> \/ ~here \/ request # 0
      BY <1>5 DEF ShortHeader, UnknownCode, LatePayload, NoPayload, Readable, AtEnd
    <2>3. conn # "closed"
      BY <1>5 DEF ShortHeader, UnknownCode, LatePayload, NoPayload, Readable,
                  FramingInv, ReadInv
    <2>4. QED  BY <2>1, <2>2, <2>3, CloseStep
  <1>6. ASSUME ReadName PROVE Channel!Next
    <2>1. /\ request # 0 /\ Handled(request) /\ Script[request] \in Named
          /\ UNCHANGED <<sent, here>> /\ conn' \in {conn, "garbled"}
      BY <1>6 DEF ReadName, clientVars
    <2>2. Len(handled') = Len(handled) + 1 /\ conn' # "closed"
      BY <1>6, ReadNameStep DEF FramingInv, StreamInv
    <2>3. QED  BY <2>1, <2>2, HandleStep
  <1>7. ASSUME ReadPayload PROVE Channel!Next
    <2>1. request # 0 /\ Handled(request) /\ UNCHANGED <<sent, here>>
      BY <1>7 DEF ReadPayload, clientVars
    <2>2. Len(handled') = Len(handled) + 1 /\ conn' # "closed" /\ conn' = conn
      BY <1>7, ReadPayloadStep DEF FramingInv, StreamInv
    <2>3. QED  BY <2>1, <2>2, HandleStep
  <1>8. QED
    BY <1>1, <1>2, <1>3, <1>4, <1>5, <1>6, <1>7 DEF Next, Client, Server, Over

LEMMA ChannelInit ==
    ASSUME Init
    PROVE  Channel!Init
  <1>1. FramingInv /\ Len(handled) = 0 /\ sent = 0 /\ handled = <<>>
    BY FramingInit, EmptySeq DEF Init
  <1>2. Queue \in Seq(Nat) /\ Len(Queue) = 0
    BY <1>1, QueueIs DEF Init, FramingInv
  <1>3. Queue = <<>>
    BY <1>2, EmptySeq
  <1>4. QED  BY <1>1, <1>3 DEF Init, Channel!Init

\* However the bytes are cut, the server handles the requests of a connection
\* whole, in order and once, or closes it; only a name may be cut, and nothing
\* is handled after it.  This is what KeyExchange and Transfer assume of a
\* connection (parse_request_header, get_data, handle_client).
THEOREM ChannelKept == Spec => ImplementsChannel
  <1>1. Init => Channel!Init
    BY ChannelInit
  <1>2. FramingInv /\ FramingInv' /\ [Next]_vars => [Channel!Next]_Channel!vars
    BY ChannelStep
  <1>3. QED  BY <1>1, <1>2, FramingCorrect, PTL DEF Spec, ImplementsChannel, Channel!Spec
=============================================================================
