-------------------------- MODULE PacketizerProofs --------------------------
(***************************************************************************)
(* Theorems about Packetizer, for any size of a packet, any width of the   *)
(* counters and any sizes of files.                                        *)
(***************************************************************************)
EXTENDS Packetizer, SequenceTheorems, TLAPS

-----------------------------------------------------------------------------
(* Arithmetic. *)

LEMMA Modulo ==
    ASSUME NEW n \in Int, NEW m \in Nat \ {0}
    PROVE  n % m \in 0..(m - 1)
  OBVIOUS

LEMMA ModuloSmall ==
    ASSUME NEW n \in Int, NEW m \in Nat \ {0}, n \in 0..(m - 1)
    PROVE  n % m = n
  OBVIOUS

LEMMA Quotient ==
    ASSUME NEW n \in Nat, NEW m \in Nat \ {0}
    PROVE  /\ n \div m \in Nat
           /\ (n \div m) * m <= n
           /\ n < (n \div m) * m + m
  OBVIOUS

LEMMA Monotone ==
    ASSUME NEW a \in Int, NEW b \in Int, NEW m \in Nat \ {0}
    PROVE  /\ a * m \in Int
           /\ a <= b => a * m <= b * m
           /\ a * m < b * m => a < b
           /\ (a + 1) * m = a * m + m
           /\ (a - 1) * m = a * m - m
  OBVIOUS
-----------------------------------------------------------------------------
(* What send_file cuts from data of `size' bytes that fits. *)

\* Where packet k ends.
End(k) == IF k * BUFFER_SIZE < size THEN k * BUFFER_SIZE ELSE size

\* The number of packets is the size over BUFFER_SIZE, rounded up, and leaves
\* the counter one value for the loop to end.
LEMMA TotalFits ==
    ASSUME size \in Sizes, Fits
    PROVE  LET T == TotalPackets(size) IN
           /\ T \in 1..(U16 - 2)
           /\ (T - 1) * BUFFER_SIZE < size
           /\ size <= T * BUFFER_SIZE
  <1> DEFINE B == BUFFER_SIZE
             n == size + B - 1
             q == n \div B
  <1>0. /\ size \in Nat \ {0} /\ B \in Nat \ {0} /\ n \in Nat
        /\ U16 \in Nat \ {0, 1} /\ U32 \in Nat
    BY PacketizerConstantsOK
  <1>1. q \in Nat /\ q * B <= n /\ n < q * B + B
    BY <1>0, Quotient
  <1>2. (q - 1) * B < size /\ size <= q * B
    <2>1. q * B \in Int /\ (q - 1) * B = q * B - B
      BY <1>0, <1>1, Monotone
    <2>2. QED  BY <1>0, <1>1, <2>1
  <1>3. q \in 1..(U16 - 2)
    <2>1. 0 * B < q * B
      BY <1>0, <1>1, <1>2
    <2>2. 0 < q
      BY <1>0, <1>1, <2>1, Monotone
    <2>3. (q - 1) * B < (U16 - 2) * B
      <3>1. (U16 - 2) * B \in Int /\ (q - 1) * B \in Int
        BY <1>0, <1>1, Monotone
      <3>2. QED  BY <1>0, <1>2, <3>1 DEF Fits
    <2>4. q - 1 < U16 - 2
      BY <1>0, <1>1, <2>3, Monotone
    <2>5. QED  BY <1>0, <1>1, <2>2, <2>4
  <1>4. n % U32 = n
    <2>1. /\ (U16 - 1) * B = U16 * B - B /\ U16 * B \in Int
          /\ ((U16 - 1) - 1) * B = (U16 - 1) * B - B
      BY <1>0, Monotone
    <2>2. n < U32
      BY <1>0, <2>1, PacketizerConstantsOK DEF Fits
    <2>3. n \in 0..(U32 - 1) /\ n \in Int /\ U32 \in Nat \ {0}
      BY <1>0, <2>2
    <2> HIDE DEF n
    <2>4. QED  BY <2>3, ModuloSmall
  <1>5. q % U16 = q
    <2>1. q \in 0..(U16 - 1) /\ q \in Int /\ U16 \in Nat \ {0}
      BY <1>0, <1>3
    <2> HIDE DEF q
    <2>2. QED  BY <2>1, ModuloSmall
  <1>6. TotalPackets(size) = q
    BY <1>4, <1>5 DEF TotalPackets
  <1>7. QED  BY <1>2, <1>3, <1>6

LEMMA EndType ==
    ASSUME size \in Sizes, NEW k \in Nat
    PROVE  End(k) \in Nat /\ End(k) <= size /\ End(0) = 0
  <1>1. BUFFER_SIZE \in Nat \ {0} /\ size \in Nat \ {0}
    BY PacketizerConstantsOK
  <1>2. k * BUFFER_SIZE \in Nat /\ 0 * BUFFER_SIZE = 0
    BY <1>1
  <1>3. QED  BY <1>1, <1>2 DEF End

\* A packet starts where the one before ends, within the data, so substr does
\* not throw.
LEMMA Cut ==
    ASSUME size \in Sizes, Fits, NEW k \in 1..TotalPackets(size)
    PROVE  /\ Offset(k) = End(k - 1)
           /\ Offset(k) <= size
           /\ ChunkSize(k) = End(k) - End(k - 1)
           /\ ChunkSize(k) \in Nat
  <1> DEFINE B == BUFFER_SIZE
             T == TotalPackets(size)
  <1>0. /\ size \in Nat \ {0} /\ size < U32 /\ B \in Nat \ {0} /\ U32 \in Nat \ {0}
    BY PacketizerConstantsOK
  <1>1. /\ T \in 1..(U16 - 2) /\ (T - 1) * B < size /\ size <= T * B
    BY TotalFits
  <1>2. k \in Nat \ {0} /\ k <= T /\ T \in Nat
    BY <1>1, PacketizerConstantsOK
  <1>3. /\ (k - 1) * B \in Nat /\ k * B \in Nat
        /\ (k - 1) * B = k * B - B
        /\ (k - 1) * B <= (T - 1) * B
    <2>1. (k - 1) \in Nat /\ (T - 1) \in Nat
      BY <1>2
    <2>2. (k - 1) * B \in Nat /\ k * B \in Nat
      BY <1>0, <1>2, <2>1
    <2>3. QED  BY <1>0, <1>2, <2>1, <2>2, Monotone
  <1>4. (k - 1) * B < size
    <2>1. (T - 1) * B \in Int
      BY <1>0, <1>2, Monotone
    <2>2. QED  BY <1>0, <1>1, <1>3, <2>1
  <1>5. Offset(k) = (k - 1) * B /\ End(k - 1) = (k - 1) * B
    <2>1. (k - 1) * B \in 0..(U32 - 1)
      BY <1>0, <1>3, <1>4
    <2>2. ((k - 1) * B) % U32 = (k - 1) * B
      BY <1>0, <1>3, <2>1, ModuloSmall
    <2>3. QED  BY <1>0, <1>3, <1>4, <2>2 DEF Offset, End
  <1>6. (size - Offset(k)) % U32 = size - (k - 1) * B
    <2> DEFINE rest == size - (k - 1) * B
    <2>1. rest \in 0..(U32 - 1) /\ rest \in Int
      BY <1>0, <1>3, <1>4
    <2>2. size - Offset(k) = rest
      BY <1>5
    <2> HIDE DEF rest
    <2>3. rest % U32 = rest
      BY <1>0, <2>1, ModuloSmall
    <2>4. (size - Offset(k)) % U32 = rest
      BY <2>2, <2>3
    <2>5. QED  BY <2>4 DEF rest
  <1>7. ChunkSize(k) = End(k) - End(k - 1)
    BY <1>0, <1>3, <1>4, <1>5, <1>6 DEF ChunkSize, End
  <1>8. ChunkSize(k) \in Nat
    BY <1>0, <1>3, <1>4, <1>6 DEF ChunkSize
  <1>9. QED  BY <1>0, <1>4, <1>5, <1>7, <1>8

\* The last packet ends with the data.
LEMMA CutEnds ==
    ASSUME size \in Sizes, Fits
    PROVE  Slice(0, End(TotalPackets(size))) = Whole
  <1>1. /\ TotalPackets(size) \in Nat /\ size <= TotalPackets(size) * BUFFER_SIZE
        /\ size \in Nat /\ BUFFER_SIZE \in Nat
    BY TotalFits, PacketizerConstantsOK
  <1>2. End(TotalPackets(size)) = size
    BY <1>1 DEF End
  <1>3. QED  BY <1>2 DEF Whole

LEMMA SliceType ==
    ASSUME NEW a \in Nat, NEW b \in Nat
    PROVE  Slice(a, b) \in Seq(Nat) /\ Len(Slice(a, b)) = b
  BY DEF Slice

LEMMA SliceConcat ==
    ASSUME NEW a \in Nat, NEW b \in Nat
    PROVE  Slice(0, a) \o Slice(a, b) = Slice(0, a + b)
  BY DEF Slice
-----------------------------------------------------------------------------
(* Types. *)

LEMMA PacketType ==
    ASSUME TypeOK
    PROVE  PacketOf(packet_num) \in Packet
  <1>0. /\ size \in Nat /\ packet_num \in Nat /\ BUFFER_SIZE \in Nat \ {0}
        /\ U32 \in Nat \ {0}
    <2>1. size \in 1..(U32 - 1) /\ U32 \in Nat
      BY PacketizerConstantsOK DEF TypeOK
    <2>2. QED  BY <2>1, PacketizerConstantsOK DEF TypeOK
  <1>1. Offset(packet_num) \in Nat
    <2>1. (packet_num - 1) * BUFFER_SIZE \in Int
      BY <1>0, Monotone
    <2>2. QED  BY <1>0, <2>1, Modulo DEF Offset
  <1>2. ChunkSize(packet_num) \in Nat
    <2>1. (size - Offset(packet_num)) % U32 \in Nat
      BY <1>0, <1>1, Modulo
    <2>2. QED  BY <1>0, <2>1 DEF ChunkSize
  <1>3. Slice(Offset(packet_num), ChunkSize(packet_num)) \in Seq(Nat)
    BY <1>1, <1>2, SliceType
  <1>4. QED  BY <1>3 DEF PacketOf, Packet, TypeOK

LEMMA TypeInit == Init => TypeOK
  <1>1. 0 \in 0..(U16 - 1) /\ <<>> \in Seq(Nat) /\ <<0>> \in Seq(Nat)
    BY PacketizerConstantsOK
  <1>2. <<>> \in Seq(Packet) /\ <<>> \in Seq(Seq(Nat))
    OBVIOUS
  <1>3. SUFFICES ASSUME Init  PROVE TypeOK
    OBVIOUS
  <1>4. stored \in Seq(Nat)
    BY <1>1, <1>3 DEF Init
  <1>5. QED  BY <1>1, <1>2, <1>3, <1>4 DEF Init, TypeOK

LEMMA TypeStep == TypeOK /\ [Next]_vars => TypeOK'
  <1> SUFFICES ASSUME TypeOK, [Next]_vars  PROVE TypeOK'
    OBVIOUS
  <1>0. U16 \in Nat \ {0, 1} /\ 1 \in 0..(U16 - 1)
    BY PacketizerConstantsOK
  <1>1. CASE Split
    <2> DEFINE t == ((size + BUFFER_SIZE - 1) % U32) \div BUFFER_SIZE
    <2>1. t \in Nat
      <3>1. size \in 1..(U32 - 1) /\ U32 \in Nat /\ BUFFER_SIZE \in Nat \ {0}
        BY PacketizerConstantsOK DEF TypeOK
      <3>2. U32 \in Nat \ {0} /\ size + BUFFER_SIZE - 1 \in Int
        BY <3>1
      <3>3. (size + BUFFER_SIZE - 1) % U32 \in Nat
        BY <3>2, Modulo
      <3>4. QED  BY <3>1, <3>3, Quotient
    <2>2. TotalPackets(size) = t % U16
      BY DEF TotalPackets
    <2> HIDE DEF t
    <2>3. t % U16 \in 0..(U16 - 1)
      BY <1>0, <2>1, Modulo
    <2>4. QED  BY <1>0, <1>1, <2>2, <2>3 DEF Split, TypeOK
  <1>2. CASE SendPacket
    <2>1. Succ(packet_num) \in 0..(U16 - 1)
      BY <1>0, Modulo DEF Succ, TypeOK
    <2>2. QED  BY <1>2, <2>1, PacketType DEF SendPacket, TypeOK
  <1>3. CASE ThrowOutOfRange \/ EndLoop
    BY <1>3 DEF ThrowOutOfRange, EndLoop, TypeOK
  <1>4. CASE ReceiveCrc
    BY <1>4 DEF ReceiveCrc, TypeOK
  <1>5. CASE HandlePacket
    <2>1. Head(req) \in Packet /\ Tail(req) \in Seq(Packet)
      BY <1>5 DEF HandlePacket, TypeOK
    <2>2. Stored(Head(req)) \in Seq(Nat)
      BY <2>1 DEF Stored, Packet, TypeOK
    <2>3. QED  BY <1>5, <2>1, <2>2 DEF HandlePacket, TypeOK
  <1>6. CASE UNCHANGED vars
    BY <1>6 DEF vars, TypeOK
  <1>7. QED
    BY <1>1, <1>2, <1>3, <1>4, <1>5, <1>6 DEF Next, Client, Over, Stuck

\* The counters keep their widths and the packets their types, for every size,
\* those that fit and those that do not (send_file, handle_send_file_request).
THEOREM TypeCorrect == Spec => []TypeOK
  BY TypeInit, TypeStep, PTL DEF Spec
-----------------------------------------------------------------------------
(* The upload of data that fits. *)

T == TotalPackets(size)

\* How many packets the server has handled.
Received == packet_num - 1 - Len(req)

\* The packets in flight are the ones after those the server has stored, which
\* are the beginning of the data; the last one makes it answer.
InOrder ==
    /\ total = T
    /\ packet_num \in 1..(T + 1)
    /\ pc \in {"send", "awaitCrc", "confirmed"}
    /\ pc # "send" => packet_num = T + 1
    /\ Received >= 0
    /\ \A i \in DOMAIN req : req[i] = PacketOf(Received + i)
    /\ Received > 0 => stored = Slice(0, End(Received))
    /\ pc # "confirmed" => answer = IF Received = T THEN <<Whole>> ELSE <<>>
    /\ pc = "confirmed" => answer = <<>> /\ req = <<>>

UploadInv ==
    /\ TypeOK
    /\ Fits => IF pc = "split" THEN req = <<>> /\ answer = <<>> ELSE InOrder

LEMMA SplitStep ==
    ASSUME TypeOK, Fits, req = <<>>, answer = <<>>, Split
    PROVE  InOrder'
  <1>1. T \in 1..(U16 - 2) /\ U16 \in Nat
    BY TotalFits, PacketizerConstantsOK DEF TypeOK, T
  <1>2. T' = T /\ Received' = 0 /\ req' = <<>> /\ answer' = <<>>
    <2>1. T' = T
      BY DEF Split, T, TotalPackets
    <2>2. req' = <<>> /\ answer' = <<>>
      BY DEF Split
    <2>3. packet_num' = 1
      BY DEF Split
    <2>4. Len(req') = 0
      BY <2>2, EmptySeq
    <2>5. Received' = 0
      BY <2>3, <2>4 DEF Received
    <2>6. QED  BY <2>1, <2>2, <2>5
  <1>3. total' = T /\ packet_num' = 1 /\ pc' = "send"
    BY DEF Split, T
  <1>4. QED
    BY <1>1, <1>2, <1>3 DEF InOrder

LEMMA SendStep ==
    ASSUME TypeOK, Fits, InOrder, pc = "send", SendPacket
    PROVE  InOrder'
  <1>0. /\ T \in 1..(U16 - 2) /\ T \in Nat /\ U16 \in Nat \ {0, 1}
        /\ Len(req) \in Nat /\ packet_num \in Nat
    BY TotalFits, PacketizerConstantsOK DEF TypeOK, T
  <1>1. packet_num \in 1..T
    BY <1>0 DEF InOrder, SendPacket, InLoop
  <1>2. packet_num' = packet_num + 1
    <2>1. packet_num + 1 \in 0..(U16 - 1)
      BY <1>0, <1>1
    <2>2. QED  BY <1>0, <2>1, ModuloSmall DEF SendPacket, Succ
  <1>3. /\ Len(req') = Len(req) + 1
        /\ DOMAIN req' = 1..(Len(req) + 1) /\ DOMAIN req = 1..Len(req)
        /\ \A i \in 1..Len(req) : req'[i] = req[i]
        /\ req'[Len(req) + 1] = PacketOf(packet_num)
    BY PacketType DEF SendPacket, TypeOK
  <1>4. Received' = Received
    BY <1>0, <1>2, <1>3 DEF Received
  <1>5. /\ T' = T /\ Whole' = Whole /\ End(Received)' = End(Received)
        /\ \A k : PacketOf(k)' = PacketOf(k)
    BY <1>4 DEF SendPacket, T, TotalPackets, Whole, End, PacketOf, Offset, ChunkSize
  <1>6. \A i \in DOMAIN req' : req'[i] = PacketOf(Received' + i)
    <2>1. Received + (Len(req) + 1) = packet_num
      BY <1>0 DEF Received
    <2>2. QED  BY <1>0, <1>3, <1>4, <2>1 DEF InOrder
  <1>7. (\A i \in DOMAIN req : req[i] = PacketOf(Received + i))'
    BY <1>5, <1>6
  <1>8. QED
    BY <1>0, <1>1, <1>2, <1>4, <1>5, <1>7 DEF InOrder, SendPacket

LEMMA EndLoopStep ==
    ASSUME TypeOK, Fits, InOrder, EndLoop
    PROVE  InOrder'
  <1>1. T \in Nat
    BY TotalFits, PacketizerConstantsOK DEF TypeOK, T
  <1>2. packet_num = T + 1
    BY <1>1 DEF InOrder, EndLoop, InLoop
  <1>3. /\ T' = T /\ Whole' = Whole /\ Received' = Received
        /\ End(Received)' = End(Received) /\ \A k : PacketOf(k)' = PacketOf(k)
    BY DEF EndLoop, T, TotalPackets, Received, Whole, End, PacketOf, Offset, ChunkSize
  <1>4. QED
    BY <1>2, <1>3 DEF InOrder, EndLoop

\* substr does not throw for a packet of the loop.
LEMMA NoThrow ==
    ASSUME TypeOK, Fits, InOrder
    PROVE  ~ThrowOutOfRange
  <1>1. SUFFICES ASSUME ThrowOutOfRange  PROVE FALSE
    OBVIOUS
  <1>2. T \in Nat
    BY TotalFits, PacketizerConstantsOK DEF TypeOK, T
  <1>3. packet_num \in 1..T
    BY <1>1, <1>2 DEF ThrowOutOfRange, InOrder, InLoop
  <1>4. Offset(packet_num) <= size
    BY <1>3, Cut DEF T, TypeOK
  <1>5. /\ Offset(packet_num) \in Int /\ size \in Int
    <2>1. size \in Nat /\ packet_num - 1 \in Nat
      BY <1>2, <1>3, PacketizerConstantsOK DEF TypeOK
    <2>2. QED
      BY <1>3, <2>1, Cut, EndType DEF T, TypeOK
  <1>6. QED  BY <1>1, <1>4, <1>5 DEF ThrowOutOfRange

LEMMA ReceiveStep ==
    ASSUME TypeOK, Fits, InOrder, ReceiveCrc
    PROVE  InOrder'
  <1>0. T \in Nat /\ Len(req) \in Nat /\ packet_num \in Nat
    BY TotalFits, PacketizerConstantsOK DEF TypeOK, T
  <1>1. Received = T /\ answer = <<Whole>> /\ packet_num = T + 1
    BY DEF InOrder, ReceiveCrc
  <1>2. req = <<>>
    BY <1>0, <1>1 DEF Received, TypeOK
  <1>3. pc' = "confirmed" /\ answer' = <<>>
    BY <1>1 DEF ReceiveCrc
  <1>4. /\ T' = T /\ Received' = Received /\ End(Received)' = End(Received)
        /\ \A k : PacketOf(k)' = PacketOf(k)
    BY DEF ReceiveCrc, T, TotalPackets, Received, End, PacketOf, Offset, ChunkSize
  <1>5. QED
    BY <1>0, <1>1, <1>2, <1>3, <1>4 DEF InOrder, ReceiveCrc

\* The server appends the next part of the data, or starts with the first.
LEMMA HandleStep ==
    ASSUME TypeOK, Fits, InOrder, HandlePacket
    PROVE  InOrder'
  <1> DEFINE k == Received + 1
             m == Head(req)
  <1>0. /\ T \in 1..(U16 - 2) /\ T \in Nat
        /\ Len(req) \in Nat \ {0} /\ packet_num \in Nat /\ Received \in Nat
    <2>1. T \in 1..(U16 - 2) /\ U16 \in Nat
      BY TotalFits, PacketizerConstantsOK DEF TypeOK, T
    <2>2. Len(req) \in Nat \ {0} /\ packet_num \in Nat
      BY PacketizerConstantsOK DEF TypeOK, HandlePacket
    <2>3. QED  BY <2>1, <2>2 DEF InOrder, Received
  <1>1. k \in 1..T /\ k \in Nat
    BY <1>0 DEF InOrder, Received
  <1>2. m = PacketOf(k)
    BY <1>0 DEF InOrder, TypeOK
  <1>3. m.number = k /\ m.total = T /\ m.data = Slice(Offset(k), ChunkSize(k))
    BY <1>2 DEF PacketOf, InOrder
  <1>4. Stored(m) = Slice(0, End(k))
    <2>1. /\ Offset(k) = End(Received) /\ ChunkSize(k) = End(k) - End(Received)
          /\ ChunkSize(k) \in Nat
      <3>1. k - 1 = Received
        BY <1>0
      <3>2. QED  BY <1>1, <3>1, Cut DEF T, TypeOK
    <2>2. End(Received) \in Nat /\ End(k) \in Nat /\ End(0) = 0
      BY <1>0, <1>1, EndType DEF TypeOK
    <2>3. Slice(0, End(Received)) \o m.data = Slice(0, End(k))
      <3>1. Slice(0, End(Received)) \o Slice(End(Received), ChunkSize(k))
              = Slice(0, End(Received) + ChunkSize(k))
        BY <2>1, <2>2, SliceConcat
      <3>2. End(Received) + ChunkSize(k) = End(k)
        BY <2>1, <2>2
      <3>3. QED  BY <1>3, <2>1, <3>1, <3>2
    <2>4. CASE Received = 0
      <3>1. Slice(0, End(Received)) = <<>>
        BY <2>2, <2>4 DEF Slice
      <3>2. m.number = 1
        BY <1>3, <2>4
      <3> HIDE DEF m
      <3>3. Stored(m) = <<>> \o m.data
        BY <3>2 DEF Stored
      <3>4. QED  BY <2>3, <3>1, <3>3
    <2>5. CASE Received > 0
      <3>1. stored = Slice(0, End(Received))
        BY <2>5 DEF InOrder
      <3>2. m.number # 1
        BY <1>0, <1>3, <2>5
      <3> HIDE DEF m
      <3>3. Stored(m) = stored \o m.data
        BY <3>2 DEF Stored
      <3>4. QED  BY <2>3, <3>1, <3>3
    <2>6. QED  BY <1>0, <2>4, <2>5
  <1>5. /\ Len(req') = Len(req) - 1 /\ DOMAIN req' = 1..(Len(req) - 1)
        /\ DOMAIN req = 1..Len(req)
        /\ \A i \in 1..(Len(req) - 1) : req'[i] = req[i + 1]
    BY DEF HandlePacket, TypeOK
  <1>6. Received' = k
    BY <1>0, <1>5 DEF HandlePacket, Received
  <1>7. /\ T' = T /\ Whole' = Whole /\ End(Received)' = End(k)
        /\ \A j : PacketOf(j)' = PacketOf(j)
    BY <1>6 DEF HandlePacket, T, TotalPackets, Whole, End, PacketOf, Offset, ChunkSize
  <1>8. (\A i \in DOMAIN req : req[i] = PacketOf(Received + i))'
    <2>1. \A i \in 1..(Len(req) - 1) :
            i + 1 \in DOMAIN req /\ Received + (i + 1) = k + i
      BY <1>0, <1>5
    <2>2. \A i \in 1..(Len(req) - 1) : req'[i] = PacketOf(k + i)
      BY <1>5, <2>1 DEF InOrder
    <2>3. QED  BY <1>5, <1>6, <1>7, <2>2
  <1>9. pc # "confirmed"
    BY DEF InOrder, HandlePacket
  <1>10. answer' = IF k = T THEN <<Whole>> ELSE <<>>
    <2>1. answer = <<>>
      BY <1>0, <1>1, <1>9 DEF InOrder
    <2>2. Slice(0, End(T)) = Whole
      BY CutEnds DEF T, TypeOK
    <2>3. QED  BY <1>3, <1>4, <2>1, <2>2 DEF HandlePacket
  <1>11. stored' = Slice(0, End(k))
    BY <1>4 DEF HandlePacket
  <1>12. UNCHANGED <<size, pc, total, packet_num>>
    BY DEF HandlePacket
  <1>13. (Received > 0 => stored = Slice(0, End(Received)))'
    BY <1>7, <1>11
  <1>14. (pc # "confirmed" => answer = IF Received = T THEN <<Whole>> ELSE <<>>)'
    BY <1>6, <1>7, <1>10
  <1>15. Received' >= 0
    BY <1>1, <1>6
  <1>16. QED
    BY <1>7, <1>8, <1>9, <1>12, <1>13, <1>14, <1>15 DEF InOrder

LEMMA UploadInit == Init => UploadInv
  BY TypeInit DEF Init, UploadInv

LEMMA UploadStep == UploadInv /\ [Next]_vars => UploadInv'
  <1> SUFFICES ASSUME UploadInv, [Next]_vars  PROVE UploadInv'
    OBVIOUS
  <1>1. TypeOK /\ TypeOK'
    BY TypeStep DEF UploadInv
  <1>2. CASE ~Fits'
    BY <1>1, <1>2 DEF UploadInv
  <1>3. CASE Fits'
    <2>1. Fits
      BY <1>3 DEF Fits, Next, Client, Split, SendPacket, ThrowOutOfRange, EndLoop,
                  ReceiveCrc, HandlePacket, Over, Stuck, vars
    <2>2. CASE UNCHANGED vars
      BY <1>1, <2>1, <2>2
         DEF UploadInv, InOrder, vars, T, TotalPackets, Received, Whole, End, PacketOf,
             Offset, ChunkSize
    <2>3. CASE pc = "split" /\ Next /\ ~UNCHANGED vars
      <3>1. Split
        BY <2>1, <2>3
           DEF UploadInv, Next, Client, SendPacket, ThrowOutOfRange, EndLoop, ReceiveCrc,
               HandlePacket, Over, Stuck
      <3>2. pc' # "split"
        BY <3>1 DEF Split
      <3>3. QED  BY <1>1, <2>1, <2>3, <3>1, <3>2, SplitStep DEF UploadInv
    <2>4. CASE pc # "split" /\ Next /\ ~UNCHANGED vars
      <3>1. InOrder
        BY <2>1, <2>4 DEF UploadInv
      <3>2. SendPacket \/ EndLoop \/ ReceiveCrc \/ HandlePacket
        BY <1>1, <2>1, <2>4, <3>1, NoThrow DEF Next, Client, Split, Over, Stuck
      <3>3. InOrder'
        BY <1>1, <2>1, <3>1, <3>2, SendStep, EndLoopStep, ReceiveStep, HandleStep
           DEF SendPacket
      <3>4. pc' # "split"
        BY <3>3 DEF InOrder
      <3>5. QED  BY <1>1, <3>3, <3>4 DEF UploadInv
    <2>5. QED  BY <2>2, <2>3, <2>4
  <1>4. QED  BY <1>2, <1>3

LEMMA UploadInvariant == Spec => []UploadInv
  BY UploadInit, UploadStep, PTL DEF Spec

\* For every size of a packet, width of the counters and file that fits, what
\* the server answers a checksum of is the whole data.
THEOREM CompleteIsWholeHolds == Spec => []CompleteIsWhole
  <1>1. UploadInv => CompleteIsWhole
    BY DEF UploadInv, InOrder, CompleteIsWhole
  <1>2. QED  BY UploadInvariant, <1>1, PTL

\* And a client that awaits the checksum has it coming: the two sides never wait
\* for each other.
THEOREM FittingChecksumComesHolds == Spec => []FittingChecksumComes
  <1>1. UploadInv => FittingChecksumComes
    <2>1. SUFFICES ASSUME TypeOK, Fits, InOrder, pc = "awaitCrc", req = <<>>
                   PROVE  answer # <<>>
      BY DEF UploadInv, FittingChecksumComes
    <2>2. T \in Nat
      BY <2>1, TotalFits, PacketizerConstantsOK DEF TypeOK, T
    <2>3. Received = T
      BY <2>1, <2>2 DEF InOrder, Received
    <2>4. QED  BY <2>1, <2>3 DEF InOrder
  <1>2. QED  BY UploadInvariant, <1>1, PTL
=============================================================================
