----------------------------- MODULE Packetizer -----------------------------
(***************************************************************************)
(* RequestsHandler::send_file cuts the encrypted data into packets with    *)
(* counters of 16 bits and sizes of 32; handle_send_file_request puts the  *)
(* packets together again and answers the one whose number is the total.   *)
(* Module Transfer counts packets without a width and relies on this one:  *)
(* here the arithmetic is that of the declared types.                      *)
(*                                                                         *)
(* One upload over a connection that stays open.  The data are the         *)
(* positions 1..size, so that what the server holds shows where it is from.*)
(***************************************************************************)
EXTENDS Integers, Sequences

CONSTANTS BUFFER_SIZE, \* data bytes of a packet (8192)
          U16,         \* number of values of a uint16_t
          U32,         \* number of values of a uint32_t
          Sizes        \* sizes of the encrypted data

ASSUME PacketizerConstantsOK ==
    /\ BUFFER_SIZE \in Nat \ {0}
    /\ U16 \in Nat \ {0, 1}
    /\ U32 \in Nat /\ U16 * BUFFER_SIZE <= U32
    /\ Sizes \subseteq 1..(U32 - 1)

VARIABLES
    size,       \* encrypted_data_size
    pc,         \* where the client stands in handle_send_file
    total,      \* total_packets
    packet_num, \* the loop variable of send_file
    req,        \* packets in flight to the server, in order
    stored,     \* the stored file
    answer      \* the contents the server sent a checksum of, in order

vars == <<size, pc, total, packet_num, req, stored, answer>>
-----------------------------------------------------------------------------
Slice(offset, length) == [i \in 1..length |-> offset + i]
Whole == Slice(0, size)

Packet == [number : 0..(U16 - 1), total : 0..(U16 - 1), data : Seq(Nat)]

TypeOK ==
    /\ size \in Sizes
    /\ pc \in {"split", "send", "awaitCrc", "confirmed", "refused", "failed"}
    /\ total \in 0..(U16 - 1)
    /\ packet_num \in 0..(U16 - 1)
    /\ req \in Seq(Packet)
    /\ stored \in Seq(Nat)
    /\ answer \in Seq(Seq(Nat))

\* The stored file may hold an earlier upload, here the position 0.
Init ==
    /\ size \in Sizes
    /\ pc = "split"
    /\ total = 0
    /\ packet_num = 0
    /\ req = <<>>
    /\ stored \in {<<>>, <<0>>}
    /\ answer = <<>>
-----------------------------------------------------------------------------
(* The client. *)

\* (encrypted_data_size + BUFFER_SIZE - 1) / BUFFER_SIZE, in 32 bits and then
\* stored in 16.
MutTotalPackets(n) == (n \div BUFFER_SIZE) % U16       \* mutant: rounded down
TotalPackets(n) == (((n + BUFFER_SIZE - 1) % U32) \div BUFFER_SIZE) % U16

Split ==
    /\ pc = "split"
    /\ total' = TotalPackets(size)
    /\ packet_num' = 1
    /\ pc' = "send"
    /\ UNCHANGED <<size, req, stored, answer>>

\* The product is an int; assigned to a uint32_t it wraps around when packet_num
\* is 0.
Offset(number) == ((number - 1) * BUFFER_SIZE) % U32

ChunkSize(number) ==
    LET rest == (size - Offset(number)) % U32 IN
    IF rest < BUFFER_SIZE THEN rest ELSE BUFFER_SIZE

PacketOf(number) ==
    [number |-> number, total |-> total,
     data |-> Slice(Offset(number), ChunkSize(number))]

MutInLoop == packet_num < total                        \* mutant: < for <=
InLoop == packet_num <= total

MutSucc(number) == number + 1                          \* mutant: an int
Succ(number) == (number + 1) % U16

SendPacket ==
    /\ pc = "send" /\ InLoop /\ Offset(packet_num) <= size
    /\ req' = Append(req, PacketOf(packet_num))
    /\ packet_num' = Succ(packet_num)
    /\ UNCHANGED <<size, pc, total, stored, answer>>

\* substr throws out_of_range, and nothing catches it before main.
ThrowOutOfRange ==
    /\ pc = "send" /\ InLoop /\ Offset(packet_num) > size
    /\ pc' = "failed"
    /\ UNCHANGED <<size, total, packet_num, req, stored, answer>>

EndLoop ==
    /\ pc = "send" /\ ~InLoop
    /\ pc' = "awaitCrc"
    /\ UNCHANGED <<size, total, packet_num, req, stored, answer>>

\* A wrong checksum starts another trial, with the same numbers.
ReceiveCrc ==
    /\ pc = "awaitCrc" /\ answer # <<>>
    /\ pc' = IF Head(answer) = Whole THEN "confirmed" ELSE "refused"
    /\ answer' = Tail(answer)
    /\ UNCHANGED <<size, total, packet_num, req, stored>>
-----------------------------------------------------------------------------
(* The server. *)

\* mode "wb" for packet 1, "ab" for the others
MutStored(m) == stored \o m.data                       \* mutant: "ab" for all
Stored(m) == (IF m.number = 1 THEN <<>> ELSE stored) \o m.data

HandlePacket ==
    LET m == Head(req) IN
    /\ req # <<>>
    /\ req' = Tail(req)
    /\ stored' = Stored(m)
    /\ answer' = IF m.number = m.total THEN Append(answer, Stored(m)) ELSE answer
    /\ UNCHANGED <<size, pc, total, packet_num>>

Over == /\ pc \in {"confirmed", "refused", "failed"} /\ req = <<>>
        /\ UNCHANGED vars

\* send_file has sent nothing and get_send_file_response_crc waits.
Stuck == /\ pc = "awaitCrc" /\ req = <<>> /\ answer = <<>>
         /\ UNCHANGED vars
-----------------------------------------------------------------------------
Client == Split \/ SendPacket \/ ThrowOutOfRange \/ EndLoop \/ ReceiveCrc

Next == Client \/ HandlePacket \/ Over \/ Stuck

Spec == Init /\ [][Next]_vars

FairSpec == Spec /\ WF_vars(Client) /\ WF_vars(HandlePacket)
-----------------------------------------------------------------------------
(* Properties. *)

\* The packet numbers leave one value above the last one for the loop to end.
Fits == size <= (U16 - 2) * BUFFER_SIZE

\* Where the server takes the upload to be complete it holds all of the data,
\* each byte once and in order, whatever was in the file before
\* (handle_send_file_request, for what send_file cut).
CompleteIsWhole == Fits => \A i \in DOMAIN answer : answer[i] = Whole

\* A client that awaits the checksum of a file whose packets the counters can
\* number has one coming: send_file has sent, or the server has answered, the
\* packet whose number is the total.  Of one more packet than that the loop does
\* not end, and of U16 packets none is sent and both sides wait (Stuck).
FittingChecksumComes ==
    Fits /\ pc = "awaitCrc" => req # <<>> \/ answer # <<>>

\* Every file that fits is confirmed in the first trial, down to one byte and up
\* to the largest (the loops of send_file and handle_send_file).
EveryFittingFileConfirmed == (pc = "split" /\ Fits) ~> pc = "confirmed"
=============================================================================
