------------------------------- MODULE Codec --------------------------------
(***************************************************************************)
(* The layout of requests and responses, which client and server each have *)
(* in code of their own: what the client serialises by shifts the server   *)
(* unpacks by struct formats, and what the server packs the client takes   *)
(* apart by indices.  Also the id as me.info keeps it.                     *)
(*                                                                         *)
(* One message, of either direction.  An id in a response is then written  *)
(* to me.info and read from it by the next execution.  Module Framing has  *)
(* the pieces the bytes come in.                                           *)
(***************************************************************************)
EXTENDS Naturals, Sequences

CONSTANTS BYTE,           \* values of a byte (256)
          DIGIT,          \* values of a hexadecimal digit (16)
          LITTLE_ENDIAN,  \* is_little_endian(); TRUE where AESWrapper.cpp builds
          ID_SIZE,        \* bytes of an id (16)
          NAME_SIZE,      \* CLIENT_NAME_SIZE and FILE_NAME_SIZE (255)
          KEY_SIZE,       \* bytes of an RSA public key (160)
          Ids, Names, Keys, Data, Uint16, Uint32  \* the values tried

Byte == 0..(BYTE - 1)

ASSUME CodecConstantsOK ==
    /\ BYTE \in Nat /\ BYTE > 1 /\ DIGIT \in Nat /\ DIGIT * DIGIT = BYTE
    /\ LITTLE_ENDIAN \in BOOLEAN
    /\ ID_SIZE \in Nat \ {0} /\ NAME_SIZE \in Nat \ {0} /\ KEY_SIZE \in Nat \ {0}
    /\ Ids \subseteq [1..ID_SIZE -> Byte]
    /\ Names \subseteq Seq(Byte \ {0})
    /\ Keys \subseteq [1..KEY_SIZE -> Byte]
    /\ Data \subseteq Seq(Byte)
    /\ Uint16 \subseteq 0..(BYTE * BYTE - 1)
    /\ Uint32 \subseteq 0..(BYTE * BYTE * BYTE * BYTE - 1)

\* Every payload has a size that payload_size can say: its fields have fixed
\* sizes, except the data of a packet, which is a buffer at most, and an AES key
\* encrypted with an RSA key.
ASSUME PayloadsFit ==
    /\ ID_SIZE + NAME_SIZE + KEY_SIZE + 12 < BYTE * BYTE * BYTE * BYTE
    /\ \A d \in Data :
         ID_SIZE + NAME_SIZE + 12 + Len(d) < BYTE * BYTE * BYTE * BYTE

VARIABLES
    pc,      \* the next step, or "done"
    message, \* what its sender has to say
    wire,    \* the bytes on the way, the digits in me.info
    header,  \* what the receiver took from the header
    body     \* what the receiver took from the payload

vars == <<pc, message, wire, header, body>>
-----------------------------------------------------------------------------
(* The byte order of the client: Endianness.cpp. *)

convert16(v) == (v \div BYTE) + (v % BYTE) * BYTE
convert32(v) ==
    convert16(v \div (BYTE * BYTE)) + convert16(v % (BYTE * BYTE)) * BYTE * BYTE

Little16(v) == IF LITTLE_ENDIAN THEN v ELSE convert16(v)
Little32(v) == IF LITTLE_ENDIAN THEN v ELSE convert32(v)

\* The bytes pushed, the lowest first: (v >> 8 * k) & 0xFF.
Masked(v) == v % BYTE

Bytes16(v) == LET w == Little16(v) IN <<Masked(w), Masked(w \div BYTE)>>
Bytes32(v) ==
    LET w == Little32(v) IN
    <<Masked(w), Masked(w \div BYTE), Masked(w \div (BYTE * BYTE)),
      Masked(w \div (BYTE * BYTE * BYTE))>>

\* The value at places i, i + 1, ... of a sequence.
At16(s, i) == s[i] + s[i + 1] * BYTE
At32(s, i) == At16(s, i) + At16(s, i + 2) * BYTE * BYTE

MutGet32(s, i) == Little32(At16(s, i))                 \* mutant: two bytes
Get16(s, i) == Little16(At16(s, i))
Get32(s, i) == Little32(At32(s, i))
-----------------------------------------------------------------------------
(* The client writes. *)

\* std::string::resize(size, '\0')
Resized(name) == [k \in 1..NAME_SIZE |-> IF k <= Len(name) THEN name[k] ELSE 0]

RequestHeader(client_id, version, code, size) ==
    client_id \o <<version>> \o Bytes16(code) \o Bytes32(size)

\* mutant: the two counters swapped
MutSendFilePayload(r) ==
    Bytes32(r.file_size) \o Bytes32(r.orig_file_size) \o Bytes16(r.total_packets)
      \o Bytes16(r.packet_number) \o Resized(r.name) \o r.data
SendFilePayload(r) ==
    Bytes32(r.file_size) \o Bytes32(r.orig_file_size) \o Bytes16(r.packet_number)
      \o Bytes16(r.total_packets) \o Resized(r.name) \o r.data

\* RegisterPayload is the payload of logins and of verdicts too.
Payload(r) == CASE r.kind = "name" -> Resized(r.name)
                [] r.kind = "key"  -> Resized(r.name) \o r.key
                [] r.kind = "file" -> SendFilePayload(r)

Packet(r) == RequestHeader(r.id, r.version, r.code, Len(Payload(r))) \o Payload(r)
-----------------------------------------------------------------------------
(* The server reads. *)

REQUEST_HEADER_SIZE == ID_SIZE + 1 + 2 + 4
FILE_PAYLOAD_SIZE_WITHOUT_DATA == 4 + 4 + 2 + 2 + NAME_SIZE

From(s, first, length) == [k \in 1..length |-> s[first + k - 1]]

\* struct.unpack with REQUEST_HEADER_FORMAT, '<16sBHI'
UnpackHeader(s) ==
    [id |-> From(s, 1, ID_SIZE), version |-> s[ID_SIZE + 1],
     code |-> At16(s, ID_SIZE + 2), payload_size |-> At32(s, ID_SIZE + 4)]

\* rstrip(b'\x00')
Stripped(name) ==
    LET last == {k \in DOMAIN name : name[k] # 0} IN
    From(name, 1, IF last = {} THEN 0 ELSE CHOOSE k \in last : \A j \in last : j <= k)

\* get_data for a name, '<255s160s' and '<IIHH255s' with the rest for the data.
UnpackPayload(kind, s, size) ==
    CASE kind = "name" -> [name |-> Stripped(From(s, 1, NAME_SIZE))]
      [] kind = "key"  -> [name |-> Stripped(From(s, 1, NAME_SIZE)),
                           key |-> From(s, NAME_SIZE + 1, KEY_SIZE)]
      [] kind = "file" ->
           [file_size |-> At32(s, 1), orig_file_size |-> At32(s, 5),
            packet_number |-> At16(s, 9), total_packets |-> At16(s, 11),
            name |-> Stripped(From(s, 13, NAME_SIZE)),
            data |-> From(s, FILE_PAYLOAD_SIZE_WITHOUT_DATA + 1,
                          size - FILE_PAYLOAD_SIZE_WITHOUT_DATA)]
-----------------------------------------------------------------------------
(* The server writes and the client reads. *)

\* to_bytes(width, 'little') and struct.pack with '<', on any machine
ToBytes16(v) == <<v % BYTE, v \div BYTE>>
ToBytes32(v) == ToBytes16(v % (BYTE * BYTE)) \o ToBytes16(v \div (BYTE * BYTE))

ResponsePayload(r) ==
    CASE r.kind = "none" -> <<>>
      [] r.kind = "id"   -> r.id
      [] r.kind = "key"  -> r.id \o r.key
      [] r.kind = "file" -> r.id \o ToBytes32(r.size) \o Resized(r.name)
                              \o ToBytes32(r.checksum)

Message(r) == <<r.version>> \o ToBytes16(r.code)
                \o ToBytes32(Len(ResponsePayload(r))) \o ResponsePayload(r)

SERVER_RESPONSE_HEADER_SIZE == 1 + 2 + 4
CHECKSUM_SIZE == 4

UnpackResponseHeader(s) ==
    [version |-> s[1], code |-> Get16(s, 2), payload_size |-> Get32(s, 4)]

\* The id is all of the payload, a key what follows the id, a checksum the last
\* four bytes; the other callers take nothing.
TakePayload(kind, buf, size) ==
    CASE kind = "none" -> <<>>
      [] kind = "id"   -> buf
      [] kind = "key"  -> From(buf, ID_SIZE + 1, size - ID_SIZE)
      [] kind = "file" -> Get32(buf, size - CHECKSUM_SIZE + 1)
-----------------------------------------------------------------------------
(* The id in me.info. *)

\* mutant: char for unsigned char, the int of four bytes is negative
MutHex(c) ==
    IF c < DIGIT THEN <<c>>
    ELSE (IF c < BYTE \div 2 THEN <<>> ELSE [k \in 1..6 |-> DIGIT - 1])
           \o <<c \div DIGIT, c % DIGIT>>
\* std::hex of an int; setw(2) and setfill('0')
Hex(c) == IF c < DIGIT THEN <<c>> ELSE <<c \div DIGIT, c % DIGIT>>
MutFilled(digits) == digits                            \* mutant: no setw
Filled(digits) == IF Len(digits) < 2 THEN <<0>> \o digits ELSE digits

HexOf(bytes) ==
    LET f[k \in 0..Len(bytes)] ==
            IF k = 0 THEN <<>> ELSE f[k - 1] \o Filled(Hex(bytes[k]))
    IN f[Len(bytes)]

\* Two digits at a time; std::stoi of one digit is that digit.
hex_to_binary(digits) ==
    [k \in 1..((Len(digits) + 1) \div 2) |->
        IF 2 * k <= Len(digits) THEN digits[2 * k - 1] * DIGIT + digits[2 * k]
                                ELSE digits[2 * k - 1]]
-----------------------------------------------------------------------------
(* The messages and their way. *)

Requests ==
    [kind : {"name"}, id : Ids, version : Byte, code : Uint16, name : Names]
    \cup [kind : {"key"}, id : Ids, version : {1}, code : Uint16, name : Names, key : Keys]
    \cup [kind : {"file"}, id : Ids, version : {1}, code : {1}, name : Names,
          file_size : Uint32, orig_file_size : Uint32, packet_number : Uint16,
          total_packets : Uint16, data : Data]

\* The server echoes file_name as it came, with its zeros.
Responses ==
    [kind : {"none", "id"}, version : Byte, code : Uint16, id : Ids]
    \cup [kind : {"key"}, version : {1}, code : Uint16, id : Ids, key : Data]
    \cup [kind : {"file"}, version : {1}, code : Uint16, id : Ids, name : Names,
          size : Uint32, checksum : Uint32]

TypeOK ==
    /\ \/ pc \in {"request", "header", "payload"} /\ message \in Requests
       \/ pc \in {"response", "answer", "answerPayload", "store", "load"} /\ message \in Responses
       \/ pc = "done" /\ message \in Requests \cup Responses
    /\ wire \in Seq(Byte)
    /\ pc = "load" => wire \in [1..(2 * ID_SIZE) -> 0..(DIGIT - 1)]

Init ==
    /\ \/ pc = "request" /\ message \in Requests
       \/ pc = "response" /\ message \in Responses
    /\ wire = <<>> /\ header = <<>> /\ body = <<>>

Taken(size) == wire' = From(wire, size + 1, Len(wire) - size)

Send ==
    /\ \/ pc = "request" /\ wire' = Packet(message) /\ pc' = "header"
       \/ pc = "response" /\ wire' = Message(message) /\ pc' = "answer"
    /\ UNCHANGED <<message, header, body>>

ParseRequestHeader ==
    /\ pc = "header"
    /\ header' = UnpackHeader(wire)
    /\ Taken(REQUEST_HEADER_SIZE)
    /\ pc' = "payload"
    /\ UNCHANGED <<message, body>>

\* A name is read by its own size, the others by payload_size.
ParsePayload ==
    LET size == IF message.kind = "name" THEN NAME_SIZE ELSE header.payload_size IN
    /\ pc = "payload"
    /\ body' = UnpackPayload(message.kind, From(wire, 1, size), size)
    /\ Taken(size)
    /\ pc' = "done"
    /\ UNCHANGED <<message, header>>

ReceiveHeader ==
    /\ pc = "answer"
    /\ header' = UnpackResponseHeader(wire)
    /\ Taken(SERVER_RESPONSE_HEADER_SIZE)
    /\ pc' = "answerPayload"
    /\ UNCHANGED <<message, body>>

ReceivePayload ==
    LET size == header.payload_size IN
    /\ pc = "answerPayload"
    /\ body' = TakePayload(message.kind, From(wire, 1, size), size)
    /\ Taken(size)
    /\ pc' = IF message.kind = "id" THEN "store" ELSE "done"
    /\ UNCHANGED <<message, header>>

WriteMeInfo ==
    /\ pc = "store" /\ pc' = "load"
    /\ wire' = HexOf(body)
    /\ UNCHANGED <<message, header, body>>

LoadStoredCredentials ==
    /\ pc = "load" /\ pc' = "done"
    /\ body' = hex_to_binary(wire)
    /\ wire' = <<>>
    /\ UNCHANGED <<message, header>>

Over == pc = "done" /\ UNCHANGED vars

Next == \/ Send \/ ParseRequestHeader \/ ParsePayload
        \/ ReceiveHeader \/ ReceivePayload \/ WriteMeInfo \/ LoadStoredCredentials
        \/ Over

Spec == Init /\ [][Next]_vars
-----------------------------------------------------------------------------
(* Properties. *)

Done(messages) == pc = "done" /\ message \in messages

\* What arrives of a name: it is cut at NAME_SIZE, and ends before its padding.
Short(name) == From(name, 1, IF Len(name) < NAME_SIZE THEN Len(name) ELSE NAME_SIZE)

\* The server reads every field of a request as the client meant it, and nothing
\* is left of it on the wire for the next header (the serialize functions, and
\* the formats of protocol_constants.py).
RequestReadAsMeant ==
    Done(Requests) =>
        /\ wire = <<>>
        /\ \A f \in {"id", "version", "code"} : header[f] = message[f]
        /\ \A f \in DOMAIN body \ {"name"} : body[f] = message[f]
        /\ body.name = Short(message.name)

\* The client takes the code, the key and the checksum the server packed, and
\* nothing is left of a response for the next one (_construct_response_message,
\* load_encrypted_key_and_id, unpack_response_header and its callers).
ResponseReadAsMeant ==
    Done(Responses) =>
        /\ wire = <<>>
        /\ header.version = message.version /\ header.code = message.code
        /\ message.kind = "key" => body = message.key
        /\ message.kind = "file" => body = message.checksum

\* The id the next execution logs in with is the one the server gave, whatever
\* its bytes, zero digits and those above half of a byte included (write_me_info
\* and hex_to_binary).
IdSurvivesFile == Done(Responses) /\ message.kind = "id" => body = message.id
=============================================================================
