------------------------------ MODULE Framing -------------------------------
(***************************************************************************)
(* One connection at the level of the bytes a recv returns: the client     *)
(* writes requests of a header and a payload one after another; the bytes  *)
(* arrive in pieces; the server reads with one recv for the header and one *)
(* for the payload, each returning what has arrived by then.               *)
(*                                                                         *)
(* A byte is <<request, place>>; places up to HEADER belong to the header. *)
(* A recv that starts anywhere else reads a code nobody defined: it takes  *)
(* bytes of a name or of a random id for one.                              *)
(***************************************************************************)
EXTENDS Naturals, Sequences

CONSTANTS Script,  \* the kinds of the requests the client sends, in order
          HEADER,  \* REQUEST_HEADER_SIZE (23)
          PAYLOAD  \* payload bytes of each kind

\* "name": register, login and the verdicts on a checksum, read by get_data.
\* "key" and "lastPacket" are unpacked as a whole and answered, "packet" is
\* unpacked as a whole and not answered.
Kind == {"name", "key", "packet", "lastPacket"}
Named == {"name"}

ASSUME FramingConstantsOK ==
    /\ Script \in Seq(Kind)
    /\ HEADER \in Nat \ {0}
    /\ PAYLOAD \in [Kind -> Nat \ {0}]

VARIABLES
    sent,    \* number of requests written
    waiting, \* the client reads the answer to the last one
    here,    \* is the client process running?
    wire,    \* bytes written and not arrived
    buf,     \* bytes arrived and not read
    conn,    \* the server's side: "garbled" after a name cut short
    request, \* the request whose header has been read, 0 between requests
    handled, \* requests handled, in order
    answers  \* answers in flight: the request, 0 for GENERAL_FAIL_CODE

vars == <<sent, waiting, here, wire, buf, conn, request, handled, answers>>
clientVars == <<sent, waiting, here>>
-----------------------------------------------------------------------------
Bytes(r) == [i \in 1..(HEADER + PAYLOAD[Script[r]]) |-> <<r, i>>]
HeaderOf(r) == SubSeq(Bytes(r), 1, HEADER)

TypeOK ==
    /\ sent \in 0..Len(Script)
    /\ waiting \in BOOLEAN /\ here \in BOOLEAN
    /\ wire \in Seq(Nat \X Nat) /\ buf \in Seq(Nat \X Nat)
    /\ conn \in {"open", "garbled", "closed"}
    /\ request \in 0..sent
    /\ handled \in Seq(1..sent)
    /\ answers \in Seq(0..sent)
    /\ conn = "closed" => wire = <<>> /\ buf = <<>> /\ request = 0

Init ==
    /\ sent = 0 /\ waiting = FALSE /\ here = TRUE
    /\ wire = <<>> /\ buf = <<>>
    /\ conn = "open" /\ request = 0 /\ handled = <<>> /\ answers = <<>>
-----------------------------------------------------------------------------
(* The client and the network. *)

\* boost::asio::write.  Nothing is awaited after a packet but the last.
Send ==
    /\ here /\ ~waiting /\ sent < Len(Script)
    /\ sent' = sent + 1
    /\ waiting' = (Script[sent + 1] # "packet")
    /\ wire' = IF conn = "closed" THEN wire ELSE wire \o Bytes(sent + 1)
    /\ UNCHANGED <<here, buf, conn, request, handled, answers>>

\* unpack_response_header and the payload: boost::asio::read waits for all of
\* it.  After a failure a trial loop goes on, other callers end.
Receive ==
    /\ here /\ waiting /\ answers # <<>>
    /\ answers' = Tail(answers)
    /\ waiting' = FALSE
    /\ here' \in {TRUE, Head(answers) # 0}
    /\ UNCHANGED <<sent, wire, buf, conn, request, handled>>

\* The process ends: at its end, killed, or on a connection the server closed.
Leave ==
    /\ here /\ here' = FALSE
    /\ UNCHANGED <<sent, waiting, wire, buf, conn, request, handled, answers>>

Deliver ==
    /\ conn # "closed"
    /\ \E n \in 1..Len(wire) :
         /\ buf' = buf \o SubSeq(wire, 1, n)
         /\ wire' = SubSeq(wire, n + 1, Len(wire))
    /\ UNCHANGED <<clientVars, conn, request, handled, answers>>

\* The reset of a process that died may overtake what it wrote.
Reset ==
    /\ ~here /\ wire # <<>>
    /\ wire' = <<>>
    /\ UNCHANGED <<clientVars, buf, conn, request, handled, answers>>
-----------------------------------------------------------------------------
(* The server: RequestHandler.handle_request on a non-blocking socket. *)

\* conn.recv(size) returns what is there, up to size.
Available(size) == IF Len(buf) < size THEN Len(buf) ELSE size
Received(size) == SubSeq(buf, 1, Available(size))
Read(size) == buf' = SubSeq(buf, Available(size) + 1, Len(buf))

\* The end of the stream: recv returns b''.
AtEnd == ~here /\ wire = <<>> /\ buf = <<>>

\* mutant: the connection is unregistered and not closed
MutClose == conn' = "closed" /\ UNCHANGED <<wire, buf>> /\ request' = 0
Close == conn' = "closed" /\ wire' = <<>> /\ buf' = <<>> /\ request' = 0

\* ConnectionError: cleanup_connection without an answer.
CloseSilently == Close /\ UNCHANGED <<clientVars, handled, answers>>

\* Any other exception: GENERAL_FAIL_CODE, then cleanup_connection.
CloseWithFailure == /\ Close /\ answers' = Append(answers, 0)
                    /\ UNCHANGED <<clientVars, handled>>

\* select() reports the connection.
Readable == conn # "closed" /\ request = 0 /\ (buf # <<>> \/ AtEnd)

Aligned == \E r \in 1..sent : Received(HEADER) = HeaderOf(r)

\* parse_request_header of a whole header.
ParseHeader ==
    /\ Readable /\ Aligned
    /\ request' = buf[1][1]
    /\ Read(HEADER)
    /\ UNCHANGED <<clientVars, wire, conn, handled, answers>>

\* len(data) < REQUEST_HEADER_SIZE: the rest is late, or there is none.
ShortHeader == Readable /\ Len(buf) < HEADER /\ CloseSilently

\* "Unknown request code"
UnknownCode == Readable /\ Len(buf) >= HEADER /\ ~Aligned /\ CloseWithFailure

\* The answer to a request that was handled; a packet but the last has none.
MutAnswered(r) == Append(answers, r)                   \* mutant: every packet
MutSilent(r) == IF Script[r] \in Named \cup {"key"}    \* mutant: no packet
                THEN Append(answers, r) ELSE answers
Answered(r) == IF Script[r] = "packet" THEN answers ELSE Append(answers, r)

Handled(r) ==
    /\ request' = 0
    /\ handled' = Append(handled, r)
    /\ answers' = Answered(r)

\* get_data: all that has arrived of the name, and at least one byte.
ReadName ==
    LET size == PAYLOAD["name"] IN
    /\ request # 0 /\ Script[request] \in Named
    /\ buf # <<>>
    /\ Read(size)
    /\ conn' = IF Len(buf) < size THEN "garbled" ELSE conn
    /\ Handled(request)
    /\ UNCHANGED <<clientVars, wire>>

MutWholePayload(size) == buf # <<>>                    \* mutant: no exact size
WholePayload(size) == Len(buf) >= size

\* conn.recv(payload_size) and struct.unpack, of a payload that is all there.
ReadPayload ==
    LET size == PAYLOAD[Script[request]] IN
    /\ request # 0 /\ Script[request] \notin Named
    /\ WholePayload(size)
    /\ Read(size)
    /\ Handled(request)
    /\ UNCHANGED <<clientVars, wire, conn>>

\* BlockingIOError when nothing has arrived, struct.error when not all has.
LatePayload ==
    /\ request # 0 /\ ~AtEnd
    /\ IF Script[request] \in Named THEN buf = <<>>
                                    ELSE ~WholePayload(PAYLOAD[Script[request]])
    /\ CloseWithFailure

\* The end of the stream after a header: get_data raises ConnectionError,
\* struct.unpack struct.error.
NoPayload ==
    /\ request # 0 /\ AtEnd
    /\ IF Script[request] \in Named THEN CloseSilently ELSE CloseWithFailure

\* The script is over or the client is gone, and the server has seen it.
Over == /\ conn = "closed" \/ (sent = Len(Script) /\ ~waiting /\ wire = <<>> /\ buf = <<>>)
        /\ ~here \/ sent = Len(Script)
        /\ UNCHANGED vars
-----------------------------------------------------------------------------
Client == Send \/ Receive

Server == \/ ParseHeader \/ ShortHeader \/ UnknownCode
          \/ ReadName \/ ReadPayload \/ LatePayload \/ NoPayload

Next == Client \/ Leave \/ Deliver \/ Reset \/ Server \/ Over

Spec == Init /\ [][Next]_vars

\* The network delivers, and select() reports what has arrived.
FairSpec == Spec /\ WF_vars(Deliver) /\ WF_vars(Server)
-----------------------------------------------------------------------------
(* Properties. *)

\* An answer the client takes for the one it waits for is the answer to its
\* last request, or a failure: no answer is left over from an earlier request.
\* A failure is the last answer of its connection, which is closed by then, so
\* that the request it is taken for will not be served after all
\* (unpack_response_header, handle_client).
AnswerFitsRequest ==
    \A i \in DOMAIN answers :
        \/ answers[i] = sent /\ sent # 0
        \/ answers[i] = 0 /\ conn = "closed" /\ i = Len(answers)

\* The requests not handled while the connection is usable.
Queue == IF conn = "closed" THEN <<>>
         ELSE [i \in 1..(sent - Len(handled)) |-> Len(handled) + i]

Channel == INSTANCE RequestChannel WITH queue <- Queue

\* However the bytes are cut, the connection does what KeyExchange and Transfer
\* assume of one: requests are handled whole, in order and once, or the
\* connection is closed; only a name may be cut, and nothing follows it
\* (parse_request_header, get_data, handle_client).
ImplementsChannel == Channel!Spec

\* A client that waits is answered, or its connection is closed: no combination
\* of pieces leaves both sides reading.
EveryWaitEnds == waiting ~> (answers # <<>> \/ ~waiting \/ conn = "closed")
=============================================================================
