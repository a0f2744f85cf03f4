------------------------------ MODULE Transfer ------------------------------
(***************************************************************************)
(* The upload of a file: from the login of a client that is registered to  *)
(* the acknowledgement of its verdict on the server's checksum.            *)
(*                                                                         *)
(* A member of Proc is one execution of the client, on behalf of the       *)
(* client id IdOf[p]; executions that share an id share a working          *)
(* directory and so the local file.  They are each other's siblings.  The  *)
(* server runs one request handler at a time, to its end, unless it dies   *)
(* inside it.  How an id comes to be registered is module KeyExchange.     *)
(*                                                                         *)
(* A file is read, encrypted, sent and stored as a sequence of blocks, the *)
(* data of one packet each.  Checksums of different contents are taken to  *)
(* differ, so a checksum is the content it was computed from.              *)
(***************************************************************************)
EXTENDS Naturals, Sequences, Protocol, Database

CONSTANTS Proc,          \* client processes
          ID,            \* client ids, all registered
          IdOf,          \* the id in the me.info each process finds
          Size,          \* Size[v]: packets of version v of the local file
          NUM_OF_TRIALS, \* attempts at the upload (4)
          MayOverlap,    \* may a process start while a sibling is connected?
          FaultKinds,    \* what may go wrong
          MaxFaults      \* bound: faults in a behaviour

AllFaultKinds == {"clientCrash", "serverCrash", "latePayload", "shortName", "torn"}

ASSUME TransferConstantsOK ==
    /\ IdOf \in [Proc -> ID]
    /\ Size \in Seq(Nat \ {0}) /\ Size # <<>>
    /\ NUM_OF_TRIALS \in Nat \ {0}
    /\ MayOverlap \in BOOLEAN
    /\ FaultKinds \subseteq AllFaultKinds
    /\ MaxFaults \in Nat
    /\ NULL \notin BOOLEAN /\ NULL \notin ClientRow(ID)

VARIABLES
    up,       \* is the server process running?
    clients,  \* table "clients": persistent
    files,    \* table "files": persistent
    disk,     \* the stored file of each client, <<>> when empty: persistent
    local,    \* the version of the local file of each client
    conn,     \* the server's side of each connection
    req,      \* the requests in flight from each process, in order
    resp,     \* the responses in flight to each process, in order
    pc,       \* where each process stands in handle_send_file
    trial,    \* the loop variable of handle_send_file
    aes,      \* the AES key of each process
    sum,      \* orig_file_checksum: the version it was computed from
    sending,  \* the version send_file has read and encrypted
    sent,     \* the packet_num of the last packet sent
    faults    \* faults so far; bounds the model, the program has no such state

vars == <<up, clients, files, disk, local, conn, req, resp,
          pc, trial, aes, sum, sending, sent, faults>>
storeVars == <<clients, files, disk>>
clientVars == <<trial, aes, sum, sending, sent>>
-----------------------------------------------------------------------------
Version == DOMAIN Size

\* The block of packet idx of a version, encrypted with `key'; with NoAesKey
\* it is the plaintext.
Block == [version : Version, idx : Nat \ {0}, key : Nat]
Garbage == [version |-> 0, idx |-> 0, key |-> NoAesKey]
StoredBlock == Block \cup {Garbage}

Content(version, key) ==
    [i \in 1..Size[version] |-> [version |-> version, idx |-> i, key |-> key]]
Plain(version) == Content(version, NoAesKey)

\* CBC: a block decrypts to its plaintext after the block it was encrypted
\* after, or at the start of the data if it was encrypted there.
Intact(data, i, key) ==
    LET b == data[i] IN
    /\ b.key = key
    /\ IF b.idx = 1 THEN i = 1
       ELSE i > 1 /\ data[i - 1] = [b EXCEPT !.idx = @ - 1]

\* cipher.decrypt
Decrypted(data, key) ==
    [i \in DOMAIN data |-> IF Intact(data, i, key) THEN [data[i] EXCEPT !.key = NoAesKey]
                                                   ELSE Garbage]

\* unpad certainly finds valid padding where the last block of a file came out
\* whole; anywhere else it may fail or find some.
PaddingOK(data, key) ==
    LET b == data[Len(data)] IN Intact(data, Len(data), key) /\ b.idx = Size[b.version]

ConnState == {"none", "open", "garbled", "closed"}
Connected(p) == conn[p] \in {"open", "garbled"}

Over == {"success", "gaveUp", "failed", "dead"}
AwaitingAck == {"awaitAckValid", "awaitAckRetry", "awaitAckFinal"}
Running == {"awaitLogin", "openFile", "send", "awaitCrc"} \cup AwaitingAck
PC == {"off"} \cup Running \cup Over

CrcCodes == {VALID_CRC_REQUEST_CODE, INVALID_CRC_REQUEST_CODE,
             INVALID_CRC_FINAL_REQUEST_CODE}
Request == [code : {LOGIN_REQUEST_CODE} \cup CrcCodes]
             \cup [code : {SEND_FILE_REQUEST_CODE}, block : Block, total : Nat]
Response == [code : {SERVER_ACK_CODE, GENERAL_FAIL_CODE}]
              \cup [code : {LOGIN_SUCCESS_CODE}, aes : Nat]
              \cup [code : {RECEIVED_FILE_SUCCESS_CODE}, checksum : Seq(StoredBlock)]

TypeOK ==
    /\ up \in BOOLEAN
    /\ clients \in [ID -> ClientRow(ID)]
    /\ files \in [ID -> BOOLEAN \cup {NULL}]
    /\ disk \in [ID -> Seq(StoredBlock)]
    /\ local \in [ID -> Version]
    /\ conn \in [Proc -> ConnState]
    /\ req \in [Proc -> Seq(Request)]
    /\ resp \in [Proc -> Seq(Response)]
    /\ pc \in [Proc -> PC]
    /\ trial \in [Proc -> 1..NUM_OF_TRIALS]
    /\ aes \in [Proc -> Nat]
    /\ sum \in [Proc -> Version]
    /\ sending \in [Proc -> Version]
    /\ sent \in [Proc -> Nat]
    /\ \A p \in Proc : sent[p] <= Size[sending[p]]
    /\ faults \in 0..MaxFaults

\* Every id has exchanged keys (its public key is its own name) and uploaded
\* nothing yet.
Init ==
    /\ up = TRUE
    /\ clients = [id \in ID |-> [public_key |-> id, aes_key |-> 1]]
    /\ files = [id \in ID |-> NULL]
    /\ disk = [id \in ID |-> <<>>]
    /\ local = [id \in ID |-> 1]
    /\ conn = [p \in Proc |-> "none"]
    /\ req = [p \in Proc |-> <<>>]
    /\ resp = [p \in Proc |-> <<>>]
    /\ pc = [p \in Proc |-> "off"]
    /\ trial = [p \in Proc |-> 1]
    /\ aes = [p \in Proc |-> NoAesKey]
    /\ sum = [p \in Proc |-> 1]
    /\ sending = [p \in Proc |-> 1]
    /\ sent = [p \in Proc |-> 0]
    /\ faults = 0

Siblings(p) == {q \in Proc \ {p} : IdOf[q] = IdOf[p]}
Goto(p, where) == pc' = [pc EXCEPT ![p] = where]
Fault(kind) == kind \in FaultKinds /\ faults < MaxFaults /\ faults' = faults + 1
-----------------------------------------------------------------------------
(* The client process. *)

\* boost::asio::write: a request written on a closed connection is never read.
Sent(p, m) == IF Connected(p) THEN [req EXCEPT ![p] = Append(@, m)] ELSE req

\* Connect, load the stored credentials, send the login request.
Start(p) ==
    /\ pc[p] = "off"
    /\ MayOverlap \/ \A q \in Siblings(p) : pc[q] \in {"off"} \cup Over /\ ~Connected(q)
    /\ \/ /\ up
          /\ conn' = [conn EXCEPT ![p] = "open"]
          /\ req' = [req EXCEPT ![p] = <<[code |-> LOGIN_REQUEST_CODE]>>]
          /\ Goto(p, "awaitLogin")
       \/ ~up /\ Goto(p, "failed") /\ UNCHANGED <<conn, req>>
    /\ UNCHANGED <<up, storeVars, local, resp, clientVars, faults>>

Receive(p) == /\ resp[p] # <<>>
              /\ resp' = [resp EXCEPT ![p] = Tail(@)]

\* The response to the login, then the checksum of the local file: the first
\* step of handle_send_file.  Any other answer comes with a closed connection,
\* on which the remaining trials fail.
ReceiveLogin(p) ==
    LET m == Head(resp[p]) IN
    /\ pc[p] = "awaitLogin"
    /\ Receive(p)
    /\ \/ /\ m.code = LOGIN_SUCCESS_CODE
          /\ aes' = [aes EXCEPT ![p] = m.aes]
          /\ sum' = [sum EXCEPT ![p] = local[IdOf[p]]]
          /\ Goto(p, "openFile")
       \/ m.code # LOGIN_SUCCESS_CODE /\ Goto(p, "failed") /\ UNCHANGED <<aes, sum>>
    /\ UNCHANGED <<up, storeVars, local, conn, req, trial, sending, sent, faults>>

\* send_file reads the whole file, again on every trial, and encrypts it.
OpenFile(p) ==
    /\ pc[p] = "openFile"
    /\ sending' = [sending EXCEPT ![p] = local[IdOf[p]]]
    /\ sent' = [sent EXCEPT ![p] = 0]
    /\ Goto(p, "send")
    /\ UNCHANGED <<up, storeVars, local, conn, req, resp, trial, aes, sum, faults>>

\* One turn of the loop over the packets; nothing is awaited between them.
SendPacket(p) ==
    LET data == Content(sending[p], aes[p])  packet_num == sent[p] + 1 IN
    /\ pc[p] = "send"
    /\ req' = Sent(p, [code |-> SEND_FILE_REQUEST_CODE,
                       block |-> data[packet_num], total |-> Len(data)])
    /\ sent' = [sent EXCEPT ![p] = packet_num]
    /\ Goto(p, IF packet_num = Len(data) THEN "awaitCrc" ELSE "send")
    /\ UNCHANGED <<up, storeVars, local, conn, resp, trial, aes, sum, sending, faults>>

MutMatches(p, checksum) == checksum = Plain(sending[p])  \* mutant: of what was sent
Matches(p, checksum) == checksum = Plain(sum[p])

\* The loop `for (i = 0; i < NUM_OF_TRIALS; i++)'.
MutMoreTrials(p) == trial[p] <= NUM_OF_TRIALS  \* mutant: i <= NUM_OF_TRIALS
MoreTrials(p) == trial[p] < NUM_OF_TRIALS
MutNextTrial(p) == trial[p]                    \* mutant: no i++
NextTrial(p) == trial[p] + 1

Verdict(p, code, where) ==
    req' = Sent(p, [code |-> code]) /\ Goto(p, where)

\* The body of the loop of handle_send_file after send_file.
ReceiveCrc(p) ==
    LET m == Head(resp[p]) IN
    /\ pc[p] = "awaitCrc"
    /\ Receive(p)
    /\ \/ m.code # RECEIVED_FILE_SUCCESS_CODE /\ Goto(p, "failed") /\ UNCHANGED req
       \/ /\ m.code = RECEIVED_FILE_SUCCESS_CODE
          /\ \/ /\ Matches(p, m.checksum)
                /\ Verdict(p, VALID_CRC_REQUEST_CODE, "awaitAckValid")
             \/ /\ ~Matches(p, m.checksum) /\ MoreTrials(p)
                /\ Verdict(p, INVALID_CRC_REQUEST_CODE, "awaitAckRetry")
             \/ /\ ~Matches(p, m.checksum) /\ ~MoreTrials(p)
                /\ Verdict(p, INVALID_CRC_FINAL_REQUEST_CODE, "awaitAckFinal")
    /\ UNCHANGED <<up, storeVars, local, conn, clientVars, faults>>

\* get_ack_from_server, and what handle_send_file does next.
ReceiveAck(p) ==
    LET m == Head(resp[p]) IN
    /\ pc[p] \in AwaitingAck
    /\ Receive(p)
    /\ \/ m.code # SERVER_ACK_CODE /\ Goto(p, "failed") /\ UNCHANGED trial
       \/ /\ m.code = SERVER_ACK_CODE
          /\ \/ pc[p] = "awaitAckValid" /\ Goto(p, "success") /\ UNCHANGED trial
             \/ pc[p] = "awaitAckFinal" /\ Goto(p, "gaveUp") /\ UNCHANGED trial
             \/ /\ pc[p] = "awaitAckRetry" /\ Goto(p, "openFile")
                /\ trial' = [trial EXCEPT ![p] = NextTrial(p)]
    /\ UNCHANGED <<up, storeVars, local, conn, req, aes, sum, sending, sent, faults>>

\* A read or a write on a connection the server closed throws out of main; a
\* reset may take unread responses with it.
LoseConnection(p) ==
    /\ pc[p] \in Running /\ conn[p] = "closed"
    /\ Goto(p, "failed")
    /\ UNCHANGED <<up, storeVars, local, conn, req, resp, clientVars, faults>>

\* The process is killed, or fails to open the local file.
Crash(p) ==
    /\ pc[p] \in Running
    /\ Goto(p, "dead")
    /\ Fault("clientCrash")
    /\ UNCHANGED <<up, storeVars, local, conn, req, resp, clientVars>>

\* The user saves another version of the local file.
Edit(id) ==
    /\ local[id] < Len(Size)
    /\ local' = [local EXCEPT ![id] = @ + 1]
    /\ UNCHANGED <<up, storeVars, conn, req, resp, pc, clientVars, faults>>
-----------------------------------------------------------------------------
(* The server. *)

Requested(p, codes) == /\ up /\ conn[p] = "open"
                       /\ req[p] # <<>> /\ Head(req[p]).code \in codes

Respond(p, m) == resp' = [resp EXCEPT ![p] = Append(@, m)]

\* The server reads the request at the head of the stream of p; all of a name
\* that follows the header, or a part, the rest staying in the stream.
Serve(p, codes) == /\ Requested(p, codes)
                   /\ req' = [req EXCEPT ![p] = Tail(@)]
WholeName == UNCHANGED <<conn, faults>>
PartOfName(p) == conn' = [conn EXCEPT ![p] = "garbled"] /\ Fault("shortName")

HandleLogin(p) ==
    LET id == IdOf[p]  key == get_aes_key(clients, id) + 1 IN
    /\ Serve(p, {LOGIN_REQUEST_CODE})
    /\ WholeName \/ PartOfName(p)
    /\ clients' = update_aes_key(clients, id, key)
    /\ Respond(p, [code |-> LOGIN_SUCCESS_CODE, aes |-> key])
    /\ UNCHANGED <<up, files, disk, local, pc, clientVars>>

\* open(file_path, mode), then f.write
MutWritten(id, block) == Append(disk[id], block)        \* mutant: mode "ab" only
Written(id, block) ==
    Append(IF block.idx = 1 THEN <<>> ELSE disk[id], block)

\* insert_into_files, for the first packet
MutListed(id, block) ==                        \* mutant: a row already there stays
    IF block.idx = 1 /\ files[id] = NULL THEN insert_into_files(files, id, FALSE) ELSE files
Listed(id, block) ==
    IF block.idx = 1 THEN insert_into_files(files, id, FALSE) ELSE files

Close(p) == /\ conn' = [conn EXCEPT ![p] = "closed"]
            /\ req' = [req EXCEPT ![p] = <<>>]

\* Not the last packet: stored, not answered.
HandlePacket(p) ==
    LET id == IdOf[p]  m == Head(req[p]) IN
    /\ Serve(p, {SEND_FILE_REQUEST_CODE})
    /\ m.block.idx # m.total
    /\ disk' = [disk EXCEPT ![id] = Written(id, m.block)]
    /\ files' = Listed(id, m.block)
    /\ UNCHANGED <<up, clients, local, conn, resp, pc, clientVars, faults>>

\* The key the server decrypts with is the one in the table by then.
MutServerKey(p) == aes[p]                      \* mutant: kept with the connection
ServerKey(p) == get_aes_key(clients, IdOf[p])

\* The last packet: the stored file is decrypted and written back.
HandleLastPacket(p) ==
    LET id == IdOf[p]  m == Head(req[p])
        plain == Decrypted(Written(id, m.block), ServerKey(p))
    IN
    /\ Serve(p, {SEND_FILE_REQUEST_CODE})
    /\ m.block.idx = m.total
    /\ disk' = [disk EXCEPT ![id] = plain]
    /\ files' = Listed(id, m.block)
    /\ Respond(p, [code |-> RECEIVED_FILE_SUCCESS_CODE, checksum |-> plain])
    /\ UNCHANGED <<up, clients, local, conn, pc, clientVars, faults>>

\* The last packet, and unpad raises: the encrypted file stays.
FailLastPacket(p) ==
    LET id == IdOf[p]  m == Head(req[p])  data == Written(id, m.block) IN
    /\ Requested(p, {SEND_FILE_REQUEST_CODE})
    /\ m.block.idx = m.total
    /\ ~PaddingOK(data, ServerKey(p))
    /\ disk' = [disk EXCEPT ![id] = data]
    /\ files' = Listed(id, m.block)
    /\ Respond(p, [code |-> GENERAL_FAIL_CODE])
    /\ Close(p)
    /\ UNCHANGED <<up, clients, local, pc, clientVars, faults>>

MutVerifies(code) == code # INVALID_CRC_REQUEST_CODE   \* mutant: 902 as well
Verifies(code) == code = VALID_CRC_REQUEST_CODE

\* handle_crc_codes: the acknowledgement is the same whatever was updated.  A
\* name cut short of its file name is the name of no row.
HandleCrc(p) ==
    LET m == Head(req[p])
        verified == IF Verifies(m.code)
                    THEN update_file_verification(files, IdOf[p], TRUE) ELSE files
    IN
    /\ Serve(p, CrcCodes)
    /\ \/ WholeName /\ files' = verified
       \/ PartOfName(p) /\ files' \in {verified, files}
    /\ Respond(p, [code |-> SERVER_ACK_CODE])
    /\ UNCHANGED <<up, clients, disk, local, pc, clientVars>>

\* The handler raises before it changes anything and the connection is closed:
\* after GENERAL_FAIL_CODE when a payload is late or short or the code is
\* unknown, without a word when the header is short.
FailRequest(p) ==
    /\ up
    /\ \/ conn[p] = "garbled" /\ UNCHANGED faults
       \/ conn[p] = "open" /\ req[p] # <<>> /\ Fault("latePayload")
    /\ Respond(p, [code |-> GENERAL_FAIL_CODE]) \/ UNCHANGED resp
    /\ Close(p)
    /\ UNCHANGED <<up, storeVars, local, pc, clientVars>>

\* The peer is gone; requests still in the stream may be lost with it.
Disconnect(p) ==
    /\ up /\ Connected(p)
    /\ pc[p] \in Over
    /\ Close(p)
    /\ UNCHANGED <<up, storeVars, local, resp, pc, clientVars, faults>>

ServerDown ==
    /\ up' = FALSE
    /\ conn' = [p \in Proc |-> IF Connected(p) THEN "closed" ELSE conn[p]]
    /\ req' = [p \in Proc |-> <<>>]

ServerCrash ==
    /\ up /\ ServerDown /\ Fault("serverCrash")
    /\ UNCHANGED <<storeVars, local, resp, pc, clientVars>>

ServerRestart ==
    /\ ~up /\ up' = TRUE
    /\ UNCHANGED <<storeVars, local, conn, req, resp, pc, clientVars, faults>>

\* handle_send_file_request stops part of the way, because the server dies or
\* because a write raises: the first packet's file is open and empty, or written
\* and its row not inserted; the last packet's is written and listed, or open
\* again, empty, for its plaintext.
Torn(id, m) ==
    {<<data, files>> : data \in IF m.block.idx = 1 THEN {<<>>, Written(id, m.block)} ELSE {}}
    \cup {<<data, Listed(id, m.block)>> :
             data \in IF m.block.idx = m.total THEN {Written(id, m.block), <<>>} ELSE {}}

TearSendFile(p) ==
    LET id == IdOf[p] IN
    /\ Requested(p, {SEND_FILE_REQUEST_CODE})
    /\ Fault("torn")
    /\ \E torn \in Torn(id, Head(req[p])) :
         disk' = [disk EXCEPT ![id] = torn[1]] /\ files' = torn[2]
    /\ \/ ServerDown /\ UNCHANGED resp
       \/ Close(p) /\ Respond(p, [code |-> GENERAL_FAIL_CODE]) /\ UNCHANGED up
    /\ UNCHANGED <<clients, local, pc, clientVars>>

\* select(timeout=None) with no client left.
Idle == /\ \A p \in Proc : pc[p] \in Over /\ ~Connected(p)
        /\ up /\ UNCHANGED vars
-----------------------------------------------------------------------------
ClientStep(p) ==
    \/ ReceiveLogin(p) \/ OpenFile(p) \/ SendPacket(p)
    \/ ReceiveCrc(p) \/ ReceiveAck(p) \/ LoseConnection(p)

ServerStep(p) ==
    \/ HandleLogin(p) \/ HandlePacket(p) \/ HandleLastPacket(p) \/ FailLastPacket(p)
    \/ HandleCrc(p) \/ FailRequest(p) \/ Disconnect(p)

Next ==
    \/ \E p \in Proc : \/ Start(p) \/ ClientStep(p) \/ Crash(p)
                       \/ ServerStep(p) \/ TearSendFile(p)
    \/ \E id \in ID : Edit(id)
    \/ ServerCrash \/ ServerRestart \/ Idle

Spec == Init /\ [][Next]_vars

\* The operating system runs every process, select() reports every connection
\* with something to read, and a server that went down is started again.
Fairness == /\ \A p \in Proc : WF_vars(ClientStep(p)) /\ WF_vars(ServerStep(p))
            /\ WF_vars(ServerRestart)

FairSpec == Spec /\ Fairness
-----------------------------------------------------------------------------
(* Properties. *)

\* A row marked verified describes the file on disk: it is, whole and
\* decrypted, the content some client process computed its checksum from
\* (handle_crc_codes, and the column "verified" of table "files").
VerifiedMeansStored ==
    \A id \in ID :
        files[id] = TRUE
          => \E p \in Proc : IdOf[p] = id /\ pc[p] # "off" /\ disk[id] = Plain(sum[p])

\* A process that reported success to its user left a verified row, and the
\* file it computed its checksum from, as long as no sibling has logged in
\* since (handle_crc_codes).
SuccessIsRecorded ==
    \A p \in Proc :
        /\ pc[p] = "success"
        /\ get_aes_key(clients, IdOf[p]) = aes[p]
        => files[IdOf[p]] = TRUE /\ disk[IdOf[p]] = Plain(sum[p])

\* A process that gave up (INVALID_CRC_FINAL_REQUEST_CODE) left a row that is
\* not verified: the verdict of an earlier execution never stands for the file
\* of a later one.
GivingUpIsRecorded ==
    \A p \in Proc :
        /\ pc[p] = "gaveUp"
        /\ get_aes_key(clients, IdOf[p]) = aes[p]
        => files[IdOf[p]] = FALSE

\* Once a sibling has logged in, and so replaced the AES key, no upload under
\* the old key is confirmed any more, however the packets of the two mix in
\* the file: handle_send_file_request decrypts with the key in the table.
DisplacedUploadNeverMatches ==
    [][\A p \in Proc :
         resp' = [resp EXCEPT ![p] = Append(@, [code |-> RECEIVED_FILE_SUCCESS_CODE,
                                                checksum |-> Plain(sum[p])])]
           => get_aes_key(clients, IdOf[p]) = aes[p]]_vars

\* Every process that connects comes to an end, whatever fails meanwhile.
EveryUploadEnds ==
    \A p \in Proc : pc[p] = "awaitLogin" ~> pc[p] \in Over

\* A process that nothing disturbs once its login arrives succeeds, whatever
\* earlier ones left behind on the server.
Undisturbed(p) ==
    /\ pc[p] = "awaitLogin" /\ req[p] # <<>> /\ up /\ conn[p] = "open"
    /\ faults = MaxFaults
    /\ local[IdOf[p]] = Len(Size)
    /\ \A q \in Siblings(p) : pc[q] \in Over /\ ~Connected(q)

UndisturbedUploadSucceeds ==
    \A p \in Proc : Undisturbed(p)
      ~> /\ pc[p] = "success" /\ files[IdOf[p]] = TRUE
         /\ disk[IdOf[p]] = Plain(Len(Size))
=============================================================================
