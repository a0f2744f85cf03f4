---------------------------- MODULE KeyExchange -----------------------------
(***************************************************************************)
(* Login, registration and key exchange between client processes and the   *)
(* server, up to the moment a client holds the AES key of its session.     *)
(*                                                                         *)
(* A member of Proc is one execution of Client/main.cpp: it starts in its  *)
(* working directory DirOf[c], connects once and ends.  What survives it   *)
(* is me.info in that directory and the server's database.  The server is  *)
(* one thread that runs a request handler to its end (Server/server.py),   *)
(* so a handler is one action; a crash of the server between two commits   *)
(* of a handler is an action of its own.                                   *)
(*                                                                         *)
(* An RSA key pair is named by the process that generates it: a process    *)
(* calls generate_keys at most once.                                       *)
(***************************************************************************)
EXTENDS Naturals, Sequences, Protocol, Database

CONSTANTS Proc,          \* client processes
          Dir,           \* working directories of clients
          DirOf,         \* the directory each process runs in
          ID,            \* client ids; uuid4 draws from ID \ {DEFAULT_ID}
          DEFAULT_ID,    \* the id a client without me.info sends
          NUM_OF_TRIALS, \* attempts at login and at registration (4)
          MayOverlap,    \* may two processes of a directory be alive at once?
          MaxFaults      \* bound: crashes and short reads in a behaviour

ASSUME ConstantsOK ==
    /\ DirOf \in [Proc -> Dir]
    /\ DEFAULT_ID \in ID
    /\ NUM_OF_TRIALS \in Nat \ {0}
    /\ MayOverlap \in BOOLEAN
    /\ MaxFaults \in Nat
    /\ NULL \notin Proc /\ NULL \notin ID /\ NULL \notin ClientRow(Proc)

VARIABLES
    up,       \* is the server process running?
    clients,  \* table "clients": persistent
    meInfo,   \* me.info of each directory: persistent
    conn,     \* the server's side of each connection
    req,      \* the request in flight from each client, NULL when none
    resp,     \* the responses in flight to each client, in order
    pc,       \* where each process stands in Client::start
    trial,    \* the loop variable of the login and registration loops
    cid,      \* client_id of each process
    rsa,      \* private_rsa_key of each process, NULL for the empty string
    aes,      \* aes_key of each process
    faults    \* faults so far; bounds the model, the program has no such state

vars == <<up, clients, meInfo, conn, req, resp, pc, trial, cid, rsa, aes, faults>>

clientVars == <<trial, cid, rsa, aes>>
-----------------------------------------------------------------------------
Over == {"done", "failed", "dead"}
Awaiting == {"awaitLogin", "awaitRegister", "awaitKey"}
Running == {"load", "login", "register", "writeInfo", "putKey", "sendKey",
            "ready"} \cup Awaiting
PC == {"off"} \cup Running \cup Over

\* "garbled": open, and its stream starts with bytes left from a payload that
\* was read short, where the server expects a request header.
ConnState == {"none", "open", "garbled", "closed"}
Connected(c) == conn[c] \in {"open", "garbled"}

\* me.info: id is NULL while the file is missing or has fewer than two lines.
MeInfo == [id : ID \cup {NULL}, keys : Seq(Proc)]
EmptyInfo == [id |-> NULL, keys |-> <<>>]

Request == [code : {REGISTER_REQUEST_CODE, SEND_KEY_REQUEST_CODE, LOGIN_REQUEST_CODE},
            id : ID, key : Proc \cup {NULL}]

\* key and aes stand for the AES key `aes' encrypted with the public key `key'.
Response ==
    [code : {REGISTER_FAILED_CODE, RECEIVED_KEY_SUCCESS_CODE, LOGIN_SUCCESS_CODE,
             LOGIN_FAIL_CODE, GENERAL_FAIL_CODE},
     id : ID \cup {NULL}, key : Proc \cup {NULL}, aes : Nat]
    \cup [code : {REGISTER_SUCCESS_CODE}, id : ID, key : {NULL}, aes : {NoAesKey}]

\* A response whose payload is empty.
Bare(code) == [code |-> code, id |-> NULL, key |-> NULL, aes |-> NoAesKey]

\* load_encrypted_key_and_id: the client id and the key under `public_key'.
Encrypted(code, id, public_key, aes_key) ==
    [code |-> code, id |-> id, key |-> public_key, aes |-> aes_key]

TypeOK ==
    /\ up \in BOOLEAN
    /\ clients \in [ID -> ClientRow(Proc) \cup {NULL}]
    /\ meInfo \in [Dir -> MeInfo]
    /\ conn \in [Proc -> ConnState]
    /\ req \in [Proc -> Request \cup {NULL}]
    /\ resp \in [Proc -> Seq(Response)]
    /\ pc \in [Proc -> PC]
    /\ trial \in [Proc -> 1..NUM_OF_TRIALS]
    /\ cid \in [Proc -> ID]
    /\ rsa \in [Proc -> Proc \cup {NULL}]
    /\ aes \in [Proc -> Nat]
    /\ faults \in 0..MaxFaults

\* A first start: no database, no me.info.
Init ==
    /\ up = TRUE
    /\ clients = [id \in ID |-> NULL]
    /\ meInfo = [d \in Dir |-> EmptyInfo]
    /\ conn = [c \in Proc |-> "none"]
    /\ req = [c \in Proc |-> NULL]
    /\ resp = [c \in Proc |-> <<>>]
    /\ pc = [c \in Proc |-> "off"]
    /\ trial = [c \in Proc |-> 1]
    /\ cid = [c \in Proc |-> DEFAULT_ID]
    /\ rsa = [c \in Proc |-> NULL]
    /\ aes = [c \in Proc |-> NoAesKey]
    /\ faults = 0

Goto(c, where) == pc' = [pc EXCEPT ![c] = where]
Fault == faults < MaxFaults /\ faults' = faults + 1
-----------------------------------------------------------------------------
(* The client process. *)

\* Client::Client and RequestsHandler::RequestsHandler: connect throws, and
\* main ends, when no server listens.
Start(c) ==
    /\ pc[c] = "off"
    /\ MayOverlap \/ \A d \in Proc : DirOf[d] = DirOf[c] => pc[d] \notin Running
    /\ \/ up /\ conn' = [conn EXCEPT ![c] = "open"] /\ Goto(c, "load")
       \/ ~up /\ Goto(c, "failed") /\ UNCHANGED conn
    /\ UNCHANGED <<up, clients, meInfo, req, resp, clientVars, faults>>

\* load_stored_credentials, then the test of `registered' in attempt_login.
\* Nothing initialises `registered': without a usable me.info it is whatever
\* the memory held.  The rest of the file after two lines is decoded as one
\* key, which reads the first when there are several.
LoadStoredCredentials(c) ==
    LET info == meInfo[DirOf[c]] IN
    /\ pc[c] = "load"
    /\ IF info.id # NULL
       THEN /\ cid' = [cid EXCEPT ![c] = info.id]
            /\ rsa' = [rsa EXCEPT ![c] = IF info.keys = <<>> THEN NULL
                                                             ELSE Head(info.keys)]
            /\ Goto(c, "login")
       ELSE /\ \E registered \in BOOLEAN :
                  Goto(c, IF registered THEN "login" ELSE "register")
            /\ UNCHANGED <<cid, rsa>>
    /\ UNCHANGED <<up, clients, meInfo, conn, req, resp, trial, aes, faults>>

\* boost::asio::write: a request written on a closed connection is never read.
Send(c, code, key) ==
    req' = IF Connected(c)
           THEN [req EXCEPT ![c] = [code |-> code, id |-> cid[c], key |-> key]]
           ELSE req

SendLogin(c) ==
    /\ pc[c] = "login"
    /\ Send(c, LOGIN_REQUEST_CODE, NULL)
    /\ Goto(c, "awaitLogin")
    /\ UNCHANGED <<up, clients, meInfo, conn, resp, clientVars, faults>>

SendRegister(c) ==
    /\ pc[c] = "register"
    /\ Send(c, REGISTER_REQUEST_CODE, NULL)
    /\ Goto(c, "awaitRegister")
    /\ UNCHANGED <<up, clients, meInfo, conn, resp, clientVars, faults>>

SendPublicKey(c) ==
    /\ pc[c] = "sendKey"
    /\ Send(c, SEND_KEY_REQUEST_CODE, rsa[c])
    /\ Goto(c, "awaitKey")
    /\ UNCHANGED <<up, clients, meInfo, conn, resp, clientVars, faults>>

Receive(c) == /\ resp[c] # <<>>
              /\ resp' = [resp EXCEPT ![c] = Tail(@)]

\* RSAPrivateWrapper::decrypt throws unless the key pair is the right one.
Decrypts(c, m) == m.key # NULL /\ m.key = rsa[c]

\* The loops `for (i = 0; i < NUM_OF_TRIALS; i++)'.
MutMoreTrials(c) == trial[c] <= NUM_OF_TRIALS  \* mutant: i <= NUM_OF_TRIALS
MoreTrials(c) == trial[c] < NUM_OF_TRIALS
MutNextTrial(c) == trial[c]                    \* mutant: no i++
NextTrial(c) == trial[c] + 1

\* One turn of the loop in login_and_get_aes.  A failed decryption is not
\* caught before main.  Out of trials, Client::start goes on to register.
ReceiveLoginResponse(c) ==
    LET m == Head(resp[c]) IN
    /\ pc[c] = "awaitLogin"
    /\ Receive(c)
    /\ \/ /\ m.code = LOGIN_SUCCESS_CODE /\ Decrypts(c, m)
          /\ aes' = [aes EXCEPT ![c] = m.aes]
          /\ Goto(c, "ready")
          /\ UNCHANGED trial
       \/ /\ m.code = LOGIN_SUCCESS_CODE /\ ~Decrypts(c, m)
          /\ Goto(c, "failed")
          /\ UNCHANGED <<aes, trial>>
       \/ /\ m.code # LOGIN_SUCCESS_CODE /\ MoreTrials(c)
          /\ trial' = [trial EXCEPT ![c] = NextTrial(c)]
          /\ Goto(c, "login")
          /\ UNCHANGED aes
       \/ /\ m.code # LOGIN_SUCCESS_CODE /\ ~MoreTrials(c)
          /\ trial' = [trial EXCEPT ![c] = 1]
          /\ Goto(c, "register")
          /\ UNCHANGED aes
    /\ UNCHANGED <<up, clients, meInfo, conn, req, cid, rsa, faults>>

\* Opening me.info for writing truncates it.
MutTruncated(info) == info                     \* mutant: opened in place
Truncated(info) == EmptyInfo

\* One turn of the loop in register_and_get_id.  On success write_me_info
\* opens me.info, which truncates it; WriteMeInfo is what it writes next.
ReceiveRegisterResponse(c) ==
    LET m == Head(resp[c]) IN
    /\ pc[c] = "awaitRegister"
    /\ Receive(c)
    /\ \/ /\ m.code = REGISTER_SUCCESS_CODE
          /\ cid' = [cid EXCEPT ![c] = m.id]
          /\ meInfo' = [meInfo EXCEPT ![DirOf[c]] = Truncated(@)]
          /\ Goto(c, "writeInfo")
          /\ UNCHANGED trial
       \/ /\ m.code # REGISTER_SUCCESS_CODE /\ MoreTrials(c)
          /\ trial' = [trial EXCEPT ![c] = NextTrial(c)]
          /\ Goto(c, "register")
          /\ UNCHANGED <<cid, meInfo>>
       \/ /\ m.code # REGISTER_SUCCESS_CODE /\ ~MoreTrials(c)
          /\ Goto(c, "failed")
          /\ UNCHANGED <<cid, meInfo, trial>>
    /\ UNCHANGED <<up, clients, conn, req, rsa, aes, faults>>

\* The two lines of write_me_info, written over what the file holds by then.
WriteMeInfo(c) ==
    /\ pc[c] = "writeInfo"
    /\ meInfo' = [meInfo EXCEPT ![DirOf[c]].id = cid[c]]
    /\ Goto(c, "putKey")
    /\ UNCHANGED <<up, clients, conn, req, resp, clientVars, faults>>

\* generate_keys and put_key_in_files (which appends to me.info); priv.key is
\* written too and never read.
PutKeyInFiles(c) ==
    /\ pc[c] = "putKey"
    /\ rsa' = [rsa EXCEPT ![c] = c]
    /\ meInfo' = [meInfo EXCEPT ![DirOf[c]].keys = Append(@, c)]
    /\ Goto(c, "sendKey")
    /\ UNCHANGED <<up, clients, conn, req, resp, trial, cid, aes, faults>>

\* get_encrypted_aes
ReceiveAesKey(c) ==
    LET m == Head(resp[c]) IN
    /\ pc[c] = "awaitKey"
    /\ Receive(c)
    /\ IF m.code = RECEIVED_KEY_SUCCESS_CODE /\ Decrypts(c, m)
       THEN aes' = [aes EXCEPT ![c] = m.aes] /\ Goto(c, "ready")
       ELSE Goto(c, "failed") /\ UNCHANGED aes
    /\ UNCHANGED <<up, clients, meInfo, conn, req, trial, cid, rsa, faults>>

\* A read or a write on a connection the server closed: end of file or a reset,
\* which may take unread responses with it; the exception ends the process.
LoseConnection(c) ==
    /\ pc[c] \in Awaiting \cup {"login", "register", "sendKey"}
    /\ conn[c] = "closed"
    /\ Goto(c, "failed")
    /\ UNCHANGED <<up, clients, meInfo, conn, req, resp, clientVars, faults>>

\* handle_send_file and close_connection, in this module the end of the story.
Finish(c) ==
    /\ pc[c] = "ready"
    /\ Goto(c, "done")
    /\ UNCHANGED <<up, clients, meInfo, conn, req, resp, clientVars, faults>>

\* The process is killed, or an open or a write of one of its files fails.
Crash(c) ==
    /\ pc[c] \in Running
    /\ Goto(c, "dead")
    /\ Fault
    /\ UNCHANGED <<up, clients, meInfo, conn, req, resp, clientVars>>
-----------------------------------------------------------------------------
(* The server. *)

Requested(c, code) == /\ up /\ conn[c] = "open"
                      /\ req[c] # NULL /\ req[c].code = code

\* The server reads the request of c.
Serve(c, code) == /\ Requested(c, code)
                  /\ req' = [req EXCEPT ![c] = NULL]

\* A client name that has not all arrived is accepted as it is (get_data), and
\* its rest stays in the stream.
ReadName(c) ==
    \/ UNCHANGED <<conn, faults>>
    \/ conn' = [conn EXCEPT ![c] = "garbled"] /\ Fault

Respond(c, m) == resp' = [resp EXCEPT ![c] = Append(@, m)]

\* The test of handle_register_request, and the one of handle_login_request.
MutIsRegistered(id) == clients[id] # NULL      \* mutant: an id is enough
IsRegistered(id) == get_aes_key(clients, id) # NoAesKey
CanLogin(id) == get_public_key(clients, id) # NULL

\* uuid4 gives an id no row has.
FreshId(id) == id # DEFAULT_ID /\ clients[id] = NULL

HandleRegister(c) ==
    /\ Serve(c, REGISTER_REQUEST_CODE)
    /\ ReadName(c)
    /\ \/ /\ IsRegistered(req[c].id)
          /\ Respond(c, Bare(REGISTER_FAILED_CODE))
          /\ UNCHANGED clients
       \/ /\ ~IsRegistered(req[c].id)
          /\ \E id \in ID :
               /\ FreshId(id)
               /\ clients' = insert_into_clients(clients, id)
               /\ Respond(c, [Bare(REGISTER_SUCCESS_CODE) EXCEPT !.id = id])
    /\ UNCHANGED <<up, meInfo, pc, clientVars>>

\* generate_aes_key: 32 random bytes, never the same twice.
NewAesKey(id) == get_aes_key(clients, id) + 1

HandleLogin(c) ==
    LET id == req[c].id IN
    /\ Serve(c, LOGIN_REQUEST_CODE)
    /\ ReadName(c)
    /\ \/ /\ ~CanLogin(id)
          /\ Respond(c, Bare(LOGIN_FAIL_CODE))
          /\ UNCHANGED clients
       \/ /\ CanLogin(id)
          /\ clients' = update_aes_key(clients, id, NewAesKey(id))
          /\ Respond(c, Encrypted(LOGIN_SUCCESS_CODE, id,
                                  get_public_key(clients, id), NewAesKey(id)))
    /\ UNCHANGED <<up, meInfo, pc, clientVars>>

\* The table after each commit of the handler: the public key, then the AES key.
MutSendKeyCommits(id, key) ==                  \* mutant: the other order
    LET first == update_aes_key(clients, id, NewAesKey(id)) IN
    <<first, update_public_key(first, id, key)>>
SendKeyCommits(id, key) ==
    LET first == update_public_key(clients, id, key) IN
    <<first, update_aes_key(first, id, NewAesKey(id))>>

HandleSendKey(c) ==
    LET id == req[c].id  key == req[c].key IN
    /\ Serve(c, SEND_KEY_REQUEST_CODE)
    /\ clients' = SendKeyCommits(id, key)[2]
    /\ Respond(c, Encrypted(RECEIVED_KEY_SUCCESS_CODE, id, key, NewAesKey(id)))
    /\ UNCHANGED <<up, meInfo, conn, pc, clientVars, faults>>

Close(c) == /\ conn' = [conn EXCEPT ![c] = "closed"]
            /\ req' = [req EXCEPT ![c] = NULL]

\* The handler raises before it changes anything and the connection is closed:
\* after GENERAL_FAIL_CODE when a payload is late or short or the code is
\* unknown, without a word when the header is short.
FailRequest(c) ==
    /\ up
    /\ \/ conn[c] = "garbled" /\ UNCHANGED faults
       \/ conn[c] = "open" /\ req[c] # NULL /\ Fault
    /\ Respond(c, Bare(GENERAL_FAIL_CODE)) \/ UNCHANGED resp
    /\ Close(c)
    /\ UNCHANGED <<up, clients, meInfo, pc, clientVars>>

\* The peer is gone: recv returns nothing or fails, and a request that was
\* still in the stream may be lost with it.
Disconnect(c) ==
    /\ up /\ Connected(c)
    /\ pc[c] \in Over
    /\ Close(c)
    /\ UNCHANGED <<up, clients, meInfo, resp, pc, clientVars, faults>>

ServerDown ==
    /\ up' = FALSE
    /\ conn' = [c \in Proc |-> IF Connected(c) THEN "closed" ELSE conn[c]]
    /\ req' = [c \in Proc |-> NULL]

ServerCrash ==
    /\ up /\ ServerDown /\ Fault
    /\ UNCHANGED <<clients, meInfo, resp, pc, clientVars>>

\* handle_send_key_request dies between its two commits.
CrashInSendKey(c) ==
    /\ Requested(c, SEND_KEY_REQUEST_CODE) /\ ServerDown /\ Fault
    /\ clients' = SendKeyCommits(req[c].id, req[c].key)[1]
    /\ UNCHANGED <<meInfo, resp, pc, clientVars>>

ServerRestart ==
    /\ ~up /\ up' = TRUE
    /\ UNCHANGED <<clients, meInfo, conn, req, resp, pc, clientVars, faults>>

\* select(timeout=None) with no client left.
Idle == /\ \A c \in Proc : pc[c] \in Over /\ ~Connected(c)
        /\ up /\ UNCHANGED vars
-----------------------------------------------------------------------------
ClientStep(c) ==
    \/ LoadStoredCredentials(c)
    \/ SendLogin(c) \/ ReceiveLoginResponse(c)
    \/ SendRegister(c) \/ ReceiveRegisterResponse(c)
    \/ WriteMeInfo(c) \/ PutKeyInFiles(c)
    \/ SendPublicKey(c) \/ ReceiveAesKey(c)
    \/ LoseConnection(c) \/ Finish(c)

ServerStep(c) ==
    \/ HandleRegister(c) \/ HandleLogin(c) \/ HandleSendKey(c)
    \/ FailRequest(c) \/ Disconnect(c)

Next ==
    \/ \E c \in Proc : \/ Start(c) \/ ClientStep(c) \/ Crash(c)
                       \/ ServerStep(c) \/ CrashInSendKey(c)
    \/ ServerCrash \/ ServerRestart \/ Idle

Spec == Init /\ [][Next]_vars

\* The operating system runs every process, select() reports every connection
\* with something to read, and a server that went down is started again.
Fairness == /\ \A c \in Proc : WF_vars(ClientStep(c)) /\ WF_vars(ServerStep(c))
            /\ WF_vars(ServerRestart)

FairSpec == Spec /\ Fairness
-----------------------------------------------------------------------------
(* Properties. *)

\* An AES key is stored only for a client whose public key is stored, so that
\* login (which looks for the public key) and registration (which looks for
\* the AES key) never both turn a client away: handle_send_key_request.
AesNeedsPublicKey ==
    \A id \in ID : get_aes_key(clients, id) # NoAesKey
                     => get_public_key(clients, id) # NULL

\* Whatever was killed, and whenever, the private key a directory would load
\* is the one for the public key the server keeps for that directory's id:
\* attempt_register writes me.info before it sends the public key.
StoredKeyOpensLogin ==
    \A d \in Dir :
        LET info == meInfo[d] IN
        /\ info.id # NULL
        /\ get_public_key(clients, info.id) # NULL
        => /\ info.keys # <<>>
           /\ Head(info.keys) = get_public_key(clients, info.id)

\* A process the server accepts at login can decrypt the AES key it is sent,
\* as the comment of Client::attempt_login has it.
LoginYieldsKey ==
    \A c \in Proc :
        /\ pc[c] = "awaitLogin"
        /\ resp[c] # <<>> /\ Head(resp[c]).code = LOGIN_SUCCESS_CODE
        => Decrypts(c, Head(resp[c]))

\* A process refused registration was refused over an id its directory still
\* stores and can log in with: the refusal never locks the directory out.
RefusalIsRecoverable ==
    \A c \in Proc :
        /\ pc[c] = "awaitRegister"
        /\ resp[c] # <<>> /\ Head(resp[c]).code = REGISTER_FAILED_CODE
        => /\ meInfo[DirOf[c]].id = cid[c]
           /\ CanLogin(cid[c])

\* The AES key of a session and the one the server keeps for its client differ
\* only if another process of the same directory connected as well: clients of
\* other directories never disturb a session.
OnlySiblingDisplacesKey ==
    \A c \in Proc :
        pc[c] = "ready" /\ aes[c] # get_aes_key(clients, cid[c])
        => \E d \in Proc \ {c} : DirOf[d] = DirOf[c] /\ conn[d] # "none"

\* Every process that connects obtains a key or ends: no request is left
\* unanswered on a connection that stays open.
EveryRunEnds ==
    \A c \in Proc : pc[c] = "load" ~> pc[c] \in {"ready"} \cup Over

\* After any crashes, the next process of a directory that nothing disturbs
\* obtains a key: no interrupted registration makes a directory unusable.
Undisturbed(c) ==
    /\ pc[c] = "load" /\ up /\ conn[c] = "open"
    /\ faults = MaxFaults
    /\ \A d \in Proc \ {c} : DirOf[d] = DirOf[c]
                               => pc[d] \in Over \cup {"off"} /\ ~Connected(d)

UndisturbedRunGetsKey ==
    \A c \in Proc : Undisturbed(c) ~> pc[c] = "ready"
=============================================================================
