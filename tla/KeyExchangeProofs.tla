------------------------- MODULE KeyExchangeProofs --------------------------
(***************************************************************************)
(* Theorems about KeyExchange, for any processes, directories and ids, any *)
(* number of faults, and processes of a directory that may overlap.        *)
(*                                                                         *)
(* Four inductive invariants: TypeOK; AesInv, the order of the server's    *)
(* commits; SessionInv, that a connection carries one request or one       *)
(* response at a time and that an id never leaves the directory it was     *)
(* drawn for, from which follows who can change the key of a session;      *)
(* KeyInv, in the second half of the module, for processes of a directory  *)
(* that run one at a time.                                                 *)
(***************************************************************************)
EXTENDS KeyExchange, TLAPS

\* What the operators of Database do to the type of the table "clients".
LEMMA ClientsType ==
    ASSUME NEW t \in [ID -> ClientRow(Proc) \cup {NULL}], NEW id \in ID
    PROVE  /\ insert_into_clients(t, id) \in [ID -> ClientRow(Proc) \cup {NULL}]
           /\ \A key \in Proc \cup {NULL} :
                update_public_key(t, id, key) \in [ID -> ClientRow(Proc) \cup {NULL}]
           /\ \A key \in Nat :
                update_aes_key(t, id, key) \in [ID -> ClientRow(Proc) \cup {NULL}]
           /\ get_public_key(t, id) \in Proc \cup {NULL}
           /\ get_aes_key(t, id) \in Nat
  <1>1. insert_into_clients(t, id) \in [ID -> ClientRow(Proc) \cup {NULL}]
    BY DEF insert_into_clients, ClientRow, NoAesKey
  <1>2. ASSUME NEW key \in Proc \cup {NULL}
        PROVE  update_public_key(t, id, key) \in [ID -> ClientRow(Proc) \cup {NULL}]
    BY DEF update_public_key, ClientRow
  <1>3. ASSUME NEW key \in Nat
        PROVE  update_aes_key(t, id, key) \in [ID -> ClientRow(Proc) \cup {NULL}]
    BY DEF update_aes_key, ClientRow
  <1>4. get_public_key(t, id) \in Proc \cup {NULL}
    BY DEF get_public_key, ClientRow
  <1>5. get_aes_key(t, id) \in Nat
    BY DEF get_aes_key, ClientRow, NoAesKey
  <1>6. QED  BY <1>1, <1>2, <1>3, <1>4, <1>5

LEMMA NewAesKeyType ==
    ASSUME TypeOK, NEW id \in ID
    PROVE  NewAesKey(id) \in Nat
  <1>1. get_aes_key(clients, id) \in Nat
    BY ClientsType DEF TypeOK
  <1>2. QED  BY <1>1 DEF NewAesKey

\* The parts of TypeOK a server handler leaves to check when it answers c.
LEMMA RespondType ==
    ASSUME TypeOK, NEW c \in Proc, NEW m \in Response, Respond(c, m)
    PROVE  resp' \in [Proc -> Seq(Response)]
  BY DEF TypeOK, Respond

LEMMA ServeType ==
    ASSUME TypeOK, NEW c \in Proc, NEW code, Serve(c, code)
    PROVE  /\ req' \in [Proc -> Request \cup {NULL}]
           /\ req[c] \in Request
           /\ req[c].code = code
  BY DEF TypeOK, Serve, Requested

LEMMA ReadNameType ==
    ASSUME TypeOK, NEW c \in Proc, ReadName(c)
    PROVE  conn' \in [Proc -> ConnState] /\ faults' \in 0..MaxFaults
  <1>1. conn' \in [Proc -> ConnState]
    BY DEF TypeOK, ReadName, ConnState
  <1>2. faults' = faults \/ (faults < MaxFaults /\ faults' = faults + 1)
    BY DEF ReadName, Fault
  <1>3. faults' \in 0..MaxFaults
    BY <1>2, ConstantsOK DEF TypeOK
  <1>4. QED  BY <1>1, <1>3

LEMMA ReceiveType ==
    ASSUME TypeOK, NEW c \in Proc, Receive(c)
    PROVE  /\ resp' \in [Proc -> Seq(Response)]
           /\ Head(resp[c]) \in Response
           /\ Head(resp[c]).aes \in Nat
           /\ Head(resp[c]).code = REGISTER_SUCCESS_CODE => Head(resp[c]).id \in ID
  <1>1. resp[c] \in Seq(Response) /\ resp[c] # <<>>
    BY DEF TypeOK, Receive
  <1>2. Head(resp[c]) \in Response /\ Tail(resp[c]) \in Seq(Response)
    BY <1>1
  <1>3. resp' \in [Proc -> Seq(Response)]
    BY <1>2 DEF TypeOK, Receive
  <1>4. QED
    BY <1>2, <1>3 DEF Response, NoAesKey, REGISTER_SUCCESS_CODE, REGISTER_FAILED_CODE,
       RECEIVED_KEY_SUCCESS_CODE, LOGIN_SUCCESS_CODE, LOGIN_FAIL_CODE, GENERAL_FAIL_CODE

LEMMA CloseType ==
    ASSUME TypeOK, NEW c \in Proc, Close(c)
    PROVE  conn' \in [Proc -> ConnState] /\ req' \in [Proc -> Request \cup {NULL}]
  BY DEF TypeOK, Close, ConnState

LEMMA ServerDownType ==
    ASSUME TypeOK, ServerDown
    PROVE  /\ up' \in BOOLEAN
           /\ conn' \in [Proc -> ConnState] /\ req' \in [Proc -> Request \cup {NULL}]
  BY DEF TypeOK, ServerDown, ConnState

\* Both commits of handle_send_key_request leave a table of clients.
LEMMA SendKeyCommitsType ==
    ASSUME TypeOK, NEW id \in ID, NEW key \in Proc \cup {NULL}
    PROVE  /\ SendKeyCommits(id, key)[1] \in [ID -> ClientRow(Proc) \cup {NULL}]
           /\ SendKeyCommits(id, key)[2] \in [ID -> ClientRow(Proc) \cup {NULL}]
  <1> DEFINE first == update_public_key(clients, id, key)
  <1>1. first \in [ID -> ClientRow(Proc) \cup {NULL}] /\ NewAesKey(id) \in Nat
    BY ClientsType, NewAesKeyType DEF TypeOK
  <1>2. update_aes_key(first, id, NewAesKey(id)) \in [ID -> ClientRow(Proc) \cup {NULL}]
    BY <1>1, ClientsType
  <1>3. QED  BY <1>1, <1>2 DEF SendKeyCommits

LEMMA GotoType ==
    ASSUME TypeOK, NEW c \in Proc, NEW where \in PC, Goto(c, where)
    PROVE  pc' \in [Proc -> PC]
  BY DEF TypeOK, Goto

LEMMA SendType ==
    ASSUME TypeOK, NEW c \in Proc, NEW key \in Proc \cup {NULL},
           NEW code \in {REGISTER_REQUEST_CODE, SEND_KEY_REQUEST_CODE, LOGIN_REQUEST_CODE},
           Send(c, code, key)
    PROVE  req' \in [Proc -> Request \cup {NULL}]
  <1> DEFINE m == [code |-> code, id |-> cid[c], key |-> key]
  <1>1. m \in Request
    BY DEF TypeOK, Request
  <1>2. req' = [req EXCEPT ![c] = m] \/ req' = req
    BY DEF Send
  <1>3. QED
    BY <1>1, <1>2 DEF TypeOK

\* The counter of a trial loop that goes on, or starts again, is in range.
LEMMA TrialType ==
    ASSUME TypeOK, NEW c \in Proc
    PROVE  /\ MoreTrials(c) => [trial EXCEPT ![c] = NextTrial(c)] \in [Proc -> 1..NUM_OF_TRIALS]
           /\ [trial EXCEPT ![c] = 1] \in [Proc -> 1..NUM_OF_TRIALS]
  BY ConstantsOK DEF TypeOK, MoreTrials, NextTrial

\* Every variable keeps its type under the step of a client process.
LEMMA ClientStepType ==
    ASSUME TypeOK, NEW c \in Proc, ClientStep(c)
    PROVE  TypeOK'
  <1> USE DEF PC, Running, Awaiting, Over
  <1>1. CASE LoadStoredCredentials(c)
    <2>1. meInfo[DirOf[c]] \in MeInfo
      BY ConstantsOK DEF TypeOK
    <2>2. CASE meInfo[DirOf[c]].id # NULL
      <3>1. meInfo[DirOf[c]].id \in ID
        BY <2>1, <2>2 DEF MeInfo
      <3>2. (IF meInfo[DirOf[c]].keys = <<>> THEN NULL ELSE Head(meInfo[DirOf[c]].keys))
              \in Proc \cup {NULL}
        BY <2>1 DEF MeInfo
      <3>3. Goto(c, "login") /\ cid' \in [Proc -> ID] /\ rsa' \in [Proc -> Proc \cup {NULL}]
        BY <1>1, <2>2, <3>1, <3>2 DEF LoadStoredCredentials, TypeOK
      <3>4. QED
        BY <1>1, <3>3, GotoType DEF LoadStoredCredentials, TypeOK
    <2>3. CASE meInfo[DirOf[c]].id = NULL
      BY <1>1, <2>3 DEF LoadStoredCredentials, TypeOK, Goto
    <2>4. QED  BY <2>2, <2>3
  <1>2. CASE SendLogin(c)
    BY <1>2, SendType, GotoType DEF SendLogin, clientVars, TypeOK
  <1>3. CASE ReceiveLoginResponse(c)
    <2>1. resp' \in [Proc -> Seq(Response)] /\ Head(resp[c]).aes \in Nat
      BY <1>3, ReceiveType DEF ReceiveLoginResponse
    <2>2. pc' \in [Proc -> PC]
      BY <1>3 DEF ReceiveLoginResponse, TypeOK, Goto
    <2>3. aes' \in [Proc -> Nat]
      BY <1>3, <2>1 DEF ReceiveLoginResponse, TypeOK
    <2>4. trial' \in [Proc -> 1..NUM_OF_TRIALS]
      BY <1>3, TrialType DEF ReceiveLoginResponse, TypeOK
    <2>5. QED  BY <1>3, <2>1, <2>2, <2>3, <2>4 DEF ReceiveLoginResponse, TypeOK
  <1>4. CASE SendRegister(c)
    BY <1>4, SendType, GotoType DEF SendRegister, clientVars, TypeOK
  <1>5. CASE ReceiveRegisterResponse(c)
    <2>1. EmptyInfo \in MeInfo
      BY DEF EmptyInfo, MeInfo
    <2>2. /\ resp' \in [Proc -> Seq(Response)]
          /\ Head(resp[c]).code = REGISTER_SUCCESS_CODE => Head(resp[c]).id \in ID
      BY <1>5, ReceiveType DEF ReceiveRegisterResponse
    <2>3. pc' \in [Proc -> PC]
      BY <1>5 DEF ReceiveRegisterResponse, TypeOK, Goto
    <2>4. cid' \in [Proc -> ID]
      BY <1>5, <2>2 DEF ReceiveRegisterResponse, TypeOK
    <2>5. meInfo' \in [Dir -> MeInfo]
      BY <1>5, <2>1 DEF ReceiveRegisterResponse, TypeOK, Truncated
    <2>6. trial' \in [Proc -> 1..NUM_OF_TRIALS]
      BY <1>5, TrialType DEF ReceiveRegisterResponse, TypeOK
    <2>7. QED  BY <1>5, <2>2, <2>3, <2>4, <2>5, <2>6 DEF ReceiveRegisterResponse, TypeOK
  <1>6. CASE WriteMeInfo(c)
    <2>1. DirOf[c] \in Dir /\ meInfo[DirOf[c]] \in MeInfo /\ cid[c] \in ID
      BY ConstantsOK DEF TypeOK
    <2>2. meInfo' \in [Dir -> MeInfo]
      BY <1>6, <2>1 DEF WriteMeInfo, TypeOK, MeInfo
    <2>3. QED  BY <1>6, <2>2 DEF WriteMeInfo, TypeOK, Goto, clientVars
  <1>7. CASE PutKeyInFiles(c)
    <2>1. DirOf[c] \in Dir /\ meInfo[DirOf[c]] \in MeInfo
      BY ConstantsOK DEF TypeOK
    <2>2. Append(meInfo[DirOf[c]].keys, c) \in Seq(Proc)
      BY <2>1 DEF MeInfo
    <2>3. meInfo' \in [Dir -> MeInfo]
      BY <1>7, <2>1, <2>2 DEF PutKeyInFiles, TypeOK, MeInfo
    <2>4. QED  BY <1>7, <2>3 DEF PutKeyInFiles, TypeOK, Goto
  <1>8. CASE SendPublicKey(c)
    <2>1. rsa[c] \in Proc \cup {NULL}
      BY DEF TypeOK
    <2>2. QED  BY <1>8, <2>1, SendType, GotoType DEF SendPublicKey, clientVars, TypeOK
  <1>9. CASE ReceiveAesKey(c)
    <2>1. resp' \in [Proc -> Seq(Response)] /\ aes' \in [Proc -> Nat] /\ pc' \in [Proc -> PC]
      BY <1>9, ReceiveType DEF ReceiveAesKey, TypeOK, Goto
    <2>2. QED  BY <1>9, <2>1 DEF ReceiveAesKey, TypeOK
  <1>10. CASE LoseConnection(c)
    BY <1>10, GotoType DEF LoseConnection, clientVars, TypeOK
  <1>11. CASE Finish(c)
    BY <1>11, GotoType DEF Finish, clientVars, TypeOK
  <1>12. QED
    BY <1>1, <1>2, <1>3, <1>4, <1>5, <1>6, <1>7, <1>8, <1>9, <1>10, <1>11 DEF ClientStep

\* Every variable keeps its type under the step of the server for a process.
LEMMA ServerStepType ==
    ASSUME TypeOK, NEW c \in Proc, ServerStep(c) \/ CrashInSendKey(c)
    PROVE  TypeOK'
  <1>1. CASE HandleRegister(c)
    <2>1. req' \in [Proc -> Request \cup {NULL}]
      BY <1>1, ServeType DEF HandleRegister
    <2>2. conn' \in [Proc -> ConnState] /\ faults' \in 0..MaxFaults
      BY <1>1, ReadNameType DEF HandleRegister
    <2>3. CASE /\ Respond(c, Bare(REGISTER_FAILED_CODE))
               /\ UNCHANGED clients
      <3>1. Bare(REGISTER_FAILED_CODE) \in Response
        BY DEF Bare, Response, NoAesKey
      <3>2. QED
        BY <1>1, <2>1, <2>2, <2>3, <3>1, RespondType DEF HandleRegister, TypeOK, clientVars
    <2>4. ASSUME NEW id \in ID,
                 clients' = insert_into_clients(clients, id),
                 Respond(c, [Bare(REGISTER_SUCCESS_CODE) EXCEPT !.id = id])
          PROVE  TypeOK'
      <3>1. [Bare(REGISTER_SUCCESS_CODE) EXCEPT !.id = id] \in Response
        BY DEF Bare, Response, NoAesKey
      <3>2. clients' \in [ID -> ClientRow(Proc) \cup {NULL}]
        BY <2>4, ClientsType DEF TypeOK
      <3>3. QED
        BY <1>1, <2>1, <2>2, <2>4, <3>1, <3>2, RespondType
           DEF HandleRegister, TypeOK, clientVars
    <2>5. QED  BY <1>1, <2>3, <2>4 DEF HandleRegister
  <1>2. CASE HandleLogin(c)
    <2>1. req' \in [Proc -> Request \cup {NULL}] /\ req[c].id \in ID
      BY <1>2, ServeType DEF HandleLogin, Request
    <2>2. conn' \in [Proc -> ConnState] /\ faults' \in 0..MaxFaults
      BY <1>2, ReadNameType DEF HandleLogin
    <2>3. CASE Respond(c, Bare(LOGIN_FAIL_CODE)) /\ UNCHANGED clients
      <3>1. Bare(LOGIN_FAIL_CODE) \in Response
        BY DEF Bare, Response, NoAesKey
      <3>2. QED
        BY <1>2, <2>1, <2>2, <2>3, <3>1, RespondType DEF HandleLogin, TypeOK, clientVars
    <2>4. CASE /\ clients' = update_aes_key(clients, req[c].id, NewAesKey(req[c].id))
               /\ Respond(c, Encrypted(LOGIN_SUCCESS_CODE, req[c].id,
                             get_public_key(clients, req[c].id), NewAesKey(req[c].id)))
      <3>1. /\ NewAesKey(req[c].id) \in Nat
            /\ get_public_key(clients, req[c].id) \in Proc \cup {NULL}
        BY <2>1, ClientsType, NewAesKeyType DEF TypeOK
      <3>2. clients' \in [ID -> ClientRow(Proc) \cup {NULL}]
        BY <2>1, <2>4, <3>1, ClientsType DEF TypeOK
      <3>3. Encrypted(LOGIN_SUCCESS_CODE, req[c].id, get_public_key(clients, req[c].id),
                      NewAesKey(req[c].id)) \in Response
        BY <2>1, <3>1 DEF Encrypted, Response
      <3>4. QED
        BY <1>2, <2>1, <2>2, <2>4, <3>2, <3>3, RespondType DEF HandleLogin, TypeOK, clientVars
    <2>5. QED  BY <1>2, <2>3, <2>4 DEF HandleLogin
  <1>3. CASE HandleSendKey(c)
    <2>1. /\ req' \in [Proc -> Request \cup {NULL}]
          /\ req[c].id \in ID /\ req[c].key \in Proc \cup {NULL}
      BY <1>3, ServeType DEF HandleSendKey, Request
    <2>2. NewAesKey(req[c].id) \in Nat
      BY <2>1, NewAesKeyType
    <2>3. clients' \in [ID -> ClientRow(Proc) \cup {NULL}]
      BY <1>3, <2>1, SendKeyCommitsType DEF HandleSendKey
    <2>4. Encrypted(RECEIVED_KEY_SUCCESS_CODE, req[c].id, req[c].key, NewAesKey(req[c].id))
            \in Response
      BY <2>1, <2>2 DEF Encrypted, Response
    <2>5. resp' \in [Proc -> Seq(Response)]
      BY <1>3, <2>4, RespondType DEF HandleSendKey
    <2>6. QED
      BY <1>3, <2>1, <2>3, <2>5 DEF HandleSendKey, TypeOK, clientVars
  <1>4. CASE FailRequest(c)
    <2>1. resp' \in [Proc -> Seq(Response)]
      <3>1. Bare(GENERAL_FAIL_CODE) \in Response
        BY DEF Bare, Response, NoAesKey
      <3>2. QED
        BY <1>4, <3>1, RespondType DEF FailRequest, TypeOK
    <2>2. faults' \in 0..MaxFaults
      BY <1>4, ConstantsOK DEF FailRequest, Fault, TypeOK
    <2>3. QED
      BY <1>4, <2>1, <2>2, CloseType DEF FailRequest, TypeOK, clientVars
  <1>5. CASE Disconnect(c)
    BY <1>5, CloseType DEF Disconnect, TypeOK, clientVars
  <1>6. CASE CrashInSendKey(c)
    <2>1. req[c].id \in ID /\ req[c].key \in Proc \cup {NULL}
      BY <1>6 DEF CrashInSendKey, Requested, TypeOK, Request
    <2>2. clients' \in [ID -> ClientRow(Proc) \cup {NULL}]
      BY <1>6, <2>1, SendKeyCommitsType DEF CrashInSendKey
    <2>3. faults' \in 0..MaxFaults
      BY <1>6, ConstantsOK DEF CrashInSendKey, Fault, TypeOK
    <2>4. QED
      BY <1>6, <2>2, <2>3, ServerDownType DEF CrashInSendKey, TypeOK, clientVars
  <1>7. QED
    BY <1>1, <1>2, <1>3, <1>4, <1>5, <1>6 DEF ServerStep

LEMMA InitType == Init => TypeOK
  BY ConstantsOK DEF Init, TypeOK, MeInfo, EmptyInfo, ConnState, PC, NoAesKey

LEMMA TypeStep ==
    ASSUME TypeOK, [Next]_vars
    PROVE  TypeOK'
  <1>1. ASSUME NEW c \in Proc, Start(c)  PROVE TypeOK'
    BY <1>1 DEF Start, TypeOK, Goto, clientVars, ConnState, PC, Running, Over
  <1>2. ASSUME NEW c \in Proc, Crash(c)  PROVE TypeOK'
    <2>1. "dead" \in PC
      BY DEF PC, Over
    <2>2. faults' \in 0..MaxFaults
      BY <1>2, ConstantsOK DEF Crash, Fault, TypeOK
    <2>3. QED  BY <1>2, <2>1, <2>2, GotoType DEF Crash, TypeOK, clientVars
  <1>3. CASE ServerCrash
    <2>1. faults' \in 0..MaxFaults
      BY <1>3, ConstantsOK DEF ServerCrash, Fault, TypeOK
    <2>2. QED  BY <1>3, <2>1, ServerDownType DEF ServerCrash, TypeOK, clientVars
  <1>4. CASE ServerRestart
    BY <1>4 DEF ServerRestart, TypeOK, clientVars
  <1>5. CASE UNCHANGED vars
    BY <1>5 DEF vars, TypeOK
  <1>6. QED
    BY <1>1, <1>2, <1>3, <1>4, <1>5, ClientStepType, ServerStepType DEF Next, Idle

\* TypeOK is an invariant: in particular the id a client stores is one the
\* server gave out, and no trial loop runs past NUM_OF_TRIALS.
THEOREM TypeCorrect == Spec => []TypeOK
  <1>1. TypeOK /\ [Next]_vars => TypeOK'
    BY TypeStep
  <1>2. QED  BY InitType, <1>1, PTL DEF Spec
-----------------------------------------------------------------------------
(* AesNeedsPublicKey is inductive once a SEND_KEY request is known to carry a *)
(* key: the handler commits the public key before the AES key, and the login *)
(* handler makes an AES key only where it found a public key.                *)

KeySent ==
    /\ \A c \in Proc : pc[c] = "sendKey" => rsa[c] # NULL
    /\ \A c \in Proc : req[c] # NULL /\ req[c].code = SEND_KEY_REQUEST_CODE
                         => req[c].key # NULL

AesInv == TypeOK /\ KeySent /\ AesNeedsPublicKey

\* What the statements of Database do to the two keys of every row.
LEMMA Insert ==
    ASSUME NEW t \in [ID -> ClientRow(Proc) \cup {NULL}], NEW id \in ID, NEW i \in ID,
           NULL \notin ClientRow(Proc)
    PROVE  LET u == insert_into_clients(t, id) IN
           /\ get_public_key(u, i) = IF i = id THEN NULL ELSE get_public_key(t, i)
           /\ get_aes_key(u, i) = IF i = id THEN NoAesKey ELSE get_aes_key(t, i)
  <1> DEFINE row == [public_key |-> NULL, aes_key |-> NoAesKey]
  <1>1. row \in ClientRow(Proc)
    BY DEF ClientRow, NoAesKey
  <1>2. row # NULL
    BY <1>1
  <1>3. insert_into_clients(t, id)[i] = IF i = id THEN row ELSE t[i]
    BY DEF insert_into_clients
  <1>4. QED
    BY <1>2, <1>3 DEF get_public_key, get_aes_key

LEMMA UpdatePublicKey ==
    ASSUME NEW t \in [ID -> ClientRow(Proc) \cup {NULL}], NEW id \in ID, NEW i \in ID,
           NEW key \in Proc \cup {NULL}, NULL \notin ClientRow(Proc)
    PROVE  LET u == update_public_key(t, id, key) IN
           /\ get_public_key(u, i) = IF i = id /\ t[id] # NULL THEN key
                                                             ELSE get_public_key(t, i)
           /\ get_aes_key(u, i) = get_aes_key(t, i)
           /\ (u[i] = NULL) = (t[i] = NULL)
  <1>1. CASE i = id /\ t[id] # NULL
    <2> DEFINE row == [t[id] EXCEPT !.public_key = key]
    <2>1. t[id] \in ClientRow(Proc)
      BY <1>1
    <2>2. row \in ClientRow(Proc) /\ row.public_key = key /\ row.aes_key = t[id].aes_key
      BY <2>1 DEF ClientRow
    <2>3. update_public_key(t, id, key)[i] = row
      BY <1>1 DEF update_public_key
    <2>4. QED
      BY <1>1, <2>2, <2>3 DEF get_public_key, get_aes_key
  <1>2. CASE ~(i = id /\ t[id] # NULL)
    <2>1. update_public_key(t, id, key)[i] = t[i]
      BY <1>2 DEF update_public_key
    <2>2. QED
      BY <1>2, <2>1 DEF get_public_key, get_aes_key
  <1>3. QED  BY <1>1, <1>2

LEMMA UpdateAesKey ==
    ASSUME NEW t \in [ID -> ClientRow(Proc) \cup {NULL}], NEW id \in ID, NEW i \in ID,
           NEW key \in Nat, NULL \notin ClientRow(Proc)
    PROVE  LET u == update_aes_key(t, id, key) IN
           /\ get_public_key(u, i) = get_public_key(t, i)
           /\ get_aes_key(u, i) = IF i = id /\ t[id] # NULL THEN key
                                                          ELSE get_aes_key(t, i)
           /\ (u[i] = NULL) = (t[i] = NULL)
  <1>1. CASE i = id /\ t[id] # NULL
    <2> DEFINE row == [t[id] EXCEPT !.aes_key = key]
    <2>1. t[id] \in ClientRow(Proc)
      BY <1>1
    <2>2. row \in ClientRow(Proc) /\ row.aes_key = key /\ row.public_key = t[id].public_key
      BY <2>1 DEF ClientRow
    <2>3. update_aes_key(t, id, key)[i] = row
      BY <1>1 DEF update_aes_key
    <2>4. QED
      BY <1>1, <2>2, <2>3 DEF get_public_key, get_aes_key
  <1>2. CASE ~(i = id /\ t[id] # NULL)
    <2>1. update_aes_key(t, id, key)[i] = t[i]
      BY <1>2 DEF update_aes_key
    <2>2. QED
      BY <1>2, <2>1 DEF get_public_key, get_aes_key
  <1>3. QED  BY <1>1, <1>2

\* The two commits of handle_send_key_request.
LEMMA SendKeyCommitsEffect ==
    ASSUME TypeOK, NEW id \in ID, NEW key \in Proc \cup {NULL}, NEW i \in ID
    PROVE  LET t == SendKeyCommits(id, key)  hit == i = id /\ clients[id] # NULL IN
           /\ get_public_key(t[1], i) = IF hit THEN key ELSE get_public_key(clients, i)
           /\ get_public_key(t[2], i) = IF hit THEN key ELSE get_public_key(clients, i)
           /\ get_aes_key(t[1], i) = get_aes_key(clients, i)
           /\ get_aes_key(t[2], i) = IF hit THEN NewAesKey(id) ELSE get_aes_key(clients, i)
           /\ (t[1][i] = NULL) = (clients[i] = NULL)
           /\ (t[2][i] = NULL) = (clients[i] = NULL)
  <1> DEFINE first == update_public_key(clients, id, key)
             second == update_aes_key(first, id, NewAesKey(id))
             hit == i = id /\ clients[id] # NULL
  <1>1. /\ clients \in [ID -> ClientRow(Proc) \cup {NULL}]
        /\ NULL \notin ClientRow(Proc)
        /\ NewAesKey(id) \in Nat
    BY ConstantsOK, NewAesKeyType DEF TypeOK
  <1>2. first \in [ID -> ClientRow(Proc) \cup {NULL}]
    BY <1>1, ClientsType
  <1>3. /\ get_public_key(first, i) = IF hit THEN key ELSE get_public_key(clients, i)
        /\ get_aes_key(first, i) = get_aes_key(clients, i)
        /\ \A j \in ID : (first[j] = NULL) = (clients[j] = NULL)
    BY <1>1, UpdatePublicKey
  <1> HIDE DEF first
  <1>4. /\ get_public_key(second, i) = get_public_key(first, i)
        /\ get_aes_key(second, i) = IF i = id /\ first[id] # NULL
                                    THEN NewAesKey(id) ELSE get_aes_key(first, i)
        /\ (second[i] = NULL) = (first[i] = NULL)
    BY <1>1, <1>2, UpdateAesKey
  <1>5. SendKeyCommits(id, key)[1] = first /\ SendKeyCommits(id, key)[2] = second
    BY DEF SendKeyCommits, first
  <1> HIDE DEF second
  <1>6. QED  BY <1>3, <1>4, <1>5

LEMMA KeySentStep ==
    ASSUME TypeOK, KeySent, [Next]_vars
    PROVE  KeySent'
  <1> DEFINE Codes == {REGISTER_REQUEST_CODE, LOGIN_REQUEST_CODE}
  <1>0. SEND_KEY_REQUEST_CODE \notin Codes
    BY DEF SEND_KEY_REQUEST_CODE, REGISTER_REQUEST_CODE, LOGIN_REQUEST_CODE
  <1>1. ASSUME NEW c \in Proc, NEW code \in Codes, Send(c, code, NULL),
               NEW where \in PC \ {"sendKey"}, Goto(c, where), UNCHANGED rsa
        PROVE  KeySent'
    <2>1. \A d \in Proc : req'[d] = req[d] \/ (req'[d] # NULL => req'[d].code = code)
      BY <1>1 DEF Send, TypeOK
    <2>2. \A d \in Proc : pc'[d] = "sendKey" => pc[d] = "sendKey"
      BY <1>1 DEF Goto, TypeOK
    <2>3. QED  BY <1>0, <1>1, <2>1, <2>2 DEF KeySent
  <1>2. ASSUME \A d \in Proc : req'[d] = req[d] \/ req'[d] = NULL,
               \A d \in Proc : pc'[d] = "sendKey" => pc[d] = "sendKey",
               UNCHANGED rsa
        PROVE  KeySent'
    BY <1>2 DEF KeySent
  <1>3. ASSUME NEW c \in Proc, LoadStoredCredentials(c)  PROVE KeySent'
    <2>1. \A d \in Proc : pc'[d] = "sendKey" => d # c /\ pc[d] = "sendKey"
      BY <1>3 DEF LoadStoredCredentials, Goto, TypeOK
    <2>2. \A d \in Proc : d # c => rsa'[d] = rsa[d]
      BY <1>3 DEF LoadStoredCredentials, TypeOK
    <2>3. QED  BY <1>3, <2>1, <2>2 DEF KeySent, LoadStoredCredentials
  <1>4. ASSUME NEW c \in Proc, SendLogin(c) \/ SendRegister(c)  PROVE KeySent'
    BY <1>1, <1>4 DEF SendLogin, SendRegister, clientVars, PC, Running, Awaiting
  <1>5. ASSUME NEW c \in Proc, PutKeyInFiles(c)  PROVE KeySent'
    <2>1. rsa' = [rsa EXCEPT ![c] = c] /\ UNCHANGED req
      BY <1>5 DEF PutKeyInFiles
    <2>2. \A d \in Proc : pc'[d] = "sendKey" => d = c \/ pc[d] = "sendKey"
      BY <1>5 DEF PutKeyInFiles, Goto, TypeOK
    <2>3. QED  BY <2>1, <2>2, ConstantsOK DEF KeySent, TypeOK
  <1>6. ASSUME NEW c \in Proc, SendPublicKey(c)  PROVE KeySent'
    <2>1. pc[c] = "sendKey" /\ UNCHANGED rsa
          /\ \A d \in Proc : pc'[d] = "sendKey" => pc[d] = "sendKey"
      BY <1>6 DEF SendPublicKey, Goto, clientVars, TypeOK
    <2>2. rsa[c] # NULL
      BY <2>1 DEF KeySent
    <2>3. \A d \in Proc : req'[d] = req[d] \/ (req'[d] # NULL => req'[d].key = rsa[c])
      BY <1>6 DEF SendPublicKey, Send, TypeOK
    <2>4. QED  BY <2>1, <2>2, <2>3 DEF KeySent
  <1>7. ASSUME NEW c \in Proc,
               \/ Start(c) \/ ReceiveLoginResponse(c) \/ ReceiveRegisterResponse(c)
               \/ WriteMeInfo(c) \/ ReceiveAesKey(c) \/ LoseConnection(c) \/ Finish(c)
               \/ Crash(c)
        PROVE  KeySent'
    <2>1. UNCHANGED <<req, rsa>>
      BY <1>7 DEF Start, ReceiveLoginResponse, ReceiveRegisterResponse, WriteMeInfo,
                  ReceiveAesKey, LoseConnection, Finish, Crash, clientVars
    <2>2. \A d \in Proc : pc'[d] = "sendKey" => pc[d] = "sendKey"
      BY <1>7 DEF Start, ReceiveLoginResponse, ReceiveRegisterResponse, WriteMeInfo,
                  ReceiveAesKey, LoseConnection, Finish, Crash, Goto, TypeOK
    <2>3. QED  BY <1>2, <2>1, <2>2
  <1>8. ASSUME NEW c \in Proc, ServerStep(c) \/ CrashInSendKey(c)  PROVE KeySent'
    <2>1. UNCHANGED <<pc, rsa>>
      BY <1>8 DEF ServerStep, HandleRegister, HandleLogin, HandleSendKey, FailRequest,
                  Disconnect, CrashInSendKey, clientVars
    <2>2. \A d \in Proc : req'[d] = req[d] \/ req'[d] = NULL
      BY <1>8 DEF ServerStep, HandleRegister, HandleLogin, HandleSendKey, FailRequest,
                  Disconnect, CrashInSendKey, Serve, Close, ServerDown, TypeOK
    <2>3. QED  BY <1>2, <2>1, <2>2
  <1>9. CASE ServerCrash \/ ServerRestart \/ UNCHANGED vars
    BY <1>2, <1>9 DEF ServerCrash, ServerRestart, ServerDown, clientVars, vars
  <1>10. QED
    BY <1>3, <1>4, <1>5, <1>6, <1>7, <1>8, <1>9 DEF Next, ClientStep, Idle

\* Login and registration never both turn a client away: whoever has an AES key
\* has a public key, at every moment between the commits of the server.
THEOREM AesNeedsPublicKeyHolds == Spec => []AesNeedsPublicKey
  <1>1. Init => AesInv
    BY InitType DEF Init, AesInv, KeySent, AesNeedsPublicKey, get_aes_key
  <1>2. AesInv /\ [Next]_vars => AesInv'
    <2> SUFFICES ASSUME AesInv, [Next]_vars  PROVE AesInv'
      OBVIOUS
    <2>1. TypeOK' /\ KeySent'
      BY TypeStep, KeySentStep DEF AesInv
    <2> USE DEF AesInv
    <2>0. /\ clients \in [ID -> ClientRow(Proc) \cup {NULL}]
          /\ NULL \notin ClientRow(Proc)
      BY ConstantsOK DEF TypeOK
    <2>2. CASE UNCHANGED clients
      BY <2>1, <2>2 DEF AesNeedsPublicKey
    <2>3. ASSUME NEW c \in Proc, HandleRegister(c), NEW id \in ID,
                 clients' = insert_into_clients(clients, id)
          PROVE  AesNeedsPublicKey'
      <3>1. \A i \in ID :
              /\ get_public_key(clients', i) = IF i = id THEN NULL
                                                         ELSE get_public_key(clients, i)
              /\ get_aes_key(clients', i) = IF i = id THEN NoAesKey
                                                      ELSE get_aes_key(clients, i)
        BY <2>0, <2>3, Insert
      <3>2. QED  BY <3>1 DEF AesNeedsPublicKey
    <2>4. ASSUME NEW c \in Proc, HandleLogin(c), CanLogin(req[c].id),
                 clients' = update_aes_key(clients, req[c].id, NewAesKey(req[c].id))
          PROVE  AesNeedsPublicKey'
      <3>1. req[c].id \in ID
        BY <2>4, ServeType DEF HandleLogin, Request
      <3>2. NewAesKey(req[c].id) \in Nat
        BY <3>1, NewAesKeyType
      <3>3. \A i \in ID :
              /\ get_public_key(clients', i) = get_public_key(clients, i)
              /\ i # req[c].id => get_aes_key(clients', i) = get_aes_key(clients, i)
        BY <2>0, <2>4, <3>1, <3>2, UpdateAesKey
      <3>4. QED  BY <2>4, <3>3 DEF AesNeedsPublicKey, CanLogin
    <2>5. ASSUME NEW c \in Proc, HandleSendKey(c) \/ CrashInSendKey(c)
          PROVE  AesNeedsPublicKey'
      <3>1. /\ req[c].id \in ID /\ req[c].key \in Proc \cup {NULL}
            /\ req[c].key # NULL
        BY <2>5 DEF HandleSendKey, CrashInSendKey, Serve, Requested, TypeOK, Request, KeySent
      <3>2. \/ clients' = SendKeyCommits(req[c].id, req[c].key)[1]
            \/ clients' = SendKeyCommits(req[c].id, req[c].key)[2]
        BY <2>5 DEF HandleSendKey, CrashInSendKey
      <3>3. QED
        BY <3>1, <3>2, SendKeyCommitsEffect DEF AesNeedsPublicKey
    <2>6. AesNeedsPublicKey'
      BY <2>2, <2>3, <2>4, <2>5
         DEF Next, ClientStep, ServerStep, Start, LoadStoredCredentials, SendLogin,
             ReceiveLoginResponse, SendRegister, ReceiveRegisterResponse, WriteMeInfo,
             PutKeyInFiles, SendPublicKey, ReceiveAesKey, LoseConnection, Finish, Crash,
             HandleRegister, HandleLogin, FailRequest, Disconnect, ServerCrash,
             ServerRestart, Idle, vars
    <2>7. QED  BY <2>1, <2>6
  <1>3. AesInv => AesNeedsPublicKey
    BY DEF AesInv
  <1>4. QED  BY <1>1, <1>2, <1>3, PTL DEF Spec
-----------------------------------------------------------------------------
(* The effects of the steps that change me.info, an id or a private key.     *)

\* The response that gives c the id i is on its way.
Offered(c, i) == \E n \in 1..Len(resp[c]) :
                    /\ resp[c][n].code = REGISTER_SUCCESS_CODE
                    /\ resp[c][n].id = i

\* Only the process c moves, and takes an id or a private key.
Elsewhere(c) == \A q \in Proc \ {c} : cid'[q] = cid[q] /\ rsa'[q] = rsa[q] /\ pc'[q] = pc[q]

LEMMA LoadEffect ==
    ASSUME TypeOK, NEW c \in Proc, LoadStoredCredentials(c)
    PROVE  LET info == meInfo[DirOf[c]] IN
           /\ pc[c] = "load" /\ pc'[c] \in {"login", "register"}
           /\ Elsewhere(c) /\ UNCHANGED <<clients, meInfo, req, resp>>
           /\ \/ UNCHANGED <<cid, rsa>>
              \/ /\ info.id # NULL /\ cid'[c] = info.id
                 /\ rsa'[c] = IF info.keys = <<>> THEN NULL ELSE Head(info.keys)
  <1>1. pc[c] = "load" /\ pc'[c] \in {"login", "register"}
    BY DEF LoadStoredCredentials, Goto, TypeOK
  <1>2. Elsewhere(c) /\ UNCHANGED <<clients, meInfo, req, resp>>
    BY DEF LoadStoredCredentials, Goto, TypeOK, Elsewhere
  <1>3. CASE meInfo[DirOf[c]].id = NULL
    BY <1>1, <1>2, <1>3 DEF LoadStoredCredentials
  <1>4. CASE meInfo[DirOf[c]].id # NULL
    BY <1>1, <1>2, <1>4 DEF LoadStoredCredentials, TypeOK
  <1>5. QED  BY <1>3, <1>4

LEMMA RegisterEffect ==
    ASSUME TypeOK, NEW c \in Proc, ReceiveRegisterResponse(c)
    PROVE  /\ pc[c] = "awaitRegister"
           /\ Elsewhere(c) /\ UNCHANGED <<clients, req, rsa>>
           /\ resp[c] \in Seq(Response) /\ resp[c] # <<>>
           /\ resp' = [resp EXCEPT ![c] = Tail(@)]
           /\ \/ /\ pc'[c] \in {"register", "failed"} /\ UNCHANGED <<cid, meInfo>>
              \/ /\ pc'[c] = "writeInfo" /\ cid'[c] \in ID
                 /\ Offered(c, cid'[c])
                 /\ meInfo' = [meInfo EXCEPT ![DirOf[c]] = EmptyInfo]
  <1> DEFINE m == Head(resp[c])
  <1>1. /\ pc[c] = "awaitRegister" /\ UNCHANGED <<clients, req, rsa>>
        /\ resp[c] \in Seq(Response) /\ resp[c] # <<>>
        /\ resp' = [resp EXCEPT ![c] = Tail(@)]
    BY DEF ReceiveRegisterResponse, Receive, TypeOK
  <1>2. Elsewhere(c)
    BY DEF ReceiveRegisterResponse, Goto, TypeOK, Elsewhere
  <1>3. CASE m.code = REGISTER_SUCCESS_CODE
    <2>1. m.id \in ID
      BY <1>3, ReceiveType DEF ReceiveRegisterResponse
    <2>2. /\ pc'[c] = "writeInfo" /\ cid'[c] = m.id
          /\ meInfo' = [meInfo EXCEPT ![DirOf[c]] = EmptyInfo]
      BY <1>3 DEF ReceiveRegisterResponse, Goto, TypeOK, Truncated
    <2>3. Offered(c, m.id)
      <3>1. 1 \in 1..Len(resp[c]) /\ m = resp[c][1]
        BY <1>1
      <3>2. QED  BY <1>3, <3>1 DEF Offered
    <2>4. QED  BY <1>1, <1>2, <2>1, <2>2, <2>3
  <1>4. CASE m.code # REGISTER_SUCCESS_CODE
    <2>1. pc'[c] \in {"register", "failed"} /\ UNCHANGED <<cid, meInfo>>
      BY <1>4 DEF ReceiveRegisterResponse, Goto, TypeOK
    <2>2. QED  BY <1>1, <1>2, <2>1
  <1>5. QED  BY <1>3, <1>4

LEMMA WriteEffect ==
    ASSUME TypeOK, NEW c \in Proc, WriteMeInfo(c)
    PROVE  /\ pc[c] = "writeInfo" /\ pc'[c] = "putKey"
           /\ Elsewhere(c) /\ UNCHANGED <<clients, req, resp, cid, rsa>>
           /\ \A d \in Dir \ {DirOf[c]} : meInfo'[d] = meInfo[d]
           /\ meInfo'[DirOf[c]].id = cid[c]
           /\ meInfo'[DirOf[c]].keys = meInfo[DirOf[c]].keys
  <1>1. /\ pc[c] = "writeInfo" /\ pc'[c] = "putKey"
        /\ Elsewhere(c) /\ UNCHANGED <<clients, req, resp, cid, rsa>>
    BY DEF WriteMeInfo, Goto, TypeOK, Elsewhere, clientVars
  <1> DEFINE info == [meInfo[DirOf[c]] EXCEPT !.id = cid[c]]
  <1>2. DirOf[c] \in Dir /\ meInfo[DirOf[c]] \in MeInfo
    BY ConstantsOK DEF TypeOK
  <1>3. info.id = cid[c] /\ info.keys = meInfo[DirOf[c]].keys
    BY <1>2 DEF MeInfo
  <1>4. meInfo' = [meInfo EXCEPT ![DirOf[c]] = info]
    BY DEF WriteMeInfo
  <1> HIDE DEF info
  <1>5. QED  BY <1>1, <1>2, <1>3, <1>4 DEF TypeOK

LEMMA PutKeyEffect ==
    ASSUME TypeOK, NEW c \in Proc, PutKeyInFiles(c)
    PROVE  /\ pc[c] = "putKey" /\ pc'[c] = "sendKey"
           /\ Elsewhere(c) /\ UNCHANGED <<clients, req, resp, cid>>
           /\ rsa'[c] = c
           /\ \A d \in Dir \ {DirOf[c]} : meInfo'[d] = meInfo[d]
           /\ meInfo'[DirOf[c]].id = meInfo[DirOf[c]].id
           /\ meInfo[DirOf[c]].keys \in Seq(Proc)
           /\ meInfo'[DirOf[c]].keys = Append(meInfo[DirOf[c]].keys, c)
  <1>1. /\ pc[c] = "putKey" /\ pc'[c] = "sendKey" /\ rsa'[c] = c
        /\ Elsewhere(c) /\ UNCHANGED <<clients, req, resp, cid>>
    BY DEF PutKeyInFiles, Goto, TypeOK, Elsewhere
  <1> DEFINE keys == Append(meInfo[DirOf[c]].keys, c)
             info == [meInfo[DirOf[c]] EXCEPT !.keys = keys]
  <1>2. DirOf[c] \in Dir /\ meInfo[DirOf[c]] \in MeInfo
    BY ConstantsOK DEF TypeOK
  <1>3. meInfo[DirOf[c]].keys \in Seq(Proc)
    BY <1>2 DEF MeInfo
  <1> HIDE DEF keys
  <1>4. info.keys = keys /\ info.id = meInfo[DirOf[c]].id
    BY <1>2 DEF MeInfo
  <1>5. meInfo' = [meInfo EXCEPT ![DirOf[c]] = info]
    BY DEF PutKeyInFiles, keys
  <1> HIDE DEF info
  <1>6. QED  BY <1>1, <1>2, <1>3, <1>4, <1>5 DEF TypeOK, keys

\* Every other step leaves them alone, and moves at most one process forward.
Registers == \E c \in Proc : \/ LoadStoredCredentials(c) \/ ReceiveRegisterResponse(c)
                            \/ WriteMeInfo(c) \/ PutKeyInFiles(c)

Forward(c) ==
    \/ pc'[c] = pc[c]
    \/ Start(c) /\ pc[c] = "off" /\ pc'[c] \in {"load", "failed"}
    \/ pc[c] \in {"login", "awaitLogin"} /\ pc'[c] \in {"login", "awaitLogin", "register"}
    \/ pc[c] = "register" /\ pc'[c] = "awaitRegister"
    \/ pc[c] = "sendKey" /\ pc'[c] = "awaitKey"
    \/ pc[c] \in Running /\ pc'[c] \in {"ready", "done", "failed", "dead"}

LEMMA OtherSteps ==
    ASSUME TypeOK, [Next]_vars, ~Registers
    PROVE  UNCHANGED <<meInfo, cid, rsa>> /\ \A q \in Proc : Forward(q)
  <1>1. ASSUME NEW c \in Proc,
               \/ Start(c) \/ SendLogin(c) \/ ReceiveLoginResponse(c) \/ SendRegister(c)
               \/ SendPublicKey(c) \/ ReceiveAesKey(c) \/ LoseConnection(c) \/ Finish(c)
               \/ Crash(c)
        PROVE  UNCHANGED <<meInfo, cid, rsa>> /\ \A q \in Proc : Forward(q)
    <2>1. UNCHANGED <<meInfo, cid, rsa>>
      BY <1>1 DEF Start, SendLogin, ReceiveLoginResponse, SendRegister, SendPublicKey,
                  ReceiveAesKey, LoseConnection, Finish, Crash, clientVars
    <2>2. \A q \in Proc \ {c} : pc'[q] = pc[q]
      BY <1>1 DEF Start, SendLogin, ReceiveLoginResponse, SendRegister, SendPublicKey,
                  ReceiveAesKey, LoseConnection, Finish, Crash, Goto, TypeOK
    <2>3. CASE Start(c)
      BY <2>1, <2>2, <2>3 DEF Forward, Start, Goto, TypeOK
    <2>4. CASE SendLogin(c) \/ ReceiveLoginResponse(c) \/ SendRegister(c)
      BY <2>1, <2>2, <2>4 DEF Forward, SendLogin, ReceiveLoginResponse, SendRegister,
                              Goto, TypeOK, Running, Awaiting
    <2>5. CASE SendPublicKey(c) \/ ReceiveAesKey(c) \/ Finish(c)
      BY <2>1, <2>2, <2>5 DEF Forward, SendPublicKey, ReceiveAesKey, Finish,
                              Goto, TypeOK, Running, Awaiting
    <2>6. CASE LoseConnection(c) \/ Crash(c)
      BY <2>1, <2>2, <2>6 DEF Forward, LoseConnection, Crash, Goto, TypeOK, Running, Awaiting
    <2>7. QED  BY <1>1, <2>3, <2>4, <2>5, <2>6
  <1>2. ASSUME NEW c \in Proc, ServerStep(c) \/ CrashInSendKey(c)
        PROVE  UNCHANGED <<meInfo, cid, rsa, pc>>
    BY <1>2 DEF ServerStep, HandleRegister, HandleLogin, HandleSendKey, FailRequest,
                Disconnect, CrashInSendKey, clientVars
  <1>3. CASE ServerCrash \/ ServerRestart \/ UNCHANGED vars
    BY <1>3 DEF ServerCrash, ServerRestart, clientVars, vars, Forward
  <1>4. QED
    BY <1>1, <1>2, <1>3 DEF Next, ClientStep, Idle, Registers, Forward

-----------------------------------------------------------------------------
(* The requests and the responses in flight.                                 *)

\* A row is never deleted.
LEMMA RowsStay ==
    ASSUME TypeOK, [Next]_vars, NEW i \in ID, clients[i] # NULL
    PROVE  clients'[i] # NULL
  <1>0. /\ clients \in [ID -> ClientRow(Proc) \cup {NULL}]
        /\ NULL \notin ClientRow(Proc)
    BY ConstantsOK DEF TypeOK
  <1>1. ASSUME NEW c \in Proc, HandleRegister(c), NEW id \in ID, FreshId(id),
               clients' = insert_into_clients(clients, id)
        PROVE  clients'[i] # NULL
    BY <1>0, <1>1 DEF FreshId, insert_into_clients
  <1>2. ASSUME NEW c \in Proc, HandleLogin(c),
               clients' = update_aes_key(clients, req[c].id, NewAesKey(req[c].id))
        PROVE  clients'[i] # NULL
    <2>1. req[c].id \in ID
      BY <1>2, ServeType DEF HandleLogin, Request
    <2>2. NewAesKey(req[c].id) \in Nat
      BY <2>1, NewAesKeyType
    <2>3. QED  BY <1>0, <1>2, <2>1, <2>2, UpdateAesKey
  <1>3. ASSUME NEW c \in Proc, HandleSendKey(c) \/ CrashInSendKey(c)
        PROVE  clients'[i] # NULL
    <2>1. req[c].id \in ID /\ req[c].key \in Proc \cup {NULL}
      BY <1>3 DEF HandleSendKey, CrashInSendKey, Serve, Requested, TypeOK, Request
    <2>2. \/ clients' = SendKeyCommits(req[c].id, req[c].key)[1]
          \/ clients' = SendKeyCommits(req[c].id, req[c].key)[2]
      BY <1>3 DEF HandleSendKey, CrashInSendKey
    <2>3. QED  BY <2>1, <2>2, SendKeyCommitsEffect
  <1>4. QED
    BY <1>1, <1>2, <1>3
       DEF Next, ClientStep, ServerStep, Start, LoadStoredCredentials, SendLogin,
           ReceiveLoginResponse, SendRegister, ReceiveRegisterResponse, WriteMeInfo,
           PutKeyInFiles, SendPublicKey, ReceiveAesKey, LoseConnection, Finish, Crash,
           HandleRegister, HandleLogin, FailRequest, Disconnect, ServerCrash,
           ServerRestart, Idle, vars

\* An id is drawn for c: no one has seen it before.
Drawn(c, i) == /\ HandleRegister(c) /\ FreshId(i)
               /\ clients' = insert_into_clients(clients, i)

\* How the responses in flight to a process change, and which may be added.
Answers(c, m) ==
    /\ resp'[c] = Append(resp[c], m)
    /\ m.code = REGISTER_SUCCESS_CODE => m.id \in ID /\ Drawn(c, m.id)
    /\ m.code = LOGIN_SUCCESS_CODE =>
         /\ req[c] # NULL /\ req[c] \in Request /\ req[c].code = LOGIN_REQUEST_CODE
         /\ CanLogin(req[c].id) /\ m.key = get_public_key(clients, req[c].id)

LEMMA Codes ==
    /\ REGISTER_SUCCESS_CODE \notin {REGISTER_FAILED_CODE, RECEIVED_KEY_SUCCESS_CODE,
                                     LOGIN_SUCCESS_CODE, LOGIN_FAIL_CODE, GENERAL_FAIL_CODE}
    /\ LOGIN_SUCCESS_CODE \notin {REGISTER_FAILED_CODE, RECEIVED_KEY_SUCCESS_CODE,
                                  LOGIN_FAIL_CODE, GENERAL_FAIL_CODE}
    /\ LOGIN_REQUEST_CODE \notin {REGISTER_REQUEST_CODE, SEND_KEY_REQUEST_CODE}
    /\ SEND_KEY_REQUEST_CODE # REGISTER_REQUEST_CODE
  BY DEF REGISTER_SUCCESS_CODE, REGISTER_FAILED_CODE, RECEIVED_KEY_SUCCESS_CODE,
         LOGIN_SUCCESS_CODE, LOGIN_FAIL_CODE, GENERAL_FAIL_CODE,
         LOGIN_REQUEST_CODE, REGISTER_REQUEST_CODE, SEND_KEY_REQUEST_CODE

LEMMA RespStep ==
    ASSUME TypeOK, [Next]_vars, NEW q \in Proc
    PROVE  \/ resp'[q] = resp[q]
           \/ resp[q] # <<>> /\ resp'[q] = Tail(resp[q])
           \/ \E m \in Response : Answers(q, m)
  <1> DEFINE Goal == \/ resp'[q] = resp[q]
                     \/ resp[q] # <<>> /\ resp'[q] = Tail(resp[q])
                     \/ \E m \in Response : Answers(q, m)
  <1>1. ASSUME NEW c \in Proc, Receive(c)  PROVE Goal
    BY <1>1 DEF Receive, TypeOK
  <1>2. ASSUME NEW c \in Proc, NEW m \in Response, Respond(c, m),
               m.code \notin {REGISTER_SUCCESS_CODE, LOGIN_SUCCESS_CODE}
        PROVE  Goal
    BY <1>2 DEF Respond, Answers, TypeOK
  <1>3. ASSUME NEW c \in Proc, HandleRegister(c)  PROVE Goal
    <2>1. Bare(REGISTER_FAILED_CODE) \in Response
          /\ Bare(REGISTER_FAILED_CODE).code = REGISTER_FAILED_CODE
      BY DEF Bare, Response, NoAesKey
    <2>2. CASE Respond(c, Bare(REGISTER_FAILED_CODE))
      BY <1>2, <2>1, <2>2, Codes
    <2>3. ASSUME NEW id \in ID, Drawn(c, id),
                 Respond(c, [Bare(REGISTER_SUCCESS_CODE) EXCEPT !.id = id])
          PROVE  Goal
      <3> DEFINE m == [Bare(REGISTER_SUCCESS_CODE) EXCEPT !.id = id]
      <3>1. m \in Response /\ m.code = REGISTER_SUCCESS_CODE /\ m.id = id
        BY DEF Bare, Response, NoAesKey
      <3> HIDE DEF m
      <3>2. Answers(c, m) \/ q # c
        BY <2>3, <3>1, Codes DEF Answers, Respond, TypeOK, m
      <3>3. q # c => resp'[q] = resp[q]
        BY <2>3 DEF Respond, TypeOK
      <3>4. QED  BY <3>1, <3>2, <3>3
    <2>4. QED  BY <1>3, <2>2, <2>3 DEF HandleRegister, Drawn
  <1>4. ASSUME NEW c \in Proc, HandleLogin(c)  PROVE Goal
    <2>1. /\ req[c] \in Request /\ req[c].code = LOGIN_REQUEST_CODE /\ req[c].id \in ID
          /\ req[c] # NULL
      BY <1>4, ServeType DEF HandleLogin, Request, Serve, Requested
    <2>2. Bare(LOGIN_FAIL_CODE) \in Response /\ Bare(LOGIN_FAIL_CODE).code = LOGIN_FAIL_CODE
      BY DEF Bare, Response, NoAesKey
    <2>3. CASE Respond(c, Bare(LOGIN_FAIL_CODE))
      BY <1>2, <2>2, <2>3, Codes
    <2> DEFINE k == get_public_key(clients, req[c].id)
               n == NewAesKey(req[c].id)
               m == Encrypted(LOGIN_SUCCESS_CODE, req[c].id, k, n)
    <2>4. CASE CanLogin(req[c].id) /\ Respond(c, m)
      <3>1. k \in Proc \cup {NULL} /\ n \in Nat
        BY <2>1, ClientsType, NewAesKeyType DEF TypeOK
      <3> HIDE DEF k, n
      <3>2. m \in Response /\ m.code = LOGIN_SUCCESS_CODE /\ m.key = k
        BY <2>1, <3>1 DEF Encrypted, Response
      <3> HIDE DEF m
      <3>3. Answers(c, m) \/ q # c
        BY <2>1, <2>4, <3>2, Codes DEF Answers, Respond, TypeOK, k
      <3>4. q # c => resp'[q] = resp[q]
        BY <2>4 DEF Respond, TypeOK
      <3>5. QED  BY <3>2, <3>3, <3>4
    <2>5. QED  BY <1>4, <2>3, <2>4 DEF HandleLogin
  <1>5. ASSUME NEW c \in Proc, HandleSendKey(c)  PROVE Goal
    <2>1. req[c].id \in ID /\ req[c].key \in Proc \cup {NULL}
      BY <1>5, ServeType DEF HandleSendKey, Request
    <2> DEFINE n == NewAesKey(req[c].id)
               m == Encrypted(RECEIVED_KEY_SUCCESS_CODE, req[c].id, req[c].key, n)
    <2>2. n \in Nat
      BY <2>1, NewAesKeyType
    <2> HIDE DEF n
    <2>3. m \in Response /\ m.code = RECEIVED_KEY_SUCCESS_CODE
      BY <2>1, <2>2 DEF Encrypted, Response
    <2>4. Respond(c, m)
      BY <1>5 DEF HandleSendKey, n
    <2> HIDE DEF m
    <2>5. QED  BY <1>2, <2>3, <2>4, Codes
  <1>6. ASSUME NEW c \in Proc, FailRequest(c)  PROVE Goal
    <2>1. Bare(GENERAL_FAIL_CODE) \in Response
          /\ Bare(GENERAL_FAIL_CODE).code = GENERAL_FAIL_CODE
      BY DEF Bare, Response, NoAesKey
    <2>2. QED  BY <1>2, <1>6, <2>1, Codes DEF FailRequest
  <1>7. QED
    BY <1>1, <1>3, <1>4, <1>5, <1>6
       DEF Next, ClientStep, ServerStep, Start, LoadStoredCredentials, SendLogin,
           ReceiveLoginResponse, SendRegister, ReceiveRegisterResponse, WriteMeInfo,
           PutKeyInFiles, SendPublicKey, ReceiveAesKey, LoseConnection, Finish, Crash,
           Disconnect, CrashInSendKey, ServerCrash, ServerRestart, Idle, vars

\* A response in flight after the step was in flight before it, or is added.
LEMMA InFlight ==
    ASSUME NEW s \in Seq(Response), NEW t, t = s \/ (s # <<>> /\ t = Tail(s)),
           NEW n \in 1..Len(t)
    PROVE  \E o \in 1..Len(s) : t[n] = s[o]
  <1>1. CASE t = s
    BY <1>1
  <1>2. CASE s # <<>> /\ t = Tail(s)
    <2>1. n + 1 \in 1..Len(s) /\ t[n] = s[n + 1]
      BY <1>2
    <2>2. QED  BY <2>1
  <1>3. QED  BY <1>1, <1>2

\* An id becomes pending for a process only by being drawn for it.
LEMMA OfferedStep ==
    ASSUME TypeOK, [Next]_vars, NEW c \in Proc, NEW i \in ID, Offered(c, i)'
    PROVE  Offered(c, i) \/ Drawn(c, i)
  <1>1. resp[c] \in Seq(Response)
    BY DEF TypeOK
  <1>2. PICK n \in 1..Len(resp'[c]) : /\ resp'[c][n].code = REGISTER_SUCCESS_CODE
                                     /\ resp'[c][n].id = i
    BY DEF Offered
  <1>3. CASE \E m \in Response : Answers(c, m)
    <2>1. PICK m \in Response : Answers(c, m)
      BY <1>3
    <2>2. (n \in 1..Len(resp[c]) /\ resp'[c][n] = resp[c][n]) \/ resp'[c][n] = m
      BY <1>1, <1>2, <2>1 DEF Answers
    <2>3. QED  BY <1>2, <2>1, <2>2 DEF Answers, Offered
  <1>4. CASE resp'[c] = resp[c] \/ (resp[c] # <<>> /\ resp'[c] = Tail(resp[c]))
    <2> DEFINE s == resp[c]
               t == resp'[c]
    <2>1. n \in 1..Len(t) /\ s \in Seq(Response) /\ (t = s \/ (s # <<>> /\ t = Tail(s)))
      BY <1>1, <1>2, <1>4
    <2> HIDE DEF s, t
    <2>2. \E o \in 1..Len(s) : t[n] = s[o]
      BY <2>1, InFlight
    <2>3. QED  BY <1>2, <2>2 DEF Offered, s, t
  <1>5. QED  BY <1>3, <1>4, RespStep

\* What a step adds to the requests: one of a process, about its own id.
LEMMA ReqStep ==
    ASSUME TypeOK, [Next]_vars, NEW q \in Proc
    PROVE  \/ req'[q] = req[q]
           \/ req'[q] = NULL
           \/ SendLogin(q) /\ req'[q].code = LOGIN_REQUEST_CODE /\ req'[q].id = cid[q]
           \/ SendRegister(q) /\ req'[q].code = REGISTER_REQUEST_CODE
           \/ /\ SendPublicKey(q) /\ req'[q].code = SEND_KEY_REQUEST_CODE
              /\ req'[q].id = cid[q] /\ req'[q].key = rsa[q]
  <1>1. ASSUME NEW c \in Proc, SendLogin(c) \/ SendRegister(c) \/ SendPublicKey(c), q # c
        PROVE  req'[q] = req[q]
    BY <1>1 DEF SendLogin, SendRegister, SendPublicKey, Send, TypeOK
  <1>2. SendLogin(q) => \/ req'[q] = req[q]
                        \/ req'[q].code = LOGIN_REQUEST_CODE /\ req'[q].id = cid[q]
    BY DEF SendLogin, Send, TypeOK
  <1>3. SendRegister(q) => req'[q] = req[q] \/ req'[q].code = REGISTER_REQUEST_CODE
    BY DEF SendRegister, Send, TypeOK
  <1>4. SendPublicKey(q) => \/ req'[q] = req[q]
                            \/ /\ req'[q].code = SEND_KEY_REQUEST_CODE
                               /\ req'[q].id = cid[q] /\ req'[q].key = rsa[q]
    BY DEF SendPublicKey, Send, TypeOK
  <1>5. ASSUME NEW c \in Proc, ServerStep(c) \/ CrashInSendKey(c)
        PROVE  req'[q] = req[q] \/ req'[q] = NULL
    BY <1>5 DEF ServerStep, HandleRegister, HandleLogin, HandleSendKey, FailRequest,
                Disconnect, CrashInSendKey, Serve, Close, ServerDown, TypeOK
  <1>6. CASE ServerCrash
    BY <1>6 DEF ServerCrash, ServerDown
  <1>7. ASSUME NEW c \in Proc,
               \/ Start(c) \/ LoadStoredCredentials(c) \/ ReceiveLoginResponse(c)
               \/ ReceiveRegisterResponse(c) \/ WriteMeInfo(c) \/ PutKeyInFiles(c)
               \/ ReceiveAesKey(c) \/ LoseConnection(c) \/ Finish(c) \/ Crash(c)
        PROVE  req'[q] = req[q]
    BY <1>7 DEF Start, LoadStoredCredentials, ReceiveLoginResponse,
                ReceiveRegisterResponse, WriteMeInfo, PutKeyInFiles, ReceiveAesKey,
                LoseConnection, Finish, Crash
  <1>8. CASE ServerRestart \/ UNCHANGED vars
    BY <1>8 DEF ServerRestart, vars
  <1>9. QED
    BY <1>1, <1>2, <1>3, <1>4, <1>5, <1>6, <1>7, <1>8 DEF Next, ClientStep, Idle

-----------------------------------------------------------------------------
(* Whose requests change the AES key of a client: SessionInv.                *)

\* Only a process that waits, or is gone, has something on its connection.
Talking(c) == pc[c] \in Awaiting \cup Over

\* The client asks and waits, the server answers: nothing is sent ahead.  Only a
\* GENERAL_FAIL_CODE, after which the connection is closed, may follow another
\* response.
Turn(c) ==
    /\ pc[c] = "off" => conn[c] = "none" /\ resp[c] = <<>>
    /\ req[c] # NULL => Talking(c) /\ resp[c] = <<>> /\ req[c].id = cid[c]
    /\ Connected(c) => Len(resp[c]) <= 1 /\ (~Talking(c) => resp[c] = <<>>)
    /\ \A n \in 1..Len(resp[c]) :
         resp[c][n].code # GENERAL_FAIL_CODE => n = 1 /\ Talking(c)

Conversation == \A c \in Proc : Turn(c)

\* A step of one process, or of the server for it, is not seen by another one.
LEMMA NotInvolved ==
    ASSUME TypeOK, NEW q \in Proc, NEW c \in Proc \ {q},
           Start(q) \/ ClientStep(q) \/ Crash(q) \/ ServerStep(q)
    PROVE  /\ pc'[c] = pc[c] /\ conn'[c] = conn[c] /\ req'[c] = req[c]
           /\ resp'[c] = resp[c] /\ cid'[c] = cid[c] /\ rsa'[c] = rsa[c]
           /\ aes'[c] = aes[c]
  <1> USE DEF TypeOK, Goto, clientVars
  <1>1. CASE Start(q) \/ LoadStoredCredentials(q) \/ Crash(q)
    BY <1>1 DEF Start, LoadStoredCredentials, Crash
  <1>2. CASE SendLogin(q) \/ SendRegister(q) \/ SendPublicKey(q)
    BY <1>2 DEF SendLogin, SendRegister, SendPublicKey, Send
  <1>3. CASE ReceiveLoginResponse(q) \/ ReceiveRegisterResponse(q) \/ ReceiveAesKey(q)
    BY <1>3 DEF ReceiveLoginResponse, ReceiveRegisterResponse, ReceiveAesKey, Receive
  <1>4. CASE WriteMeInfo(q) \/ PutKeyInFiles(q) \/ LoseConnection(q) \/ Finish(q)
    BY <1>4 DEF WriteMeInfo, PutKeyInFiles, LoseConnection, Finish
  <1>5. CASE HandleRegister(q) \/ HandleLogin(q) \/ HandleSendKey(q)
    BY <1>5 DEF HandleRegister, HandleLogin, HandleSendKey, Serve, ReadName, Respond
  <1>6. CASE FailRequest(q) \/ Disconnect(q)
    BY <1>6 DEF FailRequest, Disconnect, Close, Respond
  <1>7. QED
    BY <1>1, <1>2, <1>3, <1>4, <1>5, <1>6 DEF ClientStep, ServerStep

\* What is left in flight when the response at the head is taken.
LEMMA TakeResponse ==
    ASSUME TypeOK, Conversation, NEW c \in Proc, Receive(c)
    PROVE  /\ req[c] = NULL
           /\ resp'[c] = Tail(resp[c]) /\ resp'[c] \in Seq(Response)
           /\ Connected(c) => resp'[c] = <<>>
           /\ \A n \in 1..Len(resp'[c]) : resp'[c][n].code = GENERAL_FAIL_CODE
  <1> DEFINE s == resp[c]
  <1>1. s \in Seq(Response) /\ s # <<>> /\ resp'[c] = Tail(s)
    BY DEF TypeOK, Receive
  <1>2. /\ req[c] = NULL
        /\ Connected(c) => Len(s) <= 1
        /\ \A n \in 1..Len(s) : s[n].code # GENERAL_FAIL_CODE => n = 1
    BY <1>1 DEF Conversation, Turn
  <1> HIDE DEF s
  <1>3. /\ Tail(s) \in Seq(Response) /\ Len(Tail(s)) = Len(s) - 1
        /\ \A n \in 1..Len(Tail(s)) : n + 1 \in 1..Len(s) /\ Tail(s)[n] = s[n + 1] /\ n + 1 # 1
    BY <1>1
  <1>4. Connected(c) => Tail(s) = <<>>
    BY <1>1, <1>2, <1>3
  <1>5. \A n \in 1..Len(Tail(s)) : Tail(s)[n].code = GENERAL_FAIL_CODE
    BY <1>2, <1>3
  <1>6. resp'[c] = Tail(s) /\ Tail(s) \in Seq(Response)
    BY <1>1, <1>3
  <1>7. QED  BY <1>2, <1>4, <1>5, <1>6 DEF s

\* A request that is served was the only thing on its connection.
LEMMA ServeTurn ==
    ASSUME TypeOK, Conversation, NEW c \in Proc, NEW code, Serve(c, code)
    PROVE  /\ Talking(c) /\ resp[c] = <<>> /\ req[c].id = cid[c] /\ req'[c] = NULL
           /\ conn[c] = "open"
  BY DEF Conversation, Turn, Serve, Requested, TypeOK

LEMMA RespondTurn ==
    ASSUME TypeOK, NEW c \in Proc, NEW m, Respond(c, m), resp[c] = <<>>
    PROVE  Len(resp'[c]) = 1 /\ resp'[c][1] = m
  BY DEF TypeOK, Respond

LEMMA ClientTurn ==
    ASSUME TypeOK, Conversation, NEW c \in Proc, Start(c) \/ ClientStep(c) \/ Crash(c)
    PROVE  Turn(c)'
  <1> USE DEF Goto, Running, Awaiting, Over, Talking, Connected
  <1>0. Turn(c)
    BY DEF Conversation
  <1>1. CASE Start(c)
    <2>1. pc[c] = "off" /\ pc'[c] \in {"load", "failed"} /\ conn'[c] \in {"open", "none"}
          /\ UNCHANGED <<req, resp, cid>>
      BY <1>0, <1>1 DEF Start, TypeOK, clientVars, Turn
    <2>2. resp[c] = <<>> /\ req[c] = NULL
      BY <1>0, <2>1 DEF Turn
    <2>3. QED  BY <2>1, <2>2 DEF Turn
  <1>2. CASE LoadStoredCredentials(c)
    <2>1. pc[c] = "load" /\ pc'[c] \in {"login", "register"} /\ UNCHANGED <<conn, req, resp>>
      BY <1>2 DEF LoadStoredCredentials, TypeOK
    <2>2. QED  BY <1>0, <2>1 DEF Turn
  <1>3. CASE SendLogin(c) \/ SendRegister(c) \/ SendPublicKey(c)
    <2>1. /\ pc[c] \in {"login", "register", "sendKey"} /\ pc'[c] \in Awaiting
          /\ UNCHANGED <<conn, resp, cid>>
      BY <1>3 DEF SendLogin, SendRegister, SendPublicKey, TypeOK, clientVars
    <2>2. req'[c] = req[c] \/ (Connected(c) /\ req'[c].id = cid[c])
      BY <1>3 DEF SendLogin, SendRegister, SendPublicKey, Send, TypeOK
    <2>3. req[c] = NULL /\ (Connected(c) => resp[c] = <<>>)
      BY <1>0, <2>1 DEF Turn
    <2>4. QED  BY <1>0, <2>1, <2>2, <2>3 DEF Turn
  <1>4. CASE ReceiveLoginResponse(c) \/ ReceiveRegisterResponse(c) \/ ReceiveAesKey(c)
    <2>1. Receive(c) /\ pc'[c] # "off" /\ UNCHANGED <<conn, req>>
      BY <1>4 DEF ReceiveLoginResponse, ReceiveRegisterResponse, ReceiveAesKey, TypeOK
    <2>2. /\ req[c] = NULL /\ (Connected(c) => resp'[c] = <<>>)
          /\ \A n \in 1..Len(resp'[c]) : resp'[c][n].code = GENERAL_FAIL_CODE
      BY <2>1, TakeResponse
    <2>3. QED  BY <2>1, <2>2 DEF Turn
  <1>5. CASE WriteMeInfo(c) \/ PutKeyInFiles(c) \/ LoseConnection(c) \/ Finish(c) \/ Crash(c)
    <2>1. /\ UNCHANGED <<conn, req, resp, cid>> /\ pc[c] # "off" /\ pc'[c] # "off"
          /\ ~Talking(c) \/ Talking(c)'
      BY <1>5 DEF WriteMeInfo, PutKeyInFiles, LoseConnection, Finish, Crash, TypeOK, clientVars
    <2>2. QED  BY <1>0, <2>1 DEF Turn
  <1>6. QED  BY <1>1, <1>2, <1>3, <1>4, <1>5 DEF ClientStep

LEMMA ServerTurn ==
    ASSUME TypeOK, Conversation, NEW c \in Proc, ServerStep(c)
    PROVE  Turn(c)'
  <1> USE DEF Talking, Connected
  <1>0. Turn(c) /\ UNCHANGED <<pc, cid>>
    BY DEF Conversation, ServerStep, HandleRegister, HandleLogin, HandleSendKey,
           FailRequest, Disconnect, clientVars
  <1>1. CASE HandleRegister(c) \/ HandleLogin(c) \/ HandleSendKey(c)
    <2>1. PICK code, m : Serve(c, code) /\ Respond(c, m)
      BY <1>1 DEF HandleRegister, HandleLogin, HandleSendKey
    <2>2. Talking(c) /\ resp[c] = <<>> /\ req'[c] = NULL /\ pc[c] # "off"
      BY <2>1, ServeTurn DEF Awaiting, Over
    <2>3. Len(resp'[c]) = 1
      BY <2>1, <2>2, RespondTurn
    <2>4. QED  BY <1>0, <2>2, <2>3 DEF Turn
  <1>2. CASE FailRequest(c) \/ Disconnect(c)
    <2>1. conn'[c] = "closed" /\ req'[c] = NULL /\ conn[c] # "none"
      BY <1>2 DEF FailRequest, Disconnect, Close, TypeOK
    <2>2. pc[c] # "off"
      BY <1>0, <2>1 DEF Turn
    <2> DEFINE s == resp[c]
               t == resp'[c]
    <2>3. s \in Seq(Response) /\ (t = s \/ t = Append(s, Bare(GENERAL_FAIL_CODE)))
      BY <1>2 DEF FailRequest, Disconnect, Respond, TypeOK
    <2>4. Bare(GENERAL_FAIL_CODE).code = GENERAL_FAIL_CODE
      BY DEF Bare
    <2>5. \A n \in 1..Len(s) : s[n].code # GENERAL_FAIL_CODE => n = 1 /\ Talking(c)
      BY <1>0 DEF Turn
    <2> HIDE DEF s, t
    <2>6. \A n \in 1..Len(t) : t[n].code # GENERAL_FAIL_CODE => n \in 1..Len(s) /\ t[n] = s[n]
      BY <2>3, <2>4
    <2>7. \A n \in 1..Len(t) : t[n].code # GENERAL_FAIL_CODE => n = 1 /\ Talking(c)
      BY <2>5, <2>6
    <2>8. QED  BY <1>0, <2>1, <2>2, <2>7 DEF Turn, t
  <1>3. QED  BY <1>1, <1>2 DEF ServerStep

LEMMA ConversationStep ==
    ASSUME TypeOK, Conversation, [Next]_vars
    PROVE  Conversation'
  <1> SUFFICES ASSUME NEW c \in Proc  PROVE Turn(c)'
    BY DEF Conversation
  <1>0. Turn(c)
    BY DEF Conversation
  <1>1. ASSUME NEW q \in Proc, Start(q) \/ ClientStep(q) \/ Crash(q) \/ ServerStep(q)
        PROVE  Turn(c)'
    <2>1. CASE q = c
      BY <1>1, <2>1, ClientTurn, ServerTurn
    <2>2. CASE q # c
      <3>1. /\ pc'[c] = pc[c] /\ conn'[c] = conn[c] /\ req'[c] = req[c]
            /\ resp'[c] = resp[c] /\ cid'[c] = cid[c]
        BY <1>1, <2>2, NotInvolved
      <3>2. QED  BY <1>0, <3>1 DEF Turn, Talking, Connected
    <2>3. QED  BY <2>1, <2>2
  <1>2. ASSUME UNCHANGED <<resp, pc, cid>>, ServerDown  PROVE Turn(c)'
    <2>1. req'[c] = NULL /\ conn'[c] \in {conn[c], "closed"} /\ ~Connected(c)'
          /\ (conn[c] = "none" => conn'[c] = "none")
      BY <1>2 DEF ServerDown, Connected, TypeOK
    <2>2. QED  BY <1>0, <1>2, <2>1 DEF Turn, Talking
  <1>3. CASE UNCHANGED <<pc, conn, req, resp, cid>>
    BY <1>0, <1>3 DEF Turn, Talking, Connected
  <1>4. QED
    BY <1>1, <1>2, <1>3 DEF Next, CrashInSendKey, ServerCrash, ServerRestart, Idle, vars, clientVars
-----------------------------------------------------------------------------
\* A directory knows an id from the moment the server draws it for a process
\* of that directory.
Knows(d, i) == \/ meInfo[d].id = i
               \/ \E c \in Proc : DirOf[c] = d /\ (cid[c] = i \/ Offered(c, i))

\* uuid4 never draws the id of a client without me.info, so no request about it
\* finds a row, and a process that registered has another one.
DefaultIdHasNoRow ==
    /\ clients[DEFAULT_ID] = NULL
    /\ \A c \in Proc : ~Offered(c, DEFAULT_ID)
    /\ \A c \in Proc : pc[c] \in {"writeInfo", "putKey", "sendKey", "awaitKey"}
                         => cid[c] # DEFAULT_ID
    /\ \A c \in Proc : req[c] # NULL /\ req[c].code = SEND_KEY_REQUEST_CODE
                         => req[c].id # DEFAULT_ID

\* An id has a row before anyone knows it, and no two directories know it.
KnownInOneDir == \A i \in ID \ {DEFAULT_ID}, d \in Dir : Knows(d, i) =>
    /\ clients[i] # NULL
    /\ \A e \in Dir : Knows(e, i) => e = d

\* The id that is drawn is new, and it is drawn for one process.
LEMMA DrawnRow ==
    ASSUME TypeOK, NEW c \in Proc, NEW i \in ID, Drawn(c, i)
    PROVE  /\ i # DEFAULT_ID /\ clients[i] = NULL /\ clients'[i] # NULL
           /\ UNCHANGED <<cid, rsa, meInfo, pc>>
           /\ \A q \in Proc \ {c}, j \in ID : ~Drawn(q, j)
  <1>1. i # DEFAULT_ID /\ clients[i] = NULL /\ UNCHANGED <<cid, rsa, meInfo, pc>>
    BY DEF Drawn, FreshId, HandleRegister, clientVars
  <1>2. clients'[i] # NULL
    <2> DEFINE row == [public_key |-> NULL, aes_key |-> NoAesKey]
    <2>1. row \in ClientRow(Proc) /\ NULL \notin ClientRow(Proc)
      BY ConstantsOK DEF ClientRow, NoAesKey
    <2>2. clients'[i] = row
      BY DEF Drawn, insert_into_clients, TypeOK
    <2> HIDE DEF row
    <2>3. QED  BY <2>1, <2>2
  <1>3. \A q \in Proc \ {c}, j \in ID : ~Drawn(q, j)
    BY DEF Drawn, HandleRegister, Serve, Requested, TypeOK
  <1>4. QED  BY <1>1, <1>2, <1>3

\* A directory comes to know an id only by a draw of one of its processes.
LEMMA KnowsStep ==
    ASSUME TypeOK, [Next]_vars, NEW d \in Dir, NEW i \in ID, Knows(d, i)'
    PROVE  Knows(d, i) \/ \E c \in Proc : DirOf[c] = d /\ Drawn(c, i)
  <1>1. \A c \in Proc : DirOf[c] \in Dir
    BY ConstantsOK
  <1>2. ASSUME NEW c \in Proc, DirOf[c] = d, Offered(c, i)'
        PROVE  Knows(d, i) \/ \E q \in Proc : DirOf[q] = d /\ Drawn(q, i)
    BY <1>2, OfferedStep DEF Knows
  <1>3. ASSUME NEW c \in Proc, DirOf[c] = d, cid'[c] = i  PROVE Knows(d, i)
    <2>1. ASSUME NEW q \in Proc, LoadStoredCredentials(q)  PROVE Knows(d, i)
      BY <1>3, <2>1, LoadEffect DEF Elsewhere, Knows
    <2>2. ASSUME NEW q \in Proc, ReceiveRegisterResponse(q)  PROVE Knows(d, i)
      BY <1>3, <2>2, RegisterEffect DEF Elsewhere, Knows
    <2>3. ASSUME NEW q \in Proc, WriteMeInfo(q) \/ PutKeyInFiles(q)  PROVE Knows(d, i)
      BY <1>3, <2>3, WriteEffect, PutKeyEffect DEF Knows
    <2>4. CASE ~Registers
      BY <1>3, <2>4, OtherSteps DEF Knows
    <2>5. QED  BY <2>1, <2>2, <2>3, <2>4 DEF Registers
  <1>4. ASSUME meInfo'[d].id = i  PROVE Knows(d, i)
    <2>1. CASE meInfo'[d] = meInfo[d]
      BY <1>4, <2>1 DEF Knows
    <2>2. ASSUME NEW q \in Proc, ReceiveRegisterResponse(q)  PROVE Knows(d, i)
      <3>1. meInfo'[d] = meInfo[d] \/ meInfo'[d] = EmptyInfo
        BY <2>2, RegisterEffect DEF TypeOK
      <3>2. EmptyInfo.id # i
        BY ConstantsOK DEF EmptyInfo
      <3>3. QED  BY <1>4, <2>1, <3>1, <3>2
    <2>3. ASSUME NEW q \in Proc, WriteMeInfo(q)  PROVE Knows(d, i)
      <3>1. CASE d = DirOf[q]
        BY <1>4, <2>3, <3>1, WriteEffect DEF Knows
      <3>2. CASE d # DirOf[q]
        BY <2>1, <2>3, <3>2, WriteEffect
      <3>3. QED  BY <3>1, <3>2
    <2>4. ASSUME NEW q \in Proc, PutKeyInFiles(q)  PROVE Knows(d, i)
      <3>1. meInfo'[d].id = meInfo[d].id
        BY <1>1, <2>4, PutKeyEffect
      <3>2. QED  BY <1>4, <3>1 DEF Knows
    <2>5. ASSUME NEW q \in Proc, LoadStoredCredentials(q)  PROVE Knows(d, i)
      BY <2>1, <2>5, LoadEffect
    <2>6. CASE ~Registers
      BY <2>1, <2>6, OtherSteps
    <2>7. QED  BY <2>2, <2>3, <2>4, <2>5, <2>6 DEF Registers
  <1>5. QED  BY <1>2, <1>3, <1>4 DEF Knows

LEMMA KnownStep ==
    ASSUME TypeOK, KnownInOneDir, [Next]_vars
    PROVE  KnownInOneDir'
  <1> SUFFICES ASSUME NEW i \in ID \ {DEFAULT_ID}, NEW d \in Dir, Knows(d, i)'
               PROVE  /\ clients'[i] # NULL
                      /\ \A e \in Dir : Knows(e, i)' => e = d
    BY DEF KnownInOneDir
  <1>1. CASE Knows(d, i)
    <2>1. /\ clients[i] # NULL
          /\ \A e \in Dir : Knows(e, i) => e = d
      BY <1>1 DEF KnownInOneDir
    <2>2. \A c \in Proc : ~Drawn(c, i)
      BY <2>1, DrawnRow
    <2>3. QED  BY <2>1, <2>2, RowsStay, KnowsStep
  <1>2. ASSUME NEW c \in Proc, DirOf[c] = d, Drawn(c, i)
        PROVE  /\ clients'[i] # NULL
               /\ \A e \in Dir : Knows(e, i)' => e = d
    <2>1. /\ clients[i] = NULL /\ clients'[i] # NULL
          /\ \A q \in Proc \ {c} : ~Drawn(q, i)
      BY <1>2, DrawnRow
    <2>2. \A e \in Dir : ~Knows(e, i)
      BY <2>1 DEF KnownInOneDir
    <2>3. QED  BY <1>2, <2>1, <2>2, KnowsStep
  <1>3. QED  BY <1>1, <1>2, KnowsStep

LEMMA DefaultIdStep ==
    ASSUME TypeOK, DefaultIdHasNoRow, [Next]_vars
    PROVE  DefaultIdHasNoRow'
  <1> USE DEF DefaultIdHasNoRow
  <1>0. DEFAULT_ID \in ID
    BY ConstantsOK
  <1>1. \A c \in Proc : ~Offered(c, DEFAULT_ID)'
    BY <1>0, OfferedStep, DrawnRow
  <1>2. clients'[DEFAULT_ID] = NULL
    <2>1. ASSUME NEW c \in Proc, HandleRegister(c), NEW id \in ID, FreshId(id),
                 clients' = insert_into_clients(clients, id)
          PROVE  clients'[DEFAULT_ID] = NULL
      BY <1>0, <2>1 DEF FreshId, insert_into_clients, TypeOK
    <2>2. ASSUME NEW c \in Proc, HandleLogin(c),
                 clients' = update_aes_key(clients, req[c].id, NewAesKey(req[c].id))
          PROVE  clients'[DEFAULT_ID] = NULL
      BY <1>0, <2>2 DEF update_aes_key, TypeOK
    <2>3. ASSUME NEW c \in Proc, HandleSendKey(c) \/ CrashInSendKey(c)
          PROVE  clients'[DEFAULT_ID] = NULL
      <3>1. req[c].id \in ID /\ req[c].key \in Proc \cup {NULL}
        BY <2>3 DEF HandleSendKey, CrashInSendKey, Serve, Requested, TypeOK, Request
      <3>2. \/ clients' = SendKeyCommits(req[c].id, req[c].key)[1]
            \/ clients' = SendKeyCommits(req[c].id, req[c].key)[2]
        BY <2>3 DEF HandleSendKey, CrashInSendKey
      <3>3. QED  BY <1>0, <3>1, <3>2, SendKeyCommitsEffect
    <2>4. QED
      BY <2>1, <2>2, <2>3
         DEF Next, ClientStep, ServerStep, Start, LoadStoredCredentials, SendLogin,
             ReceiveLoginResponse, SendRegister, ReceiveRegisterResponse, WriteMeInfo,
             PutKeyInFiles, SendPublicKey, ReceiveAesKey, LoseConnection, Finish, Crash,
             HandleRegister, HandleLogin, FailRequest, Disconnect, ServerCrash,
             ServerRestart, Idle, vars
  <1>3. ASSUME NEW c \in Proc, pc'[c] \in {"writeInfo", "putKey", "sendKey", "awaitKey"}
        PROVE  cid'[c] # DEFAULT_ID
    <2>1. ASSUME NEW q \in Proc, LoadStoredCredentials(q)  PROVE cid'[c] # DEFAULT_ID
      BY <1>3, <2>1, LoadEffect DEF Elsewhere
    <2>2. ASSUME NEW q \in Proc, ReceiveRegisterResponse(q)  PROVE cid'[c] # DEFAULT_ID
      BY <1>3, <2>2, RegisterEffect DEF Elsewhere
    <2>3. ASSUME NEW q \in Proc, WriteMeInfo(q) \/ PutKeyInFiles(q)  PROVE cid'[c] # DEFAULT_ID
      BY <1>3, <2>3, WriteEffect, PutKeyEffect DEF Elsewhere
    <2>4. CASE ~Registers
      BY <1>3, <2>4, OtherSteps DEF Forward
    <2>5. QED  BY <2>1, <2>2, <2>3, <2>4 DEF Registers
  <1>4. ASSUME NEW c \in Proc, req'[c] # NULL, req'[c].code = SEND_KEY_REQUEST_CODE
        PROVE  req'[c].id # DEFAULT_ID
    BY <1>4, ReqStep, Codes DEF SendPublicKey
  <1>5. QED  BY <1>1, <1>2, <1>3, <1>4
-----------------------------------------------------------------------------
\* No other process of the directory of c has ever connected.
Solo(c) == \A d \in Proc \ {c} : DirOf[d] = DirOf[c] => conn[d] = "none"

\* The responses that carry an AES key.
KeyCodes == {LOGIN_SUCCESS_CODE, RECEIVED_KEY_SUCCESS_CODE}

\* The AES keys c was sent, or uses, are the one the server keeps for its id.
Current(c) ==
    /\ \A n \in 1..Len(resp[c]) : resp[c][n].code \in KeyCodes
                                    => resp[c][n].aes = get_aes_key(clients, cid[c])
    /\ pc[c] = "ready" => aes[c] = get_aes_key(clients, cid[c])

KeysAreCurrent == \A c \in Proc : Solo(c) => Current(c)

SessionInv ==
    /\ TypeOK /\ Conversation
    /\ KnownInOneDir /\ DefaultIdHasNoRow
    /\ KeysAreCurrent

LEMMA SoloStep ==
    ASSUME TypeOK, [Next]_vars, NEW c \in Proc, Solo(c)'
    PROVE  Solo(c)
  <1> SUFFICES ASSUME NEW d \in Proc, conn[d] # "none"
               PROVE  conn'[d] # "none"
    BY DEF Solo
  <1>1. ASSUME NEW q \in Proc, Start(q) \/ ClientStep(q) \/ Crash(q) \/ ServerStep(q), q # d
        PROVE  conn'[d] # "none"
    BY <1>1, NotInvolved
  <1>2. CASE Start(d) \/ ClientStep(d) \/ Crash(d)
    BY <1>2 DEF ClientStep, Start, LoadStoredCredentials, SendLogin, ReceiveLoginResponse,
                SendRegister, ReceiveRegisterResponse, WriteMeInfo, PutKeyInFiles,
                SendPublicKey, ReceiveAesKey, LoseConnection, Finish, Crash, TypeOK
  <1>3. CASE ServerStep(d)
    BY <1>3 DEF ServerStep, HandleRegister, HandleLogin, HandleSendKey, FailRequest,
                Disconnect, ReadName, Close, TypeOK
  <1>4. CASE ServerDown
    BY <1>4 DEF ServerDown, TypeOK
  <1>5. CASE UNCHANGED conn
    BY <1>5
  <1>6. QED
    BY <1>1, <1>2, <1>3, <1>4, <1>5
       DEF Next, CrashInSendKey, ServerCrash, ServerRestart, Idle, vars

\* The id in a request of another directory, or of none, is not the one of c.
LEMMA OtherId ==
    ASSUME SessionInv, NEW c \in Proc, Solo(c), NEW q \in Proc \ {c}, conn[q] # "none",
           cid[q] # DEFAULT_ID
    PROVE  cid[q] # cid[c]
  <1>1. DirOf[c] \in Dir /\ DirOf[q] \in Dir /\ cid[c] \in ID
    BY ConstantsOK DEF SessionInv, TypeOK
  <1>2. DirOf[q] # DirOf[c]
    BY DEF Solo
  <1>3. Knows(DirOf[c], cid[c]) /\ Knows(DirOf[q], cid[q])
    BY DEF Knows
  <1>4. QED  BY <1>1, <1>2, <1>3 DEF SessionInv, KnownInOneDir

\* Only the server's answers to c itself change the AES key of its id.
LEMMA AesKeyKept ==
    ASSUME SessionInv, [Next]_vars, NEW c \in Proc, Solo(c),
           ~HandleLogin(c), ~HandleSendKey(c)
    PROVE  get_aes_key(clients', cid[c]) = get_aes_key(clients, cid[c])
  <1> DEFINE i == cid[c]
             Goal == get_aes_key(clients', i) = get_aes_key(clients, i)
  <1> USE DEF SessionInv
  <1>0. /\ clients \in [ID -> ClientRow(Proc) \cup {NULL}]
        /\ NULL \notin ClientRow(Proc) /\ i \in ID
    BY ConstantsOK DEF TypeOK
  <1>1. CASE UNCHANGED clients
    BY <1>1
  <1>2. ASSUME NEW q \in Proc, HandleRegister(q), NEW id \in ID, FreshId(id),
               clients' = insert_into_clients(clients, id)
        PROVE  Goal
    <2>1. i # id
      <3>1. Knows(DirOf[c], i) /\ DirOf[c] \in Dir
        BY ConstantsOK DEF Knows
      <3>2. i # DEFAULT_ID => clients[i] # NULL
        BY <1>0, <3>1 DEF KnownInOneDir
      <3>3. QED  BY <1>2, <3>2 DEF FreshId
    <2>2. QED  BY <1>0, <1>2, <2>1, Insert
  <1>3. ASSUME NEW q \in Proc, HandleLogin(q), CanLogin(req[q].id),
               clients' = update_aes_key(clients, req[q].id, NewAesKey(req[q].id))
        PROVE  Goal
    <2>1. /\ req[q].id \in ID /\ q # c /\ conn[q] = "open" /\ req[q].id = cid[q]
      BY <1>3, ServeType, ServeTurn DEF HandleLogin, Request
    <2>2. cid[q] # DEFAULT_ID
      BY <1>3, <2>1 DEF CanLogin, get_public_key, DefaultIdHasNoRow
    <2>3. req[q].id # i /\ NewAesKey(req[q].id) \in Nat
      BY <2>1, <2>2, OtherId, NewAesKeyType
    <2>4. QED  BY <1>0, <1>3, <2>1, <2>3, UpdateAesKey
  <1>4. ASSUME NEW q \in Proc, HandleSendKey(q)  PROVE Goal
    <2>1. /\ req[q].id \in ID /\ req[q].key \in Proc \cup {NULL} /\ q # c
          /\ conn[q] = "open" /\ req[q].id = cid[q]
          /\ req[q] # NULL /\ req[q].code = SEND_KEY_REQUEST_CODE
      BY <1>4, ServeType, ServeTurn DEF HandleSendKey, Request, Serve, Requested
    <2>2. req[q].id # i
      BY <2>1, OtherId DEF DefaultIdHasNoRow
    <2>3. QED
      BY <1>0, <1>4, <2>1, <2>2, SendKeyCommitsEffect DEF HandleSendKey
  <1>5. ASSUME NEW q \in Proc, CrashInSendKey(q)  PROVE Goal
    <2>1. req[q].id \in ID /\ req[q].key \in Proc \cup {NULL}
      BY <1>5 DEF CrashInSendKey, Requested, TypeOK, Request
    <2>2. QED  BY <1>0, <1>5, <2>1, SendKeyCommitsEffect DEF CrashInSendKey
  <1>6. QED
    BY <1>1, <1>2, <1>3, <1>4, <1>5
       DEF Next, ClientStep, ServerStep, Start, LoadStoredCredentials, SendLogin,
           ReceiveLoginResponse, SendRegister, ReceiveRegisterResponse, WriteMeInfo,
           PutKeyInFiles, SendPublicKey, ReceiveAesKey, LoseConnection, Finish, Crash,
           HandleRegister, HandleLogin, FailRequest, Disconnect, ServerCrash,
           ServerRestart, Idle, vars

\* The answers to c that carry an AES key carry the one just stored.
LEMMA KeyAnswered ==
    ASSUME SessionInv, NEW c \in Proc, HandleLogin(c) \/ HandleSendKey(c)
    PROVE  Current(c)'
  <1> USE DEF SessionInv
  <1>0. /\ clients \in [ID -> ClientRow(Proc) \cup {NULL}]
        /\ NULL \notin ClientRow(Proc) /\ cid[c] \in ID /\ UNCHANGED <<pc, cid>>
    BY ConstantsOK DEF TypeOK, HandleLogin, HandleSendKey, clientVars
  <1>1. PICK code, m : Serve(c, code) /\ Respond(c, m)
    BY DEF HandleLogin, HandleSendKey
  <1>2. resp[c] = <<>> /\ Talking(c) /\ req[c].id = cid[c]
    BY <1>1, ServeTurn
  <1>3. \A n \in 1..Len(resp'[c]) : n = 1
    <2>1. Len(resp'[c]) = 1
      BY <1>1, <1>2, RespondTurn
    <2>2. QED  BY <2>1
  <1>4. CASE HandleLogin(c) /\ Respond(c, Bare(LOGIN_FAIL_CODE))
    <2>1. resp'[c][1].code = LOGIN_FAIL_CODE
      BY <1>2, <1>4, RespondTurn DEF Bare
    <2>2. LOGIN_FAIL_CODE \notin KeyCodes
      BY DEF KeyCodes, LOGIN_FAIL_CODE, LOGIN_SUCCESS_CODE, RECEIVED_KEY_SUCCESS_CODE
    <2>3. pc'[c] # "ready"
      BY <1>0, <1>2 DEF Talking, Awaiting, Over
    <2>4. QED  BY <1>3, <2>1, <2>2, <2>3 DEF Current
  <1>5. ASSUME resp'[c][1].aes = get_aes_key(clients', cid[c])  PROVE Current(c)'
    <2>1. pc'[c] # "ready"
      BY <1>0, <1>2 DEF Talking, Awaiting, Over
    <2>2. QED  BY <1>0, <1>3, <1>5, <2>1 DEF Current
  <1>6. NewAesKey(cid[c]) \in Nat
    BY <1>0, NewAesKeyType
  <1>7. CASE /\ HandleLogin(c) /\ CanLogin(cid[c])
             /\ clients' = update_aes_key(clients, cid[c], NewAesKey(cid[c]))
             /\ Respond(c, Encrypted(LOGIN_SUCCESS_CODE, cid[c],
                           get_public_key(clients, cid[c]), NewAesKey(cid[c])))
    <2>1. clients[cid[c]] # NULL
      BY <1>7 DEF CanLogin, get_public_key
    <2>2. get_aes_key(clients', cid[c]) = NewAesKey(cid[c])
      BY <1>0, <1>6, <1>7, <2>1, UpdateAesKey
    <2>3. resp'[c][1].aes = NewAesKey(cid[c])
      BY <1>2, <1>7, RespondTurn DEF Encrypted
    <2>4. QED  BY <1>5, <2>2, <2>3
  <1>8. CASE HandleSendKey(c)
    <2>1. /\ req[c].key \in Proc \cup {NULL}
          /\ req[c] # NULL /\ req[c].code = SEND_KEY_REQUEST_CODE
      BY <1>8, ServeType DEF HandleSendKey, Request, Serve, Requested
    <2>2. clients[cid[c]] # NULL
      <3>1. Knows(DirOf[c], cid[c]) /\ DirOf[c] \in Dir
        BY ConstantsOK DEF Knows
      <3>2. cid[c] # DEFAULT_ID
        BY <1>2, <2>1 DEF DefaultIdHasNoRow
      <3>3. QED  BY <1>0, <3>1, <3>2 DEF KnownInOneDir
    <2>3. get_aes_key(clients', cid[c]) = NewAesKey(cid[c])
      BY <1>0, <1>2, <1>8, <2>1, <2>2, SendKeyCommitsEffect DEF HandleSendKey
    <2>4. resp'[c][1].aes = NewAesKey(cid[c])
      BY <1>2, <1>8, RespondTurn DEF Encrypted, HandleSendKey
    <2>5. QED  BY <1>5, <2>3, <2>4
  <1>9. QED  BY <1>2, <1>4, <1>7, <1>8 DEF HandleLogin

LEMMA CurrentStep ==
    ASSUME SessionInv, [Next]_vars
    PROVE  KeysAreCurrent'
  <1> USE DEF SessionInv
  <1> SUFFICES ASSUME NEW c \in Proc, Solo(c), Current(c)
               PROVE  Current(c)'
    BY SoloStep DEF KeysAreCurrent
  <1>1. CASE HandleLogin(c) \/ HandleSendKey(c)
    BY <1>1, KeyAnswered
  <1>2. CASE ~(HandleLogin(c) \/ HandleSendKey(c))
    <2>0. get_aes_key(clients', cid[c]) = get_aes_key(clients, cid[c])
      BY <1>2, AesKeyKept
    <2>1. ASSUME resp'[c] = resp[c], cid'[c] = cid[c],
                 pc'[c] = "ready" => pc[c] = "ready", aes'[c] = aes[c]
          PROVE  Current(c)'
      BY <2>0, <2>1 DEF Current
    <2>2. ASSUME \A n \in 1..Len(resp'[c]) : resp'[c][n].code = GENERAL_FAIL_CODE,
                 pc'[c] = "ready" => aes'[c] = get_aes_key(clients', cid'[c])
          PROVE  Current(c)'
      BY <2>2 DEF Current, KeyCodes, GENERAL_FAIL_CODE, LOGIN_SUCCESS_CODE,
                  RECEIVED_KEY_SUCCESS_CODE
    <2>3. CASE LoadStoredCredentials(c)
      <3>1. pc[c] = "load" /\ pc'[c] # "ready" /\ resp' = resp
        BY <2>3, LoadEffect
      <3>2. \A n \in 1..Len(resp[c]) : resp[c][n].code = GENERAL_FAIL_CODE
        BY <3>1 DEF Conversation, Turn, Talking, Awaiting, Over
      <3>3. QED  BY <2>2, <3>1, <3>2
    <2>4. CASE ReceiveRegisterResponse(c)
      <3>1. pc'[c] # "ready" /\ Receive(c)
        BY <2>4, RegisterEffect DEF ReceiveRegisterResponse
      <3>2. QED  BY <2>2, <3>1, TakeResponse
    <2>5. CASE ReceiveLoginResponse(c) \/ ReceiveAesKey(c)
      <3>1. Receive(c) /\ UNCHANGED cid /\ resp[c] \in Seq(Response) /\ resp[c] # <<>>
        BY <2>5 DEF ReceiveLoginResponse, ReceiveAesKey, Receive, TypeOK
      <3>2. pc'[c] = "ready" => /\ Head(resp[c]).code \in KeyCodes
                                /\ aes'[c] = Head(resp[c]).aes
        BY <2>5 DEF ReceiveLoginResponse, ReceiveAesKey, Goto, TypeOK, KeyCodes
      <3>3. 1 \in 1..Len(resp[c]) /\ Head(resp[c]) = resp[c][1]
        BY <3>1
      <3>4. pc'[c] = "ready" => aes'[c] = get_aes_key(clients', cid'[c])
        BY <2>0, <3>1, <3>2, <3>3 DEF Current
      <3>5. QED  BY <2>2, <3>1, <3>4, TakeResponse
    <2>6. CASE Start(c) \/ SendLogin(c) \/ SendRegister(c) \/ SendPublicKey(c)
               \/ WriteMeInfo(c) \/ PutKeyInFiles(c) \/ LoseConnection(c) \/ Finish(c)
               \/ Crash(c)
      BY <2>1, <2>6 DEF Start, SendLogin, SendRegister, SendPublicKey, WriteMeInfo,
         PutKeyInFiles, LoseConnection, Finish, Crash, Goto, TypeOK, clientVars
    <2>7. CASE HandleRegister(c) \/ FailRequest(c) \/ Disconnect(c)
      <3>1. UNCHANGED <<pc, cid, aes>>
        BY <2>7 DEF HandleRegister, FailRequest, Disconnect, clientVars
      <3>2. CASE resp'[c] = resp[c]
        BY <2>1, <3>1, <3>2
      <3>3. ASSUME NEW m, Respond(c, m), m.code \notin KeyCodes  PROVE Current(c)'
        <4> DEFINE s == resp[c]
                   t == resp'[c]
        <4>1. s \in Seq(Response) /\ t = Append(s, m)
          BY <3>3 DEF Respond, TypeOK
        <4> HIDE DEF s, t
        <4>2. \A n \in 1..Len(t) : t[n].code \in KeyCodes => n \in 1..Len(s) /\ t[n] = s[n]
          BY <3>3, <4>1
        <4>3. QED  BY <2>0, <3>1, <4>2 DEF Current, s, t
      <3>4. CASE HandleRegister(c)
        <4>1. REGISTER_FAILED_CODE \notin KeyCodes /\ REGISTER_SUCCESS_CODE \notin KeyCodes
          BY DEF KeyCodes, REGISTER_FAILED_CODE, REGISTER_SUCCESS_CODE, LOGIN_SUCCESS_CODE,
                 RECEIVED_KEY_SUCCESS_CODE
        <4>2. Bare(REGISTER_FAILED_CODE).code = REGISTER_FAILED_CODE
          BY DEF Bare
        <4>3. \A id : [Bare(REGISTER_SUCCESS_CODE) EXCEPT !.id = id].code = REGISTER_SUCCESS_CODE
          BY DEF Bare
        <4>4. QED  BY <3>3, <3>4, <4>1, <4>2, <4>3 DEF HandleRegister
      <3>5. CASE FailRequest(c)
        <4>1. Bare(GENERAL_FAIL_CODE).code \notin KeyCodes
          BY DEF Bare, KeyCodes, GENERAL_FAIL_CODE, LOGIN_SUCCESS_CODE,
                 RECEIVED_KEY_SUCCESS_CODE
        <4>2. QED  BY <3>2, <3>3, <3>5, <4>1 DEF FailRequest
      <3>6. CASE Disconnect(c)
        BY <3>2, <3>6 DEF Disconnect
      <3>7. QED  BY <2>7, <3>4, <3>5, <3>6
    <2>8. ASSUME NEW q \in Proc \ {c}, Start(q) \/ ClientStep(q) \/ Crash(q) \/ ServerStep(q)
          PROVE  Current(c)'
      BY <2>1, <2>8, NotInvolved
    <2>9. CASE UNCHANGED <<resp, pc, cid, aes>>
      BY <2>1, <2>9
    <2>10. QED
      BY <1>2, <2>3, <2>4, <2>5, <2>6, <2>7, <2>8, <2>9
         DEF Next, ClientStep, ServerStep, CrashInSendKey, ServerCrash, ServerRestart,
             Idle, vars, clientVars
  <1>3. QED  BY <1>1, <1>2

LEMMA SessionInvInit == Init => SessionInv
  <1> SUFFICES ASSUME Init  PROVE SessionInv
    OBVIOUS
  <1>1. TypeOK
    BY InitType
  <1>2. \A c \in Proc : /\ pc[c] = "off" /\ resp[c] = <<>> /\ conn[c] = "none"
                        /\ req[c] = NULL /\ cid[c] = DEFAULT_ID
    BY DEF Init
  <1>3. Conversation
    BY <1>2 DEF Conversation, Turn, Connected
  <1>4. \A c \in Proc, i \in ID : ~Offered(c, i)
    BY <1>2 DEF Offered
  <1>5. \A d \in Dir : meInfo[d].id \notin ID
    BY ConstantsOK DEF Init, EmptyInfo
  <1>6. KnownInOneDir
    BY <1>2, <1>4, <1>5 DEF KnownInOneDir, Knows
  <1>7. DefaultIdHasNoRow
    BY <1>2, <1>4, ConstantsOK DEF DefaultIdHasNoRow, Init
  <1>8. KeysAreCurrent
    BY <1>2 DEF KeysAreCurrent, Current
  <1>9. QED  BY <1>1, <1>3, <1>6, <1>7, <1>8 DEF SessionInv

LEMMA SessionInvariant == Spec => []SessionInv
  <1>1. SessionInv /\ [Next]_vars => SessionInv'
    BY TypeStep, ConversationStep, KnownStep, DefaultIdStep, CurrentStep DEF SessionInv
  <1>2. QED  BY SessionInvInit, <1>1, PTL DEF Spec

\* The AES key of a session is the one the server keeps for its client unless
\* another process of the same directory has connected, whatever crashes and
\* however many processes of a directory overlap.
THEOREM OnlySiblingDisplacesKeyHolds == Spec => []OnlySiblingDisplacesKey
  <1>1. SessionInv => OnlySiblingDisplacesKey
    BY DEF SessionInv, KeysAreCurrent, Current, Solo, OnlySiblingDisplacesKey
  <1>2. QED  BY SessionInvariant, <1>1, PTL

-----------------------------------------------------------------------------
(***************************************************************************)
(* That the private key a directory stores opens the login of its id, that *)
(* a login the server accepts yields the AES key, and that a process is    *)
(* refused registration only where it can log in, in an environment that   *)
(* runs one process of a directory at a time, whatever crashes.            *)
(*                                                                         *)
(* The inductive invariant is KeyInv.  A process whose private key is its  *)
(* own, Owner(k), has stored that key in me.info and keeps its id for      *)
(* good.  An id is Pending for a process from the moment the server draws  *)
(* it until the key of the process is in me.info; it is then known to      *)
(* nobody else.                                                            *)
(***************************************************************************)

Owner(k) == rsa[k] = k

Holds(c, i) == /\ pc[c] \in {"writeInfo", "putKey"}
               /\ cid[c] = i

Pending(c, i) == Holds(c, i) \/ Offered(c, i)

\* Start waits for the other processes of the directory.
Alone ==
    \A c, d \in Proc : c # d /\ DirOf[c] = DirOf[d]
                         => ~(pc[c] \in Running /\ pc[d] \in Running)

\* Where a process stands, and whether it has its own key yet.
EarlyHasNoKey == \A c \in Proc :
    pc[c] \in {"off", "load", "login", "awaitLogin", "register", "awaitRegister",
               "writeInfo", "putKey"} => ~Owner(c)
SendersHaveKey == \A c \in Proc : pc[c] \in {"sendKey", "awaitKey"} => Owner(c)

\* Who knows an id: never before the server made its row.
KnownIdsHaveRows ==
    /\ \A d \in Dir : meInfo[d].id # NULL => clients[meInfo[d].id] # NULL
    /\ \A c \in Proc : cid[c] # DEFAULT_ID => clients[cid[c]] # NULL
    /\ \A k \in Proc : Owner(k) => clients[cid[k]] # NULL

PendingIsPrivate == \A c \in Proc, i \in ID : Pending(c, i) =>
    /\ i # DEFAULT_ID
    /\ clients[i] # NULL
    /\ \A k \in Proc : Owner(k) => cid[k] # i
    /\ \A d \in Dir : meInfo[d].id = i => d = DirOf[c] /\ ~Offered(c, i)
    /\ \A q \in Proc \ {c} : cid[q] # i /\ ~Pending(q, i)

\* An id is offered once, and not again to the process that took it.
OfferedOnce == \A c \in Proc, i \in ID :
    /\ Holds(c, i) => ~Offered(c, i)
    /\ \A n, o \in 1..Len(resp[c]) :
         /\ resp[c][n].code = REGISTER_SUCCESS_CODE /\ resp[c][n].id = i
         /\ resp[c][o].code = REGISTER_SUCCESS_CODE /\ resp[c][o].id = i
         => n = o

\* me.info during the registration of its directory.
InfoWhileRegistering == \A c \in Proc :
    LET info == meInfo[DirOf[c]] IN
    /\ pc[c] = "writeInfo" => info.keys = <<>>
    /\ pc[c] = "putKey" => info.keys = <<>> /\ info.id = cid[c]

\* The keys: in me.info, in memory, in flight and in the table.
StoredKeysAreOwned == \A d \in Dir : meInfo[d].keys # <<>> => Owner(Head(meInfo[d].keys))

OwnersAreStored == \A k \in Proc, d \in Dir :
    Owner(k) /\ meInfo[d].id = cid[k]
      => meInfo[d].keys # <<>> /\ Head(meInfo[d].keys) = k

OneKeyPerId == \A k, c \in Proc : Owner(k) /\ cid[c] = cid[k] => rsa[c] = k

SentKeysAreOwned == \A c \in Proc :
    req[c] # NULL /\ req[c].code = SEND_KEY_REQUEST_CODE
      => req[c].key = c /\ Owner(c) /\ req[c].id = cid[c]

PublicKeysAreOwned == \A i \in ID :
    LET k == get_public_key(clients, i) IN k # NULL => Owner(k) /\ cid[k] = i

\* A login under way.
LoginInFlight == \A c \in Proc :
    /\ pc[c] \in {"off", "load"} =>
         /\ req[c] = NULL
         /\ \A n \in 1..Len(resp[c]) : resp[c][n].code # LOGIN_SUCCESS_CODE
    /\ pc[c] \in {"login", "awaitLogin"} =>
         /\ req[c] # NULL /\ req[c].code = LOGIN_REQUEST_CODE => req[c].id = cid[c]
         /\ \A n \in 1..Len(resp[c]) : resp[c][n].code = LOGIN_SUCCESS_CODE
                                         => Decrypts(c, resp[c][n])

KeyInv ==
    /\ TypeOK /\ Alone
    /\ EarlyHasNoKey /\ SendersHaveKey
    /\ KnownIdsHaveRows /\ PendingIsPrivate /\ OfferedOnce /\ InfoWhileRegistering
    /\ StoredKeysAreOwned /\ OwnersAreStored /\ OneKeyPerId
    /\ SentKeysAreOwned /\ PublicKeysAreOwned /\ LoginInFlight
-----------------------------------------------------------------------------
(* One lemma for each part of KeyInv.                                        *)

LEMMA AloneStep ==
    ASSUME KeyInv, ~MayOverlap, [Next]_vars
    PROVE  Alone'
  <1> USE DEF KeyInv
  <1>1. CASE Registers
    <2>1. \A c \in Proc : pc'[c] \in Running => pc[c] \in Running
      BY <1>1, LoadEffect, RegisterEffect, WriteEffect, PutKeyEffect
         DEF Registers, Elsewhere, Running, Awaiting
    <2>2. QED  BY <2>1 DEF Alone
  <1>2. CASE ~Registers
    <2>1. \A c \in Proc : pc'[c] \in Running => pc[c] \in Running \/ Start(c)
      BY <1>2, OtherSteps DEF Forward, Running, Awaiting
    <2>2. ASSUME NEW c \in Proc, NEW d \in Proc, c # d, DirOf[c] = DirOf[d], Start(c),
                 pc'[d] \in Running
          PROVE  FALSE
      <3>1. pc[d] \notin Running /\ pc'[d] = pc[d]
        BY <2>2 DEF Start, Goto, TypeOK
      <3>2. QED  BY <2>2, <3>1
    <2>3. QED  BY <2>1, <2>2 DEF Alone
  <1>3. QED  BY <1>1, <1>2

LEMMA EarlyStep ==
    ASSUME KeyInv, [Next]_vars
    PROVE  EarlyHasNoKey' /\ SendersHaveKey'
  <1> USE DEF KeyInv, EarlyHasNoKey, SendersHaveKey, Owner
  <1>1. ASSUME NEW c \in Proc, LoadStoredCredentials(c)
        PROVE  EarlyHasNoKey' /\ SendersHaveKey'
    <2>1. rsa'[c] # c
      BY <1>1, LoadEffect, ConstantsOK DEF StoredKeysAreOwned
    <2>2. QED  BY <1>1, <2>1, LoadEffect DEF Elsewhere
  <1>2. ASSUME NEW c \in Proc, ReceiveRegisterResponse(c) \/ WriteMeInfo(c)
        PROVE  EarlyHasNoKey' /\ SendersHaveKey'
    BY <1>2, RegisterEffect, WriteEffect DEF Elsewhere
  <1>3. ASSUME NEW c \in Proc, PutKeyInFiles(c)
        PROVE  EarlyHasNoKey' /\ SendersHaveKey'
    BY <1>3, PutKeyEffect DEF Elsewhere
  <1>4. CASE ~Registers
    BY <1>4, OtherSteps DEF Forward
  <1>5. QED  BY <1>1, <1>2, <1>3, <1>4 DEF Registers

LEMMA PendingStep ==
    ASSUME TypeOK, [Next]_vars, NEW c \in Proc, NEW i \in ID, Pending(c, i)'
    PROVE  Pending(c, i) \/ Drawn(c, i)
  <1>1. CASE Holds(c, i)'
    <2>1. CASE Registers
      BY <1>1, <2>1, LoadEffect, RegisterEffect, WriteEffect, PutKeyEffect
         DEF Registers, Elsewhere, Holds, Pending
    <2>2. CASE ~Registers
      BY <1>1, <2>2, OtherSteps DEF Forward, Holds, Pending
    <2>3. QED  BY <2>1, <2>2
  <1>2. QED  BY <1>1, OfferedStep DEF Pending

LEMMA KnownIdsStep ==
    ASSUME KeyInv, [Next]_vars
    PROVE  KnownIdsHaveRows'
  <1> USE DEF KeyInv, KnownIdsHaveRows
  <1>1. /\ \A c \in Proc : DirOf[c] \in Dir /\ cid[c] \in ID
        /\ \A d \in Dir : meInfo[d].id \in ID \cup {NULL}
    BY ConstantsOK DEF TypeOK, MeInfo
  <1>2. ASSUME NEW c \in Proc, LoadStoredCredentials(c)  PROVE KnownIdsHaveRows'
    <2>1. ~Owner(c)'
      BY <1>2, EarlyStep, LoadEffect DEF EarlyHasNoKey
    <2>2. QED  BY <1>1, <1>2, <2>1, LoadEffect DEF Elsewhere, Owner
  <1>3. ASSUME NEW c \in Proc, ReceiveRegisterResponse(c)  PROVE KnownIdsHaveRows'
    <2>1. ~Owner(c)
      BY <1>3, RegisterEffect DEF EarlyHasNoKey
    <2>2. cid'[c] = cid[c] \/ clients[cid'[c]] # NULL
      BY <1>3, RegisterEffect DEF PendingIsPrivate, Pending
    <2>3. \A d \in Dir : meInfo'[d].id = meInfo[d].id \/ meInfo'[d].id = NULL
      <3>1. \A d \in Dir : meInfo'[d] = meInfo[d] \/ meInfo'[d] = EmptyInfo
        BY <1>3, RegisterEffect DEF TypeOK
      <3>2. EmptyInfo.id = NULL
        BY DEF EmptyInfo
      <3>3. QED  BY <3>1, <3>2
    <2>4. QED  BY <1>1, <1>3, <2>1, <2>2, <2>3, RegisterEffect DEF Elsewhere, Owner
  <1>4. ASSUME NEW c \in Proc, WriteMeInfo(c)  PROVE KnownIdsHaveRows'
    <2>1. Pending(c, cid[c])
      BY <1>4, WriteEffect DEF Pending, Holds
    <2>2. clients[cid[c]] # NULL
      BY <1>1, <2>1 DEF PendingIsPrivate
    <2>3. QED  BY <1>1, <1>4, <2>2, WriteEffect DEF Owner
  <1>5. ASSUME NEW c \in Proc, PutKeyInFiles(c)  PROVE KnownIdsHaveRows'
    <2>1. Pending(c, cid[c])
      BY <1>5, PutKeyEffect DEF Pending, Holds
    <2>2. clients[cid[c]] # NULL
      BY <1>1, <2>1 DEF PendingIsPrivate
    <2>3. \A d \in Dir : meInfo'[d].id = meInfo[d].id
      BY <1>1, <1>5, PutKeyEffect
    <2>4. QED  BY <1>1, <1>5, <2>2, <2>3, PutKeyEffect DEF Owner, Elsewhere
  <1>6. CASE ~Registers
    <2>1. UNCHANGED <<meInfo, cid, rsa>>
      BY <1>6, OtherSteps
    <2>2. \A i \in ID : clients[i] # NULL => clients'[i] # NULL
      BY RowsStay
    <2>3. QED  BY <1>1, <2>1, <2>2 DEF Owner
  <1>7. QED  BY <1>2, <1>3, <1>4, <1>5, <1>6 DEF Registers

LEMMA InfoStep ==
    ASSUME KeyInv, ~MayOverlap, [Next]_vars
    PROVE  InfoWhileRegistering'
  <1> USE DEF KeyInv, InfoWhileRegistering
  <1>1. ASSUME NEW c \in Proc, pc[c] \in Running, NEW q \in Proc \ {c},
               pc[q] \in {"writeInfo", "putKey"}
        PROVE  DirOf[q] # DirOf[c]
    BY <1>1 DEF Alone, Running
  <1>2. ASSUME NEW c \in Proc, LoadStoredCredentials(c)  PROVE InfoWhileRegistering'
    BY <1>2, LoadEffect DEF Elsewhere
  <1>3. ASSUME NEW c \in Proc, ReceiveRegisterResponse(c)  PROVE InfoWhileRegistering'
    <2>1. pc[c] \in Running
      BY <1>3, RegisterEffect DEF Running, Awaiting
    <2>0. /\ \A q \in Proc : DirOf[q] \in Dir
          /\ \/ UNCHANGED meInfo /\ pc'[c] # "writeInfo"
             \/ /\ \A d \in Dir \ {DirOf[c]} : meInfo'[d] = meInfo[d]
                /\ meInfo'[DirOf[c]] = EmptyInfo
      <3>1. \A q \in Proc : DirOf[q] \in Dir
        BY ConstantsOK
      <3>2. CASE UNCHANGED <<cid, meInfo>> /\ pc'[c] \in {"register", "failed"}
        BY <3>1, <3>2
      <3>3. CASE meInfo' = [meInfo EXCEPT ![DirOf[c]] = EmptyInfo]
        BY <3>1, <3>3 DEF TypeOK
      <3>4. QED  BY <1>3, <3>2, <3>3, RegisterEffect
    <2>2. \A q \in Proc \ {c} : pc'[q] \in {"writeInfo", "putKey"}
                                 => meInfo'[DirOf[q]] = meInfo[DirOf[q]]
      <3>1. ASSUME NEW q \in Proc \ {c}, pc'[q] \in {"writeInfo", "putKey"}
            PROVE  DirOf[q] \in Dir \ {DirOf[c]}
        BY <1>1, <1>3, <2>0, <2>1, <3>1, RegisterEffect DEF Elsewhere
      <3>2. QED  BY <2>0, <3>1
    <2>3. pc'[c] = "writeInfo" => meInfo'[DirOf[c]].keys = <<>>
      BY <2>0 DEF EmptyInfo
    <2>4. pc'[c] # "putKey"
      BY <1>3, RegisterEffect
    <2>5. QED  BY <1>3, <2>2, <2>3, <2>4, RegisterEffect DEF Elsewhere
  <1>4. ASSUME NEW c \in Proc, WriteMeInfo(c)  PROVE InfoWhileRegistering'
    <2>1. pc[c] \in Running
      BY <1>4, WriteEffect DEF Running
    <2>2. \A q \in Proc \ {c} : pc'[q] \in {"writeInfo", "putKey"}
                                 => meInfo'[DirOf[q]] = meInfo[DirOf[q]]
      BY <1>1, <1>4, <2>1, WriteEffect, ConstantsOK DEF Elsewhere
    <2>3. QED  BY <1>4, <2>2, WriteEffect DEF Elsewhere
  <1>5. ASSUME NEW c \in Proc, PutKeyInFiles(c)  PROVE InfoWhileRegistering'
    <2>1. pc[c] \in Running
      BY <1>5, PutKeyEffect DEF Running
    <2>2. \A q \in Proc \ {c} : pc'[q] \in {"writeInfo", "putKey"}
                                 => meInfo'[DirOf[q]] = meInfo[DirOf[q]]
      BY <1>1, <1>5, <2>1, PutKeyEffect, ConstantsOK DEF Elsewhere
    <2>3. QED  BY <1>5, <2>2, PutKeyEffect DEF Elsewhere
  <1>6. CASE ~Registers
    <2>1. UNCHANGED <<meInfo, cid>>
          /\ \A q \in Proc : pc'[q] \in {"writeInfo", "putKey"} => pc'[q] = pc[q]
      BY <1>6, OtherSteps DEF Forward
    <2>2. QED  BY <2>1
  <1>7. QED  BY <1>2, <1>3, <1>4, <1>5, <1>6 DEF Registers

LEMMA StoredKeysStep ==
    ASSUME KeyInv, [Next]_vars
    PROVE  StoredKeysAreOwned' /\ OwnersAreStored'
  <1> USE DEF KeyInv, StoredKeysAreOwned, OwnersAreStored
  <1>1. /\ \A c \in Proc : DirOf[c] \in Dir /\ cid[c] \in ID
        /\ \A d \in Dir : meInfo[d].id \in ID \cup {NULL} /\ meInfo[d].keys \in Seq(Proc)
    BY ConstantsOK DEF TypeOK, MeInfo
  <1>2. ASSUME NEW c \in Proc, LoadStoredCredentials(c)
        PROVE  StoredKeysAreOwned' /\ OwnersAreStored'
    <2>1. ~Owner(c) /\ ~Owner(c)'
      BY <1>2, EarlyStep, LoadEffect DEF EarlyHasNoKey
    <2>2. \A k \in Proc : Owner(k)' = Owner(k) /\ (Owner(k) => cid'[k] = cid[k])
      BY <1>2, <2>1, LoadEffect DEF Elsewhere, Owner
    <2>3. QED  BY <1>1, <1>2, <2>2, LoadEffect
  <1>3. ASSUME NEW c \in Proc, ReceiveRegisterResponse(c)
        PROVE  StoredKeysAreOwned' /\ OwnersAreStored'
    <2>1. ~Owner(c)
      BY <1>3, RegisterEffect DEF EarlyHasNoKey
    <2>2. \A k \in Proc : Owner(k)' = Owner(k) /\ (Owner(k) => cid'[k] = cid[k])
      BY <1>3, <2>1, RegisterEffect DEF Elsewhere, Owner
    <2>3. \A d \in Dir : meInfo'[d] = meInfo[d] \/ meInfo'[d] = EmptyInfo
      BY <1>3, RegisterEffect DEF TypeOK
    <2>4. \A k \in Proc : cid[k] # EmptyInfo.id /\ EmptyInfo.keys = <<>>
      BY <1>1, ConstantsOK DEF EmptyInfo
    <2>5. QED  BY <1>1, <2>2, <2>3, <2>4
  <1>4. ASSUME NEW c \in Proc, WriteMeInfo(c)
        PROVE  StoredKeysAreOwned' /\ OwnersAreStored'
    <2>1. Pending(c, cid[c])
      BY <1>4, WriteEffect DEF Pending, Holds
    <2>2. \A k \in Proc : Owner(k) => cid[k] # cid[c]
      BY <1>1, <2>1 DEF PendingIsPrivate
    <2>3. \A d \in Dir : meInfo'[d].keys = meInfo[d].keys
      BY <1>4, WriteEffect
    <2>4. QED  BY <1>1, <1>4, <2>2, <2>3, WriteEffect DEF Owner
  <1>5. ASSUME NEW c \in Proc, PutKeyInFiles(c)
        PROVE  StoredKeysAreOwned' /\ OwnersAreStored'
    <2>1. Pending(c, cid[c])
      BY <1>5, PutKeyEffect DEF Pending, Holds
    <2>2. /\ \A k \in Proc : Owner(k) => cid[k] # cid[c]
          /\ \A d \in Dir \ {DirOf[c]} : meInfo[d].id # cid[c]
      BY <1>1, <2>1 DEF PendingIsPrivate
    <2>3. meInfo[DirOf[c]].keys = <<>> /\ meInfo[DirOf[c]].id = cid[c]
      BY <1>5, PutKeyEffect DEF InfoWhileRegistering
    <2>4. meInfo'[DirOf[c]].keys # <<>> /\ Head(meInfo'[DirOf[c]].keys) = c
      BY <1>5, <2>3, PutKeyEffect
    <2>5. /\ Owner(c)' /\ \A k \in Proc \ {c} : Owner(k)' = Owner(k)
          /\ meInfo'[DirOf[c]].id = cid[c]
          /\ UNCHANGED cid
      BY <1>5, <2>3, PutKeyEffect DEF Owner, Elsewhere
    <2>6. \A d \in Dir \ {DirOf[c]} : meInfo'[d] = meInfo[d]
      BY <1>5, PutKeyEffect
    <2>7. ~Owner(c)
      BY <1>5, PutKeyEffect DEF EarlyHasNoKey
    <2>8. StoredKeysAreOwned'
      BY <1>1, <2>4, <2>5, <2>6, <2>7
    <2>9. OwnersAreStored'
      BY <1>1, <2>2, <2>4, <2>5, <2>6, <2>7
    <2>10. QED  BY <2>8, <2>9
  <1>6. CASE ~Registers
    BY <1>6, OtherSteps DEF Owner
  <1>7. QED  BY <1>2, <1>3, <1>4, <1>5, <1>6 DEF Registers

LEMMA OneKeyStep ==
    ASSUME KeyInv, [Next]_vars
    PROVE  OneKeyPerId'
  <1> USE DEF KeyInv, OneKeyPerId
  <1>1. /\ \A c \in Proc : DirOf[c] \in Dir /\ cid[c] \in ID
        /\ \A d \in Dir : meInfo[d].id \in ID \cup {NULL}
    BY ConstantsOK DEF TypeOK, MeInfo
  <1>2. ASSUME NEW c \in Proc, LoadStoredCredentials(c)  PROVE OneKeyPerId'
    <2>1. ~Owner(c) /\ ~Owner(c)'
      BY <1>2, EarlyStep, LoadEffect DEF EarlyHasNoKey
    <2>2. \A k \in Proc : Owner(k)' => k # c /\ Owner(k) /\ cid'[k] = cid[k]
      BY <1>2, <2>1, LoadEffect DEF Elsewhere, Owner
    <2>3. ASSUME NEW k \in Proc, Owner(k), k # c, cid'[c] = cid[k]
          PROVE  rsa'[c] = k
      BY <1>1, <1>2, <2>3, LoadEffect DEF OwnersAreStored
    <2>4. QED  BY <1>2, <2>2, <2>3, LoadEffect DEF Elsewhere
  <1>3. ASSUME NEW c \in Proc, ReceiveRegisterResponse(c)  PROVE OneKeyPerId'
    <2>1. ~Owner(c) /\ UNCHANGED rsa
      BY <1>3, RegisterEffect DEF EarlyHasNoKey
    <2>2. cid'[c] = cid[c] \/ \A k \in Proc : Owner(k) => cid[k] # cid'[c]
      BY <1>3, RegisterEffect DEF PendingIsPrivate, Pending
    <2>3. QED  BY <1>3, <2>1, <2>2, RegisterEffect DEF Elsewhere, Owner
  <1>4. ASSUME NEW c \in Proc, PutKeyInFiles(c)  PROVE OneKeyPerId'
    <2>1. Pending(c, cid[c])
      BY <1>4, PutKeyEffect DEF Pending, Holds
    <2>2. \A k \in Proc \ {c} : cid[k] # cid[c]
      BY <1>1, <2>1 DEF PendingIsPrivate
    <2>3. QED  BY <1>4, <2>2, PutKeyEffect DEF Elsewhere, Owner
  <1>5. ASSUME NEW c \in Proc, WriteMeInfo(c)  PROVE OneKeyPerId'
    BY <1>5, WriteEffect DEF Owner
  <1>6. CASE ~Registers
    BY <1>6, OtherSteps DEF Owner
  <1>7. QED  BY <1>2, <1>3, <1>4, <1>5, <1>6 DEF Registers

\* A process that has its own key keeps it, and its id, for good.
LEMMA OwnerStays ==
    ASSUME KeyInv, [Next]_vars, NEW k \in Proc, Owner(k)
    PROVE  Owner(k)' /\ cid'[k] = cid[k]
  <1> USE DEF KeyInv, Owner
  <1>1. ASSUME NEW c \in Proc, LoadStoredCredentials(c) \/ ReceiveRegisterResponse(c)
        PROVE  Owner(k)' /\ cid'[k] = cid[k]
    BY <1>1, LoadEffect, RegisterEffect DEF Elsewhere, EarlyHasNoKey
  <1>2. ASSUME NEW c \in Proc, WriteMeInfo(c) \/ PutKeyInFiles(c)
        PROVE  Owner(k)' /\ cid'[k] = cid[k]
    BY <1>2, WriteEffect, PutKeyEffect DEF Elsewhere
  <1>3. CASE ~Registers
    BY <1>3, OtherSteps
  <1>4. QED  BY <1>1, <1>2, <1>3 DEF Registers

LEMMA SentKeysStep ==
    ASSUME KeyInv, [Next]_vars
    PROVE  SentKeysAreOwned'
  <1> USE DEF KeyInv, SentKeysAreOwned
  <1> SUFFICES ASSUME NEW c \in Proc, req'[c] # NULL,
                      req'[c].code = SEND_KEY_REQUEST_CODE
               PROVE  req'[c].key = c /\ Owner(c)' /\ req'[c].id = cid'[c]
    OBVIOUS
  <1>1. CASE req'[c] = req[c]
    BY <1>1, OwnerStays
  <1>2. CASE SendPublicKey(c) /\ req'[c].id = cid[c] /\ req'[c].key = rsa[c]
    <2>1. Owner(c)
      BY <1>2 DEF SendPublicKey, SendersHaveKey
    <2>2. QED  BY <1>2, <2>1, OwnerStays DEF Owner
  <1>3. QED  BY <1>1, <1>2, ReqStep, Codes

LEMMA PublicKeysStep ==
    ASSUME KeyInv, [Next]_vars
    PROVE  PublicKeysAreOwned'
  <1> USE DEF KeyInv
  <1>0. /\ clients \in [ID -> ClientRow(Proc) \cup {NULL}]
        /\ NULL \notin ClientRow(Proc) /\ NULL \notin Proc
        /\ \A i \in ID : get_public_key(clients, i) \in Proc \cup {NULL}
    BY ConstantsOK, ClientsType DEF TypeOK
  <1> DEFINE Kept(i) == \/ get_public_key(clients', i) = get_public_key(clients, i)
                        \/ get_public_key(clients', i) = NULL
                        \/ \E c \in Proc : /\ get_public_key(clients', i) = c
                                            /\ Owner(c) /\ cid[c] = i
  <1>1. ASSUME NEW i \in ID, UNCHANGED clients  PROVE Kept(i)
    BY <1>1
  <1>2. ASSUME NEW i \in ID, NEW c \in Proc, HandleRegister(c), NEW id \in ID,
               clients' = insert_into_clients(clients, id)
        PROVE  Kept(i)
    BY <1>0, <1>2, Insert
  <1>3. ASSUME NEW i \in ID, NEW c \in Proc, HandleLogin(c),
               clients' = update_aes_key(clients, req[c].id, NewAesKey(req[c].id))
        PROVE  Kept(i)
    <2>1. req[c].id \in ID
      BY <1>3, ServeType DEF HandleLogin, Request
    <2>2. NewAesKey(req[c].id) \in Nat
      BY <2>1, NewAesKeyType
    <2>3. QED  BY <1>0, <1>3, <2>1, <2>2, UpdateAesKey
  <1>4. ASSUME NEW i \in ID, NEW c \in Proc, HandleSendKey(c) \/ CrashInSendKey(c)
        PROVE  Kept(i)
    <2>1. /\ req[c] # NULL /\ req[c].code = SEND_KEY_REQUEST_CODE
          /\ req[c].id \in ID /\ req[c].key \in Proc \cup {NULL}
      BY <1>4 DEF HandleSendKey, CrashInSendKey, Serve, Requested, TypeOK, Request
    <2>2. req[c].key = c /\ Owner(c) /\ req[c].id = cid[c]
      BY <2>1 DEF SentKeysAreOwned
    <2>3. \/ clients' = SendKeyCommits(req[c].id, req[c].key)[1]
          \/ clients' = SendKeyCommits(req[c].id, req[c].key)[2]
      BY <1>4 DEF HandleSendKey, CrashInSendKey
    <2>4. \/ get_public_key(clients', i) = get_public_key(clients, i)
          \/ get_public_key(clients', i) = req[c].key /\ i = req[c].id
      BY <2>1, <2>3, SendKeyCommitsEffect
    <2>5. QED  BY <2>2, <2>4
  <1>5. \A i \in ID : Kept(i)
    BY <1>1, <1>2, <1>3, <1>4
       DEF Next, ClientStep, ServerStep, Start, LoadStoredCredentials, SendLogin,
           ReceiveLoginResponse, SendRegister, ReceiveRegisterResponse, WriteMeInfo,
           PutKeyInFiles, SendPublicKey, ReceiveAesKey, LoseConnection, Finish, Crash,
           HandleRegister, HandleLogin, FailRequest, Disconnect, ServerCrash,
           ServerRestart, Idle, vars
  <1>6. QED
    BY <1>0, <1>5, OwnerStays DEF PublicKeysAreOwned

LEMMA OfferedOnceStep ==
    ASSUME KeyInv, [Next]_vars
    PROVE  OfferedOnce'
  <1> USE DEF KeyInv
  <1> SUFFICES ASSUME NEW c \in Proc, NEW i \in ID
               PROVE  /\ Holds(c, i)' => ~Offered(c, i)'
                      /\ \A n, o \in 1..Len(resp'[c]) :
                           /\ resp'[c][n].code = REGISTER_SUCCESS_CODE /\ resp'[c][n].id = i
                           /\ resp'[c][o].code = REGISTER_SUCCESS_CODE /\ resp'[c][o].id = i
                           => n = o
    BY DEF OfferedOnce
  <1> DEFINE s == resp[c]
             t == resp'[c]
             Is(r, n) == r[n].code = REGISTER_SUCCESS_CODE /\ r[n].id = i
  <1>1. s \in Seq(Response) /\ \A n, o \in 1..Len(s) : Is(s, n) /\ Is(s, o) => n = o
    BY DEF TypeOK, OfferedOnce
  <1>2. /\ Offered(c, i) <=> \E n \in 1..Len(s) : Is(s, n)
        /\ Offered(c, i)' <=> \E n \in 1..Len(t) : Is(t, n)
    BY DEF Offered
  <1>3. CASE t = s \/ (s # <<>> /\ t = Tail(s))
    <2>1. \A n, o \in 1..Len(t) : Is(t, n) /\ Is(t, o) => n = o
      <3> HIDE DEF s, t
      <3>1. CASE t = s
        BY <1>1, <3>1
      <3>2. CASE s # <<>> /\ t = Tail(s)
        <4>1. \A n \in 1..Len(t) : n + 1 \in 1..Len(s) /\ t[n] = s[n + 1]
          BY <1>1, <3>2
        <4>2. QED  BY <1>1, <4>1
      <3>3. QED  BY <1>3, <3>1, <3>2
    <2>2. Offered(c, i)' => Offered(c, i)
      <3> HIDE DEF s, t
      <3>1. QED  BY <1>1, <1>2, <1>3, InFlight
    <2>3. CASE Holds(c, i)
      BY <1>1, <2>1, <2>2, <2>3 DEF OfferedOnce
    <2>4. CASE Holds(c, i)' /\ ~Holds(c, i)
      <3>1. ReceiveRegisterResponse(c) /\ pc'[c] = "writeInfo" /\ cid'[c] = i
        <4>1. CASE Registers
          BY <2>4, <4>1, LoadEffect, RegisterEffect, WriteEffect, PutKeyEffect
             DEF Registers, Elsewhere, Holds
        <4>2. CASE ~Registers
          BY <2>4, <4>2, OtherSteps DEF Forward, Holds
        <4>3. QED  BY <4>1, <4>2
      <3>2. s # <<>> /\ t = Tail(s) /\ Is(s, 1)
        <4>1. s # <<>> /\ t = Tail(s)
          BY <3>1, RegisterEffect DEF TypeOK
        <4>2. Head(s).code = REGISTER_SUCCESS_CODE /\ Head(s).id = i
          BY <3>1 DEF ReceiveRegisterResponse, Goto, TypeOK
        <4> HIDE DEF s, t
        <4>3. Head(s) = s[1]
          BY <1>1, <4>1
        <4>4. QED  BY <4>1, <4>2, <4>3
      <3>3. ASSUME NEW n \in 1..Len(t), Is(t, n)  PROVE FALSE
        <4> HIDE DEF s, t
        <4>1. n + 1 \in 1..Len(s) /\ t[n] = s[n + 1] /\ 1 \in 1..Len(s) /\ n + 1 # 1
          BY <1>1, <3>2
        <4>2. QED  BY <1>1, <3>2, <3>3, <4>1
      <3>4. QED  BY <1>2, <2>1, <3>3
    <2>5. QED  BY <2>1, <2>3, <2>4
  <1>4. CASE \E m \in Response : Answers(c, m)
    <2>1. PICK m \in Response : Answers(c, m)
      BY <1>4
    <2>2. t = Append(s, m)
      BY <2>1 DEF Answers
    <2>3. Holds(c, i)' => Holds(c, i)
      <3>1. CASE Registers
        <4>1. \A q \in Proc : LoadStoredCredentials(q) \/ WriteMeInfo(q) \/ PutKeyInFiles(q)
                                  => UNCHANGED resp
          BY LoadEffect, WriteEffect, PutKeyEffect
        <4>2. \A q \in Proc : ReceiveRegisterResponse(q) /\ q = c => t = Tail(s) /\ s # <<>>
          BY RegisterEffect DEF TypeOK
        <4>3. t # s /\ (s # <<>> => t # Tail(s))
          <5> HIDE DEF s, t
          <5>1. QED  BY <1>1, <2>2
        <4>4. ASSUME NEW q \in Proc, ReceiveRegisterResponse(q), q # c
              PROVE  Holds(c, i)' => Holds(c, i)
          BY <4>4, RegisterEffect DEF Elsewhere, Holds
        <4>5. QED  BY <3>1, <4>1, <4>2, <4>3, <4>4 DEF Registers
      <3>2. CASE ~Registers
        BY <3>2, OtherSteps DEF Forward, Holds
      <3>3. QED  BY <3>1, <3>2
    <2>4. CASE m.code = REGISTER_SUCCESS_CODE /\ m.id = i
      <3>1. ~Holds(c, i) /\ ~Offered(c, i)
        BY <2>1, <2>4 DEF Answers, Drawn, FreshId, PendingIsPrivate, Pending
      <3>2. \A n \in 1..Len(t) : Is(t, n) => n = Len(s) + 1
        <4>1. \A n \in 1..Len(s) : ~Is(s, n)
          BY <1>2, <3>1
        <4> HIDE DEF s, t
        <4>2. QED  BY <1>1, <2>2, <4>1
      <3>3. QED  BY <2>3, <3>1, <3>2
    <2>5. CASE ~(m.code = REGISTER_SUCCESS_CODE /\ m.id = i)
      <3>1. \A n \in 1..Len(t) : Is(t, n) => n \in 1..Len(s) /\ Is(s, n)
        <4> HIDE DEF s, t
        <4>1. QED  BY <1>1, <2>2, <2>5
      <3>2. Offered(c, i)' => Offered(c, i)
        BY <1>2, <3>1
      <3>3. QED  BY <1>1, <2>3, <3>1, <3>2 DEF OfferedOnce
    <2>6. QED  BY <2>4, <2>5
  <1>5. QED  BY <1>3, <1>4, RespStep

LEMMA PendingPrivateStep ==
    ASSUME KeyInv, ~MayOverlap, [Next]_vars
    PROVE  PendingIsPrivate'
  <1> USE DEF KeyInv
  <1>0. /\ \A c \in Proc : DirOf[c] \in Dir /\ cid[c] \in ID
        /\ \A d \in Dir : meInfo[d].id \in ID \cup {NULL}
        /\ NULL \notin ID
    BY ConstantsOK DEF TypeOK, MeInfo
  <1>1. ASSUME NEW c \in Proc, NEW i \in ID, Drawn(c, i)
        PROVE  /\ i # DEFAULT_ID /\ clients[i] = NULL /\ clients'[i] # NULL
               /\ UNCHANGED <<cid, rsa, meInfo, pc>>
               /\ \A q \in Proc \ {c} : ~Drawn(q, i)
    BY <1>1, DrawnRow
  <1> SUFFICES ASSUME NEW c \in Proc, NEW i \in ID, Pending(c, i)'
               PROVE  /\ i # DEFAULT_ID
                      /\ clients'[i] # NULL
                      /\ \A k \in Proc : Owner(k)' => cid'[k] # i
                      /\ \A d \in Dir : meInfo'[d].id = i => d = DirOf[c] /\ ~Offered(c, i)'
                      /\ \A q \in Proc \ {c} : cid'[q] # i /\ ~Pending(q, i)'
    BY DEF PendingIsPrivate
  <1>2. CASE Drawn(c, i)
    <2>1. \A q \in Proc : cid'[q] # i /\ ~Pending(q, i)
      BY <1>0, <1>1, <1>2 DEF KnownIdsHaveRows, PendingIsPrivate
    <2>2. \A d \in Dir : meInfo'[d].id # i
      BY <1>0, <1>1, <1>2 DEF KnownIdsHaveRows
    <2>3. \A q \in Proc \ {c} : ~Pending(q, i)'
      BY <1>1, <1>2, <2>1, PendingStep
    <2>4. QED  BY <1>1, <1>2, <2>1, <2>2, <2>3
  <1>3. CASE Pending(c, i)
    <2>1. /\ i # DEFAULT_ID /\ clients[i] # NULL
          /\ \A k \in Proc : Owner(k) => cid[k] # i
          /\ \A d \in Dir : meInfo[d].id = i => d = DirOf[c] /\ ~Offered(c, i)
          /\ \A q \in Proc \ {c} : cid[q] # i /\ ~Pending(q, i)
      BY <1>3 DEF PendingIsPrivate
    <2>2. clients'[i] # NULL
      BY <2>1, RowsStay
    <2>3. \A q \in Proc \ {c} : ~Pending(q, i)'
      BY <1>1, <2>1, PendingStep
    <2>4. OfferedOnce'
      BY OfferedOnceStep
    <2>5. Offered(c, i)' => Offered(c, i)
      BY <1>1, <2>1, OfferedStep
    <2>6. ~(Holds(c, i) /\ Offered(c, i))
      BY DEF OfferedOnce
    <2> DEFINE Rest == /\ \A k \in Proc : Owner(k)' => cid'[k] # i
                       /\ \A d \in Dir : meInfo'[d].id = i => d = DirOf[c] /\ ~Offered(c, i)'
                       /\ \A q \in Proc \ {c} : cid'[q] # i
    <2>7. ASSUME NEW q \in Proc, LoadStoredCredentials(q)  PROVE Rest
      <3>1. ~Owner(q)'
        BY <2>7, EarlyStep, LoadEffect DEF EarlyHasNoKey
      <3>2. q # c => cid'[q] # i
        <4> SUFFICES ASSUME q # c, meInfo[DirOf[q]].id = i  PROVE FALSE
          BY <2>1, <2>7, LoadEffect
        <4>1. DirOf[q] = DirOf[c] /\ Holds(c, i)
          BY <1>0, <1>3, <2>1 DEF Pending
        <4>2. pc[q] \in Running /\ pc[c] \in Running
          BY <2>7, <4>1, LoadEffect DEF Running, Holds
        <4>3. QED  BY <4>1, <4>2 DEF Alone
      <3>3. QED  BY <2>1, <2>5, <2>7, <3>1, <3>2, LoadEffect DEF Elsewhere, Owner
    <2>8. ASSUME NEW q \in Proc, ReceiveRegisterResponse(q)  PROVE Rest
      <3>1. ~Owner(q) /\ UNCHANGED rsa
        BY <2>8, RegisterEffect DEF EarlyHasNoKey
      <3>2. q # c => cid'[q] # i
        BY <2>1, <2>8, RegisterEffect DEF Pending
      <3>3. \A d \in Dir : meInfo'[d].id = meInfo[d].id \/ meInfo'[d].id = NULL
        <4>1. \A d \in Dir : meInfo'[d] = meInfo[d] \/ meInfo'[d] = EmptyInfo
          BY <2>8, RegisterEffect DEF TypeOK
        <4>2. EmptyInfo.id = NULL
          BY DEF EmptyInfo
        <4>3. QED  BY <4>1, <4>2
      <3>4. \A k \in Proc : Owner(k)' => cid'[k] # i
        BY <2>1, <2>8, <3>1, RegisterEffect DEF Elsewhere, Owner
      <3>5. \A k \in Proc \ {c} : cid'[k] # i
        BY <2>1, <2>8, <3>2, RegisterEffect DEF Elsewhere
      <3>6. QED  BY <1>0, <2>1, <2>5, <3>3, <3>4, <3>5
    <2>9. ASSUME NEW q \in Proc, WriteMeInfo(q)  PROVE Rest
      <3>1. /\ UNCHANGED <<cid, rsa>>
            /\ \A d \in Dir : \/ meInfo'[d].id = meInfo[d].id
                              \/ d = DirOf[q] /\ meInfo'[d].id = cid[q]
        <4>1. UNCHANGED <<cid, rsa>>
          BY <2>9, WriteEffect
        <4>2. \A d \in Dir : d # DirOf[q] => meInfo'[d].id = meInfo[d].id
          BY <2>9, WriteEffect
        <4>3. meInfo'[DirOf[q]].id = cid[q]
          BY <2>9, WriteEffect
        <4>4. QED  BY <4>1, <4>2, <4>3
      <3>2. cid[q] = i => q = c /\ Holds(c, i)
        BY <2>1, <2>9, WriteEffect DEF Holds
      <3>3. QED  BY <2>1, <2>5, <2>6, <3>1, <3>2 DEF Owner
    <2>10. ASSUME NEW q \in Proc, PutKeyInFiles(q)  PROVE Rest
      <3>1. /\ UNCHANGED cid /\ \A d \in Dir : meInfo'[d].id = meInfo[d].id
            /\ \A k \in Proc \ {q} : rsa'[k] = rsa[k]
        BY <1>0, <2>10, PutKeyEffect DEF Elsewhere
      <3>2. cid[q] # i
        <4>1. cid[q] = i => q = c /\ Holds(c, i) /\ ~Holds(c, i)'
          BY <2>1, <2>10, PutKeyEffect DEF Holds
        <4>2. QED  BY <2>5, <2>6, <4>1 DEF Pending
      <3>3. QED  BY <2>1, <2>5, <3>1, <3>2 DEF Owner
    <2>11. ASSUME ~Registers  PROVE Rest
      <3>1. UNCHANGED <<meInfo, cid, rsa>>
        BY <2>11, OtherSteps
      <3>2. QED  BY <2>1, <2>5, <3>1 DEF Owner
    <2>12. Rest
      BY <2>7, <2>8, <2>9, <2>10, <2>11 DEF Registers
    <2>13. QED  BY <2>1, <2>2, <2>3, <2>12
  <1>4. QED  BY <1>2, <1>3, PendingStep

LEMMA LoginStep ==
    ASSUME KeyInv, [Next]_vars
    PROVE  LoginInFlight'
  <1> USE DEF KeyInv
  <1> SUFFICES ASSUME NEW c \in Proc
      PROVE  /\ pc'[c] \in {"off", "load"} =>
                  /\ req'[c] = NULL
                  /\ \A n \in 1..Len(resp'[c]) : resp'[c][n].code # LOGIN_SUCCESS_CODE
             /\ pc'[c] \in {"login", "awaitLogin"} =>
                  /\ req'[c] # NULL /\ req'[c].code = LOGIN_REQUEST_CODE
                       => req'[c].id = cid'[c]
                  /\ \A n \in 1..Len(resp'[c]) :
                       resp'[c][n].code = LOGIN_SUCCESS_CODE
                         => resp'[c][n].key # NULL /\ resp'[c][n].key = rsa'[c]
    BY DEF LoginInFlight, Decrypts
  \* How c came to be at login, or is not there yet.
  <1>1. pc'[c] \in {"off", "load"} => pc[c] \in {"off", "load"}
    <2>1. CASE Registers
      BY <2>1, LoadEffect, RegisterEffect, WriteEffect, PutKeyEffect DEF Registers, Elsewhere
    <2>2. CASE ~Registers
      BY <2>2, OtherSteps DEF Forward
    <2>3. QED  BY <2>1, <2>2
  <1>2. pc'[c] \in {"login", "awaitLogin"}
          => \/ LoadStoredCredentials(c)
             \/ pc[c] \in {"login", "awaitLogin"} /\ cid'[c] = cid[c] /\ rsa'[c] = rsa[c]
    <2>1. CASE Registers
      BY <2>1, LoadEffect, RegisterEffect, WriteEffect, PutKeyEffect DEF Registers, Elsewhere
    <2>2. CASE ~Registers
      BY <2>2, OtherSteps DEF Forward
    <2>3. QED  BY <2>1, <2>2
  \* The responses in flight to c.
  <1>3. ASSUME NEW n \in 1..Len(resp'[c]), resp'[c][n].code = LOGIN_SUCCESS_CODE
        PROVE  \/ \E o \in 1..Len(resp[c]) : resp'[c][n] = resp[c][o]
               \/ \E m \in Response : Answers(c, m) /\ resp'[c][n] = m
    <2>1. resp[c] \in Seq(Response)
      BY DEF TypeOK
    <2>2. CASE \E m \in Response : Answers(c, m)
      <3>1. PICK m \in Response : Answers(c, m)
        BY <2>2
      <3>2. (n \in 1..Len(resp[c]) /\ resp'[c][n] = resp[c][n]) \/ resp'[c][n] = m
        BY <2>1, <1>3, <3>1 DEF Answers
      <3>3. QED  BY <3>1, <3>2
    <2>3. CASE resp'[c] = resp[c] \/ (resp[c] # <<>> /\ resp'[c] = Tail(resp[c]))
      <3> DEFINE s == resp[c]
                 t == resp'[c]
      <3>1. n \in 1..Len(t) /\ s \in Seq(Response) /\ (t = s \/ (s # <<>> /\ t = Tail(s)))
        BY <2>1, <1>3, <2>3
      <3> HIDE DEF s, t
      <3>2. \E o \in 1..Len(s) : t[n] = s[o]
        BY <3>1, InFlight
      <3>3. QED  BY <3>2 DEF s, t
    <2>4. QED  BY <2>2, <2>3, RespStep
  <1>4. CASE pc'[c] \in {"off", "load"} \/ LoadStoredCredentials(c)
    <2>1. pc[c] \in {"off", "load"}
      BY <1>1, <1>4, LoadEffect
    <2>2. /\ req[c] = NULL
          /\ \A n \in 1..Len(resp[c]) : resp[c][n].code # LOGIN_SUCCESS_CODE
      BY <2>1 DEF LoginInFlight
    <2>3. req'[c] = NULL
      BY <2>1, <2>2, ReqStep DEF SendLogin, SendRegister, SendPublicKey
    <2>4. \A n \in 1..Len(resp'[c]) : resp'[c][n].code # LOGIN_SUCCESS_CODE
      BY <1>3, <2>2 DEF Answers
    <2>5. QED  BY <2>3, <2>4
  <1>5. CASE pc[c] \in {"login", "awaitLogin"} /\ cid'[c] = cid[c] /\ rsa'[c] = rsa[c]
    <2>1. /\ req[c] # NULL /\ req[c].code = LOGIN_REQUEST_CODE => req[c].id = cid[c]
          /\ \A n \in 1..Len(resp[c]) : resp[c][n].code = LOGIN_SUCCESS_CODE
                                           => Decrypts(c, resp[c][n])
      BY <1>5 DEF LoginInFlight
    <2>2. req'[c] # NULL /\ req'[c].code = LOGIN_REQUEST_CODE => req'[c].id = cid'[c]
      BY <1>5, <2>1, ReqStep, Codes
    <2>3. ASSUME NEW m \in Response, Answers(c, m), m.code = LOGIN_SUCCESS_CODE
          PROVE  Decrypts(c, m)
      <3>1. req[c].id = cid[c] /\ cid[c] \in ID
        BY <2>1, <2>3 DEF Answers, TypeOK
      <3>2. m.key # NULL /\ m.key = get_public_key(clients, cid[c])
        BY <2>3, <3>1 DEF Answers, CanLogin
      <3>3. m.key \in Proc
        BY <3>1, <3>2, ClientsType DEF TypeOK
      <3>4. Owner(m.key) /\ cid[m.key] = cid[c]
        BY <3>1, <3>2 DEF PublicKeysAreOwned
      <3>5. rsa[c] = m.key
        BY <3>3, <3>4 DEF OneKeyPerId
      <3>6. QED  BY <3>2, <3>5 DEF Decrypts
    <2>4. \A n \in 1..Len(resp'[c]) :
            resp'[c][n].code = LOGIN_SUCCESS_CODE => Decrypts(c, resp'[c][n])
      BY <1>3, <2>1, <2>3
    <2>5. pc[c] \in {"login", "awaitLogin"} => pc'[c] \notin {"off", "load"}
      BY <1>1
    <2>6. QED  BY <1>5, <2>2, <2>4, <2>5 DEF Decrypts
  <1>6. QED  BY <1>2, <1>4, <1>5
-----------------------------------------------------------------------------
LEMMA KeyInvInit == Init => KeyInv
  <1> SUFFICES ASSUME Init  PROVE KeyInv
    OBVIOUS
  <1>1. TypeOK
    BY InitType
  <1>2. \A c \in Proc : pc[c] = "off" /\ resp[c] = <<>> /\ ~Owner(c)
    BY ConstantsOK DEF Init, Owner
  <1>3. \A c \in Proc, i \in ID : ~Pending(c, i) /\ ~Holds(c, i)
    BY <1>2 DEF Pending, Holds, Offered
  <1>4. Alone /\ EarlyHasNoKey /\ SendersHaveKey /\ InfoWhileRegistering
    BY <1>2 DEF Alone, EarlyHasNoKey, SendersHaveKey, InfoWhileRegistering, Running, Awaiting
  <1>5. KnownIdsHaveRows /\ StoredKeysAreOwned /\ OwnersAreStored /\ OneKeyPerId
    BY <1>2 DEF Init, EmptyInfo, KnownIdsHaveRows, StoredKeysAreOwned, OwnersAreStored,
                OneKeyPerId
  <1>6. PendingIsPrivate /\ OfferedOnce
    BY <1>2, <1>3 DEF PendingIsPrivate, OfferedOnce
  <1>7. SentKeysAreOwned /\ PublicKeysAreOwned /\ LoginInFlight
    BY <1>2 DEF Init, SentKeysAreOwned, PublicKeysAreOwned, get_public_key, LoginInFlight
  <1>8. QED  BY <1>1, <1>4, <1>5, <1>6, <1>7 DEF KeyInv

LEMMA KeyInvStep ==
    ASSUME KeyInv, ~MayOverlap, [Next]_vars
    PROVE  KeyInv'
  BY TypeStep, AloneStep, EarlyStep, KnownIdsStep, PendingPrivateStep, OfferedOnceStep,
     InfoStep, StoredKeysStep, OneKeyStep, SentKeysStep, PublicKeysStep, LoginStep
     DEF KeyInv

LEMMA KeyInvariant ==
    ASSUME ~MayOverlap
    PROVE  Spec => []KeyInv
  <1>1. KeyInv /\ [Next]_vars => KeyInv'
    BY KeyInvStep
  <1>2. QED  BY KeyInvInit, <1>1, PTL DEF Spec

\* While the processes of a directory run one at a time, no crash of a client or
\* of the server leaves a directory with a key that does not open its login.
THEOREM StoredKeyOpensLoginHolds ==
    ASSUME ~MayOverlap
    PROVE  Spec => []StoredKeyOpensLogin
  <1>1. KeyInv => StoredKeyOpensLogin
    <2> SUFFICES ASSUME KeyInv, NEW d \in Dir, meInfo[d].id # NULL,
                        get_public_key(clients, meInfo[d].id) # NULL
                 PROVE  /\ meInfo[d].keys # <<>>
                        /\ Head(meInfo[d].keys) = get_public_key(clients, meInfo[d].id)
      BY DEF StoredKeyOpensLogin
    <2> DEFINE k == get_public_key(clients, meInfo[d].id)
    <2>1. meInfo[d].id \in ID
      BY DEF KeyInv, TypeOK, MeInfo
    <2>2. k \in Proc
      BY <2>1, ClientsType DEF KeyInv, TypeOK
    <2>3. Owner(k) /\ cid[k] = meInfo[d].id
      BY <2>1 DEF KeyInv, PublicKeysAreOwned
    <2>4. QED  BY <2>2, <2>3 DEF KeyInv, OwnersAreStored
  <1>2. QED  BY KeyInvariant, <1>1, PTL

\* While the processes of a directory run one at a time, a process the server
\* accepts at login can always decrypt the AES key it is sent.
THEOREM LoginYieldsKeyHolds ==
    ASSUME ~MayOverlap
    PROVE  Spec => []LoginYieldsKey
  <1>1. KeyInv => LoginYieldsKey
    <2> SUFFICES ASSUME KeyInv, NEW c \in Proc, pc[c] = "awaitLogin", resp[c] # <<>>,
                        Head(resp[c]).code = LOGIN_SUCCESS_CODE
                 PROVE  Decrypts(c, Head(resp[c]))
      BY DEF LoginYieldsKey
    <2>1. resp[c] \in Seq(Response)
      BY DEF KeyInv, TypeOK
    <2>2. 1 \in 1..Len(resp[c]) /\ Head(resp[c]) = resp[c][1]
      BY <2>1
    <2>3. QED  BY <2>2 DEF KeyInv, LoginInFlight
  <1>2. QED  BY KeyInvariant, <1>1, PTL
-----------------------------------------------------------------------------
\* A process with a private key from me.info has the id that is stored there.
LoadedIsStored == \A c \in Proc :
    /\ pc[c] \in {"off", "load"} => rsa[c] = NULL
    /\ pc[c] \in {"login", "awaitLogin", "register", "awaitRegister"} /\ rsa[c] # NULL
         => meInfo[DirOf[c]].id = cid[c]

\* Registration is refused only to a process that has a private key.
RefusedHasKey == \A c \in Proc : \A n \in 1..Len(resp[c]) :
    resp[c][n].code = REGISTER_FAILED_CODE => CanLogin(cid[c]) /\ rsa[c] # NULL

RefusalInv == LoadedIsStored /\ RefusedHasKey

\* Only a process that registers changes me.info, and its directory runs no other.
LEMMA LoadedStep ==
    ASSUME KeyInv, LoadedIsStored, [Next]_vars
    PROVE  LoadedIsStored'
  <1> USE DEF KeyInv
  <1> DEFINE Trying == {"login", "awaitLogin", "register", "awaitRegister"}
  <1> SUFFICES ASSUME NEW c \in Proc
               PROVE  /\ pc'[c] \in {"off", "load"} => rsa'[c] = NULL
                      /\ pc'[c] \in Trying /\ rsa'[c] # NULL
                           => meInfo'[DirOf[c]].id = cid'[c]
    BY DEF LoadedIsStored
  <1>1. /\ pc[c] \in {"off", "load"} => rsa[c] = NULL
        /\ pc[c] \in Trying /\ rsa[c] # NULL => meInfo[DirOf[c]].id = cid[c]
        /\ \A q \in Proc : DirOf[q] \in Dir
    BY ConstantsOK DEF LoadedIsStored
  <1>2. CASE LoadStoredCredentials(c)
    BY <1>1, <1>2, LoadEffect
  <1>3. CASE ReceiveRegisterResponse(c)
    BY <1>1, <1>3, RegisterEffect
  <1>4. CASE WriteMeInfo(c) \/ PutKeyInFiles(c)
    BY <1>4, WriteEffect, PutKeyEffect
  <1>5. ASSUME NEW q \in Proc \ {c},
               \/ LoadStoredCredentials(q) \/ ReceiveRegisterResponse(q)
               \/ WriteMeInfo(q) \/ PutKeyInFiles(q)
        PROVE  /\ pc'[c] \in {"off", "load"} => rsa'[c] = NULL
               /\ pc'[c] \in Trying /\ rsa'[c] # NULL => meInfo'[DirOf[c]].id = cid'[c]
    <2>1. pc'[c] = pc[c] /\ rsa'[c] = rsa[c] /\ cid'[c] = cid[c]
      BY <1>5, LoadEffect, RegisterEffect, WriteEffect, PutKeyEffect DEF Elsewhere
    <2>2. ASSUME pc[c] \in Trying  PROVE meInfo'[DirOf[c]] = meInfo[DirOf[c]]
      <3>1. pc[q] \in Running /\ pc[c] \in Running
        BY <1>5, <2>2, LoadEffect, RegisterEffect, WriteEffect, PutKeyEffect
           DEF Running, Awaiting
      <3>2. DirOf[q] # DirOf[c]
        BY <3>1 DEF Alone
      <3>3. CASE LoadStoredCredentials(q)
        BY <3>3, LoadEffect
      <3>4. CASE ReceiveRegisterResponse(q)
        BY <1>1, <3>2, <3>4, RegisterEffect DEF TypeOK
      <3>5. CASE WriteMeInfo(q) \/ PutKeyInFiles(q)
        BY <1>1, <3>2, <3>5, WriteEffect, PutKeyEffect
      <3>6. QED  BY <1>5, <3>3, <3>4, <3>5
    <2>3. QED  BY <1>1, <2>1, <2>2
  <1>6. CASE ~Registers
    BY <1>1, <1>6, OtherSteps DEF Forward
  <1>7. QED  BY <1>2, <1>3, <1>4, <1>5, <1>6 DEF Registers

\* A public key, once stored, is only ever replaced by another one.
LEMMA CanLoginStays ==
    ASSUME TypeOK, KeySent, [Next]_vars, NEW i \in ID, clients[i] # NULL,
           get_public_key(clients, i) # NULL
    PROVE  get_public_key(clients', i) # NULL
  <1> DEFINE Goal == get_public_key(clients', i) # NULL
  <1>0. /\ clients \in [ID -> ClientRow(Proc) \cup {NULL}]
        /\ NULL \notin ClientRow(Proc)
    BY ConstantsOK DEF TypeOK
  <1>1. CASE UNCHANGED clients
    BY <1>1
  <1>2. ASSUME NEW q \in Proc, HandleRegister(q), NEW id \in ID, FreshId(id),
               clients' = insert_into_clients(clients, id)
        PROVE  Goal
    BY <1>0, <1>2, Insert DEF FreshId
  <1>3. ASSUME NEW q \in Proc, HandleLogin(q),
               clients' = update_aes_key(clients, req[q].id, NewAesKey(req[q].id))
        PROVE  Goal
    <2>1. req[q].id \in ID
      BY <1>3, ServeType DEF HandleLogin, Request
    <2>2. NewAesKey(req[q].id) \in Nat
      BY <2>1, NewAesKeyType
    <2>3. QED  BY <1>0, <1>3, <2>1, <2>2, UpdateAesKey
  <1>4. ASSUME NEW q \in Proc, HandleSendKey(q) \/ CrashInSendKey(q)  PROVE Goal
    <2>1. /\ req[q].id \in ID /\ req[q].key \in Proc \cup {NULL} /\ req[q].key # NULL
      BY <1>4 DEF HandleSendKey, CrashInSendKey, Serve, Requested, TypeOK, Request, KeySent
    <2>2. \/ clients' = SendKeyCommits(req[q].id, req[q].key)[1]
          \/ clients' = SendKeyCommits(req[q].id, req[q].key)[2]
      BY <1>4 DEF HandleSendKey, CrashInSendKey
    <2>3. QED  BY <2>1, <2>2, SendKeyCommitsEffect
  <1>5. QED
    BY <1>1, <1>2, <1>3, <1>4
       DEF Next, ClientStep, ServerStep, Start, LoadStoredCredentials, SendLogin,
           ReceiveLoginResponse, SendRegister, ReceiveRegisterResponse, WriteMeInfo,
           PutKeyInFiles, SendPublicKey, ReceiveAesKey, LoseConnection, Finish, Crash,
           HandleRegister, HandleLogin, FailRequest, Disconnect, ServerCrash,
           ServerRestart, Idle, vars

\* A refusal in flight was there before the step, or the step is the refusal.
LEMMA RefusalAnswered ==
    ASSUME TypeOK, Conversation, [Next]_vars, NEW c \in Proc,
           NEW n \in 1..Len(resp'[c]), resp'[c][n].code = REGISTER_FAILED_CODE
    PROVE  \/ HandleRegister(c) /\ IsRegistered(cid[c]) /\ UNCHANGED <<cid, rsa>>
           \/ /\ n \in 1..Len(resp[c]) /\ resp'[c][n] = resp[c][n]
              /\ cid'[c] = cid[c]
              /\ rsa'[c] \in {rsa[c], c}
  <1> DEFINE Kept == /\ n \in 1..Len(resp[c]) /\ resp'[c][n] = resp[c][n]
                     /\ cid'[c] = cid[c] /\ rsa'[c] \in {rsa[c], c}
             Goal == \/ HandleRegister(c) /\ IsRegistered(cid[c]) /\ UNCHANGED <<cid, rsa>>
                     \/ Kept
  <1>0. REGISTER_FAILED_CODE \notin {REGISTER_SUCCESS_CODE, LOGIN_SUCCESS_CODE, LOGIN_FAIL_CODE,
                                     RECEIVED_KEY_SUCCESS_CODE, GENERAL_FAIL_CODE}
    BY DEF REGISTER_FAILED_CODE, REGISTER_SUCCESS_CODE, LOGIN_SUCCESS_CODE, LOGIN_FAIL_CODE,
           RECEIVED_KEY_SUCCESS_CODE, GENERAL_FAIL_CODE
  <1>1. ASSUME resp'[c] = resp[c], cid'[c] = cid[c], rsa'[c] \in {rsa[c], c}  PROVE Kept
    BY <1>1
  <1>2. CASE LoadStoredCredentials(c)
    <2>1. pc[c] = "load" /\ resp' = resp
      BY <1>2, LoadEffect
    <2>2. resp[c][n].code = GENERAL_FAIL_CODE
      BY <2>1 DEF Conversation, Turn, Talking, Awaiting, Over
    <2>3. QED  BY <1>0, <2>1, <2>2
  <1>3. CASE ReceiveLoginResponse(c) \/ ReceiveRegisterResponse(c) \/ ReceiveAesKey(c)
    <2>1. Receive(c)
      BY <1>3 DEF ReceiveLoginResponse, ReceiveRegisterResponse, ReceiveAesKey
    <2>2. QED  BY <1>0, <2>1, TakeResponse
  <1>4. CASE Start(c) \/ SendLogin(c) \/ SendRegister(c) \/ SendPublicKey(c)
             \/ WriteMeInfo(c) \/ PutKeyInFiles(c) \/ LoseConnection(c) \/ Finish(c)
             \/ Crash(c)
    BY <1>1, <1>4 DEF Start, SendLogin, SendRegister, SendPublicKey, WriteMeInfo,
       PutKeyInFiles, LoseConnection, Finish, Crash, TypeOK, clientVars
  <1>5. CASE HandleRegister(c)
    <2>1. UNCHANGED <<cid, rsa>>
      BY <1>5 DEF HandleRegister, clientVars
    <2>2. PICK m : /\ Respond(c, m)
                   /\ m.code = REGISTER_SUCCESS_CODE \/ IsRegistered(req[c].id)
      <3>1. \A id : [Bare(REGISTER_SUCCESS_CODE) EXCEPT !.id = id].code = REGISTER_SUCCESS_CODE
        BY DEF Bare
      <3>2. QED  BY <1>5, <3>1 DEF HandleRegister
    <2>3. resp[c] = <<>> /\ req[c].id = cid[c]
      BY <1>5, ServeTurn DEF HandleRegister
    <2>4. Len(resp'[c]) = 1 /\ resp'[c][1] = m
      BY <2>2, <2>3, RespondTurn
    <2>5. n = 1
      BY <2>4
    <2>6. QED  BY <1>0, <1>5, <2>1, <2>2, <2>3, <2>4, <2>5
  <1>6. CASE HandleLogin(c) \/ HandleSendKey(c)
    <2>1. PICK m, code : /\ Respond(c, m) /\ Serve(c, code)
                         /\ m.code # REGISTER_FAILED_CODE
      BY <1>0, <1>6 DEF HandleLogin, HandleSendKey, Bare, Encrypted
    <2>2. Len(resp'[c]) = 1 /\ resp'[c][1] = m
      BY <2>1, ServeTurn, RespondTurn
    <2>3. n = 1
      BY <2>2
    <2>4. QED  BY <2>1, <2>2, <2>3
  <1>7. CASE FailRequest(c) \/ Disconnect(c)
    <2> DEFINE s == resp[c]
               t == resp'[c]
    <2>1. s \in Seq(Response) /\ (t = s \/ t = Append(s, Bare(GENERAL_FAIL_CODE)))
      BY <1>7 DEF FailRequest, Disconnect, Respond, TypeOK
    <2>2. Bare(GENERAL_FAIL_CODE).code # REGISTER_FAILED_CODE
      BY <1>0 DEF Bare
    <2>3. n \in 1..Len(t) /\ t[n].code = REGISTER_FAILED_CODE
      OBVIOUS
    <2>4. UNCHANGED <<cid, rsa>>
      BY <1>7 DEF FailRequest, Disconnect, clientVars
    <2> HIDE DEF s, t
    <2>5. n \in 1..Len(s) /\ t[n] = s[n]
      BY <2>1, <2>2, <2>3
    <2>6. QED  BY <2>4, <2>5 DEF s, t
  <1>8. ASSUME NEW q \in Proc \ {c}, Start(q) \/ ClientStep(q) \/ Crash(q) \/ ServerStep(q)
        PROVE  Goal
    BY <1>1, <1>8, NotInvolved
  <1>9. CASE UNCHANGED <<resp, cid, rsa>>
    BY <1>1, <1>9
  <1>10. QED
    BY <1>2, <1>3, <1>4, <1>5, <1>6, <1>7, <1>8, <1>9
       DEF Next, ClientStep, ServerStep, CrashInSendKey, ServerCrash, ServerRestart,
           Idle, vars, clientVars

\* The id of a refused process has an AES key, hence a public key, and the only
\* process with that id and its private key has loaded it.
LEMMA RefusedStep ==
    ASSUME KeyInv, Conversation, AesNeedsPublicKey, RefusedHasKey, [Next]_vars
    PROVE  RefusedHasKey'
  <1> USE DEF KeyInv
  <1> SUFFICES ASSUME NEW c \in Proc, NEW n \in 1..Len(resp'[c]),
                      resp'[c][n].code = REGISTER_FAILED_CODE
               PROVE  CanLogin(cid[c])' /\ rsa'[c] # NULL
    BY DEF RefusedHasKey
  <1>0. cid[c] \in ID /\ c # NULL
    BY ConstantsOK DEF TypeOK
  <1>1. CanLogin(cid[c]) /\ rsa[c] # NULL
    <2>1. CASE HandleRegister(c) /\ IsRegistered(cid[c])
      <3> DEFINE k == get_public_key(clients, cid[c])
      <3>1. k # NULL
        BY <1>0, <2>1 DEF IsRegistered, AesNeedsPublicKey
      <3>2. k \in Proc
        BY <1>0, <3>1, ClientsType DEF TypeOK
      <3>3. Owner(k) /\ cid[k] = cid[c]
        BY <1>0, <3>1 DEF PublicKeysAreOwned
      <3>4. rsa[c] = k
        BY <3>2, <3>3 DEF OneKeyPerId
      <3>5. QED  BY <3>1, <3>4 DEF CanLogin
    <2>2. CASE n \in 1..Len(resp[c]) /\ resp'[c][n] = resp[c][n]
      BY <2>2 DEF RefusedHasKey
    <2>3. QED  BY <2>1, <2>2, RefusalAnswered
  <1>2. cid'[c] = cid[c] /\ rsa'[c] # NULL
    BY <1>0, <1>1, RefusalAnswered
  <1>3. KeySent
    BY ConstantsOK DEF KeySent, SendersHaveKey, SentKeysAreOwned, Owner
  <1>4. clients[cid[c]] # NULL /\ get_public_key(clients, cid[c]) # NULL
    BY <1>1 DEF CanLogin, get_public_key
  <1>5. get_public_key(clients', cid[c]) # NULL
    BY <1>0, <1>3, <1>4, CanLoginStays
  <1>6. QED  BY <1>2, <1>5 DEF CanLogin

\* While the processes of a directory run one at a time, registration is refused
\* only over an id the directory still stores and can log in with.
THEOREM RefusalIsRecoverableHolds ==
    ASSUME ~MayOverlap
    PROVE  Spec => []RefusalIsRecoverable
  <1>1. Init => RefusalInv
    BY DEF Init, RefusalInv, LoadedIsStored, RefusedHasKey
  <1>2. /\ KeyInv /\ SessionInv /\ AesNeedsPublicKey /\ RefusalInv /\ [Next]_vars
        => RefusalInv'
    BY LoadedStep, RefusedStep DEF RefusalInv, SessionInv
  <1>3. KeyInv /\ RefusalInv => RefusalIsRecoverable
    <2> SUFFICES ASSUME KeyInv, RefusalInv, NEW c \in Proc, pc[c] = "awaitRegister",
                        resp[c] # <<>>, Head(resp[c]).code = REGISTER_FAILED_CODE
                 PROVE  meInfo[DirOf[c]].id = cid[c] /\ CanLogin(cid[c])
      BY DEF RefusalIsRecoverable
    <2>1. resp[c] \in Seq(Response)
      BY DEF KeyInv, TypeOK
    <2>2. 1 \in 1..Len(resp[c]) /\ Head(resp[c]) = resp[c][1]
      BY <2>1
    <2>3. CanLogin(cid[c]) /\ rsa[c] # NULL
      BY <2>2 DEF RefusalInv, RefusedHasKey
    <2>4. QED  BY <2>3 DEF RefusalInv, LoadedIsStored
  <1>4. QED
    BY KeyInvariant, SessionInvariant, AesNeedsPublicKeyHolds, <1>1, <1>2, <1>3, PTL DEF Spec
=============================================================================
