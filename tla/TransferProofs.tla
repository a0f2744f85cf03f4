--------------------------- MODULE TransferProofs ---------------------------
(***************************************************************************)
(* Type correctness of Transfer, and that a displaced upload is never      *)
(* confirmed, for any processes, ids, versions of the files, faults and    *)
(* trials, however many processes of a client overlap.  The inductive      *)
(* invariant is KeyInv.                                                    *)
(***************************************************************************)
EXTENDS Transfer, SequenceTheorems, TLAPS

\* The loops have not run past their ends.
LoopsInside ==
    \A p \in Proc :
        /\ pc[p] = "send" => sent[p] < Size[sending[p]]
        /\ pc[p] = "awaitAckRetry" => trial[p] < NUM_OF_TRIALS

TypeInv == TypeOK /\ LoopsInside
-----------------------------------------------------------------------------
(* Data. *)

LEMMA SizeIsPositive ==
    ASSUME NEW v \in Version
    PROVE  Size[v] \in Nat \ {0}
  BY TransferConstantsOK DEF Version

LEMMA ContentType ==
    ASSUME NEW v \in Version, NEW key \in Nat
    PROVE  /\ Content(v, key) \in Seq(Block)
           /\ Len(Content(v, key)) = Size[v]
           /\ \A i \in 1..Size[v] :
                Content(v, key)[i] = [version |-> v, idx |-> i, key |-> key]
  <1>1. Size[v] \in Nat
    BY SizeIsPositive
  <1>2. \A i \in 1..Size[v] : [version |-> v, idx |-> i, key |-> key] \in Block
    BY <1>1 DEF Block
  <1>3. QED  BY <1>1, <1>2 DEF Content

LEMMA PacketType ==
    ASSUME NEW m \in Request, m.code = SEND_FILE_REQUEST_CODE
    PROVE  m.block \in Block /\ m.total \in Nat
  BY DEF Request, SEND_FILE_REQUEST_CODE, LOGIN_REQUEST_CODE, CrcCodes,
         VALID_CRC_REQUEST_CODE, INVALID_CRC_REQUEST_CODE, INVALID_CRC_FINAL_REQUEST_CODE

LEMMA LoginType ==
    ASSUME NEW m \in Response, m.code = LOGIN_SUCCESS_CODE
    PROVE  m.aes \in Nat
  BY DEF Response, SERVER_ACK_CODE, GENERAL_FAIL_CODE, LOGIN_SUCCESS_CODE,
         RECEIVED_FILE_SUCCESS_CODE

LEMMA KeyType ==
    ASSUME TypeOK, NEW id \in ID
    PROVE  get_aes_key(clients, id) \in Nat
  BY DEF TypeOK, get_aes_key, ClientRow, NoAesKey

LEMMA WrittenType ==
    ASSUME TypeOK, NEW id \in ID, NEW block \in Block
    PROVE  /\ Written(id, block) \in Seq(StoredBlock)
           /\ Written(id, block) # <<>>
  <1>1. disk[id] \in Seq(StoredBlock) /\ block \in StoredBlock
    BY DEF TypeOK, StoredBlock
  <1>2. QED  BY <1>1, EmptySeq, AppendProperties DEF Written

LEMMA DecryptedType ==
    ASSUME NEW data \in Seq(StoredBlock), NEW key
    PROVE  Decrypted(data, key) \in Seq(StoredBlock)
  <1>1. ASSUME NEW b \in StoredBlock  PROVE [b EXCEPT !.key = NoAesKey] \in StoredBlock
    BY DEF StoredBlock, Block, Garbage, NoAesKey
  <1>2. \A i \in 1..Len(data) : data[i] \in StoredBlock /\ Garbage \in StoredBlock
    BY DEF StoredBlock
  <1>3. Decrypted(data, key) \in [1..Len(data) -> StoredBlock]
    BY <1>1, <1>2 DEF Decrypted
  <1>4. QED  BY <1>3

LEMMA ListedType ==
    ASSUME TypeOK, NEW id \in ID, NEW block
    PROVE  Listed(id, block) \in [ID -> BOOLEAN \cup {NULL}]
  BY DEF TypeOK, Listed, insert_into_files
-----------------------------------------------------------------------------
(* The parts of a step. *)

LEMMA SentType ==
    ASSUME TypeOK, NEW p \in Proc, NEW m \in Request
    PROVE  Sent(p, m) \in [Proc -> Seq(Request)]
  BY AppendProperties DEF TypeOK, Sent

LEMMA ReceiveType ==
    ASSUME TypeOK, NEW p \in Proc, Receive(p)
    PROVE  Head(resp[p]) \in Response /\ resp' \in [Proc -> Seq(Response)]
  BY HeadTailProperties DEF TypeOK, Receive

LEMMA RespondType ==
    ASSUME TypeOK, NEW p \in Proc, NEW m \in Response, Respond(p, m)
    PROVE  resp' \in [Proc -> Seq(Response)]
  BY AppendProperties DEF TypeOK, Respond

LEMMA ServeType ==
    ASSUME TypeOK, NEW p \in Proc, NEW codes, Serve(p, codes)
    PROVE  Head(req[p]) \in Request /\ req' \in [Proc -> Seq(Request)]
  BY HeadTailProperties DEF TypeOK, Serve, Requested

LEMMA CloseType ==
    ASSUME TypeOK, NEW p \in Proc, Close(p)
    PROVE  conn' \in [Proc -> ConnState] /\ req' \in [Proc -> Seq(Request)]
  BY EmptySeq DEF TypeOK, Close, ConnState

LEMMA GotoType ==
    ASSUME TypeOK, NEW p \in Proc, NEW where \in PC, Goto(p, where)
    PROVE  pc' \in [Proc -> PC]
  BY DEF TypeOK, Goto

LEMMA FaultType ==
    ASSUME TypeOK, NEW kind, Fault(kind)
    PROVE  faults' \in 0..MaxFaults
  BY TransferConstantsOK DEF TypeOK, Fault

LEMMA NameType ==
    ASSUME TypeOK, NEW p \in Proc, WholeName \/ PartOfName(p)
    PROVE  conn' \in [Proc -> ConnState] /\ faults' \in 0..MaxFaults
  <1>1. CASE WholeName
    BY <1>1 DEF WholeName, TypeOK
  <1>2. CASE PartOfName(p)
    BY <1>2, FaultType DEF PartOfName, TypeOK, ConnState
  <1>3. QED  BY <1>1, <1>2
-----------------------------------------------------------------------------
(* The steps. *)

LEMMA TypeInit == Init => TypeInv
  <1> SUFFICES ASSUME Init PROVE TypeInv
    OBVIOUS
  <1>1. 1 \in Version
    BY TransferConstantsOK DEF Version
  <1>2. clients \in [ID -> ClientRow(ID)]
    BY DEF Init, ClientRow
  <1>3. TypeOK
    BY <1>1, <1>2, SizeIsPositive, TransferConstantsOK, EmptySeq
       DEF Init, TypeOK, ConnState, PC, NoAesKey
  <1>4. QED  BY <1>3 DEF TypeInv, LoopsInside, Init

LEMMA StartType ==
    ASSUME TypeInv, NEW p \in Proc, Start(p)
    PROVE  TypeInv'
  <1> USE DEF TypeInv
  <1>1. [code |-> LOGIN_REQUEST_CODE] \in Request
    BY DEF Request
  <1>2. /\ conn' \in [Proc -> ConnState] /\ req' \in [Proc -> Seq(Request)]
        /\ pc' \in [Proc -> PC]
    <2>1. <<[code |-> LOGIN_REQUEST_CODE]>> \in Seq(Request)
      BY <1>1
    <2>2. conn' \in [Proc -> ConnState] /\ pc' \in [Proc -> PC]
      BY DEF Start, Goto, TypeOK, ConnState, PC, Running, Over
    <2>3. req' \in [Proc -> Seq(Request)]
      BY <2>1 DEF Start, TypeOK
    <2>4. QED  BY <2>2, <2>3
  <1>3. TypeOK'
    BY <1>2 DEF TypeOK, Start, clientVars, storeVars
  <1>4. LoopsInside'
    BY DEF LoopsInside, Start, Goto, clientVars, TypeOK
  <1>5. QED  BY <1>3, <1>4

LEMMA ReceiveLoginType ==
    ASSUME TypeInv, NEW p \in Proc, ReceiveLogin(p)
    PROVE  TypeInv'
  <1> USE DEF TypeInv
  <1>1. Head(resp[p]) \in Response /\ resp' \in [Proc -> Seq(Response)]
    BY ReceiveType DEF ReceiveLogin
  <1>2. aes' \in [Proc -> Nat] /\ sum' \in [Proc -> Version]
    BY <1>1, LoginType, TransferConstantsOK DEF ReceiveLogin, TypeOK
  <1>3. pc' \in [Proc -> PC]
    BY DEF ReceiveLogin, Goto, TypeOK, PC, Running, Over
  <1>4. TypeOK'
    BY <1>1, <1>2, <1>3 DEF TypeOK, ReceiveLogin, storeVars
  <1>5. LoopsInside'
    BY DEF LoopsInside, ReceiveLogin, Goto, TypeOK
  <1>6. QED  BY <1>4, <1>5

LEMMA OpenFileType ==
    ASSUME TypeInv, NEW p \in Proc, OpenFile(p)
    PROVE  TypeInv'
  <1> USE DEF TypeInv
  <1>1. local[IdOf[p]] \in Version
    BY TransferConstantsOK DEF TypeOK
  <1>2. /\ sending' \in [Proc -> Version] /\ sent' \in [Proc -> Nat]
        /\ sending'[p] \in Version /\ sent'[p] = 0
        /\ \A q \in Proc \ {p} : sent'[q] = sent[q] /\ sending'[q] = sending[q]
    BY <1>1 DEF OpenFile, TypeOK
  <1>3. \A q \in Proc : sent'[q] <= Size[sending'[q]]
    <2>1. sent'[p] <= Size[sending'[p]]
      BY <1>2, SizeIsPositive
    <2>2. \A q \in Proc \ {p} : sent'[q] <= Size[sending'[q]]
      BY <1>2 DEF TypeOK
    <2>3. QED  BY <2>1, <2>2
  <1>4. pc' \in [Proc -> PC]
    BY DEF OpenFile, Goto, TypeOK, PC, Running
  <1>5. TypeOK'
    BY <1>2, <1>3, <1>4 DEF TypeOK, OpenFile, storeVars
  <1>6. \A q \in Proc : pc'[q] = "send" => sent'[q] < Size[sending'[q]]
    <2>1. sent'[p] < Size[sending'[p]]
      BY <1>2, SizeIsPositive
    <2>2. QED  BY <2>1, <1>2 DEF LoopsInside, OpenFile, Goto, TypeOK
  <1>7. LoopsInside'
    BY <1>6 DEF LoopsInside, OpenFile, Goto, TypeOK
  <1>8. QED  BY <1>5, <1>7

LEMMA SendPacketType ==
    ASSUME TypeInv, NEW p \in Proc, SendPacket(p)
    PROVE  TypeInv'
  <1> USE DEF TypeInv
  <1> DEFINE n == sent[p] + 1
             data == Content(sending[p], aes[p])
             m == [code |-> SEND_FILE_REQUEST_CODE, block |-> data[n], total |-> Len(data)]
  <1>1. sending[p] \in Version /\ aes[p] \in Nat /\ sent[p] \in Nat
    BY DEF TypeOK
  <1>2. /\ Len(data) = Size[sending[p]] /\ Size[sending[p]] \in Nat
        /\ n \in 1..Size[sending[p]]
    BY <1>1, ContentType, SizeIsPositive DEF SendPacket, LoopsInside
  <1>3. data[n] \in Block
    BY <1>1, <1>2, ContentType
  <1>4. m \in Request
    <2> HIDE DEF data
    <2>1. Len(data) \in Nat
      BY <1>2
    <2>2. QED  BY <1>3, <2>1 DEF Request
  <1>5. req' \in [Proc -> Seq(Request)]
    <2>1. req' = Sent(p, m)
      BY DEF SendPacket
    <2> HIDE DEF m
    <2>2. QED  BY <2>1, <1>4, SentType
  <1>6. /\ sent' \in [Proc -> Nat] /\ sent'[p] = n
        /\ \A q \in Proc \ {p} : sent'[q] = sent[q]
    BY <1>1 DEF SendPacket, TypeOK
  <1>7. pc' \in [Proc -> PC]
    BY DEF SendPacket, Goto, TypeOK, PC, Running
  <1>8. \A q \in Proc : sent'[q] <= Size[sending[q]]
    <2>1. sent'[p] <= Size[sending[p]]
      BY <1>2, <1>6
    <2>2. \A q \in Proc \ {p} : sent'[q] <= Size[sending[q]]
      BY <1>6 DEF TypeOK
    <2>3. QED  BY <2>1, <2>2
  <1>9. TypeOK'
    BY <1>5, <1>6, <1>7, <1>8 DEF TypeOK, SendPacket, storeVars
  <1>10. LoopsInside'
    <2>1. pc'[p] = "send" => n # Len(data)
      BY DEF SendPacket, Goto, TypeOK
    <2> HIDE DEF data
    <2>2. pc'[p] = "send" => n < Size[sending[p]]
      BY <1>2, <2>1
    <2>3. pc'[p] # "awaitAckRetry" /\ \A q \in Proc \ {p} : pc'[q] = pc[q]
      BY DEF SendPacket, Goto, TypeOK
    <2>4. sending' = sending /\ trial' = trial
      BY DEF SendPacket
    <2>5. QED  BY <1>6, <2>2, <2>3, <2>4 DEF LoopsInside
  <1>11. QED  BY <1>9, <1>10

LEMMA ReceiveCrcType ==
    ASSUME TypeInv, NEW p \in Proc, ReceiveCrc(p)
    PROVE  TypeInv'
  <1> USE DEF TypeInv
  <1>1. resp' \in [Proc -> Seq(Response)]
    BY ReceiveType DEF ReceiveCrc
  <1>2. \A code \in CrcCodes : [code |-> code] \in Request
    BY DEF Request
  <1>3. req' \in [Proc -> Seq(Request)]
    <2>1. \/ req' = req
          \/ \E code \in CrcCodes : req' = Sent(p, [code |-> code])
      BY DEF ReceiveCrc, Verdict, CrcCodes
    <2>2. ASSUME NEW code \in CrcCodes, req' = Sent(p, [code |-> code])
          PROVE  req' \in [Proc -> Seq(Request)]
      <3> DEFINE m == [code |-> code]
      <3>1. m \in Request /\ req' = Sent(p, m)
        BY <1>2, <2>2
      <3> HIDE DEF m
      <3>2. QED  BY <3>1, SentType
    <2>3. QED  BY <2>1, <2>2 DEF TypeOK
  <1>4. pc' \in [Proc -> PC]
    BY DEF ReceiveCrc, Verdict, Goto, TypeOK, PC, Running, AwaitingAck, Over
  <1>5. TypeOK'
    BY <1>1, <1>3, <1>4 DEF TypeOK, ReceiveCrc, storeVars, clientVars
  <1>6. pc'[p] # "send" /\ (pc'[p] = "awaitAckRetry" => trial[p] < NUM_OF_TRIALS)
    BY DEF ReceiveCrc, Verdict, Goto, MoreTrials, TypeOK
  <1>7. LoopsInside'
    BY <1>6 DEF LoopsInside, ReceiveCrc, Verdict, Goto, clientVars, TypeOK
  <1>8. QED  BY <1>5, <1>7

LEMMA ReceiveAckType ==
    ASSUME TypeInv, NEW p \in Proc, ReceiveAck(p)
    PROVE  TypeInv'
  <1> USE DEF TypeInv
  <1>1. resp' \in [Proc -> Seq(Response)]
    BY ReceiveType DEF ReceiveAck
  <1>2. trial' \in [Proc -> 1..NUM_OF_TRIALS]
    <2>1. CASE pc[p] = "awaitAckRetry"
      <3>1. trial[p] + 1 \in 1..NUM_OF_TRIALS
        BY <2>1, TransferConstantsOK DEF TypeOK, LoopsInside
      <3>2. QED  BY <3>1 DEF ReceiveAck, NextTrial, TypeOK
    <2>2. CASE pc[p] # "awaitAckRetry"
      BY <2>2 DEF ReceiveAck, TypeOK
    <2>3. QED  BY <2>1, <2>2
  <1>3. pc' \in [Proc -> PC]
    BY DEF ReceiveAck, Goto, TypeOK, PC, Running, AwaitingAck, Over
  <1>4. TypeOK'
    BY <1>1, <1>2, <1>3 DEF TypeOK, ReceiveAck, storeVars
  <1>5. pc'[p] \notin {"send", "awaitAckRetry"}
    BY DEF ReceiveAck, Goto, TypeOK, AwaitingAck
  <1>6. \A q \in Proc \ {p} : pc'[q] = pc[q] /\ trial'[q] = trial[q]
    BY DEF ReceiveAck, Goto, TypeOK
  <1>7. LoopsInside'
    BY <1>5, <1>6 DEF LoopsInside, ReceiveAck
  <1>8. QED  BY <1>4, <1>7

\* The steps that change neither the loops' variables nor send anything.
LEMMA EndsType ==
    ASSUME TypeInv, NEW p \in Proc, LoseConnection(p) \/ Crash(p)
    PROVE  TypeInv'
  <1> USE DEF TypeInv
  <1>1. /\ pc' \in [Proc -> PC] /\ pc'[p] \notin {"send", "awaitAckRetry"}
        /\ \A q \in Proc \ {p} : pc'[q] = pc[q]
    BY DEF LoseConnection, Crash, Goto, TypeOK, PC, Over
  <1>2. faults' \in 0..MaxFaults
    BY FaultType DEF LoseConnection, Crash, TypeOK
  <1>3. UNCHANGED <<up, storeVars, local, conn, req, resp, clientVars>>
    BY DEF LoseConnection, Crash
  <1>4. TypeOK'
    BY <1>1, <1>2, <1>3 DEF TypeOK, storeVars, clientVars
  <1>5. LoopsInside'
    BY <1>1, <1>3 DEF LoopsInside, clientVars
  <1>6. QED  BY <1>4, <1>5

LEMMA EditType ==
    ASSUME TypeInv, NEW id \in ID, Edit(id)
    PROVE  TypeInv'
  <1> USE DEF TypeInv
  <1>1. local' \in [ID -> Version]
    BY TransferConstantsOK DEF Edit, TypeOK, Version
  <1>2. TypeOK'
    BY <1>1 DEF TypeOK, Edit, storeVars, clientVars
  <1>3. LoopsInside'
    BY DEF LoopsInside, Edit, clientVars
  <1>4. QED  BY <1>2, <1>3

\* A step of the server leaves the client processes alone: what remains to show
\* of it is the type of what it changes.
LEMMA ServerType ==
    ASSUME TypeInv, UNCHANGED <<local, pc, clientVars>>,
           up' \in BOOLEAN,
           clients' \in [ID -> ClientRow(ID)],
           files' \in [ID -> BOOLEAN \cup {NULL}],
           disk' \in [ID -> Seq(StoredBlock)],
           conn' \in [Proc -> ConnState],
           req' \in [Proc -> Seq(Request)],
           resp' \in [Proc -> Seq(Response)],
           faults' \in 0..MaxFaults
    PROVE  TypeInv'
  <1>1. TypeOK'
    BY DEF TypeInv, TypeOK, clientVars
  <1>2. LoopsInside'
    BY DEF TypeInv, LoopsInside, clientVars
  <1>3. QED  BY <1>1, <1>2 DEF TypeInv

LEMMA HandleLoginType ==
    ASSUME TypeInv, NEW p \in Proc, HandleLogin(p)
    PROVE  TypeInv'
  <1> USE DEF TypeInv
  <1> DEFINE id == IdOf[p]
             key == get_aes_key(clients, id) + 1
             m == [code |-> LOGIN_SUCCESS_CODE, aes |-> key]
  <1>1. id \in ID
    BY TransferConstantsOK
  <1>2. key \in Nat
    BY <1>1, KeyType
  <1>3. clients' \in [ID -> ClientRow(ID)]
    <2>1. clients' = update_aes_key(clients, id, key)
      BY DEF HandleLogin
    <2>2. clients \in [ID -> ClientRow(ID)]
      BY DEF TypeOK
    <2> HIDE DEF key
    <2>3. QED  BY <1>1, <1>2, <2>1, <2>2 DEF update_aes_key, ClientRow
  <1>4. m \in Response /\ Respond(p, m)
    BY <1>2 DEF Response, HandleLogin
  <1>5. resp' \in [Proc -> Seq(Response)]
    <2> HIDE DEF m
    <2>1. QED  BY <1>4, RespondType
  <1>6. req' \in [Proc -> Seq(Request)]
    BY ServeType DEF HandleLogin
  <1>7. conn' \in [Proc -> ConnState] /\ faults' \in 0..MaxFaults
    BY NameType DEF HandleLogin
  <1>8. UNCHANGED <<local, pc, clientVars, up, files, disk>>
    BY DEF HandleLogin
  <1>9. QED
    BY <1>3, <1>5, <1>6, <1>7, <1>8, ServerType DEF TypeOK

LEMMA HandlePacketType ==
    ASSUME TypeInv, NEW p \in Proc, HandlePacket(p)
    PROVE  TypeInv'
  <1> USE DEF TypeInv
  <1> DEFINE id == IdOf[p]
             m == Head(req[p])
  <1>1. id \in ID
    BY TransferConstantsOK
  <1>2. m \in Request /\ req' \in [Proc -> Seq(Request)]
    BY ServeType DEF HandlePacket
  <1>3. m.block \in Block
    BY <1>2, PacketType DEF HandlePacket, Serve, Requested
  <1>4. disk' \in [ID -> Seq(StoredBlock)]
    BY <1>1, <1>3, WrittenType DEF HandlePacket, TypeOK
  <1>5. files' \in [ID -> BOOLEAN \cup {NULL}]
    BY <1>1, ListedType DEF HandlePacket
  <1>6. UNCHANGED <<local, pc, clientVars, up, clients, conn, resp, faults>>
    BY DEF HandlePacket
  <1>7. QED
    BY <1>2, <1>4, <1>5, <1>6, ServerType DEF TypeOK

LEMMA HandleLastPacketType ==
    ASSUME TypeInv, NEW p \in Proc, HandleLastPacket(p)
    PROVE  TypeInv'
  <1> USE DEF TypeInv
  <1> DEFINE id == IdOf[p]
             m == Head(req[p])
             plain == Decrypted(Written(id, m.block), ServerKey(p))
             answer == [code |-> RECEIVED_FILE_SUCCESS_CODE, checksum |-> plain]
  <1>1. id \in ID
    BY TransferConstantsOK
  <1>2. m \in Request /\ req' \in [Proc -> Seq(Request)]
    BY ServeType DEF HandleLastPacket
  <1>3. m.block \in Block
    BY <1>2, PacketType DEF HandleLastPacket, Serve, Requested
  <1>4. plain \in Seq(StoredBlock)
    BY <1>1, <1>3, WrittenType, DecryptedType
  <1>5. /\ disk' = [disk EXCEPT ![id] = plain] /\ files' = Listed(id, m.block)
        /\ Respond(p, answer)
        /\ UNCHANGED <<local, pc, clientVars, up, clients, conn, faults>>
    BY DEF HandleLastPacket
  <1> HIDE DEF plain
  <1>6. disk' \in [ID -> Seq(StoredBlock)]
    BY <1>1, <1>4, <1>5 DEF TypeOK
  <1>7. files' \in [ID -> BOOLEAN \cup {NULL}]
    BY <1>1, <1>5, ListedType
  <1>8. answer \in Response
    BY <1>4 DEF Response
  <1>9. resp' \in [Proc -> Seq(Response)]
    <2> HIDE DEF answer
    <2>1. QED  BY <1>5, <1>8, RespondType
  <1>10. QED
    BY <1>2, <1>5, <1>6, <1>7, <1>9, ServerType DEF TypeOK

LEMMA FailLastPacketType ==
    ASSUME TypeInv, NEW p \in Proc, FailLastPacket(p)
    PROVE  TypeInv'
  <1> USE DEF TypeInv
  <1> DEFINE id == IdOf[p]
             m == Head(req[p])
  <1>1. id \in ID
    BY TransferConstantsOK
  <1>2. m \in Request
    BY HeadTailProperties DEF FailLastPacket, Requested, TypeOK
  <1>3. m.block \in Block
    BY <1>2, PacketType DEF FailLastPacket, Requested
  <1>4. disk' \in [ID -> Seq(StoredBlock)]
    BY <1>1, <1>3, WrittenType DEF FailLastPacket, TypeOK
  <1>5. files' \in [ID -> BOOLEAN \cup {NULL}]
    BY <1>1, ListedType DEF FailLastPacket
  <1>6. [code |-> GENERAL_FAIL_CODE] \in Response
    BY DEF Response
  <1>7. resp' \in [Proc -> Seq(Response)]
    BY <1>6, RespondType DEF FailLastPacket
  <1>8. conn' \in [Proc -> ConnState] /\ req' \in [Proc -> Seq(Request)]
    BY CloseType DEF FailLastPacket
  <1>9. UNCHANGED <<local, pc, clientVars, up, clients, faults>>
    BY DEF FailLastPacket
  <1>10. QED
    BY <1>4, <1>5, <1>7, <1>8, <1>9, ServerType DEF TypeOK

LEMMA HandleCrcType ==
    ASSUME TypeInv, NEW p \in Proc, HandleCrc(p)
    PROVE  TypeInv'
  <1> USE DEF TypeInv
  <1>1. req' \in [Proc -> Seq(Request)]
    BY ServeType DEF HandleCrc
  <1>2. files' \in [ID -> BOOLEAN \cup {NULL}]
    <2>1. update_file_verification(files, IdOf[p], TRUE) \in [ID -> BOOLEAN \cup {NULL}]
      BY TransferConstantsOK DEF TypeOK, update_file_verification
    <2>2. files' \in {files, update_file_verification(files, IdOf[p], TRUE)}
      BY DEF HandleCrc
    <2>3. QED  BY <2>1, <2>2 DEF TypeOK
  <1>3. [code |-> SERVER_ACK_CODE] \in Response
    BY DEF Response
  <1>4. resp' \in [Proc -> Seq(Response)]
    BY <1>3, RespondType DEF HandleCrc
  <1>5. conn' \in [Proc -> ConnState] /\ faults' \in 0..MaxFaults
    BY NameType DEF HandleCrc
  <1>6. UNCHANGED <<local, pc, clientVars, up, clients, disk>>
    BY DEF HandleCrc
  <1>7. QED
    BY <1>1, <1>2, <1>4, <1>5, <1>6, ServerType DEF TypeOK

LEMMA FailRequestType ==
    ASSUME TypeInv, NEW p \in Proc, FailRequest(p)
    PROVE  TypeInv'
  <1> USE DEF TypeInv
  <1>1. [code |-> GENERAL_FAIL_CODE] \in Response
    BY DEF Response
  <1>2. resp' \in [Proc -> Seq(Response)]
    BY <1>1, RespondType DEF FailRequest, TypeOK
  <1>3. conn' \in [Proc -> ConnState] /\ req' \in [Proc -> Seq(Request)]
    BY CloseType DEF FailRequest
  <1>4. faults' \in 0..MaxFaults
    BY FaultType DEF FailRequest, TypeOK
  <1>5. UNCHANGED <<local, pc, clientVars, up, storeVars>>
    BY DEF FailRequest
  <1>6. QED
    BY <1>2, <1>3, <1>4, <1>5, ServerType DEF TypeOK, storeVars

LEMMA DisconnectType ==
    ASSUME TypeInv, NEW p \in Proc, Disconnect(p)
    PROVE  TypeInv'
  <1>1. conn' \in [Proc -> ConnState] /\ req' \in [Proc -> Seq(Request)]
    BY CloseType DEF Disconnect, TypeInv
  <1>2. UNCHANGED <<local, pc, clientVars, up, storeVars, resp, faults>>
    BY DEF Disconnect
  <1>3. QED
    BY <1>1, <1>2, ServerType DEF TypeInv, TypeOK, storeVars

LEMMA ServerDownType ==
    ASSUME TypeOK, ServerDown
    PROVE  up' \in BOOLEAN /\ conn' \in [Proc -> ConnState] /\ req' \in [Proc -> Seq(Request)]
  BY EmptySeq DEF TypeOK, ServerDown, ConnState

LEMMA TearSendFileType ==
    ASSUME TypeInv, NEW p \in Proc, TearSendFile(p)
    PROVE  TypeInv'
  <1> USE DEF TypeInv
  <1> DEFINE id == IdOf[p]
             m == Head(req[p])
  <1>1. id \in ID
    BY TransferConstantsOK
  <1>2. m \in Request
    BY HeadTailProperties DEF TearSendFile, Requested, TypeOK
  <1>3. m.block \in Block
    BY <1>2, PacketType DEF TearSendFile, Requested
  <1>4. PICK torn \in Torn(id, m) :
            disk' = [disk EXCEPT ![id] = torn[1]] /\ files' = torn[2]
    BY DEF TearSendFile
  <1>5. /\ torn[1] \in Seq(StoredBlock)
        /\ torn[2] \in [ID -> BOOLEAN \cup {NULL}]
    <2>1. <<>> \in Seq(StoredBlock) /\ Written(id, m.block) \in Seq(StoredBlock)
      BY <1>1, <1>3, WrittenType, EmptySeq
    <2>2. files \in [ID -> BOOLEAN \cup {NULL}]
      BY DEF TypeOK
    <2>3. Listed(id, m.block) \in [ID -> BOOLEAN \cup {NULL}]
      BY <1>1, ListedType
    <2>4. PICK data \in {<<>>, Written(id, m.block)}, table \in {files, Listed(id, m.block)} :
              torn = <<data, table>>
      BY DEF Torn
    <2>5. QED  BY <2>1, <2>2, <2>3, <2>4
  <1>6. disk' \in [ID -> Seq(StoredBlock)] /\ files' \in [ID -> BOOLEAN \cup {NULL}]
    BY <1>1, <1>4, <1>5 DEF TypeOK
  <1>7. [code |-> GENERAL_FAIL_CODE] \in Response
    BY DEF Response
  <1>8. resp' \in [Proc -> Seq(Response)]
    BY <1>7, RespondType DEF TearSendFile, TypeOK
  <1>9. /\ up' \in BOOLEAN /\ conn' \in [Proc -> ConnState]
        /\ req' \in [Proc -> Seq(Request)]
    BY ServerDownType, CloseType DEF TearSendFile, TypeOK
  <1>10. faults' \in 0..MaxFaults
    BY FaultType DEF TearSendFile
  <1>11. UNCHANGED <<local, pc, clientVars, clients>>
    BY DEF TearSendFile
  <1>12. QED
    BY <1>6, <1>8, <1>9, <1>10, <1>11, ServerType DEF TypeOK

LEMMA ServerProcessType ==
    ASSUME TypeInv, ServerCrash \/ ServerRestart
    PROVE  TypeInv'
  <1> USE DEF TypeInv
  <1>1. /\ up' \in BOOLEAN /\ conn' \in [Proc -> ConnState]
        /\ req' \in [Proc -> Seq(Request)]
    BY ServerDownType DEF ServerCrash, ServerRestart, TypeOK
  <1>2. faults' \in 0..MaxFaults
    BY FaultType DEF ServerCrash, ServerRestart, TypeOK
  <1>3. UNCHANGED <<local, pc, clientVars, storeVars, resp>>
    BY DEF ServerCrash, ServerRestart
  <1>4. QED
    BY <1>1, <1>2, <1>3, ServerType DEF TypeOK, storeVars

LEMMA TypeStep == TypeInv /\ [Next]_vars => TypeInv'
  <1> SUFFICES ASSUME TypeInv, [Next]_vars  PROVE TypeInv'
    OBVIOUS
  <1>1. ASSUME NEW p \in Proc, Start(p) \/ ClientStep(p) \/ Crash(p)
        PROVE  TypeInv'
    BY <1>1, StartType, ReceiveLoginType, OpenFileType, SendPacketType,
       ReceiveCrcType, ReceiveAckType, EndsType DEF ClientStep
  <1>2. ASSUME NEW p \in Proc, ServerStep(p) \/ TearSendFile(p)
        PROVE  TypeInv'
    BY <1>2, HandleLoginType, HandlePacketType, HandleLastPacketType,
       FailLastPacketType, HandleCrcType, FailRequestType, DisconnectType,
       TearSendFileType DEF ServerStep
  <1>3. ASSUME NEW id \in ID, Edit(id)
        PROVE  TypeInv'
    BY <1>3, EditType
  <1>4. CASE ServerCrash \/ ServerRestart
    BY <1>4, ServerProcessType
  <1>5. CASE UNCHANGED vars
    BY <1>5 DEF vars, TypeInv, TypeOK, LoopsInside
  <1>6. QED
    BY <1>1, <1>2, <1>3, <1>4, <1>5 DEF Next, Idle

LEMMA TypeInvariant == Spec => []TypeInv
  BY TypeInit, TypeStep, PTL DEF Spec

\* Every variable of Transfer keeps its type, and no trial loop runs past
\* NUM_OF_TRIALS (handle_send_file).
THEOREM TypeCorrect == Spec => []TypeOK
  <1>1. TypeInv => TypeOK
    BY DEF TypeInv
  <1>2. QED  BY TypeInvariant, <1>1, PTL
-----------------------------------------------------------------------------
(* An upload under a key that was replaced. *)

IsPacket(m) == m.code = SEND_FILE_REQUEST_CODE

\* The packets in flight are encrypted with the key of their process, which has
\* none before it is accepted.
PacketsOwnKey ==
    \A p \in Proc : \A i \in DOMAIN req[p] :
        IsPacket(req[p][i]) => /\ req[p][i].block.key = aes[p]
                               /\ pc[p] \notin {"off", "awaitLogin"}

KeyInv == TypeInv /\ PacketsOwnKey

\* What a step may do to the requests of a process without a new packet.
NoNewPacket(p) ==
    \A i \in DOMAIN req'[p] :
        IsPacket(req'[p][i]) => \E j \in DOMAIN req[p] : req'[p][i] = req[p][j]

LEMMA SentAddsNoPacket ==
    ASSUME TypeOK, NEW p \in Proc, NEW m \in Request, ~IsPacket(m), req' = Sent(p, m)
    PROVE  \A q \in Proc : NoNewPacket(q)
  <1>1. \A q \in Proc : req[q] \in Seq(Request)
    BY DEF TypeOK
  <1>2. \A q \in Proc : req'[q] = req[q] \/ (q = p /\ req'[q] = Append(req[q], m))
    BY DEF Sent, TypeOK
  <1>3. ASSUME NEW q \in Proc, req'[q] = Append(req[q], m)
        PROVE  NoNewPacket(q)
    BY <1>1, <1>3, AppendProperties DEF NoNewPacket
  <1>4. QED  BY <1>2, <1>3 DEF NoNewPacket

LEMMA TakenAddsNoPacket ==
    ASSUME TypeOK, NEW p \in Proc,
           \A q \in Proc : \/ req'[q] = req[q] \/ req'[q] = <<>>
                           \/ req[q] # <<>> /\ req'[q] = Tail(req[q])
    PROVE  \A q \in Proc : NoNewPacket(q)
  <1>1. SUFFICES ASSUME NEW q \in Proc  PROVE NoNewPacket(q)
    OBVIOUS
  <1>2. req[q] \in Seq(Request)
    BY DEF TypeOK
  <1>3. CASE req[q] # <<>> /\ req'[q] = Tail(req[q])
    <2>1. \A i \in DOMAIN Tail(req[q]) :
             Tail(req[q])[i] = req[q][i + 1] /\ i + 1 \in DOMAIN req[q]
      BY <1>2, <1>3, HeadTailProperties
    <2>2. QED  BY <1>3, <2>1 DEF NoNewPacket
  <1>4. QED  BY <1>3 DEF NoNewPacket

\* Where no packet is new, and a key changes only while its process is at login,
\* the packets keep their keys.
LEMMA PacketsKeep ==
    ASSUME PacketsOwnKey, \A q \in Proc : NoNewPacket(q),
           \A q \in Proc : pc[q] \notin {"off", "awaitLogin"}
                             => aes'[q] = aes[q] /\ pc'[q] \notin {"off", "awaitLogin"}
    PROVE  PacketsOwnKey'
  BY DEF PacketsOwnKey, NoNewPacket, IsPacket

LEMMA KeyStep == KeyInv /\ [Next]_vars => KeyInv'
  <1> SUFFICES ASSUME KeyInv, [Next]_vars  PROVE PacketsOwnKey'
    BY TypeStep DEF KeyInv
  <1> USE DEF KeyInv, TypeInv
  <1>1. ASSUME NEW p \in Proc, Start(p)
        PROVE  PacketsOwnKey'
    <2>1. /\ aes' = aes
          /\ \A q \in Proc : pc'[q] \in {"off", "awaitLogin"} => pc[q] \in {"off", "awaitLogin"}
      BY <1>1 DEF Start, Goto, clientVars, TypeOK
    <2>2. \A q \in Proc : NoNewPacket(q)
      <3>1. ASSUME NEW q \in Proc  PROVE req'[q] = req[q] \/ req'[q] = <<[code |-> LOGIN_REQUEST_CODE]>>
        BY <1>1 DEF Start, TypeOK
      <3>2. QED
        BY <3>1 DEF NoNewPacket, IsPacket, LOGIN_REQUEST_CODE, SEND_FILE_REQUEST_CODE
    <2>3. QED  BY <2>1, <2>2, PacketsKeep
  <1>2. ASSUME NEW p \in Proc, ReceiveLogin(p) \/ OpenFile(p) \/ LoseConnection(p) \/ Crash(p)
        PROVE  PacketsOwnKey'
    <2>1. req' = req
      BY <1>2 DEF ReceiveLogin, OpenFile, LoseConnection, Crash
    <2>2. /\ \A q \in Proc : pc[q] \notin {"off", "awaitLogin"} => aes'[q] = aes[q]
          /\ \A q \in Proc : pc'[q] \in {"off", "awaitLogin"} => pc[q] \in {"off", "awaitLogin"}
      BY <1>2 DEF ReceiveLogin, OpenFile, LoseConnection, Crash, Goto, clientVars, TypeOK
    <2>3. QED  BY <2>1, <2>2, PacketsKeep DEF NoNewPacket
  <1>3. ASSUME NEW p \in Proc, SendPacket(p)
        PROVE  PacketsOwnKey'
    <2> DEFINE n == sent[p] + 1
               data == Content(sending[p], aes[p])
               m == [code |-> SEND_FILE_REQUEST_CODE, block |-> data[n], total |-> Len(data)]
    <2>1. data[n].key = aes[p]
      <3>1. sending[p] \in Version /\ aes[p] \in Nat /\ sent[p] \in Nat
        BY DEF TypeOK
      <3>2. n \in 1..Size[sending[p]]
        BY <1>3, <3>1, SizeIsPositive DEF SendPacket, LoopsInside
      <3>3. data[n] = [version |-> sending[p], idx |-> n, key |-> aes[p]]
        BY <3>1, <3>2, ContentType
      <3>4. QED  BY <3>3
    <2>2. m.block.key = aes[p] /\ req' = Sent(p, m)
      BY <1>3, <2>1 DEF SendPacket
    <2> HIDE DEF m
    <2>3. aes' = aes /\ \A q \in Proc : pc'[q] = pc[q] \/ (q = p /\ pc'[q] \notin {"off", "awaitLogin"})
      BY <1>3 DEF SendPacket, Goto, TypeOK
    <2>4. \A q \in Proc : req'[q] = req[q] \/ (q = p /\ req'[q] = Append(req[q], m))
      BY <2>2 DEF Sent, TypeOK
    <2>5. pc[p] = "send" /\ \A q \in Proc : req[q] \in Seq(Request)
      BY <1>3 DEF SendPacket, TypeOK
    <2>6. ASSUME NEW q \in Proc, NEW i \in DOMAIN req'[q], IsPacket(req'[q][i])
          PROVE  req'[q][i].block.key = aes'[q] /\ pc'[q] \notin {"off", "awaitLogin"}
      <3>1. CASE req'[q] = req[q]
        BY <2>3, <2>6, <3>1 DEF PacketsOwnKey
      <3>2. CASE q = p /\ req'[q] = Append(req[q], m)
        <4>1. pc'[q] \notin {"off", "awaitLogin"}
          BY <2>3, <2>5, <3>2
        <4>2. (i \in DOMAIN req[q] /\ req'[q][i] = req[q][i]) \/ req'[q][i] = m
          BY <2>5, <3>2, AppendProperties
        <4>3. CASE req'[q][i] = m
          BY <2>2, <2>3, <3>2, <4>1, <4>3
        <4>4. CASE i \in DOMAIN req[q] /\ req'[q][i] = req[q][i]
          BY <2>3, <2>6, <4>1, <4>4 DEF PacketsOwnKey
        <4>5. QED  BY <4>2, <4>3, <4>4
      <3>3. QED  BY <2>4, <3>1, <3>2
    <2>7. QED  BY <2>6 DEF PacketsOwnKey
  <1>4. ASSUME NEW p \in Proc, ReceiveCrc(p)
        PROVE  PacketsOwnKey'
    <2>1. /\ aes' = aes
          /\ \A q \in Proc : pc'[q] \in {"off", "awaitLogin"} => pc[q] \in {"off", "awaitLogin"}
      BY <1>4 DEF ReceiveCrc, Verdict, Goto, clientVars, TypeOK
    <2>2. req' = req \/ \E code \in CrcCodes : req' = Sent(p, [code |-> code])
      BY <1>4 DEF ReceiveCrc, Verdict, CrcCodes
    <2>3. ASSUME NEW code \in CrcCodes, req' = Sent(p, [code |-> code])
          PROVE  \A q \in Proc : NoNewPacket(q)
      <3> DEFINE m == [code |-> code]
      <3>1. m \in Request /\ ~IsPacket(m)
        BY DEF Request, IsPacket, CrcCodes, SEND_FILE_REQUEST_CODE, VALID_CRC_REQUEST_CODE,
               INVALID_CRC_REQUEST_CODE, INVALID_CRC_FINAL_REQUEST_CODE
      <3>2. req' = Sent(p, m)
        BY <2>3
      <3> HIDE DEF m
      <3>3. QED  BY <3>1, <3>2, SentAddsNoPacket
    <2>4. \A q \in Proc : NoNewPacket(q)
      BY <2>2, <2>3 DEF NoNewPacket
    <2>5. QED  BY <2>1, <2>4, PacketsKeep
  <1>5. ASSUME NEW p \in Proc, ReceiveAck(p)
        PROVE  PacketsOwnKey'
    <2>1. /\ aes' = aes /\ req' = req
          /\ \A q \in Proc : pc'[q] \in {"off", "awaitLogin"} => pc[q] \in {"off", "awaitLogin"}
      BY <1>5 DEF ReceiveAck, Goto, TypeOK
    <2>2. QED  BY <2>1, PacketsKeep DEF NoNewPacket
  <1>6. ASSUME NEW p \in Proc, ServerStep(p) \/ TearSendFile(p)
        PROVE  PacketsOwnKey'
    <2>1. UNCHANGED <<pc, aes>>
      BY <1>6 DEF ServerStep, HandleLogin, HandlePacket, HandleLastPacket, FailLastPacket,
                  HandleCrc, FailRequest, Disconnect, TearSendFile, clientVars
    <2>2. ASSUME NEW q \in Proc
          PROVE  \/ req'[q] = req[q] \/ req'[q] = <<>>
                 \/ req[q] # <<>> /\ req'[q] = Tail(req[q])
      BY <1>6 DEF ServerStep, HandleLogin, HandlePacket, HandleLastPacket, FailLastPacket,
                  HandleCrc, FailRequest, Disconnect, TearSendFile, Serve, Requested, Close,
                  ServerDown, TypeOK
    <2>3. QED  BY <2>1, <2>2, TakenAddsNoPacket, PacketsKeep
  <1>7. CASE ServerCrash \/ ServerRestart
    <2>1. UNCHANGED <<pc, aes>> /\ \A q \in Proc : req'[q] = req[q] \/ req'[q] = <<>>
      BY <1>7 DEF ServerCrash, ServerRestart, ServerDown, clientVars
    <2>2. QED  BY <2>1, PacketsKeep DEF NoNewPacket
  <1>8. CASE (\E id \in ID : Edit(id)) \/ UNCHANGED vars
    <2>1. UNCHANGED <<pc, aes, req>>
      BY <1>8 DEF Edit, clientVars, vars
    <2>2. QED  BY <2>1, PacketsKeep DEF NoNewPacket
  <1>9. QED
    BY <1>1, <1>2, <1>3, <1>4, <1>5, <1>6, <1>7, <1>8 DEF Next, Idle, ClientStep

LEMMA KeyInvariant == Spec => []KeyInv
  <1>1. Init => KeyInv
    BY TypeInit DEF KeyInv, PacketsOwnKey, Init
  <1>2. QED  BY <1>1, KeyStep, PTL DEF Spec

\* Data that decrypt to a version of a file were all encrypted with the key.
LEMMA DecryptedIsOwnKey ==
    ASSUME NEW data \in Seq(StoredBlock), NEW key, NEW v \in Version,
           Decrypted(data, key) = Plain(v)
    PROVE  \A i \in DOMAIN data : data[i].key = key
  <1>1. SUFFICES ASSUME NEW i \in DOMAIN data  PROVE data[i].key = key
    OBVIOUS
  <1>2. DOMAIN data = 1..Size[v]
    BY DEF Decrypted, Plain, Content
  <1>3. Plain(v)[i] = [version |-> v, idx |-> i, key |-> NoAesKey]
    BY <1>2 DEF Plain, Content
  <1>4. Decrypted(data, key)[i] # Garbage
    <2>1. v # 0
      BY TransferConstantsOK DEF Version
    <2>2. QED  BY <1>3, <2>1 DEF Garbage
  <1>5. Intact(data, i, key)
    BY <1>4 DEF Decrypted
  <1>6. QED  BY <1>5 DEF Intact

\* The answer that confirms an upload comes from the handler of the last packet.
LEMMA ConfirmedByLastPacket ==
    ASSUME TypeOK, Next, NEW p \in Proc, NEW c,
           resp' = [resp EXCEPT ![p] = Append(@, [code |-> RECEIVED_FILE_SUCCESS_CODE,
                                                  checksum |-> c])]
    PROVE  HandleLastPacket(p)
  <1> DEFINE answer == [code |-> RECEIVED_FILE_SUCCESS_CODE, checksum |-> c]
  <1>1. /\ \A q \in Proc : resp[q] \in Seq(Response)
        /\ resp'[p] = Append(resp[p], answer)
    BY DEF TypeOK
  <1>2. ASSUME UNCHANGED resp  PROVE FALSE
    BY <1>1, <1>2, AppendProperties
  <1>3. ASSUME NEW q \in Proc, Receive(q)  PROVE FALSE
    <2>1. resp'[q] = Tail(resp[q]) /\ resp[q] # <<>> /\ (q # p => resp'[p] = resp[p])
      BY <1>3 DEF Receive, TypeOK
    <2>2. Len(Tail(resp[q])) = Len(resp[q]) - 1
      BY <1>1, <2>1, HeadTailProperties
    <2> DEFINE before == Len(resp[p])
               after == Len(resp'[p])
    <2>3. after = before + 1 /\ before \in Nat
      <3> HIDE DEF answer
      <3>1. QED  BY <1>1
    <2>4. CASE q = p
      <3>1. after = before - 1
        BY <2>1, <2>2, <2>4
      <3> HIDE DEF before, after
      <3>2. QED  BY <2>3, <3>1
    <2>5. CASE q # p
      <3>1. after = before
        BY <2>1, <2>5
      <3> HIDE DEF before, after
      <3>2. QED  BY <2>3, <3>1
    <2>6. QED  BY <2>4, <2>5
  <1>4. ASSUME NEW q \in Proc, NEW m, Respond(q, m)  PROVE q = p /\ m = answer
    <2>1. resp'[q] = Append(resp[q], m) /\ (q # p => resp'[p] = resp[p])
      BY <1>4 DEF Respond, TypeOK
    <2>2. q = p
      BY <1>1, <2>1, AppendProperties
    <2>3. QED  BY <1>1, <2>1, <2>2, AppendProperties
  <1>5. ASSUME NEW q \in Proc, NEW m, Respond(q, m), m.code # RECEIVED_FILE_SUCCESS_CODE  PROVE FALSE
    BY <1>4, <1>5
  <1>6. ASSUME NEW q \in Proc, ClientStep(q) \/ Start(q) \/ Crash(q)  PROVE FALSE
    BY <1>6, <1>2, <1>3 DEF ClientStep, Start, Crash, ReceiveLogin, OpenFile, SendPacket,
       ReceiveCrc, ReceiveAck, LoseConnection
  <1>7. ASSUME NEW q \in Proc, ServerStep(q) \/ TearSendFile(q)  PROVE HandleLastPacket(p)
    <2>1. CASE HandleLogin(q)
      <3>1. PICK key : Respond(q, [code |-> LOGIN_SUCCESS_CODE, aes |-> key])
        BY <2>1 DEF HandleLogin
      <3>2. QED  BY <3>1, <1>5 DEF LOGIN_SUCCESS_CODE, RECEIVED_FILE_SUCCESS_CODE
    <2>2. CASE HandlePacket(q) \/ Disconnect(q)
      BY <2>2, <1>2 DEF HandlePacket, Disconnect
    <2>3. CASE HandleLastPacket(q)
      <3>1. PICK m : Respond(q, m)
        BY <2>3 DEF HandleLastPacket
      <3>2. q = p
        BY <3>1, <1>4
      <3>3. QED  BY <2>3, <3>2
    <2>4. CASE FailLastPacket(q) \/ HandleCrc(q) \/ FailRequest(q) \/ TearSendFile(q)
      <3>1. \/ UNCHANGED resp
            \/ \E code \in {GENERAL_FAIL_CODE, SERVER_ACK_CODE} : Respond(q, [code |-> code])
        BY <2>4 DEF FailLastPacket, HandleCrc, FailRequest, TearSendFile
      <3>2. QED
        BY <3>1, <1>2, <1>5 DEF GENERAL_FAIL_CODE, SERVER_ACK_CODE, RECEIVED_FILE_SUCCESS_CODE
    <2>5. QED  BY <1>7, <2>1, <2>2, <2>3, <2>4 DEF ServerStep
  <1>8. ASSUME (\E id \in ID : Edit(id)) \/ ServerCrash \/ ServerRestart \/ Idle  PROVE FALSE
    BY <1>8, <1>2 DEF Edit, ServerCrash, ServerRestart, Idle, vars
  <1>9. QED  BY <1>6, <1>7, <1>8 DEF Next

\* Once a sibling has logged in, no upload under the old key is confirmed any
\* more, whatever fails and however many executions overlap
\* (handle_send_file_request decrypts with the key in the table).
THEOREM DisplacedUploadNeverMatchesHolds == Spec => DisplacedUploadNeverMatches
  <1> DEFINE Confirmed(p) ==
        resp' = [resp EXCEPT ![p] = Append(@, [code |-> RECEIVED_FILE_SUCCESS_CODE,
                                               checksum |-> Plain(sum[p])])]
             Stale == \A p \in Proc : Confirmed(p) => get_aes_key(clients, IdOf[p]) = aes[p]
  <1>1. ASSUME KeyInv, [Next]_vars  PROVE Stale \/ UNCHANGED vars
    <2>1. SUFFICES ASSUME Next, NEW p \in Proc, Confirmed(p)
                   PROVE  get_aes_key(clients, IdOf[p]) = aes[p]
      BY <1>1
    <2> DEFINE block == Head(req[p]).block
               data == Written(IdOf[p], block)
               plain == Decrypted(data, ServerKey(p))
    <2> USE DEF KeyInv, TypeInv
    <2>2. HandleLastPacket(p)
      BY <1>1, <2>1, ConfirmedByLastPacket
    <2>3. sum[p] \in Version /\ IdOf[p] \in ID /\ resp[p] \in Seq(Response)
      BY <1>1, TransferConstantsOK DEF TypeOK
    <2>4. Respond(p, [code |-> RECEIVED_FILE_SUCCESS_CODE, checksum |-> plain])
      BY <2>2 DEF HandleLastPacket
    <2>5. plain = Plain(sum[p])
      <3> HIDE DEF plain
      <3>1. /\ resp'[p] = Append(resp[p], [code |-> RECEIVED_FILE_SUCCESS_CODE, checksum |-> plain])
            /\ resp'[p] = Append(resp[p], [code |-> RECEIVED_FILE_SUCCESS_CODE,
                                          checksum |-> Plain(sum[p])])
        BY <1>1, <2>1, <2>4 DEF Respond, TypeOK
      <3>2. [code |-> RECEIVED_FILE_SUCCESS_CODE, checksum |-> plain]
              = [code |-> RECEIVED_FILE_SUCCESS_CODE, checksum |-> Plain(sum[p])]
        BY <2>3, <3>1, AppendProperties
      <3>3. QED  BY <3>2
    <2>6. /\ req[p] \in Seq(Request) /\ req[p] # <<>> /\ IsPacket(Head(req[p]))
          /\ Head(req[p]) \in Request
      BY <1>1, <2>2, HeadTailProperties
         DEF HandleLastPacket, Serve, Requested, IsPacket, TypeOK
    <2>7. block \in Block
      BY <2>6, PacketType DEF IsPacket
    <2>8. block.key = aes[p]
      <3>1. Head(req[p]) = req[p][1] /\ 1 \in DOMAIN req[p]
        BY <2>6, EmptySeq
      <3>2. QED  BY <1>1, <2>6, <3>1 DEF PacketsOwnKey
    <2>9. data \in Seq(StoredBlock) /\ Len(data) \in DOMAIN data /\ data[Len(data)] = block
      <3>1. disk[IdOf[p]] \in Seq(StoredBlock) /\ block \in StoredBlock
        BY <1>1, <2>3, <2>7 DEF TypeOK, StoredBlock
      <3>2. QED  BY <3>1, EmptySeq, AppendProperties DEF Written
    <2>10. block.key = ServerKey(p)
      <3> HIDE DEF data, block
      <3>1. data[Len(data)].key = ServerKey(p)
        BY <2>3, <2>5, <2>9, DecryptedIsOwnKey
      <3>2. QED  BY <2>9, <3>1
    <2>11. QED  BY <2>8, <2>10 DEF ServerKey
  <1>2. QED
    BY <1>1, KeyInvariant, PTL DEF Spec, DisplacedUploadNeverMatches
=============================================================================
