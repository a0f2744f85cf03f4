------------------------ MODULE TransferSerialProofs ------------------------
(***************************************************************************)
(* That what the processes of a client report, what the server records and *)
(* what it stores agree, in an environment that runs one process of a      *)
(* client at a time and in which no name arrives cut short and no handler  *)
(* stops between its writes.  Processes and the server may crash, and      *)
(* payloads be late, at any moment.                                        *)
(*                                                                         *)
(* The inductive invariant is SerialInv.  A process is active from its     *)
(* start until it is over and the server has noticed.  Of each client one  *)
(* process is active; its key is the one in the table; and what is in      *)
(* flight from it and to it is about what is on disk at that moment.  The  *)
(* refinement of Backup, at the end, rests on it too.                      *)
(***************************************************************************)
EXTENDS TransferBackup, TransferProofs

Serial == ~MayOverlap /\ "torn" \notin FaultKinds /\ "shortName" \notin FaultKinds

Active(p) == pc[p] \in Running \/ Connected(p)
LoggedIn(p) == aes[p] # NoAesKey

\* Of the processes of an id at most one is running or has requests that may
\* still be handled.
Alone == \A p \in Proc : \A q \in Siblings(p) : ~Active(p) \/ ~Active(q)

\* Requests are handled on an open connection only; a process has a key from the
\* answer to its login on.
ConnInv(p) ==
    /\ conn[p] \in {"none", "open", "closed"}
    /\ conn[p] # "open" => req[p] = <<>>
    /\ pc[p] = "off" => conn[p] = "none" /\ resp[p] = <<>>
    /\ pc[p] \in {"off", "awaitLogin"} => ~LoggedIn(p)
    /\ pc[p] \in (Running \ {"awaitLogin"}) \cup {"success", "gaveUp"} => LoggedIn(p)

\* No two processes have the same key, and the one that is active has the key of
\* the table.
KeysInv(p) ==
    /\ aes[p] <= ServerKey(p)
    /\ LoggedIn(p) => \A q \in Siblings(p) : aes[q] # aes[p]
    /\ LoggedIn(p) /\ Active(p) => aes[p] = ServerKey(p)

PacketNo(p, n) ==
    [code |-> SEND_FILE_REQUEST_CODE,
     block |-> [version |-> sending[p], idx |-> n, key |-> aes[p]],
     total |-> Size[sending[p]]]

\* The packets handled so far.
Stored(p) == sent[p] - Len(req[p])

\* The packets in flight follow the ones handled, and from the first one handled
\* on the row is there and not verified.
InUpload(p) ==
    /\ LoggedIn(p)
    /\ Stored(p) >= 0
    /\ \A i \in DOMAIN req[p] : req[p][i] = PacketNo(p, Stored(p) + i)
    /\ Stored(p) > 0 => files[IdOf[p]] = FALSE

Sums(p) == disk[IdOf[p]] = Plain(sum[p])

AckOf == [code \in CrcCodes |->
            CASE code = VALID_CRC_REQUEST_CODE -> "awaitAckValid"
              [] code = INVALID_CRC_REQUEST_CODE -> "awaitAckRetry"
              [] code = INVALID_CRC_FINAL_REQUEST_CODE -> "awaitAckFinal"]

\* A verdict is sent about what is stored.
InVerdict(p) ==
    /\ LoggedIn(p)
    /\ files[IdOf[p]] = FALSE
    /\ \E code \in CrcCodes :
         /\ req[p] = <<[code |-> code]>>
         /\ pc[p] \in {AckOf[code], "dead"}
         /\ code = VALID_CRC_REQUEST_CODE => Sums(p)

RequestsInv(p) ==
    /\ \/ req[p] = <<>>
       \/ req[p] = <<[code |-> LOGIN_REQUEST_CODE]>> /\ pc[p] \in {"awaitLogin", "dead"}
            /\ ~LoggedIn(p)
       \/ InUpload(p) /\ pc[p] \in {"send", "awaitCrc", "dead"}
       \/ InVerdict(p)
    /\ conn[p] = "open" /\ pc[p] = "send" => InUpload(p)

\* An answer a running process is going to read is about what is stored.
Fitting(p, m) ==
    \/ m.code = GENERAL_FAIL_CODE /\ conn[p] # "open"
    \/ /\ m.code = LOGIN_SUCCESS_CODE /\ pc[p] = "awaitLogin"
       /\ m.aes = ServerKey(p)
       /\ \A q \in Proc : IdOf[q] = IdOf[p] => aes[q] < m.aes
    \/ /\ m.code = RECEIVED_FILE_SUCCESS_CODE /\ pc[p] = "awaitCrc"
       /\ files[IdOf[p]] = FALSE /\ disk[IdOf[p]] = m.checksum
    \/ /\ m.code = SERVER_ACK_CODE /\ pc[p] \in AwaitingAck
       /\ pc[p] = "awaitAckValid" => files[IdOf[p]] = TRUE /\ Sums(p)
       /\ pc[p] = "awaitAckFinal" => files[IdOf[p]] = FALSE

AnswersInv(p) ==
    pc[p] \in Running /\ resp[p] # <<>>
      => req[p] = <<>> /\ Len(resp[p]) = 1 /\ Fitting(p, Head(resp[p]))

OutcomeInv(p) ==
    aes[p] = ServerKey(p)
      => /\ pc[p] = "success" => files[IdOf[p]] = TRUE /\ Sums(p)
         /\ pc[p] = "gaveUp" => files[IdOf[p]] = FALSE

RowInv(id) ==
    files[id] = TRUE => \E p \in Proc : IdOf[p] = id /\ LoggedIn(p) /\ Sums(p)

ProcInv(p) == ConnInv(p) /\ KeysInv(p) /\ RequestsInv(p) /\ AnswersInv(p) /\ OutcomeInv(p)

SerialInv ==
    /\ KeyInv
    /\ Alone
    /\ \A p \in Proc : ProcInv(p)
    /\ \A id \in ID : RowInv(id)
-----------------------------------------------------------------------------
(* The processes that do not take the step. *)

Own(p) == <<pc[p], conn[p], req[p], resp[p], aes[p], sum[p], sending[p], sent[p]>>
Store(id) == <<files[id], disk[id], get_aes_key(clients, id)>>

LEMMA OwnParts ==
    ASSUME NEW p \in Proc, UNCHANGED Own(p)
    PROVE  /\ pc'[p] = pc[p] /\ conn'[p] = conn[p] /\ req'[p] = req[p] /\ resp'[p] = resp[p]
           /\ aes'[p] = aes[p] /\ sum'[p] = sum[p] /\ sending'[p] = sending[p]
           /\ sent'[p] = sent[p]
  BY DEF Own

LEMMA StoreParts ==
    ASSUME NEW id \in ID, UNCHANGED Store(id)
    PROVE  /\ files'[id] = files[id] /\ disk'[id] = disk[id]
           /\ get_aes_key(clients', id) = get_aes_key(clients, id)
  BY DEF Store

\* A process for which nothing changes, neither of its own nor of its client.
LEMMA Bystander ==
    ASSUME NEW q \in Proc, ProcInv(q), IdOf[q] \in ID,
           UNCHANGED Own(q), UNCHANGED Store(IdOf[q]),
           \A r \in Proc : IdOf[r] = IdOf[q] => aes'[r] = aes[r]
    PROVE  ProcInv(q)'
  <1> USE DEF ProcInv
  <1>1. /\ pc'[q] = pc[q] /\ conn'[q] = conn[q] /\ req'[q] = req[q] /\ resp'[q] = resp[q]
        /\ aes'[q] = aes[q] /\ sum'[q] = sum[q] /\ sending'[q] = sending[q]
        /\ sent'[q] = sent[q]
    BY OwnParts
  <1>2. /\ files'[IdOf[q]] = files[IdOf[q]] /\ disk'[IdOf[q]] = disk[IdOf[q]]
        /\ get_aes_key(clients', IdOf[q]) = get_aes_key(clients, IdOf[q])
    BY StoreParts
  <1>3. LoggedIn(q)' = LoggedIn(q) /\ Active(q)' = Active(q) /\ ServerKey(q)' = ServerKey(q)
        /\ Sums(q)' = Sums(q)
    BY <1>1, <1>2 DEF LoggedIn, Active, Connected, ServerKey, Sums
  <1>4. ConnInv(q)'
    BY <1>1, <1>3 DEF ConnInv
  <1>5. KeysInv(q)'
    BY <1>1, <1>3 DEF KeysInv, Siblings
  <1>6. InUpload(q) => InUpload(q)'
    BY <1>1, <1>2, <1>3 DEF InUpload, Stored, PacketNo
  <1>7. InVerdict(q) => InVerdict(q)'
    BY <1>1, <1>2, <1>3 DEF InVerdict
  <1>8. RequestsInv(q)'
    BY <1>1, <1>3, <1>6, <1>7 DEF RequestsInv
  <1>9. \A m : Fitting(q, m) => Fitting(q, m)'
    BY <1>1, <1>2, <1>3 DEF Fitting
  <1>10. AnswersInv(q)'
    BY <1>1, <1>9 DEF AnswersInv
  <1>11. OutcomeInv(q)'
    BY <1>1, <1>2, <1>3 DEF OutcomeInv
  <1>12. QED  BY <1>4, <1>5, <1>8, <1>10, <1>11

\* A process that is over says nothing about the store but by its outcome.
LEMMA QuietProcess ==
    ASSUME NEW q \in Proc, ProcInv(q), ~Active(q), UNCHANGED Own(q),
           KeysInv(q)', OutcomeInv(q)'
    PROVE  ProcInv(q)'
  <1> USE DEF ProcInv
  <1>1. /\ pc'[q] = pc[q] /\ conn'[q] = conn[q] /\ req'[q] = req[q] /\ resp'[q] = resp[q]
        /\ aes'[q] = aes[q] /\ sum'[q] = sum[q] /\ sending'[q] = sending[q]
        /\ sent'[q] = sent[q]
    BY OwnParts
  <1>2. pc[q] \notin Running /\ conn[q] # "open" /\ req[q] = <<>>
    BY DEF Active, Connected, ConnInv
  <1>3. ConnInv(q)'
    BY <1>1 DEF ConnInv, LoggedIn
  <1>4. RequestsInv(q)'
    BY <1>1, <1>2 DEF RequestsInv
  <1>5. AnswersInv(q)'
    BY <1>1, <1>2 DEF AnswersInv
  <1>6. QED  BY <1>3, <1>4, <1>5

LEMMA AloneKeeps ==
    ASSUME Alone, \A q \in Proc : Active(q)' => Active(q)
    PROVE  Alone'
  BY DEF Alone, Siblings

LEMMA ActiveKeeps ==
    ASSUME NEW q \in Proc, UNCHANGED Own(q)
    PROVE  Active(q)' = Active(q)
  BY OwnParts DEF Active, Connected

\* A step of p that changes neither what is stored nor a key.
LEMMA LocalStep ==
    ASSUME SerialInv, KeyInv', NEW p \in Proc,
           \A q \in Proc \ {p} : UNCHANGED Own(q),
           UNCHANGED <<clients, files, disk, aes, sum>>,
           Alone', ProcInv(p)'
    PROVE  SerialInv'
  <1>1. ASSUME NEW q \in Proc \ {p}  PROVE ProcInv(q)'
    <2>1. IdOf[q] \in ID
      BY TransferConstantsOK
    <2>2. UNCHANGED Store(IdOf[q])
      BY DEF Store
    <2>3. QED  BY <2>1, <2>2, Bystander DEF SerialInv
  <1>2. ASSUME NEW id \in ID  PROVE RowInv(id)'
    BY DEF SerialInv, RowInv, LoggedIn, Sums
  <1>3. QED  BY <1>1, <1>2 DEF SerialInv
-----------------------------------------------------------------------------
(* The client's steps. *)

LEMMA StartSerial ==
    ASSUME Serial, SerialInv, KeyInv', NEW p \in Proc, Start(p)
    PROVE  SerialInv'
  <1> USE DEF SerialInv, KeyInv, TypeInv
  <1>1. /\ pc[p] = "off" /\ conn[p] = "none" /\ req[p] = <<>> /\ resp[p] = <<>>
        /\ ~LoggedIn(p)
    BY DEF Start, ProcInv, ConnInv
  <1>2. UNCHANGED <<clients, files, disk, aes, sum, sending, sent, resp>>
    BY DEF Start, storeVars, clientVars
  <1>3. \A q \in Proc \ {p} : pc'[q] = pc[q] /\ conn'[q] = conn[q] /\ req'[q] = req[q]
    BY DEF Start, Goto, TypeOK
  <1>4. \A q \in Proc \ {p} : UNCHANGED Own(q)
    BY <1>2, <1>3 DEF Own
  <1>5. \/ pc'[p] = "awaitLogin" /\ conn'[p] = "open"
           /\ req'[p] = <<[code |-> LOGIN_REQUEST_CODE]>>
        \/ pc'[p] = "failed" /\ conn'[p] = "none" /\ req'[p] = <<>>
    BY <1>1 DEF Start, Goto, TypeOK
  <1>6. Alone'
    <2>1. \A q \in Siblings(p) : ~Active(q)
      BY DEF Start, Serial, Siblings, Active, Over, Running, AwaitingAck
    <2>2. \A q \in Proc \ {p} : Active(q)' = Active(q)
      BY <1>4, ActiveKeeps
    <2>3. QED  BY <2>1, <2>2 DEF Alone, Siblings
  <1>7. ProcInv(p)'
    <2>1. resp'[p] = <<>> /\ ~LoggedIn(p)' /\ ServerKey(p)' = ServerKey(p) /\ aes'[p] = aes[p]
      BY <1>1, <1>2 DEF LoggedIn, ServerKey
    <2>2. ConnInv(p)'
      BY <1>5, <2>1 DEF ConnInv, Running, AwaitingAck
    <2>3. KeysInv(p)'
      BY <2>1 DEF KeysInv, ProcInv
    <2>4. RequestsInv(p)'
      BY <1>5, <2>1 DEF RequestsInv
    <2>5. AnswersInv(p)'
      BY <2>1 DEF AnswersInv
    <2>6. OutcomeInv(p)'
      BY <1>5 DEF OutcomeInv
    <2>7. QED  BY <2>2, <2>3, <2>4, <2>5, <2>6 DEF ProcInv
  <1>8. QED  BY <1>2, <1>4, <1>6, <1>7, LocalStep

\* What all steps of a running process have in common.
LEMMA RunningStep ==
    ASSUME SerialInv, KeyInv', NEW p \in Proc, Active(p),
           \A q \in Proc \ {p} : UNCHANGED Own(q),
           UNCHANGED <<clients, files, disk, aes, sum>>,
           ConnInv(p)', RequestsInv(p)', AnswersInv(p)', OutcomeInv(p)'
    PROVE  SerialInv'
  <1>1. \A q \in Proc : Active(q)' => Active(q)
    BY ActiveKeeps
  <1>2. Alone'
    BY <1>1, AloneKeeps DEF SerialInv
  <1>3. KeysInv(p)'
    <2>1. ServerKey(p)' = ServerKey(p) /\ aes' = aes
      BY DEF ServerKey
    <2>2. QED  BY <1>1, <2>1 DEF SerialInv, ProcInv, KeysInv, LoggedIn, Siblings
  <1>4. QED  BY <1>2, <1>3, LocalStep DEF ProcInv

LEMMA OpenFileSerial ==
    ASSUME SerialInv, KeyInv', NEW p \in Proc, OpenFile(p)
    PROVE  SerialInv'
  <1> USE DEF SerialInv, KeyInv, TypeInv
  <1>1. UNCHANGED <<clients, files, disk, conn, req, resp, aes, sum>> /\ pc[p] = "openFile"
    BY DEF OpenFile, storeVars
  <1>2. /\ pc'[p] = "send" /\ sent'[p] = 0
        /\ \A q \in Proc \ {p} : pc'[q] = pc[q] /\ sent'[q] = sent[q] /\ sending'[q] = sending[q]
    BY DEF OpenFile, Goto, TypeOK
  <1>3. \A q \in Proc \ {p} : UNCHANGED Own(q)
    BY <1>1, <1>2 DEF Own
  <1>4. req[p] = <<>> /\ LoggedIn(p) /\ LoggedIn(p)'
    BY <1>1 DEF ProcInv, RequestsInv, ConnInv, InVerdict, AckOf, CrcCodes, LoggedIn, Running
  <1>5. InUpload(p)'
    BY <1>1, <1>2, <1>4 DEF InUpload, Stored
  <1>6. ConnInv(p)'
    BY <1>1, <1>2, <1>4 DEF ConnInv, ProcInv
  <1>7. RequestsInv(p)'
    BY <1>1, <1>4, <1>5 DEF RequestsInv
  <1>8. AnswersInv(p)'
    <2>1. resp[p] # <<>> => Len(resp[p]) = 1 /\ Fitting(p, Head(resp[p]))
      BY <1>1 DEF ProcInv, AnswersInv, Running
    <2>2. resp[p] # <<>> => Len(resp[p]) = 1 /\ Head(resp[p]).code = GENERAL_FAIL_CODE
                            /\ conn[p] # "open"
      BY <1>1, <2>1 DEF Fitting, AwaitingAck
    <2>3. QED  BY <1>1, <1>4, <2>2 DEF AnswersInv, Fitting
  <1>9. OutcomeInv(p)'
    BY <1>2 DEF OutcomeInv
  <1>10. Active(p)
    BY <1>1 DEF Active, Running
  <1>11. QED  BY <1>1, <1>3, <1>6, <1>7, <1>8, <1>9, <1>10, RunningStep

\* What is under way to or from a process in send is packets, or the answer that
\* came with a closed connection.
LEMMA SendingAnswers ==
    ASSUME NEW p \in Proc, ProcInv(p), pc[p] = "send"
    PROVE  resp[p] # <<>> => Len(resp[p]) = 1 /\ Head(resp[p]).code = GENERAL_FAIL_CODE
                             /\ conn[p] # "open"
  BY DEF ProcInv, AnswersInv, Running, Fitting, AwaitingAck

LEMMA SendPacketSerial ==
    ASSUME SerialInv, KeyInv', NEW p \in Proc, SendPacket(p)
    PROVE  SerialInv'
  <1> USE DEF SerialInv, KeyInv, TypeInv
  <1> DEFINE n == sent[p] + 1
             m == [code |-> SEND_FILE_REQUEST_CODE,
                   block |-> Content(sending[p], aes[p])[n],
                   total |-> Len(Content(sending[p], aes[p]))]
  <1>1. UNCHANGED <<clients, files, disk, conn, resp, aes, sum, sending>> /\ pc[p] = "send"
    BY DEF SendPacket, storeVars
  <1>2. m = PacketNo(p, n)
    <2>1. sending[p] \in Version /\ aes[p] \in Nat /\ sent[p] \in Nat
      BY DEF TypeOK
    <2>2. n \in 1..Size[sending[p]]
      BY <1>1, <2>1, SizeIsPositive DEF LoopsInside
    <2>3. QED  BY <2>1, <2>2, ContentType DEF PacketNo
  <1>3. req' = Sent(p, PacketNo(p, n))
    <2>1. req' = Sent(p, m)
      BY DEF SendPacket
    <2> HIDE DEF m, n
    <2>2. QED  BY <1>2, <2>1
  <1>4. /\ pc'[p] \in {"send", "awaitCrc"} /\ sent'[p] = n
        /\ \A q \in Proc \ {p} : pc'[q] = pc[q] /\ sent'[q] = sent[q]
    BY DEF SendPacket, Goto, TypeOK
  <1>5. \A q \in Proc \ {p} : req'[q] = req[q]
    BY <1>3 DEF Sent, TypeOK
  <1>6. \A q \in Proc \ {p} : UNCHANGED Own(q)
    BY <1>1, <1>4, <1>5 DEF Own
  <1>7. ASSUME conn[p] = "open"  PROVE RequestsInv(p)' /\ AnswersInv(p)'
    <2>1. InUpload(p) /\ resp[p] = <<>>
      BY <1>1, <1>7, SendingAnswers DEF ProcInv, RequestsInv
    <2>2. req'[p] = Append(req[p], PacketNo(p, n))
      BY <1>3, <1>7 DEF Sent, Connected, TypeOK
    <2>3. req[p] \in Seq(Request) /\ sent[p] \in Nat
      BY DEF TypeOK
    <2>4. Len(req'[p]) = Len(req[p]) + 1 /\ Len(req[p]) \in Nat
      <3> HIDE DEF n
      <3>1. QED  BY <2>2, <2>3
    <2>5. Stored(p)' = Stored(p) /\ Stored(p) + Len(req[p]) = sent[p]
      BY <1>4, <2>3, <2>4 DEF Stored
    <2>6. ASSUME NEW i \in DOMAIN req'[p]
          PROVE  req'[p][i] = PacketNo(p, Stored(p) + i)'
      <3>1. PacketNo(p, Stored(p) + i)' = PacketNo(p, Stored(p) + i)
        BY <1>1, <2>5 DEF PacketNo
      <3>2. CASE i \in DOMAIN req[p]
        <4>1. req'[p][i] = req[p][i]
          <5> HIDE DEF n
          <5>1. QED  BY <2>2, <2>3, <3>2
        <4>2. QED  BY <2>1, <3>1, <3>2, <4>1 DEF InUpload
      <3>3. CASE i \notin DOMAIN req[p]
        <4>1. i = Len(req[p]) + 1 /\ req'[p][i] = PacketNo(p, n)
          <5> HIDE DEF n
          <5>1. QED  BY <2>2, <2>3, <3>3
        <4>2. Stored(p) + i = n
          BY <2>3, <2>4, <4>1 DEF Stored
        <4>3. QED  BY <3>1, <4>1, <4>2
      <3>4. QED  BY <3>2, <3>3
    <2>7. InUpload(p)'
      <3>1. LoggedIn(p)' = LoggedIn(p) /\ files' = files
        BY <1>1 DEF LoggedIn
      <3>2. QED  BY <2>1, <2>5, <2>6, <3>1 DEF InUpload
    <2>8. RequestsInv(p)'
      BY <1>4, <2>7 DEF RequestsInv
    <2>9. AnswersInv(p)'
      BY <1>1, <2>1 DEF AnswersInv
    <2>10. QED  BY <2>8, <2>9
  <1>8. ASSUME conn[p] # "open"  PROVE RequestsInv(p)' /\ AnswersInv(p)'
    <2>1. req'[p] = <<>>
      BY <1>3, <1>8 DEF ProcInv, ConnInv, Sent, Connected
    <2>2. RequestsInv(p)'
      BY <1>1, <1>8, <2>1 DEF RequestsInv
    <2>3. AnswersInv(p)'
      BY <1>1, <1>8, <2>1, SendingAnswers DEF AnswersInv, Fitting
    <2>4. QED  BY <2>2, <2>3
  <1>9. ConnInv(p)' /\ OutcomeInv(p)'
    <2>1. LoggedIn(p)' /\ conn[p] \in {"none", "open", "closed"}
      BY <1>1 DEF ProcInv, ConnInv, LoggedIn, Running
    <2>2. conn[p] # "open" => req'[p] = <<>>
      BY <1>3 DEF ProcInv, ConnInv, Sent, Connected
    <2>3. QED  BY <1>1, <1>4, <2>1, <2>2 DEF ConnInv, OutcomeInv
  <1>10. Active(p)
    BY <1>1 DEF Active, Running
  <1>11. QED  BY <1>1, <1>6, <1>7, <1>8, <1>9, <1>10, RunningStep

\* An answer that a process reads was the only one.
LEMMA OneAnswer ==
    ASSUME SerialInv, NEW p \in Proc, Receive(p), pc[p] \in Running
    PROVE  /\ req[p] = <<>> /\ Fitting(p, Head(resp[p])) /\ resp'[p] = <<>>
           /\ \A q \in Proc \ {p} : resp'[q] = resp[q]
  <1> USE DEF SerialInv, KeyInv, TypeInv
  <1>1. resp[p] \in Seq(Response) /\ resp[p] # <<>> /\ resp'[p] = Tail(resp[p])
        /\ \A q \in Proc \ {p} : resp'[q] = resp[q]
    BY DEF Receive, TypeOK
  <1>2. req[p] = <<>> /\ Len(resp[p]) = 1 /\ Fitting(p, Head(resp[p]))
    BY <1>1 DEF ProcInv, AnswersInv
  <1>3. Tail(resp[p]) = <<>>
    <2> DEFINE rest == Tail(resp[p])
    <2>1. rest \in Seq(Response) /\ Len(rest) = Len(resp[p]) - 1
      BY <1>1, HeadTailProperties
    <2> HIDE DEF rest
    <2>2. Len(rest) = 0
      BY <1>2, <2>1
    <2>3. rest = <<>>
      BY <2>1, <2>2, EmptySeq
    <2>4. QED  BY <2>3 DEF rest
  <1>4. QED  BY <1>1, <1>2, <1>3

LEMMA ReceiveLoginSerial ==
    ASSUME SerialInv, KeyInv', NEW p \in Proc, ReceiveLogin(p)
    PROVE  SerialInv'
  <1> USE DEF SerialInv, KeyInv, TypeInv
  <1> DEFINE m == Head(resp[p])
  <1>1. UNCHANGED <<clients, files, disk, conn, req, sending, sent>> /\ pc[p] = "awaitLogin"
    BY DEF ReceiveLogin, storeVars
  <1>2. req[p] = <<>> /\ Fitting(p, m) /\ resp'[p] = <<>>
        /\ \A q \in Proc \ {p} : resp'[q] = resp[q]
    BY <1>1, OneAnswer DEF ReceiveLogin, Running
  <1>3. \A q \in Proc \ {p} : pc'[q] = pc[q] /\ aes'[q] = aes[q] /\ sum'[q] = sum[q]
    BY DEF ReceiveLogin, Goto, TypeOK
  <1>4. \A q \in Proc \ {p} : UNCHANGED Own(q)
    BY <1>1, <1>2, <1>3 DEF Own
  <1>5. Active(p) /\ ~LoggedIn(p)
    BY <1>1 DEF Active, Running, ProcInv, ConnInv
  <1>6. \A q \in Siblings(p) : ~Active(q)
    BY <1>5 DEF Alone, Siblings
  <1>7. Alone'
    BY <1>4, <1>5, ActiveKeeps, AloneKeeps
  <1>8. CASE m.code = LOGIN_SUCCESS_CODE
    <2>1. pc'[p] = "openFile" /\ aes'[p] = m.aes
      BY <1>8 DEF ReceiveLogin, Goto, TypeOK
    <2>2. m.aes = ServerKey(p) /\ \A q \in Proc : IdOf[q] = IdOf[p] => aes[q] < m.aes
      BY <1>2, <1>8 DEF Fitting, GENERAL_FAIL_CODE, LOGIN_SUCCESS_CODE, SERVER_ACK_CODE,
                        RECEIVED_FILE_SUCCESS_CODE
    <2> HIDE DEF m
    <2>3. \A q \in Proc : aes[q] \in Nat /\ aes'[q] \in Nat /\ IdOf[q] \in ID
                          /\ ServerKey(q) \in Nat /\ ServerKey(q)' = ServerKey(q)
      BY <1>1, TransferConstantsOK, KeyType DEF TypeOK, ServerKey
    <2>4. aes'[p] # NoAesKey /\ \A q \in Siblings(p) : aes'[q] # aes'[p]
      BY <1>3, <2>1, <2>2, <2>3 DEF Siblings, NoAesKey
    <2>5. ProcInv(p)'
      <3>1. LoggedIn(p)'
        BY <2>4 DEF LoggedIn
      <3>2. ConnInv(p)'
        BY <1>1, <1>2, <2>1, <3>1 DEF ProcInv, ConnInv
      <3>3. KeysInv(p)'
        BY <2>1, <2>2, <2>3, <2>4 DEF KeysInv, Siblings
      <3>4. RequestsInv(p)'
        BY <1>1, <1>2, <2>1 DEF RequestsInv
      <3>5. AnswersInv(p)'
        BY <1>2 DEF AnswersInv
      <3>6. OutcomeInv(p)'
        BY <2>1 DEF OutcomeInv
      <3>7. QED  BY <3>2, <3>3, <3>4, <3>5, <3>6 DEF ProcInv
    <2>6. ASSUME NEW q \in Proc \ {p}  PROVE ProcInv(q)'
      <3>1. CASE IdOf[q] = IdOf[p]
        <4>1. q \in Siblings(p)
          BY <3>1 DEF Siblings
        <4>2. KeysInv(q)'
          <5>1. \A r \in Siblings(q) : LoggedIn(q) => aes'[r] # aes'[q]
            BY <1>3, <2>4, <4>1 DEF ProcInv, KeysInv, Siblings, LoggedIn
          <5>2. ~Active(q)'
            BY <1>4, <1>6, <4>1, ActiveKeeps
          <5>3. QED  BY <1>3, <2>3, <5>1, <5>2 DEF ProcInv, KeysInv, LoggedIn, Siblings
        <4>3. OutcomeInv(q)'
          BY <1>1, <1>3, <2>3 DEF ProcInv, OutcomeInv, Sums
        <4>4. QED  BY <1>4, <1>6, <4>1, <4>2, <4>3, QuietProcess
      <3>2. CASE IdOf[q] # IdOf[p]
        <4>1. UNCHANGED Store(IdOf[q])
          BY <1>1 DEF Store
        <4>2. QED  BY <1>3, <1>4, <2>3, <3>2, <4>1, Bystander
      <3>3. QED  BY <3>1, <3>2
    <2>7. ASSUME NEW id \in ID  PROVE RowInv(id)'
      BY <1>1, <1>3, <1>5 DEF RowInv, LoggedIn, Sums
    <2>8. QED  BY <1>7, <2>5, <2>6, <2>7
  <1>9. CASE m.code # LOGIN_SUCCESS_CODE
    <2>1. pc'[p] = "failed" /\ aes' = aes /\ sum' = sum
      BY <1>9 DEF ReceiveLogin, Goto, TypeOK
    <2>2. ConnInv(p)' /\ RequestsInv(p)' /\ AnswersInv(p)' /\ OutcomeInv(p)'
      BY <1>1, <1>2, <2>1 DEF ProcInv, ConnInv, RequestsInv, AnswersInv, OutcomeInv, Running, AwaitingAck
    <2>3. QED  BY <1>1, <1>4, <1>5, <2>1, <2>2, RunningStep
  <1>10. QED  BY <1>8, <1>9

LEMMA ReceiveCrcSerial ==
    ASSUME SerialInv, KeyInv', NEW p \in Proc, ReceiveCrc(p)
    PROVE  SerialInv'
  <1> USE DEF SerialInv, KeyInv, TypeInv
  <1> DEFINE m == Head(resp[p])
  <1>1. UNCHANGED <<clients, files, disk, conn, aes, sum, sending, sent>> /\ pc[p] = "awaitCrc"
    BY DEF ReceiveCrc, storeVars, clientVars
  <1>2. req[p] = <<>> /\ Fitting(p, m) /\ resp'[p] = <<>>
        /\ \A q \in Proc \ {p} : resp'[q] = resp[q]
    BY <1>1, OneAnswer DEF ReceiveCrc, Running
  <1>3. Active(p) /\ LoggedIn(p) /\ LoggedIn(p)' /\ conn[p] \in {"none", "open", "closed"}
    BY <1>1 DEF Active, Running, ProcInv, ConnInv, LoggedIn
  <1>4. AnswersInv(p)'
    BY <1>2 DEF AnswersInv
  <1>5. CASE m.code # RECEIVED_FILE_SUCCESS_CODE
    <2>1. req' = req /\ pc'[p] = "failed" /\ \A q \in Proc \ {p} : pc'[q] = pc[q]
      BY <1>5 DEF ReceiveCrc, Goto, TypeOK
    <2>2. \A q \in Proc \ {p} : UNCHANGED Own(q)
      BY <1>1, <1>2, <2>1 DEF Own
    <2>3. ConnInv(p)' /\ RequestsInv(p)' /\ OutcomeInv(p)'
      BY <1>1, <1>2, <1>3, <2>1 DEF ConnInv, RequestsInv, OutcomeInv, Running, AwaitingAck
    <2>4. QED  BY <1>1, <1>3, <1>4, <2>2, <2>3, RunningStep
  <1>6. CASE m.code = RECEIVED_FILE_SUCCESS_CODE
    <2>1. files[IdOf[p]] = FALSE /\ disk[IdOf[p]] = m.checksum
      BY <1>1, <1>2, <1>6 DEF Fitting, GENERAL_FAIL_CODE, LOGIN_SUCCESS_CODE, SERVER_ACK_CODE,
                              RECEIVED_FILE_SUCCESS_CODE
    <2>2. PICK code \in CrcCodes : /\ Verdict(p, code, AckOf[code])
                                   /\ code = VALID_CRC_REQUEST_CODE => Matches(p, m.checksum)
      BY <1>6 DEF ReceiveCrc, AckOf, CrcCodes, VALID_CRC_REQUEST_CODE,
                  INVALID_CRC_REQUEST_CODE, INVALID_CRC_FINAL_REQUEST_CODE
    <2>3. AckOf[code] \in AwaitingAck
      BY DEF AckOf, CrcCodes, AwaitingAck
    <2>4. pc'[p] = AckOf[code] /\ \A q \in Proc \ {p} : pc'[q] = pc[q]
      BY <2>2 DEF Verdict, Goto, TypeOK
    <2>5. /\ conn[p] = "open" => req'[p] = <<[code |-> code]>>
          /\ conn[p] # "open" => req'[p] = <<>>
          /\ \A q \in Proc \ {p} : req'[q] = req[q]
      <3>1. req'= IF Connected(p) THEN [req EXCEPT ![p] = Append(<<>>, [code |-> code])] ELSE req
        BY <1>2, <2>2 DEF Verdict, Sent
      <3>2. QED  BY <1>2, <1>3, <3>1 DEF Connected, TypeOK
    <2>6. \A q \in Proc \ {p} : UNCHANGED Own(q)
      BY <1>1, <1>2, <2>4, <2>5 DEF Own
    <2>7. ConnInv(p)' /\ OutcomeInv(p)'
      BY <1>1, <1>3, <2>3, <2>4, <2>5 DEF ConnInv, OutcomeInv, AwaitingAck
    <2>8. RequestsInv(p)'
      <3>1. pc'[p] # "send"
        BY <2>3, <2>4 DEF AwaitingAck
      <3>2. CASE conn[p] = "open"
        <4>1. code = VALID_CRC_REQUEST_CODE => Sums(p)'
          BY <1>1, <2>1, <2>2 DEF Matches, Sums
        <4>2. req'[p] = <<[code |-> code]>> /\ files' = files
          BY <1>1, <2>5, <3>2
        <4>3. InVerdict(p)'
          BY <1>3, <2>1, <2>4, <4>1, <4>2 DEF InVerdict
        <4>4. QED  BY <3>1, <4>3 DEF RequestsInv
      <3>3. CASE conn[p] # "open"
        BY <2>5, <3>1, <3>3 DEF RequestsInv
      <3>4. QED  BY <3>2, <3>3
    <2>9. QED  BY <1>1, <1>3, <1>4, <2>6, <2>7, <2>8, RunningStep
  <1>7. QED  BY <1>5, <1>6

LEMMA ReceiveAckSerial ==
    ASSUME SerialInv, KeyInv', NEW p \in Proc, ReceiveAck(p)
    PROVE  SerialInv'
  <1> USE DEF SerialInv, KeyInv, TypeInv
  <1> DEFINE m == Head(resp[p])
  <1>1. /\ UNCHANGED <<clients, files, disk, conn, req, aes, sum, sending, sent>>
        /\ pc[p] \in AwaitingAck
    BY DEF ReceiveAck, storeVars
  <1>2. req[p] = <<>> /\ Fitting(p, m) /\ resp'[p] = <<>>
        /\ \A q \in Proc \ {p} : resp'[q] = resp[q]
    BY <1>1, OneAnswer DEF ReceiveAck, Running
  <1>3. /\ pc'[p] \in {"success", "gaveUp", "openFile", "failed"}
        /\ pc'[p] \in {"success", "gaveUp", "openFile"} => m.code = SERVER_ACK_CODE
        /\ pc'[p] = "success" => pc[p] = "awaitAckValid"
        /\ pc'[p] = "gaveUp" => pc[p] = "awaitAckFinal"
        /\ \A q \in Proc \ {p} : pc'[q] = pc[q]
    BY DEF ReceiveAck, Goto, TypeOK
  <1>4. Active(p) /\ LoggedIn(p) /\ LoggedIn(p)' /\ conn[p] \in {"none", "open", "closed"}
    BY <1>1 DEF Active, Running, ProcInv, ConnInv, LoggedIn, AwaitingAck
  <1>5. \A q \in Proc \ {p} : UNCHANGED Own(q)
    BY <1>1, <1>2, <1>3 DEF Own
  <1>6. ConnInv(p)' /\ RequestsInv(p)' /\ AnswersInv(p)'
    BY <1>1, <1>2, <1>3, <1>4 DEF ConnInv, RequestsInv, AnswersInv
  <1>7. OutcomeInv(p)'
    <2>1. m.code = SERVER_ACK_CODE
            => /\ pc[p] = "awaitAckValid" => files[IdOf[p]] = TRUE /\ Sums(p)
               /\ pc[p] = "awaitAckFinal" => files[IdOf[p]] = FALSE
      BY <1>2 DEF Fitting, GENERAL_FAIL_CODE, LOGIN_SUCCESS_CODE, SERVER_ACK_CODE,
                  RECEIVED_FILE_SUCCESS_CODE
    <2>2. Sums(p)' = Sums(p) /\ files' = files
      BY <1>1 DEF Sums
    <2>3. QED  BY <1>3, <2>1, <2>2 DEF OutcomeInv
  <1>8. QED  BY <1>1, <1>4, <1>5, <1>6, <1>7, RunningStep

LEMMA EndSerial ==
    ASSUME SerialInv, KeyInv', NEW p \in Proc, LoseConnection(p) \/ Crash(p)
    PROVE  SerialInv'
  <1> USE DEF SerialInv, KeyInv, TypeInv
  <1>1. /\ UNCHANGED <<clients, files, disk, conn, req, resp, aes, sum, sending, sent>>
        /\ pc[p] \in Running
    BY DEF LoseConnection, Crash, storeVars, clientVars
  <1>2. /\ pc'[p] = "dead" \/ (pc'[p] = "failed" /\ conn[p] = "closed")
        /\ \A q \in Proc \ {p} : pc'[q] = pc[q]
    <2>1. Goto(p, "dead") \/ (Goto(p, "failed") /\ conn[p] = "closed")
      BY DEF LoseConnection, Crash
    <2>2. QED  BY <2>1 DEF Goto, TypeOK
  <1>3. \A q \in Proc \ {p} : UNCHANGED Own(q)
    BY <1>1, <1>2 DEF Own
  <1>4. Active(p)
    BY <1>1 DEF Active
  <1>5. ConnInv(p)' /\ AnswersInv(p)' /\ OutcomeInv(p)'
    BY <1>1, <1>2 DEF ProcInv, ConnInv, AnswersInv, OutcomeInv, Running, AwaitingAck
  <1>6. RequestsInv(p)'
    <2>1. CASE conn[p] = "closed"
      BY <1>1, <1>2, <2>1 DEF ProcInv, ConnInv, RequestsInv
    <2>2. CASE pc'[p] = "dead"
      <3>1. LoggedIn(p)' = LoggedIn(p) /\ Sums(p)' = Sums(p) /\ Stored(p)' = Stored(p)
            /\ \A n : PacketNo(p, n)' = PacketNo(p, n)
        BY <1>1 DEF LoggedIn, Sums, Stored, PacketNo
      <3>2. InUpload(p) => InUpload(p)'
        BY <1>1, <3>1 DEF InUpload
      <3>3. InVerdict(p) => InVerdict(p)'
        BY <1>1, <2>2, <3>1 DEF InVerdict
      <3>4. QED  BY <1>1, <2>2, <3>1, <3>2, <3>3 DEF ProcInv, RequestsInv
    <2>3. QED  BY <1>2, <2>1, <2>2
  <1>7. QED  BY <1>1, <1>3, <1>4, <1>5, <1>6, RunningStep
-----------------------------------------------------------------------------
(* The server's steps. *)

\* What all steps of the server for one process have in common: the siblings of
\* that process are over.
LEMMA ServerForOne ==
    ASSUME SerialInv, KeyInv', NEW p \in Proc, Active(p),
           UNCHANGED <<pc, aes, sum, sending, sent>>,
           \A q \in Proc \ {p} : UNCHANGED Own(q),
           \A id \in ID \ {IdOf[p]} : UNCHANGED Store(id),
           ProcInv(p)', RowInv(IdOf[p])',
           \A q \in Siblings(p) : KeysInv(q)' /\ OutcomeInv(q)'
    PROVE  SerialInv'
  <1>1. \A q \in Proc : Active(q)' => Active(q)
    BY ActiveKeeps
  <1>2. Alone'
    BY <1>1, AloneKeeps DEF SerialInv
  <1>3. ASSUME NEW q \in Proc \ {p}  PROVE ProcInv(q)'
    <2>1. IdOf[q] \in ID
      BY TransferConstantsOK
    <2>2. CASE IdOf[q] = IdOf[p]
      <3>1. q \in Siblings(p)
        BY <2>2 DEF Siblings
      <3>2. ~Active(q)
        BY <3>1 DEF SerialInv, Alone
      <3>3. QED  BY <3>1, <3>2, QuietProcess DEF SerialInv
    <2>3. CASE IdOf[q] # IdOf[p]
      BY <2>1, <2>3, Bystander DEF SerialInv
    <2>4. QED  BY <2>2, <2>3
  <1>4. ASSUME NEW id \in ID  PROVE RowInv(id)'
    <2>1. CASE id = IdOf[p]
      BY <2>1
    <2>2. CASE id # IdOf[p]
      <3>1. files'[id] = files[id] /\ disk'[id] = disk[id]
        BY <2>2, StoreParts
      <3>2. QED  BY <3>1 DEF SerialInv, RowInv, LoggedIn, Sums
    <2>3. QED  BY <2>1, <2>2
  <1>5. QED  BY <1>2, <1>3, <1>4 DEF SerialInv

\* Where the process has logged in, no sibling has the key of the table.
LEMMA StoreStep ==
    ASSUME SerialInv, KeyInv', NEW p \in Proc, Active(p), LoggedIn(p),
           UNCHANGED <<clients, pc, aes, sum, sending, sent>>,
           \A q \in Proc \ {p} : UNCHANGED Own(q),
           \A id \in ID \ {IdOf[p]} : UNCHANGED Store(id),
           ConnInv(p)', RequestsInv(p)', AnswersInv(p)', OutcomeInv(p)', RowInv(IdOf[p])'
    PROVE  SerialInv'
  <1>1. \A q \in Proc : Active(q)' => Active(q)
    BY ActiveKeeps
  <1>2. \A q \in Proc : ServerKey(q)' = ServerKey(q) /\ LoggedIn(q)' = LoggedIn(q)
    BY DEF ServerKey, LoggedIn
  <1>3. \A q \in Proc : KeysInv(q)'
    BY <1>1, <1>2 DEF SerialInv, ProcInv, KeysInv, Siblings
  <1>4. ASSUME NEW q \in Siblings(p)  PROVE OutcomeInv(q)'
    <2>1. q \in Proc /\ aes[q] # aes[p] /\ aes[p] = ServerKey(p) /\ ServerKey(q) = ServerKey(p)
      BY DEF SerialInv, ProcInv, KeysInv, ServerKey, Siblings
    <2>2. QED  BY <1>2, <2>1 DEF OutcomeInv
  <1>5. ProcInv(p)' /\ \A q \in Siblings(p) : KeysInv(q)' /\ OutcomeInv(q)'
    BY <1>3, <1>4 DEF ProcInv, Siblings
  <1>6. QED  BY <1>5, ServerForOne

\* The request that a handler takes.
LEMMA Taken ==
    ASSUME TypeOK, NEW p \in Proc, NEW codes, Serve(p, codes)
    PROVE  /\ conn[p] = "open" /\ req[p] \in Seq(Request) /\ req[p] # <<>>
           /\ Head(req[p]) = req[p][1] /\ 1 \in DOMAIN req[p] /\ Head(req[p]).code \in codes
           /\ req'[p] = Tail(req[p]) /\ \A q \in Proc \ {p} : req'[q] = req[q]
  <1>1. conn[p] = "open" /\ req[p] \in Seq(Request) /\ req[p] # <<>>
        /\ Head(req[p]).code \in codes
    BY DEF Serve, Requested, TypeOK
  <1>2. req'[p] = Tail(req[p]) /\ \A q \in Proc \ {p} : req'[q] = req[q]
    BY DEF Serve, TypeOK
  <1>3. Head(req[p]) = req[p][1] /\ 1 \in DOMAIN req[p]
    BY <1>1, EmptySeq
  <1>4. QED  BY <1>1, <1>2, <1>3

\* The answer to a process that had none before.
LEMMA Answered ==
    ASSUME TypeOK, NEW p \in Proc, NEW m, Respond(p, m)
    PROVE  /\ \A q \in Proc \ {p} : resp'[q] = resp[q]
           /\ resp[p] = <<>> => resp'[p] # <<>> /\ Len(resp'[p]) = 1 /\ Head(resp'[p]) = m
  <1>1. resp'[p] = Append(resp[p], m) /\ \A q \in Proc \ {p} : resp'[q] = resp[q]
    BY DEF Respond, TypeOK
  <1>2. resp[p] = <<>> => resp'[p] = <<m>>
    BY <1>1
  <1>3. QED  BY <1>1, <1>2

\* While a request is in flight no answer is, to a process that is running.
LEMMA NoAnswerYet ==
    ASSUME NEW p \in Proc, ProcInv(p), req[p] # <<>>, pc[p] \in Running
    PROVE  resp[p] = <<>>
  BY DEF ProcInv, AnswersInv

\* Which requests there are for each handler.
LEMMA RequestOfCode ==
    ASSUME NEW p \in Proc, ProcInv(p), req[p] # <<>>, 1 \in DOMAIN req[p]
    PROVE  /\ req[p][1].code = LOGIN_REQUEST_CODE
              => /\ req[p] = <<[code |-> LOGIN_REQUEST_CODE]>>
                 /\ pc[p] \in {"awaitLogin", "dead"} /\ ~LoggedIn(p)
           /\ req[p][1].code = SEND_FILE_REQUEST_CODE
              => InUpload(p) /\ pc[p] \in {"send", "awaitCrc", "dead"}
           /\ req[p][1].code \in CrcCodes => InVerdict(p)
  <1>1. ASSUME InUpload(p)  PROVE req[p][1].code = SEND_FILE_REQUEST_CODE
    <2>1. req[p][1] = PacketNo(p, Stored(p) + 1)
      BY <1>1 DEF InUpload
    <2>2. QED  BY <2>1 DEF PacketNo
  <1>2. ASSUME InVerdict(p)  PROVE req[p][1].code \in CrcCodes
    BY <1>2 DEF InVerdict
  <1>3. ASSUME req[p] = <<[code |-> LOGIN_REQUEST_CODE]>>
        PROVE  req[p][1].code = LOGIN_REQUEST_CODE
    BY <1>3
  <1>4. /\ LOGIN_REQUEST_CODE # SEND_FILE_REQUEST_CODE /\ LOGIN_REQUEST_CODE \notin CrcCodes
        /\ SEND_FILE_REQUEST_CODE \notin CrcCodes
    BY DEF LOGIN_REQUEST_CODE, SEND_FILE_REQUEST_CODE, CrcCodes, VALID_CRC_REQUEST_CODE,
           INVALID_CRC_REQUEST_CODE, INVALID_CRC_FINAL_REQUEST_CODE
  <1>5. QED  BY <1>1, <1>2, <1>3, <1>4 DEF ProcInv, RequestsInv

\* The key of a client after its login.
LEMMA LoginKey ==
    ASSUME TypeOK, TypeOK', NEW p \in Proc, HandleLogin(p)
    PROVE  /\ ServerKey(p) \in Nat /\ ServerKey(p)' = ServerKey(p) + 1
           /\ \A id \in ID \ {IdOf[p]} : get_aes_key(clients', id) = get_aes_key(clients, id)
  <1> DEFINE key == ServerKey(p) + 1
  <1>1. clients' = update_aes_key(clients, IdOf[p], key) /\ IdOf[p] \in ID
    BY TransferConstantsOK DEF HandleLogin, ServerKey
  <1>2. \A id \in ID : clients[id] # NULL
    BY TransferConstantsOK DEF TypeOK
  <1>3. clients[IdOf[p]] \in ClientRow(ID)
    BY <1>1 DEF TypeOK
  <1>4. ServerKey(p) \in Nat
    BY <1>1, KeyType DEF ServerKey
  <1> HIDE DEF key
  <1>5. clients' = [clients EXCEPT ![IdOf[p]] = [@ EXCEPT !.aes_key = key]]
    BY <1>1, <1>2 DEF update_aes_key
  <1>6. clients'[IdOf[p]] = [clients[IdOf[p]] EXCEPT !.aes_key = key]
        /\ \A id \in ID \ {IdOf[p]} : clients'[id] = clients[id]
    BY <1>1, <1>5 DEF TypeOK
  <1>7. clients'[IdOf[p]].aes_key = key
    BY <1>3, <1>6 DEF ClientRow
  <1>8. clients'[IdOf[p]] # NULL
    <2>1. clients'[IdOf[p]] \in ClientRow(ID)
      BY <1>1 DEF TypeOK
    <2>2. QED  BY <2>1, TransferConstantsOK
  <1>9. QED  BY <1>4, <1>6, <1>7, <1>8 DEF get_aes_key, ServerKey, key

LEMMA HandleLoginSerial ==
    ASSUME Serial, SerialInv, KeyInv', NEW p \in Proc, HandleLogin(p)
    PROVE  SerialInv'
  <1> USE DEF SerialInv, KeyInv, TypeInv
  <1> DEFINE key == ServerKey(p) + 1
             m == [code |-> LOGIN_SUCCESS_CODE, aes |-> key]
  <1>1. Serve(p, {LOGIN_REQUEST_CODE}) /\ Respond(p, m)
    BY DEF HandleLogin, ServerKey
  <1>2. /\ req[p] = <<[code |-> LOGIN_REQUEST_CODE]>> /\ req'[p] = <<>>
        /\ pc[p] \in {"awaitLogin", "dead"} /\ ~LoggedIn(p) /\ conn[p] = "open"
        /\ req[p] # <<>> /\ \A q \in Proc \ {p} : req'[q] = req[q]
    <2>1. /\ conn[p] = "open" /\ req[p] # <<>> /\ 1 \in DOMAIN req[p]
          /\ req[p][1].code = LOGIN_REQUEST_CODE
          /\ req'[p] = Tail(req[p]) /\ \A q \in Proc \ {p} : req'[q] = req[q]
      BY <1>1, Taken
    <2>2. /\ req[p] = <<[code |-> LOGIN_REQUEST_CODE]>>
          /\ pc[p] \in {"awaitLogin", "dead"} /\ ~LoggedIn(p)
      BY <2>1, RequestOfCode
    <2>3. req'[p] = <<>>
      BY <2>1, <2>2
    <2>4. QED  BY <2>1, <2>2, <2>3
  <1>3. UNCHANGED <<files, disk, conn, pc, aes, sum, sending, sent>>
    BY DEF HandleLogin, WholeName, PartOfName, Fault, Serial, clientVars
  <1>4. /\ ServerKey(p) \in Nat /\ ServerKey(p)' = key
        /\ \A id \in ID \ {IdOf[p]} : get_aes_key(clients', id) = get_aes_key(clients, id)
    BY LoginKey
  <1>5. \A q \in Proc \ {p} : UNCHANGED Own(q)
    BY <1>1, <1>2, <1>3, Answered DEF Own
  <1>6. \A id \in ID \ {IdOf[p]} : UNCHANGED Store(id)
    BY <1>3, <1>4 DEF Store
  <1>7. Active(p) /\ \A q \in Siblings(p) : ~Active(q)
    BY <1>2 DEF Active, Connected, Alone
  <1>8. \A q \in Proc : IdOf[q] = IdOf[p]
          => /\ aes[q] \in Nat /\ aes[q] <= ServerKey(p)
             /\ ServerKey(q) = ServerKey(p) /\ ServerKey(q)' = ServerKey(p)'
    BY DEF TypeOK, ProcInv, KeysInv, ServerKey
  <1>9. \A q \in Proc : IdOf[q] = IdOf[p] => aes[q] < ServerKey(p)'
    BY <1>4, <1>8
  <1>10. ASSUME NEW q \in Siblings(p)  PROVE KeysInv(q)' /\ OutcomeInv(q)'
    <2>1. q \in Proc \ {p} /\ IdOf[q] = IdOf[p]
      BY DEF Siblings
    <2>2. aes[q] < ServerKey(q)' /\ aes[q] \in Nat /\ ServerKey(q)' \in Nat
      <3>1. ServerKey(p)' \in Nat
        BY <1>4
      <3>2. QED  BY <1>8, <1>9, <2>1, <3>1
    <2>3. ~Active(q)'
      BY <1>5, <1>7, <2>1, ActiveKeeps
    <2>4. KeysInv(q)'
      BY <1>3, <2>1, <2>2, <2>3 DEF ProcInv, KeysInv, LoggedIn
    <2>5. OutcomeInv(q)'
      BY <1>3, <2>2 DEF OutcomeInv
    <2>6. QED  BY <2>4, <2>5
  <1>11. ProcInv(p)'
    <2>1. ConnInv(p)'
      BY <1>2, <1>3 DEF ProcInv, ConnInv, LoggedIn
    <2>2. KeysInv(p)'
      <3>1. ServerKey(p)' \in Nat
        BY <1>4
      <3>2. QED  BY <1>2, <1>3, <1>8, <1>9, <3>1 DEF KeysInv, LoggedIn
    <2>3. RequestsInv(p)'
      BY <1>2, <1>3 DEF RequestsInv
    <2>4. AnswersInv(p)'
      <3>1. SUFFICES ASSUME pc[p] \in Running  PROVE AnswersInv(p)'
        BY <1>3 DEF AnswersInv
      <3>2. pc[p] = "awaitLogin" /\ resp[p] = <<>>
        BY <1>2, <3>1, NoAnswerYet DEF Running, AwaitingAck
      <3>3. Len(resp'[p]) = 1 /\ Head(resp'[p]) = m
        BY <1>1, <3>2, Answered
      <3>4. Head(resp'[p]).code = LOGIN_SUCCESS_CODE /\ Head(resp'[p]).aes = ServerKey(p)'
        BY <1>4, <3>3
      <3>5. Fitting(p, Head(resp[p]))'
        BY <1>3, <1>9, <3>2, <3>4 DEF Fitting
      <3>6. QED  BY <1>2, <3>3, <3>5 DEF AnswersInv
    <2>5. OutcomeInv(p)'
      BY <1>2, <1>3 DEF OutcomeInv
    <2>6. QED  BY <2>1, <2>2, <2>3, <2>4, <2>5 DEF ProcInv
  <1>12. RowInv(IdOf[p])'
    <2>1. IdOf[p] \in ID
      BY TransferConstantsOK
    <2>2. QED  BY <1>3, <2>1 DEF RowInv, LoggedIn, Sums
  <1>13. QED  BY <1>3, <1>5, <1>6, <1>7, <1>10, <1>11, <1>12, ServerForOne

\* What the handlers of packets start from.
LEMMA PacketTaken ==
    ASSUME SerialInv, NEW p \in Proc,
           req[p] # <<>>, Head(req[p]).code = SEND_FILE_REQUEST_CODE
    PROVE  /\ InUpload(p) /\ pc[p] \in {"send", "awaitCrc", "dead"}
           /\ pc[p] \in Running => resp[p] = <<>>
           /\ Head(req[p]) = PacketNo(p, Stored(p) + 1)
           /\ Stored(p) \in Nat
           /\ Listed(IdOf[p], Head(req[p]).block)[IdOf[p]] = FALSE
           /\ \A id \in ID \ {IdOf[p]} : Listed(IdOf[p], Head(req[p]).block)[id] = files[id]
  <1> USE DEF SerialInv, KeyInv, TypeInv
  <1>1. /\ req[p] \in Seq(Request) /\ sent[p] \in Nat /\ IdOf[p] \in ID
        /\ Head(req[p]) = req[p][1] /\ 1 \in DOMAIN req[p]
    BY EmptySeq, TransferConstantsOK DEF TypeOK
  <1>2. InUpload(p) /\ pc[p] \in {"send", "awaitCrc", "dead"}
    BY <1>1, RequestOfCode
  <1>3. Head(req[p]) = PacketNo(p, Stored(p) + 1)
    BY <1>1, <1>2 DEF InUpload
  <1>4. Stored(p) \in Nat
    BY <1>1, <1>2 DEF InUpload, Stored
  <1>5. Head(req[p]).block.idx = Stored(p) + 1
    BY <1>3 DEF PacketNo
  <1> DEFINE block == Head(req[p]).block
  <1>6. block.idx = 1 \/ files[IdOf[p]] = FALSE
    BY <1>2, <1>4, <1>5 DEF InUpload
  <1>7. Listed(IdOf[p], block) \in {files, [files EXCEPT ![IdOf[p]] = FALSE]}
        /\ (block.idx = 1 => Listed(IdOf[p], block) = [files EXCEPT ![IdOf[p]] = FALSE])
    BY DEF Listed, insert_into_files
  <1>8. Listed(IdOf[p], block)[IdOf[p]] = FALSE
    <2> HIDE DEF block
    <2>1. QED  BY <1>1, <1>6, <1>7 DEF TypeOK
  <1>9. \A id \in ID \ {IdOf[p]} : Listed(IdOf[p], Head(req[p]).block)[id] = files[id]
    BY DEF Listed, insert_into_files, TypeOK
  <1>10. pc[p] \in Running => resp[p] = <<>>
    BY NoAnswerYet
  <1>11. QED  BY <1>2, <1>3, <1>4, <1>8, <1>9, <1>10

LEMMA HandlePacketSerial ==
    ASSUME SerialInv, KeyInv', NEW p \in Proc, HandlePacket(p)
    PROVE  SerialInv'
  <1> USE DEF SerialInv, KeyInv, TypeInv
  <1>1. Serve(p, {SEND_FILE_REQUEST_CODE}) /\ files' = Listed(IdOf[p], Head(req[p]).block)
        /\ UNCHANGED <<clients, conn, resp, pc, aes, sum, sending, sent>>
    BY DEF HandlePacket, clientVars
  <1>2. /\ conn[p] = "open" /\ req[p] \in Seq(Request) /\ req[p] # <<>>
        /\ Head(req[p]).code = SEND_FILE_REQUEST_CODE
        /\ req'[p] = Tail(req[p]) /\ \A q \in Proc \ {p} : req'[q] = req[q]
    BY <1>1, Taken
  <1>3. /\ InUpload(p) /\ pc[p] \in {"send", "awaitCrc", "dead"} /\ Stored(p) \in Nat
        /\ pc[p] \in Running => resp[p] = <<>>
        /\ files'[IdOf[p]] = FALSE /\ \A id \in ID \ {IdOf[p]} : files'[id] = files[id]
    BY <1>1, <1>2, PacketTaken
  <1>4. \A q \in Proc \ {p} : UNCHANGED Own(q)
    BY <1>1, <1>2 DEF Own
  <1>5. \A id \in ID \ {IdOf[p]} : UNCHANGED Store(id)
    <2>1. \A id \in ID \ {IdOf[p]} : disk'[id] = disk[id]
      BY DEF HandlePacket, TypeOK
    <2>2. QED  BY <1>1, <1>3, <2>1 DEF Store
  <1>6. Active(p) /\ LoggedIn(p) /\ LoggedIn(p)'
    BY <1>1, <1>2, <1>3 DEF Active, Connected, InUpload, LoggedIn
  <1>7. InUpload(p)'
    <2>1. /\ Len(Tail(req[p])) = Len(req[p]) - 1 /\ Len(req[p]) \in Nat
          /\ \A i \in DOMAIN Tail(req[p]) :
               Tail(req[p])[i] = req[p][i + 1] /\ i \in Nat /\ i + 1 \in DOMAIN req[p]
      BY <1>2, HeadTailProperties
    <2>2. sent[p] \in Nat
      BY DEF TypeOK
    <2>3. Stored(p)' = Stored(p) + 1
      BY <1>1, <1>2, <2>1, <2>2 DEF Stored
    <2>4. \A n : PacketNo(p, n)' = PacketNo(p, n)
      BY <1>1 DEF PacketNo
    <2>5. ASSUME NEW i \in DOMAIN req'[p]
          PROVE  req'[p][i] = PacketNo(p, Stored(p) + i)'
      <3>1. req'[p][i] = req[p][i + 1] /\ i \in Nat /\ i + 1 \in DOMAIN req[p]
        BY <1>2, <2>1
      <3>2. req[p][i + 1] = PacketNo(p, Stored(p) + (i + 1))
        BY <1>3, <3>1 DEF InUpload
      <3>3. Stored(p) + (i + 1) = Stored(p)' + i
        BY <1>3, <2>3, <3>1
      <3>4. PacketNo(p, Stored(p) + i)' = PacketNo(p, Stored(p)' + i)
        BY <1>1 DEF PacketNo
      <3>5. QED  BY <3>1, <3>2, <3>3, <3>4
    <2>6. QED  BY <1>3, <1>6, <2>3, <2>5 DEF InUpload
  <1>8. ConnInv(p)' /\ RequestsInv(p)' /\ AnswersInv(p)' /\ OutcomeInv(p)'
    <2>1. ConnInv(p)'
      BY <1>1, <1>2, <1>3, <1>6 DEF ConnInv
    <2>2. RequestsInv(p)'
      BY <1>1, <1>3, <1>7 DEF RequestsInv
    <2>3. AnswersInv(p)'
      BY <1>1, <1>3 DEF AnswersInv
    <2>4. OutcomeInv(p)'
      BY <1>1, <1>3 DEF OutcomeInv
    <2>5. QED  BY <2>1, <2>2, <2>3, <2>4
  <1>9. RowInv(IdOf[p])'
    BY <1>3 DEF RowInv
  <1>10. QED  BY <1>1, <1>4, <1>5, <1>6, <1>8, <1>9, StoreStep

LEMMA HandleLastPacketSerial ==
    ASSUME SerialInv, KeyInv', NEW p \in Proc, HandleLastPacket(p)
    PROVE  SerialInv'
  <1> USE DEF SerialInv, KeyInv, TypeInv
  <1>1. PICK plain :
          /\ Respond(p, [code |-> RECEIVED_FILE_SUCCESS_CODE, checksum |-> plain])
          /\ disk' = [disk EXCEPT ![IdOf[p]] = plain]
    BY DEF HandleLastPacket
  <1>2. Serve(p, {SEND_FILE_REQUEST_CODE}) /\ files' = Listed(IdOf[p], Head(req[p]).block)
        /\ Head(req[p]).block.idx = Head(req[p]).total
        /\ UNCHANGED <<clients, conn, pc, aes, sum, sending, sent>>
    BY DEF HandleLastPacket, clientVars
  <1>3. /\ conn[p] = "open" /\ req[p] \in Seq(Request) /\ req[p] # <<>>
        /\ Head(req[p]).code = SEND_FILE_REQUEST_CODE
        /\ req'[p] = Tail(req[p]) /\ \A q \in Proc \ {p} : req'[q] = req[q]
    BY <1>2, Taken
  <1>4. /\ InUpload(p) /\ pc[p] \in {"send", "awaitCrc", "dead"} /\ Stored(p) \in Nat
        /\ pc[p] \in Running => resp[p] = <<>>
        /\ Head(req[p]) = PacketNo(p, Stored(p) + 1)
        /\ files'[IdOf[p]] = FALSE /\ \A id \in ID \ {IdOf[p]} : files'[id] = files[id]
    BY <1>2, <1>3, PacketTaken
  <1>5. req'[p] = <<>> /\ pc[p] \in {"awaitCrc", "dead"}
    <2>1. Stored(p) + 1 = Size[sending[p]]
      BY <1>2, <1>4 DEF PacketNo
    <2>2. /\ sent[p] \in Nat /\ Size[sending[p]] \in Nat /\ sent[p] <= Size[sending[p]]
      BY SizeIsPositive DEF TypeOK
    <2>3. Len(req[p]) \in Nat /\ Len(req[p]) # 0
      BY <1>3, EmptySeq
    <2>4. Len(req[p]) = 1 /\ sent[p] = Size[sending[p]]
      <3> DEFINE left == Len(req[p])
                 last == sent[p]
                 size == Size[sending[p]]
      <3>1. /\ (last - left) + 1 = size /\ left \in Nat /\ left # 0
            /\ last \in Nat /\ size \in Nat /\ last <= size
        BY <2>1, <2>2, <2>3 DEF Stored
      <3> HIDE DEF left, last, size
      <3>2. left = 1 /\ last = size
        BY <3>1
      <3>3. QED  BY <3>2 DEF left, last, size
    <2>5. pc[p] # "send"
      BY <2>2, <2>4 DEF LoopsInside
    <2> DEFINE rest == Tail(req[p])
    <2>6. rest \in Seq(Request) /\ Len(rest) = Len(req[p]) - 1
      BY <1>3, HeadTailProperties
    <2> HIDE DEF rest
    <2>7. Len(rest) = 0
      BY <2>4, <2>6
    <2>8. rest = <<>>
      BY <2>6, <2>7, EmptySeq
    <2>9. QED  BY <1>3, <1>4, <2>5, <2>8 DEF rest
  <1>6. \A q \in Proc \ {p} : UNCHANGED Own(q)
    BY <1>1, <1>2, <1>3, Answered DEF Own
  <1>7. disk'[IdOf[p]] = plain /\ \A id \in ID \ {IdOf[p]} : disk'[id] = disk[id]
    BY <1>1, TransferConstantsOK DEF TypeOK
  <1>8. \A id \in ID \ {IdOf[p]} : UNCHANGED Store(id)
    BY <1>2, <1>4, <1>7 DEF Store
  <1>9. Active(p) /\ LoggedIn(p) /\ LoggedIn(p)'
    BY <1>2, <1>3, <1>4 DEF Active, Connected, InUpload, LoggedIn
  <1>10. ConnInv(p)' /\ RequestsInv(p)' /\ OutcomeInv(p)'
    BY <1>2, <1>3, <1>5, <1>9 DEF ConnInv, RequestsInv, OutcomeInv
  <1>11. AnswersInv(p)'
    <2>1. SUFFICES ASSUME pc[p] \in Running  PROVE AnswersInv(p)'
      BY <1>2 DEF AnswersInv
    <2>2. pc'[p] = "awaitCrc" /\ resp[p] = <<>>
      BY <1>2, <1>4, <1>5, <2>1 DEF Running, AwaitingAck
    <2>3. Len(resp'[p]) = 1
          /\ Head(resp'[p]) = [code |-> RECEIVED_FILE_SUCCESS_CODE, checksum |-> plain]
      BY <1>1, <2>2, Answered
    <2>4. Head(resp'[p]).code = RECEIVED_FILE_SUCCESS_CODE /\ Head(resp'[p]).checksum = plain
      BY <2>3
    <2>5. Fitting(p, Head(resp[p]))'
      BY <1>4, <1>7, <2>2, <2>4 DEF Fitting
    <2>6. QED  BY <1>5, <2>3, <2>5 DEF AnswersInv
  <1>12. RowInv(IdOf[p])'
    BY <1>4 DEF RowInv
  <1>13. QED  BY <1>2, <1>6, <1>8, <1>9, <1>10, <1>11, <1>12, StoreStep

\* What closing the connection leaves of a process that was answered, or not.
LEMMA Closed ==
    ASSUME SerialInv, NEW p \in Proc, conn[p] = "open", req[p] # <<>>, Close(p),
           UNCHANGED <<pc, aes>>,
           UNCHANGED resp \/ Respond(p, [code |-> GENERAL_FAIL_CODE])
    PROVE  /\ conn'[p] = "closed" /\ req'[p] = <<>>
           /\ \A q \in Proc \ {p} : conn'[q] = conn[q] /\ req'[q] = req[q] /\ resp'[q] = resp[q]
           /\ ConnInv(p)' /\ RequestsInv(p)' /\ AnswersInv(p)'
  <1> USE DEF SerialInv, KeyInv, TypeInv
  <1>1. /\ conn'[p] = "closed" /\ req'[p] = <<>>
        /\ \A q \in Proc \ {p} : conn'[q] = conn[q] /\ req'[q] = req[q]
    BY DEF Close, TypeOK
  <1>2. \A q \in Proc \ {p} : resp'[q] = resp[q]
    BY Answered
  <1>3. ConnInv(p)' /\ RequestsInv(p)'
    <2>1. pc[p] # "off"
      BY DEF ProcInv, ConnInv
    <2>2. QED  BY <1>1, <2>1 DEF ProcInv, ConnInv, RequestsInv, LoggedIn
  <1>4. AnswersInv(p)'
    <2>1. SUFFICES ASSUME pc[p] \in Running, resp'[p] # <<>>  PROVE AnswersInv(p)'
      BY DEF AnswersInv
    <2>2. resp[p] = <<>>
      BY <2>1, NoAnswerYet
    <2>3. Len(resp'[p]) = 1 /\ Head(resp'[p]) = [code |-> GENERAL_FAIL_CODE]
      BY <2>1, <2>2, Answered
    <2>4. Fitting(p, Head(resp[p]))'
      BY <1>1, <2>3 DEF Fitting
    <2>5. QED  BY <1>1, <2>3, <2>4 DEF AnswersInv
  <1>5. QED  BY <1>1, <1>2, <1>3, <1>4

LEMMA FailLastPacketSerial ==
    ASSUME SerialInv, KeyInv', NEW p \in Proc, FailLastPacket(p)
    PROVE  SerialInv'
  <1> USE DEF SerialInv, KeyInv, TypeInv
  <1>1. /\ conn[p] = "open" /\ req[p] # <<>> /\ Head(req[p]).code = SEND_FILE_REQUEST_CODE
        /\ files' = Listed(IdOf[p], Head(req[p]).block)
        /\ Close(p) /\ Respond(p, [code |-> GENERAL_FAIL_CODE])
        /\ UNCHANGED <<clients, pc, aes, sum, sending, sent>>
    BY DEF FailLastPacket, Requested, clientVars
  <1>2. /\ InUpload(p) /\ pc[p] \in {"send", "awaitCrc", "dead"}
        /\ files'[IdOf[p]] = FALSE /\ \A id \in ID \ {IdOf[p]} : files'[id] = files[id]
    BY <1>1, PacketTaken
  <1>3. /\ \A q \in Proc \ {p} : conn'[q] = conn[q] /\ req'[q] = req[q] /\ resp'[q] = resp[q]
        /\ ConnInv(p)' /\ RequestsInv(p)' /\ AnswersInv(p)'
    BY <1>1, Closed
  <1>4. \A q \in Proc \ {p} : UNCHANGED Own(q)
    BY <1>1, <1>3 DEF Own
  <1>5. \A id \in ID \ {IdOf[p]} : UNCHANGED Store(id)
    <2>1. \A id \in ID \ {IdOf[p]} : disk'[id] = disk[id]
      BY DEF FailLastPacket, TypeOK
    <2>2. QED  BY <1>1, <1>2, <2>1 DEF Store
  <1>6. Active(p) /\ LoggedIn(p)
    BY <1>1, <1>2 DEF Active, Connected, InUpload
  <1>7. OutcomeInv(p)' /\ RowInv(IdOf[p])'
    BY <1>1, <1>2 DEF OutcomeInv, RowInv
  <1>8. QED  BY <1>1, <1>3, <1>4, <1>5, <1>6, <1>7, StoreStep

LEMMA HandleCrcSerial ==
    ASSUME Serial, SerialInv, KeyInv', NEW p \in Proc, HandleCrc(p)
    PROVE  SerialInv'
  <1> USE DEF SerialInv, KeyInv, TypeInv
  <1>1. Serve(p, CrcCodes) /\ Respond(p, [code |-> SERVER_ACK_CODE])
        /\ UNCHANGED <<clients, disk, conn, pc, aes, sum, sending, sent>>
    BY DEF HandleCrc, WholeName, PartOfName, Fault, Serial, clientVars
  <1>2. files' = IF Verifies(Head(req[p]).code) THEN update_file_verification(files, IdOf[p], TRUE)
                                               ELSE files
    BY DEF HandleCrc, WholeName, PartOfName, Fault, Serial
  <1>3. /\ conn[p] = "open" /\ req[p] # <<>> /\ 1 \in DOMAIN req[p]
        /\ Head(req[p]) = req[p][1] /\ req[p][1].code \in CrcCodes
        /\ req'[p] = Tail(req[p]) /\ \A q \in Proc \ {p} : req'[q] = req[q]
    BY <1>1, Taken
  <1>4. InVerdict(p)
    BY <1>3, RequestOfCode
  <1>5. LoggedIn(p) /\ files[IdOf[p]] = FALSE
    BY <1>4 DEF InVerdict
  <1>6. PICK code \in CrcCodes :
          /\ req[p] = <<[code |-> code]>>
          /\ pc[p] \in {AckOf[code], "dead"}
          /\ code = VALID_CRC_REQUEST_CODE => Sums(p)
    BY <1>4 DEF InVerdict
  <1>7. req'[p] = <<>> /\ Head(req[p]).code = code
    BY <1>3, <1>6
  <1>8. AckOf[code] \in AwaitingAck
        /\ (AckOf[code] = "awaitAckValid" => code = VALID_CRC_REQUEST_CODE)
        /\ (AckOf[code] = "awaitAckFinal" => code # VALID_CRC_REQUEST_CODE)
    BY DEF AckOf, CrcCodes, AwaitingAck, VALID_CRC_REQUEST_CODE,
           INVALID_CRC_REQUEST_CODE, INVALID_CRC_FINAL_REQUEST_CODE
  <1>9. /\ code = VALID_CRC_REQUEST_CODE => files'[IdOf[p]] = TRUE
        /\ code # VALID_CRC_REQUEST_CODE => files'[IdOf[p]] = FALSE
        /\ \A id \in ID \ {IdOf[p]} : files'[id] = files[id]
    <2>1. files[IdOf[p]] # NULL /\ IdOf[p] \in ID
      BY <1>5, TransferConstantsOK
    <2>2. CASE code = VALID_CRC_REQUEST_CODE
      <3>1. files' = [files EXCEPT ![IdOf[p]] = TRUE]
        BY <1>2, <1>7, <2>1, <2>2 DEF Verifies, update_file_verification
      <3>2. QED  BY <2>1, <2>2, <3>1 DEF TypeOK
    <2>3. CASE code # VALID_CRC_REQUEST_CODE
      BY <1>2, <1>5, <1>7, <2>3 DEF Verifies
    <2>4. QED  BY <2>2, <2>3
  <1>10. \A q \in Proc \ {p} : UNCHANGED Own(q)
    BY <1>1, <1>3, Answered DEF Own
  <1>11. \A id \in ID \ {IdOf[p]} : UNCHANGED Store(id)
    BY <1>1, <1>9 DEF Store
  <1>12. Active(p) /\ LoggedIn(p)' /\ Sums(p)' = Sums(p)
    BY <1>1, <1>3, <1>5 DEF Active, Connected, LoggedIn, Sums
  <1>13. ConnInv(p)' /\ RequestsInv(p)' /\ OutcomeInv(p)'
    <2>1. pc[p] \in AwaitingAck \cup {"dead"}
      BY <1>6, <1>8
    <2>2. QED
      BY <1>1, <1>3, <1>7, <1>12, <2>1 DEF ConnInv, RequestsInv, OutcomeInv, AwaitingAck
  <1>14. AnswersInv(p)'
    <2>1. SUFFICES ASSUME pc[p] \in Running  PROVE AnswersInv(p)'
      BY <1>1 DEF AnswersInv
    <2>2. pc'[p] = AckOf[code] /\ resp[p] = <<>>
      BY <1>1, <1>3, <1>6, <2>1, NoAnswerYet DEF Running, AwaitingAck
    <2>3. Len(resp'[p]) = 1 /\ Head(resp'[p]) = [code |-> SERVER_ACK_CODE]
      BY <1>1, <2>2, Answered
    <2>4. /\ pc'[p] = "awaitAckValid" => files'[IdOf[p]] = TRUE /\ Sums(p)'
          /\ pc'[p] = "awaitAckFinal" => files'[IdOf[p]] = FALSE
      BY <1>6, <1>8, <1>9, <1>12, <2>2
    <2>5. Fitting(p, Head(resp[p]))'
      BY <1>8, <2>2, <2>3, <2>4 DEF Fitting
    <2>6. QED  BY <1>7, <2>3, <2>5 DEF AnswersInv
  <1>15. RowInv(IdOf[p])'
    BY <1>6, <1>9, <1>12 DEF RowInv
  <1>16. QED  BY <1>1, <1>5, <1>10, <1>11, <1>12, <1>13, <1>14, <1>15, StoreStep

LEMMA CloseSerial ==
    ASSUME SerialInv, KeyInv', NEW p \in Proc, FailRequest(p) \/ Disconnect(p)
    PROVE  SerialInv'
  <1> USE DEF SerialInv, KeyInv, TypeInv
  <1>1. /\ Close(p) /\ UNCHANGED <<clients, files, disk, pc, aes, sum, sending, sent>>
        /\ UNCHANGED resp \/ Respond(p, [code |-> GENERAL_FAIL_CODE])
    BY DEF FailRequest, Disconnect, storeVars, clientVars
  <1>2. conn[p] = "open" /\ (req[p] # <<>> \/ (UNCHANGED resp /\ pc[p] \in Over))
    BY DEF FailRequest, Disconnect, Connected, ProcInv, ConnInv
  <1>3. /\ \A q \in Proc \ {p} : conn'[q] = conn[q] /\ req'[q] = req[q] /\ resp'[q] = resp[q]
        /\ ConnInv(p)' /\ RequestsInv(p)' /\ AnswersInv(p)'
    <2>1. CASE req[p] # <<>>
      BY <1>1, <1>2, <2>1, Closed
    <2>2. CASE UNCHANGED resp /\ pc[p] \in Over
      <3>1. /\ conn'[p] = "closed" /\ req'[p] = <<>>
            /\ \A q \in Proc \ {p} : conn'[q] = conn[q] /\ req'[q] = req[q]
        BY <1>1 DEF Close, TypeOK
      <3>2. pc[p] \notin Running /\ pc[p] # "off"
        BY <2>2 DEF Over, Running, AwaitingAck
      <3>3. QED
        BY <1>1, <2>2, <3>1, <3>2 DEF ProcInv, ConnInv, RequestsInv, AnswersInv, LoggedIn
    <2>3. QED  BY <1>2, <2>1, <2>2
  <1>4. \A q \in Proc \ {p} : UNCHANGED Own(q)
    BY <1>1, <1>3 DEF Own
  <1>5. OutcomeInv(p)' /\ Active(p)
    BY <1>1, <1>2 DEF ProcInv, OutcomeInv, ServerKey, Sums, Active, Connected
  <1>6. QED  BY <1>1, <1>3, <1>4, <1>5, RunningStep
-----------------------------------------------------------------------------
(* The environment's steps, and the theorems. *)

LEMMA ServerCrashSerial ==
    ASSUME SerialInv, KeyInv', ServerCrash
    PROVE  SerialInv'
  <1> USE DEF SerialInv, KeyInv, TypeInv
  <1>1. UNCHANGED <<clients, files, disk, resp, pc, aes, sum, sending, sent>>
    BY DEF ServerCrash, storeVars, clientVars
  <1>2. \A q \in Proc : req'[q] = <<>> /\ conn'[q] = IF Connected(q) THEN "closed" ELSE conn[q]
    BY DEF ServerCrash, ServerDown
  <1>3. \A q \in Proc : conn'[q] # "open" /\ (Active(q)' => Active(q))
    BY <1>1, <1>2 DEF Active, Connected
  <1>4. ASSUME NEW q \in Proc  PROVE ProcInv(q)'
    <2>1. LoggedIn(q)' = LoggedIn(q) /\ ServerKey(q)' = ServerKey(q) /\ Sums(q)' = Sums(q)
      BY <1>1 DEF LoggedIn, ServerKey, Sums
    <2>2. ConnInv(q)'
      BY <1>1, <1>2, <1>3, <2>1 DEF ProcInv, ConnInv, Connected
    <2>3. KeysInv(q)'
      BY <1>1, <1>3, <2>1 DEF ProcInv, KeysInv
    <2>4. RequestsInv(q)'
      BY <1>2, <1>3 DEF RequestsInv
    <2>5. AnswersInv(q)'
      <3>1. \A m : Fitting(q, m) => Fitting(q, m)'
        BY <1>1, <1>3, <2>1 DEF Fitting
      <3>2. QED  BY <1>1, <1>2, <3>1 DEF ProcInv, AnswersInv
    <2>6. OutcomeInv(q)'
      BY <1>1, <2>1 DEF ProcInv, OutcomeInv
    <2>7. QED  BY <2>2, <2>3, <2>4, <2>5, <2>6 DEF ProcInv
  <1>5. ASSUME NEW id \in ID  PROVE RowInv(id)'
    BY <1>1 DEF RowInv, LoggedIn, Sums
  <1>6. Alone'
    BY <1>3, AloneKeeps
  <1>7. QED  BY <1>4, <1>5, <1>6

LEMMA StutterSerial ==
    ASSUME SerialInv, KeyInv',
           UNCHANGED <<clients, files, disk, conn, req, resp, pc, aes, sum, sending, sent>>
    PROVE  SerialInv'
  <1>1. \A q \in Proc : UNCHANGED Own(q) /\ IdOf[q] \in ID
    BY TransferConstantsOK DEF Own
  <1>2. \A id \in ID : UNCHANGED Store(id)
    BY DEF Store
  <1>3. \A q \in Proc : ProcInv(q)'
    BY <1>1, <1>2, Bystander DEF SerialInv
  <1>4. \A id \in ID : RowInv(id)'
    BY DEF SerialInv, RowInv, LoggedIn, Sums
  <1>5. Alone'
    BY <1>1, ActiveKeeps, AloneKeeps DEF SerialInv
  <1>6. QED  BY <1>3, <1>4, <1>5 DEF SerialInv

LEMMA SerialInit == Init => SerialInv
  <1> SUFFICES ASSUME Init  PROVE SerialInv
    OBVIOUS
  <1>1. KeyInv
    BY TypeInit DEF KeyInv, PacketsOwnKey, Init
  <1>2. Alone
    BY DEF Alone, Active, Connected, Running, AwaitingAck, Init
  <1>3. ASSUME NEW p \in Proc  PROVE ProcInv(p)
    <2>1. /\ pc[p] = "off" /\ conn[p] = "none" /\ req[p] = <<>> /\ resp[p] = <<>>
          /\ aes[p] = NoAesKey /\ ~LoggedIn(p)
      BY DEF Init, LoggedIn
    <2>2. ServerKey(p) \in Nat
      BY <1>1, TransferConstantsOK, KeyType DEF ServerKey, KeyInv, TypeInv
    <2>3. KeysInv(p)
      BY <2>1, <2>2 DEF KeysInv, NoAesKey
    <2>4. ConnInv(p) /\ RequestsInv(p) /\ AnswersInv(p) /\ OutcomeInv(p)
      BY <2>1 DEF ConnInv, RequestsInv, AnswersInv, OutcomeInv, Running, AwaitingAck
    <2>5. QED  BY <2>3, <2>4 DEF ProcInv
  <1>4. ASSUME NEW id \in ID  PROVE RowInv(id)
    <2>1. files[id] = NULL
      BY DEF Init
    <2>2. QED  BY <2>1, TransferConstantsOK DEF RowInv
  <1>5. QED  BY <1>1, <1>2, <1>3, <1>4 DEF SerialInv

LEMMA SerialStep ==
    ASSUME Serial, SerialInv, [Next]_vars
    PROVE  SerialInv'
  <1>1. KeyInv'
    BY KeyStep DEF SerialInv
  <1>2. ASSUME NEW p \in Proc, Start(p) \/ Crash(p)  PROVE SerialInv'
    BY <1>1, <1>2, StartSerial, EndSerial
  <1>3. ASSUME NEW p \in Proc, ClientStep(p)  PROVE SerialInv'
    BY <1>1, <1>3, ReceiveLoginSerial, OpenFileSerial, SendPacketSerial, ReceiveCrcSerial,
       ReceiveAckSerial, EndSerial DEF ClientStep
  <1>4. ASSUME NEW p \in Proc, ServerStep(p)  PROVE SerialInv'
    BY <1>1, <1>4, HandleLoginSerial, HandlePacketSerial, HandleLastPacketSerial,
       FailLastPacketSerial, HandleCrcSerial, CloseSerial DEF ServerStep
  <1>5. ASSUME NEW p \in Proc, TearSendFile(p)  PROVE SerialInv'
    BY <1>5 DEF Serial, TearSendFile, Fault
  <1>6. CASE ServerCrash
    BY <1>1, <1>6, ServerCrashSerial
  <1>7. CASE (\E id \in ID : Edit(id)) \/ ServerRestart \/ UNCHANGED vars
    <2>1. UNCHANGED <<clients, files, disk, conn, req, resp, pc, aes, sum, sending, sent>>
      BY <1>7 DEF Edit, ServerRestart, storeVars, clientVars, vars
    <2>2. QED  BY <1>1, <2>1, StutterSerial
  <1>8. QED
    BY <1>2, <1>3, <1>4, <1>5, <1>6, <1>7 DEF Next, Idle

LEMMA SerialInvariant == ASSUME Serial PROVE Spec => []SerialInv
  <1>1. SerialInv /\ [Next]_vars => SerialInv'
    BY SerialStep
  <1>2. QED  BY <1>1, SerialInit, PTL DEF Spec

\* A row marked verified describes the file on disk: it is, whole and decrypted,
\* the content a process of that client computed its checksum from, whatever
\* crashes and whenever (handle_crc_codes).
THEOREM VerifiedMeansStoredHolds == ASSUME Serial PROVE Spec => []VerifiedMeansStored
  <1>1. SerialInv => VerifiedMeansStored
    BY DEF SerialInv, ProcInv, ConnInv, RowInv, Sums, VerifiedMeansStored
  <1>2. QED  BY <1>1, SerialInvariant, PTL

\* A process that told its user of success left a verified row and its file
\* (main after handle_send_file, and handle_crc_codes).
THEOREM SuccessIsRecordedHolds == ASSUME Serial PROVE Spec => []SuccessIsRecorded
  <1>1. SerialInv => SuccessIsRecorded
    BY DEF SerialInv, ProcInv, OutcomeInv, ServerKey, Sums, SuccessIsRecorded
  <1>2. QED  BY <1>1, SerialInvariant, PTL

\* A process that gave up left a row that is not verified (handle_send_file
\* after INVALID_CRC_FINAL_REQUEST_CODE, and handle_send_file_request).
THEOREM GivingUpIsRecordedHolds == ASSUME Serial PROVE Spec => []GivingUpIsRecorded
  <1>1. SerialInv => GivingUpIsRecorded
    BY DEF SerialInv, ProcInv, OutcomeInv, ServerKey, GivingUpIsRecorded
  <1>2. QED  BY <1>1, SerialInvariant, PTL
-----------------------------------------------------------------------------
(* The upload keeps the promise of a backup: each step of Transfer is a step *)
(* of Backup or changes nothing of what Backup speaks about.                 *)

\* Functions on S that differ at one argument at most.
LEMMA ChangedAtOne ==
    ASSUME NEW S, NEW f, NEW g, NEW a \in S, NEW v,
           f = [x \in S |-> f[x]], g = [x \in S |-> g[x]],
           g[a] = v, \A x \in S \ {a} : g[x] = f[x]
    PROVE  g = [f EXCEPT ![a] = v]
  OBVIOUS

LEMMA PromiseTypes ==
    /\ Claim = [p \in Proc |-> Claim[p]] /\ Claim' = [p \in Proc |-> Claim'[p]]
    /\ Holder = [id \in ID |-> Holder[id]] /\ Holder' = [id \in ID |-> Holder'[id]]
    /\ Vouched = [id \in ID |-> Vouched[id]] /\ Vouched' = [id \in ID |-> Vouched'[id]]
    /\ Told = [p \in Proc |-> Told[p]] /\ Told' = [p \in Proc |-> Told'[p]]
  BY DEF Claim, Holder, Vouched, Told

LEMMA KeysKeep ==
    ASSUME UNCHANGED <<clients, aes, sum>>
    PROVE  Claim' = Claim /\ Holder' = Holder
  BY DEF Claim, Holder

LEMMA StoreKeeps ==
    ASSUME UNCHANGED <<files, disk>>
    PROVE  Vouched' = Vouched
  BY DEF Vouched

LEMMA ToldKeeps ==
    ASSUME \A p \in Proc : pc'[p] # pc[p] => /\ pc[p] \notin {"success", "gaveUp"}
                                             /\ pc'[p] \notin {"success", "gaveUp"}
    PROVE  Told' = Told
  <1>1. \A p \in Proc : Told'[p] = Told[p]
    BY DEF Told
  <1>2. QED  BY <1>1, PromiseTypes

\* The process that is active is the one accepted last, once it knows its key.
LEMMA ActiveHolds ==
    ASSUME SerialInv, NEW p \in Proc, Active(p), LoggedIn(p)
    PROVE  /\ Promise!Holds(p) /\ IdOf[p] \in ID
           /\ Claim[p] = Plain(sum[p])
  <1>1. IdOf[p] \in ID /\ aes[p] = ServerKey(p) /\ \A q \in Siblings(p) : aes[q] # aes[p]
    BY TransferConstantsOK DEF SerialInv, ProcInv, KeysInv
  <1>2. Holder[IdOf[p]] = {p}
    BY <1>1 DEF Holder, ServerKey, Siblings
  <1>3. QED  BY <1>1, <1>2 DEF Promise!Holds, Claim, LoggedIn

LEMMA AcceptStep ==
    ASSUME Serial, SerialInv, SerialInv', NEW p \in Proc, HandleLogin(p)
    PROVE  Promise!Accept(IdOf[p])
  <1> USE DEF SerialInv, KeyInv, TypeInv
  <1>1. IdOf[p] \in ID /\ UNCHANGED <<files, disk, pc, aes, sum>>
    BY TransferConstantsOK DEF HandleLogin, clientVars
  <1>2. /\ ServerKey(p) \in Nat /\ ServerKey(p)' = ServerKey(p) + 1
        /\ \A id \in ID \ {IdOf[p]} : get_aes_key(clients', id) = get_aes_key(clients, id)
    BY LoginKey
  <1>3. \A q \in Proc : IdOf[q] = IdOf[p] => aes[q] \in Nat /\ aes[q] <= ServerKey(p)
    BY DEF TypeOK, ProcInv, KeysInv, ServerKey
  <1>4. \A q \in Proc : IdOf[q] = IdOf[p] => aes[q] # ServerKey(p)'
    BY <1>2, <1>3
  <1>5. Holder'[IdOf[p]] = {}
    BY <1>1, <1>4 DEF Holder, ServerKey
  <1>6. \A id \in ID \ {IdOf[p]} : Holder'[id] = Holder[id]
    BY <1>1, <1>2 DEF Holder
  <1>7. Holder' = [Holder EXCEPT ![IdOf[p]] = {}]
    BY <1>1, <1>5, <1>6, PromiseTypes, ChangedAtOne
  <1>8. Claim' = Claim /\ Vouched' = Vouched /\ Told' = Told
    BY <1>1 DEF Claim, Vouched, Told
  <1>9. QED  BY <1>7, <1>8 DEF Promise!Accept

LEMMA BeginStep ==
    ASSUME SerialInv, NEW p \in Proc, ReceiveLogin(p), pc'[p] = "openFile"
    PROVE  Promise!Begin(p)
  <1> USE DEF SerialInv, KeyInv, TypeInv
  <1> DEFINE m == Head(resp[p])
  <1>1. /\ pc[p] = "awaitLogin" /\ UNCHANGED <<clients, files, disk>> /\ IdOf[p] \in ID
        /\ m.code = LOGIN_SUCCESS_CODE
        /\ aes' = [aes EXCEPT ![p] = m.aes] /\ sum' = [sum EXCEPT ![p] = local[IdOf[p]]]
        /\ local[IdOf[p]] \in Version
        /\ \A q \in Proc \ {p} : pc'[q] = pc[q]
    BY TransferConstantsOK DEF ReceiveLogin, Goto, TypeOK, storeVars
  <1>2. ~LoggedIn(p) /\ Fitting(p, m)
    BY <1>1, OneAnswer DEF ReceiveLogin, Running, ProcInv, ConnInv
  <1>3. m.aes = ServerKey(p) /\ \A q \in Proc : IdOf[q] = IdOf[p] => aes[q] < m.aes
    BY <1>1, <1>2 DEF Fitting, GENERAL_FAIL_CODE, LOGIN_SUCCESS_CODE, SERVER_ACK_CODE,
                      RECEIVED_FILE_SUCCESS_CODE
  <1> HIDE DEF m
  <1>4. \A q \in Proc : aes[q] \in Nat
    BY DEF TypeOK
  <1>5. ServerKey(p) \in Nat
    BY <1>1, KeyType DEF ServerKey
  <1>6. m.aes # NoAesKey /\ \A q \in Proc : IdOf[q] = IdOf[p] => aes[q] # ServerKey(p)
    BY <1>3, <1>4, <1>5 DEF NoAesKey
  <1>7. /\ aes'[p] = ServerKey(p) /\ aes'[p] # NoAesKey /\ sum'[p] = local[IdOf[p]]
        /\ \A q \in Proc \ {p} : aes'[q] = aes[q] /\ sum'[q] = sum[q]
    BY <1>1, <1>3, <1>6 DEF TypeOK
  <1>8. Claim[p] = NULL /\ Claim' = [Claim EXCEPT ![p] = Plain(local[IdOf[p]])]
    <2>1. Claim[p] = NULL /\ Claim'[p] = Plain(local[IdOf[p]])
      BY <1>2, <1>7 DEF Claim, LoggedIn
    <2>2. \A q \in Proc \ {p} : Claim'[q] = Claim[q]
      BY <1>7 DEF Claim
    <2>3. QED  BY <2>1, <2>2, PromiseTypes, ChangedAtOne
  <1>9. Holder[IdOf[p]] = {} /\ Holder' = [Holder EXCEPT ![IdOf[p]] = {p}]
    <2>1. Holder[IdOf[p]] = {}
      BY <1>1, <1>6 DEF Holder, ServerKey
    <2>2. Holder'[IdOf[p]] = {p}
      BY <1>1, <1>6, <1>7 DEF Holder, ServerKey
    <2>3. \A id \in ID \ {IdOf[p]} : Holder'[id] = Holder[id]
      BY <1>1, <1>7 DEF Holder
    <2>4. QED  BY <1>1, <2>1, <2>2, <2>3, PromiseTypes, ChangedAtOne
  <1>10. Vouched' = Vouched /\ Told' = Told
    BY <1>1, StoreKeeps, ToldKeeps
  <1>11. \E c \in {Plain(v) : v \in Version} : Claim' = [Claim EXCEPT ![p] = c]
    BY <1>1, <1>8
  <1>12. QED  BY <1>8, <1>9, <1>10, <1>11 DEF Promise!Begin

LEMMA RetractStep ==
    ASSUME SerialInv, NEW p \in Proc, HandlePacket(p) \/ HandleLastPacket(p) \/ FailLastPacket(p)
    PROVE  Promise!Retract(p)
  <1>1. /\ conn[p] = "open" /\ req[p] # <<>> /\ Head(req[p]).code = SEND_FILE_REQUEST_CODE
        /\ files' = Listed(IdOf[p], Head(req[p]).block)
        /\ UNCHANGED <<clients, pc, aes, sum>>
    BY DEF HandlePacket, HandleLastPacket, FailLastPacket, Serve, Requested, clientVars
  <1>2. /\ InUpload(p) /\ pc[p] \in {"send", "awaitCrc", "dead"}
        /\ files'[IdOf[p]] = FALSE /\ \A id \in ID \ {IdOf[p]} : files'[id] = files[id]
    BY <1>1, PacketTaken
  <1>3. Promise!Holds(p) /\ IdOf[p] \in ID
    BY <1>1, <1>2, ActiveHolds DEF Active, Connected, InUpload
  <1>4. \A id \in ID \ {IdOf[p]} : disk'[id] = disk[id]
    BY DEF HandlePacket, HandleLastPacket, FailLastPacket, SerialInv, KeyInv, TypeInv, TypeOK
  <1>5. Vouched' = [Vouched EXCEPT ![IdOf[p]] = NULL]
    <2>1. Vouched'[IdOf[p]] = NULL
      BY <1>2, <1>3 DEF Vouched
    <2>2. \A id \in ID \ {IdOf[p]} : Vouched'[id] = Vouched[id]
      BY <1>2, <1>4 DEF Vouched
    <2>3. QED  BY <1>3, <2>1, <2>2, PromiseTypes, ChangedAtOne
  <1>6. Told[p] = "nothing" /\ Told' = Told
    BY <1>1, <1>2 DEF Told
  <1>7. Claim' = Claim /\ Holder' = Holder
    BY <1>1, KeysKeep
  <1>8. QED  BY <1>3, <1>5, <1>6, <1>7 DEF Promise!Retract

LEMMA VouchStep ==
    ASSUME Serial, SerialInv, NEW p \in Proc, HandleCrc(p)
    PROVE  Promise!Vouch(p) \/ UNCHANGED Promise!vars
  <1> USE DEF SerialInv, KeyInv, TypeInv
  <1>1. Serve(p, CrcCodes) /\ UNCHANGED <<clients, disk, pc, aes, sum>>
    BY DEF HandleCrc, clientVars
  <1>2. files' = IF Verifies(Head(req[p]).code) THEN update_file_verification(files, IdOf[p], TRUE)
                                               ELSE files
    BY DEF HandleCrc, WholeName, PartOfName, Fault, Serial
  <1>3. /\ conn[p] = "open" /\ req[p] # <<>> /\ 1 \in DOMAIN req[p]
        /\ Head(req[p]) = req[p][1] /\ req[p][1].code \in CrcCodes
    BY <1>1, Taken
  <1>4. InVerdict(p)
    BY <1>3, RequestOfCode
  <1>5. LoggedIn(p) /\ files[IdOf[p]] = FALSE
    BY <1>4 DEF InVerdict
  <1>6. PICK code \in CrcCodes :
          /\ req[p] = <<[code |-> code]>>
          /\ pc[p] \in {AckOf[code], "dead"}
          /\ code = VALID_CRC_REQUEST_CODE => Sums(p)
    BY <1>4 DEF InVerdict
  <1>7. Head(req[p]).code = code /\ pc[p] \notin {"success", "gaveUp"}
    BY <1>6 DEF AckOf, CrcCodes
  <1>8. Claim' = Claim /\ Holder' = Holder /\ Told' = Told /\ Told[p] = "nothing"
    BY <1>1, <1>7, KeysKeep DEF Told
  <1>9. CASE code = VALID_CRC_REQUEST_CODE
    <2>1. /\ Promise!Holds(p) /\ IdOf[p] \in ID /\ Claim[p] = Plain(sum[p])
      BY <1>3, <1>5, ActiveHolds DEF Active, Connected
    <2>2. files' = [files EXCEPT ![IdOf[p]] = TRUE]
      <3>1. files[IdOf[p]] # NULL
        BY <1>5, TransferConstantsOK
      <3>2. QED  BY <1>2, <1>7, <1>9, <3>1 DEF Verifies, update_file_verification
    <2>3. files'[IdOf[p]] = TRUE /\ \A id \in ID \ {IdOf[p]} : files'[id] = files[id]
      BY <2>1, <2>2 DEF TypeOK
    <2>4. Vouched[IdOf[p]] = NULL /\ Vouched'[IdOf[p]] = Claim[p]
      BY <1>1, <1>5, <1>6, <1>9, <2>1, <2>3 DEF Vouched, Sums
    <2>5. \A id \in ID \ {IdOf[p]} : Vouched'[id] = Vouched[id]
      BY <1>1, <2>3 DEF Vouched
    <2>6. Vouched' = [Vouched EXCEPT ![IdOf[p]] = Claim[p]]
      BY <2>1, <2>4, <2>5, PromiseTypes, ChangedAtOne
    <2>7. QED  BY <1>8, <2>1, <2>4, <2>6 DEF Promise!Vouch
  <1>10. CASE code # VALID_CRC_REQUEST_CODE
    <2>1. files' = files
      BY <1>2, <1>7, <1>10 DEF Verifies
    <2>2. QED  BY <1>1, <1>8, <2>1, StoreKeeps DEF Promise!vars
  <1>11. QED  BY <1>9, <1>10

LEMMA OutcomeStep ==
    ASSUME SerialInv, NEW p \in Proc, ReceiveAck(p)
    PROVE  Promise!Succeed(p) \/ Promise!GiveUp(p) \/ UNCHANGED Promise!vars
  <1> USE DEF SerialInv, KeyInv, TypeInv
  <1> DEFINE m == Head(resp[p])
  <1>1. UNCHANGED <<clients, files, disk, aes, sum>> /\ pc[p] \in AwaitingAck
    BY DEF ReceiveAck, storeVars
  <1>2. /\ pc'[p] \in {"success", "gaveUp", "openFile", "failed"}
        /\ pc'[p] \in {"success", "gaveUp"} => m.code = SERVER_ACK_CODE
        /\ pc'[p] = "success" => pc[p] = "awaitAckValid"
        /\ pc'[p] = "gaveUp" => pc[p] = "awaitAckFinal"
        /\ \A q \in Proc \ {p} : pc'[q] = pc[q]
    BY DEF ReceiveAck, Goto, TypeOK
  <1>3. Fitting(p, m)
    BY <1>1, OneAnswer DEF ReceiveAck, Running
  <1>4. m.code = SERVER_ACK_CODE
          => /\ pc[p] = "awaitAckValid" => files[IdOf[p]] = TRUE /\ Sums(p)
             /\ pc[p] = "awaitAckFinal" => files[IdOf[p]] = FALSE
    BY <1>3 DEF Fitting, GENERAL_FAIL_CODE, LOGIN_SUCCESS_CODE, SERVER_ACK_CODE,
                RECEIVED_FILE_SUCCESS_CODE
  <1> HIDE DEF m
  <1>5. Active(p) /\ LoggedIn(p)
    BY <1>1 DEF Active, Running, ProcInv, ConnInv, AwaitingAck
  <1>6. Promise!Holds(p) /\ IdOf[p] \in ID /\ Claim[p] = Plain(sum[p])
    BY <1>5, ActiveHolds
  <1>7. Claim' = Claim /\ Holder' = Holder /\ Vouched' = Vouched
    BY <1>1, KeysKeep, StoreKeeps
  <1>8. Told[p] = "nothing" /\ \A q \in Proc \ {p} : Told'[q] = Told[q]
    BY <1>1, <1>2 DEF Told, AwaitingAck
  <1>9. CASE pc'[p] = "success"
    <2>1. Vouched[IdOf[p]] = Claim[p]
      BY <1>2, <1>4, <1>6, <1>9 DEF Vouched, Sums
    <2>2. Told' = [Told EXCEPT ![p] = "success"]
      <3>1. Told'[p] = "success"
        BY <1>9 DEF Told
      <3>2. QED  BY <1>8, <3>1, PromiseTypes, ChangedAtOne
    <2>3. QED  BY <1>6, <1>7, <1>8, <2>1, <2>2 DEF Promise!Succeed
  <1>10. CASE pc'[p] = "gaveUp"
    <2>1. Vouched[IdOf[p]] = NULL
      BY <1>2, <1>4, <1>6, <1>10 DEF Vouched
    <2>2. Told' = [Told EXCEPT ![p] = "gaveUp"]
      <3>1. Told'[p] = "gaveUp"
        BY <1>10 DEF Told
      <3>2. QED  BY <1>8, <3>1, PromiseTypes, ChangedAtOne
    <2>3. QED  BY <1>6, <1>7, <1>8, <2>1, <2>2 DEF Promise!GiveUp
  <1>11. CASE pc'[p] \in {"openFile", "failed"}
    <2>1. Told' = Told
      BY <1>1, <1>2, <1>11, ToldKeeps DEF AwaitingAck
    <2>2. QED  BY <1>7, <2>1 DEF Promise!vars
  <1>12. QED  BY <1>2, <1>9, <1>10, <1>11

\* The steps that Backup does not speak about.
LEMMA SilentStep ==
    ASSUME SerialInv, UNCHANGED <<clients, files, disk, aes, sum>>,
           \A p \in Proc : pc'[p] # pc[p] => /\ pc[p] \notin {"success", "gaveUp"}
                                             /\ pc'[p] \notin {"success", "gaveUp"}
    PROVE  UNCHANGED Promise!vars
  BY KeysKeep, StoreKeeps, ToldKeeps DEF Promise!vars

LEMMA PromiseStep ==
    ASSUME Serial, SerialInv, SerialInv', [Next]_vars
    PROVE  [Promise!Next]_(Promise!vars)
  <1> USE DEF SerialInv, KeyInv, TypeInv
  <1>1. ASSUME NEW p \in Proc, HandleLogin(p)  PROVE Promise!Next
    BY <1>1, AcceptStep, TransferConstantsOK DEF Promise!Next
  <1>2. ASSUME NEW p \in Proc, ReceiveLogin(p)  PROVE [Promise!Next]_(Promise!vars)
    <2>1. CASE pc'[p] = "openFile"
      BY <1>2, <2>1, BeginStep DEF Promise!Next
    <2>2. CASE pc'[p] # "openFile"
      <3>1. UNCHANGED <<clients, files, disk, aes, sum>>
        BY <1>2, <2>2 DEF ReceiveLogin, Goto, TypeOK, storeVars
      <3>2. pc[p] = "awaitLogin" /\ pc'[p] = "failed" /\ \A q \in Proc \ {p} : pc'[q] = pc[q]
        BY <1>2, <2>2 DEF ReceiveLogin, Goto, TypeOK
      <3>3. QED  BY <3>1, <3>2, SilentStep
    <2>3. QED  BY <2>1, <2>2
  <1>3. ASSUME NEW p \in Proc, HandlePacket(p) \/ HandleLastPacket(p) \/ FailLastPacket(p)
        PROVE  Promise!Next
    BY <1>3, RetractStep DEF Promise!Next
  <1>4. ASSUME NEW p \in Proc, HandleCrc(p)  PROVE [Promise!Next]_(Promise!vars)
    BY <1>4, VouchStep DEF Promise!Next
  <1>5. ASSUME NEW p \in Proc, ReceiveAck(p)  PROVE [Promise!Next]_(Promise!vars)
    BY <1>5, OutcomeStep DEF Promise!Next
  <1>6. ASSUME NEW p \in Proc, \/ Start(p) \/ OpenFile(p) \/ SendPacket(p) \/ ReceiveCrc(p)
                               \/ LoseConnection(p) \/ Crash(p)
        PROVE  UNCHANGED Promise!vars
    <2>1. UNCHANGED <<clients, files, disk, aes, sum>> /\ pc[p] \in Running \cup {"off"}
      BY <1>6 DEF Start, OpenFile, SendPacket, ReceiveCrc, LoseConnection, Crash, Running,
                  storeVars, clientVars
    <2>2. /\ pc'[p] \notin {"success", "gaveUp"} /\ \A q \in Proc \ {p} : pc'[q] = pc[q]
      BY <1>6 DEF Start, OpenFile, SendPacket, ReceiveCrc, LoseConnection, Crash, Verdict,
                  Goto, TypeOK
    <2>3. QED  BY <2>1, <2>2, SilentStep DEF Running, AwaitingAck
  <1>7. ASSUME NEW p \in Proc, TearSendFile(p)  PROVE FALSE
    BY <1>7 DEF Serial, TearSendFile, Fault
  <1>8. CASE \/ \E p \in Proc : FailRequest(p) \/ Disconnect(p)
             \/ \E id \in ID : Edit(id)
             \/ ServerCrash \/ ServerRestart \/ UNCHANGED vars
    <2>1. UNCHANGED <<clients, files, disk, aes, sum, pc>>
      BY <1>8 DEF FailRequest, Disconnect, Edit, ServerCrash, ServerRestart, storeVars,
                  clientVars, vars
    <2>2. QED  BY <2>1, SilentStep
  <1>9. QED
    BY <1>1, <1>2, <1>3, <1>4, <1>5, <1>6, <1>7, <1>8
       DEF Next, ClientStep, ServerStep, Idle

LEMMA PromiseInit == Init => Promise!Init
  <1> SUFFICES ASSUME Init  PROVE Promise!Init
    OBVIOUS
  <1>1. Claim = [p \in Proc |-> NULL]
    BY DEF Init, Claim
  <1>2. \A id \in ID : Holder[id] = {}
    <2>1. ASSUME NEW id \in ID  PROVE get_aes_key(clients, id) = 1
      <3>1. clients[id] = [public_key |-> id, aes_key |-> 1]
        BY DEF Init
      <3>2. clients[id] \in ClientRow(ID)
        BY <3>1 DEF ClientRow
      <3>3. clients[id] # NULL
        BY <3>2, TransferConstantsOK
      <3>4. QED  BY <3>1, <3>3 DEF get_aes_key
    <2>2. \A p \in Proc : aes[p] = 0
      BY DEF Init, NoAesKey
    <2>3. QED  BY <2>1, <2>2 DEF Holder
  <1>3. Holder = [id \in ID |-> {}]
    BY <1>2, PromiseTypes
  <1>4. Vouched = [id \in ID |-> NULL]
    BY TransferConstantsOK DEF Init, Vouched
  <1>5. Told = [p \in Proc |-> "nothing"]
    BY DEF Init, Told
  <1>6. QED  BY <1>1, <1>3, <1>4, <1>5 DEF Promise!Init

\* The upload implements the abstract backup for any number of processes, ids,
\* versions and faults: what the server vouches for goes from nothing to the
\* content of the process accepted last and back, and no process tells its user
\* otherwise (handle_send_file, handle_send_file_request, handle_crc_codes).
THEOREM KeepsPromiseHolds == ASSUME Serial PROVE Spec => KeepsPromise
  <1>1. SerialInv /\ SerialInv' /\ [Next]_vars => [Promise!Next]_(Promise!vars)
    BY PromiseStep
  <1>2. QED
    BY <1>1, PromiseInit, SerialInvariant, PTL DEF Spec, KeepsPromise, Promise!Spec
=============================================================================
