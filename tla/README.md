# Verification of the file backup client and server

The program is a client (C++, `src/Client`) that uploads one encrypted file to a server
(Python, `src/Server`). The two speak a small binary protocol over TCP: register, exchange
keys, log in, send a file in packets, compare checksums. This directory holds TLA+
specifications of that program, the TLC instances that check them, and proofs for TLAPS.

    tlc -workers 2 -config KeyExchange_crash.cfg MCKeyExchange
    tlapm CksumProofs.tla

## 1. The system

### Components

| Component | State | Operations |
|---|---|---|
| Client process (`client.cpp`, `RequestsHandler.cpp`) | id, private RSA key, AES key, one socket; dies with the process | `load_stored_credentials`, `attempt_login`, `attempt_register`, `handle_send_file` |
| Working directory (`FileHandler.cpp`) | `me.info` (name, id, private key), `priv.key` (never read), `transfer.info`, the file to send; survives the process | `write_me_info` truncates and writes two lines, `put_key_in_files` appends |
| Server process (`server.py`, `request_handler.py`) | the selector and its connections; nothing else lives between requests | `accept_connection`, one handler per request code, `cleanup_connection` |
| Database (`database.py`) | tables `clients` (public key, AES key) and `files` (the flag `verified`); persistent, each statement commits | inserts, updates by primary key, reads |
| Stored files | one folder per client id; persistent | truncate, append, read all, rewrite |
| Message layout (`Header`, `Payload`, `RequestPacket`, `Endianness`, `response.py`) | none | serialise, parse |
| Checksum (`cksum.cpp`, `cksum.py`) | none | `memcrc` on both sides |
| Ciphers (`AESWrapper`, `RSAWrapper`, `encryption.py`) | none | library wrappers; AES in CBC mode with a zero IV |
| Start-up (`main.cpp`, `main.py`, `port.py`) | configuration files | read once |

### How they interact

The client has one thread. It writes a request and blocks until the response is there, except
that the packets of a file are written one after another and only the last is answered. The
server has one thread: `select` names the connections with something to read, and a handler
runs for each of them to its end before the next is looked at. Requests of different
connections are handled in any order, and a request that a process wrote before it died is
handled like any other. Nothing ties a connection to a client: a request carries the id.
Two executions of the client meet through the server's tables (same id) and, in the same
directory, through `me.info`.

### What is hard

* *Crashes between steps.* A registration spreads over `me.info`, the appended key, the
  public key in the database and the AES key in the database; an upload over the stored file
  and its row. Each step can be the last.
* *Late requests.* The request of a dead process can be handled after the next process of the
  directory has started.
* *Shared rows and files.* A login replaces the AES key under an upload that is under way;
  two uploads append to the same file; a verdict applies to whatever row there is by then.
* *Framing.* `recv` may return less than was asked for. A short name is accepted, a short
  payload raises and closes the connection, and whatever arrives late is read as a header.
* *Retries.* Three loops of `NUM_OF_TRIALS` turns over a connection that may be closed.
* *Widths.* Packets are counted in 16 bits and sizes in 32; the checksum's register is a 64-bit
  `long` cut to 32 bits by hand; every layout is written once with shifts and once with
  `struct` formats.
* *Descriptors.* One loop without timeouts serves all connections; descriptors are few and
  used again; an exception of `accept_connection` ends the server.

The list of hazards, each at its line and with the properties aimed at it, is in
`PROJECT.json`.

### What makes each component correct

* Key exchange: whatever crashed, the private key a directory loads fits the public key the
  server has for its id; an accepted login gives the key; nobody is both refused at login and
  refused registration; an execution that nothing disturbs gets a key.
* Upload: a reported success is recorded, a verified row describes the whole decrypted file, a
  recorded failure is not overridden by an older success, an undisturbed upload succeeds.
* Both: every execution ends.
* Packets: where the server takes an upload to be complete it holds every byte once and in
  order; the client never awaits a checksum that cannot come.
* Framing: however the bytes are cut, requests are handled whole, in order and once, or the
  connection is closed; no answer is taken for that of a later request; nobody waits for ever.
* Checksum: the two languages compute the same, and what is stored with a few bytes wrong is
  not taken for the file.
* Layout: the two languages read the same.
* Event loop: nobody is starved; the server ends only under load.

## 2. The modules

| Module | What it models |
|---|---|
| `Protocol` | the codes of `Protocol.h` and `protocol_constants.py` |
| `Database` | the two tables as values and each SQL statement as an operator on them |
| `KeyExchange` | login, registration and key exchange: client processes, working directories, server |
| `Transfer` | the upload of a file, from the login to the acknowledged verdict |
| `Backup`, `TransferBackup` | what the program promises of a backup, and how `Transfer` implements it |
| `Packetizer` | cutting a file into packets and joining them, with the widths of the counters |
| `RequestChannel`, `Framing` | a connection as `KeyExchange` and `Transfer` take it, and as bytes that arrive in pieces |
| `CrcTable`, `Cksum` | the tables and the loops of both `memcrc`, and the polynomial division they stand for |
| `Codec` | the layout of every message, and the id in `me.info` |
| `EventLoop` | `Server.run`: `select`, the batch of events, accept and clean-up |
| `MC...` | the instances for TLC |
| `KeyExchangeProofs` | type correctness, `AesNeedsPublicKey`, `OnlySiblingDisplacesKey`, `StoredKeyOpensLogin`, `LoginYieldsKey` and `RefusalIsRecoverable`, proved |
| `TransferProofs` | type correctness and `DisplacedUploadNeverMatches`, proved |
| `TransferSerialProofs` | `VerifiedMeansStored`, `SuccessIsRecorded` and `GivingUpIsRecorded`, and that `Transfer` implements `Backup`, proved |
| `PacketizerProofs` | `CompleteIsWhole` and `FittingChecksumComes`, proved |
| `FramingProofs` | type correctness, `AnswerFitsRequest`, and that `Framing` implements `RequestChannel`, proved |
| `CksumProofs` | type correctness, `RegisterIsRemainder`, `ClientIsPosix`, `SumsAgree`, `DamageIsNoticed` and `SizeIsNoticed`, proved |
| `CodecProofs` | type correctness, `RequestReadAsMeant`, `ResponseReadAsMeant` and `IdSurvivesFile`, proved |
| `EventLoopProofs` | `StopsOnlyUnderLoad`, proved |

The modules meet in four places. `Transfer` starts where `KeyExchange` ends, with a registered
id, and begins with the login both have. Both take a connection to be `RequestChannel`, which
`Framing` implements byte by byte. `Transfer` counts packets without a width and takes
checksums of different contents to differ: `Packetizer` shows the first is right for files up
to 65534 packets, `Cksum` what the second amounts to. A message is a record in all of them;
`Codec` shows that the bytes carry the record. `EventLoop` shows that a handler is called for
every connection with something to read, which is the fairness of the other two.

Operators named `Mut...` stand directly before the definition they are a faulty version of: a
dropped `WHERE`, a swapped order of commits, a loop bound off by one. The property named in
`PROJECT.json` next to each fails when the faulty version is used, which shows that the
property depends on that line of the code.

### KeyExchange

A member of `Proc` is one execution of `main.cpp`; `DirOf` gives its working directory. `pc`
follows `Client::start`:

    off -> load -> login <-> awaitLogin -> ready -> done
                \> register <-> awaitRegister -> writeInfo -> putKey -> sendKey -> awaitKey -> ready

and ends in `failed` (an exception reached `main`) or `dead` (killed). Every step that
changes a file, writes to the socket or reads from it is an action, so `Crash` may come
between any two. `me.info` is truncated on opening (`ReceiveRegisterResponse`), its two lines
are written (`WriteMeInfo`), and the key is appended (`PutKeyInFiles`).
`LoadStoredCredentials` reads the first key of the file when several were appended: the rest
of the file is decoded as one string, and the decoder of the key stops at its end. Without a
usable `me.info` the uninitialised `registered` has either value.

Each server handler is one action, since the server has one thread, and each changes all that
the handler changes. `CrashInSendKey` is the server's death between the two commits of
`handle_send_key_request`, the only handler here with two. `ReadName` is `get_data` for the
client name: whole, or cut short with the rest left in the stream (`conn = "garbled"`), which
the server then takes for a header and fails on. `FailRequest` is a handler that raises
before it changes anything. A request on a connection that the server has closed is lost;
`LoseConnection` is the end of file or reset the client meets.

RSA key pairs are named by the process that generated them, and AES keys are numbered in the
order they are made for a client; both are random in the code and never repeat. An AES key
encrypted with a public key is the pair of the two.

### Transfer

Executions share a client id (`IdOf`) and the local file of their directory, whose versions
are numbered and which the user may edit at any moment. All ids are registered already. A
file is a sequence of blocks, one packet each; `Size[v]` is the number of packets of version
`v`. A block on the server's disk is encrypted with some key, or plain, or `Garbage`. CBC is
what `Intact` says: a block decrypts to its plaintext under its key if the block before it is
the one it was encrypted after. `PaddingOK` is when `unpad` cannot fail; otherwise it may
raise, and the file stays encrypted, or find padding by chance.

Checksums of different contents are taken to differ, so the server's checksum is the content
it decrypted, and versions of a file are taken to differ in every block. `HandlePacket`,
`HandleLastPacket` and `FailLastPacket` are the three outcomes of `handle_send_file_request`;
`TearSendFile` is the handler stopped between its writes, by the death of the server or by an
exception. A short `recv` of a packet raises in `struct.unpack`: it is the fault
"latePayload". `FaultKinds` selects the faults of an instance.

### Backup

For each client id the server vouches for one content or none, and the process accepted last
*holds* the id. Only that process changes what is vouched for, from a content to nothing
(`Retract`) and from nothing to its own (`Vouch`), and what it tells its user is so at that
moment. `TransferBackup` maps: vouched for is what is on disk under a verified row; the
claim of a process is the content its checksum was computed from; the holder is the process
whose AES key is the one in the table. Packets, trials, answers on the way, crashes and
restarts are stutters, and `KeepsPromise` is the refinement.

### Packetizer

One upload over an open connection. A file is the sequence of its positions, so the stored
file shows which bytes it holds. `BUFFER_SIZE`, and the numbers of values of a `uint16_t` and a
`uint32_t`, are constants. `TotalPackets`, `Offset`, `ChunkSize` and `Succ` compute with the
wrap-arounds of the declared types. `ThrowOutOfRange` is `substr` past the end of the data;
`Stuck` is the state in which the loop has sent nothing and both sides wait.

### Framing

One connection. The client writes requests of its script (`Send`) and waits for answers,
except after a packet in the middle of a file; the network delivers any prefix of what is
under way (`Deliver`); the server calls `recv` once for a header (`ParseHeader`, `ShortHeader`,
`UnknownCode`) and once for the payload (`ReadName`, `ReadPayload`, `LatePayload`,
`NoPayload`), each taking what has arrived. A byte is a request and a place in it, which shows
where a read starts. A read of 23 bytes that starts elsewhere is taken to find no known
code: what it takes for the code are bytes of a name, of its padding, or of random data.

### Cksum and Codec

`Cksum` steps through the two loops of `memcrc` in `cksum.cpp`; a word is the set of its bits.
`memcrc` of `cksum.py` and the division by the generator, bit by bit and without a table,
are operators. The two sides share nothing but how a word and a byte are represented.
`CrcTable` has two tables, `crctab[0]` of `cksum.cpp`, the one of eight that is read, and
`crctab` of `cksum.py` (`ServerCrctab`), entry by entry as each file has them. The client
shifts in a register of 32 bits (`ShiftLeft8`, `ShiftRight24`, `Index`, `Update`), the server
in an integer without a width that `UNSIGNED` cuts (`TabIdx`, `ServerUpdate`). `Fold` is the loop of `cksum.py` over its bytes, by halves so
that TLC's recursion stays shallow; `CksumProofs` shows that it takes them one after the other.
The `int` that counts the client's bytes has no width here: a file of 2^31 bytes is past what
the packets can number (`Packetizer`).

`Codec` takes one message from a record to bytes and back. `Bytes16` and `Bytes32` are the
shifts of the client, `At16` and `At32` both the server's `struct.unpack` and the client's
indices, `ToBytes16` and `ToBytes32` the server's packing. The client's conversion of byte order
is a constant: it changes nothing where `is_little_endian()` holds, the only machines
`AESWrapper.cpp`, which needs `immintrin.h`, builds on. `WriteMeInfo` and `LoadStoredCredentials`
are the hexadecimal id.

### EventLoop

A peer connects, writes a whole or a part of a request, leaves, and may come back. `Select`
takes all that is ready as a batch; callbacks run in any order within it, as `select` promises
none; a connection is known by the lowest free descriptor. `AcceptRaises` is an exception
that `run` does not catch: no descriptor is left, the descriptor is registered already, or the
connection was reset in the queue (`MayAbort`: systems differ in whether `accept` raises then).
`HandleFailure` is every path of `handle_client` to `cleanup_connection`.

## 3. What TLC checks

| Run | Instance | Shows |
|---|---|---|
| `keyexchange_crash` | 3 executions, 2 directories, 3 ids, 2 faults | `TypeOK`, `AesNeedsPublicKey`, `StoredKeyOpensLogin`, `LoginYieldsKey`, `RefusalIsRecoverable`, `OnlySiblingDisplacesKey` |
| `keyexchange_live` | 2 executions of 1 directory, 2 faults, fairness | `EveryRunEnds`, `UndisturbedRunGetsKey` |
| `keyexchange_overlap` | 2 executions at once, no fault | violates `StoredKeyOpensLogin` |
| `transfer_crash` | 3 executions one after another, versions of 2 packets and 1 packet, 2 faults | `TypeOK`, `VerifiedMeansStored`, `SuccessIsRecorded`, `GivingUpIsRecorded`, the refinement `KeepsPromise` |
| `transfer_live` | 2 executions, at once too, every kind of fault, fairness | `DisplacedUploadNeverMatches`, `EveryUploadEnds`, `UndisturbedUploadSucceeds` |
| `transfer_stale` | 2 executions at once, no fault | violates `VerifiedMeansStored` |
| `transfer_shortname` | a name arrives in two parts | violates `SuccessIsRecorded` |
| `packetizer_sizes` | packets of 3 bytes, counters of 8 values, sizes of 64 values: every size, fairness | `TypeOK`, `CompleteIsWhole`, `FittingChecksumComes`, `EveryFittingFileConfirmed` |
| `framing` | a session of 7 requests in pieces of every size, fairness | `TypeOK`, `AnswerFitsRequest`, `EveryWaitEnds`, the refinement `ImplementsChannel` |
| `cksum` | every byte, short sequences, sizes about 256, and two that differ in the highest bit of a byte | `TypeOK`, `RegisterIsRemainder`, `ClientIsPosix`, `SumsAgree`, `DamageIsNoticed`, `SizeIsNoticed` |
| `codec` | every kind of message, fields at the edges of their widths | `TypeOK`, `RequestReadAsMeant`, `ResponseReadAsMeant`, `IdSurvivesFile` |
| `eventloop` | 3 peers, 2 descriptors, fairness | `TypeOK`, `StopsOnlyUnderLoad`, `EveryRequestServed`, `EveryPeerAccepted` |

**Two environments.** With `MayOverlap = FALSE` an execution starts only when no other of its
directory is running; requests a dead one left behind may still be handled (in `Transfer` the
server has also noticed that the earlier connection is gone). That is how one person uses the
program. With `MayOverlap = TRUE` executions of a directory run at once; nothing in the code
prevents it, and the properties that fail then are the findings below.

**Bounds.** `NUM_OF_TRIALS` is 2 instead of 4: a loop then has a first, a last and a repeated
turn, and nothing counts the turns otherwise. Two executions in a directory show every
interference of one with the next; the third process of `keyexchange_crash` sits in another
directory, and the third of `transfer_crash` comes after a success and a failure. Two faults
allow a crash of the client and then one of the server, or a fault during recovery.
Versions of two packets and of one are enough for a first, a last and a sole packet, and a
shorter file over a longer one. `transfer_live` allows one fault: with two executions at once
each kind already meets every step of either. `MaxFaults` is the only bound on behaviours of
these two modules; everything else is finite because every execution ends. The ids that uuid4
draws and, in `transfer_crash`, the processes are interchangeable (symmetry, in runs without
liveness).

In `packetizer_sizes` a counter of 8 values numbers up to 6 packets of 3 bytes, and the sizes
run on to 63, past the first total that is truncated to 0 and to where the sum in 32 bits
wraps; the proofs lift the bounds. In `framing` a header has 3 bytes and a name 7, so that the
rest of a name can be shorter than, as long as and longer than a header; the session has a
refused login, a registration, an upload of three packets and its verdict. The contents of
`cksum` read every entry of the table, and have sizes whose bytes are one and two. In `codec`
a byte has 4 values and a digit 2, the fields their real widths in bytes; ids and keys are
all sequences of 2 bytes. In `eventloop` three peers on two descriptors fill the table,
overflow it, and use a descriptor again. It is checked without deadlock: the server may end.

**Fairness.** `WF(ClientStep(c))`: the operating system runs every process. `WF(ServerStep(c))`:
`select` reports every connection with something to read or closed by its peer, and its
handler is called. `WF(ServerRestart)`: someone starts the server again. Starting an
execution, a crash, a fault and an edit are never forced. "Undisturbed" means no fault left to
happen, no sibling alive or connected, and for an upload no edit left to make; for an upload it
begins with a login that is not handled yet, so that the key in the table will be its own.
`Packetizer`: the client and the server's handler go on while they can. `Framing`:
`WF(Deliver)`, the network delivers what was written on a connection that stays open;
`WF(Server)`, the handler runs when bytes have arrived; the client is never forced to send.
`EventLoop`: `WF(Server)` only, which is the loop of `run`; no peer is forced to do anything.

### What the failing runs show

* `keyexchange_overlap`: two processes registering in one directory interleave truncating,
  writing and appending `me.info`. In the trace both have the file open and empty; one writes
  its two lines and appends its key, the other then writes its own two lines over them, from
  the start of the file it has open, and appends its key as the fourth line. The server keeps,
  for the id that is in the file, the public key of that second key, and
  `load_stored_credentials` takes the first, the third line, where the comment at
  `FileHandler.cpp:67` has the key of the registration. A later login with this file is
  answered with an AES key it cannot decrypt; that execution would be a third process, which
  the run does not have. `LoginYieldsKey` fails with these constants too, but for a smaller
  reason: a sibling that reads `me.info` before the key is appended logs in without one.
* `transfer_stale`: `handle_crc_codes` (`request_handler.py:158-161`) applies a verdict to the
  row by id and name, although another connection has begun a new upload of it.
* `transfer_shortname`: `get_data` (`request_handler.py:267-270`) returns a part of a name;
  the verdict is recorded for no row and acknowledged all the same, against the docstring of
  `handle_crc_codes`.

Two limits that the passing runs leave out by a condition or a constant, and that the same
modules show when it is lifted:

* With `FaultKinds` = `{"torn"}` and `MayOverlap = FALSE`, `VerifiedMeansStored` fails: the file of a
  verified row is overwritten before its row is replaced (`request_handler.py:230-233`). If
  the handler stops there, the row stays verified over an encrypted fragment.
* Without `Fits`, `FittingChecksumComes` fails: a file of as many packets as a `uint16_t` has
  values (65536 of 8192 bytes, 512 MB) has `total_packets` 0 and none is sent, and both sides
  wait (`Stuck`). Of one packet less, the loop over `packet_num <= total_packets` does not end
  until `substr` throws.

No 32-bit checksum tells all contents apart. `DamageIsNoticed` and `SizeIsNoticed` are two kinds
of difference that this one always shows: up to four neighbouring bytes, and another size where
the data leave the same register, as zero bytes at the start do. The second is limited to
sizes of equally many bytes: one zero byte and 256 zero bytes have the same POSIX checksum.

## 4. What is proved

**Key exchange.** For every value of the constants that satisfies `ConstantsOK`, so for any
number of processes, directories, ids and faults:

* `TypeCorrect`: `Spec => []TypeOK`.
* `AesNeedsPublicKeyHolds`: `Spec => []AesNeedsPublicKey`, overlapping processes included.
  Inductive with `KeySent` (a SEND_KEY request carries a key): the handler commits the public
  key first, and a login makes an AES key only where it found a public key.
* `OnlySiblingDisplacesKeyHolds`: `Spec => []OnlySiblingDisplacesKey`, overlapping processes
  included.
* `StoredKeyOpensLoginHolds`, `LoginYieldsKeyHolds` and `RefusalIsRecoverableHolds`, under
  `~MayOverlap`. `keyexchange_overlap` shows the assumption is needed for the first.

`OnlySiblingDisplacesKey` needs `SessionInv`, which keeps two directories apart. `Knows(d, i)`
says that directory `d` has met the id `i`: in `me.info`, in a process, or in an answer on its
way. An id is drawn fresh and drawn for one process (`DrawnRow`), so it has a row before
anyone knows it and only one directory ever does (`KnownInOneDir`). The id that every client
without `me.info` sends has no row, ever (`DefaultIdHasNoRow`). So as
long as a process is alone in its directory, every request about its id is its own; it has one
request or one answer under way at a time (`Conversation`), and the key in that answer is the
newest (`KeysAreCurrent`).

The inductive invariant of `StoredKeyOpensLogin` and `LoginYieldsKey` is `KeyInv`. Neither
property is inductive alone, because a public key reaches the table from a request, the
request from a process, and the process may be long dead. The argument goes through
ownership. A process *owns* a key when its private key is the one it generated. From then on
it keeps its key and its id (`OwnerStays`), so a SEND_KEY request it left in flight stays
true of it (`SentKeysAreOwned`), and so does a public key in the table
(`PublicKeysAreOwned`). Between the moment the server draws an id and the moment the key is in
`me.info`, the id is *pending* for one process and known to nobody else
(`PendingIsPrivate`, `OfferedOnce`), so when that process becomes the owner, it is the only
one of the id, and its key is first in the `me.info` that holds the id (`OwnersAreStored`).
Whoever loads that id afterwards therefore holds the same key (`OneKeyPerId`), and a login
answer is encrypted with it (`LoginInFlight`).
`Alone` (from `~MayOverlap`) is used in two places: no other process rewrites `me.info`
during a registration (`InfoWhileRegistering`), and none reads a pending id from it.

`RefusalIsRecoverable` adds `RefusalInv` to it. Registration is refused over an id with an AES
key, hence with a public key (`AesNeedsPublicKey`), hence with an owner; and whoever has the
id of an owner has its private key (`OneKeyPerId`), so a refused process has one
(`RefusedHasKey`; a public key, once there, is only replaced, `CanLoginStays`). A process that
has a private key and is not past its registration has it from `me.info`, which nobody rewrites
meanwhile, so the id it has is the one stored there (`LoadedIsStored`).

**Upload.** For every value of the constants with `TransferConstantsOK`, so for any number of
processes, ids, versions, packets, trials and faults:

* `TypeCorrect`. Inductive with `LoopsInside`, which says that a process in a loop has a turn left.
* `DisplacedUploadNeverMatchesHolds`, overlapping processes and every fault included. The
  invariant is `PacketsOwnKey`: a packet in flight has the key of its process. A stored file
  decrypts to a version of a file only if each block has the server's key (`DecryptedIsOwnKey`),
  the block just written among them, and that one has the sender's.
* `VerifiedMeansStoredHolds`, `SuccessIsRecordedHolds`, `GivingUpIsRecordedHolds` and
  `KeepsPromiseHolds`, under `Serial`: the processes of a client run one at a time, and neither
  names cut short nor torn writes happen. Crashes of processes and of the server, late payloads
  and edits may come at any moment. `transfer_stale` and `transfer_shortname` show that the
  first two conditions are needed, the note on torn writes in section 3 the third.

The inductive invariant of the last four is `SerialInv`. What a process reports depends on a
row that a handler wrote, that on a verdict in flight, and that on a checksum answered before:
at each of these moments the process may already be dead and its requests still arrive. A
process is *active* while it runs or its connection is open. One of a client's processes is
active at most (`Alone`), the keys of all are different, and the active one has the key of the
table (`KeysInv`); so whatever a handler changes, it changes for a process of which every
sibling is over and, having an older key, no longer spoken of by the properties. Of the active
one, `RequestsInv` says what may be in flight: a login; or the packets that follow those the
server has handled (`InUpload`); or one verdict, of which `VALID` is about what is on disk
(`InVerdict`). `AnswersInv` says that a running process has no answer waiting while it has a
request on the way, and that the answer it will read is about the row and the disk as they are
now (`Fitting`). `LoopsInside` gives that the last packet is handled after the client is done
sending.

The refinement follows from it: `HandleLogin` is `Accept`, an accepted `ReceiveLogin` is
`Begin`, every handled packet is `Retract`, `HandleCrc` of `VALID` is `Vouch`, `ReceiveAck` is
`Succeed` or `GiveUp`, and the rest stutter.

**Packets.** For any packet size, any widths of the counters and any file sizes with
`PacketizerConstantsOK` (the packets a `uint16_t` can number fit a `uint32_t` in bytes: 65536
times 8192 does):

* `TypeCorrect`, and `CompleteIsWholeHolds` and `FittingChecksumComesHolds`, which are about
  files that `Fits`: one packet fewer than the largest number. `packetizer_sizes` without `Fits`
  shows the condition is needed.

The inductive invariant is `UploadInv`. `InOrder` says that the packets in flight are the ones
that come next (`packet_num - Len(req)` on), the stored file is the data before them, and the
server has answered exactly if it has had the last. It rests on arithmetic: within the bound
no modulus applies (`TotalFits`, `Modulo`, `Quotient`), and a packet of `ChunkSize` bytes at
`Offset` prolongs the data that ends there (`Cut`).

**Framing.** For any script of requests, any sizes of the header and of the payloads, and any
pieces (`FramingConstantsOK`):

* `FramingTyped`, and `AnswersFit`: `Spec => []AnswerFitsRequest`.
* `ChannelKept`: every step of `Framing` is a step of `RequestChannel` or changes nothing of what
  it speaks about. A handler that has read its payload is `Handle`, a clean-up `Close`, a request
  written `Send`; the network, the reading of a header and the answers stutter.

The inductive invariant is `FramingInv`. It describes what is in the stream by places, since a
read may take bytes of several requests: the bytes of the buffer and the wire together have no
gap, inside a request or between two (`Contiguous`), start with the byte the server expects
(`OpenInv`) and, as long as the client is there, go on to the end of the last request
(`Complete`). So what is queued in `RequestChannel` is the requests from `Len(handled) + 1` to
`sent`, and a read of a header that finds a whole one is a read of the next. After a name
that was cut short, the stream starts inside a request until the connection is closed
(`GarbledInv`), so nothing more is handled. `AnswerInv` says that a request with an answer is
the last one sent and the client waits for it, and that a failure has no answer behind it.

**Layout.** For fields of any width, any number of values of a byte that is a square, and any
values that fit (`CodecConstantsOK`; and `PayloadsFit`, that four bytes can say the length of
every payload):

* `CodecTyped`, `RequestReadAsMeantHolds`, `ResponseReadAsMeantHolds` and `IdSurvivesFileHolds`,
  under `LITTLE_ENDIAN`, which holds wherever the client builds (section 5).

The numbers come first: `DivUnique` and `DivDiv` give that the client's four shifts and the
server's packing write the same bytes (`Bytes32Same`) and that either's reading gives the
number back. Then the places: `Holds(s, first, t)` says that the bytes `t` are in `s` from `first`
on; a concatenation holds each of its parts where the ones before it end (`TwoFields` to
`SixFields`), and a read at that place gives the part (`Cut`, `Read16`, `Read32`). The constants of
the formats on one side and the offsets on the other are compared in `RequestHeaderRead`,
`RequestPayloadRead`, `ResponseHeaderRead` and `ResponsePayloadRead`. A name comes back without
its padding because none of its own bytes is zero (`StrippedIsShort`). `CodecInv` says what each
variable holds at each step. The loop of `write_me_info` is recursive. `Digits` is what it
should compute, written without recursion; `OneSolution` shows that the equation of the loop
has no other solution, by taking the least place at which two solutions would differ
(`Least`). The induction theorems of the library take an operator and cannot be used here.

**Checksum.** For any contents of bytes (`CksumConstantsOK`):

* `ServerIsPosix`: for every sequence of bytes, `memcrc` of the server is the checksum POSIX
  defines, the complement of the remainder of a division of polynomials.
* `TypeCorrect`, `RegisterIsRemainderHolds`, `ClientIsPosixHolds` and, from these and the first,
  `SumsAgreeHolds`: an intact upload is never refused over its checksum, whatever its content.
* `DamageIsNoticedHolds`: two contents of one length that differ in at most four neighbouring
  bytes never have one checksum.
* `SizeIsNoticedHolds`: nor do two of different sizes, if their registers end alike and their
  sizes have equally many bytes, four at most.

They rest on two assumptions besides, `TableIsRemainders` and `BitsAreTheByte`. Neither is about
a constant left open: each is one statement about 256 bytes, of the table as it is written and
of the operators as they are defined, which TLC evaluates in run `cksum`.

The heart is `ShiftInSplits`: to divide by eight more bits, the eight highest of the register
can be added to those that enter first, and the other 24 shifted past them, since a shift only
adds (`SymDiff`) to what it moves. With `TableIsRemainders`, one look into the table is one byte
of the division (`UpdateIsDivide`). For the server the 256 entries are compared with the
client's (`TablesAgree`) and its shifts with the client's (`ServerUpdateIsDivide`). `Walk` is the sequence of registers over a content, shown to
exist and to be the only one by the least place at which two would differ (`WalkExists`,
`WalksAgree`); that `Fold`, by halves, ends where the walk does is `HalvesWalk`. The bytes of the
size are handled the same way (`LowerExists`, `LowerUnique`, `SizesAre`). `IInv` says of the
client's run that in the first loop the register is the walk's, and that in the second what is
left of the size leads from the register to the final one.

Damage shows because the division can be undone. The generator has the term 1, so the lowest bit
of a shifted register tells what was shifted out of it (`ShiftBack`), and a register and the byte
that entered give the register before (`DivideInjective`): after the last wrong byte two registers
that differ never meet again (`NothingHeals`). Back over the damage, each byte that may be wrong
costs eight of the 32 bits on which the registers must agree (`DivideBack`); after four bytes the
first wrong byte, which entered one and the same register, would have to be right (`IndexTells`).
This is `RegisterShows`, from any register on. The bytes of the size, being the same for both
contents, keep the difference (`SizeKeeps`); and if the registers of the data are the same and
the sizes are not, the bytes of the sizes differ (`SizesDiffer`) in at most four places next to
one another, so that `RegisterShows` applies to them (`SizeShows`).

**Event loop.** For any finite set of peers and any number of descriptors
(`EventLoopConstantsOK`): `TypeCorrect` and `StopsOnlyUnderLoadHolds`. `LoopInv` adds that a
descriptor is registered exactly while it is open and for one connection
(`DescriptorsAgree`), that a callback still in the batch is for an open connection
(`BatchIsCurrent`) and that the queue holds each queued peer once (`QueueIsQueued`). So
`register` never raises, and `accept` does so only when every descriptor stands for another
linked peer, and the one in the queue is one more.

**Only model-checked.** Liveness, because fairness and ENABLED are out of the prover's reach. Every other
property of a passing run is a theorem.

## 5. What is not modelled, and why

* The ciphers and encodings, which belong to Crypto++ and PyCryptodome. `KeyExchange` has which
  key opens what, `Transfer` how CBC chains blocks and when `unpad` may fail.
* `transfer.info` and `port.info`, which are configuration that is parsed and changes nothing;
  console output; `last_seen` and the queries used for debugging, which nothing reads back.
* A client on a big-endian machine, on which the conversion of `Endianness.cpp` and then the
  shifts would reverse the bytes: `AESWrapper.cpp` does not build there.
* The seven further tables of `cksum.cpp`, which nothing reads.
* `get_file_checksum` on a file that changes while it is read: an edit is one step.
* Several file names for a client, and `is_safe_file_path`: one file per client is
  modelled, and a refusal of its name would be a `FailRequest`.
* Key exchange and upload in one state space. `Transfer` has the login of the upload's own
  connection and of its siblings, which is all of the key exchange that touches an upload
  under way; a product of the two would add states and no further interaction.

## 6. Possible extensions

Every module of section 2 is complete, with its runs and proofs. Two things would say more:

1. One state space for key exchange and upload, if a request is ever added that mixes them.
2. Several files for a client: a second name in `Transfer`, once the client can send more than
   the one file of `transfer.info`.
