--------------------------- MODULE TransferBackup ---------------------------
(***************************************************************************)
(* Transfer implements Backup.  The server vouches for what is on its disk *)
(* when the row says verified; a process works for the content of its      *)
(* checksum; the process accepted last is the one with the AES key of the  *)
(* table.                                                                  *)
(***************************************************************************)
EXTENDS Transfer

Claim == [p \in Proc |-> IF aes[p] = NoAesKey THEN NULL ELSE Plain(sum[p])]

Holder == [id \in ID |->
             {p \in Proc : IdOf[p] = id /\ aes[p] = get_aes_key(clients, id)}]

Vouched == [id \in ID |-> IF files[id] = TRUE THEN disk[id] ELSE NULL]

Told == [p \in Proc |-> IF pc[p] \in {"success", "gaveUp"} THEN pc[p] ELSE "nothing"]

Promise == INSTANCE Backup WITH
    Contents <- {Plain(v) : v \in Version},
    claim <- Claim, holder <- Holder, vouched <- Vouched, told <- Told

\* While the executions of a client run one at a time and no write is torn, the
\* upload keeps the promise of a backup: what the server vouches for changes
\* only from a content to nothing and from nothing to the content of the
\* process accepted last, and what that process tells its user is so at that
\* moment (handle_send_file against handle_send_file_request and
\* handle_crc_codes).
KeepsPromise == Promise!Spec
=============================================================================
