------------------------------ MODULE Database ------------------------------
(***************************************************************************)
(* The two SQLite tables of Server/database.py, as values: a table maps    *)
(* every primary key to its row, or to NULL when there is none, and each   *)
(* operator returns the table as the statement leaves it once committed.   *)
(* A row of "clients" keeps the columns some handler reads back: name and  *)
(* last_seen are written and never read.  AES keys are fresh random bytes  *)
(* (encryption.py), so a key is its rank among the keys made for a client; *)
(* rank 0 is the SQL NULL.  A client uploads one file, so a row of "files" *)
(* is the "verified" flag of that file, under the id of its client.        *)
(***************************************************************************)
EXTENDS Naturals

CONSTANT NULL

NoAesKey == 0

ClientRow(PublicKey) == [public_key : PublicKey \cup {NULL}, aes_key : Nat]

insert_into_clients(clients, id) ==
    [clients EXCEPT ![id] = [public_key |-> NULL, aes_key |-> NoAesKey]]

\* UPDATE ... WHERE id = ?  changes no row when the id is unknown.
MutUpdate_public_key(clients, id, key) ==      \* mutant: no WHERE
    [i \in DOMAIN clients |-> IF clients[i] = NULL THEN NULL
                              ELSE [clients[i] EXCEPT !.public_key = key]]
update_public_key(clients, id, key) ==
    IF clients[id] = NULL THEN clients
                          ELSE [clients EXCEPT ![id].public_key = key]

MutUpdate_aes_key(clients, id, key) ==         \* mutant: no WHERE
    [i \in DOMAIN clients |-> IF clients[i] = NULL THEN NULL
                              ELSE [clients[i] EXCEPT !.aes_key = key]]
update_aes_key(clients, id, key) ==
    IF clients[id] = NULL THEN clients
                          ELSE [clients EXCEPT ![id].aes_key = key]

insert_into_files(files, id, verified) == [files EXCEPT ![id] = verified]

update_file_verification(files, id, verified) ==
    IF files[id] = NULL THEN files ELSE [files EXCEPT ![id] = verified]

get_public_key(clients, id) ==
    IF clients[id] = NULL THEN NULL ELSE clients[id].public_key

get_aes_key(clients, id) ==
    IF clients[id] = NULL THEN NoAesKey ELSE clients[id].aes_key
=============================================================================
