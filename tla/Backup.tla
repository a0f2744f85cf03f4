------------------------------- MODULE Backup -------------------------------
(***************************************************************************)
(* What the program promises about backups, without packets, checksums,    *)
(* tables or connections.  The server vouches for at most one content for  *)
(* each client: the one its row marks as verified.  A process of the       *)
(* client works for a content of its own, and may end by telling its user  *)
(* that the server vouches for it, or that it gave up.                     *)
(***************************************************************************)
CONSTANTS Proc,     \* client processes
          ID,       \* client ids
          IdOf,     \* the id each process works for
          Contents, \* contents of files
          NULL

VARIABLES
    claim,   \* the content each process works for, NULL before it is accepted
    holder,  \* the process accepted last for each id, as a set of at most one
    vouched, \* the content the server vouches for, of each id, or NULL
    told     \* what each process told its user: "nothing", "success", "gaveUp"

vars == <<claim, holder, vouched, told>>

Init ==
    /\ claim = [p \in Proc |-> NULL]
    /\ holder = [id \in ID |-> {}]
    /\ vouched = [id \in ID |-> NULL]
    /\ told = [p \in Proc |-> "nothing"]

Holds(p) == holder[IdOf[p]] = {p}

\* The server accepts another process, which does not know it yet.
Accept(id) ==
    /\ holder' = [holder EXCEPT ![id] = {}]
    /\ UNCHANGED <<claim, vouched, told>>

Begin(p) ==
    /\ claim[p] = NULL /\ holder[IdOf[p]] = {}
    /\ \E c \in Contents : claim' = [claim EXCEPT ![p] = c]
    /\ holder' = [holder EXCEPT ![IdOf[p]] = {p}]
    /\ UNCHANGED <<vouched, told>>

\* The first data of a process that is not done replace what was stored.
Retract(p) ==
    /\ Holds(p) /\ told[p] = "nothing"
    /\ vouched' = [vouched EXCEPT ![IdOf[p]] = NULL]
    /\ UNCHANGED <<claim, holder, told>>

Vouch(p) ==
    /\ Holds(p) /\ told[p] = "nothing" /\ vouched[IdOf[p]] = NULL
    /\ vouched' = [vouched EXCEPT ![IdOf[p]] = claim[p]]
    /\ UNCHANGED <<claim, holder, told>>

Succeed(p) ==
    /\ Holds(p) /\ told[p] = "nothing" /\ vouched[IdOf[p]] = claim[p]
    /\ told' = [told EXCEPT ![p] = "success"]
    /\ UNCHANGED <<claim, holder, vouched>>

GiveUp(p) ==
    /\ Holds(p) /\ told[p] = "nothing" /\ vouched[IdOf[p]] = NULL
    /\ told' = [told EXCEPT ![p] = "gaveUp"]
    /\ UNCHANGED <<claim, holder, vouched>>

Next ==
    \/ \E id \in ID : Accept(id)
    \/ \E p \in Proc : \/ Begin(p) \/ Retract(p) \/ Vouch(p)
                       \/ Succeed(p) \/ GiveUp(p)

Spec == Init /\ [][Next]_vars
=============================================================================
