--------------------------- MODULE RequestChannel ---------------------------
(***************************************************************************)
(* What KeyExchange and Transfer take a connection to be: requests are     *)
(* handled whole, in order and once each; one that starts with a name may  *)
(* be handled with the name cut short, and nothing is after it; or the     *)
(* connection is closed with all that is in it.  Module Framing has the    *)
(* bytes, and implements this one.                                         *)
(***************************************************************************)
EXTENDS Naturals, Sequences

CONSTANTS Script,  \* the kinds of the requests the client has to send
          Named    \* the kinds whose payload is read by get_data

VARIABLES
    sent,    \* number of requests sent
    queue,   \* requests not handled yet, by their places in the script
    handled, \* requests handled, in the order of handling
    conn,    \* "open", "garbled" or "closed"
    here     \* is the client still there?

vars == <<sent, queue, handled, conn, here>>

Init ==
    /\ sent = 0 /\ queue = <<>> /\ handled = <<>>
    /\ conn = "open" /\ here = TRUE

\* A request written on a closed connection is lost.
Send ==
    /\ here /\ sent < Len(Script)
    /\ sent' = sent + 1
    /\ queue' = IF conn = "closed" THEN queue ELSE Append(queue, sent + 1)
    /\ UNCHANGED <<handled, conn, here>>

Handle ==
    /\ conn = "open" /\ queue # <<>>
    /\ queue' = Tail(queue)
    /\ handled' = Append(handled, Head(queue))
    /\ \/ UNCHANGED conn
       \/ Script[Head(queue)] \in Named /\ conn' = "garbled"
    /\ UNCHANGED <<sent, here>>

Close ==
    /\ conn # "closed"
    /\ queue # <<>> \/ conn = "garbled" \/ ~here
    /\ conn' = "closed" /\ queue' = <<>>
    /\ UNCHANGED <<sent, handled, here>>

Leave ==
    /\ here /\ here' = FALSE
    /\ UNCHANGED <<sent, queue, handled, conn>>

Next == Send \/ Handle \/ Close \/ Leave

Spec == Init /\ [][Next]_vars
=============================================================================
