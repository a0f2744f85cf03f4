----------------------------- MODULE EventLoop ------------------------------
(***************************************************************************)
(* Server.run: select() returns the connections with something to read,    *)
(* the listening socket among them, and a callback runs for each in turn.  *)
(* Connections are known by descriptors, which are few and used again: the *)
(* lowest that is free.  What a handler does with a request is modules     *)
(* KeyExchange and Transfer; here it consumes it, closes the connection,   *)
(* or ends the server.                                                     *)
(*                                                                         *)
(* A peer is a client process with at most one connection at a time; when  *)
(* the connection is over it may connect again.                            *)
(***************************************************************************)
EXTENDS Naturals, Sequences, FiniteSets

CONSTANTS Peer,
          Descriptors, \* how many connections the server may have open
          MayAbort,    \* does accept() raise for a connection reset by then?
          NULL

ASSUME EventLoopConstantsOK ==
    /\ IsFiniteSet(Peer)
    /\ Descriptors \in Nat \ {0}
    /\ MayAbort \in BOOLEAN
    /\ NULL \notin Peer

VARIABLES
    server,   \* "up", or "down" once an exception has ended run()
    link,     \* each peer: "off", "queued" for accept, "open" or "over"
    queue,    \* the queued peers, in the order of accept
    left,     \* peers that have closed their end of the connection
    input,    \* what can be read of each: "nothing", a whole "request", a
              \* "part" of one, or "end"
    file,     \* the connection behind each descriptor, or NULL
    selector, \* the connection registered for each descriptor, or NULL
    batch     \* the rest of `events': peers, and NULL for the listening socket

vars == <<server, link, queue, left, input, file, selector, batch>>
peerVars == <<link, queue, left, input>>
-----------------------------------------------------------------------------
Descriptor == 1..Descriptors
Linked == {p \in Peer : link[p] \in {"queued", "open"}}

TypeOK ==
    /\ server \in {"up", "down"}
    /\ link \in [Peer -> {"off", "queued", "open", "over"}]
    /\ queue \in Seq(Peer)
    /\ left \subseteq Linked
    /\ input \in [Peer -> {"nothing", "request", "part", "end"}]
    /\ file \in [Descriptor -> {p \in Peer : link[p] = "open"} \cup {NULL}]
    /\ selector \in [Descriptor -> Peer \cup {NULL}]
    /\ batch \subseteq Peer \cup {NULL}

Init ==
    /\ server = "up"
    /\ link = [p \in Peer |-> "off"] /\ queue = <<>> /\ left = {}
    /\ input = [p \in Peer |-> "nothing"]
    /\ file = [d \in Descriptor |-> NULL]
    /\ selector = [d \in Descriptor |-> NULL]
    /\ batch = {}
-----------------------------------------------------------------------------
(* The peers. *)

Connect(p) ==
    /\ server = "up" /\ link[p] = "off"
    /\ link' = [link EXCEPT ![p] = "queued"]
    /\ queue' = Append(queue, p)
    /\ UNCHANGED <<server, left, input, file, selector, batch>>

\* A request, whole or as much of it as has arrived.
Write(p) ==
    /\ p \in Linked \ left /\ input[p] = "nothing"
    /\ \E what \in {"request", "part"} : input' = [input EXCEPT ![p] = what]
    /\ UNCHANGED <<server, link, queue, left, file, selector, batch>>

\* The peer closes its end, or dies: the end comes after a request, or a reset
\* in its place.
Leave(p) ==
    /\ p \in Linked \ left
    /\ left' = left \cup {p}
    /\ \/ input' = [input EXCEPT ![p] = "end"]
       \/ input[p] = "request" /\ UNCHANGED input
    /\ UNCHANGED <<server, link, queue, file, selector, batch>>

\* The peer sees that its connection was closed, and may connect anew.
Forget(p) ==
    /\ link[p] = "over"
    /\ link' = [link EXCEPT ![p] = "off"]
    /\ UNCHANGED <<server, queue, left, input, file, selector, batch>>
-----------------------------------------------------------------------------
(* The server. *)

Ready == {p \in {selector[d] : d \in Descriptor} \ {NULL} : input[p] # "nothing"}
           \cup (IF queue # <<>> THEN {NULL} ELSE {})

MutEvents == IF Ready # {NULL} THEN Ready \ {NULL} ELSE Ready  \* mutant: accept last
Events == Ready

\* select(timeout=None), after the last callback of the batch before.
Select ==
    /\ server = "up" /\ batch = {} /\ Ready # {}
    /\ batch' = Events
    /\ UNCHANGED <<server, peerVars, file, selector>>

Callback(k) == server = "up" /\ k \in batch /\ batch' = batch \ {k}

Free == {d \in Descriptor : file[d] = NULL}
Lowest == CHOOSE d \in Free : \A e \in Free : d <= e

\* There is a descriptor, and no other connection is registered for it.
CanRegister == Free # {} /\ selector[Lowest] = NULL

\* An exception out of accept_connection is one out of run(): the sockets and
\* the process end with it.
End ==
    /\ server' = "down"
    /\ link' = [p \in Peer |-> IF link[p] = "off" THEN "off" ELSE "over"]
    /\ queue' = <<>> /\ left' = {} /\ batch' = {}
    /\ input' = [p \in Peer |-> "nothing"]
    /\ file' = [d \in Descriptor |-> NULL]
    /\ selector' = [d \in Descriptor |-> NULL]

AcceptConnection ==
    LET p == Head(queue) IN
    /\ Callback(NULL)
    /\ CanRegister
    /\ link' = [link EXCEPT ![p] = "open"]
    /\ queue' = Tail(queue)
    /\ file' = [file EXCEPT ![Lowest] = p]
    /\ selector' = [selector EXCEPT ![Lowest] = p]
    /\ UNCHANGED <<server, left, input>>

\* accept() or register() raises, or the connection was reset before it was
\* accepted.
AcceptRaises ==
    /\ server = "up" /\ NULL \in batch
    /\ ~CanRegister \/ (MayAbort /\ Head(queue) \in left)
    /\ End

\* The handler reads a whole request and answers it.
HandleRequest(p) ==
    /\ Callback(p) /\ input[p] = "request"
    /\ input' = [input EXCEPT ![p] = IF p \in left THEN "end" ELSE "nothing"]
    /\ UNCHANGED <<server, link, queue, left, file, selector>>

\* recv returns what is there or raises
MutRecvReturns(p) == input[p] # "part"                 \* mutant: waits for it all
RecvReturns(p) == input[p] # "nothing"

MutUnregistered(p) == selector                         \* mutant: only closed
Unregistered(p) == [d \in Descriptor |-> IF selector[d] = p THEN NULL ELSE selector[d]]

MutClosed(p) == file                                   \* mutant: only unregistered
Closed(p) == [d \in Descriptor |-> IF file[d] = p THEN NULL ELSE file[d]]

\* handle_client catches what the handler raises, for the end of a connection, a
\* part of a request or a request that cannot be served: cleanup_connection.
HandleFailure(p) ==
    /\ Callback(p) /\ RecvReturns(p)
    /\ selector' = Unregistered(p)
    /\ file' = Closed(p)
    /\ link' = [link EXCEPT ![p] = "over"]
    /\ left' = left \ {p}
    /\ input' = [input EXCEPT ![p] = "nothing"]
    /\ UNCHANGED <<server, queue>>
-----------------------------------------------------------------------------
Server == \/ Select \/ AcceptConnection \/ AcceptRaises
          \/ \E p \in Peer : HandleRequest(p) \/ HandleFailure(p)

Next == Server \/ \E p \in Peer : Connect(p) \/ Write(p) \/ Leave(p) \/ Forget(p)

Spec == Init /\ [][Next]_vars

\* The loop does not stop while select() has something to report.
FairSpec == Spec /\ WF_vars(Server)
-----------------------------------------------------------------------------
(* Properties. *)

\* The server stops only when more peers are connected at once than it has
\* descriptors, or on a connection that was reset in the queue.  No sequence of
\* connections that come and go leaves a descriptor open or registered that is
\* not (accept_connection, cleanup_connection).
StopsOnlyUnderLoad ==
    [][server = "up" /\ server' = "down"
         => \/ Cardinality(Linked) > Descriptors
            \/ MayAbort /\ Head(queue) \in left]_vars

\* While the server runs, the request of a peer is read or its connection
\* closed, whatever the others send and however often they connect (the loop
\* of run over the events, non-blocking sockets).
EveryRequestServed ==
    \A p \in Peer : input[p] = "request" ~> (input[p] # "request" \/ server = "down")

\* While the server runs, every peer in the queue is accepted.
EveryPeerAccepted ==
    \A p \in Peer : link[p] = "queued" ~> (link[p] # "queued" \/ server = "down")
=============================================================================
