-------------------------- MODULE EventLoopProofs ---------------------------
(***************************************************************************)
(* Theorems about EventLoop, for any finite set of peers and any number of *)
(* descriptors.                                                            *)
(***************************************************************************)
EXTENDS EventLoop, FiniteSetTheorems, WellFoundedInduction, TLAPS

Open == {p \in Peer : link[p] = "open"}

\* A descriptor is registered exactly while it is open, for one connection; the
\* callbacks still to run are for open connections, and for accept only while
\* somebody is in the queue.
DescriptorsAgree ==
    /\ selector = file
    /\ \A d, e \in Descriptor : file[d] # NULL /\ file[d] = file[e] => d = e
BatchIsCurrent ==
    /\ batch \subseteq Open \cup {NULL}
    /\ NULL \in batch => queue # <<>>
QueueIsQueued ==
    /\ \A i \in DOMAIN queue : link[queue[i]] = "queued"
    /\ \A i, j \in DOMAIN queue : queue[i] = queue[j] => i = j

LoopInv == TypeOK /\ DescriptorsAgree /\ BatchIsCurrent /\ QueueIsQueued
-----------------------------------------------------------------------------
\* A set of descriptors that is not empty has a lowest one.
LEMMA LowestIsFree ==
    ASSUME Free # {}
    PROVE  Lowest \in Free
  <1> DEFINE Upto(d) == 1..d
             Prefixes == {Upto(d) : d \in Free}
  <1>1. Free \subseteq Nat \ {0}
    BY EventLoopConstantsOK DEF Free, Descriptor
  <1>2. Prefixes \subseteq FiniteSubsetsOf(Nat) /\ Prefixes # {}
    <2>1. \A d \in Free : IsFiniteSet(Upto(d))
      BY <1>1, FS_Interval
    <2>2. \A d \in Free : Upto(d) \in SUBSET Nat
      BY <1>1
    <2> HIDE DEF Upto
    <2>3. \A d \in Free : Upto(d) \in FiniteSubsetsOf(Nat)
      BY <2>1, <2>2 DEF FiniteSubsetsOf
    <2>4. QED  BY <2>3
  <1>3. PICK s \in Prefixes : \A t \in Prefixes : ~(<<t, s>> \in StrictSubsetOrdering(Nat))
    <2> HIDE DEF Prefixes
    <2>1. IsWellFoundedOn(StrictSubsetOrdering(Nat), FiniteSubsetsOf(Nat))
      BY FS_StrictSubsetOrderingWellFounded
    <2>2. QED  BY <1>2, <2>1, WFMin
  <1>4. PICK d \in Free : s = Upto(d)
    OBVIOUS
  <1>5. ASSUME NEW e \in Free  PROVE d <= e
    <2>1. CASE e < d
      <3>1. Upto(e) \subseteq Upto(d) /\ d \in Upto(d) /\ d \notin Upto(e)
        BY <1>1, <2>1
      <3>2. Upto(e) \in SUBSET Nat /\ Upto(d) \in SUBSET Nat
        BY <1>1
      <3>3. <<Upto(e), s>> \in StrictSubsetOrdering(Nat)
        BY <1>4, <3>1, <3>2 DEF StrictSubsetOrdering
      <3>4. QED  BY <1>3, <3>3
    <2>2. QED  BY <1>1, <2>1
  <1>6. QED  BY <1>5 DEF Lowest

\* While descriptors and registrations agree, register() never finds another
\* connection under a descriptor that accept() has just been given.
LEMMA RegisterFollowsFree ==
    ASSUME DescriptorsAgree, Free # {}
    PROVE  CanRegister
  <1>1. Lowest \in Free
    BY LowestIsFree
  <1>2. QED  BY <1>1 DEF DescriptorsAgree, CanRegister, Free

\* With every descriptor taken and a peer in the queue, more peers are connected
\* than there are descriptors.
LEMMA TakenIsLoad ==
    ASSUME LoopInv, Free = {}, NULL \in batch
    PROVE  Cardinality(Linked) > Descriptors
  <1> DEFINE p == Head(queue)
  <1>1. p \in Peer /\ link[p] = "queued"
    BY DEF LoopInv, TypeOK, BatchIsCurrent, QueueIsQueued
  <1>2. file \in Injection(Descriptor, Open)
    <2>1. \A d \in Descriptor : file[d] # NULL
      BY DEF Free
    <2>2. file \in [Descriptor -> Open]
      BY <2>1 DEF LoopInv, TypeOK, Open
    <2>3. QED
      BY <2>1, <2>2 DEF LoopInv, DescriptorsAgree, Injection, IsInjective
  <1>3. IsFiniteSet(Open) /\ IsFiniteSet(Linked)
    <2>1. Open \in SUBSET Peer /\ Linked \in SUBSET Peer
      BY DEF Open, Linked
    <2>2. QED  BY <2>1, FS_Subset, EventLoopConstantsOK
  <1>4. Cardinality(Descriptor) <= Cardinality(Open)
    BY <1>2, <1>3, FS_Injection
  <1>5. Cardinality(Descriptor) = Descriptors
    BY FS_Interval, EventLoopConstantsOK DEF Descriptor
  <1>6. Cardinality(Open \cup {p}) = Cardinality(Open) + 1
    <2>1. p \notin Open
      BY <1>1 DEF Open
    <2>2. QED  BY <2>1, <1>3, FS_AddElement
  <1>7. Cardinality(Open \cup {p}) <= Cardinality(Linked)
    <2>1. Open \cup {p} \in SUBSET Linked
      BY <1>1 DEF Open, Linked
    <2>2. QED  BY <2>1, <1>3, FS_Subset
  <1>8. Cardinality(Open) \in Nat /\ Cardinality(Linked) \in Nat
    BY <1>3, FS_CardinalityType
  <1>9. QED
    BY <1>4, <1>5, <1>6, <1>7, <1>8, EventLoopConstantsOK
-----------------------------------------------------------------------------
LEMMA LoopInit == Init => LoopInv
  BY EventLoopConstantsOK
     DEF Init, LoopInv, TypeOK, DescriptorsAgree, BatchIsCurrent, QueueIsQueued, Linked

\* The steps of a peer.
LEMMA ConnectStep ==
    ASSUME LoopInv, NEW p \in Peer, Connect(p)
    PROVE  LoopInv'
  <1> USE DEF LoopInv
  <1>1. TypeOK'
    BY DEF TypeOK, Connect, Linked
  <1>2. DescriptorsAgree'
    BY DEF DescriptorsAgree, Connect
  <1>3. BatchIsCurrent'
    BY DEF BatchIsCurrent, Connect, TypeOK, Open
  <1>4. QueueIsQueued'
    BY DEF QueueIsQueued, Connect, TypeOK
  <1>5. QED  BY <1>1, <1>2, <1>3, <1>4

LEMMA WriteStep ==
    ASSUME LoopInv, NEW p \in Peer, Write(p)
    PROVE  LoopInv'
  <1> USE DEF LoopInv
  <1>1. TypeOK'
    BY DEF TypeOK, Write, Linked
  <1>2. QED
    BY <1>1 DEF DescriptorsAgree, BatchIsCurrent, QueueIsQueued, Open, Write

LEMMA LeaveStep ==
    ASSUME LoopInv, NEW p \in Peer, Leave(p)
    PROVE  LoopInv'
  <1> USE DEF LoopInv
  <1>1. TypeOK'
    BY DEF TypeOK, Leave, Linked
  <1>2. QED
    BY <1>1 DEF DescriptorsAgree, BatchIsCurrent, QueueIsQueued, Open, Leave

LEMMA ForgetStep ==
    ASSUME LoopInv, NEW p \in Peer, Forget(p)
    PROVE  LoopInv'
  <1> USE DEF LoopInv
  <1>1. TypeOK'
    BY DEF TypeOK, Forget, Linked
  <1>2. BatchIsCurrent'
    BY DEF BatchIsCurrent, Forget, TypeOK, Open
  <1>3. QueueIsQueued'
    BY DEF QueueIsQueued, Forget, TypeOK
  <1>4. QED
    BY <1>1, <1>2, <1>3 DEF DescriptorsAgree, Forget

\* select() reports what is registered, so open, and the listening socket only
\* for somebody in the queue.
LEMMA SelectStep ==
    ASSUME LoopInv, Select
    PROVE  LoopInv'
  <1> USE DEF LoopInv
  <1>1. Events \subseteq Open \cup {NULL} /\ (NULL \in Events => queue # <<>>)
    BY DEF Events, Ready, DescriptorsAgree, TypeOK, Open
  <1>2. TypeOK'
    BY <1>1 DEF TypeOK, Select, peerVars, Linked, Open
  <1>3. BatchIsCurrent'
    BY <1>1 DEF BatchIsCurrent, Select, peerVars, Open
  <1>4. QED
    BY <1>2, <1>3 DEF DescriptorsAgree, QueueIsQueued, Select, peerVars

LEMMA AcceptStep ==
    ASSUME LoopInv, AcceptConnection
    PROVE  LoopInv'
  <1> USE DEF LoopInv
  <1> DEFINE p == Head(queue)
  <1>1. /\ queue # <<>> /\ p \in Peer /\ link[p] = "queued"
        /\ Lowest \in Descriptor /\ file[Lowest] = NULL
    <2>1. Lowest \in Free
      BY LowestIsFree DEF AcceptConnection, CanRegister
    <2>2. QED
      BY <2>1 DEF AcceptConnection, Callback, BatchIsCurrent, QueueIsQueued, TypeOK, Free
  <1>2. \A d \in Descriptor : file[d] # p
    BY <1>1, EventLoopConstantsOK DEF TypeOK
  <1>3. TypeOK'
    <2>1. queue' \in Seq(Peer)
      BY <1>1 DEF TypeOK, AcceptConnection
    <2>2. /\ link' \in [Peer -> {"off", "queued", "open", "over"}]
          /\ file' \in [Descriptor -> {q \in Peer : link'[q] = "open"} \cup {NULL}]
      BY <1>1 DEF TypeOK, AcceptConnection
    <2>3. Linked' = Linked
      BY <1>1 DEF TypeOK, AcceptConnection, Linked
    <2>4. QED
      BY <1>1, <2>1, <2>2, <2>3 DEF TypeOK, AcceptConnection, Callback
  <1>4. DescriptorsAgree'
    BY <1>1, <1>2 DEF TypeOK, DescriptorsAgree, AcceptConnection
  <1>5. BatchIsCurrent'
    BY <1>1 DEF TypeOK, BatchIsCurrent, AcceptConnection, Callback, Open
  <1>6. QueueIsQueued'
    <2>1. /\ DOMAIN queue' = 1..(Len(queue) - 1)
          /\ \A i \in 1..(Len(queue) - 1) : queue'[i] = queue[i + 1]
          /\ Len(queue) \in Nat /\ DOMAIN queue = 1..Len(queue)
      BY <1>1 DEF TypeOK, AcceptConnection
    <2>2. \A i \in DOMAIN queue' : i + 1 \in DOMAIN queue /\ queue[i + 1] # p
      BY <1>1, <2>1 DEF QueueIsQueued, TypeOK
    <2>3. QED
      BY <1>1, <2>1, <2>2 DEF QueueIsQueued, TypeOK, AcceptConnection
  <1>7. QED  BY <1>3, <1>4, <1>5, <1>6

LEMMA EndStep ==
    ASSUME LoopInv, End
    PROVE  LoopInv'
  BY EventLoopConstantsOK
     DEF LoopInv, TypeOK, DescriptorsAgree, BatchIsCurrent, QueueIsQueued, End, Linked

LEMMA HandleRequestStep ==
    ASSUME LoopInv, NEW p \in Peer, HandleRequest(p)
    PROVE  LoopInv'
  <1> USE DEF LoopInv
  <1>1. TypeOK'
    BY DEF TypeOK, HandleRequest, Callback, Linked
  <1>2. QED
    BY <1>1 DEF DescriptorsAgree, BatchIsCurrent, QueueIsQueued, Open,
                HandleRequest, Callback

\* cleanup_connection unregisters and closes one connection, an open one.
LEMMA HandleFailureStep ==
    ASSUME LoopInv, NEW p \in Peer, HandleFailure(p)
    PROVE  LoopInv'
  <1> USE DEF LoopInv
  <1>1. link[p] = "open"
    BY EventLoopConstantsOK DEF HandleFailure, Callback, BatchIsCurrent, Open
  <1>2. TypeOK'
    <2>1. file' \in [Descriptor -> {q \in Peer : link'[q] = "open"} \cup {NULL}]
      BY DEF TypeOK, HandleFailure, Closed
    <2>2. selector' \in [Descriptor -> Peer \cup {NULL}]
      BY DEF TypeOK, HandleFailure, Unregistered
    <2>3. left' \subseteq Linked'
      BY DEF TypeOK, HandleFailure, Linked
    <2>4. QED
      BY <2>1, <2>2, <2>3 DEF TypeOK, HandleFailure, Callback
  <1>3. DescriptorsAgree'
    BY DEF DescriptorsAgree, HandleFailure, Unregistered, Closed, TypeOK
  <1>4. BatchIsCurrent'
    BY DEF BatchIsCurrent, HandleFailure, Callback, Open, TypeOK
  <1>5. QueueIsQueued'
    BY <1>1 DEF QueueIsQueued, HandleFailure, TypeOK
  <1>6. QED  BY <1>2, <1>3, <1>4, <1>5

LEMMA LoopStep == LoopInv /\ [Next]_vars => LoopInv'
  <1> SUFFICES ASSUME LoopInv, [Next]_vars  PROVE LoopInv'
    OBVIOUS
  <1>1. CASE Server
    <2>1. CASE AcceptRaises
      BY <2>1, EndStep DEF AcceptRaises
    <2>2. QED
      BY <1>1, <2>1, SelectStep, AcceptStep, HandleRequestStep, HandleFailureStep DEF Server
  <1>2. CASE \E p \in Peer : Connect(p) \/ Write(p) \/ Leave(p) \/ Forget(p)
    BY <1>2, ConnectStep, WriteStep, LeaveStep, ForgetStep
  <1>3. CASE UNCHANGED vars
    BY <1>3 DEF vars, peerVars, LoopInv, TypeOK, DescriptorsAgree, BatchIsCurrent,
                QueueIsQueued, Open, Linked
  <1>4. QED  BY <1>1, <1>2, <1>3 DEF Next

LEMMA LoopInvariant == Spec => []LoopInv
  BY LoopInit, LoopStep, PTL DEF Spec
-----------------------------------------------------------------------------
\* Every variable keeps its type: a descriptor belongs to an open connection and
\* only peers that are connected have left (the tables of Server).
THEOREM TypeCorrect == Spec => []TypeOK
  <1>1. LoopInv => TypeOK
    BY DEF LoopInv
  <1>2. QED  BY LoopInvariant, <1>1, PTL

\* With any number of peers that connect, write, leave and come back in any
\* order, run() ends only while more of them are connected than it has
\* descriptors, or on a connection reset in the queue.
THEOREM StopsOnlyUnderLoadHolds == Spec => StopsOnlyUnderLoad
  <1> DEFINE Stop == server = "up" /\ server' = "down"
                       => \/ Cardinality(Linked) > Descriptors
                          \/ MayAbort /\ Head(queue) \in left
  <1>1. LoopInv /\ [Next]_vars => [Stop]_vars
    <2> SUFFICES ASSUME LoopInv, Next, server = "up", server' = "down"
                 PROVE  \/ Cardinality(Linked) > Descriptors
                        \/ MayAbort /\ Head(queue) \in left
      OBVIOUS
    <2>1. AcceptRaises
      BY DEF Next, Server, Connect, Write, Leave, Forget, Select, AcceptConnection,
             HandleRequest, HandleFailure, Callback
    <2>2. CASE ~CanRegister
      <3>1. Free = {}
        BY <2>2, RegisterFollowsFree DEF LoopInv
      <3>2. QED  BY <2>1, <3>1, TakenIsLoad DEF AcceptRaises
    <2>3. QED  BY <2>1, <2>2 DEF AcceptRaises
  <1>2. QED  BY LoopInvariant, <1>1, PTL DEF Spec, StopsOnlyUnderLoad
=============================================================================
