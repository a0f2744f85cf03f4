----------------------------- MODULE MCFraming ------------------------------
(***************************************************************************)
(* Instances of Framing for TLC.                                           *)
(***************************************************************************)
EXTENDS Framing

\* A refused login, a registration with its key, an upload of three packets and
\* its verdict.
MCScript == <<"name", "name", "key", "packet", "packet", "lastPacket", "name">>

\* Sizes for which the rest of a name can be shorter than, as long as and longer
\* than a header.
MCPayload == [k \in Kind |-> IF k = "name" THEN 7 ELSE 4]
=============================================================================
