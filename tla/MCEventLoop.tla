---------------------------- MODULE MCEventLoop -----------------------------
(***************************************************************************)
(* Instances of EventLoop for TLC.                                         *)
(***************************************************************************)
EXTENDS EventLoop, TLC

CONSTANTS a, b, c

MCPeer == {a, b, c}
=============================================================================
