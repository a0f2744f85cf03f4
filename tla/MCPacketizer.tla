---------------------------- MODULE MCPacketizer ----------------------------
(***************************************************************************)
(* Instances of Packetizer for TLC.                                        *)
(***************************************************************************)
EXTENDS Packetizer

\* From one byte to past the wrap of the sum in 32 bits.
AllSizes == 1..(U32 - 1)
=============================================================================
