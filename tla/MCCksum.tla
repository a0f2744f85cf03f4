------------------------------ MODULE MCCksum -------------------------------
(***************************************************************************)
(* Instances of Cksum for TLC.                                             *)
(***************************************************************************)
EXTENDS Cksum

Repeat(c, k) == [j \in 1..k |-> c]

\* Every byte, which reads every entry of the table; short sequences of bytes
\* with and without their highest bit; sizes about the first of two bytes, and
\* of zeros two that differ in their highest bit only.
MCContents ==
    {<<c>> : c \in Byte}
    \cup UNION {[1..k -> {0, 1, 127, 128, 255}] : k \in 0..3}
    \cup {Repeat(c, k) : c \in {0, 255}, k \in {4, 129, 255, 256, 257}}
=============================================================================
