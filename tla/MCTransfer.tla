----------------------------- MODULE MCTransfer -----------------------------
(***************************************************************************)
(* Instances of Transfer for TLC.                                          *)
(***************************************************************************)
EXTENDS TransferBackup, TLC

CONSTANTS p1, p2, p3, id1

\* Two or three executions for one client, whose file has two packets and then, once
\* edited, one.
MCProc == {p1, p2}
ThreeProc == {p1, p2, p3}
MCID == {id1}
MCIdOf == [p \in MCProc |-> id1]
ThreeIdOf == [p \in ThreeProc |-> id1]
MCSize == <<2, 1>>
ShortSize == <<2>>

CrashFaults == {"clientCrash", "serverCrash", "latePayload"}
NoFaults == {}
ShortName == {"shortName"}

ProcSymmetry == Permutations(ThreeProc)
=============================================================================
