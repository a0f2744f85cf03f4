--------------------------- MODULE MCKeyExchange ----------------------------
(***************************************************************************)
(* Instances of KeyExchange for TLC.                                       *)
(***************************************************************************)
EXTENDS KeyExchange, TLC

CONSTANTS p1, p2, p3, d1, d2, id1, id2, id3

\* Two executions one after the other in a directory, a third in another one.
MCProc == {p1, p2, p3}
MCDir == {d1, d2}
MCDirOf == (p1 :> d1) @@ (p2 :> d1) @@ (p3 :> d2)
MCID == {DEFAULT_ID, id1, id2, id3}

\* Two executions in the only directory.
PairProc == {p1, p2}
PairDir == {d1}
PairDirOf == [c \in PairProc |-> d1]
PairID == {DEFAULT_ID, id1, id2}

\* The ids uuid4 may draw are interchangeable: a handler takes any fresh one.
IdSymmetry == Permutations({id1, id2, id3})
=============================================================================
