---------------------------- MODULE MCFileStore ----------------------------
(***************************************************************************)
(* FileStore for TLC.                                                      *)
(***************************************************************************)
EXTENDS FileStore, TLC

CONSTANT MaxTroubles   \* bound: failures of every kind together

\* Three damages come with any two other failures, one with all of them.
FewTroubles == errors + dirErrors + kills + outages + damages <= MaxTroubles

\* Controllers are interchangeable: no formula checked names one of them.
IdSymmetry == Permutations(Ids)
=============================================================================
