-------------------------- MODULE MCConnLifecycle --------------------------
(* Instances of ConnLifecycle for TLC: c1 comes from host h1, every other    *)
(* connection from h2.                                                       *)
EXTENDS ConnLifecycle, TLC

CONSTANTS c1, h1, h2

MCHostOf == [c \in Conns |-> IF c = c1 THEN h1 ELSE h2]

\* Connections of one host are interchangeable, and so are controllers.
Symmetry == Permutations(Conns \ {c1}) \cup Permutations(Ids)
=============================================================================
