---------------------------- MODULE MCAccessGate ----------------------------
(* Instances of AccessGate for TLC.                                         *)
EXTENDS AccessGate, TLC

\* Employees and swipes are interchangeable.
Symmetry == Permutations(Employees) \union Permutations(Swipes)
=============================================================================
