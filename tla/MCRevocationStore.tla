-------------------------- MODULE MCRevocationStore --------------------------
(* Instances of RevocationStore, with the rotator on top of it, for TLC.   *)
EXTENDS RefreshRotation, TLC

\* Families are interchangeable, and so are the other identifiers.
Symmetry == Permutations(Families) \cup Permutations(Ids \ Families)
=============================================================================
