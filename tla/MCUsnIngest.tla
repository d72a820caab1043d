---------------------------- MODULE MCUsnIngest ----------------------------
(* Record numbers and names are interchangeable.                            *)
EXTENDS UsnIngest, TLC

Symmetry == Permutations(Records) \cup Permutations(Names)
=============================================================================
