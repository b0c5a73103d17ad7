---------------------------- MODULE MCSessionIndex ----------------------------
(***************************************************************************)
(* Small instances of SessionIndex.                                        *)
(***************************************************************************)
EXTENDS SessionIndex, TLC

Symmetry ==
  Permutations(Proc) \cup Permutations(Dir) \cup Permutations(Id) \cup Permutations(Temp)

=============================================================================
