----------------------------- MODULE MCVmManager -----------------------------
(***************************************************************************)
(* Small instances of VmManager.                                           *)
(***************************************************************************)
EXTENDS VmManager, TLC

\* Connections are interchangeable: used where only safety is checked.
Symmetry == Permutations(Conn)

=============================================================================
