------------------------------- MODULE MCAttach -------------------------------
(***************************************************************************)
(* A small instance of Attach: its values are in the configuration.        *)
(***************************************************************************)
EXTENDS Attach

=============================================================================
