-------------------------------- MODULE MCVmIo --------------------------------
(***************************************************************************)
(* A small instance of VmIo: its bounds are in the configuration.          *)
(***************************************************************************)
EXTENDS VmIo

=============================================================================
