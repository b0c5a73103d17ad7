------------------------------ MODULE MCStartup ------------------------------
(***************************************************************************)
(* Small instances of Startup.                                             *)
(***************************************************************************)
EXTENDS Startup

\* The larger instance: everything may go wrong, MaxStops times in all.
AllThatFails == AllFaults

=============================================================================
