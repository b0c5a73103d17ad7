---------------------------- MODULE MCImageCache ----------------------------
(***************************************************************************)
(* Small instances of ImageCache; they are so small that no symmetry is    *)
(* needed, and liveness can be checked with safety.                        *)
(***************************************************************************)
EXTENDS ImageCache

=============================================================================
