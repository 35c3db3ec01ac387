--------------------------- MODULE MCSearchRuntime ---------------------------
(* Instances of SearchRuntime for TLC. *)
EXTENDS SearchRuntime
=============================================================================
