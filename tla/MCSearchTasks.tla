---------------------------- MODULE MCSearchTasks ----------------------------
(* The requests of MCTextSearch and the searches of MCEventSearch for TLC. *)
EXTENDS SearchTasks, MCTextSearch, MCEventSearch
=============================================================================
