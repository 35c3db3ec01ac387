--------------------------- MODULE MCTextEvidence ---------------------------
(* TextEvidence with two OCR engines and one ASR engine for TLC. *)
EXTENDS TextEvidence

MCDescribed == [e \in AllEngines |-> <<"described", e>>]
=============================================================================
