----------------------- MODULE MCFrameIndexPublication -----------------------
(* Values for model checking FrameIndexPublication. *)
EXTENDS FrameIndexPublication, TLC

\* Generation ids are compared only for equality, publishers differ in nothing but
\* their names, and so do the canonical contents: TLC may permute them.
Symmetry == Permutations(Generations) \cup Permutations(Publishers) \cup Permutations(Canonical)
=============================================================================
