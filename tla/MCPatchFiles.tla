---------------------------- MODULE MCPatchFiles ----------------------------
(* Instance of PatchFiles for TLC: the file objects, and the texts other than *)
(* the empty one, are interchangeable.                                        *)
EXTENDS PatchFiles, TLC

Symmetry == Permutations(Objects) \cup Permutations(Texts \ {EmptyText})
=============================================================================
