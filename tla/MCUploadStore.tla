---------------------------- MODULE MCUploadStore ----------------------------
(* Small instances of UploadStore. *)
EXTENDS UploadStore, TLC

CONSTANTS r1, r2, r3, a1, a2, s1, s2

Symmetry ==
  Permutations(Requests) \cup Permutations(Artifacts) \cup Permutations(Signatures)
=============================================================================
