--------------------------- MODULE MCPackageChecks ---------------------------
(* Small instances of PackageChecks: two kinds of task stand for the seven. *)
EXTENDS PackageChecks, TLC

CONSTANTS w1, w2, a, b, r1, r2, MaxId, MaxKind

MCTasks == 1..MaxId
MCKinds == 1..MaxKind

Symmetry == Permutations(Pids) \cup Permutations(Requests) \cup Permutations(Packages)
=============================================================================
