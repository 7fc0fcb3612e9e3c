------------------------------- MODULE Joining -------------------------------
(***************************************************************************)
(* FlattenSeq of SequencesExt, by recursion on a number, so that it can be *)
(* reasoned about.                                                         *)
(***************************************************************************)
EXTENDS Integers, Sequences

\* The sequences Item(1) to Item(n), one after another.
Joined(Item(_), n) ==
  LET joined[m \in Nat] == IF m = 0 THEN <<>> ELSE joined[m - 1] \o Item(m)
  IN  joined[n]
=============================================================================
