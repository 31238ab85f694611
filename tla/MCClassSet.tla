----------------------------- MODULE MCClassSet -----------------------------
(* Instances of ClassSet for TLC. *)
EXTENDS ClassSet, TLC

Symmetry == Permutations(Student) \cup Permutations(Client) \cup Permutations(Worker)
=============================================================================
