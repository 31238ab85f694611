----------------------------- MODULE MCJobStore -----------------------------
(* Instances of JobStore for TLC: the sets of the configurations are model values. *)
EXTENDS JobStore, TLC

Symmetry == Permutations(Worker) \cup Permutations(Submission)
=============================================================================
