------------------------ MODULE MCStudentCorrections ------------------------
(* Instances of StudentCorrections for TLC. *)
EXTENDS StudentCorrections, TLC

MCMark == 0 .. 2
MCTwoMarks == {0, 2}
MCOneMax == {2}

Symmetry == Permutations(Client) \cup Permutations(Worker) \cup Permutations(Part)
=============================================================================
