------------------------- MODULE MCMarkingLifecycle -------------------------
(* Instances of MarkingLifecycle for TLC. *)
EXTENDS MarkingLifecycle, TLC

MCPages         == {"page"}
MCPagesAndFiles == {"page", "file"}

Symmetry == Permutations(Client) \cup Permutations(Part) \cup Permutations(Worker)
=============================================================================
