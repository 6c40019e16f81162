----------------------- MODULE MCSemanticCoordinator -----------------------
(* Model-checking instances of the semantic provider coordinator.          *)
EXTENDS SemanticCoordinator, TLC

Symmetry == Permutations(Roots)
=============================================================================
