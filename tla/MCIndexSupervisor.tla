------------------------- MODULE MCIndexSupervisor -------------------------
(* Model-checking instances of the supervisor runtime. *)
EXTENDS IndexSupervisor, TLC

CONSTANTS Manual, Watch, Stop   \* how many calls of each kind are explored

MCBudget == "manual" :> Manual @@ "watch" :> Watch @@ "cancel" :> Stop
MCCallers == {"manual", "watch"}

Symmetry == Permutations(Paths) \cup Permutations(Workers)
=============================================================================
