--------------------------- MODULE MCPublication ---------------------------
(* Model-checking instances of the publication store. *)
EXTENDS Publication, TLC

Symmetry == Permutations(Writers) \cup Permutations(Contents) \cup Permutations(Readers)

\* Bound on exploration: reads are followed up to the first power loss and up
\* to the first recovery, after which no property speaks of them.
ReadsEndAtPowerLoss ==
    losses > 0 \/ recovered => \A r \in Readers : reader[r] = IdleReader
=============================================================================
