------------------------ MODULE MCPublicationProbe ------------------------
(* Model-checking instance of the scheduling core beside the drift probe.  *)
EXTENDS PublicationProbe

CONSTANT MaxEvents  \* bound on exploration: epochs, attempts and metadata changes together

ASSUME EventsAssumption == MaxEvents \in Nat

\* Not every behaviour uses up every bound: at most MaxEvents in all.
FewEvents == desired + nextOperationId + metadata - 1 <= MaxEvents
=============================================================================
