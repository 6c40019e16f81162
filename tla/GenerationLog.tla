--------------------------- MODULE GenerationLog ---------------------------
(***************************************************************************)
(* What the publication store of code_intel_publication.rs promises its    *)
(* users: the current generation is the end of one chain of generations,   *)
(* each built on the one that was current before it; a publication becomes *)
(* visible at one instant; what was acknowledged to the caller is never    *)
(* lost; and a power loss can undo at most the newest generation, and only *)
(* before it was acknowledged.                                             *)
(***************************************************************************)
EXTENDS Naturals, Sequences, SequencesExt

CONSTANT Contents   \* what a generation may hold

VARIABLES
    log,     \* the contents of the current generation and its ancestors
    acked    \* how many generations were acknowledged to a caller

LogInit == log = <<>> /\ acked = 0

\* A new generation becomes current.
Publish ==
    /\ \E content \in Contents : log' = Append(log, content)
    /\ UNCHANGED acked

\* The publisher returns to its caller.
Acknowledge ==
    /\ acked' = Len(log)
    /\ UNCHANGED log

\* A power loss takes back a generation nobody was told about.
Lose ==
    /\ acked < Len(log)
    /\ log' = Front(log)
    /\ UNCHANGED acked

LogNext == Publish \/ Acknowledge \/ Lose

LogSpec == LogInit /\ [][LogNext]_<<log, acked>>
=============================================================================
