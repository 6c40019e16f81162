--------------------------- MODULE ProviderProcess ---------------------------
(***************************************************************************)
(* One semantic provider child and its pipe: SemanticProviderProcess of    *)
(* crates/h00ligan-engine/src/code_intel_semantic_provider_process.rs, as  *)
(* operators on a record that the coordinator keeps in each session.       *)
(*                                                                         *)
(* wire is "idle" when the child owes nothing, "asked" from the moment a   *)
(* request is written, "answered" when its terminal lies unread in the     *)
(* pipe.  Requests of one child never overlap (&mut self), so a terminal   *)
(* that nobody waits for is what the next request would read.              *)
(***************************************************************************)

\* spawn: an isolated child after its Hello.
Spawned == [alive |-> TRUE, quarantined |-> FALSE, wire |-> "idle"]

ProcessType == [alive : BOOLEAN, quarantined : BOOLEAN, wire : {"idle", "asked", "answered"}]

\* request refuses a quarantined boot, exchange one that has exited.
Reachable(p) == p.alive /\ ~p.quarantined

\* observe_local_exit
KnownDead(p) == p.quarantined \/ ~p.alive

\* request up to the flushed write of exchange.
Asked(p) == [p EXCEPT !.wire = "asked"]

\* The child (external).
CanAnswer(p) == Reachable(p) /\ p.wire = "asked"
Answered(p) == [p EXCEPT !.wire = "answered"]
Died(p) == [p EXCEPT !.alive = FALSE]

\* read_async_frame and the one-use claim of the terminal.
CanClaim(p) == ~p.quarantined /\ p.wire = "answered"
Claimed(p) == [p EXCEPT !.wire = "idle"]

\* The frame cannot arrive any more: Filesystem or Exited.
PipeClosed(p) == ~p.alive /\ p.wire # "answered"

\* Bug variant: a request that gives up leaves the child running.
GivenUp(p) == p

\* quarantine: the child is taken out, killed and reaped, its pipe with it.
Quarantine(p) == [alive |-> FALSE, quarantined |-> TRUE, wire |-> "idle"]
=============================================================================
