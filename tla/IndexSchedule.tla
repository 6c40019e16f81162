--------------------------- MODULE IndexSchedule ---------------------------
(***************************************************************************)
(* The scheduling core of the index supervisor: struct IndexSchedule of    *)
(* crates/h00ligan-engine/src/code_intel_supervisor.rs.  Filesystem hints  *)
(* only advance a monotonic observation epoch; the schedule decides which  *)
(* attempt (explicit Manual or background Watch) runs next, which epoch    *)
(* it covers and when a running attempt must be cancelled.                 *)
(*                                                                         *)
(* Every method of the Rust struct is one action.  The effects a method    *)
(* returns to the runtime driver (IndexScheduleAction) are the value of    *)
(* `effects` after the step, so that IndexSupervisor can conjoin what the  *)
(* driver does with them.                                                  *)
(***************************************************************************)
EXTENDS Integers, Sequences

CONSTANTS
    MaxEpoch,  \* bound on exploration: hints accepted from the environment
    MaxOps     \* bound on exploration: operation identities allocated

ASSUME BoundsAssumption == MaxEpoch \in Nat /\ MaxOps \in Nat

VARIABLES
    nextOperationId,  \* last identity allocated (u64, saturating_add)
    desired,          \* desired_epoch
    published,        \* published_epoch
    latestChange,     \* latest_change_epoch: not advanced by periodic epochs
    failed,           \* failed_epoch: the parked epoch
    active,           \* Option<ActiveOperation>
    pendingManual,    \* Option<IndexOperationId>
    watchEnabled,     \* watch_enabled
    effects           \* the Vec<IndexScheduleAction> the last call returned

scheduleVars == <<nextOperationId, desired, published, latestChange, failed,
                  active, pendingManual, watchEnabled, effects>>

NoId == 0   \* identities are allocated from 1 on

Triggers == {"Manual", "Watch"}
Reasons == {"Superseded", "ManualPriority", "Requested", "Shutdown"}
Results == {"Published", "Failed", "Cancelled"}

\* No active operation, in the shape of one.
NoActive == [id |-> NoId, trigger |-> "None", covered |-> 0,
             changeDriven |-> FALSE, cancel |-> "None"]

Later(a, b) == IF a >= b THEN a ELSE b

StartEffect(id, trigger, epoch) ==
    [kind |-> "Start", id |-> id, trigger |-> trigger, covered |-> epoch, reason |-> "None"]
CancelEffect(id, reason) ==
    [kind |-> "Cancel", id |-> id, trigger |-> "None", covered |-> 0, reason |-> reason]
CancelQueuedEffect(id, reason) ==
    [kind |-> "CancelQueued", id |-> id, trigger |-> "None", covered |-> 0, reason |-> reason]

-----------------------------------------------------------------------------
(* The private helpers.  They read the primed epochs because the Rust code *)
(* calls them after assigning those fields in the same method.             *)

\* start: the attempt covers everything observed so far; it is change driven
\* when a direct source epoch is still unpublished.
Start(id, trigger) ==
    /\ active' = [id |-> id, trigger |-> trigger, covered |-> desired',
                  changeDriven |-> latestChange' > published', cancel |-> "None"]
    /\ effects' = <<StartEffect(id, trigger, desired')>>

\* schedule_next, called with no active operation left: a pending manual
\* request first, then WATCH if its newest epoch is neither published nor
\* parked as failed, else nothing.
ScheduleNext(pending, lastId) ==
    \/ /\ pending # NoId
       /\ Start(pending, "Manual")
       /\ pendingManual' = NoId
       /\ nextOperationId' = lastId
    \/ /\ pending = NoId
       /\ watchEnabled'
       /\ Later(published', failed') < desired'
       /\ lastId < MaxOps
       /\ Start(lastId + 1, "Watch")
       /\ pendingManual' = NoId
       /\ nextOperationId' = lastId + 1
    \/ /\ pending = NoId
       /\ ~watchEnabled' \/ Later(published', failed') >= desired'
       /\ active' = NoActive
       /\ effects' = <<>>
       /\ pendingManual' = NoId
       /\ nextOperationId' = lastId

\* request_active_cancellation: the first reason sticks and is reported once.
RequestActiveCancellation(reason) ==
    \/ /\ active.id # NoId /\ active.cancel = "None"
       /\ active' = [active EXCEPT !.cancel = reason]
       /\ effects' = <<CancelEffect(active.id, reason)>>
    \/ /\ active.id = NoId \/ active.cancel # "None"
       /\ active' = active
       /\ effects' = <<>>

\* A method that leaves the running attempt and the queue alone.
NoEffect == effects' = <<>> /\ UNCHANGED <<active, pendingManual, nextOperationId>>

-----------------------------------------------------------------------------
(* The methods.                                                            *)

Init ==
    /\ nextOperationId = 0
    /\ desired = 0 /\ published = 0 /\ latestChange = 0 /\ failed = 0
    /\ active = NoActive
    /\ pendingManual = NoId
    /\ watchEnabled = FALSE
    /\ effects = <<>>

\* enable_watch(initial_reconciliation)
EnableWatch(initial) ==
    /\ watchEnabled' = TRUE
    /\ initial => desired < MaxEpoch
    /\ desired' = IF initial THEN desired + 1 ELSE desired
    /\ latestChange' = IF initial THEN desired + 1 ELSE latestChange
    /\ UNCHANGED <<published, failed>>
    /\ IF active.id # NoId THEN NoEffect ELSE ScheduleNext(pendingManual, nextOperationId)

\* disable_watch
DisableWatch ==
    /\ watchEnabled' = FALSE
    /\ UNCHANGED <<desired, published, latestChange, failed, pendingManual, nextOperationId>>
    /\ \/ active.trigger = "Watch" /\ RequestActiveCancellation("Requested")
       \/ active.trigger # "Watch" /\ effects' = <<>> /\ UNCHANGED active

\* Bug variant: a hint that arrives at an idle schedule only advances the epoch.
HintWithoutSchedule(supersede) ==
    /\ desired < MaxEpoch
    /\ desired' = desired + 1
    /\ latestChange' = IF supersede THEN desired + 1 ELSE latestChange
    /\ UNCHANGED <<published, failed, watchEnabled>>
    /\ NoEffect

\* request_reconciliation(supersede_active_watch); observe_change is the
\* TRUE case, a periodic integrity tick the FALSE case.
RequestReconciliation(supersede) ==
    /\ desired < MaxEpoch
    /\ desired' = desired + 1
    /\ latestChange' = IF supersede THEN desired + 1 ELSE latestChange
    /\ UNCHANGED <<published, failed, watchEnabled>>
    /\ \/ /\ supersede /\ active.trigger = "Watch" /\ active.changeDriven
          /\ RequestActiveCancellation("Superseded")
          /\ UNCHANGED <<pendingManual, nextOperationId>>
       \/ /\ active.id # NoId
          /\ ~(supersede /\ active.trigger = "Watch" /\ active.changeDriven)
          /\ NoEffect
       \/ active.id = NoId /\ ScheduleNext(pendingManual, nextOperationId)

\* request_manual; ManualBusy is the call that changes nothing.
RequestManual ==
    /\ pendingManual = NoId /\ active.trigger # "Manual"
    /\ nextOperationId < MaxOps
    /\ UNCHANGED <<desired, published, latestChange, failed, watchEnabled>>
    /\ \/ /\ active.id # NoId
          /\ pendingManual' = nextOperationId + 1
          /\ nextOperationId' = nextOperationId + 1
          /\ RequestActiveCancellation("ManualPriority")
       \/ /\ active.id = NoId
          /\ ScheduleNext(nextOperationId + 1, nextOperationId + 1)

\* cancel(operation_id); OperationNotActive is the call that changes nothing.
Cancel(id) ==
    /\ id # NoId
    /\ UNCHANGED <<nextOperationId, desired, published, latestChange, failed, watchEnabled>>
    /\ \/ /\ id = pendingManual
          /\ pendingManual' = NoId
          /\ effects' = <<CancelQueuedEffect(id, "Requested")>>
          /\ UNCHANGED active
       \/ /\ id # pendingManual /\ id = active.id
          /\ RequestActiveCancellation("Requested")
          /\ UNCHANGED pendingManual

\* Bug variant: a publication is credited with everything observed by now.
MarkNewestPublished ==
    /\ active.id # NoId
    /\ published' = desired
    /\ UNCHANGED <<desired, latestChange, failed, watchEnabled>>
    /\ NoEffect

\* mark_active_publication: the structural stage of a WATCH attempt became
\* the visible generation; the attempt goes on.
MarkActivePublication ==
    /\ active.id # NoId
    /\ published' = Later(published, active.covered)
    /\ UNCHANGED <<desired, latestChange, failed, watchEnabled>>
    /\ NoEffect

\* Bug variant: a failed epoch is not parked.
FinishWithoutParking(result) ==
    /\ active.id # NoId
    /\ result = "Cancelled" => active.cancel # "None"
    /\ published' = IF result = "Published" THEN Later(published, active.covered) ELSE published
    /\ UNCHANGED <<failed, desired, latestChange, watchEnabled>>
    /\ ScheduleNext(pendingManual, nextOperationId)

\* finish(operation_id, result).  A runner reports Cancelled only when the
\* token of its attempt was cancelled, see BoundIndexRunner::run.
Finish(result) ==
    /\ active.id # NoId
    /\ result = "Cancelled" => active.cancel # "None"
    /\ published' = IF result = "Published" THEN Later(published, active.covered) ELSE published
    /\ failed' = CASE result = "Published" -> IF failed <= published' THEN 0 ELSE failed
                   [] result = "Failed"    -> Later(failed, active.covered)
                   [] result = "Cancelled" -> failed
    /\ UNCHANGED <<desired, latestChange, watchEnabled>>
    /\ ScheduleNext(pendingManual, nextOperationId)

\* shutdown
Shutdown ==
    /\ watchEnabled' = FALSE
    /\ pendingManual' = NoId
    /\ active' = IF active.id # NoId /\ active.cancel = "None"
                 THEN [active EXCEPT !.cancel = "Shutdown"] ELSE active
    /\ effects' = (IF active.id # NoId /\ active.cancel = "None"
                   THEN <<CancelEffect(active.id, "Shutdown")>> ELSE <<>>)
                  \o (IF pendingManual # NoId
                      THEN <<CancelQueuedEffect(pendingManual, "Shutdown")>> ELSE <<>>)
    /\ UNCHANGED <<nextOperationId, desired, published, latestChange, failed>>

Next ==
    \/ \E initial \in BOOLEAN : EnableWatch(initial)
    \/ DisableWatch
    \/ \E supersede \in BOOLEAN : RequestReconciliation(supersede)
    \/ RequestManual
    \/ \E id \in 1..MaxOps : Cancel(id)
    \/ MarkActivePublication
    \/ \E result \in Results : Finish(result)
    \/ Shutdown

Spec == Init /\ [][Next]_scheduleVars

-----------------------------------------------------------------------------
(* Properties.                                                             *)

\* Types of the schedule's fields; an empty slot is NoActive, never a stale
\* operation.
TypeOK ==
    /\ nextOperationId \in Nat /\ desired \in Nat /\ published \in Nat
    /\ latestChange \in Nat /\ failed \in Nat /\ pendingManual \in Nat
    /\ active \in [id : Nat, trigger : Triggers \cup {"None"}, covered : Nat,
                   changeDriven : BOOLEAN, cancel : Reasons \cup {"None"}]
    /\ active.id = NoId => active = NoActive
    /\ active.id # NoId => active.trigger \in Triggers
    /\ watchEnabled \in BOOLEAN

\* Nothing claims an epoch that was never observed: the published, failed
\* and covered epochs stay at or below desired_epoch.
EpochsOrdered ==
    /\ published <= desired
    /\ failed <= desired
    /\ latestChange <= desired
    /\ active.covered <= desired

\* Identities in use are distinct and were allocated.
IdsDistinct ==
    /\ active.id <= nextOperationId
    /\ pendingManual <= nextOperationId
    /\ pendingManual # NoId => pendingManual # active.id

\* Work conservation: the schedule is never idle with runnable work.  With no
\* active attempt there is no queued manual request, and if WATCH is enabled
\* its newest epoch is published or parked after a failure.  Every method that
\* can free the slot or add work must therefore reach schedule_next.
NeverIdleWithWork ==
    active.id = NoId =>
        /\ pendingManual = NoId
        /\ watchEnabled => Later(published, failed) >= desired

\* Manual priority: a queued manual request waits only for a WATCH attempt
\* that has already been told to stop, never behind another manual one.
QueuedManualPreempts ==
    pendingManual # NoId => active.trigger = "Watch" /\ active.cancel # "None"

\* Background events never stop explicit work: neither a hint, a manual
\* request nor disable_watch is a reason recorded on a manual attempt.
ManualCancelledOnlyExplicitly ==
    active.trigger = "Manual" => active.cancel \in {"None", "Requested", "Shutdown"}

\* The inductive invariant: the parts above support each other.  That idle
\* means settled needs the queue to be empty whenever the slot is, and that
\* needs a queued request to stand behind a WATCH attempt only.
ScheduleInv ==
    /\ TypeOK
    /\ EpochsOrdered
    /\ IdsDistinct
    /\ NeverIdleWithWork
    /\ QueuedManualPreempts
    /\ ManualCancelledOnlyExplicitly

\* A manual attempt is not touched by turning WATCH off (disable_watch's doc:
\* "An explicit manual attempt is never cancelled by this transition").
DisableSparesManual ==
    [][watchEnabled /\ ~watchEnabled' /\ active.trigger = "Manual"
        => active'.cancel \in {active.cancel, "Shutdown"}]_scheduleVars

\* A hot loop on a persistent failure is impossible: a WATCH attempt that
\* starts covers an epoch beyond every epoch that is published or parked, so
\* right after a failure a new attempt needs a newer observation.
WatchStartsOnlyForNewEpochs ==
    [][active'.trigger = "Watch" /\ active'.id # active.id
        => /\ active'.covered > published
           /\ active'.covered > failed
           /\ active.id # NoId => active'.covered > active.covered \/ active.cancel # "None"]_scheduleVars

\* What was published stays covered, and the epoch advances only to what the
\* attempt then active set out to cover.
PublishedOnlyWhatWasCovered ==
    [][published' # published => published' > published /\ published' = active.covered]_scheduleVars

\* Periodic ticks never supersede: a step that marks an attempt Superseded
\* comes with a new direct change epoch, and the attempt was started for
\* unpublished changes.
SupersededOnlyByChange ==
    [][active'.cancel = "Superseded" /\ active.cancel # "Superseded"
        => latestChange' > latestChange /\ active.changeDriven]_scheduleVars
=============================================================================
