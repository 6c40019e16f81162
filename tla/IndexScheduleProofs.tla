------------------------ MODULE IndexScheduleProofs ------------------------
(***************************************************************************)
(* Machine-checked proofs about the scheduling core, alone and beside the  *)
(* drift probe, for every number of epochs, operations, heads and metadata *)
(* changes.                                                                *)
(***************************************************************************)
EXTENDS PublicationProbe, TLAPS

USE DEF NoId

(* What ScheduleNext leaves behind, stated once for the five methods that  *)
(* end in it: either a fresh attempt that covers all of desired', or an    *)
(* idle schedule with nothing left to run; the queue is empty either way.  *)
LEMMA ScheduleNextResult ==
    ASSUME NEW pending \in Nat, NEW lastId \in Nat, pending <= lastId,
           desired' \in Nat, published' \in Nat, latestChange' \in Nat,
           failed' \in Nat, watchEnabled' \in BOOLEAN,
           ScheduleNext(pending, lastId)
    PROVE  /\ pendingManual' = 0
           /\ nextOperationId' \in Nat /\ nextOperationId' >= lastId
           /\ \/ /\ active' = NoActive
                 /\ watchEnabled' => Later(published', failed') >= desired'
              \/ /\ active' \in [id : Nat, trigger : Triggers, covered : Nat,
                                 changeDriven : BOOLEAN, cancel : {"None"}]
                 /\ active'.id # 0 /\ active'.id <= nextOperationId'
                 /\ active'.covered = desired'
                 /\ active'.trigger = "Watch" => published' < desired' /\ failed' < desired'
  <1>1. CASE pending # NoId /\ Start(pending, "Manual") /\ pendingManual' = NoId
             /\ nextOperationId' = lastId
    BY <1>1 DEF Start, Triggers
  <1>2. CASE /\ pending = NoId /\ Later(published', failed') < desired'
             /\ Start(lastId + 1, "Watch") /\ pendingManual' = NoId
             /\ nextOperationId' = lastId + 1
    BY <1>2 DEF Start, Triggers, Later
  <1>3. CASE /\ ~watchEnabled' \/ Later(published', failed') >= desired'
             /\ active' = NoActive /\ pendingManual' = NoId
             /\ nextOperationId' = lastId
    BY <1>3
  <1> QED
    BY <1>1, <1>2, <1>3 DEF ScheduleNext

(* What marking the running attempt for cancellation leaves behind.        *)
LEMMA CancellationResult ==
    ASSUME TypeOK, NEW reason \in Reasons, RequestActiveCancellation(reason)
    PROVE  /\ active' \in [id : Nat, trigger : Triggers \cup {"None"}, covered : Nat,
                           changeDriven : BOOLEAN, cancel : Reasons \cup {"None"}]
           /\ active'.id = active.id /\ active'.trigger = active.trigger
           /\ active'.covered = active.covered
           /\ active.id = 0 => active' = NoActive
           /\ active.id # 0 => active'.cancel # "None"
           /\ active'.cancel = active.cancel \/ active'.cancel = reason
  BY DEF TypeOK, RequestActiveCancellation, NoActive, Reasons

(* The invariant holds initially ...                                       *)
LEMMA InitInv == Init => ScheduleInv
  <1> SUFFICES ASSUME Init PROVE ScheduleInv
    OBVIOUS
  <1>1. TypeOK
    BY DEF Init, TypeOK, NoActive, Triggers, Reasons
  <1>2. EpochsOrdered /\ IdsDistinct /\ QueuedManualPreempts /\ ManualCancelledOnlyExplicitly
    BY DEF Init, NoActive, EpochsOrdered, IdsDistinct, QueuedManualPreempts,
           ManualCancelledOnlyExplicitly
  <1>3. NeverIdleWithWork
    BY DEF Init, NeverIdleWithWork
  <1> QED
    BY <1>1, <1>2, <1>3 DEF ScheduleInv

(* ... and a method that ends in ScheduleNext re-establishes it, whatever  *)
(* it assigned to the epochs before, as long as those stay ordered.        *)
LEMMA ScheduleNextInv ==
    ASSUME NEW pending \in Nat, NEW lastId \in Nat, pending <= lastId,
           desired' \in Nat, published' \in Nat, latestChange' \in Nat,
           failed' \in Nat, watchEnabled' \in BOOLEAN,
           published' <= desired', failed' <= desired', latestChange' <= desired',
           ScheduleNext(pending, lastId)
    PROVE  ScheduleInv'
  <1>1. CASE active' = NoActive /\ (watchEnabled' => Later(published', failed') >= desired')
    BY <1>1, ScheduleNextResult
       DEF ScheduleInv, TypeOK, EpochsOrdered, IdsDistinct, NeverIdleWithWork,
           QueuedManualPreempts, ManualCancelledOnlyExplicitly, NoActive, Triggers, Reasons
  <1>2. CASE /\ active' \in [id : Nat, trigger : Triggers, covered : Nat,
                             changeDriven : BOOLEAN, cancel : {"None"}]
             /\ active'.id # 0 /\ active'.id <= nextOperationId'
             /\ active'.covered = desired'
    BY <1>2, ScheduleNextResult
       DEF ScheduleInv, TypeOK, EpochsOrdered, IdsDistinct, NeverIdleWithWork,
           QueuedManualPreempts, ManualCancelledOnlyExplicitly, NoActive, Triggers, Reasons
  <1> QED
    BY <1>1, <1>2, ScheduleNextResult

LEMMA StepInv == ScheduleInv /\ [Next]_scheduleVars => ScheduleInv'
  <1> SUFFICES ASSUME ScheduleInv, [Next]_scheduleVars
               PROVE  ScheduleInv'
    OBVIOUS
  <1> USE DEF ScheduleInv
  <1>1. ASSUME NEW initial \in BOOLEAN, EnableWatch(initial) PROVE ScheduleInv'
    <2>1. CASE active.id # NoId
      BY <1>1, <2>1 DEF EnableWatch, NoEffect, TypeOK, EpochsOrdered, IdsDistinct,
         NeverIdleWithWork, QueuedManualPreempts, ManualCancelledOnlyExplicitly
    <2>2. CASE active.id = NoId
      BY <1>1, <2>2, ScheduleNextInv DEF EnableWatch, TypeOK, EpochsOrdered, IdsDistinct
    <2> QED
      BY <2>1, <2>2
  <1>2. ASSUME DisableWatch PROVE ScheduleInv'
    <2>1. CASE active.trigger = "Watch" /\ RequestActiveCancellation("Requested")
      BY <1>2, <2>1, CancellationResult DEF DisableWatch, TypeOK, EpochsOrdered, IdsDistinct,
         NeverIdleWithWork, QueuedManualPreempts, ManualCancelledOnlyExplicitly, Reasons
    <2>2. CASE UNCHANGED active
      BY <1>2, <2>2 DEF DisableWatch, TypeOK, EpochsOrdered, IdsDistinct,
         NeverIdleWithWork, QueuedManualPreempts, ManualCancelledOnlyExplicitly
    <2> QED
      BY <1>2, <2>1, <2>2 DEF DisableWatch
  <1>3. ASSUME NEW supersede \in BOOLEAN, RequestReconciliation(supersede) PROVE ScheduleInv'
    <2>1. CASE /\ active.trigger = "Watch" /\ RequestActiveCancellation("Superseded")
               /\ UNCHANGED <<pendingManual, nextOperationId>>
      BY <1>3, <2>1, CancellationResult DEF RequestReconciliation, TypeOK, EpochsOrdered,
         IdsDistinct, NeverIdleWithWork, QueuedManualPreempts,
         ManualCancelledOnlyExplicitly, Reasons, NoActive
    <2>2. CASE active.id # NoId /\ NoEffect
      BY <1>3, <2>2 DEF RequestReconciliation, NoEffect, TypeOK, EpochsOrdered, IdsDistinct,
         NeverIdleWithWork, QueuedManualPreempts, ManualCancelledOnlyExplicitly
    <2>3. CASE ScheduleNext(pendingManual, nextOperationId)
      BY <1>3, <2>3, ScheduleNextInv DEF RequestReconciliation, TypeOK, EpochsOrdered, IdsDistinct
    <2> QED
      BY <1>3, <2>1, <2>2, <2>3 DEF RequestReconciliation
  <1>4. ASSUME RequestManual PROVE ScheduleInv'
    <2>1. CASE /\ active.id # NoId /\ pendingManual' = nextOperationId + 1
               /\ nextOperationId' = nextOperationId + 1
               /\ RequestActiveCancellation("ManualPriority")
      BY <1>4, <2>1, CancellationResult DEF RequestManual, TypeOK, EpochsOrdered, IdsDistinct,
         NeverIdleWithWork, QueuedManualPreempts, ManualCancelledOnlyExplicitly,
         Reasons, Triggers
    <2>2. CASE ScheduleNext(nextOperationId + 1, nextOperationId + 1)
      BY <1>4, <2>2, ScheduleNextInv DEF RequestManual, TypeOK, EpochsOrdered
    <2> QED
      BY <1>4, <2>1, <2>2 DEF RequestManual
  <1>5. ASSUME NEW id \in 1..MaxOps, Cancel(id) PROVE ScheduleInv'
    <2>1. CASE id = pendingManual /\ pendingManual' = NoId /\ UNCHANGED active
      BY <1>5, <2>1 DEF Cancel, TypeOK, EpochsOrdered, IdsDistinct, NeverIdleWithWork,
         QueuedManualPreempts, ManualCancelledOnlyExplicitly
    <2>2. CASE /\ id = active.id /\ RequestActiveCancellation("Requested")
               /\ UNCHANGED pendingManual
      BY <1>5, <2>2, CancellationResult DEF Cancel, TypeOK, EpochsOrdered, IdsDistinct,
         NeverIdleWithWork, QueuedManualPreempts, ManualCancelledOnlyExplicitly, Reasons
    <2> QED
      BY <1>5, <2>1, <2>2 DEF Cancel
  <1>6. ASSUME MarkActivePublication PROVE ScheduleInv'
    BY <1>6 DEF MarkActivePublication, NoEffect, Later, TypeOK, EpochsOrdered, IdsDistinct,
       NeverIdleWithWork, QueuedManualPreempts, ManualCancelledOnlyExplicitly
  <1>7. ASSUME NEW result \in Results, Finish(result) PROVE ScheduleInv'
    BY <1>7, ScheduleNextInv DEF Finish, Results, Later, TypeOK, EpochsOrdered, IdsDistinct
  <1>8. ASSUME Shutdown PROVE ScheduleInv'
    <2>1. /\ active' \in [id : Nat, trigger : Triggers \cup {"None"}, covered : Nat,
                           changeDriven : BOOLEAN, cancel : Reasons \cup {"None"}]
          /\ active'.id = active.id /\ active'.trigger = active.trigger
          /\ active'.covered = active.covered
          /\ active'.cancel \in {active.cancel, "Shutdown"}
          /\ active.id = 0 => active' = active
      <3>1. CASE active.id # NoId /\ active.cancel = "None"
        BY <1>8, <3>1 DEF Shutdown, TypeOK, Reasons
      <3>2. CASE ~(active.id # NoId /\ active.cancel = "None")
        BY <1>8, <3>2 DEF Shutdown, TypeOK
      <3> QED
        BY <3>1, <3>2
    <2>2. /\ watchEnabled' = FALSE /\ pendingManual' = 0
          /\ UNCHANGED <<nextOperationId, desired, published, latestChange, failed>>
      BY <1>8 DEF Shutdown
    <2>3. TypeOK'
      BY <2>1, <2>2 DEF TypeOK, NoActive
    <2>4. EpochsOrdered'
      BY <2>1, <2>2 DEF EpochsOrdered, TypeOK
    <2>5. IdsDistinct'
      BY <2>1, <2>2 DEF IdsDistinct, TypeOK
    <2>6. NeverIdleWithWork'
      BY <2>2 DEF NeverIdleWithWork
    <2>7. QueuedManualPreempts'
      BY <2>2 DEF QueuedManualPreempts
    <2>8. ManualCancelledOnlyExplicitly'
      BY <2>1 DEF ManualCancelledOnlyExplicitly
    <2> QED
      BY <2>3, <2>4, <2>5, <2>6, <2>7, <2>8
  <1>9. CASE UNCHANGED scheduleVars
    BY <1>9 DEF scheduleVars, TypeOK, EpochsOrdered, IdsDistinct, NeverIdleWithWork,
       QueuedManualPreempts, ManualCancelledOnlyExplicitly
  <1> QED
    BY <1>1, <1>2, <1>3, <1>4, <1>5, <1>6, <1>7, <1>8, <1>9 DEF Next

(* The scheduling core keeps its whole invariant: types, ordered epochs,   *)
(* distinct identities, work conservation and manual priority, for any     *)
(* number of hints and operations.                                         *)
THEOREM ScheduleInvariant == Spec => []ScheduleInv
  BY InitInv, StepInv, PTL DEF Spec

(* The schedule never idles while a manual request is queued or while an   *)
(* enabled WATCH has an epoch that is neither published nor parked.        *)
THEOREM WorkConservation == Spec => []NeverIdleWithWork
  <1>1. ScheduleInv => NeverIdleWithWork
    BY DEF ScheduleInv
  <1> QED
    BY <1>1, ScheduleInvariant, PTL

(* A queued manual request only ever waits for a WATCH attempt that was    *)
(* already told to stop.                                                   *)
THEOREM ManualPriority == Spec => []QueuedManualPreempts
  <1>1. ScheduleInv => QueuedManualPreempts
    BY DEF ScheduleInv
  <1> QED
    BY <1>1, ScheduleInvariant, PTL

(* Background events are never the reason a manual attempt stops.          *)
THEOREM ManualIsSpared == Spec => []ManualCancelledOnlyExplicitly
  <1>1. ScheduleInv => ManualCancelledOnlyExplicitly
    BY DEF ScheduleInv
  <1> QED
    BY <1>1, ScheduleInvariant, PTL

(* What WatchStartsOnlyForNewEpochs says of one step.                      *)
FreshStart ==
    active'.trigger = "Watch" /\ active'.id # active.id
        => /\ active'.covered > published
           /\ active'.covered > failed
           /\ active.id # NoId => active'.covered > active.covered \/ active.cancel # "None"

(* A method that keeps the running attempt starts nothing ...              *)
LEMMA KeepsAttempt == active'.id = active.id => FreshStart
  BY DEF FreshStart

(* ... and one that ends in ScheduleNext starts WATCH only for an epoch    *)
(* beyond the (new) published and failed ones.                             *)
LEMMA StartsFresh ==
    ASSUME NEW pending \in Nat, NEW lastId \in Nat, pending <= lastId,
           desired' \in Nat, published' \in Nat, latestChange' \in Nat,
           failed' \in Nat, watchEnabled' \in BOOLEAN,
           ScheduleNext(pending, lastId), active'.trigger = "Watch"
    PROVE  active'.covered = desired' /\ published' < desired' /\ failed' < desired'
  <1>1. active' # NoActive
    BY DEF NoActive
  <1> QED
    BY <1>1, ScheduleNextResult

(* No hot loop: a WATCH attempt starts only for an epoch beyond those      *)
(* published or parked, and directly after another attempt only if that    *)
(* one covered less or was cancelled.                                      *)
THEOREM NoHotLoop == Spec => WatchStartsOnlyForNewEpochs
  <1>1. ScheduleInv /\ [Next]_scheduleVars => [FreshStart]_scheduleVars
    <2> SUFFICES ASSUME ScheduleInv, Next, active'.trigger = "Watch"
                 PROVE  FreshStart
      BY DEF FreshStart
    <2> USE DEF ScheduleInv
    <2>1. ASSUME NEW initial \in BOOLEAN, EnableWatch(initial) PROVE FreshStart
      <3>1. CASE active.id # NoId
        BY <2>1, <3>1, KeepsAttempt DEF EnableWatch, NoEffect
      <3>2. CASE active.id = NoId
        BY <2>1, <3>2, StartsFresh DEF EnableWatch, FreshStart, TypeOK, IdsDistinct
      <3> QED
        BY <3>1, <3>2
    <2>2. ASSUME DisableWatch PROVE FreshStart
      BY <2>2, KeepsAttempt, CancellationResult DEF DisableWatch, Reasons
    <2>3. ASSUME NEW supersede \in BOOLEAN, RequestReconciliation(supersede) PROVE FreshStart
      <3>1. CASE RequestActiveCancellation("Superseded")
        BY <3>1, KeepsAttempt, CancellationResult DEF Reasons
      <3>2. CASE NoEffect
        BY <3>2, KeepsAttempt DEF NoEffect
      <3>3. CASE active.id = NoId /\ ScheduleNext(pendingManual, nextOperationId)
        BY <2>3, <3>3, StartsFresh DEF RequestReconciliation, FreshStart, TypeOK, IdsDistinct
      <3> QED
        BY <2>3, <3>1, <3>2, <3>3 DEF RequestReconciliation
    <2>4. ASSUME RequestManual PROVE FreshStart
      <3>1. CASE RequestActiveCancellation("ManualPriority")
        BY <3>1, KeepsAttempt, CancellationResult DEF Reasons
      <3>2. CASE active.id = NoId /\ ScheduleNext(nextOperationId + 1, nextOperationId + 1)
        BY <2>4, <3>2, StartsFresh DEF RequestManual, FreshStart, TypeOK
      <3> QED
        BY <2>4, <3>1, <3>2 DEF RequestManual
    <2>5. ASSUME NEW id \in 1..MaxOps, Cancel(id) PROVE FreshStart
      BY <2>5, KeepsAttempt, CancellationResult DEF Cancel, Reasons
    <2>6. ASSUME MarkActivePublication PROVE FreshStart
      BY <2>6, KeepsAttempt DEF MarkActivePublication, NoEffect
    <2>7. ASSUME NEW result \in Results, Finish(result) PROVE FreshStart
      <3>1. /\ active'.covered = desired /\ published' < desired /\ failed' < desired
            /\ published' \in Nat /\ failed' \in Nat
        BY <2>7, StartsFresh DEF Finish, Results, Later, TypeOK, IdsDistinct
      <3>2. CASE result = "Published"
        BY <2>7, <3>1, <3>2 DEF Finish, FreshStart, Later, TypeOK, EpochsOrdered
      <3>3. CASE result = "Failed"
        BY <2>7, <3>1, <3>3 DEF Finish, FreshStart, Later, TypeOK, EpochsOrdered
      <3>4. CASE result = "Cancelled"
        BY <2>7, <3>1, <3>4 DEF Finish, FreshStart, TypeOK
      <3> QED
        BY <3>2, <3>3, <3>4 DEF Results
    <2>8. ASSUME Shutdown PROVE FreshStart
      <3>1. active'.id = active.id
        BY <2>8 DEF Shutdown, TypeOK
      <3> QED
        BY <3>1, KeepsAttempt
    <2> QED
      BY <2>1, <2>2, <2>3, <2>4, <2>5, <2>6, <2>7, <2>8 DEF Next
  <1> QED
    BY <1>1, ScheduleInvariant, PTL DEF Spec, WatchStartsOnlyForNewEpochs, FreshStart

(* A publication advances published_epoch only to what its attempt covers. *)
THEOREM PublicationIsCovered == Spec => PublishedOnlyWhatWasCovered
  <1> DEFINE Covered == published' # published
                           => published' > published /\ published' = active.covered
  <1>1. ScheduleInv /\ [Next]_scheduleVars => [Covered]_scheduleVars
    <2> SUFFICES ASSUME ScheduleInv, Next PROVE Covered
      OBVIOUS
    <2>1. CASE MarkActivePublication
      BY <2>1 DEF MarkActivePublication, Later, ScheduleInv, TypeOK
    <2>2. ASSUME NEW result \in Results, Finish(result) PROVE Covered
      BY <2>2 DEF Finish, Later, ScheduleInv, TypeOK
    <2>3. CASE UNCHANGED published
      BY <2>3
    <2>4. CASE \/ \E initial \in BOOLEAN : EnableWatch(initial)
               \/ DisableWatch
               \/ \E supersede \in BOOLEAN : RequestReconciliation(supersede)
               \/ RequestManual
               \/ \E id \in 1..MaxOps : Cancel(id)
               \/ Shutdown
      BY <2>3, <2>4 DEF EnableWatch, DisableWatch, RequestReconciliation, RequestManual,
         Cancel, Shutdown
    <2> QED
      BY <2>1, <2>2, <2>4 DEF Next
  <1> QED
    BY <1>1, ScheduleInvariant, PTL DEF Spec, PublishedOnlyWhatWasCovered

(* Turning WATCH off leaves a manual attempt running; only shutdown, which *)
(* turns WATCH off too, tells it to stop.                                  *)
THEOREM DisableLeavesManual == Spec => DisableSparesManual
  <1> DEFINE Spared == watchEnabled /\ ~watchEnabled' /\ active.trigger = "Manual"
                          => active'.cancel \in {active.cancel, "Shutdown"}
  <1>1. ScheduleInv /\ [Next]_scheduleVars => [Spared]_scheduleVars
    <2> SUFFICES ASSUME ScheduleInv, Next, watchEnabled, ~watchEnabled',
                        active.trigger = "Manual"
                 PROVE  active'.cancel \in {active.cancel, "Shutdown"}
      OBVIOUS
    <2>1. CASE DisableWatch
      BY <2>1 DEF DisableWatch
    <2>2. CASE Shutdown
      <3>1. active' = active \/ active' = [active EXCEPT !.cancel = "Shutdown"]
        BY <2>2 DEF Shutdown
      <3> QED
        BY <3>1 DEF ScheduleInv, TypeOK
    <2>3. CASE \/ \E initial \in BOOLEAN : EnableWatch(initial)
               \/ \E supersede \in BOOLEAN : RequestReconciliation(supersede)
               \/ RequestManual
               \/ \E id \in 1..MaxOps : Cancel(id)
               \/ MarkActivePublication
               \/ \E result \in Results : Finish(result)
      BY <2>3 DEF EnableWatch, RequestReconciliation, RequestManual, Cancel,
         MarkActivePublication, Finish
    <2> QED
      BY <2>1, <2>2, <2>3 DEF Next
  <1> QED
    BY <1>1, ScheduleInvariant, PTL DEF Spec, DisableSparesManual

(* A fresh or empty slot carries no cancellation.                          *)
LEMMA FreshIsNotCancelled ==
    ASSUME NEW pending, NEW lastId, ScheduleNext(pending, lastId)
    PROVE  active'.cancel = "None"
  BY DEF ScheduleNext, Start, NoActive

(* An attempt is superseded only by a newer direct change, and only if it  *)
(* was started for one; periodic ticks never supersede.                    *)
THEOREM OnlyChangesSupersede == Spec => SupersededOnlyByChange
  <1> DEFINE ByChange == active'.cancel = "Superseded" /\ active.cancel # "Superseded"
                            => latestChange' > latestChange /\ active.changeDriven
  <1>1. ScheduleInv /\ [Next]_scheduleVars => [ByChange]_scheduleVars
    <2> SUFFICES ASSUME ScheduleInv, Next, active'.cancel = "Superseded",
                        active.cancel # "Superseded"
                 PROVE  latestChange' > latestChange /\ active.changeDriven
      OBVIOUS
    <2> USE DEF ScheduleInv
    <2>1. active' # active
      OBVIOUS
    <2>2. \A reason \in Reasons : RequestActiveCancellation(reason) => reason = "Superseded"
      BY <2>1 DEF RequestActiveCancellation, TypeOK
    <2>3. \A pending, lastId : ~ScheduleNext(pending, lastId)
      BY FreshIsNotCancelled
    <2>4. ASSUME NEW supersede \in BOOLEAN, RequestReconciliation(supersede)
          PROVE  latestChange' > latestChange /\ active.changeDriven
      <3>1. supersede /\ active.changeDriven
        BY <2>1, <2>3, <2>4 DEF RequestReconciliation, NoEffect
      <3> QED
        BY <2>4, <3>1 DEF RequestReconciliation, TypeOK, EpochsOrdered
    <2>5. ~(\E initial \in BOOLEAN : EnableWatch(initial))
      BY <2>1, <2>3 DEF EnableWatch, NoEffect
    <2>6. ~DisableWatch
      BY <2>1, <2>2 DEF DisableWatch, Reasons
    <2>7. ~RequestManual
      BY <2>2, <2>3 DEF RequestManual, Reasons
    <2>8. ~(\E id \in 1..MaxOps : Cancel(id))
      BY <2>1, <2>2 DEF Cancel, Reasons
    <2>9. ~MarkActivePublication
      BY <2>1 DEF MarkActivePublication, NoEffect
    <2>10. ~(\E result \in Results : Finish(result))
      BY <2>3 DEF Finish
    <2>11. ~Shutdown
      BY <2>1 DEF Shutdown, TypeOK
    <2> QED
      BY <2>4, <2>5, <2>6, <2>7, <2>8, <2>9, <2>10, <2>11 DEF Next
  <1> QED
    BY <1>1, ScheduleInvariant, PTL DEF Spec, SupersededOnlyByChange

-----------------------------------------------------------------------------
(* The drift probe beside the schedule: the composition does to the        *)
(* schedule only what its methods do.                                      *)

USE DEF NoToken

LEMMA ScheduleStepIsNext == ScheduleStep => Next
  BY DEF ScheduleStep, Next, Results

LEMMA StepIsScheduleStep == [ProbeNext]_vars => [Next]_scheduleVars
  <1> SUFFICES ASSUME [ProbeNext]_vars PROVE [Next]_scheduleVars
    OBVIOUS
  <1>1. CASE ForeignPublish \/ Touch \/ OwnPublish \/ ReadWitness \/ ReadControl \/ Settle
    BY <1>1 DEF ForeignPublish, Touch, OwnPublish, ReadWitness, ReadControl, Settle
  <1>2. CASE ScheduleStep
    BY <1>2, ScheduleStepIsNext
  <1>3. CASE Report
    BY <1>3 DEF Report, Next
  <1>4. CASE UNCHANGED vars
    BY <1>4 DEF vars
  <1> QED
    BY <1>1, <1>2, <1>3, <1>4 DEF ProbeNext, Probe

(* Beside other publishers and the probe, the schedule is still the one    *)
(* IndexSchedule specifies: the composition implements its specification.  *)
THEOREM ProbeKeepsSchedule == ProbeSpec => Spec
  <1>1. ProbeInit => Init
    BY DEF ProbeInit
  <1> QED
    BY <1>1, StepIsScheduleStep, PTL DEF ProbeSpec, Spec

(* Hence its invariant holds in the composition, drift reports included.   *)
THEOREM ScheduleInvBesideProbe == ProbeSpec => []ScheduleInv
  BY ProbeKeepsSchedule, ScheduleInvariant, PTL

-----------------------------------------------------------------------------
(* The inductive invariant of the probe.                                   *)

Reading == probe.at \in {"control", "settle"}

SnapshotType ==
    [desired : Nat, published : Nat, active : Nat, trigger : Triggers \cup {"None"},
     queued : BOOLEAN, watch : BOOLEAN, revision : 0..revision, token : 0..head]

\* Types, and nothing is remembered of a head, a metadata change or an own
\* publication that has not happened yet.
ProbeTypeOK ==
    /\ head \in Nat /\ metadata \in Nat \ {0} /\ revision \in Nat
    /\ wrote \in 0..head /\ ownToken \in 0..head
    /\ tracker \in [revision : 0..revision, witness : 0..metadata, state : 0..head]
    /\ probe.at \in {"idle", "control", "settle", "report"}
    /\ probe.at = "idle" => probe = ProbeIdle
    /\ Reading => probe \in [at : {"control", "settle"}, snapshot : SnapshotType,
                             witness : 1..metadata, state : 0..head]
    /\ unseen \in BOOLEAN /\ overlooked \in BOOLEAN /\ unprovenSince \in BOOLEAN

\* A head waits to be recorded only while its attempt runs, and is newer than
\* the last recorded one.
WriterRuns == wrote # NoToken => active.id # NoId /\ ownToken < wrote

\* After the first baseline a probe reads only from an idle schedule.
ReadsIdle == Reading /\ ~BaselineMissing => probe.snapshot.active = NoId

\* Metadata that has not moved since it was read vouches for the bytes read
\* after it, if they could be read.
WitnessVouches ==
    probe.at = "settle" /\ probe.witness = metadata => probe.state \in {head, NoToken}

\* An unseen head is not the one whose token is recorded, nor one about to be
\* recorded, and the tracker has not remembered it without reporting it or
\* having an own publication to compare.
UnseenIsForeign == unseen => head # wrote /\ head # ownToken
UnseenIsNews ==
    unseen /\ ~overlooked /\ ~BaselineMissing =>
        tracker.state # head \/ tracker.revision # revision \/ probe.at = "report"

\* Nor has it remembered a head that waits to be recorded: should the attempt
\* fail now, the head is still news.
WrittenIsNews ==
    wrote # NoToken /\ ~overlooked /\ ~BaselineMissing =>
        tracker.state # head /\ tracker.witness # metadata

\* With no unproven head since the tracker looked, the newest head is the one
\* an attempt has just written, the last recorded one, or the one it saw ...
OnlyOwnSince ==
    ~unprovenSince =>
        /\ wrote # NoToken => head = wrote
        /\ ~BaselineMissing =>
              \/ wrote # NoToken
              \/ tracker.revision # revision /\ head = ownToken /\ head # NoToken
              \/ tracker.revision = revision /\ head = tracker.state

\* ... and it is what the probe under way has read, if it could read and
\* nothing was recorded since the probe began.
ReadIsNewest ==
    probe.at = "settle" /\ ~unprovenSince /\ wrote = NoToken
        /\ probe.snapshot.revision = revision => probe.state \in {head, NoToken}

ProbeInv ==
    /\ ProbeTypeOK /\ WriterRuns /\ ReadsIdle /\ WitnessVouches
    /\ UnseenIsForeign /\ UnseenIsNews /\ WrittenIsNews /\ OnlyOwnSince /\ ReadIsNewest
    /\ UnprovenHeadNoticed

(* What the tracker and a probe under way remember stays in range.         *)
LEMMA RememberedStays ==
    ASSUME ProbeTypeOK, UNCHANGED <<tracker, probe>>,
           head' \in Nat, metadata' \in Nat, revision' \in Nat,
           head <= head', metadata <= metadata', revision <= revision'
    PROVE  /\ tracker' \in [revision : 0..revision', witness : 0..metadata', state : 0..head']
           /\ probe'.at \in {"idle", "control", "settle", "report"}
           /\ probe'.at = "idle" => probe' = ProbeIdle
           /\ Reading' => probe' \in [at : {"control", "settle"}, snapshot : SnapshotType',
                                     witness : 1..metadata', state : 0..head']
  <1>1. tracker' \in [revision : 0..revision', witness : 0..metadata', state : 0..head']
    BY DEF ProbeTypeOK
  <1>2. SnapshotType \subseteq SnapshotType'
    BY DEF ProbeTypeOK, SnapshotType
  <1>3. Reading' => probe' \in [at : {"control", "settle"}, snapshot : SnapshotType',
                               witness : 1..metadata', state : 0..head']
    BY <1>2 DEF ProbeTypeOK, Reading
  <1> QED
    BY <1>1, <1>3 DEF ProbeTypeOK

LEMMA ProbeInitInv == ProbeInit => ProbeInv
  <1> SUFFICES ASSUME ProbeInit PROVE ProbeInv
    OBVIOUS
  <1> USE DEF ProbeInit, Reading, BaselineMissing
  <1>1. probe = ProbeIdle /\ probe.at = "idle"
    BY DEF ProbeIdle
  <1>2. ProbeTypeOK
    <2>1. head \in Nat /\ metadata \in Nat \ {0} /\ wrote \in 0..head /\ ownToken \in 0..head
      OBVIOUS
    <2>2. tracker \in [revision : 0..revision, witness : 0..metadata, state : 0..head]
      BY <2>1
    <2> QED
      BY <1>1, <2>1, <2>2 DEF ProbeTypeOK
  <1>3. WriterRuns /\ ReadsIdle /\ WitnessVouches /\ ReadIsNewest
    BY <1>1 DEF WriterRuns, ReadsIdle, WitnessVouches, ReadIsNewest
  <1>4. UnseenIsForeign /\ UnseenIsNews /\ WrittenIsNews /\ OnlyOwnSince /\ UnprovenHeadNoticed
    BY DEF UnseenIsForeign, UnseenIsNews, WrittenIsNews, OnlyOwnSince, UnprovenHeadNoticed
  <1> QED
    BY <1>2, <1>3, <1>4 DEF ProbeInv

(* An attempt that runs goes on until it finishes.                         *)
LEMMA RunningStays ==
    ASSUME TypeOK, active.id # NoId,
           \/ \E initial \in BOOLEAN : EnableWatch(initial)
           \/ DisableWatch
           \/ \E supersede \in BOOLEAN : RequestReconciliation(supersede)
           \/ RequestManual
           \/ \E id \in 1..MaxOps : Cancel(id)
           \/ Shutdown
    PROVE  active'.id # NoId
  <1>1. ASSUME NEW reason, RequestActiveCancellation(reason) PROVE active'.id = active.id
    BY <1>1 DEF RequestActiveCancellation, TypeOK
  <1>2. CASE \E initial \in BOOLEAN : EnableWatch(initial)
    BY <1>2 DEF EnableWatch, NoEffect
  <1>3. CASE DisableWatch
    BY <1>1, <1>3 DEF DisableWatch
  <1>4. CASE \E supersede \in BOOLEAN : RequestReconciliation(supersede)
    BY <1>1, <1>4 DEF RequestReconciliation, NoEffect
  <1>5. CASE RequestManual
    BY <1>1, <1>5 DEF RequestManual
  <1>6. CASE \E id \in 1..MaxOps : Cancel(id)
    BY <1>1, <1>6 DEF Cancel
  <1>7. CASE Shutdown
    BY <1>7 DEF Shutdown, TypeOK
  <1> QED
    BY <1>2, <1>3, <1>4, <1>5, <1>6, <1>7

(* What the probe's invariant needs of a call on the schedule.  The running *)
(* attempt stays; or what it wrote is recorded with its token; or what it   *)
(* wrote stays unproven, recorded without a token or not at all.            *)
KeepsWriting ==
    /\ UNCHANGED <<ownVars, unprovenSince>> /\ unseen' \in BOOLEAN /\ (unseen' => unseen)
    /\ wrote # NoToken => active'.id # NoId
RecordsToken ==
    /\ wrote # NoToken /\ wrote' = NoToken /\ revision' = revision + 1 /\ ownToken' = wrote
    /\ UNCHANGED unprovenSince /\ unseen' \in BOOLEAN /\ (unseen' => unseen)
LeavesUnproven ==
    /\ wrote # NoToken /\ wrote' = NoToken /\ unseen' \in BOOLEAN /\ unprovenSince' = TRUE
    /\ \/ revision' = revision + 1 /\ ownToken' = NoToken
       \/ UNCHANGED <<revision, ownToken>>

LEMMA ScheduleStepResult ==
    ASSUME TypeOK, ProbeTypeOK, WriterRuns, ScheduleStep
    PROVE  /\ UNCHANGED <<storeVars, probe, tracker, overlooked>>
           /\ KeepsWriting \/ RecordsToken \/ LeavesUnproven
  <1>1. UNCHANGED <<storeVars, probe, tracker, overlooked>>
    BY DEF ScheduleStep
  <1>2. CASE /\ \/ \E initial \in BOOLEAN : EnableWatch(initial)
                \/ DisableWatch
                \/ \E supersede \in BOOLEAN : RequestReconciliation(supersede)
                \/ RequestManual
                \/ \E id \in 1..MaxOps : Cancel(id)
                \/ Shutdown
             /\ UNCHANGED ownVars
             /\ NoteSchedule(FALSE)
    <2>1. UNCHANGED unprovenSince /\ unseen' \in BOOLEAN /\ (unseen' => unseen)
      BY <1>2 DEF NoteSchedule, ProbeTypeOK
    <2>2. wrote # NoToken => active'.id # NoId
      BY <1>2, RunningStays DEF WriterRuns
    <2> QED
      BY <1>1, <1>2, <2>1, <2>2 DEF KeepsWriting
  <1>3. CASE RecordOwned /\ NoteSchedule(wrote # NoToken /\ ownToken' = NoToken)
    <2>1. CASE wrote = NoToken
      BY <1>1, <1>3, <2>1 DEF RecordOwned, NoteSchedule, KeepsWriting, ownVars, ProbeTypeOK
    <2>2. CASE wrote # NoToken /\ ownToken' = wrote
      BY <1>1, <1>3, <2>2 DEF RecordOwned, NoteSchedule, RecordsToken, ProbeTypeOK
    <2>3. CASE wrote # NoToken /\ ownToken' = NoToken
      BY <1>1, <1>3, <2>3 DEF RecordOwned, NoteSchedule, LeavesUnproven
    <2> QED
      BY <1>3, <2>1, <2>2, <2>3 DEF RecordOwned
  <1>4. CASE wrote = NoToken /\ UNCHANGED ownVars /\ NoteSchedule(FALSE)
    BY <1>1, <1>4 DEF NoteSchedule, KeepsWriting, ProbeTypeOK
  <1>5. CASE /\ wrote' = NoToken /\ UNCHANGED <<revision, ownToken>>
             /\ NoteSchedule(wrote # NoToken)
    <2>1. CASE wrote = NoToken
      BY <1>1, <1>5, <2>1 DEF NoteSchedule, KeepsWriting, ownVars, ProbeTypeOK
    <2>2. CASE wrote # NoToken
      BY <1>1, <1>5, <2>2 DEF NoteSchedule, LeavesUnproven
    <2> QED
      BY <2>1, <2>2
  <1> QED
    BY <1>2, <1>3, <1>4, <1>5 DEF ScheduleStep

LEMMA ProbeStepInv == TypeOK /\ ProbeInv /\ [ProbeNext]_vars => ProbeInv'
  <1> SUFFICES ASSUME TypeOK, ProbeInv, [ProbeNext]_vars PROVE ProbeInv'
    OBVIOUS
  <1> USE DEF ProbeInv, Reading, BaselineMissing, storeVars, ownVars, historyVars
  <1>1. CASE ForeignPublish
    <2> USE <1>1 DEF ForeignPublish, scheduleVars
    <2>1. ProbeTypeOK'
      <3>1. /\ head \in Nat /\ head' = head + 1 /\ metadata \in Nat /\ metadata' = metadata + 1
            /\ revision \in Nat /\ revision' = revision /\ UNCHANGED <<tracker, probe>>
        BY DEF ProbeTypeOK
      <3>2. wrote' \in 0..head' /\ ownToken' \in 0..head'
        BY <3>1 DEF ProbeTypeOK
      <3>3. unseen' \in BOOLEAN /\ overlooked' \in BOOLEAN /\ unprovenSince' \in BOOLEAN
        OBVIOUS
      <3> QED
        BY <3>1, <3>2, <3>3, RememberedStays DEF ProbeTypeOK
    <2>2. WriterRuns' /\ ReadsIdle'
      BY DEF WriterRuns, ReadsIdle
    <2>3. WitnessVouches' /\ UnseenIsForeign' /\ UnprovenHeadNoticed' /\ UnseenIsNews'
          /\ WrittenIsNews'
      BY DEF ProbeTypeOK, WitnessVouches, UnseenIsForeign, UnprovenHeadNoticed, UnseenIsNews,
             WrittenIsNews
    <2>4. OnlyOwnSince' /\ ReadIsNewest'
      BY DEF OnlyOwnSince, ReadIsNewest
    <2> QED
      BY <2>1, <2>2, <2>3, <2>4
  <1>2. CASE Touch
    <2> USE <1>2 DEF Touch, scheduleVars
    <2>1. ProbeTypeOK'
      BY RememberedStays DEF ProbeTypeOK
    <2>2. WriterRuns' /\ ReadsIdle' /\ UnseenIsForeign' /\ UnseenIsNews'
      BY DEF WriterRuns, ReadsIdle, UnseenIsForeign, UnseenIsNews
    <2>3. WitnessVouches' /\ UnprovenHeadNoticed' /\ WrittenIsNews'
      BY DEF ProbeTypeOK, WitnessVouches, UnprovenHeadNoticed, WrittenIsNews
    <2>4. OnlyOwnSince' /\ ReadIsNewest'
      BY DEF OnlyOwnSince, ReadIsNewest
    <2> QED
      BY <2>1, <2>2, <2>3, <2>4
  <1>3. CASE OwnPublish
    <2> USE <1>3 DEF OwnPublish, scheduleVars
    <2>1. ProbeTypeOK'
      <3>1. /\ head \in Nat /\ head' = head + 1 /\ metadata \in Nat /\ metadata' = metadata + 1
            /\ revision \in Nat /\ revision' = revision /\ UNCHANGED <<tracker, probe>>
        BY DEF ProbeTypeOK
      <3>2. wrote' \in 0..head' /\ ownToken' \in 0..head'
        BY <3>1 DEF ProbeTypeOK
      <3>3. unseen' \in BOOLEAN /\ overlooked' \in BOOLEAN /\ unprovenSince' \in BOOLEAN
        BY DEF ProbeTypeOK
      <3> QED
        BY <3>1, <3>2, <3>3, RememberedStays DEF ProbeTypeOK
    <2>2. ReadsIdle' /\ UnseenIsForeign' /\ UnseenIsNews' /\ UnprovenHeadNoticed'
      BY DEF ReadsIdle, UnseenIsForeign, UnseenIsNews, UnprovenHeadNoticed
    <2>3. WriterRuns' /\ WitnessVouches' /\ WrittenIsNews'
      BY DEF ProbeTypeOK, WriterRuns, WitnessVouches, WrittenIsNews
    <2>4. OnlyOwnSince' /\ ReadIsNewest'
      BY DEF ProbeTypeOK, OnlyOwnSince, ReadIsNewest
    <2> QED
      BY <2>1, <2>2, <2>3, <2>4
  <1>4. CASE ScheduleStep
    <2> USE <1>4, ScheduleStepResult
    <2>1. CASE KeepsWriting
      <3> USE <2>1 DEF KeepsWriting
      <3>1. ProbeTypeOK' /\ WriterRuns'
        BY RememberedStays DEF ProbeTypeOK, WriterRuns
      <3>2. ReadsIdle' /\ WitnessVouches' /\ OnlyOwnSince' /\ ReadIsNewest'
        BY DEF ReadsIdle, WitnessVouches, OnlyOwnSince, ReadIsNewest
      <3>3. UnseenIsForeign' /\ UnseenIsNews' /\ WrittenIsNews' /\ UnprovenHeadNoticed'
        BY DEF UnseenIsForeign, UnseenIsNews, WrittenIsNews, UnprovenHeadNoticed
      <3> QED
        BY <3>1, <3>2, <3>3
    <2>2. CASE RecordsToken \/ LeavesUnproven
      <3>1. /\ wrote # NoToken /\ wrote' = NoToken
            /\ unseen' \in BOOLEAN /\ unprovenSince' \in BOOLEAN
            /\ UNCHANGED <<storeVars, probe, tracker, overlooked>>
            /\ revision' \in {revision, revision + 1} /\ ownToken' \in {ownToken, wrote, NoToken}
        BY <2>2 DEF RecordsToken, LeavesUnproven, ProbeTypeOK
      <3>2. ProbeTypeOK' /\ WriterRuns'
        BY <3>1, RememberedStays DEF ProbeTypeOK, WriterRuns
      <3>3. ReadsIdle' /\ WitnessVouches' /\ WrittenIsNews'
        BY <3>1 DEF ReadsIdle, WitnessVouches, WrittenIsNews
      <3>4. tracker.revision \in 0..revision /\ revision \in Nat
            /\ (probe.at = "settle" => probe.snapshot.revision \in 0..revision)
        BY DEF ProbeTypeOK, SnapshotType
      <3>5. OnlyOwnSince' /\ ReadIsNewest'
        <4>1. CASE RecordsToken
          <5>1. OnlyOwnSince'
            BY <3>1, <3>4, <4>1 DEF RecordsToken, OnlyOwnSince
          <5> QED
            BY <3>1, <3>4, <4>1, <5>1 DEF RecordsToken, ReadIsNewest
        <4>2. CASE LeavesUnproven
          BY <4>2 DEF LeavesUnproven, OnlyOwnSince, ReadIsNewest
        <4> QED
          BY <2>2, <4>1, <4>2
      <3>6. UnseenIsForeign'
        BY <2>2, <3>1 DEF RecordsToken, LeavesUnproven, ProbeTypeOK, WriterRuns, UnseenIsForeign
      <3>7. UnseenIsNews' /\ UnprovenHeadNoticed'
        <4>1. CASE revision' = revision + 1
          BY <3>1, <3>4, <4>1 DEF UnseenIsNews, UnprovenHeadNoticed
        <4>2. CASE revision' = revision
          BY <3>1, <4>2 DEF WrittenIsNews, UnseenIsNews, UnprovenHeadNoticed
        <4> QED
          BY <3>1, <4>1, <4>2
      <3> QED
        BY <3>2, <3>3, <3>5, <3>6, <3>7
    <2> QED
      BY <2>1, <2>2
  <1>5. CASE ReadWitness
    <2> USE <1>5 DEF ReadWitness, scheduleVars
    <2>1. probe' = [at |-> "control", snapshot |-> Snapshot, witness |-> metadata, state |-> NoToken]
      OBVIOUS
    <2>2. ProbeTypeOK'
      BY <2>1 DEF ProbeTypeOK, SnapshotType, Snapshot, TypeOK
    <2>3. ReadsIdle'
      BY <2>1 DEF ReadsIdle, Snapshot, Idle
    <2>4. WriterRuns' /\ WitnessVouches' /\ OnlyOwnSince' /\ ReadIsNewest'
      BY <2>1 DEF WriterRuns, WitnessVouches, OnlyOwnSince, ReadIsNewest
    <2>5. UnseenIsForeign' /\ UnseenIsNews' /\ WrittenIsNews' /\ UnprovenHeadNoticed'
      BY DEF UnseenIsForeign, UnseenIsNews, WrittenIsNews, UnprovenHeadNoticed
    <2> QED
      BY <2>2, <2>3, <2>4, <2>5
  <1>6. CASE ReadControl
    <2>0. PICK state \in {head, NoToken} : probe' = [probe EXCEPT !.at = "settle", !.state = state]
      BY <1>6 DEF ReadControl
    <2>1. /\ probe' = [at |-> "settle", snapshot |-> probe.snapshot,
                       witness |-> probe.witness, state |-> state]
          /\ probe.at = "control"
          /\ UNCHANGED <<scheduleVars, storeVars, ownVars, tracker, historyVars>>
      BY <1>6, <2>0 DEF ReadControl, ProbeTypeOK
    <2> USE <2>1 DEF scheduleVars
    <2>2. ProbeTypeOK'
      BY DEF ProbeTypeOK, SnapshotType
    <2>3. WriterRuns' /\ ReadsIdle' /\ WitnessVouches' /\ OnlyOwnSince' /\ ReadIsNewest'
      BY <2>1 DEF WriterRuns, ReadsIdle, WitnessVouches, OnlyOwnSince, ReadIsNewest
    <2>4. UnseenIsForeign' /\ UnseenIsNews' /\ WrittenIsNews' /\ UnprovenHeadNoticed'
      BY DEF UnseenIsForeign, UnseenIsNews, WrittenIsNews, UnprovenHeadNoticed
    <2> QED
      BY <2>2, <2>3, <2>4
  <1>7. CASE Settle
    <2> USE <1>7 DEF scheduleVars
    <2>1. CASE probe' = ProbeIdle /\ UNCHANGED <<tracker, overlooked, unprovenSince>>
      <3> USE <2>1 DEF Settle, ProbeIdle
      <3>1. ProbeTypeOK'
        BY DEF ProbeTypeOK
      <3>2. WriterRuns' /\ ReadsIdle' /\ WitnessVouches' /\ OnlyOwnSince' /\ ReadIsNewest'
        BY DEF WriterRuns, ReadsIdle, WitnessVouches, OnlyOwnSince, ReadIsNewest
      <3>3. UnseenIsForeign' /\ UnseenIsNews' /\ WrittenIsNews' /\ UnprovenHeadNoticed'
        BY DEF UnseenIsForeign, UnseenIsNews, WrittenIsNews, UnprovenHeadNoticed
      <3> QED
        BY <3>1, <3>2, <3>3
    <2>2. CASE /\ Snapshot = probe.snapshot
               /\ tracker' = [revision |-> probe.snapshot.revision, witness |-> probe.witness,
                              state |-> probe.state]
               /\ NoteLook
      <3>1. /\ probe.snapshot.revision = revision /\ probe.snapshot.token = ownToken
            /\ probe.snapshot.active = active.id
        BY <2>2 DEF Snapshot
      <3>2. /\ tracker' = [revision |-> revision, witness |-> probe.witness, state |-> probe.state]
            /\ probe.at = "settle"
            /\ probe' = IF Drifted THEN [ProbeIdle EXCEPT !.at = "report"] ELSE ProbeIdle
            /\ overlooked' =
                  \/ overlooked
                  \/ /\ unseen \/ wrote # NoToken
                     /\ \/ BaselineMissing /\ probe.state \in {head, NoToken}
                        \/ ~OwnAdvanced /\ tracker.state = NoToken /\ probe.state = NoToken
            /\ unprovenSince' =
                  IF BaselineMissing THEN unprovenSince \/ (probe.state = NoToken /\ head # NoToken)
                  ELSE head # probe.state
            /\ UNCHANGED <<scheduleVars, storeVars, ownVars, unseen>>
        BY <2>2, <3>1 DEF Settle, NoteLook, ProbeTypeOK
      <3>3. /\ probe'.at = IF Drifted THEN "report" ELSE "idle"
            /\ probe'.at = "idle" => probe' = ProbeIdle
        BY <3>2 DEF ProbeIdle
      <3>4. ProbeTypeOK'
        <4>1. tracker' \in [revision : 0..revision, witness : 0..metadata, state : 0..head]
          BY <3>2 DEF ProbeTypeOK
        <4>2. overlooked' \in BOOLEAN /\ unprovenSince' \in BOOLEAN
          BY <3>2 DEF ProbeTypeOK
        <4> QED
          BY <3>2, <3>3, <4>1, <4>2 DEF ProbeTypeOK
      <3>5. WriterRuns' /\ ReadsIdle' /\ WitnessVouches' /\ UnseenIsForeign' /\ ReadIsNewest'
        BY <3>2, <3>3 DEF WriterRuns, ReadsIdle, WitnessVouches, UnseenIsForeign, ReadIsNewest
      <3>6. OnlyOwnSince'
        <4>1. CASE BaselineMissing
          BY <3>1, <3>2, <4>1 DEF OnlyOwnSince, ReadIsNewest
        <4>2. CASE ~BaselineMissing
          BY <3>1, <3>2, <4>2 DEF OnlyOwnSince, ReadsIdle, WriterRuns
        <4> QED
          BY <4>1, <4>2
      <3>7. ASSUME unseen \/ wrote # NoToken, ~overlooked', BaselineMissing
            PROVE  probe.state # head /\ probe.witness # metadata
        BY <3>2, <3>7 DEF WitnessVouches
      <3>8. ASSUME unseen, ~overlooked', ~BaselineMissing, ~Drifted
            PROVE  probe.state # head /\ probe.witness # metadata
        <4>1. CASE OwnAdvanced
          BY <3>1, <3>2, <3>8, <4>1 DEF OwnAdvanced, Drifted, UnseenIsForeign, WitnessVouches
        <4>2. CASE ~OwnAdvanced
          BY <3>1, <3>2, <3>8, <4>2 DEF OwnAdvanced, Drifted, UnseenIsNews, WitnessVouches
        <4> QED
          BY <4>1, <4>2
      <3>9. WrittenIsNews'
        <4>1. CASE BaselineMissing
          BY <3>2, <3>7, <4>1 DEF WrittenIsNews
        <4>2. CASE ~BaselineMissing
          BY <3>1, <3>2, <4>2 DEF WrittenIsNews, ReadsIdle, WriterRuns
        <4> QED
          BY <4>1, <4>2
      <3>10. UnseenIsNews' /\ UnprovenHeadNoticed'
        BY <3>2, <3>3, <3>7, <3>8 DEF UnseenIsNews, UnprovenHeadNoticed
      <3> QED
        BY <3>4, <3>5, <3>6, <3>9, <3>10
    <2> QED
      BY <2>1, <2>2 DEF Settle
  <1>8. CASE Report
    <2>1. /\ probe' = ProbeIdle /\ unseen' = FALSE
          /\ UNCHANGED <<storeVars, ownVars, tracker, overlooked, unprovenSince>>
          /\ active.id # NoId => active'.id # NoId
      <3>1. desired' # desired
        BY <1>8 DEF Report, RequestReconciliation, TypeOK
      <3>2. unseen' = FALSE /\ UNCHANGED unprovenSince
        BY <1>8, <3>1 DEF Report, NoteSchedule, ProbeTypeOK
      <3> QED
        BY <1>8, <3>2, RunningStays DEF Report
    <2>2. ProbeTypeOK' /\ WriterRuns'
      BY <2>1 DEF ProbeTypeOK, SnapshotType, ProbeIdle, WriterRuns
    <2>3. ReadsIdle' /\ WitnessVouches' /\ OnlyOwnSince' /\ ReadIsNewest'
      BY <2>1 DEF ProbeIdle, ReadsIdle, WitnessVouches, OnlyOwnSince, ReadIsNewest
    <2>4. UnseenIsForeign' /\ UnseenIsNews' /\ WrittenIsNews' /\ UnprovenHeadNoticed'
      BY <2>1 DEF UnseenIsForeign, UnseenIsNews, WrittenIsNews, UnprovenHeadNoticed
    <2> QED
      BY <2>2, <2>3, <2>4
  <1>9. CASE UNCHANGED vars
    <2> USE <1>9 DEF vars, probeVars, scheduleVars
    <2>1. ProbeTypeOK'
      BY RememberedStays DEF ProbeTypeOK
    <2>2. WriterRuns' /\ ReadsIdle' /\ WitnessVouches' /\ OnlyOwnSince' /\ ReadIsNewest'
      BY DEF WriterRuns, ReadsIdle, WitnessVouches, OnlyOwnSince, ReadIsNewest
    <2>3. UnseenIsForeign' /\ UnseenIsNews' /\ WrittenIsNews' /\ UnprovenHeadNoticed'
      BY DEF UnseenIsForeign, UnseenIsNews, WrittenIsNews, UnprovenHeadNoticed
    <2> QED
      BY <2>1, <2>2, <2>3
  <1> QED
    BY <1>1, <1>2, <1>3, <1>4, <1>5, <1>6, <1>7, <1>8, <1>9 DEF ProbeNext, Probe

(* The drift probe's invariant, whatever the order of publications by      *)
(* others, metadata changes, attempts and the reads of a probe.            *)
THEOREM ProbeInvariant == ProbeSpec => []ProbeInv
  <1>1. ScheduleInv => TypeOK
    BY DEF ScheduleInv
  <1> QED
    BY <1>1, ProbeInitInv, ProbeStepInv, ScheduleInvBesideProbe, PTL DEF ProbeSpec

(* An unproven head is never forgotten, be it another process's, an own    *)
(* one recorded without a token, or one a failed attempt left behind: until *)
(* an observation or an attempt comes after it, the next idle probe will    *)
(* look, or the report is due.                                              *)
THEOREM UnprovenHeadIsNoticed == ProbeSpec => []UnprovenHeadNoticed
  <1>1. ProbeInv => UnprovenHeadNoticed
    BY DEF ProbeInv
  <1> QED
    BY <1>1, ProbeInvariant, PTL

(* No report without an unproven head since the tracker last looked, unless *)
(* the control bytes could not be read: what this process published and     *)
(* recorded with its token never makes it index again.                      *)
THEOREM OwnPublicationsAreNotDrift == ProbeSpec => OwnNeverLooksForeign
  <1> DEFINE Justified ==
        probe.at = "settle" /\ probe'.at = "report" /\ ~BaselineMissing
            => unprovenSince \/ probe.state = NoToken
  <1>1. TypeOK /\ ProbeInv /\ [ProbeNext]_vars => [Justified]_vars
    <2> SUFFICES ASSUME TypeOK, ProbeInv, ProbeNext, probe.at = "settle", probe'.at = "report",
                        ~BaselineMissing, ~unprovenSince, probe.state # NoToken
                 PROVE  FALSE
      BY DEF ProbeInv, ProbeTypeOK
    <2> USE DEF ProbeInv, Reading, BaselineMissing
    <2>1. Settle
      BY ScheduleStepResult DEF ProbeNext, Probe, ForeignPublish, Touch, OwnPublish,
         ScheduleStep, ReadWitness, ReadControl, Report
    <2>2. Snapshot = probe.snapshot /\ Drifted
      BY <2>1 DEF Settle, ProbeIdle
    <2>3. /\ probe.snapshot.revision = revision /\ probe.snapshot.token = ownToken
          /\ active.id = NoId
      BY <2>2 DEF Snapshot, ReadsIdle
    <2>4. wrote = NoToken
      BY <2>3 DEF WriterRuns
    <2>5. probe.state = head
      BY <2>3, <2>4 DEF ReadIsNewest
    <2>6. \/ tracker.revision # revision /\ head = ownToken /\ head # NoToken
          \/ tracker.revision = revision /\ head = tracker.state
      BY <2>4 DEF OnlyOwnSince
    <2> QED
      BY <2>2, <2>3, <2>5, <2>6 DEF Drifted
  <1>2. ScheduleInv => TypeOK
    BY DEF ScheduleInv
  <1> QED
    BY <1>1, <1>2, ProbeInvariant, ScheduleInvBesideProbe, PTL DEF ProbeSpec, OwnNeverLooksForeign

(* No hot loop on failures and no credit for uncovered epochs, also when   *)
(* drift reports are among the observations.                               *)
THEOREM NoHotLoopBesideProbe == ProbeSpec => WatchStartsOnlyForNewEpochs
  BY ProbeKeepsSchedule, NoHotLoop
=============================================================================
