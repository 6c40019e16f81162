-------------------------- MODULE PublicationProbe --------------------------
(***************************************************************************)
(* The publication drift probe of IndexWatchService (PublicationProbe-     *)
(* Tracker, crates/h00ligan-engine/src/watcher.rs) composed with the       *)
(* scheduling core: other processes may publish into the same store, and   *)
(* WATCH notices from five file metadata reads and, when those changed,    *)
(* from the control bytes.                                                 *)
(*                                                                         *)
(* A head is its sequence number; control bytes are named by the head they *)
(* describe, NoToken standing for bytes that are not there or cannot be    *)
(* read (Unavailable), and for a token that could not be taken.  A head is *)
(* unproven when this process cannot know it for its own: another process  *)
(* wrote it, it was recorded without a token, or the attempt that wrote it *)
(* failed before anything was recorded.  The metadata of the control files *)
(* changes with every head and may change without one.  Other steps happen *)
(* between the reads of the probe.                                         *)
(***************************************************************************)
EXTENDS IndexSchedule

CONSTANTS MaxHead, MaxTouches   \* bounds on exploration

ASSUME ProbeAssumption == MaxHead \in Nat /\ MaxTouches \in Nat

VARIABLES
    head,        \* newest durable head, whoever wrote it
    metadata,    \* metadata of the control files (PublicationControlWitness)
    wrote,       \* head the running attempt wrote and nobody recorded yet
    revision,    \* owned_publication_revision
    ownToken,    \* owned_publication_control_token
    probe,       \* the probe under way, see ProbeIdle
    tracker,     \* PublicationProbeTracker
    unseen,      \* history: an unproven head no later observation or attempt saw
    overlooked,  \* history: a look the code cannot classify passed over such a head
    unprovenSince \* history: an unproven head since the tracker last looked

storeVars == <<head, metadata>>
ownVars == <<wrote, revision, ownToken>>
historyVars == <<unseen, overlooked, unprovenSince>>
probeVars == <<storeVars, ownVars, probe, tracker, historyVars>>
vars == <<scheduleVars, probeVars>>

NoToken == 0
None == [none |-> TRUE]
\* publication_probe_snapshot: taken under one lock.
Snapshot == [desired |-> desired, published |-> published, active |-> active.id,
             trigger |-> active.trigger, queued |-> pendingManual # NoId,
             watch |-> watchEnabled, revision |-> revision, token |-> ownToken]
ProbeIdle == [at |-> "idle", snapshot |-> None, witness |-> 0, state |-> NoToken]

-----------------------------------------------------------------------------
(* The store and the attempts of this supervisor.                          *)

\* An observation, or an attempt that starts, comes after every head so far,
\* also one that this very step leaves unproven.
NoteSchedule(leavesUnproven) ==
    /\ unseen' = /\ unseen \/ leavesUnproven
                 /\ desired' = desired
                 /\ active'.id \in {active.id, NoId}
    /\ unprovenSince' = (unprovenSince \/ leavesUnproven)

\* Another process publishes (external to this process).
ForeignPublish ==
    /\ head < MaxHead
    /\ head' = head + 1 /\ metadata' = metadata + 1
    /\ unseen' = TRUE /\ overlooked' = FALSE /\ unprovenSince' = TRUE
    /\ UNCHANGED <<scheduleVars, ownVars, probe, tracker>>

\* Metadata alone changes.
Touch ==
    /\ metadata - head <= MaxTouches
    /\ metadata' = metadata + 1
    /\ UNCHANGED <<scheduleVars, head, ownVars, probe, tracker, historyVars>>

\* The running attempt makes a generation current.
OwnPublish ==
    /\ active.id # NoId /\ wrote = NoToken /\ head < MaxHead
    /\ head' = head + 1 /\ metadata' = metadata + 1
    /\ wrote' = head + 1
    /\ unseen' = FALSE /\ overlooked' = FALSE
    /\ UNCHANGED <<scheduleVars, revision, ownToken, probe, tracker, unprovenSince>>

\* record_owned_durable_publication: nothing for a reused generation.  The
\* token was read under the writer lock, or could not be read.
RecordOwned ==
    /\ wrote' = NoToken
    /\ \/ wrote = NoToken /\ UNCHANGED <<revision, ownToken>>
       \/ /\ wrote # NoToken
          /\ revision' = revision + 1
          /\ ownToken' \in {wrote, NoToken}

\* Calls on the schedule.  The structural stage and an attempt that ends as
\* Published record what was written.  An attempt may also fail, or panic,
\* after its head is in place: nothing is recorded then.  It answers
\* Cancelled only before a stage writes its head.
ScheduleStep ==
    /\ \/ /\ \/ \E initial \in BOOLEAN : EnableWatch(initial)
             \/ DisableWatch
             \/ \E supersede \in BOOLEAN : RequestReconciliation(supersede)
             \/ RequestManual
             \/ \E id \in 1..MaxOps : Cancel(id)
             \/ Shutdown
          /\ UNCHANGED ownVars
          /\ NoteSchedule(FALSE)
       \/ /\ MarkActivePublication \/ Finish("Published")
          /\ RecordOwned
          /\ NoteSchedule(wrote # NoToken /\ ownToken' = NoToken)
       \/ /\ Finish("Cancelled") /\ wrote = NoToken
          /\ UNCHANGED ownVars
          /\ NoteSchedule(FALSE)
       \/ /\ Finish("Failed")
          /\ wrote' = NoToken /\ UNCHANGED <<revision, ownToken>>
          /\ NoteSchedule(wrote # NoToken)
    /\ UNCHANGED <<storeVars, probe, tracker, overlooked>>

-----------------------------------------------------------------------------
(* One probe: snapshot and metadata, control bytes, snapshot again.        *)

OwnAdvanced == revision # tracker.revision
BaselineMissing == tracker.witness = 0
Idle == active.id = NoId /\ desired = published

\* publication_probe_snapshot, then the metadata.  One step: nothing that
\* happens between the two reads is seen by both.  Unchanged metadata, or a
\* moment that is not idle, ends the probe.
ReadWitness ==
    /\ probe.at = "idle"
    /\ OwnAdvanced \/ BaselineMissing \/ tracker.witness # metadata
    /\ BaselineMissing \/ Idle
    /\ probe' = [at |-> "control", snapshot |-> Snapshot, witness |-> metadata, state |-> NoToken]
    /\ UNCHANGED <<scheduleVars, storeVars, ownVars, tracker, historyVars>>

\* The control bytes describe the newest head, or cannot be read.
ReadControl ==
    /\ probe.at = "control"
    /\ \E state \in {head, NoToken} : probe' = [probe EXCEPT !.at = "settle", !.state = state]
    /\ UNCHANGED <<scheduleVars, storeVars, ownVars, tracker, historyVars>>

\* Bug variant: an own publication recorded without a token passes for own.
DriftedTrusting ==
    IF probe.snapshot.revision # tracker.revision
    THEN probe.snapshot.token # NoToken /\ probe.state # probe.snapshot.token
    ELSE ~BaselineMissing /\ probe.state # tracker.state

\* own_publication_advanced: only an exact match with the recorded token is
\* own; otherwise any difference from the last look is drift.
Drifted ==
    IF probe.snapshot.revision # tracker.revision
    THEN probe.state = NoToken \/ probe.state # probe.snapshot.token
    ELSE ~BaselineMissing /\ probe.state # tracker.state

\* History: the first baseline takes whatever is there, and bytes that are as
\* unreadable as at the look before tell nothing.
NoteLook ==
    /\ overlooked' =
          \/ overlooked
          \/ /\ unseen \/ wrote # NoToken
             /\ \/ BaselineMissing /\ probe.state \in {head, NoToken}
                \/ ~OwnAdvanced /\ tracker.state = NoToken /\ probe.state = NoToken
    /\ unprovenSince' =
          IF BaselineMissing THEN unprovenSince \/ (probe.state = NoToken /\ head # NoToken)
          ELSE head # probe.state

\* Bug variant: the local state is not looked at again.
SettleUnchecked ==
    /\ probe.at = "settle"
    /\ tracker' = [revision |-> probe.snapshot.revision, witness |-> probe.witness,
                   state |-> probe.state]
    /\ probe' = IF Drifted THEN [ProbeIdle EXCEPT !.at = "report"] ELSE ProbeIdle
    /\ NoteLook
    /\ UNCHANGED <<scheduleVars, storeVars, ownVars, unseen>>

\* Bug variant: the metadata is remembered as it is after the bytes were read.
SettleLateWitness ==
    /\ probe.at = "settle"
    /\ \/ /\ Snapshot # probe.snapshot
          /\ probe' = ProbeIdle
          /\ UNCHANGED <<tracker, overlooked, unprovenSince>>
       \/ /\ Snapshot = probe.snapshot
          /\ tracker' = [revision |-> probe.snapshot.revision, witness |-> metadata,
                         state |-> probe.state]
          /\ probe' = IF Drifted THEN [ProbeIdle EXCEPT !.at = "report"] ELSE ProbeIdle
          /\ NoteLook
    /\ UNCHANGED <<scheduleVars, storeVars, ownVars, unseen>>

\* Local state that moved during the read: no classification, keep the
\* baseline.  Otherwise classify and remember what was seen.
Settle ==
    /\ probe.at = "settle"
    /\ \/ /\ Snapshot # probe.snapshot
          /\ probe' = ProbeIdle
          /\ UNCHANGED <<tracker, overlooked, unprovenSince>>
       \/ /\ Snapshot = probe.snapshot
          /\ tracker' = [revision |-> probe.snapshot.revision, witness |-> probe.witness,
                         state |-> probe.state]
          /\ probe' = IF Drifted THEN [ProbeIdle EXCEPT !.at = "report"] ELSE ProbeIdle
          /\ NoteLook
    /\ UNCHANGED <<scheduleVars, storeVars, ownVars, unseen>>

\* probe.drifted: request_periodic_reconciliation.
Report ==
    /\ probe.at = "report"
    /\ RequestReconciliation(FALSE)
    /\ NoteSchedule(FALSE)
    /\ probe' = ProbeIdle
    /\ UNCHANGED <<storeVars, ownVars, tracker, overlooked>>

ProbeInit ==
    /\ Init
    /\ head \in 0..1 /\ metadata = head + 1
    /\ wrote = NoToken /\ revision = 0 /\ ownToken = NoToken
    /\ probe = ProbeIdle
    /\ tracker = [revision |-> 0, witness |-> 0, state |-> NoToken]
    /\ unseen = FALSE /\ overlooked = FALSE /\ unprovenSince = FALSE

Probe == ReadWitness \/ ReadControl \/ Settle \/ Report
ProbeNext == ForeignPublish \/ Touch \/ OwnPublish \/ ScheduleStep \/ Probe

ProbeSpec == ProbeInit /\ [][ProbeNext]_vars

-----------------------------------------------------------------------------
(* Properties.                                                             *)

\* The metadata shortcut hides nothing: while an unproven head has been neither
\* observed nor met by an attempt, the tracker's metadata is out of date, or
\* an own publication is still to be compared, or the report is on its way.
\* An own publication whose token could not be read, or whose attempt failed
\* after the head was in place, is unproven too: "A revision without a token is
\* intentionally uncertain and must never suppress drift".  The two exceptions
\* are a head that was there when the tracker took its first baseline, and one
\* that came while the control bytes were unreadable at two looks in a row.
UnprovenHeadNoticed ==
    unseen /\ ~overlooked /\ ~BaselineMissing =>
        \/ tracker.witness # metadata
        \/ tracker.revision # revision
        \/ probe.at = "report"

\* "return drift exactly once for a foreign idle transition": own publications
\* recorded with their token, staged, reused or coalesced, and metadata churn
\* never count as drift; each report has an unproven head since the tracker
\* last looked, or control bytes that could not be read.  The probe that takes
\* the first baseline is left out: it also runs beside an attempt, and then
\* takes a head that attempt has written and not yet recorded for foreign.
OwnNeverLooksForeign ==
    [][probe.at = "settle" /\ probe'.at = "report" /\ ~BaselineMissing
          => unprovenSince \/ probe.state = NoToken]_vars
=============================================================================
