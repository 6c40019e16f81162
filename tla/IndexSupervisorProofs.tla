----------------------- MODULE IndexSupervisorProofs -----------------------
(***************************************************************************)
(* Machine-checked proofs about the supervisor runtime around the          *)
(* scheduling core, for any number of paths, workers and operations, any   *)
(* hint capacity and any number of receipts.                               *)
(***************************************************************************)
EXTENDS IndexSupervisor, FiniteSetTheorems, SequenceTheorems, TLAPS

(* The schedule's lemmas do not depend on the drift probe they are stated  *)
(* beside: what stands for its parameters here is of no importance.        *)
SP == INSTANCE IndexScheduleProofs
          WITH MaxHead <- 0, MaxTouches <- 0, head <- 0, metadata <- 0, wrote <- 0,
               revision <- 0, ownToken <- 0, probe <- 0, tracker <- 0, unseen <- FALSE,
               overlooked <- FALSE, unprovenSince <- FALSE

-----------------------------------------------------------------------------
(* The inductive invariant, in parts that speak of any runtime r, attempt  *)
(* act and queued request pend, so that they can also be stated between    *)
(* two effects of one critical section.                                    *)

ActiveType == [id : Nat, trigger : Schedule!Triggers \cup {"None"}, covered : Nat,
               changeDriven : BOOLEAN, cancel : Schedule!Reasons \cup {"None"}]
Outcomes == {"none", "open"} \cup Schedule!Results

\* The runtime holds that attempt and that queued payload, and no `expect`
\* fired.
Halves(r, act, pend) ==
    /\ r \in RuntimeType /\ ~r.panicked
    /\ r.attempt.id = act.id /\ r.attempt.trigger = act.trigger /\ r.attempt.reason = act.cancel
    /\ act.id = NoId => r.attempt = NoAttempt
    /\ r.payloads = {pend} \ {NoId}

\* What was reported and is not done yet is held, or lent, or flagged as
\* missing; a running attempt is lent what it covers, and what was reported
\* after it started waits for the next one.
HintsHeld(r, act, rep, done) ==
    /\ Cardinality(r.dirty) <= MaxDirtyHints /\ Cardinality(r.attempt.hints) <= MaxDirtyHints
    /\ \A p \in Paths : rep[p] > done =>
          p \in r.dirty \cup r.attempt.hints \/ r.dirtyOverflow \/ r.attempt.overflow
    /\ act.id # NoId => \A p \in Paths : rep[p] > done =>
          IF rep[p] <= act.covered THEN p \in r.attempt.hints \/ r.attempt.overflow
          ELSE p \in r.dirty \/ r.dirtyOverflow

\* A live operation has the receipt it is entitled to, every other receipt is
\* terminal, a receiver is open as long as its request lives and then agrees
\* with the receipt; identities beyond `last` have neither.
TellState(reason) == IF reason = "Superseded" THEN "SupersedeRequested" ELSE "CancelRequested"
LiveReceipt(act, pend, id) ==
    IF id = pend THEN "Queued" ELSE IF act.cancel = "None" THEN "Running" ELSE TellState(act.cancel)

ReceiptTrue(record, answer, act, pend, last, id) ==
    /\ IF id \in {act.id, pend} THEN record = LiveReceipt(act, pend, id)
       ELSE record \in Terminal \cup {NoRecord}
    /\ answer = "open" <=> id = pend \/ (id = act.id /\ act.trigger = "Manual")
    /\ answer \in Schedule!Results => record \in {EndState(answer, "None"), NoRecord}
    /\ id > last => record = NoRecord /\ answer = "none"

ReceiptsTrue(records, out, act, pend, last) ==
    \A id \in Ids : ReceiptTrue(records[id], out[id], act, pend, last, id)

Limit == Schedule!Later(MaxReceipts, 2)

\* What the mutex protects.
SharedInv ==
    /\ Halves(rt, active, pendingManual)
    /\ watchEnabled => rt.watchRequest # "None"
    /\ reported \in [Paths -> 0..desired] /\ settled \in 0..desired
    /\ HintsHeld(rt, active, reported, settled)
    /\ outcome \in [Ids -> Outcomes]
    /\ ReceiptsTrue(rt.records, outcome, active, pendingManual, nextOperationId)
    /\ Cardinality(Recorded(rt.records)) <= Limit

\* An attempt belongs to the one worker that took it, which has noted its
\* identity since; a worker leaves only a supervisor that is shutting down and
\* has nothing to run.
PlaceTrue(place, taken, act, r) ==
    /\ place \in {"top", "sleep", "asleep"} => taken = NoId
    /\ place = "recheck" /\ taken # NoId => taken = act.id /\ r.attempt.started
    /\ place \in Executing => taken # NoId /\ taken = act.id /\ r.attempt.started
    /\ place = "closing" => r.shuttingDown /\ act.id = NoId

Alive(places) == {w \in Workers : places[w] \notin {"none", "notifying"}}

WorkersTrue(places, runs, act, r, running) ==
    /\ places \in [Workers -> Places] /\ runs \in [Workers -> Ids \cup {NoId}]
    /\ IF running THEN \E w \in Workers : Alive(places) = {w} ELSE Alive(places) = {}
    /\ \A w \in Workers : PlaceTrue(places[w], runs[w], act, r)

\* Until then a call or an attempt has a worker, and once shutdown_and_wait
\* has returned there is no attempt.
CallsTrue(calls, wait, act, r, running) ==
    /\ calls \subseteq Callers
    /\ wait \in [place : {"idle", "register", "check", "asleep", "returned"},
                 registered : BOOLEAN, notified : BOOLEAN]
    /\ calls # {} => running \/ r.shuttingDown
    /\ act.id # NoId => running
    /\ wait.place # "idle" => r.shuttingDown
    /\ wait.place = "returned" => act.id = NoId

SupervisorIInv ==
    /\ Schedule!ScheduleInv
    /\ SharedInv
    /\ workerRunning \in BOOLEAN /\ wakePermit \in BOOLEAN
    /\ WorkersTrue(pc, run, active, rt, workerRunning)
    /\ CallsTrue(inCall, waiter, active, rt, workerRunning)

-----------------------------------------------------------------------------
(* The scheduling core inside the supervisor is the one proved about.      *)

LEMMA ScheduleInvIsSP == Schedule!ScheduleInv <=> SP!ScheduleInv
  BY DEF Schedule!ScheduleInv, Schedule!TypeOK, Schedule!EpochsOrdered, Schedule!IdsDistinct,
     Schedule!NeverIdleWithWork, Schedule!QueuedManualPreempts,
     Schedule!ManualCancelledOnlyExplicitly, Schedule!NoId, Schedule!NoActive,
     Schedule!Triggers, Schedule!Reasons, Schedule!Later,
     SP!ScheduleInv, SP!TypeOK, SP!EpochsOrdered, SP!IdsDistinct,
     SP!NeverIdleWithWork, SP!QueuedManualPreempts,
     SP!ManualCancelledOnlyExplicitly, SP!NoId, SP!NoActive,
     SP!Triggers, SP!Reasons, SP!Later

LEMMA ScheduleNextIsSP == Schedule!Next => SP!Next
  BY DEF Schedule!Next, Schedule!EnableWatch, Schedule!DisableWatch,
     Schedule!RequestReconciliation, Schedule!RequestManual, Schedule!Cancel,
     Schedule!MarkActivePublication, Schedule!Finish, Schedule!Shutdown,
     Schedule!ScheduleNext, Schedule!Start, Schedule!RequestActiveCancellation,
     Schedule!NoEffect, Schedule!StartEffect, Schedule!CancelEffect,
     Schedule!CancelQueuedEffect, Schedule!NoId, Schedule!NoActive, Schedule!Results,
     Schedule!Later,
     SP!Next, SP!EnableWatch, SP!DisableWatch,
     SP!RequestReconciliation, SP!RequestManual, SP!Cancel,
     SP!MarkActivePublication, SP!Finish, SP!Shutdown,
     SP!ScheduleNext, SP!Start, SP!RequestActiveCancellation,
     SP!NoEffect, SP!StartEffect, SP!CancelEffect,
     SP!CancelQueuedEffect, SP!NoId, SP!NoActive, SP!Results, SP!Later

(* Its invariant survives every step of its own ...                        *)
LEMMA ScheduleStepInv ==
    Schedule!ScheduleInv /\ [Schedule!Next]_scheduleVars => Schedule!ScheduleInv'
  <1>1. SP!BoundsAssumption
    BY SupervisorAssumption DEF SP!BoundsAssumption
  <1>2. SP!ScheduleInv /\ [SP!Next]_(SP!scheduleVars) => SP!ScheduleInv'
    BY <1>1, SP!StepInv
  <1>3. UNCHANGED scheduleVars => UNCHANGED SP!scheduleVars
    BY DEF scheduleVars, SP!scheduleVars
  <1>4. Schedule!ScheduleInv' <=> SP!ScheduleInv'
    BY ScheduleInvIsSP, PTL
  <1> QED
    BY <1>2, <1>3, <1>4, ScheduleInvIsSP, ScheduleNextIsSP

(* ... and a supervisor step is one or leaves the schedule alone.          *)
LEMMA StepIsScheduleStep == [Next]_vars => [Schedule!Next]_scheduleVars
  <1> SUFFICES ASSUME [Next]_vars PROVE [Schedule!Next]_scheduleVars
    OBVIOUS
  <1>1. CASE Call
    BY <1>1 DEF Call, EnsureWorker, Refuse, StartManual, EnableWatch, DisableWatch,
       ObserveChanges, PeriodicReconciliation, Cancel, Shutdown, Schedule!Next, Ids
  <1>2. CASE Wait
    BY <1>2 DEF Wait, RegisterWaiter, CheckWorker, WakeWaiter
  <1>3. ASSUME NEW w \in Workers, Worker(w) PROVE [Schedule!Next]_scheduleVars
    BY <1>3 DEF Worker, TakeRun, Recheck, Sleep, StructuralPublished, RetainStructural,
       CheckBetweenStages, FinishRun, StopRunning, AnnounceDone, Move, Schedule!Next
  <1>4. CASE UNCHANGED vars
    BY <1>4 DEF vars
  <1> QED
    BY <1>1, <1>2, <1>3, <1>4 DEF Next

(* The runtime drives the schedule through its methods only: it implements *)
(* the specification of the scheduling core.                               *)
THEOREM SupervisorKeepsSchedule == Spec => Schedule!Spec
  <1>1. Init => Schedule!Init
    BY DEF Init
  <1>2. UNCHANGED scheduleVars <=> UNCHANGED Schedule!scheduleVars
    BY DEF scheduleVars, Schedule!scheduleVars
  <1>3. [Next]_vars => [Schedule!Next]_(Schedule!scheduleVars)
    BY <1>2, StepIsScheduleStep
  <1> QED
    BY <1>1, <1>3, PTL DEF Spec, Schedule!Spec

-----------------------------------------------------------------------------
(* What apply_schedule_actions does to the runtime, field by field.        *)

(* trim_records only ever drops terminal receipts.                         *)
LEMMA TrimDropsTerminal ==
    ASSUME NEW records \in [Ids -> RecordStates \cup {NoRecord}]
    PROVE  /\ Trim(records) \in [Ids -> RecordStates \cup {NoRecord}]
           /\ \A id \in Ids :
                Trim(records)[id] # records[id] =>
                    records[id] \in Terminal /\ Trim(records)[id] = NoRecord
  <1> DEFINE ended == {id \in Ids : records[id] \in Terminal}
             dropped == Oldest(ended, Excess(records))
  <1>1. dropped \subseteq ended
    BY DEF Oldest
  <1>2. Trim(records) = [id \in Ids |-> IF id \in dropped THEN NoRecord ELSE records[id]]
    BY DEF Trim, Without
  <1> HIDE DEF dropped
  <1> QED
    BY <1>1, <1>2

LEMMA SetRecordResult ==
    ASSUME NEW records \in [Ids -> RecordStates \cup {NoRecord}], NEW id \in Ids,
           NEW state \in RecordStates
    PROVE  /\ SetRecord(records, id, state) \in [Ids -> RecordStates \cup {NoRecord}]
           /\ \A other \in Ids : SetRecord(records, id, state)[other] =
                 IF other = id /\ records[id] # NoRecord THEN state ELSE records[other]
           /\ Record(records, id, state) \in [Ids -> RecordStates \cup {NoRecord}]
           /\ \A other \in Ids : Record(records, id, state)[other] =
                 IF other = id THEN state ELSE records[other]
  BY DEF SetRecord, Record, Recorded

Told1(r, reason) ==
    [r EXCEPT !.attempt = [r.attempt EXCEPT !.reason = reason],
              !.records = SetRecord(r.records, r.attempt.id, TellState(reason))]

Unqueued1(r, id) ==
    [r EXCEPT !.payloads = r.payloads \ {id}, !.records = SetRecord(r.records, id, "Cancelled")]

Lent(r, id, trigger) ==
    [id |-> id, trigger |-> trigger, hints |-> r.dirty, overflow |-> r.dirtyOverflow,
     request |-> IF trigger = "Manual" THEN "Direct" ELSE r.watchRequest,
     reason |-> "None", started |-> FALSE]
RunningRecords(r, id, trigger) ==
    Trim(IF trigger = "Manual" THEN SetRecord(r.records, id, "Running")
         ELSE Record(r.records, id, "Running"))
Surprised(r, id, trigger) ==
    \/ r.panicked \/ r.attempt # NoAttempt
    \/ trigger = "Manual" /\ id \notin r.payloads
    \/ trigger # "Manual" /\ r.watchRequest = "None"
Began1(r, id, trigger) ==
    [r EXCEPT !.panicked = Surprised(r, id, trigger), !.payloads = r.payloads \ {id},
              !.dirty = {}, !.dirtyOverflow = FALSE, !.attempt = Lent(r, id, trigger),
              !.records = RunningRecords(r, id, trigger)]

States == [rt : RuntimeType, outcome : [Ids -> Outcomes]]

LEMMA TellFields ==
    ASSUME NEW s \in States, NEW reason \in Schedule!Reasons, NEW id \in Ids,
           s.rt.attempt.id = id
    PROVE  LET t == CancelAttempt(s, Schedule!CancelEffect(id, reason))
           IN  /\ t \in States
               /\ t.rt = Told1(s.rt, reason) /\ t.outcome = s.outcome
  <1> DEFINE t == CancelAttempt(s, Schedule!CancelEffect(id, reason))
  <1>1. t.rt = Told1(s.rt, reason) /\ t.outcome = s.outcome
    BY DEF CancelAttempt, Schedule!CancelEffect, States, RuntimeType, Attempts, Told1, TellState
  <1>2. SetRecord(s.rt.records, s.rt.attempt.id, TellState(reason))
          \in [Ids -> RecordStates \cup {NoRecord}]
    BY SetRecordResult DEF RecordStates, States, RuntimeType, TellState
  <1>3. [s.rt.attempt EXCEPT !.reason = reason] \in Attempts
    BY DEF States, RuntimeType, Attempts
  <1>4. Told1(s.rt, reason) \in RuntimeType
    BY <1>2, <1>3 DEF States, RuntimeType, Told1
  <1>5. t \in [rt : {t.rt}, outcome : {t.outcome}]
    BY DEF CancelAttempt, States
  <1> QED
    BY <1>1, <1>4, <1>5 DEF States

LEMMA StartFields ==
    ASSUME NEW s \in States, NEW id \in Ids, NEW trigger \in Schedule!Triggers, NEW epoch
    PROVE  LET t == StartAttempt(s, Schedule!StartEffect(id, trigger, epoch))
           IN  /\ t \in States
               /\ t.rt = Began1(s.rt, id, trigger) /\ t.outcome = s.outcome
  <1> DEFINE t == StartAttempt(s, Schedule!StartEffect(id, trigger, epoch))
  <1>1. t.rt = Began1(s.rt, id, trigger) /\ t.outcome = s.outcome
    BY DEF StartAttempt, Schedule!StartEffect, States, RuntimeType, Began1, Lent, RunningRecords,
       Surprised
  <1>2. RunningRecords(s.rt, id, trigger) \in [Ids -> RecordStates \cup {NoRecord}]
    BY SetRecordResult, TrimDropsTerminal DEF RecordStates, States, RuntimeType, RunningRecords
  <1>3. Lent(s.rt, id, trigger) \in Attempts
    BY DEF States, RuntimeType, Attempts, Schedule!Triggers, Requests, Lent
  <1>4. Surprised(s.rt, id, trigger) \in BOOLEAN
    BY DEF States, RuntimeType, Surprised
  <1>5. Began1(s.rt, id, trigger) \in RuntimeType
    BY <1>2, <1>3, <1>4 DEF States, RuntimeType, Began1
  <1>6. t \in [rt : {t.rt}, outcome : {t.outcome}]
    BY DEF StartAttempt, States
  <1> QED
    BY <1>1, <1>5, <1>6 DEF States

LEMMA UnqueueFields ==
    ASSUME NEW s \in States, NEW id \in s.rt.payloads, NEW reason
    PROVE  LET t == CancelQueued(s, Schedule!CancelQueuedEffect(id, reason))
           IN  /\ t \in States
               /\ t.rt = Unqueued1(s.rt, id) /\ t.outcome = [s.outcome EXCEPT ![id] = "Cancelled"]
  <1> DEFINE t == CancelQueued(s, Schedule!CancelQueuedEffect(id, reason))
  <1>1. t.rt = Unqueued1(s.rt, id) /\ t.outcome = [s.outcome EXCEPT ![id] = "Cancelled"]
    BY DEF CancelQueued, Schedule!CancelQueuedEffect, States, RuntimeType, Unqueued1
  <1>2. SetRecord(s.rt.records, id, "Cancelled") \in [Ids -> RecordStates \cup {NoRecord}]
    BY SetRecordResult DEF RecordStates, Terminal, States, RuntimeType
  <1>3. Unqueued1(s.rt, id) \in RuntimeType
    BY <1>2 DEF States, RuntimeType, Unqueued1
  <1>4. [s.outcome EXCEPT ![id] = "Cancelled"] \in [Ids -> Outcomes]
    BY DEF States, RuntimeType, Outcomes, Schedule!Results
  <1>5. t \in [rt : {t.rt}, outcome : {t.outcome}]
    BY DEF CancelQueued, States
  <1> QED
    BY <1>1, <1>3, <1>4, <1>5 DEF States

-----------------------------------------------------------------------------
(* One step of the schedule, as the runtime sees it: from the attempt `act`*)
(* and the queued request `pend`, with identities up to `last`, to the     *)
(* schedule's next state, with the effects that lead there.                *)

Kept(act, pend, last) ==
    effects' = <<>> /\ active' = act /\ pendingManual' = pend /\ nextOperationId' = last

Told(act, pend, last, reason) ==
    /\ act.id # NoId /\ act.cancel = "None"
    /\ effects' = <<Schedule!CancelEffect(act.id, reason)>>
    /\ active' = [act EXCEPT !.cancel = reason]
    /\ pendingManual' = pend /\ nextOperationId' = last

Began(act, pend, last, id, trigger) ==
    /\ act = Schedule!NoActive /\ id # NoId
    /\ Schedule!Start(id, trigger)
    /\ pendingManual' = NoId
    /\ \/ trigger = "Manual" /\ id = pend /\ nextOperationId' = last
       \/ /\ trigger = "Watch" /\ pend = NoId /\ watchEnabled'
          /\ id = last + 1 /\ last < MaxOps /\ nextOperationId' = last + 1

Unqueued(act, pend, last, reason) ==
    /\ pend # NoId
    /\ effects' = <<Schedule!CancelQueuedEffect(pend, reason)>>
    /\ active' = act /\ pendingManual' = NoId /\ nextOperationId' = last

ToldAndUnqueued(act, pend, last, reason) ==
    /\ act.id # NoId /\ act.cancel = "None" /\ pend # NoId
    /\ effects' = <<Schedule!CancelEffect(act.id, reason), Schedule!CancelQueuedEffect(pend, reason)>>
    /\ active' = [act EXCEPT !.cancel = reason]
    /\ pendingManual' = NoId /\ nextOperationId' = last

Follows(act, pend, last) ==
    \/ Kept(act, pend, last)
    \/ \E reason \in Schedule!Reasons :
          \/ Told(act, pend, last, reason)
          \/ Unqueued(act, pend, last, reason)
          \/ ToldAndUnqueued(act, pend, last, reason)
    \/ \E id \in Nat, trigger \in Schedule!Triggers : Began(act, pend, last, id, trigger)

(* What apply_schedule_actions leaves of the fields no effect is about.    *)
Untouched(r, s) ==
    /\ s.watchRequest = r.watchRequest
    /\ s.shuttingDown = r.shuttingDown

LEMMA KeptApplied ==
    ASSUME NEW r \in RuntimeType, NEW out \in [Ids -> Outcomes], effects' = <<>>
    PROVE  ApplyEffects(r, out).rt = r /\ ApplyEffects(r, out).outcome = out
  BY DEF ApplyEffects

LEMMA OneApplied ==
    ASSUME NEW r, NEW out, NEW e, effects' = <<e>>
    PROVE  ApplyEffects(r, out) = ApplyEffect([rt |-> r, outcome |-> out], e)
  BY DEF ApplyEffects

LEMMA TwoApplied ==
    ASSUME NEW r, NEW out, NEW e, NEW f, effects' = <<e, f>>
    PROVE  ApplyEffects(r, out) = ApplyEffect(ApplyEffect([rt |-> r, outcome |-> out], e), f)
  BY DEF ApplyEffects

LEMMA EffectKinds ==
    ASSUME NEW s, NEW id, NEW x, NEW y
    PROVE  /\ ApplyEffect(s, Schedule!StartEffect(id, x, y)) = StartAttempt(s, Schedule!StartEffect(id, x, y))
           /\ ApplyEffect(s, Schedule!CancelEffect(id, x)) = CancelAttempt(s, Schedule!CancelEffect(id, x))
           /\ ApplyEffect(s, Schedule!CancelQueuedEffect(id, x)) = CancelQueued(s, Schedule!CancelQueuedEffect(id, x))
  BY DEF ApplyEffect, Schedule!StartEffect, Schedule!CancelEffect, Schedule!CancelQueuedEffect

-----------------------------------------------------------------------------
(* The effects of a schedule step, applied to a runtime that holds the     *)
(* attempt and the payload of the state the step starts from.              *)

LEMMA ToldApplied ==
    ASSUME NEW r, NEW out \in [Ids -> Outcomes], NEW act \in ActiveType, NEW pend \in Nat,
           NEW last, NEW reason \in Schedule!Reasons,
           Halves(r, act, pend), Told(act, pend, last, reason)
    PROVE  LET t == ApplyEffects(r, out)
           IN  /\ act.id \in Ids /\ t \in States
               /\ t.rt = Told1(r, reason) /\ t.outcome = out
  <1>1. r \in RuntimeType /\ r.attempt.id = act.id /\ act.id \in Ids
    BY DEF Halves, Told, RuntimeType, Attempts
  <1> DEFINE s == [rt |-> r, outcome |-> out]
  <1>2. ApplyEffects(r, out) = CancelAttempt(s, Schedule!CancelEffect(act.id, reason))
    BY OneApplied, EffectKinds DEF Told
  <1>3. s \in States /\ s.rt = r /\ s.outcome = out
    BY <1>1 DEF States
  <1> HIDE DEF s
  <1> QED
    BY <1>1, <1>2, <1>3, TellFields

LEMMA UnqueuedApplied ==
    ASSUME NEW r, NEW out \in [Ids -> Outcomes], NEW act, NEW pend \in Nat, NEW last,
           NEW reason, Halves(r, act, pend), Unqueued(act, pend, last, reason)
    PROVE  LET t == ApplyEffects(r, out)
           IN  /\ pend \in Ids /\ t \in States
               /\ t.rt = Unqueued1(r, pend) /\ t.outcome = [out EXCEPT ![pend] = "Cancelled"]
  <1>1. r \in RuntimeType /\ pend \in Ids /\ pend \in r.payloads
    BY DEF Halves, Unqueued, RuntimeType
  <1> DEFINE s == [rt |-> r, outcome |-> out]
  <1>2. ApplyEffects(r, out) = CancelQueued(s, Schedule!CancelQueuedEffect(pend, reason))
    BY OneApplied, EffectKinds DEF Unqueued
  <1>3. s \in States /\ s.rt = r /\ s.outcome = out
    BY <1>1 DEF States
  <1> HIDE DEF s
  <1> DEFINE t == CancelQueued(s, Schedule!CancelQueuedEffect(pend, reason))
  <1>4. t \in States /\ t.rt = Unqueued1(r, pend) /\ t.outcome = [out EXCEPT ![pend] = "Cancelled"]
    <2>1. pend \in s.rt.payloads
      BY <1>1, <1>3
    <2>2. /\ t \in States
          /\ t.rt = Unqueued1(s.rt, pend) /\ t.outcome = [s.outcome EXCEPT ![pend] = "Cancelled"]
      BY <1>3, <2>1, UnqueueFields
    <2> QED
      BY <1>3, <2>2
  <1> QED
    BY <1>1, <1>2, <1>4

BothDone(t, r, out, act, pend, reason) ==
    /\ act.id \in Ids /\ pend \in Ids /\ t \in States
    /\ Told1(r, reason) \in RuntimeType
    /\ t.rt = Unqueued1(Told1(r, reason), pend)
    /\ t.outcome = [out EXCEPT ![pend] = "Cancelled"]

LEMMA ToldAndUnqueuedApplied ==
    ASSUME NEW r, NEW out \in [Ids -> Outcomes], NEW act \in ActiveType, NEW pend \in Nat,
           NEW last, NEW reason \in Schedule!Reasons, Halves(r, act, pend),
           ToldAndUnqueued(act, pend, last, reason)
    PROVE  BothDone(ApplyEffects(r, out), r, out, act, pend, reason)
  <1>1. /\ r \in RuntimeType /\ r.attempt.id = act.id /\ act.id \in Ids
        /\ pend \in Ids /\ pend \in r.payloads
    BY DEF Halves, ToldAndUnqueued, RuntimeType, Attempts
  <1> DEFINE s == [rt |-> r, outcome |-> out]
             u == CancelAttempt(s, Schedule!CancelEffect(act.id, reason))
  <1>2. ApplyEffects(r, out) = CancelQueued(u, Schedule!CancelQueuedEffect(pend, reason))
    BY TwoApplied, EffectKinds DEF ToldAndUnqueued
  <1> HIDE DEF u
  <1>3. s \in States /\ s.rt = r /\ s.outcome = out
    BY <1>1 DEF States
  <1> HIDE DEF s
  <1>4. u \in States /\ u.rt = Told1(r, reason) /\ u.outcome = out
    BY <1>1, <1>3, TellFields DEF u
  <1>5. Told1(r, reason).payloads = r.payloads
    BY <1>1 DEF RuntimeType, Told1
  <1>6. Told1(r, reason) \in RuntimeType
    BY <1>4 DEF States
  <1> DEFINE t == CancelQueued(u, Schedule!CancelQueuedEffect(pend, reason))
  <1>7. /\ t \in States /\ t.rt = Unqueued1(Told1(r, reason), pend)
        /\ t.outcome = [out EXCEPT ![pend] = "Cancelled"]
    <2>1. pend \in u.rt.payloads
      BY <1>1, <1>4, <1>5
    <2>2. /\ t \in States
          /\ t.rt = Unqueued1(u.rt, pend) /\ t.outcome = [u.outcome EXCEPT ![pend] = "Cancelled"]
      BY <1>4, <2>1, UnqueueFields
    <2> QED
      BY <1>4, <2>2
  <1> QED
    BY <1>1, <1>2, <1>6, <1>7 DEF BothDone

BeginningDone(t, r, out, id, trigger) ==
    /\ id \in Ids /\ t \in States
    /\ t.rt = Began1(r, id, trigger) /\ t.outcome = out
    /\ Surprised(r, id, trigger) = FALSE /\ r.payloads \ {id} = {}

LEMMA BeganApplied ==
    ASSUME NEW r, NEW out \in [Ids -> Outcomes], NEW act, NEW pend \in Nat, NEW last \in Nat,
           NEW id \in Nat, NEW trigger \in Schedule!Triggers,
           Halves(r, act, pend), Began(act, pend, last, id, trigger),
           watchEnabled' => r.watchRequest # "None"
    PROVE  BeginningDone(ApplyEffects(r, out), r, out, id, trigger)
  <1>1. /\ r \in RuntimeType /\ r.attempt = NoAttempt /\ ~r.panicked
        /\ trigger = "Manual" => id = pend
        /\ trigger # "Manual" => /\ pend = NoId /\ id = last + 1 /\ last < MaxOps
                                 /\ r.watchRequest # "None"
    BY DEF Halves, Began, Schedule!NoActive, NoId
  <1>2. id \in Ids /\ r.payloads \ {id} = {} /\ (trigger = "Manual" => id \in r.payloads)
    <2>1. CASE trigger = "Manual"
      BY <1>1, <2>1 DEF Halves, Began, RuntimeType
    <2>2. CASE trigger # "Manual"
      BY <1>1, <2>2, SupervisorAssumption DEF Halves, Began, Ids
    <2> QED
      BY <2>1, <2>2
  <1> DEFINE s == [rt |-> r, outcome |-> out]
  <1>3. ApplyEffects(r, out) = StartAttempt(s, Schedule!StartEffect(id, trigger, desired'))
    BY OneApplied, EffectKinds DEF Began, Schedule!Start
  <1>4. Surprised(r, id, trigger) = FALSE
    BY <1>1, <1>2 DEF Surprised
  <1>5. s \in States /\ s.rt = r /\ s.outcome = out
    BY <1>1 DEF States
  <1> HIDE DEF s
  <1> QED
    BY <1>1, <1>2, <1>3, <1>4, <1>5, StartFields DEF BeginningDone

(* The two halves stay in step: the runtime that comes out holds the       *)
(* attempt and the payload of the schedule's next state, and no `expect`   *)
(* fired.  An attempt that runs is not restarted.                          *)
LEMMA HalvesFollow ==
    ASSUME NEW r, NEW out \in [Ids -> Outcomes], NEW act \in ActiveType, NEW pend \in Nat,
           NEW last \in Nat, Halves(r, act, pend), Follows(act, pend, last),
           watchEnabled' => r.watchRequest # "None"
    PROVE  LET t == ApplyEffects(r, out)
           IN  /\ t \in States
               /\ Halves(t.rt, active', pendingManual')
               /\ Untouched(r, t.rt)
               /\ act.id # NoId => /\ active'.id = act.id
                                   /\ t.rt.attempt.started = r.attempt.started
  <1> DEFINE t == ApplyEffects(r, out)
             Goal == /\ t \in States
                     /\ Halves(t.rt, active', pendingManual')
                     /\ Untouched(r, t.rt)
                     /\ act.id # NoId => /\ active'.id = act.id
                                         /\ t.rt.attempt.started = r.attempt.started
  <1> SUFFICES Goal
    OBVIOUS
  <1>1. CASE Kept(act, pend, last)
    <2>1. t.rt = r /\ t.outcome = out
      BY <1>1, KeptApplied DEF Kept, Halves
    <2>2. t \in States
      BY <1>1 DEF Kept, ApplyEffects, States, Halves
    <2> HIDE DEF t
    <2>3. active' = act /\ pendingManual' = pend
      BY <1>1 DEF Kept
    <2>4. Untouched(r, r)
      BY DEF Untouched
    <2> QED
      BY <2>1, <2>2, <2>3, <2>4
  <1>2. ASSUME NEW reason \in Schedule!Reasons, Told(act, pend, last, reason) PROVE Goal
    <2>1. /\ act.id \in Ids /\ t \in States
          /\ t.rt = Told1(r, reason) /\ t.outcome = out
      BY <1>2, ToldApplied
    <2> HIDE DEF t
    <2>2. Told1(r, reason) \in RuntimeType
      BY <2>1 DEF States
    <2>3. /\ Told1(r, reason).attempt = [r.attempt EXCEPT !.reason = reason]
          /\ Told1(r, reason).payloads = r.payloads /\ Told1(r, reason).panicked = r.panicked
          /\ Untouched(r, Told1(r, reason))
      BY DEF Halves, RuntimeType, Told1, Untouched
    <2>4. /\ active'.id = act.id /\ active'.trigger = act.trigger /\ active'.cancel = reason
          /\ pendingManual' = pend
      BY <1>2 DEF Told, ActiveType
    <2>5. /\ [r.attempt EXCEPT !.reason = reason].id = r.attempt.id
          /\ [r.attempt EXCEPT !.reason = reason].trigger = r.attempt.trigger
          /\ [r.attempt EXCEPT !.reason = reason].reason = reason
          /\ [r.attempt EXCEPT !.reason = reason].started = r.attempt.started
      BY DEF Halves, RuntimeType, Attempts
    <2> HIDE DEF Told1
    <2> QED
      BY <1>2, <2>1, <2>2, <2>3, <2>4, <2>5 DEF Halves, Told
  <1>3. ASSUME NEW reason \in Schedule!Reasons, Unqueued(act, pend, last, reason) PROVE Goal
    <2>1. pend \in Ids /\ t \in States /\ t.rt = Unqueued1(r, pend)
      BY <1>3, UnqueuedApplied
    <2> HIDE DEF t
    <2>2. /\ Unqueued1(r, pend).attempt = r.attempt
          /\ Unqueued1(r, pend).payloads = r.payloads \ {pend}
          /\ Unqueued1(r, pend).panicked = r.panicked
          /\ Untouched(r, Unqueued1(r, pend))
      BY DEF Halves, RuntimeType, Unqueued1, Untouched
    <2> QED
      BY <1>3, <2>1, <2>2 DEF Halves, Unqueued, States
  <1>4. ASSUME NEW reason \in Schedule!Reasons, ToldAndUnqueued(act, pend, last, reason) PROVE Goal
    <2> DEFINE told == Told1(r, reason)
    <2>1. /\ act.id \in Ids /\ pend \in Ids /\ t \in States /\ told \in RuntimeType
          /\ t.rt = Unqueued1(told, pend)
      <3>1. BothDone(t, r, out, act, pend, reason)
        BY <1>4, ToldAndUnqueuedApplied
      <3> QED
        BY <3>1 DEF BothDone
    <2> HIDE DEF t
    <2>2. /\ told.attempt = [r.attempt EXCEPT !.reason = reason]
          /\ told.payloads = r.payloads /\ told.panicked = r.panicked
          /\ Untouched(r, told)
      BY DEF Halves, RuntimeType, Told1, Untouched
    <2>3. /\ active'.id = act.id /\ active'.trigger = act.trigger /\ active'.cancel = reason
          /\ pendingManual' = NoId
      BY <1>4 DEF ToldAndUnqueued, ActiveType
    <2>4. /\ [r.attempt EXCEPT !.reason = reason].id = r.attempt.id
          /\ [r.attempt EXCEPT !.reason = reason].trigger = r.attempt.trigger
          /\ [r.attempt EXCEPT !.reason = reason].reason = reason
          /\ [r.attempt EXCEPT !.reason = reason].started = r.attempt.started
      BY DEF Halves, RuntimeType, Attempts
    <2> HIDE DEF told
    <2>5. /\ Unqueued1(told, pend).attempt = told.attempt
          /\ Unqueued1(told, pend).payloads = told.payloads \ {pend}
          /\ Unqueued1(told, pend).panicked = told.panicked
          /\ Untouched(told, Unqueued1(told, pend))
      BY <2>1 DEF RuntimeType, Unqueued1, Untouched
    <2>6. Unqueued1(told, pend) \in RuntimeType
      BY <2>1 DEF States
    <2>7. Untouched(r, Unqueued1(told, pend))
      BY <2>2, <2>5 DEF Untouched
    <2> QED
      BY <1>4, <2>1, <2>2, <2>3, <2>4, <2>5, <2>6, <2>7 DEF Halves, ToldAndUnqueued
  <1>5. ASSUME NEW id \in Nat, NEW trigger \in Schedule!Triggers, Began(act, pend, last, id, trigger)
        PROVE  Goal
    <2> DEFINE b == Began1(r, id, trigger)
    <2>1. /\ id \in Ids /\ t \in States /\ t.rt = b
          /\ Surprised(r, id, trigger) = FALSE /\ r.payloads \ {id} = {}
      <3>1. BeginningDone(t, r, out, id, trigger)
        BY <1>5, BeganApplied
      <3> QED
        BY <3>1 DEF BeginningDone
    <2> HIDE DEF t
    <2>2. /\ b.attempt = Lent(r, id, trigger) /\ b.payloads = r.payloads \ {id}
          /\ b.panicked = Surprised(r, id, trigger) /\ Untouched(r, b)
      BY DEF Halves, RuntimeType, Began1, Untouched
    <2>3. /\ active'.id = id /\ active'.trigger = trigger /\ active'.cancel = "None"
          /\ pendingManual' = NoId /\ act.id = NoId /\ id # NoId
      BY <1>5 DEF Began, Schedule!Start, Schedule!NoActive, NoId
    <2> HIDE DEF b
    <2> QED
      BY <2>1, <2>2, <2>3 DEF Halves, Lent, States
  <1> QED
    BY <1>1, <1>2, <1>3, <1>4, <1>5 DEF Follows

SameHints(r, s) ==
    /\ s.dirty = r.dirty /\ s.dirtyOverflow = r.dirtyOverflow
    /\ s.attempt.hints = r.attempt.hints /\ s.attempt.overflow = r.attempt.overflow

LEMMA ToldHints ==
    ASSUME NEW r \in RuntimeType, NEW reason
    PROVE  SameHints(r, Told1(r, reason))
  <1>1. /\ Told1(r, reason).attempt = [r.attempt EXCEPT !.reason = reason]
        /\ Told1(r, reason).dirty = r.dirty
        /\ Told1(r, reason).dirtyOverflow = r.dirtyOverflow
    BY DEF RuntimeType, Told1
  <1>2. /\ [r.attempt EXCEPT !.reason = reason].hints = r.attempt.hints
        /\ [r.attempt EXCEPT !.reason = reason].overflow = r.attempt.overflow
    BY DEF RuntimeType, Attempts
  <1> QED
    BY <1>1, <1>2 DEF SameHints

LEMMA UnqueuedHints ==
    ASSUME NEW r \in RuntimeType, NEW id
    PROVE  SameHints(r, Unqueued1(r, id))
  BY DEF RuntimeType, Unqueued1, SameHints

(* No effect loses a hint: Start lends all of them to an attempt that      *)
(* covers everything reported, and the others leave them alone.            *)
LEMMA HintsFollow ==
    ASSUME NEW r, NEW out \in [Ids -> Outcomes], NEW act \in ActiveType, NEW pend \in Nat,
           NEW last \in Nat, Halves(r, act, pend), Follows(act, pend, last),
           watchEnabled' => r.watchRequest # "None",
           desired' \in Nat, NEW rep \in [Paths -> 0..desired'], NEW done \in Nat,
           HintsHeld(r, act, rep, done)
    PROVE  HintsHeld(ApplyEffects(r, out).rt, active', rep, done)
  <1> DEFINE t == ApplyEffects(r, out).rt
  <1> SUFFICES HintsHeld(t, active', rep, done)
    OBVIOUS
  <1>1. r \in RuntimeType
    BY DEF Halves
  <1>2. ASSUME SameHints(r, t), active'.id = act.id, active'.covered = act.covered
        PROVE  HintsHeld(t, active', rep, done)
    <2> HIDE DEF t
    <2> QED
      BY <1>2 DEF HintsHeld, SameHints
  <1>3. CASE Kept(act, pend, last)
    <2>1. t = r
      BY <1>1, <1>3, KeptApplied DEF Kept
    <2>2. active' = act
      BY <1>3 DEF Kept
    <2> HIDE DEF t
    <2> QED
      BY <1>2, <2>1, <2>2 DEF SameHints
  <1>4. ASSUME NEW reason \in Schedule!Reasons, Told(act, pend, last, reason)
        PROVE  HintsHeld(t, active', rep, done)
    <2>1. t = Told1(r, reason)
      BY <1>4, ToldApplied
    <2>2. active'.id = act.id /\ active'.covered = act.covered
      BY <1>4 DEF Told, ActiveType
    <2> HIDE DEF t
    <2> QED
      BY <1>1, <1>2, <2>1, <2>2, ToldHints
  <1>5. ASSUME NEW reason \in Schedule!Reasons, Unqueued(act, pend, last, reason)
        PROVE  HintsHeld(t, active', rep, done)
    <2>1. t = Unqueued1(r, pend)
      BY <1>5, UnqueuedApplied
    <2>2. active' = act
      BY <1>5 DEF Unqueued
    <2> HIDE DEF t
    <2> QED
      BY <1>1, <1>2, <2>1, <2>2, UnqueuedHints
  <1>6. ASSUME NEW reason \in Schedule!Reasons, ToldAndUnqueued(act, pend, last, reason)
        PROVE  HintsHeld(t, active', rep, done)
    <2>1. /\ t = Unqueued1(Told1(r, reason), pend)
          /\ Told1(r, reason) \in RuntimeType
      <3>1. BothDone(ApplyEffects(r, out), r, out, act, pend, reason)
        BY <1>6, ToldAndUnqueuedApplied
      <3> QED
        BY <3>1 DEF BothDone
    <2>2. active'.id = act.id /\ active'.covered = act.covered
      BY <1>6 DEF ToldAndUnqueued, ActiveType
    <2> HIDE DEF t
    <2>3. SameHints(r, t)
      BY <1>1, <2>1, ToldHints, UnqueuedHints DEF SameHints
    <2> QED
      BY <1>2, <2>2, <2>3
  <1>7. ASSUME NEW id \in Nat, NEW trigger \in Schedule!Triggers, Began(act, pend, last, id, trigger)
        PROVE  HintsHeld(t, active', rep, done)
    <2>1. t = Began1(r, id, trigger)
      <3>1. BeginningDone(ApplyEffects(r, out), r, out, id, trigger)
        BY <1>7, BeganApplied
      <3> QED
        BY <3>1 DEF BeginningDone
    <2> HIDE DEF t
    <2>2. /\ t.dirty = {} /\ ~t.dirtyOverflow /\ t.attempt = Lent(r, id, trigger)
      BY <1>1, <2>1 DEF RuntimeType, Began1
    <2>3. t.attempt.hints = r.dirty /\ t.attempt.overflow = r.dirtyOverflow
      BY <2>2 DEF Lent
    <2>4. active'.covered = desired'
      BY <1>7 DEF Began, Schedule!Start
    <2>5. r.attempt = NoAttempt
      BY <1>7 DEF Began, Halves, Schedule!NoActive, NoId
    <2>6. Cardinality({}) = 0
      BY FS_EmptySet
    <2> QED
      BY <2>2, <2>3, <2>4, <2>5, <2>6, SupervisorAssumption DEF HintsHeld, NoAttempt
  <1> QED
    BY <1>3, <1>4, <1>5, <1>6, <1>7 DEF Follows

(* Dropping terminal receipts keeps it.                                    *)
LEMMA TrimKeepsTruth ==
    ASSUME NEW records \in [Ids -> RecordStates \cup {NoRecord}], NEW out, NEW act, NEW pend,
           NEW last, ReceiptsTrue(records, out, act, pend, last)
    PROVE  ReceiptsTrue(Trim(records), out, act, pend, last)
  <1> SUFFICES ASSUME NEW id \in Ids
               PROVE  ReceiptTrue(Trim(records)[id], out[id], act, pend, last, id)
    BY DEF ReceiptsTrue
  <1>1. ReceiptTrue(records[id], out[id], act, pend, last, id)
    BY DEF ReceiptsTrue
  <1>2. Trim(records)[id] # records[id] => records[id] \in Terminal /\ Trim(records)[id] = NoRecord
    BY TrimDropsTerminal
  <1>3. LiveReceipt(act, pend, id) \notin Terminal
    BY DEF LiveReceipt, TellState, Terminal
  <1> QED
    BY <1>1, <1>2, <1>3 DEF ReceiptTrue

(* Each effect keeps it, with the schedule's side of the effect.           *)
LEMMA ToldReceipts ==
    ASSUME NEW records \in [Ids -> RecordStates \cup {NoRecord}], NEW out,
           NEW act \in ActiveType, NEW pend, NEW last, NEW reason \in Schedule!Reasons,
           act.id \in Ids, act.cancel = "None", pend # act.id,
           ReceiptsTrue(records, out, act, pend, last)
    PROVE  ReceiptsTrue(SetRecord(records, act.id, TellState(reason)), out,
                        [act EXCEPT !.cancel = reason], pend, last)
  <1> DEFINE new == [act EXCEPT !.cancel = reason]
             after == SetRecord(records, act.id, TellState(reason))
  <1>1. new.id = act.id /\ new.trigger = act.trigger /\ new.cancel = reason
    BY DEF ActiveType
  <1> SUFFICES ASSUME NEW id \in Ids
               PROVE  ReceiptTrue(after[id], out[id], new, pend, last, id)
    BY DEF ReceiptsTrue
  <1>2. TellState(reason) \in RecordStates
    BY DEF TellState, RecordStates
  <1>3. after[id] = IF id = act.id /\ records[id] # NoRecord THEN TellState(reason) ELSE records[id]
    BY <1>2, SetRecordResult
  <1> HIDE DEF new, after
  <1>4. ReceiptTrue(records[id], out[id], act, pend, last, id)
    BY DEF ReceiptsTrue
  <1>5. reason # "None"
    BY DEF Schedule!Reasons
  <1>6. CASE id = act.id
    <2>1. records[id] = "Running"
      BY <1>4, <1>6 DEF ReceiptTrue, LiveReceipt
    <2>2. after[id] = LiveReceipt(new, pend, id)
      BY <1>1, <1>3, <1>5, <1>6, <2>1 DEF LiveReceipt, NoRecord
    <2>3. out[id] \notin Schedule!Results
      BY <1>4, <2>1 DEF ReceiptTrue, EndState, Schedule!Results, NoRecord
    <2> QED
      BY <1>1, <1>4, <1>6, <2>1, <2>2, <2>3 DEF ReceiptTrue, NoRecord
  <1>7. CASE id # act.id
    BY <1>1, <1>3, <1>4, <1>7 DEF ReceiptTrue, LiveReceipt
  <1> QED
    BY <1>6, <1>7

LEMMA UnqueuedReceipts ==
    ASSUME NEW records \in [Ids -> RecordStates \cup {NoRecord}], NEW out \in [Ids -> Outcomes],
           NEW act \in ActiveType, NEW pend \in Ids, NEW last, pend # act.id,
           ReceiptsTrue(records, out, act, pend, last)
    PROVE  ReceiptsTrue(SetRecord(records, pend, "Cancelled"), [out EXCEPT ![pend] = "Cancelled"],
                        act, NoId, last)
  <1> DEFINE after == SetRecord(records, pend, "Cancelled")
             answered == [out EXCEPT ![pend] = "Cancelled"]
  <1> SUFFICES ASSUME NEW id \in Ids
               PROVE  ReceiptTrue(after[id], answered[id], act, NoId, last, id)
    BY DEF ReceiptsTrue
  <1>1. after[id] = IF id = pend /\ records[id] # NoRecord THEN "Cancelled" ELSE records[id]
    BY SetRecordResult DEF RecordStates, Terminal
  <1>2. answered[id] = IF id = pend THEN "Cancelled" ELSE out[id]
    OBVIOUS
  <1> HIDE DEF answered, after
  <1>3. ReceiptTrue(records[id], out[id], act, pend, last, id)
    BY DEF ReceiptsTrue
  <1>4. id # NoId
    BY SupervisorAssumption DEF Ids, NoId, Schedule!NoId
  <1>5. CASE id = pend
    <2>1. records[id] = "Queued"
      BY <1>3, <1>5 DEF ReceiptTrue, LiveReceipt
    <2>2. EndState("Cancelled", "None") = "Cancelled"
      BY DEF EndState
    <2> QED
      BY <1>1, <1>2, <1>3, <1>4, <1>5, <2>1, <2>2 DEF ReceiptTrue, NoRecord, Terminal
  <1>6. CASE id # pend
    BY <1>1, <1>2, <1>3, <1>4, <1>6 DEF ReceiptTrue, LiveReceipt
  <1> QED
    BY <1>5, <1>6

LEMMA BeganReceipts ==
    ASSUME NEW records \in [Ids -> RecordStates \cup {NoRecord}], NEW out,
           NEW pend \in Nat, NEW last \in Nat, NEW id \in Ids, NEW trigger \in Schedule!Triggers,
           NEW new \in ActiveType, NEW newLast \in Nat,
           new.id = id, new.trigger = trigger, new.cancel = "None",
           \/ trigger = "Manual" /\ id = pend /\ newLast = last
           \/ trigger = "Watch" /\ pend = NoId /\ id = last + 1 /\ newLast = last + 1,
           ReceiptsTrue(records, out, Schedule!NoActive, pend, last)
    PROVE  ReceiptsTrue(IF trigger = "Manual" THEN SetRecord(records, id, "Running")
                        ELSE Record(records, id, "Running"), out, new, NoId, newLast)
  <1> DEFINE after == IF trigger = "Manual" THEN SetRecord(records, id, "Running")
                      ELSE Record(records, id, "Running")
  <1> SUFFICES ASSUME NEW i \in Ids
               PROVE  ReceiptTrue(after[i], out[i], new, NoId, newLast, i)
    BY DEF ReceiptsTrue
  <1>1. ReceiptTrue(records[i], out[i], Schedule!NoActive, pend, last, i)
    BY DEF ReceiptsTrue
  <1>2. i # NoId /\ i \in Nat
    BY SupervisorAssumption DEF Ids, NoId, Schedule!NoId
  <1>3. CASE trigger = "Manual"
    <2>1. after[i] = IF i = id /\ records[i] # NoRecord THEN "Running" ELSE records[i]
      BY <1>3, SetRecordResult DEF RecordStates
    <2> HIDE DEF after
    <2>2. CASE i = id
      <3>1. records[i] = "Queued"
        BY <1>1, <1>3, <2>2 DEF ReceiptTrue, LiveReceipt
      <3>2. out[i] = "open"
        BY <1>1, <1>3, <2>2 DEF ReceiptTrue
      <3> QED
        BY <1>1, <1>2, <1>3, <2>1, <2>2, <3>1, <3>2
           DEF ReceiptTrue, LiveReceipt, NoRecord, Schedule!Results
    <2>3. CASE i # id
      BY <1>1, <1>2, <1>3, <2>1, <2>3 DEF ReceiptTrue, Schedule!NoActive, Schedule!NoId, NoId
    <2> QED
      BY <2>2, <2>3
  <1>4. CASE trigger = "Watch"
    <2>1. after[i] = IF i = id THEN "Running" ELSE records[i]
      BY <1>4, SetRecordResult DEF RecordStates
    <2> HIDE DEF after
    <2>2. CASE i = id
      BY <1>1, <1>2, <1>4, <2>1, <2>2 DEF ReceiptTrue, LiveReceipt, NoRecord, Schedule!Results
    <2>3. CASE i # id
      BY <1>1, <1>2, <1>4, <2>1, <2>3 DEF ReceiptTrue, Schedule!NoActive, Schedule!NoId, NoId
    <2> QED
      BY <2>2, <2>3
  <1> QED
    BY <1>3, <1>4 DEF Schedule!Triggers

LEMMA ReceiptsFollow ==
    ASSUME NEW r, NEW out \in [Ids -> Outcomes], NEW act \in ActiveType, NEW pend \in Nat,
           NEW last \in Nat, Halves(r, act, pend), Follows(act, pend, last),
           watchEnabled' => r.watchRequest # "None", active' \in ActiveType,
           pend # NoId => pend # act.id,
           ReceiptsTrue(r.records, out, act, pend, last)
    PROVE  ReceiptsTrue(ApplyEffects(r, out).rt.records, ApplyEffects(r, out).outcome,
                        active', pendingManual', nextOperationId')
  <1> DEFINE t == ApplyEffects(r, out)
             Goal == ReceiptsTrue(t.rt.records, t.outcome, active', pendingManual', nextOperationId')
  <1> SUFFICES Goal
    OBVIOUS
  <1>1. r \in RuntimeType /\ r.records \in [Ids -> RecordStates \cup {NoRecord}]
    BY DEF Halves, RuntimeType
  <1>2. CASE Kept(act, pend, last)
    BY <1>1, <1>2, KeptApplied DEF Kept
  <1>3. ASSUME NEW reason \in Schedule!Reasons, Told(act, pend, last, reason) PROVE Goal
    <2>1. act.id \in Ids /\ t.rt = Told1(r, reason) /\ t.outcome = out
      BY <1>3, ToldApplied
    <2> HIDE DEF t
    <2>2. t.rt.records = SetRecord(r.records, act.id, TellState(reason))
      BY <1>1, <2>1 DEF Told1, RuntimeType, Halves
    <2>3. /\ active' = [act EXCEPT !.cancel = reason] /\ pendingManual' = pend
          /\ nextOperationId' = last /\ act.cancel = "None" /\ act.id # NoId
      BY <1>3 DEF Told
    <2>4. act.id # pend
      BY <2>3
    <2> QED
      BY <1>1, <2>1, <2>2, <2>3, <2>4, ToldReceipts
  <1>4. ASSUME NEW reason \in Schedule!Reasons, Unqueued(act, pend, last, reason) PROVE Goal
    <2>1. /\ pend \in Ids /\ t \in States
          /\ t.rt = Unqueued1(r, pend) /\ t.outcome = [out EXCEPT ![pend] = "Cancelled"]
      BY ZenonT(60), <1>4, UnqueuedApplied
    <2> HIDE DEF t
    <2>2. t.rt.records = SetRecord(r.records, pend, "Cancelled")
      BY <1>1, <2>1 DEF Unqueued1, RuntimeType
    <2>3. active' = act /\ pendingManual' = NoId /\ nextOperationId' = last /\ pend # NoId
      BY <1>4 DEF Unqueued
    <2>4. ReceiptsTrue(SetRecord(r.records, pend, "Cancelled"), [out EXCEPT ![pend] = "Cancelled"],
                       act, NoId, last)
      BY <1>1, <2>1, <2>3, UnqueuedReceipts
    <2> QED
      BY <2>1, <2>2, <2>3, <2>4
  <1>5. ASSUME NEW reason \in Schedule!Reasons, ToldAndUnqueued(act, pend, last, reason) PROVE Goal
    <2>1. BothDone(t, r, out, act, pend, reason)
      BY <1>5, ToldAndUnqueuedApplied
    <2> HIDE DEF t
    <2> DEFINE between == SetRecord(r.records, act.id, TellState(reason))
    <2>2. t.rt.records = SetRecord(between, pend, "Cancelled")
      BY <1>1, <2>1 DEF BothDone, Unqueued1, Told1, RuntimeType, Halves
    <2>3. /\ active' = [act EXCEPT !.cancel = reason] /\ pendingManual' = NoId
          /\ nextOperationId' = last /\ act.cancel = "None" /\ act.id # pend
          /\ act.id \in Ids /\ pend \in Ids
      BY <1>5, <2>1 DEF ToldAndUnqueued, BothDone
    <2>4. ReceiptsTrue(between, out, active', pend, last)
      BY <1>1, <2>3, ToldReceipts
    <2>5. between \in [Ids -> RecordStates \cup {NoRecord}]
      BY <1>1, <2>3, SetRecordResult DEF TellState, RecordStates
    <2>6. active'.id = act.id
      BY <2>3 DEF ActiveType
    <2> HIDE DEF between
    <2>7. ReceiptsTrue(SetRecord(between, pend, "Cancelled"), [out EXCEPT ![pend] = "Cancelled"],
                       active', NoId, last)
      BY <2>3, <2>4, <2>5, <2>6, UnqueuedReceipts
    <2> QED
      BY <2>1, <2>2, <2>3, <2>7 DEF BothDone
  <1>6. ASSUME NEW id \in Nat, NEW trigger \in Schedule!Triggers, Began(act, pend, last, id, trigger)
        PROVE  Goal
    <2>1. BeginningDone(t, r, out, id, trigger)
      BY <1>6, BeganApplied
    <2> HIDE DEF t
    <2> DEFINE running == IF trigger = "Manual" THEN SetRecord(r.records, id, "Running")
                          ELSE Record(r.records, id, "Running")
    <2>2. t.rt.records = Trim(running) /\ t.outcome = out /\ id \in Ids
      BY <1>1, <2>1 DEF BeginningDone, Began1, RunningRecords, RuntimeType
    <2>3. /\ act = Schedule!NoActive /\ pendingManual' = NoId
          /\ active'.id = id /\ active'.trigger = trigger /\ active'.cancel = "None"
          /\ \/ trigger = "Manual" /\ id = pend /\ nextOperationId' = last
             \/ trigger = "Watch" /\ pend = NoId /\ id = last + 1 /\ nextOperationId' = last + 1
          /\ nextOperationId' \in Nat
      BY <1>6 DEF Began, Schedule!Start
    <2>4. running \in [Ids -> RecordStates \cup {NoRecord}]
      BY <1>1, <2>2, SetRecordResult DEF RecordStates
    <2>5. ReceiptsTrue(running, out, active', NoId, nextOperationId')
      BY <1>1, <2>2, <2>3, BeganReceipts
    <2> HIDE DEF running
    <2> QED
      BY <2>2, <2>3, <2>4, <2>5, TrimKeepsTruth
  <1> QED
    BY <1>2, <1>3, <1>4, <1>5, <1>6 DEF Follows

-----------------------------------------------------------------------------
(* The receipts stay within their limit.                                   *)

Live(records) == {id \in Ids : records[id] \notin Terminal \cup {NoRecord}}

LEMMA IdsFinite == IsFiniteSet(Ids) /\ Ids \subseteq Nat
  <1>1. MaxOps \in Nat
    BY SupervisorAssumption
  <1> QED
    BY <1>1, FS_Interval DEF Ids

(* Every non-empty set of identities has an oldest one.                    *)
LEMMA OldestExists ==
    ASSUME NEW ids \in SUBSET Ids, ids # {}
    PROVE  \E oldest \in ids : \A id \in ids : oldest <= id
  <1> DEFINE upTo == {1..id : id \in ids}
  <1>1. IsWellFoundedOn(StrictSubsetOrdering(Nat), FiniteSubsetsOf(Nat))
    BY FS_StrictSubsetOrderingWellFounded
  <1>2. upTo \subseteq FiniteSubsetsOf(Nat) /\ upTo # {}
    <2>1. ASSUME NEW id \in ids PROVE 1..id \in FiniteSubsetsOf(Nat)
      <3>1. id \in Int
        BY IdsFinite
      <3>2. IsFiniteSet(1..id)
        BY <3>1, FS_Interval
      <3> QED
        BY <3>1, <3>2 DEF FiniteSubsetsOf
    <2> QED
      BY <2>1
  <1>3. \E x \in upTo : \A y \in upTo : ~(<<y, x>> \in StrictSubsetOrdering(Nat))
    <2> HIDE DEF upTo
    <2> QED
      BY <1>1, <1>2, WFMin
  <1>4. PICK least \in ids : \A id \in ids : ~(<<1..id, 1..least>> \in StrictSubsetOrdering(Nat))
    BY <1>3
  <1>5. ASSUME NEW id \in ids PROVE least <= id
    <2> SUFFICES ASSUME id < least PROVE FALSE
      BY IdsFinite
    <2>1. id \in Nat /\ least \in Nat /\ least >= 1
      BY IdsFinite, SupervisorAssumption DEF Ids
    <2>2. 1..id \subseteq 1..least /\ 1..id # 1..least
      BY <2>1
    <2>3. <<1..id, 1..least>> \in StrictSubsetOrdering(Nat)
      BY <2>1, <2>2 DEF StrictSubsetOrdering
    <2> QED
      BY <1>4, <2>3
  <1> QED
    BY <1>5

(* The oldest of some identities is among their `count` oldest.            *)
LEMMA OldestIsOld ==
    ASSUME NEW ids \in SUBSET Ids, NEW count \in Int, count >= 1,
           NEW oldest \in ids, \A id \in ids : oldest <= id
    PROVE  oldest \in Oldest(ids, count)
  <1>1. {older \in ids : older <= oldest} = {oldest}
    <2>1. ids \subseteq Nat
      BY IdsFinite
    <2>2. \A id \in ids : id <= oldest => id = oldest
      BY <2>1
    <2> QED
      BY <2>1, <2>2
  <1> QED
    BY <1>1, FS_Singleton DEF Oldest

(* One receipt above the limit is one that trim_records can drop, because  *)
(* at most two operations live.                                            *)
LEMMA TrimFits ==
    ASSUME NEW records \in [Ids -> RecordStates \cup {NoRecord}],
           Cardinality(Recorded(records)) <= Limit + 1, Cardinality(Live(records)) <= 2
    PROVE  Cardinality(Recorded(Trim(records))) <= Limit
  <1> DEFINE ended == {id \in Ids : records[id] \in Terminal}
             dropped == Oldest(ended, Excess(records))
  <1>1. /\ IsFiniteSet(Recorded(records)) /\ Cardinality(Recorded(records)) \in Nat
        /\ IsFiniteSet(ended) /\ IsFiniteSet(Live(records))
        /\ MaxReceipts \in Nat /\ Limit \in Nat /\ Limit >= 2 /\ Limit >= MaxReceipts
    BY IdsFinite, FS_Subset, FS_CardinalityType, SupervisorAssumption
       DEF Recorded, Live, Limit, Schedule!Later
  <1>2. Recorded(Trim(records)) \subseteq Recorded(records) \ dropped
    BY DEF Trim, Recorded, Without
  <1>3. CASE Cardinality(Recorded(records)) <= Limit
    <2>1. Recorded(Trim(records)) \subseteq Recorded(records)
      BY <1>2
    <2> HIDE DEF dropped
    <2>2. Cardinality(Recorded(Trim(records))) <= Cardinality(Recorded(records))
          /\ Cardinality(Recorded(Trim(records))) \in Nat
      BY <1>1, <2>1, FS_Subset, FS_CardinalityType
    <2> QED
      BY <1>1, <1>3, <2>2
  <1>4. CASE Cardinality(Recorded(records)) = Limit + 1
    <2>1. ended # {}
      <3> SUFFICES ASSUME ended = {} PROVE FALSE
        OBVIOUS
      <3>1. Recorded(records) = Live(records)
        BY DEF Recorded, Live
      <3> QED
        BY <1>1, <1>4, <3>1
    <2>2. PICK oldest \in ended : \A id \in ended : oldest <= id
      BY <2>1, OldestExists
    <2>3. Excess(records) \in Int /\ Excess(records) >= 1
      BY <1>1, <1>4 DEF Excess
    <2>4. oldest \in dropped
      BY <2>2, <2>3, OldestIsOld
    <2>5. oldest \in Recorded(records)
      BY <2>2 DEF Recorded, Terminal, NoRecord
    <2>6. Recorded(Trim(records)) \subseteq Recorded(records) \ {oldest}
      BY <1>2, <2>4
    <2>7. /\ IsFiniteSet(Recorded(records) \ {oldest})
          /\ Cardinality(Recorded(records) \ {oldest}) = Limit
      <3> DEFINE R == Recorded(records)
      <3>1. /\ IsFiniteSet(R \ {oldest})
            /\ Cardinality(R \ {oldest}) = IF oldest \in R THEN Cardinality(R) - 1 ELSE Cardinality(R)
        BY <1>1, FS_RemoveElement
      <3> QED
        BY <1>1, <1>4, <2>5, <3>1
    <2> QED
      BY <2>6, <2>7, FS_Subset
  <1> QED
    BY <1>1, <1>3, <1>4

(* The live receipts are those of the running and of the queued operation. *)
LEMMA AtMostTwoLive ==
    ASSUME NEW records, NEW out, NEW act, NEW pend, NEW last,
           ReceiptsTrue(records, out, act, pend, last)
    PROVE  Cardinality(Live(records)) <= 2
  <1>1. Live(records) \subseteq {act.id} \cup {pend}
    BY DEF Live, ReceiptsTrue, ReceiptTrue
  <1>2. IsFiniteSet({act.id} \cup {pend}) /\ Cardinality({act.id} \cup {pend}) <= 2
    <2>1. IsFiniteSet({act.id}) /\ Cardinality({act.id}) = 1
      BY FS_Singleton
    <2>2. /\ IsFiniteSet({act.id} \cup {pend})
          /\ Cardinality({act.id} \cup {pend}) = IF pend \in {act.id} THEN Cardinality({act.id})
                                                ELSE Cardinality({act.id}) + 1
      BY <2>1, FS_AddElement
    <2> QED
      BY <2>1, <2>2
  <1>3. Cardinality(Live(records)) <= Cardinality({act.id} \cup {pend})
    BY <1>1, <1>2, FS_Subset
  <1>4. Cardinality(Live(records)) \in Nat /\ Cardinality({act.id} \cup {pend}) \in Nat
    BY <1>1, <1>2, FS_Subset, FS_CardinalityType
  <1> QED
    BY <1>2, <1>3, <1>4

(* Giving a receipt a state adds none, and pushing one adds one at most.   *)
LEMMA RecordedAfter ==
    ASSUME NEW records \in [Ids -> RecordStates \cup {NoRecord}], NEW id \in Ids,
           NEW state \in RecordStates
    PROVE  /\ Cardinality(Recorded(records)) \in Nat
           /\ Recorded(SetRecord(records, id, state)) = Recorded(records)
           /\ Cardinality(Recorded(Record(records, id, state))) <= Cardinality(Recorded(records)) + 1
  <1>1. IsFiniteSet(Recorded(records)) /\ Cardinality(Recorded(records)) \in Nat
    BY IdsFinite, FS_Subset, FS_CardinalityType DEF Recorded
  <1>2. state # NoRecord
    BY DEF RecordStates, Terminal, NoRecord
  <1>3. Recorded(SetRecord(records, id, state)) = Recorded(records)
    BY <1>2, SetRecordResult DEF Recorded
  <1>4. Recorded(Record(records, id, state)) = Recorded(records) \cup {id}
    BY <1>2, SetRecordResult DEF Recorded
  <1>5. Cardinality(Recorded(records) \cup {id}) <= Cardinality(Recorded(records)) + 1
    <2> DEFINE R == Recorded(records)
    <2>1. Cardinality(R \cup {id}) = IF id \in R THEN Cardinality(R) ELSE Cardinality(R) + 1
      BY <1>1, FS_AddElement
    <2> QED
      BY <1>1, <2>1
  <1> QED
    BY <1>1, <1>3, <1>4, <1>5

(* The effects keep the receipts at their limit, or at what a request that *)
(* is just being queued adds to it.                                        *)
LEMMA ReceiptsFit ==
    ASSUME NEW r, NEW out \in [Ids -> Outcomes], NEW act \in ActiveType, NEW pend \in Nat,
           NEW last \in Nat, Halves(r, act, pend), Follows(act, pend, last),
           watchEnabled' => r.watchRequest # "None", active' \in ActiveType,
           ReceiptsTrue(r.records, out, act, pend, last),
           Cardinality(Recorded(r.records)) <= IF pend = NoId THEN Limit ELSE Limit + 1
    PROVE  \/ Cardinality(Recorded(ApplyEffects(r, out).rt.records)) <= Limit
           \/ Recorded(ApplyEffects(r, out).rt.records) = Recorded(r.records)
  <1> DEFINE t == ApplyEffects(r, out)
             Goal == \/ Cardinality(Recorded(t.rt.records)) <= Limit
                     \/ Recorded(t.rt.records) = Recorded(r.records)
  <1> SUFFICES Goal
    OBVIOUS
  <1>1. r \in RuntimeType /\ r.records \in [Ids -> RecordStates \cup {NoRecord}]
    BY DEF Halves, RuntimeType
  <1>2. CASE Kept(act, pend, last)
    BY <1>1, <1>2, KeptApplied DEF Kept
  <1>3. ASSUME NEW reason \in Schedule!Reasons, Told(act, pend, last, reason) PROVE Goal
    <2>1. act.id \in Ids /\ t \in States /\ t.rt = Told1(r, reason) /\ t.outcome = out
      BY <1>3, ToldApplied
    <2> HIDE DEF t
    <2>2. t.rt.records = SetRecord(r.records, act.id, TellState(reason))
      BY <1>1, <2>1 DEF Told1, RuntimeType, Halves
    <2>3. TellState(reason) \in RecordStates
      BY DEF TellState, RecordStates
    <2> QED
      BY <1>1, <2>1, <2>2, <2>3, RecordedAfter
  <1>4. ASSUME NEW reason \in Schedule!Reasons, Unqueued(act, pend, last, reason) PROVE Goal
    <2>1. pend \in Ids /\ t.rt = Unqueued1(r, pend)
      BY <1>4, UnqueuedApplied
    <2> HIDE DEF t
    <2>2. t.rt.records = SetRecord(r.records, pend, "Cancelled")
      BY <1>1, <2>1 DEF Unqueued1, RuntimeType
    <2> QED
      BY <1>1, <2>1, <2>2, RecordedAfter DEF RecordStates, Terminal
  <1>5. ASSUME NEW reason \in Schedule!Reasons, ToldAndUnqueued(act, pend, last, reason) PROVE Goal
    <2>1. BothDone(t, r, out, act, pend, reason)
      BY <1>5, ToldAndUnqueuedApplied
    <2> HIDE DEF t
    <2> DEFINE between == SetRecord(r.records, act.id, TellState(reason))
    <2>2. t.rt.records = SetRecord(between, pend, "Cancelled")
      BY <1>1, <2>1 DEF BothDone, Unqueued1, Told1, RuntimeType, Halves
    <2>3. act.id \in Ids /\ pend \in Ids /\ TellState(reason) \in RecordStates
      BY <2>1 DEF BothDone, TellState, RecordStates
    <2>4. /\ between \in [Ids -> RecordStates \cup {NoRecord}]
          /\ Recorded(between) = Recorded(r.records)
      <3> DEFINE state == TellState(reason)
      <3>1. between = SetRecord(r.records, act.id, state) /\ state \in RecordStates
        BY <2>3
      <3> HIDE DEF between, state
      <3>2. Recorded(SetRecord(r.records, act.id, state)) = Recorded(r.records)
        BY <1>1, <2>3, <3>1, RecordedAfter
      <3>3. SetRecord(r.records, act.id, state) \in [Ids -> RecordStates \cup {NoRecord}]
        BY <1>1, <2>3, <3>1, SetRecordResult
      <3> QED
        BY <3>1, <3>2, <3>3
    <2> HIDE DEF between
    <2>5. "Cancelled" \in RecordStates
      BY DEF RecordStates, Terminal
    <2>6. Recorded(SetRecord(between, pend, "Cancelled")) = Recorded(between)
      BY <2>3, <2>4, <2>5, RecordedAfter
    <2> QED
      BY <2>2, <2>4, <2>6
  <1>6. ASSUME NEW id \in Nat, NEW trigger \in Schedule!Triggers, Began(act, pend, last, id, trigger)
        PROVE  Goal
    <2>1. BeginningDone(t, r, out, id, trigger)
      BY <1>6, BeganApplied
    <2> HIDE DEF t
    <2> DEFINE running == IF trigger = "Manual" THEN SetRecord(r.records, id, "Running")
                          ELSE Record(r.records, id, "Running")
    <2>2. t.rt.records = Trim(running) /\ id \in Ids
      BY <1>1, <2>1 DEF BeginningDone, Began1, RunningRecords, RuntimeType
    <2>3. /\ act = Schedule!NoActive
          /\ active'.id = id /\ active'.trigger = trigger /\ active'.cancel = "None"
          /\ \/ trigger = "Manual" /\ id = pend /\ nextOperationId' = last
             \/ trigger = "Watch" /\ pend = NoId /\ id = last + 1 /\ nextOperationId' = last + 1
          /\ nextOperationId' \in Nat
      BY <1>6 DEF Began, Schedule!Start
    <2>4. running \in [Ids -> RecordStates \cup {NoRecord}]
      BY <1>1, <2>2, SetRecordResult DEF RecordStates
    <2>5. ReceiptsTrue(running, out, active', NoId, nextOperationId')
      BY <1>1, <2>2, <2>3, BeganReceipts
    <2>6. Cardinality(Recorded(running)) <= Limit + 1
      <3>1. "Running" \in RecordStates
        BY DEF RecordStates
      <3>2. Cardinality(Recorded(r.records)) \in Nat /\ Limit \in Nat
        BY <1>1, <2>2, <3>1, RecordedAfter, SupervisorAssumption DEF Limit, Schedule!Later
      <3>3. CASE trigger = "Manual"
        <4>1. Recorded(running) = Recorded(r.records)
          BY <1>1, <2>2, <3>1, <3>3, RecordedAfter
        <4> QED
          BY <3>2, <4>1
      <3>4. CASE trigger = "Watch"
        <4>1. Cardinality(Recorded(r.records)) <= Limit
          BY <2>3, <3>4
        <4>2. Cardinality(Recorded(Record(r.records, id, "Running")))
                 <= Cardinality(Recorded(r.records)) + 1
          BY <1>1, <2>2, <3>1, RecordedAfter
        <4>3. Cardinality(Recorded(Record(r.records, id, "Running"))) \in Nat
          BY <2>4, <2>2, <3>1, <3>4, RecordedAfter
        <4> QED
          BY <3>2, <3>4, <4>1, <4>2, <4>3
      <3> QED
        BY <3>3, <3>4 DEF Schedule!Triggers
    <2> HIDE DEF running
    <2>7. Cardinality(Live(running)) <= 2
      BY <2>5, AtMostTwoLive
    <2> QED
      BY <2>2, <2>4, <2>6, <2>7, TrimFits
  <1> QED
    BY <1>2, <1>3, <1>4, <1>5, <1>6 DEF Follows

-----------------------------------------------------------------------------
(* Every method of the schedule is such a step.                            *)

LEMMA ScheduleNextFollows ==
    ASSUME NEW pend \in Nat, NEW last \in Nat, Schedule!ScheduleNext(pend, last)
    PROVE  Follows(Schedule!NoActive, pend, last)
  <1>1. CASE pend # NoId /\ Schedule!Start(pend, "Manual") /\ pendingManual' = NoId
             /\ nextOperationId' = last
    <2>1. Began(Schedule!NoActive, pend, last, pend, "Manual")
      BY <1>1 DEF Began
    <2> QED
      BY <2>1 DEF Follows, Schedule!Triggers
  <1>2. CASE /\ pend = NoId /\ watchEnabled' /\ last < MaxOps
             /\ Schedule!Start(last + 1, "Watch") /\ pendingManual' = NoId
             /\ nextOperationId' = last + 1
    <2>1. Began(Schedule!NoActive, pend, last, last + 1, "Watch")
      BY <1>2 DEF Began, NoId, Schedule!NoId
    <2> QED
      BY <2>1 DEF Follows, Schedule!Triggers
  <1>3. CASE /\ pend = NoId /\ active' = Schedule!NoActive /\ effects' = <<>>
             /\ pendingManual' = NoId /\ nextOperationId' = last
    BY <1>3 DEF Follows, Kept
  <1> QED
    BY <1>1, <1>2, <1>3 DEF Schedule!ScheduleNext, NoId

LEMMA CancellationFollows ==
    ASSUME NEW reason \in Schedule!Reasons, NEW pend, NEW last,
           Schedule!RequestActiveCancellation(reason), pendingManual' = pend, nextOperationId' = last
    PROVE  Follows(active, pend, last)
  BY DEF Schedule!RequestActiveCancellation, Follows, Told, Kept, NoId

LEMMA ScheduleTypes ==
    ASSUME Schedule!ScheduleInv
    PROVE  /\ active \in ActiveType /\ pendingManual \in Nat /\ nextOperationId \in Nat
           /\ desired \in Nat /\ watchEnabled \in BOOLEAN
           /\ active.id = NoId => active = Schedule!NoActive /\ pendingManual = NoId
           /\ active.id # NoId => active.trigger \in Schedule!Triggers
           /\ pendingManual # NoId => pendingManual # active.id
           /\ active.id <= nextOperationId /\ pendingManual <= nextOperationId
           /\ active.covered <= desired
  BY DEF Schedule!ScheduleInv, Schedule!TypeOK, Schedule!IdsDistinct, Schedule!NeverIdleWithWork,
     Schedule!EpochsOrdered, ActiveType, NoId

\* A method that the driver applies to the attempt and the queue as they are.
Method ==
    \/ \E initial \in BOOLEAN : Schedule!EnableWatch(initial)
    \/ Schedule!DisableWatch
    \/ \E supersede \in BOOLEAN : Schedule!RequestReconciliation(supersede)
    \/ \E id \in Ids : Schedule!Cancel(id)
    \/ Schedule!MarkActivePublication
    \/ Schedule!Shutdown

LEMMA MethodFollows ==
    ASSUME Schedule!ScheduleInv, Method
    PROVE  Follows(active, pendingManual, nextOperationId)
  <1> USE ScheduleTypes
  <1>1. CASE \E initial \in BOOLEAN : Schedule!EnableWatch(initial)
    <2>1. CASE Schedule!NoEffect
      BY <2>1 DEF Schedule!NoEffect, Follows, Kept
    <2>2. CASE active.id = NoId /\ Schedule!ScheduleNext(pendingManual, nextOperationId)
      BY <2>2, ScheduleNextFollows
    <2> QED
      BY <1>1, <2>1, <2>2 DEF Schedule!EnableWatch, NoId
  <1>2. CASE Schedule!DisableWatch
    <2>1. CASE Schedule!RequestActiveCancellation("Requested")
      BY <1>2, <2>1, CancellationFollows DEF Schedule!DisableWatch, Schedule!Reasons
    <2>2. CASE effects' = <<>> /\ UNCHANGED active
      BY <1>2, <2>2 DEF Schedule!DisableWatch, Follows, Kept
    <2> QED
      BY <1>2, <2>1, <2>2 DEF Schedule!DisableWatch
  <1>3. CASE \E supersede \in BOOLEAN : Schedule!RequestReconciliation(supersede)
    <2>1. CASE /\ Schedule!RequestActiveCancellation("Superseded")
               /\ UNCHANGED <<pendingManual, nextOperationId>>
      BY <2>1, CancellationFollows DEF Schedule!Reasons
    <2>2. CASE Schedule!NoEffect
      BY <2>2 DEF Schedule!NoEffect, Follows, Kept
    <2>3. CASE active.id = NoId /\ Schedule!ScheduleNext(pendingManual, nextOperationId)
      BY <2>3, ScheduleNextFollows
    <2> QED
      BY <1>3, <2>1, <2>2, <2>3 DEF Schedule!RequestReconciliation, NoId
  <1>4. CASE \E id \in Ids : Schedule!Cancel(id)
    <2> PICK id \in Ids : Schedule!Cancel(id)
      BY <1>4
    <2>1. CASE /\ id = pendingManual /\ pendingManual' = NoId
               /\ effects' = <<Schedule!CancelQueuedEffect(id, "Requested")>>
               /\ UNCHANGED active
      <3>1. Unqueued(active, pendingManual, nextOperationId, "Requested")
        BY <2>1 DEF Unqueued, Schedule!Cancel, NoId
      <3> QED
        BY <3>1 DEF Follows, Schedule!Reasons
    <2>2. CASE Schedule!RequestActiveCancellation("Requested") /\ UNCHANGED pendingManual
      BY <2>2, CancellationFollows DEF Schedule!Cancel, Schedule!Reasons
    <2> QED
      BY <2>1, <2>2 DEF Schedule!Cancel, NoId
  <1>5. CASE Schedule!MarkActivePublication
    BY <1>5 DEF Schedule!MarkActivePublication, Schedule!NoEffect, Follows, Kept
  <1>6. CASE Schedule!Shutdown
    <2> DEFINE cancels == active.id # NoId /\ active.cancel = "None"
               unqueues == pendingManual # NoId
    <2>1. /\ pendingManual' = NoId /\ nextOperationId' = nextOperationId
          /\ active' = IF cancels THEN [active EXCEPT !.cancel = "Shutdown"] ELSE active
          /\ effects' = (IF cancels THEN <<Schedule!CancelEffect(active.id, "Shutdown")>> ELSE <<>>)
                        \o (IF unqueues THEN <<Schedule!CancelQueuedEffect(pendingManual, "Shutdown")>>
                            ELSE <<>>)
      BY <1>6 DEF Schedule!Shutdown, NoId
    <2>2. "Shutdown" \in Schedule!Reasons
      BY DEF Schedule!Reasons
    <2> HIDE <1>6
    <2>3. CASE cancels /\ unqueues
      <3> DEFINE a == Schedule!CancelEffect(active.id, "Shutdown")
                 b == Schedule!CancelQueuedEffect(pendingManual, "Shutdown")
      <3>1. effects' = <<a>> \o <<b>>
        BY <2>1, <2>3
      <3> HIDE DEF a, b
      <3>2. <<a>> \o <<b>> = <<a, b>>
        <4>1. <<a>> \in Seq({a, b}) /\ <<b>> \in Seq({a, b}) /\ <<a, b>> \in Seq({a, b})
          OBVIOUS
        <4>2. /\ <<a>> \o <<b>> \in Seq({a, b}) /\ Len(<<a>> \o <<b>>) = 2
              /\ (<<a>> \o <<b>>)[1] = a /\ (<<a>> \o <<b>>)[2] = b
          BY <4>1, ConcatProperties
        <4>3. /\ Len(<<a, b>>) = 2
              /\ \A i \in 1..2 : (<<a>> \o <<b>>)[i] = <<a, b>>[i]
          BY <4>2
        <4> DEFINE s == <<a>> \o <<b>>
                   u == <<a, b>>
        <4>4. /\ s \in Seq({a, b}) /\ u \in Seq({a, b}) /\ Len(s) = Len(u)
              /\ \A i \in 1..Len(s) : s[i] = u[i]
          BY <4>1, <4>2, <4>3
        <4> HIDE DEF s, u
        <4>5. s = u
          BY <4>4, SeqEqual
        <4> QED
          BY <4>5 DEF s, u
      <3>3. ToldAndUnqueued(active, pendingManual, nextOperationId, "Shutdown")
        BY <2>1, <2>3, <3>1, <3>2 DEF ToldAndUnqueued, a, b
      <3> QED
        BY <2>2, <3>3 DEF Follows
    <2>4. CASE cancels /\ ~unqueues
      <3> DEFINE a == Schedule!CancelEffect(active.id, "Shutdown")
      <3>1. effects' = <<a>> \o <<>>
        BY <2>1, <2>4
      <3> HIDE DEF a
      <3>2. effects' = <<a>>
        BY <3>1
      <3>3. Told(active, pendingManual, nextOperationId, "Shutdown")
        BY <2>1, <2>4, <3>2 DEF Told, a
      <3> QED
        BY <2>2, <3>3 DEF Follows
    <2>5. CASE ~cancels /\ unqueues
      <3> DEFINE b == Schedule!CancelQueuedEffect(pendingManual, "Shutdown")
      <3>1. effects' = <<>> \o <<b>>
        BY <2>1, <2>5
      <3> HIDE DEF b
      <3>2. effects' = <<b>>
        BY <3>1
      <3>3. Unqueued(active, pendingManual, nextOperationId, "Shutdown")
        BY <2>1, <2>5, <3>2 DEF Unqueued, b
      <3> QED
        BY <2>2, <3>3 DEF Follows
    <2>6. CASE ~cancels /\ ~unqueues
      <3>1. effects' = <<>> \o <<>>
        BY <2>1, <2>6
      <3>2. effects' = <<>>
        BY <3>1
      <3> QED
        BY <2>1, <2>6, <3>2 DEF Follows, Kept
    <2> QED
      BY <2>3, <2>4, <2>5, <2>6
  <1> QED
    BY <1>1, <1>2, <1>3, <1>4, <1>5, <1>6 DEF Method

-----------------------------------------------------------------------------
(* One critical section: what it assigned itself is a runtime r that goes  *)
(* with (act, pend), then the effects follow, then maybe trim_records.     *)

LEMMA SectionInv ==
    ASSUME Schedule!ScheduleInv',
           NEW r, NEW out \in [Ids -> Outcomes], NEW act \in ActiveType, NEW pend \in Nat,
           NEW last \in Nat, Halves(r, act, pend), Follows(act, pend, last),
           watchEnabled' => r.watchRequest # "None",
           pend # NoId => pend # act.id,
           reported' \in [Paths -> 0..desired'], settled' \in 0..desired',
           HintsHeld(r, act, reported', settled'),
           ReceiptsTrue(r.records, out, act, pend, last),
           Cardinality(Recorded(r.records)) <= IF pend = NoId THEN Limit ELSE Limit + 1,
           \/ /\ rt' = ApplyEffects(r, out).rt
              /\ Cardinality(Recorded(r.records)) <= Limit
           \/ rt' = [ApplyEffects(r, out).rt EXCEPT !.records = Trim(@)],
           outcome' = ApplyEffects(r, out).outcome
    PROVE  /\ SharedInv'
           /\ rt'.shuttingDown = r.shuttingDown
           /\ act.id # NoId => active'.id = act.id /\ rt'.attempt.started = r.attempt.started
  <1> DEFINE t == ApplyEffects(r, out)
  <1>1. /\ active' \in ActiveType /\ desired' \in Nat
        /\ reported' \in [Paths -> 0..desired'] /\ settled' \in Nat
    <2>1. active' \in ActiveType /\ desired' \in Nat
      BY DEF Schedule!ScheduleInv, Schedule!TypeOK, ActiveType
    <2> QED
      BY <2>1
  <1>2. /\ t \in States
        /\ Halves(t.rt, active', pendingManual')
        /\ Untouched(r, t.rt)
        /\ act.id # NoId => /\ active'.id = act.id
                            /\ t.rt.attempt.started = r.attempt.started
    BY HalvesFollow
  <1>3. HintsHeld(t.rt, active', reported', settled')
    BY <1>1, HintsFollow
  <1>4. ReceiptsTrue(t.rt.records, t.outcome, active', pendingManual', nextOperationId')
    BY <1>1, ReceiptsFollow
  <1>5. \/ Cardinality(Recorded(t.rt.records)) <= Limit
        \/ Recorded(t.rt.records) = Recorded(r.records)
    BY <1>1, ReceiptsFit
  <1> HIDE DEF t
  <1>6. t.rt \in RuntimeType /\ t.outcome \in [Ids -> Outcomes]
        /\ t.rt.records \in [Ids -> RecordStates \cup {NoRecord}]
    BY <1>2 DEF States, RuntimeType
  <1> DEFINE trimmed == [t.rt EXCEPT !.records = Trim(t.rt.records)]
  <1>7. (rt' = t.rt /\ Cardinality(Recorded(r.records)) <= Limit) \/ rt' = trimmed
    BY DEF t
  <1>8. CASE rt' = t.rt /\ Cardinality(Recorded(r.records)) <= Limit
    BY <1>1, <1>2, <1>3, <1>4, <1>5, <1>6, <1>8 DEF SharedInv, Untouched, t
  <1>9. CASE rt' = trimmed
    <2>1. /\ trimmed.attempt = t.rt.attempt /\ trimmed.payloads = t.rt.payloads
          /\ trimmed.dirty = t.rt.dirty /\ trimmed.dirtyOverflow = t.rt.dirtyOverflow
          /\ trimmed.watchRequest = t.rt.watchRequest /\ trimmed.panicked = t.rt.panicked
          /\ trimmed.shuttingDown = t.rt.shuttingDown /\ trimmed.records = Trim(t.rt.records)
      BY <1>6 DEF RuntimeType
    <2>2. trimmed \in RuntimeType
      BY <1>6, TrimDropsTerminal DEF RuntimeType
    <2> HIDE DEF trimmed
    <2>3. Halves(rt', active', pendingManual') /\ HintsHeld(rt', active', reported', settled')
      BY <1>2, <1>3, <1>9, <2>1, <2>2 DEF Halves, HintsHeld
    <2>4. ReceiptsTrue(rt'.records, outcome', active', pendingManual', nextOperationId')
      BY <1>4, <1>6, <1>9, <2>1, TrimKeepsTruth DEF t
    <2>5. Cardinality(Recorded(rt'.records)) <= Limit
      <3>1. Limit \in Nat
        BY SupervisorAssumption DEF Limit, Schedule!Later
      <3>2. Cardinality(Recorded(t.rt.records)) <= Limit + 1
        <4>1. IsFiniteSet(Recorded(t.rt.records))
          BY IdsFinite, FS_Subset DEF Recorded
        <4>2. Cardinality(Recorded(t.rt.records)) \in Nat
          BY <4>1, FS_CardinalityType
        <4> QED
          BY <1>5, <3>1, <4>2
      <3>3. Cardinality(Live(t.rt.records)) <= 2
        BY <1>4, AtMostTwoLive
      <3> QED
        BY <1>6, <1>9, <2>1, <3>2, <3>3, TrimFits
    <2>6. outcome' = t.outcome
      BY DEF t
    <2> QED
      BY <1>1, <1>2, <1>6, <1>9, <2>1, <2>3, <2>4, <2>5, <2>6 DEF SharedInv, Untouched
  <1> QED
    BY <1>7, <1>8, <1>9

-----------------------------------------------------------------------------
(* What the workers and the callers know survives such a section.          *)

LEMMA WorkersCarry ==
    ASSUME NEW places, NEW runs, NEW act, NEW r, NEW newAct, NEW newR, NEW running,
           WorkersTrue(places, runs, act, r, running),
           act.id # NoId => newAct.id = act.id /\ newR.attempt.started = r.attempt.started,
           r.shuttingDown => newR.shuttingDown,
           r.shuttingDown /\ act.id = NoId => newAct.id = NoId
    PROVE  WorkersTrue(places, runs, newAct, newR, running)
  <1>1. ASSUME NEW w \in Workers, PlaceTrue(places[w], runs[w], act, r)
        PROVE  PlaceTrue(places[w], runs[w], newAct, newR)
    BY <1>1 DEF PlaceTrue, Executing
  <1> QED
    BY <1>1 DEF WorkersTrue

LEMMA NotifyKeepsWorkers ==
    ASSUME NEW places, NEW runs, NEW act, NEW r, NEW running,
           WorkersTrue(places, runs, act, r, running), NotifyOne(places), wakePermit \in BOOLEAN
    PROVE  WorkersTrue(pc', runs, act, r, running) /\ wakePermit' \in BOOLEAN
  <1>1. CASE pc' = places /\ wakePermit' = TRUE
    BY <1>1
  <1>2. ASSUME NEW w \in Workers, places[w] = "asleep", pc' = [places EXCEPT ![w] = "top"],
               UNCHANGED wakePermit
        PROVE  WorkersTrue(pc', runs, act, r, running) /\ wakePermit' \in BOOLEAN
    <2>1. pc' \in [Workers -> Places] /\ runs \in [Workers -> Ids \cup {NoId}]
      BY <1>2 DEF WorkersTrue, Places
    <2>2. \A v \in Workers : pc'[v] = IF v = w THEN "top" ELSE places[v]
      BY <1>2 DEF WorkersTrue
    <2>3. Alive(pc') = Alive(places)
      BY <1>2, <2>2 DEF Alive
    <2>4. ASSUME NEW v \in Workers PROVE PlaceTrue(pc'[v], runs[v], act, r)
      <3>1. PlaceTrue(places[v], runs[v], act, r)
        BY DEF WorkersTrue
      <3> QED
        BY <1>2, <2>2, <3>1 DEF PlaceTrue, Executing
    <2> QED
      BY <1>2, <2>1, <2>3, <2>4 DEF WorkersTrue
  <1> QED
    BY <1>1, <1>2 DEF NotifyOne

LEMMA SectionKeepsTasks ==
    ASSUME SupervisorIInv, Schedule!ScheduleInv', SharedInv', NotifyOne(pc),
           active.id # NoId => active'.id = active.id /\ rt'.attempt.started = rt.attempt.started,
           rt.shuttingDown => rt'.shuttingDown,
           rt.shuttingDown /\ active.id = NoId => active'.id = NoId,
           active'.id # NoId => active.id # NoId \/ (inCall # {} /\ ~rt.shuttingDown),
           inCall' \subseteq inCall, UNCHANGED <<workerRunning, run>>,
           \/ UNCHANGED waiter
           \/ waiter' = [waiter EXCEPT !.place = "register"] /\ rt'.shuttingDown
    PROVE  SupervisorIInv'
  <1>1. WorkersTrue(pc, run, active', rt', workerRunning)
    BY WorkersCarry DEF SupervisorIInv
  <1>2. WorkersTrue(pc', run, active', rt', workerRunning) /\ wakePermit' \in BOOLEAN
    BY <1>1, NotifyKeepsWorkers DEF SupervisorIInv
  <1>3. CallsTrue(inCall, waiter, active, rt, workerRunning)
    BY DEF SupervisorIInv
  <1>4. CallsTrue(inCall', waiter', active', rt', workerRunning)
    <2>1. CASE UNCHANGED waiter
      BY <1>3, <2>1 DEF CallsTrue
    <2>2. CASE waiter' = [waiter EXCEPT !.place = "register"] /\ rt'.shuttingDown
      <3>1. /\ waiter' \in [place : {"idle", "register", "check", "asleep", "returned"},
                             registered : BOOLEAN, notified : BOOLEAN]
            /\ waiter'.place = "register"
        BY <1>3, <2>2 DEF CallsTrue
      <3> QED
        BY <1>3, <2>2, <3>1 DEF CallsTrue
    <2> QED
      BY <2>1, <2>2
  <1> QED
    BY <1>2, <1>4 DEF SupervisorIInv

-----------------------------------------------------------------------------
(* The calls.                                                              *)

LEMMA InitIInv == Init => SupervisorIInv
  <1> SUFFICES ASSUME Init PROVE SupervisorIInv
    OBVIOUS
  <1> USE DEF Init
  <1>1. Schedule!ScheduleInv
    <2>1. SP!Init
      BY DEF Schedule!Init, SP!Init, SP!NoActive, SP!NoId, Schedule!NoActive, Schedule!NoId
    <2>2. SP!ScheduleInv
      BY <2>1, SP!InitInv, SupervisorAssumption DEF SP!BoundsAssumption
    <2> QED
      BY <2>2, ScheduleInvIsSP
  <1>2. active.id = NoId /\ active = Schedule!NoActive /\ pendingManual = NoId /\ desired = 0
        /\ watchEnabled = FALSE /\ nextOperationId = 0
    BY DEF Schedule!Init, Schedule!NoActive, NoId
  <1>3. rt \in RuntimeType
    BY DEF RuntimeInit, RuntimeType, NoAttempt, Attempts, NoId
  <1>4. Halves(rt, active, pendingManual)
    BY <1>2, <1>3 DEF Halves, RuntimeInit, NoAttempt, Schedule!NoActive, NoId
  <1>5. HintsHeld(rt, active, reported, settled)
    BY SMTT(30), <1>2, FS_EmptySet, SupervisorAssumption DEF HintsHeld, RuntimeInit, NoAttempt
  <1>6. ReceiptsTrue(rt.records, outcome, active, pendingManual, nextOperationId)
    BY <1>2, IdsFinite DEF ReceiptsTrue, ReceiptTrue, RuntimeInit, Ids, NoId, Schedule!NoId, Schedule!Results
  <1>7. Recorded(rt.records) = {} /\ Limit \in Nat
    BY SupervisorAssumption DEF Recorded, RuntimeInit, Limit, Schedule!Later
  <1>8. SharedInv
    BY <1>2, <1>4, <1>5, <1>6, <1>7, FS_EmptySet DEF SharedInv, Outcomes
  <1>9. WorkersTrue(pc, run, active, rt, workerRunning)
    BY <1>2 DEF WorkersTrue, PlaceTrue, Alive, Places, Executing
  <1>10. CallsTrue(inCall, waiter, active, rt, workerRunning)
    BY <1>2 DEF CallsTrue
  <1> QED
    BY <1>1, <1>8, <1>9, <1>10 DEF SupervisorIInv

(* A method applied to the attempt and the queue as they are: what is left *)
(* to show of a call is what its own assignments do.                       *)
LEMMA MethodSectionInv ==
    ASSUME SupervisorIInv, Schedule!ScheduleInv', Method, NEW r \in RuntimeType, Apply(r),
           r.attempt = rt.attempt, r.payloads = rt.payloads, r.records = rt.records,
           r.panicked = rt.panicked,
           watchEnabled' => r.watchRequest # "None",
           reported' \in [Paths -> 0..desired'], settled' \in 0..desired',
           HintsHeld(r, active, reported', settled')
    PROVE  /\ SharedInv'
           /\ rt'.shuttingDown = r.shuttingDown
           /\ active.id # NoId => active'.id = active.id /\ rt'.attempt.started = rt.attempt.started
  <1>1. Schedule!ScheduleInv /\ SharedInv
    BY DEF SupervisorIInv
  <1>2. Follows(active, pendingManual, nextOperationId)
    BY <1>1, MethodFollows
  <1>3. /\ Halves(r, active, pendingManual) /\ outcome \in [Ids -> Outcomes]
        /\ ReceiptsTrue(r.records, outcome, active, pendingManual, nextOperationId)
        /\ Cardinality(Recorded(r.records)) <= Limit
    BY <1>1 DEF SharedInv, Halves
  <1>4. Cardinality(Recorded(r.records)) <= IF pendingManual = NoId THEN Limit ELSE Limit + 1
    <2>1. IsFiniteSet(Recorded(r.records)) /\ Limit \in Nat
      BY IdsFinite, FS_Subset, SupervisorAssumption DEF Recorded, Limit, Schedule!Later
    <2>2. Cardinality(Recorded(r.records)) \in Nat
      BY <2>1, FS_CardinalityType
    <2> QED
      BY <1>3, <2>1, <2>2
  <1>5. rt' = ApplyEffects(r, outcome).rt /\ outcome' = ApplyEffects(r, outcome).outcome
    BY DEF Apply
  <1> QED
    BY <1>1, <1>2, <1>3, <1>4, <1>5, ScheduleTypes, SectionInv

(* What a set may hold after paths were offered to it.                     *)
LEMMA AdmitResult ==
    ASSUME NEW held, NEW paths, NEW kept \in Admit(held, paths)
    PROVE  /\ held \subseteq kept /\ kept \subseteq held \cup paths
           /\ Cardinality(kept) <= MaxDirtyHints
  <1>1. CASE kept = held \cup paths /\ Cardinality(held \cup paths) <= MaxDirtyHints
    BY <1>1
  <1>2. CASE /\ kept \in SUBSET (held \cup paths) /\ held \subseteq kept
             /\ Cardinality(kept) = MaxDirtyHints
    BY <1>2, SupervisorAssumption
  <1> QED
    BY <1>1, <1>2 DEF Admit

(* A method starts an attempt only where a call is in progress: those of   *)
(* disable_watch, cancel and shutdown leave an idle schedule idle.         *)
LEMMA StopsStartNothing ==
    ASSUME Schedule!ScheduleInv, active.id = NoId,
           Schedule!DisableWatch \/ Schedule!Shutdown \/ \E id \in Ids : Schedule!Cancel(id)
    PROVE  active'.id = NoId
  <1>1. pendingManual = NoId
    BY ScheduleTypes
  <1> QED
    BY <1>1 DEF Schedule!DisableWatch, Schedule!Shutdown, Schedule!Cancel,
       Schedule!RequestActiveCancellation, NoId, Schedule!NoId

LEMMA CallKeepsInv ==
    ASSUME SupervisorIInv, Schedule!ScheduleInv', Call PROVE SupervisorIInv'
  <1> USE ScheduleTypes
  <1>1. Schedule!ScheduleInv /\ SharedInv /\ rt \in RuntimeType
    BY DEF SupervisorIInv, SharedInv, Halves
  <1>2. ASSUME NEW c \in Callers, EnsureWorker(c) PROVE SupervisorIInv'
    <2>1. /\ UNCHANGED <<scheduleVars, rt, outcome, wakePermit, waiter, reported, settled>>
          /\ inCall' = inCall \cup {c}
      BY <1>2 DEF EnsureWorker
    <2>2. SharedInv'
      BY <1>1, <2>1 DEF SharedInv, scheduleVars
    <2>3. WorkersTrue(pc, run, active, rt, workerRunning)
          /\ CallsTrue(inCall, waiter, active, rt, workerRunning)
      BY DEF SupervisorIInv
    <2>4. CASE workerRunning /\ UNCHANGED <<workerRunning, pc, run>>
      <3>1. WorkersTrue(pc', run', active', rt', workerRunning')
        BY <2>1, <2>3, <2>4 DEF scheduleVars
      <3>2. CallsTrue(inCall', waiter', active', rt', workerRunning')
        BY <2>1, <2>3, <2>4 DEF scheduleVars, CallsTrue
      <3> QED
        BY <2>1, <2>2, <2>4, <3>1, <3>2 DEF SupervisorIInv
    <2>5. ASSUME NEW w \in Workers, ~workerRunning, workerRunning' = TRUE, pc[w] = "none",
                 pc' = [pc EXCEPT ![w] = "top"], run' = [run EXCEPT ![w] = NoId]
          PROVE  SupervisorIInv'
      <3>1. pc' \in [Workers -> Places] /\ run' \in [Workers -> Ids \cup {NoId}]
        BY <2>3, <2>5 DEF WorkersTrue, Places
      <3>2. \A v \in Workers : /\ pc'[v] = IF v = w THEN "top" ELSE pc[v]
                               /\ run'[v] = IF v = w THEN NoId ELSE run[v]
        BY <2>3, <2>5 DEF WorkersTrue
      <3>3. Alive(pc') = {w}
        BY <2>3, <2>5, <3>2 DEF WorkersTrue, Alive
      <3>4. ASSUME NEW v \in Workers PROVE PlaceTrue(pc'[v], run'[v], active', rt')
        <4>1. PlaceTrue(pc[v], run[v], active, rt)
          BY <2>3 DEF WorkersTrue
        <4> QED
          BY <2>1, <3>2, <4>1 DEF PlaceTrue, Executing, scheduleVars
      <3>5. WorkersTrue(pc', run', active', rt', workerRunning')
        BY <2>5, <3>1, <3>3, <3>4 DEF WorkersTrue
      <3>6. CallsTrue(inCall', waiter', active', rt', workerRunning')
        BY <2>1, <2>3, <2>5 DEF scheduleVars, CallsTrue
      <3> QED
        BY <2>1, <2>2, <2>5, <3>5, <3>6 DEF SupervisorIInv
    <2> QED
      BY <1>2, <2>4, <2>5 DEF EnsureWorker
  <1>3. ASSUME NEW c \in Callers, Refuse(c) PROVE SupervisorIInv'
    <2>1. UNCHANGED <<scheduleVars, rt, outcome, workerRunning, pc, run, wakePermit, waiter,
                      reported, settled>> /\ inCall' \subseteq inCall
      BY <1>3 DEF Refuse
    <2>2. SharedInv'
      BY <1>1, <2>1 DEF SharedInv, scheduleVars
    <2>3. WorkersTrue(pc', run', active', rt', workerRunning')
          /\ workerRunning' \in BOOLEAN /\ wakePermit' \in BOOLEAN
      BY <2>1 DEF SupervisorIInv, scheduleVars
    <2>4. CallsTrue(inCall', waiter', active', rt', workerRunning')
      BY <2>1 DEF SupervisorIInv, scheduleVars, CallsTrue
    <2> QED
      BY <2>2, <2>3, <2>4 DEF SupervisorIInv
  <1>4. ASSUME StartManual PROVE SupervisorIInv'
    <2> DEFINE id == nextOperationId + 1
               out == [outcome EXCEPT ![id] = "open"]
               r == [rt EXCEPT !.payloads = rt.payloads \cup {id},
                               !.records = Record(rt.records, id, "Queued")]
    <2>1. /\ Schedule!RequestManual /\ NotifyOne(pc)
          /\ inCall # {} /\ inCall' \subseteq inCall /\ ~rt.shuttingDown
          /\ rt' = [ApplyEffects(r, out).rt EXCEPT !.records = Trim(@)]
          /\ outcome' = ApplyEffects(r, out).outcome
          /\ UNCHANGED <<workerRunning, run, waiter, reported, settled>>
      BY <1>4 DEF StartManual
    <2>2. /\ pendingManual = NoId /\ active.trigger # "Manual" /\ nextOperationId < MaxOps
          /\ desired' = desired /\ watchEnabled' = watchEnabled
      BY <2>1 DEF Schedule!RequestManual, NoId
    <2>3. /\ id \in Ids /\ id \in Nat /\ id # NoId /\ id # active.id
      BY <1>1, <2>2, SupervisorAssumption DEF Ids, NoId, Schedule!NoId, ActiveType
    <2>4. /\ Halves(rt, active, NoId) /\ HintsHeld(rt, active, reported, settled)
          /\ ReceiptsTrue(rt.records, outcome, active, NoId, nextOperationId)
          /\ outcome \in [Ids -> Outcomes] /\ Cardinality(Recorded(rt.records)) <= Limit
          /\ rt.records \in [Ids -> RecordStates \cup {NoRecord}]
      BY <1>1, <2>2 DEF SharedInv, RuntimeType
    <2>5. Follows(active, id, id)
      <3>1. CASE /\ pendingManual' = id /\ nextOperationId' = id
                 /\ Schedule!RequestActiveCancellation("ManualPriority")
        BY <3>1, CancellationFollows DEF Schedule!Reasons
      <3>2. CASE active.id = NoId /\ Schedule!ScheduleNext(id, id)
        BY <1>1, <2>3, <3>2, ScheduleNextFollows
      <3> QED
        BY <2>1, <3>1, <3>2 DEF Schedule!RequestManual, NoId
    <2>6. /\ r.attempt = rt.attempt /\ r.payloads = rt.payloads \cup {id}
          /\ r.records = Record(rt.records, id, "Queued") /\ r.panicked = rt.panicked
          /\ r.shuttingDown = rt.shuttingDown /\ r.watchRequest = rt.watchRequest
          /\ r.dirty = rt.dirty /\ r.dirtyOverflow = rt.dirtyOverflow
      BY <1>1 DEF RuntimeType
    <2>7. Record(rt.records, id, "Queued") \in [Ids -> RecordStates \cup {NoRecord}]
      BY <2>3, <2>4, SetRecordResult DEF RecordStates
    <2>8. r \in RuntimeType
      BY <1>1, <2>3, <2>7 DEF RuntimeType
    <2>9. out \in [Ids -> Outcomes] /\ \A i \in Ids : out[i] = IF i = id THEN "open" ELSE outcome[i]
      BY <2>3, <2>4 DEF Outcomes
    <2> HIDE DEF r, out, id
    <2>10. Halves(r, active, id)
      BY <2>3, <2>4, <2>6, <2>8 DEF Halves
    <2>11. HintsHeld(r, active, reported', settled')
      BY <2>1, <2>4, <2>6 DEF HintsHeld
    <2>12. ReceiptsTrue(r.records, out, active, id, id)
      <3> SUFFICES ASSUME NEW i \in Ids
                   PROVE  ReceiptTrue(r.records[i], out[i], active, id, id, i)
        BY DEF ReceiptsTrue
      <3>1. ReceiptTrue(rt.records[i], outcome[i], active, NoId, nextOperationId, i)
        BY <2>4 DEF ReceiptsTrue
      <3>2. r.records[i] = IF i = id THEN "Queued" ELSE rt.records[i]
        BY <2>3, <2>4, <2>6, SetRecordResult DEF RecordStates
      <3>3. out[i] = IF i = id THEN "open" ELSE outcome[i]
        BY <2>9
      <3>4. i \in Nat /\ i # NoId /\ (i > id => i > nextOperationId)
        BY <1>1, IdsFinite, SupervisorAssumption DEF id, Ids, NoId, Schedule!NoId
      <3>5. CASE i = id
        BY <2>3, <3>2, <3>3, <3>5, IdsFinite DEF ReceiptTrue, LiveReceipt, Schedule!Results
      <3>6. CASE i # id
        BY <3>1, <3>2, <3>3, <3>4, <3>6 DEF ReceiptTrue, LiveReceipt
      <3> QED
        BY <3>5, <3>6
    <2>13. Cardinality(Recorded(r.records)) <= Limit + 1
      <3>1. "Queued" \in RecordStates
        BY DEF RecordStates
      <3>2. /\ Cardinality(Recorded(rt.records)) \in Nat
            /\ Cardinality(Recorded(r.records)) <= Cardinality(Recorded(rt.records)) + 1
        BY <2>3, <2>4, <2>6, <3>1, RecordedAfter
      <3>3. IsFiniteSet(Recorded(r.records))
        BY IdsFinite, FS_Subset DEF Recorded
      <3>4. Cardinality(Recorded(r.records)) \in Nat /\ Limit \in Nat
        BY <3>3, FS_CardinalityType, SupervisorAssumption DEF Limit, Schedule!Later
      <3> QED
        BY <2>4, <3>2, <3>4
    <2>14. /\ reported' \in [Paths -> 0..desired'] /\ settled' \in 0..desired'
           /\ watchEnabled' => r.watchRequest # "None"
      BY <1>1, <2>1, <2>2, <2>6 DEF SharedInv
    <2>15. /\ SharedInv' /\ rt'.shuttingDown = r.shuttingDown
           /\ active.id # NoId => active'.id = active.id /\ rt'.attempt.started = r.attempt.started
      BY <1>1, <2>1, <2>3, <2>5, <2>9, <2>10, <2>11, <2>12, <2>13, <2>14, SectionInv
    <2> QED
      BY <2>1, <2>6, <2>15, SectionKeepsTasks
  <1>5. ASSUME NEW request \in Requests, NEW initial \in BOOLEAN, EnableWatch(request, initial)
        PROVE  SupervisorIInv'
    <2> DEFINE r == [rt EXCEPT !.watchRequest = request]
    <2>1. /\ r \in RuntimeType /\ r.attempt = rt.attempt /\ r.payloads = rt.payloads
          /\ r.records = rt.records /\ r.panicked = rt.panicked /\ r.shuttingDown = rt.shuttingDown
          /\ r.watchRequest = request /\ r.dirty = rt.dirty /\ r.dirtyOverflow = rt.dirtyOverflow
      BY <1>1 DEF RuntimeType
    <2> HIDE DEF r
    <2>2. /\ Schedule!EnableWatch(initial) /\ Apply(r) /\ NotifyOne(pc)
          /\ inCall # {} /\ inCall' \subseteq inCall /\ ~rt.shuttingDown
          /\ UNCHANGED <<workerRunning, run, waiter, reported, settled>>
      BY <1>5 DEF EnableWatch, r
    <2>3. HintsHeld(r, active, reported', settled')
      BY <1>1, <2>1, <2>2 DEF SharedInv, HintsHeld
    <2>4. desired <= desired' /\ desired' \in Nat
      BY <1>1, <2>2 DEF Schedule!EnableWatch
    <2>5. reported' \in [Paths -> 0..desired'] /\ settled' \in 0..desired'
      BY <1>1, <2>2, <2>4 DEF SharedInv
    <2>6. request # "None"
      BY DEF Requests
    <2>7. Method
      BY <2>2 DEF Method
    <2>8. /\ SharedInv' /\ rt'.shuttingDown = r.shuttingDown
          /\ active.id # NoId => active'.id = active.id /\ rt'.attempt.started = rt.attempt.started
      BY <2>1, <2>2, <2>3, <2>5, <2>6, <2>7, MethodSectionInv
    <2> QED
      BY <2>1, <2>2, <2>8, SectionKeepsTasks
  <1>6. ASSUME DisableWatch PROVE SupervisorIInv'
    <2> DEFINE r == [rt EXCEPT !.watchRequest = "None"]
    <2>1. /\ r \in RuntimeType /\ r.attempt = rt.attempt /\ r.payloads = rt.payloads
          /\ r.records = rt.records /\ r.panicked = rt.panicked /\ r.shuttingDown = rt.shuttingDown
          /\ r.dirty = rt.dirty /\ r.dirtyOverflow = rt.dirtyOverflow
      BY <1>1 DEF RuntimeType
    <2> HIDE DEF r
    <2>2. /\ Schedule!DisableWatch /\ Apply(r) /\ NotifyOne(pc)
          /\ UNCHANGED <<workerRunning, run, inCall, waiter, reported, settled>>
      BY <1>6 DEF DisableWatch, r
    <2>3. HintsHeld(r, active, reported', settled')
      BY <1>1, <2>1, <2>2 DEF SharedInv, HintsHeld
    <2>4. /\ desired' = desired /\ watchEnabled' = FALSE
          /\ reported' \in [Paths -> 0..desired'] /\ settled' \in 0..desired'
      BY <1>1, <2>2 DEF SharedInv, Schedule!DisableWatch
    <2>5. Method
      BY <2>2 DEF Method
    <2>6. /\ SharedInv' /\ rt'.shuttingDown = r.shuttingDown
          /\ active.id # NoId => active'.id = active.id /\ rt'.attempt.started = rt.attempt.started
      BY <2>1, <2>2, <2>3, <2>4, <2>5, MethodSectionInv
    <2>7. active.id = NoId => active'.id = NoId
      BY <1>1, <2>2, StopsStartNothing
    <2> QED
      BY <2>1, <2>2, <2>6, <2>7, SectionKeepsTasks
  <1>7. ASSUME NEW paths \in SUBSET Paths, ObserveChanges(paths) PROVE SupervisorIInv'
    <2>1. PICK held \in Admit(rt.dirty, paths) :
            Apply([rt EXCEPT !.dirty = held,
                             !.dirtyOverflow = @ \/ held # rt.dirty \cup paths])
      BY <1>7 DEF ObserveChanges
    <2> DEFINE over == rt.dirtyOverflow \/ held # rt.dirty \cup paths
               r == [rt EXCEPT !.dirty = held, !.dirtyOverflow = over]
    <2>2. /\ rt.dirty \subseteq held /\ held \subseteq rt.dirty \cup paths
          /\ Cardinality(held) <= MaxDirtyHints
      BY <2>1, AdmitResult
    <2>3. /\ r \in RuntimeType /\ r.attempt = rt.attempt /\ r.payloads = rt.payloads
          /\ r.records = rt.records /\ r.panicked = rt.panicked /\ r.shuttingDown = rt.shuttingDown
          /\ r.watchRequest = rt.watchRequest /\ r.dirty = held /\ r.dirtyOverflow = over
      BY <1>1, <2>2 DEF RuntimeType
    <2>4. Apply(r)
      BY <2>1
    <2> HIDE DEF r
    <2>5. /\ Schedule!RequestReconciliation(TRUE) /\ NotifyOne(pc)
          /\ inCall # {} /\ inCall' \subseteq inCall /\ ~rt.shuttingDown
          /\ reported' = [p \in Paths |-> IF p \in paths THEN desired' ELSE reported[p]]
          /\ UNCHANGED <<workerRunning, run, waiter, settled>>
      BY <1>7 DEF ObserveChanges
    <2>6. desired' = desired + 1 /\ watchEnabled' = watchEnabled
      BY <2>5 DEF Schedule!RequestReconciliation
    <2>7. reported' \in [Paths -> 0..desired'] /\ settled' \in 0..desired'
      BY <1>1, <2>5, <2>6 DEF SharedInv
    <2>8. HintsHeld(r, active, reported', settled')
      <3>1. HintsHeld(rt, active, reported, settled)
        BY <1>1 DEF SharedInv
      <3>2. \A p \in Paths : reported'[p] = IF p \in paths THEN desired' ELSE reported[p]
        BY <2>5
      <3>3. \A p \in Paths : p \in rt.dirty => p \in held
        BY <2>2
      <3>4. \A p \in paths : p \in held \/ over
        OBVIOUS
      <3>5. active.covered \in Nat /\ active.covered < desired'
        BY <1>1, <2>6 DEF ActiveType
      <3>6. rt.dirtyOverflow => over
        OBVIOUS
      <3> HIDE DEF over
      <3>7. /\ Cardinality(r.dirty) <= MaxDirtyHints
            /\ Cardinality(r.attempt.hints) <= MaxDirtyHints
        BY <2>2, <2>3, <3>1 DEF HintsHeld
      <3>8. ASSUME NEW p \in Paths, reported'[p] > settled'
            PROVE  /\ p \in r.dirty \cup r.attempt.hints \/ r.dirtyOverflow \/ r.attempt.overflow
                   /\ active.id # NoId =>
                         IF reported'[p] <= active.covered
                         THEN p \in r.attempt.hints \/ r.attempt.overflow
                         ELSE p \in r.dirty \/ r.dirtyOverflow
        <4>1. CASE p \in paths
          <5>1. reported'[p] = desired' /\ ~(desired' <= active.covered)
            BY <1>1, <2>6, <3>2, <3>5, <4>1
          <5>2. p \in r.dirty \/ r.dirtyOverflow
            BY <2>3, <3>4, <4>1
          <5> QED
            BY <5>1, <5>2
        <4>2. CASE p \notin paths
          <5>1. reported'[p] = reported[p] /\ reported[p] > settled
            BY <2>5, <3>2, <3>8, <4>2
          <5> QED
            BY <2>3, <3>1, <3>3, <3>6, <5>1 DEF HintsHeld
        <4> QED
          BY <4>1, <4>2
      <3> QED
        BY <3>7, <3>8 DEF HintsHeld
    <2>9. watchEnabled' => r.watchRequest # "None"
      BY <1>1, <2>3, <2>6 DEF SharedInv
    <2>10. Method
      BY <2>5 DEF Method
    <2>11. /\ SharedInv' /\ rt'.shuttingDown = r.shuttingDown
           /\ active.id # NoId => active'.id = active.id /\ rt'.attempt.started = rt.attempt.started
      BY <2>3, <2>4, <2>7, <2>8, <2>9, <2>10, MethodSectionInv
    <2> QED
      BY <2>3, <2>5, <2>11, SectionKeepsTasks
  <1>8. ASSUME PeriodicReconciliation PROVE SupervisorIInv'
    <2>1. /\ Schedule!RequestReconciliation(FALSE) /\ Apply(rt) /\ NotifyOne(pc)
          /\ inCall # {} /\ inCall' \subseteq inCall /\ ~rt.shuttingDown
          /\ UNCHANGED <<workerRunning, run, waiter, reported, settled>>
      BY <1>8 DEF PeriodicReconciliation
    <2>2. desired' = desired + 1 /\ watchEnabled' = watchEnabled
      BY <2>1 DEF Schedule!RequestReconciliation
    <2>3. /\ reported' \in [Paths -> 0..desired'] /\ settled' \in 0..desired'
          /\ HintsHeld(rt, active, reported', settled')
          /\ watchEnabled' => rt.watchRequest # "None"
      BY <1>1, <2>1, <2>2 DEF SharedInv
    <2>4. Method
      BY <2>1 DEF Method
    <2>5. /\ SharedInv' /\ rt'.shuttingDown = rt.shuttingDown
          /\ active.id # NoId => active'.id = active.id /\ rt'.attempt.started = rt.attempt.started
      BY <1>1, <2>1, <2>3, <2>4, MethodSectionInv
    <2> QED
      BY <2>1, <2>5, SectionKeepsTasks
  <1>9. ASSUME NEW id \in Ids, Cancel(id) PROVE SupervisorIInv'
    <2>1. /\ Schedule!Cancel(id) /\ Apply(rt) /\ NotifyOne(pc)
          /\ UNCHANGED <<workerRunning, run, inCall, waiter, reported, settled>>
      BY <1>9 DEF Cancel
    <2>2. desired' = desired /\ watchEnabled' = watchEnabled
      BY <2>1 DEF Schedule!Cancel
    <2>3. /\ reported' \in [Paths -> 0..desired'] /\ settled' \in 0..desired'
          /\ HintsHeld(rt, active, reported', settled')
          /\ watchEnabled' => rt.watchRequest # "None"
      BY <1>1, <2>1, <2>2 DEF SharedInv
    <2>4. Method
      BY <2>1 DEF Method
    <2>5. /\ SharedInv' /\ rt'.shuttingDown = rt.shuttingDown
          /\ active.id # NoId => active'.id = active.id /\ rt'.attempt.started = rt.attempt.started
      BY <1>1, <2>1, <2>3, <2>4, MethodSectionInv
    <2>6. active.id = NoId => active'.id = NoId
      BY <1>1, <2>1, StopsStartNothing
    <2> QED
      BY <2>1, <2>5, <2>6, SectionKeepsTasks
  <1>10. ASSUME Shutdown PROVE SupervisorIInv'
    <2> DEFINE r == [rt EXCEPT !.shuttingDown = TRUE, !.watchRequest = "None"]
    <2>1. /\ r \in RuntimeType /\ r.attempt = rt.attempt /\ r.payloads = rt.payloads
          /\ r.records = rt.records /\ r.panicked = rt.panicked /\ r.shuttingDown
          /\ r.dirty = rt.dirty /\ r.dirtyOverflow = rt.dirtyOverflow
      BY <1>1 DEF RuntimeType
    <2> HIDE DEF r
    <2>2. /\ Schedule!Shutdown /\ Apply(r) /\ NotifyOne(pc)
          /\ waiter' = [waiter EXCEPT !.place = "register"]
          /\ UNCHANGED <<workerRunning, run, inCall, reported, settled>>
      BY <1>10 DEF Shutdown, r
    <2>3. HintsHeld(r, active, reported', settled')
      BY <1>1, <2>1, <2>2 DEF SharedInv, HintsHeld
    <2>4. /\ desired' = desired /\ watchEnabled' = FALSE
          /\ reported' \in [Paths -> 0..desired'] /\ settled' \in 0..desired'
      BY <1>1, <2>2 DEF SharedInv, Schedule!Shutdown
    <2>5. Method
      BY <2>2 DEF Method
    <2>6. /\ SharedInv' /\ rt'.shuttingDown = r.shuttingDown
          /\ active.id # NoId => active'.id = active.id /\ rt'.attempt.started = rt.attempt.started
      BY <2>1, <2>2, <2>3, <2>4, <2>5, MethodSectionInv
    <2>7. active.id = NoId => active'.id = NoId
      BY <1>1, <2>2, StopsStartNothing
    <2> QED
      BY <2>1, <2>2, <2>6, <2>7, SectionKeepsTasks
  <1> QED
    BY <1>2, <1>3, <1>4, <1>5, <1>6, <1>7, <1>8, <1>9, <1>10 DEF Call

LEMMA WaitKeepsInv ==
    ASSUME SupervisorIInv, Wait PROVE SupervisorIInv'
  <1>1. UNCHANGED <<scheduleVars, rt, outcome, workerRunning, pc, run, wakePermit, inCall,
                    reported, settled>>
    BY DEF Wait, RegisterWaiter, CheckWorker, WakeWaiter
  <1>2. Schedule!ScheduleInv'
    BY <1>1, ScheduleStepInv DEF SupervisorIInv
  <1>3. SharedInv'
    BY <1>1 DEF SupervisorIInv, SharedInv, scheduleVars
  <1>4. WorkersTrue(pc', run', active', rt', workerRunning')
    BY <1>1 DEF SupervisorIInv, scheduleVars
  <1>5. CallsTrue(inCall', waiter', active', rt', workerRunning')
    <2>1. CallsTrue(inCall, waiter, active, rt, workerRunning)
      BY DEF SupervisorIInv
    <2>2. UNCHANGED <<inCall, active, rt, workerRunning>>
      BY <1>1 DEF scheduleVars
    <2>3. CASE RegisterWaiter \/ WakeWaiter
      <3>1. /\ waiter.place # "idle" /\ waiter'.place \in {"register", "check"}
            /\ waiter' \in [place : {"idle", "register", "check", "asleep", "returned"},
                             registered : BOOLEAN, notified : BOOLEAN]
        <4>1. CASE RegisterWaiter
          BY <4>1 DEF RegisterWaiter
        <4>2. CASE WakeWaiter
          BY <4>2 DEF WakeWaiter
        <4> QED
          BY <2>3, <4>1, <4>2
      <3> QED
        BY <2>1, <2>2, <3>1 DEF CallsTrue
    <2>4. CASE CheckWorker
      <3>1. /\ waiter.place = "check" /\ waiter'.place = IF workerRunning THEN "asleep" ELSE "returned"
            /\ waiter' \in [place : {"idle", "register", "check", "asleep", "returned"},
                             registered : BOOLEAN, notified : BOOLEAN]
        BY <2>1, <2>4 DEF CallsTrue, CheckWorker
      <3> QED
        BY <2>1, <2>2, <3>1 DEF CallsTrue
    <2> QED
      BY <2>3, <2>4 DEF Wait
  <1> QED
    BY <1>1, <1>2, <1>3, <1>4, <1>5 DEF SupervisorIInv

-----------------------------------------------------------------------------
(* The worker.                                                             *)

(* A worker's move between places, when it is allowed to be in the new one.*)
LEMMA WorkerMoves ==
    ASSUME NEW places, NEW runs, NEW act, NEW r, NEW running,
           WorkersTrue(places, runs, act, r, running),
           NEW w \in Workers, places[w] \notin {"none", "notifying"},
           NEW place \in Places \ {"none", "notifying"}, NEW taken \in Ids \cup {NoId},
           NEW newAct, NEW newR, PlaceTrue(place, taken, newAct, newR)
    PROVE  WorkersTrue([places EXCEPT ![w] = place], [runs EXCEPT ![w] = taken], newAct, newR, running)
  <1> DEFINE places2 == [places EXCEPT ![w] = place]
             runs2 == [runs EXCEPT ![w] = taken]
  <1>1. /\ places \in [Workers -> Places] /\ runs \in [Workers -> Ids \cup {NoId}]
        /\ running /\ Alive(places) = {w}
        /\ \A v \in Workers : PlaceTrue(places[v], runs[v], act, r)
    BY DEF WorkersTrue, Alive
  <1>2. /\ places2 \in [Workers -> Places] /\ runs2 \in [Workers -> Ids \cup {NoId}]
        /\ \A v \in Workers : /\ places2[v] = IF v = w THEN place ELSE places[v]
                              /\ runs2[v] = IF v = w THEN taken ELSE runs[v]
    BY <1>1
  <1> HIDE DEF places2, runs2
  <1>3. Alive(places2) = {w}
    BY <1>1, <1>2 DEF Alive
  <1>4. ASSUME NEW v \in Workers PROVE PlaceTrue(places2[v], runs2[v], newAct, newR)
    <2>1. CASE v = w
      BY <1>2, <2>1
    <2>2. CASE v # w
      <3>1. places[v] \in {"none", "notifying"}
        BY <1>1, <2>2 DEF Alive
      <3> QED
        BY <1>2, <2>2, <3>1 DEF PlaceTrue, Executing
    <2> QED
      BY <2>1, <2>2
  <1>5. WorkersTrue(places2, runs2, newAct, newR, running)
    BY <1>1, <1>2, <1>3, <1>4 DEF WorkersTrue
  <1> QED
    BY <1>5 DEF places2, runs2

(* The end of an attempt: what finish_runtime_operation leaves behind, seen*)
(* from the schedule without an attempt, and what schedule_next makes of   *)
(* it.                                                                     *)
LEMMA FinishKeepsInv ==
    ASSUME SupervisorIInv, Schedule!ScheduleInv', NEW w \in Workers,
           NEW result \in Schedule!Results, FinishRun(w, result)
    PROVE  SupervisorIInv'
  <1> USE ScheduleTypes
  <1> DEFINE id == rt.attempt.id
             end == EndState(result, rt.attempt.reason)
             answered == IF rt.attempt.trigger = "Manual"
                         THEN [outcome EXCEPT ![id] = result] ELSE outcome
  <1>1. /\ Schedule!ScheduleInv /\ SharedInv /\ rt \in RuntimeType
        /\ workerRunning \in BOOLEAN /\ wakePermit \in BOOLEAN
        /\ WorkersTrue(pc, run, active, rt, workerRunning)
        /\ CallsTrue(inCall, waiter, active, rt, workerRunning)
        /\ PlaceTrue(pc[w], run[w], active, rt)
        /\ pc \in [Workers -> Places] /\ run \in [Workers -> Ids \cup {NoId}]
    BY DEF SupervisorIInv, SharedInv, Halves, WorkersTrue
  <1>2. /\ MayEnd(w, result) /\ Schedule!Finish(result)
        /\ NotifyOne([pc EXCEPT ![w] = "top"]) /\ run' = [run EXCEPT ![w] = NoId]
        /\ settled' = IF result = "Published" THEN Schedule!Later(settled, active.covered) ELSE settled
        /\ UNCHANGED <<workerRunning, waiter, inCall, reported>>
    BY DEF FinishRun
  <1>3. PICK held \in HintsAfter(result) :
          LET ended == [rt EXCEPT !.attempt = NoAttempt,
                                  !.dirty = held,
                                  !.dirtyOverflow = OverflowAfter(result, held),
                                  !.records = SetRecord(@, id, end)]
              applied == ApplyEffects(ended, answered)
          IN  /\ rt' = [applied.rt EXCEPT !.records = Trim(@)]
              /\ outcome' = applied.outcome
    BY Zenon DEF FinishRun
  <1> DEFINE r == [rt EXCEPT !.attempt = NoAttempt,
                             !.dirty = held,
                             !.dirtyOverflow = OverflowAfter(result, held),
                             !.records = SetRecord(rt.records, id, end)]
  <1>4. /\ rt' = [ApplyEffects(r, answered).rt EXCEPT !.records = Trim(@)]
        /\ outcome' = ApplyEffects(r, answered).outcome
    BY <1>1, <1>3 DEF RuntimeType
  <1>5. /\ active.id # NoId /\ (result = "Cancelled" => active.cancel # "None")
        /\ UNCHANGED <<desired, watchEnabled>>
        /\ Schedule!ScheduleNext(pendingManual, nextOperationId)
    BY <1>2 DEF Schedule!Finish, NoId
  <1>6. /\ Halves(rt, active, pendingManual) /\ HintsHeld(rt, active, reported, settled)
        /\ ReceiptsTrue(rt.records, outcome, active, pendingManual, nextOperationId)
        /\ outcome \in [Ids -> Outcomes] /\ Cardinality(Recorded(rt.records)) <= Limit
        /\ rt.records \in [Ids -> RecordStates \cup {NoRecord}]
        /\ rt.attempt \in Attempts /\ rt.dirty \in SUBSET Paths
        /\ reported \in [Paths -> 0..desired] /\ settled \in 0..desired
    BY <1>1 DEF SharedInv, RuntimeType
  <1>7. /\ id = active.id /\ id \in Ids /\ id # pendingManual
        /\ rt.attempt.trigger = active.trigger /\ rt.attempt.reason = active.cancel
    BY <1>1, <1>5, <1>6 DEF Halves, Attempts
  <1>8. end \in Terminal /\ end \in RecordStates
    BY <1>7 DEF EndState, Terminal, RecordStates, Schedule!Results
  <1>9. SetRecord(rt.records, id, end) \in [Ids -> RecordStates \cup {NoRecord}]
    BY <1>6, <1>7, <1>8, SetRecordResult
  <1>10. /\ rt.dirty \subseteq held /\ held \subseteq rt.dirty \cup rt.attempt.hints
         /\ Cardinality(held) <= MaxDirtyHints
         /\ result = "Published" => held = rt.dirty
    BY <1>6, AdmitResult DEF HintsAfter, HintsHeld
  <1>11. /\ r.attempt = NoAttempt /\ r.payloads = rt.payloads
         /\ r.records = SetRecord(rt.records, id, end) /\ r.panicked = rt.panicked
         /\ r.shuttingDown = rt.shuttingDown /\ r.watchRequest = rt.watchRequest
         /\ r.dirty = held /\ r.dirtyOverflow = OverflowAfter(result, held)
    BY <1>1 DEF RuntimeType
  <1>12. r \in RuntimeType
    <2>1. OverflowAfter(result, held) \in BOOLEAN
      BY <1>1, <1>6 DEF OverflowAfter, RuntimeType, Attempts
    <2>2. NoAttempt \in Attempts
      BY DEF NoAttempt, Attempts, NoId
    <2>3. held \in SUBSET Paths
      BY <1>6, <1>10 DEF Attempts
    <2> QED
      BY <1>1, <1>9, <2>1, <2>2, <2>3 DEF RuntimeType
  <1>13. answered \in [Ids -> Outcomes]
         /\ \A i \in Ids : answered[i] = IF i = id /\ active.trigger = "Manual" THEN result
                                         ELSE outcome[i]
    BY <1>6, <1>7 DEF Outcomes
  <1> HIDE DEF r, answered
  <1>14. Schedule!NoActive \in ActiveType /\ Schedule!NoActive.id = NoId
    BY DEF Schedule!NoActive, ActiveType, NoId, Schedule!NoId
  <1>15. Follows(Schedule!NoActive, pendingManual, nextOperationId)
    BY <1>1, <1>5, ScheduleNextFollows
  <1>16. Halves(r, Schedule!NoActive, pendingManual)
    BY <1>6, <1>11, <1>12 DEF Halves, NoAttempt, Schedule!NoActive, NoId
  <1>17. HintsHeld(r, Schedule!NoActive, reported', settled')
    <2>1. /\ r.dirty = held /\ r.attempt.hints = {} /\ r.attempt.overflow = FALSE
          /\ Cardinality({}) <= MaxDirtyHints
      BY <1>11, FS_EmptySet, SupervisorAssumption DEF NoAttempt
    <2>2. ASSUME NEW p \in Paths, reported'[p] > settled'
          PROVE  p \in held \/ r.dirtyOverflow
      <3>1. reported[p] \in Nat /\ settled \in Nat /\ active.covered \in Nat /\ reported' = reported
        BY <1>1, <1>2, <1>6 DEF ActiveType
      <3>2. CASE result = "Published"
        <4>1. reported[p] > settled /\ reported[p] > active.covered
          BY <1>2, <2>2, <3>1, <3>2 DEF Schedule!Later
        <4>2. p \in rt.dirty \/ rt.dirtyOverflow
          BY <1>5, <1>6, <3>1, <4>1 DEF HintsHeld
        <4> QED
          BY <1>10, <1>11, <4>2 DEF OverflowAfter
      <3>3. CASE result # "Published"
        <4>1. reported[p] > settled
          BY <1>2, <2>2, <3>1, <3>3
        <4>2. p \in rt.dirty \cup rt.attempt.hints \/ rt.dirtyOverflow \/ rt.attempt.overflow
          BY <1>6, <4>1 DEF HintsHeld
        <4> QED
          BY <1>11, <3>3, <4>2 DEF OverflowAfter
      <3> QED
        BY <3>2, <3>3
    <2> QED
      BY <1>10, <1>14, <2>1, <2>2 DEF HintsHeld
  <1>18. ReceiptsTrue(r.records, answered, Schedule!NoActive, pendingManual, nextOperationId)
    <2> SUFFICES ASSUME NEW i \in Ids
                 PROVE  ReceiptTrue(r.records[i], answered[i], Schedule!NoActive, pendingManual,
                                    nextOperationId, i)
      BY DEF ReceiptsTrue
    <2>1. ReceiptTrue(rt.records[i], outcome[i], active, pendingManual, nextOperationId, i)
      BY <1>6 DEF ReceiptsTrue
    <2>2. i \in Nat /\ i # NoId
      BY IdsFinite DEF Ids, NoId, Schedule!NoId
    <2>3. LiveReceipt(active, pendingManual, id) \notin Terminal \cup {NoRecord}
      BY DEF LiveReceipt, TellState, Terminal, NoRecord
    <2>4. CASE i = id
      <3>1. rt.records[i] = LiveReceipt(active, pendingManual, id)
        BY <1>7, <2>1, <2>4 DEF ReceiptTrue
      <3>2. r.records[i] = end
        BY <1>6, <1>7, <1>8, <1>11, <2>3, <2>4, <3>1, SetRecordResult
      <3>3. CASE active.trigger = "Manual"
        <4>1. answered[i] = result
          BY <1>13, <2>4, <3>3
        <4>2. rt.attempt.reason # "Superseded"
          BY <1>1, <1>7, <3>3 DEF Schedule!ScheduleInv, Schedule!ManualCancelledOnlyExplicitly
        <4>3. end = EndState(result, "None")
          BY <4>2 DEF EndState, Schedule!Results
        <4>4. result # "open"
          BY DEF Schedule!Results
        <4> QED
          BY <1>1, <1>7, <1>8, <1>14, <2>2, <2>4, <3>2, <4>1, <4>3, <4>4 DEF ReceiptTrue, ActiveType
      <3>4. CASE active.trigger # "Manual"
        <4>1. answered[i] = outcome[i]
          BY <1>13, <2>4, <3>4
        <4>2. outcome[i] \notin Schedule!Results \cup {"open"}
          <5>1. EndState(outcome[i], "None") \in Terminal \/ outcome[i] \notin Schedule!Results
            BY DEF EndState, Terminal, Schedule!Results
          <5> QED
            BY <1>7, <2>1, <2>3, <2>4, <3>1, <3>4, <5>1 DEF ReceiptTrue
        <4> QED
          BY <1>1, <1>7, <1>8, <1>14, <2>2, <2>4, <3>2, <4>1, <4>2 DEF ReceiptTrue, ActiveType
      <3> QED
        BY <3>3, <3>4
    <2>5. CASE i # id
      <3>1. r.records[i] = rt.records[i] /\ answered[i] = outcome[i]
        BY <1>6, <1>7, <1>8, <1>11, <1>13, <2>5, SetRecordResult
      <3> QED
        BY <1>7, <1>14, <2>1, <2>2, <2>5, <3>1 DEF ReceiptTrue, LiveReceipt
    <2> QED
      BY <2>4, <2>5
  <1>19. Cardinality(Recorded(r.records)) <= IF pendingManual = NoId THEN Limit ELSE Limit + 1
    <2>1. Limit \in Nat
      BY SupervisorAssumption DEF Limit, Schedule!Later
    <2>2. Cardinality(Recorded(rt.records)) \in Nat /\ Recorded(r.records) = Recorded(rt.records)
      BY <1>6, <1>7, <1>8, <1>11, RecordedAfter
    <2> QED
      BY <1>6, <2>1, <2>2
  <1>20. /\ reported' \in [Paths -> 0..desired'] /\ settled' \in 0..desired'
         /\ watchEnabled' => r.watchRequest # "None"
    <2>1. active.covered \in 0..desired
      BY <1>1 DEF ActiveType
    <2> QED
      BY <1>1, <1>2, <1>5, <1>6, <1>11, <2>1 DEF SharedInv, Schedule!Later
  <1>21. SharedInv' /\ rt'.shuttingDown = rt.shuttingDown
    <2>1. SharedInv' /\ rt'.shuttingDown = r.shuttingDown
      BY <1>1, <1>4, <1>13, <1>14, <1>15, <1>16, <1>17, <1>18, <1>19, <1>20, SectionInv
    <2> QED
      BY <1>11, <2>1
  <1>22. WorkersTrue(pc', run', active', rt', workerRunning') /\ wakePermit' \in BOOLEAN
    <2>1. pc[w] \notin {"none", "notifying"}
      BY <1>2 DEF MayEnd
    <2>2. PlaceTrue("top", NoId, active', rt')
      BY DEF PlaceTrue, Executing
    <2> DEFINE places == [pc EXCEPT ![w] = "top"]
               runs == [run EXCEPT ![w] = NoId]
    <2>3. WorkersTrue(places, runs, active', rt', workerRunning)
      BY <1>1, <2>1, <2>2, WorkerMoves DEF Places
    <2>4. NotifyOne(places) /\ run' = runs
      BY <1>2
    <2> HIDE DEF places, runs
    <2>5. WorkersTrue(pc', runs, active', rt', workerRunning) /\ wakePermit' \in BOOLEAN
      BY <1>1, <2>3, <2>4, NotifyKeepsWorkers
    <2> QED
      BY <1>2, <2>4, <2>5
  <1>23. CallsTrue(inCall', waiter', active', rt', workerRunning')
    BY <1>1, <1>2, <1>5, <1>21 DEF CallsTrue
  <1> QED
    BY <1>2, <1>21, <1>22, <1>23, <1>1 DEF SupervisorIInv

LEMMA WorkerKeepsInv ==
    ASSUME SupervisorIInv, Schedule!ScheduleInv', NEW w \in Workers, Worker(w)
    PROVE  SupervisorIInv'
  <1> USE ScheduleTypes
  <1>1. /\ Schedule!ScheduleInv /\ SharedInv /\ rt \in RuntimeType
        /\ workerRunning \in BOOLEAN /\ wakePermit \in BOOLEAN
        /\ WorkersTrue(pc, run, active, rt, workerRunning)
        /\ CallsTrue(inCall, waiter, active, rt, workerRunning)
        /\ PlaceTrue(pc[w], run[w], active, rt) /\ run[w] \in Ids \cup {NoId}
        /\ pc \in [Workers -> Places] /\ run \in [Workers -> Ids \cup {NoId}]
    BY DEF SupervisorIInv, SharedInv, Halves, WorkersTrue
  <1>2. run = [run EXCEPT ![w] = run[w]]
    BY <1>1
  <1>3. ASSUME NEW from \in Places \ {"none", "notifying"}, NEW to \in Places \ {"none", "notifying"},
               Move(w, from, to), UNCHANGED <<rt, run, workerRunning, waiter>>, wakePermit' \in BOOLEAN,
               PlaceTrue(to, run[w], active, rt)
        PROVE  SupervisorIInv'
    <2>1. /\ pc[w] = from /\ pc' = [pc EXCEPT ![w] = to]
          /\ UNCHANGED <<scheduleVars, outcome, inCall, reported, settled>>
      BY <1>3 DEF Move
    <2>2. SharedInv' /\ CallsTrue(inCall', waiter', active', rt', workerRunning')
      BY <1>1, <1>3, <2>1 DEF SharedInv, scheduleVars
    <2>3. WorkersTrue([pc EXCEPT ![w] = to], [run EXCEPT ![w] = run[w]], active, rt, workerRunning)
      BY <1>1, <1>3, <2>1, WorkerMoves
    <2>4. WorkersTrue(pc', run', active', rt', workerRunning')
      BY <1>2, <1>3, <2>1, <2>3 DEF scheduleVars
    <2> QED
      BY <1>1, <1>3, <2>2, <2>4 DEF SupervisorIInv
  <1>4. CASE TakeRun(w)
    <2>1. CASE rt.attempt.id = NoId \/ rt.attempt.started
      <3>1. run[w] = NoId
        BY <1>1, <1>4 DEF TakeRun, Move, PlaceTrue
      <3>2. PlaceTrue("recheck", run[w], active, rt)
        BY <3>1 DEF PlaceTrue, Executing
      <3>3. UNCHANGED <<rt, run, workerRunning, waiter, wakePermit>>
        BY <1>4, <2>1 DEF TakeRun
      <3> QED
        BY <1>1, <1>3, <1>4, <3>2, <3>3 DEF TakeRun, Places
    <2>2. CASE rt.attempt.id # NoId /\ ~rt.attempt.started
      <3>1. /\ pc[w] = "top" /\ pc' = [pc EXCEPT ![w] = "recheck"]
            /\ UNCHANGED <<scheduleVars, outcome, inCall, reported, settled,
                           workerRunning, wakePermit, waiter>>
            /\ rt' = [rt EXCEPT !.attempt.started = TRUE]
            /\ run' = [run EXCEPT ![w] = rt.attempt.id]
        BY <1>4, <2>2 DEF TakeRun, Move
      <3> DEFINE attempt == [rt.attempt EXCEPT !.started = TRUE]
                 r == [rt EXCEPT !.attempt = attempt]
      <3>2. rt' = r
        BY <1>1, <3>1 DEF RuntimeType
      <3>3. /\ r.attempt = attempt /\ r.payloads = rt.payloads /\ r.records = rt.records
            /\ r.panicked = rt.panicked /\ r.shuttingDown = rt.shuttingDown
            /\ r.watchRequest = rt.watchRequest /\ r.dirty = rt.dirty
            /\ r.dirtyOverflow = rt.dirtyOverflow
        BY <1>1 DEF RuntimeType
      <3>4. /\ attempt \in Attempts /\ attempt.id = rt.attempt.id /\ attempt.started
            /\ attempt.trigger = rt.attempt.trigger /\ attempt.reason = rt.attempt.reason
            /\ attempt.hints = rt.attempt.hints /\ attempt.overflow = rt.attempt.overflow
        BY <1>1 DEF RuntimeType, Attempts
      <3>5. r \in RuntimeType
        BY <1>1, <3>4 DEF RuntimeType
      <3> HIDE DEF attempt, r
      <3>6. /\ Halves(rt, active, pendingManual) /\ HintsHeld(rt, active, reported, settled)
            /\ active.id # NoId /\ rt.attempt.id \in Ids /\ rt.attempt.id = active.id
        BY <1>1, <2>2 DEF SharedInv, Halves, RuntimeType, Attempts
      <3>7. /\ Halves(r, active, pendingManual) /\ HintsHeld(r, active, reported, settled)
        BY <2>2, <3>3, <3>4, <3>5, <3>6 DEF Halves, HintsHeld
      <3>8. SharedInv'
        BY <1>1, <3>1, <3>2, <3>3, <3>7 DEF SharedInv, scheduleVars
      <3>9. CallsTrue(inCall', waiter', active', rt', workerRunning')
        BY <1>1, <3>1, <3>2, <3>3 DEF CallsTrue, scheduleVars
      <3>10. WorkersTrue(pc', run', active', rt', workerRunning')
        <4>1. PlaceTrue("recheck", rt.attempt.id, active, r)
          BY <3>3, <3>4, <3>6 DEF PlaceTrue, Executing
        <4>2. WorkersTrue([pc EXCEPT ![w] = "recheck"], [run EXCEPT ![w] = rt.attempt.id],
                          active, r, workerRunning)
          BY <1>1, <3>1, <3>6, <4>1, WorkerMoves DEF Places
        <4> QED
          BY <3>1, <3>2, <4>2 DEF scheduleVars
      <3> QED
        BY <1>1, <3>1, <3>8, <3>9, <3>10 DEF SupervisorIInv
    <2> QED
      BY <1>4, <2>1, <2>2
  <1>5. CASE Recheck(w)
    <2>1. PICK to \in {"closing", "sleep", "structural", "full"} :
            /\ Move(w, "recheck", to)
            /\ to = "closing" => rt.shuttingDown /\ active.id = NoId
            /\ to = "sleep" => run[w] = NoId
            /\ to \in {"structural", "full"} => run[w] # NoId
            /\ UNCHANGED <<rt, run, workerRunning, wakePermit, waiter>>
      BY <1>5 DEF Recheck, ShuttingDownWithoutRun
    <2>2. pc[w] = "recheck"
      BY <2>1 DEF Move
    <2>3. PlaceTrue(to, run[w], active, rt)
      BY <1>1, <2>1, <2>2 DEF PlaceTrue, Executing
    <2> QED
      BY <1>1, <1>3, <2>1, <2>3 DEF Places, Executing
  <1>6. CASE Sleep(w)
    <2>1. PICK to \in {"top", "asleep"} :
            /\ Move(w, "sleep", to) /\ wakePermit' = FALSE
            /\ UNCHANGED <<rt, run, workerRunning, waiter>>
      BY <1>6 DEF Sleep
    <2>2. PlaceTrue(to, run[w], active, rt)
      BY <1>1, <2>1 DEF PlaceTrue, Executing, Move
    <2> QED
      BY <1>3, <2>1, <2>2 DEF Places
  <1>7. CASE StructuralPublished(w)
    <2>1. Move(w, "structural", "retain") /\ UNCHANGED <<rt, run, workerRunning, wakePermit, waiter>>
      BY <1>7 DEF StructuralPublished
    <2>2. PlaceTrue("retain", run[w], active, rt)
      BY <1>1, <2>1 DEF PlaceTrue, Executing, Move
    <2> QED
      BY <1>1, <1>3, <2>1, <2>2 DEF Places, Executing
  <1>8. CASE RetainStructural(w)
    <2>1. /\ Schedule!MarkActivePublication /\ pc[w] = "retain"
          /\ pc' = [pc EXCEPT ![w] = "staged"]
          /\ UNCHANGED <<rt, outcome, run, workerRunning, wakePermit, waiter, inCall,
                         reported, settled>>
      BY <1>8 DEF RetainStructural
    <2>2. UNCHANGED <<active, pendingManual, nextOperationId, desired, watchEnabled>>
      BY <2>1 DEF Schedule!MarkActivePublication, Schedule!NoEffect
    <2>3. SharedInv' /\ CallsTrue(inCall', waiter', active', rt', workerRunning')
      BY <1>1, <2>1, <2>2 DEF SharedInv
    <2>4. PlaceTrue("staged", run[w], active, rt)
      BY <1>1, <2>1 DEF PlaceTrue, Executing
    <2>5. WorkersTrue([pc EXCEPT ![w] = "staged"], [run EXCEPT ![w] = run[w]], active, rt, workerRunning)
      BY <1>1, <2>1, <2>4, WorkerMoves DEF Places, Executing
    <2>6. WorkersTrue(pc', run', active', rt', workerRunning')
      BY <1>2, <2>1, <2>2, <2>5
    <2> QED
      BY <1>1, <2>1, <2>3, <2>6 DEF SupervisorIInv
  <1>9. CASE CheckBetweenStages(w)
    <2>1. PICK to \in {"aborted", "full"} :
            Move(w, "staged", to) /\ UNCHANGED <<rt, run, workerRunning, wakePermit, waiter>>
      BY <1>9 DEF CheckBetweenStages
    <2>2. PlaceTrue(to, run[w], active, rt)
      BY <1>1, <2>1 DEF PlaceTrue, Executing, Move
    <2> QED
      BY <1>1, <1>3, <2>1, <2>2 DEF Places, Executing
  <1>10. ASSUME NEW result \in Schedule!Results, FinishRun(w, result) PROVE SupervisorIInv'
    BY <1>10, FinishKeepsInv
  <1>11. CASE StopRunning(w)
    <2>1. /\ pc[w] = "closing" /\ pc' = [pc EXCEPT ![w] = "notifying"] /\ workerRunning' = FALSE
          /\ UNCHANGED <<scheduleVars, rt, outcome, run, wakePermit, waiter, inCall, reported, settled>>
      BY <1>11 DEF StopRunning, Move
    <2>2. rt.shuttingDown /\ active.id = NoId
      BY <1>1, <2>1 DEF PlaceTrue
    <2>3. SharedInv' /\ CallsTrue(inCall', waiter', active', rt', workerRunning')
      BY <1>1, <2>1, <2>2 DEF SharedInv, scheduleVars, CallsTrue
    <2>4. /\ pc' \in [Workers -> Places]
          /\ \A v \in Workers : pc'[v] = IF v = w THEN "notifying" ELSE pc[v]
      BY <1>1, <2>1 DEF Places
    <2>5. Alive(pc) = {w}
      BY <1>1, <2>1 DEF WorkersTrue, Alive
    <2>6. Alive(pc') = {}
      BY <2>4, <2>5 DEF Alive
    <2>7. ASSUME NEW v \in Workers PROVE PlaceTrue(pc'[v], run[v], active, rt)
      <3>1. PlaceTrue(pc[v], run[v], active, rt)
        BY <1>1 DEF WorkersTrue
      <3> QED
        BY <2>4, <3>1 DEF PlaceTrue, Executing
    <2>8. WorkersTrue(pc', run', active', rt', workerRunning')
      BY <1>1, <2>1, <2>4, <2>6, <2>7 DEF WorkersTrue, scheduleVars
    <2> QED
      BY <1>1, <2>1, <2>3, <2>8 DEF SupervisorIInv
  <1>12. CASE AnnounceDone(w)
    <2>1. /\ pc[w] = "notifying" /\ pc' = [pc EXCEPT ![w] = "none"]
          /\ waiter' = IF waiter.registered THEN [waiter EXCEPT !.notified = TRUE] ELSE waiter
          /\ UNCHANGED <<scheduleVars, rt, outcome, run, wakePermit, workerRunning, inCall,
                         reported, settled>>
      BY <1>12 DEF AnnounceDone, NotifyWaiters, Move
    <2>2. /\ waiter'.place = waiter.place
          /\ waiter' \in [place : {"idle", "register", "check", "asleep", "returned"},
                           registered : BOOLEAN, notified : BOOLEAN]
      BY <1>1, <2>1 DEF CallsTrue
    <2>3. SharedInv' /\ CallsTrue(inCall', waiter', active', rt', workerRunning')
      BY <1>1, <2>1, <2>2 DEF SharedInv, scheduleVars, CallsTrue
    <2>4. /\ pc' \in [Workers -> Places]
          /\ \A v \in Workers : pc'[v] = IF v = w THEN "none" ELSE pc[v]
      BY <1>1, <2>1 DEF Places
    <2>5. Alive(pc') = Alive(pc)
      BY <2>1, <2>4 DEF Alive
    <2>6. ASSUME NEW v \in Workers PROVE PlaceTrue(pc'[v], run[v], active, rt)
      <3>1. PlaceTrue(pc[v], run[v], active, rt)
        BY <1>1 DEF WorkersTrue
      <3> QED
        BY <2>4, <3>1 DEF PlaceTrue, Executing
    <2>7. WorkersTrue(pc', run', active', rt', workerRunning')
      BY <1>1, <2>1, <2>4, <2>5, <2>6 DEF WorkersTrue, scheduleVars
    <2> QED
      BY <1>1, <2>1, <2>3, <2>7 DEF SupervisorIInv
  <1> QED
    BY <1>4, <1>5, <1>6, <1>7, <1>8, <1>9, <1>10, <1>11, <1>12 DEF Worker
-----------------------------------------------------------------------------
(* The theorems.                                                           *)

LEMMA StepKeepsInv == SupervisorIInv /\ [Next]_vars => SupervisorIInv'
  <1> SUFFICES ASSUME SupervisorIInv, [Next]_vars PROVE SupervisorIInv'
    OBVIOUS
  <1>1. Schedule!ScheduleInv'
    BY ScheduleStepInv, StepIsScheduleStep DEF SupervisorIInv
  <1>2. CASE UNCHANGED vars
    <2>1. UNCHANGED <<scheduleVars, rt, outcome, workerRunning, pc, run, wakePermit,
                      inCall, waiter, budget, reported, settled>>
      BY <1>2 DEF vars
    <2>2. SharedInv'
      BY <2>1 DEF SupervisorIInv, SharedInv, scheduleVars
    <2> QED
      BY <1>1, <2>1, <2>2 DEF SupervisorIInv, scheduleVars
  <1> QED
    BY <1>1, <1>2, CallKeepsInv, WaitKeepsInv, WorkerKeepsInv DEF Next

(* In every reachable state the inductive invariant holds.                 *)
THEOREM SupervisorInductive == Spec => []SupervisorIInv
  BY InitIInv, StepKeepsInv, PTL DEF Spec

(* An attempt is executed by at most one worker, and worker_running is true*)
(* exactly while one worker task runs.                                     *)
LEMMA OneTask ==
    ASSUME SupervisorIInv
    PROVE  /\ OneWorker
           /\ Cardinality({w \in Workers : pc[w] \in Executing}) <= 1
  <1>1. WorkersTrue(pc, run, active, rt, workerRunning) /\ workerRunning \in BOOLEAN
    BY DEF SupervisorIInv
  <1>2. {w \in Workers : pc[w] \in Executing} \subseteq Alive(pc)
    BY DEF Alive, Executing
  <1>3. CASE workerRunning
    <2>1. PICK w \in Workers : Alive(pc) = {w}
      BY <1>1, <1>3 DEF WorkersTrue
    <2>2. IsFiniteSet({w}) /\ Cardinality({w}) = 1
      BY FS_Singleton
    <2>3. /\ Cardinality({v \in Workers : pc[v] \in Executing}) <= Cardinality({w})
      BY <1>2, <2>1, <2>2, FS_Subset
    <2> QED
      BY <1>3, <2>1, <2>2, <2>3 DEF OneWorker, Alive
  <1>4. CASE ~workerRunning
    <2>1. Alive(pc) = {}
      BY <1>1, <1>4 DEF WorkersTrue
    <2>2. {w \in Workers : pc[w] \in Executing} = {}
      BY <1>2, <2>1
    <2> QED
      BY <1>1, <1>4, <2>1, <2>2, FS_EmptySet DEF OneWorker, Alive
  <1> QED
    BY <1>1, <1>3, <1>4

(* SupervisorInv: the schedule and the runtime agree on the attempt, its   *)
(* cancellation and the queued payload, so no `expect` of the driver fires;*)
(* hints and receipts stay within their capacities; and there is one worker*)
(* task at most.                                                           *)
THEOREM SupervisorInvariant == Spec => []SupervisorInv
  <1>1. SupervisorIInv => SupervisorInv
    <2> SUFFICES ASSUME SupervisorIInv PROVE SupervisorInv
      OBVIOUS
    <2>1. /\ Schedule!ScheduleInv /\ SharedInv /\ rt \in RuntimeType
          /\ WorkersTrue(pc, run, active, rt, workerRunning)
          /\ CallsTrue(inCall, waiter, active, rt, workerRunning)
      BY DEF SupervisorIInv, SharedInv, Halves
    <2>2. TypeOK
      BY <2>1 DEF SupervisorIInv, Schedule!ScheduleInv, SharedInv, HintsHeld, WorkersTrue, CallsTrue,
         TypeOK, Limit, Outcomes
    <2>3. HalvesAgree
      BY <2>1, OneTask DEF SharedInv, Halves, WorkersTrue, PlaceTrue, HalvesAgree
    <2> QED
      BY <2>2, <2>3, OneTask DEF SupervisorInv
  <1> QED
    BY <1>1, SupervisorInductive, PTL

(* No change hint is lost before a successful terminal covers it, and every*)
(* attempt is lent all those it has to cover, or is told that the set      *)
(* overflowed.                                                             *)
THEOREM HintsAreNotLost == Spec => []HintsReachTheirAttempt
  <1>1. SupervisorIInv => HintsReachTheirAttempt
    <2> SUFFICES ASSUME SupervisorIInv PROVE HintsReachTheirAttempt
      OBVIOUS
    <2>1. /\ HintsHeld(rt, active, reported, settled)
          /\ reported \in [Paths -> 0..desired] /\ settled \in 0..desired
      BY DEF SupervisorIInv, SharedInv
    <2>2. \A p \in Paths : settled < reported[p] <=> reported[p] > settled
      BY <2>1
    <2> QED
      BY <2>1, <2>2 DEF HintsHeld, HintsReachTheirAttempt, NoHintLost, AttemptHasAllHints
  <1> QED
    BY <1>1, SupervisorInductive, PTL

(* However many operations end and are trimmed, a live operation keeps a   *)
(* receipt that tells its state, every other receipt is terminal, and the  *)
(* answer a manual request got agrees with its receipt.                    *)
THEOREM ReceiptsAreTrue == Spec => []ReceiptsTellTheTruth
  <1>1. SupervisorIInv => ReceiptsTellTheTruth
    <2> SUFFICES ASSUME SupervisorIInv PROVE ReceiptsTellTheTruth
      OBVIOUS
    <2>1. /\ ReceiptsTrue(rt.records, outcome, active, pendingManual, nextOperationId)
          /\ active \in ActiveType
      BY ScheduleTypes DEF SupervisorIInv, SharedInv
    <2>2. \A id \in Ids : LiveState(id) = LiveReceipt(active, pendingManual, id)
      BY <2>1 DEF LiveState, LiveReceipt, TellState, ActiveType, Schedule!Reasons
    <2> QED
      BY <2>1, <2>2 DEF ReceiptsTrue, ReceiptTrue, ReceiptsTellTheTruth, LiveOperationsKeepReceipts,
         ManualAnsweredOnce
  <1> QED
    BY <1>1, SupervisorInductive, PTL

(* When shutdown_and_wait has returned, no attempt runs, none is queued,   *)
(* and no worker executes one.                                             *)
THEOREM ShutdownIsComplete == Spec => []ShutdownLeavesNothingRunning
  <1>1. SupervisorIInv => ShutdownLeavesNothingRunning
    <2> SUFFICES ASSUME SupervisorIInv, waiter.place = "returned"
                 PROVE  /\ active.id = NoId /\ pendingManual = NoId
                        /\ \A w \in Workers : pc[w] \notin Executing
      BY DEF ShutdownLeavesNothingRunning
    <2>1. active.id = NoId /\ pendingManual = NoId
      BY ScheduleTypes DEF SupervisorIInv, CallsTrue
    <2>2. ASSUME NEW w \in Workers PROVE pc[w] \notin Executing
      BY <2>1 DEF SupervisorIInv, WorkersTrue, PlaceTrue
    <2> QED
      BY <2>1, <2>2
  <1> QED
    BY <1>1, SupervisorInductive, PTL
=============================================================================
