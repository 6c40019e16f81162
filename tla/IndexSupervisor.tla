-------------------------- MODULE IndexSupervisor --------------------------
(***************************************************************************)
(* The async runtime around the scheduling core: IndexSupervisor of        *)
(* crates/h00ligan-engine/src/code_intel_supervisor.rs.  Callers (manual   *)
(* requests, the WATCH adapter, cancellation, shutdown) and one worker     *)
(* task share SupervisorRuntimeState under a mutex; the worker sleeps on a *)
(* tokio Notify and shutdown_and_wait sleeps on a second one.              *)
(*                                                                         *)
(* A step is one critical section, or one read or write of the atomic      *)
(* worker_running, or one Notify call.  The notify_one that follows a      *)
(* critical section is part of its step: it stores a permit, so a delay    *)
(* between the two only makes the worker look at the state earlier.        *)
(***************************************************************************)
EXTENDS Integers, Sequences, FiniteSets

CONSTANTS
    Paths,            \* paths a filesystem hint may name
    Workers,          \* slots for worker tasks (bound: tasks alive at once)
    MaxDirtyHints,    \* MAX_DIRTY_HINTS (256 in the code)
    MaxReceipts,      \* MAX_OPERATION_RECEIPTS (32 in the code)
    Callers,          \* "manual" and "watch": calls that start the worker
    Budget,           \* bound on exploration: calls per kind, see Init
    MaxEpoch, MaxOps  \* bounds of IndexSchedule

ASSUME SupervisorAssumption ==
    /\ IsFiniteSet(Paths) /\ IsFiniteSet(Workers) /\ Workers # {}
    /\ MaxDirtyHints \in Nat /\ MaxReceipts \in Nat \ {0}
    /\ Callers = {"manual", "watch"}
    /\ {MaxEpoch, MaxOps} \subseteq Nat
    /\ Budget \in [Callers \cup {"cancel"} -> Nat]

VARIABLES
    nextOperationId, desired, published, latestChange, failed, active,
    pendingManual, watchEnabled, effects,     \* the scheduling core
    rt,              \* the rest of SupervisorRuntimeState, see RuntimeType
    outcome,         \* what each manual request's oneshot receiver holds
    workerRunning,   \* the atomic worker_running
    pc, run,         \* each worker task: its place and the attempt it took
    wakePermit,      \* the permit stored in `wake`
    inCall,          \* callers between ensure_worker and the lock
    waiter,          \* the task in shutdown_and_wait
    budget,          \* calls left
    reported,        \* history: epoch at which each path was last reported
    settled          \* history: highest epoch a successful terminal covered

Schedule == INSTANCE IndexSchedule

scheduleVars == <<nextOperationId, desired, published, latestChange, failed,
                  active, pendingManual, watchEnabled, effects>>
vars == <<scheduleVars, rt, outcome, workerRunning, pc, run, wakePermit,
          inCall, waiter, budget, reported, settled>>

NoId == Schedule!NoId
Ids == 1..MaxOps
\* "Staged" stands for Refresh with AllowDowngrade and without
\* require_complete_calls; every other request is "Direct".
Requests == {"Staged", "Direct"}
Terminal == {"Succeeded", "Failed", "Cancelled", "Superseded"}
RecordStates == {"Queued", "Running", "CancelRequested", "SupersedeRequested"} \cup Terminal

NoAttempt == [id |-> NoId, trigger |-> "None", hints |-> {}, overflow |-> FALSE,
              request |-> "None", reason |-> "None", started |-> FALSE]

-----------------------------------------------------------------------------
(* Receipts (VecDeque<OperationRecord>): the state of every operation that *)
(* has a record.  Records are pushed in the order their identities are     *)
(* allocated, so the oldest record is the one of the least identity.       *)

NoRecord == "None"
Recorded(records) == {id \in Ids : records[id] # NoRecord}
Record(records, id, state) == [records EXCEPT ![id] = state]

\* record_mut(..).state = state, a no-op when the record was trimmed.
SetRecord(records, id, state) ==
    IF id \in Recorded(records) THEN Record(records, id, state) ELSE records

\* The `count` oldest records of `ids`.
Oldest(ids, count) == {id \in ids : Cardinality({older \in ids : older <= id}) <= count}
Without(records, dropped) == [id \in Ids |-> IF id \in dropped THEN NoRecord ELSE records[id]]
Excess(records) == Cardinality(Recorded(records)) - MaxReceipts

\* Bug variant: the oldest record goes, terminal or not.
TrimOldest(records) == Without(records, Oldest(Recorded(records), Excess(records)))

\* trim_records: drop the oldest terminal records while there are too many.
Trim(records) ==
    LET ended == {id \in Ids : records[id] \in Terminal}
    IN  Without(records, Oldest(ended, Excess(records)))

-----------------------------------------------------------------------------
(* Dirty hints: the bounded set of reported paths.                         *)

\* What a bounded set may hold after `paths` were offered to it one by one, in
\* any order; a path that finds it full only sets the overflow flag.
Admit(held, paths) ==
    LET all == held \cup paths
    IN  IF Cardinality(all) <= MaxDirtyHints THEN {all}
        ELSE {kept \in SUBSET all : held \subseteq kept /\ Cardinality(kept) = MaxDirtyHints}

-----------------------------------------------------------------------------
(* apply_schedule_actions: the driver's part of each schedule effect, on   *)
(* s = [rt, outcome].                                                      *)

\* Bug variant: the payload stays queued.
StartKeepsPayload(s, e) ==
    LET manual == e.trigger = "Manual"
        attempt == [id |-> e.id, trigger |-> e.trigger, hints |-> s.rt.dirty,
                    overflow |-> s.rt.dirtyOverflow,
                    request |-> IF manual THEN "Direct" ELSE s.rt.watchRequest,
                    reason |-> "None", started |-> FALSE]
    IN  [s EXCEPT !.rt.dirty = {}, !.rt.dirtyOverflow = FALSE, !.rt.attempt = attempt,
                  !.rt.records = Trim(IF manual THEN SetRecord(@, e.id, "Running")
                                      ELSE Record(@, e.id, "Running"))]

\* Start: claim the payload, lend every dirty hint to the attempt.  A missing
\* payload or WATCH policy is an `expect` that panics.
StartAttempt(s, e) ==
    LET manual == e.trigger = "Manual"
        attempt == [id |-> e.id, trigger |-> e.trigger, hints |-> s.rt.dirty,
                    overflow |-> s.rt.dirtyOverflow,
                    request |-> IF manual THEN "Direct" ELSE s.rt.watchRequest,
                    reason |-> "None", started |-> FALSE]
    IN  [s EXCEPT !.rt.panicked = @ \/ s.rt.attempt # NoAttempt
                                    \/ (manual /\ e.id \notin s.rt.payloads)
                                    \/ (~manual /\ s.rt.watchRequest = "None"),
                  !.rt.payloads = @ \ {e.id},
                  !.rt.dirty = {},
                  !.rt.dirtyOverflow = FALSE,
                  !.rt.attempt = attempt,
                  !.rt.records = Trim(IF manual THEN SetRecord(@, e.id, "Running")
                                      ELSE Record(@, e.id, "Running"))]

\* Cancel: trip the attempt's token and note why.
CancelAttempt(s, e) ==
    [s EXCEPT !.rt.attempt = IF @.id = e.id THEN [@ EXCEPT !.reason = e.reason] ELSE @,
              !.rt.records = SetRecord(@, e.id, IF e.reason = "Superseded"
                                                THEN "SupersedeRequested" ELSE "CancelRequested")]

\* CancelQueued: answer the queued request without running it.
CancelQueued(s, e) ==
    [s EXCEPT !.outcome = IF e.id \in s.rt.payloads THEN [@ EXCEPT ![e.id] = "Cancelled"] ELSE @,
              !.rt.payloads = @ \ {e.id},
              !.rt.records = SetRecord(@, e.id, "Cancelled")]

ApplyEffect(s, e) ==
    CASE e.kind = "Start" -> StartAttempt(s, e)
      [] e.kind = "Cancel" -> CancelAttempt(s, e)
      [] e.kind = "CancelQueued" -> CancelQueued(s, e)

\* In order; no method of the schedule returns more than two effects.
ApplyEffects(newRt, newOutcome) ==
    LET begun == [rt |-> newRt, outcome |-> newOutcome]
        first == IF effects' = <<>> THEN begun ELSE ApplyEffect(begun, effects'[1])
    IN  IF Len(effects') < 2 THEN first ELSE ApplyEffect(first, effects'[2])

\* The state a critical section leaves behind.
Apply(newRt) ==
    LET applied == ApplyEffects(newRt, outcome)
    IN  rt' = applied.rt /\ outcome' = applied.outcome

-----------------------------------------------------------------------------
(* wake and worker_done: tokio Notify.                                     *)

\* Bug variant: a wake-up that finds nobody asleep is dropped.
NotifyOnlySleepers(places) ==
    LET asleep == {w \in Workers : places[w] = "asleep"}
    IN  \/ asleep = {} /\ pc' = places /\ UNCHANGED wakePermit
       \/ \E w \in asleep : pc' = [places EXCEPT ![w] = "top"] /\ UNCHANGED wakePermit

\* notify_one: wake the sleeping worker, or leave a permit.
NotifyOne(places) ==
    LET asleep == {w \in Workers : places[w] = "asleep"}
    IN  \/ /\ asleep = {}
           /\ pc' = places
           /\ wakePermit' = TRUE
        \/ \E w \in asleep :
              /\ pc' = [places EXCEPT ![w] = "top"]
              /\ UNCHANGED wakePermit

\* notify_waiters: only tasks already registered are woken, nothing is stored.
NotifyWaiters ==
    waiter' = IF waiter.registered THEN [waiter EXCEPT !.notified = TRUE] ELSE waiter

-----------------------------------------------------------------------------
(* Calls.                                                                  *)

\* ensure_worker, before the caller takes the lock: start the worker unless
\* one is running.
EnsureWorker(c) ==
    /\ c \notin inCall /\ budget[c] > 0
    /\ inCall' = inCall \cup {c}
    /\ budget' = [budget EXCEPT ![c] = @ - 1]
    /\ \/ workerRunning /\ UNCHANGED <<workerRunning, pc, run>>
       \/ /\ ~workerRunning
          /\ workerRunning' = TRUE
          /\ \E w \in Workers :
                /\ pc[w] = "none"
                /\ pc' = [pc EXCEPT ![w] = "top"]
                /\ run' = [run EXCEPT ![w] = NoId]
    /\ UNCHANGED <<scheduleVars, rt, outcome, wakePermit, waiter, reported, settled>>

\* The call finds the supervisor shutting down, or (manual only) another
\* manual request live, and returns an error.
Refuse(c) ==
    /\ c \in inCall
    /\ \/ rt.shuttingDown
       \/ c = "manual" /\ (pendingManual # NoId \/ active.trigger = "Manual")
    /\ inCall' = inCall \ {c}
    /\ UNCHANGED <<scheduleVars, rt, outcome, workerRunning, pc, run, wakePermit,
                   waiter, budget, reported, settled>>

\* start_manual
StartManual ==
    /\ "manual" \in inCall /\ ~rt.shuttingDown
    /\ Schedule!RequestManual
    /\ inCall' = inCall \ {"manual"}
    /\ LET id == nextOperationId + 1
           queued == [rt EXCEPT !.payloads = @ \cup {id},
                                !.records = Record(@, id, "Queued")]
           applied == ApplyEffects(queued, [outcome EXCEPT ![id] = "open"])
       IN  /\ rt' = [applied.rt EXCEPT !.records = Trim(@)]
           /\ outcome' = applied.outcome
    /\ NotifyOne(pc)
    /\ UNCHANGED <<workerRunning, run, waiter, budget, reported, settled>>

\* enable_watch(request, initial_reconciliation)
EnableWatch(request, initial) ==
    /\ "watch" \in inCall /\ ~rt.shuttingDown
    /\ Schedule!EnableWatch(initial)
    /\ inCall' = inCall \ {"watch"}
    /\ Apply([rt EXCEPT !.watchRequest = request])
    /\ NotifyOne(pc)
    /\ UNCHANGED <<workerRunning, run, waiter, budget, reported, settled>>

\* disable_watch: needs no worker and is not refused during shutdown.
DisableWatch ==
    /\ Schedule!DisableWatch
    /\ Apply([rt EXCEPT !.watchRequest = "None"])
    /\ NotifyOne(pc)
    /\ UNCHANGED <<workerRunning, run, inCall, waiter, budget, reported, settled>>

\* observe_changes(paths)
ObserveChanges(paths) ==
    /\ "watch" \in inCall /\ ~rt.shuttingDown
    /\ Schedule!RequestReconciliation(TRUE)
    /\ inCall' = inCall \ {"watch"}
    /\ \E held \in Admit(rt.dirty, paths) :
          Apply([rt EXCEPT !.dirty = held,
                           !.dirtyOverflow = @ \/ held # rt.dirty \cup paths])
    /\ reported' = [p \in Paths |-> IF p \in paths THEN desired' ELSE reported[p]]
    /\ NotifyOne(pc)
    /\ UNCHANGED <<workerRunning, run, waiter, budget, settled>>

\* request_periodic_reconciliation
PeriodicReconciliation ==
    /\ "watch" \in inCall /\ ~rt.shuttingDown
    /\ Schedule!RequestReconciliation(FALSE)
    /\ inCall' = inCall \ {"watch"}
    /\ Apply(rt)
    /\ NotifyOne(pc)
    /\ UNCHANGED <<workerRunning, run, waiter, budget, reported, settled>>

\* cancel(operation_id) of a live operation; a terminal or unknown one is
\* answered without a change.
Cancel(id) ==
    /\ budget["cancel"] > 0
    /\ rt.records[id] \notin Terminal
    /\ Schedule!Cancel(id)
    /\ budget' = [budget EXCEPT !["cancel"] = @ - 1]
    /\ Apply(rt)
    /\ NotifyOne(pc)
    /\ UNCHANGED <<workerRunning, run, inCall, waiter, reported, settled>>

\* shutdown, called by the task that will wait for the worker
\* (shutdown_and_wait); a second shutdown returns at once.
Shutdown ==
    /\ waiter.place = "idle"
    /\ waiter' = [waiter EXCEPT !.place = "register"]
    /\ Schedule!Shutdown
    /\ Apply([rt EXCEPT !.shuttingDown = TRUE, !.watchRequest = "None"])
    /\ NotifyOne(pc)
    /\ UNCHANGED <<workerRunning, run, inCall, budget, reported, settled>>

\* Bug variant: the waiter looks first and registers when it goes to sleep.
RegisterLate ==
    /\ waiter.place = "register"
    /\ waiter' = [place |-> "check", registered |-> FALSE, notified |-> FALSE]
    /\ UNCHANGED <<scheduleVars, rt, outcome, workerRunning, pc, run, wakePermit,
                   inCall, budget, reported, settled>>

\* The loop of shutdown_and_wait: register for worker_done, then read
\* worker_running, then sleep.
RegisterWaiter ==
    /\ waiter.place = "register"
    /\ waiter' = [place |-> "check", registered |-> TRUE, notified |-> FALSE]
    /\ UNCHANGED <<scheduleVars, rt, outcome, workerRunning, pc, run, wakePermit,
                   inCall, budget, reported, settled>>

CheckWorker ==
    /\ waiter.place = "check"
    /\ waiter' = [waiter EXCEPT !.place = IF workerRunning THEN "asleep" ELSE "returned"]
    /\ UNCHANGED <<scheduleVars, rt, outcome, workerRunning, pc, run, wakePermit,
                   inCall, budget, reported, settled>>

WakeWaiter ==
    /\ waiter.place = "asleep" /\ waiter.notified
    /\ waiter' = [place |-> "register", registered |-> FALSE, notified |-> FALSE]
    /\ UNCHANGED <<scheduleVars, rt, outcome, workerRunning, pc, run, wakePermit,
                   inCall, budget, reported, settled>>

-----------------------------------------------------------------------------
(* run_supervisor: the worker task.                                        *)

\* Bug variant: shutdown does not wait for the attempt.
ShuttingDown == rt.shuttingDown

ShuttingDownWithoutRun == rt.shuttingDown /\ active.id = NoId

Move(w, from, to) ==
    /\ pc[w] = from
    /\ pc' = [pc EXCEPT ![w] = to]
    /\ UNCHANGED <<scheduleVars, outcome, inCall, budget, reported, settled>>

\* First lock: take the attempt that is not started yet.
TakeRun(w) ==
    /\ Move(w, "top", "recheck")
    /\ \/ /\ rt.attempt.id # NoId /\ ~rt.attempt.started
          /\ rt' = [rt EXCEPT !.attempt.started = TRUE]
          /\ run' = [run EXCEPT ![w] = rt.attempt.id]
       \/ /\ rt.attempt.id = NoId \/ rt.attempt.started
          /\ UNCHANGED <<rt, run>>
    /\ UNCHANGED <<workerRunning, wakePermit, waiter>>

\* staged_watch_structural_request
IsStaged(attempt) ==
    attempt.trigger = "Watch" /\ attempt.hints # {} /\ attempt.request = "Staged"

\* Second lock: leave, run what was taken, or go to sleep.
Recheck(w) ==
    /\ Move(w, "recheck", IF ShuttingDownWithoutRun THEN "closing"
                          ELSE IF run[w] = NoId THEN "sleep"
                          ELSE IF IsStaged(rt.attempt) THEN "structural" ELSE "full")
    /\ UNCHANGED <<rt, run, workerRunning, wakePermit, waiter>>

\* wake.notified().await: consume a permit or sleep until the next notify.
Sleep(w) ==
    /\ Move(w, "sleep", IF wakePermit THEN "top" ELSE "asleep")
    /\ wakePermit' = FALSE
    /\ UNCHANGED <<rt, run, workerRunning, waiter>>

\* The structural stage published; then its lock records that.
StructuralPublished(w) ==
    /\ Move(w, "structural", "retain")
    /\ UNCHANGED <<rt, run, workerRunning, wakePermit, waiter>>

\* retain_structural_publication
RetainStructural(w) ==
    /\ pc[w] = "retain" /\ run[w] = active.id
    /\ Schedule!MarkActivePublication
    /\ pc' = [pc EXCEPT ![w] = "staged"]
    /\ UNCHANGED <<rt, outcome, run, workerRunning, wakePermit, waiter, inCall,
                   budget, reported, settled>>

\* Between the stages the attempt gives way to a cancellation.
CheckBetweenStages(w) ==
    /\ Move(w, "staged", IF rt.attempt.reason # "None" THEN "aborted" ELSE "full")
    /\ UNCHANGED <<rt, run, workerRunning, wakePermit, waiter>>

\* What the attempt may end with at each place.  A panic in the task counts as
\* Failed; the structural stage ends the attempt only if it did not publish.
MayEnd(w, result) ==
    \/ pc[w] = "full"
    \/ pc[w] = "structural" /\ result # "Published"
    \/ pc[w] = "aborted" /\ result = "Cancelled"

EndState(result, reason) ==
    CASE result = "Published" -> "Succeeded"
      [] result = "Failed" -> "Failed"
      [] result = "Cancelled" /\ reason = "Superseded" -> "Superseded"
      [] result = "Cancelled" /\ reason # "Superseded" -> "Cancelled"

\* retain_unpublished_change_hints: the hint sets that may be left after an
\* attempt that ended with `result`.
HintsAfter(result) ==
    IF result = "Published" THEN {rt.dirty} ELSE Admit(rt.dirty, rt.attempt.hints)

\* Bug variant: a hint that finds the set full again is dropped silently.
OverflowUnnoticed(result, held) ==
    rt.dirtyOverflow \/ (result # "Published" /\ rt.attempt.overflow)

OverflowAfter(result, held) ==
    \/ rt.dirtyOverflow
    \/ result # "Published" /\ (rt.attempt.overflow \/ held # rt.dirty \cup rt.attempt.hints)

\* finish_runtime_operation
FinishRun(w, result) ==
    /\ MayEnd(w, result) /\ run[w] = rt.attempt.id
    /\ Schedule!Finish(result)
    /\ \E held \in HintsAfter(result) :
          LET id == rt.attempt.id
              ended == [rt EXCEPT !.attempt = NoAttempt,
                                  !.dirty = held,
                                  !.dirtyOverflow = OverflowAfter(result, held),
                                  !.records = SetRecord(@, id, EndState(result, rt.attempt.reason))]
              answered == IF rt.attempt.trigger = "Manual"
                          THEN [outcome EXCEPT ![id] = result] ELSE outcome
              applied == ApplyEffects(ended, answered)
          IN  /\ rt' = [applied.rt EXCEPT !.records = Trim(@)]
              /\ outcome' = applied.outcome
    /\ run' = [run EXCEPT ![w] = NoId]
    /\ NotifyOne([pc EXCEPT ![w] = "top"])
    /\ settled' = IF result = "Published" THEN Schedule!Later(settled, active.covered) ELSE settled
    /\ UNCHANGED <<workerRunning, waiter, inCall, budget, reported>>

\* After the loop: runner.shutdown, then worker_running, then notify_waiters.
StopRunning(w) ==
    /\ Move(w, "closing", "notifying")
    /\ workerRunning' = FALSE
    /\ UNCHANGED <<rt, run, wakePermit, waiter>>

AnnounceDone(w) ==
    /\ Move(w, "notifying", "none")
    /\ NotifyWaiters
    /\ UNCHANGED <<rt, run, workerRunning, wakePermit>>

-----------------------------------------------------------------------------
RuntimeInit ==
    [payloads |-> {},           \* pending: HashMap of queued manual payloads
     attempt |-> NoAttempt,     \* active: Option<ActiveRuntime>
     records |-> [id \in Ids |-> NoRecord], dirty |-> {}, dirtyOverflow |-> FALSE,
     watchRequest |-> "None", shuttingDown |-> FALSE,
     panicked |-> FALSE]        \* an `expect` or debug_assert has failed

Init ==
    /\ Schedule!Init
    /\ rt = RuntimeInit
    /\ outcome = [id \in Ids |-> "none"]
    /\ workerRunning = FALSE
    /\ pc = [w \in Workers |-> "none"] /\ run = [w \in Workers |-> NoId]
    /\ wakePermit = FALSE
    /\ inCall = {}
    /\ waiter = [place |-> "idle", registered |-> FALSE, notified |-> FALSE]
    /\ budget = Budget
    /\ reported = [p \in Paths |-> 0] /\ settled = 0

Call ==
    \/ \E c \in Callers : EnsureWorker(c) \/ Refuse(c)
    \/ StartManual
    \/ \E request \in Requests, initial \in BOOLEAN : EnableWatch(request, initial)
    \/ DisableWatch
    \/ \E paths \in SUBSET Paths \ {{}} : ObserveChanges(paths)
    \/ PeriodicReconciliation
    \/ \E id \in Ids : Cancel(id)
    \/ Shutdown

Wait == RegisterWaiter \/ CheckWorker \/ WakeWaiter

Worker(w) ==
    \/ TakeRun(w) \/ Recheck(w) \/ Sleep(w)
    \/ StructuralPublished(w) \/ RetainStructural(w) \/ CheckBetweenStages(w)
    \/ \E result \in Schedule!Results : FinishRun(w, result)
    \/ StopRunning(w) \/ AnnounceDone(w)

Next == Call \/ Wait \/ \E w \in Workers : Worker(w)

Spec == Init /\ [][Next]_vars

\* The tokio runtime polls every ready task, and an indexing attempt always
\* returns; callers owe nothing.
FairSpec == Spec /\ WF_vars(Wait) /\ \A w \in Workers : WF_vars(Worker(w))
-----------------------------------------------------------------------------
(* Properties.                                                             *)

Attempts == [id : Ids \cup {NoId}, trigger : {"Manual", "Watch", "None"},
             hints : SUBSET Paths, overflow : BOOLEAN, request : Requests \cup {"None"},
             reason : Schedule!Reasons \cup {"None"}, started : BOOLEAN]

RuntimeType ==
    [payloads : SUBSET Ids, attempt : Attempts,
     records : [Ids -> RecordStates \cup {NoRecord}],
     dirty : SUBSET Paths, dirtyOverflow : BOOLEAN,
     watchRequest : Requests \cup {"None"}, shuttingDown : BOOLEAN, panicked : BOOLEAN]

Executing == {"structural", "retain", "staged", "aborted", "full"}
Places == {"none", "top", "recheck", "sleep", "asleep", "closing", "notifying"} \cup Executing

\* Types, with the bounds the code enforces: at most MaxDirtyHints hints are
\* held, and trim_records keeps the receipts at their limit, or at the two
\* live operations when the limit is smaller.
TypeOK ==
    /\ Schedule!TypeOK
    /\ rt \in RuntimeType
    /\ Cardinality(rt.dirty) <= MaxDirtyHints
    /\ Cardinality(rt.attempt.hints) <= MaxDirtyHints
    /\ Cardinality(Recorded(rt.records)) <= Schedule!Later(MaxReceipts, 2)
    /\ outcome \in [Ids -> {"none", "open"} \cup Schedule!Results]
    /\ workerRunning \in BOOLEAN /\ wakePermit \in BOOLEAN
    /\ pc \in [Workers -> Places] /\ run \in [Workers -> Ids \cup {NoId}]
    /\ inCall \subseteq Callers
    /\ waiter \in [place : {"idle", "register", "check", "asleep", "returned"},
                   registered : BOOLEAN, notified : BOOLEAN]
    /\ reported \in [Paths -> 0..desired] /\ settled \in 0..desired

\* The two halves of the shared state never disagree, so none of the
\* `expect`s in apply_schedule_actions, retain_structural_publication and
\* finish_runtime_operation can fire: the attempt the runtime holds is the
\* one the schedule calls active, with the same cancellation; exactly the
\* pending request has a payload; enabled WATCH has a policy; and a worker
\* that executes an attempt executes that one, once.
HalvesAgree ==
    /\ ~rt.panicked
    /\ rt.attempt.id = active.id
    /\ rt.attempt.trigger = active.trigger
    /\ rt.attempt.reason = active.cancel
    /\ rt.payloads = {pendingManual} \ {NoId}
    /\ watchEnabled => rt.watchRequest # "None"
    /\ \A w \in Workers : pc[w] \in Executing => run[w] = active.id /\ rt.attempt.started
    /\ Cardinality({w \in Workers : pc[w] \in Executing}) <= 1

\* A worker task runs as long as worker_running says so, and never two.
OneWorker ==
    LET alive == {w \in Workers : pc[w] \notin {"none", "notifying"}}
    IN  Cardinality(alive) = IF workerRunning THEN 1 ELSE 0

\* Types, the agreement of the two halves, and one worker.
SupervisorInv == TypeOK /\ HalvesAgree /\ OneWorker

\* No reported path is forgotten before a successful terminal covers it
\* (retain_unpublished_change_hints: "only a successful terminal may consume
\* them"): it is held, lent to the attempt, or an overflow flag says that the
\* held set is incomplete.
NoHintLost ==
    \A p \in Paths :
        reported[p] > settled =>
            p \in rt.dirty \cup rt.attempt.hints \/ rt.dirtyOverflow \/ rt.attempt.overflow

\* An attempt has "the complete path population accumulated since the last
\* successful terminal", or is told that it has not: whatever was reported up
\* to the epoch it covers is among its hints.
AttemptHasAllHints ==
    active.id # NoId =>
        \A p \in Paths :
            settled < reported[p] /\ reported[p] <= active.covered =>
                p \in rt.attempt.hints \/ rt.attempt.overflow

\* Change hints: none is lost before a success covers it, and every attempt
\* is lent all of those it has to cover.
HintsReachTheirAttempt == NoHintLost /\ AttemptHasAllHints

\* The receipt a live operation is entitled to: queued, running or told to
\* stop, as the schedule has it.
LiveState(id) ==
    IF id = pendingManual THEN "Queued"
    ELSE CASE active.cancel = "None" -> "Running"
           [] active.cancel = "Superseded" -> "SupersedeRequested"
           [] active.cancel \in {"ManualPriority", "Requested", "Shutdown"} -> "CancelRequested"

\* However many operations end, trim_records never drops the receipt of the
\* running or of the queued operation, and that receipt tells its state, so a
\* caller can always find and cancel it; every other receipt is terminal.
LiveOperationsKeepReceipts ==
    \A id \in Ids :
        IF id \in {active.id, pendingManual}
        THEN rt.records[id] = LiveState(id)
        ELSE rt.records[id] \in Terminal \cup {NoRecord}

\* Each accepted manual request has exactly one answer: its receiver is open
\* as long as it is queued or running, and afterwards holds what its receipt
\* says.
ManualAnsweredOnce ==
    \A id \in Ids :
        /\ outcome[id] = "open" <=>
              id = pendingManual \/ (id = active.id /\ active.trigger = "Manual")
        /\ outcome[id] \in Schedule!Results =>
              rt.records[id] \in {EndState(outcome[id], "None"), NoRecord}

\* What a caller is told of its operations: a receipt as long as they live,
\* and one answer that agrees with the receipt.
ReceiptsTellTheTruth == LiveOperationsKeepReceipts /\ ManualAnsweredOnce

\* When shutdown_and_wait has returned nothing executes and nothing will.
ShutdownLeavesNothingRunning ==
    waiter.place = "returned" =>
        /\ active.id = NoId /\ pendingManual = NoId
        /\ \A w \in Workers : pc[w] \notin Executing

\* Every accepted manual request is answered: the worker cannot sleep through
\* it, and neither shutdown nor WATCH can strand it.
EveryRequestAnswered == \A id \in Ids : outcome[id] = "open" ~> outcome[id] # "open"

\* No missed update: while WATCH stays enabled, every observed epoch is
\* eventually published or parked by a failed attempt that covered it.
NoMissedUpdate ==
    \A e \in 1..MaxEpoch :
        watchEnabled /\ desired = e ~> ~watchEnabled \/ Schedule!Later(published, failed) >= e

\* No hot loop: once the environment is quiet the supervisor is, whatever the
\* outcomes of its attempts.
EventuallyQuiet == <>[](active.id = NoId /\ pendingManual = NoId)

\* shutdown_and_wait returns: neither the worker's wake-up nor the worker's
\* farewell can be lost (comments at lines 1487 and 1498).
ShutdownReturns == waiter.place # "idle" ~> waiter.place = "returned"
=============================================================================
