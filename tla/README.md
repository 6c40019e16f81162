# h00ligan: a TLA+ verification development

This directory holds TLA+ models of the parts of h00ligan that coordinate or
decide: the index supervisor, which says when the repository is indexed; the
publication store, which makes an index visible without ever exposing a partial
one; the watcher and its drift probe; the coordinator of semantic providers; the
MCP server; and the liveness classifier, whose verdicts may recommend deletion.
TLC checks the models on small instances; TLAPS proves, for every value of the
constants, every safety property that a run checks, the classifier's for every
finite symbol graph, and that the store implements its abstract specification. Paths below are relative to
the repository root (`src/` is the repository); `engine/` stands for
`src/crates/h00ligan-engine/src/` and `interface/` for
`src/crates/h00ligan-interface/src/`.

## 1. The system and its parts

h00ligan indexes a source repository into immutable *generations* and answers
code-intelligence queries from the newest one, on the command line and over MCP.

| Part | State | Operations | Hard behaviour |
|---|---|---|---|
| Scheduling core, `engine/code_intel_supervisor.rs:94-476` | epochs (observed, published, latest direct change, parked), the active attempt, one queued manual request | enable/disable WATCH, observe, periodic tick, manual request, cancel, mark structural publication, finish, shutdown | any order of calls; preemption; a failure must not loop; nothing may be forgotten while the slot is taken |
| Supervisor runtime, same file from 486 | the schedule plus payloads, receipts, dirty hints, the active token; `worker_running`; two `Notify`s | the same calls, and one worker task that takes, executes and settles attempts | wake-ups lost between look and sleep; two halves of one state; bounded sets; answers exactly once; shutdown |
| Publication store, `engine/code_intel_publication.rs` | `repository.json`, two head records, generation directories, staging directories, a writer lock | admit, build, promote, replace head, reclaim; resolve by readers without a lock; recovery | processes, crashes, power loss, media faults between any two filesystem operations |
| Watcher and drift probe, `engine/watcher.rs` | raw event queue, watched directories, pending batch, deadline, overflow flag, batch channel; last control token | deliver, debounce, refresh population, publish inputs, observe, integrity tick, probe, stop | overflow of any buffer, events lost while a directory is being registered, two tasks that wait for each other, own and foreign publications mixed |
| Provider process, `engine/code_intel_semantic_provider_process.rs` | child process, pipe, quarantine flag | spawn, request, quarantine | timeouts, cancellation and late answers; exit at any moment |
| Provider coordinator and registry, `engine/code_intel_semantic_provider_coordinator.rs` | a session per execution root, retained payload and sources, `publication_pending` | authorise reuse, recertify, reconstruct, refresh, reset, mark committed | partial failure of a session population; sources that move between checks; a publication that fails after the commit |
| Semantic refresh planner, `engine/code_intel_semantic_refresh.rs` | none | plan | which documents a change reaches |
| Semantic cache | files by identity | load, persist and prune | pruning beside another process |
| Indexing driver and pipeline, graph, extractors, languages | data in memory and in redb | sequential transformation | little concurrency |
| Reachability classifier, `engine/reachability.rs` | a verdict per symbol | a fixed sequence of passes, two of them loops | a pass reads what an earlier pass left; test code; nested containers |
| Query operations, cursors | none; cursors are bound to a generation and expire | read-only | stale continuation |
| Interface and MCP server, `interface/code_intel_context.rs`, `interface/mcp.rs` | the held snapshot and its fingerprint; the WATCH lifecycle; requests in flight and responses in order | refresh, install, start and stop WATCH, read, answer, shut down | loads that overlap with publications and one another; overlapping stops; end of input with requests in flight |
| CLI, provider protocol and adapters, release scripts | - | wiring; framing; separate processes; build tooling | outside the models |

**How they interact.** The watcher turns filesystem events into hint batches;
the WATCH adapter passes them to `observe_changes`, and a manual request
arrives through the CLI or MCP. Both go through one mutex to the scheduling
core, whose answers (`Start`, `Cancel`, `CancelQueued`) the runtime applies in
the same critical section. The worker task runs the attempt: source discovery,
the pipeline, semantic providers, and finally a publication. The publication
store is shared with other *processes*: it is a directory with a lock file for
writers and none for readers. Queries read whatever generation the heads name.

**What makes each part correct.** For the schedule: no lost work, manual
priority, no hot loop, no epoch credited that was not covered. For the runtime:
schedule and payloads agree, every request is answered once, no reported path is
forgotten, no wake-up lost, shutdown ends. For the store: heads never outlive
what they name, what was acknowledged survives, a reader gets a generation that
was current, the population is bounded. For the watcher: every change of a
relevant file leads to an observation, a failed refresh keeps what was watched,
stop ends, and the probe reports foreign publications and only those. For the
coordinator: what it certifies was computed from the sources it names, reuse is
granted for exactly what is published, a failed refresh changes nothing or
discards everything, no request reads another's answer, and it catches up. For
the server: an answer was current while its request was handled, everything read
is answered, one WATCH service exists at most. For the classifier: nothing that
is reached stays dead, test code never counts as production, the loops end.

## 2. Modules

| Module | Role |
|---|---|
| `IndexSchedule` | the scheduling core, one action per method of `IndexSchedule` |
| `IndexSupervisor` | callers and worker around `INSTANCE IndexSchedule` |
| `GenerationLog` | abstract: what the store promises, a log that grows |
| `Publication` | the store, one action per filesystem operation; implements `GenerationLog` |
| `WatchService` | callback, debouncer task and service task of the watcher, with the world around them |
| `PublicationProbe` | EXTENDS `IndexSchedule`: the drift probe beside the schedule, own attempts and foreign publishers |
| `ProviderProcess` | one provider child and its pipe, as operators on a record |
| `SemanticCoordinator` | EXTENDS `ProviderProcess`: the coordinator, its sessions, the attempts that drive it |
| `McpServer` | request loop, held snapshot and WATCH lifecycle, beside publishers |
| `Reachability` | the classifier, one action per pass or round |
| `IndexSupervisorProofs`, `WatchServiceProofs`, `SemanticCoordinatorProofs`, `McpServerProofs`, `ReachabilityProofs` | the theorems about the module they are named after |
| `IndexScheduleProofs` | EXTENDS `PublicationProbe`: the theorems about the scheduling core, alone and beside the drift probe |
| `PublicationProofs` | the theorems about the store, with and without faults of the medium, and the refinement of `GenerationLog` |
| `PublicationServiceProofs` | EXTENDS `PublicationProofs`: what readers and a store with one fault may count on |
| `MCIndexSupervisor`, `MCPublication`, `MCWatchService`, `MCPublicationProbe`, `MCSemanticCoordinator`, `MCReachability` | instances for TLC: budgets, small worlds, symmetry |

Definitions commented *Bug variant* are not part of any specification. Each is a
plausible mistake in the definition that follows it, kept to show that a
property notices it: with the variant in place of the definition, TLC finds the
property violated (`mutants` in `PROJECT.json`).

### IndexSchedule

The variables are the fields of the struct. `effects` is the vector of
`IndexScheduleAction`s the last call returned. The private helpers `start`,
`schedule_next` and `request_active_cancellation` are operators that read the
primed epochs, as the Rust helpers read fields assigned earlier in the same
method. Calls that return an error change nothing and are absent. The `u64`
counters saturate in the code; here they are naturals with the exploration
bounds `MaxEpoch` and `MaxOps`. `Finish("Cancelled")` requires that the attempt
was cancelled: `BoundIndexRunner::run` (882-1002) returns `Cancelled` only after
its token was.

### IndexSupervisor

A step is one critical section on the mutex, one access to `worker_running`, or
one `Notify` call. Each call to the supervisor first runs `ensure_worker`
without the lock, then the critical section: two steps with anything in
between. The schedule's action and what `apply_schedule_actions` makes of its
effects are conjoined in one step, because the code holds the lock across both.
`notify_one` after the critical section is part of its step: it stores a permit,
so its delay lets the worker look earlier but lose nothing. The worker's loop is
`TakeRun` (first lock), `Recheck` (second lock), then execution or `Sleep`;
a staged WATCH attempt publishes its structural stage, records it and looks at
the token before the full stage. An `expect` or `debug_assert` that would panic
sets `panicked`, and `HalvesAgree` says that it never does. Receipts are a
function from identities (`rt.records`), since identities are handed out in
ascending order and the oldest receipt is the one with the least. Hints are a bounded
set; when it is full, *which* paths stay is nondeterministic, since that depends
on the order of arrival.

Left out: progress events and observers, the broadcast of publication updates,
timestamps and failure texts in receipts, and `Drop` of the last handle. The
revision and token of owned publications are in `PublicationProbe`.

### GenerationLog and Publication

The abstract log: a generation is appended; the publisher acknowledges; a power
loss may take back the newest generation if it was not acknowledged.

In `Publication`, `disk` is what processes see and `stable` what is
synchronised. `sync_cap_directory` copies the part of `disk` it covers; after
`PowerLoss` each entry in which the two differ is in either state,
independently. A generation is `[repository, contents]` with its ancestors'
contents, because its id is a digest over manifest, parent and repository.
A writer moves through `pc` in the order of the code: identity (`list`,
`create`, `write`), lock and admission, `build`, `promote`, the syncs, heads,
cleanup. `Stop` ends it between any two operations and stands for a
crashed process and, before cleanup, for an I/O error, as both only drop the lock
and leave the files. In cleanup an I/O error ends nothing: it becomes a warning in
`PublicationMaintenance`, and the publication is acknowledged all the same
(`CleanupFails`: heads or entries that cannot be read leave everything in place, an
entry that cannot be removed is passed over, as it is or quarantined). `warned` is
that list of warnings, `left` what this cleanup passes over. Readers read the
identity, then head 0, then head 1, then validate, newest first. `seen`, `overtaken` and `acked` are history variables.

Merged steps: what a writer does under the lock before it starts to build
(`TryLock`), and the quarantine, sync, removal and sync of one directory in
cleanup (`Reclaim`); no head is written between them, and a reader that sees a
quarantined directory treats it as absent. A validated generation handed in by
the caller is any newest head, whatever its database looks like now. Left out:
capability floors, obsolete generation schemas, checks of path bindings and
symlinks, telemetry. `Fault` and `PowerLoss` are the environment.

### WatchService

Three actors: the native callback (`Deliver`: into the bounded raw queue, or,
when it is full, the overflow flag one step later), the debouncer
(`run_debouncer`: one branch of its `select!` per step, and one step per
directory of a population refresh, which may fail) and the service task, whose
awaits are places in `svc`. The replacement of the population is a command and
a reply, and a batch waits in `flush` until the channel has room, as in the
code. The population is `Desired`: visible directories and those like `.cargo`
(class "control"), and for each declared input its directory, or the root while
that does not exist; an input inside an excluded root makes the refresh fail
before it registers anything (`RefuseInputs`). The world changes files, removes and makes directories (a registration
dies with its directory), lets attempts read the sources and publishes payloads
that declare inputs. An event carries a path and nothing else; `Classify` is
`classify_path_with_declared_inputs` over five kinds of path. A change counts as
reported when any observation is made after it, because an attempt hashes
everything. A payload declares inputs to be watched (`inputs`); those of payloads with
Complete coverage are compared after the registration (`checked`, `Reobserve`), the
others are not. `changed` and `unheard` are history: a change is *unheard* when its
directory has no registration, nothing else stands for it, and no publication that
will compare the file is being handled; when its event is not relevant at the moment it
is read (`Ignored`); and when a hidden directory comes or goes, whose event is a report
only while the directory is in the population. From the moment a publication is
taken, the inputs to be compared are heard again. What is unheard waits for an
integrity tick.

### PublicationProbe

A probe is three steps: snapshot and metadata (`ReadWitness`), control bytes
(`ReadControl`), comparison (`Settle`), and a `Report` that is
`RequestReconciliation(FALSE)` of the schedule. Between them own attempts
publish and are recorded, other processes publish, and metadata changes without
a publication. A publication may be recorded without a token (it could not be read
under the lock), an attempt may fail or panic with its head in place and nothing
recorded, and a probe may find the control bytes unreadable. In all these cases the
head is *unproven*, as one of another process is, and has to look like drift. The module EXTENDS `IndexSchedule`, so the run also explores the
scheduling core with all its calls.

### ProviderProcess and SemanticCoordinator

A root has one document whose source is three version counters: `body` (facts
of this document only), `surface` (what others resolve against), `paths`.
`top` stands for the root's project files, at once topology and semantic
inputs; `tool` for the toolchain. A provider certifies what its session holds,
so `calls` in a payload are the sources the facts were computed from and `docs`
those the payload names: certified rightly means that they are equal. An attempt
goes through the places of `run.pc` in the order of the code: admission of
reuse, recertification of the opened sessions or reconstruction after a
restart, refresh with its preflight probe, the plan, opening or reconfiguring
sessions, certification, candidate, terminal check of the inputs, publication.
Each request to a child is `Ask`, then `ReadTerminal` or `RequestFails`; a child
may die, an attempt may be cancelled and the world may change between any two
steps, and `Restart` loses the process but not the publication. The policy
(root-local as Go, or whole-provider as the others) is chosen initially.

Left out: several providers beside each other in the registry,
`semantic_inputs_admit_reconfiguration` for path populations that differ (which
falls back to replacement), reload-sensitive documents, and populations of roots
that change.

### McpServer

A query is four loads and installs, each a step (`Observe`, `Load`, `Resolve`,
`Confirm`, `Install`), since other handlers and publishers run between them.
Stops of WATCH register for the wake-up (`Enable`) before they look; the one that
takes the service owns a task that awaits its end and then announces it, which
is that stop's own place (`await`, `announce`; `ServiceEnds(r)`, `Announce(r)`), so
that two owned tasks may overlap. The loop reads up to
`MaxInFlight` requests, writes responses in the order of arrival, drains after
the end of the input and leaves; a transport error breaks it off. `LoseStore`
is the deletion of the store or the loss of both heads, after which sequences
begin at 1. `seen` and `current` are history. Left out: the live-input
observations that queries share (`code_intel_context.rs:171-258`), what a query
computes, and the shapes of responses.

### Reachability

One action per pass of `analyze_scoped_internal`; the guard re-walk and the
container roll-up are one action per round. The graph is chosen in `Init` and
only read. Edge kinds are calls, type uses, containment and implementation; a
walk has as many rounds as there are symbols, which `WalkIsClosed` shows to be
enough. `GraphAssumption` types the graph; `StdMarkers` are the external
traits whose name alone makes them markers (`STD_MARKER_TRAITS`), `NamedWithin` the
pairs of qualified names of which one begins with the other, as data members are
lifted by name and not by containment; `before` is history, the verdicts the
container roll-up started from. `TestCodeIsMarked` says how test bits
and uses of test code stand to each other in a graph of code that compiles, and
holds of every graph of the run. Left out: orphan files, test chains, persisted
evidence, how roots are found, class and enum kinds, fallback roots, and which edge
counts when an impl has several `Implements` edges (the code takes the first; a Rust
impl has at most one).

## 3. What is checked

Runs take from seconds to two and a half minutes on two workers.

| Run | Configuration | Shows |
|---|---|---|
| `supervisor` | two manual and two WATCH calls, a cancellation, shutdown, two paths for one hint slot, two receipts, two worker slots | `SupervisorInv` (schedule and runtime agree, no panic, one worker), `HintsReachTheirAttempt`, `ReceiptsTellTheTruth`, `ShutdownLeavesNothingRunning` |
| `supervisor_liveness` | `FairSpec` | `EveryRequestAnswered`, `NoMissedUpdate`, `EventuallyQuiet`, `ShutdownReturns` |
| `publication_crash` | two writers in both modes, a reader, one stop or failed cleanup operation, one power loss | `StoreInv` (heads name whole generations that exist, no conflict, private until promoted), `AckedSurvives`, `ReaderServed`, `PopulationBounded` (of an acknowledgement without warnings), and that the store implements `GenerationLog` |
| `publication_faults` | two writers, a stop, a power loss, a fault in a head, a database or the identity record | `OneFaultTolerated`, `RebindsOnlyToWholeGeneration` |
| `watch` | four files in three directories, raw queue of one event, batch of one path, batch channel of one batch, two changes, a publication with declared inputs (hidden, with and without Complete coverage, excluded or unresolvable), a failing registration | `WatchInv` (no change slips between the stages), `PopulationKept`, `AcceptedEventReported`, `EveryChangeReported`, `StopEndsUnlessWedged` |
| `watch_stop` | the same | `StopEnds` violated: finding 1 |
| `schedule_probe` | two epochs, two attempts, two heads, one metadata change, five of these together | `ScheduleInv`, `WatchStartsOnlyForNewEpochs`, `PublishedOnlyWhatWasCovered` for the schedule; `UnprovenHeadNoticed`, `OwnNeverLooksForeign` for the probe |
| `coordinator` | two roots, both policies, two edits of any kind, one failure or cancellation | `CertifiedUnlessMixed`, `CoordinatorInv`, `SettledIsPublished`, `NoAnswerLeftBehind`, `PreservedMeansUnchanged`, `ReuseIsExact`, `EventuallyCaughtUp` |
| `coordinator_mixed` | root-local, two edits | `CertifiedMatchesSources` violated: finding 2 |
| `mcp_server` | three requests, two in flight, two publications, one store started anew | `StrictAnswerWasCurrent`, `NothingReadIsLost`, `ServerInv`, `EveryRequestAnswered` |
| `mcp_stale` | two queries in turn, a store started anew | `AnswerWasCurrent` violated: finding 3 |
| `reachability` | all graphs over 22 symbols in five files, two of them external traits | `ClassifierInv`, `ResidualIsUnreachable`, `TestCodeIsNeverLive`, `RoundsOnlyLift` |

**Bounds, and why they are enough.** *Supervisor*: an attempt, its successor and
a queued request need three identities, supersession and parking need three
epochs. The hint limit is one for two paths, so overflow happens on entry and on
return; two receipts is the smallest number that can hold both live operations,
so trimming meets them; a second worker slot would show a second worker. The
calls of the liveness run are too few to reach `MaxEpoch` or `MaxOps`, so no
guard that is a bound disables a fair action. *Store*: two writers, since the
lock admits one and refuses the rest; sequences up to four, so that a slot in use
is overwritten and a reader can be overtaken; identities enough for a race; one
stop or failed cleanup operation and one power loss at any place, which includes a power loss after the
recovery from a stop. In `publication_crash` the constraint
`ReadsEndAtPowerLoss` follows readers up to the first power loss and the first
recovery, after which `ReaderServed` says nothing of them. *Watcher*: capacities of one make every buffer overflow with two
changes, and let a batch wait in the channel while the next one waits for room, so that
the tasks do wedge in the run and the exemption of `Wedged` is met; a directory can disappear and return between discovery and
registration. *Probe*: two heads besides the initial one allow an own and a
foreign publication in either order around a probe; the constraint `FewEvents`
lets epochs, attempts and metadata changes (a head is one) be at most five in all,
so that no history uses up every bound at once; the theorems hold without it. *Coordinator*: two roots, so
that one can be affected and the other not; two edits, so that one can follow
the capture of the other. *Server*: two requests in flight, so that loads,
installs and stops overlap, and a third to be read after one is written.
*Classifier*: one instance of each shape its passes speak of (dispatch through a
trait, two implementations, an external marker and an external trait with methods, a
mock, nested containers, a data member of an enum's variant, a public root), with every
choice of the uncertain edges.

**Deadlock.** Checking is off where the models may really stop: at their bounds
(`publication_*`, `watch*`, `schedule_probe`, `mcp_*`) and after the last pass
(`reachability`). In the supervisor runs it is on but says little, since
`disable_watch` is always possible; what cannot get stuck there and in the
other parts is what the liveness properties show.

**Fairness.** All of it is weak.

- Supervisor: each worker, and the task in `shutdown_and_wait`. Tokio polls every
  ready task, and a runner attempt returns: the pipeline is finite work with
  timeouts on its providers, and a panic is caught as a failed task (1819-1826).
  Callers owe nothing, and every attempt may fail.
- Watcher: the callback's pending store of the overflow flag, the debouncer task
  and the service task, for the same reason. `EveryChangeReported` also assumes
  that integrity ticks come, which an interval timer in the service's `select!`
  gives, and states so in the formula; the other properties do not need it. The three
liveness properties of `watch` name the one state in which the tasks wait for each
other (`Wedged`), which finding 1 is about, and hold in every other.
- Coordinator: the attempt proceeds, the supervisor starts another one while
  something is to do, and a child that lives answers; a child that does not is
  covered by the request's timeout (`RequestFails`), among the failures.
- Server: what each request handler does by itself (`Proceed`) and the loop's own
  steps. That a WATCH service which is being stopped ends (`ServiceEnds`) is no part
  of it: `EveryRequestAnswered` states it as its assumption, since finding 1 refutes
  it for a full batch channel. There a stop of WATCH, and with it every later
  response and the exit at the end of the input, waits for ever.
- The store, the probe and the classifier are checked for safety only.

### Findings

1. *Stop may never end* (`watch_stop`, `engine/watcher.rs:895`). The service
   awaits the reply to a new population while the debouncer awaits room in the
   batch channel that the service drains. The README and the CLI guide say that
   Ctrl-C stops WATCH. At the real capacity of 64 it takes a sustained stream of
   batches during a delay of the service. `StopEndsUnlessWedged` shows that this is
   the only way in the model. Both are about the service task; `stop()` then also
   waits for the WATCH attempt.
2. *A stale certification in a mixed epoch* (`coordinator_mixed`,
   `engine/code_intel_semantic_provider_coordinator.rs:1991`). Under the
   root-local policy, one epoch that changes one root's inputs and another root's
   contents certifies the latter's former facts for its new sources, and later
   refreshes reuse them. `CertifiedUnlessMixed` shows that this is the only way
   in the model.
3. *A server that does not notice a restarted store* (`mcp_stale`,
   `interface/code_intel_context.rs:1729`). After the store is deleted and built
   again, or recovered with both heads unreadable, a server that holds a later
   sequence answers from memory until the new store has caught up.
   `install_published_generation` (1769), whose comment speaks of this case, has
   no callers.

### Observations without a run

Supervisor: a failed attempt parks its epoch until something new is observed, as
the field comment says (203-206), while the module's opening comment (3-6) speaks
of reconciliation until a successful publication; parking also silences the
probe. A staged WATCH attempt preempted after its structural stage leaves
enrichment unscheduled. `mark_publication_committed` is also called for a failed
provider (949-951), against the comment at coordinator 765-768, without effect.

Store: a recovery leaves both heads naming one generation, so redundancy exists
again only after the next publication; a recovery of an undamaged store can let a
reader fall back to a generation older than any current while it read (2981,
cleanup 4742-4866, against the comment at 2357); a reader overtaken twice after a
stopped writer's leftovers may meet the same; a crash during the first admission
leaves a torn `repository.json` that needs a recovery. A staging directory is
not synchronised itself, so durability rests on filesystems where fsync of a file
covers its entry: with `FsyncCoversEntry = FALSE`, `StoreInv` fails.

Watcher: the inputs of a payload without Complete coverage are registered but not
compared (`engine/watcher.rs:724`), so a change of one between its capture and its
registration waits for an integrity tick, although the comment at 900-904 says that
"re-observation closes the publication-to-registration race"; the overflow flag set after a drain waits for the next event or tick; a
directory removed and made again before a refresh is not registered again, and one
made between discovery and registration waits for the next topology event, so
there only integrity ticks report changes; when a hidden directory of a declared
input is renamed away and another topology event is handled first, the refresh
drops the directory from the population and its own event is then classified as
irrelevant (`previously_watched` looks at the population of that moment, 499-503);
the `Rescan` flag of notify is not
consulted; a steady stream of events postpones the flush. The probe's first
baseline adopts a foreign head that was there before it, and may take an own head
not yet recorded for foreign, which costs one reconciliation; so may a foreign
publication followed by an own reuse. A head that comes while the control bytes are
unreadable at two looks in a row, the second without a new own publication, leaves
the probe nothing to compare, and its metadata is remembered. `UnprovenHeadNoticed` names the
first baseline and this case (`overlooked`).

Coordinator: quarantined sibling sessions may stay registered after a preserved
failure, until the next refresh replaces them; after a preflight failure that is
not a cancellation, a refresh goes on to plan even if cancelled meanwhile; a
generation published beside a failed provider carries no Calls payload.

Server: an invalid UTF-8 line or a write error ends the loop without an answer to
outstanding requests, whose inner tasks are detached, so that a start of WATCH
can still run after shutdown's stop.

Classifier: the `use`, `const`, `mod` items (Pass 5) and data members (5b) of live
files are lifted before the guard re-walk makes further files live and not again
after it, so such an item in a file whose only live code the guard rescued stays
dead, against the comment of Pass 5; the container roll-up looks only at containers
that are still dead or suspected, so a module lifted to `TestOnly` or `PublicApi` by a
direct child in one round keeps that tier when an impl in it becomes `Wired` in the
same round, although the comment (2490, 2515-2517) says it has the tier of its most
alive child (`ContainersFollowTheirContents` therefore says that the tier is of some
child, and none less alive than a child that was alive before the roll-up); the live files of that pass include seeded
public items that a later pass downgrades; a guard takes the tier of the first
reached edge in edge order; a self-recursive public function counts as having a
caller.

## 4. What is proved

Every module with theorems proves them for every value of its constants under the
module's one named assumption, which only types the constants (`BoundsAssumption`,
`ProbeAssumption`, `SupervisorAssumption`, `PublicationAssumption`,
`McpAssumption`, `CoordinatorAssumption`, `WatchAssumption`, `GraphAssumption`; the
last also says that there are finitely many symbols and that an impl or a type implements
no function and no impl). Exploration bounds
are arbitrary naturals there, so the theorems cover histories of any length. Each
proof has the same plan: an inductive invariant, one lemma per action that the
action keeps it, and the checked properties from it. TLC has checked each inductive
invariant on the instance of the module's run.

| Property of a run | Theorem |
|---|---|
| `ScheduleInv`, `WatchStartsOnlyForNewEpochs`, `PublishedOnlyWhatWasCovered` | `ScheduleInvariant`, `NoHotLoop`, `PublicationIsCovered`; beside the probe `ProbeKeepsSchedule`, `NoHotLoopBesideProbe` |
| `UnprovenHeadNoticed`, `OwnNeverLooksForeign` | `UnprovenHeadIsNoticed`, `OwnPublicationsAreNotDrift` |
| `SupervisorInv`, `HintsReachTheirAttempt`, `ReceiptsTellTheTruth`, `ShutdownLeavesNothingRunning` | `SupervisorInvariant`, `HintsAreNotLost`, `ReceiptsAreTrue`, `ShutdownIsComplete` |
| `StoreInv`, `AckedSurvives`, `PopulationBounded`, `ImplementsLog` | `StoreIsWhole`, `AcknowledgedIsKept`, `StorageIsBounded`, `StoreImplementsLog` (without media faults) |
| `RebindsOnlyToWholeGeneration` | `IdentityIsKept` (with any faults) |
| `ReaderServed` | `ReadersAreServed` (without media faults) |
| `OneFaultTolerated` | `OneFaultIsTolerated` (with any faults, where fsync of a file covers its entry) |
| `WatchInv`, `PopulationKept` | `NoChangeFallsBetween`, `PopulationIsKept` |
| `CoordinatorInv`, `SettledIsPublished`, `CertifiedUnlessMixed`, `NoAnswerLeftBehind`, `ReuseIsExact`, `PreservedMeansUnchanged` | `SessionsStandWhereRetained`, `SettledStaysPublished`, `PayloadsAreCertified`, `NoAnswerIsInherited`, `ReuseStaysExact`, `PreservedIsPreserved` |
| `ServerInv`, `NothingReadIsLost`, `StrictAnswerWasCurrent` | `ServerIsSafe`, `NothingReadIsEverLost`, `AnswersWereCurrent` |
| `ClassifierInv`, `ResidualIsUnreachable`, `RoundsOnlyLift` | `ContainersFollow`, `DeadIsUnreachable`, `RoundsLift` |
| `TestCodeIsNeverLive` | `TestCodeStaysApart` (if `TestCodeIsMarked` of every graph) |

**Scheduling core.** Work conservation alone is not inductive: that the slot is
empty only with an empty queue needs a queued request to stand behind an active
WATCH attempt (`QueuedManualPreempts`), which needs identities to be distinct and
the fields of an empty slot to be empty (`TypeOK`). `ScheduleNextInv` shows that any
call of `schedule_next` re-establishes the invariant from the parts its callers
keep; `StepInv` has one step per method. `WorkConservation`, `ManualPriority` and
`ManualIsSpared` are the parts, `DisableLeavesManual` and `OnlyChangesSupersede`
action properties besides those of the run.

**Probe.** The composition refines the schedule step by step (`StepIsScheduleStep`),
so the schedule's theorems carry over. `ProbeInvariant` adds who wrote the head: an
head waiting to be recorded has its attempt still running (`WriterRuns`), a probe reads
beside an idle schedule only (`ReadsIdle`), a witness that has not moved vouches for
the bytes read after it, if they could be read (`WitnessVouches`), an unseen head is
neither the recorded one nor one about to be, and is news to the tracker
(`UnseenIsForeign`, `UnseenIsNews`), and so is a head waiting to be recorded, which
becomes unproven if its attempt fails now (`WrittenIsNews`).

**Supervisor.** `SupervisorIInv` strengthens `SupervisorInv` by the places of workers
and callers. Its shared part (`Halves`, `HintsHeld`, `ReceiptsTrue`) speaks of *any*
runtime, attempt and queued request, so that it can be stated between two effects
of one critical section: a critical section is a call of the schedule followed by
`ApplyEffects`, and lemmas such as `UnqueuedApplied` say what each vector of effects
does. That the schedule inside the supervisor is the one proved about is
`SupervisorKeepsSchedule`.

**Store.** Two layers. `StoreIInv` needs no hypothesis on faults or on fsync: it
says, per place of a writer, what disk and synchronised part look like
(`WriterTrue`: its heads, its generations, its identity), that one writer at most
holds the lock, and that an identity is drawn once; `StoreIsSafe` is what it gives.
The second layer assumes `NoFaults` (`Faults = {}` and `FsyncCoversEntry`) and adds
`SoundIInv`: there is a synchronised head that outlives every power loss, is at least
as new as what was acknowledged, and whose generation exists; every head pending on
disk was built on it. Only that makes `StoreInv` inductive, since a power loss may
leave any mixture of the two. `StoreImplementsLog` follows, as the log depends on the
heads alone: replacing the first head is `Publish`, a writer's return is
`Acknowledge`, a power loss is `Lose` or a stutter, every other step a stutter.

**Readers.** A reader takes no lock and reads the heads one after the other, so its
invariant has to follow it through publications that overtake it. While nothing
recovers, the two heads are records of successive publications (`Straight`): each
publication replaces the older. `ReaderTrue` says of a reader overtaken `k` times
where it has got to (`Place`: one of the heads it has read or will read is no older
than itself), what it saw go by (`Witnessed`), and what it knows of a head it has read
(`HeadRead`: that head was current while it ran or is older than itself; if it is not
on disk any more, two publications replaced both heads, and its generation is there as
long as the second has not cleaned up). A validated generation that is gone therefore
means two overtaking publications, and an answer older than the reader a writer cut
short and two more. A step of another actor changes the directory in one of two
ways, generations come and go or one head is replaced by a newer one, and one lemma
for each carries everything a reader knows across it.

**One fault.** `OneFaultIInv` leans on `SoundIInv` until the first fault, and from then
on on what a fault cannot undo: a *steady* slot names a whole generation both on disk
and as synchronised, so no power loss takes it (`Steady`, `Tolerant`). Two steady
heads in a row leave one after a fault (`OneOutlives`); a strict
writer validates the generation it builds on and replaces the other slot, so between
the replacement and the acknowledgement one of the two serves (`Leaves`, per place of
the writer). The identity record is the second half of the hypothesis in
`OneFaultTolerated`, and a recovery ends it, as it leaves both heads on one generation.

**Watcher.** That no change falls between the stages (`ChangeCarried`) is not
inductive. `WatchIInv` adds how the tasks stand to each other (the root is
registered while the service runs, a refresh wants the root), that a population
command is asked and answered once and for the publication being handled
(`AskedOnce`), that a changed declarable file differs from the newest payload
(`DriftNoted`), and that a deadline has something to send (`DeadlineTrue`: else the
flush would drop it). `WatchAssumption` also says that the root is an ordinary
directory.

**Coordinator.** `PhaseTrue` gives each place of an attempt what holds there of the
sessions: at rest they stand where the retained state says; in a refresh those set
aside hold the retained authority, those asked hold the captured sources or are
still to be asked, and where the attempt relies on the published payload, that payload is of the
attempt's own sources and project files (`AgainstPublished`). `AskTrue` says who owns an
answer in the pipe. `CertifiedUnlessMixed` then follows for every number of roots
and edits, and with it finding 2 is the only way to a stale certification in the
model.

**Server.** `ServerIInv` is about the loop (what is read, in flight, replied and
written, in order) and WATCH (who owns the stop). `QueryTrue` holds while the store
was never started anew: what a request has seen is closed towards the present, and
the held slot never goes back; finding 3 shows why the hypothesis is needed, and
`StrictAnswerWasCurrent` states it.

**Classifier.** What a walk contains is proved by its least counterexample: the
rounds exist (`WalkRounds`), stay within every set that no use leaves
(`WalkStaysWithin`), and after as many rounds as there are symbols have reached
everything that is used, because each round before that adds one (`WalkIsClosed`).
`ReachIInv` then says between the passes that no use leads from a reached symbol to
a less alive one that the walk might have reached (`UsesFollow`): the three walks
establish it; the passes that hand out verdicts no walk gives keep it; a guard round
keeps it because whatever it lifts, it lifts with everything that is used from there.
The round that ends the guard had no candidate left (`NothingToRescue`), and the next
pass keeps that because it changes functions and impls, while a rescue looks at traits
and types (`RescuesAreOfTypes`). The roll-up keeps (`RollUpSound`) that
what it has lifted so far owns live code, that every closed set of containers contains
all of it, so that no containers hold each other up, and that the tiers are those of
children; that it stops only when nothing is left to lift gives the other half. For test code, walks avoid what is marked or enclosed
(`WalkAvoidsTests`), the guard's cap turns every rescue there into `TestOnly`, and the
roll-up gives a test container the verdict of test code. Without `TestCodeIsMarked` the
property is false: a production use of a method that only its impl marks as test
code makes it live, as it should.

**What stays with TLC.** Liveness under fairness, and `ENABLED`, which the prover
does not treat: `EveryRequestAnswered`, `NoMissedUpdate`, `EventuallyQuiet`,
`ShutdownReturns`, `EventuallyCaughtUp`, `AcceptedEventReported`,
`EveryChangeReported`, `StopEndsUnlessWedged`.

## 5. Not modelled

- Parsing, extraction, structural and SCIP graph construction, queries and output:
  sequential functions of unbounded data, where a small instance says little.
- The semantic cache: losing an entry costs a recomputation and carries no
  authority. Cursors: a comparison of a generation with the one that is held.
- Toolchain resolution, provider protocol frames, provider adapters (separate
  processes), the command line, release scripts: I/O, encoding and wiring.
- Within modelled parts, what section 2 lists as left out.
- Restarts of the supervisor's process: it persists nothing but publications, whose
  crashes are in `Publication`.

## 6. What is left

Every safety and action property of the passing runs is a theorem. What is left is
liveness, above, and the parts of section 5 and of `hazards` without a property: the
enrichment that a preempted staged attempt leaves unscheduled, the torn
`repository.json` of a first admission, and the order of the classifier's passes 5 and
5b. Pruning of the semantic cache beside another process is not modelled either.
