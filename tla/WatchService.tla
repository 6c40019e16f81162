---------------------------- MODULE WatchService ----------------------------
(***************************************************************************)
(* The filesystem watcher of crates/h00ligan-engine/src/watcher.rs: the    *)
(* native callback, the debouncer task (run_debouncer) and the service     *)
(* task of IndexWatchService, connected by bounded channels.  Events are   *)
(* hints: every batch makes the supervisor observe a new epoch, and the    *)
(* attempt for that epoch discovers and hashes everything.  So a change is *)
(* "reported" once any observation is made after it.                       *)
(*                                                                         *)
(* A step is one callback, one branch of a select!, one registration of a  *)
(* directory, or one await.  The world (files, directories, publications)  *)
(* moves between any two steps.                                            *)
(***************************************************************************)
EXTENDS Integers, Sequences, FiniteSets

CONSTANTS
    Files, Dirs, Root,   \* Root \in Dirs is the repository root
    DirOf,               \* the directory a file lies in
    Class,               \* what classify_path sees in a path, see Classes
    Volatile,            \* directories that may be removed and made again
    Payloads,            \* what a publication declares as semantic inputs: all of them,
                         \* those of payloads with Complete coverage, do they resolve
    RawCapacity,         \* RAW_EVENT_CAPACITY (1024)
    BatchCapacity,       \* BATCH_CAPACITY (64)
    MaxBatchPaths,       \* MAX_BATCH_PATHS (256)
    MaxChanges, MaxPublications, MaxFailures   \* bounds on exploration

Paths == Files \cup Dirs
\* A directory of class "control" is one like .cargo: always in the population
\* and hidden all the same.
Classes == {"excluded", "git", "control", "hidden", "plain"}

ASSUME WatchAssumption ==
    /\ Root \in Dirs /\ Volatile \subseteq Dirs \ {Root} /\ "none" \notin Paths
    /\ DirOf \in [Files -> Dirs] /\ Class \in [Paths -> Classes] /\ Class[Root] = "plain"
    /\ Payloads \subseteq [inputs : SUBSET Files, checked : SUBSET Files, valid : BOOLEAN]
    /\ \A payload \in Payloads : payload.checked \subseteq payload.inputs
    /\ {RawCapacity, BatchCapacity, MaxBatchPaths} \subseteq Nat \ {0}
    /\ {MaxChanges, MaxPublications, MaxFailures} \subseteq Nat

VARIABLES
    exists,      \* directories on disk
    live,        \* directories the kernel reports events of
    changed,     \* history: files changed and neither reported nor indexed
    unheard,     \* history: those of them that nobody heard of, or whose event was
                 \* not relevant when it was read; see NoteChanges and NotePath
    sinceCapture,\* files changed since the running attempt read them
    drift,       \* files that differ from the newest published payload
    raw,         \* the raw event queue
    dropping,    \* the callback has seen Full and not yet stored the flag
    overflowed,  \* the atomic flag
    deb,         \* debouncer: its place
    watched,     \* debouncer: the population it believes to be registered
    declared,    \* debouncer: declared_inputs
    pending, reason, armed,   \* debouncer: batch in the making, deadline set
    refresh,     \* debouncer: the population refresh under way
    batches,     \* batches in the channel
    svc,         \* service: its place
    update,      \* service: publication not looked at yet (watch channel)
    handling,    \* service: publication being handled
    command, completion,   \* the population command and its oneshot answer
    stopRequested,
    left         \* exploration budgets

world == <<exists, live, changed, unheard, sinceCapture, drift>>
WorldButUnheard == <<exists, live, changed, sinceCapture, drift>>
queue == <<raw, dropping, overflowed>>
debouncer == <<deb, watched, declared, pending, reason, armed, refresh>>
service == <<svc, update, handling, command, completion, stopRequested>>
vars == <<world, queue, debouncer, batches, service, left>>

None == "none"
NoCommand == {None}
Event(path, topology) == [path |-> path, topology |-> topology]
NoRefresh == [desired |-> {}, inputs |-> {}, event |-> Event(None, FALSE), before |-> {}]
NoPayload == [inputs |-> {}, checked |-> {}, valid |-> FALSE]
Running == svc \in {"select", "replace", "reobserve"}

-----------------------------------------------------------------------------
(* Pure helpers.                                                           *)

\* combine_reason
Combine(a, b) ==
    IF "QueueOverflow" \in {a, b} THEN "QueueOverflow"
    ELSE IF "GitState" \in {a, b} THEN "GitState" ELSE "Filesystem"

\* classify_path_with_declared_inputs: a declared input is relevant even when
\* hidden; an excluded path never is.
Classify(path, inputs) ==
    CASE Class[path] = "excluded" -> None
      [] Class[path] = "git" -> "GitState"
      [] path \in inputs \/ (Class[path] = "control" /\ path \in Files) -> "Filesystem"
      [] path \notin inputs /\ Class[path] \in {"hidden", "control"} -> None
      [] OTHER -> "Filesystem"

\* add_declared_input_directories: the directory to watch for an input, or the
\* nearest one above it while it does not exist.
Home(f) == IF DirOf[f] \in exists THEN DirOf[f] ELSE Root

\* desired_watch_directories_with_inputs: visible and control directories that
\* exist, and the directories of declared inputs.
Desired(inputs) ==
    {d \in exists : Class[d] \notin {"hidden", "excluded"}} \cup {Home(f) : f \in inputs}

\* An input inside an excluded root is refused.
Refused(inputs) == \E f \in inputs : Class[f] = "excluded"

\* The paths whose event is a report of f wherever the population stands.  The
\* event of a hidden directory is one only while the directory is registered,
\* which the refresh before it may have ended.
ReportsOf(f) == {f} \cup {d \in {DirOf[f]} : Class[d] \in {"git", "plain"}}

\* What will still make the supervisor look after a change of f.
Carried(f) ==
    \/ svc = "registered"
    \/ dropping \/ overflowed
    \/ \E n \in DOMAIN raw : raw[n].path \in ReportsOf(f)
    \/ deb = "refresh" /\ refresh.event.path \in ReportsOf(f)
    \/ armed \/ deb = "flush" \/ batches > 0
    \/ f \in handling.checked /\ f \in drift

-----------------------------------------------------------------------------
(* The world and the native callback.                                      *)

Spend(kind) == left[kind] > 0 /\ left' = [left EXCEPT ![kind] = @ - 1]

\* The closure given to RecommendedWatcher::new: try_send; on Full the flag is
\* stored by a later instruction.
Deliver(event, dir) ==
    /\ ~dropping      \* one callback thread
    /\ \/ /\ dir \in live /\ deb # "closed" /\ Len(raw) < RawCapacity
          /\ raw' = Append(raw, event) /\ UNCHANGED dropping
       \/ /\ dir \in live /\ deb # "closed" /\ Len(raw) = RawCapacity
          /\ dropping' = TRUE /\ UNCHANGED raw
       \/ /\ dir \notin live \/ deb = "closed"
          /\ UNCHANGED <<raw, dropping>>
    /\ UNCHANGED overflowed

StoreOverflowFlag ==
    /\ dropping
    /\ dropping' = FALSE /\ overflowed' = TRUE
    /\ UNCHANGED <<world, raw, debouncer, batches, service, left>>

\* Only files some publication declares need the comparison with a payload.
Declarable == UNION {payload.inputs : payload \in Payloads}

\* A change that no event reports, while nothing else stands for it either, is
\* noted as unheard.
NoteChanges(files, reported) ==
    /\ svc \notin {"off", "stopped"}
    /\ changed' = changed \cup files
    /\ unheard' = (unheard \ files)
                  \cup {f \in files \ reported : ~Carried(f) /\ f \notin handling.checked}
    /\ sinceCapture' = sinceCapture \cup files
    /\ drift' = drift \cup (files \cap Declarable)

Change(f) ==
    /\ DirOf[f] \in exists
    /\ Spend("changes")
    /\ NoteChanges({f}, {g \in {f} : DirOf[g] \in live})
    /\ Deliver(Event(f, FALSE), DirOf[f])
    /\ UNCHANGED <<exists, live, debouncer, batches, service>>

Within(d) == {f \in Files : DirOf[f] = d}

\* A removed directory takes the kernel's registration with it; one that is
\* made again has none until the watcher asks for it.
RemoveDir(d) ==
    /\ d \in exists \cap Volatile
    /\ Spend("changes")
    /\ exists' = exists \ {d} /\ live' = live \ {d}
    /\ NoteChanges(Within(d), {f \in Within(d) : d \in ReportsOf(f)})
    /\ Deliver(Event(d, TRUE), Root)
    /\ UNCHANGED <<debouncer, batches, service>>

MakeDir(d) ==
    /\ d \in Volatile \ exists
    /\ Spend("changes")
    /\ exists' = exists \cup {d}
    /\ NoteChanges(Within(d), {f \in Within(d) : d \in ReportsOf(f)})
    /\ Deliver(Event(d, TRUE), Root)
    /\ UNCHANGED <<live, debouncer, batches, service>>

\* The supervisor runs attempts of its own accord (external to this module).
AttemptCaptures ==
    /\ svc # "off" /\ left["publications"] > 0
    /\ sinceCapture' = {}
    /\ UNCHANGED <<exists, live, changed, unheard, drift, queue, debouncer, batches, service, left>>

\* settle_run: send_replace on the watch channel keeps only the newest value.
\* What the attempt read before it captured is indexed now.
Publish(payload) ==
    /\ svc # "off"
    /\ Spend("publications")
    /\ update' = IF svc = "stopped" THEN update ELSE payload
    /\ drift' = sinceCapture \cap Declarable
    /\ changed' = changed \cap sinceCapture
    /\ unheard' = unheard \cap sinceCapture
    /\ UNCHANGED <<exists, live, sinceCapture, queue, debouncer, batches, svc, handling,
                   command, completion, stopRequested>>

-----------------------------------------------------------------------------
(* The debouncer task.                                                     *)

\* Bug variant: the deadline does not outlive a turn of the loop.
BackToSelectDisarmed(r, a) ==
    /\ deb' = "select"
    /\ overflowed' = FALSE
    /\ reason' = IF overflowed THEN "QueueOverflow" ELSE r
    /\ armed' = overflowed

\* Every branch ends at the top of the loop, which swaps the overflow flag
\* before the next select!; r and a are the reason and deadline it left.
BackToSelect(r, a) ==
    /\ deb' = "select"
    /\ overflowed' = FALSE
    /\ reason' = IF overflowed THEN "QueueOverflow" ELSE r
    /\ armed' = (a \/ overflowed)

\* A change whose event is not relevant where it is read is unheard of, unless
\* something else stands for it.
Ignored(path, classified) == {f \in {path} \cap changed : classified = None /\ ~Carried(f)'}

\* The loop over event.paths: insert, or note that the batch is incomplete;
\* either way the deadline moves.  `sofar` is the reason before the path.
NotePath(path, classified, sofar) ==
    LET full == Cardinality(pending) >= MaxBatchPaths
    IN  /\ pending' = IF classified # None /\ ~full THEN pending \cup {path} ELSE pending
        /\ BackToSelect(CASE classified = None -> sofar
                          [] classified # None /\ full /\ path \notin pending -> "QueueOverflow"
                          [] OTHER -> Combine(sofar, classified),
                        armed \/ classified # None \/ sofar = "QueueOverflow")
        /\ unheard' = unheard \cup Ignored(path, classified)

BeginRefresh(inputs, event) ==
    refresh' = [desired |-> Desired(inputs), inputs |-> inputs, event |-> event, before |-> watched]

\* raw_events.recv(): an ordinary event, or one that changes the topology.
TakeEvent ==
    /\ deb = "select" /\ raw # <<>>
    /\ raw' = Tail(raw)
    /\ UNCHANGED <<WorldButUnheard, dropping, watched, declared, batches, service, left>>
    /\ LET event == Head(raw)
       IN  \/ /\ ~event.topology
              /\ NotePath(event.path, Classify(event.path, declared), reason)
              /\ UNCHANGED refresh
           \/ /\ event.topology
              /\ BeginRefresh(declared, event)
              /\ deb' = "refresh" /\ UNCHANGED <<unheard, overflowed, pending, reason, armed>>

\* population.recv()
TakeCommand ==
    /\ deb = "select" /\ command # NoCommand
    /\ BeginRefresh(command, Event(None, FALSE))
    /\ command' = NoCommand
    /\ deb' = "refresh"
    /\ UNCHANGED <<world, queue, watched, declared, pending, reason, armed, batches, svc, update,
                   handling, completion, stopRequested, left>>

\* What follows the refresh: the answer to the command, or the rest of the
\* event's handling.
Continue(ok) ==
    \/ /\ refresh.event.path = None
       /\ declared' = IF ok THEN refresh.inputs ELSE declared
       /\ completion' = IF ok THEN "ok" ELSE "error"
       /\ BackToSelect(reason, armed)
       /\ UNCHANGED <<pending, unheard>>
    \/ /\ refresh.event.path # None
       /\ LET path == refresh.event.path
              classified == IF path \in refresh.before \cup watched' /\ Classify(path, declared) = None
                            THEN "Filesystem" ELSE Classify(path, declared)
          IN  NotePath(path, classified, IF ok THEN reason ELSE "QueueOverflow")
       /\ UNCHANGED <<declared, completion>>

EndRefresh(ok) ==
    /\ Continue(ok)
    /\ refresh' = NoRefresh

\* refresh_watch_population, one watcher.watch call: registers a directory
\* that still exists.
AddDirectory(d) ==
    /\ deb = "refresh" /\ ~Refused(refresh.inputs)
    /\ d \in refresh.desired \ watched /\ d \in exists
    /\ watched' = watched \cup {d} /\ live' = live \cup {d}
    /\ UNCHANGED <<exists, changed, unheard, sinceCapture, drift, queue, deb, declared, pending, reason,
                   armed, refresh, batches, service, left>>

\* The call fails: the directory is gone, or the system has no watch to give.
\* What was registered stays registered.
AddFails(d) ==
    /\ deb = "refresh" /\ ~Refused(refresh.inputs)
    /\ d \in refresh.desired \ watched
    /\ \/ d \notin exists /\ UNCHANGED left
       \/ d \in exists /\ Spend("failures")
    /\ UNCHANGED <<WorldButUnheard, raw, dropping, watched, batches, svc, update, handling,
                   command, stopRequested>>
    /\ EndRefresh(FALSE)

\* The population cannot be determined: nothing is registered.
RefuseInputs ==
    /\ deb = "refresh" /\ Refused(refresh.inputs)
    /\ UNCHANGED <<WorldButUnheard, raw, dropping, watched, batches, svc, update, handling,
                   command, stopRequested, left>>
    /\ EndRefresh(FALSE)

\* Bug variant: what is not desired goes before the rest is registered.
RemoveFirst ==
    /\ deb = "refresh" /\ ~Refused(refresh.inputs)
    /\ watched' = watched \cap refresh.desired
    /\ live' = live \cap refresh.desired
    /\ UNCHANGED <<exists, changed, sinceCapture, drift, raw, dropping, batches, svc, update,
                   handling, command, stopRequested, left>>
    /\ \/ /\ refresh.desired \subseteq watched
          /\ EndRefresh(TRUE)
       \/ /\ ~(refresh.desired \subseteq watched)
          /\ UNCHANGED <<unheard, overflowed, deb, declared, pending, reason, armed, refresh,
                         completion>>

\* Everything desired is registered: unwatch the rest.
RemoveRest ==
    /\ deb = "refresh" /\ ~Refused(refresh.inputs)
    /\ refresh.desired \subseteq watched
    /\ watched' = refresh.desired
    /\ live' = live \cap refresh.desired
    /\ UNCHANGED <<exists, changed, sinceCapture, drift, raw, dropping, batches, svc, update,
                   handling, command, stopRequested, left>>
    /\ EndRefresh(TRUE)

\* The sleeper fires; flush_batch sends nothing when there is nothing to say,
\* and otherwise waits for room in the channel.
Fire ==
    /\ deb = "select" /\ armed
    /\ \/ /\ pending = {} /\ reason # "QueueOverflow"
          /\ BackToSelect("Filesystem", FALSE)
       \/ /\ pending # {} \/ reason = "QueueOverflow"
          /\ deb' = "flush" /\ UNCHANGED <<overflowed, reason, armed>>
    /\ pending' = {}
    /\ UNCHANGED <<world, raw, dropping, watched, declared, refresh, batches, service, left>>

SendBatch ==
    /\ deb = "flush" /\ svc # "stopped"
    /\ batches < BatchCapacity
    /\ batches' = batches + 1
    /\ BackToSelect("Filesystem", FALSE)
    /\ UNCHANGED <<world, raw, dropping, watched, declared, pending, refresh, service, left>>

\* The service task is gone: a closed channel ends the debouncer, and dropping
\* the watcher ends the registrations.
CloseDebouncer ==
    /\ svc = "stopped" /\ deb \in {"select", "flush"}
    /\ deb' = "closed"
    /\ live' = {} /\ watched' = {} /\ raw' = <<>> /\ pending' = {} /\ armed' = FALSE
    /\ UNCHANGED <<exists, changed, unheard, sinceCapture, drift, dropping, overflowed, declared, reason,
                   refresh, batches, service, left>>

-----------------------------------------------------------------------------
(* The service task.                                                       *)

\* IndexSupervisor::observe_changes and request_periodic_reconciliation: the
\* next attempt reads everything as it is after this step.
Observe == changed' = {} /\ unheard' = {}
Silent == UNCHANGED <<changed, unheard>>
WorldButChanged == <<exists, live, sinceCapture, drift>>

\* FileWatcher::start: the first population is registered before it returns.
Register ==
    /\ svc = "off"
    /\ watched' = Desired({}) /\ live' = Desired({})
    /\ deb' = "select" /\ svc' = "registered"
    /\ UNCHANGED <<exists, changed, unheard, sinceCapture, drift, queue, declared, pending, reason, armed,
                   refresh, batches, update, handling, command, completion, stopRequested, left>>

\* supervisor.enable_watch(request, true): the initial reconciliation.
Enable ==
    /\ svc = "registered"
    /\ Observe
    /\ svc' = "select"
    /\ UNCHANGED <<WorldButChanged, queue, debouncer, batches, update, handling, command,
                   completion, stopRequested, left>>

RequestStop ==
    /\ svc # "off" /\ ~stopRequested
    /\ stopRequested' = TRUE
    /\ UNCHANGED <<world, queue, debouncer, batches, svc, update, handling, command, completion, left>>

\* `biased`: stop, then publications, then batches, then ticks.
AtSelect == svc = "select"
\* stopped: the loop ends and WATCH is disabled.
BreakOff ==
    /\ AtSelect /\ stopRequested
    /\ svc' = "stopped"
    /\ UNCHANGED <<world, queue, debouncer, batches, update, handling, command, completion,
                   stopRequested, left>>

\* publication_updates.changed(): replace the population by the declared
\* inputs, or by none when they cannot be resolved, and await the answer.
TakeUpdate ==
    /\ AtSelect /\ ~stopRequested /\ update # NoPayload
    /\ handling' = update /\ update' = NoPayload
    /\ command' = IF update.valid THEN update.inputs ELSE {}
    /\ svc' = "replace"
    /\ unheard' = unheard \ update.checked   \* they are compared from here on
    /\ UNCHANGED <<exists, live, changed, sinceCapture, drift, queue, debouncer, batches,
                   completion, stopRequested, left>>

\* Bug variant: a population that cannot be registered is asked for again.
AskAgain ==
    /\ svc = "replace" /\ completion # None
    /\ completion' = None
    /\ \/ /\ completion = "error" /\ Silent
          /\ command' = IF handling.valid THEN handling.inputs ELSE {}
          /\ UNCHANGED <<svc, handling>>
       \/ /\ completion = "ok"
          /\ svc' = IF handling.valid THEN "reobserve" ELSE "select"
          /\ handling' = IF handling.valid THEN handling ELSE NoPayload
          /\ IF handling.valid THEN Silent ELSE Observe
          /\ UNCHANGED command
    /\ UNCHANGED <<WorldButChanged, queue, debouncer, batches, update, stopRequested, left>>

\* Replaced.  Inputs that could not be resolved ask for a reconciliation.
Replaced ==
    /\ svc = "replace" /\ completion # None
    /\ completion' = None
    /\ \/ completion = "error" /\ svc' = "stopped" /\ Silent
       \/ completion = "ok" /\ handling.valid /\ svc' = "reobserve" /\ Silent
       \/ completion = "ok" /\ ~handling.valid /\ svc' = "select" /\ Observe
    /\ handling' = IF svc' = "reobserve" THEN handling ELSE NoPayload
    /\ UNCHANGED <<WorldButChanged, queue, debouncer, batches, update, command, stopRequested, left>>

\* Bug variant: registration is taken to be enough.
ReobserveNothing ==
    /\ svc = "reobserve"
    /\ handling' = NoPayload /\ svc' = "select"
    /\ UNCHANGED <<world, queue, debouncer, batches, update, command, completion, stopRequested, left>>

\* complete_semantic_paths_are_current: a declared input that no longer is
\* what its payload recorded is observed as a change, and so is a comparison
\* that fails.  Payloads of other than Complete coverage are not compared,
\* though their inputs have been registered.
Reobserve ==
    /\ svc = "reobserve"
    /\ \/ handling.checked \cap drift = {} /\ Silent
       \/ handling.checked # {} /\ Observe
    /\ handling' = NoPayload
    /\ svc' = "select"
    /\ UNCHANGED <<WorldButChanged, queue, debouncer, batches, update, command, completion,
                   stopRequested, left>>

\* batches.recv()
TakeBatch ==
    /\ AtSelect /\ ~stopRequested /\ update = NoPayload /\ batches > 0
    /\ batches' = batches - 1
    /\ Observe
    /\ UNCHANGED <<WorldButChanged, queue, debouncer, service, left>>

\* Bug variant: a tick reconciles only after an overflow.
TickOnlyAfterOverflow ==
    /\ AtSelect /\ ~stopRequested /\ update = NoPayload /\ batches = 0
    /\ overflowed
    /\ Observe
    /\ UNCHANGED <<WorldButChanged, queue, debouncer, batches, service, left>>

\* integrity_reconciliation.tick()
IntegrityTick ==
    /\ AtSelect /\ ~stopRequested /\ update = NoPayload /\ batches = 0
    /\ Observe
    /\ UNCHANGED <<WorldButChanged, queue, debouncer, batches, service, left>>

-----------------------------------------------------------------------------
Init ==
    /\ exists \in {Dirs, Dirs \ Volatile} /\ live = {}
    /\ changed = {} /\ unheard = {} /\ sinceCapture = {} /\ drift = {}
    /\ raw = <<>> /\ dropping = FALSE /\ overflowed = FALSE
    /\ deb = "off" /\ watched = {} /\ declared = {}
    /\ pending = {} /\ reason = "Filesystem" /\ armed = FALSE /\ refresh = NoRefresh
    /\ batches = 0
    /\ svc = "off" /\ update = NoPayload /\ handling = NoPayload
    /\ command = NoCommand /\ completion = None /\ stopRequested = FALSE
    /\ left = [changes |-> MaxChanges, publications |-> MaxPublications, failures |-> MaxFailures]

World ==
    \/ \E f \in Files : Change(f)
    \/ \E d \in Dirs : RemoveDir(d) \/ MakeDir(d)
    \/ AttemptCaptures
    \/ \E payload \in Payloads : Publish(payload)
    \/ RequestStop

Debouncer ==
    \/ TakeEvent \/ TakeCommand \/ Fire \/ SendBatch \/ CloseDebouncer
    \/ \E d \in Dirs : AddDirectory(d) \/ AddFails(d)
    \/ RefuseInputs \/ RemoveRest

Service == Register \/ Enable \/ BreakOff \/ TakeUpdate \/ Replaced \/ Reobserve \/ TakeBatch

Next == World \/ StoreOverflowFlag \/ Debouncer \/ Service \/ IntegrityTick

Spec == Init /\ [][Next]_vars

\* Tokio polls both tasks, the callback returns; nothing is said of the world
\* or, here, of the timer of the integrity ticks.
FairSpec ==
    /\ Spec
    /\ WF_vars(StoreOverflowFlag) /\ WF_vars(Debouncer) /\ WF_vars(Service)

-----------------------------------------------------------------------------
(* Properties.                                                             *)

TypeOK ==
    /\ exists \subseteq Dirs /\ live \subseteq exists /\ watched \subseteq Dirs
    /\ {changed, sinceCapture, drift, declared} \subseteq SUBSET Files
    /\ Len(raw) <= RawCapacity /\ batches \in 0..BatchCapacity
    /\ pending \subseteq Paths /\ Cardinality(pending) <= MaxBatchPaths
    /\ reason \in {"Filesystem", "GitState", "QueueOverflow"}
    /\ deb \in {"off", "select", "refresh", "flush", "closed"}
    /\ svc \in {"off", "registered", "select", "replace", "reobserve", "stopped"}

\* No change that was heard falls between the stages: while it is unreported,
\* an event, a flag, a batch or the comparison that follows a registration
\* still stands for it (start registers before it enables WATCH; the inputs of
\* a publication's Complete payloads are compared after they are registered;
\* overflow of any buffer is remembered).  What nobody heard of is left to the
\* integrity ticks: a change in a directory that is not registered, of a file
\* that was not relevant when its event was read, or of an input of a payload
\* without Complete coverage, between the capture and the registration.
ChangeCarried == Running => \A f \in changed \ unheard : Carried(f)

\* Types, and no change that slips between the two halves of the service.
WatchInv == TypeOK /\ ChangeCarried

\* "Add before removing so a failed expansion retains the complete previous
\* authority population": a directory is let go only by a refresh that did not
\* want it and that has registered everything it wanted.
PopulationKept ==
    [][svc # "stopped" => \A d \in watched \ watched' :
        d \notin refresh.desired /\ refresh.desired \subseteq watched]_vars

\* The service awaits the answer to a population command, and the debouncer,
\* which gives it, awaits room for a batch that only the service can make.
Wedged == svc = "replace" /\ deb = "flush" /\ batches = BatchCapacity

\* An event that reached the queue is reported, however full the batch was,
\* without the help of an integrity tick; unless the tasks are wedged.
AcceptedEventReported ==
    \A f \in Files : Class[f] = "plain" =>
        ((f \in changed /\ \E n \in DOMAIN raw : raw[n].path = f)
            ~> (f \notin changed \/ svc = "stopped" \/ Wedged))

\* With integrity ticks every change is reported, those whose event the full
\* queue dropped and those in directories nobody watches included ("slower
\* byte-exact integrity reconciliations keep dropped events from silently
\* becoming stale publication authority"); unless the tasks are wedged.
EveryChangeReported ==
    WF_vars(IntegrityTick) =>
        \A f \in Files :
            (f \in changed /\ svc # "off") ~> (f \notin changed \/ svc = "stopped" \/ Wedged)

\* IndexWatchService::stop returns, whatever the service was doing when it was
\* asked to: it was registering a population, one that cannot be registered,
\* or comparing.  Only a service that is wedged does not end.
StopEndsUnlessWedged == stopRequested ~> (svc = "stopped" \/ Wedged)

\* What the documents promise of stop, with a batch channel of any length:
\* "Ctrl-C stops WATCH".
StopEnds == stopRequested ~> svc = "stopped"
=============================================================================
