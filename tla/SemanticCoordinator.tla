------------------------ MODULE SemanticCoordinator ------------------------
(***************************************************************************)
(* The persistent semantic provider coordinator of                         *)
(* crates/h00ligan-engine/src/code_intel_semantic_provider_coordinator.rs, *)
(* with the provider processes it owns and the attempts that drive it: one *)
(* session per execution root, an exact-reuse admission against the        *)
(* published payload, and a refresh that chooses between reuse, affected   *)
(* documents, affected roots and full certification.                       *)
(*                                                                         *)
(* A root has one document.  Its source is a record of version counters:   *)
(* `body` is what only this document depends on, `surface` what others     *)
(* resolve against, `paths` its path.  `top` stands for the root's project *)
(* files, which are its topology and its semantic inputs at once.  What a  *)
(* provider certifies for a root is the source its session holds.          *)
(***************************************************************************)
EXTENDS Integers, FiniteSets, ProviderProcess

CONSTANTS
    Roots,       \* execution roots
    Policies,    \* lifecycle policies, see RootLocal
    Kinds,       \* kinds of edit: "body", "surface", "paths", "top", "tool"
    NoRoot,      \* model value
    MaxEdits, MaxFailures    \* bounds on exploration

ASSUME CoordinatorAssumption ==
    /\ Policies \subseteq {"RootLocal", "WholeProvider"}
    /\ Kinds \subseteq {"body", "surface", "paths", "top", "tool"}
    /\ NoRoot \notin Roots /\ {MaxEdits, MaxFailures} \subseteq Nat

VARIABLES
    policy,      \* SemanticProviderLifecyclePolicy of the adapter
    world,       \* the repository and the toolchain as they are now
    published,   \* Calls payload of the current generation, or NoPayload
    kept,        \* retained authority: everything reset clears but sessions
    sess,        \* sessions: BTreeMap<PathBuf, RootSession>
    run,         \* the attempt under way, see Idle
    cancelled,   \* IndexCancellation of the attempt
    edits, failures,  \* changes of the world and failures so far
    mixed        \* history: a root-local refresh skipped a root whose source changed

vars == <<policy, world, published, kept, sess, run, cancelled, edits, failures, mixed>>
envVars == <<policy, world, edits>>

\* Go is root-local and replaces sessions for a full certification; Rust and
\* the workspace adapters are neither.
RootLocal == policy = "RootLocal"

NoSource == [body |-> 0, surface |-> 0, paths |-> 0]
FirstSource == [body |-> 1, surface |-> 1, paths |-> 1]
NoPayload == [none |-> TRUE]
Nothing == [sources |-> [r \in Roots |-> NoSource], topology |-> [r \in Roots |-> 0],
            payload |-> NoPayload, snapshot |-> FALSE, pending |-> FALSE]
NoSession == [none |-> TRUE]
NoSessions == [r \in Roots |-> NoSession]
Idle == [pc |-> "idle", src |-> Nothing.sources, top |-> Nothing.topology, tool |-> 0,
         todo |-> {}, next |-> "idle", asking |-> NoRoot, certs |-> Nothing.sources,
         lane |-> "none", affected |-> {}, prev |-> NoSessions, failed |-> "no",
         result |-> "none", before |-> <<Nothing, NoSessions>>]

Held == kept.payload # NoPayload
Registered == {r \in Roots : sess[r] # NoSession}
\* retained_session_population
Complete == Registered = Roots /\ Held
RepairRequired == Registered # {} /\ ~Complete

\* Sessions without their processes.
Terms(s) == IF s = NoSession THEN s
            ELSE [src |-> s.src, topology |-> s.topology, inputs |-> s.inputs, tool |-> s.tool]
\* combined_semantic_inputs, execution_authority
Inputs == [r \in Roots |-> sess[r].inputs]
ToolsAre(tool) == \A r \in Registered : sess[r].tool = tool
\* session_semantic_inputs_are_current
InputsCurrent == \A r \in Registered : sess[r].inputs = world.top[r]

\* reset: every child is closed and all retained state cleared.
Reset == kept' = Nothing /\ sess' = NoSessions

-----------------------------------------------------------------------------
(* The environment.                                                        *)

Fail == failures < MaxFailures /\ failures' = failures + 1

Edit ==
    /\ edits < MaxEdits /\ edits' = edits + 1
    /\ \E kind \in Kinds, r \in Roots :
        world' = CASE kind = "top" -> [world EXCEPT !.top[r] = @ + 1]
                   [] kind = "tool" -> [world EXCEPT !.tool = @ + 1]
                   [] OTHER -> [world EXCEPT !.src[r][kind] = @ + 1]
    /\ UNCHANGED <<policy, published, kept, sess, run, cancelled, failures, mixed>>

ChildDies ==
    /\ Fail
    /\ \E r \in Registered :
        /\ Reachable(sess[r].proc)
        /\ sess' = [sess EXCEPT ![r].proc = Died(@)]
    /\ UNCHANGED <<envVars, published, kept, run, cancelled, mixed>>

ChildAnswers ==
    /\ \E r \in Registered :
        /\ CanAnswer(sess[r].proc)
        /\ sess' = [sess EXCEPT ![r].proc = Answered(@)]
    /\ UNCHANGED <<envVars, published, kept, run, cancelled, failures, mixed>>

\* The supervisor cancels the running attempt.
Cancel ==
    /\ run.pc # "idle" /\ ~cancelled /\ Fail
    /\ cancelled' = TRUE
    /\ UNCHANGED <<envVars, published, kept, sess, run, mixed>>

\* The program ends and starts again: nothing in memory survives.
Restart ==
    /\ Fail
    /\ Reset /\ run' = Idle /\ cancelled' = FALSE
    /\ UNCHANGED <<envVars, published, mixed>>

-----------------------------------------------------------------------------
(* Requests to the sessions in run.todo, one after the other.              *)

Requesting == run.pc \in {"probe", "certify", "apply", "affected", "reconfigure"}

\* How an attempt ends that returns an error: with the prior authority
\* preserved, or with everything discarded.
Preserve(sessions) ==
    /\ kept' = kept /\ sess' = sessions
    /\ run' = [run EXCEPT !.pc = "publish", !.result = "preserved", !.asking = NoRoot,
                          !.todo = {}, !.prev = NoSessions]
Discard ==
    /\ Reset
    /\ run' = [run EXCEPT !.pc = "publish", !.result = "failed", !.asking = NoRoot,
                          !.todo = {}, !.prev = NoSessions]

\* Bug variant: the candidate population stays where the prior one was.
KeepCandidates(population) == population

\* The session population a root-local refresh leaves behind when it fails:
\* the replaced sessions return, reconfigured ones are gone.  A session of
\* another root stays registered, whatever became of its child.
RolledBack(population) ==
    [r \in Roots |-> IF r \in run.affected THEN run.prev[r] ELSE population[r]]
Quarantined(r) == [sess EXCEPT ![r].proc = Quarantine(@)]

\* In refresh_affected_execution_roots, before or after its fallback.
OnRoots == run.lane \in {"roots", "rootsFull"}

\* Bug variant: a transition that stops half way keeps the roots it reached.
LaneFailsKeepingAll(r, quarantined, byCancellation) ==
    \/ /\ run.pc = "probe"
       /\ kept' = kept /\ sess' = [quarantined EXCEPT ![r] = NoSession]
       /\ run' = [run EXCEPT !.asking = NoRoot, !.todo = {},
                             !.failed = IF byCancellation THEN "cancelled" ELSE "yes"]
    \/ run.pc # "probe" /\ Preserve(quarantined)

\* What a request that failed means for its lane.  `quarantined` is the
\* population with the failed boot killed.
LaneFails(r, quarantined, byCancellation) ==
    \/ /\ run.pc = "probe"
       \* The failed root is closed and removed.  Healthy siblings are still
       \* probed, unless the attempt is cancelled.
       /\ kept' = kept /\ sess' = [quarantined EXCEPT ![r] = NoSession]
       /\ run' = IF byCancellation
                 THEN [run EXCEPT !.asking = NoRoot, !.failed = "cancelled", !.todo = {}]
                 ELSE [run EXCEPT !.asking = NoRoot, !.failed = "yes", !.todo = @ \ {r}]
    \/ /\ run.pc = "reconfigure"
       /\ kept' = kept /\ sess' = quarantined
       /\ run' = [run EXCEPT !.asking = NoRoot, !.failed = "yes", !.todo = @ \ {r}]
    \/ run.pc \in {"certify", "apply", "affected"} /\ ~OnRoots /\ Discard
    \/ run.pc = "certify" /\ OnRoots /\ Preserve(RolledBack(quarantined))

\* request to the point where the frame is written.  A boot that is known to
\* be gone fails at once.
Ask ==
    /\ Requesting /\ run.asking = NoRoot
    /\ \E r \in run.todo :
        \/ /\ sess[r] # NoSession /\ Reachable(sess[r].proc)
           /\ run.pc = "probe" => ~cancelled
           /\ sess' = [sess EXCEPT ![r].proc = Asked(@)]
           /\ run' = [run EXCEPT !.asking = r]
           /\ kept' = kept
        \/ /\ sess[r] # NoSession /\ ~Reachable(sess[r].proc)
           /\ run.pc = "probe" => ~cancelled
           /\ LaneFails(r, Quarantined(r), FALSE)
        \/ /\ sess[r] = NoSession     \* "missing root session"
           /\ LaneFails(r, sess, FALSE)
    /\ UNCHANGED <<envVars, published, cancelled, failures, mixed>>

\* Bug variant: the terminal is read against the epoch before the transition.
ClaimOldAuthority(r) == [sess[r] EXCEPT !.proc = Claimed(@)]

\* What the terminal changes: prepare_epoch_transition and the new authority
\* for an applied epoch, the certified source, the new topology.
Claim(r) ==
    CASE run.pc \in {"apply", "affected"} ->
            [sess[r] EXCEPT !.proc = Claimed(@), !.src = run.src[r], !.topology = run.top[r]]
      [] run.pc = "reconfigure" ->
            [sess[r] EXCEPT !.proc = Claimed(@), !.topology = run.top[r], !.inputs = run.top[r]]
      [] OTHER -> [sess[r] EXCEPT !.proc = Claimed(@)]

ReadTerminal ==
    /\ run.asking # NoRoot
    /\ CanClaim(sess[run.asking].proc)
    /\ sess' = [sess EXCEPT ![run.asking] = Claim(run.asking)]
    /\ run' = [run EXCEPT
                !.asking = NoRoot, !.todo = @ \ {run.asking},
                !.certs = IF run.pc \in {"certify", "affected"}
                          THEN [@ EXCEPT ![run.asking] = sess'[run.asking].src] ELSE @]
    /\ UNCHANGED <<envVars, published, kept, cancelled, failures, mixed>>

\* Timeout, error terminal or identity mismatch at any time; a pipe that has
\* closed; the cancellation of the attempt.
RequestFails ==
    /\ run.asking # NoRoot
    /\ \/ Fail /\ LaneFails(run.asking, Quarantined(run.asking), FALSE)
       \/ /\ PipeClosed(sess[run.asking].proc)
          /\ LaneFails(run.asking, Quarantined(run.asking), FALSE) /\ UNCHANGED failures
       \/ /\ cancelled
          /\ LaneFails(run.asking, Quarantined(run.asking), TRUE) /\ UNCHANGED failures
    /\ UNCHANGED <<envVars, published, cancelled, mixed>>

-----------------------------------------------------------------------------
(* Exact reuse of the published payload.                                   *)

Refuse == [run EXCEPT !.pc = "refresh"]
Grant == [run EXCEPT !.pc = "publish", !.result = "reused"]
\* A probe ends when every root was asked, or before the next one when the
\* attempt is cancelled.
ProbeEnds(next) ==
    run.pc = "probe" /\ run.next = next /\ run.asking = NoRoot /\ (run.todo = {} \/ cancelled)
Proved == run.todo = {} /\ run.failed = "no"
Probe(roots, next) == [run EXCEPT !.pc = "probe", !.todo = roots, !.next = next, !.failed = "no"]

\* Bug variant: attempts share one cancellation token.
BeginCancelled ==
    /\ run.pc = "idle"
    /\ run' = [Idle EXCEPT !.pc = "refresh", !.src = world.src, !.top = world.top]
    /\ UNCHANGED <<envVars, published, kept, sess, cancelled, failures, mixed>>

\* An attempt captures sources and inventory, then asks for reuse.  Without a
\* canonical basis for the payload, or when forced, it goes on to refresh.
Begin ==
    /\ run.pc = "idle"
    /\ cancelled' = FALSE
    /\ \E pc \in {"authorize", "refresh"} :
        /\ pc = "authorize" => published # NoPayload
        /\ run' = [Idle EXCEPT !.pc = pc, !.src = world.src, !.top = world.top]
    /\ UNCHANGED <<envVars, published, kept, sess, failures, mixed>>

PublishedMatches == published.docs = run.src

\* Bug variant: the retained payload is not compared with the published one.
StateMatchesAnyPayload ==
    /\ Held /\ kept.topology = run.top
    /\ kept.sources = run.src
    /\ Complete

StateMatches ==
    /\ Held /\ kept.topology = run.top
    /\ kept.payload = published
    /\ kept.sources = run.src /\ PublishedMatches
    /\ Complete

\* A coherent process-local basis is left to the refresh that owns it.
ProcessLocal ==
    /\ Held
    /\ \/ kept.sources # run.src /\ ~PublishedMatches
       \/ RootLocal /\ (kept.topology # run.top \/ kept.pending)
    /\ kept.payload = published \/ kept.pending
    /\ kept.snapshot /\ Registered # {}
    /\ kept.payload.docs = kept.sources

\* authorizes_exact_generation_reuse up to its first request.
Authorize ==
    /\ run.pc = "authorize"
    /\ \/ /\ StateMatches
          /\ \/ cancelled /\ run' = Refuse /\ UNCHANGED <<kept, sess>>
             \/ ~ToolsAre(world.tool) /\ Reset /\ run' = Refuse
             \/ /\ ToolsAre(world.tool)
                /\ run' = Probe(Roots, "reuse") /\ UNCHANGED <<kept, sess>>
       \/ /\ ~StateMatches /\ (RepairRequired \/ ProcessLocal)
          /\ run' = Refuse /\ UNCHANGED <<kept, sess>>
       \/ /\ ~StateMatches /\ ~RepairRequired /\ ~ProcessLocal
          /\ Reset /\ run' = [run EXCEPT !.pc = "recertify", !.tool = world.tool]
    /\ UNCHANGED <<envVars, published, cancelled, failures, mixed>>

\* The end of a probe that runs for the reuse of retained sessions.
Reuse ==
    /\ ProbeEnds("reuse")
    /\ \/ ~Proved /\ run' = Refuse /\ UNCHANGED <<kept, sess>>
       \/ /\ Proved /\ InputsCurrent
          /\ kept' = [kept EXCEPT !.pending = FALSE, !.snapshot = TRUE]
          /\ run' = Grant /\ sess' = sess
       \/ /\ Proved /\ ~InputsCurrent
          /\ Reset /\ run' = [run EXCEPT !.pc = "recertify", !.tool = world.tool]
    /\ UNCHANGED <<envVars, published, cancelled, failures, mixed>>

\* What a recertified payload leaves in the coordinator.
Recertified ==
    kept' = [sources |-> run.src, topology |-> run.top, payload |-> published,
             snapshot |-> TRUE, pending |-> FALSE]

\* recertify_persisted_generation: the persisted payload against the current
\* coordinates, then either a reconstruction that keeps no session, or new
\* sessions.  All failures discard everything and go on to refresh.
Recertify ==
    /\ run.pc = "recertify"
    /\ \/ /\ cancelled \/ ~PublishedMatches \/ published.inventory # run.top
          /\ run' = Refuse
       \/ /\ ~cancelled /\ PublishedMatches /\ published.inventory = run.top
          /\ \/ /\ published.inputs = world.top /\ published.tool = run.tool
                /\ run' = [run EXCEPT !.pc = "reconstruct"]
             \/ run' = [run EXCEPT !.pc = "open", !.todo = Roots, !.next = "recertified"]
    /\ UNCHANGED <<envVars, published, kept, sess, cancelled, failures, mixed>>

\* The terminal checks of reconstruct_closed_generation.
Reconstruct ==
    /\ run.pc = "reconstruct"
    /\ \/ /\ cancelled \/ world.tool # run.tool \/ world.top # published.inputs
          /\ Reset /\ run' = Refuse
       \/ /\ ~cancelled /\ world.tool = run.tool /\ world.top = published.inputs
          /\ Recertified /\ sess' = sess /\ run' = Grant
    /\ UNCHANGED <<envVars, published, cancelled, failures, mixed>>

\* New sessions must reproduce the persisted authority before they are probed,
\* and the inputs must still be current afterwards.
CheckOpened ==
    /\ run.pc = "recertified"
    /\ \/ /\ Inputs = published.inputs /\ ToolsAre(published.tool) /\ ToolsAre(world.tool)
          /\ run' = Probe(Roots, "recertified") /\ UNCHANGED <<kept, sess>>
       \/ /\ ~(Inputs = published.inputs /\ ToolsAre(published.tool) /\ ToolsAre(world.tool))
          /\ Reset /\ run' = Refuse
    /\ UNCHANGED <<envVars, published, cancelled, failures, mixed>>

AdmitOpened ==
    /\ ProbeEnds("recertified")
    /\ \/ ~(Proved /\ InputsCurrent) /\ Reset /\ run' = Refuse
       \/ /\ Proved /\ InputsCurrent
          /\ Recertified /\ sess' = sess /\ run' = Grant
    /\ UNCHANGED <<envVars, published, cancelled, failures, mixed>>

-----------------------------------------------------------------------------
(* Refresh.                                                                *)

\* Toolchains are resolved, sessions whose child has exited are discarded, and
\* the roots that no transaction of this refresh will exercise are probed.
Refresh ==
    /\ run.pc = "refresh"
    /\ LET alive == [r \in Roots |-> IF sess[r] # NoSession /\ KnownDead(sess[r].proc)
                                     THEN NoSession ELSE sess[r]]
           live == {r \in Roots : alive[r] # NoSession}
           preflight == {r \in live : kept.sources[r] = run.src[r]}
           started == [run EXCEPT !.tool = world.tool, !.before = <<kept, sess>>]
       IN \/ /\ cancelled /\ sess' = sess
             /\ run' = [started EXCEPT !.pc = "publish", !.result = "preserved"]
          \/ /\ ~cancelled /\ sess' = alive
             /\ run' = IF live # {} /\ preflight # {}
                          /\ ~(RootLocal /\ Held /\ kept.topology # run.top)
                       THEN [started EXCEPT !.pc = "probe", !.todo = preflight,
                                            !.next = "plan", !.failed = "no"]
                       ELSE [started EXCEPT !.pc = "plan"]
    /\ UNCHANGED <<envVars, published, kept, cancelled, failures, mixed>>

\* Roots whose failure the preflight found are repaired by the plan, which
\* then does not look at the cancellation again.
EndPreflight ==
    /\ ProbeEnds("plan")
    /\ \/ /\ run.failed = "cancelled" \/ run.todo # {} \/ (run.failed = "no" /\ cancelled)
          /\ Preserve(sess)
       \/ /\ run.todo = {} /\ (run.failed = "yes" \/ (run.failed = "no" /\ ~cancelled))
          /\ run' = [run EXCEPT !.pc = "plan"] /\ UNCHANGED <<kept, sess>>
    /\ UNCHANGED <<envVars, published, cancelled, failures, mixed>>

SourceChanged == {r \in Roots : kept.sources[r] # run.src[r]}
SurfaceChanged == {r \in Roots : kept.sources[r].surface # run.src[r].surface}
PathsChanged == {r \in Roots : kept.sources[r].paths # run.src[r].paths}
ToolChanged == {r \in Roots : sess[r] = NoSession \/ sess[r].tool # run.tool}
TopologyChanged == {r \in Roots : kept.topology[r] # run.top[r]}

\* affected_roots of refresh_inner
AffectedRoots == TopologyChanged \cup ToolChanged \cup PathsChanged
CanLocalize == RootLocal /\ Held /\ kept.snapshot
\* requires_new_sessions
RequiresNew == ~Held \/ ~kept.snapshot \/ TopologyChanged \cup ToolChanged \cup PathsChanged # {}

\* refresh_affected_execution_roots: in place when only the project files of
\* these roots changed, by replacement otherwise.
CanReconfigure(roots) ==
    \A r \in roots :
        /\ sess[r] # NoSession /\ sess[r].tool = run.tool /\ sess[r].src = run.src[r]
        /\ sess[r].topology # run.top[r]
\* capture_reconfigured_semantic_inputs: the files must be the inventory's.
Recaptured(roots) == \A r \in roots : world.top[r] = run.top[r]
RootLane(roots) ==
    /\ kept' = kept /\ sess' = sess
    /\ run' = [run EXCEPT !.lane = "roots", !.affected = roots, !.todo = roots, !.failed = "no",
                          !.pc = IF CanReconfigure(roots) THEN "reconfigure" ELSE "open",
                          !.next = "certify"]
    /\ mixed' = (mixed \/ SourceChanged \ roots # {})

OpenAll ==
    /\ Reset
    /\ run' = [run EXCEPT !.pc = "open", !.todo = Roots, !.next = "certify", !.lane = "full"]

\* The choice of the lane: refresh_inner after the preflight, with
\* plan_semantic_refresh.  Reconfiguration reads the project files once more.
Plan ==
    /\ run.pc = "plan"
    /\ \/ /\ CanLocalize /\ AffectedRoots # {}
          /\ \/ /\ CanReconfigure(AffectedRoots) /\ ~Recaptured(AffectedRoots)
                /\ Discard /\ UNCHANGED mixed
             \/ /\ CanReconfigure(AffectedRoots) => Recaptured(AffectedRoots)
                /\ RootLane(AffectedRoots)
       \/ /\ ~(CanLocalize /\ AffectedRoots # {}) /\ RequiresNew
          /\ OpenAll /\ UNCHANGED mixed
       \/ /\ ~RequiresNew /\ SourceChanged = {}
          /\ UNCHANGED mixed
          /\ \/ /\ InputsCurrent /\ kept.payload.inputs = Inputs /\ ToolsAre(kept.payload.tool)
                /\ run' = [run EXCEPT !.pc = "terminal", !.result = "complete", !.lane = "reuse"]
                /\ UNCHANGED <<kept, sess>>
             \/ /\ ~(InputsCurrent /\ kept.payload.inputs = Inputs /\ ToolsAre(kept.payload.tool))
                /\ OpenAll
       \/ /\ ~RequiresNew /\ SurfaceChanged # {} /\ RootLocal
          /\ RootLane(Roots)
       \/ /\ ~RequiresNew /\ SurfaceChanged # {} /\ ~RootLocal
          /\ run' = [run EXCEPT !.pc = "apply", !.todo = SourceChanged, !.lane = "full"]
          /\ UNCHANGED <<kept, sess, mixed>>
       \/ /\ ~RequiresNew /\ SourceChanged # {} /\ SurfaceChanged = {}
          /\ run' = [run EXCEPT !.pc = "affected", !.todo = SourceChanged, !.lane = "affected"]
          /\ UNCHANGED <<kept, sess, mixed>>
    /\ UNCHANGED <<envVars, published, cancelled, failures>>

\* open_session_population: all or none.  A root-local policy binds the files
\* it captures to the inventory, the others take what the child observes.
Opened(r) ==
    [src |-> run.src[r], topology |-> run.top[r], inputs |-> world.top[r], tool |-> run.tool,
     proc |-> Spawned]
CanOpen ==
    /\ ~cancelled /\ world.tool = run.tool
    /\ RootLocal => Recaptured(run.todo)

Open ==
    /\ run.pc = "open"
    /\ \/ /\ CanOpen
          /\ sess' = [r \in Roots |-> IF r \in run.todo THEN Opened(r) ELSE sess[r]]
          /\ run' = [run EXCEPT !.pc = run.next, !.prev = sess]
          /\ UNCHANGED <<kept, failures>>
       \/ /\ \/ ~CanOpen /\ UNCHANGED failures
             \/ Fail
          /\ \/ run.next = "recertified" /\ Reset /\ run' = Refuse
             \/ run.next # "recertified" /\ OnRoots /\ Preserve(sess)
             \/ run.next # "recertified" /\ ~OnRoots /\ Discard
    /\ UNCHANGED <<envVars, published, cancelled, mixed>>

\* The end of reconfigure_session_population: one failure or a cancellation
\* closes every candidate.
Reconfigured ==
    /\ run.pc = "reconfigure" /\ run.todo = {} /\ run.asking = NoRoot
    /\ \/ /\ run.failed # "no" \/ cancelled
          /\ Preserve(RolledBack(sess))
       \/ /\ run.failed = "no" /\ ~cancelled
          /\ run' = [run EXCEPT !.pc = "certify", !.todo = run.affected]
          /\ UNCHANGED <<kept, sess>>
    /\ UNCHANGED <<envVars, published, cancelled, failures, mixed>>

\* apply_replacements is done: every root is certified.
Applied ==
    /\ run.pc = "apply" /\ run.todo = {} /\ run.asking = NoRoot
    /\ run' = [run EXCEPT !.pc = "certify", !.todo = Roots]
    /\ UNCHANGED <<envVars, published, kept, sess, cancelled, failures, mixed>>

\* The calls a candidate would publish: what was certified now, over the
\* parent snapshot for roots that were not asked.
Certified == CASE run.lane \in {"full", "rootsFull"} -> Roots
               [] run.lane = "roots" -> run.affected
               [] OTHER -> SourceChanged
CandidateCalls ==
    [r \in Roots |-> IF r \in Certified THEN run.certs[r] ELSE kept.payload.calls[r]]

\* Bug variant: the candidate counts as published before it is.
CommitSettled ==
    /\ kept' = [sources |-> run.src, topology |-> run.top,
                payload |-> [docs |-> run.src, calls |-> CandidateCalls, inputs |-> Inputs,
                             inventory |-> run.top, tool |-> run.tool],
                snapshot |-> TRUE, pending |-> FALSE]
    /\ sess' = sess
    /\ run' = [run EXCEPT !.pc = "terminal", !.result = "complete", !.prev = NoSessions]

\* commit_normalization of a complete candidate.
CommitCandidate ==
    /\ kept' = [sources |-> run.src, topology |-> run.top,
                payload |-> [docs |-> run.src, calls |-> CandidateCalls, inputs |-> Inputs,
                             inventory |-> run.top, tool |-> run.tool],
                snapshot |-> TRUE, pending |-> TRUE]
    /\ sess' = sess
    /\ run' = [run EXCEPT !.pc = "terminal", !.result = "complete", !.prev = NoSessions]

\* An incomplete one resets the coordinator and is reported as it is.
CommitIncomplete ==
    /\ Reset
    /\ run' = [run EXCEPT !.pc = "publish", !.result = "incomplete", !.prev = NoSessions]

\* A candidate of some roots or documents that is incomplete, or disagrees
\* with the prior calls elsewhere, is followed by a full certification.
Admit ==
    /\ run.pc \in {"certify", "affected"} /\ run.todo = {} /\ run.asking = NoRoot
    /\ \/ CommitCandidate /\ UNCHANGED failures
       \/ run.lane \in {"full", "rootsFull"} /\ Fail /\ CommitIncomplete
       \/ /\ run.lane \in {"roots", "affected"}
          /\ run' = [run EXCEPT !.pc = "certify", !.todo = Roots,
                                !.lane = IF OnRoots THEN "rootsFull" ELSE "full"]
          /\ UNCHANGED <<kept, sess, failures>>
    /\ UNCHANGED <<envVars, published, cancelled, mixed>>

\* The checks refresh makes around every lane: toolchains, and, unless the
\* terminals of an affected refresh were witnesses, a probe of every session.
Terminal ==
    /\ run.pc = "terminal"
    /\ \/ /\ ~cancelled /\ ~ToolsAre(world.tool) /\ Discard
       \/ /\ cancelled /\ UNCHANGED <<kept, sess>>
          /\ run' = [run EXCEPT !.pc = "publish", !.result = "failed"]
       \/ /\ ~cancelled /\ ToolsAre(world.tool) /\ UNCHANGED <<kept, sess>>
          /\ run' = Probe(IF run.lane = "affected" THEN {} ELSE Registered, "terminal")
    /\ UNCHANGED <<envVars, published, cancelled, failures, mixed>>

\* A failed probe keeps the candidate; changed inputs discard it.
TerminalInputs ==
    /\ ProbeEnds("terminal")
    /\ \/ /\ ~Proved /\ UNCHANGED <<kept, sess>>
          /\ run' = [run EXCEPT !.pc = "publish", !.result = "failed", !.todo = {}]
       \/ Proved /\ ~InputsCurrent /\ Discard
       \/ /\ Proved /\ InputsCurrent /\ UNCHANGED <<kept, sess>>
          /\ run' = [run EXCEPT !.pc = "publish"]
    /\ UNCHANGED <<envVars, published, cancelled, failures, mixed>>

\* The rest of the attempt: the generation is published with the payload or,
\* after a provider failure, without one; or the attempt ends as cancelled and
\* keeps its providers; or publication fails and all providers are reset.
Publish ==
    /\ run.pc = "publish"
    /\ run' = Idle
    /\ \/ /\ run.result = "reused" /\ UNCHANGED <<published, kept, sess, failures>>
       \/ /\ run.result # "reused" /\ ~cancelled
          /\ published' = IF run.result = "complete" THEN kept.payload ELSE NoPayload
          /\ \E told \in IF run.result \in {"complete", "incomplete"} THEN {TRUE} ELSE BOOLEAN :
               kept' = IF told THEN [kept EXCEPT !.pending = FALSE] ELSE kept
          /\ UNCHANGED <<sess, failures>>
       \/ /\ run.result # "reused" /\ cancelled /\ UNCHANGED <<published, kept, sess, failures>>
       \/ /\ run.result # "reused" /\ Fail /\ Reset /\ UNCHANGED published
    /\ UNCHANGED <<envVars, cancelled, mixed>>

-----------------------------------------------------------------------------
FirstPayload ==
    [docs |-> world.src, calls |-> world.src, inputs |-> world.top, inventory |-> world.top,
     tool |-> world.tool]

\* A program that starts beside a repository with or without a generation.
Init ==
    /\ policy \in Policies
    /\ world = [src |-> [r \in Roots |-> FirstSource], top |-> [r \in Roots |-> 1], tool |-> 1]
    /\ published \in {NoPayload, FirstPayload}
    /\ kept = Nothing /\ sess = NoSessions
    /\ run = Idle /\ cancelled = FALSE
    /\ edits = 0 /\ failures = 0 /\ mixed = FALSE

Steps ==
    \/ Begin \/ Authorize \/ Reuse \/ Recertify \/ Reconstruct \/ CheckOpened \/ AdmitOpened
    \/ Refresh \/ EndPreflight \/ Plan \/ Open \/ Reconfigured \/ Applied \/ Admit
    \/ Terminal \/ TerminalInputs \/ Publish
    \/ Ask \/ ReadTerminal \/ RequestFails
Environment == Edit \/ ChildDies \/ ChildAnswers \/ Cancel \/ Restart

Next == Steps \/ Environment

\* The attempt goes on; a child that lives answers; the supervisor starts
\* another attempt for what is not yet covered.
Fairness == WF_vars(Steps) /\ WF_vars(ChildAnswers)

Spec == Init /\ [][Next]_vars /\ Fairness

-----------------------------------------------------------------------------
(* Properties.                                                             *)

Source == [{"body", "surface", "paths"} -> 0..(MaxEdits + 1)]
Sources == [Roots -> Source]
Tops == [Roots -> 0..(MaxEdits + 1)]
Payload == [docs : Sources, calls : Sources, inputs : Tops, inventory : Tops,
            tool : 0..(MaxEdits + 1)]
PayloadOK(p) == p = NoPayload \/ p \in Payload
SessionOK(s) ==
    \/ s = NoSession
    \/ /\ s.src \in Source /\ {s.topology, s.inputs, s.tool} \subseteq 0..(MaxEdits + 1)
       /\ s.proc \in ProcessType

TypeOK ==
    /\ policy \in Policies /\ mixed \in BOOLEAN /\ cancelled \in BOOLEAN
    /\ PayloadOK(published) /\ PayloadOK(kept.payload)
    /\ kept.sources \in Sources /\ kept.topology \in Tops
    /\ Held => kept.payload.docs = kept.sources
    /\ \A r \in Roots : SessionOK(sess[r]) /\ SessionOK(run.prev[r])
    /\ run.todo \subseteq Roots /\ run.affected \subseteq Roots
    /\ run.asking \in run.todo \cup {NoRoot}

\* "canonical evidence" for "one exact source epoch" (refresh, line 1705):
\* the calls of a retained or published payload were certified from the very
\* sources the payload describes, whichever lane made them.
CertifiedMatchesSources ==
    \A p \in {published, kept.payload} : p # NoPayload => p.calls = p.docs

\* The same where no root-local refresh passed over a root whose source had
\* changed in the same epoch.
CertifiedUnlessMixed == ~mixed => CertifiedMatchesSources

\* Between attempts the sessions hold the retained epoch: no root is ahead
\* or behind after a transition that stopped half way.
SessionsHoldRetainedEpoch ==
    run.pc = "idle" /\ ~mixed =>
        \A r \in Registered :
            sess[r].src = kept.sources[r] /\ sess[r].topology = kept.topology[r]

\* Types, and sessions that stand where the retained authority says.
CoordinatorInv == TypeOK /\ SessionsHoldRetainedEpoch

\* PriorAuthorityPreserved means it: what was retained before the refresh is
\* retained, and every session left is one that was there.
PreservedMeansUnchanged ==
    [][run'.result = "preserved" /\ run.result # "preserved" =>
        /\ run.pc # "refresh" => kept' = run.before[1]
        /\ run.pc # "refresh" =>
             \A r \in Roots : sess'[r] = NoSession \/ Terms(sess'[r]) = Terms(run.before[2][r])]_vars

\* A retained payload that is not pending is the published one, unless the
\* provider failed and a generation without a payload was published since.
SettledIsPublished == Held /\ ~kept.pending /\ published # NoPayload => kept.payload = published

\* "a later request must not inherit": a session that may be asked again
\* never owes an answer to a request that has ended.
NoAnswerLeftBehind ==
    \A r \in Registered : sess[r].proc.wire # "idle" /\ ~KnownDead(sess[r].proc) => run.asking = r

\* Reuse is granted only for the sources the attempt captured, against the
\* project files as they are, however the world moved since the first check.
ReuseIsExact ==
    [][run'.result = "reused" /\ run.result # "reused" =>
        /\ published.docs = run.src
        /\ published.inputs = world.top
        /\ kept'.payload = published]_vars

\* When changes, cancellations and failures end, the published payload ends up
\* certified for the sources and project files of the world: no quarantined
\* session, refused reuse or rejected candidate is in the way for ever.
CaughtUp ==
    /\ published # NoPayload
    /\ published.docs = world.src /\ published.inventory = world.top
    /\ published.inputs = world.top /\ published.tool = world.tool
EventuallyCaughtUp == <>[]CaughtUp
=============================================================================
