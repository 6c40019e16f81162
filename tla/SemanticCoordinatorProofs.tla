---------------------- MODULE SemanticCoordinatorProofs ----------------------
(***************************************************************************)
(* Machine-checked proofs about the semantic provider coordinator, for     *)
(* every set of roots, both lifecycle policies, every kind of change and   *)
(* every number of changes and failures.                                   *)
(***************************************************************************)
EXTENDS SemanticCoordinator, TLAPS

-----------------------------------------------------------------------------
(* The inductive invariant.                                                *)

Versions == 0..(MaxEdits + 1)
Session == [src : Source, topology : Versions, inputs : Versions, tool : Versions,
            proc : ProcessType]
SessionOrNone == Session \cup {NoSession}
Population == [Roots -> SessionOrNone]
PayloadOrNone == Payload \cup {NoPayload}
Kept == [sources : Sources, topology : Tops, payload : PayloadOrNone,
         snapshot : BOOLEAN, pending : BOOLEAN]

ProbeGoals == {"reuse", "recertified", "plan", "terminal"}
Pcs == {"idle", "authorize", "recertify", "reconstruct", "recertified", "refresh", "plan", "open",
        "probe", "reconfigure", "certify", "apply", "affected", "terminal", "publish"}
Run == [pc : Pcs, src : Sources, top : Tops, tool : Versions, todo : SUBSET Roots,
        next : ProbeGoals \cup {"idle", "certify"}, asking : Roots \cup {NoRoot}, certs : Sources,
        lane : {"none", "roots", "rootsFull", "full", "affected", "reuse"},
        affected : SUBSET Roots, prev : Population, failed : {"no", "yes", "cancelled"},
        result : {"none", "preserved", "failed", "reused", "complete", "incomplete"},
        before : Kept \X Population]

Types ==
    /\ policy \in Policies /\ mixed \in BOOLEAN /\ cancelled \in BOOLEAN
    /\ edits \in 0..MaxEdits /\ failures \in 0..MaxFailures
    /\ world \in [src : [Roots -> [{"body", "surface", "paths"} -> 0..(edits + 1)]],
                  top : [Roots -> 0..(edits + 1)], tool : 0..(edits + 1)]
    /\ published \in PayloadOrNone /\ kept \in Kept /\ sess \in Population /\ run \in Run

\* Where the attempt stands.
ProbeFor(next) == run.pc = "probe" /\ run.next = next
Resting == \/ run.pc \in {"idle", "authorize", "refresh", "plan", "terminal", "publish"}
           \/ ProbeFor("reuse") \/ ProbeFor("plan") \/ ProbeFor("terminal")
           \/ run.pc = "open" /\ OnRoots
Cleared == run.pc \in {"recertify", "reconstruct"} \/ (run.pc = "open" /\ ~OnRoots)
Reopened == run.pc = "recertified" \/ ProbeFor("recertified")
AgainstPublished ==
    run.pc = "reconstruct" \/ Reopened \/ (run.pc = "open" /\ run.next = "recertified")
Locating == run.pc \in {"open", "reconfigure", "certify"} /\ OnRoots
Planning == run.pc = "plan" \/ ProbeFor("plan")

\* A retained payload describes the retained sources, is the published one
\* once it is settled, and was certified from the sources it describes.
KeptTrue ==
    /\ Held => kept.payload.docs = kept.sources
    /\ SettledIsPublished /\ CertifiedUnlessMixed

\* Only the session that is asked may owe an answer; those a root-local
\* refresh set aside owe none.
Quiet(s) == s # NoSession => s.proc.wire = "idle" \/ KnownDead(s.proc)
AskTrue ==
    /\ run.asking # NoRoot => /\ Requesting /\ run.asking \in run.todo
                              /\ sess[run.asking] # NoSession
    /\ \A r \in Roots : run.asking # r => Quiet(sess[r])
    /\ \A r \in Roots : Quiet(run.prev[r])
    /\ run.prev # NoSessions => run.pc = "certify" /\ OnRoots

\* A session that stands where the retained authority says.
Holds(s, r) ==
    s # NoSession =>
        /\ ~mixed => s.src = kept.sources[r] /\ s.topology = kept.topology[r]
        /\ Held => s.inputs = kept.payload.inputs[r]

\* A session that stands where the attempt is going.
Reached(s, r) == s # NoSession /\ s.src = run.src[r] /\ s.topology = run.top[r]

\* A session as it was when the refresh began, but for its process.
AsBefore(s, r) == s = NoSession \/ Terms(s) = Terms(run.before[2][r])

RestingTrue == Resting => \A r \in Roots : Holds(sess[r], r)

ClearedTrue ==
    /\ Cleared => kept = Nothing /\ sess = NoSessions
    /\ run.pc = "open" /\ ~OnRoots => run.todo = Roots
    /\ run.pc = "open" => run.next \in {"certify", "recertified"}
    /\ run.pc = "open" /\ run.next = "certify" => run.lane \in {"roots", "full"}

\* An exact reuse is decided against payloads that stay what they were.
ReuseTrue ==
    /\ run.pc \in {"authorize", "recertify"} => published # NoPayload
    /\ run.pc \in {"authorize", "recertify"} \/ ProbeFor("reuse") => run.lane = "none"
    /\ ProbeFor("reuse") =>
         /\ Held /\ kept.payload = published /\ published.docs = run.src
         /\ run.failed = "no" => \A r \in Roots : sess[r] # NoSession
    /\ AgainstPublished =>
         published # NoPayload /\ published.docs = run.src /\ published.inventory = run.top
    /\ Reopened => \A r \in Roots : sess[r] # NoSession => Reached(sess[r], r)
    /\ run.pc = "recertified" => \A r \in Roots : sess[r] # NoSession
    /\ ProbeFor("recertified") =>
         /\ \A r \in Roots : sess[r] # NoSession => sess[r].inputs = published.inputs[r]
         /\ run.failed = "no" => \A r \in Roots : sess[r] # NoSession

\* A refresh that may still be preserved has changed nothing retained, and no
\* root but those it works on.
PlanningTrue ==
    Planning \/ (run.pc = "open" /\ OnRoots) =>
        kept = run.before[1] /\ \A r \in Roots : AsBefore(sess[r], r)

LocatingTrue ==
    Locating =>
        /\ Held /\ kept = run.before[1]
        /\ \A r \in Roots : Holds(run.prev[r], r) /\ AsBefore(run.prev[r], r)
        /\ \A r \in Roots \ run.affected :
             /\ sess[r] # NoSession /\ Holds(sess[r], r) /\ AsBefore(sess[r], r)
             /\ kept.topology[r] = run.top[r]
             /\ ~mixed => kept.sources[r] = run.src[r]
        /\ run.pc = "open" => run.todo = run.affected /\ run.next = "certify" /\ run.lane = "roots"
        /\ run.pc = "certify" => \A r \in run.affected : Reached(sess[r], r)

ReconfigureTrue ==
    run.pc = "reconfigure" =>
        /\ run.lane = "roots" /\ run.todo \subseteq run.affected
        /\ \A r \in run.affected : sess[r] # NoSession /\ sess[r].src = run.src[r]
        /\ run.failed = "no" => \A r \in run.affected \ run.todo : Reached(sess[r], r)

\* Applying replacements or affected documents moves every session to the
\* epoch of the attempt, and a full certification finds all of them there.
ApplyTrue ==
    /\ run.pc \in {"apply", "affected"} =>
         /\ Held /\ kept.topology = run.top
         /\ \A r \in Roots : sess[r] # NoSession
         /\ ~mixed => \A r \in Roots \ run.todo : Reached(sess[r], r)
    /\ run.pc = "affected" => run.lane = "affected"
    /\ run.pc = "apply" => run.lane = "full"
    /\ run.pc = "certify" /\ ~OnRoots =>
         /\ run.lane = "full" /\ \A r \in Roots : sess[r] # NoSession
         /\ ~mixed => \A r \in Roots : Reached(sess[r], r)
    /\ run.pc = "terminal" => \A r \in Roots : sess[r] # NoSession

CertsTrue ==
    ~mixed /\ run.pc \in {"certify", "affected"} =>
        \A r \in Certified \ run.todo : run.certs[r] = run.src[r]

PhaseTrue ==
    /\ KeptTrue /\ RestingTrue /\ ClearedTrue /\ ReuseTrue /\ PlanningTrue
    /\ LocatingTrue /\ ReconfigureTrue /\ ApplyTrue /\ CertsTrue

CoordinatorIInv == Types /\ AskTrue /\ PhaseTrue

-----------------------------------------------------------------------------
(* Facts about the constants and the records.                              *)

LEMMA Bounds == /\ MaxEdits \in Nat /\ MaxFailures \in Nat /\ NoRoot \notin Roots
                /\ 0 \in Versions /\ 1 \in Versions
  BY CoordinatorAssumption DEF Versions

LEMMA NoneIsNoRecord ==
    /\ NoSession \notin Session /\ NoPayload \notin Payload
    /\ \A s \in SessionOrNone : s # NoSession => s \in Session
    /\ \A p \in PayloadOrNone : p # NoPayload => p \in Payload
  <1>1. \A s \in Session : DOMAIN s = {"src", "topology", "inputs", "tool", "proc"}
    BY DEF Session
  <1>2. \A p \in Payload : DOMAIN p = {"docs", "calls", "inputs", "inventory", "tool"}
    BY DEF Payload
  <1>3. DOMAIN NoSession = {"none"} /\ DOMAIN NoPayload = {"none"}
    BY DEF NoSession, NoPayload
  <1> QED
    BY <1>1, <1>2, <1>3 DEF SessionOrNone, PayloadOrNone

LEMMA NothingIsKept ==
    /\ Nothing \in Kept /\ Nothing.payload = NoPayload /\ Nothing.pending = FALSE
    /\ Nothing.sources \in Sources /\ Nothing.topology \in Tops
    /\ NoSessions \in Population /\ \A r \in Roots : NoSessions[r] = NoSession
  <1>1. NoSource \in Source
    BY Bounds DEF NoSource, Source, Versions
  <1>2. [r \in Roots |-> NoSource] \in Sources /\ [r \in Roots |-> 0] \in Tops
    BY <1>1, Bounds DEF Sources, Tops, Versions
  <1>3. NoPayload \in PayloadOrNone
    BY DEF PayloadOrNone
  <1>4. Nothing \in Kept
    BY <1>2, <1>3 DEF Nothing, Kept
  <1>5. /\ Nothing.payload = NoPayload /\ Nothing.pending = FALSE
        /\ Nothing.sources = [r \in Roots |-> NoSource] /\ Nothing.topology = [r \in Roots |-> 0]
    BY DEF Nothing
  <1>6. NoSessions \in Population
    BY DEF NoSessions, Population, SessionOrNone
  <1> QED
    BY <1>2, <1>4, <1>5, <1>6 DEF NoSessions

LEMMA IdleIsRun ==
    /\ Idle \in Run /\ Idle.pc = "idle" /\ Idle.asking = NoRoot /\ Idle.prev = NoSessions
    /\ Idle.result = "none" /\ Idle.next = "idle" /\ Idle.lane = "none"
  <1>1. <<Nothing, NoSessions>> \in Kept \X Population
    BY NothingIsKept
  <1>2. /\ Nothing.sources \in Sources /\ Nothing.topology \in Tops /\ NoSessions \in Population
        /\ 0 \in Versions
    BY NothingIsKept, Bounds
  <1>3. Idle \in Run
    BY <1>1, <1>2 DEF Idle, Run, Pcs
  <1> QED
    BY <1>3 DEF Idle

\* Every session in its place, and the root that is asked.
LEMMA TypesOfParts ==
    ASSUME Types
    PROVE  /\ \A r \in Roots : sess[r] \in SessionOrNone /\ run.prev[r] \in SessionOrNone
           /\ \A r \in Roots : run.src[r] \in Source /\ run.top[r] \in Versions
           /\ \A r \in Roots : sess[r] # NoSession => sess[r] \in Session
           /\ run \in Run /\ kept \in Kept /\ sess \in Population
           /\ run.todo \subseteq Roots /\ run.affected \subseteq Roots
           /\ run.asking # NoRoot => run.asking \in Roots
  BY NoneIsNoRecord DEF Types, Run, Population, Sources, Tops, Versions

LEMMA WorldIsTyped ==
    ASSUME Types
    PROVE  world.src \in Sources /\ world.top \in Tops /\ world.tool \in Versions
  <1>1. edits + 1 \in 0..(MaxEdits + 1) /\ 0..(edits + 1) \subseteq 0..(MaxEdits + 1)
    BY Bounds DEF Types
  <1>2. [{"body", "surface", "paths"} -> 0..(edits + 1)] \subseteq Source
    BY <1>1 DEF Source
  <1>3. /\ world.src \in [Roots -> [{"body", "surface", "paths"} -> 0..(edits + 1)]]
        /\ world.top \in [Roots -> 0..(edits + 1)] /\ world.tool \in 0..(edits + 1)
    BY DEF Types
  <1> QED
    BY <1>1, <1>2, <1>3 DEF Sources, Tops, Versions

-----------------------------------------------------------------------------
(* Processes.                                                              *)

LEMMA ProcessSteps ==
    ASSUME NEW p \in ProcessType
    PROVE  /\ Asked(p) \in ProcessType /\ Answered(p) \in ProcessType /\ Died(p) \in ProcessType
           /\ Claimed(p) \in ProcessType /\ Quarantine(p) \in ProcessType /\ Spawned \in ProcessType
           /\ KnownDead(Died(p)) /\ KnownDead(Quarantine(p)) /\ Spawned.wire = "idle"
           /\ Claimed(p).wire = "idle"
           /\ CanAnswer(p) => p.wire = "asked" /\ ~KnownDead(p)
  BY DEF ProcessType, Asked, Answered, Died, Claimed, Quarantine, Spawned, KnownDead, CanAnswer,
         Reachable

\* A session whose process changes and nothing else.
WithProc(s, p) == [s EXCEPT !.proc = p]

LEMMA ProcOfSession ==
    ASSUME NEW s \in Session, NEW p \in ProcessType
    PROVE  /\ WithProc(s, p) \in Session /\ WithProc(s, p) # NoSession
           /\ WithProc(s, p).src = s.src /\ WithProc(s, p).topology = s.topology
           /\ WithProc(s, p).inputs = s.inputs /\ WithProc(s, p).tool = s.tool
           /\ WithProc(s, p).proc = p /\ s.proc \in ProcessType
  <1>1. WithProc(s, p) \in Session
    BY DEF WithProc, Session
  <1>2. WithProc(s, p) # NoSession
    BY <1>1, NoneIsNoRecord
  <1> QED
    BY <1>1, <1>2 DEF WithProc, Session

\* The same population but for processes and, perhaps, fewer sessions.
SameOrGone(t, s) ==
    t # NoSession =>
        /\ s # NoSession /\ t.src = s.src /\ t.topology = s.topology
        /\ t.inputs = s.inputs /\ t.tool = s.tool
Same(t, s) == SameOrGone(t, s) /\ (s # NoSession => t # NoSession)

LEMMA SameTerms == \A s, t : Same(t, s) => Terms(t) = Terms(s)
  BY DEF Same, SameOrGone, Terms

LEMMA SameHolds ==
    ASSUME NEW s, NEW t, NEW r, SameOrGone(t, s)
    PROVE  /\ Holds(s, r) => Holds(t, r)
           /\ AsBefore(s, r) => AsBefore(t, r)
           /\ t # NoSession /\ Reached(s, r) => Reached(t, r)
  BY DEF SameOrGone, Holds, AsBefore, Reached, Terms

-----------------------------------------------------------------------------
(* The environment.                                                        *)

\* What PhaseTrue depends on, besides the sessions.
phaseVars == <<published, kept, mixed, run.pc, run.src, run.top, run.todo, run.next, run.certs,
               run.lane, run.affected, run.prev, run.failed, run.before>>

LEMMA NoneLeft ==
    ASSUME NEW s, s \in Population, \A r \in Roots : s[r] = NoSession
    PROVE  s = NoSessions
  BY DEF Population, NoSessions

LEMMA ProcessesOnly ==
    ASSUME Types, PhaseTrue, sess' \in Population, UNCHANGED phaseVars,
           \A r \in Roots : Same(sess'[r], sess[r])
    PROVE  PhaseTrue'
  <1> USE DEF PhaseTrue, phaseVars
  <1>1. \A r \in Roots : SameOrGone(sess'[r], sess[r]) /\ (sess[r] # NoSession => sess'[r] # NoSession)
    BY DEF Same
  <1>2. \A r \in Roots : Holds(sess[r], r) => Holds(sess'[r], r)
    BY <1>1, SameHolds
  <1>3. \A r \in Roots : Holds(sess'[r], r) => Holds(sess[r], r)'
    BY DEF Holds, Held
  <1>4. \A r \in Roots : AsBefore(sess[r], r) => AsBefore(sess[r], r)'
    <2>1. \A r \in Roots : AsBefore(sess[r], r) => AsBefore(sess'[r], r)
      BY <1>1, SameHolds
    <2>2. run'.before = run.before
      OBVIOUS
    <2>3. \A r \in Roots : AsBefore(sess'[r], r) => AsBefore(sess[r], r)'
      BY <2>2 DEF AsBefore
    <2> QED
      BY <2>1, <2>3
  <1>5. \A r \in Roots : Reached(sess[r], r) => Reached(sess[r], r)'
    BY <1>1 DEF Reached, SameOrGone
  <1>6. KeptTrue'
    BY DEF KeptTrue, Held, SettledIsPublished, CertifiedUnlessMixed, CertifiedMatchesSources
  <1>7. RestingTrue'
    BY <1>2, <1>3 DEF RestingTrue, Resting, ProbeFor, OnRoots
  <1>8. ClearedTrue'
    <2>1. ASSUME sess = NoSessions PROVE sess' = NoSessions
      BY <1>1, <2>1, NoneLeft, NothingIsKept DEF SameOrGone
    <2> QED
      BY <2>1 DEF ClearedTrue, Cleared, OnRoots
  <1>9. ReuseTrue'
    BY <1>1, <1>5 DEF ReuseTrue, ProbeFor, Reopened, AgainstPublished, Held, OnRoots, SameOrGone
  <1>10. PlanningTrue'
    BY <1>4 DEF PlanningTrue, Planning, ProbeFor, OnRoots
  <1>11. LocatingTrue'
    <2>1. \A r \in Roots : /\ Holds(run.prev[r], r) => Holds(run.prev[r], r)'
                           /\ AsBefore(run.prev[r], r) => AsBefore(run.prev[r], r)'
      BY DEF Holds, Held, AsBefore
    <2> QED
      BY <1>1, <1>2, <1>3, <1>4, <1>5, <2>1, TypesOfParts DEF LocatingTrue, Locating, OnRoots, Held
  <1>12. ReconfigureTrue'
    BY <1>1, <1>5, TypesOfParts DEF ReconfigureTrue, SameOrGone
  <1>13. ApplyTrue'
    BY <1>1, <1>5 DEF ApplyTrue, OnRoots, Held
  <1>14. CertsTrue'
    BY DEF CertsTrue, Certified, SourceChanged
  <1> QED
    BY <1>6, <1>7, <1>8, <1>9, <1>10, <1>11, <1>12, <1>13, <1>14

LEMMA SameIsSame == ASSUME NEW s PROVE Same(s, s)
  BY DEF Same, SameOrGone

LEMMA EditKeeps ==
    ASSUME CoordinatorIInv, Edit
    PROVE  CoordinatorIInv'
  <1> USE DEF CoordinatorIInv
  <1>1. /\ edits < MaxEdits /\ edits' = edits + 1
        /\ UNCHANGED <<policy, published, kept, sess, run, cancelled, failures, mixed>>
    BY DEF Edit
  <1>2. PICK kind \in Kinds, r \in Roots :
            world' = CASE kind = "top" -> [world EXCEPT !.top[r] = @ + 1]
                       [] kind = "tool" -> [world EXCEPT !.tool = @ + 1]
                       [] OTHER -> [world EXCEPT !.src[r][kind] = @ + 1]
    BY DEF Edit
  <1> DEFINE Was == 0..(edits + 1)
             Is == 0..(edits + 2)
             Doc(S) == [{"body", "surface", "paths"} -> S]
             World(S) == [src : [Roots -> Doc(S)], top : [Roots -> S], tool : S]
  <1>3. edits \in Nat /\ Was \subseteq Is /\ \A n \in Was : n + 1 \in Is
    BY Bounds DEF Types
  <1>4. world \in World(Was)
    BY DEF Types
  <1>5. Is = 0..(edits' + 1) /\ edits' \in 0..MaxEdits
    BY <1>1, <1>3, Bounds DEF Types
  <1> HIDE DEF Was, Is
  <1>6. world \in World(Is) /\ Doc(Was) \subseteq Doc(Is)
    BY <1>3, <1>4
  <1>7. world' \in World(Is)
    <2>1. CASE kind = "top"
      BY <2>1, <1>2, <1>3, <1>4, <1>6
    <2>2. CASE kind = "tool"
      BY <2>2, <1>2, <1>3, <1>4, <1>6
    <2>3. CASE kind \notin {"top", "tool"}
      <3>1. kind \in {"body", "surface", "paths"}
        BY <2>3, CoordinatorAssumption
      <3> DEFINE d == [world.src[r] EXCEPT ![kind] = @ + 1]
                 c == [world.src EXCEPT ![r] = d]
      <3>2. d \in Doc(Is)
        BY <3>1, <1>3, <1>4
      <3>3. world' = [world EXCEPT !.src[r][kind] = @ + 1]
        BY <2>3, <1>2
      <3>4. world' = [world EXCEPT !.src = c]
        BY <3>3, Zenon
      <3> HIDE DEF d
      <3>5. c \in [Roots -> Doc(Is)]
        BY <3>2, <1>6
      <3> HIDE DEF c
      <3> QED
        BY <3>4, <3>5, <1>6
    <2> QED
      BY <2>1, <2>2, <2>3
  <1>8. Types'
    BY <1>1, <1>5, <1>7 DEF Types
  <1>9. PhaseTrue'
    BY <1>1, TypesOfParts, ProcessesOnly, SameIsSame DEF phaseVars
  <1>10. AskTrue'
    BY <1>1 DEF AskTrue, Requesting, OnRoots, Quiet, KnownDead
  <1> QED
    BY <1>8, <1>9, <1>10

\* One process changes, and no session begins to owe an answer.
LEMMA OneProcess ==
    ASSUME CoordinatorIInv, NEW r \in Registered, NEW p \in ProcessType,
           sess' = [sess EXCEPT ![r] = WithProc(sess[r], p)], UNCHANGED phaseVars, run' \in Run,
           UNCHANGED <<policy, world, cancelled, edits>>, failures' \in 0..MaxFailures,
           p.wire = "idle" \/ KnownDead(p) \/ run'.asking = r,
           \/ run' = run
           \/ run.asking = NoRoot /\ run'.asking = r /\ Requesting /\ r \in run.todo
    PROVE  CoordinatorIInv'
  <1> USE DEF CoordinatorIInv, phaseVars
  <1>1. r \in Roots /\ sess[r] \in Session
    BY TypesOfParts DEF Registered
  <1>2. WithProc(sess[r], p) \in Session
    BY <1>1, ProcOfSession
  <1>3. /\ sess' \in Population /\ sess'[r] = WithProc(sess[r], p)
        /\ \A q \in Roots : q # r => sess'[q] = sess[q]
    BY <1>1, <1>2, TypesOfParts DEF Population, SessionOrNone
  <1>4. \A q \in Roots : Same(sess'[q], sess[q])
    BY <1>1, <1>3, ProcOfSession, SameIsSame, NoneIsNoRecord DEF Same, SameOrGone
  <1>5. Types'
    BY <1>3 DEF Types
  <1>6. PhaseTrue'
    BY <1>3, <1>4, ProcessesOnly
  <1>7. AskTrue'
    <2>1. sess'[r] # NoSession /\ sess'[r].proc = p
      BY <1>1, <1>3, ProcOfSession
    <2>2. \A q \in Roots : run'.asking # q => Quiet(sess[q])'
      BY <1>1, <1>3, <2>1, Bounds DEF AskTrue, Quiet, KnownDead
    <2>3. run'.asking # NoRoot => sess'[run'.asking] # NoSession
      BY <1>1, <1>3, <2>1, TypesOfParts DEF AskTrue
    <2>4. run'.asking # NoRoot => Requesting' /\ run'.asking \in run'.todo
      BY DEF AskTrue, Requesting
    <2> QED
      BY <2>2, <2>3, <2>4 DEF AskTrue, Requesting, OnRoots, Quiet, KnownDead
  <1> QED
    BY <1>5, <1>6, <1>7

LEMMA ChildDiesKeeps ==
    ASSUME CoordinatorIInv, ChildDies
    PROVE  CoordinatorIInv'
  <1>1. PICK r \in Registered : sess' = [sess EXCEPT ![r].proc = Died(@)]
    BY DEF ChildDies
  <1>2. r \in Roots /\ sess[r] \in Session /\ sess[r].proc \in ProcessType
    BY TypesOfParts DEF CoordinatorIInv, Registered, Session
  <1>3. sess' = [sess EXCEPT ![r] = WithProc(sess[r], Died(sess[r].proc))]
    BY <1>1, <1>2 DEF WithProc
  <1>4. failures' \in 0..MaxFailures
    BY Bounds DEF ChildDies, Fail, CoordinatorIInv, Types
  <1>5. UNCHANGED phaseVars /\ UNCHANGED <<policy, world, cancelled, edits>> /\ run' = run
        /\ run' \in Run
    BY DEF ChildDies, phaseVars, envVars, CoordinatorIInv, Types
  <1>6. Died(sess[r].proc) \in ProcessType /\ KnownDead(Died(sess[r].proc))
    BY <1>2, ProcessSteps
  <1> QED
    BY <1>1, <1>3, <1>4, <1>5, <1>6, OneProcess

LEMMA ChildAnswersKeeps ==
    ASSUME CoordinatorIInv, ChildAnswers
    PROVE  CoordinatorIInv'
  <1>1. PICK r \in Registered :
            CanAnswer(sess[r].proc) /\ sess' = [sess EXCEPT ![r].proc = Answered(@)]
    BY DEF ChildAnswers
  <1>2. r \in Roots /\ sess[r] \in Session /\ sess[r].proc \in ProcessType
    BY TypesOfParts DEF CoordinatorIInv, Registered, Session
  <1>3. sess' = [sess EXCEPT ![r] = WithProc(sess[r], Answered(sess[r].proc))]
    BY <1>1, <1>2 DEF WithProc
  <1>4. run.asking = r
    BY <1>1, <1>2, ProcessSteps DEF CoordinatorIInv, AskTrue, Quiet, Registered
  <1>5. UNCHANGED phaseVars /\ UNCHANGED <<policy, world, cancelled, edits>> /\ run' = run
        /\ run' \in Run
    BY DEF ChildAnswers, phaseVars, envVars, CoordinatorIInv, Types
  <1>6. Answered(sess[r].proc) \in ProcessType /\ failures' \in 0..MaxFailures
    BY <1>2, ProcessSteps DEF ChildAnswers, CoordinatorIInv, Types
  <1> QED
    BY <1>1, <1>3, <1>4, <1>5, <1>6, OneProcess

LEMMA CancelKeeps ==
    ASSUME CoordinatorIInv, Cancel
    PROVE  CoordinatorIInv'
  <1> USE DEF CoordinatorIInv
  <1>1. Types'
    BY Bounds DEF Cancel, Fail, Types, envVars
  <1>2. PhaseTrue'
    BY TypesOfParts, ProcessesOnly, SameIsSame DEF Cancel, phaseVars
  <1>3. AskTrue'
    BY DEF Cancel, AskTrue, Requesting, OnRoots, Quiet, KnownDead
  <1> QED
    BY <1>1, <1>2, <1>3

-----------------------------------------------------------------------------
(* Where steps arrive.                                                     *)

\* Types of everything but the coordinator's own state.
FrameTypes ==
    /\ policy \in Policies /\ mixed \in BOOLEAN /\ cancelled \in BOOLEAN
    /\ edits \in 0..MaxEdits /\ failures \in 0..MaxFailures
    /\ world \in [src : [Roots -> [{"body", "surface", "paths"} -> 0..(edits + 1)]],
                  top : [Roots -> 0..(edits + 1)], tool : 0..(edits + 1)]
    /\ published \in PayloadOrNone

LEMMA TypesAreFrame == Types <=> FrameTypes /\ kept \in Kept /\ sess \in Population /\ run \in Run
  BY DEF Types, FrameTypes

LEMMA FrameKeeps ==
    ASSUME Types, UNCHANGED <<envVars, published, mixed>>, cancelled' \in BOOLEAN,
           failures' = failures \/ Fail
    PROVE  FrameTypes'
  BY Bounds DEF Types, FrameTypes, envVars, Fail

LEMMA NotAsking ==
    ASSUME AskTrue, Types
    PROVE  /\ ~Requesting => run.asking = NoRoot
           /\ run.asking = NoRoot => \A r \in Roots : Quiet(sess[r])
           /\ run.pc # "certify" \/ ~OnRoots => run.prev = NoSessions
  BY Bounds DEF AskTrue

\* Nobody is asked and nothing is set aside.
Calm == run.asking = NoRoot /\ run.prev = NoSessions /\ \A r \in Roots : Quiet(sess[r])

LEMMA CalmAsks == ASSUME Calm PROVE AskTrue
  BY NothingIsKept DEF Calm, AskTrue, Quiet

LEMMA CalmStays ==
    ASSUME Types, AskTrue, ~Requesting \/ run.asking = NoRoot, run.pc # "certify" \/ ~OnRoots
    PROVE  Calm
  BY NotAsking DEF Calm

LEMMA ArriveAtRest ==
    ASSUME Types', KeptTrue', Calm', run'.pc \in {"idle", "authorize", "refresh", "publish"},
           run'.pc = "authorize" => published' # NoPayload /\ run'.lane = "none",
           \A r \in Roots : Holds(sess[r], r)'
    PROVE  CoordinatorIInv'
  <1>1. AskTrue'
    BY CalmAsks DEF Calm, AskTrue, Quiet, Requesting, OnRoots, KnownDead, NoSessions
  <1>2. RestingTrue' /\ ClearedTrue' /\ ReuseTrue' /\ PlanningTrue' /\ LocatingTrue'
    BY DEF RestingTrue, ClearedTrue, ReuseTrue, PlanningTrue, LocatingTrue, Cleared, Reopened,
           AgainstPublished, Planning, Locating, ProbeFor
  <1>3. ReconfigureTrue' /\ ApplyTrue' /\ CertsTrue'
    BY DEF ReconfigureTrue, ApplyTrue, CertsTrue
  <1> QED
    BY <1>1, <1>2, <1>3 DEF CoordinatorIInv, PhaseTrue

LEMMA ArriveCleared ==
    ASSUME Types', KeptTrue', Calm', kept' = Nothing, sess' = NoSessions,
           \/ run'.pc = "recertify" /\ run'.lane = "none"
           \/ run'.pc = "reconstruct"
           \/ run'.pc = "open" /\ ~OnRoots' /\ run'.todo = Roots
              /\ run'.next \in {"certify", "recertified"}
              /\ (run'.next = "certify" => run'.lane = "full"),
           published' # NoPayload \/ (run'.pc = "open" /\ run'.next = "certify"),
           run'.pc = "reconstruct" \/ (run'.pc = "open" /\ run'.next = "recertified")
               => published'.docs = run'.src /\ published'.inventory = run'.top
    PROVE  CoordinatorIInv'
  <1>1. AskTrue'
    BY CalmAsks DEF Calm, AskTrue, Quiet, Requesting, OnRoots, KnownDead, NoSessions
  <1>2. RestingTrue' /\ ClearedTrue' /\ PlanningTrue' /\ LocatingTrue'
    BY DEF RestingTrue, ClearedTrue, PlanningTrue, LocatingTrue, Resting, Cleared, Planning,
           Locating, ProbeFor
  <1>3. ReuseTrue'
    BY DEF ReuseTrue, Reopened, AgainstPublished, ProbeFor
  <1>4. ReconfigureTrue' /\ ApplyTrue' /\ CertsTrue'
    BY DEF ReconfigureTrue, ApplyTrue, CertsTrue
  <1> QED
    BY <1>1, <1>2, <1>3, <1>4 DEF CoordinatorIInv, PhaseTrue

LEMMA ArriveAtProbe ==
    ASSUME Types', KeptTrue', AskTrue', run'.pc \in {"probe", "plan"},
           RestingTrue', ReuseTrue', PlanningTrue'
    PROVE  CoordinatorIInv'
  <1>1. ClearedTrue' /\ LocatingTrue' /\ ReconfigureTrue' /\ ApplyTrue' /\ CertsTrue'
    BY DEF ClearedTrue, Cleared, LocatingTrue, Locating, ReconfigureTrue, ApplyTrue, CertsTrue
  <1> QED
    BY <1>1 DEF CoordinatorIInv, PhaseTrue

\* What a reset leaves.
LEMMA AfterReset ==
    ASSUME KeptTrue, Reset, UNCHANGED <<published, mixed>>
    PROVE  /\ KeptTrue' /\ kept' = Nothing /\ sess' = NoSessions
           /\ kept' \in Kept /\ sess' \in Population
           /\ \A r \in Roots : sess'[r] = NoSession /\ Quiet(sess'[r]) /\ Quiet(sess[r])'
                               /\ Holds(sess[r], r)'
  <1>1. /\ kept' = Nothing /\ sess' = NoSessions /\ kept' \in Kept /\ sess' \in Population
        /\ kept'.payload = NoPayload /\ \A r \in Roots : sess'[r] = NoSession
    BY NothingIsKept DEF Reset
  <1>2. KeptTrue'
    BY <1>1 DEF KeptTrue, Held, SettledIsPublished, CertifiedUnlessMixed, CertifiedMatchesSources
  <1> QED
    BY <1>1, <1>2 DEF Quiet, Holds

LEMMA KeptStays ==
    ASSUME KeptTrue, UNCHANGED <<kept, published>>, mixed => mixed'
    PROVE  KeptTrue'
  BY DEF KeptTrue, Held, SettledIsPublished, CertifiedUnlessMixed, CertifiedMatchesSources

\* Everything is reset while an attempt is at rest.
LEMMA ResetArrives ==
    ASSUME CoordinatorIInv, Reset, UNCHANGED <<envVars, published, mixed>>, cancelled' \in BOOLEAN,
           failures' = failures \/ Fail, run' \in Run, run'.pc \in {"idle", "refresh", "publish"},
           run'.asking = NoRoot, run'.prev = NoSessions
    PROVE  CoordinatorIInv'
  <1> USE DEF CoordinatorIInv, PhaseTrue
  <1>1. FrameTypes'
    BY FrameKeeps DEF Types
  <1>2. /\ KeptTrue' /\ kept' \in Kept /\ sess' \in Population
        /\ \A r \in Roots : Quiet(sess[r])' /\ Holds(sess[r], r)'
    BY AfterReset
  <1>3. Types' /\ Calm'
    BY <1>1, <1>2 DEF Types, FrameTypes, Calm, NoSessions
  <1> QED
    BY <1>2, <1>3, ArriveAtRest

LEMMA DiscardArrives ==
    ASSUME CoordinatorIInv, Discard, UNCHANGED <<envVars, published, cancelled, mixed>>,
           failures' = failures \/ Fail
    PROVE  CoordinatorIInv'
  <1>1. /\ run' \in Run /\ run'.pc = "publish" /\ run'.asking = NoRoot /\ run'.prev = NoSessions
    BY ZenonT(60), NothingIsKept DEF Discard, CoordinatorIInv, Types, Run, Pcs
  <1>2. cancelled' \in BOOLEAN
    BY DEF CoordinatorIInv, Types
  <1> QED
    BY <1>1, <1>2, ResetArrives DEF Discard

LEMMA PreserveArrives ==
    ASSUME CoordinatorIInv, NEW s \in Population, Preserve(s),
           UNCHANGED <<envVars, published, cancelled, mixed>>, failures' = failures \/ Fail,
           \A r \in Roots : Quiet(s[r]) /\ Holds(s[r], r)
    PROVE  CoordinatorIInv'
  <1> USE DEF CoordinatorIInv, PhaseTrue
  <1>1. FrameTypes'
    BY FrameKeeps DEF Types
  <1>2. /\ run' \in Run /\ run'.pc = "publish" /\ run'.asking = NoRoot /\ run'.prev = NoSessions
    BY ZenonT(60), NothingIsKept DEF Preserve, Types, Run, Pcs
  <1>3. /\ KeptTrue' /\ kept' \in Kept /\ sess' \in Population
        /\ \A r \in Roots : Quiet(sess[r])' /\ Holds(sess[r], r)'
    BY KeptStays DEF Preserve, Types, Quiet, KnownDead, Holds, Held
  <1>4. Types' /\ Calm'
    BY <1>1, <1>2, <1>3 DEF Types, FrameTypes, Calm, NoSessions
  <1> QED
    BY <1>2, <1>3, <1>4, ArriveAtRest

LEMMA RestartKeeps ==
    ASSUME CoordinatorIInv, Restart
    PROVE  CoordinatorIInv'
  <1>1. /\ run' \in Run /\ run'.pc = "idle" /\ run'.asking = NoRoot /\ run'.prev = NoSessions
    BY IdleIsRun DEF Restart
  <1> QED
    BY <1>1, ResetArrives DEF Restart

-----------------------------------------------------------------------------
(* Exact reuse.                                                            *)

frameVars == <<envVars, published, cancelled, failures, mixed>>

LEMMA FrameStays ==
    ASSUME Types, UNCHANGED frameVars
    PROVE  FrameTypes'
  BY FrameKeeps DEF frameVars, Types

\* An attempt turns to another phase at rest and keeps its sessions.
LEMMA RestStays ==
    ASSUME CoordinatorIInv, Resting, UNCHANGED <<frameVars, kept, sess>>, run' \in Run,
           run'.pc \in {"idle", "authorize", "refresh", "publish"},
           run'.pc = "authorize" => published # NoPayload /\ run'.lane = "none",
           run'.asking = NoRoot, run'.prev = NoSessions, ~Requesting \/ run.asking = NoRoot
    PROVE  CoordinatorIInv'
  <1> USE DEF CoordinatorIInv, PhaseTrue
  <1>1. Types' /\ KeptTrue'
    BY FrameStays, KeptStays DEF frameVars, Types, FrameTypes
  <1>2. \A r \in Roots : Quiet(sess[r]) /\ Holds(sess[r], r)
    BY NotAsking DEF RestingTrue
  <1>3. Calm'
    BY <1>2 DEF Calm, Quiet, KnownDead, NoSessions
  <1>4. \A r \in Roots : Holds(sess[r], r)'
    BY <1>2 DEF Holds, Held, frameVars
  <1> QED
    BY <1>1, <1>3, <1>4, ArriveAtRest DEF frameVars

\* Everything is reset and the attempt goes on to refresh, or to recertify.
LEMMA ResetTo ==
    ASSUME CoordinatorIInv, Reset, UNCHANGED frameVars, run' \in Run,
           \/ run'.pc = "refresh"
           \/ run'.pc = "recertify" /\ published # NoPayload /\ run'.lane = "none",
           run'.asking = NoRoot, run'.prev = NoSessions
    PROVE  CoordinatorIInv'
  <1> USE DEF CoordinatorIInv, PhaseTrue
  <1>1. /\ KeptTrue' /\ kept' = Nothing /\ sess' = NoSessions
        /\ kept' \in Kept /\ sess' \in Population
        /\ \A r \in Roots : Quiet(sess[r])' /\ Holds(sess[r], r)'
    BY AfterReset DEF frameVars
  <1>2. Types' /\ Calm'
    BY <1>1, FrameStays DEF Types, FrameTypes, Calm, NoSessions
  <1>3. published' = published
    BY DEF frameVars
  <1>4. CASE run'.pc = "refresh"
    BY <1>1, <1>2, <1>4, ArriveAtRest
  <1>5. CASE run'.pc = "recertify" /\ published # NoPayload /\ run'.lane = "none"
    BY <1>1, <1>2, <1>3, <1>5, ArriveCleared
  <1> QED
    BY <1>4, <1>5

LEMMA RunMoves ==
    ASSUME Types
    PROVE  /\ Refuse \in Run /\ Refuse.pc = "refresh" /\ Refuse.asking = run.asking
           /\ Refuse.prev = run.prev
           /\ Grant \in Run /\ Grant.pc = "publish" /\ Grant.asking = run.asking
           /\ Grant.prev = run.prev
  <1>1. run \in Run
    BY DEF Types
  <1>2. Refuse \in Run
    BY <1>1 DEF Run, Pcs, Refuse
  <1>3. Grant \in Run
    <2>1. "publish" \in Pcs
      BY DEF Pcs
    <2> QED
      BY <1>1, <2>1 DEF Run, Grant
  <1>4. Refuse.pc = "refresh" /\ Refuse.asking = run.asking /\ Refuse.prev = run.prev
    BY <1>1 DEF Run, Refuse
  <1>5. Grant.pc = "publish" /\ Grant.asking = run.asking /\ Grant.prev = run.prev
    BY <1>1 DEF Run, Grant
  <1> QED
    BY <1>2, <1>3, <1>4, <1>5

LEMMA ProbeMoves ==
    ASSUME Types, NEW roots \in SUBSET Roots, NEW next \in ProbeGoals
    PROVE  /\ Probe(roots, next) \in Run /\ Probe(roots, next).pc = "probe"
           /\ Probe(roots, next).todo = roots /\ Probe(roots, next).next = next
           /\ Probe(roots, next).failed = "no" /\ Probe(roots, next).asking = run.asking
           /\ Probe(roots, next).prev = run.prev /\ Probe(roots, next).src = run.src
           /\ Probe(roots, next).top = run.top /\ Probe(roots, next).before = run.before
           /\ Probe(roots, next).lane = run.lane
  <1>1. run \in Run
    BY DEF Types
  <1>2. Probe(roots, next) \in Run
    BY ZenonT(60), <1>1 DEF Run, Pcs, Probe
  <1> QED
    BY <1>1, <1>2 DEF Run, Probe

LEMMA Recertifying ==
    ASSUME Types
    PROVE  LET to == [run EXCEPT !.pc = "recertify", !.tool = world.tool]
           IN  /\ to \in Run /\ to.pc = "recertify" /\ to.asking = run.asking
               /\ to.prev = run.prev /\ to.lane = run.lane
  BY ZenonT(60), WorldIsTyped DEF Types, Run, Pcs

LEMMA BeginKeeps ==
    ASSUME CoordinatorIInv, Begin
    PROVE  CoordinatorIInv'
  <1> USE DEF CoordinatorIInv, PhaseTrue
  <1>1. PICK pc \in {"authorize", "refresh"} :
            /\ pc = "authorize" => published # NoPayload
            /\ run' = [Idle EXCEPT !.pc = pc, !.src = world.src, !.top = world.top]
    BY DEF Begin
  <1>2. /\ run.pc = "idle" /\ cancelled' = FALSE
        /\ UNCHANGED <<envVars, published, kept, sess, failures, mixed>>
    BY DEF Begin
  <1>3. /\ run' \in Run /\ run'.pc = pc /\ run'.asking = NoRoot /\ run'.prev = NoSessions
        /\ run'.lane = "none"
    BY <1>1, IdleIsRun, WorldIsTyped DEF Run, Pcs
  <1>4. Types' /\ KeptTrue'
    BY <1>2, <1>3, FrameKeeps, KeptStays DEF Types, FrameTypes
  <1>5. \A r \in Roots : Quiet(sess[r]) /\ Holds(sess[r], r)
    BY <1>2, NotAsking DEF RestingTrue, Resting, Requesting
  <1>6. Calm' /\ \A r \in Roots : Holds(sess[r], r)'
    BY <1>2, <1>3, <1>5 DEF Calm, Quiet, KnownDead, NoSessions, Holds, Held
  <1> QED
    BY <1>1, <1>2, <1>3, <1>4, <1>6, ArriveAtRest

LEMMA AuthorizeKeeps ==
    ASSUME CoordinatorIInv, Authorize
    PROVE  CoordinatorIInv'
  <1> USE DEF CoordinatorIInv, PhaseTrue
  <1>1. /\ run.pc = "authorize" /\ UNCHANGED frameVars /\ published # NoPayload
        /\ run.asking = NoRoot /\ run.prev = NoSessions /\ Resting /\ ~Requesting
        /\ run.lane = "none"
        /\ \A r \in Roots : Quiet(sess[r])
    BY NotAsking DEF Authorize, frameVars, ReuseTrue, Requesting, Resting
  <1>2. CASE run' = Refuse /\ UNCHANGED <<kept, sess>>
    BY <1>1, <1>2, RunMoves, RestStays
  <1>3. CASE Reset /\ run' = Refuse
    BY <1>1, <1>3, RunMoves, ResetTo
  <1>4. CASE Reset /\ run' = [run EXCEPT !.pc = "recertify", !.tool = world.tool]
    BY <1>1, <1>4, Recertifying, ResetTo
  <1>5. CASE StateMatches /\ run' = Probe(Roots, "reuse") /\ UNCHANGED <<kept, sess>>
    <2>1. /\ run' \in Run /\ run'.pc = "probe" /\ run'.next = "reuse" /\ run'.failed = "no"
          /\ run'.asking = NoRoot /\ run'.prev = NoSessions /\ run'.src = run.src
          /\ run'.lane = "none"
      BY <1>1, <1>5, ProbeMoves DEF ProbeGoals
    <2>2. Types' /\ KeptTrue'
      BY <1>1, <1>5, <2>1, FrameStays, KeptStays DEF Types, FrameTypes, frameVars
    <2>3. AskTrue'
      <3>1. Calm'
        BY <1>1, <1>5, <2>1 DEF Calm, Quiet, KnownDead, NoSessions
      <3> QED
        BY <2>1, <3>1, CalmAsks DEF Calm, AskTrue, Quiet, Requesting, OnRoots, KnownDead, NoSessions
    <2>4. RestingTrue'
      BY <1>1, <1>5 DEF RestingTrue, Holds, Held, frameVars
    <2>5. /\ Held /\ kept.payload = published /\ published.docs = run.src
          /\ \A r \in Roots : sess[r] # NoSession
      BY <1>5 DEF StateMatches, PublishedMatches, Complete, Registered
    <2>6. ReuseTrue'
      BY <1>1, <1>5, <2>1, <2>5 DEF ReuseTrue, ProbeFor, Reopened, AgainstPublished, Held, frameVars
    <2>7. PlanningTrue'
      BY <2>1 DEF PlanningTrue, Planning, ProbeFor
    <2> QED
      BY <2>1, <2>2, <2>3, <2>4, <2>6, <2>7, ArriveAtProbe
  <1> QED
    BY <1>2, <1>3, <1>4, <1>5 DEF Authorize

LEMMA ReuseKeeps ==
    ASSUME CoordinatorIInv, Reuse
    PROVE  CoordinatorIInv'
  <1> USE DEF CoordinatorIInv, PhaseTrue
  <1>1. /\ ProbeFor("reuse") /\ run.pc = "probe" /\ run.asking = NoRoot /\ UNCHANGED frameVars
        /\ run.prev = NoSessions /\ Resting /\ \A r \in Roots : Quiet(sess[r])
    BY NotAsking DEF Reuse, ProbeEnds, ProbeFor, frameVars, Resting
  <1>2. Held /\ kept.payload = published /\ run.lane = "none"
    BY <1>1 DEF ReuseTrue
  <1>3. CASE run' = Refuse /\ UNCHANGED <<kept, sess>>
    BY <1>1, <1>3, RunMoves, RestStays
  <1>4. CASE Reset /\ run' = [run EXCEPT !.pc = "recertify", !.tool = world.tool]
    BY <1>1, <1>2, <1>4, Recertifying, ResetTo DEF Held
  <1>5. CASE /\ kept' = [kept EXCEPT !.pending = FALSE, !.snapshot = TRUE]
             /\ run' = Grant /\ sess' = sess
    <2>1. /\ run' \in Run /\ run'.pc = "publish" /\ run'.asking = NoRoot
          /\ run'.prev = NoSessions
      BY <1>1, <1>5, RunMoves
    <2>2. /\ kept' \in Kept /\ kept'.payload = kept.payload /\ kept'.sources = kept.sources
          /\ kept'.topology = kept.topology
      BY <1>5 DEF Types, Kept
    <2>3. KeptTrue'
      BY <1>1, <1>2, <2>2
         DEF KeptTrue, Held, SettledIsPublished, CertifiedUnlessMixed, CertifiedMatchesSources,
             frameVars
    <2>4. Types' /\ Calm'
      BY <1>1, <1>5, <2>1, <2>2, FrameStays
         DEF Types, FrameTypes, Calm, Quiet, KnownDead, NoSessions
    <2>5. \A r \in Roots : Holds(sess[r], r)'
      BY <1>1, <1>5, <2>2 DEF RestingTrue, Holds, Held, frameVars
    <2> QED
      BY <2>1, <2>3, <2>4, <2>5, ArriveAtRest
  <1> QED
    BY <1>3, <1>4, <1>5 DEF Reuse

LEMMA RecertifyKeeps ==
    ASSUME CoordinatorIInv, Recertify
    PROVE  CoordinatorIInv'
  <1> USE DEF CoordinatorIInv, PhaseTrue
  <1>1. /\ run.pc = "recertify" /\ UNCHANGED <<frameVars, kept, sess>> /\ published # NoPayload
        /\ kept = Nothing /\ sess = NoSessions /\ run.asking = NoRoot /\ run.prev = NoSessions
        /\ \A r \in Roots : Quiet(sess[r])
        /\ run.lane = "none"
    BY NotAsking DEF Recertify, frameVars, ReuseTrue, ClearedTrue, Cleared, Requesting
  <1>2. CASE run' = Refuse
    <2>1. Reset
      BY <1>1 DEF Reset
    <2> QED
      BY <1>1, <1>2, <2>1, RunMoves, ResetTo
  <1>3. CASE /\ PublishedMatches /\ published.inventory = run.top
             /\ \/ run' = [run EXCEPT !.pc = "reconstruct"]
                \/ run' = [run EXCEPT !.pc = "open", !.todo = Roots, !.next = "recertified"]
    <2>1. /\ run' \in Run /\ run'.asking = NoRoot /\ run'.prev = NoSessions
          /\ run'.src = run.src /\ run'.top = run.top /\ run'.lane = run.lane
          /\ \/ run'.pc = "reconstruct"
             \/ run'.pc = "open" /\ run'.todo = Roots /\ run'.next = "recertified"
      <3>1. run \in Run /\ Roots \in SUBSET Roots
        BY DEF Types
      <3>2. CASE run' = [run EXCEPT !.pc = "reconstruct"]
        BY <3>1, <3>2, <1>1 DEF Run, Pcs
      <3>3. CASE run' = [run EXCEPT !.pc = "open", !.todo = Roots, !.next = "recertified"]
        BY <3>1, <3>3, <1>1 DEF Run, Pcs, ProbeGoals
      <3> QED
        BY <1>3, <3>2, <3>3
    <2>2. Types' /\ KeptTrue' /\ Calm'
      BY <1>1, <2>1, FrameStays, KeptStays
         DEF Types, FrameTypes, frameVars, Calm, Quiet, KnownDead, NoSessions
    <2>3. published' = published /\ kept' = Nothing /\ sess' = NoSessions
      BY <1>1 DEF frameVars, Nothing, NoSessions
    <2> QED
      BY <1>1, <1>3, <2>1, <2>2, <2>3, ArriveCleared DEF PublishedMatches, OnRoots
  <1> QED
    BY <1>2, <1>3 DEF Recertify

\* A payload that is recertified becomes the retained one.
LEMMA RecertifiedKept ==
    ASSUME KeptTrue, Types, Recertified, UNCHANGED <<published, mixed>>, published # NoPayload,
           published.docs = run.src
    PROVE  /\ kept' \in Kept /\ KeptTrue' /\ kept'.payload = published
           /\ kept'.sources = run.src /\ kept'.topology = run.top
  <1>1. /\ run.src \in Sources /\ run.top \in Tops /\ published \in PayloadOrNone
    BY DEF Types, Run
  <1>2. /\ kept' \in Kept /\ kept'.payload = published /\ kept'.pending = FALSE
        /\ kept'.sources = run.src /\ kept'.topology = run.top
    BY <1>1 DEF Recertified, Kept
  <1>3. KeptTrue'
    BY <1>2 DEF KeptTrue, Held, SettledIsPublished, CertifiedUnlessMixed, CertifiedMatchesSources
  <1> QED
    BY <1>2, <1>3

LEMMA ReconstructKeeps ==
    ASSUME CoordinatorIInv, Reconstruct
    PROVE  CoordinatorIInv'
  <1> USE DEF CoordinatorIInv, PhaseTrue
  <1>1. /\ run.pc = "reconstruct" /\ UNCHANGED frameVars /\ published # NoPayload
        /\ published.docs = run.src
        /\ sess = NoSessions /\ run.asking = NoRoot /\ run.prev = NoSessions
        /\ \A r \in Roots : Quiet(sess[r])
    BY NotAsking DEF Reconstruct, frameVars, ReuseTrue, AgainstPublished, ClearedTrue, Cleared, Requesting
  <1>2. CASE Reset /\ run' = Refuse
    BY <1>1, <1>2, RunMoves, ResetTo
  <1>3. CASE Recertified /\ sess' = sess /\ run' = Grant
    <2>1. /\ run' \in Run /\ run'.pc = "publish" /\ run'.asking = NoRoot /\ run'.prev = NoSessions
      BY <1>1, <1>3, RunMoves
    <2>2. kept' \in Kept /\ KeptTrue'
      BY <1>1, <1>3, RecertifiedKept DEF frameVars
    <2>3. Types' /\ Calm'
      BY <1>1, <1>3, <2>1, <2>2, FrameStays
         DEF Types, FrameTypes, Calm, Quiet, KnownDead, NoSessions
    <2>4. \A r \in Roots : Holds(sess[r], r)'
      BY <1>1, <1>3, NothingIsKept DEF Holds
    <2> QED
      BY <2>1, <2>2, <2>3, <2>4, ArriveAtRest
  <1> QED
    BY <1>2, <1>3 DEF Reconstruct

LEMMA CheckOpenedKeeps ==
    ASSUME CoordinatorIInv, CheckOpened
    PROVE  CoordinatorIInv'
  <1> USE DEF CoordinatorIInv, PhaseTrue
  <1>1. /\ run.pc = "recertified" /\ UNCHANGED frameVars /\ published # NoPayload
        /\ published.docs = run.src /\ published.inventory = run.top
        /\ run.asking = NoRoot /\ run.prev = NoSessions
        /\ \A r \in Roots : Quiet(sess[r]) /\ sess[r] # NoSession /\ Reached(sess[r], r)
    BY NotAsking DEF CheckOpened, frameVars, ReuseTrue, Reopened, AgainstPublished, Requesting
  <1>2. CASE Reset /\ run' = Refuse
    BY <1>1, <1>2, RunMoves, ResetTo
  <1>3. CASE /\ Inputs = published.inputs
             /\ run' = Probe(Roots, "recertified") /\ UNCHANGED <<kept, sess>>
    <2>1. /\ run' \in Run /\ run'.pc = "probe" /\ run'.next = "recertified" /\ run'.failed = "no"
          /\ run'.asking = NoRoot /\ run'.prev = NoSessions
          /\ run'.src = run.src /\ run'.top = run.top
      BY <1>1, <1>3, ProbeMoves DEF ProbeGoals
    <2>2. Types' /\ KeptTrue'
      BY <1>1, <1>3, <2>1, FrameStays, KeptStays DEF Types, FrameTypes, frameVars
    <2>3. AskTrue'
      <3>1. Calm'
        BY <1>1, <1>3, <2>1 DEF Calm, Quiet, KnownDead, NoSessions
      <3> QED
        BY <2>1, <3>1, CalmAsks DEF Calm, AskTrue, Quiet, Requesting, OnRoots, KnownDead, NoSessions
    <2>4. RestingTrue' /\ PlanningTrue'
      BY <2>1 DEF RestingTrue, Resting, PlanningTrue, Planning, ProbeFor
    <2>5. \A r \in Roots : sess[r].inputs = published.inputs[r]
      BY <1>3 DEF Inputs
    <2>6. ReuseTrue'
      BY <1>1, <1>3, <2>1, <2>5 DEF ReuseTrue, ProbeFor, Reopened, AgainstPublished, Reached, frameVars
    <2> QED
      BY <2>1, <2>2, <2>3, <2>4, <2>6, ArriveAtProbe
  <1> QED
    BY <1>2, <1>3 DEF CheckOpened

LEMMA AdmitOpenedKeeps ==
    ASSUME CoordinatorIInv, AdmitOpened
    PROVE  CoordinatorIInv'
  <1> USE DEF CoordinatorIInv, PhaseTrue
  <1>1. /\ ProbeFor("recertified") /\ run.pc = "probe" /\ UNCHANGED frameVars
        /\ published # NoPayload /\ published.docs = run.src /\ run.asking = NoRoot
        /\ run.prev = NoSessions /\ \A r \in Roots : Quiet(sess[r])
        /\ \A r \in Roots : sess[r] # NoSession =>
             Reached(sess[r], r) /\ sess[r].inputs = published.inputs[r]
    BY NotAsking DEF AdmitOpened, ProbeEnds, ProbeFor, frameVars, ReuseTrue, Reopened, AgainstPublished
  <1>2. CASE Reset /\ run' = Refuse
    BY <1>1, <1>2, RunMoves, ResetTo
  <1>3. CASE Recertified /\ sess' = sess /\ run' = Grant
    <2>1. /\ run' \in Run /\ run'.pc = "publish" /\ run'.asking = NoRoot /\ run'.prev = NoSessions
      BY <1>1, <1>3, RunMoves
    <2>2. /\ kept' \in Kept /\ KeptTrue' /\ kept'.payload = published
          /\ kept'.sources = run.src /\ kept'.topology = run.top
      BY <1>1, <1>3, RecertifiedKept DEF frameVars
    <2>3. Types' /\ Calm'
      BY <1>1, <1>3, <2>1, <2>2, FrameStays
         DEF Types, FrameTypes, Calm, Quiet, KnownDead, NoSessions
    <2>4. \A r \in Roots : Holds(sess[r], r)'
      BY <1>1, <1>3, <2>2 DEF Holds, Reached
    <2> QED
      BY <2>1, <2>2, <2>3, <2>4, ArriveAtRest
  <1> QED
    BY <1>2, <1>3 DEF AdmitOpened

-----------------------------------------------------------------------------
(* Refresh: the preflight.                                                 *)

\* A refresh begins to plan, with a preflight or without.
LEMMA PlanningBegins ==
    ASSUME CoordinatorIInv, Resting, UNCHANGED <<frameVars, kept>>, run' \in Run, Calm',
           run'.pc = "plan" \/ ProbeFor("plan")',
           sess' \in Population, \A r \in Roots : SameOrGone(sess'[r], sess[r]),
           run'.before[1] = kept, \A r \in Roots : AsBefore(sess[r], r)'
    PROVE  CoordinatorIInv'
  <1> USE DEF CoordinatorIInv, PhaseTrue
  <1>1. Types' /\ KeptTrue'
    BY FrameStays, KeptStays DEF frameVars, Types, FrameTypes
  <1>2. AskTrue'
    BY CalmAsks DEF Calm, AskTrue, Quiet, Requesting, OnRoots, KnownDead, NoSessions
  <1>3. \A r \in Roots : Holds(sess'[r], r)
    BY SameHolds DEF RestingTrue
  <1>4. RestingTrue'
    BY <1>3 DEF RestingTrue, Holds, Held, frameVars
  <1>5. ReuseTrue'
    BY DEF ReuseTrue, Reopened, AgainstPublished, ProbeFor
  <1>6. PlanningTrue'
    BY DEF PlanningTrue
  <1> QED
    BY <1>1, <1>2, <1>4, <1>5, <1>6, ArriveAtProbe DEF ProbeFor

LEMMA RefreshKeeps ==
    ASSUME CoordinatorIInv, Refresh
    PROVE  CoordinatorIInv'
  <1> USE DEF CoordinatorIInv, PhaseTrue
  <1> DEFINE alive == [r \in Roots |-> IF sess[r] # NoSession /\ KnownDead(sess[r].proc)
                                       THEN NoSession ELSE sess[r]]
             live == {r \in Roots : alive[r] # NoSession}
             preflight == {r \in live : kept.sources[r] = run.src[r]}
             started == [run EXCEPT !.tool = world.tool, !.before = <<kept, sess>>]
  <1>1. /\ run.pc = "refresh" /\ UNCHANGED <<frameVars, kept>> /\ run.asking = NoRoot
        /\ run.prev = NoSessions /\ Resting /\ ~Requesting /\ \A r \in Roots : Quiet(sess[r])
    BY NotAsking DEF Refresh, frameVars, Requesting, Resting
  <1>2. /\ started \in Run /\ started.before[1] = kept /\ started.before[2] = sess
        /\ started.asking = NoRoot /\ started.prev = NoSessions
    <2>1. <<kept, sess>> \in Kept \X Population /\ world.tool \in Versions /\ run \in Run
      BY WorldIsTyped DEF Types
    <2> QED
      BY <2>1, <1>1 DEF Run
  <1>3. alive \in Population
    BY TypesOfParts DEF Population, SessionOrNone
  <1>4. \A r \in Roots : /\ SameOrGone(alive[r], sess[r]) /\ Quiet(alive[r])
                         /\ alive[r] = NoSession \/ alive[r] = sess[r]
    BY <1>1 DEF SameOrGone, Quiet
  <1>5. preflight \in SUBSET Roots
    OBVIOUS
  <1>6. \/ sess' = sess /\ run' = [started EXCEPT !.pc = "publish", !.result = "preserved"]
        \/ /\ sess' = alive
           /\ run' = [started EXCEPT !.pc = "probe", !.todo = preflight,
                                     !.next = "plan", !.failed = "no"]
        \/ sess' = alive /\ run' = [started EXCEPT !.pc = "plan"]
    BY DEF Refresh
  <1> HIDE DEF alive, preflight, started, live
  <1>7. CASE sess' = sess /\ run' = [started EXCEPT !.pc = "publish", !.result = "preserved"]
    <2>1. run' \in Run /\ run'.pc = "publish" /\ run'.asking = NoRoot /\ run'.prev = NoSessions
      BY ZenonT(60), <1>2, <1>7 DEF Run, Pcs
    <2> QED
      BY <1>1, <1>7, <2>1, RestStays
  <1>8. ASSUME sess' = alive, run' \in Run, run'.before = started.before,
               run'.asking = NoRoot, run'.prev = NoSessions, run'.pc = "plan" \/ ProbeFor("plan")'
        PROVE  CoordinatorIInv'
    <2>1. Calm'
      BY <1>4, <1>8 DEF Calm, Quiet, KnownDead, NoSessions
    <2>2. \A r \in Roots : AsBefore(sess[r], r)'
      BY <1>2, <1>4, <1>8 DEF AsBefore, Terms, NoSession
    <2> QED
      BY <1>1, <1>2, <1>3, <1>4, <1>8, <2>1, <2>2, PlanningBegins
  <1>9. CASE /\ sess' = alive
             /\ run' = [started EXCEPT !.pc = "probe", !.todo = preflight,
                                       !.next = "plan", !.failed = "no"]
    <2>1. /\ run' \in Run /\ run'.pc = "probe" /\ run'.next = "plan"
          /\ run'.before = started.before /\ run'.asking = NoRoot /\ run'.prev = NoSessions
      BY ZenonT(60), <1>2, <1>5, <1>9 DEF Run, Pcs, ProbeGoals
    <2> QED
      BY <1>8, <1>9, <2>1 DEF ProbeFor
  <1>10. CASE sess' = alive /\ run' = [started EXCEPT !.pc = "plan"]
    <2>1. /\ run' \in Run /\ run'.pc = "plan"
          /\ run'.before = started.before /\ run'.asking = NoRoot /\ run'.prev = NoSessions
      BY <1>2, <1>10 DEF Run, Pcs
    <2> QED
      BY <1>8, <1>10, <2>1
  <1> QED
    BY <1>6, <1>7, <1>9, <1>10

LEMMA EndPreflightKeeps ==
    ASSUME CoordinatorIInv, EndPreflight
    PROVE  CoordinatorIInv'
  <1> USE DEF CoordinatorIInv, PhaseTrue
  <1>1. /\ ProbeFor("plan") /\ run.pc = "probe" /\ UNCHANGED frameVars /\ run.asking = NoRoot
        /\ run.prev = NoSessions /\ Resting /\ Planning
        /\ \A r \in Roots : Quiet(sess[r]) /\ Holds(sess[r], r)
    BY NotAsking
       DEF EndPreflight, ProbeEnds, ProbeFor, frameVars, Resting, RestingTrue, Planning
  <1>2. CASE Preserve(sess)
    BY <1>1, <1>2, PreserveArrives DEF Types, frameVars
  <1>3. CASE run' = [run EXCEPT !.pc = "plan"] /\ UNCHANGED <<kept, sess>>
    <2>1. /\ run' \in Run /\ run'.pc = "plan" /\ run'.before = run.before
          /\ run'.asking = NoRoot /\ run'.prev = NoSessions
      BY <1>1, <1>3 DEF Types, Run, Pcs
    <2>2. Calm'
      BY <1>1, <1>3, <2>1 DEF Calm, Quiet, KnownDead, NoSessions
    <2>3. kept = run.before[1] /\ \A r \in Roots : AsBefore(sess[r], r)
      BY <1>1 DEF PlanningTrue
    <2>4. \A r \in Roots : AsBefore(sess[r], r)'
      BY <1>3, <2>1, <2>3 DEF AsBefore
    <2>5. \A r \in Roots : SameOrGone(sess'[r], sess[r])
      BY <1>3 DEF SameOrGone
    <2> QED
      BY <1>1, <1>3, <2>1, <2>2, <2>3, <2>4, <2>5, PlanningBegins DEF Types
  <1> QED
    BY <1>2, <1>3 DEF EndPreflight


-----------------------------------------------------------------------------
(* Refresh: the lanes.                                                     *)

LEMMA ArriveAtTerminal ==
    ASSUME Types', KeptTrue', Calm', run'.pc = "terminal",
           \A r \in Roots : Holds(sess[r], r)' /\ sess'[r] # NoSession
    PROVE  CoordinatorIInv'
  <1>1. AskTrue'
    BY CalmAsks DEF Calm, AskTrue, Quiet, Requesting, OnRoots, KnownDead, NoSessions
  <1>2. RestingTrue' /\ ClearedTrue' /\ ReuseTrue' /\ PlanningTrue' /\ LocatingTrue'
    BY DEF RestingTrue, ClearedTrue, ReuseTrue, PlanningTrue, LocatingTrue, Cleared, Reopened,
           AgainstPublished, Planning, Locating, ProbeFor
  <1>3. ReconfigureTrue' /\ ApplyTrue' /\ CertsTrue'
    BY DEF ReconfigureTrue, ApplyTrue, CertsTrue
  <1> QED
    BY <1>1, <1>2, <1>3 DEF CoordinatorIInv, PhaseTrue

LEMMA ArriveAtWork ==
    ASSUME Types', KeptTrue', AskTrue', run'.pc \in {"apply", "affected", "certify"},
           run'.pc = "certify" => ~OnRoots', ApplyTrue', CertsTrue'
    PROVE  CoordinatorIInv'
  <1>1. RestingTrue' /\ ClearedTrue' /\ ReuseTrue' /\ PlanningTrue' /\ LocatingTrue'
        /\ ReconfigureTrue'
    BY DEF RestingTrue, Resting, ClearedTrue, ReuseTrue, PlanningTrue, LocatingTrue, Cleared,
           Reopened, AgainstPublished, Planning, Locating, ProbeFor, ReconfigureTrue
  <1> QED
    BY <1>1 DEF CoordinatorIInv, PhaseTrue

LEMMA ArriveLocating ==
    ASSUME Types', KeptTrue', AskTrue', Locating', LocatingTrue', RestingTrue', PlanningTrue',
           ReconfigureTrue', CertsTrue'
    PROVE  CoordinatorIInv'
  <1>1. run'.pc \in {"open", "reconfigure", "certify"} /\ OnRoots'
        /\ (run'.pc = "open" => run'.next = "certify" /\ run'.lane = "roots")
    BY DEF Locating, LocatingTrue
  <1>2. ClearedTrue' /\ ReuseTrue' /\ ApplyTrue'
    BY <1>1 DEF ClearedTrue, Cleared, ReuseTrue, AgainstPublished, Reopened, ProbeFor, ApplyTrue
  <1> QED
    BY <1>2 DEF CoordinatorIInv, PhaseTrue

\* Where a plan starts from.
Ready ==
    /\ run.pc = "plan" /\ run.asking = NoRoot /\ run.prev = NoSessions /\ kept = run.before[1]
    /\ \A r \in Roots : Quiet(sess[r]) /\ Holds(sess[r], r) /\ AsBefore(sess[r], r)

LEMMA PlanIsReady ==
    ASSUME CoordinatorIInv, Plan
    PROVE  Ready
  <1> USE DEF CoordinatorIInv, PhaseTrue
  <1>1. run.pc = "plan"
    BY DEF Plan
  <1>2. run.asking = NoRoot /\ run.prev = NoSessions /\ \A r \in Roots : Quiet(sess[r])
    BY <1>1, NotAsking DEF Requesting
  <1>3. Resting /\ Planning
    BY <1>1 DEF Resting, Planning
  <1> QED
    BY <1>1, <1>2, <1>3 DEF RestingTrue, PlanningTrue, Ready

\* The roots a lane leaves out stand where the attempt is going, unless their
\* source changed.
LEMMA RootLaneKeeps ==
    ASSUME CoordinatorIInv, Ready, Held, NEW roots \in SUBSET Roots, RootLane(roots),
           \A r \in Roots \ roots : sess[r] # NoSession /\ kept.topology[r] = run.top[r],
           UNCHANGED <<envVars, published, cancelled, failures>>
    PROVE  CoordinatorIInv'
  <1> USE DEF CoordinatorIInv, PhaseTrue
  <1>1. /\ run' = [run EXCEPT !.lane = "roots", !.affected = roots, !.todo = roots,
                              !.failed = "no",
                              !.pc = IF CanReconfigure(roots) THEN "reconfigure" ELSE "open",
                              !.next = "certify"]
        /\ kept' = kept /\ sess' = sess /\ mixed' = (mixed \/ SourceChanged \ roots # {})
    BY DEF RootLane
  <1>2. /\ run' \in Run /\ run'.lane = "roots" /\ run'.affected = roots /\ run'.todo = roots
        /\ run'.failed = "no" /\ run'.next = "certify" /\ run'.pc \in {"reconfigure", "open"}
        /\ run'.pc = "reconfigure" => CanReconfigure(roots)
        /\ run'.asking = run.asking /\ run'.prev = run.prev /\ run'.before = run.before
        /\ run'.src = run.src /\ run'.top = run.top
    <2> DEFINE pc == IF CanReconfigure(roots) THEN "reconfigure" ELSE "open"
    <2>1. pc \in {"reconfigure", "open"} /\ (pc = "reconfigure" => CanReconfigure(roots))
      OBVIOUS
    <2>2. run' = [run EXCEPT !.lane = "roots", !.affected = roots, !.todo = roots, !.failed = "no",
                             !.pc = pc, !.next = "certify"]
      BY <1>1
    <2> HIDE DEF pc
    <2>3. run \in Run
      BY DEF Types
    <2> QED
      BY ZenonT(60), <2>1, <2>2, <2>3 DEF Run, Pcs
  <1>3. mixed' \in BOOLEAN /\ (mixed => mixed')
        /\ \A r \in Roots \ roots : ~mixed' => kept.sources[r] = run.src[r]
    BY <1>1 DEF SourceChanged, Types
  <1>4. Types' /\ KeptTrue'
    BY <1>1, <1>2, <1>3, KeptStays DEF Types, envVars
  <1>5. Calm' /\ AskTrue'
    <2>1. Calm'
      BY <1>1, <1>2 DEF Ready, Calm, Quiet, KnownDead, NoSessions
    <2> QED
      BY <2>1, CalmAsks DEF Calm, AskTrue, Quiet, Requesting, OnRoots, KnownDead, NoSessions
  <1>6. \A r \in Roots : Holds(sess[r], r)' /\ AsBefore(sess[r], r)'
    <2>1. \A r \in Roots : Holds(sess[r], r)'
      BY <1>1, <1>3 DEF Ready, Holds, Held
    <2>2. \A r \in Roots : AsBefore(sess[r], r)'
      BY <1>1, <1>2 DEF Ready, AsBefore
    <2> QED
      BY <2>1, <2>2
  <1>7. RestingTrue' /\ PlanningTrue'
    BY <1>1, <1>2, <1>6 DEF RestingTrue, PlanningTrue, Ready
  <1>8. LocatingTrue' /\ Locating'
    <2>1. \A r \in Roots : run'.prev[r] = NoSession
      BY <1>2, NothingIsKept DEF Ready
    <2>2. \A r \in Roots : Holds(run.prev[r], r)' /\ AsBefore(run.prev[r], r)'
      BY <2>1 DEF Holds, AsBefore
    <2>3. Held' /\ kept' = run'.before[1]
      BY <1>1, <1>2 DEF Held, Ready
    <2>4. \A r \in Roots \ roots : /\ sess'[r] # NoSession /\ kept'.topology[r] = run'.top[r]
                                   /\ ~mixed' => kept'.sources[r] = run'.src[r]
      BY <1>1, <1>2, <1>3
    <2>5. Locating'
      BY <1>2 DEF Locating, OnRoots
    <2> QED
      BY <1>2, <1>6, <2>2, <2>3, <2>4, <2>5 DEF LocatingTrue
  <1>9. ReconfigureTrue' /\ CertsTrue'
    BY <1>1, <1>2 DEF ReconfigureTrue, CertsTrue, CanReconfigure
  <1> QED
    BY <1>4, <1>5, <1>7, <1>8, <1>9, ArriveLocating


LEMMA PlanKeeps ==
    ASSUME CoordinatorIInv, Plan
    PROVE  CoordinatorIInv'
  <1> USE DEF CoordinatorIInv, PhaseTrue
  <1>1. Ready /\ UNCHANGED <<envVars, published, cancelled, failures>>
    BY PlanIsReady DEF Plan
  <1>2. CASE Discard /\ UNCHANGED mixed
    BY <1>1, <1>2, DiscardArrives
  <1>3. CASE /\ CanLocalize /\ RootLane(AffectedRoots)
    <2>1. AffectedRoots \in SUBSET Roots /\ Held
      BY <1>3 DEF AffectedRoots, TopologyChanged, ToolChanged, PathsChanged, CanLocalize
    <2>2. \A r \in Roots \ AffectedRoots : sess[r] # NoSession /\ kept.topology[r] = run.top[r]
      BY DEF AffectedRoots, TopologyChanged, ToolChanged
    <2> QED
      BY <1>1, <1>3, <2>1, <2>2, RootLaneKeeps
  <1>4. CASE ~RequiresNew /\ RootLane(Roots)
    BY <1>1, <1>4, RootLaneKeeps DEF RequiresNew
  <1>5. CASE OpenAll /\ UNCHANGED mixed
    <2>1. Reset /\ run' = [run EXCEPT !.pc = "open", !.todo = Roots, !.next = "certify",
                                      !.lane = "full"]
      BY <1>5 DEF OpenAll
    <2>2. /\ run' \in Run /\ run'.pc = "open" /\ run'.todo = Roots /\ run'.next = "certify"
          /\ run'.lane = "full" /\ run'.asking = run.asking /\ run'.prev = run.prev
      BY ZenonT(60), <2>1 DEF Types, Run, Pcs
    <2>3. /\ KeptTrue' /\ kept' = Nothing /\ sess' = NoSessions
          /\ kept' \in Kept /\ sess' \in Population /\ \A r \in Roots : Quiet(sess[r])'
      BY <1>1, <1>5, <2>1, AfterReset
    <2>4. Types' /\ Calm'
      BY <1>1, <1>5, <2>2, <2>3, FrameStays DEF Types, FrameTypes, frameVars, Ready, Calm, NoSessions
    <2>5. ~OnRoots'
      BY <2>2 DEF OnRoots
    <2> QED
      BY <2>2, <2>3, <2>4, <2>5, ArriveCleared
  <1>6. CASE /\ ~RequiresNew /\ UNCHANGED <<kept, sess, mixed>>
             /\ run' = [run EXCEPT !.pc = "terminal", !.result = "complete", !.lane = "reuse"]
    <2>1. run' \in Run /\ run'.pc = "terminal" /\ run'.asking = run.asking /\ run'.prev = run.prev
      BY ZenonT(60), <1>6 DEF Types, Run, Pcs
    <2>2. Types' /\ KeptTrue'
      BY <1>1, <1>6, <2>1, FrameStays, KeptStays DEF Types, FrameTypes, frameVars
    <2>3. Calm'
      BY <1>1, <1>6, <2>1 DEF Ready, Calm, Quiet, KnownDead, NoSessions
    <2>4. \A r \in Roots : sess[r] # NoSession
      BY <1>6 DEF RequiresNew, ToolChanged
    <2>5. \A r \in Roots : Holds(sess[r], r)' /\ sess'[r] # NoSession
      BY <1>1, <1>6, <2>4 DEF Ready, Holds, Held
    <2> QED
      BY <2>1, <2>2, <2>3, <2>5, ArriveAtTerminal
  <1>7. CASE /\ ~RequiresNew /\ UNCHANGED <<kept, sess, mixed>>
             /\ \/ run' = [run EXCEPT !.pc = "apply", !.todo = SourceChanged, !.lane = "full"]
                \/ run' = [run EXCEPT !.pc = "affected", !.todo = SourceChanged,
                                      !.lane = "affected"]
    <2>1. /\ run' \in Run /\ run'.asking = run.asking /\ run'.prev = run.prev
          /\ run'.todo = SourceChanged /\ run'.src = run.src /\ run'.top = run.top
          /\ \/ run'.pc = "apply" /\ run'.lane = "full"
             \/ run'.pc = "affected" /\ run'.lane = "affected"
      <3>1. SourceChanged \in SUBSET Roots /\ run \in Run
        BY DEF SourceChanged, Types
      <3>2. CASE run' = [run EXCEPT !.pc = "apply", !.todo = SourceChanged, !.lane = "full"]
        BY ZenonT(60), <3>1, <3>2 DEF Run, Pcs
      <3>3. CASE run' = [run EXCEPT !.pc = "affected", !.todo = SourceChanged,
                                    !.lane = "affected"]
        BY ZenonT(60), <3>1, <3>3 DEF Run, Pcs
      <3> QED
        BY <1>7, <3>2, <3>3
    <2>2. Types' /\ KeptTrue'
      BY <1>1, <1>7, <2>1, FrameStays, KeptStays DEF Types, FrameTypes, frameVars
    <2>3. AskTrue'
      <3>1. Calm'
        BY <1>1, <1>7, <2>1 DEF Ready, Calm, Quiet, KnownDead, NoSessions
      <3> QED
        BY <3>1, CalmAsks DEF Calm, AskTrue, Quiet, Requesting, OnRoots, KnownDead, NoSessions
    <2>4. /\ Held /\ \A r \in Roots : sess[r] # NoSession /\ kept.topology[r] = run.top[r]
      BY <1>7 DEF RequiresNew, ToolChanged, TopologyChanged
    <2>5. kept.topology = run.top
      <3>1. kept.topology \in Tops /\ run.top \in Tops
        BY DEF Types, Kept, Run
      <3> QED
        BY <2>4, <3>1 DEF Tops
    <2>6. ~mixed => \A r \in Roots \ SourceChanged : Reached(sess[r], r)
      BY <1>1, <2>4 DEF Ready, Holds, Reached, SourceChanged
    <2>7. ApplyTrue'
      BY <1>7, <2>1, <2>4, <2>5, <2>6 DEF ApplyTrue, Held, Reached
    <2>8. CertsTrue'
      <3>1. run'.lane = "affected" => Certified' = SourceChanged
        BY <1>7, <2>1 DEF Certified, SourceChanged
      <3> QED
        BY <2>1, <3>1 DEF CertsTrue
    <2> QED
      BY <2>1, <2>2, <2>3, <2>7, <2>8, ArriveAtWork
  <1> QED
    BY <1>2, <1>3, <1>4, <1>5, <1>6, <1>7 DEF Plan


\* The candidate sessions of a population are new and stand where the attempt
\* is going.
LEMMA OpenedIs ==
    ASSUME Types, NEW r \in Roots
    PROVE  /\ Opened(r) \in Session /\ Opened(r) # NoSession /\ Quiet(Opened(r))
           /\ Reached(Opened(r), r)
  <1>1. /\ run.src[r] \in Source /\ run.top[r] \in Versions /\ world.top[r] \in Versions
        /\ run.tool \in Versions /\ Spawned \in ProcessType
    BY TypesOfParts, WorldIsTyped DEF Tops, Versions, Types, Run, Spawned, ProcessType
  <1>2. Opened(r) \in Session
    BY <1>1 DEF Opened, Session
  <1>3. Opened(r) # NoSession
    BY <1>2, NoneIsNoRecord
  <1> QED
    BY <1>2, <1>3 DEF Opened, Quiet, Reached, Spawned

LEMMA OpenKeeps ==
    ASSUME CoordinatorIInv, Open
    PROVE  CoordinatorIInv'
  <1> USE DEF CoordinatorIInv, PhaseTrue
  <1>1. /\ run.pc = "open" /\ UNCHANGED <<envVars, published, cancelled, mixed>>
        /\ failures' = failures \/ Fail
    BY DEF Open
  <1>2. /\ run.asking = NoRoot /\ run.prev = NoSessions /\ \A r \in Roots : Quiet(sess[r])
        /\ run.next \in {"certify", "recertified"}
    BY <1>1, NotAsking DEF Requesting, ClearedTrue
  <1>3. CASE /\ UNCHANGED <<kept, failures>>
             /\ sess' = [r \in Roots |-> IF r \in run.todo THEN Opened(r) ELSE sess[r]]
             /\ run' = [run EXCEPT !.pc = run.next, !.prev = sess]
    <2>1. /\ run' \in Run /\ run'.pc = run.next /\ run'.prev = sess /\ run'.todo = run.todo
          /\ run'.asking = run.asking /\ run'.lane = run.lane /\ run'.affected = run.affected
          /\ run'.src = run.src /\ run'.top = run.top /\ run'.before = run.before
          /\ run'.failed = run.failed
      <3>1. run \in Run /\ sess \in Population /\ run.next \in Pcs
        BY <1>2 DEF Types, Pcs
      <3> QED
        BY <1>3, <3>1 DEF Run
    <2>2. /\ sess' \in Population
          /\ \A r \in Roots : /\ r \in run.todo => sess'[r] = Opened(r)
                              /\ r \notin run.todo => sess'[r] = sess[r]
      BY <1>3, OpenedIs, TypesOfParts DEF Population, SessionOrNone
    <2>3. Types' /\ KeptTrue'
      BY <1>1, <1>3, <2>1, <2>2, FrameStays, KeptStays DEF Types, FrameTypes, frameVars
    <2>4. \A r \in Roots : Quiet(sess'[r])
      BY <1>2, <2>2, OpenedIs
    <2>5. \A r \in run.todo : sess'[r] # NoSession /\ Reached(sess[r], r)'
      <3>1. \A r \in run.todo : r \in Roots /\ Opened(r) # NoSession /\ Reached(Opened(r), r)
        BY OpenedIs, TypesOfParts
      <3> QED
        BY <2>1, <2>2, <3>1 DEF Reached
    <2>6. ASSUME ~OnRoots PROVE CoordinatorIInv'
      <3>1. kept = Nothing /\ sess = NoSessions /\ run.todo = Roots
        BY <1>1, <2>6 DEF ClearedTrue, Cleared
      <3>2. Calm'
        BY <1>2, <2>1, <2>4, <3>1 DEF Calm, Quiet, KnownDead, NoSessions
      <3>3. AskTrue'
        BY <3>2, CalmAsks DEF Calm, AskTrue, Quiet, Requesting, OnRoots, KnownDead, NoSessions
      <3>4. ~OnRoots'
        BY <2>1, <2>6 DEF OnRoots
      <3>5. CASE run.next = "certify"
        <4>1. run.lane = "full"
          BY <1>1, <2>6, <3>5 DEF ClearedTrue, OnRoots
        <4>2. ApplyTrue' /\ CertsTrue'
          BY <2>1, <2>5, <3>1, <3>5, <4>1 DEF ApplyTrue, CertsTrue, Certified
        <4> QED
          BY <2>1, <2>3, <3>3, <3>4, <3>5, <4>2, ArriveAtWork
      <3>6. CASE run.next = "recertified"
        <4>1. published # NoPayload /\ published.docs = run.src /\ published.inventory = run.top
          BY <1>1, <3>6 DEF ReuseTrue, AgainstPublished
        <4>2. ReuseTrue'
          BY <1>1, <2>1, <2>5, <3>1, <3>6, <4>1 DEF ReuseTrue, AgainstPublished, Reopened, ProbeFor
        <4>3. RestingTrue' /\ ClearedTrue' /\ PlanningTrue' /\ LocatingTrue'
          BY <2>1, <3>6 DEF RestingTrue, Resting, ClearedTrue, Cleared, PlanningTrue, Planning,
                            LocatingTrue, Locating, ProbeFor
        <4>4. ReconfigureTrue' /\ ApplyTrue' /\ CertsTrue'
          BY <2>1, <3>6 DEF ReconfigureTrue, ApplyTrue, CertsTrue
        <4> QED
          BY <2>3, <3>3, <4>2, <4>3, <4>4
      <3> QED
        BY <1>2, <3>5, <3>6
    <2>7. ASSUME OnRoots PROVE CoordinatorIInv'
      <3>1. Locating /\ Resting
        BY <1>1, <2>7 DEF Locating, Resting
      <3>2. /\ Held /\ kept = run.before[1] /\ run.todo = run.affected /\ run.next = "certify"
            /\ run.lane = "roots"
            /\ \A r \in Roots : Holds(sess[r], r) /\ AsBefore(sess[r], r)
            /\ \A r \in Roots \ run.affected :
                 /\ sess[r] # NoSession /\ kept.topology[r] = run.top[r]
                 /\ ~mixed => kept.sources[r] = run.src[r]
        BY <1>1, <2>7, <3>1 DEF LocatingTrue, PlanningTrue, RestingTrue
      <3>3. AskTrue'
        BY <1>2, <2>1, <2>4, <2>7, <3>2
           DEF AskTrue, Quiet, Requesting, OnRoots, KnownDead, NoSessions
      <3>4. LocatingTrue' /\ Locating'
        <4>1. Held' /\ kept' = run'.before[1]
          BY <1>3, <2>1, <3>2 DEF Held
        <4>2. \A r \in Roots : Holds(run.prev[r], r)' /\ AsBefore(run.prev[r], r)'
          BY <1>1, <1>3, <2>1, <3>2 DEF Holds, Held, AsBefore
        <4>3. \A r \in Roots \ run.affected :
                /\ sess'[r] # NoSession /\ Holds(sess[r], r)' /\ AsBefore(sess[r], r)'
          BY <1>1, <1>3, <2>1, <2>2, <3>2 DEF Holds, Held, AsBefore
        <4>4. \A r \in Roots \ run.affected :
                /\ kept'.topology[r] = run'.top[r]
                /\ ~mixed' => kept'.sources[r] = run'.src[r]
          BY <1>1, <1>3, <2>1, <3>2
        <4>5. Locating' /\ run'.pc = "certify"
          BY <2>1, <2>7, <3>2 DEF Locating, OnRoots
        <4> QED
          BY <2>1, <2>5, <3>2, <4>1, <4>2, <4>3, <4>4, <4>5 DEF LocatingTrue
      <3>5. RestingTrue' /\ PlanningTrue' /\ ReconfigureTrue' /\ CertsTrue'
        BY <2>1, <3>2 DEF RestingTrue, Resting, PlanningTrue, Planning, ProbeFor, ReconfigureTrue,
                          CertsTrue, Certified
      <3> QED
        BY <2>3, <3>3, <3>4, <3>5, ArriveLocating
    <2> QED
      BY <2>6, <2>7
  <1>4. CASE Reset /\ run' = Refuse
    <2>1. Refuse \in Run /\ Refuse.pc = "refresh" /\ Refuse.asking = NoRoot
          /\ Refuse.prev = NoSessions /\ cancelled' \in BOOLEAN
      BY <1>1, <1>2, RunMoves DEF Types
    <2> QED
      BY <1>1, <1>4, <2>1, ResetArrives
  <1>5. CASE OnRoots /\ Preserve(sess)
    <2>1. Resting
      BY <1>1, <1>5 DEF Resting
    <2> QED
      BY <1>1, <1>2, <1>5, <2>1, PreserveArrives DEF RestingTrue, Types
  <1>6. CASE Discard
    BY <1>1, <1>6, DiscardArrives
  <1> QED
    BY <1>3, <1>4, <1>5, <1>6 DEF Open


\* A refresh of roots that fails gives the replaced sessions back.
LEMMA RollbackArrives ==
    ASSUME CoordinatorIInv, Locating, NEW q \in Population, Preserve(RolledBack(q)),
           UNCHANGED <<envVars, published, cancelled, mixed>>, failures' = failures \/ Fail,
           \A r \in Roots : SameOrGone(q[r], sess[r]) /\ Quiet(q[r])
    PROVE  CoordinatorIInv'
  <1> USE DEF CoordinatorIInv, PhaseTrue
  <1>1. /\ RolledBack(q) \in Population
        /\ \A r \in Roots : RolledBack(q)[r] = IF r \in run.affected THEN run.prev[r] ELSE q[r]
    BY TypesOfParts DEF RolledBack, Population
  <1>2. \A r \in run.affected : r \in Roots /\ Quiet(run.prev[r]) /\ Holds(run.prev[r], r)
    BY TypesOfParts DEF AskTrue, LocatingTrue
  <1>3. \A r \in Roots \ run.affected : Quiet(q[r]) /\ Holds(q[r], r)
    BY SameHolds DEF LocatingTrue
  <1> QED
    BY <1>1, <1>2, <1>3, PreserveArrives

LEMMA ReconfiguredKeeps ==
    ASSUME CoordinatorIInv, Reconfigured
    PROVE  CoordinatorIInv'
  <1> USE DEF CoordinatorIInv, PhaseTrue
  <1>1. /\ run.pc = "reconfigure" /\ run.todo = {} /\ run.asking = NoRoot
        /\ UNCHANGED <<envVars, published, cancelled, failures, mixed>>
    BY DEF Reconfigured
  <1>2. /\ Locating /\ run.lane = "roots" /\ run.prev = NoSessions
        /\ \A r \in Roots : Quiet(sess[r])
    BY <1>1, NotAsking DEF ReconfigureTrue, Locating, OnRoots
  <1>3. CASE Preserve(RolledBack(sess))
    BY <1>1, <1>2, <1>3, RollbackArrives, SameIsSame DEF Types, Same
  <1>4. CASE /\ run.failed = "no" /\ run' = [run EXCEPT !.pc = "certify", !.todo = run.affected]
             /\ UNCHANGED <<kept, sess>>
    <2>1. /\ run' \in Run /\ run'.pc = "certify" /\ run'.todo = run.affected
          /\ run'.affected = run.affected /\ run'.asking = run.asking /\ run'.prev = run.prev
          /\ run'.lane = run.lane /\ run'.src = run.src /\ run'.top = run.top
          /\ run'.before = run.before
      BY <1>4, TypesOfParts DEF Run, Pcs
    <2>2. Types' /\ KeptTrue'
      BY <1>1, <1>4, <2>1, FrameStays, KeptStays DEF Types, FrameTypes, frameVars
    <2>3. AskTrue'
      <3>1. Calm'
        BY <1>1, <1>2, <1>4, <2>1 DEF Calm, Quiet, KnownDead, NoSessions
      <3> QED
        BY <3>1, CalmAsks DEF Calm, AskTrue, Quiet, Requesting, OnRoots, KnownDead, NoSessions
    <2>4. \A r \in run.affected : Reached(sess[r], r)
      BY <1>1, <1>4 DEF ReconfigureTrue
    <2>5. LocatingTrue' /\ Locating'
      <3>1. Locating'
        BY <1>2, <2>1 DEF Locating, OnRoots
      <3>2. \A r \in run.affected : Reached(sess[r], r)'
        BY <1>4, <2>1, <2>4 DEF Reached
      <3>3. \A r \in Roots : /\ Holds(run.prev[r], r) => Holds(run.prev[r], r)'
                             /\ AsBefore(run.prev[r], r) => AsBefore(run.prev[r], r)'
                             /\ Holds(sess[r], r) => Holds(sess[r], r)'
                             /\ AsBefore(sess[r], r) => AsBefore(sess[r], r)'
        BY <1>1, <1>4, <2>1 DEF Holds, Held, AsBefore
      <3>4. Held' /\ kept' = run'.before[1]
        BY <1>2, <1>4, <2>1 DEF LocatingTrue, Held
      <3> QED
        BY <1>1, <1>2, <1>4, <2>1, <3>1, <3>2, <3>3, <3>4 DEF LocatingTrue
    <2>6. RestingTrue' /\ PlanningTrue' /\ ReconfigureTrue' /\ CertsTrue'
      BY <1>2, <2>1 DEF RestingTrue, Resting, PlanningTrue, Planning, ProbeFor, ReconfigureTrue,
                        CertsTrue, Certified
    <2> QED
      BY <2>2, <2>3, <2>5, <2>6, ArriveLocating
  <1> QED
    BY <1>1, <1>3, <1>4 DEF Reconfigured

LEMMA AppliedKeeps ==
    ASSUME CoordinatorIInv, Applied
    PROVE  CoordinatorIInv'
  <1> USE DEF CoordinatorIInv, PhaseTrue
  <1>1. /\ run.pc = "apply" /\ run.todo = {} /\ run.asking = NoRoot /\ run.lane = "full"
        /\ UNCHANGED <<frameVars, kept, sess>>
        /\ run' = [run EXCEPT !.pc = "certify", !.todo = Roots]
        /\ run.prev = NoSessions /\ \A r \in Roots : Quiet(sess[r])
    BY NotAsking DEF Applied, ApplyTrue, frameVars
  <1>2. /\ run' \in Run /\ run'.pc = "certify" /\ run'.todo = Roots
        /\ run'.asking = run.asking /\ run'.prev = run.prev /\ run'.lane = run.lane
        /\ run'.src = run.src /\ run'.top = run.top
    BY ZenonT(60), <1>1 DEF Types, Run, Pcs
  <1>3. Types' /\ KeptTrue'
    BY <1>1, <1>2, FrameStays, KeptStays DEF Types, FrameTypes, frameVars
  <1>4. AskTrue'
    <2>1. Calm'
      BY <1>1, <1>2 DEF Calm, Quiet, KnownDead, NoSessions
    <2> QED
      BY <2>1, CalmAsks DEF Calm, AskTrue, Quiet, Requesting, OnRoots, KnownDead, NoSessions
  <1>5. ApplyTrue' /\ ~OnRoots'
    BY <1>1, <1>2 DEF ApplyTrue, Reached, OnRoots, frameVars
  <1>6. CertsTrue'
    BY <1>1, <1>2 DEF CertsTrue, Certified
  <1> QED
    BY <1>2, <1>3, <1>4, <1>5, <1>6, ArriveAtWork


\* Every request of the lane is answered.
AllAsked == run.pc \in {"certify", "affected"} /\ run.todo = {} /\ run.asking = NoRoot

\* The sessions of a lane that is done stand where the attempt is going, and
\* so does the retained authority for the roots it did not certify.
LEMMA AllReached ==
    ASSUME CoordinatorIInv, AllAsked
    PROVE  /\ \A r \in Roots : sess[r] # NoSession /\ (~mixed => Reached(sess[r], r))
           /\ \A r \in Roots : ~mixed /\ r \notin Certified => kept.sources[r] = run.src[r]
           /\ Held \/ Certified = Roots
           /\ run.lane \in {"full", "rootsFull", "roots", "affected"}
  <1> USE DEF CoordinatorIInv, PhaseTrue, AllAsked
  <1>1. CASE OnRoots /\ run.pc = "certify"
    <2>1. Locating
      BY <1>1 DEF Locating
    <2>2. /\ Held /\ \A r \in run.affected : Reached(sess[r], r)
          /\ \A r \in Roots \ run.affected :
               /\ sess[r] # NoSession /\ Holds(sess[r], r) /\ kept.topology[r] = run.top[r]
               /\ ~mixed => kept.sources[r] = run.src[r]
      BY <1>1, <2>1 DEF LocatingTrue
    <2>3. \A r \in Roots : sess[r] # NoSession /\ (~mixed => Reached(sess[r], r))
      BY <2>2 DEF Reached, Holds
    <2> QED
      BY <1>1, <2>2, <2>3 DEF Certified, OnRoots
  <1>2. CASE ~(OnRoots /\ run.pc = "certify")
    <2>1. /\ \A r \in Roots : sess[r] # NoSession /\ (~mixed => Reached(sess[r], r))
          /\ \/ run.lane = "full"
             \/ run.lane = "affected" /\ Held
      BY <1>2 DEF ApplyTrue
    <2> QED
      BY <2>1 DEF Certified, SourceChanged
  <1> QED
    BY <1>1, <1>2

\* The candidate that is committed was certified from the sources of the
\* attempt.
LEMMA CandidateIsSound ==
    ASSUME CoordinatorIInv, AllAsked
    PROVE  CandidateCalls \in Sources /\ (~mixed => CandidateCalls = run.src)
  <1>1. KeptTrue /\ CertsTrue /\ Types /\ run.src \in Sources /\ run.certs \in Sources
    BY DEF CoordinatorIInv, PhaseTrue, Types, Run
  <1>2. Held => /\ kept.payload.calls \in Sources /\ kept.payload.docs = kept.sources
                /\ ~mixed => kept.payload.calls = kept.sources
    <2>1. Held => kept.payload \in Payload
      BY <1>1, NoneIsNoRecord DEF Types, Kept, Held
    <2> QED
      BY <1>1, <2>1 DEF KeptTrue, CertifiedUnlessMixed, CertifiedMatchesSources, Held, Payload
  <1>3. /\ \A r \in Roots : ~mixed /\ r \notin Certified => kept.sources[r] = run.src[r]
        /\ Held \/ Certified = Roots
    BY AllReached
  <1>4. \A r \in Certified : ~mixed => run.certs[r] = run.src[r]
    BY <1>1 DEF CertsTrue, AllAsked
  <1>5. CandidateCalls \in Sources
    BY <1>1, <1>2, <1>3 DEF CandidateCalls, Sources
  <1>6. ASSUME ~mixed PROVE CandidateCalls = run.src
    <2>1. \A r \in Roots : CandidateCalls[r] = run.src[r]
      BY <1>2, <1>3, <1>4, <1>6 DEF CandidateCalls
    <2> QED
      BY <1>1, <1>5, <2>1 DEF Sources
  <1> QED
    BY <1>5, <1>6

LEMMA CommitKeeps ==
    ASSUME CoordinatorIInv, AllAsked, CommitCandidate, UNCHANGED frameVars
    PROVE  CoordinatorIInv'
  <1>1. /\ \A r \in Roots : sess[r] # NoSession /\ (~mixed => Reached(sess[r], r))
        /\ CandidateCalls \in Sources /\ (~mixed => CandidateCalls = run.src)
    BY AllReached, CandidateIsSound
  <1>2. Types /\ KeptTrue /\ AskTrue
    BY DEF CoordinatorIInv, PhaseTrue
  <1>3. Inputs \in Tops /\ \A r \in Roots : Inputs[r] = sess[r].inputs
    <2>1. \A r \in Roots : sess[r].inputs \in Versions
      BY <1>1, <1>2, TypesOfParts DEF Session
    <2> QED
      BY <2>1 DEF Inputs, Tops, Versions
  <1> DEFINE p == [docs |-> run.src, calls |-> CandidateCalls, inputs |-> Inputs,
                   inventory |-> run.top, tool |-> run.tool]
  <1>4. p \in Payload /\ p.docs = run.src /\ p.calls = CandidateCalls /\ p.inputs = Inputs
    BY <1>1, <1>2, <1>3 DEF Payload, Types, Run, Versions
  <1>5. /\ kept' = [sources |-> run.src, topology |-> run.top, payload |-> p,
                    snapshot |-> TRUE, pending |-> TRUE]
        /\ sess' = sess
        /\ run' = [run EXCEPT !.pc = "terminal", !.result = "complete", !.prev = NoSessions]
    BY DEF CommitCandidate
  <1> HIDE DEF p
  <1>6. /\ kept' \in Kept /\ kept'.payload = p /\ kept'.sources = run.src
        /\ kept'.topology = run.top /\ kept'.pending = TRUE
    BY <1>2, <1>4, <1>5 DEF Kept, Types, Run, PayloadOrNone
  <1>7. /\ run' \in Run /\ run'.pc = "terminal" /\ run'.prev = NoSessions
        /\ run'.asking = run.asking
    BY ZenonT(60), <1>2, <1>5, NothingIsKept DEF Types, Run, Pcs
  <1>8. Types'
    BY <1>2, <1>5, <1>6, <1>7, FrameStays DEF Types, FrameTypes
  <1>9. KeptTrue'
    <2>1. p # NoPayload /\ published' = published /\ mixed' = mixed
      BY <1>4, NoneIsNoRecord DEF frameVars
    <2>2. CertifiedUnlessMixed'
      BY <1>1, <1>2, <1>4, <1>6, <2>1 DEF KeptTrue, CertifiedUnlessMixed, CertifiedMatchesSources
    <2> QED
      BY <1>4, <1>6, <2>1, <2>2 DEF KeptTrue, Held, SettledIsPublished
  <1>10. Calm'
    BY <1>2, <1>5, <1>7, NotAsking DEF AllAsked, Calm, Quiet, KnownDead, NoSessions
  <1>11. \A r \in Roots : Holds(sess[r], r)' /\ sess'[r] # NoSession
    BY <1>1, <1>3, <1>4, <1>5, <1>6 DEF Holds, Reached, frameVars
  <1> QED
    BY <1>7, <1>8, <1>9, <1>10, <1>11, ArriveAtTerminal

\* A candidate of some roots is rejected and every root is certified.
LEMMA AllRootsNext ==
    ASSUME CoordinatorIInv, AllAsked, run.lane \in {"roots", "affected"},
           run' = [run EXCEPT !.pc = "certify", !.todo = Roots,
                              !.lane = IF OnRoots THEN "rootsFull" ELSE "full"],
           UNCHANGED <<frameVars, kept, sess>>
    PROVE  CoordinatorIInv'
  <1> USE DEF CoordinatorIInv, PhaseTrue
  <1>1. /\ run' \in Run /\ run'.pc = "certify" /\ run'.todo = Roots
        /\ run'.lane = (IF OnRoots THEN "rootsFull" ELSE "full")
        /\ run'.asking = run.asking /\ run'.prev = run.prev /\ run'.affected = run.affected
        /\ run'.src = run.src /\ run'.top = run.top /\ run'.before = run.before
    <2> DEFINE lane == IF OnRoots THEN "rootsFull" ELSE "full"
    <2>1. lane \in {"rootsFull", "full"} /\ run \in Run
      BY DEF Types
    <2>2. run' = [run EXCEPT !.pc = "certify", !.todo = Roots, !.lane = lane]
      OBVIOUS
    <2> HIDE DEF lane
    <2>3. /\ run' \in Run /\ run'.pc = "certify" /\ run'.todo = Roots /\ run'.lane = lane
          /\ run'.asking = run.asking /\ run'.prev = run.prev /\ run'.affected = run.affected
          /\ run'.src = run.src /\ run'.top = run.top /\ run'.before = run.before
      BY ZenonT(60), <2>1, <2>2 DEF Run, Pcs
    <2> QED
      BY <2>3 DEF lane
  <1>2. Types' /\ KeptTrue'
    BY <1>1, FrameStays, KeptStays DEF Types, FrameTypes, frameVars
  <1>3. CertsTrue'
    BY <1>1 DEF CertsTrue, Certified
  <1>4. \A r \in Roots : /\ Quiet(sess[r]) /\ sess[r] # NoSession
                         /\ ~mixed => Reached(sess[r], r)
    BY AllReached, NotAsking DEF AllAsked
  <1>5. CASE OnRoots
    <2>1. run'.lane = "rootsFull" /\ OnRoots' /\ run.lane = "roots"
      BY <1>1, <1>5 DEF OnRoots
    <2>2. run.pc = "certify" /\ Locating
      BY <2>1 DEF AllAsked, ApplyTrue, Locating, OnRoots
    <2>3. AskTrue'
      BY <1>1, <1>4, <2>1 DEF AskTrue, AllAsked, Quiet, KnownDead
    <2>4. Locating'
      BY <1>1, <2>1 DEF Locating
    <2>5. \A r \in Roots : /\ Holds(run.prev[r], r) => Holds(run.prev[r], r)'
                           /\ AsBefore(run.prev[r], r) => AsBefore(run.prev[r], r)'
                           /\ Holds(sess[r], r) => Holds(sess[r], r)'
                           /\ AsBefore(sess[r], r) => AsBefore(sess[r], r)'
                           /\ Reached(sess[r], r) => Reached(sess[r], r)'
      BY <1>1 DEF Holds, Held, AsBefore, Reached, frameVars
    <2>6. LocatingTrue'
      <3>1. Held' /\ kept' = run'.before[1]
        BY <1>1, <2>2 DEF LocatingTrue, Held
      <3>2. mixed' = mixed
        BY DEF frameVars
      <3> QED
        BY <1>1, <2>2, <2>5, <3>1, <3>2, TypesOfParts DEF LocatingTrue
    <2>7. RestingTrue' /\ PlanningTrue' /\ ReconfigureTrue'
      BY <1>1 DEF RestingTrue, Resting, PlanningTrue, Planning, ProbeFor, ReconfigureTrue
    <2> QED
      BY <1>2, <1>3, <2>3, <2>4, <2>6, <2>7, ArriveLocating
  <1>6. CASE ~OnRoots
    <2>1. run'.lane = "full" /\ ~OnRoots' /\ run.prev = NoSessions
      BY <1>1, <1>6, NotAsking DEF OnRoots
    <2>2. AskTrue'
      BY <1>1, <1>4, <2>1, NothingIsKept DEF AskTrue, AllAsked, Quiet, KnownDead, NoSessions
    <2>3. ApplyTrue'
      BY <1>1, <1>4, <2>1 DEF ApplyTrue, Reached, frameVars
    <2> QED
      BY <1>1, <1>2, <1>3, <2>1, <2>2, <2>3, ArriveAtWork
  <1> QED
    BY <1>5, <1>6

LEMMA AdmitKeeps ==
    ASSUME CoordinatorIInv, Admit
    PROVE  CoordinatorIInv'
  <1>1. AllAsked /\ UNCHANGED <<envVars, published, cancelled, mixed>>
    BY DEF Admit, AllAsked
  <1>2. CASE CommitCandidate /\ UNCHANGED failures
    BY <1>1, <1>2, CommitKeeps DEF frameVars
  <1>3. CASE Fail /\ CommitIncomplete
    <2>1. /\ run' \in Run /\ run'.pc = "publish" /\ run'.asking = NoRoot
          /\ run'.prev = NoSessions /\ cancelled' \in BOOLEAN
      BY ZenonT(60), <1>1, <1>3, NothingIsKept DEF CommitIncomplete, CoordinatorIInv, Types, Run, Pcs, AllAsked
    <2> QED
      BY <1>1, <1>3, <2>1, ResetArrives DEF CommitIncomplete
  <1>4. CASE /\ run.lane \in {"roots", "affected"}
             /\ run' = [run EXCEPT !.pc = "certify", !.todo = Roots,
                                   !.lane = IF OnRoots THEN "rootsFull" ELSE "full"]
             /\ UNCHANGED <<kept, sess, failures>>
    BY <1>1, <1>4, AllRootsNext DEF frameVars
  <1> QED
    BY <1>2, <1>3, <1>4 DEF Admit


-----------------------------------------------------------------------------
(* The end of an attempt.                                                  *)

LEMMA TerminalKeeps ==
    ASSUME CoordinatorIInv, Terminal
    PROVE  CoordinatorIInv'
  <1> USE DEF CoordinatorIInv, PhaseTrue
  <1>1. /\ run.pc = "terminal" /\ UNCHANGED frameVars /\ run.asking = NoRoot /\ Resting
        /\ run.prev = NoSessions /\ ~Requesting
        /\ \A r \in Roots : Quiet(sess[r]) /\ Holds(sess[r], r)
    BY NotAsking DEF Terminal, frameVars, Requesting, Resting, RestingTrue
  <1>2. CASE Discard
    BY <1>1, <1>2, DiscardArrives DEF frameVars
  <1>3. CASE /\ UNCHANGED <<kept, sess>>
             /\ run' = [run EXCEPT !.pc = "publish", !.result = "failed"]
    <2>1. run' \in Run /\ run'.pc = "publish" /\ run'.asking = NoRoot /\ run'.prev = NoSessions
      BY ZenonT(60), <1>1, <1>3 DEF Types, Run, Pcs
    <2> QED
      BY <1>1, <1>3, <2>1, RestStays
  <1>4. ASSUME NEW roots \in SUBSET Roots, run' = Probe(roots, "terminal"), UNCHANGED <<kept, sess>>
        PROVE  CoordinatorIInv'
    <2>1. /\ run' \in Run /\ run'.pc = "probe" /\ run'.next = "terminal"
          /\ run'.asking = NoRoot /\ run'.prev = NoSessions
      BY <1>1, <1>4, ProbeMoves DEF ProbeGoals
    <2>2. Types' /\ KeptTrue'
      BY <1>1, <1>4, <2>1, FrameStays, KeptStays DEF Types, FrameTypes, frameVars
    <2>3. AskTrue'
      <3>1. Calm'
        BY <1>1, <1>4, <2>1 DEF Calm, Quiet, KnownDead, NoSessions
      <3> QED
        BY <3>1, CalmAsks DEF Calm, AskTrue, Quiet, Requesting, OnRoots, KnownDead, NoSessions
    <2>4. RestingTrue' /\ ReuseTrue' /\ PlanningTrue'
      BY <1>1, <1>4, <2>1 DEF RestingTrue, Holds, Held, frameVars, ReuseTrue, AgainstPublished,
                              Reopened, ProbeFor, PlanningTrue, Planning
    <2> QED
      BY <2>1, <2>2, <2>3, <2>4, ArriveAtProbe
  <1>5. Registered \in SUBSET Roots /\ {} \in SUBSET Roots
    BY DEF Registered
  <1>6. (IF run.lane = "affected" THEN {} ELSE Registered) \in SUBSET Roots
    BY <1>5
  <1> QED
    BY <1>1, <1>2, <1>3, <1>4, <1>6 DEF Terminal

LEMMA TerminalInputsKeeps ==
    ASSUME CoordinatorIInv, TerminalInputs
    PROVE  CoordinatorIInv'
  <1> USE DEF CoordinatorIInv, PhaseTrue
  <1>1. /\ UNCHANGED frameVars /\ run.asking = NoRoot /\ Resting /\ run.prev = NoSessions
    BY NotAsking DEF TerminalInputs, ProbeEnds, frameVars, Resting, ProbeFor
  <1>2. CASE Discard
    BY <1>1, <1>2, DiscardArrives DEF frameVars
  <1>3. CASE /\ UNCHANGED <<kept, sess>>
             /\ \/ run' = [run EXCEPT !.pc = "publish", !.result = "failed", !.todo = {}]
                \/ run' = [run EXCEPT !.pc = "publish"]
    <2>1. run' \in Run /\ run'.pc = "publish" /\ run'.asking = NoRoot /\ run'.prev = NoSessions
      <3>1. CASE run' = [run EXCEPT !.pc = "publish", !.result = "failed", !.todo = {}]
        BY ZenonT(60), <1>1, <3>1 DEF Types, Run, Pcs
      <3>2. CASE run' = [run EXCEPT !.pc = "publish"]
        BY <1>1, <3>2 DEF Types, Run, Pcs
      <3> QED
        BY <1>3, <3>1, <3>2
    <2> QED
      BY <1>1, <1>3, <2>1, RestStays
  <1> QED
    BY <1>1, <1>2, <1>3 DEF TerminalInputs

LEMMA PublishKeeps ==
    ASSUME CoordinatorIInv, Publish
    PROVE  CoordinatorIInv'
  <1> USE DEF CoordinatorIInv, PhaseTrue
  <1>1. /\ run.pc = "publish" /\ run' = Idle /\ run.asking = NoRoot /\ run.prev = NoSessions
        /\ UNCHANGED <<envVars, cancelled, mixed>> /\ Resting /\ ~Requesting
        /\ \A r \in Roots : Quiet(sess[r]) /\ Holds(sess[r], r)
    BY NotAsking DEF Publish, Requesting, Resting, RestingTrue
  <1>2. /\ run' \in Run /\ run'.pc = "idle" /\ run'.asking = NoRoot /\ run'.prev = NoSessions
    BY <1>1, IdleIsRun
  <1>3. CASE UNCHANGED <<published, kept, sess, failures>>
    BY <1>1, <1>2, <1>3, RestStays DEF frameVars
  <1>4. CASE Fail /\ Reset /\ UNCHANGED published
    BY <1>1, <1>2, <1>4, ResetArrives DEF Types
  <1>5. CASE /\ published' = IF run.result = "complete" THEN kept.payload ELSE NoPayload
             /\ \E told \in IF run.result \in {"complete", "incomplete"} THEN {TRUE} ELSE BOOLEAN :
                  kept' = IF told THEN [kept EXCEPT !.pending = FALSE] ELSE kept
             /\ UNCHANGED <<sess, failures>>
    <2>1. published' \in {kept.payload, NoPayload} /\ published' \in PayloadOrNone
      BY <1>5 DEF Types, Kept, PayloadOrNone
    <2>2. /\ kept' \in Kept /\ kept'.payload = kept.payload /\ kept'.sources = kept.sources
          /\ kept'.topology = kept.topology
          /\ kept' = kept \/ kept' = [kept EXCEPT !.pending = FALSE]
      <3>1. kept \in Kept
        BY DEF Types
      <3>2. kept' = kept \/ kept' = [kept EXCEPT !.pending = FALSE]
        BY <1>5
      <3> QED
        BY <3>1, <3>2 DEF Kept
    <2>3. Types'
      BY <1>1, <1>2, <1>5, <2>1, <2>2 DEF Types, envVars
    <2>4. KeptTrue'
      <3>1. Held' => kept'.payload.docs = kept'.sources
        BY <2>2 DEF KeptTrue, Held
      <3>2. SettledIsPublished'
        BY <2>1, <2>2 DEF SettledIsPublished, Held
      <3>3. CertifiedUnlessMixed'
        BY <1>1, <2>1, <2>2 DEF KeptTrue, CertifiedUnlessMixed, CertifiedMatchesSources
      <3> QED
        BY <3>1, <3>2, <3>3 DEF KeptTrue
    <2>5. Calm'
      BY <1>1, <1>2, <1>5 DEF Calm, Quiet, KnownDead, NoSessions
    <2>6. \A r \in Roots : Holds(sess[r], r)'
      BY <1>1, <1>5, <2>2 DEF Holds, Held
    <2> QED
      BY <1>2, <2>3, <2>4, <2>5, <2>6, ArriveAtRest
  <1> QED
    BY <1>3, <1>4, <1>5 DEF Publish


-----------------------------------------------------------------------------
(* Requests.                                                               *)

\* The root a lane is asking, or about to ask.
AskedOrNext(r) == Requesting /\ r \in run.todo /\ run.asking \in {NoRoot, r}

\* The sessions of a probe change by their processes, or are closed.
LEMMA ProbeGoesOn ==
    ASSUME CoordinatorIInv, run.pc = "probe", UNCHANGED <<published, kept, mixed>>, Types', AskTrue',
           run'.pc = run.pc, run'.next = run.next, run'.src = run.src, run'.top = run.top,
           run'.before = run.before, run'.lane = run.lane,
           \A r \in Roots : SameOrGone(sess'[r], sess[r]),
           run'.failed = "no" =>
             run.failed = "no" /\ \A r \in Roots : sess[r] # NoSession => sess'[r] # NoSession
    PROVE  CoordinatorIInv'
  <1> USE DEF CoordinatorIInv, PhaseTrue
  <1>1. KeptTrue'
    BY KeptStays
  <1>2. \A r \in Roots : /\ Holds(sess[r], r) => Holds(sess[r], r)'
                         /\ AsBefore(sess[r], r) => AsBefore(sess[r], r)'
    <2>1. \A r \in Roots : /\ Holds(sess[r], r) => Holds(sess'[r], r)
                           /\ AsBefore(sess[r], r) => AsBefore(sess'[r], r)
      BY SameHolds
    <2>2. \A r \in Roots : Holds(sess'[r], r) => Holds(sess[r], r)'
      BY DEF Holds, Held
    <2>3. \A r \in Roots : AsBefore(sess'[r], r) => AsBefore(sess[r], r)'
      BY DEF AsBefore
    <2> QED
      BY <2>1, <2>2, <2>3
  <1>3. RestingTrue'
    BY <1>2 DEF RestingTrue, Resting, ProbeFor
  <1>4. ReuseTrue'
    BY DEF ReuseTrue, AgainstPublished, Reopened, ProbeFor, Held, Reached, SameOrGone
  <1>5. PlanningTrue'
    BY <1>2 DEF PlanningTrue, Planning, ProbeFor
  <1> QED
    BY <1>1, <1>3, <1>4, <1>5, ArriveAtProbe

LEMMA LaneFailsKeeps ==
    ASSUME CoordinatorIInv, NEW r \in Roots, AskedOrNext(r), NEW q \in Population,
           NEW byCancellation \in BOOLEAN, LaneFails(r, q, byCancellation),
           \A x \in Roots : Same(q[x], sess[x]) /\ Quiet(q[x]),
           UNCHANGED <<envVars, published, cancelled, mixed>>, failures' = failures \/ Fail
    PROVE  CoordinatorIInv'
  <1> USE DEF CoordinatorIInv, PhaseTrue
  <1>1. run.asking \in {NoRoot, r} /\ r \in run.todo /\ Requesting
    BY DEF AskedOrNext
  <1>2. FrameTypes' /\ run \in Run /\ \A x \in Roots : SameOrGone(q[x], sess[x])
    BY FrameKeeps DEF Types, Same
  <1>3. CASE /\ run.pc = "probe"
             /\ kept' = kept /\ sess' = [q EXCEPT ![r] = NoSession]
             /\ run' = IF byCancellation
                       THEN [run EXCEPT !.asking = NoRoot, !.failed = "cancelled", !.todo = {}]
                       ELSE [run EXCEPT !.asking = NoRoot, !.failed = "yes", !.todo = @ \ {r}]
    <2>1. /\ run' \in Run /\ run'.pc = "probe" /\ run'.asking = NoRoot
          /\ run'.failed \in {"cancelled", "yes"} /\ run'.prev = run.prev
          /\ run'.next = run.next /\ run'.src = run.src /\ run'.top = run.top
          /\ run'.before = run.before /\ run'.lane = run.lane
      <3>1. CASE run' = [run EXCEPT !.asking = NoRoot, !.failed = "cancelled", !.todo = {}]
        BY <1>2, <1>3, <3>1 DEF Run
      <3>2. CASE run' = [run EXCEPT !.asking = NoRoot, !.failed = "yes", !.todo = @ \ {r}]
        BY ZenonT(60), <1>2, <1>3, <3>2 DEF Run
      <3> QED
        BY <1>3, <3>1, <3>2
    <2>2. sess' \in Population /\ sess'[r] = NoSession /\ \A x \in Roots \ {r} : sess'[x] = q[x]
      BY <1>3, NothingIsKept DEF Population, SessionOrNone
    <2>3. \A x \in Roots : SameOrGone(sess'[x], sess[x]) /\ Quiet(sess'[x])
      BY <1>2, <2>2 DEF SameOrGone, Quiet
    <2>4. Types'
      BY <1>2, <1>3, <2>1, <2>2 DEF Types, FrameTypes
    <2>5. AskTrue'
      <3>1. run.prev = NoSessions
        BY <1>3, NotAsking
      <3>2. Calm'
        BY <2>1, <2>3, <3>1 DEF Calm, Quiet, KnownDead, NoSessions
      <3> QED
        BY <3>2, CalmAsks DEF Calm, AskTrue, Quiet, Requesting, OnRoots, KnownDead, NoSessions
    <2> QED
      BY <1>3, <2>1, <2>3, <2>4, <2>5, ProbeGoesOn
  <1>4. CASE /\ run.pc = "reconfigure" /\ kept' = kept /\ sess' = q
             /\ run' = [run EXCEPT !.asking = NoRoot, !.failed = "yes", !.todo = @ \ {r}]
    <2>1. /\ run' \in Run /\ run'.pc = run.pc /\ run'.asking = NoRoot /\ run'.failed = "yes"
          /\ run'.todo = run.todo \ {r} /\ run'.prev = run.prev /\ run'.affected = run.affected
          /\ run'.lane = run.lane /\ run'.src = run.src /\ run'.top = run.top
          /\ run'.before = run.before /\ run'.next = run.next
      BY <1>2, <1>4 DEF Run
    <2>2. Types' /\ KeptTrue'
      BY <1>2, <1>4, <2>1, KeptStays DEF Types, FrameTypes
    <2>3. AskTrue'
      <3>1. run.prev = NoSessions
        BY <1>4, NotAsking
      <3>2. Calm'
        BY <1>4, <2>1, <3>1 DEF Calm, Quiet, KnownDead, NoSessions
      <3> QED
        BY <3>2, CalmAsks DEF Calm, AskTrue, Quiet, Requesting, OnRoots, KnownDead, NoSessions
    <2>4. Locating /\ Locating'
      BY <1>4, <2>1 DEF Locating, OnRoots, ReconfigureTrue
    <2>5. LocatingTrue'
      <3>1. \A x \in Roots : /\ Holds(run.prev[x], x) => Holds(run.prev[x], x)'
                             /\ AsBefore(run.prev[x], x) => AsBefore(run.prev[x], x)'
                             /\ Holds(q[x], x) => Holds(sess[x], x)'
                             /\ AsBefore(q[x], x) => AsBefore(sess[x], x)'
        BY <1>4, <2>1 DEF Holds, Held, AsBefore
      <3>2. \A x \in Roots : /\ Holds(sess[x], x) => Holds(q[x], x)
                             /\ AsBefore(sess[x], x) => AsBefore(q[x], x)
        BY <1>2, SameHolds
      <3>3. \A x \in Roots : sess[x] # NoSession => sess'[x] # NoSession
        BY <1>4 DEF Same
      <3>4. Held' /\ kept' = run'.before[1] /\ mixed' = mixed
        BY <1>4, <2>1, <2>4 DEF LocatingTrue, Held
      <3> QED
        BY <1>4, <2>1, <2>4, <3>1, <3>2, <3>3, <3>4, TypesOfParts DEF LocatingTrue
    <2>6. ReconfigureTrue'
      BY <1>2, <1>4, <2>1, TypesOfParts DEF ReconfigureTrue, Same, SameOrGone
    <2>7. RestingTrue' /\ PlanningTrue' /\ CertsTrue'
      BY <1>4, <2>1 DEF RestingTrue, Resting, PlanningTrue, Planning, ProbeFor, CertsTrue
    <2> QED
      BY <2>2, <2>3, <2>4, <2>5, <2>6, <2>7, ArriveLocating
  <1>5. CASE Discard
    BY <1>5, DiscardArrives
  <1>6. CASE run.pc = "certify" /\ OnRoots /\ Preserve(RolledBack(q))
    BY <1>2, <1>6, RollbackArrives DEF Locating
  <1> QED
    BY <1>3, <1>4, <1>5, <1>6 DEF LaneFails

\* The session that is asked, quarantined.
LEMMA QuarantinedIs ==
    ASSUME CoordinatorIInv, NEW r \in Roots, AskedOrNext(r), sess[r] # NoSession
    PROVE  /\ Quarantined(r) \in Population
           /\ \A x \in Roots : Same(Quarantined(r)[x], sess[x]) /\ Quiet(Quarantined(r)[x])
  <1> USE DEF CoordinatorIInv
  <1>1. sess[r] \in Session /\ sess[r].proc \in ProcessType /\ sess \in Population
    BY TypesOfParts DEF Session
  <1> DEFINE p == Quarantine(sess[r].proc)
  <1>2. p \in ProcessType /\ KnownDead(p)
    BY <1>1, ProcessSteps
  <1>3. Quarantined(r) = [sess EXCEPT ![r] = WithProc(sess[r], p)]
    BY <1>1 DEF Quarantined, WithProc
  <1> HIDE DEF p
  <1>4. /\ WithProc(sess[r], p) \in Session /\ WithProc(sess[r], p).proc = p
        /\ Same(WithProc(sess[r], p), sess[r])
    BY <1>1, <1>2, ProcOfSession, NoneIsNoRecord DEF Same, SameOrGone
  <1>5. /\ Quarantined(r) \in Population /\ Quarantined(r)[r] = WithProc(sess[r], p)
        /\ \A x \in Roots \ {r} : Quarantined(r)[x] = sess[x]
    BY <1>1, <1>3, <1>4 DEF Population, SessionOrNone
  <1>6. \A x \in Roots \ {r} : Quiet(sess[x])
    BY Bounds DEF AskTrue, AskedOrNext
  <1>7. \A x \in Roots : Same(Quarantined(r)[x], sess[x])
    BY <1>4, <1>5, SameIsSame
  <1>8. \A x \in Roots : Quiet(Quarantined(r)[x])
    BY <1>2, <1>4, <1>5, <1>6 DEF Quiet
  <1> QED
    BY <1>5, <1>7, <1>8

LEMMA AskKeeps ==
    ASSUME CoordinatorIInv, Ask
    PROVE  CoordinatorIInv'
  <1> USE DEF CoordinatorIInv
  <1>1. Requesting /\ run.asking = NoRoot /\ UNCHANGED <<envVars, published, cancelled, failures, mixed>>
    BY DEF Ask
  <1>2. PICK r \in run.todo :
            \/ /\ sess[r] # NoSession /\ Reachable(sess[r].proc)
               /\ sess' = [sess EXCEPT ![r].proc = Asked(@)]
               /\ run' = [run EXCEPT !.asking = r]
               /\ kept' = kept
            \/ sess[r] # NoSession /\ LaneFails(r, Quarantined(r), FALSE)
            \/ sess[r] = NoSession /\ LaneFails(r, sess, FALSE)
    BY DEF Ask
  <1>3. r \in Roots /\ AskedOrNext(r) /\ \A x \in Roots : Quiet(sess[x])
    BY <1>1, <1>2, TypesOfParts, NotAsking DEF AskedOrNext
  <1>4. CASE /\ sess[r] # NoSession /\ Reachable(sess[r].proc)
             /\ sess' = [sess EXCEPT ![r].proc = Asked(@)]
             /\ run' = [run EXCEPT !.asking = r]
             /\ kept' = kept
    <2>1. r \in Registered /\ sess[r] \in Session /\ sess[r].proc \in ProcessType
      BY <1>3, <1>4, TypesOfParts DEF Registered, Session
    <2>2. sess' = [sess EXCEPT ![r] = WithProc(sess[r], Asked(sess[r].proc))]
      BY <1>4, <2>1 DEF WithProc
    <2>3. Asked(sess[r].proc) \in ProcessType
      BY <2>1, ProcessSteps
    <2>4. run' \in Run /\ run'.asking = r /\ UNCHANGED phaseVars
      BY <1>1, <1>3, <1>4 DEF Types, Run, phaseVars
    <2>5. failures' \in 0..MaxFailures /\ UNCHANGED <<policy, world, cancelled, edits>>
      BY <1>1 DEF Types, envVars
    <2> QED
      BY <1>1, <1>2, <2>1, <2>2, <2>3, <2>4, <2>5, OneProcess
  <1>5. CASE sess[r] # NoSession /\ LaneFails(r, Quarantined(r), FALSE)
    BY <1>1, <1>3, <1>5, QuarantinedIs, LaneFailsKeeps
  <1>6. CASE sess[r] = NoSession /\ LaneFails(r, sess, FALSE)
    BY <1>1, <1>3, <1>6, SameIsSame, LaneFailsKeeps DEF Types
  <1> QED
    BY <1>2, <1>4, <1>5, <1>6

LEMMA RequestFailsKeeps ==
    ASSUME CoordinatorIInv, RequestFails
    PROVE  CoordinatorIInv'
  <1> DEFINE r == run.asking
  <1>1. /\ r # NoRoot /\ UNCHANGED <<envVars, published, cancelled, mixed>>
        /\ failures' = failures \/ Fail
        /\ \E byCancellation \in BOOLEAN : LaneFails(r, Quarantined(r), byCancellation)
    BY DEF RequestFails
  <1>2. r \in Roots /\ AskedOrNext(r) /\ sess[r] # NoSession
    BY <1>1, TypesOfParts DEF CoordinatorIInv, AskTrue, AskedOrNext
  <1> HIDE DEF r
  <1> QED
    BY <1>1, <1>2, QuarantinedIs, LaneFailsKeeps


\* What is certified are the sources of the attempt.
LEMMA CertifyingStands ==
    ASSUME CoordinatorIInv, run.pc = "certify", ~mixed, NEW r \in Roots
    PROVE  sess[r].src = run.src[r]
  <1> USE DEF CoordinatorIInv, PhaseTrue
  <1>1. CASE OnRoots
    <2>1. Locating
      BY <1>1 DEF Locating
    <2>2. CASE r \in run.affected
      BY <2>1, <2>2 DEF LocatingTrue, Reached
    <2>3. CASE r \notin run.affected
      BY <2>1, <2>3 DEF LocatingTrue, Holds
    <2> QED
      BY <2>2, <2>3
  <1>2. CASE ~OnRoots
    BY <1>2 DEF ApplyTrue, Reached
  <1> QED
    BY <1>1, <1>2

LEMMA ClaimIs ==
    ASSUME Types, NEW r \in Roots, sess[r] # NoSession
    PROVE  /\ Claim(r) \in Session /\ Claim(r) # NoSession /\ Quiet(Claim(r))
           /\ run.pc \in {"probe", "certify"} => Same(Claim(r), sess[r])
           /\ run.pc \in {"apply", "affected"} => Reached(Claim(r), r)
           /\ run.pc = "reconfigure" =>
                Claim(r).src = sess[r].src /\ Claim(r).topology = run.top[r]
  <1>1. /\ sess[r] \in Session /\ sess[r].proc \in ProcessType
        /\ run.src[r] \in Source /\ run.top[r] \in Versions
    BY TypesOfParts DEF Session
  <1>2. Claimed(sess[r].proc) \in ProcessType /\ Claimed(sess[r].proc).wire = "idle"
    BY <1>1, ProcessSteps
  <1> DEFINE p == Claimed(sess[r].proc)
  <1>3. p \in ProcessType /\ p.wire = "idle"
    BY <1>2
  <1>4. /\ run.pc \in {"apply", "affected"} =>
             Claim(r) = [sess[r] EXCEPT !.proc = p, !.src = run.src[r], !.topology = run.top[r]]
        /\ run.pc = "reconfigure" =>
             Claim(r) = [sess[r] EXCEPT !.proc = p, !.topology = run.top[r], !.inputs = run.top[r]]
        /\ run.pc \notin {"apply", "affected", "reconfigure"} =>
             Claim(r) = [sess[r] EXCEPT !.proc = p]
    BY DEF Claim
  <1> HIDE DEF p
  <1>5. CASE run.pc \in {"apply", "affected"}
    <2>1. /\ Claim(r) \in Session /\ Claim(r).proc = p
          /\ Claim(r).src = run.src[r] /\ Claim(r).topology = run.top[r]
      BY <1>1, <1>3, <1>4, <1>5 DEF Session
    <2> QED
      BY <1>3, <1>5, <2>1, NoneIsNoRecord DEF Quiet, Reached
  <1>6. CASE run.pc = "reconfigure"
    <2>1. /\ Claim(r) \in Session /\ Claim(r).proc = p
          /\ Claim(r).src = sess[r].src /\ Claim(r).topology = run.top[r]
      BY <1>1, <1>3, <1>4, <1>6 DEF Session
    <2> QED
      BY <1>3, <1>6, <2>1, NoneIsNoRecord DEF Quiet
  <1>7. CASE run.pc \notin {"apply", "affected", "reconfigure"}
    <2>1. /\ Claim(r) \in Session /\ Claim(r).proc = p
          /\ Claim(r).src = sess[r].src /\ Claim(r).topology = sess[r].topology
          /\ Claim(r).inputs = sess[r].inputs /\ Claim(r).tool = sess[r].tool
      BY <1>1, <1>3, <1>4, <1>7 DEF Session
    <2> QED
      BY <1>3, <1>7, <2>1, NoneIsNoRecord DEF Quiet, Same, SameOrGone
  <1> QED
    BY <1>5, <1>6, <1>7

LEMMA ReadTerminalKeeps ==
    ASSUME CoordinatorIInv, ReadTerminal
    PROVE  CoordinatorIInv'
  <1> USE DEF CoordinatorIInv, PhaseTrue
  <1>0. PICK r \in Roots : r = run.asking
    BY TypesOfParts DEF ReadTerminal
  <1> DEFINE c == Claim(r)
  <1>1. /\ r = run.asking /\ r # NoRoot /\ r \in run.todo /\ Requesting /\ sess[r] # NoSession
        /\ UNCHANGED <<frameVars, kept>> /\ sess' = [sess EXCEPT ![r] = c]
        /\ run' = [run EXCEPT
                     !.asking = NoRoot, !.todo = @ \ {r},
                     !.certs = IF run.pc \in {"certify", "affected"}
                               THEN [@ EXCEPT ![r] = sess'[r].src] ELSE @]
    BY <1>0 DEF ReadTerminal, AskTrue, frameVars
  <1>2. /\ c \in Session /\ c # NoSession /\ Quiet(c)
        /\ run.pc \in {"probe", "certify"} => Same(c, sess[r])
        /\ run.pc \in {"apply", "affected"} => Reached(c, r)
        /\ run.pc = "reconfigure" => c.src = sess[r].src /\ c.topology = run.top[r]
    BY <1>1, ClaimIs
  <1> HIDE DEF c
  <1>3. /\ sess' \in Population /\ sess'[r] = c /\ \A x \in Roots \ {r} : sess'[x] = sess[x]
        /\ \A x \in Roots : (sess[x] # NoSession => sess'[x] # NoSession) /\ Quiet(sess'[x])
    <2>1. /\ sess' \in Population /\ sess'[r] = c /\ \A x \in Roots \ {r} : sess'[x] = sess[x]
      BY <1>1, <1>2, TypesOfParts DEF Population, SessionOrNone
    <2>2. \A x \in Roots \ {r} : Quiet(sess[x])
      BY <1>1, Bounds DEF AskTrue
    <2> QED
      BY <1>2, <2>1, <2>2
  <1> DEFINE certs == IF run.pc \in {"certify", "affected"}
                      THEN [run.certs EXCEPT ![r] = c.src] ELSE run.certs
  <1>4. /\ certs \in Sources /\ \A x \in Roots \ {r} : certs[x] = run.certs[x]
        /\ run.pc \in {"certify", "affected"} => certs[r] = c.src
    <2>1. run.certs \in Sources /\ c.src \in Source
      BY <1>2 DEF Types, Run, Session
    <2> QED
      BY <1>1, <2>1 DEF Sources
  <1>5. run' = [run EXCEPT !.asking = NoRoot, !.todo = @ \ {r}, !.certs = certs]
    <2>1. sess'[r].src = c.src
      BY <1>3
    <2>2. certs = IF run.pc \in {"certify", "affected"}
                  THEN [run.certs EXCEPT ![r] = sess'[r].src] ELSE run.certs
      BY <2>1 DEF certs
    <2> HIDE DEF certs
    <2> QED
      BY <1>1, <2>2
  <1> HIDE DEF certs
  <1>6. /\ run' \in Run /\ run'.asking = NoRoot /\ run'.todo = run.todo \ {r} /\ run'.certs = certs
        /\ run'.pc = run.pc /\ run'.next = run.next /\ run'.src = run.src /\ run'.top = run.top
        /\ run'.before = run.before /\ run'.lane = run.lane /\ run'.affected = run.affected
        /\ run'.prev = run.prev /\ run'.failed = run.failed
    BY <1>4, <1>5 DEF Types, Run
  <1>7. Types' /\ KeptTrue'
    BY <1>1, <1>3, <1>6, FrameStays, KeptStays DEF Types, FrameTypes, frameVars
  <1>8. AskTrue'
    BY <1>3, <1>6 DEF AskTrue, Quiet, KnownDead, OnRoots
  <1>9. \A x \in Roots : run.pc \in {"probe", "certify"} => Same(sess'[x], sess[x])
    BY <1>2, <1>3, SameIsSame
  <1>10. CASE run.pc = "probe"
    BY <1>1, <1>3, <1>6, <1>7, <1>8, <1>9, <1>10, ProbeGoesOn DEF Same, frameVars
  <1>11. CertsTrue'
    <2>1. ASSUME ~mixed, run.pc \in {"certify", "affected"} PROVE c.src = run.src[r]
      BY <1>1, <1>2, <2>1, CertifyingStands DEF Same, SameOrGone, Reached
    <2>2. Certified' = Certified /\ mixed' = mixed
      BY <1>1, <1>6 DEF Certified, SourceChanged, frameVars
    <2>3. Certified \subseteq Roots
      BY TypesOfParts DEF Certified, SourceChanged
    <2> QED
      BY <1>4, <1>6, <2>1, <2>2, <2>3 DEF CertsTrue
  <1>12. CASE run.pc \in {"apply", "affected"} \/ (run.pc = "certify" /\ ~OnRoots)
    <2>1. \A x \in Roots \ {r} : Reached(sess[x], x) => Reached(sess[x], x)'
      BY <1>3, <1>6 DEF Reached
    <2>2. run.pc \in {"apply", "affected"} => Reached(sess[r], r)'
      BY <1>2, <1>3, <1>6 DEF Reached
    <2>3. run.pc = "certify" /\ Reached(sess[r], r) => Reached(sess[r], r)'
      BY <1>1, <1>3, <1>6, <1>9 DEF Reached, Same, SameOrGone
    <2>4. ApplyTrue'
      BY <1>1, <1>3, <1>6, <2>1, <2>2, <2>3 DEF ApplyTrue, OnRoots, Held, frameVars
    <2> QED
      BY <1>6, <1>7, <1>8, <1>11, <1>12, <2>4, ArriveAtWork DEF OnRoots
  <1>13. CASE run.pc = "reconfigure" \/ (run.pc = "certify" /\ OnRoots)
    <2>1. Locating /\ Locating'
      BY <1>6, <1>13 DEF Locating, OnRoots, ReconfigureTrue
    <2>2. run.pc = "reconfigure" => r \in run.affected
      BY <1>1 DEF ReconfigureTrue
    <2>3. \A x \in Roots \ run.affected : Same(sess'[x], sess[x])
      BY <1>3, <1>9, <1>13, <2>2, SameIsSame
    <2>4. \A x \in run.affected : run.pc = "certify" => Same(sess'[x], sess[x])
      BY <1>9, TypesOfParts
    <2>5. LocatingTrue'
      <3>1. \A x \in Roots : /\ Holds(run.prev[x], x) => Holds(run.prev[x], x)'
                             /\ AsBefore(run.prev[x], x) => AsBefore(run.prev[x], x)'
                             /\ Holds(sess'[x], x) => Holds(sess[x], x)'
                             /\ AsBefore(sess'[x], x) => AsBefore(sess[x], x)'
        BY <1>1, <1>6 DEF Holds, Held, AsBefore, frameVars
      <3>2. \A x \in Roots \ run.affected : /\ Holds(sess[x], x) => Holds(sess'[x], x)
                                            /\ AsBefore(sess[x], x) => AsBefore(sess'[x], x)
        BY <2>3, SameHolds DEF Same
      <3>3. \A x \in run.affected :
              run.pc = "certify" /\ Reached(sess[x], x) => Reached(sess[x], x)'
        BY <1>6, <2>4 DEF Reached, Same, SameOrGone
      <3>4. Held' /\ kept' = run'.before[1] /\ mixed' = mixed
        BY <1>1, <1>6, <2>1 DEF LocatingTrue, Held, frameVars
      <3> QED
        BY <1>1, <1>3, <1>6, <1>13, <2>1, <3>1, <3>2, <3>3, <3>4 DEF LocatingTrue
    <2>6. ReconfigureTrue'
      <3>1. ASSUME run.pc = "reconfigure" PROVE c.src = run.src[r] /\ Reached(sess[r], r)'
        BY <1>2, <1>3, <1>6, <2>2, <3>1 DEF ReconfigureTrue, Reached
      <3>2. \A x \in Roots \ {r} : Reached(sess[x], x) => Reached(sess[x], x)'
        BY <1>3, <1>6 DEF Reached
      <3> QED
        BY <1>3, <1>6, <3>1, <3>2, TypesOfParts DEF ReconfigureTrue
    <2>7. RestingTrue' /\ PlanningTrue'
      BY <1>6, <1>13 DEF RestingTrue, Resting, PlanningTrue, Planning, ProbeFor
    <2> QED
      BY <1>7, <1>8, <1>11, <2>1, <2>5, <2>6, <2>7, ArriveLocating
  <1> QED
    BY <1>1, <1>10, <1>12, <1>13 DEF Requesting


-----------------------------------------------------------------------------
(* The theorems.                                                           *)

LEMMA InitIsTrue == Init => CoordinatorIInv
  <1> SUFFICES ASSUME Init PROVE CoordinatorIInv
    OBVIOUS
  <1>1. Types
    <2>1. FirstSource \in [{"body", "surface", "paths"} -> 0..1] /\ FirstSource \in Source
      BY Bounds DEF FirstSource, Source, Versions
    <2>2. /\ world.src = [r \in Roots |-> FirstSource] /\ world.top = [r \in Roots |-> 1]
          /\ world.tool = 1
      BY DEF Init
    <2>3. world \in [src : [Roots -> [{"body", "surface", "paths"} -> 0..1]],
                     top : [Roots -> 0..1], tool : 0..1]
      BY <2>1 DEF Init
    <2>4. FirstPayload \in Payload
      BY <2>1, <2>2, Bounds DEF FirstPayload, Payload, Sources, Tops, Versions
    <2>5. published \in PayloadOrNone
      BY <2>4 DEF Init, PayloadOrNone
    <2>6. /\ policy \in Policies /\ mixed \in BOOLEAN /\ cancelled \in BOOLEAN
          /\ edits = 0 /\ edits \in 0..MaxEdits /\ failures \in 0..MaxFailures
          /\ kept \in Kept /\ sess \in Population /\ run \in Run
      <3>1. 0 \in 0..MaxEdits /\ 0 \in 0..MaxFailures
        BY Bounds
      <3>2. Nothing \in Kept /\ NoSessions \in Population /\ Idle \in Run
        BY NothingIsKept, IdleIsRun
      <3> QED
        BY <3>1, <3>2 DEF Init
    <2>7. 0..(edits + 1) = 0..1
      BY <2>6
    <2> QED
      BY <2>3, <2>5, <2>6, <2>7 DEF Types
  <1>2. KeptTrue
    <2>1. ~Held
      BY NothingIsKept DEF Init, Held
    <2>2. published = FirstPayload => published.calls = published.docs
      BY DEF FirstPayload
    <2> QED
      BY <2>1, <2>2 DEF Init, KeptTrue, Held, SettledIsPublished, CertifiedUnlessMixed,
                        CertifiedMatchesSources
  <1>3. \A r \in Roots : sess[r] = NoSession
    BY NothingIsKept DEF Init
  <1>4. Calm
    BY <1>3, IdleIsRun DEF Init, Calm, Quiet
  <1>5. AskTrue
    BY <1>4, CalmAsks
  <1>6. run.pc = "idle"
    BY IdleIsRun DEF Init
  <1>7. RestingTrue /\ ClearedTrue /\ ReuseTrue /\ PlanningTrue /\ LocatingTrue
    BY <1>3, <1>6 DEF RestingTrue, ClearedTrue, ReuseTrue, PlanningTrue, LocatingTrue, Cleared,
                      AgainstPublished, Reopened, Planning, Locating, ProbeFor, Holds
  <1>8. ReconfigureTrue /\ ApplyTrue /\ CertsTrue
    BY <1>6 DEF ReconfigureTrue, ApplyTrue, CertsTrue
  <1> QED
    BY <1>1, <1>2, <1>5, <1>7, <1>8 DEF CoordinatorIInv, PhaseTrue

LEMMA StutterKeeps ==
    ASSUME CoordinatorIInv, UNCHANGED vars
    PROVE  CoordinatorIInv'
  <1> USE DEF CoordinatorIInv, vars
  <1>1. Types'
    BY DEF Types
  <1>2. PhaseTrue'
    BY TypesOfParts, ProcessesOnly, SameIsSame DEF phaseVars
  <1>3. AskTrue'
    BY DEF AskTrue, Requesting, OnRoots, Quiet, KnownDead
  <1> QED
    BY <1>1, <1>2, <1>3

LEMMA NextKeeps == CoordinatorIInv /\ [Next]_vars => CoordinatorIInv'
  <1> SUFFICES ASSUME CoordinatorIInv, [Next]_vars PROVE CoordinatorIInv'
    OBVIOUS
  <1>1. CASE UNCHANGED vars
    BY <1>1, StutterKeeps
  <1>2. CASE Environment
    BY <1>2, EditKeeps, ChildDiesKeeps, ChildAnswersKeeps, CancelKeeps, RestartKeeps
       DEF Environment
  <1>3. CASE Begin \/ Authorize \/ Reuse \/ Recertify \/ Reconstruct \/ CheckOpened \/ AdmitOpened
    BY <1>3, BeginKeeps, AuthorizeKeeps, ReuseKeeps, RecertifyKeeps, ReconstructKeeps,
       CheckOpenedKeeps, AdmitOpenedKeeps
  <1>4. CASE Refresh \/ EndPreflight \/ Plan \/ Open \/ Reconfigured \/ Applied \/ Admit
    BY <1>4, RefreshKeeps, EndPreflightKeeps, PlanKeeps, OpenKeeps, ReconfiguredKeeps,
       AppliedKeeps, AdmitKeeps
  <1>5. CASE Terminal \/ TerminalInputs \/ Publish \/ Ask \/ ReadTerminal \/ RequestFails
    BY <1>5, TerminalKeeps, TerminalInputsKeeps, PublishKeeps, AskKeeps, ReadTerminalKeeps,
       RequestFailsKeeps
  <1> QED
    BY <1>1, <1>2, <1>3, <1>4, <1>5 DEF Next, Steps

\* In every reachable state the attempt, the sessions and the retained
\* authority agree on the epoch the attempt is in.
THEOREM CoordinatorInductive == Spec => []CoordinatorIInv
  BY InitIsTrue, NextKeeps, PTL DEF Spec

LEMMA IInvImplies ==
    ASSUME CoordinatorIInv
    PROVE  CoordinatorInv /\ SettledIsPublished /\ CertifiedUnlessMixed /\ NoAnswerLeftBehind
  <1> USE DEF CoordinatorIInv, PhaseTrue
  <1>1. SettledIsPublished /\ CertifiedUnlessMixed
    BY DEF KeptTrue
  <1>2. NoAnswerLeftBehind
    BY DEF AskTrue, Quiet, NoAnswerLeftBehind, Registered
  <1>3. SessionsHoldRetainedEpoch
    BY DEF RestingTrue, Resting, SessionsHoldRetainedEpoch, Holds, Registered
  <1>4. TypeOK
    <2>1. \A s \in SessionOrNone : SessionOK(s)
      BY DEF SessionOrNone, Session, SessionOK, Versions
    <2>2. \A r \in Roots : SessionOK(sess[r]) /\ SessionOK(run.prev[r])
      BY <2>1, TypesOfParts
    <2>3. PayloadOK(published) /\ PayloadOK(kept.payload)
      BY DEF Types, Kept, PayloadOrNone, PayloadOK
    <2>4. kept.sources \in Sources /\ kept.topology \in Tops
      BY DEF Types, Kept
    <2>5. run.todo \subseteq Roots /\ run.affected \subseteq Roots
          /\ run.asking \in run.todo \cup {NoRoot}
      BY TypesOfParts DEF AskTrue
    <2> QED
      BY <2>2, <2>3, <2>4, <2>5 DEF Types, TypeOK, KeptTrue
  <1> QED
    BY <1>1, <1>2, <1>3, <1>4 DEF CoordinatorInv

\* Between attempts the sessions stand where the retained authority says,
\* through rollbacks, discards, restarts and cancellations of every step.
THEOREM SessionsStandWhereRetained == Spec => []CoordinatorInv
  <1>1. CoordinatorIInv => CoordinatorInv
    BY IInvImplies
  <1> QED
    BY <1>1, CoordinatorInductive, PTL

\* A retained payload that counts as settled is the published one, whichever
\* of publication, cancellation and reset came last.
THEOREM SettledStaysPublished == Spec => []SettledIsPublished
  <1>1. CoordinatorIInv => SettledIsPublished
    BY IInvImplies
  <1> QED
    BY <1>1, CoordinatorInductive, PTL

\* Whatever lane made them, the calls of a payload were certified from the
\* sources it describes, unless a root-local refresh left a changed root out.
THEOREM PayloadsAreCertified == Spec => []CertifiedUnlessMixed
  <1>1. CoordinatorIInv => CertifiedUnlessMixed
    BY IInvImplies
  <1> QED
    BY <1>1, CoordinatorInductive, PTL

\* No session that may be asked again owes an answer to a request that ended.
THEOREM NoAnswerIsInherited == Spec => []NoAnswerLeftBehind
  <1>1. CoordinatorIInv => NoAnswerLeftBehind
    BY IInvImplies
  <1> QED
    BY <1>1, CoordinatorInductive, PTL


-----------------------------------------------------------------------------
(* What a step may never do.                                               *)

\* A probe that proved every root: all of them are registered, and the inputs
\* the sessions hold are those of the world.
LEMMA ProvedInputs ==
    ASSUME Types, \A r \in Roots : sess[r] # NoSession, InputsCurrent
    PROVE  world.top = [r \in Roots |-> sess[r].inputs]
  <1>1. \A r \in Roots : world.top[r] = sess[r].inputs
    BY DEF InputsCurrent, Registered
  <1>2. world.top \in Tops
    BY WorldIsTyped
  <1> QED
    BY <1>1, <1>2 DEF Tops

\* The retained payload a step leaves when it grants a reuse.
Exact ==
    published.docs = run.src /\ published.inputs = world.top /\ kept'.payload = published
ReuseStep == run'.result = "reused" /\ run.result # "reused" => Exact

LEMMA GrantIsExact ==
    ASSUME CoordinatorIInv, Reuse \/ Reconstruct \/ AdmitOpened
    PROVE  ReuseStep
  <1> USE DEF CoordinatorIInv, PhaseTrue
  <1>1. run \in Run /\ (run' = Refuse => run'.result = run.result)
    BY DEF Types, Refuse, Run
  <1>2. CASE Reuse
    <2>1. ProbeFor("reuse")
      BY <1>2 DEF Reuse, ProbeEnds, ProbeFor
    <2>2. Held /\ kept.payload = published /\ published.docs = run.src
      BY <2>1 DEF ReuseTrue
    <2>3. CASE /\ Proved /\ InputsCurrent
               /\ kept' = [kept EXCEPT !.pending = FALSE, !.snapshot = TRUE]
      <3>1. \A r \in Roots : sess[r] # NoSession
        BY <2>1, <2>3 DEF ReuseTrue, Proved
      <3>2. \A r \in Roots : sess[r].inputs = published.inputs[r]
        BY <2>1, <2>2, <3>1 DEF RestingTrue, Resting, Holds
      <3>3. published.inputs \in Tops
        BY <2>2, NoneIsNoRecord DEF Types, Held, Payload
      <3>4. published.inputs = world.top
        BY <2>3, <3>1, <3>2, <3>3, ProvedInputs, WorldIsTyped DEF Tops
      <3>5. kept'.payload = kept.payload
        BY <2>3 DEF Types, Kept
      <3> QED
        BY <2>2, <3>4, <3>5 DEF ReuseStep, Exact
    <2>4. CASE run' = [run EXCEPT !.pc = "recertify", !.tool = world.tool]
      BY <1>1, <2>4 DEF ReuseStep, Run
    <2> QED
      BY <1>1, <1>2, <2>3, <2>4 DEF Reuse, ReuseStep
  <1>3. CASE Reconstruct
    <2>1. published.docs = run.src
      BY <1>3 DEF Reconstruct, ReuseTrue, AgainstPublished
    <2>2. CASE world.top = published.inputs /\ Recertified
      BY <2>1, <2>2 DEF Recertified, ReuseStep, Exact
    <2> QED
      BY <1>1, <1>3, <2>2 DEF Reconstruct, ReuseStep
  <1>4. CASE AdmitOpened
    <2>1. ProbeFor("recertified") /\ AgainstPublished
      BY <1>4 DEF AdmitOpened, ProbeEnds, ProbeFor, AgainstPublished, Reopened
    <2>2. published # NoPayload /\ published.docs = run.src
      BY <2>1 DEF ReuseTrue
    <2>3. CASE Proved /\ InputsCurrent /\ Recertified
      <3>1. \A r \in Roots : sess[r] # NoSession /\ sess[r].inputs = published.inputs[r]
        BY <2>1, <2>3 DEF ReuseTrue, Proved
      <3>2. published.inputs \in Tops
        BY <2>2, NoneIsNoRecord DEF Types, Payload
      <3>3. published.inputs = world.top
        BY <2>3, <3>1, <3>2, ProvedInputs, WorldIsTyped DEF Tops
      <3> QED
        BY <2>2, <2>3, <3>3 DEF Recertified, ReuseStep, Exact
    <2> QED
      BY <1>1, <1>4, <2>3 DEF AdmitOpened, ReuseStep
  <1> QED
    BY <1>2, <1>3, <1>4

\* No other step makes a reuse, and few end a refresh as preserved.
Ended == run'.result # run.result /\ run'.result \in {"reused", "preserved"}

LEMMA LaneFailsEnds ==
    ASSUME Types, NEW r, NEW q, NEW byCancellation \in BOOLEAN, LaneFails(r, q, byCancellation),
           Ended
    PROVE  run.pc = "certify" /\ OnRoots /\ Preserve(RolledBack(q)) /\ run'.result = "preserved"
  <1>1. run \in Run
    BY DEF Types
  <1>2. ASSUME run' = IF byCancellation
                      THEN [run EXCEPT !.asking = NoRoot, !.failed = "cancelled", !.todo = {}]
                      ELSE [run EXCEPT !.asking = NoRoot, !.failed = "yes", !.todo = @ \ {r}]
        PROVE  FALSE
    BY <1>1, <1>2 DEF Ended, Run
  <1>3. ASSUME run' = [run EXCEPT !.asking = NoRoot, !.failed = "yes", !.todo = @ \ {r}]
        PROVE  FALSE
    BY <1>1, <1>3 DEF Ended, Run
  <1>4. ASSUME Discard PROVE FALSE
    BY <1>1, <1>4 DEF Ended, Run, Discard
  <1>5. ASSUME Preserve(RolledBack(q)) PROVE run'.result = "preserved"
    BY <1>1, <1>5 DEF Run, Preserve
  <1> QED
    BY <1>2, <1>3, <1>4, <1>5 DEF LaneFails

LEMMA OthersDoNotEnd ==
    ASSUME Types, [Next]_vars, Ended
    PROVE  \/ Reuse \/ Reconstruct \/ AdmitOpened \/ Refresh \/ EndPreflight \/ Open
           \/ Reconfigured \/ Ask \/ RequestFails
  <1>1. run \in Run
    BY DEF Types
  <1>2. CASE UNCHANGED vars
    BY <1>2 DEF vars, Ended
  <1>3. CASE Environment
    BY <1>3, IdleIsRun DEF Environment, Edit, ChildDies, ChildAnswers, Cancel, Restart, Ended
  <1>4. ASSUME Begin PROVE FALSE
    <2>1. PICK pc \in {"authorize", "refresh"} :
            run' = [Idle EXCEPT !.pc = pc, !.src = world.src, !.top = world.top]
      BY <1>4 DEF Begin
    <2> QED
      BY <2>1, IdleIsRun DEF Ended, Run
  <1>5. ASSUME Authorize PROVE FALSE
    BY <1>1, <1>5 DEF Authorize, Refuse, Probe, Ended, Run
  <1>6. ASSUME Recertify PROVE FALSE
    BY <1>1, <1>6 DEF Recertify, Refuse, Ended, Run
  <1>7. ASSUME CheckOpened PROVE FALSE
    BY <1>1, <1>7 DEF CheckOpened, Refuse, Probe, Ended, Run
  <1>8. ASSUME Plan PROVE FALSE
    BY <1>1, <1>8 DEF Plan, Discard, RootLane, OpenAll, Ended, Run
  <1>9. ASSUME Applied \/ Admit PROVE FALSE
    BY <1>1, <1>9 DEF Applied, Admit, CommitCandidate, CommitIncomplete, Ended, Run
  <1>10. ASSUME Terminal \/ TerminalInputs PROVE FALSE
    BY <1>1, <1>10 DEF Terminal, TerminalInputs, Discard, Probe, Ended, Run
  <1>11. ASSUME Publish PROVE FALSE
    BY <1>11, IdleIsRun DEF Publish, Ended
  <1>12. ASSUME ReadTerminal PROVE FALSE
    BY <1>1, <1>12 DEF ReadTerminal, Ended, Run
  <1> QED
    BY <1>2, <1>3, <1>4, <1>5, <1>6, <1>7, <1>8, <1>9, <1>10, <1>11, <1>12 DEF Next, Steps


\* What a refresh that ends as preserved leaves.
Unchanged ==
    /\ kept' = run.before[1]
    /\ \A r \in Roots : sess'[r] = NoSession \/ Terms(sess'[r]) = Terms(run.before[2][r])

LEMMA PreserveIsUnchanged ==
    ASSUME NEW q, Preserve(q), kept = run.before[1], \A r \in Roots : AsBefore(q[r], r)
    PROVE  Unchanged
  BY DEF Preserve, AsBefore, Unchanged

LEMMA RollbackIsUnchanged ==
    ASSUME CoordinatorIInv, Locating, NEW q, Preserve(RolledBack(q)),
           \A r \in Roots : SameOrGone(q[r], sess[r])
    PROVE  Unchanged
  <1> USE DEF CoordinatorIInv, PhaseTrue
  <1>1. kept = run.before[1]
    BY DEF LocatingTrue
  <1>2. \A r \in Roots : AsBefore(RolledBack(q)[r], r)
    <2>1. \A r \in Roots : RolledBack(q)[r] = IF r \in run.affected THEN run.prev[r] ELSE q[r]
      BY DEF RolledBack
    <2>2. \A r \in Roots : AsBefore(run.prev[r], r)
      BY DEF LocatingTrue
    <2>3. \A r \in Roots \ run.affected : AsBefore(q[r], r)
      BY SameHolds DEF LocatingTrue
    <2> QED
      BY <2>1, <2>2, <2>3
  <1> QED
    BY <1>1, <1>2, PreserveIsUnchanged

LEMMA PreservingIsUnchanged ==
    ASSUME CoordinatorIInv, [Next]_vars, Ended, run'.result = "preserved", run.pc # "refresh"
    PROVE  Unchanged
  <1> USE DEF CoordinatorIInv, PhaseTrue
  <1>1. run \in Run
    BY DEF Types
  <1>2. ASSUME Reuse \/ Reconstruct \/ AdmitOpened PROVE FALSE
    <2>1. run' \in {Refuse, Grant, [run EXCEPT !.pc = "recertify", !.tool = world.tool]}
      BY <1>2 DEF Reuse, Reconstruct, AdmitOpened
    <2> QED
      BY <1>1, <2>1 DEF Refuse, Grant, Run, Ended
  <1>3. ASSUME Refresh PROVE FALSE
    BY <1>3 DEF Refresh
  <1>4. CASE EndPreflight
    <2>1. Planning
      BY <1>4 DEF EndPreflight, ProbeEnds, Planning, ProbeFor
    <2>2. CASE Preserve(sess)
      BY <2>1, <2>2, PreserveIsUnchanged DEF PlanningTrue
    <2>3. CASE run' = [run EXCEPT !.pc = "plan"]
      BY <1>1, <2>3 DEF Ended, Run
    <2> QED
      BY <1>4, <2>2, <2>3 DEF EndPreflight
  <1>5. CASE Open
    <2>1. CASE OnRoots /\ Preserve(sess)
      BY <1>5, <2>1, PreserveIsUnchanged DEF Open, PlanningTrue
    <2>2. CASE run' = [run EXCEPT !.pc = run.next, !.prev = sess] \/ run' = Refuse \/ Discard
      BY <1>1, <2>2 DEF Ended, Run, Refuse, Discard
    <2> QED
      BY <1>5, <2>1, <2>2 DEF Open
  <1>6. CASE Reconfigured
    <2>1. Locating
      BY <1>6 DEF Reconfigured, Locating, ReconfigureTrue, OnRoots
    <2>2. CASE Preserve(RolledBack(sess))
      BY <2>1, <2>2, SameIsSame, RollbackIsUnchanged DEF Same
    <2>3. CASE run' = [run EXCEPT !.pc = "certify", !.todo = run.affected]
      BY <1>1, <2>3 DEF Ended, Run
    <2> QED
      BY <1>6, <2>2, <2>3 DEF Reconfigured
  <1>7. ASSUME NEW r \in Roots, NEW q, NEW byCancellation \in BOOLEAN,
               LaneFails(r, q, byCancellation), \A x \in Roots : Same(q[x], sess[x])
        PROVE  Unchanged
    <2>1. run.pc = "certify" /\ OnRoots /\ Preserve(RolledBack(q))
      BY <1>7, LaneFailsEnds
    <2> QED
      BY <1>7, <2>1, RollbackIsUnchanged DEF Locating, Same
  <1>8. CASE Ask
    <2>1. PICK r \in run.todo :
            \/ run' = [run EXCEPT !.asking = r]
            \/ sess[r] # NoSession /\ LaneFails(r, Quarantined(r), FALSE)
            \/ sess[r] = NoSession /\ LaneFails(r, sess, FALSE)
      BY <1>8 DEF Ask
    <2>2. r \in Roots /\ AskedOrNext(r)
      BY <1>8, <2>1, TypesOfParts DEF Ask, AskedOrNext
    <2>3. CASE run' = [run EXCEPT !.asking = r]
      BY <1>1, <2>3 DEF Ended, Run
    <2>4. CASE sess[r] # NoSession /\ LaneFails(r, Quarantined(r), FALSE)
      BY <1>7, <2>2, <2>4, QuarantinedIs
    <2>5. CASE LaneFails(r, sess, FALSE)
      BY <1>7, <2>2, <2>5, SameIsSame
    <2> QED
      BY <2>1, <2>3, <2>4, <2>5
  <1>9. CASE RequestFails
    <2>1. PICK r \in Roots : r = run.asking
      BY <1>9, TypesOfParts DEF RequestFails
    <2>2. PICK byCancellation \in BOOLEAN : LaneFails(r, Quarantined(r), byCancellation)
      BY <1>9, <2>1 DEF RequestFails
    <2>3. AskedOrNext(r) /\ sess[r] # NoSession
      BY <1>9, <2>1 DEF RequestFails, AskTrue, AskedOrNext
    <2> QED
      BY <1>7, <2>2, <2>3, QuarantinedIs
  <1> QED
    BY <1>2, <1>3, <1>4, <1>5, <1>6, <1>8, <1>9, OthersDoNotEnd

LEMMA ReusingIsExact ==
    ASSUME CoordinatorIInv, [Next]_vars
    PROVE  ReuseStep
  <1> SUFFICES ASSUME run'.result = "reused", run.result # "reused" PROVE Exact
    BY DEF ReuseStep
  <1> USE DEF CoordinatorIInv, PhaseTrue
  <1>1. Ended /\ run \in Run /\ run'.result # "preserved"
    BY DEF Ended, Types
  <1>2. CASE Reuse \/ Reconstruct \/ AdmitOpened
    BY <1>2, GrantIsExact DEF ReuseStep
  <1>3. ASSUME Refresh PROVE FALSE
    <2> DEFINE started == [run EXCEPT !.tool = world.tool, !.before = <<kept, sess>>]
    <2>1. started.result = run.result
      BY <1>1 DEF Run
    <2>2. \/ run' = [started EXCEPT !.pc = "publish", !.result = "preserved"]
          \/ \E todo : run' = [started EXCEPT !.pc = "probe", !.todo = todo,
                                              !.next = "plan", !.failed = "no"]
          \/ run' = [started EXCEPT !.pc = "plan"]
      BY <1>3 DEF Refresh
    <2>3. DOMAIN started = DOMAIN run
      OBVIOUS
    <2> HIDE DEF started
    <2> QED
      BY <1>1, <2>1, <2>2, <2>3 DEF Ended, Run
  <1>4. ASSUME Preserve(sess) \/ Preserve(RolledBack(sess)) PROVE FALSE
    BY <1>1, <1>4 DEF Preserve, Run
  <1>5. ASSUME EndPreflight \/ Reconfigured PROVE FALSE
    BY <1>1, <1>4, <1>5 DEF EndPreflight, Reconfigured, Ended, Run
  <1>6. ASSUME Open PROVE FALSE
    BY <1>1, <1>4, <1>6 DEF Open, Refuse, Discard, Ended, Run
  <1>7. ASSUME NEW r, NEW q, NEW byCancellation \in BOOLEAN, LaneFails(r, q, byCancellation)
        PROVE  FALSE
    BY <1>1, <1>7, LaneFailsEnds
  <1>8. ASSUME Ask PROVE FALSE
    <2>1. PICK r \in run.todo :
            \/ run' = [run EXCEPT !.asking = r]
            \/ LaneFails(r, Quarantined(r), FALSE)
            \/ LaneFails(r, sess, FALSE)
      BY <1>8 DEF Ask
    <2>2. run' # [run EXCEPT !.asking = r]
      BY <1>1 DEF Ended, Run
    <2> QED
      BY <1>7, <2>1, <2>2
  <1>9. ASSUME RequestFails PROVE FALSE
    BY <1>7, <1>9 DEF RequestFails
  <1> QED
    BY <1>1, <1>2, <1>3, <1>5, <1>6, <1>8, <1>9, OthersDoNotEnd

\* An exact reuse is granted for the captured sources and the project files as
\* they are, however the world moved since the first check.
THEOREM ReuseStaysExact == Spec => ReuseIsExact
  <1> DEFINE Step == run'.result = "reused" /\ run.result # "reused" =>
                       /\ published.docs = run.src
                       /\ published.inputs = world.top
                       /\ kept'.payload = published
  <1>1. CoordinatorIInv /\ [Next]_vars => [Step]_vars
    BY ReusingIsExact DEF ReuseStep, Exact
  <1> QED
    BY <1>1, CoordinatorInductive, PTL DEF Spec, ReuseIsExact

\* A refresh that reports the prior authority as preserved has preserved it:
\* no lane that stops half way leaves a root ahead or behind.
THEOREM PreservedIsPreserved == Spec => PreservedMeansUnchanged
  <1> DEFINE Step == run'.result = "preserved" /\ run.result # "preserved" =>
                       /\ run.pc # "refresh" => kept' = run.before[1]
                       /\ run.pc # "refresh" =>
                            \A r \in Roots :
                              sess'[r] = NoSession \/ Terms(sess'[r]) = Terms(run.before[2][r])
  <1>1. CoordinatorIInv /\ [Next]_vars => [Step]_vars
    BY PreservingIsUnchanged DEF Ended, Unchanged
  <1> QED
    BY <1>1, CoordinatorInductive, PTL DEF Spec, PreservedMeansUnchanged
=============================================================================
