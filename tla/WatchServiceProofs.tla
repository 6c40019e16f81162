------------------------ MODULE WatchServiceProofs ------------------------
(***************************************************************************)
(* Proofs about WatchService, for every set of files, directories and      *)
(* declared payloads and every capacity of the queues.                     *)
(*                                                                         *)
(* ChangeCarried is not inductive.  It is strengthened by: where the two   *)
(* tasks stand to each other (Standing), the population command of the     *)
(* service is asked and answered once, for the publication being handled   *)
(* (AskedOnce), a set deadline has something to send (DeadlineTrue), and a *)
(* change of a declarable file is a difference from the payload            *)
(* (DriftNoted).                                                           *)
(***************************************************************************)
EXTENDS WatchService, FiniteSetTheorems, TLAPS

Refreshes == [desired : SUBSET Dirs, inputs : SUBSET Files,
              event : [path : Paths \cup {None}, topology : BOOLEAN], before : SUBSET Dirs]

\* The world's part and the queues'.
WorldTypes ==
    /\ exists \subseteq Dirs /\ live \subseteq exists
    /\ changed \subseteq Files /\ sinceCapture \subseteq Files /\ drift \subseteq Files
    /\ raw \in Seq([path : Paths, topology : BOOLEAN]) /\ Len(raw) <= RawCapacity
    /\ dropping \in BOOLEAN /\ overflowed \in BOOLEAN
    /\ batches \in 0..BatchCapacity
    /\ left \in [{"changes", "publications", "failures"} -> Nat]

\* The debouncer's part.
DebouncerTypes ==
    /\ deb \in {"off", "select", "refresh", "flush", "closed"}
    /\ watched \subseteq Dirs /\ declared \subseteq Files
    /\ pending \subseteq Paths /\ IsFiniteSet(pending) /\ Cardinality(pending) <= MaxBatchPaths
    /\ reason \in {"Filesystem", "GitState", "QueueOverflow"} /\ armed \in BOOLEAN
    /\ refresh \in Refreshes

\* The service's part.
ServiceTypes ==
    /\ svc \in {"off", "registered", "select", "replace", "reobserve", "stopped"}
    /\ update \in Payloads \cup {NoPayload} /\ handling \in Payloads \cup {NoPayload}
    /\ (command = NoCommand \/ command \in SUBSET Files) /\ completion \in {None, "ok", "error"}
    /\ stopRequested \in BOOLEAN

\* The debouncer runs from Register until the service has gone, and the root
\* stays registered as long as the service runs.
Standing ==
    /\ Root \in exists
    /\ svc = "off" <=> deb = "off"
    /\ svc = "off" => watched = {}
    /\ deb = "closed" => svc = "stopped"
    /\ svc \notin {"off", "stopped"} => Root \in live
    /\ deb = "refresh" => Root \in refresh.desired

\* A deadline that is set has a batch to send.
DeadlineTrue == deb \notin {"flush", "closed"} /\ armed => pending # {} \/ reason = "QueueOverflow"

\* What the service asks the debouncer to register for the publication it
\* handles.
Asked == IF handling.valid THEN handling.inputs ELSE {}

\* Asked, carried out and answered one after the other, while the service
\* waits.
AskedOnce ==
    /\ command # NoCommand =>
        svc = "replace" /\ command = Asked /\ completion = None
        /\ ~(deb = "refresh" /\ refresh.event.path = None)
    /\ deb = "refresh" /\ refresh.event.path = None =>
        svc = "replace" /\ refresh.inputs = Asked /\ completion = None
    /\ completion # None => svc = "replace"
    /\ svc \notin {"replace", "reobserve"} => handling = NoPayload

\* A changed file that a publication may declare differs from the payload.
DriftNoted == changed \cap Declarable \subseteq drift

\* The inductive invariant.
WatchIInv ==
    /\ WorldTypes /\ DebouncerTypes /\ ServiceTypes
    /\ Standing /\ DeadlineTrue /\ AskedOnce /\ DriftNoted
    /\ ChangeCarried

-----------------------------------------------------------------------------
(* The pure helpers.                                                       *)

Reasons == {"Filesystem", "GitState", "QueueOverflow"}

\* classify_path gives a reason or none.
LEMMA ClassifyType ==
    ASSUME NEW p \in Paths, NEW inputs
    PROVE  Classify(p, inputs) \in {None, "GitState", "Filesystem"}
  BY DEF Classify

\* The event of a directory that reports its files is always relevant.
LEMMA DirectoryIsRelevant ==
    ASSUME NEW p, NEW inputs, Class[p] \in {"git", "plain"}
    PROVE  Classify(p, inputs) # None
  <1>1. Classify(p, inputs) \in {"GitState", "Filesystem"}
    BY DEF Classify
  <1> QED
    BY <1>1 DEF None

\* After a path that was not relevant: what it was to report is carried by
\* something else, or nobody heard of it.
LEMMA IgnoredIsUnheard ==
    ASSUME NEW p, NEW inputs, Classify(p, inputs) = None, unheard' = unheard \cup Ignored(p, None)
    PROVE  \A f \in changed \ unheard' : p \notin ReportsOf(f) \/ Carried(f)'
  <1> SUFFICES ASSUME NEW f \in changed \ unheard', p \in ReportsOf(f) PROVE Carried(f)'
    OBVIOUS
  <1>1. p = f
    BY DirectoryIsRelevant DEF ReportsOf
  <1> QED
    BY <1>1, Zenon DEF Ignored

\* combine_reason stays among the reasons and never forgets an overflow.
LEMMA CombineType ==
    ASSUME NEW a \in Reasons, NEW b \in Reasons
    PROVE  Combine(a, b) \in Reasons /\ (a = "QueueOverflow" => Combine(a, b) = a)
  BY DEF Combine, Reasons

\* The loop over an event's paths: the batch stays within its bound, a relevant
\* path and an overflow leave a deadline, and a deadline has something to send.
LEMMA PathNoted ==
    ASSUME DebouncerTypes, overflowed \in BOOLEAN, NEW p \in Paths,
           NEW c \in {None, "GitState", "Filesystem"}, NEW sofar \in Reasons,
           armed => pending # {} \/ sofar = "QueueOverflow",
           NotePath(p, c, sofar)
    PROVE  /\ deb' = "select" /\ overflowed' = FALSE
           /\ pending' \subseteq Paths /\ IsFiniteSet(pending') /\ Cardinality(pending') <= MaxBatchPaths
           /\ reason' \in Reasons /\ armed' \in BOOLEAN
           /\ armed' => pending' # {} \/ reason' = "QueueOverflow"
           /\ armed \/ overflowed \/ c # None \/ sofar = "QueueOverflow" => armed'
           /\ unheard' = unheard \cup Ignored(p, c)
  <1> DEFINE full == Cardinality(pending) >= MaxBatchPaths
             r == CASE c = None -> sofar
                    [] c # None /\ full /\ p \notin pending -> "QueueOverflow"
                    [] OTHER -> Combine(sofar, c)
             a == armed \/ c # None \/ sofar = "QueueOverflow"
  <1>1. /\ pending' = IF c # None /\ ~full THEN pending \cup {p} ELSE pending
        /\ deb' = "select" /\ overflowed' = FALSE
        /\ reason' = IF overflowed THEN "QueueOverflow" ELSE r
        /\ armed' = (a \/ overflowed)
        /\ unheard' = unheard \cup Ignored(p, c)
    BY Zenon DEF NotePath, BackToSelect
  <1>2. r \in Reasons /\ (c = None => r = sofar)
    <2>1. c # None => c \in Reasons
      BY DEF Reasons, None
    <2>2. c # None => Combine(sofar, c) \in Reasons
      BY <2>1, CombineType
    <2> QED
      BY <2>2 DEF Reasons
  <1>3. /\ MaxBatchPaths \in Nat \ {0} /\ Cardinality(pending) \in Nat
        /\ Cardinality(pending) <= MaxBatchPaths /\ pending \subseteq Paths /\ IsFiniteSet(pending)
    BY FS_CardinalityType, WatchAssumption DEF DebouncerTypes
  <1>4. /\ IsFiniteSet(pending \cup {p})
        /\ Cardinality(pending \cup {p}) <= Cardinality(pending) + 1
    <2>1. /\ IsFiniteSet(pending \cup {p})
          /\ Cardinality(pending \cup {p}) =
                IF p \in pending THEN Cardinality(pending) ELSE Cardinality(pending) + 1
      BY <1>3, FS_AddElement, Zenon
    <2> HIDE DEF full
    <2> QED
      BY <1>3, <2>1
  <1>5. full => pending # {}
    BY <1>3, FS_EmptySet
  <1>6. Cardinality(pending \cup {p}) \in Nat
    BY <1>4, FS_CardinalityType
  <1> HIDE DEF r
  <1>7. pending' \subseteq Paths /\ IsFiniteSet(pending') /\ Cardinality(pending') <= MaxBatchPaths
    <2>1. CASE c # None /\ ~full
      BY <1>1, <1>3, <1>4, <1>6, <2>1
    <2>2. CASE ~(c # None /\ ~full)
      BY <1>1, <1>3, <2>2
    <2> QED
      BY <2>1, <2>2
  <1>8. armed' => pending' # {} \/ reason' = "QueueOverflow"
    <2>1. CASE c # None
      <3>1. full \/ p \in pending'
        BY <1>1, <2>1
      <3> QED
        BY <1>1, <1>5, <2>1, <3>1
    <2>2. CASE c = None /\ ~overflowed
      BY <1>1, <1>2, <2>2
    <2>3. CASE overflowed
      BY <1>1, <2>3
    <2> QED
      BY <2>1, <2>2, <2>3
  <1>9. armed \in BOOLEAN
    BY DEF DebouncerTypes
  <1> QED
    BY <1>1, <1>2, <1>7, <1>8, <1>9 DEF Reasons

-----------------------------------------------------------------------------
(* The world and the callback.                                             *)

LEMMA InitWatch == Init => WatchIInv
  <1> SUFFICES ASSUME Init PROVE WatchIInv
    OBVIOUS
  <1> USE DEF Init
  <1>1. WorldTypes
    <2>1. RawCapacity \in Nat /\ BatchCapacity \in Nat /\ {MaxChanges, MaxPublications, MaxFailures} \subseteq Nat
      BY WatchAssumption
    <2>2. raw \in Seq([path : Paths, topology : BOOLEAN]) /\ Len(raw) <= RawCapacity
      BY <2>1
    <2>3. left \in [{"changes", "publications", "failures"} -> Nat]
      <3>1. MaxChanges \in Nat /\ MaxPublications \in Nat /\ MaxFailures \in Nat
        BY <2>1
      <3> QED
        BY <3>1
    <2>4. exists \subseteq Dirs /\ live \subseteq exists /\ changed \subseteq Files
          /\ sinceCapture \subseteq Files /\ drift \subseteq Files
      BY WatchAssumption
    <2>5. batches \in 0..BatchCapacity
      BY <2>1
    <2>6. dropping \in BOOLEAN /\ overflowed \in BOOLEAN
      OBVIOUS
    <2> HIDE DEF Init
    <2> QED
      BY <2>2, <2>3, <2>4, <2>5, <2>6 DEF WorldTypes
  <1>2. DebouncerTypes
    <2>1. refresh \in Refreshes
      BY DEF Refreshes, NoRefresh, Event
    <2>2. IsFiniteSet(pending) /\ Cardinality(pending) <= MaxBatchPaths
      BY FS_EmptySet, WatchAssumption
    <2> QED
      BY <2>1, <2>2 DEF DebouncerTypes
  <1>3. ServiceTypes
    <2>1. svc = "off" /\ completion = None /\ stopRequested \in BOOLEAN
      OBVIOUS
    <2>2. command = NoCommand
      OBVIOUS
    <2>3. update \in Payloads \cup {NoPayload} /\ handling \in Payloads \cup {NoPayload}
      OBVIOUS
    <2> HIDE DEF Init
    <2> QED
      BY <2>1, <2>2, <2>3 DEF ServiceTypes
  <1>7. DriftNoted /\ DeadlineTrue
    BY DEF DriftNoted, DeadlineTrue
  <1>4. Standing
    BY WatchAssumption DEF Standing, Running
  <1>5. AskedOnce
    BY DEF AskedOnce
  <1>6. ChangeCarried
    BY DEF ChangeCarried, Running
  <1> QED
    BY <1>1, <1>2, <1>3, <1>4, <1>5, <1>6, <1>7 DEF WatchIInv

\* What the payloads declare is declarable.
LEMMA InputsDeclarable ==
    ASSUME ServiceTypes
    PROVE  /\ handling.inputs \subseteq Declarable /\ update.inputs \subseteq Declarable
           /\ handling.checked \subseteq Declarable /\ update.checked \subseteq Declarable
           /\ handling.inputs \subseteq Files /\ update.inputs \subseteq Files
           /\ Asked \subseteq handling.inputs /\ Declarable \subseteq Files
           /\ handling.valid \in BOOLEAN /\ update.valid \in BOOLEAN
  <1>1. Declarable \subseteq Files
    BY WatchAssumption DEF Declarable
  <1>2. ASSUME NEW p \in Payloads \cup {NoPayload}
        PROVE  p.inputs \subseteq Declarable /\ p.checked \subseteq p.inputs /\ p.valid \in BOOLEAN
    <2>1. CASE p \in Payloads
      <3>1. /\ p \in [inputs : SUBSET Files, checked : SUBSET Files, valid : BOOLEAN]
            /\ p.checked \subseteq p.inputs
        BY <2>1, WatchAssumption
      <3> QED
        BY <2>1, <3>1 DEF Declarable
    <2>2. CASE p = NoPayload
      BY <2>2 DEF NoPayload
    <2> QED
      BY <2>1, <2>2
  <1>3. handling \in Payloads \cup {NoPayload} /\ update \in Payloads \cup {NoPayload}
    BY DEF ServiceTypes
  <1> QED
    BY <1>1, <1>2, <1>3 DEF Asked

\* The callback queues the event or notes that it could not; what stood for a
\* change stands for it still.
LEMMA Delivered ==
    ASSUME WorldTypes, NEW event \in [path : Paths, topology : BOOLEAN], NEW dir, Deliver(event, dir)
    PROVE  /\ raw' \in Seq([path : Paths, topology : BOOLEAN]) /\ Len(raw') <= RawCapacity
           /\ dropping' \in BOOLEAN /\ overflowed' = overflowed /\ (dropping => dropping')
           /\ \A n \in DOMAIN raw : n \in DOMAIN raw' /\ raw'[n] = raw[n]
           /\ dir \in live /\ deb # "closed" =>
                dropping' \/ \E n \in DOMAIN raw' : raw'[n] = event
  <1> DEFINE E == [path : Paths, topology : BOOLEAN]
  <1>1. raw \in Seq(E) /\ RawCapacity \in Nat \ {0} /\ Len(raw) \in Nat
    BY WatchAssumption DEF WorldTypes
  <1>2. CASE dir \in live /\ deb # "closed" /\ Len(raw) < RawCapacity
             /\ raw' = Append(raw, event) /\ UNCHANGED dropping
    <2>1. /\ Append(raw, event) \in Seq(E) /\ Len(Append(raw, event)) = Len(raw) + 1
          /\ \A n \in 1..Len(raw) : Append(raw, event)[n] = raw[n]
          /\ Append(raw, event)[Len(raw) + 1] = event
          /\ DOMAIN Append(raw, event) = 1..(Len(raw) + 1) /\ DOMAIN raw = 1..Len(raw)
      <3> HIDE DEF E
      <3> QED
        BY <1>1, event \in E DEF E
    <2>2. overflowed' = overflowed
      BY DEF Deliver
    <2> QED
      BY <1>1, <1>2, <2>1, <2>2 DEF WorldTypes
  <1>3. CASE ~(dir \in live /\ deb # "closed" /\ Len(raw) < RawCapacity
               /\ raw' = Append(raw, event) /\ UNCHANGED dropping)
    <2>1. raw' = raw /\ overflowed' = overflowed /\ (dropping' = TRUE \/ dropping' = dropping)
      BY <1>3 DEF Deliver
    <2>2. dir \in live /\ deb # "closed" => dropping'
      BY <1>3 DEF Deliver
    <2> QED
      BY <2>1, <2>2 DEF WorldTypes
  <1> QED
    BY <1>2, <1>3

\* A change of some files, an event for those it reports.
LEMMA ChangesKeep ==
    ASSUME WatchIInv, NEW files \in SUBSET Files, NEW reported,
           NEW event \in [path : Paths, topology : BOOLEAN], NEW dir,
           Spend("changes"), NoteChanges(files, reported), Deliver(event, dir),
           UNCHANGED <<debouncer, batches, service>>,
           exists' \subseteq Dirs, live' \subseteq exists', Root \in exists', Root \in live => Root \in live',
           \A f \in files \cap reported : event.path \in ReportsOf(f),
           Running /\ files \cap reported # {} => dir \in live
    PROVE  WatchIInv'
  <1> USE DEF WatchIInv
  <1>1. /\ UNCHANGED <<deb, watched, declared, pending, reason, armed, refresh, batches, svc, update,
                       handling, command, completion, stopRequested>>
        /\ changed' = changed \cup files
        /\ unheard' = (unheard \ files)
                      \cup {f \in files \ reported : ~Carried(f) /\ f \notin handling.checked}
        /\ sinceCapture' = sinceCapture \cup files
        /\ drift' = drift \cup (files \cap Declarable)
    BY DEF NoteChanges, debouncer, service
  <1>2. /\ raw' \in Seq([path : Paths, topology : BOOLEAN]) /\ Len(raw') <= RawCapacity
        /\ dropping' \in BOOLEAN /\ overflowed' = overflowed /\ (dropping => dropping')
        /\ \A n \in DOMAIN raw : n \in DOMAIN raw' /\ raw'[n] = raw[n]
        /\ dir \in live /\ deb # "closed" => dropping' \/ \E n \in DOMAIN raw' : raw'[n] = event
    BY Delivered
  <1>3. left' \in [{"changes", "publications", "failures"} -> Nat]
    BY DEF Spend, WorldTypes
  <1>4. Declarable \subseteq Files /\ handling.checked \subseteq Declarable
    BY InputsDeclarable
  <1>5. WorldTypes'
    <2>1. changed' \subseteq Files /\ sinceCapture' \subseteq Files /\ drift' \subseteq Files
      BY <1>1, <1>4 DEF WorldTypes
    <2>2. overflowed' \in BOOLEAN /\ batches' \in 0..BatchCapacity
      BY <1>1, <1>2 DEF WorldTypes
    <2> QED
      BY <1>2, <1>3, <2>1, <2>2 DEF WorldTypes
  <1>6. DebouncerTypes' /\ ServiceTypes' /\ DeadlineTrue' /\ AskedOnce'
    BY <1>1 DEF DebouncerTypes, ServiceTypes, DeadlineTrue, AskedOnce, Asked
  <1>7. Standing'
    BY <1>1 DEF Standing, Running
  <1>8. DriftNoted'
    BY <1>1 DEF DriftNoted
  <1>9. ASSUME NEW f \in Files, Carried(f) PROVE Carried(f)'
    <2>1. ASSUME NEW n \in DOMAIN raw, raw[n].path \in ReportsOf(f)
          PROVE  \E m \in DOMAIN raw' : raw'[m].path \in ReportsOf(f)
      BY <1>2, <2>1
    <2>2. f \in handling.checked /\ f \in drift => f \in drift'
      BY <1>1
    <2> QED
      BY <1>1, <1>2, <1>9, <2>1, <2>2 DEF Carried, ReportsOf
  <1>10. ASSUME Running', NEW f \in changed', f \notin unheard'
         PROVE  Carried(f)'
    <2>1. f \in Files /\ Running
      BY <1>1, <1>10 DEF WorldTypes, Running
    <2>2. CASE f \notin files
      BY <1>1, <1>9, <1>10, <2>1, <2>2 DEF ChangeCarried
    <2>3. CASE f \in files \cap reported
      <3>1. dropping' \/ \E n \in DOMAIN raw' : raw'[n] = event
        BY <1>2, <2>1, <2>3 DEF Standing, Running
      <3>2. event.path \in ReportsOf(f)
        BY <2>3
      <3> QED
        BY <3>1, <3>2 DEF Carried, ReportsOf
    <2>4. CASE f \in files \ reported /\ ~Carried(f)
      <3>1. f \in handling.checked
        BY <1>1, <1>10, <2>4
      <3>2. f \in drift' /\ f \in handling'.checked
        BY <1>1, <1>4, <2>4, <3>1
      <3> QED
        BY <3>2 DEF Carried
    <2> QED
      BY <1>9, <2>1, <2>2, <2>3, <2>4
  <1>11. ChangeCarried'
    BY <1>10 DEF ChangeCarried
  <1> QED
    BY <1>5, <1>6, <1>7, <1>8, <1>11

LEMMA ChangeKeeps ==
    ASSUME WatchIInv, NEW f \in Files, Change(f) PROVE WatchIInv'
  <1> DEFINE reported == {g \in {f} : DirOf[g] \in live}
  <1>1. /\ Spend("changes") /\ NoteChanges({f}, reported) /\ Deliver(Event(f, FALSE), DirOf[f])
        /\ UNCHANGED <<exists, live, debouncer, batches, service>>
    BY DEF Change
  <1>2. Event(f, FALSE) \in [path : Paths, topology : BOOLEAN] /\ Event(f, FALSE).path = f
    BY DEF Event, Paths
  <1>3. f \in ReportsOf(f)
    BY DEF ReportsOf
  <1>4. exists' \subseteq Dirs /\ live' \subseteq exists' /\ Root \in exists'
        /\ (Root \in live => Root \in live')
    BY <1>1 DEF WatchIInv, WorldTypes, Standing
  <1>5. \A g \in {f} \cap reported : Event(f, FALSE).path \in ReportsOf(g)
    BY <1>2, <1>3
  <1>6. Running /\ {f} \cap reported # {} => DirOf[f] \in live
    OBVIOUS
  <1>7. {f} \in SUBSET Files
    OBVIOUS
  <1>8. UNCHANGED <<debouncer, batches, service>>
    BY <1>1
  <1> HIDE DEF reported
  <1> QED
    BY <1>1, <1>2, <1>4, <1>5, <1>6, <1>7, <1>8, ChangesKeep

\* A directory that goes or comes: the root reports it.
LEMMA DirectoryKeeps ==
    ASSUME WatchIInv, NEW d \in Dirs, RemoveDir(d) \/ MakeDir(d) PROVE WatchIInv'
  <1> DEFINE reported == {f \in Within(d) : d \in ReportsOf(f)}
  <1>1. /\ Spend("changes") /\ NoteChanges(Within(d), reported) /\ Deliver(Event(d, TRUE), Root)
        /\ UNCHANGED <<debouncer, batches, service>> /\ d \in Volatile
        /\ \/ exists' = exists \ {d} /\ live' = live \ {d}
           \/ exists' = exists \cup {d} /\ live' = live
    BY DEF RemoveDir, MakeDir
  <1>2. Event(d, TRUE) \in [path : Paths, topology : BOOLEAN] /\ Event(d, TRUE).path = d
    BY DEF Event, Paths
  <1>3. exists' \subseteq Dirs /\ live' \subseteq exists' /\ Root \in exists'
        /\ (Root \in live => Root \in live')
    BY <1>1, WatchAssumption DEF WatchIInv, WorldTypes, Standing
  <1>4. \A f \in Within(d) \cap reported : Event(d, TRUE).path \in ReportsOf(f)
    BY <1>2
  <1>5. Running /\ Within(d) \cap reported # {} => Root \in live
    BY DEF WatchIInv, Standing, Running
  <1>6. Within(d) \in SUBSET Files
    BY DEF Within
  <1>7. UNCHANGED <<debouncer, batches, service>>
    BY <1>1
  <1> HIDE DEF reported
  <1> QED
    BY <1>1, <1>2, <1>3, <1>4, <1>5, <1>6, <1>7, ChangesKeep

LEMMA CaptureKeeps ==
    ASSUME WatchIInv, AttemptCaptures PROVE WatchIInv'
  <1> USE DEF WatchIInv, queue, debouncer, service
  <1>1. UNCHANGED <<exists, live, changed, unheard, drift, raw, dropping, overflowed, deb, watched,
                    declared, pending, reason, armed, refresh, batches, svc, update, handling,
                    command, completion, stopRequested, left>> /\ sinceCapture' = {}
    BY DEF AttemptCaptures
  <1>2. WorldTypes' /\ DebouncerTypes' /\ ServiceTypes'
    BY <1>1 DEF WorldTypes, DebouncerTypes, ServiceTypes
  <1>3. Standing' /\ DeadlineTrue' /\ AskedOnce' /\ DriftNoted'
    BY <1>1 DEF Standing, DeadlineTrue, AskedOnce, Asked, DriftNoted
  <1>4. ChangeCarried'
    BY <1>1 DEF ChangeCarried, Running, Carried, ReportsOf
  <1> QED
    BY <1>2, <1>3, <1>4

\* What the attempt did not read differs from the payload it published.
LEMMA PublishKeeps ==
    ASSUME WatchIInv, NEW payload \in Payloads, Publish(payload) PROVE WatchIInv'
  <1> USE DEF WatchIInv, queue, debouncer, service
  <1>1. /\ UNCHANGED <<exists, live, sinceCapture, raw, dropping, overflowed, deb, watched,
                       declared, pending, reason, armed, refresh, batches, svc, handling,
                       command, completion, stopRequested>>
        /\ update' \in {update, payload} /\ drift' = sinceCapture \cap Declarable
        /\ changed' = changed \cap sinceCapture /\ unheard' = unheard \cap sinceCapture
        /\ Spend("publications")
    BY DEF Publish
  <1>2. left' \in [{"changes", "publications", "failures"} -> Nat]
    BY <1>1 DEF Spend, WorldTypes
  <1>3. WorldTypes'
    BY <1>1, <1>2 DEF WorldTypes
  <1>4. DebouncerTypes'
    BY <1>1 DEF DebouncerTypes
  <1>5. ServiceTypes'
    BY <1>1 DEF ServiceTypes
  <1>6. Standing' /\ DeadlineTrue' /\ AskedOnce' /\ DriftNoted'
    BY <1>1 DEF Standing, DeadlineTrue, AskedOnce, Asked, DriftNoted
  <1>7. ASSUME NEW f \in changed', Carried(f) PROVE Carried(f)'
    <2>1. f \in handling.checked => f \in handling'.checked /\ f \in drift'
      BY <1>1, InputsDeclarable
    <2> QED
      BY <1>1, <1>7, <2>1 DEF Carried, ReportsOf
  <1>8. ChangeCarried'
    BY <1>1, <1>7 DEF ChangeCarried, Running
  <1> QED
    BY <1>3, <1>4, <1>5, <1>6, <1>8

LEMMA FlagKeeps ==
    ASSUME WatchIInv, StoreOverflowFlag \/ RequestStop PROVE WatchIInv'
  <1> USE DEF WatchIInv, world, queue, debouncer, service
  <1>1. /\ UNCHANGED <<exists, live, changed, unheard, sinceCapture, drift, raw, deb, watched,
                       declared, pending, reason, armed, refresh, batches, svc, update, handling,
                       command, completion, left>>
        /\ \/ UNCHANGED <<dropping, overflowed>> /\ stopRequested' = TRUE
           \/ dropping' = FALSE /\ overflowed' = TRUE /\ stopRequested' = stopRequested
    BY DEF StoreOverflowFlag, RequestStop
  <1>2. WorldTypes' /\ DebouncerTypes'
    BY <1>1 DEF WorldTypes, DebouncerTypes
  <1>3. ServiceTypes'
    BY <1>1 DEF ServiceTypes
  <1>4. Standing' /\ DeadlineTrue' /\ AskedOnce' /\ DriftNoted'
    BY <1>1 DEF Standing, DeadlineTrue, AskedOnce, Asked, DriftNoted
  <1>5. ChangeCarried'
    BY <1>1 DEF ChangeCarried, Running, Carried, ReportsOf
  <1> QED
    BY <1>2, <1>3, <1>4, <1>5

-----------------------------------------------------------------------------
(* The service.                                                            *)

\* An observation leaves no change unreported.
LEMMA ObservedCarries ==
    ASSUME Observe PROVE ChangeCarried' /\ DriftNoted'
  BY DEF Observe, ChangeCarried, DriftNoted

LEMMA RegisterKeeps ==
    ASSUME WatchIInv, Register PROVE WatchIInv'
  <1> USE DEF WatchIInv, queue
  <1>1. /\ UNCHANGED <<exists, changed, unheard, sinceCapture, drift, raw, dropping, overflowed,
                       declared, pending, reason, armed, refresh, batches, update, handling,
                       command, completion, stopRequested, left>>
        /\ svc = "off" /\ deb = "off" /\ svc' = "registered" /\ deb' = "select"
        /\ watched' = Desired({}) /\ live' = Desired({})
    BY DEF Register, Standing
  <1>2. Desired({}) \subseteq exists /\ Root \in Desired({})
    BY WatchAssumption DEF Desired, Standing
  <1>3. WorldTypes'
    BY <1>1, <1>2 DEF WorldTypes
  <1>4. DebouncerTypes'
    BY <1>1, <1>2 DEF DebouncerTypes, WorldTypes
  <1>5. ServiceTypes'
    BY <1>1 DEF ServiceTypes
  <1>6. Standing' /\ DeadlineTrue' /\ DriftNoted'
    BY <1>1, <1>2 DEF Standing, DeadlineTrue, DriftNoted
  <1>7. AskedOnce'
    BY <1>1 DEF AskedOnce, Asked
  <1>8. ChangeCarried'
    BY <1>1 DEF ChangeCarried, Running
  <1> QED
    BY <1>3, <1>4, <1>5, <1>6, <1>7, <1>8

\* The steps of the service that observe, and those after which it is gone.
LEMMA ObserveKeeps ==
    ASSUME WatchIInv, Enable \/ BreakOff \/ TakeBatch \/ IntegrityTick PROVE WatchIInv'
  <1> USE DEF WatchIInv, world, queue, debouncer, service, WorldButChanged
  <1>1. UNCHANGED <<exists, live, sinceCapture, drift, raw, dropping, overflowed, deb, watched,
                    declared, pending, reason, armed, refresh, update, handling,
                    command, completion, stopRequested, left>>
    BY DEF Enable, BreakOff, TakeBatch, IntegrityTick
  <1>2. \/ Observe /\ changed' = {} /\ svc = "registered" /\ svc' = "select" /\ batches' = batches
        \/ Observe /\ changed' = {} /\ svc = "select" /\ svc' = "select"
           /\ (batches' = batches \/ (batches > 0 /\ batches' = batches - 1))
        \/ changed' = changed /\ svc = "select" /\ svc' = "stopped" /\ batches' = batches
    BY DEF Enable, BreakOff, TakeBatch, IntegrityTick, Observe, AtSelect
  <1>3. batches' \in 0..BatchCapacity
    BY <1>2, WatchAssumption DEF WorldTypes
  <1>4. WorldTypes'
    BY <1>1, <1>2, <1>3 DEF WorldTypes
  <1>5. DebouncerTypes'
    BY <1>1 DEF DebouncerTypes
  <1>6. ServiceTypes'
    BY <1>1, <1>2 DEF ServiceTypes
  <1>7. Standing' /\ DeadlineTrue' /\ DriftNoted'
    BY <1>1, <1>2 DEF Standing, DeadlineTrue, DriftNoted
  <1>8. AskedOnce'
    BY <1>1, <1>2 DEF AskedOnce, Asked
  <1>9. ChangeCarried'
    BY <1>2, ObservedCarries DEF ChangeCarried, Running
  <1> QED
    BY <1>4, <1>5, <1>6, <1>7, <1>8, <1>9

\* The publication to handle: what was not heard of its inputs differs from the
\* payload.
LEMMA TakeUpdateKeeps ==
    ASSUME WatchIInv, TakeUpdate PROVE WatchIInv'
  <1> USE DEF WatchIInv, queue, debouncer
  <1>1. /\ UNCHANGED <<exists, live, changed, sinceCapture, drift, raw, dropping, overflowed, deb,
                       watched, declared, pending, reason, armed, refresh, batches, completion,
                       stopRequested, left>>
        /\ svc = "select" /\ svc' = "replace" /\ handling' = update /\ update' = NoPayload
        /\ command' = (IF update.valid THEN update.inputs ELSE {})
        /\ unheard' = unheard \ update.checked
    BY DEF TakeUpdate, AtSelect
  <1>2. /\ command = NoCommand /\ completion = None /\ handling = NoPayload
        /\ ~(deb = "refresh" /\ refresh.event.path = None)
    BY <1>1 DEF AskedOnce
  <1>3. command' \in SUBSET Files /\ command' = Asked'
    BY <1>1, InputsDeclarable DEF Asked
  <1>4. WorldTypes' /\ DebouncerTypes'
    BY <1>1 DEF WorldTypes, DebouncerTypes
  <1>5. ServiceTypes'
    BY <1>1, <1>3 DEF ServiceTypes
  <1>6. Standing' /\ DeadlineTrue' /\ DriftNoted'
    BY <1>1 DEF Standing, DeadlineTrue, DriftNoted
  <1>7. AskedOnce'
    BY <1>1, <1>2, <1>3 DEF AskedOnce
  <1>8. ASSUME NEW f \in changed, f \notin unheard' PROVE Carried(f)'
    <2>1. CASE f \in unheard
      <3>1. f \in handling'.checked /\ f \in Declarable
        BY <1>1, <1>8, <2>1, InputsDeclarable
      <3>2. f \in drift'
        BY <1>1, <3>1 DEF DriftNoted
      <3> QED
        BY <3>1, <3>2 DEF Carried
    <2>2. CASE f \notin unheard
      <3>1. Carried(f)
        BY <1>1, <1>8, <2>2 DEF ChangeCarried, Running
      <3>2. f \notin handling.checked
        BY <1>2 DEF NoPayload
      <3> QED
        BY <1>1, <3>1, <3>2 DEF Carried, ReportsOf
    <2> QED
      BY <2>1, <2>2
  <1>9. ChangeCarried'
    BY <1>1, <1>8 DEF ChangeCarried
  <1> QED
    BY <1>4, <1>5, <1>6, <1>7, <1>9

LEMMA ReplacedKeeps ==
    ASSUME WatchIInv, Replaced PROVE WatchIInv'
  <1> USE DEF WatchIInv, queue, debouncer, WorldButChanged
  <1>1. /\ UNCHANGED <<exists, live, sinceCapture, drift, raw, dropping, overflowed, deb,
                       watched, declared, pending, reason, armed, refresh, batches, update, command,
                       stopRequested, left>>
        /\ svc = "replace" /\ completion # None /\ completion' = None
        /\ \/ svc' = "stopped" /\ handling' = NoPayload /\ UNCHANGED <<changed, unheard>>
           \/ svc' = "reobserve" /\ handling' = handling /\ UNCHANGED <<changed, unheard>>
           \/ svc' = "select" /\ handling' = NoPayload /\ Observe /\ changed' = {}
    BY DEF Replaced, Silent, Observe
  <1>2. /\ command = NoCommand /\ ~(deb = "refresh" /\ refresh.event.path = None)
    BY <1>1 DEF AskedOnce
  <1>3. WorldTypes'
    BY <1>1 DEF WorldTypes
  <1>4. DebouncerTypes'
    BY <1>1 DEF DebouncerTypes
  <1>5. ServiceTypes'
    BY <1>1 DEF ServiceTypes
  <1>6. Standing' /\ DeadlineTrue' /\ DriftNoted'
    BY <1>1 DEF Standing, DeadlineTrue, DriftNoted
  <1>7. AskedOnce'
    BY <1>1, <1>2 DEF AskedOnce
  <1>8. ChangeCarried'
    <2>1. CASE svc' = "reobserve"
      BY <1>1, <2>1 DEF ChangeCarried, Running, Carried, ReportsOf
    <2>2. CASE svc' # "reobserve"
      BY <1>1, <2>2 DEF ChangeCarried, Running
    <2> QED
      BY <2>1, <2>2
  <1> QED
    BY <1>3, <1>4, <1>5, <1>6, <1>7, <1>8

\* The comparison with the payload is what stood for a change of its inputs.
LEMMA ReobserveKeeps ==
    ASSUME WatchIInv, Reobserve PROVE WatchIInv'
  <1> USE DEF WatchIInv, queue, debouncer, WorldButChanged
  <1>1. /\ UNCHANGED <<exists, live, sinceCapture, drift, raw, dropping, overflowed, deb,
                       watched, declared, pending, reason, armed, refresh, batches, update, command,
                       completion, stopRequested, left>>
        /\ svc = "reobserve" /\ svc' = "select" /\ handling' = NoPayload
        /\ \/ handling.checked \cap drift = {} /\ UNCHANGED <<changed, unheard>>
           \/ Observe /\ changed' = {}
    BY DEF Reobserve, Silent, Observe
  <1>2. WorldTypes'
    BY <1>1 DEF WorldTypes
  <1>3. DebouncerTypes' /\ ServiceTypes'
    BY <1>1 DEF DebouncerTypes, ServiceTypes
  <1>4. Standing' /\ DeadlineTrue' /\ DriftNoted'
    BY <1>1 DEF Standing, DeadlineTrue, DriftNoted
  <1>5. AskedOnce'
    BY <1>1 DEF AskedOnce
  <1>6. ChangeCarried'
    <2>1. CASE changed' = {}
      BY <2>1 DEF ChangeCarried
    <2>2. CASE handling.checked \cap drift = {} /\ UNCHANGED <<changed, unheard>>
      BY <1>1, <2>2 DEF ChangeCarried, Running, Carried, ReportsOf
    <2> QED
      BY <1>1, <2>1, <2>2
  <1> QED
    BY <1>2, <1>3, <1>4, <1>5, <1>6

-----------------------------------------------------------------------------
(* The debouncer.                                                          *)

\* What becomes of the debouncer's part when it returns to its select! having
\* left no deadline: it had none, nothing has overflowed, and what stood for a
\* change but the event it handled stands for it still.
LEMMA QuietReturn ==
    ASSUME WatchIInv, NEW p, Running', ~armed',
           \A f \in changed \ unheard' : p \notin ReportsOf(f) \/ Carried(f)', unheard \subseteq unheard',
           armed => armed', overflowed => armed',
           UNCHANGED <<changed, drift, dropping, batches, svc, handling>>,
           deb \in {"select", "refresh"},
           deb = "refresh" => refresh.event.path = p,
           \A n \in DOMAIN raw : raw[n].path = p \/ \E m \in DOMAIN raw' : raw'[m].path = raw[n].path
    PROVE  ChangeCarried'
  <1> SUFFICES ASSUME NEW f \in changed', f \notin unheard', p \notin ReportsOf(f)
               PROVE  Carried(f)'
    BY DEF ChangeCarried
  <1>1. f \in Files /\ Running /\ Carried(f)
    BY DEF WatchIInv, WorldTypes, ChangeCarried, Running
  <1>2. p \notin ReportsOf(f)
    OBVIOUS
  <1>3. ~armed /\ ~overflowed /\ deb # "flush" /\ svc # "registered"
    BY <1>1 DEF Running
  <1>4. ~(deb = "refresh" /\ refresh.event.path \in ReportsOf(f))
    BY <1>2
  <1>5. CASE dropping \/ batches > 0 \/ (f \in handling.checked /\ f \in drift)
    BY <1>5 DEF Carried
  <1>6. CASE \E n \in DOMAIN raw : raw[n].path \in ReportsOf(f)
    BY <1>2, <1>6 DEF Carried, ReportsOf
  <1> QED
    BY <1>1, <1>3, <1>4, <1>5, <1>6 DEF Carried

\* A deadline, a batch to send or an overflow stands for every change.
LEMMA DeadlineCarries ==
    ASSUME armed' \/ deb' = "flush" PROVE ChangeCarried'
  BY DEF ChangeCarried, Carried

\* A population to register is made of directories and contains the root.
LEMMA DesiredType ==
    ASSUME WatchIInv, NEW inputs \in SUBSET Files
    PROVE  Desired(inputs) \in SUBSET Dirs /\ Root \in Desired(inputs)
  <1>1. exists \subseteq Dirs /\ Root \in exists /\ Class[Root] = "plain" /\ Root \in Dirs
    BY WatchAssumption DEF WatchIInv, WorldTypes, Standing
  <1>2. \A f \in inputs : Home(f) \in Dirs
    BY <1>1 DEF Home
  <1> QED
    BY <1>1, <1>2 DEF Desired

LEMMA Tailed ==
    ASSUME NEW E, NEW s \in Seq(E), s # <<>>
    PROVE  /\ Head(s) \in E /\ Tail(s) \in Seq(E) /\ Len(Tail(s)) <= Len(s)
           /\ Head(s) = s[1]
           /\ \A n \in DOMAIN s : n = 1 \/ (n - 1 \in DOMAIN Tail(s) /\ Tail(s)[n - 1] = s[n])
  <1>1. DOMAIN s = 1..Len(s) /\ Len(s) \in Nat /\ Len(s) # 0
    OBVIOUS
  <1>2. Tail(s) \in Seq(E) /\ Len(Tail(s)) = Len(s) - 1 /\ DOMAIN Tail(s) = 1..(Len(s) - 1)
    BY <1>1
  <1>3. \A n \in 1..(Len(s) - 1) : Tail(s)[n] = s[n + 1]
    BY <1>1
  <1> QED
    BY <1>1, <1>2, <1>3

\* An event that leaves the population alone.
LEMMA EventKeeps ==
    ASSUME WatchIInv, TakeEvent, ~Head(raw).topology PROVE WatchIInv'
  <1> USE DEF WatchIInv, world, service
  <1> DEFINE p == Head(raw).path
             c == Classify(p, declared)
  <1>1. /\ UNCHANGED <<exists, live, changed, sinceCapture, drift, dropping, watched,
                       declared, refresh, batches, svc, update, handling, command, completion,
                       stopRequested, left>>
        /\ deb = "select" /\ raw # <<>> /\ raw' = Tail(raw)
        /\ NotePath(p, c, reason)
    BY DEF TakeEvent, WorldButUnheard
  <1>2. /\ p \in Paths /\ raw' \in Seq([path : Paths, topology : BOOLEAN]) /\ Len(raw') <= RawCapacity
        /\ \A n \in DOMAIN raw :
              raw[n].path = p \/ \E m \in DOMAIN raw' : raw'[m].path = raw[n].path
    <2>1. raw \in Seq([path : Paths, topology : BOOLEAN]) /\ Len(raw) <= RawCapacity
      BY DEF WorldTypes
    <2>2. /\ Head(raw) \in [path : Paths, topology : BOOLEAN]
          /\ Tail(raw) \in Seq([path : Paths, topology : BOOLEAN]) /\ Len(Tail(raw)) <= Len(raw)
          /\ Head(raw) = raw[1]
          /\ \A n \in DOMAIN raw :
                n = 1 \/ (n - 1 \in DOMAIN Tail(raw) /\ Tail(raw)[n - 1] = raw[n])
      BY <1>1, <2>1, Tailed, Zenon
    <2>3. RawCapacity \in Nat /\ Len(raw) \in Nat /\ Len(Tail(raw)) \in Nat
      BY <2>1, <2>2, WatchAssumption
    <2>4. p \in Paths /\ raw' \in Seq([path : Paths, topology : BOOLEAN]) /\ Len(raw') <= RawCapacity
      BY <1>1, <2>1, <2>2, <2>3
    <2>5. ASSUME NEW n \in DOMAIN raw
          PROVE  raw[n].path = p \/ \E m \in DOMAIN raw' : raw'[m].path = raw[n].path
      <3>1. CASE n = 1
        BY <2>2, <3>1
      <3>2. CASE n # 1
        <4>1. n - 1 \in DOMAIN raw' /\ raw'[n - 1] = raw[n]
          BY <1>1, <2>2, <3>2
        <4> QED
          BY <4>1
      <3> QED
        BY <3>1, <3>2
    <2> QED
      BY <2>4, <2>5
  <1>3. c \in {None, "GitState", "Filesystem"}
    BY <1>2, ClassifyType
  <1>4. /\ overflowed \in BOOLEAN /\ reason \in Reasons
        /\ (armed => pending # {} \/ reason = "QueueOverflow")
    BY <1>1 DEF WorldTypes, DebouncerTypes, DeadlineTrue, Reasons
  <1> HIDE DEF p, c
  <1>5. /\ deb' = "select" /\ overflowed' = FALSE
        /\ pending' \subseteq Paths /\ IsFiniteSet(pending') /\ Cardinality(pending') <= MaxBatchPaths
        /\ reason' \in Reasons /\ armed' \in BOOLEAN
        /\ armed' => pending' # {} \/ reason' = "QueueOverflow"
        /\ armed \/ overflowed \/ c # None \/ reason = "QueueOverflow" => armed'
        /\ unheard' = unheard \cup Ignored(p, c)
    BY <1>1, <1>2, <1>3, <1>4, PathNoted
  <1>6. WorldTypes'
    BY <1>1, <1>2, <1>5 DEF WorldTypes
  <1>7. DebouncerTypes'
    BY <1>1, <1>5 DEF DebouncerTypes, Reasons
  <1>8. ServiceTypes' /\ DriftNoted'
    BY <1>1 DEF ServiceTypes, DriftNoted
  <1>9. Standing' /\ DeadlineTrue'
    BY <1>1, <1>5 DEF Standing, DeadlineTrue
  <1>10. AskedOnce'
    BY <1>1, <1>5 DEF AskedOnce, Asked
  <1>11. ChangeCarried'
    <2>1. CASE armed' \/ ~Running'
      BY <2>1, DeadlineCarries DEF ChangeCarried
    <2>2. CASE ~armed' /\ Running'
      <3>1. c = None /\ (armed => armed') /\ (overflowed => armed')
        BY <1>5, <2>2
      <3>2. Classify(p, declared) = None /\ unheard' = unheard \cup Ignored(p, None)
        BY <1>5, <3>1 DEF c
      <3>3. \A f \in changed \ unheard' : p \notin ReportsOf(f) \/ Carried(f)'
        BY <3>2, IgnoredIsUnheard
      <3> QED
        BY <1>1, <1>2, <1>5, <2>2, <3>1, <3>3, QuietReturn
    <2> QED
      BY <2>1, <2>2
  <1> QED
    BY <1>6, <1>7, <1>8, <1>9, <1>10, <1>11

\* A refresh begins: its event or command has left the queue, not the system.
LEMMA RefreshKeeps ==
    ASSUME WatchIInv, (TakeEvent /\ Head(raw).topology) \/ TakeCommand PROVE WatchIInv'
  <1> USE DEF WatchIInv, world, service, queue
  <1>1. /\ UNCHANGED <<exists, live, changed, unheard, sinceCapture, drift, dropping, overflowed,
                       watched, declared, pending, reason, armed, batches, svc, update, handling,
                       completion, stopRequested, left>>
        /\ deb = "select" /\ deb' = "refresh"
    BY DEF TakeEvent, TakeCommand, WorldButUnheard
  <1>2. \/ /\ raw # <<>> /\ raw' = Tail(raw) /\ command' = command
           /\ refresh' = [desired |-> Desired(declared), inputs |-> declared, event |-> Head(raw),
                          before |-> watched]
        \/ /\ command # NoCommand /\ command' = NoCommand /\ raw' = raw
           /\ refresh' = [desired |-> Desired(command), inputs |-> command,
                          event |-> Event(None, FALSE), before |-> watched]
    BY DEF TakeEvent, TakeCommand, BeginRefresh
  <1>3. DebouncerTypes /\ declared \in SUBSET Files /\ watched \in SUBSET Dirs
        /\ (command # NoCommand => command \in SUBSET Files)
    BY DEF DebouncerTypes, ServiceTypes
  <1>4. CASE /\ raw # <<>> /\ raw' = Tail(raw) /\ command' = command
             /\ refresh' = [desired |-> Desired(declared), inputs |-> declared, event |-> Head(raw),
                            before |-> watched]
    <2> DEFINE E == [path : Paths, topology : BOOLEAN]
    <2>1. raw \in Seq(E) /\ Len(raw) <= RawCapacity
      BY DEF WorldTypes
    <2>2. /\ Head(raw) \in E /\ Tail(raw) \in Seq(E) /\ Len(Tail(raw)) <= Len(raw)
          /\ Head(raw) = raw[1]
          /\ \A n \in DOMAIN raw :
                n = 1 \/ (n - 1 \in DOMAIN Tail(raw) /\ Tail(raw)[n - 1] = raw[n])
      <3> HIDE DEF E
      <3> QED
        BY <1>4, <2>1, Tailed, Zenon
    <2>3. RawCapacity \in Nat /\ Len(raw) \in Nat /\ Len(Tail(raw)) \in Nat
      BY <2>1, <2>2, WatchAssumption
    <2>4. Head(raw).path \in Paths /\ Head(raw).path # None
      BY <2>2, WatchAssumption DEF None
    <2>5. refresh' \in Refreshes
      <3>1. Head(raw) \in [path : Paths \cup {None}, topology : BOOLEAN]
        BY <2>2
      <3>2. Desired(declared) \in SUBSET Dirs
        BY <1>3, DesiredType
      <3> QED
        BY <1>3, <1>4, <3>1, <3>2 DEF Refreshes
    <2>6. WorldTypes'
      BY <1>1, <1>4, <2>2, <2>3, <2>1 DEF WorldTypes
    <2>7. DebouncerTypes'
      BY <1>1, <1>3, <2>5 DEF DebouncerTypes
    <2>8. ServiceTypes' /\ DriftNoted' /\ DeadlineTrue'
      BY <1>1, <1>4 DEF ServiceTypes, DriftNoted, DeadlineTrue
    <2>9. Standing'
      BY <1>1, <1>3, <1>4, DesiredType DEF Standing
    <2>10. AskedOnce'
      BY <1>1, <1>4, <2>4 DEF AskedOnce, Asked
    <2>11. ASSUME NEW f \in Files, Carried(f) PROVE Carried(f)'
      <3>1. CASE \E n \in DOMAIN raw : raw[n].path \in ReportsOf(f)
        <4>1. PICK n \in DOMAIN raw : raw[n].path \in ReportsOf(f)
          BY <3>1
        <4>2. CASE n = 1
          BY <1>1, <1>4, <2>2, <4>1, <4>2 DEF Carried, ReportsOf
        <4>3. CASE n # 1
          BY <1>1, <1>4, <2>2, <4>1, <4>3 DEF Carried, ReportsOf
        <4> QED
          BY <4>2, <4>3
      <3>2. CASE ~\E n \in DOMAIN raw : raw[n].path \in ReportsOf(f)
        BY <1>1, <2>11, <3>2 DEF Carried
      <3> QED
        BY <3>1, <3>2
    <2>12. ChangeCarried'
      BY <1>1, <2>11 DEF ChangeCarried, Running, WorldTypes
    <2> QED
      BY <2>6, <2>7, <2>8, <2>9, <2>10, <2>12
  <1>5. CASE /\ command # NoCommand /\ command' = NoCommand /\ raw' = raw
             /\ refresh' = [desired |-> Desired(command), inputs |-> command,
                            event |-> Event(None, FALSE), before |-> watched]
    <2>1. refresh' \in Refreshes
      <3>1. Event(None, FALSE) \in [path : Paths \cup {None}, topology : BOOLEAN]
        BY DEF Event
      <3>2. Desired(command) \in SUBSET Dirs
        BY <1>3, <1>5, DesiredType
      <3> QED
        BY <1>3, <1>5, <3>1, <3>2 DEF Refreshes
    <2>2. WorldTypes'
      BY <1>1, <1>5 DEF WorldTypes
    <2>3. DebouncerTypes'
      BY <1>1, <1>3, <2>1 DEF DebouncerTypes
    <2>4. ServiceTypes' /\ DriftNoted' /\ DeadlineTrue'
      BY <1>1, <1>5 DEF ServiceTypes, DriftNoted, DeadlineTrue
    <2>5. Standing'
      BY <1>1, <1>3, <1>5, DesiredType DEF Standing
    <2>6. AskedOnce'
      BY <1>1, <1>5 DEF AskedOnce, Asked
    <2>7. ASSUME NEW f \in Files, Carried(f) PROVE Carried(f)'
      BY <1>1, <1>5, <2>7 DEF Carried, ReportsOf
    <2>8. ChangeCarried'
      BY <1>1, <2>7 DEF ChangeCarried, Running, WorldTypes
    <2> QED
      BY <2>2, <2>3, <2>4, <2>5, <2>6, <2>8
  <1> QED
    BY <1>2, <1>4, <1>5

\* A refresh ends, with the population it reached.
LEMMA RefreshEnds ==
    ASSUME WatchIInv, deb = "refresh", NEW ok \in BOOLEAN, EndRefresh(ok),
           watched' \subseteq Dirs, live' \subseteq live, Root \in live => Root \in live',
           UNCHANGED <<exists, changed, sinceCapture, drift, raw, dropping, batches, svc,
                       update, handling, command, stopRequested>>,
           left' \in [{"changes", "publications", "failures"} -> Nat]
    PROVE  WatchIInv'
  <1> USE DEF WatchIInv
  <1>1. Continue(ok) /\ refresh' = NoRefresh
    BY DEF EndRefresh
  <1>2. refresh' \in Refreshes
    BY <1>1 DEF Refreshes, NoRefresh, Event
  <1>3. /\ overflowed \in BOOLEAN /\ reason \in Reasons /\ armed \in BOOLEAN
        /\ refresh \in Refreshes /\ refresh.inputs \in SUBSET Files
        /\ refresh.event.path \in Paths \cup {None}
        /\ (armed => pending # {} \/ reason = "QueueOverflow")
    <2>1. refresh \in Refreshes
      BY DEF DebouncerTypes
    <2>2. refresh.inputs \in SUBSET Files /\ refresh.event.path \in Paths \cup {None}
      BY <2>1 DEF Refreshes
    <2> QED
      BY <2>1, <2>2 DEF WorldTypes, DebouncerTypes, DeadlineTrue, Reasons
  <1>4. ASSUME overflowed' = FALSE PROVE WorldTypes'
    BY <1>4 DEF WorldTypes
  <1>5. DriftNoted'
    BY DEF DriftNoted
  <1>6. ASSUME deb' = "select" PROVE Standing'
    BY <1>6 DEF Standing
  <1>7. CASE refresh.event.path = None
    <2>1. /\ declared' = IF ok THEN refresh.inputs ELSE declared
          /\ completion' = IF ok THEN "ok" ELSE "error"
          /\ deb' = "select" /\ overflowed' = FALSE /\ pending' = pending
          /\ reason' = (IF overflowed THEN "QueueOverflow" ELSE reason)
          /\ armed' = (armed \/ overflowed) /\ unheard' = unheard
      BY <1>1, <1>7, Zenon DEF Continue, BackToSelect
    <2>2. svc = "replace" /\ refresh.inputs = Asked /\ command = NoCommand
      BY <1>7 DEF AskedOnce
    <2>3. DebouncerTypes'
      <3>1. declared' \subseteq Files
        BY <1>3, <2>1 DEF DebouncerTypes
      <3>2. reason' \in Reasons /\ armed' \in BOOLEAN
        BY <1>3, <2>1 DEF Reasons
      <3> QED
        BY <1>2, <2>1, <3>1, <3>2 DEF DebouncerTypes, Reasons
    <2>4. ServiceTypes'
      BY <2>1 DEF ServiceTypes
    <2>5. DeadlineTrue'
      BY <1>3, <2>1 DEF DeadlineTrue
    <2>6. AskedOnce'
      BY <2>1, <2>2 DEF AskedOnce, Asked
    <2>7. ChangeCarried'
      <3>1. CASE armed'
        BY <3>1, DeadlineCarries
      <3>2. CASE ~armed'
        <4> SUFFICES ASSUME NEW f \in changed, f \notin unheard
                     PROVE  Carried(f)'
          BY <2>1 DEF ChangeCarried
        <4>1. f \in Files /\ ~armed /\ ~overflowed
          BY <1>3, <2>1, <3>2 DEF WorldTypes
        <4>2. Carried(f)
          BY <2>2 DEF ChangeCarried, Running
        <4>3. refresh.event.path \notin ReportsOf(f)
          BY <1>7, <4>1, WatchAssumption DEF ReportsOf, None, Paths
        <4> QED
          BY <2>1, <2>2, <4>1, <4>2, <4>3 DEF Carried, ReportsOf
      <3> QED
        BY <3>1, <3>2
    <2> QED
      BY <1>4, <1>5, <1>6, <2>1, <2>3, <2>4, <2>5, <2>6, <2>7
  <1>8. CASE refresh.event.path # None
    <2> DEFINE p == refresh.event.path
               c == IF p \in refresh.before \cup watched' /\ Classify(p, declared) = None
                    THEN "Filesystem" ELSE Classify(p, declared)
               sofar == IF ok THEN reason ELSE "QueueOverflow"
    <2>1. NotePath(p, c, sofar) /\ UNCHANGED <<declared, completion>>
      BY <1>1, <1>8 DEF Continue
    <2>2. /\ p \in Paths /\ c \in {None, "GitState", "Filesystem"}
          /\ (c = None => Classify(p, declared) = None)
          /\ sofar \in Reasons /\ (armed => pending # {} \/ sofar = "QueueOverflow")
      BY <1>3, <1>8, ClassifyType DEF Reasons
    <2> HIDE DEF c, sofar
    <2>3. /\ deb' = "select" /\ overflowed' = FALSE
          /\ pending' \subseteq Paths /\ IsFiniteSet(pending') /\ Cardinality(pending') <= MaxBatchPaths
          /\ reason' \in Reasons /\ armed' \in BOOLEAN
          /\ armed' => pending' # {} \/ reason' = "QueueOverflow"
          /\ armed \/ overflowed \/ c # None \/ sofar = "QueueOverflow" => armed'
          /\ unheard' = unheard \cup Ignored(p, c)
      BY <1>3, <2>1, <2>2, PathNoted
    <2>4. DebouncerTypes'
      BY <1>2, <2>1, <2>3 DEF DebouncerTypes, Reasons
    <2>5. ServiceTypes'
      BY <2>1 DEF ServiceTypes
    <2>6. DeadlineTrue'
      BY <2>3 DEF DeadlineTrue
    <2>7. AskedOnce'
      BY <2>1, <2>3 DEF AskedOnce, Asked
    <2>8. ChangeCarried'
      <3>1. CASE armed' \/ ~Running'
        BY <3>1, DeadlineCarries DEF ChangeCarried
      <3>2. CASE ~armed' /\ Running'
        <4>1. c = None /\ (armed => armed') /\ (overflowed => armed')
          BY <2>3, <3>2
        <4>2. \A f \in changed \ unheard' : p \notin ReportsOf(f) \/ Carried(f)'
          BY <2>2, <2>3, <4>1, IgnoredIsUnheard
        <4>3. \A n \in DOMAIN raw :
                 raw[n].path = p \/ \E m \in DOMAIN raw' : raw'[m].path = raw[n].path
          OBVIOUS
        <4> HIDE DEF p
        <4>4. deb = "refresh" => refresh.event.path = p
          BY DEF p
        <4> QED
          BY <2>1, <2>3, <3>2, <4>1, <4>2, <4>3, <4>4, QuietReturn
      <3> QED
        BY <3>1, <3>2
    <2> QED
      BY <1>4, <1>5, <1>6, <2>3, <2>4, <2>5, <2>6, <2>7, <2>8
  <1> QED
    BY <1>7, <1>8

LEMMA RefreshEndsKeep ==
    ASSUME WatchIInv, RefuseInputs \/ RemoveRest \/ (\E d \in Dirs : AddFails(d)) PROVE WatchIInv'
  <1> USE DEF WatchIInv, WorldButUnheard
  <1>1. left \in [{"changes", "publications", "failures"} -> Nat] /\ watched \subseteq Dirs
    BY DEF WorldTypes, DebouncerTypes
  <1>2. CASE RefuseInputs
    BY <1>1, <1>2, RefreshEnds DEF RefuseInputs
  <1>3. ASSUME NEW d \in Dirs, AddFails(d) PROVE WatchIInv'
    <2>1. left' \in [{"changes", "publications", "failures"} -> Nat]
      BY <1>1, <1>3 DEF AddFails, Spend
    <2> QED
      BY <1>1, <1>3, <2>1, RefreshEnds DEF AddFails
  <1>4. CASE RemoveRest
    <2>1. refresh.desired \subseteq Dirs
      BY DEF DebouncerTypes, Refreshes
    <2>2. /\ deb = "refresh" /\ EndRefresh(TRUE) /\ watched' = refresh.desired
          /\ live' = live \cap refresh.desired
          /\ UNCHANGED <<exists, changed, sinceCapture, drift, raw, dropping, batches, svc,
                         update, handling, command, stopRequested, left>>
      BY <1>4 DEF RemoveRest
    <2>3. watched' \subseteq Dirs /\ live' \subseteq live /\ (Root \in live => Root \in live')
      BY <2>1, <2>2 DEF Standing
    <2> QED
      BY <1>1, <2>2, <2>3, RefreshEnds
  <1> QED
    BY <1>2, <1>3, <1>4

LEMMA AddKeeps ==
    ASSUME WatchIInv, NEW d \in Dirs, AddDirectory(d) PROVE WatchIInv'
  <1> USE DEF WatchIInv, queue, service
  <1>1. /\ UNCHANGED <<exists, changed, unheard, sinceCapture, drift, raw, dropping, overflowed, deb,
                       declared, pending, reason, armed, refresh, batches, svc, update, handling,
                       command, completion, stopRequested, left>>
        /\ d \in exists /\ watched' = watched \cup {d} /\ live' = live \cup {d} /\ deb = "refresh"
    BY DEF AddDirectory
  <1>2. WorldTypes' /\ DebouncerTypes'
    BY <1>1 DEF WorldTypes, DebouncerTypes
  <1>3. ServiceTypes' /\ DriftNoted' /\ DeadlineTrue' /\ AskedOnce'
    BY <1>1 DEF ServiceTypes, DriftNoted, DeadlineTrue, AskedOnce, Asked
  <1>4. Standing'
    BY <1>1 DEF Standing
  <1>5. ChangeCarried'
    BY <1>1 DEF ChangeCarried, Running, Carried, ReportsOf
  <1> QED
    BY <1>2, <1>3, <1>4, <1>5

\* The deadline passes: there is a batch to send.
LEMMA FireKeeps ==
    ASSUME WatchIInv, Fire PROVE WatchIInv'
  <1> USE DEF WatchIInv, world, service
  <1>1. pending # {} \/ reason = "QueueOverflow"
    BY DEF Fire, DeadlineTrue
  <1>2. /\ UNCHANGED <<exists, live, changed, unheard, sinceCapture, drift, raw, dropping, overflowed,
                       watched, declared, reason, armed, refresh, batches, svc, update, handling,
                       command, completion, stopRequested, left>>
        /\ deb = "select" /\ deb' = "flush" /\ pending' = {}
    BY <1>1 DEF Fire
  <1>3. IsFiniteSet({}) /\ Cardinality({}) <= MaxBatchPaths
    BY FS_EmptySet, WatchAssumption
  <1>4. WorldTypes' /\ ServiceTypes'
    BY <1>2 DEF WorldTypes, ServiceTypes
  <1>5. DebouncerTypes'
    BY <1>2, <1>3 DEF DebouncerTypes
  <1>6. Standing' /\ DriftNoted' /\ DeadlineTrue' /\ AskedOnce'
    BY <1>2 DEF Standing, DriftNoted, DeadlineTrue, AskedOnce, Asked
  <1>7. ChangeCarried'
    BY <1>2, DeadlineCarries
  <1> QED
    BY <1>4, <1>5, <1>6, <1>7

LEMMA SendKeeps ==
    ASSUME WatchIInv, SendBatch PROVE WatchIInv'
  <1> USE DEF WatchIInv, world, service
  <1>1. /\ UNCHANGED <<exists, live, changed, unheard, sinceCapture, drift, raw, dropping, watched,
                       declared, pending, refresh, svc, update, handling, command, completion,
                       stopRequested, left>>
        /\ deb = "flush" /\ deb' = "select" /\ batches < BatchCapacity /\ batches' = batches + 1
        /\ overflowed' = FALSE /\ armed' = overflowed
        /\ reason' = (IF overflowed THEN "QueueOverflow" ELSE "Filesystem")
    BY DEF SendBatch, BackToSelect, WorldTypes
  <1>2. batches' \in 0..BatchCapacity /\ batches' > 0
    BY <1>1, WatchAssumption DEF WorldTypes
  <1>3. WorldTypes'
    BY <1>1, <1>2 DEF WorldTypes
  <1>4. ServiceTypes' /\ DriftNoted'
    BY <1>1 DEF ServiceTypes, DriftNoted
  <1>5. DebouncerTypes'
    BY <1>1 DEF DebouncerTypes, WorldTypes
  <1>6. Standing' /\ DeadlineTrue' /\ AskedOnce'
    BY <1>1 DEF Standing, DeadlineTrue, AskedOnce, Asked
  <1>7. ChangeCarried'
    BY <1>2 DEF ChangeCarried, Carried
  <1> QED
    BY <1>3, <1>4, <1>5, <1>6, <1>7

LEMMA CloseKeeps ==
    ASSUME WatchIInv, CloseDebouncer PROVE WatchIInv'
  <1> USE DEF WatchIInv, service
  <1>1. /\ UNCHANGED <<exists, changed, unheard, sinceCapture, drift, dropping, overflowed, declared,
                       reason, refresh, batches, svc, update, handling, command, completion,
                       stopRequested, left>>
        /\ svc = "stopped" /\ deb' = "closed" /\ live' = {} /\ watched' = {} /\ raw' = <<>>
        /\ pending' = {} /\ armed' = FALSE
    BY DEF CloseDebouncer
  <1>2. IsFiniteSet({}) /\ Cardinality({}) <= MaxBatchPaths /\ RawCapacity \in Nat
    BY FS_EmptySet, WatchAssumption
  <1>3. raw' \in Seq([path : Paths, topology : BOOLEAN]) /\ Len(raw') <= RawCapacity
    BY <1>1, <1>2
  <1>4. WorldTypes'
    BY <1>1, <1>3 DEF WorldTypes
  <1>5. DebouncerTypes'
    BY <1>1, <1>2 DEF DebouncerTypes
  <1>6. ServiceTypes' /\ Standing' /\ DriftNoted' /\ DeadlineTrue' /\ AskedOnce'
    BY <1>1 DEF ServiceTypes, Standing, DriftNoted, DeadlineTrue, AskedOnce, Asked
  <1>7. ChangeCarried'
    BY <1>1 DEF ChangeCarried, Running
  <1> QED
    BY <1>4, <1>5, <1>6, <1>7

LEMMA StutterKeeps ==
    ASSUME WatchIInv, UNCHANGED vars PROVE WatchIInv'
  <1> USE DEF WatchIInv, vars, world, queue, debouncer, service
  <1>1. WorldTypes' /\ DebouncerTypes' /\ ServiceTypes'
    BY DEF WorldTypes, DebouncerTypes, ServiceTypes
  <1>2. Standing' /\ DriftNoted' /\ DeadlineTrue' /\ AskedOnce'
    BY DEF Standing, DriftNoted, DeadlineTrue, AskedOnce, Asked
  <1>3. ChangeCarried'
    BY DEF ChangeCarried, Running, Carried, ReportsOf
  <1> QED
    BY <1>1, <1>2, <1>3

LEMMA StepKeeps == WatchIInv /\ [Next]_vars => WatchIInv'
  <1> SUFFICES ASSUME WatchIInv, [Next]_vars PROVE WatchIInv'
    OBVIOUS
  <1>1. CASE World
    BY <1>1, ChangeKeeps, DirectoryKeeps, CaptureKeeps, PublishKeeps, FlagKeeps DEF World
  <1>2. CASE StoreOverflowFlag
    BY <1>2, FlagKeeps
  <1>3. CASE Debouncer
    <2>1. CASE TakeEvent
      BY <2>1, EventKeeps, RefreshKeeps
    <2>2. CASE ~TakeEvent
      BY <1>3, <2>2, RefreshKeeps, FireKeeps, SendKeeps, CloseKeeps, AddKeeps, RefreshEndsKeep
         DEF Debouncer
    <2> QED
      BY <2>1, <2>2
  <1>4. CASE Service \/ IntegrityTick
    BY <1>4, RegisterKeeps, ObserveKeeps, TakeUpdateKeeps, ReplacedKeeps, ReobserveKeeps DEF Service
  <1>5. CASE UNCHANGED vars
    BY <1>5, StutterKeeps
  <1> QED
    BY <1>1, <1>2, <1>3, <1>4, <1>5 DEF Next

-----------------------------------------------------------------------------
(* The theorems.                                                           *)

\* The inductive invariant holds in every reachable state of the watcher.
THEOREM WatchInductive == Spec => []WatchIInv
  <1>1. Init => WatchIInv
    BY InitWatch
  <1>2. WatchIInv /\ [Next]_vars => WatchIInv'
    BY StepKeeps
  <1> QED
    BY <1>1, <1>2, PTL DEF Spec

\* No change that was heard falls between the callback, the debouncer and the
\* service: with any files, directories and payloads, of Complete coverage or
\* not, any capacities, and the queue, the flag and the batch in any order.
\* What nobody heard of, what was not relevant when it was read, and an input
\* without Complete coverage changed before it was registered are excepted.
THEOREM NoChangeFallsBetween == Spec => []WatchInv
  <1>1. WatchIInv => WatchInv
    <2> SUFFICES ASSUME WatchIInv PROVE WatchInv
      OBVIOUS
    <2>1. TypeOK
      BY DEF WatchIInv, WorldTypes, DebouncerTypes, ServiceTypes, TypeOK
    <2> QED
      BY <2>1 DEF WatchIInv, WatchInv
  <1> QED
    BY <1>1, WatchInductive, PTL

\* A directory leaves the population only through a refresh that did not want
\* it and has registered all it wanted, whichever of its registrations failed.
THEOREM PopulationIsKept == Spec => PopulationKept
  <1> DEFINE Kept == svc # "stopped" => \A d \in watched \ watched' :
                        d \notin refresh.desired /\ refresh.desired \subseteq watched
  <1>1. WatchIInv /\ [Next]_vars => Kept
    <2> SUFFICES ASSUME WatchIInv, [Next]_vars, svc # "stopped", NEW d \in watched \ watched'
                 PROVE  d \notin refresh.desired /\ refresh.desired \subseteq watched
      OBVIOUS
    <2>1. CASE RemoveRest
      BY <2>1 DEF RemoveRest
    <2>2. CASE ~RemoveRest
      <3>1. watched' = watched \/ watched \subseteq watched'
        <4>1. CASE World \/ StoreOverflowFlag \/ Service \/ IntegrityTick \/ UNCHANGED vars
          BY <4>1 DEF World, Change, RemoveDir, MakeDir, AttemptCaptures, Publish, RequestStop,
             StoreOverflowFlag, Service, Register, Enable, BreakOff, TakeUpdate, Replaced, Reobserve,
             TakeBatch, IntegrityTick, debouncer, vars, WatchIInv, Standing
        <4>2. CASE Debouncer
          BY <2>2, <4>2 DEF Debouncer, TakeEvent, TakeCommand, Fire, SendBatch, CloseDebouncer,
             AddDirectory, AddFails, RefuseInputs
        <4> QED
          BY <4>1, <4>2 DEF Next
      <3> QED
        BY <3>1
    <2> QED
      BY <2>1, <2>2
  <1>2. Spec => [][Kept]_vars
    <2>1. WatchIInv /\ [Next]_vars => [Kept]_vars
      BY <1>1
    <2> HIDE DEF Kept
    <2> QED
      BY <2>1, WatchInductive, PTL DEF Spec
  <1> QED
    BY <1>2, PTL DEF PopulationKept
=============================================================================
