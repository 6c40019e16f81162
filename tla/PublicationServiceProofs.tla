---------------------- MODULE PublicationServiceProofs ----------------------
(***************************************************************************)
(* Machine-checked proofs of what the publication store promises its       *)
(* readers, and of what it still promises after one fault of the medium,   *)
(* for any number of writers, readers, ended processes and power losses.   *)
(***************************************************************************)
EXTENDS PublicationProofs

-----------------------------------------------------------------------------
(* Writers that do not recover.                                            *)

\* Only a recovery draws a provisional identity and repairs the second head,
\* and once one has entered that is remembered.
ModesTrue ==
    /\ recovered \in BOOLEAN
    /\ ~recovered => \A w \in Writers : writer[w].mode = "Strict"
    /\ \A w \in Writers : writer[w].fresh \/ writer[w].pc \in {"secondHead", "syncSecond"}
                          => writer[w].mode = "RecoverAndRebind"

\* Two heads of successive publications.
Consecutive(heads) ==
    \/ \A s \in Slots : heads[s] = Missing
    \/ \E s \in Slots : heads[s].sequence = heads[1 - s].sequence + 1
Straight == Consecutive(disk.heads) /\ Consecutive(stable.heads)

-----------------------------------------------------------------------------
(* Readers beside them.                                                    *)

Newest(heads) == IF heads[0].sequence >= heads[1].sequence THEN heads[0].sequence ELSE heads[1].sequence

\* The writers that have replaced a head and not returned yet.
Cleaning == {w \in Writers : writer[w].pc \in AfterHead \cup Finishing}

\* What a reader, overtaken k times and with m current meanwhile, knows of a
\* head it has read from the directory d: it is the only record of its
\* sequence, it was current while the reader ran unless it is older than the
\* reader, and when it is not on disk any more two publications have replaced
\* both heads.  Its generation is then gone, unless the second one is
\* still cleaning up (c), or a process has ended (z).
HeadRead(d, k, m, z, c, h) ==
    /\ h \in ValidHeads /\ h.repository = d.repository
    /\ h.sequence = Len(h.generation.contents) /\ h.sequence <= Newest(d.heads)
    /\ h.sequence >= Newest(d.heads) - k => h \in m
    /\ \A s \in Slots : d.heads[s].sequence = h.sequence => d.heads[s] = h
    /\ (\A s \in Slots : d.heads[s] # h) => h.sequence <= Newest(d.heads) - 2
    /\ z = 0 /\ h.sequence <= Newest(d.heads) - 2 /\ h.generation \in d.generations =>
          h.sequence = Newest(d.heads) - 2 /\ c # {}

\* ... and of what was current; Newest - k was when it began.
Witnessed(d, k, m) ==
    /\ d.repository \in Identities /\ k \in Nat /\ k <= Newest(d.heads)
    /\ \A s \in Slots : IsValid(d.heads[s]) /\ d.heads[s].sequence >= Newest(d.heads) - k
                        => d.heads[s] \in m

\* Where it has got to: one of the heads it has read, or is about to read, is
\* not older than itself.
Place(d, k, m, z, x) ==
    /\ x.pc \in {"head0", "head1"} => x.tried = {}
    /\ x.pc = "head1" => \E h \in {x.heads[0], d.heads[1]} : h.sequence >= Newest(d.heads) - k
    /\ x.pc = "validate" => /\ \E s \in Slots : x.heads[s].sequence >= Newest(d.heads) - k
                            /\ \E s \in Slots : IsValid(x.heads[s])
                            /\ \A s \in x.tried : x.heads[s].generation \notin d.generations
    /\ x.pc = "answered" /\ (z = 0 \/ k < 2) => x.answer \in m
    /\ x.pc = "failed" => k >= 2

ReaderTrue(d, k, m, z, c, x) ==
    /\ x.repository = d.repository
    /\ Witnessed(d, k, m)
    /\ \A s \in Slots : x.heads[s] = Missing \/ HeadRead(d, k, m, z, c, x.heads[s])
    /\ Place(d, k, m, z, x)

ReadersTrue ==
    \A r \in Readers :
        IF reader[r].pc = "idle" THEN reader[r] = IdleReader /\ overtaken[r] = 0
        ELSE ReaderTrue(disk, overtaken[r], seen[r], stops, Cleaning, reader[r])

\* A cleanup that warns has failed, as long as the medium has not.
Unwarned == stops = 0 => \A w \in Writers : ~writer[w].warned

ReadersIInv == stops \in Nat /\ Unwarned /\ (~recovered => Straight /\ ReadersTrue)

-----------------------------------------------------------------------------
(* One fault.                                                              *)

\* A record whose generation is whole and stays so; m is what is damaged.
Whole(d, t, m, h) == IsValid(h) /\ h.generation \in (d.generations \cap t.generations) \ m

\* A slot that serves, whichever of its two states a power loss leaves.
Steady(d, t, m, s) == Whole(d, t, m, d.heads[s]) /\ Whole(d, t, m, t.heads[s])

\* After an acknowledgement a: a slot serves, once two generations have been
\* published, a slot is taken, and all records are of one identity.
Tolerant(d, t, m, a) ==
    /\ a.sequence >= 2 => \E s \in Slots : Steady(d, t, m, s)
    /\ a # Missing => \E s \in Slots : d.heads[s] # Missing /\ t.heads[s] # Missing
    /\ \A g, h \in Survivors(d, t) \cup {a} :
          g # Missing /\ h # Missing => g.repository = h.repository

\* What a writer that has sealed its candidate leaves behind.
Leaves(d, t, m, a, x) ==
    /\ x.pc \in BeforeHead \cap WithHead =>
          Steady(d, t, m, 1 - x.slot) \/ x.head.generation \notin m \/ x.head.sequence <= 1
    /\ x.pc = "syncHead" =>
          \/ \E s \in Slots : Steady(d, t, m, s)
          \/ d.heads[x.slot] = x.head /\ x.head.generation \notin m
          \/ x.head.sequence <= 1
    /\ x.pc \in Finishing => (\E s \in Slots : Steady(d, t, m, s)) \/ x.head.sequence <= 1
    /\ x.pc \in {"syncHead"} \cup Finishing => d.heads[x.slot] # Missing
    /\ x.pc \in WithHead \cup Finishing =>
          /\ x.head \in ValidHeads /\ x.slot \in Slots
          /\ \A h \in Survivors(d, t) \cup {a} : h # Missing => h.repository = x.head.repository

OneFaultIInv ==
    /\ faults \in Nat
    /\ faults <= 1 /\ ~recovered =>
          /\ faults = 0 => SoundIInv /\ Straight
          /\ Tolerant(disk, stable, damaged, acked)
          /\ \A w \in Writers : Leaves(disk, stable, damaged, acked, writer[w])

-----------------------------------------------------------------------------
(* The mode of writers.                                                    *)

LEMMA Observed == ASSUME Next PROVE Observe
  <1>1. ASSUME NEW w \in Writers, Write(w) PROVE Observe
    BY <1>1 DEF Write, Enter, ListEntries, CreateRepository, WriteRepository, SyncRepository, TryLock,
                BeginGeneration, Discard, Seal, Promote, SyncGenerations, CommitRepository,
                ReplaceHead, SyncControls, ScanForCleanup, Reclaim, Return, Bystanders
  <1>2. ASSUME NEW w \in Writers, Stop(w) \/ CleanupFails(w) PROVE Observe
    BY <1>2 DEF Stop, CleanupFails
  <1>3. ASSUME NEW r \in Readers, Read(r) PROVE Observe
    BY <1>3 DEF Read, ReadRepository, ReadHead, Validate, Close, Bystanders
  <1>4. PowerLoss \/ Fault => Observe
    BY DEF PowerLoss, Fault
  <1> QED
    BY <1>1, <1>2, <1>3, <1>4 DEF Next

\* An error of cleanup takes generations away at most, and is counted.
LEMMA FailedCleanup ==
    ASSUME Types, NEW w \in Writers, CleanupFails(w)
    PROVE  /\ UNCHANGED <<reader, acked>> /\ stops' = stops + 1
           /\ disk'.heads = disk.heads /\ disk'.repository = disk.repository
           /\ disk'.generations \subseteq disk.generations
           /\ stable'.heads = stable.heads /\ damaged' \subseteq damaged
           /\ \A v \in Writers \ {w} : writer'[v] = writer[v]
           /\ writer[w].pc \in Finishing /\ writer'[w].pc = "reclaim"
           /\ writer'[w].mode = writer[w].mode /\ writer'[w].fresh = writer[w].fresh
           /\ writer'[w].head = writer[w].head /\ writer'[w].slot = writer[w].slot
  <1>1. /\ writer \in [Writers -> WriterType] /\ disk \in StoreType /\ stable \in StoreType
        /\ UNCHANGED <<reader, acked>> /\ stops' = stops + 1
    BY DEF Types, CleanupFails
  <1>2. CASE ScanFails(w)
    BY <1>1, <1>2 DEF ScanFails, WriterType, Finishing
  <1>3. CASE RemovalFails(w)
    <2>1. ASSUME NEW generation,
                 disk' = [disk EXCEPT !.generations = @ \ {generation}],
                 damaged' = damaged \ {generation},
                 \/ stable' = [stable EXCEPT !.generations = disk'.generations]
                 \/ UNCHANGED stable
          PROVE  /\ disk'.heads = disk.heads /\ disk'.repository = disk.repository
                 /\ disk'.generations \subseteq disk.generations
                 /\ stable'.heads = stable.heads /\ damaged' \subseteq damaged
      BY <1>1, <2>1 DEF StoreType
    <2>2. /\ disk'.heads = disk.heads /\ disk'.repository = disk.repository
          /\ disk'.generations \subseteq disk.generations
          /\ stable'.heads = stable.heads /\ damaged' \subseteq damaged
      BY <1>3, <2>1 DEF RemovalFails
    <2>3. ASSUME NEW retain, NEW kept,
                 writer' = [writer EXCEPT ![w].warned = TRUE, ![w].retain = retain, ![w].left = kept],
                 writer[w].pc = "reclaim"
          PROVE  /\ \A v \in Writers \ {w} : writer'[v] = writer[v]
                 /\ writer'[w].pc = "reclaim"
                 /\ writer'[w].mode = writer[w].mode /\ writer'[w].fresh = writer[w].fresh
                 /\ writer'[w].head = writer[w].head /\ writer'[w].slot = writer[w].slot
      BY <1>1, <2>3 DEF WriterType
    <2>4. \E retain, kept :
             writer' = [writer EXCEPT ![w].warned = TRUE, ![w].retain = retain, ![w].left = kept]
      <3>1. CASE \E kept : writer' = [writer EXCEPT ![w].warned = TRUE, ![w].left = kept]
        <4>1. PICK kept : writer' = [writer EXCEPT ![w].warned = TRUE, ![w].left = kept]
          BY <3>1
        <4>2. writer' = [writer EXCEPT ![w].warned = TRUE, ![w].retain = writer[w].retain, ![w].left = kept]
          BY <1>1, <4>1 DEF WriterType
        <4> QED
          BY <4>2
      <3>2. CASE \E retain : writer' = [writer EXCEPT ![w].warned = TRUE, ![w].retain = retain]
        <4>1. PICK retain : writer' = [writer EXCEPT ![w].warned = TRUE, ![w].retain = retain]
          BY <3>2
        <4>2. writer' = [writer EXCEPT ![w].warned = TRUE, ![w].retain = retain, ![w].left = writer[w].left]
          BY <1>1, <4>1 DEF WriterType
        <4> QED
          BY <4>2
      <3>3. \A generation :
               writer' = [writer EXCEPT ![w].warned = TRUE, ![w].retain = @ \cup {generation}]
               => \E retain : writer' = [writer EXCEPT ![w].warned = TRUE, ![w].retain = retain]
        <4> TAKE generation
        <4> HAVE writer' = [writer EXCEPT ![w].warned = TRUE, ![w].retain = @ \cup {generation}]
        <4>1. writer' = [writer EXCEPT ![w].warned = TRUE,
                                       ![w].retain = writer[w].retain \cup {generation}]
          BY <1>1 DEF WriterType
        <4> QED
          BY <4>1
      <3> QED
        BY <1>3, <3>1, <3>2, <3>3 DEF RemovalFails
    <2>5. writer[w].pc = "reclaim" /\ writer[w].pc \in Finishing
      BY <1>3 DEF RemovalFails, Finishing
    <2>6. /\ \A v \in Writers \ {w} : writer'[v] = writer[v]
          /\ writer'[w].pc = "reclaim"
          /\ writer'[w].mode = writer[w].mode /\ writer'[w].fresh = writer[w].fresh
          /\ writer'[w].head = writer[w].head /\ writer'[w].slot = writer[w].slot
      BY Zenon, <2>3, <2>4, <2>5
    <2> QED
      BY Zenon, <1>1, <2>2, <2>5, <2>6
  <1> QED
    BY <1>2, <1>3 DEF CleanupFails

ModeOf(x) == x.fresh \/ x.pc \in {"secondHead", "syncSecond"} => x.mode = "RecoverAndRebind"

LEMMA IdleMode == ModeOf(IdleWriter)
  BY DEF ModeOf, IdleWriter

LEMMA WriteKeepsMode ==
    ASSUME Types, NEW w \in Writers, ModeOf(writer[w]), Write(w)
    PROVE  /\ ModeOf(writer'[w])
           /\ \A v \in Writers \ {w} : ModeOf(writer[v]) => ModeOf(writer'[v])
  <1> USE IdleMode
  <1>1. writer \in [Writers -> WriterType]
    BY DEF Types
  <1>2. CASE Leave(w)
    BY <1>1, <1>2, Leaving
  <1>3. CASE AdoptRepository(w)
    BY <1>3, Adopting DEF ModeOf
  <1>4. CASE \E place \in {"list", "create", "build", "syncGenerations", "commit", "head", "syncHead",
                           "cleanup", "lock", "syncRepository"} : Goto(w, place)
    BY <1>1, <1>4 DEF Goto, WriterType, ModeOf
  <1>5. CASE \E mode \in Modes : Enter(w, mode)
    <2>1. CASE \E mode \in Modes : writer' = [writer EXCEPT ![w].pc = "lock", ![w].mode = mode]
               /\ mode = "RecoverAndRebind"
      BY <1>1, <2>1 DEF WriterType, ModeOf
    <2> QED
      BY <1>3, <1>4, <1>5, <2>1 DEF Enter
  <1>6. CASE ListEntries(w)
    BY <1>2, <1>3, <1>4, <1>6 DEF ListEntries
  <1>7. CASE CreateRepository(w)
    <2>1. CASE writer' = [writer EXCEPT ![w].pc = "write", ![w].repository = identities + 1]
      BY <1>1, <2>1 DEF WriterType, ModeOf
    <2> QED
      BY <1>3, <1>7, <2>1 DEF CreateRepository
  <1>8. CASE WriteRepository(w) \/ SyncRepository(w) \/ BeginGeneration(w) \/ SyncGenerations(w)
    BY <1>4, <1>8 DEF WriteRepository, SyncRepository, BeginGeneration, SyncGenerations, AfterPromotion
  <1>9. CASE TryLock(w)
    <2>1. CASE \E head : writer' = [writer EXCEPT ![w].pc = "admitted", ![w].admitted = head]
      BY <1>1, <2>1 DEF WriterType, ModeOf
    <2>2. CASE writer[w].mode = "RecoverAndRebind" /\ disk.repository \notin {Absent, Unreadable}
               /\ writer' = [writer EXCEPT ![w].pc = "admitted", ![w].repository = disk.repository]
      BY <1>1, <2>2 DEF WriterType, ModeOf
    <2>3. CASE writer[w].mode = "RecoverAndRebind"
               /\ writer' = [writer EXCEPT ![w].pc = "admitted", ![w].fresh = TRUE,
                                           ![w].repository = identities + 1]
      BY <1>1, <2>3 DEF WriterType, ModeOf
    <2> QED
      BY <1>2, <1>9, <2>1, <2>2, <2>3 DEF TryLock
  <1>10. CASE Discard(w) \/ Return(w)
    BY <1>2, <1>10 DEF Discard, Return
  <1>11. CASE Seal(w)
    <2>1. CASE \E slot, head : writer' = [writer EXCEPT ![w].pc = "promote", ![w].slot = slot, ![w].head = head]
      BY <1>1, <2>1 DEF WriterType, ModeOf
    <2> QED
      BY <1>2, <1>11, <2>1 DEF Seal, Abandon
  <1>12. CASE Promote(w)
    BY <1>2, <1>4, <1>12 DEF Promote, Abandon, AfterPromotion
  <1>13. CASE CommitRepository(w)
    BY <1>1, <1>13 DEF CommitRepository, WriterType, ModeOf
  <1>14. CASE ReplaceHead(w)
    <2>1. CASE writer[w].pc = "secondHead" /\ Goto(w, "syncSecond")
      BY <1>1, <2>1 DEF Goto, WriterType, ModeOf
    <2> QED
      BY <1>4, <1>14, <2>1 DEF ReplaceHead
  <1>15. CASE SyncControls(w)
    <2>1. CASE writer[w].mode = "RecoverAndRebind" /\ Goto(w, "secondHead")
      BY <1>1, <2>1 DEF Goto, WriterType, ModeOf
    <2>2. writer[w].mode \in {"Strict", "RecoverAndRebind"}
      BY <1>1 DEF WriterType
    <2> QED
      BY <1>4, <1>15, <2>1, <2>2 DEF SyncControls
  <1>16. CASE ScanForCleanup(w)
    <2>1. CASE \E retain, warned :
                  writer' = [writer EXCEPT ![w].pc = "reclaim", ![w].retain = retain,
                                           ![w].left = {}, ![w].warned = warned]
      BY <1>1, <2>1 DEF WriterType, ModeOf
    <2> QED
      BY <1>16, <2>1 DEF ScanForCleanup
  <1>17. CASE Reclaim(w)
    BY <1>17 DEF Reclaim
  <1> QED
    BY <1>5, <1>6, <1>7, <1>8, <1>9, <1>10, <1>11, <1>12, <1>13, <1>14, <1>15, <1>16, <1>17 DEF Write

LEMMA StepKeepsModes ==
    ASSUME Types, Types', ModesTrue, [Next]_vars PROVE ModesTrue'
  <1>1. CASE UNCHANGED vars
    BY <1>1 DEF vars, ModesTrue
  <1>2. CASE Next
    <2>1. recovered' = (recovered \/ \E w \in Writers : writer'[w].mode = "RecoverAndRebind")
      BY <1>2, Observed DEF Observe
    <2>2. recovered' \in BOOLEAN
      BY <2>1
    <2>3. ASSUME ~recovered', NEW w \in Writers PROVE writer'[w].mode = "Strict"
      BY <2>1, <2>3 DEF Types, WriterType
    <2>4. \A w \in Writers : ModeOf(writer[w])
      BY DEF ModesTrue, ModeOf
    <2>5. \A w \in Writers : ModeOf(writer'[w])
      <3>1. CASE \E w \in Writers : Write(w)
        BY <2>4, <3>1, WriteKeepsMode
      <3>2. CASE \E w \in Writers : Stop(w)
        BY <2>4, <3>2, Leaving, IdleMode DEF Stop, Abandon, Types
      <3>3. CASE PowerLoss
        BY <3>3, IdleMode DEF PowerLoss
      <3>4. CASE UNCHANGED writer
        BY <2>4, <3>4
      <3>5. (\E r \in Readers : Read(r)) \/ Fault => UNCHANGED writer
        BY DEF Read, ReadRepository, ReadHead, Validate, Close, Fault
      <3>6. CASE \E w \in Writers : CleanupFails(w)
        BY <2>4, <3>6, FailedCleanup DEF ModeOf, Finishing
      <3> QED
        BY <1>2, <3>1, <3>2, <3>3, <3>4, <3>5, <3>6 DEF Next
    <2> QED
      BY <2>2, <2>3, <2>5 DEF ModesTrue, ModeOf
  <1> QED
    BY <1>1, <1>2

LEMMA InitModes == Init => ModesTrue
  <1>1. Init => \A w \in Writers : writer[w] = IdleWriter
    BY DEF Init
  <1>2. Init => recovered = FALSE
    BY DEF Init
  <1>3. IdleWriter.mode = "Strict" /\ IdleWriter.fresh = FALSE /\ IdleWriter.pc = "idle"
    BY DEF IdleWriter
  <1> QED
    BY <1>1, <1>2, <1>3 DEF ModesTrue

-----------------------------------------------------------------------------
(* What a step of a strict writer does to the directory.                   *)

\* Numbers and records of the two heads of a store whose medium has not failed.
LEMMA HeadNumbers ==
    ASSUME StoreIInv, SoundIInv
    PROVE  /\ disk.heads[0].sequence \in Nat /\ disk.heads[1].sequence \in Nat
           /\ Newest(disk.heads) \in Nat
           /\ \A s \in Slots : disk.heads[s].sequence <= Newest(disk.heads)
           /\ \A s \in Slots : IsValid(disk.heads[s]) =>
                 /\ disk.heads[s] \in ValidHeads /\ disk.heads[s] \in Survivors(disk, stable)
                 /\ disk.heads[s].repository = disk.repository
                 /\ disk.heads[s].generation \in disk.generations
           /\ \A s \in Slots : /\ disk.heads[s].sequence = Len(disk.heads[s].generation.contents)
                               /\ ~IsValid(disk.heads[s]) => disk.heads[s] = Missing
           /\ disk.heads[0].sequence = disk.heads[1].sequence => disk.heads[0] = disk.heads[1]
  <1>1. /\ disk.heads[0].sequence \in Nat /\ disk.heads[1].sequence \in Nat
        /\ \A s \in Slots : IsValid(disk.heads[s]) => disk.heads[s] \in Survivors(disk, stable)
        /\ \A s \in Slots : ~IsValid(disk.heads[s]) => disk.heads[s] = Missing
        /\ \A s \in Slots : disk.heads[s].sequence = Len(disk.heads[s].generation.contents)
        /\ \A s \in Slots : disk.heads[s] \in ValidHeads \cup {Missing}
    BY SoundFacts DEF Slots
  <1>2. Newest(disk.heads) \in Nat /\ \A s \in Slots : disk.heads[s].sequence <= Newest(disk.heads)
    BY <1>1 DEF Newest, Slots
  <1>3. \A h \in Survivors(disk, stable) :
           h.repository = disk.repository /\ h.generation \in disk.generations
    BY DEF StoreIInv, StoreTrue, SoundIInv, SoundTrue
  <1>4. disk.heads[0].sequence = disk.heads[1].sequence => disk.heads[0] = disk.heads[1]
    <2> SUFFICES ASSUME disk.heads[0].sequence = disk.heads[1].sequence PROVE disk.heads[0] = disk.heads[1]
      OBVIOUS
    <2>1. CASE IsValid(disk.heads[0])
      <3>1. IsValid(disk.heads[1])
        BY <2>1 DEF IsValid
      <3> QED
        BY <1>1, <2>1, <3>1 DEF StoreIInv, StoreTrue, Slots
    <2>2. CASE ~IsValid(disk.heads[0])
      <3>1. ~IsValid(disk.heads[1])
        BY <2>2 DEF IsValid
      <3> QED
        BY <1>1, <2>2, <3>1 DEF Slots
    <2> QED
      BY <2>1, <2>2
  <1>5. ~IsValid(Missing)
    BY HeadKinds
  <1> QED
    BY <1>1, <1>2, <1>3, <1>4, <1>5

\* The others wait, but for one whose record a recovery replaces.
LEMMA OthersWait ==
    ASSUME writer \in [Writers -> WriterType], NEW w \in Writers, Write(w), NEW v \in Writers \ {w}
    PROVE  writer'[v] = writer[v] \/ (CommitRepository(w) /\ writer[v].pc = "write")
  <1>1. ASSUME \E x : writer' = [writer EXCEPT ![w] = x] PROVE writer'[v] = writer[v]
    BY <1>1
  <1>2. ASSUME \E place : Goto(w, place) PROVE writer'[v] = writer[v]
    BY <1>2 DEF Goto
  <1>3. ASSUME UNCHANGED writer PROVE writer'[v] = writer[v]
    BY <1>3
  <1>4. ASSUME Leave(w) \/ AdoptRepository(w) PROVE writer'[v] = writer[v]
    BY <1>4 DEF Leave, AdoptRepository
  <1>5. ASSUME \E mode \in Modes : Enter(w, mode) PROVE writer'[v] = writer[v]
    BY <1>2, <1>4, <1>5 DEF Enter
  <1>6. ASSUME ListEntries(w) \/ CreateRepository(w) \/ WriteRepository(w) \/ SyncRepository(w) PROVE writer'[v] = writer[v]
    BY <1>2, <1>4, <1>6 DEF ListEntries, CreateRepository, WriteRepository, SyncRepository
  <1>7. ASSUME TryLock(w) PROVE writer'[v] = writer[v]
    BY <1>4, <1>7 DEF TryLock
  <1>8. ASSUME BeginGeneration(w) \/ Discard(w) \/ Seal(w) \/ Promote(w) \/ SyncGenerations(w) PROVE writer'[v] = writer[v]
    BY <1>2, <1>4, <1>8 DEF BeginGeneration, Discard, Seal, Promote, SyncGenerations, Abandon
  <1>9. CASE CommitRepository(w)
    BY <1>9 DEF CommitRepository
  <1>10. ASSUME ReplaceHead(w) \/ SyncControls(w) \/ ScanForCleanup(w) \/ Reclaim(w) \/ Return(w) PROVE writer'[v] = writer[v]
    BY <1>2, <1>3, <1>4, <1>10 DEF ReplaceHead, SyncControls, ScanForCleanup, Reclaim, Return
  <1> QED
    BY <1>5, <1>6, <1>7, <1>8, <1>9, <1>10 DEF Write

\* Only returning ends a writer's cleanup.
LEMMA CleaningStays ==
    ASSUME StoreIInv, NEW w \in Writers, Write(w), ~Return(w), Cleaning # {}
    PROVE  Cleaning' # {}
  <1> USE DEF AfterHead, Finishing
  <1>1. writer \in [Writers -> WriterType]
    BY DEF StoreIInv, Types
  <1>2. PICK v \in Writers : writer[v].pc \in AfterHead \cup Finishing
    BY DEF Cleaning
  <1>3. CASE v # w
    <2>1. writer'[v] = writer[v]
      BY <1>1, <1>2, <1>3, OthersWait
    <2> QED
      BY <1>2, <2>1 DEF Cleaning
  <1>4. CASE v = w
    <2>1. ReplaceHead(w) \/ SyncControls(w) \/ ScanForCleanup(w) \/ Reclaim(w)
      BY <1>2, <1>4 DEF Write, Enter, ListEntries, CreateRepository, WriteRepository, SyncRepository,
                        TryLock, BeginGeneration, Discard, Seal, Promote, SyncGenerations,
                        CommitRepository
    <2>2. writer[w].mode \in {"Strict", "RecoverAndRebind"}
      BY <1>1 DEF WriterType
    <2>3. CASE ReplaceHead(w) \/ SyncControls(w)
      <3>1. \E place \in AfterHead \cup Finishing : Goto(w, place)
        BY <1>2, <1>4, <2>2, <2>3 DEF ReplaceHead, SyncControls
      <3>2. writer'[w].pc \in AfterHead \cup Finishing
        BY <1>1, <3>1 DEF Goto, WriterType
      <3> QED
        BY <3>2 DEF Cleaning
    <2>4. CASE ScanForCleanup(w)
      <3>1. writer'[w].pc = "reclaim"
        BY <1>1, <2>4 DEF ScanForCleanup, WriterType
      <3> QED
        BY <3>1 DEF Cleaning
    <2>5. CASE Reclaim(w)
      <3>1. writer'[w] = writer[w]
        BY <2>5 DEF Reclaim
      <3> QED
        BY <1>2, <1>4, <3>1 DEF Cleaning
    <2> QED
      BY <2>1, <2>3, <2>4, <2>5
  <1> QED
    BY <1>3, <1>4

\* What is synchronised is what is on disk.
LEMMA OnlySyncs ==
    ASSUME disk \in StoreType, stable \in StoreType, NEW w \in Writers, Write(w)
    PROVE  stable'.heads \in {stable.heads, disk.heads}
  <1>1. CASE \E s \in {stable, Synced, [Synced EXCEPT !.populated = TRUE]} : stable' = s
    BY <1>1 DEF Synced, StoreType
  <1>2. CASE \E g : stable' = [stable EXCEPT !.generations = g]
    BY <1>2 DEF StoreType
  <1> QED
    BY <1>1, <1>2 DEF Write, Enter, ListEntries, CreateRepository, WriteRepository, SyncRepository, TryLock,
           BeginGeneration, Discard, Seal, Promote, SyncGenerations, CommitRepository, ReplaceHead,
           SyncControls, ScanForCleanup, Reclaim, Return, Bystanders

\* The steps that leave the heads as they are.
LEMMA HeadsStay ==
    ASSUME StoreIInv, SoundIInv, ModesTrue, NEW w \in Writers, Write(w), ~ReplaceHead(w),
           writer[w].mode = "Strict"
    PROVE  /\ disk'.heads = disk.heads /\ UNCHANGED <<reader, stops>>
           /\ stable'.heads \in {stable.heads, disk.heads}
           /\ disk.repository \in Identities => disk'.repository = disk.repository
           /\ \A g \in disk'.generations :
                 g \in disk.generations \/ Len(g.contents) > Newest(disk.heads)
           /\ \/ Cleaning # {} => Cleaning' # {}
              \/ stops = 0 /\ Unwarned =>
                    \A g \in disk'.generations :
                       \E s \in ValidSlots(disk.heads) : g = disk.heads[s].generation
  <1>1. disk \in StoreType /\ stable \in StoreType /\ writer \in [Writers -> WriterType]
    BY DEF StoreIInv, Types
  <1>2. UNCHANGED <<reader, stops>>
    BY DEF Write, Enter, ListEntries, CreateRepository, WriteRepository, SyncRepository, TryLock,
           BeginGeneration, Discard, Seal, Promote, SyncGenerations, CommitRepository,
           SyncControls, ScanForCleanup, Reclaim, Return, Bystanders
  <1>3. disk'.heads = disk.heads
    BY OnlyReplaceWrites
  <1>4. stable'.heads \in {stable.heads, disk.heads}
    BY <1>1, OnlySyncs
  <1>5. ASSUME disk.repository \in Identities PROVE disk'.repository = disk.repository
    <2>1. disk.repository \notin {Absent, Unreadable}
      BY <1>5, PublicationAssumption DEF Identities, Absent, Unreadable
    <2>2. writer[w].pc \notin {"write", "commit"}
      <3>1. ~writer[w].fresh
        BY DEF ModesTrue
      <3> QED
        BY <2>1, <3>1 DEF StoreIInv, WriterTrue, IdentityTrue
    <2>3. ~CommitRepository(w)
      BY <2>2 DEF CommitRepository
    <2>4. CASE CreateRepository(w) \/ WriteRepository(w)
      BY <2>1, <2>2, <2>4 DEF CreateRepository, WriteRepository
    <2>5. CASE TryLock(w) \/ Promote(w) \/ Reclaim(w)
      BY <1>1, <2>5 DEF TryLock, Promote, Reclaim, StoreType
    <2>6. CASE (\E mode \in Modes : Enter(w, mode)) \/ ListEntries(w) \/ SyncRepository(w)
               \/ BeginGeneration(w) \/ Discard(w) \/ Seal(w) \/ SyncGenerations(w)
               \/ SyncControls(w) \/ ScanForCleanup(w) \/ Return(w)
      BY <2>6 DEF Enter, ListEntries, SyncRepository, BeginGeneration, Discard, Seal,
                  SyncGenerations, SyncControls, ScanForCleanup, Return
    <2> QED
      BY <2>3, <2>4, <2>5, <2>6 DEF Write
  <1>6. ASSUME NEW g \in disk'.generations, g \notin disk.generations
        PROVE  Len(g.contents) > Newest(disk.heads)
    <2>1. Promote(w)
      <3>1. CASE TryLock(w) \/ Reclaim(w) \/ CommitRepository(w) \/ CreateRepository(w) \/ WriteRepository(w)
        BY <1>1, <1>6, <3>1 DEF TryLock, Reclaim, CommitRepository, CreateRepository, WriteRepository, StoreType
      <3>2. CASE (\E mode \in Modes : Enter(w, mode)) \/ ListEntries(w) \/ SyncRepository(w)
                 \/ BeginGeneration(w) \/ Discard(w) \/ Seal(w) \/ SyncGenerations(w)
                 \/ SyncControls(w) \/ ScanForCleanup(w) \/ Return(w)
        BY <1>6, <3>2 DEF Enter, ListEntries, SyncRepository, BeginGeneration, Discard, Seal,
                    SyncGenerations, SyncControls, ScanForCleanup, Return
      <3> QED
        BY <3>1, <3>2 DEF Write
    <2>2. writer[w].pc = "promote" /\ g = writer[w].head.generation
      BY <1>1, <1>6, <2>1 DEF Promote, StoreType
    <2>3. /\ writer[w].head \in ValidHeads
          /\ writer[w].head.sequence = Len(writer[w].head.generation.contents)
      BY <2>2 DEF SoundIInv, SoundWriter, WithHead
    <2>4. \A h \in Survivors(disk, stable) : h.sequence < writer[w].head.sequence
      BY <2>2 DEF StoreIInv, WriterTrue, HeadsTrue, WithHead, AfterHead
    <2>5. writer[w].head.sequence \in Nat \ {0}
      BY <2>3, HeadKinds
    <2>6. \A s \in Slots : disk.heads[s].sequence < writer[w].head.sequence
      BY <2>4, <2>5, HeadNumbers DEF IsValid, Slots
    <2> QED
      BY <2>2, <2>3, <2>5, <2>6, HeadNumbers DEF Newest, Slots
  <1>7. CASE Return(w)
    <2>1. /\ writer[w].pc = "reclaim" /\ disk.generations \subseteq writer[w].retain /\ disk' = disk
      BY <1>7 DEF Return
    <2>2. ~writer[w].warned => writer[w].retain = {disk.heads[s].generation : s \in ValidSlots(disk.heads)}
      BY <2>1 DEF SoundIInv, SoundWriter
    <2> QED
      BY <1>2, <1>3, <1>4, <1>5, <1>6, <2>1, <2>2 DEF Unwarned
  <1>8. CASE ~Return(w)
    BY <1>2, <1>3, <1>4, <1>5, <1>6, <1>8, CleaningStays
  <1> QED
    BY <1>7, <1>8

\* A strict writer replaces the older of the two heads by the next one.
LEMMA HeadReplaced ==
    ASSUME StoreIInv, SoundIInv, ModesTrue, NEW w \in Writers, ReplaceHead(w),
           writer[w].mode = "Strict"
    PROVE  /\ writer[w].slot \in Slots /\ writer[w].head \in ValidHeads
           /\ disk'.heads[writer[w].slot] = writer[w].head
           /\ disk'.heads[1 - writer[w].slot] = disk.heads[1 - writer[w].slot]
           /\ disk.heads[1 - writer[w].slot].sequence = Newest(disk.heads)
           /\ writer[w].head.sequence = Newest(disk.heads) + 1
           /\ Newest(disk'.heads) = Newest(disk.heads) + 1
           /\ writer[w].head.sequence = Len(writer[w].head.generation.contents)
           /\ writer[w].head.repository = disk.repository
           /\ disk'.repository = disk.repository /\ disk'.generations = disk.generations
           /\ UNCHANGED <<stable, reader, stops>>
           /\ Cleaning = {} /\ Cleaning' # {}
  <1> DEFINE x == writer[w]
  <1>1. disk \in StoreType /\ disk.heads \in [Slots -> Heads] /\ writer \in [Writers -> WriterType]
    BY DEF StoreIInv, Types, StoreType
  <1>2. x.pc = "head" /\ x.pc \in Held
    <2>1. x.pc # "secondHead"
      BY DEF ModesTrue
    <2> QED
      BY <2>1 DEF ReplaceHead, Held
  <1>3. /\ disk' = [disk EXCEPT !.heads[x.slot] = x.head] /\ Goto(w, "syncHead")
        /\ UNCHANGED <<stable, reader, stops>>
    BY <1>2 DEF ReplaceHead, Bystanders
  <1>4. SoundWriter(disk, stable, x)
    BY DEF SoundIInv
  <1>5. /\ x.slot \in Slots /\ x.head \in ValidHeads
        /\ x.head.sequence = Len(x.head.generation.contents)
        /\ Child(x.head, disk.heads[1 - x.slot])
        /\ \A s \in Slots : disk.heads[s].sequence <= disk.heads[1 - x.slot].sequence
        /\ disk.repository = x.repository
    BY <1>2, <1>4 DEF SoundWriter, WithHead, BeforeHead, Bound
  <1>6. x.head.repository = x.repository
    BY <1>2 DEF StoreIInv, WriterTrue, HeadsTrue, WithHead
  <1>7. /\ disk'.heads = [disk.heads EXCEPT ![x.slot] = x.head]
        /\ disk'.repository = disk.repository /\ disk'.generations = disk.generations
    BY <1>1, <1>3 DEF StoreType
  <1>8. /\ 1 - x.slot \in Slots /\ 1 - x.slot # x.slot
        /\ disk'.heads[x.slot] = x.head /\ disk'.heads[1 - x.slot] = disk.heads[1 - x.slot]
    BY <1>1, <1>5, <1>7 DEF Slots
  <1>9. disk.heads[1 - x.slot].sequence = Newest(disk.heads)
    BY <1>5, HeadNumbers DEF Newest, Slots
  <1>10. x.head.sequence = Newest(disk.heads) + 1
    BY <1>5, <1>9 DEF Child
  <1>11. Newest(disk'.heads) = Newest(disk.heads) + 1
    <2>1. /\ disk'.heads[x.slot].sequence = Newest(disk.heads) + 1
          /\ disk'.heads[1 - x.slot].sequence = Newest(disk.heads)
      BY <1>8, <1>9, <1>10
    <2>2. Newest(disk.heads) \in Int
      BY <1>8, <1>9, HeadNumbers
    <2> HIDE DEF x
    <2> QED
      BY <1>5, <2>1, <2>2 DEF Newest, Slots
  <1>12. Cleaning = {}
    <2>1. \A v \in Writers : writer[v].pc \in AfterHead \cup Finishing => writer[v].pc \in Held
      BY DEF AfterHead, Finishing, Held
    <2> QED
      BY <1>2, <2>1 DEF StoreIInv, Exclusion, Cleaning, AfterHead, Finishing
  <1>13. Cleaning' # {}
    <2>1. writer'[w].pc = "syncHead"
      BY <1>1, <1>3 DEF Goto, WriterType
    <2> QED
      BY <2>1 DEF Cleaning, AfterHead
  <1> QED
    BY <1>3, <1>5, <1>6, <1>7, <1>8, <1>9, <1>10, <1>11, <1>12, <1>13

-----------------------------------------------------------------------------
(* The two heads stay heads of successive publications.                    *)

LEMMA SameConsecutive ==
    ASSUME NEW g, NEW h, \A s \in Slots : h[s] = g[s], Consecutive(g) PROVE Consecutive(h)
  BY DEF Consecutive, Slots

LEMMA ReplacedConsecutive ==
    ASSUME StoreIInv, SoundIInv, ModesTrue, NEW w \in Writers, ReplaceHead(w),
           writer[w].mode = "Strict"
    PROVE  Consecutive(disk'.heads) /\ stable' = stable
  <1>1. /\ writer[w].slot \in Slots
        /\ disk'.heads[writer[w].slot].sequence = disk'.heads[1 - writer[w].slot].sequence + 1
    BY HeadReplaced
  <1> QED
    BY <1>1, HeadReplaced DEF Consecutive

\* After a power loss either what was visible or what was synchronised.
LEMMA PowerLossStraight ==
    ASSUME StoreIInv, SoundIInv, Straight, PowerLoss PROVE Straight'
  <1>1. PICK s \in Slots : Anchor(disk, stable, acked, s)
    BY DEF SoundIInv, SoundTrue
  <1>2. /\ \A u \in Slots : disk'.heads[u] \in {disk.heads[u], stable.heads[u]}
        /\ stable' = disk'
    BY DEF PowerLoss
  <1>3. disk.heads[s] = stable.heads[s]
    BY <1>1 DEF Anchor
  <1>4. \/ \A u \in Slots : disk'.heads[u] = disk.heads[u]
        \/ \A u \in Slots : disk'.heads[u] = stable.heads[u]
    BY <1>1, <1>2, <1>3 DEF Slots
  <1>5. Consecutive(disk'.heads)
    BY <1>4, SameConsecutive DEF Straight
  <1> QED
    BY <1>2, <1>5 DEF Straight

LEMMA StepKeepsStraight ==
    ASSUME StoreIInv, SoundIInv, ModesTrue, ModesTrue', ~recovered', Straight, [Next]_vars, ~Fault
    PROVE  Straight' /\ ~recovered
  <1>1. CASE UNCHANGED <<disk, stable>> /\ ~recovered
    BY <1>1 DEF Straight
  <1>2. CASE UNCHANGED vars
    BY <1>1, <1>2 DEF vars
  <1>3. CASE Next
    <2>1. ~recovered
      BY <1>3, Observed DEF Observe
    <2>2. \A w \in Writers : writer[w].mode = "Strict"
      BY <2>1 DEF ModesTrue
    <2>3. ASSUME NEW w \in Writers, Write(w) PROVE Straight'
      <3>1. CASE ReplaceHead(w)
        BY <2>2, <3>1, ReplacedConsecutive DEF Straight
      <3>2. CASE ~ReplaceHead(w)
        BY <2>2, <2>3, <3>2, HeadsStay DEF Straight
      <3> QED
        BY <3>1, <3>2
    <2>4. ASSUME NEW w \in Writers, Stop(w) \/ CleanupFails(w)
          PROVE  disk'.heads = disk.heads /\ stable'.heads = stable.heads
      BY <2>4, FailedCleanup DEF Stop, StoreIInv
    <2>5. ASSUME NEW r \in Readers, Read(r) PROVE UNCHANGED <<disk, stable>>
      BY <2>5 DEF Read, ReadRepository, ReadHead, Validate, Close
    <2> QED
      BY <1>1, <1>3, <2>1, <2>3, <2>4, <2>5, PowerLossStraight DEF Next, Straight
  <1> QED
    BY <1>2, <1>3

-----------------------------------------------------------------------------
(* What a reader knows outlives the steps of the others.                   *)

\* Heads with numbers, of successive publications.
HeadPair(heads) ==
    /\ heads[0].sequence \in Nat /\ heads[1].sequence \in Nat
    /\ Consecutive(heads)
    /\ \A s \in Slots : heads[s].sequence = Len(heads[s].generation.contents)

LEMMA PairNumbers ==
    ASSUME NEW heads, HeadPair(heads)
    PROVE  /\ Newest(heads) \in Nat
           /\ \A s \in Slots : heads[s].sequence \in Nat /\ heads[s].sequence <= Newest(heads)
           /\ \A s \in Slots : IsValid(heads[s]) => heads[s].sequence >= Newest(heads) - 1
           /\ \E s \in Slots : heads[s].sequence = Newest(heads)
  <1>1. heads[0].sequence \in Nat /\ heads[1].sequence \in Nat
    BY DEF HeadPair
  <1>2. \/ heads[0] = Missing /\ heads[1] = Missing
        \/ heads[0].sequence = heads[1].sequence + 1
        \/ heads[1].sequence = heads[0].sequence + 1
    BY DEF HeadPair, Consecutive, Slots
  <1>3. ~IsValid(Missing)
    BY HeadKinds
  <1> QED
    BY <1>1, <1>2, <1>3 DEF Newest, Slots

LEMMA ReadNumbers ==
    ASSUME NEW h \in ValidHeads PROVE h.sequence \in Nat \ {0} /\ IsValid(h)
  BY HeadKinds, PublicationAssumption DEF ValidHeads, Heads

\* Generations come and go, the heads stay.
LEMMA QuietForReader ==
    ASSUME NEW d, NEW e, NEW k \in Nat, NEW m, NEW n, NEW z, NEW y, NEW c, NEW b,
           NEW x \in ReaderType, HeadPair(d.heads),
           e.heads = d.heads, e.repository = d.repository, m \subseteq n, y = 0 => z = 0,
           \A g \in e.generations : g \in d.generations \/ Len(g.contents) > Newest(d.heads),
           y = 0 /\ c # {} =>
              \/ b # {}
              \/ \A g \in e.generations : \E s \in ValidSlots(d.heads) : g = d.heads[s].generation,
           ReaderTrue(d, k, m, z, c, x)
    PROVE  ReaderTrue(e, k, n, y, b, x)
  <1> DEFINE N == Newest(d.heads)
  <1>1. /\ N \in Nat /\ Newest(e.heads) = N
        /\ \A s \in ValidSlots(d.heads) : d.heads[s].sequence >= N - 1 /\ d.heads[s].sequence \in Nat
        /\ \A s \in ValidSlots(d.heads) : d.heads[s].sequence = Len(d.heads[s].generation.contents)
    BY PairNumbers DEF ValidSlots, HeadPair
  <1> HIDE DEF N
  <1>2. Witnessed(e, k, n)
    BY <1>1 DEF ReaderTrue, Witnessed, N
  <1>3. ASSUME NEW h, HeadRead(d, k, m, z, c, h) PROVE HeadRead(e, k, n, y, b, h)
    <2>1. /\ h \in ValidHeads /\ h.sequence \in Nat /\ h.sequence <= N
          /\ h.sequence = Len(h.generation.contents)
      BY <1>3, ReadNumbers DEF HeadRead, N
    <2>2. ASSUME y = 0, h.sequence <= N - 2, h.generation \in e.generations
          PROVE  h.sequence = N - 2 /\ b # {}
      <3>1. h.generation \in d.generations
        BY <1>1, <2>1, <2>2 DEF N
      <3>2. h.sequence = N - 2 /\ c # {}
        BY <1>3, <2>2, <3>1 DEF HeadRead, N
      <3>3. ASSUME NEW s \in ValidSlots(d.heads) PROVE h.generation # d.heads[s].generation
        BY <1>1, <2>1, <2>2
      <3> QED
        BY <2>2, <3>2, <3>3
    <2> QED
      BY <1>1, <1>3, <2>2 DEF HeadRead, N
  <1>4. ASSUME x.pc = "validate", NEW s \in x.tried PROVE x.heads[s].generation \notin e.generations
    <2>1. s \in Slots /\ x.heads[s].generation \notin d.generations
      BY <1>4 DEF ReaderType, ReaderTrue, Place
    <2>2. Len(x.heads[s].generation.contents) <= N
      <3>1. CASE x.heads[s] = Missing
        BY <1>1, <3>1 DEF Missing, HeadRecord, NoGeneration
      <3>2. CASE HeadRead(d, k, m, z, c, x.heads[s])
        BY <3>2 DEF HeadRead, N
      <3> QED
        BY <2>1, <3>1, <3>2 DEF ReaderTrue
    <2>3. Len(x.heads[s].generation.contents) \in Nat
      <3>1. CASE x.heads[s] = Missing
        BY <1>1, <3>1 DEF Missing, HeadRecord, NoGeneration
      <3>2. CASE HeadRead(d, k, m, z, c, x.heads[s])
        BY <3>2, ReadNumbers DEF HeadRead
      <3> QED
        BY <2>1, <3>1, <3>2 DEF ReaderTrue
    <2> QED
      BY <1>1, <2>1, <2>2, <2>3 DEF N
  <1>5. Place(e, k, n, y, x)
    BY <1>4 DEF ReaderTrue, Place
  <1> QED
    BY <1>2, <1>3, <1>5 DEF ReaderTrue

\* One of the heads is replaced by a newer one.
LEMMA ReplacedForReader ==
    ASSUME NEW d, NEW e, NEW k \in Nat, NEW m, NEW n, NEW z, NEW c, NEW b,
           NEW x \in ReaderType, HeadPair(d.heads), NEW q \in Slots,
           e.heads[1 - q] = d.heads[1 - q], d.heads[1 - q].sequence = Newest(d.heads),
           e.heads[q].sequence = Newest(d.heads) + 1, Newest(e.heads) = Newest(d.heads) + 1,
           e.repository = d.repository, e.generations = d.generations,
           m \subseteq n, e.heads[q] \in n, c = {}, b # {},
           ReaderTrue(d, k, m, z, c, x)
    PROVE  ReaderTrue(e, k + 1, n, z, b, x)
  <1> DEFINE N == Newest(d.heads)
  <1>1. /\ N \in Nat /\ 1 - q \in Slots /\ \A s \in Slots : s = q \/ s = 1 - q
        /\ d.heads[q].sequence \in Nat /\ d.heads[q].sequence <= N
        /\ Newest(e.heads) - (k + 1) = N - k
    BY PairNumbers DEF Slots
  <1>2. IsValid(d.heads[q]) => d.heads[q].sequence <= N - 1
    <2>1. ~IsValid(Missing)
      BY HeadKinds
    <2>2. \/ d.heads[0] = Missing /\ d.heads[1] = Missing
          \/ d.heads[0].sequence = d.heads[1].sequence + 1
          \/ d.heads[1].sequence = d.heads[0].sequence + 1
      BY DEF HeadPair, Consecutive, Slots
    <2>3. d.heads[0].sequence \in Nat /\ d.heads[1].sequence \in Nat
      BY DEF HeadPair
    <2>4. CASE q = 0
      BY <1>1, <2>1, <2>2, <2>3, <2>4
    <2>5. CASE q = 1
      BY <1>1, <2>1, <2>2, <2>3, <2>5
    <2> QED
      BY <2>4, <2>5 DEF Slots
  <1>3. e.heads[q].sequence = N + 1 /\ Newest(e.heads) = N + 1 /\ d.heads[1 - q].sequence = N
    OBVIOUS
  <1> HIDE DEF N
  <1>4. Witnessed(e, k + 1, n)
    BY <1>1, <1>3 DEF ReaderTrue, Witnessed, N
  <1>5. ASSUME NEW h, HeadRead(d, k, m, z, c, h) PROVE HeadRead(e, k + 1, n, z, b, h)
    <2>1. h \in ValidHeads /\ h.sequence \in Nat /\ h.sequence <= N /\ IsValid(h)
      BY <1>5, ReadNumbers DEF HeadRead, N
    <2>2. h.sequence >= N - k => h \in n
      BY <1>5 DEF HeadRead, N
    <2>3. \A s \in Slots : e.heads[s].sequence = h.sequence => e.heads[s] = h
      BY <1>1, <1>3, <1>5, <2>1 DEF HeadRead
    <2>4. ASSUME \A s \in Slots : e.heads[s] # h PROVE h.sequence <= N - 1
      <3>1. CASE d.heads[q] = h
        BY <1>2, <2>1, <3>1
      <3>2. CASE d.heads[q] # h
        <4>1. \A s \in Slots : d.heads[s] # h
          BY <1>1, <2>4, <3>2
        <4> QED
          BY <1>1, <1>5, <2>1, <4>1 DEF HeadRead, N
      <3> QED
        BY <3>1, <3>2
    <2>5. ASSUME z = 0, h.sequence <= N - 1, h.generation \in e.generations PROVE h.sequence = N - 1
      <3>1. ~(h.sequence <= N - 2)
        BY <1>5, <2>5 DEF HeadRead, N
      <3> QED
        BY <1>1, <2>1, <2>5, <3>1
    <2>6. h.sequence <= N + 1 /\ (N + 1) - 2 = N - 1
      BY <1>1, <2>1
    <2>7. h.repository = e.repository /\ h.sequence = Len(h.generation.contents)
      BY <1>5 DEF HeadRead
    <2> QED
      BY <1>1, <1>3, <2>1, <2>2, <2>3, <2>4, <2>5, <2>6, <2>7 DEF HeadRead
  <1>6. x.pc = "head1" => \E h \in {x.heads[0], e.heads[1]} : h.sequence >= N - k
    <2> SUFFICES ASSUME x.pc = "head1", ~(x.heads[0].sequence >= N - k)
                 PROVE  e.heads[1].sequence >= N - k
      OBVIOUS
    <2>1. d.heads[1].sequence >= N - k
      BY DEF ReaderTrue, Place, N
    <2>2. CASE q = 1
      BY <1>1, <1>3, <2>2
    <2>3. CASE q = 0
      BY <2>1, <2>3
    <2> QED
      BY <2>2, <2>3 DEF Slots
  <1>7. Place(e, k + 1, n, z, x)
    BY <1>1, <1>6 DEF ReaderTrue, Place, N
  <1> QED
    BY <1>4, <1>5, <1>7 DEF ReaderTrue

LEMMA PairOnDisk ==
    ASSUME StoreIInv, SoundIInv, Straight PROVE HeadPair(disk.heads)
  BY HeadNumbers DEF HeadPair, Straight

LEMMA ReadersTyped ==
    ASSUME StoreIInv, NEW r \in Readers PROVE reader[r] \in ReaderType
  BY DEF StoreIInv, Types

\* The history of a reader that stays where it is.
LEMMA HistoryGoesOn ==
    ASSUME Observe, NEW r \in Readers
    PROVE  /\ reader'[r].pc = "idle" => overtaken'[r] = 0
           /\ reader'[r].pc # "idle" =>
                 /\ seen'[r] = seen[r] \cup {Current, Current'}
                 /\ disk'.heads = disk.heads => overtaken'[r] = overtaken[r]
                 /\ disk'.heads # disk.heads => overtaken'[r] = overtaken[r] + 1
  BY DEF Observe

LEMMA WriteKeepsReaders ==
    ASSUME StoreIInv, SoundIInv, NewestIsCurrent', ModesTrue, Straight, Observe, ReadersTrue, Unwarned,
           NEW w \in Writers, Write(w), writer[w].mode = "Strict"
    PROVE  ReadersTrue'
  <1> SUFFICES ASSUME NEW r \in Readers
               PROVE  IF reader'[r].pc = "idle" THEN reader'[r] = IdleReader /\ overtaken'[r] = 0
                      ELSE ReaderTrue(disk', overtaken'[r], seen'[r], stops', Cleaning', reader'[r])
    BY DEF ReadersTrue
  <1>1. reader' = reader /\ stops' = stops
    BY HeadsStay, HeadReplaced
  <1>2. CASE reader[r].pc = "idle"
    BY <1>1, <1>2, HistoryGoesOn DEF ReadersTrue
  <1>3. CASE reader[r].pc # "idle"
    <2>1. /\ ReaderTrue(disk, overtaken[r], seen[r], stops, Cleaning, reader[r])
          /\ overtaken[r] \in Nat /\ reader[r] \in ReaderType /\ disk.repository \in Identities
      BY <1>3, ReadersTyped DEF ReadersTrue, ReaderTrue, Witnessed
    <2>2. HeadPair(disk.heads)
      BY PairOnDisk
    <2>3. seen'[r] = seen[r] \cup {Current, Current'}
      BY <1>1, <1>3, HistoryGoesOn
    <2>4. CASE ReplaceHead(w)
      <3> DEFINE q == writer[w].slot
      <3>1. /\ q \in Slots /\ disk'.heads[1 - q] = disk.heads[1 - q]
            /\ disk.heads[1 - q].sequence = Newest(disk.heads)
            /\ disk'.heads[q].sequence = Newest(disk.heads) + 1
            /\ Newest(disk'.heads) = Newest(disk.heads) + 1
            /\ disk'.repository = disk.repository /\ disk'.generations = disk.generations
            /\ Cleaning = {} /\ Cleaning' # {}
        BY <2>4, HeadReplaced
      <3>2. Newest(disk.heads) \in Nat /\ disk.heads[q].sequence <= Newest(disk.heads)
            /\ disk.heads[q].sequence \in Nat
        BY <2>2, <3>1, PairNumbers
      <3>3. disk'.heads # disk.heads
        BY <3>1, <3>2
      <3>4. Current' = disk'.heads[q]
        <4>1. \A u \in Slots : disk'.heads[u].sequence <= disk'.heads[q].sequence
          BY <3>1, <3>2 DEF Slots
        <4> QED
          BY <3>1, <4>1 DEF NewestIsCurrent
      <3>5. overtaken'[r] = overtaken[r] + 1
        BY <1>1, <1>3, <3>3, HistoryGoesOn
      <3> HIDE DEF q
      <3>6. ReaderTrue(disk', overtaken[r] + 1, seen'[r], stops, Cleaning', reader[r])
        BY <2>1, <2>2, <2>3, <3>1, <3>4, ReplacedForReader
      <3> QED
        BY <1>1, <1>3, <3>5, <3>6
    <2>5. CASE ~ReplaceHead(w)
      <3>1. /\ disk'.heads = disk.heads /\ disk'.repository = disk.repository
            /\ \A g \in disk'.generations :
                  g \in disk.generations \/ Len(g.contents) > Newest(disk.heads)
            /\ \/ Cleaning # {} => Cleaning' # {}
               \/ stops = 0 =>
                     \A g \in disk'.generations :
                        \E s \in ValidSlots(disk.heads) : g = disk.heads[s].generation
        BY <2>1, <2>5, HeadsStay
      <3>2. overtaken'[r] = overtaken[r]
        BY <1>1, <1>3, <3>1, HistoryGoesOn
      <3>3. ReaderTrue(disk', overtaken[r], seen'[r], stops, Cleaning', reader[r])
        BY <2>1, <2>2, <2>3, <3>1, QuietForReader
      <3> QED
        BY <1>1, <1>3, <3>2, <3>3
    <2> QED
      BY <2>4, <2>5
  <1> QED
    BY <1>2, <1>3

\* The heads stay as they are: another reader's step, the end of a writer, or
\* an error of a cleanup.
LEMMA WaitingKeepsReader ==
    ASSUME StoreIInv, SoundIInv, Straight, Observe, ReadersTrue,
           disk'.heads = disk.heads, disk'.repository = disk.repository,
           disk'.generations \subseteq disk.generations,
           stops \in Nat, (stops' = stops /\ UNCHANGED writer) \/ stops' = stops + 1,
           NEW r \in Readers, reader'[r] = reader[r]
    PROVE  IF reader'[r].pc = "idle" THEN reader'[r] = IdleReader /\ overtaken'[r] = 0
           ELSE ReaderTrue(disk', overtaken'[r], seen'[r], stops', Cleaning', reader'[r])
  <1>1. CASE reader[r].pc = "idle"
    BY <1>1, HistoryGoesOn DEF ReadersTrue
  <1>2. CASE reader[r].pc # "idle"
    <2>1. /\ ReaderTrue(disk, overtaken[r], seen[r], stops, Cleaning, reader[r])
          /\ overtaken[r] \in Nat /\ reader[r] \in ReaderType
      BY <1>2, ReadersTyped DEF ReadersTrue, ReaderTrue, Witnessed
    <2>2. seen[r] \subseteq seen'[r] /\ overtaken'[r] = overtaken[r]
      BY <1>2, HistoryGoesOn
    <2>3. stops' = 0 => stops = 0 /\ Cleaning' = Cleaning
      BY DEF Cleaning
    <2>4. HeadPair(disk.heads)
      BY PairOnDisk
    <2>5. ReaderTrue(disk', overtaken[r], seen'[r], stops', Cleaning', reader[r])
      BY <2>1, <2>2, <2>3, <2>4, QuietForReader
    <2> QED
      BY <1>2, <2>2, <2>4, <2>5
  <1> QED
    BY <1>1, <1>2

-----------------------------------------------------------------------------
(* The steps of a reader.                                                  *)

LEMMA ReadFromDisk ==
    ASSUME StoreIInv, SoundIInv, Straight, NEW k, NEW m, NEW z, NEW c, Witnessed(disk, k, m),
           NEW s \in Slots, disk.heads[s] # Missing
    PROVE  HeadRead(disk, k, m, z, c, disk.heads[s])
  <1>1. /\ IsValid(disk.heads[s]) /\ disk.heads[s] \in ValidHeads
        /\ disk.heads[s].repository = disk.repository
        /\ disk.heads[s].sequence = Len(disk.heads[s].generation.contents)
        /\ disk.heads[s].sequence <= Newest(disk.heads)
    BY HeadNumbers
  <1>2. \A u \in Slots : disk.heads[u].sequence = disk.heads[s].sequence => disk.heads[u] = disk.heads[s]
    BY HeadNumbers DEF Slots
  <1>3. disk.heads[s].sequence >= Newest(disk.heads) - 1 /\ Newest(disk.heads) \in Nat
        /\ disk.heads[s].sequence \in Nat
    BY <1>1, PairOnDisk, PairNumbers
  <1>4. ~(disk.heads[s].sequence <= Newest(disk.heads) - 2)
    BY <1>3
  <1> QED
    BY <1>1, <1>2, <1>4 DEF HeadRead, Witnessed

\* What every reader sees of the store when it takes a step.
LEMMA ReadersWitness ==
    ASSUME StoreIInv, SoundIInv, Straight, NewestIsCurrent, Observe, ReadersTrue, UNCHANGED disk,
           NEW r \in Readers, reader[r].pc # "idle", reader'[r].pc # "idle"
    PROVE  /\ ReaderTrue(disk, overtaken'[r], seen'[r], stops, Cleaning, reader[r])
           /\ overtaken'[r] \in Nat
  <1>1. /\ ReaderTrue(disk, overtaken[r], seen[r], stops, Cleaning, reader[r])
        /\ overtaken[r] \in Nat /\ reader[r] \in ReaderType
    BY ReadersTyped DEF ReadersTrue, ReaderTrue, Witnessed
  <1>2. seen[r] \subseteq seen'[r] /\ overtaken'[r] = overtaken[r]
    BY HistoryGoesOn
  <1>3. HeadPair(disk.heads)
    BY PairOnDisk
  <1> QED
    BY <1>1, <1>2, <1>3, QuietForReader

LEMMA ReadRepositoryTrue ==
    ASSUME StoreIInv, SoundIInv, Straight, NewestIsCurrent, Observe, ReadersTrue,
           NEW r \in Readers, ReadRepository(r)
    PROVE  /\ reader'[r].pc # "idle"
           /\ ReaderTrue(disk, overtaken'[r], seen'[r], stops, Cleaning, reader'[r])
  <1>1. /\ reader[r].pc = "idle" /\ disk.repository \notin {Absent, Unreadable} /\ UNCHANGED disk
        /\ reader' = [reader EXCEPT ![r].pc = "head0", ![r].repository = disk.repository]
        /\ reader \in [Readers -> ReaderType] /\ disk \in StoreType
    BY DEF ReadRepository, StoreIInv, Types
  <1>2. reader[r] = IdleReader /\ overtaken[r] = 0
    BY <1>1 DEF ReadersTrue
  <1>3. /\ reader'[r].pc = "head0" /\ reader'[r].repository = disk.repository
        /\ reader'[r].heads = reader[r].heads /\ reader'[r].tried = reader[r].tried
    BY <1>1 DEF ReaderType
  <1>4. reader[r].heads = [s \in Slots |-> Missing] /\ reader[r].tried = {}
    BY <1>2 DEF IdleReader
  <1>5. Current \in seen'[r] /\ overtaken'[r] = 0
    BY <1>1, <1>2, <1>3, HistoryGoesOn
  <1>6. Witnessed(disk, 0, seen'[r])
    <2>1. disk.repository \in Identities
      BY <1>1 DEF StoreType
    <2>2. HeadPair(disk.heads) /\ Newest(disk.heads) \in Nat
      BY PairOnDisk, PairNumbers
    <2>3. ASSUME NEW s \in Slots, disk.heads[s].sequence >= Newest(disk.heads) - 0
          PROVE  disk.heads[s] \in seen'[r]
      <3>1. \A u \in Slots : disk.heads[u].sequence \in Nat /\ disk.heads[u].sequence <= Newest(disk.heads)
        BY <2>2, PairNumbers
      <3>2. \A u \in Slots : disk.heads[u].sequence <= disk.heads[s].sequence
        BY <2>2, <2>3, <3>1
      <3> QED
        BY <1>5, <3>2 DEF NewestIsCurrent
    <2> QED
      BY <2>1, <2>2, <2>3 DEF Witnessed
  <1>7. Place(disk, 0, seen'[r], stops, reader'[r])
    BY <1>3, <1>4 DEF Place
  <1> QED
    BY <1>3, <1>4, <1>5, <1>6, <1>7 DEF ReaderTrue

LEMMA ReadHeadTrue ==
    ASSUME StoreIInv, SoundIInv, Straight, NewestIsCurrent, Observe, ReadersTrue,
           NEW r \in Readers, NEW slot \in Slots, ReadHead(r, slot)
    PROVE  /\ reader'[r].pc # "idle"
           /\ ReaderTrue(disk, overtaken'[r], seen'[r], stops, Cleaning, reader'[r])
  <1> DEFINE x == reader[r]
             y == reader'[r]
             k == overtaken'[r]
             heads == [x.heads EXCEPT ![slot] = disk.heads[slot]]
             place == CASE slot = 0 -> "head1"
                        [] slot = 1 /\ Conflicting(heads) -> "failed"
                        [] slot = 1 /\ ~Conflicting(heads) ->
                             IF \A s \in Slots : heads[s] = Missing THEN "unpublished" ELSE "validate"
  <1>1. /\ x.pc = IF slot = 0 THEN "head0" ELSE "head1"
        /\ reader' = [reader EXCEPT ![r].heads = heads, ![r].pc = place]
        /\ UNCHANGED disk /\ x \in ReaderType /\ reader \in [Readers -> ReaderType]
    BY ReadersTyped DEF ReadHead, StoreIInv, Types
  <1>2. /\ y.heads = heads /\ y.pc = place /\ y.tried = x.tried
        /\ y.repository = x.repository
    BY <1>1 DEF ReaderType
  <1>3. place \in {"head1", "failed", "unpublished", "validate"} /\ x.pc # "idle"
    BY <1>1 DEF Slots
  <1>4. ReaderTrue(disk, k, seen'[r], stops, Cleaning, x) /\ k \in Nat
    BY <1>1, <1>2, <1>3, ReadersWitness
  <1>5. /\ heads[slot] = disk.heads[slot] /\ \A s \in Slots \ {slot} : heads[s] = x.heads[s]
    BY <1>1 DEF ReaderType
  <1> HIDE DEF k, heads
  <1>6. \A s \in Slots : heads[s] = Missing \/ HeadRead(disk, k, seen'[r], stops, Cleaning, heads[s])
    <2>1. heads[slot] = Missing \/ HeadRead(disk, k, seen'[r], stops, Cleaning, heads[slot])
      BY <1>4, <1>5, ReadFromDisk DEF ReaderTrue
    <2> QED
      BY <1>4, <1>5, <2>1 DEF ReaderTrue
  <1>7. x.tried = {}
    BY <1>1, <1>4 DEF ReaderTrue, Place, Slots
  <1>8. CASE slot = 0
    <2>1. \E s \in Slots : disk.heads[s].sequence = Newest(disk.heads) /\ Newest(disk.heads) \in Nat
      BY PairOnDisk, PairNumbers
    <2>2. \E h \in {heads[0], disk.heads[1]} : h.sequence >= Newest(disk.heads) - k
      BY <1>4, <1>5, <1>8, <2>1 DEF Slots
    <2>3. y.pc = "head1"
      BY <1>2, <1>8
    <2>4. Place(disk, k, seen'[r], stops, y)
      BY <1>2, <1>7, <2>2, <2>3 DEF Place
    <2> QED
      BY <1>2, <1>4, <1>6, <2>3, <2>4 DEF ReaderTrue, k
  <1>9. CASE slot = 1
    <2>1. ~Conflicting(heads)
      <3> SUFFICES ASSUME Conflicting(heads) PROVE FALSE
        OBVIOUS
      <3>1. IsValid(heads[0]) /\ heads[0].sequence = disk.heads[1].sequence /\ heads[0] # disk.heads[1]
        BY <1>5, <1>9 DEF Conflicting, ValidSlots, Slots
      <3>2. heads[0] # Missing
        BY <3>1, HeadKinds
      <3> QED
        BY <1>6, <3>1, <3>2 DEF HeadRead, Slots
    <2>2. \E s \in Slots : heads[s].sequence >= Newest(disk.heads) - k
      <3>1. \E h \in {x.heads[0], disk.heads[1]} : h.sequence >= Newest(disk.heads) - k
        BY <1>1, <1>4, <1>9 DEF ReaderTrue, Place
      <3> QED
        BY <1>5, <1>9, <3>1 DEF Slots
    <2>3. ASSUME ~\A s \in Slots : heads[s] = Missing PROVE \E s \in Slots : IsValid(heads[s])
      BY <1>6, <2>3, ReadNumbers DEF HeadRead
    <2>4. y.pc = IF \A s \in Slots : heads[s] = Missing THEN "unpublished" ELSE "validate"
      BY <1>2, <1>9, <2>1
    <2>5. Place(disk, k, seen'[r], stops, y)
      BY <1>2, <1>7, <2>2, <2>3, <2>4 DEF Place
    <2> QED
      BY <1>2, <1>4, <1>6, <2>4, <2>5 DEF ReaderTrue, k
  <1> QED
    BY <1>8, <1>9 DEF Slots


\* A reader that finds the generation of a head it has read gone was overtaken
\* by two publications.
LEMMA GoneMeansOvertaken ==
    ASSUME StoreIInv, SoundIInv, Straight, NEW k \in Nat, NEW m, NEW z, NEW c, NEW x \in ReaderType,
           ReaderTrue(disk, k, m, z, c, x), x.pc = "validate"
    PROVE  \E t \in ValidSlots(x.heads) :
              /\ HeadRead(disk, k, m, z, c, x.heads[t]) /\ x.heads[t].sequence >= Newest(disk.heads) - k
              /\ t \in x.tried => x.heads[t].sequence <= Newest(disk.heads) - 2 /\ k >= 2
  <1> DEFINE N == Newest(disk.heads)
  <1>1. N \in Nat
    BY HeadNumbers
  <1>2. \A s \in ValidSlots(x.heads) : HeadRead(disk, k, m, z, c, x.heads[s]) /\ x.heads[s].sequence \in Nat \ {0}
    <2> SUFFICES ASSUME NEW s \in ValidSlots(x.heads)
                 PROVE  HeadRead(disk, k, m, z, c, x.heads[s]) /\ x.heads[s].sequence \in Nat \ {0}
      OBVIOUS
    <2>1. s \in Slots /\ x.heads[s] # Missing
      BY HeadKinds DEF ValidSlots
    <2>2. HeadRead(disk, k, m, z, c, x.heads[s])
      BY <2>1 DEF ReaderTrue
    <2> QED
      BY <2>2, ReadNumbers DEF HeadRead
  <1>3. PICK t \in ValidSlots(x.heads) : x.heads[t].sequence >= N - k
    <2>1. PICK s \in Slots : x.heads[s].sequence >= N - k
      BY DEF ReaderTrue, Place
    <2>2. PICK u \in Slots : IsValid(x.heads[u])
      BY DEF ReaderTrue, Place
    <2>3. CASE x.heads[s] = Missing
      <3>1. N - k <= 0
        BY <1>1, <2>1, <2>3 DEF Missing, HeadRecord
      <3>2. u \in ValidSlots(x.heads) /\ x.heads[u].sequence \in Nat \ {0}
        BY <1>2, <2>2 DEF ValidSlots
      <3> HIDE DEF N
      <3> QED
        BY <1>1, <3>1, <3>2
    <2>4. CASE HeadRead(disk, k, m, z, c, x.heads[s])
      BY <2>1, <2>4, ReadNumbers DEF HeadRead, ValidSlots
    <2> QED
      BY <2>3, <2>4 DEF ReaderTrue
  <1>4. ASSUME t \in x.tried PROVE x.heads[t].sequence <= N - 2 /\ k >= 2
    <2>1. x.heads[t].generation \notin disk.generations /\ IsValid(x.heads[t])
      BY <1>4 DEF ReaderTrue, Place, ValidSlots
    <2>2. \A s \in Slots : disk.heads[s] # x.heads[t]
      BY <2>1, HeadNumbers
    <2>3. x.heads[t].sequence <= N - 2 /\ x.heads[t].sequence \in Nat
      BY <1>2, <2>2 DEF HeadRead
    <2> HIDE DEF N
    <2> QED
      BY <1>1, <1>3, <2>3
  <1> QED
    BY <1>2, <1>3, <1>4

LEMMA ValidateTrue ==
    ASSUME StoreIInv, SoundIInv, Straight, NewestIsCurrent, Observe, ReadersTrue,
           NEW r \in Readers, Validate(r)
    PROVE  /\ reader'[r].pc # "idle"
           /\ ReaderTrue(disk, overtaken'[r], seen'[r], stops, Cleaning, reader'[r])
  <1> DEFINE x == reader[r]
             y == reader'[r]
             k == overtaken'[r]
             left == ValidSlots(x.heads) \ x.tried
             newest == NewestOf(x.heads, left)
             N == Newest(disk.heads)
  <1>1. /\ x.pc = "validate" /\ UNCHANGED disk
        /\ reader' = IF newest = NoSlot THEN [reader EXCEPT ![r].pc = "failed"]
                     ELSE IF Validates(x.heads[newest], x.repository)
                     THEN [reader EXCEPT ![r].pc = "answered", ![r].answer = x.heads[newest]]
                     ELSE [reader EXCEPT ![r].tried = @ \cup {newest}]
        /\ x \in ReaderType /\ reader \in [Readers -> ReaderType]
    BY ReadersTyped DEF Validate, StoreIInv, Types
  <1>2. /\ left \in SUBSET Slots /\ x.heads \in [Slots -> Heads]
    BY <1>1 DEF ReaderType, ValidSlots
  <1>3. /\ newest \in left \cup {NoSlot} /\ (newest = NoSlot <=> left = {})
        /\ \A s \in left : x.heads[s].sequence <= x.heads[newest].sequence
    BY <1>2, NewestSlot
  <1> HIDE DEF newest
  <1>4. /\ y.heads = x.heads /\ y.repository = x.repository
        /\ newest = NoSlot => y.pc = "failed"
        /\ newest # NoSlot /\ Validates(x.heads[newest], x.repository) =>
              y.pc = "answered" /\ y.answer = x.heads[newest]
        /\ newest # NoSlot /\ ~Validates(x.heads[newest], x.repository) =>
              y.pc = "validate" /\ y.tried = x.tried \cup {newest}
    BY <1>1 DEF ReaderType
  <1>5. y.pc # "idle"
    BY <1>4
  <1>6. ReaderTrue(disk, k, seen'[r], stops, Cleaning, x) /\ k \in Nat
    BY <1>1, <1>5, ReadersWitness
  <1>7. PICK t \in ValidSlots(x.heads) :
           /\ HeadRead(disk, k, seen'[r], stops, Cleaning, x.heads[t]) /\ x.heads[t].sequence >= N - k
           /\ t \in x.tried => x.heads[t].sequence <= N - 2 /\ k >= 2
    BY <1>1, <1>6, GoneMeansOvertaken
  <1>8. N \in Nat /\ x.heads[t].sequence \in Nat
    BY <1>7, HeadNumbers, ReadNumbers DEF HeadRead
  <1>9. Place(disk, k, seen'[r], stops, y)
    <2>1. CASE newest = NoSlot
      <3>1. k >= 2
        BY <1>3, <1>7, <2>1
      <3> QED
        BY <1>4, <2>1, <3>1 DEF Place
    <2>2. CASE newest # NoSlot
      <3> DEFINE h == x.heads[newest]
      <3>1. newest \in left /\ newest \in Slots /\ IsValid(h)
        BY <1>3, <2>2 DEF ValidSlots
      <3>2. HeadRead(disk, k, seen'[r], stops, Cleaning, h) /\ h.sequence \in Nat
        <4>1. h # Missing
          BY <3>1, HeadKinds
        <4>2. HeadRead(disk, k, seen'[r], stops, Cleaning, h)
          BY <1>6, <3>1, <4>1 DEF ReaderTrue
        <4> QED
          BY <4>2, ReadNumbers DEF HeadRead
      <3>3. h.repository = x.repository /\ damaged = {}
        BY <1>6, <3>2 DEF ReaderTrue, HeadRead, SoundIInv
      <3> HIDE DEF h, N, k
      <3>4. ASSUME Validates(h, x.repository), stops = 0 \/ k < 2 PROVE h \in seen'[r]
        <4>1. CASE h.sequence >= N - k
          BY <3>2, <4>1 DEF HeadRead, N
        <4>2. CASE ~(h.sequence >= N - k)
          <5>1. t \notin left
            BY <1>3, <1>6, <1>7, <1>8, <3>2, <4>2 DEF h
          <5>2. x.heads[t].sequence <= N - 2 /\ k >= 2
            BY <1>7, <5>1
          <5>3. stops = 0 /\ h.sequence <= N - 3
            BY <1>6, <1>7, <1>8, <3>2, <3>4, <4>2, <5>2
          <5>4. h.generation \in disk.generations
            BY <3>4 DEF Validates
          <5>5. h.sequence = N - 2
            BY <1>8, <3>2, <5>3, <5>4 DEF HeadRead, N
          <5> QED
            BY <1>8, <5>3, <5>5
        <4> QED
          BY <4>1, <4>2
      <3>5. ASSUME ~Validates(h, x.repository) PROVE h.generation \notin disk.generations
        BY <3>3, <3>5 DEF Validates
      <3>6. CASE Validates(h, x.repository)
        <4>1. y.pc = "answered" /\ y.answer = h
          BY <1>4, <2>2, <3>6 DEF h
        <4> QED
          BY <3>4, <3>6, <4>1 DEF Place
      <3>7. CASE ~Validates(h, x.repository)
        <4>1. y.pc = "validate" /\ y.tried = x.tried \cup {newest} /\ y.heads = x.heads
          BY <1>4, <2>2, <3>7 DEF h
        <4>2. Place(disk, k, seen'[r], stops, x)
          BY <1>6 DEF ReaderTrue
        <4> QED
          BY <1>1, <3>5, <3>7, <4>1, <4>2 DEF Place, h
      <3> QED
        BY <3>6, <3>7
    <2> QED
      BY <2>1, <2>2
  <1> QED
    BY <1>4, <1>5, <1>6, <1>9 DEF ReaderTrue, k

-----------------------------------------------------------------------------
(* All steps, and the theorem.                                             *)

LEMMA ReadKeepsReaders ==
    ASSUME StoreIInv, SoundIInv, Straight, NewestIsCurrent, Observe, ReadersTrue, stops \in Nat,
           NEW r \in Readers, Read(r)
    PROVE  ReadersTrue' /\ stops' = stops
  <1>1. /\ UNCHANGED <<disk, stable, writer, stops>> /\ reader \in [Readers -> ReaderType]
    BY DEF Read, ReadRepository, ReadHead, Validate, Close, Bystanders, StoreIInv, Types
  <1>2. \A v \in Readers \ {r} : reader'[v] = reader[v]
    BY <1>1 DEF Read, ReadRepository, ReadHead, Validate, Close
  <1>3. Cleaning' = Cleaning
    BY <1>1 DEF Cleaning
  <1> DEFINE Served(v) == IF reader'[v].pc = "idle" THEN reader'[v] = IdleReader /\ overtaken'[v] = 0
                          ELSE ReaderTrue(disk', overtaken'[v], seen'[v], stops', Cleaning', reader'[v])
  <1>4. \A v \in Readers \ {r} : Served(v)
    BY <1>1, <1>2, WaitingKeepsReader
  <1>5. Served(r)
    <2>1. CASE Close(r)
      <3>1. reader'[r] = IdleReader /\ IdleReader.pc = "idle"
        BY <1>1, <2>1 DEF Close, IdleReader
      <3> QED
        BY <3>1, HistoryGoesOn
    <2>2. CASE ReadRepository(r) \/ (\E slot \in Slots : ReadHead(r, slot)) \/ Validate(r)
      <3>1. /\ reader'[r].pc # "idle"
            /\ ReaderTrue(disk, overtaken'[r], seen'[r], stops, Cleaning, reader'[r])
        BY <2>2, ReadRepositoryTrue, ReadHeadTrue, ValidateTrue
      <3> QED
        BY <1>1, <1>3, <3>1
    <2> QED
      BY <2>1, <2>2 DEF Read
  <1> QED
    BY <1>1, <1>4, <1>5 DEF ReadersTrue

LEMMA StopKeepsReaders ==
    ASSUME StoreIInv, SoundIInv, Straight, Observe, ReadersTrue, stops \in Nat,
           NEW w \in Writers, Stop(w) \/ CleanupFails(w)
    PROVE  ReadersTrue' /\ stops' = stops + 1
  <1>1. /\ UNCHANGED reader /\ stops' = stops + 1
        /\ disk'.heads = disk.heads /\ disk'.repository = disk.repository
        /\ disk'.generations \subseteq disk.generations
    BY FailedCleanup DEF Stop, StoreIInv
  <1> QED
    BY <1>1, WaitingKeepsReader DEF ReadersTrue

LEMMA PowerLossKeepsReaders ==
    ASSUME Observe, PowerLoss PROVE ReadersTrue' /\ stops' = stops
  <1>1. \A r \in Readers : reader'[r] = IdleReader /\ IdleReader.pc = "idle"
    BY DEF PowerLoss, IdleReader
  <1>2. \A r \in Readers : overtaken'[r] = 0
    BY <1>1, HistoryGoesOn
  <1> QED
    BY <1>1, <1>2 DEF ReadersTrue, PowerLoss

\* A writer that has not been told of a failure warns of nothing.
LEMMA WriteKeepsSilence ==
    ASSUME Types, SoundIInv, NEW w \in Writers, Write(w), \A v \in Writers : ~writer[v].warned
    PROVE  \A v \in Writers : ~writer'[v].warned
  <1>1. writer \in [Writers -> WriterType] /\ ~IdleWriter.warned
    BY DEF Types, IdleWriter
  <1>2. CASE Leave(w)
    BY <1>1, <1>2, Leaving
  <1>3. CASE \E place : Goto(w, place)
    BY <1>1, <1>3 DEF Goto, WriterType
  <1>4. CASE \E repository : writer' = [writer EXCEPT ![w].pc = "lock", ![w].repository = repository]
    BY <1>1, <1>4 DEF WriterType
  <1>5. CASE AdoptRepository(w)
    BY <1>2, <1>4, <1>5 DEF AdoptRepository
  <1>6. CASE (\E mode \in Modes : Enter(w, mode)) \/ ListEntries(w) \/ WriteRepository(w)
             \/ SyncRepository(w) \/ BeginGeneration(w) \/ SyncGenerations(w) \/ Discard(w)
             \/ Promote(w) \/ ReplaceHead(w) \/ SyncControls(w) \/ Return(w)
    <2>1. CASE \E mode \in Modes : \E place : writer' = [writer EXCEPT ![w].pc = place, ![w].mode = mode]
      BY <1>1, <2>1 DEF WriterType
    <2> QED
      BY <1>2, <1>3, <1>5, <1>6, <2>1 DEF Enter, ListEntries, WriteRepository, SyncRepository,
            BeginGeneration, SyncGenerations, Discard, Promote, ReplaceHead, SyncControls, Return, Abandon
  <1>7. CASE CreateRepository(w)
    <2>1. CASE writer' = [writer EXCEPT ![w].pc = "write", ![w].repository = identities + 1]
      BY <1>1, <2>1 DEF WriterType
    <2> QED
      BY <1>5, <1>7, <2>1 DEF CreateRepository
  <1>8. CASE TryLock(w)
    <2>1. CASE \E head : writer' = [writer EXCEPT ![w].pc = "admitted", ![w].admitted = head]
      BY <1>1, <2>1 DEF WriterType
    <2>2. CASE writer' = [writer EXCEPT ![w].pc = "admitted", ![w].repository = disk.repository]
      BY <1>1, <2>2 DEF WriterType
    <2>3. CASE writer' = [writer EXCEPT ![w].pc = "admitted", ![w].fresh = TRUE,
                                        ![w].repository = identities + 1]
      BY <1>1, <2>3 DEF WriterType
    <2> QED
      BY <1>2, <1>8, <2>1, <2>2, <2>3 DEF TryLock
  <1>9. CASE Seal(w)
    <2>1. CASE \E slot, head : writer' = [writer EXCEPT ![w].pc = "promote", ![w].slot = slot, ![w].head = head]
      BY <1>1, <2>1 DEF WriterType
    <2> QED
      BY <1>2, <1>9, <2>1 DEF Seal, Abandon
  <1>10. CASE CommitRepository(w)
    BY <1>1, <1>10 DEF CommitRepository, WriterType
  <1>11. CASE ScanForCleanup(w)
    <2>1. InvalidSlots(disk.heads) = {}
      BY DEF InvalidSlots, SoundIInv, SoundTrue
    <2>2. \E retain : writer' = [writer EXCEPT ![w].pc = "reclaim", ![w].retain = retain,
                                               ![w].left = {}, ![w].warned = FALSE]
      BY <1>11, <2>1 DEF ScanForCleanup
    <2> QED
      BY <1>1, <2>2 DEF WriterType
  <1>12. CASE Reclaim(w)
    BY <1>12 DEF Reclaim
  <1> QED
    BY <1>6, <1>7, <1>8, <1>9, <1>10, <1>11, <1>12 DEF Write

LEMMA StepKeepsUnwarned ==
    ASSUME StoreIInv, SoundIInv, stops \in Nat, Unwarned, Next, ~Fault PROVE Unwarned'
  <1> SUFFICES ASSUME stops' = 0 PROVE \A w \in Writers : ~writer'[w].warned
    BY DEF Unwarned
  <1>1. ASSUME NEW w \in Writers, Write(w) PROVE \A v \in Writers : ~writer'[v].warned
    <2>1. stops' = stops
      BY <1>1 DEF Write, Enter, ListEntries, CreateRepository, WriteRepository, SyncRepository, TryLock,
             BeginGeneration, Discard, Seal, Promote, SyncGenerations, CommitRepository,
             ReplaceHead, SyncControls, ScanForCleanup, Reclaim, Return, Bystanders
    <2> QED
      BY <1>1, <2>1, WriteKeepsSilence DEF Unwarned, StoreIInv
  <1>2. ASSUME NEW w \in Writers, Stop(w) \/ CleanupFails(w) PROVE FALSE
    BY <1>2 DEF Stop, CleanupFails
  <1>3. ASSUME NEW r \in Readers, Read(r) PROVE UNCHANGED <<writer, stops>>
    BY <1>3 DEF Read, ReadRepository, ReadHead, Validate, Close, Bystanders
  <1>4. CASE PowerLoss
    BY <1>4 DEF PowerLoss, IdleWriter
  <1> QED
    BY <1>1, <1>2, <1>3, <1>4 DEF Next, Unwarned

LEMMA StepKeepsReaders ==
    ASSUME StoreIInv, SoundIInv, NewestIsCurrent, NewestIsCurrent', ModesTrue, ModesTrue',
           ReadersIInv, [Next]_vars, ~Fault
    PROVE  ReadersIInv'
  <1>1. CASE UNCHANGED vars
    <2>1. Straight' <=> Straight
      BY <1>1 DEF vars, Straight
    <2>2. ReadersTrue' <=> ReadersTrue
      BY <1>1 DEF vars, ReadersTrue, Cleaning
    <2>3. UNCHANGED <<stops, recovered>> /\ (Unwarned' <=> Unwarned)
      BY <1>1 DEF vars, Unwarned
    <2> QED
      BY <2>1, <2>2, <2>3 DEF ReadersIInv
  <1>2. CASE Next
    <2>1. stops' \in Nat
      <3>1. \A w \in Writers : Write(w) => stops' = stops
        BY DEF Write, Enter, ListEntries, CreateRepository, WriteRepository, SyncRepository, TryLock,
               BeginGeneration, Discard, Seal, Promote, SyncGenerations, CommitRepository,
               ReplaceHead, SyncControls, ScanForCleanup, Reclaim, Return, Bystanders
      <3>2. \A w \in Writers : Stop(w) \/ CleanupFails(w) => stops' = stops + 1
        BY DEF Stop, CleanupFails
      <3>3. \A r \in Readers : Read(r) => stops' = stops
        BY DEF Read, ReadRepository, ReadHead, Validate, Close, Bystanders
      <3>4. PowerLoss => stops' = stops
        BY DEF PowerLoss
      <3> QED
        BY <1>2, <3>1, <3>2, <3>3, <3>4 DEF Next, ReadersIInv
    <2>2. ASSUME ~recovered' PROVE Straight' /\ ReadersTrue'
      <3>1. Observe /\ ~recovered
        BY <1>2, <2>2, Observed DEF Observe
      <3>2. Straight /\ ReadersTrue /\ stops \in Nat /\ Unwarned
        BY <3>1 DEF ReadersIInv
      <3>3. Straight'
        BY <1>2, <2>2, <3>2, StepKeepsStraight
      <3>4. \A w \in Writers : writer[w].mode = "Strict"
        BY <3>1 DEF ModesTrue
      <3>5. CASE \E w \in Writers : Write(w)
        BY <3>1, <3>2, <3>3, <3>4, <3>5, WriteKeepsReaders
      <3>6. CASE \E w \in Writers : Stop(w) \/ CleanupFails(w)
        BY <3>1, <3>2, <3>6, StopKeepsReaders, <3>3
      <3>7. CASE \E r \in Readers : Read(r)
        BY <3>1, <3>2, <3>3, <3>7, ReadKeepsReaders
      <3>8. CASE PowerLoss
        BY <3>1, <3>3, <3>8, PowerLossKeepsReaders
      <3> QED
        BY <1>2, <3>5, <3>6, <3>7, <3>8 DEF Next
    <2>3. Unwarned'
      BY <1>2, StepKeepsUnwarned DEF ReadersIInv
    <2> QED
      BY <2>1, <2>2, <2>3 DEF ReadersIInv
  <1> QED
    BY <1>1, <1>2

LEMMA InitReaders == ASSUME Init PROVE ReadersIInv
  <1>1. /\ stable = disk /\ \A s \in Slots : disk.heads[s] = Missing
        /\ stops = 0 /\ \A r \in Readers : reader[r] = IdleReader /\ overtaken[r] = 0
        /\ \A w \in Writers : writer[w] = IdleWriter
    BY DEF Init
  <1>2. Straight
    BY <1>1 DEF Straight, Consecutive
  <1>3. ReadersTrue
    BY <1>1 DEF ReadersTrue, IdleReader
  <1>4. Unwarned
    BY <1>1 DEF Unwarned, IdleWriter
  <1> QED
    BY <1>1, <1>2, <1>3, <1>4 DEF ReadersIInv

LEMMA ReadersInductive ==
    ASSUME NoFaults PROVE Spec => [](StoreIInv /\ SoundIInv /\ ModesTrue /\ ReadersIInv)
  <1>1. Init => ModesTrue /\ ReadersIInv
    BY InitModes, InitReaders
  <1>2. StoreIInv /\ StoreIInv' /\ ModesTrue /\ [Next]_vars => ModesTrue'
    BY StepKeepsModes DEF StoreIInv
  <1>3. /\ StoreIInv /\ SoundIInv /\ NewestIsCurrent /\ NewestIsCurrent' /\ ModesTrue /\ ModesTrue'
        /\ ReadersIInv /\ [Next]_vars
        => ReadersIInv'
    BY StepKeepsReaders DEF NoFaults, Fault
  <1>4. Spec => [](StoreIInv /\ SoundIInv /\ NewestIsCurrent)
    BY SoundInductive, CurrentIsNewest, PTL
  <1> QED
    BY <1>1, <1>2, <1>3, <1>4, PTL DEF Spec

\* Beside writers that do not recover, in a store whose medium does not fail, a
\* reader, which takes no lock and reads the two heads one after the other,
\* answers with a head that was current while it ran, unless a publication was
\* cut short and two others overtook it; and it fails only when two
\* publications overtook it.
THEOREM ReadersAreServed == ASSUME NoFaults PROVE Spec => []ReaderServed
  <1>1. ASSUME ReadersIInv PROVE ReaderServed
    <2> SUFFICES ASSUME ~recovered, NEW r \in Readers
                 PROVE  /\ reader[r].pc = "answered" /\ (stops = 0 \/ overtaken[r] < 2)
                           => reader[r].answer \in seen[r]
                        /\ reader[r].pc = "failed" => overtaken[r] >= 2
      BY DEF ReaderServed, StrictReaderAnswerWasCurrent, ReaderFailsOnlyWhenOvertaken
    <2>1. reader[r].pc # "idle" =>
             Place(disk, overtaken[r], seen[r], stops, reader[r])
      BY <1>1 DEF ReadersIInv, ReadersTrue, ReaderTrue
    <2> QED
      BY <2>1 DEF Place
  <1>2. ReadersIInv => ReaderServed
    BY <1>1
  <1> QED
    BY <1>2, ReadersInductive, PTL


-----------------------------------------------------------------------------
(* One fault: what writers leave.                                          *)

LEMMA FreeLeaves ==
    ASSUME NEW d, NEW t, NEW m, NEW a, NEW x, x.pc \notin WithHead \cup Finishing
    PROVE  Leaves(d, t, m, a, x)
  BY DEF Leaves, WithHead, AfterHead

LEMMA SameLeaves ==
    ASSUME NEW d, NEW t, NEW m, NEW a, NEW x, NEW y, y.head = x.head, y.slot = x.slot,
           \/ x.pc \in BeforeHead \cap WithHead /\ y.pc \in BeforeHead \cap WithHead
           \/ x.pc \in Finishing /\ y.pc \in Finishing,
           Leaves(d, t, m, a, x)
    PROVE  Leaves(d, t, m, a, y)
  BY DEF Leaves, BeforeHead, BeforeCommit, WithHead, AfterHead, Finishing

\* The records stay, or become durable, and no whole generation is lost.
LEMMA QuietTolerant ==
    ASSUME NEW d, NEW t, NEW e, NEW u, NEW m, NEW n, NEW a,
           e.heads = d.heads, u.heads \in {t.heads, d.heads}, n \subseteq m,
           \A h \in Survivors(d, t) : h.generation \in (d.generations \cap t.generations) \ m
                                      => h.generation \in (e.generations \cap u.generations) \ n,
           Tolerant(d, t, m, a)
    PROVE  /\ Tolerant(e, u, n, a)
           /\ \A x : Leaves(d, t, m, a, x) => Leaves(e, u, n, a, x)
  <1>1. Survivors(e, u) \subseteq Survivors(d, t)
    BY DEF Survivors
  <1>2. \A s \in Slots : /\ IsValid(d.heads[s]) => d.heads[s] \in Survivors(d, t)
                         /\ IsValid(t.heads[s]) => t.heads[s] \in Survivors(d, t)
    BY DEF Survivors, Slots
  <1>3. ASSUME NEW s \in Slots, Steady(d, t, m, s) PROVE Steady(e, u, n, s)
    <2>1. Whole(e, u, n, d.heads[s]) /\ Whole(e, u, n, t.heads[s])
      BY <1>2, <1>3 DEF Steady, Whole
    <2> QED
      BY <2>1 DEF Steady
  <1>4. Tolerant(e, u, n, a)
    BY <1>1, <1>3 DEF Tolerant
  <1>5. ASSUME NEW x, Leaves(d, t, m, a, x) PROVE Leaves(e, u, n, a, x)
    <2>1. x.pc \in WithHead \cup Finishing => x.slot \in Slots /\ 1 - x.slot \in Slots
      BY <1>5 DEF Leaves, Slots
    <2>2. x.pc \in BeforeHead \cap WithHead =>
             Steady(e, u, n, 1 - x.slot) \/ x.head.generation \notin n \/ x.head.sequence <= 1
      BY <1>3, <1>5, <2>1 DEF Leaves
    <2>3. x.pc = "syncHead" =>
             \/ \E s \in Slots : Steady(e, u, n, s)
             \/ e.heads[x.slot] = x.head /\ x.head.generation \notin n
             \/ x.head.sequence <= 1
      BY <1>3, <1>5 DEF Leaves
    <2>4. x.pc \in Finishing => (\E s \in Slots : Steady(e, u, n, s)) \/ x.head.sequence <= 1
      BY <1>3, <1>5 DEF Leaves
    <2> QED
      BY <1>1, <1>5, <2>2, <2>3, <2>4 DEF Leaves
  <1> QED
    BY <1>4, <1>5

\* A step other than the replacement of a head takes no whole generation that
\* a record names.
LEMMA PopulationKept ==
    ASSUME StoreIInv, NEW w \in Writers, Write(w), ~ReplaceHead(w)
    PROVE  /\ damaged' \subseteq damaged
           /\ \A h \in Survivors(disk, stable) :
                 h.generation \in (disk.generations \cap stable.generations) \ damaged
                 => h.generation \in (disk'.generations \cap stable'.generations) \ damaged'
  <1>1. disk \in StoreType /\ stable \in StoreType
    BY DEF StoreIInv, Types
  <1>2. ASSUME damaged' = damaged, disk.generations \subseteq disk'.generations,
               disk.generations \cap stable.generations \subseteq stable'.generations
        PROVE  /\ damaged' \subseteq damaged
               /\ \A h \in Survivors(disk, stable) :
                     h.generation \in (disk.generations \cap stable.generations) \ damaged
                     => h.generation \in (disk'.generations \cap stable'.generations) \ damaged'
    BY <1>2
  <1>3. CASE (\E mode \in Modes : Enter(w, mode)) \/ ListEntries(w) \/ Seal(w) \/ ScanForCleanup(w) \/ Return(w)
    BY <1>2, <1>3 DEF Enter, ListEntries, Seal, ScanForCleanup, Return
  <1>4. CASE CreateRepository(w) \/ WriteRepository(w) \/ CommitRepository(w)
    BY <1>1, <1>2, <1>4 DEF CreateRepository, WriteRepository, CommitRepository, StoreType
  <1>5. CASE SyncRepository(w) \/ SyncControls(w) \/ TryLock(w)
    BY <1>1, <1>2, <1>5 DEF SyncRepository, SyncControls, TryLock, Synced, StoreType
  <1>6. CASE BeginGeneration(w) \/ Discard(w) \/ SyncGenerations(w)
    BY <1>1, <1>2, <1>6 DEF BeginGeneration, Discard, SyncGenerations, StoreType
  <1>7. CASE Promote(w)
    BY <1>1, <1>2, <1>7 DEF Promote, StoreType
  <1>8. ASSUME Reclaim(w), NEW generation \in disk.generations \ writer[w].retain,
               disk' = [disk EXCEPT !.generations = @ \ {generation}],
               stable' = [stable EXCEPT !.generations = disk'.generations],
               damaged' = damaged \ {generation}
        PROVE  /\ damaged' \subseteq damaged
               /\ \A h \in Survivors(disk, stable) :
                     h.generation \in (disk.generations \cap stable.generations) \ damaged
                     => h.generation \in (disk'.generations \cap stable'.generations) \ damaged'
    <2>1. \A h \in Survivors(disk, stable) : h.generation \in writer[w].retain
      BY <1>8 DEF Reclaim, StoreIInv, WriterTrue, GenerationsTrue
    <2>2. disk'.generations = disk.generations \ {generation} /\ stable'.generations = disk'.generations
      BY <1>1, <1>8 DEF StoreType
    <2> QED
      BY <1>8, <2>1, <2>2
  <1>9. CASE Reclaim(w)
    BY <1>2, <1>8, <1>9 DEF Reclaim
  <1> QED
    BY <1>3, <1>4, <1>5, <1>6, <1>7, <1>9 DEF Write

LEMMA FailedCleanupKeepsPopulation ==
    ASSUME StoreIInv, NEW w \in Writers, CleanupFails(w),
           NEW h \in Survivors(disk, stable),
           h.generation \in (disk.generations \cap stable.generations) \ damaged
    PROVE  h.generation \in (disk'.generations \cap stable'.generations) \ damaged'
  <1>1. disk \in StoreType /\ stable \in StoreType
    BY DEF StoreIInv, Types
  <1>2. CASE ScanFails(w)
    BY <1>2 DEF ScanFails
  <1>3. CASE RemovalFails(w)
    <2>1. h.generation \in writer[w].retain
      BY <1>3 DEF RemovalFails, StoreIInv, WriterTrue, GenerationsTrue
    <2>2. ASSUME NEW generation \in disk.generations \ writer[w].retain,
                 disk' = [disk EXCEPT !.generations = @ \ {generation}],
                 damaged' = damaged \ {generation},
                 \/ stable' = [stable EXCEPT !.generations = disk'.generations]
                 \/ UNCHANGED stable
          PROVE  h.generation \in (disk'.generations \cap stable'.generations) \ damaged'
      BY <1>1, <2>1, <2>2 DEF StoreType
    <2> QED
      BY <1>3, <2>2 DEF RemovalFails
  <1> QED
    BY <1>2, <1>3 DEF CleanupFails

\* A recovery apart, nobody commits an identity.
LEMMA StrictCommitsNothing ==
    ASSUME StoreIInv, ModesTrue, NEW w \in Writers, writer[w].mode = "Strict"
    PROVE  /\ writer[w].pc \notin {"commit", "syncCommit", "secondHead", "syncSecond"} /\ ~writer[w].fresh
           /\ ~CommitRepository(w)
  BY DEF ModesTrue, StoreIInv, WriterTrue, IdentityTrue, CommitRepository

\* Every step of a writer but those that seal, touch a head or acknowledge.
LEMMA PlaceLeaves ==
    ASSUME StoreIInv, ModesTrue, NEW w \in Writers, writer[w].mode = "Strict", Write(w),
           ~Seal(w), ~ReplaceHead(w), ~SyncControls(w), ~Return(w), NEW d, NEW t, NEW m, NEW a,
           Leaves(d, t, m, a, writer[w])
    PROVE  Leaves(d, t, m, a, writer'[w])
  <1>1. writer \in [Writers -> WriterType] /\ Types /\ ~CommitRepository(w) /\ ~writer[w].fresh
    BY StrictCommitsNothing DEF StoreIInv, Types
  <1> USE FreeLeaves
  <1>2. ASSUME NEW x, writer' = [writer EXCEPT ![w] = x], x.pc \notin WithHead \cup Finishing
        PROVE  Leaves(d, t, m, a, writer'[w])
    BY <1>1, <1>2
  <1>3. CASE Leave(w)
    BY <1>2, <1>3 DEF Leave, IdleWriter, WithHead, AfterHead, Finishing
  <1>4. CASE AdoptRepository(w)
    BY <1>1, <1>4, Adopting DEF IdleWriter, WithHead, AfterHead, Finishing
  <1>5. CASE \E place \in {"list", "create", "build", "lock", "syncRepository"} : Goto(w, place)
    BY <1>1, <1>5 DEF Goto, WriterType, WithHead, AfterHead, Finishing
  <1>6. CASE \E mode \in Modes : Enter(w, mode)
    <2>1. CASE \E mode \in Modes : writer' = [writer EXCEPT ![w].pc = "lock", ![w].mode = mode]
      <3>1. writer'[w].pc = "lock"
        BY <1>1, <2>1 DEF WriterType
      <3> QED
        BY <3>1 DEF WithHead, AfterHead, Finishing
    <2> QED
      BY <1>4, <1>5, <1>6, <2>1 DEF Enter
  <1>7. CASE CreateRepository(w)
    <2>1. CASE writer' = [writer EXCEPT ![w].pc = "write", ![w].repository = identities + 1]
      BY <1>1, <2>1 DEF WriterType, WithHead, AfterHead, Finishing
    <2> QED
      BY <1>4, <1>7, <2>1 DEF CreateRepository
  <1>8. CASE TryLock(w)
    <2>1. CASE \E head : writer' = [writer EXCEPT ![w].pc = "admitted", ![w].admitted = head]
      BY <1>1, <2>1 DEF WriterType, WithHead, AfterHead, Finishing
    <2> QED
      BY <1>3, <1>8, <2>1 DEF TryLock
  <1>9. CASE ListEntries(w) \/ WriteRepository(w) \/ SyncRepository(w) \/ BeginGeneration(w) \/ Discard(w)
    BY <1>3, <1>4, <1>5, <1>9 DEF ListEntries, WriteRepository, SyncRepository, BeginGeneration, Discard
  <1>10. CASE Promote(w) \/ SyncGenerations(w)
    <2>1. ASSUME NEW place \in {"syncGenerations", "head"}, Goto(w, place)
          PROVE  Leaves(d, t, m, a, writer'[w])
      <3>1. writer[w].pc \in BeforeHead \cap WithHead /\ place \in BeforeHead \cap WithHead
        BY <1>10 DEF Promote, SyncGenerations, BeforeHead, BeforeCommit, WithHead
      <3>2. /\ writer'[w].pc = place /\ writer'[w].head = writer[w].head
            /\ writer'[w].slot = writer[w].slot
        BY <1>1, <2>1 DEF Goto, WriterType
      <3> QED
        BY <3>1, <3>2, SameLeaves
    <2>2. AfterPromotion(w) = "head"
      BY <1>1 DEF AfterPromotion
    <2> QED
      BY <1>3, <1>10, <2>1, <2>2 DEF Promote, SyncGenerations, Abandon
  <1>11. CASE ScanForCleanup(w)
    <2>1. /\ writer[w].pc = "cleanup" /\ writer'[w].pc = "reclaim"
          /\ writer'[w].head = writer[w].head /\ writer'[w].slot = writer[w].slot
      BY <1>1, <1>11 DEF ScanForCleanup, WriterType
    <2> QED
      BY <2>1, SameLeaves DEF Finishing
  <1>12. CASE Reclaim(w)
    BY <1>12 DEF Reclaim
  <1> QED
    BY <1>1, <1>6, <1>7, <1>8, <1>9, <1>10, <1>11, <1>12 DEF Write


\* A strict writer builds on a generation it has validated, and leaves that
\* head alone.
LEMMA SealLeaves ==
    ASSUME StoreIInv, ModesTrue, NEW w \in Writers, writer[w].mode = "Strict", Seal(w),
           Tolerant(disk, stable, damaged, acked)
    PROVE  Leaves(disk, stable, damaged, acked, writer'[w])
  <1>1. /\ writer \in [Writers -> WriterType] /\ writer[w].pc = "build" /\ disk \in StoreType
        /\ disk.heads \in [Slots -> Heads] /\ ~writer[w].fresh
    BY StrictCommitsNothing DEF Seal, StoreIInv, Types, StoreType
  <1>2. disk.heads = stable.heads /\ disk.generations = stable.generations
    BY <1>1 DEF StoreIInv, WriterTrue, HeadsTrue, GenerationsTrue, BeforeHead, BeforeCommit
  <1>3. CASE Abandon(w)
    <2>1. writer'[w].pc = "idle"
      BY <1>1, <1>3, Leaving DEF Abandon, IdleWriter
    <2> QED
      BY <2>1, FreeLeaves DEF WithHead, AfterHead, Finishing
  <1>4. ASSUME NEW slot \in Slots \cup {NoSlot}, NEW content \in Contents, CurrentForCandidate(w, slot),
               NextSequence(disk.heads) <= MaxSequence,
               writer' = [writer EXCEPT
                   ![w].pc = "promote", ![w].slot = PublishSlot(disk.heads, slot),
                   ![w].head = Candidate(writer[w].repository, slot, content)]
        PROVE  Leaves(disk, stable, damaged, acked, writer'[w])
    <2> DEFINE head == Candidate(writer[w].repository, slot, content)
               place == PublishSlot(disk.heads, slot)
               newest == NewestOf(disk.heads, ValidSlots(disk.heads))
    <2>1. writer[w].repository \in Identities
      BY <1>1 DEF StoreIInv, WriterTrue, IdentityTrue, Held
    <2>2. /\ head \in ValidHeads /\ head.repository = writer[w].repository
          /\ head.sequence = NextSequence(disk.heads) /\ place \in Slots
      BY <1>1, <1>4, <2>1, CandidateKind
    <2>3. writer' = [writer EXCEPT ![w].pc = "promote", ![w].slot = place, ![w].head = head]
      BY <1>4
    <2> HIDE DEF head, place
    <2>4. writer'[w].pc = "promote" /\ writer'[w].slot = place /\ writer'[w].head = head
      BY <1>1, <2>3 DEF WriterType
    <2>5. \/ /\ slot \in Slots /\ IsValid(disk.heads[slot])
             /\ Validates(disk.heads[slot], writer[w].repository)
          \/ slot = NoSlot /\ \A s \in Slots : disk.heads[s] = Missing
      <3>1. \/ newest # NoSlot /\ slot = newest /\ Validates(disk.heads[newest], writer[w].repository)
            \/ /\ slot = Resolve(writer[w].repository)
               /\ Resolve(writer[w].repository) # NoSlot \/ \A s \in Slots : disk.heads[s] = Missing
        BY <1>4 DEF CurrentForCandidate
      <3>2. newest # NoSlot => newest \in ValidSlots(disk.heads)
        BY <1>1, NewestSlot DEF ValidSlots
      <3> HIDE DEF newest
      <3> QED
        BY <1>1, <3>1, <3>2, ResolvedSlot DEF ValidSlots
    <2>6. CASE /\ slot \in Slots /\ IsValid(disk.heads[slot])
               /\ Validates(disk.heads[slot], writer[w].repository)
      <3>1. slot \notin InvalidSlots(disk.heads)
        BY <2>6, HeadKinds DEF InvalidSlots
      <3>2. place = 1 - slot
        <4>1. CASE InvalidSlots(disk.heads) = {}
          BY <2>6, <4>1 DEF place, PublishSlot, Slots, NoSlot
        <4>2. CASE InvalidSlots(disk.heads) # {}
          <5>1. InvalidSlots(disk.heads) = {1 - slot} /\ 1 - slot \in Int
            BY <2>6, <3>1, <4>2 DEF InvalidSlots, Slots
          <5>2. place = CHOOSE s \in InvalidSlots(disk.heads) : \A u \in InvalidSlots(disk.heads) : s <= u
            BY <4>2 DEF place, PublishSlot
          <5> QED
            BY <5>1, <5>2
        <4> QED
          BY <4>1, <4>2
      <3>3. 1 - place = slot
        BY <2>6, <3>2 DEF Slots
      <3>4. Steady(disk, stable, damaged, 1 - place)
        BY <1>2, <2>6, <3>3 DEF Steady, Whole, Validates
      <3>5. /\ disk.heads[slot] \in Survivors(disk, stable) /\ disk.heads[slot] # Missing
            /\ disk.heads[slot].repository = head.repository
        BY <2>2, <2>6, HeadKinds DEF Survivors, Slots, Validates
      <3>6. \A h \in Survivors(disk, stable) \cup {acked} : h # Missing => h.repository = head.repository
        BY <3>5 DEF Tolerant
      <3> QED
        BY <2>2, <2>4, <3>4, <3>6 DEF Leaves, Finishing
    <2>7. CASE slot = NoSlot /\ \A s \in Slots : disk.heads[s] = Missing
      <3>1. ValidSlots(disk.heads) = {} /\ Survivors(disk, stable) = {}
        BY <1>2, <2>7, HeadKinds DEF ValidSlots, Survivors, Slots
      <3>2. head.sequence = 1
        BY <2>2, <3>1 DEF NextSequence, NewestOf
      <3>3. acked = Missing
        BY <2>7 DEF Tolerant
      <3> QED
        BY <2>2, <2>4, <3>1, <3>2, <3>3 DEF Leaves, Finishing
    <2> QED
      BY <2>5, <2>6, <2>7
  <1> QED
    BY <1>3, <1>4 DEF Seal, Candidate

\* The renamed head stands beside the one that serves, or serves itself.
LEMMA ReplaceTolerant ==
    ASSUME StoreIInv, ModesTrue, NEW w \in Writers, writer[w].mode = "Strict", ReplaceHead(w),
           Tolerant(disk, stable, damaged, acked), Leaves(disk, stable, damaged, acked, writer[w])
    PROVE  /\ Tolerant(disk', stable', damaged', acked')
           /\ Leaves(disk', stable', damaged', acked', writer'[w])
  <1> DEFINE x == writer[w]
             q == writer[w].slot
  <1>1. /\ x.pc = "head" /\ Goto(w, "syncHead") /\ UNCHANGED <<stable, damaged, acked>>
        /\ disk' = [disk EXCEPT !.heads[q] = x.head]
        /\ disk \in StoreType /\ stable \in StoreType /\ writer \in [Writers -> WriterType]
    BY StrictCommitsNothing DEF ReplaceHead, Bystanders, StoreIInv, Types
  <1>2. /\ x.head \in ValidHeads /\ q \in Slots /\ 1 - q \in Slots /\ 1 - q # q
        /\ \A h \in Survivors(disk, stable) \cup {acked} : h # Missing => h.repository = x.head.repository
        /\ \/ Steady(disk, stable, damaged, 1 - q)
           \/ x.head.generation \notin damaged
           \/ x.head.sequence <= 1
    BY <1>1 DEF Leaves, BeforeHead, WithHead, Slots
  <1>3. /\ disk.heads = stable.heads /\ x.head.generation \in disk.generations \cap stable.generations
        /\ \A h \in Survivors(disk, stable) : h.sequence < x.head.sequence
    BY <1>1 DEF StoreIInv, WriterTrue, HeadsTrue, GenerationsTrue, BeforeHead, WithHead, AfterHead
  <1>4. /\ disk'.heads = [disk.heads EXCEPT ![q] = x.head] /\ disk'.generations = disk.generations
        /\ disk.heads \in [Slots -> Heads]
    BY <1>1 DEF StoreType
  <1>5. disk'.heads[q] = x.head /\ disk'.heads[1 - q] = disk.heads[1 - q]
    BY <1>2, <1>4
  <1>6. writer'[w].pc = "syncHead" /\ writer'[w].head = x.head /\ writer'[w].slot = q
    BY <1>1 DEF Goto, WriterType
  <1>7. IsValid(x.head) /\ x.head # Missing
    BY <1>2, HeadKinds DEF Heads
  <1> HIDE DEF x, q
  <1>8. ASSUME Steady(disk, stable, damaged, 1 - q) PROVE Steady(disk', stable', damaged', 1 - q)
    BY <1>1, <1>4, <1>5, <1>8 DEF Steady, Whole
  <1>9. ASSUME Steady(disk, stable, damaged, q), x.head.generation \notin damaged
        PROVE  Steady(disk', stable', damaged', q)
    BY <1>1, <1>3, <1>4, <1>5, <1>7, <1>9 DEF Steady, Whole
  <1>10. Survivors(disk', stable') \subseteq Survivors(disk, stable) \cup {x.head}
    BY <1>1, <1>2, <1>5 DEF Survivors, Slots
  <1>11. ASSUME acked'.sequence >= 2 PROVE \E s \in Slots : Steady(disk', stable', damaged', s)
    <2>1. PICK s \in Slots : Steady(disk, stable, damaged, s)
      BY <1>1, <1>11 DEF Tolerant
    <2>2. x.head.sequence > 1
      <3>1. disk.heads[s] \in Survivors(disk, stable) /\ IsValid(disk.heads[s]) /\ disk.heads[s].sequence \in Int
        BY <1>4, <2>1, HeadKinds DEF Steady, Whole, Survivors, Slots
      <3>2. disk.heads[s].sequence > 0 /\ disk.heads[s].sequence < x.head.sequence
        BY <1>3, <3>1 DEF IsValid
      <3> QED
        BY <1>2, <3>1, <3>2, HeadKinds
    <2>3. s = q \/ s = 1 - q
      BY <1>2 DEF Slots
    <2>4. x.head.sequence \in Nat
      BY <1>2, ReadNumbers
    <2> QED
      BY <1>2, <1>8, <1>9, <2>1, <2>2, <2>3, <2>4
  <1>12. ASSUME acked' # Missing PROVE \E s \in Slots : disk'.heads[s] # Missing /\ stable'.heads[s] # Missing
    <2>1. PICK s \in Slots : disk.heads[s] # Missing /\ stable.heads[s] # Missing
      BY <1>1, <1>12 DEF Tolerant
    <2>2. s = q \/ s = 1 - q
      BY <1>2 DEF Slots
    <2> QED
      BY <1>1, <1>5, <1>7, <2>1, <2>2
  <1>13. \A g, h \in Survivors(disk', stable') \cup {acked'} :
            g # Missing /\ h # Missing => g.repository = h.repository
    BY <1>1, <1>2, <1>10
  <1>14. Tolerant(disk', stable', damaged', acked')
    BY <1>11, <1>12, <1>13 DEF Tolerant
  <1>15. \/ \E s \in Slots : Steady(disk', stable', damaged', s)
         \/ disk'.heads[q] = x.head /\ x.head.generation \notin damaged'
         \/ x.head.sequence <= 1
    BY <1>1, <1>2, <1>5, <1>8
  <1>16. \A h \in Survivors(disk', stable') \cup {acked'} : h # Missing => h.repository = x.head.repository
    BY <1>1, <1>2, <1>10
  <1> QED
    BY <1>2, <1>5, <1>6, <1>7, <1>14, <1>15, <1>16 DEF Leaves, BeforeHead, BeforeCommit, Finishing

\* Once it is synchronised one of the two serves, whatever a power loss leaves.
LEMMA SyncControlsLeaves ==
    ASSUME StoreIInv, ModesTrue, NEW w \in Writers, writer[w].mode = "Strict", SyncControls(w),
           Tolerant(disk, stable, damaged, acked), Leaves(disk, stable, damaged, acked, writer[w])
    PROVE  Leaves(disk', stable', damaged', acked', writer'[w])
  <1> DEFINE x == writer[w]
  <1>1. /\ x.pc = "syncHead" /\ Goto(w, "cleanup") /\ UNCHANGED <<disk, damaged, acked>>
        /\ stable' = Synced /\ stable \in StoreType /\ disk \in StoreType /\ writer \in [Writers -> WriterType]
    BY StrictCommitsNothing DEF SyncControls, Bystanders, StoreIInv, Types
  <1>2. /\ writer'[w].pc = "cleanup" /\ writer'[w].head = x.head /\ writer'[w].slot = x.slot
    BY <1>1 DEF Goto, WriterType
  <1>3. stable'.heads = disk.heads /\ stable'.generations = stable.generations
    BY <1>1 DEF Synced, StoreType
  <1>4. /\ x.head \in ValidHeads /\ x.slot \in Slots /\ disk.heads[x.slot] # Missing
        /\ \A h \in Survivors(disk, stable) \cup {acked} : h # Missing => h.repository = x.head.repository
        /\ \/ \E s \in Slots : Steady(disk, stable, damaged, s)
           \/ disk.heads[x.slot] = x.head /\ x.head.generation \notin damaged
           \/ x.head.sequence <= 1
    BY <1>1 DEF Leaves, WithHead, AfterHead
  <1>5. x.head.generation \in disk.generations \cap stable.generations
    BY <1>1 DEF StoreIInv, WriterTrue, GenerationsTrue, AfterHead
  <1> HIDE DEF x
  <1>6. (\E s \in Slots : Steady(disk', stable', damaged', s)) \/ x.head.sequence <= 1
    <2>1. ASSUME NEW s \in Slots, Steady(disk, stable, damaged, s)
          PROVE  Steady(disk', stable', damaged', s)
      BY <1>1, <1>3, <2>1 DEF Steady, Whole
    <2>2. ASSUME disk.heads[x.slot] = x.head, x.head.generation \notin damaged
          PROVE  Steady(disk', stable', damaged', x.slot)
      BY <1>1, <1>3, <1>4, <1>5, <2>2, ReadNumbers DEF Steady, Whole
    <2> QED
      BY <1>4, <2>1, <2>2
  <1>7. Survivors(disk', stable') \subseteq Survivors(disk, stable)
    BY <1>1, <1>3 DEF Survivors
  <1> QED
    BY <1>1, <1>2, <1>4, <1>6, <1>7 DEF Leaves, BeforeHead, BeforeCommit, WithHead, AfterHead, Finishing

\* What is acknowledged is on disk, beside a slot that serves.
LEMMA ReturnTolerant ==
    ASSUME StoreIInv, NEW w \in Writers, Return(w),
           Tolerant(disk, stable, damaged, acked), Leaves(disk, stable, damaged, acked, writer[w])
    PROVE  Tolerant(disk', stable', damaged', acked')
  <1> DEFINE x == writer[w]
  <1>1. x.pc = "reclaim" /\ acked' = x.head /\ UNCHANGED <<disk, stable, damaged>>
    BY DEF Return
  <1>2. /\ x.head \in ValidHeads /\ x.slot \in Slots /\ disk.heads[x.slot] # Missing
        /\ \A h \in Survivors(disk, stable) \cup {acked} : h # Missing => h.repository = x.head.repository
        /\ (\E s \in Slots : Steady(disk, stable, damaged, s)) \/ x.head.sequence <= 1
    BY <1>1 DEF Leaves, Finishing
  <1>3. stable.heads[x.slot] # Missing
    BY <1>1, <1>2 DEF StoreIInv, WriterTrue, HeadsTrue, Finishing
  <1>4. x.head.sequence \in Nat
    BY <1>2, ReadNumbers
  <1>5. \A g, h \in Survivors(disk, stable) \cup {x.head} :
            g # Missing /\ h # Missing => g.repository = h.repository
    BY <1>2
  <1> HIDE DEF x
  <1>6. Tolerant(disk, stable, damaged, x.head)
    BY <1>2, <1>3, <1>4, <1>5 DEF Tolerant
  <1> QED
    BY <1>1, <1>6


-----------------------------------------------------------------------------
(* One fault: the steps of the environment.                                *)

LEMMA PowerLossTolerant ==
    ASSUME FsyncCoversEntry, StoreIInv, PowerLoss, Tolerant(disk, stable, damaged, acked)
    PROVE  /\ Tolerant(disk', stable', damaged', acked')
           /\ \A w \in Writers : Leaves(disk', stable', damaged', acked', writer'[w])
  <1>1. /\ \A s \in Slots : disk'.heads[s] \in {disk.heads[s], stable.heads[s]}
        /\ disk.generations \cap stable.generations \subseteq disk'.generations
        /\ stable' = disk' /\ UNCHANGED acked /\ writer' = [w \in Writers |-> IdleWriter]
        /\ damaged' \subseteq damaged
    BY DEF PowerLoss
  <1>2. Survivors(disk', stable') \subseteq Survivors(disk, stable)
    BY <1>1 DEF Survivors, Slots
  <1>3. ASSUME NEW s \in Slots, Steady(disk, stable, damaged, s) PROVE Steady(disk', stable', damaged', s)
    BY <1>1, <1>3 DEF Steady, Whole
  <1>4. Tolerant(disk', stable', damaged', acked')
    BY <1>1, <1>2, <1>3 DEF Tolerant
  <1>5. \A w \in Writers : writer'[w].pc \notin WithHead \cup Finishing
    BY <1>1 DEF IdleWriter, WithHead, AfterHead, Finishing
  <1> QED
    BY <1>4, <1>5, FreeLeaves

\* A fault takes one record, on both sides, or one database, or the identity.
LEMMA FaultDoes ==
    ASSUME StoreIInv, Fault
    PROVE  /\ disk'.generations = disk.generations /\ stable'.generations = stable.generations
           /\ UNCHANGED <<acked, writer>>
           /\ \/ \E q \in Slots :
                    /\ \A u \in Slots : disk'.heads[u] = IF u = q THEN Invalid ELSE disk.heads[u]
                    /\ \A u \in Slots : stable'.heads[u] = IF u = q THEN Invalid ELSE stable.heads[u]
                    /\ damaged' = damaged
              \/ /\ disk'.heads = disk.heads /\ stable'.heads = stable.heads
                 /\ damaged' = damaged \/ \E g : damaged' = damaged \cup {g}
  <1>1. disk \in StoreType /\ stable \in StoreType /\ UNCHANGED <<acked, writer>>
    BY DEF Fault, StoreIInv, Types
  <1>2. CASE \E q \in Slots : /\ disk' = [disk EXCEPT !.heads[q] = Invalid]
                              /\ stable' = [stable EXCEPT !.heads[q] = Invalid] /\ UNCHANGED damaged
    <2>1. PICK q \in Slots : /\ disk' = [disk EXCEPT !.heads[q] = Invalid]
                             /\ stable' = [stable EXCEPT !.heads[q] = Invalid] /\ UNCHANGED damaged
      BY <1>2
    <2>2. /\ disk'.heads = [disk.heads EXCEPT ![q] = Invalid] /\ disk'.generations = disk.generations
          /\ stable'.heads = [stable.heads EXCEPT ![q] = Invalid] /\ stable'.generations = stable.generations
      BY <1>1, <2>1 DEF StoreType
    <2>3. \A u \in Slots : /\ disk'.heads[u] = IF u = q THEN Invalid ELSE disk.heads[u]
                           /\ stable'.heads[u] = IF u = q THEN Invalid ELSE stable.heads[u]
      BY <1>1, <2>2 DEF StoreType
    <2> QED
      BY <1>1, <2>1, <2>2, <2>3
  <1>3. CASE UNCHANGED <<disk, stable>> /\ \E g : damaged' = damaged \cup {g}
    BY <1>1, <1>3
  <1>4. CASE \E left : /\ disk' = [disk EXCEPT !.repository = left]
                       /\ stable' = [stable EXCEPT !.repository = left] /\ UNCHANGED damaged
    BY <1>1, <1>4 DEF StoreType
  <1>5. ValidSlots(disk.heads) \subseteq Slots
    BY DEF ValidSlots
  <1> QED
    BY <1>2, <1>3, <1>4, <1>5 DEF Fault

LEMMA FaultShrinks ==
    ASSUME StoreIInv, Fault
    PROVE  /\ Survivors(disk', stable') \subseteq Survivors(disk, stable)
           /\ \A u \in Slots : /\ disk.heads[u] # Missing => disk'.heads[u] # Missing
                               /\ stable.heads[u] # Missing => stable'.heads[u] # Missing
  <1>1. Missing # Invalid /\ ~IsValid(Invalid)
    BY HeadKinds DEF Missing, Invalid, HeadRecord
  <1>2. \A u \in Slots : /\ disk'.heads[u] \in {Invalid, disk.heads[u]}
                         /\ stable'.heads[u] \in {Invalid, stable.heads[u]}
    BY FaultDoes
  <1> QED
    BY <1>1, <1>2 DEF Survivors, Slots

\* What a fault leaves of a slot that a power loss could not touch, in a store
\* that had none before.
LEMMA FaultTakesOne ==
    ASSUME StoreIInv, SoundIInv, Fault, NEW s \in Slots, disk.heads[s] = stable.heads[s],
           IsValid(disk.heads[s])
    PROVE  \/ Steady(disk', stable', damaged', s)
           \/ /\ damaged' = {} /\ disk'.heads[1 - s] = disk.heads[1 - s]
              /\ stable'.heads[1 - s] = stable.heads[1 - s]
           \/ /\ damaged' = {disk.heads[s].generation}
              /\ disk'.heads = disk.heads /\ stable'.heads = stable.heads
  <1>1. damaged = {} /\ 1 - s \in Slots /\ 1 - s # s
    BY DEF SoundIInv, Slots
  <1>2. disk.heads[s].generation \in disk.generations \cap stable.generations
    BY DEF StoreIInv, StoreTrue, Survivors, Slots
  <1>3. disk'.generations = disk.generations /\ stable'.generations = stable.generations
    BY FaultDoes
  <1>4. CASE \E q \in Slots :
                    /\ \A u \in Slots : disk'.heads[u] = IF u = q THEN Invalid ELSE disk.heads[u]
                    /\ \A u \in Slots : stable'.heads[u] = IF u = q THEN Invalid ELSE stable.heads[u]
                    /\ damaged' = damaged
    BY <1>1, <1>2, <1>3, <1>4 DEF Steady, Whole
  <1>5. CASE /\ disk'.heads = disk.heads /\ stable'.heads = stable.heads
             /\ damaged' = damaged \/ \E g : damaged' = damaged \cup {g}
    BY <1>1, <1>2, <1>3, <1>5 DEF Steady, Whole
  <1> QED
    BY <1>4, <1>5, FaultDoes

\* Two heads in a row serve: one of them outlives a fault.
LEMMA OneOutlives ==
    ASSUME StoreIInv, SoundIInv, Straight, Fault, NEW s \in Slots, disk.heads[s] = stable.heads[s],
           disk.heads[s].sequence >= 2
    PROVE  \E u \in Slots : Steady(disk', stable', damaged', u)
  <1> DEFINE u == 1 - s
  <1>1. u \in Slots /\ 1 - u = s /\ \A v \in Slots : v = s \/ v = u
    BY DEF Slots
  <1>2. \A v \in Slots : /\ disk.heads[v].sequence \in Nat /\ stable.heads[v].sequence \in Nat
                         /\ disk.heads[v] \in Heads /\ stable.heads[v] \in Heads
    BY SoundFacts DEF StoreIInv, Types, StoreType
  <1>3. IsValid(disk.heads[s]) /\ disk.heads[s] # Missing
    BY <1>2, HeadKinds DEF IsValid
  <1>4. \A h \in {disk.heads[u], stable.heads[u]} :
           h.sequence = disk.heads[s].sequence + 1 \/ disk.heads[s].sequence = h.sequence + 1
    <2>1. Consecutive(disk.heads) /\ Consecutive(stable.heads)
      BY DEF Straight
    <2> QED
      BY <1>1, <1>2, <1>3, <2>1 DEF Consecutive
  <1>5. \A h \in {disk.heads[u], stable.heads[u]} :
           /\ IsValid(h) /\ h.generation \in disk.generations \cap stable.generations
           /\ h.generation # disk.heads[s].generation
    <2> SUFFICES ASSUME NEW h \in {disk.heads[u], stable.heads[u]}
                 PROVE  /\ IsValid(h) /\ h.generation \in disk.generations \cap stable.generations
                        /\ h.generation # disk.heads[s].generation
      OBVIOUS
    <2>1. h.sequence \in Nat
      BY <1>1, <1>2
    <2>2. IsValid(h)
      BY <1>2, <1>4, <2>1 DEF IsValid
    <2>3. h \in Survivors(disk, stable) /\ disk.heads[s] \in Survivors(disk, stable)
      BY <1>1, <1>3, <2>2 DEF Survivors, Slots
    <2>4. h.sequence = Len(h.generation.contents)
          /\ disk.heads[s].sequence = Len(disk.heads[s].generation.contents)
      BY <2>3 DEF SoundIInv, SoundTrue
    <2>5. h.sequence # disk.heads[s].sequence
      BY <1>2, <1>4, <2>1
    <2> QED
      BY <2>2, <2>3, <2>4, <2>5 DEF StoreIInv, StoreTrue
  <1>6. /\ disk'.generations = disk.generations /\ stable'.generations = stable.generations
        /\ \/ Steady(disk', stable', damaged', s)
           \/ /\ damaged' = {} /\ disk'.heads[u] = disk.heads[u] /\ stable'.heads[u] = stable.heads[u]
           \/ /\ damaged' = {disk.heads[s].generation}
              /\ disk'.heads = disk.heads /\ stable'.heads = stable.heads
    BY <1>3, FaultTakesOne, FaultDoes
  <1> HIDE DEF u
  <1>7. CASE /\ damaged' \in {{}, {disk.heads[s].generation}}
             /\ disk'.heads[u] = disk.heads[u] /\ stable'.heads[u] = stable.heads[u]
    <2>1. Steady(disk', stable', damaged', u)
      BY <1>5, <1>6, <1>7 DEF Steady, Whole
    <2> QED
      BY <1>1, <2>1
  <1> QED
    BY <1>6, <1>7

\* A fault in a store that had none.
LEMMA FaultTolerant ==
    ASSUME StoreIInv, SoundIInv, Straight, Fault, Tolerant(disk, stable, damaged, acked)
    PROVE  Tolerant(disk', stable', damaged', acked')
  <1>1. acked' = acked
    BY DEF Fault
  <1>2. ASSUME acked.sequence >= 2 PROVE \E s \in Slots : Steady(disk', stable', damaged', s)
    <2>1. PICK s \in Slots : Anchor(disk, stable, acked, s)
      BY DEF SoundIInv, SoundTrue
    <2>2. acked.sequence \in Int /\ disk.heads[s].sequence \in Nat
      BY SoundFacts, HeadKinds DEF StoreIInv, Types, Heads
    <2>3. disk.heads[s] = stable.heads[s] /\ disk.heads[s].sequence >= 2
      BY <1>2, <2>1, <2>2 DEF Anchor
    <2> QED
      BY <2>3, OneOutlives
  <1>3. /\ Survivors(disk', stable') \subseteq Survivors(disk, stable)
        /\ \A u \in Slots : /\ disk.heads[u] # Missing => disk'.heads[u] # Missing
                            /\ stable.heads[u] # Missing => stable'.heads[u] # Missing
    BY FaultShrinks
  <1> QED
    BY <1>1, <1>2, <1>3 DEF Tolerant

LEMMA FaultLeaves ==
    ASSUME StoreIInv, SoundIInv, Straight, Fault, NEW w \in Writers,
           Leaves(disk, stable, damaged, acked, writer[w])
    PROVE  Leaves(disk', stable', damaged', acked', writer'[w])
  <1> DEFINE x == writer[w]
             q == writer[w].slot
  <1>1. /\ acked' = acked /\ writer' = writer /\ damaged = {}
        /\ Survivors(disk', stable') \subseteq Survivors(disk, stable)
        /\ \A u \in Slots : disk.heads[u] # Missing => disk'.heads[u] # Missing
    BY FaultShrinks, FaultDoes DEF SoundIInv
  <1>2. CASE x.pc \notin WithHead \cup Finishing
    BY <1>1, <1>2, FreeLeaves
  <1>3. CASE x.pc \in WithHead \cup Finishing
    <2>1. /\ x.head \in ValidHeads /\ q \in Slots /\ 1 - q \in Slots /\ 1 - (1 - q) = q /\ 1 - q # q
          /\ \A h \in Survivors(disk, stable) \cup {acked} : h # Missing => h.repository = x.head.repository
          /\ x.head.sequence = Len(x.head.generation.contents) /\ x.head.sequence \in Nat \ {0}
      BY <1>3, ReadNumbers DEF Leaves, SoundIInv, SoundWriter, Slots
    <2>2. \A v \in Slots : /\ disk.heads[v].sequence \in Nat /\ stable.heads[v].sequence \in Nat
                           /\ disk.heads[v] \in Heads /\ stable.heads[v] \in Heads
      BY SoundFacts DEF StoreIInv, Types, StoreType
    <2>3. SoundWriter(disk, stable, x)
      BY DEF SoundIInv
    <2> HIDE DEF x, q
    <2>4. ASSUME disk.heads[1 - q] = stable.heads[1 - q],
                 x.head.sequence = disk.heads[1 - q].sequence + 1, x.head.sequence > 1
          PROVE  \/ Steady(disk', stable', damaged', 1 - q)
                 \/ disk'.heads[q] = disk.heads[q] /\ x.head.generation \notin damaged'
      <3>1. IsValid(disk.heads[1 - q]) /\ disk.heads[1 - q] \in Survivors(disk, stable)
        BY <2>1, <2>2, <2>4 DEF IsValid, Survivors, Slots
      <3>2. disk.heads[1 - q].sequence = Len(disk.heads[1 - q].generation.contents)
        BY <3>1 DEF SoundIInv, SoundTrue
      <3>3. x.head.generation # disk.heads[1 - q].generation
        <4>1. x.head.sequence # disk.heads[1 - q].sequence
          BY <2>1, <2>2, <2>4
        <4> QED
          BY <2>1, <3>2, <4>1
      <3> QED
        BY <2>1, <2>4, <3>1, <3>3, FaultTakesOne
    <2>5. CASE x.pc \in BeforeHead \cap WithHead
      <3>1. disk.heads = stable.heads
        BY <2>5 DEF StoreIInv, WriterTrue, HeadsTrue, x
      <3>2. x.head.sequence = disk.heads[1 - q].sequence + 1
        BY <2>3, <2>5 DEF SoundWriter, Child, q, x
      <3>3. \/ Steady(disk', stable', damaged', 1 - q) \/ x.head.generation \notin damaged'
            \/ x.head.sequence <= 1
        BY <2>1, <2>4, <3>1, <3>2
      <3>4. x.pc \notin {"syncHead"} \cup Finishing
        BY <2>5 DEF BeforeHead, BeforeCommit, Finishing
      <3> QED
        BY <1>1, <2>1, <3>3, <3>4 DEF Leaves, q, x
    <2>6. CASE x.pc = "syncHead"
      <3>1. /\ disk.heads[q] = x.head /\ \A h \in Survivors(disk, stable) : h.sequence <= x.head.sequence
            /\ disk.heads[q] # Missing
        BY <2>1, <2>3, <2>6, HeadKinds DEF SoundWriter, AfterHead, q, x, Heads
      <3>2. \/ \E s \in Slots : Steady(disk', stable', damaged', s)
            \/ disk'.heads[q] = x.head /\ x.head.generation \notin damaged'
            \/ x.head.sequence <= 1
        <4> SUFFICES ASSUME x.head.sequence > 1
                     PROVE  \/ \E s \in Slots : Steady(disk', stable', damaged', s)
                            \/ disk'.heads[q] = x.head /\ x.head.generation \notin damaged'
          BY <2>1
        <4>1. PICK s \in Slots : Anchor(disk, stable, acked, s)
          BY DEF SoundIInv, SoundTrue
        <4>2. disk.heads[s] = stable.heads[s]
          BY <4>1 DEF Anchor
        <4>3. CASE s = q
          BY <2>1, <3>1, <4>2, <4>3, OneOutlives
        <4>4. CASE s = 1 - q
          <5>1. \/ x.head.sequence = disk.heads[1 - q].sequence + 1
                \/ disk.heads[1 - q].sequence = x.head.sequence + 1
            <6>1. Consecutive(disk.heads)
              BY DEF Straight
            <6> QED
              BY <2>1, <3>1, <6>1 DEF Consecutive, Slots
          <5>2. ~(disk.heads[1 - q].sequence = x.head.sequence + 1)
            <6> SUFFICES ASSUME disk.heads[1 - q].sequence = x.head.sequence + 1 PROVE FALSE
              OBVIOUS
            <6>1. disk.heads[1 - q] \in Survivors(disk, stable)
              BY <2>1, <2>2 DEF IsValid, Survivors, Slots
            <6> QED
              BY <2>1, <2>2, <3>1, <6>1
          <5> QED
            BY <2>1, <2>4, <3>1, <4>2, <4>4, <5>1, <5>2
        <4> QED
          BY <2>1, <4>3, <4>4 DEF Slots
      <3>3. x.pc \notin BeforeHead \cup Finishing
        BY <2>6 DEF BeforeHead, BeforeCommit, Finishing
      <3> QED
        BY <1>1, <2>1, <3>1, <3>2, <3>3 DEF Leaves, q, x
    <2>7. CASE x.pc \in Finishing
      <3>1. disk.heads[q] = x.head /\ disk.heads = stable.heads /\ disk.heads[q] # Missing
        BY <2>1, <2>3, <2>7, HeadKinds DEF SoundWriter, StoreIInv, WriterTrue, HeadsTrue, q, x, Heads
      <3>2. (\E s \in Slots : Steady(disk', stable', damaged', s)) \/ x.head.sequence <= 1
        BY <2>1, <3>1, OneOutlives
      <3>3. x.pc \notin BeforeHead \cup {"syncHead"}
        BY <2>7 DEF BeforeHead, BeforeCommit, Finishing
      <3> QED
        BY <1>1, <2>1, <3>1, <3>2, <3>3 DEF Leaves, q, x
    <2>8. CASE x.pc \in {"secondHead", "syncSecond"}
      BY <1>1, <2>1, <2>8 DEF Leaves, BeforeHead, BeforeCommit, Finishing, x
    <2> QED
      BY <1>3, <2>5, <2>6, <2>7, <2>8 DEF BeforeHead, BeforeCommit, WithHead, AfterHead
  <1> QED
    BY <1>2, <1>3

-----------------------------------------------------------------------------
(* One fault: all steps, and the theorem.                                  *)

\* The steps in which the medium does not fail.
LEMMA StepTolerant ==
    ASSUME FsyncCoversEntry, StoreIInv, ModesTrue, \A w \in Writers : writer[w].mode = "Strict",
           [Next]_vars, ~Fault, Tolerant(disk, stable, damaged, acked),
           \A w \in Writers : Leaves(disk, stable, damaged, acked, writer[w])
    PROVE  /\ Tolerant(disk', stable', damaged', acked')
           /\ \A w \in Writers : Leaves(disk', stable', damaged', acked', writer'[w])
  <1>1. writer \in [Writers -> WriterType]
    BY DEF StoreIInv, Types
  <1>2. CASE UNCHANGED <<disk, stable, damaged, acked, writer>>
    BY <1>2
  <1>3. CASE UNCHANGED vars
    BY <1>2, <1>3 DEF vars
  <1>4. ASSUME NEW w \in Writers, writer[w].pc \in Held, NEW v \in Writers \ {w}, Write(w)
        PROVE  writer'[v] = writer[v] /\ \A d, t, m, a : Leaves(d, t, m, a, writer'[v])
    <2>1. writer'[v] = writer[v]
      BY <1>1, <1>4, OthersWait, StrictCommitsNothing
    <2>2. writer[v].pc \notin Held
      BY <1>4 DEF StoreIInv, Exclusion
    <2>3. writer[v].pc \notin WithHead \cup Finishing
      BY <2>2 DEF Held, WithHead, AfterHead, Finishing
    <2> QED
      BY <2>1, <2>3, FreeLeaves
  <1>5. ASSUME NEW w \in Writers, Write(w), ~ReplaceHead(w), ~Return(w)
        PROVE  /\ Tolerant(disk', stable', damaged', acked')
               /\ \A v \in Writers : Leaves(disk', stable', damaged', acked', writer'[v])
    <2>1. disk'.heads = disk.heads /\ stable'.heads \in {stable.heads, disk.heads}
      BY <1>5, OnlyReplaceWrites, OnlySyncs DEF StoreIInv, Types
    <2>2. acked' = acked
      BY <1>5 DEF Write, Enter, ListEntries, CreateRepository, WriteRepository, SyncRepository, TryLock,
             BeginGeneration, Discard, Seal, Promote, SyncGenerations, CommitRepository,
             SyncControls, ScanForCleanup, Reclaim, Bystanders
    <2>3. /\ Tolerant(disk', stable', damaged', acked')
          /\ \A x : Leaves(disk, stable, damaged, acked, x) => Leaves(disk', stable', damaged', acked', x)
      BY <1>5, <2>1, <2>2, PopulationKept, QuietTolerant
    <2>4. \A v \in Writers \ {w} : writer'[v] = writer[v]
      BY <1>1, <1>5, OthersWait, StrictCommitsNothing
    <2>5. Leaves(disk', stable', damaged', acked', writer'[w])
      <3>1. CASE SyncControls(w)
        BY <3>1, SyncControlsLeaves
      <3>2. CASE Seal(w)
        BY <2>3, <3>2, SealLeaves
      <3>3. CASE ~SyncControls(w) /\ ~Seal(w)
        BY <1>5, <2>3, <3>3, PlaceLeaves
      <3> QED
        BY <3>1, <3>2, <3>3
    <2> QED
      BY <2>3, <2>4, <2>5
  <1>6. ASSUME NEW w \in Writers, ReplaceHead(w)
        PROVE  /\ Tolerant(disk', stable', damaged', acked')
               /\ \A v \in Writers : Leaves(disk', stable', damaged', acked', writer'[v])
    <2>1. writer[w].pc \in Held /\ Write(w)
      BY <1>6 DEF ReplaceHead, Held, Write
    <2> QED
      BY <1>4, <1>6, <2>1, ReplaceTolerant
  <1>7. ASSUME NEW w \in Writers, Return(w)
        PROVE  /\ Tolerant(disk', stable', damaged', acked')
               /\ \A v \in Writers : Leaves(disk', stable', damaged', acked', writer'[v])
    <2>1. writer[w].pc \in Held /\ Write(w) /\ writer'[w] = IdleWriter
      BY <1>1, <1>7, Leaving DEF Return, Held, Write
    <2>2. writer'[w].pc \notin WithHead \cup Finishing
      BY <2>1 DEF IdleWriter, WithHead, AfterHead, Finishing
    <2> QED
      BY <1>4, <1>7, <2>1, <2>2, FreeLeaves, ReturnTolerant
  <1>8. ASSUME NEW w \in Writers, Stop(w)
        PROVE  /\ Tolerant(disk', stable', damaged', acked')
               /\ \A v \in Writers : Leaves(disk', stable', damaged', acked', writer'[v])
    <2>1. /\ UNCHANGED <<disk, stable, damaged, acked>> /\ writer'[w] = IdleWriter
          /\ \A v \in Writers \ {w} : writer'[v] = writer[v]
      BY <1>1, <1>8, Leaving DEF Stop, Abandon
    <2>2. writer'[w].pc \notin WithHead \cup Finishing
      BY <2>1 DEF IdleWriter, WithHead, AfterHead, Finishing
    <2> QED
      BY <2>1, <2>2, FreeLeaves
  <1>9. ASSUME NEW r \in Readers, Read(r) PROVE UNCHANGED <<disk, stable, damaged, acked, writer>>
    BY <1>9 DEF Read, ReadRepository, ReadHead, Validate, Close, Bystanders
  <1>10. ASSUME NEW w \in Writers, CleanupFails(w)
         PROVE  /\ Tolerant(disk', stable', damaged', acked')
                /\ \A v \in Writers : Leaves(disk', stable', damaged', acked', writer'[v])
    <2>1. /\ acked' = acked /\ disk'.heads = disk.heads /\ stable'.heads = stable.heads
          /\ damaged' \subseteq damaged /\ \A v \in Writers \ {w} : writer'[v] = writer[v]
          /\ writer[w].pc \in Finishing /\ writer'[w].pc \in Finishing
          /\ writer'[w].head = writer[w].head /\ writer'[w].slot = writer[w].slot
      BY <1>10, FailedCleanup DEF StoreIInv, Finishing
    <2>2. /\ Tolerant(disk', stable', damaged', acked')
          /\ \A x : Leaves(disk, stable, damaged, acked, x) => Leaves(disk', stable', damaged', acked', x)
      BY <1>10, <2>1, FailedCleanupKeepsPopulation, QuietTolerant
    <2>3. Leaves(disk', stable', damaged', acked', writer'[w])
      BY <2>1, <2>2, SameLeaves
    <2> QED
      BY <2>1, <2>2, <2>3
  <1> QED
    BY <1>2, <1>3, <1>5, <1>6, <1>7, <1>8, <1>9, <1>10, PowerLossTolerant DEF Next

LEMMA StepKeepsOneFault ==
    ASSUME FsyncCoversEntry, StoreIInv, StoreIInv', ModesTrue, ModesTrue', OneFaultIInv,
           [Next]_vars, Counted'
    PROVE  OneFaultIInv'
  <1> SUFFICES ASSUME faults' <= 1, ~recovered'
               PROVE  /\ faults' = 0 => SoundIInv' /\ Straight'
                      /\ Tolerant(disk', stable', damaged', acked')
                      /\ \A w \in Writers : Leaves(disk', stable', damaged', acked', writer'[w])
    BY DEF OneFaultIInv, Counted
  <1>1. ~recovered
    <2>1. CASE UNCHANGED vars
      BY <2>1 DEF vars
    <2>2. CASE Next
      BY <2>2, Observed DEF Observe
    <2> QED
      BY <2>1, <2>2
  <1>2. \A w \in Writers : writer[w].mode = "Strict"
    BY <1>1 DEF ModesTrue
  <1>3. CASE Fault
    <2>1. faults = 0 /\ faults' # 0
      BY <1>3 DEF Fault, OneFaultIInv
    <2>2. /\ SoundIInv /\ Straight /\ Tolerant(disk, stable, damaged, acked)
          /\ \A w \in Writers : Leaves(disk, stable, damaged, acked, writer[w])
      BY <1>1, <2>1 DEF OneFaultIInv
    <2> QED
      BY <1>3, <2>1, <2>2, FaultTolerant, FaultLeaves
  <1>4. CASE ~Fault
    <2>1. faults' = faults
      BY <1>4, FaultsStay
    <2>2. /\ Tolerant(disk, stable, damaged, acked)
          /\ faults = 0 => SoundIInv /\ Straight
          /\ \A w \in Writers : Leaves(disk, stable, damaged, acked, writer[w])
      BY <1>1, <2>1 DEF OneFaultIInv
    <2>3. faults' = 0 => SoundIInv' /\ Straight'
      BY <1>4, <2>1, <2>2, StepKeepsSound, StepKeepsStraight
    <2> QED
      BY <1>2, <1>4, <2>2, <2>3, StepTolerant
  <1> QED
    BY <1>3, <1>4

LEMMA InitOneFault == ASSUME Init PROVE OneFaultIInv
  <1>1. /\ stable = disk /\ \A s \in Slots : disk.heads[s] = Missing
        /\ acked = Missing /\ faults = 0 /\ \A w \in Writers : writer[w] = IdleWriter
    BY DEF Init
  <1>2. SoundIInv
    BY InitSound
  <1>3. Straight
    BY <1>1 DEF Straight, Consecutive
  <1>4. Survivors(disk, stable) = {}
    BY <1>1, HeadKinds DEF Survivors, Slots
  <1>5. ~(acked.sequence >= 2)
    BY <1>1 DEF Missing, HeadRecord
  <1>6. Tolerant(disk, stable, damaged, acked)
    BY <1>1, <1>4, <1>5 DEF Tolerant
  <1>7. \A w \in Writers : writer[w].pc \notin WithHead \cup Finishing
    BY <1>1 DEF IdleWriter, WithHead, AfterHead, Finishing
  <1> QED
    BY <1>1, <1>2, <1>3, <1>6, <1>7, FreeLeaves DEF OneFaultIInv

\* A slot that serves is found.
LEMMA SteadyServes ==
    ASSUME StoreIInv, Tolerant(disk, stable, damaged, acked), acked.sequence >= 2,
           disk.repository = acked.repository
    PROVE  Current # Missing
  <1>1. disk \in StoreType
    BY DEF StoreIInv, Types
  <1>2. PICK s \in Slots : Steady(disk, stable, damaged, s)
    BY DEF Tolerant
  <1>3. /\ IsValid(disk.heads[s]) /\ disk.heads[s] \in Survivors(disk, stable)
        /\ disk.heads[s] # Missing /\ acked # Missing
    BY <1>2, HeadKinds DEF Steady, Whole, Survivors, Slots, Missing, HeadRecord
  <1>4. disk.heads[s].repository = disk.repository
    BY <1>3 DEF Tolerant
  <1>5. Validates(disk.heads[s], disk.repository)
    BY <1>2, <1>4 DEF Steady, Whole, Validates
  <1> DEFINE S == {u \in ValidSlots(disk.heads) : Validates(disk.heads[u], disk.repository)}
  <1>6. s \in S /\ S \in SUBSET Slots
    BY <1>3, <1>5 DEF ValidSlots
  <1>7. Resolve(disk.repository) # NoSlot
    <2>1. Resolve(disk.repository) = NewestOf(disk.heads, S)
      BY DEF Resolve
    <2> HIDE DEF S
    <2> QED
      BY <1>1, <1>6, <2>1, NewestSlot DEF StoreType
  <1>8. IsValid(disk.heads[Resolve(disk.repository)])
    BY <1>1, <1>7, ResolvedSlot
  <1> QED
    BY <1>7, <1>8, HeadKinds DEF Current

\* Redundancy: in a store that no recovery has entered, and whatever else
\* happens before and after, one fault in a head record or a database leaves
\* a generation to serve, once two have been published.
THEOREM OneFaultIsTolerated == ASSUME FsyncCoversEntry PROVE Spec => []OneFaultTolerated
  <1>1. Init => ModesTrue /\ OneFaultIInv
    BY InitModes, InitOneFault
  <1>2. StoreIInv /\ StoreIInv' /\ ModesTrue /\ [Next]_vars => ModesTrue'
    BY StepKeepsModes DEF StoreIInv
  <1>3. /\ StoreIInv /\ StoreIInv' /\ ModesTrue /\ ModesTrue' /\ OneFaultIInv /\ [Next]_vars /\ Counted'
        => OneFaultIInv'
    BY StepKeepsOneFault
  <1>4. StoreIInv /\ OneFaultIInv => OneFaultTolerated
    BY SteadyServes DEF OneFaultIInv, OneFaultTolerated
  <1> QED
    BY <1>1, <1>2, <1>3, <1>4, StoreInductive, FaultsCounted, PTL DEF Spec
=============================================================================
