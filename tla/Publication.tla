---------------------------- MODULE Publication ----------------------------
(***************************************************************************)
(* The publication store of                                                *)
(* crates/h00ligan-engine/src/code_intel_publication.rs: one writer at a   *)
(* time builds a private generation in a staging directory, promotes it    *)
(* into the content-addressed population, replaces one of two head records *)
(* and reclaims what no head names.  Readers take no lock.                 *)
(*                                                                         *)
(* A step is one operation on the filesystem that another process, or a    *)
(* power loss, can fall in front of or behind.  `disk` is what a running   *)
(* process sees; `stable` is what has been synchronised.  After a power    *)
(* loss every directory entry in which the two differ may be in either     *)
(* state.                                                                  *)
(***************************************************************************)
EXTENDS Integers, Sequences, FiniteSets

CONSTANTS
    Writers,           \* processes that publish
    Readers,           \* processes that resolve
    Contents,          \* what a build may produce, by digest
    Modes,             \* "Strict", "RecoverAndRebind": admission modes in use
    Faults,            \* "head", "generation", "repository": media faults
    FsyncCoversEntry,  \* whether fsync of a new file also makes its directory
                       \* entry durable (POSIX leaves that open)
    MaxSequence, MaxIdentities,       \* bounds on exploration
    MaxStops, MaxPowerLosses, MaxFaults

ASSUME PublicationAssumption ==
    /\ Modes \subseteq {"Strict", "RecoverAndRebind"}
    /\ Faults \subseteq {"head", "generation", "repository"}
    /\ FsyncCoversEntry \in BOOLEAN
    /\ {MaxSequence, MaxIdentities, MaxStops, MaxPowerLosses, MaxFaults} \subseteq Nat

VARIABLES
    disk,        \* the publication directory as processes see it
    stable,      \* the part of it that survives a power loss
    damaged,     \* generations whose database no longer has its digest
    staging,     \* owners of private staging directories, and Litter
    identities,  \* repository identities drawn so far (Uuid::new_v4)
    writer, reader,          \* the processes
    stops,       \* writers cut short and failed operations of a cleanup so far
    losses, faults,          \* power losses and media faults so far
    acked,       \* history: the newest head acknowledged to a caller
    seen,        \* history: heads that were current while a reader ran
    overtaken,   \* history: head replacements while a reader ran
    recovered    \* history: a recovery has entered

vars == <<disk, stable, damaged, staging, identities, writer, reader,
          stops, losses, faults, acked, seen, overtaken, recovered>>

Slots == {0, 1}           \* HEAD_FILES
NoSlot == 2
Absent == 0               \* no repository.json
Unreadable == -1          \* one that load_repository refuses
Litter == "litter"        \* a staging directory whose owner is gone

\* A generation is addressed by its content and, through parent_generation_id,
\* by its ancestors' and by the repository identity.
NoGeneration == [repository |-> Absent, contents |-> <<>>]
HeadRecord(sequence, generation, repository) ==
    [sequence |-> sequence, generation |-> generation, repository |-> repository]
Missing == HeadRecord(0, NoGeneration, Absent)     \* no head file
Invalid == HeadRecord(-1, NoGeneration, Absent)    \* one that does not parse or verify
IsValid(head) == head.sequence > 0

-----------------------------------------------------------------------------
(* Reading heads.                                                          *)

ValidSlots(heads) == {s \in Slots : IsValid(heads[s])}
InvalidSlots(heads) == {s \in Slots : heads[s] = Invalid}

\* HeadConflict: one sequence, two different records.
Conflicting(heads) ==
    /\ ValidSlots(heads) = Slots
    /\ heads[0].sequence = heads[1].sequence
    /\ heads[0] # heads[1]

\* Bug variant: the oldest head first.
OldestBefore(heads, s, t) ==
    \/ heads[s].sequence < heads[t].sequence
    \/ heads[s].sequence = heads[t].sequence /\ s < t

\* The order of HeadScan.valid: newest sequence first, then slot.
Before(heads, s, t) ==
    \/ heads[s].sequence > heads[t].sequence
    \/ heads[s].sequence = heads[t].sequence /\ s < t

NewestOf(heads, slots) ==
    IF slots = {} THEN NoSlot
    ELSE CHOOSE s \in slots : \A t \in slots \ {s} : Before(heads, s, t)

\* validate_generation: it belongs to this repository, is there and has its digest.
Validates(head, repository) ==
    /\ head.repository = repository
    /\ head.generation \in disk.generations \ damaged

\* resolve_from_scan: the first head whose generation validates.
Resolve(repository) ==
    NewestOf(disk.heads, {s \in ValidSlots(disk.heads) : Validates(disk.heads[s], repository)})

\* What a reader that runs alone would resolve.
Current ==
    LET slot == Resolve(disk.repository)
    IN  IF slot = NoSlot THEN Missing ELSE disk.heads[slot]

\* select_publish_slot: a damaged record first, then the other slot than the
\* selected one, then an empty one.
PublishSlot(heads, selected) ==
    CASE InvalidSlots(heads) # {} -> CHOOSE s \in InvalidSlots(heads) :
                                         \A t \in InvalidSlots(heads) : s <= t
      [] InvalidSlots(heads) = {} /\ selected # NoSlot -> 1 - selected
      [] InvalidSlots(heads) = {} /\ selected = NoSlot -> IF heads[0] = Missing THEN 0 ELSE 1

\* The highest sequence of a valid head, plus one.
NextSequence(heads) ==
    LET newest == NewestOf(heads, ValidSlots(heads))
    IN  IF newest = NoSlot THEN 1 ELSE heads[newest].sequence + 1

-----------------------------------------------------------------------------
(* Writers.                                                                *)

IdleWriter == [pc |-> "idle", mode |-> "Strict", repository |-> Absent, fresh |-> FALSE,
               admitted |-> Missing, slot |-> NoSlot, head |-> Missing,
               retain |-> {}, left |-> {}, warned |-> FALSE]

Held == {"admitted", "build", "promote", "syncGenerations", "commit", "syncCommit", "head",
         "syncHead", "secondHead", "syncSecond", "cleanup", "reclaim"}

Locked == \E w \in Writers : writer[w].pc \in Held

\* History: what was current, and how many head records were replaced, since
\* each reader began; whether a writer ran as a recovery.
Observe ==
    /\ seen' = [r \in Readers |-> IF reader'[r].pc = "idle" THEN {}
                                  ELSE seen[r] \cup {Current, Current'}]
    /\ overtaken' = [r \in Readers |-> IF reader'[r].pc = "idle" THEN 0
                                       ELSE IF disk'.heads # disk.heads THEN overtaken[r] + 1
                                       ELSE overtaken[r]]
    /\ recovered' = (recovered \/ \E w \in Writers : writer'[w].mode = "RecoverAndRebind")

\* The end of most actions: nothing is counted, the history goes on.
Bystanders == UNCHANGED <<identities, stops, losses, faults, acked>> /\ Observe

Goto(w, pc) == writer' = [writer EXCEPT ![w].pc = pc]
Leave(w) == writer' = [writer EXCEPT ![w] = IdleWriter]

\* An error return, or the end of the publication: the publisher is dropped
\* and its lock released; its staging directory stays behind.
Abandon(w) ==
    /\ Leave(w)
    /\ staging' = IF w \in staging THEN (staging \ {w}) \cup {Litter} ELSE staging

\* load_repository: adopt the identity, or fail on one that does not load.
AdoptRepository(w) ==
    /\ disk.repository # Absent
    /\ \/ /\ disk.repository # Unreadable
          /\ writer' = [writer EXCEPT ![w].pc = "lock", ![w].repository = disk.repository]
       \/ disk.repository = Unreadable /\ Leave(w)

\* acquire_prepared up to the lock.  A recovering writer goes straight to it; a
\* strict one first loads repository.json, and if that does not load it
\* returns an error without having changed anything: no step.
Enter(w, mode) ==
    /\ writer[w].pc = "idle"
    /\ \/ /\ mode = "RecoverAndRebind"
          /\ writer' = [writer EXCEPT ![w].pc = "lock", ![w].mode = mode]
       \/ mode = "Strict" /\ disk.repository = Absent /\ Goto(w, "list")
       \/ mode = "Strict" /\ disk.repository # Unreadable /\ AdoptRepository(w)
    /\ UNCHANGED <<disk, stable, damaged, staging, reader>> /\ Bystanders

\* load_or_create_repository lists the directory: an identity that appeared
\* meanwhile is loaded, any other entry is MissingRepositoryIdentity.
ListEntries(w) ==
    /\ writer[w].pc = "list"
    /\ \/ AdoptRepository(w)
       \/ disk.repository = Absent /\ disk.populated /\ Leave(w)
       \/ disk.repository = Absent /\ ~disk.populated /\ Goto(w, "create")
    /\ UNCHANGED <<disk, stable, damaged, staging, reader>> /\ Bystanders

\* Bug variant: create instead of create_new, over a record that has appeared
\* since the directory was listed.
CreateRepositoryOver(w) ==
    /\ writer[w].pc = "create" /\ identities < MaxIdentities
    /\ identities' = identities + 1
    /\ writer' = [writer EXCEPT ![w].pc = "write", ![w].repository = identities + 1]
    /\ disk' = [disk EXCEPT !.repository = Unreadable]
    /\ UNCHANGED <<stable, damaged, staging, reader, stops, losses, faults, acked>> /\ Observe

\* write_new_cap_synced: create_new, then the bytes and their fsync.
CreateRepository(w) ==
    /\ writer[w].pc = "create"
    /\ \/ AdoptRepository(w) /\ UNCHANGED <<disk, identities>>
       \/ /\ disk.repository = Absent /\ identities < MaxIdentities
          /\ identities' = identities + 1
          /\ writer' = [writer EXCEPT ![w].pc = "write", ![w].repository = identities + 1]
          /\ disk' = [disk EXCEPT !.repository = Unreadable]
    /\ UNCHANGED <<stable, damaged, staging, reader, stops, losses, faults, acked>> /\ Observe

\* If a recovering writer has renamed its own record over the new file, the
\* bytes go to a file that no longer has a name.
WriteRepository(w) ==
    /\ \/ /\ writer[w].pc = "write"
          /\ disk' = [disk EXCEPT !.repository = writer[w].repository]
       \/ /\ writer[w].pc = "writeUnlinked"
          /\ UNCHANGED disk
    /\ Goto(w, "syncRepository")
    /\ UNCHANGED <<stable, damaged, staging, reader>> /\ Bystanders

\* sync_cap_directory on the publication directory.
Synced == [stable EXCEPT !.repository = disk.repository, !.heads = disk.heads,
                         !.populated = disk.populated]

SyncRepository(w) ==
    /\ writer[w].pc = "syncRepository"
    /\ stable' = Synced
    /\ Goto(w, "lock")
    /\ UNCHANGED <<disk, damaged, staging, reader>> /\ Bystanders

\* Strict admission under the lock: the identity is the one loaded before, the
\* heads agree, and if there are any, one resolves.
Admissible(w) ==
    /\ disk.repository = writer[w].repository
    /\ ~Conflicting(disk.heads)
    /\ (\A s \in Slots : disk.heads[s] = Missing) \/ Resolve(disk.repository) # NoSlot

\* The generation a strict writer starts from.  The caller may hand in one
\* it has validated earlier: if the newest head still names that, it is taken
\* without another look at its database.
AdmittedHeads(w) ==
    LET resolved == Resolve(disk.repository)
        newest == NewestOf(disk.heads, ValidSlots(disk.heads))
        trusted == /\ newest # NoSlot /\ ~Conflicting(disk.heads)
                   /\ disk.repository = writer[w].repository
                   /\ disk.heads[newest].repository = writer[w].repository
    IN  (IF ~Admissible(w) THEN {} ELSE {IF resolved = NoSlot THEN Missing ELSE disk.heads[resolved]})
        \cup (IF trusted THEN {disk.heads[newest]} ELSE {})

\* try_lock, and the admission under it.  WriterBusy and an inadmissible store
\* are errors.  A recovering writer whose repository.json does not load
\* prepares a provisional identity.
TryLock(w) ==
    /\ writer[w].pc = "lock"
    /\ \/ Locked /\ Leave(w) /\ UNCHANGED <<disk, stable, identities>>
       \/ /\ ~Locked /\ writer[w].mode = "Strict"
          /\ disk' = [disk EXCEPT !.populated = TRUE]
          /\ UNCHANGED identities
          /\ \/ \E head \in AdmittedHeads(w) :
                   /\ writer' = [writer EXCEPT ![w].pc = "admitted", ![w].admitted = head]
                   /\ stable' = [Synced EXCEPT !.populated = TRUE]
             \/ ~Admissible(w) /\ Leave(w) /\ UNCHANGED stable
       \/ /\ ~Locked /\ writer[w].mode = "RecoverAndRebind"
          /\ disk' = [disk EXCEPT !.populated = TRUE]
          /\ stable' = [Synced EXCEPT !.populated = TRUE]
          /\ \/ /\ disk.repository \notin {Absent, Unreadable}
                /\ writer' = [writer EXCEPT ![w].pc = "admitted", ![w].repository = disk.repository]
                /\ UNCHANGED identities
             \/ /\ disk.repository \in {Absent, Unreadable} /\ identities < MaxIdentities
                /\ identities' = identities + 1
                /\ writer' = [writer EXCEPT ![w].pc = "admitted", ![w].fresh = TRUE,
                                            ![w].repository = identities + 1]
    /\ UNCHANGED <<damaged, staging, reader, stops, losses, faults, acked>> /\ Observe

\* begin_generation: create the staging directory, sync its parent.
BeginGeneration(w) ==
    /\ writer[w].pc = "admitted"
    /\ staging' = staging \cup {w}
    /\ stable' = [stable EXCEPT !.generations = disk.generations]
    /\ Goto(w, "build")
    /\ UNCHANGED <<disk, damaged, reader>> /\ Bystanders

\* The build failed or was cancelled: discard_private_generation.
Discard(w) ==
    /\ writer[w].pc = "build"
    /\ staging' = staging \ {w}
    /\ stable' = [stable EXCEPT !.generations = disk.generations]
    /\ Leave(w)
    /\ UNCHANGED <<disk, damaged, reader>> /\ Bystanders

\* finish_generation_candidate: the slot of the current generation, by a new
\* scan under the lock.  NoSlot is "none": nothing published, or a recovery
\* that has nothing to build on.
CurrentForCandidate(w, slot) ==
    LET w0 == writer[w]
        newest == NewestOf(disk.heads, ValidSlots(disk.heads))
        exact == w0.admitted # Missing /\ newest # NoSlot /\ disk.heads[newest] = w0.admitted
        resolved == Resolve(w0.repository)
    IN  \/ /\ w0.mode = "RecoverAndRebind"
           /\ slot = IF w0.fresh \/ Conflicting(disk.heads) THEN NoSlot ELSE resolved
        \/ /\ w0.mode = "Strict" /\ ~Conflicting(disk.heads)
           /\ \/ exact /\ Validates(disk.heads[newest], w0.repository) /\ slot = newest
              \/ ~exact /\ slot = resolved
                 /\ (resolved # NoSlot \/ \A s \in Slots : disk.heads[s] = Missing)

\* The candidate is validated, sealed with its manifest and synchronised.
Seal(w) ==
    /\ writer[w].pc = "build"
    /\ \/ \E slot \in Slots \cup {NoSlot}, content \in Contents :
             /\ CurrentForCandidate(w, slot)
             /\ NextSequence(disk.heads) <= MaxSequence
             /\ LET repository == writer[w].repository
                    ancestors == IF slot = NoSlot THEN <<>> ELSE disk.heads[slot].generation.contents
                    generation == [repository |-> repository, contents |-> Append(ancestors, content)]
                IN  writer' = [writer EXCEPT
                        ![w].pc = "promote",
                        ![w].slot = PublishSlot(disk.heads, slot),
                        ![w].head = HeadRecord(NextSequence(disk.heads), generation, repository)]
             /\ UNCHANGED staging
       \/ /\ \A slot \in Slots \cup {NoSlot} : ~CurrentForCandidate(w, slot)
          /\ Abandon(w)
    /\ UNCHANGED <<disk, stable, damaged, reader>> /\ Bystanders

AfterPromotion(w) == IF writer[w].fresh THEN "commit" ELSE "head"

\* Promote the staging directory to the name of its generation.  If that
\* exists with the same digest the staging directory is redundant; with
\* another one the publication fails (GenerationCollision).
Promote(w) ==
    /\ writer[w].pc = "promote"
    /\ LET generation == writer[w].head.generation
       IN  \/ /\ generation \notin disk.generations
              /\ disk' = [disk EXCEPT !.generations = @ \cup {generation}]
              /\ staging' = staging \ {w}
              /\ Goto(w, "syncGenerations")
           \/ /\ generation \in disk.generations \ damaged
              /\ staging' = staging \ {w}
              /\ Goto(w, AfterPromotion(w))
              /\ UNCHANGED disk
           \/ /\ generation \in disk.generations \cap damaged
              /\ Abandon(w)
              /\ UNCHANGED disk
    /\ UNCHANGED <<stable, damaged, reader>> /\ Bystanders

\* Bug variant: the population is not synchronised after a promotion.
SkipSyncGenerations(w) ==
    /\ writer[w].pc = "syncGenerations"
    /\ Goto(w, AfterPromotion(w))
    /\ UNCHANGED <<disk, stable, damaged, staging, reader>> /\ Bystanders

SyncGenerations(w) ==
    /\ writer[w].pc = "syncGenerations"
    /\ stable' = [stable EXCEPT !.generations = disk.generations]
    /\ Goto(w, AfterPromotion(w))
    /\ UNCHANGED <<disk, damaged, staging, reader>> /\ Bystanders

\* write_repository_record: a recovery commits its provisional identity.
CommitRepository(w) ==
    /\ writer[w].pc = "commit"
    /\ disk' = [disk EXCEPT !.repository = writer[w].repository]
    /\ writer' = [v \in Writers |->
                     IF v = w THEN [writer[v] EXCEPT !.pc = "syncCommit"]
                     ELSE IF writer[v].pc = "write" THEN [writer[v] EXCEPT !.pc = "writeUnlinked"]
                     ELSE writer[v]]
    /\ UNCHANGED <<stable, damaged, staging, reader>> /\ Bystanders

\* write_head: the record, already synchronised under a temporary name, is
\* renamed over its slot.
ReplaceHead(w) ==
    /\ writer[w].pc \in {"head", "secondHead"}
    /\ LET first == writer[w].pc = "head"
           slot == IF first THEN writer[w].slot ELSE 1 - writer[w].slot
       IN  /\ disk' = [disk EXCEPT !.heads[slot] = writer[w].head]
           /\ Goto(w, IF first THEN "syncHead" ELSE "syncSecond")
    /\ UNCHANGED <<stable, damaged, staging, reader>> /\ Bystanders

\* Bug variants: the renamed record is not synchronised; every publication
\* overwrites both slots.
SkipSyncControls(w) ==
    /\ writer[w].pc \in {"syncCommit", "syncHead", "syncSecond"}
    /\ Goto(w, CASE writer[w].pc = "syncCommit" -> "head"
                 [] writer[w].pc = "syncHead" /\ writer[w].mode = "RecoverAndRebind" -> "secondHead"
                 [] writer[w].pc = "syncHead" /\ writer[w].mode = "Strict" -> "cleanup"
                 [] writer[w].pc = "syncSecond" -> "cleanup")
    /\ UNCHANGED <<disk, stable, damaged, staging, reader>> /\ Bystanders
AlwaysBothHeads(w) ==
    /\ writer[w].pc \in {"syncCommit", "syncHead", "syncSecond"}
    /\ stable' = Synced
    /\ Goto(w, CASE writer[w].pc = "syncCommit" -> "head"
                 [] writer[w].pc = "syncHead" -> "secondHead"
                 [] writer[w].pc = "syncSecond" -> "cleanup")
    /\ UNCHANGED <<disk, damaged, staging, reader>> /\ Bystanders

\* The directory sync behind each of these renames; a recovery then repairs
\* the other slot with the same record.
SyncControls(w) ==
    /\ writer[w].pc \in {"syncCommit", "syncHead", "syncSecond"}
    /\ stable' = Synced
    /\ Goto(w, CASE writer[w].pc = "syncCommit" -> "head"
                 [] writer[w].pc = "syncHead" /\ writer[w].mode = "RecoverAndRebind" -> "secondHead"
                 [] writer[w].pc = "syncHead" /\ writer[w].mode = "Strict" -> "cleanup"
                 [] writer[w].pc = "syncSecond" -> "cleanup")
    /\ UNCHANGED <<disk, damaged, staging, reader>> /\ Bystanders

\* Bug variant: cleanup keeps everything.
RetainAll(w) ==
    /\ writer[w].pc = "cleanup"
    /\ writer' = [writer EXCEPT ![w].pc = "reclaim", ![w].retain = disk.generations]
    /\ UNCHANGED <<disk, stable, damaged, staging, reader>> /\ Bystanders

\* cleanup_generation_population: scan the heads once; an invalid head keeps
\* every generation (so would conflicting ones, which NoConflict excludes).
\* Then every staging directory and every unreferenced generation is
\* quarantined and removed, one after the other.
ScanForCleanup(w) ==
    /\ writer[w].pc = "cleanup"
    /\ writer' = [writer EXCEPT
           ![w].pc = "reclaim",
           ![w].retain = IF InvalidSlots(disk.heads) # {} THEN disk.generations
                         ELSE {disk.heads[s].generation : s \in ValidSlots(disk.heads)},
           ![w].left = {}, ![w].warned = InvalidSlots(disk.heads) # {}]
    /\ UNCHANGED <<disk, stable, damaged, staging, reader>> /\ Bystanders

\* quarantine_and_remove_directory_cap: rename, sync, remove, sync.
Reclaim(w) ==
    /\ writer[w].pc = "reclaim"
    /\ \/ /\ ~(staging \subseteq writer[w].left)
          /\ staging' = staging \cap writer[w].left
          /\ UNCHANGED <<disk, stable, damaged>>
       \/ \E generation \in disk.generations \ writer[w].retain :
             /\ staging \subseteq writer[w].left
             /\ disk' = [disk EXCEPT !.generations = @ \ {generation}]
             /\ stable' = [stable EXCEPT !.generations = disk'.generations]
             /\ damaged' = damaged \ {generation}
             /\ UNCHANGED staging
    /\ UNCHANGED <<writer, reader>> /\ Bystanders

\* An error of cleanup is a warning, and the publication goes on.  Heads or
\* entries that cannot be read leave everything in place.
ScanFails(w) ==
    /\ writer[w].pc = "cleanup"
    /\ writer' = [writer EXCEPT ![w].pc = "reclaim", ![w].warned = TRUE,
                                ![w].retain = disk.generations, ![w].left = staging]
    /\ UNCHANGED <<disk, stable, damaged, staging>>

\* An entry that cannot be removed is passed over: a staging directory or a
\* generation that stays, or a generation quarantined but not removed, whose
\* quarantine this pass does not meet again; its renaming may not be synced.
\* (That of a damaged generation, which no head names, is taken as synced.)
RemovalFails(w) ==
    /\ writer[w].pc = "reclaim"
    /\ \/ /\ ~(staging \subseteq writer[w].left)
          /\ writer' = [writer EXCEPT ![w].warned = TRUE, ![w].left = staging]
          /\ UNCHANGED <<disk, stable, damaged, staging>>
       \/ \E generation \in disk.generations \ writer[w].retain :
             /\ staging \subseteq writer[w].left
             /\ \/ /\ writer' = [writer EXCEPT ![w].warned = TRUE,
                                               ![w].retain = @ \cup {generation}]
                   /\ UNCHANGED <<disk, stable, damaged, staging>>
                \/ /\ writer' = [writer EXCEPT ![w].warned = TRUE, ![w].left = {Litter}]
                   /\ disk' = [disk EXCEPT !.generations = @ \ {generation}]
                   /\ staging' = {Litter}
                   /\ damaged' = damaged \ {generation}
                   /\ \/ stable' = [stable EXCEPT !.generations = disk'.generations]
                      \/ generation \notin damaged /\ UNCHANGED stable

CleanupFails(w) ==
    /\ stops < MaxStops
    /\ stops' = stops + 1
    /\ ScanFails(w) \/ RemovalFails(w)
    /\ UNCHANGED <<reader, identities, losses, faults, acked>> /\ Observe

\* The publication is acknowledged, with the warnings of its cleanup; dropping
\* the publisher unlocks.
Return(w) ==
    /\ writer[w].pc = "reclaim"
    /\ staging \subseteq writer[w].left /\ disk.generations \subseteq writer[w].retain
    /\ acked' = writer[w].head
    /\ Leave(w)
    /\ UNCHANGED <<disk, stable, damaged, staging, reader, identities, stops, losses, faults>> /\ Observe

-----------------------------------------------------------------------------
(* Readers: read_publication_controls and resolve_from_scan.               *)

IdleReader == [pc |-> "idle", repository |-> Absent,
               heads |-> [s \in Slots |-> Missing], tried |-> {}, answer |-> Missing]

ReadRepository(r) ==
    /\ reader[r].pc = "idle"
    /\ disk.repository \notin {Absent, Unreadable}
    /\ reader' = [reader EXCEPT ![r].pc = "head0", ![r].repository = disk.repository]
    /\ UNCHANGED <<disk, stable, damaged, staging, writer>> /\ Bystanders

\* scan_heads: one file after the other; with no head file there is nothing
\* published, and conflicting records are an error.
ReadHead(r, slot) ==
    /\ reader[r].pc = IF slot = 0 THEN "head0" ELSE "head1"
    /\ LET heads == [reader[r].heads EXCEPT ![slot] = disk.heads[slot]]
       IN  reader' = [reader EXCEPT
               ![r].heads = heads,
               ![r].pc = CASE slot = 0 -> "head1"
                           [] slot = 1 /\ Conflicting(heads) -> "failed"
                           [] slot = 1 /\ ~Conflicting(heads) ->
                                IF \A s \in Slots : heads[s] = Missing THEN "unpublished"
                                ELSE "validate"]
    /\ UNCHANGED <<disk, stable, damaged, staging, writer>> /\ Bystanders

\* Bug variant: the heads are tried in the order they were read.
ValidateInReadingOrder(r) ==
    /\ reader[r].pc = "validate"
    /\ LET heads == reader[r].heads
           left == ValidSlots(heads) \ reader[r].tried
           first == IF 0 \in left THEN 0 ELSE 1
       IN  reader' =
             IF left = {} THEN [reader EXCEPT ![r].pc = "failed"]
             ELSE IF Validates(heads[first], reader[r].repository)
             THEN [reader EXCEPT ![r].pc = "answered", ![r].answer = heads[first]]
             ELSE [reader EXCEPT ![r].tried = @ \cup {first}]
    /\ UNCHANGED <<disk, stable, damaged, staging, writer>> /\ Bystanders

\* Validate the newest head not tried yet; on failure fall back to the next.
Validate(r) ==
    /\ reader[r].pc = "validate"
    /\ LET heads == reader[r].heads
           newest == NewestOf(heads, ValidSlots(heads) \ reader[r].tried)
       IN  reader' =
             IF newest = NoSlot THEN [reader EXCEPT ![r].pc = "failed"]
             ELSE IF Validates(heads[newest], reader[r].repository)
             THEN [reader EXCEPT ![r].pc = "answered", ![r].answer = heads[newest]]
             ELSE [reader EXCEPT ![r].tried = @ \cup {newest}]
    /\ UNCHANGED <<disk, stable, damaged, staging, writer>> /\ Bystanders

Close(r) ==
    /\ reader[r].pc \in {"answered", "unpublished", "failed"}
    /\ reader' = [reader EXCEPT ![r] = IdleReader]
    /\ UNCHANGED <<disk, stable, damaged, staging, writer>> /\ Bystanders

-----------------------------------------------------------------------------
(* The environment.                                                        *)

\* A writer process ends, or an operation of its fails, between two steps.
\* (In cleanup only the end of the process is one: see CleanupFails.)
Stop(w) ==
    /\ writer[w].pc # "idle" /\ stops < MaxStops
    /\ stops' = stops + 1
    /\ Abandon(w)
    /\ UNCHANGED <<disk, stable, damaged, reader, identities, losses, faults, acked>> /\ Observe

\* Every entry that differs between disk and stable may be left either way.
PowerLoss ==
    /\ losses < MaxPowerLosses
    /\ losses' = losses + 1
    /\ \E repository \in {disk.repository, stable.repository},
          populated \in {disk.populated, stable.populated},
          older \in SUBSET Slots,
          generations \in SUBSET (disk.generations \cup stable.generations) :
          /\ disk.generations \cap stable.generations \subseteq generations
          /\ disk' = [repository |-> repository, populated |-> populated,
                      heads |-> [s \in Slots |-> IF s \in older THEN stable.heads[s]
                                                 ELSE disk.heads[s]],
                      generations |-> generations]
    /\ stable' = disk'
    /\ \E lost \in SUBSET disk'.generations :
          /\ FsyncCoversEntry => lost = {}
          /\ damaged' = (damaged \cap disk'.generations) \cup lost
    /\ writer' = [w \in Writers |-> IdleWriter]
    /\ reader' = [r \in Readers |-> IdleReader]
    /\ staging' = IF staging = {} THEN {} ELSE {Litter}
    /\ UNCHANGED <<identities, stops, faults, acked>> /\ Observe

\* A media fault in a head record, a database or the repository record.
Fault ==
    /\ faults < MaxFaults
    /\ faults' = faults + 1
    /\ \/ /\ "head" \in Faults
          /\ \E s \in ValidSlots(disk.heads) :
                /\ disk' = [disk EXCEPT !.heads[s] = Invalid]
                /\ stable' = [stable EXCEPT !.heads[s] = Invalid]
          /\ UNCHANGED damaged
       \/ /\ "generation" \in Faults
          /\ \E generation \in disk.generations \ damaged : damaged' = damaged \cup {generation}
          /\ UNCHANGED <<disk, stable>>
       \/ /\ "repository" \in Faults
          /\ disk.repository \notin {Absent, Unreadable}
          /\ \E left \in {Absent, Unreadable} :
                /\ disk' = [disk EXCEPT !.repository = left]
                /\ stable' = [stable EXCEPT !.repository = left]
          /\ UNCHANGED damaged
    /\ UNCHANGED <<staging, identities, writer, reader, stops, losses, acked>> /\ Observe

-----------------------------------------------------------------------------
Init ==
    /\ disk = [repository |-> Absent, populated |-> FALSE,
               heads |-> [s \in Slots |-> Missing], generations |-> {}]
    /\ stable = disk
    /\ damaged = {} /\ staging = {} /\ identities = 0
    /\ writer = [w \in Writers |-> IdleWriter]
    /\ reader = [r \in Readers |-> IdleReader]
    /\ stops = 0 /\ losses = 0 /\ faults = 0
    /\ acked = Missing
    /\ seen = [r \in Readers |-> {}] /\ overtaken = [r \in Readers |-> 0]
    /\ recovered = FALSE

Write(w) ==
    \/ \E mode \in Modes : Enter(w, mode)
    \/ ListEntries(w) \/ CreateRepository(w) \/ WriteRepository(w) \/ SyncRepository(w)
    \/ TryLock(w) \/ BeginGeneration(w) \/ Discard(w) \/ Seal(w)
    \/ Promote(w) \/ SyncGenerations(w) \/ CommitRepository(w) \/ ReplaceHead(w)
    \/ SyncControls(w) \/ ScanForCleanup(w) \/ Reclaim(w) \/ Return(w)

Read(r) ==
    \/ ReadRepository(r) \/ (\E slot \in Slots : ReadHead(r, slot))
    \/ Validate(r) \/ Close(r)

Next ==
    \/ \E w \in Writers : Write(w) \/ CleanupFails(w) \/ Stop(w)
    \/ \E r \in Readers : Read(r)
    \/ PowerLoss \/ Fault

Spec == Init /\ [][Next]_vars

-----------------------------------------------------------------------------
(* Properties.                                                             *)

Generations == [repository : 1..MaxIdentities, contents : Seq(Contents)]
ValidHeads == [sequence : 1..MaxSequence, generation : Generations, repository : 1..MaxIdentities]
Heads == ValidHeads \cup {Missing, Invalid}

\* Types of the directory, the processes and the acknowledgement.
TypeOK ==
    /\ \A d \in {disk, stable} :
          /\ DOMAIN d = {"repository", "populated", "heads", "generations"}
          /\ d.repository \in {Absent, Unreadable} \cup 1..MaxIdentities
          /\ d.populated \in BOOLEAN
          /\ \A s \in Slots : d.heads[s] \in Heads
          /\ \A g \in d.generations : g \in Generations
    /\ damaged \subseteq disk.generations
    /\ staging \subseteq Writers \cup {Litter}
    /\ identities \in 0..MaxIdentities
    /\ \A w \in Writers : writer[w].head \in Heads /\ writer[w].slot \in Slots \cup {NoSlot}
    /\ \A r \in Readers : reader[r].answer \in Heads
    /\ acked \in Heads

\* Every head a power loss could leave behind names a generation that the
\* same power loss cannot take: at any instant, in every combination of old
\* and new directory entries.  (finish_generation_candidate promotes and syncs
\* before it touches a head; cleanup runs after the head is synchronised.)
HeadsOutliveNothing ==
    \A s \in Slots : \A head \in {disk.heads[s], stable.heads[s]} :
        IsValid(head) => head.generation \in disk.generations \cap stable.generations

\* With no media fault, every valid head of this repository names a whole
\* generation ("replaces one of two checksummed head records only after the
\* generation is durable", docs/architecture/publication-and-authority.md:25).
HeadsNameWholeGenerations ==
    \A s \in Slots :
        IsValid(disk.heads[s]) => Validates(disk.heads[s], disk.repository)

\* What a caller was told is published stays published through every crash
\* and power loss, or has been replaced by something newer.
AckedSurvives == Current.sequence >= acked.sequence

\* Two writers, or one writer twice, never put different records of one
\* sequence into the two slots, so that HeadConflict never locks a store
\* that only this code has written.
NoConflict == ~Conflicting(disk.heads) /\ ~Conflicting(stable.heads)

\* A writer's private generation is not reclaimed under it by the cleanup of
\* another writer.
PrivateUntilPromoted ==
    \A w \in Writers : writer[w].pc \in {"build", "promote"} => w \in staging

\* What holds of the directory at every instant.
StoreInv ==
    TypeOK /\ HeadsOutliveNothing /\ HeadsNameWholeGenerations /\ NoConflict /\ PrivateUntilPromoted

\* Redundancy: once two generations have been published, one fault in a head
\* record or a database leaves a generation to serve, also when further
\* publications, crashes and power losses follow.  It takes the identity to be
\* intact, and no recovery, which points both heads at one generation.
OneFaultTolerated ==
    acked.sequence >= 2 /\ faults <= 1 /\ ~recovered /\ disk.repository = acked.repository
        => Current # Missing

\* A reader answers with a generation that was current at some instant
\* while it ran ("the newest valid referenced generation", line 2357), although
\* it reads the two heads one after the other and generations vanish under it:
\* as long as no recovery has been asked for (a recovering writer
\* puts its one head into both slots, one after the other) and no publication
\* was cut short, nor an operation of a cleanup failed: the next cleanup then
\* has two generations to reclaim, in the order of the directory, and a reader
\* that two publications overtook can find the newer of its two gone and the
\* older still there.
StrictReaderAnswerWasCurrent ==
    \A r \in Readers :
        ~recovered /\ reader[r].pc = "answered" /\ (stops = 0 \/ overtaken[r] < 2)
        => reader[r].answer \in seen[r]

\* A reader fails, in a store neither damaged nor recovered, only when two
\* publications overtook it and reclaimed both generations it knew of.
ReaderFailsOnlyWhenOvertaken ==
    ~recovered => \A r \in Readers : reader[r].pc = "failed" => overtaken[r] >= 2

\* What a reader may count on beside writers that do not recover.
ReaderServed == StrictReaderAnswerWasCurrent /\ ReaderFailsOnlyWhenOvertaken

\* The identity of a store that serves a generation is never replaced, lost
\* in a power loss or created a second time by writers that race for the
\* first admission; and a recovery rebinds "only after that generation
\* validates" (PublicationRecovery), to an identity whose first generation is
\* already durable.
RebindsOnlyToWholeGeneration ==
    [][disk'.repository # disk.repository /\ faults' = faults
       => /\ Current = Missing
          /\ \A w \in Writers :
                writer[w].pc = "commit" /\ writer'[w].pc = "syncCommit"
                => writer[w].head.generation \in disk.generations \cap stable.generations]_vars

\* Storage is bounded: when a publication is acknowledged whose cleanup had
\* nothing to warn of, the population is what the heads name, and nothing is
\* left of writers that crashed, of publications cut short or of what earlier
\* cleanups failed to remove.  (An error of a cleanup is only a warning in
\* PublicationMaintenance: that publication is acknowledged all the same, with
\* the remains for the next one.)
PopulationBounded ==
    [][acked' # acked /\ (\A w \in Writers : ~writer[w].warned)
       => /\ staging' = {}
          /\ disk'.generations = {disk'.heads[s].generation : s \in ValidSlots(disk'.heads)}]_vars

\* Without faults the store implements the log of generations.
Log == INSTANCE GenerationLog WITH log <- Current.generation.contents, acked <- acked.sequence
ImplementsLog == Log!LogSpec
=============================================================================
