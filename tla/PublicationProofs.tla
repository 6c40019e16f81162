-------------------------- MODULE PublicationProofs --------------------------
(***************************************************************************)
(* Machine-checked proofs about the publication store, for any number of   *)
(* writers and readers, any contents, any bounds on stops, power losses    *)
(* and media faults, and both meanings of fsync; in the second part, what  *)
(* holds in addition as long as the medium does not fail.  The last        *)
(* theorem is that the store then implements GenerationLog.                *)
(***************************************************************************)
EXTENDS Publication, FiniteSetTheorems, SequenceTheorems, TLAPS

-----------------------------------------------------------------------------
(* The inductive invariant.  Its parts speak of any directory d, any       *)
(* synchronised part t of it and any writer record x.                      *)

WriterPlaces == {"idle", "list", "create", "write", "writeUnlinked", "syncRepository", "lock"} \cup Held
Identities == 1..MaxIdentities

StoreType == [repository : {Absent, Unreadable} \cup Identities, populated : BOOLEAN,
              heads : [Slots -> Heads], generations : SUBSET Generations]
WriterType == [pc : WriterPlaces, mode : {"Strict", "RecoverAndRebind"},
               repository : {Absent} \cup Identities, fresh : BOOLEAN,
               admitted : Heads, slot : Slots \cup {NoSlot}, head : ValidHeads \cup {Missing},
               retain : SUBSET Generations, left : SUBSET (Writers \cup {Litter}), warned : BOOLEAN]
ReaderType == [pc : {"idle", "head0", "head1", "validate", "answered", "unpublished", "failed"},
               repository : {Absent} \cup Identities, heads : [Slots -> Heads],
               tried : SUBSET Slots, answer : Heads]

Types ==
    /\ disk \in StoreType /\ stable \in StoreType
    /\ damaged \subseteq disk.generations
    /\ staging \subseteq Writers \cup {Litter}
    /\ identities \in 0..MaxIdentities
    /\ writer \in [Writers -> WriterType] /\ reader \in [Readers -> ReaderType]
    /\ acked \in ValidHeads \cup {Missing}

\* The valid records among which a power loss chooses.
Survivors(d, t) == {h \in {d.heads[0], d.heads[1], t.heads[0], t.heads[1]} : IsValid(h)}

\* Each of them names a generation that a power loss cannot take, one
\* sequence never stands for two of them, and an identity that is not
\* synchronised yet has none.
StoreTrue(d, t) ==
    /\ \A h \in Survivors(d, t) : h.generation \in d.generations \cap t.generations
    /\ \A g, h \in Survivors(d, t) : g.sequence = h.sequence => g = h
    /\ d.repository # t.repository => \A h \in Survivors(d, t) : h.repository # d.repository

BeforeCommit == {"admitted", "build", "promote", "syncGenerations", "commit"}
BeforeHead == BeforeCommit \cup {"syncCommit", "head"}
AfterHead == {"syncHead", "secondHead", "syncSecond"}
Finishing == {"cleanup", "reclaim"}
WithHead == {"promote", "syncGenerations", "commit", "syncCommit", "head"} \cup AfterHead

\* What the writer that holds the lock may rely on.
\* ... of the head records: nothing is pending until it replaces one, and its
\* own is newer than all others;
HeadsTrue(d, t, x) ==
    /\ x.pc \in BeforeHead \cup Finishing => d.heads = t.heads
    /\ x.pc \in WithHead =>
          /\ x.head \in ValidHeads /\ x.slot \in Slots /\ x.head.repository = x.repository
          /\ \A h \in Survivors(d, t) :
                h.sequence < x.head.sequence \/ (x.pc \in AfterHead /\ h = x.head)

\* ... of the generations: its own is durable before it becomes a head, and
\* cleanup keeps what any head names;
GenerationsTrue(d, t, x) ==
    /\ x.pc \in {"build", "promote"} => d.generations = t.generations
    /\ x.pc = "syncGenerations" => x.head.generation \in d.generations
    /\ x.pc \in {"commit", "syncCommit", "head"} \cup AfterHead =>
          x.head.generation \in d.generations \cap t.generations
    /\ x.pc = "reclaim" => \A h \in Survivors(d, t) : h.generation \in x.retain

\* ... and of the identity: one it drew itself names no head before it is
\* committed, and any other is synchronised.
Bound(x) == x.pc \in Held /\ (~x.fresh \/ x.pc \in {"head"} \cup AfterHead \cup Finishing)
IdentityTrue(d, t, x) ==
    /\ \/ x.pc \in {"write", "writeUnlinked", "syncRepository"} \cup Held
       \/ x.pc = "lock" /\ x.mode = "Strict"
       => x.repository \in Identities
    /\ x.fresh => x.pc \in Held
    /\ x.pc \in {"commit", "syncCommit"} => x.fresh
    /\ Bound(x) /\ d.repository = x.repository => t.repository = x.repository
    /\ x.fresh /\ x.pc \in BeforeCommit \cup {"syncCommit"} =>
          \A h \in Survivors(d, t) : h.repository # x.repository
    /\ x.fresh /\ x.pc \in BeforeCommit =>
          \A h \in Survivors(d, t) : h.repository # d.repository
    /\ x.pc = "write" => /\ d.repository = Unreadable /\ t.repository # x.repository
                         /\ \A h \in Survivors(d, t) : h.repository # x.repository

WriterTrue(d, t, x) == HeadsTrue(d, t, x) /\ GenerationsTrue(d, t, x) /\ IdentityTrue(d, t, x)

\* One writer holds the lock.
Exclusion == \A v, w \in Writers : writer[v].pc \in Held /\ writer[w].pc \in Held => v = w

\* An identity is drawn once, and is nobody else's until it is written.
Drawn(d, t, drawn) ==
    d.repository <= drawn /\ t.repository <= drawn /\ \A h \in Survivors(d, t) : h.repository <= drawn
DrawnOnce ==
    /\ Drawn(disk, stable, identities)
    /\ \A w \in Writers : writer[w].repository <= identities
    /\ \A v, w \in Writers : writer[w].pc = "write" /\ v # w =>
          writer[v].repository # writer[w].repository /\ writer[v].pc # "write"

StoreIInv ==
    /\ Types
    /\ StoreTrue(disk, stable)
    /\ \A w \in Writers : WriterTrue(disk, stable, writer[w])
    /\ Exclusion /\ DrawnOnce /\ PrivateUntilPromoted

-----------------------------------------------------------------------------
(* Arithmetic of slots and heads.                                          *)

LEMMA HeadKinds ==
    /\ \A h \in Heads : IsValid(h) <=> h \in ValidHeads
    /\ Missing \in Heads /\ Invalid \in Heads /\ ~IsValid(Missing) /\ ~IsValid(Invalid)
    /\ \A h \in Heads : h.sequence \in Int
    /\ \A h \in ValidHeads : /\ h.sequence \in 1..MaxSequence /\ h.generation \in Generations
                             /\ h.repository \in Identities
  BY PublicationAssumption DEF Heads, ValidHeads, Missing, Invalid, HeadRecord, IsValid, Identities

LEMMA SurvivorKinds ==
    ASSUME NEW d \in StoreType, NEW t \in StoreType
    PROVE  Survivors(d, t) \subseteq ValidHeads
  <1>1. {d.heads[0], d.heads[1], t.heads[0], t.heads[1]} \subseteq Heads
    BY DEF StoreType, Slots
  <1> QED
    BY <1>1, HeadKinds DEF Survivors

\* The two slots of a scan, newest first.
LEMMA NewestSlot ==
    ASSUME NEW heads \in [Slots -> Heads], NEW slots \in SUBSET Slots
    PROVE  /\ NewestOf(heads, slots) \in slots \cup {NoSlot}
           /\ NewestOf(heads, slots) = NoSlot <=> slots = {}
           /\ \A s \in slots : heads[s].sequence <= heads[NewestOf(heads, slots)].sequence
  <1>1. heads[0].sequence \in Int /\ heads[1].sequence \in Int
    BY HeadKinds DEF Slots
  <1>2. CASE slots = {}
    BY <1>2 DEF NewestOf
  <1>3. CASE slots # {}
    <2>1. \E s \in slots : \A u \in slots \ {s} : Before(heads, s, u)
      <3>1. CASE 0 \in slots /\ 1 \in slots
        <4>1. Before(heads, 0, 1) \/ Before(heads, 1, 0)
          BY <1>1 DEF Before
        <4> QED
          BY <3>1, <4>1 DEF Slots
      <3>2. CASE 0 \notin slots \/ 1 \notin slots
        <4>1. \A s, u \in slots : s = u
          BY <3>2 DEF Slots
        <4> QED
          BY <1>3, <4>1
      <3> QED
        BY <3>1, <3>2
    <2> DEFINE newest == CHOOSE s \in slots : \A u \in slots \ {s} : Before(heads, s, u)
    <2>2. newest \in slots /\ \A u \in slots \ {newest} : Before(heads, newest, u)
      BY <2>1
    <2>3. NewestOf(heads, slots) = newest
      BY <1>3 DEF NewestOf
    <2> HIDE DEF newest
    <2>4. newest # NoSlot
      BY <2>2 DEF Slots, NoSlot
    <2> QED
      BY <1>1, <1>3, <2>2, <2>3, <2>4 DEF Before, Slots
  <1> QED
    BY <1>2, <1>3

LEMMA NextSequenceIsNewer ==
    ASSUME NEW heads \in [Slots -> Heads]
    PROVE  /\ NextSequence(heads) \in Nat \ {0}
           /\ \A s \in Slots : IsValid(heads[s]) => heads[s].sequence < NextSequence(heads)
  <1> DEFINE newest == NewestOf(heads, ValidSlots(heads))
  <1>1. ValidSlots(heads) \in SUBSET Slots
    BY DEF ValidSlots
  <1>2. /\ newest \in ValidSlots(heads) \cup {NoSlot}
        /\ newest = NoSlot <=> ValidSlots(heads) = {}
        /\ \A s \in ValidSlots(heads) : heads[s].sequence <= heads[newest].sequence
    BY <1>1, NewestSlot
  <1>3. \A s \in Slots : heads[s].sequence \in Int
    BY HeadKinds
  <1>4. NextSequence(heads) = IF newest = NoSlot THEN 1 ELSE heads[newest].sequence + 1
    BY DEF NextSequence
  <1> HIDE DEF newest
  <1> QED
    BY <1>2, <1>3, <1>4 DEF ValidSlots, IsValid

LEMMA PublishSlotKind ==
    ASSUME NEW heads \in [Slots -> Heads], NEW selected \in Slots \cup {NoSlot}
    PROVE  PublishSlot(heads, selected) \in Slots
  <1>1. CASE InvalidSlots(heads) # {}
    <2> DEFINE S == InvalidSlots(heads)
    <2>1. \E s \in S : \A u \in S : s <= u
      BY <1>1 DEF InvalidSlots, Slots
    <2>2. (CHOOSE s \in S : \A u \in S : s <= u) \in S
      BY <2>1
    <2> QED
      BY <1>1, <2>2 DEF PublishSlot, InvalidSlots
  <1>2. CASE InvalidSlots(heads) = {}
    BY <1>2 DEF PublishSlot, Slots, NoSlot
  <1> QED
    BY <1>1, <1>2

LEMMA ResolvedSlot ==
    ASSUME NEW repository, disk \in StoreType
    PROVE  /\ Resolve(repository) \in Slots \cup {NoSlot}
           /\ Resolve(repository) # NoSlot =>
                 /\ IsValid(disk.heads[Resolve(repository)])
                 /\ Validates(disk.heads[Resolve(repository)], repository)
  <1> DEFINE S == {s \in ValidSlots(disk.heads) : Validates(disk.heads[s], repository)}
  <1>1. S \in SUBSET Slots /\ disk.heads \in [Slots -> Heads]
    BY DEF ValidSlots, StoreType
  <1>2. Resolve(repository) = NewestOf(disk.heads, S)
    BY DEF Resolve
  <1>3. NewestOf(disk.heads, S) \in S \cup {NoSlot}
    BY <1>1, NewestSlot
  <1> QED
    BY <1>2, <1>3 DEF ValidSlots

-----------------------------------------------------------------------------
(* Types.                                                                  *)

LEMMA IdleTyped == IdleWriter \in WriterType /\ IdleReader \in ReaderType
  BY HeadKinds DEF IdleWriter, IdleReader, WriterType, ReaderType, WriterPlaces, Slots

\* A writer goes on to another place, with all it knows.
SameButPlace(x, y) ==
    /\ y.mode = x.mode /\ y.repository = x.repository /\ y.fresh = x.fresh
    /\ y.admitted = x.admitted /\ y.slot = x.slot /\ y.head = x.head /\ y.retain = x.retain

LEMMA Going ==
    ASSUME writer \in [Writers -> WriterType], NEW w \in Writers, NEW place \in WriterPlaces,
           Goto(w, place)
    PROVE  /\ writer' \in [Writers -> WriterType]
           /\ writer'[w].pc = place /\ SameButPlace(writer[w], writer'[w])
           /\ \A v \in Writers \ {w} : writer'[v] = writer[v]
  BY DEF Goto, WriterType, SameButPlace

LEMMA Leaving ==
    ASSUME writer \in [Writers -> WriterType], NEW w \in Writers, Leave(w)
    PROVE  /\ writer' \in [Writers -> WriterType] /\ writer'[w] = IdleWriter
           /\ \A v \in Writers \ {w} : writer'[v] = writer[v]
  BY IdleTyped DEF Leave

(* What the records of the writer become, action by action.                *)
LEMMA Adopting ==
    ASSUME Types, NEW w \in Writers, AdoptRepository(w)
    PROVE  /\ writer' \in [Writers -> WriterType]
           /\ \A v \in Writers \ {w} : writer'[v] = writer[v]
           /\ \/ writer'[w] = IdleWriter
              \/ /\ writer'[w].pc = "lock" /\ writer'[w].mode = writer[w].mode
                 /\ writer'[w].fresh = writer[w].fresh
                 /\ writer'[w].repository = disk.repository /\ disk.repository \in Identities
  <1>1. CASE disk.repository = Unreadable /\ Leave(w)
    BY <1>1, Leaving DEF Types
  <1>2. CASE /\ disk.repository \notin {Absent, Unreadable}
             /\ writer' = [writer EXCEPT ![w].pc = "lock", ![w].repository = disk.repository]
    <2>1. disk.repository \in Identities
      BY <1>2 DEF Types, StoreType
    <2> QED
      BY ZenonT(60), <1>2, <2>1 DEF Types, WriterType, WriterPlaces
  <1> QED
    BY <1>1, <1>2 DEF AdoptRepository

-----------------------------------------------------------------------------
(* Steps that leave the valid records of the store as they are.            *)

\* `populated` is not part of what the invariant speaks of.
SameStore(d, e) ==
    e.repository = d.repository /\ e.heads = d.heads /\ e.generations = d.generations

LEMMA NothingMoved ==
    ASSUME NEW d, NEW t, NEW e, NEW u, SameStore(d, e), SameStore(t, u)
    PROVE  /\ Survivors(e, u) = Survivors(d, t)
           /\ StoreTrue(d, t) => StoreTrue(e, u)
           /\ \A x : WriterTrue(d, t, x) => WriterTrue(e, u, x)
  <1>1. Survivors(e, u) = Survivors(d, t)
    BY DEF Survivors, SameStore
  <1>2. StoreTrue(d, t) => StoreTrue(e, u)
    BY <1>1 DEF StoreTrue, SameStore
  <1>3. ASSUME NEW x, WriterTrue(d, t, x) PROVE WriterTrue(e, u, x)
    <2>1. HeadsTrue(e, u, x)
      BY <1>1, <1>3 DEF WriterTrue, HeadsTrue, SameStore
    <2>2. GenerationsTrue(e, u, x)
      BY <1>1, <1>3 DEF WriterTrue, GenerationsTrue, SameStore
    <2>3. IdentityTrue(e, u, x)
      BY <1>1, <1>3 DEF WriterTrue, IdentityTrue, SameStore
    <2> QED
      BY <2>1, <2>2, <2>3 DEF WriterTrue
  <1> QED
    BY <1>1, <1>2, <1>3

\* sync_cap_directory on the publication directory.
LEMMA ControlsSynced ==
    ASSUME NEW d \in StoreType, NEW t \in StoreType, NEW e \in StoreType, NEW u \in StoreType,
           SameStore(d, e), u.repository = d.repository, u.heads = d.heads,
           u.generations = t.generations, StoreTrue(d, t)
    PROVE  /\ Survivors(e, u) \subseteq Survivors(d, t)
           /\ StoreTrue(e, u) /\ e.heads = u.heads /\ e.repository = u.repository
           /\ \A x \in WriterType : WriterTrue(d, t, x) => WriterTrue(e, u, x)
  <1>1. Survivors(e, u) \subseteq Survivors(d, t)
    BY DEF Survivors, SameStore
  <1>2. StoreTrue(e, u)
    BY <1>1 DEF StoreTrue, SameStore
  <1>3. ASSUME NEW x \in WriterType, WriterTrue(d, t, x) PROVE WriterTrue(e, u, x)
    <2>1. HeadsTrue(e, u, x)
      BY <1>1, <1>3 DEF WriterTrue, HeadsTrue, SameStore
    <2>2. GenerationsTrue(e, u, x)
      BY <1>1, <1>3 DEF WriterTrue, GenerationsTrue, SameStore
    <2>3. IdentityTrue(e, u, x)
      BY <1>1, <1>3, PublicationAssumption DEF WriterTrue, IdentityTrue, SameStore, Identities, Unreadable
    <2> QED
      BY <2>1, <2>2, <2>3 DEF WriterTrue
  <1> QED
    BY <1>1, <1>2, <1>3 DEF SameStore

\* The directory sync of the population.
LEMMA PopulationSynced ==
    ASSUME NEW d \in StoreType, NEW t \in StoreType, NEW u \in StoreType,
           u.repository = t.repository, u.heads = t.heads, u.generations = d.generations,
           StoreTrue(d, t)
    PROVE  /\ Survivors(d, u) = Survivors(d, t)
           /\ StoreTrue(d, u)
           /\ \A x \in WriterType : WriterTrue(d, t, x) => WriterTrue(d, u, x)
  <1>1. Survivors(d, u) = Survivors(d, t)
    BY DEF Survivors
  <1>2. StoreTrue(d, u)
    BY <1>1 DEF StoreTrue
  <1>3. ASSUME NEW x \in WriterType, WriterTrue(d, t, x) PROVE WriterTrue(d, u, x)
    <2>1. HeadsTrue(d, u, x)
      BY <1>1, <1>3 DEF WriterTrue, HeadsTrue
    <2>2. GenerationsTrue(d, u, x)
      BY <1>1, <1>3 DEF WriterTrue, GenerationsTrue
    <2>3. IdentityTrue(d, u, x)
      BY <1>1, <1>3 DEF WriterTrue, IdentityTrue
    <2> QED
      BY <2>1, <2>2, <2>3 DEF WriterTrue
  <1> QED
    BY <1>1, <1>2, <1>3

\* A writer that does not hold the lock knows only of its own identity.
LEMMA Unlocked ==
    ASSUME NEW d, NEW t, NEW x \in WriterType, x.pc \notin Held, ~x.fresh,
           x.pc \in {"write", "writeUnlinked", "syncRepository"} \/ (x.pc = "lock" /\ x.mode = "Strict")
              => x.repository \in Identities,
           x.pc = "write" => /\ d.repository = Unreadable /\ t.repository # x.repository
                             /\ \A h \in Survivors(d, t) : h.repository # x.repository
    PROVE  WriterTrue(d, t, x)
  <1>1. HeadsTrue(d, t, x)
    BY DEF HeadsTrue, Held, BeforeHead, BeforeCommit, Finishing, WithHead, AfterHead
  <1>2. GenerationsTrue(d, t, x)
    BY DEF GenerationsTrue, Held, AfterHead
  <1>3. IdentityTrue(d, t, x)
    BY DEF IdentityTrue, Bound, Held, BeforeCommit
  <1> QED
    BY <1>1, <1>2, <1>3 DEF WriterTrue

\* A step of the writer w, of which the others see at most the store.
LEMMA WriterStep ==
    ASSUME StoreIInv, NEW w \in Writers, Types', StoreTrue(disk, stable)',
           \A v \in Writers \ {w} : writer'[v] = writer[v] /\ WriterTrue(disk', stable', writer[v]),
           WriterTrue(disk', stable', writer'[w]),
           writer'[w].pc \in Held => writer[w].pc \in Held \/ ~Locked,
           Drawn(disk', stable', identities'), identities' >= identities,
           \/ writer'[w].repository \in {writer[w].repository, Absent}
           \/ writer'[w].repository = disk.repository /\ disk.repository # Unreadable
           \/ writer'[w].repository = identities + 1 /\ identities' = identities + 1,
           writer'[w].pc = "write" =>
               writer[w].pc = "write" \/ (disk.repository = Absent /\ writer'[w].repository = identities + 1),
           \A v \in Writers \ {w} :
               writer[v].pc \in {"build", "promote"} /\ v \in staging => v \in staging',
           writer'[w].pc \in {"build", "promote"} => w \in staging'
    PROVE  StoreIInv'
  <1> USE DEF StoreIInv
  <1>1. /\ writer \in [Writers -> WriterType] /\ writer' \in [Writers -> WriterType]
        /\ identities \in Nat /\ identities' \in Nat /\ disk.repository \in Int
        /\ disk.repository <= identities
        /\ \A v \in Writers : writer[v].repository \in Nat /\ writer[v].repository <= identities
    BY PublicationAssumption DEF Types, WriterType, StoreType, DrawnOnce, Drawn, Absent, Unreadable, Identities
  <1>2. Exclusion'
    BY <1>1 DEF Exclusion, Locked
  <1>3. writer'[w].repository <= identities'
    BY <1>1 DEF Absent
  <1>4. \A v \in Writers : writer[v].pc = "write" =>
            disk.repository = Unreadable /\ writer[v].repository \in Identities
    BY DEF WriterTrue, IdentityTrue
  <1>5. ASSUME NEW v \in Writers, NEW u \in Writers, writer'[u].pc = "write", v # u
        PROVE  writer'[v].repository # writer'[u].repository /\ writer'[v].pc # "write"
    <2>1. CASE u # w /\ v # w
      BY <1>5, <2>1 DEF DrawnOnce
    <2>2. CASE u # w /\ v = w
      <3>1. /\ writer[u].pc = "write" /\ disk.repository = Unreadable
            /\ writer'[u].repository = writer[u].repository /\ writer[u].repository \in Identities
            /\ writer[w].pc # "write" /\ writer[w].repository # writer[u].repository
        BY <1>4, <1>5, <2>2 DEF DrawnOnce
      <3>2. writer'[w].repository # writer[u].repository
        BY <1>1, <3>1, PublicationAssumption DEF Identities, Absent
      <3> QED
        BY <2>2, <3>1, <3>2 DEF Unreadable, Absent
    <2>3. CASE u = w /\ v # w
      <3>1. CASE writer[w].pc = "write"
        <4>1. writer[v].repository # writer[w].repository /\ writer[v].pc # "write"
          BY <2>3, <3>1 DEF DrawnOnce
        <4>2. writer'[w].repository \in Identities
          BY <1>5, <2>3 DEF WriterTrue, IdentityTrue
        <4>3. disk.repository = Unreadable
          BY <1>4, <3>1
        <4> QED
          BY <1>1, <2>3, <4>1, <4>2, <4>3, PublicationAssumption DEF Identities, Absent
      <3>2. CASE writer[w].pc # "write"
        <4>1. disk.repository = Absent /\ writer'[w].repository = identities + 1
          BY <1>5, <2>3, <3>2
        <4>2. writer[v].repository <= identities /\ writer[v].repository \in Nat
          BY <1>1
        <4>3. writer[v].pc # "write"
          BY <1>4, <4>1 DEF Absent, Unreadable
        <4> QED
          BY <1>1, <2>3, <4>1, <4>2, <4>3
      <3> QED
        BY <3>1, <3>2
    <2> QED
      BY <1>5, <2>1, <2>2, <2>3
  <1>6. DrawnOnce'
    BY <1>1, <1>3, <1>5 DEF DrawnOnce
  <1>7. PrivateUntilPromoted'
    BY DEF PrivateUntilPromoted
  <1> QED
    BY <1>2, <1>6, <1>7

\* ... that leaves the store alone.
LEMMA QuietStep ==
    ASSUME StoreIInv, NEW w \in Writers, UNCHANGED <<disk, stable, damaged, identities, reader>>,
           writer' \in [Writers -> WriterType], \A v \in Writers \ {w} : writer'[v] = writer[v],
           WriterTrue(disk, stable, writer'[w]),
           writer'[w].pc \in Held => writer[w].pc \in Held,
           \/ writer'[w].repository \in {writer[w].repository, Absent}
           \/ writer'[w].repository = disk.repository /\ disk.repository # Unreadable,
           writer'[w].pc = "write" => writer[w].pc = "write",
           staging' \subseteq staging \cup {Litter}, staging \ staging' \subseteq {w},
           writer'[w].pc \in {"build", "promote"} => w \in staging',
           acked' \in ValidHeads \cup {Missing}
    PROVE  StoreIInv'
  <1>1. Types' /\ StoreTrue(disk, stable)'
    BY DEF StoreIInv, Types
  <1>2. \A v \in Writers : WriterTrue(disk, stable, writer[v])
    BY DEF StoreIInv
  <1>3. Drawn(disk', stable', identities') /\ identities' >= identities
    BY DEF StoreIInv, DrawnOnce, Drawn, Types
  <1>4. \A v \in Writers \ {w} : v \in staging => v \in staging'
    OBVIOUS
  <1> QED
    BY <1>1, <1>2, <1>3, <1>4, WriterStep

LEMMA NotFresh ==
    ASSUME StoreIInv, NEW w \in Writers, writer[w].pc \notin Held PROVE ~writer[w].fresh
  BY DEF StoreIInv, WriterTrue, IdentityTrue

LEMMA IdleTrue ==
    ASSUME NEW d, NEW t
    PROVE  WriterTrue(d, t, IdleWriter) /\ IdleWriter \in WriterType
  <1>1. IdleWriter \in WriterType /\ IdleWriter.pc = "idle" /\ ~IdleWriter.fresh
    BY IdleTyped DEF IdleWriter
  <1> QED
    BY <1>1, Unlocked DEF Held

\* An error return, a finished publication, a process that ends.
LEMMA LeavingKeepsInv ==
    ASSUME StoreIInv, NEW w \in Writers, Leave(w),
           UNCHANGED <<disk, stable, damaged, identities, reader>>,
           staging' \subseteq staging \cup {Litter}, staging \ staging' \subseteq {w},
           acked' \in ValidHeads \cup {Missing}
    PROVE  StoreIInv'
  <1>1. /\ writer' \in [Writers -> WriterType] /\ writer'[w] = IdleWriter
        /\ \A v \in Writers \ {w} : writer'[v] = writer[v]
    BY Leaving DEF StoreIInv, Types
  <1>2. WriterTrue(disk, stable, writer'[w])
    BY <1>1, IdleTrue
  <1>3. writer'[w].pc = "idle" /\ writer'[w].repository = Absent
    BY <1>1 DEF IdleWriter
  <1> QED
    BY <1>1, <1>2, <1>3, QuietStep DEF Held

LEMMA AbandonKeepsInv ==
    ASSUME StoreIInv, NEW w \in Writers, Abandon(w),
           UNCHANGED <<disk, stable, damaged, identities, reader, acked>>
    PROVE  StoreIInv'
  <1>1. Leave(w) /\ staging' \subseteq staging \cup {Litter} /\ staging \ staging' \subseteq {w}
    BY DEF Abandon
  <1>2. acked' \in ValidHeads \cup {Missing}
    BY DEF StoreIInv, Types
  <1> QED
    BY <1>1, <1>2, LeavingKeepsInv

LEMMA AdoptingKeepsInv ==
    ASSUME StoreIInv, NEW w \in Writers, AdoptRepository(w), writer[w].pc \notin Held,
           UNCHANGED <<disk, stable, damaged, identities, reader, acked, staging>>
    PROVE  StoreIInv'
  <1>1. /\ writer' \in [Writers -> WriterType]
        /\ \A v \in Writers \ {w} : writer'[v] = writer[v]
        /\ \/ writer'[w] = IdleWriter
           \/ /\ writer'[w].pc = "lock" /\ writer'[w].repository = disk.repository
              /\ disk.repository \in Identities /\ ~writer'[w].fresh
    BY Adopting, NotFresh DEF StoreIInv
  <1>2. CASE writer'[w] = IdleWriter
    <2>1. WriterTrue(disk, stable, writer'[w])
      BY <1>2, IdleTrue
    <2>2. writer'[w].pc = "idle" /\ writer'[w].repository = Absent
      BY <1>2 DEF IdleWriter
    <2>3. acked' \in ValidHeads \cup {Missing}
      BY DEF StoreIInv, Types
    <2> QED
      BY <1>1, <2>1, <2>2, <2>3, QuietStep DEF Held
  <1>3. CASE /\ writer'[w].pc = "lock" /\ writer'[w].repository = disk.repository
             /\ disk.repository \in Identities /\ ~writer'[w].fresh
    <2>1. WriterTrue(disk, stable, writer'[w])
      BY <1>1, <1>3, Unlocked DEF Held
    <2>2. disk.repository # Unreadable
      BY <1>3, PublicationAssumption DEF Identities, Unreadable
    <2> QED
      BY <1>1, <1>3, <2>1, <2>2, QuietStep DEF Held, StoreIInv, Types
  <1> QED
    BY <1>1, <1>2, <1>3

-----------------------------------------------------------------------------
(* Writers, up to the lock.                                                *)

LEMMA EnterKeepsInv ==
    ASSUME StoreIInv, NEW w \in Writers, NEW mode \in Modes, Enter(w, mode) PROVE StoreIInv'
  <1>1. /\ writer[w].pc = "idle"
        /\ UNCHANGED <<disk, stable, damaged, staging, reader, identities, acked>>
        /\ writer \in [Writers -> WriterType] /\ acked \in ValidHeads \cup {Missing}
    BY DEF Enter, Bystanders, StoreIInv, Types
  <1>a. writer[w].pc \notin Held /\ ~writer[w].fresh
    BY <1>1, NotFresh DEF Held
  <1>2. CASE mode = "RecoverAndRebind"
             /\ writer' = [writer EXCEPT ![w].pc = "lock", ![w].mode = mode]
    <2>0. writer' = [writer EXCEPT ![w].pc = "lock", ![w].mode = "RecoverAndRebind"]
      BY <1>2
    <2>1. /\ writer' \in [Writers -> WriterType] /\ \A v \in Writers \ {w} : writer'[v] = writer[v]
          /\ writer'[w].pc = "lock" /\ writer'[w].mode = "RecoverAndRebind"
          /\ writer'[w].repository = writer[w].repository /\ writer'[w].fresh = writer[w].fresh
      BY ZenonT(60), <1>1, <2>0 DEF WriterType, WriterPlaces
    <2>2. WriterTrue(disk, stable, writer'[w])
      BY <2>1, <1>a, Unlocked DEF Held
    <2> QED
      BY <1>1, <2>1, <2>2, QuietStep DEF Held
  <1>3. CASE mode = "Strict" /\ Goto(w, "list")
    <2>1. /\ writer' \in [Writers -> WriterType] /\ \A v \in Writers \ {w} : writer'[v] = writer[v]
          /\ writer'[w].pc = "list" /\ writer'[w].repository = writer[w].repository
          /\ writer'[w].fresh = writer[w].fresh
      BY <1>1, <1>3, Going DEF WriterPlaces, SameButPlace
    <2>2. WriterTrue(disk, stable, writer'[w])
      BY <2>1, <1>a, Unlocked DEF Held
    <2> QED
      BY <1>1, <2>1, <2>2, QuietStep DEF Held
  <1>4. CASE AdoptRepository(w)
    BY <1>1, <1>a, <1>4, AdoptingKeepsInv
  <1> QED
    BY <1>2, <1>3, <1>4 DEF Enter

LEMMA ListKeepsInv ==
    ASSUME StoreIInv, NEW w \in Writers, ListEntries(w) PROVE StoreIInv'
  <1>1. /\ writer[w].pc = "list"
        /\ UNCHANGED <<disk, stable, damaged, staging, reader, identities, acked>>
        /\ writer \in [Writers -> WriterType] /\ acked \in ValidHeads \cup {Missing}
    BY DEF ListEntries, Bystanders, StoreIInv, Types
  <1>a. writer[w].pc \notin Held /\ ~writer[w].fresh
    BY <1>1, NotFresh DEF Held
  <1>2. CASE AdoptRepository(w)
    BY <1>1, <1>a, <1>2, AdoptingKeepsInv
  <1>3. CASE Leave(w)
    BY <1>1, <1>3, LeavingKeepsInv
  <1>4. CASE Goto(w, "create")
    <2>1. /\ writer' \in [Writers -> WriterType] /\ \A v \in Writers \ {w} : writer'[v] = writer[v]
          /\ writer'[w].pc = "create" /\ writer'[w].repository = writer[w].repository
          /\ writer'[w].fresh = writer[w].fresh
      BY <1>1, <1>4, Going DEF WriterPlaces, SameButPlace
    <2>2. WriterTrue(disk, stable, writer'[w])
      BY <2>1, <1>a, Unlocked DEF Held
    <2> QED
      BY <1>1, <2>1, <2>2, QuietStep DEF Held
  <1> QED
    BY <1>2, <1>3, <1>4 DEF ListEntries

LEMMA DrawnFacts ==
    ASSUME StoreIInv
    PROVE  /\ disk \in StoreType /\ stable \in StoreType /\ identities \in Nat
           /\ disk.repository \in Int /\ disk.repository <= identities
           /\ stable.repository \in Int /\ stable.repository <= identities
           /\ \A h \in Survivors(disk, stable) : h \in ValidHeads /\ h.repository \in Int
                                                 /\ h.repository <= identities
           /\ \A v \in Writers : /\ writer[v] \in WriterType /\ WriterTrue(disk, stable, writer[v])
                                 /\ writer[v].repository \in Int /\ writer[v].repository <= identities
  BY PublicationAssumption, SurvivorKinds, HeadKinds DEF StoreIInv, Types, StoreType, WriterType, DrawnOnce,
     Drawn, Absent, Unreadable, Identities

LEMMA CreateKeepsInv ==
    ASSUME StoreIInv, NEW w \in Writers, CreateRepository(w) PROVE StoreIInv'
  <1> USE DrawnFacts
  <1>1. /\ writer[w].pc = "create"
        /\ UNCHANGED <<stable, damaged, staging, reader, acked>>
        /\ writer \in [Writers -> WriterType] /\ Types
    BY DEF CreateRepository, StoreIInv, Types
  <1>a. writer[w].pc \notin Held /\ ~writer[w].fresh
    BY <1>1, NotFresh DEF Held
  <1>2. CASE AdoptRepository(w) /\ UNCHANGED <<disk, identities>>
    BY <1>1, <1>a, <1>2, AdoptingKeepsInv
  <1>3. CASE /\ disk.repository = Absent /\ identities < MaxIdentities
             /\ identities' = identities + 1
             /\ writer' = [writer EXCEPT ![w].pc = "write", ![w].repository = identities + 1]
             /\ disk' = [disk EXCEPT !.repository = Unreadable]
    <2>1. identities + 1 \in Identities /\ identities' \in 0..MaxIdentities
      BY <1>3, PublicationAssumption DEF Identities
    <2>2. /\ writer' \in [Writers -> WriterType] /\ \A v \in Writers \ {w} : writer'[v] = writer[v]
          /\ writer'[w].pc = "write" /\ writer'[w].repository = identities + 1
          /\ ~writer'[w].fresh
      BY <1>1, <1>a, <1>3, <2>1 DEF WriterType, WriterPlaces
    <2>3. /\ disk' \in StoreType /\ disk'.repository = Unreadable /\ disk'.heads = disk.heads
          /\ disk'.generations = disk.generations
      BY <1>3 DEF StoreType
    <2>4. Types'
      BY <1>1, <2>1, <2>2, <2>3 DEF Types
    <2>5. Survivors(disk', stable') = Survivors(disk, stable)
      BY <1>1, <2>3 DEF Survivors
    <2>6. \A h \in Survivors(disk, stable) : h.repository \in Identities /\ h.repository # Unreadable
      BY HeadKinds, PublicationAssumption DEF Identities, Unreadable
    <2>7. StoreTrue(disk', stable')
      BY <1>1, <2>3, <2>5, <2>6 DEF StoreTrue, StoreIInv
    <2>8. ASSUME NEW v \in Writers \ {w} PROVE WriterTrue(disk', stable', writer[v])
      <3>1. HeadsTrue(disk', stable', writer[v]) /\ GenerationsTrue(disk', stable', writer[v])
        BY <1>1, <2>3, <2>5 DEF WriterTrue, HeadsTrue, GenerationsTrue
      <3>2. writer[v].repository # Unreadable
        BY PublicationAssumption DEF WriterType, Identities, Unreadable, Absent
      <3>3. IdentityTrue(disk', stable', writer[v])
        BY <1>1, <2>3, <2>5, <2>6, <3>2 DEF WriterTrue, IdentityTrue
      <3> QED
        BY <3>1, <3>3 DEF WriterTrue
    <2>9. WriterTrue(disk', stable', writer'[w])
      <3>1. \A h \in Survivors(disk', stable') : h.repository # identities + 1
        BY <2>5
      <3>2. stable'.repository # identities + 1
        BY <1>1
      <3>3. writer'[w] \in WriterType
        BY <2>2
      <3> QED
        BY <2>1, <2>2, <2>3, <3>1, <3>2, <3>3, Unlocked DEF Held
    <2>10. Drawn(disk', stable', identities') /\ identities' >= identities
      BY <1>1, <1>3, <2>3, <2>5 DEF Drawn, Unreadable
    <2> QED
      BY <1>1, <1>3, <2>2, <2>4, <2>7, <2>8, <2>9, <2>10, WriterStep DEF Held
  <1> QED
    BY <1>2, <1>3 DEF CreateRepository

LEMMA WriteKeepsInv ==
    ASSUME StoreIInv, NEW w \in Writers, WriteRepository(w) PROVE StoreIInv'
  <1> USE DrawnFacts
  <1>1. /\ UNCHANGED <<stable, damaged, staging, reader, identities, acked>> /\ Types
        /\ writer \in [Writers -> WriterType] /\ Goto(w, "syncRepository")
        /\ acked \in ValidHeads \cup {Missing}
    BY DEF WriteRepository, Bystanders, StoreIInv, Types
  <1>2. /\ writer' \in [Writers -> WriterType] /\ \A v \in Writers \ {w} : writer'[v] = writer[v]
        /\ writer'[w].pc = "syncRepository" /\ writer'[w].repository = writer[w].repository
        /\ writer'[w].fresh = writer[w].fresh
    BY <1>1, Going DEF WriterPlaces, SameButPlace
  <1>3. writer[w].pc \in {"write", "writeUnlinked"} /\ writer[w].repository \in Identities
    BY DEF WriteRepository, WriterTrue, IdentityTrue
  <1>a. ~writer[w].fresh
    BY <1>3, NotFresh DEF Held
  <1>4. \A d, t : WriterTrue(d, t, writer'[w])
    BY <1>2, <1>3, <1>a, Unlocked DEF Held
  <1>5. CASE writer[w].pc = "writeUnlinked" /\ UNCHANGED disk
    BY <1>1, <1>2, <1>4, <1>5, QuietStep DEF Held
  <1>6. CASE writer[w].pc = "write" /\ disk' = [disk EXCEPT !.repository = writer[w].repository]
    <2>1. /\ disk' \in StoreType /\ disk'.repository = writer[w].repository
          /\ disk'.heads = disk.heads /\ disk'.generations = disk.generations
      BY <1>3, <1>6 DEF StoreType
    <2>2. Types'
      BY <1>1, <1>2, <2>1 DEF Types
    <2>3. Survivors(disk', stable') = Survivors(disk, stable)
      BY <1>1, <2>1 DEF Survivors
    <2>4. \A h \in Survivors(disk, stable) : h.repository # writer[w].repository
      BY <1>6 DEF WriterTrue, IdentityTrue
    <2>5. StoreTrue(disk', stable')
      BY <1>1, <2>1, <2>3, <2>4 DEF StoreTrue, StoreIInv
    <2>6. ASSUME NEW v \in Writers \ {w} PROVE WriterTrue(disk', stable', writer[v])
      <3>1. HeadsTrue(disk', stable', writer[v]) /\ GenerationsTrue(disk', stable', writer[v])
        BY <1>1, <2>1, <2>3 DEF WriterTrue, HeadsTrue, GenerationsTrue
      <3>2. writer[v].repository # writer[w].repository /\ writer[v].pc # "write"
        BY <1>6 DEF StoreIInv, DrawnOnce
      <3>3. IdentityTrue(disk', stable', writer[v])
        BY <1>1, <2>1, <2>3, <2>4, <3>2 DEF WriterTrue, IdentityTrue
      <3> QED
        BY <3>1, <3>3 DEF WriterTrue
    <2>7. Drawn(disk', stable', identities') /\ identities' >= identities
      BY <1>1, <2>1, <2>3 DEF Drawn
    <2> QED
      BY <1>1, <1>2, <1>4, <2>2, <2>5, <2>6, <2>7, WriterStep DEF Held
  <1> QED
    BY <1>5, <1>6 DEF WriteRepository

LEMMA SyncedTyped ==
    ASSUME StoreIInv
    PROVE  /\ Synced \in StoreType /\ Synced.repository = disk.repository /\ Synced.heads = disk.heads
           /\ Synced.generations = stable.generations
           /\ [Synced EXCEPT !.populated = TRUE] \in StoreType
           /\ SameStore(Synced, [Synced EXCEPT !.populated = TRUE])
  BY DEF StoreIInv, Types, StoreType, Synced, SameStore

LEMMA SyncRepositoryKeepsInv ==
    ASSUME StoreIInv, NEW w \in Writers, SyncRepository(w) PROVE StoreIInv'
  <1> USE DrawnFacts
  <1>1. /\ UNCHANGED <<disk, damaged, staging, reader, identities, acked>> /\ Types
        /\ writer \in [Writers -> WriterType] /\ Goto(w, "lock") /\ stable' = Synced
        /\ writer[w].pc = "syncRepository" /\ StoreTrue(disk, stable) /\ PrivateUntilPromoted
    BY DEF SyncRepository, Bystanders, StoreIInv, Types
  <1>2. /\ writer' \in [Writers -> WriterType] /\ \A v \in Writers \ {w} : writer'[v] = writer[v]
        /\ writer'[w].pc = "lock" /\ writer'[w].repository = writer[w].repository
        /\ writer'[w].fresh = writer[w].fresh
    BY <1>1, Going DEF WriterPlaces, SameButPlace
  <1>3. writer[w].repository \in Identities
    BY <1>1 DEF WriterTrue, IdentityTrue
  <1>a. ~writer[w].fresh
    BY <1>1, NotFresh DEF Held
  <1>4. WriterTrue(disk', stable', writer'[w])
    BY <1>2, <1>3, <1>a, Unlocked DEF Held
  <1>5. SameStore(disk, disk)
    BY DEF SameStore
  <1>6. /\ Survivors(disk, Synced) \subseteq Survivors(disk, stable) /\ StoreTrue(disk, Synced)
        /\ \A x \in WriterType : WriterTrue(disk, stable, x) => WriterTrue(disk, Synced, x)
    BY <1>1, <1>5, SyncedTyped, ControlsSynced
  <1>7. Types'
    BY <1>1, <1>2, SyncedTyped DEF Types
  <1>8. Drawn(disk', stable', identities') /\ identities' >= identities
    BY <1>1, <1>6, SyncedTyped DEF Drawn
  <1> QED
    BY <1>1, <1>2, <1>4, <1>6, <1>7, <1>8, WriterStep DEF Held

-----------------------------------------------------------------------------
(* Writers under the lock.                                                 *)

\* A strict admission is of the identity the writer loaded before, whose
\* record is whole.
LEMMA AdmittedIdentity ==
    ASSUME StoreIInv, NEW w \in Writers, NEW head \in AdmittedHeads(w)
    PROVE  disk.repository = writer[w].repository /\ head \in Heads
  <1>1. disk \in StoreType /\ disk.heads \in [Slots -> Heads]
    BY DEF StoreIInv, Types, StoreType
  <1> DEFINE resolved == Resolve(disk.repository)
             newest == NewestOf(disk.heads, ValidSlots(disk.heads))
  <1>2. resolved \in Slots \cup {NoSlot}
    BY <1>1, ResolvedSlot
  <1>3. newest \in ValidSlots(disk.heads) \cup {NoSlot}
    BY <1>1, NewestSlot DEF ValidSlots
  <1>4. CASE /\ newest # NoSlot /\ head = disk.heads[newest]
             /\ disk.repository = writer[w].repository
    BY <1>1, <1>3, <1>4 DEF ValidSlots
  <1>5. CASE /\ Admissible(w) /\ head = IF resolved = NoSlot THEN Missing ELSE disk.heads[resolved]
    BY <1>1, <1>2, <1>5, HeadKinds DEF Admissible
  <1> QED
    BY <1>4, <1>5 DEF AdmittedHeads

LEMMA TryLockKeepsInv ==
    ASSUME StoreIInv, NEW w \in Writers, TryLock(w) PROVE StoreIInv'
  <1> USE DrawnFacts
  <1>1. /\ UNCHANGED <<damaged, staging, reader, acked>> /\ Types
        /\ writer \in [Writers -> WriterType] /\ writer[w].pc = "lock"
        /\ StoreTrue(disk, stable) /\ PrivateUntilPromoted
        /\ acked \in ValidHeads \cup {Missing}
    BY DEF TryLock, StoreIInv, Types
  <1> DEFINE filled(d) == [d EXCEPT !.populated = TRUE]
  <1>2. /\ filled(disk) \in StoreType /\ SameStore(disk, filled(disk)) /\ SameStore(stable, stable)
        /\ filled(Synced) \in StoreType /\ SameStore(Synced, filled(Synced))
    BY SyncedTyped DEF StoreType, SameStore
  <1>3. /\ filled(Synced).repository = disk.repository /\ filled(Synced).heads = disk.heads
        /\ filled(Synced).generations = stable.generations
        /\ filled(disk).repository = disk.repository /\ filled(disk).heads = disk.heads
        /\ filled(disk).generations = disk.generations
    BY <1>2, SyncedTyped DEF SameStore
  <1> HIDE DEF filled
  <1>4. /\ Survivors(filled(disk), filled(Synced)) \subseteq Survivors(disk, stable)
        /\ StoreTrue(filled(disk), filled(Synced))
        /\ \A x \in WriterType : WriterTrue(disk, stable, x) => WriterTrue(filled(disk), filled(Synced), x)
    BY <1>1, <1>2, <1>3, ControlsSynced
  <1>5. CASE Leave(w) /\ UNCHANGED <<disk, stable, identities>>
    BY <1>1, <1>5, LeavingKeepsInv
  <1>6. CASE Leave(w) /\ disk' = filled(disk) /\ UNCHANGED <<stable, identities>>
    <2>1. /\ writer' \in [Writers -> WriterType] /\ writer'[w] = IdleWriter
          /\ \A v \in Writers \ {w} : writer'[v] = writer[v]
      BY <1>1, <1>6, Leaving
    <2>2. /\ WriterTrue(disk', stable', writer'[w])
          /\ writer'[w].pc = "idle" /\ writer'[w].repository = Absent
      <3>1. WriterTrue(disk', stable', IdleWriter)
        BY IdleTrue
      <3>2. IdleWriter.pc = "idle" /\ IdleWriter.repository = Absent
        BY DEF IdleWriter
      <3> QED
        BY <2>1, <3>1, <3>2
    <2>3. Types'
      BY <1>1, <1>2, <1>3, <1>6, <2>1 DEF Types
    <2>4. /\ Survivors(disk', stable') = Survivors(disk, stable) /\ StoreTrue(disk', stable')
          /\ \A x : WriterTrue(disk, stable, x) => WriterTrue(disk', stable', x)
      BY <1>1, <1>2, <1>6, NothingMoved
    <2>5. Drawn(disk', stable', identities') /\ identities' >= identities
      BY <1>3, <1>6, <2>4 DEF Drawn
    <2> QED
      BY <1>1, <2>1, <2>2, <2>3, <2>4, <2>5, WriterStep DEF Held
  <1>7. ASSUME ~Locked, disk' = filled(disk), stable' = filled(Synced),
               writer' \in [Writers -> WriterType], \A v \in Writers \ {w} : writer'[v] = writer[v],
               writer'[w].pc = "admitted", writer'[w].repository \in Identities,
               \/ ~writer'[w].fresh /\ identities' = identities
                  /\ writer'[w].repository \in {writer[w].repository, disk.repository}
               \/ /\ writer'[w].fresh /\ writer'[w].repository = identities + 1
                  /\ identities' = identities + 1 /\ identities < MaxIdentities
                  /\ disk.repository \in {Absent, Unreadable}
        PROVE  StoreIInv'
    <2>1. Types'
      BY <1>1, <1>2, <1>3, <1>7, PublicationAssumption DEF Types
    <2>2. Drawn(disk', stable', identities') /\ identities' >= identities
      BY <1>3, <1>4, <1>7 DEF Drawn
    <2>3. HeadsTrue(disk', stable', writer'[w]) /\ GenerationsTrue(disk', stable', writer'[w])
      BY <1>3, <1>7 DEF HeadsTrue, GenerationsTrue, WithHead, AfterHead
    <2>4. \A h \in Survivors(disk', stable') : /\ h.repository \in Identities
                                               /\ h.repository <= identities
      BY <1>4, <1>7, HeadKinds
    <2>5. IdentityTrue(disk', stable', writer'[w])
      <3>1. CASE ~writer'[w].fresh
        BY <1>3, <1>7, <3>1 DEF IdentityTrue, Bound
      <3>2. CASE writer'[w].fresh
        <4>1. \A h \in Survivors(disk', stable') : h.repository # writer'[w].repository
          BY <1>7, <2>4, <3>2
        <4>2. \A h \in Survivors(disk', stable') : h.repository # disk'.repository
          BY <1>3, <1>7, <2>4, <3>2, PublicationAssumption DEF Identities, Absent, Unreadable
        <4> QED
          BY <1>3, <1>7, <3>2, <4>1, <4>2 DEF IdentityTrue, Bound, Held, AfterHead, Finishing
      <3> QED
        BY <3>1, <3>2, <1>7 DEF WriterType
    <2>6. WriterTrue(disk', stable', writer'[w])
      BY <2>3, <2>5 DEF WriterTrue
    <2>7. disk.repository = Unreadable => writer'[w].repository # disk.repository
      BY <1>7, PublicationAssumption DEF Identities, Unreadable
    <2> QED
      BY <1>1, <1>4, <1>7, <2>1, <2>2, <2>6, <2>7, WriterStep DEF Held
  <1>a. ~writer[w].fresh
    BY <1>1, NotFresh DEF Held
  <1>b. "admitted" \in WriterPlaces
    BY DEF WriterPlaces, Held
  <1>8. CASE /\ ~Locked /\ writer[w].mode = "Strict" /\ UNCHANGED identities
             /\ disk' = filled(disk) /\ stable' = filled(Synced)
             /\ \E head \in AdmittedHeads(w) :
                   writer' = [writer EXCEPT ![w].pc = "admitted", ![w].admitted = head]
    <2>1. PICK head \in AdmittedHeads(w) :
              writer' = [writer EXCEPT ![w].pc = "admitted", ![w].admitted = head]
      BY <1>8
    <2>2. head \in Heads
      BY AdmittedIdentity
    <2>3. /\ writer' \in [Writers -> WriterType] /\ \A v \in Writers \ {w} : writer'[v] = writer[v]
          /\ writer'[w].pc = "admitted" /\ writer'[w].repository = writer[w].repository
          /\ writer'[w].fresh = writer[w].fresh
      BY ZenonT(60), <1>b, <1>1, <2>1, <2>2 DEF WriterType
    <2>4. writer[w].repository \in Identities
      BY <1>1, <1>8 DEF WriterTrue, IdentityTrue
    <2> QED
      BY <1>7, <1>8, <1>a, <2>3, <2>4
  <1>9. CASE /\ ~Locked /\ UNCHANGED identities
             /\ disk' = filled(disk) /\ stable' = filled(Synced)
             /\ disk.repository \notin {Absent, Unreadable}
             /\ writer' = [writer EXCEPT ![w].pc = "admitted", ![w].repository = disk.repository]
    <2>1. disk.repository \in Identities
      BY <1>9 DEF StoreType
    <2>2. /\ writer' \in [Writers -> WriterType] /\ \A v \in Writers \ {w} : writer'[v] = writer[v]
          /\ writer'[w].pc = "admitted" /\ writer'[w].repository = disk.repository
          /\ writer'[w].fresh = writer[w].fresh
      BY ZenonT(60), <1>b, <1>1, <1>9, <2>1 DEF WriterType
    <2> QED
      BY <1>7, <1>9, <1>a, <2>1, <2>2
  <1>10. CASE /\ ~Locked
              /\ disk' = filled(disk) /\ stable' = filled(Synced)
              /\ disk.repository \in {Absent, Unreadable} /\ identities < MaxIdentities
              /\ identities' = identities + 1
              /\ writer' = [writer EXCEPT ![w].pc = "admitted", ![w].fresh = TRUE,
                                          ![w].repository = identities + 1]
    <2>1. identities + 1 \in Identities
      BY <1>10, PublicationAssumption DEF Identities
    <2>2. /\ writer' \in [Writers -> WriterType] /\ \A v \in Writers \ {w} : writer'[v] = writer[v]
          /\ writer'[w].pc = "admitted" /\ writer'[w].repository = identities + 1
          /\ writer'[w].fresh
      BY <1>b, <1>1, <1>10, <2>1 DEF WriterType
    <2> QED
      BY <1>7, <1>10, <2>1, <2>2
  <1> QED
    BY <1>5, <1>6, <1>8, <1>9, <1>10 DEF TryLock, filled

\* While one writer holds the lock the others know nothing that its steps
\* could take from them.
LEMMA HolderStep ==
    ASSUME StoreIInv, NEW w \in Writers, writer[w].pc \in Held,
           disk' \in StoreType, stable' \in StoreType, damaged' \subseteq disk'.generations,
           staging' \subseteq Writers \cup {Litter}, acked' \in ValidHeads \cup {Missing},
           UNCHANGED <<identities, reader>>,
           writer' \in [Writers -> WriterType], \A v \in Writers \ {w} : writer'[v] = writer[v],
           disk'.repository = disk.repository,
           stable'.repository \in {stable.repository, disk.repository},
           \A h \in Survivors(disk', stable') :
               h \in Survivors(disk, stable) \/ h.repository = writer[w].repository,
           StoreTrue(disk, stable)', WriterTrue(disk', stable', writer'[w]),
           writer'[w].repository \in {writer[w].repository, Absent}, writer'[w].pc # "write",
           writer'[w].pc \in {"build", "promote"} => w \in staging'
    PROVE  StoreIInv'
  <1> USE DrawnFacts
  <1>1. Types' /\ writer[w].pc # "write"
    BY DEF Types, StoreIInv, Held
  <1>2. \A v \in Writers \ {w} : writer[v].pc \notin Held
    BY DEF StoreIInv, Exclusion
  <1>3. ASSUME NEW v \in Writers \ {w} PROVE WriterTrue(disk', stable', writer[v])
    <2>1. writer[v].pc \notin Held /\ ~writer[v].fresh
      BY <1>2, NotFresh
    <2>2. writer[v].pc \in {"write", "writeUnlinked", "syncRepository"}
          \/ (writer[v].pc = "lock" /\ writer[v].mode = "Strict")
              => writer[v].repository \in Identities
      BY DEF WriterTrue, IdentityTrue
    <2>3. ASSUME writer[v].pc = "write"
          PROVE  /\ disk'.repository = Unreadable /\ stable'.repository # writer[v].repository
                 /\ \A h \in Survivors(disk', stable') : h.repository # writer[v].repository
      <3>1. /\ disk.repository = Unreadable /\ stable.repository # writer[v].repository
            /\ \A h \in Survivors(disk, stable) : h.repository # writer[v].repository
        BY <2>3 DEF WriterTrue, IdentityTrue
      <3>2. writer[w].repository # writer[v].repository
        BY <2>3 DEF StoreIInv, DrawnOnce
      <3>3. writer[v].repository # Unreadable
        BY <2>2, <2>3, PublicationAssumption DEF Identities, Unreadable
      <3> QED
        BY <3>1, <3>2, <3>3
    <2> QED
      BY <2>1, <2>2, <2>3, Unlocked
  <1>4. Drawn(disk', stable', identities') /\ identities' >= identities
    BY DEF Drawn
  <1>5. \A v \in Writers \ {w} : writer[v].pc \notin {"build", "promote"}
    BY <1>2 DEF Held
  <1> QED
    BY <1>1, <1>3, <1>4, <1>5, WriterStep

LEMMA BeginKeepsInv ==
    ASSUME StoreIInv, NEW w \in Writers, BeginGeneration(w) PROVE StoreIInv'
  <1> USE DrawnFacts
  <1>1. /\ UNCHANGED <<disk, damaged, reader, identities, acked>> /\ Types /\ StoreTrue(disk, stable)
        /\ writer \in [Writers -> WriterType] /\ Goto(w, "build") /\ writer[w].pc = "admitted"
        /\ staging' = staging \cup {w} /\ stable' = [stable EXCEPT !.generations = disk.generations]
    BY DEF BeginGeneration, Bystanders, StoreIInv, Types
  <1>2. /\ writer' \in [Writers -> WriterType] /\ \A v \in Writers \ {w} : writer'[v] = writer[v]
        /\ writer'[w].pc = "build" /\ SameButPlace(writer[w], writer'[w])
    BY <1>1, Going DEF WriterPlaces, Held
  <1>3. /\ stable' \in StoreType /\ stable'.repository = stable.repository
        /\ stable'.heads = stable.heads /\ stable'.generations = disk.generations
    BY <1>1 DEF StoreType
  <1>4. /\ Survivors(disk, stable') = Survivors(disk, stable) /\ StoreTrue(disk, stable')
        /\ WriterTrue(disk, stable', writer[w])
    BY ZenonT(60), <1>1, <1>3, PopulationSynced
  <1>5. HeadsTrue(disk, stable', writer'[w])
    BY <1>1, <1>2, <1>4 DEF WriterTrue, HeadsTrue, BeforeHead, BeforeCommit, WithHead, AfterHead
  <1>6. GenerationsTrue(disk, stable', writer'[w])
    BY <1>2, <1>3 DEF GenerationsTrue, AfterHead
  <1>7. IdentityTrue(disk, stable', writer'[w])
    BY <1>1, <1>2, <1>4 DEF WriterTrue, IdentityTrue, SameButPlace, Bound, Held, BeforeCommit, AfterHead, Finishing
  <1>8. WriterTrue(disk', stable', writer'[w])
    BY <1>1, <1>5, <1>6, <1>7 DEF WriterTrue
  <1>9. /\ damaged' \subseteq disk'.generations /\ staging' \subseteq Writers \cup {Litter}
        /\ acked' \in ValidHeads \cup {Missing} /\ w \in staging'
    BY <1>1 DEF Types
  <1> QED
    BY <1>1, <1>2, <1>3, <1>4, <1>8, <1>9, HolderStep DEF SameButPlace, Held

LEMMA DiscardKeepsInv ==
    ASSUME StoreIInv, NEW w \in Writers, Discard(w) PROVE StoreIInv'
  <1> USE DrawnFacts
  <1>1. /\ UNCHANGED <<disk, damaged, reader, identities, acked>> /\ Types /\ StoreTrue(disk, stable)
        /\ writer \in [Writers -> WriterType] /\ Leave(w) /\ writer[w].pc = "build"
        /\ staging' = staging \ {w} /\ stable' = [stable EXCEPT !.generations = disk.generations]
    BY DEF Discard, Bystanders, StoreIInv, Types
  <1>2. /\ writer' \in [Writers -> WriterType] /\ \A v \in Writers \ {w} : writer'[v] = writer[v]
        /\ writer'[w] = IdleWriter
    BY <1>1, Leaving
  <1>3. /\ stable' \in StoreType /\ stable'.repository = stable.repository
        /\ stable'.heads = stable.heads /\ stable'.generations = disk.generations
    BY <1>1 DEF StoreType
  <1>4. Survivors(disk, stable') = Survivors(disk, stable) /\ StoreTrue(disk, stable')
    BY ZenonT(60), <1>1, <1>3, PopulationSynced
  <1>5. WriterTrue(disk', stable', IdleWriter)
    BY IdleTrue
  <1>6. writer'[w].pc = "idle" /\ writer'[w].repository = Absent
    BY <1>2 DEF IdleWriter
  <1>9. /\ damaged' \subseteq disk'.generations /\ staging' \subseteq Writers \cup {Litter}
        /\ acked' \in ValidHeads \cup {Missing}
    BY <1>1 DEF Types
  <1> QED
    BY <1>1, <1>2, <1>3, <1>4, <1>5, <1>6, <1>9, HolderStep DEF Held

\* What a candidate becomes.
Candidate(repository, slot, content) ==
    HeadRecord(NextSequence(disk.heads),
               [repository |-> repository,
                contents |-> Append(IF slot = NoSlot THEN <<>> ELSE disk.heads[slot].generation.contents,
                                    content)],
               repository)

LEMMA CandidateKind ==
    ASSUME disk \in StoreType, NEW repository \in Identities, NEW slot \in Slots \cup {NoSlot},
           NEW content \in Contents, NextSequence(disk.heads) <= MaxSequence
    PROVE  /\ Candidate(repository, slot, content) \in ValidHeads
           /\ Candidate(repository, slot, content).repository = repository
           /\ Candidate(repository, slot, content).sequence = NextSequence(disk.heads)
           /\ PublishSlot(disk.heads, slot) \in Slots
  <1> DEFINE ancestors == IF slot = NoSlot THEN <<>> ELSE disk.heads[slot].generation.contents
  <1>1. \A h \in Heads : h.generation.contents \in Seq(Contents)
    <2>1. \A h \in ValidHeads : h.generation.contents \in Seq(Contents)
      BY DEF ValidHeads, Generations
    <2>2. Missing.generation.contents = <<>> /\ Invalid.generation.contents = <<>>
      BY DEF Missing, Invalid, HeadRecord, NoGeneration
    <2> QED
      BY <2>1, <2>2, EmptySeq DEF Heads
  <1>2. ancestors \in Seq(Contents)
    BY <1>1, EmptySeq DEF StoreType
  <1>3. Append(ancestors, content) \in Seq(Contents)
    BY <1>2, AppendProperties
  <1>4. NextSequence(disk.heads) \in 1..MaxSequence
    BY NextSequenceIsNewer, PublicationAssumption DEF StoreType
  <1>5. Candidate(repository, slot, content) =
            [sequence |-> NextSequence(disk.heads),
             generation |-> [repository |-> repository, contents |-> Append(ancestors, content)],
             repository |-> repository]
    BY DEF Candidate, HeadRecord
  <1> HIDE DEF ancestors
  <1>6. Candidate(repository, slot, content) \in ValidHeads
    BY <1>3, <1>4, <1>5 DEF ValidHeads, Generations, Identities
  <1>7. PublishSlot(disk.heads, slot) \in Slots
    BY PublishSlotKind DEF StoreType
  <1> QED
    BY <1>5, <1>6, <1>7

\* With nothing pending the heads on disk are all that a power loss can leave.
LEMMA NothingPending ==
    ASSUME NEW d, NEW t, d.heads = t.heads, NEW h \in Survivors(d, t)
    PROVE  \E s \in Slots : h = d.heads[s] /\ s \in ValidSlots(d.heads)
  BY DEF Survivors, Slots, ValidSlots

LEMMA SealKeepsInv ==
    ASSUME StoreIInv, NEW w \in Writers, Seal(w) PROVE StoreIInv'
  <1> USE DrawnFacts
  <1>1. /\ UNCHANGED <<disk, stable, damaged, reader, identities, acked>> /\ Types
        /\ writer \in [Writers -> WriterType] /\ writer[w].pc = "build"
        /\ acked' \in ValidHeads \cup {Missing}
    BY DEF Seal, Bystanders, StoreIInv, Types
  <1>2. CASE Abandon(w)
    BY <1>1, <1>2, AbandonKeepsInv
  <1>3. ASSUME NEW slot \in Slots \cup {NoSlot}, NEW content \in Contents,
               NextSequence(disk.heads) <= MaxSequence, UNCHANGED staging,
               writer' = [writer EXCEPT
                   ![w].pc = "promote", ![w].slot = PublishSlot(disk.heads, slot),
                   ![w].head = Candidate(writer[w].repository, slot, content)]
        PROVE  StoreIInv'
    <2> DEFINE head == Candidate(writer[w].repository, slot, content)
               place == PublishSlot(disk.heads, slot)
    <2>1. writer[w].repository \in Identities
      BY <1>1 DEF WriterTrue, IdentityTrue, Held
    <2>2. /\ head \in ValidHeads /\ head.repository = writer[w].repository
          /\ head.sequence = NextSequence(disk.heads) /\ place \in Slots
      BY <1>3, <2>1, CandidateKind
    <2>3. writer' = [writer EXCEPT ![w].pc = "promote", ![w].slot = place, ![w].head = head]
      BY <1>3
    <2> HIDE DEF head, place
    <2>4. "promote" \in WriterPlaces
      BY DEF WriterPlaces, Held
    <2>5. /\ writer' \in [Writers -> WriterType] /\ \A v \in Writers \ {w} : writer'[v] = writer[v]
          /\ writer'[w].pc = "promote" /\ writer'[w].slot = place /\ writer'[w].head = head
          /\ writer'[w].repository = writer[w].repository /\ writer'[w].fresh = writer[w].fresh
          /\ writer'[w].mode = writer[w].mode
      BY ZenonT(60), <1>1, <2>2, <2>3, <2>4 DEF WriterType
    <2>6. disk.heads = stable.heads /\ disk.generations = stable.generations
      BY <1>1 DEF WriterTrue, HeadsTrue, GenerationsTrue, BeforeHead, BeforeCommit
    <2>7. ASSUME NEW h \in Survivors(disk, stable) PROVE h.sequence < head.sequence
      <3>1. PICK s \in Slots : h = disk.heads[s] /\ IsValid(disk.heads[s])
        BY <2>6, NothingPending DEF ValidSlots
      <3> QED
        BY <2>2, <3>1, NextSequenceIsNewer DEF StoreType
    <2>8. HeadsTrue(disk, stable, writer'[w])
      BY <2>2, <2>5, <2>6, <2>7 DEF HeadsTrue
    <2>9. GenerationsTrue(disk, stable, writer'[w])
      BY <2>5, <2>6 DEF GenerationsTrue, AfterHead
    <2>10. IdentityTrue(disk, stable, writer'[w])
      BY <1>1, <2>5 DEF WriterTrue, IdentityTrue, Bound, Held, BeforeCommit, AfterHead, Finishing
    <2>11. WriterTrue(disk, stable, writer'[w])
      BY <2>8, <2>9, <2>10 DEF WriterTrue
    <2>12. w \in staging'
      BY <1>1, <1>3 DEF StoreIInv, PrivateUntilPromoted
    <2> QED
      BY <1>1, <1>3, <2>5, <2>11, <2>12, QuietStep DEF Held
  <1> QED
    BY <1>2, <1>3 DEF Seal, Candidate

\* A step of the lock's holder that neither touches the records nor what a
\* power loss leaves of the population.
LEMMA PlaceStep ==
    ASSUME StoreIInv, NEW w \in Writers, writer[w].pc \in Held,
           disk' \in StoreType, stable' \in StoreType, damaged' \subseteq disk'.generations,
           UNCHANGED <<identities, reader, acked>>, staging' \subseteq staging \cup {Litter},
           writer' \in [Writers -> WriterType], \A v \in Writers \ {w} : writer'[v] = writer[v],
           SameButPlace(writer[w], writer'[w]),
           writer'[w].pc \in Held, writer'[w].pc \notin {"build", "promote"},
           disk'.repository = disk.repository,
           stable'.repository \in {stable.repository, disk.repository},
           Survivors(disk', stable') \subseteq Survivors(disk, stable) \cup {writer[w].head},
           writer[w].pc \in WithHead \/ Survivors(disk', stable') \subseteq Survivors(disk, stable),
           StoreTrue(disk', stable'), HeadsTrue(disk', stable', writer'[w]),
           GenerationsTrue(disk', stable', writer'[w]), IdentityTrue(disk', stable', writer'[w])
    PROVE  StoreIInv'
  <1> USE DrawnFacts
  <1>1. \A h \in Survivors(disk', stable') :
            h \in Survivors(disk, stable) \/ h.repository = writer[w].repository
    BY DEF WriterTrue, HeadsTrue
  <1>2. WriterTrue(disk', stable', writer'[w])
    BY DEF WriterTrue
  <1>3. staging' \subseteq Writers \cup {Litter} /\ acked' \in ValidHeads \cup {Missing}
    BY DEF StoreIInv, Types
  <1> QED
    BY <1>1, <1>2, <1>3, HolderStep DEF SameButPlace, Held

LEMMA PromoteKeepsInv ==
    ASSUME StoreIInv, NEW w \in Writers, Promote(w) PROVE StoreIInv'
  <1> USE DrawnFacts
  <1> DEFINE generation == writer[w].head.generation
  <1>1. /\ UNCHANGED <<stable, damaged, reader, identities, acked>> /\ Types
        /\ writer \in [Writers -> WriterType] /\ writer[w].pc = "promote"
        /\ StoreTrue(disk, stable)
    BY DEF Promote, Bystanders, StoreIInv, Types
  <1>2. writer[w].head \in ValidHeads /\ generation \in Generations
    BY <1>1, HeadKinds DEF WriterTrue, HeadsTrue, WithHead
  <1>3. disk.heads = stable.heads /\ disk.generations = stable.generations
    BY <1>1 DEF WriterTrue, HeadsTrue, GenerationsTrue, BeforeHead, BeforeCommit
  <1>4. ASSUME NEW place \in {"syncGenerations", "commit", "head"}, Goto(w, place),
               place = "commit" => writer[w].fresh, place = "head" => ~writer[w].fresh
        PROVE  /\ writer' \in [Writers -> WriterType] /\ \A v \in Writers \ {w} : writer'[v] = writer[v]
               /\ writer'[w].pc = place /\ SameButPlace(writer[w], writer'[w])
               /\ HeadsTrue(disk, stable, writer'[w]) /\ IdentityTrue(disk, stable, writer'[w])
    <2>1. place \in WriterPlaces
      BY DEF WriterPlaces, Held
    <2>2. /\ writer' \in [Writers -> WriterType] /\ \A v \in Writers \ {w} : writer'[v] = writer[v]
          /\ writer'[w].pc = place /\ SameButPlace(writer[w], writer'[w])
      BY <1>1, <1>4, <2>1, Going
    <2>3. HeadsTrue(disk, stable, writer'[w])
      BY <1>1, <2>2 DEF WriterTrue, HeadsTrue, SameButPlace, BeforeHead, BeforeCommit, WithHead, AfterHead
    <2>4. IdentityTrue(disk, stable, writer'[w])
      BY <1>1, <1>4, <2>2 DEF WriterTrue, IdentityTrue, SameButPlace, Bound, Held, BeforeCommit, AfterHead, Finishing
    <2> QED
      BY <2>2, <2>3, <2>4
  <1>5. CASE /\ disk' = [disk EXCEPT !.generations = @ \cup {generation}]
             /\ staging' = staging \ {w} /\ Goto(w, "syncGenerations")
    <2>1. /\ disk' \in StoreType /\ disk'.repository = disk.repository /\ disk'.heads = disk.heads
          /\ disk'.generations = disk.generations \cup {generation}
      BY <1>2, <1>5 DEF StoreType
    <2>2. Survivors(disk', stable') = Survivors(disk, stable)
      BY <1>1, <2>1 DEF Survivors
    <2>3. StoreTrue(disk', stable')
      BY <1>1, <2>1, <2>2 DEF StoreTrue
    <2>4. HeadsTrue(disk', stable', writer'[w])
      BY <1>1, <1>4, <1>5, <2>1, <2>2 DEF HeadsTrue
    <2>5. GenerationsTrue(disk', stable', writer'[w])
      BY <1>4, <1>5, <2>1 DEF GenerationsTrue, SameButPlace, AfterHead
    <2>6. IdentityTrue(disk', stable', writer'[w])
      BY <1>1, <1>4, <1>5, <2>1, <2>2 DEF IdentityTrue
    <2>7. damaged' \subseteq disk'.generations
      BY <1>1, <2>1 DEF Types
    <2> QED
      BY <1>1, <1>4, <1>5, <2>1, <2>2, <2>3, <2>4, <2>5, <2>6, <2>7, PlaceStep DEF Held
  <1>6. CASE /\ generation \in disk.generations \ damaged /\ staging' = staging \ {w}
             /\ Goto(w, AfterPromotion(w)) /\ UNCHANGED disk
    <2> DEFINE place == AfterPromotion(w)
    <2>1. /\ place \in {"commit", "head"} /\ (place = "commit" => writer[w].fresh)
          /\ (place = "head" => ~writer[w].fresh)
      BY DEF AfterPromotion
    <2>2. Goto(w, place)
      BY <1>6
    <2> HIDE DEF place
    <2>3. GenerationsTrue(disk, stable, writer'[w])
      BY <1>3, <1>4, <1>6, <2>1, <2>2 DEF GenerationsTrue, SameButPlace, AfterHead
    <2>4. damaged' \subseteq disk'.generations
      BY <1>1, <1>6 DEF Types
    <2> QED
      BY <1>1, <1>4, <1>6, <2>1, <2>2, <2>3, <2>4, PlaceStep DEF Held
  <1>7. CASE Abandon(w) /\ UNCHANGED disk
    BY <1>1, <1>7, AbandonKeepsInv
  <1> QED
    BY <1>5, <1>6, <1>7 DEF Promote

LEMMA SyncGenerationsKeepsInv ==
    ASSUME StoreIInv, NEW w \in Writers, SyncGenerations(w) PROVE StoreIInv'
  <1> USE DrawnFacts
  <1> DEFINE place == AfterPromotion(w)
  <1>1. /\ UNCHANGED <<disk, damaged, staging, reader, identities, acked>> /\ Types
        /\ writer \in [Writers -> WriterType] /\ writer[w].pc = "syncGenerations"
        /\ StoreTrue(disk, stable) /\ Goto(w, place)
        /\ stable' = [stable EXCEPT !.generations = disk.generations]
    BY DEF SyncGenerations, Bystanders, StoreIInv, Types
  <1>2. /\ place \in {"commit", "head"} /\ (place = "commit" => writer[w].fresh)
        /\ (place = "head" => ~writer[w].fresh)
    BY DEF AfterPromotion
  <1> HIDE DEF place
  <1>3. place \in WriterPlaces
    BY <1>2 DEF WriterPlaces, Held
  <1>4. /\ writer' \in [Writers -> WriterType] /\ \A v \in Writers \ {w} : writer'[v] = writer[v]
        /\ writer'[w].pc = place /\ SameButPlace(writer[w], writer'[w])
    BY <1>1, <1>3, Going
  <1>5. /\ stable' \in StoreType /\ stable'.repository = stable.repository
        /\ stable'.heads = stable.heads /\ stable'.generations = disk.generations
    BY <1>1 DEF StoreType
  <1>6. /\ Survivors(disk, stable') = Survivors(disk, stable) /\ StoreTrue(disk, stable')
        /\ WriterTrue(disk, stable', writer[w])
    BY <1>1, <1>5, PopulationSynced
  <1>7. HeadsTrue(disk, stable', writer'[w])
    BY <1>1, <1>2, <1>4, <1>6 DEF WriterTrue, HeadsTrue, SameButPlace, BeforeHead, BeforeCommit, WithHead, AfterHead
  <1>8. GenerationsTrue(disk, stable', writer'[w])
    BY <1>1, <1>2, <1>4, <1>5 DEF WriterTrue, GenerationsTrue, SameButPlace, AfterHead
  <1>9. IdentityTrue(disk, stable', writer'[w])
    BY <1>1, <1>2, <1>4, <1>6 DEF WriterTrue, IdentityTrue, SameButPlace, Bound, Held, BeforeCommit, AfterHead, Finishing
  <1>10. damaged' \subseteq disk'.generations
    BY <1>1 DEF Types
  <1> QED
    BY <1>1, <1>2, <1>4, <1>5, <1>6, <1>7, <1>8, <1>9, <1>10, PlaceStep DEF Held

\* The record that becomes a head is of the writer's identity, newer than all
\* others, and its generation durable.
LEMMA ReplaceKeepsInv ==
    ASSUME StoreIInv, NEW w \in Writers, ReplaceHead(w) PROVE StoreIInv'
  <1> USE DrawnFacts
  <1> DEFINE x == writer[w]
             slot == IF x.pc = "head" THEN x.slot ELSE 1 - x.slot
             place == IF x.pc = "head" THEN "syncHead" ELSE "syncSecond"
  <1>1. /\ UNCHANGED <<stable, damaged, staging, reader, identities, acked>> /\ Types
        /\ writer \in [Writers -> WriterType] /\ x.pc \in {"head", "secondHead"}
        /\ StoreTrue(disk, stable) /\ Goto(w, place)
        /\ disk' = [disk EXCEPT !.heads[slot] = x.head]
    BY DEF ReplaceHead, Bystanders, StoreIInv, Types
  <1>2. /\ x.head \in ValidHeads /\ x.slot \in Slots /\ x.head.repository = x.repository
        /\ \A h \in Survivors(disk, stable) : h.sequence < x.head.sequence \/ h = x.head
        /\ x.head.generation \in disk.generations \cap stable.generations
    BY <1>1 DEF WriterTrue, HeadsTrue, GenerationsTrue, WithHead, AfterHead
  <1>3. disk.repository = x.repository => stable.repository = x.repository
    BY <1>1 DEF WriterTrue, IdentityTrue, Bound, Held, AfterHead
  <1>4. slot \in Slots /\ place \in {"syncHead", "syncSecond"}
    BY <1>2 DEF Slots
  <1> HIDE DEF slot, place
  <1>5. place \in WriterPlaces
    BY <1>4 DEF WriterPlaces, Held
  <1>6. /\ writer' \in [Writers -> WriterType] /\ \A v \in Writers \ {w} : writer'[v] = writer[v]
        /\ writer'[w].pc = place /\ SameButPlace(writer[w], writer'[w])
    BY <1>1, <1>5, Going
  <1>7. /\ disk' \in StoreType /\ disk'.repository = disk.repository
        /\ disk'.generations = disk.generations
        /\ disk'.heads = [disk.heads EXCEPT ![slot] = x.head]
    BY <1>1, <1>2, <1>4 DEF StoreType, Heads
  <1>8. Survivors(disk', stable') \subseteq Survivors(disk, stable) \cup {x.head}
    BY <1>1, <1>4, <1>7 DEF Survivors, StoreType, Slots
  <1>9. StoreTrue(disk', stable')
    <2>1. \A h \in Survivors(disk', stable') : h.generation \in disk'.generations \cap stable'.generations
      BY <1>1, <1>2, <1>7, <1>8 DEF StoreTrue
    <2>2. ASSUME NEW g \in Survivors(disk', stable'), NEW h \in Survivors(disk', stable'),
                 g.sequence = h.sequence
          PROVE  g = h
      <3>1. \A k \in Survivors(disk, stable) \cup {x.head} : k.sequence \in Int
        BY <1>2, HeadKinds
      <3> QED
        BY <1>1, <1>2, <1>8, <2>2, <3>1 DEF StoreTrue
    <2>3. disk'.repository # stable'.repository =>
              \A h \in Survivors(disk', stable') : h.repository # disk'.repository
      BY <1>1, <1>2, <1>3, <1>7, <1>8 DEF StoreTrue
    <2> QED
      BY <2>1, <2>2, <2>3 DEF StoreTrue
  <1>10. HeadsTrue(disk', stable', writer'[w])
    BY <1>2, <1>4, <1>6, <1>8 DEF HeadsTrue, SameButPlace, BeforeHead, BeforeCommit, Finishing, AfterHead
  <1>11. GenerationsTrue(disk', stable', writer'[w])
    BY <1>1, <1>2, <1>4, <1>6, <1>7 DEF GenerationsTrue, SameButPlace
  <1>12. IdentityTrue(disk', stable', writer'[w])
    BY <1>1, <1>3, <1>4, <1>6, <1>7
       DEF WriterTrue, IdentityTrue, SameButPlace, Bound, Held, BeforeCommit
  <1>13. damaged' \subseteq disk'.generations
    BY <1>1, <1>7 DEF Types
  <1>14. x.pc \in Held /\ x.pc \in WithHead
    BY <1>1 DEF Held, WithHead, AfterHead
  <1> QED
    BY <1>1, <1>4, <1>6, <1>7, <1>8, <1>9, <1>10, <1>11, <1>12, <1>13, <1>14, PlaceStep DEF Held

LEMMA SyncControlsKeepsInv ==
    ASSUME StoreIInv, NEW w \in Writers, SyncControls(w) PROVE StoreIInv'
  <1> USE DrawnFacts
  <1> DEFINE place == CASE writer[w].pc = "syncCommit" -> "head"
                 [] writer[w].pc = "syncHead" /\ writer[w].mode = "RecoverAndRebind" -> "secondHead"
                 [] writer[w].pc = "syncHead" /\ writer[w].mode = "Strict" -> "cleanup"
                 [] writer[w].pc = "syncSecond" -> "cleanup"
  <1>1. /\ UNCHANGED <<disk, damaged, staging, reader, identities, acked>> /\ Types
        /\ writer \in [Writers -> WriterType] /\ writer[w].pc \in {"syncCommit", "syncHead", "syncSecond"}
        /\ StoreTrue(disk, stable) /\ Goto(w, place) /\ stable' = Synced
    BY DEF SyncControls, Bystanders, StoreIInv, Types
  <1>2. /\ place \in {"head", "secondHead", "cleanup"}
        /\ place = "head" <=> writer[w].pc = "syncCommit"
        /\ place = "secondHead" => writer[w].pc = "syncHead"
    BY <1>1 DEF WriterType
  <1> HIDE DEF place
  <1>3. place \in WriterPlaces
    BY <1>2 DEF WriterPlaces, Held
  <1>4. /\ writer' \in [Writers -> WriterType] /\ \A v \in Writers \ {w} : writer'[v] = writer[v]
        /\ writer'[w].pc = place /\ SameButPlace(writer[w], writer'[w])
    BY <1>1, <1>3, Going
  <1>5. /\ stable' \in StoreType /\ stable'.repository = disk.repository
        /\ stable'.heads = disk.heads /\ stable'.generations = stable.generations
        /\ SameStore(disk, disk)
    BY <1>1, SyncedTyped DEF SameStore
  <1>6. /\ Survivors(disk, stable') \subseteq Survivors(disk, stable) /\ StoreTrue(disk, stable')
        /\ WriterTrue(disk, stable', writer[w])
    BY <1>1, <1>5, ControlsSynced
  <1>7. HeadsTrue(disk, stable', writer'[w])
    BY <1>1, <1>2, <1>4, <1>5, <1>6 DEF WriterTrue, HeadsTrue, SameButPlace, BeforeHead, BeforeCommit, WithHead, AfterHead
  <1>8. GenerationsTrue(disk, stable', writer'[w])
    BY <1>1, <1>2, <1>4, <1>5, <1>6 DEF WriterTrue, GenerationsTrue, SameButPlace, AfterHead
  <1>9. IdentityTrue(disk, stable', writer'[w])
    BY <1>1, <1>2, <1>4, <1>5, <1>6 DEF WriterTrue, IdentityTrue, SameButPlace, Bound, Held, BeforeCommit, AfterHead, Finishing
  <1>10. damaged' \subseteq disk'.generations
    BY <1>1 DEF Types
  <1> QED
    BY <1>1, <1>2, <1>4, <1>5, <1>6, <1>7, <1>8, <1>9, <1>10, PlaceStep DEF Held

\* Nothing is pending when cleanup looks, so it keeps what any head names.
LEMMA ScanKeepsInv ==
    ASSUME StoreIInv, NEW w \in Writers, ScanForCleanup(w) PROVE StoreIInv'
  <1> USE DrawnFacts
  <1> DEFINE retain == IF InvalidSlots(disk.heads) # {} THEN disk.generations
                       ELSE {disk.heads[s].generation : s \in ValidSlots(disk.heads)}
  <1>1. /\ UNCHANGED <<disk, stable, damaged, staging, reader, identities, acked>>
        /\ writer \in [Writers -> WriterType] /\ writer[w].pc = "cleanup"
        /\ StoreTrue(disk, stable) /\ acked \in ValidHeads \cup {Missing}
        /\ writer' = [writer EXCEPT ![w].pc = "reclaim", ![w].retain = retain, ![w].left = {},
                                    ![w].warned = InvalidSlots(disk.heads) # {}]
    BY DEF ScanForCleanup, Bystanders, StoreIInv, Types
  <1>2. disk.heads = stable.heads
    BY <1>1 DEF WriterTrue, HeadsTrue, Finishing
  <1>3. \A h \in Survivors(disk, stable) : h.generation \in retain
    <2>1. TAKE h \in Survivors(disk, stable)
    <2>2. PICK s \in Slots : h = disk.heads[s] /\ s \in ValidSlots(disk.heads)
      BY <1>2, NothingPending
    <2> QED
      BY <1>1, <2>2 DEF StoreTrue
  <1>4. retain \subseteq Generations
    <2>1. \A s \in ValidSlots(disk.heads) : disk.heads[s].generation \in Generations
      BY HeadKinds DEF StoreType, ValidSlots
    <2> QED
      BY <2>1 DEF StoreType
  <1> DEFINE warned == InvalidSlots(disk.heads) # {}
  <1>11. warned \in BOOLEAN
    OBVIOUS
  <1> HIDE DEF retain, warned
  <1>5. "reclaim" \in WriterPlaces
    BY DEF WriterPlaces, Held
  <1>6. /\ writer' \in [Writers -> WriterType] /\ \A v \in Writers \ {w} : writer'[v] = writer[v]
        /\ writer'[w].pc = "reclaim" /\ writer'[w].retain = retain
        /\ writer'[w].repository = writer[w].repository /\ writer'[w].fresh = writer[w].fresh
        /\ writer'[w].mode = writer[w].mode
    <2>1. writer' = [writer EXCEPT ![w].pc = "reclaim", ![w].retain = retain, ![w].left = {},
                                   ![w].warned = warned]
      BY <1>1 DEF warned
    <2>2. /\ \A v \in Writers \ {w} : writer'[v] = writer[v]
          /\ writer'[w] = [writer[w] EXCEPT !.pc = "reclaim", !.retain = retain, !.left = {},
                                           !.warned = warned]
          /\ writer' = [v \in Writers |-> IF v = w THEN writer'[w] ELSE writer[v]]
      BY <1>1, <2>1
    <2>3. writer[w] \in WriterType
      BY <1>1
    <2>4. /\ writer'[w] \in WriterType /\ writer'[w].pc = "reclaim" /\ writer'[w].retain = retain
          /\ writer'[w].repository = writer[w].repository /\ writer'[w].fresh = writer[w].fresh
          /\ writer'[w].mode = writer[w].mode
      BY <1>4, <1>5, <1>11, <2>2, <2>3 DEF WriterType
    <2> QED
      BY <1>1, <2>2, <2>4
  <1>7. HeadsTrue(disk, stable, writer'[w])
    BY <1>2, <1>6 DEF HeadsTrue, WithHead, BeforeHead, BeforeCommit, AfterHead
  <1>8. GenerationsTrue(disk, stable, writer'[w])
    BY <1>3, <1>6 DEF GenerationsTrue, AfterHead
  <1>9. IdentityTrue(disk, stable, writer'[w])
    BY <1>1, <1>6 DEF WriterTrue, IdentityTrue, Bound, Held, BeforeCommit, AfterHead, Finishing
  <1>10. WriterTrue(disk, stable, writer'[w])
    BY <1>7, <1>8, <1>9 DEF WriterTrue
  <1> QED
    BY <1>1, <1>6, <1>10, QuietStep DEF Held

\* A step of cleanup takes away nothing that a head names, and gives up more
\* entries or none.
LEMMA CleaningKeepsInv ==
    ASSUME StoreIInv, NEW w \in Writers, writer[w].pc = "reclaim",
           UNCHANGED <<identities, reader, acked>>, staging' \subseteq Writers \cup {Litter},
           disk' \in StoreType, disk'.repository = disk.repository, disk'.heads = disk.heads,
           stable' \in StoreType, stable'.repository = stable.repository, stable'.heads = stable.heads,
           disk.generations \cap writer[w].retain \subseteq disk'.generations,
           stable'.generations \in {stable.generations, disk'.generations},
           damaged' \subseteq disk'.generations,
           writer' \in [Writers -> WriterType], \A v \in Writers \ {w} : writer'[v] = writer[v],
           writer'[w].pc = "reclaim", writer[w].retain \subseteq writer'[w].retain,
           writer'[w].repository = writer[w].repository, writer'[w].fresh = writer[w].fresh,
           writer'[w].mode = writer[w].mode
    PROVE  StoreIInv'
  <1> USE DrawnFacts
  <1>1. StoreTrue(disk, stable) /\ WriterTrue(disk, stable, writer[w])
    BY DEF StoreIInv
  <1>2. Survivors(disk', stable') = Survivors(disk, stable)
    BY DEF Survivors
  <1>3. \A h \in Survivors(disk, stable) :
            h.generation \in writer[w].retain \cap disk'.generations \cap stable'.generations
    BY <1>1 DEF StoreTrue, WriterTrue, GenerationsTrue
  <1>4. StoreTrue(disk', stable')
    BY <1>1, <1>2, <1>3 DEF StoreTrue
  <1>5. HeadsTrue(disk', stable', writer'[w])
    BY <1>1, <1>2 DEF WriterTrue, HeadsTrue, WithHead, BeforeHead, BeforeCommit, AfterHead, Finishing
  <1>6. GenerationsTrue(disk', stable', writer'[w])
    BY <1>2, <1>3 DEF GenerationsTrue, AfterHead
  <1>7. IdentityTrue(disk', stable', writer'[w])
    BY <1>1, <1>2 DEF WriterTrue, IdentityTrue, Bound, Held, BeforeCommit
  <1>8. WriterTrue(disk', stable', writer'[w])
    BY <1>5, <1>6, <1>7 DEF WriterTrue
  <1>9. acked' \in ValidHeads \cup {Missing} /\ writer[w].pc \in Held
    BY DEF StoreIInv, Types, Held
  <1> QED
    BY <1>2, <1>4, <1>8, <1>9, HolderStep

\* Taking one generation out of the population.
LEMMA WithoutGeneration ==
    ASSUME Types, NEW generation \in disk.generations,
           disk' = [disk EXCEPT !.generations = @ \ {generation}]
    PROVE  /\ disk' \in StoreType /\ disk'.repository = disk.repository /\ disk'.heads = disk.heads
           /\ disk'.generations = disk.generations \ {generation}
           /\ damaged \ {generation} \subseteq disk'.generations
           /\ stable' = [stable EXCEPT !.generations = disk'.generations] =>
                 /\ stable' \in StoreType /\ stable'.repository = stable.repository
                 /\ stable'.heads = stable.heads /\ stable'.generations = disk'.generations
  BY DEF Types, StoreType

LEMMA ReclaimKeepsInv ==
    ASSUME StoreIInv, NEW w \in Writers, Reclaim(w) PROVE StoreIInv'
  <1>1. /\ UNCHANGED <<writer, reader, identities, acked>> /\ Types
        /\ writer \in [Writers -> WriterType] /\ writer[w].pc = "reclaim"
        /\ disk \in StoreType /\ stable \in StoreType
    BY DEF Reclaim, Bystanders, StoreIInv, Types
  <1>2. CASE staging' = staging \cap writer[w].left /\ UNCHANGED <<disk, stable, damaged>>
    BY <1>1, <1>2, CleaningKeepsInv DEF Types
  <1>3. ASSUME NEW generation \in disk.generations \ writer[w].retain, UNCHANGED staging,
               disk' = [disk EXCEPT !.generations = @ \ {generation}],
               stable' = [stable EXCEPT !.generations = disk'.generations],
               damaged' = damaged \ {generation}
        PROVE  StoreIInv'
    <2>1. staging' \subseteq Writers \cup {Litter}
      BY <1>1, <1>3 DEF Types
    <2>2. /\ disk' \in StoreType /\ disk'.repository = disk.repository /\ disk'.heads = disk.heads
          /\ stable' \in StoreType /\ stable'.repository = stable.repository
          /\ stable'.heads = stable.heads /\ stable'.generations = disk'.generations
          /\ disk'.generations = disk.generations \ {generation}
          /\ damaged' \subseteq disk'.generations
      BY <1>1, <1>3, WithoutGeneration
    <2>3. disk.generations \cap writer[w].retain \subseteq disk'.generations
      BY <1>3, <2>2
    <2>4. /\ writer' = writer /\ writer' \in [Writers -> WriterType]
          /\ UNCHANGED <<identities, reader, acked>>
      BY <1>1
    <2> QED
      BY <1>1, <2>1, <2>2, <2>3, <2>4, CleaningKeepsInv
  <1> QED
    BY <1>1, <1>2, <1>3 DEF Reclaim

\* An error of cleanup loses nothing: what cannot be listed or removed stays.
LEMMA CleanupFailsKeepsInv ==
    ASSUME StoreIInv, NEW w \in Writers, CleanupFails(w) PROVE StoreIInv'
  <1> USE DrawnFacts
  <1>1. /\ UNCHANGED <<reader, identities, acked>> /\ Types
        /\ writer \in [Writers -> WriterType] /\ disk \in StoreType /\ stable \in StoreType
        /\ staging \subseteq Writers \cup {Litter} /\ StoreTrue(disk, stable)
    BY DEF CleanupFails, StoreIInv, Types
  <1>2. CASE ScanFails(w)
    <2>1. /\ UNCHANGED <<disk, stable, damaged, staging>> /\ writer[w].pc = "cleanup"
          /\ writer' = [writer EXCEPT ![w].pc = "reclaim", ![w].warned = TRUE,
                                      ![w].retain = disk.generations, ![w].left = staging]
          /\ disk.generations \subseteq Generations /\ "reclaim" \in WriterPlaces
      BY <1>1, <1>2 DEF ScanFails, StoreType, WriterPlaces, Held
    <2>2. /\ writer' \in [Writers -> WriterType] /\ \A v \in Writers \ {w} : writer'[v] = writer[v]
          /\ writer'[w].pc = "reclaim" /\ writer'[w].retain = disk.generations
          /\ writer'[w].repository = writer[w].repository /\ writer'[w].fresh = writer[w].fresh
          /\ writer'[w].mode = writer[w].mode
      BY ZenonT(60), <1>1, <2>1 DEF WriterType
    <2>3. HeadsTrue(disk, stable, writer'[w])
      BY <2>1, <2>2 DEF WriterTrue, HeadsTrue, WithHead, BeforeHead, BeforeCommit, AfterHead, Finishing
    <2>4. GenerationsTrue(disk, stable, writer'[w])
      BY <1>1, <2>2 DEF GenerationsTrue, AfterHead, StoreTrue
    <2>5. IdentityTrue(disk, stable, writer'[w])
      BY <2>1, <2>2 DEF WriterTrue, IdentityTrue, Bound, Held, BeforeCommit, AfterHead, Finishing
    <2>6. WriterTrue(disk, stable, writer'[w]) /\ acked' \in ValidHeads \cup {Missing}
      BY <1>1, <2>3, <2>4, <2>5 DEF WriterTrue, Types
    <2> QED
      BY <1>1, <2>1, <2>2, <2>6, QuietStep DEF Held
  <1>3. ASSUME NEW retain \in SUBSET Generations, NEW left \in SUBSET (Writers \cup {Litter}),
               writer[w].pc = "reclaim", writer[w].retain \subseteq retain,
               writer' = [writer EXCEPT ![w].warned = TRUE, ![w].retain = retain, ![w].left = left]
        PROVE  /\ writer' \in [Writers -> WriterType] /\ \A v \in Writers \ {w} : writer'[v] = writer[v]
               /\ writer'[w].pc = "reclaim" /\ writer[w].retain \subseteq writer'[w].retain
               /\ writer'[w].repository = writer[w].repository /\ writer'[w].fresh = writer[w].fresh
               /\ writer'[w].mode = writer[w].mode
    <2>1. /\ \A v \in Writers \ {w} : writer'[v] = writer[v]
          /\ writer'[w] = [writer[w] EXCEPT !.warned = TRUE, !.retain = retain, !.left = left]
          /\ writer' = [v \in Writers |-> IF v = w THEN writer'[w] ELSE writer[v]]
      BY <1>1, <1>3
    <2>2. writer[w] \in WriterType
      BY <1>1
    <2>3. /\ writer'[w] \in WriterType /\ writer'[w].pc = writer[w].pc /\ writer'[w].retain = retain
          /\ writer'[w].repository = writer[w].repository /\ writer'[w].fresh = writer[w].fresh
          /\ writer'[w].mode = writer[w].mode
      BY <2>1, <2>2 DEF WriterType
    <2> QED
      BY <1>1, <1>3, <2>1, <2>3
  <1>4. CASE RemovalFails(w)
    <2> USE <1>4 DEF RemovalFails
    <2>1. writer[w].pc = "reclaim" /\ writer[w] \in WriterType
      BY <1>1
    <2>2. CASE /\ writer' = [writer EXCEPT ![w].warned = TRUE, ![w].left = staging]
               /\ UNCHANGED <<disk, stable, damaged, staging>>
      <3>1. writer[w].retain \in SUBSET Generations
        BY <2>1 DEF WriterType
      <3>2. writer' = [writer EXCEPT ![w].warned = TRUE, ![w].retain = writer[w].retain, ![w].left = staging]
        BY <1>1, <2>2 DEF WriterType
      <3> QED
        BY <1>1, <1>3, <2>1, <2>2, <3>1, <3>2, CleaningKeepsInv DEF Types
    <2>3. ASSUME NEW generation \in disk.generations \ writer[w].retain,
                 writer' = [writer EXCEPT ![w].warned = TRUE, ![w].retain = @ \cup {generation}],
                 UNCHANGED <<disk, stable, damaged, staging>>
          PROVE  StoreIInv'
      <3>1. /\ writer[w].retain \cup {generation} \in SUBSET Generations
            /\ writer[w].left \in SUBSET (Writers \cup {Litter})
        BY <1>1, <2>1 DEF WriterType, StoreType
      <3>2. writer' = [writer EXCEPT ![w].warned = TRUE, ![w].retain = writer[w].retain \cup {generation},
                                    ![w].left = writer[w].left]
        BY <1>1, <2>3 DEF WriterType
      <3> QED
        BY <1>1, <1>3, <2>1, <2>3, <3>1, <3>2, CleaningKeepsInv DEF Types
    <2>4. ASSUME NEW generation \in disk.generations \ writer[w].retain,
                 writer' = [writer EXCEPT ![w].warned = TRUE, ![w].left = {Litter}],
                 disk' = [disk EXCEPT !.generations = @ \ {generation}],
                 staging' = {Litter}, damaged' = damaged \ {generation},
                 \/ stable' = [stable EXCEPT !.generations = disk'.generations]
                 \/ UNCHANGED stable
          PROVE  StoreIInv'
      <3>1. writer[w].retain \in SUBSET Generations /\ {Litter} \in SUBSET (Writers \cup {Litter})
        BY <2>1 DEF WriterType
      <3>2. writer' = [writer EXCEPT ![w].warned = TRUE, ![w].retain = writer[w].retain, ![w].left = {Litter}]
        BY <1>1, <2>4 DEF WriterType
      <3>3. /\ disk' \in StoreType /\ disk'.repository = disk.repository /\ disk'.heads = disk.heads
            /\ disk'.generations = disk.generations \ {generation} /\ damaged' \subseteq disk'.generations
            /\ stable' \in StoreType /\ stable'.repository = stable.repository
            /\ stable'.heads = stable.heads
            /\ stable'.generations \in {stable.generations, disk'.generations}
        BY <1>1, <2>4, WithoutGeneration
      <3>4. /\ staging' \subseteq Writers \cup {Litter}
            /\ disk.generations \cap writer[w].retain \subseteq disk'.generations
        BY <2>4, <3>3
      <3>5. /\ writer' \in [Writers -> WriterType] /\ \A v \in Writers \ {w} : writer'[v] = writer[v]
            /\ writer'[w].pc = "reclaim" /\ writer[w].retain \subseteq writer'[w].retain
            /\ writer'[w].repository = writer[w].repository /\ writer'[w].fresh = writer[w].fresh
            /\ writer'[w].mode = writer[w].mode
        BY <1>3, <2>1, <3>1, <3>2
      <3> HIDE <1>4
      <3> QED
        BY <1>1, <2>1, <3>3, <3>4, <3>5, CleaningKeepsInv
    <2> QED
      BY <2>2, <2>3, <2>4
  <1> QED
    BY <1>2, <1>4 DEF CleanupFails

LEMMA ReturnKeepsInv ==
    ASSUME StoreIInv, NEW w \in Writers, Return(w) PROVE StoreIInv'
  <1>1. Leave(w) /\ UNCHANGED <<disk, stable, damaged, staging, identities, reader>>
        /\ acked' = writer[w].head
    BY DEF Return
  <1>2. acked' \in ValidHeads \cup {Missing}
    BY <1>1 DEF StoreIInv, Types, WriterType
  <1> QED
    BY <1>1, <1>2, LeavingKeepsInv

\* A recovery takes the name of the record: a strict writer that has created
\* one and not yet written it goes on with a file that has no name.
LEMMA CommitKeepsInv ==
    ASSUME StoreIInv, NEW w \in Writers, CommitRepository(w) PROVE StoreIInv'
  <1> USE DrawnFacts
  <1>1. /\ UNCHANGED <<stable, damaged, staging, reader, identities, acked>> /\ Types
        /\ writer \in [Writers -> WriterType] /\ writer[w].pc = "commit" /\ StoreTrue(disk, stable)
        /\ disk' = [disk EXCEPT !.repository = writer[w].repository]
        /\ writer' = [v \in Writers |->
                         IF v = w THEN [writer[v] EXCEPT !.pc = "syncCommit"]
                         ELSE IF writer[v].pc = "write" THEN [writer[v] EXCEPT !.pc = "writeUnlinked"]
                         ELSE writer[v]]
    BY DEF CommitRepository, Bystanders, StoreIInv, Types
  <1>2. /\ writer[w].fresh /\ writer[w].repository \in Identities /\ writer[w].pc \in Held
        /\ \A h \in Survivors(disk, stable) : h.repository # writer[w].repository
    BY <1>1 DEF WriterTrue, IdentityTrue, Held, BeforeCommit
  <1>3. {"syncCommit", "writeUnlinked"} \subseteq WriterPlaces
    BY DEF WriterPlaces, Held
  <1>4. /\ writer' \in [Writers -> WriterType]
        /\ \A v \in Writers : SameButPlace(writer[v], writer'[v])
        /\ writer'[w].pc = "syncCommit"
        /\ \A v \in Writers \ {w} :
              IF writer[v].pc = "write" THEN writer'[v].pc = "writeUnlinked" ELSE writer'[v] = writer[v]
    BY <1>1, <1>3 DEF WriterType, SameButPlace
  <1>5. /\ disk' \in StoreType /\ disk'.repository = writer[w].repository
        /\ disk'.heads = disk.heads /\ disk'.generations = disk.generations
    BY <1>1, <1>2 DEF StoreType
  <1>6. Survivors(disk', stable') = Survivors(disk, stable)
    BY <1>1, <1>5 DEF Survivors
  <1>7. StoreTrue(disk', stable')
    BY <1>1, <1>2, <1>5, <1>6 DEF StoreTrue
  <1>8. HeadsTrue(disk', stable', writer'[w])
    BY ZenonT(60), <1>1, <1>4, <1>5, <1>6 DEF WriterTrue, HeadsTrue, SameButPlace, BeforeHead, BeforeCommit, WithHead, AfterHead
  <1>9. GenerationsTrue(disk', stable', writer'[w])
    BY <1>1, <1>4, <1>5, <1>6 DEF WriterTrue, GenerationsTrue, SameButPlace, AfterHead
  <1>10. IdentityTrue(disk', stable', writer'[w])
    <2>1. /\ writer'[w].repository = writer[w].repository /\ writer'[w].fresh = TRUE
          /\ writer'[w].pc = "syncCommit"
      BY <1>2, <1>4 DEF SameButPlace, WriterType
    <2>2. ~Bound(writer'[w])
      BY <2>1 DEF Bound, AfterHead, Finishing
    <2>3. \A h \in Survivors(disk', stable') : h.repository # writer'[w].repository
      BY <1>2, <1>6, <2>1
    <2> QED
      BY <1>2, <2>1, <2>2, <2>3 DEF IdentityTrue, Held, BeforeCommit
  <1>11. ASSUME NEW v \in Writers \ {w} PROVE WriterTrue(disk', stable', writer'[v])
    <2>1. writer[v].pc \notin Held /\ ~writer[v].fresh
      BY <1>2, NotFresh DEF StoreIInv, Exclusion
    <2>2. /\ writer'[v] \in WriterType /\ writer'[v].pc \notin Held /\ ~writer'[v].fresh
          /\ writer'[v].pc # "write"
      BY <1>4, <2>1 DEF SameButPlace, Held
    <2>3. writer'[v].pc \in {"write", "writeUnlinked", "syncRepository"}
          \/ (writer'[v].pc = "lock" /\ writer'[v].mode = "Strict")
              => writer'[v].repository \in Identities
      BY <1>4 DEF WriterTrue, IdentityTrue, SameButPlace
    <2> QED
      BY <2>2, <2>3, Unlocked
  <1>12. Types'
    BY <1>1, <1>4, <1>5 DEF Types
  <1>13. Exclusion'
    BY <1>2, <1>4 DEF StoreIInv, Exclusion, Held
  <1>14. DrawnOnce'
    <2>1. Drawn(disk', stable', identities')
      BY <1>1, <1>5, <1>6 DEF Drawn
    <2>2. \A v \in Writers : writer'[v].pc # "write" /\ writer'[v].repository <= identities'
      BY <1>1, <1>4 DEF SameButPlace
    <2> QED
      BY <2>1, <2>2 DEF DrawnOnce
  <1>15. PrivateUntilPromoted'
    BY <1>1, <1>4 DEF StoreIInv, PrivateUntilPromoted
  <1>16. WriterTrue(disk', stable', writer'[w])
    BY <1>8, <1>9, <1>10 DEF WriterTrue
  <1> QED
    BY <1>7, <1>11, <1>12, <1>13, <1>14, <1>15, <1>16 DEF StoreIInv

-----------------------------------------------------------------------------
(* Readers and the environment.                                            *)

LEMMA ReaderStep ==
    ASSUME StoreIInv, reader' \in [Readers -> ReaderType],
           UNCHANGED <<disk, stable, damaged, staging, identities, writer, acked>>
    PROVE  StoreIInv'
  <1>1. Types' /\ StoreTrue(disk', stable') /\ Exclusion' /\ DrawnOnce' /\ PrivateUntilPromoted'
    BY DEF StoreIInv, Types, Exclusion, DrawnOnce, PrivateUntilPromoted
  <1> QED
    BY <1>1 DEF StoreIInv

LEMMA ReadKeepsInv ==
    ASSUME StoreIInv, NEW r \in Readers, Read(r) PROVE StoreIInv'
  <1>1. /\ disk \in StoreType /\ reader \in [Readers -> ReaderType]
        /\ disk.heads \in [Slots -> Heads]
    BY DEF StoreIInv, Types, StoreType
  <1>2. CASE ReadRepository(r)
    <2>1. disk.repository \in Identities
      BY <1>1, <1>2 DEF ReadRepository, StoreType
    <2>2. reader' \in [Readers -> ReaderType]
      BY ZenonT(60), <1>1, <1>2, <2>1 DEF ReadRepository, ReaderType
    <2> QED
      BY <1>2, <2>2, ReaderStep DEF ReadRepository, Bystanders
  <1>3. ASSUME NEW slot \in Slots, ReadHead(r, slot) PROVE StoreIInv'
    <2> DEFINE heads == [reader[r].heads EXCEPT ![slot] = disk.heads[slot]]
               place == CASE slot = 0 -> "head1"
                           [] slot = 1 /\ Conflicting(heads) -> "failed"
                           [] slot = 1 /\ ~Conflicting(heads) ->
                                IF \A s \in Slots : heads[s] = Missing THEN "unpublished"
                                ELSE "validate"
    <2>1. heads \in [Slots -> Heads]
      BY <1>1 DEF ReaderType
    <2>2. place \in {"head1", "failed", "unpublished", "validate"}
      BY DEF Slots
    <2>3. reader' = [reader EXCEPT ![r].heads = heads, ![r].pc = place]
      BY <1>3 DEF ReadHead
    <2> HIDE DEF heads, place
    <2>4. reader' \in [Readers -> ReaderType]
      BY ZenonT(60), <1>1, <2>1, <2>2, <2>3 DEF ReaderType
    <2> QED
      BY <1>3, <2>4, ReaderStep DEF ReadHead, Bystanders
  <1>4. CASE Validate(r)
    <2> DEFINE newest == NewestOf(reader[r].heads, ValidSlots(reader[r].heads) \ reader[r].tried)
    <2>1. reader[r].heads \in [Slots -> Heads]
      BY <1>1 DEF ReaderType
    <2>2. newest \in Slots \cup {NoSlot}
      BY <2>1, NewestSlot DEF ValidSlots
    <2>3. \/ reader' = [reader EXCEPT ![r].pc = "failed"]
          \/ newest # NoSlot /\ reader' = [reader EXCEPT ![r].pc = "answered",
                                                         ![r].answer = reader[r].heads[newest]]
          \/ newest # NoSlot /\ reader' = [reader EXCEPT ![r].tried = @ \cup {newest}]
      BY <1>4 DEF Validate
    <2> HIDE DEF newest
    <2>4. newest # NoSlot => reader[r].heads[newest] \in Heads
      BY <2>1, <2>2
    <2>5. reader' \in [Readers -> ReaderType]
      BY <1>1, <2>2, <2>3, <2>4 DEF ReaderType
    <2> QED
      BY <1>4, <2>5, ReaderStep DEF Validate, Bystanders
  <1>5. CASE Close(r)
    <2>1. reader' \in [Readers -> ReaderType]
      BY <1>1, <1>5, IdleTyped DEF Close
    <2> QED
      BY <1>5, <2>1, ReaderStep DEF Close, Bystanders
  <1> QED
    BY <1>2, <1>3, <1>4, <1>5 DEF Read

\* A store that nobody works on.
LEMMA RestingStore ==
    ASSUME Types', StoreTrue(disk', stable'), Drawn(disk', stable', identities'),
           writer' = [w \in Writers |-> IdleWriter]
    PROVE  StoreIInv'
  <1>1. \A w \in Writers : /\ writer'[w] = IdleWriter /\ writer'[w].pc = "idle"
                           /\ writer'[w].repository = Absent
    BY DEF IdleWriter
  <1>2. \A w \in Writers : WriterTrue(disk', stable', writer'[w])
    BY <1>1, IdleTrue
  <1>3. DrawnOnce'
    BY <1>1, PublicationAssumption DEF DrawnOnce, Types, Absent
  <1>4. Exclusion' /\ PrivateUntilPromoted'
    BY <1>1 DEF Exclusion, PrivateUntilPromoted, Held
  <1> QED
    BY <1>2, <1>3, <1>4 DEF StoreIInv

\* Whatever combination of old and new entries is left, each record in it was
\* on one of the two sides, and its generation on both.
LEMMA PowerLossKeepsInv ==
    ASSUME StoreIInv, PowerLoss PROVE StoreIInv'
  <1> USE DrawnFacts
  <1>1. PICK repository \in {disk.repository, stable.repository},
             populated \in {disk.populated, stable.populated},
             older \in SUBSET Slots,
             generations \in SUBSET (disk.generations \cup stable.generations) :
                /\ disk.generations \cap stable.generations \subseteq generations
                /\ disk' = [repository |-> repository, populated |-> populated,
                            heads |-> [s \in Slots |-> IF s \in older THEN stable.heads[s]
                                                       ELSE disk.heads[s]],
                            generations |-> generations]
    BY DEF PowerLoss
  <1>2. /\ stable' = disk' /\ damaged' \subseteq disk'.generations
        /\ writer' = [w \in Writers |-> IdleWriter] /\ reader' = [r \in Readers |-> IdleReader]
        /\ staging' \subseteq {Litter} /\ UNCHANGED <<identities, acked>>
    BY DEF PowerLoss
  <1>3. /\ disk'.repository = repository /\ disk'.generations = generations
        /\ \A s \in Slots : disk'.heads[s] \in {disk.heads[s], stable.heads[s]}
        /\ disk' \in StoreType
    BY <1>1 DEF StoreType
  <1>4. Survivors(disk', stable') \subseteq Survivors(disk, stable)
    BY <1>2, <1>3 DEF Survivors, Slots
  <1>5. StoreTrue(disk', stable')
    <2>1. \A h \in Survivors(disk', stable') : h.generation \in disk'.generations \cap stable'.generations
      BY <1>1, <1>2, <1>3, <1>4 DEF StoreIInv, StoreTrue
    <2>2. \A g, h \in Survivors(disk', stable') : g.sequence = h.sequence => g = h
      BY <1>4 DEF StoreIInv, StoreTrue
    <2> QED
      BY <1>2, <2>1, <2>2 DEF StoreTrue
  <1>6. Drawn(disk', stable', identities')
    BY <1>2, <1>3, <1>4 DEF Drawn
  <1>7. Types'
    BY <1>2, <1>3, IdleTyped DEF StoreIInv, Types
  <1> QED
    BY <1>2, <1>5, <1>6, <1>7, RestingStore

\* A media fault only takes: a record, a database, or the identity on both
\* sides at once.
LEMMA FaultKeepsInv ==
    ASSUME StoreIInv, Fault PROVE StoreIInv'
  <1> USE DrawnFacts
  <1>1. /\ UNCHANGED <<staging, identities, writer, reader, acked>> /\ Types
        /\ writer \in [Writers -> WriterType] /\ StoreTrue(disk, stable)
    BY DEF Fault, StoreIInv, Types
  <1>2. ASSUME disk' \in StoreType, stable' \in StoreType, damaged' \subseteq disk'.generations,
               StoreTrue(disk', stable'), Drawn(disk', stable', identities'),
               \A v \in Writers : WriterTrue(disk', stable', writer[v])
        PROVE  StoreIInv'
    <2>1. Types'
      BY <1>1, <1>2 DEF Types
    <2>2. Exclusion' /\ PrivateUntilPromoted' /\ DrawnOnce'
      BY <1>1, <1>2 DEF StoreIInv, Exclusion, PrivateUntilPromoted, DrawnOnce
    <2> QED
      BY <1>1, <1>2, <2>1, <2>2 DEF StoreIInv
  <1>3. ASSUME NEW s \in Slots, disk' = [disk EXCEPT !.heads[s] = Invalid],
               stable' = [stable EXCEPT !.heads[s] = Invalid], UNCHANGED damaged
        PROVE  StoreIInv'
    <2>1. /\ disk' \in StoreType /\ disk'.repository = disk.repository
          /\ disk'.generations = disk.generations /\ disk'.heads = [disk.heads EXCEPT ![s] = Invalid]
          /\ stable' \in StoreType /\ stable'.repository = stable.repository
          /\ stable'.generations = stable.generations
          /\ stable'.heads = [stable.heads EXCEPT ![s] = Invalid]
      BY <1>3, HeadKinds DEF StoreType
    <2>2. Survivors(disk', stable') \subseteq Survivors(disk, stable)
      BY <2>1, HeadKinds DEF Survivors, StoreType, Slots
    <2>3. StoreTrue(disk', stable') /\ Drawn(disk', stable', identities')
      BY <1>1, <2>1, <2>2 DEF StoreTrue, Drawn
    <2>4. damaged' \subseteq disk'.generations
      BY <1>1, <1>3, <2>1 DEF Types
    <2>5. ASSUME NEW v \in Writers PROVE WriterTrue(disk', stable', writer[v])
      <3>1. HeadsTrue(disk', stable', writer[v])
        BY <2>1, <2>2 DEF WriterTrue, HeadsTrue
      <3>2. GenerationsTrue(disk', stable', writer[v])
        BY <2>1, <2>2 DEF WriterTrue, GenerationsTrue
      <3>3. IdentityTrue(disk', stable', writer[v])
        BY <2>1, <2>2 DEF WriterTrue, IdentityTrue
      <3> QED
        BY <3>1, <3>2, <3>3 DEF WriterTrue
    <2> QED
      BY <1>2, <2>1, <2>3, <2>4, <2>5
  <1>4. ASSUME NEW generation \in disk.generations, damaged' = damaged \cup {generation},
               UNCHANGED <<disk, stable>>
        PROVE  StoreIInv'
    <2>1. damaged' \subseteq disk'.generations
      BY <1>1, <1>4 DEF Types
    <2>2. Drawn(disk', stable', identities')
      BY <1>1, <1>4 DEF Drawn
    <2> QED
      BY <1>1, <1>2, <1>4, <2>1, <2>2
  <1>5. ASSUME NEW left \in {Absent, Unreadable}, disk.repository \notin {Absent, Unreadable},
               disk' = [disk EXCEPT !.repository = left],
               stable' = [stable EXCEPT !.repository = left], UNCHANGED damaged
        PROVE  StoreIInv'
    <2>1. /\ disk' \in StoreType /\ disk'.repository = left
          /\ disk'.generations = disk.generations /\ disk'.heads = disk.heads
          /\ stable' \in StoreType /\ stable'.repository = left
          /\ stable'.generations = stable.generations /\ stable'.heads = stable.heads
      BY <1>5 DEF StoreType
    <2>2. Survivors(disk', stable') = Survivors(disk, stable)
      BY <2>1 DEF Survivors
    <2>3. StoreTrue(disk', stable')
      BY <1>1, <2>1, <2>2 DEF StoreTrue
    <2>4. left <= identities
      BY <1>5 DEF Absent, Unreadable
    <2>5. Drawn(disk', stable', identities')
      BY <1>1, <2>1, <2>2, <2>4 DEF Drawn
    <2>6. damaged' \subseteq disk'.generations
      BY <1>1, <1>5, <2>1 DEF Types
    <2>7. \A h \in Survivors(disk, stable) : h.repository # left
      BY <1>5, HeadKinds, PublicationAssumption DEF Identities, Absent, Unreadable
    <2>8. ASSUME NEW v \in Writers PROVE WriterTrue(disk', stable', writer[v])
      <3>1. HeadsTrue(disk', stable', writer[v])
        BY <2>1, <2>2 DEF WriterTrue, HeadsTrue
      <3>2. GenerationsTrue(disk', stable', writer[v])
        BY <2>1, <2>2 DEF WriterTrue, GenerationsTrue
      <3>3. IdentityTrue(disk', stable', writer[v])
        BY <1>5, <2>1, <2>2, <2>7 DEF WriterTrue, IdentityTrue
      <3> QED
        BY <3>1, <3>2, <3>3 DEF WriterTrue
    <2> QED
      BY <1>2, <2>1, <2>3, <2>5, <2>6, <2>8
  <1> QED
    BY <1>3, <1>4, <1>5 DEF Fault, ValidSlots

-----------------------------------------------------------------------------
(* The theorems for all constants.                                         *)

LEMMA InitEstablishesInv ==
    ASSUME Init PROVE StoreIInv
  <1>1. /\ disk \in StoreType /\ stable = disk /\ disk.repository = Absent
        /\ disk.heads = [s \in Slots |-> Missing] /\ identities = 0
    BY HeadKinds DEF Init, StoreType
  <1>2. Types
    BY <1>1, IdleTyped, PublicationAssumption DEF Init, Types
  <1>3. Survivors(disk, stable) = {}
    BY <1>1, HeadKinds DEF Survivors, Slots
  <1>4. StoreTrue(disk, stable) /\ Drawn(disk, stable, identities)
    <2>1. StoreTrue(disk, stable)
      BY <1>1, <1>3 DEF StoreTrue
    <2>2. \A h \in Survivors(disk, stable) : h.repository <= identities
      BY <1>3
    <2>3. disk.repository <= identities /\ stable.repository <= identities
      BY <1>1 DEF Absent
    <2> QED
      BY <2>1, <2>2, <2>3 DEF Drawn
  <1>5. \A w \in Writers : writer[w] = IdleWriter /\ writer[w].pc = "idle" /\ writer[w].repository = Absent
    BY DEF Init, IdleWriter
  <1>6. \A w \in Writers : WriterTrue(disk, stable, writer[w])
    BY <1>5, IdleTrue
  <1>7. DrawnOnce
    BY <1>4, <1>5 DEF DrawnOnce, Init, Absent
  <1>8. Exclusion /\ PrivateUntilPromoted
    BY <1>5 DEF Exclusion, PrivateUntilPromoted, Held
  <1> QED
    BY <1>2, <1>4, <1>6, <1>7, <1>8 DEF StoreIInv

LEMMA StepKeepsInv ==
    ASSUME StoreIInv, [Next]_vars PROVE StoreIInv'
  <1>1. CASE UNCHANGED vars
    BY <1>1 DEF vars, StoreIInv, Types, Exclusion, DrawnOnce, PrivateUntilPromoted
  <1>2. ASSUME NEW w \in Writers, Write(w) PROVE StoreIInv'
    BY <1>2, EnterKeepsInv, ListKeepsInv, CreateKeepsInv, WriteKeepsInv, SyncRepositoryKeepsInv,
       TryLockKeepsInv, BeginKeepsInv, DiscardKeepsInv, SealKeepsInv, PromoteKeepsInv,
       SyncGenerationsKeepsInv, CommitKeepsInv, ReplaceKeepsInv, SyncControlsKeepsInv,
       ScanKeepsInv, ReclaimKeepsInv, ReturnKeepsInv DEF Write
  <1>3. ASSUME NEW w \in Writers, Stop(w) PROVE StoreIInv'
    BY <1>3, AbandonKeepsInv DEF Stop
  <1> QED
    BY <1>1, <1>2, <1>3, CleanupFailsKeepsInv, ReadKeepsInv, PowerLossKeepsInv, FaultKeepsInv DEF Next

\* The invariant of the store, whatever is lost, damaged or cut short: a
\* record that a power loss can leave names a generation it cannot take, no
\* sequence stands for two records, identities are bound one by one.
THEOREM StoreInductive == Spec => []StoreIInv
  <1>1. Init => StoreIInv
    BY InitEstablishesInv
  <1>2. StoreIInv /\ [Next]_vars => StoreIInv'
    BY StepKeepsInv
  <1> QED
    BY <1>1, <1>2, PTL DEF Spec

\* What holds of the directory at every instant, also of one whose medium
\* fails and whose fsync of a file says nothing of its directory entry: its
\* types, heads never outlive their generations, two records of one sequence
\* never meet in the slots, and a private generation is not reclaimed.
THEOREM StoreIsSafe ==
    Spec => [](TypeOK /\ HeadsOutliveNothing /\ NoConflict /\ PrivateUntilPromoted)
  <1>1. ASSUME StoreIInv PROVE TypeOK /\ HeadsOutliveNothing /\ NoConflict /\ PrivateUntilPromoted
    <2>1. TypeOK
      <3>1. \A d \in {disk, stable} : d \in StoreType
        BY <1>1 DEF StoreIInv, Types
      <3>2. \A d \in StoreType : /\ DOMAIN d = {"repository", "populated", "heads", "generations"}
                                 /\ d.repository \in {Absent, Unreadable} \cup 1..MaxIdentities
                                 /\ d.populated \in BOOLEAN
                                 /\ \A s \in Slots : d.heads[s] \in Heads
                                 /\ \A g \in d.generations : g \in Generations
        BY DEF StoreType, Identities
      <3>3. /\ damaged \subseteq disk.generations /\ staging \subseteq Writers \cup {Litter}
            /\ identities \in 0..MaxIdentities /\ acked \in Heads
            /\ writer \in [Writers -> WriterType] /\ reader \in [Readers -> ReaderType]
        BY <1>1 DEF StoreIInv, Types, Heads
      <3>4. \A x \in WriterType : x.head \in Heads /\ x.slot \in Slots \cup {NoSlot}
        BY DEF WriterType, Heads
      <3>5. \A x \in ReaderType : x.answer \in Heads
        BY DEF ReaderType
      <3> QED
        BY <3>1, <3>2, <3>3, <3>4, <3>5 DEF TypeOK
    <2>2. HeadsOutliveNothing
      <3>1. ASSUME NEW s \in Slots, NEW head \in {disk.heads[s], stable.heads[s]}, IsValid(head)
            PROVE  head \in Survivors(disk, stable)
        BY <3>1 DEF Survivors, Slots
      <3> QED
        BY <1>1, <3>1 DEF HeadsOutliveNothing, StoreIInv, StoreTrue
    <2>3. NoConflict
      <3>1. ASSUME NEW d \in {disk, stable}, ValidSlots(d.heads) = Slots,
                   d.heads[0].sequence = d.heads[1].sequence
            PROVE  d.heads[0] = d.heads[1]
        <4>1. IsValid(d.heads[0]) /\ IsValid(d.heads[1])
          BY <3>1 DEF ValidSlots, Slots
        <4>2. d.heads[0] \in Survivors(disk, stable) /\ d.heads[1] \in Survivors(disk, stable)
          BY <4>1 DEF Survivors
        <4> QED
          BY <1>1, <3>1, <4>2 DEF StoreIInv, StoreTrue
      <3> QED
        BY <3>1 DEF NoConflict, Conflicting
    <2>4. PrivateUntilPromoted
      BY <1>1 DEF StoreIInv
    <2> QED
      BY <2>1, <2>2, <2>3, <2>4
  <1>2. StoreIInv => TypeOK /\ HeadsOutliveNothing /\ NoConflict /\ PrivateUntilPromoted
    BY <1>1
  <1> QED
    BY <1>2, StoreInductive, PTL

\* A store whose identity no record bears serves nothing.
LEMMA NothingServed ==
    ASSUME disk \in StoreType, \A h \in Survivors(disk, stable) : h.repository # disk.repository
    PROVE  Current = Missing
  <1>1. Resolve(disk.repository) = NoSlot
    <2>1. SUFFICES ASSUME Resolve(disk.repository) # NoSlot PROVE FALSE
      OBVIOUS
    <2> DEFINE slot == Resolve(disk.repository)
    <2>2. /\ slot \in Slots /\ IsValid(disk.heads[slot])
          /\ Validates(disk.heads[slot], disk.repository)
      BY <2>1, ResolvedSlot
    <2>3. disk.heads[slot] \in Survivors(disk, stable)
      BY <2>2 DEF Survivors, Slots
    <2> QED
      BY <2>2, <2>3 DEF Validates
  <1> QED
    BY <1>1 DEF Current

LEMMA StepRebindsNothing ==
    ASSUME StoreIInv, Next, disk'.repository # disk.repository, faults \in Nat, faults' = faults
    PROVE  \A h \in Survivors(disk, stable) : h.repository # disk.repository
  <1> USE DrawnFacts
  <1>1. \A h \in Survivors(disk, stable) : h.repository # Absent /\ h.repository # Unreadable
    BY HeadKinds, PublicationAssumption DEF Identities, Absent, Unreadable
  <1>2. CASE disk.repository \in {Absent, Unreadable}
    BY <1>1, <1>2
  <1>3. CASE disk.repository \notin {Absent, Unreadable}
    <2>1. ASSUME NEW w \in Writers, Write(w)
          PROVE  CommitRepository(w)
      <3>1. CASE CreateRepository(w)
        BY <1>3, <3>1 DEF CreateRepository
      <3>2. CASE WriteRepository(w)
        BY <1>3, <3>2 DEF WriteRepository, WriterTrue, IdentityTrue
      <3>3. CASE TryLock(w)
        BY <3>3 DEF TryLock, StoreType
      <3>4. CASE Promote(w)
        BY <3>4 DEF Promote, StoreType
      <3>5. CASE ReplaceHead(w)
        BY <3>5 DEF ReplaceHead, StoreType
      <3>6. CASE Reclaim(w)
        BY <3>6 DEF Reclaim, StoreType
      <3>7. CASE (\E mode \in Modes : Enter(w, mode)) \/ ListEntries(w) \/ SyncRepository(w)
                 \/ BeginGeneration(w) \/ Discard(w) \/ Seal(w) \/ SyncGenerations(w)
                 \/ SyncControls(w) \/ ScanForCleanup(w) \/ Return(w)
        BY <3>7 DEF Enter, ListEntries, SyncRepository, BeginGeneration, Discard, Seal,
                    SyncGenerations, SyncControls, ScanForCleanup, Return
      <3> QED
        BY <2>1, <3>1, <3>2, <3>3, <3>4, <3>5, <3>6, <3>7 DEF Write
    <2>2. CASE \E w \in Writers : CommitRepository(w)
      BY <2>2 DEF CommitRepository, WriterTrue, IdentityTrue, BeforeCommit
    <2>3. CASE PowerLoss
      <3>1. disk'.repository \in {disk.repository, stable.repository}
        BY <2>3 DEF PowerLoss
      <3> QED
        BY <3>1 DEF StoreIInv, StoreTrue
    <2>4. ASSUME NEW w \in Writers, Stop(w) \/ CleanupFails(w) PROVE FALSE
      BY <2>4 DEF Stop, CleanupFails, ScanFails, RemovalFails, StoreType
    <2>5. ASSUME NEW r \in Readers, Read(r) PROVE FALSE
      BY <2>5 DEF Read, ReadRepository, ReadHead, Validate, Close
    <2>6. CASE Fault
      <3>1. faults' = faults + 1
        BY <2>6 DEF Fault
      <3>2. disk'.repository = disk.repository \/ disk'.repository \in {Absent, Unreadable}
        BY <2>6 DEF Fault, StoreType
      <3> QED
        BY <3>1, <3>2
    <2> QED
      BY <2>1, <2>2, <2>3, <2>4, <2>5, <2>6 DEF Next
  <1> QED
    BY <1>2, <1>3

\* Only the medium counts its faults.
LEMMA FaultsStay ==
    ASSUME [Next]_vars, ~Fault PROVE faults' = faults
  <1>1. CASE UNCHANGED vars
    BY <1>1 DEF vars
  <1>2. ASSUME NEW w \in Writers, Write(w) PROVE faults' = faults
    BY <1>2 DEF Write, Enter, ListEntries, CreateRepository, WriteRepository, SyncRepository, TryLock,
                BeginGeneration, Discard, Seal, Promote, SyncGenerations, CommitRepository,
                ReplaceHead, SyncControls, ScanForCleanup, Reclaim, Return, Bystanders
  <1>3. ASSUME NEW w \in Writers, Stop(w) \/ CleanupFails(w) PROVE faults' = faults
    BY <1>3 DEF Stop, CleanupFails
  <1>4. ASSUME NEW r \in Readers, Read(r) PROVE faults' = faults
    BY <1>4 DEF Read, ReadRepository, ReadHead, Validate, Close, Bystanders
  <1>5. CASE PowerLoss
    BY <1>5 DEF PowerLoss
  <1> QED
    BY <1>1, <1>2, <1>3, <1>4, <1>5 DEF Next

Counted == faults \in Nat

LEMMA FaultsCounted == Spec => []Counted
  <1>1. Init => Counted
    BY DEF Init, Counted
  <1>2. Counted /\ [Next]_vars => Counted'
    <2> SUFFICES ASSUME faults \in Nat, [Next]_vars PROVE faults' \in Nat
      BY DEF Counted
    <2>1. CASE Fault
      BY <2>1 DEF Fault
    <2> QED
      BY <2>1, FaultsStay
  <1> QED
    BY <1>1, <1>2, PTL DEF Spec

\* The identity of a store that serves a generation is replaced, lost or
\* created a second time by nobody but a media fault, and a recovery commits
\* its own identity only over a generation that a power loss cannot take.
THEOREM IdentityIsKept == Spec => RebindsOnlyToWholeGeneration
  <1> DEFINE Rebinds ==
        disk'.repository # disk.repository /\ faults' = faults
           => /\ Current = Missing
              /\ \A w \in Writers :
                    writer[w].pc = "commit" /\ writer'[w].pc = "syncCommit"
                    => writer[w].head.generation \in disk.generations \cap stable.generations
  <1>1. StoreIInv /\ Counted /\ [Next]_vars => [Rebinds]_vars
    <2> SUFFICES ASSUME StoreIInv, faults \in Nat, Next, disk'.repository # disk.repository,
                        faults' = faults
                 PROVE  /\ Current = Missing
                        /\ \A w \in Writers :
                              writer[w].pc = "commit" =>
                              writer[w].head.generation \in disk.generations \cap stable.generations
      BY DEF vars, Counted
    <2>1. Current = Missing
      BY StepRebindsNothing, NothingServed, DrawnFacts
    <2>2. \A w \in Writers : writer[w].pc = "commit" =>
              writer[w].head.generation \in disk.generations \cap stable.generations
      BY DEF StoreIInv, WriterTrue, GenerationsTrue
    <2> QED
      BY <2>1, <2>2
  <1>2. Spec => [][Rebinds]_vars
    BY <1>1, StoreInductive, FaultsCounted, PTL DEF Spec
  <1> QED
    BY <1>2 DEF RebindsOnlyToWholeGeneration

-----------------------------------------------------------------------------
(* What holds besides as long as the medium has no fault.                  *)

NoFaults == Faults = {} /\ FsyncCoversEntry

\* A head whose generation was built on that of another.
Child(new, old) ==
    /\ new.sequence = old.sequence + 1
    /\ \E content \in Contents :
          new.generation.contents = Append(old.generation.contents, content)

\* A synchronised slot that outlives every power loss: it is the newest of the
\* synchronised ones, nothing newer was acknowledged, and what is pending in
\* the other slot is the same record or one built on it.
Anchor(d, t, a, s) ==
    /\ d.heads[s] = t.heads[s] /\ a.sequence <= d.heads[s].sequence
    /\ \A u \in Slots :
          /\ t.heads[u].sequence <= d.heads[s].sequence
          /\ d.heads[u] = t.heads[u] \/ d.heads[u] = d.heads[s] \/ Child(d.heads[u], d.heads[s])

SoundTrue(d, t, a) ==
    /\ \A s \in Slots : d.heads[s] # Invalid /\ t.heads[s] # Invalid
    /\ \A h \in Survivors(d, t) :
          h.repository = d.repository /\ h.sequence = Len(h.generation.contents)
    /\ \E s \in Slots : Anchor(d, t, a, s)

SoundWriter(d, t, x) ==
    /\ Bound(x) \/ x.pc = "syncCommit" => d.repository = x.repository
    /\ x.fresh /\ x.pc \in BeforeCommit \cup {"syncCommit"} => Survivors(d, t) = {}
    /\ x.pc \in WithHead \cup Finishing =>
          x.head \in ValidHeads /\ x.slot \in Slots /\ x.head.sequence = Len(x.head.generation.contents)
    /\ x.pc \in BeforeHead \cap WithHead =>
          /\ Child(x.head, d.heads[1 - x.slot])
          /\ \A s \in Slots : d.heads[s].sequence <= d.heads[1 - x.slot].sequence
    /\ x.pc \in AfterHead \cup Finishing =>
          /\ d.heads[x.slot] = x.head
          /\ \A h \in Survivors(d, t) : h.sequence <= x.head.sequence
    /\ x.pc \in {"secondHead", "syncSecond"} \cup Finishing => t.heads[x.slot] = x.head
    /\ x.pc = "reclaim" /\ ~x.warned =>
          x.retain = {d.heads[s].generation : s \in ValidSlots(d.heads)} /\ x.left = {}

SoundIInv ==
    /\ damaged = {}
    /\ SoundTrue(disk, stable, acked)
    /\ \A w \in Writers : SoundWriter(disk, stable, writer[w])

-----------------------------------------------------------------------------
(* The heads, and steps that leave them as they are.                       *)

\* What the records of the heads are.
LEMMA SoundFacts ==
    ASSUME StoreIInv, SoundIInv
    PROVE  /\ damaged = {} /\ \A s \in Slots : disk.heads[s] \in ValidHeads \cup {Missing}
           /\ \A s \in Slots : stable.heads[s] \in ValidHeads \cup {Missing}
           /\ \A s \in Slots : /\ disk.heads[s].sequence \in Nat /\ stable.heads[s].sequence \in Nat
                               /\ IsValid(disk.heads[s]) => disk.heads[s] \in Survivors(disk, stable)
                               /\ ~IsValid(disk.heads[s]) => disk.heads[s] = Missing
           /\ \A s \in Slots : disk.heads[s].sequence = Len(disk.heads[s].generation.contents)
           /\ disk.repository \in {Absent, Unreadable} => Survivors(disk, stable) = {}
  <1>1. /\ \A s \in Slots : disk.heads[s] \in ValidHeads \cup {Missing}
        /\ \A s \in Slots : stable.heads[s] \in ValidHeads \cup {Missing}
    BY DEF StoreIInv, Types, StoreType, SoundIInv, SoundTrue, Heads
  <1>2. \A h \in ValidHeads \cup {Missing} : /\ h.sequence \in Nat /\ (~IsValid(h) => h = Missing)
    BY HeadKinds, PublicationAssumption DEF Heads, Missing, HeadRecord
  <1>3. \A s \in Slots : IsValid(disk.heads[s]) => disk.heads[s] \in Survivors(disk, stable)
    BY DEF Survivors, Slots
  <1>4. ASSUME NEW s \in Slots PROVE disk.heads[s].sequence = Len(disk.heads[s].generation.contents)
    <2>1. CASE IsValid(disk.heads[s])
      BY <1>3, <2>1 DEF SoundIInv, SoundTrue
    <2>2. CASE disk.heads[s] = Missing
      BY <2>2, EmptySeq DEF Missing, HeadRecord, NoGeneration
    <2> QED
      BY <1>1, <1>2, <2>1, <2>2
  <1>5. ASSUME disk.repository \in {Absent, Unreadable} PROVE Survivors(disk, stable) = {}
    <2>1. \A h \in Survivors(disk, stable) : h.repository \in Identities /\ h.repository = disk.repository
      BY DrawnFacts, HeadKinds DEF SoundIInv, SoundTrue
    <2> QED
      BY <1>5, <2>1, PublicationAssumption DEF Identities, Absent, Unreadable
  <1> QED
    BY <1>1, <1>2, <1>3, <1>4, <1>5 DEF SoundIInv

\* A writer that does not hold the lock relies on nothing.
LEMMA UnlockedSound ==
    ASSUME NEW d, NEW t, NEW x, x.pc \notin Held, ~x.fresh PROVE SoundWriter(d, t, x)
  BY DEF SoundWriter, Bound, Held, BeforeCommit, BeforeHead, WithHead, AfterHead, Finishing

\* The records and the identity stay, the population may change.
LEMMA SameSound ==
    ASSUME NEW d, NEW t, NEW e, NEW u,
           e.repository = d.repository, e.heads = d.heads, u.heads = t.heads
    PROVE  /\ Survivors(e, u) = Survivors(d, t)
           /\ \A a : SoundTrue(d, t, a) => SoundTrue(e, u, a)
           /\ \A x : SoundWriter(d, t, x) => SoundWriter(e, u, x)
  <1>1. Survivors(e, u) = Survivors(d, t)
    BY DEF Survivors
  <1>2. \A a, s : Anchor(d, t, a, s) => Anchor(e, u, a, s)
    BY DEF Anchor
  <1>3. \A a : SoundTrue(d, t, a) => SoundTrue(e, u, a)
    BY <1>1, <1>2 DEF SoundTrue
  <1>4. \A x : SoundWriter(d, t, x) => SoundWriter(e, u, x)
    BY <1>1 DEF SoundWriter
  <1> QED
    BY <1>1, <1>3, <1>4

\* With nothing pending the newest record is the anchor.
LEMMA NewestIsAnchor ==
    ASSUME NEW d, NEW t, NEW a, t.heads = d.heads,
           \A s \in Slots : d.heads[s].sequence \in Int, a.sequence \in Int,
           \E s \in Slots : a.sequence <= d.heads[s].sequence
    PROVE  \E s \in Slots : Anchor(d, t, a, s)
  <1>1. d.heads[0].sequence \in Int /\ d.heads[1].sequence \in Int
    BY DEF Slots
  <1>2. CASE d.heads[0].sequence <= d.heads[1].sequence
    BY <1>1, <1>2 DEF Anchor, Slots
  <1>3. CASE d.heads[1].sequence <= d.heads[0].sequence
    BY <1>1, <1>3 DEF Anchor, Slots
  <1> QED
    BY <1>1, <1>2, <1>3

\* sync_cap_directory on the publication directory.
LEMMA SyncedSound ==
    ASSUME StoreIInv, SoundIInv, NEW e, NEW u,
           e.repository = disk.repository, e.heads = disk.heads, u.heads = disk.heads
    PROVE  /\ Survivors(e, u) \subseteq Survivors(disk, stable)
           /\ SoundTrue(e, u, acked)
           /\ \A x : SoundWriter(disk, stable, x) => SoundWriter(e, u, x)
  <1>1. Survivors(e, u) \subseteq Survivors(disk, stable)
    BY DEF Survivors
  <1>2. acked.sequence \in Int
    BY HeadKinds DEF StoreIInv, Types, Heads
  <1>3. \E s \in Slots : Anchor(e, u, acked, s)
    <2>1. \E s \in Slots : acked.sequence <= e.heads[s].sequence
      BY DEF SoundIInv, SoundTrue, Anchor
    <2>2. \A s \in Slots : e.heads[s].sequence \in Int
      BY SoundFacts
    <2> QED
      BY <1>2, <2>1, <2>2, NewestIsAnchor
  <1>4. SoundTrue(e, u, acked)
    BY <1>1, <1>3 DEF SoundTrue, SoundIInv
  <1>5. ASSUME NEW x, SoundWriter(disk, stable, x) PROVE SoundWriter(e, u, x)
    BY <1>1, <1>5 DEF SoundWriter, AfterHead
  <1> QED
    BY <1>1, <1>4, <1>5

\* A step of the writer w.
LEMMA SoundStep ==
    ASSUME NEW w \in Writers, damaged' = {}, SoundTrue(disk', stable', acked'),
           SoundWriter(disk', stable', writer'[w]),
           \A v \in Writers \ {w} : SoundWriter(disk', stable', writer'[v])
    PROVE  SoundIInv'
  BY DEF SoundIInv

\* ... that leaves the records where they are.
LEMMA QuietSound ==
    ASSUME SoundIInv, NEW w \in Writers, damaged' = {}, UNCHANGED acked,
           disk'.repository = disk.repository, disk'.heads = disk.heads,
           stable'.heads = stable.heads,
           \A v \in Writers \ {w} : writer'[v] = writer[v],
           SoundWriter(disk, stable, writer'[w])
    PROVE  SoundIInv'
  <1>1. \A x : SoundWriter(disk, stable, x) => SoundWriter(disk', stable', x)
    BY SameSound
  <1>2. SoundTrue(disk', stable', acked')
    BY SameSound DEF SoundIInv
  <1> QED
    BY <1>1, <1>2 DEF SoundIInv

\* A writer that leaves, adopts an identity or otherwise goes on without the lock.
LEMMA UnlockedKeepsSound ==
    ASSUME SoundIInv, NEW w \in Writers, damaged' = {}, UNCHANGED <<acked>>,
           disk'.repository = disk.repository, disk'.heads = disk.heads,
           stable'.heads = stable.heads,
           \A v \in Writers \ {w} : writer'[v] = writer[v],
           writer'[w].pc \notin Held, ~writer'[w].fresh
    PROVE  SoundIInv'
  BY UnlockedSound, QuietSound

LEMMA LeavingKeepsSound ==
    ASSUME StoreIInv, SoundIInv, NEW w \in Writers, Leave(w),
           UNCHANGED <<damaged, acked>>,
           disk'.repository = disk.repository, disk'.heads = disk.heads,
           stable'.heads = stable.heads
    PROVE  SoundIInv'
  <1>1. writer'[w] = IdleWriter /\ \A v \in Writers \ {w} : writer'[v] = writer[v]
    BY Leaving DEF StoreIInv, Types
  <1>2. writer'[w].pc = "idle" /\ ~writer'[w].fresh
    BY <1>1 DEF IdleWriter
  <1>3. damaged' = {}
    BY DEF SoundIInv
  <1> QED
    BY <1>1, <1>2, <1>3, UnlockedKeepsSound DEF Held

LEMMA AdoptingKeepsSound ==
    ASSUME StoreIInv, SoundIInv, NEW w \in Writers, AdoptRepository(w), writer[w].pc \notin Held,
           UNCHANGED <<disk, stable, damaged, acked>>
    PROVE  SoundIInv'
  <1>1. /\ \A v \in Writers \ {w} : writer'[v] = writer[v]
        /\ \/ writer'[w] = IdleWriter
           \/ writer'[w].pc = "lock" /\ ~writer'[w].fresh
    BY Adopting, NotFresh DEF StoreIInv
  <1>2. writer'[w].pc \notin Held /\ ~writer'[w].fresh
    BY <1>1 DEF IdleWriter, Held
  <1>3. damaged' = {}
    BY DEF SoundIInv
  <1> QED
    BY <1>1, <1>2, <1>3, UnlockedKeepsSound

LEMMA EnterKeepsSound ==
    ASSUME StoreIInv, SoundIInv, NEW w \in Writers, NEW mode \in Modes, Enter(w, mode) PROVE SoundIInv'
  <1>1. /\ writer[w].pc = "idle" /\ writer[w].pc \notin Held
        /\ UNCHANGED <<disk, stable, damaged, acked>> /\ damaged' = {}
        /\ writer \in [Writers -> WriterType]
    BY DEF Enter, Bystanders, StoreIInv, SoundIInv, Types, Held
  <1>2. ~writer[w].fresh
    BY <1>1, NotFresh
  <1>3. CASE AdoptRepository(w)
    BY <1>1, <1>3, AdoptingKeepsSound
  <1>4. CASE \/ writer' = [writer EXCEPT ![w].pc = "lock", ![w].mode = mode]
             \/ writer' = [writer EXCEPT ![w].pc = "list"]
    <2>1. /\ \A v \in Writers \ {w} : writer'[v] = writer[v]
          /\ writer'[w].pc \in {"lock", "list"} /\ writer'[w].fresh = writer[w].fresh
      BY <1>1, <1>4 DEF WriterType
    <2> QED
      BY <1>1, <1>2, <2>1, UnlockedKeepsSound DEF Held
  <1> QED
    BY <1>3, <1>4 DEF Enter, Goto

LEMMA ListKeepsSound ==
    ASSUME StoreIInv, SoundIInv, NEW w \in Writers, ListEntries(w) PROVE SoundIInv'
  <1>1. /\ writer[w].pc = "list" /\ writer[w].pc \notin Held
        /\ UNCHANGED <<disk, stable, damaged, acked>> /\ damaged' = {}
        /\ writer \in [Writers -> WriterType]
    BY DEF ListEntries, Bystanders, StoreIInv, SoundIInv, Types, Held
  <1>2. ~writer[w].fresh
    BY <1>1, NotFresh
  <1>3. CASE AdoptRepository(w)
    BY <1>1, <1>3, AdoptingKeepsSound
  <1>4. CASE Leave(w)
    BY <1>1, <1>4, LeavingKeepsSound
  <1>5. CASE Goto(w, "create")
    <2>1. /\ writer'[w].pc = "create" /\ SameButPlace(writer[w], writer'[w])
          /\ \A v \in Writers \ {w} : writer'[v] = writer[v]
      BY <1>1, <1>5, Going DEF WriterPlaces
    <2> QED
      BY <1>1, <1>2, <2>1, UnlockedKeepsSound DEF Held, SameButPlace
  <1> QED
    BY <1>3, <1>4, <1>5 DEF ListEntries

\* The identity changes only in a store that has no valid record, and under
\* nobody who has bound himself to it.
LEMMA IdentitySound ==
    ASSUME StoreIInv, SoundIInv, Survivors(disk, stable) = {},
           disk'.heads = disk.heads, stable'.heads = stable.heads
    PROVE  /\ Survivors(disk', stable') = {} /\ SoundTrue(disk', stable', acked)
           /\ \A x : /\ SoundWriter(disk, stable, x)
                     /\ Bound(x) \/ x.pc = "syncCommit" => disk'.repository = x.repository
                     => SoundWriter(disk', stable', x)
  <1>1. Survivors(disk', stable') = {}
    BY DEF Survivors
  <1>2. \A s : Anchor(disk, stable, acked, s) => Anchor(disk', stable', acked, s)
    BY DEF Anchor
  <1>3. SoundTrue(disk', stable', acked)
    BY <1>1, <1>2 DEF SoundTrue, SoundIInv
  <1>4. ASSUME NEW x, SoundWriter(disk, stable, x),
               Bound(x) \/ x.pc = "syncCommit" => disk'.repository = x.repository
        PROVE  SoundWriter(disk', stable', x)
    BY <1>1, <1>4 DEF SoundWriter
  <1> QED
    BY <1>1, <1>3, <1>4

\* Those who are bound to an identity have found it on disk.
LEMMA BoundToDisk ==
    ASSUME StoreIInv, SoundIInv, disk.repository \in {Absent, Unreadable}, NEW v \in Writers
    PROVE  ~Bound(writer[v]) /\ writer[v].pc # "syncCommit"
  <1>1. Bound(writer[v]) \/ writer[v].pc = "syncCommit" => writer[v].repository \in Identities
    BY DrawnFacts DEF WriterTrue, IdentityTrue, Bound, Held
  <1> QED
    BY <1>1, PublicationAssumption DEF SoundIInv, SoundWriter, Identities, Absent, Unreadable

LEMMA CreateKeepsSound ==
    ASSUME StoreIInv, SoundIInv, NEW w \in Writers, CreateRepository(w) PROVE SoundIInv'
  <1>1. /\ writer[w].pc = "create" /\ writer[w].pc \notin Held
        /\ UNCHANGED <<stable, damaged, acked>> /\ damaged' = {}
        /\ writer \in [Writers -> WriterType] /\ disk \in StoreType
    BY DEF CreateRepository, StoreIInv, SoundIInv, Types, Held
  <1>2. CASE AdoptRepository(w) /\ UNCHANGED disk
    BY <1>1, <1>2, AdoptingKeepsSound
  <1>3. CASE /\ disk.repository = Absent
             /\ writer' = [writer EXCEPT ![w].pc = "write", ![w].repository = identities + 1]
             /\ disk' = [disk EXCEPT !.repository = Unreadable]
    <2>1. ~writer[w].fresh
      BY <1>1, NotFresh
    <2>2. /\ writer'[w].pc = "write" /\ ~writer'[w].fresh
          /\ \A v \in Writers \ {w} : writer'[v] = writer[v]
      BY <1>1, <1>3, <2>1 DEF WriterType
    <2>3. disk'.heads = disk.heads /\ stable'.heads = stable.heads
      BY <1>1, <1>3 DEF StoreType
    <2>4. /\ SoundTrue(disk', stable', acked)
          /\ \A x : /\ SoundWriter(disk, stable, x)
                    /\ Bound(x) \/ x.pc = "syncCommit" => disk'.repository = x.repository
                    => SoundWriter(disk', stable', x)
      BY <1>3, <2>3, SoundFacts, IdentitySound
    <2>5. \A v \in Writers \ {w} : SoundWriter(disk', stable', writer'[v])
      BY <1>3, <2>2, <2>4, BoundToDisk DEF SoundIInv
    <2>6. SoundWriter(disk', stable', writer'[w])
      BY <2>2, UnlockedSound DEF Held
    <2> QED
      BY <1>1, <2>4, <2>5, <2>6, SoundStep
  <1> QED
    BY <1>2, <1>3 DEF CreateRepository

LEMMA WriteKeepsSound ==
    ASSUME StoreIInv, SoundIInv, NEW w \in Writers, WriteRepository(w) PROVE SoundIInv'
  <1>1. /\ writer[w].pc \in {"write", "writeUnlinked"} /\ writer[w].pc \notin Held
        /\ UNCHANGED <<stable, damaged, acked>> /\ damaged' = {}
        /\ writer \in [Writers -> WriterType] /\ disk \in StoreType /\ Goto(w, "syncRepository")
    BY DEF WriteRepository, Bystanders, StoreIInv, SoundIInv, Types, Held
  <1>2. /\ writer'[w].pc = "syncRepository" /\ SameButPlace(writer[w], writer'[w])
        /\ \A v \in Writers \ {w} : writer'[v] = writer[v]
    BY <1>1, Going DEF WriterPlaces
  <1>3. writer'[w].pc \notin Held /\ ~writer'[w].fresh
    BY <1>1, <1>2, NotFresh DEF SameButPlace, Held
  <1>4. CASE UNCHANGED disk
    BY <1>1, <1>2, <1>3, <1>4, UnlockedKeepsSound
  <1>5. CASE writer[w].pc = "write" /\ disk' = [disk EXCEPT !.repository = writer[w].repository]
    <2>1. disk.repository = Unreadable
      BY <1>5, DrawnFacts DEF WriterTrue, IdentityTrue
    <2>2. disk'.heads = disk.heads /\ stable'.heads = stable.heads
      BY <1>1, <1>5 DEF StoreType
    <2>3. /\ SoundTrue(disk', stable', acked)
          /\ \A x : /\ SoundWriter(disk, stable, x)
                    /\ Bound(x) \/ x.pc = "syncCommit" => disk'.repository = x.repository
                    => SoundWriter(disk', stable', x)
      BY <2>1, <2>2, SoundFacts, IdentitySound
    <2>4. \A v \in Writers \ {w} : SoundWriter(disk', stable', writer'[v])
      BY <1>2, <2>1, <2>3, BoundToDisk DEF SoundIInv
    <2>5. SoundWriter(disk', stable', writer'[w])
      BY <1>3, UnlockedSound
    <2> QED
      BY <1>1, <2>3, <2>4, <2>5, SoundStep
  <1> QED
    BY <1>4, <1>5 DEF WriteRepository

LEMMA SyncRepositoryKeepsSound ==
    ASSUME StoreIInv, SoundIInv, NEW w \in Writers, SyncRepository(w) PROVE SoundIInv'
  <1>1. /\ writer[w].pc = "syncRepository" /\ writer[w].pc \notin Held
        /\ UNCHANGED <<disk, damaged, acked>> /\ damaged' = {}
        /\ writer \in [Writers -> WriterType] /\ Goto(w, "lock") /\ stable'.heads = disk.heads
    BY SyncedTyped DEF SyncRepository, Bystanders, StoreIInv, SoundIInv, Types, Held
  <1>2. /\ writer'[w].pc = "lock" /\ SameButPlace(writer[w], writer'[w])
        /\ \A v \in Writers \ {w} : writer'[v] = writer[v]
    BY <1>1, Going DEF WriterPlaces
  <1>3. writer'[w].pc \notin Held /\ ~writer'[w].fresh
    BY <1>1, <1>2, NotFresh DEF SameButPlace, Held
  <1>4. /\ SoundTrue(disk', stable', acked)
        /\ \A x : SoundWriter(disk, stable, x) => SoundWriter(disk', stable', x)
    BY <1>1, SyncedSound
  <1>5. \A v \in Writers \ {w} : SoundWriter(disk', stable', writer'[v])
    BY <1>2, <1>4 DEF SoundIInv
  <1>6. SoundWriter(disk', stable', writer'[w])
    BY <1>3, UnlockedSound
  <1> QED
    BY <1>1, <1>4, <1>5, <1>6, SoundStep

LEMMA TryLockKeepsSound ==
    ASSUME StoreIInv, SoundIInv, NEW w \in Writers, TryLock(w) PROVE SoundIInv'
  <1>1. /\ UNCHANGED <<damaged, acked>> /\ damaged' = {} /\ disk \in StoreType
        /\ writer \in [Writers -> WriterType] /\ writer[w].pc = "lock" /\ ~writer[w].fresh
    BY NotFresh DEF TryLock, StoreIInv, SoundIInv, Types, Held
  <1>2. /\ [disk EXCEPT !.populated = TRUE].repository = disk.repository
        /\ [disk EXCEPT !.populated = TRUE].heads = disk.heads
        /\ [Synced EXCEPT !.populated = TRUE].heads = disk.heads
    BY <1>1, SyncedTyped DEF StoreType, SameStore
  <1>3. CASE Leave(w) /\ UNCHANGED <<disk, stable>>
    BY <1>1, <1>3, LeavingKeepsSound
  <1>4. CASE Leave(w) /\ disk' = [disk EXCEPT !.populated = TRUE] /\ UNCHANGED stable
    BY <1>1, <1>2, <1>4, LeavingKeepsSound
  <1>5. ASSUME disk' = [disk EXCEPT !.populated = TRUE], stable' = [Synced EXCEPT !.populated = TRUE],
               \A v \in Writers \ {w} : writer'[v] = writer[v], writer'[w].pc = "admitted",
               \/ ~writer'[w].fresh /\ writer'[w].repository = disk.repository
               \/ disk.repository \in {Absent, Unreadable} /\ writer'[w].fresh
        PROVE  SoundIInv'
    <2>1. /\ disk'.repository = disk.repository /\ disk'.heads = disk.heads
          /\ stable'.heads = disk.heads
      BY <1>2, <1>5
    <2>2. /\ Survivors(disk', stable') \subseteq Survivors(disk, stable)
          /\ SoundTrue(disk', stable', acked)
          /\ \A x : SoundWriter(disk, stable, x) => SoundWriter(disk', stable', x)
      BY <2>1, SyncedSound
    <2>3. \A v \in Writers \ {w} : SoundWriter(disk', stable', writer'[v])
      BY <1>5, <2>2 DEF SoundIInv
    <2>4. disk.repository \in {Absent, Unreadable} => Survivors(disk', stable') = {}
      BY <2>2, SoundFacts
    <2>5. Bound(writer'[w]) => disk'.repository = writer'[w].repository
      BY <1>5, <2>1 DEF Bound, AfterHead, Finishing
    <2>6. writer'[w].fresh => Survivors(disk', stable') = {}
      BY <1>5, <2>4
    <2>7. SoundWriter(disk', stable', writer'[w])
      BY <1>5, <2>5, <2>6 DEF SoundWriter, BeforeHead, BeforeCommit, WithHead, AfterHead, Finishing
    <2> QED
      BY <1>1, <2>2, <2>3, <2>7, SoundStep
  <1>6. ASSUME disk' = [disk EXCEPT !.populated = TRUE], stable' = [Synced EXCEPT !.populated = TRUE],
               NEW head \in AdmittedHeads(w),
               writer' = [writer EXCEPT ![w].pc = "admitted", ![w].admitted = head]
        PROVE  SoundIInv'
    <2>1. /\ \A v \in Writers \ {w} : writer'[v] = writer[v]
          /\ writer'[w].pc = "admitted" /\ ~writer'[w].fresh
          /\ writer'[w].repository = writer[w].repository
      BY <1>1, <1>6 DEF WriterType
    <2>2. writer[w].repository = disk.repository
      BY AdmittedIdentity
    <2> QED
      BY <1>5, <1>6, <2>1, <2>2
  <1>7. ASSUME disk' = [disk EXCEPT !.populated = TRUE], stable' = [Synced EXCEPT !.populated = TRUE],
               writer' = [writer EXCEPT ![w].pc = "admitted", ![w].repository = disk.repository]
        PROVE  SoundIInv'
    <2>1. /\ \A v \in Writers \ {w} : writer'[v] = writer[v]
          /\ writer'[w].pc = "admitted" /\ ~writer'[w].fresh
          /\ writer'[w].repository = disk.repository
      BY <1>1, <1>7 DEF WriterType
    <2> QED
      BY <1>5, <1>7, <2>1
  <1>8. ASSUME disk' = [disk EXCEPT !.populated = TRUE], stable' = [Synced EXCEPT !.populated = TRUE],
               disk.repository \in {Absent, Unreadable},
               writer' = [writer EXCEPT ![w].pc = "admitted", ![w].fresh = TRUE,
                                        ![w].repository = identities + 1]
        PROVE  SoundIInv'
    <2>1. /\ \A v \in Writers \ {w} : writer'[v] = writer[v]
          /\ writer'[w].pc = "admitted" /\ writer'[w].fresh
      BY <1>1, <1>8 DEF WriterType
    <2> QED
      BY <1>5, <1>8, <2>1
  <1> QED
    BY <1>3, <1>4, <1>6, <1>7, <1>8 DEF TryLock

LEMMA BeginKeepsSound ==
    ASSUME StoreIInv, SoundIInv, NEW w \in Writers, BeginGeneration(w) PROVE SoundIInv'
  <1>1. /\ UNCHANGED <<disk, damaged, acked>> /\ damaged' = {} /\ stable'.heads = stable.heads
        /\ writer \in [Writers -> WriterType] /\ writer[w].pc = "admitted" /\ Goto(w, "build")
        /\ SoundWriter(disk, stable, writer[w])
    BY DEF BeginGeneration, Bystanders, StoreIInv, SoundIInv, Types, StoreType
  <1>2. /\ writer'[w].pc = "build" /\ SameButPlace(writer[w], writer'[w])
        /\ \A v \in Writers \ {w} : writer'[v] = writer[v]
    BY <1>1, Going DEF WriterPlaces, Held
  <1>3. SoundWriter(disk, stable, writer'[w])
    BY <1>1, <1>2 DEF SoundWriter, SameButPlace, Bound, Held, BeforeHead, BeforeCommit, WithHead, AfterHead, Finishing
  <1> QED
    BY <1>1, <1>2, <1>3, QuietSound

LEMMA DiscardKeepsSound ==
    ASSUME StoreIInv, SoundIInv, NEW w \in Writers, Discard(w) PROVE SoundIInv'
  <1>1. /\ UNCHANGED <<disk, damaged, acked>> /\ stable'.heads = stable.heads /\ Leave(w)
    BY DEF Discard, Bystanders, StoreIInv, Types, StoreType
  <1> QED
    BY <1>1, LeavingKeepsSound

\* In a store without damage every valid record resolves.
LEMMA ResolvesTheNewest ==
    ASSUME StoreIInv, SoundIInv,
           NEW repository, repository = disk.repository \/ Survivors(disk, stable) = {}
    PROVE  Resolve(repository) = NewestOf(disk.heads, ValidSlots(disk.heads))
  <1>1. ASSUME NEW s \in ValidSlots(disk.heads) PROVE Validates(disk.heads[s], repository)
    <2>1. disk.heads[s] \in Survivors(disk, stable) /\ damaged = {}
      BY SoundFacts DEF ValidSlots
    <2> QED
      BY <2>1 DEF Validates, SoundIInv, SoundTrue, StoreIInv, StoreTrue
  <1>2. {s \in ValidSlots(disk.heads) : Validates(disk.heads[s], repository)} = ValidSlots(disk.heads)
    BY <1>1
  <1> QED
    BY <1>2 DEF Resolve

\* What a candidate is built on is the newest record, and the slot it will
\* take is not that record's.
LEMMA CandidateIsChild ==
    ASSUME StoreIInv, SoundIInv, NEW w \in Writers, writer[w].pc = "build",
           NEW slot \in Slots \cup {NoSlot}, CurrentForCandidate(w, slot), NEW content \in Contents
    PROVE  LET head == Candidate(writer[w].repository, slot, content)
               other == 1 - PublishSlot(disk.heads, slot)
           IN  /\ Child(head, disk.heads[other])
               /\ head.sequence = Len(head.generation.contents)
               /\ \A s \in Slots : disk.heads[s].sequence <= disk.heads[other].sequence
  <1> DEFINE newest == NewestOf(disk.heads, ValidSlots(disk.heads))
             head == Candidate(writer[w].repository, slot, content)
             other == 1 - PublishSlot(disk.heads, slot)
             ancestors == IF slot = NoSlot THEN <<>> ELSE disk.heads[slot].generation.contents
  <1>1. /\ writer[w] \in WriterType /\ disk \in StoreType /\ disk.heads \in [Slots -> Heads]
        /\ SoundWriter(disk, stable, writer[w]) /\ StoreTrue(disk, stable)
    BY DEF StoreIInv, SoundIInv, Types, StoreType
  <1>2. writer[w].repository = disk.repository \/ Survivors(disk, stable) = {}
    BY <1>1 DEF SoundWriter, Bound, Held, BeforeCommit, WriterType
  <1>3. Resolve(writer[w].repository) = newest
    BY <1>2, ResolvesTheNewest
  <1>4. writer[w].fresh => Survivors(disk, stable) = {}
    BY <1>1 DEF SoundWriter, BeforeCommit
  <1>5. /\ newest \in ValidSlots(disk.heads) \cup {NoSlot}
        /\ newest = NoSlot <=> ValidSlots(disk.heads) = {}
        /\ \A s \in ValidSlots(disk.heads) : disk.heads[s].sequence <= disk.heads[newest].sequence
    BY <1>1, NewestSlot DEF ValidSlots
  <1>6. Survivors(disk, stable) = {} => newest = NoSlot
    BY <1>5, SoundFacts DEF ValidSlots
  <1>7. ~Conflicting(disk.heads)
    <2>1. SUFFICES ASSUME Conflicting(disk.heads) PROVE FALSE
      OBVIOUS
    <2>2. disk.heads[0] \in Survivors(disk, stable) /\ disk.heads[1] \in Survivors(disk, stable)
      BY <2>1, SoundFacts DEF Conflicting, ValidSlots, Slots
    <2> QED
      BY <1>1, <2>1, <2>2 DEF Conflicting, StoreTrue
  <1>8. slot = newest
    BY <1>3, <1>4, <1>6, <1>7 DEF CurrentForCandidate
  <1>9. InvalidSlots(disk.heads) = {}
    BY DEF InvalidSlots, SoundIInv, SoundTrue
  <1> HIDE DEF newest
  <1>10. /\ \A s \in Slots : disk.heads[s].sequence \in Nat
         /\ \A s \in Slots : ~IsValid(disk.heads[s]) => disk.heads[s] = Missing
         /\ \A s \in Slots : disk.heads[s].sequence = Len(disk.heads[s].generation.contents)
         /\ Missing.sequence = 0 /\ Missing.generation.contents = <<>>
    BY SoundFacts DEF Missing, HeadRecord, NoGeneration
  <1>11. NextSequence(disk.heads) = IF newest = NoSlot THEN 1 ELSE disk.heads[newest].sequence + 1
    BY DEF NextSequence, newest
  <1>12. /\ head.sequence = NextSequence(disk.heads)
         /\ head.generation.contents = Append(ancestors, content)
    BY DEF Candidate, HeadRecord
  <1>13. /\ other \in Slots
         /\ newest # NoSlot => other = newest
         /\ newest = NoSlot => PublishSlot(disk.heads, slot) = 0 /\ other = 1
    <2>1. CASE newest # NoSlot
      <3>1. PublishSlot(disk.heads, slot) = 1 - newest
        BY <1>8, <1>9, <2>1 DEF PublishSlot
      <3>2. newest \in Slots
        BY <1>5, <2>1 DEF ValidSlots
      <3> QED
        BY <2>1, <3>1, <3>2 DEF Slots
    <2>2. CASE newest = NoSlot
      <3>1. disk.heads[0] = Missing
        BY <1>5, <1>10, <2>2 DEF ValidSlots, Slots
      <3>2. PublishSlot(disk.heads, slot) = 0
        BY <1>8, <1>9, <2>2, <3>1 DEF PublishSlot
      <3> QED
        BY <2>2, <3>2 DEF Slots
    <2> QED
      BY <2>1, <2>2
  <1>14. /\ disk.heads[other].sequence + 1 = head.sequence
         /\ disk.heads[other].generation.contents = ancestors
    <2>1. CASE newest # NoSlot
      BY <1>8, <1>11, <1>12, <1>13, <2>1
    <2>2. CASE newest = NoSlot
      BY <1>5, <1>8, <1>10, <1>11, <1>12, <1>13, <2>2 DEF ValidSlots
    <2> QED
      BY <2>1, <2>2
  <1>15. ancestors \in Seq(Contents)
    <2>1. \A h \in ValidHeads : h.generation.contents \in Seq(Contents)
      BY DEF ValidHeads, Generations
    <2>2. disk.heads[other] \in ValidHeads \cup {Missing}
      BY <1>13, SoundFacts
    <2> QED
      BY <1>10, <1>14, <2>1, <2>2, EmptySeq
  <1>16. ASSUME NEW s \in Slots PROVE disk.heads[s].sequence <= disk.heads[other].sequence
    <2>1. CASE s \in ValidSlots(disk.heads)
      BY <1>5, <1>13, <2>1
    <2>2. CASE s \notin ValidSlots(disk.heads)
      BY <1>10, <1>13, <2>2 DEF ValidSlots
    <2> QED
      BY <2>1, <2>2
  <1> HIDE DEF head, other, ancestors
  <1>17. Len(head.generation.contents) = Len(ancestors) + 1
    BY <1>12, <1>15, AppendProperties
  <1>18. head.sequence = Len(head.generation.contents)
    BY <1>10, <1>13, <1>14, <1>17
  <1>19. Child(head, disk.heads[other])
    BY <1>10, <1>12, <1>13, <1>14 DEF Child
  <1> QED
    BY <1>16, <1>18, <1>19 DEF head, other

LEMMA SealKeepsSound ==
    ASSUME StoreIInv, SoundIInv, NEW w \in Writers, Seal(w) PROVE SoundIInv'
  <1>1. /\ UNCHANGED <<disk, stable, damaged, acked>> /\ damaged' = {}
        /\ writer \in [Writers -> WriterType] /\ writer[w].pc = "build"
        /\ SoundWriter(disk, stable, writer[w]) /\ disk \in StoreType
    BY DEF Seal, Bystanders, StoreIInv, SoundIInv, Types
  <1>2. CASE Abandon(w)
    BY <1>1, <1>2, LeavingKeepsSound DEF Abandon
  <1>3. ASSUME NEW slot \in Slots \cup {NoSlot}, NEW content \in Contents,
               CurrentForCandidate(w, slot), NextSequence(disk.heads) <= MaxSequence,
               writer' = [writer EXCEPT
                   ![w].pc = "promote", ![w].slot = PublishSlot(disk.heads, slot),
                   ![w].head = Candidate(writer[w].repository, slot, content)]
        PROVE  SoundIInv'
    <2> DEFINE head == Candidate(writer[w].repository, slot, content)
               place == PublishSlot(disk.heads, slot)
    <2>1. writer[w].repository \in Identities
      BY <1>1, DrawnFacts DEF WriterTrue, IdentityTrue, Held
    <2>2. head \in ValidHeads /\ place \in Slots
      BY <1>1, <1>3, <2>1, CandidateKind
    <2>3. /\ Child(head, disk.heads[1 - place]) /\ head.sequence = Len(head.generation.contents)
          /\ \A s \in Slots : disk.heads[s].sequence <= disk.heads[1 - place].sequence
      BY <1>1, <1>3, CandidateIsChild
    <2>4. writer' = [writer EXCEPT ![w].pc = "promote", ![w].slot = place, ![w].head = head]
      BY <1>3
    <2> HIDE DEF head, place
    <2>5. /\ \A v \in Writers \ {w} : writer'[v] = writer[v]
          /\ writer'[w].pc = "promote" /\ writer'[w].slot = place /\ writer'[w].head = head
          /\ writer'[w].repository = writer[w].repository /\ writer'[w].fresh = writer[w].fresh
      BY <1>1, <2>4 DEF WriterType
    <2>6. /\ Bound(writer'[w]) => Bound(writer[w])
          /\ writer'[w].fresh => Survivors(disk, stable) = {}
      BY <1>1, <2>5 DEF SoundWriter, Bound, Held, BeforeCommit, AfterHead, Finishing
    <2>7. SoundWriter(disk, stable, writer'[w])
      BY <1>1, <2>2, <2>3, <2>5, <2>6 DEF SoundWriter, AfterHead, Finishing
    <2> QED
      BY <1>1, <2>5, <2>7, QuietSound
  <1> QED
    BY <1>2, <1>3 DEF Seal, Candidate

\* From the candidate to the rename of its record.
LEMMA PromotedSound ==
    ASSUME NEW d, NEW t, NEW x \in WriterType, NEW y \in WriterType, SoundWriter(d, t, x),
           SameButPlace(x, y), x.pc \in {"promote", "syncGenerations"},
           y.pc \in {"syncGenerations", "commit", "head"}, y.pc = "head" => ~x.fresh
    PROVE  SoundWriter(d, t, y)
  <1>1. Bound(y) => Bound(x)
    BY DEF Bound, SameButPlace, Held, AfterHead, Finishing
  <1> QED
    BY <1>1 DEF SoundWriter, SameButPlace, BeforeHead, BeforeCommit, WithHead, AfterHead, Finishing

LEMMA AfterPromotionPlace ==
    ASSUME NEW w \in Writers, writer \in [Writers -> WriterType]
    PROVE  /\ AfterPromotion(w) \in {"commit", "head"} /\ AfterPromotion(w) \in WriterPlaces
           /\ AfterPromotion(w) = "head" => ~writer[w].fresh
  BY DEF AfterPromotion, WriterPlaces, Held, WriterType

LEMMA PromoteKeepsSound ==
    ASSUME StoreIInv, SoundIInv, NEW w \in Writers, Promote(w) PROVE SoundIInv'
  <1>1. /\ UNCHANGED <<stable, damaged, acked>> /\ damaged' = {}
        /\ writer \in [Writers -> WriterType] /\ writer[w].pc = "promote"
        /\ SoundWriter(disk, stable, writer[w]) /\ disk \in StoreType
    BY DEF Promote, Bystanders, StoreIInv, SoundIInv, Types
  <1>2. disk'.repository = disk.repository /\ disk'.heads = disk.heads
    BY <1>1 DEF Promote, StoreType
  <1>3. CASE Abandon(w)
    BY <1>1, <1>2, <1>3, LeavingKeepsSound DEF Abandon
  <1>4. ASSUME NEW place \in {"syncGenerations", "commit", "head"}, Goto(w, place),
               place = "head" => ~writer[w].fresh
        PROVE  SoundIInv'
    <2>1. place \in WriterPlaces
      BY DEF WriterPlaces, Held
    <2>2. /\ writer' \in [Writers -> WriterType] /\ \A v \in Writers \ {w} : writer'[v] = writer[v]
          /\ writer'[w].pc = place /\ SameButPlace(writer[w], writer'[w])
      BY <1>1, <1>4, <2>1, Going
    <2>3. SoundWriter(disk, stable, writer'[w])
      BY <1>1, <1>4, <2>2, PromotedSound
    <2> QED
      BY <1>1, <1>2, <2>2, <2>3, QuietSound
  <1>5. CASE Goto(w, "syncGenerations")
    BY <1>4, <1>5
  <1>6. CASE Goto(w, AfterPromotion(w))
    BY <1>1, <1>4, <1>6, AfterPromotionPlace
  <1> QED
    BY <1>3, <1>5, <1>6 DEF Promote

LEMMA SyncGenerationsKeepsSound ==
    ASSUME StoreIInv, SoundIInv, NEW w \in Writers, SyncGenerations(w) PROVE SoundIInv'
  <1>1. /\ UNCHANGED <<disk, damaged, acked>> /\ damaged' = {} /\ stable'.heads = stable.heads
        /\ writer \in [Writers -> WriterType] /\ writer[w].pc = "syncGenerations"
        /\ SoundWriter(disk, stable, writer[w]) /\ Goto(w, AfterPromotion(w))
    BY DEF SyncGenerations, Bystanders, StoreIInv, SoundIInv, Types, StoreType
  <1>2. /\ AfterPromotion(w) \in {"commit", "head"} /\ AfterPromotion(w) \in WriterPlaces
        /\ AfterPromotion(w) = "head" => ~writer[w].fresh
    BY <1>1, AfterPromotionPlace
  <1>3. /\ writer' \in [Writers -> WriterType] /\ \A v \in Writers \ {w} : writer'[v] = writer[v]
        /\ writer'[w].pc = AfterPromotion(w) /\ SameButPlace(writer[w], writer'[w])
    BY <1>1, <1>2, Going
  <1>4. SoundWriter(disk, stable, writer'[w])
    BY <1>1, <1>2, <1>3, PromotedSound
  <1> QED
    BY <1>1, <1>3, <1>4, QuietSound

\* Beside the holder of the lock nobody relies on the records.
LEMMA OthersSound ==
    ASSUME StoreIInv, NEW w \in Writers, writer[w].pc \in Held, NEW d, NEW t, NEW v \in Writers \ {w}
    PROVE  SoundWriter(d, t, writer[v])
  <1>1. writer[v].pc \notin Held
    BY DEF StoreIInv, Exclusion
  <1> QED
    BY <1>1, NotFresh, UnlockedSound

LEMMA CommitKeepsSound ==
    ASSUME StoreIInv, StoreIInv', SoundIInv, NEW w \in Writers, CommitRepository(w) PROVE SoundIInv'
  <1>1. /\ UNCHANGED <<stable, damaged, acked>> /\ damaged' = {} /\ disk \in StoreType
        /\ writer \in [Writers -> WriterType] /\ writer[w].pc = "commit"
        /\ SoundWriter(disk, stable, writer[w])
        /\ disk' = [disk EXCEPT !.repository = writer[w].repository]
        /\ writer' = [v \in Writers |->
                         IF v = w THEN [writer[v] EXCEPT !.pc = "syncCommit"]
                         ELSE IF writer[v].pc = "write" THEN [writer[v] EXCEPT !.pc = "writeUnlinked"]
                         ELSE writer[v]]
    BY DEF CommitRepository, Bystanders, StoreIInv, SoundIInv, Types
  <1>2. writer[w].fresh /\ writer[w].pc \in Held
    BY <1>1, DrawnFacts DEF WriterTrue, IdentityTrue, Held
  <1>3. Survivors(disk, stable) = {}
    BY <1>1, <1>2 DEF SoundWriter, BeforeCommit
  <1>4. /\ disk'.repository = writer[w].repository /\ disk'.heads = disk.heads
        /\ stable'.heads = stable.heads
    BY <1>1 DEF StoreType
  <1>5. Survivors(disk', stable') = {} /\ SoundTrue(disk', stable', acked)
    BY <1>3, <1>4, IdentitySound
  <1>6. /\ writer'[w].pc = "syncCommit" /\ SameButPlace(writer[w], writer'[w])
    BY <1>1 DEF WriterType, SameButPlace
  <1>7. SoundWriter(disk', stable', writer'[w])
    BY <1>1, <1>2, <1>4, <1>5, <1>6
       DEF SoundWriter, SameButPlace, BeforeHead, BeforeCommit, WithHead, AfterHead, Finishing
  <1>8. writer'[w].pc \in Held
    BY <1>6 DEF Held
  <1>9. ASSUME NEW v \in Writers \ {w} PROVE SoundWriter(disk', stable', writer'[v])
    <2>1. writer[v].pc \notin Held /\ ~writer[v].fresh
      BY <1>2, NotFresh DEF StoreIInv, Exclusion
    <2>2. writer'[v].pc \notin Held /\ ~writer'[v].fresh
      BY <1>1, <2>1 DEF WriterType, Held
    <2> QED
      BY <2>2, UnlockedSound
  <1> QED
    BY <1>1, <1>5, <1>7, <1>9, SoundStep

LEMMA ReplaceKeepsSound ==
    ASSUME StoreIInv, SoundIInv, NEW w \in Writers, ReplaceHead(w) PROVE SoundIInv'
  <1> DEFINE x == writer[w]
             slot == IF x.pc = "head" THEN x.slot ELSE 1 - x.slot
             place == IF x.pc = "head" THEN "syncHead" ELSE "syncSecond"
  <1>1. /\ UNCHANGED <<stable, damaged, acked>> /\ damaged' = {} /\ disk \in StoreType
        /\ writer \in [Writers -> WriterType] /\ x.pc \in {"head", "secondHead"}
        /\ SoundWriter(disk, stable, x) /\ Goto(w, place)
        /\ disk' = [disk EXCEPT !.heads[slot] = x.head]
        /\ WriterTrue(disk, stable, x)
    BY DEF ReplaceHead, Bystanders, StoreIInv, SoundIInv, Types
  <1>2. /\ x.head \in ValidHeads /\ x.slot \in Slots /\ x.head.repository = x.repository
        /\ \A h \in Survivors(disk, stable) : h.sequence < x.head.sequence \/ h = x.head
        /\ x.head.sequence = Len(x.head.generation.contents)
        /\ disk.repository = x.repository
    BY <1>1 DEF WriterTrue, HeadsTrue, SoundWriter, WithHead, AfterHead, Bound, Held
  <1>3. slot \in Slots /\ 1 - slot \in Slots /\ slot # 1 - slot /\ 1 - (1 - slot) = slot
    BY <1>2 DEF Slots
  <1>4. /\ x.pc = "head" => slot = x.slot /\ place = "syncHead"
        /\ x.pc = "secondHead" => 1 - slot = x.slot /\ place = "syncSecond"
    BY <1>1, <1>2 DEF Slots
  <1> HIDE DEF slot, place
  <1>5. place \in WriterPlaces
    BY <1>1, <1>4 DEF WriterPlaces, Held
  <1>6. /\ writer' \in [Writers -> WriterType] /\ \A v \in Writers \ {w} : writer'[v] = writer[v]
        /\ writer'[w].pc = place /\ SameButPlace(x, writer'[w])
    BY <1>1, <1>5, Going
  <1>7. /\ disk'.repository = disk.repository
        /\ disk'.heads = [disk.heads EXCEPT ![slot] = x.head]
        /\ disk'.heads[slot] = x.head /\ disk'.heads[1 - slot] = disk.heads[1 - slot]
        /\ \A u \in Slots : u = slot \/ u = 1 - slot
    BY <1>1, <1>3 DEF StoreType, Slots
  <1>8. Survivors(disk', stable') \subseteq Survivors(disk, stable) \cup {x.head}
    BY <1>1, <1>3, <1>7 DEF Survivors, StoreType, Slots
  <1>9. \A s \in Slots : disk'.heads[s] # Invalid /\ stable'.heads[s] # Invalid
    <2>1. x.head # Invalid
      BY <1>2, HeadKinds
    <2> QED
      BY <1>1, <1>7, <2>1 DEF SoundIInv, SoundTrue
  <1>10. /\ \A s \in Slots : disk.heads[s].sequence \in Nat /\ stable.heads[s].sequence \in Nat
         /\ x.head.sequence \in Nat
         /\ \A h \in Survivors(disk, stable) : h.sequence \in Int
         /\ acked.sequence \in Int
         /\ \A s \in Slots : disk.heads[s].sequence <= x.head.sequence
    <2>1. \A s \in Slots : disk.heads[s].sequence \in Nat /\ stable.heads[s].sequence \in Nat
      BY SoundFacts
    <2>2. /\ x.head.sequence \in Nat /\ acked.sequence \in Int
          /\ \A h \in Survivors(disk, stable) : h.sequence \in Int
      BY <1>2, HeadKinds, DrawnFacts DEF StoreIInv, Types, Heads
    <2>3. ASSUME NEW s \in Slots PROVE disk.heads[s].sequence <= x.head.sequence
      <3>1. CASE IsValid(disk.heads[s])
        BY <1>2, <2>1, <2>2, <3>1, SoundFacts
      <3>2. CASE ~IsValid(disk.heads[s])
        BY <2>1, <2>2, <3>2 DEF IsValid
      <3> QED
        BY <3>1, <3>2
    <2> QED
      BY <2>1, <2>2, <2>3
  <1>11. PICK s0 \in Slots : Anchor(disk, stable, acked, s0)
    BY DEF SoundIInv, SoundTrue
  <1>12. Anchor(disk', stable', acked, 1 - slot)
    <2>1. CASE x.pc = "head"
      <3>1. /\ disk.heads = stable.heads
            /\ Child(x.head, disk.heads[1 - slot])
            /\ \A s \in Slots : disk.heads[s].sequence <= disk.heads[1 - slot].sequence
        BY <1>1, <1>4, <2>1
           DEF WriterTrue, HeadsTrue, SoundWriter, BeforeHead, BeforeCommit, WithHead, AfterHead
      <3>2. acked.sequence <= disk.heads[1 - slot].sequence
        BY <1>3, <1>10, <1>11, <3>1 DEF Anchor
      <3> QED
        BY <1>1, <1>3, <1>7, <3>1, <3>2 DEF Anchor
    <2>2. CASE x.pc = "secondHead"
      <3>1. disk.heads[1 - slot] = x.head /\ stable.heads[1 - slot] = x.head
        BY <1>1, <1>4, <2>2 DEF SoundWriter, AfterHead
      <3>2. acked.sequence <= x.head.sequence
        BY <1>10, <1>11 DEF Anchor
      <3>3. \A u \in Slots : stable.heads[u].sequence <= x.head.sequence
        <4>1. ASSUME NEW u \in Slots, IsValid(stable.heads[u])
              PROVE  stable.heads[u].sequence <= x.head.sequence
          <5>1. stable.heads[u] \in Survivors(disk, stable)
            BY <4>1 DEF Survivors, Slots
          <5> QED
            BY <1>2, <1>10, <5>1
        <4> QED
          BY <1>10, <4>1 DEF IsValid
      <3> QED
        BY <1>1, <1>3, <1>7, <3>1, <3>2, <3>3 DEF Anchor
    <2> QED
      BY <1>1, <2>1, <2>2
  <1>13. SoundTrue(disk', stable', acked')
    <2>1. \A h \in Survivors(disk', stable') :
              h.repository = disk'.repository /\ h.sequence = Len(h.generation.contents)
      BY <1>2, <1>7, <1>8 DEF SoundIInv, SoundTrue
    <2> QED
      BY <1>1, <1>3, <1>9, <1>12, <2>1 DEF SoundTrue
  <1>14. SoundWriter(disk', stable', writer'[w])
    <2>1. \A h \in Survivors(disk', stable') : h.sequence <= x.head.sequence
      BY <1>2, <1>8, <1>10
    <2>2. disk'.heads[x.slot] = x.head
      BY <1>1, <1>4, <1>7 DEF SoundWriter, AfterHead
    <2>3. x.pc = "secondHead" => stable'.heads[x.slot] = x.head
      BY <1>1 DEF SoundWriter
    <2>4. writer'[w].pc \in {"syncHead", "syncSecond"} /\ (x.pc = "head" <=> writer'[w].pc = "syncHead")
      BY <1>1, <1>4, <1>6
    <2> QED
      BY <1>1, <1>2, <1>6, <1>7, <2>1, <2>2, <2>3, <2>4
         DEF SoundWriter, SameButPlace, BeforeHead, BeforeCommit, WithHead, AfterHead, Finishing
  <1>15. \A v \in Writers \ {w} : SoundWriter(disk', stable', writer'[v])
    <2>1. writer[w].pc \in Held
      BY <1>1 DEF Held
    <2> QED
      BY <1>6, <2>1, OthersSound
  <1> QED
    BY <1>1, <1>13, <1>14, <1>15, SoundStep

LEMMA SyncControlsKeepsSound ==
    ASSUME StoreIInv, SoundIInv, NEW w \in Writers, SyncControls(w) PROVE SoundIInv'
  <1> DEFINE place == CASE writer[w].pc = "syncCommit" -> "head"
                 [] writer[w].pc = "syncHead" /\ writer[w].mode = "RecoverAndRebind" -> "secondHead"
                 [] writer[w].pc = "syncHead" /\ writer[w].mode = "Strict" -> "cleanup"
                 [] writer[w].pc = "syncSecond" -> "cleanup"
  <1>1. /\ UNCHANGED <<disk, damaged, acked>> /\ damaged' = {} /\ stable'.heads = disk.heads
        /\ writer \in [Writers -> WriterType] /\ writer[w].pc \in {"syncCommit", "syncHead", "syncSecond"}
        /\ Goto(w, place)
    BY SyncedTyped DEF SyncControls, Bystanders, StoreIInv, SoundIInv, Types
  <1>2. /\ place \in {"head", "secondHead", "cleanup"}
        /\ place = "head" <=> writer[w].pc = "syncCommit"
    BY <1>1 DEF WriterType
  <1> HIDE DEF place
  <1>3. place \in WriterPlaces
    BY <1>2 DEF WriterPlaces, Held
  <1>4. /\ writer' \in [Writers -> WriterType] /\ \A v \in Writers \ {w} : writer'[v] = writer[v]
        /\ writer'[w].pc = place /\ SameButPlace(writer[w], writer'[w])
    BY <1>1, <1>3, Going
  <1>5. /\ SoundTrue(disk', stable', acked)
        /\ \A x : SoundWriter(disk, stable, x) => SoundWriter(disk', stable', x)
    BY <1>1, SyncedSound
  <1>6. SoundWriter(disk', stable', writer[w])
    BY <1>5 DEF SoundIInv
  <1>7. SoundWriter(disk', stable', writer'[w])
    <2>1. CASE place = "head"
      BY <1>2, <1>4, <1>6, <2>1
         DEF SoundWriter, SameButPlace, Bound, Held, BeforeHead, BeforeCommit, WithHead, AfterHead, Finishing
    <2>2. CASE place # "head"
      <3>1. /\ Bound(writer[w]) /\ disk'.repository = writer[w].repository
            /\ writer[w].head \in ValidHeads /\ writer[w].slot \in Slots
            /\ writer[w].head.sequence = Len(writer[w].head.generation.contents)
            /\ disk'.heads[writer[w].slot] = writer[w].head
            /\ \A h \in Survivors(disk', stable') : h.sequence <= writer[w].head.sequence
        BY <1>1, <1>2, <1>6, <2>2 DEF SoundWriter, Bound, Held, WithHead, AfterHead
      <3>2. stable'.heads[writer[w].slot] = writer[w].head
        BY <1>1, <3>1
      <3> QED
        BY <1>2, <1>4, <2>2, <3>1, <3>2
           DEF SoundWriter, SameButPlace, BeforeHead, BeforeCommit, WithHead, AfterHead, Finishing
    <2> QED
      BY <2>1, <2>2
  <1>8. \A v \in Writers \ {w} : SoundWriter(disk', stable', writer'[v])
    <2>1. writer[w].pc \in Held
      BY <1>1 DEF Held
    <2> QED
      BY <1>4, <2>1, OthersSound
  <1> QED
    BY <1>1, <1>5, <1>7, <1>8, SoundStep

LEMMA ScanKeepsSound ==
    ASSUME StoreIInv, SoundIInv, NEW w \in Writers, ScanForCleanup(w) PROVE SoundIInv'
  <1> DEFINE retain == IF InvalidSlots(disk.heads) # {} THEN disk.generations
                       ELSE {disk.heads[s].generation : s \in ValidSlots(disk.heads)}
  <1>1. /\ UNCHANGED <<disk, stable, damaged, acked>> /\ damaged' = {}
        /\ writer \in [Writers -> WriterType] /\ writer[w].pc = "cleanup"
        /\ SoundWriter(disk, stable, writer[w])
        /\ writer' = [writer EXCEPT ![w].pc = "reclaim", ![w].retain = retain, ![w].left = {},
                                    ![w].warned = InvalidSlots(disk.heads) # {}]
    BY DEF ScanForCleanup, Bystanders, StoreIInv, SoundIInv, Types
  <1>2. retain = {disk.heads[s].generation : s \in ValidSlots(disk.heads)}
    BY DEF InvalidSlots, SoundIInv, SoundTrue
  <1> HIDE DEF retain
  <1>3. /\ \A v \in Writers \ {w} : writer'[v] = writer[v]
        /\ writer'[w].pc = "reclaim" /\ writer'[w].retain = retain /\ writer'[w].left = {}
        /\ writer'[w].head = writer[w].head /\ writer'[w].slot = writer[w].slot
        /\ writer'[w].repository = writer[w].repository
    BY <1>1 DEF WriterType
  <1>4. /\ Bound(writer[w]) /\ disk.repository = writer[w].repository
        /\ writer[w].head \in ValidHeads /\ writer[w].slot \in Slots
        /\ writer[w].head.sequence = Len(writer[w].head.generation.contents)
        /\ disk.heads[writer[w].slot] = writer[w].head /\ stable.heads[writer[w].slot] = writer[w].head
        /\ \A h \in Survivors(disk, stable) : h.sequence <= writer[w].head.sequence
    BY <1>1 DEF SoundWriter, Bound, Held, WithHead, AfterHead, Finishing
  <1>5. SoundWriter(disk, stable, writer'[w])
    BY <1>2, <1>3, <1>4 DEF SoundWriter, BeforeHead, BeforeCommit, WithHead, AfterHead, Finishing
  <1> QED
    BY <1>1, <1>3, <1>5, QuietSound

LEMMA ReclaimKeepsSound ==
    ASSUME StoreIInv, SoundIInv, NEW w \in Writers, Reclaim(w) PROVE SoundIInv'
  <1>1. /\ UNCHANGED <<writer, acked>> /\ damaged' = {}
        /\ disk'.repository = disk.repository /\ disk'.heads = disk.heads
        /\ stable'.heads = stable.heads
    BY DEF Reclaim, Bystanders, StoreIInv, SoundIInv, Types, StoreType
  <1>2. SoundWriter(disk, stable, writer'[w])
    BY <1>1 DEF SoundIInv
  <1> QED
    BY <1>1, <1>2, QuietSound

LEMMA CleanupFailsKeepsSound ==
    ASSUME StoreIInv, SoundIInv, NEW w \in Writers, CleanupFails(w) PROVE SoundIInv'
  <1>1. /\ UNCHANGED acked /\ damaged' = {} /\ writer \in [Writers -> WriterType]
        /\ disk'.repository = disk.repository /\ disk'.heads = disk.heads
        /\ stable'.heads = stable.heads
    BY DEF CleanupFails, ScanFails, RemovalFails, StoreIInv, SoundIInv, Types, StoreType
  <1>2. /\ writer[w].pc \in Finishing /\ SoundWriter(disk, stable, writer[w])
        /\ \A v \in Writers \ {w} : writer'[v] = writer[v]
        /\ writer'[w].pc = "reclaim" /\ writer'[w].warned
        /\ writer'[w].head = writer[w].head /\ writer'[w].slot = writer[w].slot
        /\ writer'[w].repository = writer[w].repository
    <2>1. CASE ScanFails(w)
      BY <1>1, <2>1 DEF ScanFails, SoundIInv, Finishing, WriterType
    <2>2. CASE RemovalFails(w)
      BY <1>1, <2>2 DEF RemovalFails, SoundIInv, Finishing, WriterType
    <2> QED
      BY <2>1, <2>2 DEF CleanupFails
  <1>3. /\ Bound(writer[w]) /\ disk.repository = writer[w].repository
        /\ writer[w].head \in ValidHeads /\ writer[w].slot \in Slots
        /\ writer[w].head.sequence = Len(writer[w].head.generation.contents)
        /\ disk.heads[writer[w].slot] = writer[w].head /\ stable.heads[writer[w].slot] = writer[w].head
        /\ \A h \in Survivors(disk, stable) : h.sequence <= writer[w].head.sequence
    BY <1>2 DEF SoundWriter, Bound, Held, WithHead, AfterHead, Finishing
  <1>4. SoundWriter(disk, stable, writer'[w])
    BY <1>2, <1>3 DEF SoundWriter, BeforeHead, BeforeCommit, WithHead, AfterHead, Finishing
  <1> QED
    BY <1>1, <1>2, <1>4, QuietSound

\* What is acknowledged is synchronised and the newest.
LEMMA ReturnKeepsSound ==
    ASSUME StoreIInv, SoundIInv, NEW w \in Writers, Return(w) PROVE SoundIInv'
  <1>1. /\ UNCHANGED <<disk, stable, damaged>> /\ damaged' = {} /\ Leave(w)
        /\ writer[w].pc = "reclaim" /\ acked' = writer[w].head
        /\ writer \in [Writers -> WriterType]
    BY DEF Return, StoreIInv, SoundIInv, Types
  <1>2. /\ writer'[w] = IdleWriter /\ \A v \in Writers \ {w} : writer'[v] = writer[v]
    BY <1>1, Leaving
  <1>3. disk.heads = stable.heads
    BY <1>1, DrawnFacts DEF WriterTrue, HeadsTrue, Finishing
  <1>4. /\ writer[w].slot \in Slots /\ disk.heads[writer[w].slot] = writer[w].head
        /\ writer[w].head \in ValidHeads
    BY <1>1 DEF SoundIInv, SoundWriter, WithHead, AfterHead, Finishing
  <1>5. \E s \in Slots : Anchor(disk, stable, acked', s)
    <2>1. /\ acked'.sequence \in Int /\ \A s \in Slots : disk.heads[s].sequence \in Int
          /\ acked'.sequence <= disk.heads[writer[w].slot].sequence
      BY <1>1, <1>4, HeadKinds, SoundFacts
    <2> QED
      BY <1>3, <1>4, <2>1, NewestIsAnchor
  <1>6. SoundTrue(disk', stable', acked')
    BY <1>1, <1>5 DEF SoundIInv, SoundTrue
  <1>7. \A v \in Writers \ {w} : SoundWriter(disk', stable', writer'[v])
    BY <1>1, <1>2 DEF SoundIInv
  <1>8. SoundWriter(disk', stable', writer'[w])
    <2>1. writer'[w].pc = "idle" /\ ~writer'[w].fresh
      BY <1>2 DEF IdleWriter
    <2> QED
      BY <2>1, UnlockedSound DEF Held
  <1> QED
    BY <1>1, <1>6, <1>7, <1>8, SoundStep

\* A power loss keeps the anchor; of the other slot it keeps the old record,
\* or the one that was built on the anchor's.
LEMMA PowerLossKeepsSound ==
    ASSUME FsyncCoversEntry, StoreIInv, SoundIInv, PowerLoss PROVE SoundIInv'
  <1>1. /\ \A s \in Slots : disk'.heads[s] \in {disk.heads[s], stable.heads[s]}
        /\ disk'.repository \in {disk.repository, stable.repository}
        /\ disk'.heads = stable'.heads /\ UNCHANGED acked
        /\ writer' = [w \in Writers |-> IdleWriter]
    BY DEF PowerLoss
  <1>2. damaged' = {}
    BY DEF PowerLoss, SoundIInv
  <1>3. Survivors(disk', stable') \subseteq Survivors(disk, stable)
    BY <1>1 DEF Survivors, Slots
  <1>4. \A h \in Survivors(disk', stable') : h.repository = disk'.repository
    BY <1>1, <1>3 DEF SoundIInv, SoundTrue, StoreIInv, StoreTrue
  <1>5. PICK s \in Slots : Anchor(disk, stable, acked, s)
    BY DEF SoundIInv, SoundTrue
  <1>6. disk'.heads[s] = disk.heads[s] /\ acked'.sequence <= disk'.heads[s].sequence
    BY <1>1, <1>5 DEF Anchor
  <1>7. \E u \in Slots : Anchor(disk', stable', acked', u)
    <2>1. \A u \in Slots : disk'.heads[u].sequence \in Int
      BY <1>1, SoundFacts
    <2>2. acked'.sequence \in Int
      BY <1>1, HeadKinds DEF StoreIInv, Types, Heads
    <2> QED
      BY <1>1, <1>6, <2>1, <2>2, NewestIsAnchor
  <1>8. SoundTrue(disk', stable', acked')
    BY <1>1, <1>3, <1>4, <1>7 DEF SoundIInv, SoundTrue
  <1>9. ASSUME NEW w \in Writers PROVE SoundWriter(disk', stable', writer'[w])
    <2>1. writer'[w].pc = "idle" /\ ~writer'[w].fresh
      BY <1>1 DEF IdleWriter
    <2> QED
      BY <2>1, UnlockedSound DEF Held
  <1> QED
    BY <1>2, <1>8, <1>9 DEF SoundIInv

\* Whatever the medium may do later: a step in which it does not fail.
LEMMA StepKeepsSound ==
    ASSUME FsyncCoversEntry, ~Fault, StoreIInv, StoreIInv', SoundIInv, [Next]_vars PROVE SoundIInv'
  <1>1. CASE UNCHANGED <<disk, stable, damaged, acked, writer>>
    BY <1>1 DEF SoundIInv
  <1>2. CASE UNCHANGED vars
    BY <1>1, <1>2 DEF vars
  <1>3. ASSUME NEW w \in Writers, Write(w) PROVE SoundIInv'
    BY <1>3, EnterKeepsSound, ListKeepsSound, CreateKeepsSound, WriteKeepsSound, SyncRepositoryKeepsSound,
       TryLockKeepsSound, BeginKeepsSound, DiscardKeepsSound, SealKeepsSound, PromoteKeepsSound,
       SyncGenerationsKeepsSound, CommitKeepsSound, ReplaceKeepsSound, SyncControlsKeepsSound,
       ScanKeepsSound, ReclaimKeepsSound, ReturnKeepsSound DEF Write
  <1>4. ASSUME NEW w \in Writers, Stop(w) PROVE SoundIInv'
    BY <1>4, LeavingKeepsSound DEF Stop, Abandon
  <1>5. ASSUME NEW r \in Readers, Read(r) PROVE SoundIInv'
    <2>1. UNCHANGED <<disk, stable, damaged, acked, writer>>
      BY <1>5 DEF Read, ReadRepository, ReadHead, Validate, Close, Bystanders
    <2> QED
      BY <1>1, <2>1
  <1> QED
    BY <1>2, <1>3, <1>4, <1>5, CleanupFailsKeepsSound, PowerLossKeepsSound DEF Next

LEMMA InitSound ==
    ASSUME Init PROVE SoundIInv
  <1>1. /\ damaged = {} /\ stable = disk /\ acked = Missing
        /\ \A s \in Slots : disk.heads[s] = Missing
    BY DEF Init
  <1>2. Missing # Invalid /\ Missing.sequence = 0 /\ ~IsValid(Missing)
    BY HeadKinds DEF Missing, Invalid, HeadRecord
  <1>3. Survivors(disk, stable) = {}
    BY <1>1, <1>2 DEF Survivors, Slots
  <1>4. Anchor(disk, stable, acked, 0)
    BY <1>1, <1>2 DEF Anchor, Slots
  <1>5. SoundTrue(disk, stable, acked)
    BY <1>1, <1>2, <1>3, <1>4 DEF SoundTrue, Slots
  <1>6. ASSUME NEW w \in Writers PROVE SoundWriter(disk, stable, writer[w])
    <2>1. writer[w].pc = "idle" /\ ~writer[w].fresh
      BY DEF Init, IdleWriter
    <2> QED
      BY <2>1, UnlockedSound DEF Held
  <1> QED
    BY <1>1, <1>5, <1>6 DEF SoundIInv

\* The invariant of a store whose medium does not fail.
THEOREM SoundInductive == ASSUME NoFaults PROVE Spec => [](StoreIInv /\ SoundIInv)
  <1>1. Init => SoundIInv
    BY InitSound
  <1>2. StoreIInv /\ StoreIInv' /\ SoundIInv /\ [Next]_vars => SoundIInv'
    BY StepKeepsSound DEF NoFaults, Fault
  <1> QED
    BY <1>1, <1>2, StoreInductive, PTL DEF Spec

\* "replaces one of two checksummed head records only after the generation is
\* durable": with no media fault every valid head of the store names a whole
\* generation of its identity, besides all that StoreIsSafe says.
THEOREM StoreIsWhole == ASSUME NoFaults PROVE Spec => []StoreInv
  <1>1. StoreIInv /\ SoundIInv => HeadsNameWholeGenerations
    <2> SUFFICES ASSUME StoreIInv, SoundIInv, NEW s \in Slots, IsValid(disk.heads[s])
                 PROVE  Validates(disk.heads[s], disk.repository)
      BY DEF HeadsNameWholeGenerations
    <2>1. disk.heads[s] \in Survivors(disk, stable) /\ damaged = {}
      BY SoundFacts
    <2> QED
      BY <2>1 DEF Validates, StoreIInv, StoreTrue, SoundIInv, SoundTrue
  <1>2. Spec => [](StoreIInv /\ SoundIInv)
    BY SoundInductive
  <1>3. Spec => [](TypeOK /\ HeadsOutliveNothing /\ NoConflict /\ PrivateUntilPromoted /\ HeadsNameWholeGenerations)
    BY <1>1, <1>2, StoreIsSafe, PTL
  <1> QED
    BY <1>3, PTL DEF StoreInv

\* What a reader that runs alone resolves is the newest record on disk.
NewestIsCurrent ==
    \A s \in Slots : (\A u \in Slots : disk.heads[u].sequence <= disk.heads[s].sequence)
                     => Current = disk.heads[s]

LEMMA CurrentIsNewest == StoreIInv /\ SoundIInv => NewestIsCurrent
  <1> SUFFICES ASSUME StoreIInv, SoundIInv, NEW s \in Slots,
                      \A u \in Slots : disk.heads[u].sequence <= disk.heads[s].sequence
               PROVE  Current = disk.heads[s]
    BY DEF NewestIsCurrent
  <1> DEFINE newest == NewestOf(disk.heads, ValidSlots(disk.heads))
  <1>1. disk.heads \in [Slots -> Heads]
    BY DEF StoreIInv, Types, StoreType
  <1>2. Resolve(disk.repository) = newest
    BY ResolvesTheNewest
  <1>3. /\ newest \in ValidSlots(disk.heads) \cup {NoSlot}
        /\ newest = NoSlot <=> ValidSlots(disk.heads) = {}
        /\ \A u \in ValidSlots(disk.heads) : disk.heads[u].sequence <= disk.heads[newest].sequence
    BY <1>1, NewestSlot DEF ValidSlots
  <1> HIDE DEF newest
  <1>4. CASE newest = NoSlot
    <2>1. ~IsValid(disk.heads[s])
      BY <1>3, <1>4 DEF ValidSlots
    <2> QED
      BY <1>2, <1>4, <2>1, SoundFacts DEF Current
  <1>5. CASE newest # NoSlot
    <2>1. newest \in Slots /\ IsValid(disk.heads[newest])
      BY <1>3, <1>5 DEF ValidSlots
    <2>2. disk.heads[newest].sequence <= disk.heads[s].sequence
      BY <2>1
    <2>3. disk.heads[newest].sequence \in Nat /\ disk.heads[s].sequence \in Nat
      BY <2>1, SoundFacts
    <2>4. IsValid(disk.heads[s])
      BY <2>1, <2>2, <2>3 DEF IsValid
    <2>5. disk.heads[s].sequence = disk.heads[newest].sequence
      BY <1>3, <2>2, <2>3, <2>4 DEF ValidSlots
    <2>6. disk.heads[s] = disk.heads[newest]
      BY <2>1, <2>4, <2>5, SoundFacts DEF StoreIInv, StoreTrue
    <2> QED
      BY <1>2, <1>5, <2>6 DEF Current
  <1> QED
    BY <1>4, <1>5

\* One of the two slots is the newest.
LEMMA SomeNewest ==
    ASSUME StoreIInv, SoundIInv
    PROVE  \E s \in Slots : /\ Current = disk.heads[s]
                            /\ \A u \in Slots : disk.heads[u].sequence <= disk.heads[s].sequence
  <1>1. disk.heads[0].sequence \in Nat /\ disk.heads[1].sequence \in Nat
    BY SoundFacts DEF Slots
  <1>2. \E s \in Slots : \A u \in Slots : disk.heads[u].sequence <= disk.heads[s].sequence
    <2>1. CASE disk.heads[0].sequence <= disk.heads[1].sequence
      BY <1>1, <2>1 DEF Slots
    <2>2. CASE disk.heads[1].sequence <= disk.heads[0].sequence
      BY <1>1, <2>2 DEF Slots
    <2> QED
      BY <1>1, <2>1, <2>2
  <1> QED
    BY <1>2, CurrentIsNewest DEF NewestIsCurrent

\* What a caller was told is published stays published through every process
\* that ends and every power loss, or has been replaced by something newer.
THEOREM AcknowledgedIsKept == ASSUME NoFaults PROVE Spec => []AckedSurvives
  <1>1. ASSUME StoreIInv, SoundIInv PROVE AckedSurvives
    <2>1. PICK s \in Slots : Anchor(disk, stable, acked, s)
      BY <1>1 DEF SoundIInv, SoundTrue
    <2>2. PICK k \in Slots : /\ Current = disk.heads[k]
                             /\ \A u \in Slots : disk.heads[u].sequence <= disk.heads[k].sequence
      BY <1>1, SomeNewest
    <2>3. /\ disk.heads[s].sequence \in Nat /\ disk.heads[k].sequence \in Nat /\ acked.sequence \in Int
          /\ acked.sequence <= disk.heads[s].sequence
      BY <1>1, <2>1, SoundFacts, HeadKinds DEF Anchor, StoreIInv, Types, Heads
    <2>4. disk.heads[s].sequence <= disk.heads[k].sequence
      BY <2>2
    <2> QED
      BY <2>2, <2>3, <2>4 DEF AckedSurvives
  <1>2. StoreIInv /\ SoundIInv => AckedSurvives
    BY <1>1
  <1>3. Spec => [](StoreIInv /\ SoundIInv)
    BY SoundInductive
  <1> QED
    BY <1>2, <1>3, PTL

\* Which steps write head records, and which acknowledges.
LEMMA OnlyReplaceWrites ==
    ASSUME StoreIInv, NEW w \in Writers, Write(w), ~ReplaceHead(w) PROVE disk'.heads = disk.heads
  <1>1. disk \in StoreType
    BY DEF StoreIInv, Types
  <1>2. CASE CreateRepository(w)
    BY <1>1, <1>2 DEF CreateRepository, StoreType
  <1>3. CASE WriteRepository(w)
    BY <1>1, <1>3 DEF WriteRepository, StoreType
  <1>4. CASE TryLock(w)
    BY <1>1, <1>4 DEF TryLock, StoreType
  <1>5. CASE Promote(w)
    BY <1>1, <1>5 DEF Promote, StoreType
  <1>6. CASE CommitRepository(w)
    BY <1>1, <1>6 DEF CommitRepository, StoreType
  <1>7. CASE Reclaim(w)
    BY <1>1, <1>7 DEF Reclaim, StoreType
  <1>8. CASE (\E mode \in Modes : Enter(w, mode)) \/ ListEntries(w) \/ SyncRepository(w)
             \/ BeginGeneration(w) \/ Discard(w) \/ Seal(w) \/ SyncGenerations(w)
             \/ SyncControls(w) \/ ScanForCleanup(w) \/ Return(w)
    BY <1>8 DEF Enter, ListEntries, SyncRepository, BeginGeneration, Discard, Seal,
                SyncGenerations, SyncControls, ScanForCleanup, Return
  <1> QED
    BY <1>2, <1>3, <1>4, <1>5, <1>6, <1>7, <1>8 DEF Write

LEMMA WhoWritesHeads ==
    ASSUME StoreIInv, Next, ~Fault, ~PowerLoss
    PROVE  /\ disk'.heads = disk.heads \/ \E w \in Writers : ReplaceHead(w)
           /\ acked' = acked \/ \E w \in Writers : Return(w)
  <1>1. ASSUME NEW w \in Writers, Write(w), ~Return(w) PROVE acked' = acked
    BY <1>1 DEF Write, Enter, ListEntries, CreateRepository, WriteRepository, SyncRepository, TryLock,
                BeginGeneration, Discard, Seal, Promote, SyncGenerations, CommitRepository,
                ReplaceHead, SyncControls, ScanForCleanup, Reclaim, Bystanders
  <1>2. ASSUME NEW w \in Writers, Stop(w) \/ CleanupFails(w)
        PROVE  disk'.heads = disk.heads /\ UNCHANGED acked
    <2>1. disk \in StoreType
      BY DEF StoreIInv, Types
    <2> QED
      BY <1>2, <2>1 DEF Stop, CleanupFails, ScanFails, RemovalFails, StoreType
  <1>3. ASSUME NEW r \in Readers, Read(r) PROVE UNCHANGED <<disk, acked>>
    BY <1>3 DEF Read, ReadRepository, ReadHead, Validate, Close, Bystanders
  <1> QED
    BY <1>1, <1>2, <1>3, OnlyReplaceWrites DEF Next

\* When a publication is acknowledged whose cleanup had nothing to warn of,
\* the population is what the heads name, and nothing of processes that ended
\* or of earlier cleanups that failed is left.
THEOREM StorageIsBounded == ASSUME NoFaults PROVE Spec => PopulationBounded
  <1> DEFINE Bounded ==
        acked' # acked /\ (\A w \in Writers : ~writer[w].warned)
           => /\ staging' = {}
              /\ disk'.generations = {disk'.heads[s].generation : s \in ValidSlots(disk'.heads)}
  <1>1. StoreIInv /\ SoundIInv /\ [Next]_vars => [Bounded]_vars
    <2> SUFFICES ASSUME StoreIInv, SoundIInv, Next, acked' # acked,
                        \A w \in Writers : ~writer[w].warned
                 PROVE  Bounded
      BY DEF vars
    <2>1. ~Fault /\ ~PowerLoss
      BY DEF Fault, PowerLoss
    <2>2. PICK w \in Writers : Return(w)
      BY <2>1, WhoWritesHeads
    <2>3. /\ writer[w].pc = "reclaim" /\ disk.generations \subseteq writer[w].retain
          /\ staging \subseteq writer[w].left /\ UNCHANGED <<disk, staging>>
      BY <2>2 DEF Return
    <2>4. /\ writer[w].retain = {disk.heads[s].generation : s \in ValidSlots(disk.heads)}
          /\ writer[w].left = {}
      BY <2>3 DEF SoundIInv, SoundWriter
    <2>5. \A s \in ValidSlots(disk.heads) : disk.heads[s].generation \in disk.generations
      BY SoundFacts DEF ValidSlots, StoreIInv, StoreTrue
    <2>6. disk.generations = {disk.heads[s].generation : s \in ValidSlots(disk.heads)}
      BY <2>3, <2>4, <2>5
    <2> QED
      BY <2>3, <2>4, <2>6
  <1>2. Spec => [](StoreIInv /\ SoundIInv)
    BY SoundInductive
  <1>3. Spec => [][Bounded]_vars
    BY <1>1, <1>2, PTL DEF Spec
  <1> QED
    BY <1>3, PTL DEF PopulationBounded

-----------------------------------------------------------------------------
(* The store implements the log of generations.                            *)

LEMMA FrontOfAppend ==
    ASSUME NEW S, NEW s \in Seq(S), NEW e \in S
    PROVE  SubSeq(Append(s, e), 1, Len(Append(s, e)) - 1) = s
  <1> DEFINE a == Append(s, e)
  <1>1. /\ a \in Seq(S) /\ Len(a) = Len(s) + 1 /\ Len(s) \in Nat
        /\ \A i \in 1..Len(s) : a[i] = s[i]
    BY AppendProperties, LenProperties
  <1> HIDE DEF a
  <1>2. SubSeq(a, 1, Len(a) - 1) = [i \in 1..Len(s) |-> a[i]]
    BY <1>1, SubSeqProperties, SMTT(30)
  <1>3. s = [i \in 1..Len(s) |-> s[i]]
    BY SeqDef, LenProperties
  <1> QED
    BY <1>1, <1>2, <1>3 DEF a

\* A record that replaces another one's slot is the next publication.
LEMMA ReplacePublishes ==
    ASSUME StoreIInv, SoundIInv, SoundIInv', NewestIsCurrent, NewestIsCurrent',
           NEW w \in Writers, ReplaceHead(w)
    PROVE  \/ \E content \in Contents :
                 Current'.generation.contents = Append(Current.generation.contents, content)
           \/ Current' = Current
  <1> DEFINE x == writer[w]
             slot == IF x.pc = "head" THEN x.slot ELSE 1 - x.slot
  <1>1. /\ disk \in StoreType /\ x.pc \in {"head", "secondHead"}
        /\ SoundWriter(disk, stable, x) /\ WriterTrue(disk, stable, x)
        /\ disk' = [disk EXCEPT !.heads[slot] = x.head]
    BY DEF ReplaceHead, StoreIInv, SoundIInv, Types
  <1>2. /\ x.head \in ValidHeads /\ x.slot \in Slots
        /\ \A h \in Survivors(disk, stable) : h.sequence < x.head.sequence \/ h = x.head
    BY <1>1 DEF WriterTrue, HeadsTrue, WithHead, AfterHead
  <1>3. slot \in Slots /\ 1 - slot \in Slots /\ \A u \in Slots : u = slot \/ u = 1 - slot
    BY <1>2 DEF Slots
  <1>4. /\ x.pc = "head" => slot = x.slot
        /\ x.pc = "secondHead" => 1 - slot = x.slot
    BY <1>1, <1>2 DEF Slots
  <1> HIDE DEF slot
  <1>5. disk'.heads = [disk.heads EXCEPT ![slot] = x.head] /\ disk.heads \in [Slots -> Heads]
    BY <1>1 DEF StoreType
  <1>6. ASSUME NEW u \in Slots
        PROVE  disk.heads[u].sequence \in Nat /\ disk.heads[u].sequence <= x.head.sequence
               /\ x.head.sequence \in Nat
    <2>1. disk.heads[u].sequence \in Nat /\ x.head.sequence \in Nat
      BY <1>2, SoundFacts, HeadKinds
    <2>2. CASE IsValid(disk.heads[u])
      BY <1>2, <2>1, <2>2, SoundFacts
    <2>3. CASE ~IsValid(disk.heads[u])
      BY <2>1, <2>3 DEF IsValid
    <2> QED
      BY <2>1, <2>2, <2>3
  <1>7. \A u \in Slots : disk'.heads[u].sequence <= disk'.heads[slot].sequence
    BY <1>3, <1>5, <1>6
  <1>8. Current' = x.head
    BY <1>3, <1>5, <1>7 DEF NewestIsCurrent
  <1>9. CASE x.pc = "head"
    <2>1. /\ Child(x.head, disk.heads[1 - slot])
          /\ \A u \in Slots : disk.heads[u].sequence <= disk.heads[1 - slot].sequence
      BY <1>1, <1>4, <1>9 DEF SoundWriter, BeforeHead, WithHead
    <2>2. Current = disk.heads[1 - slot]
      BY <1>3, <2>1 DEF NewestIsCurrent
    <2> QED
      BY <1>8, <2>1, <2>2 DEF Child
  <1>10. CASE x.pc = "secondHead"
    <2>1. disk.heads[1 - slot] = x.head
      BY <1>1, <1>4, <1>10 DEF SoundWriter, AfterHead
    <2>2. Current = disk.heads[1 - slot]
      BY <1>3, <1>6, <2>1 DEF NewestIsCurrent
    <2> QED
      BY <1>8, <2>1, <2>2
  <1> QED
    BY <1>1, <1>9, <1>10

\* A power loss leaves the newest record or the one it was built on, and that
\* only if nobody was told about the newest.
LEMMA PowerLossLoses ==
    ASSUME StoreIInv, SoundIInv, SoundIInv', NewestIsCurrent, NewestIsCurrent', PowerLoss
    PROVE  \/ Current' = Current
           \/ /\ \E content \in Contents :
                    Current.generation.contents = Append(Current'.generation.contents, content)
              /\ Current'.generation.contents \in Seq(Contents)
              /\ acked.sequence < Len(Current.generation.contents)
  <1>1. PICK s \in Slots : Anchor(disk, stable, acked, s)
    BY DEF SoundIInv, SoundTrue
  <1>2. \A u \in Slots : disk'.heads[u] \in {disk.heads[u], stable.heads[u]}
    BY DEF PowerLoss
  <1>3. /\ disk'.heads[s] = disk.heads[s] /\ acked.sequence <= disk.heads[s].sequence
        /\ \A u \in Slots : stable.heads[u].sequence <= disk.heads[s].sequence
    BY <1>1, <1>2 DEF Anchor
  <1>4. /\ \A u \in Slots : disk.heads[u].sequence \in Nat /\ stable.heads[u].sequence \in Nat
        /\ \A u \in Slots : disk.heads[u].sequence = Len(disk.heads[u].generation.contents)
        /\ acked.sequence \in Int
    BY SoundFacts, HeadKinds DEF StoreIInv, Types, Heads
  <1>5. PICK k \in Slots : /\ Current = disk.heads[k]
                           /\ \A u \in Slots : disk.heads[u].sequence <= disk.heads[k].sequence
    BY SomeNewest
  <1>6. CASE disk'.heads[k] = disk.heads[k]
    <2>1. \A u \in Slots : disk'.heads[u].sequence <= disk'.heads[k].sequence
      <3>1. TAKE u \in Slots
      <3>2. stable.heads[u].sequence <= disk.heads[k].sequence
        BY <1>3, <1>4, <1>5
      <3> QED
        BY <1>2, <1>5, <1>6, <3>2
    <2> QED
      BY <1>5, <1>6, <2>1 DEF NewestIsCurrent
  <1>7. CASE disk'.heads[k] # disk.heads[k]
    <2>1. disk'.heads[k] = stable.heads[k] /\ disk.heads[k] # stable.heads[k] /\ k # s
      BY <1>2, <1>3, <1>7
    <2>2. \A u \in Slots : u = s \/ u = k
      BY <2>1 DEF Slots
    <2>3. \A u \in Slots : disk'.heads[u].sequence <= disk'.heads[s].sequence
      BY <1>3, <1>4, <2>1, <2>2
    <2>4. Current' = disk.heads[s]
      BY <1>3, <2>3 DEF NewestIsCurrent
    <2>5. disk.heads[k] = disk.heads[s] \/ Child(disk.heads[k], disk.heads[s])
      BY <1>1, <2>1 DEF Anchor
    <2>6. CASE Child(disk.heads[k], disk.heads[s])
      <3>1. disk.heads[s].generation.contents \in Seq(Contents)
        <4>1. \A h \in ValidHeads : h.generation.contents \in Seq(Contents)
          BY DEF ValidHeads, Generations
        <4>2. Missing.generation.contents \in Seq(Contents)
          BY EmptySeq DEF Missing, HeadRecord, NoGeneration
        <4> QED
          BY <4>1, <4>2, SoundFacts
      <3>2. PICK content \in Contents :
                disk.heads[k].generation.contents = Append(disk.heads[s].generation.contents, content)
        BY <2>6 DEF Child
      <3>3. disk.heads[k].sequence = disk.heads[s].sequence + 1
        BY <2>6 DEF Child
      <3>4. acked.sequence < disk.heads[k].sequence
        BY <1>3, <1>4, <3>3
      <3>5. acked.sequence < Len(Current.generation.contents)
        BY <1>4, <1>5, <3>4
      <3>6. Current.generation.contents = Append(Current'.generation.contents, content)
        BY <1>5, <2>4, <3>2
      <3> QED
        BY <2>4, <3>1, <3>5, <3>6
    <2> QED
      BY <1>5, <2>4, <2>5, <2>6
  <1> QED
    BY <1>6, <1>7

\* A store whose medium does not fail implements the log of generations: a
\* head record becomes visible as one publication, a return acknowledges the
\* newest one, a power loss takes back at most one that nobody was told of,
\* and every other step leaves the log as it is.
THEOREM StoreImplementsLog == ASSUME NoFaults PROVE Spec => ImplementsLog
  <1>1. Init => Log!LogInit
    <2> SUFFICES ASSUME Init PROVE Current.generation.contents = <<>> /\ acked.sequence = 0
      BY DEF Log!LogInit
    <2>1. StoreIInv /\ SoundIInv
      BY InitEstablishesInv, InitSound
    <2>2. \A s \in Slots : disk.heads[s] = Missing
      BY DEF Init
    <2> QED
      BY <2>1, <2>2, SomeNewest DEF Init, Missing, HeadRecord, NoGeneration
  <1>2. /\ StoreIInv /\ SoundIInv /\ NewestIsCurrent
        /\ StoreIInv' /\ SoundIInv' /\ NewestIsCurrent' /\ [Next]_vars
        => [Log!LogNext]_<<Current.generation.contents, acked.sequence>>
    <2> SUFFICES ASSUME StoreIInv, SoundIInv, NewestIsCurrent,
                        StoreIInv', SoundIInv', NewestIsCurrent', [Next]_vars
                 PROVE  \/ Log!Publish \/ Log!Acknowledge \/ Log!Lose
                        \/ Current'.generation.contents = Current.generation.contents
                           /\ acked'.sequence = acked.sequence
      BY DEF Log!LogNext
    <2>1. ASSUME disk'.heads = disk.heads PROVE Current' = Current
      <3>1. PICK s \in Slots : /\ Current = disk.heads[s]
                               /\ \A u \in Slots : disk.heads[u].sequence <= disk.heads[s].sequence
        BY SomeNewest
      <3> QED
        BY <2>1, <3>1 DEF NewestIsCurrent
    <2>2. CASE UNCHANGED vars
      BY <2>1, <2>2 DEF vars
    <2>3. CASE PowerLoss
      <3>1. acked' = acked
        BY <2>3 DEF PowerLoss
      <3>2. CASE Current' = Current
        BY <3>1, <3>2
      <3>3. CASE /\ \E content \in Contents :
                       Current.generation.contents = Append(Current'.generation.contents, content)
                 /\ Current'.generation.contents \in Seq(Contents)
                 /\ acked.sequence < Len(Current.generation.contents)
        <4>1. Current'.generation.contents =
                 SubSeq(Current.generation.contents, 1, Len(Current.generation.contents) - 1)
          BY <3>3, FrontOfAppend
        <4> QED
          BY <3>1, <3>3, <4>1 DEF Log!Lose, Log!Front
      <3> QED
        BY <2>3, <3>2, <3>3, PowerLossLoses
    <2>4. ASSUME NEW w \in Writers, ReplaceHead(w)
          PROVE  \/ Log!Publish
                 \/ Current'.generation.contents = Current.generation.contents
                    /\ acked'.sequence = acked.sequence
      <3>1. acked' = acked
        BY <2>4 DEF ReplaceHead, Bystanders
      <3> QED
        BY <2>4, <3>1, ReplacePublishes DEF Log!Publish
    <2>5. ASSUME NEW w \in Writers, Return(w) PROVE Log!Acknowledge
      <3>1. /\ writer[w].pc = "reclaim" /\ acked' = writer[w].head /\ disk' = disk
        BY <2>5 DEF Return
      <3>2. /\ writer[w].slot \in Slots /\ disk.heads[writer[w].slot] = writer[w].head
            /\ \A h \in Survivors(disk, stable) : h.sequence <= writer[w].head.sequence
            /\ writer[w].head \in ValidHeads
        BY <3>1 DEF SoundIInv, SoundWriter, WithHead, AfterHead, Finishing
      <3>3. \A u \in Slots : disk.heads[u].sequence <= disk.heads[writer[w].slot].sequence
        <4>1. TAKE u \in Slots
        <4>2. disk.heads[u].sequence \in Nat /\ disk.heads[writer[w].slot].sequence \in 1..MaxSequence
          BY <3>2, SoundFacts, HeadKinds
        <4>3. CASE IsValid(disk.heads[u])
          BY <3>2, <4>3, SoundFacts
        <4>4. CASE ~IsValid(disk.heads[u])
          BY <4>2, <4>4 DEF IsValid
        <4> QED
          BY <4>3, <4>4
      <3>4. Current = writer[w].head
        BY <3>2, <3>3 DEF NewestIsCurrent
      <3>5. acked'.sequence = Len(Current.generation.contents)
        BY <3>1, <3>2, <3>4, SoundFacts
      <3>6. Current' = Current
        BY <2>1, <3>1
      <3> QED
        BY <3>5, <3>6 DEF Log!Acknowledge
    <2>6. ~Fault
      BY DEF Fault, NoFaults
    <2>7. CASE Next /\ ~PowerLoss
      <3>1. /\ disk'.heads = disk.heads \/ \E w \in Writers : ReplaceHead(w)
            /\ acked' = acked \/ \E w \in Writers : Return(w)
        BY <2>6, <2>7, WhoWritesHeads
      <3> QED
        BY <2>1, <2>4, <2>5, <3>1
    <2> QED
      BY <2>2, <2>3, <2>7
  <1>3. Spec => [](StoreIInv /\ SoundIInv)
    BY SoundInductive
  <1>4. Spec => Log!LogInit /\ [][Log!LogNext]_<<Current.generation.contents, acked.sequence>>
    BY <1>1, <1>2, <1>3, CurrentIsNewest, PTL DEF Spec
  <1> QED
    BY <1>4 DEF ImplementsLog, Log!LogSpec
=============================================================================
