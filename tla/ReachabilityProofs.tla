------------------------ MODULE ReachabilityProofs ------------------------
(***************************************************************************)
(* Machine-checked proofs about the liveness classifier, for every finite  *)
(* symbol graph.                                                           *)
(***************************************************************************)
EXTENDS Reachability, FiniteSetTheorems, WellFoundedInduction, TLAPS

-----------------------------------------------------------------------------
(* Least numbers.  What a walk computes round by round is proved by its    *)
(* least counterexample.                                                   *)

LEMMA LeastNumber ==
    ASSUME NEW T \in SUBSET Nat, T # {}
    PROVE  \E x \in T : \A y \in T : x <= y
  <1> DEFINE R == OpToRel(<, Nat)
  <1>1. IsWellFoundedOn(R, Nat)
    BY NatLessThanWellFounded
  <1>2. \A x, y \in Nat : x < y => <<x, y>> \in R
    BY DEF OpToRel
  <1> HIDE DEF R
  <1>3. PICK x \in T : \A y \in T : ~ <<y, x>> \in R
    BY <1>1, WFMin
  <1>4. \A y \in T : x \in Nat /\ y \in Nat /\ ~ (y < x)
    BY <1>2, <1>3
  <1> QED
    BY <1>4

-----------------------------------------------------------------------------
(* Verdicts.                                                               *)

AllVerdicts == {"Wired", "PublicApi", "Structural", "TestOnly", "Dead", "Unclassified",
                "Suspected", "Excluded"}

LEMMA VerdictRanks ==
    /\ Range(Verdicts) = AllVerdicts
    /\ Rank("Wired") = 1 /\ Rank("PublicApi") = 2 /\ Rank("Structural") = 3
    /\ Rank("TestOnly") = 4 /\ Rank("Dead") = 5 /\ Rank("Unclassified") = 6
    /\ Rank("Suspected") = 7 /\ Rank("Excluded") = 8
  <1>1. DOMAIN Verdicts = 1..8
    BY DEF Verdicts
  <1>2. /\ Verdicts[1] = "Wired" /\ Verdicts[2] = "PublicApi" /\ Verdicts[3] = "Structural"
        /\ Verdicts[4] = "TestOnly" /\ Verdicts[5] = "Dead" /\ Verdicts[6] = "Unclassified"
        /\ Verdicts[7] = "Suspected" /\ Verdicts[8] = "Excluded"
    BY DEF Verdicts
  <1>3. \A i \in 1..8 : i = 1 \/ i = 2 \/ i = 3 \/ i = 4 \/ i = 5 \/ i = 6 \/ i = 7 \/ i = 8
    OBVIOUS
  <1>4. Range(Verdicts) = AllVerdicts
    BY <1>1, <1>2, <1>3 DEF Range, AllVerdicts
  <1>5. Rank("Wired") = 1 /\ Rank("PublicApi") = 2 /\ Rank("Structural") = 3
    BY <1>1, <1>2, <1>3 DEF Rank
  <1>6. Rank("TestOnly") = 4 /\ Rank("Dead") = 5 /\ Rank("Unclassified") = 6
    BY <1>1, <1>2, <1>3 DEF Rank
  <1>7. Rank("Suspected") = 7 /\ Rank("Excluded") = 8
    BY <1>1, <1>2, <1>3 DEF Rank
  <1> QED
    BY <1>4, <1>5, <1>6, <1>7

LEMMA RanksAreNaturals == \A c \in AllVerdicts : Rank(c) \in Nat
  BY VerdictRanks DEF AllVerdicts

(* MostAlive picks one of the verdicts, and none of them is more alive.    *)
LEMMA MostAliveIs ==
    ASSUME NEW cs \in SUBSET AllVerdicts, cs # {}
    PROVE  MostAlive(cs) \in cs /\ \A d \in cs : Rank(MostAlive(cs)) <= Rank(d)
  <1> DEFINE T == {Rank(c) : c \in cs}
  <1>1. T \in SUBSET Nat /\ T # {}
    BY RanksAreNaturals
  <1>2. PICK x \in T : \A y \in T : x <= y
    BY <1>1, LeastNumber
  <1>3. \E c \in cs : \A d \in cs : Rank(c) <= Rank(d)
    BY <1>2
  <1> QED
    BY <1>3 DEF MostAlive

-----------------------------------------------------------------------------
(* Walks.                                                                  *)

LEMMA NodesCount == Cardinality(Nodes) \in Nat
  BY GraphAssumption, FS_CardinalityType

(* What a walk computes: the rounds are well defined, because the first    *)
(* one that were not could be put on top of the one before it.             *)
LEMMA WalkRounds ==
    ASSUME NEW seeds, NEW intoTests
    PROVE  \E f : /\ f[0] = seeds \cap Classified
                  /\ \A i \in 1..Cardinality(Nodes) :
                        f[i] = f[i - 1] \cup Entered(f[i - 1], intoTests)
                  /\ Walk(seeds, intoTests) = f[Cardinality(Nodes)]
  <1> DEFINE last == Cardinality(Nodes)
             start == seeds \cap Classified
             Round(f, i) == IF i = 0 THEN start ELSE f[i - 1] \cup Entered(f[i - 1], intoTests)
             reach == CHOOSE f : f = [i \in 0..last |-> Round(f, i)]
             Bad == {m \in Nat : ~ \E f : f = [i \in 0..m |-> Round(f, i)]}
  <1>1. ASSUME Bad # {} PROVE FALSE
    <2> Bad \in SUBSET Nat
      OBVIOUS
    <2>1. PICK m \in Bad : \A k \in Bad : m <= k
      <3> HIDE DEF Bad
      <3> QED
        BY <1>1, LeastNumber
    <2>2. CASE m = 0
      <3> DEFINE f == [i \in 0..0 |-> start]
      <3>1. f = [i \in 0..m |-> Round(f, i)]
        BY <2>2
      <3> QED
        BY <3>1
    <2>3. CASE m # 0
      <3>1. m \in Nat /\ m - 1 \in Nat /\ m - 1 \notin Bad
        <4> HIDE DEF Bad
        <4> QED
          BY <2>1, <2>3
      <3>2. PICK g : g = [i \in 0..(m - 1) |-> Round(g, i)]
        BY <3>1
      <3> DEFINE f == [i \in 0..m |-> IF i = m THEN g[m - 1] \cup Entered(g[m - 1], intoTests)
                                              ELSE g[i]]
      <3>3. \A i \in 0..(m - 1) : f[i] = g[i] /\ g[i] = Round(g, i)
        <4>1. \A i \in 0..(m - 1) : g[i] = Round(g, i)
          BY <3>2
        <4>2. \A i \in 0..(m - 1) : i \in 0..m /\ i # m
          BY <3>1
        <4> HIDE DEF Round
        <4> QED
          BY <4>1, <4>2
      <3>4. ASSUME NEW i \in 0..m, i # m PROVE f[i] = Round(f, i)
        <4>1. i \in 0..(m - 1) /\ (i # 0 => i - 1 \in 0..(m - 1))
          BY <3>1, <3>4
        <4> HIDE DEF f
        <4> QED
          BY <3>3, <4>1
      <3>5. f[m] = Round(f, m)
        <4>1. m - 1 \in 0..(m - 1) /\ f[m] = g[m - 1] \cup Entered(g[m - 1], intoTests)
          BY <3>1
        <4> HIDE DEF f
        <4> QED
          BY <3>3, <4>1, <2>3
      <3>6. f = [i \in 0..m |-> f[i]]
        OBVIOUS
      <3>7. f = [i \in 0..m |-> Round(f, i)]
        <4> HIDE DEF f
        <4> QED
          BY <3>4, <3>5, <3>6
      <3> HIDE DEF f
      <3> QED
        BY <3>1, <3>7, <2>1
    <2> QED
      BY <2>2, <2>3
  <1>2. Walk(seeds, intoTests) = reach[last]
    BY DEF Walk
  <1>3. last \in Nat
    BY NodesCount
  <1> HIDE DEF last, start, reach
  <1>4. reach = [i \in 0..last |-> Round(reach, i)]
    BY <1>1, <1>3 DEF reach
  <1>5. \A i \in 0..last : reach[i] = Round(reach, i)
    BY <1>4
  <1>6. 0 \in 0..last /\ \A i \in 1..last : i \in 0..last /\ i # 0
    BY <1>3
  <1>7. /\ reach[0] = start
        /\ \A i \in 1..last : reach[i] = reach[i - 1] \cup Entered(reach[i - 1], intoTests)
    BY <1>5, <1>6
  <1> QED
    BY <1>2, <1>7 DEF last, start

(* A walk stays in every set that holds its seeds and that no use leaves.  *)
LEMMA WalkStaysWithin ==
    ASSUME NEW seeds, NEW intoTests, NEW S, seeds \cap Classified \subseteq S,
           \A s \in SUBSET S : Entered(s, intoTests) \subseteq S
    PROVE  Walk(seeds, intoTests) \subseteq S
  <1>1. PICK f : /\ f[0] = seeds \cap Classified
                 /\ \A i \in 1..Cardinality(Nodes) :
                       f[i] = f[i - 1] \cup Entered(f[i - 1], intoTests)
                 /\ Walk(seeds, intoTests) = f[Cardinality(Nodes)]
    BY WalkRounds
  <1> DEFINE Bad == {i \in 0..Cardinality(Nodes) : ~ (f[i] \subseteq S)}
  <1>2. ASSUME Bad # {} PROVE FALSE
    <2> Bad \in SUBSET Nat
      BY NodesCount
    <2>1. PICK i \in Bad : \A k \in Bad : i <= k
      <3> HIDE DEF Bad
      <3> QED
        BY <1>2, LeastNumber
    <2>2. i # 0
      BY <1>1, <2>1
    <2>3. i \in 1..Cardinality(Nodes) /\ i - 1 \notin Bad /\ i - 1 \in 0..Cardinality(Nodes)
      BY <2>1, <2>2, NodesCount
    <2>4. f[i - 1] \subseteq S /\ f[i] = f[i - 1] \cup Entered(f[i - 1], intoTests)
      BY <1>1, <2>3
    <2> QED
      BY <2>1, <2>4
  <1> QED
    BY <1>1, <1>2, NodesCount

LEMMA WalkInClassified ==
    ASSUME NEW seeds, NEW intoTests PROVE Walk(seeds, intoTests) \subseteq Classified
  <1>1. \A s \in SUBSET Classified : Entered(s, intoTests) \subseteq Classified
    BY DEF Entered
  <1> QED
    BY <1>1, WalkStaysWithin

(* After as many rounds as there are symbols a walk has reached everything *)
(* that is used from where it has been: each round before has added one.   *)
LEMMA WalkIsClosed ==
    ASSUME NEW seeds, NEW intoTests
    PROVE  /\ seeds \cap Classified \subseteq Walk(seeds, intoTests)
           /\ Entered(Walk(seeds, intoTests), intoTests) \subseteq Walk(seeds, intoTests)
  <1> DEFINE last == Cardinality(Nodes)
  <1>1. PICK f : /\ f[0] = seeds \cap Classified
                 /\ \A i \in 1..last : f[i] = f[i - 1] \cup Entered(f[i - 1], intoTests)
                 /\ Walk(seeds, intoTests) = f[last]
    BY WalkRounds
  <1> DEFINE Closed(i) == Entered(f[i], intoTests) \subseteq f[i]
             Good(i) == /\ f[i] \subseteq Nodes /\ seeds \cap Classified \subseteq f[i]
                        /\ Closed(i) \/ i <= Cardinality(f[i])
             Bad == {i \in 0..last : ~ Good(i)}
  <1>2. last \in Nat
    BY NodesCount
  <1>3. ASSUME Bad # {} PROVE FALSE
    <2> Bad \in SUBSET Nat
      BY <1>2
    <2>1. PICK i \in Bad : \A k \in Bad : i <= k
      <3> HIDE DEF Bad
      <3> QED
        BY <1>3, LeastNumber
    <2>2. Good(0)
      <3>1. f[0] \subseteq Nodes
        BY <1>1 DEF Classified
      <3>2. Cardinality(f[0]) \in Nat
        BY <3>1, GraphAssumption, FS_Subset, FS_CardinalityType
      <3> QED
        BY <1>1, <3>1, <3>2
    <2>3. i \in 1..last /\ i - 1 \in 0..last /\ Good(i - 1)
      <3> HIDE DEF Good
      <3> QED
        BY <1>2, <2>1, <2>2
    <2> DEFINE old == f[i - 1]
               new == f[i]
    <2>4. new = old \cup Entered(old, intoTests)
      BY <1>1, <2>3
    <2>5. new \subseteq Nodes /\ seeds \cap Classified \subseteq new
      BY <2>3, <2>4 DEF Entered, Classified
    <2>6. CASE Closed(i - 1)
      <3>1. new = old
        BY <2>4, <2>6
      <3> QED
        BY <2>1, <2>5, <2>6, <3>1
    <2>7. CASE ~ Closed(i - 1)
      <3>1. old \subseteq new /\ old # new
        BY <2>4, <2>7
      <3>2. IsFiniteSet(new) /\ IsFiniteSet(old)
        BY <2>3, <2>5, GraphAssumption, FS_Subset
      <3>3. Cardinality(old) < Cardinality(new) /\ Cardinality(old) \in Nat
        BY <3>1, <3>2, FS_Subset, FS_CardinalityType
      <3>4. i - 1 <= Cardinality(old) /\ Cardinality(new) \in Nat
        BY <2>3, <2>7, <3>2, FS_CardinalityType
      <3>5. i <= Cardinality(new)
        BY <2>3, <3>3, <3>4
      <3> QED
        BY <2>1, <2>5, <3>5
    <2> QED
      BY <2>6, <2>7
  <1>4. Good(last)
    BY <1>2, <1>3
  <1>5. CASE Closed(last)
    BY <1>1, <1>4, <1>5
  <1>6. CASE last <= Cardinality(f[last])
    <2>1. f[last] = Nodes
      <3>1. /\ Cardinality(f[last]) <= last
            /\ last = Cardinality(f[last]) => Nodes = f[last]
        BY <1>4, GraphAssumption, FS_Subset
      <3>2. Cardinality(f[last]) \in Nat
        BY <1>4, GraphAssumption, FS_Subset, FS_CardinalityType
      <3> QED
        BY <1>2, <1>6, <3>1, <3>2
    <2>2. Closed(last)
      BY <2>1 DEF Entered, Classified
    <2> QED
      BY <1>1, <1>4, <2>2
  <1> QED
    BY <1>4, <1>5, <1>6

-----------------------------------------------------------------------------
(* The inductive invariant.                                                *)

\* No use leads from a symbol that a walk has reached to one that a walk might
\* have reached as well and that is less alive: the second part of
\* ResidualIsUnreachable, which every pass up to the residual sweep keeps.
UsesFollow ==
    \A e \in Uses :
        /\ class[e[1]] \in Tiers
        /\ e[2] \in Classified
        /\ class[e[2]] = "Dead" \/ e[2] \in folded
        /\ e[2] \notin graph.test \/ class[e[1]] = "TestOnly"
        => Rank(class[e[2]]) <= Rank(class[e[1]])

\* The guard has nothing left to rescue.
NothingToRescue == \A n \in Nodes : class[n] = "Dead" /\ Callable(n) => RescueTiers(n) = {}

\* What the roll-up has lifted so far owns live code, no closed set of containers
\* leaves any of it out, and it has tiers its children can explain.
RollUpSound ==
    /\ Lifted \subseteq Owning(Lifted)
    /\ \A s \in SUBSET Candidates : Owning(s) \subseteq s => Lifted \subseteq s
    /\ \A n \in Lifted :
          /\ class[n] \in AliveChildren(n)
          /\ \A c \in ChildrenOf(n) : before[c] \in Alive => Rank(class[n]) <= Rank(before[c])

ReachIInv ==
    /\ ClassifierInv
    /\ pass \in {"rollup", "census"} => RollUpSound
    /\ \A n \in Nodes : class[n] # "Unclassified" => n \in Classified
    /\ pass \in {"verdict", "structural", "split"} => folded = {}
    /\ pass \in {"structural", "split", "guard", "abstraction", "residual"} => UsesFollow
    /\ pass \in {"abstraction", "residual"} => NothingToRescue

LEMMA UseEnds == ASSUME TypeOK PROVE Uses \subseteq Nodes \X Nodes
  BY GraphAssumption DEF TypeOK, Uses

LEMMA ClassIs == ASSUME TypeOK PROVE class \in [Nodes -> AllVerdicts]
  BY VerdictRanks DEF TypeOK

LEMMA ReachInit == Init => ReachIInv
  <1> SUFFICES ASSUME Init PROVE ReachIInv
    OBVIOUS
  <1>1. TypeOK
    BY VerdictRanks DEF Init, TypeOK, AllVerdicts
  <1> QED
    BY <1>1 DEF Init, ReachIInv, ClassifierInv, ContainersFollowTheirContents

(* What one use makes of the verdicts of the three walks.                  *)
LEMMA UseIsFollowed ==
    ASSUME NEW seeds, NEW intoTests, NEW e \in Uses,
           e[1] \in Walk(seeds, intoTests), e[2] \in Classified,
           intoTests \/ e[2] \notin graph.test
    PROVE  e[2] \in Walk(seeds, intoTests)
  BY WalkIsClosed DEF Entered

LEMMA VerdictStep == ASSUME ReachIInv, Verdict PROVE ReachIInv'
  <1> USE DEF Verdict
  <1> DEFINE wired == Walk(Entries, FALSE)
             public == Walk(PublicRoots, FALSE)
             test == Walk(TestFns, TRUE)
             new(n) == CASE n \notin Classified -> "Unclassified"
                         [] n \in wired -> "Wired"
                         [] n \in public \ wired -> "PublicApi"
                         [] n \in test \ (wired \cup public) -> "TestOnly"
                         [] OTHER -> "Dead"
  <1>1. class' = [n \in Nodes |-> new(n)]
    OBVIOUS
  <1>2. /\ TypeOK /\ Uses' = Uses /\ Classified' = Classified
        /\ folded = {} /\ folded' = {} /\ graph' = graph /\ pass' = "structural"
        /\ before' = before
    BY DEF ReachIInv, ClassifierInv, Uses, Classified
  <1> HIDE DEF Verdict
  <1>3. wired \subseteq Classified /\ public \subseteq Classified /\ test \subseteq Classified
    BY WalkInClassified
  <1>4. \A e \in Uses : e[2] \in Classified =>
            /\ e[1] \in wired /\ e[2] \notin graph.test => e[2] \in wired
            /\ e[1] \in public /\ e[2] \notin graph.test => e[2] \in public
            /\ e[1] \in test => e[2] \in test
    BY UseIsFollowed
  <1>5. \A n \in Nodes :
            /\ n \in Classified /\ n \in wired => new(n) = "Wired"
            /\ n \in Classified /\ n \in public => new(n) \in {"Wired", "PublicApi"}
            /\ n \in Classified /\ n \in test => new(n) \in Tiers
            /\ new(n) = "Wired" => n \in wired
            /\ new(n) = "PublicApi" => n \in public
            /\ new(n) = "TestOnly" => n \in test
            /\ new(n) \in AllVerdicts
            /\ new(n) # "Unclassified" => n \in Classified
    <2> HIDE DEF wired, public, test
    <2> SUFFICES ASSUME NEW n \in Nodes
                 PROVE  \/ n \notin Classified /\ new(n) = "Unclassified"
                        \/ n \in Classified /\ n \in wired /\ new(n) = "Wired"
                        \/ n \in Classified /\ n \in public \ wired /\ new(n) = "PublicApi"
                        \/ /\ n \in Classified /\ n \in test \ (wired \cup public)
                           /\ new(n) = "TestOnly"
                        \/ /\ n \in Classified /\ n \notin wired \cup public \cup test
                           /\ new(n) = "Dead"
      <3> HIDE DEF new
      <3> QED
        BY <1>3 DEF Tiers, AllVerdicts
    <2> QED
      BY <1>3
  <1> HIDE DEF new, wired, public, test
  <1>6. TypeOK'
    <2>1. \A n \in Nodes : new(n) \in Range(Verdicts)
      BY <1>5, VerdictRanks
    <2>2. class' \in [Nodes -> Range(Verdicts)]
      BY <1>1, <2>1
    <2> QED
      BY <1>2, <2>2 DEF TypeOK
  <1>7. \A n \in Nodes : class'[n] # "Unclassified" => n \in Classified'
    BY <1>1, <1>2, <1>5
  <1>8. UsesFollow'
    <2> SUFFICES ASSUME NEW e \in Uses, class'[e[1]] \in Tiers, e[2] \in Classified,
                        class'[e[2]] = "Dead",
                        e[2] \notin graph.test \/ class'[e[1]] = "TestOnly"
                 PROVE  FALSE
      BY <1>2 DEF UsesFollow
    <2>1. e[1] \in Nodes /\ e[2] \in Nodes
      BY <1>2, UseEnds
    <2>2. class'[e[1]] = new(e[1]) /\ class'[e[2]] = new(e[2])
      BY <1>1, <2>1
    <2>3. CASE class'[e[1]] = "Wired"
      BY <1>3, <1>4, <1>5, <2>1, <2>2, <2>3
    <2>4. CASE class'[e[1]] = "PublicApi"
      BY <1>3, <1>4, <1>5, <2>1, <2>2, <2>4
    <2>5. CASE class'[e[1]] = "TestOnly"
      BY <1>3, <1>4, <1>5, <2>1, <2>2, <2>5 DEF Tiers
    <2> QED
      BY <2>3, <2>4, <2>5 DEF Tiers
  <1> QED
    BY <1>2, <1>6, <1>7, <1>8 DEF ReachIInv, ClassifierInv, ContainersFollowTheirContents

(* A pass that only takes symbols from one verdict to one no walk gives.   *)
LEMMA RelabelIs ==
    ASSUME TypeOK, NEW changed, NEW c \in AllVerdicts, Relabel(changed, c)
    PROVE  /\ class' \in [Nodes -> AllVerdicts]
           /\ \A n \in Nodes : class'[n] = IF n \in changed THEN c ELSE class[n]
  BY ClassIs DEF Relabel

LEMMA UsesStillFollow ==
    ASSUME TypeOK, UsesFollow, graph' = graph, folded' = folded, class' \in [Nodes -> AllVerdicts],
           \A n \in Nodes : class'[n] = class[n] \/ class'[n] \notin Tiers \cup {"Dead"},
           \A n \in folded : class'[n] = class[n] \/ class[n] = "Dead"
    PROVE  UsesFollow'
  <1>1. Uses' = Uses /\ Classified' = Classified
    BY DEF Uses, Classified
  <1> SUFFICES ASSUME NEW e \in Uses, class'[e[1]] \in Tiers, e[2] \in Classified,
                      class'[e[2]] = "Dead" \/ e[2] \in folded,
                      e[2] \notin graph.test \/ class'[e[1]] = "TestOnly"
               PROVE  Rank(class'[e[2]]) <= Rank(class'[e[1]])
    BY <1>1 DEF UsesFollow
  <1>2. e[1] \in Nodes /\ e[2] \in Nodes
    BY UseEnds
  <1>3. class'[e[1]] = class[e[1]]
    BY <1>2
  <1>4. class[e[2]] # "Dead"
    BY <1>2, <1>3, VerdictRanks DEF UsesFollow, Tiers
  <1>5. class'[e[2]] = class[e[2]]
    BY <1>2, <1>4
  <1> QED
    BY <1>3, <1>5 DEF UsesFollow

LEMMA StructuralStep == ASSUME ReachIInv, Structural PROVE ReachIInv'
  <1> USE DEF Structural
  <1>1. TypeOK /\ UsesFollow /\ folded = {} /\ pass' = "split"
        /\ graph' = graph /\ folded' = folded /\ before' = before
    BY DEF ReachIInv, ClassifierInv
  <1>2. PICK changed : /\ Relabel(changed, "Structural")
                       /\ \A n \in changed : class[n] = "Dead" /\ n \in Nodes
    OBVIOUS
  <1>3. /\ class' \in [Nodes -> AllVerdicts]
        /\ \A n \in Nodes : class'[n] = IF n \in changed THEN "Structural" ELSE class[n]
    BY <1>1, <1>2, RelabelIs DEF AllVerdicts
  <1>4. UsesFollow'
    BY <1>1, <1>3, UsesStillFollow DEF Tiers
  <1>5. TypeOK'
    BY <1>1, <1>3, VerdictRanks DEF TypeOK
  <1>6. \A n \in Nodes : class'[n] # "Unclassified" => n \in Classified'
    BY <1>1, <1>2, <1>3 DEF ReachIInv, Classified
  <1> QED
    BY <1>1, <1>4, <1>5, <1>6 DEF ReachIInv, ClassifierInv, ContainersFollowTheirContents

LEMMA SplitStep == ASSUME ReachIInv, Split PROVE ReachIInv'
  <1> USE DEF Split
  <1>1. TypeOK /\ UsesFollow /\ folded = {} /\ pass' = "guard"
        /\ graph' = graph /\ folded' = folded /\ before' = before
    BY DEF ReachIInv, ClassifierInv
  <1>2. PICK changed : /\ Relabel(changed, "Suspected")
                       /\ \A n \in changed : n \in Classified
    BY DEF PublicRoots
  <1>3. /\ class' \in [Nodes -> AllVerdicts]
        /\ \A n \in Nodes : class'[n] = IF n \in changed THEN "Suspected" ELSE class[n]
    BY <1>1, <1>2, RelabelIs DEF AllVerdicts
  <1>4. UsesFollow'
    BY <1>1, <1>3, UsesStillFollow DEF Tiers
  <1>5. TypeOK'
    BY <1>1, <1>3, VerdictRanks DEF TypeOK
  <1>6. \A n \in Nodes : class'[n] # "Unclassified" => n \in Classified'
    BY <1>1, <1>2, <1>3 DEF ReachIInv, Classified
  <1> QED
    BY <1>1, <1>4, <1>5, <1>6 DEF ReachIInv, ClassifierInv, ContainersFollowTheirContents

-----------------------------------------------------------------------------
(* The guard.                                                              *)

\* The verdict after the rescues of a round, and the tiers it may fold a symbol
\* into.
After(rescued, n) == IF n \in DOMAIN rescued THEN rescued[n] ELSE class[n]
Anchors(rescued, t) == {n \in DOMAIN rescued : rescued[n] = t}
Reached(rescued, t) == Walk(Anchors(rescued, t), t = "TestOnly")
Folds(rescued, n) ==
    IF n \in DOMAIN rescued \/ After(rescued, n) = "Dead" \/ n \in folded
    THEN {t \in Tiers : n \in Reached(rescued, t)} ELSE {}

LEMMA GuardRoundIs ==
    ASSUME TypeOK, GuardRound
    PROVE  \E rescued \in Rescues :
              /\ class' = [n \in Nodes |-> MostAlive({After(rescued, n)} \cup Folds(rescued, n))]
              /\ folded' = folded \cup {n \in Nodes : class'[n] # class[n]}
              /\ pass' = IF class' = class THEN "abstraction" ELSE "guard"
              /\ pass = "guard" /\ graph' = graph /\ before' = before
  <1> PICK rescued \in Rescues :
          \E reached \in {ReachedFrom(rescued)} :
              LET after == [n \in Nodes |-> IF n \in DOMAIN rescued THEN rescued[n] ELSE class[n]]
                  folds(n) == IF n \in DOMAIN rescued \/ MayFold(n, after)
                              THEN {t \in Tiers : n \in reached[t]} ELSE {}
              IN  /\ class' = [n \in Nodes |-> MostAlive({after[n]} \cup folds(n))]
                  /\ folded' = folded \cup {n \in Nodes : class'[n] # class[n]}
    BY Zenon DEF GuardRound
  <1>1. PICK reached \in {ReachedFrom(rescued)} :
           LET after == [n \in Nodes |-> IF n \in DOMAIN rescued THEN rescued[n] ELSE class[n]]
               folds(n) == IF n \in DOMAIN rescued \/ MayFold(n, after)
                           THEN {t \in Tiers : n \in reached[t]} ELSE {}
           IN  /\ class' = [n \in Nodes |-> MostAlive({after[n]} \cup folds(n))]
               /\ folded' = folded \cup {n \in Nodes : class'[n] # class[n]}
    BY Zenon
  <1> DEFINE after == [n \in Nodes |-> IF n \in DOMAIN rescued THEN rescued[n] ELSE class[n]]
             folds(n) == IF n \in DOMAIN rescued \/ MayFold(n, after)
                         THEN {t \in Tiers : n \in reached[t]} ELSE {}
  <1>2. \A n \in Nodes : after[n] = After(rescued, n)
    BY DEF After
  <1>3. \A t \in Tiers : reached[t] = Reached(rescued, t)
    <2> reached = ReachedFrom(rescued)
      OBVIOUS
    <2>1. reached["Wired"] = Reached(rescued, "Wired")
      BY DEF ReachedFrom, Reached, Anchors
    <2>2. reached["PublicApi"] = Reached(rescued, "PublicApi")
      BY DEF ReachedFrom, Reached, Anchors
    <2>3. reached["TestOnly"] = Reached(rescued, "TestOnly")
      BY DEF ReachedFrom, Reached, Anchors
    <2> QED
      BY <2>1, <2>2, <2>3 DEF Tiers
  <1>4. class' = [n \in Nodes |-> MostAlive({after[n]} \cup folds(n))]
    BY <1>1
  <1> HIDE DEF after
  <1>5. \A n \in Nodes : folds(n) = Folds(rescued, n)
    BY <1>2, <1>3 DEF Folds, MayFold
  <1> HIDE DEF folds
  <1>6. class' = [n \in Nodes |-> MostAlive({After(rescued, n)} \cup Folds(rescued, n))]
    BY <1>2, <1>4, <1>5
  <1> QED
    BY <1>1, <1>6 DEF GuardRound

(* A round only lifts, and what it lifts it lifts to a tier.               *)
LEMMA RoundLifts ==
    ASSUME TypeOK, NEW rescued \in Rescues,
           class' = [n \in Nodes |-> MostAlive({After(rescued, n)} \cup Folds(rescued, n))]
    PROVE  /\ class' \in [Nodes -> AllVerdicts]
           /\ DOMAIN rescued = {n \in Nodes : /\ class[n] = "Dead" /\ Callable(n)
                                              /\ RescueTiers(n) # {}}
           /\ \A n \in DOMAIN rescued :
                 /\ class[n] = "Dead" /\ Callable(n) /\ n \in Nodes
                 /\ rescued[n] \in Tiers /\ rescued[n] \in RescueTiers(n)
           /\ \A n \in Nodes :
                 /\ Rank(class'[n]) <= Rank(class[n])
                 /\ \A t \in Folds(rescued, n) : Rank(class'[n]) <= Rank(t)
                 /\ class'[n] # class[n] =>
                       /\ class'[n] \in Tiers
                       /\ \/ n \in DOMAIN rescued /\ class'[n] = rescued[n]
                          \/ class'[n] \in Folds(rescued, n)
                 /\ n \in DOMAIN rescued => class'[n] # "Dead"
  <1>1. /\ DOMAIN rescued = {n \in Nodes : /\ class[n] = "Dead" /\ Callable(n)
                                           /\ RescueTiers(n) # {}}
        /\ \A n \in DOMAIN rescued :
              /\ class[n] = "Dead" /\ Callable(n) /\ n \in Nodes
              /\ rescued[n] \in Tiers /\ rescued[n] \in RescueTiers(n)
    BY DEF Rescues
  <1> SUFFICES ASSUME NEW n \in Nodes
               PROVE  /\ class'[n] \in AllVerdicts
                      /\ Rank(class'[n]) <= Rank(class[n])
                      /\ \A t \in Folds(rescued, n) : Rank(class'[n]) <= Rank(t)
                      /\ class'[n] # class[n] =>
                            /\ class'[n] \in Tiers
                            /\ \/ n \in DOMAIN rescued /\ class'[n] = rescued[n]
                               \/ class'[n] \in Folds(rescued, n)
                      /\ n \in DOMAIN rescued => class'[n] # "Dead"
    BY <1>1
  <1> DEFINE cs == {After(rescued, n)} \cup Folds(rescued, n)
  <1>2. class[n] \in AllVerdicts
    BY ClassIs
  <1>3. Folds(rescued, n) \subseteq Tiers /\ Tiers \subseteq AllVerdicts
    BY DEF Folds, Tiers, AllVerdicts
  <1>4. /\ After(rescued, n) \in AllVerdicts
        /\ After(rescued, n) = class[n]
           \/ (n \in DOMAIN rescued /\ After(rescued, n) = rescued[n] /\ rescued[n] \in Tiers
               /\ class[n] = "Dead")
        /\ n \in DOMAIN rescued => After(rescued, n) = rescued[n]
    BY <1>1, <1>2, <1>3 DEF After
  <1>5. cs \in SUBSET AllVerdicts /\ cs # {}
    BY <1>3, <1>4
  <1>6. class'[n] = MostAlive(cs)
    OBVIOUS
  <1> HIDE DEF cs
  <1>7. class'[n] \in cs /\ \A d \in cs : Rank(class'[n]) <= Rank(d)
    BY <1>5, <1>6, MostAliveIs
  <1>8. \A t \in Tiers : Rank(t) <= 4
    BY VerdictRanks DEF Tiers
  <1>9. /\ After(rescued, n) \in cs
        /\ \A t \in Folds(rescued, n) : t \in cs
        /\ class'[n] = After(rescued, n) \/ class'[n] \in Folds(rescued, n)
    BY <1>7 DEF cs
  <1>10. class'[n] \in AllVerdicts /\ Rank(class'[n]) \in Nat /\ Rank(class[n]) \in Nat
    BY <1>2, <1>5, <1>7, RanksAreNaturals
  <1>11. Rank(class'[n]) <= Rank(class[n])
    <2>1. CASE After(rescued, n) = class[n]
      BY <1>7, <1>9, <2>1
    <2>2. CASE rescued[n] \in Tiers /\ class[n] = "Dead" /\ After(rescued, n) = rescued[n]
      <3>1. Rank(class'[n]) <= Rank(rescued[n]) /\ Rank(rescued[n]) \in Nat
        BY <1>3, <1>7, <1>9, <2>2, RanksAreNaturals
      <3> QED
        BY <1>8, <1>10, <2>2, <3>1, VerdictRanks
    <2> QED
      BY <1>4, <2>1, <2>2
  <1>12. class'[n] # class[n] =>
            /\ class'[n] \in Tiers
            /\ \/ n \in DOMAIN rescued /\ class'[n] = rescued[n]
               \/ class'[n] \in Folds(rescued, n)
    BY <1>3, <1>4, <1>9
  <1>13. n \in DOMAIN rescued => class'[n] # "Dead"
    BY <1>3, <1>4, <1>9, <1>1 DEF Tiers
  <1> QED
    BY <1>7, <1>9, <1>10, <1>11, <1>12, <1>13

\* What a parent lets its methods be rescued to.
Owners(p) == {s \in ParentsOf(p) : KindOf[s] = "struct"}
Through(p) == CASE KindOf[p] = "trait" -> ReachedTier({p})
                [] KindOf[p] = "impl" -> FirstReached(TraitsOf(p), Owners(p))
                [] KindOf[p] = "struct" -> FirstReached({p}, TraitsOf(p))
                [] OTHER -> {}

LEMMA RescueTiersAre ==
    ASSUME NEW n \in Nodes
    PROVE  RescueTiers(n) = UNION {{Cap(t, n \in graph.test \/ p \in graph.test) : t \in Through(p)} :
                                      p \in ParentsOf(n)}
  BY DEF RescueTiers, Through, Owners

(* A rescue depends on the verdicts on traits and types alone.             *)
LEMMA RescuesAreOfTypes ==
    ASSUME graph' = graph, NEW n \in Nodes,
           \A m \in Nodes : KindOf[m] \notin {"function", "impl"} => class'[m] = class[m]
    PROVE  RescueTiers(n)' = RescueTiers(n)
  <1> DEFINE OfTypes == {m \in Nodes : KindOf[m] \notin {"function", "impl"}}
  <1>1. \A ns \in SUBSET OfTypes : ReachedTier(ns)' = ReachedTier(ns)
    <2> SUFFICES ASSUME NEW ns \in SUBSET OfTypes PROVE ReachedTier(ns)' = ReachedTier(ns)
      OBVIOUS
    <2>1. \A m \in ns : class'[m] = class[m]
      OBVIOUS
    <2> QED
      BY <2>1 DEF ReachedTier
  <1>2. \A a, b \in SUBSET OfTypes : FirstReached(a, b)' = FirstReached(a, b)
    BY <1>1 DEF FirstReached
  <1>3. ASSUME NEW p \in Nodes PROVE Through(p)' = Through(p)
    <2>1. Owners(p) \in SUBSET OfTypes
      BY DEF Owners, ParentsOf
    <2>2. CASE KindOf[p] = "trait"
      <3>1. {p} \in SUBSET OfTypes
        BY <2>2
      <3> QED
        BY <1>1, <2>2, <3>1 DEF Through
    <2>3. CASE KindOf[p] = "impl"
      <3>1. TraitsOf(p) \in SUBSET OfTypes
        BY <2>3, GraphAssumption DEF TraitsOf
      <3>2. FirstReached(TraitsOf(p), Owners(p))' = FirstReached(TraitsOf(p), Owners(p))
        BY <1>2, <2>1, <3>1 DEF TraitsOf, Owners, ParentsOf
      <3> QED
        BY <2>3, <3>2 DEF Through
    <2>4. CASE KindOf[p] = "struct"
      <3>1. {p} \in SUBSET OfTypes /\ TraitsOf(p) \in SUBSET OfTypes
        BY <2>4, GraphAssumption DEF TraitsOf
      <3>2. FirstReached({p}, TraitsOf(p))' = FirstReached({p}, TraitsOf(p))
        BY <1>2, <3>1 DEF TraitsOf
      <3> QED
        BY <2>4, <3>2 DEF Through
    <2>5. CASE KindOf[p] \notin {"trait", "impl", "struct"}
      BY <2>5 DEF Through
    <2> QED
      BY <2>2, <2>3, <2>4, <2>5
  <1>4. RescueTiers(n)' = UNION {{Cap(t, n \in graph.test \/ p \in graph.test) : t \in Through(p)'} :
                                    p \in ParentsOf(n)}
    BY DEF RescueTiers, Through, Owners, ParentsOf
  <1>5. ParentsOf(n) \subseteq Nodes
    BY DEF ParentsOf
  <1> HIDE DEF OfTypes
  <1> QED
    BY <1>3, <1>4, <1>5, RescueTiersAre

LEMMA GuardStep == ASSUME ReachIInv, GuardRound PROVE ReachIInv'
  <1>1. TypeOK /\ UsesFollow /\ pass = "guard"
        /\ \A n \in Nodes : class[n] # "Unclassified" => n \in Classified
    BY DEF ReachIInv, ClassifierInv, GuardRound
  <1>2. PICK rescued \in Rescues :
           /\ class' = [n \in Nodes |-> MostAlive({After(rescued, n)} \cup Folds(rescued, n))]
           /\ folded' = folded \cup {n \in Nodes : class'[n] # class[n]}
           /\ pass' = IF class' = class THEN "abstraction" ELSE "guard"
           /\ graph' = graph /\ before' = before
    BY <1>1, GuardRoundIs
  <1>3. /\ class' \in [Nodes -> AllVerdicts]
        /\ DOMAIN rescued = {n \in Nodes : /\ class[n] = "Dead" /\ Callable(n)
                                           /\ RescueTiers(n) # {}}
        /\ \A n \in DOMAIN rescued : class[n] = "Dead" /\ n \in Nodes /\ rescued[n] \in Tiers
    BY <1>1, <1>2, RoundLifts
  <1>4. \A n \in Nodes :
           /\ Rank(class'[n]) <= Rank(class[n])
           /\ \A t \in Folds(rescued, n) : Rank(class'[n]) <= Rank(t)
           /\ class'[n] # class[n] =>
                 \/ n \in DOMAIN rescued /\ class'[n] = rescued[n]
                 \/ class'[n] \in Folds(rescued, n)
           /\ n \in DOMAIN rescued => class'[n] # "Dead"
    BY <1>1, <1>2, RoundLifts
  <1>5. class \in [Nodes -> AllVerdicts]
    BY <1>1, ClassIs
  <1>6. Uses' = Uses /\ Classified' = Classified
    BY <1>2 DEF Uses, Classified
  <1>7. TypeOK'
    BY <1>1, <1>2, <1>3, VerdictRanks DEF TypeOK
  <1>8. \A n \in Nodes : class'[n] # "Unclassified" => n \in Classified'
    <2> SUFFICES ASSUME NEW n \in Nodes, class[n] = "Unclassified", class'[n] # class[n]
                 PROVE  n \in Classified
      BY <1>1, <1>6
    <2>1. n \in DOMAIN rescued \/ \E t \in Tiers : n \in Reached(rescued, t)
      BY <1>4 DEF Folds
    <2> QED
      BY <2>1, <1>3, WalkInClassified DEF Reached
  <1>9. UsesFollow'
    <2> SUFFICES ASSUME NEW e \in Uses, class'[e[1]] \in Tiers, e[2] \in Classified,
                        class'[e[2]] = "Dead" \/ e[2] \in folded',
                        e[2] \notin graph.test \/ class'[e[1]] = "TestOnly"
                 PROVE  Rank(class'[e[2]]) <= Rank(class'[e[1]])
      BY <1>2, <1>6 DEF UsesFollow
    <2> DEFINE user == e[1]
               used == e[2]
    <2>1. user \in Nodes /\ used \in Nodes
      BY <1>1, UseEnds
    <2>2. Rank(class'[used]) \in Nat /\ Rank(class[used]) \in Nat /\ Rank(class'[user]) \in Nat
      BY <1>3, <1>5, <2>1, RanksAreNaturals
    <2>3. CASE class'[user] = class[user] /\ (class[used] = "Dead" \/ used \in folded)
      <3>1. Rank(class[used]) <= Rank(class[user])
        BY <1>1, <2>3 DEF UsesFollow
      <3> QED
        BY <1>4, <2>1, <2>2, <2>3, <3>1
    <2>4. ASSUME class[used] # "Dead", used \notin folded PROVE FALSE
      <3>1. After(rescued, used) # "Dead" /\ used \notin DOMAIN rescued
        BY <1>3, <2>4 DEF After
      <3>2. Folds(rescued, used) = {}
        BY <2>4, <3>1 DEF Folds
      <3>3. class'[used] = class[used]
        BY <1>4, <2>1, <3>1, <3>2
      <3> QED
        BY <1>2, <2>4, <3>3
    <2>5. CASE class'[user] # class[user] /\ (class[used] = "Dead" \/ used \in folded)
      <3> DEFINE t == class'[user]
      <3>1. user \in Reached(rescued, t)
        <4>1. CASE user \in DOMAIN rescued /\ t = rescued[user]
          <5>1. user \in Anchors(rescued, t) /\ user \in Classified
            BY <1>1, <1>3, <2>1, <4>1 DEF Anchors
          <5> QED
            BY <5>1, WalkIsClosed DEF Reached
        <4>2. CASE t \in Folds(rescued, user)
          BY <4>2 DEF Folds
        <4> QED
          BY <1>4, <2>1, <2>5, <4>1, <4>2
      <3>2. used \in Reached(rescued, t)
        BY <3>1, UseIsFollowed DEF Reached
      <3>3. used \in DOMAIN rescued \/ After(rescued, used) = "Dead" \/ used \in folded
        BY <2>5 DEF After
      <3>4. t \in Folds(rescued, used)
        BY <3>2, <3>3 DEF Folds
      <3> QED
        BY <1>4, <2>1, <3>4
    <2> QED
      BY <2>3, <2>4, <2>5
  <1>10. pass' = "abstraction" => NothingToRescue'
    <2> SUFFICES ASSUME pass' = "abstraction" PROVE NothingToRescue'
      OBVIOUS
    <2>1. class' = class
      BY <1>2
    <2>2. \A n \in Nodes : RescueTiers(n)' = RescueTiers(n)
      BY <1>2, <2>1, RescuesAreOfTypes
    <2>3. DOMAIN rescued = {}
      BY <1>3, <1>4, <2>1
    <2> QED
      BY <1>3, <2>1, <2>2, <2>3 DEF NothingToRescue
  <1>11. pass' \in {"guard", "abstraction"}
    BY <1>2
  <1> QED
    BY <1>7, <1>8, <1>9, <1>10, <1>11 DEF ReachIInv, ClassifierInv, ContainersFollowTheirContents

-----------------------------------------------------------------------------
(* The passes after it.                                                    *)

LEMMA AbstractionStep == ASSUME ReachIInv, DeadAbstraction PROVE ReachIInv'
  <1> USE DEF DeadAbstraction
  <1>1. TypeOK /\ UsesFollow /\ NothingToRescue /\ pass' = "residual"
        /\ graph' = graph /\ folded' = folded /\ before' = before
    BY DEF ReachIInv, ClassifierInv
  <1>2. PICK changed : /\ Relabel(changed, "Structural")
                       /\ \A n \in changed : /\ class[n] = "Dead" /\ n \in Nodes
                                             /\ KindOf[n] \in {"function", "impl"}
    BY DEF Callable
  <1>3. /\ class' \in [Nodes -> AllVerdicts]
        /\ \A n \in Nodes : class'[n] = IF n \in changed THEN "Structural" ELSE class[n]
    BY <1>1, <1>2, RelabelIs DEF AllVerdicts
  <1>4. UsesFollow'
    <2>1. \A n \in folded : n \in Nodes
      BY <1>1 DEF TypeOK
    <2>2. \A n \in folded : class'[n] = class[n] \/ class[n] = "Dead"
      BY <1>2, <1>3, <2>1
    <2> QED
      BY <1>1, <1>3, <2>2, UsesStillFollow DEF Tiers
  <1>5. NothingToRescue'
    <2>1. \A n \in Nodes : RescueTiers(n)' = RescueTiers(n)
      BY <1>1, <1>2, <1>3, RescuesAreOfTypes
    <2> QED
      BY <1>1, <1>3, <2>1 DEF NothingToRescue
  <1>6. TypeOK'
    BY <1>1, <1>3, VerdictRanks DEF TypeOK
  <1>7. \A n \in Nodes : class'[n] # "Unclassified" => n \in Classified'
    BY <1>1, <1>2, <1>3 DEF ReachIInv, Classified
  <1> QED
    BY <1>1, <1>4, <1>5, <1>6, <1>7 DEF ReachIInv, ClassifierInv, ContainersFollowTheirContents

LEMMA ResidualStep == ASSUME ReachIInv, ResidualSweep PROVE ReachIInv'
  <1> USE DEF ResidualSweep
  <1>1. TypeOK /\ pass' = "rollup" /\ graph' = graph /\ folded' = folded /\ before' = class'
    BY DEF ReachIInv, ClassifierInv
  <1>2. PICK changed : /\ Relabel(changed, "Suspected")
                       /\ \A n \in changed : class[n] = "Dead" /\ n \in Nodes
    OBVIOUS
  <1>3. /\ class' \in [Nodes -> AllVerdicts]
        /\ \A n \in Nodes : class'[n] = IF n \in changed THEN "Suspected" ELSE class[n]
    BY <1>1, <1>2, RelabelIs DEF AllVerdicts
  <1>4. TypeOK'
    BY <1>1, <1>3, VerdictRanks DEF TypeOK
  <1>5. \A n \in Nodes : class'[n] # "Unclassified" => n \in Classified'
    BY <1>1, <1>2, <1>3 DEF ReachIInv, Classified
  <1>6. RollUpSound'
    BY <1>1 DEF RollUpSound, Lifted
  <1> QED
    BY <1>1, <1>4, <1>5, <1>6 DEF ReachIInv, ClassifierInv, ContainersFollowTheirContents

(* A round of the roll-up gives a container the verdict of a child.        *)
LEMMA RollUpIs ==
    ASSUME TypeOK, RollUp
    PROVE  /\ class' \in [Nodes -> AllVerdicts]
           /\ \A n \in Nodes \ Rescuable : class'[n] = class[n]
           /\ \A n \in Rescuable : /\ class'[n] \in AliveChildren(n) /\ n \in Nodes
                                   /\ \A d \in AliveChildren(n) : Rank(class'[n]) <= Rank(d)
                                   /\ class[n] \in {"Dead", "Suspected"}
                                   /\ KindOf[n] \in {"impl", "trait", "module"}
  <1>1. class' = [n \in Nodes |-> IF n \in Rescuable THEN MostAlive(AliveChildren(n))
                                                     ELSE class[n]]
    BY DEF RollUp
  <1>2. class \in [Nodes -> AllVerdicts]
    BY ClassIs
  <1>3. ASSUME NEW n \in Rescuable
        PROVE  /\ MostAlive(AliveChildren(n)) \in AliveChildren(n)
               /\ \A d \in AliveChildren(n) : Rank(MostAlive(AliveChildren(n))) <= Rank(d)
    <2>1. AliveChildren(n) \in SUBSET AllVerdicts /\ AliveChildren(n) # {}
      BY DEF Rescuable, AliveChildren, Alive, AllVerdicts
    <2> QED
      BY <2>1, MostAliveIs
  <1>4. \A n \in Rescuable : /\ n \in Nodes /\ class[n] \in {"Dead", "Suspected"}
                             /\ KindOf[n] \in {"impl", "trait", "module"}
    BY DEF Rescuable, Containers
  <1>5. \A n \in Nodes : AliveChildren(n) \subseteq AllVerdicts
    BY DEF AliveChildren, Alive, AllVerdicts
  <1> HIDE DEF RollUp
  <1> QED
    BY <1>1, <1>2, <1>3, <1>4, <1>5

(* A round lifts containers that own live code, and nothing else; when it  *)
(* finds none to lift, every container that owns some has been lifted.     *)
LEMMA RollUpStaysSound ==
    ASSUME TypeOK, TypeOK', RollUpSound, RollUp
    PROVE  /\ RollUpSound'
           /\ Rescuable = {} => Owning(Lifted) \subseteq Lifted /\ Lifted' = Lifted
  <1>1. /\ class \in [Nodes -> AllVerdicts] /\ class' \in [Nodes -> AllVerdicts]
        /\ before' = before
        /\ \A n \in Nodes \ Rescuable : class'[n] = class[n]
        /\ \A n \in Rescuable : /\ class'[n] \in AliveChildren(n) /\ n \in Nodes
                                /\ \A d \in AliveChildren(n) : Rank(class'[n]) <= Rank(d)
                                /\ class[n] \in {"Dead", "Suspected"}
                                /\ KindOf[n] \in {"impl", "trait", "module"}
    BY RollUpIs, ClassIs DEF RollUp
  <1>2. /\ Candidates' = Candidates
        /\ \A s : Owning(s)' = Owning(s)
        /\ \A n : ChildrenOf(n)' = ChildrenOf(n)
    BY <1>1 DEF Candidates, Owning, Containers, ChildrenOf
  <1>3. /\ Lifted \subseteq Owning(Lifted) /\ Lifted \subseteq Nodes
        /\ \A n \in Lifted : class[n] \in Alive /\ before[n] \in {"Dead", "Suspected"}
    BY DEF RollUpSound, Owning, Candidates, AliveChildren, Lifted
  <1>4. \A c \in Nodes : /\ class[c] \in Alive => c \notin Rescuable /\ class'[c] = class[c]
                         /\ before[c] \in Alive => c \notin Lifted /\ class[c] = before[c]
                         /\ class[c] \in Alive => before[c] \in Alive \/ c \in Lifted
    BY <1>1, <1>3 DEF Alive, Lifted
  <1>5. \A n \in Rescuable : /\ n \notin Lifted /\ n \in Candidates
                             /\ class'[n] \in Alive /\ n \in Lifted'
    <2> SUFFICES ASSUME NEW n \in Rescuable
                 PROVE  n \notin Lifted /\ n \in Candidates /\ class'[n] \in Alive /\ n \in Lifted'
      OBVIOUS
    <2>1. n \notin Lifted /\ n \in Nodes
      BY <1>1, <1>3 DEF Alive
    <2>2. before[n] = class[n] /\ class'[n] \in Alive
      BY <1>1, <2>1 DEF Lifted, AliveChildren
    <2> QED
      BY <1>1, <2>1, <2>2 DEF Candidates, Containers, Lifted, Alive
  <1>6. Lifted' = Lifted \cup Rescuable
    <2>1. \A n \in Nodes : n \in Lifted' <=> n \in Lifted \/ n \in Rescuable
      BY <1>1, <1>5 DEF Lifted
    <2>2. Lifted' \subseteq Nodes /\ Lifted \subseteq Nodes /\ Rescuable \subseteq Nodes
      BY <1>1 DEF Lifted
    <2> QED
      BY <2>1, <2>2
  <1>7. Rescuable \subseteq Owning(Lifted)
    <2> SUFFICES ASSUME NEW n \in Rescuable PROVE n \in Owning(Lifted)
      OBVIOUS
    <2>1. PICK c \in ChildrenOf(n) : class[c] \in Alive
      BY DEF Rescuable, AliveChildren
    <2>2. before[c] \in Alive \/ c \in Lifted
      BY <1>4, <2>1 DEF ChildrenOf
    <2> QED
      BY <1>5, <2>1, <2>2 DEF Owning
  <1>8. \A s, t : s \subseteq t => Owning(s) \subseteq Owning(t)
    BY DEF Owning
  <1>9. Lifted' \subseteq Owning(Lifted')
    BY <1>3, <1>6, <1>7, <1>8
  <1>10. ASSUME NEW s \in SUBSET Candidates, Owning(s) \subseteq s PROVE Lifted' \subseteq s
    <2>1. Lifted \subseteq s
      BY <1>10 DEF RollUpSound
    <2> QED
      BY <1>6, <1>7, <1>8, <1>10, <2>1
  <1>11. ASSUME NEW n \in Lifted'
         PROVE  /\ class'[n] \in AliveChildren(n)'
                /\ \A c \in ChildrenOf(n) :
                      before[c] \in Alive => Rank(class'[n]) <= Rank(before[c])
    <2>1. /\ class'[n] \in AliveChildren(n)
          /\ \A c \in ChildrenOf(n) : before[c] \in Alive => Rank(class'[n]) <= Rank(before[c])
      <3>1. CASE n \in Rescuable
        <4>1. \A c \in ChildrenOf(n) : before[c] \in Alive => before[c] \in AliveChildren(n)
          BY <1>4 DEF AliveChildren, ChildrenOf
        <4> QED
          BY <1>1, <3>1, <4>1
      <3>2. CASE n \in Lifted /\ n \notin Rescuable
        BY <1>1, <1>3, <3>2 DEF RollUpSound
      <3> QED
        BY <1>6, <3>1, <3>2
    <2>2. PICK c \in ChildrenOf(n) : class'[n] = class[c] /\ class[c] \in Alive
      BY <2>1 DEF AliveChildren
    <2>3. class'[c] = class[c]
      BY <1>4, <2>2 DEF ChildrenOf
    <2> QED
      BY <1>2, <2>1, <2>2, <2>3 DEF AliveChildren
  <1>12. RollUpSound'
    BY <1>1, <1>2, <1>9, <1>10, <1>11 DEF RollUpSound
  <1>13. ASSUME Rescuable = {}, NEW n \in Owning(Lifted) PROVE n \in Lifted
    <2> SUFFICES ASSUME n \notin Lifted PROVE FALSE
      OBVIOUS
    <2>1. n \in Containers /\ n \in Nodes /\ class[n] \in {"Dead", "Suspected"}
      BY DEF Owning, Candidates, Containers, Lifted
    <2>2. PICK c \in ChildrenOf(n) : before[c] \in Alive \/ c \in Lifted
      BY DEF Owning
    <2>3. class[c] \in Alive
      BY <1>3, <1>4, <2>2 DEF ChildrenOf
    <2> QED
      BY <1>13, <2>1, <2>2, <2>3 DEF Rescuable, AliveChildren
  <1> QED
    BY <1>6, <1>12, <1>13

LEMMA RollUpStep == ASSUME ReachIInv, RollUp PROVE ReachIInv'
  <1>1. /\ TypeOK /\ RollUpSound /\ graph' = graph /\ folded' = folded /\ before' = before
        /\ pass' = IF Rescuable = {} THEN "census" ELSE "rollup"
    BY DEF ReachIInv, ClassifierInv, RollUp
  <1>2. /\ class' \in [Nodes -> AllVerdicts]
        /\ \A n \in Nodes \ Rescuable : class'[n] = class[n]
        /\ \A n \in Rescuable : n \in Nodes /\ class[n] \in {"Dead", "Suspected"}
    BY <1>1, RollUpIs
  <1>3. TypeOK'
    BY <1>1, <1>2, VerdictRanks DEF TypeOK
  <1>4. \A n \in Nodes : class'[n] # "Unclassified" => n \in Classified'
    BY <1>1, <1>2 DEF ReachIInv, Classified
  <1>5. /\ RollUpSound'
        /\ Rescuable = {} => Owning(Lifted) \subseteq Lifted /\ Lifted' = Lifted
    BY <1>1, <1>3, RollUpStaysSound
  <1>6. ContainersFollowTheirContents'
    <2> SUFFICES ASSUME pass' = "census" PROVE ContainersFollowTheirContents'
      BY DEF ContainersFollowTheirContents
    <2>1. Owning(Lifted)' = Owning(Lifted) /\ Lifted' = Lifted
      BY <1>1, <1>5 DEF Owning, Candidates, Containers, ChildrenOf
    <2>2. Lifted' = Owning(Lifted)'
      BY <1>1, <1>5, <2>1 DEF RollUpSound
    <2>3. Lifted' \subseteq Candidates'
      BY <2>2 DEF Owning
    <2> QED
      BY <1>5, <2>2, <2>3 DEF RollUpSound, ContainersFollowTheirContents
  <1>7. pass' \in {"census", "rollup"}
    BY <1>1
  <1> QED
    BY <1>3, <1>4, <1>5, <1>6, <1>7 DEF ReachIInv, ClassifierInv

LEMMA CensusStep == ASSUME ReachIInv, ExcludedSweep PROVE ReachIInv'
  <1> USE DEF ExcludedSweep
  <1>1. TypeOK /\ pass' = "done" /\ graph' = graph /\ folded' = folded /\ before' = before
    BY DEF ReachIInv, ClassifierInv
  <1>2. PICK changed : /\ Relabel(changed, "Excluded")
                       /\ \A n \in changed : n \in Classified
    OBVIOUS
  <1>3. /\ class' \in [Nodes -> AllVerdicts]
        /\ \A n \in Nodes : class'[n] = IF n \in changed THEN "Excluded" ELSE class[n]
    BY <1>1, <1>2, RelabelIs DEF AllVerdicts
  <1>4. TypeOK'
    BY <1>1, <1>3, VerdictRanks DEF TypeOK
  <1>5. \A n \in Nodes : class'[n] # "Unclassified" => n \in Classified'
    BY <1>1, <1>2, <1>3 DEF ReachIInv, Classified
  <1> QED
    BY <1>1, <1>4, <1>5 DEF ReachIInv, ClassifierInv, ContainersFollowTheirContents

(* The invariant is inductive.                                             *)
THEOREM ReachInductive == Spec => []ReachIInv
  <1>1. ASSUME ReachIInv, [Next]_vars PROVE ReachIInv'
    <2>1. CASE UNCHANGED vars
      <3>1. /\ graph' = graph /\ pass' = pass /\ class' = class /\ folded' = folded
            /\ before' = before
        BY <2>1 DEF vars
      <3>2. /\ TypeOK' /\ (RollUpSound' <=> RollUpSound)
            /\ (ContainersFollowTheirContents' <=> ContainersFollowTheirContents)
        <4>1. TypeOK'
          BY <1>1, <3>1 DEF ReachIInv, ClassifierInv, TypeOK
        <4>2. /\ Lifted' = Lifted /\ Candidates' = Candidates
              /\ \A s : Owning(s)' = Owning(s)
              /\ \A n : AliveChildren(n)' = AliveChildren(n) /\ ChildrenOf(n)' = ChildrenOf(n)
          BY <3>1 DEF Lifted, Candidates, Owning, Containers, AliveChildren, ChildrenOf
        <4>3. Owning(Lifted)' = Owning(Lifted)
          BY <3>1 DEF Lifted, Candidates, Owning, Containers, ChildrenOf
        <4> QED
          BY <3>1, <4>1, <4>2, <4>3 DEF RollUpSound, ContainersFollowTheirContents
      <3>3. UsesFollow' <=> UsesFollow
        BY <3>1 DEF UsesFollow, Uses, Classified
      <3>4. \A n \in Nodes : RescueTiers(n)' = RescueTiers(n)
        BY <3>1, RescuesAreOfTypes
      <3>5. NothingToRescue' <=> NothingToRescue
        BY <3>1, <3>4 DEF NothingToRescue
      <3> QED
        BY <1>1, <3>1, <3>2, <3>3, <3>5 DEF ReachIInv, ClassifierInv, Classified
    <2> QED
      BY <1>1, <2>1, VerdictStep, StructuralStep, SplitStep, GuardStep, AbstractionStep,
         ResidualStep, RollUpStep, CensusStep DEF Next
  <1> QED
    BY <1>1, ReachInit, PTL DEF Spec

(* Types, and the roll-up lifts the containers that own live code at some  *)
(* depth of nesting and no other, to the tier of a child, and of none less *)
(* alive than a child that was alive before.                               *)
THEOREM ContainersFollow == Spec => []ClassifierInv
  <1>1. ReachIInv => ClassifierInv
    BY DEF ReachIInv
  <1> QED
    BY <1>1, ReachInductive, PTL

(* What the residual sweep finds dead, no walk and no rescue can reach:    *)
(* the delete-authority verdict is given to unreachable code alone.        *)
THEOREM DeadIsUnreachable == Spec => []ResidualIsUnreachable
  <1>1. ReachIInv => ResidualIsUnreachable
    <2> SUFFICES ASSUME ReachIInv, pass = "residual" PROVE ResidualIsUnreachable
      BY DEF ResidualIsUnreachable
    <2>1. UsesFollow /\ NothingToRescue
      BY DEF ReachIInv
    <2> QED
      BY <2>1 DEF ResidualIsUnreachable, UsesFollow, NothingToRescue
  <1> QED
    BY <1>1, ReachInductive, PTL

(* A round that does not end its pass lifts some symbol and lowers none.   *)
THEOREM RoundsLift == Spec => RoundsOnlyLift
  <1> DEFINE Lifts == pass' = pass =>
                         /\ class' # class
                         /\ \A n \in Nodes : Rank(class'[n]) <= Rank(class[n])
  <1>1. ASSUME ReachIInv, Next, pass' = pass
        PROVE  class' # class /\ \A n \in Nodes : Rank(class'[n]) <= Rank(class[n])
    <2>1. TypeOK
      BY <1>1 DEF ReachIInv, ClassifierInv
    <2>2. CASE GuardRound
      <3>1. PICK rescued \in Rescues :
               /\ class' = [n \in Nodes |-> MostAlive({After(rescued, n)} \cup Folds(rescued, n))]
               /\ pass' = IF class' = class THEN "abstraction" ELSE "guard"
               /\ pass = "guard"
        BY <2>1, <2>2, GuardRoundIs
      <3> QED
        BY <1>1, <2>1, <3>1, RoundLifts
    <2>3. CASE RollUp
      <3>1. /\ \A n \in Nodes \ Rescuable : class'[n] = class[n]
            /\ \A n \in Rescuable : /\ class'[n] \in AliveChildren(n)
                                    /\ class[n] \in {"Dead", "Suspected"} /\ n \in Nodes
        BY <2>1, <2>3, RollUpIs
      <3>2. Rescuable # {}
        BY <1>1, <2>3 DEF RollUp
      <3>3. \A n \in Rescuable : class'[n] \in Alive
        BY <3>1 DEF AliveChildren
      <3>4. class' # class
        BY <3>1, <3>2, <3>3 DEF Alive
      <3>5. \A n \in Rescuable : Rank(class'[n]) <= Rank(class[n])
        BY <3>1, <3>3, VerdictRanks DEF Alive
      <3>6. \A n \in Nodes : Rank(class[n]) \in Nat
        BY <2>1, ClassIs, RanksAreNaturals
      <3> QED
        BY <3>1, <3>4, <3>5, <3>6
    <2> QED
      BY <1>1, <2>2, <2>3
      DEF Next, Verdict, Structural, Split, DeadAbstraction, ResidualSweep, ExcludedSweep
  <1>2. ReachIInv /\ [Next]_vars => [Lifts]_vars
    BY <1>1
  <1>3. Spec => [][Lifts]_vars
    BY <1>2, ReachInductive, PTL DEF Spec
  <1> QED
    BY <1>3 DEF RoundsOnlyLift

-----------------------------------------------------------------------------
(* Test code.                                                              *)

InTests == graph.test \cup {n \in Nodes : ParentsOf(n) \cap graph.test # {}}

\* Nothing in test code has a verdict of production code; entries included,
\* because none of them is test code.
TestsApart == \A n \in Nodes : n \in InTests => class[n] \notin {"Wired", "PublicApi"}

(* A production walk does not enter test code, marked or enclosed.         *)
LEMMA WalkAvoidsTests ==
    ASSUME TypeOK, TestCodeIsMarked(graph), NEW seeds, seeds \cap Classified \cap InTests = {}
    PROVE  Walk(seeds, FALSE) \cap InTests = {}
  <1> DEFINE S == Nodes \ InTests
  <1>1. seeds \cap Classified \subseteq S
    BY DEF Classified
  <1>2. ASSUME NEW s \in SUBSET S, NEW n \in Entered(s, FALSE) PROVE n \in S
    <2>1. PICK e \in Uses : e[1] \in s /\ e[2] = n /\ n \in Classified /\ n \notin graph.test
      BY <1>2 DEF Entered
    <2>2. n \in Nodes /\ e \in graph.calls \cup graph.types
      BY <2>1 DEF Classified, Uses
    <2>3. n \notin InTests
      BY <1>2, <2>1, <2>2 DEF TestCodeIsMarked, InTests
    <2> QED
      BY <2>2, <2>3
  <1>3. \A s \in SUBSET S : Entered(s, FALSE) \subseteq S
    BY <1>2
  <1> HIDE DEF S
  <1>4. Walk(seeds, FALSE) \subseteq S
    BY <1>1, <1>3, WalkStaysWithin
  <1> QED
    BY <1>4 DEF S

(* The guard gives test code no tier but TestOnly.                         *)
LEMMA RescueOfTestCode ==
    ASSUME TypeOK, TestCodeIsMarked(graph), NEW n \in Nodes, n \in InTests, Callable(n),
           NEW tier \in RescueTiers(n)
    PROVE  tier = "TestOnly"
  <1>1. PICK p \in ParentsOf(n) : \E t \in Through(p) :
                tier = Cap(t, n \in graph.test \/ p \in graph.test)
    BY RescueTiersAre
  <1>2. PICK t \in Through(p) : tier = Cap(t, n \in graph.test \/ p \in graph.test)
    BY <1>1
  <1>3. n \in graph.test \/ p \in graph.test
    BY <1>1 DEF TestCodeIsMarked, InTests
  <1>4. \A ns : ReachedTier(ns) \subseteq Tiers
    BY DEF ReachedTier, Tiers, Alive
  <1>5. t \in Tiers
    BY <1>4 DEF Through, FirstReached
  <1> QED
    BY <1>2, <1>3, <1>5, VerdictRanks DEF Cap, Tiers

LEMMA TestsStayApart ==
    ASSUME ReachIInv, TestCodeIsMarked(graph), TestsApart, [Next]_vars
    PROVE  TestsApart'
  <1>1. TypeOK
    BY DEF ReachIInv, ClassifierInv
  <1>2. graph' = graph
    BY DEF Next, Verdict, Structural, Split, GuardRound, DeadAbstraction, ResidualSweep,
           RollUp, ExcludedSweep, vars
  <1>3. InTests' = InTests
    BY <1>2 DEF InTests
  <1> SUFFICES ASSUME NEW n \in Nodes, n \in InTests PROVE class'[n] \notin {"Wired", "PublicApi"}
    BY <1>3 DEF TestsApart
  <1>4. class[n] \notin {"Wired", "PublicApi"} /\ class \in [Nodes -> AllVerdicts]
    BY <1>1, ClassIs DEF TestsApart
  <1>5. ASSUME \E changed : \E c \in {"Structural", "Suspected", "Excluded"} : Relabel(changed, c)
        PROVE  class'[n] \notin {"Wired", "PublicApi"}
    BY <1>4, <1>5 DEF Relabel
  <1>6. CASE Verdict
    <2>1. Walk(Entries, FALSE) \cap InTests = {}
      BY <1>1, WalkAvoidsTests DEF TestCodeIsMarked, InTests
    <2>2. PublicRoots \cap InTests = {}
      BY DEF PublicRoots, TestCodeIsMarked, InTests
    <2>3. Walk(PublicRoots, FALSE) \cap InTests = {}
      BY <1>1, <2>2, WalkAvoidsTests
    <2> DEFINE wired == Walk(Entries, FALSE)
               public == Walk(PublicRoots, FALSE)
               test == Walk(TestFns, TRUE)
    <2>4. class'[n] = CASE n \notin Classified -> "Unclassified"
                        [] n \in wired -> "Wired"
                        [] n \in public \ wired -> "PublicApi"
                        [] n \in test \ (wired \cup public) -> "TestOnly"
                        [] OTHER -> "Dead"
      BY <1>6 DEF Verdict
    <2>5. n \notin wired /\ n \notin public
      BY <2>1, <2>3
    <2> HIDE DEF wired, public, test
    <2> QED
      BY <2>4, <2>5
  <1>7. CASE Structural
    BY <1>5, <1>7 DEF Structural
  <1>8. CASE Split
    BY <1>5, <1>8 DEF Split
  <1>9. CASE GuardRound
    <2>1. PICK rescued \in Rescues :
             class' = [m \in Nodes |-> MostAlive({After(rescued, m)} \cup Folds(rescued, m))]
      BY <1>1, <1>9, GuardRoundIs
    <2>2. \A m \in DOMAIN rescued :
             m \in Nodes /\ Callable(m) /\ rescued[m] \in RescueTiers(m)
      BY <1>1, <2>1, RoundLifts
    <2>3. \A m \in DOMAIN rescued : m \in InTests => rescued[m] = "TestOnly"
      BY <1>1, <2>2, RescueOfTestCode
    <2>4. \A t \in {"Wired", "PublicApi"} : Reached(rescued, t) \cap InTests = {}
      <3> SUFFICES ASSUME NEW t \in {"Wired", "PublicApi"} PROVE Reached(rescued, t) \cap InTests = {}
        OBVIOUS
      <3>1. Anchors(rescued, t) \cap Classified \cap InTests = {}
        BY <2>3 DEF Anchors
      <3>2. (t = "TestOnly") = FALSE
        OBVIOUS
      <3> QED
        BY <1>1, <3>1, <3>2, WalkAvoidsTests DEF Reached
    <2>5. /\ class'[n] # class[n] =>
                \/ n \in DOMAIN rescued /\ class'[n] = rescued[n]
                \/ class'[n] \in Folds(rescued, n)
      BY <1>1, <2>1, RoundLifts
    <2>6. \A t \in Folds(rescued, n) : n \in Reached(rescued, t)
      BY DEF Folds
    <2> QED
      BY <1>4, <2>3, <2>4, <2>5, <2>6
  <1>10. CASE DeadAbstraction
    BY <1>5, <1>10 DEF DeadAbstraction
  <1>11. CASE ResidualSweep
    BY <1>5, <1>11 DEF ResidualSweep
  <1>12. CASE RollUp
    <2>1. CASE n \notin Rescuable
      BY <1>1, <1>4, <1>12, <2>1, RollUpIs
    <2>2. CASE n \in Rescuable
      <3>1. class'[n] \in AliveChildren(n) /\ KindOf[n] \in {"impl", "trait", "module"}
        BY <1>1, <1>12, <2>2, RollUpIs
      <3>2. n \in graph.test
        BY <3>1 DEF TestCodeIsMarked, InTests
      <3>3. PICK c \in ChildrenOf(n) : class'[n] = class[c]
        BY <3>1 DEF AliveChildren
      <3>4. c \in Nodes /\ c \in InTests
        BY <3>2, <3>3 DEF ChildrenOf, ParentsOf, InTests
      <3> QED
        BY <3>3, <3>4 DEF TestsApart
    <2> QED
      BY <2>1, <2>2
  <1>13. CASE ExcludedSweep
    BY <1>5, <1>13 DEF ExcludedSweep
  <1>14. CASE UNCHANGED vars
    BY <1>4, <1>14 DEF vars
  <1> QED
    BY <1>6, <1>7, <1>8, <1>9, <1>10, <1>11, <1>12, <1>13, <1>14 DEF Next

(* In graphs of code that compiles, test code and what an enclosing test   *)
(* impl holds are never reported as production code.                       *)
THEOREM TestCodeStaysApart ==
    ASSUME \A g \in Graphs : TestCodeIsMarked(g)
    PROVE  Spec => []TestCodeIsNeverLive
  <1>1. Init => TestsApart
    BY DEF Init, TestsApart
  <1>2. ReachIInv => TestCodeIsMarked(graph)
    BY DEF ReachIInv, ClassifierInv, TypeOK
  <1>3. ReachIInv /\ TestsApart /\ [Next]_vars => TestsApart'
    BY <1>2, TestsStayApart
  <1>4. TestsApart => TestCodeIsNeverLive
    BY DEF TestsApart, TestCodeIsNeverLive, InTests
  <1> QED
    BY <1>1, <1>3, <1>4, ReachInductive, PTL DEF Spec
=============================================================================
