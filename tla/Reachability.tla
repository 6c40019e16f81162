---------------------------- MODULE Reachability ----------------------------
(***************************************************************************)
(* The liveness classifier of reachability.rs: ReachabilityAnalyzer walks  *)
(* the symbol graph from its entry points and then runs a fixed sequence   *)
(* of passes, each of which reads the verdicts the passes before it left.  *)
(* One action is one pass, or one round of a pass that runs to a fixpoint. *)
(*                                                                         *)
(* A private symbol that ends as "Dead" may be recommended for deletion,   *)
(* so what matters is what a later pass can still find out about a symbol  *)
(* that an earlier pass has judged.                                        *)
(***************************************************************************)
EXTENDS Naturals, FiniteSets, Sequences, Functions

CONSTANTS
    Nodes,                 \* the symbols
    KindOf, FileOf,        \* what each one is, and the document that holds it
    ShortName,             \* its name without the path
    NamedWithin,           \* pairs: the qualified name of the second begins with the first's
    Contains, Implements,  \* structural edges: pairs of symbols
    StdMarkers,            \* symbols with a name of STD_MARKER_TRAITS
    Entries, TestFns,      \* production entry symbols, and test functions
    Unrecorded,            \* symbols whose visibility the index does not know
    Library, Excluded,     \* documents of library crates, and outside the census
    Graphs                 \* the rest of the graphs explored: see below

(* Uses are between symbols, and what an impl or a type implements is a    *)
(* trait, an interface or another type.                                    *)
ASSUME GraphAssumption ==
    /\ IsFiniteSet(Nodes)
    /\ \A g \in Graphs : g.calls \cup g.types \subseteq Nodes \X Nodes
    /\ \A e \in Implements :
          KindOf[e[1]] \in {"impl", "struct"} => KindOf[e[2]] \notin {"function", "impl"}

VARIABLES
    graph,     \* the rest of the graph being analysed: use edges, public symbols,
               \* methods without a body, test code, documents outside the
               \* analysed population; the analyzer only reads it
    pass,      \* the pass to run next
    class,     \* the verdict on every symbol
    before,    \* history: the verdicts the container roll-up started from
    folded     \* symbols the guard pass rescued or folded, over all its rounds

vars == <<graph, pass, class, before, folded>>

-----------------------------------------------------------------------------
(* Verdicts, in the order ReachabilityClass declares them: earlier is more *)
(* alive.                                                                  *)
Verdicts == <<"Wired", "PublicApi", "Structural", "TestOnly", "Dead", "Unclassified",
              "Suspected", "Excluded">>

Rank(c) == CHOOSE i \in DOMAIN Verdicts : Verdicts[i] = c

MostAlive(cs) == CHOOSE c \in cs : \A d \in cs : Rank(c) <= Rank(d)

Alive == {"Wired", "PublicApi", "Structural", "TestOnly"}

Tiers == {"Wired", "PublicApi", "TestOnly"}   \* what a walk can give

-----------------------------------------------------------------------------
(* The graph.  Edges are sets of pairs: graph.calls holds the Calls and    *)
(* References edges, graph.types the TypeOf, FieldOf and Extends edges;    *)
(* together they are EdgeClass::Call.                                      *)
Uses == graph.calls \cup graph.types
Callable(n) == KindOf[n] = "function"
ParentsOf(n) == {p \in Nodes : <<p, n>> \in Contains}
ChildrenOf(n) == {c \in Nodes : <<n, c>> \in Contains}
TraitsOf(n) == {t \in Nodes : <<n, t>> \in Implements}
ImplsOf(t) == {i \in Nodes : <<i, t>> \in Implements}

Classified == {n \in Nodes : FileOf[n] \notin graph.uncovered}

PublicRoots ==
    {n \in Classified : /\ n \in graph.public
                        /\ n \notin graph.test
                        /\ FileOf[n] \in Library
                        /\ KindOf[n] \in {"function", "struct", "trait", "module"}}

(* graph_walk under classifier_calls: forward over uses.  A symbol of test *)
(* code is not entered unless the walk allows it; a symbol of a document   *)
(* outside the analysed population is neither reached nor a bridge.        *)
Entered(s, intoTests) ==
    {n \in {e[2] : e \in {u \in Uses : u[1] \in s}} \cap Classified :
        intoTests \/ n \notin graph.test}

Walk(seeds, intoTests) ==
    LET reach[i \in 0..Cardinality(Nodes)] ==
            IF i = 0 THEN seeds \cap Classified
                     ELSE LET s == reach[i - 1] IN s \cup Entered(s, intoTests)
    IN  reach[Cardinality(Nodes)]

-----------------------------------------------------------------------------
Relabel(changed, c) == class' = [n \in Nodes |-> IF n \in changed THEN c ELSE class[n]]

(* Passes 1 to 4: three walks, most alive first, and the rest is dead.     *)
Verdict ==
    /\ pass = "verdict"
    /\ \E wired \in {Walk(Entries, FALSE)}, public \in {Walk(PublicRoots, FALSE)},
          test \in {Walk(TestFns, TRUE)} :
          class' = [n \in Nodes |-> CASE n \notin Classified -> "Unclassified"
                                      [] n \in wired -> "Wired"
                                      [] n \in public \ wired -> "PublicApi"
                                      [] n \in test \ (wired \cup public) -> "TestOnly"
                                      [] OTHER -> "Dead"]
    /\ pass' = "structural"
    /\ UNCHANGED <<graph, before, folded>>

(* Passes 5 and 5b: compile-time items of a file with live code, then the  *)
(* data members of live types.  A data member belongs to every type whose  *)
(* name its own name begins with, an enum to the payload of its variants.  *)
LiveFiles == {FileOf[n] : n \in {m \in Nodes : class[m] \in {"Wired", "PublicApi"}}}

Structural ==
    /\ pass = "structural"
    /\ LET items == {n \in Nodes : /\ class[n] = "Dead"
                                   /\ KindOf[n] \in {"use", "module", "alias"}
                                   /\ FileOf[n] \in LiveFiles}
           member(n) == /\ class[n] = "Dead"
                        /\ KindOf[n] = "field"
                        /\ \E t \in Nodes :
                              /\ <<t, n>> \in NamedWithin /\ KindOf[t] \in {"struct", "alias"}
                              /\ class[t] \in Alive \ {"TestOnly"} \/ t \in items
       IN  Relabel(items \cup {n \in Nodes : member(n)}, "Structural")
    /\ pass' = "split"
    /\ UNCHANGED <<graph, before, folded>>

(* V3-1: a public root nobody uses is a review candidate.  What it reaches *)
(* keeps the verdict the walk gave it.                                     *)
HasRealCaller(n) ==
    \/ \E m \in Classified : <<m, n>> \in graph.calls
    \/ \E m \in Nodes \ {n} : <<m, n>> \in Uses /\ class[m] \in Tiers

Split ==
    /\ pass = "split"
    /\ Relabel({n \in PublicRoots : class[n] = "PublicApi" /\ ~HasRealCaller(n)}, "Suspected")
    /\ pass' = "guard"
    /\ UNCHANGED <<graph, before, folded>>

-----------------------------------------------------------------------------
(* The trait-dispatch guard.  A dead method is rescued through the first   *)
(* reached trait or type an enclosing trait, impl or receiver type leads   *)
(* to, in the order the graph lists its edges: RescueTiers are the tiers   *)
(* some order gives.  Test code is capped at TestOnly.                     *)
ReachedTier(ns) ==
    {IF class[n] = "Structural" THEN "PublicApi" ELSE class[n] :
        n \in {m \in ns : class[m] \in Alive}}

\* Bug variant: the tier of the reached trait is passed on as it is.
Uncapped(tier, isTest) == tier

Cap(tier, isTest) ==
    IF isTest /\ Rank(tier) < Rank("TestOnly") THEN "TestOnly" ELSE tier

FirstReached(first, second) ==
    IF ReachedTier(first) # {} THEN ReachedTier(first) ELSE ReachedTier(second)

RescueTiers(n) ==
    LET owners(p) == {s \in ParentsOf(p) : KindOf[s] = "struct"}
        through(p) == CASE KindOf[p] = "trait" -> ReachedTier({p})
                        [] KindOf[p] = "impl" -> FirstReached(TraitsOf(p), owners(p))
                        [] KindOf[p] = "struct" -> FirstReached({p}, TraitsOf(p))
                        [] OTHER -> {}
    IN  UNION {{Cap(t, n \in graph.test \/ p \in graph.test) : t \in through(p)} :
                  p \in ParentsOf(n)}

Rescues ==
    LET tiers == [n \in {m \in Nodes : class[m] = "Dead" /\ Callable(m)} |-> RescueTiers(n)]
        eligible == {n \in DOMAIN tiers : tiers[n] # {}}
    IN  {r \in [eligible -> Tiers] : \A n \in eligible : r[n] \in tiers[n]}

ReachedFrom(rescued) ==
    LET anchors(t) == {n \in DOMAIN rescued : rescued[n] = t}
    IN  [Wired |-> Walk(anchors("Wired"), FALSE),
         PublicApi |-> Walk(anchors("PublicApi"), FALSE),
         TestOnly |-> Walk(anchors("TestOnly"), TRUE)]

(* One round: the guard, then the walks from the methods it has rescued.   *)
(* A reached symbol is folded into the tier when it is dead, or was folded *)
(* by this pass into a less alive one; the walks run most alive first.     *)

\* Bug variant: what an earlier round folded is settled.
MayFoldOnce(n, after) == after[n] = "Dead"

MayFold(n, after) == after[n] = "Dead" \/ n \in folded

GuardRound ==
    /\ pass = "guard"
    /\ \E rescued \in Rescues : \E reached \in {ReachedFrom(rescued)} :
          LET after == [n \in Nodes |-> IF n \in DOMAIN rescued THEN rescued[n] ELSE class[n]]
              folds(n) == IF n \in DOMAIN rescued \/ MayFold(n, after)
                          THEN {t \in Tiers : n \in reached[t]} ELSE {}
          IN  /\ class' = [n \in Nodes |-> MostAlive({after[n]} \cup folds(n))]
              /\ folded' = folded \cup {n \in Nodes : class'[n] # class[n]}
    /\ pass' = IF class' = class THEN "abstraction" ELSE "guard"
    /\ UNCHANGED <<graph, before>>

-----------------------------------------------------------------------------
(* Pass 5c, D3a: a trait's method that a live implementor overrides, or    *)
(* must provide because it has no body.                                    *)
RequiredByImplementor(n) ==
    \E t \in {p \in ParentsOf(n) : KindOf[p] = "trait"} : \E i \in ImplsOf(t) :
        \E m \in ChildrenOf(i) :
            /\ Callable(m) /\ class[m] \in Alive
            /\ ShortName[m] = ShortName[n] \/ n \in graph.abstract

(* Pass 5c, D3b: the impl of a trait without methods on a live type.  An   *)
(* external trait is a symbol without a file and without children, so only *)
(* its name can tell.                                                      *)
External == "EXTERNAL_TRAIT_SENTINEL"

IsMarker(t) ==
    \/ FileOf[t] = External /\ t \in StdMarkers
    \/ FileOf[t] # External /\ ~ \E m \in ChildrenOf(t) : Callable(m)

MarkerImpl(i) ==
    /\ \E t \in TraitsOf(i) : IsMarker(t)   \* an impl implements one trait at most
    /\ \E s \in ParentsOf(i) : KindOf[s] = "struct" /\ class[s] \in Alive

DeadAbstraction ==
    /\ pass = "abstraction"
    /\ Relabel({n \in Nodes : /\ class[n] = "Dead"
                              /\ \/ Callable(n) /\ RequiredByImplementor(n)
                                 \/ KindOf[n] = "impl" /\ MarkerImpl(n)}, "Structural")
    /\ pass' = "residual"
    /\ UNCHANGED <<graph, before, folded>>

(* Only what is private to its crate keeps the delete-authority verdict.   *)
ResidualSweep ==
    /\ pass = "residual"
    /\ Relabel({n \in Nodes : class[n] = "Dead" /\ n \in graph.public \cup Unrecorded},
               "Suspected")
    /\ before' = class'
    /\ pass' = "rollup"
    /\ UNCHANGED <<graph, folded>>

(* One round of the container roll-up.                                     *)
\* Bug variant: a review candidate counts as a reason to keep its container.
KeptChildren(n) == {class[c] : c \in ChildrenOf(n)} \cap (Alive \cup {"Suspected"})

AliveChildren(n) == {class[c] : c \in ChildrenOf(n)} \cap Alive

Containers == {n \in Nodes : KindOf[n] \in {"impl", "trait", "module"}}

Rescuable ==
    {n \in Containers : class[n] \in {"Dead", "Suspected"} /\ AliveChildren(n) # {}}

\* Bug variant: one round, whatever it rescued.
RollUpOnce ==
    /\ pass = "rollup"
    /\ class' = [n \in Nodes |-> IF n \in Rescuable THEN MostAlive(AliveChildren(n))
                                                    ELSE class[n]]
    /\ pass' = "census"
    /\ UNCHANGED <<graph, before, folded>>

RollUp ==
    /\ pass = "rollup"
    /\ class' = [n \in Nodes |-> IF n \in Rescuable THEN MostAlive(AliveChildren(n))
                                                    ELSE class[n]]
    /\ pass' = IF Rescuable = {} THEN "census" ELSE "rollup"
    /\ UNCHANGED <<graph, before, folded>>

(* Code outside the census gets no verdict at all.                         *)
ExcludedSweep ==
    /\ pass = "census"
    /\ Relabel({n \in Classified : FileOf[n] \in Excluded}, "Excluded")
    /\ pass' = "done"
    /\ UNCHANGED <<graph, before, folded>>

Init ==
    /\ graph \in Graphs
    /\ pass = "verdict"
    /\ class = [n \in Nodes |-> "Unclassified"]
    /\ before = class
    /\ folded = {}

Next ==
    \/ Verdict
    \/ Structural
    \/ Split
    \/ GuardRound
    \/ DeadAbstraction
    \/ ResidualSweep
    \/ RollUp
    \/ ExcludedSweep

Spec == Init /\ [][Next]_vars

-----------------------------------------------------------------------------
TypeOK ==
    /\ graph \in Graphs
    /\ pass \in {"verdict", "structural", "split", "guard", "abstraction", "residual",
                 "rollup", "census", "done"}
    /\ {class, before} \subseteq [Nodes -> Range(Verdicts)]
    /\ folded \subseteq Nodes

(* "A node still classed Dead at this point is call-unreachable AND        *)
(* guard-free BY CONSTRUCTION" (reachability.rs, residual sweep), and the  *)
(* fold lets the most alive caller win across rounds: when the residual    *)
(* sweep starts, no dead method can be rescued, and a symbol that was dead *)
(* before the guard is at least as alive as every reached symbol that uses *)
(* it.                                                                     *)
ResidualIsUnreachable ==
    pass = "residual" =>
        /\ \A n \in Nodes : class[n] = "Dead" /\ Callable(n) => RescueTiers(n) = {}
        /\ \A e \in Uses :
              LET user == e[1]
                  used == e[2]
              IN  /\ class[user] \in Tiers
                  /\ used \in Classified
                  /\ class[used] = "Dead" \/ used \in folded
                  /\ used \notin graph.test \/ class[user] = "TestOnly"
                  => Rank(class[used]) <= Rank(class[user])

(* A graph of code that compiles, its test bits set by extract_node, which *)
(* hands them down: production neither starts in test code nor uses it,    *)
(* and no container in a test container lacks the bit.  A method that the  *)
(* index of another tool brought in may lack it; all that contains such a  *)
(* method is test code then.                                               *)
TestCodeIsMarked(g) ==
    LET enclosed == {n \in Nodes : ParentsOf(n) \cap g.test # {}}
        inTests == g.test \cup enclosed
    IN  /\ Entries \cap inTests = {}
        /\ enclosed \cap g.public \subseteq g.test
        /\ \A e \in g.calls \cup g.types : e[2] \in enclosed \ g.test => e[1] \in inTests
        /\ \A n \in enclosed : KindOf[n] \in {"impl", "trait", "module"} => n \in g.test
        /\ \A n \in enclosed : Callable(n) => ParentsOf(n) \subseteq g.test

(* Test code, and what an enclosing test impl holds, is never reported as  *)
(* production code, through whatever trait or container its liveness came. *)
TestCodeIsNeverLive ==
    \A n \in Nodes \ Entries :
        n \in graph.test \/ ParentsOf(n) \cap graph.test # {}
            => class[n] \notin {"Wired", "PublicApi"}

(* The containers the roll-up was asked about, and those of them that own, *)
(* directly, a symbol that was alive before it or a container in s.        *)
Candidates == {n \in Containers : before[n] \in {"Dead", "Suspected"}}

Owning(s) == {n \in Candidates : \E c \in ChildrenOf(n) : before[c] \in Alive \/ c \in s}

Lifted == {n \in Nodes : class[n] # before[n]}

(* "A container is structural iff it OWNS (directly Contains) an alive     *)
(* node, but alive may itself be a container this pass just rescued": what *)
(* the roll-up lifts is the least set of containers closed under owning    *)
(* live code, so every container that owns some at any depth is in it and  *)
(* no two dead ones hold each other up.  A lifted container has the tier   *)
(* of one of its children, and of none less alive than a child that was    *)
(* alive before the roll-up.                                               *)
ContainersFollowTheirContents ==
    pass = "census" =>
        /\ Lifted = Owning(Lifted)
        /\ \A s \in SUBSET Lifted : Owning(s) \subseteq s => s = Lifted
        /\ \A n \in Lifted :
              /\ class[n] \in AliveChildren(n)
              /\ \A c \in ChildrenOf(n) : before[c] \in Alive => Rank(class[n]) <= Rank(before[c])

(* Types, and containers that follow what they contain.                    *)
ClassifierInv == TypeOK /\ ContainersFollowTheirContents

(* "Every write is a monotone move toward more-alive over a finite         *)
(* ReachabilityClass lattice", which is why both loops end: a round that   *)
(* does not end its pass lifts some symbol and lowers none.                *)
RoundsOnlyLift ==
    [][pass' = pass =>
          /\ class' # class
          /\ \A n \in Nodes : Rank(class'[n]) <= Rank(class[n])]_vars
=============================================================================
