--------------------------- MODULE MCReachability ---------------------------
(* One small workspace with the shapes the passes are about, and every way *)
(* its uncertain edges, visibilities and files can be.                     *)
EXTENDS Reachability, TLC

Names == {"main", "Trait", "default", "Type", "impl", "method", "Other", "otherImpl", "other",
          "helper", "import", "Mock", "mockImpl", "mock", "check", "mod", "payload",
          "Eq", "eqImpl", "Display", "displayImpl", "fmt"}

MCKind ==
    [n \in Names |->
        CASE n \in {"main", "default", "method", "other", "helper", "mock", "check", "fmt"}
               -> "function"
          [] n \in {"Trait", "Other", "Eq", "Display"} -> "trait"
          [] n \in {"Type", "Mock"} -> "struct"
          [] n \in {"impl", "otherImpl", "mockImpl", "eqImpl", "displayImpl"} -> "impl"
          [] n = "import" -> "use"
          [] n = "mod" -> "module"
          [] n = "payload" -> "field"]

(* A binary that dispatches through a trait, a type that implements two    *)
(* traits in a module of another file and two external ones, a mock of it, *)
(* and a test.                                                             *)
MCFile ==
    [n \in Names |-> CASE n \in {"main", "Trait", "default"} -> "main.rs"
                       [] n \in {"Mock", "mockImpl", "mock", "check"} -> "tests.rs"
                       [] n = "Other" -> "other.rs"
                       [] n \in {"Eq", "Display"} -> External
                       [] OTHER -> "type.rs"]

MCShortName == [n \in Names |-> IF n = "method" THEN "default" ELSE n]

MCContains ==
    {<<"Trait", "default">>, <<"mod", "Type">>, <<"mod", "impl">>, <<"mod", "otherImpl">>,
     <<"mod", "helper">>, <<"Type", "impl">>, <<"Type", "otherImpl">>, <<"Type", "eqImpl">>,
     <<"Type", "displayImpl">>, <<"displayImpl", "fmt">>, <<"impl", "method">>,
     <<"otherImpl", "other">>, <<"Mock", "mockImpl">>, <<"mockImpl", "mock">>}

\* The type is an enum, and the variant between it and the payload has no symbol.
MCNamedWithin == {<<"Type", "payload">>}

MCImplements == {<<"impl", "Trait">>, <<"otherImpl", "Other">>, <<"mockImpl", "Trait">>,
                 <<"eqImpl", "Eq">>, <<"displayImpl", "Display">>}

Calls ==
    {<<"main", "Trait">>, <<"method", "Other">>, <<"method", "helper">>, <<"other", "helper">>,
     <<"mock", "helper">>, <<"default", "helper">>}

TypeUses == {<<"main", "Type">>, <<"Type", "Other">>}

(* The test bit may be missing on the method of the mock, and a document   *)
(* may be outside the analysed population.                                 *)
MCGraphs ==
    [calls : SUBSET Calls,
     types : {t \cup {<<"check", "Mock">>} : t \in SUBSET TypeUses},
     public : {{}, {"helper"}, {"mod", "method"}, {"helper", "mod"}},
     abstract : {{}, {"default"}},
     test : {{"Mock", "mockImpl", "check"}, {"Mock", "mockImpl", "check", "mock"}},
     uncovered : {{}, {"other.rs"}}]

(* Only the method of the mock may lack the bit, and only tests use it.    *)
ASSUME MarkedAssumption == \A g \in MCGraphs : TestCodeIsMarked(g)
=============================================================================
