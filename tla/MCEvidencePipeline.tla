--------------------------- MODULE MCEvidencePipeline ---------------------------
(***************************************************************************)
(* One or two simulations, two values of the model, two versions of each   *)
(* file; the histories differ in what the environment may do.              *)
(***************************************************************************)
EXTENDS EvidencePipeline

CONSTANTS a, b, p, q, e, f

OneOrder == <<a>>
TwoOrder == <<a, b>>
MCMeets(input) == input = 1
NoSeeds == {Absent}
FixtureSeeds == {Absent, 2}

Histories ==
    {{"model", "source", "fail", "absent"},
     {"model", "source", "midrun", "crash", "fail", "absent", "partial", "invalid"},
     {"registry", "silent"},
     {"source", "crash", "retag"}}
Crashes ==
    {{"model", "source", "midrun", "crash", "fail", "absent", "partial", "invalid"},
     {"model", "source", "fail", "absent", "invalid"},
     {"model", "source", "midrun", "invalid"}}
OneKindEach == {{"registry"}, {"model"}, {"source", "crash"}}

(* Every history starts from the first version of each file; those without *)
(* a crash may start from an input.json that came with the checkout.       *)
MCInit ==
    /\ Init
    /\ source = [s \in Sim |-> p]
    /\ registry = [s \in Sim |-> e]
    /\ model \in {1, Unresolved}
    /\ "crash" \in environment => inputFile = Nothing

MCSpec == MCInit /\ [][Next]_vars /\ Fairness
=============================================================================
