----------------------------- MODULE MCDocumentSync -----------------------------
(***************************************************************************)
(* Two documents and the few texts they go through: texts that differ in   *)
(* what they declare and refer to, or in what they import.                 *)
(***************************************************************************)
EXTENDS DocumentSync

CONSTANTS f, g, t0, t1, t2, t3, units, n, m

Only(decl, refs, imps) == [declares |-> decl, refers |-> refs, imports |-> imps]

(* f may declare n, g may declare m; either may refer to both; t1 and t2   *)
(* import the dependency.                                                  *)
Outlines ==
    [t \in Text |-> CASE t = t0 -> Only({}, {n}, {})
                      [] t = t1 -> Only({n}, {m}, {units})
                      [] t = t2 -> Only({n}, {n, m}, {})
                      [] t = t3 -> Only({m}, {n}, {units})]

OwnNames == [u \in Uri |-> IF u = f THEN {t0, t1, t2} ELSE {t0, t3}]

(* Both files may declare n.                                               *)
SharedNames == [u \in Uri |-> IF u = f THEN {t1} ELSE {t0, t1}]

Sessions == {{}, {"parallel"}, {"early"}, {"close"}, {"skip"}, {"unsaved"}}
Calm == {{}}
Parallel == {{"parallel"}}
Early == {{"early"}}
Slow == {{"slow"}}
Closing == {{"close"}}
Unsaved == {{"unsaved"}}

(* All sessions but the parallel one start from empty files, to stay small.*)
MCInit ==
    /\ Init
    /\ Without({"parallel"}) => disk = [u \in Uri |-> t0]

MCSpec == MCInit /\ [][Next]_vars /\ Fairness
=============================================================================
