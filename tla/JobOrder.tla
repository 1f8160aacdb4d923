-------------------------------- MODULE JobOrder --------------------------------
(***************************************************************************)
(* What an execution order promises: jobs are taken one at a time, each    *)
(* after everything it needs, until none is left that could be; if some    *)
(* are left then, they wait for each other.                                *)
(***************************************************************************)
EXTENDS FiniteSets

CONSTANT Job

VARIABLES
    needs,          \* Job -> the jobs it waits for
    done,           \* the jobs taken so far
    verdict         \* "none", "order" or "cycle"

vars == <<needs, done, verdict>>

Ready(j) == j \in Job \ done /\ needs[j] \subseteq done

Init ==
    /\ needs \in [Job -> SUBSET Job]
    /\ done = {}
    /\ verdict = "none"

Take(j) ==
    /\ verdict = "none"
    /\ Ready(j)
    /\ done' = done \cup {j}
    /\ UNCHANGED <<needs, verdict>>

Conclude ==
    /\ verdict = "none"
    /\ \A j \in Job : ~Ready(j)
    /\ verdict' = IF done = Job THEN "order" ELSE "cycle"
    /\ UNCHANGED <<needs, done>>

Next == (\E j \in Job : Take(j)) \/ Conclude

Spec == Init /\ [][Next]_vars
=============================================================================
