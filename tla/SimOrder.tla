-------------------------------- MODULE SimOrder --------------------------------
(***************************************************************************)
(* topological_order: the execution order of the simulation registry, by   *)
(* Kahn's algorithm over inferred edges (an output feeds an input) and     *)
(* depends_on.  Simulations are numbers in the order of their names, which *)
(* is the order of the registry's map and of every sort in the code.       *)
(***************************************************************************)
EXTENDS Integers, Sequences, FiniteSetsExt, SequencesExt

CONSTANTS
    Sim,            \* simulation names, as numbers in name order
    ModelPath       \* model paths bound as inputs or outputs

ASSUME SimAssumption == Sim \subseteq Nat /\ IsFiniteSet(Sim)
ASSUME PathAssumption == IsFiniteSet(ModelPath)

VARIABLES
    registry,       \* what each simulation declares
    in_degree,      \* edges into a simulation not yet taken away
    queue,          \* ready simulations, first in first out
    order,          \* the order so far
    result          \* "none", "order", or "cycle"

vars == <<registry, in_degree, queue, order, result>>

(* `depends` may name simulations that are not registered, or itself.      *)
SimEntry == [inputs : SUBSET ModelPath, outputs : SUBSET ModelPath,
             depends : SUBSET Nat]

-----------------------------------------------------------------------------
(* The last simulation in name order to declare an output owns it.         *)
Producers(path) == {s \in Sim : path \in registry[s].outputs}

(* Edges are counted with their cause: two bindings make two edges.        *)
InferredEdges ==
    {edge \in Sim \X Sim \X ModelPath :
        /\ edge[3] \in registry[edge[2]].inputs
        /\ Producers(edge[3]) # {}
        /\ edge[1] = Max(Producers(edge[3]))
        /\ edge[1] # edge[2]}

ExplicitEdges ==
    {edge \in Sim \X Sim \X {"depends_on"} :
        /\ edge[1] \in registry[edge[2]].depends
        /\ edge[1] # edge[2]}

EdgeSet == InferredEdges \cup ExplicitEdges

Into(s) == {edge \in EdgeSet : edge[2] = s}
From(s) == {edge \in EdgeSet : edge[1] = s}

(* The place of x among the numbers of S, and S in that order.             *)
Rank(S, x) == Cardinality({y \in S : y <= x})
Ascending(S) == [i \in 1..Cardinality(S) |-> CHOOSE x \in S : Rank(S, x) = i]

-----------------------------------------------------------------------------
(* Mutant: the in-degree counts producers, one each, not edges.            *)
StartByProducer ==
    /\ in_degree = [s \in Sim |-> Cardinality({edge[1] : edge \in Into(s)})]
    /\ queue = Ascending({s \in Sim : Into(s) = {}})
    /\ order = << >>
    /\ result = "none"

Start ==
    /\ in_degree = [s \in Sim |-> Cardinality(Into(s))]
    /\ queue = Ascending({s \in Sim : Into(s) = {}})
    /\ order = << >>
    /\ result = "none"

Init == registry \in [Sim -> SimEntry] /\ Start

(* Mutants: whatever has no edge left is queued, again; a simulation is    *)
(* ready once its first producer is ordered.                               *)
PopRequeue ==
    /\ queue # << >>
    /\ LET node == Head(queue)
           left == [s \in Sim |->
                       in_degree[s] - Cardinality(From(node) \cap Into(s))]
           ready == {s \in Sim : left[s] = 0}
       IN  /\ order' = Append(order, node)
           /\ in_degree' = left
           /\ queue' = Tail(queue) \o Ascending(ready)
    /\ UNCHANGED <<registry, result>>

PopEager ==
    /\ queue # << >>
    /\ LET node == Head(queue)
           left == [s \in Sim |->
                       in_degree[s] - Cardinality(From(node) \cap Into(s))]
           ready == {s \in Sim : From(node) \cap Into(s) # {}}
       IN  /\ order' = Append(order, node)
           /\ in_degree' = left
           /\ queue' = Tail(queue) \o Ascending(ready)
    /\ UNCHANGED <<registry, result>>

(* Take the first ready simulation; the ones it was the last to hold back  *)
(* become ready, in name order.                                            *)
PopReady ==
    /\ queue # << >>
    /\ LET node == Head(queue)
           left == [s \in Sim |->
                       in_degree[s] - Cardinality(From(node) \cap Into(s))]
           ready == {s \in Sim : From(node) \cap Into(s) # {} /\ left[s] = 0}
       IN  /\ order' = Append(order, node)
           /\ in_degree' = left
           /\ queue' = Tail(queue) \o Ascending(ready)
    /\ UNCHANGED <<registry, result>>

(* Mutant: off by one.                                                     *)
DecideOffByOne ==
    /\ queue = << >>
    /\ result = "none"
    /\ result' = IF Len(order) <= Cardinality(Sim) THEN "cycle" ELSE "order"
    /\ UNCHANGED <<registry, in_degree, queue, order>>

(* A simulation left out means the graph has a cycle.                      *)
Decide ==
    /\ queue = << >>
    /\ result = "none"
    /\ result' = IF Len(order) < Cardinality(Sim) THEN "cycle" ELSE "order"
    /\ UNCHANGED <<registry, in_degree, queue, order>>

Next == PopReady \/ Decide

Spec == Init /\ [][Next]_vars

-----------------------------------------------------------------------------
Ordered == {order[i] : i \in DOMAIN order}
Queued == {queue[i] : i \in DOMAIN queue}

(* The order and the queue hold simulations; no degree is ever negative,   *)
(* which in the code would wrap a usize.                                   *)
TypeOK ==
    /\ registry \in [Sim -> SimEntry]
    /\ in_degree \in [Sim -> Nat]
    /\ queue \in Seq(Sim)
    /\ order \in Seq(Sim)
    /\ result \in {"none", "order", "cycle"}

(* Each count is the number of edges from simulations not yet ordered, a   *)
(* simulation is ready exactly when it has none, and nothing is ordered or *)
(* queued twice.                                                           *)
KahnInv ==
    /\ \A s \in Sim :
          in_degree[s] = Cardinality({edge \in Into(s) : edge[1] \notin Ordered})
    /\ Queued \cap Ordered = {}
    /\ Queued \cup Ordered = {s \in Sim : in_degree[s] = 0}
    /\ IsInjective(order \o queue)

(* The queue of topological_order implements the abstract order: whatever  *)
(* is popped has everything it reads from or depends on behind it, none is *)
(* taken twice, and the verdict falls when nothing could be taken any more. *)
Jobs == INSTANCE JobOrder WITH
            Job <- Sim,
            needs <- [s \in Sim |-> {edge[1] : edge \in Into(s)}],
            done <- Ordered,
            verdict <- result

ImplementsJobOrder == Jobs!Spec

(* The order is refused only for a real cycle, and a real cycle is always  *)
(* refused: some simulations each wait for another of them.                *)
Deadlocked ==
    \E S \in (SUBSET Sim) \ {{}} :
        \A s \in S : \E edge \in Into(s) : edge[1] \in S

CycleIsReal ==
    result # "none" => (result = "cycle" <=> Deadlocked)
=============================================================================
