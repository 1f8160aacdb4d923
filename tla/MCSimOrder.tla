------------------------------- MODULE MCSimOrder -------------------------------
(***************************************************************************)
(* Three simulations over two model paths; depends_on may name an entry    *)
(* that does not exist (9), the simulation itself, or any other.           *)
(***************************************************************************)
EXTENDS SimOrder

CONSTANTS x, y

MCEntries ==
    [inputs : {{}, {x}, {x, y}}, outputs : {{}, {x}, {y}},
     depends : {{}, {9}, {1, 2}, {3}}]

MCInit == registry \in [Sim -> MCEntries] /\ Start

MCSpec == MCInit /\ [][Next]_vars
=============================================================================
