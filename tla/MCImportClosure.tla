---------------------------- MODULE MCImportClosure ----------------------------
(***************************************************************************)
(* A small workspace: an entry composition, two project packages in the    *)
(* directory an alias names, and one vendored dependency file.             *)
(***************************************************************************)
EXTENDS ImportClosure

CONSTANTS main, idx, part, dep, noParse, m, reqs, req, sys, lib

MCFile == {main, idx, part, dep}
MCDealx == {main}
MCSegment == {m, reqs, req, sys, lib}
MCAliasDir == [name \in {reqs} |-> {idx, part}]

Broken == [package |-> << >>, imports |-> {}, exports |-> {}, table |-> FALSE]

Clean(pkgs, imps, exps) ==
    [package : pkgs, imports : imps, exports : exps, table : {TRUE}]

Barrel == [package |-> <<req>>, module |-> <<sys>>]
FlatBarrel == [package |-> <<req>>, module |-> << >>]

(* main imports through the alias, by the real name, or the dependency;    *)
(* the two packages may import each other, and idx may be a barrel of part; *)
(* idx may also declare an unrelated package, so that the alias has none.  *)
MainOutcomes ==
    {noParse} \cup Clean({<<m>>}, {{}, {<<reqs, sys>>}, {<<reqs>>}, {<<lib>>, <<reqs>>}}, {{}})
IdxOutcomes ==
    {Broken} \cup Clean({<<m>>}, {{}}, {{}})
        \cup Clean({<<req>>}, {{}, {<<req, sys>>}, {<<lib>>}}, {{}, {Barrel}, {FlatBarrel}})
SubOutcomes ==
    {noParse, Broken} \cup Clean({<<req>>}, {{<<m>>}}, {{}})
        \cup Clean({<<req, sys>>}, {{}, {<<req>>}, {<<m>>}}, {{}})
DepOutcomes ==
    {Broken} \cup Clean({<<lib>>}, {{<<lib>>, <<m>>}, {<<reqs, sys>>}}, {{}})

MCOutcome == MainOutcomes \cup IdxOutcomes \cup SubOutcomes \cup DepOutcomes

(* One explicit file at most; dep comes from a dependency root only.       *)
MCInit ==
    /\ parsed \in {(main :> a) @@ (idx :> b) @@ (part :> c) @@ (dep :> d) :
                    a \in MainOutcomes, b \in IdxOutcomes,
                    c \in SubOutcomes, d \in DepOutcomes}
    /\ project \in {{}, {idx, part}, {main, idx, part}}
    /\ explicit \in {{}} \cup {{f} : f \in project}
    /\ Init

MCSpec == MCInit /\ [][Next]_vars /\ Fairness
=============================================================================
