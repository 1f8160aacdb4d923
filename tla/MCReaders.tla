------------------------------ MODULE MCReaders ------------------------------
(***************************************************************************)
(* f declares n, refers to it or to m, and goes through two texts; g       *)
(* refers to n and may declare m.  Their sources have two or three lines,  *)
(* tokens that touch, span a line or end with it, and an operator.         *)
(***************************************************************************)
EXTENDS Readers

CONSTANTS f, g, t0, t1, t2, t3, n, m, k, j

Only(decl, refs) == [declares |-> decl, refers |-> refs, imports |-> {}]

MCOutline ==
    [t \in Text |-> CASE t = t0 -> Only({}, {n})
                      [] t = t1 -> Only({n}, {m})
                      [] t = t2 -> Only({n, k}, {n})
                      [] t = t3 -> Only({m}, {n})]

MCDrafts == [u \in Uri |-> IF u = f THEN {t1, t2} ELSE {t0, t3}]

x == "ink"
b == "blank"
nl == "newline"

MCSource ==
    [t \in Text |-> CASE t = t0 -> <<x, x, nl>>
                      [] t = t1 -> <<x, b, x, b, x, nl, nl, x, x, nl, x>>
                      [] t = t2 -> <<x, x, nl, x, b, x, nl, x>>
                      [] t = t3 -> <<x, b, x, x>>]

(* t1: a keyword at the front, an operator, a string from the first line   *)
(* into the third with nothing between; t2: a type over two full lines.    *)
MCNodes ==
    [t \in Text |-> CASE t = t0 -> <<Node("keyword", 0, 2, 1, <<>>)>>
                      [] t = t1 -> <<Node("keyword", 0, 5, 1, <<>>),
                                     Node("number", 0, 11, -1, <<1, 4>>),
                                     Node("string", 4, 8, 0, <<>>)>>
                      [] t = t2 -> <<Node("variable", 7, 8, 0, <<>>),
                                     Node("type", 1, 7, 0, <<>>)>>
                      [] t = t3 -> <<Node("number", 3, 4, 4, <<>>)>>]

MCFormatted == [t \in Text |-> IF t = t0 THEN Absent ELSE t]

Sessions == {{}, {"parallel"}}
Calmly == {{}}

Menu(kinds, docs, r, c) ==
    [kinds |-> kinds, docs |-> docs, requests |-> r, changes |-> c]

(* m and n end alike; m is written in full, and sorts first.  The new name *)
(* of n is k, which f may declare; that of m is j, which nobody has.       *)
MCAlike == [q \in Name |-> IF q \in {m, n} THEN {m, n} ELSE {q}]
MCRank == [q \in Name |-> CASE q = m -> 0 [] q = n -> 1 [] q = j -> 2 [] q = k -> 3]
MCNewName == [q \in Name |-> IF q \in {n, j} THEN k ELSE j]

(* Three overlapping requests of tokens over one change; one rename, one   *)
(* other request, while both documents change.                             *)
TokensOnly == {Menu({"full", "delta"}, {f}, 3, 2)}
MCMenus == TokensOnly \cup {Menu({"formatting", "references"}, Uri, 1, 3),
                            Menu({"rename"}, Uri, 1, 3)}
References == {Menu({"references"}, Uri, 1, 3)}

MCInit == ReadInit /\ disk[g] = t0

MCSpec == MCInit /\ [][ReadNext]_allVars
=============================================================================
