---------------------------- MODULE MCVerifyReport ----------------------------
(***************************************************************************)
(* Two files, two simulations, two requirements.  The first file declares  *)
(* the model, the second one holds the traceability blocks.                *)
(***************************************************************************)
EXTENDS VerifyReport

CONSTANTS a, b, R1, R2, cap, pack, bat, sys, out, got, low

One == <<1, 1>>
Three == <<3, 1>>

MCName == {R1, R2, cap, pack, bat, sys, out, got, low}

MCOutputs == {(<<out>> :> v) : v \in {One, Three}}

Ident(path) == [k |-> "ident", v |-> path]
AtLeastWords(l, r) == <<Ident(l), [k |-> ">="], Ident(r)>>

(* Two requirements may declare one threshold name; the battery's capacity *)
(* is a default, an instance override, or both; one value is no literal.   *)
Model ==
    {<<Attribute(<<R1>>, cap, v), Attribute(<<R2>>, cap, w), Attribute(<<pack>>, cap, z)>>
        \o more :
        v \in {One, Three}, w \in {Three, NoValue}, z \in {One},
        more \in {<< >>, <<Override(<<sys>>, bat, pack, cap, Three)>>}}

Need(req) == [k |-> "requirement", name |-> req]
Criterion(l, r) == [k |-> "criteria", words |-> AtLeastWords(l, r)]
Evidence(s, kind, from, to) ==
    [k |-> "evidence", binding |-> s, kind |-> kind, maps |-> <<[from |-> from, to |-> to]>>]
Copy(to, from) == [k |-> "compute", stmts |-> <<[var |-> to, expr |-> <<Ident(from)>>]>>]

Simulated(req, s) ==
    <<Need(req), Evidence(s, "simulation", <<out>>, <<got>>), Criterion(<<got>>, <<req, cap>>)>>
Designed(req) ==
    <<Need(req), Evidence(NoSim, "design", <<sys, bat, cap>>, <<got>>),
      Criterion(<<got>>, <<req, cap>>)>>
Twice(req) ==
    <<Need(req), Evidence(a, "simulation", <<out>>, <<low>>),
      Evidence(b, "simulation", <<out>>, <<got>>), Copy(<<low>>, <<got>>),
      Criterion(<<low>>, <<req, cap>>)>>
(* The criterion of a block with a gap, or none.                           *)
Gap(req) == Simulated(req, a) \o <<[k |-> "gap"]>>
Unstated(req) == <<Need(req), Evidence(a, "simulation", <<out>>, <<got>>)>>
(* Half of the criterion has no data: what it is computed from is missing. *)
Undecided(req) ==
    <<Need(req), Evidence(a, "simulation", <<out>>, <<got>>), Copy(<<low>>, <<sys>>),
      [k |-> "criteria",
       words |-> AtLeastWords(<<got>>, <<req, cap>>) \o <<[k |-> "AND"]>>
                   \o AtLeastWords(<<low>>, <<got>>)]>>
Orphan == <<[k |-> "status", partial |-> TRUE], Criterion(<<got>>, <<low>>)>>

Traces ==
    {<<x, y>> : x \in {Simulated(R1, a), Designed(R1), Twice(R1)},
                y \in {Simulated(R2, b), Designed(R1), Gap(R2), Unstated(R2), Orphan, Undecided(R2)}}

Ast(decls, blocks) == [decls |-> decls, blocks |-> blocks]

MCProjects ==
    {<<Ast(d, more), Ast(<< >>, t)>> :
        d \in Model, t \in Traces, more \in {<< >>, <<Simulated(R2, a)>>}}

MCManifests ==
    {[s \in Sim |-> Absent], [s \in Sim |-> (<<out>> :> One)],
     (a :> Absent) @@ (b :> (<<out>> :> Three))}
=============================================================================
