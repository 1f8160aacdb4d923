------------------------------ MODULE MCCommands ------------------------------
(***************************************************************************)
(* Two dependencies, two source files and an excluded draft.  A history is  *)
(* about installing, about one command over edited files, or about both.   *)
(***************************************************************************)
EXTENDS Commands

CONSTANTS a, b, u, v, ftp, t1, main, dev, c1, c2, c3, f, g, h, A, B, Ab, Bad, Un

Order == <<a, b>>
Files == <<f, g, h>>
Anything == [x \in File |-> IF x = h THEN {} ELSE Text]

Both(x, y) == a :> x @@ b :> y
MCManifests ==
    {Both(Git(u, t1), Git(v, main)), Both(Git(u, "HEAD"), Git(v, dev)),
     Both(Git(v, t1), Path("directory")), Both(Git(u, main), Version),
     Both(Git(ftp, t1), Git(v, t1)), Both(Git(u, main), Path("absolute")),
     b :> Git(v, "HEAD"), Invalid}
Scaffolded == a :> Git(u, t1)

(* A declares what B refers to; Un is B before formatting; Ab declares the *)
(* same as A and more; Bad does not parse.                                 *)
Fact(p, d, r, t) == [parses |-> p, declares |-> d, refers |-> r, formatted |-> t]
MCFacts ==
    [t \in Text |-> CASE t = A -> Fact(TRUE, {"n"}, {}, A)
                      [] t = B -> Fact(TRUE, {}, {"n"}, B)
                      [] t = Un -> Fact(TRUE, {}, {"n"}, B)
                      [] t = Ab -> Fact(TRUE, {"n", "m"}, {"m"}, Ab)
                      [] t = Bad -> Fact(FALSE, {}, {}, Bad)]

Histories ==
    {{"install", "manifest", "push", "network"},
     {"install", "manifest", "kill", "checkout"},
     {"init", "install", "kill"},
     {"check", "build", "edit", "midrun", "kill"},
     {"fmt", "parse", "edit", "kill"},
     {"fmt", "edit", "midrun"},
     {"build", "edit", "midrun", "vanish"},
     {"install", "check", "manifest", "network"}}

Moving == {{"install", "manifest", "push", "checkout"}}

(* A project with its sources and two remotes, nothing installed yet.      *)
MCInit ==
    /\ environment \in Environments
    /\ manifest = IF "init" \in environment THEN NoManifest
                  ELSE Both(Git(u, t1), Git(v, main))
    /\ remote = [url \in Url |-> [r \in Refs |-> IF r = t1 THEN c1 ELSE c2]]
    /\ text \in IF "install" \in environment THEN {(f :> A @@ g :> B @@ h :> Bad)}
                ELSE {(f :> x @@ g :> y @@ h :> z) : x \in {A, Ab}, y \in {B, Un, Bad},
                          z \in IF "fmt" \in environment THEN {Bad, B} ELSE {Bad}}
    /\ Init

MCSpec == MCInit /\ [][Next]_allvars
=============================================================================
