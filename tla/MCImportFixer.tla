----------------------------- MODULE MCImportFixer -----------------------------
(***************************************************************************)
(* Two target files over a standard package, a second package that may     *)
(* declare the same name, and their own; every mix of bare, qualified and  *)
(* undeclared references, and texts with and without imports to merge into.*)
(***************************************************************************)
EXTENDS ImportFixer

CONSTANTS f, g, app, lib, units, Mass, Wheel, Typo, Real, Kg

Type(pkg, name) == [pkg |-> pkg, name |-> name, kind |-> "type"]

MCPackage == {app, lib, units}
MCName == {Mass, Wheel, Typo, Real, Kg}

MCWorlds ==
    {{Type(units, Mass), Type(units, Kg), Type(app, Wheel), [pkg |-> units, name |-> Typo, kind |-> "package"]} \cup more :
        more \in SUBSET {Type(lib, Mass), Type(app, Mass)}}

MCHeaders == {h \in [Target -> {app, lib}] : h[f] = app}

Bare(name) == [qualifier |-> NoPackage, name |-> name]
In(pkg, name) == [qualifier |-> pkg, name |-> name]

References ==
    SUBSET {Bare(Mass), Bare(Wheel), In(units, Mass)}
      \cup {{Bare(Typo), Bare(Real)}, {In(lib, Mass), Bare(Mass)}, {In(app, Wheel), Bare(Wheel)}}

MCMentions ==
    {uses \in [Target -> References] : uses[g] \in {{Bare(Wheel)}, {Bare(Mass), Bare(Wheel)}}}

Drafts ==
    {<<PackageLine, Other>>, <<PackageLine, Import(app, {Wheel}), Other>>,
     <<PackageLine, Wildcard(units), Other>>,
     <<PackageLine, Import(units, {Kg}), Wildcard(app)>>,
     <<PackageLine, Import(lib, {Mass}), Other>>, <<Other>>}

(* One file may also import one package twice.                             *)
MCTexts ==
    [Target -> Drafts]
        \cup {[t \in Target |-> IF t = f THEN <<Import(units, {Kg}), Import(units, {}), Other>>
                                 ELSE <<PackageLine, Other>>]}

(* The same with texts the line reader misjudges.                          *)
OddHeaders == [Target -> {lib}]
OddMentions == [Target -> {{Bare(Mass), Bare(Wheel)}}]
OddTexts ==
    [Target -> {<<PackageLine, Open(units), Close({Mass}), Other>>,
                <<PackageLine, Commented(Import(app, {})), Other>>}]
=============================================================================
