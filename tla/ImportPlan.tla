------------------------------ MODULE ImportPlan ------------------------------
(***************************************************************************)
(* What a load plan promises: the abstract specification of deal-closure.  *)
(*                                                                         *)
(* A world is a set of source files as the FFI parsed them.  From the      *)
(* entry files, the packages that imports and barrel exports lead to form  *)
(* the least set closed under those edges; a plan loads every file of      *)
(* every such package, in one step.  How the set is computed is the        *)
(* business of ImportClosure, which is shown to implement this module.     *)
(***************************************************************************)
EXTENDS SequencesExt

CONSTANTS
    File,           \* the paths discovery can find
    Outcome,        \* what parsing one file can yield (see NoParse, Parsed)
    NoParse,        \* deal_parse gave no handle, or the file was unreadable
    Segment,        \* one dotted component of a package or import path
    AliasDir        \* alias name (a segment) -> the files under its directory

(* A dotted path is the sequence of its segments; "" is << >>.             *)
Path == Seq(Segment)

(* What parses declares a package, the empty path when it names none.      *)
ASSUME OutcomeAssumption == \A outcome \in Outcome \ {NoParse} : outcome.package \in Path

VARIABLES
    parsed,         \* File -> Outcome: ModuleMap.modules, NoParse when absent
    entries,        \* the entry files of this invocation
    aliases,        \* alias name -> namespace, after derivation
    plan,           \* LoadPlan.closure, the files to load
    planned         \* TRUE once plan is known

abstractVars == <<parsed, entries, aliases, plan, planned>>

-----------------------------------------------------------------------------
(* ModuleMap: the files with a module, and the packages they declare.      *)
Modules == {f \in File : parsed[f] # NoParse}

Package(f) == parsed[f].package

FilesForPackage(pkg) == {f \in Modules : Package(f) = pkg}

Packages == {Package(f) : f \in Modules}

(* An alias stands for the longest segment prefix its directory's packages *)
(* share: nothing when they share none, nothing when it names itself.      *)
AliasPackages(name) == {Package(f) : f \in AliasDir[name] \cap Modules} \ {<< >>}

Namespace(name) ==
    IF AliasPackages(name) = {} THEN << >>
    ELSE LongestCommonPrefix(AliasPackages(name))

DeriveAliases ==
    [name \in {n \in DOMAIN AliasDir : Namespace(n) \notin {<< >>, <<n>>}}
        |-> Namespace(name)]

(* Mutant: the rest of an aliased path is lost.                            *)
ApplyAliasToHead(path) ==
    IF path # << >> /\ Head(path) \in DOMAIN aliases
    THEN aliases[Head(path)]
    ELSE path

(* Only the head segment of an import path is an alias key.                *)
ApplyAlias(path) ==
    IF path # << >> /\ Head(path) \in DOMAIN aliases
    THEN aliases[Head(path)] \o Tail(path)
    ELSE path

(* The package behind `export mod.{item}`: the sub-package when one is     *)
(* declared, the exporting package otherwise (a flat, stdlib-style barrel).*)
(* Below the unnamed package the code asks for ".mod", which none declares.*)
ExportTargetPackage(edge) ==
    LET sub == edge.package \o edge.module
    IN  IF edge.package # << >> /\ sub \in Packages THEN sub ELSE edge.package

(* The packages one file leads to, and the packages one package leads to.  *)
FileEdges(f) ==
    {ApplyAlias(path) : path \in parsed[f].imports}
        \cup {ExportTargetPackage(edge) : edge \in parsed[f].exports}

Edges(pkg) == UNION {FileEdges(f) : f \in FilesForPackage(pkg)}

-----------------------------------------------------------------------------
(* Reachability as a least fixed point.                                    *)
Seeds == {Package(f) : f \in entries \cap Modules}

Names == Packages \cup UNION {FileEdges(f) : f \in Modules}

Closed(S) == \A pkg \in S : Edges(pkg) \subseteq S

Reachable ==
    {pkg \in Names :
        \A S \in SUBSET Names : Seeds \subseteq S /\ Closed(S) => pkg \in S}

FilesOf(pkgs) == UNION {FilesForPackage(pkg) : pkg \in pkgs}

(* The loaded set is package-complete, and always holds the entries.       *)
LoadSet == FilesOf(Reachable) \cup entries

-----------------------------------------------------------------------------
AbstractInit ==
    /\ parsed \in [File -> Outcome]
    /\ entries \in SUBSET File
    /\ aliases = DeriveAliases
    /\ plan = {}
    /\ planned = FALSE

Publish ==
    /\ ~planned
    /\ plan' = LoadSet
    /\ planned' = TRUE
    /\ UNCHANGED <<parsed, entries, aliases>>

AbstractSpec == AbstractInit /\ [][Publish]_abstractVars
=============================================================================
