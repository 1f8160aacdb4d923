----------------------------- MODULE ImportClosure -----------------------------
(***************************************************************************)
(* plan_load_with_aliases: build the module map, derive the aliases, pick  *)
(* the entry points, walk the packages with a work list, and restrict the  *)
(* files to analyze.  The CLI's check/build/emit, the simulation gate and  *)
(* (the walk alone) the language server all load files this way.           *)
(*                                                                         *)
(* The code pops its work list from the end; here any queued package may   *)
(* be next, so what is shown does not depend on the order of the walk.     *)
(***************************************************************************)
EXTENDS ImportPlan

CONSTANTS
    Dealx           \* the files with the .dealx extension

VARIABLES
    project,        \* project_files; the other files come from dependencies
    explicit,       \* explicit file arguments, already part of project_files
    visited,        \* packages seen by the walk
    queue,          \* packages seen and not yet expanded
    analyze,        \* LoadPlan.analyze
    phase           \* "seed", "walk", "restrict", "done", "error"

vars == <<parsed, entries, aliases, plan, planned, project, explicit,
          visited, queue, analyze, phase>>

world == <<parsed, entries, aliases, project, explicit>>
-----------------------------------------------------------------------------
(* Explicit files, else the .dealx files, else every project file.         *)
EntryPoints ==
    CASE explicit # {}                          -> explicit
      [] explicit = {} /\ project \cap Dealx # {} -> project \cap Dealx
      [] OTHER                                  -> project

(* A file that parsed to no symbol table contributes nothing but its path. *)
HasTable(f) == parsed[f] # NoParse /\ parsed[f].table

(* Mutants: dependency files are analyzed too; unparsable files are not.   *)
AnalyzeEverything ==
    {f \in File : f \in plan \/ ~HasTable(f)}

AnalyzeReachable ==
    {f \in project : f \in plan} \cup (explicit \cap project)

(* Reachable project files, and those whose diagnostics must surface       *)
(* because nothing is known about what they declare.                       *)
AnalyzeSet ==
    {f \in project : f \in plan \/ ~HasTable(f)} \cup (explicit \cap project)

Init ==
    /\ parsed \in [File -> Outcome]
    /\ project \in SUBSET File
    /\ explicit \in SUBSET project
    /\ entries = EntryPoints
    /\ aliases = DeriveAliases
    /\ plan = {}
    /\ planned = FALSE
    /\ visited = {}
    /\ queue = {}
    /\ analyze = {}
    /\ phase = "seed"

(* "no .deal or .dealx files found".                                       *)
RejectEmptyProject ==
    /\ phase = "seed"
    /\ project = {}
    /\ phase' = "error"
    /\ UNCHANGED <<world, plan, planned, visited, queue, analyze>>

SeedEntries ==
    /\ phase = "seed"
    /\ project # {}
    /\ visited' = Seeds
    /\ queue' = Seeds
    /\ phase' = "walk"
    /\ UNCHANGED <<world, plan, planned, analyze>>

(* Mutants: new packages are seen but not queued; packages are queued      *)
(* again each time they are met; barrel exports are not followed.          *)
VisitWithoutQueueing(pkg) ==
    /\ phase = "walk"
    /\ pkg \in queue
    /\ visited' = visited \cup Edges(pkg)
    /\ queue' = queue \ {pkg}
    /\ UNCHANGED <<world, plan, planned, analyze, phase>>

VisitAgain(pkg) ==
    /\ phase = "walk"
    /\ pkg \in queue
    /\ visited' = visited \cup Edges(pkg)
    /\ queue' = (queue \ {pkg}) \cup Edges(pkg)
    /\ UNCHANGED <<world, plan, planned, analyze, phase>>

VisitImports(pkg) ==
    LET found == UNION {{ApplyAlias(path) : path \in parsed[f].imports} :
                           f \in FilesForPackage(pkg)}
    IN  /\ phase = "walk"
        /\ pkg \in queue
        /\ visited' = visited \cup found
        /\ queue' = (queue \ {pkg}) \cup (found \ visited)
        /\ UNCHANGED <<world, plan, planned, analyze, phase>>

(* Only a package inserted into visited for the first time is queued.      *)
VisitPackage(pkg) ==
    /\ phase = "walk"
    /\ pkg \in queue
    /\ visited' = visited \cup Edges(pkg)
    /\ queue' = (queue \ {pkg}) \cup (Edges(pkg) \ visited)
    /\ UNCHANGED <<world, plan, planned, analyze, phase>>

(* Mutant: an entry that did not parse is not loaded.                      *)
CollectReached ==
    /\ phase = "walk"
    /\ queue = {}
    /\ plan' = FilesOf(visited)
    /\ planned' = TRUE
    /\ phase' = "restrict"
    /\ UNCHANGED <<world, visited, queue, analyze>>

CollectFiles ==
    /\ phase = "walk"
    /\ queue = {}
    /\ plan' = FilesOf(visited) \cup entries
    /\ planned' = TRUE
    /\ phase' = "restrict"
    /\ UNCHANGED <<world, visited, queue, analyze>>

RestrictToProject ==
    /\ phase = "restrict"
    /\ analyze' = AnalyzeSet
    /\ phase' = "done"
    /\ UNCHANGED <<world, plan, planned, visited, queue>>

Finished ==
    /\ phase \in {"done", "error"}
    /\ UNCHANGED vars

Next ==
    \/ RejectEmptyProject
    \/ SeedEntries
    \/ \E pkg \in queue : VisitPackage(pkg)
    \/ CollectFiles
    \/ RestrictToProject
    \/ Finished

Spec == Init /\ [][Next]_vars

(* One thread runs the loader to its end.                                  *)
Fairness == WF_vars(Next)

-----------------------------------------------------------------------------
(* Every variable keeps its type; the walk never leaves the names the      *)
(* module map knows.                                                       *)
TypeOK ==
    /\ parsed \in [File -> Outcome]
    /\ project \in SUBSET File
    /\ explicit \in SUBSET project
    /\ entries \in SUBSET project
    /\ visited \in SUBSET Names
    /\ queue \in SUBSET Names
    /\ plan \in SUBSET File
    /\ planned \in BOOLEAN
    /\ analyze \in SUBSET project
    /\ phase \in {"seed", "walk", "restrict", "done", "error"}

(* While it runs, the walk of closure_files_with_aliases has the entries'  *)
(* packages behind it, never runs past what they reach, and owes work only *)
(* for queued packages.                                                    *)
WalkInv ==
    phase \in {"walk", "restrict", "done"} =>
        /\ Seeds \subseteq visited
        /\ visited \subseteq Reachable
        /\ queue \subseteq visited
        /\ \A pkg \in visited \ queue : Edges(pkg) \subseteq visited

(* The walk of the code computes the least fixed point of the abstract     *)
(* plan, for import cycles, barrels and aliases alike.                     *)
ImplementsPlan == AbstractSpec

(* A project file left out of LoadPlan.analyze parsed cleanly and cannot   *)
(* be reached: nothing with diagnostics to show is silently dropped.       *)
NothingSilentlyDropped ==
    phase = "done" =>
        \A f \in project \ analyze : HasTable(f) /\ Package(f) \notin Reachable

(* Strict resolution of an analyzed file needs the whole of its package    *)
(* and of every package it imports or re-exports in the external table:    *)
(* whatever is analyzed with a symbol table is loaded with all of those.   *)
AnalyzedFilesAreLinked ==
    phase = "done" =>
        \A f \in {g \in analyze : HasTable(g)} :
            FilesOf({Package(f)} \cup FileEdges(f)) \subseteq plan

(* An import through an alias loads the file that declares the package the *)
(* alias's own directory stands for (ADR-0004 R1), whatever else the alias *)
(* name might have meant.                                                  *)
AliasedImportsLoad ==
    phase = "done" =>
        \A f \in plan \cap Modules : \A path \in parsed[f].imports :
            (path # << >> /\ Head(path) \in DOMAIN aliases) =>
                \A g \in AliasDir[Head(path)] \cap Modules :
                    /\ IsPrefix(aliases[Head(path)], Package(g))
                       \/ Package(g) = << >>
                    /\ Package(g) = aliases[Head(path)] \o Tail(path) => g \in plan

(* The walk ends, import cycles included, and the loader returns.          *)
LoaderReturns == <>(phase \in {"done", "error"})
=============================================================================
