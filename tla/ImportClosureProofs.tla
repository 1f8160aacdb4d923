-------------------------- MODULE ImportClosureProofs --------------------------
(***************************************************************************)
(* Proofs about the import-closure walk, for every set of files and every  *)
(* parse outcome: the walk invariant is inductive, and the loader          *)
(* implements the abstract plan of ImportPlan.                             *)
(***************************************************************************)
EXTENDS ImportClosure, WellFoundedInduction, TLAPS

-----------------------------------------------------------------------------
(* The edges of a package stay among the names the module map knows.       *)
LEMMA EdgesAreNames == \A pkg : Edges(pkg) \subseteq Names
  BY DEF Edges, Names, FilesForPackage

(* The entries' packages are names.                                        *)
LEMMA SeedsAreNames == Seeds \subseteq Names
  BY DEF Seeds, Names, Packages, Modules

(* The entries' packages are reachable.                                    *)
LEMMA SeedsAreReachable == Seeds \subseteq Reachable
  BY SeedsAreNames DEF Reachable

(* What is reachable is closed under imports and exports.                  *)
LEMMA ReachableIsClosed == Closed(Reachable)
  <1> SUFFICES ASSUME NEW pkg \in Reachable, NEW q \in Edges(pkg)
               PROVE  q \in Reachable
    BY DEF Closed
  <1>1. q \in Names
    BY EdgesAreNames
  <1>2. ASSUME NEW S \in SUBSET Names, Seeds \subseteq S, Closed(S)
        PROVE  q \in S
    <2>1. pkg \in S
      BY <1>2 DEF Reachable
    <2> QED
      BY <2>1, <1>2 DEF Closed
  <1> QED
    BY <1>1, <1>2 DEF Reachable

(* ... and it is the least such set.                                       *)
LEMMA ReachableIsLeast ==
  ASSUME NEW S \in SUBSET Names, Seeds \subseteq S, Closed(S)
  PROVE  Reachable \subseteq S
  BY DEF Reachable

(* While the world stands still, so do the notions defined from it.        *)
LEMMA WorldFixesEdges ==
  ASSUME UNCHANGED world
  PROVE  /\ \A pkg : Edges(pkg)' = Edges(pkg)
         /\ \A pkgs : FilesOf(pkgs)' = FilesOf(pkgs)
         /\ Seeds' = Seeds
         /\ Names' = Names
  <1> USE DEF world
  <1>1. Modules' = Modules
    BY DEF Modules
  <1>2. \A f : Package(f)' = Package(f)
    BY DEF Package
  <1>3. Packages' = Packages
    BY <1>1, <1>2 DEF Packages
  <1>4. \A pkg : FilesForPackage(pkg)' = FilesForPackage(pkg)
    BY <1>1, <1>2 DEF FilesForPackage
  <1>5. \A path : ApplyAlias(path)' = ApplyAlias(path)
    BY DEF ApplyAlias
  <1>6. \A edge : ExportTargetPackage(edge)' = ExportTargetPackage(edge)
    BY <1>3 DEF ExportTargetPackage
  <1>7. \A f : FileEdges(f)' = FileEdges(f)
    BY <1>5, <1>6 DEF FileEdges
  <1>8. \A pkg : Edges(pkg)' = Edges(pkg)
    BY <1>4, <1>7 DEF Edges
  <1>9. Seeds' = Seeds
    BY <1>1, <1>2 DEF Seeds
  <1>10. Names' = Names
    BY <1>1, <1>3, <1>7 DEF Names
  <1>11. \A pkgs : FilesOf(pkgs)' = FilesOf(pkgs)
    BY <1>4 DEF FilesOf
  <1> QED
    BY <1>8, <1>9, <1>10, <1>11

LEMMA WorldFixesReachable ==
  ASSUME UNCHANGED world
  PROVE  Reachable' = Reachable
  <1>1. \A S : Closed(S)' = Closed(S)
    BY WorldFixesEdges DEF Closed
  <1> QED
    BY <1>1, WorldFixesEdges DEF Reachable

-----------------------------------------------------------------------------
(* Every variable keeps its type, for every world.                         *)
THEOREM TypeCorrect == Spec => []TypeOK
  <1>1. Init => TypeOK
    <2> SUFFICES ASSUME Init PROVE TypeOK
      OBVIOUS
    <2>1. entries \in SUBSET project
      BY DEF Init, EntryPoints
    <2> QED
      BY <2>1 DEF Init, TypeOK
  <1>2. TypeOK /\ [Next]_vars => TypeOK'
    <2> SUFFICES ASSUME TypeOK, [Next]_vars PROVE TypeOK'
      OBVIOUS
    <2> USE DEF TypeOK
    <2>1. UNCHANGED world => Names' = Names
      BY WorldFixesEdges
    <2>2. CASE RejectEmptyProject
      BY <2>1, <2>2 DEF RejectEmptyProject, world
    <2>3. CASE SeedEntries
      BY <2>1, <2>3, SeedsAreNames DEF SeedEntries, world
    <2>4. CASE \E pkg \in queue : VisitPackage(pkg)
      <3>1. PICK pkg \in queue : VisitPackage(pkg)
        BY <2>4
      <3> QED
        BY <3>1, <2>1, EdgesAreNames DEF VisitPackage, world
    <2>5. CASE CollectFiles
      <3>1. FilesOf(visited) \subseteq File
        BY DEF FilesOf, FilesForPackage, Modules
      <3> QED
        BY <3>1, <2>1, <2>5 DEF CollectFiles, world
    <2>6. CASE RestrictToProject
      <3>1. AnalyzeSet \subseteq project
        BY DEF AnalyzeSet
      <3> QED
        BY <3>1, <2>1, <2>6 DEF RestrictToProject, world
    <2>7. CASE UNCHANGED vars
      BY <2>1, <2>7 DEF vars, world
    <2> QED
      BY <2>2, <2>3, <2>4, <2>5, <2>6, <2>7 DEF Next, Finished
  <1> QED
    BY <1>1, <1>2, PTL DEF Spec

(* The walk's inductive invariant adds to WalkInv what holds between the   *)
(* end of the walk and the return: no package is owed, and the plan is the *)
(* files of the visited packages and the entries; explicit files are       *)
(* entries throughout.                                                     *)
WalkIInv ==
    /\ WalkInv
    /\ explicit \subseteq entries
    /\ phase \in {"restrict", "done"} =>
           /\ queue = {}
           /\ plan = FilesOf(visited) \cup entries
    /\ planned <=> phase \in {"restrict", "done"}
    /\ phase = "done" => analyze = AnalyzeSet

LEMMA WalkIInvInductive ==
  ASSUME TypeOK, WalkIInv, [Next]_vars
  PROVE  WalkIInv'
  <1> USE DEF WalkIInv, WalkInv, TypeOK
  <1>1. UNCHANGED world =>
            /\ Reachable' = Reachable
            /\ Seeds' = Seeds
            /\ \A pkg : Edges(pkg)' = Edges(pkg)
            /\ \A pkgs : FilesOf(pkgs)' = FilesOf(pkgs)
    BY WorldFixesEdges, WorldFixesReachable
  <1>2. CASE RejectEmptyProject
    BY <1>2 DEF RejectEmptyProject, world
  <1>3. CASE SeedEntries
    BY <1>1, <1>3, SeedsAreReachable DEF SeedEntries, world
  <1>4. CASE \E pkg \in queue : VisitPackage(pkg)
    <2>1. PICK pkg \in queue : VisitPackage(pkg)
      BY <1>4
    <2> USE <2>1 DEF VisitPackage
    <2>2. pkg \in Reachable
      OBVIOUS
    <2>3. Edges(pkg) \subseteq Reachable
      BY <2>2, ReachableIsClosed DEF Closed
    <2>4. visited' \subseteq Reachable'
      BY <2>3, <1>1
    <2>5. ASSUME NEW p \in visited' \ queue'
          PROVE  Edges(p)' \subseteq visited'
      <3>1. p = pkg \/ p \in visited \ queue
        BY <2>5
      <3>2. Edges(p) \subseteq visited'
        BY <3>1
      <3> QED
        BY <3>2, <1>1
    <2> QED
      BY <2>4, <2>5, <1>1 DEF world
  <1>5. CASE CollectFiles
    BY <1>1, <1>5 DEF CollectFiles, world
  <1>6. CASE RestrictToProject
    <2>1. AnalyzeSet' = AnalyzeSet
      BY <1>6 DEF RestrictToProject, AnalyzeSet, HasTable, world
    <2> QED
      BY <1>1, <1>6, <2>1 DEF RestrictToProject, world
  <1>7. CASE UNCHANGED vars
    <2>1. AnalyzeSet' = AnalyzeSet
      BY <1>7 DEF vars, AnalyzeSet, HasTable
    <2> QED
      BY <1>1, <1>7, <2>1 DEF vars, world
  <1> QED
    BY <1>2, <1>3, <1>4, <1>5, <1>6, <1>7 DEF Next, Finished

LEMMA WalkIInvHolds == Spec => []WalkIInv
  <1>1. Init => WalkIInv
    BY DEF Init, WalkIInv, WalkInv, EntryPoints
  <1>2. TypeOK /\ WalkIInv /\ [Next]_vars => WalkIInv'
    BY WalkIInvInductive
  <1> QED
    BY <1>1, <1>2, TypeCorrect, PTL DEF Spec

(* The walk never runs ahead of what the entries reach and never forgets a *)
(* package it owes.                                                        *)
THEOREM WalkCorrect == Spec => []WalkInv
  <1>1. WalkIInv => WalkInv
    BY DEF WalkIInv
  <1> QED
    BY <1>1, WalkIInvHolds, PTL

(* When nothing is queued the visited packages are the reachable ones.     *)
LEMMA WalkIsComplete ==
  ASSUME TypeOK, WalkIInv, phase \in {"walk", "restrict", "done"}, queue = {}
  PROVE  visited = Reachable
  <1>1. Closed(visited)
    BY DEF WalkIInv, WalkInv, Closed
  <1>2. Reachable \subseteq visited
    BY <1>1, ReachableIsLeast DEF WalkIInv, WalkInv, TypeOK
  <1> QED
    BY <1>2 DEF WalkIInv, WalkInv

-----------------------------------------------------------------------------
(* The work-list loader implements the abstract plan: its files are those  *)
(* of the least set of packages closed under imports and barrel exports.   *)
THEOREM ClosureImplementsPlan == Spec => ImplementsPlan
  <1>1. Init => AbstractInit
    <2> SUFFICES ASSUME Init PROVE entries \in SUBSET File
      BY DEF Init, AbstractInit
    <2> QED
      BY DEF Init, EntryPoints
  <1>2. TypeOK /\ WalkIInv /\ [Next]_vars => [Publish]_abstractVars
    <2> SUFFICES ASSUME TypeOK, WalkIInv, [Next]_vars
                 PROVE  [Publish]_abstractVars
      OBVIOUS
    <2>1. CASE CollectFiles
      <3>1. visited = Reachable
        BY <2>1, WalkIsComplete DEF CollectFiles
      <3>2. ~planned
        BY <2>1 DEF CollectFiles, WalkIInv
      <3> QED
        BY <2>1, <3>1, <3>2 DEF CollectFiles, Publish, LoadSet, world
    <2>2. CASE ~CollectFiles
      BY <2>2 DEF Next, RejectEmptyProject, SeedEntries, VisitPackage,
                  RestrictToProject, Finished, vars, world, abstractVars
    <2> QED
      BY <2>1, <2>2
  <1> QED
    BY <1>1, <1>2, TypeCorrect, WalkIInvHolds, PTL
       DEF Spec, ImplementsPlan, AbstractSpec

(* At the end the plan is the abstract one.                                *)
LEMMA PlanIsLoadSet ==
  ASSUME TypeOK, WalkIInv, phase = "done"
  PROVE  visited = Reachable /\ plan = LoadSet /\ analyze = AnalyzeSet
  BY WalkIsComplete DEF WalkIInv, LoadSet

(* No project file with diagnostics to show is silently dropped.           *)
THEOREM NoSilentDrop == Spec => []NothingSilentlyDropped
  <1>1. TypeOK /\ WalkIInv => NothingSilentlyDropped
    <2> SUFFICES ASSUME TypeOK, WalkIInv, phase = "done",
                        NEW f \in project \ analyze
                 PROVE  HasTable(f) /\ Package(f) \notin Reachable
      BY DEF NothingSilentlyDropped
    <2>1. f \notin plan /\ HasTable(f)
      BY PlanIsLoadSet DEF AnalyzeSet
    <2>2. f \in FilesForPackage(Package(f))
      BY <2>1 DEF TypeOK, HasTable, Modules, FilesForPackage
    <2> QED
      BY <2>1, <2>2, PlanIsLoadSet DEF LoadSet, FilesOf
  <1> QED
    BY <1>1, TypeCorrect, WalkIInvHolds, PTL

(* Whatever is analyzed with a symbol table is loaded with its whole       *)
(* package and with everything it imports or re-exports.                   *)
THEOREM AnalyzedAreLinked == Spec => []AnalyzedFilesAreLinked
  <1>1. TypeOK /\ WalkIInv => AnalyzedFilesAreLinked
    <2> SUFFICES ASSUME TypeOK, WalkIInv, phase = "done",
                        NEW f \in analyze, HasTable(f)
                 PROVE  FilesOf({Package(f)} \cup FileEdges(f)) \subseteq plan
      BY DEF AnalyzedFilesAreLinked
    <2>1. f \in Modules
      BY DEF TypeOK, HasTable, Modules
    <2>2. f \in FilesOf(Reachable) \cup entries
      <3>1. explicit \subseteq entries
        BY DEF WalkIInv
      <3> QED
        BY PlanIsLoadSet, <3>1 DEF AnalyzeSet, LoadSet
    <2>3. Package(f) \in Reachable
      BY <2>1, <2>2, SeedsAreReachable DEF FilesOf, FilesForPackage, Seeds
    <2>4. f \in FilesForPackage(Package(f))
      BY <2>1 DEF FilesForPackage
    <2>5. FileEdges(f) \subseteq Edges(Package(f))
      BY <2>4 DEF Edges
    <2>6. {Package(f)} \cup FileEdges(f) \subseteq Reachable
      BY <2>3, <2>5, ReachableIsClosed DEF Closed
    <2> QED
      BY <2>6, PlanIsLoadSet DEF LoadSet, FilesOf
  <1> QED
    BY <1>1, TypeCorrect, WalkIInvHolds, PTL
-----------------------------------------------------------------------------
(* Of natural numbers with a bound one is the greatest.                    *)
LEMMA GreatestExists ==
  ASSUME NEW S \in SUBSET Nat, S # {}, NEW K \in Nat, \A s \in S : s <= K
  PROVE  \E m \in S : \A s \in S : s <= m
  <1> DEFINE T == {K - s : s \in S}
             R == {ij \in Nat \X Nat : ij[1] < ij[2]}
  <1>1. T \subseteq Nat /\ T # {}
    <2>1. \A s \in S : K - s \in Nat
      OBVIOUS
    <2> QED
      BY <2>1
  <1>2. IsWellFoundedOn(R, Nat)
    BY NatLessThanWellFounded, Zenon DEF OpToRel
  <1>3. PICK m \in T : \A y \in T : ~(<<y, m>> \in R)
    <2> HIDE DEF R, T
    <2> QED
      BY <1>1, <1>2, WFMin
  <1>4. PICK g \in S : m = K - g
    OBVIOUS
  <1>5. ASSUME NEW s \in S
        PROVE  s <= g
    <2>1. K - s \in T /\ K - s \in Nat /\ m \in Nat
      BY <1>1
    <2>2. ~(K - s < m)
      BY <1>3, <2>1
    <2> QED
      BY <1>4, <2>1, <2>2
  <1> QED
    BY <1>5

(* What LongestCommonPrefix chooses is a prefix of every member.           *)
LEMMA LongestIsCommon ==
  ASSUME NEW S \in SUBSET Path, S # {}
  PROVE  \A t \in S : IsPrefix(LongestCommonPrefix(S), t)
  <1> DEFINE C == CommonPrefixes(S)
  <1>1. PICK s \in S : TRUE
    OBVIOUS
  <1>2. << >> \in C
    <2>1. \A t \in S : IsPrefix(<< >>, t)
      BY DEF IsPrefix, Path
    <2>2. << >> \in Prefixes(s)
      BY DEF Prefixes, Path
    <2> QED
      BY <2>1, <2>2 DEF CommonPrefixes
  <1>3. \A c \in C : Len(c) \in Nat /\ Len(c) <= Len(s)
    <2> SUFFICES ASSUME NEW c \in C
                 PROVE  Len(c) \in Nat /\ Len(c) <= Len(s)
      OBVIOUS
    <2>1. PICK t \in S : c \in Prefixes(t)
      BY DEF CommonPrefixes
    <2>2. Len(c) \in Nat
      BY <2>1 DEF Prefixes, Path
    <2>3. IsPrefix(c, s)
      BY DEF CommonPrefixes
    <2> QED
      BY <2>2, <2>3 DEF IsPrefix
  <1>4. PICK n \in {Len(c) : c \in C} : \A k \in {Len(c) : c \in C} : k <= n
    <2>1. Len(s) \in Nat
      BY DEF Path
    <2> DEFINE L == {Len(c) : c \in C}
    <2> HIDE DEF C
    <2>2. L \in SUBSET Nat /\ L # {}
      BY <1>2, <1>3
    <2>3. \A k \in L : k <= Len(s)
      BY <1>3
    <2> HIDE DEF L
    <2>4. \E n \in L : \A k \in L : k <= n
      BY <2>1, <2>2, <2>3, GreatestExists
    <2> QED
      BY <2>4 DEF L
  <1>5. \E longest \in C : \A other \in C : Len(other) <= Len(longest)
    BY <1>4
  <1>6. LongestCommonPrefix(S) \in C
    BY <1>5 DEF LongestCommonPrefix
  <1> QED
    BY <1>6 DEF CommonPrefixes

LEMMA AliasesAreDerived == Spec => [](aliases = DeriveAliases)
  <1>1. Init => aliases = DeriveAliases
    BY DEF Init
  <1>2. aliases = DeriveAliases /\ [Next]_vars => (aliases = DeriveAliases)'
    <2> SUFFICES ASSUME aliases = DeriveAliases, [Next]_vars
                 PROVE  aliases' = DeriveAliases'
      OBVIOUS
    <2>1. parsed' = parsed /\ aliases' = aliases
      BY DEF Next, RejectEmptyProject, SeedEntries, VisitPackage, CollectFiles,
             RestrictToProject, Finished, world, vars
    <2>2. \A name : AliasPackages(name)' = AliasPackages(name)
      BY <2>1 DEF AliasPackages, Modules, Package
    <2>3. \A name : Namespace(name)' = Namespace(name)
      BY <2>2 DEF Namespace
    <2> QED
      BY <2>1, <2>3 DEF DeriveAliases
  <1> QED
    BY <1>1, <1>2, PTL DEF Spec

(* Whatever an alias name might have meant, an import through it loads the *)
(* file whose package it spells below the namespace, and that namespace is *)
(* a prefix of every package declared under the alias's directory.         *)
THEOREM AliasesLoad == Spec => []AliasedImportsLoad
  <1>1. TypeOK /\ WalkIInv /\ aliases = DeriveAliases => AliasedImportsLoad
    <2> SUFFICES ASSUME TypeOK, WalkIInv, aliases = DeriveAliases, phase = "done",
                        NEW f \in plan \cap Modules, NEW path \in parsed[f].imports,
                        path # << >>, Head(path) \in DOMAIN aliases,
                        NEW g \in AliasDir[Head(path)] \cap Modules
                 PROVE  /\ IsPrefix(aliases[Head(path)], Package(g))
                           \/ Package(g) = << >>
                        /\ Package(g) = aliases[Head(path)] \o Tail(path) => g \in plan
      BY Zenon DEF AliasedImportsLoad
    <2>1. \A h \in Modules : Package(h) \in Path
      BY OutcomeAssumption DEF TypeOK, Modules, Package
    <2>2. ASSUME Package(g) # << >>
          PROVE  IsPrefix(aliases[Head(path)], Package(g))
      <3> DEFINE S == AliasPackages(Head(path))
      <3>1. Package(g) \in S
        BY <2>2 DEF AliasPackages
      <3>2. S \in SUBSET Path
        BY <2>1 DEF AliasPackages
      <3>3. aliases[Head(path)] = LongestCommonPrefix(S)
        BY <3>1 DEF DeriveAliases, Namespace
      <3> HIDE DEF S
      <3> QED
        BY <3>1, <3>2, <3>3, LongestIsCommon
    <2>3. ASSUME Package(g) = aliases[Head(path)] \o Tail(path)
          PROVE  g \in plan
      <3>1. Package(f) \in Reachable
        BY PlanIsLoadSet, SeedsAreReachable DEF LoadSet, FilesOf, FilesForPackage, Seeds
      <3>2. Package(g) \in FileEdges(f)
        BY <2>3 DEF FileEdges, ApplyAlias
      <3>3. FileEdges(f) \subseteq Edges(Package(f))
        BY DEF Edges, FilesForPackage
      <3>4. Package(g) \in Reachable
        BY <3>1, <3>2, <3>3, ReachableIsClosed DEF Closed
      <3> QED
        BY <3>4, PlanIsLoadSet DEF LoadSet, FilesOf, FilesForPackage
    <2> QED
      BY <2>2, <2>3
  <1> QED
    BY <1>1, TypeCorrect, WalkIInvHolds, AliasesAreDerived, PTL
=============================================================================
