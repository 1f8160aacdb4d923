------------------------------ MODULE ImportFixer ------------------------------
(***************************************************************************)
(* `deal fix-imports [--check]`: index which packages declare a name, then *)
(* for every target file plan the imports its references need and rewrite  *)
(* its text line by line.  The text is a sequence of lines, each reduced   *)
(* to what the fixer's own line reader and the compiler's parser see in it *)
(* (ParseImports stands for the compiler and is external).                 *)
(*                                                                         *)
(* The process may be killed between two files or inside a write, and the  *)
(* command run again.  Imports inside a body, which bind only there, and   *)
(* re-exports are left out.                                                *)
(***************************************************************************)
EXTENDS SequencesExt, FiniteSetsExt

CONSTANTS
    Target,         \* the .deal files under the given paths
    NoPackage,      \* the qualifier of a bare reference
    Primitives,     \* prelude names, never imported
    Package, Name,
    Worlds,         \* the declarations there may be
    Headers,        \* the packages the targets may declare
    Mentions,       \* the references they may hold
    Texts,          \* the texts they may start from
    MaxRuns         \* bound on the invocations of one history

VARIABLES
    elements,       \* declarations of project and dependencies: [pkg, name, kind]
    package,        \* Target -> the package it declares
    references,     \* Target -> referenced types: [qualifier, name]
    text,           \* Target -> its lines
    check,          \* --check of the running invocation
    global,         \* name -> declaring packages; << >> before it is built
    todo,           \* targets not yet processed
    changed, attention,         \* the counters and flags behind the exit code
    skipped,        \* targets this run passed over without a word
    torn,           \* targets that a killed write cut short
    exit,           \* "none" while running, "ok", "user", "killed"
    runs

world == <<elements, package, references>>
vars == <<world, text, check, global, todo, changed, attention, skipped, torn, exit, runs>>

-----------------------------------------------------------------------------
(* A line: `package p;`, a one-line import (in code or inside a block      *)
(* comment), the first and the closing line of an import spread over two,  *)
(* or anything else.                                                       *)
PackageLine == [k |-> "package"]
Import(pkg, items) == [k |-> "import", pkg |-> pkg, wild |-> FALSE, items |-> items, code |-> TRUE]
Wildcard(pkg) == [k |-> "import", pkg |-> pkg, wild |-> TRUE, items |-> {}, code |-> TRUE]
Commented(line) == [line EXCEPT !.code = FALSE]
Open(pkg) == [k |-> "open", pkg |-> pkg]
Close(items) == [k |-> "close", items |-> items]
Other == [k |-> "other"]

Line ==
    {PackageLine, Other}
        \cup [k : {"import"}, pkg : Package, wild : BOOLEAN, items : SUBSET Name, code : BOOLEAN]
        \cup [k : {"open"}, pkg : Package] \cup [k : {"close"}, items : SUBSET Name]

(* What a project and its files are: finitely many declarations and        *)
(* references, and texts of finitely many lines.                           *)
ASSUME FixerAssumption ==
    /\ \A declared \in Worlds : IsFiniteSet(declared)
    /\ \A declared \in Worlds : \A e \in declared : e.pkg \in Package /\ e.name \in Name
    /\ \A uses \in Mentions : \A f \in Target : IsFiniteSet(uses[f])
    /\ \A drafts \in Texts : drafts \in [Target -> Seq(Line)]

(* The compiler's view: the imports of a text, when its imports parse.     *)
Parses(lines) ==
    \A i \in DOMAIN lines :
        /\ lines[i].k = "open" => i < Len(lines) /\ lines[i + 1].k = "close"
        /\ lines[i].k = "close" => i > 1 /\ lines[i - 1].k = "open"

ParseImports(lines) ==
    {[pkg |-> lines[i].pkg, wild |-> lines[i].wild, items |-> lines[i].items] :
        i \in {j \in DOMAIN lines : lines[j].k = "import" /\ lines[j].code}}
    \cup {[pkg |-> lines[i].pkg, wild |-> FALSE, items |-> lines[i + 1].items] :
            i \in {j \in DOMAIN lines : lines[j].k = "open"}}

-----------------------------------------------------------------------------
(* Packages are entries of the element tables too, but not importable.     *)
BuildGlobalIndex ==
    LET types == {e \in elements : e.kind # "package"}
    IN  [name \in {e.name : e \in types} |-> {e.pkg : e \in {d \in types : d.name = name}}]

Declaring(name) == IF name \in DOMAIN global THEN global[name] ELSE {}

(* Mutants: an item of a package's import brings in the whole package;     *)
(* wildcards bring in nothing.                                             *)
InScopeByPackage(f, ref) ==
    \/ ref.name \in Primitives
    \/ package[f] \in Declaring(ref.name)
    \/ \E edge \in ParseImports(text[f]) : edge.pkg \in Declaring(ref.name)

InScopeByName(f, ref) ==
    \/ ref.name \in Primitives
    \/ package[f] \in Declaring(ref.name)
    \/ \E edge \in ParseImports(text[f]) : ref.name \in edge.items

(* What the fixer takes as in scope: for a bare name its own package, any  *)
(* selective import of that name, a wildcard of a declaring package; for a *)
(* qualified one, its package itself or an import of exactly that path.    *)
InScope(f, ref) ==
    IF ref.qualifier = NoPackage
    THEN \/ ref.name \in Primitives
         \/ package[f] \in Declaring(ref.name)
         \/ \E edge \in ParseImports(text[f]) :
              \/ ~edge.wild /\ ref.name \in edge.items
              \/ edge.wild /\ edge.pkg \in Declaring(ref.name)
    ELSE ref.qualifier \in {package[f]} \cup {edge.pkg : edge \in ParseImports(text[f])}

(* The packages an import could come from.                                 *)
Candidates(f, ref) ==
    IF ref.qualifier = NoPackage
    THEN Declaring(ref.name) \ {package[f]}
    ELSE Declaring(ref.name) \cap {ref.qualifier}

Needed(f) ==
    {[pkg |-> CHOOSE p \in Candidates(f, ref) : TRUE, name |-> ref.name] :
        ref \in {r \in references[f] : ~InScope(f, r) /\ Cardinality(Candidates(f, r)) = 1}}

(* Unresolved and ambiguous names are reported, never fixed.  A qualifier  *)
(* that declares no such name is reported even when it is imported.        *)
NeedsAttention(f) ==
    \E ref \in references[f] :
        Cardinality(Candidates(f, ref)) # 1
            /\ (ref.qualifier # NoPackage \/ ~InScope(f, ref))

-----------------------------------------------------------------------------
(* apply_imports.  The line reader takes any line that looks like a whole  *)
(* one-line import, and for the insertion any that begins like one.        *)
LooksLikeImport(line) == line.k = "import" /\ ~line.wild

MergeLine(lines, pkg) ==
    SelectInSeq(lines, LAMBDA line : LooksLikeImport(line) /\ line.pkg = pkg)

NamesFor(needed, pkg) == {n.name : n \in {m \in needed : m.pkg = pkg}}

(* Mutant: a merge replaces the items of the line.                         *)
MergeReplacing(lines, needed) ==
    [i \in DOMAIN lines |->
        IF /\ LooksLikeImport(lines[i])
           /\ MergeLine(lines, lines[i].pkg) = i
           /\ NamesFor(needed, lines[i].pkg) # {}
        THEN [lines[i] EXCEPT !.items = NamesFor(needed, lines[i].pkg)]
        ELSE lines[i]]

MergeExisting(lines, needed) ==
    [i \in DOMAIN lines |->
        IF LooksLikeImport(lines[i]) /\ MergeLine(lines, lines[i].pkg) = i
        THEN [lines[i] EXCEPT !.items = @ \cup NamesFor(needed, lines[i].pkg)]
        ELSE lines[i]]

InsertIndex(lines) ==
    LET imports == SelectLastInSeq(lines, LAMBDA line : line.k \in {"import", "open"})
    IN  IF imports > 0 THEN imports
        ELSE SelectInSeq(lines, LAMBDA line : line.k = "package")

ApplyImports(lines, needed) ==
    LET fresh == {n.pkg : n \in {m \in needed : MergeLine(lines, m.pkg) = 0}}
        new == SetToSeq({Import(pkg, NamesFor(needed, pkg)) : pkg \in fresh})
        at == InsertIndex(lines)
        merged == MergeExisting(lines, needed)
    IN  SubSeq(merged, 1, at) \o new \o SubSeq(merged, at + 1, Len(lines))

-----------------------------------------------------------------------------
Init ==
    /\ elements \in Worlds
    /\ package \in Headers
    /\ references \in Mentions
    /\ text \in Texts
    /\ check = FALSE
    /\ global = << >>
    /\ todo = {}
    /\ changed = 0
    /\ attention = FALSE
    /\ skipped = {} /\ torn = {}
    /\ exit = "ok"
    /\ runs = 0

(* The global index comes from the load plan, the targets from the paths.  *)
RunFixImports(checkOnly) ==
    /\ exit # "none"
    /\ runs < MaxRuns
    /\ check' = checkOnly
    /\ global' = BuildGlobalIndex
    /\ todo' = Target
    /\ changed' = 0
    /\ attention' = FALSE
    /\ skipped' = {}
    /\ exit' = "none"
    /\ runs' = runs + 1
    /\ UNCHANGED <<world, text, torn>>

Fixed(f) == ApplyImports(text[f], Needed(f))

FixFile(f) ==
    /\ exit = "none"
    /\ f \in todo \ torn
    /\ todo' = todo \ {f}
    /\ attention' = (attention \/ NeedsAttention(f))
    /\ changed' = changed + (IF Fixed(f) # text[f] THEN 1 ELSE 0)
    /\ text' = IF check THEN text ELSE [text EXCEPT ![f] = Fixed(f)]
    /\ UNCHANGED <<world, check, global, skipped, torn, exit, runs>>

(* Without a parse a file is passed over with a warning, without an AST    *)
(* that can be read (one nested too deep for it) in silence.  What is left *)
(* of a torn file may be either, or a text with something to fix.          *)
SkipFile(f) ==
    /\ exit = "none"
    /\ f \in todo
    /\ todo' = todo \ {f}
    /\ \/ attention' = TRUE /\ UNCHANGED skipped
       \/ skipped' = skipped \cup {f} /\ UNCHANGED attention
    /\ changed' \in IF f \in torn THEN {changed, changed + 1} ELSE {changed}
    /\ UNCHANGED <<world, text, check, global, torn, exit, runs>>

(* Only --check turns what is missing into a failure.                      *)
Finish ==
    /\ exit = "none"
    /\ todo = {}
    /\ exit' = IF check /\ (changed > 0 \/ attention) THEN "user" ELSE "ok"
    /\ UNCHANGED <<world, text, check, global, todo, changed, attention, skipped, torn, runs>>

(* Killed, or ended by a read or a write that fails.  fs::write truncates  *)
(* the source before it fills it.                                          *)
Kill ==
    /\ exit = "none"
    /\ exit' = "killed"
    /\ \/ UNCHANGED torn
       \/ ~check /\ \E f \in todo \ torn : Fixed(f) # text[f] /\ torn' = torn \cup {f}
    /\ UNCHANGED <<world, text, check, global, todo, changed, attention, skipped, runs>>

Next ==
    \/ \E checkOnly \in BOOLEAN : RunFixImports(checkOnly)
    \/ \E f \in Target : FixFile(f) \/ SkipFile(f)
    \/ Finish
    \/ Kill

Spec == Init /\ [][Next]_vars

-----------------------------------------------------------------------------
(* Strict scoping as sema applies it to the text of a file.  A bare name   *)
(* means its own package's declaration, or else that of the one package    *)
(* whose imports bind it: imports that bind it to two leave it undefined.  *)
(* A qualified one means the declaration of its own or an imported package.*)
Declarers(name) == {e.pkg : e \in {d \in elements : d.name = name /\ d.kind # "package"}}

Bindings(f, name) ==
    {edge.pkg : edge \in {e \in ParseImports(text[f]) :
                             e.pkg \in Declarers(name) /\ (e.wild \/ name \in e.items)}}

Resolves(f, ref) ==
    IF ref.qualifier = NoPackage
    THEN \/ ref.name \in Primitives
         \/ package[f] \in Declarers(ref.name)
         \/ \E pkg \in Package : Bindings(f, ref.name) = {pkg}
    ELSE ref.qualifier \in Declarers(ref.name)
            \cap ({package[f]} \cup {edge.pkg : edge \in ParseImports(text[f])})

Ambiguous(f, ref) ==
    ref.qualifier = NoPackage /\ \E p, q \in Bindings(f, ref.name) : p # q

(* No line only looks like an import, no import is spread over lines, and  *)
(* no import names what its package does not declare.                      *)
Plain(f) ==
    \A i \in DOMAIN text[f] :
        /\ text[f][i].k \notin {"open", "close"}
        /\ text[f][i].k = "import" => text[f][i].code

Honest(f) ==
    \A edge \in ParseImports(text[f]) : \A item \in edge.items :
        \E e \in elements : e.pkg = edge.pkg /\ e.name = item /\ e.kind # "package"

AllPlain == \A f \in Target : Plain(f) /\ Honest(f)

(* `--check` is a gate: when it exits clean, every reference of every      *)
(* target resolves, whatever runs, finished or killed, came before.  It is *)
(* no gate for a name that two imports bind, FixAmbiguous.cfg, nor for the *)
(* files it passes over in silence.                                        *)
CleanMeansResolved ==
    AllPlain /\ check /\ exit = "ok" /\ runs > 0 =>
        \A f \in Target \ skipped : \A ref \in references[f] :
            Resolves(f, ref) \/ Ambiguous(f, ref)

(* The text surgery does what the plan says and nothing else: in one step  *)
(* no import of a file is lost and no package gets a second selective one; *)
(* every reference that one package alone declares resolves after it; one  *)
(* that resolved before does, but for a bare name the file also refers to  *)
(* by a package, whose new import may bind it twice; and what came in is   *)
(* needed by some reference, from the one package that declares it.        *)
EdgeItems(lines) ==
    UNION {{<<edge.pkg, item>> : item \in edge.items} : edge \in ParseImports(lines)}

OneLineEach(lines) ==
    \A i, j \in DOMAIN lines :
        LooksLikeImport(lines[i]) /\ LooksLikeImport(lines[j]) /\ lines[i].pkg = lines[j].pkg
            => i = j

DeclaredOnce(ref) ==
    IF ref.qualifier = NoPackage THEN \E pkg \in Package : Declarers(ref.name) = {pkg}
    ELSE ref.qualifier \in Declarers(ref.name)

AlsoQualified(f, ref) ==
    /\ ref.qualifier = NoPackage
    /\ \E other \in references[f] : other.name = ref.name /\ other.qualifier # NoPackage

NeededFrom(f, pkg, name) ==
    \E ref \in references[f] : /\ ref.name = name
                               /\ ref.qualifier \in {NoPackage, pkg}
                               /\ ref.qualifier = NoPackage => Declarers(name) = {pkg}

FixAddsWhatIsNeeded ==
    [][\A f \in Target : Plain(f) /\ text'[f] # text[f] =>
         /\ EdgeItems(text[f]) \subseteq EdgeItems(text'[f])
         /\ OneLineEach(text[f]) => OneLineEach(text'[f])
         /\ Honest(f) =>
              \A ref \in references[f] : DeclaredOnce(ref) => Resolves(f, ref)'
         /\ \A ref \in references[f] :
              Resolves(f, ref) => Resolves(f, ref)' \/ AlsoQualified(f, ref)
         /\ \A pkg \in Package, name \in Name :
              <<pkg, name>> \in EdgeItems(text'[f]) \ EdgeItems(text[f])
                => NeededFrom(f, pkg, name)]_vars

(* A run that starts from a finished run's output writes nothing, so it    *)
(* cannot tear a file, and a killed run is completed by running the        *)
(* command again.                                                          *)
FixedFilesStayFixed ==
    [][\A f \in Target : Plain(f) /\ (\A ref \in references[f] : Resolves(f, ref))
                           => text'[f] = text[f] /\ (f \in torn' => f \in torn)]_vars

(* fix_imports.rs:9 "a name declared in more than one package is REPORTED, *)
(* never guessed": a fix breaks no reference that resolved.                *)
FixBreaksNothing ==
    [][\A f \in Target : Plain(f) =>
         \A ref \in references[f] : Resolves(f, ref) => Resolves(f, ref)']_vars

(* fix_imports.rs:243 "else insert a new line after the last import": what *)
(* parsed before parses after.                                             *)
FixKeepsImportsWhole ==
    [][\A f \in Target : Parses(text[f]) => Parses(text'[f])]_vars
=============================================================================
