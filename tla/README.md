# TLA+ models of DEAL

DEAL is a systems-engineering language: a compiler core in Zig behind a C ABI, and in Rust a
command line (`cli`), a language server (`lsp`), an import-closure loader (`deal-closure`), a
manifest schema (`deal-config`) and the FFI wrapper (`deal-ffi`). This directory holds TLA+
modules of the parts whose correctness depends on order, interleaving, failure or a fixed point,
TLC configurations that check them on small instances, and TLAPS proofs.

    tlc -workers 2 -config MCImportClosure.cfg MCImportClosure
    for m in *Proofs.tla; do tlapm $m; done

Paths below are relative to the repository root.

## 1. Inventory

| Part | Source | State | Operations | Hard because |
|---|---|---|---|---|
| Import closure | `deal-closure/src/lib.rs` | module map, aliases, visited packages, work list | `plan_load_with_aliases`, `closure_files_with_aliases`, `derive_aliases`, `apply_alias` | import cycles, barrels, broken files, aliases derived from other files |
| Simulation order | `cli/src/simulate.rs` 108-213 | in-degrees, queue, order | `topological_order` | double edges, self and unknown dependencies, cycles |
| Evidence pipeline | `cli/src/simulate.rs`, `evidence.rs`, `verify.rs` | `.deal/evidence`, `.deal/captured`, `evidence/baselines`, metadata keys | simulate, capture, baseline, check --verify [--run-sims] | five files written by two processes, crashes, stale caches, edits meanwhile |
| LSP documents | `lsp/src/documents.rs`, `debounce.rs`, `backend.rs`, `workspace.rs`, `index.rs` | buffers, handles, index, closure cache, debounce table | open, change, close, update, eager parse, closure rebuild | tasks on a thread pool sharing five tables, cancellation |
| LSP readers | `lsp/src/formatting.rs`, `semantic_tokens.rs`, `references.rs`, `rename.rs`, ... | token cache | requests | handle, buffer and cache read in separate steps, answers overtaking each other |
| Resolver and install | `cli/src/resolver.rs`, `main.rs` (`cmd_init`, `cmd_install`) | `deal.toml`, `.deal/deps/*`, `deal.lock` | `init`, `install`, `resolve_all` | clones reused from earlier runs, one step of several failing, kills |
| Verification engine | `cli/src/verify.rs`, `model_values.rs` | reports, stale overrides | `evaluate`, `merge_reports`, the criteria evaluator, the value index | several blocks of one requirement, evidence changing meanwhile, lookup by ever shorter tails |
| Drivers | `cli/src/main.rs` | `.deal/index.json`, package, source files, exit code | check, build, fmt, parse | files edited between plan, read and check; partial failure across files |
| Import fixer | `cli/src/fix_imports.rs` | source files | `plan_file_fix`, `apply_imports` | two readers of one text, ambiguity, repetition |
| ReqIF export | `cli/src/reqif.rs`, `reqif_schema.rs`, `main.rs` | `model.reqifz` | merge, emit, structural gate, write | identifiers that collide, references to what was filtered out |
| Other exchange formats | `cli/src/sysml_v2.rs`, `schema_registry.rs`, ... | none | conversions | none of concurrency or order |
| FFI handles | `deal-ffi/src/lib.rs`, `include/deal.h`, `src/lib.zig` | arena per handle | parse, check, json, free | lifetime of borrowed bytes |
| Lexer, parsers | `src/lexer.zig`, `src/parser_*.zig`, `src/expr.zig` | token position, modes | tokenise, parse, recover | progress of recovery, tag balance |
| Semantic analysis | `src/sema.zig` | symbol table, surfaces | resolution, cycle checks, dimensions | tiers of names, graph walks |
| Lowering, IR, JSON, formatter | `src/lowering.zig`, `ir.zig`, `json.zig`, `fmt.zig` | none | conversions | text only |

How they interact: the CLI and the language server both build a load plan from the closure and
hand the source bytes of its files to the core as the external table of a strict analysis.
`check --verify --run-sims` calls the model gate (a strict check of the project), then the
simulation runner, then reads the evidence files. In the server, `initialized` spawns the eager
parse; every `did_change` goes through the debouncer to `Documents::update`; both write the
buffers, handles, index and closure that requests read.

What makes each correct: the closure is the least closed set and loads what strict analysis
needs; the order runs producers first; stored evidence is described by its key and skipped or
reported only when it is current; a clean verdict vouches for the baseline and an evaluated criterion means what
its text says; the lock is what the clones hold; what a command writes comes from one consistent state of the
project; a fixed file stays fixed; an exported archive can be read back; the server's tables settle on the editor's last
text and its answers are about that text. `PROJECT.json` lists every component, and under `hazards` the places where
these can go wrong.

## 2. Modules

### ImportPlan and ImportClosure

`ImportPlan` is the abstract specification. A world is a parse outcome per file (`parsed`), the entry
files and the derived aliases; in one step (`Publish`) the plan becomes the files of the least set of
packages that holds the entries' packages and is closed under imports and barrel exports.
A dotted path is a sequence of segments, which is how `longest_common_segment_prefix`
and `apply_alias` treat it.

`ImportClosure` extends it with the algorithm: `RejectEmptyProject`, `SeedEntries`, `VisitPackage`,
`CollectFiles`, `RestrictToProject`. The code pops the work list from its end; the model lets any queued package be
next, so nothing depends on the order. `EntryPoints` and `AnalyzeSet` are the code's selection rules.
Files outside `project` are those of dependency roots.

### JobOrder and SimOrder

`JobOrder` is the abstract specification: jobs are taken one at a time, each after everything it needs, until none
could be; what is left then waits for itself. `SimOrder` is `topological_order` over an arbitrary registry and implements it
(`ImplementsJobOrder`: `needs` is the set of simulations with an edge into one, `done` the range of the order). Names are numbers so that their order is the
registry map's; edges carry their cause, because the code counts one in-degree per binding.

### EvidencePipeline

One variable per kind of file, one action per file access of the four commands, one command at a
time. `output` holds what the tool computed it from (input, source version, registry entry), so a
hash is that record and the freshness claims can be stated. `pc` and `job` are the
running command's place and memory; `Crash` forgets them. The tool is external: it may write both files,
one, none, fail before or after writing, write an invalid output, or be missing.

### DocumentSync

The editor's notifications, the debouncer's tasks, and the eager parse. A task is a
record with its stage; each action is one access to a shared table (`RemoveFile`, `InsertFile`,
`StoreBuffer`, `StoreHandle`, `Rebuild`, ...). `Outline` gives for each text what it declares, refers to and imports. Which of
its references bind, and so become sites of the index, depends on the closure it is analyzed against (`Known`, `SitesIn`), whose copies of the
files are only renewed when import sets change. The eager parse may skip a file (`EagerSkip`), a document may be opened with a text that is
not the disk's, and `indexed` keeps for each document the analysis its slice of the index comes from. The index's `symbols`, `kinds` and `decl_names`
move together and are one variable; `usages` stands for usages and import links.

### SemanticTokens and Readers

`SemanticTokens` is the encoding: nodes of a tree to the flat array of integers, five per token and relative, over
a text that is a sequence of bytes of which only line ends and blanks matter. `Readers` extends `DocumentSync`:
formatting, semantic tokens (full and delta), find-references and rename as requests that read one shared table per step, interleaved with
each other and with the updates; an answer leaves in a step of its own. `sent` and `shown` are the editor's side:
every array it was given under a result id, and the one it paints. A name under the cursor is looked up as `resolved_path_at` does: verbatim, or
the first in order of the paths that end in it (`Found`; `Alike`, `Rank` and `InFull` are constants). The answer to find-references is cut to the
workspace's files, the only ones the index has sites in.

### Criteria, ModelValues and VerifyReport

`Criteria` is the recursive-descent evaluator of criteria over token sequences; its values are exact rationals in place of
floating point. The parse functions are one recursive function (`ParseFrom`) over places: which parse function, from which token, after how many
rounds of its loop. `ModelValues` is `ModelValueIndex`: what each declaration is stored under, and
the lookup by exact path, unique suffix and shorter tails. `VerifyReport` composes both: it indexes declaration by declaration, collects evidence
bindings, compares with the manifest, evaluates block by block, merges report by report and exits, while another simulation may rewrite
evidence between any two steps. `Context` is what the evaluator may look up for a block: attributes of requirements its texts mention, its maps
in order, the outputs of its binding. An entry keeps both verdicts: that of its one criterion, which is the row the table prints (`RowVerdict`), and the
requirement's, which a declared `partial` or a gap overrides and which the footer counts (`Verdict`). The refresh of `--run-sims` is in `EvidencePipeline`; here it is one step with any outcome.

### Install and Commands

`Install` is `init` and `install`: the manifest, the clones, the lock and the remotes. libgit2 is external: a clone has
all tags and the default branch only, a checkout moves HEAD or fails. The E2402 gate asks only that the directory exists, so a clone left by a
failure is reused; only HEAD is followed, never the files of a work tree. `Commands` extends it with `check`, `build`,
`fmt` and `parse` over the source files: the plan parses, the files are read once into a cache, each is checked
against the cached others, the artifact is written at the end. The user edits the manifest, pushes to remotes, breaks a clone and saves files
between any two steps; a command may be killed at any of them.

The files of a project, their texts and the clones are constants of these modules, which state their own `Init`.

### ImportFixer

A text is a sequence of lines, each reduced to what the fixer's line reader and the compiler's parser see in it: they
differ on imports spread over two lines and inside comments, which is where the fixer can go wrong. `ParseImports` stands
for the compiler, and `Resolves` for its scoping: a bare name that two imports bind to different packages is ambiguous and resolves to
neither. A file may be passed over (`SkipFile`), with a warning when it does not parse and in silence when its tree cannot be read; a kill inside
`fs::write` leaves a file torn, and what is left of it is any text. Names that come into scope through a barrel's re-exports, and imports in nested
scopes, are left out. What is declared, what a file refers to and the texts it may start from are constants (`Worlds`, `Headers`,
`Mentions`, `Texts`).

### ReqIf

`build --target reqif` from the files of the closure to the archive: reading, which may fail, the check of each file against the others, merge by id, the requirement and relation
filter, identifiers, the structural gate, the atomic write. The fixed parts of a document are left out; elements and relations
are sets, since their order decides nothing the properties see. An identifier is the
segments of an id with dots and underscores alike, which is what lets two of them collide. `FactsAssumption` says what the
core reports of a text: finitely many elements, each with a name, and no two of one id unless it reports errors. That holds of one text only: a file
that declares an id another file also declares checks clean, and the later file's element takes its place in the merge.

### Runs and their constants

Each `MC` module gives the constants of one specification their values. No symmetry is used.
Mutants, definitions commented as such, sit before the definition they alter: each
shows that a property of the passing runs is not vacuous.

## 3. Runs

Passing:

| Run | Shows | States |
|---|---|---|
| MCImportClosure | least fixed point, refinement of `ImportPlan`, nothing dropped, analyzed files linked, aliases load, termination | 46 thousand |
| MCSimOrder | Kahn's invariant, refinement of `JobOrder`, cycle verdict exact | 183 thousand |
| MCCriteria | the evaluator gives what the grammar means | 79 thousand |
| MCVerifyReport | a clean exit vouches for the baseline, the footer accounts for the rows, a threshold is the requirement's or, without a literal, the first of its name, a row other than PARTIAL rests on mapped fields | 1.35 million |
| MCEvidencePipeline | `--stale` skips only current evidence; the gate fails closed; every command returns | 800 thousand |
| EvidenceCrash | two simulations: what key, input and output have in common, and manifest matches snapshot, under crashes, partial writes, unresolved inputs and edits during a run | 1.86 million |
| MCCommands | lock and clones agree, a second install changes nothing, verdicts and artifacts are of one state, sources stay whole | 1.46 million |
| MCReqIf | an archive is whole and has what the versions it was built from say, the last declaration of an id counting; a clean model is refused only for a trace to the bare last word of a longer id | 129 thousand |
| MCImportFixer | clean means resolved or ambiguous, a fix resolves what one package alone declares, adds no more and keeps the rest, a second run changes nothing | 1.86 million |
| MCDocumentSync | last edit wins, the index is that of each document's last analysis and never doubled, the closure follows import edits and is never half built, diagnostics catch up | 1.21 million |
| MCReaders | answers about a document at rest are of its text, a rename is whole or refused, a delta is against the array the editor holds | 534 thousand |

Bounds. Four files (an entry, two packages that may import or re-export each other, one
dependency) are enough for a cycle, a barrel, a flat barrel, an alias with and without a common prefix, a
broken and an unreadable file at once. Three simulations make every cycle
length a sorted queue can confuse, and two paths make double edges. Two values, two source
versions, three edits and three commands make a value change and come back
across commands, which every evidence hazard here needs. Two documents with two or three texts and
`MaxChanges` (five) opens and edits make two updates of one document and two of different documents
overlap. Criteria are the words of some three thousand trees: three levels of arithmetic under a comparison, conjunctions
grouped to either side, ill-typed operands, and the two forms outside the grammar. Two files with blocks of one requirement, two simulations and one other writer show every
merge and every change between blocks. Two dependencies, three commits, five events and five texts make a manifest edited after a partial install, a
remote that moved, a build cut short after an edit. Two files with imports in every form, one of them with two imports of one package, and two runs of the fixer; two files of ten contents and
four events for the archive. Two documents, three changes and the requests of each session's menu let every pair of
requests overlap an update. `MaxEdits`, `MaxCommands`, `MaxChanges`, `MaxEvents`, `MaxRuns` and the numbers in a menu are
the only counters, and each is a guard of the actions that raise it.

What the surroundings may do differs from run to run and inside one: `environment` is a variable that takes one of
`Environments` at the start and never changes, a set of kinds of events (`Kinds` in `EvidencePipeline`; `early`,
`slow`, `parallel`, `close`, `skip`, `unsaved` in `DocumentSync`; kinds of commands and disturbances in `Commands`). A property says with `Without({...})` under which of
them it is claimed; the configurations further below have the one kind that breaks a claim. The conditions are results too:

| Property | Does not hold with | Because |
|---|---|---|
| FreshSkipIsCurrent | `midrun` | the source is hashed after the tool ran (`simulate.rs` 1006-1026) |
| FreshSkipIsCurrent | `crash`, `partial` | the old key stays beside a newer output; going back to the old source makes it fresh |
| FreshSkipIsCurrent, KeyDescribesEvidence | `silent` | a tool that writes nothing has the previous output validated and stamped again |
| KeyDescribesEvidence (idle part) | `crash`, `partial` | the files of one run may lie beside those of another: after an unresolved input a newer input and output beside the old key, and always the output of one source beside the key of another |
| KeyDescribesEvidence (sources) | `midrun` | the source is hashed after the tool ran |
| KeyDescribesEvidence (the input file of a key of unresolved inputs) | `fail`, `absent` | input.json is written before the tool that then leaves no output |
| ManifestMatchesSnapshot | `retag` | a second baseline of a tag replaces its snapshot copy by copy under the first manifest |
| RefreshFailsClosed | `midrun` | the model may break between the gate and the report |
| LastEditWins, IndexIsCurrent, ReachabilityIsCurrent, DiagnosticsCatchUp | `early`, `slow` (where named) | configurations SyncInit and SyncSlow |
| ReachabilityIsCurrent | `parallel` | configuration SyncRebuilds |
| IndexIsCurrent, ReachabilityIsCurrent | `unsaved` | `did_open` stores the text without refreshing index or closure |
| IndexIsCurrent, ClosureIsWhole (the skipped files) | `skip` | a file that is not UTF-8 or fails to analyze stays in the closure, but in no table |
| VerdictIsOnOneSnapshot, ArtifactsAreClean | `vanish` | a file that cannot be read after planning is checked as if it were not there, by itself and by the others |
| ArtifactsAreClean (index only) | `midrun` | the index lists what planning parsed, not what was checked |
| SourcesStayWhole (second half) | `midrun` | an edit during `fmt` is overwritten by the formatting of the text before it |
| the four of DocumentSync | `close` | a document closed unsaved and reopened is overwritten by the update still waiting from before, and `did_open` refreshes neither index nor closure |

`CHECK_DEADLOCK FALSE` is set where the bounded user or editor really may stop.

Known divergences. Each is a statement of a comment, a message or a decision record that the code does not keep, with
a configuration whose counterexample shows it. `TokensDelta` is a run of `PROJECT.json` (expected violation, quoted in
`findings`); the others are run by hand, `tlc -continue -config <name>.cfg <module>` (some check several statements):

| Configuration | Module | Property | Statement and code |
|---|---|---|---|
| TokensDelta | MCReaders | DeltaReplacesAll | the delta replaces the whole array, but deletes as many integers as there were tokens |
| EvidenceDocs | MCEvidencePipeline | RegistryChangesAreCaught | `simulate.rs` 882 against 236: only the header of the registry entry is hashed |
| EvidenceDocs | MCEvidencePipeline | DriftIsRegenerated | `verify.rs` 1542 against `simulate.rs` 925: a forced re-run prefers the old input.json |
| EvidenceDocs | MCEvidencePipeline | SkippedIsOfItsSource | `simulate.rs` 234 "catches logic changes" against 1006-1026: the source is hashed after the run, and a crash leaves the key of one source beside the output of another |
| VerifyDocs | MCVerifyReport | FailedRowsFail | `verify.rs` 56 "At least one criterion evaluated false" against 1271: a partial block with a false criterion prints FAIL in its row and counts as PARTIAL |
| VerifyDocs | MCVerifyReport | ThresholdsAreOwn | `verify.rs` 1222 "against the requirement defs" against `model_values.rs` 93-102, 209: an attribute without a literal takes another element's |
| SyncInit | MCDocumentSync | EditsSettled | `workspace.rs` 448 against 400: the eager parse overwrites an early edit |
| SyncSlow | MCDocumentSync | EditsSettled | `debounce.rs` 5 against 45: an update past its sleep outlives its successor |
| SyncRebuilds | MCDocumentSync | ClosureFollows | `documents.rs` 376 against 390: the older of two snapshots is installed last |
| SyncStale | MCDocumentSync | EveryUseIsIndexed | `documents.rs` 314 "the index stays current as the user types" against 341: uses are bound against the closure's old copies, one of a newly declared name is never indexed |
| SyncStale | MCDocumentSync | DeclarationsAreFound | the same against `backend.rs` 198-201: opening refreshes no index |
| ReferencesBleed | MCReaders | ReferencesDoNotBleed | `references.rs` 8 "never bleed into each other" against `definition.rs` 162-178: the first path that ends in the name is taken |
| SyncDuplicate | MCDocumentSync | DeclarationsAreFound | `index.rs` 294: removing one declarer of a name hides the other |
| SyncClosed | MCDocumentSync | ClosedFilesComeFromDisk | `documents.rs` 126 against 130: closed buffers feed rebuilds |
| FixAmbiguous | MCImportFixer | FixBreaksNothing | `fix_imports.rs` 9 "REPORTED, never guessed": the import added for a qualified name makes a bare one ambiguous that a wildcard had bound, and `--check` stays clean |
| FixMultiline | MCImportFixer | FixKeepsImportsWhole | `fix_imports.rs` 317: an import spread over two lines loses its first one |
| InstallLock | MCCommands | LockReproducesBuild | `main.rs` 1983 promises reproduction, but install never reads `deal.lock` |
| ReqIfDocs | MCReqIf | EmittedReferencesResolve | `reqif.rs` 207: a relation may name a requirement the filter left out |
| ReqIfDocs | MCReqIf | EveryRequirementIsExported | `main.rs` 1562: two files that declare one id check clean, and one of the two is not in the archive |

Read in the code and in these models, without a configuration of their own: `depends_on` adds to the inferred edges instead of overriding them
(`simulate.rs` 89 and 165); verify never recomputes the staleness key, compares with a baseline only (`verify.rs` 589-634), does not read the
captured set, and gives PASS to stale evidence (`verify.rs` 1277); the later of two satisfy blocks of a requirement replaces
the entry while both are counted (`verify.rs` 1303); a new import is judged by the closure from
before it (`documents.rs` 339 and 384); documents outside the workspace are analyzed strictly once a closure exists
(`documents.rs` 340); a branch that is not the remote's default never resolves in a fresh clone; a killed `init` cannot be run again, the directory
is not empty; clones of dependencies no longer declared are still scanned; a failed command leaves the artifact of an earlier one; artifacts
written with `fs::write` may be torn by a kill; a rename early in a session misses files not yet parsed; calc and constraint
definitions carry no name span; ReqIF relation identifiers omit the kind.

Fairness. `ImportClosure`: weak fairness of `Next`, one thread that runs to its end.
`EvidencePipeline`: weak fairness of the process's steps; a tool always exits (the code waits for it without a timeout, so
a tool that hangs makes the command hang: assumed away, not shown). `DocumentSync`: weak fairness of the eager parse and of each document's
tasks; the runtime polls its tasks and the sleeps are finite. The user and the editor are never obliged to act. The
other modules state safety and action properties only and assume no fairness.

## 4. Proofs

`ImportClosureProofs` proves, for every set of files, parse outcomes, aliases and entry points:

- `TypeCorrect`: `Spec => []TypeOK`.
- `WalkCorrect`: `Spec => []WalkInv`. `WalkInv` alone is not enough for what follows, because after the
  walk nothing in it says what the plan is; `WalkIInv` adds that the queue is empty and the plan is the files of the
  visited packages and the entries, that explicit files are entries, and what `analyze` is when done.
- `ClosureImplementsPlan`: `Spec => ImplementsPlan`. When the queue is empty the visited packages are closed and hold the
  seeds, so they contain the least such set; the invariant has the other inclusion. `CollectFiles` then is the
  abstract `Publish`, every other step a stutter.
- `NoSilentDrop`, `AnalyzedAreLinked`: consequences of the invariant at the end.

- `AliasesLoad`: `Spec => []AliasedImportsLoad`, with `aliases = DeriveAliases` as a further invariant and the lemma that the prefix
  `LongestCommonPrefix` chooses is one of every package under the directory.

Assumed of the constants: what parses declares a package that is a path (`OutcomeAssumption`). Only `AliasesLoad` uses it; the
others never expand `LongestCommonPrefix` and hold whatever namespace an alias is given.

`SimOrderProofs` proves, for every finite registry:

- `OrderTypeCorrect`: `Spec => []TypeOK`; that in-degrees stay natural is what keeps the code's `usize` from wrapping.
- `KahnCorrect`: `Spec => []KahnInv`.
- `CyclesAreReal`: `Spec => []CycleIsReal`.
- `OrderImplementsJobOrder`: `Spec => ImplementsJobOrder`. Popping is the abstract `Take` of a ready job, the verdict is `Conclude`.

The inductive invariant is `OrderIInv`. `KahnInv` does not say what a verdict means nor that a cycle stays out of the
order, so it adds that a verdict comes with an empty queue and tells whether everything is ordered, and that no member of a set that
waits for itself was ever ordered. TLC finds it invariant in `MCSimOrder`. Assumed of the constants: simulations are finitely many
numbers (`SimAssumption`), model paths are finitely many (`PathAssumption`); a registry is a file. The counting rests on the library's facts about finite
sets, and on `AscendingLists`: the sort of a finite set of numbers lists each once, since ranks are a bijection.

`EvidenceProofs` proves, for every set of simulations, values, sources and tags, and any number of edits, commands and crashes
(`MaxEdits`, `MaxCommands` are arbitrary):

- `EvidenceTypes`: the files and the running command's memory keep their types.
- `KeysDescribeEvidence`: `Spec => []KeyDescribesEvidence`. Between the first and the last of the three writes key, input and
  output may disagree, so the invariant says at which place of the run each pair already agrees (`RunUsesInputFile`), what a key of a model's values
  fixes under any crash (`KeyOfValues`), and what holds between commands that neither crash nor fail after writing (`KeyIsOfOutput`, `InputIsOfKey`).
- `ManifestsMatchSnapshots`: with `BaselineInProgress`, what the copies made so far and the digests in memory have in common.
- `RefreshFailsClosedHolds`: with `GatePassed`, that the model the gate accepted is the one there until the report.
- `FreshSkipsAreCurrent`: the action property of `--stale`, from `KeyIsOfOutput`: where a key is stored the output beside it was computed
  from the input and the source the key names.

Assumed (`PipelineAssumption`, `AbsentAssumption`): the special values differ from the values and from evidence, the registry lists simulations, tags are numbers.

`CommandsProofs` proves for every set of dependencies, manifests, remotes, files and texts:

- `LocksDescribeClones`, `InstallsAreRepeatable`. The lock is written at the end from a list collected on the way while remotes
  move, so the invariant says of a running install that its list has an entry for each dependency it is past, at the commit of
  its clone (`InstallInProgress`), and of the last whole one that nothing since changed what it saw (`SettledIsCurrent`).
- `SourcesStayTheirOwn`: a text on disk is the user's or the formatting of it, with `FormattedWaits` for the text `fmt` holds.
- `VerdictsAreOnOneSnapshot`, `ArtifactsStayClean`: with `AnalyzedSoFar`, that each file checked without errors was checked against
  the cache as it is at the end.

Assumed: `InstallAssumption` (a dependency is listed once, a git dependency has a remote and a reference), `TextAssumption` (formatting yields
a text and is idempotent on what parses, which the formatter promises and its own tests check; it is not modelled).

`ServerProofs` proves for every set of documents and texts and any number of changes:

- `SyncIsTyped`, `ClosuresAreWhole` (with `EagerFills`: the files the eager parse is past, and did not skip, are in both tables).
- `TheLastEditWins`: with `InTurn`, that the updates of one document take turns, and `LatestComes`, that what the editor shows is in
  the tables or one live update is still to write it.
- `TheIndexIsCurrent`: `NamesAreOwn => (Spec => []IndexIsCurrent)`. The hypothesis, that no two documents declare one name, is needed:
  `SyncDuplicate` is the counterexample without it. The invariant follows each document's slice, with the closure it was bound against, through removal
  and insertion (`Follows`).
- `ReachabilityStaysCurrent`: with `ClosureKeepsUp`, that a difference between the cached import sets and the buffers is one a running update
  will see at its gate.

Assumed: `SyncAssumption` (types of the constants) and `AbsentAssumption` (the mark of an empty entry is no entry).

Its second part is about readers, for any number of overlapping requests; every step of a session is a step
or a stutter of `DocumentSync` (`SessionsRefine`), so that its theorems carry over:

- `DeltasFindTheirBase`: what a delta holds as its base was sent under the id it names (`AllServed`, `TokensWereSent`).
- `RenamesAreWhole`: `NamesAreOwn => (ReadSpec => []RenameIsWhole)`. What a rename collected before each of its reads is carried in the same invariant. That
  a use the index lacks cannot slip through is the step `NothingIsMissed`: left out of the edits it would refer to a name nobody declares any more, which
  the verification counts as a new error, unless the texts already had that name.
- `AnswersStayCurrent`: `NamesAreOwn /\ EncodingPaints => (ReadSpec => []AnswersAreCurrent)`, with `AllAtRest`: a request whose document has
  been at rest since it was made has read the text the editor shows. `EncodingPaints` says that the array encoded from a whole text paints
  its tokens: an induction over the nodes, which the prover cannot do; MCReaders would violate `AnswersAreCurrent` if it failed for one of its texts.

Assumed (`ReadersAssumption`): a text is a sequence of characters; types of the menus.

`ReqIfProofs` proves for every closure and whatever its files declare: `ArchivesAreWhole` and `CleanModelsPassTheGate`. The invariant `BuildInv` says
of a running build that what it merged is, for each id, the element of the last file that declares it among those it is past, at the versions it read
(`BuildSoFar`). Assumed: `FactsAssumption`.

`ImportFixerProofs` proves for every project and every text:

- `FixesAddWhatIsNeeded`, `FixedStayFixed`: the action properties, from lemmas about the line surgery (`Surgery`, `FixedImports`: what
  a splice of lines keeps, adds and orders) and about scope (`InScopeResolves`, `ResolvedIsInScope`), where a name may be in scope by two imports.
- `CleanIsResolved`: with `CheckedSoFar`, that a `--check` run that has counted and reported nothing has nothing to do for any file it is past.

Assumed (`FixerAssumption`): finitely many declarations and references, texts of lines.

`VerifyReportProofs` proves for every project, manifest and evidence, with another simulation that writes between any two steps:

- `VerifyInvariant`: `Spec => []VerifyInv`. None of the runs' invariants is inductive: they speak of the merged table at the end. `VerifyInv` says what
  the index holds of the declarations passed so far (`IndexFollows`), that each report counts what it lists (`AllTallied`), that each entry was
  judged on the evidence there is until somebody rewrites it, and that a report without a stale count lists nothing stale (`AllJudged`), that the
  merged table has its entries from the files' (`MergedFromReports`), and what `stale_overrides` knows (`StalenessKnown`).
- `CleanExitVouches`: about rows; with the lemma that a block's verdict depends on the outputs it is bound to and on no others.
- `FooterMatches`: the counts are bounded by cardinalities, the parts of the table by verdict being disjoint; an entry's verdict is its row's unless its
  block is open (`Judged`).
- `ThresholdsResolve`: from `IndexFollows`, which says of each key of two segments that it has the last literal stored under it, and of each bare name
  the first. `Resolve` finds a key of two segments whole, before any suffix; without it no longer key ends in it (`NoSuffixWithoutKey`, from `Tailed`: the
  tails of a key are keys), and the bare name is next (`ResolvePair`).
- `VerdictsRestOnData`: the only one that opens the evaluator. A place of the parser calls for places of a lower `Rank` only (further on in the text, at
  an inner level, a round earlier), so its recursive function exists (`ParseFromSolves`) and each result is `Good` (`SolutionGood`):
  it ends after where it began and is known only when every field read on the way is. The same is done for the statements of a compute block
  (`ComputedFromKnown`). Both are inductions by least counterexample, which need no operator as a parameter.

Assumed (`VerifyAssumption`): types of the projects and manifests, and that the mark of an absent value is no name and no exit.

`NamesAreOwn` and `EncodingPaints` are the only hypotheses of theorems; each is satisfied by the constants of a run. Apart from them
the theorems state the runs' properties as they stand, `Without` conditions and named exceptions included.

Only model-checked: the liveness properties (`LoaderReturns`, `CommandsReturn`, `DiagnosticsCatchUp`: fairness and ENABLED are beyond the prover), and
`EvaluatorMeetsGrammar`: that the value is the one of the tree a text came from relates two recursive definitions at every depth, over
the trees of `MCCriteria`.

## 5. Assumptions and limits

- Parsing and analysis are functions of a text; `parsed` and `Outline` range over their possible results.
- Handlers of the language server run in order on one thread up to their first await (the
  transport's behaviour, outside this repository), and the open of a document ends before the next notification.
- Aborting a task takes effect at an await: the sleep, or the publish. `early` means the editor does not wait for the eager
  parse, `slow` that an update outlasts the next 300 ms window, `parallel` that updates of different documents overlap.
- `remove_file` and `update_from_envelope` are one step each, and the snapshot of `buffer_sources` is one step.
- The files on disk do not change during an editing session of the model; re-discovering the workspace always succeeds.
- A use binds to a name when its own text or the closure's copy of a workspace file declares it; the alias table and the tiers of scoping are left out.
- Commands of the evidence pipeline run one at a time; each requirement is backed by one simulation.
- A name is atomic, so columns inside a name and multi-byte characters are not distinguished; a column is a byte.
- The network, the disk and libgit2 fail as a whole step; a content hash is the content it is of.
- Requests of the language server that read one handle and change nothing (hover, completion, symbols, hints, lenses, folding, links, code actions) are
  left out: they have no second step for an update to come between.
- A `rev` of a dependency is treated as any other reference; deserialisation of `deal.toml` yields a manifest or fails.
- Not modelled, with reasons: see the components with status `not_modelled` in `PROJECT.json`.

### Not modelled

The lexer, the parsers, semantic analysis, lowering, the IR, the JSON writer and the formatter are functions of one immutable text or
tree, without concurrency, failure or state that outlives a call: the models take their results as inputs (parses or not, errors or
not, declared and referred names, formatted text; `ImportFixer` and `ReqIf` state the little of name resolution they need), and their own correctness is about characters and trees an abstract model leaves out.
The FFI handle has one owner and one call in every use; a model would restate the calls. The other exchange formats are
wording and layout. The built-in simulation runner is one numeric model behind the interface the evidence pipeline treats as any tool.

## 6. Plan

What is left, most important first:

1. `SemanticNames` (`src/sema.zig`): the tiers of `resolveNameResult`, `importReaches`, the specialization and
   constraint-reference walks against a reference notion of a cycle, with names of equal last segment.
2. The closures of the command line and of the server side by side over one project with aliases (`workspace.rs` 328).
