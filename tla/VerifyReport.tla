------------------------------ MODULE VerifyReport ------------------------------
(***************************************************************************)
(* `deal check --verify` once its files are parsed: index the model's      *)
(* values, collect the evidence bindings, compare them with the baseline,  *)
(* evaluate every satisfy block of every file, merge the files' reports    *)
(* and exit.  The refresh of --run-sims and the gate before it are in      *)
(* EvidencePipeline; here they are one step with an arbitrary outcome.     *)
(*                                                                         *)
(* Another process may rewrite the evidence while the blocks are evaluated *)
(* (when `busy`); a content hash is the content.                           *)
(***************************************************************************)
EXTENDS Criteria, ModelValues, FiniteSets

CONSTANTS
    Sim,            \* simulation names, the bindings of evidence blocks
    NoSim,          \* an evidence block without `binding:`
    Req,            \* requirement names, those that start with REQ_
    Outputs,        \* what an output.json may hold: output path -> number
    Absent,         \* no file, no entry, no exit yet
    Projects,       \* the ASTs a project may have, in the order of their paths
    Manifests       \* content_hash by simulation, for the manifests it may have

(* What parse_satisfy_block looks at among the children of a satisfy_block. *)
Words == Seq(Token(Seq(Name) \cup {MaxName}))
Map == [from : Seq(Name), to : Seq(Name)]
Child ==
    [k : {"requirement"}, name : Req] \cup [k : {"status"}, partial : BOOLEAN]
      \cup [k : {"criteria"}, words : Words] \cup [k : {"gap"}]
      \cup [k : {"compute"}, stmts : Seq([var : Seq(Name), expr : Words])]
      \cup [k : {"evidence"}, kind : {"design", "analysis", "test", "simulation"},
            binding : Sim \cup {NoSim}, maps : Seq(Map)]

ASSUME VerifyAssumption ==
    /\ Projects \subseteq Seq([decls : Seq(Declaration), blocks : Seq(Seq(Child))])
    /\ Manifests \subseteq [Sim -> Outputs \cup {Absent}]
    /\ Absent \notin Req \cup {"ok", "user"}

VARIABLES
    files,          \* the ASTs in order: [decls, blocks] (blocks: children)
    recorded,       \* content_hash by simulation in the latest manifest
    busy,           \* does another simulation run at the same time?
    runSims,        \* --run-sims
    evidence,       \* .deal/evidence/<sim>/output.json
    rewritten,      \* has that other simulation written an output?
    index,          \* ModelValueIndex
    overrides,      \* stale_overrides
    report,         \* evaluate's report of the file at hand
    reports,        \* all_reports, one per file evaluated
    merged,         \* merge_reports' result so far, and what is printed
    file, next,     \* the loop at hand: its file, the node in it
    pc, exit

input == <<files, recorded, busy, runSims>>
vars == <<input, evidence, rewritten, index, overrides, report, reports, merged,
          file, next, pc, exit>>

-----------------------------------------------------------------------------
(* parse_satisfy_block goes over the children of a block: among those of   *)
(* one kind the last one counts, the maps of all evidence accumulate.      *)
ParseSatisfyBlock(children) ==
    LET last(kind) == SelectLastInSeq(children, LAMBDA child : child.k = kind)
        bound == SelectLastInSeq(children, LAMBDA child :
                               child.k = "evidence" /\ child.binding # NoSim)
        sources == SelectSeq(children, LAMBDA child : child.k = "evidence")
    IN  [req |-> IF last("requirement") = 0 THEN Absent
                 ELSE children[last("requirement")].name,
         partial |-> last("status") # 0 /\ children[last("status")].partial,
         gap |-> last("gap") # 0,
         criteria |-> IF last("criteria") = 0 THEN Absent
                      ELSE children[last("criteria")].words,
         compute |-> IF last("compute") = 0 THEN << >> ELSE children[last("compute")].stmts,
         binding |-> IF bound = 0 THEN NoSim ELSE children[bound].binding,
         maps |-> FlattenSeq([i \in DOMAIN sources |->
                      [j \in DOMAIN sources[i].maps |->
                          [from |-> sources[i].maps[j].from, to |-> sources[i].maps[j].to,
                           kind |-> sources[i].kind]]])]

SatisfyBlock(f, i) == ParseSatisfyBlock(files[f].blocks[i])

(* A block without a requirement is dropped.                               *)
SatisfyBlocks ==
    {block \in UNION {{SatisfyBlock(f, i) : i \in DOMAIN files[f].blocks} : f \in DOMAIN files} :
        block.req # Absent}

(* Mutant: only a file's first block is asked for its binding.             *)
FirstBindings ==
    {SatisfyBlock(f, 1).binding : f \in {g \in DOMAIN files : files[g].blocks # << >>}} \ {NoSim}

Bindings == {block.binding : block \in SatisfyBlocks} \ {NoSim}

(* check_staleness: missing evidence is stale; without a manifest, or an   *)
(* entry in it, evidence that exists is not.                               *)
IsStale(s) ==
    \/ evidence[s] = Absent
    \/ recorded # Absent /\ recorded[s] \notin {Absent, evidence[s]}

-----------------------------------------------------------------------------
(* The evaluation context of a block: the outputs of its binding, then its *)
(* maps in order, then the REQ_x.attr its texts mention.  `values` is the  *)
(* model index, `disk` the evidence.                                       *)
LoadEvidenceValues(s, disk) ==
    IF s = NoSim THEN << >> ELSE IF disk[s] = Absent THEN << >> ELSE disk[s]

MapField(values, ctx, map) ==
    LET value == CASE map.kind \in {"design", "analysis"} -> Resolve(values, map.from)
                   [] map.kind = "simulation" /\ map.from \in DOMAIN ctx -> ctx[map.from]
                   [] OTHER -> NoValue
    IN  IF value = NoValue THEN ctx ELSE Insert(ctx, map.to, value)

ReqAttrRefs(words) ==
    {words[i].v : i \in {j \in DOMAIN words :
        words[j].k = "ident" /\ Len(words[j].v) > 1 /\ Head(words[j].v) \in Req}}

ResolvedRefs(values, block) ==
    LET texts == (IF block.criteria = Absent THEN {} ELSE {block.criteria})
                     \cup {block.compute[i].expr : i \in DOMAIN block.compute}
        refs == UNION {ReqAttrRefs(words) : words \in texts}
    IN  [ref \in {r \in refs : Resolve(values, r) # NoValue} |-> Resolve(values, ref)]

MapEvidence(values, ctx, maps) ==
    FoldLeft(LAMBDA sofar, map : MapField(values, sofar, map), ctx, maps)

Context(values, block, disk) ==
    ResolvedRefs(values, block)
      @@ MapEvidence(values, LoadEvidenceValues(block.binding, disk), block.maps)

(* A block has one criterion, whose own verdict is its row of the table.   *)
RowVerdict(values, block, disk) ==
    IF block.criteria = Absent THEN "PARTIAL"
    ELSE CriterionVerdict(block.criteria,
                          EvaluateComputeBlock(block.compute, Context(values, block, disk)))

(* The requirement's is also partial by declaration or by a gap.           *)
Open(block) == block.partial \/ block.gap

Verdict(row, block) == IF Open(block) THEN "PARTIAL" ELSE row

Stale(block) == block.binding \in DOMAIN overrides /\ overrides[block.binding]

Verdicts == {"PASS", "FAIL", "PARTIAL"}
EmptyReport ==
    [requirements |-> << >>, summary |-> [count \in Verdicts \cup {"stale", "total"} |-> 0]]

(* evaluate's loop body: the entry replaces one for the same requirement,  *)
(* the counts go up in any case.                                           *)
Record(block) ==
    LET row == RowVerdict(index, block, evidence)
        entry == [row |-> row, verdict |-> Verdict(row, block), stale |-> Stale(block),
                  block |-> block]
        counted == {entry.verdict, "total"} \cup (IF entry.stale THEN {"stale"} ELSE {})
    IN  [requirements |-> Insert(report.requirements, block.req, entry),
         summary |-> [count \in DOMAIN report.summary |->
                         report.summary[count] + (IF count \in counted THEN 1 ELSE 0)]]

MergeRequirements(one, other) ==
    [req \in DOMAIN one \cup DOMAIN other |->
        IF req \in DOMAIN other THEN other[req] ELSE one[req]]

(* Mutant: the counts of a later file replace those before.                *)
MergeLast(one, other) ==
    [requirements |-> MergeRequirements(one.requirements, other.requirements),
     summary |-> other.summary]

Merge(one, other) ==
    [requirements |-> MergeRequirements(one.requirements, other.requirements),
     summary |-> [count \in DOMAIN one.summary |-> one.summary[count] + other.summary[count]]]

-----------------------------------------------------------------------------
Init ==
    /\ files \in Projects
    /\ recorded \in Manifests \cup {Absent}
    /\ busy \in BOOLEAN
    /\ runSims \in BOOLEAN
    /\ evidence \in [Sim -> Outputs \cup {Absent}]
    /\ rewritten = FALSE
    /\ index = << >>
    /\ overrides = << >>
    /\ report = EmptyReport
    /\ reports = << >>
    /\ merged = EmptyReport
    /\ file = 1
    /\ next = 1
    /\ pc = "index"
    /\ exit = Absent

(* ModelValueIndex::build, declaration by declaration.                     *)
IngestDeclaration ==
    /\ pc = "index"
    /\ file \in DOMAIN files
    /\ next \in DOMAIN files[file].decls
    /\ index' = Ingest(index, files[file].decls[next])
    /\ next' = next + 1
    /\ UNCHANGED <<input, evidence, rewritten, overrides, report, reports, merged, file, pc, exit>>

NextAst ==
    /\ pc = "index"
    /\ file \in DOMAIN files
    /\ next \notin DOMAIN files[file].decls
    /\ file' = file + 1
    /\ next' = 1
    /\ UNCHANGED <<input, evidence, rewritten, index, overrides, report, reports, merged, pc, exit>>

FinishIndex ==
    /\ pc = "index"
    /\ file \notin DOMAIN files
    /\ file' = 1
    /\ pc' = IF runSims THEN "refresh" ELSE "stale"
    /\ UNCHANGED <<input, evidence, rewritten, index, overrides, report, reports, merged, next, exit>>

(* --run-sims is best effort: any simulation may have written, or not.     *)
Refresh ==
    /\ pc = "refresh"
    /\ \E s \in Sim, out \in Outputs :
          evidence' \in {evidence, [evidence EXCEPT ![s] = out]}
    /\ pc' = "stale"
    /\ UNCHANGED <<input, rewritten, index, overrides, report, reports, merged, file, next, exit>>

ResolveStaleness ==
    /\ pc = "stale"
    /\ overrides' = [s \in Bindings |-> IsStale(s)]
    /\ pc' = "evaluate"
    /\ UNCHANGED <<input, evidence, rewritten, index, report, reports, merged, file, next, exit>>

(* The loop of evaluate over the satisfy_block nodes of a file.            *)
DropBlock ==
    /\ pc = "evaluate"
    /\ file \in DOMAIN files
    /\ next \in DOMAIN files[file].blocks
    /\ SatisfyBlock(file, next).req = Absent
    /\ next' = next + 1
    /\ UNCHANGED <<input, evidence, rewritten, index, overrides, report, reports, merged, file, pc, exit>>

EvaluateBlock ==
    /\ pc = "evaluate"
    /\ file \in DOMAIN files
    /\ next \in DOMAIN files[file].blocks
    /\ SatisfyBlock(file, next).req # Absent
    /\ report' = Record(SatisfyBlock(file, next))
    /\ next' = next + 1
    /\ UNCHANGED <<input, evidence, rewritten, index, overrides, reports, merged, file, pc, exit>>

FinishFile ==
    /\ pc = "evaluate"
    /\ file \in DOMAIN files
    /\ next \notin DOMAIN files[file].blocks
    /\ reports' = Append(reports, report)
    /\ report' = EmptyReport
    /\ file' = file + 1
    /\ next' = 1
    /\ UNCHANGED <<input, evidence, rewritten, index, overrides, merged, pc, exit>>

FinishEvaluation ==
    /\ pc = "evaluate"
    /\ file \notin DOMAIN files
    /\ file' = 1
    /\ pc' = "merge"
    /\ UNCHANGED <<input, evidence, rewritten, index, overrides, report, reports, merged, next, exit>>

MergeReport ==
    /\ pc = "merge"
    /\ file \in DOMAIN reports
    /\ merged' = Merge(merged, reports[file])
    /\ file' = file + 1
    /\ UNCHANGED <<input, evidence, rewritten, index, overrides, report, reports, next, pc, exit>>

(* Stale evidence fails the run unless it was asked to refresh; a failed   *)
(* requirement does not.                                                   *)
EmitReport ==
    /\ pc = "merge"
    /\ file \notin DOMAIN reports
    /\ exit' = IF ~runSims /\ \E f \in DOMAIN reports : reports[f].summary["stale"] > 0
               THEN "user" ELSE "ok"
    /\ pc' = "done"
    /\ UNCHANGED <<input, evidence, rewritten, index, overrides, report, reports, merged, file, next>>

SimulateElsewhere ==
    /\ busy
    /\ ~rewritten
    /\ pc \notin {"index", "done"}
    /\ \E s \in Sim, out \in Outputs : evidence' = [evidence EXCEPT ![s] = out]
    /\ rewritten' = TRUE
    /\ UNCHANGED <<input, index, overrides, report, reports, merged, file, next, pc, exit>>

Next ==
    \/ IngestDeclaration \/ NextAst \/ FinishIndex
    \/ Refresh \/ ResolveStaleness
    \/ DropBlock \/ EvaluateBlock \/ FinishFile \/ FinishEvaluation
    \/ MergeReport \/ EmitReport
    \/ SimulateElsewhere

Spec == Init /\ [][Next]_vars

-----------------------------------------------------------------------------
Drifted == {s \in Sim : recorded # Absent /\ recorded[s] \notin {Absent, evidence[s]}}

(* A clean exit of `deal check --verify` vouches for the baseline: no row  *)
(* it prints as passed or failed would read otherwise if every output that *)
(* differs from the manifest were thrown away, however many evidence       *)
(* blocks, maps and files lead to it.                                      *)
CleanVerdictsIgnoreDrift ==
    exit = "ok" /\ ~runSims /\ ~rewritten =>
        \A req \in DOMAIN merged.requirements :
            LET entry == merged.requirements[req]
            IN  entry.row \in {"PASS", "FAIL"} =>
                    entry.row =
                        RowVerdict(index, entry.block, [s \in Sim |-> IF s \in Drifted THEN Absent
                                                                     ELSE evidence[s]])

(* The footer accounts for the rows of the table: a row is counted under   *)
(* what it shows, and as partial if its block is open, whatever it shows.  *)
(* The footer never counts less than that, and exactly that when no        *)
(* requirement is satisfied by two blocks (a later one replaces the row of *)
(* the first, not its count).                                              *)
FooterAccountsForTable ==
    exit # Absent =>
        LET table == merged.requirements
            rows(verdict) == {req \in DOMAIN table : table[req].row = verdict}
            open == {req \in DOMAIN table : Open(table[req].block)}
            due(verdict) == IF verdict = "PARTIAL" THEN rows(verdict) \cup open
                            ELSE rows(verdict) \ open
        IN  \A verdict \in Verdicts :
                /\ Cardinality(due(verdict)) <= merged.summary[verdict]
                /\ merged.summary["total"] = Cardinality(DOMAIN table) =>
                        Cardinality(due(verdict)) = merged.summary[verdict]

(* What the comment on `Fail` says (verify.rs:56), and the code does not:  *)
(* a requirement has failed when at least one criterion evaluated false.   *)
(* The criterion of an open block may show FAIL beside a footer of ticks.  *)
FailedRowsFail ==
    \A req \in DOMAIN merged.requirements :
        merged.requirements[req].row = "FAIL" => merged.requirements[req].verdict = "FAIL"

(* A requirement is only judged on data: whatever the connectives, every   *)
(* field the criterion of a passed or failed row names is an output, a     *)
(* mapped value or a requirement's attribute, or was computed from such by *)
(* the block's own statements.                                             *)
DecidedOnMappedData ==
    exit # Absent /\ ~rewritten =>
        \A req \in DOMAIN merged.requirements :
            LET entry == merged.requirements[req]
                stmts == entry.block.compute
                mapped == DOMAIN Context(index, entry.block, evidence)
            IN  entry.row \in {"PASS", "FAIL"} =>
                    \A known \in SUBSET (mapped \cup {stmts[i].var : i \in DOMAIN stmts}) :
                        (/\ mapped \subseteq known
                         /\ \A i \in DOMAIN stmts :
                               Fields(stmts[i].expr) \subseteq known => stmts[i].var \in known) =>
                            Fields(entry.block.criteria) \subseteq known

(* The literals of the workspace by their place: file and declaration.     *)
Decl(place) == files[place[1]].decls[place[2]]

Literals ==
    {place \in UNION {{f} \X DOMAIN files[f].decls : f \in DOMAIN files} :
        Decl(place).value # NoValue}

Named(name) == {place \in Literals : Decl(place).name = name}

(* Those stored under the key <<owner, name>>.                             *)
Keyed(owner, name) ==
    {place \in Named(name) :
        LET d == Decl(place)
        IN  CASE d.kind = "attribute" -> d.scope # << >> /\ Last(d.scope) = owner
              [] d.kind = "override" -> owner \in {d.alias, d.type}}

UpTo(one, other) == one[1] < other[1] \/ (one[1] = other[1] /\ one[2] <= other[2])
FirstOf(places) == {p \in places : \A q \in places : UpTo(p, q)}
LastOf(places) == {p \in places : \A q \in places : UpTo(q, p)}

(* The attributes a criterion may quote as owner.name.                     *)
Thresholds ==
    {<<Last(d.scope), d.name>> :
        d \in {e \in UNION {{files[f].decls[i] : i \in DOMAIN files[f].decls} :
                                f \in DOMAIN files} :
                 e.kind = "attribute" /\ e.scope # << >>}}

(* A threshold quoted as REQ_x.attr is what REQ_x declares: the last       *)
(* literal under that key, if elements share it, whatever else has an      *)
(* attribute of that name.  With no literal under the key it is, in        *)
(* silence, the first literal of any element that has an attribute of that *)
(* name, and undecided only if none has.                                   *)
ThresholdsAreOwnOrFirst ==
    pc # "index" =>
        \A query \in Thresholds :
            LET value == Resolve(index, query)
                own == Keyed(query[1], query[2])
                named == Named(query[2])
            IN  /\ \A p \in LastOf(own) : value = Decl(p).value
                /\ own = {} => \A p \in FirstOf(named) : value = Decl(p).value
                /\ named = {} => value = NoValue

(* What evaluate's comment says (verify.rs:1222), and the code does not: a *)
(* REQ_x.attr is resolved against the requirement definitions.  One        *)
(* without a literal is taken from any other element.                      *)
ThresholdsAreOwn ==
    pc # "index" =>
        \A query \in Thresholds :
            Resolve(index, query) \in
                {NoValue} \cup {Decl(p).value : p \in Keyed(query[1], query[2])}
=============================================================================
