---------------------------- MODULE EvidencePipeline ----------------------------
(***************************************************************************)
(* The evidence files of a project and the four commands that read and     *)
(* write them: deal simulate, deal evidence capture, deal evidence         *)
(* baseline, deal check --verify [--run-sims].                             *)
(*                                                                         *)
(* One step is one file the process reads or writes; the user edits the    *)
(* model, the simulation sources and the registry between commands, or (as *)
(* "midrun") during one.  The content of an output.json is what the tool   *)
(* computed it from; a hash is the content it is a hash of.                *)
(***************************************************************************)
EXTENDS Integers, Sequences, FiniteSets, FiniteSetsExt

CONSTANTS
    Sim,            \* simulation names
    RunOrder,       \* the sequence topological_order returns for them
    Value,          \* the values a model path can resolve to
    Source,         \* versions of a simulation's source file
    Entry,          \* versions of its [simulations.<name>] table
    Tag,            \* baseline tags: numbers in their lexical order
    Meets(_),       \* does the criterion hold of an output for this input?
    Environments,   \* what may happen, one choice per history: see Kinds
    Seeds,          \* the input.json a checkout may start with
    MaxEdits,       \* bound on the user's edits
    MaxCommands     \* bound on the commands of one history

CONSTANTS Unresolved, Broken, Absent, NoKey

Kinds ==
    {"model", "source", "registry",     \* the user edits between commands
     "midrun",                          \* ... and while one is running
     "crash",                           \* the process dies between two steps
     "fail", "absent",                  \* the tool exits non-zero, is missing
     "partial", "invalid", "silent",    \* ... after writing, writes garbage, nothing
     "retag"}                           \* baseline is given a tag in use

ASSUME PipelineAssumption ==
    /\ Environments \subseteq SUBSET Kinds
    /\ Tag \subseteq Nat
    /\ Seeds \subseteq Value \cup {Unresolved, Absent}
    /\ Value \cap {Unresolved, Broken, Absent} = {}
    /\ RunOrder \in Seq(Sim)
    /\ NoKey \notin [input : Value \cup {Unresolved}, source : Source]
    /\ MaxEdits \in Nat /\ MaxCommands \in Nat

VARIABLES
    environment,    \* the kinds of events of this history
    model,          \* the value in the model files, Unresolved, or Broken
    source, registry,
    inputFile, output, metadata, skip,  \* .deal/evidence/<sim>/*.json
    captured,       \* .deal/captured/<sim>/output.json
    snapshot,       \* evidence/baselines/<tag>/<sim>/output.json
    manifest,       \* evidence/baselines/<tag>/manifest.json
    pc,             \* where the running command is, "idle" when none runs
    job,            \* its arguments and what it holds in memory
    report,         \* the last verification report and exit, Absent at first
    edits, commands

user == <<environment, model, source, registry>>
cache == <<inputFile, output, metadata, skip>>
archive == <<captured, snapshot, manifest>>
vars == <<user, cache, archive, pc, job, report, edits, commands>>

Idle == [sims |-> << >>, stale |-> FALSE, runSims |-> FALSE, tag |-> Absent,
         loaded |-> Unresolved, reg |-> Absent, used |-> Unresolved,
         acc |-> Absent]

Content == [input : Value \cup {Unresolved}, source : Source, entry : Entry,
            ok : BOOLEAN]

Key == [input : Value \cup {Unresolved}, source : Source]

(* What stands for a missing file is no output.                            *)
ASSUME AbsentAssumption == Absent \notin Content

Nothing == [s \in Sim |-> Absent]

Without(kinds) == environment \cap kinds = {}

-----------------------------------------------------------------------------
(* Mutant: the source file is not part of the key.                         *)
KeyOfInputs(s, input) == [input |-> input, source |-> CHOOSE v \in Source : TRUE]

(* The staleness key hashes the inputs, the source file and the header     *)
(* line of the registry entry, which only holds the simulation's name.     *)
StalenessKey(s, input) == [input |-> input, source |-> source[s]]

HasKey(s) == metadata[s] # Absent /\ metadata[s].key # NoKey

(* What the model files resolve a simulation's inputs to.  Files that do   *)
(* not parse are skipped, and so leave the paths unresolved.               *)
ModelValue == IF model = Broken THEN Unresolved ELSE model

(* The greatest tag with a manifest.                                       *)
Baselines == {t \in Tag : manifest[t] # Absent}

(* What verify compares: the working output with the baseline's record.    *)
IsStale(s) ==
    \/ output[s] = Absent
    \/ /\ Baselines # {}
       /\ manifest[Max(Baselines)][s] # Absent
       /\ manifest[Max(Baselines)][s] # output[s]

Verdict(s) ==
    IF output[s] = Absent \/ ~output[s].ok THEN "PARTIAL"
    ELSE IF Meets(output[s].input) THEN "PASS" ELSE "FAIL"

-----------------------------------------------------------------------------
Init ==
    /\ environment \in Environments
    /\ model \in Value \cup {Unresolved}
    /\ source \in [Sim -> Source]
    /\ registry \in [Sim -> Entry]
    /\ inputFile \in [Sim -> Seeds]
    /\ output = Nothing
    /\ metadata = Nothing
    /\ skip = [s \in Sim |-> FALSE]
    /\ captured = Nothing
    /\ snapshot = [t \in Tag |-> Nothing]
    /\ manifest = [t \in Tag |-> Absent]
    /\ pc = "idle"
    /\ job = Idle
    /\ report = Absent
    /\ edits = 0
    /\ commands = 0

MayEdit ==
    /\ edits < MaxEdits
    /\ pc = "idle" \/ "midrun" \in environment
    /\ edits' = edits + 1
    /\ UNCHANGED <<environment, cache, archive, pc, job, report, commands>>

EditModel(v) ==
    /\ "model" \in environment
    /\ model' = v
    /\ MayEdit
    /\ UNCHANGED <<source, registry>>

EditSource(s, v) ==
    /\ "source" \in environment
    /\ source' = [source EXCEPT ![s] = v]
    /\ MayEdit
    /\ UNCHANGED <<model, registry>>

EditRegistry(s, v) ==
    /\ "registry" \in environment
    /\ registry' = [registry EXCEPT ![s] = v]
    /\ MayEdit
    /\ UNCHANGED <<model, source>>

-----------------------------------------------------------------------------
(* A command begins and ends; a crash forgets what was in memory.          *)
Begin(first, args) ==
    /\ pc = "idle"
    /\ commands < MaxCommands
    /\ commands' = commands + 1
    /\ pc' = first
    /\ job' = args
    /\ UNCHANGED <<user, cache, archive, report, edits>>

Return == pc' = "idle" /\ job' = Idle

(* After its refresh, failed or not, verify goes on to its report.         *)
EndSimulate ==
    IF job.runSims THEN pc' = "report" /\ job' = job ELSE Return

Crash ==
    /\ "crash" \in environment
    /\ pc # "idle"
    /\ Return
    /\ UNCHANGED <<user, cache, archive, report, edits, commands>>

StartSimulate(order, stale) ==
    Begin("gate", [Idle EXCEPT !.sims = order, !.stale = stale, !.reg = registry])

(* gate_model: nothing runs on a model that does not analyze.              *)
GateModel ==
    /\ pc = "gate"
    /\ IF model = Broken THEN EndSimulate ELSE pc' = "load" /\ job' = job
    /\ UNCHANGED <<user, cache, archive, report, edits, commands>>

(* The value index is built once for the whole run.                        *)
LoadModelValues ==
    /\ pc = "load"
    /\ pc' = "next"
    /\ job' = [job EXCEPT !.loaded = ModelValue]
    /\ UNCHANGED <<user, cache, archive, report, edits, commands>>

FinishSimulate ==
    /\ pc = "next"
    /\ job.sims = << >>
    /\ EndSimulate
    /\ UNCHANGED <<user, cache, archive, report, edits, commands>>

Current == Head(job.sims)

NextSim == pc' = "next" /\ job' = [job EXCEPT !.sims = Tail(@)]

IsFresh(s) ==
    /\ job.stale
    /\ metadata[s] # Absent
    /\ metadata[s].key = StalenessKey(s, job.loaded)

(* Mutant: the loop does not move on.                                      *)
SkipInPlace ==
    /\ pc = "next"
    /\ job.sims # << >>
    /\ IsFresh(Current)
    /\ UNCHANGED vars

SkipFresh ==
    /\ pc = "next"
    /\ job.sims # << >>
    /\ IsFresh(Current)
    /\ NextSim
    /\ UNCHANGED <<user, cache, archive, report, edits, commands>>

(* An input.json that already holds values wins over the model's.          *)
PrepareInput ==
    /\ pc = "next"
    /\ job.sims # << >>
    /\ ~IsFresh(Current)
    /\ LET used == IF inputFile[Current] \in Value THEN inputFile[Current]
                   ELSE job.loaded
       IN  /\ inputFile' = [inputFile EXCEPT ![Current] = used]
           /\ job' = [job EXCEPT !.used = used]
    /\ pc' = "tool"
    /\ UNCHANGED <<user, output, metadata, skip, archive, report, edits, commands>>

(* The tool reads input.json and its source, and writes output.json.       *)
ToolOutput(valid) ==
    output' = [output EXCEPT ![Current] =
                 [input |-> job.used, source |-> source[Current],
                  entry |-> job.reg[Current], ok |-> valid]]

ToolWritesOutput ==
    /\ pc = "tool"
    /\ \E valid \in (IF "invalid" \in environment THEN BOOLEAN ELSE {TRUE}) :
          ToolOutput(valid)
    /\ pc' = "toolmeta"
    /\ UNCHANGED <<user, inputFile, metadata, skip, archive, job, report, edits, commands>>

ToolWritesMetadata ==
    /\ pc = "toolmeta"
    /\ metadata' = [metadata EXCEPT ![Current] = [key |-> NoKey]]
    /\ pc' = "enrich"
    /\ UNCHANGED <<user, inputFile, output, skip, archive, job, report, edits, commands>>

(* Exit code zero, nothing written.                                        *)
ToolIsSilent ==
    /\ "silent" \in environment
    /\ pc = "tool"
    /\ pc' = "enrich"
    /\ UNCHANGED <<user, cache, archive, job, report, edits, commands>>

(* A non-zero exit ends the run; what the tool wrote before stays.         *)
ToolFails ==
    /\ pc = "tool"
    /\ \/ "fail" \in environment /\ output' = output
       \/ "partial" \in environment /\ ToolOutput(TRUE)
    /\ EndSimulate
    /\ UNCHANGED <<user, inputFile, metadata, skip, archive, report, edits, commands>>

(* A missing tool leaves a skip record, and the run goes on.               *)
ToolIsAbsent ==
    /\ "absent" \in environment
    /\ pc = "tool"
    /\ skip' = [skip EXCEPT ![Current] = TRUE]
    /\ NextSim
    /\ UNCHANGED <<user, inputFile, output, metadata, archive, report, edits, commands>>

(* The output that is there is validated, then the key of the inputs used  *)
(* and of the source as it is now goes into the metadata that is there.    *)
RejectOutput ==
    /\ pc = "enrich"
    /\ output[Current] # Absent
    /\ ~output[Current].ok
    /\ EndSimulate
    /\ UNCHANGED <<user, cache, archive, report, edits, commands>>

(* Mutant: the key is of the inputs the model has, not of those used.      *)
EnrichWithModel ==
    /\ pc = "enrich"
    /\ output[Current] # Absent => output[Current].ok
    /\ metadata' =
          IF output[Current] # Absent /\ metadata[Current] # Absent
          THEN [metadata EXCEPT ![Current].key = StalenessKey(Current, job.loaded)]
          ELSE metadata
    /\ NextSim
    /\ UNCHANGED <<user, inputFile, output, skip, archive, report, edits, commands>>

EnrichMetadata ==
    /\ pc = "enrich"
    /\ output[Current] # Absent => output[Current].ok
    /\ metadata' =
          IF output[Current] # Absent /\ metadata[Current] # Absent
          THEN [metadata EXCEPT ![Current].key = StalenessKey(Current, job.used)]
          ELSE metadata
    /\ NextSim
    /\ UNCHANGED <<user, inputFile, output, skip, archive, report, edits, commands>>

-----------------------------------------------------------------------------
(* deal evidence capture: one copy per simulation, nothing is deleted.     *)
StartCapture ==
    /\ \E s \in Sim : inputFile[s] # Absent
    /\ Begin("capture", [Idle EXCEPT !.sims = RunOrder])

CaptureSim ==
    /\ pc = "capture"
    /\ job.sims # << >>
    /\ captured' = IF output[Current] = Absent THEN captured
                   ELSE [captured EXCEPT ![Current] = output[Current]]
    /\ job' = [job EXCEPT !.sims = Tail(@)]
    /\ UNCHANGED <<user, cache, snapshot, manifest, pc, report, edits, commands>>

FinishCapture ==
    /\ pc = "capture"
    /\ job.sims = << >>
    /\ Return
    /\ UNCHANGED <<user, cache, archive, report, edits, commands>>

(* Mutant: the manifest is written before the copies.                      *)
StartWithManifest(t) ==
    /\ manifest[t] # Absent => "retag" \in environment
    /\ pc = "idle"
    /\ commands < MaxCommands
    /\ commands' = commands + 1
    /\ pc' = "baseline"
    /\ job' = [Idle EXCEPT !.sims = RunOrder, !.tag = t, !.acc = Nothing]
    /\ manifest' = [manifest EXCEPT ![t] = output]
    /\ UNCHANGED <<user, cache, captured, snapshot, report, edits>>

(* deal evidence baseline <tag>: the outputs one by one, then the manifest *)
(* of their hashes; with no output there is no manifest.                   *)
StartBaseline(t) ==
    /\ manifest[t] # Absent => "retag" \in environment
    /\ Begin("baseline", [Idle EXCEPT !.sims = RunOrder, !.tag = t, !.acc = Nothing])

SnapshotSim ==
    /\ pc = "baseline"
    /\ job.sims # << >>
    /\ snapshot' = IF output[Current] = Absent THEN snapshot
                   ELSE [snapshot EXCEPT ![job.tag][Current] = output[Current]]
    /\ job' = [job EXCEPT !.sims = Tail(@), !.acc[Current] = output[Current]]
    /\ UNCHANGED <<user, cache, captured, manifest, pc, report, edits, commands>>

WriteManifest ==
    /\ pc = "baseline"
    /\ job.sims = << >>
    /\ manifest' = IF job.acc = Nothing THEN manifest
                   ELSE [manifest EXCEPT ![job.tag] = job.acc]
    /\ Return
    /\ UNCHANGED <<user, cache, captured, snapshot, report, edits, commands>>

-----------------------------------------------------------------------------
(* deal check --verify [--run-sims]: with --run-sims the gate fails        *)
(* closed, and then every simulation is run again.                         *)
StartVerify(runSims) ==
    IF runSims
    THEN Begin("verifyGate", [Idle EXCEPT !.sims = RunOrder, !.runSims = TRUE,
                                          !.reg = registry])
    ELSE Begin("report", Idle)

(* Mutant: verify's gate is best-effort, like its refresh.                 *)
VerifyAnyway ==
    /\ pc = "verifyGate"
    /\ pc' = "gate"
    /\ UNCHANGED <<user, cache, archive, job, report, edits, commands>>

VerifyGate ==
    /\ pc = "verifyGate"
    /\ IF model = Broken THEN Return ELSE pc' = "gate" /\ job' = job
    /\ UNCHANGED <<user, cache, archive, report, edits, commands>>

(* Each requirement is backed by one simulation here.                      *)
Report ==
    /\ pc = "report"
    /\ report' =
          [stale   |-> {s \in Sim : IsStale(s)},
           verdict |-> [s \in Sim |-> Verdict(s)],
           content |-> output,
           exit    |-> IF ~job.runSims /\ \E s \in Sim : IsStale(s)
                       THEN "stale" ELSE "ok",
           at      |-> commands]
    /\ Return
    /\ UNCHANGED <<user, cache, archive, edits, commands>>

-----------------------------------------------------------------------------
UserStep ==
    \/ \E v \in Value \cup {Unresolved, Broken} : EditModel(v)
    \/ \E s \in Sim, v \in Source : EditSource(s, v)
    \/ \E s \in Sim, v \in Entry : EditRegistry(s, v)
    \/ \E stale \in BOOLEAN :
          \E order \in {RunOrder} \cup {<<s>> : s \in Sim} :
             StartSimulate(order, stale)
    \/ StartCapture
    \/ \E t \in Tag : StartBaseline(t)
    \/ \E runSims \in BOOLEAN : StartVerify(runSims)

ToolStep ==
    \/ ToolWritesOutput
    \/ ToolWritesMetadata
    \/ ToolIsSilent
    \/ ToolFails
    \/ ToolIsAbsent

ProcessStep ==
    \/ GateModel
    \/ LoadModelValues
    \/ FinishSimulate
    \/ SkipFresh
    \/ PrepareInput
    \/ ToolStep
    \/ RejectOutput
    \/ EnrichMetadata
    \/ CaptureSim
    \/ FinishCapture
    \/ SnapshotSim
    \/ WriteManifest
    \/ VerifyGate
    \/ Report

Next == UserStep \/ ProcessStep \/ Crash

Spec == Init /\ [][Next]_vars

(* The process runs on; every tool exits.                                  *)
Fairness == WF_vars(ProcessStep)

-----------------------------------------------------------------------------
(* deal simulate --stale leaves out a simulation only when the evidence on *)
(* disk was computed from the values the model now resolves to and from    *)
(* the source file as it now is: across edits, failing and absent tools,   *)
(* captures, baselines and verifications, as long as nothing changes under *)
(* a running command and no tool fails after it has written.               *)
FreshSkipIsCurrent ==
    [][SkipFresh /\ Without({"midrun", "crash", "partial", "silent"}) =>
          /\ output[Current] # Absent
          /\ output[Current].input = job.loaded
          /\ output[Current].source = source[Current]]_vars

(* The three files of a simulation, written at three moments by two        *)
(* processes.  Whatever fails or crashes in between, a key of values that  *)
(* the model had describes input.json and output.json; only a key of an    *)
(* unresolved input can lie beside a newer input or output.  With no crash *)
(* and no tool that fails after it wrote, the set a command leaves behind  *)
(* is of one run: key and output agree on the inputs and, unless sources   *)
(* change while the tool runs, on the source; the input is theirs unless   *)
(* the next tool failed or was absent.  A crash (or such a tool) does      *)
(* leave the output of one source beside the key of another.               *)
KeyDescribesEvidence ==
    Without({"silent"}) =>
        \A s \in {t \in Sim : HasKey(t)} :
            LET key == metadata[s].key IN
            /\ output[s] # Absent
            /\ output[s].input \in {key.input, inputFile[s]}
            /\ key.input \in Value => inputFile[s] = key.input
            /\ pc = "idle" /\ Without({"crash", "partial"}) =>
                  /\ output[s].input = key.input
                  /\ Without({"midrun"}) => output[s].source = key.source
                  /\ Without({"fail", "absent"}) => inputFile[s] = key.input

(* A manifest is the last file of its baseline: once it is there, every    *)
(* hash in it is the hash of the snapshot beside it, and an interrupted    *)
(* baseline is never the one verify compares with, unless its tag is       *)
(* given a second time.                                                    *)
ManifestMatchesSnapshot ==
    Without({"retag"}) =>
        \A t \in Baselines : \A s \in Sim :
            manifest[t][s] # Absent => snapshot[t][s] = manifest[t][s]

(* check --verify --run-sims never reports on a model that does not        *)
(* analyze: its gate fails closed before the best-effort refresh.          *)
RefreshFailsClosed ==
    [][Report /\ job.runSims /\ Without({"midrun"}) => model # Broken]_vars

(* Every command returns, whatever its tools do.                           *)
CommandsReturn == (pc # "idle") ~> (pc = "idle")
-----------------------------------------------------------------------------
(* What the documentation says and the code does not do.                   *)

(* Doc: the registry entry in the key catches entry, runner and class      *)
(* changes.  So a skipped simulation's evidence has the current entry.     *)
RegistryChangesAreCaught ==
    [][SkipFresh => output[Current].entry = job.reg[Current]]_vars

(* Doc: the source bytes in the key catch logic changes: what --stale      *)
(* skips was computed from the source as it is.                            *)
SkippedIsOfItsSource ==
    [][SkipFresh => output[Current].source = source[Current]]_vars

(* Doc: --run-sims forces a re-run so drifted evidence is regenerated: a   *)
(* simulation it ran successfully reflects the model it loaded.            *)
DriftIsRegenerated ==
    [][EnrichMetadata /\ job.runSims => output[Current].input = job.loaded]_vars
=============================================================================
