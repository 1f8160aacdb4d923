---------------------------- MODULE EvidenceProofs ----------------------------
(***************************************************************************)
(* Proofs about the evidence files, for every set of simulations, values,  *)
(* source versions and tags, every history of edits, crashes and failing   *)
(* tools, and no bound on their number.                                    *)
(***************************************************************************)
EXTENDS EvidencePipeline, TLAPS

Inputs == Value \cup {Unresolved}

Outputs == [Sim -> Content \cup {Absent}]

(* Where a running command can be: the simulate loop, the three phases of  *)
(* one tool run inside it, and the other commands.                         *)
ToolPhases == {"tool", "toolmeta", "enrich"}
Places == {"idle", "gate", "load", "next", "capture", "baseline",
           "verifyGate", "report"} \cup ToolPhases

(* What a command holds in memory; the registry and the accumulated hashes *)
(* only while the command that reads them runs.                            *)
Jobs == [sims : Seq(Sim), stale : BOOLEAN, runSims : BOOLEAN,
         tag : Tag \cup {Absent}, loaded : Inputs,
         reg : [Sim -> Entry] \cup {Absent}, used : Inputs,
         acc : Outputs \cup {Absent}]

JobOK ==
    /\ job \in Jobs
    /\ pc \in ToolPhases => job.sims # << >>
    /\ pc \in {"gate", "load", "next", "verifyGate"} \cup ToolPhases =>
          job.reg \in [Sim -> Entry]
    /\ pc = "baseline" => job.tag \in Tag /\ job.acc \in Outputs

TypeOK ==
    /\ environment \in Environments
    /\ model \in Inputs \cup {Broken}
    /\ source \in [Sim -> Source]
    /\ registry \in [Sim -> Entry]
    /\ inputFile \in [Sim -> Inputs \cup {Absent}]
    /\ output \in Outputs
    /\ metadata \in [Sim -> [key : Key \cup {NoKey}] \cup {Absent}]
    /\ skip \in [Sim -> BOOLEAN]
    /\ captured \in Outputs
    /\ snapshot \in [Tag -> Outputs]
    /\ manifest \in [Tag -> Outputs \cup {Absent}]
    /\ pc \in Places
    /\ JobOK

(* While a tool runs, its memory and the input file agree, and once it has *)
(* written, so does its output.                                            *)
RunUsesInputFile ==
    Without({"silent"}) =>
        /\ pc \in ToolPhases => job.used = inputFile[Current]
        /\ pc \in {"toolmeta", "enrich"} => output[Current].input = job.used

(* A baseline in progress has no manifest yet, and the hashes it has       *)
(* accumulated are those of the copies it has made.                        *)
BaselineInProgress ==
    (Without({"retag"}) /\ pc = "baseline") =>
        /\ manifest[job.tag] = Absent
        /\ \A s \in Sim : job.acc[s] # Absent => snapshot[job.tag][s] = job.acc[s]

(* With --run-sims nothing but the gate itself runs on a broken model.     *)
GatePassed ==
    /\ pc = "idle" => job = Idle
    /\ (Without({"midrun"}) /\ job.runSims /\ pc # "verifyGate") => model # Broken

(* A key of values is of the input and output beside it; only a key of an  *)
(* unresolved input may have newer ones.                                   *)
KeyOfValues ==
    Without({"silent"}) =>
        \A s \in Sim : HasKey(s) =>
            /\ output[s] # Absent
            /\ output[s].input \in {metadata[s].key.input, inputFile[s]}
            /\ metadata[s].key.input \in Value => inputFile[s] = metadata[s].key.input

(* A key on disk is of the inputs and the source the output beside it was  *)
(* computed from, except while the tool has written its output and not yet *)
(* its metadata; the input is theirs until the next tool is to run.        *)
KeyIsOfOutput ==
    Without({"crash", "partial", "silent"}) =>
        /\ \A s \in Sim :
              (HasKey(s) /\ ~(pc = "toolmeta" /\ s = Current)) =>
                  /\ output[s] # Absent
                  /\ output[s].input = metadata[s].key.input
                  /\ Without({"midrun"}) => output[s].source = metadata[s].key.source
        /\ pc \in {"toolmeta", "enrich"} =>
              /\ output[Current].input = job.used
              /\ Without({"midrun"}) => output[Current].source = source[Current]

InputIsOfKey ==
    Without({"crash", "partial", "silent", "fail", "absent"}) =>
        \A s \in Sim :
            (HasKey(s) /\ ~(pc \in {"tool", "toolmeta"} /\ s = Current)) =>
                inputFile[s] = metadata[s].key.input

-----------------------------------------------------------------------------
LEMMA HeadAndTail ==
  ASSUME NEW S, NEW seq \in Seq(S), seq # << >>
  PROVE  Head(seq) \in S /\ Tail(seq) \in Seq(S)
  OBVIOUS

(* Only a tool phase or the loop look at the current simulation.           *)
LEMMA CurrentIsSim ==
  ASSUME TypeOK, job.sims # << >>
  PROVE  Current \in Sim /\ Tail(job.sims) \in Seq(Sim)
  BY HeadAndTail DEF TypeOK, JobOK, Jobs, Current

LEMMA ReturnIsOK ==
  ASSUME Return
  PROVE  JobOK' /\ pc' \in Places
  <1>1. Idle \in Jobs
    BY DEF Idle, Jobs, Inputs
  <1> QED
    BY <1>1 DEF Return, JobOK, Places, ToolPhases

LEMMA EndSimulateIsOK ==
  ASSUME TypeOK, EndSimulate
  PROVE  JobOK' /\ pc' \in Places
  BY ReturnIsOK DEF EndSimulate, TypeOK, JobOK, Places, ToolPhases

(* Every value a file or the memory of a command holds is of its type.     *)
THEOREM EvidenceTypes == Spec => []TypeOK
<1>1. Init => TypeOK
  BY PipelineAssumption
     DEF Init, TypeOK, JobOK, Jobs, Idle, Nothing, Inputs, Outputs, Places, ToolPhases
<1>2. TypeOK /\ [Next]_vars => TypeOK'
  <2> SUFFICES ASSUME TypeOK, [Next]_vars
               PROVE  TypeOK'
    OBVIOUS
  <2> USE PipelineAssumption
      DEF Inputs, Outputs, ToolPhases, Places, user, cache, archive
  <2>1. ASSUME UserStep
        PROVE  TypeOK'
    <3>1. ASSUME NEW v \in Value \cup {Unresolved, Broken}, EditModel(v)
          PROVE  TypeOK'
      BY <3>1 DEF EditModel, MayEdit, TypeOK, JobOK, Jobs
    <3>2. ASSUME NEW s \in Sim, NEW v \in Source, EditSource(s, v)
          PROVE  TypeOK'
      BY <3>2 DEF EditSource, MayEdit, TypeOK, JobOK, Jobs
    <3>3. ASSUME NEW s \in Sim, NEW v \in Entry, EditRegistry(s, v)
          PROVE  TypeOK'
      BY <3>3 DEF EditRegistry, MayEdit, TypeOK, JobOK, Jobs
    <3>4. ASSUME NEW stale \in BOOLEAN,
                 NEW order \in {RunOrder} \cup {<<s>> : s \in Sim},
                 StartSimulate(order, stale)
          PROVE  TypeOK'
      <4>1. \A s \in Sim : <<s>> \in Seq(Sim)
        OBVIOUS
      <4>2. order \in Seq(Sim)
        BY <4>1
      <4> QED
        BY <3>4, <4>2 DEF StartSimulate, Begin, Idle, TypeOK, JobOK, Jobs
    <3>5. CASE StartCapture
      BY <3>5 DEF StartCapture, Begin, Idle, TypeOK, JobOK, Jobs
    <3>6. ASSUME NEW t \in Tag, StartBaseline(t)
          PROVE  TypeOK'
      BY <3>6 DEF StartBaseline, Begin, Idle, Nothing, TypeOK, JobOK, Jobs
    <3>7. ASSUME NEW runSims \in BOOLEAN, StartVerify(runSims)
          PROVE  TypeOK'
      <4>1. \/ Begin("verifyGate", [Idle EXCEPT !.sims = RunOrder, !.runSims = TRUE,
                                                !.reg = registry])
            \/ Begin("report", Idle)
        BY <3>7, Zenon DEF StartVerify
      <4>2. CASE Begin("report", Idle)
        BY <4>2 DEF Begin, Idle, TypeOK, JobOK, Jobs
      <4>3. CASE Begin("verifyGate", [Idle EXCEPT !.sims = RunOrder, !.runSims = TRUE,
                                                  !.reg = registry])
        BY <4>3 DEF Begin, Idle, TypeOK, JobOK, Jobs
      <4> QED
        BY <4>1, <4>2, <4>3
    <3> QED
      BY <2>1, <3>1, <3>2, <3>3, <3>4, <3>5, <3>6, <3>7 DEF UserStep
  <2>2. ASSUME ToolStep
        PROVE  TypeOK'
    <3>1. Current \in Sim /\ Tail(job.sims) \in Seq(Sim) /\ (pc = "tool" \/ pc = "toolmeta")
      BY <2>2, CurrentIsSim DEF TypeOK, JobOK, ToolStep, ToolWritesOutput,
         ToolWritesMetadata, ToolIsSilent, ToolFails, ToolIsAbsent
    <3>2. ASSUME NEW valid \in BOOLEAN, pc = "tool", ToolOutput(valid)
          PROVE  output' \in Outputs
      BY <3>1, <3>2 DEF ToolOutput, TypeOK, JobOK, Jobs, Content
    <3>3. CASE ToolWritesOutput
      BY <3>2, <3>3 DEF ToolWritesOutput, TypeOK, JobOK, Jobs
    <3>4. CASE ToolWritesMetadata
      BY <3>4, CurrentIsSim DEF ToolWritesMetadata, TypeOK, JobOK, Jobs
    <3>5. CASE ToolIsSilent
      BY <3>5 DEF ToolIsSilent, TypeOK, JobOK, Jobs
    <3>6. CASE ToolFails
      BY <3>6, <3>2, EndSimulateIsOK DEF ToolFails, TypeOK
    <3>7. CASE ToolIsAbsent
      BY <3>7, <3>1 DEF ToolIsAbsent, NextSim, TypeOK, JobOK, Jobs
    <3> QED
      BY <2>2, <3>3, <3>4, <3>5, <3>6, <3>7 DEF ToolStep
  <2>3. CASE GateModel
    BY <2>3, EndSimulateIsOK DEF GateModel, TypeOK, JobOK
  <2>4. CASE LoadModelValues
    BY <2>4 DEF LoadModelValues, ModelValue, TypeOK, JobOK, Jobs
  <2>5. CASE FinishSimulate
    BY <2>5, EndSimulateIsOK DEF FinishSimulate, TypeOK
  <2>6. CASE SkipFresh
    BY <2>6, CurrentIsSim DEF SkipFresh, NextSim, TypeOK, JobOK, Jobs
  <2>7. CASE PrepareInput
    BY <2>7, CurrentIsSim DEF PrepareInput, TypeOK, JobOK, Jobs
  <2>8. CASE RejectOutput
    BY <2>8, EndSimulateIsOK DEF RejectOutput, TypeOK
  <2>9. CASE EnrichMetadata
    <3>1. pc = "enrich" /\ Current \in Sim /\ Tail(job.sims) \in Seq(Sim)
      BY <2>9, CurrentIsSim DEF EnrichMetadata, TypeOK, JobOK, Jobs
    <3>2. StalenessKey(Current, job.used) \in Key
      BY <3>1 DEF StalenessKey, Key, TypeOK, JobOK, Jobs
    <3>3. metadata' \in [Sim -> [key : Key \cup {NoKey}] \cup {Absent}]
      BY <2>9, <3>1, <3>2 DEF EnrichMetadata, TypeOK
    <3> QED
      BY <2>9, <3>1, <3>3 DEF EnrichMetadata, NextSim, TypeOK, JobOK, Jobs
  <2>10. CASE CaptureSim
    BY <2>10, CurrentIsSim DEF CaptureSim, TypeOK, JobOK, Jobs
  <2>11. CASE FinishCapture
    BY <2>11, ReturnIsOK DEF FinishCapture, TypeOK
  <2>12. CASE SnapshotSim
    BY <2>12, CurrentIsSim DEF SnapshotSim, TypeOK, JobOK, Jobs
  <2>13. CASE WriteManifest
    BY <2>13, ReturnIsOK DEF WriteManifest, TypeOK, JobOK
  <2>14. CASE VerifyGate
    BY <2>14, ReturnIsOK DEF VerifyGate, TypeOK, JobOK
  <2>15. CASE Report
    BY <2>15, ReturnIsOK DEF Report, TypeOK
  <2>16. CASE Crash
    BY <2>16, ReturnIsOK DEF Crash, TypeOK
  <2>17. CASE UNCHANGED vars
    BY <2>17 DEF vars, TypeOK, JobOK, Jobs
  <2> QED
    BY <2>1, <2>2, <2>3, <2>4, <2>5, <2>6, <2>7, <2>8, <2>9, <2>10, <2>11,
       <2>12, <2>13, <2>14, <2>15, <2>16, <2>17 DEF Next, ProcessStep
<1> QED
  BY <1>1, <1>2, PTL DEF Spec
-----------------------------------------------------------------------------
(* The steps that touch the input, the output or the metadata of a         *)
(* simulation; every other step leaves them alone, and leaves the command  *)
(* where it is or takes it out of the tool's phases.                       *)
LEMMA CacheSteps ==
  ASSUME [Next]_vars
  PROVE  /\ environment' = environment
         /\ \/ PrepareInput \/ ToolWritesOutput \/ ToolWritesMetadata
            \/ ToolIsSilent \/ ToolFails \/ EnrichMetadata
            \/ /\ UNCHANGED <<inputFile, output, metadata>>
               /\ \/ UNCHANGED <<pc, job>>
                  \/ pc' \notin ToolPhases
  <1> USE DEF user, cache, archive
  <1>1. CASE UserStep
    <2>1. \/ UNCHANGED <<environment, inputFile, output, metadata, pc, job>>
          \/ \E first \in {"gate", "capture", "baseline", "verifyGate", "report"} :
                \E args : Begin(first, args)
      BY <1>1, Zenon DEF UserStep, EditModel, EditSource, EditRegistry, MayEdit,
         StartSimulate, StartCapture, StartBaseline, StartVerify
    <2> QED
      BY <2>1 DEF Begin, ToolPhases
  <1>2. CASE ToolStep
    BY <1>2 DEF ToolStep, ToolWritesOutput, ToolWritesMetadata, ToolIsSilent,
       ToolFails, ToolIsAbsent, NextSim, ToolPhases
  <1>3. CASE GateModel \/ LoadModelValues \/ FinishSimulate \/ SkipFresh \/ RejectOutput
    BY <1>3 DEF GateModel, LoadModelValues, FinishSimulate, SkipFresh, RejectOutput,
       EndSimulate, Return, NextSim, ToolPhases
  <1>4. CASE CaptureSim \/ FinishCapture \/ SnapshotSim \/ WriteManifest
             \/ VerifyGate \/ Report \/ Crash
    BY <1>4 DEF CaptureSim, FinishCapture, SnapshotSim, WriteManifest, VerifyGate,
       Report, Crash, Return, ToolPhases
  <1>5. CASE PrepareInput \/ EnrichMetadata
    BY <1>5 DEF PrepareInput, EnrichMetadata
  <1>6. CASE UNCHANGED vars
    BY <1>6 DEF vars
  <1> QED
    BY <1>1, <1>2, <1>3, <1>4, <1>5, <1>6 DEF Next, ProcessStep

(* While a tool runs the input file is what it was given, and a key of     *)
(* values is of the files beside it, whatever fails or crashes.            *)
LEMMA KeysOfValuesHold == Spec => [](RunUsesInputFile /\ KeyOfValues)
<1>1. Init => RunUsesInputFile /\ KeyOfValues
  BY DEF Init, RunUsesInputFile, KeyOfValues, HasKey, Nothing, ToolPhases
<1>2. TypeOK /\ TypeOK' /\ RunUsesInputFile /\ KeyOfValues /\ [Next]_vars
         => RunUsesInputFile' /\ KeyOfValues'
  <2> SUFFICES ASSUME TypeOK, TypeOK', RunUsesInputFile, KeyOfValues, [Next]_vars,
                      Without({"silent"})
               PROVE  RunUsesInputFile' /\ KeyOfValues'
    BY CacheSteps DEF RunUsesInputFile, KeyOfValues, Without
  <2>e. environment' = environment
    BY CacheSteps
  <2>1. CASE PrepareInput
    <3>1. Current \in Sim /\ Current' = Current
      BY <2>1, CurrentIsSim DEF PrepareInput, Current, TypeOK, JobOK, Jobs
    <3>2. inputFile'[Current] = job'.used
      BY <2>1, <3>1 DEF PrepareInput, TypeOK, JobOK, Jobs
    <3>3. RunUsesInputFile'
      BY <2>1, <3>1, <3>2 DEF PrepareInput, RunUsesInputFile
    <3>4. ASSUME NEW s \in Sim, inputFile[s] \in Value \/ s # Current
          PROVE  inputFile'[s] = inputFile[s]
      BY <2>1, <3>1, <3>4 DEF PrepareInput, TypeOK
    <3>5. ASSUME NEW s \in Sim, HasKey(s)
          PROVE  /\ output[s].input \in {metadata[s].key.input, inputFile'[s]}
                 /\ metadata[s].key.input \in Value => inputFile'[s] = metadata[s].key.input
      <4>1. CASE inputFile'[s] = inputFile[s]
        BY <3>5, <4>1 DEF KeyOfValues
      <4>2. CASE inputFile[s] \notin Value
        <5>1. /\ output[s] \in Content /\ metadata[s].key \in Key
              /\ inputFile[s] \in {Unresolved, Absent}
          BY <3>5, <4>2 DEF KeyOfValues, HasKey, TypeOK, Outputs, Inputs
        <5>2. output[s].input \in Value \cup {Unresolved}
              /\ metadata[s].key.input \in Value \cup {Unresolved}
          BY <5>1 DEF Content, Key
        <5>3. metadata[s].key.input = Unresolved /\ output[s].input = Unresolved
          BY <3>5, <4>2, <5>1, <5>2, PipelineAssumption DEF KeyOfValues
        <5> QED
          BY <5>3, PipelineAssumption
      <4> QED
        BY <3>4, <4>1, <4>2
    <3> QED
      BY <2>1, <3>3, <3>5 DEF PrepareInput, KeyOfValues, HasKey
  <2>2. ASSUME Current \in Sim, NEW valid \in BOOLEAN, ToolOutput(valid), pc = "tool",
               UNCHANGED <<environment, inputFile, metadata>>
        PROVE  output'[Current].input = job.used /\ KeyOfValues'
    <3>1. PICK o : /\ output' = [output EXCEPT ![Current] = o] /\ o.input = job.used
                   /\ o = [input |-> job.used, source |-> source[Current],
                           entry |-> job.reg[Current], ok |-> valid]
      BY <2>2 DEF ToolOutput
    <3>2. output'[Current] = o /\ \A s \in Sim \ {Current} : output'[s] = output[s]
      BY <2>2, <3>1 DEF TypeOK, Outputs
    <3>3. o # Absent
      <4>1. job.used \in Value \cup {Unresolved} /\ source[Current] \in Source
            /\ job.reg[Current] \in Entry
        BY <2>2 DEF TypeOK, JobOK, Jobs, Inputs, ToolPhases
      <4>2. o \in Content
        BY <3>1, <4>1, Zenon DEF Content
      <4> QED
        BY <4>2, AbsentAssumption
    <3>4. job.used = inputFile[Current]
      BY <2>2 DEF RunUsesInputFile, ToolPhases
    <3> QED
      BY <2>2, <3>1, <3>2, <3>3, <3>4 DEF KeyOfValues, HasKey
  <2>3. CASE ToolWritesOutput
    <3>1. Current \in Sim /\ Current' = Current
      BY <2>3, CurrentIsSim DEF ToolWritesOutput, Current, TypeOK, JobOK, ToolPhases
    <3>2. PICK valid \in BOOLEAN : ToolOutput(valid)
      BY <2>3 DEF ToolWritesOutput
    <3>3. output'[Current].input = job.used /\ KeyOfValues'
      BY <2>2, <2>3, <3>1, <3>2 DEF ToolWritesOutput, user
    <3> QED
      BY <2>3, <3>1, <3>3 DEF ToolWritesOutput, RunUsesInputFile, ToolPhases, user
  <2>4. CASE ToolFails
    <3>1. Current \in Sim
      BY <2>4, CurrentIsSim DEF ToolFails, TypeOK, JobOK, ToolPhases
    <3>2. KeyOfValues'
      <4>1. CASE output' = output
        BY <2>4, <4>1 DEF ToolFails, KeyOfValues, HasKey, user
      <4>2. CASE ToolOutput(TRUE)
        BY <2>2, <2>4, <3>1, <4>2 DEF ToolFails, user
      <4> QED
        BY <2>4, <4>1, <4>2 DEF ToolFails
    <3> QED
      BY <2>4, <3>2 DEF ToolFails, EndSimulate, Return, RunUsesInputFile, ToolPhases
  <2>5. CASE ToolWritesMetadata
    <3>1. Current \in Sim /\ Current' = Current
      BY <2>5, CurrentIsSim DEF ToolWritesMetadata, Current, TypeOK, JobOK, ToolPhases
    <3>2. metadata'[Current].key = NoKey /\ \A s \in Sim \ {Current} : metadata'[s] = metadata[s]
      BY <2>5, <3>1 DEF ToolWritesMetadata, TypeOK
    <3> QED
      BY <2>5, <3>1, <3>2 DEF ToolWritesMetadata, RunUsesInputFile, KeyOfValues, HasKey, ToolPhases
  <2>6. CASE ToolIsSilent
    BY <2>6 DEF ToolIsSilent, Without
  <2>7. CASE EnrichMetadata
    <3>1. Current \in Sim
      BY <2>7, CurrentIsSim DEF EnrichMetadata, TypeOK, JobOK, ToolPhases
    <3>2. job.used = inputFile[Current] /\ output[Current].input = job.used
      BY <2>7 DEF EnrichMetadata, RunUsesInputFile, ToolPhases
    <3>3. \A s \in Sim : \/ metadata'[s] = metadata[s]
                         \/ /\ s = Current /\ output[s] # Absent
                            /\ metadata'[s].key.input = job.used
      BY <2>7, <3>1 DEF EnrichMetadata, StalenessKey, TypeOK
    <3>4. KeyOfValues'
      BY <2>7, <3>1, <3>2, <3>3 DEF EnrichMetadata, KeyOfValues, HasKey
    <3> QED
      BY <2>7, <3>4 DEF EnrichMetadata, NextSim, RunUsesInputFile, ToolPhases
  <2>8. CASE /\ UNCHANGED <<inputFile, output, metadata>>
             /\ \/ UNCHANGED <<pc, job>>
                \/ pc' \notin ToolPhases
    BY <2>8, <2>e DEF RunUsesInputFile, KeyOfValues, HasKey, Current, ToolPhases, Without
  <2> QED
    BY <2>1, <2>3, <2>4, <2>5, <2>6, <2>7, <2>8, CacheSteps
<1> QED
  BY <1>1, <1>2, EvidenceTypes, PTL DEF Spec
-----------------------------------------------------------------------------
(* The steps that touch a baseline.                                        *)
LEMMA BaselineSteps ==
  ASSUME [Next]_vars
  PROVE  \/ \E t \in Tag : StartBaseline(t)
         \/ SnapshotSim \/ WriteManifest
         \/ /\ UNCHANGED <<snapshot, manifest>>
            /\ \/ UNCHANGED <<pc, job>>
               \/ pc' # "baseline"
  <1> USE DEF user, cache, archive
  <1>1. CASE UserStep
    <2>1. \/ \E t \in Tag : StartBaseline(t)
          \/ UNCHANGED <<snapshot, manifest, pc, job>>
          \/ \E first \in {"gate", "capture", "verifyGate", "report"} :
                \E args : Begin(first, args)
      BY <1>1, Zenon DEF UserStep, EditModel, EditSource, EditRegistry, MayEdit,
         StartSimulate, StartCapture, StartVerify
    <2> QED
      BY <2>1 DEF Begin
  <1>2. CASE ToolStep
    BY <1>2 DEF ToolStep, ToolWritesOutput, ToolWritesMetadata, ToolIsSilent,
       ToolFails, ToolIsAbsent, NextSim, EndSimulate, Return
  <1>3. CASE GateModel \/ LoadModelValues \/ FinishSimulate \/ SkipFresh
             \/ PrepareInput \/ RejectOutput \/ EnrichMetadata
    BY <1>3 DEF GateModel, LoadModelValues, FinishSimulate, SkipFresh, PrepareInput,
       RejectOutput, EnrichMetadata, EndSimulate, Return, NextSim
  <1>4. CASE CaptureSim \/ FinishCapture \/ VerifyGate \/ Report \/ Crash
    BY <1>4 DEF CaptureSim, FinishCapture, VerifyGate, Report, Crash, Return
  <1>5. CASE UNCHANGED vars
    BY <1>5 DEF vars
  <1> QED
    BY <1>1, <1>2, <1>3, <1>4, <1>5 DEF Next, ProcessStep

(* Once a manifest is there, every hash in it is the hash of the snapshot  *)
(* beside it, however baselines were interrupted, unless a tag is given a  *)
(* second time.                                                            *)
THEOREM ManifestsMatchSnapshots == Spec => []ManifestMatchesSnapshot
<1>1. Init => BaselineInProgress /\ ManifestMatchesSnapshot
  BY DEF Init, BaselineInProgress, ManifestMatchesSnapshot, Baselines
<1>2. TypeOK /\ TypeOK' /\ BaselineInProgress /\ ManifestMatchesSnapshot /\ [Next]_vars
         => BaselineInProgress' /\ ManifestMatchesSnapshot'
  <2> SUFFICES ASSUME TypeOK, BaselineInProgress, ManifestMatchesSnapshot, [Next]_vars,
                      Without({"retag"})
               PROVE  BaselineInProgress' /\ ManifestMatchesSnapshot'
    BY CacheSteps DEF BaselineInProgress, ManifestMatchesSnapshot, Without
  <2>1. ASSUME NEW t \in Tag, StartBaseline(t)
        PROVE  BaselineInProgress' /\ ManifestMatchesSnapshot'
    <3>1. /\ manifest[t] = Absent
          /\ UNCHANGED <<snapshot, manifest>>
          /\ job' = [Idle EXCEPT !.sims = RunOrder, !.tag = t, !.acc = Nothing]
      BY <2>1 DEF StartBaseline, Begin, archive, Without
    <3>2. job'.tag = t /\ job'.acc = Nothing
      BY <3>1 DEF Idle
    <3> QED
      BY <3>1, <3>2 DEF BaselineInProgress, ManifestMatchesSnapshot, Baselines, Nothing
  <2>2. CASE SnapshotSim
    <3>1. /\ Current \in Sim /\ job.tag \in Tag /\ job.acc \in Outputs
          /\ pc = "baseline" /\ manifest' = manifest
      BY <2>2, CurrentIsSim DEF SnapshotSim, TypeOK, JobOK
    <3>2. /\ job'.tag = job.tag
          /\ job'.acc[Current] = output[Current]
          /\ \A s \in Sim \ {Current} : job'.acc[s] = job.acc[s]
      BY <2>2, <3>1 DEF SnapshotSim, TypeOK, JobOK, Jobs, Outputs
    <3>3. /\ output[Current] # Absent => snapshot'[job.tag][Current] = output[Current]
          /\ \A s \in Sim \ {Current} : snapshot'[job.tag][s] = snapshot[job.tag][s]
          /\ \A t \in Tag \ {job.tag} : snapshot'[t] = snapshot[t]
      BY <2>2, <3>1 DEF SnapshotSim, TypeOK, Outputs
    <3>4. /\ manifest[job.tag] = Absent
          /\ \A s \in Sim : job.acc[s] # Absent => snapshot[job.tag][s] = job.acc[s]
      BY <3>1 DEF BaselineInProgress
    <3>5. BaselineInProgress'
      BY <3>1, <3>2, <3>3, <3>4 DEF BaselineInProgress
    <3>6. ManifestMatchesSnapshot'
      BY <3>1, <3>3, <3>4 DEF ManifestMatchesSnapshot, Baselines
    <3> QED
      BY <3>5, <3>6
  <2>3. CASE WriteManifest
    <3>1. job.tag \in Tag /\ pc = "baseline" /\ pc' = "idle" /\ snapshot' = snapshot
      BY <2>3 DEF WriteManifest, Return, TypeOK, JobOK
    <3>2. /\ manifest'[job.tag] \in {manifest[job.tag], job.acc}
          /\ \A t \in Tag \ {job.tag} : manifest'[t] = manifest[t]
      BY <2>3, <3>1 DEF WriteManifest, TypeOK
    <3>3. \A s \in Sim : job.acc[s] # Absent => snapshot[job.tag][s] = job.acc[s]
      BY <3>1 DEF BaselineInProgress
    <3>4. ManifestMatchesSnapshot'
      BY <3>1, <3>2, <3>3 DEF ManifestMatchesSnapshot, Baselines
    <3> QED
      BY <3>1, <3>4 DEF BaselineInProgress
  <2>4. CASE /\ UNCHANGED <<snapshot, manifest>>
             /\ \/ UNCHANGED <<pc, job>>
                \/ pc' # "baseline"
    BY <2>4, CacheSteps DEF BaselineInProgress, ManifestMatchesSnapshot, Baselines, Without
  <2> QED
    BY <2>1, <2>2, <2>3, <2>4, BaselineSteps
<1> QED
  BY <1>1, <1>2, EvidenceTypes, PTL DEF Spec

-----------------------------------------------------------------------------
(* The gate of check --verify --run-sims: past it the model analyzes.      *)
LEMMA GateHolds == Spec => []GatePassed
<1>1. Init => GatePassed
  BY DEF Init, GatePassed, Idle
<1>2. TypeOK /\ GatePassed /\ [Next]_vars => GatePassed'
  <2> SUFFICES ASSUME TypeOK, GatePassed, [Next]_vars
               PROVE  GatePassed'
    OBVIOUS
  <2> USE DEF user, cache, archive
  <2>i. ~Idle.runSims
    BY DEF Idle
  <2>1. CASE UNCHANGED <<environment, model, pc, job>>
    BY <2>1 DEF GatePassed, Without
  <2>2. ASSUME environment' = environment, pc' = "idle", job' = Idle
        PROVE  GatePassed'
    BY <2>2, <2>i DEF GatePassed
  <2>3. ASSUME UNCHANGED <<environment, model>>, pc \notin {"idle", "verifyGate"},
               pc' # "idle", job'.runSims = job.runSims
        PROVE  GatePassed'
    BY <2>3 DEF GatePassed, Without
  <2>4. CASE UserStep
    <3>1. CASE \/ \E v \in Value \cup {Unresolved, Broken} : EditModel(v)
               \/ \E s \in Sim, v \in Source : EditSource(s, v)
               \/ \E s \in Sim, v \in Entry : EditRegistry(s, v)
      <4>1. /\ UNCHANGED <<environment, pc, job>>
            /\ pc = "idle" \/ "midrun" \in environment
        BY <3>1 DEF EditModel, EditSource, EditRegistry, MayEdit
      <4> QED
        BY <4>1, <2>i DEF GatePassed, Without
    <3>2. ASSUME NEW first, first # "idle", NEW args, Begin(first, args),
                 ~args.runSims \/ first = "verifyGate"
          PROVE  GatePassed'
      BY <3>2 DEF Begin, GatePassed
    <3>3. ASSUME NEW stale \in BOOLEAN, NEW order, StartSimulate(order, stale)
          PROVE  GatePassed'
      BY <3>3, <3>2 DEF StartSimulate, Idle
    <3>4. CASE StartCapture
      BY <3>4, <3>2 DEF StartCapture, Idle
    <3>5. ASSUME NEW t \in Tag, StartBaseline(t)
          PROVE  GatePassed'
      BY <3>5, <3>2 DEF StartBaseline, Idle
    <3>6. ASSUME NEW runSims \in BOOLEAN, StartVerify(runSims)
          PROVE  GatePassed'
      <4>1. \/ \E args : Begin("verifyGate", args)
            \/ Begin("report", Idle)
        BY <3>6, Zenon DEF StartVerify
      <4> QED
        BY <4>1, <3>2, <2>i
    <3> QED
      BY <2>4, <3>1, <3>3, <3>4, <3>5, <3>6, Zenon DEF UserStep
  <2>5. CASE ToolStep
    <3>1. CASE ToolWritesOutput \/ ToolWritesMetadata \/ ToolIsSilent
      BY <3>1, <2>3 DEF ToolWritesOutput, ToolWritesMetadata, ToolIsSilent
    <3>2. CASE ToolFails
      BY <3>2, <2>2, <2>3 DEF ToolFails, EndSimulate, Return
    <3>3. CASE ToolIsAbsent
      BY <3>3, <2>3 DEF ToolIsAbsent, NextSim, TypeOK, JobOK, Jobs
    <3> QED
      BY <2>5, <3>1, <3>2, <3>3 DEF ToolStep
  <2>6. CASE GateModel \/ FinishSimulate \/ RejectOutput
    BY <2>6, <2>2, <2>3 DEF GateModel, FinishSimulate, RejectOutput, EndSimulate, Return
  <2>7. CASE LoadModelValues \/ SkipFresh \/ PrepareInput \/ EnrichMetadata
    BY <2>7, <2>3 DEF LoadModelValues, SkipFresh, PrepareInput, EnrichMetadata, NextSim,
       TypeOK, JobOK, Jobs
  <2>8. CASE CaptureSim \/ SnapshotSim
    BY <2>8, <2>3 DEF CaptureSim, SnapshotSim, TypeOK, JobOK, Jobs
  <2>9. CASE FinishCapture \/ WriteManifest \/ Report \/ Crash
    BY <2>9, <2>2 DEF FinishCapture, WriteManifest, Report, Crash, Return
  <2>10. CASE VerifyGate
    BY <2>10, <2>2 DEF VerifyGate, Return, GatePassed, Without
  <2>11. CASE UNCHANGED vars
    BY <2>11, <2>1 DEF vars
  <2> QED
    BY <2>4, <2>5, <2>6, <2>7, <2>8, <2>9, <2>10, <2>11 DEF Next, ProcessStep
<1> QED
  BY <1>1, <1>2, EvidenceTypes, PTL DEF Spec

(* check --verify --run-sims never reports on a model that does not        *)
(* analyze.                                                                *)
THEOREM RefreshFailsClosedHolds == Spec => RefreshFailsClosed
<1>1. GatePassed => [Report /\ job.runSims /\ Without({"midrun"}) => model # Broken]_vars
  BY DEF GatePassed, Report
<1> QED
  BY <1>1, GateHolds, PTL DEF RefreshFailsClosed, Spec
-----------------------------------------------------------------------------
(* Nothing but an edit changes a source, and edits come between commands   *)
(* or are "midrun"; nothing but a crash takes a command out of the middle  *)
(* of a tool run that succeeds.                                            *)
LEMMA SourceSteps ==
  ASSUME [Next]_vars, Without({"crash"}), pc # "idle"
  PROVE  ~Crash /\ (Without({"midrun"}) => source' = source)
  <1> USE DEF user, cache, archive
  <1>1. ~Crash
    BY DEF Crash, Without
  <1>2. CASE UserStep
    BY <1>1, <1>2 DEF UserStep, EditModel, EditSource, EditRegistry, MayEdit, StartSimulate,
       StartCapture, StartBaseline, StartVerify, Begin, Without
  <1>3. CASE ToolStep
    BY <1>1, <1>3 DEF ToolStep, ToolWritesOutput, ToolWritesMetadata, ToolIsSilent,
       ToolFails, ToolIsAbsent
  <1>4. CASE ProcessStep /\ ~ToolStep
    BY <1>1, <1>4 DEF ProcessStep, GateModel, LoadModelValues, FinishSimulate, SkipFresh,
       PrepareInput, RejectOutput, EnrichMetadata, CaptureSim, FinishCapture,
       SnapshotSim, WriteManifest, VerifyGate, Report
  <1>5. CASE UNCHANGED vars
    BY <1>1, <1>5 DEF vars
  <1> QED
    BY <1>1, <1>2, <1>3, <1>4, <1>5 DEF Next

(* From the middle of a tool run the only other ways on are an edit and    *)
(* the tool's own steps.                                                   *)
LEMMA ToolGoesOn ==
  ASSUME [Next]_vars, Without({"crash"}), pc \in {"tool", "toolmeta"}
  PROVE  ToolStep \/ UNCHANGED <<pc, job>>
  <1> USE DEF user, cache, archive
  <1>1. CASE UserStep
    BY <1>1 DEF UserStep, EditModel, EditSource, EditRegistry, MayEdit, StartSimulate,
       StartCapture, StartBaseline, StartVerify, Begin
  <1>2. CASE ProcessStep /\ ~ToolStep
    BY <1>2 DEF ProcessStep, GateModel, LoadModelValues, FinishSimulate, SkipFresh,
       PrepareInput, RejectOutput, EnrichMetadata, CaptureSim, FinishCapture,
       SnapshotSim, WriteManifest, VerifyGate, Report
  <1>3. CASE UNCHANGED vars
    BY <1>3 DEF vars
  <1> QED
    BY <1>1, <1>2, <1>3, SourceSteps DEF Next, ProcessStep

LEMMA KeysFollowOutputs == Spec => []KeyIsOfOutput
<1>1. Init => KeyIsOfOutput
  BY DEF Init, KeyIsOfOutput, HasKey, Nothing
<1>2. TypeOK /\ TypeOK' /\ KeyOfValues' /\ KeyIsOfOutput /\ [Next]_vars => KeyIsOfOutput'
  <2> SUFFICES ASSUME TypeOK, KeyOfValues', KeyIsOfOutput, [Next]_vars,
                      Without({"crash", "partial", "silent"})
               PROVE  KeyIsOfOutput'
    BY CacheSteps DEF KeyIsOfOutput, Without
  <2>e. Without({"crash"}) /\ environment' = environment
    BY CacheSteps DEF Without
  <2>k. \A s \in Sim : HasKey(s)' => output'[s] # Absent
    BY <2>e DEF KeyOfValues, Without
  <2>1. CASE PrepareInput
    <3>1. Current' = Current
      BY <2>1 DEF PrepareInput, Current, TypeOK, JobOK, Jobs
    <3> QED
      BY <2>1, <3>1 DEF PrepareInput, KeyIsOfOutput, HasKey, Without, user
  <2>2. CASE ToolWritesOutput
    <3>1. Current \in Sim /\ Current' = Current
      BY <2>2, CurrentIsSim DEF ToolWritesOutput, Current, TypeOK, JobOK, ToolPhases
    <3>2. /\ output'[Current].input = job.used
          /\ output'[Current].source = source[Current]
          /\ \A s \in Sim \ {Current} : output'[s] = output[s]
      BY <2>2, <3>1 DEF ToolWritesOutput, ToolOutput, TypeOK, Outputs
    <3> QED
      BY <2>2, <3>1, <3>2 DEF ToolWritesOutput, KeyIsOfOutput, HasKey, Without, user
  <2>3. CASE ToolFails
    <3>1. output' = output /\ metadata' = metadata /\ pc = "tool" /\ pc' \notin ToolPhases
      BY <2>3 DEF ToolFails, EndSimulate, Return, Without, ToolPhases
    <3> QED
      BY <2>e, <3>1 DEF KeyIsOfOutput, HasKey, Without, ToolPhases
  <2>4. CASE ToolWritesMetadata
    <3>1. Current \in Sim /\ Current' = Current
      BY <2>4, CurrentIsSim DEF ToolWritesMetadata, Current, TypeOK, JobOK, ToolPhases
    <3>2. metadata'[Current].key = NoKey /\ \A s \in Sim \ {Current} : metadata'[s] = metadata[s]
      BY <2>4, <3>1 DEF ToolWritesMetadata, TypeOK
    <3> QED
      BY <2>4, <3>1, <3>2 DEF ToolWritesMetadata, KeyIsOfOutput, HasKey, Without, user
  <2>5. CASE EnrichMetadata
    <3>1. Current \in Sim
      BY <2>5, CurrentIsSim DEF EnrichMetadata, TypeOK, JobOK, ToolPhases
    <3>2. /\ output[Current].input = job.used
          /\ Without({"midrun"}) => output[Current].source = source[Current]
      BY <2>5 DEF EnrichMetadata, KeyIsOfOutput
    <3>3. \A s \in Sim : \/ metadata'[s] = metadata[s]
                         \/ /\ s = Current /\ output[s] # Absent
                            /\ metadata'[s].key.input = job.used
                            /\ metadata'[s].key.source = source[s]
      BY <2>5, <3>1 DEF EnrichMetadata, StalenessKey, TypeOK
    <3>4. pc = "enrich" /\ pc' = "next" /\ UNCHANGED <<environment, source, output>>
      BY <2>5 DEF EnrichMetadata, NextSim, user
    <3>5. ASSUME NEW s \in Sim, HasKey(s)'
          PROVE  /\ output[s] # Absent
                 /\ output[s].input = metadata'[s].key.input
                 /\ Without({"midrun"}) => output[s].source = metadata'[s].key.source
      <4>1. CASE metadata'[s] = metadata[s]
        BY <3>4, <3>5, <4>1 DEF KeyIsOfOutput, HasKey
      <4> QED
        BY <3>2, <3>3, <4>1
    <3> QED
      BY <3>4, <3>5 DEF KeyIsOfOutput, Without
  <2>6. CASE /\ UNCHANGED <<inputFile, output, metadata>>
             /\ \/ UNCHANGED <<pc, job>>
                \/ pc' \notin ToolPhases
    <3>1. CASE pc' \notin ToolPhases
      <4>1. pc # "toolmeta"
        BY <2>e, <3>1, ToolGoesOn
        DEF ToolStep, ToolWritesOutput, ToolWritesMetadata, ToolIsSilent, ToolFails,
            ToolIsAbsent, ToolPhases
      <4> QED
        BY <2>e, <2>6, <3>1, <4>1 DEF KeyIsOfOutput, HasKey, Without, ToolPhases
    <3>2. CASE UNCHANGED <<pc, job>>
      BY <2>e, <2>6, <3>2, SourceSteps DEF KeyIsOfOutput, HasKey, Current, Without
    <3> QED
      BY <2>6, <3>1, <3>2
  <2>7. CASE ToolIsSilent
    BY <2>7 DEF ToolIsSilent, Without
  <2> QED
    BY <2>1, <2>2, <2>3, <2>4, <2>5, <2>6, <2>7, CacheSteps
<1> QED
  BY <1>1, <1>2, KeysOfValuesHold, EvidenceTypes, PTL DEF Spec

LEMMA InputsFollowKeys == Spec => []InputIsOfKey
<1>1. Init => InputIsOfKey
  BY DEF Init, InputIsOfKey, HasKey, Nothing
<1>2. TypeOK /\ RunUsesInputFile /\ InputIsOfKey /\ [Next]_vars => InputIsOfKey'
  <2> SUFFICES ASSUME TypeOK, RunUsesInputFile, InputIsOfKey, [Next]_vars,
                      Without({"crash", "partial", "silent", "fail", "absent"})
               PROVE  InputIsOfKey'
    BY CacheSteps DEF InputIsOfKey, Without
  <2>e. Without({"crash"}) /\ environment' = environment
    BY CacheSteps DEF Without
  <2>1. CASE PrepareInput
    <3>1. Current \in Sim /\ Current' = Current
      BY <2>1, CurrentIsSim DEF PrepareInput, Current, TypeOK, JobOK, Jobs
    <3>2. \A s \in Sim \ {Current} : inputFile'[s] = inputFile[s]
      BY <2>1, <3>1 DEF PrepareInput, TypeOK
    <3> QED
      BY <2>1, <3>1, <3>2 DEF PrepareInput, InputIsOfKey, HasKey
  <2>2. CASE ToolWritesOutput
    <3>1. Current' = Current
      BY <2>2 DEF ToolWritesOutput, Current
    <3> QED
      BY <2>2, <3>1 DEF ToolWritesOutput, InputIsOfKey, HasKey
  <2>3. CASE ToolFails \/ ToolIsSilent \/ ToolIsAbsent
    BY <2>3 DEF ToolFails, ToolIsSilent, ToolIsAbsent, Without
  <2>4. CASE ToolWritesMetadata
    <3>1. Current \in Sim /\ Current' = Current
      BY <2>4, CurrentIsSim DEF ToolWritesMetadata, Current, TypeOK, JobOK, ToolPhases
    <3>2. metadata'[Current].key = NoKey /\ \A s \in Sim \ {Current} : metadata'[s] = metadata[s]
      BY <2>4, <3>1 DEF ToolWritesMetadata, TypeOK
    <3> QED
      BY <2>4, <3>1, <3>2 DEF ToolWritesMetadata, InputIsOfKey, HasKey
  <2>5. CASE EnrichMetadata
    <3>1. Current \in Sim
      BY <2>5, CurrentIsSim DEF EnrichMetadata, TypeOK, JobOK, ToolPhases
    <3>2. job.used = inputFile[Current]
      BY <2>5 DEF EnrichMetadata, RunUsesInputFile, ToolPhases, Without
    <3>3. \A s \in Sim : \/ metadata'[s] = metadata[s]
                         \/ s = Current /\ metadata'[s].key.input = job.used
      BY <2>5, <3>1 DEF EnrichMetadata, StalenessKey, TypeOK
    <3> QED
      BY <2>5, <3>1, <3>2, <3>3 DEF EnrichMetadata, NextSim, InputIsOfKey, HasKey
  <2>6. CASE /\ UNCHANGED <<inputFile, output, metadata>>
             /\ \/ UNCHANGED <<pc, job>>
                \/ pc' \notin ToolPhases
    <3>1. CASE pc' \notin ToolPhases
      <4>1. pc \notin {"tool", "toolmeta"}
        BY <2>e, <2>3, <3>1, ToolGoesOn
        DEF ToolStep, ToolWritesOutput, ToolWritesMetadata, ToolPhases, ToolFails, ToolIsSilent,
            ToolIsAbsent, Without
      <4> QED
        BY <2>e, <2>6, <3>1, <4>1 DEF InputIsOfKey, HasKey, ToolPhases
    <3>2. CASE UNCHANGED <<pc, job>>
      BY <2>6, <3>2 DEF InputIsOfKey, HasKey, Current
    <3> QED
      BY <2>6, <3>1, <3>2
  <2> QED
    BY <2>1, <2>2, <2>3, <2>4, <2>5, <2>6, CacheSteps
<1> QED
  BY <1>1, <1>2, KeysOfValuesHold, EvidenceTypes, PTL DEF Spec

(* The three files of a simulation: a key of values is of the input and    *)
(* output beside it whatever fails or crashes, and without a crash or a    *)
(* tool that fails after it wrote, the set a command leaves is of one run. *)
THEOREM KeysDescribeEvidence == Spec => []KeyDescribesEvidence
<1>1. KeyOfValues /\ KeyIsOfOutput /\ InputIsOfKey => KeyDescribesEvidence
  BY DEF KeyOfValues, KeyIsOfOutput, InputIsOfKey, KeyDescribesEvidence, Without
<1> QED
  BY <1>1, KeysOfValuesHold, KeysFollowOutputs, InputsFollowKeys, PTL

(* deal simulate --stale leaves out a simulation only when the evidence on *)
(* disk was computed from the values the model now resolves to and from    *)
(* the source file as it now is, as long as nothing changes under a        *)
(* running command and no tool fails after it has written.                 *)
THEOREM FreshSkipsAreCurrent == Spec => FreshSkipIsCurrent
<1>1. TypeOK /\ KeyIsOfOutput =>
        [SkipFresh /\ Without({"midrun", "crash", "partial", "silent"}) =>
            /\ output[Current] # Absent
            /\ output[Current].input = job.loaded
            /\ output[Current].source = source[Current]]_vars
  <2> SUFFICES ASSUME TypeOK, KeyIsOfOutput, SkipFresh,
                      Without({"midrun", "crash", "partial", "silent"})
               PROVE  /\ output[Current] # Absent
                      /\ output[Current].input = job.loaded
                      /\ output[Current].source = source[Current]
    OBVIOUS
  <2>1. Current \in Sim /\ pc = "next"
    BY CurrentIsSim DEF SkipFresh
  <2>2. /\ metadata[Current] # Absent
        /\ metadata[Current].key = [input |-> job.loaded, source |-> source[Current]]
    BY DEF SkipFresh, IsFresh, StalenessKey
  <2>3. HasKey(Current)
    BY <2>1, <2>2, PipelineAssumption DEF HasKey, TypeOK, JobOK, Jobs, Inputs
  <2> QED
    BY <2>1, <2>2, <2>3 DEF KeyIsOfOutput, Without
<1> QED
  BY <1>1, KeysFollowOutputs, EvidenceTypes, PTL DEF FreshSkipIsCurrent, Spec
=============================================================================
