--------------------------------- MODULE ReqIf ---------------------------------
(***************************************************************************)
(* `deal build --target reqif`: the files of the closure are read, checked *)
(* and lowered one by one into one model; its requirements and the traces  *)
(* between them become a ReqIF document, which must pass a structural gate *)
(* before it replaces the archive on disk.  The user edits files, a read   *)
(* may fail, the schema bundle may be missing or changed, and the build    *)
(* may be killed.                                                          *)
(* The fixed parts of a document (header, types, one specification that    *)
(* lists every object) are always written and left out.                    *)
(***************************************************************************)
EXTENDS Naturals, FiniteSets, SequencesExt

CONSTANTS
    FileOrder,      \* the files of the closure, in the order of plan.analyze
    Version,        \* what a file may contain
    Versions,       \* file -> the contents the user may give it
    Facts,          \* Version -> [elements, edges, needs, errors]: what it lowers to,
                    \*   the ids its references mean, and whether it has errors of its own
    Nothing,        \* a payload field that is absent or empty
    Absent, Torn,   \* an archive that is not there, or not whole
    MaxEvents       \* bound on edits, builds and kills together

(* The plan names a file once.  Sema reports a declaration a file has      *)
(* twice (E2002), and a name is some word.                                 *)
ASSUME FactsAssumption ==
    /\ FileOrder \in Seq(ToSet(FileOrder)) /\ FileOrder # <<>>
    /\ \A i, j \in DOMAIN FileOrder : FileOrder[i] = FileOrder[j] => i = j
    /\ Versions \in [ToSet(FileOrder) -> SUBSET Version]
    /\ \A v \in Version :
          /\ IsFiniteSet(Facts[v].elements)
          /\ \A e \in Facts[v].elements : FlattenSeq(e.id) # <<>>
          /\ ~Facts[v].errors =>
                \A d, e \in Facts[v].elements : d.id = e.id => d = e

VARIABLES
    text,           \* file -> Version
    bundle,         \* the schema bundle: "pinned", "changed" or "missing"
    archive,        \* model.reqifz: Absent, Torn or [doc, from]
    build,          \* the running command: [stage, next]
    cache,          \* source_cache, which lacks a file that could not be read
    used,           \* file -> the version checked and lowered, of those behind the loop
    merged,         \* merged_elements: id -> element
    edges,          \* merged_edges, of which two alike make one relation
    errors,         \* any_sema_errors
    doc,            \* the document emit returned
    events

vars == <<text, bundle, archive, build, cache, used, merged, edges, errors, doc, events>>

File == ToSet(FileOrder)
TraceKinds == {"satisfies", "traces", "derives_from", "allocated_to"}

-----------------------------------------------------------------------------
(* An id is its segments, a segment the words its underscores separate.    *)
(* The identifier replaces each dot by an underscore: only words remain.   *)
ReqIfId(id) == FlattenSeq(id)

(* Mutant: every kind is exported as the first.                            *)
TypeOfFirst(kind) == "satisfies"

RelationTypeInfo(kind) == IF kind \in TraceKinds THEN kind ELSE "trace"

First(options) ==
    LET given == SelectSeq(options, LAMBDA o : o # Nothing)
    IN  IF given = <<>> THEN Nothing ELSE given[1]

SpecObject(element) ==
    [identifier |-> ReqIfId(element.id),
     text       |-> First(<<element.doc, Last(element.id)>>),
     threshold  |-> First(<<element.block, element.direct>>)]

Requirements(elements) ==
    {e \in {elements[id] : id \in DOMAIN elements} : e.kind \in {"requirement_def", "need_def"}}

(* Whether an endpoint is a requirement, by its id or by its last segment. *)
MatchesReq(end, reqs) == \E r \in reqs : end \in {r.id, <<Last(r.id)>>}

(* Mutant: one endpoint is enough.                                         *)
EitherEnd(edge, reqs) == MatchesReq(edge.src, reqs) \/ MatchesReq(edge.dst, reqs)

IsRelation(edge, reqs) == MatchesReq(edge.src, reqs) /\ MatchesReq(edge.dst, reqs)

Relations(allEdges, reqs) ==
    {e \in allEdges : e.kind \in TraceKinds /\ IsRelation(e, reqs)}

SpecRelation(edge) ==
    [identifier |-> <<ReqIfId(edge.src), ReqIfId(edge.dst)>>,
     source |-> ReqIfId(edge.src), target |-> ReqIfId(edge.dst),
     type |-> RelationTypeInfo(edge.kind)]

Emit(elements, allEdges) ==
    LET reqs == Requirements(elements)
    IN  [objects   |-> {SpecObject(r) : r \in reqs},
         relations |-> {SpecRelation(e) : e \in Relations(allEdges, reqs)}]

(* The gate: every object reference is a declared identifier, and every    *)
(* object and relation has one that is not empty.  Mutant: no references.  *)
IdentifiersOnly(d) ==
    {o \in d.objects : o.identifier = <<>>}

Violations(d) ==
    LET declared == {o.identifier : o \in d.objects} \ {<<>>}
        refs == (UNION {{r.source, r.target} : r \in d.relations}) \cup {o.identifier : o \in d.objects}
    IN  (refs \ declared) \cup {o \in d.objects : o.identifier = <<>>}

-----------------------------------------------------------------------------
Idle == build.stage \in {"none", "ok", "user", "internal", "killed"}
At(stage) == build.stage = stage /\ build.next <= Len(FileOrder)
Here == FileOrder[build.next]
Advance(next) ==
    IF build.next < Len(FileOrder) THEN [build EXCEPT !.next = @ + 1]
    ELSE [stage |-> next, next |-> 1]
Event == events < MaxEvents /\ events' = events + 1

(* A map's insert.                                                         *)
Insert(table, key, value) ==
    [k \in DOMAIN table \cup {key} |-> IF k = key THEN value ELSE table[k]]

StartBuild ==
    /\ Idle /\ Event
    /\ build' = [stage |-> "read", next |-> 1]
    /\ cache' = <<>> /\ used' = <<>> /\ merged' = <<>> /\ edges' = {}
    /\ errors' = FALSE /\ doc' = Nothing
    /\ UNCHANGED <<text, bundle, archive>>

(* A read that fails leaves the file out of the cache.                     *)
ReadFile ==
    /\ At("read")
    /\ cache' \in {Insert(cache, Here, text[Here]), cache}
    /\ build' = Advance("merge")
    /\ UNCHANGED <<text, bundle, archive, used, merged, edges, errors, doc, events>>

(* The strict check of a file against the cached others: an error of its   *)
(* own, or a reference to what neither it nor any of them declares.  An id *)
(* that another file declares too is none, a file has a table of its own   *)
(* that only units and dimensions, which are not exported, are seeded in.  *)
Ids(version) == {e.id : e \in Facts[version].elements}

HasErrors(f, version, others) ==
    \/ Facts[version].errors
    \/ \E id \in Facts[version].needs \ Ids(version) :
          \A g \in DOMAIN others \ {f} : id \notin Ids(others[g])

(* The elements of a file, over those that are there by the same id.       *)
InsertAll(table, version) ==
    [id \in DOMAIN table \cup Ids(version) |->
        IF id \in Ids(version) THEN CHOOSE e \in Facts[version].elements : e.id = id
        ELSE table[id]]

(* A file that is not cached is read again.                                *)
Source(f) == IF f \in DOMAIN cache THEN cache[f] ELSE text[f]

(* A file with errors is reported and left out; a clean one is lowered,    *)
(* its elements inserted by id and its edges appended.                     *)
MergeFile ==
    /\ At("merge")
    /\ LET version == Source(Here) IN
       /\ used' = Insert(used, Here, version)
       /\ IF HasErrors(Here, version, cache)
          THEN errors' = TRUE /\ UNCHANGED <<merged, edges>>
          ELSE /\ merged' = InsertAll(merged, version)
               /\ edges' = edges \cup Facts[version].edges
               /\ UNCHANGED errors
    /\ build' = Advance("emit")
    /\ UNCHANGED <<text, bundle, archive, cache, doc, events>>

ReadFails ==
    /\ At("merge") /\ Here \notin DOMAIN cache
    /\ build' = [build EXCEPT !.stage = "internal"]
    /\ UNCHANGED <<text, bundle, archive, cache, used, merged, edges, errors, doc, events>>

Refuse ==
    /\ build.stage = "emit" /\ errors
    /\ build' = [build EXCEPT !.stage = "user"]
    /\ UNCHANGED <<text, bundle, archive, cache, used, merged, edges, errors, doc, events>>

EmitDocument ==
    /\ build.stage = "emit" /\ ~errors
    /\ doc' = Emit(merged, edges)
    /\ build' = [build EXCEPT !.stage = "gate"]
    /\ UNCHANGED <<text, bundle, archive, cache, used, merged, edges, errors, events>>

(* The bundle must be the pinned one and the document without violations;  *)
(* then fs::write truncates the archive, and the next step fills it.       *)
Validate ==
    /\ build.stage = "gate"
    /\ IF bundle # "pinned" \/ Violations(doc) # {}
       THEN build' = [build EXCEPT !.stage = "user"] /\ UNCHANGED archive
       ELSE build' = [build EXCEPT !.stage = "write"] /\ archive' = Torn
    /\ UNCHANGED <<text, bundle, cache, used, merged, edges, errors, doc, events>>

WriteArchive ==
    /\ build.stage = "write"
    /\ archive' = [doc |-> doc, from |-> used]
    /\ build' = [build EXCEPT !.stage = "ok"]
    /\ UNCHANGED <<text, bundle, cache, used, merged, edges, errors, doc, events>>

-----------------------------------------------------------------------------
Edit(f, version) ==
    /\ Event
    /\ version \in Versions[f] \ {text[f]}
    /\ text' = [text EXCEPT ![f] = version]
    /\ UNCHANGED <<bundle, archive, build, cache, used, merged, edges, errors, doc>>

Kill ==
    /\ ~Idle /\ Event
    /\ build' = [build EXCEPT !.stage = "killed"]
    /\ UNCHANGED <<text, bundle, archive, cache, used, merged, edges, errors, doc>>

Start ==
    /\ archive = Absent
    /\ build = [stage |-> "none", next |-> 1]
    /\ cache = <<>> /\ used = <<>> /\ merged = <<>> /\ edges = {}
    /\ errors = FALSE /\ doc = Nothing /\ events = 0

Init ==
    /\ text \in {t \in [File -> Version] : \A f \in File : t[f] \in Versions[f]}
    /\ bundle \in {"pinned", "changed", "missing"}
    /\ Start

Next ==
    \/ StartBuild \/ ReadFile \/ MergeFile \/ ReadFails \/ Refuse \/ EmitDocument \/ Validate \/ WriteArchive
    \/ \E f \in File, version \in Version : Edit(f, version)
    \/ Kill

Spec == Init /\ [][Next]_vars

-----------------------------------------------------------------------------
(* What the texts of a build say, without going through the build.  An id  *)
(* that several files declare is what the last of them says it is.         *)
Surviving(texts) ==
    UNION {{e \in Facts[texts[FileOrder[i]]].elements :
               \A j \in (i + 1)..Len(FileOrder) : e.id \notin Ids(texts[FileOrder[j]])} :
           i \in 1..Len(FileOrder)}
IsWanted(e) == e.kind \in {"requirement_def", "need_def"}
Wanted(texts) == {e \in Surviving(texts) : IsWanted(e)}
Traces(texts) ==
    {e \in UNION {Facts[texts[f]].edges : f \in File} : e.kind \in TraceKinds}

(* Whole archives can be exchanged: whatever was edited, killed or not     *)
(* read since, every reference in one is to an object it has, the objects  *)
(* are exactly the requirements of the versions it was built from, and     *)
(* every trace that joins two of them is there under its own kind.  Of an  *)
(* id in two files only the last counts, ReqIfDocs.cfg.                    *)
(* Requirements whose ids differ only in dots and underscores share an     *)
(* identifier: left out of what is counted.                                *)
ArchivesCanBeExchanged ==
    archive \notin {Absent, Torn} =>
        LET d == archive.doc
            reqs == Wanted(archive.from)
            unambiguous == \A q, r \in reqs : ReqIfId(q.id) = ReqIfId(r.id) => q = r
            identifiers == {o.identifier : o \in d.objects}
        IN  /\ \A r \in d.relations : {r.source, r.target} \subseteq identifiers
            /\ identifiers = {ReqIfId(q.id) : q \in reqs}
            /\ unambiguous =>
                 /\ Cardinality(d.objects) = Cardinality(reqs)
                 /\ \A e \in Traces(archive.from) :
                      {e.src, e.dst} \subseteq {q.id : q \in reqs} =>
                        \E r \in d.relations :
                            /\ r.source = ReqIfId(e.src) /\ r.target = ReqIfId(e.dst)
                            /\ r.type = e.kind

(* A model without errors is always exported: the build only refuses       *)
(* errors of the versions it read (a reference to a file it could not read *)
(* is one), an unpinned bundle, or a trace with an end that is the bare    *)
(* last word of a requirement's longer id, because lowering left it as it  *)
(* was written or a file without a package declares it.                    *)
CleanModelsAreExported ==
    build.stage = "user" =>
        \/ bundle # "pinned"
        \/ \E f \in File : HasErrors(f, used[f], cache)
        \/ \E e \in Traces(used), r \in Wanted(used) :
              r.id # <<Last(r.id)>> /\ <<Last(r.id)>> \in {e.src, e.dst}

(* reqif.rs at the filter of the relations: both endpoints are             *)
(* requirements, so no reference of an emitted document dangles.           *)
EmittedReferencesResolve ==
    doc # Nothing =>
        \A r \in doc.relations :
            {r.source, r.target} \subseteq {o.identifier : o \in doc.objects}

(* The merge of main.rs goes by id: that every requirement declared in a   *)
(* file of the closure has an object is not so, when another file that     *)
(* also checks clean declares its id for something else.                   *)
EveryRequirementIsExported ==
    archive \notin {Absent, Torn} =>
        \A f \in File : \A e \in Facts[archive.from[f]].elements :
            IsWanted(e) => \E o \in archive.doc.objects : o.identifier = ReqIfId(e.id)
=============================================================================
