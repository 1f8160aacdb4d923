----------------------------- MODULE DocumentSync -----------------------------
(***************************************************************************)
(* The language server's copy of the workspace: what the editor sends      *)
(* (did_open, did_change, did_close), the debouncer, the eager parse that  *)
(* initialized starts, and the four tables they share: buffers, handles,   *)
(* the symbol index and the import-closure cache.                          *)
(*                                                                         *)
(* Notifications are handled in order on one thread.  Every debounced      *)
(* update and the eager parse are tokio tasks on a thread pool, so their   *)
(* steps interleave; one step is one access to a shared table.             *)
(***************************************************************************)
EXTENDS Naturals, FiniteSets

CONSTANTS
    Uri,            \* the documents of this session
    Workspace,      \* those of them enumerate_files finds under the root
    Text,           \* contents of documents
    Drafts,         \* Uri -> the texts this document goes through
    Name, Package,
    Outline,        \* what deal_index_json reports of a text (see below)
    Environments,   \* what may happen, one choice per session: see below
    MaxChanges      \* bound on did_open and did_change together

CONSTANT Absent

ASSUME SyncAssumption ==
    /\ Workspace \subseteq Uri
    /\ Drafts \in [Uri -> SUBSET Text]
    /\ Outline \in [Text -> [declares : SUBSET Name, refers : SUBSET Name,
                             imports : SUBSET Package]]
    /\ Environments \subseteq SUBSET {"early", "slow", "parallel", "close",
                                "skip", "unsaved"}
    /\ MaxChanges \in Nat

VARIABLES
    environment,    \* the kinds of events of this session (see below)
    disk,           \* Uri -> Text
    editor,         \* the document as the editor shows it, Absent when closed
    version,        \* the last version number the editor sent
    tasks,          \* updates scheduled or running, and the open in progress
    eager,          \* the eager parse: its stage, work list and table
    buffers, handles,
    symbols,        \* Name -> the document and text that declare it
    usages,         \* reference sites: name, document, text
    indexed,        \* history: the analysis each document's slice is from
    closure,        \* the cached closure, Absent until the eager parse ends
    published       \* the last diagnostics the editor was sent

(***************************************************************************)
(* "early": the editor does not wait for the eager parse to end.           *)
(* "slow": an update may outlast the next debounce window.                 *)
(* "parallel": updates of different documents overlap.                     *)
(* "close": documents are closed, and what was typed discarded.            *)
(* "skip": the eager parse cannot analyze some of the files.               *)
(* "unsaved": a document is opened with a text that is not on disk.        *)
(***************************************************************************)
Without(kinds) == environment \cap kinds = {}

index == <<symbols, usages, indexed>>
tables == <<buffers, handles, index, closure>>
vars == <<environment, disk, editor, version, tasks, eager, tables, published>>

-----------------------------------------------------------------------------
(* ClosureCache: the workspace texts it was built from (blob, imports) and *)
(* the dependency packages their imports reach.  Every workspace file is a *)
(* seed of the closure, so only dependencies depend on the imports.        *)
Cache ==
    [texts : [Workspace -> Text], packages : SUBSET Package]

(* What stands for an empty place of a table is no entry of it.            *)
ASSUME AbsentAssumption ==
    /\ Absent \notin Text /\ Absent \notin Cache
    /\ Absent \notin [text : Text, table : Cache \cup {Absent}]
    /\ Absent \notin [text : Text, version : 1..MaxChanges]
    /\ Absent \notin [uri : Uri, text : Text]

(* build_closure_cache: a live buffer where there is one, else the disk.   *)
BuildClosure(overrides) ==
    LET texts == [u \in Workspace |->
                     IF overrides[u] # Absent THEN overrides[u] ELSE disk[u]]
    IN  [texts    |-> texts,
         packages |-> UNION {Outline[texts[u]].imports : u \in Workspace}]

NoBuffers == [u \in Uri |-> Absent]

(* An update holds its text, the table it analyzed against (Absent when    *)
(* lenient) and the closure it rebuilt.                                    *)
Task ==
    [uri : Uri, text : Text, version : Nat, opening : BOOLEAN,
     stage : {"sleep", "remove", "index", "buffer", "handle", "gate",
              "install", "publish"},
     table : Cache \cup {Absent}, rebuilt : Cache \cup {Absent},
     aborted : BOOLEAN]

Analyzed(text, table) == [text |-> text, table |-> table]

Init ==
    /\ environment \in Environments
    /\ disk \in {d \in [Uri -> Text] : \A u \in Uri : d[u] \in Drafts[u]}
    /\ editor = [u \in Uri |-> Absent]
    /\ version = 0
    /\ tasks = {}
    /\ eager = [stage |-> "build", todo |-> {}, at |-> Absent, table |-> Absent,
                skipped |-> {}]
    /\ buffers = NoBuffers
    /\ handles = [u \in Uri |-> Absent]
    /\ symbols = [n \in Name |-> Absent]
    /\ usages = {}
    /\ indexed = [u \in Uri |-> Absent]
    /\ closure = Absent
    /\ published = [u \in Uri |-> Absent]

-----------------------------------------------------------------------------
(* The editor.  An open in progress holds up the next notification.        *)
Notify ==
    /\ "early" \in environment \/ eager.stage = "done"
    /\ ~\E t \in tasks : t.opening
    /\ version < MaxChanges
    /\ version' = version + 1

(* Lenient analysis of the client's text; the index is left alone.         *)
DidOpen(u, text) ==
    /\ Notify
    /\ editor[u] = Absent
    /\ text = disk[u] \/ ("unsaved" \in environment /\ text \in Drafts[u])
    /\ editor' = [editor EXCEPT ![u] = [text |-> text, version |-> version']]
    /\ tasks' = tasks \cup
          {[uri |-> u, text |-> text, version |-> version', opening |-> TRUE,
            stage |-> "buffer", table |-> Absent, rebuilt |-> Absent,
            aborted |-> FALSE]}
    /\ UNCHANGED <<environment, disk, eager, tables, published>>

(* Mutant: the handle of the earlier task is dropped, not aborted.         *)
KeepPrior(u) == tasks

(* schedule: a sleeping task of the document goes, a running one can no    *)
(* longer be stopped before its next await.                                *)
AbortPrior(u) ==
    {IF t.uri = u THEN [t EXCEPT !.aborted = TRUE] ELSE t :
        t \in {s \in tasks : ~(s.uri = u /\ s.stage = "sleep")}}

DidChange(u, text) ==
    /\ Notify
    /\ editor[u] # Absent
    /\ text \in Drafts[u] \ {editor[u].text}
    /\ editor' = [editor EXCEPT ![u] = [text |-> text, version |-> version']]
    /\ tasks' = AbortPrior(u) \cup
          {[uri |-> u, text |-> text, version |-> version', opening |-> FALSE,
            stage |-> "sleep", table |-> Absent, rebuilt |-> Absent,
            aborted |-> FALSE]}
    /\ UNCHANGED <<environment, disk, eager, tables, published>>

(* did_close does nothing in the server.                                   *)
DidClose(u) ==
    /\ "close" \in environment
    /\ ~\E t \in tasks : t.opening
    /\ editor[u] # Absent
    /\ editor' = [editor EXCEPT ![u] = Absent]
    /\ UNCHANGED <<environment, disk, version, tasks, eager, tables, published>>

-----------------------------------------------------------------------------
(* Documents::update and Documents::open, one table access at a time.      *)
Goto(t, s) == tasks' = (tasks \ {t}) \cup {[t EXCEPT !.stage = s]}

Running == {t \in tasks : t.stage # "sleep"}

(* The window passed: read the cache and analyze, strictly if there is one.*)
Analyze(t) ==
    /\ t.stage = "sleep"
    /\ "slow" \in environment \/ ~\E s \in Running : s.uri = t.uri
    /\ "parallel" \in environment \/ ~\E s \in Running : s.uri # t.uri
    /\ tasks' = (tasks \ {t}) \cup {[t EXCEPT !.stage = "remove", !.table = closure]}
    /\ UNCHANGED <<environment, disk, editor, version, eager, tables, published>>

(* Mutant: the declarations of the file stay under their old names.        *)
RemoveUsagesOnly(u) ==
    /\ symbols' = symbols
    /\ usages' = {site \in usages : site.uri # u}
    /\ indexed' = [indexed EXCEPT ![u] = Absent]

(* remove_file                                                             *)
RemoveFrom(u) ==
    /\ symbols' = [n \in Name |->
                      IF symbols[n] # Absent /\ symbols[n].uri = u
                      THEN Absent ELSE symbols[n]]
    /\ usages' = {site \in usages : site.uri # u}
    /\ indexed' = [indexed EXCEPT ![u] = Absent]

(* The names an analysis binds: declared in the text itself or in a text   *)
(* of the table it runs against; a reference to another name is no site.   *)
Known(text, table) ==
    Outline[text].declares \cup
        (IF table = Absent THEN {}
         ELSE UNION {Outline[table.texts[v]].declares : v \in Workspace})

SitesIn(u, text, table) ==
    {[name |-> n, uri |-> u, text |-> text] :
        n \in Outline[text].refers \cap Known(text, table)}

(* A later insertion under the same name replaces the entry.               *)
InsertInto(u, text, table) ==
    /\ symbols' = [n \in Name |->
                      IF n \in Outline[text].declares
                      THEN [uri |-> u, text |-> text] ELSE symbols[n]]
    /\ usages' = usages \cup SitesIn(u, text, table)
    /\ indexed' = [indexed EXCEPT ![u] = Analyzed(text, table)]

(* refresh_file = remove_file, then update_from_envelope.                  *)
RemoveFile(t) ==
    /\ t.stage = "remove"
    /\ RemoveFrom(t.uri)
    /\ Goto(t, "index")
    /\ UNCHANGED <<environment, disk, editor, version, eager, buffers, handles, closure, published>>

InsertFile(t) ==
    /\ t.stage = "index"
    /\ InsertInto(t.uri, t.text, t.table)
    /\ Goto(t, "buffer")
    /\ UNCHANGED <<environment, disk, editor, version, eager, buffers, handles, closure, published>>

StoreBuffer(t) ==
    /\ t.stage = "buffer"
    /\ buffers' = [buffers EXCEPT ![t.uri] = t.text]
    /\ Goto(t, "handle")
    /\ UNCHANGED <<environment, disk, editor, version, eager, handles, index, closure, published>>

(* Mutant: the first handle of a document stays.                           *)
StoreFirstHandle(t) ==
    /\ t.stage = "handle"
    /\ handles' = IF handles[t.uri] # Absent THEN handles
                  ELSE [handles EXCEPT ![t.uri] = Analyzed(t.text, t.table)]
    /\ Goto(t, IF t.opening \/ t.table = Absent THEN "publish" ELSE "gate")
    /\ UNCHANGED <<environment, disk, editor, version, eager, buffers, index, closure, published>>

StoreHandle(t) ==
    /\ t.stage = "handle"
    /\ handles' = [handles EXCEPT ![t.uri] = Analyzed(t.text, t.table)]
    /\ Goto(t, IF t.opening \/ t.table = Absent THEN "publish" ELSE "gate")
    /\ UNCHANGED <<environment, disk, editor, version, eager, buffers, index, closure, published>>

(* cache.imports has no entry for a document outside the closure.          *)
ReachabilityChanged(t) ==
    t.uri \in Workspace =>
        Outline[t.table.texts[t.uri]].imports # Outline[t.text].imports

KeepClosure(t) ==
    /\ t.stage = "gate"
    /\ ~ReachabilityChanged(t)
    /\ Goto(t, "publish")
    /\ UNCHANGED <<environment, disk, editor, version, eager, tables, published>>

(* Mutant: the rebuild reads the disk, as at the start.                    *)
RebuildFromDisk(t) ==
    /\ t.stage = "gate"
    /\ ReachabilityChanged(t)
    /\ tasks' = (tasks \ {t}) \cup
          {[t EXCEPT !.stage = "install", !.rebuilt = BuildClosure(NoBuffers)]}
    /\ UNCHANGED <<environment, disk, editor, version, eager, tables, published>>

(* buffer_sources, then build_closure_cache.                               *)
Rebuild(t) ==
    /\ t.stage = "gate"
    /\ ReachabilityChanged(t)
    /\ tasks' = (tasks \ {t}) \cup
          {[t EXCEPT !.stage = "install", !.rebuilt = BuildClosure(buffers)]}
    /\ UNCHANGED <<environment, disk, editor, version, eager, tables, published>>

InstallClosure(t) ==
    /\ t.stage = "install"
    /\ closure' = t.rebuilt
    /\ tasks' = (tasks \ {t}) \cup {[t EXCEPT !.stage = "publish", !.rebuilt = Absent]}
    /\ UNCHANGED <<environment, disk, editor, version, eager, buffers, handles, index, published>>

Publish(t) ==
    /\ t.stage = "publish"
    /\ published' = [published EXCEPT ![t.uri] =
                        [text |-> t.text, table |-> t.table, version |-> t.version]]
    /\ tasks' = tasks \ {t}
    /\ UNCHANGED <<environment, disk, editor, version, eager, tables>>

(* Mutant: any update may end before it publishes, cancelled or not.       *)
EndEarly(t) ==
    /\ t.stage = "publish"
    /\ tasks' = tasks \ {t}
    /\ UNCHANGED <<environment, disk, editor, version, eager, tables, published>>

(* The publish is an await: an aborted task may end there.                 *)
EndAborted(t) ==
    /\ t.stage = "publish"
    /\ t.aborted
    /\ tasks' = tasks \ {t}
    /\ UNCHANGED <<environment, disk, editor, version, eager, tables, published>>

-----------------------------------------------------------------------------
(* Mutant: the closure is installed before its files are analyzed.         *)
EagerBuildInstalls ==
    /\ eager.stage = "build"
    /\ eager' = [eager EXCEPT !.stage = "pick", !.todo = Workspace,
                              !.table = BuildClosure(NoBuffers)]
    /\ closure' = BuildClosure(NoBuffers)
    /\ UNCHANGED <<environment, disk, editor, version, tasks, buffers, handles, index, published>>

(* eager_parse: the closure from disk, then every file of it, then install.*)
EagerBuild ==
    /\ eager.stage = "build"
    /\ eager' = [eager EXCEPT !.stage = "pick", !.todo = Workspace,
                              !.table = BuildClosure(NoBuffers)]
    /\ UNCHANGED <<environment, disk, editor, version, tasks, tables, published>>

(* open_silent_with_external: index (nothing is removed), buffer, handle.  *)
EagerIndex(u) ==
    /\ eager.stage = "pick"
    /\ u \in eager.todo
    /\ InsertInto(u, eager.table.texts[u], eager.table)
    /\ eager' = [eager EXCEPT !.stage = "buffer", !.at = u, !.todo = @ \ {u}]
    /\ UNCHANGED <<environment, disk, editor, version, tasks, buffers, handles, closure, published>>

(* A file that is not UTF-8, has no URL or cannot be analyzed is left out. *)
EagerSkip(u) ==
    /\ "skip" \in environment
    /\ eager.stage = "pick"
    /\ u \in eager.todo
    /\ eager' = [eager EXCEPT !.todo = @ \ {u}, !.skipped = @ \cup {u}]
    /\ UNCHANGED <<environment, disk, editor, version, tasks, tables, published>>

EagerBuffer ==
    /\ eager.stage = "buffer"
    /\ buffers' = [buffers EXCEPT ![eager.at] = eager.table.texts[eager.at]]
    /\ eager' = [eager EXCEPT !.stage = "handle"]
    /\ UNCHANGED <<environment, disk, editor, version, tasks, handles, index, closure, published>>

EagerHandle ==
    /\ eager.stage = "handle"
    /\ handles' = [handles EXCEPT ![eager.at] =
                      Analyzed(eager.table.texts[eager.at], eager.table)]
    /\ eager' = [eager EXCEPT !.stage = "pick", !.at = Absent]
    /\ UNCHANGED <<environment, disk, editor, version, tasks, buffers, index, closure, published>>

EagerInstall ==
    /\ eager.stage = "pick"
    /\ eager.todo = {}
    /\ closure' = eager.table
    /\ eager' = [eager EXCEPT !.stage = "done", !.table = Absent]
    /\ UNCHANGED <<environment, disk, editor, version, tasks, buffers, handles, index, published>>

-----------------------------------------------------------------------------
EditorStep ==
    \/ \E u \in Uri, text \in Text : DidOpen(u, text) \/ DidChange(u, text)
    \/ \E u \in Uri : DidClose(u)

TaskStep(t) ==
    \/ Analyze(t)
    \/ RemoveFile(t)
    \/ InsertFile(t)
    \/ StoreBuffer(t)
    \/ StoreHandle(t)
    \/ KeepClosure(t)
    \/ Rebuild(t)
    \/ InstallClosure(t)
    \/ Publish(t)
    \/ EndAborted(t)

EagerStep ==
    \/ EagerBuild
    \/ \E u \in Workspace : EagerIndex(u) \/ EagerSkip(u)
    \/ EagerBuffer
    \/ EagerHandle
    \/ EagerInstall

Next == EditorStep \/ (\E t \in tasks : TaskStep(t)) \/ EagerStep

Spec == Init /\ [][Next]_vars

(* The runtime keeps polling its tasks, and the sleeps are finite.         *)
Fairness ==
    /\ WF_vars(EagerStep)
    /\ \A u \in Uri : WF_vars(\E t \in {s \in tasks : s.uri = u} : TaskStep(t))

-----------------------------------------------------------------------------
(* Every table holds what its writers write, and a document has at most    *)
(* one update waiting.                                                     *)
TypeOK ==
    /\ environment \in Environments
    /\ disk \in [Uri -> Text]
    /\ editor \in [Uri -> [text : Text, version : 1..MaxChanges] \cup {Absent}]
    /\ version \in 0..MaxChanges
    /\ tasks \subseteq Task
    /\ \A s, t \in tasks :
          s.uri = t.uri /\ s.stage = "sleep" /\ t.stage = "sleep" => s = t
    /\ eager.stage \in {"build", "pick", "buffer", "handle", "done"}
    /\ eager.todo \subseteq Workspace /\ eager.skipped \subseteq Workspace
    /\ eager.table \in Cache \cup {Absent}
    /\ buffers \in [Uri -> Text \cup {Absent}]
    /\ handles \in [Uri -> [text : Text, table : Cache \cup {Absent}] \cup {Absent}]
    /\ symbols \in [Name -> [uri : Uri, text : Text] \cup {Absent}]
    /\ usages \subseteq [name : Name, uri : Uri, text : Text]
    /\ indexed \in [Uri -> [text : Text, table : Cache \cup {Absent}] \cup {Absent}]
    /\ closure \in Cache \cup {Absent}
    /\ published \in [Uri -> [text : Text, table : Cache \cup {Absent},
                              version : 1..MaxChanges] \cup {Absent}]

(* Nothing is scheduled or running.                                        *)
Quiet == tasks = {} /\ eager.stage = "done"

(* The index holds what this analysis of u found, and no more of u.        *)
Indexed(u, analysis) ==
    /\ {n \in Name : symbols[n] # Absent /\ symbols[n].uri = u}
          = Outline[analysis.text].declares
    /\ \A n \in Outline[analysis.text].declares : symbols[n].text = analysis.text
    /\ {site \in usages : site.uri = u} = SitesIn(u, analysis.text, analysis.table)

(* What the editor shows is what the server has, once it is quiet.         *)
EditsSettled ==
    Quiet =>
        \A u \in {v \in Uri : editor[v] # Absent} :
            /\ buffers[u] = editor[u].text
            /\ handles[u].text = editor[u].text
            /\ published[u].text = editor[u].text
            /\ published[u].version = editor[u].version

(* No workspace buffer imports something the cached closure does not know  *)
(* of: the import sets it was built from are the live ones.                *)
ClosureFollows ==
    Quiet =>
        \A u \in {v \in Workspace : buffers[v] # Absent} :
            Outline[closure.texts[u]].imports = Outline[buffers[u]].imports

(* The last edit wins, with updates of several documents interleaving at   *)
(* every table: buffer, handle and diagnostics are those of the text the   *)
(* editor shows.                                                           *)
LastEditWins == Without({"early", "slow", "close"}) => EditsSettled

(* The index stays in step with the buffers: whatever slice of a document  *)
(* it holds, and it lacks no file the eager parse could read, was analyzed *)
(* strictly from the text of its buffer; the slice has all declarations    *)
(* of that text and, of its uses, all but those of names the closure of    *)
(* that moment did not know.                                               *)
IndexIsCurrent ==
    Without({"early", "slow", "close", "unsaved"}) /\ Quiet =>
        \A u \in Uri :
            IF indexed[u] = Absent THEN u \notin Workspace \ eager.skipped
            ELSE /\ indexed[u].text = buffers[u] /\ indexed[u].table # Absent
                 /\ Indexed(u, indexed[u])

(* With one update at a time the closure follows every change of an import *)
(* set, whatever the debouncer cancels on the way.                         *)
ReachabilityIsCurrent ==
    Without({"early", "slow", "parallel", "close", "unsaved"}) => ClosureFollows

(* No edit is analyzed against a half-built workspace: once the closure is *)
(* there, every file of it that can be analyzed is in the tables that      *)
(* requests read.                                                          *)
ClosureIsWhole ==
    closure # Absent =>
        \A u \in Workspace \ eager.skipped : buffers[u] # Absent /\ handles[u] # Absent

(* When the editor pauses, diagnostics of its last text are published, and *)
(* stay, although updates are cancelled on the way.                        *)
DiagnosticsCatchUp ==
    Without({"slow", "close"}) =>
        <>[](\A u \in Uri : editor[u] # Absent =>
                /\ published[u] # Absent
                /\ published[u].version = editor[u].version)
-----------------------------------------------------------------------------
(* What the documentation says and the code does not do; EditsSettled and  *)
(* ClosureFollows also belong here when edits are early, slow or parallel. *)

(* Doc: the "in-memory index stays current as the user types": a use of a  *)
(* name that some buffer declares is a site.                               *)
EveryUseIsIndexed ==
    Quiet => \A u, v \in {w \in Workspace : buffers[w] # Absent} :
        \A n \in Outline[buffers[u]].refers \cap Outline[buffers[v]].declares :
            [name |-> n, uri |-> u, text |-> buffers[u]] \in usages

(* Doc: files not open in the editor come from disk in a rebuild.          *)
ClosedFilesComeFromDisk ==
    [][\A t \in tasks : Rebuild(t) =>
          \A u \in {v \in Workspace : editor[v] = Absent} :
              \E s \in tasks' : s.stage = "install" /\ s.rebuilt.texts[u] = disk[u]]_vars

(* Doc: the in-memory table is the authoritative one and stays accurate    *)
(* through unsaved edits: what some buffer declares can be looked up.      *)
DeclarationsAreFound ==
    Quiet => \A u \in {v \in Workspace : buffers[v] # Absent} :
        \A n \in Outline[buffers[u]].declares : symbols[n] # Absent
=============================================================================
