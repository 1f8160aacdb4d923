----------------------------- MODULE ServerProofs -----------------------------
(***************************************************************************)
(* Proofs about the language server: first its tables (DocumentSync), for  *)
(* every set of documents and texts and every number of changes, with the  *)
(* updates of all documents interleaving at every access to a table; then  *)
(* the requests that read those tables (Readers), for any number of        *)
(* overlapping requests and updates.                                       *)
(***************************************************************************)
EXTENDS Readers, FiniteSetTheorems, WellFoundedInduction, TLAPS

(* An update remembers what it read and rebuilt, and there is a table to   *)
(* read only once a closure is installed.                                  *)
TaskOK(t) ==
    /\ t.version \in 1..version
    /\ t.opening => t.stage \in {"buffer", "handle", "publish"}
    /\ t.stage \in {"gate", "install"} => t.table \in Cache
    /\ t.stage = "install" => t.rebuilt \in Cache
    /\ t.table # Absent => closure # Absent

(* The eager parse's work: its table covers the files it has left, and it  *)
(* is the first to install a closure.                                      *)
EagerOK ==
    /\ eager = [stage |-> eager.stage, todo |-> eager.todo, at |-> eager.at,
                table |-> eager.table, skipped |-> eager.skipped]
    /\ eager.stage \in {"pick", "buffer", "handle"} => eager.table \in Cache
    /\ eager.stage \in {"buffer", "handle"} =>
          eager.at \in Workspace \ (eager.todo \cup eager.skipped)
    /\ eager.todo \cap eager.skipped = {}
    /\ eager.stage = "build" => eager.skipped = {}
    /\ "skip" \notin environment => eager.skipped = {}
    /\ closure # Absent <=> eager.stage = "done"
    /\ eager.stage = "done" => eager.todo = {}

SyncTypes == TypeOK /\ EagerOK /\ \A t \in tasks : TaskOK(t)

(* What the eager parse has done of its files is in the tables.            *)
EagerFills ==
    eager.stage # "build" =>
        \A u \in Workspace \ (eager.todo \cup eager.skipped) :
            /\ buffers[u] # Absent \/ (eager.stage = "buffer" /\ eager.at = u)
            /\ handles[u] # Absent \/ (eager.stage \in {"buffer", "handle"} /\ eager.at = u)

-----------------------------------------------------------------------------
(* The stage after an update's, with the table it then has: read when its  *)
(* window has passed, and what it rebuilt.                                 *)
Advances(t, stage, table, rebuilt) ==
    \/ t.stage = "sleep" /\ stage = "remove" /\ table = closure /\ Analyze(t)
    \/ /\ table = t.table
       /\ \/ t.stage = "remove" /\ stage = "index"
          \/ t.stage = "index" /\ stage = "buffer"
          \/ t.stage = "buffer" /\ stage = "handle"
          \/ t.stage = "handle" /\ stage = "publish" /\ (t.opening \/ table = Absent)
          \/ t.stage = "handle" /\ stage = "gate" /\ table # Absent /\ ~t.opening
          \/ t.stage = "gate" /\ stage = "publish" /\ ~ReachabilityChanged(t)
          \/ t.stage = "gate" /\ stage = "install" /\ rebuilt = BuildClosure(buffers)
          \/ t.stage = "install" /\ stage = "publish"

(* A step of an update t that leaves it an update q.                       *)
Moves(t, q) ==
    /\ tasks' = (tasks \ {t}) \cup {q}
    /\ q.uri = t.uri /\ q.text = t.text /\ q.version = t.version
    /\ q.opening = t.opening /\ q.aborted = t.aborted
    /\ Advances(t, q.stage, q.table, q.rebuilt)

(* What a step of an update does to the tables, by the update's stage.     *)
Writes(t) ==
    /\ UNCHANGED <<environment, disk, editor, version, eager>>
    /\ closure' = IF t.stage = "install" THEN t.rebuilt ELSE closure
    /\ buffers' = IF t.stage = "buffer" THEN [buffers EXCEPT ![t.uri] = t.text] ELSE buffers
    /\ handles' = IF t.stage = "handle"
                  THEN [handles EXCEPT ![t.uri] = Analyzed(t.text, t.table)] ELSE handles
    /\ IF t.stage = "remove" THEN RemoveFrom(t.uri)
       ELSE IF t.stage = "index" THEN InsertInto(t.uri, t.text, t.table)
       ELSE UNCHANGED index
    /\ IF t.stage = "publish"
       THEN \/ t.aborted /\ published' = published
            \/ published' = [published EXCEPT ![t.uri] =
               [text |-> t.text, table |-> t.table, version |-> t.version]]
       ELSE published' = published

LEMMA Tabled ==
  /\ \A text \in Text, table \in Cache \cup {Absent} :
        Analyzed(text, table) \in [text : Text, table : Cache \cup {Absent}]
  /\ \A text \in Text, table \in Cache \cup {Absent} :
        Analyzed(text, table) # Absent /\ Analyzed(text, table).text = text
  BY AbsentAssumption DEF Analyzed

LEMMA BuiltIsCache ==
  ASSUME TypeOK, NEW overrides \in [Uri -> Text \cup {Absent}]
  PROVE  /\ BuildClosure(overrides) \in Cache
         /\ BuildClosure(overrides).texts =
               [u \in Workspace |-> IF overrides[u] # Absent THEN overrides[u] ELSE disk[u]]
  <1> DEFINE T == [u \in Workspace |-> IF overrides[u] # Absent THEN overrides[u] ELSE disk[u]]
             P == UNION {Outline[T[u]].imports : u \in Workspace}
  <1>1. T \in [Workspace -> Text]
    BY SyncAssumption DEF TypeOK
  <1>2. P \subseteq Package
    BY <1>1, SyncAssumption
  <1>3. BuildClosure(overrides) = [texts |-> T, packages |-> P]
    BY DEF BuildClosure
  <1> HIDE DEF T, P
  <1>4. BuildClosure(overrides) \in Cache /\ BuildClosure(overrides).texts = T
    BY <1>1, <1>2, <1>3 DEF Cache
  <1> QED
    BY <1>4 DEF T

(* What a task does at each of its stages.                                 *)
LEMMA TaskMoves ==
  ASSUME SyncTypes, NEW t \in tasks, TaskStep(t)
  PROVE  /\ Writes(t)
         /\ \/ \E q \in Task : Moves(t, q)
            \/ t.stage = "publish" /\ tasks' = tasks \ {t}
  <1>t. t \in Task /\ TaskOK(t)
    BY DEF SyncTypes, TypeOK
  <1> DEFINE Tables == Cache \cup {Absent}
             Stages == {"remove", "index", "buffer", "handle", "gate", "install", "publish"}
             Moved == \E q \in Task : Moves(t, q)
  <1>c. /\ closure \in Tables /\ t.table \in Tables /\ t.rebuilt \in Tables
        /\ Absent \in Tables /\ BuildClosure(buffers) \in Tables
    BY <1>t, BuiltIsCache DEF SyncTypes, TypeOK, Task
  <1>m. ASSUME NEW s \in Stages, NEW table \in Tables, NEW rebuilt \in Tables, NEW q,
               q = [t EXCEPT !.stage = s, !.table = table, !.rebuilt = rebuilt],
               tasks' = (tasks \ {t}) \cup {q},
               Advances(t, s, table, rebuilt)
        PROVE  Moved
    <2>1. /\ q \in Task
          /\ q.uri = t.uri /\ q.text = t.text /\ q.version = t.version
          /\ q.opening = t.opening /\ q.aborted = t.aborted
          /\ q.stage = s /\ q.table = table /\ q.rebuilt = rebuilt
      BY <1>t, <1>m DEF Task
    <2> QED
      BY <1>m, <2>1 DEF Moves
  <1> HIDE DEF Tables
  <1>b. ASSUME NEW s \in Stages, Goto(t, s), Advances(t, s, t.table, t.rebuilt)
        PROVE  Moved
    <2>1. [t EXCEPT !.stage = s]
             = [t EXCEPT !.stage = s, !.table = t.table, !.rebuilt = t.rebuilt]
      BY <1>t DEF Task
    <2>2. tasks' = (tasks \ {t}) \cup {[t EXCEPT !.stage = s]}
      BY <1>b DEF Goto
    <2>3. t.table \in Tables /\ t.rebuilt \in Tables
      BY <1>c
    <2> HIDE DEF Stages
    <2> QED
      BY <1>b, <1>m, <2>1, <2>2, <2>3
  <1> HIDE DEF Moved
  <1>1. CASE Analyze(t)
    <2>1. [t EXCEPT !.stage = "remove", !.table = closure]
             = [t EXCEPT !.stage = "remove", !.table = closure, !.rebuilt = t.rebuilt]
      BY <1>t DEF Task
    <2>2. /\ tasks' = (tasks \ {t}) \cup {[t EXCEPT !.stage = "remove", !.table = closure]}
          /\ Advances(t, "remove", closure, t.rebuilt)
      BY <1>1 DEF Analyze, Advances
    <2> QED
      BY <1>1, <1>c, <1>m, <2>1, <2>2 DEF Analyze, Writes, tables, index, Moved
  <1>2. CASE RemoveFile(t)
    BY <1>2, <1>b DEF RemoveFile, Writes, Advances, Moved
  <1>3. CASE InsertFile(t)
    BY <1>3, <1>b DEF InsertFile, Writes, Advances, Moved
  <1>4. CASE StoreBuffer(t)
    BY <1>4, <1>b DEF StoreBuffer, Writes, Advances, Moved, index
  <1>5. CASE StoreHandle(t)
    BY <1>5, <1>b DEF StoreHandle, Writes, Advances, Moved, index
  <1>6. CASE KeepClosure(t)
    BY <1>6, <1>b DEF KeepClosure, Writes, Advances, Moved, tables, index
  <1>7. CASE Rebuild(t)
    <2> DEFINE built == BuildClosure(buffers)
    <2>1. [t EXCEPT !.stage = "install", !.rebuilt = built]
             = [t EXCEPT !.stage = "install", !.table = t.table, !.rebuilt = built]
      BY <1>t DEF Task
    <2>2. /\ tasks' = (tasks \ {t}) \cup {[t EXCEPT !.stage = "install", !.rebuilt = built]}
          /\ Advances(t, "install", t.table, built)
      BY <1>7 DEF Rebuild, Advances
    <2> QED
      BY <1>7, <1>c, <1>m, <2>1, <2>2 DEF Rebuild, Writes, tables, index, Moved
  <1>8. CASE InstallClosure(t)
    <2>1. [t EXCEPT !.stage = "publish", !.rebuilt = Absent]
             = [t EXCEPT !.stage = "publish", !.table = t.table, !.rebuilt = Absent]
      BY <1>t DEF Task
    <2>2. /\ tasks' = (tasks \ {t}) \cup {[t EXCEPT !.stage = "publish", !.rebuilt = Absent]}
          /\ Advances(t, "publish", t.table, Absent)
      BY <1>8 DEF InstallClosure, Advances
    <2> QED
      BY <1>8, <1>c, <1>m, <2>1, <2>2 DEF InstallClosure, Writes, Moved, index
  <1>9. CASE Publish(t) \/ EndAborted(t)
    BY <1>9 DEF Publish, EndAborted, Writes, tables, index
  <1> QED
    BY <1>1, <1>2, <1>3, <1>4, <1>5, <1>6, <1>7, <1>8, <1>9, Zenon DEF TaskStep, Moved

-----------------------------------------------------------------------------
(* What the editor starts: an update of the text it shows, whose number is *)
(* the new one; the tasks that were there keep what they hold.             *)
Starts(u, text, opening, stage) ==
    [uri |-> u, text |-> text, version |-> version', opening |-> opening,
     stage |-> stage, table |-> Absent, rebuilt |-> Absent, aborted |-> FALSE]

LEMMA StartsTask ==
  ASSUME TypeOK, Notify, NEW u \in Uri, NEW text \in Text, NEW opening \in BOOLEAN,
         NEW stage \in {"sleep", "buffer"}
  PROVE  /\ version' = version + 1 /\ version' \in 1..MaxChanges
         /\ Starts(u, text, opening, stage) \in Task
         /\ Starts(u, text, opening, stage).uri = u
         /\ Starts(u, text, opening, stage).stage = stage
         /\ Starts(u, text, opening, stage).opening = opening
         /\ Starts(u, text, opening, stage).table = Absent
         /\ Starts(u, text, opening, stage).version = version'
  <1>1. version' = version + 1 /\ version' \in 1..MaxChanges
    BY SyncAssumption DEF Notify, TypeOK
  <1> QED
    BY <1>1 DEF Starts, Task

(* AbortPrior keeps every task but those of the document that sleep.       *)
LEMMA AbortPriorKeeps ==
  ASSUME TypeOK, NEW u \in Uri, NEW q \in AbortPrior(u)
  PROVE  \E t \in tasks :
            /\ q \in Task /\ q.uri = t.uri /\ q.text = t.text /\ q.version = t.version
            /\ q.opening = t.opening /\ q.stage = t.stage /\ q.table = t.table
            /\ q.rebuilt = t.rebuilt
            /\ ~(t.uri = u /\ t.stage = "sleep")
            /\ q.uri # u => q = t
            /\ q = IF t.uri = u THEN [t EXCEPT !.aborted = TRUE] ELSE t
  <1>1. PICK t \in tasks : /\ ~(t.uri = u /\ t.stage = "sleep")
                           /\ q = IF t.uri = u THEN [t EXCEPT !.aborted = TRUE] ELSE t
    BY DEF AbortPrior
  <1>2. t \in Task
    BY DEF TypeOK
  <1>3. /\ q \in Task /\ q.uri = t.uri /\ q.text = t.text /\ q.version = t.version
        /\ q.opening = t.opening /\ q.stage = t.stage /\ q.table = t.table
        /\ q.rebuilt = t.rebuilt
    BY <1>1, <1>2 DEF Task
  <1> QED
    BY <1>1, <1>3

LEMMA EditorTypes ==
  ASSUME SyncTypes, EditorStep
  PROVE  SyncTypes'
  <1>e. /\ EagerOK
        /\ \A t \in tasks : t \in Task /\ TaskOK(t)
    BY DEF SyncTypes, TypeOK
  <1>1. ASSUME NEW u \in Uri, NEW text \in Text, DidOpen(u, text)
        PROVE  SyncTypes'
    <2> DEFINE q == Starts(u, text, TRUE, "buffer")
    <2>1. Notify
      BY <1>1 DEF DidOpen
    <2>2. /\ version' = version + 1 /\ version' \in 1..MaxChanges
          /\ q \in Task /\ q.uri = u /\ q.stage = "buffer" /\ q.opening
          /\ q.table = Absent /\ q.version = version'
      BY <2>1, StartsTask DEF SyncTypes
    <2>3. tasks' = tasks \cup {q}
      BY <1>1 DEF DidOpen, Starts
    <2> HIDE DEF q
    <2>4. /\ UNCHANGED <<environment, disk, eager, tables, published>>
          /\ editor' = [editor EXCEPT ![u] = [text |-> text, version |-> version']]
      BY <1>1 DEF DidOpen
    <2>5. editor' \in [Uri -> [text : Text, version : 1..MaxChanges] \cup {Absent}]
      BY <2>1, <2>2, <2>4 DEF SyncTypes, TypeOK
    <2>6. TypeOK'
      BY <2>2, <2>3, <2>4, <2>5 DEF SyncTypes, TypeOK, tables, index
    <2>7. \A t \in tasks' : TaskOK(t)'
      BY <1>e, <2>2, <2>3, <2>4 DEF TaskOK, tables, SyncTypes, TypeOK
    <2> QED
      BY <1>e, <2>4, <2>6, <2>7 DEF SyncTypes, EagerOK, tables
  <1>2. ASSUME NEW u \in Uri, NEW text \in Text, DidChange(u, text)
        PROVE  SyncTypes'
    <2> DEFINE q == Starts(u, text, FALSE, "sleep")
    <2>1. /\ version' = version + 1 /\ version' \in 1..MaxChanges
          /\ q \in Task /\ q.uri = u /\ q.stage = "sleep" /\ ~q.opening
          /\ q.table = Absent /\ q.version = version'
      BY <1>2, StartsTask DEF SyncTypes, DidChange
    <2>2. tasks' = AbortPrior(u) \cup {q}
      BY <1>2 DEF DidChange, Starts
    <2> HIDE DEF q
    <2>3. /\ UNCHANGED <<environment, disk, eager, tables, published>>
          /\ editor' = [editor EXCEPT ![u] = [text |-> text, version |-> version']]
      BY <1>2 DEF DidChange
    <2>4. editor' \in [Uri -> [text : Text, version : 1..MaxChanges] \cup {Absent}]
      BY <2>1, <2>3 DEF SyncTypes, TypeOK
    <2>5. \A s, t \in tasks' :
             s.uri = t.uri /\ s.stage = "sleep" /\ t.stage = "sleep" => s = t
      <3>1. ASSUME NEW s \in AbortPrior(u), s.stage = "sleep"
            PROVE  s.uri # u /\ s \in tasks
        BY <3>1, AbortPriorKeeps DEF SyncTypes
      <3> QED
        BY <2>1, <2>2, <3>1 DEF SyncTypes, TypeOK
    <2>6. tasks' \subseteq Task
      BY <2>1, <2>2, AbortPriorKeeps DEF SyncTypes
    <2>7. TypeOK'
      BY <2>1, <2>3, <2>4, <2>5, <2>6 DEF SyncTypes, TypeOK, tables, index
    <2>8. \A t \in tasks' : TaskOK(t)'
      <3>1. ASSUME NEW s \in AbortPrior(u)
            PROVE  TaskOK(s)'
        <4>1. PICK t \in tasks :
                 /\ s.version = t.version /\ s.opening = t.opening /\ s.stage = t.stage
                 /\ s.table = t.table /\ s.rebuilt = t.rebuilt
          BY AbortPriorKeeps DEF SyncTypes
        <4>2. TaskOK(t) /\ closure' = closure /\ version \in Nat
          BY <1>e, <2>3 DEF tables, SyncTypes, TypeOK
        <4> QED
          BY <2>1, <4>1, <4>2 DEF TaskOK
      <3>2. ASSUME NEW s, s = q
            PROVE  TaskOK(s)'
        BY <2>1, <3>2 DEF TaskOK
      <3> QED
        BY <2>2, <3>1, <3>2
    <2> QED
      BY <1>e, <2>3, <2>7, <2>8 DEF SyncTypes, EagerOK, tables
  <1>3. ASSUME NEW u \in Uri, DidClose(u)
        PROVE  SyncTypes'
    BY <1>3, <1>e DEF DidClose, SyncTypes, TypeOK, TaskOK, EagerOK, tables, index
  <1> QED
    BY <1>1, <1>2, <1>3 DEF EditorStep

LEMMA InsertedTypes ==
  ASSUME TypeOK, NEW u \in Uri, NEW text \in Text, NEW table \in Cache \cup {Absent},
         InsertInto(u, text, table)
  PROVE  /\ symbols' \in [Name -> [uri : Uri, text : Text] \cup {Absent}]
         /\ usages' \subseteq [name : Name, uri : Uri, text : Text]
         /\ indexed' \in [Uri -> [text : Text, table : Cache \cup {Absent}] \cup {Absent}]
  <1>1. symbols' \in [Name -> [uri : Uri, text : Text] \cup {Absent}]
    BY DEF InsertInto, TypeOK
  <1>2. SitesIn(u, text, table) \subseteq [name : Name, uri : Uri, text : Text]
    BY SyncAssumption DEF SitesIn
  <1>3. usages' \subseteq [name : Name, uri : Uri, text : Text]
    BY <1>2 DEF InsertInto, TypeOK
  <1>4. indexed' \in [Uri -> [text : Text, table : Cache \cup {Absent}] \cup {Absent}]
    BY Tabled DEF InsertInto, TypeOK
  <1> QED
    BY <1>1, <1>3, <1>4

LEMMA TaskTypes ==
  ASSUME SyncTypes, NEW t \in tasks, TaskStep(t)
  PROVE  SyncTypes'
  <1>e. /\ EagerOK /\ TypeOK
        /\ t \in Task /\ TaskOK(t) /\ \A s \in tasks : s \in Task /\ TaskOK(s)
        /\ t.uri \in Uri /\ t.text \in Text /\ t.table \in Cache \cup {Absent}
    BY DEF SyncTypes, TypeOK, Task
  <1>w. Writes(t)
    BY TaskMoves
  <1>1. closure' \in Cache \cup {Absent} /\ (closure # Absent <=> closure' # Absent)
    BY <1>e, <1>w, AbsentAssumption DEF Writes, TaskOK, TypeOK
  <1>2. buffers' \in [Uri -> Text \cup {Absent}]
    BY <1>e, <1>w DEF Writes, TypeOK
  <1>3. handles' \in [Uri -> [text : Text, table : Cache \cup {Absent}] \cup {Absent}]
    BY <1>e, <1>w, Tabled DEF Writes, TypeOK
  <1>4. /\ symbols' \in [Name -> [uri : Uri, text : Text] \cup {Absent}]
        /\ usages' \subseteq [name : Name, uri : Uri, text : Text]
        /\ indexed' \in [Uri -> [text : Text, table : Cache \cup {Absent}] \cup {Absent}]
    <2>1. CASE t.stage = "remove"
      <3>1. RemoveFrom(t.uri)
        BY <1>w, <2>1 DEF Writes
      <3> QED
        BY <1>e, <3>1 DEF TypeOK, RemoveFrom
    <2>2. CASE t.stage = "index"
      <3>1. InsertInto(t.uri, t.text, t.table)
        BY <1>w, <2>2 DEF Writes
      <3> QED
        BY <1>e, <3>1, InsertedTypes
    <2>3. CASE t.stage \notin {"remove", "index"}
      BY <1>e, <1>w, <2>3 DEF Writes, TypeOK, index
    <2> QED
      BY <2>1, <2>2, <2>3
  <1>5. published' \in [Uri -> [text : Text, table : Cache \cup {Absent},
                               version : 1..MaxChanges] \cup {Absent}]
    <2>1. t.version \in 1..MaxChanges
      BY <1>e, SyncAssumption DEF TaskOK, TypeOK
    <2> QED
      BY <1>e, <1>w, <2>1 DEF Writes, TypeOK
  <1>6. /\ tasks' \subseteq Task
        /\ \A r, s \in tasks' : r.uri = s.uri /\ r.stage = "sleep" /\ s.stage = "sleep" => r = s
        /\ \A s \in tasks' : TaskOK(s)'
    <2>1. \A s \in tasks : TaskOK(s)'
      BY <1>e, <1>w, <1>1 DEF TaskOK, Writes
    <2>2. ASSUME NEW q \in Task, Moves(t, q)
          PROVE  q.stage # "sleep" /\ TaskOK(q)'
      BY <1>e, <1>w, <1>1, <2>2, BuiltIsCache DEF TaskOK, Writes, Moves, Advances, TypeOK
    <2>3. CASE \E q \in Task : Moves(t, q)
      <3>1. PICK q \in Task : Moves(t, q)
        BY <2>3
      <3>2. tasks' = (tasks \ {t}) \cup {q}
        BY <3>1 DEF Moves
      <3> QED
        BY <1>e, <2>1, <2>2, <3>1, <3>2 DEF TypeOK
    <2>4. CASE tasks' = tasks \ {t}
      BY <1>e, <2>1, <2>4 DEF TypeOK
    <2> QED
      BY <2>3, <2>4, TaskMoves
  <1>7. TypeOK'
    BY <1>e, <1>w, <1>1, <1>2, <1>3, <1>4, <1>5, <1>6 DEF TypeOK, Writes, index
  <1>8. EagerOK'
    BY <1>e, <1>w, <1>1 DEF EagerOK, Writes
  <1> QED
    BY <1>6, <1>7, <1>8 DEF SyncTypes

(* The eager parse, stage by stage: what it leaves alone, and its record.  *)
LEMMA EagerMoves ==
  ASSUME SyncTypes, EagerStep
  PROVE  /\ UNCHANGED <<environment, disk, editor, version, tasks, published>>
         /\ eager' = [stage |-> eager'.stage, todo |-> eager'.todo, at |-> eager'.at,
                      table |-> eager'.table, skipped |-> eager'.skipped]
         /\ closure = Absent
         /\ \/ eager'.skipped = eager.skipped
            \/ /\ "skip" \in environment /\ eager.stage = "pick" /\ eager'.stage = "pick"
               /\ UNCHANGED tables
         /\ \/ /\ eager.stage = "build" /\ eager'.stage = "pick" /\ eager'.todo = Workspace
               /\ eager'.table = BuildClosure(NoBuffers) /\ UNCHANGED tables
            \/ /\ eager.stage = "pick" /\ eager'.stage = "buffer" /\ eager'.table = eager.table
               /\ eager'.at \in eager.todo /\ eager'.todo = eager.todo \ {eager'.at}
               /\ InsertInto(eager'.at, eager.table.texts[eager'.at], eager.table)
               /\ UNCHANGED <<buffers, handles, closure>>
            \/ /\ eager.stage = "pick" /\ eager'.stage = "pick" /\ eager'.table = eager.table
               /\ "skip" \in environment /\ UNCHANGED tables
               /\ \E u \in eager.todo : /\ eager'.todo = eager.todo \ {u}
                                       /\ eager'.skipped = eager.skipped \cup {u}
            \/ /\ eager.stage = "buffer" /\ eager'.stage = "handle" /\ eager'.table = eager.table
               /\ eager'.at = eager.at /\ eager'.todo = eager.todo
               /\ buffers' = [buffers EXCEPT ![eager.at] = eager.table.texts[eager.at]]
               /\ UNCHANGED <<handles, index, closure>>
            \/ /\ eager.stage = "handle" /\ eager'.stage = "pick" /\ eager'.table = eager.table
               /\ eager'.todo = eager.todo
               /\ handles' = [handles EXCEPT ![eager.at] =
                                Analyzed(eager.table.texts[eager.at], eager.table)]
               /\ UNCHANGED <<buffers, index, closure>>
            \/ /\ eager.stage = "pick" /\ eager'.stage = "done" /\ eager.todo = {}
               /\ eager'.todo = {} /\ eager'.table = Absent /\ closure' = eager.table
               /\ UNCHANGED <<buffers, handles, index>>
  <1>e. /\ eager = [stage |-> eager.stage, todo |-> eager.todo, at |-> eager.at,
                    table |-> eager.table, skipped |-> eager.skipped]
        /\ closure # Absent <=> eager.stage = "done"
    BY DEF SyncTypes, EagerOK
  <1>1. CASE EagerBuild
    BY <1>1, <1>e DEF EagerBuild
  <1>2. CASE \E u \in Workspace : EagerIndex(u)
    <2>1. PICK u \in Workspace : EagerIndex(u)
      BY <1>2
    <2>2. eager' = [eager EXCEPT !.stage = "buffer", !.at = u, !.todo = eager.todo \ {u}]
      BY <2>1 DEF EagerIndex
    <2>3. /\ eager'.stage = "buffer" /\ eager'.at = u /\ eager'.todo = eager.todo \ {u}
          /\ eager'.table = eager.table
      BY <1>e, <2>2
    <2>4. eager' = [stage |-> eager'.stage, todo |-> eager'.todo, at |-> eager'.at,
                    table |-> eager'.table, skipped |-> eager'.skipped]
      BY <1>e, <2>2
    <2> QED
      BY <1>e, <2>1, <2>3, <2>4 DEF EagerIndex
  <1>3. CASE EagerBuffer
    BY <1>3, <1>e DEF EagerBuffer
  <1>4. CASE EagerHandle
    <2>1. eager' = [eager EXCEPT !.stage = "pick", !.at = Absent]
      BY <1>4 DEF EagerHandle
    <2>2. eager'.stage = "pick" /\ eager'.todo = eager.todo /\ eager'.table = eager.table
          /\ eager'.skipped = eager.skipped
      BY <1>e, <2>1
    <2>3. eager' = [stage |-> eager'.stage, todo |-> eager'.todo, at |-> eager'.at,
                    table |-> eager'.table, skipped |-> eager'.skipped]
      BY <1>e, <2>1
    <2> QED
      BY <1>4, <1>e, <2>2, <2>3 DEF EagerHandle
  <1>5. CASE EagerInstall
    BY <1>5, <1>e DEF EagerInstall
  <1>6. CASE \E u \in Workspace : EagerSkip(u)
    <2>1. PICK u \in Workspace : EagerSkip(u)
      BY <1>6
    <2>2. eager' = [eager EXCEPT !.todo = eager.todo \ {u},
                                 !.skipped = eager.skipped \cup {u}]
      BY <2>1 DEF EagerSkip
    <2>3. /\ eager'.stage = eager.stage /\ eager'.todo = eager.todo \ {u}
          /\ eager'.table = eager.table /\ eager'.skipped = eager.skipped \cup {u}
      BY <1>e, <2>2
    <2>4. eager' = [stage |-> eager'.stage, todo |-> eager'.todo, at |-> eager'.at,
                    table |-> eager'.table, skipped |-> eager'.skipped]
      BY <1>e, <2>2
    <2> QED
      BY <1>e, <2>1, <2>3, <2>4 DEF EagerSkip
  <1> QED
    BY <1>1, <1>2, <1>3, <1>4, <1>5, <1>6, Zenon DEF EagerStep

LEMMA EagerTypes ==
  ASSUME SyncTypes, EagerStep
  PROVE  SyncTypes'
  <1>e. /\ TypeOK /\ EagerOK
        /\ closure = Absent
        /\ \A t \in tasks : t.table = Absent /\ t.stage \notin {"gate", "install"}
        /\ \A t \in tasks : TaskOK(t)
    BY EagerMoves, AbsentAssumption DEF SyncTypes, TaskOK
  <1>1. /\ NoBuffers \in [Uri -> Text \cup {Absent}] /\ BuildClosure(NoBuffers) \in Cache
    BY <1>e, BuiltIsCache DEF NoBuffers
  <1>2. eager.table \in Cache => eager.table.texts \in [Workspace -> Text]
    BY DEF Cache
  <1>3. TypeOK' /\ EagerOK'
    <2>1. CASE eager.stage = "build"
      BY <1>e, <1>1, <2>1, EagerMoves, AbsentAssumption DEF TypeOK, EagerOK, tables, index
    <2>2. CASE eager.stage = "pick" /\ eager'.stage = "buffer"
      <3>1. /\ eager'.at \in Workspace /\ eager'.at \in Uri
            /\ eager.table.texts[eager'.at] \in Text
        BY <1>e, <1>2, <2>2, EagerMoves, SyncAssumption DEF TypeOK, EagerOK
      <3>2. /\ symbols' \in [Name -> [uri : Uri, text : Text] \cup {Absent}]
            /\ usages' \subseteq [name : Name, uri : Uri, text : Text]
            /\ indexed' \in [Uri -> [text : Text, table : Cache \cup {Absent}] \cup {Absent}]
        <4>1. InsertInto(eager'.at, eager.table.texts[eager'.at], eager.table)
          BY <2>2, EagerMoves
        <4>2. PICK a \in Uri, text \in Text :
                 a = eager'.at /\ text = eager.table.texts[eager'.at]
          BY <3>1
        <4>3. InsertInto(a, text, eager.table) /\ eager.table \in Cache
          BY <1>e, <2>2, <4>1, <4>2 DEF EagerOK
        <4> QED
          BY <1>e, <4>3, InsertedTypes
      <3> QED
        BY <1>e, <2>2, <3>1, <3>2, EagerMoves DEF TypeOK, EagerOK, index
    <2>3. CASE eager.stage = "buffer"
      <3>1. eager.at \in Uri /\ eager.table.texts[eager.at] \in Text
        BY <1>e, <1>2, <2>3, SyncAssumption DEF EagerOK
      <3> QED
        BY <1>e, <2>3, <3>1, EagerMoves DEF TypeOK, EagerOK, index
    <2>4. CASE eager.stage = "handle"
      <3>1. eager.at \in Uri /\ eager.table.texts[eager.at] \in Text /\ eager.table \in Cache
        BY <1>e, <1>2, <2>4, SyncAssumption DEF EagerOK
      <3>2. handles' \in [Uri -> [text : Text, table : Cache \cup {Absent}] \cup {Absent}]
        <4>1. PICK u \in Uri, text \in Text, table \in Cache :
                 u = eager.at /\ text = eager.table.texts[eager.at] /\ table = eager.table
          BY <3>1
        <4>2. handles' = [handles EXCEPT ![u] = Analyzed(text, table)]
          BY <2>4, <4>1, EagerMoves
        <4>3. Analyzed(text, table) \in [text : Text, table : Cache \cup {Absent}]
          BY Tabled
        <4>4. handles \in [Uri -> [text : Text, table : Cache \cup {Absent}] \cup {Absent}]
          BY <1>e DEF TypeOK
        <4> QED
          BY <4>2, <4>3, <4>4
      <3> QED
        BY <1>e, <2>4, <3>1, <3>2, EagerMoves DEF TypeOK, EagerOK, index
    <2>5. CASE eager.stage = "pick" /\ eager'.stage = "done"
      BY <1>e, <2>5, EagerMoves, AbsentAssumption DEF TypeOK, EagerOK, index
    <2>6. CASE eager.stage = "pick" /\ eager'.stage = "pick"
      BY <1>e, <2>6, EagerMoves DEF TypeOK, EagerOK, tables, index
    <2> QED
      BY <2>1, <2>2, <2>3, <2>4, <2>5, <2>6, EagerMoves
  <1>4. \A t \in tasks' : TaskOK(t)'
    BY <1>e, EagerMoves DEF TaskOK
  <1> QED
    BY <1>3, <1>4 DEF SyncTypes

LEMMA SyncTypesHold == Spec => []SyncTypes
<1>1. Init => SyncTypes
  BY SyncAssumption, AbsentAssumption DEF Init, SyncTypes, TypeOK, EagerOK, NoBuffers
<1>2. SyncTypes /\ [Next]_vars => SyncTypes'
  <2>1. ASSUME SyncTypes, UNCHANGED vars
        PROVE  SyncTypes'
    BY <2>1 DEF SyncTypes, TypeOK, EagerOK, TaskOK, vars, tables, index
  <2> QED
    BY <2>1, EditorTypes, TaskTypes, EagerTypes DEF Next
<1> QED
  BY <1>1, <1>2, PTL DEF Spec

(* Every table holds what its writers write, and a document has at most    *)
(* one update waiting.                                                     *)
THEOREM SyncIsTyped == Spec => []TypeOK
<1>1. SyncTypes => TypeOK
  BY DEF SyncTypes
<1> QED
  BY <1>1, SyncTypesHold, PTL

-----------------------------------------------------------------------------
LEMMA FillingKept ==
  ASSUME SyncTypes, EagerFills, [Next]_vars
  PROVE  EagerFills'
  <1>1. CASE EditorStep \/ UNCHANGED vars
    BY <1>1 DEF EditorStep, DidOpen, DidChange, DidClose, EagerFills, tables, vars
  <1>2. ASSUME NEW t \in tasks, TaskStep(t)
        PROVE  EagerFills'
    <2>1. /\ t.text \in Text /\ t.table \in Cache \cup {Absent} /\ Workspace \subseteq Uri
          /\ buffers \in [Uri -> Text \cup {Absent}] /\ DOMAIN handles = Uri
          /\ Analyzed(t.text, t.table) # Absent /\ t.text # Absent
      BY SyncAssumption, AbsentAssumption, Tabled DEF SyncTypes, TypeOK, Task
    <2>2. \A u \in Workspace : /\ buffers[u] # Absent => buffers'[u] # Absent
                               /\ handles[u] # Absent => handles'[u] # Absent
      BY <1>2, <2>1, TaskMoves DEF Writes
    <2>3. eager' = eager
      BY <1>2, TaskMoves DEF Writes
    <2> QED
      BY <2>2, <2>3 DEF EagerFills
  <1>3. CASE EagerStep
    <2>1. /\ eager.table \in Cache => \A u \in Workspace : eager.table.texts[u] # Absent
          /\ Workspace \subseteq Uri /\ DOMAIN buffers = Uri /\ DOMAIN handles = Uri
      BY SyncAssumption, AbsentAssumption DEF SyncTypes, TypeOK, Cache
    <2>2. EagerOK
      BY DEF SyncTypes
    <2>3. eager.stage = "handle" =>
             Analyzed(eager.table.texts[eager.at], eager.table) # Absent
      BY <2>2, Tabled DEF EagerOK, Cache
    <2> QED
      BY <1>3, <2>1, <2>2, <2>3, EagerMoves DEF EagerFills, EagerOK, tables
  <1> QED
    BY <1>1, <1>2, <1>3 DEF Next

LEMMA EagerFillsTables == Spec => [](SyncTypes /\ EagerFills)
<1>1. Init => EagerFills
  BY DEF Init, EagerFills
<1> QED
  BY <1>1, FillingKept, SyncTypesHold, PTL DEF Spec

(* No edit is analyzed against a half-built workspace: once the closure is *)
(* there, every file of it that can be analyzed is in the tables that      *)
(* requests read.                                                          *)
THEOREM ClosuresAreWhole == Spec => []ClosureIsWhole
<1>1. SyncTypes /\ EagerFills => ClosureIsWhole
  <2> SUFFICES ASSUME SyncTypes, EagerFills, closure # Absent
               PROVE  \A u \in Workspace \ eager.skipped :
                         buffers[u] # Absent /\ handles[u] # Absent
    BY DEF ClosureIsWhole
  <2>1. eager.stage = "done" /\ eager.todo = {}
    BY DEF SyncTypes, EagerOK
  <2> QED
    BY <2>1 DEF EagerFills
<1> QED
  BY <1>1, EagerFillsTables, PTL

-----------------------------------------------------------------------------
(* A session whose editor waits for the eager parse, closes nothing, and   *)
(* whose updates end within a debounce window.                             *)
Steady == Without({"early", "slow", "close"})

(* Updates wait for the eager parse, so that they have a closure to run    *)
(* against, and those of a document take turns.                            *)
InTurn ==
    /\ eager.stage # "done" => tasks = {} /\ \A u \in Uri : editor[u] = Absent
    /\ \A t \in tasks : editor[t.uri] # Absent
    /\ \A s, t \in Running : s.uri = t.uri => s = t
    /\ \A t \in Running : t.opening \/ t.table # Absent

(* The update t is of what the editor shows, runs alone once it runs, and  *)
(* has written what it has passed.                                         *)
IsLatest(t) ==
    /\ t.text = editor[t.uri].text /\ t.version = editor[t.uri].version
    /\ ~t.aborted
    /\ t.stage # "sleep" => \A s \in tasks : s.uri = t.uri => s = t
    /\ t.stage \in {"handle", "gate", "install", "publish"} => buffers[t.uri] = t.text
    /\ t.stage \in {"gate", "install", "publish"} => handles[t.uri].text = t.text

(* What the editor shows is what the server has of the document.           *)
HasLatest(u) ==
    /\ buffers[u] = editor[u].text /\ handles[u].text = editor[u].text
    /\ published[u].text = editor[u].text /\ published[u].version = editor[u].version

LatestComes ==
    \A u \in Uri :
        editor[u] # Absent =>
            \/ \E t \in tasks : t.uri = u /\ IsLatest(t)
            \/ HasLatest(u) /\ ~\E t \in tasks : t.uri = u


-----------------------------------------------------------------------------
(* The editor opens a document or changes its text; q is the update of it. *)
Edits(u, q) ==
    /\ q.uri = u /\ ~q.aborted /\ q.version \in 1..MaxChanges
    /\ editor' = [editor EXCEPT ![u] = [text |-> q.text, version |-> q.version]]
    /\ \A t \in tasks : ~t.opening
    /\ \/ /\ editor[u] = Absent
          /\ q.text = disk[u] \/ ("unsaved" \in environment /\ q.text \in Drafts[u])
          /\ q.opening /\ q.stage = "buffer" /\ tasks' = tasks \cup {q}
       \/ /\ editor[u] # Absent /\ q.text \in Drafts[u]
          /\ ~q.opening /\ q.stage = "sleep" /\ tasks' = AbortPrior(u) \cup {q}

LEMMA EditorMoves ==
  ASSUME SyncTypes, Steady, EditorStep
  PROVE  /\ UNCHANGED <<environment, disk, eager, tables, published>>
         /\ eager.stage = "done"
         /\ \E u \in Uri : \E q \in Task : Edits(u, q)
  <1>1. ASSUME NEW u \in Uri, NEW text \in Text, DidOpen(u, text)
        PROVE  \E q \in Task : Edits(u, q)
    <2>1. PICK q : q = Starts(u, text, TRUE, "buffer")
      OBVIOUS
    <2>2. Notify
      BY <1>1 DEF DidOpen
    <2>3. /\ q \in Task /\ q.uri = u /\ q.stage = "buffer" /\ q.opening
          /\ q.version = version' /\ version' \in 1..MaxChanges
      BY <2>1, <2>2, StartsTask DEF SyncTypes
    <2>4. q.text = text /\ ~q.aborted
      BY <2>1 DEF Starts
    <2>5. tasks' = tasks \cup {q}
      BY <1>1, <2>1 DEF DidOpen, Starts
    <2>6. /\ editor[u] = Absent /\ \A t \in tasks : ~t.opening
          /\ text = disk[u] \/ ("unsaved" \in environment /\ text \in Drafts[u])
          /\ editor' = [editor EXCEPT ![u] = [text |-> text, version |-> version']]
      BY <1>1 DEF DidOpen, Notify
    <2>7. Edits(u, q)
      BY <2>3, <2>4, <2>5, <2>6 DEF Edits
    <2> QED
      BY <2>3, <2>7
  <1>2. ASSUME NEW u \in Uri, NEW text \in Text, DidChange(u, text)
        PROVE  \E q \in Task : Edits(u, q)
    <2>1. PICK q : q = Starts(u, text, FALSE, "sleep")
      OBVIOUS
    <2>2. /\ q \in Task /\ q.uri = u /\ q.stage = "sleep" /\ ~q.opening
          /\ q.version = version' /\ version' \in 1..MaxChanges
      BY <1>2, <2>1, StartsTask DEF SyncTypes, DidChange
    <2>3. q.text = text /\ ~q.aborted
      BY <2>1 DEF Starts
    <2>4. tasks' = AbortPrior(u) \cup {q}
      BY <1>2, <2>1 DEF DidChange, Starts
    <2>5. /\ editor[u] # Absent /\ text \in Drafts[u] /\ \A t \in tasks : ~t.opening
          /\ editor' = [editor EXCEPT ![u] = [text |-> text, version |-> version']]
      BY <1>2 DEF DidChange, Notify
    <2>6. Edits(u, q)
      BY <2>2, <2>3, <2>4, <2>5 DEF Edits
    <2> QED
      BY <2>2, <2>6
  <1>3. /\ ~\E u \in Uri : DidClose(u)
        /\ Notify => eager.stage = "done"
    BY DEF Steady, Without, DidClose, Notify
  <1> QED
    BY <1>1, <1>2, <1>3 DEF EditorStep, DidOpen, DidChange

LEMMA EditShows ==
  ASSUME SyncTypes, NEW u \in Uri, NEW q \in Task, Edits(u, q)
  PROVE  /\ editor'[u] = [text |-> q.text, version |-> q.version] /\ editor'[u] # Absent
         /\ \A v \in Uri \ {u} : editor'[v] = editor[v]
  <1>1. /\ editor'[u] = [text |-> q.text, version |-> q.version]
        /\ \A v \in Uri \ {u} : editor'[v] = editor[v]
    BY DEF Edits, SyncTypes, TypeOK
  <1>2. editor'[u] \in [text : Text, version : 1..MaxChanges]
    BY <1>1 DEF Edits, Task
  <1> QED
    BY <1>1, <1>2, AbsentAssumption

(* A step of an update leaves those of the other documents as they are,    *)
(* and after a window has passed the document's only one is the one that   *)
(* runs.                                                                   *)
LEMMA OthersStay ==
  ASSUME SyncTypes, NEW t \in tasks, TaskStep(t)
  PROVE  /\ \A s : s.uri # t.uri => (s \in tasks' <=> s \in tasks)
         /\ \A s \in tasks : s # t => s \in tasks'
  <1>1. CASE tasks' = tasks \ {t}
    BY <1>1
  <1>2. CASE \E q \in Task : Moves(t, q)
    <2>1. PICK q \in Task : Moves(t, q)
      BY <1>2
    <2>2. tasks' = (tasks \ {t}) \cup {q} /\ q.uri = t.uri
      BY <2>1 DEF Moves
    <2> QED
      BY <2>2
  <1> QED
    BY <1>1, <1>2, TaskMoves

LEMMA AnalyzeAlone ==
  ASSUME SyncTypes, Steady, NEW t \in tasks, Analyze(t)
  PROVE  \A s \in tasks : s.uri = t.uri => s = t
  <1>1. \A s \in Running : s.uri # t.uri
    BY DEF Analyze, Steady, Without
  <1> QED
    BY <1>1 DEF Running, SyncTypes, TypeOK, Analyze

LEMMA InTurnKept ==
  ASSUME SyncTypes, Steady, InTurn, [Next]_vars
  PROVE  InTurn'
  <1>1. CASE UNCHANGED vars
    BY <1>1 DEF InTurn, Running, vars
  <1>2. CASE EditorStep
    <2>1. PICK u \in Uri, q \in Task : Edits(u, q)
      BY <1>2, EditorMoves
    <2>2. eager' = eager /\ eager.stage = "done"
      BY <1>2, EditorMoves
    <2>3. editor'[u] # Absent /\ \A v \in Uri \ {u} : editor'[v] = editor[v]
      BY <2>1, EditShows
    <2>5. CASE tasks' = tasks \cup {q} /\ editor[u] = Absent /\ q.opening
      BY <2>1, <2>2, <2>3, <2>5 DEF InTurn, Running, Edits, SyncTypes, TypeOK, Task
    <2>6. CASE tasks' = AbortPrior(u) \cup {q} /\ q.stage = "sleep"
      <3>1. q.uri = u
        BY <2>1 DEF Edits
      <3>2. ASSUME NEW s \in tasks'
            PROVE  editor'[s.uri] # Absent
        <4>1. CASE s = q
          BY <2>3, <3>1, <4>1
        <4>2. CASE s \in AbortPrior(u)
          <5>1. PICK t \in tasks : s.uri = t.uri
            BY <4>2, AbortPriorKeeps DEF SyncTypes
          <5>2. t.uri \in Uri /\ editor[t.uri] # Absent
            BY DEF SyncTypes, TypeOK, Task, InTurn
          <5> QED
            BY <2>3, <5>1, <5>2
        <4> QED
          BY <2>6, <4>1, <4>2
      <3>3. ASSUME NEW s \in tasks', NEW t \in tasks', s.stage # "sleep", t.stage # "sleep",
                   s.uri = t.uri
            PROVE  s = t
        <4>1. s \in AbortPrior(u) /\ t \in AbortPrior(u)
          BY <2>6, <3>3
        <4>2. PICK s0 \in tasks : /\ s.uri = s0.uri /\ s.stage = s0.stage
                 /\ s = IF s0.uri = u THEN [s0 EXCEPT !.aborted = TRUE] ELSE s0
          BY <4>1, AbortPriorKeeps DEF SyncTypes
        <4>3. PICK t0 \in tasks : /\ t.uri = t0.uri /\ t.stage = t0.stage
                 /\ t = IF t0.uri = u THEN [t0 EXCEPT !.aborted = TRUE] ELSE t0
          BY <4>1, AbortPriorKeeps DEF SyncTypes
        <4>4. s0 = t0
          BY <3>3, <4>2, <4>3 DEF InTurn, Running
        <4> QED
          BY <4>2, <4>3, <4>4
      <3>4. ASSUME NEW s \in tasks', s.stage # "sleep"
            PROVE  s.opening \/ s.table # Absent
        <4>1. PICK t \in tasks : t.opening = s.opening /\ t.stage = s.stage /\ t.table = s.table
          BY <2>6, <3>4, AbortPriorKeeps DEF SyncTypes
        <4> QED
          BY <3>4, <4>1 DEF InTurn, Running
      <3> QED
        BY <2>2, <3>2, <3>3, <3>4 DEF InTurn, Running
    <2> QED
      BY <2>1, <2>5, <2>6 DEF Edits
  <1>3. ASSUME NEW t \in tasks, TaskStep(t)
        PROVE  InTurn'
    <2>1. UNCHANGED <<editor, eager>>
      BY <1>3, TaskMoves DEF Writes
    <2>2. CASE tasks' = tasks \ {t}
      BY <2>1, <2>2 DEF InTurn, Running
    <2>3. CASE \E q \in Task : Moves(t, q)
      <3>1. PICK q \in Task : Moves(t, q)
        BY <2>3
      <3>2. tasks' = (tasks \ {t}) \cup {q} /\ q.uri = t.uri
        BY <3>1 DEF Moves
      <3>3. CASE t.stage # "sleep"
        <4>1. q.opening = t.opening /\ q.table = t.table
          BY <3>1, <3>3 DEF Moves, Advances
        <4> QED
          BY <2>1, <3>2, <3>3, <4>1 DEF InTurn, Running
      <3>4. CASE Analyze(t) /\ q.table = closure
        <4>1. closure # Absent
          BY DEF InTurn, SyncTypes, EagerOK
        <4> QED
          BY <2>1, <3>2, <3>4, <4>1, AnalyzeAlone DEF InTurn, Running
      <3> QED
        BY <3>1, <3>3, <3>4 DEF Moves, Advances
    <2> QED
      BY <1>3, <2>2, <2>3, TaskMoves
  <1>4. CASE EagerStep
    <2>1. eager.stage # "done" /\ UNCHANGED <<tasks, editor>>
      BY <1>4, EagerMoves DEF SyncTypes, EagerOK
    <2> QED
      BY <2>1 DEF InTurn, Running
  <1> QED
    BY <1>1, <1>2, <1>3, <1>4 DEF Next

(* A document whose update, editor and tables a step leaves alone.         *)
LEMMA LatestStays ==
  ASSUME SyncTypes, NEW v \in Uri,
         \/ \E t \in tasks : t.uri = v /\ IsLatest(t)
         \/ HasLatest(v) /\ ~\E t \in tasks : t.uri = v,
         \A s : s.uri = v => (s \in tasks' <=> s \in tasks),
         editor'[v] = editor[v], buffers'[v] = buffers[v], handles'[v] = handles[v],
         published'[v] = published[v]
  PROVE  \/ \E t \in tasks' : t.uri = v /\ IsLatest(t)'
         \/ HasLatest(v)' /\ ~\E t \in tasks' : t.uri = v
  <1>1. CASE \E t \in tasks : t.uri = v /\ IsLatest(t)
    <2>1. PICK t \in tasks : t.uri = v /\ IsLatest(t)
      BY <1>1
    <2>2. t \in tasks' /\ IsLatest(t)'
      BY <2>1 DEF IsLatest
    <2> QED
      BY <2>1, <2>2
  <1>2. CASE HasLatest(v) /\ ~\E t \in tasks : t.uri = v
    BY <1>2 DEF HasLatest
  <1> QED
    BY <1>1, <1>2

LEMMA LatestKept ==
  ASSUME SyncTypes, Steady, InTurn, LatestComes, [Next]_vars
  PROVE  LatestComes'
  <1>1. CASE UNCHANGED <<editor, tasks, buffers, handles, published>>
    BY <1>1 DEF LatestComes, IsLatest, HasLatest
  <1>2. CASE EditorStep
    <2>1. PICK u \in Uri, q \in Task : Edits(u, q)
      BY <1>2, EditorMoves
    <2>2. UNCHANGED <<buffers, handles, published>>
      BY <1>2, EditorMoves DEF tables
    <2>3. /\ editor'[u] = [text |-> q.text, version |-> q.version]
          /\ \A v \in Uri \ {u} : editor'[v] = editor[v]
      BY <2>1, EditShows
    <2>4. \A s : s.uri # u => (s \in tasks' <=> s \in tasks)
      <3>1. CASE tasks' = tasks \cup {q}
        BY <2>1, <3>1 DEF Edits
      <3>2. CASE tasks' = AbortPrior(u) \cup {q}
        <4>1. \A s : s.uri # u /\ s \in AbortPrior(u) => s \in tasks
          BY AbortPriorKeeps DEF SyncTypes
        <4>2. \A s \in tasks : s.uri # u => s \in AbortPrior(u)
          BY DEF AbortPrior
        <4> QED
          BY <2>1, <3>2, <4>1, <4>2 DEF Edits
      <3> QED
        BY <2>1, <3>1, <3>2 DEF Edits
    <2>5. q \in tasks' /\ q.uri = u /\ IsLatest(q)'
      <3>1. CASE q.stage = "sleep"
        BY <2>1, <2>3, <3>1 DEF Edits, IsLatest
      <3>2. CASE editor[u] = Absent /\ q.stage = "buffer" /\ tasks' = tasks \cup {q}
        <4>1. \A s \in tasks' : s.uri = u => s = q
          BY <3>2 DEF InTurn
        <4> QED
          BY <2>1, <2>3, <3>2, <4>1 DEF Edits, IsLatest
      <3> QED
        BY <2>1, <3>1, <3>2 DEF Edits
    <2>6. ASSUME NEW v \in Uri, editor'[v] # Absent
          PROVE  \/ \E t \in tasks' : t.uri = v /\ IsLatest(t)'
                 \/ HasLatest(v)' /\ ~\E t \in tasks' : t.uri = v
      <3>1. CASE v = u
        BY <2>5, <3>1
      <3>2. CASE v # u
        BY <2>2, <2>3, <2>4, <2>6, <3>2, LatestStays DEF LatestComes
      <3> QED
        BY <3>1, <3>2
    <2> QED
      BY <2>6 DEF LatestComes
  <1>3. ASSUME NEW t \in tasks, TaskStep(t)
        PROVE  LatestComes'
    <2> DEFINE w == t.uri
    <2>1. /\ editor' = editor /\ t \in Task /\ w \in Uri
          /\ DOMAIN buffers = Uri /\ DOMAIN handles = Uri /\ DOMAIN published = Uri
          /\ t.text \in Text /\ t.table \in Cache \cup {Absent}
      BY <1>3, TaskMoves DEF Writes, SyncTypes, TypeOK, Task
    <2>2. \A v \in Uri \ {w} : /\ buffers'[v] = buffers[v] /\ handles'[v] = handles[v]
                               /\ published'[v] = published[v]
      BY <1>3, <2>1, TaskMoves DEF Writes
    <2>3. ASSUME NEW v \in Uri, editor'[v] # Absent, v # w
          PROVE  \/ \E s \in tasks' : s.uri = v /\ IsLatest(s)'
                 \/ HasLatest(v)' /\ ~\E s \in tasks' : s.uri = v
      <3>1. \A s : s.uri = v => (s \in tasks' <=> s \in tasks)
        BY <1>3, <2>3, OthersStay
      <3> QED
        BY <2>1, <2>2, <2>3, <3>1, LatestStays DEF LatestComes
    <2>4. PICK l \in tasks : l.uri = w /\ IsLatest(l)
      BY <2>1 DEF LatestComes, InTurn
    <2>5. CASE l # t
      <3>1. l \in tasks' /\ l.stage = "sleep"
        BY <1>3, <2>4, <2>5, OthersStay DEF IsLatest
      <3>2. IsLatest(l)'
        BY <2>1, <2>4, <3>1 DEF IsLatest
      <3> QED
        BY <2>3, <2>4, <3>1, <3>2 DEF LatestComes
    <2>6. CASE l = t /\ tasks' = tasks \ {t} /\ t.stage = "publish"
      <3>1. /\ ~t.aborted /\ t.text = editor[w].text /\ t.version = editor[w].version
            /\ \A s \in tasks : s.uri = w => s = t
            /\ buffers[w] = t.text /\ handles[w].text = t.text
        BY <2>4, <2>6 DEF IsLatest
      <3>2. /\ published'[w] = [text |-> t.text, table |-> t.table, version |-> t.version]
            /\ UNCHANGED <<buffers, handles>>
        BY <1>3, <2>1, <2>6, <3>1, TaskMoves DEF Writes
      <3>3. HasLatest(w)' /\ ~\E s \in tasks' : s.uri = w
        BY <2>1, <2>6, <3>1, <3>2 DEF HasLatest
      <3> QED
        BY <2>3, <3>3 DEF LatestComes
    <2>7. CASE l = t /\ \E q \in Task : Moves(t, q)
      <3>1. PICK q \in Task : Moves(t, q)
        BY <2>7
      <3>2. /\ q \in tasks' /\ q.uri = w /\ q.text = t.text /\ q.version = t.version
            /\ q.aborted = t.aborted /\ tasks' = (tasks \ {t}) \cup {q}
        BY <3>1 DEF Moves
      <3>3. \A s \in tasks : s.uri = w => s = t
        BY <2>4, <2>7, <3>1, AnalyzeAlone DEF IsLatest, Moves, Advances
      <3>4. \A s \in tasks' : s.uri = w => s = q
        BY <3>2, <3>3
      <3>5. /\ t.text = editor[w].text /\ t.version = editor[w].version /\ ~t.aborted
            /\ t.stage \in {"handle", "gate", "install", "publish"} => buffers[w] = t.text
            /\ t.stage \in {"gate", "install", "publish"} => handles[w].text = t.text
        BY <2>4, <2>7 DEF IsLatest
      <3>6. /\ q.stage \in {"handle", "gate", "install", "publish"} => buffers'[w] = t.text
            /\ q.stage \in {"gate", "install", "publish"} => handles'[w].text = t.text
        <4>1. /\ buffers' = IF t.stage = "buffer" THEN [buffers EXCEPT ![w] = t.text] ELSE buffers
              /\ handles' = IF t.stage = "handle"
                            THEN [handles EXCEPT ![w] = Analyzed(t.text, t.table)] ELSE handles
          BY <1>3, TaskMoves DEF Writes
        <4>2. /\ t.stage = "buffer" => buffers'[w] = t.text
              /\ t.stage # "buffer" => buffers'[w] = buffers[w]
          BY <2>1, <4>1
        <4>3. /\ t.stage = "handle" => handles'[w].text = t.text
              /\ t.stage # "handle" => handles'[w] = handles[w]
          BY <2>1, <4>1, Tabled
        <4>4. /\ q.stage \in {"handle", "gate", "install", "publish"} =>
                    t.stage \in {"buffer", "handle", "gate", "install"}
              /\ q.stage \in {"gate", "install", "publish"} =>
                    t.stage \in {"handle", "gate", "install"}
          BY <3>1 DEF Moves, Advances
        <4> HIDE DEF w
        <4> QED
          BY <3>5, <4>2, <4>3, <4>4
      <3>7. IsLatest(q)'
        BY <2>1, <3>2, <3>4, <3>5, <3>6 DEF IsLatest
      <3> QED
        BY <2>3, <3>2, <3>7 DEF LatestComes
    <2> QED
      BY <1>3, <2>5, <2>6, <2>7, TaskMoves
  <1>4. CASE EagerStep
    <2>1. \A u \in Uri : editor[u] = Absent
      BY <1>4, EagerMoves DEF InTurn, SyncTypes, EagerOK
    <2> QED
      BY <1>4, <2>1, EagerMoves DEF LatestComes
  <1>5. CASE UNCHANGED vars
    BY <1>1, <1>5 DEF vars, tables
  <1> QED
    BY <1>2, <1>3, <1>4, <1>5 DEF Next

LEMMA SameSession ==
  ASSUME SyncTypes, [Next]_vars
  PROVE  environment' = environment
  <1>1. CASE EditorStep \/ UNCHANGED vars
    BY <1>1 DEF EditorStep, DidOpen, DidChange, DidClose, vars
  <1> QED
    BY <1>1, TaskMoves, EagerMoves DEF Next, Writes

LEMMA LatestHolds == Spec => [](SyncTypes /\ (Steady => InTurn /\ LatestComes))
<1>1. Init => InTurn /\ LatestComes
  BY DEF Init, InTurn, LatestComes, Running
<1>2. ASSUME SyncTypes, Steady => InTurn /\ LatestComes, [Next]_vars
      PROVE  (Steady => InTurn /\ LatestComes)'
  <2>1. Steady' <=> Steady
    BY <1>2, SameSession DEF Steady, Without
  <2> QED
    BY <1>2, <2>1, InTurnKept, LatestKept
<1> QED
  BY <1>1, <1>2, SyncTypesHold, PTL DEF Spec

(* The last edit wins, with updates of several documents interleaving at   *)
(* every table: once nothing is scheduled or running, buffer, handle and   *)
(* diagnostics are those of the text the editor shows.                     *)
THEOREM TheLastEditWins == Spec => []LastEditWins
<1>1. SyncTypes /\ (Steady => InTurn /\ LatestComes) => LastEditWins
  BY DEF LastEditWins, EditsSettled, Quiet, Steady, LatestComes, HasLatest
<1> QED
  BY <1>1, LatestHolds, PTL

-----------------------------------------------------------------------------
(* Such a session that opens documents with the texts they have on disk.   *)
Saved == Steady /\ Without({"unsaved"})

(* What the eager parse has not read, yet or at all.                       *)
Unread(u) ==
    eager.stage = "build" \/ u \notin Workspace \/ u \in eager.todo \cup eager.skipped

(* The tables of a document that is not open.                              *)
AsOnDisk(u) ==
    IF Unread(u) THEN buffers[u] = Absent /\ indexed[u] = Absent
    ELSE buffers[u] = disk[u] \/ (eager.stage = "buffer" /\ eager.at = u)

(* What a rebuild of the closure reads of a document.                      *)
Live(u) == IF buffers[u] # Absent THEN buffers[u] ELSE disk[u]

(* Opening a document brings the text that is there already.               *)
OpensLive(t) ==
    t.opening => /\ t.text = Live(t.uri)
                 /\ indexed[t.uri] # Absent => buffers[t.uri] = t.text

(* Every text is one of the document's, the eager parse goes by the disk,  *)
(* and what is not open yet is as on disk.                                 *)
TextsAreOwn ==
    /\ \A u \in Uri : disk[u] \in Drafts[u]
    /\ \A t \in tasks : t.text \in Drafts[t.uri]
    /\ \A u \in Uri : editor[u] # Absent => editor[u].text \in Drafts[u]
    /\ eager.stage \in {"pick", "buffer", "handle"} =>
          \A u \in Workspace : eager.table.texts[u] = disk[u]
    /\ \A u \in Uri : editor[u] = Absent => AsOnDisk(u)
    /\ \A t \in tasks : OpensLive(t)

(* What a notification does to the updates there are: none that runs goes. *)
LEMMA EditKeeps ==
  ASSUME SyncTypes, NEW u \in Uri, NEW q \in Task, Edits(u, q)
  PROVE  /\ \A s \in tasks' : s = q \/ \E t \in tasks :
               /\ s.uri = t.uri /\ s.text = t.text /\ s.opening = t.opening
               /\ s.stage = t.stage /\ s.table = t.table /\ s.rebuilt = t.rebuilt
               /\ s = IF t.uri = u /\ ~q.opening THEN [t EXCEPT !.aborted = TRUE] ELSE t
         /\ \A t \in Running : \E s \in tasks' :
               s.uri = t.uri /\ s.text = t.text /\ s.opening = t.opening /\ s.stage = t.stage
         /\ q \in tasks'
  <1>1. CASE tasks' = tasks \cup {q} /\ q.opening
    BY <1>1 DEF Running
  <1>2. CASE tasks' = AbortPrior(u) \cup {q} /\ ~q.opening
    <2>1. \A s \in AbortPrior(u) : \E t \in tasks :
               /\ s.uri = t.uri /\ s.text = t.text /\ s.opening = t.opening
               /\ s.stage = t.stage /\ s.table = t.table /\ s.rebuilt = t.rebuilt
               /\ s = IF t.uri = u /\ ~q.opening THEN [t EXCEPT !.aborted = TRUE] ELSE t
      BY <1>2, AbortPriorKeeps DEF SyncTypes
    <2>2. ASSUME NEW t \in Running
          PROVE  \E s \in AbortPrior(u) : s.uri = t.uri /\ s.text = t.text
                    /\ s.opening = t.opening /\ s.stage = t.stage
      <3>1. PICK s : s = IF t.uri = u THEN [t EXCEPT !.aborted = TRUE] ELSE t
        OBVIOUS
      <3>2. t \in Task /\ t \in tasks /\ t.stage # "sleep"
        BY DEF Running, SyncTypes, TypeOK
      <3>3. s \in AbortPrior(u)
        BY <3>1, <3>2 DEF AbortPrior
      <3>4. s.uri = t.uri /\ s.text = t.text /\ s.opening = t.opening /\ s.stage = t.stage
        BY <3>1, <3>2 DEF Task
      <3> QED
        BY <3>3, <3>4
    <2> QED
      BY <1>2, <2>1, <2>2
  <1> QED
    BY <1>1, <1>2 DEF Edits

(* A document whose tables a step leaves alone.                            *)
LEMMA AsOnDiskStays ==
  ASSUME NEW u, AsOnDisk(u), disk' = disk, buffers'[u] = buffers[u], indexed'[u] = indexed[u],
         Unread(u)' <=> Unread(u),
         eager.stage = "buffer" /\ eager.at = u => eager'.stage = "buffer" /\ eager'.at = u
  PROVE  AsOnDisk(u)'
  BY DEF AsOnDisk

LEMMA TextsKeptEdits ==
  ASSUME SyncTypes, Saved, InTurn, TextsAreOwn, EditorStep
  PROVE  TextsAreOwn'
  <1>0. Steady /\ "unsaved" \notin environment
    BY DEF Saved, Without
  <1>1. PICK u \in Uri, q \in Task : Edits(u, q)
    BY <1>0, EditorMoves
  <1>2. UNCHANGED <<disk, eager, buffers, indexed>> /\ eager.stage = "done"
    BY <1>0, EditorMoves DEF tables, index
  <1>3. /\ editor'[u] = [text |-> q.text, version |-> q.version] /\ editor'[u] # Absent
        /\ \A v \in Uri \ {u} : editor'[v] = editor[v]
    BY <1>1, EditShows
  <1>4. q.uri = u /\ q.text \in Drafts[u]
    BY <1>0, <1>1 DEF Edits, TextsAreOwn
  <1>5. \A s \in tasks' : s.text \in Drafts[s.uri]
    BY <1>1, <1>4, EditKeeps DEF TextsAreOwn
  <1>6. \A v \in Uri : editor'[v] # Absent => editor'[v].text \in Drafts[v]
    BY <1>3, <1>4 DEF TextsAreOwn
  <1>7. ASSUME NEW v \in Uri, editor'[v] = Absent
        PROVE  AsOnDisk(v)'
    <2>1. AsOnDisk(v)
      BY <1>3, <1>7 DEF TextsAreOwn
    <2> QED
      BY <1>2, <2>1 DEF AsOnDisk, Unread
  <1>8. ASSUME NEW s \in tasks'
        PROVE  OpensLive(s)'
    <2>1. CASE s = q
      <3>1. q.opening => editor[u] = Absent /\ q.text = disk[u]
        BY <1>0, <1>1 DEF Edits
      <3>2. q.opening => AsOnDisk(u)
        BY <3>1 DEF TextsAreOwn
      <3>3. q.opening => disk[u] = Live(u) /\ (indexed[u] # Absent => buffers[u] = disk[u])
        BY <1>2, <3>2 DEF AsOnDisk, Live
      <3> QED
        BY <1>2, <1>4, <2>1, <3>1, <3>3 DEF OpensLive, Live
    <2>2. CASE s # q
      <3>1. PICK t \in tasks : s.uri = t.uri /\ s.text = t.text /\ s.opening = t.opening
        BY <1>1, <2>2, EditKeeps
      <3>2. OpensLive(t)
        BY DEF TextsAreOwn
      <3> QED
        BY <1>2, <3>1, <3>2 DEF OpensLive, Live
    <2> QED
      BY <2>1, <2>2
  <1> QED
    BY <1>2, <1>5, <1>6, <1>7, <1>8 DEF TextsAreOwn

(* What a step of an update does to the tables of the other documents and, *)
(* unless it is about to store a buffer, to what they hold of its own.     *)
LEMMA WritesOwn ==
  ASSUME SyncTypes, NEW t \in tasks, TaskStep(t)
  PROVE  /\ UNCHANGED <<environment, disk, editor, version, eager>>
         /\ t \in Task /\ t.uri \in Uri
         /\ \A v \in Uri : v # t.uri => buffers'[v] = buffers[v] /\ indexed'[v] = indexed[v]
         /\ t.stage # "buffer" => buffers' = buffers
         /\ t.stage = "buffer" => buffers'[t.uri] = t.text
         /\ t.stage \notin {"remove", "index"} => UNCHANGED index
         /\ t.stage = "remove" => RemoveFrom(t.uri)
         /\ t.stage = "index" => InsertInto(t.uri, t.text, t.table)
         /\ t.stage = "index" => indexed'[t.uri] = Analyzed(t.text, t.table)
         /\ t.stage = "remove" => indexed'[t.uri] = Absent
  <1>1. /\ Writes(t) /\ t \in Task /\ t.uri \in Uri
        /\ DOMAIN buffers = Uri /\ DOMAIN indexed = Uri
    BY TaskMoves DEF SyncTypes, TypeOK, Task
  <1>2. /\ \A v \in Uri : v # t.uri => buffers'[v] = buffers[v]
        /\ t.stage # "buffer" => buffers' = buffers
        /\ t.stage = "buffer" => buffers'[t.uri] = t.text
        /\ UNCHANGED <<environment, disk, editor, version, eager>>
    BY <1>1 DEF Writes
  <1>3. /\ t.stage \notin {"remove", "index"} => UNCHANGED index
        /\ t.stage = "remove" => RemoveFrom(t.uri)
        /\ t.stage = "index" => InsertInto(t.uri, t.text, t.table)
    BY <1>1 DEF Writes
  <1>4. /\ \A v \in Uri : v # t.uri => indexed'[v] = indexed[v]
        /\ t.stage = "index" => indexed'[t.uri] = Analyzed(t.text, t.table)
        /\ t.stage = "remove" => indexed'[t.uri] = Absent
    <2>1. CASE t.stage = "remove"
      BY <1>1, <1>3, <2>1 DEF RemoveFrom
    <2>2. CASE t.stage = "index"
      BY <1>1, <1>3, <2>2 DEF InsertInto
    <2>3. CASE t.stage \notin {"remove", "index"}
      BY <1>3, <2>3 DEF index
    <2> QED
      BY <2>1, <2>2, <2>3
  <1> QED
    BY <1>1, <1>2, <1>3, <1>4

LEMMA TextsKeptTasks ==
  ASSUME SyncTypes, Saved, InTurn, TextsAreOwn, NEW t \in tasks, TaskStep(t)
  PROVE  TextsAreOwn'
  <1> DEFINE w == t.uri
  <1>1. /\ UNCHANGED <<disk, editor, eager>> /\ w \in Uri /\ editor[w] # Absent
        /\ \A v \in Uri : v # w => buffers'[v] = buffers[v] /\ indexed'[v] = indexed[v]
        /\ t.stage # "buffer" => buffers' = buffers
        /\ t.stage = "buffer" => buffers'[w] = t.text
        /\ t.stage \notin {"remove", "index"} => UNCHANGED index
    BY WritesOwn DEF InTurn
  <1>2. ASSUME NEW v \in Uri, editor'[v] = Absent
        PROVE  AsOnDisk(v)'
    <2>1. v # w /\ AsOnDisk(v)
      BY <1>1, <1>2 DEF TextsAreOwn
    <2> QED
      BY <1>1, <2>1, AsOnDiskStays DEF Unread
  <1>3. ASSUME NEW s \in tasks, s # t
        PROVE  s.text \in Drafts[s.uri] /\ OpensLive(s)'
    <2>1. s.text \in Drafts[s.uri] /\ s.uri \in Uri /\ OpensLive(s)
      BY DEF TextsAreOwn, SyncTypes, TypeOK, Task
    <2>2. s.opening /\ t.stage # "sleep" => s.uri # w
      BY <1>3 DEF InTurn, Running, SyncTypes, TaskOK
    <2>3. s.opening => buffers'[s.uri] = buffers[s.uri] /\ indexed'[s.uri] = indexed[s.uri]
      <3> HIDE DEF w
      <3> QED
        BY <1>1, <2>1, <2>2 DEF index
    <2> QED
      BY <1>1, <2>1, <2>3 DEF OpensLive, Live
  <1>4. ASSUME NEW q \in Task, Moves(t, q)
        PROVE  q.text \in Drafts[q.uri] /\ OpensLive(q)'
    <2>1. q.uri = w /\ q.text = t.text /\ q.opening = t.opening
      BY <1>4 DEF Moves
    <2>2. t.text \in Drafts[w] /\ OpensLive(t) /\ t.text # Absent
      BY AbsentAssumption DEF TextsAreOwn, SyncTypes, TypeOK, Task
    <2>3. t.opening => t.stage \notin {"remove", "index"}
      BY DEF SyncTypes, TaskOK
    <2>4. t.opening => /\ indexed'[w] = indexed[w]
                       /\ buffers'[w] = IF t.stage = "buffer" THEN t.text ELSE buffers[w]
      BY <1>1, <2>3 DEF index
    <2> QED
      BY <1>1, <2>1, <2>2, <2>4 DEF OpensLive, Live
  <1>5. \A s \in tasks' : s.text \in Drafts[s.uri] /\ OpensLive(s)'
    <2>1. CASE tasks' = tasks \ {t}
      BY <1>3, <2>1
    <2>2. CASE \E q \in Task : Moves(t, q)
      <3>1. PICK q \in Task : Moves(t, q)
        BY <2>2
      <3>2. tasks' = (tasks \ {t}) \cup {q}
        BY <3>1 DEF Moves
      <3> QED
        BY <1>3, <1>4, <3>1, <3>2
    <2> QED
      BY <2>1, <2>2, TaskMoves
  <1> QED
    BY <1>1, <1>2, <1>5 DEF TextsAreOwn

LEMMA TextsKeptEager ==
  ASSUME SyncTypes, InTurn, TextsAreOwn, EagerStep
  PROVE  TextsAreOwn'
  <1>1. /\ UNCHANGED <<disk, editor, tasks>> /\ tasks = {} /\ \A u \in Uri : editor[u] = Absent
        /\ Workspace \subseteq Uri /\ DOMAIN buffers = Uri /\ DOMAIN indexed = Uri
        /\ eager.todo \subseteq Workspace
    BY EagerMoves, SyncAssumption DEF InTurn, SyncTypes, TypeOK, EagerOK
  <1>2. eager'.stage \in {"pick", "buffer", "handle"} =>
           \A u \in Workspace : eager'.table.texts[u] = disk'[u]
    <2>1. \A u \in Workspace : BuildClosure(NoBuffers).texts[u] = disk[u]
      <3>1. NoBuffers \in [Uri -> Text \cup {Absent}]
        BY DEF NoBuffers
      <3> QED
        BY <1>1, <3>1, BuiltIsCache DEF NoBuffers, SyncTypes
    <2>2. CASE eager.stage = "build"
      BY <1>1, <2>1, <2>2, EagerMoves
    <2>3. CASE eager.stage # "build" /\ eager'.stage # "done"
      BY <1>1, <2>3, EagerMoves DEF TextsAreOwn
    <2>4. CASE eager'.stage = "done"
      BY <2>4
    <2> QED
      BY <2>2, <2>3, <2>4
  <1>3. ASSUME NEW u \in Uri
        PROVE  AsOnDisk(u)'
    <2>0. AsOnDisk(u)
      BY <1>1 DEF TextsAreOwn
    <2>1. CASE eager.stage = "build"
      <3>1. Unread(u) /\ Unread(u)' /\ UNCHANGED tables
        BY <2>1, EagerMoves DEF Unread
      <3> QED
        BY <2>0, <3>1 DEF AsOnDisk, tables, index
    <2>2. CASE eager.stage = "pick" /\ eager'.stage = "buffer"
      <3>1. PICK a \in eager.todo : /\ eager'.at = a /\ eager'.todo = eager.todo \ {a}
                                    /\ InsertInto(a, eager.table.texts[a], eager.table)
                                    /\ buffers' = buffers
                                    /\ eager'.skipped = eager.skipped
        BY <2>2, EagerMoves
      <3>2. CASE u = a
        BY <1>1, <2>2, <3>1, <3>2 DEF AsOnDisk, Unread, SyncTypes, EagerOK
      <3>3. CASE u # a
        <4>1. indexed'[u] = indexed[u]
          BY <1>1, <3>1, <3>3 DEF InsertInto
        <4> QED
          BY <1>1, <2>0, <2>2, <3>1, <3>3, <4>1, AsOnDiskStays DEF Unread
      <3> QED
        BY <3>2, <3>3
    <2>3. CASE eager.stage = "pick" /\ eager'.stage = "pick"
      <3>1. Unread(u)' <=> Unread(u)
        BY <2>3, EagerMoves DEF Unread
      <3>2. UNCHANGED <<buffers, indexed>>
        BY <2>3, EagerMoves DEF tables, index
      <3> QED
        BY <1>1, <2>0, <2>3, <3>1, <3>2, AsOnDiskStays
    <2>4. CASE eager.stage = "buffer"
      <3>1. /\ eager'.stage = "handle" /\ UNCHANGED index
            /\ buffers' = [buffers EXCEPT ![eager.at] = eager.table.texts[eager.at]]
            /\ Unread(u)' <=> Unread(u)
        BY <2>4, EagerMoves DEF Unread
      <3>2. eager.at \in Workspace /\ ~Unread(eager.at)
        BY <2>4 DEF SyncTypes, EagerOK, Unread
      <3>3. eager.table.texts[eager.at] = disk[eager.at]
        BY <2>4, <3>2 DEF TextsAreOwn
      <3>4. buffers'[u] = IF u = eager.at THEN disk[u] ELSE buffers[u]
        BY <1>1, <3>1, <3>3
      <3> QED
        BY <1>1, <2>0, <2>4, <3>1, <3>2, <3>4 DEF AsOnDisk, index
    <2>5. CASE eager.stage = "handle" \/ eager'.stage = "done"
      <3>1. /\ UNCHANGED <<buffers, index>> /\ eager.stage # "buffer"
            /\ Unread(u)' <=> Unread(u)
        BY <2>5, EagerMoves DEF Unread
      <3> QED
        BY <1>1, <2>0, <3>1, AsOnDiskStays DEF index
    <2> QED
      BY <2>1, <2>2, <2>3, <2>4, <2>5, EagerMoves
  <1> QED
    BY <1>1, <1>2, <1>3 DEF TextsAreOwn

LEMMA TextsKept ==
  ASSUME SyncTypes, Saved, InTurn, TextsAreOwn, [Next]_vars
  PROVE  TextsAreOwn'
  <1>1. CASE UNCHANGED vars
    BY <1>1 DEF TextsAreOwn, AsOnDisk, OpensLive, Unread, Live, vars, tables, index
  <1> QED
    BY <1>1, TextsKeptEdits, TextsKeptTasks, TextsKeptEager DEF Next

-----------------------------------------------------------------------------
(* An entry of the index is of a name its text declares.                   *)
EntriesAreDeclared ==
    \A n \in Name : symbols[n] # Absent =>
        /\ symbols[n].text \in Drafts[symbols[n].uri]
        /\ n \in Outline[symbols[n].text].declares

(* A document is between remove_file and update_from_envelope, or was not  *)
(* parsed yet.                                                             *)
Unindexed(u) ==
    \/ eager.stage = "build" \/ u \in eager.todo
    \/ \E t \in tasks : t.uri = u /\ t.stage = "index"

Blank(u) ==
    /\ \A n \in Name : symbols[n] # Absent => symbols[n].uri # u
    /\ \A site \in usages : site.uri # u

(* The text is indexed and about to be stored.                             *)
Storing(u, text) ==
    \/ eager.stage = "buffer" /\ eager.at = u /\ text = eager.table.texts[u]
    \/ \E t \in tasks : t.uri = u /\ t.stage = "buffer" /\ text = t.text

(* A document without a slice is about to get one, or was skipped, or is   *)
(* not of the workspace; a slice is of the text its writer is about to     *)
(* store, when it has passed the index, and the buffer's otherwise.        *)
Follows(u) ==
    IF indexed[u] = Absent
    THEN Blank(u) /\ (Unindexed(u) \/ u \notin Workspace \ eager.skipped)
    ELSE /\ ~Unindexed(u) /\ indexed[u].table # Absent /\ Indexed(u, indexed[u])
         /\ \/ Storing(u, indexed[u].text)
            \/ indexed[u].text = buffers[u] /\ ~\E other : Storing(u, other)

IndexFollows == \A u \in Uri : Follows(u)

(* No two documents declare one name.                                      *)
NamesAreOwn ==
    \A u, v \in Uri : u # v =>
        \A s \in Drafts[u], t \in Drafts[v] :
            Outline[s].declares \cap Outline[t].declares = {}

(* A step that leaves the entries of a document alone.                     *)
Untouched(u) ==
    /\ \A n \in Name : symbols'[n] # Absent /\ symbols'[n].uri = u => symbols'[n] = symbols[n]
    /\ \A n \in Name : symbols[n] # Absent /\ symbols[n].uri = u => symbols'[n] = symbols[n]
    /\ \A site : site.uri = u => (site \in usages' <=> site \in usages)
    /\ indexed'[u] = indexed[u]

LEMMA UntouchedStays ==
  ASSUME NEW u, Untouched(u)
  PROVE  /\ Blank(u) => Blank(u)'
         /\ \A analysis : Indexed(u, analysis) => Indexed(u, analysis)'
  <1>1. Blank(u) => Blank(u)'
    BY DEF Untouched, Blank
  <1>2. {n \in Name : symbols'[n] # Absent /\ symbols'[n].uri = u}
           = {n \in Name : symbols[n] # Absent /\ symbols[n].uri = u}
    BY DEF Untouched
  <1>3. {site \in usages' : site.uri = u} = {site \in usages : site.uri = u}
    BY DEF Untouched
  <1>4. ASSUME NEW analysis, Indexed(u, analysis)
        PROVE  Indexed(u, analysis)'
    <2>1. \A n \in Outline[analysis.text].declares :
             /\ n \in {m \in Name : symbols[m] # Absent /\ symbols[m].uri = u}
             /\ symbols[n].text = analysis.text
      BY <1>4 DEF Indexed
    <2>2. \A n \in Outline[analysis.text].declares : symbols'[n].text = analysis.text
      BY <2>1 DEF Untouched
    <2> QED
      BY <1>2, <1>3, <1>4, <2>2 DEF Indexed
  <1> QED
    BY <1>1, <1>4

LEMMA RemovingTouches ==
  ASSUME SyncTypes, EntriesAreDeclared, NEW w \in Uri, RemoveFrom(w)
  PROVE  EntriesAreDeclared' /\ Blank(w)' /\ \A u \in Uri : u # w => Untouched(u)
  <1>1. EntriesAreDeclared'
    BY DEF RemoveFrom, EntriesAreDeclared
  <1>2. Blank(w)'
    BY DEF RemoveFrom, Blank
  <1>3. ASSUME NEW u \in Uri, u # w
        PROVE  Untouched(u)
    <2>1. indexed'[u] = indexed[u]
      BY <1>3 DEF RemoveFrom, SyncTypes, TypeOK
    <2> QED
      BY <1>3, <2>1 DEF RemoveFrom, Untouched
  <1> QED
    BY <1>1, <1>2, <1>3

LEMMA InsertingTouches ==
  ASSUME SyncTypes, NamesAreOwn, EntriesAreDeclared,
         NEW w \in Uri, NEW text \in Drafts[w], NEW table,
         InsertInto(w, text, table)
  PROVE  /\ EntriesAreDeclared'
         /\ Blank(w) => Indexed(w, Analyzed(text, table))'
         /\ \A u \in Uri : u # w => Untouched(u)
  <1>1. /\ text \in Text /\ Outline[text].declares \subseteq Name
        /\ [uri |-> w, text |-> text] # Absent
    BY SyncAssumption, AbsentAssumption
  <1>2. /\ \A n \in Name : symbols'[n] = IF n \in Outline[text].declares
                                         THEN [uri |-> w, text |-> text] ELSE symbols[n]
        /\ usages' = usages \cup SitesIn(w, text, table)
        /\ \A site \in SitesIn(w, text, table) : site.uri = w
        /\ \A u \in Uri : u # w => indexed'[u] = indexed[u]
    BY DEF InsertInto, SitesIn, SyncTypes, TypeOK
  <1>3. EntriesAreDeclared'
    BY <1>1, <1>2 DEF EntriesAreDeclared
  <1>4. ASSUME Blank(w)
        PROVE  Indexed(w, Analyzed(text, table))'
    <2>1. {n \in Name : symbols'[n] # Absent /\ symbols'[n].uri = w} = Outline[text].declares
      BY <1>1, <1>2, <1>4 DEF Blank
    <2>2. \A n \in Outline[text].declares : symbols'[n].text = text
      BY <1>1, <1>2
    <2>3. {site \in usages' : site.uri = w} = SitesIn(w, text, table)
      BY <1>2, <1>4 DEF Blank
    <2>4. Analyzed(text, table).text = text /\ Analyzed(text, table).table = table
      BY DEF Analyzed
    <2> HIDE DEF Analyzed
    <2> QED
      BY <2>1, <2>2, <2>3, <2>4 DEF Indexed
  <1>5. ASSUME NEW u \in Uri, u # w
        PROVE  Untouched(u)
    <2>1. \A n \in Outline[text].declares : ~(symbols[n] # Absent /\ symbols[n].uri = u)
      BY <1>1, <1>5 DEF EntriesAreDeclared, NamesAreOwn
    <2> QED
      BY <1>1, <1>2, <1>5, <2>1 DEF Untouched
  <1> QED
    BY <1>3, <1>4, <1>5

LEMMA EntriesKept ==
  ASSUME SyncTypes, InTurn, TextsAreOwn, NamesAreOwn, EntriesAreDeclared, [Next]_vars
  PROVE  EntriesAreDeclared'
  <1>1. CASE UNCHANGED symbols
    BY <1>1 DEF EntriesAreDeclared
  <1>2. ASSUME NEW t \in tasks, TaskStep(t), symbols' # symbols
        PROVE  EntriesAreDeclared'
    <2>1. t.uri \in Uri /\ t.text \in Drafts[t.uri]
      BY DEF SyncTypes, TypeOK, Task, TextsAreOwn
    <2>2. RemoveFrom(t.uri) \/ InsertInto(t.uri, t.text, t.table)
      BY <1>2, TaskMoves DEF Writes, index
    <2> QED
      BY <2>1, <2>2, RemovingTouches, InsertingTouches
  <1>3. ASSUME EagerStep, symbols' # symbols
        PROVE  EntriesAreDeclared'
    <2>1. PICK a \in eager.todo : InsertInto(a, eager.table.texts[a], eager.table) /\ eager.stage = "pick"
      BY <1>3, EagerMoves DEF tables, index
    <2>2. a \in Uri /\ eager.table.texts[a] \in Drafts[a]
      BY <2>1, SyncAssumption DEF SyncTypes, TypeOK, TextsAreOwn
    <2> QED
      BY <2>1, <2>2, InsertingTouches
  <1>4. EditorStep => UNCHANGED symbols
    BY DEF EditorStep, DidOpen, DidChange, DidClose, tables, index
  <1> QED
    BY <1>1, <1>2, <1>3, <1>4 DEF Next, vars, tables, index

LEMMA FollowsEdits ==
  ASSUME SyncTypes, Saved, InTurn, TextsAreOwn, IndexFollows, EditorStep
  PROVE  IndexFollows'
  <1>0. Steady /\ "unsaved" \notin environment
    BY DEF Saved, Without
  <1>1. PICK u \in Uri, q \in Task : Edits(u, q)
    BY <1>0, EditorMoves
  <1>2. UNCHANGED <<eager, tables>> /\ eager.stage = "done" /\ eager.todo = {}
    BY <1>0, EditorMoves DEF SyncTypes, EagerOK
  <1>3. ASSUME NEW v \in Uri
        PROVE  Follows(v)'
    <2>1. /\ Unindexed(v)' <=> Unindexed(v)
          /\ Blank(v)' <=> Blank(v)
          /\ \A analysis : Indexed(v, analysis)' <=> Indexed(v, analysis)
      <3>1. q.stage # "index"
        BY <1>1 DEF Edits
      <3>2. (\E t \in tasks' : t.uri = v /\ t.stage = "index")
               <=> \E t \in tasks : t.uri = v /\ t.stage = "index"
        BY <1>1, <3>1, EditKeeps DEF Running
      <3> QED
        BY <1>2, <3>2 DEF Unindexed, Blank, Indexed, tables, index
    <2>2. \A text : Storing(v, text)' <=>
              Storing(v, text) \/ (v = u /\ q.stage = "buffer" /\ text = q.text)
      <3>1. q \in tasks' /\ q.uri = u
        BY <1>1, EditKeeps DEF Edits
      <3>2. ASSUME NEW text
            PROVE  (\E t \in tasks' : t.uri = v /\ t.stage = "buffer" /\ text = t.text) <=>
                      \/ \E t \in tasks : t.uri = v /\ t.stage = "buffer" /\ text = t.text
                      \/ v = u /\ q.stage = "buffer" /\ text = q.text
        BY <1>1, <3>1, EditKeeps DEF Running
      <3> QED
        BY <1>2, <3>2 DEF Storing
    <2>3. Follows(v) /\ UNCHANGED <<buffers, indexed>>
      BY <1>2 DEF IndexFollows, tables, index
    <2>4. CASE indexed[v] = Absent
      BY <1>2, <2>1, <2>3, <2>4 DEF Follows
    <2>5. CASE indexed[v] # Absent
      <3>1. v = u /\ q.stage = "buffer" => q.text = indexed[v].text
        <4>1. SUFFICES ASSUME v = u, q.stage = "buffer"
                       PROVE  q.text = indexed[v].text
          OBVIOUS
        <4>2. editor[v] = Absent /\ q.text = disk[v]
          BY <1>0, <1>1, <4>1 DEF Edits
        <4>3. buffers[v] = disk[v]
          BY <1>2, <2>5, <4>2 DEF TextsAreOwn, AsOnDisk
        <4>4. ~\E text : Storing(v, text)
          BY <1>2, <4>2 DEF Storing, InTurn
        <4> QED
          BY <2>3, <2>5, <4>2, <4>3, <4>4 DEF Follows
      <3>2. PICK text, analysis : text = indexed[v].text /\ analysis = indexed[v]
        OBVIOUS
      <3>3. Storing(v, text) \/ (text = buffers[v] /\ ~\E other : Storing(v, other))
        BY <2>3, <2>5, <3>2 DEF Follows
      <3>4. Storing(v, text)' \/ (text = buffers'[v] /\ ~\E other : Storing(v, other)')
        BY <2>2, <2>3, <3>1, <3>2, <3>3
      <3>5. Indexed(v, analysis)' /\ analysis.table # Absent /\ ~Unindexed(v)'
        BY <2>1, <2>3, <2>5, <3>2 DEF Follows
      <3> QED
        BY <2>3, <2>5, <3>2, <3>4, <3>5 DEF Follows
    <2> QED
      BY <2>4, <2>5
  <1> QED
    BY <1>3 DEF IndexFollows

(* A document no step touches.                                             *)
LEMMA FollowsStays ==
  ASSUME NEW v, Follows(v), Untouched(v), buffers'[v] = buffers[v],
         Unindexed(v)' <=> Unindexed(v),
         \A text : Storing(v, text)' <=> Storing(v, text),
         eager.skipped \subseteq eager'.skipped
  PROVE  Follows(v)'
  <1>1. /\ Blank(v) => Blank(v)'
        /\ \A analysis : Indexed(v, analysis) => Indexed(v, analysis)'
        /\ indexed'[v] = indexed[v]
    BY UntouchedStays DEF Untouched
  <1>2. CASE indexed[v] = Absent
    BY <1>1, <1>2 DEF Follows
  <1>3. CASE indexed[v] # Absent
    <2>1. PICK analysis : analysis = indexed[v]
      OBVIOUS
    <2>2. Indexed(v, analysis)'
      BY <1>1, <1>3, <2>1 DEF Follows
    <2> QED
      BY <1>1, <1>3, <2>1, <2>2 DEF Follows
  <1> QED
    BY <1>2, <1>3

LEMMA FollowsTasks ==
  ASSUME SyncTypes, Saved, InTurn, TextsAreOwn, NamesAreOwn, EntriesAreDeclared,
         IndexFollows, NEW t \in tasks, TaskStep(t)
  PROVE  IndexFollows'
  <1> DEFINE w == t.uri
  <1>1. /\ w \in Uri /\ t.text \in Drafts[w] /\ DOMAIN buffers = Uri /\ Workspace \subseteq Uri
        /\ eager' = eager /\ eager.stage = "done" /\ eager.todo = {}
    BY TaskMoves, SyncAssumption
    DEF Writes, SyncTypes, TypeOK, Task, TextsAreOwn, InTurn, EagerOK
  <1>2. /\ t.stage = "remove" => RemoveFrom(w)
        /\ t.stage = "index" => InsertInto(w, t.text, t.table)
        /\ t.stage \notin {"remove", "index"} => UNCHANGED index
        /\ t.stage = "index" => indexed'[w] = Analyzed(t.text, t.table)
        /\ t.stage = "remove" => indexed'[w] = Absent
    BY WritesOwn
  <1>3. /\ t.stage = "buffer" => buffers'[w] = t.text
        /\ t.stage # "buffer" => buffers' = buffers
        /\ \A v \in Uri : v # w => buffers'[v] = buffers[v]
    BY WritesOwn
  <1>4. t.stage # "sleep" => \A s \in tasks : s.uri = w /\ s.stage # "sleep" => s = t
    BY DEF InTurn, Running
  <1>s. \A v, text : Storing(v, text) <=>
             \E s \in tasks : s.uri = v /\ s.stage = "buffer" /\ text = s.text
    BY <1>1 DEF Storing
  <1>p. \A v, text : Storing(v, text)' <=>
             \E s \in tasks' : s.uri = v /\ s.stage = "buffer" /\ text = s.text
    BY <1>1 DEF Storing
  <1>u. /\ \A v : Unindexed(v) <=> \E s \in tasks : s.uri = v /\ s.stage = "index"
        /\ \A v : Unindexed(v)' <=> \E s \in tasks' : s.uri = v /\ s.stage = "index"
    BY <1>1 DEF Unindexed
  <1>5. ASSUME NEW v \in Uri, v # w
        PROVE  Follows(v)'
    <2>1. Untouched(v)
      <3>1. UNCHANGED index => Untouched(v)
        BY DEF Untouched, index
      <3> QED
        BY <1>1, <1>2, <1>5, <3>1, RemovingTouches, InsertingTouches
    <2>2. \A s : s.uri = v => (s \in tasks' <=> s \in tasks)
      BY <1>5, OthersStay
    <2>3. Unindexed(v)' <=> Unindexed(v)
      BY <1>u, <2>2
    <2>4. \A text : Storing(v, text)' <=> Storing(v, text)
      BY <1>s, <1>p, <2>2
    <2> HIDE DEF w
    <2> QED
      BY <1>1, <1>3, <1>5, <2>1, <2>3, <2>4, FollowsStays DEF IndexFollows
  <1>6. Follows(w)'
    <2>1. Follows(w) /\ (UNCHANGED index => Untouched(w))
      BY <1>1 DEF IndexFollows, Untouched, index
    <2>0. Steady
      BY DEF Saved
    <2>2. ASSUME t.stage # "sleep"
          PROVE  \A s \in tasks' : s.uri = w /\ s.stage # "sleep" =>
                    s.text = t.text /\ Moves(t, s)
      <3>1. CASE tasks' = tasks \ {t}
        BY <1>4, <2>2, <3>1
      <3>2. CASE \E q \in Task : Moves(t, q)
        <4>1. PICK q \in Task : Moves(t, q)
          BY <3>2
        <4>2. tasks' = (tasks \ {t}) \cup {q} /\ q.text = t.text
          BY <4>1 DEF Moves
        <4> QED
          BY <1>4, <2>2, <4>1, <4>2
      <3> QED
        BY <3>1, <3>2, TaskMoves
    <2>3. ASSUME t.stage # "publish"
          PROVE  \E q \in tasks' : q.uri = w /\ q.text = t.text /\ Moves(t, q)
      BY <2>3, TaskMoves DEF Moves
    <2>4. CASE t.stage = "sleep"
      <3>1. Analyze(t)
        BY <2>3, <2>4 DEF Moves, Advances
      <3>2. \A s \in tasks : s.uri = w => s = t
        BY <2>0, <3>1, AnalyzeAlone
      <3>3. PICK q \in Task : tasks' = (tasks \ {t}) \cup {q} /\ q.stage = "remove"
        BY <2>4, TaskMoves DEF Moves, Advances
      <3>4. ~Unindexed(w)' /\ ~Unindexed(w)
        BY <1>u, <2>4, <3>2, <3>3
      <3>5. \A text : ~Storing(w, text)' /\ ~Storing(w, text)
        BY <1>s, <1>p, <2>4, <3>2, <3>3
      <3>6. Untouched(w)
        BY <1>2, <2>1, <2>4
      <3> HIDE DEF w
      <3> QED
        BY <1>1, <1>3, <2>1, <2>4, <3>4, <3>5, <3>6, FollowsStays
    <2>5. CASE t.stage = "remove"
      <3>1. Unindexed(w)'
        BY <1>u, <2>3, <2>5 DEF Moves, Advances
      <3>2. Blank(w)'
        BY <1>1, <1>2, <2>5, RemovingTouches
      <3> HIDE DEF w
      <3> QED
        BY <1>2, <2>5, <3>1, <3>2 DEF Follows
    <2>6. CASE t.stage = "index"
      <3>1. Unindexed(w)
        BY <1>u, <2>6
      <3>2. Blank(w)
        <4> HIDE DEF w
        <4> QED
          BY <2>1, <3>1 DEF Follows
      <3>3. PICK analysis : analysis = Analyzed(t.text, t.table)
        OBVIOUS
      <3>4. Indexed(w, analysis)'
        BY <1>1, <1>2, <2>6, <3>2, <3>3, InsertingTouches
      <3>5. indexed'[w] = analysis /\ analysis.text = t.text /\ analysis.table # Absent
            /\ analysis # Absent
        <4>1. t.table \in Cache \cup {Absent} /\ t.text \in Text /\ ~t.opening /\ t \in Running
          BY <2>6 DEF SyncTypes, TypeOK, Task, TaskOK, Running
        <4>2. t.table # Absent
          BY <4>1 DEF InTurn
        <4>3. analysis.text = t.text /\ analysis.table = t.table /\ analysis # Absent
          BY <3>3, <4>1, Tabled DEF Analyzed
        <4> QED
          BY <1>2, <2>6, <3>3, <4>2, <4>3
      <3>6. Storing(w, t.text)'
        BY <1>p, <2>3, <2>6 DEF Moves, Advances
      <3>7. ~Unindexed(w)'
        BY <1>u, <2>2, <2>6 DEF Moves, Advances
      <3> HIDE DEF w
      <3> QED
        BY <3>4, <3>5, <3>6, <3>7 DEF Follows
    <2>7. CASE t.stage = "buffer"
      <3>1. ~Unindexed(w) /\ Storing(w, t.text) /\ \A text : Storing(w, text) => text = t.text
        BY <1>s, <1>u, <1>4, <2>7
      <3>2. /\ Untouched(w) /\ indexed'[w] = indexed[w] /\ eager' = eager
            /\ Blank(w) => Blank(w)'
            /\ \A analysis : Indexed(w, analysis) => Indexed(w, analysis)'
        BY <1>1, <1>2, <2>1, <2>7, UntouchedStays DEF Untouched
      <3>3. ~Unindexed(w)' /\ \A text : ~Storing(w, text)'
        BY <1>p, <1>u, <2>2, <2>7 DEF Moves, Advances
      <3> HIDE DEF w
      <3>4. CASE indexed[w] = Absent
        BY <2>1, <3>1, <3>2, <3>3, <3>4 DEF Follows
      <3>5. CASE indexed[w] # Absent
        <4>1. PICK analysis : analysis = indexed[w]
          OBVIOUS
        <4>2. Indexed(w, analysis) /\ analysis.text = t.text /\ analysis.table # Absent
          BY <2>1, <3>1, <3>5, <4>1 DEF Follows
        <4>3. Indexed(w, analysis)'
          BY <3>2, <4>2
        <4> QED
          BY <1>3, <2>7, <3>2, <3>3, <3>5, <4>1, <4>2, <4>3 DEF Follows
      <3> QED
        BY <3>4, <3>5
    <2>8. CASE t.stage \in {"handle", "gate", "install", "publish"}
      <3>1. ~Unindexed(w) /\ \A text : ~Storing(w, text)
        BY <1>s, <1>u, <1>4, <2>8
      <3>2. ~Unindexed(w)' /\ \A text : ~Storing(w, text)'
        BY <1>p, <1>u, <2>2, <2>8 DEF Moves, Advances
      <3>3. Untouched(w)
        BY <1>2, <2>1, <2>8
      <3> HIDE DEF w
      <3> QED
        BY <1>1, <1>3, <2>1, <2>8, <3>1, <3>2, <3>3, FollowsStays
    <2>9. t.stage \in {"sleep", "remove", "index", "buffer", "handle", "gate", "install", "publish"}
      BY DEF SyncTypes, TypeOK, Task
    <2> QED
      BY <2>4, <2>5, <2>6, <2>7, <2>8, <2>9
  <1> QED
    BY <1>5, <1>6 DEF IndexFollows

LEMMA FollowsEager ==
  ASSUME SyncTypes, Saved, InTurn, TextsAreOwn, NamesAreOwn, EntriesAreDeclared,
         IndexFollows, EagerStep
  PROVE  IndexFollows'
  <1>1. /\ tasks = {} /\ tasks' = {} /\ \A v \in Uri : editor[v] = Absent
        /\ Workspace \subseteq Uri /\ DOMAIN buffers = Uri
    BY EagerMoves, SyncAssumption DEF InTurn, SyncTypes, TypeOK, EagerOK
  <1>s. /\ \A v, text : Storing(v, text) <=>
              eager.stage = "buffer" /\ eager.at = v /\ text = eager.table.texts[v]
        /\ \A v, text : Storing(v, text)' <=>
              eager'.stage = "buffer" /\ eager'.at = v /\ text = eager'.table.texts[v]
    BY <1>1 DEF Storing
  <1>u. /\ \A v : Unindexed(v) <=> eager.stage = "build" \/ v \in eager.todo
        /\ \A v : Unindexed(v)' <=> eager'.stage = "build" \/ v \in eager'.todo
    BY <1>1 DEF Unindexed
  <1>2. UNCHANGED index => \A v : Untouched(v)
    BY DEF Untouched, index
  <1>k. eager.skipped \subseteq eager'.skipped
    BY EagerMoves
  <1>3. ASSUME NEW v \in Uri
        PROVE  Follows(v)'
    <2>1. Follows(v)
      BY DEF IndexFollows
    <2>2. CASE eager.stage = "build"
      <3>1. UNCHANGED <<buffers, index>> /\ indexed[v] = Absent
        BY <1>1, <2>2, EagerMoves DEF tables, TextsAreOwn, AsOnDisk, Unread
      <3>2. Untouched(v) /\ Blank(v)' /\ indexed'[v] = Absent
        BY <1>2, <2>1, <3>1, UntouchedStays DEF Follows, Untouched
      <3>3. Unindexed(v)' \/ v \notin Workspace
        BY <1>u, <2>2, EagerMoves
      <3> QED
        BY <3>2, <3>3 DEF Follows
    <2>3. CASE eager.stage = "pick" /\ eager'.stage = "buffer"
      <3>1. PICK a \in eager.todo :
               /\ eager'.at = a /\ eager'.todo = eager.todo \ {a} /\ eager'.table = eager.table
               /\ InsertInto(a, eager.table.texts[a], eager.table) /\ buffers' = buffers
        BY <2>3, EagerMoves
      <3>2. a \in Uri /\ a \in Workspace /\ eager.table.texts[a] \in Drafts[a]
        BY <2>3, <3>1, SyncAssumption DEF SyncTypes, TypeOK, TextsAreOwn
      <3>3. CASE v = a
        <4>1. PICK text, analysis : /\ text \in Text /\ text = eager.table.texts[v]
                                    /\ analysis = Analyzed(text, eager.table)
          BY <3>2, <3>3, SyncAssumption
        <4>2. Unindexed(v) /\ Blank(v)
          BY <1>u, <2>1, <3>1, <3>3 DEF Follows
        <4>3. Indexed(v, analysis)' /\ indexed'[v] = analysis
          <5>1. InsertInto(v, text, eager.table) /\ text \in Drafts[v] /\ DOMAIN indexed = Uri
            BY <3>1, <3>2, <3>3, <4>1 DEF SyncTypes, TypeOK
          <5>2. Indexed(v, analysis)'
            BY <4>1, <4>2, <5>1, InsertingTouches
          <5> QED
            BY <4>1, <5>1, <5>2 DEF InsertInto
        <4>4. analysis.text = text /\ analysis.table # Absent /\ analysis # Absent
          <5>1. eager.table \in Cache
            BY <2>3 DEF SyncTypes, EagerOK
          <5>2. analysis.text = text /\ analysis.table = eager.table /\ analysis # Absent
            BY <4>1, <5>1, Tabled DEF Analyzed
          <5> QED
            BY <5>1, <5>2, AbsentAssumption
        <4>5. Storing(v, text)' /\ ~Unindexed(v)'
          BY <1>s, <1>u, <2>3, <3>1, <3>3, <4>1
        <4> QED
          BY <4>3, <4>4, <4>5 DEF Follows
      <3>4. CASE v # a
        <4>1. Untouched(v)
          BY <1>1, <3>1, <3>2, <3>4, InsertingTouches
        <4>2. Unindexed(v)' <=> Unindexed(v)
          BY <1>u, <2>3, <3>1, <3>4
        <4>3. \A text : Storing(v, text)' <=> Storing(v, text)
          BY <1>s, <2>3, <3>1, <3>4
        <4> QED
          BY <1>k, <2>1, <3>1, <4>1, <4>2, <4>3, FollowsStays
      <3> QED
        BY <3>3, <3>4
    <2>4. CASE eager.stage = "buffer" /\ eager.at = v
      <3>1. /\ ~Unindexed(v) /\ ~Unindexed(v)' /\ \A text : ~Storing(v, text)'
            /\ \A text : Storing(v, text) <=> text = eager.table.texts[v]
            /\ v \in Workspace \ eager.skipped
        BY <1>s, <1>u, <2>4, EagerMoves DEF SyncTypes, EagerOK
      <3>2. indexed[v] # Absent
        BY <2>1, <3>1 DEF Follows
      <3>3. PICK analysis : analysis = indexed[v]
        OBVIOUS
      <3>4. Indexed(v, analysis) /\ analysis.text = eager.table.texts[v] /\ analysis.table # Absent
        BY <2>1, <3>1, <3>2, <3>3 DEF Follows
      <3>5. Indexed(v, analysis)' /\ indexed'[v] = indexed[v]
        BY <1>2, <2>4, <3>4, EagerMoves, UntouchedStays DEF Untouched
      <3>6. buffers'[v] = eager.table.texts[v]
        BY <1>1, <2>4, EagerMoves
      <3> QED
        BY <3>1, <3>2, <3>3, <3>4, <3>5, <3>6 DEF Follows
    <2>5. CASE \/ eager.stage = "buffer" /\ eager.at # v
               \/ eager.stage = "handle"
               \/ eager.stage = "pick" /\ eager'.stage = "done"
      <3>1. Untouched(v) /\ buffers'[v] = buffers[v]
        BY <1>1, <1>2, <2>5, EagerMoves
      <3>2. Unindexed(v)' <=> Unindexed(v)
        BY <1>u, <2>5, EagerMoves
      <3>3. \A text : Storing(v, text)' <=> Storing(v, text)
        BY <1>s, <2>5, EagerMoves
      <3> QED
        BY <1>k, <2>1, <3>1, <3>2, <3>3, FollowsStays
    <2>6. CASE eager.stage = "pick" /\ eager'.stage = "pick"
      <3>1. PICK a \in eager.todo : /\ eager'.todo = eager.todo \ {a}
                                    /\ eager'.skipped = eager.skipped \cup {a}
        BY <2>6, EagerMoves
      <3>2. Untouched(v) /\ UNCHANGED <<buffers, indexed>>
        BY <1>2, <2>6, EagerMoves DEF tables, index
      <3>3. \A text : Storing(v, text)' <=> Storing(v, text)
        BY <1>s, <2>6
      <3>4. CASE v # a
        <4>1. Unindexed(v)' <=> Unindexed(v)
          BY <1>u, <2>6, <3>1, <3>4
        <4> QED
          BY <1>k, <2>1, <3>2, <3>3, <4>1, FollowsStays
      <3>5. CASE v = a
        <4>1. indexed[v] = Absent /\ Blank(v)
          BY <1>u, <2>1, <3>1, <3>5 DEF Follows
        <4> QED
          BY <3>1, <3>2, <3>5, <4>1, UntouchedStays DEF Follows
      <3> QED
        BY <3>4, <3>5
    <2> QED
      BY <2>2, <2>3, <2>4, <2>5, <2>6, EagerMoves
  <1> QED
    BY <1>3 DEF IndexFollows

LEMMA FollowsHolds ==
  ASSUME NamesAreOwn
  PROVE  Spec => [](Saved => TextsAreOwn /\ EntriesAreDeclared /\ IndexFollows)
<1> DEFINE Inv == Saved => InTurn /\ TextsAreOwn /\ EntriesAreDeclared /\ IndexFollows
<1>1. Init => Inv
  <2> SUFFICES ASSUME Init PROVE Inv
    OBVIOUS
  <2>1. /\ tasks = {} /\ eager.stage = "build" /\ usages = {} /\ symbols = [n \in Name |-> Absent]
        /\ \A u \in Uri : disk[u] \in Drafts[u] /\ editor[u] = Absent
        /\ \A u \in Uri : indexed[u] = Absent /\ buffers[u] = Absent
    BY DEF Init, NoBuffers
  <2> QED
    BY <2>1 DEF InTurn, Running, TextsAreOwn, AsOnDisk, Unread, EntriesAreDeclared, IndexFollows,
                Follows, Unindexed, Blank
<1>2. ASSUME SyncTypes, Inv, [Next]_vars
      PROVE  Inv'
  <2>1. (Saved' <=> Saved) /\ (Saved => Steady)
    BY <1>2, SameSession DEF Saved, Steady, Without
  <2>2. UNCHANGED vars => (IndexFollows' <=> IndexFollows)
    BY DEF vars, tables, index, IndexFollows, Follows, Unindexed, Blank, Indexed, Storing
  <2>3. ASSUME Saved
        PROVE  IndexFollows'
    BY <1>2, <2>2, <2>3, FollowsEdits, FollowsTasks, FollowsEager DEF Next
  <2> QED
    BY <1>2, <2>1, <2>3, InTurnKept, TextsKept, EntriesKept
<1>3. Inv => (Saved => TextsAreOwn /\ EntriesAreDeclared /\ IndexFollows)
  OBVIOUS
<1> HIDE DEF Inv
<1> QED
  BY <1>1, <1>2, <1>3, SyncTypesHold, PTL DEF Spec

(* With nothing on the way a slice is an analysis of the buffer.           *)
LEMMA SlicesAtRest ==
  ASSUME SyncTypes, IndexFollows, Quiet, NEW u \in Uri
  PROVE  IF indexed[u] = Absent THEN Blank(u) /\ u \notin Workspace \ eager.skipped
         ELSE /\ indexed[u].text = buffers[u] /\ indexed[u].table # Absent
              /\ Indexed(u, indexed[u])
  <1>1. ~Unindexed(u) /\ \A text : ~Storing(u, text)
    BY DEF Quiet, Unindexed, Storing, SyncTypes, EagerOK
  <1>2. Follows(u)
    BY DEF IndexFollows
  <1> QED
    BY <1>1, <1>2 DEF Follows

(* In a workspace whose documents declare different names, the in-memory   *)
(* index holds of every document the analysis of its buffer against a      *)
(* closure - its declarations, and its uses of names this closure knew -   *)
(* and lacks only documents that were never read.                          *)
THEOREM TheIndexIsCurrent == NamesAreOwn => (Spec => []IndexIsCurrent)
<1> SUFFICES ASSUME NamesAreOwn
             PROVE  Spec => []IndexIsCurrent
  OBVIOUS
<1>1. SyncTypes /\ (Saved => TextsAreOwn /\ EntriesAreDeclared /\ IndexFollows)
         => IndexIsCurrent
  BY SlicesAtRest DEF IndexIsCurrent, Saved, Steady, Without
<1>2. Spec => [](Saved => TextsAreOwn /\ EntriesAreDeclared /\ IndexFollows)
  BY FollowsHolds
<1> QED
  BY <1>1, <1>2, SyncTypesHold, PTL

-----------------------------------------------------------------------------
(* Updates of different documents take turns as well.                      *)
Serial == Saved /\ Without({"parallel"})

Updating == {t \in Running : ~t.opening}

Imports(text) == Outline[text].imports

(* An update before the closure's place compares with the one in place, and*)
(* what it rebuilt has the imports of every text that is live.             *)
UpdateKeepsUp(t) ==
    /\ t.stage \in {"remove", "index", "buffer", "handle", "gate"} => t.table = closure
    /\ t.stage \in {"handle", "gate", "install"} => buffers[t.uri] = t.text
    /\ t.stage = "install" =>
          \A u \in Workspace : Imports(t.rebuilt.texts[u]) = Imports(Live(u))

(* One update runs at a time, and the closure's import sets are those of   *)
(* the live texts, but for that of the update between buffer and closure.  *)
ClosureKeepsUp ==
    /\ \A s, t \in Updating : s = t
    /\ \A t \in Updating : UpdateKeepsUp(t)
    /\ eager.stage = "done" =>
          \A u \in Workspace :
              \/ Imports(closure.texts[u]) = Imports(Live(u))
              \/ \E t \in Updating : t.uri = u /\ t.stage \in {"handle", "gate", "install"}

KeepsUp == InTurn /\ TextsAreOwn /\ ClosureKeepsUp

LEMMA KeepsUpEdits ==
  ASSUME SyncTypes, Serial, KeepsUp, EditorStep
  PROVE  ClosureKeepsUp'
  <1>1. PICK u \in Uri, q \in Task : Edits(u, q)
    BY EditorMoves DEF Serial, Saved
  <1>2. UNCHANGED <<eager, buffers, closure, disk>>
    BY EditorMoves DEF Serial, Saved, tables
  <1>3. ASSUME NEW s \in Updating'
        PROVE  \E t \in Updating :
                 /\ s.uri = t.uri /\ s.text = t.text /\ s.stage = t.stage
                 /\ s.table = t.table /\ s.rebuilt = t.rebuilt
                 /\ s = IF t.uri = u /\ ~q.opening THEN [t EXCEPT !.aborted = TRUE] ELSE t
    <2>1. s # q /\ s \in tasks' /\ ~s.opening /\ s.stage # "sleep"
      BY <1>1 DEF Updating, Running, Edits
    <2> QED
      BY <1>1, <2>1, EditKeeps DEF Updating, Running
  <1>4. ASSUME NEW s \in Updating', NEW t \in Updating'
        PROVE  s = t
    <2>1. PICK s0 \in Updating :
             s = IF s0.uri = u /\ ~q.opening THEN [s0 EXCEPT !.aborted = TRUE] ELSE s0
      BY <1>3
    <2>2. PICK t0 \in Updating :
             t = IF t0.uri = u /\ ~q.opening THEN [t0 EXCEPT !.aborted = TRUE] ELSE t0
      BY <1>3
    <2>3. s0 = t0
      BY DEF KeepsUp, ClosureKeepsUp
    <2> QED
      BY <2>1, <2>2, <2>3
  <1>5. ASSUME NEW s \in Updating'
        PROVE  UpdateKeepsUp(s)'
    BY <1>2, <1>3 DEF KeepsUp, ClosureKeepsUp, UpdateKeepsUp, Live
  <1>6. ASSUME NEW t \in Updating
        PROVE  \E s \in Updating' : s.uri = t.uri /\ s.stage = t.stage
    <2>1. PICK s \in tasks' : s.uri = t.uri /\ s.opening = t.opening /\ s.stage = t.stage
      BY <1>1, EditKeeps DEF Updating
    <2> QED
      BY <2>1 DEF Updating, Running
  <1>7. eager'.stage = "done" =>
          \A v \in Workspace :
              \/ Imports(closure'.texts[v]) = Imports(Live(v)')
              \/ \E t \in Updating' : t.uri = v /\ t.stage \in {"handle", "gate", "install"}
    BY <1>2, <1>6 DEF KeepsUp, ClosureKeepsUp, Live
  <1> QED
    BY <1>4, <1>5, <1>7 DEF ClosureKeepsUp

(* Opening a document writes what its buffer had.                          *)
LEMMA KeepsUpOpening ==
  ASSUME SyncTypes, Serial, KeepsUp, NEW t \in tasks, TaskStep(t), t.opening
  PROVE  ClosureKeepsUp'
  <1>1. /\ Writes(t) /\ TaskOK(t) /\ t \in Task /\ t.uri \in Uri /\ Workspace \subseteq Uri
        /\ buffers \in [Uri -> Text \cup {Absent}]
    BY TaskMoves, SyncAssumption DEF SyncTypes, TypeOK, Task
  <1>2. UNCHANGED <<eager, closure, disk>>
    BY <1>1 DEF Writes, TaskOK
  <1>3. \A u \in Uri : Live(u)' = Live(u)
    <2>1. /\ t.stage # "buffer" => buffers' = buffers
          /\ t.stage = "buffer" => buffers'[t.uri] = t.text
          /\ \A u \in Uri : u # t.uri => buffers'[u] = buffers[u]
      BY WritesOwn
    <2>2. t.text = Live(t.uri) /\ t.text # Absent
      BY AbsentAssumption DEF KeepsUp, TextsAreOwn, OpensLive, SyncTypes, TypeOK, Task
    <2> QED
      BY <1>2, <2>1, <2>2 DEF Live
  <1>4. Updating' = Updating
    <2>1. CASE \E q \in Task : Moves(t, q)
      <3>1. PICK q \in Task : tasks' = (tasks \ {t}) \cup {q} /\ q.opening = t.opening
        BY <2>1 DEF Moves
      <3> QED
        BY <3>1 DEF Updating, Running
    <2>2. CASE tasks' = tasks \ {t}
      BY <2>2 DEF Updating, Running
    <2> QED
      BY <2>1, <2>2, TaskMoves
  <1>5. ASSUME NEW s \in Updating
        PROVE  buffers'[s.uri] = buffers[s.uri]
    <2>1. s.uri \in Uri /\ s \in Running /\ s # t
      BY DEF Updating, Running, SyncTypes, TypeOK, Task
    <2>2. t.stage = "buffer" => s.uri # t.uri
      BY <2>1 DEF KeepsUp, InTurn, Running
    <2> QED
      BY <2>1, <2>2, WritesOwn
  <1>6. \A s \in Updating : UpdateKeepsUp(s)'
    BY <1>1, <1>2, <1>3, <1>5 DEF UpdateKeepsUp, KeepsUp, ClosureKeepsUp
  <1> QED
    BY <1>1, <1>2, <1>3, <1>4, <1>6 DEF KeepsUp, ClosureKeepsUp

LEMMA KeepsUpUpdating ==
  ASSUME SyncTypes, Serial, KeepsUp, NEW t \in tasks, TaskStep(t), ~t.opening
  PROVE  ClosureKeepsUp'
  <1> DEFINE w == t.uri
  <1>1. /\ Writes(t) /\ TaskOK(t) /\ t \in Task /\ w \in Uri /\ Workspace \subseteq Uri
        /\ buffers \in [Uri -> Text \cup {Absent}]
        /\ eager' = eager /\ eager.stage = "done" /\ closure # Absent
    BY TaskMoves, SyncAssumption
    DEF Writes, SyncTypes, TypeOK, Task, KeepsUp, InTurn, EagerOK
  <1>2. \A s \in Updating : s = t
    <2>1. t.stage # "sleep" => t \in Updating
      BY DEF Updating, Running
    <2>2. t.stage = "sleep" => Updating = {}
      <3>1. t.stage = "sleep" => Analyze(t)
        BY TaskMoves DEF Moves, Advances
      <3>2. Analyze(t) => Running = {}
        BY DEF Analyze, Serial, Saved, Steady, Without
      <3> QED
        BY <3>1, <3>2 DEF Updating
    <2> QED
      BY <2>1, <2>2 DEF KeepsUp, ClosureKeepsUp
  <1>3. t.stage # "sleep" => UpdateKeepsUp(t)
    BY DEF KeepsUp, ClosureKeepsUp, Updating, Running
  <1>4. \A u \in Workspace :
           \/ Imports(closure.texts[u]) = Imports(Live(u))
           \/ u = w /\ t.stage \in {"handle", "gate", "install"}
    BY <1>1, <1>2 DEF KeepsUp, ClosureKeepsUp
  <1>5. /\ t.stage = "buffer" => buffers'[w] = t.text
        /\ t.stage # "buffer" => buffers' = buffers
        /\ \A v \in Uri : v # w => buffers'[v] = buffers[v]
        /\ closure' = IF t.stage = "install" THEN t.rebuilt ELSE closure
        /\ t.stage # "buffer" => \A u \in Workspace : Live(u)' = Live(u)
        /\ \A u \in Workspace : u # w => Live(u)' = Live(u)
    <2>1. closure' = IF t.stage = "install" THEN t.rebuilt ELSE closure
      BY <1>1 DEF Writes
    <2> QED
      BY <1>1, <2>1, WritesOwn DEF Live
  <1>l. t.stage \in {"handle", "gate", "install"} => Live(w) = t.text
    BY <1>3, AbsentAssumption DEF UpdateKeepsUp, Live, SyncTypes, TypeOK, Task
  <1>6. CASE tasks' = tasks \ {t} /\ t.stage = "publish"
    <2>1. Updating' = {}
      BY <1>2, <1>6 DEF Updating, Running
    <2> QED
      BY <1>1, <1>4, <1>5, <1>6, <2>1 DEF ClosureKeepsUp
  <1>7. CASE \E q \in Task : Moves(t, q)
    <2>1. PICK q \in Task : Moves(t, q)
      BY <1>7
    <2>2. /\ tasks' = (tasks \ {t}) \cup {q}
          /\ q.uri = w /\ q.text = t.text /\ ~q.opening
          /\ Advances(t, q.stage, q.table, q.rebuilt)
      BY <2>1 DEF Moves
    <2>3. q.stage # "sleep"
      BY <2>2 DEF Advances
    <2>4. \A s : s \in Updating' <=> s = q
      <3>1. \A s \in tasks \ {t} : s.stage = "sleep" \/ s.opening
        BY <1>2 DEF Updating, Running
      <3> QED
        BY <2>2, <2>3, <3>1 DEF Updating, Running
    <2>5. q.stage \in {"remove", "index", "buffer", "handle", "gate"} => q.table = closure'
      BY <1>3, <1>5, <2>2 DEF UpdateKeepsUp, Advances
    <2>6. q.stage \in {"handle", "gate", "install"} => buffers'[w] = q.text
      BY <1>3, <1>5, <2>2 DEF UpdateKeepsUp, Advances
    <2>7. q.stage = "install" =>
             \A u \in Workspace : Imports(q.rebuilt.texts[u]) = Imports(Live(u)')
      <3>1. q.stage = "install" => t.stage = "gate" /\ q.rebuilt = BuildClosure(buffers)
        BY <2>2 DEF Advances
      <3>2. \A u \in Workspace : BuildClosure(buffers).texts[u] = Live(u)
        BY <1>1, BuiltIsCache DEF SyncTypes, Live
      <3> QED
        BY <1>5, <3>1, <3>2
    <2>8. UpdateKeepsUp(q)'
      BY <2>2, <2>5, <2>6, <2>7 DEF UpdateKeepsUp
    <2>9. ASSUME NEW u \in Workspace
          PROVE  \/ Imports(closure'.texts[u]) = Imports(Live(u)')
                 \/ u = w /\ q.stage \in {"handle", "gate", "install"}
      <3>1. CASE t.stage = "install"
        BY <1>3, <1>5, <3>1 DEF UpdateKeepsUp
      <3>2. CASE t.stage = "gate" /\ q.stage = "publish"
        <4>1. w \in Workspace => Imports(closure.texts[w]) = Imports(Live(w))
          BY <1>3, <1>l, <2>2, <3>2 DEF UpdateKeepsUp, Advances, ReachabilityChanged, Imports
        <4> QED
          BY <1>4, <1>5, <3>2, <4>1
      <3>3. CASE t.stage = "buffer"
        BY <1>1, <1>4, <1>5, <2>2, <3>3 DEF Advances
      <3>4. CASE t.stage = "handle"
        BY <1>1, <1>3, <1>4, <1>5, <2>2, <3>4 DEF Advances, UpdateKeepsUp
      <3>5. CASE t.stage \in {"sleep", "remove", "index", "publish"}
        BY <1>1, <1>4, <1>5, <3>5
      <3>6. CASE t.stage = "gate" /\ q.stage = "install"
        BY <1>4, <1>5, <3>6
      <3> QED
        BY <2>2, <3>1, <3>2, <3>3, <3>4, <3>5, <3>6 DEF Advances
    <2> QED
      BY <1>1, <2>2, <2>4, <2>8, <2>9 DEF ClosureKeepsUp
  <1> QED
    BY <1>6, <1>7, TaskMoves

LEMMA KeepsUpEager ==
  ASSUME SyncTypes, Serial, KeepsUp, EagerStep
  PROVE  ClosureKeepsUp'
  <1>1. tasks' = {}
    BY EagerMoves DEF KeepsUp, InTurn, SyncTypes, EagerOK
  <1>2. eager'.stage = "done" =>
           \A u \in Workspace : Imports(closure'.texts[u]) = Imports(Live(u)')
    <2>1. eager'.stage = "done" =>
             /\ eager.stage = "pick" /\ eager.todo = {} /\ closure' = eager.table
             /\ buffers' = buffers /\ disk' = disk
      BY EagerMoves
    <2>2. eager'.stage = "done" => \A u \in Workspace : editor[u] = Absent
      BY <2>1, SyncAssumption DEF KeepsUp, InTurn
    <2> QED
      BY <2>1, <2>2, SyncAssumption DEF KeepsUp, TextsAreOwn, AsOnDisk, Live
  <1> QED
    BY <1>1, <1>2 DEF ClosureKeepsUp, Updating, Running

LEMMA KeepsUpHolds == Spec => [](SyncTypes /\ (Serial => KeepsUp))
<1>1. Init => KeepsUp
  BY DEF Init, NoBuffers, KeepsUp, InTurn, TextsAreOwn, AsOnDisk, Unread, ClosureKeepsUp, Updating,
         Running
<1>2. ASSUME SyncTypes, Serial => KeepsUp, [Next]_vars
      PROVE  (Serial => KeepsUp)'
  <2>1. Serial' <=> Serial
    BY <1>2, SameSession DEF Serial, Saved, Steady, Without
  <2>2. UNCHANGED vars => (ClosureKeepsUp' <=> ClosureKeepsUp)
    BY DEF vars, tables, ClosureKeepsUp, Updating, Running, UpdateKeepsUp, Live
  <2>3. ASSUME Serial
        PROVE  ClosureKeepsUp'
    BY <1>2, <2>2, <2>3, KeepsUpEdits, KeepsUpOpening, KeepsUpUpdating, KeepsUpEager
    DEF Next, KeepsUp
  <2> QED
    BY <1>2, <2>1, <2>3, InTurnKept, TextsKept DEF KeepsUp, Serial, Saved
<1> QED
  BY <1>1, <1>2, SyncTypesHold, PTL DEF Spec

(* With one update at a time the closure follows every change of an import *)
(* set, whatever the debouncer cancels on the way.                         *)
THEOREM ReachabilityStaysCurrent == Spec => []ReachabilityIsCurrent
<1>1. SyncTypes /\ (Serial => KeepsUp) => ReachabilityIsCurrent
  <2> SUFFICES ASSUME KeepsUp, Quiet, NEW u \in Workspace, buffers[u] # Absent
               PROVE  Outline[closure.texts[u]].imports = Outline[buffers[u]].imports
    BY DEF ReachabilityIsCurrent, ClosureFollows, Serial, Saved, Steady, Without
  <2>1. Updating = {}
    BY DEF Quiet, Updating, Running
  <2> QED
    BY <2>1 DEF Quiet, KeepsUp, ClosureKeepsUp, Imports, Live
<1> QED
  BY <1>1, KeepsUpHolds, PTL


-----------------------------------------------------------------------------
(* The last line of a text: full_document_range ends at its last column.   *)
LEMMA GreatestOf ==
  ASSUME NEW S \in SUBSET Nat, S # {}, NEW K \in Nat, \A s \in S : s <= K
  PROVE  Max(S) \in S /\ \A s \in S : s <= Max(S)
  <1> DEFINE T == {K - s : s \in S}
             R == {ij \in Nat \X Nat : ij[1] < ij[2]}
  <1>1. T \subseteq Nat /\ T # {}
    <2>1. \A s \in S : K - s \in Nat
      OBVIOUS
    <2>2. PICK s \in S : TRUE
      OBVIOUS
    <2>3. K - s \in T
      BY <2>2
    <2> QED
      BY <2>1, <2>3
  <1>2. IsWellFoundedOn(R, Nat)
    BY NatLessThanWellFounded, Zenon DEF OpToRel
  <1>3. PICK m \in T : \A y \in T : ~(<<y, m>> \in R)
    <2> HIDE DEF R, T
    <2> QED
      BY <1>1, <1>2, WFMin
  <1>4. \A y \in T : m <= y
    <2>1. ASSUME NEW y \in T, y < m
          PROVE  FALSE
      <3>1. y \in Nat /\ m \in Nat
        BY <1>1
      <3>2. <<y, m>> \in R
        BY <2>1, <3>1
      <3> QED
        BY <1>3, <3>2
    <2>2. \A y \in T : y \in Nat /\ m \in Nat
      BY <1>1
    <2> HIDE DEF T
    <2> QED
      BY <2>1, <2>2
  <1>5. PICK g \in S : m = K - g
    OBVIOUS
  <1>6. \A s \in S : g >= s
    BY <1>4, <1>5
  <1> QED
    BY <1>6 DEF Max

LEMMA StartsOfLines ==
  ASSUME NEW C, NEW source \in Seq(C), NEW byte \in 0..Len(source)
  PROVE  /\ StartsUpTo(source, byte) = {0} \cup {i \in 1..byte : source[i] = "newline"}
         /\ IsFiniteSet(StartsUpTo(source, byte)) /\ StartsUpTo(source, byte) \in SUBSET (0..byte)
  <1>1. Len(source) \in Nat /\ LeastOf(byte, Len(source)) = byte
    BY DEF LeastOf
  <1>2. StartsUpTo(source, byte) = {0} \cup {i \in 1..byte : source[i] = "newline"}
    BY <1>1 DEF StartsUpTo
  <1>3. StartsUpTo(source, byte) \in SUBSET (0..byte)
    BY <1>1, <1>2
  <1>4. IsFiniteSet(0..byte)
    BY <1>1, FS_Interval
  <1> QED
    BY <1>2, <1>3, <1>4, FS_Subset

LEMMA LastLineEnds ==
  ASSUME NEW C, NEW source \in Seq(C)
  PROVE  LineEnd(source, LineOf(source, Len(source))) = ColumnOf(source, Len(source))
  <1> DEFINE n == Len(source)
             starts(b) == StartsUpTo(source, b)
             line == {i \in DOMAIN source :
                         source[i] # "newline" /\ LineOf(source, i - 1) = LineOf(source, n)}
  <1>1. n \in Nat /\ DOMAIN source = 1..n /\ n \in 0..n
    OBVIOUS
  <1>2. /\ starts(n) = {0} \cup {i \in 1..n : source[i] = "newline"}
        /\ IsFiniteSet(starts(n)) /\ starts(n) \in SUBSET (0..n)
    BY <1>1, StartsOfLines
  <1>3. PICK m \in 0..n : /\ m = Max(starts(n)) /\ m \in starts(n)
                          /\ \A s \in starts(n) : s <= m
    <2>1. starts(n) \in SUBSET Nat /\ starts(n) # {} /\ \A s \in starts(n) : s <= n
      BY <1>1, <1>2
    <2> QED
      BY <1>1, <1>2, <2>1, GreatestOf
  <1>4. ASSUME NEW i \in 1..n
        PROVE  LineOf(source, i - 1) = LineOf(source, n) <=> m <= i - 1
    <2>1. i - 1 \in 0..n
      BY <1>1
    <2>2. /\ starts(i - 1) = {0} \cup {j \in 1..(i - 1) : source[j] = "newline"}
          /\ starts(i - 1) \in SUBSET (0..(i - 1)) /\ IsFiniteSet(starts(i - 1))
      BY <2>1, StartsOfLines
    <2>3. starts(i - 1) \in SUBSET starts(n)
      BY <1>1, <1>2, <2>2
    <2>4. Cardinality(starts(i - 1)) \in Nat /\ Cardinality(starts(n)) \in Nat
      BY <1>2, <2>2, FS_CardinalityType
    <2>5. LineOf(source, i - 1) = LineOf(source, n) <=> starts(i - 1) = starts(n)
      <3>1. LineOf(source, i - 1) = LineOf(source, n)
               <=> Cardinality(starts(n)) = Cardinality(starts(i - 1))
        BY <2>4 DEF LineOf
      <3>2. Cardinality(starts(n)) = Cardinality(starts(i - 1)) => starts(i - 1) = starts(n)
        <4> HIDE DEF starts
        <4> QED
          BY <1>2, <2>3, FS_Subset
      <3> QED
        BY <3>1, <3>2
    <2>6. starts(i - 1) = starts(n) => m <= i - 1
      BY <1>3, <2>2
    <2>7. ASSUME m <= i - 1
          PROVE  starts(n) \subseteq starts(i - 1)
      <3>1. ASSUME NEW j \in starts(n)
            PROVE  j \in starts(i - 1)
        <4>1. j <= m /\ m \in 0..n /\ j \in 0..n
          BY <1>2, <1>3
        <4>2. j = 0 \/ (j \in 1..(i - 1) /\ source[j] = "newline")
          <5>1. j = 0 \/ (j \in 1..n /\ source[j] = "newline")
            BY <1>2
          <5>2. j <= i - 1
            BY <1>1, <2>7, <4>1
          <5> QED
            BY <5>1, <5>2
        <4> QED
          BY <2>2, <4>2
      <3> QED
        BY <3>1
    <2> QED
      BY <2>3, <2>5, <2>6, <2>7
  <1>5. line = (m + 1)..n
    <2>1. \A i \in 1..n : m <= i - 1 => source[i] # "newline"
      <3>1. ASSUME NEW i \in 1..n, m <= i - 1, source[i] = "newline"
            PROVE  FALSE
        <4>1. i \in starts(n)
          BY <1>2, <3>1
        <4>2. i <= m
          BY <1>3, <4>1
        <4> QED
          BY <1>1, <3>1, <4>2
      <3> QED
        BY <3>1
    <2>2. \A i : i \in line <=> i \in 1..n /\ m <= i - 1
      BY <1>1, <1>4, <2>1
    <2>3. \A i : (i \in 1..n /\ m <= i - 1) <=> i \in (m + 1)..n
      BY <1>1
    <2> HIDE DEF line
    <2> QED
      BY <2>2, <2>3
  <1>6. Cardinality(line) = n - m
    <2>1. Cardinality((m + 1)..n) = n - m
      <3>1. m + 1 \in Int /\ n \in Int
        BY <1>1
      <3>2. Cardinality((m + 1)..n) = IF m + 1 > n THEN 0 ELSE n - (m + 1) + 1
        BY <3>1, FS_Interval
      <3> QED
        BY <1>1, <3>2
    <2> HIDE DEF line
    <2> QED
      BY <1>5, <2>1
  <1>7. LineEnd(source, LineOf(source, n)) = Cardinality(line)
    BY DEF LineEnd
  <1>8. ColumnOf(source, n) = n - m
    BY <1>1, <1>3 DEF ColumnOf, LeastOf
  <1> QED
    BY <1>6, <1>7, <1>8

-----------------------------------------------------------------------------
(* Requests leave the server's tables alone: a session with requests is a  *)
(* session.                                                                *)
LEMMA ReadersOnlyRead ==
  ASSUME ReadNext \/ UNCHANGED allVars
  PROVE  /\ [Next]_vars
         /\ UNCHANGED vars \/ (Next /\ UNCHANGED reading)
  <1>1. CASE AskStep
    BY <1>1 DEF AskStep, Ask, AskFormatting, AskFull, AskDelta, AskReferences, AskRename
  <1>2. ASSUME NEW r \in requests, HandleStep(r)
        PROVE  UNCHANGED vars
    BY <1>2 DEF HandleStep, Continue, GiveUp, ReadPrevious, ReadHandle, ReadBuffer, Format,
                EncodeTokens, ResolvePath, FindSites, VerifyRename, Deliver
  <1> QED
    BY <1>1, <1>2 DEF ReadNext, allVars

LEMMA SessionsRefine == ReadSpec => Spec
<1>1. ReadInit => Init
  BY DEF ReadInit
<1>2. [ReadNext]_allVars => [Next]_vars
  BY ReadersOnlyRead
<1> QED
  BY <1>1, <1>2, PTL DEF ReadSpec, Spec

-----------------------------------------------------------------------------
Kinds == {"formatting", "full", "delta", "references", "rename"}

Fields == {"kind", "uri", "cursor", "name", "stage", "id", "version", "quiet", "previous", "handle",
           "buffer", "base", "data", "sites", "texts"}

BeforeHandle == {"previous", "handle"}
BeforeBuffer == {"previous", "handle", "buffer"}
ReadStages == {"previous", "handle", "buffer", "format", "encode", "resolve", "sites", "verify",
               "answer"}

(* What the stages of a request do to it.                                  *)
ReadsBase(r, s) ==
    /\ r.stage = "previous" /\ s.stage = "handle" /\ s.base = CachedTokens(r.uri, r.previous)
    /\ s.kind \in {"full", "delta"}

ReadsHandle(r, s) ==
    /\ r.stage = "handle" /\ s.stage = "buffer"
    /\ handles[r.uri] # Absent /\ s.handle = handles[r.uri].text

ReadsBuffer(r, s) ==
    /\ r.stage = "buffer" /\ s.stage = AfterBuffer(r.kind)
    /\ s.handle = r.handle /\ buffers[r.uri] # Absent /\ s.buffer = buffers[r.uri]

Answers(r, s) ==
    /\ s.stage = "answer" /\ s.handle = r.handle /\ s.buffer = r.buffer
    /\ \/ /\ r.stage = "format"
          /\ s.data = [until |-> FullRange(r.buffer), text |-> Formatted[r.handle]]
       \/ r.stage = "encode" /\ s.data = Encode(Nodes[r.handle], Source[r.buffer])
       \/ /\ r.stage = "sites" /\ r.kind # "rename"
          /\ s.name = r.name /\ s.sites = SitesOf(r.name)
       \/ /\ r.stage = "verify" /\ s.texts = buffers /\ s.name = r.name /\ s.sites = r.sites
          /\ Misplaced(buffers, r.sites) \/ Verified(r, buffers)

Searches(r, s) ==
    /\ s.handle = r.handle /\ s.buffer = r.buffer
    /\ \/ /\ r.stage = "resolve" /\ s.stage = "sites"
          /\ \E n \in NodesAtCursor(r) : s.name \in Found(n)
       \/ /\ r.stage = "sites" /\ s.stage = "verify" /\ r.kind = "rename" /\ s.name = r.name
          /\ s.sites = SitesOf(r.name) /\ s.sites # {} /\ ~Taken(r)

HandleMoves(r, s) ==
    /\ DOMAIN s = Fields /\ s.uri = r.uri /\ s.version = r.version /\ s.quiet = r.quiet
    /\ s.previous = r.previous /\ s.cursor = r.cursor
    /\ \/ ReadsBase(r, s)
       \/ /\ s.kind = r.kind /\ s.base = r.base
          /\ ReadsHandle(r, s) \/ ReadsBuffer(r, s) \/ Searches(r, s) \/ Answers(r, s)

LEMMA HandleSteps ==
  ASSUME NEW r \in requests, DOMAIN r = Fields, HandleStep(r)
  PROVE  /\ \/ requests' = requests \ {r}
            \/ \E s : requests' = (requests \ {r}) \cup {s} /\ HandleMoves(r, s)
         /\ \/ UNCHANGED <<tokens, sent>>
            \/ \E entry : /\ tokens' = [tokens EXCEPT ![r.uri] = entry]
                          /\ sent' = sent \cup {entry}
                          /\ entry = [id |-> entry.id, data |-> entry.data]
  <1> DEFINE Moved == \E s : requests' = (requests \ {r}) \cup {s} /\ HandleMoves(r, s)
  <1>1. CASE ReadPrevious(r)
    <2> DEFINE base == CachedTokens(r.uri, r.previous)
               s == [r EXCEPT !.stage = "handle", !.base = base,
                              !.kind = IF base = Absent THEN "full" ELSE "delta"]
    <2>1. requests' = (requests \ {r}) \cup {s} /\ UNCHANGED <<tokens, sent>>
      BY <1>1 DEF ReadPrevious, Continue
    <2>2. ReadsBase(r, s)
      BY <1>1 DEF ReadPrevious, ReadsBase, Fields
    <2>3. DOMAIN s = Fields /\ s.uri = r.uri /\ s.version = r.version /\ s.quiet = r.quiet
          /\ s.previous = r.previous /\ s.cursor = r.cursor
      BY DEF Fields
    <2>4. HandleMoves(r, s)
      BY <2>2, <2>3 DEF HandleMoves
    <2> QED
      BY <2>1, <2>4
  <1>2. CASE ReadHandle(r)
    BY <1>2 DEF ReadHandle, Continue, GiveUp, HandleMoves, ReadsHandle, Fields
  <1>3. CASE ReadBuffer(r)
    BY <1>3 DEF ReadBuffer, Continue, GiveUp, HandleMoves, ReadsBuffer, Fields
  <1>4. CASE Format(r)
    BY <1>4 DEF Format, Continue, GiveUp, HandleMoves, Answers, Fields
  <1>5. CASE EncodeTokens(r)
    <2> DEFINE data == Encode(Nodes[r.handle], Source[r.buffer])
               entry == [id |-> r.id, data |-> data]
               s == [r EXCEPT !.stage = "answer", !.data = data]
    <2>1. /\ r.stage = "encode" /\ requests' = (requests \ {r}) \cup {s}
          /\ tokens' = [tokens EXCEPT ![r.uri] = entry] /\ sent' = sent \cup {entry}
      BY <1>5 DEF EncodeTokens
    <2>2. HandleMoves(r, s)
      BY <2>1 DEF HandleMoves, Answers, Fields
    <2>3. entry = [id |-> entry.id, data |-> entry.data]
      OBVIOUS
    <2> HIDE DEF entry, s
    <2> QED
      BY <2>1, <2>2, <2>3
  <1>6. CASE ResolvePath(r)
    <2>1. ASSUME NEW n \in NodesAtCursor(r), NEW x \in Found(n),
                 Continue(r, [r EXCEPT !.stage = "sites", !.name = x]), r.stage = "resolve"
          PROVE  Moved
      <3>1. PICK s : s = [r EXCEPT !.stage = "sites", !.name = x]
        OBVIOUS
      <3>2. /\ s.stage = "sites" /\ s.name = x /\ s.handle = r.handle /\ s.buffer = r.buffer
            /\ s.kind = r.kind /\ s.base = r.base
            /\ DOMAIN s = Fields /\ s.uri = r.uri /\ s.version = r.version
            /\ s.quiet = r.quiet /\ s.previous = r.previous /\ s.cursor = r.cursor
        BY <3>1 DEF Fields
      <3>3. Searches(r, s)
        BY <2>1, <3>2 DEF Searches
      <3>4. HandleMoves(r, s)
        BY <3>2, <3>3 DEF HandleMoves
      <3> QED
        BY <2>1, <3>1, <3>4 DEF Continue
    <2>2. UNCHANGED <<tokens, sent>>
      BY <1>6 DEF ResolvePath, Continue, GiveUp
    <2> HIDE DEF Moved
    <2>3. requests' = requests \ {r} \/ Moved
      BY <1>6, <2>1 DEF ResolvePath, GiveUp
    <2> QED
      BY <2>2, <2>3 DEF Moved
  <1>7. CASE FindSites(r)
    <2> DEFINE stage == IF r.kind = "rename" THEN "verify" ELSE "answer"
    <2>1. ASSUME Continue(r, [r EXCEPT !.sites = SitesOf(r.name), !.stage = stage]),
                 SitesOf(r.name) # {}, r.kind = "rename" => ~Taken(r)
          PROVE  Moved
      <3>1. PICK s : s = [r EXCEPT !.sites = SitesOf(r.name), !.stage = stage]
        OBVIOUS
      <3>2. /\ DOMAIN s = Fields /\ s.uri = r.uri /\ s.version = r.version
            /\ s.quiet = r.quiet /\ s.previous = r.previous /\ s.cursor = r.cursor
            /\ s.kind = r.kind /\ s.base = r.base
        BY <3>1 DEF Fields
      <3>3. /\ s.stage = stage /\ s.sites = SitesOf(r.name) /\ s.name = r.name
            /\ s.handle = r.handle /\ s.buffer = r.buffer
        BY <3>1 DEF Fields
      <3>4. Searches(r, s) \/ Answers(r, s)
        BY <1>7, <2>1, <3>3 DEF FindSites, Searches, Answers
      <3>5. HandleMoves(r, s)
        BY <3>2, <3>4 DEF HandleMoves
      <3> QED
        BY <2>1, <3>1, <3>5 DEF Continue
    <2>2. UNCHANGED <<tokens, sent>>
      BY <1>7 DEF FindSites, Continue, GiveUp
    <2> HIDE DEF Moved
    <2>3. requests' = requests \ {r} \/ Moved
      BY <1>7, <2>1 DEF FindSites, GiveUp
    <2> QED
      BY <2>2, <2>3 DEF Moved
  <1>8. CASE VerifyRename(r)
    BY <1>8 DEF VerifyRename, Continue, GiveUp, HandleMoves, Answers, Fields
  <1>9. CASE Deliver(r)
    BY <1>9 DEF Deliver
  <1> QED
    BY <1>1, <1>2, <1>3, <1>4, <1>5, <1>6, <1>7, <1>8, <1>9 DEF HandleStep

-----------------------------------------------------------------------------
(* A request's answer is made of what it read.                             *)
AnswerOK(r) ==
    r.stage = "answer" =>
        /\ r.kind = "formatting" =>
              r.data = [until |-> FullRange(r.buffer), text |-> Formatted[r.handle]]
        /\ r.kind \in {"full", "delta"} => r.data = Encode(Nodes[r.handle], Source[r.buffer])
        /\ r.kind = "rename" =>
              Misplaced(r.texts, r.sites) \/ NewErrors(r.texts, r.name, r.sites) = {}

(* What a request is about fits its stage, and it has read what it passed. *)
RequestOK(r) ==
    /\ DOMAIN r = Fields /\ r.uri \in Uri /\ r.kind \in Kinds /\ r.stage \in ReadStages
    /\ r.version \in Nat /\ r.quiet \in Nat
    /\ r.stage = "previous" => r.kind = "delta"
    /\ r.stage = "format" => r.kind = "formatting"
    /\ r.stage = "encode" => r.kind \in {"full", "delta"}
    /\ r.stage \in {"resolve", "sites", "verify"} => r.kind \in {"references", "rename"}
    /\ r.stage = "verify" => r.kind = "rename"
    /\ r.stage \notin BeforeHandle => r.handle \in Text
    /\ r.stage \notin BeforeBuffer => r.buffer \in Text
    /\ r.stage \in {"sites", "verify", "answer"} /\ r.kind \in {"references", "rename"} =>
          r.name \in Name
    /\ AnswerOK(r)

(* A delta's base, and the array it may become the base of, were sent.     *)
BaseWasSent(r) == r.base # Absent => [id |-> r.previous, data |-> r.base] \in sent

TokensWereSent ==
    /\ DOMAIN tokens = Uri
    /\ \A u \in Uri : tokens[u] # Absent => [id |-> tokens[u].id, data |-> tokens[u].data] \in sent

Served(r) == RequestOK(r) /\ BaseWasSent(r)

Searching(r) == r.kind \in {"references", "rename"}

LEMMA AskedRequest ==
  ASSUME SyncTypes, AskStep
  PROVE  /\ UNCHANGED <<vars, tokens, sent>>
         /\ \E u \in Uri : \E s :
               /\ requests' = requests \cup {s}
               /\ editor[u] # Absent
               /\ "early" \in environment \/ eager.stage = "done"
               /\ Served(s) /\ s.uri = u /\ s.stage \in BeforeHandle
               /\ s.version = IF Settled(u) THEN editor[u].version ELSE 0
               /\ s.quiet = IF \A v \in Uri : editor[v] = Absent \/ Settled(v)
                            THEN version ELSE 0
               /\ Searching(s) => s.cursor \in UnderCursor(u)
  <1>1. ASSUME NEW kind \in Kinds, NEW u \in Uri, NEW n, NEW stage \in BeforeHandle,
               stage = "previous" => kind = "delta",
               kind \in {"references", "rename"} => n \in UnderCursor(u),
               Ask(kind, u, n, stage)
        PROVE  /\ UNCHANGED <<vars, tokens, sent>>
               /\ \E s :
                     /\ requests' = requests \cup {s}
                     /\ editor[u] # Absent
                     /\ "early" \in environment \/ eager.stage = "done"
                     /\ Served(s) /\ s.uri = u /\ s.stage \in BeforeHandle
                     /\ s.version = IF Settled(u) THEN editor[u].version ELSE 0
                     /\ s.quiet = IF \A v \in Uri : editor[v] = Absent \/ Settled(v)
                                  THEN version ELSE 0
                     /\ Searching(s) => s.cursor \in UnderCursor(u)
    <2>1. PICK s : s = Request(kind, u, n, stage)
      OBVIOUS
    <2>2. /\ DOMAIN s = Fields /\ s.kind = kind /\ s.uri = u /\ s.stage = stage
          /\ s.base = Absent /\ s.cursor = n
          /\ s.version = IF Settled(u) THEN editor[u].version ELSE 0
          /\ s.quiet = IF \A v \in Uri : editor[v] = Absent \/ Settled(v) THEN version ELSE 0
      BY <2>1 DEF Request, Fields
    <2>3. /\ editor[u] # Absent /\ requests' = requests \cup {s} /\ UNCHANGED <<vars, tokens, sent>>
          /\ "early" \in environment \/ eager.stage = "done"
      BY <1>1, <2>1 DEF Ask
    <2>4. s.version \in Nat /\ s.quiet \in Nat
      BY <2>2, <2>3, SyncAssumption DEF SyncTypes, TypeOK
    <2>5. Served(s)
      BY <2>2, <2>4, <1>1 DEF Served, RequestOK, BaseWasSent, AnswerOK, BeforeHandle, BeforeBuffer,
                         ReadStages
    <2>6. Searching(s) => s.cursor \in UnderCursor(u)
      BY <1>1, <2>2 DEF Searching
    <2> QED
      BY <2>2, <2>3, <2>5, <2>6
  <1>2. PICK kind \in Kinds, u \in Uri, stage \in BeforeHandle :
           \E n : /\ Ask(kind, u, n, stage)
                  /\ stage = "previous" => kind = "delta"
                  /\ kind \in {"references", "rename"} => n \in UnderCursor(u)
    BY DEF AskStep, AskFormatting, AskFull, AskDelta, AskReferences, AskRename, Kinds,
           BeforeHandle
  <1> QED
    BY <1>1, <1>2

LEMMA ServedStays ==
  ASSUME NEW r, Served(r), sent \subseteq sent'
  PROVE  Served(r)'
  BY DEF Served, RequestOK, BaseWasSent, AnswerOK, Misplaced, NewErrors, FullRange

(* Every step of a request keeps it so.                                    *)
LEMMA ServedMoves ==
  ASSUME SyncTypes, TokensWereSent, NEW r, Served(r), NEW s, HandleMoves(r, s)
  PROVE  Served(s)
  <1>1. /\ DOMAIN s = Fields /\ s.uri = r.uri /\ s.version = r.version /\ s.quiet = r.quiet
        /\ s.previous = r.previous
    BY DEF HandleMoves
  <1>2. /\ DOMAIN r = Fields /\ r.uri \in Uri /\ r.kind \in Kinds /\ r.stage \in ReadStages
        /\ r.version \in Nat /\ r.quiet \in Nat
    BY DEF Served, RequestOK
  <1>3. CASE ReadsBase(r, s)
    <2>1. s.stage = "handle" /\ s.kind \in {"full", "delta"}
      BY <1>3 DEF ReadsBase
    <2>2. BaseWasSent(s)
      BY <1>1, <1>2, <1>3 DEF ReadsBase, CachedTokens, TokensWereSent, BaseWasSent
    <2> QED
      BY <1>1, <1>2, <2>1, <2>2
      DEF Served, RequestOK, AnswerOK, BeforeHandle, BeforeBuffer, ReadStages, Kinds
  <1>4. CASE s.kind = r.kind /\ s.base = r.base /\ ReadsHandle(r, s)
    <2>1. handles[r.uri].text \in Text
      BY <1>2, <1>4 DEF ReadsHandle, SyncTypes, TypeOK
    <2> QED
      BY <1>1, <1>2, <1>4, <2>1
      DEF ReadsHandle, Served, RequestOK, AnswerOK, BaseWasSent, BeforeHandle, BeforeBuffer,
          ReadStages
  <1>5. CASE s.kind = r.kind /\ s.base = r.base /\ ReadsBuffer(r, s)
    <2>1. buffers[r.uri] \in Text
      BY <1>2, <1>5 DEF ReadsBuffer, SyncTypes, TypeOK
    <2>2. \/ r.kind = "formatting" /\ s.stage = "format"
          \/ r.kind \in {"full", "delta"} /\ s.stage = "encode"
          \/ r.kind \in {"references", "rename"} /\ s.stage = "resolve"
      BY <1>2, <1>5 DEF ReadsBuffer, AfterBuffer, Kinds
    <2> QED
      BY <1>1, <1>2, <1>5, <2>1, <2>2
      DEF ReadsBuffer, Served, RequestOK, AnswerOK, BaseWasSent, BeforeHandle, BeforeBuffer,
          ReadStages
  <1>6. CASE s.kind = r.kind /\ s.base = r.base /\ Searches(r, s)
    <2>1. s.handle \in Text /\ s.buffer \in Text /\ r.handle \in Text
      BY <1>6 DEF Searches, Served, RequestOK, BeforeHandle, BeforeBuffer
    <2>2. s.name \in Name
      <3>1. Outline[r.handle].declares \subseteq Name /\ Outline[r.handle].refers \subseteq Name
        BY <2>1, SyncAssumption
      <3>2. NodesAtCursor(r) \subseteq Name
        BY <3>1 DEF NodesAtCursor
      <3>3. \A n \in Name : Found(n) \subseteq Name
        BY ReadersAssumption DEF Found, Matches
      <3> QED
        BY <1>6, <3>2, <3>3 DEF Searches, Served, RequestOK
    <2> QED
      BY <1>1, <1>2, <1>6, <2>1, <2>2
      DEF Searches, Served, RequestOK, AnswerOK, BaseWasSent, ReadStages
  <1>7. CASE s.kind = r.kind /\ s.base = r.base /\ Answers(r, s)
    <2>1. s.handle \in Text /\ s.buffer \in Text /\ s.stage = "answer"
      BY <1>7 DEF Answers, Served, RequestOK, BeforeHandle, BeforeBuffer
    <2>2. s.kind \in {"references", "rename"} => s.name \in Name
      BY <1>7 DEF Answers, Served, RequestOK
    <2>3. AnswerOK(s)
      BY <1>7 DEF Answers, Served, RequestOK, AnswerOK, Verified, Kinds
    <2> QED
      BY <1>1, <1>2, <1>7, <2>1, <2>2, <2>3 DEF Served, RequestOK, BaseWasSent, ReadStages
  <1> QED
    BY <1>3, <1>4, <1>5, <1>6, <1>7 DEF HandleMoves

AllServed == TokensWereSent /\ \A r \in requests : Served(r)

LEMMA ServedKept ==
  ASSUME SyncTypes, AllServed, ReadNext \/ UNCHANGED allVars
  PROVE  AllServed'
  <1>1. CASE UNCHANGED reading
    <2>1. TokensWereSent'
      BY <1>1 DEF AllServed, TokensWereSent, reading
    <2>2. \A r \in requests : Served(r)'
      BY <1>1, ServedStays DEF AllServed, reading
    <2> QED
      BY <1>1, <2>1, <2>2 DEF AllServed, reading
  <1>2. CASE AskStep
    <2>1. UNCHANGED <<vars, tokens, sent>>
      BY <1>2, AskedRequest
    <2>2. PICK s : requests' = requests \cup {s} /\ Served(s)
      BY <1>2, AskedRequest
    <2>3. \A r \in requests' : Served(r)'
      BY <2>1, <2>2, ServedStays DEF AllServed
    <2> QED
      BY <2>1, <2>3 DEF AllServed, TokensWereSent
  <1>3. ASSUME NEW r \in requests, HandleStep(r)
        PROVE  AllServed'
    <2>1. DOMAIN r = Fields /\ r.uri \in Uri
      BY DEF AllServed, Served, RequestOK
    <2>2. sent \subseteq sent' /\ TokensWereSent'
      BY <1>3, <2>1, HandleSteps DEF AllServed, TokensWereSent
    <2>3. \A q \in requests : Served(q)'
      BY <2>2, ServedStays DEF AllServed
    <2>4. CASE requests' = requests \ {r}
      BY <2>2, <2>3, <2>4 DEF AllServed
    <2>5. ASSUME NEW s, requests' = (requests \ {r}) \cup {s}, HandleMoves(r, s)
          PROVE  AllServed'
      <3>1. Served(s)
        BY <2>5, ServedMoves DEF AllServed
      <3>2. Served(s)'
        BY <2>2, <3>1, ServedStays
      <3> QED
        BY <2>2, <2>3, <2>5, <3>2 DEF AllServed
    <2> QED
      BY <1>3, <2>1, <2>4, <2>5, HandleSteps
  <1> QED
    BY <1>1, <1>2, <1>3, ReadersOnlyRead DEF ReadNext, allVars

LEMMA ServedHolds == ReadSpec => [](SyncTypes /\ AllServed)
<1>1. ReadInit => AllServed
  BY DEF ReadInit, AllServed, TokensWereSent
<1>2. SyncTypes /\ AllServed /\ [ReadNext]_allVars => AllServed'
  BY ServedKept
<1> QED
  BY <1>1, <1>2, SessionsRefine, SyncTypesHold, PTL DEF ReadSpec

(* The base of a delta is the array the editor was sent under the id it    *)
(* names, although overlapping requests replace the cached one.            *)
THEOREM DeltasFindTheirBase == ReadSpec => []DeltaFindsItsBase
<1>1. AllServed => DeltaFindsItsBase
  BY DEF AllServed, Served, BaseWasSent, DeltaFindsItsBase
<1> QED
  BY <1>1, ServedHolds, PTL

-----------------------------------------------------------------------------
(* The editor numbers its changes.                                         *)
EditorCounts ==
    \A u \in Uri : editor[u] # Absent => editor[u].version \in 1..version

(* What a search has found of the name under its cursor is what the tables *)
(* have of it.                                                             *)
Finds(r) ==
    /\ r.cursor \in UnderCursor(r.uri)
    /\ r.stage \in {"sites", "verify", "answer"} => r.name \in Found(r.cursor)
    /\ r.stage \in {"verify", "answer"} => r.sites = SitesOf(r.name)
    /\ r.kind = "rename" /\ r.stage \in {"verify", "answer"} => ~Taken(r)
    /\ r.kind = "rename" /\ r.stage = "answer" => r.texts = buffers

(* A request about a document at rest has read the text the editor shows,  *)
(* and one made with nothing on the way finds the tables as they were.     *)
AtRest(r) ==
    /\ Unchanged(r) =>
          /\ ~\E t \in tasks : t.uri = r.uri
          /\ r.stage \notin BeforeHandle => r.handle = editor[r.uri].text
          /\ r.stage \notin BeforeBuffer => r.buffer = editor[r.uri].text
    /\ r.version <= version /\ r.quiet <= version
    /\ r.quiet = version => Quiet /\ Unchanged(r) /\ (Searching(r) => Finds(r))

(* The sites of a rename are of documents there are, in texts that have    *)
(* the name.                                                               *)
Placed(r) ==
    r.kind = "rename" /\ r.stage \in {"verify", "answer"} =>
        /\ r.sites # {}
        /\ \A site \in r.sites :
              /\ site.uri \in Uri /\ site.text \in Text
              /\ site.uri \in Workspace \/ editor[site.uri] # Absent
              /\ Declares(site.text, r.name) \/ Refers(site.text, r.name)

(* What the steps of the server's own do to the documents' versions.       *)
LEMMA StepsCount ==
  ASSUME SyncTypes, Steady, [Next]_vars
  PROVE  \/ /\ UNCHANGED <<editor, version>>
            /\ \A s \in tasks' : \E t \in tasks : t.uri = s.uri
            /\ Quiet => UNCHANGED vars
         \/ /\ version' = version + 1
            /\ \E u \in Uri :
                  /\ editor'[u].version = version' /\ editor'[u] # Absent
                  /\ \A v \in Uri \ {u} : editor'[v] = editor[v]
                  /\ \A s \in tasks' : s.uri = u \/ \E t \in tasks : t.uri = s.uri
  <1>1. CASE UNCHANGED vars
    BY <1>1 DEF vars
  <1>2. CASE EagerStep
    <2>1. UNCHANGED <<tasks, editor, version>> /\ closure = Absent
      BY <1>2, EagerMoves
    <2>2. ~Quiet
      BY <2>1 DEF Quiet, SyncTypes, EagerOK
    <2> QED
      BY <2>1, <2>2
  <1>3. ASSUME NEW t \in tasks, TaskStep(t)
        PROVE  /\ UNCHANGED <<editor, version>> /\ ~Quiet
               /\ \A s \in tasks' : \E q \in tasks : q.uri = s.uri
    <2>1. UNCHANGED <<editor, version>>
      BY <1>3, TaskMoves DEF Writes
    <2>2. \A s \in tasks' : s \in tasks \/ s.uri = t.uri
      <3>1. CASE tasks' = tasks \ {t}
        BY <3>1
      <3>2. CASE \E q \in Task : Moves(t, q)
        BY <3>2 DEF Moves
      <3> QED
        BY <1>3, <3>1, <3>2, TaskMoves
    <2> QED
      BY <2>1, <2>2 DEF Quiet
  <1>4. CASE EditorStep
    <2>1. ASSUME NEW u \in Uri, NEW text \in Text,
                 editor' = [editor EXCEPT ![u] = [text |-> text, version |-> version']]
          PROVE  /\ editor'[u].version = version' /\ editor'[u] # Absent
                 /\ \A v \in Uri \ {u} : editor'[v] = editor[v]
      <3>1. editor'[u] = [text |-> text, version |-> version']
            /\ \A v \in Uri \ {u} : editor'[v] = editor[v]
        BY <2>1 DEF SyncTypes, TypeOK
      <3>2. version' \in 1..MaxChanges
        BY <1>4, SyncAssumption
        DEF EditorStep, DidOpen, DidChange, DidClose, Notify, Steady, Without, SyncTypes, TypeOK
      <3>3. editor'[u] \in [text : Text, version : 1..MaxChanges]
        BY <3>1, <3>2
      <3> QED
        BY <3>1, <3>3, AbsentAssumption
    <2>2. ASSUME NEW u \in Uri, NEW text \in Text, DidOpen(u, text)
          PROVE  /\ version' = version + 1
                 /\ editor' = [editor EXCEPT ![u] = [text |-> text, version |-> version']]
                 /\ \A s \in tasks' : s.uri = u \/ \E t \in tasks : t.uri = s.uri
      BY <2>2 DEF DidOpen, Notify, SyncTypes, TypeOK
    <2>3. ASSUME NEW u \in Uri, NEW text \in Text, DidChange(u, text)
          PROVE  /\ version' = version + 1
                 /\ editor' = [editor EXCEPT ![u] = [text |-> text, version |-> version']]
                 /\ \A s \in tasks' : s.uri = u \/ \E t \in tasks : t.uri = s.uri
      <3>1. \A s \in AbortPrior(u) : \E t \in tasks : t.uri = s.uri
        BY AbortPriorKeeps DEF SyncTypes
      <3> QED
        BY <2>3, <3>1 DEF DidChange, Notify
    <2>4. ~\E u \in Uri : DidClose(u)
      BY DEF DidClose, Steady, Without
    <2> QED
      BY <1>4, <2>1, <2>2, <2>3, <2>4 DEF EditorStep
  <1> QED
    BY <1>1, <1>2, <1>3, <1>4 DEF Next

LEMMA EditorCountsKept ==
  ASSUME SyncTypes, Steady, EditorCounts, [Next]_vars
  PROVE  EditorCounts'
  <1>1. version \in Nat /\ editor \in [Uri -> [text : Text, version : 1..MaxChanges] \cup {Absent}]
    BY SyncAssumption DEF SyncTypes, TypeOK
  <1> QED
    BY <1>1, StepsCount DEF EditorCounts

LEMMA RestLasts ==
  ASSUME SyncTypes, Steady, [Next]_vars, NEW r, Served(r), AtRest(r)
  PROVE  AtRest(r)'
  <1>1. /\ version \in Nat /\ r.version \in Nat /\ r.quiet \in Nat /\ r.uri \in Uri
        /\ r.version <= version /\ r.quiet <= version
    BY DEF Served, RequestOK, AtRest, SyncTypes, TypeOK
  <1>2. CASE /\ UNCHANGED <<editor, version>>
             /\ \A s \in tasks' : \E t \in tasks : t.uri = s.uri
             /\ Quiet => UNCHANGED vars
    <2>1. Unchanged(r)' <=> Unchanged(r)
      BY <1>2 DEF Unchanged
    <2>2. UNCHANGED vars => (Finds(r)' <=> Finds(r)) /\ (Quiet' <=> Quiet)
      BY DEF Finds, UnderCursor, Found, Matches, SitesOf, Taken, Quiet, vars, tables, index
    <2>3. r.quiet = version => Quiet' /\ Unchanged(r)' /\ (Searching(r) => Finds(r)')
      BY <1>2, <2>1, <2>2 DEF AtRest
    <2> QED
      BY <1>2, <2>1, <2>3 DEF AtRest
  <1>3. ASSUME version' = version + 1, NEW u \in Uri,
               editor'[u].version = version', editor'[u] # Absent,
               \A v \in Uri \ {u} : editor'[v] = editor[v],
               \A s \in tasks' : s.uri = u \/ \E t \in tasks : t.uri = s.uri
        PROVE  AtRest(r)'
    <2>1. r.quiet # version' /\ r.version <= version' /\ r.quiet <= version'
      BY <1>1, <1>3
    <2>2. Unchanged(r)' => r.uri # u
      BY <1>1, <1>3 DEF Unchanged
    <2>3. Unchanged(r)' => Unchanged(r) /\ editor'[r.uri] = editor[r.uri]
      BY <1>1, <1>3, <2>2 DEF Unchanged
    <2> QED
      BY <1>3, <2>1, <2>2, <2>3 DEF AtRest
  <1> QED
    BY <1>2, <1>3, StepsCount

LEMMA PlacesLast ==
  ASSUME SyncTypes, Steady, [Next]_vars, NEW r, Placed(r)
  PROVE  Placed(r)'
  <1>1. \A u \in Uri : editor[u] # Absent => editor'[u] # Absent
    BY StepsCount
  <1> QED
    BY <1>1 DEF Placed

LEMMA RestBegins ==
  ASSUME SyncTypes, Steady, InTurn, EditorCounts, AskStep
  PROVE  \E s : requests' = requests \cup {s} /\ AtRest(s)' /\ Placed(s)'
  <1>1. PICK u \in Uri : \E s :
               /\ requests' = requests \cup {s}
               /\ editor[u] # Absent
               /\ "early" \in environment \/ eager.stage = "done"
               /\ Served(s) /\ s.uri = u /\ s.stage \in BeforeHandle
               /\ s.version = IF Settled(u) THEN editor[u].version ELSE 0
               /\ s.quiet = IF \A v \in Uri : editor[v] = Absent \/ Settled(v)
                            THEN version ELSE 0
               /\ Searching(s) => s.cursor \in UnderCursor(u)
    BY AskedRequest
  <1>2. PICK s :
               /\ requests' = requests \cup {s}
               /\ editor[u] # Absent
               /\ "early" \in environment \/ eager.stage = "done"
               /\ Served(s) /\ s.uri = u /\ s.stage \in BeforeHandle
               /\ s.version = IF Settled(u) THEN editor[u].version ELSE 0
               /\ s.quiet = IF \A v \in Uri : editor[v] = Absent \/ Settled(v)
                            THEN version ELSE 0
               /\ Searching(s) => s.cursor \in UnderCursor(u)
    BY <1>1
  <1>3. editor[u].version \in 1..version /\ version \in Nat
    BY <1>2 DEF EditorCounts, SyncTypes, TypeOK
  <1>4. eager.stage = "done"
    BY <1>2 DEF Steady, Without
  <1>5. Unchanged(s) => ~\E t \in tasks : t.uri = u
    BY <1>2 DEF Unchanged, Settled
  <1>6. s.quiet = version => Quiet /\ Unchanged(s)
    <2>1. \A t \in tasks : t.uri \in Uri /\ editor[t.uri] # Absent
      BY DEF InTurn, SyncTypes, TypeOK, Task
    <2>2. s.quiet = version => \A v \in Uri : editor[v] = Absent \/ Settled(v)
      BY <1>2, <1>3
    <2>3. s.quiet = version => Quiet
      BY <1>4, <2>1, <2>2 DEF Settled, Quiet
    <2>4. s.quiet = version => Unchanged(s)
      BY <1>2, <1>3, <2>2 DEF Unchanged
    <2> QED
      BY <2>3, <2>4
  <1>7. s.stage \notin {"buffer", "sites", "verify", "answer"}
    BY <1>2 DEF BeforeHandle
  <1>8. s.version <= version /\ s.quiet <= version
    BY <1>2, <1>3
  <1>9. Searching(s) => Finds(s)
    BY <1>2, <1>7 DEF Finds
  <1>10. AtRest(s) /\ Placed(s)
    BY <1>2, <1>5, <1>6, <1>7, <1>8, <1>9 DEF AtRest, BeforeBuffer, BeforeHandle, Placed
  <1>11. UNCHANGED vars
    BY AskedRequest
  <1>12. AtRest(s)' /\ Placed(s)'
    BY <1>10, <1>11
    DEF AtRest, Placed, Unchanged, Quiet, Finds, UnderCursor, Found, Matches, SitesOf, Taken, vars,
        tables, index
  <1> QED
    BY <1>2, <1>12

LEMMA RestMoves ==
  ASSUME SyncTypes, LatestComes, UNCHANGED vars,
         NEW r, Served(r), AtRest(r), NEW s, HandleMoves(r, s)
  PROVE  AtRest(s)'
  <1>1. s.uri = r.uri /\ s.version = r.version /\ s.quiet = r.quiet /\ r.uri \in Uri
        /\ r.stage \in ReadStages /\ r.kind \in Kinds /\ s.cursor = r.cursor
    BY DEF HandleMoves, Served, RequestOK
  <1>2. Unchanged(s) <=> Unchanged(r)
    BY <1>1 DEF Unchanged
  <1>3. ASSUME Unchanged(r)
        PROVE  /\ ~\E t \in tasks : t.uri = s.uri
               /\ handles[s.uri].text = editor[s.uri].text /\ buffers[s.uri] = editor[s.uri].text
    BY <1>1, <1>3 DEF AtRest, LatestComes, HasLatest, Unchanged
  <1>4. Unchanged(r) /\ s.stage \notin BeforeHandle => s.handle = editor[s.uri].text
    BY <1>1, <1>3 DEF AtRest, HandleMoves, ReadsBase, ReadsHandle, ReadsBuffer, Searches, Answers,
                      BeforeHandle
  <1>5. Unchanged(r) /\ s.stage \notin BeforeBuffer => s.buffer = editor[s.uri].text
    BY <1>1, <1>3 DEF AtRest, HandleMoves, ReadsBase, ReadsHandle, ReadsBuffer, Searches, Answers,
                      BeforeBuffer
  <1>6. ASSUME s.quiet = version, Searching(s)
        PROVE  Finds(s)
    <2>1. Unchanged(r) /\ (Searching(r) => Finds(r))
      BY <1>1, <1>6 DEF AtRest
    <2>2. /\ r.stage = "previous" => r.kind = "delta"
          /\ r.stage = "format" => r.kind = "formatting"
          /\ r.stage = "encode" => r.kind \in {"full", "delta"}
          /\ r.stage = "verify" => r.kind = "rename"
      BY DEF Served, RequestOK
    <2>3. CASE ReadsBase(r, s)
      BY <1>6, <2>3 DEF ReadsBase, Searching
    <2>4. CASE s.kind = r.kind /\ (ReadsHandle(r, s) \/ ReadsBuffer(r, s))
      <3>1. s.stage \notin {"sites", "verify", "answer"} /\ Finds(r)
        BY <1>1, <1>6, <2>1, <2>4
        DEF ReadsHandle, ReadsBuffer, AfterBuffer, Kinds, Searching
      <3> QED
        BY <1>1, <3>1 DEF Finds
    <2>5. CASE s.kind = r.kind /\ Searches(r, s)
      <3>1. Finds(r)
        BY <1>6, <2>1, <2>5 DEF Searching
      <3>2. CASE r.stage = "resolve" /\ s.stage = "sites"
        <4>1. r.handle = editor[r.uri].text /\ r.buffer = editor[r.uri].text
          BY <2>1, <3>2 DEF AtRest, BeforeHandle, BeforeBuffer
        <4>2. NodesAtCursor(r) = {r.cursor}
          BY <3>1, <4>1 DEF NodesAtCursor, Finds, UnderCursor
        <4>3. s.name \in Found(r.cursor)
          BY <2>5, <3>2, <4>2 DEF Searches
        <4> QED
          BY <1>1, <3>1, <3>2, <4>3 DEF Finds
      <3>3. CASE r.stage = "sites" /\ s.stage = "verify"
        <4>1. s.name = r.name /\ s.sites = SitesOf(r.name) /\ ~Taken(r)
          BY <2>5, <3>3 DEF Searches
        <4> QED
          BY <1>1, <3>1, <3>3, <4>1 DEF Finds, Taken
      <3> QED
        BY <2>5, <3>2, <3>3 DEF Searches
    <2>6. CASE s.kind = r.kind /\ Answers(r, s)
      <3>1. Finds(r)
        BY <1>6, <2>1, <2>6 DEF Searching
      <3>2. s.stage = "answer" /\ s.name = r.name
        BY <1>6, <2>2, <2>6 DEF Answers, Searching
      <3>3. CASE r.stage = "sites"
        BY <1>1, <2>6, <3>1, <3>2, <3>3 DEF Answers, Finds
      <3>4. CASE r.stage = "verify"
        BY <1>1, <2>6, <3>1, <3>2, <3>4 DEF Answers, Finds, Taken
      <3> QED
        BY <1>6, <2>2, <2>6, <3>3, <3>4 DEF Answers, Searching
    <2> QED
      BY <2>3, <2>4, <2>5, <2>6 DEF HandleMoves
  <1>7. AtRest(s)
    BY <1>1, <1>2, <1>3, <1>4, <1>5, <1>6 DEF AtRest
  <1> QED
    BY <1>7 DEF AtRest, Unchanged, Quiet, Finds, UnderCursor, Found, Matches, SitesOf, Taken, vars,
                tables, index

(* What a search finds is in documents there are, in texts that have the   *)
(* name.                                                                   *)
LEMMA SitesHaveTheName ==
  ASSUME SyncTypes, TextsAreOwn, EntriesAreDeclared, IndexFollows,
         NEW n \in Name, NEW site \in SitesOf(n)
  PROVE  /\ site.uri \in Uri /\ site.text \in Text
         /\ site.uri \in Workspace \/ editor[site.uri] # Absent
         /\ Declares(site.text, n) \/ Refers(site.text, n)
  <1>1. ASSUME NEW u \in Uri, ~Blank(u)
        PROVE  /\ u \in Workspace \/ editor[u] # Absent
               /\ indexed[u] # Absent /\ Indexed(u, indexed[u])
    <2>1. indexed[u] # Absent /\ Indexed(u, indexed[u])
      BY <1>1 DEF IndexFollows, Follows
    <2>2. editor[u] = Absent => u \in Workspace
      BY <2>1 DEF TextsAreOwn, AsOnDisk, Unread
    <2> QED
      BY <2>1, <2>2
  <1>2. CASE \E use \in usages : use.name = n /\ site = [uri |-> use.uri, text |-> use.text]
    <2>1. PICK use \in usages : use.name = n /\ site = [uri |-> use.uri, text |-> use.text]
      BY <1>2
    <2>2. use \in [name : Name, uri : Uri, text : Text]
      BY DEF SyncTypes, TypeOK
    <2>3. site.uri = use.uri /\ site.text = use.text /\ use.uri \in Uri /\ use.text \in Text
      BY <2>1, <2>2
    <2>4. ~Blank(use.uri)
      BY DEF Blank
    <2>5. use \in SitesIn(use.uri, indexed[use.uri].text, indexed[use.uri].table)
      BY <1>1, <2>3, <2>4 DEF Indexed
    <2>6. PICK text : text = indexed[use.uri].text
      OBVIOUS
    <2>7. n \in Outline[text].refers /\ use.text = text
      BY <2>1, <2>5, <2>6 DEF SitesIn
    <2> QED
      BY <1>1, <2>3, <2>4, <2>7 DEF Refers
  <1>3. CASE symbols[n] # Absent /\ site = [uri |-> symbols[n].uri, text |-> symbols[n].text]
    <2>1. symbols[n] \in [uri : Uri, text : Text]
      BY <1>3 DEF SyncTypes, TypeOK
    <2>2. site.uri = symbols[n].uri /\ site.text = symbols[n].text
      BY <1>3
    <2>3. ~Blank(symbols[n].uri)
      BY <1>3 DEF Blank
    <2>4. n \in Outline[symbols[n].text].declares
      BY <1>3 DEF EntriesAreDeclared
    <2> QED
      BY <1>1, <2>1, <2>2, <2>3, <2>4 DEF Declares
  <1> QED
    BY <1>2, <1>3 DEF SitesOf

LEMMA PlacesBegin ==
  ASSUME SyncTypes, TextsAreOwn, EntriesAreDeclared, IndexFollows, UNCHANGED vars,
         NEW r, Served(r), Placed(r), NEW s, HandleMoves(r, s)
  PROVE  Placed(s)'
  <1>1. SUFFICES ASSUME s.kind = "rename", s.stage \in {"verify", "answer"}
                 PROVE  /\ s.sites # {}
                        /\ \A site \in s.sites :
                              /\ site.uri \in Uri /\ site.text \in Text
                              /\ site.uri \in Workspace \/ editor[site.uri] # Absent
                              /\ Declares(site.text, s.name) \/ Refers(site.text, s.name)
    BY DEF Placed, vars
  <1>2. /\ r.stage = "format" => r.kind = "formatting"
        /\ r.stage = "encode" => r.kind \in {"full", "delta"}
        /\ r.stage = "sites" /\ r.kind = "rename" => r.name \in Name
    BY DEF Served, RequestOK
  <1>3. s.kind = r.kind
    BY <1>1 DEF HandleMoves, ReadsBase
  <1>4. CASE Searches(r, s)
    <2>1. /\ s.name = r.name /\ s.sites = SitesOf(r.name) /\ s.sites # {} /\ r.name \in Name
      BY <1>1, <1>2, <1>4 DEF Searches
    <2> QED
      BY <2>1, SitesHaveTheName
  <1>5. CASE Answers(r, s)
    <2>1. r.stage = "verify" /\ s.name = r.name /\ s.sites = r.sites
      BY <1>1, <1>2, <1>3, <1>5 DEF Answers
    <2> QED
      BY <1>1, <1>3, <2>1 DEF Placed
  <1>6. ~ReadsBase(r, s) /\ ~ReadsHandle(r, s) /\ ~ReadsBuffer(r, s)
    BY <1>1, <1>3 DEF ReadsBase, ReadsHandle, ReadsBuffer, AfterBuffer
  <1> QED
    BY <1>4, <1>5, <1>6 DEF HandleMoves

AllAtRest == EditorCounts /\ \A r \in requests : AtRest(r) /\ Placed(r)

Orderly ==
    InTurn /\ LatestComes /\ TextsAreOwn /\ EntriesAreDeclared /\ IndexFollows

LEMMA RestKept ==
  ASSUME SyncTypes, AllServed, Steady, Orderly, AllAtRest, ReadNext \/ UNCHANGED allVars
  PROVE  AllAtRest'
  <1>1. [Next]_vars /\ EditorCounts'
    BY ReadersOnlyRead, EditorCountsKept DEF AllAtRest
  <1>2. \A r \in requests : AtRest(r)' /\ Placed(r)'
    BY <1>1, RestLasts, PlacesLast DEF AllServed, AllAtRest
  <1>3. CASE UNCHANGED reading
    BY <1>1, <1>2, <1>3 DEF AllAtRest, reading
  <1>4. CASE AskStep
    BY <1>1, <1>2, <1>4, RestBegins DEF AllAtRest, Orderly
  <1>5. ASSUME NEW r \in requests, HandleStep(r)
        PROVE  AllAtRest'
    <2>1. DOMAIN r = Fields /\ Served(r)
      BY DEF AllServed, Served, RequestOK
    <2>2. UNCHANGED vars
      BY <1>5 DEF HandleStep, Continue, GiveUp, ReadPrevious, ReadHandle, ReadBuffer, Format,
                  EncodeTokens, ResolvePath, FindSites, VerifyRename, Deliver
    <2>3. CASE requests' = requests \ {r}
      BY <1>1, <1>2, <2>3 DEF AllAtRest
    <2>4. ASSUME NEW s, requests' = (requests \ {r}) \cup {s}, HandleMoves(r, s)
          PROVE  AllAtRest'
      <3>1. AtRest(s)'
        BY <2>1, <2>2, <2>4, RestMoves DEF AllAtRest, Orderly
      <3>2. Placed(s)'
        BY <2>1, <2>2, <2>4, PlacesBegin DEF AllAtRest, Orderly
      <3> QED
        BY <1>1, <1>2, <2>4, <3>1, <3>2 DEF AllAtRest
    <2> QED
      BY <1>5, <2>1, <2>3, <2>4, HandleSteps
  <1> QED
    BY <1>3, <1>4, <1>5, ReadersOnlyRead DEF ReadNext, allVars

LEMMA OrderHolds ==
  ASSUME NamesAreOwn
  PROVE  Spec => [](SyncTypes /\ (Saved => Orderly))
<1>1. /\ Saved => Steady
      /\ (Steady => InTurn /\ LatestComes)
         /\ (Saved => TextsAreOwn /\ EntriesAreDeclared /\ IndexFollows) => (Saved => Orderly)
  BY DEF Saved, Orderly
<1> QED
  BY <1>1, LatestHolds, FollowsHolds, PTL

LEMMA RestHolds ==
  ASSUME NamesAreOwn
  PROVE  ReadSpec => [](SyncTypes /\ AllServed /\ (Saved => Orderly /\ AllAtRest))
<1> DEFINE Order == Saved => Orderly
           Rest == Saved => AllAtRest
<1>1. ReadInit => Rest
  BY DEF ReadInit, Init, AllAtRest, EditorCounts
<1>2. SyncTypes /\ AllServed /\ Order /\ Rest /\ [ReadNext]_allVars => Rest'
  <2> SUFFICES ASSUME SyncTypes, AllServed, Order, Rest, [ReadNext]_allVars
               PROVE  Rest'
    OBVIOUS
  <2>1. (Saved' <=> Saved) /\ (Saved => Steady)
    BY ReadersOnlyRead, SameSession DEF Saved, Steady, Without
  <2> QED
    BY <2>1, RestKept
<1>3. Spec => [](SyncTypes /\ Order)
  BY OrderHolds
<1>4. Order /\ Rest => (Saved => Orderly /\ AllAtRest)
  OBVIOUS
<1> HIDE DEF Order, Rest
<1> QED
  BY <1>1, <1>2, <1>3, <1>4, ServedHolds, SessionsRefine, PTL DEF ReadSpec

-----------------------------------------------------------------------------
(* What a search finds with nothing on the way: the documents that declare *)
(* the name, and those that use it and whose analysis knew it.             *)
LEMMA SitesAreUses ==
  ASSUME SyncTypes, IndexFollows, Quiet, NEW n \in Name, NEW u \in Uri
  PROVE  /\ (\E site \in SitesOf(n) : site.uri = u)
               <=> /\ indexed[u] # Absent
                   /\ \/ Declares(buffers[u], n)
                      \/ /\ Refers(buffers[u], n)
                         /\ n \in Known(buffers[u], indexed[u].table)
         /\ symbols[n] # Absent /\ symbols[n].uri = u
               <=> indexed[u] # Absent /\ Declares(buffers[u], n)
         /\ \A site \in SitesOf(n) : site.uri = u => site.text = buffers[u]
  <1> DEFINE declares == symbols[n] # Absent /\ symbols[n].uri = u
             uses == \E use \in usages : use.name = n /\ use.uri = u
             place == [uri |-> symbols[n].uri, text |-> symbols[n].text]
             found == {[uri |-> use.uri, text |-> use.text] :
                          use \in {t \in usages : t.name = n}}
  <1>1. \A site : site \in SitesOf(n)
                     <=> site \in found \/ (symbols[n] # Absent /\ site = place)
    BY Zenon DEF SitesOf
  <1>2. /\ \A site \in found : \E use \in usages :
              use.name = n /\ site.uri = use.uri /\ site.text = use.text
        /\ \A use \in usages : use.name = n => \E site \in found : site.uri = use.uri
    <2>1. \A use \in usages : use.name = n => [uri |-> use.uri, text |-> use.text] \in found
      OBVIOUS
    <2>2. \A use \in usages : use.name = n =>
             \E site \in found : site = [uri |-> use.uri, text |-> use.text]
      BY <2>1
    <2>3. \A site \in found : \E use \in usages :
             use.name = n /\ site = [uri |-> use.uri, text |-> use.text]
      OBVIOUS
    <2> HIDE DEF found
    <2> QED
      BY <2>2, <2>3
  <1>3. place.uri = symbols[n].uri /\ place.text = symbols[n].text
    OBVIOUS
  <1>4. (\E site \in SitesOf(n) : site.uri = u) <=> uses \/ declares
    <2> HIDE DEF found, place
    <2> QED
      BY <1>1, <1>2, <1>3
  <1>5. CASE indexed[u] = Absent
    <2>1. Blank(u)
      BY <1>5, SlicesAtRest
    <2>2. ~uses /\ ~declares
      BY <2>1 DEF Blank
    <2> HIDE DEF uses, declares
    <2> QED
      BY <1>4, <1>5, <2>2 DEF declares
  <1>6. CASE indexed[u] # Absent
    <2>1. /\ {m \in Name : symbols[m] # Absent /\ symbols[m].uri = u}
                = Outline[buffers[u]].declares
          /\ \A m \in Outline[buffers[u]].declares : symbols[m].text = buffers[u]
          /\ {use \in usages : use.uri = u} = SitesIn(u, buffers[u], indexed[u].table)
      BY <1>6, SlicesAtRest, Zenon DEF Indexed
    <2>2. declares <=> Declares(buffers[u], n)
      BY <2>1 DEF Declares
    <2>3. uses <=> Refers(buffers[u], n) /\ n \in Known(buffers[u], indexed[u].table)
      <3> DEFINE mine == {use \in usages : use.uri = u}
                 here == Outline[buffers[u]].refers \cap Known(buffers[u], indexed[u].table)
      <3>1. mine = {[name |-> m, uri |-> u, text |-> buffers[u]] : m \in here}
        BY <2>1 DEF SitesIn
      <3>2. uses <=> \E use \in mine : use.name = n
        OBVIOUS
      <3>3. /\ \A use \in mine : use.name \in here
            /\ \A m \in here : [name |-> m, uri |-> u, text |-> buffers[u]] \in mine
        BY <3>1
      <3>4. n \in here => \E use \in mine : use.name = n
        BY <3>3
      <3>5. (\E use \in mine : use.name = n) <=> n \in here
        <4> HIDE DEF mine, here
        <4> QED
          BY <3>3, <3>4
      <3> QED
        BY <3>2, <3>5 DEF Refers
    <2>4. ASSUME NEW site \in SitesOf(n), site.uri = u
          PROVE  site.text = buffers[u]
      <3>1. CASE site \in found
        <4>1. PICK use \in usages : use.name = n /\ site.uri = use.uri /\ site.text = use.text
          BY <1>2, <3>1
        <4>2. use \in SitesIn(u, buffers[u], indexed[u].table)
          BY <2>1, <2>4, <4>1
        <4>3. use.text = buffers[u]
          BY <4>2 DEF SitesIn
        <4> QED
          BY <4>1, <4>3
      <3>2. CASE symbols[n] # Absent /\ site = place
        BY <2>1, <2>4, <3>2
      <3> HIDE DEF found, place
      <3> QED
        BY <1>1, <3>1, <3>2
    <2> HIDE DEF uses, declares, found, place
    <2> QED
      BY <1>4, <1>6, <2>2, <2>3, <2>4 DEF declares
  <1> QED
    BY <1>5, <1>6

(* What a document's tables are with nothing on the way.                   *)
LEMMA TablesAtRest ==
  ASSUME SyncTypes, Calm, Orderly, Quiet, NEW u \in Uri
  PROVE  /\ buffers[u] = OnScreen(u)
         /\ u \in Workspace => indexed[u] # Absent /\ buffers[u] \in Text
  <1>1. eager.stage = "done" /\ eager.todo = {} /\ eager.skipped = {} /\ tasks = {}
    BY DEF Quiet, SyncTypes, EagerOK, Calm, Without
  <1>2. editor[u] # Absent => buffers[u] = editor[u].text
    BY <1>1 DEF Orderly, LatestComes, HasLatest
  <1>3. editor[u] = Absent => buffers[u] = IF u \in Workspace THEN disk[u] ELSE Absent
    BY <1>1 DEF Orderly, TextsAreOwn, AsOnDisk, Unread
  <1>4. ASSUME u \in Workspace
        PROVE  indexed[u] # Absent /\ buffers[u] \in Text
    <2>1. indexed[u] # Absent /\ indexed[u].text = buffers[u]
      BY <1>1, <1>4, SlicesAtRest DEF Orderly
    <2> QED
      BY <2>1 DEF SyncTypes, TypeOK
  <1> QED
    BY <1>2, <1>3, <1>4 DEF OnScreen

(* A name found under the cursor is the cursor's, or another that ends     *)
(* alike and is declared.                                                  *)
LEMMA SearchesMeanTheCursor ==
  ASSUME SyncTypes, IndexFollows, Quiet, NEW r, r.name \in Name, r.name \in Found(r.cursor)
  PROVE  MeansCursor(r) /\ symbols[r.name] # Absent
  <1>1. symbols[r.name] # Absent /\ (r.name = r.cursor \/ r.name \in Alike[r.cursor])
    BY DEF Found, Matches
  <1>2. PICK u \in Uri : symbols[r.name].uri = u
    BY <1>1 DEF SyncTypes, TypeOK
  <1>3. indexed[u] # Absent /\ Declares(buffers[u], r.name)
    BY <1>1, <1>2, SitesAreUses
  <1>4. buffers[u] # Absent
    <2>1. indexed[u] \in [text : Text, table : Cache \cup {Absent}]
      BY <1>3 DEF SyncTypes, TypeOK
    <2>2. indexed[u].text = buffers[u]
      BY <1>3, SlicesAtRest
    <2> QED
      BY <2>1, <2>2, AbsentAssumption
  <1> QED
    BY <1>1, <1>3, <1>4 DEF MeansCursor

(* A request made and answered with its document at rest is answered from  *)
(* the text the editor shows, whatever the other documents do: where an    *)
(* encoding by itself paints the tokens of a text, and documents declare   *)
(* different names.  References found with nothing on the way lack only    *)
(* uses whose last analysis was against a closure without the name.        *)
THEOREM AnswersStayCurrent ==
  NamesAreOwn /\ EncodingPaints => (ReadSpec => []AnswersAreCurrent)
<1> SUFFICES ASSUME NamesAreOwn, EncodingPaints
             PROVE  ReadSpec => []AnswersAreCurrent
  OBVIOUS
<1>1. SyncTypes /\ AllServed /\ (Saved => Orderly /\ AllAtRest) => AnswersAreCurrent
  <2> SUFFICES ASSUME SyncTypes, AllServed, Orderly, AllAtRest, Calm,
                      NEW r \in requests, r.stage = "answer", Unchanged(r)
               PROVE  CurrentAnswer(r)
    BY DEF AnswersAreCurrent, Calm, Saved, Steady, Without
  <2> DEFINE text == editor[r.uri].text
  <2>1. r.handle = text /\ r.buffer = text /\ text \in Text
    BY DEF AllServed, Served, RequestOK, AllAtRest, AtRest, BeforeHandle, BeforeBuffer
  <2>2. CASE r.kind = "formatting"
    <3>1. r.data = [until |-> FullRange(text), text |-> Formatted[text]]
      BY <2>1, <2>2 DEF AllServed, Served, RequestOK, AnswerOK
    <3>2. Source[text] \in Seq({"ink", "blank", "newline"})
      BY <2>1, ReadersAssumption
    <3>3. LineEnd(Source[text], LineOf(Source[text], Len(Source[text])))
             = ColumnOf(Source[text], Len(Source[text]))
      BY <3>2, LastLineEnds
    <3>4. FullRange(text) = <<LineOf(Source[text], Len(Source[text])),
                              ColumnOf(Source[text], Len(Source[text]))>>
      BY <3>3 DEF FullRange
    <3> QED
      BY <2>2, <3>1, <3>4 DEF CurrentAnswer
  <2>3. CASE r.kind \in {"full", "delta"}
    <3>1. r.data = Encode(Nodes[text], Source[text])
      BY <2>1, <2>3 DEF AllServed, Served, RequestOK, AnswerOK
    <3> QED
      BY <2>1, <2>3, <3>1 DEF EncodingPaints, CurrentAnswer
  <2>4. CASE r.kind = "references"
    <3>1. SUFFICES ASSUME r.quiet = version
                   PROVE  /\ MeansCursor(r)
                          /\ {site.uri : site \in r.sites} \cap Workspace
                                = {u \in Workspace :
                                      \/ Declares(buffers[u], r.name)
                                      \/ /\ Refers(buffers[u], r.name)
                                         /\ r.name \in Known(buffers[u], indexed[u].table)}
      BY <2>4 DEF CurrentAnswer
    <3>2. Quiet /\ r.sites = SitesOf(r.name) /\ r.name \in Found(r.cursor)
      BY <2>4, <3>1 DEF AllAtRest, AtRest, Searching, Finds
    <3>3. r.name \in Name
      BY <2>4 DEF AllServed, Served, RequestOK
    <3>4. \A u \in Workspace : u \in Uri /\ indexed[u] # Absent
      BY <3>2, TablesAtRest, SyncAssumption
    <3>5. \A u \in Workspace :
             (\E site \in r.sites : site.uri = u)
                <=> \/ Declares(buffers[u], r.name)
                    \/ /\ Refers(buffers[u], r.name)
                       /\ r.name \in Known(buffers[u], indexed[u].table)
      BY <3>2, <3>3, <3>4, SitesAreUses DEF Orderly
    <3>6. MeansCursor(r)
      BY <3>2, <3>3, SearchesMeanTheCursor DEF Orderly
    <3> QED
      BY <3>5, <3>6
  <2>5. CASE r.kind = "rename"
    BY <2>5 DEF CurrentAnswer
  <2> QED
    BY <2>2, <2>3, <2>4, <2>5 DEF AllServed, Served, RequestOK, Kinds
<1> QED
  BY <1>1, RestHolds, PTL

-----------------------------------------------------------------------------
(* What the edits make of a document's names.                              *)
LEMMA EditedNames ==
  ASSUME NEW texts, NEW n \in Name, NEW sites, NEW u \in Uri, texts[u] \in Text
  PROVE  LET after == AfterEdits(OutlinesOf(texts), n, sites)
             edited == \E site \in sites : site.uri = u
         IN  /\ u \in DOMAIN OutlinesOf(texts) /\ OutlinesOf(texts)[u] = Outline[texts[u]]
             /\ ~edited => after[u] = Outline[texts[u]]
             /\ edited => /\ after[u].declares = Swap(Outline[texts[u]].declares, n)
                          /\ after[u].refers = Swap(Outline[texts[u]].refers, n)
  <1>1. u \in {v \in Uri : texts[v] # Absent}
    BY AbsentAssumption
  <1>2. u \in DOMAIN OutlinesOf(texts) /\ OutlinesOf(texts)[u] = Outline[texts[u]]
    BY <1>1 DEF OutlinesOf
  <1>3. PICK o : o = OutlinesOf(texts)
    OBVIOUS
  <1>4. o[u] \in [declares : SUBSET Name, refers : SUBSET Name, imports : SUBSET Package]
    BY <1>2, <1>3, SyncAssumption
  <1>5. AfterEdits(o, n, sites)[u] =
           IF \E site \in sites : site.uri = u
           THEN [o[u] EXCEPT !.declares = Swap(@, n), !.refers = Swap(@, n)]
           ELSE o[u]
    BY <1>2, <1>3 DEF AfterEdits
  <1>6. [o[u] EXCEPT !.declares = Swap(@, n), !.refers = Swap(@, n)].declares
           = Swap(o[u].declares, n)
        /\ [o[u] EXCEPT !.declares = Swap(@, n), !.refers = Swap(@, n)].refers
              = Swap(o[u].refers, n)
    BY <1>4
  <1> QED
    BY <1>2, <1>3, <1>5, <1>6

(* The analyses before and after the edits catch a document they miss: its *)
(* use of the name, of which they take the declaration away, is a new      *)
(* error in it.                                                            *)
LEMMA NothingIsMissed ==
  ASSUME NamesAreOwn, NEW r, r.name \in Name, NEW texts,
         \A u \in Uri : texts[u] # Absent => texts[u] \in Text /\ texts[u] \in Drafts[u],
         \A site \in r.sites :
            /\ site.uri \in Uri /\ site.text \in Text /\ site.text = texts[site.uri]
            /\ Declares(site.text, r.name) \/ Refers(site.text, r.name),
         NewErrors(texts, r.name, r.sites) = {},
         NEW w \in Uri, \E site \in r.sites : site.uri = w, Declares(texts[w], r.name)
  PROVE  Covers(r, texts)
  <1> DEFINE n == r.name
             before == OutlinesOf(texts)
             after == AfterEdits(before, n, r.sites)
             shows == {u \in Uri : texts[u] # Absent}
             edited(u) == \E site \in r.sites : site.uri = u
  <1>1. DOMAIN before = shows /\ DOMAIN after = shows
    BY DEF OutlinesOf, AfterEdits
  <1>2. \A u \in shows :
           /\ before[u] = Outline[texts[u]]
           /\ ~edited(u) => after[u] = Outline[texts[u]]
           /\ edited(u) => /\ after[u].declares = Swap(Outline[texts[u]].declares, n)
                           /\ after[u].refers = Swap(Outline[texts[u]].refers, n)
    <2>1. ASSUME NEW u \in shows
          PROVE  /\ before[u] = Outline[texts[u]]
                 /\ ~edited(u) => after[u] = Outline[texts[u]]
                 /\ edited(u) => /\ after[u].declares = Swap(Outline[texts[u]].declares, n)
                                 /\ after[u].refers = Swap(Outline[texts[u]].refers, n)
      <3>1. u \in Uri /\ texts[u] \in Text
        OBVIOUS
      <3> QED
        BY <3>1, EditedNames
    <2> QED
      BY <2>1
  <1>3. w \in shows /\ edited(w)
    BY AbsentAssumption
  <1>4. \A u \in shows : Declares(texts[u], n) => u = w
    BY <1>3 DEF NamesAreOwn, Declares
  <1>5. \A v \in shows : n \notin after[v].declares
    <2>1. n \notin Swap(Outline[texts[w]].declares, n)
          /\ \A v \in shows : n \notin Swap(Outline[texts[v]].declares, n)
      BY ReadersAssumption DEF Swap
    <2> HIDE DEF after, before, shows, edited
    <2> QED
      BY <1>2, <1>3, <1>4, <2>1 DEF Declares
  <1>6. ASSUME NEW u \in shows, Refers(texts[u], n), ~edited(u)
        PROVE  FALSE
    <2>1. n \in Unresolved(after, u)
      BY <1>1, <1>2, <1>5, <1>6 DEF Unresolved, Refers
    <2>2. n \notin Unresolved(before, u)
      BY <1>1, <1>2, <1>3 DEF Unresolved, Declares
    <2>3. u \in NewErrors(texts, n, r.sites)
      BY <1>1, <2>1, <2>2 DEF NewErrors
    <2> QED
      BY <2>3
  <1>7. ~Misplaced(texts, r.sites)
    BY DEF Misplaced
  <1>8. \A u : edited(u)
           <=> u \in Uri /\ texts[u] # Absent /\ (Declares(texts[u], n) \/ Refers(texts[u], n))
    <2>1. \A u : edited(u) => u \in Uri /\ texts[u] # Absent
                                 /\ (Declares(texts[u], n) \/ Refers(texts[u], n))
      BY AbsentAssumption
    <2>2. \A u \in shows : Declares(texts[u], n) \/ Refers(texts[u], n) => edited(u)
      BY <1>3, <1>4, <1>6
    <2> HIDE DEF edited
    <2> QED
      BY <2>1, <2>2
  <1>9. {site.uri : site \in r.sites}
           = {u \in Uri : texts[u] # Absent /\ (Declares(texts[u], n) \/ Refers(texts[u], n))}
    <2>1. \A u : u \in {site.uri : site \in r.sites} <=> edited(u)
      OBVIOUS
    <2> HIDE DEF edited
    <2> QED
      BY <1>8, <2>1
  <1> QED
    BY <1>7, <1>9 DEF Covers

(* Of texts that do not have the new name: it is resolved after the edits  *)
(* where it came in, so the declaration is among them.                     *)
LEMMA DeclarationIsEdited ==
  ASSUME NEW r, r.name \in Name, NEW texts,
         \A u \in Uri : texts[u] # Absent =>
            /\ texts[u] \in Text
            /\ ~Declares(texts[u], NewName[r.name]) /\ ~Refers(texts[u], NewName[r.name]),
         NewErrors(texts, r.name, r.sites) = {},
         NEW site \in r.sites, site.uri \in Uri, texts[site.uri] # Absent,
         Declares(texts[site.uri], r.name) \/ Refers(texts[site.uri], r.name)
  PROVE  \E w \in Uri : /\ \E s \in r.sites : s.uri = w
                        /\ texts[w] # Absent /\ Declares(texts[w], r.name)
  <1> DEFINE n == r.name
             u == site.uri
             before == OutlinesOf(texts)
             after == AfterEdits(before, n, r.sites)
             shows == {v \in Uri : texts[v] # Absent}
             edited(v) == \E s \in r.sites : s.uri = v
  <1>1. DOMAIN before = shows /\ DOMAIN after = shows
    BY DEF OutlinesOf, AfterEdits
  <1>2. \A v \in shows :
           /\ before[v] = Outline[texts[v]]
           /\ ~edited(v) => after[v] = Outline[texts[v]]
           /\ edited(v) => /\ after[v].declares = Swap(Outline[texts[v]].declares, n)
                           /\ after[v].refers = Swap(Outline[texts[v]].refers, n)
    BY EditedNames
  <1>3. u \in shows /\ edited(u)
    OBVIOUS
  <1>4. CASE Declares(texts[u], n)
    BY <1>3, <1>4
  <1>5. CASE Refers(texts[u], n)
    <2>1. NewName[n] \in after[u].refers
      BY <1>2, <1>3, <1>5 DEF Swap, Refers
    <2>2. NewName[n] \notin Unresolved(before, u)
      BY <1>2, <1>3 DEF Unresolved, Refers
    <2>3. Unresolved(after, u) \subseteq Unresolved(before, u)
      BY <1>1, <1>3 DEF NewErrors
    <2>4. PICK v \in shows : NewName[n] \in after[v].declares
      BY <1>1, <2>1, <2>2, <2>3 DEF Unresolved
    <2>5. edited(v)
      BY <1>2, <2>4 DEF Declares
    <2>6. n \in Outline[texts[v]].declares
      <3>1. NewName[n] \in Swap(Outline[texts[v]].declares, n)
        BY <1>2, <2>4, <2>5
      <3>2. NewName[n] \notin Outline[texts[v]].declares
        BY DEF Declares
      <3> QED
        BY <3>1, <3>2 DEF Swap
    <2> QED
      BY <2>5, <2>6 DEF Declares
  <1> QED
    BY <1>4, <1>5

(* Although its sites come from an index that lacks uses and changes under *)
(* it, a rename edits every document that has the name, at positions of    *)
(* the texts on screen: one made and answered with nothing on the way, and *)
(* any whose positions and texts are those.                                *)
THEOREM RenamesAreWhole == NamesAreOwn => (ReadSpec => []RenameIsWhole)
<1> SUFFICES ASSUME NamesAreOwn
             PROVE  ReadSpec => []RenameIsWhole
  OBVIOUS
<1>1. SyncTypes /\ AllServed /\ (Saved => Orderly /\ AllAtRest) => RenameIsWhole
  <2> DEFINE texts == [u \in Uri |-> OnScreen(u)]
             shows == {u \in Uri : texts[u] # Absent}
             unused(n) == \A u \in shows : ~Declares(texts[u], n) /\ ~Refers(texts[u], n)
  <2>1. SUFFICES ASSUME SyncTypes, AllServed, Orderly, AllAtRest, Calm,
                        NEW r \in requests, r.kind = "rename", r.stage = "answer"
                 PROVE  /\ r.quiet # 0 /\ r.quiet = version =>
                              /\ MeansCursor(r)
                              /\ Covers(r, texts)
                              /\ \A u \in Workspace : ~Declares(texts[u], NewName[r.name])
                        /\ r.texts = texts /\ ~Misplaced(texts, r.sites)
                              /\ unused(NewName[r.name]) => Covers(r, texts)
    BY DEF RenameIsWhole, Calm, Saved, Steady, Without
  <2>2. /\ r.name \in Name
        /\ Misplaced(r.texts, r.sites) \/ NewErrors(r.texts, r.name, r.sites) = {}
    BY <2>1 DEF AllServed, Served, RequestOK, AnswerOK
  <2>3. /\ r.sites # {}
        /\ \A site \in r.sites :
              /\ site.uri \in Uri /\ site.text \in Text
              /\ site.uri \in Workspace \/ editor[site.uri] # Absent
              /\ Declares(site.text, r.name) \/ Refers(site.text, r.name)
    BY <2>1 DEF AllAtRest, Placed
  <2>4. \A u \in Uri :
           /\ texts[u] # Absent => texts[u] \in Text /\ texts[u] \in Drafts[u]
           /\ u \in Workspace \/ editor[u] # Absent => texts[u] # Absent
    <3>1. \A u \in Uri : editor[u] # Absent =>
             editor[u].text \in Text /\ editor[u].text \in Drafts[u]
      BY <2>1 DEF SyncTypes, TypeOK, Orderly, TextsAreOwn
    <3>2. \A u \in Uri : disk[u] \in Text /\ disk[u] \in Drafts[u]
      BY <2>1 DEF SyncTypes, TypeOK, Orderly, TextsAreOwn
    <3> QED
      BY <3>1, <3>2, AbsentAssumption DEF OnScreen
  <2> HIDE DEF texts, unused, shows
  <2>5. ASSUME ~Misplaced(texts, r.sites)
        PROVE  \A site \in r.sites : texts[site.uri] # Absent /\ site.text = texts[site.uri]
    BY <2>3, <2>4, <2>5 DEF Misplaced
  <2>6. ASSUME r.texts = texts, ~Misplaced(texts, r.sites),
               NEW w \in Uri, \E site \in r.sites : site.uri = w, Declares(texts[w], r.name)
        PROVE  Covers(r, texts)
    <3>1. NewErrors(texts, r.name, r.sites) = {}
      BY <2>2, <2>6
    <3> QED
      BY <2>2, <2>3, <2>4, <2>5, <2>6, <3>1, NothingIsMissed
  <2>7. ASSUME r.texts = texts, ~Misplaced(texts, r.sites), unused(NewName[r.name])
        PROVE  Covers(r, texts)
    <3>1. NewErrors(texts, r.name, r.sites) = {}
      BY <2>2, <2>7
    <3>2. PICK site \in r.sites : TRUE
      BY <2>3
    <3>3. \A u \in Uri : texts[u] # Absent =>
             /\ texts[u] \in Text
             /\ ~Declares(texts[u], NewName[r.name]) /\ ~Refers(texts[u], NewName[r.name])
      BY <2>4, <2>7 DEF unused, shows
    <3>4. /\ site.uri \in Uri /\ texts[site.uri] # Absent
          /\ Declares(texts[site.uri], r.name) \/ Refers(texts[site.uri], r.name)
      BY <2>3, <2>5, <2>7
    <3>5. PICK w \in Uri : /\ \E s \in r.sites : s.uri = w
                           /\ texts[w] # Absent /\ Declares(texts[w], r.name)
      BY <2>2, <3>1, <3>3, <3>4, DeclarationIsEdited
    <3> QED
      BY <2>6, <2>7, <3>5
  <2>8. ASSUME r.quiet = version
        PROVE  /\ MeansCursor(r)
               /\ Covers(r, texts)
               /\ \A u \in Workspace : ~Declares(texts[u], NewName[r.name])
    <3>1. /\ Quiet /\ r.sites = SitesOf(r.name) /\ r.name \in Found(r.cursor)
          /\ ~Taken(r) /\ r.texts = buffers
      BY <2>1, <2>8 DEF AllAtRest, AtRest, Searching, Finds
    <3>2. r.texts = texts
      <4>1. \A u \in Uri : buffers[u] = OnScreen(u)
        BY <2>1, <3>1, TablesAtRest
      <4> QED
        BY <2>1, <3>1, <4>1 DEF texts, SyncTypes, TypeOK
    <3>3. MeansCursor(r) /\ symbols[r.name] # Absent
      BY <2>1, <2>2, <3>1, SearchesMeanTheCursor DEF Orderly
    <3>4. PICK w \in Uri : symbols[r.name].uri = w
      BY <2>1, <2>2, <3>3 DEF SyncTypes, TypeOK
    <3>5. indexed[w] # Absent /\ Declares(buffers[w], r.name)
      BY <2>1, <2>2, <3>1, <3>3, <3>4, SitesAreUses DEF Orderly
    <3>6. \E site \in r.sites : site.uri = w
      BY <2>1, <2>2, <3>1, <3>4, <3>5, SitesAreUses DEF Orderly
    <3>7. \A site \in r.sites : site.text = buffers[site.uri]
      BY <2>1, <2>2, <2>3, <3>1, SitesAreUses DEF Orderly
    <3>8. ~Misplaced(texts, r.sites)
      BY <3>1, <3>2, <3>7 DEF Misplaced
    <3>9. Covers(r, texts)
      BY <2>6, <3>1, <3>2, <3>5, <3>6, <3>8
    <3>10. ASSUME NEW u \in Workspace
           PROVE  ~Declares(texts[u], NewName[r.name])
      <4>1. NewName[r.name] \in Name /\ symbols[NewName[r.name]] = Absent
        BY <2>2, <3>1, ReadersAssumption DEF Taken
      <4>2. u \in Uri /\ indexed[u] # Absent
        BY <2>1, <3>1, TablesAtRest, SyncAssumption
      <4>3. ~Declares(buffers[u], NewName[r.name])
        BY <2>1, <3>1, <4>1, <4>2, SitesAreUses DEF Orderly
      <4> QED
        BY <3>1, <3>2, <4>3
    <3> QED
      BY <3>3, <3>9, <3>10
  <2> QED
    BY <2>7, <2>8
<1> QED
  BY <1>1, RestHolds, PTL
=============================================================================
