-------------------------------- MODULE Install --------------------------------
(***************************************************************************)
(* `deal init` and `deal install`: deal.toml, the clones under .deal/deps, *)
(* deal.lock, and the remotes the clones come from.  One dependency is     *)
(* resolved after the other, in the order of their names, and the lock is  *)
(* written last.  A command may be killed between any two accesses of the  *)
(* disk, and the network may fail it.                                      *)
(*                                                                         *)
(* What a clone contains is libgit2's: all tags, and of the branches only  *)
(* the default one; HEAD is followed, the files of the work tree are not.  *)
(***************************************************************************)
EXTENDS Naturals, Sequences, SequencesExt

CONSTANTS
    DepOrder,       \* the dependency names in the order of the manifest's map
    Url, Accepted,  \* git URLs, and those with an accepted scheme
    Tag, Branch, Default,   \* references a remote may have; its default branch
    Commit,
    Manifests,      \* the contents of deal.toml over a history
    Starter,        \* the manifest `deal init` writes
    Environments,   \* what may happen, one choice per history
    MaxEvents       \* bound on commands, edits and pushes together

CONSTANTS Absent, NoManifest, Invalid, Torn, Broken, EmptyDir

Names == ToSet(DepOrder)
Refs == Tag \cup Branch \cup {"HEAD"}

(* A whole clone: its references, and the commit HEAD is at.               *)
Clones == [refs : [Refs -> Commit \cup {Absent}], head : Commit \cup {Absent}]

(* A manifest's names come in one order, each once; what stands for a      *)
(* directory without a clone is no clone.                                  *)
ASSUME InstallAssumption ==
    /\ DepOrder \in Seq(Names) /\ IsInjective(DepOrder)
    /\ \A m \in (Manifests \cup {Starter}) \ {Invalid} :
          /\ DOMAIN m \subseteq Names
          /\ \A d \in DOMAIN m :
                m[d].kind = "git" => m[d].url \in Url /\ m[d].ref \in Refs
    /\ {Absent, EmptyDir, Broken} \cap Clones = {}

VARIABLES
    environment,    \* the kinds of events of this history
    manifest,       \* deal.toml: NoManifest, Invalid, or name -> declaration
    scaffold,       \* how much of the project directory `deal init` has written
    remote,         \* Url -> reference -> commit
    clone,          \* name -> Absent, EmptyDir, Broken or [refs, head]
    lock,           \* deal.lock: Absent, Torn, or name -> entry
    process,        \* the running command, or how the last one ended
    settled,        \* the last whole install: manifest, lock, clones still there;
                    \* Absent when deal.toml has changed since
    events

install == <<manifest, scaffold, remote, clone, lock, process, settled>>

Without(kinds) == environment \cap kinds = {}

-----------------------------------------------------------------------------
(* Dependency: git, path or registry version, told apart by their keys.    *)
Git(url, ref) == [kind |-> "git", url |-> url, ref |-> ref]
Path(target) == [kind |-> "path", target |-> target]
Version == [kind |-> "version"]

Declared(m) == DOMAIN m
GitDeps(m) == {d \in DOMAIN m : m[d].kind = "git"}

Idle == process.command = "none"
Ended(how) == [command |-> "none", exit |-> how]
Running(command, flag) ==
    [command |-> command, flag |-> flag, stage |-> "start", manifest |-> Absent,
     next |-> 1, packages |-> << >>]

(* The command line; the flag is fmt's --check, or check's directory.      *)
StartCommand(command, flag) ==
    /\ command \in environment
    /\ Idle
    /\ events < MaxEvents
    /\ events' = events + 1
    /\ process' = Running(command, flag)

Fail == process' = Ended("user")

-----------------------------------------------------------------------------
(* run_init: refused in a directory that holds anything; the directories,  *)
(* .gitignore, deal.toml and the starter files follow one another.         *)
InitSteps == <<"directories", "gitignore", "manifest", "model">>

RunInit ==
    /\ StartCommand("init", FALSE)
    /\ UNCHANGED <<environment, manifest, scaffold, remote, clone, lock, settled>>

RefuseNonEmpty ==
    /\ process.command = "init" /\ process.stage = "start"
    /\ IF scaffold > 0 \/ manifest # NoManifest THEN Fail
       ELSE process' = [process EXCEPT !.stage = "write"]
    /\ UNCHANGED <<environment, manifest, scaffold, remote, clone, lock, settled, events>>

InitStep ==
    /\ process.command = "init" /\ process.stage = "write"
    /\ scaffold' = scaffold + 1
    /\ manifest' = IF InitSteps[scaffold + 1] = "manifest" THEN Starter ELSE manifest
    /\ process' = IF scaffold + 1 = Len(InitSteps) THEN Ended("ok") ELSE process
    /\ UNCHANGED <<environment, remote, clone, lock, settled, events>>

-----------------------------------------------------------------------------
(* run_install reads deal.toml for its messages; resolve_all reads it again*)
(* and goes by that copy.                                                  *)
RunInstall ==
    /\ StartCommand("install", FALSE)
    /\ UNCHANGED <<environment, manifest, scaffold, remote, clone, lock, settled>>

ReadManifest ==
    /\ process.command = "install" /\ process.stage = "start"
    /\ IF manifest \in {NoManifest, Invalid} THEN Fail
       ELSE process' = [process EXCEPT !.stage = "resolve", !.manifest = manifest]
    /\ UNCHANGED <<environment, manifest, scaffold, remote, clone, lock, settled, events>>

Current == DepOrder[process.next]
Declaration == process.manifest[Current]

Resolving(kind) ==
    /\ process.command = "install" /\ process.stage = "resolve"
    /\ process.next <= Len(DepOrder)
    /\ Current \in Declared(process.manifest)
    /\ Declaration.kind = kind

Undeclared ==
    /\ process.command = "install" /\ process.stage = "resolve"
    /\ process.next <= Len(DepOrder)
    /\ Current \notin Declared(process.manifest)
    /\ process' = [process EXCEPT !.next = @ + 1]
    /\ UNCHANGED <<environment, manifest, scaffold, remote, clone, lock, settled, events>>

(* A map's insert.                                                         *)
Insert(table, key, value) ==
    [k \in DOMAIN table \cup {key} |-> IF k = key THEN value ELSE table[k]]

Push(entry) == [process EXCEPT !.next = @ + 1, !.packages = Insert(@, Current, entry)]

(* A repository is one whose HEAD file exists, whatever else is missing.   *)
IsRepo(c) == c \notin {Absent, EmptyDir}

(* git clone: every tag, but a local branch only for the default one.      *)
FreshClone(url) ==
    [refs |-> [r \in Refs |-> IF r \in Branch \ {Default} THEN Absent ELSE remote[url][r]],
     head |-> remote[url]["HEAD"]]

SchemeAllowed(url) == url \in Accepted

(* The scheme is checked before anything is touched; a directory without a *)
(* repository is created and cloned into.  A clone that fails leaves the   *)
(* directory it was given.                                                 *)
CloneDep ==
    /\ Resolving("git")
    /\ ~IsRepo(clone[Current])
    /\ IF ~SchemeAllowed(Declaration.url)
       THEN Fail /\ UNCHANGED clone
       ELSE \/ clone' = [clone EXCEPT ![Current] = FreshClone(Declaration.url)]
               /\ UNCHANGED process
            \/ /\ "network" \in environment
               /\ clone' = [clone EXCEPT ![Current] = EmptyDir]
               /\ Fail
    /\ UNCHANGED <<environment, manifest, scaffold, remote, lock, settled, events>>

Entry(commit) == [url |-> Declaration.url, rev |-> commit, ref |-> Declaration.ref]

RefOf(c) == IF Declaration.ref = "HEAD" THEN c.head ELSE c.refs[Declaration.ref]

(* Mutants: an existing clone is fetched; it is resolved but not moved.    *)
FetchAndCheckout ==
    /\ Resolving("git")
    /\ IsRepo(clone[Current])
    /\ LET fresh == FreshClone(Declaration.url)
           commit == RefOf(fresh)
       IN  IF ~SchemeAllowed(Declaration.url) \/ clone[Current] = Broken \/ commit = Absent
           THEN Fail /\ UNCHANGED clone
           ELSE /\ clone' = [clone EXCEPT ![Current] = [fresh EXCEPT !.head = commit]]
                /\ process' = Push(Entry(commit))
    /\ UNCHANGED <<environment, manifest, scaffold, remote, lock, settled, events>>

ResolveOnly ==
    /\ Resolving("git")
    /\ IsRepo(clone[Current])
    /\ LET c == clone[Current]
       IN  IF ~SchemeAllowed(Declaration.url) \/ c = Broken THEN Fail
           ELSE IF RefOf(c) = Absent THEN Fail ELSE process' = Push(Entry(RefOf(c)))
    /\ UNCHANGED <<environment, manifest, scaffold, remote, clone, lock, settled, events>>

(* An existing repository is opened as it is: neither its URL is compared  *)
(* nor anything fetched.  The reference is looked up in it, HEAD detached. *)
CheckoutDep ==
    /\ Resolving("git")
    /\ IsRepo(clone[Current])
    /\ LET c == clone[Current]
           usable == SchemeAllowed(Declaration.url) /\ c # Broken
       IN  \/ /\ usable /\ RefOf(c) # Absent
              /\ clone' = [clone EXCEPT ![Current].head = RefOf(c)]
              /\ process' = Push(Entry(RefOf(c)))
           \/ ~(usable /\ RefOf(c) # Absent) /\ Fail /\ UNCHANGED clone
    /\ UNCHANGED <<environment, manifest, scaffold, remote, lock, settled, events>>

(* A path is refused as written when it is absolute; what it leads to must *)
(* exist and, links followed, not be a system directory.  Nothing is copied. *)
RelativePath(target) == target # "absolute"
NotSystemPath(target) == target # "system"

ResolvePath ==
    /\ Resolving("path")
    /\ LET target == Declaration.target
       IN  IF RelativePath(target) /\ target # "missing" /\ NotSystemPath(target)
           THEN process' = Push(Declaration) ELSE Fail
    /\ UNCHANGED <<environment, manifest, scaffold, remote, clone, lock, settled, events>>

RefuseVersion ==
    /\ Resolving("version")
    /\ Fail
    /\ UNCHANGED <<environment, manifest, scaffold, remote, clone, lock, settled, events>>

(* fs::write: the old lock is truncated, then the new one written.         *)
TruncateLock ==
    /\ process.command = "install" /\ process.stage = "resolve"
    /\ process.next > Len(DepOrder)
    /\ lock' = Torn
    /\ process' = [process EXCEPT !.stage = "write"]
    /\ UNCHANGED <<environment, manifest, scaffold, remote, clone, settled, events>>

WriteLock ==
    /\ process.command = "install" /\ process.stage = "write"
    /\ lock' = process.packages
    /\ settled' = IF manifest # process.manifest THEN Absent
                  ELSE [manifest |-> manifest, lock |-> process.packages, local |-> TRUE]
    /\ process' = Ended("ok")
    /\ UNCHANGED <<environment, manifest, scaffold, remote, clone, events>>

-----------------------------------------------------------------------------
(* The world around the command.                                           *)
Event(kind) ==
    /\ kind \in environment
    /\ events < MaxEvents
    /\ events' = events + 1

EditManifest(m) ==
    /\ Event("manifest")
    /\ manifest # NoManifest
    /\ m # manifest
    /\ manifest' = m
    /\ settled' = Absent
    /\ UNCHANGED <<environment, scaffold, remote, clone, lock, process>>

(* A branch or a tag of a remote moves, and HEAD with the default branch.  *)
PushCommit(url, ref, commit) ==
    /\ Event("push")
    /\ remote[url][ref] # commit
    /\ remote' = [remote EXCEPT ![url] =
          [r \in Refs |-> IF r = ref \/ (r = "HEAD" /\ ref = Default) THEN commit ELSE @[r]]]
    /\ UNCHANGED <<environment, manifest, scaffold, clone, lock, process, settled>>

(* A checkout elsewhere: deal.toml and deal.lock come along, .deal does not*)
FreshCheckout ==
    /\ Event("checkout")
    /\ Idle
    /\ clone' = [d \in Names |-> Absent]
    /\ settled' = IF settled = Absent THEN Absent ELSE [settled EXCEPT !.local = FALSE]
    /\ process' = Ended("none")
    /\ UNCHANGED <<environment, manifest, scaffold, remote, lock>>

(* Killed while cloning, an install leaves a repository with nothing in it.*)
Kill ==
    /\ Event("kill")
    /\ ~Idle
    /\ process' = Ended("killed")
    /\ \/ UNCHANGED clone
       \/ /\ Resolving("git") /\ ~IsRepo(clone[Current]) /\ Declaration.url \in Accepted
          /\ \E left \in {EmptyDir, Broken} : clone' = [clone EXCEPT ![Current] = left]
    /\ UNCHANGED <<environment, manifest, scaffold, remote, lock, settled>>

-----------------------------------------------------------------------------
(* As long as deal.toml stays as the last whole install read it, and the   *)
(* clones are there, the lock describes them: its packages are those of    *)
(* the manifest, and every commit is the one the clone's HEAD is at,       *)
(* whatever older clones and changed declarations that install started     *)
(* from, and whatever installs failed or were killed since.                *)
LockDescribesClones ==
    settled # Absent /\ settled.local /\ lock # Torn =>
        /\ lock = settled.lock
        /\ DOMAIN lock = Declared(settled.manifest)
        /\ \A d \in GitDeps(settled.manifest) :
              IsRepo(clone[d]) /\ clone[d] # Broken /\ lock[d].rev = clone[d].head

(* resolver_test.rs, determinism: as long as deal.toml stays as it is and  *)
(* the clones are there, every install that succeeds writes the lock of    *)
(* the first, wherever the remotes have moved and whatever failed or was   *)
(* killed in between.                                                      *)
InstallIsRepeatable ==
    [][WriteLock /\ settled # Absent /\ settled.local /\ settled.manifest = process.manifest
          => lock' = settled.lock]_<<lock, settled, process>>

(* main.rs:1983 "commit deal.lock to reproduce this build": a checkout that*)
(* comes with a committed lock installs what the lock says.                *)
LockReproducesBuild ==
    [][WriteLock /\ settled # Absent /\ settled.manifest = process.manifest
          => lock' = settled.lock]_<<lock, settled, process>>
=============================================================================
