---------------------------- MODULE CommandsProofs ----------------------------
(***************************************************************************)
(* Proofs about deal install, check, build and fmt.  First deal.toml,      *)
(* deal.lock and the clones, for every set of dependencies, manifests and  *)
(* remotes; then the sources and what is made of them, for every set of    *)
(* files and texts.  All commands run between the user's events, which     *)
(* have no bound, an editor saves between any two steps, and commands are  *)
(* killed.                                                                 *)
(***************************************************************************)
EXTENDS Commands, TLAPS

Whole == (Manifests \cup {Starter}) \ {Invalid, NoManifest}

(* A running command's memory is a record of the fields Running gives it.  *)
IsRunning(p) ==
    /\ p = [command |-> p.command, flag |-> p.flag, stage |-> p.stage,
            manifest |-> p.manifest, next |-> p.next, packages |-> p.packages]
    /\ p.next \in Nat \ {0}

Installing == process.command = "install" /\ process.stage \in {"resolve", "write"}

(* The values deal.toml, the clones and a running install can have; what   *)
(* an install and an init have done at each of their stages.               *)
InstallTypes ==
    /\ manifest \in Manifests \cup {Starter, NoManifest}
    /\ remote \in [Url -> [Refs -> Commit \cup {Absent}]]
    /\ clone \in [Names -> Clones \cup {Absent, EmptyDir, Broken}]
    /\ scaffold \in Nat
    /\ ~Idle => IsRunning(process)
    /\ process.command = "install" =>
          /\ process.stage \in {"start", "resolve", "write"}
          /\ process.stage = "start" => process.next = 1 /\ process.packages = << >>
          /\ process.stage = "write" => process.next > Len(DepOrder)
    /\ Installing =>
          process.manifest \in Whole /\ process.next <= Len(DepOrder) + 1
    /\ process.command = "init" /\ process.stage = "write" =>
          scaffold < 4 /\ (scaffold < 3 => manifest = NoManifest)

(* The dependencies of m before the n-th name: those an install that is    *)
(* there has resolved.                                                     *)
Resolved(m, n) == {d \in Declared(m) : \E i \in 1..(n - 1) : DepOrder[i] = d}

(* The lock entry of a dependency, from its declaration and its clone.     *)
EntryOf(declaration, c) ==
    IF declaration.kind = "git"
    THEN [url |-> declaration.url, rev |-> c.head, ref |-> declaration.ref]
    ELSE declaration

(* HEAD is where the declared reference is: checking it out changes nothing*)
AtItsReference(declaration, c) ==
    declaration.ref # "HEAD" => c.head = c.refs[declaration.ref]

(* The packages are exactly the entries of the dependencies D of m.        *)
Describes(packages, m, D, clones) ==
    /\ packages = [d \in D |-> EntryOf(m[d], clones[d])]
    /\ \A d \in D : m[d].kind = "git" =>
          clones[d] \in Clones /\ AtItsReference(m[d], clones[d])

(* What a running install has resolved is as it will write it.             *)
InstallInProgress ==
    Installing =>
        Describes(process.packages, process.manifest,
                  Resolved(process.manifest, process.next), clone)

(* The last whole install is the state of the project, and an install that *)
(* runs meanwhile goes by the same manifest.                               *)
SettledIsCurrent ==
    settled # Absent =>
        /\ settled = [manifest |-> settled.manifest, lock |-> settled.lock,
                      local |-> settled.local]
        /\ settled.manifest = manifest /\ manifest \in Whole
        /\ Installing => process.manifest = manifest
        /\ lock # Torn => lock = settled.lock
        /\ settled.local => Describes(settled.lock, manifest, Declared(manifest), clone)

-----------------------------------------------------------------------------
(* A running command's record after one of the updates the steps make.     *)
LEMMA StartedIsRunning ==
  ASSUME NEW command, NEW flag
  PROVE  /\ IsRunning(Running(command, flag))
         /\ Running(command, flag).command = command
         /\ Running(command, flag).stage = "start"
         /\ Running(command, flag).next = 1
         /\ Running(command, flag).packages = << >>
  BY DEF Running, IsRunning

LEMMA UpdateIsRunning ==
  ASSUME NEW p, IsRunning(p), NEW s, NEW n \in Nat \ {0}, NEW q,
         \/ q = [p EXCEPT !.stage = s]
         \/ q = [p EXCEPT !.next = n]
         \/ q = [p EXCEPT !.stage = s, !.next = n]
         \/ q = [[p EXCEPT !.next = n] EXCEPT !.stage = s]
  PROVE  IsRunning(q) /\ q.command = p.command
  <1> DEFINE R == [command |-> p.command, flag |-> p.flag, stage |-> p.stage,
                   manifest |-> p.manifest, next |-> p.next, packages |-> p.packages]
  <1>1. p = R /\ p.next \in Nat \ {0}
    BY DEF IsRunning
  <1> QED
    BY <1>1 DEF IsRunning

LEMMA EndedIsIdle ==
  ASSUME NEW how
  PROVE  Ended(how).command = "none"
  BY DEF Ended

(* check, build, parse, fmt and the editor touch nothing of an install.    *)
LEMMA OtherCommands ==
  ASSUME CommandStep, ~Idle => IsRunning(process)
  PROVE  /\ UNCHANGED <<manifest, scaffold, remote, clone, lock, settled>>
         /\ process' = process \/ process'.command \notin {"install", "init"}
         /\ ~Idle' => IsRunning(process')
  <1> DEFINE Driver == {"check", "build", "parse", "fmt"}
             Goal == /\ UNCHANGED <<manifest, scaffold, remote, clone, lock, settled>>
                     /\ process' = process \/ process'.command \notin {"install", "init"}
                     /\ ~Idle' => IsRunning(process')
  <1> SUFFICES Goal
    OBVIOUS
  <1>1. ASSUME process' = process, UNCHANGED <<manifest, scaffold, remote, clone, lock, settled>>
        PROVE  Goal
    BY <1>1 DEF Idle
  <1>2. ASSUME NEW how, process' = Ended(how),
               UNCHANGED <<manifest, scaffold, remote, clone, lock, settled>>
        PROVE  Goal
    BY <1>2, EndedIsIdle DEF Idle
  <1>3. ASSUME NEW s, NEW n \in Nat \ {0}, process.command \in Driver,
               \/ process' = [process EXCEPT !.stage = s]
               \/ process' = [process EXCEPT !.next = n]
               \/ process' = [process EXCEPT !.stage = s, !.next = n]
               \/ process' = [[process EXCEPT !.next = n] EXCEPT !.stage = s],
               UNCHANGED <<manifest, scaffold, remote, clone, lock, settled>>
        PROVE  Goal
    <2>1. IsRunning(process)
      BY <1>3 DEF Idle
    <2>2. IsRunning(process') /\ process'.command = process.command
      BY <1>3, <2>1 DEF IsRunning
    <2> QED
      BY <1>3, <2>2
  <1>o. 1 \in Nat \ {0}
    OBVIOUS
  <1>t. ASSUME NEW s, process.command \in Driver, process' = [process EXCEPT !.stage = s],
               UNCHANGED <<manifest, scaffold, remote, clone, lock, settled>>
        PROVE  Goal
    BY <1>t, <1>3, <1>o
  <1> HIDE DEF Goal
  <1>n. process.command \in Driver => process.next \in Nat \ {0} /\ process.next + 1 \in Nat \ {0}
    BY DEF Idle, IsRunning
  <1>4. ASSUME NEW command \in Driver, NEW flag \in BOOLEAN, RunCommand(command, flag)
        PROVE  Goal
    BY <1>4, StartedIsRunning DEF RunCommand, StartCommand, Goal
  <1>5. CASE PlanLoad
    BY <1>5, <1>2, <1>t DEF PlanLoad, Fail
  <1>6. CASE CacheFile
    BY <1>6, <1>3, <1>n, <1>o DEF CacheFile, AtFile, NextFile
  <1>7. ASSUME NEW command \in Driver, NEW alsoBroken, Analyze(command, alsoBroken)
        PROVE  Goal
    BY <1>7, <1>2, <1>3, <1>n DEF Analyze, AtFile, NextFile
  <1>8. CASE CheckFile \/ BuildFile
    BY <1>7, <1>8 DEF CheckFile, BuildFile
  <1>9. CASE EndCheck \/ EndBuild
    BY <1>9, <1>2, <1>t DEF EndCheck, EndBuild, Finishing, Truncated, Fail
  <1>10. CASE WriteIndex \/ WritePackage
    BY <1>10, <1>2 DEF WriteIndex, WritePackage
  <1>11. CASE ParseFile
    BY <1>11, <1>2, <1>3, <1>n DEF ParseFile, AtFile, NextFile, install
  <1>12. CASE FmtRead
    BY <1>12, <1>2, <1>3, <1>n DEF FmtRead, NextFile, Fail
  <1>13. CASE WriteFileAtomic
    BY <1>13, <1>3, <1>n DEF WriteFileAtomic, NextFile
  <1>14. CASE FilesEnd
    BY <1>14, <1>2 DEF FilesEnd
  <1>15. CASE \E f \in File, t \in Text \cup {Gone} : SaveFile(f, t)
    BY <1>15, <1>1 DEF SaveFile, install
  <1> QED
    BY <1>4, <1>5, <1>6, <1>8, <1>9, <1>10, <1>11, <1>12, <1>13, <1>14, <1>15, Zenon
    DEF CommandStep, Goal

-----------------------------------------------------------------------------
(* The steps of an install and of the world around it.                     *)
LEMMA Steps ==
  ASSUME [Next]_allvars
  PROVE  \/ RunInit \/ RefuseNonEmpty \/ InitStep
         \/ RunInstall \/ ReadManifest \/ Undeclared \/ CloneDep \/ CheckoutDep
         \/ ResolvePath \/ RefuseVersion \/ TruncateLock \/ WriteLock
         \/ FreshCheckout \/ Kill
         \/ \E m \in Manifests : EditManifest(m)
         \/ \E url \in Url, ref \in Tag \cup Branch, commit \in Commit :
               PushCommit(url, ref, commit)
         \/ CommandStep
         \/ UNCHANGED install
  BY Zenon DEF Next, allvars

(* A fresh clone is a clone, whatever references the remote has.           *)
LEMMA FreshCloneIsClone ==
  ASSUME InstallTypes, NEW url \in Url
  PROVE  FreshClone(url) \in Clones
  BY DEF InstallTypes, FreshClone, Clones, Refs

(* What Resolving finds: an install at a declared name.                    *)
LEMMA CurrentIsDeclared ==
  ASSUME InstallTypes, NEW kind, Resolving(kind)
  PROVE  /\ Installing /\ process.stage = "resolve" /\ IsRunning(process)
         /\ process.manifest \in Whole
         /\ process.next \in 1..Len(DepOrder)
         /\ Current \in Names /\ Current \in DOMAIN process.manifest
         /\ Declaration = process.manifest[Current] /\ Declaration.kind = kind
         /\ kind = "git" => Declaration.url \in Url /\ Declaration.ref \in Refs
  <1>1. Len(DepOrder) \in Nat /\ DOMAIN DepOrder = 1..Len(DepOrder)
    BY InstallAssumption
  <1>2. /\ process.command = "install" /\ process.stage = "resolve"
        /\ process.next <= Len(DepOrder)
        /\ Current \in DOMAIN process.manifest /\ Declaration.kind = kind
    BY DEF Resolving, Declared
  <1>3. Installing /\ IsRunning(process) /\ process.manifest \in Whole
    BY <1>2 DEF InstallTypes, Installing, Idle
  <1>4. process.next \in 1..Len(DepOrder)
    BY <1>1, <1>2, <1>3 DEF IsRunning
  <1>5. Current \in Names
    BY <1>1, <1>4 DEF Current, Names, ToSet
  <1>6. kind = "git" => Declaration.url \in Url /\ Declaration.ref \in Refs
    BY <1>2, <1>3, InstallAssumption DEF Declaration, Whole
  <1> QED
    BY <1>2, <1>3, <1>4, <1>5, <1>6 DEF Declaration

LEMMA CheckedOutIsClone ==
  ASSUME NEW c \in Clones, Declaration.ref \in Refs
  PROVE  /\ RefOf(c) \in Commit \cup {Absent}
         /\ [c EXCEPT !.head = RefOf(c)] \in Clones
  BY DEF Clones, RefOf

(* The place of an install after it has resolved one more dependency.      *)
LEMMA PushIsRunning ==
  ASSUME InstallTypes, NEW kind, Resolving(kind), NEW entry
  PROVE  /\ IsRunning(Push(entry))
         /\ Push(entry).command = "install" /\ Push(entry).stage = "resolve"
         /\ Push(entry).manifest = process.manifest
         /\ Push(entry).next = process.next + 1
         /\ Push(entry).packages = Insert(process.packages, Current, entry)
  <1>1. /\ process = [command |-> process.command, flag |-> process.flag,
                      stage |-> process.stage, manifest |-> process.manifest,
                      next |-> process.next, packages |-> process.packages]
        /\ process.next \in Nat \ {0}
        /\ process.command = "install" /\ process.stage = "resolve"
    BY CurrentIsDeclared DEF IsRunning, Resolving
  <1> DEFINE q == Push(entry)
  <1>3. q = [process EXCEPT !.next = process.next + 1,
                            !.packages = Insert(process.packages, Current, entry)]
    BY DEF Push
  <1> HIDE DEF q
  <1>4. /\ q.command = process.command /\ q.stage = process.stage
        /\ q.manifest = process.manifest /\ q.next = process.next + 1
        /\ q.packages = Insert(process.packages, Current, entry)
    BY <1>1, <1>3
  <1>5. q = [command |-> q.command, flag |-> q.flag, stage |-> q.stage,
             manifest |-> q.manifest, next |-> q.next, packages |-> q.packages]
    BY <1>1, <1>3
  <1>6. q.next \in Nat \ {0}
    BY <1>1, <1>4
  <1> QED
    BY <1>1, <1>4, <1>5, <1>6 DEF IsRunning, q

(* Once the command has ended only the files have to be of their types.    *)
LEMMA EndedTypes ==
  ASSUME process'.command = "none",
         manifest' \in Manifests \cup {Starter, NoManifest},
         remote' \in [Url -> [Refs -> Commit \cup {Absent}]],
         clone' \in [Names -> Clones \cup {Absent, EmptyDir, Broken}],
         scaffold' \in Nat
  PROVE  InstallTypes'
  BY DEF InstallTypes, Idle, Installing

LEMMA InstallTypesHold == Spec => []InstallTypes
<1>1. Init => InstallTypes
  BY EndedIsIdle DEF Init, Start, InstallTypes, Idle, Installing
<1>2. InstallTypes /\ [Next]_allvars => InstallTypes'
  <2> SUFFICES ASSUME InstallTypes, [Next]_allvars
               PROVE  InstallTypes'
    OBVIOUS
  <2>f. /\ manifest \in Manifests \cup {Starter, NoManifest}
        /\ remote \in [Url -> [Refs -> Commit \cup {Absent}]]
        /\ clone \in [Names -> Clones \cup {Absent, EmptyDir, Broken}]
        /\ scaffold \in Nat
    BY DEF InstallTypes
  <2>n. ASSUME Fail \/ \E how : process' = Ended(how)
        PROVE  process'.command = "none"
    BY <2>n, EndedIsIdle DEF Fail
  <2>1. CASE RunInit \/ RunInstall
    <3>1. PICK command \in {"init", "install"} : process' = Running(command, FALSE)
      BY <2>1 DEF RunInit, RunInstall, StartCommand
    <3>2. UNCHANGED <<manifest, remote, clone, scaffold>>
      BY <2>1 DEF RunInit, RunInstall
    <3> QED
      BY <2>f, <3>1, <3>2, StartedIsRunning DEF InstallTypes, Installing
  <2>2. CASE RefuseNonEmpty
    <3>1. CASE Fail
      BY <2>2, <2>f, <2>n, <3>1, EndedTypes DEF RefuseNonEmpty
    <3>2. CASE ~(scaffold > 0 \/ manifest # NoManifest)
      <4>1. IsRunning(process) /\ process.command = "init"
        BY <2>2 DEF RefuseNonEmpty, InstallTypes, Idle
      <4>2. process' = [process EXCEPT !.stage = "write"]
        BY <2>2, <3>2 DEF RefuseNonEmpty
      <4>3. IsRunning(process') /\ process'.command = "init" /\ process'.stage = "write"
        BY <4>1, <4>2 DEF IsRunning
      <4> QED
        BY <2>2, <2>f, <3>2, <4>3 DEF RefuseNonEmpty, InstallTypes, Installing
    <3> QED
      BY <2>2, <3>1, <3>2 DEF RefuseNonEmpty
  <2>3. CASE InitStep
    <3>1. scaffold \in 0..3 /\ scaffold' = scaffold + 1
      BY <2>3 DEF InitStep, InstallTypes
    <3>2. manifest' = IF scaffold = 2 THEN Starter ELSE manifest
      BY <2>3, <3>1 DEF InitStep, InitSteps
    <3>3. process' = IF scaffold = 3 THEN Ended("ok") ELSE process
      BY <2>3, <3>1 DEF InitStep, InitSteps
    <3>4. UNCHANGED <<remote, clone>>
      BY <2>3 DEF InitStep
    <3>5. CASE scaffold = 3
      BY <2>f, <3>1, <3>2, <3>3, <3>4, <3>5, EndedIsIdle, EndedTypes
    <3>6. CASE scaffold # 3
      BY <2>3, <2>f, <3>1, <3>2, <3>3, <3>4, <3>6 DEF InitStep, InstallTypes, Installing, Idle
    <3> QED
      BY <3>5, <3>6
  <2>4. CASE ReadManifest
    <3>1. CASE manifest \in {NoManifest, Invalid}
      BY <2>4, <2>f, <2>n, <3>1, EndedTypes DEF ReadManifest
    <3>2. CASE manifest \notin {NoManifest, Invalid}
      <4>1. IsRunning(process) /\ process.command = "install" /\ process.next = 1
        BY <2>4 DEF ReadManifest, InstallTypes, Idle
      <4>2. process' = [process EXCEPT !.stage = "resolve", !.manifest = manifest]
        BY <2>4, <3>2 DEF ReadManifest
      <4>3. /\ IsRunning(process') /\ process'.command = "install"
            /\ process'.stage = "resolve" /\ process'.manifest = manifest
            /\ process'.next = 1
        BY <4>1, <4>2 DEF IsRunning
      <4>4. manifest \in Whole /\ 1 <= Len(DepOrder) + 1
        BY <2>f, <3>2, InstallAssumption DEF Whole
      <4> QED
        BY <2>4, <2>f, <4>3, <4>4 DEF ReadManifest, InstallTypes, Installing
    <3> QED
      BY <3>1, <3>2
  <2>5. ASSUME process.command = "install", process.stage = "resolve",
               process.next <= Len(DepOrder),
               /\ IsRunning(process') /\ process'.command = "install"
               /\ process'.stage = "resolve" /\ process'.manifest = process.manifest
               /\ process'.next = process.next + 1,
               UNCHANGED <<manifest, remote, scaffold>>,
               clone' \in [Names -> Clones \cup {Absent, EmptyDir, Broken}]
        PROVE  InstallTypes'
    <3>1. process.manifest \in Whole /\ process.next \in Nat /\ Len(DepOrder) \in Nat
      BY <2>5, InstallAssumption DEF InstallTypes, Installing, Idle, IsRunning
    <3> QED
      BY <2>5, <2>f, <3>1 DEF InstallTypes, Installing
  <2>6. CASE Undeclared
    <3>1. IsRunning(process) /\ process.command = "install" /\ process.stage = "resolve"
      BY <2>6 DEF Undeclared, InstallTypes, Idle
    <3>2. process' = [process EXCEPT !.next = process.next + 1]
      BY <2>6 DEF Undeclared
    <3>3. /\ IsRunning(process') /\ process'.command = "install"
          /\ process'.stage = "resolve" /\ process'.manifest = process.manifest
          /\ process'.next = process.next + 1
      BY <3>1, <3>2 DEF IsRunning
    <3> QED
      BY <2>5, <2>6, <2>f, <3>3 DEF Undeclared
  <2>7. CASE CloneDep
    <3>1. clone' \in [Names -> Clones \cup {Absent, EmptyDir, Broken}]
      BY <2>7, <2>f, CurrentIsDeclared, FreshCloneIsClone DEF CloneDep
    <3>2. process' = process \/ process'.command = "none"
      BY <2>7, <2>n DEF CloneDep
    <3>3. CASE process' = process
      BY <2>7, <3>1, <3>3 DEF CloneDep, InstallTypes, Installing, Idle
    <3>4. CASE process'.command = "none"
      BY <2>7, <2>f, <3>1, <3>4, EndedTypes DEF CloneDep
    <3> QED
      BY <3>2, <3>3, <3>4
  <2>8. CASE CheckoutDep
    <3>1. CASE Fail /\ UNCHANGED clone
      BY <2>8, <2>f, <2>n, <3>1, EndedTypes DEF CheckoutDep
    <3>2. CASE ~(Fail /\ UNCHANGED clone)
      <4> DEFINE c == clone[Current]
      <4>1. /\ Resolving("git")
            /\ IsRepo(c) /\ c # Broken
            /\ clone' = [clone EXCEPT ![Current].head = RefOf(c)]
            /\ process' = Push(Entry(RefOf(c)))
        BY <2>8, <3>2, Zenon DEF CheckoutDep
      <4>2. Current \in Names /\ Declaration.ref \in Refs
        BY <4>1, CurrentIsDeclared
      <4>3. c \in Clones
        BY <2>f, <4>1, <4>2 DEF IsRepo
      <4>4. clone' = [clone EXCEPT ![Current] = [c EXCEPT !.head = RefOf(c)]]
        BY <4>1
      <4>5. clone' \in [Names -> Clones \cup {Absent, EmptyDir, Broken}]
        BY <2>f, <4>2, <4>3, <4>4, CheckedOutIsClone
      <4> QED
        BY <2>5, <2>8, <4>1, <4>5, PushIsRunning DEF CheckoutDep, Resolving
    <3> QED
      BY <3>1, <3>2
  <2>9. CASE ResolvePath
    <3>1. CASE Fail
      BY <2>9, <2>f, <2>n, <3>1, EndedTypes DEF ResolvePath
    <3>2. CASE process' = Push(Declaration)
      BY <2>5, <2>9, <2>f, <3>2, PushIsRunning DEF ResolvePath, Resolving
    <3> QED
      BY <2>9, <3>1, <3>2 DEF ResolvePath
  <2>10. CASE RefuseVersion
    BY <2>10, <2>f, <2>n, EndedTypes DEF RefuseVersion
  <2>11. CASE TruncateLock
    <3>1. /\ IsRunning(process) /\ process.manifest \in Whole
          /\ process.next <= Len(DepOrder) + 1
          /\ process.command = "install" /\ process.next > Len(DepOrder)
      BY <2>11 DEF TruncateLock, InstallTypes, Installing, Idle
    <3>2. process' = [process EXCEPT !.stage = "write"]
      BY <2>11 DEF TruncateLock
    <3>3. /\ IsRunning(process') /\ process'.command = "install"
          /\ process'.stage = "write" /\ process'.manifest = process.manifest
          /\ process'.next = process.next
      BY <3>1, <3>2 DEF IsRunning
    <3> QED
      BY <2>11, <2>f, <3>1, <3>3 DEF TruncateLock, InstallTypes, Installing
  <2>12. CASE WriteLock
    BY <2>12, <2>f, <2>n, EndedTypes DEF WriteLock
  <2>13. CASE FreshCheckout
    <3>1. clone' \in [Names -> Clones \cup {Absent, EmptyDir, Broken}]
      BY <2>13 DEF FreshCheckout
    <3> QED
      BY <2>13, <2>f, <2>n, <3>1, EndedTypes DEF FreshCheckout
  <2>14. CASE Kill
    <3>1. clone' \in [Names -> Clones \cup {Absent, EmptyDir, Broken}]
      BY <2>14, <2>f DEF Kill
    <3> QED
      BY <2>14, <2>f, <2>n, <3>1, EndedTypes DEF Kill
  <2>15. CASE \E m \in Manifests : EditManifest(m)
    BY <2>15 DEF EditManifest, InstallTypes, Installing, Idle
  <2>16. CASE \E url \in Url, ref \in Tag \cup Branch, commit \in Commit :
                 PushCommit(url, ref, commit)
    <3>1. PICK url \in Url, ref \in Tag \cup Branch, commit \in Commit :
                 PushCommit(url, ref, commit)
      BY <2>16
    <3>2. remote' \in [Url -> [Refs -> Commit \cup {Absent}]]
      BY <2>f, <3>1 DEF PushCommit, Refs
    <3> QED
      BY <3>1, <3>2 DEF PushCommit, InstallTypes, Installing, Idle
  <2>17. CASE CommandStep
    <3>1. ~Idle => IsRunning(process)
      BY DEF InstallTypes
    <3>2. /\ UNCHANGED <<manifest, scaffold, remote, clone>>
          /\ process' = process \/ process'.command \notin {"install", "init"}
          /\ ~Idle' => IsRunning(process')
      BY <2>17, <3>1, OtherCommands
    <3> QED
      BY <3>2 DEF InstallTypes, Installing
  <2>18. CASE UNCHANGED install
    BY <2>18 DEF install, InstallTypes, Installing, Idle
  <2> QED
    BY <2>1, <2>2, <2>3, <2>4, <2>6, <2>7, <2>8, <2>9, <2>10, <2>11, <2>12, <2>13,
       <2>14, <2>15, <2>16, <2>17, <2>18, Steps
<1> QED
  BY <1>1, <1>2, PTL DEF Spec

-----------------------------------------------------------------------------
LEMMA ClonesKept ==
  ASSUME NEW packages, NEW m, NEW D, NEW before, NEW after,
         Describes(packages, m, D, before),
         \A d \in D : m[d].kind = "git" => after[d] = before[d]
  PROVE  Describes(packages, m, D, after)
  <1>1. \A d \in D : EntryOf(m[d], after[d]) = EntryOf(m[d], before[d])
    BY DEF EntryOf
  <1> QED
    BY <1>1 DEF Describes

LEMMA OneMoreResolved ==
  ASSUME NEW packages, NEW m, NEW D, NEW before, NEW after, NEW x, x \notin D,
         Describes(packages, m, D, before),
         \A d \in D : after[d] = before[d],
         m[x].kind = "git" => after[x] \in Clones /\ AtItsReference(m[x], after[x])
  PROVE  Describes(Insert(packages, x, EntryOf(m[x], after[x])), m, D \cup {x}, after)
  <1>1. Describes(packages, m, D, after)
    BY ClonesKept
  <1>2. packages = [d \in D |-> EntryOf(m[d], after[d])]
    BY <1>1 DEF Describes
  <1>3. Insert(packages, x, EntryOf(m[x], after[x]))
           = [d \in D \cup {x} |-> EntryOf(m[d], after[d])]
    BY <1>2 DEF Insert
  <1> QED
    BY <1>1, <1>3 DEF Describes

(* An install goes through the names in order, each once, to the last.     *)
LEMMA ResolvedGrows ==
  ASSUME NEW m, NEW n \in 1..Len(DepOrder)
  PROVE  /\ DepOrder[n] \notin Resolved(m, n)
         /\ DepOrder[n] \in Declared(m) =>
               Resolved(m, n + 1) = Resolved(m, n) \cup {DepOrder[n]}
         /\ DepOrder[n] \notin Declared(m) => Resolved(m, n + 1) = Resolved(m, n)
  <1>1. DOMAIN DepOrder = 1..Len(DepOrder) /\ Len(DepOrder) \in Nat
    BY InstallAssumption
  <1>2. \A i \in 1..(n - 1) : DepOrder[i] # DepOrder[n]
    BY <1>1, InstallAssumption DEF IsInjective
  <1>3. 1..((n + 1) - 1) = 1..(n - 1) \cup {n}
    BY <1>1
  <1> QED
    BY <1>2, <1>3 DEF Resolved

LEMMA AllAreResolved ==
  ASSUME NEW m \in Whole, NEW n \in Nat, n > Len(DepOrder)
  PROVE  Resolved(m, n) = Declared(m)
  <1>1. DOMAIN DepOrder = 1..Len(DepOrder) /\ Len(DepOrder) \in Nat
    BY InstallAssumption
  <1>2. Declared(m) \subseteq Names
    BY InstallAssumption DEF Whole, Declared
  <1>3. \A d \in Names : \E i \in 1..(n - 1) : DepOrder[i] = d
    <2>1. \A d \in Names : \E i \in 1..Len(DepOrder) : DepOrder[i] = d
      BY <1>1 DEF Names, ToSet
    <2>2. 1..Len(DepOrder) \subseteq 1..(n - 1)
      BY <1>1
    <2> QED
      BY <2>1, <2>2
  <1> QED
    BY <1>2, <1>3 DEF Resolved

(* As long as the clones of the last whole install are there, an install   *)
(* of the same manifest clones nothing and moves no HEAD.                  *)
LEMMA SettledClonesStay ==
  ASSUME InstallTypes, SettledIsCurrent, settled # Absent, settled.local,
         Resolving("git")
  PROVE  /\ IsRepo(clone[Current])
         /\ RefOf(clone[Current]) = clone[Current].head
  <1>1. process.manifest = manifest /\ Current \in DOMAIN manifest
    BY CurrentIsDeclared DEF SettledIsCurrent
  <1>2. manifest[Current].kind = "git" /\ Declaration = manifest[Current]
    BY <1>1, CurrentIsDeclared
  <1>3. clone[Current] \in Clones /\ AtItsReference(manifest[Current], clone[Current])
    BY <1>1, <1>2 DEF SettledIsCurrent, Describes, Declared
  <1> QED
    BY <1>2, <1>3, InstallAssumption DEF IsRepo, RefOf, AtItsReference

-----------------------------------------------------------------------------
(* What a running install has resolved stays described by the clones.      *)
LEMMA ProgressKept ==
  ASSUME InstallTypes, InstallTypes', InstallInProgress, [Next]_allvars
  PROVE  InstallInProgress'
  <1> SUFFICES ASSUME Installing'
               PROVE  InstallInProgress'
    BY DEF InstallInProgress
  <1>e. ASSUME NEW how, process' = Ended(how)
        PROVE  FALSE
    BY <1>e, EndedIsIdle DEF Installing
  <1>1. ASSUME process' = process, clone' = clone
        PROVE  InstallInProgress'
    BY <1>1 DEF InstallInProgress, Installing
  <1>2. ASSUME Installing, IsRunning(process), process.next \in 1..Len(DepOrder),
               process'.manifest = process.manifest, process'.next = process.next + 1,
               Current \in Declared(process.manifest),
               process'.packages = Insert(process.packages, Current,
                                          EntryOf(Declaration, clone'[Current])),
               \A d \in Names \ {Current} : clone'[d] = clone[d],
               Declaration.kind = "git" =>
                  clone'[Current] \in Clones /\ AtItsReference(Declaration, clone'[Current])
        PROVE  InstallInProgress'
    <2> DEFINE m == process.manifest
               n == process.next
    <2>1. Describes(process.packages, m, Resolved(m, n), clone)
      BY <1>2 DEF InstallInProgress
    <2>2. Current \notin Resolved(m, n) /\ Resolved(m, n + 1) = Resolved(m, n) \cup {Current}
      BY <1>2, ResolvedGrows DEF Current
    <2>3. \A d \in Resolved(m, n) : clone'[d] = clone[d]
      <3>1. Resolved(m, n) \subseteq Names
        <4>1. m \in Whole
          BY <1>2 DEF InstallTypes
        <4> QED
          BY <4>1, InstallAssumption DEF Whole, Resolved, Declared
      <3> QED
        BY <1>2, <2>2, <3>1
    <2>4. Describes(Insert(process.packages, Current, EntryOf(m[Current], clone'[Current])),
                    m, Resolved(m, n) \cup {Current}, clone')
      BY <1>2, <2>1, <2>2, <2>3, OneMoreResolved DEF Declaration
    <2> QED
      BY <1>2, <2>2, <2>4 DEF InstallInProgress, Declaration
  <1>3. CASE RunInit \/ RunInstall
    <2>1. process' \in {Running("init", FALSE), Running("install", FALSE)}
      BY <1>3 DEF RunInit, RunInstall, StartCommand
    <2>2. process'.stage = "start"
      BY <2>1 DEF Running
    <2> QED
      BY <2>2 DEF Installing
  <1>4. CASE RefuseNonEmpty
    <2>1. process' = [process EXCEPT !.stage = "write"]
      BY <1>4, <1>e DEF RefuseNonEmpty, Fail
    <2>2. IsRunning(process) /\ process.command = "init"
      BY <1>4 DEF RefuseNonEmpty, InstallTypes, Idle
    <2> QED
      BY <2>1, <2>2 DEF Installing, IsRunning
  <1>5. CASE InitStep
    <2>1. process' = process
      BY <1>5, <1>e DEF InitStep
    <2> QED
      BY <1>1, <1>5, <2>1 DEF InitStep
  <1>6. CASE ReadManifest
    <2>1. /\ IsRunning(process) /\ process.next = 1 /\ process.packages = << >>
      BY <1>6 DEF ReadManifest, InstallTypes, Idle
    <2>2. process' = [process EXCEPT !.stage = "resolve", !.manifest = manifest]
      BY <1>6, <1>e DEF ReadManifest, Fail
    <2>3. process'.next = 1 /\ process'.packages = << >>
      BY <2>1, <2>2 DEF IsRunning
    <2>4. Resolved(process'.manifest, 1) = {}
      BY DEF Resolved
    <2>5. << >> = [d \in {} |-> EntryOf(process'.manifest[d], clone'[d])]
      OBVIOUS
    <2> QED
      BY <2>3, <2>4, <2>5 DEF InstallInProgress, Describes
  <1>7. CASE Undeclared
    <2>1. /\ IsRunning(process) /\ Installing /\ process.next \in 1..Len(DepOrder)
          /\ clone' = clone /\ Current \notin Declared(process.manifest)
      BY <1>7, InstallAssumption
      DEF Undeclared, InstallTypes, Idle, Installing, IsRunning
    <2>2. process' = [process EXCEPT !.next = process.next + 1]
      BY <1>7 DEF Undeclared
    <2>3. /\ process'.manifest = process.manifest /\ process'.packages = process.packages
          /\ process'.next = process.next + 1
      BY <2>1, <2>2 DEF IsRunning
    <2> QED
      BY <2>1, <2>3, ResolvedGrows DEF InstallInProgress, Current
  <1>8. CASE CloneDep
    <2>1. process' = process /\ Resolving("git")
      BY <1>8, <1>e DEF CloneDep, Fail
    <2>2. \A d \in Names \ {Current} : clone'[d] = clone[d]
      BY <1>8 DEF CloneDep, InstallTypes
    <2>3. /\ Installing /\ process.next \in 1..Len(DepOrder)
          /\ process.manifest \in Whole
      BY <2>1, CurrentIsDeclared
    <2>4. \A d \in Resolved(process.manifest, process.next) : d \in Names \ {Current}
      BY <2>3, ResolvedGrows, InstallAssumption DEF Current, Whole, Resolved, Declared
    <2> QED
      BY <2>1, <2>2, <2>3, <2>4, ClonesKept DEF InstallInProgress
  <1>9. CASE CheckoutDep
    <2> DEFINE c == clone[Current]
               moved == [c EXCEPT !.head = RefOf(c)]
    <2>1. /\ Resolving("git") /\ IsRepo(c) /\ c # Broken
          /\ clone' = [clone EXCEPT ![Current] = moved]
          /\ process' = Push(Entry(RefOf(c)))
      BY <1>9, <1>e, Zenon DEF CheckoutDep, Fail
    <2>2. /\ Installing /\ IsRunning(process) /\ process.next \in 1..Len(DepOrder)
          /\ Current \in Names /\ Current \in Declared(process.manifest)
          /\ Declaration.kind = "git"
      BY <2>1, CurrentIsDeclared DEF Declared
    <2>3. c \in Clones
      BY <2>1, <2>2 DEF InstallTypes, IsRepo
    <2>4. /\ clone'[Current] = moved
          /\ \A d \in Names \ {Current} : clone'[d] = clone[d]
      BY <2>1, <2>2 DEF InstallTypes
    <2>5. moved.head = RefOf(c) /\ moved.refs = c.refs
      BY <2>3 DEF Clones
    <2>6. moved \in Clones
      BY <2>1, <2>3, CurrentIsDeclared, CheckedOutIsClone
    <2>7. AtItsReference(Declaration, moved)
      BY <2>5 DEF AtItsReference, RefOf
    <2>8. Entry(RefOf(c)) = EntryOf(Declaration, moved)
      BY <2>2, <2>5 DEF Entry, EntryOf
    <2>9. /\ process'.manifest = process.manifest /\ process'.next = process.next + 1
          /\ process'.packages = Insert(process.packages, Current, Entry(RefOf(c)))
      BY <2>1, PushIsRunning
    <2> QED
      BY <1>2, <2>2, <2>4, <2>6, <2>7, <2>8, <2>9
  <1>10. CASE ResolvePath
    <2>1. Resolving("path") /\ process' = Push(Declaration) /\ clone' = clone
      BY <1>10, <1>e DEF ResolvePath, Fail
    <2>2. /\ Installing /\ IsRunning(process) /\ process.next \in 1..Len(DepOrder)
          /\ Current \in Declared(process.manifest) /\ Declaration.kind = "path"
      BY <2>1, CurrentIsDeclared DEF Declared
    <2>3. /\ process'.manifest = process.manifest /\ process'.next = process.next + 1
          /\ process'.packages = Insert(process.packages, Current, Declaration)
      BY <2>1, PushIsRunning
    <2>4. Declaration = EntryOf(Declaration, clone'[Current])
      BY <2>2 DEF EntryOf
    <2> QED
      BY <1>2, <2>1, <2>2, <2>3, <2>4
  <1>11. CASE RefuseVersion \/ WriteLock \/ FreshCheckout \/ Kill
    BY <1>11, <1>e DEF RefuseVersion, WriteLock, FreshCheckout, Kill, Fail
  <1>12. CASE TruncateLock
    <2>1. IsRunning(process) /\ Installing /\ clone' = clone
      BY <1>12 DEF TruncateLock, InstallTypes, Idle, Installing
    <2>2. process' = [process EXCEPT !.stage = "write"]
      BY <1>12 DEF TruncateLock
    <2>3. /\ process'.manifest = process.manifest /\ process'.packages = process.packages
          /\ process'.next = process.next
      BY <2>1, <2>2 DEF IsRunning
    <2> QED
      BY <2>1, <2>3 DEF InstallInProgress
  <1>13. CASE \/ \E m \in Manifests : EditManifest(m)
              \/ \E url \in Url, ref \in Tag \cup Branch, commit \in Commit :
                    PushCommit(url, ref, commit)
    BY <1>1, <1>13 DEF EditManifest, PushCommit
  <1>14. CASE CommandStep
    <2>1. process' = process /\ clone' = clone
      BY <1>14, OtherCommands DEF InstallTypes, Installing
    <2> QED
      BY <1>1, <2>1
  <1>15. CASE UNCHANGED install
    BY <1>1, <1>15 DEF install
  <1> QED
    BY <1>3, <1>4, <1>5, <1>6, <1>7, <1>8, <1>9, <1>10, <1>11, <1>12, <1>13, <1>14,
       <1>15, Steps

(* The last whole install stays the state of the project.                  *)
LEMMA SettledKept ==
  ASSUME InstallTypes, InstallTypes', InstallInProgress, SettledIsCurrent, [Next]_allvars
  PROVE  SettledIsCurrent'
  <1> SUFFICES ASSUME settled' # Absent
               PROVE  SettledIsCurrent'
    BY DEF SettledIsCurrent
  <1>1. ASSUME settled' = settled, manifest' = manifest,
               Installing' => process'.manifest = manifest
                              \/ (Installing /\ process'.manifest = process.manifest),
               lock' = lock \/ lock' = Torn,
               settled.local => \A d \in Declared(manifest) :
                  manifest[d].kind = "git" => clone'[d] = clone[d]
        PROVE  SettledIsCurrent'
    <2>1. settled.local => Describes(settled.lock, manifest, Declared(manifest), clone')
      BY <1>1, ClonesKept DEF SettledIsCurrent
    <2> QED
      BY <1>1, <2>1 DEF SettledIsCurrent
  <1>e. ASSUME NEW how, process' = Ended(how)
        PROVE  ~Installing'
    BY <1>e, EndedIsIdle DEF Installing
  <1>3. CASE RunInit \/ RunInstall
    <2>1. process' \in {Running("init", FALSE), Running("install", FALSE)}
      BY <1>3 DEF RunInit, RunInstall, StartCommand
    <2>2. ~Installing'
      BY <2>1, StartedIsRunning DEF Installing
    <2> QED
      BY <1>1, <1>3, <2>2 DEF RunInit, RunInstall
  <1>4. CASE RefuseNonEmpty
    <2>1. IsRunning(process) /\ process.command = "init"
      BY <1>4 DEF RefuseNonEmpty, InstallTypes, Idle
    <2>2. process' = [process EXCEPT !.stage = "write"] => ~Installing'
      BY <2>1 DEF Installing, IsRunning
    <2> QED
      BY <1>1, <1>4, <1>e, <2>2 DEF RefuseNonEmpty, Fail
  <1>5. CASE InitStep
    <2>1. manifest' = manifest
      BY <1>5 DEF InitStep, InitSteps, InstallTypes, SettledIsCurrent, Whole
    <2>2. ~Installing'
      BY <1>5, <1>e DEF InitStep, Installing
    <2> QED
      BY <1>1, <1>5, <2>1, <2>2 DEF InitStep
  <1>6. CASE ReadManifest
    <2>1. IsRunning(process)
      BY <1>6 DEF ReadManifest, InstallTypes, Idle
    <2>2. process' = [process EXCEPT !.stage = "resolve", !.manifest = manifest]
             => process'.manifest = manifest
      BY <2>1 DEF IsRunning
    <2> QED
      BY <1>1, <1>6, <1>e, <2>2 DEF ReadManifest, Fail
  <1>7. CASE Undeclared
    <2>1. IsRunning(process) /\ Installing
      BY <1>7 DEF Undeclared, InstallTypes, Idle, Installing
    <2>2. process'.manifest = process.manifest
      BY <1>7, <2>1 DEF Undeclared, IsRunning
    <2> QED
      BY <1>1, <1>7, <2>1, <2>2 DEF Undeclared
  <1>8. CASE CloneDep
    <2>1. Resolving("git") /\ Installing
      BY <1>8, CurrentIsDeclared DEF CloneDep
    <2>2. ~settled.local
      BY <1>8, <2>1, SettledClonesStay DEF CloneDep
    <2>3. process' = process \/ ~Installing'
      BY <1>8, <1>e DEF CloneDep, Fail
    <2> QED
      BY <1>1, <1>8, <2>1, <2>2, <2>3 DEF CloneDep
  <1>9. CASE CheckoutDep
    <2> DEFINE c == clone[Current]
    <2>1. Resolving("git") /\ Installing /\ Current \in Names
      BY <1>9, CurrentIsDeclared DEF CheckoutDep
    <2>2. CASE Fail /\ UNCHANGED clone
      BY <1>1, <1>9, <1>e, <2>2 DEF CheckoutDep, Fail
    <2>3. CASE ~(Fail /\ UNCHANGED clone)
      <3>1. /\ IsRepo(c) /\ c # Broken
            /\ clone' = [clone EXCEPT ![Current] = [c EXCEPT !.head = RefOf(c)]]
            /\ process' = Push(Entry(RefOf(c)))
        BY <1>9, <2>3, Zenon DEF CheckoutDep
      <3>2. c \in Clones
        BY <2>1, <3>1 DEF InstallTypes, IsRepo
      <3>3. settled.local => [c EXCEPT !.head = RefOf(c)] = c
        <4>1. [c EXCEPT !.head = c.head] = c
          BY <3>2 DEF Clones
        <4>2. settled.local => RefOf(c) = c.head
          BY <1>9, <2>1, SettledClonesStay DEF CheckoutDep
        <4> QED
          BY <4>1, <4>2
      <3>4. settled.local => \A d \in Names : clone'[d] = clone[d]
        BY <2>1, <3>1, <3>3 DEF InstallTypes
      <3>5. process'.manifest = process.manifest
        BY <2>1, <3>1, PushIsRunning
      <3>6. Declared(manifest) \subseteq Names
        BY InstallAssumption, <1>9 DEF CheckoutDep, SettledIsCurrent, Whole, Declared
      <3> QED
        BY <1>1, <1>9, <2>1, <3>4, <3>5, <3>6 DEF CheckoutDep
    <2> QED
      BY <2>2, <2>3
  <1>10. CASE ResolvePath
    <2>1. Resolving("path") /\ Installing
      BY <1>10, CurrentIsDeclared DEF ResolvePath
    <2>2. process'.manifest = process.manifest \/ ~Installing'
      BY <1>10, <1>e, <2>1, PushIsRunning DEF ResolvePath, Fail
    <2> QED
      BY <1>1, <1>10, <2>1, <2>2 DEF ResolvePath
  <1>11. CASE RefuseVersion
    BY <1>1, <1>11, <1>e DEF RefuseVersion, Fail
  <1>12. CASE TruncateLock
    <2>1. IsRunning(process) /\ Installing
      BY <1>12 DEF TruncateLock, InstallTypes, Idle, Installing
    <2>2. process'.manifest = process.manifest
      BY <1>12, <2>1 DEF TruncateLock, IsRunning
    <2> QED
      BY <1>1, <1>12, <2>1, <2>2 DEF TruncateLock
  <1>13. CASE WriteLock
    <2>1. /\ manifest = process.manifest /\ UNCHANGED <<manifest, clone>>
          /\ settled' = [manifest |-> manifest, lock |-> process.packages, local |-> TRUE]
          /\ lock' = process.packages
      BY <1>13 DEF WriteLock
    <2>2. /\ Installing /\ process.manifest \in Whole
          /\ process.next \in Nat /\ process.next > Len(DepOrder)
      BY <1>13 DEF WriteLock, InstallTypes, Installing, Idle, IsRunning
    <2>3. Describes(process.packages, manifest, Declared(manifest), clone)
      BY <2>1, <2>2, AllAreResolved DEF InstallInProgress
    <2>4. ~Installing'
      BY <1>13, <1>e DEF WriteLock
    <2> QED
      BY <2>1, <2>2, <2>3, <2>4 DEF SettledIsCurrent
  <1>14. CASE FreshCheckout
    <2>1. settled # Absent /\ settled' = [settled EXCEPT !.local = FALSE]
      BY <1>14 DEF FreshCheckout
    <2>2. settled' = [manifest |-> settled.manifest, lock |-> settled.lock, local |-> FALSE]
      BY <2>1 DEF SettledIsCurrent
    <2>3. ~Installing'
      BY <1>14, <1>e DEF FreshCheckout
    <2> QED
      BY <1>14, <2>1, <2>2, <2>3 DEF FreshCheckout, SettledIsCurrent
  <1>15. CASE Kill
    <2>1. settled.local => clone' = clone
      BY <1>15, SettledClonesStay DEF Kill
    <2> QED
      BY <1>1, <1>15, <1>e, <2>1 DEF Kill
  <1>16. CASE \E m \in Manifests : EditManifest(m)
    BY <1>16 DEF EditManifest
  <1>17. CASE \E url \in Url, ref \in Tag \cup Branch, commit \in Commit :
                 PushCommit(url, ref, commit)
    BY <1>1, <1>17 DEF PushCommit, Installing
  <1>18. CASE CommandStep
    <2>1. /\ UNCHANGED <<manifest, clone, lock, settled>>
          /\ process' = process \/ ~Installing'
      BY <1>18, OtherCommands DEF InstallTypes, Installing
    <2> QED
      BY <1>1, <2>1 DEF Installing
  <1>19. CASE UNCHANGED install
    BY <1>1, <1>19 DEF install, Installing
  <1> QED
    BY <1>3, <1>4, <1>5, <1>6, <1>7, <1>8, <1>9, <1>10, <1>11, <1>12, <1>13, <1>14,
       <1>15, <1>16, <1>17, <1>18, <1>19, Steps

LEMMA InstallsAreWhole == Spec => [](InstallTypes /\ InstallInProgress /\ SettledIsCurrent)
<1>1. Init => InstallInProgress /\ SettledIsCurrent
  BY EndedIsIdle DEF Init, Start, InstallInProgress, SettledIsCurrent, Installing
<1>2. InstallTypes /\ InstallTypes' /\ InstallInProgress /\ SettledIsCurrent /\ [Next]_allvars
         => InstallInProgress' /\ SettledIsCurrent'
  BY ProgressKept, SettledKept
<1> QED
  BY <1>1, <1>2, InstallTypesHold, PTL DEF Spec

(* As long as deal.toml stays as the last whole install read it, and the   *)
(* clones are there, the lock describes them, whatever older clones and    *)
(* declarations that install started from, and whatever installs failed or *)
(* were killed since.                                                      *)
THEOREM LocksDescribeClones == Spec => []LockDescribesClones
<1>1. InstallTypes /\ SettledIsCurrent => LockDescribesClones
  <2> SUFFICES ASSUME InstallTypes, SettledIsCurrent, settled # Absent, settled.local,
                      lock # Torn
               PROVE  /\ lock = settled.lock
                      /\ DOMAIN lock = Declared(settled.manifest)
                      /\ \A d \in GitDeps(settled.manifest) :
                            IsRepo(clone[d]) /\ clone[d] # Broken /\ lock[d].rev = clone[d].head
    BY DEF LockDescribesClones
  <2>1. /\ settled.manifest = manifest /\ lock = settled.lock
        /\ Describes(lock, manifest, Declared(manifest), clone)
    BY DEF SettledIsCurrent
  <2>2. /\ DOMAIN lock = DOMAIN manifest
        /\ \A d \in DOMAIN manifest : lock[d] = EntryOf(manifest[d], clone[d])
        /\ \A d \in DOMAIN manifest : manifest[d].kind = "git" => clone[d] \in Clones
    BY <2>1 DEF Describes, Declared
  <2>3. ASSUME NEW d \in GitDeps(manifest)
        PROVE  IsRepo(clone[d]) /\ clone[d] # Broken /\ lock[d].rev = clone[d].head
    BY <2>2, <2>3, InstallAssumption DEF GitDeps, EntryOf, IsRepo
  <2> QED
    BY <2>1, <2>2, <2>3 DEF Declared
<1> QED
  BY <1>1, InstallsAreWhole, PTL

(* As long as deal.toml stays as it is and the clones are there, every     *)
(* install that succeeds writes the lock of the first, wherever the        *)
(* remotes have moved and whatever failed or was killed in between.        *)
THEOREM InstallsAreRepeatable == Spec => InstallIsRepeatable
<1>1. InstallTypes /\ InstallInProgress /\ SettledIsCurrent =>
        [WriteLock /\ settled # Absent /\ settled.local /\ settled.manifest = process.manifest
            => lock' = settled.lock]_<<lock, settled, process>>
  <2> SUFFICES ASSUME InstallTypes, InstallInProgress, SettledIsCurrent, WriteLock,
                      settled # Absent, settled.local
               PROVE  lock' = settled.lock
    OBVIOUS
  <2>1. /\ Installing /\ process.manifest \in Whole
        /\ process.next \in Nat /\ process.next > Len(DepOrder)
    BY DEF WriteLock, InstallTypes, Installing, Idle, IsRunning
  <2>2. process.manifest = manifest
    BY <2>1 DEF SettledIsCurrent
  <2>3. Describes(process.packages, manifest, Declared(manifest), clone)
    BY <2>1, <2>2, AllAreResolved DEF InstallInProgress
  <2>4. Describes(settled.lock, manifest, Declared(manifest), clone)
    BY DEF SettledIsCurrent
  <2>5. process.packages = settled.lock
    BY <2>3, <2>4 DEF Describes
  <2> QED
    BY <2>5 DEF WriteLock
<1> QED
  BY <1>1, InstallsAreWhole, PTL DEF InstallIsRepeatable

-----------------------------------------------------------------------------
(* The files before the n-th of the order.                                 *)
Before(n) == {f \in File : \E i \in 1..(n - 1) : FileOrder[i] = f}

Compiling(stages) == process.command \in {"check", "build"} /\ process.stage \in stages

(* The files have texts, which a running fmt replaces by texts.            *)
FileTypes ==
    /\ text \in [File -> Text \cup {Gone}]
    /\ saved \in [File -> Text \cup {Gone}]
    /\ errors \in BOOLEAN
    /\ Compiling({"start"}) =>
          process.next = 1 /\ cache = Nothing /\ checked = Nothing /\ ~errors
    /\ Compiling({"cache"}) => process.next <= Len(FileOrder)

(* A formatted text waits beside its file; nobody else writes the file,    *)
(* and what fmt has replaced was whole.                                    *)
FormattedWaits ==
    /\ process.command = "fmt" /\ process.stage = "rename" =>
          /\ Here \in File /\ cache[Here] \in Text
          /\ "midrun" \notin environment =>
                /\ text[Here] \in Text /\ Facts[text[Here]].parses
                /\ cache[Here] = Facts[text[Here]].formatted
    /\ \A f \in File : "midrun" \notin environment /\ text[f] # saved[f] =>
          /\ saved[f] \in Text /\ Facts[saved[f]].parses
          /\ text[f] = Facts[saved[f]].formatted

(* A cache c of the files D: a text of each of them that was planned.      *)
Cached(c, D, plan) ==
    /\ c = [f \in D |-> c[f]]
    /\ \A f \in D : IF f \in plan THEN c[f] \in Text ELSE c[f] = Gone

(* The texts of the files D, each without errors against the others of c.  *)
CleanSoFar(texts, c, D) ==
    /\ texts = [f \in D |-> c[f]]
    /\ \A f \in D : ~HasErrors(c[f], Others(c, f))

(* While a check or a build runs without files vanishing, its cache has a  *)
(* text of every planned file, and the files analyzed so far are clean     *)
(* against the cached others unless an error is remembered.                *)
AnalyzedSoFar ==
    (Without({"vanish"}) /\ Compiling({"cache", "analyze", "write"})) =>
        /\ planned = [f \in DOMAIN planned |-> planned[f]] /\ DOMAIN planned \subseteq File
        /\ \A f \in DOMAIN planned : text[f] # Gone
        /\ "midrun" \notin environment => \A f \in DOMAIN planned : planned[f] = text[f]
        /\ process.stage = "cache" =>
              /\ Cached(cache, Before(process.next), DOMAIN planned) /\ checked = Nothing /\ ~errors
              /\ "midrun" \notin environment =>
                    \A f \in DOMAIN planned \cap Before(process.next) : cache[f] = planned[f]
        /\ process.stage \in {"analyze", "write"} =>
              /\ Cached(cache, File, DOMAIN planned)
              /\ "midrun" \notin environment =>
                    \A f \in DOMAIN planned : cache[f] = planned[f]
        /\ process.stage = "analyze" /\ ~errors =>
              CleanSoFar(checked, cache, DOMAIN planned \cap Before(process.next))
        /\ process.stage = "write" => CleanSoFar(checked, cache, DOMAIN planned)

-----------------------------------------------------------------------------
LEMMA UpdatedFields ==
  ASSUME IsRunning(process)
  PROVE  /\ \A s : process' = [process EXCEPT !.stage = s] =>
               /\ process'.command = process.command
               /\ process'.stage = s /\ process'.next = process.next
         /\ \A n : process' = [process EXCEPT !.next = n] =>
               /\ process'.command = process.command
               /\ process'.stage = process.stage /\ process'.next = n
         /\ \A s, n : \/ process' = [process EXCEPT !.stage = s, !.next = n]
                     \/ process' = [[process EXCEPT !.next = n] EXCEPT !.stage = s] =>
               /\ process'.command = process.command
               /\ process'.stage = s /\ process'.next = n
  <1> DEFINE R == [command |-> process.command, flag |-> process.flag,
                   stage |-> process.stage, manifest |-> process.manifest,
                   next |-> process.next, packages |-> process.packages]
  <1>1. process = R
    BY DEF IsRunning
  <1> QED
    BY <1>1

(* Which files come before a place in the order.                           *)
LEMMA BeforeGrows ==
  /\ Before(1) = {}
  /\ \A n \in 1..Len(FileOrder) :
        FileOrder[n] \in File /\ Before(n + 1) = Before(n) \cup {FileOrder[n]}
  /\ \A n \in Nat : n > Len(FileOrder) => Before(n) = File
  <1>1. /\ Len(FileOrder) \in Nat
        /\ \A n \in 1..Len(FileOrder) : FileOrder[n] \in File
        /\ \A f \in File : \E n \in 1..Len(FileOrder) : FileOrder[n] = f
    BY TextAssumption DEF File, ToSet
  <1>2. Before(1) = {}
    BY DEF Before
  <1>3. ASSUME NEW n \in 1..Len(FileOrder)
        PROVE  Before(n + 1) = Before(n) \cup {FileOrder[n]}
    <2>1. 1..(n + 1 - 1) = 1..(n - 1) \cup {n} /\ FileOrder[n] \in File
      BY <1>1
    <2> QED
      BY <2>1 DEF Before
  <1>4. ASSUME NEW n \in Nat, n > Len(FileOrder)
        PROVE  Before(n) = File
    <2>1. 1..Len(FileOrder) \subseteq 1..(n - 1)
      BY <1>1, <1>4
    <2> QED
      BY <1>1, <2>1 DEF Before
  <1> QED
    BY <1>1, <1>2, <1>3, <1>4

(* An install, an init and what happens around them leave the files alone, *)
(* and the driver's command with it.                                       *)
LEMMA ProjectSteps ==
  ASSUME InstallTypes, [Next]_allvars, ~CommandStep
  PROVE  /\ UNCHANGED <<commands, environment>>
         /\ process' = process \/ process'.command \in {"none", "init", "install"}
  <1> DEFINE Goal == process' = process \/ process'.command \in {"none", "init", "install"}
  <1>u. UNCHANGED <<commands, environment>>
    <2> USE DEF commands, work
    <2>1. CASE UNCHANGED allvars
      BY <2>1 DEF allvars
    <2>2. CASE Next
      <3>1. UNCHANGED commands
        BY <2>2, Zenon DEF Next
      <3>2. environment' = environment
        BY <2>2 DEF Next, RunInit, RefuseNonEmpty, InitStep, RunInstall, ReadManifest,
           Undeclared, CloneDep, CheckoutDep, ResolvePath, RefuseVersion, TruncateLock,
           WriteLock, FreshCheckout, Kill, EditManifest, PushCommit
      <3> QED
        BY <3>1, <3>2
    <2> QED
      BY <2>1, <2>2
  <1> SUFFICES Goal
    BY <1>u
  <1>e. ASSUME Fail \/ \E how : process' = Ended(how)
        PROVE  Goal
    BY <1>e, EndedIsIdle DEF Fail
  <1>r. ASSUME process.command \in {"init", "install"},
               \/ \E s : process' = [process EXCEPT !.stage = s]
               \/ \E n : process' = [process EXCEPT !.next = n]
        PROVE  Goal
    <2>1. IsRunning(process)
      BY <1>r DEF InstallTypes, Idle
    <2> QED
      BY <1>r, <2>1 DEF IsRunning
  <1> HIDE DEF Goal
  <1>1. CASE RunInit \/ RunInstall
    <2>1. PICK command \in {"init", "install"} : process' = Running(command, FALSE)
      BY <1>1 DEF RunInit, RunInstall, StartCommand
    <2> QED
      BY <2>1, StartedIsRunning DEF Goal
  <1>2. CASE RefuseNonEmpty
    BY <1>2, <1>e, <1>r DEF RefuseNonEmpty
  <1>3. CASE InitStep
    BY <1>3, <1>e DEF InitStep, Goal
  <1>4. CASE ReadManifest
    <2>1. IsRunning(process)
      BY <1>4 DEF ReadManifest, InstallTypes, Idle
    <2>2. process' = [process EXCEPT !.stage = "resolve", !.manifest = manifest] => Goal
      BY <1>4, <2>1 DEF ReadManifest, IsRunning, Goal
    <2> QED
      BY <1>4, <1>e, <2>2 DEF ReadManifest
  <1>5. CASE Undeclared
    BY <1>5, <1>r DEF Undeclared
  <1>6. CASE CloneDep
    BY <1>6, <1>e DEF CloneDep, Goal
  <1>7. CASE CheckoutDep
    <2>1. Resolving("git")
      BY <1>7 DEF CheckoutDep
    <2> QED
      BY <1>7, <1>e, <2>1, PushIsRunning DEF CheckoutDep, Goal
  <1>8. CASE ResolvePath
    <2>1. Resolving("path")
      BY <1>8 DEF ResolvePath
    <2> QED
      BY <1>8, <1>e, <2>1, PushIsRunning DEF ResolvePath, Goal
  <1>9. CASE RefuseVersion \/ WriteLock \/ FreshCheckout \/ Kill
    BY <1>9, <1>e DEF RefuseVersion, WriteLock, FreshCheckout, Kill
  <1>10. CASE TruncateLock
    BY <1>10, <1>r DEF TruncateLock
  <1>11. CASE \/ \E m \in Manifests : EditManifest(m)
              \/ \E url \in Url, ref \in Tag \cup Branch, commit \in Commit :
                    PushCommit(url, ref, commit)
    BY <1>11 DEF EditManifest, PushCommit, Goal
  <1>12. CASE UNCHANGED install
    BY <1>12 DEF install, Goal
  <1> QED
    BY <1>1, <1>2, <1>3, <1>4, <1>5, <1>6, <1>7, <1>8, <1>9, <1>10, <1>11, <1>12,
       Steps, Zenon DEF Goal

-----------------------------------------------------------------------------
(* parse and fmt leave what check and build work with alone.               *)
LEMMA SourceSteps ==
  ASSUME InstallTypes, ParseFile \/ FmtRead \/ WriteFileAtomic \/ FilesEnd
  PROVE  /\ process'.command \in {"none", "parse", "fmt"}
         /\ UNCHANGED <<environment, index, built>>
  <1>1. process.command \in {"parse", "fmt"} /\ IsRunning(process)
    BY DEF ParseFile, FmtRead, WriteFileAtomic, FilesEnd, AtFile, InstallTypes, Idle
  <1>2. ASSUME \/ \E how : process' = Ended(how)
               \/ \E s : process' = [process EXCEPT !.stage = s]
               \/ \E n : process' = [process EXCEPT !.next = n]
               \/ \E s, n : process' = [[process EXCEPT !.next = n] EXCEPT !.stage = s]
        PROVE  process'.command \in {"none", "parse", "fmt"}
    BY <1>1, <1>2, EndedIsIdle, UpdatedFields
  <1>3. CASE ParseFile
    BY <1>2, <1>3 DEF ParseFile, NextFile, commands
  <1>4. CASE FmtRead
    BY <1>2, <1>4 DEF FmtRead, NextFile, Fail
  <1>5. CASE WriteFileAtomic
    BY <1>2, <1>5 DEF WriteFileAtomic, NextFile
  <1>6. CASE FilesEnd
    BY <1>2, <1>6 DEF FilesEnd, commands
  <1> QED
    BY <1>3, <1>4, <1>5, <1>6

(* The steps of the driver and of the editor.                              *)
LEMMA FileTypesKept ==
  ASSUME InstallTypes, FileTypes, FormattedWaits, [Next]_allvars
  PROVE  FileTypes'
  <1> USE DEF FileTypes, Compiling
  <1>r. process.command # "none" => IsRunning(process)
    BY DEF InstallTypes, Idle
  <1>e. ASSUME NEW how, process' = Ended(how)
        PROVE  process'.command = "none"
    BY <1>e, EndedIsIdle
  <1>1. CASE ~CommandStep
    <2>1. /\ UNCHANGED <<text, saved, planned, cache, checked, errors>>
          /\ process' = process \/ process'.command \in {"none", "init", "install"}
      BY <1>1, ProjectSteps DEF commands, work
    <2> QED
      BY <2>1
  <1>2. ASSUME NEW command, NEW flag, RunCommand(command, flag)
        PROVE  FileTypes'
    <2>1. process'.stage = "start" /\ process'.next = 1
      BY <1>2, StartedIsRunning DEF RunCommand, StartCommand
    <2>2. /\ UNCHANGED <<text, saved>> /\ errors' = FALSE
          /\ cache' = Nothing /\ checked' = Nothing
      BY <1>2 DEF RunCommand
    <2> QED
      BY <2>1, <2>2 DEF Nothing
  <1>3. CASE PlanLoad
    <2>1. CASE Fail
      BY <1>3, <1>e, <2>1 DEF PlanLoad, Fail
    <2>2. CASE ~Fail
      <3>1. /\ process' = [process EXCEPT !.stage = "cache"]
            /\ Discovered # {} /\ UNCHANGED <<text, saved, errors>>
        BY <1>3, <2>2 DEF PlanLoad
      <3>2. process.next = 1 /\ IsRunning(process)
        BY <1>3, <1>r DEF PlanLoad
      <3>3. Len(FileOrder) \in Nat \ {0}
        BY <3>1, TextAssumption DEF Discovered, File, ToSet
      <3>4. process'.stage = "cache" /\ process'.next = 1
        BY <3>1, <3>2, UpdatedFields
      <3> QED
        BY <3>1, <3>3, <3>4
    <2> QED
      BY <2>1, <2>2
  <1>4. CASE CacheFile
    <2>1. IsRunning(process) /\ process.next \in Nat /\ Len(FileOrder) \in Nat
      BY <1>4, <1>r, TextAssumption DEF CacheFile, AtFile, IsRunning
    <2>2. /\ process' = IF process.next < Len(FileOrder) THEN NextFile
                        ELSE [process EXCEPT !.stage = "analyze", !.next = 1]
          /\ process.stage = "cache" /\ UNCHANGED <<text, saved, errors>>
      BY <1>4 DEF CacheFile, AtFile
    <2>3. \/ process'.stage = "cache" /\ process'.next <= Len(FileOrder)
          \/ process'.stage = "analyze"
      <3>1. CASE process.next < Len(FileOrder)
        <4>1. process' = [process EXCEPT !.next = process.next + 1]
          BY <2>2, <3>1 DEF NextFile
        <4>2. process'.stage = process.stage /\ process'.next = process.next + 1
          BY <2>1, <4>1, UpdatedFields
        <4> QED
          BY <2>1, <2>2, <3>1, <4>2
      <3>2. CASE ~(process.next < Len(FileOrder))
        BY <2>1, <2>2, <3>2, UpdatedFields
      <3> QED
        BY <3>1, <3>2
    <2> QED
      BY <2>2, <2>3
  <1>5. ASSUME NEW command \in {"check", "build"}, NEW alsoBroken, Analyze(command, alsoBroken)
        PROVE  FileTypes'
    <2>1. IsRunning(process) /\ process.stage = "analyze"
      BY <1>5, <1>r DEF Analyze, AtFile
    <2>2. \/ process' = [process EXCEPT !.next = process.next + 1]
          \/ process'.command = "none"
      BY <1>5, <1>e DEF Analyze, NextFile
    <2>3. process'.command = "none" \/ process'.stage = "analyze"
      BY <2>1, <2>2, UpdatedFields
    <2>4. UNCHANGED <<text, saved>> /\ errors' \in BOOLEAN
      BY <1>5 DEF Analyze, Remember
    <2> QED
      BY <2>3, <2>4
  <1>6. CASE EndCheck \/ EndBuild
    <2>1. IsRunning(process) /\ UNCHANGED <<text, saved, errors>>
      BY <1>6, <1>r DEF EndCheck, EndBuild, Finishing, work
    <2>2. process'.command = "none" \/ process' = [process EXCEPT !.stage = "write"]
      BY <1>6, <1>e DEF EndCheck, EndBuild, Truncated, Fail
    <2> QED
      BY <2>1, <2>2, UpdatedFields
  <1>7. CASE WriteIndex \/ WritePackage \/ FilesEnd
    BY <1>7, <1>e DEF WriteIndex, WritePackage, FilesEnd, commands, work
  <1>8. CASE ParseFile \/ FmtRead \/ WriteFileAtomic
    <2>2. process'.command \in {"none", "parse", "fmt"}
      BY <1>8, SourceSteps
    <2>3. /\ saved' = saved /\ errors' \in BOOLEAN
          /\ text' \in [File -> Text \cup {Gone}]
      <3>1. CASE ParseFile
        BY <3>1 DEF ParseFile, commands, work
      <3>2. CASE FmtRead
        BY <3>2 DEF FmtRead
      <3>3. CASE WriteFileAtomic
        BY <3>3 DEF WriteFileAtomic, work, FormattedWaits
      <3> QED
        BY <1>8, <3>1, <3>2, <3>3
    <2> QED
      BY <2>2, <2>3
  <1>9. ASSUME NEW f \in File, NEW t \in Text \cup {Gone}, SaveFile(f, t)
        PROVE  FileTypes'
    BY <1>9 DEF SaveFile, install, work
  <1> QED
    BY <1>1, <1>2, <1>3, <1>4, <1>5, <1>6, <1>7, <1>8, <1>9, Zenon
    DEF CommandStep, CheckFile, BuildFile

(* The file a driver's command is at.                                      *)
LEMMA HereIsFile ==
  ASSUME process.next \in Nat \ {0}, process.next <= Len(FileOrder)
  PROVE  Here \in File /\ Before(process.next + 1) = Before(process.next) \cup {Here}
  <1>1. process.next \in 1..Len(FileOrder)
    BY TextAssumption
  <1> QED
    BY <1>1, BeforeGrows DEF Here

LEMMA FormattedWaitsKept ==
  ASSUME InstallTypes, FileTypes, FormattedWaits, [Next]_allvars
  PROVE  FormattedWaits'
  <1> USE DEF FormattedWaits
  <1>r. process.command # "none" => IsRunning(process)
    BY DEF InstallTypes, Idle
  <1>e. ASSUME NEW how, process' = Ended(how)
        PROVE  process'.command = "none"
    BY <1>e, EndedIsIdle
  <1>k. ASSUME UNCHANGED <<text, saved, environment>>,
               process'.command # "fmt" \/ process'.stage # "rename"
        PROVE  FormattedWaits'
    BY <1>k
  <1>1. CASE ~CommandStep
    <2>1. /\ UNCHANGED <<text, saved, cache, environment>>
          /\ process' = process \/ process'.command \in {"none", "init", "install"}
      BY <1>1, ProjectSteps DEF commands, work
    <2> QED
      BY <2>1, <1>k DEF Here
  <1>2. ASSUME NEW command, NEW flag, RunCommand(command, flag)
        PROVE  FormattedWaits'
    BY <1>2, <1>k, StartedIsRunning DEF RunCommand, StartCommand
  <1>3. CASE PlanLoad \/ CacheFile \/ CheckFile \/ BuildFile \/ EndCheck \/ EndBuild
    <2>1. /\ IsRunning(process) /\ process.command \in {"check", "build"}
          /\ UNCHANGED <<text, saved, environment>>
      BY <1>3, <1>r DEF PlanLoad, CacheFile, CheckFile, BuildFile, Analyze, EndCheck, EndBuild,
         AtFile, Finishing
    <2>2. \/ \E how : process' = Ended(how)
          \/ \E s : process' = [process EXCEPT !.stage = s]
          \/ \E n : process' = [process EXCEPT !.next = n]
          \/ \E s, n : process' = [process EXCEPT !.stage = s, !.next = n]
      BY <1>3, Zenon DEF PlanLoad, CacheFile, CheckFile, BuildFile, Analyze, EndCheck, EndBuild,
         NextFile, Truncated, Fail
    <2>3. process'.command # "fmt"
      <3>1. CASE \E how : process' = Ended(how)
        BY <1>e, <3>1
      <3>2. CASE \E s : process' = [process EXCEPT !.stage = s]
        BY <2>1, <3>2, UpdatedFields
      <3>3. CASE \E n : process' = [process EXCEPT !.next = n]
        BY <2>1, <3>3, UpdatedFields
      <3>4. CASE \E s, n : process' = [process EXCEPT !.stage = s, !.next = n]
        <4>1. PICK s, n : process' = [process EXCEPT !.stage = s, !.next = n]
          BY <3>4
        <4> QED
          BY <2>1, <4>1, UpdatedFields
      <3> QED
        BY <2>2, <3>1, <3>2, <3>3, <3>4
    <2> QED
      BY <2>1, <2>3, <1>k
  <1>4. CASE WriteIndex \/ WritePackage \/ FilesEnd
    BY <1>4, <1>e, <1>k DEF WriteIndex, WritePackage, FilesEnd, commands, work
  <1>5. CASE ParseFile
    <2>1. /\ IsRunning(process) /\ process.command = "parse"
          /\ UNCHANGED <<text, saved, environment>>
      BY <1>5, <1>r DEF ParseFile, AtFile, commands
    <2>2. process'.command # "fmt"
      BY <1>5, <2>1, <1>e, UpdatedFields DEF ParseFile, NextFile
    <2> QED
      BY <2>1, <2>2, <1>k
  <1>6. CASE FmtRead
    <2>1. IsRunning(process) /\ Here \in File /\ UNCHANGED <<text, saved, environment>>
      BY <1>6, <1>r, HereIsFile DEF FmtRead, IsRunning
    <2>2. CASE \E how : process' = Ended(how)
      BY <2>1, <2>2, <1>e, <1>k
    <2>3. CASE process' = [NextFile EXCEPT !.stage = "read"]
      <3>1. process'.stage = "read"
        BY <2>1, <2>3, UpdatedFields DEF NextFile
      <3> QED
        BY <2>1, <3>1, <1>k
    <2>4. CASE process' = [process EXCEPT !.stage = "rename"] /\ ~\E how : process' = Ended(how)
      <3>1. Here' = Here
        BY <2>1, <2>4, UpdatedFields DEF Here
      <3>2. /\ text[Here] # Gone /\ Facts[text[Here]].parses
            /\ cache' = [f \in {Here} |-> Facts[text[Here]].formatted]
        BY <1>6, <2>4 DEF FmtRead, Fail
      <3>3. text[Here] \in Text
        BY <2>1, <3>2 DEF FileTypes
      <3>4. cache'[Here] = Facts[text[Here]].formatted /\ cache'[Here] \in Text
        BY <3>2, <3>3, TextAssumption
      <3> QED
        BY <2>1, <3>1, <3>2, <3>3, <3>4
    <2> QED
      BY <1>6, <2>2, <2>3, <2>4 DEF FmtRead, Fail
  <1>7. CASE WriteFileAtomic
    <2>1. /\ IsRunning(process) /\ Here \in File /\ UNCHANGED <<saved, environment>>
          /\ text' = [text EXCEPT ![Here] = cache[Here]]
      BY <1>7, <1>r DEF WriteFileAtomic
    <2>2. process'.stage = "read"
      BY <1>7, <2>1, UpdatedFields DEF WriteFileAtomic, NextFile
    <2>3. ASSUME NEW f \in File, "midrun" \notin environment, text'[f] # saved[f]
          PROVE  /\ saved[f] \in Text /\ Facts[saved[f]].parses
                 /\ text'[f] = Facts[saved[f]].formatted
      <3>1. CASE f # Here
        BY <2>1, <2>3, <3>1 DEF FileTypes
      <3>2. CASE f = Here /\ text[f] = saved[f]
        BY <1>7, <2>1, <2>3, <3>2 DEF FileTypes, WriteFileAtomic
      <3>3. CASE f = Here /\ text[f] # saved[f]
        <4>1. /\ saved[f] \in Text /\ Facts[saved[f]].parses
              /\ text[f] = Facts[saved[f]].formatted
          BY <2>3, <3>3
        <4>2. text'[f] = Facts[text[f]].formatted
          BY <1>7, <2>1, <2>3, <3>3 DEF FileTypes, WriteFileAtomic
        <4> QED
          BY <4>1, <4>2, TextAssumption
      <3> QED
        BY <3>1, <3>2, <3>3
    <2> QED
      BY <2>1, <2>2, <2>3
  <1>8. ASSUME NEW g \in File, NEW t \in Text \cup {Gone}, SaveFile(g, t)
        PROVE  FormattedWaits'
    <2>1. /\ UNCHANGED <<process, environment, cache>>
          /\ text' = [text EXCEPT ![g] = t] /\ saved' = [saved EXCEPT ![g] = t]
          /\ "midrun" \notin environment => process.command = "none"
      BY <1>8 DEF SaveFile, install, work, Idle
    <2>2. \A f \in File : text'[f] # saved'[f] =>
             text'[f] = text[f] /\ saved'[f] = saved[f]
      BY <2>1 DEF FileTypes
    <2> QED
      BY <2>1, <2>2 DEF Here
  <1> QED
    BY <1>1, <1>2, <1>3, <1>4, <1>5, <1>6, <1>7, <1>8, Zenon DEF CommandStep

LEMMA FilesAreTyped == Spec => [](InstallTypes /\ FileTypes /\ FormattedWaits)
<1>1. Init => FileTypes /\ FormattedWaits
  BY EndedIsIdle DEF Init, Start, FileTypes, FormattedWaits, Compiling
<1>2. InstallTypes /\ FileTypes /\ FormattedWaits /\ [Next]_allvars
         => FileTypes' /\ FormattedWaits'
  BY FileTypesKept, FormattedWaitsKept
<1> QED
  BY <1>1, <1>2, InstallTypesHold, PTL DEF Spec

(* Formatting never leaves a file half written, even when it is killed or  *)
(* a later file does not parse, and never replaces a text by anything but  *)
(* its own formatting, for every set of texts and any number of files.     *)
THEOREM SourcesStayTheirOwn == Spec => []SourcesStayWhole
<1>1. FileTypes /\ FormattedWaits => SourcesStayWhole
  BY TextAssumption DEF FileTypes, FormattedWaits, SourcesStayWhole
<1> QED
  BY <1>1, FilesAreTyped, PTL

-----------------------------------------------------------------------------
(* The others a file is checked against are the same in the whole cache    *)
(* and among the planned files, because the cache has nothing else.        *)
LEMMA SameOthers ==
  ASSUME Cached(cache, File, DOMAIN planned), DOMAIN planned \subseteq File,
         NEW texts, texts = [f \in DOMAIN planned |-> cache[f]]
  PROVE  \A f \in DOMAIN planned : Others(texts, f) = Others(cache, f)
  <1>2. /\ DOMAIN cache = File
        /\ \A f \in File : IF f \in DOMAIN planned THEN cache[f] # Gone ELSE cache[f] = Gone
    BY TextAssumption DEF Cached
  <1>3. DOMAIN texts = DOMAIN planned /\ \A f \in DOMAIN planned : texts[f] = cache[f]
    OBVIOUS
  <1>4. ASSUME NEW f \in DOMAIN planned
        PROVE  Others(texts, f) = Others(cache, f)
    <2> DEFINE D(t) == {h \in DOMAIN t \ {f} : t[h] # Gone}
    <2>1. D(texts) = D(cache)
      BY <1>2, <1>3
    <2>2. \A h \in D(texts) : texts[h] = cache[h]
      BY <1>3
    <2> QED
      BY <2>1, <2>2 DEF Others
  <1> QED
    BY <1>4

LEMMA CleanIsTogether ==
  ASSUME Cached(cache, File, DOMAIN planned), DOMAIN planned \subseteq File,
         CleanSoFar(checked, cache, DOMAIN planned)
  PROVE  CleanTogether(checked) /\ DOMAIN checked = DOMAIN planned
  <1>1. /\ checked = [f \in DOMAIN planned |-> cache[f]]
        /\ \A f \in DOMAIN planned : ~HasErrors(cache[f], Others(cache, f))
    BY DEF CleanSoFar
  <1>2. /\ DOMAIN checked = DOMAIN planned
        /\ \A f \in DOMAIN planned :
              checked[f] = cache[f] /\ Others(checked, f) = Others(cache, f)
    BY <1>1, SameOthers
  <1> QED
    BY <1>1, <1>2, Zenon DEF CleanTogether

(* When a check's or a build's last file is analyzed, every planned one is.*)
LEMMA AllAnalyzed ==
  ASSUME InstallTypes, process.command # "none", process.next > Len(FileOrder),
         DOMAIN planned \subseteq File
  PROVE  DOMAIN planned \cap Before(process.next) = DOMAIN planned
  <1>1. process.next \in Nat
    BY DEF InstallTypes, IsRunning, Idle
  <1> QED
    BY <1>1, BeforeGrows

LEMMA AnalyzedSoFarKept ==
  ASSUME InstallTypes, FileTypes, AnalyzedSoFar, [Next]_allvars
  PROVE  AnalyzedSoFar'
  <1>r. process.command # "none" => IsRunning(process)
    BY DEF InstallTypes, Idle
  <1>e. ASSUME NEW how, process' = Ended(how)
        PROVE  process'.command = "none"
    BY <1>e, EndedIsIdle
  <1>k. ASSUME process'.command \notin {"check", "build"} \/ process'.stage = "start"
        PROVE  AnalyzedSoFar'
    BY <1>k DEF AnalyzedSoFar, Compiling
  <1>1. CASE ~CommandStep
    <2>1. /\ UNCHANGED <<text, saved, planned, cache, checked, errors, environment>>
          /\ process' = process \/ process'.command \in {"none", "init", "install"}
      BY <1>1, ProjectSteps DEF commands, work
    <2>2. CASE process' = process
      BY <2>1, <2>2 DEF AnalyzedSoFar, Compiling, Without
    <2> QED
      BY <2>1, <2>2, <1>k
  <1>2. ASSUME NEW command, NEW flag, RunCommand(command, flag)
        PROVE  AnalyzedSoFar'
    BY <1>2, <1>k, StartedIsRunning DEF RunCommand, StartCommand
  <1>3. CASE PlanLoad
    <2>1. CASE Fail
      BY <2>1, <1>e, <1>k DEF Fail
    <2>2. CASE ~Fail
      <3>1. /\ IsRunning(process) /\ process.next = 1
            /\ process' = [process EXCEPT !.stage = "cache"]
            /\ planned' = [f \in Discovered |-> text[f]]
            /\ UNCHANGED <<text, cache, checked, errors>>
            /\ cache = Nothing /\ checked = Nothing /\ ~errors
        BY <1>3, <1>r, <2>2, Zenon DEF PlanLoad, FileTypes, Compiling
      <3>2. process'.stage = "cache" /\ process'.next = 1
        BY <3>1, UpdatedFields
      <3>3. /\ DOMAIN planned' = Discovered /\ Discovered \subseteq File
            /\ \A f \in Discovered : planned'[f] = text[f] /\ text[f] # Gone
        BY <3>1 DEF Discovered
      <3>4. Before(1) = {} /\ Cached(cache', {}, DOMAIN planned')
        BY <3>1, BeforeGrows DEF Cached, Nothing
      <3>5. checked' = Nothing' /\ ~errors'
        BY <3>1 DEF Nothing
      <3> QED
        BY <3>1, <3>2, <3>3, <3>4, <3>5 DEF AnalyzedSoFar
    <2> QED
      BY <2>1, <2>2
  <1>4. CASE CacheFile
    <2>1. /\ IsRunning(process) /\ process.stage = "cache" /\ process.next \in Nat \ {0}
          /\ process.command \in {"check", "build"} /\ process.next <= Len(FileOrder)
      BY <1>4, <1>r DEF CacheFile, AtFile, IsRunning
    <2>2. /\ cache' = Insert(cache, Here, IF Here \in DOMAIN planned THEN text[Here] ELSE Gone)
          /\ UNCHANGED <<text, planned, checked, errors, environment>>
      BY <1>4 DEF CacheFile
    <2>3. Here \in File /\ Before(process.next + 1) = Before(process.next) \cup {Here}
      BY <2>1, HereIsFile
    <2> SUFFICES ASSUME Without({"vanish"}) PROVE AnalyzedSoFar'
      BY <2>2 DEF AnalyzedSoFar, Without
    <2>4. /\ planned = [f \in DOMAIN planned |-> planned[f]] /\ DOMAIN planned \subseteq File
          /\ \A f \in DOMAIN planned : text[f] # Gone
          /\ "midrun" \notin environment => \A f \in DOMAIN planned : planned[f] = text[f]
          /\ Cached(cache, Before(process.next), DOMAIN planned) /\ checked = Nothing /\ ~errors
          /\ "midrun" \notin environment =>
                \A f \in DOMAIN planned \cap Before(process.next) : cache[f] = planned[f]
      BY <2>1 DEF AnalyzedSoFar, Compiling
    <2>5. DOMAIN cache = Before(process.next)
      BY <2>4 DEF Cached
    <2>6. /\ cache' = [f \in Before(process.next + 1) |-> cache'[f]]
          /\ cache'[Here] = IF Here \in DOMAIN planned THEN text[Here] ELSE Gone
          /\ \A f \in Before(process.next + 1) \ {Here} : cache'[f] = cache[f]
      BY <2>2, <2>3, <2>5 DEF Insert
    <2>7. \A f \in Before(process.next + 1) :
             IF f \in DOMAIN planned THEN cache'[f] \in Text ELSE cache'[f] = Gone
      BY <2>3, <2>4, <2>6 DEF Cached, FileTypes
    <2>8. "midrun" \notin environment =>
             \A f \in DOMAIN planned \cap Before(process.next + 1) : cache'[f] = planned[f]
      BY <2>3, <2>4, <2>6
    <2>9. Cached(cache', Before(process.next + 1), DOMAIN planned)
      BY <2>2, <2>6, <2>7 DEF Cached
    <2>10. CASE process.next < Len(FileOrder)
      <3>1. process'.stage = "cache" /\ process'.next = process.next + 1
        BY <1>4, <2>1, <2>10, UpdatedFields DEF CacheFile, NextFile
      <3> QED
        BY <2>2, <2>4, <2>8, <2>9, <3>1 DEF AnalyzedSoFar
    <2>11. CASE ~(process.next < Len(FileOrder))
      <3>1. process'.stage = "analyze" /\ process'.next = 1
        BY <1>4, <2>1, <2>11, UpdatedFields DEF CacheFile
      <3>2. Before(process.next + 1) = File
        BY <2>1, <2>11, BeforeGrows, TextAssumption
      <3>3. Before(1) = {} /\ CleanSoFar(checked', cache', {})
        BY <2>2, <2>4, BeforeGrows DEF CleanSoFar, Nothing
      <3>4. Cached(cache', File, DOMAIN planned') /\ DOMAIN planned' \cap Before(1) = {}
        BY <2>2, <2>9, <3>2, <3>3
      <3> QED
        BY <2>2, <2>4, <2>8, <3>1, <3>2, <3>3, <3>4 DEF AnalyzedSoFar
    <2> QED
      BY <2>10, <2>11
  <1>5. ASSUME NEW command \in {"check", "build"}, NEW alsoBroken,
               Analyze(command, alsoBroken), command = "check" => alsoBroken
        PROVE  AnalyzedSoFar'
    <2>1. /\ IsRunning(process) /\ process.stage = "analyze" /\ process.next \in Nat \ {0}
          /\ process.command = command /\ process.next <= Len(FileOrder)
          /\ UNCHANGED <<text, planned, cache, environment>>
      BY <1>5, <1>r DEF Analyze, AtFile, IsRunning
    <2>2. Here \in File /\ Before(process.next + 1) = Before(process.next) \cup {Here}
      BY <2>1, HereIsFile
    <2>3. CASE process'.command = "none"
      BY <2>3, <1>k
    <2> SUFFICES ASSUME Without({"vanish"}), process'.command # "none" PROVE AnalyzedSoFar'
      BY <2>1, <2>3 DEF AnalyzedSoFar, Without
    <2>4. /\ planned = [f \in DOMAIN planned |-> planned[f]] /\ DOMAIN planned \subseteq File
          /\ \A f \in DOMAIN planned : text[f] # Gone
          /\ "midrun" \notin environment => \A f \in DOMAIN planned : planned[f] = text[f]
          /\ Cached(cache, File, DOMAIN planned)
          /\ "midrun" \notin environment => \A f \in DOMAIN planned : cache[f] = planned[f]
          /\ ~errors => CleanSoFar(checked, cache, DOMAIN planned \cap Before(process.next))
      BY <2>1 DEF AnalyzedSoFar, Compiling
    <2>5. process' = [process EXCEPT !.next = process.next + 1]
      BY <1>5, <1>e DEF Analyze, NextFile
    <2>6. process'.stage = "analyze" /\ process'.next = process.next + 1
      BY <2>1, <2>5, UpdatedFields
    <2>7. Cached(cache', File, DOMAIN planned')
      BY <2>1, <2>4
    <2>8. ~errors' => CleanSoFar(checked', cache', DOMAIN planned \cap Before(process.next + 1))
      <3>1. CASE Here \notin DOMAIN planned
        <4>1. UNCHANGED <<checked, errors>>
          BY <1>5, <3>1 DEF Analyze
        <4>2. DOMAIN planned \cap Before(process.next + 1)
                 = DOMAIN planned \cap Before(process.next)
          BY <2>2, <3>1
        <4> QED
          BY <2>1, <2>4, <4>1, <4>2
      <3>2. CASE Here \in DOMAIN planned
        <4> DEFINE has == HasErrors(cache[Here], Others(cache, Here))
        <4>1. cache[Here] \in Text /\ SourceBytes(Here) = cache[Here]
          BY <2>2, <2>4, <3>2, TextAssumption DEF Cached, SourceBytes
        <4>2. /\ errors' = (errors \/ has)
              /\ checked' = IF alsoBroken \/ ~has THEN Insert(checked, Here, cache[Here])
                            ELSE checked
          BY <1>5, <3>2, <4>1, TextAssumption, Zenon DEF Analyze, ExternalsFor, Remember
        <4> HIDE DEF has
        <4> SUFFICES ASSUME ~errors, ~has
                     PROVE  CleanSoFar(checked', cache',
                                       DOMAIN planned \cap Before(process.next + 1))
          BY <4>2
        <4> DEFINE D == DOMAIN planned \cap Before(process.next)
                   E == DOMAIN planned \cap Before(process.next + 1)
        <4>3. checked = [f \in D |-> cache[f]] /\ E = D \cup {Here}
          BY <2>2, <2>4, <3>2 DEF CleanSoFar
        <4>4. checked' = [f \in E |-> cache[f]]
          BY <4>2, <4>3 DEF Insert
        <4>5. \A f \in E : ~HasErrors(cache[f], Others(cache, f))
          BY <2>4, <4>3 DEF CleanSoFar, has
        <4> HIDE DEF E
        <4>6. CleanSoFar(checked', cache, E)
          BY <4>4, <4>5 DEF CleanSoFar
        <4> QED
          BY <2>1, <4>6 DEF E
      <3> QED
        BY <3>1, <3>2
    <2> QED
      BY <2>1, <2>4, <2>6, <2>7, <2>8 DEF AnalyzedSoFar
  <1>6. CASE EndCheck \/ EndBuild
    <2>1. /\ IsRunning(process) /\ process.command \in {"check", "build"}
          /\ process.stage = "analyze" /\ process.next > Len(FileOrder)
          /\ UNCHANGED <<text, planned, cache, checked, errors, environment>>
      BY <1>6, <1>r DEF EndCheck, EndBuild, Finishing, work
    <2>2. \/ process'.command = "none"
          \/ ~errors /\ process' = [process EXCEPT !.stage = "write"]
      BY <1>6, <1>e DEF EndCheck, EndBuild, Truncated, Fail
    <2> SUFFICES ASSUME Without({"vanish"}), ~errors,
                        process' = [process EXCEPT !.stage = "write"]
                 PROVE  AnalyzedSoFar'
      BY <2>1, <2>2, <1>k DEF AnalyzedSoFar, Without
    <2>3. process'.stage = "write"
      BY <2>1, UpdatedFields
    <2>4. /\ planned = [f \in DOMAIN planned |-> planned[f]] /\ DOMAIN planned \subseteq File
          /\ \A f \in DOMAIN planned : text[f] # Gone
          /\ "midrun" \notin environment => \A f \in DOMAIN planned : planned[f] = text[f]
          /\ Cached(cache, File, DOMAIN planned)
          /\ "midrun" \notin environment => \A f \in DOMAIN planned : cache[f] = planned[f]
          /\ CleanSoFar(checked, cache, DOMAIN planned \cap Before(process.next))
      BY <2>1 DEF AnalyzedSoFar, Compiling
    <2>5. CleanSoFar(checked, cache, DOMAIN planned)
      BY <2>1, <2>4, AllAnalyzed
    <2>6. Cached(cache', File, DOMAIN planned') /\ CleanSoFar(checked', cache', DOMAIN planned')
      BY <2>1, <2>4, <2>5
    <2> QED
      BY <2>1, <2>3, <2>4, <2>6 DEF AnalyzedSoFar
  <1>7. CASE WriteIndex \/ WritePackage
    BY <1>7, <1>e, <1>k DEF WriteIndex, WritePackage
  <1>8. CASE ParseFile \/ FmtRead \/ WriteFileAtomic \/ FilesEnd
    BY <1>8, <1>k, SourceSteps
  <1>9. ASSUME NEW g \in File, NEW t \in Text \cup {Gone}, SaveFile(g, t)
        PROVE  AnalyzedSoFar'
    <2>1. /\ UNCHANGED <<process, environment, planned, cache, checked, errors>>
          /\ text' = [text EXCEPT ![g] = t]
          /\ "midrun" \notin environment => process.command = "none"
          /\ t = Gone => "vanish" \in environment
      BY <1>9 DEF SaveFile, install, work, Idle
    <2> SUFFICES ASSUME Without({"vanish"}), Compiling({"cache", "analyze", "write"})
                 PROVE  AnalyzedSoFar'
      BY <2>1 DEF AnalyzedSoFar, Without, Compiling
    <2>2. t # Gone /\ "midrun" \in environment
      BY <2>1 DEF Without, Compiling
    <2>3. DOMAIN planned \subseteq File /\ \A f \in DOMAIN planned : text'[f] # Gone
      BY <2>1, <2>2 DEF AnalyzedSoFar, FileTypes
    <2> QED
      BY <2>1, <2>2, <2>3
      DEF AnalyzedSoFar, Compiling, Without
  <1> QED
    BY <1>1, <1>2, <1>3, <1>4, <1>5, <1>6, <1>7, <1>8, <1>9, Zenon
    DEF CommandStep, CheckFile, BuildFile

(* What stays on disk is clean, and comes from what a command had cached.  *)
LEMMA ArtifactsKept ==
  ASSUME InstallTypes, AnalyzedSoFar, ArtifactsAreClean, [Next]_allvars
  PROVE  ArtifactsAreClean'
  <1>k. ASSUME UNCHANGED <<environment, index, built>>
        PROVE  ArtifactsAreClean'
    BY <1>k DEF ArtifactsAreClean, Without, CleanTogether
  <1>1. CASE ~CommandStep
    BY <1>1, <1>k, ProjectSteps DEF commands
  <1>2. CASE \/ \E command \in {"check", "build", "parse", "fmt"}, flag \in BOOLEAN :
                   RunCommand(command, flag)
             \/ PlanLoad \/ CacheFile \/ CheckFile \/ BuildFile
             \/ ParseFile \/ FmtRead \/ WriteFileAtomic \/ FilesEnd
             \/ \E f \in File, t \in Text \cup {Gone} : SaveFile(f, t)
    BY <1>2, <1>k, SourceSteps
    DEF RunCommand, PlanLoad, CacheFile, CheckFile, BuildFile, Analyze, SaveFile
  <1>3. CASE EndCheck
    <2>1. UNCHANGED <<environment, built>> /\ (index' = index \/ index' = Torn)
      BY <1>3 DEF EndCheck
    <2> QED
      BY <2>1 DEF ArtifactsAreClean, Without
  <1>4. CASE EndBuild
    <2>1. UNCHANGED <<environment, index>> /\ (built' = built \/ built' = Torn)
      BY <1>4 DEF EndBuild
    <2> QED
      BY <2>1 DEF ArtifactsAreClean, Without
  <1>5. ASSUME Without({"vanish"}), process.command \in {"check", "build"}, process.stage = "write"
        PROVE  /\ CleanTogether(checked) /\ DOMAIN checked = DOMAIN planned
               /\ "midrun" \notin environment => Indexed = checked
    <2>1. /\ planned = [f \in DOMAIN planned |-> planned[f]] /\ DOMAIN planned \subseteq File
          /\ Cached(cache, File, DOMAIN planned) /\ CleanSoFar(checked, cache, DOMAIN planned)
          /\ "midrun" \notin environment => \A f \in DOMAIN planned : cache[f] = planned[f]
      BY <1>5 DEF AnalyzedSoFar, Compiling
    <2>2. CleanTogether(checked) /\ DOMAIN checked = DOMAIN planned
      BY <2>1, CleanIsTogether
    <2>3. \A f \in DOMAIN planned : checked[f] = cache[f] /\ Facts[cache[f]].parses
      BY <2>1 DEF CleanSoFar, HasErrors
    <2>4. ASSUME "midrun" \notin environment
          PROVE  Indexed = checked
      <3>1. {g \in DOMAIN planned : Facts[planned[g]].parses} = DOMAIN planned
        BY <2>1, <2>3, <2>4
      <3> QED
        BY <2>1, <2>4, <3>1 DEF Indexed, CleanSoFar
    <2> QED
      BY <2>2, <2>4
  <1>6. CASE WriteIndex
    <2>1. UNCHANGED <<environment, built>> /\ index' = Indexed
      BY <1>6 DEF WriteIndex
    <2>2. Without({"vanish"}) /\ "midrun" \notin environment => CleanTogether(Indexed)
      BY <1>5, <1>6 DEF WriteIndex
    <2> QED
      BY <2>1, <2>2 DEF ArtifactsAreClean, Without, CleanTogether
  <1>7. CASE WritePackage
    <2>1. /\ UNCHANGED <<environment, index>>
          /\ built'.files = DOMAIN planned /\ built'.texts = checked
      BY <1>7 DEF WritePackage
    <2>2. Without({"vanish"}) => CleanTogether(checked) /\ DOMAIN checked = DOMAIN planned
      BY <1>5, <1>7 DEF WritePackage
    <2> QED
      BY <2>1, <2>2 DEF ArtifactsAreClean, Without
  <1> QED
    BY <1>1, <1>2, <1>3, <1>4, <1>6, <1>7, Zenon DEF CommandStep

LEMMA AnalysisIsSound == Spec => [](InstallTypes /\ AnalyzedSoFar /\ ArtifactsAreClean)
<1>1. Init => AnalyzedSoFar /\ ArtifactsAreClean
  BY EndedIsIdle DEF Init, Start, AnalyzedSoFar, ArtifactsAreClean, Compiling
<1>2. /\ InstallTypes /\ FileTypes /\ AnalyzedSoFar /\ ArtifactsAreClean /\ [Next]_allvars
         => AnalyzedSoFar' /\ ArtifactsAreClean'
  BY AnalyzedSoFarKept, ArtifactsKept
<1> QED
  BY <1>1, <1>2, FilesAreTyped, PTL DEF Spec

(* A verdict without errors is about one state of the project, although    *)
(* the editor saves between the plan, the reading and the checking: the    *)
(* texts the files were checked as are the texts the others saw.           *)
THEOREM VerdictsAreOnOneSnapshot == Spec => []VerdictIsOnOneSnapshot
<1>1. InstallTypes /\ AnalyzedSoFar => VerdictIsOnOneSnapshot
  <2> SUFFICES ASSUME InstallTypes, AnalyzedSoFar, Without({"vanish"}),
                      process.command \in {"check", "build"}, process.stage = "analyze",
                      process.next > Len(FileOrder), ~errors
               PROVE  CleanTogether(checked)
    BY DEF VerdictIsOnOneSnapshot
  <2>1. /\ DOMAIN planned \subseteq File /\ Cached(cache, File, DOMAIN planned)
        /\ CleanSoFar(checked, cache, DOMAIN planned \cap Before(process.next))
    BY DEF AnalyzedSoFar, Compiling
  <2>2. CleanSoFar(checked, cache, DOMAIN planned)
    BY <2>1, AllAnalyzed
  <2> QED
    BY <2>1, <2>2, CleanIsTogether
<1> QED
  BY <1>1, AnalysisIsSound, PTL

(* What check and build leave on disk, when they were not cut short, comes *)
(* from texts that check clean together: a failing command keeps the       *)
(* artifact of an earlier one, no error of an early file is forgotten, and *)
(* a package leaves out none of the files it was planned for.              *)
THEOREM ArtifactsStayClean == Spec => []ArtifactsAreClean
  BY AnalysisIsSound, PTL
=============================================================================
