------------------------------- MODULE Commands -------------------------------
(***************************************************************************)
(* `deal check`, `deal build` and `deal fmt` over the source files of the  *)
(* project Install sets up.  Check and build plan the load, read every     *)
(* file of the closure once into a cache, analyze each against the cached  *)
(* others, and write one artifact at the end; fmt rewrites file by file.   *)
(* The editor may save a file between any two steps, and the command may   *)
(* be killed.  Which files the closure has is ImportClosure's question;    *)
(* here it is all of them.                                                 *)
(***************************************************************************)
EXTENDS Install

CONSTANTS
    FileOrder,      \* the files in the order plan.analyze lists them
    Text,           \* what a file may contain
    Facts,          \* Text -> [parses, declares, refers, formatted]
    Versions,       \* file -> the texts the editor may save in it
    Excluded,       \* the files under [workspace].exclude
    Gone            \* the content of a file that is not there

VARIABLES
    text,           \* file -> Text, Torn or Gone
    index,          \* .deal/index.json: Absent, Torn, or the texts it lists
    built,          \* the package: likewise, and which files it was planned for
    saved,          \* file -> what the editor last saved
    planned,        \* the texts the plan parsed
    cache,          \* the texts read after planning, Gone when unreadable
    checked,        \* the texts analyzed so far
    errors          \* any_errors, any_sema_errors, would_change

work == <<planned, cache, checked, errors>>
commands == <<text, index, built, saved, work>>
allvars == <<install, environment, events, commands>>

File == ToSet(FileOrder)
Nothing == [f \in {} |-> Gone]

(* What a missing file has is no text, nor is what a torn one has.  What   *)
(* parses is formatted to a text that is its own formatting                *)
(* (fmt_roundtrip.zig).                                                    *)
ASSUME TextAssumption ==
    /\ FileOrder \in Seq(File)
    /\ Gone \notin Text /\ Torn \notin Text /\ Gone # Torn
    /\ \A t \in Text : Facts[t].parses =>
          /\ Facts[t].formatted \in Text
          /\ Facts[Facts[t].formatted].formatted = Facts[t].formatted

-----------------------------------------------------------------------------
(* Sema on one text, with the sources of the other closure files given as  *)
(* a function: it must parse, what it refers to be declared by it or by    *)
(* one of them, and what it declares by it alone.                          *)
HasErrors(t, externals) ==
    LET others == UNION {Facts[externals[g]].declares : g \in DOMAIN externals}
    IN  \/ ~Facts[t].parses
        \/ ~(Facts[t].refers \subseteq Facts[t].declares \cup others)
        \/ Facts[t].declares \cap others # {}

Others(texts, f) == [g \in {h \in DOMAIN texts \ {f} : texts[h] # Gone} |-> texts[g]]

(* externals_for: every other file of the closure the cache holds.         *)
ExternalsFor(f) == Others(cache, f)

AtFile(command, stage) ==
    /\ process.command \in command /\ process.stage = stage
    /\ process.next <= Len(FileOrder)

Here == FileOrder[process.next]
NextFile == [process EXCEPT !.next = @ + 1]

-----------------------------------------------------------------------------
(* The E2402 gate: a manifest that parses, and the directories of its git  *)
(* dependencies; build has no gate.  No files at all is a user error.      *)
GatePasses ==
    manifest \in {NoManifest, Invalid}
        \/ \A d \in GitDeps(manifest) : clone[d] # Absent

RunCommand(command, flag) ==
    /\ StartCommand(command, flag)
    /\ errors' = FALSE
    /\ planned' = Nothing /\ cache' = Nothing /\ checked' = Nothing
    /\ UNCHANGED <<environment, manifest, scaffold, remote, clone, lock, settled, text, index, built, saved>>

(* Discovery: the .deal and .dealx files there are, without the excluded   *)
(* ones; a manifest that does not parse excludes nothing.                  *)
Discovered ==
    {f \in File : text[f] # Gone} \ (IF manifest \in {NoManifest, Invalid} THEN {} ELSE Excluded)

PlanLoad ==
    /\ process.command \in {"check", "build"} /\ process.stage = "start"
    /\ LET readable == Discovered
           refused == process.command = "check" /\ ~GatePasses
       IN  IF refused \/ readable = {}
           THEN Fail /\ UNCHANGED planned
           ELSE /\ planned' = [f \in readable |-> text[f]]
                /\ process' = [process EXCEPT !.stage = "cache"]
    /\ UNCHANGED <<environment, manifest, scaffold, remote, clone, lock, settled, events,
                   text, index, built, saved, cache, checked, errors>>

(* A closure file that cannot be read is left out of the cache.            *)
CacheFile ==
    /\ AtFile({"check", "build"}, "cache")
    /\ cache' = Insert(cache, Here, IF Here \in DOMAIN planned THEN text[Here] ELSE Gone)
    /\ process' = IF process.next < Len(FileOrder) THEN NextFile
                  ELSE [process EXCEPT !.stage = "analyze", !.next = 1]
    /\ UNCHANGED <<environment, manifest, scaffold, remote, clone, lock, settled, events,
                   text, index, built, saved, planned, checked, errors>>

(* Mutants: the file is read again; only the last file's errors count.     *)
RereadBytes(f) == text[f]

RememberLast(has) == has

SourceBytes(f) == IF cache[f] # Gone THEN cache[f] ELSE text[f]

Remember(has) == errors \/ has

(* One file, checked strictly against the cached others; whether it has    *)
(* errors is kept.  Check notes its diagnostics and goes on; build lowers  *)
(* what checked clean.  A file that cannot be read now either is an        *)
(* internal error.                                                         *)
Analyze(command, alsoBroken) ==
    /\ AtFile({command}, "analyze")
    /\ IF Here \notin DOMAIN planned
       THEN process' = NextFile /\ UNCHANGED <<checked, errors>>
       ELSE IF SourceBytes(Here) = Gone
       THEN process' = Ended("internal") /\ UNCHANGED <<checked, errors>>
       ELSE LET has == HasErrors(SourceBytes(Here), ExternalsFor(Here))
            IN  /\ errors' = Remember(has)
                /\ checked' = IF alsoBroken \/ ~has THEN Insert(checked, Here, SourceBytes(Here)) ELSE checked
                /\ process' = NextFile
    /\ UNCHANGED <<environment, manifest, scaffold, remote, clone, lock, settled, events,
                   text, index, built, saved, planned, cache>>

CheckFile == Analyze("check", TRUE)
BuildFile == Analyze("build", FALSE)

Finishing(command) ==
    /\ process.command = command /\ process.stage = "analyze"
    /\ process.next > Len(FileOrder)

Truncated == [process EXCEPT !.stage = "write"]

(* The end of a check: errors leave the old index alone; given a directory *)
(* it is rewritten.  fs::write truncates here, the next step fills it.     *)
EndCheck ==
    /\ Finishing("check")
    /\ IF ~errors /\ process.flag
       THEN index' = Torn /\ process' = Truncated
       ELSE process' = Ended(IF errors THEN "user" ELSE "ok") /\ UNCHANGED index
    /\ UNCHANGED <<environment, manifest, scaffold, remote, clone, lock, settled, events,
                   text, built, saved, work>>

Indexed == [f \in {g \in DOMAIN planned : Facts[planned[g]].parses} |-> planned[f]]

WriteIndex ==
    /\ process.command = "check" /\ process.stage = "write"
    /\ index' = Indexed
    /\ process' = Ended("ok")
    /\ UNCHANGED <<environment, manifest, scaffold, remote, clone, lock, settled, events,
                   text, built, saved, work>>

(* The end of a build: errors block the package, and with --validate the   *)
(* schema may refuse it.                                                   *)
EndBuild ==
    /\ Finishing("build")
    /\ \/ /\ errors \/ process.flag
          /\ Fail
          /\ UNCHANGED built
       \/ /\ ~errors
          /\ built' = Torn /\ process' = Truncated
    /\ UNCHANGED <<environment, manifest, scaffold, remote, clone, lock, settled, events,
                   text, index, saved, work>>

WritePackage ==
    /\ process.command = "build" /\ process.stage = "write"
    /\ built' = [files |-> DOMAIN planned, texts |-> checked]
    /\ process' = Ended("ok")
    /\ UNCHANGED <<environment, manifest, scaffold, remote, clone, lock, settled, events,
                   text, index, saved, work>>

-----------------------------------------------------------------------------
(* run_parse prints the syntax tree of one file after the other, up to the *)
(* first that cannot be read or does not parse.                            *)
ParseFile ==
    /\ AtFile({"parse"}, "start")
    /\ process' = CASE text[Here] = Gone -> Ended("internal")
                    [] text[Here] # Gone /\ ~Facts[text[Here]].parses -> Ended("user")
                    [] OTHER -> NextFile
    /\ UNCHANGED <<environment, manifest, scaffold, remote, clone, lock, settled, events, commands>>

(* run_fmt, past its identity gate: read, format and either compare        *)
(* (--check) or, when it differs, replace the file.  A text that does not  *)
(* parse ends the command; what was formatted before stays.                *)
FmtRead ==
    /\ process.command = "fmt" /\ process.stage \in {"start", "read"}
    /\ process.next <= Len(FileOrder)
    /\ LET t == text[Here]
       IN  CASE t = Gone -> process' = Ended("internal") /\ UNCHANGED <<cache, errors>>
             [] t # Gone /\ ~Facts[t].parses -> Fail /\ UNCHANGED <<cache, errors>>
             [] t # Gone /\ Facts[t].parses ->
                  /\ errors' = (errors \/ (process.flag /\ Facts[t].formatted # t))
                  /\ cache' = [f \in {Here} |-> Facts[t].formatted]
                  /\ process' = IF process.flag \/ Facts[t].formatted = t
                                THEN [NextFile EXCEPT !.stage = "read"]
                                ELSE [process EXCEPT !.stage = "rename"]
    /\ UNCHANGED <<environment, manifest, scaffold, remote, clone, lock, settled, events,
                   text, index, built, saved, planned, checked>>

(* Mutant: the file itself is truncated first, as its comment's fallback   *)
(* ("falls back to plain write") would.                                    *)
PlainWrite ==
    /\ process.command = "fmt" /\ process.stage = "rename"
    /\ IF text[Here] = Torn
       THEN /\ text' = [text EXCEPT ![Here] = cache[Here]]
            /\ process' = [NextFile EXCEPT !.stage = "read"]
       ELSE text' = [text EXCEPT ![Here] = Torn] /\ UNCHANGED process
    /\ UNCHANGED <<environment, manifest, scaffold, remote, clone, lock, settled, events, index, built, saved, work>>

(* write_file_atomic: the temporary file was written; rename replaces.     *)
WriteFileAtomic ==
    /\ process.command = "fmt" /\ process.stage = "rename"
    /\ text' = [text EXCEPT ![Here] = cache[Here]]
    /\ process' = [NextFile EXCEPT !.stage = "read"]
    /\ UNCHANGED <<environment, manifest, scaffold, remote, clone, lock, settled, events, index, built, saved, work>>

FilesEnd ==
    /\ process.command \in {"parse", "fmt"} /\ process.stage # "rename"
    /\ process.next > Len(FileOrder)
    /\ process' = Ended(IF errors THEN "user" ELSE "ok")
    /\ UNCHANGED <<environment, manifest, scaffold, remote, clone, lock, settled, events, commands>>

-----------------------------------------------------------------------------
(* The editor saves, or moves away, a file; "midrun" while a command runs. *)
SaveFile(f, t) ==
    /\ Event("edit")
    /\ Idle \/ "midrun" \in environment
    /\ t = Gone => "vanish" \in environment
    /\ t # text[f]
    /\ t \in Versions[f] \cup {Gone}
    /\ text' = [text EXCEPT ![f] = t]
    /\ saved' = [saved EXCEPT ![f] = t]
    /\ UNCHANGED <<install, environment, index, built, work>>

(* Nothing installed, nothing built, no command run yet.                   *)
Start ==
    /\ environment \in Environments
    /\ scaffold = 0
    /\ clone = [d \in Names |-> Absent]
    /\ lock = Absent
    /\ process = Ended("none")
    /\ settled = Absent
    /\ events = 0
    /\ saved = text
    /\ index = Absent /\ built = Absent
    /\ planned = Nothing /\ cache = Nothing /\ checked = Nothing
    /\ errors = FALSE

(* Any project over any remotes.                                           *)
Init ==
    /\ manifest \in Manifests \cup {NoManifest}
    /\ remote \in [Url -> [Refs -> Commit \cup {Absent}]]
    /\ text \in [File -> Text \cup {Gone}]
    /\ Start

CommandStep ==
    \/ \E command \in {"check", "build", "parse", "fmt"}, flag \in BOOLEAN : RunCommand(command, flag)
    \/ PlanLoad \/ CacheFile \/ CheckFile \/ BuildFile
    \/ EndCheck \/ WriteIndex \/ EndBuild \/ WritePackage
    \/ ParseFile \/ FmtRead \/ WriteFileAtomic \/ FilesEnd
    \/ \E f \in File, t \in Text \cup {Gone} : SaveFile(f, t)

Next ==
    \/ RunInit /\ UNCHANGED commands
    \/ RefuseNonEmpty /\ UNCHANGED commands
    \/ InitStep /\ UNCHANGED commands
    \/ RunInstall /\ UNCHANGED commands
    \/ ReadManifest /\ UNCHANGED commands
    \/ Undeclared /\ UNCHANGED commands
    \/ CloneDep /\ UNCHANGED commands
    \/ CheckoutDep /\ UNCHANGED commands
    \/ ResolvePath /\ UNCHANGED commands
    \/ RefuseVersion /\ UNCHANGED commands
    \/ TruncateLock /\ UNCHANGED commands
    \/ WriteLock /\ UNCHANGED commands
    \/ FreshCheckout /\ UNCHANGED commands
    \/ Kill /\ UNCHANGED commands
    \/ \E m \in Manifests : EditManifest(m) /\ UNCHANGED commands
    \/ \E url \in Url, ref \in Tag \cup Branch, commit \in Commit :
          PushCommit(url, ref, commit) /\ UNCHANGED commands
    \/ CommandStep

Spec == Init /\ [][Next]_allvars

-----------------------------------------------------------------------------
CleanTogether(texts) == \A f \in DOMAIN texts : ~HasErrors(texts[f], Others(texts, f))

(* A verdict without errors is about one state of the project: the texts   *)
(* each file was checked as are the texts the others saw of it, although   *)
(* the editor saves between the plan, the reading and the checking.        *)
VerdictIsOnOneSnapshot ==
    /\ Without({"vanish"})
    /\ process.command \in {"check", "build"} /\ process.stage = "analyze"
    /\ process.next > Len(FileOrder)
    /\ ~errors
    => CleanTogether(checked)

(* What a command leaves on disk, when it was not cut short, comes from    *)
(* texts that check clean together: a failing command keeps the artifact   *)
(* of an earlier one, no error of an early file is forgotten, and no file  *)
(* with errors is left out of a package in silence.  The index lists what  *)
(* planning parsed, so only without edits during it.                       *)
ArtifactsAreClean ==
    Without({"vanish"}) =>
        /\ built \notin {Absent, Torn} =>
              DOMAIN built.texts = built.files /\ CleanTogether(built.texts)
        /\ "midrun" \notin environment /\ index \notin {Absent, Torn} => CleanTogether(index)

(* Formatting never leaves a file half written, even when it is killed or  *)
(* a later file does not parse, and never replaces a text by anything but  *)
(* its own formatting (an edit during the command may be overwritten).     *)
SourcesStayWhole ==
    \A f \in File :
        /\ text[f] # Torn
        /\ "midrun" \notin environment /\ text[f] # saved[f] =>
              text[f] = Facts[saved[f]].formatted
=============================================================================
