----------------------------- MODULE SkillInstall -----------------------------
\* How a skill gets into the workspace and out of it: the install_skill tool
\* (goroutines of the gateway, under the tool's mutex), and the commands of
\* tinyclaw skills, a second process on the same directory. One directory is
\* modelled; a skill is the files in it, each tagged with who wrote it. Removing a
\* directory always succeeds here. Source: pkg/tools/skills_install.go,
\* pkg/skills/{installer,loader,clawhub_registry}.go, pkg/utils/{download,zip}.go,
\* cmd/tinyclaw/internal/skills/helpers.go.
EXTENDS Naturals

CONSTANTS
  Tools,       \* goroutines that call install_skill of one agent
  Cli,         \* the command
  Files,       \* files of the skill, SKILL.md among them
  Manifest,    \* SKILL.md
  MaxInstalls  \* bound: operations begun

\* The command is no goroutine of the gateway, and writers have names of their own.
ASSUME InstallAssumption ==
  /\ Cli \notin Tools /\ Manifest \in Files
  /\ {"nobody", "github", "builtin"} \cap (Tools \cup {Cli}) = {}

VARIABLES
  made, files,  \* the directory exists; its files: [by, checked] each
  flag,         \* what the registry knows of the skill: "clean", "suspicious" or "blocked"
  mu,           \* holder of the tool's mutex
  iPc, job,     \* step of each actor and its [kind, force, blocked, checked, left]
  installs,     \* operations begun
  disturbed     \* history: an operation met another or was cut short

installVars == <<made, files, flag, mu, iPc, job, installs, disturbed>>

Nobody == "nobody"
Actors == Tools \cup {Cli}
NoFiles == [f \in {} |-> Nobody]
NoJob == [kind |-> "none", force |-> FALSE, blocked |-> FALSE, checked |-> FALSE, left |-> {}]
-----------------------------------------------------------------------------
InstallInit ==
  /\ made = FALSE /\ files = NoFiles /\ mu = Nobody
  /\ flag \in {"clean", "suspicious", "blocked"}
  /\ iPc = [a \in Actors |-> "idle"] /\ job = [a \in Actors |-> NoJob]
  /\ installs = 0 /\ disturbed = FALSE

At(a, l) == iPc[a] = l
Goto(a, l) == iPc' = [iPc EXCEPT ![a] = l]

\* The end of an operation; the deferred Unlock is the tool's.
Done(a) ==
  /\ Goto(a, "idle") /\ job' = [job EXCEPT ![a] = NoJob]
  /\ mu' = IF mu = a THEN Nobody ELSE mu

\* Others that have begun to look at or change the directory.
Busy(a) == \E b \in Actors \ {a} : iPc[b] \notin {"idle", "lock"}

Keep == UNCHANGED <<made, files, flag, installs, disturbed>>
RemoveAll == made' = FALSE /\ files' = NoFiles
WriteFile(f, a, checked) ==
  files' = [g \in DOMAIN files \cup {f} |-> IF g = f THEN [by |-> a, checked |-> checked] ELSE files[g]]
-----------------------------------------------------------------------------
\* Installing from a registry, by the tool or the command.

\* The arguments: the identifiers are valid or the call ends.
Begin(a, kind, force) ==
  /\ At(a, "idle") /\ installs < MaxInstalls
  /\ installs' = installs + 1
  /\ job' = [job EXCEPT ![a] = [NoJob EXCEPT !.kind = kind, !.force = force]]
  /\ Goto(a, IF a \in Tools THEN "lock" ELSE "check")
  /\ disturbed' = (disturbed \/ (a = Cli /\ Busy(a)))
  /\ UNCHANGED <<made, files, flag, mu>>

\* Mutant: the mutex is not taken.
LockNot(a) ==
  /\ At(a, "lock")
  /\ Goto(a, "check") /\ disturbed' = (disturbed \/ ~At(Cli, "idle"))
  /\ UNCHANGED <<made, files, flag, mu, job, installs>>

Lock(a) ==
  /\ At(a, "lock") /\ mu = Nobody /\ mu' = a
  /\ Goto(a, "check") /\ disturbed' = (disturbed \/ ~At(Cli, "idle"))
  /\ UNCHANGED <<made, files, flag, job, installs>>

Install(a) == job[a].kind = "registry"

InvalidIdentifier(a) == At(a, "check") /\ Install(a) /\ Done(a) /\ Keep

\* os.Stat: an installed skill is not replaced unless forced to.
AlreadyInstalled(a) == At(a, "check") /\ made /\ ~job[a].force /\ Done(a) /\ Keep

\* Forced, the tool removes the old skill before it knows that a new one comes.
CheckTarget(a) ==
  /\ At(a, "check") /\ Install(a) /\ (made => job[a].force)
  /\ IF job[a].force THEN RemoveAll ELSE UNCHANGED <<made, files>>
  /\ Goto(a, "meta")
  /\ UNCHANGED <<flag, mu, job, installs, disturbed>>

UnknownRegistry(a) == At(a, "meta") /\ Done(a) /\ Keep

\* GetSkillMeta: its failure is not an error, the skill then counts as clean.
GetSkillMeta(a) ==
  /\ At(a, "meta")
  /\ \E known \in BOOLEAN :
       job' = [job EXCEPT ![a].checked = known, ![a].blocked = known /\ flag = "blocked"]
  /\ Goto(a, "download") /\ Keep /\ UNCHANGED mu

\* DownloadToFile; then the archive is opened and the directory made.
DownloadToFile(a) ==
  /\ At(a, "download")
  /\ \/ Goto(a, "failed") /\ UNCHANGED <<made, job>>
     \/ Goto(a, "extract") /\ made' = TRUE /\ job' = [job EXCEPT ![a].left = Files]
  /\ UNCHANGED <<files, flag, mu, installs, disturbed>>

\* extractSingleFile. If another process removed the directory meanwhile, MkdirAll
\* of the entry's directory brings it back.
ExtractSingleFile(a) ==
  /\ At(a, "extract")
  /\ \E f \in job[a].left :
       \/ /\ made' = TRUE /\ WriteFile(f, a, job[a].checked)
          /\ job' = [job EXCEPT ![a].left = @ \ {f}] /\ UNCHANGED iPc
       \/ Goto(a, "failed") /\ UNCHANGED <<made, files, job>>
  /\ UNCHANGED <<flag, mu, installs, disturbed>>

\* The error paths remove what was extracted.
InstallFails(a) ==
  /\ At(a, "failed") /\ RemoveAll /\ Done(a)
  /\ UNCHANGED <<flag, installs, disturbed>>

\* All files are there: a skill flagged as malicious is removed, else the origin
\* is recorded.
Extracted(a) ==
  /\ At(a, "extract") /\ job[a].left = {}
  /\ IF job[a].blocked THEN RemoveAll ELSE UNCHANGED <<made, files>>
  /\ Done(a) /\ UNCHANGED <<flag, installs, disturbed>>
-----------------------------------------------------------------------------
\* The other commands.

\* InstallFromGitHub: SKILL.md alone; a write that fails leaves the directory.
FetchFromGitHub ==
  /\ At(Cli, "check") /\ job[Cli].kind = "github" /\ ~made
  /\ \/ Done(Cli)
     \/ Goto(Cli, "write") /\ UNCHANGED <<job, mu>>
  /\ Keep

WriteFromGitHub ==
  /\ At(Cli, "write") /\ made' = TRUE
  /\ \/ WriteFile(Manifest, "github", FALSE) /\ UNCHANGED disturbed
     \/ UNCHANGED files /\ disturbed' = TRUE
  /\ Done(Cli) /\ UNCHANGED <<flag, installs>>

\* Uninstall.
Uninstall ==
  /\ At(Cli, "check") /\ job[Cli].kind = "remove"
  /\ IF made THEN RemoveAll ELSE UNCHANGED <<made, files>>
  /\ Done(Cli) /\ UNCHANGED <<flag, installs, disturbed>>

\* skillsInstallBuiltinCmd: copied over whatever is there, file by file.
CopyBegins ==
  /\ At(Cli, "check") /\ job[Cli].kind = "builtin"
  /\ made' = TRUE /\ job' = [job EXCEPT ![Cli].left = Files] /\ Goto(Cli, "copy")
  /\ UNCHANGED <<files, flag, mu, installs, disturbed>>

CopyFile ==
  /\ At(Cli, "copy") /\ job[Cli].left # {}
  /\ \/ \E f \in job[Cli].left :
          /\ WriteFile(f, "builtin", FALSE)
          /\ job' = [job EXCEPT ![Cli].left = @ \ {f}]
          /\ UNCHANGED <<iPc, mu, disturbed>>
     \/ Done(Cli) /\ disturbed' = TRUE /\ UNCHANGED files
  /\ UNCHANGED <<made, flag, installs>>

CopyEnds == At(Cli, "copy") /\ job[Cli].left = {} /\ Done(Cli) /\ Keep

\* A process dies: the gateway with its goroutines and the mutex, or the command.
Killed ==
  /\ \E dead \in {Tools, {Cli}} :
       /\ \E a \in dead : ~At(a, "idle")
       /\ disturbed' = (disturbed \/ \E a \in dead : iPc[a] \notin {"idle", "lock", "check"})
       /\ iPc' = [a \in Actors |-> IF a \in dead THEN "idle" ELSE iPc[a]]
       /\ job' = [a \in Actors |-> IF a \in dead THEN NoJob ELSE job[a]]
       /\ mu' = IF mu \in dead THEN Nobody ELSE mu
  /\ UNCHANGED <<made, files, flag, installs>>

InstallNext ==
  \/ \E a \in Tools : (\E force \in BOOLEAN : Begin(a, "registry", force)) \/ Lock(a)
  \/ \E kind \in {"registry", "github", "remove", "builtin"} : Begin(Cli, kind, FALSE)
  \/ \E a \in Actors :
       \/ InvalidIdentifier(a) \/ CheckTarget(a) \/ UnknownRegistry(a) \/ GetSkillMeta(a)
       \/ (Install(a) \/ job[a].kind = "github") /\ AlreadyInstalled(a)
       \/ DownloadToFile(a) \/ ExtractSingleFile(a) \/ Extracted(a) \/ InstallFails(a)
  \/ FetchFromGitHub \/ WriteFromGitHub \/ Uninstall \/ CopyBegins \/ CopyFile \/ CopyEnds
  \/ Killed

InstallSpec == InstallInit /\ [][InstallNext]_installVars
-----------------------------------------------------------------------------
\* The loader. Each source is the table of its directories: the name its
\* SKILL.md gives and whether name and description are valid. The global and the
\* built-in directory hold a skill of the same name under another directory.
Workspace == [d \in IF Manifest \in DOMAIN files THEN {"s"} ELSE {} |-> [name |-> "s", valid |-> TRUE]]
Global    == [d \in {"g"} |-> [name |-> "s", valid |-> TRUE]]
Builtin   == [d \in {"s", "u"} |-> IF d = "s" THEN [name |-> "t", valid |-> TRUE] ELSE [name |-> "", valid |-> FALSE]]
SkillDirs == <<Workspace, Global, Builtin>>

\* ListSkills: of the valid skills of one name the one of the first source.
ListSkills(sources) ==
  LET shown(i) == {d \in DOMAIN sources[i] :
        /\ sources[i][d].valid
        /\ \A j \in 1 .. i - 1 : \A e \in DOMAIN sources[j] :
             ~(sources[j][e].valid /\ sources[j][e].name = sources[i][d].name)}
  IN UNION {{<<i, d>> : d \in shown(i)} : i \in DOMAIN sources}

\* LoadSkill: the first source with a directory of the name.
LoadSkill(sources, name) ==
  {i \in DOMAIN sources : name \in DOMAIN sources[i] /\ \A j \in 1 .. i - 1 : name \notin DOMAIN sources[j]}

\* While nobody is at work and nothing was cut short, the skill that the agent is
\* shown from the workspace is whole, comes from one writer, and is not one whose
\* registry said it is malicious: it is either a copy that no registry was asked
\* about or one whose moderation could not be looked up.
InstalledIsWhole ==
  (~disturbed /\ (\A a \in Actors : iPc[a] \in {"idle", "lock"}) /\ <<1, "s">> \in ListSkills(SkillDirs)) =>
    /\ LoadSkill(SkillDirs, "s") = {1}
    /\ \E w \in Actors \cup {"github", "builtin"} :
         /\ \A f \in DOMAIN files : files[f].by = w \/ files[f].by = "builtin"
         /\ DOMAIN files = Files \/ (w = "github" /\ Manifest \in DOMAIN files)
         /\ flag = "blocked" /\ w \in Actors => ~files[Manifest].checked
================================================================================
