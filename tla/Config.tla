------------------------------- MODULE Config -------------------------------
(***************************************************************************)
(* The airshipctl configuration file and the "config" commands that change *)
(* it (pkg/config, cmd/config), run by several processes at once.          *)
(*                                                                         *)
(* A command reads the whole file, changes its copy, and writes the whole  *)
(* copy back: open with truncation, then write, then chmod.  Reading and   *)
(* changing the copy is one step (nobody else sees the copy); every file   *)
(* system call that others can observe is a step of its own.               *)
(***************************************************************************)
EXTENDS Naturals

CONSTANTS
    Procs,                        \* airshipctl processes
    CtxNames, ManNames, RepoNames,
    DefaultCtx, DefaultMan, DefaultRepo,
    None,                         \* the empty string, as a name
    Absent,                       \* no such map entry; no such file
    Torn,                         \* a file truncated and not yet written
    Mixed,                        \* two writers over each other, not YAML
    MaxCmds                       \* bound: commands of one history

ASSUME DefaultsAssumption ==
    DefaultCtx \in CtxNames /\ DefaultMan \in ManNames /\ DefaultRepo \in RepoNames
ASSUME NamesAssumption ==
    /\ {None, Absent} \cap (CtxNames \cup ManNames \cup RepoNames) = {}
    /\ None # Absent
ASSUME CmdsAssumption == MaxCmds \in Nat

VARIABLES
    file,     \* the configuration file: one of Configs, Torn, Mixed or Absent
    pc,       \* pc[p]: next file system call of process p
    mem,      \* mem[p]: its copy of the configuration
    cmd,      \* cmd[p]: the command it runs
    outcome,  \* result[p]: what its last command returned
    writer,   \* the command that wrote the file last, or Two (observer)
    cmds      \* commands started so far

cfgVars == <<file, pc, mem, cmd, outcome, writer, cmds>>

-----------------------------------------------------------------------------
(* Configurations.                                                          *)

Refs == {"branch", "commit", "tag"}
MgmtTypes == {"redfish", "redfish-dell", "other"}

\* A repository is the set of its checkout options that are not empty.
Manifest == [phase : RepoNames,
             repos : [RepoNames -> {Absent} \cup (SUBSET Refs)]]

Configs == [contexts : [CtxNames -> ManNames \cup {None, Absent}],
            current : CtxNames \cup {None},
            manifests : [ManNames -> Manifest \cup {Absent}],
            mgmt : MgmtTypes]

OnlyDefaultRepo(refs) ==
    [phase |-> DefaultRepo,
     repos |-> [r \in RepoNames |-> IF r = DefaultRepo THEN refs ELSE Absent]]

NewManifest == OnlyDefaultRepo({})

NewConfig ==
    [contexts  |-> [c \in CtxNames |-> IF c = DefaultCtx THEN DefaultMan ELSE Absent],
     current   |-> DefaultCtx,
     manifests |-> [m \in ManNames |->
                      IF m = DefaultMan THEN OnlyDefaultRepo({"branch"}) ELSE Absent],
     mgmt      |-> "redfish"]

ASSUME FileAssumption == {Torn, Mixed, Absent} \cap Configs = {}
ASSUME AbsentAssumption == Absent \notin Manifest /\ \A S \in SUBSET Refs : Absent # S

\* EnsureComplete returns nil.
EnsureComplete(c) ==
    /\ \E x \in CtxNames : c.contexts[x] # Absent
    /\ \E m \in ManNames : c.manifests[m] # Absent
    /\ c.current \in CtxNames
    /\ c.contexts[c.current] \in ManNames
    /\ c.manifests[c.contexts[c.current]] # Absent

-----------------------------------------------------------------------------
(* Changes of the copy.                                                     *)

ContextOptions == [name : CtxNames, manifest : ManNames \cup {None}, set : BOOLEAN]

\* AddContext or ModifyContext; without --manifest a new context has none.
SetContext(c, o) ==
    LET old == c.contexts[o.name]
    IN  [c EXCEPT !.contexts[o.name] =
            IF o.set THEN o.manifest ELSE IF old = Absent THEN None ELSE old]

ManifestOptions == [name : ManNames, repo : RepoNames \cup {None}, url : BOOLEAN,
                    refs : SUBSET Refs, phase : BOOLEAN]

AtMostOne(S) == \A x, y \in S : x = y

\* ManifestOptions.Validate returns nil.
Validate(o) == (o.phase => o.repo # None) /\ AtMostOne(o.refs)

\* ModifyManifest: the manifest it leaves, and whether it returns an error.  The
\* fields are set before the checks.
ModifyManifest(man, o) ==
    LET man1 == IF o.phase THEN [man EXCEPT !.phase = o.repo] ELSE man
        old  == man.repos[o.repo]
        refs == (IF old = Absent THEN {} ELSE old) \cup o.refs
    IN  IF o.repo = None THEN [man |-> man1, err |-> FALSE]
        ELSE IF o.phase /\ ~o.url /\ old = Absent THEN [man |-> man1, err |-> TRUE]
        ELSE [man |-> [man1 EXCEPT !.repos[o.repo] = refs],
              err |-> refs = {} \/ ~AtMostOne(refs)]

\* RunSetManifest stops before it persists: only for a manifest that exists.
ModifyFailsMutant(c, o) == FALSE
ModifyFails(c, o) ==
    c.manifests[o.name] # Absent /\ ModifyManifest(c.manifests[o.name], o).err

SetManifest(c, o) ==
    LET old == IF c.manifests[o.name] = Absent THEN NewManifest ELSE c.manifests[o.name]
    IN  [c EXCEPT !.manifests[o.name] = ModifyManifest(old, o).man]

-----------------------------------------------------------------------------
(* Commands.                                                                *)

Commands == {"init", "init-overwrite", "set-context", "set-management-config",
             "use-context", "set-manifest"}
Two == "two processes"

Start(p, k) ==
    /\ pc[p] = "idle" /\ cmds < MaxCmds /\ cmds' = cmds + 1
    /\ cmd' = [cmd EXCEPT ![p] = k]
    /\ UNCHANGED <<file, writer>>

Fail(p, why) ==
    /\ outcome' = [outcome EXCEPT ![p] = why]
    /\ UNCHANGED <<pc, mem>>

\* PersistConfig(c): its file system calls are still to come.
Persist(p, c) ==
    /\ pc' = [pc EXCEPT ![p] = "persist"]
    /\ mem' = [mem EXCEPT ![p] = c]
    /\ outcome' = [outcome EXCEPT ![p] = "running"]

\* The factory: LoadConfig, whose error is fatal, and EnsureComplete.
LoadFails(p) ==
    \/ file \in {Absent, Mixed} /\ Fail(p, "fatal")
    \/ file = Torn /\ Fail(p, "incomplete")
    \/ file \in Configs /\ ~EnsureComplete(file) /\ Fail(p, "incomplete")

Loaded == file \in Configs /\ EnsureComplete(file)

\* config init: CreateConfig, whose PersistConfig first looks for the file.
ConfigInit(p, overwrite) ==
    /\ Start(p, IF overwrite THEN "init-overwrite" ELSE "init")
    /\ IF file # Absent /\ ~overwrite THEN Fail(p, "exists") ELSE Persist(p, NewConfig)

\* config set-context, --current included (the name is then the current one).
\* "Verify we didn't break anything": EnsureComplete, again, before persisting.
VerifiedMutant(c) == TRUE
Verified(c) == EnsureComplete(c)

RunSetContext(p, o) ==
    /\ Start(p, "set-context")
    /\ \/ LoadFails(p)
       \/ /\ Loaded
          /\ IF Verified(SetContext(file, o)) THEN Persist(p, SetContext(file, o))
             ELSE Fail(p, "error")

RunSetManagementConfig(p, t) ==
    /\ Start(p, "set-management-config")
    /\ \/ LoadFails(p)
       \/ /\ Loaded
          /\ IF Verified([file EXCEPT !.mgmt = t])
             THEN Persist(p, [file EXCEPT !.mgmt = t]) ELSE Fail(p, "error")

\* config use-context: persists without EnsureComplete.
RunUseContext(p, c) ==
    /\ Start(p, "use-context")
    /\ \/ LoadFails(p)
       \/ /\ Loaded
          /\ IF file.contexts[c] = Absent THEN Fail(p, "error")
             ELSE IF file.current = c THEN Fail(p, "ok")
             ELSE Persist(p, [file EXCEPT !.current = c])

RunSetManifest(p, o) ==
    /\ Start(p, "set-manifest")
    /\ \/ LoadFails(p)
       \/ /\ Loaded
          /\ IF ~Validate(o) \/ ModifyFails(file, o) THEN Fail(p, "error")
             ELSE Persist(p, SetManifest(file, o))

-----------------------------------------------------------------------------
(* PersistConfig.                                                           *)

End(p, why) ==
    /\ pc' = [pc EXCEPT ![p] = "idle"]
    /\ outcome' = [outcome EXCEPT ![p] = why]
    /\ UNCHANGED <<mem, cmd, cmds>>

\* Reporting the change, MkdirAll or Chmod of the directory fails.
MkdirFails(p) == pc[p] = "persist" /\ End(p, "error") /\ UNCHANGED <<file, writer>>

\* WriteFile opens the file and truncates it ...
Truncate(p) ==
    /\ pc[p] = "persist" /\ pc' = [pc EXCEPT ![p] = "write"]
    /\ file' = Torn
    /\ UNCHANGED <<mem, cmd, outcome, writer, cmds>>

\* What a reader gets from the text of c followed by the tail of a longer text
\* old: the keys are in alphabetical order and a repeated key wins.
Overlaid(c, old) ==
    {[c EXCEPT !.manifests = old.manifests],
     [c EXCEPT !.manifests = old.manifests, !.mgmt = old.mgmt],
     [c EXCEPT !.manifests = old.manifests, !.mgmt = old.mgmt, !.current = old.current]}

\* ... and writes it from the start, over what another process may have
\* written there in between.
Write(p) ==
    /\ pc[p] = "write" /\ pc' = [pc EXCEPT ![p] = "chmod"]
    /\ \/ file' = mem[p] /\ writer' = cmd[p]
       \/ file # Torn /\ file' = Mixed /\ writer' = Two
       \/ file \in Configs /\ file' \in Overlaid(mem[p], file) /\ writer' = Two
    /\ UNCHANGED <<mem, cmd, outcome, cmds>>

\* The write fails (no space left): the file stays as the truncation left it.
WriteFails(p) == pc[p] = "write" /\ End(p, "error") /\ UNCHANGED <<file, writer>>

\* Chmod of the file fails or succeeds.
Chmod(p) ==
    /\ pc[p] = "chmod"
    /\ End(p, "ok") \/ End(p, "error")
    /\ UNCHANGED <<file, writer>>

\* The process is killed, or the machine stops.
Crash(p) == pc[p] # "idle" /\ End(p, "crashed") /\ UNCHANGED <<file, writer>>

-----------------------------------------------------------------------------
CfgInit ==
    /\ file \in {NewConfig, Absent}
    /\ pc = [p \in Procs |-> "idle"]
    /\ mem = [p \in Procs |-> NewConfig]
    /\ cmd = [p \in Procs |-> "init"]
    /\ outcome = [p \in Procs |-> "none"]
    /\ writer = "init" /\ cmds = 0

CfgNext ==
    \E p \in Procs :
      \/ \E w \in BOOLEAN : ConfigInit(p, w)
      \/ \E o \in ContextOptions : RunSetContext(p, o)
      \/ \E t \in MgmtTypes : RunSetManagementConfig(p, t)
      \/ \E c \in CtxNames : RunUseContext(p, c)
      \/ \E o \in ManifestOptions : RunSetManifest(p, o)
      \/ MkdirFails(p) \/ Truncate(p) \/ Write(p) \/ WriteFails(p) \/ Chmod(p) \/ Crash(p)

CfgSpec == CfgInit /\ [][CfgNext]_cfgVars

-----------------------------------------------------------------------------
(* Properties.                                                              *)

Results == {"none", "running", "ok", "error", "fatal", "incomplete", "exists", "crashed"}

CfgTypeOK ==
    /\ file \in Configs \cup {Torn, Mixed, Absent}
    /\ pc \in [Procs -> {"idle", "persist", "write", "chmod"}]
    /\ mem \in [Procs -> Configs]
    /\ cmd \in [Procs -> Commands] /\ writer \in Commands \cup {Two}
    /\ outcome \in [Procs -> Results]
    /\ cmds \in 0..MaxCmds

\* Whatever the interleaving of commands and crashes, a configuration in the
\* file passes EnsureComplete, unless use-context wrote it or two processes wrote
\* over each other: a command that read a torn, overlaid or incomplete file never
\* writes it back.
FileComplete ==
    (file \in Configs /\ writer \notin {"use-context", Two}) => EnsureComplete(file)

ManifestOneCheckout(man) ==
    \A r \in RepoNames : man.repos[r] # Absent => AtMostOne(man.repos[r])
OneCheckout(c) ==
    \A m \in ManNames : c.manifests[m] # Absent => ManifestOneCheckout(c.manifests[m])

\* Every repository in the file has at most one of branch, commit and tag, although
\* ModifyRepository sets the fields before it checks them (config.go:462).
AtMostOneCheckout == file \in Configs => OneCheckout(file)

\* Any command after "config use-context" can load the file: GetCurrentContext
\* says of a missing context "this should not happen since Ensure Complete checks
\* for this" (pkg/config/config.go:309).
FileStaysComplete == file \in Configs => EnsureComplete(file)

\* The phase repository of a manifest is one of its repositories: "when setting an
\* existing repository as phase, verify whether the repository exists"
\* (pkg/config/config.go:430).
PhaseRepoExists ==
    file \in Configs =>
        \A m \in ManNames : file.manifests[m] # Absent =>
            file.manifests[m].repos[file.manifests[m].phase] # Absent

=============================================================================
