---------------------------- MODULE ConfigProofs ----------------------------
(***************************************************************************)
(* Proofs about the two files that one command leaves for the next: the    *)
(* configuration of airshipctl (Config), for any number of processes,      *)
(* names and commands, and the kubeconfig of a site (Kubeconfig), for any  *)
(* cluster maps, requests, orders of the clusters and depth of recursion:  *)
(* what is built, and that a build descends to its end.                    *)
(***************************************************************************)
EXTENDS Config, Kubeconfig, SequenceTheorems, FiniteSetTheorems, WellFoundedInduction, TLAPS

-----------------------------------------------------------------------------
(* Config.  The properties of the file rest on what is true of the copies   *)
(* that are on their way into it, so the inductive invariant is about both. *)

\* The copy of a process between its load and its last file system call.
MemInv ==
    \A p \in Procs : pc[p] # "idle" =>
        /\ cmd[p] # "use-context" => EnsureComplete(mem[p])
        /\ OneCheckout(mem[p])

IndInv == CfgTypeOK /\ MemInv /\ FileComplete /\ AtMostOneCheckout

-----------------------------------------------------------------------------
(* The changes of a copy.                                                   *)

\* config init starts from a complete configuration (utils.go:26).
LEMMA NewConfigGood ==
    NewConfig \in Configs /\ EnsureComplete(NewConfig) /\ OneCheckout(NewConfig)
<1> USE DefaultsAssumption, NamesAssumption, AbsentAssumption
<1>1. OnlyDefaultRepo({"branch"}) \in Manifest
  BY DEF OnlyDefaultRepo, Manifest, Refs
<1>2. ManifestOneCheckout(OnlyDefaultRepo({"branch"}))
  BY DEF OnlyDefaultRepo, ManifestOneCheckout, AtMostOne
<1>3. NewConfig \in Configs
  BY <1>1 DEF NewConfig, Configs, MgmtTypes
<1>4. EnsureComplete(NewConfig)
  BY <1>1 DEF NewConfig, EnsureComplete
<1>5. OneCheckout(NewConfig)
  BY <1>2 DEF NewConfig, OneCheckout
<1> QED BY <1>3, <1>4, <1>5

\* AddContext and ModifyContext touch neither manifests nor checkouts.
LEMMA SetContextGood ==
    ASSUME NEW c \in Configs, NEW o \in ContextOptions
    PROVE  /\ SetContext(c, o) \in Configs
           /\ OneCheckout(c) => OneCheckout(SetContext(c, o))
<1>1. SetContext(c, o) \in Configs
  BY DEF SetContext, Configs, ContextOptions
<1>2. SetContext(c, o).manifests = c.manifests
  BY DEF SetContext, Configs
<1> QED BY <1>1, <1>2 DEF OneCheckout

\* ModifyManifest keeps the type whenever it is reached.
LEMMA ModifyManifestType ==
    ASSUME NEW man \in Manifest, NEW o \in ManifestOptions, Validate(o)
    PROVE  ModifyManifest(man, o).man \in Manifest
<1>1. o.phase => o.repo \in RepoNames
  BY DEF ManifestOptions, Validate
<1> DEFINE man1 == IF o.phase THEN [man EXCEPT !.phase = o.repo] ELSE man
           old == man.repos[o.repo]
           refs == (IF old = Absent THEN {} ELSE old) \cup o.refs
<1>2. man1 \in Manifest
  BY <1>1 DEF Manifest
<1>3. CASE o.repo = None
  BY <1>2, <1>3 DEF ModifyManifest
<1>4. CASE o.repo # None
  <2>1. o.repo \in RepoNames
    BY <1>4 DEF ManifestOptions
  <2>2. old \in {Absent} \cup (SUBSET Refs)
    BY <2>1 DEF Manifest
  <2>3. refs \in SUBSET Refs
    BY <2>2 DEF ManifestOptions
  <2> HIDE DEF man1, refs, old
  <2>4. [man1 EXCEPT !.repos[o.repo] = refs] \in Manifest
    BY <1>2, <2>1, <2>3 DEF Manifest
  <2> QED BY <1>2, <1>4, <2>4 DEF ModifyManifest, man1, refs, old
<1> QED BY <1>3, <1>4

\* Fields are set before they are checked (config.go:462); what an error leaves
\* behind has more than one checkout only if it had a checkout before.
LEMMA ModifyManifestCheckout ==
    ASSUME NEW man \in Manifest, NEW o \in ManifestOptions, Validate(o),
           ManifestOneCheckout(man),
           \/ ~ModifyManifest(man, o).err
           \/ \A r \in RepoNames : man.repos[r] \in {{}, Absent}
    PROVE  ManifestOneCheckout(ModifyManifest(man, o).man)
<1> DEFINE man1 == IF o.phase THEN [man EXCEPT !.phase = o.repo] ELSE man
           old == man.repos[o.repo]
           refs == (IF old = Absent THEN {} ELSE old) \cup o.refs
           mod == ModifyManifest(man, o)
<1>1. man1.repos = man.repos
  BY DEF Manifest
<1>2. ManifestOneCheckout(man1)
  BY <1>1 DEF ManifestOneCheckout
<1>3. CASE mod.man = man1
  BY <1>2, <1>3
<1>4. CASE /\ o.repo # None
           /\ mod = [man |-> [man1 EXCEPT !.repos[o.repo] = refs],
                        err |-> refs = {} \/ ~AtMostOne(refs)]
  <2>1. o.repo \in RepoNames
    BY <1>4 DEF ManifestOptions
  <2>2. AtMostOne(refs)
    <3>1. CASE ~mod.err
      <4>1. mod.err = (refs = {} \/ ~AtMostOne(refs))
        BY <1>4
      <4> QED BY <3>1, <4>1
    <3>2. CASE \A r \in RepoNames : man.repos[r] \in {{}, Absent}
      <4>1. refs = o.refs
        BY <2>1, <3>2
      <4> QED BY <4>1 DEF Validate
    <3> QED BY <3>1, <3>2
  <2> HIDE DEF man1, refs, old
  <2>3. man1.repos \in [RepoNames -> {Absent} \cup (SUBSET Refs)]
    BY <1>1 DEF Manifest
  <2>4. /\ DOMAIN man1 = {"phase", "repos"}
    BY DEF Manifest, man1
  <2>5. \A r \in RepoNames :
          mod.man.repos[r] = IF r = o.repo THEN refs ELSE man1.repos[r]
    BY <1>4, <2>1, <2>3, <2>4
  <2> QED BY <1>2, <2>2, <2>5 DEF ManifestOneCheckout
<1> QED BY <1>3, <1>4 DEF ModifyManifest

\* set-manifest keeps a complete configuration complete and every repository at
\* one checkout, although AddManifest ignores the error of ModifyManifest.
LEMMA SetManifestGood ==
    ASSUME NEW c \in Configs, NEW o \in ManifestOptions,
           EnsureComplete(c), OneCheckout(c), Validate(o), ~ModifyFails(c, o)
    PROVE  /\ SetManifest(c, o) \in Configs
           /\ EnsureComplete(SetManifest(c, o))
           /\ OneCheckout(SetManifest(c, o))
<1> USE DefaultsAssumption, NamesAssumption, AbsentAssumption
<1> DEFINE old == IF c.manifests[o.name] = Absent THEN NewManifest
                  ELSE c.manifests[o.name]
           new == ModifyManifest(old, o).man
<1>1. o.name \in ManNames /\ c.manifests \in [ManNames -> Manifest \cup {Absent}]
  BY DEF ManifestOptions, Configs
<1>2. NewManifest \in Manifest
  BY DEF NewManifest, OnlyDefaultRepo, Manifest
<1>3. \A r \in RepoNames : NewManifest.repos[r] \in {{}, Absent}
  BY DEF NewManifest, OnlyDefaultRepo
<1>4. ManifestOneCheckout(NewManifest)
  BY <1>3 DEF ManifestOneCheckout, AtMostOne
<1>5. old \in Manifest
  BY <1>1, <1>2
<1>6. ManifestOneCheckout(old)
  BY <1>1, <1>4 DEF OneCheckout
<1>7. new \in Manifest
  BY <1>5, ModifyManifestType
<1>8. ManifestOneCheckout(new)
  <2>1. CASE c.manifests[o.name] = Absent
    <3>1. old = NewManifest
      BY <2>1
    <3> HIDE DEF old
    <3> QED BY <3>1, <1>2, <1>3, <1>4, ModifyManifestCheckout
  <2>2. CASE c.manifests[o.name] # Absent
    <3>1. ~ModifyManifest(old, o).err
      BY <2>2 DEF ModifyFails
    <3> HIDE DEF old
    <3> QED BY <3>1, <1>5, <1>6, ModifyManifestCheckout
  <2> QED BY <2>1, <2>2
<1>9. SetManifest(c, o) = [c EXCEPT !.manifests[o.name] = new]
  BY DEF SetManifest
<1> HIDE DEF new
<1>10. SetManifest(c, o) \in Configs
  BY <1>1, <1>7, <1>9 DEF Configs
<1>11. /\ SetManifest(c, o).contexts = c.contexts
       /\ SetManifest(c, o).current = c.current
       /\ \A m \in ManNames : SetManifest(c, o).manifests[m] =
            IF m = o.name THEN new ELSE c.manifests[m]
  BY <1>1, <1>9 DEF Configs
<1>12. EnsureComplete(SetManifest(c, o))
  BY <1>1, <1>7, <1>11 DEF EnsureComplete
<1>13. OneCheckout(SetManifest(c, o))
  BY <1>8, <1>11 DEF OneCheckout
<1> QED BY <1>10, <1>12, <1>13

\* The tail of one configuration after another is a configuration, and its
\* manifests come from one of the two.
LEMMA OverlaidGood ==
    ASSUME NEW c \in Configs, NEW old \in Configs, NEW d \in Overlaid(c, old)
    PROVE  d \in Configs /\ (OneCheckout(old) => OneCheckout(d))
<1>1. d \in Configs /\ d.manifests = old.manifests
  BY DEF Overlaid, Configs
<1> QED BY <1>1 DEF OneCheckout

-----------------------------------------------------------------------------
(* The commands.                                                            *)

\* A command that ends before it persists leaves the invariant alone.
LEMMA FailStep ==
    ASSUME IndInv, NEW p \in Procs, NEW k \in Commands, NEW why \in Results,
           Start(p, k), Fail(p, why)
    PROVE  IndInv'
<1>1. CfgTypeOK'
  BY CmdsAssumption DEF IndInv, CfgTypeOK, Start, Fail
<1>2. MemInv'
  BY DEF IndInv, CfgTypeOK, MemInv, Start, Fail
<1>3. FileComplete' /\ AtMostOneCheckout'
  BY DEF IndInv, FileComplete, AtMostOneCheckout, Start
<1> QED BY <1>1, <1>2, <1>3 DEF IndInv

\* A command that goes on to persist a good copy.
LEMMA PersistStep ==
    ASSUME IndInv, NEW p \in Procs, NEW k \in Commands, NEW c \in Configs,
           Start(p, k), Persist(p, c),
           k # "use-context" => EnsureComplete(c), OneCheckout(c)
    PROVE  IndInv'
<1>1. CfgTypeOK'
  BY CmdsAssumption DEF IndInv, CfgTypeOK, Start, Persist, Results
<1>2. MemInv'
  BY DEF IndInv, CfgTypeOK, MemInv, Start, Persist
<1>3. FileComplete' /\ AtMostOneCheckout'
  BY DEF IndInv, FileComplete, AtMostOneCheckout, Start
<1> QED BY <1>1, <1>2, <1>3 DEF IndInv

\* A file that cannot be loaded ends the command.
LEMMA LoadFailsStep ==
    ASSUME IndInv, NEW p \in Procs, NEW k \in Commands, Start(p, k), LoadFails(p)
    PROVE  IndInv'
<1>1. \E why \in {"fatal", "incomplete"} : Fail(p, why)
  BY DEF LoadFails
<1> QED BY <1>1, FailStep DEF Results

\* Every command, up to its first file system call.
LEMMA CommandStep ==
    ASSUME IndInv, NEW p \in Procs,
           \/ \E w \in BOOLEAN : ConfigInit(p, w)
           \/ \E o \in ContextOptions : RunSetContext(p, o)
           \/ \E t \in MgmtTypes : RunSetManagementConfig(p, t)
           \/ \E c \in CtxNames : RunUseContext(p, c)
           \/ \E o \in ManifestOptions : RunSetManifest(p, o)
    PROVE  IndInv'
<1> USE DEF Commands, Results
<1>1. ASSUME NEW w \in BOOLEAN, ConfigInit(p, w) PROVE IndInv'
  BY <1>1, NewConfigGood, FailStep, PersistStep DEF ConfigInit
<1>2. ASSUME NEW o \in ContextOptions, RunSetContext(p, o) PROVE IndInv'
  <2>1. CASE LoadFails(p)
    BY <1>2, <2>1, LoadFailsStep DEF RunSetContext
  <2>2. CASE Loaded
    <3>1. file \in Configs /\ OneCheckout(file)
      BY <2>2 DEF Loaded, IndInv, AtMostOneCheckout
    <3>2. SetContext(file, o) \in Configs /\ OneCheckout(SetContext(file, o))
      BY <3>1, SetContextGood
    <3> QED BY <1>2, <2>2, <3>2, LoadFailsStep, FailStep, PersistStep
            DEF RunSetContext, Verified
  <2> QED BY <1>2, <2>1, <2>2 DEF RunSetContext
<1>3. ASSUME NEW t \in MgmtTypes, RunSetManagementConfig(p, t) PROVE IndInv'
  <2>1. CASE LoadFails(p)
    BY <1>3, <2>1, LoadFailsStep DEF RunSetManagementConfig
  <2>2. CASE Loaded
    <3>1. file \in Configs /\ OneCheckout(file)
      BY <2>2 DEF Loaded, IndInv, AtMostOneCheckout
    <3> DEFINE c == [file EXCEPT !.mgmt = t]
    <3>2. c \in Configs /\ c.manifests = file.manifests
      BY <3>1, <1>3 DEF Configs
    <3>3. OneCheckout(c)
      BY <3>1, <3>2 DEF OneCheckout
    <3> HIDE DEF c
    <3> QED BY <1>3, <2>2, <3>2, <3>3, LoadFailsStep, FailStep, PersistStep
            DEF RunSetManagementConfig, Verified, c
  <2> QED BY <1>3, <2>1, <2>2 DEF RunSetManagementConfig
<1>4. ASSUME NEW x \in CtxNames, RunUseContext(p, x) PROVE IndInv'
  <2>1. CASE LoadFails(p)
    BY <1>4, <2>1, LoadFailsStep DEF RunUseContext
  <2>2. CASE Loaded
    <3>1. file \in Configs /\ OneCheckout(file)
      BY <2>2 DEF Loaded, IndInv, AtMostOneCheckout
    <3> DEFINE c == [file EXCEPT !.current = x]
    <3>2. c \in Configs /\ c.manifests = file.manifests
      BY <3>1, <1>4 DEF Configs
    <3>3. OneCheckout(c)
      BY <3>1, <3>2 DEF OneCheckout
    <3> HIDE DEF c
    <3> QED BY <1>4, <2>2, <3>2, <3>3, LoadFailsStep, FailStep, PersistStep
            DEF RunUseContext, c
  <2> QED BY <1>4, <2>1, <2>2 DEF RunUseContext
<1>5. ASSUME NEW o \in ManifestOptions, RunSetManifest(p, o) PROVE IndInv'
  <2>1. CASE LoadFails(p)
    BY <1>5, <2>1, LoadFailsStep DEF RunSetManifest
  <2>2. CASE Loaded
    <3>1. file \in Configs /\ EnsureComplete(file) /\ OneCheckout(file)
      BY <2>2 DEF Loaded, IndInv, AtMostOneCheckout
    <3>2. CASE Validate(o) /\ ~ModifyFails(file, o)
      <4>1. /\ SetManifest(file, o) \in Configs
            /\ EnsureComplete(SetManifest(file, o))
            /\ OneCheckout(SetManifest(file, o))
        BY <3>1, <3>2, SetManifestGood
      <4> QED BY <1>5, <2>2, <3>2, <4>1, LoadFailsStep, PersistStep DEF RunSetManifest
    <3>3. CASE ~Validate(o) \/ ModifyFails(file, o)
      BY <1>5, <2>2, <3>3, LoadFailsStep, FailStep DEF RunSetManifest
    <3> QED BY <3>2, <3>3
  <2> QED BY <1>5, <2>1, <2>2 DEF RunSetManifest
<1> QED BY <1>1, <1>2, <1>3, <1>4, <1>5

-----------------------------------------------------------------------------
(* The file system calls.                                                   *)

\* A command that ends without touching the file.
LEMMA EndStep ==
    ASSUME IndInv, NEW p \in Procs, NEW why \in Results,
           End(p, why), UNCHANGED <<file, writer>>
    PROVE  IndInv'
<1>1. CfgTypeOK'
  BY DEF IndInv, CfgTypeOK, End
<1>2. MemInv'
  BY DEF IndInv, CfgTypeOK, MemInv, End
<1>3. FileComplete' /\ AtMostOneCheckout'
  BY DEF IndInv, FileComplete, AtMostOneCheckout
<1> QED BY <1>1, <1>2, <1>3 DEF IndInv

\* The truncation leaves no configuration in the file.
LEMMA TruncateStep ==
    ASSUME IndInv, NEW p \in Procs, Truncate(p)
    PROVE  IndInv'
<1>1. CfgTypeOK'
  BY DEF IndInv, CfgTypeOK, Truncate
<1>2. MemInv'
  BY DEF IndInv, CfgTypeOK, MemInv, Truncate
<1>3. FileComplete' /\ AtMostOneCheckout'
  BY FileAssumption DEF FileComplete, AtMostOneCheckout, Truncate
<1> QED BY <1>1, <1>2, <1>3 DEF IndInv

\* A write puts a good copy, an overlay of two or no configuration in the file.
LEMMA WriteStep ==
    ASSUME IndInv, NEW p \in Procs, Write(p)
    PROVE  IndInv'
<1>0. /\ pc[p] = "write" /\ pc' = [pc EXCEPT ![p] = "chmod"]
      /\ UNCHANGED <<mem, cmd, outcome, cmds>>
      /\ mem[p] \in Configs /\ cmd[p] \in Commands
  BY DEF IndInv, CfgTypeOK, Write
<1>1. /\ cmd[p] # "use-context" => EnsureComplete(mem[p])
      /\ OneCheckout(mem[p])
  BY <1>0 DEF IndInv, MemInv
<1>2. MemInv'
  BY <1>0 DEF IndInv, CfgTypeOK, MemInv
<1>3. (file' \in Configs \cup {Mixed} /\ writer' \in Commands \cup {Two}) => CfgTypeOK'
  BY <1>0 DEF IndInv, CfgTypeOK
<1>4. CASE file' = mem[p] /\ writer' = cmd[p]
  BY <1>0, <1>1, <1>2, <1>3, <1>4 DEF IndInv, FileComplete, AtMostOneCheckout
<1>5. CASE file' = Mixed /\ writer' = Two
  BY <1>2, <1>3, <1>5, FileAssumption DEF IndInv, FileComplete, AtMostOneCheckout
<1>6. CASE file \in Configs /\ file' \in Overlaid(mem[p], file) /\ writer' = Two
  <2>1. file' \in Configs /\ OneCheckout(file')
    BY <1>0, <1>6, OverlaidGood DEF IndInv, AtMostOneCheckout
  <2> QED BY <1>2, <1>3, <1>6, <2>1 DEF IndInv, FileComplete, AtMostOneCheckout
<1> QED BY <1>4, <1>5, <1>6 DEF Write

-----------------------------------------------------------------------------
(* The theorems.                                                            *)

LEMMA InitIndInv == CfgInit => IndInv
<1> SUFFICES ASSUME CfgInit PROVE IndInv
  OBVIOUS
<1>1. CfgTypeOK
  BY NewConfigGood, CmdsAssumption DEF CfgInit, CfgTypeOK, Commands, Results
<1>2. MemInv
  BY DEF CfgInit, MemInv
<1>3. FileComplete /\ AtMostOneCheckout
  BY NewConfigGood, FileAssumption DEF CfgInit, FileComplete, AtMostOneCheckout
<1> QED BY <1>1, <1>2, <1>3 DEF IndInv

LEMMA NextIndInv == IndInv /\ [CfgNext]_cfgVars => IndInv'
<1> SUFFICES ASSUME IndInv, [CfgNext]_cfgVars PROVE IndInv'
  OBVIOUS
<1>1. CASE UNCHANGED cfgVars
  BY <1>1 DEF cfgVars, IndInv, CfgTypeOK, MemInv, FileComplete, AtMostOneCheckout
<1>2. CASE CfgNext
  <2>1. PICK p \in Procs :
          \/ \E w \in BOOLEAN : ConfigInit(p, w)
          \/ \E o \in ContextOptions : RunSetContext(p, o)
          \/ \E t \in MgmtTypes : RunSetManagementConfig(p, t)
          \/ \E c \in CtxNames : RunUseContext(p, c)
          \/ \E o \in ManifestOptions : RunSetManifest(p, o)
          \/ MkdirFails(p) \/ Truncate(p) \/ Write(p) \/ WriteFails(p)
          \/ Chmod(p) \/ Crash(p)
    BY <1>2 DEF CfgNext
  <2>2. CASE MkdirFails(p) \/ WriteFails(p) \/ Chmod(p) \/ Crash(p)
    BY <2>2, EndStep DEF MkdirFails, WriteFails, Chmod, Crash, Results
  <2> QED BY <2>1, <2>2, CommandStep, TruncateStep, WriteStep
<1> QED BY <1>1, <1>2

LEMMA IndInvHolds == CfgSpec => []IndInv
BY InitIndInv, NextIndInv, PTL DEF CfgSpec

\* The variables keep their types; a manifest written to the file names a phase
\* repository, because ManifestOptions.Validate refuses --phase without --repo.
THEOREM ConfigTypeCorrect == CfgSpec => []CfgTypeOK
<1>1. IndInv => CfgTypeOK
  BY DEF IndInv
<1> QED BY <1>1, IndInvHolds, PTL

\* Whatever commands run side by side and wherever they crash, a configuration in
\* the file that neither use-context nor two racing writers produced passes
\* EnsureComplete (pkg/config/config.go:141).
THEOREM FileCompleteHolds == CfgSpec => []FileComplete
<1>1. IndInv => FileComplete
  BY DEF IndInv
<1> QED BY <1>1, IndInvHolds, PTL

\* No repository in the file has two of branch, commit and tag
\* (pkg/config/config.go:462), racing writers included.
THEOREM AtMostOneCheckoutHolds == CfgSpec => []AtMostOneCheckout
<1>1. IndInv => AtMostOneCheckout
  BY DEF IndInv
<1> QED BY <1>1, IndInvHolds, PTL

-----------------------------------------------------------------------------
(* Kubeconfig.                                                              *)

USE ClustersAssumption, MapsAssumption, StackAssumption

\* The source at hand of call f is the secret in the parent, a cluster of the map.
AtSecretSource(f) ==
    f.i <= Len(sources[f.c]) /\ sources[f.c][f.i] = "capi" /\ InMap(parent[f.c])

\* A call below another one waits for the kubeconfig of its parent, which that other
\* call builds; a call that reads the secret has it.
StackInv ==
    \A n \in 1..Len(stack) :
        /\ n < Len(stack) =>
             /\ stack[n].at = "try" /\ AtSecretSource(stack[n])
             /\ stack[n + 1].c = parent[stack[n].c]
        /\ stack[n].at = "secret" =>
             AtSecretSource(stack[n]) /\ AlreadyBuilt(parent[stack[n].c])

\* The client talks to a parent some cluster keeps its secret in.
ClientInv ==
    NoMixUp => client = NoCluster \/ \E c \in Clusters : Has(c, "capi") /\ client = parent[c]

\* With one parent and names of their own all servers are the ones meant.
NoMixUpInv == NoMixUp => AlwaysGenuine /\ client # Wrong

TypeInv == TypeOK /\ StackInv

-----------------------------------------------------------------------------
(* The stack of calls.                                                      *)

\* The stack without its last call.
LEMMA BelowFacts ==
    ASSUME stack \in Seq(Frames), stack # <<>>
    PROVE  /\ Len(stack) \in Nat \ {0} /\ Frame \in Frames
           /\ Below \in Seq(Frames) /\ Len(Below) = Len(stack) - 1
           /\ \A n \in 1..Len(stack) - 1 : Below[n] = stack[n]
<1>1. Len(stack) \in Nat \ {0}
  BY EmptySeq
<1>2. Frame \in Frames
  BY <1>1 DEF Frame
<1>3. /\ Below \in Seq(Frames) /\ Len(Below) = Len(stack) - 1
      /\ \A n \in 1..Len(stack) - 1 : Below[n] = stack[n]
  <2>1. \A n \in 1..Len(stack) - 1 : stack[n] \in Frames
    BY <1>1
  <2>2. QED
    <3> DEFINE k == Len(stack) - 1
    <3>1. k \in Nat /\ 1 \in Int /\ k \in Int /\ \A n \in 1..k : stack[n] \in Frames
      BY <1>1, <2>1
    <3> HIDE DEF k
    <3>2. /\ SubSeq(stack, 1, k) \in Seq(Frames)
          /\ Len(SubSeq(stack, 1, k)) = IF 1 <= k THEN k - 1 + 1 ELSE 0
          /\ \A n \in 1..k - 1 + 1 : SubSeq(stack, 1, k)[n] = stack[1 + n - 1]
      BY <3>1, SubSeqProperties
    <3>3. /\ Len(SubSeq(stack, 1, k)) = k
          /\ \A n \in 1..k : SubSeq(stack, 1, k)[n] = stack[n]
      BY <3>1, <3>2
    <3> QED
      BY <3>2, <3>3 DEF k, Below
<1> QED
  BY <1>1, <1>2, <1>3

LEMMA SkippedType == ASSUME NEW f \in Frames PROVE Skipped(f) \in Frames /\ Skipped(f).at = "try"
<1>1. f.i + 1 \in Nat \ {0}
  BY DEF Frames
<1>2. [f EXCEPT !.i = f.i + 1] \in Frames
  BY <1>1 DEF Frames
<1> QED
  BY <1>1 DEF Frames, Skipped

\* The next source of the call at hand.
LEMMA SourceFailsStack ==
    ASSUME TypeInv, stack # <<>>, SourceFails, UNCHANGED <<parent, sources>>
    PROVE  stack' \in Seq(Frames) /\ Len(stack') = Len(stack) /\ StackInv'
<1>1. /\ Len(stack) \in Nat \ {0} /\ Frame \in Frames
      /\ Below \in Seq(Frames) /\ Len(Below) = Len(stack) - 1
      /\ \A n \in 1..Len(stack) - 1 : Below[n] = stack[n]
  BY BelowFacts DEF TypeInv, TypeOK
<1>2. Skipped(Frame) \in Frames /\ Skipped(Frame).at = "try"
  BY <1>1, SkippedType
<1>3. /\ stack' \in Seq(Frames) /\ Len(stack') = Len(stack)
      /\ \A n \in 1..Len(stack) - 1 : stack'[n] = stack[n]
      /\ stack'[Len(stack)] = Skipped(Frame)
  BY <1>1, <1>2 DEF SourceFails
<1>4. Skipped(Frame).c = Frame.c
  BY <1>1 DEF Skipped, Frames
<1>5. site' = site
  BY DEF SourceFails
<1>6. \A n \in 1..Len(stack) : stack'[n].c = stack[n].c /\ stack'[n].at \in {"try", stack[n].at}
  BY <1>1, <1>2, <1>3, <1>4 DEF Frame
<1>7. ASSUME NEW n \in 1..Len(stack)
      PROVE  /\ n < Len(stack) => /\ stack'[n].at = "try" /\ AtSecretSource(stack[n])
                                  /\ stack'[n] = stack[n]
                                  /\ stack'[n + 1].c = parent[stack[n].c]
             /\ stack'[n].at = "try"
  <2>1. n < Len(stack) => n \in 1..Len(stack) - 1 /\ n + 1 \in 1..Len(stack)
    BY <1>1
  <2>2. n < Len(stack) \/ n = Len(stack)
    BY <1>1
  <2>3. n < Len(stack) => /\ stack[n].at = "try" /\ AtSecretSource(stack[n])
                          /\ stack[n + 1].c = parent[stack[n].c]
    BY DEF TypeInv, StackInv
  <2> QED
    BY <1>2, <1>3, <1>6, <2>1, <2>2, <2>3
<1>8. StackInv'
  BY <1>1, <1>3, <1>5, <1>7 DEF StackInv, AtSecretSource, AlreadyBuilt, InMap
<1> QED
  BY <1>3, <1>8

\* A call that returns a kubeconfig lets the call below it read its secret.
LEMMA ReturnsStack ==
    ASSUME TypeInv, stack # <<>>, NEW d \in Clusters \cup {Wrong}, Returns(d),
           UNCHANGED <<parent, sources>>
    PROVE  stack' \in Seq(Frames) /\ Len(stack') <= Len(stack) /\ StackInv'
<1>1. /\ Len(stack) \in Nat \ {0} /\ Frame \in Frames
      /\ Below \in Seq(Frames) /\ Len(Below) = Len(stack) - 1
      /\ \A n \in 1..Len(stack) - 1 : Below[n] = stack[n]
  BY BelowFacts DEF TypeInv, TypeOK
<1>2. CASE Len(stack) = 1
  BY <1>2 DEF Returns, LoopGoesOn, StackInv
<1>3. CASE Len(stack) # 1
  <2> DEFINE k == Len(stack) - 1
             g == [stack[k] EXCEPT !.at = "secret"]
  <2>1. k \in Nat \ {0} /\ stack[k] \in Frames /\ stack' = [Below EXCEPT ![k].at = "secret"]
    BY <1>1, <1>3 DEF Returns, TypeInv, TypeOK
  <2>2. g \in Frames /\ g.c = stack[k].c /\ g.i = stack[k].i /\ g.at = "secret"
    BY <2>1 DEF Frames
  <2>3. /\ stack' \in Seq(Frames) /\ Len(stack') = k /\ stack'[k] = g
        /\ \A n \in 1..k - 1 : stack'[n] = stack[n]
    <3> HIDE DEF k
    <3>1. Below[k] = stack[k] /\ Len(Below) = k
      BY <1>1, <2>1 DEF k
    <3>2. stack' = [Below EXCEPT ![k] = g]
      BY <2>1, <3>1
    <3> QED
      BY <1>1, <2>1, <2>2, <3>1, <3>2 DEF k
  <2>4. AtSecretSource(stack[k]) /\ Frame.c = parent[stack[k].c]
    BY <1>1, <2>1 DEF TypeInv, StackInv, Frame
  <2>5. site'[parent[stack[k].c]] # NoCluster
    <3>1. site'[Frame.c] = d
      BY <1>1 DEF Returns, mergeContextAPI, Frames
    <3> QED
      BY <2>4, <3>1
  <2>6. \A n \in 1..k - 1 : /\ stack[n].at = "try" /\ AtSecretSource(stack[n])
                            /\ stack[n + 1].c = parent[stack[n].c]
    BY <1>1, <2>1 DEF TypeInv, StackInv
  <2> HIDE DEF k, g
  <2>7. \A n \in 1..k - 1 : stack'[n + 1].c = stack[n + 1].c
    <3> SUFFICES ASSUME NEW n \in 1..k - 1 PROVE stack'[n + 1].c = stack[n + 1].c
      OBVIOUS
    <3>1. n + 1 = k \/ n + 1 \in 1..k - 1
      BY <2>1
    <3> QED
      BY <2>2, <2>3, <3>1
  <2>8. ASSUME NEW n \in 1..k
        PROVE  /\ n < k => /\ stack'[n].at = "try" /\ AtSecretSource(stack[n])
                           /\ stack'[n] = stack[n]
                           /\ stack'[n + 1].c = parent[stack[n].c]
               /\ stack'[n].at = "secret" => n = k
    <3>1. CASE n = k
      BY <3>1, <2>1
    <3>2. CASE n \in 1..k - 1
      BY <3>2, <2>3, <2>6, <2>7
    <3> QED
      BY <2>1, <3>1, <3>2
  <2>9. StackInv'
    BY <2>2, <2>3, <2>4, <2>5, <2>8 DEF StackInv, AtSecretSource, AlreadyBuilt, InMap
  <2> QED
    BY <1>1, <2>1, <2>3, <2>9 DEF k
<1> QED
  BY <1>2, <1>3

\* A call without further sources makes the call below it try its next one.
LEMMA AllSourcesFailedStack ==
    ASSUME TypeInv, AllSourcesFailed
    PROVE  stack' \in Seq(Frames) /\ Len(stack') <= Len(stack) /\ StackInv'
<1>1. /\ Len(stack) \in Nat \ {0} /\ Frame \in Frames
      /\ Below \in Seq(Frames) /\ Len(Below) = Len(stack) - 1
      /\ \A n \in 1..Len(stack) - 1 : Below[n] = stack[n]
  BY BelowFacts DEF AllSourcesFailed, Trying, TypeInv, TypeOK
<1>2. UNCHANGED <<parent, sources, site>>
  BY DEF AllSourcesFailed, Quiet, siteVars
<1>3. CASE Len(stack) = 1
  BY <1>3 DEF AllSourcesFailed, LoopGoesOn, StackInv
<1>4. CASE Len(stack) # 1
  <2> DEFINE k == Len(stack) - 1
             g == Skipped(stack[k])
  <2>1. k \in Nat \ {0} /\ stack[k] \in Frames /\ stack' = [Below EXCEPT ![k] = Skipped(Below[k])]
    BY <1>1, <1>4 DEF AllSourcesFailed, TypeInv, TypeOK
  <2>2. g \in Frames /\ g.at = "try" /\ g.c = stack[k].c
    BY <2>1, SkippedType DEF Skipped, Frames
  <2>3. \A n \in 1..k - 1 : /\ stack[n].at = "try" /\ AtSecretSource(stack[n])
                            /\ stack[n + 1].c = parent[stack[n].c]
    <3> SUFFICES ASSUME NEW n \in 1..k - 1
                 PROVE  /\ stack[n].at = "try" /\ AtSecretSource(stack[n])
                        /\ stack[n + 1].c = parent[stack[n].c]
      OBVIOUS
    <3>1. n \in 1..Len(stack) /\ n < Len(stack)
      BY <1>1
    <3> QED
      BY <3>1 DEF TypeInv, StackInv
  <2> HIDE DEF k
  <2>4. /\ stack' \in Seq(Frames) /\ Len(stack') = k /\ stack'[k] = g
        /\ \A n \in 1..k - 1 : stack'[n] = stack[n]
    <3>1. Below[k] = stack[k] /\ Len(Below) = k
      BY <1>1, <2>1 DEF k
    <3> QED
      BY <1>1, <2>1, <2>2, <3>1 DEF k
  <2> HIDE DEF g
  <2>5. ASSUME NEW n \in 1..k
        PROVE  /\ n < k => /\ stack'[n].at = "try" /\ AtSecretSource(stack[n])
                           /\ stack'[n] = stack[n]
                           /\ stack'[n + 1].c = parent[stack[n].c]
               /\ stack'[n].at = "try"
    <3>1. CASE n = k
      BY <3>1, <2>1, <2>2, <2>4
    <3>2. CASE n \in 1..k - 1
      <4>1. n + 1 = k \/ n + 1 \in 1..k - 1
        BY <2>1, <3>2
      <4>2. stack'[n + 1].c = stack[n + 1].c
        BY <2>2, <2>4, <4>1
      <4> QED
        BY <3>2, <2>3, <2>4, <4>2
    <3> QED
      BY <2>1, <3>1, <3>2
  <2>6. StackInv'
    BY <1>2, <2>4, <2>5 DEF StackInv, AtSecretSource, AlreadyBuilt, InMap
  <2> QED
    BY <1>1, <2>1, <2>4, <2>6 DEF k
<1> QED
  BY <1>3, <1>4

\* A call for the parent goes on top of the call that waits for it.
LEMMA ClusterAPIStack ==
    ASSUME TypeInv, ClusterAPISource
    PROVE  stack' \in Seq(Frames) /\ Len(stack') <= MaxStack /\ StackInv'
<1> DEFINE L == Len(stack)
           p == parent[Frame.c]
<1>1. L \in Nat \ {0} /\ Frame \in Frames /\ stack \in Seq(Frames) /\ L <= MaxStack
  BY BelowFacts DEF ClusterAPISource, Trying, TypeInv, TypeOK
<1>2. /\ UNCHANGED <<parent, sources>> /\ Frame = stack[L] /\ Frame.at = "try"
      /\ Frame.i <= Len(sources[Frame.c]) /\ sources[Frame.c][Frame.i] = "capi"
  BY DEF ClusterAPISource, Trying, MoreSources, Source, Quiet, siteVars, Frame
<1>3. CASE ~InMap(p)
  <2>1. SourceFails
    BY <1>3 DEF ClusterAPISource, ParentCluster
  <2> QED
    BY <1>1, <1>2, <2>1, SourceFailsStack, EmptySeq
<1>4. CASE InMap(p) /\ AlreadyBuilt(p)
  <2>1. stack' = [stack EXCEPT ![L].at = "secret"] /\ site' = site
    BY <1>4 DEF ClusterAPISource, ParentCluster
  <2> DEFINE g == [Frame EXCEPT !.at = "secret"]
  <2>2. g \in Frames /\ g.c = Frame.c /\ g.i = Frame.i
    BY <1>1 DEF Frames
  <2> HIDE DEF L
  <2>3. stack' = [stack EXCEPT ![L] = g]
    BY <1>2, <2>1
  <2> HIDE DEF g
  <2>4. /\ stack' \in Seq(Frames) /\ Len(stack') = L /\ stack'[L] = g
        /\ \A n \in 1..L - 1 : stack'[n] = stack[n]
    BY <1>1, <2>2, <2>3 DEF L
  <2>5. \A n \in 1..L : stack'[n].c = stack[n].c
    BY <1>1, <1>2, <2>2, <2>4
  <2>6. \A n \in 1..L - 1 : /\ stack[n].at = "try" /\ AtSecretSource(stack[n])
                            /\ stack[n + 1].c = parent[stack[n].c]
    BY <1>1 DEF TypeInv, StackInv, L
  <2>7. \A n \in 1..L - 1 : /\ stack'[n].at = "try" /\ AtSecretSource(stack'[n])
                            /\ stack'[n + 1].c = parent[stack'[n].c]
    <3> SUFFICES ASSUME NEW n \in 1..L - 1
                 PROVE  /\ stack'[n].at = "try" /\ AtSecretSource(stack'[n])
                        /\ stack'[n + 1].c = parent[stack'[n].c]
      OBVIOUS
    <3>1. n + 1 \in 1..L
      BY <1>1
    <3> QED
      BY <2>4, <2>5, <2>6, <3>1
  <2>8. AtSecretSource(g) /\ AlreadyBuilt(parent[g.c])
    BY <1>2, <1>4, <2>2 DEF AtSecretSource
  <2>9. StackInv'
    <3>1. ASSUME NEW n \in 1..L
          PROVE  /\ n < L => /\ stack'[n].at = "try" /\ AtSecretSource(stack'[n])
                             /\ stack'[n + 1].c = parent[stack'[n].c]
                 /\ stack'[n].at = "secret" =>
                      AtSecretSource(stack'[n]) /\ site[parent[stack'[n].c]] # NoCluster
      <4>1. CASE n = L
        BY <1>1, <2>4, <2>8, <4>1 DEF AlreadyBuilt
      <4>2. CASE n # L
        <5>1. n \in 1..L - 1
          BY <1>1, <4>2
        <5> QED
          BY <2>7, <5>1
      <4> QED
        BY <4>1, <4>2
    <3> QED
      BY <1>2, <2>1, <2>4, <3>1 DEF StackInv, AtSecretSource, AlreadyBuilt, InMap
  <2> QED
    BY <1>1, <2>4, <2>9
<1>5. CASE InMap(p) /\ ~AlreadyBuilt(p)
  <2>1. CallParent(p)
    BY <1>5 DEF ClusterAPISource, ParentCluster
  <2>2. CASE stack' = stack
    BY <1>1, <1>2, <2>1, <2>2 DEF TypeInv, CallParent, StackInv, AtSecretSource, AlreadyBuilt, InMap
  <2>3. CASE L < MaxStack /\ stack' = Append(stack, Call(p))
    <3>1. Call(p) \in Frames /\ Call(p).c = p /\ Call(p).at = "try"
      BY <1>5 DEF Call, Frames, InMap
    <3> HIDE DEF L, p
    <3>2. /\ stack' \in Seq(Frames) /\ Len(stack') = L + 1 /\ stack'[L + 1] = Call(p)
          /\ \A n \in 1..L : stack'[n] = stack[n]
      BY <1>1, <2>3, <3>1 DEF L
    <3>3. AtSecretSource(stack[L]) /\ p = parent[stack[L].c]
      BY <1>2, <1>5 DEF AtSecretSource, p
    <3>4. ASSUME NEW n \in 1..L
          PROVE  /\ stack'[n].at = "try" /\ AtSecretSource(stack'[n])
                 /\ stack'[n + 1].c = parent[stack'[n].c]
      <4>1. CASE n = L
        BY <1>2, <3>1, <3>2, <3>3, <4>1
      <4>2. CASE n < L
        <5>1. n + 1 \in 1..L
          BY <1>1, <4>2
        <5> QED
          BY <3>2, <4>2, <5>1 DEF TypeInv, StackInv, L
      <4> QED
        BY <1>1, <4>1, <4>2
    <3>5. StackInv'
      <4>1. ASSUME NEW n \in 1..L + 1
            PROVE  /\ n < L + 1 => /\ stack'[n].at = "try" /\ AtSecretSource(stack'[n])
                                   /\ stack'[n + 1].c = parent[stack'[n].c]
                   /\ stack'[n].at = "try"
        <5>1. n = L + 1 \/ (n \in 1..L /\ n < L + 1)
          BY <1>1
        <5> QED
          BY <1>1, <3>1, <3>2, <3>4, <5>1
      <4> QED
        BY <1>2, <3>2, <4>1 DEF StackInv, AtSecretSource, InMap
    <3> QED
      BY <1>1, <2>3, <3>2, <3>5
  <2> QED
    BY <2>1, <2>2, <2>3 DEF CallParent
<1> QED
  BY <1>3, <1>4, <1>5

-----------------------------------------------------------------------------
(* Types.                                                                   *)

SiteTypes ==
    /\ site \in [Clusters -> Clusters \cup {NoCluster, Wrong}]
    /\ current \in Clusters \cup {NoCluster}

\* What a call that returns does to the contexts.
LEMMA ReturnsSite ==
    ASSUME TypeOK, stack # <<>>, NEW d \in Clusters \cup {Wrong}, Returns(d)
    PROVE  /\ SiteTypes' /\ Frame.c \in Clusters /\ site'[Frame.c] = d
           /\ \A c \in Clusters \ {Frame.c} :
                /\ site'[c] # NoCluster <=> site[c] # NoCluster
                /\ ~Overlap(Frame.c, c) => site'[c] = site[c]
           /\ result' = result /\ current' \in {current, Frame.c}
<1>1. Frame \in Frames
  BY BelowFacts DEF TypeOK
<1>2. Frame.c \in Clusters
  BY <1>1 DEF Frames
<1>3. site' = mergeContextAPI(Frame.c, d) /\ result' = result
  BY DEF Returns, LoopGoesOn
<1>4. current' \in {current, Frame.c}
  BY DEF Returns, LoopGoesOn, SetCurrent
<1>5. /\ site' \in [Clusters -> Clusters \cup {NoCluster, Wrong}] /\ site'[Frame.c] = d
  BY <1>2, <1>3 DEF mergeContextAPI, TypeOK
<1>6. ASSUME NEW c \in Clusters \ {Frame.c}
      PROVE  /\ site'[c] # NoCluster <=> site[c] # NoCluster
             /\ ~Overlap(Frame.c, c) => site'[c] = site[c]
  <2>1. site'[c] = IF AlreadyBuilt(c) /\ names[c] = names[Frame.c] THEN d
                   ELSE IF AlreadyBuilt(c) /\ Overlap(Frame.c, c) THEN Wrong ELSE site[c]
    BY <1>3 DEF mergeContextAPI
  <2>2. names[c] = names[Frame.c] => Overlap(Frame.c, c)
    BY DEF Overlap
  <2> QED
    BY <2>1, <2>2 DEF AlreadyBuilt
<1> QED
  BY <1>2, <1>3, <1>4, <1>5, <1>6 DEF SiteTypes, TypeOK

\* A call at the secret has a parent that is built; the client is for it, unless an
\* earlier one is kept.
LEMMA SecretFacts ==
    ASSUME TypeInv, stack # <<>>, Frame.at = "secret"
    PROVE  /\ Frame.c \in Clusters /\ AlreadyBuilt(parent[Frame.c])
           /\ InMap(parent[Frame.c]) /\ Has(Frame.c, "capi")
           /\ Client(parent[Frame.c]) \in Clusters \cup {Wrong}
<1>1. Len(stack) \in Nat \ {0} /\ Frame \in Frames
  BY BelowFacts DEF TypeInv, TypeOK
<1>2. AtSecretSource(Frame) /\ AlreadyBuilt(parent[Frame.c])
  BY <1>1 DEF TypeInv, StackInv, Frame
<1>3. Frame.c \in Clusters /\ Frame.i \in Nat \ {0}
  BY <1>1 DEF Frames
<1>4. Has(Frame.c, "capi")
  <2>1. Len(sources[Frame.c]) \in Nat
    BY <1>3 DEF TypeInv, TypeOK
  <2>2. Frame.i \in 1..Len(sources[Frame.c])
    BY <1>2, <1>3, <2>1 DEF AtSecretSource
  <2> QED
    BY <1>2, <2>2 DEF Has, AtSecretSource
<1> QED
  BY <1>2, <1>3, <1>4 DEF AtSecretSource, InMap, AlreadyBuilt, Client, TypeInv, TypeOK

LEMMA TypeInvInit == Init => TypeInv
<1> SUFFICES ASSUME Init PROVE TypeInv
  OBVIOUS
<1>1. DOMAIN parent = Clusters /\ sources \in [Clusters -> Seq(SourceTypes)]
  BY DEF Init, IsClusterMap
<1>2. stack = <<>> /\ stack \in Seq(Frames) /\ Len(stack) = 0
  BY EmptySeq DEF Init
<1>3. StackInv
  BY <1>2 DEF StackInv
<1>4. site \in [Clusters -> Clusters \cup {NoCluster, Wrong}]
  BY DEF Init
<1>5. Len(stack) <= MaxStack
  BY <1>2
<1>6. /\ local \subseteq Clusters /\ secret \subseteq Clusters /\ wide \in BOOLEAN
      /\ trouble = FALSE /\ client = NoCluster /\ current = NoCluster /\ result = "running"
  BY DEF Init
<1> QED
  BY <1>1, <1>2, <1>3, <1>4, <1>5, <1>6 DEF TypeInv, TypeOK

LEMMA TypeInvStep == TypeInv /\ [Next]_vars => TypeInv'
<1> SUFFICES ASSUME TypeInv, [Next]_vars PROVE TypeInv'
  OBVIOUS
<1> DEFINE Kept == UNCHANGED <<siteVars, wide, requested>>
\* The types of the rest of the state.
<1>1. ASSUME Kept, stack' \in Seq(Frames), Len(stack') <= MaxStack, StackInv', SiteTypes',
             client' \in Clusters \cup {NoCluster, Wrong}, trouble' \in BOOLEAN,
             result' \in {"running", "ok", "error", "fatal", "overflow"}
      PROVE  TypeInv'
  BY <1>1 DEF TypeInv, TypeOK, SiteTypes, siteVars
<1>2. ASSUME UNCHANGED <<siteVars, stack, site>> PROVE StackInv'
  BY <1>2 DEF TypeInv, StackInv, AtSecretSource, AlreadyBuilt, InMap, siteVars
<1>3. SiteTypes /\ stack \in Seq(Frames) /\ Len(stack) <= MaxStack /\ Len(stack) \in Nat
  BY DEF TypeInv, TypeOK, SiteTypes
<1>4. CASE NextCluster
  <2>1. /\ Kept /\ UNCHANGED <<site, client, trouble>>
        /\ \/ UNCHANGED <<stack, current>> /\ result' = result
           \/ UNCHANGED stack /\ result' = "error" /\ SetCurrent(NoCluster)
           \/ /\ stack' = <<>> /\ result' = result
              /\ \E c \in Clusters : SetCurrent(c)
           \/ \E c \in Clusters : stack' = <<Call(c)>> /\ UNCHANGED <<current, result>>
    BY <1>4 DEF NextCluster, Quiet, LoopGoesOn, NoContext, InMap
  <2>2. SiteTypes'
    BY <1>3, <2>1 DEF SiteTypes, SetCurrent
  <2>3. stack' \in Seq(Frames) /\ Len(stack') <= MaxStack /\ StackInv'
    <3>1. CASE UNCHANGED stack
      BY <1>2, <1>3, <2>1, <3>1
    <3>2. CASE stack' = <<>>
      BY <3>2, EmptySeq DEF StackInv
    <3>3. ASSUME NEW c \in Clusters, stack' = <<Call(c)>>
          PROVE  stack' \in Seq(Frames) /\ Len(stack') <= MaxStack /\ StackInv'
      <4>1. Call(c) \in Frames /\ Call(c).at = "try"
        BY DEF Call, Frames
      <4> QED
        BY <3>3, <4>1 DEF StackInv
    <3> QED
      BY <2>1, <3>1, <3>2, <3>3
  <2> QED
    BY <1>1, <2>1, <2>2, <2>3 DEF TypeInv, TypeOK
<1>5. CASE BuildReturns \/ CleanupFails
  <2>1. Kept /\ UNCHANGED <<stack, site, current, trouble>> /\ result' \in {"ok", "fatal"}
    BY <1>5 DEF BuildReturns, CleanupFails, Quiet
  <2>2. client' \in Clusters \cup {NoCluster, Wrong}
    BY <1>5, SecretFacts DEF BuildReturns, CleanupFails, ParentCluster, TypeInv, TypeOK
  <2>3. StackInv'
    BY <1>2, <2>1
  <2> QED
    BY <1>1, <1>3, <2>1, <2>2, <2>3 DEF TypeInv, TypeOK, SiteTypes
<1>6. CASE AllSourcesFailed
  <2>1. Kept /\ UNCHANGED <<site, client, trouble>> /\ result' = result
    BY <1>6 DEF AllSourcesFailed, Quiet, LoopGoesOn
  <2>2. current' \in {current, NoCluster}
    BY <1>6 DEF AllSourcesFailed, LoopGoesOn, SetCurrent, NoContext
  <2>3. SiteTypes'
    BY <1>3, <2>1, <2>2 DEF SiteTypes
  <2>4. stack' \in Seq(Frames) /\ Len(stack') <= MaxStack /\ StackInv'
    <3>1. stack' \in Seq(Frames) /\ Len(stack') <= Len(stack) /\ StackInv'
      BY <1>6, AllSourcesFailedStack
    <3> QED
      BY <1>3, <3>1, LenProperties
  <2> QED
    BY <1>1, <2>1, <2>3, <2>4 DEF TypeInv, TypeOK
<1>7. CASE LocalSource \/ OtherSource
  <2>1. Kept /\ UNCHANGED <<client, trouble>> /\ stack # <<>>
    BY <1>7 DEF LocalSource, OtherSource, Quiet, Trying
  <2>2. SourceFails \/ (Returns(Frame.c) /\ Frame.c \in Clusters)
    BY <1>7 DEF LocalSource, OtherSource, TypeInv, TypeOK
  <2>3. CASE SourceFails
    BY <1>1, <1>3, <2>1, <2>3, SourceFailsStack DEF SourceFails, TypeInv, TypeOK, SiteTypes, siteVars
  <2>4. CASE Returns(Frame.c) /\ Frame.c \in Clusters
    <3>1. /\ stack' \in Seq(Frames) /\ Len(stack') <= Len(stack) /\ StackInv' /\ SiteTypes'
          /\ result' = result
      BY <2>1, <2>4, ReturnsStack, ReturnsSite DEF TypeInv, siteVars
    <3> QED
      BY <1>1, <1>3, <2>1, <3>1, LenProperties DEF TypeInv, TypeOK
  <2> QED
    BY <2>2, <2>3, <2>4
<1>8. CASE ClusterAPISource
  <2>1. /\ Kept /\ UNCHANGED <<client, trouble, site, current>>
        /\ result' \in {result, "overflow"}
    BY <1>8 DEF ClusterAPISource, Quiet, SourceFails, CallParent
  <2>2. SiteTypes'
    BY <1>3, <2>1 DEF SiteTypes
  <2> QED
    BY <1>1, <1>8, <2>1, <2>2, ClusterAPIStack DEF TypeInv, TypeOK
<1>9. CASE ReadSecret \/ SecretUnreachable
  <2>1. Kept /\ stack # <<>> /\ Frame.at = "secret" /\ trouble' \in BOOLEAN
    BY <1>9 DEF ReadSecret, SecretUnreachable, Quiet, TypeInv, TypeOK
  <2>2. client' \in Clusters \cup {NoCluster, Wrong} /\ Frame.c \in Clusters
    BY <1>9, <2>1, SecretFacts DEF ReadSecret, SecretUnreachable, ParentCluster, TypeInv, TypeOK
  <2>3. SourceFails \/ \E d \in Clusters \cup {Wrong} : Returns(d)
    BY <1>9, <2>2 DEF ReadSecret, SecretUnreachable
  <2>4. CASE SourceFails
    BY <1>1, <1>3, <2>1, <2>2, <2>4, SourceFailsStack DEF SourceFails, TypeInv, TypeOK, SiteTypes, siteVars
  <2>5. ASSUME NEW d \in Clusters \cup {Wrong}, Returns(d) PROVE TypeInv'
    <3>1. /\ stack' \in Seq(Frames) /\ Len(stack') <= Len(stack) /\ StackInv' /\ SiteTypes'
          /\ result' = result
      BY <2>1, <2>5, ReturnsStack, ReturnsSite DEF TypeInv, siteVars
    <3> QED
      BY <1>1, <1>3, <2>1, <2>2, <3>1, LenProperties DEF TypeInv, TypeOK
  <2> QED
    BY <2>3, <2>4, <2>5
<1>10. CASE Done \/ UNCHANGED vars
  <2>1. UNCHANGED vars
    BY <1>10 DEF Done
  <2> QED
    BY <1>2, <2>1 DEF vars, siteVars, TypeInv, TypeOK
<1> QED
  BY <1>4, <1>5, <1>6, <1>7, <1>8, <1>9, <1>10 DEF Next, Steps

THEOREM KubeconfigTypeCorrect == Spec => []TypeOK
<1>1. TypeInv => TypeOK
  BY DEF TypeInv
<1> QED
  BY <1>1, TypeInvInit, TypeInvStep, PTL DEF Spec

-----------------------------------------------------------------------------
(* Contexts.                                                                *)

\* The call at hand returns what its source gave.
LocalReturn == LocalSource /\ Returns(Frame.c) /\ Frame.c \in local
SecretReturn ==
    \E d \in {Frame.c, Wrong} :
        /\ ReadSecret /\ Returns(d)
        /\ IF d = Wrong THEN client' # parent[Frame.c] ELSE Frame.c \in secret

\* A step adds no context but that of a call that returns.
LEMMA SiteStep ==
    ASSUME TypeInv, CurrentIsBuilt, [Next]_vars
    PROVE  \/ site' = site /\ CurrentIsBuilt'
           \/ stack # <<>> /\ LocalReturn
           \/ stack # <<>> /\ Frame.at = "secret" /\ SecretReturn
<1>1. CASE NextCluster
  <2>1. site' = site
    BY <1>1 DEF NextCluster
  <2>2. \/ current' \in {current, NoCluster}
        \/ \E c \in Clusters : AlreadyBuilt(c) /\ current' \in {current, c}
    BY <1>1 DEF NextCluster, LoopGoesOn, SetCurrent, NoContext, InMap
  <2> QED
    BY <2>1, <2>2 DEF CurrentIsBuilt, AlreadyBuilt
<1>2. CASE BuildReturns \/ OtherSource \/ ClusterAPISource \/ SecretUnreachable \/ CleanupFails
           \/ Done \/ UNCHANGED vars
  <2>1. UNCHANGED <<site, current>>
    BY <1>2 DEF BuildReturns, OtherSource, ClusterAPISource, SecretUnreachable, CleanupFails,
       Done, vars, SourceFails, CallParent
  <2> QED
    BY <2>1 DEF CurrentIsBuilt, AlreadyBuilt
<1>3. CASE AllSourcesFailed
  <2>1. site' = site /\ current' \in {current, NoCluster}
    BY <1>3 DEF AllSourcesFailed, LoopGoesOn, SetCurrent, NoContext
  <2> QED
    BY <2>1 DEF CurrentIsBuilt, AlreadyBuilt
<1>4. CASE LocalSource
  <2>1. CASE SourceFails
    BY <2>1 DEF SourceFails, CurrentIsBuilt, AlreadyBuilt
  <2> QED
    BY <1>4, <2>1 DEF LocalSource, LocalReturn, Trying
<1>5. CASE ReadSecret
  <2>1. CASE SourceFails
    BY <2>1 DEF SourceFails, CurrentIsBuilt, AlreadyBuilt
  <2>2. CASE ~SourceFails
    <3>1. stack # <<>> /\ Frame.at = "secret"
      BY <1>5 DEF ReadSecret
    <3>2. \E d \in {Frame.c, Wrong} :
            Returns(d) /\ IF d = Wrong THEN client' # parent[Frame.c] ELSE Frame.c \in secret
      <4>1. Frame.c \in Clusters
        BY <3>1, SecretFacts
      <4> QED
        BY <1>5, <2>2, <4>1 DEF ReadSecret, ParentCluster
    <3> QED
      BY <1>5, <3>1, <3>2 DEF SecretReturn
  <2> QED
    BY <2>1, <2>2
<1> QED
  BY <1>1, <1>2, <1>3, <1>4, <1>5 DEF Next, Steps

\* A call that returns builds its own cluster, and nothing that was built is lost.
LEMMA CurrentIsBuiltStep == TypeInv /\ CurrentIsBuilt /\ [Next]_vars => CurrentIsBuilt'
<1> SUFFICES ASSUME TypeInv, CurrentIsBuilt, [Next]_vars PROVE CurrentIsBuilt'
  OBVIOUS
<1>1. ASSUME stack # <<>>, NEW d \in Clusters \cup {Wrong}, Returns(d) PROVE CurrentIsBuilt'
  <2>1. /\ site'[Frame.c] = d /\ Frame.c \in Clusters /\ current' \in {current, Frame.c}
        /\ \A c \in Clusters \ {Frame.c} : site'[c] # NoCluster <=> site[c] # NoCluster
    BY <1>1, ReturnsSite DEF TypeInv
  <2>2. site \in [Clusters -> Clusters \cup {NoCluster, Wrong}] /\ current \in Clusters \cup {NoCluster}
    BY DEF TypeInv, TypeOK
  <2>3. d # NoCluster
    OBVIOUS
  <2> QED
    BY <2>1, <2>2, <2>3 DEF CurrentIsBuilt, AlreadyBuilt
<1>2. CASE stack # <<>> /\ LocalReturn
  <2>1. Frame.c \in Clusters
    BY <1>2, BelowFacts DEF TypeInv, TypeOK, Frames
  <2> QED
    BY <1>1, <1>2, <2>1 DEF LocalReturn
<1>3. CASE stack # <<>> /\ Frame.at = "secret" /\ SecretReturn
  BY <1>1, <1>3, SecretFacts DEF SecretReturn
<1> QED
  BY <1>2, <1>3, SiteStep

\* The current context, if there is one, is in the kubeconfig, also when all sources of
\* the requested cluster failed and the build still succeeds.
THEOREM CurrentIsBuiltHolds == Spec => []CurrentIsBuilt
<1>1. Init => CurrentIsBuilt
  BY DEF Init, CurrentIsBuilt
<1> QED
  BY <1>1, TypeInvInit, TypeInvStep, CurrentIsBuiltStep, PTL DEF Spec

\* With one parent the builder's client is for the parent at hand.
LEMMA SecretClient ==
    ASSUME TypeInv, ClientInv, AlwaysGenuine, client # Wrong, NoMixUp,
           stack # <<>>, Frame.at = "secret"
    PROVE  Client(parent[Frame.c]) = parent[Frame.c] /\ InMap(parent[Frame.c])
<1> DEFINE p == parent[Frame.c]
<1>1. Frame.c \in Clusters /\ AlreadyBuilt(p) /\ p \in Clusters /\ Has(Frame.c, "capi")
  BY SecretFacts DEF InMap
<1>2. CASE client = NoCluster
  <2>1. site[p] = p
    BY <1>1 DEF AlwaysGenuine, AlreadyBuilt
  <2> QED
    BY <1>1, <1>2, <2>1 DEF Client, InMap
<1>3. CASE client # NoCluster
  <2>1. PICK c \in Clusters : Has(c, "capi") /\ client = parent[c]
    BY <1>3 DEF ClientInv
  <2>2. client \in Clusters
    BY <1>3 DEF TypeInv, TypeOK
  <2>3. client = p
    BY <1>1, <2>1, <2>2 DEF NoMixUp, OneParent, DistinctNames, Overlap, InMap
  <2> QED
    BY <1>1, <1>3, <2>3 DEF Client, InMap
<1> QED
  BY <1>2, <1>3

\* A step that makes a client makes one for the parent of the call at hand.
LEMMA ClientStep ==
    ASSUME TypeInv, [Next]_vars
    PROVE  \/ client' = client
           \/ /\ stack # <<>> /\ Frame.at = "secret"
              /\ client' = Client(parent[Frame.c])
BY DEF Next, Steps, NextCluster, BuildReturns, AllSourcesFailed, LocalSource, OtherSource,
   ClusterAPISource, ReadSecret, SecretUnreachable, CleanupFails, Done, vars, ParentCluster

LEMMA ClientInvStep ==
    TypeInv /\ ClientInv /\ NoMixUpInv /\ CurrentIsBuilt /\ [Next]_vars
    => ClientInv' /\ NoMixUpInv'
<1> SUFFICES ASSUME TypeInv, ClientInv, NoMixUpInv, CurrentIsBuilt, [Next]_vars
             PROVE  ClientInv' /\ NoMixUpInv'
  OBVIOUS
<1>1. UNCHANGED siteVars
  BY DEF Next, Steps, NextCluster, BuildReturns, AllSourcesFailed, LocalSource, OtherSource,
     ClusterAPISource, ReadSecret, SecretUnreachable, CleanupFails, Done, vars, Quiet, siteVars
<1>2. NoMixUp' => NoMixUp
  BY <1>1 DEF NoMixUp, OneParent, DistinctNames, Overlap, Has, InMap, siteVars
<1>3. ClientInv'
  <2>1. CASE client' = client
    BY <1>1, <1>2, <2>1 DEF ClientInv, Has, siteVars
  <2>2. CASE NoMixUp /\ stack # <<>> /\ Frame.at = "secret" /\ client' = Client(parent[Frame.c])
    <3>1. Frame.c \in Clusters /\ Has(Frame.c, "capi")
      BY <2>2, SecretFacts
    <3>2. client' = parent[Frame.c]
      BY <2>2, SecretClient DEF NoMixUpInv
    <3> QED
      BY <1>1, <3>1, <3>2 DEF ClientInv, Has, siteVars
  <2>3. CASE ~NoMixUp
    BY <1>2, <2>3 DEF ClientInv
  <2> QED
    BY <2>1, <2>2, <2>3, ClientStep
<1>4. ASSUME NoMixUp PROVE client' # Wrong
  <2>1. AlwaysGenuine /\ client # Wrong
    BY <1>4 DEF NoMixUpInv
  <2> QED
    BY <1>4, <2>1, ClientStep, SecretClient DEF InMap
<1>5. ASSUME NoMixUp PROVE AlwaysGenuine'
  <2>1. AlwaysGenuine /\ client # Wrong
    BY <1>4, <1>5 DEF NoMixUpInv
  <2>2. \A c \in Clusters : site[c] \in {NoCluster, c}
    BY <1>5, <2>1 DEF AlwaysGenuine
  <2>3. ASSUME stack # <<>>, Returns(Frame.c) PROVE \A c \in Clusters : site'[c] \in {NoCluster, c}
    <3>1. Frame.c \in Clusters
      BY <2>3, BelowFacts DEF TypeInv, TypeOK, Frames
    <3>2. /\ site'[Frame.c] = Frame.c
          /\ \A c \in Clusters \ {Frame.c} : ~Overlap(Frame.c, c) => site'[c] = site[c]
      BY <2>3, <3>1, ReturnsSite DEF TypeInv
    <3>3. \A c \in Clusters \ {Frame.c} : ~Overlap(Frame.c, c)
      BY <1>5, <3>1 DEF NoMixUp, DistinctNames
    <3> QED
      BY <2>2, <3>2, <3>3
  <2>4. ASSUME stack # <<>>, Frame.at = "secret", SecretReturn PROVE Returns(Frame.c)
    <3>1. client' = parent[Frame.c]
      BY <1>5, <2>1, <2>4, SecretClient DEF SecretReturn, ReadSecret, ParentCluster
    <3> QED
      BY <2>4, <3>1 DEF SecretReturn
  <2>5. \A c \in Clusters : site'[c] \in {NoCluster, c}
    BY <2>2, <2>3, <2>4, SiteStep DEF LocalReturn
  <2> QED
    BY <2>5 DEF AlwaysGenuine
<1> QED
  BY <1>2, <1>3, <1>4, <1>5 DEF NoMixUpInv

\* A set of clusters that holds those with a kubeconfig of their own and, with a parent,
\* every child whose secret it keeps: what the cluster map promises is the least of them.
Closed(S) ==
    /\ \A c \in local : Has(c, "local") => c \in S
    /\ \A c \in secret : Has(c, "capi") /\ parent[c] \in S => c \in S

\* The half of Complete that no depth limits: a context is built only for a cluster that
\* the cluster map promises, whatever the order of the clusters and their sources.
BuiltIsPromised ==
    NoMixUp => \A S \in SUBSET Clusters : Closed(S) =>
        \A c \in Clusters : AlreadyBuilt(c) => c \in S

LEMMA BuiltIsPromisedStep ==
    /\ TypeInv /\ CurrentIsBuilt /\ ClientInv /\ NoMixUpInv /\ BuiltIsPromised /\ [Next]_vars
    => BuiltIsPromised'
<1> SUFFICES ASSUME TypeInv, CurrentIsBuilt, ClientInv, NoMixUpInv, BuiltIsPromised, [Next]_vars
             PROVE  BuiltIsPromised'
  OBVIOUS
<1>1. UNCHANGED siteVars
  BY DEF Next, Steps, NextCluster, BuildReturns, AllSourcesFailed, LocalSource, OtherSource,
     ClusterAPISource, ReadSecret, SecretUnreachable, CleanupFails, Done, vars, Quiet, siteVars
<1>2. SUFFICES ASSUME NoMixUp, NEW S \in SUBSET Clusters, Closed(S)
               PROVE  \A c \in Clusters : site'[c] # NoCluster => c \in S
  BY <1>1 DEF BuiltIsPromised, NoMixUp, OneParent, DistinctNames, Overlap, Closed, Has, InMap, AlreadyBuilt, siteVars
<1>3. \A c \in Clusters : site[c] # NoCluster => c \in S
  BY <1>2 DEF BuiltIsPromised, AlreadyBuilt
<1>4. ASSUME stack # <<>>, NEW d \in Clusters \cup {Wrong}, Returns(d), Frame.c \in S
      PROVE  \A c \in Clusters : site'[c] # NoCluster => c \in S
  <2>1. \A c \in Clusters \ {Frame.c} : site'[c] # NoCluster <=> site[c] # NoCluster
    BY <1>4, ReturnsSite DEF TypeInv
  <2> QED
    BY <1>3, <1>4, <2>1
<1>5. CASE stack # <<>> /\ LocalReturn
  <2>1. Frame.c \in Clusters /\ Frame.i \in Nat \ {0}
    BY <1>5, BelowFacts DEF TypeInv, TypeOK, Frames
  <2>2. Frame.i <= Len(sources[Frame.c]) /\ sources[Frame.c][Frame.i] = "local"
    BY <1>5 DEF LocalReturn, LocalSource, MoreSources, Source
  <2>3. Has(Frame.c, "local")
    <3>1. Len(sources[Frame.c]) \in Nat
      BY <2>1 DEF TypeInv, TypeOK
    <3>2. Frame.i \in 1..Len(sources[Frame.c])
      BY <2>1, <2>2, <3>1
    <3> QED
      BY <2>2, <3>2 DEF Has
  <2>4. Frame.c \in S
    BY <1>2, <1>5, <2>3 DEF LocalReturn, Closed
  <2> QED
    BY <1>4, <1>5, <2>1, <2>4 DEF LocalReturn
<1>6. CASE stack # <<>> /\ Frame.at = "secret" /\ SecretReturn
  <2>1. /\ Frame.c \in Clusters /\ Has(Frame.c, "capi")
        /\ InMap(parent[Frame.c]) /\ AlreadyBuilt(parent[Frame.c])
    BY <1>6, SecretFacts
  <2>2. client' = parent[Frame.c]
    BY <1>2, <1>6, SecretClient DEF NoMixUpInv, SecretReturn, ReadSecret, ParentCluster
  <2>3. Frame.c \in secret /\ Returns(Frame.c)
    BY <1>6, <2>2 DEF SecretReturn
  <2>4. Frame.c \in S
    BY <1>2, <1>3, <2>1, <2>3 DEF Closed, InMap, AlreadyBuilt
  <2> QED
    BY <1>4, <1>6, <2>1, <2>3, <2>4
<1> QED
  BY <1>3, <1>5, <1>6, SiteStep

-----------------------------------------------------------------------------
(* What the cluster map promises.  With one parent two rounds are enough.   *)

Own == {c \in local : Has(c, "local")}
Promised == Own \cup {c \in secret : Has(c, "capi") /\ parent[c] \in Own}

\* Whose parent is promised is promised: the parent has a kubeconfig of its own.
LEMMA PromisedClosed == ASSUME TypeOK, NoMixUp PROVE Closed(Promised)
<1>1. Own \subseteq Clusters
  BY DEF Own, TypeOK
<1>2. ASSUME NEW c \in secret, Has(c, "capi"), parent[c] \in Promised PROVE c \in Promised
  <2>1. CASE parent[c] \in Own
    BY <1>2, <2>1 DEF Promised
  <2>2. CASE parent[c] \notin Own
    <3> DEFINE d == parent[c]
    <3>1. d \in secret /\ Has(d, "capi") /\ parent[d] \in Own
      BY <1>2, <2>2 DEF Promised
    <3>2. c \in Clusters /\ d \in Clusters /\ InMap(parent[c]) /\ InMap(parent[d])
      BY <1>1, <3>1 DEF TypeOK, InMap
    <3>3. parent[c] = parent[d]
      BY <1>2, <3>1, <3>2 DEF NoMixUp, OneParent, DistinctNames, Overlap
    <3> QED
      BY <2>2, <3>1, <3>3
  <2> QED
    BY <2>1, <2>2
<1>3. \A c \in local : Has(c, "local") => c \in Promised
  BY DEF Promised, Own
<1> QED
  BY <1>2, <1>3 DEF Closed

\* A set of numbers that is not empty has a least one.
LEMMA LeastNat ==
    ASSUME NEW A, A \subseteq Nat, A # {}
    PROVE  \E m \in A : \A k \in A : ~(k < m)
<1>1. IsWellFoundedOn(OpToRel(<, Nat), Nat)
  BY NatLessThanWellFounded
<1>2. \E x \in A : \A y \in A : ~(<<y, x>> \in OpToRel(<, Nat))
  BY <1>1, WFMin, Zenon
<1> QED
  BY <1>2 DEF OpToRel

\* The rounds of Buildable.
IsRounds(f) ==
    f = [n \in Nat |-> IF n = 0 THEN Own
                       ELSE f[n - 1] \cup {c \in secret : Has(c, "capi") /\ parent[c] \in f[n - 1]}]

LEMMA BuildableIsRounds == ASSUME TypeOK, NoMixUp PROVE IsRounds(Buildable)
<1> DEFINE f == [n \in Nat |-> IF n = 0 THEN Own ELSE Promised]
           Round(S) == S \cup {c \in secret : Has(c, "capi") /\ parent[c] \in S}
<1>1. Round(Own) = Promised
  BY DEF Promised
<1>2. Round(Promised) = Promised
  BY PromisedClosed DEF Closed
<1>3. \A n \in Nat : f[n] = IF n = 0 THEN Own ELSE Round(f[n - 1])
  <2> SUFFICES ASSUME NEW n \in Nat PROVE f[n] = IF n = 0 THEN Own ELSE Round(f[n - 1])
    OBVIOUS
  <2>1. CASE n = 0
    BY <2>1
  <2>2. CASE n # 0
    <3>1. n - 1 \in Nat /\ f[n] = Promised /\ f[n - 1] \in {Own, Promised}
      BY <2>2
    <3> HIDE DEF f, Round
    <3> QED
      BY <1>1, <1>2, <2>2, <3>1
  <2> QED
    BY <2>1, <2>2
<1>4. f = [n \in Nat |-> IF n = 0 THEN Own ELSE Round(f[n - 1])]
  <2> DEFINE g == [n \in Nat |-> IF n = 0 THEN Own ELSE Round(f[n - 1])]
  <2>1. \A n \in Nat : f[n] = g[n]
    BY <1>3
  <2>2. f = [n \in Nat |-> f[n]] /\ g = [n \in Nat |-> g[n]]
    OBVIOUS
  <2> HIDE DEF f, g
  <2> QED
    BY <2>1, <2>2 DEF g
<1>5. IsRounds(f)
  BY <1>4 DEF IsRounds
<1>6. Buildable = CHOOSE g : IsRounds(g)
  BY DEF Buildable, IsRounds, Own
<1> QED
  BY <1>5, <1>6

LEMMA BuildableIsPromised ==
    ASSUME TypeOK, NoMixUp, NEW k \in Nat \ {0}
    PROVE  Buildable[k] = Promised
<1> DEFINE Bad == {n \in Nat \ {0} : Buildable[n] # Promised}
<1> SUFFICES ASSUME Bad # {} PROVE FALSE
  OBVIOUS
<1>1. PICK m \in Bad : \A n \in Bad : ~(n < m)
  BY LeastNat, Zenon
<1>2. Buildable[0] = Own
  BY BuildableIsRounds DEF IsRounds
<1>3. /\ m \in Nat \ {0}
      /\ Buildable[m] = Buildable[m - 1]
                          \cup {c \in secret : Has(c, "capi") /\ parent[c] \in Buildable[m - 1]}
  BY BuildableIsRounds DEF IsRounds
<1>4. CASE m = 1
  BY <1>1, <1>2, <1>3, <1>4 DEF Promised
<1>5. CASE m # 1
  <2>1. m - 1 \in Nat \ {0} /\ m - 1 < m
    BY <1>3, <1>5
  <2>2. Buildable[m - 1] = Promised
    BY <1>1, <2>1
  <2>3. Buildable[m] = Promised
    BY <1>3, <2>2, PromisedClosed DEF Closed
  <2> QED
    BY <1>1, <2>3
<1> QED
  BY <1>4, <1>5

-----------------------------------------------------------------------------
(* What is built when the queue is empty.                                   *)

\* Source j of cluster c cannot yield its kubeconfig.
Dead(c, j) ==
    /\ sources[c][j] = "local" => c \notin local
    /\ sources[c][j] = "capi" => ~(c \in secret /\ parent[c] \in Own)

\* Undisturbed, a call has only left sources behind that could not yield anything.
TriedInv ==
    (NoMixUp /\ ~trouble) =>
        \A n \in 1..Len(stack) : \A j \in 1..Len(sources[stack[n].c]) :
            j < stack[n].i => Dead(stack[n].c, j)

\* The calls are those for the first cluster of the queue.
HeadInv ==
    /\ queue \in Seq(Listed(requested))
    /\ stack # <<>> => queue # <<>> /\ stack[1].c = Head(queue)

\* A cluster leaves the queue with a context, or because it cannot be reached.
Settled(c) == c \in Clusters /\ (AlreadyBuilt(c) \/ c \notin Promised)
LeftInv ==
    (NoMixUp /\ ~trouble) =>
        \A c \in Listed(requested) : c \in Listed(queue) \/ Settled(c)

\* A build only ends well with an empty queue.
OkInv == result = "ok" => queue = <<>>

LEMMA SiteUnchanged == ASSUME [Next]_vars PROVE UNCHANGED siteVars /\ requested' = requested
BY DEF Next, Steps, NextCluster, BuildReturns, AllSourcesFailed, LocalSource, OtherSource,
   ClusterAPISource, ReadSecret, SecretUnreachable, CleanupFails, Done, vars, Quiet, siteVars

\* A call that has tried all its sources in vain is for a cluster that is not promised.
LEMMA Exhausted ==
    ASSUME TypeInv, TriedInv, NoMixUp, ~trouble, stack # <<>>, ~MoreSources
    PROVE  Frame.c \in Clusters /\ Frame.c \notin Promised
<1>1. Len(stack) \in Nat \ {0} /\ Frame.c \in Clusters /\ Frame.i \in Nat \ {0}
  BY BelowFacts DEF TypeInv, TypeOK, Frames
<1>2. Len(sources[Frame.c]) \in Nat
  BY <1>1 DEF TypeInv, TypeOK
<1>3. \A j \in 1..Len(sources[Frame.c]) : j < Frame.i
  BY <1>1, <1>2 DEF MoreSources
<1>4. \A j \in 1..Len(sources[Frame.c]) : Dead(Frame.c, j)
  BY <1>1, <1>3 DEF TriedInv, Frame
<1>5. Frame.c \notin Own
  BY <1>4 DEF Own, Has, Dead
<1>6. ~(Frame.c \in secret /\ Has(Frame.c, "capi") /\ parent[Frame.c] \in Own)
  BY <1>4 DEF Has, Dead
<1> QED
  BY <1>1, <1>5, <1>6 DEF Promised

\* What the steps of a call do to the clusters and the sources of the calls.
SameCall(n) == stack'[n].c = stack[n].c /\ stack'[n].i = stack[n].i

LEMMA SourceFailsCalls ==
    ASSUME TypeInv, stack # <<>>, SourceFails
    PROVE  /\ Len(stack) \in Nat \ {0} /\ Len(stack') = Len(stack)
           /\ \A n \in 1..Len(stack) - 1 : SameCall(n)
           /\ stack'[Len(stack)].c = Frame.c /\ stack'[Len(stack)].i = Frame.i + 1
<1>1. /\ Len(stack) \in Nat \ {0} /\ Frame \in Frames
      /\ Below \in Seq(Frames) /\ Len(Below) = Len(stack) - 1
      /\ \A n \in 1..Len(stack) - 1 : Below[n] = stack[n]
  BY BelowFacts DEF TypeInv, TypeOK
<1>2. /\ Skipped(Frame) \in Frames /\ Skipped(Frame).c = Frame.c
      /\ Skipped(Frame).i = Frame.i + 1
  BY <1>1, SkippedType DEF Skipped, Frames
<1>3. /\ Len(stack') = Len(stack) /\ stack'[Len(stack)] = Skipped(Frame)
      /\ \A n \in 1..Len(stack) - 1 : stack'[n] = stack[n]
  BY <1>1, <1>2 DEF SourceFails
<1> QED
  BY <1>1, <1>2, <1>3 DEF SameCall

LEMMA ReturnsCalls ==
    ASSUME TypeInv, stack # <<>>, NEW d, Returns(d)
    PROVE  /\ Len(stack) \in Nat \ {0}
           /\ \/ Len(stack) = 1 /\ stack' = <<>> /\ queue' = Tail(queue)
              \/ /\ Len(stack) # 1 /\ Len(stack') = Len(stack) - 1 /\ queue' = queue
                 /\ \A n \in 1..Len(stack') : SameCall(n)
<1>1. /\ Len(stack) \in Nat \ {0} /\ Frame \in Frames
      /\ Below \in Seq(Frames) /\ Len(Below) = Len(stack) - 1
      /\ \A n \in 1..Len(stack) - 1 : Below[n] = stack[n]
  BY BelowFacts DEF TypeInv, TypeOK
<1>2. CASE Len(stack) = 1
  BY <1>1, <1>2 DEF Returns, LoopGoesOn
<1>3. CASE Len(stack) # 1
  <2> DEFINE k == Len(stack) - 1
             g == [stack[k] EXCEPT !.at = "secret"]
  <2>1. k \in Nat \ {0} /\ stack[k] \in Frames /\ Below[k] = stack[k]
    BY <1>1, <1>3 DEF TypeInv, TypeOK
  <2>2. stack' = [Below EXCEPT ![k].at = "secret"] /\ queue' = queue
    BY <1>1, <1>3 DEF Returns
  <2>3. g.c = stack[k].c /\ g.i = stack[k].i /\ g \in Frames
    BY <2>1 DEF Frames
  <2>4. stack' = [Below EXCEPT ![k] = g]
    BY <1>1, <2>1, <2>2
  <2> HIDE DEF g
  <2>5. /\ Len(stack') = k /\ stack'[k] = g
        /\ \A n \in 1..k : n # k => stack'[n] = stack[n]
    BY <1>1, <2>1, <2>3, <2>4
  <2> QED
    BY <1>1, <1>3, <2>2, <2>3, <2>5 DEF SameCall
<1> QED
  BY <1>2, <1>3

LEMMA AllSourcesFailedCalls ==
    ASSUME TypeInv, stack # <<>>, AllSourcesFailed
    PROVE  /\ Len(stack) \in Nat \ {0}
           /\ \/ Len(stack) = 1 /\ stack' = <<>> /\ queue' = Tail(queue)
              \/ /\ Len(stack) # 1 /\ Len(stack') = Len(stack) - 1 /\ queue' = queue
                 /\ \A n \in 1..Len(stack') :
                      \/ SameCall(n)
                      \/ /\ n = Len(stack) - 1 /\ stack'[n].c = stack[n].c
                         /\ stack'[n].i = stack[n].i + 1
<1>1. /\ Len(stack) \in Nat \ {0} /\ Frame \in Frames
      /\ Below \in Seq(Frames) /\ Len(Below) = Len(stack) - 1
      /\ \A n \in 1..Len(stack) - 1 : Below[n] = stack[n]
  BY BelowFacts DEF TypeInv, TypeOK
<1>2. CASE Len(stack) = 1
  BY <1>1, <1>2 DEF AllSourcesFailed, LoopGoesOn, SkipCluster
<1>3. CASE Len(stack) # 1
  <2> DEFINE k == Len(stack) - 1
             g == Skipped(stack[k])
  <2>1. k \in Nat \ {0} /\ stack[k] \in Frames /\ Below[k] = stack[k]
    BY <1>1, <1>3 DEF TypeInv, TypeOK
  <2>2. stack' = [Below EXCEPT ![k] = g] /\ queue' = queue
    BY <1>1, <1>3, <2>1 DEF AllSourcesFailed
  <2>3. g.c = stack[k].c /\ g.i = stack[k].i + 1 /\ g \in Frames
    BY <2>1, SkippedType DEF Skipped, Frames
  <2> HIDE DEF g
  <2>4. /\ Len(stack') = k /\ stack'[k] = g
        /\ \A n \in 1..k : n # k => stack'[n] = stack[n]
    BY <1>1, <2>1, <2>2, <2>3
  <2> QED
    BY <1>1, <1>3, <2>2, <2>3, <2>4 DEF SameCall
<1> QED
  BY <1>2, <1>3

\* The source at hand of a call, passed over because it cannot yield anything.
Passed(n) ==
    /\ n \in 1..Len(stack) /\ stack'[n].c = stack[n].c /\ stack'[n].i = stack[n].i + 1
    /\ Dead(stack[n].c, stack[n].i)
Untried(n) ==
    stack'[n].i = 1 \/ (n \in 1..Len(stack) /\ SameCall(n)) \/ Passed(n)

LEMMA PassedSource ==
    ASSUME TypeInv, stack # <<>>, SourceFails, Dead(Frame.c, Frame.i), NEW n \in 1..Len(stack')
    PROVE  Untried(n)
<1>1. n < Len(stack) \/ n = Len(stack)
  BY SourceFailsCalls
<1>2. n < Len(stack) => n \in 1..Len(stack) - 1
  BY SourceFailsCalls
<1> QED
  BY SourceFailsCalls, <1>1, <1>2 DEF Untried, Passed, Frame

\* With one parent and nothing disturbed, no step passes over a source that could
\* still yield something.
LEMMA CallsStep ==
    ASSUME TypeInv, CurrentIsBuilt, ClientInv, NoMixUpInv, TriedInv, NoMixUp, ~trouble,
           ~trouble', [Next]_vars, NEW n \in 1..Len(stack')
    PROVE  Untried(n)
<1>1. stack # <<>> => /\ Len(stack) \in Nat \ {0} /\ Frame \in Frames /\ Frame.c \in Clusters
                      /\ Frame.i \in Nat \ {0}
  BY BelowFacts DEF TypeInv, TypeOK, Frames
<1>2. Own \subseteq Clusters
  BY DEF Own, TypeInv, TypeOK
<1>3. CASE UNCHANGED stack
  BY <1>3 DEF Untried, SameCall
<1>4. ASSUME stack # <<>>, NEW d, Returns(d) PROVE Untried(n)
  <2>1. Len(stack) # 1 /\ Len(stack') = Len(stack) - 1 /\ SameCall(n)
    BY <1>4, ReturnsCalls
  <2> QED
    BY <1>1, <1>4, <2>1 DEF Untried
<1>5. CASE NextCluster
  <2>1. stack' = <<>> \/ stack' = stack \/ stack' = <<Call(Head(queue))>>
    BY <1>5 DEF NextCluster, LoopGoesOn
  <2> QED
    BY <1>3, <2>1 DEF Untried, Call
<1>6. CASE AllSourcesFailed
  <2>1. stack # <<>> /\ ~MoreSources
    BY <1>6 DEF AllSourcesFailed, Trying
  <2>2. Frame.c \notin Own
    BY <2>1, Exhausted DEF Promised
  <2>3. ASSUME n = Len(stack) - 1, n # 0 PROVE Dead(stack[n].c, stack[n].i)
    <3>1. AtSecretSource(stack[n]) /\ stack[n + 1].c = parent[stack[n].c]
      BY <1>1, <2>1, <2>3 DEF TypeInv, StackInv
    <3>2. stack[n + 1] = Frame
      BY <1>1, <2>1, <2>3 DEF Frame
    <3> QED
      BY <2>2, <3>1, <3>2 DEF Dead, AtSecretSource
  <2>4. Len(stack) # 1 /\ n \in 1..Len(stack) - 1
    BY <1>6, <2>1, AllSourcesFailedCalls
  <2>5. \/ SameCall(n)
        \/ n = Len(stack) - 1 /\ stack'[n].c = stack[n].c /\ stack'[n].i = stack[n].i + 1
    BY <1>6, <2>1, AllSourcesFailedCalls
  <2>6. n \in 1..Len(stack) /\ n # 0
    BY <1>1, <2>1, <2>4
  <2> QED
    BY <2>3, <2>5, <2>6 DEF Untried, Passed
<1>7. CASE LocalSource
  <2>1. CASE Frame.c \in local
    BY <1>4, <1>7, <2>1 DEF LocalSource, Trying
  <2>2. CASE Frame.c \notin local
    <3>1. stack # <<>> /\ SourceFails /\ Dead(Frame.c, Frame.i)
      BY <1>7, <2>2 DEF LocalSource, Trying, Source, Dead
    <3> QED
      BY <3>1, PassedSource
  <2> QED
    BY <2>1, <2>2
<1>8. CASE OtherSource
  <2>1. stack # <<>> /\ SourceFails /\ Dead(Frame.c, Frame.i)
    BY <1>8 DEF OtherSource, Trying, Source, Dead
  <2> QED
    BY <2>1, PassedSource
<1>9. CASE ClusterAPISource
  <2>1. stack # <<>> /\ Source = "capi"
    BY <1>9 DEF ClusterAPISource, Trying
  <2>2. CASE ~InMap(parent[Frame.c])
    <3>1. SourceFails
      BY <1>9, <2>2 DEF ClusterAPISource, ParentCluster
    <3>2. Dead(Frame.c, Frame.i)
      BY <1>2, <2>1, <2>2 DEF InMap, Dead, Source
    <3> QED
      BY <2>1, <3>1, <3>2, PassedSource
  <2>3. CASE InMap(parent[Frame.c]) /\ AlreadyBuilt(parent[Frame.c])
    <3>1. stack' = [stack EXCEPT ![Len(stack)].at = "secret"]
      BY <1>9, <2>3 DEF ClusterAPISource, ParentCluster
    <3> DEFINE g == [Frame EXCEPT !.at = "secret"]
    <3>2. g \in Frames /\ g.c = Frame.c /\ g.i = Frame.i
      BY <1>1, <2>1 DEF Frames
    <3>3. stack' = [stack EXCEPT ![Len(stack)] = g]
      BY <3>1 DEF Frame
    <3> HIDE DEF g
    <3>4. stack \in Seq(Frames) /\ Len(stack) \in Nat \ {0}
      BY <1>1, <2>1 DEF TypeInv, TypeOK
    <3>5. /\ Len(stack') = Len(stack) /\ stack'[Len(stack)] = g
          /\ \A u \in 1..Len(stack) : u # Len(stack) => stack'[u] = stack[u]
      BY <3>2, <3>3, <3>4
    <3> QED
      BY <3>2, <3>5 DEF Untried, SameCall, Frame
  <2>4. CASE InMap(parent[Frame.c]) /\ ~AlreadyBuilt(parent[Frame.c])
    <3>1. stack' = stack \/ stack' = Append(stack, Call(parent[Frame.c]))
      BY <1>9, <2>4 DEF ClusterAPISource, ParentCluster, CallParent
    <3>2. CASE stack' = Append(stack, Call(parent[Frame.c]))
      <4>1. /\ Len(stack') = Len(stack) + 1 /\ stack'[Len(stack) + 1] = Call(parent[Frame.c])
            /\ \A u \in 1..Len(stack) : stack'[u] = stack[u]
        BY <3>2 DEF TypeInv, TypeOK
      <4>2. n \in 1..Len(stack) \/ n = Len(stack) + 1
        BY <1>1, <2>1, <4>1
      <4> QED
        BY <4>1, <4>2 DEF Untried, SameCall, Call
    <3> QED
      BY <1>3, <3>1, <3>2
  <2> QED
    BY <2>2, <2>3, <2>4
<1>10. CASE ReadSecret
  <2>1. stack # <<>> /\ Frame.at = "secret"
    BY <1>10 DEF ReadSecret
  <2>2. client' = parent[Frame.c]
    BY <1>10, <2>1, SecretClient DEF NoMixUpInv, ReadSecret, ParentCluster
  <2>3. \/ \E d \in {Frame.c, Wrong} : Returns(d)
        \/ SourceFails /\ Frame.c \notin secret
    BY <1>10, <2>2 DEF ReadSecret, ParentCluster
  <2>4. Frame.c \notin secret => Dead(Frame.c, Frame.i)
    <3>1. AtSecretSource(Frame)
      BY <1>1, <2>1 DEF TypeInv, StackInv, Frame
    <3> QED
      BY <3>1 DEF AtSecretSource, Dead
  <2> QED
    BY <1>4, <2>1, <2>3, <2>4, PassedSource
<1>11. CASE SecretUnreachable
  BY <1>11 DEF SecretUnreachable
<1>12. CASE BuildReturns \/ CleanupFails \/ Done \/ UNCHANGED vars
  BY <1>3, <1>12 DEF BuildReturns, CleanupFails, Done, vars
<1> QED
  BY <1>5, <1>6, <1>7, <1>8, <1>9, <1>10, <1>11, <1>12 DEF Next, Steps

LEMMA TroubleStays == ASSUME TypeInv, [Next]_vars PROVE trouble => trouble'
BY DEF Next, Steps, NextCluster, BuildReturns, AllSourcesFailed, LocalSource, OtherSource,
   ClusterAPISource, ReadSecret, SecretUnreachable, CleanupFails, Done, vars

LEMMA TriedStep ==
    TypeInv /\ CurrentIsBuilt /\ ClientInv /\ NoMixUpInv /\ TriedInv /\ [Next]_vars => TriedInv'
<1> SUFFICES ASSUME TypeInv, CurrentIsBuilt, ClientInv, NoMixUpInv, TriedInv, [Next]_vars,
                    NoMixUp', ~trouble',
                    NEW n \in 1..Len(stack'), NEW j \in 1..Len(sources'[stack'[n].c]),
                    j < stack'[n].i
             PROVE  /\ sources'[stack'[n].c][j] = "local" => stack'[n].c \notin local'
                    /\ sources'[stack'[n].c][j] = "capi" =>
                         ~(stack'[n].c \in secret' /\ parent'[stack'[n].c] \in Own')
  BY DEF TriedInv, Dead
<1>1. UNCHANGED siteVars
  BY SiteUnchanged
<1>2. NoMixUp /\ ~trouble
  BY <1>1, TroubleStays DEF NoMixUp, OneParent, DistinctNames, Overlap, Has, InMap, siteVars
<1>3. Untried(n)
  BY <1>2, CallsStep
<1>4. j \in Nat \ {0}
  OBVIOUS
<1>5. sources' = sources /\ local' = local /\ secret' = secret /\ parent' = parent /\ Own' = Own
  BY <1>1 DEF siteVars, Own, Has
<1>6. n \in 1..Len(stack) => stack[n].i \in Nat
  <2>1. n \in 1..Len(stack) => stack[n] \in Frames
    BY DEF TypeInv, TypeOK
  <2> QED
    BY <2>1 DEF Frames
<1>7. Dead(stack'[n].c, j)
  <2>1. CASE stack'[n].i = 1
    BY <1>4, <2>1
  <2>2. CASE n \in 1..Len(stack) /\ SameCall(n)
    BY <1>2, <1>5, <2>2 DEF TriedInv, SameCall
  <2>3. CASE Passed(n)
    <3>1. j < stack[n].i \/ j = stack[n].i
      BY <1>4, <1>6, <2>3 DEF Passed
    <3> QED
      BY <1>2, <1>5, <2>3, <3>1 DEF TriedInv, Passed
  <2> QED
    BY <1>3, <2>1, <2>2, <2>3 DEF Untried
<1> QED
  BY <1>5, <1>7 DEF Dead

\* Every cluster leaves the queue at its turn.
LEMMA QueueStep ==
    ASSUME TypeInv, HeadInv, TriedInv, [Next]_vars
    PROVE  \/ /\ queue' = queue
              /\ stack' # <<>> => queue # <<>> /\ stack'[1].c = Head(queue)
           \/ /\ queue # <<>> /\ queue' = Tail(queue) /\ stack' = <<>>
              /\ NoMixUp /\ ~trouble => /\ Head(queue) \in Clusters
                                          /\ \/ site'[Head(queue)] # NoCluster
                                             \/ Head(queue) \notin Promised
<1>1. stack # <<>> => /\ Len(stack) \in Nat \ {0} /\ Frame.c \in Clusters
                      /\ queue # <<>> /\ stack[1].c = Head(queue)
  BY BelowFacts DEF TypeInv, TypeOK, Frames, HeadInv
<1>2. Len(stack) = 1 => Frame.c = stack[1].c
  BY DEF Frame
<1>3. ASSUME stack # <<>>, SourceFails
      PROVE  queue' = queue /\ stack'[1].c = Head(queue)
  <2>1. queue' = queue
    BY <1>3 DEF SourceFails
  <2>2. CASE Len(stack) = 1
    BY <1>1, <1>2, <1>3, <2>1, <2>2, SourceFailsCalls
  <2>3. CASE Len(stack) # 1
    BY <1>1, <1>3, <2>1, <2>3, SourceFailsCalls DEF SameCall
  <2> QED
    BY <2>2, <2>3, <2>1
<1>4. ASSUME stack # <<>>, NEW d \in Clusters \cup {Wrong}, Returns(d)
      PROVE  \/ queue' = queue /\ stack'[1].c = Head(queue)
             \/ /\ queue' = Tail(queue) /\ stack' = <<>> /\ Head(queue) \in Clusters
                /\ site'[Head(queue)] # NoCluster
  <2>1. CASE Len(stack) = 1
    <3>1. site'[Frame.c] # NoCluster
      BY <1>4, ReturnsSite DEF TypeInv
    <3> QED
      BY <1>1, <1>2, <1>4, <2>1, <3>1, ReturnsCalls
  <2>2. CASE Len(stack) # 1
    <3>1. 1 \in 1..Len(stack')
      <4>1. Len(stack') = Len(stack) - 1
        BY <1>4, <2>2, ReturnsCalls
      <4> QED
        BY <1>1, <1>4, <2>2, <4>1
    <3> QED
      BY <1>1, <1>4, <2>2, <3>1, ReturnsCalls DEF SameCall
  <2> QED
    BY <2>1, <2>2
<1>5. CASE NextCluster
  BY <1>5 DEF NextCluster, LoopGoesOn, Call, AlreadyBuilt, InMap
<1>6. CASE AllSourcesFailed
  <2>1. stack # <<>> /\ ~MoreSources
    BY <1>6 DEF AllSourcesFailed, Trying
  <2>2. CASE Len(stack) = 1
    <3>1. NoMixUp /\ ~trouble => Head(queue) \in Clusters /\ Head(queue) \notin Promised
      BY <1>1, <1>2, <2>1, <2>2, Exhausted
    <3> QED
      BY <1>1, <1>6, <2>1, <2>2, <3>1, AllSourcesFailedCalls
  <2>3. CASE Len(stack) # 1
    <3>1. 1 \in 1..Len(stack')
      <4>1. Len(stack') = Len(stack) - 1
        BY <1>6, <2>1, <2>3, AllSourcesFailedCalls
      <4> QED
        BY <1>1, <2>1, <2>3, <4>1
    <3> QED
      BY <1>1, <1>6, <2>1, <2>3, <3>1, AllSourcesFailedCalls DEF SameCall
  <2> QED
    BY <2>2, <2>3
<1>7. CASE LocalSource
  <2>1. stack # <<>> /\ (SourceFails \/ Returns(Frame.c))
    BY <1>7 DEF LocalSource, Trying
  <2> QED
    BY <1>1, <1>3, <1>4, <2>1
<1>8. CASE ClusterAPISource
  <2>1. stack # <<>>
    BY <1>8 DEF ClusterAPISource, Trying
  <2>2. \/ SourceFails
        \/ /\ queue' = queue
           /\ \/ stack' = [stack EXCEPT ![Len(stack)].at = "secret"]
              \/ stack' = stack
              \/ stack' = Append(stack, Call(parent[Frame.c]))
    BY <1>8 DEF ClusterAPISource, CallParent, ParentCluster
  <2>3. stack[1] \in Frames /\ stack \in Seq(Frames)
    BY <1>1, <2>1 DEF TypeInv, TypeOK
  <2>4. stack'[1].c = stack[1].c \/ SourceFails
    <3>1. stack' = [stack EXCEPT ![Len(stack)].at = "secret"] => stack'[1].c = stack[1].c
      <4> SUFFICES ASSUME stack' = [stack EXCEPT ![Len(stack)].at = "secret"]
                   PROVE  stack'[1].c = stack[1].c
        OBVIOUS
      <4>1. stack'[1] \in {stack[1], [stack[1] EXCEPT !.at = "secret"]}
        BY <1>1, <2>1, <2>3
      <4> QED
        BY <2>3, <4>1 DEF Frames
    <3>2. stack' = Append(stack, Call(parent[Frame.c])) => stack'[1].c = stack[1].c
      BY <1>1, <2>1, <2>3
    <3> QED
      BY <2>2, <3>1, <3>2
  <2> QED
    BY <1>1, <1>3, <2>1, <2>2, <2>4
<1>9. CASE ReadSecret
  <2>1. stack # <<>> /\ (SourceFails \/ \E d \in {Frame.c, Wrong} : Returns(d))
    BY <1>9 DEF ReadSecret
  <2> QED
    BY <1>1, <1>3, <1>4, <2>1
<1>10. CASE OtherSource \/ SecretUnreachable
  <2>1. stack # <<>> /\ SourceFails
    BY <1>10 DEF OtherSource, SecretUnreachable, Trying
  <2> QED
    BY <1>1, <1>3, <2>1
<1>11. CASE BuildReturns \/ CleanupFails \/ Done \/ UNCHANGED vars
  BY <1>1, <1>11 DEF BuildReturns, CleanupFails, Done, vars
<1> QED
  BY <1>5, <1>6, <1>7, <1>8, <1>9, <1>10, <1>11 DEF Next, Steps

\* A context that is there stays.
LEMMA BuiltStays ==
    ASSUME TypeInv, CurrentIsBuilt, [Next]_vars, NEW c \in Clusters, AlreadyBuilt(c)
    PROVE  site'[c] # NoCluster
<1>1. ASSUME stack # <<>>, NEW d \in Clusters \cup {Wrong}, Returns(d) PROVE site'[c] # NoCluster
  <2>1. /\ site'[Frame.c] = d
        /\ \A e \in Clusters \ {Frame.c} : site'[e] # NoCluster <=> site[e] # NoCluster
    BY <1>1, ReturnsSite DEF TypeInv
  <2> QED
    BY <2>1 DEF AlreadyBuilt
<1>2. stack # <<>> => Frame.c \in Clusters
  BY BelowFacts DEF TypeInv, TypeOK, Frames
<1> QED
  BY <1>1, <1>2, SiteStep DEF LocalReturn, SecretReturn, AlreadyBuilt

LEMMA HeadStep == TypeInv /\ HeadInv /\ TriedInv /\ [Next]_vars => HeadInv'
<1> SUFFICES ASSUME TypeInv, HeadInv, TriedInv, [Next]_vars PROVE HeadInv'
  OBVIOUS
<1>1. Listed(requested)' = Listed(requested)
  BY SiteUnchanged DEF Listed
<1>2. queue # <<>> => Tail(queue) \in Seq(Listed(requested))
  <2> HIDE DEF Listed
  <2> QED
    BY DEF HeadInv
<1> QED
  BY <1>1, <1>2, QueueStep DEF HeadInv

LEMMA LeftStep ==
    TypeInv /\ CurrentIsBuilt /\ HeadInv /\ TriedInv /\ LeftInv /\ [Next]_vars => LeftInv'
<1> SUFFICES ASSUME TypeInv, CurrentIsBuilt, HeadInv, TriedInv, LeftInv, [Next]_vars,
                    NoMixUp', ~trouble', NEW c \in Listed(requested)'
             PROVE  c \in Listed(queue)' \/ Settled(c)'
  BY DEF LeftInv
<1>1. UNCHANGED siteVars /\ requested' = requested
  BY SiteUnchanged
<1>2. NoMixUp /\ ~trouble
  BY <1>1, TroubleStays DEF NoMixUp, OneParent, DistinctNames, Overlap, Has, InMap, siteVars
<1>3. Promised' = Promised
  BY <1>1 DEF Promised, Own, Has, siteVars
<1>4. c \in Listed(queue) \/ Settled(c)
  BY <1>1, <1>2 DEF LeftInv, Listed
<1>5. CASE Settled(c)
  BY <1>3, <1>5, BuiltStays DEF Settled, AlreadyBuilt
<1>6. CASE c \in Listed(queue) /\ queue' = queue
  BY <1>6 DEF Listed
<1>7. CASE c \in Listed(queue) /\ queue # <<>> /\ queue' = Tail(queue)
  <2>1. queue \in Seq(Listed(requested))
    BY DEF HeadInv
  <2>2. PICK n \in 1..Len(queue) : queue[n] = c
    BY <1>7 DEF Listed
  <2>3. CASE n = 1
    BY <1>2, <1>3, <1>4, <1>7, <2>2, <2>3, QueueStep DEF Settled, AlreadyBuilt
  <2>4. CASE n # 1
    <3> HIDE DEF Listed
    <3>1. Len(queue) \in Nat \ {0} /\ n \in 1..Len(queue)
      BY <1>7, <2>1, EmptySeq
    <3>2. /\ Len(Tail(queue)) = Len(queue) - 1 
          /\ \A k \in 1..Len(queue) - 1 : Tail(queue)[k] = queue[k + 1]
      BY <1>7, <2>1, <3>1
    <3>3. n - 1 \in 1..Len(queue) - 1
      BY <2>4, <3>1
    <3>4. n - 1 \in 1..Len(queue') /\ queue'[n - 1] = c
      BY <1>7, <2>2, <3>1, <3>2, <3>3
    <3> QED
      BY <3>4 DEF Listed
  <2> QED
    BY <2>3, <2>4
<1> QED
  BY <1>4, <1>5, <1>6, <1>7, QueueStep

LEMMA OkStep == OkInv /\ [Next]_vars => OkInv'
<1> SUFFICES ASSUME OkInv, [Next]_vars PROVE OkInv'
  OBVIOUS
<1>1. ASSUME Steps, ~BuildReturns PROVE result' # "ok"
  BY <1>1 DEF Steps, NextCluster, AllSourcesFailed, LocalSource, OtherSource, ClusterAPISource,
     ReadSecret, SecretUnreachable, CleanupFails, Trying, Running, LoopGoesOn, SourceFails,
     Returns, CallParent
<1> QED
  BY <1>1 DEF OkInv, Next, BuildReturns, Done, vars

\* The answer to every request is settled when the build ends well.
LEMMA CompleteIfSettled ==
    ASSUME TypeOK, BuiltIsPromised, LeftInv, OkInv
    PROVE  Complete
<1> SUFFICES ASSUME NoMixUp, result = "ok", ~trouble, NEW n \in 1..Len(requested)
             PROVE  AlreadyBuilt(requested[n]) <=> requested[n] \in Buildable[Depth]
  BY DEF Complete
<1> DEFINE c == requested[n]
<1>1. c \notin Listed(queue)
  BY DEF OkInv, Listed
<1>2. Settled(c)
  <2>1. c \in Listed(requested)
    BY DEF Listed
  <2> QED
    BY <1>1, <2>1 DEF LeftInv
<1>3. Depth \in Nat \ {0}
  <2> DEFINE q == CHOOSE o \in AllClusters : TRUE
  <2>1. q \in Seq(Clusters) /\ Listed(q) = Clusters
    BY OrdersAssumption DEF AllClusters
  <2>2. Depth = Len(q)
    BY DEF Depth
  <2> HIDE DEF q, c
  <2>3. c \in Listed(q)
    BY <1>2, <2>1 DEF Settled
  <2>4. Len(q) \in Nat
    BY <2>1
  <2>5. PICK k \in 1..Len(q) : q[k] = c
    BY <2>3 DEF Listed
  <2> QED
    BY <2>2, <2>4, <2>5
<1>4. Buildable[Depth] = Promised
  BY <1>3, BuildableIsPromised
<1>5. Promised \in SUBSET Clusters /\ Closed(Promised)
  BY PromisedClosed DEF Promised, Own, TypeOK
<1> QED
  BY <1>2, <1>4, <1>5 DEF BuiltIsPromised, Settled

\* A call that returns leads to its own cluster, or was read by a client that is kept
\* for another one; the contexts it leads astray have a name in common with its own.
LEMMA GenuineStep == TypeInv /\ CurrentIsBuilt /\ Genuine /\ [Next]_vars => Genuine'
<1> SUFFICES ASSUME TypeInv, CurrentIsBuilt, Genuine, [Next]_vars, NEW c \in Clusters
             PROVE  \/ site'[c] \in {NoCluster, c}
                    \/ \E d \in Clusters : OverwrittenBy(c, d)'
                    \/ ForeignClient(c)'
  BY DEF Genuine
<1>1. UNCHANGED siteVars
  BY SiteUnchanged
<1>2. \A d \in Clusters : AlreadyBuilt(d) => AlreadyBuilt(d)'
  BY BuiltStays DEF AlreadyBuilt
<1>3. \A d, e \in Clusters : Overlap(d, e)' <=> Overlap(d, e)
  BY <1>1 DEF Overlap, siteVars
<1>4. client # NoCluster => client' = client
  BY ClientStep DEF Client
<1>5. ForeignClient(c) => ForeignClient(c)'
  BY <1>1, <1>4 DEF ForeignClient, Has, siteVars
<1>6. \A d \in Clusters : OverwrittenBy(c, d) => OverwrittenBy(c, d)'
  BY <1>2, <1>3 DEF OverwrittenBy
<1>7. CASE site'[c] = site[c]
  BY <1>5, <1>6, <1>7 DEF Genuine
<1>8. ASSUME stack # <<>>, NEW d \in Clusters \cup {Wrong}, Returns(d), site'[c] # site[c],
             c # Frame.c
      PROVE  \E e \in Clusters : OverwrittenBy(c, e)'
  <2>1. /\ Frame.c \in Clusters /\ site'[Frame.c] = d
        /\ ~Overlap(Frame.c, c) => site'[c] = site[c]
    BY <1>8, ReturnsSite DEF TypeInv
  <2>2. PICK e \in Clusters : e = Frame.c
    BY <2>1
  <2>3. OverwrittenBy(c, e)'
    BY <1>3, <1>8, <2>1, <2>2 DEF OverwrittenBy, AlreadyBuilt
  <2> QED BY <2>3
<1>9. CASE stack # <<>> /\ LocalReturn
  <2>1. Frame.c \in Clusters /\ Returns(Frame.c)
    BY <1>9, BelowFacts DEF TypeInv, TypeOK, Frames, LocalReturn
  <2>2. site'[Frame.c] = Frame.c
    BY <1>9, <2>1, ReturnsSite DEF TypeInv
  <2> QED BY <1>7, <1>8, <1>9, <2>1, <2>2
<1>10. CASE stack # <<>> /\ Frame.at = "secret" /\ SecretReturn
  <2>1. /\ Frame.c \in Clusters /\ Has(Frame.c, "capi")
        /\ InMap(parent[Frame.c]) /\ AlreadyBuilt(parent[Frame.c])
    BY <1>10, SecretFacts
  <2>2. PICK d \in {Frame.c, Wrong} :
          /\ ReadSecret /\ Returns(d)
          /\ IF d = Wrong THEN client' # parent[Frame.c] ELSE Frame.c \in secret
    BY <1>10 DEF SecretReturn
  <2>3. d \in Clusters \cup {Wrong} /\ site'[Frame.c] = d
    BY <1>10, <2>1, <2>2, ReturnsSite DEF TypeInv
  <2>4. ASSUME d = Wrong, c = Frame.c PROVE ForeignClient(c)'
    <3>1. Has(c, "capi") /\ client' # parent[c]
      BY <2>1, <2>2, <2>4
    <3>2. client' # NoCluster
      BY <2>1, <2>2 DEF ReadSecret, Client, ParentCluster, AlreadyBuilt
    <3> QED BY <1>1, <3>1, <3>2 DEF ForeignClient, Has, siteVars
  <2> QED BY <1>7, <1>8, <1>10, <2>1, <2>2, <2>3, <2>4
<1> QED
  BY <1>7, <1>9, <1>10, SiteStep

\* A context leads to the cluster it is named after, for any map and any names, unless
\* another context has a name in common with it or the client that is kept is not for
\* its parent: only these two can lead it astray (builder.go:220, 286, 296).
THEOREM GenuineHolds == Spec => []Genuine
<1> DEFINE Inv == TypeInv /\ CurrentIsBuilt /\ Genuine
<1>1. Init => CurrentIsBuilt /\ Genuine
  BY DEF Init, CurrentIsBuilt, Genuine
<1>2. Init => Inv
  BY <1>1, TypeInvInit
<1>3. Inv /\ [Next]_vars => Inv'
  BY TypeInvStep, CurrentIsBuiltStep, GenuineStep
<1> QED
  BY <1>2, <1>3, PTL DEF Spec

\* With one parent and names of their own, no context is built for a cluster the cluster
\* map does not promise.
THEOREM BuiltIsPromisedHolds == Spec => []BuiltIsPromised
<1> DEFINE Inv == /\ TypeInv /\ CurrentIsBuilt /\ ClientInv /\ NoMixUpInv
                  /\ BuiltIsPromised
<1>1. Init => CurrentIsBuilt /\ ClientInv /\ NoMixUpInv /\ BuiltIsPromised
  BY DEF Init, CurrentIsBuilt, ClientInv, NoMixUpInv, AlwaysGenuine, BuiltIsPromised, AlreadyBuilt
<1>2. Init => Inv
  BY <1>1, TypeInvInit
<1>3. Inv /\ [Next]_vars => Inv'
  BY TypeInvStep, CurrentIsBuiltStep, ClientInvStep, BuiltIsPromisedStep
<1> QED
  BY <1>2, <1>3, PTL DEF Spec

\* The invariant behind Complete.
CompleteInv ==
    /\ TypeInv /\ CurrentIsBuilt /\ ClientInv /\ NoMixUpInv
    /\ BuiltIsPromised /\ HeadInv /\ TriedInv /\ LeftInv /\ OkInv

LEMMA CompleteInvHolds == Spec => []CompleteInv
<1>1. Init => /\ CurrentIsBuilt /\ ClientInv /\ NoMixUpInv /\ BuiltIsPromised
              /\ TriedInv /\ LeftInv /\ OkInv
  <2> SUFFICES ASSUME Init
               PROVE  /\ CurrentIsBuilt /\ ClientInv /\ NoMixUpInv /\ BuiltIsPromised
                      /\ TriedInv /\ LeftInv /\ OkInv
    OBVIOUS
  <2>1. CurrentIsBuilt /\ ClientInv /\ NoMixUpInv /\ BuiltIsPromised
    BY DEF Init, CurrentIsBuilt, ClientInv, NoMixUpInv, AlwaysGenuine, BuiltIsPromised, AlreadyBuilt
  <2>2. TriedInv
    BY DEF Init, TriedInv
  <2>3. LeftInv /\ OkInv
    BY DEF Init, LeftInv, OkInv
  <2> QED
    BY <2>1, <2>2, <2>3
<1>2. Init => HeadInv
  <2> SUFFICES ASSUME Init PROVE HeadInv
    OBVIOUS
  <2>1. CASE queue \in AllClusters
    BY <2>1, OrdersAssumption DEF Init, HeadInv, AllClusters
  <2>2. CASE queue \in Requests
    BY <2>2, RequestsAssumption DEF Init, HeadInv
  <2> QED
    BY <2>1, <2>2 DEF Init
<1>3. Init => CompleteInv
  BY <1>1, <1>2, TypeInvInit DEF CompleteInv
<1>4. CompleteInv /\ [Next]_vars => CompleteInv'
  BY TypeInvStep, CurrentIsBuiltStep, ClientInvStep, BuiltIsPromisedStep, HeadStep, TriedStep,
     LeftStep, OkStep DEF CompleteInv
<1> QED
  BY <1>3, <1>4, PTL DEF Spec

\* A build that succeeds undisturbed holds a context for exactly those requested
\* clusters that the cluster map promises, in whatever order it lists the clusters
\* (builder.go:96, 164).
THEOREM CompleteHolds == Spec => []Complete
<1>1. CompleteInv => Complete
  BY CompleteIfSettled DEF CompleteInv, TypeInv
<1> QED
  BY <1>1, CompleteInvHolds, PTL

-----------------------------------------------------------------------------
(* The end of the recursion.                                                *)

\* The safe half of BuildEnds: only a map that ValidateClusterMap would refuse can
\* exhaust a stack that has room for every cluster of the map and one more.
OverflowIsRefused == result = "overflow" => ~ValidateClusterMap

\* A stack that is exhausted is full of calls for parents.
OverflowInv == result = "overflow" => Len(stack) = MaxStack /\ AtSecretSource(Frame)

LEMMA OverflowStep == TypeInv /\ OverflowInv /\ [Next]_vars => OverflowInv'
<1> SUFFICES ASSUME TypeInv, OverflowInv, [Next]_vars, result' = "overflow"
             PROVE  Len(stack') = MaxStack /\ AtSecretSource(Frame)'
  BY DEF OverflowInv
<1>1. UNCHANGED <<parent, sources>>
  BY SiteUnchanged DEF siteVars
<1>2. CASE Done \/ UNCHANGED vars
  <2>1. UNCHANGED <<stack, result>>
    BY <1>2 DEF Done, vars
  <2> QED
    BY <1>1, <2>1 DEF OverflowInv, AtSecretSource, Frame, InMap
<1>3. CASE ClusterAPISource
  <2>1. /\ ~(Len(stack) < MaxStack) /\ stack' = stack /\ InMap(parent[Frame.c])
        /\ MoreSources /\ Source = "capi"
    BY <1>3 DEF ClusterAPISource, SourceFails, CallParent, ParentCluster, Trying, Running
  <2>2. Len(stack) = MaxStack
    BY <2>1 DEF TypeInv, TypeOK
  <2> QED
    BY <1>1, <2>1, <2>2 DEF AtSecretSource, Frame, InMap, MoreSources, Source
<1>4. CASE Steps /\ ~ClusterAPISource
  BY <1>4 DEF Steps, NextCluster, BuildReturns, AllSourcesFailed, LocalSource, OtherSource,
     ReadSecret, SecretUnreachable, CleanupFails, Trying, Running, LoopGoesOn, SourceFails,
     Returns
<1> QED
  BY <1>2, <1>3, <1>4 DEF Next

\* What Climb computes: the function that its recursion defines.
IsClimb(c, up) ==
    up = [n \in 0..Depth + 1 |-> IF n = 0 THEN c
                                 ELSE IF InMap(up[n - 1]) THEN parent[up[n - 1]] ELSE up[n - 1]]

LEMMA ClimbIs ==
    ASSUME Depth \in Nat, NEW c, NEW up, IsClimb(c, up), NEW n \in 1..Depth + 1
    PROVE  Climb(c)[n] = up[n]
<1> DEFINE F == CHOOSE f : IsClimb(c, f)
           Bad == {k \in 0..Depth + 1 : F[k] # up[k]}
<1>1. IsClimb(c, F)
  OBVIOUS
<1>2. Climb(c) = [k \in 1..Depth + 1 |-> F[k]]
  BY DEF Climb, IsClimb
<1> HIDE DEF F
<1>3. Bad = {}
  <2> SUFFICES ASSUME Bad # {} PROVE FALSE
    OBVIOUS
  <2>1. PICK m \in Bad : \A k \in Bad : ~(k < m)
    <3>1. Bad \subseteq Nat
      OBVIOUS
    <3> QED
      BY <3>1, LeastNat, Zenon
  <2>2. m \in 0..Depth + 1 /\ F[m] # up[m]
    OBVIOUS
  <2>3. m # 0
    BY <1>1, <2>2 DEF IsClimb
  <2>4. m - 1 \in 0..Depth + 1 /\ m - 1 < m
    BY <2>2, <2>3
  <2>5. F[m - 1] = up[m - 1]
    BY <2>1, <2>4
  <2>6. /\ F[m] = IF InMap(F[m - 1]) THEN parent[F[m - 1]] ELSE F[m - 1]
        /\ up[m] = IF InMap(up[m - 1]) THEN parent[up[m - 1]] ELSE up[m - 1]
    BY <1>1, <2>2, <2>3 DEF IsClimb
  <2> QED
    BY <2>2, <2>5, <2>6
<1> QED
  BY <1>2, <1>3

\* One more place than there are clusters holds some cluster twice.
LEMMA ClusterTwice ==
    ASSUME NEW f \in [1..Depth + 1 -> Clusters]
    PROVE  /\ Depth \in Nat
           /\ \E m, n \in 1..Depth + 1 : m < n /\ f[m] = f[n]
<1> DEFINE q == CHOOSE o \in AllClusters : TRUE
<1>1. q \in Seq(Clusters) /\ Listed(q) = Clusters /\ Depth = Len(q)
  BY OrdersAssumption DEF AllClusters, Depth
<1> HIDE DEF q
<1>2. Depth \in Nat
  BY <1>1
<1>3. q \in Surjection(1..Depth, Clusters)
  BY <1>1 DEF Surjection, Listed
<1>4. IsFiniteSet(1..Depth) /\ Cardinality(1..Depth) = Depth
  BY <1>2, FS_Interval
<1>5. IsFiniteSet(Clusters) /\ Cardinality(Clusters) <= Depth
  BY <1>3, <1>4, FS_Surjection
<1>6. IsFiniteSet(1..Depth + 1) /\ Cardinality(1..Depth + 1) = Depth + 1
  BY <1>2, FS_Interval
<1>7. Cardinality(Clusters) < Cardinality(1..Depth + 1)
  BY <1>2, <1>5, <1>6, FS_CardinalityType
<1>8. PICK m, n \in 1..Depth + 1 : m # n /\ f[m] = f[n]
  <2> DEFINE S == 1..Depth + 1
  <2>1. IsFiniteSet(S) /\ Cardinality(Clusters) < Cardinality(S) /\ f \in [S -> Clusters]
    BY <1>6, <1>7
  <2> HIDE DEF S
  <2>2. \E m, n \in S : m # n /\ f[m] = f[n]
    <3> SUFFICES ASSUME f \in Injection(S, Clusters) PROVE FALSE
      BY <2>1 DEF Injection, IsInjective
    <3>1. Cardinality(S) <= Cardinality(Clusters)
      BY <1>5, FS_Injection
    <3> QED
      BY <1>5, <2>1, <3>1, FS_CardinalityType
  <2> QED
    BY <2>2 DEF S
<1>9. m < n \/ n < m
  BY <1>2, <1>8
<1> QED
  BY <1>2, <1>8, <1>9

\* The calls of an exhausted stack are a climb that comes back to a cluster.
LEMMA OverflowIsCircular ==
    ASSUME TypeInv, OverflowInv, result = "overflow", MaxStack > Depth
    PROVE  Circular(stack[1].c)
<1> DEFINE last == Len(stack)
           ch == [n \in 0..Depth + 1 |-> IF n < last THEN stack[n + 1].c ELSE parent[stack[last].c]]
<1>1. Depth \in Nat
  <2> DEFINE q == CHOOSE o \in AllClusters : TRUE
  <2>1. q \in Seq(Clusters) /\ Depth = Len(q)
    BY OrdersAssumption DEF AllClusters, Depth
  <2> HIDE DEF q
  <2> QED
    BY <2>1
<1>2. last = MaxStack /\ last \in Nat /\ Depth + 1 <= last
  BY <1>1 DEF OverflowInv
<1>3. AtSecretSource(stack[last])
  BY DEF OverflowInv, Frame
<1>4. \A n \in 1..last : stack[n] \in Frames
  BY DEF TypeInv, TypeOK
<1>5. \A n \in 1..last - 1 : /\ AtSecretSource(stack[n])
                             /\ stack[n + 1].c = parent[stack[n].c]
  <2> SUFFICES ASSUME NEW n \in 1..last - 1
               PROVE  AtSecretSource(stack[n]) /\ stack[n + 1].c = parent[stack[n].c]
    OBVIOUS
  <2>1. n \in 1..Len(stack) /\ n < Len(stack)
    BY <1>2
  <2> QED
    BY <2>1 DEF TypeInv, StackInv
<1> HIDE DEF last
<1>6. ASSUME NEW n \in 0..Depth PROVE ch[n] \in Clusters /\ ch[n + 1] = parent[ch[n]]
  <2>1. n < last /\ n + 1 \in 1..last /\ ch[n] = stack[n + 1].c
    BY <1>1, <1>2
  <2>2. stack[n + 1].c \in Clusters
    BY <1>4, <2>1 DEF Frames
  <2>3. CASE n + 1 = last
    BY <1>1, <2>1, <2>2, <2>3
  <2>4. CASE n + 1 # last
    <3>1. n + 1 \in 1..last - 1 /\ n + 1 < last /\ n + 1 \in 0..Depth + 1
      BY <1>1, <1>2, <2>1, <2>4
    <3>2. ch[n + 1] = stack[n + 1 + 1].c
      BY <3>1
    <3> QED
      BY <1>5, <2>1, <2>2, <3>1, <3>2
  <2> QED
    BY <2>3, <2>4
<1>7. ch[Depth + 1] \in Clusters
  <2>1. CASE Depth + 1 < last
    <3>1. Depth + 2 \in 1..last /\ ch[Depth + 1] = stack[Depth + 2].c
      BY <1>1, <1>2, <2>1
    <3> QED
      BY <1>4, <3>1 DEF Frames
  <2>2. CASE ~(Depth + 1 < last)
    BY <1>1, <1>3, <2>2 DEF AtSecretSource, InMap
  <2> QED
    BY <2>1, <2>2
<1>8. ch[0] = stack[1].c
  BY <1>1, <1>2
<1>9. DOMAIN ch = 0..Depth + 1 /\ ch = [n \in 0..Depth + 1 |-> ch[n]]
  OBVIOUS
<1> HIDE DEF ch
<1>10. \A n \in 1..Depth + 1 : ch[n - 1] \in Clusters /\ ch[n] = parent[ch[n - 1]]
  <2> SUFFICES ASSUME NEW n \in 1..Depth + 1
               PROVE  ch[n - 1] \in Clusters /\ ch[n] = parent[ch[n - 1]]
    OBVIOUS
  <2>1. n - 1 \in 0..Depth /\ n - 1 + 1 = n
    BY <1>1
  <2> QED
    BY <1>6, <2>1
<1>11. IsClimb(stack[1].c, ch)
  <2> DEFINE g == [n \in 0..Depth + 1 |->
                     IF n = 0 THEN stack[1].c
                     ELSE IF InMap(ch[n - 1]) THEN parent[ch[n - 1]] ELSE ch[n - 1]]
  <2>1. ASSUME NEW n \in 0..Depth + 1 PROVE ch[n] = g[n]
    <3>1. CASE n = 0
      BY <1>8, <3>1
    <3>2. CASE n # 0
      <4>1. n \in 1..Depth + 1
        BY <1>1, <3>2
      <4>2. ch[n - 1] \in Clusters /\ ch[n] = parent[ch[n - 1]]
        BY <1>10, <4>1
      <4> QED
        BY <3>2, <4>2 DEF InMap
    <3> QED
      BY <3>1, <3>2
  <2>2. g = [n \in 0..Depth + 1 |-> g[n]]
    OBVIOUS
  <2> HIDE DEF g
  <2>3. ch = g
    BY <1>9, <2>1, <2>2
  <2> QED
    BY <2>3 DEF g, IsClimb
<1> DEFINE f == [n \in 1..Depth + 1 |-> ch[n]]
<1>12. f \in [1..Depth + 1 -> Clusters]
  <2>1. \A n \in 1..Depth + 1 : ch[n] \in Clusters
    <3> SUFFICES ASSUME NEW n \in 1..Depth + 1 PROVE ch[n] \in Clusters
      OBVIOUS
    <3>1. n \in 0..Depth \/ n = Depth + 1
      BY <1>1
    <3> QED
      BY <1>6, <1>7, <3>1
  <2> QED
    BY <2>1
<1>13. PICK m, n \in 1..Depth + 1 : m < n /\ f[m] = f[n]
  BY <1>12, ClusterTwice
<1>14. \A k \in 1..Depth + 1 : Climb(stack[1].c)[k] = f[k]
  BY <1>1, <1>11, ClimbIs
<1>15. DOMAIN Climb(stack[1].c) = 1..Depth + 1
  BY DEF Climb
<1>16. f[n] \in Clusters
  BY <1>12
<1> HIDE DEF f
<1> QED
  BY <1>13, <1>14, <1>15, <1>16 DEF Circular, InMap

\* With room on the stack for one call more than the map has clusters, a build that
\* exhausts it is one of a map whose parents form a cycle, which ValidateClusterMap
\* refuses (builder.go:207, map.go:71).
THEOREM OverflowIsRefusedHolds == ASSUME MaxStack > Depth PROVE Spec => []OverflowIsRefused
<1> DEFINE Inv == TypeInv /\ OverflowInv
<1>1. Init => OverflowInv
  BY DEF Init, OverflowInv
<1>2. Inv => OverflowIsRefused
  <2> SUFFICES ASSUME TypeInv, OverflowInv, result = "overflow" PROVE ~ValidateClusterMap
    BY DEF OverflowIsRefused
  <2>1. Circular(stack[1].c)
    BY OverflowIsCircular
  <2>2. stack[1].c \in Clusters
    <3>1. Len(stack) \in Nat \ {0}
      BY DEF OverflowInv
    <3>2. stack[1] \in Frames
      BY <3>1 DEF TypeInv, TypeOK
    <3> QED
      BY <3>2 DEF Frames
  <2> QED
    BY <2>1, <2>2 DEF ValidateClusterMap
<1> QED
  BY <1>1, <1>2, TypeInvInit, TypeInvStep, OverflowStep, PTL DEF Spec

-----------------------------------------------------------------------------
(* A build descends.                                                        *)

\* What call f has left to do: its source at hand, which is tried and may then be
\* waited for as a secret, and the sources after it.
CallLeft(f) ==
    2 * (Len(sources[f.c]) + 1 - f.i) + (IF f.at = "try" THEN 1 ELSE 0)

\* No call is more than one past its last source.
CallsInv == \A n \in 1..Len(stack) : stack[n].i <= Len(sources[stack[n].c]) + 1

\* The step at hand ends the build or an outermost call, or the calls before and after
\* it agree up to one that is new or has less left to do.
Level(n) == CallLeft(stack[n])
Descends ==
    \/ result' # "running"
    \/ Len(queue') < Len(queue)
    \/ /\ queue' = queue
       /\ \E k \in 1..Len(stack') :
            /\ \A n \in 1..k - 1 : n \in 1..Len(stack) /\ Level(n)' = Level(n)
            /\ k \in 1..Len(stack) => Level(k)' < Level(k)
LevelsInv == \A n \in 1..Len(stack) : Level(n) \in Nat \ {0}

LEMMA LevelAgain ==
    ASSUME TypeInv, TypeInv', [Next]_vars, NEW n \in 1..Len(stack), n \in 1..Len(stack'),
           n < Len(stack), n < Len(stack'), SameCall(n)
    PROVE  Level(n)' = Level(n)
<1>1. stack[n].at = "try" /\ stack'[n].at = "try" /\ sources' = sources
  BY SiteUnchanged DEF TypeInv, StackInv, siteVars
<1> QED
  BY <1>1 DEF Level, CallLeft, SameCall

LEMMA CallFacts ==
    ASSUME TypeInv, NEW n \in 1..Len(stack)
    PROVE  /\ stack[n] \in Frames /\ stack[n].i \in Nat \ {0} /\ stack[n].at \in {"try", "secret"}
           /\ stack[n].c \in Clusters /\ Len(sources[stack[n].c]) \in Nat
           /\ stack[n].at = "secret" => stack[n].i <= Len(sources[stack[n].c])
           /\ n < Len(stack) => stack[n].i <= Len(sources[stack[n].c]) /\ stack[n].at = "try"
<1>1. stack[n] \in Frames
  BY DEF TypeInv, TypeOK
<1>2. stack[n].c \in Clusters /\ stack[n].i \in Nat \ {0} /\ stack[n].at \in {"try", "secret"}
  BY <1>1 DEF Frames
<1>3. Len(sources[stack[n].c]) \in Nat
  <2>1. sources[stack[n].c] \in Seq(SourceTypes)
    BY <1>2 DEF TypeInv, TypeOK
  <2> QED
    BY <2>1
<1> QED
  BY <1>1, <1>2, <1>3 DEF TypeInv, StackInv, AtSecretSource

LEMMA LaterSourceIsLess ==
    ASSUME NEW f, NEW g, g.c = f.c, g.i = f.i + 1, f.i \in Nat, Len(sources[f.c]) \in Nat
    PROVE  CallLeft(g) < CallLeft(f)
<1> DEFINE l == Len(sources[f.c])
           a == IF f.at = "try" THEN 1 ELSE 0
           b == IF g.at = "try" THEN 1 ELSE 0
<1>1. a \in {0, 1} /\ b \in {0, 1} /\ Len(sources[g.c]) = l
  OBVIOUS
<1>2. CallLeft(f) = 2 * (l + 1 - f.i) + a /\ CallLeft(g) = 2 * (l + 1 - (f.i + 1)) + b
  BY <1>1 DEF CallLeft
<1> HIDE DEF l, a, b
<1>3. l \in Nat
  BY DEF l
<1>4. \A i \in Nat : 2 * (l + 1 - (i + 1)) + b < 2 * (l + 1 - i) + a
  BY <1>1, <1>3
<1> QED
  BY <1>2, <1>4, Zenon

LEMMA SecretIsLess ==
    ASSUME NEW f, NEW g, g.c = f.c, g.i = f.i, f.at = "try", g.at = "secret", f.i \in Nat,
           Len(sources[f.c]) \in Nat
    PROVE  CallLeft(g) < CallLeft(f)
<1> DEFINE l == Len(sources[f.c])
<1>1. CallLeft(f) = 2 * (l + 1 - f.i) + 1 /\ CallLeft(g) = 2 * (l + 1 - f.i) + 0
  BY DEF CallLeft
<1> HIDE DEF l
<1>2. l \in Nat
  BY DEF l
<1>3. \A i \in Nat : 2 * (l + 1 - i) + 0 < 2 * (l + 1 - i) + 1
  BY <1>2
<1> QED
  BY <1>1, <1>3, Zenon

LEMMA SourceFailsDescends ==
    ASSUME TypeInv, TypeInv', [Next]_vars, stack # <<>>, SourceFails, Frame.i <= Len(sources[Frame.c])
    PROVE  Descends
<1>0. PICK L \in Nat : L = Len(stack)
  BY BelowFacts DEF TypeInv, TypeOK
<1>1. /\ L \in Nat \ {0} /\ Len(stack') = L /\ queue' = queue
      /\ \A n \in 1..L - 1 : SameCall(n)
      /\ stack'[L].c = stack[L].c /\ stack'[L].i = stack[L].i + 1
  BY <1>0, SourceFailsCalls DEF Frame, SourceFails
<1>2. sources' = sources
  BY SiteUnchanged DEF siteVars
<1>3. /\ stack[L].i \in Nat \ {0} /\ stack[L].at \in {"try", "secret"}
      /\ Len(sources[stack[L].c]) \in Nat
  BY <1>0, <1>1, CallFacts
<1>4. Level(L)' < Level(L)
  <2>1. CallLeft(stack'[L]) < CallLeft(stack[L])
    BY <1>1, <1>3, LaterSourceIsLess
  <2> QED
    BY <1>2, <2>1 DEF Level, CallLeft
<1>5. \A n \in 1..L - 1 : n \in 1..Len(stack) /\ Level(n)' = Level(n)
  BY <1>0, <1>1, LevelAgain
<1> QED
  <2>1. L \in 1..Len(stack') /\ L \in 1..Len(stack)
    BY <1>0, <1>1
  <2> QED
    <3>1. queue' = queue
      BY <1>1
    <3> QED
      BY <1>4, <1>5, <2>1, <3>1, Zenon DEF Descends

\* A call for a parent that returns, with or without a kubeconfig.
LEMMA ReturnsAt ==
    ASSUME TypeInv, stack # <<>>, Len(stack) # 1, NEW d, Returns(d)
    PROVE  stack'[Len(stack) - 1].at = "secret"
<1> DEFINE k == Len(stack) - 1
<1>1. /\ Len(stack) \in Nat \ {0} /\ Below \in Seq(Frames) /\ Len(Below) = k
  BY BelowFacts DEF TypeInv, TypeOK
<1>2. k \in 1..Len(Below) /\ Below[k] \in Frames
  BY <1>1
<1>3. stack' = [Below EXCEPT ![k].at = "secret"]
  BY <1>1 DEF Returns
<1> DEFINE g == [Below[k] EXCEPT !.at = "secret"]
<1>4. g.at = "secret" /\ stack' = [Below EXCEPT ![k] = g]
  BY <1>2, <1>3 DEF Frames
<1> HIDE DEF g
<1>5. stack'[k] = g
  BY <1>1, <1>2, <1>4
<1> QED
  BY <1>4, <1>5

LEMMA AllSourcesFailedAt ==
    ASSUME TypeInv, stack # <<>>, Len(stack) # 1, AllSourcesFailed
    PROVE  stack'[Len(stack) - 1].i = stack[Len(stack) - 1].i + 1
<1> DEFINE k == Len(stack) - 1
<1>1. /\ Len(stack) \in Nat \ {0} /\ Below \in Seq(Frames) /\ Len(Below) = k
      /\ \A n \in 1..Len(stack) - 1 : Below[n] = stack[n]
  BY BelowFacts DEF TypeInv, TypeOK
<1>2. k \in 1..Len(Below) /\ Below[k] \in Frames /\ Below[k] = stack[k]
  BY <1>1
<1>3. stack' = [Below EXCEPT ![k] = Skipped(Below[k])]
  BY <1>1 DEF AllSourcesFailed
<1>4. Skipped(Below[k]).i = Below[k].i + 1
  BY <1>2 DEF Skipped, Frames
<1>5. stack'[k] = Skipped(Below[k])
  BY <1>1, <1>2, <1>3
<1> QED
  BY <1>2, <1>4, <1>5

\* A call that returns to the call for a child.
LEMMA PopDescends ==
    ASSUME TypeInv, TypeInv', [Next]_vars, stack # <<>>, Len(stack) # 1,
           Len(stack') = Len(stack) - 1, queue' = queue,
           \A n \in 1..Len(stack) - 2 : SameCall(n),
           stack'[Len(stack) - 1].c = stack[Len(stack) - 1].c,
           \/ /\ stack'[Len(stack) - 1].i = stack[Len(stack) - 1].i
              /\ stack'[Len(stack) - 1].at = "secret"
           \/ stack'[Len(stack) - 1].i = stack[Len(stack) - 1].i + 1
    PROVE  Descends
<1>0. PICK k \in Int : k = Len(stack) - 1
  BY BelowFacts DEF TypeInv, TypeOK
<1>1. /\ Len(stack) \in Nat \ {0} /\ k \in 1..Len(stack) /\ k < Len(stack)
      /\ k - 1 = Len(stack) - 2 /\ Len(stack') = k /\ k \in 1..Len(stack')
  BY <1>0, BelowFacts DEF TypeInv, TypeOK
<1>2. sources' = sources
  BY SiteUnchanged DEF siteVars
<1>3. stack[k].i \in Nat \ {0} /\ stack[k].at = "try" /\ Len(sources[stack[k].c]) \in Nat
  BY <1>1, CallFacts
<1>4. Level(k)' < Level(k)
  <2>1. CallLeft(stack'[k]) < CallLeft(stack[k])
    BY <1>0, <1>3, LaterSourceIsLess, SecretIsLess
  <2> QED
    BY <1>2, <2>1 DEF Level, CallLeft
<1>5. \A n \in 1..k - 1 : n \in 1..Len(stack) /\ Level(n)' = Level(n)
  <2> SUFFICES ASSUME NEW n \in 1..k - 1 PROVE n \in 1..Len(stack) /\ Level(n)' = Level(n)
    OBVIOUS
  <2>1. /\ n \in 1..Len(stack) /\ n \in 1..Len(stack') /\ n < Len(stack) /\ n < Len(stack')
        /\ n \in 1..Len(stack) - 2
    BY <1>0, <1>1
  <2> QED
    BY <2>1, LevelAgain
<1> QED
  BY <1>1, <1>4, <1>5 DEF Descends

LEMMA TailShorter ==
    ASSUME HeadInv, queue # <<>> PROVE Len(Tail(queue)) < Len(queue)
<1>1. \A S : \A s \in Seq(S) : s # <<>> => Len(Tail(s)) < Len(s)
  BY EmptySeq, HeadTailProperties
<1> QED
  BY <1>1 DEF HeadInv

LEMMA ReturnsDescends ==
    ASSUME TypeInv, TypeInv', HeadInv, [Next]_vars, stack # <<>>, NEW d, Returns(d)
    PROVE  Descends
<1>1. /\ Len(stack) \in Nat \ {0}
      /\ \/ Len(stack) = 1 /\ stack' = <<>> /\ queue' = Tail(queue)
         \/ /\ Len(stack) # 1 /\ Len(stack') = Len(stack) - 1 /\ queue' = queue
            /\ \A n \in 1..Len(stack') : SameCall(n)
  BY ReturnsCalls
<1>2. CASE queue' = Tail(queue)
  BY <1>2, TailShorter DEF HeadInv, Descends
<1>3. CASE Len(stack) # 1
  <2>1. stack'[Len(stack) - 1].at = "secret"
    BY <1>3, ReturnsAt
  <2>2. /\ stack'[Len(stack) - 1].c = stack[Len(stack) - 1].c
        /\ stack'[Len(stack) - 1].i = stack[Len(stack) - 1].i
        /\ \A n \in 1..Len(stack) - 2 : SameCall(n)
    <3>1. Len(stack) - 1 \in 1..Len(stack') /\ 1..Len(stack) - 2 \subseteq 1..Len(stack')
        <4>1. \A l \in Nat \ {0} : l # 1 => l - 1 \in 1..l - 1 /\ 1..l - 2 \subseteq 1..l - 1
        OBVIOUS
      <4> QED
        BY <1>1, <1>3, <4>1
    <3>2. SameCall(Len(stack) - 1) /\ \A n \in 1..Len(stack) - 2 : SameCall(n)
      BY <1>1, <1>3, <3>1
    <3> QED
      BY <3>2 DEF SameCall
  <2> QED
    BY <1>1, <1>3, <2>1, <2>2, PopDescends
<1> QED
  BY <1>1, <1>2, <1>3

LEMMA ClusterAPIDescends ==
    ASSUME TypeInv, TypeInv', [Next]_vars, ClusterAPISource
    PROVE  Descends
<1> DEFINE p == parent[Frame.c]
<1>1. /\ stack # <<>> /\ Frame.at = "try" /\ Frame.i <= Len(sources[Frame.c])
      /\ Len(stack) \in Nat \ {0}
  BY BelowFacts DEF ClusterAPISource, Trying, MoreSources, TypeInv, TypeOK
<1>0. PICK L \in Nat \ {0} : L = Len(stack)
  BY <1>1
<1>2. sources' = sources /\ stack[L] = Frame
  BY <1>0, SiteUnchanged DEF siteVars, Frame
<1>3. stack \in Seq(Frames) /\ Frame \in Frames
  BY <1>1, BelowFacts DEF TypeInv, TypeOK
<1>4. CASE ~InMap(p)
  BY <1>1, <1>4, SourceFailsDescends DEF ClusterAPISource, ParentCluster
<1>5. CASE InMap(p) /\ AlreadyBuilt(p)
  <2> DEFINE g == [Frame EXCEPT !.at = "secret"]
  <2>1. stack' = [stack EXCEPT ![L].at = "secret"] /\ queue' = queue
    BY <1>0, <1>5 DEF ClusterAPISource, ParentCluster
  <2>2. g \in Frames /\ g.c = Frame.c /\ g.i = Frame.i /\ g.at = "secret"
    BY <1>3 DEF Frames
  <2>3. stack' = [stack EXCEPT ![L] = g]
    BY <1>2, <2>1
  <2> HIDE DEF g
  <2>4. /\ Len(stack') = L /\ stack'[L] = g
        /\ \A n \in 1..L : n # L => stack'[n] = stack[n]
    BY <1>0, <1>3, <2>2, <2>3
  <2>5. Level(L)' < Level(L)
    <3>1. Frame.i \in Nat /\ Len(sources[Frame.c]) \in Nat
      BY <1>0, <1>2, CallFacts
    <3>2. CallLeft(g) < CallLeft(Frame)
      BY <1>1, <2>2, <3>1, SecretIsLess
    <3> QED
      BY <1>2, <2>4, <3>2 DEF Level, CallLeft
  <2>6. \A n \in 1..L - 1 : n \in 1..Len(stack) /\ Level(n)' = Level(n)
    BY <1>0, <1>2, <2>4 DEF Level, CallLeft
  <2>7. L \in 1..Len(stack') /\ L \in 1..Len(stack)
    BY <1>0, <2>4
  <2> QED
    BY <2>1, <2>5, <2>6, <2>7, Zenon DEF Descends
<1>6. CASE InMap(p) /\ ~AlreadyBuilt(p)
  <2>1. queue' = queue /\ (result' = "overflow" \/ stack' = Append(stack, Call(p)))
    BY <1>6 DEF ClusterAPISource, CallParent, ParentCluster
  <2>2. CASE result' = "overflow"
    BY <2>2 DEF Descends
  <2>3. CASE stack' = Append(stack, Call(p))
    <3>1. Len(stack') = L + 1 /\ \A n \in 1..L : stack'[n] = stack[n]
      BY <1>0, <1>3, <2>3
    <3>2. \A n \in 1..(L + 1) - 1 : n \in 1..Len(stack) /\ Level(n)' = Level(n)
      BY <1>0, <1>2, <3>1 DEF Level, CallLeft
    <3>3. L + 1 \in 1..Len(stack') /\ L + 1 \notin 1..Len(stack)
      BY <1>0, <3>1
    <3> QED
      BY <2>1, <3>2, <3>3, Zenon DEF Descends
  <2> QED
    BY <2>1, <2>2, <2>3
<1> QED
  BY <1>4, <1>5, <1>6

LEMMA DescendsStep ==
    ASSUME TypeInv, TypeInv', HeadInv, [Next]_vars
    PROVE  [Descends]_vars
<1>1. stack # <<>> => /\ Len(stack) \in Nat \ {0} /\ Len(stack) \in 1..Len(stack)
                      /\ Frame = stack[Len(stack)]
  BY BelowFacts DEF TypeInv, TypeOK, Frame
<1>2. stack # <<>> /\ Frame.at = "secret" => Frame.i <= Len(sources[Frame.c])
  BY <1>1, CallFacts
<1>3. CASE NextCluster
  <2>1. stack = <<>> /\ queue # <<>>
    BY <1>3 DEF NextCluster
  <2>2. \/ result' = "error"
        \/ queue' = Tail(queue)
        \/ queue' = queue /\ stack' = <<Call(Head(queue))>>
    BY <1>3 DEF NextCluster, LoopGoesOn
  <2>3. CASE queue' = Tail(queue)
    BY <2>1, <2>3, TailShorter DEF Descends
  <2>4. CASE queue' = queue /\ stack' = <<Call(Head(queue))>>
    <3>1. 1 \in 1..Len(stack') /\ 1 \notin 1..Len(stack) /\ \A n \in 1..1 - 1 : FALSE
      BY <2>1, <2>4
    <3> QED
      BY <2>4, <3>1 DEF Descends
  <2> QED
    BY <2>2, <2>3, <2>4 DEF Descends
<1>4. CASE AllSourcesFailed
  <2>1. stack # <<>>
    BY <1>4 DEF AllSourcesFailed, Trying
  <2>2. CASE queue' = Tail(queue)
    <3>1. queue # <<>>
      BY <2>1 DEF HeadInv
    <3> QED
      BY <2>2, <3>1, TailShorter DEF Descends
  <2>3. CASE Len(stack) # 1
    <3>1. /\ Len(stack') = Len(stack) - 1 /\ queue' = queue
          /\ \A n \in 1..Len(stack') :
               \/ SameCall(n)
               \/ n = Len(stack) - 1 /\ stack'[n].c = stack[n].c
      BY <1>4, <2>1, <2>3, AllSourcesFailedCalls
    <3>2. stack'[Len(stack) - 1].i = stack[Len(stack) - 1].i + 1
      BY <1>4, <2>1, <2>3, AllSourcesFailedAt
    <3>3. /\ Len(stack) - 1 \in 1..Len(stack')
          /\ \A n \in 1..Len(stack) - 2 : n \in 1..Len(stack') /\ n # Len(stack) - 1
      <4>1. \A l \in Nat \ {0} : l # 1 => /\ l - 1 \in 1..l - 1
                                       /\ \A n \in 1..l - 2 : n \in 1..l - 1 /\ n # l - 1
        OBVIOUS
      <4> QED
        BY <1>1, <2>1, <2>3, <3>1, <4>1, Zenon
    <3>4. stack'[Len(stack) - 1].c = stack[Len(stack) - 1].c
      BY <3>1, <3>3 DEF SameCall
    <3> QED
      BY <2>1, <2>3, <3>1, <3>2, <3>3, <3>4, PopDescends
  <2> QED
    BY <1>4, <2>1, <2>2, <2>3, AllSourcesFailedCalls
<1>5. CASE LocalSource \/ OtherSource
  <2>1. stack # <<>> /\ Frame.i <= Len(sources[Frame.c]) /\ (SourceFails \/ Returns(Frame.c))
    BY <1>5 DEF LocalSource, OtherSource, Trying, MoreSources
  <2> QED
    BY <2>1, SourceFailsDescends, ReturnsDescends
<1>6. CASE ReadSecret \/ SecretUnreachable
  <2>1. /\ stack # <<>> /\ Frame.at = "secret"
        /\ SourceFails \/ \E d \in {Frame.c, Wrong} : Returns(d)
    BY <1>6 DEF ReadSecret, SecretUnreachable
  <2> QED
    BY <1>2, <2>1, SourceFailsDescends, ReturnsDescends
<1>7. CASE BuildReturns \/ CleanupFails
  BY <1>7 DEF BuildReturns, CleanupFails, Descends
<1>8. CASE Done \/ UNCHANGED vars
  BY <1>8 DEF Done
<1> QED
  BY <1>3, <1>4, <1>5, <1>6, <1>7, <1>8, ClusterAPIDescends DEF Next, Steps

\* A call is at most one past its last source: only a source that is there is tried or
\* passed over.
LEMMA CallsInvStep == TypeInv /\ CallsInv /\ [Next]_vars => CallsInv'
<1> SUFFICES ASSUME TypeInv, CallsInv, [Next]_vars, NEW n \in 1..Len(stack')
             PROVE  stack'[n].i <= Len(sources'[stack'[n].c]) + 1
  BY DEF CallsInv
<1>1. sources' = sources
  BY SiteUnchanged DEF siteVars
<1>2. TypeInv'
  BY TypeInvStep
<1>3. stack'[n] \in Frames /\ Len(sources[stack'[n].c]) \in Nat
  <2>1. stack'[n] \in Frames
    BY <1>2 DEF TypeInv, TypeOK
  <2>2. sources[stack'[n].c] \in Seq(SourceTypes)
    BY <2>1 DEF Frames, TypeInv, TypeOK
  <2> QED
    BY <2>1, <2>2
<1>4. CASE stack'[n].i = 1
  BY <1>1, <1>3, <1>4
<1>5. CASE n \in 1..Len(stack) /\ SameCall(n)
  BY <1>1, <1>5 DEF SameCall, CallsInv
<1>6. ASSUME n \in 1..Len(stack), stack'[n].c = stack[n].c, stack'[n].i = stack[n].i + 1,
             stack[n].i <= Len(sources[stack[n].c])
      PROVE  stack'[n].i <= Len(sources'[stack'[n].c]) + 1
  BY <1>1, <1>6, CallFacts
<1> DEFINE Goal == stack'[n].i <= Len(sources'[stack'[n].c]) + 1
<1>7. stack # <<>> => /\ Len(stack) \in Nat \ {0} /\ Len(stack) \in 1..Len(stack)
                      /\ Frame = stack[Len(stack)]
  BY BelowFacts DEF TypeInv, TypeOK, Frame
<1>8. stack # <<>> /\ Frame.at = "secret" => Frame.i <= Len(sources[Frame.c])
  BY <1>7, CallFacts
<1>9. ASSUME stack # <<>>, SourceFails, Frame.i <= Len(sources[Frame.c]) PROVE Goal
  <2>1. n \in 1..Len(stack) - 1 \/ n = Len(stack)
    BY <1>9, SourceFailsCalls
  <2>2. n \in 1..Len(stack)
    BY <1>7, <1>9, <2>1
  <2>3. CASE n = Len(stack)
    BY <1>6, <1>7, <1>9, <2>2, <2>3, SourceFailsCalls
  <2> QED
    BY <1>5, <1>9, <2>1, <2>2, <2>3, SourceFailsCalls
<1>10. ASSUME stack # <<>>, NEW d, Returns(d) PROVE Goal
  <2>1. Len(stack) # 1 /\ Len(stack') = Len(stack) - 1 /\ SameCall(n)
    BY <1>10, ReturnsCalls
  <2>2. n \in 1..Len(stack)
    BY <1>7, <1>10, <2>1
  <2> QED
    BY <1>5, <2>1, <2>2
<1>11. CASE stack' = stack
  BY <1>5, <1>11 DEF SameCall
<1>12. CASE NextCluster
  <2>1. stack' = <<>> \/ stack' = stack \/ stack' = <<Call(Head(queue))>>
    BY <1>12 DEF NextCluster, LoopGoesOn
  <2> QED
    BY <1>4, <1>11, <2>1 DEF Call
<1>13. CASE AllSourcesFailed
  <2>1. stack # <<>>
    BY <1>13 DEF AllSourcesFailed, Trying
  <2>2. /\ Len(stack) # 1 /\ Len(stack') = Len(stack) - 1
        /\ \/ SameCall(n)
           \/ n = Len(stack) - 1 /\ stack'[n].c = stack[n].c /\ stack'[n].i = stack[n].i + 1
    BY <1>13, <2>1, AllSourcesFailedCalls
  <2>3. n \in 1..Len(stack) /\ n < Len(stack)
    BY <1>7, <2>1, <2>2
  <2>4. stack[n].i <= Len(sources[stack[n].c])
    BY <2>3, CallFacts
  <2> QED
    BY <1>5, <1>6, <2>2, <2>3, <2>4
<1>14. CASE LocalSource \/ OtherSource
  <2>1. stack # <<>> /\ Frame.i <= Len(sources[Frame.c]) /\ (SourceFails \/ Returns(Frame.c))
    BY <1>14 DEF LocalSource, OtherSource, Trying, MoreSources
  <2> QED
    BY <1>9, <1>10, <2>1
<1>15. CASE ClusterAPISource
  <2>1. stack # <<>> /\ Frame.i <= Len(sources[Frame.c])
    BY <1>15 DEF ClusterAPISource, Trying, MoreSources
  <2>2. \/ SourceFails
        \/ stack' = [stack EXCEPT ![Len(stack)].at = "secret"]
        \/ stack' = stack
        \/ stack' = Append(stack, Call(parent[Frame.c]))
    BY <1>15 DEF ClusterAPISource, CallParent, ParentCluster
  <2>3. stack \in Seq(Frames) /\ Frame \in Frames
    BY <2>1, BelowFacts DEF TypeInv, TypeOK
  <2>4. CASE stack' = [stack EXCEPT ![Len(stack)].at = "secret"]
    <3> DEFINE g == [Frame EXCEPT !.at = "secret"]
    <3>1. g \in Frames /\ g.c = Frame.c /\ g.i = Frame.i
      BY <2>3 DEF Frames
    <3>2. stack' = [stack EXCEPT ![Len(stack)] = g]
      BY <1>7, <2>1, <2>4
    <3> HIDE DEF g
    <3>3. /\ Len(stack') = Len(stack) /\ stack'[Len(stack)] = g
          /\ \A u \in 1..Len(stack) : u # Len(stack) => stack'[u] = stack[u]
      BY <1>7, <2>1, <2>3, <3>1, <3>2
    <3>4. n \in 1..Len(stack) /\ SameCall(n)
      BY <1>7, <2>1, <3>1, <3>3 DEF SameCall
    <3> QED
      BY <1>5, <3>4
  <2>5. CASE stack' = Append(stack, Call(parent[Frame.c]))
    <3>1. /\ Len(stack') = Len(stack) + 1 /\ stack'[Len(stack) + 1] = Call(parent[Frame.c])
          /\ \A u \in 1..Len(stack) : stack'[u] = stack[u]
      BY <2>3, <2>5
    <3>2. n \in 1..Len(stack) \/ n = Len(stack) + 1
      BY <1>7, <2>1, <3>1
    <3> QED
      BY <1>4, <1>5, <3>1, <3>2 DEF SameCall, Call
  <2> QED
    BY <1>9, <1>11, <2>1, <2>2, <2>4, <2>5
<1>16. CASE ReadSecret \/ SecretUnreachable
  <2>1. /\ stack # <<>> /\ Frame.at = "secret"
        /\ SourceFails \/ \E d \in {Frame.c, Wrong} : Returns(d)
    BY <1>16 DEF ReadSecret, SecretUnreachable
  <2> QED
    BY <1>8, <1>9, <1>10, <2>1
<1>17. CASE BuildReturns \/ CleanupFails \/ Done \/ UNCHANGED vars
  BY <1>11, <1>17 DEF BuildReturns, CleanupFails, Done, vars
<1> QED
  BY <1>12, <1>13, <1>14, <1>15, <1>16, <1>17 DEF Next, Steps

LEMMA LevelsAreCounts == ASSUME TypeInv, CallsInv PROVE LevelsInv
<1> SUFFICES ASSUME NEW n \in 1..Len(stack) PROVE Level(n) \in Nat \ {0}
  BY DEF LevelsInv
<1> DEFINE f == stack[n]
           l == Len(sources[f.c])
           a == IF f.at = "try" THEN 1 ELSE 0
<1>1. /\ f.i \in Nat \ {0} /\ l \in Nat /\ f.at \in {"try", "secret"}
      /\ f.at = "secret" => f.i <= l
  BY CallFacts
<1>2. f.i <= l + 1
  BY DEF CallsInv
<1>3. Level(n) = 2 * (l + 1 - f.i) + a
  BY DEF Level, CallLeft
<1>4. a = 1 \/ (a = 0 /\ f.i <= l)
  BY <1>1
<1> HIDE DEF f, l, a
<1>5. \A i \in Nat \ {0} : i <= l + 1 /\ (a = 1 \/ (a = 0 /\ i <= l)) => 2 * (l + 1 - i) + a \in Nat \ {0}
  BY <1>1
<1> QED
  BY <1>1, <1>2, <1>3, <1>4, <1>5, Zenon

\* The build of a kubeconfig cannot go round for ever (builder.go:96, 164, 207): the
\* calls of buildOne, never more than MaxStack, count what they have left to do, and
\* every step ends the build, takes a cluster from the queue, or lets those counts
\* descend lexicographically, a new call being less than none.  This is what BuildEnds
\* rests on besides fairness, and OverflowIsRefusedHolds says when the stack is the
\* end.
THEOREM BuildsDescend == Spec => []LevelsInv /\ [][Descends]_vars
<1> DEFINE Inv == CompleteInv /\ CallsInv
<1>1. Init => CallsInv
  BY DEF Init, CallsInv
<1>2. Spec => []Inv
  BY <1>1, CallsInvStep, CompleteInvHolds, PTL DEF Spec, CompleteInv
<1>3. Inv => LevelsInv
  BY LevelsAreCounts DEF CompleteInv
<1>4. Inv /\ [Next]_vars => [Descends]_vars
  BY TypeInvStep, DescendsStep DEF CompleteInv
<1> QED
  BY <1>2, <1>3, <1>4, PTL DEF Spec

=============================================================================
