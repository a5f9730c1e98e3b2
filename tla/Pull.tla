-------------------------------- MODULE Pull --------------------------------
(***************************************************************************)
(* airshipctl document pull (pkg/document/pull, pkg/document/repo and the  *)
(* repository settings of pkg/config/repo.go): every repository of the     *)
(* current manifest is cloned, or opened if its directory already holds    *)
(* one, then fetched and checked out.  A pull can be killed between any    *)
(* two steps and is given again; the remotes move on and the user edits    *)
(* the files.  What go-git does is modelled from how repo.go uses it.      *)
(***************************************************************************)
EXTENDS Naturals, FiniteSets

CONSTANTS
    Configs,        \* repositories of the current manifest: functions from names to settings
    NeedsPassword,  \* the URLs whose remote asks for a password
    Nothing,        \* the empty string, no commit, no remote
    MaxPulls,       \* bound: pulls of one history
    MaxCommit,      \* bound: commits of a remote
    MaxEdits,       \* bound: edits of the user
    MaxFaults       \* bound: network failures and kills

ASSUME BoundsAssumption ==
    MaxPulls \in Nat /\ MaxCommit \in Nat \ {0} /\ MaxEdits \in Nat /\ MaxFaults \in Nat

\* A URL is a pair: where the repository is, and the last part of its path
\* without ".git", which names the directory.
GitDirNameFromURL(url) == url[2]

Urls == (UNION {{c[r].url : r \in DOMAIN c} : c \in Configs}) \ {<<Nothing, Nothing>>}
Dirs == {GitDirNameFromURL(u) : u \in Urls} \ {Nothing}

ASSUME NothingAssumption == Nothing \notin Urls \cup (Urls \X (1..MaxCommit))

VARIABLES
    remote,      \* remote[u]: number of commits on the main branch
    dirs,        \* dirs[d]: the directories below the target path
    conf,        \* the settings the pull has read
    noCheckout,  \* its flag
    todo, cur,   \* repositories still to do, and the one at hand
    pc,
    result,      \* what the last pull returned
    since,       \* observer: the remotes when it began
    faulty,      \* observer: the network failed it, or it was killed
    cut,         \* observer: directories whose clone was begun and not finished
    pulls, edits, faults

vars == <<remote, dirs, conf, noCheckout, todo, cur, pc, result, since, faulty, cut, pulls,
          edits, faults>>
counters == <<pulls, edits, faults>>

\* head: go-git finds a repository; origin: URL of its remote; main and change:
\* commits of the fetched main branch and of the ref of the refspec; master: the
\* local branch; work: the commit checked out; edited: files differ from it.
Commits == Urls \X (1..MaxCommit)
Dir == [head : BOOLEAN, origin : Urls \cup {Nothing}, main : Commits \cup {Nothing},
        change : Commits \cup {Nothing}, master : Commits \cup {Nothing},
        work : Commits \cup {Nothing}, edited : BOOLEAN]
Empty == [head |-> FALSE, origin |-> Nothing, main |-> Nothing, change |-> Nothing,
          master |-> Nothing, work |-> Nothing, edited |-> FALSE]

-----------------------------------------------------------------------------
(* Settings of a repository: its URL, the checkout fields that are set       *)
(* (set), localBranch, force, refspec, and its authentication: the type and  *)
(* the password fields that are set.                                        *)

CheckoutFields == {"branch", "tag", "commitHash", "ref"}
PasswordFields == {"sshKey", "keyPass", "httpPass", "sshPass"}

ASSUME SettingsAssumption ==
    \A c \in Configs : \A r \in DOMAIN c :
        c[r].set \subseteq CheckoutFields /\ c[r].passwords \subseteq PasswordFields

AllowedAuthTypes == {"ssh-key", "ssh-pass", "http-basic", "none"}

\* RepoCheckout.Validate.
ValidCheckout(s) == Cardinality(s.set) <= 1

\* RepoAuth.Validate.
ValidAuth(s) ==
    /\ s.auth \in AllowedAuthTypes
    /\ s.auth = "ssh-key" => s.passwords \cap {"httpPass", "sshPass"} = {}
    /\ s.auth = "http-basic" => s.passwords \cap {"sshPass", "sshKey", "keyPass"} = {}
    /\ s.auth = "ssh-pass" => s.passwords \cap {"sshKey", "keyPass", "httpPass"} = {}

\* Repository.Validate.
ValidRepo(s) == s.url # <<Nothing, Nothing>> /\ ValidAuth(s) /\ ValidCheckout(s)

\* The field whose value ToAuth gives to the remote.
ToAuth(s) ==
    CASE s.auth = "ssh-key"    -> "sshKey"
      [] s.auth = "ssh-pass"   -> "httpPass"
      [] s.auth = "http-basic" -> "httpPass"
      [] s.auth = "none"       -> Nothing

\* The key file has to be there.
AuthBuilt(s) == s.auth = "ssh-key" => "sshKey" \in s.passwords

\* A remote that asks for a password refuses an empty one.
LetIn(u, s) == u \in NeedsPassword => ToAuth(s) \in s.passwords

\* The commit that ToCheckoutOptions names in directory d: no field set means
\* the local branch master.
ToCheckoutOptions(s, d) ==
    IF "branch" \in s.set THEN (IF s.localBranch THEN d.master ELSE d.main)
    ELSE IF s.set \cap {"tag", "commitHash"} # {}
         THEN (IF d.main = Nothing THEN Nothing ELSE <<d.main[1], 1>>)
    ELSE IF "ref" \in s.set THEN d.change
    ELSE d.master

ForceCheckoutMutant(s) == TRUE
ForceCheckout(s) == s.force

-----------------------------------------------------------------------------
TypeOK ==
    /\ remote \in [Urls -> 1..MaxCommit] /\ since \in [Urls -> 1..MaxCommit]
    /\ dirs \in [Dirs -> Dir]
    /\ conf \in Configs \cup {<<>>} /\ noCheckout \in BOOLEAN
    /\ todo \subseteq DOMAIN conf /\ cur \in DOMAIN conf \cup {Nothing}
    /\ pc \in {"idle", "next", "clone", "cloneRemote", "cloneFetch", "cloneReset", "fetch",
               "checkout"}
    /\ pc \notin {"idle", "next"} => cur \in DOMAIN conf
    /\ cut \subseteq Dirs

Init ==
    /\ remote = [u \in Urls |-> 1] /\ since = remote
    /\ dirs = [d \in Dirs |-> Empty]
    /\ conf = <<>> /\ noCheckout = FALSE /\ todo = {} /\ cur = Nothing
    /\ pc = "idle" /\ result = "none" /\ faulty = FALSE /\ cut = {}
    /\ pulls = 0 /\ edits = 0 /\ faults = 0

Goto(p) == pc' = p /\ result' = result
Fail(res) == pc' = "idle" /\ result' = res
d0 == GitDirNameFromURL(conf[cur].url)
Here == dirs[d0]
Write(field, v) == dirs' = [dirs EXCEPT ![d0][field] = v]

\* Pull: the settings are read; nothing else of the command line matters.
Pull(c, flag) ==
    /\ pc = "idle" /\ pulls < MaxPulls /\ pulls' = pulls + 1
    /\ conf' = c /\ noCheckout' = flag /\ todo' = DOMAIN c /\ cur' = Nothing
    /\ pc' = "next" /\ result' = "running" /\ since' = remote /\ faulty' = FALSE
    /\ UNCHANGED <<remote, dirs, cut, edits, faults>>

\* The loop of cloneRepositories, over a map: in any order.
cloneRepositories ==
    /\ pc = "next"
    /\ \/ todo = {} /\ Fail("ok") /\ UNCHANGED <<todo, cur>>
       \/ \E r \in todo :
            /\ cur' = r /\ todo' = todo \ {r}
            /\ IF ~ValidRepo(conf[r]) THEN Fail("invalid")
               ELSE IF GitDirNameFromURL(conf[r].url) = Nothing THEN Fail("url")
               ELSE Goto("clone")
    /\ UNCHANGED <<remote, dirs, conf, noCheckout, since, faulty, cut, counters>>

\* After a clone, or when the repository was there.
Cloned == IF noCheckout THEN Goto("next") ELSE Goto("fetch")

\* Download and Clone: go-git refuses a directory that has a HEAD, which is
\* then opened; otherwise it creates one.
CloneMutant ==
    /\ pc = "clone"
    /\ IF ~AuthBuilt(conf[cur]) THEN Fail("auth") /\ UNCHANGED dirs
       ELSE IF Here.head THEN Fail("exists") /\ UNCHANGED dirs
       ELSE Goto("cloneRemote") /\ Write("head", TRUE)
    /\ UNCHANGED <<remote, conf, noCheckout, todo, cur, since, faulty, cut, counters>>
Clone ==
    /\ pc = "clone"
    /\ IF ~AuthBuilt(conf[cur]) THEN Fail("auth") /\ UNCHANGED dirs
       ELSE IF Here.head THEN Cloned /\ UNCHANGED dirs
       ELSE Goto("cloneRemote") /\ Write("head", TRUE)
    /\ UNCHANGED <<remote, conf, noCheckout, todo, cur, since, faulty, cut, counters>>

\* The rest of git.Clone: the remote, its refs and a local branch, the files.
CloneRemote ==
    /\ pc = "cloneRemote" /\ Write("origin", conf[cur].url) /\ Goto("cloneFetch")
    /\ UNCHANGED <<remote, conf, noCheckout, todo, cur, since, faulty, cut, counters>>

\* A request to the remote; the network may fail it.
Remote(p, ok) ==
    \/ p /\ ok /\ UNCHANGED <<faulty, faults>>
    \/ p /\ ~LetIn(Here.origin, conf[cur]) /\ Fail("refused") /\ UNCHANGED <<dirs, faulty, faults>>
    \/ /\ p /\ faults < MaxFaults /\ faults' = faults + 1 /\ faulty' = TRUE
       /\ Fail("network") /\ UNCHANGED dirs

CloneFetch ==
    /\ Remote(pc = "cloneFetch",
              /\ LetIn(Here.origin, conf[cur])
              /\ dirs' = LET at == <<Here.origin, remote[Here.origin]>>
                         IN  [dirs EXCEPT ![d0].main = at, ![d0].master = at]
              /\ Goto("cloneReset"))
    /\ cut' = IF pc' = "idle" THEN cut \cup {d0} ELSE cut
    /\ UNCHANGED <<remote, conf, noCheckout, todo, cur, since, pulls, edits>>

CloneReset ==
    /\ pc = "cloneReset" /\ Write("work", Here.master) /\ Cloned
    /\ UNCHANGED <<remote, conf, noCheckout, todo, cur, since, faulty, cut, counters>>

\* Fetch from the remote of the directory: its main branch, or what the refspec
\* names and nothing else.
ToFetchOptions(s) == IF s.refspec THEN "change" ELSE "main"
FetchMutant ==
    /\ pc = "fetch" /\ Goto("checkout")
    /\ UNCHANGED <<remote, dirs, conf, noCheckout, todo, cur, since, faulty, cut, counters>>
Fetch ==
    /\ \/ pc = "fetch" /\ Here.origin = Nothing /\ Fail("no_remote")
          /\ UNCHANGED <<dirs, faulty, faults>>
       \/ Remote(pc = "fetch" /\ Here.origin # Nothing,
                 /\ LetIn(Here.origin, conf[cur])
                 /\ Write(ToFetchOptions(conf[cur]), <<Here.origin, remote[Here.origin]>>)
                 /\ Goto("checkout"))
    /\ UNCHANGED <<remote, conf, noCheckout, todo, cur, since, cut, pulls, edits>>

\* Checkout: files that were changed are kept unless force is set.
Checkout ==
    /\ pc = "checkout"
    /\ LET at == ToCheckoutOptions(conf[cur], Here)
       IN  IF at = Nothing THEN Fail("no_ref") /\ UNCHANGED dirs
           ELSE IF Here.edited /\ ~ForceCheckout(conf[cur]) THEN Fail("unstaged") /\ UNCHANGED dirs
           ELSE /\ dirs' = [dirs EXCEPT ![d0].work = at, ![d0].edited = FALSE]
                /\ Goto("next")
    /\ UNCHANGED <<remote, conf, noCheckout, todo, cur, since, faulty, cut, counters>>

-----------------------------------------------------------------------------
\* The pull is killed; in the middle of writing files, they are left half
\* written.
Kill ==
    /\ pc # "idle" /\ faults < MaxFaults /\ faults' = faults + 1
    /\ Fail("killed") /\ faulty' = TRUE
    /\ cut' = IF pc \in {"cloneRemote", "cloneFetch", "cloneReset"} THEN cut \cup {d0} ELSE cut
    /\ \/ UNCHANGED dirs
       \/ /\ pc = "cloneReset" \/ (pc = "checkout" /\ ToCheckoutOptions(conf[cur], Here) # Nothing)
          /\ Write("edited", TRUE)
    /\ UNCHANGED <<remote, conf, noCheckout, todo, cur, since, pulls, edits>>

Push ==
    /\ \E u \in Urls : remote[u] < MaxCommit /\ remote' = [remote EXCEPT ![u] = @ + 1]
    /\ UNCHANGED <<dirs, conf, noCheckout, todo, cur, pc, result, since, faulty, cut, counters>>

UserEdits ==
    /\ edits < MaxEdits /\ edits' = edits + 1
    /\ \E d \in Dirs : dirs[d].work # Nothing /\ dirs' = [dirs EXCEPT ![d].edited = TRUE]
    /\ UNCHANGED <<remote, conf, noCheckout, todo, cur, pc, result, since, faulty, cut,
                   pulls, faults>>

Finished == pc = "idle" /\ pulls = MaxPulls /\ UNCHANGED vars

Next ==
    \/ \E c \in Configs, flag \in BOOLEAN : Pull(c, flag)
    \/ cloneRepositories \/ Clone \/ CloneRemote \/ CloneFetch \/ CloneReset
    \/ Fetch \/ Checkout \/ Kill \/ Push \/ UserEdits \/ Finished

Spec == Init /\ [][Next]_vars

-----------------------------------------------------------------------------
(* Properties.                                                              *)

\* What the settings s ask of directory d: the main branch at least as new as
\* its remote had it when the pull began.
Fresh(s, d) ==
    /\ d.work # Nothing /\ d.work = ToCheckoutOptions(s, d)
    /\ (s.set = {"branch"} /\ ~s.localBranch /\ ~s.refspec) => d.work[2] >= since[d.origin]

\* A pull that reports success has brought every directory to what the settings
\* of a repository of that directory name, and a remote branch is no older than
\* when the pull began, whatever pulls were cut short before (repo.go:145).
SuccessIsFresh ==
    (result = "ok" /\ ~noCheckout) =>
        \A r \in DOMAIN conf : \E q \in DOMAIN conf :
            /\ GitDirNameFromURL(conf[q].url) = GitDirNameFromURL(conf[r].url)
            /\ Fresh(conf[q], dirs[GitDirNameFromURL(conf[r].url)])

\* A pull fails without a fault of its own only for its settings, for edited or
\* half-written files, or because an earlier clone of the directory was cut short
\* (killed, out of reach or refused) before it had a remote or a branch: that a repository is there already is no failure
\* (repo.go:155).
FailureExplained ==
    (pc = "idle" /\ result \notin {"none", "ok"} /\ ~faulty) =>
        \/ ~ValidRepo(conf[cur]) \/ ~AuthBuilt(conf[cur]) \/ d0 = Nothing
        \/ ~LetIn(Here.origin, conf[cur])
        \/ Here.edited /\ ~ForceCheckout(conf[cur])
        \/ Here.change = Nothing /\ "ref" \in conf[cur].set
        \/ /\ d0 \in cut
           /\ \/ Here.origin = Nothing
              \/ Here.master = Nothing /\ (conf[cur].set = {} \/ conf[cur].localBranch)
              \/ Here.main = Nothing /\ conf[cur].refspec

\* Files the user changed, or an interrupted checkout left, are overwritten only
\* by a repository with force (repo.go:108).
EditsKept ==
    [][\A d \in Dirs : dirs[d].edited /\ ~dirs'[d].edited =>
            pc = "checkout" /\ d0 = d /\ conf[cur].force]_vars

\* The password of a repository is the one its authentication type is for
\* (repo.go:69).
PasswordIsUsed ==
    (result = "refused" /\ pc = "idle") =>
        ~ \/ conf[cur].auth = "ssh-pass" /\ "sshPass" \in conf[cur].passwords
          \/ conf[cur].auth = "http-basic" /\ "httpPass" \in conf[cur].passwords
          \/ conf[cur].auth = "ssh-key" /\ "sshKey" \in conf[cur].passwords

=============================================================================
