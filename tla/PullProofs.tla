----------------------------- MODULE PullProofs -----------------------------
(***************************************************************************)
(* Proofs about Pull, for any manifests, any remotes and any number of     *)
(* pulls, commits, edits and faults.                                       *)
(***************************************************************************)
EXTENDS Pull, TLAPS

USE BoundsAssumption, SettingsAssumption, NothingAssumption

\* The pull at a step below cloneRepositories works on a valid repository with a
\* directory of its own, which git.Clone has begun.
ControlInv ==
    /\ pc # "idle" => result = "running" /\ conf \in Configs
    /\ pc \notin {"idle", "next"} => ValidRepo(conf[cur]) /\ d0 \in Dirs
    /\ pc \notin {"idle", "next", "clone"} => Here.head
    /\ pc \in {"cloneFetch", "cloneReset", "checkout"} => Here.origin \in Urls
    /\ pc = "cloneReset" => Here.master # Nothing /\ Here.main # Nothing

TypeInv == TypeOK /\ ControlInv

\* A directory that lacks what a finished clone leaves is being cloned, or its
\* clone was cut short.
Unfinished(d) ==
    dirs[d].head /\ (dirs[d].origin = Nothing \/ dirs[d].master = Nothing \/ dirs[d].main = Nothing)
CutInv ==
    \A d \in Dirs : Unfinished(d) =>
        d \in cut \/ (pc \in {"cloneRemote", "cloneFetch"} /\ d0 = d)

ExplainedInv ==
    /\ (pc = "idle" /\ result \notin {"none", "ok"} /\ ~faulty) =>
         ~ValidRepo(conf[cur]) \/ d0 = Nothing \/ d0 \in Dirs
    /\ FailureExplained

\* Remotes only grow; what Fetch has just brought is at least as new as the
\* remote was when the pull began.
FetchedInv ==
    /\ \A u \in Urls : since[u] <= remote[u]
    /\ (pc = "checkout" /\ ~conf[cur].refspec) =>
         /\ Here.main \in Commits
         /\ since[Here.origin] <= Here.main[2]

\* A repository the pull is done with has a directory that some repository of
\* the manifest has brought up to date, or that the one at hand is working on.
DirOf(r) == GitDirNameFromURL(conf[r].url)
DoneInv ==
    /\ (~noCheckout /\ (pc # "idle" \/ result = "ok")) =>
         \A r \in DOMAIN conf \ todo :
             /\ DirOf(r) \in Dirs
             /\ \/ pc \notin {"idle", "next"} /\ DirOf(r) = d0
                \/ \E q \in DOMAIN conf : DirOf(q) = DirOf(r) /\ Fresh(conf[q], dirs[DirOf(r)])
    /\ result = "ok" => pc = "idle" /\ todo = {}

-----------------------------------------------------------------------------
(* Directories.                                                             *)

\* Writing one field of a directory keeps its type.
LEMMA WriteType ==
    ASSUME dirs \in [Dirs -> Dir], d0 \in Dirs,
           NEW f \in {"head", "origin", "main", "change", "master", "work", "edited"}, NEW v,
           f \in {"head", "edited"} => v \in BOOLEAN,
           f = "origin" => v \in Urls \cup {Nothing},
           f \in {"main", "change", "master", "work"} => v \in Commits \cup {Nothing},
           Write(f, v)
    PROVE  dirs' \in [Dirs -> Dir]
<1>1. dirs[d0] \in Dir
  OBVIOUS
<1>2. [dirs[d0] EXCEPT ![f] = v] \in Dir
  BY <1>1 DEF Dir
<1> QED
  BY <1>2 DEF Write

\* What ToCheckoutOptions names is a commit of the directory, or nothing.
LEMMA CheckoutType ==
    ASSUME NEW s, NEW d \in Dir PROVE ToCheckoutOptions(s, d) \in Commits \cup {Nothing}
<1>1. /\ d.main \in Commits \cup {Nothing} /\ d.master \in Commits \cup {Nothing}
      /\ d.change \in Commits \cup {Nothing}
  BY DEF Dir
<1>2. d.main # Nothing => <<d.main[1], 1>> \in Commits
  BY <1>1 DEF Commits
<1> QED
  BY <1>1, <1>2 DEF ToCheckoutOptions

\* A request to the remote leaves the directories alone or does what it is for.
LEMMA RemoteCases ==
    ASSUME NEW p, NEW ok, Remote(p, ok)
    PROVE  /\ p
           /\ ok \/ (UNCHANGED dirs /\ pc' = "idle" /\ result' \in {"refused", "network"})
BY DEF Remote, Fail

-----------------------------------------------------------------------------
(* Types and control flow.                                                  *)

LEMMA TypeInvInit == Init => TypeInv
<1>1. Empty \in Dir
  BY DEF Empty, Dir
<1> SUFFICES ASSUME Init PROVE TypeInv
  OBVIOUS
<1>2. remote \in [Urls -> 1..MaxCommit] /\ since \in [Urls -> 1..MaxCommit]
  BY DEF Init
<1>3. dirs \in [Dirs -> Dir]
  BY <1>1 DEF Init
<1> QED
  BY <1>2, <1>3 DEF Init, TypeInv, TypeOK, ControlInv

\* Repositories below cloneRepositories have URLs and directories of the manifests.
LEMMA RepoOfManifest ==
    ASSUME conf \in Configs, NEW r \in DOMAIN conf, ValidRepo(conf[r]),
           GitDirNameFromURL(conf[r].url) # Nothing
    PROVE  conf[r].url \in Urls /\ DirOf(r) \in Dirs
<1>1. conf[r].url \in {conf[q].url : q \in DOMAIN conf}
  OBVIOUS
<1>2. {conf[q].url : q \in DOMAIN conf} \in {{c[q].url : q \in DOMAIN c} : c \in Configs}
  OBVIOUS
<1>3. conf[r].url \in UNION {{c[q].url : q \in DOMAIN c} : c \in Configs}
  BY <1>1, <1>2, Zenon
<1>4. conf[r].url \in Urls
  BY <1>3 DEF Urls, ValidRepo
<1> QED
  BY <1>4 DEF Dirs, DirOf

LEMMA TypeInvStep == TypeInv /\ [Next]_vars => TypeInv'
<1> SUFFICES ASSUME TypeInv, [Next]_vars PROVE TypeInv'
  OBVIOUS
<1> USE DEF TypeInv, Goto, Fail, counters
<1>1. ASSUME NEW c \in Configs, NEW flag \in BOOLEAN, Pull(c, flag) PROVE TypeInv'
  BY <1>1 DEF Pull, TypeOK, ControlInv
<1>2. CASE cloneRepositories
  <2>1. CASE todo = {} /\ Fail("ok") /\ UNCHANGED <<todo, cur>>
    BY <1>2, <2>1 DEF cloneRepositories, TypeOK, ControlInv
  <2>2. ASSUME NEW r \in todo, cur' = r, todo' = todo \ {r},
               IF ~ValidRepo(conf[r]) THEN Fail("invalid")
               ELSE IF GitDirNameFromURL(conf[r].url) = Nothing THEN Fail("url")
               ELSE Goto("clone")
        PROVE  TypeInv'
    <3>1. pc = "next" /\ UNCHANGED <<remote, dirs, conf, noCheckout, since, cut>>
      BY <1>2 DEF cloneRepositories
    <3>2. pc' = "idle" \/ (pc' = "clone" /\ ValidRepo(conf[r]) /\ DirOf(r) \in Dirs
                            /\ result' = result)
      BY <2>2, <3>1, RepoOfManifest DEF TypeOK, ControlInv
    <3>3. ControlInv'
      BY <2>2, <3>1, <3>2 DEF ControlInv, d0, DirOf
    <3>4. TypeOK'
      BY <2>2, <3>1, <3>2 DEF TypeOK
    <3> QED
      BY <3>3, <3>4
  <2> QED
    BY <1>2, <2>1, <2>2 DEF cloneRepositories
<1>3. CASE Clone
  <2>1. dirs' \in [Dirs -> Dir]
    BY <1>3, WriteType DEF Clone, TypeOK, ControlInv
  <2>2. TypeOK'
    BY <1>3, <2>1 DEF Clone, Cloned, TypeOK
  <2>3. ControlInv'
    BY <1>3 DEF Clone, Cloned, Write, TypeOK, ControlInv, d0, Here, Dir
  <2> QED
    BY <2>2, <2>3
<1>4. CASE CloneRemote
  <2>1. conf[cur].url \in Urls
    BY <1>4, RepoOfManifest DEF CloneRemote, TypeOK, ControlInv, d0, Dirs
  <2>2. dirs' \in [Dirs -> Dir]
    BY <1>4, <2>1, WriteType DEF CloneRemote, TypeOK, ControlInv
  <2>3. TypeOK'
    BY <1>4, <2>2 DEF CloneRemote, TypeOK
  <2>4. ControlInv'
    BY <1>4, <2>1 DEF CloneRemote, Write, TypeOK, ControlInv, d0, Here, Dir
  <2> QED
    BY <2>3, <2>4
<1>5. CASE CloneFetch
  <2> DEFINE at == <<Here.origin, remote[Here.origin]>>
             Done == /\ dirs' = [dirs EXCEPT ![d0].main = at, ![d0].master = at]
                     /\ Goto("cloneReset")
  <2>1. /\ pc = "cloneFetch" /\ UNCHANGED <<remote, conf, noCheckout, todo, cur, since>>
        /\ Done \/ (UNCHANGED dirs /\ pc' = "idle")
    BY <1>5, RemoteCases DEF CloneFetch
  <2>2. at \in Commits /\ at # Nothing
    BY <2>1 DEF TypeOK, ControlInv, Commits
  <2>3. [dirs[d0] EXCEPT !.main = at, !.master = at] \in Dir
    <3>1. dirs[d0] \in Dir
      BY <2>1 DEF TypeOK, ControlInv
    <3> HIDE DEF at
    <3> QED
      BY <2>2, <3>1 DEF Dir
  <2>4. dirs' \in [Dirs -> Dir]
    BY <2>1, <2>3 DEF TypeOK, ControlInv
  <2>5. cut' \subseteq Dirs
    BY <1>5, <2>1 DEF CloneFetch, TypeOK, ControlInv
  <2>6. TypeOK'
    BY <2>1, <2>4, <2>5 DEF TypeOK
  <2>7. ControlInv'
    <3>1. CASE Done
      <4>1. d0 \in Dirs /\ Here \in Dir /\ Here.head /\ Here.origin \in Urls
        BY <2>1 DEF TypeOK, ControlInv, Here
      <4> HIDE DEF at
      <4>2. dirs'[d0] = [Here EXCEPT !.main = at, !.master = at]
        BY <3>1, <4>1 DEF TypeOK, Here
      <4>3. /\ dirs'[d0].head /\ dirs'[d0].origin \in Urls
            /\ dirs'[d0].main # Nothing /\ dirs'[d0].master # Nothing
        BY <2>2, <4>1, <4>2 DEF Dir
      <4> QED
        BY <2>1, <3>1, <4>3 DEF ControlInv, d0, Here
    <3>2. CASE UNCHANGED dirs /\ pc' = "idle"
      BY <3>2 DEF ControlInv
    <3> QED
      BY <2>1, <3>1, <3>2
  <2> QED
    BY <2>6, <2>7
<1>6. CASE CloneReset
  <2>1. dirs' \in [Dirs -> Dir]
    <3>1. dirs[d0] \in Dir
      BY <1>6 DEF CloneReset, TypeOK, ControlInv
    <3>2. Here.master \in Commits \cup {Nothing}
      BY <3>1 DEF Here, Dir
    <3> QED
      BY <1>6, <3>2, WriteType DEF CloneReset, TypeOK, ControlInv
  <2>2. TypeOK'
    BY <1>6, <2>1 DEF CloneReset, Cloned, TypeOK
  <2>3. ControlInv'
    BY <1>6 DEF CloneReset, Cloned, Write, TypeOK, ControlInv, d0, Here, Dir
  <2> QED
    BY <2>2, <2>3
<1>7. CASE Fetch
  <2> DEFINE at == <<Here.origin, remote[Here.origin]>>
             Done == Write(ToFetchOptions(conf[cur]), at) /\ Goto("checkout")
  <2>1. /\ pc = "fetch" /\ UNCHANGED <<remote, conf, noCheckout, todo, cur, since, cut>>
        /\ (Here.origin # Nothing /\ Done) \/ (UNCHANGED dirs /\ pc' = "idle")
    BY <1>7, RemoteCases DEF Fetch
  <2>2. CASE UNCHANGED dirs /\ pc' = "idle"
    BY <2>1, <2>2 DEF TypeOK, ControlInv
  <2>3. CASE Here.origin # Nothing /\ Done
    <3>1. d0 \in Dirs /\ Here \in Dir /\ Here.head
      BY <2>1 DEF TypeOK, ControlInv, Here
    <3>2. Here.origin \in Urls
      BY <2>3, <3>1 DEF Dir
    <3>3. at \in Commits
      BY <3>2 DEF TypeOK, Commits
    <3>4. dirs' \in [Dirs -> Dir]
      BY <2>3, <3>1, <3>3, WriteType DEF TypeOK, ToFetchOptions
    <3>5. TypeOK'
      BY <2>1, <2>3, <3>4 DEF TypeOK
    <3>6. dirs'[d0].head /\ dirs'[d0].origin \in Urls
      BY <2>3, <3>1, <3>2 DEF TypeOK, Write, ToFetchOptions, Here, Dir
    <3>7. ControlInv'
      BY <2>1, <2>3, <3>6 DEF ControlInv, d0, Here
    <3> QED
      BY <3>5, <3>7
  <2> QED
    BY <2>1, <2>2, <2>3
<1>8. CASE Checkout
  <2> DEFINE at == ToCheckoutOptions(conf[cur], Here)
             Done == /\ at # Nothing /\ Goto("next")
                     /\ dirs' = [dirs EXCEPT ![d0].work = at, ![d0].edited = FALSE]
  <2>1. /\ pc = "checkout" /\ UNCHANGED <<remote, conf, noCheckout, todo, cur, since, cut>>
        /\ Done \/ (UNCHANGED dirs /\ pc' = "idle")
    BY <1>8 DEF Checkout
  <2>2. d0 \in Dirs /\ Here \in Dir
    BY <2>1 DEF TypeOK, ControlInv, Here
  <2>3. at \in Commits \cup {Nothing}
    BY <2>2, CheckoutType
  <2>4. [dirs[d0] EXCEPT !.work = at, !.edited = FALSE] \in Dir
    BY <2>2, <2>3 DEF Here, Dir
  <2>5. dirs' \in [Dirs -> Dir]
    BY <2>1, <2>2, <2>4 DEF TypeOK
  <2>6. TypeOK'
    BY <2>1, <2>5 DEF TypeOK
  <2>7. ControlInv'
    BY <2>1 DEF ControlInv
  <2> QED
    BY <2>6, <2>7
<1>9. CASE Kill
  <2>1. dirs' \in [Dirs -> Dir]
    BY <1>9, WriteType DEF Kill, TypeOK, ControlInv
  <2>2. cut' \subseteq Dirs
    BY <1>9 DEF Kill, TypeOK, ControlInv
  <2>3. TypeOK'
    BY <1>9, <2>1, <2>2 DEF Kill, TypeOK
  <2>4. ControlInv'
    BY <1>9 DEF Kill, ControlInv
  <2> QED
    BY <2>3, <2>4
<1>10. CASE Push
  BY <1>10 DEF Push, TypeOK, ControlInv, d0, Here
<1>11. CASE UserEdits
  <2>1. PICK d \in Dirs : dirs' = [dirs EXCEPT ![d].edited = TRUE]
    BY <1>11 DEF UserEdits
  <2>2. [dirs[d] EXCEPT !.edited = TRUE] \in Dir
    <3>1. dirs[d] \in Dir
      BY DEF TypeOK
    <3> QED
      BY <3>1 DEF Dir
  <2>3. dirs' \in [Dirs -> Dir]
    BY <2>1, <2>2 DEF TypeOK
  <2>4. TypeOK'
    BY <1>11, <2>3 DEF UserEdits, TypeOK
  <2>5. ControlInv'
    BY <1>11, <2>1 DEF UserEdits, TypeOK, ControlInv, d0, Here, Dir
  <2> QED
    BY <2>4, <2>5
<1>12. CASE Finished \/ UNCHANGED vars
  <2>1. UNCHANGED vars
    BY <1>12 DEF Finished
  <2> QED
    BY <2>1 DEF vars, TypeOK, ControlInv, d0, Here
<1> QED
  BY <1>1, <1>2, <1>3, <1>4, <1>5, <1>6, <1>7, <1>8, <1>9, <1>10, <1>11, <1>12 DEF Next

THEOREM PullTypeCorrect == Spec => []TypeOK
<1>1. TypeInv => TypeOK
  BY DEF TypeInv
<1> QED
  BY <1>1, TypeInvInit, TypeInvStep, PTL DEF Spec

-----------------------------------------------------------------------------
(* What one step does to the directories.                                   *)

\* What a step does to directory d: nothing; or it is the directory at hand and a
\* request of the pull writes to it; or its files are edited.
LEMMA DirStep ==
    ASSUME TypeInv, [Next]_vars, NEW d \in Dirs
    PROVE  \/ dirs'[d] = dirs[d]
           \/ dirs'[d] = [dirs[d] EXCEPT !.edited = TRUE]
           \/ d = d0 /\ (Clone \/ CloneRemote \/ CloneFetch \/ CloneReset \/ Fetch \/ Checkout)
<1> USE DEF TypeInv
<1>1. dirs \in [Dirs -> Dir] /\ dirs[d] \in Dir
  BY DEF TypeOK
<1>2. ASSUME NEW c \in Configs, NEW flag \in BOOLEAN, Pull(c, flag)
      PROVE dirs'[d] = dirs[d]
  BY <1>2 DEF Pull
<1>3. CASE cloneRepositories \/ Push \/ Finished \/ UNCHANGED vars
  BY <1>3 DEF cloneRepositories, Push, Finished, vars
<1>4. CASE d # d0 /\ (Clone \/ CloneRemote \/ CloneReset)
  BY <1>1, <1>4 DEF Clone, CloneRemote, CloneReset, Write
<1>5. CASE d # d0 /\ CloneFetch
  BY <1>1, <1>5, RemoteCases DEF CloneFetch
<1>6. CASE d # d0 /\ Fetch
  BY <1>1, <1>6, RemoteCases DEF Fetch, Write
<1>7. CASE d # d0 /\ Checkout
  BY <1>1, <1>7 DEF Checkout
<1>8. CASE Kill
  BY <1>1, <1>8 DEF Kill, Write
<1>9. CASE UserEdits
  BY <1>1, <1>9 DEF UserEdits
<1> QED
  BY <1>2, <1>3, <1>4, <1>5, <1>6, <1>7, <1>8, <1>9 DEF Next

\* git.Clone brings the main branch, or it fails and leaves the directory alone.
LEMMA CloneFetchStep ==
    ASSUME TypeInv, CloneFetch
    PROVE  /\ pc = "cloneFetch" /\ d0 \in Dirs /\ Here \in Dir
           /\ \/ UNCHANGED dirs /\ pc' = "idle" /\ cut' = cut \cup {d0}
                 /\ (~LetIn(Here.origin, conf[cur]) \/ faulty')
              \/ /\ pc' = "cloneReset" /\ UNCHANGED cut
                 /\ \E at \in Commits : dirs'[d0] = [Here EXCEPT !.main = at, !.master = at]
<1> DEFINE at == <<Here.origin, remote[Here.origin]>>
<1>1. pc = "cloneFetch" /\ d0 \in Dirs /\ Here \in Dir /\ dirs \in [Dirs -> Dir]
  BY DEF CloneFetch, Remote, TypeInv, TypeOK, ControlInv, Here
<1>2. at \in Commits
  BY <1>1 DEF TypeInv, TypeOK, ControlInv, Commits
<1>3. \/ UNCHANGED dirs /\ pc' = "idle" /\ (~LetIn(Here.origin, conf[cur]) \/ faulty')
      \/ /\ pc' = "cloneReset"
         /\ dirs' = [dirs EXCEPT ![d0].main = at, ![d0].master = at]
  BY DEF CloneFetch, Remote, Goto, Fail
<1>4. cut' = IF pc' = "idle" THEN cut \cup {d0} ELSE cut
  BY DEF CloneFetch
<1> HIDE DEF at
<1>5. pc' = "cloneReset" => dirs'[d0] = [Here EXCEPT !.main = at, !.master = at]
  BY <1>1, <1>3 DEF Here
<1> QED
  BY <1>1, <1>2, <1>3, <1>4, <1>5

\* Fetch brings what the fetch options name, or it fails and leaves the directory
\* alone.
LEMMA FetchStep ==
    ASSUME TypeInv, Fetch
    PROVE  /\ pc = "fetch" /\ d0 \in Dirs /\ Here \in Dir /\ UNCHANGED cut
           /\ \/ UNCHANGED dirs /\ pc' = "idle"
                 /\ (Here.origin = Nothing \/ ~LetIn(Here.origin, conf[cur]) \/ faulty')
              \/ /\ pc' = "checkout" /\ Here.origin \in Urls
                 /\ \E at \in Commits :
                      /\ at[2] = remote[Here.origin]
                      /\ dirs'[d0] = IF conf[cur].refspec THEN [Here EXCEPT !.change = at]
                                     ELSE [Here EXCEPT !.main = at]
<1> DEFINE at == <<Here.origin, remote[Here.origin]>>
<1>1. pc = "fetch" /\ d0 \in Dirs /\ Here \in Dir /\ dirs \in [Dirs -> Dir] /\ UNCHANGED cut
  BY DEF Fetch, Remote, TypeInv, TypeOK, ControlInv, Here
<1>2. \/ /\ UNCHANGED dirs /\ pc' = "idle"
         /\ (Here.origin = Nothing \/ ~LetIn(Here.origin, conf[cur]) \/ faulty')
      \/ /\ pc' = "checkout" /\ Here.origin # Nothing
         /\ Write(ToFetchOptions(conf[cur]), at)
  BY DEF Fetch, Remote, Goto, Fail
<1>3. pc' = "checkout" => Here.origin \in Urls
  BY <1>1, <1>2 DEF Dir
<1>4. pc' = "checkout" => at \in Commits
  BY <1>3 DEF TypeInv, TypeOK, Commits
<1>5. at[2] = remote[Here.origin]
  OBVIOUS
<1> HIDE DEF at
<1>6. pc' = "checkout" => dirs'[d0] = IF conf[cur].refspec THEN [Here EXCEPT !.change = at]
                                      ELSE [Here EXCEPT !.main = at]
  BY <1>1, <1>2 DEF Write, ToFetchOptions, Here
<1> QED
  BY <1>1, <1>2, <1>3, <1>4, <1>5, <1>6

\* Checkout brings the commit the settings name, or it says why it cannot.
LEMMA CheckoutStep ==
    ASSUME TypeInv, Checkout
    PROVE  /\ pc = "checkout" /\ d0 \in Dirs /\ Here \in Dir
           /\ \/ UNCHANGED dirs /\ pc' = "idle"
                 /\ \/ ToCheckoutOptions(conf[cur], Here) = Nothing
                    \/ Here.edited /\ ~ForceCheckout(conf[cur])
              \/ /\ pc' = "next" /\ (Here.edited => ForceCheckout(conf[cur]))
                 /\ \E at \in Commits :
                      /\ at = ToCheckoutOptions(conf[cur], Here)
                      /\ dirs'[d0] = [Here EXCEPT !.work = at, !.edited = FALSE]
<1> DEFINE at == ToCheckoutOptions(conf[cur], Here)
<1>1. pc = "checkout" /\ d0 \in Dirs /\ Here \in Dir /\ dirs \in [Dirs -> Dir]
  BY DEF Checkout, TypeInv, TypeOK, ControlInv, Here
<1>2. at \in Commits \cup {Nothing}
  BY <1>1, CheckoutType
<1>3. \/ UNCHANGED dirs /\ pc' = "idle" /\ (at = Nothing \/ (Here.edited /\ ~ForceCheckout(conf[cur])))
      \/ /\ pc' = "next" /\ at # Nothing /\ (Here.edited => ForceCheckout(conf[cur]))
         /\ dirs' = [dirs EXCEPT ![d0].work = at, ![d0].edited = FALSE]
  BY DEF Checkout, Goto, Fail
<1> HIDE DEF at
<1>4. pc' = "next" => dirs'[d0] = [Here EXCEPT !.work = at, !.edited = FALSE]
  BY <1>1, <1>3 DEF Here
<1> QED
  BY <1>1, <1>2, <1>3, <1>4 DEF at

\* Files the user changed, or an interrupted checkout left, are overwritten only by
\* a repository with force.
THEOREM EditsKeptHolds == Spec => EditsKept
<1>1. ASSUME TypeInv, [Next]_vars, NEW d \in Dirs, dirs[d].edited, ~dirs'[d].edited
      PROVE  pc = "checkout" /\ d0 = d /\ conf[cur].force
  <2>1. dirs \in [Dirs -> Dir] /\ dirs[d] \in Dir
    BY <1>1 DEF TypeInv, TypeOK
  <2>2. dirs'[d] # dirs[d] /\ dirs'[d] # [dirs[d] EXCEPT !.edited = TRUE]
    BY <1>1, <2>1 DEF Dir
  <2>3. d = d0 /\ (Clone \/ CloneRemote \/ CloneFetch \/ CloneReset \/ Fetch \/ Checkout)
    BY <1>1, <2>2, DirStep
  <2>4. ~Clone /\ ~CloneRemote /\ ~CloneReset
    BY <1>1, <2>1, <2>3 DEF Clone, CloneRemote, CloneReset, Write, Dir
  <2>5. ~CloneFetch
    BY <1>1, <2>1, <2>3, CloneFetchStep DEF Dir, Here
  <2>6. ASSUME Fetch PROVE FALSE
    <3>1. Here \in Dir /\ Here.edited /\ dirs'[d0] # Here
      BY <1>1, <2>1, <2>3 DEF Here
    <3>2. \E at : dirs'[d0] \in {[Here EXCEPT !.change = at], [Here EXCEPT !.main = at]}
      BY <1>1, <2>6, <3>1, FetchStep DEF Here
    <3> QED
      BY <1>1, <2>3, <3>1, <3>2 DEF Dir
  <2>7. CASE Checkout
    BY <1>1, <2>3, <2>7, CheckoutStep DEF ForceCheckout, Here
  <2> QED
    BY <2>3, <2>4, <2>5, <2>6, <2>7
<1>2. TypeInv /\ [Next]_vars =>
        \A d \in Dirs : dirs[d].edited /\ ~dirs'[d].edited =>
             pc = "checkout" /\ d0 = d /\ conf[cur].force
  BY <1>1
<1> QED
  BY <1>2, TypeInvInit, TypeInvStep, PTL DEF Spec, EditsKept

-----------------------------------------------------------------------------
(* Why a pull fails.                                                        *)

LEMMA CutInvStep == TypeInv /\ CutInv /\ [Next]_vars => CutInv'
<1> SUFFICES ASSUME TypeInv, CutInv, [Next]_vars PROVE CutInv'
  OBVIOUS
<1> USE DEF TypeInv, counters
<1>1. ASSUME NEW d \in Dirs, dirs'[d] = dirs[d] \/ dirs'[d] = [dirs[d] EXCEPT !.edited = TRUE]
      PROVE  Unfinished(d)' => Unfinished(d)
  <2>1. dirs[d] \in Dir
    BY DEF TypeOK
  <2> QED
    BY <1>1, <2>1 DEF Unfinished, Dir
<1>2. ASSUME NEW c \in Configs, NEW flag \in BOOLEAN, Pull(c, flag) PROVE CutInv'
  BY <1>2 DEF Pull, CutInv, Unfinished
<1>3. CASE cloneRepositories
  <2>1. UNCHANGED <<dirs, cut>> /\ pc = "next"
    BY <1>3 DEF cloneRepositories
  <2> QED
    BY <2>1 DEF CutInv, Unfinished
<1>4. CASE Clone
  <2>1. /\ pc = "clone" /\ UNCHANGED <<cut, conf, cur>> /\ d0 \in Dirs
        /\ UNCHANGED dirs \/ (pc' = "cloneRemote" /\ Write("head", TRUE))
    BY <1>4 DEF Clone, Goto, Fail, ControlInv
  <2>2. \A d \in Dirs : d # d0 => dirs'[d] = dirs[d]
    BY <2>1 DEF TypeOK, Write
  <2> QED
    BY <2>1, <2>2 DEF CutInv, Unfinished, d0
<1>5. CASE CloneRemote
  <2>1. /\ pc = "cloneRemote" /\ pc' = "cloneFetch" /\ UNCHANGED <<cut, conf, cur>>
        /\ d0 \in Dirs /\ Write("origin", conf[cur].url)
    BY <1>5 DEF CloneRemote, Goto, ControlInv
  <2>2. \A d \in Dirs : d # d0 => dirs'[d] = dirs[d]
    BY <2>1 DEF TypeOK, Write
  <2> QED
    BY <2>1, <2>2 DEF CutInv, Unfinished, d0
<1>6. CASE CloneFetch
  <2>1. \A d \in Dirs : d # d0 => dirs'[d] = dirs[d]
    BY <1>6, RemoteCases DEF CloneFetch, TypeOK
  <2>2. UNCHANGED <<conf, cur>> /\ pc = "cloneFetch" /\ cut \subseteq cut'
    BY <1>6, CloneFetchStep DEF CloneFetch
  <2>3. Unfinished(d0)' => d0 \in cut'
    <3>1. CASE pc' = "idle"
      BY <1>6, <3>1, CloneFetchStep
    <3>2. ASSUME NEW at \in Commits, dirs'[d0] = [Here EXCEPT !.main = at, !.master = at]
          PROVE  ~Unfinished(d0)'
      <4>1. /\ dirs'[d0].main # Nothing /\ dirs'[d0].master # Nothing
            /\ dirs'[d0].origin # Nothing
        BY <1>6, <2>2, <3>2, CloneFetchStep DEF ControlInv, Commits, Dir
      <4> QED
        BY <2>2, <4>1 DEF Unfinished, d0
    <3>3. pc' = "idle" \/ \E at \in Commits : dirs'[d0] = [Here EXCEPT !.main = at, !.master = at]
      BY <1>6, CloneFetchStep
    <3> QED
      BY <3>1, <3>2, <3>3
  <2> QED
    BY <2>1, <2>2, <2>3 DEF CutInv, Unfinished, d0
<1>7. CASE CloneReset
  <2>1. /\ pc = "cloneReset" /\ UNCHANGED <<cut, conf, cur>> /\ Write("work", Here.master)
        /\ d0 \in Dirs /\ pc' \notin {"cloneRemote", "cloneFetch"}
    BY <1>7 DEF CloneReset, Cloned, Goto, ControlInv
  <2>2. \A d \in Dirs : Unfinished(d)' => Unfinished(d)
    BY <2>1 DEF TypeOK, Write, Unfinished, Dir
  <2> QED
    BY <2>1, <2>2 DEF CutInv
<1>8. CASE Fetch
  <2>1. \A d \in Dirs : d # d0 => dirs'[d] = dirs[d]
    BY <1>8, RemoteCases DEF Fetch, TypeOK, Write
  <2>2. pc = "fetch" /\ UNCHANGED cut
    BY <1>8, FetchStep
  <2>3. Unfinished(d0)' => Unfinished(d0)
    <3>1. CASE UNCHANGED dirs
      BY <1>8, <3>1 DEF Fetch, d0, Unfinished
    <3>2. ASSUME NEW at \in Commits, dirs'[d0] \in {[Here EXCEPT !.change = at], [Here EXCEPT !.main = at]}
          PROVE  Unfinished(d0)' => Unfinished(d0)
      <4>1. /\ dirs'[d0].head = Here.head /\ dirs'[d0].origin = Here.origin
            /\ dirs'[d0].master = Here.master
            /\ dirs'[d0].main = Here.main \/ dirs'[d0].main = at
        BY <1>8, <3>2, FetchStep DEF Dir
      <4> QED
        BY <1>8, <4>1 DEF Fetch, d0, Unfinished, Here, Commits
    <3> QED
      BY <1>8, <3>1, <3>2, FetchStep
  <2> QED
    BY <1>8, <2>1, <2>2, <2>3 DEF Fetch, CutInv, Unfinished, d0
<1>9. CASE Checkout
  <2>1. \A d \in Dirs : d # d0 => dirs'[d] = dirs[d]
    BY <1>9 DEF Checkout, TypeOK
  <2>2. pc = "checkout" /\ UNCHANGED <<cut, conf, cur>>
    BY <1>9 DEF Checkout
  <2>3. Unfinished(d0)' => Unfinished(d0)
    <3>1. CASE UNCHANGED dirs
      BY <2>2, <3>1 DEF d0, Unfinished
    <3>2. ASSUME NEW at, dirs'[d0] = [Here EXCEPT !.work = at, !.edited = FALSE]
          PROVE  Unfinished(d0)' => Unfinished(d0)
      BY <1>9, <2>2, <3>2, CheckoutStep DEF Unfinished, Here, Dir, d0
    <3> QED
      BY <1>9, <3>1, <3>2, CheckoutStep
  <2> QED
    BY <2>1, <2>2, <2>3 DEF CutInv, Unfinished, d0
<1>10. CASE Kill
  <2>1. \A d \in Dirs : Unfinished(d)' => Unfinished(d)
    BY <1>1, <1>10 DEF Kill, Write, TypeOK
  <2>2. cut' = IF pc \in {"cloneRemote", "cloneFetch", "cloneReset"} THEN cut \cup {d0} ELSE cut
    BY <1>10 DEF Kill
  <2> QED
    BY <2>1, <2>2 DEF CutInv
<1>11. CASE Push
  BY <1>11 DEF Push, CutInv, Unfinished, d0
<1>12. CASE UserEdits
  <2>1. \A d \in Dirs : Unfinished(d)' => Unfinished(d)
    BY <1>1, <1>12 DEF UserEdits, TypeOK
  <2>2. UNCHANGED <<cut, conf, cur, pc>>
    BY <1>12 DEF UserEdits
  <2> QED
    BY <2>1, <2>2 DEF CutInv, d0
<1>13. CASE Finished \/ UNCHANGED vars
  BY <1>13 DEF Finished, vars, CutInv, Unfinished, d0
<1> QED
  BY <1>2, <1>3, <1>4, <1>5, <1>6, <1>7, <1>8, <1>9, <1>10, <1>11, <1>12, <1>13 DEF Next

\* Why the pull at hand cannot go on.
Explained ==
    \/ ~ValidRepo(conf[cur]) \/ ~AuthBuilt(conf[cur]) \/ d0 = Nothing
    \/ ~LetIn(Here.origin, conf[cur])
    \/ Here.edited /\ ~ForceCheckout(conf[cur])
    \/ Here.change = Nothing /\ "ref" \in conf[cur].set
    \/ /\ d0 \in cut
       /\ \/ Here.origin = Nothing
          \/ Here.master = Nothing /\ (conf[cur].set = {} \/ conf[cur].localBranch)
          \/ Here.main = Nothing /\ conf[cur].refspec

\* A checkout finds no commit only where the clone was cut short, or without a
\* refspec for its ref.
LEMMA NoRefExplained ==
    ASSUME TypeInv, CutInv, FetchedInv, pc = "checkout",
           ToCheckoutOptions(conf[cur], Here) = Nothing
    PROVE  Explained
<1>1. d0 \in Dirs /\ Here.head /\ cur \in DOMAIN conf /\ conf \in Configs
  BY DEF TypeInv, TypeOK, ControlInv
<1>2. Unfinished(d0) => d0 \in cut
  BY <1>1 DEF CutInv
<1>3. conf[cur].set \subseteq CheckoutFields
  BY <1>1
<1>4. Here.main = Nothing => conf[cur].refspec
  BY DEF FetchedInv, Commits
<1>5. Here.main # Nothing => <<Here.main[1], 1>> # Nothing
  <2>1. Here \in Dir
    BY <1>1 DEF TypeInv, TypeOK, Here
  <2>2. Here.main # Nothing => <<Here.main[1], 1>> \in Urls \X (1..MaxCommit)
    BY <2>1 DEF Dir, Commits
  <2> QED
    BY <2>2
<1>6. CASE "branch" \in conf[cur].set
  BY <1>1, <1>2, <1>4, <1>6 DEF ToCheckoutOptions, Explained, Unfinished, Here
<1>7. CASE "branch" \notin conf[cur].set /\ conf[cur].set \cap {"tag", "commitHash"} # {}
  BY <1>1, <1>2, <1>4, <1>5, <1>7 DEF ToCheckoutOptions, Explained, Unfinished, Here
<1>8. CASE conf[cur].set \cap {"branch", "tag", "commitHash"} = {} /\ "ref" \in conf[cur].set
  BY <1>8 DEF ToCheckoutOptions, Explained
<1>9. CASE conf[cur].set \cap CheckoutFields = {}
  <2>1. conf[cur].set = {}
    BY <1>3, <1>9
  <2>2. Here.master = Nothing
    BY <2>1 DEF ToCheckoutOptions
  <2> QED
    BY <1>1, <1>2, <2>1, <2>2 DEF Explained, Unfinished, Here
<1> QED
  BY <1>6, <1>7, <1>8, <1>9 DEF CheckoutFields

LEMMA ExplainedInvStep ==
    TypeInv /\ CutInv /\ FetchedInv /\ ExplainedInv /\ [Next]_vars => ExplainedInv'
<1> SUFFICES ASSUME TypeInv, CutInv, FetchedInv, ExplainedInv, [Next]_vars,
                    pc' = "idle", result' \notin {"none", "ok"}, ~faulty'
             PROVE  /\ (~ValidRepo(conf[cur]) \/ d0 = Nothing \/ d0 \in Dirs)'
                    /\ Explained'
  BY DEF ExplainedInv, FailureExplained, Explained
<1> USE DEF Goto, Fail, counters
<1> DEFINE Why == (~ValidRepo(conf[cur]) \/ d0 = Nothing \/ d0 \in Dirs) /\ Explained
<1>1. CASE UNCHANGED <<dirs, conf, cur, cut>> /\ Why
  BY <1>1 DEF Explained, d0, Here
<1>2. ASSUME NEW c \in Configs, NEW flag \in BOOLEAN, Pull(c, flag) PROVE FALSE
  BY <1>2 DEF Pull
<1>3. CASE cloneRepositories
  BY <1>3 DEF cloneRepositories, Explained, d0
<1>4. CASE Clone
  <2>1. UNCHANGED <<dirs, conf, cur, cut>> /\ ~AuthBuilt(conf[cur])
    BY <1>4 DEF Clone, Cloned
  <2>2. d0 \in Dirs
    BY <1>4 DEF Clone, TypeInv, ControlInv
  <2> QED
    BY <1>1, <2>1, <2>2 DEF Explained
<1>5. CASE CloneRemote \/ CloneReset
  BY <1>5 DEF CloneRemote, CloneReset, Cloned
<1>6. CASE CloneFetch
  <2>1. UNCHANGED <<dirs, conf, cur>> /\ ~LetIn(Here.origin, conf[cur]) /\ d0 \in Dirs
    BY <1>6, CloneFetchStep DEF CloneFetch
  <2> QED
    BY <2>1 DEF Explained, d0, Here
<1>7. CASE Fetch
  <2>1. /\ UNCHANGED <<dirs, conf, cur, cut>> /\ d0 \in Dirs /\ pc = "fetch"
        /\ (Here.origin = Nothing \/ ~LetIn(Here.origin, conf[cur]))
    BY <1>7, FetchStep DEF Fetch
  <2>2. Here.origin = Nothing => d0 \in cut
    BY <2>1 DEF CutInv, Unfinished, TypeInv, ControlInv, Here
  <2> QED
    BY <1>1, <2>1, <2>2 DEF Explained
<1>8. CASE Checkout
  <2>1. /\ UNCHANGED <<dirs, conf, cur, cut>> /\ d0 \in Dirs /\ pc = "checkout"
        /\ \/ ToCheckoutOptions(conf[cur], Here) = Nothing
           \/ Here.edited /\ ~ForceCheckout(conf[cur])
    BY <1>8, CheckoutStep DEF Checkout
  <2>2. Explained
    BY <2>1, NoRefExplained DEF Explained
  <2> QED
    BY <1>1, <2>1, <2>2
<1>9. CASE Kill
  BY <1>9 DEF Kill
<1>10. CASE Push
  <2>1. UNCHANGED <<dirs, conf, cur, cut, pc, result, faulty>>
    BY <1>10 DEF Push
  <2> QED
    BY <1>1, <2>1 DEF ExplainedInv, FailureExplained, Explained
<1>11. CASE UserEdits
  <2>1. PICK d \in Dirs : dirs' = [dirs EXCEPT ![d].edited = TRUE]
    BY <1>11 DEF UserEdits
  <2>2. UNCHANGED <<conf, cur, cut, pc, result, faulty>>
    BY <1>11 DEF UserEdits
  <2>3. Why
    BY <2>2 DEF ExplainedInv, FailureExplained, Explained
  <2>4. CASE d0 \in Dirs
    <3>1. /\ Here'.origin = Here.origin /\ Here'.change = Here.change
          /\ Here'.master = Here.master /\ Here'.main = Here.main
          /\ Here.edited => Here'.edited
      BY <2>1, <2>2, <2>4 DEF TypeInv, TypeOK, d0, Here, Dir
    <3> QED
      BY <2>2, <2>3, <3>1 DEF Explained, d0
  <2>5. CASE ~ValidRepo(conf[cur]) \/ d0 = Nothing
    BY <2>2, <2>5 DEF Explained, d0
  <2> QED
    BY <2>3, <2>4, <2>5
<1>12. CASE Finished \/ UNCHANGED vars
  <2>1. UNCHANGED <<dirs, conf, cur, cut, pc, result, faulty>>
    BY <1>12 DEF Finished, vars
  <2> QED
    BY <1>1, <2>1 DEF ExplainedInv, FailureExplained, Explained
<1> QED
  BY <1>2, <1>3, <1>4, <1>5, <1>6, <1>7, <1>8, <1>9, <1>10, <1>11, <1>12 DEF Next

-----------------------------------------------------------------------------
(* What a success means.                                                    *)

LEMMA FetchedInvStep == TypeInv /\ FetchedInv /\ [Next]_vars => FetchedInv'
<1> SUFFICES ASSUME TypeInv, FetchedInv, [Next]_vars PROVE FetchedInv'
  OBVIOUS
<1> USE DEF Goto, Fail, counters
<1>1. /\ remote \in [Urls -> 1..MaxCommit] /\ since \in [Urls -> 1..MaxCommit]
      /\ dirs \in [Dirs -> Dir]
  BY DEF TypeInv, TypeOK
<1>2. ASSUME NEW c \in Configs, NEW flag \in BOOLEAN, Pull(c, flag) PROVE FetchedInv'
  BY <1>1, <1>2 DEF Pull, FetchedInv
<1>3. CASE cloneRepositories \/ Clone \/ CloneRemote \/ CloneReset \/ Kill
  BY <1>3 DEF cloneRepositories, Clone, CloneRemote, CloneReset, Cloned, Kill, FetchedInv
<1>4. CASE CloneFetch
  <2>1. pc' # "checkout" /\ UNCHANGED <<remote, since>>
    BY <1>4, RemoteCases DEF CloneFetch
  <2> QED
    BY <2>1 DEF FetchedInv
<1>5. CASE Fetch
  <2>1. UNCHANGED <<remote, since, conf, cur>>
    BY <1>5 DEF Fetch
  <2>2. ASSUME pc' = "checkout", ~conf[cur].refspec
        PROVE  dirs'[d0].main \in Commits /\ since[dirs'[d0].origin] <= dirs'[d0].main[2]
    <3>1. PICK at \in Commits :
            at[2] = remote[Here.origin] /\ dirs'[d0] = [Here EXCEPT !.main = at]
      BY <1>5, <2>2, FetchStep
    <3>2. dirs'[d0].main = at /\ dirs'[d0].origin = Here.origin /\ Here.origin \in Urls
      BY <1>5, <2>2, <3>1, FetchStep DEF Dir
    <3> QED
      BY <1>1, <3>1, <3>2 DEF FetchedInv
  <2> QED
    BY <2>1, <2>2 DEF FetchedInv, d0, Here
<1>6. CASE Checkout
  BY <1>6 DEF Checkout, FetchedInv
<1>7. CASE Push
  <2>1. PICK u \in Urls : remote[u] < MaxCommit /\ remote' = [remote EXCEPT ![u] = @ + 1]
    BY <1>7 DEF Push
  <2>2. \A v \in Urls : since[v] <= remote'[v]
    BY <1>1, <2>1 DEF FetchedInv
  <2>3. UNCHANGED <<since, dirs, conf, cur, pc>>
    BY <1>7 DEF Push
  <2> QED
    BY <2>2, <2>3 DEF FetchedInv, d0, Here
<1>8. CASE UserEdits
  <2>1. PICK d \in Dirs : dirs' = [dirs EXCEPT ![d].edited = TRUE]
    BY <1>8 DEF UserEdits
  <2>2. UNCHANGED <<remote, since, conf, cur, pc>>
    BY <1>8 DEF UserEdits
  <2>3. pc = "checkout" => dirs'[d0].main = Here.main /\ dirs'[d0].origin = Here.origin
    BY <1>1, <2>1 DEF TypeInv, ControlInv, Here, Dir
  <2> QED
    BY <2>2, <2>3 DEF FetchedInv, d0, Here
<1>9. CASE Finished \/ UNCHANGED vars
  BY <1>9 DEF Finished, vars, FetchedInv, d0, Here
<1> QED
  BY <1>2, <1>3, <1>4, <1>5, <1>6, <1>7, <1>8, <1>9 DEF Next

\* What the settings ask of a directory depends on its branches alone.
LEMMA FreshKept ==
    ASSUME NEW s, NEW d \in Dir, NEW e,
           e = d \/ e = [d EXCEPT !.edited = TRUE], Fresh(s, d)
    PROVE  Fresh(s, e)
BY DEF Fresh, ToCheckoutOptions, Dir

\* A checkout makes its directory fresh for the repository at hand.
LEMMA CheckoutFresh ==
    ASSUME TypeInv, FetchedInv, Checkout, pc' = "next"
    PROVE  Fresh(conf[cur], dirs'[d0])
<1>1. PICK at \in Commits :
        /\ at = ToCheckoutOptions(conf[cur], Here)
        /\ dirs'[d0] = [Here EXCEPT !.work = at, !.edited = FALSE]
  BY CheckoutStep
<1>2. Here \in Dir /\ pc = "checkout"
  BY CheckoutStep
<1>3. /\ dirs'[d0].work = at /\ dirs'[d0].origin = Here.origin
      /\ dirs'[d0].main = Here.main /\ dirs'[d0].master = Here.master
      /\ dirs'[d0].change = Here.change
  BY <1>1, <1>2 DEF Dir
<1>4. ToCheckoutOptions(conf[cur], dirs'[d0]) = at
  BY <1>1, <1>3 DEF ToCheckoutOptions
<1>5. at # Nothing
  BY DEF Commits
<1>6. ASSUME conf[cur].set = {"branch"}, ~conf[cur].localBranch, ~conf[cur].refspec
      PROVE  at[2] >= since[Here.origin]
  <2>1. at = Here.main
    BY <1>1, <1>6 DEF ToCheckoutOptions
  <2>2. since[Here.origin] <= Here.main[2]
    BY <1>2, <1>6 DEF FetchedInv
  <2>3. since[Here.origin] \in Nat /\ Here.main[2] \in Nat
    BY <1>2, <2>1 DEF TypeInv, TypeOK, ControlInv, Commits
  <2> QED
    BY <2>1, <2>2, <2>3
<1> QED
  BY <1>3, <1>4, <1>5, <1>6 DEF Fresh

LEMMA DoneInvStep ==
    TypeInv /\ TypeInv' /\ FetchedInv /\ DoneInv /\ [Next]_vars => DoneInv'
<1> SUFFICES ASSUME TypeInv, TypeInv', FetchedInv, DoneInv, [Next]_vars PROVE DoneInv'
  OBVIOUS
<1> USE DEF Goto, Fail, counters
<1> DEFINE Busy == pc \notin {"idle", "next"}
           Done(r) == \E q \in DOMAIN conf : DirOf(q) = DirOf(r) /\ Fresh(conf[q], dirs[DirOf(r)])
<1>1. dirs \in [Dirs -> Dir]
  BY DEF TypeInv, TypeOK
\* A repository of another directory than the one at hand stays done.
<1>2. ASSUME UNCHANGED <<conf, since>>, NEW r, DirOf(r) \in Dirs, Done(r),
             \/ dirs'[DirOf(r)] = dirs[DirOf(r)]
             \/ dirs'[DirOf(r)] = [dirs[DirOf(r)] EXCEPT !.edited = TRUE]
      PROVE  Done(r)'
  <2>1. PICK q \in DOMAIN conf : DirOf(q) = DirOf(r) /\ Fresh(conf[q], dirs[DirOf(r)])
    BY <1>2
  <2>2. Fresh(conf[q], dirs'[DirOf(r)])
    BY <1>1, <1>2, <2>1, FreshKept
  <2> QED
    BY <1>2, <2>1, <2>2 DEF DirOf, Fresh
\* While the pull is at a repository.
<1>3. ASSUME UNCHANGED <<conf, since, todo, cur, noCheckout>>, Busy, pc' # "idle",
             pc' = "next" => noCheckout \/ (Checkout /\ d0 \in Dirs)
      PROVE  DoneInv'
  <2>1. result' = "running"
    BY <1>3 DEF TypeInv, ControlInv
  <2>2. SUFFICES ASSUME ~noCheckout, NEW r \in DOMAIN conf \ todo
                 PROVE  /\ DirOf(r) \in Dirs
                        /\ (pc' # "next" /\ DirOf(r) = d0) \/ Done(r)'
    BY <1>3, <2>1 DEF DoneInv, DirOf, d0
  <2>3. DirOf(r) \in Dirs /\ (DirOf(r) = d0 \/ Done(r))
    BY <1>3, <2>2 DEF DoneInv
  <2>4. CASE DirOf(r) # d0
    <3>1. \/ dirs'[DirOf(r)] = dirs[DirOf(r)]
          \/ dirs'[DirOf(r)] = [dirs[DirOf(r)] EXCEPT !.edited = TRUE]
      BY <2>3, <2>4, DirStep
    <3> QED
      BY <1>2, <1>3, <2>3, <2>4, <3>1
  <2>5. CASE DirOf(r) = d0 /\ pc' = "next"
    <3>1. Fresh(conf[cur], dirs'[d0]) /\ cur \in DOMAIN conf
      BY <1>3, <2>2, <2>5, CheckoutFresh DEF TypeInv, TypeOK
    <3>2. DirOf(cur) = DirOf(r) /\ Fresh(conf[cur], dirs'[DirOf(r)])
      BY <2>5, <3>1 DEF DirOf, d0
    <3>3. Done(r)'
      BY <1>3, <3>1, <3>2 DEF DirOf, Fresh
    <3> QED
      BY <2>3, <3>3
  <2> QED
    BY <2>3, <2>4, <2>5
<1>4. CASE UNCHANGED <<dirs, conf, since, todo, cur, noCheckout, pc, result>>
  BY <1>4 DEF DoneInv, DirOf, Fresh, d0
<1>5. CASE pc' = "idle" /\ result' # "ok"
  BY <1>5 DEF DoneInv
<1>6. ASSUME NEW c \in Configs, NEW flag \in BOOLEAN, Pull(c, flag) PROVE DoneInv'
  BY <1>6 DEF Pull, DoneInv
<1>7. CASE cloneRepositories
  <2>1. pc = "next" /\ UNCHANGED <<dirs, conf, since, noCheckout>>
    BY <1>7 DEF cloneRepositories
  <2>2. CASE todo = {} /\ Fail("ok") /\ UNCHANGED <<todo, cur>>
    BY <2>1, <2>2 DEF DoneInv, DirOf, Fresh
  <2>3. ASSUME NEW r \in todo, cur' = r, todo' = todo \ {r}, pc' = "clone",
               result' = result
        PROVE  DoneInv'
    <3>1. result = "running" /\ DirOf(r) = d0'
      BY <2>1, <2>3 DEF TypeInv, ControlInv, DirOf, d0
    <3>2. d0' \in Dirs
      BY <2>3 DEF TypeInv, ControlInv
    <3> QED
      BY <2>1, <2>3, <3>1, <3>2 DEF DoneInv, DirOf, Fresh
  <2> QED
    BY <1>5, <1>7, <2>2, <2>3 DEF cloneRepositories
<1>8. CASE Clone \/ CloneRemote \/ CloneReset
  <2>1. UNCHANGED <<conf, since, todo, cur, noCheckout>> /\ Busy
    BY <1>8 DEF Clone, CloneRemote, CloneReset
  <2>2. pc' = "next" => noCheckout
    BY <1>8 DEF Clone, CloneRemote, CloneReset, Cloned
  <2>3. pc' = "idle" => result' # "ok"
    BY <1>8 DEF Clone, CloneRemote, CloneReset, Cloned
  <2> QED
    BY <1>3, <1>5, <2>1, <2>2, <2>3
<1>9. CASE CloneFetch \/ Fetch
  <2>1. UNCHANGED <<conf, since, todo, cur, noCheckout>> /\ Busy /\ pc' # "next"
    BY <1>9, CloneFetchStep, FetchStep DEF CloneFetch, Fetch
  <2>2. pc' = "idle" => result' # "ok"
    BY <1>9 DEF CloneFetch, Fetch, Remote
  <2> QED
    BY <1>3, <1>5, <2>1, <2>2
<1>10. CASE Checkout
  <2>1. UNCHANGED <<conf, since, todo, cur, noCheckout>> /\ Busy /\ d0 \in Dirs
    BY <1>10, CheckoutStep DEF Checkout
  <2>2. pc' = "idle" => result' # "ok"
    BY <1>10 DEF Checkout
  <2> QED
    BY <1>3, <1>5, <1>10, <2>1, <2>2
<1>11. CASE Kill
  BY <1>5, <1>11 DEF Kill
<1>12. CASE Push
  BY <1>4, <1>12 DEF Push
<1>13. CASE UserEdits
  <2>1. UNCHANGED <<conf, since, todo, cur, noCheckout, pc, result>>
    BY <1>13 DEF UserEdits
  <2>2. CASE Busy
    BY <1>3, <2>1, <2>2
  <2>3. SUFFICES ASSUME ~Busy, ~noCheckout, pc # "idle" \/ result = "ok",
                        NEW r \in DOMAIN conf \ todo
                 PROVE  DirOf(r) \in Dirs /\ Done(r)'
    BY <2>1, <2>2 DEF DoneInv, DirOf, d0
  <2>4. DirOf(r) \in Dirs /\ Done(r)
    BY <2>3 DEF DoneInv
  <2>5. \/ dirs'[DirOf(r)] = dirs[DirOf(r)]
        \/ dirs'[DirOf(r)] = [dirs[DirOf(r)] EXCEPT !.edited = TRUE]
    BY <1>1, <1>13, <2>4 DEF UserEdits
  <2> QED
    BY <1>2, <2>1, <2>4, <2>5
<1>14. CASE Finished \/ UNCHANGED vars
  BY <1>4, <1>14 DEF Finished, vars
<1> QED
  BY <1>6, <1>7, <1>8, <1>9, <1>10, <1>11, <1>12, <1>13, <1>14 DEF Next

-----------------------------------------------------------------------------
\* The whole inductive invariant.
IndInv == TypeInv /\ CutInv /\ FetchedInv /\ ExplainedInv /\ DoneInv

LEMMA IndInvHolds == Spec => []IndInv
<1>1. Init => CutInv /\ ExplainedInv /\ DoneInv
  BY DEF Init, CutInv, Unfinished, Empty, ExplainedInv, FailureExplained, DoneInv
<1>2. Init => FetchedInv
  BY DEF Init, FetchedInv
<1>3. Init => IndInv
  BY <1>1, <1>2, TypeInvInit DEF IndInv
<1>4. IndInv /\ [Next]_vars => IndInv'
  BY Zenon, TypeInvStep, CutInvStep, FetchedInvStep, ExplainedInvStep, DoneInvStep DEF IndInv
<1> QED
  BY <1>3, <1>4, PTL DEF Spec

\* A pull that reports success has brought every directory to what the settings of a
\* repository of that directory name, and a remote branch is no older than when the
\* pull began, whatever pulls were cut short before.
THEOREM SuccessIsFreshHolds == Spec => []SuccessIsFresh
<1>1. IndInv => SuccessIsFresh
  BY DEF IndInv, DoneInv, DirOf, SuccessIsFresh
<1> QED
  BY <1>1, IndInvHolds, PTL

\* A pull fails for its settings, for edited or half-written files, for a fault of its
\* own, or because an earlier clone of the directory was cut short.
THEOREM FailureExplainedHolds == Spec => []FailureExplained
<1>1. IndInv => FailureExplained
  BY DEF IndInv, ExplainedInv
<1> QED
  BY <1>1, IndInvHolds, PTL

=============================================================================
