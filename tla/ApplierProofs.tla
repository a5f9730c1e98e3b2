--------------------------- MODULE ApplierProofs ---------------------------
(***************************************************************************)
(* Proofs about a kubernetes-apply phase, for every set of objects and     *)
(* conditions, every number of changes by the controllers and every        *)
(* timeout: what the applier's wait relies on, how old it may be, and that *)
(* a phase runs out of steps.                                              *)
(***************************************************************************)
EXTENDS Applier, TLAPS

-----------------------------------------------------------------------------
(* The inductive invariant.                                                 *)

\* An object of the cluster; its fields are any function.
IsObject(obj) ==
    /\ obj = [spec |-> obj.spec, gen |-> obj.gen, state |-> obj.state, fields |-> obj.fields]
    /\ obj.gen \in Nat

TypeInv ==
    /\ TypeOK
    /\ cluster = [o \in Objects |-> cluster[o]] /\ \A o \in Objects : IsObject(cluster[o])
    /\ applied \in [Objects -> Nat]

\* The options are those of the run from the moment objects are applied; only a
\* run that reports status and is not dry waits, for objects it applied.
OptsInv ==
    /\ pc \in {"applying", "waiting"} \/ result = "ok" => opts = toCliOptions(req)
    /\ opts \in {NoValue, toCliOptions(req)}
    /\ pc \in {"idle", "start", "applying", "waiting"} => result = "none"
    /\ pc = "waiting" => opts.emit /\ ~opts.dry /\ prepareDocuments \subseteq sent

\* What is as asked for has been seen by the observer, and the cache is a state the
\* cluster was in since the poller started: an object seen there in the generation
\* that its apply made was so after its apply.
CacheInv ==
    /\ pc \in {"applying", "waiting"} =>
         \A o \in Objects :
             AsAsked(o, cluster[o]) => reached[o] # "no" /\ (o \in sent => reached[o] = "after")
    /\ cache # NoValue =>
         \A o \in Objects :
             /\ cache[o].gen \in Nat /\ cache[o].gen <= cluster[o].gen
             /\ AsAsked(o, cache[o]) => reached[o] # "no"
             /\ o \in renewed /\ applied[o] <= cache[o].gen /\ AsAsked(o, cache[o])
                   => reached[o] = "after"

\* The failed requests of a run that goes on are few.
ErrorInv == pc # "done" => errors <= allowedApplyErrors

IndInv == TypeInv /\ OptsInv /\ CacheInv /\ ErrorInv /\ SuccessWasReached

-----------------------------------------------------------------------------
(* Lemmas about the status readers.                                         *)

\* A status reader says "Current" only of an object that is as asked for.
LEMMA CurrentIsAsAsked ==
    ASSUME NEW o, NEW obj, StatusReader(o, obj) = "Current"
    PROVE  AsAsked(o, obj)
<1> DEFINE cond == CondMap(req.conds, KindOf[o])
<1>1. CASE cond = NoValue
  BY <1>1 DEF StatusReader, Compute, AsAsked
<1>2. CASE cond # NoValue
  <2> HIDE DEF cond
  <2>1. ReadStatusForObject(cond, obj) = "Current"
    BY <1>2 DEF StatusReader, cond
  <2>2. Compute(obj) = "Current" /\ Match(cond, obj) = "yes"
    BY <2>1 DEF ReadStatusForObject
  <2>3. obj.state = "Current"
    BY <2>2 DEF Compute
  <2>4. cond.path \in DOMAIN obj.fields /\ cond.value \in {NoValue, obj.fields[cond.path]}
    BY <2>2 DEF Match
  <2> QED BY <2>3, <2>4 DEF AsAsked, cond
<1> QED BY <1>1, <1>2

\* What the poller reports of an object as current is in its cache, and as asked.
LEMMA ReadStatusCurrent ==
    ASSUME NEW o, ReadStatus(o).status = "Current"
    PROVE  /\ cache # NoValue /\ AsAsked(o, cache[o])
           /\ ReadStatus(o).gen = cache[o].gen
<1>1. lookupResource(o) = "found"
  BY DEF ReadStatus, handleResourceStatusError
<1>2. cache # NoValue
  BY <1>1 DEF lookupResource
<1>3. StatusReader(o, cache[o]) = "Current"
  BY <1>1 DEF ReadStatus
<1> QED BY <1>1, <1>2, <1>3, CurrentIsAsAsked DEF ReadStatus

\* Status events are asked for exactly when there is a timeout to wait for.
LEMMA Options ==
    ASSUME NEW r
    PROVE  /\ toCliOptions(r).emit = (toCliOptions(r).timeout # 0)
           /\ toCliOptions(r).dry = r.dry
<1> QED BY DEF toCliOptions

\* A duration in range is not changed by wrapping around.
LEMMA WrapInRange ==
    ASSUME NEW n \in Nat, n < HalfWidth
    PROVE  Wrap(n) = n
<1>1. HalfWidth \in Nat \ {0}
  BY DurationAssumption
<1>2. /\ n + HalfWidth \in 0..(2 * HalfWidth - 1)
      /\ 2 * HalfWidth \in Nat \ {0}
  BY <1>1
<1>3. ASSUME NEW m \in Nat \ {0}, NEW k \in 0..(m - 1) PROVE k % m = k
  BY <1>3
<1>4. (n + HalfWidth) % (2 * HalfWidth) = n + HalfWidth
  BY <1>2, <1>3
<1> QED BY <1>1, <1>4 DEF Wrap

\* The observer forgets nothing, and notes what is as asked for.
LEMMA Observed ==
    ASSUME Observe, UNCHANGED req, reached \in [Objects -> {"no", "before", "after"}]
    PROVE  /\ reached' \in [Objects -> {"no", "before", "after"}]
           /\ \A o \in Objects :
                /\ AsAsked(o, cluster[o])' \/ reached[o] # "no" => reached'[o] # "no"
                /\ o \in sent' /\ (AsAsked(o, cluster[o])' \/ reached[o] = "after")
                      => reached'[o] = "after"
<1>1. \A o \in Objects : AsAsked(o, cluster[o])' = AsAsked(o, cluster'[o])
  BY DEF AsAsked
<1>2. \A o \in Objects :
        reached'[o] = IF ~AsAsked(o, cluster'[o]) THEN reached[o]
                      ELSE IF o \in sent' THEN "after" ELSE "before"
  BY DEF Observe
<1>3. reached' \in [Objects -> {"no", "before", "after"}]
  BY <1>2 DEF Observe
<1> QED
  BY <1>1, <1>2, <1>3

-----------------------------------------------------------------------------
\* Nothing is applied, nothing cached.
LEMMA InitInd == Init => IndInv
<1> SUFFICES ASSUME Init PROVE IndInv OBVIOUS
<1>0. PICK spec \in [Objects -> {"none", "old", "asked"}] :
        cluster = [o \in Objects |-> Known(o, spec[o])]
  BY DEF Init
<1>1. \A o \in Objects : IsObject(cluster[o])
  BY <1>0 DEF Known, IsObject
<1>2. applied = [o \in Objects |-> 0] /\ cluster = [q \in Objects |-> cluster[q]]
  BY <1>0 DEF Init
<1>3. TypeInv
  BY <1>1, <1>2 DEF Init, TypeInv, TypeOK, allowedApplyErrors
<1>4. OptsInv /\ ErrorInv /\ SuccessWasReached
  BY DEF Init, OptsInv, ErrorInv, SuccessWasReached, allowedApplyErrors
<1>5. CacheInv
  BY DEF Init, CacheInv
<1> QED BY <1>3, <1>4, <1>5 DEF IndInv

\* The steps of the phase that leave the cluster and what is known of it alone.
LEMMA PhaseSteps ==
    ASSUME IndInv, Run \/ Wait \/ Deadline
    PROVE  IndInv'
<1> USE DEF Run, Wait, Deadline
<1>1. TypeInv'
  BY DEF IndInv, TypeInv, TypeOK, prepareDocuments
<1>2. CacheInv'
  BY DEF IndInv, CacheInv, AsAsked
<1>3. OptsInv'
  BY DEF IndInv, OptsInv, prepareDocuments
<1>4. ErrorInv'
  BY DEF IndInv, TypeInv, TypeOK, OptsInv, ErrorInv, allowedApplyErrors
<1>5. SuccessWasReached'
  <2>1. pc = "applying" => (opts.emit <=> opts.timeout # 0) /\ (opts.dry <=> req.dry)
    BY Options DEF IndInv, OptsInv
  <2> QED BY <2>1 DEF IndInv, OptsInv, SuccessWasReached, prepareDocuments
<1> QED BY <1>1, <1>2, <1>3, <1>4, <1>5 DEF IndInv

\* The poller starts, and the observer with it.
LEMMA FnRunStep == IndInv /\ FnRun => IndInv'
<1> SUFFICES ASSUME IndInv, FnRun PROVE IndInv' OBVIOUS
<1> USE DEF FnRun
<1>1. /\ UNCHANGED <<req, cluster, sent, applied, cache, renewed>>
      /\ reached \in [Objects -> {"no", "before", "after"}] /\ renewed \subseteq sent
  BY DEF IndInv, TypeInv, TypeOK
<1>2. /\ reached' \in [Objects -> {"no", "before", "after"}]
      /\ \A o \in Objects :
           /\ AsAsked(o, cluster[o])' \/ reached[o] # "no" => reached'[o] # "no"
           /\ o \in sent' /\ (AsAsked(o, cluster[o])' \/ reached[o] = "after")
                 => reached'[o] = "after"
  BY <1>1, Observed
<1>3. TypeInv'
  BY <1>1, <1>2 DEF IndInv, TypeInv, TypeOK, prepareDocuments
<1>4. CacheInv'
  <2>1. \A o \in Objects : cache # NoValue => (AsAsked(o, cache[o])' <=> AsAsked(o, cache[o]))
    BY <1>1 DEF AsAsked
  <2> QED BY <1>1, <1>2, <2>1 DEF IndInv, CacheInv
<1>5. OptsInv' /\ ErrorInv' /\ SuccessWasReached'
  BY <1>1 DEF IndInv, OptsInv, ErrorInv, SuccessWasReached, prepareDocuments
<1> QED BY <1>3, <1>4, <1>5 DEF IndInv

\* What an apply does to the object and to the others.
LEMMA ApplyEffect ==
    ASSUME IndInv, NEW o \in Objects, Apply(o), sent' # sent
    PROVE  /\ o \in prepareDocuments \ sent /\ sent' = sent \cup {o}
           /\ UNCHANGED <<pc, req, opts, result, cache, errors, age>> /\ Observe
           /\ cluster' = [q \in Objects |-> cluster'[q]]
           /\ \A q \in Objects : IsObject(cluster'[q]) /\ cluster[q].gen <= cluster'[q].gen
           /\ \A q \in Objects \ {o} : cluster'[q] = cluster[q] /\ applied'[q] = applied[q]
           /\ applied' \in [Objects -> Nat] /\ applied'[o] = cluster'[o].gen
           /\ renewed' = IF cluster'[o].gen > cluster[o].gen THEN renewed \cup {o} ELSE renewed
<1>1. /\ o \in prepareDocuments \ sent /\ sent' = sent \cup {o}
      /\ UNCHANGED <<pc, req, opts, result, cache, errors, age>> /\ Observe
      /\ applied' = [applied EXCEPT ![o] = cluster'[o].gen]
      /\ renewed' = IF cluster'[o].gen > cluster[o].gen THEN renewed \cup {o} ELSE renewed
  BY DEF Apply
<1>2. PICK s : cluster' = [cluster EXCEPT ![o] =
                 [spec |-> "asked", state |-> s, fields |-> @.fields,
                  gen |-> IF @.spec # "asked" /\ o \in Versioned THEN @.gen + 1 ELSE @.gen]]
  BY DEF Apply
<1>3. /\ cluster = [q \in Objects |-> cluster[q]] /\ applied \in [Objects -> Nat]
      /\ \A q \in Objects : IsObject(cluster[q]) /\ cluster[q].gen \in Nat
  BY DEF IndInv, TypeInv, IsObject
<1>4. /\ cluster' = [q \in Objects |-> cluster'[q]]
      /\ \A q \in Objects \ {o} : cluster'[q] = cluster[q]
  BY <1>2, <1>3
<1>5. cluster'[o] = [spec |-> "asked", state |-> s, fields |-> cluster[o].fields,
                     gen |-> IF cluster[o].spec # "asked" /\ o \in Versioned
                             THEN cluster[o].gen + 1 ELSE cluster[o].gen]
  BY <1>2, <1>3
<1>6. IsObject(cluster'[o]) /\ cluster[o].gen <= cluster'[o].gen /\ cluster'[o].gen \in Nat
  BY <1>3, <1>5 DEF IsObject
<1> QED
  BY <1>1, <1>3, <1>4, <1>6

\* An object whose apply made a new generation is new to the cache.
LEMMA ApplyStep ==
    ASSUME IndInv, NEW o \in Objects, Apply(o)
    PROVE  IndInv'
<1>1. CASE sent' = sent
  <2>1. /\ UNCHANGED <<req, opts, cluster, sent, applied, cache, errors, age, renewed, reached>>
        /\ pc = "applying" /\ pc' = "done" /\ result' = "error"
    BY <1>1 DEF Apply
  <2>2. TypeInv' /\ CacheInv'
    BY <2>1 DEF IndInv, TypeInv, TypeOK, CacheInv, AsAsked, prepareDocuments
  <2>3. OptsInv' /\ SuccessWasReached' /\ ErrorInv'
    BY <2>1 DEF IndInv, OptsInv, SuccessWasReached, prepareDocuments, ErrorInv
  <2> QED BY <2>2, <2>3 DEF IndInv
<1>2. CASE sent' # sent
  <2>1. /\ o \in prepareDocuments \ sent /\ sent' = sent \cup {o}
        /\ UNCHANGED <<pc, req, opts, result, cache, errors, age>> /\ Observe
        /\ cluster' = [q \in Objects |-> cluster'[q]]
        /\ \A q \in Objects : IsObject(cluster'[q]) /\ cluster[q].gen <= cluster'[q].gen
        /\ \A q \in Objects \ {o} : cluster'[q] = cluster[q] /\ applied'[q] = applied[q]
        /\ applied' \in [Objects -> Nat] /\ applied'[o] = cluster'[o].gen
        /\ renewed' = IF cluster'[o].gen > cluster[o].gen THEN renewed \cup {o} ELSE renewed
    BY <1>2, ApplyEffect
  <2>2. /\ reached \in [Objects -> {"no", "before", "after"}] /\ renewed \subseteq sent
        /\ sent \subseteq prepareDocuments /\ \A q \in sent : applied[q] <= cluster[q].gen
        /\ \A q \in Objects : cluster[q].gen \in Nat
    BY DEF IndInv, TypeInv, TypeOK, IsObject
  <2>3. /\ reached' \in [Objects -> {"no", "before", "after"}]
        /\ \A q \in Objects :
             /\ AsAsked(q, cluster[q])' \/ reached[q] # "no" => reached'[q] # "no"
             /\ q \in sent' /\ (AsAsked(q, cluster[q])' \/ reached[q] = "after")
                   => reached'[q] = "after"
    BY <2>1, <2>2, Observed
  <2>4. TypeInv'
    <3>1. \A q \in sent' : applied'[q] <= cluster'[q].gen
      <4>1. applied'[o] <= cluster'[o].gen
        BY <2>1 DEF IsObject
      <4>2. ASSUME NEW q \in sent \ {o} PROVE applied'[q] <= cluster'[q].gen
        BY <2>1, <2>2, <4>2 DEF prepareDocuments
      <4> QED BY <2>1, <4>1, <4>2
    <3>2. prepareDocuments' = prepareDocuments
      BY DEF prepareDocuments
    <3>3. renewed' \subseteq sent' /\ sent' \subseteq prepareDocuments'
      BY <2>1, <2>2, <3>2
    <3> QED BY <2>1, <2>3, <3>1, <3>3 DEF IndInv, TypeInv, TypeOK
  <2>5. CacheInv'
    <3>1. ASSUME cache # NoValue, NEW q \in Objects
          PROVE  /\ cache[q].gen \in Nat /\ cache[q].gen <= cluster'[q].gen
                 /\ AsAsked(q, cache[q])' => reached'[q] # "no"
                 /\ q \in renewed' /\ applied'[q] <= cache[q].gen /\ AsAsked(q, cache[q])'
                       => reached'[q] = "after"
      <4>1. AsAsked(q, cache[q])' <=> AsAsked(q, cache[q])
        BY <2>1 DEF AsAsked
      <4>2. /\ cache[q].gen \in Nat /\ cache[q].gen <= cluster[q].gen
            /\ AsAsked(q, cache[q]) => reached[q] # "no"
            /\ q \in renewed /\ applied[q] <= cache[q].gen /\ AsAsked(q, cache[q])
                  => reached[q] = "after"
        BY <3>1 DEF IndInv, CacheInv
      <4>3. cluster'[q].gen \in Nat /\ cluster[q].gen \in Nat /\ cluster[q].gen <= cluster'[q].gen
        BY <2>1, <2>2 DEF IsObject
      <4>4. CASE q # o
        BY <2>1, <2>2, <2>3, <4>1, <4>2, <4>3, <4>4
      <4>5. CASE q = o
        <5>1. o \in renewed' => applied'[o] > cache[o].gen
          BY <2>1, <2>2, <4>2, <4>3, <4>5
        <5>2. applied'[o] \in Nat
          BY <2>1
        <5> QED BY <2>3, <4>1, <4>2, <4>3, <4>5, <5>1, <5>2
      <4> QED BY <4>4, <4>5
    <3> QED BY <2>1, <2>3, <3>1 DEF CacheInv
  <2>6. OptsInv' /\ ErrorInv'
    BY <2>1 DEF IndInv, OptsInv, ErrorInv, prepareDocuments
  <2>7. SuccessWasReached'
    <3>1. pc = "applying"
      BY DEF Apply
    <3> QED BY <2>1, <3>1 DEF IndInv, OptsInv, SuccessWasReached
  <2> QED BY <2>4, <2>5, <2>6, <2>7 DEF IndInv
<1> QED BY <1>1, <1>2

\* The cache becomes the cluster, or stays and is one request older.
LEMMA SyncStep == IndInv /\ Sync => IndInv'
<1> SUFFICES ASSUME IndInv, Sync PROVE IndInv' OBVIOUS
<1> USE DEF Sync
<1>1. TypeInv'
  BY DEF IndInv, TypeInv, TypeOK, ErrorInv, allowedApplyErrors, prepareDocuments
<1>2. CacheInv'
  <2>1. /\ \A o \in Objects : cluster[o].gen \in Nat /\ applied[o] \in Nat
        /\ renewed \subseteq sent
    BY DEF IndInv, TypeInv, TypeOK, IsObject
  <2>2. CASE cache' = cache
    BY <2>2 DEF IndInv, CacheInv, AsAsked
  <2>3. CASE cache' = cluster
    BY <2>1, <2>3 DEF IndInv, CacheInv, AsAsked
  <2> QED BY <2>2, <2>3
<1>3. OptsInv' /\ SuccessWasReached'
  BY DEF IndInv, OptsInv, SuccessWasReached, prepareDocuments
<1>4. ErrorInv'
  BY DEF IndInv, TypeInv, TypeOK, ErrorInv, Tolerated, allowedApplyErrors
<1> QED BY <1>1, <1>2, <1>3, <1>4 DEF IndInv

\* The wait ends well: every object was seen as asked for after its apply.
LEMMA WaitDoneStep == IndInv /\ WaitDone => IndInv'
<1> SUFFICES ASSUME IndInv, WaitDone PROVE IndInv' OBVIOUS
<1> USE DEF WaitDone
<1>1. TypeInv' /\ OptsInv' /\ ErrorInv'
  BY DEF IndInv, TypeInv, TypeOK, OptsInv, ErrorInv, prepareDocuments
<1>2. CacheInv'
  BY DEF IndInv, CacheInv, AsAsked
<1>3. ASSUME NEW o \in prepareDocuments
      PROVE  reached[o] \in {"after"} \cup (IF o \in renewed THEN {} ELSE {"before"})
  <2>1. ReadStatus(o).status = "Current" /\ ReadStatus(o).gen >= applied[o]
    BY <1>3 DEF AllCurrent
  <2>2. o \in Objects /\ applied[o] \in Nat /\ reached[o] \in {"no", "before", "after"}
    BY <1>3 DEF IndInv, TypeInv, TypeOK, prepareDocuments
  <2>3. cache # NoValue /\ AsAsked(o, cache[o]) /\ cache[o].gen >= applied[o]
    BY <2>1, ReadStatusCurrent
  <2>4. cache[o].gen \in Nat
    BY <2>2, <2>3 DEF IndInv, CacheInv
  <2> QED BY <2>2, <2>3, <2>4 DEF IndInv, CacheInv
<1>4. SuccessWasReached'
  BY <1>3 DEF SuccessWasReached, prepareDocuments
<1> QED BY <1>1, <1>2, <1>4 DEF IndInv

\* A controller changes an object, and what it brings about is noted.
LEMMA ControllerStep ==
    ASSUME IndInv, NEW o \in Objects, Controller(o)
    PROVE  IndInv'
<1> USE DEF Controller
<1>0. /\ IsObject(cluster[o]) /\ cluster = [q \in Objects |-> cluster[q]]
      /\ reached \in [Objects -> {"no", "before", "after"}] /\ renewed \subseteq sent
      /\ UNCHANGED <<req, opts, pc, sent, applied, cache, errors, result, age, renewed>>
  BY DEF IndInv, TypeInv, TypeOK
<1>1. /\ cluster' = [q \in Objects |-> cluster'[q]]
      /\ \A q \in Objects : IsObject(cluster'[q]) /\ cluster'[q].gen = cluster[q].gen
  <2>1. ASSUME NEW s, cluster' = [cluster EXCEPT ![o].state = s]
        PROVE  /\ cluster' = [q \in Objects |-> cluster'[q]]
               /\ \A q \in Objects : IsObject(cluster'[q]) /\ cluster'[q].gen = cluster[q].gen
    BY <1>0, <2>1 DEF IndInv, TypeInv, IsObject
  <2>2. ASSUME NEW f, cluster' = [cluster EXCEPT ![o].fields = f]
        PROVE  /\ cluster' = [q \in Objects |-> cluster'[q]]
               /\ \A q \in Objects : IsObject(cluster'[q]) /\ cluster'[q].gen = cluster[q].gen
    BY <1>0, <2>2 DEF IndInv, TypeInv, IsObject
  <2>3. \/ \E s : cluster' = [cluster EXCEPT ![o].state = s]
        \/ \E f : cluster' = [cluster EXCEPT ![o].fields = f]
    OBVIOUS
  <2> QED BY <2>1, <2>2, <2>3
<1>2. /\ reached' \in [Objects -> {"no", "before", "after"}]
      /\ \A q \in Objects : reached[q] # "no" => reached'[q] # "no"
      /\ \A q \in sent \cap Objects : reached[q] = "after" => reached'[q] = "after"
      /\ pc \in {"applying", "waiting"} =>
           \A q \in Objects : AsAsked(q, cluster[q])' =>
               reached'[q] # "no" /\ (q \in sent => reached'[q] = "after")
  <2>1. CASE Observe
    BY <1>0, <2>1, Observed
  <2>2. CASE ~Observe
    BY <1>0, <2>2
  <2> QED BY <2>1, <2>2
<1>3. TypeInv'
  BY <1>0, <1>1, <1>2 DEF IndInv, TypeInv, TypeOK, prepareDocuments
<1>4. CacheInv'
  <2>1. \A q \in Objects : cache # NoValue => (AsAsked(q, cache[q])' <=> AsAsked(q, cache[q]))
    BY <1>0 DEF AsAsked
  <2> QED BY <1>0, <1>1, <1>2, <2>1 DEF IndInv, CacheInv
<1>5. OptsInv' /\ ErrorInv'
  BY <1>0 DEF IndInv, OptsInv, ErrorInv, prepareDocuments
<1>6. SuccessWasReached'
  <2>1. result # "ok"
    BY DEF IndInv, TypeInv, TypeOK, OptsInv
  <2> QED BY <1>0, <2>1 DEF SuccessWasReached
<1> QED BY <1>3, <1>4, <1>5, <1>6 DEF IndInv

-----------------------------------------------------------------------------
\* Every step keeps the invariant.
LEMMA NextInd == IndInv /\ [Next]_vars => IndInv'
<1> SUFFICES ASSUME IndInv, [Next]_vars PROVE IndInv' OBVIOUS
<1>1. CASE Run \/ FnRun \/ Wait \/ Deadline
  BY <1>1, PhaseSteps, FnRunStep
<1>2. CASE Sync
  BY <1>2, SyncStep
<1>3. CASE WaitDone
  BY <1>3, WaitDoneStep
<1>4. ASSUME NEW o \in Objects, Apply(o) \/ Controller(o) PROVE IndInv'
  BY <1>4, ApplyStep, ControllerStep
<1>5. CASE UNCHANGED vars
  BY <1>5 DEF vars, IndInv, TypeInv, TypeOK, OptsInv, CacheInv, ErrorInv, SuccessWasReached,
              AsAsked, prepareDocuments
<1> QED BY <1>1, <1>2, <1>3, <1>4, <1>5 DEF Next, Finished

\* It holds in every state of every phase.
LEMMA Inductive == Spec => []IndInv
<1> QED BY InitInd, NextInd, PTL DEF Spec

-----------------------------------------------------------------------------
\* Counters stay small, and what was applied is never ahead of the cluster.
THEOREM ApplierTypeCorrect == Spec => []TypeOK
<1>1. IndInv => TypeOK BY DEF IndInv, TypeInv
<1> QED BY <1>1, Inductive, PTL

\* A phase that is given a timeout and succeeds has seen every object as its document
\* asks: after its apply when that made a new generation, since the poller started when
\* it was applied unchanged or has no generation (status.go:80).
THEOREM ApplierSuccessWasReached == Spec => []SuccessWasReached
<1>1. IndInv => SuccessWasReached BY DEF IndInv
<1> QED BY <1>1, Inductive, PTL

\* The wait never relies on a cache that more than three requests have failed to
\* refresh (cluster_reader.go:25).
THEOREM ApplierStatusNotTooOld == Spec => []StatusNotTooOld
<1>1. IndInv => StatusNotTooOld
  BY DEF IndInv, TypeInv, TypeOK, ErrorInv, StatusNotTooOld, allowedApplyErrors
<1> QED BY <1>1, Inductive, PTL

\* A timeout given in the document, without the flag, is waited for as long as it
\* says; only the flag and seconds beyond the range of a duration are not
\* (k8s_applier.go:117).
THEOREM ApplierDocumentTimeoutKept == Spec => []DocumentTimeoutKept
<1>1. IndInv => DocumentTimeoutKept
  <2> SUFFICES ASSUME IndInv, opts # NoValue, req.flag = NoFlag, req.doc \in Nat,
                      UnitsPerSecond * req.doc < HalfWidth
               PROVE  opts.timeout = UnitsPerSecond * req.doc
    BY DEF DocumentTimeoutKept
  <2>1. opts = toCliOptions(req)
    BY DEF IndInv, OptsInv
  <2>2. opts.timeout = Wrap(UnitsPerSecond * req.doc)
    BY <2>1 DEF toCliOptions, ConfigTimeout
  <2>3. UnitsPerSecond * req.doc \in Nat
    BY DurationAssumption
  <2> QED BY <2>2, <2>3, WrapInRange
<1> QED BY <1>1, Inductive, PTL

-----------------------------------------------------------------------------
(* A phase ends.                                                            *)

\* How far the phase is from its end.
PhaseStage ==
    CASE pc = "idle"     -> 4
      [] pc = "start"    -> 3
      [] pc = "applying" -> 2
      [] pc = "waiting"  -> 1
      [] OTHER           -> 0

\* One object more is applied, and none a second time.
AppliesOne ==
    \E o \in prepareDocuments \ sent : sent' = sent \cup {o}

PhaseDescends ==
    \/ PhaseStage' < PhaseStage
    \/ PhaseStage' = PhaseStage /\ AppliesOne
    \/ /\ Sync \/ \E o \in Objects : Controller(o)
       /\ UNCHANGED <<pc, sent>>

\* A phase only waits when its wait has a deadline: without a timeout there are no
\* status events, and the phase does not wait.
WaitHasDeadline == pc = "waiting" => opts.timeout # 0

LEMMA WaitDeadline == IndInv => WaitHasDeadline
<1> SUFFICES ASSUME IndInv, pc = "waiting" PROVE opts.timeout # 0
  BY DEF WaitHasDeadline
<1>1. opts = toCliOptions(req) /\ opts.emit
  BY DEF IndInv, OptsInv
<1> QED
  BY <1>1, Options

LEMMA PhaseDescendsStep ==
    ASSUME IndInv, [Next]_vars PROVE [PhaseDescends]_vars
<1>1. CASE Run \/ FnRun \/ Wait \/ WaitDone \/ Deadline
  BY <1>1 DEF Run, FnRun, Wait, WaitDone, Deadline, PhaseDescends, PhaseStage
<1>2. CASE Sync
  <2>1. UNCHANGED sent /\ (UNCHANGED pc \/ (pc \in {"applying", "waiting"} /\ pc' = "done"))
    BY <1>2 DEF Sync
  <2> QED
    BY <1>2, <2>1 DEF PhaseDescends, PhaseStage
<1>3. ASSUME NEW o \in Objects, Controller(o) PROVE PhaseDescends
  BY <1>3 DEF Controller, PhaseDescends
<1>4. ASSUME NEW o \in Objects, Apply(o) PROVE PhaseDescends
  <2>1. CASE pc' = "done"
    BY <1>4, <2>1 DEF Apply, PhaseDescends, PhaseStage
  <2>2. CASE pc' # "done"
    <3>1. pc' = pc /\ AppliesOne
      BY <1>4, <2>2 DEF Apply, AppliesOne
    <3> QED
      BY <3>1 DEF PhaseDescends, PhaseStage
  <2> QED
    BY <2>1, <2>2
<1>5. CASE Finished \/ UNCHANGED vars
  BY <1>5 DEF Finished
<1> QED
  BY <1>1, <1>2, <1>3, <1>4, <1>5 DEF Next

\* A phase cannot run on for ever (main.go:134): every step of its own brings it closer
\* to its end or applies an object that was not applied before, and when it waits it has
\* a deadline, whatever the cluster and its controllers do.  That a request of it is
\* answered is not said.
THEOREM ApplierPhasesDescend == Spec => []WaitHasDeadline /\ [][PhaseDescends]_vars
BY WaitDeadline, PhaseDescendsStep, Inductive, PTL DEF Spec

=============================================================================
