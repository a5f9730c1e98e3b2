------------------------------- MODULE Applier -------------------------------
(***************************************************************************)
(* A kubernetes-apply phase: the executor turns flags and document into    *)
(* options (pkg/phase/executors/k8s_applier.go), the applier function      *)
(* applies the objects and waits for them (krm-functions/applier), and its *)
(* poller reads their status through a cache that survives a few failed    *)
(* requests.  Applying, the poll loop and the wait are cli-utils, modelled *)
(* from how the function uses them; the controllers of the cluster work at *)
(* any time.                                                               *)
(*                                                                         *)
(* Durations are numbers of units, a second has UnitsPerSecond of them     *)
(* (nanoseconds in the program), and a duration wraps around at            *)
(* +-HalfWidth (2^63).                                                     *)
(***************************************************************************)
EXTENDS Integers, Sequences, FiniteSets

CONSTANTS
    Objects,         \* names of the objects of the phase
    KindOf,          \* their kinds
    Versioned,       \* those of a kind whose generation the API server counts
    Deployed,        \* those not labelled as staying out of the cluster
    Requests,        \* phase runs: flags and document
    UnitsPerSecond, HalfWidth,
    NoFlag,          \* --wait-timeout was not given
    NoValue,         \* no such field, no cache, no value
    MaxChanges       \* bound: changes by the controllers

ASSUME DurationAssumption ==
    UnitsPerSecond \in Nat \ {0} /\ HalfWidth \in Nat \ {0} /\ MaxChanges \in Nat

allowedApplyErrors == 3

VARIABLES
    req,       \* flag, doc (seconds), dry, prune and conditions of the run
    opts,      \* the options of the applier
    pc,
    cluster,   \* cluster[o]: specification, generation, state and field values
    sent,      \* objects that were applied
    applied,   \* applied[o]: the generation its apply returned
    cache,     \* what the poller has read
    errors,    \* requests that timed out since the poller was made
    result,
    age,       \* observer: failed requests since the cache was filled
    renewed,   \* observer: objects whose apply made a new generation
    reached,   \* observer: whether an object was as asked for since the poller
               \* started, and whether after its apply
    changes

vars == <<req, opts, pc, cluster, sent, applied, cache, errors, result, age, renewed, reached,
          changes>>

-----------------------------------------------------------------------------
(* Options.                                                                 *)

Wrap(n) == ((n + HalfWidth) % (2 * HalfWidth)) - HalfWidth

\* KubeApplierExecutor.Run: the flag, a duration, replaces the number of
\* seconds of the document.
ConfigTimeout(r) == IF r.flag = NoFlag THEN r.doc ELSE r.flag

toCliOptions(r) ==
    LET timeout == Wrap(UnitsPerSecond * ConfigTimeout(r))
    IN  [timeout |-> timeout, emit |-> timeout # 0, noPrune |-> ~r.prune, dry |-> r.dry]

\* The documents that go to the cluster.
prepareDocuments == Objects \cap Deployed

-----------------------------------------------------------------------------
(* Status of an object.                                                     *)

\* The expression for a kind: of several conditions for it, the last.
CondMap(conds, kind) ==
    LET at == {n \in 1..Len(conds) : conds[n].kind = kind}
    IN  IF at = {} THEN NoValue ELSE conds[CHOOSE n \in at : \A k \in at : k <= n]

\* A field that is not there is an error; without a value, that it is there is
\* enough.
Match(cond, obj) ==
    IF cond.path \notin DOMAIN obj.fields THEN "error"
    ELSE IF cond.value \in {NoValue, obj.fields[cond.path]} THEN "yes" ELSE "no"

\* The status that kstatus computes from the object itself.
Compute(obj) == IF obj.state = "Broken" THEN "Unknown" ELSE obj.state

\* The reader for kinds with a condition: it counts once the object is current.
ReadStatusForObjectMutant(cond, obj) ==
    IF Compute(obj) # "Current" \/ Match(cond, obj) = "error" THEN Compute(obj)
    ELSE IF Match(cond, obj) = "yes" THEN "Current" ELSE "InProgress"
ReadStatusForObject(cond, obj) ==
    IF Compute(obj) # "Current" THEN Compute(obj)
    ELSE CASE Match(cond, obj) = "error" -> "Unknown"
           [] Match(cond, obj) = "yes"   -> "Current"
           [] OTHER                      -> "InProgress"

\* The readers of the poller: kinds without a condition have the default one.
StatusReader(o, obj) ==
    LET cond == CondMap(req.conds, KindOf[o])
    IN  IF cond = NoValue THEN Compute(obj) ELSE ReadStatusForObject(cond, obj)

\* Objects come from the cache, which may not have been filled yet.
lookupResource(o) ==
    IF cache = NoValue THEN "no cache" ELSE IF cache[o].spec = "none" THEN "not found" ELSE "found"

handleResourceStatusError(err) ==
    [status |-> IF err = "not found" THEN "NotFound" ELSE "Unknown", gen |-> 0]

\* Every turn of the poller reports what has changed, so that this is also the
\* last event of the object.
ReadStatus(o) ==
    IF lookupResource(o) # "found" THEN handleResourceStatusError(lookupResource(o))
    ELSE [status |-> StatusReader(o, cache[o]), gen |-> cache[o].gen]

\* What was asked for of an object: current, and its condition.
AsAsked(o, obj) ==
    /\ obj.state = "Current"
    /\ LET cond == CondMap(req.conds, KindOf[o])
       IN  cond # NoValue =>
             /\ cond.path \in DOMAIN obj.fields
             /\ cond.value \in {NoValue, obj.fields[cond.path]}

\* The observer looks at the cluster.
Observe ==
    reached' = [o \in Objects |->
                   IF ~AsAsked(o, cluster'[o]) THEN reached[o]
                   ELSE IF o \in sent' THEN "after" ELSE "before"]

-----------------------------------------------------------------------------
TypeOK ==
    /\ req \in Requests
    /\ pc \in {"idle", "start", "applying", "waiting", "done"}
    /\ errors \in 0..(allowedApplyErrors + 1) /\ age \in 0..errors
    /\ renewed \subseteq sent /\ sent \subseteq prepareDocuments
    /\ reached \in [Objects -> {"no", "before", "after"}]
    /\ \A o \in sent : applied[o] <= cluster[o].gen

\* An object is new, was there before with another specification, or is as the
\* documents have it.
Known(o, spec) ==
    [spec |-> IF o \in Deployed THEN spec ELSE "none",
     gen |-> IF o \in Versioned \cap Deployed /\ spec # "none" THEN 1 ELSE 0,
     state |-> IF o \in Deployed /\ spec # "none" THEN "Current" ELSE "InProgress",
     fields |-> <<>>]
Init ==
    /\ req \in Requests /\ opts = NoValue /\ pc = "idle"
    /\ \E spec \in [Objects -> {"none", "old", "asked"}] :
         cluster = [o \in Objects |-> Known(o, spec[o])]
    /\ sent = {} /\ applied = [o \in Objects |-> 0] /\ cache = NoValue /\ errors = 0
    /\ result = "none" /\ age = 0 /\ renewed = {} /\ changes = 0
    /\ reached = [o \in Objects |-> "no"]

\* The executor: kubeconfig and documents are prepared, or the phase fails.
Run ==
    /\ pc = "idle"
    /\ \/ pc' = "start" /\ result' = result
       \/ pc' = "done" /\ result' = "error"
    /\ UNCHANGED <<req, opts, cluster, sent, applied, cache, errors, age, renewed, reached, changes>>

\* The function: clients, poller and inventory object are made; an inventory
\* that is missing or doubled is replaced by a generated one.  The error of
\* NewApplier is overwritten, and the applier that was not made is used.
FnRun ==
    /\ pc = "start"
    /\ \/ pc' = "applying" /\ opts' = toCliOptions(req) /\ result' = result
       \/ pc' = "done" /\ opts' = opts /\ result' = "error"
       \/ pc' = "done" /\ opts' = toCliOptions(req) /\ result' = "panic"
    /\ UNCHANGED <<req, cluster, sent, applied, cache, errors, age, renewed, changes>>
    /\ Observe

\* One object is applied; a dry run sends it and keeps nothing.  Only a change
\* of a kind that has generations makes a new one; what kstatus computes of a
\* changed object before its controller has looked at it depends on the kind.
Apply(o) ==
    /\ pc = "applying" /\ o \in prepareDocuments \ sent /\ ~opts.dry
    /\ \/ /\ \E s \in {cluster[o].state} \cup
                       (IF cluster[o].spec = "asked" THEN {} ELSE {"InProgress", "Current"}) :
               cluster' = [cluster EXCEPT ![o] =
                             [spec |-> "asked", state |-> s, fields |-> @.fields,
                              gen |-> IF @.spec # "asked" /\ o \in Versioned THEN @.gen + 1
                                      ELSE @.gen]]
          /\ applied' = [applied EXCEPT ![o] = cluster'[o].gen]
          /\ sent' = sent \cup {o}
          /\ renewed' = IF cluster'[o].gen > cluster[o].gen THEN renewed \cup {o} ELSE renewed
          /\ Observe
          /\ UNCHANGED <<pc, result>>
       \/ /\ pc' = "done" /\ result' = "error"
          /\ UNCHANGED <<cluster, sent, applied, renewed, reached>>
    /\ UNCHANGED <<req, opts, cache, errors, age, changes>>

\* Everything is applied: without status events there is nothing to wait for.
Wait ==
    /\ pc = "applying" /\ (prepareDocuments \subseteq sent \/ opts.dry)
    /\ IF opts.emit /\ ~opts.dry THEN pc' = "waiting" /\ result' = result
       ELSE pc' = "done" /\ result' = "ok"
    /\ UNCHANGED <<req, opts, cluster, sent, applied, cache, errors, age, renewed, reached, changes>>

\* CachingClusterReader.Sync, in each turn of the poller, which starts before the
\* first object is applied: a few requests that time out are passed over, and
\* the cache stays as it was.
ToleratedMutant(n) == TRUE
Tolerated(n) == n <= allowedApplyErrors
Sync ==
    /\ pc \in {"applying", "waiting"} /\ opts.emit /\ ~opts.dry
    /\ \/ /\ cache' = cluster /\ age' = 0 /\ errors' = errors /\ UNCHANGED <<pc, result>>
       \/ /\ errors' = errors + 1 /\ Tolerated(errors + 1)
          /\ cache' = cache /\ age' = age + 1 /\ UNCHANGED <<pc, result>>
       \/ /\ errors' = errors + 1 /\ ~Tolerated(errors + 1)
          /\ pc' = "done" /\ result' = "sync_timeout" /\ UNCHANGED <<cache, age>>
       \/ pc' = "done" /\ result' = "sync_error" /\ UNCHANGED <<cache, age, errors>>
    /\ UNCHANGED <<req, opts, cluster, sent, applied, renewed, reached, changes>>

\* The wait ends when every object is current in the generation that was
\* applied, or at the deadline.
AllCurrent ==
    \A o \in prepareDocuments :
        ReadStatus(o).status = "Current" /\ ReadStatus(o).gen >= applied[o]

WaitDone ==
    /\ pc = "waiting"
    /\ AllCurrent /\ pc' = "done" /\ result' = "ok"
    /\ UNCHANGED <<req, opts, cluster, sent, applied, cache, errors, age, renewed, reached, changes>>

Deadline ==
    /\ pc = "waiting" /\ opts.timeout # 0 /\ pc' = "done" /\ result' = "timeout"
    /\ UNCHANGED <<req, opts, cluster, sent, applied, cache, errors, age, renewed, reached, changes>>

\* A controller changes the state or a field of an object.
Controller(o) ==
    /\ cluster[o].spec # "none" /\ pc # "done" /\ changes < MaxChanges /\ changes' = changes + 1
    /\ \/ \E s \in {"InProgress", "Current", "Broken"} \ {cluster[o].state} :
            cluster' = [cluster EXCEPT ![o].state = s]
       \/ \E n \in 1..Len(req.conds) : \E v \in {req.conds[n].value, "other"} :
            /\ req.conds[n].kind = KindOf[o]
            /\ cluster' = [cluster EXCEPT ![o].fields =
                             [q \in DOMAIN @ \cup {req.conds[n].path} |->
                                 IF q = req.conds[n].path THEN v ELSE @[q]]]
    /\ UNCHANGED <<req, opts, pc, sent, applied, cache, errors, result, age, renewed>>
    /\ IF pc \in {"applying", "waiting"} THEN Observe ELSE reached' = reached

Finished == pc = "done" /\ UNCHANGED vars

Next ==
    \/ Run \/ FnRun \/ Wait \/ Sync \/ WaitDone \/ Deadline
    \/ \E o \in Objects : Apply(o) \/ Controller(o)
    \/ Finished

\* When everything is applied the program runs on, and its deadline passes.  The
\* requests before have no deadline (main.go:119), so that the API server can
\* keep the phase from getting there.
Spec ==
    /\ Init /\ [][Next]_vars
    /\ WF_vars(Wait) /\ WF_vars(Deadline)

-----------------------------------------------------------------------------
(* Properties.                                                              *)

\* A phase that is given a timeout and succeeds has seen every object as the
\* document asks: an object whose apply made a new generation after that apply,
\* so that neither the status of the older generation nor a cache kept over
\* failed requests ends the wait early; any other one since the poller started
\* (status.go:80, cluster_reader.go:58, main.go:134).
SuccessWasReached ==
    (result = "ok" /\ opts.timeout # 0 /\ ~req.dry) =>
        \A o \in prepareDocuments :
            reached[o] \in {"after"} \cup (IF o \in renewed THEN {} ELSE {"before"})

\* What the code does not keep: an object that is applied unchanged, or that has no
\* generation, can be taken for ready from a read before its apply (status.go:80).
ReachedAfterApply ==
    (result = "ok" /\ opts.timeout # 0 /\ ~req.dry) =>
        \A o \in prepareDocuments : reached[o] = "after"

\* The wait never relies on a cache that more than three requests in a row have
\* failed to refresh (cluster_reader.go:25).
StatusNotTooOld == pc = "waiting" => age <= allowedApplyErrors


\* The applier waits as long as the flag or the document says
\* (kubernetes_apply_types.go: "Timeout in seconds").
WaitsAsLongAsAsked ==
    opts # NoValue =>
        opts.timeout = IF req.flag = NoFlag THEN UnitsPerSecond * req.doc ELSE req.flag

\* Where that does hold: for a document without the flag, as long as its seconds fit
\* into a duration (k8s_applier.go:117).
DocumentTimeoutKept ==
    opts # NoValue /\ req.flag = NoFlag /\ req.doc \in Nat /\ UnitsPerSecond * req.doc < HalfWidth
        => opts.timeout = UnitsPerSecond * req.doc

=============================================================================
