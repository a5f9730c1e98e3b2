----------------------------- MODULE Documents -----------------------------
(***************************************************************************)
(* Documents, bundles and selectors (pkg/document), as every component     *)
(* that looks something up in the site manifests uses them.                *)
(*                                                                         *)
(* A document is a record with its kind (the whole GVK), name, namespace,  *)
(* labels and fields, a function from the paths it has to their values.  A *)
(* bundle is the sequence of documents kustomize built.  The unset string  *)
(* of a selector, which matches everything, is Unset.                      *)
(***************************************************************************)
EXTENDS Naturals, Sequences, FiniteSets

CONSTANTS
    Unset,     \* the empty string
    NoValue    \* what comes with an error

\* Results: a value, or the name of the error.
Value(v)   == [err |-> "", val |-> v]
Failure(e) == [err |-> e, val |-> NoValue]
Failed(r)  == r.err # ""

\* A bundle is a sequence of documents.
Docs(b) == {b[n] : n \in 1..Len(b)}
IsBundle(b) == b \in Seq(Docs(b))

\* No kind is the empty string.
ASSUME UnsetAssumption ==
    Unset \notin {"BareMetalHost", "Secret", "Phase", "PhasePlan", "ClusterMap"}

-----------------------------------------------------------------------------
(* Selectors.                                                               *)

\* What a selector requires of the labels and of the annotations of a document is one
\* set; a document has both in its field labels.
NewSelector == [kind |-> Unset, name |-> Unset, ns |-> Unset, labels |-> {}]

ByName(s, n)      == [s EXCEPT !.name = n]
ByNamespace(s, n) == [s EXCEPT !.ns = n]
ByKind(s, k)      == [s EXCEPT !.kind = k]

\* Label requirements add up; they are joined with a comma.
ByLabel(s, l) == [s EXCEPT !.labels = @ \cup l]

\* The selector of an API object: its kind and, if set, its name.
ByObject(obj) == ByName(ByKind(NewSelector, obj.kind), obj.name)

\* The selector of an object reference.
ByObjectReference(ref) == ByNamespace(ByName(ByKind(NewSelector, ref.kind), ref.name), ref.ns)

\* The selector of an API selector.
NewSelectorFromV1Alpha1(sel) ==
    [kind |-> sel.kind, name |-> sel.name, ns |-> sel.ns, labels |-> sel.labels]

\* A BMC secret is looked for in all namespaces.
NewBMCCredentialsSelector(n) == ByName(ByKind(NewSelector, "Secret"), n)

-----------------------------------------------------------------------------
(* Bundles.                                                                 *)

\* ResMap.Select of kustomize (external): a field that is set has to match.
Matches(s, d) ==
    /\ s.kind \in {Unset, d.kind}
    /\ s.name \in {Unset, d.name}
    /\ s.ns \in {Unset, d.ns}
    /\ s.labels \subseteq d.labels

\* The elements of s at the places in K, in their order: SelectSeq by places.
Picked(s, K) ==
    LET upTo[n \in 0..Len(s)] ==
          IF n = 0 THEN <<>>
          ELSE IF n \in K THEN Append(upTo[n - 1], s[n]) ELSE upTo[n - 1]
    IN  upTo[Len(s)]

\* The documents that match, in the order of the bundle.
Select(b, s) == Picked(b, {n \in 1..Len(b) : Matches(s, b[n])})

\* SelectBundle returns them as a bundle of their own.
SelectBundle(b, s) == Select(b, s)

\* One document and no more.
SelectOneMutant(b, s) ==
    LET found == Select(b, s)
    IN  IF found = <<>> THEN Failure("not_found") ELSE Value(Head(found))
SelectOne(b, s) ==
    LET found == {n \in 1..Len(b) : Matches(s, b[n])}
    IN  IF found = {} THEN Failure("not_found")
        ELSE IF \E m, n \in found : m # n THEN Failure("multiple")
        ELSE Value(b[CHOOSE n \in found : TRUE])

\* The documents that have the field with one of the values that satisfy the condition.
SelectByFieldValue(b, path, values) ==
    Picked(b, {n \in 1..Len(b) : path \in DOMAIN b[n].fields /\ b[n].fields[path] \in values})

\* A resource map holds one resource of an id (external).
SameId(d, e) == d.kind = e.kind /\ d.name = e.name /\ d.ns = e.ns

Append1(b, d) ==
    IF \E i \in 1..Len(b) : SameId(b[i], d) THEN Failure("duplicate")
    ELSE Value(Append(b, d))

-----------------------------------------------------------------------------
(* Fields.                                                                  *)

GetString(d, path) ==
    IF path \in DOMAIN d.fields THEN Value(d.fields[path]) ELSE Failure("no_field")

\* Base64 of a text, and its inverse, which refuses anything else (external).
Encoded(t) == [b64 |-> t]
Decode(t)  == IF "b64" \in DOMAIN t THEN Value(t.b64) ELSE Failure("base64")

\* A key of a secret: stringData, when it is there, is the only place looked
\* at; the text in data is encoded.
GetSecretDataKey(d, key) ==
    LET place == IF "stringData" \in DOMAIN d.fields THEN "stringData" ELSE "data"
    IN  IF place \notin DOMAIN d.fields THEN Failure("malformed")
        ELSE IF key \notin DOMAIN d.fields[place] THEN Failure("no_key")
        ELSE IF place = "stringData" THEN Value(d.fields[place][key])
        ELSE Decode(d.fields[place][key])

-----------------------------------------------------------------------------
(* Bare metal hosts.                                                        *)

GetBMHBMCAddress(bmh) == GetString(bmh, "spec.bmc.address")

\* User name and password of the secret that the host names.
GetBMHBMCCredentials(bmh, b) ==
    LET name   == GetString(bmh, "spec.bmc.credentialsName")
        secret == SelectOne(b, NewBMCCredentialsSelector(name.val))
        user   == GetSecretDataKey(secret.val, "username")
        pass   == GetSecretDataKey(secret.val, "password")
    IN  IF Failed(name) THEN name
        ELSE IF Failed(secret) THEN secret
        ELSE IF Failed(user) THEN user
        ELSE IF Failed(pass) THEN pass
        ELSE Value([user |-> user.val, pass |-> pass.val])

\* The selector of a host's network data: it needs a name and a namespace.
NewNetworkDataSelector(bmh) ==
    LET name == GetString(bmh, "spec.networkData.name")
        ns   == GetString(bmh, "spec.networkData.namespace")
    IN  IF Failed(name) THEN name
        ELSE IF Failed(ns) THEN ns
        ELSE Value(ByName(ByNamespace(ByKind(NewSelector, "Secret"), ns.val), name.val))

=============================================================================
