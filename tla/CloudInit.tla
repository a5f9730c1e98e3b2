----------------------------- MODULE CloudInit -----------------------------
(***************************************************************************)
(* What the cloud-init function takes out of the phase's documents         *)
(* (pkg/bootstrap/cloudinit): the user data of the ephemeral node, and the *)
(* network data, which the node's BareMetalHost names.                     *)
(*                                                                         *)
(* iso is the IsoConfiguration: a selector and a key for either.           *)
(***************************************************************************)
EXTENDS Documents

\* The default kind, label and key are taken where nothing is given: no kind, no
\* name, no label and no annotation.  A namespace alone does not keep them away.
applyDefaultsAndGetData(sel, kind, label, key, keyDefault) ==
    [sel |-> IF sel.kind = Unset /\ sel.name = Unset /\ sel.labels = {}
             THEN ByLabel(ByKind(sel, kind), {label}) ELSE sel,
     key |-> IF key = Unset THEN keyDefault ELSE key]

getUserData(b, sel, key) ==
    LET doc == SelectOne(b, sel)
    IN  IF Failed(doc) THEN doc ELSE GetSecretDataKey(doc.val, key)

\* From the host to its secret: the selector of a host that does not name one
\* is an error of its own.
getNetworkData(b, sel, key) ==
    LET host   == SelectOne(b, sel)
        named  == NewNetworkDataSelector(host.val)
        secret == SelectOne(b, named.val)
    IN  IF Failed(host) THEN host
        ELSE IF Failed(named) THEN named
        ELSE IF Failed(secret) THEN secret
        ELSE GetSecretDataKey(secret.val, key)

GetCloudData(b, iso) ==
    LET u    == applyDefaultsAndGetData(iso.userSel, "Secret", "ephemeral-user-data",
                                        iso.userKey, "userData")
        n    == applyDefaultsAndGetData(iso.netSel, "BareMetalHost", "ephemeral-node",
                                        iso.netKey, "networkData")
        user == getUserData(b, u.sel, u.key)
        net  == getNetworkData(b, n.sel, n.key)
    IN  IF Failed(user) THEN user
        ELSE IF Failed(net) THEN net
        ELSE Value([user |-> user.val, net |-> net.val])

=============================================================================
