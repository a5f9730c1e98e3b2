------------------------------ MODULE MCApplier ------------------------------
(* Small instances of Applier: an object with a condition and one without.    *)
EXTENDS Applier

MCKindOf == [o \in Objects |-> IF o = "host" THEN "BareMetalHost" ELSE "ConfigMap"]
Cond(value) == [kind |-> "BareMetalHost", path |-> "status", value |-> value]

Req(flag, doc, dry, conds) ==
    [flag |-> flag, doc |-> doc, dry |-> dry, prune |-> FALSE, conds |-> conds]
MCRequests ==
    {Req(NoFlag, 2, FALSE, <<Cond("ready")>>),
     Req(NoFlag, 2, FALSE, <<Cond("ready"), Cond("up")>>),
     Req(NoFlag, 0, FALSE, <<Cond(NoValue)>>), Req(NoFlag, 2, TRUE, <<Cond("ready")>>),
     Req(8, 0, FALSE, <<Cond(NoValue)>>)}

\* --wait-timeout of one and of two seconds.
FlagRequests == {Req(8, 0, FALSE, <<>>), Req(16, 0, FALSE, <<>>)}
==============================================================================
