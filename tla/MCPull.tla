------------------------------- MODULE MCPull -------------------------------
(* Small instances of Pull: two repositories with directories of their own,  *)
(* two URLs with the same last part, a changed URL, wrong settings.          *)
EXTENDS Pull

Repo(url, set, local, force, refspec, auth, passwords) ==
    [url |-> url, set |-> set, localBranch |-> local, force |-> force, refspec |-> refspec,
     auth |-> auth, passwords |-> passwords]
X == <<"a", "x">>
X2 == <<"b", "x">>
Y == <<"a", "y">>
Plain(url, set) == Repo(url, set, FALSE, FALSE, FALSE, "none", {})
One(s) == [primary |-> s]

MCConfigs ==
    {[primary |-> Plain(X, {"branch"}), other |-> Plain(Y, {"commitHash"})],
     [primary |-> Plain(X, {"branch"}), other |-> Plain(X2, {"tag"})],
     One(Repo(X, {"branch"}, FALSE, TRUE, FALSE, "none", {})),
     One(Plain(X2, {})),
     One(Repo(X, {"branch"}, TRUE, FALSE, FALSE, "none", {})),
     One(Repo(X, {"ref"}, FALSE, FALSE, TRUE, "none", {})),
     One(Repo(Y, {"branch"}, FALSE, FALSE, FALSE, "http-basic", {"httpPass"})),
     One(Repo(Y, {}, FALSE, FALSE, FALSE, "http-basic", {"httpPass"})),
     One(Repo(Y, {}, FALSE, FALSE, FALSE, "ssh-key", {})),
     One(Plain(X, {"branch", "tag"})),
     One(Plain(<<"a", Nothing>>, {}))}

MCNeedsPassword == {Y}

SshConfigs == {One(Repo(Y, {"branch"}, FALSE, FALSE, FALSE, "ssh-pass", {"sshPass"}))}
=============================================================================
