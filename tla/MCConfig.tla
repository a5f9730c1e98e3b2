------------------------------ MODULE MCConfig ------------------------------
(* Small instances of Config: two names of each kind, so that a second      *)
(* context, manifest and repository can be created beside the defaults.     *)
EXTENDS Config, TLC

CONSTANTS c1, c2, m1, m2, r1, r2, p1, p2

MCCtxNames == {c1, c2}
MCManNames == {m1, m2}
MCRepoNames == {r1, r2}
OneProc == {p1}
TwoProcs == {p1, p2}
ProcSymmetry == Permutations(TwoProcs)
=============================================================================
