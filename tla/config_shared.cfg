SPECIFICATION CfgSpec
CONSTANTS
    c1 = c1
    c2 = c2
    m1 = m1
    m2 = m2
    r1 = r1
    r2 = r2
    p1 = p1
    p2 = p2
    Procs <- TwoProcs
    CtxNames <- MCCtxNames
    ManNames <- MCManNames
    RepoNames <- MCRepoNames
    DefaultCtx = c1
    DefaultMan = m1
    DefaultRepo = r1
    None = None
    Absent = Absent
    Torn = Torn
    Mixed = Mixed
    MaxCmds = 2
SYMMETRY ProcSymmetry
INVARIANTS FileComplete AtMostOneCheckout
CHECK_DEADLOCK FALSE
