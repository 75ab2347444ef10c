\* The foreground job ends or stops before waitfg looks at it.
SPECIFICATION Spec
CONSTANTS
    MAXJOBS = 1
    Pid = {p1}
    NoPid = NoPid
    ForkFail = ForkFail
    JidBound = 1
    Commands = {"fgrun"}
    p1 = p1
    p2 = p2
SYMMETRY PidSymmetry
INVARIANTS
    WaitfgOnlyOnFG
