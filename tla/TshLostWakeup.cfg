\* SIGCHLD handled between the test and sigsuspend.
SPECIFICATION FairSpec
CONSTANTS
    MAXJOBS = 1
    Pid = {p1}
    NoPid = NoPid
    ForkFail = ForkFail
    JidBound = 1
    Commands = {"fgrun"}
    p1 = p1
    p2 = p2
PROPERTIES
    WaitfgReturns
