\* Every command, two processes, key presses at any time; the numbering of the
\* jobs past its wrap-around, which comes after job MAXJOBS.
SPECIFICATION FairSpec
CONSTANTS
    MAXJOBS = 2
    Pid = {p1, p2}
    NoPid = NoPid
    ForkFail = ForkFail
    JidBound = 3
    Commands = {"fgrun", "bgrun", "pipe", "fg", "bg"}
    p1 = p1
    p2 = p2
INVARIANTS
    TypeOK
    JobsAreChildren
    NoReportLost
    SlotsWhole
    NextAboveUnlessWrapped
    StoppedJobsAreStopped
    WaitsForItsOwn
    NoForegroundAtPrompt
PROPERTIES
    BackgroundIsSpared
    ZombiesAreReaped
