\* The numbers that sort.s prints, in both builds.
SPECIFICATION Spec
CONSTANTS
    WORD = 4
    BYTE = 8
    STACK_SIZE = 160
    CF = 1
    ZF = 64
    SF = 128
    OF = 2048
    Programs <- SmallPrograms
INVARIANTS
    SortsAscending
CHECK_DEADLOCK FALSE
