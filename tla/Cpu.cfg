\* The test programs, words of 12 bits, both builds.  A program stops for good.
SPECIFICATION Spec
CONSTANTS
    WORD = 4
    BYTE = 8
    STACK_SIZE = 160
    CF = 1
    ZF = 64
    SF = 128
    OF = 2048
    Programs <- SmallPrograms
INVARIANTS
    TypeOK
    PrintsTheResult
    StaysOnStack
PROPERTIES
    JumpsCompare
    ReturnsToCaller
    Ends
CHECK_DEADLOCK FALSE
