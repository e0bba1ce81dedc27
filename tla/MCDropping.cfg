SPECIFICATION DroppingSpec
CONSTANTS
    MaxClient = 2
    Worker = {w1, w2}
    MaxRequests = 5
    MaxFailures = 2
SYMMETRY Symmetry
INVARIANTS
    EveryAnswerHasSlot
CHECK_DEADLOCK FALSE
