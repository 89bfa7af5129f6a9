SPECIFICATION Spec

CONSTANTS
    Clients = {c1, c2}
    Unblock = Unblock
    IoThreads = 2
    Buy = 1

SYMMETRY ClientSymmetry

INVARIANTS
    Consistent
    BuffersNotShared

PROPERTIES
    DialogueRunsOut
