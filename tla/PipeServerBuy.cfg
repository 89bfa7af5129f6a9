SPECIFICATION Spec
CONSTANTS
    Clients = {c1}
    Unblock = Unblock
    IoThreads = 2
    Buy = 5
INVARIANTS
    FinishedAtBuy
