SPECIFICATION FairSpec
CONSTANTS
    Clients = {c1}
    Unblock = Unblock
    IoThreads = 2
    Buy = 2
PROPERTIES
    MainReturns
    ClientsEnd
