SPECIFICATION FairSpec
CONSTANTS
    Users = {u1, u2}
    kMaxPendingWrites = 1
    MaxWrites = 2
    Faults = {"kill", "user", "network", "break", "reject"}
PROPERTY EveryWriteSettles
