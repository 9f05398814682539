SPECIFICATION FairSpec
CONSTANTS
    Devices = {d1}
    Uids = {u1}
    NoUid = NoUid
    Stickers = {1, 2, 21}
    Calls = {c1}
    MaxQueue = 3
    Disturbances = {"kill", "resend"}
INVARIANT NoDoubleCredit
INVARIANT ConfirmedKept
INVARIANT KeptInv
PROPERTY ImplementsLedger
PROPERTY QueuedSaved
PROPERTY RedeemedSaved
