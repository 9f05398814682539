SPECIFICATION Spec
CONSTANTS
    Devices = {d1}
    Uids = {u1, u2}
    NoUid = NoUid
    Stickers = {1}
    Calls = {c1}
    MaxQueue = 1
    Disturbances = {"kill", "resend", "reject", "session"}
SYMMETRY AccountSymmetry
INVARIANT TypeOK
INVARIANT ScoresEarned
