SPECIFICATION Spec
CONSTANTS
    Devices = {d1, d2}
    Uids = {u1}
    NoUid = NoUid
    Stickers = {1, 2}
    Calls = {c1, c2}
    MaxQueue = 2
    Disturbances = {"shared"}
INVARIANT ConfirmedKept
