SPECIFICATION FairSpec
CONSTANTS
    Uids = {u1, u2}
    Registered = {u1}
    NoUid = NoUid
    AutoIds = {a1, a2}
    Calls = {c1, c2}
    MaxDepth = 4
INVARIANT TypeOK
INVARIANT OneProfile
INVARIANT UidIsSignedIn
INVARIANT NoGhost
PROPERTY DeletedSeesLogin
