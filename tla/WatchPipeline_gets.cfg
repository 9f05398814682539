SPECIFICATION FairSpec
CONSTANTS
    Gets = {g1, g2}
    Docs = {d1, d2}
    Denied = {d2}
    MaxCalls = 2
    MaxSnapshots = 1
    Faults = {"network", "break"}
CHECK_DEADLOCK FALSE
INVARIANTS TypeOK NoAssertFails AnsweredOnce TargetsFollowListeners WaitersWait
PROPERTIES SyncedIsNews EveryGetAnswered
