SPECIFICATION FairSpec
CONSTANTS
    Docs = {d1, d2}
    Queries = {q1, q2}
    max_concurrent_limbo_resolutions = 1
    Faults = {"offline", "reject", "write"}
INVARIANTS TypeOK LookupsWanted NoIdleRoom LimboTracked
PROPERTY EveryDocumentServed
