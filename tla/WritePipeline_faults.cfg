SPECIFICATION Spec
CONSTANTS
    Users = {u1, u2}
    kMaxPendingWrites = 2
    MaxWrites = 3
    Faults = {"kill", "user", "network", "break", "reject"}
INVARIANTS TypeOK NoAssertFails PipelineIsQueuePrefix ResultsMatchPipeline CallbackOfItsWrite NoWriteLost
PROPERTY OutboxSpec
