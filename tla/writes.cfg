SPECIFICATION FairSpec
CONSTANTS
    ann = ann
    bob = bob
    User = {ann, bob}
    MaxPendingWrites = 2
    MaxWrites = 3
    MaxFaults = 3
INVARIANTS
    TypeOK
    PipelineIsPrefix
    ResponsesMatchPipeline
    StreamIsNeeded
    CallbackIsForItsBatch
    ToldIsNotResent
    FailureHasCause
PROPERTIES
    ImplementsWriteQueue
    EveryWriteSettles
