SPECIFICATION Spec
CONSTANTS
    InsertRetries = 3
    BackoffLimit = 3
    MaxFaults = 3
INVARIANTS
    TypeOK
    CompleteMeansApplied
    AggregatedAfterJob
PROPERTIES
    JobCompletes
