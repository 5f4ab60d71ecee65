CONSTANTS
    Series <- MCSeries
    CsiDays <- MCCsiDays
    BucketDays <- MCBucketDays
    MaxRetries <- MCMaxRetries
    BatchRows <- MCBatchRows
    MaxDay <- MCMaxDay
    MaxReadings <- MCMaxReadings
    MaxFaults <- MCMaxFaults
SPECIFICATION Spec
CHECK_DEADLOCK FALSE
INVARIANTS
    TypeOK
    ReadingsKeptUntilOld
    QueriesFindTheLatest
PROPERTY
    OldReadingsArePurged
