CONSTANTS
    MaxRows <- MCMaxRows
    MaxChanges <- MCMaxChanges
SPECIFICATION FairSpec
CHECK_DEADLOCK FALSE
INVARIANTS
    TypeOK
    RowsAccountedFor
    StatusTellsTheLink
PROPERTY
    BrowsersSeeTheReceiver
