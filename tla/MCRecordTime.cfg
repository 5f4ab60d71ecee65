CONSTANTS
    Half <- MCHalf
    Window <- MCWindow
    Held <- MCHeld
    MaxBuffered <- MCMaxBuffered
    MaxDelay <- MCMaxDelay
    Epoch <- MCEpoch
    MaxTime <- MCMaxTime
    MaxBoots <- MCMaxBoots
SPECIFICATION Spec
CHECK_DEADLOCK FALSE
INVARIANTS
    TypeOK
    EstimatesKeepPace
    WindowIsComplete
