CONSTANTS
    Times <- MCTimes
    Widths <- MCWidths
    Window <- MCWindow
    Held <- MCHeld
    MaxBuffered <- MCMaxBuffered
    MaxFirings <- MCMaxFirings
    StoreMayFail = FALSE
SPECIFICATION Spec
INVARIANT LoopOutlivesTriggers
