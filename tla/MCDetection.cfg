CONSTANTS
    Times <- MCTimes
    Widths <- MCWidths
    Window <- MCWindow
    Held <- MCHeld
    MaxBuffered <- MCMaxBuffered
    MaxFirings <- MCMaxFirings
    StoreMayFail = TRUE
SPECIFICATION Spec
INVARIANTS
    TypeOK
    AlertsAreDurable
    IdsNameOneDetection
    ToggleInForce
PROPERTIES
    QuietAfterDisable
