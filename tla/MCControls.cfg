CONSTANTS
    stop = stop
    start = start
    restart = restart
    Controls <- MCControls
    kind <- MCKind
    NoControl = NoControl
    Cell = Cell
    Replacements = {2}
    Edits = {1, 2}
SPECIFICATION ControlsSpec
INVARIANTS
    StopIsComplete
    RestartsOnce
PROPERTIES
    NewestControlWins
    ControlsEnd
