SPECIFICATION Spec
CONSTANTS
    None = None
    Options <- MCOptions
    EmitArgs <- MCEmitArgs
    LongNames <- MCLongNames
    BadValues <- MCBadValues
    MaxEmits = 2
INVARIANTS NamesMatch AckedAreThere NoOrphan
PROPERTY CallReturns
CHECK_DEADLOCK FALSE
