SPECIFICATION Spec
CONSTANTS
    None = None
    Options <- MCFewOptions
    EmitArgs <- MCEmitArgs
    LongNames <- MCLongNames
    BadValues <- MCBadValues
    MaxEmits = 2
INVARIANT NamesRecorded
CHECK_DEADLOCK FALSE
