CONSTANTS
    Slots <- MCSlots
    HVars <- MCHVars
    MaxIter <- MCMaxIter
SPECIFICATION Spec
INVARIANT NoLeakAtExit
CHECK_DEADLOCK FALSE
