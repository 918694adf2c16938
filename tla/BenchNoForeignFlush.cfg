CONSTANTS
    Slots <- MCSlots
    HVars <- MCHVars
    MaxIter <- MCMaxIter
SPECIFICATION Spec
INVARIANT NoForeignFlush
CHECK_DEADLOCK FALSE
