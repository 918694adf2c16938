CONSTANTS
    Slots <- MCSlots
    HVars <- MCHVars
    MaxIter <- MCMaxIter
SPECIFICATION FairSpec
INVARIANTS KeysNotStacked FlushesOwnObject
PROPERTY Termination
CHECK_DEADLOCK FALSE
