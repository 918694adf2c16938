CONSTANTS
    Slots <- MCSlots
    HVars <- MCHVars
SPECIFICATION Spec
INVARIANTS RsaKeyReleased NoForeignFlush
CHECK_DEADLOCK FALSE
