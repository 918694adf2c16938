\* A PKCS7 structure is still initialised when the example returns after
\* a failure between wc_PKCS7_Init and wc_PKCS7_Free.
CONSTANTS
    Slots <- MCSlots
    HVars <- MCHVars
SPECIFICATION Spec
INVARIANT P7FreedAtReturn
CHECK_DEADLOCK FALSE
