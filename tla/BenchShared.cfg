\* The key generation loops keep at most one RSA or ECC key in the TPM
\* even while another program flushes and loads objects beside them.
CONSTANTS
    Slots <- MCSlots
    HVars <- MCHVars
    MaxIter <- MCMaxIter
SPECIFICATION SharedSpec
INVARIANT KeysNotStacked
CHECK_DEADLOCK FALSE
