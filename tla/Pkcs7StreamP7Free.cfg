\* The PKCS7 object of PKCS7_SignVerifyEx at its return, against spec.md 5 and 9.
CONSTANTS
    Total <- MCTotal
    ChunkSz <- MCChunkSz
SPECIFICATION Spec
INVARIANT P7FreedAtReturn
CHECK_DEADLOCK FALSE
