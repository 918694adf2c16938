\* The .p7s file written by PKCS7_SignVerifyEx against spec.md 6.
CONSTANTS
    Total <- MCTotal
    ChunkSz <- MCChunkSz
SPECIFICATION Spec
INVARIANT FileIsEnvelope
CHECK_DEADLOCK FALSE
