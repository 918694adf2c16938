\* Round trip and termination of PKCS7_SignVerifyEx (a returning program:
\* the final state has no successor).
CONSTANTS
    Total <- MCTotal
    ChunkSz <- MCChunkSz
SPECIFICATION Spec
INVARIANTS
    TypeOK
    SignedDigestIsContent
    VerifyGetsEnvelope
PROPERTIES
    Termination
    ImplementsEnvelope
CHECK_DEADLOCK FALSE
