------------------------------- MODULE MCBench ------------------------------
(* TPM2_Wrapper_Bench on a TPM with three transient slots, each of which   *)
(* may start out empty or held by another program, and loops that go      *)
(* round at most twice: enough for a key generation loop to replace its   *)
(* key, and for a freed slot to be handed to the next creation.            *)
EXTENDS Bench

MCSlots == 1..3
MCHVars == {"storageKey", "aesKey", "hash", "rsaKey", "eccKey"}
MCMaxIter == 2
=============================================================================
