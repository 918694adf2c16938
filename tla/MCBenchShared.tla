---------------------------- MODULE MCBenchShared ----------------------------
(* TPM2_Wrapper_Bench beside another program on a TPM of three transient  *)
(* slots: enough for the benchmark's storage key, one key or sequence and  *)
(* an object of the other program.  Loops go round at most twice.          *)
EXTENDS BenchShared

MCSlots == 1..3
MCHVars == {"storageKey", "aesKey", "hash", "rsaKey", "eccKey"}
MCMaxIter == 2
=============================================================================
