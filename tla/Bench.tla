------------------------------- MODULE Bench -------------------------------
(***************************************************************************)
(* TPM2_Wrapper_Bench (src/examples/bench/bench.c) with bench_sym_aes and *)
(* bench_sym_hash, as the sequence of TPM object creations and unloads it *)
(* makes, over the transient slots of TpmObjects.  Each benchmark loop is *)
(* kept as a loop: bench_stats_check ends it after a time that is not     *)
(* modelled, so the model may leave it after any iteration, and MaxIter   *)
(* bounds how often it goes round.  The loop bodies' computations (random *)
(* bytes, ciphertext, signatures, digests) are left out: only whether a   *)
(* call returns 0 or an error matters to the control flow.                *)
(*                                                                         *)
(* rsaKey and eccKey are locals that are never initialised before the     *)
(* exit block unloads them, so their first hndl is whatever the stack     *)
(* held: Init lets it be any slot or NULL (C undefined behaviour).         *)
(***************************************************************************)
EXTENDS TpmObjects

CONSTANT MaxIter    \* bound on the iterations of one bench_stats loop

ASSUME MaxIterAssumption == MaxIter \in Nat \ {0}
ASSUME BenchHVarsAssumption ==
    {"storageKey", "aesKey", "hash", "rsaKey", "eccKey"} \subseteq HVars

VARIABLES
    pc,         \* the next block of TPM2_Wrapper_Bench to run
    rc,         \* its rc
    step,       \* which of the 12 AES or 4 hash benchmark calls is running
    count       \* the count of the running bench_stats loop

vars == <<pc, rc, step, count, tpm, hnd, assigned, victims>>

AesCalls == 12      \* bench_sym_aes calls, lines 248-287
HashCalls == 4      \* bench_sym_hash calls, lines 292-306

Labels == {"init", "srk", "rng", "aesCreate", "aesRun", "aesExit",
           "hashStart", "hashUpdate", "hashFinish", "hashExit",
           "rsaGen", "rsaCreate", "rsaOps", "rsaUnload",
           "eccGen", "eccCreate", "eccOps", "eccUnload",
           "ecdhCreate", "ecdhOps", "ecdhUnload",
           "exitRsa", "exitEcc", "done"}

\* The caller's test after bench_sym_aes: TPM_RC_COMMAND_CODE (a TPM
\* without EncryptDecrypt) is let through.
AesTolerated(r) == r = 0 \/ r = RcCommandCode

\* The caller's test after bench_sym_hash: (rc & TPM_RC_HASH) == TPM_RC_HASH,
\* with TPM_RC_HASH = 0x083, i.e. bits 0, 1 and 7 of rc all set.  TLA+'s %
\* by a power of two yields the low bits of the two's complement, so
\* negative wolfTPM error codes are tested as the C code tests them.
HashMaskMatches(r) == r % 4 = 3 /\ (r % 256) \div 128 = 1
HashTolerated(r) == r = 0 \/ HashMaskMatches(r)

\* Leaving a bench_stats loop after a successful iteration: bench_stats_check
\* counts it and the time decides whether to go round again.
LoopAgain(here, next) ==
    /\ count' = count + 1
    /\ \/ count' < MaxIter /\ pc' = here
       \/ pc' = next

Init ==
    /\ tpm \in [Slots -> {Free, "foreign"}]
    /\ hnd \in {f \in [HVars -> Slots \cup {Null}] :
                    \A v \in HVars \ {"rsaKey", "eccKey"} : f[v] = Null}
    /\ assigned = {}
    /\ victims = {}
    /\ pc = "init"
    /\ rc = 0
    /\ step = 0
    /\ count = 0

\* wolfTPM2_Init (209-210): on failure the function returns at once.
BenchInit ==
    /\ pc = "init"
    /\ \E r \in {0, RcFailure} :
        /\ rc' = r
        /\ pc' = IF r = 0 THEN "srk" ELSE "done"
    /\ UNCHANGED <<step, count>> /\ UNCHANGED tpmVars

(***************************************************************************)
(* The storage key (212-236): it is persistent already, or it is created  *)
(* as a transient primary and moved to persistent storage, which unloads  *)
(* the transient copy (the first disjunct covers both: neither leaves a   *)
(* transient object).  A failed ReadPublicKey followed by a failed        *)
(* CreatePrimaryKey leaves nothing; a failed NVStoreKey leaves the        *)
(* transient primary loaded, and the exit block does not unload it.       *)
(***************************************************************************)
StorageKey ==
    /\ pc = "srk"
    /\ \/ /\ rc' = 0 /\ pc' = "rng"
          /\ UNCHANGED tpmVars
       \/ \E r \in {RcFailure, RcObjectMemory} :
             /\ CreateFails(r) /\ rc' = r /\ pc' = "exitRsa"
             /\ UNCHANGED tpmVars
       \/ /\ CreateOk("storageKey")
          /\ rc' = RcFailure /\ pc' = "exitRsa"
    /\ UNCHANGED <<step, count>>

\* The RNG loop (239-244).
Rng ==
    /\ pc = "rng"
    /\ \E r \in {0, RcFailure} :
        /\ rc' = r
        /\ pc' = IF r = 0 THEN "aesCreate" ELSE "exitRsa"
    /\ step' = 1
    /\ UNCHANGED count /\ UNCHANGED tpmVars

(***************************************************************************)
(* bench_sym_aes (164-170): aesKey is zeroed, then created and loaded.    *)
(* The memset forgets whatever aesKey named before.                        *)
(***************************************************************************)
AesCreate ==
    /\ pc = "aesCreate"
    /\ \/ /\ CreateOk("aesKey") /\ rc' = 0 /\ pc' = "aesRun"
       \/ \E r \in {RcFailure, RcObjectMemory} :
             /\ CreateFails(r) /\ rc' = r /\ pc' = "aesExit"
             /\ hnd' = [hnd EXCEPT !["aesKey"] = Null]
             /\ UNCHANGED <<tpm, assigned, victims>>
    /\ UNCHANGED <<step>>
    /\ count' = 0

\* The EncryptDecrypt loop (172-178).
AesRun ==
    /\ pc = "aesRun"
    /\ \E r \in UseRc("aesKey", {0, RcCommandCode, RcFailure}) :
          /\ rc' = r
          /\ IF r = 0 THEN LoopAgain("aesRun", "aesExit")
                      ELSE pc' = "aesExit" /\ UNCHANGED count
    /\ UNCHANGED step /\ UNCHANGED tpmVars

\* bench_sym_aes's exit (180-183), whose UnloadHandle result is dropped,
\* and the caller's test (250 ... 287).
AesExit ==
    /\ pc = "aesExit"
    /\ \E r \in {0, RcHandleH1, RcFailure} : UnloadHandle("aesKey", r)
    /\ IF ~AesTolerated(rc) THEN pc' = "exitRsa" /\ UNCHANGED step
       ELSE IF step < AesCalls THEN pc' = "aesCreate" /\ step' = step + 1
       ELSE pc' = "hashStart" /\ step' = 1
    /\ count' = 0
    /\ UNCHANGED rc

(***************************************************************************)
(* bench_sym_hash (138-151): each iteration starts a hash sequence (a     *)
(* transient object), updates it and completes it, which flushes it.  A   *)
(* TPM without the algorithm fails the start with TPM_RC_HASH.  A failed  *)
(* update or finish returns with the sequence still loaded: nothing       *)
(* unloads it.                                                             *)
(***************************************************************************)
HashStart ==
    /\ pc = "hashStart"
    /\ \/ /\ CreateOk("hash") /\ rc' = 0 /\ pc' = "hashUpdate"
       \/ \E r \in {RcHashP1, RcFailure, RcObjectMemory} :
             /\ r = RcHashP1 \/ CreateFails(r)
             /\ rc' = r /\ pc' = "hashExit"
             /\ UNCHANGED tpmVars
    /\ UNCHANGED <<step, count>>

HashUpdate ==
    /\ pc = "hashUpdate"
    /\ \E r \in UseRc("hash", {0, RcFailure}) :
        /\ rc' = r
        /\ pc' = IF r = 0 THEN "hashFinish" ELSE "hashExit"
    /\ UNCHANGED <<step, count>> /\ UNCHANGED tpmVars

HashFinish ==
    /\ pc = "hashFinish"
    /\ \E r \in UseRc("hash", {0, RcFailure}) :
          \/ /\ r = 0 /\ Consumed("hash") /\ rc' = 0
             /\ LoopAgain("hashStart", "hashExit")
          \/ /\ r # 0 /\ rc' = r /\ pc' = "hashExit"
             /\ UNCHANGED <<count>> /\ UNCHANGED tpmVars
    /\ UNCHANGED step

\* The caller's test after each bench_sym_hash call (294 ... 306); the RSA
\* key template (310-313) cannot fail on these constant arguments.
HashExit ==
    /\ pc = "hashExit"
    /\ IF ~HashTolerated(rc) THEN pc' = "exitRsa" /\ UNCHANGED step
       ELSE IF step < HashCalls THEN pc' = "hashStart" /\ step' = step + 1
       ELSE pc' = "rsaGen" /\ UNCHANGED step
    /\ count' = 0
    /\ UNCHANGED rc /\ UNCHANGED tpmVars

(***************************************************************************)
(* A key generation loop (314-323, 381-390): every iteration after the    *)
(* first unloads the key of the one before, then creates and loads a new  *)
(* one into the same WOLFTPM2_KEY.                                         *)
(***************************************************************************)
\* Mutant: the unload of the previous key skipped.
KeyGenUnloadSkipped(v, here, create) ==
    /\ pc = here
    /\ pc' = create
    /\ UNCHANGED <<rc, step, count>> /\ UNCHANGED tpmVars

KeyGenUnload(v, here, create) ==
    /\ pc = here
    /\ IF count > 0
       THEN \E r \in {0, RcHandleH1, RcFailure} :
               /\ UnloadHandle(v, r)
               /\ rc' = r
               /\ pc' = IF r = 0 THEN create ELSE "exitRsa"
       ELSE pc' = create /\ UNCHANGED <<rc>> /\ UNCHANGED tpmVars
    /\ UNCHANGED <<step, count>>

\* Mutant: a failed creation retried instead of leaving by goto exit.
KeyGenCreateRetries(v, here, create, next) ==
    /\ pc = create
    /\ \/ /\ CreateOk(v) /\ rc' = 0
          /\ LoopAgain(here, next)
       \/ \E r \in {RcFailure, RcObjectMemory} :
             /\ CreateFails(r) /\ rc' = r /\ pc' = here
             /\ UNCHANGED count /\ UNCHANGED tpmVars
    /\ UNCHANGED step

KeyGenCreate(v, here, create, next) ==
    /\ pc = create
    /\ \/ /\ CreateOk(v) /\ rc' = 0
          /\ LoopAgain(here, next)
       \/ \E r \in {RcFailure, RcObjectMemory} :
             /\ CreateFails(r) /\ rc' = r /\ pc' = "exitRsa"
             /\ UNCHANGED count /\ UNCHANGED tpmVars
    /\ UNCHANGED step

\* One creation outside a loop (424-426).
CreateStep(v, here, next) ==
    /\ pc = here
    /\ \/ /\ CreateOk(v) /\ rc' = 0 /\ pc' = next
       \/ \E r \in {RcFailure, RcObjectMemory} :
             /\ CreateFails(r) /\ rc' = r /\ pc' = "exitRsa"
             /\ UNCHANGED tpmVars
    /\ UNCHANGED <<step, count>>

\* The loops that use a loaded key (RSA encrypt/decrypt 326-369, ECDSA
\* sign/verify 393-412, ECDH 429-436): any call may fail to the exit.
UseKey(v, here, next) ==
    /\ pc = here
    /\ \E r \in UseRc(v, {0, RcFailure}) :
        /\ rc' = r
        /\ pc' = IF r = 0 THEN next ELSE "exitRsa"
    /\ count' = 0
    /\ UNCHANGED step /\ UNCHANGED tpmVars

\* An unload whose failure goes to the exit (371-372, 414-415, 438-439).
UnloadStep(v, here, next) ==
    /\ pc = here
    /\ \E r \in {0, RcHandleH1, RcFailure} :
        /\ UnloadHandle(v, r)
        /\ rc' = r
        /\ pc' = IF r = 0 THEN next ELSE "exitRsa"
    /\ count' = 0
    /\ UNCHANGED step

\* The exit block (441-452): rsaKey and eccKey are unloaded whatever path
\* led here, their results dropped, and wolfTPM2_Cleanup closes the device.
ExitUnload(v, here, next) ==
    /\ pc = here
    /\ \E r \in {0, RcHandleH1, RcFailure} : UnloadHandle(v, r)
    /\ pc' = next
    /\ UNCHANGED <<rc, step, count>>

Next ==
    \/ BenchInit \/ StorageKey \/ Rng
    \/ AesCreate \/ AesRun \/ AesExit
    \/ HashStart \/ HashUpdate \/ HashFinish \/ HashExit
    \/ KeyGenUnload("rsaKey", "rsaGen", "rsaCreate")
    \/ KeyGenCreate("rsaKey", "rsaGen", "rsaCreate", "rsaOps")
    \/ UseKey("rsaKey", "rsaOps", "rsaUnload")
    \/ UnloadStep("rsaKey", "rsaUnload", "eccGen")
    \/ KeyGenUnload("eccKey", "eccGen", "eccCreate")
    \/ KeyGenCreate("eccKey", "eccGen", "eccCreate", "eccOps")
    \/ UseKey("eccKey", "eccOps", "eccUnload")
    \/ UnloadStep("eccKey", "eccUnload", "ecdhCreate")
    \/ CreateStep("eccKey", "ecdhCreate", "ecdhOps")
    \/ UseKey("eccKey", "ecdhOps", "ecdhUnload")
    \/ UnloadStep("eccKey", "ecdhUnload", "exitRsa")
    \/ ExitUnload("rsaKey", "exitRsa", "exitEcc")
    \/ ExitUnload("eccKey", "exitEcc", "done")

Spec == Init /\ [][Next]_vars

\* TPM2_Wrapper_Bench runs on one thread and blocks only in TPM commands,
\* which return: a block that can run is eventually run.  The loops' end
\* by time is the bound MaxIter.
FairSpec == Spec /\ WF_vars(Next)

-----------------------------------------------------------------------------

TypeOK ==
    /\ TpmTypeOK
    /\ pc \in Labels
    /\ rc \in {0, RcHashP1, RcHandleH1, RcReferenceH0, RcCommandCode,
               RcFailure, RcObjectMemory}
    /\ step \in 0..AesCalls
    /\ count \in 0..MaxIter

\* The RSA and ECC keys are never loaded side by side, nor two of one kind:
\* each key generation loop unloads the previous key before creating the
\* next one (316-319, 383-386), and the ECC keys are made only after the
\* RSA key is unloaded (371-372).  Bounds the TPM slots the benchmark needs.
KeysNotStacked ==
    Cardinality({h \in Slots : tpm[h] \in {"rsaKey", "eccKey"}}) <= 1

\* Every flush through a handle the program has assigned hits the object
\* created through that handle: after an unload the handle is NULL, so the
\* exit block's second unload of rsaKey or eccKey (447-448) cannot flush a
\* later object that the TPM put in the freed slot.
FlushesOwnObject == \A x \in victims : ~x.set

\* Spec 4.6: every loaded handle is unloaded on every exit path, so when
\* TPM2_Wrapper_Bench returns it holds no transient object in the TPM.
NoLeakAtExit == pc = "done" => ProgramObjects = {}

\* The exit block unloads only objects the benchmark created: no object of
\* another program sharing the TPM is flushed (447-448 on uninitialised
\* rsaKey / eccKey).
NoForeignFlush == \A x \in victims : x.owner # "foreign"

\* Whatever the TPM answers, TPM2_Wrapper_Bench returns: every failing call
\* leaves its loop by goto exit (bench.c 174-177, 328-367, 395-411), and
\* the exit block (441-452) ends the function.
Termination == <>(pc = "done")

=============================================================================
