# TLA+ verification of the wolfTPM PKCS#7 and benchmark examples

This directory holds TLA+ models of the two programs under `src/`:

- `src/examples/pkcs7/pkcs7.c` signs a content with a key held in the TPM and verifies the result. It writes the result as a PKCS#7 signed-data envelope, either in one piece (`PKCS7_SignVerify`) or streamed as header, content and footer (`PKCS7_SignVerifyEx`).
- `src/examples/bench/bench.c` benchmarks TPM operations: RNG, AES, hashing, RSA, ECDSA and ECDH.

The directory also holds the TLC configurations that model-check these models and the TLAPS proofs about the streaming signer (including that it implements an abstract envelope specification), the example's key handling and the benchmark's key handling. `spec.md` (in the repository root) describes the design the examples implement.

## 1. The system and its parts

| Part (spec.md name) | Code | State it keeps | Operations that change state |
|---|---|---|---|
| ChunkSource | `GetMyData` (pkcs7.c 64-88) | none (reads a constant buffer) | returns the next chunk, clamped to what remains; `NULL` → total size |
| IncrementalDigest | hashing loop of `PKCS7_SignVerifyEx` (110-129) | `wc_HashAlg`, `offset`, `dataChunkSz` | init, update per chunk, final, free, with an error exit after each |
| EnvelopeBuilder | `wc_PKCS7_EncodeSignedData_ex` call site (131-151) | the `PKCS7` structure, header and footer buffers | init, init with certificate, encode, free |
| Envelope file writer | 159-195 | the `.p7s` file | open, write header, write body chunks, write footer, close |
| EnvelopeVerifier | 197-227 | a fresh `PKCS7` per check | verify through the TPM device, then in software |
| Example driver, KeyLifecycle | `TPM2_PKCS7_ExampleArgs`, `PKCS7_SignVerify` (230-402) | `rsaKey`, `storageKey`, `der`, `PKCS7` | device init, crypto callback, SRK, signing key, certificate read, sign/write/verify, unload at exit |
| Benchmark | `TPM2_Wrapper_Bench`, `bench_sym_aes`, `bench_sym_hash` (bench.c 130-453) | `storageKey`, `rsaKey`, `eccKey`, `aesKey`, hash sequence, loop counters | SRK probe/create/persist, RNG loop, 12 AES runs, 4 hash runs, RSA keygen/use/unload, ECC keygen/use/unload, ECDH, exit unloads |
| TPM object table and wrapper (SigningBackend) | wolfTPM2 wrapper, outside `src/` | the TPM's transient object slots | create and load, flush (`UnloadHandle`), sequence completion, persist |

How the parts interact:
- Both examples reach the TPM only through wrapper calls. Each call returns an rc.
- Objects they create occupy the TPM's few transient slots. The TPM shares these slots with every other program that uses it.
- A `WOLFTPM2_KEY` names a slot by its `hndl`.
- Flushing through a handle removes whatever object is in that slot, whoever created it.
- The PKCS#7 code signs through the crypto callback with the key that `rsaKey` names.

The behaviours that are hard to test, and the lines where they bite, are listed as `hazards` in `PROJECT.json`:
- every error exit of a long chain of calls, and what each exit leaves loaded;
- handles that are uninitialised or stale when the exit block unloads them;
- slot reuse by the TPM;
- a loop that reuses state left by another loop;
- the boundary of the last partial chunk;
- the tolerance masks applied to error codes.

All of this code is sequential. There are no threads or callbacks racing, so the interleavings that matter are between the program and the TPM's shared object table. In `Bench`, `Pkcs7Example` and `Pkcs7Stream` that table is state the program starts with (other programs' objects). `BenchShared` adds the fault model: another program that flushes and loads transient objects at any point while the benchmark runs.

## 2. Modules

| Module | Models | Kind |
|---|---|---|
| `Pkcs7Stream` | `GetMyData` and `PKCS7_SignVerifyEx` (pkcs7.c 64-227) | state machine on `pc` |
| `TpmObjects` | TPM transient slots and wrapper create/unload (spec-modelled: the wrapper is not under `src/`) | operators over shared variables |
| `Pkcs7Example` | `TPM2_PKCS7_ExampleArgs`, `PKCS7_SignVerify` (pkcs7.c 230-402) | state machine, EXTENDS `TpmObjects` |
| `Bench` | `TPM2_Wrapper_Bench`, `bench_sym_aes`, `bench_sym_hash`, `bench_stats_check` | state machine, EXTENDS `TpmObjects` |
| `StreamContent` | the content (`Total`, `ChunkSz`) and what a chunking of it is, shared by `Pkcs7Stream` and `EnvelopeSpec` | operators |
| `EnvelopeSpec` | what `PKCS7_SignVerifyEx` promises: one envelope over the content, TPM check before software check, nothing after the return | abstract specification |
| `BenchShared` | `Bench` composed with another program on the same TPM (spec.md 5) | composition, fault model |
| `MCPkcs7Stream`, `MCPkcs7Example`, `MCBench`, `MCBenchShared` | constants for TLC | MC modules |
| `Pkcs7StreamProofs` | TLAPS proofs for `Pkcs7Stream`, including the refinement | proofs |
| `Pkcs7ExampleProofs` | TLAPS proofs for `Pkcs7Example` | proofs |
| `BenchProofs` | TLAPS proofs for `Bench` | proofs |

### Pkcs7Stream

**State.**
- `pc` is the next block of `PKCS7_SignVerifyEx` to run, and `rc` is its return code.
- `offset` and `dataChunkSz` are the C locals of the same names.
- `hashed` is the sequence of chunks fed to `wc_HashUpdate`. A chunk is a record `[off, len]`: the data is abstracted to where it comes from.
- `hashBuf` is the finished digest, that same sequence.
- `p7` says whether the `PKCS7` structure is initialised.
- `head` and `foot` are the encoded header and footer: the length the header declares, and the digest the footer's signature covers.
- `file` and `fileSt` are the `.p7s` file as a sequence of segments, and its state.
- `verified` records which backends accepted the envelope.

**Actions.**
- The hashing loop is `HashInit`, `HashUpdate`, `HashEnd`, `HashFinal` and `HashAbort`.
- Encoding is `PKCS7Init` (used twice more for the verifications) and `Encode`.
- The file is written by `FileOpen`, `WriteHead`, `WriteBody` and `WriteFoot`. `ShortWrite` is the error exit shared by the three writes.
- `Verify(b, ...)` is `wc_PKCS7_VerifySignedData_ex` for the TPM and software backends. It accepts exactly when the digest and declared length passed in match the envelope (`EnvelopeMatches`).

Every wolfCrypt and file call may return 0 or an error; the choice is nondeterministic.

**Constants.** `Total` is `MY_DATA_TOTAL` and `ChunkSz` is `sizeof(dataChunk)`. They are declared in `StreamContent`.

**Refinement.** `EnvelopeSpec` has three variables: the `envelope` produced (signed, its digest, its declared size), the backends that `checked` it, and whether the program `returned`. Its actions are `Sign` (once, with a digest that is a chunking of the whole content and size `Total`), `Check(b)` (TPM first, then software; the program returns when both accepted) and `Return`. `Pkcs7Stream` maps onto it by `Envelope == INSTANCE EnvelopeSpec WITH envelope <- EnvelopeOf, checked <- verified, returned <- (pc = "done")`, where `EnvelopeOf` reads the header and footer once the header is written. `ImplementsEnvelope == Envelope!SafeSpec` is a property of the roundtrip run and is proved.

### TpmObjects

**State.**
- `tpm` maps each slot to `"free"`, to `"foreign"` (another program's object), or to the name of the program variable that created the object there.
- `hnd` maps each `WOLFTPM2_HANDLE` variable to the slot its `hndl` names, or to `Null` (0 / `TPM_RH_NULL`).
- Two history variables feed the properties. `assigned` holds the variables the program has written. `victims` holds each flush that hit an object the flushing variable did not create, and whether that variable had been assigned.

**Operations.**
- `CreateOk(v)`: the TPM picks any free slot.
- `CreateFails(r)`: `TPM_RC_OBJECT_MEMORY` when no slot is free, or `TPM_RC_FAILURE`.
- `UnloadHandle(v, r)` has four outcomes:
  - a `Null` handle does nothing;
  - flushing an empty slot fails with `TPM_RC_HANDLE`;
  - a transport failure leaves everything as it was;
  - success empties the slot and resets `hndl`.
- `Consumed(v)`: `TPM2_SequenceComplete` or `NVStoreKey` frees the transient object.
- `UseRc(v, ok)`: the rc of a command on `v`'s object. If `v`'s handle names the object `v` created (`Loaded(v)`), the command returns one of `ok`. If it names an empty slot, it fails with `TPM_RC_REFERENCE_H0` (0x910, TPM 2.0 part 3, 5.6.3) or on the transport. If it names someone else's object, it fails.
- `OtherFlush(h)` and `OtherLoad(h)`: another program flushes the object in slot `h`, or loads one of its own into a free slot.

### Pkcs7Example

One action per block of the example:
- wolfTPM2 init, which returns at once on failure;
- crypto callback registration;
- `GetSrk` and `GetRsaKey`, the shared key helpers. These are outside `src/` and modelled from spec.md 4.6.
- the DER file read;
- then `PKCS7_SignVerify`:
  - `P7Init` for the three `wc_PKCS7_Init` calls;
  - `InitWithCert` as a `Call`;
  - `Encode`, which frees only on success;
  - `WriteP7s`;
  - `P7Verify`, twice;
- the call of `PKCS7_SignVerifyEx` (387-388), one `Call` step that returns 0 or fails;
- `ExitUnload`, the exit block.

`p7` tracks the `PKCS7` structure between init and free. `unloadRc` is the exit unload's dropped result.

### Bench

One action per block of `TPM2_Wrapper_Bench`:
- `BenchInit` and `StorageKey`;
- `Rng`;
- the AES benchmark: `AesCreate`, `AesRun`, then `AesExit`, which is `bench_sym_aes`'s exit plus the caller's `TPM_RC_COMMAND_CODE` test;
- the hash benchmark: `HashStart`, `HashUpdate` and `HashFinish`, then `HashExit`, which is the caller's `(rc & TPM_RC_HASH) == TPM_RC_HASH` test, computed on the integer's low bits in `HashMaskMatches`;
- the key generation loops: `KeyGenUnload` and `KeyGenCreate`;
- `UseKey` for the loops that only use a loaded key;
- `UnloadStep`, `CreateStep` and `ExitUnload`.

`step` says which of the 12 AES or 4 hash calls is running. `count` is `bench_stats_check`'s counter. Each timed loop may end after any iteration and goes round at most `MaxIter` times.

`rsaKey` and `eccKey` are never initialised in the C code. Reading them is undefined behaviour, so `Init` lets their `hndl` be any slot or `Null`.

Commands on a loaded object (`AesRun`, `HashUpdate`, `HashFinish`, `UseKey`) take their rc from `UseRc`, so a command on a handle whose object has gone fails as the TPM would make it fail.

`FairSpec` adds `WF_vars(Next)` for the liveness property `Termination`.

### BenchShared

`SharedNext == Next \/ Interfere`, where `Interfere` is `OtherFlush` or `OtherLoad` on any slot, with the benchmark's own variables unchanged. This is the fault model of spec.md 5: the TPM is shared and its transient objects can disappear or appear between any two of the benchmark's commands.

## 3. Runs

| Run | Config | Expect | What it shows |
|---|---|---|---|
| `pkcs7_stream_roundtrip` | `Pkcs7Stream.cfg` | pass | `TypeOK`; `SignedDigestIsContent`: whenever an envelope is encoded, its signature covers exactly the chunking of the whole content and the header declares `Total`; `VerifyGetsEnvelope`: both verifications are handed the digest the footer signs and the length the header declares, although the body loop reuses `dataChunkSz` for its chunks (the reset at pkcs7.c:184 is what makes it hold); `Termination`: the example always returns; `ImplementsEnvelope`: every behaviour is one of `EnvelopeSpec` under the refinement mapping. |
| `pkcs7_stream_p7_free` | `Pkcs7StreamP7Free.cfg` | violation | `P7FreedAtReturn`: `PKCS7_SignVerifyEx` returns with the `PKCS7` object initialised when a call after `wc_PKCS7_Init` fails, for example `wc_PKCS7_InitWithCert` (finding at pkcs7.c:135; spec.md 5 and 9 require the release). |
| `pkcs7_stream_file` | `Pkcs7StreamFile.cfg` | violation | `FileIsEnvelope`: the file written on the success path is header, content, footer. It is violated: the body loop starts at the `offset` the hashing loop left at `Total`, so the file has no content (finding at pkcs7.c:171). |
| `bench_handles` | `Bench.cfg` | pass | `KeysNotStacked`: never two RSA/ECC keys loaded at once; `FlushesOwnObject`: a flush through a handle the program assigned always hits the object created through it (the exit block's re-unloads are harmless because `UnloadHandle` resets `hndl`, although the TPM reuses freed slots); `Termination`: whatever the TPM answers, the benchmark returns, because every failing call leaves its loop by `goto exit` |
| `bench_leak` | `BenchNoLeakAtExit.cfg` | violation | `NoLeakAtExit`: the benchmark can return holding its own transient objects, for example a storage key after a failed `NVStoreKey` (bench.c:229), a hash sequence, or an AES key whose unload failed. |
| `bench_foreign_flush` | `BenchNoForeignFlush.cfg` | violation | `NoForeignFlush`: a failure before the RSA key exists makes the exit block unload the uninitialised `rsaKey`, flushing another program's object (bench.c:447). |
| `pkcs7_example` | `Pkcs7Example.cfg` | pass | `RsaKeyReleased`: every path ends with the signing key unloaded (when the unload itself succeeds); `NoForeignFlush`: the same property the benchmark violates holds here, because `rsaKey` is zeroed at pkcs7.c:324. |
| `pkcs7_example_p7_free` | `Pkcs7ExampleP7Free.cfg` | violation | `P7FreedAtReturn`: `PKCS7_SignVerify` skips `wc_PKCS7_Free` on every error exit after `wc_PKCS7_Init` (finding at pkcs7.c:256). |
| `bench_shared` | `BenchShared.cfg` | pass | With another program flushing and loading objects at any time, `KeysNotStacked` still holds. `FlushesOwnObject` does not: a stale `aesKey` handle whose object the other program flushed can flush that program's new object in the same slot (bench.c:182). That is listed as a hazard, not claimed. |

Every property of a passing run has a mutant in `PROJECT.json`. A mutant is a plausible bug in the code it maps to, and TLC finds the property violated under the mutant:
- a `GetMyData` without the clamp;
- a hash failure that goes on to sign;
- a loop without its `break`;
- a key generation loop that skips the unload;
- an `UnloadHandle` that does not reset `hndl`;
- a verification failure that returns instead of going to `exit`;
- an `rsaKey` that is not zeroed;
- a verification whose failure does not exit (caught by `ImplementsEnvelope`);
- a failed key creation retried instead of going to `exit` (caught by `Termination`);
- a body loop that does not reset `dataChunkSz` to the total size (caught by `VerifyGetsEnvelope`).

### Bounds

**Pkcs7Stream.** `Total = 107` and `ChunkSz = 4`. That is 26 full chunks and one partial chunk of 3 bytes, so the clamp in `GetMyData` and the loop's last iterations all happen. The code's own sizes (1 MiB + 12 bytes in 2048-byte chunks) differ only in the number of full chunks, and `Pkcs7StreamProofs` covers every value.

**Bench.** The TPM has 3 slots, and each may start free or held by another program. That is enough for three things to happen:
- `TPM_RC_OBJECT_MEMORY`;
- a freed slot handed to the next key;
- a garbage handle naming a foreign object.

`MaxIter = 2` lets a key generation loop replace its key once. All 12 AES and 4 hash calls are kept.

**Pkcs7Example.** 2 slots: one for the SRK and one for the signing key, or for a foreign object.

**BenchShared.** The same 3 slots, handle variables and `MaxIter = 2` as `Bench`, with the other program able to act before every step: about 2.4 million distinct states, checked in under a minute.

### Fairness

`Pkcs7Stream` and `Bench` state liveness. Both assume `WF_vars(Next)`, which the code justifies: each is a single thread that never waits for another, and every call it makes returns. `Pkcs7Stream`'s `Termination` rests only on the number of chunks being finite. The benchmark's loops end on the clock (`bench_stats_check`), which the model replaces by the bound `MaxIter`; what `Bench`'s `Termination` checks is the error handling: no failing call, however often the TPM fails, sends the benchmark round a loop again instead of to `exit`. `EnvelopeSpec` states `WF_avars(Return)`; only its safety part `SafeSpec` is claimed of `Pkcs7Stream`, since termination is checked separately.

Deadlock checking is off (`CHECK_DEADLOCK FALSE`) in every config, because each program really returns: `pc = "done"` has no successor. In `BenchShared` the other program can still act after the return.

## 4. What is proved

`Pkcs7StreamProofs` proves with TLAPS, for every `Total \in Nat` and `ChunkSz \in Nat \ {0}`:
- `TypeCorrect`: `Spec => []TypeOK`;
- `RoundTrip`: `Spec => []SignedDigestIsContent`.

Both follow from `IInvInvariant`: `Spec => []IInv`, with `IInv == TypeOK /\ HashingInv /\ SignedDigestIsContent`. `SignedDigestIsContent` alone is not inductive, because it says nothing about the hashing loop. `HashingInv` supplies the missing facts at each `pc`:
- before the loop, nothing is hashed;
- inside the loop, `rc = 0` and `hashed` is the chunking of the content up to `offset`;
- after a successful final, `hashed` is the chunking of the whole content;
- while encoding, `hashBuf` is that chunking and `dataChunkSz = Total`.

`Refinement`: `Spec => ImplementsEnvelope`. The initial state maps to `EnvelopeSpec`'s. `StepRefines` shows that every step, under `RInv == IInv /\ EnvInv`, maps to a `Sign`, a `Check`, a `Return` or a stutter. `EnvInv` is the strengthening the mapping needs: before the encode the header is not written, so the envelope is `NoEnvelope`; nothing is verified before the TPM check; after it, exactly the TPM has. The encode step maps to `Sign` because `SignedDigestIsContent` already holds of its result; a verification maps to `Check` when it accepts and to `Return` when it fails.

`VerifyInputs`: `Spec => []VerifyGetsEnvelope`. Its strengthening `VerInv` says that `dataChunkSz = Total` from the hashing block's success to the verifications, except inside the body loop, and that from the encoding on the header and footer exist and the footer signs `hashBuf`. With `SignedDigestIsContent` (the header declares `Total`) this gives the property. `VerInv` is needed because `VerifyGetsEnvelope` says nothing about the labels before the verifications, where `dataChunkSz` is reset or reused.

The lemma `ChunkingExtends` shows that appending the chunk `GetMyData` returns extends a chunking up to `offset` to a chunking up to `offset + len`. `GetMyDataFacts` bounds what `GetMyData` returns. `NextIInv` has one case per action, and each action with alternatives has one case per alternative.

`Pkcs7ExampleProofs` proves, for every finite set of slots (`SlotsAssumption`: positive handles, so none equals `Null`) and every set of handle variables containing `storageKey` and `rsaKey`:
- `ExampleTypeCorrect`: `Spec => []TypeOK`;
- `KeyReleased`: `Spec => []RsaKeyReleased`;
- `NoForeignFlushHolds`: `Spec => []NoForeignFlush`.

All three rest on `KeyInvariant`: `Spec => []IInv`, with `IInv == TypeOK /\ KeyInv`. `KeyInv` has five conjuncts:
- `victims = {}`;
- the only slot holding an `rsaKey` object is the one `rsaKey` names;
- a non-null `rsaKey` names a slot that holds its own key;
- before `getRSAkey`, `rsaKey` is `Null`;
- at return with a successful unload, `rsaKey` is `Null`.

The two properties are not inductive by themselves. Whether an unload hits a foreign object depends on what `hnd` names, and whether a key is left depends on every slot. The lemmas show how each step keeps `KeyInv`:
- `CreateRsaKey`: loading the key while `rsaKey` is `Null`.
- `CreateStorageKeepsKey`: creating the SRK touches neither conjunct.
- `UnloadRsaKey`: the exit unload flushes the signing key or nothing.
- `StepKeepsTpm`: the other steps, which do not touch the TPM.

`BenchProofs` proves, for every finite set of positive slots, every set of handle variables containing the five the benchmark uses, and every `MaxIter \in Nat \ {0}`:
- `KeysNeverStacked`: `Spec => []KeysNotStacked`;
- `OwnFlushes`: `Spec => []FlushesOwnObject`.

Both rest on the supporting theorem `BenchTypeCorrect` (`Spec => []TypeOK`). Neither is inductive alone. `CountInv` keeps `count` below `MaxIter` inside a loop, so `LoopAgain` keeps it in range. `KeyInv` says:
- every RSA/ECC key object is in the slot its variable's handle names (`KeysNamed`);
- RSA and ECC objects are never both held;
- at each label, the kinds the next creation could stack on are gone.

`KeyInvStacked` turns this into the cardinality bound with `FS_Subset` and `FS_Singleton`. `OwnInv` says that, until the exit block, every handle the program wrote names its own object or is `Null` (`OwnsAll`). At `exitEcc`, `eccKey` still does (`EccOwned`). It also says where `rsaKey` and `eccKey` have been written (`RsaNeeded`, `EccNeeded`), and that `eccKey` is written only after `rsaKey`. The lemmas `CreateOwns`, `UnloadOwns`, `ConsumedOwns`, `ExitRsaOwns` and `ExitEccOwns` show that each table operation keeps it. `UnchangedOwnInv`, `CreateOwnInv` and `UnloadOwnInv` cover the three shapes of step before the exit block.

For `BenchShared`, with the other program's flushes and loads between any two steps:
- `SharedKeysNeverStacked`: `SharedSpec => []KeysNotStacked`.

It reuses `KeyInv`, whose preservation by the benchmark's own steps (`NextKeyInv`) needs no ownership fact. `InterfereFrame` shows that an `Interfere` step only empties a slot or puts a foreign object in one, so no key object appears, no handle changes and each kind's held slots only shrink; `InterfereKeyInv` concludes. `OwnInv` is not kept under interference (the other program can free the object a handle names), which is why `FlushesOwnObject` is not claimed there.

TLC-only, and why:
- `Termination` (both modules) is liveness, out of TLAPS's reach here.
- `ImplementsEnvelope` is proved only for its safety part (`SafeSpec`); `EnvelopeSpec`'s fairness is not claimed.
- The violation runs, which TLC settles with a counterexample.

## 5. What is not modelled

- The wolfTPM wrapper, the TPM command encoding and transport, and wolfCrypt's PKCS#7 and hash implementations. They are not under `src/`; each call is modelled by the rc it can return, and `TpmObjects` models the slots they fill.
- Byte contents, the DER layout, signatures and digests. They are abstracted to where the data comes from, which is what the properties distinguish.
- Printing, timing statistics and `current_time` (floating point only).
- Other programs acting on the TPM while the PKCS#7 example runs. There they appear only as objects present at the start; the fault model is composed with the benchmark only.
- The steps of `PKCS7_SignVerifyEx` inside the example driver. `ENABLE_PKCS7EX_EXAMPLE` is defined for wolfSSL after 3.15.3 (pkcs7.c 44-50), so the driver calls it (387-388); `Pkcs7Example` takes that call as one step that returns 0 or fails, and `Pkcs7Stream` checks its steps on their own.

## 6. Plan for further work

1. Compose `Pkcs7Stream` into `Pkcs7Example` (by INSTANCE) in place of the one-step `svEx`.
2. Compose the other program with `Pkcs7Example`.
3. An abstract specification of the benchmark's key lifecycle (create, use, unload per kind) with `Bench` shown to refine it.
