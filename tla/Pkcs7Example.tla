---------------------------- MODULE Pkcs7Example ----------------------------
(***************************************************************************)
(* TPM2_PKCS7_ExampleArgs and PKCS7_SignVerify (src/examples/pkcs7/       *)
(* pkcs7.c 230-402) as the TPM objects they create and release and the    *)
(* PKCS7 structure they initialise and free.  With wolfSSL after 3.15.3  *)
(* ENABLE_PKCS7EX_EXAMPLE is defined (44-50) and the driver also calls    *)
(* PKCS7_SignVerifyEx (387-388); that call is one step here, by its rc,   *)
(* since its PKCS7 object is its own local (modelled in Pkcs7Stream) and  *)
(* it touches no TPM object of the driver.  getPrimaryStoragekey and      *)
(* getRSAkey live in the examples' shared key helpers, outside this      *)
(* tree; they are modelled from spec.md 4.6: probe for the key, else      *)
(* create and load it.                                                     *)
(***************************************************************************)
EXTENDS TpmObjects

ASSUME ExampleHVarsAssumption == {"storageKey", "rsaKey"} \subseteq HVars

VARIABLES
    pc,         \* the next block of the example to run
    rc,         \* its rc
    p7,         \* "live" between wc_PKCS7_Init and wc_PKCS7_Free
    unloadRc    \* result of the exit block's UnloadHandle(rsaKey)

vars == <<pc, rc, p7, unloadRc, tpm, hnd, assigned, victims>>

ErrIo == -1         \* the example's own "-1" for a short read or write
BufferE == -132     \* BUFFER_E: the certificate is larger than der.buffer
OutSz == 1          \* a positive wc_PKCS7_EncodeSignedData size

Labels == {"init", "cryptoCb", "srk", "rsaKey", "der",
           "svInit", "svCert", "svEncode", "svFile",
           "svTpmInit", "svTpmCert", "svTpmVerify",
           "svSwInit", "svSwCert", "svSwVerify", "svEx", "exit", "done"}

\* Mutant: rsaKey left as the stack held it, without the memset of 324.
InitNoMemset ==
    /\ tpm \in [Slots -> {Free, "foreign"}]
    /\ hnd \in {f \in [HVars -> Slots \cup {Null}] :
                    \A v \in HVars \ {"rsaKey"} : f[v] = Null}
    /\ assigned = {} /\ victims = {}
    /\ pc = "init" /\ rc = 0 /\ p7 = "none" /\ unloadRc = 0

\* der, rsaKey and storageKey are zeroed before anything can fail (323-325).
Init ==
    /\ tpm \in [Slots -> {Free, "foreign"}]
    /\ hnd = [v \in HVars |-> Null]
    /\ assigned = {} /\ victims = {}
    /\ pc = "init" /\ rc = 0 /\ p7 = "none" /\ unloadRc = 0

\* A call whose only effect is its rc: 0 goes on to next, an error to the
\* exit block, or (for wolfTPM2_Init, 328-329) straight out.
Call(here, next, onError, errors) ==
    /\ pc = here
    /\ \E r \in {0} \cup errors :
        /\ rc' = r
        /\ pc' = IF r = 0 THEN next ELSE onError
    /\ UNCHANGED <<p7, unloadRc>> /\ UNCHANGED tpmVars

\* getPrimaryStoragekey (340-341): the persistent SRK, or a new primary
\* made persistent; a failed NVStoreKey leaves the transient primary.
GetSrk ==
    /\ pc = "srk"
    /\ \/ rc' = 0 /\ pc' = "rsaKey" /\ UNCHANGED tpmVars
       \/ \E r \in {RcFailure, RcObjectMemory} :
             /\ CreateFails(r) /\ rc' = r /\ pc' = "exit"
             /\ UNCHANGED tpmVars
       \/ CreateOk("storageKey") /\ rc' = RcFailure /\ pc' = "exit"
    /\ UNCHANGED <<p7, unloadRc>>

\* getRSAkey (344-357): the signing key is created and loaded into rsaKey,
\* which the crypto callback context points at (334).
GetRsaKey ==
    /\ pc = "rsaKey"
    /\ \/ CreateOk("rsaKey") /\ rc' = 0 /\ pc' = "der"
       \/ \E r \in {RcFailure, RcObjectMemory} :
             /\ CreateFails(r) /\ rc' = r /\ pc' = "exit"
             /\ UNCHANGED tpmVars
    /\ UNCHANGED <<p7, unloadRc>>

\* wc_PKCS7_Init (244, 275, 286): the structure is live from here on.
P7Init(here, next) ==
    /\ pc = here
    /\ \E r \in {0, ErrIo} :
        /\ rc' = r
        /\ pc' = IF r = 0 THEN next ELSE "exit"
        /\ p7' = IF r = 0 THEN "live" ELSE p7
    /\ UNCHANGED unloadRc /\ UNCHANGED tpmVars

\* wc_PKCS7_EncodeSignedData (255-258): signs through the TPM key; a size
\* is success, and the structure is freed only then.
Encode ==
    /\ pc = "svEncode"
    /\ \E r \in {OutSz, ErrIo} :
        /\ rc' = r
        /\ pc' = IF r > 0 THEN "svFile" ELSE "exit"
        /\ p7' = IF r > 0 THEN "none" ELSE p7
    /\ UNCHANGED unloadRc /\ UNCHANGED tpmVars

\* Writing the .p7s file (264-271): skipped if it cannot be opened; a short
\* write is an error.
WriteP7s ==
    /\ pc = "svFile"
    /\ \/ pc' = "svTpmInit" /\ UNCHANGED rc   \* not opened, or all written
       \/ rc' = ErrIo /\ pc' = "exit"
    /\ UNCHANGED <<p7, unloadRc>> /\ UNCHANGED tpmVars

\* Mutant: a verification failure returned at once instead of by goto exit.
P7VerifyReturns(here, next) ==
    /\ pc = here
    /\ \E r \in {0, ErrIo} :
        /\ rc' = r
        /\ pc' = IF r = 0 THEN next ELSE "done"
        /\ p7' = IF r = 0 THEN "none" ELSE p7
    /\ UNCHANGED unloadRc /\ UNCHANGED tpmVars

\* wc_PKCS7_VerifySignedData then wc_PKCS7_Free (279-281, 290-292).
P7Verify(here, next) ==
    /\ pc = here
    /\ \E r \in {0, ErrIo} :
        /\ rc' = r
        /\ pc' = IF r = 0 THEN next ELSE "exit"
        /\ p7' = IF r = 0 THEN "none" ELSE p7
    /\ UNCHANGED unloadRc /\ UNCHANGED tpmVars

\* The exit block (391-401): rsaKey is unloaded whatever the path, its
\* result dropped, and the device cleaned up.
ExitUnload ==
    /\ pc = "exit"
    /\ \E r \in {0, RcHandleH1, RcFailure} :
        /\ UnloadHandle("rsaKey", r)
        /\ unloadRc' = r
    /\ pc' = "done"
    /\ UNCHANGED <<rc, p7>>

Next ==
    \/ Call("init", "cryptoCb", "done", {RcFailure})
    \/ Call("cryptoCb", "srk", "exit", {ErrIo})
    \/ GetSrk
    \/ GetRsaKey
    \/ Call("der", "svInit", "exit", {BufferE, ErrIo})
    \/ P7Init("svInit", "svCert")
    \/ Call("svCert", "svEncode", "exit", {ErrIo})
    \/ Encode
    \/ WriteP7s
    \/ P7Init("svTpmInit", "svTpmCert")
    \/ Call("svTpmCert", "svTpmVerify", "exit", {ErrIo})
    \/ P7Verify("svTpmVerify", "svSwInit")
    \/ P7Init("svSwInit", "svSwCert")
    \/ Call("svSwCert", "svSwVerify", "exit", {ErrIo})
    \/ P7Verify("svSwVerify", "svEx")
    \/ Call("svEx", "exit", "exit", {ErrIo})   \* PKCS7_SignVerifyEx (387-388)
    \/ ExitUnload

Spec == Init /\ [][Next]_vars

-----------------------------------------------------------------------------

TypeOK ==
    /\ TpmTypeOK
    /\ pc \in Labels
    /\ rc \in {0, OutSz, ErrIo, BufferE, RcFailure, RcObjectMemory}
    /\ p7 \in {"none", "live"}
    /\ unloadRc \in {0, RcHandleH1, RcFailure}

\* Whatever path the example takes to its return, once the exit block's
\* UnloadHandle(rsaKey) (397) reports success no signing key is left in
\* the TPM: every failure after getRSAkey goes through the exit block.
RsaKeyReleased ==
    (pc = "done" /\ unloadRc = 0) => \A h \in Slots : tpm[h] # "rsaKey"

\* The exit block's unload never flushes an object of another program:
\* rsaKey is zeroed (324) before the first goto exit, so a path that fails
\* before getRSAkey unloads a NULL handle.
NoForeignFlush == \A x \in victims : x.owner # "foreign"

\* spec.md 5 and 9: a resource acquired mid-pipeline is released on every
\* exit path.  When PKCS7_SignVerify has returned, every PKCS7 structure
\* wc_PKCS7_Init set up has been given back by wc_PKCS7_Free; the code
\* frees it only after a success (257, 281, 292), never at exit (296).
P7FreedAtReturn == pc = "done" => p7 = "none"

=============================================================================
