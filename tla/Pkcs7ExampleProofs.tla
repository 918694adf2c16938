------------------------- MODULE Pkcs7ExampleProofs -------------------------
(***************************************************************************)
(* Proofs that the PKCS7 example releases its signing key and never       *)
(* flushes another program's object, for any set of TPM slots.            *)
(***************************************************************************)
EXTENDS Pkcs7Example, TLAPS

RsaH == hnd["rsaKey"]

(***************************************************************************)
(* The inductive invariant.  rsaKey's handle is NULL until getRSAkey      *)
(* loads the key, and names that key for as long as it is loaded; no     *)
(* other slot ever holds an rsaKey object.  So an unload through rsaKey  *)
(* flushes the signing key or nothing, and a successful exit unload       *)
(* leaves no signing key behind.                                           *)
(***************************************************************************)
KeyInv ==
    /\ victims = {}
    /\ \A h \in Slots : tpm[h] = "rsaKey" => RsaH = h
    /\ RsaH # Null => tpm[RsaH] = "rsaKey"
    /\ pc \in {"init", "cryptoCb", "srk", "rsaKey"} => RsaH = Null
    /\ (pc = "done" /\ unloadRc = 0) => RsaH = Null

IInv == TypeOK /\ KeyInv

USE SlotsAssumption, HVarsAssumption, ExampleHVarsAssumption
    DEF Null, Free, RcSuccess, RcFailure, RcObjectMemory, RcHandleH1,
        ErrIo, BufferE, OutSz, Owners

\* The example starts with rsaKey zeroed and nothing flushed.
LEMMA InitIInv == Init => IInv
BY DEF Init, IInv, TypeOK, TpmTypeOK, KeyInv, RsaH, Labels

\* A step that leaves the TPM objects alone and moves pc within Labels keeps
\* the invariant, provided it does not leave the states before getRSAkey
\* for "done" with a stale unload result.
LEMMA StepKeepsTpm ==
    ASSUME IInv, UNCHANGED tpmVars, UNCHANGED unloadRc,
           pc' \in Labels, p7' \in {"none", "live"},
           rc' \in {0, OutSz, ErrIo, BufferE, RcFailure, RcObjectMemory},
           pc' \in {"init", "cryptoCb", "srk", "rsaKey"} \/ pc' = "done"
               => RsaH = Null
    PROVE  IInv'
BY DEF IInv, TypeOK, TpmTypeOK, KeyInv, RsaH, tpmVars

\* A successful creation through storageKey does not touch rsaKey's key.
LEMMA CreateStorageKeepsKey ==
    ASSUME IInv, CreateOk("storageKey")
    PROVE  /\ TpmTypeOK'
           /\ KeyInv!1' /\ KeyInv!2' /\ KeyInv!3'
           /\ RsaH' = RsaH
<1>1. PICK h \in FreeSlots :
        /\ tpm' = [tpm EXCEPT ![h] = "storageKey"]
        /\ hnd' = [hnd EXCEPT !["storageKey"] = h]
        /\ assigned' = assigned \cup {"storageKey"}
        /\ victims' = victims
  BY DEF CreateOk
<1>2. h \in Slots /\ tpm[h] = Free
  BY <1>1 DEF FreeSlots
<1>3. RsaH' = RsaH
  BY <1>1 DEF IInv, TypeOK, TpmTypeOK, RsaH
<1>4. RsaH # Null => RsaH # h
  BY <1>2 DEF IInv, KeyInv
<1>. QED
  BY <1>1, <1>2, <1>3, <1>4 DEF IInv, TypeOK, TpmTypeOK, KeyInv, RsaH

\* Loading the signing key while rsaKey is NULL leaves exactly one rsaKey
\* object, the one rsaKey names.
LEMMA CreateRsaKey ==
    ASSUME IInv, RsaH = Null, CreateOk("rsaKey")
    PROVE  /\ TpmTypeOK'
           /\ KeyInv!1' /\ KeyInv!2' /\ KeyInv!3'
           /\ RsaH' # Null
<1>1. PICK h \in FreeSlots :
        /\ tpm' = [tpm EXCEPT ![h] = "rsaKey"]
        /\ hnd' = [hnd EXCEPT !["rsaKey"] = h]
        /\ assigned' = assigned \cup {"rsaKey"}
        /\ victims' = victims
  BY DEF CreateOk
<1>2. h \in Slots /\ tpm[h] = Free
  BY <1>1 DEF FreeSlots
<1>3. \A x \in Slots : tpm[x] # "rsaKey"
  BY DEF IInv, KeyInv
<1>. QED
  BY <1>1, <1>2, <1>3 DEF IInv, TypeOK, TpmTypeOK, KeyInv, RsaH

\* The exit block's unload through rsaKey flushes the signing key or
\* nothing, and a success leaves rsaKey NULL.
LEMMA UnloadRsaKey ==
    ASSUME IInv, NEW r, UnloadHandle("rsaKey", r)
    PROVE  /\ TpmTypeOK'
           /\ KeyInv!1' /\ KeyInv!2' /\ KeyInv!3'
           /\ r \in {0, RcHandleH1, RcFailure}
           /\ r = 0 => RsaH' = Null
<1>1. CASE RsaH = Null /\ r = RcSuccess /\ UNCHANGED tpmVars
  BY <1>1 DEF IInv, TypeOK, TpmTypeOK, KeyInv, RsaH, tpmVars
<1>2. CASE RsaH # Null /\ tpm[RsaH] = Free
  BY <1>2 DEF IInv, KeyInv
<1>3. CASE RsaH # Null /\ tpm[RsaH] # Free /\ r = RcFailure
           /\ UNCHANGED tpmVars
  BY <1>3 DEF IInv, TypeOK, TpmTypeOK, KeyInv, RsaH, tpmVars
<1>4. CASE /\ RsaH # Null /\ tpm[RsaH] # Free /\ r = RcSuccess
           /\ tpm' = [tpm EXCEPT ![RsaH] = Free]
           /\ hnd' = [hnd EXCEPT !["rsaKey"] = Null]
           /\ victims' = IF tpm[RsaH] = "rsaKey" THEN victims
                         ELSE victims \cup {[by |-> "rsaKey",
                                             owner |-> tpm[RsaH],
                                             set |-> "rsaKey" \in assigned]}
           /\ UNCHANGED assigned
  <2>1. tpm[RsaH] = "rsaKey" /\ RsaH \in Slots
    BY <1>4 DEF IInv, KeyInv, TypeOK, TpmTypeOK, RsaH
  <2>. QED
    BY <1>4, <2>1 DEF IInv, TypeOK, TpmTypeOK, KeyInv, RsaH
<1>. QED
  BY <1>1, <1>2, <1>3, <1>4 DEF UnloadHandle, RsaH

\* Every step of the example keeps the invariant.
LEMMA NextIInv == IInv /\ [Next]_vars => IInv'
<1> SUFFICES ASSUME IInv, [Next]_vars PROVE IInv'
  OBVIOUS
<1>1. CASE Call("init", "cryptoCb", "done", {RcFailure})
  <2>1. RsaH = Null
    BY <1>1 DEF Call, IInv, KeyInv
  <2>. QED
    BY <1>1, <2>1, StepKeepsTpm DEF Call, IInv, TypeOK, Labels
<1>2. CASE Call("cryptoCb", "srk", "exit", {ErrIo})
  BY <1>2, StepKeepsTpm DEF Call, IInv, TypeOK, KeyInv, Labels
<1>3. CASE GetSrk
  <2>1. RsaH = Null
    BY <1>3 DEF GetSrk, IInv, KeyInv
  <2>2. CASE rc' = 0 /\ pc' = "rsaKey" /\ UNCHANGED tpmVars
            /\ UNCHANGED <<p7, unloadRc>>
    BY <2>1, <2>2, StepKeepsTpm DEF IInv, TypeOK, Labels
  <2>3. CASE \E r \in {RcFailure, RcObjectMemory} :
               /\ CreateFails(r) /\ rc' = r /\ pc' = "exit"
               /\ UNCHANGED tpmVars
             /\ UNCHANGED <<p7, unloadRc>>
    BY <2>1, <2>3, StepKeepsTpm DEF IInv, TypeOK, Labels
  <2>4. CASE CreateOk("storageKey") /\ rc' = RcFailure /\ pc' = "exit"
             /\ UNCHANGED <<p7, unloadRc>>
    BY <2>4, CreateStorageKeepsKey DEF IInv, TypeOK, KeyInv, Labels
  <2>. QED
    BY <1>3, <2>2, <2>3, <2>4 DEF GetSrk
<1>4. CASE GetRsaKey
  <2>1. RsaH = Null
    BY <1>4 DEF GetRsaKey, IInv, KeyInv
  <2>2. CASE CreateOk("rsaKey") /\ rc' = 0 /\ pc' = "der"
             /\ UNCHANGED <<p7, unloadRc>>
    BY <2>1, <2>2, CreateRsaKey DEF IInv, TypeOK, KeyInv, Labels
  <2>3. CASE \E r \in {RcFailure, RcObjectMemory} :
               /\ CreateFails(r) /\ rc' = r /\ pc' = "exit"
               /\ UNCHANGED tpmVars
             /\ UNCHANGED <<p7, unloadRc>>
    BY <2>1, <2>3, StepKeepsTpm DEF IInv, TypeOK, Labels
  <2>. QED
    BY <1>4, <2>2, <2>3 DEF GetRsaKey
<1>5. CASE Call("der", "svInit", "exit", {BufferE, ErrIo})
  BY <1>5, StepKeepsTpm DEF Call, IInv, TypeOK, KeyInv, Labels
<1>6. CASE \/ P7Init("svInit", "svCert")
           \/ P7Init("svTpmInit", "svTpmCert")
           \/ P7Init("svSwInit", "svSwCert")
  BY <1>6, StepKeepsTpm DEF P7Init, IInv, TypeOK, KeyInv, Labels
<1>7. CASE \/ Call("svCert", "svEncode", "exit", {ErrIo})
           \/ Call("svTpmCert", "svTpmVerify", "exit", {ErrIo})
           \/ Call("svSwCert", "svSwVerify", "exit", {ErrIo})
           \/ Call("svEx", "exit", "exit", {ErrIo})
  BY <1>7, StepKeepsTpm DEF Call, IInv, TypeOK, KeyInv, Labels
<1>8. CASE Encode
  BY <1>8, StepKeepsTpm DEF Encode, IInv, TypeOK, KeyInv, Labels
<1>9. CASE WriteP7s
  BY <1>9, StepKeepsTpm DEF WriteP7s, IInv, TypeOK, KeyInv, Labels
<1>10. CASE P7Verify("svTpmVerify", "svSwInit") \/ P7Verify("svSwVerify", "svEx")
  BY <1>10, StepKeepsTpm DEF P7Verify, IInv, TypeOK, KeyInv, Labels
<1>11. CASE ExitUnload
  <2>1. PICK r \in {0, RcHandleH1, RcFailure} :
          UnloadHandle("rsaKey", r) /\ unloadRc' = r
    BY <1>11 DEF ExitUnload
  <2>2. /\ TpmTypeOK'
        /\ KeyInv!1' /\ KeyInv!2' /\ KeyInv!3'
        /\ r = 0 => RsaH' = Null
    BY <2>1, UnloadRsaKey
  <2>. QED
    BY <1>11, <2>1, <2>2 DEF ExitUnload, IInv, TypeOK, KeyInv, Labels
<1>12. CASE UNCHANGED vars
  BY <1>12 DEF vars, IInv, TypeOK, TpmTypeOK, KeyInv, RsaH
<1>. QED
  BY <1>1, <1>2, <1>3, <1>4, <1>5, <1>6, <1>7, <1>8, <1>9, <1>10,
     <1>11, <1>12 DEF Next

\* The invariant holds in every reachable state.
THEOREM KeyInvariant == Spec => []IInv
BY InitIInv, NextIInv, PTL DEF Spec

\* Type correctness of the example's state.
THEOREM ExampleTypeCorrect == Spec => []TypeOK
<1>1. IInv => TypeOK
  BY DEF IInv
<1>. QED
  BY <1>1, KeyInvariant, PTL

\* Whatever path TPM2_PKCS7_ExampleArgs takes to its return, a successful
\* UnloadHandle of rsaKey in the exit block (pkcs7.c 397) leaves no
\* signing key in the TPM, for any number of TPM slots.
THEOREM KeyReleased == Spec => []RsaKeyReleased
<1>1. IInv => RsaKeyReleased
  BY DEF IInv, KeyInv, RsaKeyReleased, RsaH, TypeOK, TpmTypeOK
<1>. QED
  BY <1>1, KeyInvariant, PTL

\* The example's exit block never flushes another program's TPM object:
\* rsaKey is zeroed (pkcs7.c 324) before any path can reach the unload.
THEOREM NoForeignFlushHolds == Spec => []NoForeignFlush
<1>1. IInv => NoForeignFlush
  BY DEF IInv, KeyInv, NoForeignFlush
<1>. QED
  BY <1>1, KeyInvariant, PTL

=============================================================================
