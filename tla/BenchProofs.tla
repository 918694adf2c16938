------------------------------ MODULE BenchProofs ------------------------------
(***************************************************************************)
(* Proofs about Bench for every set of slots, every set of handle         *)
(* variables and every loop bound: the type invariant, KeysNotStacked and *)
(* FlushesOwnObject.  None is inductive alone; the strengthening says     *)
(* which key objects may exist at each label (KeyInv) and which handles   *)
(* name the objects created through them (OwnInv).                        *)
(***************************************************************************)
EXTENDS BenchShared, FiniteSetTheorems, TLAPS

Kinds == {"rsaKey", "eccKey"}

\* The slots holding an object created through v.
Held(v) == {h \in Slots : tpm[h] = v}

Pre == {"init", "srk", "rng", "aesCreate", "aesRun", "aesExit",
        "hashStart", "hashUpdate", "hashFinish", "hashExit"}
RsaPhase == {"rsaGen", "rsaCreate", "rsaOps", "rsaUnload"}
EccPhase == {"eccGen", "eccCreate", "eccOps", "eccUnload",
             "ecdhCreate", "ecdhOps", "ecdhUnload"}
LoopLabels == {"aesRun", "hashStart", "hashUpdate", "hashFinish",
               "rsaGen", "rsaCreate", "eccGen", "eccCreate"}

\* A bench_stats loop has always one more iteration to count.
CountInv == pc \in LoopLabels => count < MaxIter

(***************************************************************************)
(* A key object is named by its variable's handle, so it is the only one *)
(* of its kind; RSA and ECC objects never coexist; and at each label the  *)
(* keys the next creation could stack on are known to be gone.            *)
(***************************************************************************)
KeysNamed == \A h \in Slots : tpm[h] \in Kinds => hnd[tpm[h]] = h

KeyInv ==
    /\ KeysNamed
    /\ Held("rsaKey") = {} \/ Held("eccKey") = {}
    /\ pc \in Pre => Held("rsaKey") = {} /\ Held("eccKey") = {}
    /\ pc \in RsaPhase => Held("eccKey") = {}
    /\ pc \in EccPhase => Held("rsaKey") = {}
    /\ pc = "rsaCreate" \/ (pc = "rsaGen" /\ count = 0) => Held("rsaKey") = {}
    /\ pc \in {"eccCreate", "ecdhCreate"} \/ (pc = "eccGen" /\ count = 0)
          => Held("eccKey") = {}

(***************************************************************************)
(* Until the exit block, the handle of every variable the program wrote   *)
(* names the object created through it (or is NULL); rsaKey's unload at   *)
(* exitRsa may go through a handle never written, but eccKey, if written, *)
(* still names its object at exitEcc; each unload before the exit block   *)
(* goes through a written handle.                                          *)
(***************************************************************************)
\* Every handle the program wrote names the object created through it.
OwnsAll == \A v \in assigned : hnd[v] # Null => tpm[hnd[v]] = v

\* eccKey, if written, names its own object.
EccOwned ==
    "eccKey" \in assigned /\ hnd["eccKey"] # Null => tpm[hnd["eccKey"]] = "eccKey"

\* The labels at which rsaKey, or eccKey, has been written: from its first
\* creation until the exit block.
RsaNeeded(p, c) ==
    \/ p \in EccPhase \cup {"rsaOps", "rsaUnload"}
    \/ p \in {"rsaGen", "rsaCreate"} /\ c > 0
EccNeeded(p, c) ==
    \/ p \in {"eccOps", "eccUnload", "ecdhOps", "ecdhUnload"}
    \/ p \in {"eccGen", "eccCreate"} /\ c > 0

\* Handles of the variables other than the two keys are written before use.
NonKeysWritten == \A v \in HVars \ Kinds : hnd[v] # Null => v \in assigned

OwnInv ==
    /\ NonKeysWritten
    /\ pc \notin {"exitEcc", "done"} => OwnsAll
    /\ pc = "exitEcc" => EccOwned
    /\ "eccKey" \in assigned => "rsaKey" \in assigned
    /\ RsaNeeded(pc, count) => "rsaKey" \in assigned
    /\ EccNeeded(pc, count) => "eccKey" \in assigned

IInv == TypeOK /\ CountInv /\ KeyInv /\ OwnInv /\ FlushesOwnObject

-----------------------------------------------------------------------------
USE MaxIterAssumption, SlotsAssumption, HVarsAssumption, BenchHVarsAssumption

(***************************************************************************)
(* The wrapper calls keep the object table well-typed.                     *)
(***************************************************************************)
LEMMA CreateOkType ==
    ASSUME TpmTypeOK, NEW v \in HVars, CreateOk(v)
    PROVE  TpmTypeOK'
  BY DEF CreateOk, TpmTypeOK, FreeSlots, Owners

LEMMA UnloadType ==
    ASSUME TpmTypeOK, NEW v \in HVars, NEW r, UnloadHandle(v, r)
    PROVE  TpmTypeOK' /\ r \in {RcSuccess, RcHandleH1, RcFailure}
  <1> DEFINE h == hnd[v]
  <1>1. CASE h = Null /\ r = RcSuccess /\ UNCHANGED tpmVars
    BY <1>1 DEF tpmVars, TpmTypeOK
  <1>2. CASE h # Null /\ r \in {RcHandleH1, RcFailure} /\ UNCHANGED tpmVars
    BY <1>2 DEF tpmVars, TpmTypeOK
  <1>3. CASE /\ h # Null
             /\ tpm[h] # Free
             /\ r = RcSuccess
             /\ tpm' = [tpm EXCEPT ![h] = Free]
             /\ hnd' = [hnd EXCEPT ![v] = Null]
             /\ victims' = IF tpm[h] = v THEN victims
                           ELSE victims \cup {[by |-> v, owner |-> tpm[h],
                                               set |-> v \in assigned]}
             /\ UNCHANGED assigned
    <2>1. h \in Slots
      BY <1>3 DEF TpmTypeOK
    <2>2. tpm' \in [Slots -> Owners] /\ hnd' \in [HVars -> Slots \cup {Null}]
      BY <1>3, <2>1 DEF TpmTypeOK, Owners, Free
    <2>3. [by |-> v, owner |-> tpm[h], set |-> v \in assigned]
            \in [by : HVars, owner : Owners, set : BOOLEAN]
      <3>1. tpm[h] \in Owners
        BY <2>1 DEF TpmTypeOK
      <3>2. (v \in assigned) \in BOOLEAN
        OBVIOUS
      <3>3. QED
        BY <3>1, <3>2, Zenon
    <2>4. victims' \subseteq [by : HVars, owner : Owners, set : BOOLEAN]
      BY <1>3, <2>3 DEF TpmTypeOK
    <2>5. QED
      BY <1>3, <2>2, <2>4 DEF TpmTypeOK
  <1>4. QED
    BY <1>1, <1>2, <1>3 DEF UnloadHandle

LEMMA ConsumedType ==
    ASSUME TpmTypeOK, NEW v \in HVars, Consumed(v)
    PROVE  TpmTypeOK'
  BY DEF Consumed, TpmTypeOK, Owners, Null

LEMMA UseRcRange ==
    ASSUME NEW v, NEW ok
    PROVE  UseRc(v, ok) \subseteq ok \cup {RcReferenceH0, RcFailure}
  BY DEF UseRc

LEMMA InitIInvType == Init => TypeOK /\ CountInv
  <1> SUFFICES ASSUME Init PROVE TypeOK /\ CountInv
    OBVIOUS
  <1>1. tpm \in [Slots -> Owners]
    BY DEF Init, Owners, Free
  <1>2. hnd \in [HVars -> Slots \cup {Null}]
    BY DEF Init
  <1>3. QED
    BY <1>1, <1>2 DEF Init, TypeOK, TpmTypeOK, CountInv, Labels, LoopLabels,
       AesCalls

LEMMA NextType == TypeOK /\ CountInv /\ [Next]_vars => TypeOK' /\ CountInv'
  <1> SUFFICES ASSUME TypeOK, CountInv, [Next]_vars
               PROVE  TypeOK' /\ CountInv'
    OBVIOUS
  <1>. USE DEF TypeOK, CountInv, Labels, LoopLabels, RcSuccess, RcHashP1,
               RcHandleH1, RcReferenceH0, RcCommandCode, RcFailure, RcObjectMemory,
               tpmVars, TpmTypeOK, AesCalls, HashCalls, Owners, Null, Free
  <1>1. CASE BenchInit
    BY <1>1 DEF BenchInit
  <1>2. CASE StorageKey
    BY <1>2, CreateOkType DEF StorageKey
  <1>3. CASE Rng
    BY <1>3 DEF Rng, AesCalls
  <1>4. CASE AesCreate
    BY <1>4, CreateOkType DEF AesCreate, TpmTypeOK, Null
  <1>5. CASE AesRun
    BY <1>5, UseRcRange DEF AesRun, LoopAgain
  <1>6. CASE AesExit
    BY <1>6, UnloadType DEF AesExit, AesCalls
  <1>7. CASE HashStart
    BY <1>7, CreateOkType DEF HashStart, CreateFails
  <1>8. CASE HashUpdate
    BY <1>8, UseRcRange DEF HashUpdate
  <1>9. CASE HashFinish
    BY <1>9, UseRcRange, ConsumedType DEF HashFinish, LoopAgain
  <1>10. CASE HashExit
    BY <1>10 DEF HashExit, HashCalls, AesCalls
  <1>13. ASSUME NEW v \in Kinds, NEW here, NEW next \in Labels \ LoopLabels,
                UseKey(v, here, next)
         PROVE  TypeOK' /\ CountInv'
    BY <1>13, UseRcRange DEF UseKey
  <1>15. ASSUME NEW here, NEW next \in Labels \ LoopLabels,
                CreateStep("eccKey", here, next)
         PROVE  TypeOK' /\ CountInv'
    BY <1>15, CreateOkType DEF CreateStep
  <1>16. ASSUME NEW v \in Kinds, NEW here, NEW next \in Labels \ LoopLabels,
                ExitUnload(v, here, next)
         PROVE  TypeOK' /\ CountInv'
    BY <1>16, UnloadType DEF ExitUnload, Kinds
  <1>17. CASE UNCHANGED vars
    BY <1>17 DEF vars, TpmTypeOK
  <1>18. CASE KeyGenUnload("rsaKey", "rsaGen", "rsaCreate")
    BY <1>18, UnloadType DEF KeyGenUnload
  <1>19. CASE KeyGenUnload("eccKey", "eccGen", "eccCreate")
    BY <1>19, UnloadType DEF KeyGenUnload
  <1>20. CASE KeyGenCreate("rsaKey", "rsaGen", "rsaCreate", "rsaOps")
    BY <1>20, CreateOkType DEF KeyGenCreate, LoopAgain
  <1>21. CASE KeyGenCreate("eccKey", "eccGen", "eccCreate", "eccOps")
    BY <1>21, CreateOkType DEF KeyGenCreate, LoopAgain
  <1>22. CASE \/ UseKey("rsaKey", "rsaOps", "rsaUnload")
              \/ UseKey("eccKey", "eccOps", "eccUnload")
              \/ UseKey("eccKey", "ecdhOps", "ecdhUnload")
    BY <1>22, <1>13 DEF Kinds
  <1>23. CASE \/ UnloadStep("rsaKey", "rsaUnload", "eccGen")
              \/ UnloadStep("eccKey", "eccUnload", "ecdhCreate")
              \/ UnloadStep("eccKey", "ecdhUnload", "exitRsa")
    BY <1>23, UnloadType DEF UnloadStep
  <1>24. CASE CreateStep("eccKey", "ecdhCreate", "ecdhOps")
    BY <1>24, <1>15
  <1>25. CASE \/ ExitUnload("rsaKey", "exitRsa", "exitEcc")
              \/ ExitUnload("eccKey", "exitEcc", "done")
    BY <1>25, <1>16 DEF Kinds
  <1>26. QED
    BY <1>1, <1>2, <1>3, <1>4, <1>5, <1>6, <1>7, <1>8, <1>9, <1>10, <1>17,
       <1>18, <1>19, <1>20, <1>21, <1>22, <1>23, <1>24, <1>25 DEF Next

(***************************************************************************)
(* A flush of slot h0 that resets u's handle, where u's handle named h0  *)
(* if u is a key variable (UnloadHandle, Consumed): key objects stay      *)
(* named by their handles, no variable gains an object, and u keeps none.*)
(***************************************************************************)
LEMMA FlushKeys ==
    ASSUME TpmTypeOK, KeysNamed, NEW h0 \in Slots, NEW u \in HVars,
           u \in Kinds => hnd[u] = h0,
           tpm' = [tpm EXCEPT ![h0] = Free],
           hnd' = [hnd EXCEPT ![u] = Null]
    PROVE  /\ KeysNamed'
           /\ \A w \in HVars : Held(w)' \subseteq Held(w)
           /\ u \in Kinds => Held(u)' = {}
  <1>1. KeysNamed'
    BY DEF KeysNamed, TpmTypeOK, Kinds, Free
  <1>2. \A w \in HVars : Held(w)' \subseteq Held(w)
    BY DEF Held, TpmTypeOK, Free
  <1>3. u \in Kinds => Held(u)' = {}
    BY DEF Held, KeysNamed, TpmTypeOK, Kinds, Free
  <1>4. QED
    BY <1>1, <1>2, <1>3

LEMMA UnloadKeys ==
    ASSUME TpmTypeOK, KeysNamed, NEW v \in HVars, NEW r, UnloadHandle(v, r)
    PROVE  /\ KeysNamed'
           /\ \A w \in HVars : Held(w)' \subseteq Held(w)
           /\ r = 0 /\ v \in Kinds => Held(v)' = {}
  <1> DEFINE hv == hnd[v]
  <1>1. CASE hv = Null /\ UNCHANGED tpmVars
    <2>1. v \in Kinds => Held(v) = {}
      <3> SUFFICES ASSUME v \in Kinds, NEW s \in Slots, tpm[s] = v
                   PROVE  FALSE
        BY DEF Held
      <3>1. hnd[v] = s
        BY DEF KeysNamed
      <3>2. s # Null
        BY SlotsAssumption DEF Null
      <3>3. QED
        BY <1>1, <3>1, <3>2
    <2>2. QED
      BY <1>1, <2>1 DEF tpmVars, KeysNamed, Held
  <1>2. CASE hv # Null /\ UNCHANGED tpmVars /\ r # 0
    BY <1>2 DEF tpmVars, KeysNamed, Held
  <1>3. CASE /\ hv # Null
             /\ tpm' = [tpm EXCEPT ![hv] = Free]
             /\ hnd' = [hnd EXCEPT ![v] = Null]
    BY <1>3, FlushKeys DEF TpmTypeOK, Null
  <1>4. QED
    BY <1>1, <1>2, <1>3 DEF UnloadHandle, RcHandleH1, RcFailure, RcSuccess

LEMMA ConsumedKeys ==
    ASSUME TpmTypeOK, KeysNamed, Consumed("hash")
    PROVE  /\ KeysNamed'
           /\ \A w \in HVars : Held(w)' \subseteq Held(w)
  BY FlushKeys DEF Consumed, TpmTypeOK, Null, Kinds

\* A creation through v, where v held no key object if v is a key variable.
LEMMA CreateKeys ==
    ASSUME TpmTypeOK, KeysNamed, NEW v \in HVars, CreateOk(v),
           v \in Kinds => Held(v) = {}
    PROVE  /\ KeysNamed'
           /\ \A w \in HVars \ {v} : Held(w)' = Held(w)
  <1>1. PICK h \in FreeSlots :
           /\ tpm' = [tpm EXCEPT ![h] = v]
           /\ hnd' = [hnd EXCEPT ![v] = h]
    BY DEF CreateOk
  <1>2. KeysNamed'
    BY <1>1 DEF KeysNamed, TpmTypeOK, FreeSlots, Held, Kinds, Free
  <1>3. \A w \in HVars \ {v} : Held(w)' = Held(w)
    BY <1>1, HVarsAssumption DEF Held, TpmTypeOK, FreeSlots, Free
  <1>4. QED
    BY <1>2, <1>3


\* A step that leaves the object table alone leaves the key objects alone.
LEMMA UnchangedKeys ==
    ASSUME KeysNamed, UNCHANGED tpmVars
    PROVE  /\ KeysNamed'
           /\ \A w \in HVars : Held(w)' = Held(w)
  BY DEF KeysNamed, Held, tpmVars

LEMMA InitKeyInv == Init => KeyInv
  <1> SUFFICES ASSUME Init PROVE KeyInv
    OBVIOUS
  <1>1. \A w \in Kinds : Held(w) = {}
    BY DEF Init, Held, Kinds, Free
  <1>2. KeysNamed
    BY DEF Init, KeysNamed, Kinds, Free
  <1>3. QED
    BY <1>1, <1>2 DEF Init, KeyInv, Kinds


(***************************************************************************)
(* Every step keeps KeyInv: a key object is created only where KeyInv     *)
(* says neither kind is held, every other step only flushes, and the      *)
(* labels that need a kind gone are reached by an unload of it that       *)
(* succeeded.                                                              *)
(***************************************************************************)
LEMMA NextKeyInv == TypeOK /\ KeyInv /\ [Next]_vars => KeyInv'
  <1> SUFFICES ASSUME TypeOK, KeyInv, [Next]_vars PROVE KeyInv'
    OBVIOUS
  <1>. USE DEF TypeOK, KeyInv, Pre, RsaPhase, EccPhase, Kinds
  <1>1. CASE BenchInit \/ Rng \/ AesRun \/ HashUpdate \/ HashExit
    BY <1>1, UnchangedKeys
       DEF BenchInit, Rng, AesRun, LoopAgain, HashUpdate, HashExit
  <1>2. CASE StorageKey
    <2>1. CASE UNCHANGED tpmVars
      BY <1>2, <2>1, UnchangedKeys DEF StorageKey
    <2>2. CASE CreateOk("storageKey")
      BY <1>2, <2>2, CreateKeys DEF StorageKey
    <2>3. QED
      BY <1>2, <2>1, <2>2 DEF StorageKey
  <1>3. CASE AesCreate
    <2>1. CASE CreateOk("aesKey")
      BY <1>3, <2>1, CreateKeys DEF AesCreate
    <2>2. CASE /\ hnd' = [hnd EXCEPT !["aesKey"] = Null]
               /\ UNCHANGED <<tpm, assigned, victims>>
               /\ pc' = "aesExit"
      <3>1. KeysNamed' /\ \A w \in HVars : Held(w)' = Held(w)
        BY <2>2 DEF KeysNamed, Held, TpmTypeOK
      <3>2. QED
        BY <1>3, <2>2, <3>1 DEF AesCreate
    <2>3. QED
      BY <1>3, <2>1, <2>2 DEF AesCreate
  <1>4. CASE AesExit
    BY <1>4, UnloadKeys DEF AesExit
  <1>5. CASE HashStart
    <2>1. CASE CreateOk("hash")
      BY <1>5, <2>1, CreateKeys DEF HashStart
    <2>2. CASE UNCHANGED tpmVars
      BY <1>5, <2>2, UnchangedKeys DEF HashStart
    <2>3. QED
      BY <1>5, <2>1, <2>2 DEF HashStart
  <1>6. CASE HashFinish
    <2>1. CASE Consumed("hash") /\ LoopAgain("hashStart", "hashExit")
      BY <1>6, <2>1, ConsumedKeys DEF HashFinish, LoopAgain
    <2>2. CASE UNCHANGED tpmVars /\ pc' = "hashExit"
      BY <1>6, <2>2, UnchangedKeys DEF HashFinish
    <2>3. QED
      BY <1>6, <2>1, <2>2 DEF HashFinish
  <1>7. ASSUME NEW v \in Kinds, NEW here, NEW create,
               \/ v = "rsaKey" /\ here = "rsaGen" /\ create = "rsaCreate"
               \/ v = "eccKey" /\ here = "eccGen" /\ create = "eccCreate",
               KeyGenUnload(v, here, create)
        PROVE  KeyInv'
    <2>1. CASE count > 0
      <3>1. PICK r \in {0, RcHandleH1, RcFailure} :
               /\ UnloadHandle(v, r)
               /\ pc' = IF r = 0 THEN create ELSE "exitRsa"
        BY <1>7, <2>1 DEF KeyGenUnload
      <3>2. /\ KeysNamed'
            /\ Held("rsaKey")' \subseteq Held("rsaKey")
            /\ Held("eccKey")' \subseteq Held("eccKey")
            /\ r = 0 => Held(v)' = {}
        BY <3>1, UnloadKeys
      <3>3. UNCHANGED count
        BY <1>7 DEF KeyGenUnload
      <3>4. CASE r = 0 /\ v = "rsaKey"
        <4>1. pc = "rsaGen" /\ pc' = "rsaCreate"
          BY <1>7, <3>1, <3>4 DEF KeyGenUnload
        <4>2. Held("rsaKey")' = {} /\ Held("eccKey")' = {}
          BY <3>2, <3>4, <4>1
        <4>3. QED
          BY <4>1, <4>2, <3>2 DEF KeyInv
      <3>5. CASE r = 0 /\ v = "eccKey"
        <4>1. pc = "eccGen" /\ pc' = "eccCreate"
          BY <1>7, <3>1, <3>5 DEF KeyGenUnload
        <4>2. Held("rsaKey")' = {} /\ Held("eccKey")' = {}
          BY <3>2, <3>5, <4>1
        <4>3. QED
          BY <4>1, <4>2, <3>2 DEF KeyInv
      <3>6. CASE r # 0
        <4>1. pc' = "exitRsa"
          BY <3>1, <3>6
        <4>2. Held("rsaKey")' = {} \/ Held("eccKey")' = {}
          BY <3>2
        <4>3. QED
          BY <4>1, <4>2, <3>2 DEF KeyInv
      <3>7. QED
        BY <1>7, <3>4, <3>5, <3>6
    <2>2. CASE count = 0
      BY <1>7, <2>2, UnchangedKeys DEF KeyGenUnload
    <2>3. QED
      BY <2>1, <2>2
  <1>8. ASSUME NEW v \in Kinds, NEW here, NEW create, NEW next,
               \/ v = "rsaKey" /\ here = "rsaGen" /\ create = "rsaCreate"
                  /\ next = "rsaOps"
               \/ v = "eccKey" /\ here = "eccGen" /\ create = "eccCreate"
                  /\ next = "eccOps",
               KeyGenCreate(v, here, create, next)
        PROVE  KeyInv'
    <2>1. CASE CreateOk(v) /\ LoopAgain(here, next)
      <3>1. pc = create /\ count' # 0 /\ pc' \in {here, next}
        BY <1>8, <2>1 DEF KeyGenCreate, LoopAgain
      <3>2. Held(v) = {}
        BY <1>8, <3>1
      <3>3. KeysNamed' /\ \A w \in HVars \ {v} : Held(w)' = Held(w)
        BY <2>1, <3>2, CreateKeys
      <3>4. CASE v = "rsaKey"
        <4>1. Held("eccKey")' = {}
          BY <1>8, <3>1, <3>3, <3>4
        <4>2. QED
          BY <1>8, <3>1, <3>3, <3>4, <4>1
      <3>5. CASE v = "eccKey"
        <4>1. Held("rsaKey")' = {}
          BY <1>8, <3>1, <3>3, <3>5
        <4>2. QED
          BY <1>8, <3>1, <3>3, <3>5, <4>1
      <3>6. QED
        BY <3>4, <3>5
    <2>2. CASE UNCHANGED tpmVars /\ pc' = "exitRsa"
      BY <1>8, <2>2, UnchangedKeys DEF KeyGenCreate
    <2>3. QED
      BY <1>8, <2>1, <2>2 DEF KeyGenCreate
  <1>10. ASSUME NEW v \in Kinds, NEW here, NEW next, UnloadStep(v, here, next),
                \/ v = "rsaKey" /\ here = "rsaUnload" /\ next = "eccGen"
                \/ v = "eccKey" /\ here = "eccUnload" /\ next = "ecdhCreate"
                \/ v = "eccKey" /\ here = "ecdhUnload" /\ next = "exitRsa"
         PROVE  KeyInv'
    <2>1. PICK r \in {0, RcHandleH1, RcFailure} :
             /\ UnloadHandle(v, r)
             /\ pc' = IF r = 0 THEN next ELSE "exitRsa"
      BY <1>10 DEF UnloadStep
    <2>2. /\ KeysNamed'
          /\ Held("rsaKey")' \subseteq Held("rsaKey")
          /\ Held("eccKey")' \subseteq Held("eccKey")
          /\ r = 0 => Held(v)' = {}
      BY <2>1, UnloadKeys
    <2>3. pc = here /\ count' = 0
      BY <1>10 DEF UnloadStep
    <2>4. QED
      BY <1>10, <2>1, <2>2, <2>3
  <1>11. CASE CreateStep("eccKey", "ecdhCreate", "ecdhOps")
    <2>1. CASE CreateOk("eccKey")
      BY <1>11, <2>1, CreateKeys DEF CreateStep
    <2>2. CASE UNCHANGED tpmVars
      BY <1>11, <2>2, UnchangedKeys DEF CreateStep
    <2>3. QED
      BY <1>11, <2>1, <2>2 DEF CreateStep
  <1>12. ASSUME NEW v \in Kinds, NEW here, NEW next, ExitUnload(v, here, next),
                next \in {"exitEcc", "done"}
         PROVE  KeyInv'
    BY <1>12, UnloadKeys DEF ExitUnload
  <1>13. CASE UNCHANGED vars
    BY <1>13, UnchangedKeys DEF vars, tpmVars
  <1>14. CASE KeyGenUnload("rsaKey", "rsaGen", "rsaCreate")
    BY <1>14, <1>7
  <1>15. CASE KeyGenUnload("eccKey", "eccGen", "eccCreate")
    BY <1>15, <1>7
  <1>16. CASE KeyGenCreate("rsaKey", "rsaGen", "rsaCreate", "rsaOps")
    BY <1>16, <1>8
  <1>17. CASE KeyGenCreate("eccKey", "eccGen", "eccCreate", "eccOps")
    BY <1>17, <1>8
  <1>18. CASE UseKey("rsaKey", "rsaOps", "rsaUnload")
    <2>1. KeysNamed' /\ Held("rsaKey")' = Held("rsaKey")
          /\ Held("eccKey")' = Held("eccKey")
      BY <1>18, UnchangedKeys DEF UseKey
    <2>2. QED
      BY <1>18, <2>1 DEF UseKey
  <1>19. CASE UseKey("eccKey", "eccOps", "eccUnload")
    <2>1. KeysNamed' /\ Held("rsaKey")' = Held("rsaKey")
          /\ Held("eccKey")' = Held("eccKey")
      BY <1>19, UnchangedKeys DEF UseKey
    <2>2. QED
      BY <1>19, <2>1 DEF UseKey
  <1>20. CASE UseKey("eccKey", "ecdhOps", "ecdhUnload")
    <2>1. KeysNamed' /\ Held("rsaKey")' = Held("rsaKey")
          /\ Held("eccKey")' = Held("eccKey")
      BY <1>20, UnchangedKeys DEF UseKey
    <2>2. QED
      BY <1>20, <2>1 DEF UseKey
  <1>21. CASE UnloadStep("rsaKey", "rsaUnload", "eccGen")
    BY <1>21, <1>10
  <1>22. CASE UnloadStep("eccKey", "eccUnload", "ecdhCreate")
    BY <1>22, <1>10
  <1>23. CASE UnloadStep("eccKey", "ecdhUnload", "exitRsa")
    BY <1>23, <1>10
  <1>24. CASE ExitUnload("rsaKey", "exitRsa", "exitEcc")
    BY <1>24, <1>12
  <1>25. CASE ExitUnload("eccKey", "exitEcc", "done")
    BY <1>25, <1>12
  <1>26. QED
    BY <1>1, <1>2, <1>3, <1>4, <1>5, <1>6, <1>11, <1>13, <1>14, <1>15, <1>16,
       <1>17, <1>18, <1>19, <1>20, <1>21, <1>22, <1>23, <1>24, <1>25 DEF Next


(***************************************************************************)
(* KeyInv bounds the key objects: the kinds are never both held, and a   *)
(* held kind is held in the one slot its handle names.                    *)
(***************************************************************************)
LEMMA KeyInvStacked == TypeOK /\ KeyInv => KeysNotStacked
  <1> SUFFICES ASSUME TypeOK, KeyInv PROVE KeysNotStacked
    OBVIOUS
  <1> DEFINE S == {h \in Slots : tpm[h] \in {"rsaKey", "eccKey"}}
  <1>1. ASSUME NEW k \in Kinds, Held(k) = S
        PROVE  Cardinality(S) <= 1
    <2>1. S \subseteq {hnd[k]}
      BY <1>1 DEF Held, KeyInv, KeysNamed, Kinds
    <2>2. IsFiniteSet({hnd[k]}) /\ Cardinality({hnd[k]}) = 1
      BY FS_Singleton
    <2>3. QED
      BY <2>1, <2>2, FS_Subset
  <1>2. Held("eccKey") = {} => Held("rsaKey") = S
    BY DEF Held
  <1>3. Held("rsaKey") = {} => Held("eccKey") = S
    BY DEF Held
  <1>4. QED
    BY <1>1, <1>2, <1>3 DEF KeyInv, KeysNotStacked, Kinds

(***************************************************************************)
(* The benchmark's object table stays well-typed, and its counters in     *)
(* range, for every set of slots, handle variables and loop bound.        *)
(***************************************************************************)
THEOREM BenchTypeCorrect == Spec => []TypeOK
  <1>1. Init => TypeOK /\ CountInv
    BY InitIInvType
  <1>2. TypeOK /\ CountInv /\ [Next]_vars => TypeOK' /\ CountInv'
    BY NextType
  <1>3. QED
    BY <1>1, <1>2, PTL DEF Spec

(***************************************************************************)
(* The key generation loops (bench.c 314-323, 381-390) unload the key of  *)
(* the previous iteration before creating the next, and the ECC keys are  *)
(* created only after the RSA key's unload succeeded (371-372): at no     *)
(* point are two RSA/ECC key objects loaded, whatever the slot count, the *)
(* handle variables and the number of iterations.                          *)
(***************************************************************************)
THEOREM KeysNeverStacked == Spec => []KeysNotStacked
  <1>1. Init => TypeOK /\ CountInv /\ KeyInv
    BY InitIInvType, InitKeyInv
  <1>2. TypeOK /\ CountInv /\ KeyInv /\ [Next]_vars
          => TypeOK' /\ CountInv' /\ KeyInv'
    BY NextType, NextKeyInv
  <1>3. TypeOK /\ KeyInv => KeysNotStacked
    BY KeyInvStacked
  <1>4. QED
    BY <1>1, <1>2, <1>3, PTL DEF Spec


(***************************************************************************)
(* The object table steps keep the handles naming their own objects: a   *)
(* creation takes a free slot, which no written handle names; an unload   *)
(* or a finish through a written (or NULL) handle flushes that handle's   *)
(* own object and records no victim.                                       *)
(***************************************************************************)
LEMMA CreateOwns ==
    ASSUME TpmTypeOK, OwnsAll, NEW v \in HVars, CreateOk(v)
    PROVE  OwnsAll' /\ victims' = victims
  <1>1. PICK h \in FreeSlots :
           /\ tpm' = [tpm EXCEPT ![h] = v]
           /\ hnd' = [hnd EXCEPT ![v] = h]
           /\ assigned' = assigned \cup {v}
           /\ UNCHANGED victims
    BY DEF CreateOk
  <1>2. \A w \in assigned : hnd[w] # h
    BY <1>1, HVarsAssumption DEF OwnsAll, FreeSlots, Free, TpmTypeOK, Null
  <1>3. QED
    BY <1>1, <1>2 DEF OwnsAll, FreeSlots, TpmTypeOK

LEMMA UnloadOwns ==
    ASSUME TpmTypeOK, OwnsAll, NEW v \in HVars, NEW r, UnloadHandle(v, r),
           hnd[v] # Null => v \in assigned
    PROVE  OwnsAll' /\ victims' = victims /\ assigned' = assigned
  <1> DEFINE hv == hnd[v]
  <1>1. CASE UNCHANGED tpmVars
    BY <1>1 DEF OwnsAll, tpmVars
  <1>2. CASE /\ hv # Null
             /\ tpm[hv] # Free
             /\ tpm' = [tpm EXCEPT ![hv] = Free]
             /\ hnd' = [hnd EXCEPT ![v] = Null]
             /\ victims' = IF tpm[hv] = v THEN victims
                           ELSE victims \cup {[by |-> v, owner |-> tpm[hv],
                                               set |-> v \in assigned]}
             /\ UNCHANGED assigned
    <2>1. tpm[hv] = v
      BY <1>2 DEF OwnsAll
    <2>2. \A w \in assigned \ {v} : hnd[w] # Null => hnd[w] # hv
      BY <2>1 DEF OwnsAll
    <2>3. QED
      BY <1>2, <2>1, <2>2 DEF OwnsAll, TpmTypeOK
  <1>3. QED
    BY <1>1, <1>2 DEF UnloadHandle, tpmVars

LEMMA ConsumedOwns ==
    ASSUME TpmTypeOK, OwnsAll, Consumed("hash"), "hash" \in assigned
    PROVE  OwnsAll' /\ victims' = victims /\ assigned' = assigned
  <1> DEFINE hv == hnd["hash"]
  <1>1. tpm[hv] = "hash"
    BY DEF OwnsAll, Consumed
  <1>2. \A w \in assigned \ {"hash"} : hnd[w] # Null => hnd[w] # hv
    BY <1>1 DEF OwnsAll
  <1>3. QED
    BY <1>1, <1>2 DEF OwnsAll, Consumed, TpmTypeOK

\* An unload records at most the flush it made, marked with whether v's
\* handle was written.
LEMMA UnloadVictims ==
    ASSUME NEW v, NEW r, UnloadHandle(v, r)
    PROVE  victims' \subseteq
             victims \cup {[by |-> v, owner |-> tpm[hnd[v]],
                            set |-> v \in assigned]}
  BY DEF UnloadHandle, tpmVars

\* A flush through an unwritten handle adds no victim that FlushesOwnObject
\* counts.
LEMMA UnwrittenVictims ==
    ASSUME NEW v, NEW r, UnloadHandle(v, r), v \notin assigned,
           FlushesOwnObject
    PROVE  FlushesOwnObject'
  <1> DEFINE x0 == [by |-> v, owner |-> tpm[hnd[v]], set |-> v \in assigned]
  <1>1. ~x0.set
    OBVIOUS
  <1>2. victims' \subseteq victims \cup {x0}
    BY UnloadVictims
  <1>3. QED
    BY <1>1, <1>2 DEF FlushesOwnObject

(***************************************************************************)
(* The exit block's unload of rsaKey, written or not, leaves eccKey's     *)
(* object alone; a flush through an unwritten handle is not one through   *)
(* a handle the program assigned.                                          *)
(***************************************************************************)
LEMMA ExitRsaOwns ==
    ASSUME TpmTypeOK, OwnsAll, FlushesOwnObject,
           "eccKey" \in assigned => "rsaKey" \in assigned,
           NEW r, UnloadHandle("rsaKey", r)
    PROVE  EccOwned' /\ FlushesOwnObject' /\ assigned' = assigned
  <1>1. CASE "rsaKey" \in assigned
    <2>1. OwnsAll' /\ victims' = victims /\ assigned' = assigned
      BY <1>1, UnloadOwns
    <2>2. QED
      BY <2>1 DEF OwnsAll, EccOwned, FlushesOwnObject
  <1>2. CASE "rsaKey" \notin assigned
    <2>1. assigned' = assigned /\ "eccKey" \notin assigned'
      BY <1>2 DEF UnloadHandle, tpmVars
    <2>2. FlushesOwnObject'
      BY <1>2, UnwrittenVictims
    <2>3. QED
      BY <2>1, <2>2 DEF EccOwned
  <1>3. QED
    BY <1>1, <1>2

LEMMA ExitEccOwns ==
    ASSUME TpmTypeOK, EccOwned, FlushesOwnObject,
           NEW r, UnloadHandle("eccKey", r)
    PROVE  FlushesOwnObject'
  <1>1. CASE "eccKey" \in assigned
    <2>1. victims' = victims
      BY <1>1 DEF UnloadHandle, tpmVars, EccOwned
    <2>2. QED
      BY <2>1 DEF FlushesOwnObject
  <1>2. CASE "eccKey" \notin assigned
    <2>1. QED
      BY <1>2, UnwrittenVictims
  <1>3. QED
    BY <1>1, <1>2


LEMMA UnchangedOwns ==
    ASSUME UNCHANGED tpmVars
    PROVE  /\ OwnsAll' = OwnsAll
           /\ EccOwned' = EccOwned
           /\ FlushesOwnObject' = FlushesOwnObject
           /\ NonKeysWritten' = NonKeysWritten
           /\ assigned' = assigned
  BY DEF OwnsAll, EccOwned, FlushesOwnObject, NonKeysWritten, tpmVars

\* An unload writes no handle but its own, and marks none as written.
LEMMA UnloadFrame ==
    ASSUME NEW v, NEW r, UnloadHandle(v, r), TpmTypeOK
    PROVE  /\ assigned' = assigned
           /\ \A w \in HVars \ {v} : hnd'[w] = hnd[w]
  BY DEF UnloadHandle, tpmVars, TpmTypeOK

LEMMA InitOwnInv == Init => OwnInv /\ FlushesOwnObject
  BY DEF Init, OwnInv, OwnsAll, EccOwned, FlushesOwnObject, NonKeysWritten,
         Kinds, RsaNeeded, EccNeeded, EccPhase



(***************************************************************************)
(* The three shapes of a step before the exit block, each keeping OwnInv  *)
(* and FlushesOwnObject when the next label needs no key written that the *)
(* current one (or the step) does not provide.                             *)
(***************************************************************************)
LEMMA UnchangedOwnInv ==
    ASSUME OwnInv, FlushesOwnObject, UNCHANGED tpmVars,
           pc \notin {"exitEcc", "done"}, pc' # "exitEcc",
           RsaNeeded(pc', count') => RsaNeeded(pc, count),
           EccNeeded(pc', count') => EccNeeded(pc, count)
    PROVE  OwnInv' /\ FlushesOwnObject'
  <1>1. /\ OwnsAll' = OwnsAll
        /\ FlushesOwnObject' = FlushesOwnObject
        /\ NonKeysWritten' = NonKeysWritten
        /\ assigned' = assigned
    BY UnchangedOwns
  <1>2. QED
    BY <1>1 DEF OwnInv

LEMMA CreateOwnInv ==
    ASSUME TpmTypeOK, OwnInv, FlushesOwnObject, NEW v \in HVars, CreateOk(v),
           pc \notin {"exitEcc", "done"}, pc' \notin {"exitEcc", "done"},
           v = "eccKey" => "rsaKey" \in assigned,
           RsaNeeded(pc', count') => RsaNeeded(pc, count) \/ v = "rsaKey",
           EccNeeded(pc', count') => EccNeeded(pc, count) \/ v = "eccKey"
    PROVE  OwnInv' /\ FlushesOwnObject'
  <1>1. OwnsAll' /\ victims' = victims
    BY CreateOwns DEF OwnInv
  <1>2. PICK h \in FreeSlots :
           /\ hnd' = [hnd EXCEPT ![v] = h]
           /\ assigned' = assigned \cup {v}
    BY DEF CreateOk
  <1>3. NonKeysWritten'
    BY <1>2 DEF OwnInv, NonKeysWritten, TpmTypeOK
  <1>4. FlushesOwnObject'
    BY <1>1 DEF FlushesOwnObject
  <1>5. QED
    BY <1>1, <1>2, <1>3, <1>4 DEF OwnInv

LEMMA UnloadOwnInv ==
    ASSUME TpmTypeOK, OwnInv, FlushesOwnObject, NEW v \in HVars, NEW r,
           UnloadHandle(v, r), hnd[v] # Null => v \in assigned,
           pc \notin {"exitEcc", "done"}, pc' \notin {"exitEcc", "done"},
           RsaNeeded(pc', count') => RsaNeeded(pc, count),
           EccNeeded(pc', count') => EccNeeded(pc, count)
    PROVE  OwnInv' /\ FlushesOwnObject'
  <1>1. OwnsAll' /\ victims' = victims /\ assigned' = assigned
    BY UnloadOwns DEF OwnInv
  <1>2. \A w \in HVars \ {v} : hnd'[w] = hnd[w]
    BY UnloadFrame
  <1>3. hnd'[v] = hnd[v] \/ hnd'[v] = Null
    BY DEF UnloadHandle, tpmVars, TpmTypeOK
  <1>4. NonKeysWritten'
    BY <1>1, <1>2, <1>3 DEF OwnInv, NonKeysWritten
  <1>5. FlushesOwnObject'
    BY <1>1 DEF FlushesOwnObject
  <1>6. QED
    BY <1>1, <1>4, <1>5 DEF OwnInv


(***************************************************************************)
(* Every step keeps OwnInv and FlushesOwnObject: before the exit block    *)
(* every unload goes through a handle the program wrote, which names its  *)
(* own object; the exit block's rsaKey unload spares eccKey's object.     *)
(***************************************************************************)
LEMMA NextOwnInv ==
    TypeOK /\ OwnInv /\ FlushesOwnObject /\ [Next]_vars
      => OwnInv' /\ FlushesOwnObject'
  <1> SUFFICES ASSUME TypeOK, OwnInv, FlushesOwnObject, [Next]_vars
               PROVE  OwnInv' /\ FlushesOwnObject'
    OBVIOUS
  <1>. USE DEF TypeOK, RsaNeeded, EccNeeded, EccPhase, Kinds
  <1>1. CASE BenchInit
    BY <1>1, UnchangedOwnInv DEF BenchInit
  <1>2. CASE Rng
    BY <1>2, UnchangedOwnInv DEF Rng
  <1>3. CASE AesRun
    BY <1>3, UnchangedOwnInv DEF AesRun, LoopAgain
  <1>4. CASE HashUpdate
    BY <1>4, UnchangedOwnInv DEF HashUpdate
  <1>5. CASE HashExit
    BY <1>5, UnchangedOwnInv DEF HashExit
  <1>6. CASE StorageKey
    <2>1. CASE UNCHANGED tpmVars
      BY <1>6, <2>1, UnchangedOwnInv DEF StorageKey
    <2>2. CASE CreateOk("storageKey")
      BY <1>6, <2>2, CreateOwnInv DEF StorageKey
    <2>3. QED
      BY <1>6, <2>1, <2>2 DEF StorageKey
  <1>7. CASE AesCreate
    <2>1. CASE CreateOk("aesKey")
      BY <1>7, <2>1, CreateOwnInv DEF AesCreate
    <2>2. CASE /\ hnd' = [hnd EXCEPT !["aesKey"] = Null]
               /\ UNCHANGED <<tpm, assigned, victims>>
               /\ pc' = "aesExit"
      <3>1. OwnsAll' /\ NonKeysWritten'
        <4>1. OwnsAll /\ NonKeysWritten
          BY <1>7 DEF OwnInv, AesCreate
        <4>2. QED
          BY <2>2, <4>1 DEF OwnsAll, NonKeysWritten, TpmTypeOK
      <3>2. FlushesOwnObject'
        BY <2>2 DEF FlushesOwnObject
      <3>3. QED
        BY <1>7, <2>2, <3>1, <3>2 DEF OwnInv, AesCreate
    <2>3. QED
      BY <1>7, <2>1, <2>2 DEF AesCreate
  <1>8. CASE AesExit
    <2>1. PICK r : UnloadHandle("aesKey", r)
      BY <1>8 DEF AesExit
    <2>2. hnd["aesKey"] # Null => "aesKey" \in assigned
      BY DEF OwnInv, NonKeysWritten, Kinds
    <2>3. QED
      BY <1>8, <2>1, <2>2, UnloadOwnInv DEF AesExit
  <1>9. CASE HashStart
    <2>1. CASE UNCHANGED tpmVars
      BY <1>9, <2>1, UnchangedOwnInv DEF HashStart
    <2>2. CASE CreateOk("hash")
      BY <1>9, <2>2, CreateOwnInv DEF HashStart
    <2>3. QED
      BY <1>9, <2>1, <2>2 DEF HashStart
  <1>10. CASE HashFinish
    <2>1. CASE UNCHANGED tpmVars /\ pc' = "hashExit"
      BY <1>10, <2>1, UnchangedOwnInv DEF HashFinish
    <2>2. CASE Consumed("hash") /\ LoopAgain("hashStart", "hashExit")
      <3>1. "hash" \in assigned
        BY <2>2 DEF OwnInv, NonKeysWritten, Kinds, Consumed
      <3>2. OwnsAll' /\ victims' = victims /\ assigned' = assigned
        BY <1>10, <2>2, <3>1, ConsumedOwns DEF OwnInv, HashFinish
      <3>3. NonKeysWritten'
        BY <2>2 DEF OwnInv, NonKeysWritten, Consumed, TpmTypeOK
      <3>4. FlushesOwnObject'
        BY <3>2 DEF FlushesOwnObject
      <3>5. QED
        BY <1>10, <2>2, <3>2, <3>3, <3>4 DEF OwnInv, HashFinish, LoopAgain
    <2>3. QED
      BY <1>10, <2>1, <2>2 DEF HashFinish
  <1>11. CASE UNCHANGED vars
    <2>1. /\ OwnsAll' = OwnsAll
          /\ EccOwned' = EccOwned
          /\ FlushesOwnObject' = FlushesOwnObject
          /\ NonKeysWritten' = NonKeysWritten
          /\ assigned' = assigned
      BY <1>11, UnchangedOwns DEF vars, tpmVars
    <2>2. QED
      BY <1>11, <2>1 DEF vars, OwnInv
  <1>12. ASSUME NEW v \in Kinds, NEW here, NEW create,
                \/ v = "rsaKey" /\ here = "rsaGen" /\ create = "rsaCreate"
                \/ v = "eccKey" /\ here = "eccGen" /\ create = "eccCreate",
                KeyGenUnload(v, here, create)
         PROVE  OwnInv' /\ FlushesOwnObject'
    <2>1. CASE count = 0
      BY <1>12, <2>1, UnchangedOwnInv DEF KeyGenUnload
    <2>2. CASE count > 0
      <3>1. PICK r : /\ UnloadHandle(v, r)
                     /\ pc' = IF r = 0 THEN create ELSE "exitRsa"
        BY <1>12, <2>2 DEF KeyGenUnload
      <3>2. v \in assigned
        BY <1>12, <2>2 DEF OwnInv, KeyGenUnload
      <3>3. QED
        BY <1>12, <3>1, <3>2, UnloadOwnInv DEF KeyGenUnload
    <2>3. QED
      BY <2>1, <2>2
  <1>13. ASSUME NEW v \in Kinds, NEW here, NEW create, NEW next,
                \/ v = "rsaKey" /\ here = "rsaGen" /\ create = "rsaCreate"
                   /\ next = "rsaOps"
                \/ v = "eccKey" /\ here = "eccGen" /\ create = "eccCreate"
                   /\ next = "eccOps",
                KeyGenCreate(v, here, create, next)
         PROVE  OwnInv' /\ FlushesOwnObject'
    <2>1. CASE CreateOk(v) /\ LoopAgain(here, next)
      <3>1. v = "eccKey" => "rsaKey" \in assigned
        BY <1>13 DEF OwnInv, KeyGenCreate
      <3>2. QED
        BY <1>13, <2>1, <3>1, CreateOwnInv DEF KeyGenCreate, LoopAgain
    <2>2. CASE UNCHANGED tpmVars /\ UNCHANGED count /\ pc' = "exitRsa"
      BY <1>13, <2>2, UnchangedOwnInv DEF KeyGenCreate
    <2>3. QED
      BY <1>13, <2>1, <2>2 DEF KeyGenCreate
  <1>14. ASSUME NEW v \in Kinds, NEW here, NEW next,
                \/ v = "rsaKey" /\ here = "rsaOps" /\ next = "rsaUnload"
                \/ v = "eccKey" /\ here = "eccOps" /\ next = "eccUnload"
                \/ v = "eccKey" /\ here = "ecdhOps" /\ next = "ecdhUnload",
                UseKey(v, here, next)
         PROVE  OwnInv' /\ FlushesOwnObject'
    BY <1>14, UnchangedOwnInv DEF UseKey
  <1>15. ASSUME NEW v \in Kinds, NEW here, NEW next,
                \/ v = "rsaKey" /\ here = "rsaUnload" /\ next = "eccGen"
                \/ v = "eccKey" /\ here = "eccUnload" /\ next = "ecdhCreate"
                \/ v = "eccKey" /\ here = "ecdhUnload" /\ next = "exitRsa",
                UnloadStep(v, here, next)
         PROVE  OwnInv' /\ FlushesOwnObject'
    <2>1. PICK r : /\ UnloadHandle(v, r)
                   /\ pc' = IF r = 0 THEN next ELSE "exitRsa"
      BY <1>15 DEF UnloadStep
    <2>2. v \in assigned
      BY <1>15 DEF OwnInv, UnloadStep
    <2>3. QED
      BY <1>15, <2>1, <2>2, UnloadOwnInv DEF UnloadStep
  <1>16. CASE CreateStep("eccKey", "ecdhCreate", "ecdhOps")
    <2>1. "rsaKey" \in assigned
      BY <1>16 DEF OwnInv, CreateStep
    <2>2. CASE CreateOk("eccKey")
      BY <1>16, <2>1, <2>2, CreateOwnInv DEF CreateStep
    <2>3. CASE UNCHANGED tpmVars /\ pc' = "exitRsa"
      BY <1>16, <2>3, UnchangedOwnInv DEF CreateStep
    <2>4. QED
      BY <1>16, <2>2, <2>3 DEF CreateStep
  <1>17. CASE ExitUnload("rsaKey", "exitRsa", "exitEcc")
    <2>1. PICK r : UnloadHandle("rsaKey", r)
      BY <1>17 DEF ExitUnload
    <2>2. OwnsAll /\ ("eccKey" \in assigned => "rsaKey" \in assigned)
      BY <1>17 DEF OwnInv, ExitUnload
    <2>3. EccOwned' /\ FlushesOwnObject' /\ assigned' = assigned
      BY <2>1, <2>2, ExitRsaOwns
    <2>4. NonKeysWritten'
      BY <2>1, UnloadFrame DEF OwnInv, NonKeysWritten, Kinds
    <2>5. QED
      BY <1>17, <2>3, <2>4 DEF OwnInv, ExitUnload
  <1>18. CASE ExitUnload("eccKey", "exitEcc", "done")
    <2>1. PICK r : UnloadHandle("eccKey", r)
      BY <1>18 DEF ExitUnload
    <2>2. EccOwned
      BY <1>18 DEF OwnInv, ExitUnload
    <2>3. FlushesOwnObject' /\ assigned' = assigned
      BY <2>1, <2>2, ExitEccOwns, UnloadFrame
    <2>4. NonKeysWritten'
      BY <2>1, UnloadFrame DEF OwnInv, NonKeysWritten, Kinds
    <2>5. QED
      BY <1>18, <2>3, <2>4 DEF OwnInv, ExitUnload
  <1>19. QED
    <2>1. CASE KeyGenUnload("rsaKey", "rsaGen", "rsaCreate")
      BY <2>1, <1>12
    <2>2. CASE KeyGenUnload("eccKey", "eccGen", "eccCreate")
      BY <2>2, <1>12
    <2>3. CASE KeyGenCreate("rsaKey", "rsaGen", "rsaCreate", "rsaOps")
      BY <2>3, <1>13
    <2>4. CASE KeyGenCreate("eccKey", "eccGen", "eccCreate", "eccOps")
      BY <2>4, <1>13
    <2>5. CASE UseKey("rsaKey", "rsaOps", "rsaUnload")
      BY <2>5, <1>14
    <2>6. CASE UseKey("eccKey", "eccOps", "eccUnload")
      BY <2>6, <1>14
    <2>7. CASE UseKey("eccKey", "ecdhOps", "ecdhUnload")
      BY <2>7, <1>14
    <2>8. CASE UnloadStep("rsaKey", "rsaUnload", "eccGen")
      BY <2>8, <1>15
    <2>9. CASE UnloadStep("eccKey", "eccUnload", "ecdhCreate")
      BY <2>9, <1>15
    <2>10. CASE UnloadStep("eccKey", "ecdhUnload", "exitRsa")
      BY <2>10, <1>15
    <2>11. QED
      BY <1>1, <1>2, <1>3, <1>4, <1>5, <1>6, <1>7, <1>8, <1>9, <1>10,
         <1>11, <1>16, <1>17, <1>18, <2>1, <2>2, <2>3, <2>4, <2>5, <2>6,
         <2>7, <2>8, <2>9, <2>10 DEF Next


(***************************************************************************)
(* On a TPM used by the benchmark alone, every flush through a handle the *)
(* benchmark wrote hits the object created through that handle: the exit  *)
(* block's second unload of rsaKey or eccKey (bench.c 447-448) never      *)
(* flushes a later object the TPM put in a freed slot, because each      *)
(* UnloadHandle resets the handle to NULL.  For every slot set, handle    *)
(* variable set and loop bound.                                            *)
(***************************************************************************)
THEOREM OwnFlushes == Spec => []FlushesOwnObject
  <1> DEFINE Inv == TypeOK /\ CountInv /\ OwnInv /\ FlushesOwnObject
  <1>1. Init => Inv
    BY InitIInvType, InitOwnInv
  <1>2. Inv /\ [Next]_vars => Inv'
    BY NextType, NextOwnInv
  <1>3. QED
    BY <1>1, <1>2, PTL DEF Spec

-----------------------------------------------------------------------------
(***************************************************************************)
(* BenchShared: the benchmark beside another program that flushes and     *)
(* loads transient objects.  A step of the other program only empties a   *)
(* slot or fills a free one with a foreign object: no key object appears, *)
(* no handle of the benchmark changes, and so KeyInv is kept.              *)
(***************************************************************************)
LEMMA InterfereFrame ==
    ASSUME TypeOK, Interfere
    PROVE  /\ TypeOK'
           /\ KeysNamed => KeysNamed'
           /\ \A w \in Kinds : Held(w)' \subseteq Held(w)
           /\ UNCHANGED <<pc, count>>
  <1>1. PICK h \in Slots, o \in {Free, "foreign"} :
           /\ tpm' = [tpm EXCEPT ![h] = o]
           /\ UNCHANGED <<hnd, assigned, victims, pc, rc, step, count>>
    BY DEF Interfere, OtherFlush, OtherLoad
  <1>2. TypeOK'
    BY <1>1 DEF TypeOK, TpmTypeOK, Owners
  <1>3. \A w \in Kinds : Held(w)' \subseteq Held(w)
    BY <1>1 DEF TypeOK, TpmTypeOK, Held, Kinds, Free
  <1>4. KeysNamed => KeysNamed'
    BY <1>1 DEF TypeOK, TpmTypeOK, KeysNamed, Kinds, Free
  <1>5. QED
    BY <1>1, <1>2, <1>3, <1>4

LEMMA InterfereKeyInv ==
    TypeOK /\ CountInv /\ KeyInv /\ Interfere
      => TypeOK' /\ CountInv' /\ KeyInv'
  <1> SUFFICES ASSUME TypeOK, CountInv, KeyInv, Interfere
               PROVE  TypeOK' /\ CountInv' /\ KeyInv'
    OBVIOUS
  <1>1. /\ TypeOK'
        /\ KeysNamed'
        /\ Held("rsaKey")' \subseteq Held("rsaKey")
        /\ Held("eccKey")' \subseteq Held("eccKey")
        /\ UNCHANGED <<pc, count>>
    BY InterfereFrame DEF KeyInv, Kinds
  <1>2. CountInv'
    BY <1>1 DEF CountInv
  <1>3. KeyInv'
    BY <1>1 DEF KeyInv
  <1>4. QED
    BY <1>1, <1>2, <1>3

(***************************************************************************)
(* The key generation loops keep at most one RSA or ECC key object in the *)
(* TPM even while another program on the same TPM flushes objects and     *)
(* loads its own (bench.c 314-323, 371-372, 381-390 run against the fault *)
(* model of BenchShared), for every slot count and loop bound.  The       *)
(* benchmark's own steps keep the strengthening as in KeysNeverStacked,   *)
(* and the other program's steps by InterfereKeyInv.                      *)
(***************************************************************************)
THEOREM SharedKeysNeverStacked == SharedSpec => []KeysNotStacked
  <1> DEFINE Inv == TypeOK /\ CountInv /\ KeyInv
  <1>1. Init => Inv
    BY InitIInvType, InitKeyInv
  <1>2. Inv /\ [SharedNext]_vars => Inv'
    <2> SUFFICES ASSUME Inv, [SharedNext]_vars PROVE Inv'
      OBVIOUS
    <2>1. CASE [Next]_vars
      BY <2>1, NextType, NextKeyInv
    <2>2. CASE Interfere
      BY <2>2, InterfereKeyInv
    <2>3. QED
      BY <2>1, <2>2 DEF SharedNext
  <1>3. Inv => KeysNotStacked
    BY KeyInvStacked
  <1>4. QED
    BY <1>1, <1>2, <1>3, PTL DEF SharedSpec

=============================================================================
