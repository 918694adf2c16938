----------------------------- MODULE TpmObjects -----------------------------
(***************************************************************************)
(* The TPM's transient object slots and the wolfTPM2 wrapper calls the    *)
(* examples use to fill and empty them: wolfTPM2_CreateAndLoadKey (and    *)
(* the primary/sequence creations, which take a slot the same way) and    *)
(* wolfTPM2_UnloadHandle.  The wrapper lives in src/tpm2_wrap.c of        *)
(* wolfTPM, outside this tree; it is modelled from spec.md 4.6 and 6       *)
(* (load_key / unload_key) and the call sites' use of it.                  *)
(*                                                                         *)
(* Each slot holds nothing (Free), an object of another program on the    *)
(* same TPM ("foreign"), or an object created through one of the          *)
(* program's handle variables (the variable's name).  hnd is the hndl     *)
(* field of each WOLFTPM2_HANDLE the program keeps.                        *)
(***************************************************************************)
EXTENDS Integers, FiniteSets

CONSTANTS
    Slots,      \* transient handles of the TPM (0x80000000 + i)
    HVars       \* the program's WOLFTPM2_HANDLE variables

ASSUME SlotsAssumption == IsFiniteSet(Slots) /\ Slots \subseteq Nat \ {0}
ASSUME HVarsAssumption == HVars \cap {"free", "foreign"} = {}

VARIABLES
    tpm,        \* slot -> Free, "foreign" or the variable that created it
    hnd,        \* variable -> the slot its hndl names, or Null
    assigned,   \* variables whose hndl the program has written (history)
    victims     \* flushes that hit an object the variable did not create

tpmVars == <<tpm, hnd, assigned, victims>>

Free == "free"
Null == 0           \* hndl 0 / TPM_RH_NULL: UnloadHandle does nothing

\* TPM response codes, as the int rc the examples test.
RcSuccess == 0
RcHashP1 == 451          \* TPM_RC_HASH + TPM_RC_P + TPM_RC_1 (0x1C3)
RcHandleH1 == 395        \* TPM_RC_HANDLE + TPM_RC_H + TPM_RC_1 (0x18B)
RcCommandCode == 323     \* TPM_RC_COMMAND_CODE (0x143)
RcFailure == 257         \* TPM_RC_FAILURE (0x101), or any transport error
RcObjectMemory == 2306   \* TPM_RC_OBJECT_MEMORY (0x902): no free slot
RcReferenceH0 == 2320    \* TPM_RC_REFERENCE_H0 (0x910): handle 1 not loaded

Owners == HVars \cup {Free, "foreign"}
FreeSlots == {h \in Slots : tpm[h] = Free}

\* Objects the program created and still holds in the TPM.
ProgramObjects == {h \in Slots : tpm[h] \in HVars}

TpmTypeOK ==
    /\ tpm \in [Slots -> Owners]
    /\ hnd \in [HVars -> Slots \cup {Null}]
    /\ assigned \subseteq HVars
    /\ victims \subseteq [by : HVars, owner : Owners, set : BOOLEAN]

(***************************************************************************)
(* A creation through v that succeeds: the TPM puts the object in a free  *)
(* slot of its choosing and v's hndl names it.                             *)
(***************************************************************************)
CreateOk(v) ==
    \E h \in FreeSlots :
        /\ tpm' = [tpm EXCEPT ![h] = v]
        /\ hnd' = [hnd EXCEPT ![v] = h]
        /\ assigned' = assigned \cup {v}
        /\ UNCHANGED victims

\* The errors a creation may fail with: no free slot, or any other failure
\* of the command or the transport.  The TPM keeps no object.
CreateFails(r) ==
    \/ FreeSlots = {} /\ r = RcObjectMemory
    \/ r = RcFailure

\* Mutant: UnloadHandle that flushes but leaves hndl naming the freed slot.
UnloadHandleNoReset(v, r) ==
    LET h == hnd[v] IN
    \/ /\ h = Null
       /\ r = RcSuccess
       /\ UNCHANGED tpmVars
    \/ /\ h # Null
       /\ tpm[h] = Free
       /\ r = RcHandleH1
       /\ UNCHANGED tpmVars
    \/ /\ h # Null
       /\ tpm[h] # Free
       /\ r = RcSuccess
       /\ tpm' = [tpm EXCEPT ![h] = Free]
       /\ victims' = IF tpm[h] = v THEN victims
                     ELSE victims \cup {[by |-> v, owner |-> tpm[h],
                                         set |-> v \in assigned]}
       /\ UNCHANGED <<hnd, assigned>>

(***************************************************************************)
(* wolfTPM2_UnloadHandle(dev, &v) returning r: nothing to do for a NULL   *)
(* handle; otherwise TPM2_FlushContext of whatever object the TPM holds   *)
(* at that handle, and on success hndl is reset to TPM_RH_NULL.  A flush  *)
(* of an empty slot fails with TPM_RC_HANDLE; any flush may fail on the   *)
(* transport.  A flush of an object v did not create is recorded.          *)
(***************************************************************************)
UnloadHandle(v, r) ==
    LET h == hnd[v] IN
    \/ /\ h = Null
       /\ r = RcSuccess
       /\ UNCHANGED tpmVars
    \/ /\ h # Null
       /\ tpm[h] = Free
       /\ r = RcHandleH1
       /\ UNCHANGED tpmVars
    \/ /\ h # Null
       /\ tpm[h] # Free
       /\ r = RcFailure
       /\ UNCHANGED tpmVars
    \/ /\ h # Null
       /\ tpm[h] # Free
       /\ r = RcSuccess
       /\ tpm' = [tpm EXCEPT ![h] = Free]
       /\ hnd' = [hnd EXCEPT ![v] = Null]
       /\ victims' = IF tpm[h] = v THEN victims
                     ELSE victims \cup {[by |-> v, owner |-> tpm[h],
                                         set |-> v \in assigned]}
       /\ UNCHANGED assigned

\* A sequence or key object of v that the TPM itself flushes when a
\* command consumes it (TPM2_SequenceComplete, or wolfTPM2_NVStoreKey
\* unloading the transient copy once it is persistent); v's hndl is reset.
Consumed(v) ==
    /\ hnd[v] # Null
    /\ tpm' = [tpm EXCEPT ![hnd[v]] = Free]
    /\ hnd' = [hnd EXCEPT ![v] = Null]
    /\ UNCHANGED <<assigned, victims>>

(***************************************************************************)
(* A command on v's object (an update, a finish, an encryption, a        *)
(* signature): v's hndl must name the object v created.  When it does,   *)
(* the command returns one of ok; when no object is loaded at the       *)
(* handle the TPM rejects it with TPM_RC_REFERENCE_H0 (TPM 2.0 part 3,   *)
(* 5.6.3: a transient handle that does not reference a loaded object);   *)
(* when the slot holds another object the command fails on it.  Either   *)
(* way the transport may fail instead.                                     *)
(***************************************************************************)
Loaded(v) == hnd[v] # Null /\ tpm[hnd[v]] = v

UseRc(v, ok) ==
    IF Loaded(v) THEN ok
    ELSE IF hnd[v] = Null \/ tpm[hnd[v]] = Free THEN {RcReferenceH0, RcFailure}
    ELSE {RcFailure}

(***************************************************************************)
(* Another program on the same TPM (the examples share it with whatever   *)
(* else is running, spec.md 5): it flushes a transient object, its own or *)
(* one it found by enumerating the handles, or loads an object of its own *)
(* into a free slot.  No handle variable of the program changes.           *)
(***************************************************************************)
OtherFlush(h) ==
    /\ tpm[h] # Free
    /\ tpm' = [tpm EXCEPT ![h] = Free]
    /\ UNCHANGED <<hnd, assigned, victims>>

OtherLoad(h) ==
    /\ tpm[h] = Free
    /\ tpm' = [tpm EXCEPT ![h] = "foreign"]
    /\ UNCHANGED <<hnd, assigned, victims>>

=============================================================================
