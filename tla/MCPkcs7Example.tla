--------------------------- MODULE MCPkcs7Example ---------------------------
(* The example on a TPM with two transient slots, each empty or held by    *)
(* another program at the start: enough for the SRK and the signing key,  *)
(* and for creation to fail for want of a slot.                            *)
EXTENDS Pkcs7Example

MCSlots == 1..2
MCHVars == {"storageKey", "rsaKey"}
=============================================================================
