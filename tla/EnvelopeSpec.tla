----------------------------- MODULE EnvelopeSpec -----------------------------
(***************************************************************************)
(* What PKCS7_SignVerifyEx (src/examples/pkcs7/pkcs7.c) promises, with    *)
(* the hashing, the I/O and the PKCS7 structure left out (spec.md 3, 6    *)
(* and 8): at most one detached envelope is produced, and it signs the    *)
(* digest of exactly the Total content bytes and declares Total as their  *)
(* length; the envelope is verified through the TPM, then in software,    *)
(* and only an existing envelope is verified; the program returns, once  *)
(* both verifications succeeded or earlier on a failure, and nothing      *)
(* changes after it returned.                                              *)
(***************************************************************************)
EXTENDS StreamContent

VARIABLES
    envelope,   \* the envelope produced: whether signed, its digest and size
    checked,    \* backends that accepted the envelope
    returned    \* whether the program has returned

avars == <<envelope, checked, returned>>

NoEnvelope == [signed |-> FALSE, digest |-> <<>>, size |-> 0]
Backends == {"tpm", "sw"}

Init ==
    /\ envelope = NoEnvelope
    /\ checked = {}
    /\ returned = FALSE

\* The one envelope is produced; its digest is that of the content.
Sign ==
    /\ ~returned
    /\ envelope = NoEnvelope
    /\ envelope'.signed
    /\ IsContent(envelope'.digest)
    /\ envelope'.size = Total
    /\ UNCHANGED <<checked, returned>>

\* Backend b accepts the envelope; the software backend only after the
\* TPM one, and the program returns once both have.
Check(b) ==
    /\ ~returned
    /\ envelope # NoEnvelope
    /\ b \notin checked
    /\ b = "sw" => "tpm" \in checked
    /\ checked' = checked \cup {b}
    /\ returned' = (checked' = Backends)
    /\ UNCHANGED envelope

\* The program returns (on an error, whatever has been done so far).
Return ==
    /\ ~returned
    /\ returned' = TRUE
    /\ UNCHANGED <<envelope, checked>>

Next == Sign \/ (\E b \in Backends : Check(b)) \/ Return

SafeSpec == Init /\ [][Next]_avars

\* The program does not run forever.
Spec == SafeSpec /\ WF_avars(Return)

=============================================================================
