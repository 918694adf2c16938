------------------------- MODULE Pkcs7StreamProofs -------------------------
(***************************************************************************)
(* Proofs about Pkcs7Stream for every Total and every ChunkSz: the type   *)
(* invariant, and the round-trip invariant SignedDigestIsContent (the     *)
(* envelope's signature covers exactly the Total content bytes and the    *)
(* header declares Total).  Neither is inductive alone; IInv adds         *)
(* HashingInv, which says what the hash state holds at each point of the  *)
(* hashing loop and until the encoding.                                    *)
(***************************************************************************)
EXTENDS Pkcs7Stream, SequenceTheorems, TLAPS

USE TotalAssumption, ChunkSzAssumption

(***************************************************************************)
(* GetMyData with the chunk buffer at an offset inside the content        *)
(* returns at most a buffer's worth, never more than remains, and 0       *)
(* exactly at the end; its value is the length the content's chunking     *)
(* gives the chunk at that offset.                                         *)
(***************************************************************************)
LEMMA GetMyDataFacts ==
    ASSUME NEW o \in 0..Total
    PROVE  /\ GetMyData(ChunkSz, o) \in 0..ChunkSz
           /\ GetMyData(ChunkSz, o) <= Total - o
           /\ GetMyData(ChunkSz, o) = 0 <=> o = Total
           /\ o < Total =>
                 GetMyData(ChunkSz, o) = IF ChunkSz < Total - o THEN ChunkSz
                                                               ELSE Total - o
  BY DEF GetMyData

(***************************************************************************)
(* Appending the chunk GetMyData reads at the end of a chunking of        *)
(* [0, o) gives a chunking of [0, o + n).                                  *)
(***************************************************************************)
LEMMA ChunkingExtends ==
    ASSUME NEW s \in Seq(Chunk), NEW o \in 0..Total,
           IsChunkingUpTo(s, o),
           GetMyData(ChunkSz, o) # 0
    PROVE  IsChunkingUpTo(Append(s, [off |-> o, len |-> GetMyData(ChunkSz, o)]),
                          o + GetMyData(ChunkSz, o))
  <1> DEFINE n == GetMyData(ChunkSz, o)
             c == [off |-> o, len |-> n]
             t == Append(s, c)
  <1>1. /\ o < Total
        /\ n \in 1..ChunkSz
        /\ n = IF ChunkSz < Total - o THEN ChunkSz ELSE Total - o
    BY GetMyDataFacts
  <1>2. /\ Len(t) = Len(s) + 1
        /\ \A i \in 1..Len(s) : t[i] = s[i]
        /\ t[Len(s) + 1] = c
    OBVIOUS
  <1>3. EndOf(s) = o
    BY DEF IsChunkingUpTo
  <1>4. \A i \in 1..Len(t) :
           /\ t[i].len = IF ChunkSz < Total - t[i].off THEN ChunkSz
                                                       ELSE Total - t[i].off
           /\ t[i].len > 0
    BY <1>1, <1>2 DEF IsChunkingUpTo
  <1>5. Len(t) > 0 => t[1].off = 0
    <2>1. CASE Len(s) = 0
      BY <1>2, <1>3, <2>1 DEF EndOf
    <2>2. CASE Len(s) > 0
      BY <1>2, <2>2 DEF IsChunkingUpTo
    <2>3. QED
      BY <2>1, <2>2
  <1>6. \A i \in 1..Len(t) - 1 : t[i + 1].off = t[i].off + t[i].len
    <2> SUFFICES ASSUME NEW i \in 1..Len(t) - 1
                 PROVE  t[i + 1].off = t[i].off + t[i].len
      OBVIOUS
    <2>1. CASE i < Len(s)
      BY <1>2, <2>1 DEF IsChunkingUpTo
    <2>2. CASE i = Len(s)
      BY <1>2, <1>3, <2>2 DEF EndOf
    <2>3. QED
      BY <1>2, <2>1, <2>2
  <1>7. EndOf(t) = o + n
    BY <1>2 DEF EndOf
  <1>8. QED
    BY <1>4, <1>5, <1>6, <1>7 DEF IsChunkingUpTo

-----------------------------------------------------------------------------
LEMMA InitIInv == Init => IInv
  BY DEF Init, IInv, TypeOK, HashingInv, SignedDigestIsContent, Labels

LEMMA NextIInv == IInv /\ [Next]_vars => IInv'
  <1> SUFFICES ASSUME IInv, [Next]_vars PROVE IInv'
    OBVIOUS
  <1>. USE DEF IInv
  <1>1. CASE HashInit
    <2>1. IsChunkingUpTo(<<>>, 0)
      BY DEF IsChunkingUpTo, EndOf
    <2>2. QED
      BY <1>1, <2>1 DEF HashInit, TypeOK, HashingInv, SignedDigestIsContent,
                        Outcome, Labels, ERR
  <1>2. CASE HashUpdate
    <2> DEFINE n == GetMyData(ChunkSz, offset)
               c == [off |-> offset, len |-> n]
    <2>1. PICK r \in Outcome :
             /\ rc' = r
             /\ dataChunkSz' = n
             /\ hashed' = IF r = 0 THEN Append(hashed, c) ELSE hashed
             /\ offset' = offset + n
             /\ pc' = IF r = 0 THEN "hashLoop" ELSE "hashFinal"
      BY <1>2 DEF HashUpdate
    <2>2. n \in 1..ChunkSz /\ n <= Total - offset
      BY <1>2, GetMyDataFacts DEF HashUpdate, TypeOK
    <2>3. c \in Chunk
      BY <2>2 DEF TypeOK, Chunk
    <2>4. hashed' \in Seq(Chunk)
      BY <2>1, <2>3, AppendProperties DEF TypeOK
    <2>5. TypeOK'
      BY <1>2, <2>1, <2>2, <2>4 DEF HashUpdate, TypeOK, Outcome, Labels, ERR
    <2>6. HashingInv'
      <3>1. CASE r = 0
        BY <1>2, <2>1, <2>2, <3>1, ChunkingExtends
           DEF HashUpdate, TypeOK, HashingInv
      <3>2. CASE r # 0
        BY <1>2, <2>1, <3>2 DEF HashUpdate, HashingInv
      <3>3. QED
        BY <3>1, <3>2
    <2>7. SignedDigestIsContent'
      BY <1>2 DEF HashUpdate, SignedDigestIsContent
    <2>8. QED
      BY <2>5, <2>6, <2>7
  <1>3. CASE HashEnd
    <2>1. offset = Total
      BY <1>3, GetMyDataFacts DEF HashEnd, TypeOK
    <2>2. TypeOK'
      BY <1>3 DEF HashEnd, TypeOK, Labels
    <2>3. HashingInv'
      BY <1>3, <2>1 DEF HashEnd, HashingInv, IsContent
    <2>4. QED
      BY <1>3, <2>2, <2>3 DEF HashEnd, SignedDigestIsContent
  <1>4. CASE HashFinal
    BY <1>4 DEF HashFinal, TypeOK, HashingInv, SignedDigestIsContent,
                Outcome, Labels, ERR
  <1>5. CASE HashAbort
    BY <1>5 DEF HashAbort, TypeOK, HashingInv, SignedDigestIsContent, Labels
  <1>6. CASE PKCS7Init("p7Init", "encode")
    BY <1>6 DEF PKCS7Init, TypeOK, HashingInv, SignedDigestIsContent,
                Outcome, Labels, ERR
  <1>7. CASE Encode
    BY <1>7 DEF Encode, TypeOK, HashingInv, SignedDigestIsContent,
                Outcome, Labels, ERR
  <1>8. CASE FileOpen
    BY <1>8 DEF FileOpen, TypeOK, HashingInv, SignedDigestIsContent, Labels
  <1>9. CASE WriteHead
    <2>1. CASE /\ file' = Append(file, "head")
               /\ rc' = HeadLen
               /\ pc' = "writeBody"
               /\ UNCHANGED fileSt
      <3>1. Append(file, "head") \in Seq(Segment)
        BY AppendProperties DEF TypeOK, Segment
      <3>2. TypeOK'
        BY <1>9, <2>1, <3>1 DEF WriteHead, TypeOK, Labels, HeadLen
      <3>3. QED
        BY <1>9, <2>1, <3>2 DEF WriteHead, HashingInv, SignedDigestIsContent
    <2>2. CASE ShortWrite /\ UNCHANGED file
      BY <1>9, <2>2 DEF WriteHead, ShortWrite, TypeOK, HashingInv,
                        SignedDigestIsContent, Labels, ERR
    <2>3. QED
      BY <1>9, <2>1, <2>2 DEF WriteHead
  <1>10. CASE WriteBody
    <2> DEFINE n == GetMyData(ChunkSz, offset)
               c == [off |-> offset, len |-> n]
    <2>1. n \in 0..ChunkSz /\ n <= Total - offset
      BY GetMyDataFacts DEF TypeOK
    <2>2. CASE n = 0
      BY <1>10, <2>2 DEF WriteBody, TypeOK, HashingInv, SignedDigestIsContent,
                         Labels
    <2>3. CASE /\ n # 0
               /\ file' = Append(file, c)
               /\ rc' = n
               /\ offset' = offset + n
               /\ dataChunkSz' = IF rc' = 0 THEN n ELSE Total
               /\ pc' = IF rc' = 0 THEN "writeBody" ELSE "writeFoot"
               /\ UNCHANGED fileSt
      <3>1. Append(file, c) \in Seq(Segment)
        BY <2>1, <2>3, AppendProperties DEF TypeOK, Segment, Chunk
      <3>2. TypeOK'
        BY <1>10, <2>1, <2>3, <3>1 DEF WriteBody, TypeOK, Labels
      <3>3. QED
        BY <1>10, <2>3, <3>2 DEF WriteBody, HashingInv, SignedDigestIsContent
    <2>4. CASE /\ n # 0
               /\ ShortWrite
               /\ dataChunkSz' = n
               /\ UNCHANGED <<file, offset>>
      BY <1>10, <2>1, <2>4 DEF WriteBody, ShortWrite, TypeOK, HashingInv,
                               SignedDigestIsContent, Labels, ERR
    <2>5. QED
      BY <1>10, <2>2, <2>3, <2>4 DEF WriteBody
  <1>11. CASE WriteFoot
    <2>1. CASE /\ file' = Append(file, "foot")
               /\ fileSt' = "closed"
               /\ rc' = FootLen
               /\ pc' = "verInit_tpm"
      <3>1. Append(file, "foot") \in Seq(Segment)
        BY AppendProperties DEF TypeOK, Segment
      <3>2. TypeOK'
        BY <1>11, <2>1, <3>1 DEF WriteFoot, TypeOK, Labels, FootLen
      <3>3. QED
        BY <1>11, <2>1, <3>2 DEF WriteFoot, HashingInv, SignedDigestIsContent
    <2>2. CASE ShortWrite /\ UNCHANGED file
      BY <1>11, <2>2 DEF WriteFoot, ShortWrite, TypeOK, HashingInv,
                         SignedDigestIsContent, Labels, ERR
    <2>3. QED
      BY <1>11, <2>1, <2>2 DEF WriteFoot
  <1>12. CASE PKCS7Init("verInit_tpm", "verify_tpm")
    BY <1>12 DEF PKCS7Init, TypeOK, HashingInv, SignedDigestIsContent,
                 Outcome, Labels, ERR
  <1>13. CASE Verify("tpm", "verify_tpm", "verInit_sw")
    BY <1>13 DEF Verify, TypeOK, HashingInv, SignedDigestIsContent,
                 Outcome, Labels, ERR, Backends
  <1>14. CASE PKCS7Init("verInit_sw", "verify_sw")
    BY <1>14 DEF PKCS7Init, TypeOK, HashingInv, SignedDigestIsContent,
                 Outcome, Labels, ERR
  <1>15. CASE Verify("sw", "verify_sw", "done")
    BY <1>15 DEF Verify, TypeOK, HashingInv, SignedDigestIsContent,
                 Outcome, Labels, ERR, Backends
  <1>16. CASE UNCHANGED vars
    BY <1>16 DEF vars, TypeOK, HashingInv, SignedDigestIsContent
  <1>17. QED
    BY <1>1, <1>2, <1>3, <1>4, <1>5, <1>6, <1>7, <1>8, <1>9, <1>10, <1>11,
       <1>12, <1>13, <1>14, <1>15, <1>16 DEF Next

THEOREM IInvInvariant == Spec => []IInv
  BY InitIInv, NextIInv, PTL DEF Spec

(***************************************************************************)
(* Type correctness of PKCS7_SignVerifyEx's state, for every content      *)
(* length and chunk size.                                                  *)
(***************************************************************************)
THEOREM TypeCorrect == Spec => []TypeOK
  BY IInvInvariant, PTL DEF IInv

(***************************************************************************)
(* The round trip of spec.md 8, for every content length and every chunk  *)
(* size: an envelope built by PKCS7_SignVerifyEx signs the digest of      *)
(* exactly the Total content bytes and declares Total as their length.    *)
(***************************************************************************)
THEOREM RoundTrip == Spec => []SignedDigestIsContent
  BY IInvInvariant, PTL DEF IInv

-----------------------------------------------------------------------------
(***************************************************************************)
(* Refinement of EnvelopeSpec.  Besides IInv, a step must know that no    *)
(* envelope exists before the encoding, and which backends have already  *)
(* verified at each label: EnvInv.                                         *)
(***************************************************************************)
PreEncode == {"hashInit", "hashLoop", "hashFinal", "p7Init", "encode"}

EnvInv ==
    /\ pc \in PreEncode => ~head.ok
    /\ pc \in Labels \ {"verInit_sw", "verify_sw", "done"} => verified = {}
    /\ pc \in {"verInit_sw", "verify_sw"} => verified = {"tpm"}

RInv == IInv /\ EnvInv

LEMMA InitRInv == Init => RInv
  BY InitIInv DEF Init, RInv, EnvInv, PreEncode, Labels

LEMMA NextEnvInv == TypeOK /\ EnvInv /\ [Next]_vars => EnvInv'
  <1> SUFFICES ASSUME TypeOK, EnvInv, [Next]_vars PROVE EnvInv'
    OBVIOUS
  <1>1. CASE Encode
    BY <1>1 DEF Encode, EnvInv, PreEncode, Labels, Outcome
  <1>2. CASE Verify("tpm", "verify_tpm", "verInit_sw")
    BY <1>2 DEF Verify, EnvInv, PreEncode, Labels
  <1>3. CASE Verify("sw", "verify_sw", "done")
    BY <1>3 DEF Verify, EnvInv, PreEncode, Labels
  <1>4. CASE WriteBody
    BY <1>4 DEF WriteBody, ShortWrite, EnvInv, PreEncode, Labels
  <1>5. CASE ~Encode /\ ~Verify("tpm", "verify_tpm", "verInit_sw")
             /\ ~Verify("sw", "verify_sw", "done") /\ ~WriteBody
    BY <1>5 DEF Next, vars, EnvInv, PreEncode, Labels, HashInit, HashUpdate,
                HashEnd, HashFinal, HashAbort, PKCS7Init, FileOpen, WriteHead,
                WriteFoot, ShortWrite
  <1>6. QED
    BY <1>1, <1>2, <1>3, <1>4, <1>5

LEMMA NextRInv == RInv /\ [Next]_vars => RInv'
  BY NextIInv, NextEnvInv DEF RInv, IInv

(***************************************************************************)
(* Each step of PKCS7_SignVerifyEx is a step of EnvelopeSpec or leaves    *)
(* its state alone: the encoding is Sign, a verification that succeeds   *)
(* is Check, a goto exit is Return, and every other step touches neither *)
(* the header, the footer, the verified backends nor the exit label.     *)
(***************************************************************************)
LEMMA StepRefines ==
    RInv /\ RInv' /\ [Next]_vars => [Envelope!Next]_(Envelope!avars)
  <1> SUFFICES ASSUME RInv, RInv', [Next]_vars
               PROVE  [Envelope!Next]_(Envelope!avars)
    OBVIOUS
  <1>. USE DEF RInv, IInv, EnvelopeOf, Envelope!avars, Envelope!NoEnvelope
  <1>1. CASE Encode
    <2>1. CASE pc' = "done"
      BY <1>1, <2>1 DEF Encode, Envelope!Next, Envelope!Return, EnvInv,
                        PreEncode
    <2>2. CASE pc' # "done"
      <3>1. head'.ok /\ ~head.ok /\ UNCHANGED verified /\ pc # "done"
        BY <1>1, <2>2 DEF Encode, EnvInv, PreEncode
      <3>2. IsContent(foot'.digest) /\ head'.contentSz = Total
        BY <3>1 DEF SignedDigestIsContent
      <3>3. Envelope!IsContent(foot'.digest)
        BY <3>2 DEF IsContent, IsChunkingUpTo, EndOf, Envelope!IsContent,
                    Envelope!IsChunkingUpTo, Envelope!EndOf
      <3>4. Envelope!Sign
        BY <3>1, <3>2, <3>3, <2>2 DEF Envelope!Sign
      <3>5. QED
        BY <3>4 DEF Envelope!Next
    <2>3. QED
      BY <2>1, <2>2
  <1>2. ASSUME NEW b \in Backends, NEW here, NEW next,
               Verify(b, here, next),
               \/ b = "tpm" /\ here = "verify_tpm" /\ next = "verInit_sw"
               \/ b = "sw" /\ here = "verify_sw" /\ next = "done"
        PROVE  [Envelope!Next]_(Envelope!avars)
    <2>1. PICK r \in Outcome :
             /\ verified' = IF r = 0 /\ EnvelopeMatches(hashBuf, dataChunkSz)
                            THEN verified \cup {b} ELSE verified
             /\ pc' = IF r = 0 /\ EnvelopeMatches(hashBuf, dataChunkSz)
                      THEN next ELSE "done"
      BY <1>2 DEF Verify
    <2>2. UNCHANGED <<head, foot>> /\ pc = here
      BY <1>2 DEF Verify
    <2>3. CASE r = 0 /\ EnvelopeMatches(hashBuf, dataChunkSz)
      <3>1. head.ok
        BY <2>3 DEF EnvelopeMatches
      <3>2. pc # "done" /\ b \notin verified /\ (b = "sw" => "tpm" \in verified)
        BY <1>2, <2>2 DEF EnvInv, Labels
      <3>3. verified' = verified \cup {b}
        BY <2>1, <2>3
      <3>4. (pc' = "done") = (verified' = Envelope!Backends)
        BY <1>2, <2>1, <2>2, <2>3, <3>3 DEF EnvInv, Labels, Envelope!Backends
      <3>5. EnvelopeOf # Envelope!NoEnvelope /\ UNCHANGED EnvelopeOf
        BY <2>2, <3>1 DEF EnvelopeOf, Envelope!NoEnvelope
      <3>6. Envelope!Check(b)
        BY <3>2, <3>3, <3>4, <3>5 DEF Envelope!Check
      <3>7. QED
        BY <3>6 DEF Envelope!Next, Backends, Envelope!Backends
    <2>4. CASE ~(r = 0 /\ EnvelopeMatches(hashBuf, dataChunkSz))
      BY <1>2, <2>1, <2>2, <2>4 DEF Envelope!Next, Envelope!Return
    <2>5. QED
      BY <2>3, <2>4
  <1>3. CASE UNCHANGED <<head, foot, verified>> /\ pc # "done" /\ pc' = "done"
    BY <1>3 DEF Envelope!Next, Envelope!Return
  <1>4. CASE UNCHANGED <<head, foot, verified>> /\ (pc' = "done") = (pc = "done")
    BY <1>4
  <1>5. CASE ~Encode /\ ~Verify("tpm", "verify_tpm", "verInit_sw")
             /\ ~Verify("sw", "verify_sw", "done")
    <2>1. \/ UNCHANGED <<head, foot, verified>> /\ pc # "done" /\ pc' = "done"
          \/ UNCHANGED <<head, foot, verified>> /\ (pc' = "done") = (pc = "done")
      BY <1>5 DEF Next, vars, HashInit, HashUpdate, HashEnd, HashFinal,
                  HashAbort, PKCS7Init, FileOpen, WriteHead, WriteBody,
                  WriteFoot, ShortWrite
    <2>2. QED
      BY <1>3, <1>4, <2>1
  <1>6. CASE Verify("tpm", "verify_tpm", "verInit_sw")
    BY <1>6, <1>2 DEF Backends
  <1>7. CASE Verify("sw", "verify_sw", "done")
    BY <1>7, <1>2 DEF Backends
  <1>8. QED
    BY <1>1, <1>5, <1>6, <1>7

(***************************************************************************)
(* PKCS7_SignVerifyEx implements EnvelopeSpec's safety part for every     *)
(* content length and chunk size: one envelope, over exactly the content, *)
(* verified through the TPM before software, and nothing after the       *)
(* return.  Init maps to the abstract Init, and under RInv each step maps *)
(* to an abstract step or a stutter (StepRefines).                         *)
(***************************************************************************)
THEOREM Refinement == Spec => ImplementsEnvelope
  <1>1. Init => Envelope!Init
    BY DEF Init, EnvelopeOf, Envelope!Init, Envelope!NoEnvelope
  <1>2. Spec => []RInv
    BY InitRInv, NextRInv, PTL DEF Spec
  <1>3. QED
    BY <1>1, <1>2, StepRefines, PTL DEF Spec, ImplementsEnvelope,
                                       Envelope!SafeSpec

-----------------------------------------------------------------------------
(***************************************************************************)
(* The verifications' inputs.  From the hashing block's success to the    *)
(* verifications dataChunkSz holds the total size, except inside the      *)
(* body loop, which reuses it and resets it on leaving (184); from the    *)
(* encoding on, the header and footer exist and the footer signs hashBuf, *)
(* which nothing writes after wc_HashFinal.                                *)
(***************************************************************************)
PostEncode == {"fileOpen", "writeHead", "writeBody", "writeFoot",
               "verInit_tpm", "verify_tpm", "verInit_sw", "verify_sw"}

VerInv ==
    /\ pc \in {"p7Init", "encode"} \cup (PostEncode \ {"writeBody"})
          => dataChunkSz = Total
    /\ pc \in PostEncode => head.ok /\ foot.ok /\ foot.digest = hashBuf

LEMMA InitVerInv == Init => VerInv
  BY DEF Init, VerInv, PostEncode

LEMMA NextVerInv == TypeOK /\ VerInv /\ [Next]_vars => VerInv'
  <1> SUFFICES ASSUME TypeOK, VerInv, [Next]_vars PROVE VerInv'
    OBVIOUS
  <1>. USE DEF VerInv, PostEncode
  <1>1. CASE HashInit \/ HashUpdate \/ HashEnd \/ HashAbort
    BY <1>1 DEF HashInit, HashUpdate, HashEnd, HashAbort, Outcome
  <1>2. CASE HashFinal
    BY <1>2 DEF HashFinal, Outcome
  <1>3. CASE PKCS7Init("p7Init", "encode")
    BY <1>3 DEF PKCS7Init, Outcome
  <1>4. CASE Encode
    BY <1>4 DEF Encode, Outcome
  <1>5. CASE FileOpen
    BY <1>5 DEF FileOpen
  <1>6. CASE WriteHead
    BY <1>6 DEF WriteHead, ShortWrite
  <1>7. CASE WriteBody
    <2> DEFINE n == GetMyData(ChunkSz, offset)
    <2>1. CASE n = 0
      BY <1>7, <2>1 DEF WriteBody
    <2>2. CASE n # 0
      BY <1>7, <2>2 DEF WriteBody, ShortWrite
    <2>3. QED
      BY <2>1, <2>2
  <1>8. CASE WriteFoot
    BY <1>8 DEF WriteFoot, ShortWrite
  <1>9. CASE PKCS7Init("verInit_tpm", "verify_tpm")
            \/ PKCS7Init("verInit_sw", "verify_sw")
    BY <1>9 DEF PKCS7Init, Outcome
  <1>10. CASE Verify("tpm", "verify_tpm", "verInit_sw")
             \/ Verify("sw", "verify_sw", "done")
    BY <1>10 DEF Verify, Outcome
  <1>11. CASE UNCHANGED vars
    BY <1>11 DEF vars
  <1>12. QED
    BY <1>1, <1>2, <1>3, <1>4, <1>5, <1>6, <1>7, <1>8, <1>9, <1>10, <1>11
       DEF Next

(***************************************************************************)
(* For every content length and chunk size, both verifications of         *)
(* PKCS7_SignVerifyEx are handed the digest the envelope signs and the    *)
(* length its header declares: the reuse of dataChunkSz by the body loop  *)
(* never reaches pkcs7.contentSz.  IInv gives the header's length         *)
(* (SignedDigestIsContent), VerInv the rest.                              *)
(***************************************************************************)
THEOREM VerifyInputs == Spec => []VerifyGetsEnvelope
  <1>1. Init => IInv /\ VerInv
    BY InitIInv, InitVerInv
  <1>2. IInv /\ VerInv /\ [Next]_vars => IInv' /\ VerInv'
    BY NextIInv, NextVerInv DEF IInv
  <1>3. IInv /\ VerInv => VerifyGetsEnvelope
    BY DEF IInv, VerInv, PostEncode, SignedDigestIsContent, VerifyGetsEnvelope,
           EnvelopeMatches
  <1>4. QED
    BY <1>1, <1>2, <1>3, PTL DEF Spec

=============================================================================
