---------------------------- MODULE Pkcs7Stream ----------------------------
(***************************************************************************)
(* PKCS7_SignVerifyEx of examples/pkcs7/pkcs7.c: the large-data PKCS#7    *)
(* example.  The content is produced chunk by chunk by GetMyData and fed  *)
(* to a software hash; the digest is signed (through the TPM crypto       *)
(* callback) by wc_PKCS7_EncodeSignedData_ex, which returns a detached    *)
(* header and footer; header, content and footer are written to a .p7s    *)
(* file; finally the envelope is verified twice, once through the TPM     *)
(* device id and once in software.                                        *)
(*                                                                         *)
(* Data is abstracted: a chunk of content is the record [off, len] of the *)
(* bytes GetMyData wrote (their values depend only on the index inside    *)
(* the chunk), the digest is the sequence of chunks that were hashed, a   *)
(* header is the content length it declares and a footer is the digest   *)
(* its signature covers.  wolfCrypt and file I/O calls are nondeterminist-*)
(* ic in their outcome (0 or an error), which is all the code inspects.   *)
(***************************************************************************)
EXTENDS Integers, Sequences, StreamContent

VARIABLES
    pc,           \* the statement of PKCS7_SignVerifyEx about to run
    rc,           \* the local rc
    offset,       \* the local offset into the content
    dataChunkSz,  \* the local dataChunkSz
    hashed,       \* chunks passed to wc_HashUpdate so far (the hash state)
    hashBuf,      \* hashBuf[]: the digest written by wc_HashFinal
    p7,           \* the PKCS7 object: "free" or "live" (initialised)
    head,         \* outputHead: whether written, the length it declares
    foot,         \* outputFoot: whether written, the digest it signs
    file,         \* segments written to pkcs7tpmsignedex.p7s
    fileSt,       \* state of pemFile: "none", "open", "closed"
    verified      \* backends whose wc_PKCS7_VerifySignedData_ex returned 0

vars == <<pc, rc, offset, dataChunkSz, hashed, hashBuf, p7, head, foot,
          file, fileSt, verified>>

ERR == -1           \* any non-zero error code: the code only tests rc = 0
HeadLen == 1        \* XFWRITE's count for a complete header write (> 0)
FootLen == 1        \* XFWRITE's count for a complete footer write (> 0)
Outcome == {0, ERR} \* what a wolfCrypt or I/O call may return
Backends == {"tpm", "sw"}

Segment == Chunk \cup {"head", "foot"}
Labels == {"hashInit", "hashLoop", "hashFinal", "p7Init", "encode",
           "fileOpen", "writeHead", "writeBody", "writeFoot",
           "verInit_tpm", "verify_tpm", "verInit_sw", "verify_sw", "done"}

\* Mutant: GetMyData without the "check for remainder" clamp.
GetMyDataNoClamp(bufSz, off) ==
    IF off >= Total THEN 0 ELSE bufSz

(***************************************************************************)
(* GetMyData(buffer, bufSz, offset) with a buffer: 0 at or past the end,  *)
(* else bufSz clamped to what remains.  With buffer = NULL it returns the *)
(* total size, which is Total.                                             *)
(***************************************************************************)
GetMyData(bufSz, off) ==
    IF off >= Total THEN 0
    ELSE IF bufSz > Total - off THEN Total - off ELSE bufSz

TypeOK ==
    /\ pc \in Labels
    /\ rc \in {ERR} \cup 0..ChunkSz
    /\ offset \in 0..Total
    /\ dataChunkSz \in 0..Total
    /\ hashed \in Seq(Chunk)
    /\ hashBuf \in Seq(Chunk)
    /\ p7 \in {"free", "live"}
    /\ head \in [ok : BOOLEAN, contentSz : 0..Total]
    /\ foot \in [ok : BOOLEAN, digest : Seq(Chunk)]
    /\ file \in Seq(Segment)
    /\ fileSt \in {"none", "open", "closed"}
    /\ verified \subseteq Backends

\* XMEMSET(&pkcs7, 0, ...) and the locals' initial values.  hashBuf[] is
\* not initialised; it is read only after wc_HashFinal wrote it, and until
\* then it holds the empty digest, which is no content of Total > 0 bytes.
Init ==
    /\ pc = "hashInit"
    /\ rc = 0
    /\ offset = 0
    /\ dataChunkSz = 0
    /\ hashed = <<>>
    /\ hashBuf = <<>>
    /\ p7 = "free"
    /\ head = [ok |-> FALSE, contentSz |-> 0]
    /\ foot = [ok |-> FALSE, digest |-> <<>>]
    /\ file = <<>>
    /\ fileSt = "none"
    /\ verified = {}

\* rc = wc_HashInit(&hash, hashType); on failure goto exit.
HashInit ==
    /\ pc = "hashInit"
    /\ \E r \in Outcome :
          /\ rc' = r
          /\ pc' = IF r = 0 THEN "hashLoop" ELSE "done"
    /\ UNCHANGED <<offset, dataChunkSz, hashed, hashBuf, p7, head, foot,
                   file, fileSt, verified>>

\* One pass of the do-while: GetMyData returned a chunk, wc_HashUpdate
\* digests it, offset advances; the loop goes on while rc == 0.
HashUpdate ==
    /\ pc = "hashLoop"
    /\ GetMyData(ChunkSz, offset) # 0
    /\ LET n == GetMyData(ChunkSz, offset) IN
       \E r \in Outcome :
          /\ rc' = r
          /\ dataChunkSz' = n
          /\ hashed' = IF r = 0 THEN Append(hashed, [off |-> offset, len |-> n])
                                ELSE hashed
          /\ offset' = offset + n
          /\ pc' = IF r = 0 THEN "hashLoop" ELSE "hashFinal"
    /\ UNCHANGED <<hashBuf, p7, head, foot, file, fileSt, verified>>

\* Mutant: the loop has no "if (dataChunkSz == 0) break;" and leaves only
\* on an error.
HashEndNoBreak ==
    /\ pc = "hashLoop"
    /\ GetMyData(ChunkSz, offset) = 0
    /\ rc # 0
    /\ dataChunkSz' = 0
    /\ pc' = "hashFinal"
    /\ UNCHANGED <<rc, offset, hashed, hashBuf, p7, head, foot, file, fileSt,
                   verified>>

\* GetMyData returned 0: break out of the hashing loop.
HashEnd ==
    /\ pc = "hashLoop"
    /\ GetMyData(ChunkSz, offset) = 0
    /\ dataChunkSz' = 0
    /\ pc' = "hashFinal"
    /\ UNCHANGED <<rc, offset, hashed, hashBuf, p7, head, foot, file, fileSt,
                   verified>>

\* After the loop with rc == 0: wc_HashFinal, wc_HashFree, then on success
\* dataChunkSz = GetMyData(NULL, 0, 0), the total size.
HashFinal ==
    /\ pc = "hashFinal"
    /\ rc = 0
    /\ \E r \in Outcome :
          /\ rc' = r
          /\ hashBuf' = IF r = 0 THEN hashed ELSE hashBuf
          /\ dataChunkSz' = IF r = 0 THEN Total ELSE dataChunkSz
          /\ pc' = IF r = 0 THEN "p7Init" ELSE "done"
    /\ UNCHANGED <<offset, hashed, p7, head, foot, file, fileSt, verified>>

\* Mutant: no "if (rc != 0) goto exit" after the hashing block.
HashAbortNoExit ==
    /\ pc = "hashFinal"
    /\ rc # 0
    /\ pc' = "p7Init"
    /\ UNCHANGED <<rc, offset, dataChunkSz, hashed, hashBuf, p7, head, foot,
                   file, fileSt, verified>>

\* After the loop with rc != 0: wc_HashFree, then goto exit.
HashAbort ==
    /\ pc = "hashFinal"
    /\ rc # 0
    /\ pc' = "done"
    /\ UNCHANGED <<rc, offset, dataChunkSz, hashed, hashBuf, p7, head, foot,
                   file, fileSt, verified>>

(***************************************************************************)
(* wc_PKCS7_Init then wc_PKCS7_InitWithCert, each followed by              *)
(* "if (rc != 0) goto exit".  The PKCS7 object is live once Init          *)
(* succeeded, whatever InitWithCert returns; "next" is where the code     *)
(* goes when both succeed.                                                 *)
(***************************************************************************)
PKCS7Init(here, next) ==
    /\ pc = here
    /\ \E r1, r2 \in Outcome :
          /\ rc' = IF r1 # 0 THEN r1 ELSE r2
          /\ p7' = IF r1 = 0 THEN "live" ELSE p7
          /\ pc' = IF r1 = 0 /\ r2 = 0 THEN next ELSE "done"
    /\ UNCHANGED <<offset, dataChunkSz, hashed, hashBuf, head, foot, file,
                   fileSt, verified>>

\* pkcs7.contentSz = dataChunkSz; wc_PKCS7_EncodeSignedData_ex signs
\* hashBuf (through the TPM key) and fills outputHead and outputFoot; on
\* success wc_PKCS7_Free.
Encode ==
    /\ pc = "encode"
    /\ \E r \in Outcome :
          /\ rc' = r
          /\ head' = IF r = 0 THEN [ok |-> TRUE, contentSz |-> dataChunkSz]
                              ELSE head
          /\ foot' = IF r = 0 THEN [ok |-> TRUE, digest |-> hashBuf] ELSE foot
          /\ p7' = IF r = 0 THEN "free" ELSE p7
          /\ pc' = IF r = 0 THEN "fileOpen" ELSE "done"
    /\ UNCHANGED <<offset, dataChunkSz, hashed, hashBuf, file, fileSt,
                   verified>>

\* pemFile = XFOPEN(...); when it is XBADFILE the file block is skipped.
FileOpen ==
    /\ pc = "fileOpen"
    /\ \E opened \in BOOLEAN :
          /\ fileSt' = IF opened THEN "open" ELSE fileSt
          /\ pc' = IF opened THEN "writeHead" ELSE "verInit_tpm"
    /\ UNCHANGED <<rc, offset, dataChunkSz, hashed, hashBuf, p7, head, foot,
                   file, verified>>

\* A short XFWRITE closes the file and goes to exit with rc = -1.
ShortWrite ==
    /\ fileSt' = "closed"
    /\ rc' = ERR
    /\ pc' = "done"

\* Header: rc = XFWRITE(outputHead, ...), checked against outputHeadSz.
WriteHead ==
    /\ pc = "writeHead"
    /\ \/ /\ file' = Append(file, "head")
          /\ rc' = HeadLen
          /\ pc' = "writeBody"
          /\ UNCHANGED fileSt
       \/ ShortWrite /\ UNCHANGED file
    /\ UNCHANGED <<offset, dataChunkSz, hashed, hashBuf, p7, head, foot,
                   verified>>

\* Mutant: no "dataChunkSz = GetMyData(NULL, 0, 0)" after the body loop, so
\* dataChunkSz keeps the loop's last value.
WriteBodyNoTotal ==
    /\ pc = "writeBody"
    /\ LET n == GetMyData(ChunkSz, offset) IN
       IF n = 0
       THEN /\ dataChunkSz' = n
            /\ pc' = "writeFoot"
            /\ UNCHANGED <<rc, offset, file, fileSt>>
       ELSE \/ /\ file' = Append(file, [off |-> offset, len |-> n])
               /\ rc' = n
               /\ offset' = offset + n
               /\ dataChunkSz' = n
               /\ pc' = IF rc' = 0 THEN "writeBody" ELSE "writeFoot"
               /\ UNCHANGED fileSt
            \/ ShortWrite /\ dataChunkSz' = n /\ UNCHANGED <<file, offset>>
    /\ UNCHANGED <<hashed, hashBuf, p7, head, foot, verified>>

(***************************************************************************)
(* Body: one pass of the do-while that writes GetMyData(..., offset)      *)
(* chunks, with offset as the hashing loop left it.  GetMyData returning  *)
(* 0 breaks out; otherwise the chunk is written and rc holds XFWRITE's    *)
(* count, so "while (rc == 0)" ends the loop after that chunk.  Either    *)
(* way dataChunkSz = GetMyData(NULL, 0, 0) follows.                        *)
(***************************************************************************)
WriteBody ==
    /\ pc = "writeBody"
    /\ LET n == GetMyData(ChunkSz, offset) IN
       IF n = 0
       THEN /\ dataChunkSz' = Total
            /\ pc' = "writeFoot"
            /\ UNCHANGED <<rc, offset, file, fileSt>>
       ELSE \/ /\ file' = Append(file, [off |-> offset, len |-> n])
               /\ rc' = n
               /\ offset' = offset + n
               /\ dataChunkSz' = IF rc' = 0 THEN n ELSE Total
               /\ pc' = IF rc' = 0 THEN "writeBody" ELSE "writeFoot"
               /\ UNCHANGED fileSt
            \/ ShortWrite /\ dataChunkSz' = n /\ UNCHANGED <<file, offset>>
    /\ UNCHANGED <<hashed, hashBuf, p7, head, foot, verified>>

\* Footer: rc = XFWRITE(outputFoot, ...), then XFCLOSE.
WriteFoot ==
    /\ pc = "writeFoot"
    /\ \/ /\ file' = Append(file, "foot")
          /\ fileSt' = "closed"
          /\ rc' = FootLen
          /\ pc' = "verInit_tpm"
       \/ ShortWrite /\ UNCHANGED file
    /\ UNCHANGED <<offset, dataChunkSz, hashed, hashBuf, p7, head, foot,
                   verified>>

(***************************************************************************)
(* What wc_PKCS7_VerifySignedData_ex accepts: the digest the caller       *)
(* passes is the one the footer's signature covers, and pkcs7.contentSz   *)
(* is the length the header declares.                                      *)
(***************************************************************************)
EnvelopeMatches(digest, contentSz) ==
    /\ head.ok
    /\ foot.ok
    /\ foot.digest = digest
    /\ head.contentSz = contentSz

\* Mutant: a failed verification without its "if (rc != 0) goto exit".
VerifyNoExit(b, here, next) ==
    /\ pc = here
    /\ \E r \in Outcome :
          LET ok == r = 0 /\ EnvelopeMatches(hashBuf, dataChunkSz) IN
          /\ rc' = IF ok THEN 0 ELSE ERR
          /\ verified' = IF ok THEN verified \cup {b} ELSE verified
          /\ p7' = IF ok THEN "free" ELSE p7
          /\ pc' = next
    /\ UNCHANGED <<offset, dataChunkSz, hashed, hashBuf, head, foot, file,
                   fileSt>>

\* pkcs7.contentSz = dataChunkSz; rc = wc_PKCS7_VerifySignedData_ex(&pkcs7,
\* hashBuf, ...); on success wc_PKCS7_Free and go on to "next".
Verify(b, here, next) ==
    /\ pc = here
    /\ \E r \in Outcome :
          LET ok == r = 0 /\ EnvelopeMatches(hashBuf, dataChunkSz) IN
          /\ rc' = IF ok THEN 0 ELSE ERR
          /\ verified' = IF ok THEN verified \cup {b} ELSE verified
          /\ p7' = IF ok THEN "free" ELSE p7
          /\ pc' = IF ok THEN next ELSE "done"
    /\ UNCHANGED <<offset, dataChunkSz, hashed, hashBuf, head, foot, file,
                   fileSt>>

Next ==
    \/ HashInit
    \/ HashUpdate
    \/ HashEnd
    \/ HashFinal
    \/ HashAbort
    \/ PKCS7Init("p7Init", "encode")
    \/ Encode
    \/ FileOpen
    \/ WriteHead
    \/ WriteBody
    \/ WriteFoot
    \/ PKCS7Init("verInit_tpm", "verify_tpm")
    \/ Verify("tpm", "verify_tpm", "verInit_sw")
    \/ PKCS7Init("verInit_sw", "verify_sw")
    \/ Verify("sw", "verify_sw", "done")

\* The example runs on one thread and every call returns.
Spec == Init /\ [][Next]_vars /\ WF_vars(Next)

-----------------------------------------------------------------------------
(***************************************************************************)
(* Round trip of spec.md 3 and 8: once wc_PKCS7_EncodeSignedData_ex has   *)
(* produced an envelope, its signature covers the digest of exactly the   *)
(* Total content bytes, in order, with no gap, overlap or overrun from    *)
(* the last partial chunk, and the header declares Total bytes.  It rests *)
(* on the clamp in GetMyData, the break on 0, the offset update and the   *)
(* "if (rc != 0) goto exit" after a failed wc_HashUpdate or wc_HashFinal. *)
(***************************************************************************)
SignedDigestIsContent ==
    head.ok => /\ IsContent(foot.digest)
                   /\ head.contentSz = Total

(***************************************************************************)
(* Both verifications (pkcs7.c 203-205, 217-219) are handed the envelope  *)
(* the encoding produced: hashBuf is the digest the footer signs, and     *)
(* pkcs7.contentSz, copied from dataChunkSz, is the length the header     *)
(* declares.  The body loop reuses dataChunkSz for its chunks; the reset  *)
(* to the total size after it (184), and the hashing block's (129) on the *)
(* path that skips the file, are what make it hold.  A failure of either  *)
(* verification then comes from wolfCrypt, not from the caller's inputs.  *)
(***************************************************************************)
VerifyGetsEnvelope ==
    pc \in {"verInit_tpm", "verify_tpm", "verInit_sw", "verify_sw"}
        => EnvelopeMatches(hashBuf, dataChunkSz)

(***************************************************************************)
(* spec.md 6: "Header || Content || Footer reconstructs a standards-      *)
(* conformant signed message".  When PKCS7_SignVerifyEx returns 0 and the *)
(* .p7s file was written and closed, the file is the header, every chunk  *)
(* of the content in order, then the footer.                               *)
(***************************************************************************)
FileIsEnvelope ==
    (pc = "done" /\ rc = 0 /\ fileSt = "closed")
        => /\ Len(file) >= 2
           /\ file[1] = "head"
           /\ file[Len(file)] = "foot"
           /\ IsContent(SubSeq(file, 2, Len(file) - 1))

(***************************************************************************)
(* The example never hangs: however wolfCrypt and the file calls turn     *)
(* out, PKCS7_SignVerifyEx returns (the hashing loop ends because offset  *)
(* reaches Total and GetMyData then returns 0).                            *)
(***************************************************************************)
Termination == <>(pc = "done")

-----------------------------------------------------------------------------
(***************************************************************************)
(* Refinement: PKCS7_SignVerifyEx implements EnvelopeSpec.  The abstract  *)
(* envelope is the header and footer once wc_PKCS7_EncodeSignedData_ex    *)
(* has written them (the digest the footer signs, the length the header   *)
(* declares), the backends that accepted it are verified, and the         *)
(* program has returned when it reached exit.                              *)
(***************************************************************************)
EnvelopeOf ==
    IF head.ok THEN [signed |-> TRUE, digest |-> foot.digest,
                     size |-> head.contentSz]
               ELSE [signed |-> FALSE, digest |-> <<>>, size |-> 0]

Envelope == INSTANCE EnvelopeSpec
              WITH envelope <- EnvelopeOf,
                   checked <- verified,
                   returned <- (pc = "done")

(***************************************************************************)
(* The example behaves as its abstract specification says: it signs one  *)
(* envelope, over exactly the content, before anything verifies it; it    *)
(* verifies through the TPM before software and stops after the second    *)
(* verification or the first error; and nothing it does after the exit    *)
(* label changes the envelope.  (That it returns is Termination.)          *)
(***************************************************************************)
ImplementsEnvelope == Envelope!SafeSpec

-----------------------------------------------------------------------------
(***************************************************************************)
(* The inductive strengthening of SignedDigestIsContent proved in         *)
(* Pkcs7StreamProofs: before the hashing loop nothing is hashed; while   *)
(* the loop runs without error the chunks hashed tile [0, offset); when  *)
(* it has ended they tile the whole                                        *)
(* content; from wc_HashFinal to the encoding hashBuf is that content and *)
(* dataChunkSz is Total.                                                   *)
(***************************************************************************)
HashingInv ==
    /\ pc = "hashInit" => hashed = <<>> /\ offset = 0
    /\ pc = "hashLoop" => rc = 0 /\ IsChunkingUpTo(hashed, offset)
    /\ pc = "hashFinal" /\ rc = 0 => IsContent(hashed)
    /\ pc \in {"p7Init", "encode"} => IsContent(hashBuf) /\ dataChunkSz = Total

IInv ==
    /\ TypeOK
    /\ HashingInv
    /\ SignedDigestIsContent

\* spec.md 5 and 9: a resource acquired mid-pipeline is released on every
\* exit path.  When PKCS7_SignVerifyEx returns, the PKCS7 object that
\* wc_PKCS7_Init set up has been freed; the code frees it only after a
\* success (151, 208, 221), and exit: (225) returns without freeing it.
P7FreedAtReturn == pc = "done" => p7 = "free"

=============================================================================
