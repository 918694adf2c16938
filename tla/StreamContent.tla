---------------------------- MODULE StreamContent ----------------------------
(***************************************************************************)
(* The content PKCS7_SignVerifyEx signs (src/examples/pkcs7/pkcs7.c),     *)
(* as GetMyData serves it: Total bytes read through a buffer of ChunkSz   *)
(* bytes.  A chunk is the record [off, len] of the bytes GetMyData wrote  *)
(* (their values depend only on the index inside the chunk), and the      *)
(* content is the sequence of chunks that tiles [0, Total) from offset 0, *)
(* each as long as the buffer or as what remains (spec.md 4.1).  Shared   *)
(* by the detailed specification Pkcs7Stream and the abstract one         *)
(* EnvelopeSpec.                                                           *)
(***************************************************************************)
EXTENDS Integers, Sequences

CONSTANTS
    Total,      \* MY_DATA_TOTAL: length of the content in bytes
    ChunkSz     \* MY_DATA_CHUNKS: size of dataChunk[] (WOLFTPM2_MAX_BUFFER)

ASSUME TotalAssumption == Total \in Nat
ASSUME ChunkSzAssumption == ChunkSz \in Nat \ {0}

Chunk == [off : 0..Total, len : 1..ChunkSz]

EndOf(s) == IF s = <<>> THEN 0 ELSE s[Len(s)].off + s[Len(s)].len

IsChunkingUpTo(s, end) ==
    /\ \A i \in 1..Len(s) :
          /\ s[i].len = IF ChunkSz < Total - s[i].off THEN ChunkSz
                                                      ELSE Total - s[i].off
          /\ s[i].len > 0
    /\ Len(s) > 0 => s[1].off = 0
    /\ \A i \in 1..Len(s) - 1 : s[i + 1].off = s[i].off + s[i].len
    /\ EndOf(s) = end

IsContent(s) == IsChunkingUpTo(s, Total)

=============================================================================
