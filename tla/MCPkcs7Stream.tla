--------------------------- MODULE MCPkcs7Stream ---------------------------
(* A small instance of Pkcs7Stream: 107 bytes of content read through a   *)
(* 4-byte buffer, so the content spans 26 full chunks and a partial one   *)
(* of 3 bytes, like MY_DATA_TOTAL = 1 MiB + 12 read in 2048-byte chunks.  *)
EXTENDS Pkcs7Stream

MCTotal == 107
MCChunkSz == 4
=============================================================================
