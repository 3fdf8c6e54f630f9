--------------------------- MODULE MCChunkUpload ----------------------------
(* A job of one token, a second token that may use every job, two requests *)
(* that may send the same chunk, and one chunk per archive.                *)
EXTENDS ChunkUpload

CONSTANTS j1, u1, u2, d, k, good, bad, r1, r2

MCOwner == [j \in Jobs |-> u1]
MCGood == [i \in Chunks |-> good]
=============================================================================
