------------------------- MODULE MCGammaFileCipher -------------------------
(***************************************************************************)
(* A chunk is a pair of bits: large enough that a portion, a key portion   *)
(* and the stale buffer differ, small enough to try every key.             *)
(***************************************************************************)
EXTENDS GammaFileCipher

MCChunk == [{1, 2} -> 0..1]
MCZeroChunk == <<0, 0>>
MCGammaChunk(m, k) == [b \in {1, 2} |-> (m[b] + k[b]) % 2]

\* Files of none, one, two and three portions; all keys of at most three portions.
MCMasters == {<<>>, <<<<0, 1>>>>, <<<<1, 0>>, <<0, 0>>>>, <<<<1, 1>>, <<0, 1>>, <<0, 0>>>>}
MCKeys == UNION {[1..n -> MCChunk] : n \in 0..3}

\* The hypothesis of DocumentsSurviveTogether, for these chunks.
ASSUME GammaCommutesForBits == GammaCommutesOn(Chunk)
=============================================================================
