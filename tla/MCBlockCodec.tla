---------------------------- MODULE MCBlockCodec ----------------------------
(* Four blocks, so that there is a block before, above, and above to the   *)
(* right of another; pictures without two equal neighbours.                *)
EXTENDS BlockCodec

SourcePicture == [p \in Pixels |-> (5 * p[1] + 11 * p[2] + p[1] * p[2]) % LumaLevels]
PreviousPicture == [p \in Pixels |-> (40 + 7 * p[1] + 3 * p[2] * p[2]) % LumaLevels]
TemporalVectors == {<<1, -1>>}
=============================================================================
