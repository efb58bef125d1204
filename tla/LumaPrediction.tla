---------------------------- MODULE LumaPrediction ----------------------------
(***************************************************************************)
(* The luma of a data block as residuals against its neighbours and the    *)
(* predictor carried from the data block before (make_data4x4, make_luma,  *)
(* encode_data4x4_core and their decoders).                                *)
(*                                                                         *)
(* A block is a function of the offsets in it.  The three coders differ    *)
(* only in the number of levels; a 2x2 block follows the rule of the 4x4.  *)
(***************************************************************************)
EXTENDS Integers, FiniteSetsExt

Span(size) == (0 .. size - 1) \X (0 .. size - 1)

Prediction(luma, o, carried) ==
  LET left  == luma[<<o[1] - 1, o[2]>>]
      above == luma[<<o[1], o[2] - 1>>]
  IN  CASE o = <<0, 0>> -> carried
        [] o[1] > 0 /\ o[2] = 0 -> left
        [] o[1] = 0 /\ o[2] > 0 -> above
        [] OTHER -> (left + above) \div 2

\* The truncated mean, carried to the next data block.
Average(luma, size) == MapThenSumSet(LAMBDA o : luma[o], Span(size)) \div (size * size)

Residuals(luma, size, carried, levels) ==
  [o \in Span(size) |-> (luma[o] - Prediction(luma, o, carried)) % levels]

DecodedLuma(residuals, size, carried, levels) ==
  LET luma[o \in Span(size)] ==
        (Prediction(luma, o, carried) + residuals[o]) % levels
  IN  luma
=============================================================================
