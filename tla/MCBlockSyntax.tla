---------------------------- MODULE MCBlockSyntax ----------------------------
(* The second block may be a copy by any vector, behind a motion block or *)
(* a split that leave it at different bits; or another of a few blocks;    *)
(* or, of the new type 20, four flat data blocks of two chroma values.     *)
EXTENDS BlockSyntax

Flat(level) == [o \in Span(4) |-> level]
Steep(t) == [o \in Span(4) |-> (13 * o[1] + 29 * o[2] + o[1] * o[2]) % Levels(t)]
Part(luma, at) == [o \in Span(2) |-> luma[<<o[1] + at[1], o[2] + at[2]>>]]

\* A data block and what its children would be: the first and the last as
\* data, the others as copies.
BlockOffer(luma, u, v, second, third) ==
  [op |-> "block", data |-> Data(luma, u, v),
   children |-> <<Data(Part(luma, <<0, 0>>), v, u), second, third,
                  Data(Part(luma, <<2, 2>>), u, v)>>]

Vectors(t) ==
  {TemporalAt(t, i) : i \in 0 .. TemporalCount(t) - 1} \union {SpatialAt(4, i) : i \in 0 .. 7}
Half(t) == 2 ^ (ChromaBits(t) - 1)

FewCopies(t) == {StationaryCode, MotionCode(SpatialAt(4, 7))}
FewBlocks(t) ==
  {BlockOffer(Steep(t), 3, 2 * Half(t) - 1, StationaryCode, MotionCode(TemporalAt(t, 30))),
   BlockOffer(Flat(0), 0, 0, MotionCode(SpatialAt(2, 5)), StationaryCode)}

FlatBlock(u) ==
  [op |-> "block", data |-> Data(Flat(5), u, (u + 7) % 64),
   children |-> [i \in 1 .. 4 |-> Data(Part(Flat(5), <<0, 0>>), u, u)]]
OnlyFlat(t, codes) ==
  t = 205 /\ \A i \in DOMAIN codes : codes[i].op = "data" /\ codes[i].luma = Flat(5)

Offers(t, codes) ==
  CASE Len(codes) = 0 -> FewCopies(t) \union FewBlocks(t)
                           \union (IF t = 205 THEN {FlatBlock(Moved(0, c)) : c \in {0, 4, 8, 11, 15}} ELSE {})
    [] Len(codes) \in {1, 2} /\ OnlyFlat(t, codes) ->
         {FlatBlock(u) : u \in IF Len(codes) = 1 THEN 0 .. 63 ELSE {codes[2].u}}
    [] Len(codes) = 3 /\ OnlyFlat(t, codes) -> {FlatBlock(codes[2].u)}
    [] Len(codes) = 1 /\ ~OnlyFlat(t, codes) ->
         (IF codes[1].op \in {"motion", "split"}
          THEN {MotionCode(v) : v \in Vectors(t)} ELSE {}) \union FewCopies(t) \union FewBlocks(t)
    [] Len(codes) \in {2, 3} /\ ~OnlyFlat(t, codes) /\ codes[2].op # "motion" -> {StationaryCode}
    [] OTHER -> {}
=============================================================================
