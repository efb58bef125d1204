------------------------------ MODULE BlockCodec ------------------------------
(***************************************************************************)
(* One frame of types 17, 19 and 20 through the shared block encoder       *)
(* (mb_encode_frame) and the shared decoder (mb_frame_verify).             *)
(*                                                                         *)
(* The encoder walks the 4x4 blocks in raster order.  For each it takes a  *)
(* copy of the previous frame or of the present reconstruction, or it      *)
(* weighs a data block against four 2x2 children, built in a private       *)
(* tentative block that is thrown away if the data block is shorter.  The  *)
(* decoder has only the codes, its own picture and its own predictor.      *)
(*                                                                         *)
(* Which accepted copy has the least error, and which of two candidates is *)
(* shorter, depends on the pictures: here any of them may win.  A pixel is *)
(* its luma; chroma is an average carried by the data code.  Stale is what *)
(* both picture buffers hold from the attempt before.  MaxCopies bounds    *)
(* the copies of one frame.                                                *)
(***************************************************************************)
EXTENDS LumaPrediction, Sequences, SequencesExt

CONSTANTS
  Width, Height,     \* in pixels, multiples of four
  LumaLevels,        \* 64 for type 19
  Source, Previous,  \* the pictures: functions of the pixels
  Temporal,          \* the vectors the temporal search may answer with
  MaxCopies

Pixels == (0 .. Width - 1) \X (0 .. Height - 1)
Stale == -1

ASSUME SizeAssumption ==
  /\ Width \in Nat \ {0} /\ Width % 4 = 0
  /\ Height \in Nat \ {0} /\ Height % 4 = 0
ASSUME PictureAssumption ==
  /\ LumaLevels \in Nat \ {0}
  /\ Source \in [Pixels -> 0 .. LumaLevels - 1]
  /\ Previous \in [Pixels -> 0 .. LumaLevels - 1]
ASSUME SearchAssumption == Temporal \subseteq (-8 .. 8) \X (-8 .. 8) /\ MaxCopies \in Nat

VARIABLES
  key,            \* no previous frame: only data and spatial copies
  recon, predictor, stream,
  split,          \* the split candidate being built, or NoSplit
  decoder         \* the decoder's picture, predictor, position and verdict

blockVars == <<key, recon, predictor, stream, split, decoder>>

-----------------------------------------------------------------------------
(* Geometry of blocks and the spatial vectors of the format.               *)

Plus(p, v) == <<p[1] + v[1], p[2] + v[2]>>
Block(at, size) == (at[1] .. at[1] + size - 1) \X (at[2] .. at[2] + size - 1)
Parent(p) == <<p[1] - (p[1] % 4), p[2] - (p[2] % 4)>>
Quadrant(p) == 2 * ((p[2] % 4) \div 2) + (p[1] % 4) \div 2
BeforeInScan(p, q) == p[2] < q[2] \/ (p[2] = q[2] /\ p[1] < q[1])

BlockCount == (Width \div 4) * (Height \div 4)
BlockAt(i) == LET across == Width \div 4 IN <<4 * (i % across), 4 * (i \div across)>>
ChildAt(at, i) == Plus(at, <<2 * (i % 2), 2 * (i \div 2)>>)

Spatial4x4 == {<<dx, -4>> : dx \in -2 .. 2} \union {<<-4, 0>>, <<-4, -1>>, <<-4, -2>>}
Spatial2x2 == {<<dx, -2>> : dx \in -2 .. 2} \union {<<-2, -1>>, <<-2, 0>>, <<-3, 0>>}

-----------------------------------------------------------------------------
(* Data codes, and the pixels of a block in a picture.                     *)

SourceBlock(at, size) == [o \in Span(size) |-> Source[Plus(at, o)]]

MakeData(at, size, carried) ==
  [op |-> "data", residuals |-> Residuals(SourceBlock(at, size), size, carried, LumaLevels)]

Draw(picture, at, size, luma) ==
  [p \in DOMAIN picture |->
     IF p \in Block(at, size) THEN luma[<<p[1] - at[1], p[2] - at[2]>>] ELSE picture[p]]

CopyBlock(reference, picture, at, size, v) ==
  Draw(picture, at, size, [o \in Span(size) |-> reference[Plus(Plus(at, o), v)]])

-----------------------------------------------------------------------------
(* The encoder's candidates.                                               *)

Motion(v, spatial) == [op |-> "motion", v |-> v, spatial |-> spatial]
Inside(at, size, v) == Block(Plus(at, v), size) \subseteq Pixels

FromPrevious(at, size) ==
  IF key THEN {}
  ELSE {[op |-> "stationary"]}
         \union {Motion(v, FALSE) : v \in {w \in Temporal : Inside(at, size, w)}}

Copies4x4(at) ==
  FromPrevious(at, 4)
    \union {Motion(v, TRUE) : v \in {w \in Spatial4x4 : Inside(at, 4, w)}}

\* Seeded fault: a pixel outside the block being split is taken without
\* looking at the scan order.
SplitSpatialPixelAnywhere(p, at, available) == Parent(p) = at => p \in available

\* May a child of the block at `at` refer to pixel p yet?
SplitSpatialPixel(p, at, available) ==
  IF Parent(p) = at THEN p \in available ELSE BeforeInScan(Parent(p), at)

Copies2x2(at, child, available) ==
  FromPrevious(child, 2)
    \union {Motion(v, TRUE) : v \in
              {w \in Spatial2x2 :
                 /\ Inside(child, 2, w)
                 /\ \A p \in Block(Plus(child, w), 2) :
                      SplitSpatialPixel(p, at, available)}}

\* The pixels a copy code takes, out of a picture that holds what is drawn.
Copied(code, picture, at, size) ==
  CASE code.op = "stationary" -> CopyBlock(Previous, picture, at, size, <<0, 0>>)
    [] code.op = "motion" /\ ~code.spatial -> CopyBlock(Previous, picture, at, size, code.v)
    [] code.op = "motion" /\ code.spatial -> CopyBlock(picture, picture, at, size, code.v)

CopyCount(codes) ==
  LET Of(code) == IF code.op = "split"
                  THEN Len(SelectSeq(code.children, LAMBDA c : c.op # "data"))
                  ELSE IF code.op = "data" THEN 0 ELSE 1
  IN  FoldLeft(LAMBDA n, code : n + Of(code), 0, codes)

NoSplit == [at |-> <<>>]
Splitting == split # NoSplit
Position == BlockAt(Len(stream))
MoreBlocks == Len(stream) < BlockCount
MayCopy == CopyCount(stream) + (IF Splitting THEN CopyCount(split.codes) ELSE 0) < MaxCopies

Init ==
  /\ key \in BOOLEAN
  /\ recon = [p \in Pixels |-> Stale]
  /\ predictor = 0
  /\ stream = <<>>
  /\ split = NoSplit
  /\ decoder = [picture |-> [p \in Pixels |-> Stale], predictor |-> 0,
                position |-> 0, ok |-> TRUE]

-----------------------------------------------------------------------------
(* The encoder's steps.                                                    *)

\* An accepted copy is taken at once; the predictor stays.
EncodeCopy ==
  /\ MoreBlocks /\ ~Splitting /\ MayCopy
  /\ \E code \in Copies4x4(Position) :
       /\ stream' = Append(stream, code)
       /\ recon' = Copied(code, recon, Position, 4)
  /\ UNCHANGED <<key, predictor, split, decoder>>

\* No copy was accepted and splitting is allowed.
StartSplit ==
  /\ MoreBlocks /\ ~Splitting
  /\ split' = [at |-> Position, codes |-> <<>>, tentative |-> recon,
               available |-> {}, predictor |-> predictor]
  /\ UNCHANGED <<key, recon, predictor, stream, decoder>>

Child == ChildAt(split.at, Len(split.codes))

EncodeChildCopy ==
  /\ Splitting /\ Len(split.codes) < 4 /\ MayCopy
  /\ \E code \in Copies2x2(split.at, Child, split.available) :
       split' = [split EXCEPT !.codes = Append(@, code),
                              !.tentative = Copied(code, @, Child, 2),
                              !.available = @ \union Block(Child, 2)]
  /\ UNCHANGED <<key, recon, predictor, stream, decoder>>

EncodeChildData ==
  /\ Splitting /\ Len(split.codes) < 4
  /\ split' = [split EXCEPT
                 !.codes = Append(@, MakeData(Child, 2, split.predictor)),
                 !.tentative = Draw(@, Child, 2, SourceBlock(Child, 2)),
                 !.available = @ \union Block(Child, 2),
                 !.predictor = Average(SourceBlock(Child, 2), 2)]
  /\ UNCHANGED <<key, recon, predictor, stream, decoder>>

\* The split is the shorter one.
KeepSplit ==
  /\ Splitting /\ Len(split.codes) = 4
  /\ stream' = Append(stream, [op |-> "split", children |-> split.codes])
  /\ recon' = split.tentative
  /\ predictor' = split.predictor
  /\ split' = NoSplit
  /\ UNCHANGED <<key, decoder>>

\* Seeded fault: the data block is kept, the predictor is that of the split.
KeepDataLosersPredictor ==
  /\ MoreBlocks
  /\ Splitting => Len(split.codes) = 4
  /\ stream' = Append(stream, MakeData(Position, 4, predictor))
  /\ recon' = Draw(recon, Position, 4, SourceBlock(Position, 4))
  /\ predictor' = IF Splitting THEN split.predictor
                  ELSE Average(SourceBlock(Position, 4), 4)
  /\ split' = NoSplit
  /\ UNCHANGED <<key, decoder>>

\* The data block is not longer, or splitting is not allowed.
KeepData ==
  /\ MoreBlocks
  /\ Splitting => Len(split.codes) = 4
  /\ stream' = Append(stream, MakeData(Position, 4, predictor))
  /\ recon' = Draw(recon, Position, 4, SourceBlock(Position, 4))
  /\ predictor' = Average(SourceBlock(Position, 4), 4)
  /\ split' = NoSplit
  /\ UNCHANGED <<key, decoder>>

-----------------------------------------------------------------------------
(* The decoder.                                                            *)

SpatialPixelAvailable(p, at, size) ==
  \/ BeforeInScan(Parent(p), Parent(at))
  \/ size = 2 /\ Parent(p) = Parent(at) /\ Quadrant(p) < Quadrant(at)

Refused(code, at, size) ==
  CASE code.op = "data" -> FALSE
    [] code.op = "stationary" -> key
    [] code.op = "motion" /\ ~code.spatial -> key \/ ~Inside(at, size, code.v)
    [] code.op = "motion" /\ code.spatial ->
         \/ ~Inside(at, size, code.v)
         \/ \E p \in Block(Plus(at, code.v), size) : ~SpatialPixelAvailable(p, at, size)

\* One code of a whole block or of a child; nothing follows an error.
DecodeCode(state, code, at, size) ==
  CASE ~state.ok -> state
    [] state.ok /\ Refused(code, at, size) -> [state EXCEPT !.ok = FALSE]
    [] state.ok /\ code.op = "data" ->
         LET luma == DecodedLuma(code.residuals, size, state.predictor, LumaLevels)
         IN  [state EXCEPT !.picture = Draw(@, at, size, luma),
                           !.predictor = Average(luma, size)]
    [] OTHER -> [state EXCEPT !.picture = Copied(code, @, at, size)]

DecodeSplit(state, children, at) ==
  LET Decode(s, i) == DecodeCode(s, children[i + 1], ChildAt(at, i), 2)
  IN  Decode(Decode(Decode(Decode(state, 0), 1), 2), 3)

DecodeBlock ==
  /\ ~MoreBlocks /\ decoder.ok /\ decoder.position < BlockCount
  /\ LET code == stream[decoder.position + 1]
         at   == BlockAt(decoder.position)
         next == [decoder EXCEPT !.position = @ + 1]
     IN  decoder' = IF code.op = "split" THEN DecodeSplit(next, code.children, at)
                    ELSE DecodeCode(next, code, at, 4)
  /\ UNCHANGED <<key, recon, predictor, stream, split>>

Next ==
  \/ EncodeCopy \/ StartSplit \/ EncodeChildCopy \/ EncodeChildData
  \/ KeepSplit \/ KeepData \/ DecodeBlock

Spec == Init /\ [][Next]_blockVars

-----------------------------------------------------------------------------
(* Properties.                                                             *)

\* The encoder decides what a copy may refer to with a mask of the pixels it
\* has made, the decoder with the order of blocks and quadrants, and a 4x4
\* copy is not checked by the encoder at all: whatever the encoder writes, the
\* decoder never refuses (mb_encode.c:137, mb_frame_verify.c:47).
NeverRefused == decoder.ok

\* The decoder ends with the reconstruction the next frame will be coded
\* against, in every pixel, and neither holds anything of an earlier attempt:
\* tentative blocks, discarded candidates and the predictor of the candidate
\* that lost leave nothing behind (mb_encode.c:880-1020, the self-check of
\* replay_encode.c:1112).
DecoderAgrees ==
  decoder.ok /\ decoder.position = BlockCount =>
    /\ decoder.picture = recon
    /\ decoder.predictor = predictor
    /\ Stale \notin {recon[p] : p \in Pixels}

=============================================================================
