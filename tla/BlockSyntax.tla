------------------------------ MODULE BlockSyntax ------------------------------
(***************************************************************************)
(* A frame of the Moving Blocks family as bits: the encoder writes the     *)
(* blocks (mb_encode_frame and, for type 7, a frame loop of its own), the  *)
(* verifier reads them back from the bytes alone (mb_frame_verify and      *)
(* codec_movingblocks_verify_frame).                                       *)
(*                                                                         *)
(* A code is what is said of one block: stationary, motion with its        *)
(* vector, data, or a split with four codes.  What a copy draws, and       *)
(* whether it may be used at all, is in BlockCodec; here every block and   *)
(* vector the caller offers is written.  A block without a copy comes as   *)
(* data with the four codes its split would have.                          *)
(***************************************************************************)
EXTENDS MotionCodes, LumaCodes

CONSTANTS
  Types,              \* the compression types, see LumaCodes
  BlockLimit,         \* the most blocks of a frame
  Offered(_, _)       \* the choices for the next block, from the type and
                      \* the codes so far

ASSUME SyntaxAssumption == Types \subseteq AllTypes /\ BlockLimit \in Nat

VARIABLES
  type,
  writer, predictor,  \* of the encoder
  wanted,             \* the codes the encoder was given, as written
  drawn,              \* the same with the chroma a decoder gets
  result              \* of the verifier, or NotRead

frameVars == <<type, writer, predictor, wanted, drawn, result>>

StationaryCode == [op |-> "stationary"]
MotionCode(v) == [op |-> "motion", vector |-> v]
SplitCode(children) == [op |-> "split", children |-> children]

-----------------------------------------------------------------------------
(* Writing one code.  A state is [writer, predictor, drawn].               *)

\* What comes before the vector; type 7 has one opcode for all its moves and
\* no other way to say that a block is stationary.
MoveOpcode(size) ==
  CASE type = 7 /\ size = 4 -> Field(0, 2)
    [] type = 7 /\ size = 2 -> Field(0, 1)
    [] type # 7 /\ size = 4 -> Field(2, 2)
    [] type # 7 /\ size = 2 -> Field(1, 1)

WriteMove(state, size, v) ==
  [state EXCEPT !.writer = WriteAll(@, <<MoveOpcode(size)>> \o WriteMotion(type, size, v)),
                !.drawn = Append(@, MotionCode(v))]

WriteStationary(state, size) ==
  IF type = 7 THEN WriteMove(state, size, Stationary)
  ELSE [state EXCEPT !.writer = Write(@, Field(0, 2)), !.drawn = Append(@, StationaryCode)]

WriteData(state, size, code) ==
  [writer    |-> EncodeData(state.writer, type, size, state.predictor, code),
   predictor |-> Carried(type, state.predictor, code, code.luma, size),
   drawn     |-> Append(state.drawn, Reconstructed(type, state.predictor, code))]

WriteCode(state, size, code) ==
  CASE code.op = "stationary" -> WriteStationary(state, size)
    [] code.op = "motion"     -> WriteMove(state, size, code.vector)
    [] code.op = "data"       -> WriteData(state, size, code)

-----------------------------------------------------------------------------
(* Candidates: each is coded from bit 0 of a scratch buffer.               *)

Scratch == [writer |-> NewWriter, predictor |-> predictor, drawn |-> <<>>]

DataCandidate(code) == WriteData(Scratch, 4, code)

SplitCandidate(children) ==
  LET opened == [Scratch EXCEPT !.writer = Write(@, Field(IF type = 7 THEN 2 ELSE 3, 2))]
  IN  FoldLeft(LAMBDA state, child : WriteCode(state, 2, child), opened, children)

Init ==
  /\ type \in Types
  /\ writer = NewWriter /\ predictor = NewPredictor
  /\ wanted = <<>> /\ drawn = <<>>
  /\ result = [read |-> FALSE]

Encoding == ~result.read /\ Len(wanted) < BlockLimit

\* A copy goes straight to the frame's writer.
EncodeCopy ==
  /\ Encoding
  /\ \E code \in Offered(type, wanted) :
       /\ code.op \in {"stationary", "motion"}
       /\ LET next == WriteCode([writer |-> writer, predictor |-> predictor, drawn |-> drawn],
                                4, code)
          IN  /\ writer' = next.writer
              /\ drawn' = next.drawn
       /\ wanted' = Append(wanted, code)
  /\ UNCHANGED <<type, predictor, result>>

\* The kept candidate is moved behind what the frame has already.
Keep(candidate, code, asDrawn) ==
  /\ writer' = AppendCandidate(writer, FlushZero(candidate.writer).bytes,
                               candidate.writer.total)
  /\ predictor' = candidate.predictor
  /\ wanted' = Append(wanted, code)
  /\ drawn' = Append(drawn, asDrawn)

KeepShorter(offer, allowSplit, data, split) ==
  IF allowSplit /\ split.writer.total < data.writer.total
  THEN Keep(split, SplitCode(offer.children), SplitCode(split.drawn))
  ELSE Keep(data, offer.data, data.drawn[1])

\* Without a copy the split is kept if it is shorter, and the data block else.
EncodeBlock ==
  /\ Encoding
  /\ \E offer \in Offered(type, wanted), allowSplit \in BOOLEAN :
       /\ offer.op = "block"
       /\ KeepShorter(offer, allowSplit, DataCandidate(offer.data),
                      SplitCandidate(offer.children))
  /\ UNCHANGED <<type, result>>

-----------------------------------------------------------------------------
(* Reading.  A state is [reader, predictor, codes].                        *)

DrawCode(state, reader, code) ==
  [state EXCEPT !.reader = reader, !.codes = Append(@, code)]

\* After a read that was too short nothing more is read.
Refused(state, read) == [state EXCEPT !.reader = read.reader]

DrawMove(state, motion) == DrawCode(state, motion.reader, MotionCode(motion.vector))
DrawData(state, data) ==
  [reader |-> data.reader, predictor |-> data.predictor, codes |-> Append(state.codes, data.code)]

ReadMove(state, reader, size) == DrawMove(state, ReadMotion(type, size, reader))
ReadData(state, reader, size) == DrawData(state, DecodeData(reader, type, size, state.predictor))
\* The opcode of a type 7 data block is not part of it.
ReadLiteral(state, reader, size) == DrawData(state, DecodeLiteral(reader, size, state.predictor))

\* Of types 17, 19 and 20: `1` is a move, `00` stationary, `01` a data header.
ReadStill(state, second) ==
  CASE ~second.reader.ok     -> Refused(state, second)
    [] second.field = <<0>> -> DrawCode(state, second.reader, StationaryCode)
    [] second.field = <<1>> -> ReadData(state, state.reader, 2)
ReadChild(state, first) ==
  CASE ~first.reader.ok     -> Refused(state, first)
    [] first.field = <<1>> -> ReadMove(state, first.reader, 2)
    [] first.field = <<0>> -> ReadStill(state, Read(first.reader, 1))

\* Of type 7: `1` is data, `0` a move.
ReadChild7(state, first) ==
  CASE ~first.reader.ok     -> Refused(state, first)
    [] first.field = <<1>> -> ReadLiteral(state, first.reader, 2)
    [] first.field = <<0>> -> ReadMove(state, first.reader, 2)

ReadSplit(state, reader) ==
  LET Child(s, i) ==
        IF ~s.reader.ok THEN s
        ELSE IF type = 7 THEN ReadChild7(s, Read(s.reader, 1)) ELSE ReadChild(s, Read(s.reader, 1))
      Joined(all) == [all EXCEPT !.codes = Append(state.codes, SplitCode(all.codes))]
  IN  Joined(FoldLeft(Child, [state EXCEPT !.reader = reader, !.codes = <<>>], <<1, 2, 3, 4>>))

ReadBlock(state, opcode) ==
  CASE ~opcode.reader.ok           -> Refused(state, opcode)
    [] opcode.field = Field(0, 2) -> DrawCode(state, opcode.reader, StationaryCode)
    [] opcode.field = Field(1, 2) -> ReadData(state, state.reader, 4)
    [] opcode.field = Field(2, 2) -> ReadMove(state, opcode.reader, 4)
    [] opcode.field = Field(3, 2) -> ReadSplit(state, opcode.reader)

ReadCopy7(state, second) ==
  CASE ~second.reader.ok     -> Refused(state, second)
    [] second.field = <<0>> -> ReadMove(state, second.reader, 4)
    [] second.field = <<1>> -> ReadSplit(state, second.reader)
ReadBlock7(state, first) ==
  CASE ~first.reader.ok     -> Refused(state, first)
    [] first.field = <<1>> -> ReadLiteral(state, first.reader, 4)
    [] first.field = <<0>> -> ReadCopy7(state, Read(first.reader, 1))

\* Seeded fault: the bytes are counted, the padding bits are not looked at.
FramedByCount(reader) ==
  type # 7 => Len(reader.bytes) = BytesFor(reader.total)

\* The last block must end in the last byte, and only zeros may follow it.
\* Type 7 has no such check.
Framed(reader) ==
  type # 7 =>
    /\ Len(reader.bytes) = BytesFor(reader.total)
    /\ \A i \in DOMAIN reader.accumulator : reader.accumulator[i] = 0

Verified(bytes, blocks) ==
  LET Block(state, i) ==
        IF ~state.reader.ok THEN state
        ELSE IF type = 7 THEN ReadBlock7(state, Read(state.reader, 1))
        ELSE ReadBlock(state, Read(state.reader, 2))
      Verdict(all) == [ok |-> all.reader.ok /\ Framed(all.reader), codes |-> all.codes,
                       predictor |-> all.predictor, used |-> all.reader.total]
  IN  Verdict(FoldLeft(Block, [reader |-> NewReader(bytes), predictor |-> NewPredictor,
                               codes |-> <<>>], [i \in 1 .. blocks |-> i]))

\* The finished payload is read as it is for a picture of some size, or cut
\* short by a byte, or with a second payload behind it.
VerifyFrame ==
  /\ ~result.read /\ wanted # <<>>
  /\ \E form \in {"whole", "cut", "joined"}, blocks \in Len(wanted) - 1 .. Len(wanted) + 4 :
       /\ form # "whole" => blocks = Len(wanted)
       /\ blocks > 0
       /\ LET payload == FlushZero(writer).bytes
              bytes   == CASE form = "whole"  -> payload
                           [] form = "cut"    -> SubSeq(payload, 1, Len(payload) - 1)
                           [] form = "joined" -> payload \o payload
          IN  result' = [read |-> TRUE, form |-> form, blocks |-> blocks,
                         verdict |-> Verified(bytes, blocks)]
  /\ UNCHANGED <<type, writer, predictor, wanted, drawn>>

Next == EncodeCopy \/ EncodeBlock \/ VerifyFrame
Spec == Init /\ [][Next]_frameVars

-----------------------------------------------------------------------------
(* Properties.                                                             *)

Whole == result.read /\ result.form = "whole" /\ result.blocks = Len(wanted)

\* Written candidate by candidate, each moved from its own buffer to whatever
\* bit the frame has reached, and by tables that share no code with the
\* reader's, a frame is read back as the very blocks, vectors, luma and chroma
\* the encoder drew, to the last bit and with the same predictor
\* (mb_encode.c:60, mb_motion.c:48-100 against 252-284, mb_huffman.c).
ReadsBack ==
  Whole => /\ result.verdict.ok
           /\ result.verdict.codes = drawn
           /\ result.verdict.predictor = predictor
           /\ result.verdict.used = writer.total

\* A payload read for another number of blocks, cut short, or with another
\* behind it is refused, except that the last byte's padding passes for up to
\* three stationary blocks (the framing check of mb_frame_verify.c:349, whose
\* comment says it catches wrong dimensions).  Type 7 only notices the cut.
FramingCatches ==
  result.read /\ ~Whole /\ result.verdict.ok =>
    /\ result.form # "cut"
    /\ type # 7 =>
         LET read == result.verdict.codes
             more == IF Len(read) > Len(drawn) THEN read ELSE drawn
             both == IF Len(read) > Len(drawn) THEN Len(drawn) ELSE Len(read)
         IN  /\ result.form = "whole"
             /\ SubSeq(read, 1, both) = SubSeq(drawn, 1, both)
             /\ Len(more) - both <= 3
             /\ \A i \in both + 1 .. Len(more) : more[i] = StationaryCode

MoveCost(size, v) == Len(FlattenSeq(<<MoveOpcode(size)>> \o WriteMotion(type, size, v)))

\* The size the copy decision reckons with is the size the writer spends, and
\* the first of several equally good vectors is never dearer than a later one,
\* as the searches, which keep the first, take for granted (mb_encode.c:83-125
\* against mb_motion.c:305-440).
CostModel ==
  \A i \in DOMAIN wanted :
    wanted[i].op = "motion" =>
      LET v == wanted[i].vector
      IN  /\ \A size \in (IF v.spatial THEN {4} ELSE {2, 4}) : MoveCost(size, v) = MotionBits(type, size, v)
          /\ ~v.spatial =>
               \A j \in 1 .. TemporalCount(type) - 1 :
                 TemporalAt(type, j) = v =>
                   MotionBits(type, 4, TemporalAt(type, j - 1)) <= MotionBits(type, 4, v)

\* Chroma coded as deltas has no exact code for every step, but it never hunts:
\* while the picture's chroma stays, each data block comes closer to it, and
\* the third is exact (choose_delta, codec_movingblocksbeta.c:406).
ChromaSettles ==
  \A i \in 1 .. Len(wanted) - 1 :
    (wanted[i].op = "data" /\ wanted[i + 1].op = "data" /\ wanted[i].u = wanted[i + 1].u) =>
      LET target == wanted[i].u
      IN  /\ \/ drawn[i + 1].u = target
             \/ Gap(drawn[i + 1].u, target) < Gap(drawn[i].u, target)
          /\ i > 1 /\ wanted[i - 1].op = "data" /\ wanted[i - 1].u = target =>
               drawn[i + 1].u = target
=============================================================================
