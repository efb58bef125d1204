--------------------------- MODULE BlockCodecProofs ---------------------------
(***************************************************************************)
(* The decoder never refuses what the encoder writes, and ends with the    *)
(* encoder's reconstruction and predictor, for frames of any size, any     *)
(* pictures and any temporal vectors.                                      *)
(*                                                                         *)
(* Accepted: the encoder's mask and the decoder's order of quadrants say   *)
(* the same thing of every pixel, and the vectors of the 4x4 table, which  *)
(* the encoder does not check, lead to earlier blocks.                     *)
(*                                                                         *)
(* The same picture: blocks and children are cells, made in an order in    *)
(* which a code refers only to cells before its own.  What a code stands   *)
(* for is then a fact of the reconstruction that later cells cannot        *)
(* change, and a decoder right before a cell is right after it.            *)
(***************************************************************************)
EXTENDS BlockCodec, SequenceTheorems, FiniteSetTheorems, WellFoundedInduction, TLAPS

\* A code the decoder accepts at a block or child of this size.
Fits(code, at, size) ==
  /\ code.op \in {"data", "stationary", "motion"}
  /\ code.op = "stationary" => ~key
  /\ code.op = "motion" =>
       /\ code.spatial \in BOOLEAN
       /\ code.v \in Int \X Int
       /\ Inside(at, size, code.v)
       /\ ~code.spatial => ~key
       /\ code.spatial => \A p \in Block(Plus(at, code.v), size) :
                             SpatialPixelAvailable(p, at, size)

ChildrenFit(codes, at) ==
  \A i \in 0 .. 3 : i < Len(codes) => Fits(codes[i + 1], ChildAt(at, i), 2)

FitsBlock(code, at) ==
  IF code.op = "split"
  THEN Len(code.children) = 4 /\ ChildrenFit(code.children, at)
  ELSE Fits(code, at, 4)

IsSequence(s) == s \in Seq({s[i] : i \in DOMAIN s})

StreamFits ==
  /\ IsSequence(stream)
  /\ \A i \in 1 .. Len(stream) : FitsBlock(stream[i], BlockAt(i - 1))

\* The mask holds the quadrants of the children already made.
SplitFits ==
  Splitting =>
    /\ split = [at |-> split.at, codes |-> split.codes, tentative |-> split.tentative,
                available |-> split.available, predictor |-> split.predictor]
    /\ MoreBlocks /\ split.at = Position
    /\ IsSequence(split.codes) /\ Len(split.codes) <= 4
    /\ split.available = {p \in Block(split.at, 4) : Quadrant(p) < Len(split.codes)}
    /\ ChildrenFit(split.codes, split.at)

DecoderFits ==
  /\ {"picture", "predictor", "position", "ok"} \subseteq DOMAIN decoder
  /\ decoder.ok = TRUE
  /\ decoder.position \in Nat

IInv == StreamFits /\ SplitFits /\ DecoderFits

-----------------------------------------------------------------------------
(* Geometry.                                                               *)

\* The corner of a 4x4 block.
Corner(at) == \E i, j \in Int : at = <<4 * i, 4 * j>>

LEMMA BlocksAreCorners ==
  ASSUME NEW n \in Nat
  PROVE  Corner(BlockAt(n))
<1>1. Width \div 4 \in Nat \ {0}
  BY SizeAssumption
<1>2. n % (Width \div 4) \in Int /\ n \div (Width \div 4) \in Int
  BY <1>1
<1>3. QED
  BY <1>2 DEF Corner, BlockAt

LEMMA ParentOfCoordinates ==
  ASSUME NEW x \in Int, NEW i \in Int
  PROVE  (x - (x % 4) = 4 * i) <=> (4 * i <= x /\ x < 4 * i + 4)
OBVIOUS

\* Every vector of the 4x4 table leads to blocks that are drawn.
LEMMA SpatialTablePointsBack ==
  ASSUME NEW at, Corner(at), NEW v \in Spatial4x4, NEW p \in Block(Plus(at, v), 4)
  PROVE  SpatialPixelAvailable(p, at, 4)
<1>1. PICK i \in Int, j \in Int : at = <<4 * i, 4 * j>>
  BY DEF Corner
<1>2. /\ v[1] \in Int /\ v[2] \in Int
      /\ \/ v[2] = -4
         \/ v[1] = -4 /\ v[2] \in {0, -1, -2}
  BY DEF Spatial4x4
<1>3. /\ p[1] \in Int /\ p[2] \in Int
      /\ 4 * i + v[1] <= p[1] /\ p[1] <= 4 * i + v[1] + 3
      /\ 4 * j + v[2] <= p[2] /\ p[2] <= 4 * j + v[2] + 3
  BY <1>1, <1>2 DEF Block, Plus
<1>4. Parent(at) = at
  BY <1>1 DEF Parent
<1>5. \/ p[2] - (p[2] % 4) = 4 * (j - 1)
      \/ p[2] - (p[2] % 4) = 4 * j /\ p[1] - (p[1] % 4) = 4 * (i - 1)
  <2>1. CASE v[2] = -4
    <3>1. p[2] - (p[2] % 4) = 4 * (j - 1)
      BY <1>3, <2>1, ParentOfCoordinates
    <3>2. QED
      BY <3>1
  <2>2. CASE v[1] = -4 /\ v[2] \in {0, -1, -2}
    <3>1. p[1] - (p[1] % 4) = 4 * (i - 1)
      BY <1>3, <2>2, ParentOfCoordinates
    <3>2. p[2] - (p[2] % 4) = 4 * (j - 1) \/ p[2] - (p[2] % 4) = 4 * j
      BY <1>3, <2>2, ParentOfCoordinates
    <3>3. QED
      BY <3>1, <3>2
  <2>3. QED
    BY <1>2, <2>1, <2>2
<1>6. QED
  BY <1>1, <1>3, <1>4, <1>5 DEF SpatialPixelAvailable, BeforeInScan, Parent

LEMMA ChildGeometry ==
  ASSUME NEW at, Corner(at), NEW n \in 0 .. 3
  PROVE  /\ Parent(ChildAt(at, n)) = at
         /\ Quadrant(ChildAt(at, n)) = n
         /\ Block(ChildAt(at, n), 2) = {p \in Block(at, 4) : Quadrant(p) = n}
<1>1. PICK i \in Int, j \in Int : at = <<4 * i, 4 * j>>
  BY DEF Corner
<1>2. n = 2 * (n \div 2) + (n % 2) /\ n % 2 \in {0, 1} /\ n \div 2 \in {0, 1}
  OBVIOUS
<1>3. ChildAt(at, n) = <<4 * i + 2 * (n % 2), 4 * j + 2 * (n \div 2)>>
  BY <1>1 DEF ChildAt, Plus
<1>4. /\ Parent(ChildAt(at, n)) = at
      /\ Quadrant(ChildAt(at, n)) = n
  <2>1. \A k \in Int, b \in {0, 1} : (4 * k + 2 * b) % 4 = 2 * b /\ (2 * b) \div 2 = b
    OBVIOUS
  <2>2. /\ (4 * i + 2 * (n % 2)) % 4 = 2 * (n % 2) /\ (2 * (n % 2)) \div 2 = n % 2
        /\ (4 * j + 2 * (n \div 2)) % 4 = 2 * (n \div 2)
        /\ (2 * (n \div 2)) \div 2 = n \div 2
    BY <1>2, <2>1
  <2>3. Parent(ChildAt(at, n)) = at
    BY <1>1, <1>2, <1>3, <2>2 DEF Parent
  <2>4. Quadrant(ChildAt(at, n)) = n
    BY <1>2, <1>3, <2>2 DEF Quadrant
  <2>5. QED
    BY <2>3, <2>4
<1>5. ASSUME NEW x \in Int, NEW y \in Int
      PROVE  <<x, y>> \in Block(ChildAt(at, n), 2)
               <=> <<x, y>> \in Block(at, 4) /\ Quadrant(<<x, y>>) = n
  BY <1>1, <1>2, <1>3 DEF Block, Quadrant
<1>6. \A p \in Block(ChildAt(at, n), 2) : \E x, y \in Int : p = <<x, y>>
  BY <1>3, <1>2, <1>1 DEF Block
<1>7. \A p \in Block(at, 4) : \E x, y \in Int : p = <<x, y>>
  BY <1>1 DEF Block
<1>8. QED
  BY <1>4, <1>5, <1>6, <1>7

\* What the mask allows a child, the order of quadrants allows it too.
LEMMA MaskIsQuadrantOrder ==
  ASSUME NEW at, Corner(at), NEW n \in 0 .. 3, NEW p,
         SplitSpatialPixel(p, at, {q \in Block(at, 4) : Quadrant(q) < n})
  PROVE  SpatialPixelAvailable(p, ChildAt(at, n), 2)
BY ChildGeometry DEF SplitSpatialPixel, SpatialPixelAvailable

-----------------------------------------------------------------------------
(* Codes and their sequences.                                              *)

LEMMA AppendExtends ==
  ASSUME NEW s, IsSequence(s), NEW e
  PROVE  /\ IsSequence(Append(s, e))
         /\ Len(s) \in Nat
         /\ Len(Append(s, e)) = Len(s) + 1
         /\ Append(s, e)[Len(s) + 1] = e
         /\ \A i \in 1 .. Len(s) : Append(s, e)[i] = s[i]
<1> DEFINE S == {s[i] : i \in DOMAIN s} \union {e}
<1> DEFINE t == Append(s, e)
<1>1. s \in Seq(S)
  <2>1. Seq({s[i] : i \in DOMAIN s}) \subseteq Seq(S)
    BY SeqMonotonic
  <2>2. QED
    BY <2>1 DEF IsSequence
<1>2. /\ t \in Seq(S) /\ Len(s) \in Nat /\ Len(t) = Len(s) + 1
      /\ t[Len(s) + 1] = e
      /\ \A i \in 1 .. Len(s) : t[i] = s[i]
  BY <1>1, AppendProperties
<1>3. t \in Seq({t[i] : i \in DOMAIN t})
  <2> HIDE DEF t
  <2>1. t = [i \in 1 .. Len(t) |-> t[i]] /\ DOMAIN t = 1 .. Len(t) /\ Len(t) \in Nat
    BY <1>2, LenProperties
  <2>2. [i \in 1 .. Len(t) |-> t[i]] \in Seq({t[i] : i \in DOMAIN t})
    BY <2>1, IsASeq
  <2>3. QED
    BY <2>1, <2>2
<1>4. QED
  BY <1>2, <1>3 DEF IsSequence

\* What fits is not refused.
LEMMA FitsNotRefused ==
  ASSUME NEW code, NEW at, NEW size, Fits(code, at, size)
  PROVE  ~Refused(code, at, size)
<1>1. CASE code.op = "data"
  BY <1>1 DEF Refused
<1>2. CASE code.op = "stationary"
  BY <1>2 DEF Refused, Fits
<1>3. CASE code.op = "motion" /\ ~code.spatial
  BY <1>3 DEF Refused, Fits
<1>4. CASE code.op = "motion" /\ code.spatial
  BY <1>4 DEF Refused, Fits
<1>5. QED
  BY <1>1, <1>2, <1>3, <1>4 DEF Fits

\* A state of the decoder that has refused nothing.
Sound(state) ==
  /\ {"picture", "predictor", "position", "ok"} \subseteq DOMAIN state
  /\ state.ok = TRUE

LEMMA DecodeCodeSound ==
  ASSUME NEW state, Sound(state), NEW code, NEW at, NEW size, Fits(code, at, size)
  PROVE  /\ Sound(DecodeCode(state, code, at, size))
         /\ DecodeCode(state, code, at, size).position = state.position
<1>1. ~Refused(code, at, size)
  BY FitsNotRefused
<1>2. CASE code.op = "data"
  BY <1>1, <1>2 DEF DecodeCode, Sound
<1>3. CASE code.op # "data"
  BY <1>1, <1>3 DEF DecodeCode, Sound
<1>4. QED
  BY <1>2, <1>3

LEMMA DecodeSplitSound ==
  ASSUME NEW state, Sound(state), NEW children, NEW at,
         Len(children) = 4, ChildrenFit(children, at)
  PROVE  /\ Sound(DecodeSplit(state, children, at))
         /\ DecodeSplit(state, children, at).position = state.position
<1> DEFINE D(s, i) == DecodeCode(s, children[i + 1], ChildAt(at, i), 2)
<1>1. \A i \in 0 .. 3 : Fits(children[i + 1], ChildAt(at, i), 2)
  BY DEF ChildrenFit
<1>2. ASSUME NEW s, Sound(s), NEW i \in 0 .. 3
      PROVE  Sound(D(s, i)) /\ D(s, i).position = s.position
  <2>1. Fits(children[i + 1], ChildAt(at, i), 2)
    BY <1>1, <1>2
  <2>2. /\ Sound(DecodeCode(s, children[i + 1], ChildAt(at, i), 2))
        /\ DecodeCode(s, children[i + 1], ChildAt(at, i), 2).position = s.position
    BY <1>2, <2>1, DecodeCodeSound
  <2>3. QED
    BY <2>2
<1>3. DecodeSplit(state, children, at) = D(D(D(D(state, 0), 1), 2), 3)
  BY DEF DecodeSplit
<1> HIDE DEF D
<1>4. Sound(D(state, 0)) /\ D(state, 0).position = state.position
  BY <1>2
<1>5. Sound(D(D(state, 0), 1)) /\ D(D(state, 0), 1).position = state.position
  BY <1>2, <1>4
<1>6. /\ Sound(D(D(D(state, 0), 1), 2))
      /\ D(D(D(state, 0), 1), 2).position = state.position
  BY <1>2, <1>5
<1>7. /\ Sound(D(D(D(D(state, 0), 1), 2), 3))
      /\ D(D(D(D(state, 0), 1), 2), 3).position = state.position
  BY <1>2, <1>6
<1>8. QED
  BY <1>3, <1>7

-----------------------------------------------------------------------------
(* What the encoder writes fits.                                           *)

LEMMA FromPreviousFits ==
  ASSUME NEW at, NEW size, NEW code \in FromPrevious(at, size)
  PROVE  Fits(code, at, size)
<1>1. ~key
  BY DEF FromPrevious
<1>2. CASE code = [op |-> "stationary"]
  <2>1. code.op = "stationary"
    BY <1>2
  <2>2. QED
    BY <1>1, <2>1 DEF Fits
<1>3. ASSUME NEW v \in Temporal, Inside(at, size, v), code = Motion(v, FALSE)
      PROVE  Fits(code, at, size)
  <2>1. code.op = "motion" /\ code.v = v /\ code.spatial = FALSE
    BY <1>3 DEF Motion
  <2>2. v \in Int \X Int
    BY SearchAssumption
  <2>3. QED
    BY <1>1, <1>3, <2>1, <2>2 DEF Fits
<1>4. QED
  BY <1>1, <1>2, <1>3 DEF FromPrevious

LEMMA CopiesFit ==
  ASSUME NEW at, Corner(at)
  PROVE  \A code \in Copies4x4(at) : Fits(code, at, 4)
<1>1. \A code \in FromPrevious(at, 4) : Fits(code, at, 4)
  BY FromPreviousFits
<1>2. ASSUME NEW v \in Spatial4x4, Inside(at, 4, v)
      PROVE  Fits(Motion(v, TRUE), at, 4)
  <2>1. \A p \in Block(Plus(at, v), 4) : SpatialPixelAvailable(p, at, 4)
    BY SpatialTablePointsBack
  <2>2. v \in Int \X Int
    BY DEF Spatial4x4
  <2>3. QED
    BY <1>2, <2>1, <2>2 DEF Fits, Motion
<1>3. QED
  BY <1>1, <1>2 DEF Copies4x4

LEMMA ChildCopiesFit ==
  ASSUME NEW at, Corner(at), NEW n \in 0 .. 3, NEW available,
         available = {q \in Block(at, 4) : Quadrant(q) < n}
  PROVE  \A code \in Copies2x2(at, ChildAt(at, n), available) :
           Fits(code, ChildAt(at, n), 2)
<1> DEFINE child == ChildAt(at, n)
<1>1. \A code \in FromPrevious(child, 2) : Fits(code, child, 2)
  BY FromPreviousFits
<1>2. ASSUME NEW v \in Spatial2x2, Inside(child, 2, v),
             \A p \in Block(Plus(child, v), 2) : SplitSpatialPixel(p, at, available)
      PROVE  Fits(Motion(v, TRUE), child, 2)
  <2>1. \A p \in Block(Plus(child, v), 2) : SpatialPixelAvailable(p, child, 2)
    BY <1>2, MaskIsQuadrantOrder
  <2>2. v \in Int \X Int
    BY DEF Spatial2x2
  <2>3. QED
    BY <1>2, <2>1, <2>2 DEF Fits, Motion
<1>3. QED
  <2> HIDE DEF child
  <2>1. \A code \in Copies2x2(at, child, available) : Fits(code, child, 2)
    BY <1>1, <1>2 DEF Copies2x2
  <2>2. QED
    BY <2>1 DEF child

LEMMA StreamGrows ==
  ASSUME StreamFits, NEW code, FitsBlock(code, Position),
         stream' = Append(stream, code), key' = key
  PROVE  StreamFits'
<1>1. /\ IsSequence(stream')
      /\ Len(stream) \in Nat /\ Len(stream') = Len(stream) + 1
      /\ stream'[Len(stream) + 1] = code
      /\ \A i \in 1 .. Len(stream) : stream'[i] = stream[i]
  BY AppendExtends DEF StreamFits
<1>2. \A c, at : FitsBlock(c, at) => FitsBlock(c, at)'
  BY DEF FitsBlock, ChildrenFit, Fits
<1>3. ASSUME NEW i \in 1 .. Len(stream')
      PROVE  FitsBlock(stream'[i], BlockAt(i - 1))
  <2>1. CASE i <= Len(stream)
    BY <1>1, <2>1 DEF StreamFits
  <2>2. CASE i = Len(stream) + 1
    BY <1>1, <2>2 DEF Position
  <2>3. QED
    BY <1>1, <2>1, <2>2
<1>4. (\A i \in 1 .. Len(stream) : FitsBlock(stream[i], BlockAt(i - 1)))'
  BY <1>2, <1>3
<1>5. QED
  BY <1>1, <1>4 DEF StreamFits, IsSequence

LEMMA SplitGrows ==
  ASSUME StreamFits, SplitFits, Splitting, Len(split.codes) < 4, NEW code,
         Fits(code, Child, 2), NEW tentative, NEW carried,
         split' = [split EXCEPT !.codes = Append(@, code),
                                !.tentative = tentative,
                                !.available = @ \union Block(Child, 2),
                                !.predictor = carried],
         UNCHANGED <<key, stream>>
  PROVE  SplitFits'
<1> DEFINE n == Len(split.codes)
<1>1. /\ IsSequence(Append(split.codes, code))
      /\ n \in Nat /\ Len(Append(split.codes, code)) = n + 1
      /\ Append(split.codes, code)[n + 1] = code
      /\ \A i \in 1 .. n : Append(split.codes, code)[i] = split.codes[i]
  BY AppendExtends DEF SplitFits
<1>2. split' = [at |-> split.at, codes |-> Append(split.codes, code),
                tentative |-> tentative,
                available |-> split.available \union Block(Child, 2),
                predictor |-> carried]
  BY DEF SplitFits
<1>3. n \in 0 .. 3 /\ Corner(split.at)
  <2>1. Len(stream) \in Nat
    BY AppendExtends DEF StreamFits
  <2>2. Corner(split.at)
    BY <2>1, BlocksAreCorners DEF SplitFits, Position
  <2>3. n \in 0 .. 3
    <3>1. n \in Nat /\ n < 4
      BY <1>1
    <3>2. \A m \in Nat : m < 4 => m \in 0 .. 3
      OBVIOUS
    <3>3. QED
      BY <3>1, <3>2
  <2>4. QED
    BY <2>2, <2>3
<1>4. Child = ChildAt(split.at, n)
  BY DEF Child
<1>5. split.available \union Block(Child, 2)
        = {q \in Block(split.at, 4) : Quadrant(q) < n + 1}
  <2>1. Block(Child, 2) = {q \in Block(split.at, 4) : Quadrant(q) = n}
    BY <1>3, <1>4, ChildGeometry
  <2>2. \A q \in Block(split.at, 4) : Quadrant(q) \in Int
    <3>1. PICK i \in Int, j \in Int : split.at = <<4 * i, 4 * j>>
      BY <1>3 DEF Corner
    <3>2. \A q \in Block(split.at, 4) : q[1] \in Int /\ q[2] \in Int
      BY <3>1 DEF Block
    <3>3. QED
      BY <3>2 DEF Quadrant
  <2>3. \A q \in Block(split.at, 4) :
          Quadrant(q) < n + 1 <=> Quadrant(q) < n \/ Quadrant(q) = n
    BY <1>3, <2>2
  <2>4. QED
    BY <2>1, <2>3 DEF SplitFits
<1>6. ChildrenFit(Append(split.codes, code), split.at)
  <2>1. ASSUME NEW i \in 0 .. 3, i < n + 1
        PROVE  Fits(Append(split.codes, code)[i + 1], ChildAt(split.at, i), 2)
    <3>1. CASE i = n
      BY <1>1, <1>4, <3>1
    <3>2. CASE i < n
      <4>1. Append(split.codes, code)[i + 1] = split.codes[i + 1]
        BY <1>1, <1>3, <3>2
      <4>2. Fits(split.codes[i + 1], ChildAt(split.at, i), 2)
        BY <3>2 DEF SplitFits, ChildrenFit
      <4>3. QED
        BY <4>1, <4>2
    <3>3. QED
      BY <1>3, <2>1, <3>1, <3>2
  <2>2. QED
    BY <1>1, <2>1 DEF ChildrenFit
<1>7. (split.at)' = split.at /\ (split.codes)' = Append(split.codes, code)
  BY <1>2
<1>8. ChildrenFit(split.codes, split.at)'
  <2>1. \A codes, at : ChildrenFit(codes, at) => ChildrenFit(codes, at)'
    BY DEF ChildrenFit, Fits
  <2>2. QED
    BY <1>6, <1>7, <2>1
<1>9. IsSequence(split.codes)' /\ (Len(split.codes) <= 4)'
  <2>1. Len(Append(split.codes, code)) <= 4
    BY <1>1, <1>3
  <2>2. QED
    BY <1>1, <1>7, <2>1 DEF IsSequence
<1>10. (split.available = {q \in Block(split.at, 4) : Quadrant(q) < Len(split.codes)})'
  BY <1>1, <1>2, <1>5, <1>7
<1>11. (MoreBlocks /\ split.at = Position)'
  BY <1>7 DEF SplitFits, MoreBlocks, Position
<1>12. QED
  BY <1>2, <1>8, <1>9, <1>10, <1>11 DEF SplitFits

-----------------------------------------------------------------------------
(* The invariant.                                                          *)

LEMMA InitFits == Init => IInv
<1> SUFFICES ASSUME Init PROVE IInv
  OBVIOUS
<1>1. StreamFits
  <2>1. <<>> \in Seq({<<>>[i] : i \in DOMAIN <<>>}) /\ Len(<<>>) = 0
    OBVIOUS
  <2>2. QED
    BY <2>1 DEF Init, StreamFits, IsSequence
<1>2. SplitFits
  BY DEF Init, SplitFits, Splitting
<1>3. DecoderFits
  BY DEF Init, DecoderFits
<1>4. QED
  BY <1>1, <1>2, <1>3 DEF IInv

\* Where the encoder stands is the corner of a block.
LEMMA PositionIsCorner ==
  ASSUME StreamFits
  PROVE  Len(stream) \in Nat /\ Corner(Position)
<1>1. Len(stream) \in Nat
  BY AppendExtends DEF StreamFits
<1>2. QED
  BY <1>1, BlocksAreCorners DEF Position

LEMMA StreamStays ==
  ASSUME StreamFits, UNCHANGED <<key, stream>>
  PROVE  StreamFits'
<1>1. \A c, at : FitsBlock(c, at) => FitsBlock(c, at)'
  BY DEF FitsBlock, ChildrenFit, Fits
<1>2. (\A i \in 1 .. Len(stream) : FitsBlock(stream[i], BlockAt(i - 1)))'
  BY <1>1 DEF StreamFits
<1>3. QED
  BY <1>2 DEF StreamFits, IsSequence

LEMMA DataFits ==
  ASSUME NEW at, NEW size, NEW carried, NEW corner
  PROVE  /\ Fits(MakeData(corner, size, carried), at, size)
         /\ MakeData(corner, size, carried).op = "data"
BY DEF Fits, MakeData

LEMMA NextFits == IInv /\ [Next]_blockVars => IInv'
<1> SUFFICES ASSUME IInv, [Next]_blockVars PROVE IInv'
  OBVIOUS
<1> USE DEF IInv
<1>1. CASE EncodeCopy
  <2>1. PICK code \in Copies4x4(Position) : stream' = Append(stream, code)
    BY <1>1 DEF EncodeCopy
  <2>2. Fits(code, Position, 4)
    BY PositionIsCorner, CopiesFit
  <2>3. FitsBlock(code, Position)
    BY <2>2 DEF FitsBlock, Fits
  <2>4. StreamFits'
    BY <1>1, <2>1, <2>3, StreamGrows DEF EncodeCopy
  <2>5. SplitFits'
    BY <1>1 DEF EncodeCopy, SplitFits, Splitting
  <2>6. DecoderFits'
    BY <1>1 DEF EncodeCopy, DecoderFits
  <2>7. QED
    BY <2>4, <2>5, <2>6
<1>2. CASE StartSplit
  <2>1. StreamFits'
    BY <1>2, StreamStays DEF StartSplit
  <2>2. SplitFits'
    <3>1. IsSequence(<<>>) /\ Len(<<>>) = 0
      BY DEF IsSequence
    <3>2. split' = [at |-> Position, codes |-> <<>>, tentative |-> recon,
                    available |-> {}, predictor |-> predictor]
      BY <1>2 DEF StartSplit
    <3>3. \A q \in Block(Position, 4) : ~(Quadrant(q) < 0)
      <4>1. PICK i \in Int, j \in Int : Position = <<4 * i, 4 * j>>
        BY PositionIsCorner DEF Corner
      <4>2. \A q \in Block(Position, 4) : q[1] \in Int /\ q[2] \in Int
        BY <4>1 DEF Block
      <4>3. QED
        BY <4>2 DEF Quadrant
    <3>4. (MoreBlocks /\ split.at = Position)'
      BY <1>2, <3>2 DEF StartSplit, MoreBlocks, Position
    <3>5. ChildrenFit(split.codes, split.at)'
      BY <3>1, <3>2 DEF ChildrenFit
    <3>6. (split.available = {q \in Block(split.at, 4) : Quadrant(q) < Len(split.codes)})'
      BY <3>1, <3>2, <3>3
    <3>7. IsSequence(split.codes)' /\ (Len(split.codes) <= 4)'
      BY <3>1, <3>2 DEF IsSequence
    <3>8. QED
      BY <3>2, <3>4, <3>5, <3>6, <3>7 DEF SplitFits
  <2>3. DecoderFits'
    BY <1>2 DEF StartSplit, DecoderFits
  <2>4. QED
    BY <2>1, <2>2, <2>3
<1>3. CASE EncodeChildCopy
  <2>1. PICK code \in Copies2x2(split.at, Child, split.available) :
          split' = [split EXCEPT !.codes = Append(@, code),
                                 !.tentative = Copied(code, @, Child, 2),
                                 !.available = @ \union Block(Child, 2)]
    BY <1>3 DEF EncodeChildCopy
  <2>2. Fits(code, Child, 2)
    <3>1. Len(split.codes) \in 0 .. 3
      <4>1. Len(split.codes) \in Nat /\ Len(split.codes) < 4
        BY <1>3, AppendExtends DEF EncodeChildCopy, SplitFits
      <4>2. \A m \in Nat : m < 4 => m \in 0 .. 3
        OBVIOUS
      <4>3. QED
        BY <4>1, <4>2
    <3>2. Corner(split.at)
      BY <1>3, PositionIsCorner DEF EncodeChildCopy, SplitFits
    <3>3. split.available = {q \in Block(split.at, 4) : Quadrant(q) < Len(split.codes)}
      BY <1>3 DEF EncodeChildCopy, SplitFits
    <3>4. QED
      BY <2>1, <3>1, <3>2, <3>3, ChildCopiesFit DEF Child
  <2>3. SplitFits'
    <3>1. split' = [split EXCEPT !.codes = Append(@, code),
                                 !.tentative = Copied(code, split.tentative, Child, 2),
                                 !.available = @ \union Block(Child, 2),
                                 !.predictor = split.predictor]
      BY <1>3, <2>1 DEF EncodeChildCopy, SplitFits
    <3>2. QED
      BY <1>3, <2>2, <3>1, SplitGrows DEF EncodeChildCopy
  <2>4. StreamFits'
    BY <1>3, StreamStays DEF EncodeChildCopy
  <2>5. DecoderFits'
    BY <1>3 DEF EncodeChildCopy, DecoderFits
  <2>6. QED
    BY <2>3, <2>4, <2>5
<1>4. CASE EncodeChildData
  <2> DEFINE code == MakeData(Child, 2, split.predictor)
             luma == SourceBlock(Child, 2)
  <2>1. Fits(code, Child, 2)
    BY DataFits
  <2>2. SplitFits'
    <3>1. split' = [split EXCEPT !.codes = Append(@, code),
                                 !.tentative = Draw(split.tentative, Child, 2, luma),
                                 !.available = @ \union Block(Child, 2),
                                 !.predictor = Average(luma, 2)]
      BY <1>4 DEF EncodeChildData
    <3>2. QED
      <4> HIDE DEF code, luma
      <4>1. QED
        BY <1>4, <2>1, <3>1, SplitGrows DEF EncodeChildData
  <2>3. StreamFits'
    BY <1>4, StreamStays DEF EncodeChildData
  <2>4. DecoderFits'
    BY <1>4 DEF EncodeChildData, DecoderFits
  <2>5. QED
    BY <2>2, <2>3, <2>4
<1>5. CASE KeepSplit
  <2> DEFINE code == [op |-> "split", children |-> split.codes]
  <2>1. FitsBlock(code, Position)
    BY <1>5 DEF KeepSplit, SplitFits, FitsBlock
  <2>2. StreamFits'
    <3>1. stream' = Append(stream, code) /\ key' = key
      BY <1>5 DEF KeepSplit
    <3>2. QED
      <4> HIDE DEF code
      <4>1. QED
        BY <2>1, <3>1, StreamGrows
  <2>3. SplitFits'
    BY <1>5 DEF KeepSplit, SplitFits, Splitting
  <2>4. DecoderFits'
    BY <1>5 DEF KeepSplit, DecoderFits
  <2>5. QED
    BY <2>2, <2>3, <2>4
<1>6. CASE KeepData
  <2> DEFINE code == MakeData(Position, 4, predictor)
  <2>1. FitsBlock(code, Position)
    BY DataFits DEF FitsBlock
  <2>2. StreamFits'
    <3>1. stream' = Append(stream, code) /\ key' = key
      BY <1>6 DEF KeepData
    <3>2. QED
      <4> HIDE DEF code
      <4>1. QED
        BY <2>1, <3>1, StreamGrows
  <2>3. SplitFits'
    BY <1>6 DEF KeepData, SplitFits, Splitting
  <2>4. DecoderFits'
    BY <1>6 DEF KeepData, DecoderFits
  <2>5. QED
    BY <2>2, <2>3, <2>4
<1>7. CASE DecodeBlock
  <2> DEFINE next == [decoder EXCEPT !.position = @ + 1]
             code == stream[decoder.position + 1]
             at == BlockAt(decoder.position)
  <2>1. Sound(next) /\ next.position = decoder.position + 1
    BY DEF DecoderFits, Sound
  <2>2. FitsBlock(code, at)
    <3>1. /\ decoder.position \in Nat /\ Len(stream) \in Nat /\ BlockCount \in Int
          /\ decoder.position < BlockCount /\ ~(Len(stream) < BlockCount)
      BY <1>7, PositionIsCorner, SizeAssumption
         DEF DecodeBlock, MoreBlocks, DecoderFits, BlockCount
    <3>2. decoder.position + 1 \in 1 .. Len(stream)
      BY <3>1
    <3>3. (decoder.position + 1) - 1 = decoder.position
      BY <3>1
    <3>4. QED
      BY <3>2, <3>3 DEF StreamFits
  <2>3. decoder' = IF code.op = "split" THEN DecodeSplit(next, code.children, at)
                   ELSE DecodeCode(next, code, at, 4)
    BY <1>7 DEF DecodeBlock
  <2>4. Sound(decoder') /\ decoder'.position = next.position
    <3> HIDE DEF next, code, at
    <3>1. CASE code.op = "split"
      BY <2>1, <2>2, <2>3, <3>1, DecodeSplitSound DEF FitsBlock
    <3>2. CASE code.op # "split"
      BY <2>1, <2>2, <2>3, <3>2, DecodeCodeSound DEF FitsBlock
    <3>3. QED
      BY <3>1, <3>2
  <2>5. DecoderFits'
    BY <2>1, <2>4 DEF DecoderFits, Sound
  <2>6. StreamFits'
    BY <1>7, StreamStays DEF DecodeBlock
  <2>7. SplitFits'
    <3>1. UNCHANGED <<key, stream, split>>
      BY <1>7 DEF DecodeBlock
    <3>2. \A codes, corner : ChildrenFit(codes, corner) => ChildrenFit(codes, corner)'
      BY <3>1 DEF ChildrenFit, Fits
    <3>3. QED
      BY <3>1, <3>2 DEF SplitFits, Splitting, MoreBlocks, Position, IsSequence
  <2>8. QED
    BY <2>5, <2>6, <2>7
<1>8. CASE UNCHANGED blockVars
  <2>1. StreamFits'
    BY <1>8, StreamStays DEF blockVars
  <2>2. SplitFits'
    <3>1. UNCHANGED <<key, stream, split>>
      BY <1>8 DEF blockVars
    <3>2. \A codes, corner : ChildrenFit(codes, corner) => ChildrenFit(codes, corner)'
      BY <3>1 DEF ChildrenFit, Fits
    <3>3. QED
      BY <3>1, <3>2 DEF SplitFits, Splitting, MoreBlocks, Position, IsSequence
  <2>3. DecoderFits'
    BY <1>8 DEF blockVars, DecoderFits
  <2>4. QED
    BY <2>1, <2>2, <2>3
<1>9. QED
  BY <1>1, <1>2, <1>3, <1>4, <1>5, <1>6, <1>7, <1>8 DEF Next

\* Every frame the encoder can write, of whatever size, is one the decoder
\* accepts to its last block (mb_encode.c:137, mb_frame_verify.c:44).
THEOREM AlwaysAccepted == Spec => []NeverRefused
<1>1. IInv => NeverRefused
  BY DEF IInv, DecoderFits, NeverRefused
<1>2. QED
  BY <1>1, InitFits, NextFits, PTL DEF Spec


-----------------------------------------------------------------------------
(* Sums and the recursion of the luma prediction.                          *)

\* Every set of naturals that is not empty has a least member.
LEMMA LeastNat ==
  ASSUME NEW T \in SUBSET Nat, T # {}
  PROVE  \E m \in T : \A k \in T : m <= k
<1> DEFINE R == OpToRel(<, Nat)
<1>1. IsWellFoundedOn(R, Nat)
  BY NatLessThanWellFounded
<1>2. \A x, y \in Nat : x < y => <<x, y>> \in R
  BY Zenon DEF OpToRel
<1> HIDE DEF R
<1>3. PICK m \in T : \A y \in T : <<y, m>> \notin R
  BY <1>1, WFMin
<1>4. \A k \in T : k \in Nat /\ m \in Nat /\ ~ (k < m)
  BY <1>2, <1>3
<1>5. QED
  BY <1>3, <1>4

(***************************************************************************)
(* A sum of integers is an integer.  The fold is a recursion over subsets: *)
(* a solution for those of n members extends to those of n + 1, so that    *)
(* there is one for all of them.                                           *)
(***************************************************************************)
LEMMA SumIsInt ==
  ASSUME NEW S, IsFiniteSet(S), NEW f \in [S -> Int]
  PROVE  MapThenSumSet(LAMBDA o : f[o], S) \in Int
<1> DEFINE One(s) == CHOOSE x \in s : TRUE
           Body(g, s) == IF s = {} THEN 0 ELSE f[One(s)] + g[s \ {One(s)}]
           Unfolds(g) == g = [s \in SUBSET S |-> Body(g, s)]
           Sums == [SUBSET S -> Int]
           UpTo(n, g) == \A s \in SUBSET S : Cardinality(s) <= n => g[s] = Body(g, s)
           Lacking == {n \in Nat : ~ \E g \in Sums : UpTo(n, g)}
           total == CHOOSE g : Unfolds(g)
<1>1. \A s \in SUBSET S : IsFiniteSet(s) /\ Cardinality(s) \in Nat
                            /\ Cardinality(s) <= Cardinality(S)
  BY FS_Subset, FS_CardinalityType
<1>2. Cardinality(S) \in Nat
  BY FS_CardinalityType
<1>3. ASSUME NEW s \in SUBSET S, s # {}
      PROVE  /\ One(s) \in S /\ s \ {One(s)} \in SUBSET S
             /\ Cardinality(s \ {One(s)}) = Cardinality(s) - 1
             /\ Cardinality(s) >= 1
  <2>1. One(s) \in s
    BY <1>3
  <2>2. IsFiniteSet(s) /\ Cardinality(s) \in Nat /\ Cardinality(s) # 0
    BY <1>1, <1>3, FS_EmptySet
  <2>3. Cardinality(s \ {One(s)}) = Cardinality(s) - 1
    BY <2>1, <2>2, FS_RemoveElement
  <2>4. QED
    BY <2>1, <2>2, <2>3
<1>4. ASSUME NEW g \in Sums, NEW s \in SUBSET S
      PROVE  Body(g, s) \in Int
  BY <1>3
<1>5. Lacking = {}
  <2>1. SUFFICES ASSUME Lacking # {} PROVE FALSE
    OBVIOUS
  <2>2. PICK n \in Lacking : \A k \in Lacking : n <= k
    <3>1. Lacking \in SUBSET Nat
      OBVIOUS
    <3> HIDE DEF Lacking
    <3>2. QED
      BY <2>1, <3>1, LeastNat
  <2>3. n \in Nat /\ ~ \E g \in Sums : UpTo(n, g)
    OBVIOUS
  <2>4. CASE n = 0
    <3> DEFINE g == [s \in SUBSET S |-> 0]
    <3>1. g \in Sums
      OBVIOUS
    <3>2. ASSUME NEW s \in SUBSET S, Cardinality(s) <= 0
          PROVE  s = {}
      <4>1. Cardinality(s) \in Nat
        BY <1>1
      <4>2. s # {} => Cardinality(s) >= 1
        BY <1>3
      <4>3. QED
        BY <3>2, <4>1, <4>2
    <3>3. UpTo(0, g)
      BY <3>2
    <3>4. QED
      BY <2>3, <2>4, <3>1, <3>3
  <2>5. CASE n # 0
    <3>1. n - 1 \in Nat /\ ~ (n <= n - 1)
      BY <2>3, <2>5
    <3>2. PICK g \in Sums : UpTo(n - 1, g)
      BY <2>2, <3>1
    <3> DEFINE h == [s \in SUBSET S |-> Body(g, s)]
    <3>3. h \in Sums
      BY <1>4
    <3>4. ASSUME NEW s \in SUBSET S, Cardinality(s) <= n
          PROVE  h[s] = Body(h, s)
      <4>1. CASE s = {}
        BY <4>1
      <4>2. CASE s # {}
        <5> DEFINE rest == s \ {One(s)}
        <5>1. rest \in SUBSET S /\ Cardinality(rest) <= n - 1
          BY <1>1, <1>3, <2>3, <3>4, <4>2
        <5>2. g[rest] = Body(g, rest)
          BY <3>2, <5>1
        <5>3. h[rest] = Body(g, rest) /\ h[s] = Body(g, s)
          BY <5>1
        <5> HIDE DEF h
        <5>4. QED
          BY <4>2, <5>2, <5>3
      <4>3. QED
        BY <4>1, <4>2
    <3>5. UpTo(n, h)
      BY <3>4
    <3>6. QED
      BY <2>3, <3>3, <3>5
  <2>6. QED
    BY <2>4, <2>5
<1>6. PICK g \in Sums : UpTo(Cardinality(S), g)
  BY <1>2, <1>5
<1>7. Unfolds(g)
  <2>1. \A s \in SUBSET S : g[s] = Body(g, s)
    BY <1>1, <1>6
  <2>2. QED
    BY <2>1, Zenon
<1>8. Unfolds(total)
  BY <1>7, Zenon
<1>9. \A s \in SUBSET S : total[s] = Body(total, s)
  BY <1>8, Zenon
<1> DEFINE Wrong == {k \in Nat : \E s \in SUBSET S : Cardinality(s) = k
                                                       /\ total[s] \notin Int}
<1>10. Wrong = {}
  <2>1. SUFFICES ASSUME Wrong # {} PROVE FALSE
    OBVIOUS
  <2>2. PICK k \in Wrong : \A l \in Wrong : k <= l
    <3>1. Wrong \in SUBSET Nat
      OBVIOUS
    <3> HIDE DEF Wrong
    <3>2. QED
      BY <2>1, <3>1, LeastNat
  <2>3. PICK s \in SUBSET S : Cardinality(s) = k /\ total[s] \notin Int
    OBVIOUS
  <2> HIDE DEF total
  <2>4. s # {}
    BY <1>9, <2>3
  <2>5. /\ One(s) \in S /\ s \ {One(s)} \in SUBSET S
        /\ Cardinality(s \ {One(s)}) = k - 1 /\ k \in Nat /\ k - 1 \in Nat
    BY <1>1, <1>3, <2>3, <2>4
  <2>6. k - 1 \notin Wrong
    BY <2>2, <2>5
  <2>7. total[s \ {One(s)}] \in Int
    BY <2>5, <2>6
  <2>8. f[One(s)] \in Int
    BY <2>5
  <2>9. total[s] = f[One(s)] + total[s \ {One(s)}]
    BY <1>9, <2>4
  <2>10. QED
    BY <2>3, <2>7, <2>8, <2>9
<1>11. total[S] \in Int
  BY <1>2, <1>10
<1>12. MapThenSumSet(LAMBDA o : f[o], S) = total[S]
  BY Zenon DEF MapThenSumSet, MapThenFoldSet
<1>13. QED
  BY <1>11, <1>12

\* A residual taken back from its prediction gives the value again.
LEMMA ModAbsorbs ==
  ASSUME NEW L \in Nat \ {0}, NEW b \in 0 .. L - 1, NEW q \in Int
  PROVE  (b + L * q) % L = b
<1> DEFINE m == b + L * q
           k == m \div L
<1>1. m \in Int
  OBVIOUS
<1> HIDE DEF m
<1>2. m = L * k + (m % L) /\ m % L \in 0 .. L - 1 /\ k \in Int
  BY <1>1
<1> HIDE DEF k
<1>3. L * k + (m % L) = b + L * q
  BY <1>2 DEF m
<1>4. ~ (k >= q + 1)
  <2>1. SUFFICES ASSUME k >= q + 1 PROVE FALSE
    OBVIOUS
  <2>2. PICK d \in Nat : k = q + 1 + d
    <3>1. k - q - 1 \in Nat /\ k = q + 1 + (k - q - 1)
      BY <1>2, <2>1
    <3>2. QED
      BY <3>1
  <2>3. L * k = L * q + L + L * d
    BY <2>2
  <2>4. L * d \in Nat /\ L * q \in Int
    OBVIOUS
  <2>5. QED
    BY <1>2, <1>3, <2>3, <2>4
<1>5. ~ (q >= k + 1)
  <2>1. SUFFICES ASSUME q >= k + 1 PROVE FALSE
    OBVIOUS
  <2>2. PICK d \in Nat : q = k + 1 + d
    <3>1. q - k - 1 \in Nat /\ q = k + 1 + (q - k - 1)
      BY <1>2, <2>1
    <3>2. QED
      BY <3>1
  <2>3. L * q = L * k + L + L * d
    BY <1>2, <2>2
  <2>4. L * d \in Nat /\ L * k \in Int
    BY <1>2
  <2>5. QED
    BY <1>2, <1>3, <2>3, <2>4
<1>6. k = q
  BY <1>2, <1>4, <1>5
<1>7. m % L = b
  <2>1. PICK x \in Int : x = L * q
    OBVIOUS
  <2>2. x + (m % L) = b + x
    BY <1>3, <1>6, <2>1
  <2>3. QED
    BY <1>2, <2>2
<1>8. QED
  BY <1>7 DEF m

LEMMA ResidualUndone ==
  ASSUME NEW L \in Nat \ {0}, NEW b \in 0 .. L - 1, NEW p \in Int
  PROVE  (p + ((b - p) % L)) % L = b
<1> DEFINE d == b - p
           q == d \div L
<1>1. d \in Int
  OBVIOUS
<1> HIDE DEF d
<1>2. d = L * q + (d % L) /\ q \in Int /\ d % L \in Int
  BY <1>1
<1> HIDE DEF q
<1>3. -q \in Int /\ L * (-q) = -(L * q) /\ L * q \in Int
  BY <1>2
<1>4. p + (d % L) = b + L * (-q)
  <2>1. PICK x \in Int : x = L * q
    BY <1>3
  <2>2. PICK r \in Int : r = d % L
    BY <1>2
  <2>3. b - p = x + r
    BY <1>2, <2>1, <2>2 DEF d
  <2>4. p + r = b + (-x)
    BY <2>3
  <2>5. QED
    BY <1>3, <2>1, <2>2, <2>4
<1>5. (b + L * (-q)) % L = b
  BY <1>3, ModAbsorbs
<1>6. QED
  BY <1>4, <1>5 DEF d

(***************************************************************************)
(* The residuals of a block have one solution, the block: the pixel        *)
(* nearest the corner at which another solution differed would be          *)
(* predicted from pixels at which it does not.                             *)
(***************************************************************************)
LEMMA DecodeUndoes ==
  ASSUME NEW size \in Nat, NEW carried \in Int,
         NEW block \in [Span(size) -> 0 .. LumaLevels - 1]
  PROVE  DecodedLuma(Residuals(block, size, carried, LumaLevels),
                     size, carried, LumaLevels) = block
<1> DEFINE residuals == Residuals(block, size, carried, LumaLevels)
           Body(luma, o) == (Prediction(luma, o, carried) + residuals[o]) % LumaLevels
           Unfolds(luma) == luma = [o \in Span(size) |-> Body(luma, o)]
           drawn == CHOOSE luma : Unfolds(luma)
           Near(n) == \E o \in Span(size) : o[1] + o[2] = n /\ drawn[o] # block[o]
           Wrong == {n \in Nat : Near(n)}
<1>1. LumaLevels \in Nat \ {0}
  BY PictureAssumption
<1>2. ASSUME NEW o \in Span(size)
      PROVE  /\ o = <<o[1], o[2]>> /\ o[1] \in Nat /\ o[2] \in Nat
             /\ o[1] > 0 => <<o[1] - 1, o[2]>> \in Span(size)
             /\ o[2] > 0 => <<o[1], o[2] - 1>> \in Span(size)
             /\ o = <<0, 0>> <=> o[1] = 0 /\ o[2] = 0
  BY DEF Span
<1>3. ASSUME NEW o \in Span(size)
      PROVE  Prediction(block, o, carried) \in Int
  <2>1. \A u \in Span(size) : block[u] \in Int
    BY <1>1
  <2>2. QED
    BY <1>2, <2>1 DEF Prediction
<1>4. ASSUME NEW o \in Span(size)
      PROVE  Body(block, o) = block[o]
  <2>1. residuals[o] = (block[o] - Prediction(block, o, carried)) % LumaLevels
    BY DEF Residuals
  <2>2. block[o] \in 0 .. LumaLevels - 1
    OBVIOUS
  <2> HIDE DEF residuals
  <2>3. PICK q \in Int : q = Prediction(block, o, carried)
    BY <1>3
  <2>4. (q + ((block[o] - q) % LumaLevels)) % LumaLevels = block[o]
    BY <1>1, <2>2, ResidualUndone
  <2>5. QED
    BY <2>1, <2>3, <2>4
<1>5. Unfolds(block)
  <2>1. block = [o \in Span(size) |-> block[o]]
    OBVIOUS
  <2>2. QED
    BY <1>4, <2>1, Zenon
<1>6. Unfolds(drawn)
  BY <1>5, Zenon
<1>7. \A o \in Span(size) : drawn[o] = Body(drawn, o)
  BY <1>6, Zenon
<1>8. drawn = [o \in Span(size) |-> drawn[o]]
  BY <1>6, Zenon
<1> HIDE DEF drawn, residuals
<1>9. Wrong = {}
  <2>1. SUFFICES ASSUME Wrong # {} PROVE FALSE
    OBVIOUS
  <2>2. PICK n \in Wrong : \A k \in Wrong : n <= k
    <3>1. Wrong \in SUBSET Nat
      OBVIOUS
    <3> HIDE DEF Wrong
    <3>2. QED
      BY <2>1, <3>1, LeastNat
  <2>3. PICK o \in Span(size) : o[1] + o[2] = n /\ drawn[o] # block[o]
    OBVIOUS
  <2>4. o[1] \in Nat /\ o[2] \in Nat /\ n \in Nat
    BY <1>2
  <2>5. ASSUME NEW u \in Span(size), u[1] + u[2] = n - 1, n >= 1
        PROVE  drawn[u] = block[u]
    <3>1. n - 1 \in Nat /\ ~ (n <= n - 1)
      BY <2>4, <2>5
    <3>2. n - 1 \notin Wrong
      BY <2>2, <3>1
    <3>3. QED
      BY <2>5, <3>1, <3>2
  <2>6. o[1] > 0 => drawn[<<o[1] - 1, o[2]>>] = block[<<o[1] - 1, o[2]>>]
    <3>1. SUFFICES ASSUME o[1] > 0
                   PROVE  drawn[<<o[1] - 1, o[2]>>] = block[<<o[1] - 1, o[2]>>]
      OBVIOUS
    <3>2. <<o[1] - 1, o[2]>> \in Span(size)
      BY <1>2, <3>1
    <3>3. (o[1] - 1) + o[2] = n - 1 /\ n >= 1
      BY <2>3, <2>4, <3>1
    <3>4. QED
      BY <2>5, <3>2, <3>3
  <2>7. o[2] > 0 => drawn[<<o[1], o[2] - 1>>] = block[<<o[1], o[2] - 1>>]
    <3>1. SUFFICES ASSUME o[2] > 0
                   PROVE  drawn[<<o[1], o[2] - 1>>] = block[<<o[1], o[2] - 1>>]
      OBVIOUS
    <3>2. <<o[1], o[2] - 1>> \in Span(size)
      BY <1>2, <3>1
    <3>3. o[1] + (o[2] - 1) = n - 1 /\ n >= 1
      BY <2>3, <2>4, <3>1
    <3>4. QED
      BY <2>5, <3>2, <3>3
  <2>8. Prediction(drawn, o, carried) = Prediction(block, o, carried)
    <3>1. CASE o[1] = 0 /\ o[2] = 0
      BY <1>2, <3>1 DEF Prediction
    <3>2. CASE o[1] > 0 /\ o[2] = 0
      BY <1>2, <2>6, <3>2 DEF Prediction
    <3>3. CASE o[1] = 0 /\ o[2] > 0
      BY <1>2, <2>7, <3>3 DEF Prediction
    <3>4. CASE o[1] > 0 /\ o[2] > 0
      BY <1>2, <2>6, <2>7, <3>4 DEF Prediction
    <3>5. QED
      BY <2>4, <3>1, <3>2, <3>3, <3>4
  <2>9. Body(drawn, o) = Body(block, o)
    BY <2>8
  <2>10. QED
    BY <1>4, <1>7, <2>3, <2>9
<1>10. \A o \in Span(size) : drawn[o] = block[o]
  <2>1. TAKE o \in Span(size)
  <2>2. o[1] \in Nat /\ o[2] \in Nat
    BY <1>2
  <2>3. o[1] + o[2] \in Nat
    BY <2>2
  <2>4. QED
    BY <1>9, <2>3
<1>11. drawn = block
  <2>1. block = [o \in Span(size) |-> block[o]]
    OBVIOUS
  <2>2. QED
    BY <1>8, <1>10, <2>1, Zenon
<1>12. DecodedLuma(residuals, size, carried, LumaLevels) = drawn
  BY Zenon DEF DecodedLuma, drawn
<1>13. QED
  BY <1>11, <1>12 DEF residuals


-----------------------------------------------------------------------------
(* The raster order of blocks.                                             *)

\* The number of the block a pixel is in.
Scan(p) == (Width \div 4) * (p[2] \div 4) + p[1] \div 4

\* The pixels made before child k of block n, counted from zero.
Drawn(n, k) == {p \in Pixels : Scan(p) < n \/ (Scan(p) = n /\ Quadrant(p) < k)}

LEMMA RasterOrder ==
  ASSUME NEW W \in Nat \ {0}, NEW i \in 0 .. W - 1, NEW a \in 0 .. W - 1,
         NEW j \in Int, NEW b \in Int
  PROVE  /\ W * j + i < W * b + a <=> (j < b \/ (j = b /\ i < a))
         /\ W * j + i = W * b + a <=> (j = b /\ i = a)
<1>1. W * j \in Int /\ W * b \in Int
  OBVIOUS
<1>2. CASE j = b
  BY <1>1, <1>2
<1>3. CASE j < b
  <2>1. PICK d \in Nat : b = j + 1 + d
    <3>1. b - j - 1 \in Nat /\ b = j + 1 + (b - j - 1)
      BY <1>3
    <3>2. QED
      BY <3>1
  <2>2. W * b = W * j + W + W * d
    BY <2>1
  <2>3. PICK e \in Nat : e = W * d
    OBVIOUS
  <2>4. PICK x \in Int : x = W * j
    BY <1>1
  <2>5. x + i < x + W + e + a
    BY <2>3, <2>4
  <2>6. W * j + i < W * b + a
    BY <2>2, <2>3, <2>4, <2>5
  <2>7. ~ (W * j + i = W * b + a)
    BY <1>1, <2>6
  <2>8. QED
    BY <1>3, <2>6, <2>7
<1>4. CASE b < j
  <2>1. PICK d \in Nat : j = b + 1 + d
    <3>1. j - b - 1 \in Nat /\ j = b + 1 + (j - b - 1)
      BY <1>4
    <3>2. QED
      BY <3>1
  <2>2. W * j = W * b + W + W * d
    BY <2>1
  <2>3. PICK e \in Nat : e = W * d
    OBVIOUS
  <2>4. PICK x \in Int : x = W * b
    BY <1>1
  <2>5. x + a < x + W + e + i
    BY <2>3, <2>4
  <2>6. W * b + a < W * j + i
    BY <2>2, <2>3, <2>4, <2>5
  <2>7. ~ (W * j + i = W * b + a) /\ ~ (W * j + i < W * b + a)
    BY <1>1, <2>6
  <2>8. QED
    BY <1>4, <2>7
<1>5. QED
  BY <1>2, <1>3, <1>4

LEMMA Grid ==
  /\ Width \div 4 \in Nat \ {0} /\ Width = 4 * (Width \div 4)
  /\ Height \div 4 \in Nat \ {0} /\ Height = 4 * (Height \div 4)
  /\ BlockCount = (Width \div 4) * (Height \div 4) /\ BlockCount \in Nat
<1>1. \A m \in Nat \ {0} : m % 4 = 0 => m \div 4 \in Nat \ {0} /\ m = 4 * (m \div 4)
  OBVIOUS
<1>2. /\ Width \div 4 \in Nat \ {0} /\ Width = 4 * (Width \div 4)
      /\ Height \div 4 \in Nat \ {0} /\ Height = 4 * (Height \div 4)
  BY <1>1, SizeAssumption
<1>3. \A a, b \in Nat : a * b \in Nat
  OBVIOUS
<1>4. QED
  BY <1>2, <1>3 DEF BlockCount

\* Where a pixel is in the grid.
LEMMA PixelCell ==
  ASSUME NEW p \in Pixels
  PROVE  /\ p = <<p[1], p[2]>>
         /\ p[1] \in 0 .. Width - 1 /\ p[2] \in 0 .. Height - 1
         /\ p[1] \div 4 \in 0 .. (Width \div 4) - 1
         /\ p[2] \div 4 \in 0 .. (Height \div 4) - 1
         /\ Parent(p) = <<4 * (p[1] \div 4), 4 * (p[2] \div 4)>>
         /\ Quadrant(p) \in 0 .. 3
<1>1. /\ p = <<p[1], p[2]>>
      /\ p[1] \in 0 .. Width - 1 /\ p[2] \in 0 .. Height - 1
  BY SizeAssumption DEF Pixels
<1>2. PICK W \in Nat : W = Width \div 4 /\ Width = 4 * W
  BY Grid
<1>3. PICK H \in Nat : H = Height \div 4 /\ Height = 4 * H
  BY Grid
<1>4. p[1] \div 4 \in 0 .. W - 1 /\ p[2] \div 4 \in 0 .. H - 1
  BY <1>1, <1>2, <1>3
<1>5. p[1] - (p[1] % 4) = 4 * (p[1] \div 4) /\ p[2] - (p[2] % 4) = 4 * (p[2] \div 4)
  BY <1>1
<1>6. Quadrant(p) \in 0 .. 3
  <2>1. \A x \in Nat : (x % 4) \div 2 \in {0, 1}
    OBVIOUS
  <2>2. (p[1] % 4) \div 2 \in {0, 1} /\ (p[2] % 4) \div 2 \in {0, 1}
    BY <1>1, <2>1, SizeAssumption
  <2>3. QED
    BY <2>2 DEF Quadrant
<1>7. QED
  BY <1>1, <1>2, <1>3, <1>4, <1>5, <1>6 DEF Parent

LEMMA NumberedBlock ==
  ASSUME NEW n \in Nat
  PROVE  /\ n = (Width \div 4) * (n \div (Width \div 4)) + (n % (Width \div 4))
         /\ n % (Width \div 4) \in 0 .. (Width \div 4) - 1
         /\ n \div (Width \div 4) \in Nat
         /\ BlockAt(n) = <<4 * (n % (Width \div 4)), 4 * (n \div (Width \div 4))>>
         /\ n < BlockCount => n \div (Width \div 4) < Height \div 4
<1>1. PICK W \in Nat \ {0} : W = Width \div 4
  BY Grid
<1>2. n = W * (n \div W) + (n % W) /\ n % W \in 0 .. W - 1 /\ n \div W \in Nat
  OBVIOUS
<1>3. n < BlockCount => n \div W < Height \div 4
  <2>1. SUFFICES ASSUME n < BlockCount PROVE n \div W < Height \div 4
    OBVIOUS
  <2>2. PICK H \in Nat \ {0} : H = Height \div 4 /\ BlockCount = W * H
    BY <1>1, Grid
  <2>3. W * (n \div W) + (n % W) < W * H + 0 /\ 0 \in 0 .. W - 1
    <3>1. W * H \in Nat
      OBVIOUS
    <3>2. QED
      BY <1>2, <2>1, <2>2, <3>1
  <2>4. n \div W < H \/ (n \div W = H /\ n % W < 0)
    BY <1>2, <2>3, RasterOrder
  <2>5. QED
    BY <1>2, <2>2, <2>4
<1>4. QED
  BY <1>1, <1>2, <1>3 DEF BlockAt

\* The order of blocks is the order of their numbers.
LEMMA ScanOrder ==
  ASSUME NEW p \in Pixels, NEW n \in Nat
  PROVE  /\ Scan(p) \in 0 .. BlockCount - 1
         /\ Parent(p) = BlockAt(n) <=> Scan(p) = n
         /\ BeforeInScan(Parent(p), BlockAt(n)) <=> Scan(p) < n
<1>1. PICK W \in Nat \ {0} : W = Width \div 4
  BY Grid
<1>2. PICK H \in Nat \ {0} : H = Height \div 4 /\ BlockCount = W * H
  BY <1>1, Grid
<1>3. PICK i \in 0 .. W - 1, j \in 0 .. H - 1 :
        i = p[1] \div 4 /\ j = p[2] \div 4 /\ Parent(p) = <<4 * i, 4 * j>>
  BY <1>1, <1>2, PixelCell
<1>4. PICK a \in 0 .. W - 1, b \in Nat : n = W * b + a /\ BlockAt(n) = <<4 * a, 4 * b>>
  BY <1>1, NumberedBlock
<1>5. Scan(p) = W * j + i
  BY <1>1, <1>3 DEF Scan
<1>6. /\ W * j + i < W * b + a <=> (j < b \/ (j = b /\ i < a))
      /\ W * j + i = W * b + a <=> (j = b /\ i = a)
  BY RasterOrder
<1>7. Parent(p) = BlockAt(n) <=> Scan(p) = n
  <2>1. <<4 * i, 4 * j>> = <<4 * a, 4 * b>> <=> (i = a /\ j = b)
    OBVIOUS
  <2>2. QED
    BY <1>3, <1>4, <1>5, <1>6, <2>1
<1>8. BeforeInScan(Parent(p), BlockAt(n)) <=> Scan(p) < n
  <2>1. BeforeInScan(<<4 * i, 4 * j>>, <<4 * a, 4 * b>>) <=> (j < b \/ (j = b /\ i < a))
    BY DEF BeforeInScan
  <2>2. QED
    BY <1>3, <1>4, <1>5, <1>6, <2>1
<1>9. Scan(p) \in 0 .. BlockCount - 1
  <2>1. W * j + i < W * H + 0
    <3>1. 0 \in 0 .. W - 1 /\ j < H
      OBVIOUS
    <3>2. QED
      BY <3>1, RasterOrder
  <2>2. W * j + i \in Nat /\ W * H \in Nat
    <3>1. W * j \in Nat /\ W * H \in Nat
      OBVIOUS
    <3>2. QED
      BY <3>1
  <2>3. QED
    BY <1>2, <1>5, <2>1, <2>2
<1>10. QED
  BY <1>7, <1>8, <1>9

\* A block is the pixels with its number.
LEMMA BlockPixels ==
  ASSUME NEW n \in Nat, n < BlockCount
  PROVE  Block(BlockAt(n), 4) = {p \in Pixels : Scan(p) = n}
<1>1. PICK W \in Nat \ {0} : W = Width \div 4 /\ Width = 4 * W
  BY Grid
<1>2. PICK H \in Nat \ {0} : H = Height \div 4 /\ Height = 4 * H
  BY Grid
<1>3. PICK a \in 0 .. W - 1, b \in 0 .. H - 1 : BlockAt(n) = <<4 * a, 4 * b>>
  <2>1. n \div (Width \div 4) < Height \div 4 /\ n \div (Width \div 4) \in Nat
    BY NumberedBlock
  <2>2. n % (Width \div 4) \in 0 .. (Width \div 4) - 1
    BY NumberedBlock
  <2>3. BlockAt(n) = <<4 * (n % (Width \div 4)), 4 * (n \div (Width \div 4))>>
    BY NumberedBlock
  <2>4. n \div (Width \div 4) \in 0 .. H - 1
    BY <1>2, <2>1
  <2>5. n % (Width \div 4) \in 0 .. W - 1
    BY <1>1, <2>2
  <2>6. QED
    BY <2>3, <2>4, <2>5
<1>4. ASSUME NEW p \in Block(BlockAt(n), 4)
      PROVE  p \in Pixels /\ Parent(p) = BlockAt(n)
  <2>1. /\ p = <<p[1], p[2]>> /\ p[1] \in Int /\ p[2] \in Int
        /\ 4 * a <= p[1] /\ p[1] < 4 * a + 4
        /\ 4 * b <= p[2] /\ p[2] < 4 * b + 4
    BY <1>3 DEF Block
  <2>2. p \in Pixels
    BY <1>1, <1>2, <2>1 DEF Pixels
  <2>3. p[1] - (p[1] % 4) = 4 * a /\ p[2] - (p[2] % 4) = 4 * b
    BY <2>1, ParentOfCoordinates
  <2>4. QED
    BY <1>3, <2>2, <2>3 DEF Parent
<1>5. ASSUME NEW p \in Pixels, Parent(p) = BlockAt(n)
      PROVE  p \in Block(BlockAt(n), 4)
  <2>1. /\ p = <<p[1], p[2]>> /\ p[1] \in Int /\ p[2] \in Int
        /\ p[1] - (p[1] % 4) = 4 * a /\ p[2] - (p[2] % 4) = 4 * b
    <3>1. /\ p = <<p[1], p[2]>> /\ p[1] \in Int /\ p[2] \in Int
      BY PixelCell, SizeAssumption
    <3>2. QED
      BY <1>3, <1>5, <3>1 DEF Parent
  <2>2. /\ 4 * a <= p[1] /\ p[1] < 4 * a + 4
        /\ 4 * b <= p[2] /\ p[2] < 4 * b + 4
    BY <2>1, ParentOfCoordinates
  <2>3. p \in (4 * a .. 4 * a + 4 - 1) \X (4 * b .. 4 * b + 4 - 1)
    BY <2>1, <2>2
  <2>4. QED
    BY <1>3, <2>3 DEF Block
<1>6. QED
  BY <1>4, <1>5, ScanOrder


-----------------------------------------------------------------------------
(* Cells: the blocks and the children, in the order they are made.         *)

\* The square at `at` is made when exactly the pixels of `done` are, and all
\* the decoder's order lets it refer to is among them.
Cell(at, size, done) ==
  /\ at \in Int \X Int /\ size \in {2, 4}
  /\ Block(at, size) \subseteq Pixels
  /\ done \subseteq Pixels
  /\ done \intersect Block(at, size) = {}
  /\ \A p \in Pixels : SpatialPixelAvailable(p, at, size) => p \in done

LEMMA BlockIsCell ==
  ASSUME NEW n \in Nat, n < BlockCount
  PROVE  /\ Cell(BlockAt(n), 4, Drawn(n, 0))
         /\ Drawn(n + 1, 0) = Drawn(n, 0) \union Block(BlockAt(n), 4)
         /\ Drawn(n, 4) = Drawn(n + 1, 0)
<1>1. \A p \in Pixels : Scan(p) \in Int /\ Quadrant(p) \in 0 .. 3
  BY ScanOrder, PixelCell, Grid
<1>2. Block(BlockAt(n), 4) = {p \in Pixels : Scan(p) = n}
  BY BlockPixels
<1>3. Drawn(n, 0) = {p \in Pixels : Scan(p) < n}
  BY <1>1 DEF Drawn
<1>4. Drawn(n + 1, 0) = {p \in Pixels : Scan(p) < n \/ Scan(p) = n}
  BY <1>1 DEF Drawn
<1>5. Drawn(n, 4) = {p \in Pixels : Scan(p) < n \/ Scan(p) = n}
  BY <1>1 DEF Drawn
<1>6. BlockAt(n) \in Int \X Int /\ Parent(BlockAt(n)) = BlockAt(n)
  <2>1. PICK i \in Int, j \in Int : BlockAt(n) = <<4 * i, 4 * j>>
    BY BlocksAreCorners DEF Corner
  <2>2. QED
    BY <2>1 DEF Parent
<1>7. \A p \in Pixels : SpatialPixelAvailable(p, BlockAt(n), 4) => p \in Drawn(n, 0)
  BY <1>3, <1>6, ScanOrder DEF SpatialPixelAvailable
<1>8. Drawn(n, 0) \intersect Block(BlockAt(n), 4) = {}
  BY <1>1, <1>2, <1>3
<1>9. Cell(BlockAt(n), 4, Drawn(n, 0))
  BY <1>2, <1>3, <1>6, <1>7, <1>8 DEF Cell
<1>10. QED
  BY <1>2, <1>3, <1>4, <1>5, <1>9

LEMMA ChildIsCell ==
  ASSUME NEW n \in Nat, n < BlockCount, NEW k \in 0 .. 3
  PROVE  /\ Cell(ChildAt(BlockAt(n), k), 2, Drawn(n, k))
         /\ Drawn(n, k + 1) = Drawn(n, k) \union Block(ChildAt(BlockAt(n), k), 2)
<1> DEFINE at == BlockAt(n)
           child == ChildAt(at, k)
<1>1. \A p \in Pixels : Scan(p) \in Int /\ Quadrant(p) \in 0 .. 3
  BY ScanOrder, PixelCell, Grid
<1>2. Block(at, 4) = {p \in Pixels : Scan(p) = n}
  BY BlockPixels
<1>3. Corner(at)
  BY BlocksAreCorners
<1>4. /\ Parent(child) = at /\ Quadrant(child) = k
      /\ Block(child, 2) = {p \in Block(at, 4) : Quadrant(p) = k}
  BY <1>3, ChildGeometry
<1>5. child \in Int \X Int
  <2>1. PICK i \in Int, j \in Int : at = <<4 * i, 4 * j>>
    BY <1>3 DEF Corner
  <2>2. k % 2 \in Int /\ k \div 2 \in Int
    OBVIOUS
  <2>3. QED
    BY <2>1, <2>2 DEF ChildAt, Plus
<1> HIDE DEF child, at
<1>6. Block(child, 2) = {p \in Pixels : Scan(p) = n /\ Quadrant(p) = k}
  BY <1>2, <1>4
<1>7. Drawn(n, k + 1) = Drawn(n, k) \union Block(child, 2)
  <2>1. \A q \in 0 .. 3 : q < k + 1 <=> q < k \/ q = k
    OBVIOUS
  <2>2. QED
    BY <1>1, <1>6, <2>1 DEF Drawn
<1>8. Drawn(n, k) \intersect Block(child, 2) = {}
  BY <1>1, <1>6 DEF Drawn
<1>9. \A p \in Pixels : SpatialPixelAvailable(p, child, 2) => p \in Drawn(n, k)
  <2>1. TAKE p \in Pixels
  <2>2. Parent(p) = at <=> Scan(p) = n
    BY ScanOrder DEF at
  <2>3. BeforeInScan(Parent(p), at) <=> Scan(p) < n
    BY ScanOrder DEF at
  <2>4. QED
    BY <1>4, <2>2, <2>3 DEF SpatialPixelAvailable, Drawn
<1>10. Cell(child, 2, Drawn(n, k))
  BY <1>5, <1>6, <1>8, <1>9 DEF Cell, Drawn
<1>11. QED
  BY <1>7, <1>10 DEF child, at

\* The pixels made before a block are made before every later one.
LEMMA DrawnGrows ==
  ASSUME NEW m \in Nat, NEW n \in Nat, m <= n, NEW k \in Nat
  PROVE  /\ Drawn(m, 0) \subseteq Drawn(n, 0)
         /\ Drawn(n, 0) \subseteq Drawn(n, k)
<1>1. \A p \in Pixels : Scan(p) \in Int /\ Quadrant(p) \in 0 .. 3
  BY ScanOrder, PixelCell, Grid
<1>2. QED
  BY <1>1 DEF Drawn

LEMMA NothingAndEverything ==
  /\ Drawn(0, 0) = {}
  /\ Drawn(BlockCount, 0) = Pixels
<1>1. \A p \in Pixels : Scan(p) \in 0 .. BlockCount - 1 /\ Quadrant(p) \in 0 .. 3
  BY ScanOrder, PixelCell
<1>2. QED
  BY <1>1, Grid DEF Drawn

-----------------------------------------------------------------------------
(* What a code draws.                                                      *)

Luma == 0 .. LumaLevels - 1
Pictures == [Pixels -> Int]

(***************************************************************************)
(* In this picture the square holds what the code stands for: the source   *)
(* as its residuals say it, or the pixels the copy refers to.  Data coded  *)
(* against `carried` leaves `next`; a copy leaves the predictor.           *)
(***************************************************************************)
CodeDraws(code, at, size, carried, next, picture) ==
  /\ code.op = "data" =>
       /\ code.residuals = Residuals(SourceBlock(at, size), size, carried, LumaLevels)
       /\ next = Average(SourceBlock(at, size), size)
       /\ \A p \in Block(at, size) : picture[p] = Source[p]
  /\ code.op # "data" => next = carried
  /\ code.op = "stationary" =>
       \A p \in Block(at, size) : picture[p] = Previous[p]
  /\ code.op = "motion" =>
       \A p \in Block(at, size) :
         picture[p] = IF code.spatial THEN picture[Plus(p, code.v)]
                      ELSE Previous[Plus(p, code.v)]

\* A square of `after` is newly drawn, the rest is as it was.
Drew(code, at, size, carried, next, before, after) ==
  /\ CodeDraws(code, at, size, carried, next, after)
  /\ after \in Pictures
  /\ \A p \in Pixels \ Block(at, size) : after[p] = before[p]
  /\ \A p \in Block(at, size) : after[p] \in Luma

LEMMA CellPixel ==
  ASSUME NEW at, NEW size, NEW done, Cell(at, size, done), NEW p \in Block(at, size)
  PROVE  /\ p \in Pixels /\ p = <<p[1], p[2]>> /\ p[1] \in Int /\ p[2] \in Int
         /\ <<p[1] - at[1], p[2] - at[2]>> \in Span(size)
         /\ Plus(at, <<p[1] - at[1], p[2] - at[2]>>) = p
         /\ Plus(p, <<0, 0>>) = p
<1>1. at[1] \in Int /\ at[2] \in Int /\ size \in Nat /\ p \in Pixels
  BY DEF Cell
<1>2. /\ p = <<p[1], p[2]>> /\ p[1] \in Int /\ p[2] \in Int
      /\ p[1] - at[1] \in 0 .. size - 1 /\ p[2] - at[2] \in 0 .. size - 1
  BY <1>1 DEF Block
<1>3. /\ Plus(at, <<p[1] - at[1], p[2] - at[2]>>) = <<p[1], p[2]>>
      /\ Plus(p, <<0, 0>>) = <<p[1], p[2]>>
  BY <1>1, <1>2 DEF Plus
<1>4. QED
  BY <1>1, <1>2, <1>3 DEF Span

LEMMA OffsetPixel ==
  ASSUME NEW at, NEW size, NEW done, Cell(at, size, done), NEW o \in Span(size)
  PROVE  /\ Plus(at, o) \in Block(at, size)
         /\ Plus(at, o) \in Pixels
         /\ o = <<Plus(at, o)[1] - at[1], Plus(at, o)[2] - at[2]>>
<1>1. at[1] \in Int /\ at[2] \in Int /\ size \in Nat /\ Block(at, size) \subseteq Pixels
  BY DEF Cell
<1>2. o = <<o[1], o[2]>> /\ o[1] \in 0 .. size - 1 /\ o[2] \in 0 .. size - 1
  BY <1>1 DEF Span
<1>3. Plus(at, o) = <<at[1] + o[1], at[2] + o[2]>>
  BY DEF Plus
<1>4. Plus(at, o) \in Block(at, size)
  BY <1>1, <1>2, <1>3 DEF Block
<1>5. o = <<Plus(at, o)[1] - at[1], Plus(at, o)[2] - at[2]>>
  BY <1>1, <1>2, <1>3
<1>6. QED
  BY <1>1, <1>4, <1>5

\* What Draw and CopyBlock do to a picture.
LEMMA Drawing ==
  ASSUME NEW at, NEW size, NEW done, Cell(at, size, done), NEW picture \in Pictures,
         NEW luma
  PROVE  /\ DOMAIN Draw(picture, at, size, luma) = Pixels
         /\ \A p \in Pixels \ Block(at, size) :
              Draw(picture, at, size, luma)[p] = picture[p]
         /\ \A p \in Block(at, size) :
              Draw(picture, at, size, luma)[p] = luma[<<p[1] - at[1], p[2] - at[2]>>]
<1>1. DOMAIN picture = Pixels /\ Block(at, size) \subseteq Pixels
  BY DEF Pictures, Cell
<1>2. QED
  BY <1>1 DEF Draw

LEMMA Copying ==
  ASSUME NEW at, NEW size, NEW done, Cell(at, size, done), NEW picture \in Pictures,
         NEW reference, NEW v \in Int \X Int
  PROVE  /\ DOMAIN CopyBlock(reference, picture, at, size, v) = Pixels
         /\ \A p \in Pixels \ Block(at, size) :
              CopyBlock(reference, picture, at, size, v)[p] = picture[p]
         /\ \A p \in Block(at, size) :
              CopyBlock(reference, picture, at, size, v)[p] = reference[Plus(p, v)]
<1> DEFINE luma == [o \in Span(size) |-> reference[Plus(Plus(at, o), v)]]
           q == Draw(picture, at, size, luma)
<1>1. /\ DOMAIN q = Pixels
      /\ \A p \in Pixels \ Block(at, size) : q[p] = picture[p]
      /\ \A p \in Block(at, size) : q[p] = luma[<<p[1] - at[1], p[2] - at[2]>>]
  <2> HIDE DEF luma
  <2>1. QED
    BY Drawing
<1>2. ASSUME NEW p \in Block(at, size)
      PROVE  luma[<<p[1] - at[1], p[2] - at[2]>>] = reference[Plus(p, v)]
  <2>1. PICK o \in Span(size) : o = <<p[1] - at[1], p[2] - at[2]>> /\ Plus(at, o) = p
    <3>1. /\ <<p[1] - at[1], p[2] - at[2]>> \in Span(size)
          /\ Plus(at, <<p[1] - at[1], p[2] - at[2]>>) = p
      BY CellPixel
    <3>2. QED
      BY <3>1
  <2>2. luma[o] = reference[Plus(p, v)]
    BY <2>1
  <2>3. QED
    BY <2>1, <2>2
<1>3. CopyBlock(reference, picture, at, size, v) = q
  BY DEF CopyBlock
<1> HIDE DEF q
<1>4. QED
  BY <1>1, <1>2, <1>3

\* What a motion code refers to is in the picture, and made already when it
\* is of the same picture.
LEMMA Referred ==
  ASSUME NEW at, NEW size, NEW done, Cell(at, size, done), NEW code,
         Fits(code, at, size), code.op = "motion", NEW p \in Block(at, size)
  PROVE  /\ code.spatial \in BOOLEAN
         /\ Plus(p, code.v) \in Pixels
         /\ code.spatial => Plus(p, code.v) \in done
<1>1. /\ at[1] \in Int /\ at[2] \in Int /\ size \in Nat
      /\ code.v[1] \in Int /\ code.v[2] \in Int
  BY DEF Cell, Fits
<1>2. /\ p[1] \in at[1] .. at[1] + size - 1 /\ p[2] \in at[2] .. at[2] + size - 1
  BY <1>1 DEF Block
<1>3. Plus(p, code.v) \in Block(Plus(at, code.v), size)
  BY <1>1, <1>2 DEF Block, Plus
<1>4. Plus(p, code.v) \in Pixels
  BY <1>3 DEF Fits, Inside
<1>5. code.spatial => SpatialPixelAvailable(Plus(p, code.v), at, size)
  BY <1>3 DEF Fits
<1>6. QED
  BY <1>4, <1>5 DEF Fits, Cell

\* A copy draws what its code stands for.
LEMMA CopyDraws ==
  ASSUME NEW at, NEW size, NEW done, Cell(at, size, done), NEW code,
         Fits(code, at, size), code.op # "data", NEW picture \in Pictures,
         \A p \in done : picture[p] \in Luma, NEW carried
  PROVE  Drew(code, at, size, carried, carried, picture, Copied(code, picture, at, size))
<1> DEFINE q == Copied(code, picture, at, size)
<1>1. Luma \subseteq Int /\ Previous \in [Pixels -> Luma] /\ Block(at, size) \subseteq Pixels
  BY PictureAssumption DEF Luma, Cell
<1>2. ASSUME NEW reference, NEW v \in Int \X Int, q = CopyBlock(reference, picture, at, size, v),
             \A p \in Block(at, size) : reference[Plus(p, v)] \in Luma
      PROVE  /\ q \in Pictures
             /\ \A p \in Pixels \ Block(at, size) : q[p] = picture[p]
             /\ \A p \in Block(at, size) : q[p] \in Luma /\ q[p] = reference[Plus(p, v)]
  <2>1. /\ DOMAIN CopyBlock(reference, picture, at, size, v) = Pixels
        /\ \A p \in Pixels \ Block(at, size) :
             CopyBlock(reference, picture, at, size, v)[p] = picture[p]
        /\ \A p \in Block(at, size) :
             CopyBlock(reference, picture, at, size, v)[p] = reference[Plus(p, v)]
    BY Copying
  <2>2. q = [p \in DOMAIN picture |-> q[p]]
    BY <1>2 DEF CopyBlock, Draw
  <2> HIDE DEF q
  <2>3. \A p \in Pixels : q[p] \in Int
    BY <1>1, <1>2, <2>1 DEF Pictures
  <2>4. q \in Pictures
    BY <2>2, <2>3 DEF Pictures
  <2>5. QED
    BY <1>2, <2>1, <2>4
<1>3. CASE code.op = "stationary"
  <2>1. q = CopyBlock(Previous, picture, at, size, <<0, 0>>)
    BY <1>3 DEF Copied
  <2>2. \A p \in Block(at, size) : Plus(p, <<0, 0>>) = p
    BY CellPixel
  <2> HIDE DEF q
  <2>3. /\ q \in Pictures
        /\ \A p \in Pixels \ Block(at, size) : q[p] = picture[p]
        /\ \A p \in Block(at, size) : q[p] \in Luma /\ q[p] = Previous[Plus(p, <<0, 0>>)]
    BY <1>1, <1>2, <2>1, <2>2
  <2>4. CodeDraws(code, at, size, carried, carried, q)
    BY <1>3, <2>2, <2>3 DEF CodeDraws
  <2>5. QED
    BY <2>3, <2>4 DEF Drew, q
<1>4. CASE code.op = "motion" /\ ~code.spatial
  <2>1. q = CopyBlock(Previous, picture, at, size, code.v) /\ code.v \in Int \X Int
    BY <1>4 DEF Copied, Fits
  <2>2. \A p \in Block(at, size) : Plus(p, code.v) \in Pixels
    BY <1>4, Referred
  <2> HIDE DEF q
  <2>3. /\ q \in Pictures
        /\ \A p \in Pixels \ Block(at, size) : q[p] = picture[p]
        /\ \A p \in Block(at, size) : q[p] \in Luma /\ q[p] = Previous[Plus(p, code.v)]
    BY <1>1, <1>2, <2>1, <2>2
  <2>4. CodeDraws(code, at, size, carried, carried, q)
    BY <1>4, <2>3 DEF CodeDraws
  <2>5. QED
    BY <2>3, <2>4 DEF Drew, q
<1>5. CASE code.op = "motion" /\ code.spatial
  <2>1. q = CopyBlock(picture, picture, at, size, code.v) /\ code.v \in Int \X Int
    BY <1>5 DEF Copied, Fits
  <2>2. \A p \in Block(at, size) : Plus(p, code.v) \in done
    BY <1>5, Referred
  <2>3. done \subseteq Pixels \ Block(at, size)
    BY DEF Cell
  <2> HIDE DEF q
  <2>4. /\ q \in Pictures
        /\ \A p \in Pixels \ Block(at, size) : q[p] = picture[p]
        /\ \A p \in Block(at, size) : q[p] \in Luma /\ q[p] = picture[Plus(p, code.v)]
    BY <1>2, <2>1, <2>2
  <2>5. \A p \in Block(at, size) : q[p] = q[Plus(p, code.v)]
    BY <2>2, <2>3, <2>4
  <2>6. CodeDraws(code, at, size, carried, carried, q)
    BY <1>5, <2>5 DEF CodeDraws
  <2>7. QED
    BY <2>4, <2>6 DEF Drew, q
<1>6. QED
  BY <1>3, <1>4, <1>5 DEF Fits

LEMMA SourceOfCell ==
  ASSUME NEW at, NEW size, NEW done, Cell(at, size, done)
  PROVE  /\ SourceBlock(at, size) \in [Span(size) -> Luma]
         /\ Average(SourceBlock(at, size), size) \in Int
         /\ \A p \in Block(at, size) :
              SourceBlock(at, size)[<<p[1] - at[1], p[2] - at[2]>>] = Source[p]
<1> DEFINE block == SourceBlock(at, size)
<1>1. Source \in [Pixels -> Luma] /\ Luma \subseteq Int
  BY PictureAssumption DEF Luma
<1>2. block \in [Span(size) -> Luma]
  BY <1>1, OffsetPixel DEF SourceBlock
<1>3. block \in [Span(size) -> Int]
  BY <1>1, <1>2
<1>4. size \in {2, 4}
  BY DEF Cell
<1>5. IsFiniteSet(Span(size))
  <2>1. IsFiniteSet(0 .. size - 1)
    BY <1>4, FS_Interval
  <2>2. QED
    BY <2>1, FS_Product DEF Span
<1>6. \A p \in Block(at, size) : block[<<p[1] - at[1], p[2] - at[2]>>] = Source[p]
  <2>1. \A o \in Span(size) : block[o] = Source[Plus(at, o)]
    BY DEF SourceBlock
  <2> HIDE DEF block
  <2>2. QED
    BY <2>1, CellPixel
<1> HIDE DEF block
<1>7. Average(block, size) \in Int
  <2>1. MapThenSumSet(LAMBDA o : block[o], Span(size)) \in Int
    BY <1>3, <1>5, SumIsInt
  <2>2. PICK total \in Int : total = MapThenSumSet(LAMBDA o : block[o], Span(size))
    BY <2>1
  <2>3. Average(block, size) = total \div (size * size)
    BY <2>2 DEF Average
  <2>4. QED
    BY <1>4, <2>3
<1>8. QED
  BY <1>2, <1>6, <1>7 DEF block

\* So does data.
LEMMA DataDraws ==
  ASSUME NEW at, NEW size, NEW done, Cell(at, size, done), NEW picture \in Pictures,
         NEW carried \in Int
  PROVE  Drew(MakeData(at, size, carried), at, size, carried,
              Average(SourceBlock(at, size), size), picture,
              Draw(picture, at, size, SourceBlock(at, size)))
<1> DEFINE block == SourceBlock(at, size)
           q == Draw(picture, at, size, block)
<1>1. Source \in [Pixels -> Luma] /\ Luma \subseteq Int /\ Block(at, size) \subseteq Pixels
  BY PictureAssumption DEF Luma, Cell
<1>2. \A p \in Block(at, size) : block[<<p[1] - at[1], p[2] - at[2]>>] = Source[p]
  BY SourceOfCell
<1>3. q = [p \in DOMAIN picture |-> q[p]]
  BY DEF Draw
<1> HIDE DEF block
<1>4. /\ DOMAIN q = Pixels
      /\ \A p \in Pixels \ Block(at, size) : q[p] = picture[p]
      /\ \A p \in Block(at, size) : q[p] = block[<<p[1] - at[1], p[2] - at[2]>>]
  BY Drawing
<1> HIDE DEF q
<1>5. \A p \in Block(at, size) : q[p] = Source[p] /\ q[p] \in Luma
  BY <1>1, <1>2, <1>4
<1>6. \A p \in Pixels : q[p] \in Int
  BY <1>1, <1>4, <1>5 DEF Pictures
<1>7. q \in Pictures
  BY <1>3, <1>6 DEF Pictures
<1>8. CodeDraws(MakeData(at, size, carried), at, size, carried, Average(block, size), q)
  <2>1. /\ MakeData(at, size, carried).op = "data"
        /\ MakeData(at, size, carried).residuals = Residuals(block, size, carried, LumaLevels)
    BY DEF MakeData, block
  <2>2. QED
    BY <1>5, <2>1 DEF CodeDraws, block
<1>9. QED
  BY <1>4, <1>5, <1>7, <1>8 DEF Drew, q, block

\* Another picture that holds the same there, and the same before, does too.
LEMMA DrawsElsewhere ==
  ASSUME NEW at, NEW size, NEW done, Cell(at, size, done), NEW code,
         Fits(code, at, size), NEW carried, NEW next, NEW picture, NEW other,
         CodeDraws(code, at, size, carried, next, picture),
         \A p \in done \union Block(at, size) : other[p] = picture[p]
  PROVE  CodeDraws(code, at, size, carried, next, other)
<1>1. CASE code.op = "motion"
  <2>1. \A p \in Block(at, size) :
          /\ code.spatial => Plus(p, code.v) \in done
          /\ code.spatial \in BOOLEAN
    BY <1>1, Referred
  <2>2. ASSUME NEW p \in Block(at, size)
        PROVE  other[p] = IF code.spatial THEN other[Plus(p, code.v)]
                          ELSE Previous[Plus(p, code.v)]
    <3>1. other[p] = picture[p]
      OBVIOUS
    <3>2. code.spatial => other[Plus(p, code.v)] = picture[Plus(p, code.v)]
      BY <2>1
    <3>3. picture[p] = IF code.spatial THEN picture[Plus(p, code.v)]
                       ELSE Previous[Plus(p, code.v)]
      BY <1>1 DEF CodeDraws
    <3>4. QED
      BY <3>1, <3>2, <3>3
  <2>3. QED
    BY <1>1, <2>2 DEF CodeDraws
<1>2. CASE code.op # "motion"
  BY <1>2 DEF CodeDraws
<1>3. QED
  BY <1>1, <1>2

(***************************************************************************)
(* A decoder with the right predictor and the right pixels before the      *)
(* square leaves the right predictor and the right pixels in it.           *)
(***************************************************************************)
LEMMA CodeDecodes ==
  ASSUME NEW at, NEW size, NEW done, Cell(at, size, done), NEW code,
         Fits(code, at, size), NEW next, NEW picture \in Pictures, NEW state,
         CodeDraws(code, at, size, state.predictor, next, picture),
         Sound(state), state.predictor \in Int, state.picture \in Pictures,
         \A p \in done : state.picture[p] = picture[p] /\ picture[p] \in Luma
  PROVE  /\ DecodeCode(state, code, at, size).predictor = next
         /\ DecodeCode(state, code, at, size).picture \in Pictures
         /\ \A p \in done \union Block(at, size) :
              DecodeCode(state, code, at, size).picture[p] = picture[p]
<1>1. state.ok = TRUE /\ ~Refused(code, at, size)
  BY FitsNotRefused DEF Sound
<1>2. Block(at, size) \subseteq Pixels /\ done \subseteq Pixels \ Block(at, size)
  BY DEF Cell
<1>3. CASE code.op = "data"
  <2> DEFINE block == SourceBlock(at, size)
             luma == DecodedLuma(code.residuals, size, state.predictor, LumaLevels)
             q == Draw(state.picture, at, size, luma)
  <2>1. luma = block
    <3>1. block \in [Span(size) -> 0 .. LumaLevels - 1] /\ size \in Nat
      <4>1. block \in [Span(size) -> Luma]
        BY SourceOfCell
      <4>2. QED
        BY <4>1 DEF Luma, Cell
    <3>2. code.residuals = Residuals(block, size, state.predictor, LumaLevels)
      BY <1>3 DEF CodeDraws
    <3> HIDE DEF block
    <3>3. QED
      BY <3>1, <3>2, DecodeUndoes
  <2>2. DecodeCode(state, code, at, size)
          = [state EXCEPT !.picture = Draw(@, at, size, luma),
                          !.predictor = Average(luma, size)]
    BY <1>1, <1>3 DEF DecodeCode
  <2>3. \A p \in Block(at, size) : block[<<p[1] - at[1], p[2] - at[2]>>] = Source[p]
    BY SourceOfCell
  <2>4. Drew(MakeData(at, size, state.predictor), at, size, state.predictor,
             Average(block, size), state.picture, Draw(state.picture, at, size, block))
    BY DataDraws
  <2> HIDE DEF luma, block
  <2>5. DecodeCode(state, code, at, size).predictor = Average(block, size)
    BY <2>1, <2>2 DEF Sound
  <2>6. DecodeCode(state, code, at, size).picture = q
    BY <2>2 DEF Sound
  <2>7. q \in Pictures /\ \A p \in Pixels \ Block(at, size) : q[p] = state.picture[p]
    BY <2>1, <2>4 DEF Drew
  <2>8. \A p \in Block(at, size) : q[p] = block[<<p[1] - at[1], p[2] - at[2]>>]
    BY <2>1, Drawing
  <2> HIDE DEF q
  <2>9. \A p \in done \union Block(at, size) : q[p] = picture[p]
    BY <1>2, <1>3, <2>3, <2>7, <2>8 DEF CodeDraws
  <2>10. next = Average(block, size)
    BY <1>3 DEF CodeDraws, block
  <2>11. QED
    BY <2>5, <2>6, <2>7, <2>9, <2>10
<1>4. CASE code.op # "data"
  <2> DEFINE q == Copied(code, state.picture, at, size)
  <2>1. DecodeCode(state, code, at, size) = [state EXCEPT !.picture = Copied(code, @, at, size)]
    BY <1>1, <1>4 DEF DecodeCode
  <2>2. /\ DecodeCode(state, code, at, size).predictor = state.predictor
        /\ DecodeCode(state, code, at, size).picture = q
    BY <2>1 DEF Sound
  <2>3. next = state.predictor
    BY <1>4 DEF CodeDraws
  <2>4. /\ q \in Pictures
        /\ \A p \in done : q[p] = picture[p]
        /\ \A p \in Block(at, size) : q[p] = picture[p]
    <3>1. Drew(code, at, size, state.predictor, state.predictor, state.picture, q)
      BY <1>4, CopyDraws
    <3> HIDE DEF q
    <3>2. /\ q \in Pictures
          /\ \A p \in done : q[p] = picture[p]
      BY <1>2, <3>1 DEF Drew
    <3>3. ASSUME NEW p \in Block(at, size)
          PROVE  q[p] = picture[p]
      <4>1. CodeDraws(code, at, size, state.predictor, state.predictor, q)
        BY <3>1 DEF Drew
      <4>2. CASE code.op = "stationary"
        BY <4>1, <4>2 DEF CodeDraws
      <4>3. CASE code.op = "motion"
        <5>1. code.spatial \in BOOLEAN /\ (code.spatial => Plus(p, code.v) \in done)
          BY <4>3, Referred
        <5>2. code.spatial => q[Plus(p, code.v)] = picture[Plus(p, code.v)]
          BY <3>2, <5>1
        <5>3. /\ q[p] = IF code.spatial THEN q[Plus(p, code.v)]
                        ELSE Previous[Plus(p, code.v)]
              /\ picture[p] = IF code.spatial THEN picture[Plus(p, code.v)]
                              ELSE Previous[Plus(p, code.v)]
          BY <4>1, <4>3 DEF CodeDraws
        <5>4. QED
          BY <5>2, <5>3
      <4>4. QED
        BY <1>4, <4>2, <4>3 DEF Fits
    <3>4. QED
      BY <3>2, <3>3
  <2>5. QED
    BY <2>2, <2>3, <2>4
<1>5. QED
  BY <1>3, <1>4


-----------------------------------------------------------------------------
(* Blocks and their children.                                              *)

\* The first n children draw in turn; carry[i] is the predictor before the
\* i-th of them.
ChildrenDraw(codes, at, n, carry, picture) ==
  \A i \in 0 .. n - 1 :
    CodeDraws(codes[i + 1], ChildAt(at, i), 2, carry[i], carry[i + 1], picture)

ChildrenChain(codes, at, n, carried, next, picture) ==
  \E carry \in [Nat -> Int] :
    /\ carry[0] = carried /\ carry[n] = next
    /\ ChildrenDraw(codes, at, n, carry, picture)

BlockDraws(code, at, carried, next, picture) ==
  IF code.op = "split" THEN ChildrenChain(code.children, at, 4, carried, next, picture)
  ELSE CodeDraws(code, at, 4, carried, next, picture)

LEMMA ChildrenDrawElsewhere ==
  ASSUME NEW n \in Nat, n < BlockCount, NEW k \in 0 .. 4, NEW codes, k <= Len(codes),
         Len(codes) \in Nat,
         ChildrenFit(codes, BlockAt(n)), NEW carry, NEW picture, NEW other,
         ChildrenDraw(codes, BlockAt(n), k, carry, picture),
         \A p \in Drawn(n, k) : other[p] = picture[p]
  PROVE  ChildrenDraw(codes, BlockAt(n), k, carry, other)
<1>1. SUFFICES ASSUME NEW i \in 0 .. k - 1
               PROVE  CodeDraws(codes[i + 1], ChildAt(BlockAt(n), i), 2,
                                carry[i], carry[i + 1], other)
  BY DEF ChildrenDraw
<1>2. i \in 0 .. 3 /\ i < Len(codes) /\ i + 1 <= k
  OBVIOUS
<1>3. Fits(codes[i + 1], ChildAt(BlockAt(n), i), 2)
  BY <1>2 DEF ChildrenFit
<1>4. /\ Cell(ChildAt(BlockAt(n), i), 2, Drawn(n, i))
      /\ Drawn(n, i + 1) = Drawn(n, i) \union Block(ChildAt(BlockAt(n), i), 2)
  BY <1>2, ChildIsCell
<1>5. Drawn(n, i + 1) \subseteq Drawn(n, k)
  <2>1. \A p \in Pixels : Quadrant(p) \in 0 .. 3
    BY PixelCell
  <2>2. QED
    BY <1>2, <2>1 DEF Drawn
<1>6. \A p \in Drawn(n, i) \union Block(ChildAt(BlockAt(n), i), 2) : other[p] = picture[p]
  BY <1>4, <1>5
<1>7. CodeDraws(codes[i + 1], ChildAt(BlockAt(n), i), 2, carry[i], carry[i + 1], picture)
  BY DEF ChildrenDraw
<1>8. QED
  BY <1>3, <1>4, <1>6, <1>7, DrawsElsewhere

LEMMA BlockDrawsElsewhere ==
  ASSUME NEW n \in Nat, n < BlockCount, NEW code, FitsBlock(code, BlockAt(n)),
         NEW carried, NEW next, NEW picture, NEW other,
         BlockDraws(code, BlockAt(n), carried, next, picture),
         \A p \in Drawn(n + 1, 0) : other[p] = picture[p]
  PROVE  BlockDraws(code, BlockAt(n), carried, next, other)
<1>1. /\ Cell(BlockAt(n), 4, Drawn(n, 0))
      /\ Drawn(n + 1, 0) = Drawn(n, 0) \union Block(BlockAt(n), 4)
      /\ Drawn(n, 4) = Drawn(n + 1, 0)
  BY BlockIsCell
<1>2. CASE code.op = "split"
  <2>1. PICK carry \in [Nat -> Int] :
          /\ carry[0] = carried /\ carry[4] = next
          /\ ChildrenDraw(code.children, BlockAt(n), 4, carry, picture)
    BY <1>2 DEF BlockDraws, ChildrenChain
  <2>2. Len(code.children) = 4 /\ ChildrenFit(code.children, BlockAt(n))
    BY <1>2 DEF FitsBlock
  <2>3. ChildrenDraw(code.children, BlockAt(n), 4, carry, other)
    <3>1. \A p \in Drawn(n, 4) : other[p] = picture[p]
      BY <1>1
    <3>2. 4 \in 0 .. 4 /\ 4 <= Len(code.children) /\ Len(code.children) \in Nat
      BY <2>2
    <3>3. QED
      BY <2>1, <2>2, <3>1, <3>2, ChildrenDrawElsewhere
  <2>4. QED
    BY <1>2, <2>1, <2>3 DEF BlockDraws, ChildrenChain
<1>3. CASE code.op # "split"
  BY <1>1, <1>3, DrawsElsewhere DEF BlockDraws, FitsBlock
<1>4. QED
  BY <1>2, <1>3

LEMMA ChildAdded ==
  ASSUME NEW n \in Nat, n < BlockCount, NEW codes, IsSequence(codes),
         NEW k \in 0 .. 3, Len(codes) = k, ChildrenFit(codes, BlockAt(n)),
         NEW first, NEW carried, NEW next \in Int, NEW before, NEW after,
         ChildrenChain(codes, BlockAt(n), k, first, carried, before),
         NEW code,
         Drew(code, ChildAt(BlockAt(n), k), 2, carried, next, before, after)
  PROVE  ChildrenChain(Append(codes, code), BlockAt(n), k + 1, first, next, after)
<1>0. PICK carry \in [Nat -> Int] :
        /\ carry[0] = first /\ carry[k] = carried
        /\ ChildrenDraw(codes, BlockAt(n), k, carry, before)
  BY DEF ChildrenChain
<1> DEFINE at == BlockAt(n)
           chain == [carry EXCEPT ![k + 1] = next]
<1>1. /\ chain \in [Nat -> Int] /\ chain[k + 1] = next
      /\ \A i \in 0 .. k : chain[i] = carry[i]
  OBVIOUS
<1>2. /\ k \in 0 .. 3
      /\ Append(codes, code)[k + 1] = code
      /\ \A i \in 1 .. k : Append(codes, code)[i] = codes[i]
  BY AppendExtends
<1>3. /\ Cell(ChildAt(at, k), 2, Drawn(n, k))
      /\ Drawn(n, k) \subseteq Pixels \ Block(ChildAt(at, k), 2)
  BY ChildIsCell DEF Cell
<1>4. \A p \in Drawn(n, k) : after[p] = before[p]
  BY <1>3 DEF Drew
<1>5. ChildrenDraw(codes, at, k, carry, after)
  <2>1. k \in 0 .. 4 /\ k <= Len(codes) /\ Len(codes) \in Nat
    BY <1>2
  <2>2. QED
    BY <1>0, <1>4, <2>1, ChildrenDrawElsewhere
<1>6. CodeDraws(code, ChildAt(at, k), 2, carry[k], next, after)
  BY <1>0 DEF Drew
<1> HIDE DEF chain, at
<1>7. ASSUME NEW i \in 0 .. (k + 1) - 1
      PROVE  CodeDraws(Append(codes, code)[i + 1], ChildAt(at, i), 2,
                       chain[i], chain[i + 1], after)
  <2>1. CASE i = k
    <3>1. chain[k] = carry[k] /\ chain[k + 1] = next
      BY <1>1, <1>2
    <3>2. QED
      BY <1>2, <1>6, <2>1, <3>1
  <2>2. CASE i < k
    <3>1. /\ i \in 0 .. k - 1 /\ i + 1 \in 1 .. k
          /\ i \in 0 .. k /\ i + 1 \in 0 .. k
      BY <1>2, <2>2
    <3>2. CodeDraws(codes[i + 1], ChildAt(at, i), 2, carry[i], carry[i + 1], after)
      BY <1>5, <3>1 DEF ChildrenDraw
    <3>3. QED
      BY <1>1, <1>2, <3>1, <3>2
  <2>3. i = k \/ i < k
    OBVIOUS
  <2>4. QED
    BY <2>1, <2>2, <2>3, Zenon
<1>8. ChildrenDraw(Append(codes, code), at, k + 1, chain, after)
  BY <1>7 DEF ChildrenDraw
<1>9. chain[0] = first
  BY <1>0, <1>1, <1>2
<1>10. QED
  BY <1>1, <1>8, <1>9 DEF at, ChildrenChain

\* A decoder that has the predictor and, where `done` is, the picture.
Follows(state, carried, done, picture) ==
  /\ Sound(state)
  /\ state.predictor = carried /\ carried \in Int
  /\ state.picture \in Pictures
  /\ \A p \in done : state.picture[p] = picture[p]

LEMMA CodeFollows ==
  ASSUME NEW at, NEW size, NEW done, Cell(at, size, done), NEW code,
         Fits(code, at, size), NEW carried, NEW next \in Int, NEW picture \in Pictures,
         NEW state, CodeDraws(code, at, size, carried, next, picture),
         Follows(state, carried, done, picture),
         \A p \in done : picture[p] \in Luma
  PROVE  /\ Follows(DecodeCode(state, code, at, size), next,
                    done \union Block(at, size), picture)
         /\ DecodeCode(state, code, at, size).position = state.position
<1>1. /\ Sound(state) /\ state.predictor \in Int /\ state.picture \in Pictures
      /\ \A p \in done : state.picture[p] = picture[p] /\ picture[p] \in Luma
  BY DEF Follows
<1>2. CodeDraws(code, at, size, state.predictor, next, picture)
  BY DEF Follows
<1>3. /\ DecodeCode(state, code, at, size).predictor = next
      /\ DecodeCode(state, code, at, size).picture \in Pictures
      /\ \A p \in done \union Block(at, size) :
           DecodeCode(state, code, at, size).picture[p] = picture[p]
  BY <1>1, <1>2, CodeDecodes
<1>4. /\ Sound(DecodeCode(state, code, at, size))
      /\ DecodeCode(state, code, at, size).position = state.position
  BY <1>1, DecodeCodeSound
<1>5. QED
  BY <1>3, <1>4 DEF Follows

LEMMA ChildDecodes ==
  ASSUME NEW n \in Nat, n < BlockCount, NEW k \in 0 .. 3, NEW codes, Len(codes) = 4,
         ChildrenFit(codes, BlockAt(n)), NEW carry \in [Nat -> Int],
         NEW picture \in Pictures, NEW state,
         ChildrenDraw(codes, BlockAt(n), 4, carry, picture),
         \A p \in Drawn(n + 1, 0) : picture[p] \in Luma,
         Follows(state, carry[k], Drawn(n, k), picture)
  PROVE  /\ Follows(DecodeCode(state, codes[k + 1], ChildAt(BlockAt(n), k), 2),
                    carry[k + 1], Drawn(n, k + 1), picture)
         /\ DecodeCode(state, codes[k + 1], ChildAt(BlockAt(n), k), 2).position
              = state.position
<1> DEFINE child == ChildAt(BlockAt(n), k)
           code == codes[k + 1]
           left == DecodeCode(state, code, child, 2)
<1>1. /\ Cell(child, 2, Drawn(n, k))
      /\ Drawn(n, k + 1) = Drawn(n, k) \union Block(child, 2)
  BY ChildIsCell
<1>2. Fits(code, child, 2)
  BY DEF ChildrenFit
<1>3. CodeDraws(code, child, 2, carry[k], carry[k + 1], picture)
  BY DEF ChildrenDraw
<1>4. Drawn(n, k) \subseteq Drawn(n + 1, 0)
  <2>1. \A p \in Pixels : Scan(p) \in Int /\ Quadrant(p) \in 0 .. 3
    BY ScanOrder, PixelCell, Grid
  <2>2. QED
    BY <2>1 DEF Drawn
<1> HIDE DEF child, code
<1>5. \A p \in Drawn(n, k) : picture[p] \in Luma
  BY <1>4
<1>6. carry[k + 1] \in Int
  OBVIOUS
<1>7. /\ Follows(left, carry[k + 1], Drawn(n, k) \union Block(child, 2), picture)
      /\ left.position = state.position
  BY <1>1, <1>2, <1>3, <1>5, <1>6, CodeFollows
<1>8. QED
  BY <1>1, <1>7 DEF left, child, code

LEMMA BlockDecodes ==
  ASSUME NEW n \in Nat, n < BlockCount, NEW code, FitsBlock(code, BlockAt(n)),
         NEW carried, NEW next \in Int, NEW picture \in Pictures, NEW state,
         BlockDraws(code, BlockAt(n), carried, next, picture),
         \A p \in Drawn(n + 1, 0) : picture[p] \in Luma,
         Follows(state, carried, Drawn(n, 0), picture), NEW left,
         left = IF code.op = "split" THEN DecodeSplit(state, code.children, BlockAt(n))
                ELSE DecodeCode(state, code, BlockAt(n), 4)
  PROVE  /\ Follows(left, next, Drawn(n + 1, 0), picture)
         /\ left.position = state.position
<1>1. /\ Cell(BlockAt(n), 4, Drawn(n, 0))
      /\ Drawn(n + 1, 0) = Drawn(n, 0) \union Block(BlockAt(n), 4)
      /\ Drawn(n, 4) = Drawn(n + 1, 0)
  BY BlockIsCell
<1>2. CASE code.op = "split"
  <2> DEFINE D(s, i) == DecodeCode(s, code.children[i + 1], ChildAt(BlockAt(n), i), 2)
  <2>1. PICK carry \in [Nat -> Int] :
          /\ carry[0] = carried /\ carry[4] = next
          /\ ChildrenDraw(code.children, BlockAt(n), 4, carry, picture)
    BY <1>2 DEF BlockDraws, ChildrenChain
  <2>2. Len(code.children) = 4 /\ ChildrenFit(code.children, BlockAt(n))
    BY <1>2 DEF FitsBlock
  <2>3. ASSUME NEW s, NEW i \in 0 .. 3, Follows(s, carry[i], Drawn(n, i), picture)
        PROVE  /\ Follows(D(s, i), carry[i + 1], Drawn(n, i + 1), picture)
               /\ D(s, i).position = s.position
    <3> HIDE DEF D
    <3>1. PICK children : children = code.children
      OBVIOUS
    <3>2. /\ Len(children) = 4 /\ ChildrenFit(children, BlockAt(n))
          /\ ChildrenDraw(children, BlockAt(n), 4, carry, picture)
      BY <2>1, <2>2, <3>1
    <3>3. /\ Follows(DecodeCode(s, children[i + 1], ChildAt(BlockAt(n), i), 2),
                     carry[i + 1], Drawn(n, i + 1), picture)
          /\ DecodeCode(s, children[i + 1], ChildAt(BlockAt(n), i), 2).position
               = s.position
      BY <2>3, <3>2, ChildDecodes
    <3>4. D(s, i) = DecodeCode(s, children[i + 1], ChildAt(BlockAt(n), i), 2)
      BY <3>1 DEF D
    <3>5. QED
      BY <3>3, <3>4
  <2>4. DecodeSplit(state, code.children, BlockAt(n)) = D(D(D(D(state, 0), 1), 2), 3)
    BY DEF DecodeSplit
  <2> HIDE DEF D
  <2>5. /\ Follows(D(state, 0), carry[1], Drawn(n, 1), picture)
        /\ D(state, 0).position = state.position
    <3>1. /\ Follows(D(state, 0), carry[0 + 1], Drawn(n, 0 + 1), picture)
          /\ D(state, 0).position = state.position
      BY <2>1, <2>3
    <3>2. QED
      BY <3>1
  <2>6. /\ Follows(D(D(state, 0), 1), carry[2], Drawn(n, 2), picture)
        /\ D(D(state, 0), 1).position = state.position
    <3>1. /\ Follows(D(D(state, 0), 1), carry[1 + 1], Drawn(n, 1 + 1), picture)
          /\ D(D(state, 0), 1).position = state.position
      BY <2>3, <2>5
    <3>2. QED
      BY <3>1
  <2>7. /\ Follows(D(D(D(state, 0), 1), 2), carry[3], Drawn(n, 3), picture)
        /\ D(D(D(state, 0), 1), 2).position = state.position
    <3>1. /\ Follows(D(D(D(state, 0), 1), 2), carry[2 + 1], Drawn(n, 2 + 1), picture)
          /\ D(D(D(state, 0), 1), 2).position = state.position
      BY <2>3, <2>6
    <3>2. QED
      BY <3>1
  <2>8. /\ Follows(D(D(D(D(state, 0), 1), 2), 3), carry[4], Drawn(n, 4), picture)
        /\ D(D(D(D(state, 0), 1), 2), 3).position = state.position
    <3>1. /\ Follows(D(D(D(D(state, 0), 1), 2), 3), carry[3 + 1], Drawn(n, 3 + 1), picture)
          /\ D(D(D(D(state, 0), 1), 2), 3).position = state.position
      BY <2>3, <2>7
    <3>2. QED
      BY <3>1
  <2>9. QED
    BY <1>1, <1>2, <2>1, <2>4, <2>8
<1>3. CASE code.op # "split"
  <2>0. left = DecodeCode(state, code, BlockAt(n), 4)
    BY <1>3
  <2>1. Fits(code, BlockAt(n), 4) /\ CodeDraws(code, BlockAt(n), 4, carried, next, picture)
    BY <1>3 DEF FitsBlock, BlockDraws
  <2>2. \A p \in Drawn(n, 0) : picture[p] \in Luma
    BY <1>1
  <2>3. /\ Follows(DecodeCode(state, code, BlockAt(n), 4), next,
                   Drawn(n, 0) \union Block(BlockAt(n), 4), picture)
        /\ DecodeCode(state, code, BlockAt(n), 4).position = state.position
    BY <1>1, <2>1, <2>2, CodeFollows
  <2>4. QED
    BY <1>1, <2>0, <2>3
<1>4. QED
  BY <1>2, <1>3


-----------------------------------------------------------------------------
(* The decoder follows the encoder.                                        *)

\* What the encoder keeps is a picture drawn up to where it stands.
Pictured ==
  /\ recon \in Pictures /\ predictor \in Int
  /\ Len(stream) <= BlockCount
  /\ \A p \in Drawn(Len(stream), 0) : recon[p] \in Luma
  /\ decoder.position <= Len(stream)
  /\ MoreBlocks => decoder.position = 0

\* carry[n] is the predictor before block n, for the encoder as it went and
\* for the decoder where it stands.
ChainIs(carry) ==
  /\ carry[0] = 0 /\ carry[Len(stream)] = predictor
  /\ \A n \in 0 .. Len(stream) - 1 :
       BlockDraws(stream[n + 1], BlockAt(n), carry[n], carry[n + 1], recon)
  /\ Follows(decoder, carry[decoder.position], Drawn(decoder.position, 0), recon)

Chained == \E carry \in [Nat -> Int] : ChainIs(carry)

\* The tentative block is drawn as far as its children go, from the predictor
\* the split began with, over the pixels already made.
SplitPictured ==
  Splitting =>
    /\ split.tentative \in Pictures /\ split.predictor \in Int
    /\ ChildrenChain(split.codes, split.at, Len(split.codes),
                     predictor, split.predictor, split.tentative)
    /\ \A p \in Drawn(Len(stream), 0) : split.tentative[p] = recon[p]
    /\ \A p \in Drawn(Len(stream), Len(split.codes)) : split.tentative[p] \in Luma

DrawInv == Pictured /\ Chained /\ SplitPictured

LEMMA InitDraws == Init => DrawInv
<1> SUFFICES ASSUME Init PROVE DrawInv
  OBVIOUS
<1>1. Len(stream) = 0 /\ decoder.position = 0 /\ BlockCount \in Nat
  BY Grid DEF Init
<1>2. Drawn(0, 0) = {}
  BY NothingAndEverything
<1>3. Pictured
  BY <1>1, <1>2 DEF Init, Pictured, Pictures, Stale
<1>4. Follows(decoder, 0, Drawn(0, 0), recon)
  BY <1>2 DEF Init, Follows, Sound, Pictures, Stale
<1>5. Chained
  <2> DEFINE carry == [n \in Nat |-> 0]
  <2>1. carry \in [Nat -> Int] /\ carry[0] = 0
    OBVIOUS
  <2> HIDE DEF carry
  <2>2. ChainIs(carry)
    BY <1>1, <1>4, <2>1 DEF ChainIs, Init
  <2>3. QED
    BY <2>1, <2>2 DEF Chained
<1>6. ~Splitting
  BY DEF Init, Splitting
<1>7. QED
  BY <1>3, <1>5, <1>6 DEF DrawInv, SplitPictured

(***************************************************************************)
(* A block is added.  What was drawn before is as it was, so that every    *)
(* earlier block still stands for what the reconstruction holds.           *)
(***************************************************************************)
LEMMA BlockAdded ==
  ASSUME StreamFits, DecoderFits, Pictured, Chained, MoreBlocks, NEW code,
         FitsBlock(code, Position),
         stream' = Append(stream, code), decoder' = decoder,
         recon' \in Pictures, predictor' \in Int,
         BlockDraws(code, Position, predictor, predictor', recon'),
         \A p \in Drawn(Len(stream), 0) : recon'[p] = recon[p],
         \A p \in Block(Position, 4) : recon'[p] \in Luma
  PROVE  Pictured' /\ Chained'
<1>1. PICK n \in Nat : n = Len(stream) /\ n < BlockCount /\ Position = BlockAt(n)
  BY PositionIsCorner DEF MoreBlocks, Position
<1>2. /\ stream'[n + 1] = code /\ Len(stream') = n + 1
      /\ \A i \in 1 .. n : stream'[i] = stream[i]
  BY <1>1, AppendExtends DEF StreamFits
<1>3. Drawn(n + 1, 0) = Drawn(n, 0) \union Block(BlockAt(n), 4)
  BY <1>1, BlockIsCell
<1>4. decoder.position = 0 /\ Drawn(0, 0) = {}
  BY NothingAndEverything DEF Pictured
<1>5. Pictured'
  <2>1. n + 1 <= BlockCount
    BY <1>1, Grid
  <2>2. \A p \in Drawn(n + 1, 0) : recon'[p] \in Luma
    BY <1>1, <1>3 DEF Pictured
  <2>3. QED
    BY <1>2, <1>4, <2>1, <2>2 DEF Pictured
<1>6. PICK carry \in [Nat -> Int] : ChainIs(carry)
  BY DEF Chained
<1> DEFINE chain == [carry EXCEPT ![n + 1] = predictor']
<1>7. /\ chain \in [Nat -> Int] /\ chain[n + 1] = predictor'
      /\ \A i \in 0 .. n : chain[i] = carry[i]
  OBVIOUS
<1>8. PICK linked \in [Nat -> Int] : linked = chain
  BY <1>7
<1> HIDE DEF chain
<1>9. ASSUME NEW m \in 0 .. (n + 1) - 1
      PROVE  BlockDraws(stream'[m + 1], BlockAt(m), linked[m], linked[m + 1], recon')
  <2>1. CASE m = n
    <3>1. linked[n] = predictor
      BY <1>1, <1>6, <1>7, <1>8 DEF ChainIs
    <3>2. QED
      BY <1>1, <1>2, <1>7, <1>8, <2>1, <3>1
  <2>2. CASE m < n
    <3>1. /\ m \in Nat /\ m < BlockCount /\ m \in 0 .. n - 1
          /\ m + 1 \in 1 .. n /\ (m + 1) - 1 = m
          /\ m \in 0 .. n /\ m + 1 \in 0 .. n /\ m + 1 \in Nat
          /\ m + 1 <= n
      <4>1. m \in Nat /\ BlockCount \in Nat /\ n \in Nat
        BY Grid
      <4>2. m < BlockCount
        BY <1>1, <2>2, <4>1
      <4>3. /\ m \in 0 .. n - 1 /\ m + 1 \in 1 .. n /\ (m + 1) - 1 = m
            /\ m \in 0 .. n /\ m + 1 \in 0 .. n /\ m + 1 <= n
        BY <2>2, <4>1
      <4>4. QED
        BY <4>1, <4>2, <4>3
    <3>2. BlockDraws(stream[m + 1], BlockAt(m), carry[m], carry[m + 1], recon)
      BY <1>1, <1>6, <3>1 DEF ChainIs
    <3>3. FitsBlock(stream[m + 1], BlockAt(m))
      BY <1>1, <3>1 DEF StreamFits
    <3>4. \A p \in Drawn(m + 1, 0) : recon'[p] = recon[p]
      BY <1>1, <3>1, DrawnGrows
    <3>5. BlockDraws(stream[m + 1], BlockAt(m), carry[m], carry[m + 1], recon')
      BY <3>1, <3>2, <3>3, <3>4, BlockDrawsElsewhere
    <3>6. QED
      BY <1>2, <1>7, <1>8, <3>1, <3>5
  <2>3. m = n \/ m < n
    BY <1>1
  <2>4. QED
    BY <2>1, <2>2, <2>3, Zenon
<1>10. Follows(decoder', linked[0], Drawn(0, 0), recon')
  <2>1. linked[0] = carry[0]
    BY <1>7, <1>8
  <2>2. QED
    BY <1>4, <1>6, <2>1 DEF ChainIs, Follows
<1>11. linked[0] = 0
  BY <1>6, <1>7, <1>8 DEF ChainIs
<1>12. ChainIs(linked)'
  BY <1>2, <1>4, <1>7, <1>8, <1>9, <1>10, <1>11 DEF ChainIs
<1>13. QED
  BY <1>5, <1>12 DEF Chained

\* A child is added to the split.
LEMMA SplitAdded ==
  ASSUME StreamFits, SplitFits, Pictured, SplitPictured, Splitting,
         Len(split.codes) < 4, NEW code, NEW tentative, NEW available, NEW next \in Int,
         Drew(code, Child, 2, split.predictor, next, split.tentative, tentative),
         split' = [split EXCEPT !.codes = Append(@, code),
                                !.tentative = tentative,
                                !.available = available,
                                !.predictor = next],
         UNCHANGED <<recon, predictor, stream>>
  PROVE  SplitPictured'
<1>1. PICK n \in Nat : n = Len(stream) /\ n < BlockCount /\ split.at = BlockAt(n)
  BY PositionIsCorner DEF SplitFits, MoreBlocks, Position
<1>2. PICK k \in 0 .. 3 : k = Len(split.codes)
  <2>1. Len(split.codes) \in Nat
    BY AppendExtends DEF SplitFits
  <2>2. \A i \in Nat : i < 4 => i \in 0 .. 3
    OBVIOUS
  <2>3. Len(split.codes) \in 0 .. 3
    BY <2>1, <2>2
  <2>4. QED
    BY <2>3
<1>3. Len(Append(split.codes, code)) = k + 1
  BY <1>2, AppendExtends DEF SplitFits
<1>4. Child = ChildAt(BlockAt(n), k)
  BY <1>1, <1>2 DEF Child
<1>5. split' = [at |-> split.at, codes |-> Append(split.codes, code),
                tentative |-> tentative, available |-> available, predictor |-> next]
  BY DEF SplitFits
<1>6. /\ Cell(ChildAt(BlockAt(n), k), 2, Drawn(n, k))
      /\ Drawn(n, k + 1) = Drawn(n, k) \union Block(ChildAt(BlockAt(n), k), 2)
      /\ Drawn(n, k) \subseteq Pixels \ Block(ChildAt(BlockAt(n), k), 2)
  BY <1>1, ChildIsCell DEF Cell
<1>7. tentative \in Pictures
  BY DEF Drew
<1>8. \A p \in Drawn(n, k) : tentative[p] = split.tentative[p]
  BY <1>4, <1>6 DEF Drew
<1>9. \A p \in Drawn(n, 0) : tentative[p] = recon[p]
  <2>1. Drawn(n, 0) \subseteq Drawn(n, k)
    BY DrawnGrows
  <2>2. QED
    BY <1>1, <1>8, <2>1 DEF SplitPictured
<1>10. \A p \in Drawn(n, k + 1) : tentative[p] \in Luma
  BY <1>1, <1>2, <1>4, <1>6, <1>8 DEF SplitPictured, Drew
<1>11. ChildrenChain(Append(split.codes, code), BlockAt(n), k + 1, predictor, next, tentative)
  <2>1. /\ IsSequence(split.codes) /\ ChildrenFit(split.codes, BlockAt(n))
    BY <1>1 DEF SplitFits
  <2>2. /\ ChildrenChain(split.codes, BlockAt(n), k, predictor, split.predictor,
                         split.tentative)
        /\ Drew(code, ChildAt(BlockAt(n), k), 2, split.predictor, next,
                split.tentative, tentative)
    BY <1>1, <1>2, <1>4 DEF SplitPictured
  <2>3. QED
    BY <1>1, <1>2, <2>1, <2>2, ChildAdded
<1>12. QED
  BY <1>1, <1>3, <1>5, <1>7, <1>9, <1>10, <1>11 DEF SplitPictured

LEMMA CopyCodes ==
  ASSUME NEW at, NEW child, NEW available,
         NEW code \in Copies4x4(at) \union Copies2x2(at, child, available)
  PROVE  code.op # "data" /\ code.op # "split"
BY DEF Copies4x4, Copies2x2, FromPrevious, Motion

\* Where a child is made.
LEMMA ChildHere ==
  ASSUME StreamFits, SplitFits, Splitting, Len(split.codes) < 4
  PROVE  \E n \in Nat, k \in 0 .. 3 :
           /\ n = Len(stream) /\ n < BlockCount /\ split.at = BlockAt(n)
           /\ k = Len(split.codes) /\ Child = ChildAt(BlockAt(n), k)
           /\ Cell(Child, 2, Drawn(n, k)) /\ Corner(BlockAt(n))
<1>1. PICK n \in Nat : n = Len(stream) /\ n < BlockCount /\ split.at = BlockAt(n)
  BY PositionIsCorner DEF SplitFits, MoreBlocks, Position
<1>2. Len(split.codes) \in Nat
  BY AppendExtends DEF SplitFits
<1>3. \A i \in Nat : i < 4 => i \in 0 .. 3
  OBVIOUS
<1>4. Len(split.codes) \in 0 .. 3
  BY <1>2, <1>3
<1>5. Child = ChildAt(BlockAt(n), Len(split.codes))
  BY <1>1 DEF Child
<1>6. QED
  BY <1>1, <1>4, <1>5, ChildIsCell, BlocksAreCorners

LEMMA NextDraws == IInv /\ DrawInv /\ [Next]_blockVars => DrawInv'
<1> SUFFICES ASSUME IInv, DrawInv, [Next]_blockVars PROVE DrawInv'
  OBVIOUS
<1> USE DEF IInv, DrawInv
<1>1. CASE EncodeCopy
  <2>1. PICK code \in Copies4x4(Position) :
          /\ stream' = Append(stream, code)
          /\ recon' = Copied(code, recon, Position, 4)
    BY <1>1 DEF EncodeCopy
  <2>2. PICK n \in Nat : n = Len(stream) /\ n < BlockCount /\ Position = BlockAt(n)
    BY <1>1, PositionIsCorner DEF EncodeCopy, MoreBlocks, Position
  <2>3. Fits(code, Position, 4) /\ code.op # "data" /\ code.op # "split"
    BY PositionIsCorner, CopiesFit, CopyCodes
  <2>4. Cell(BlockAt(n), 4, Drawn(n, 0)) /\ Drawn(n, 0) \subseteq Pixels \ Block(BlockAt(n), 4)
    BY <2>2, BlockIsCell DEF Cell
  <2>5. Drew(code, Position, 4, predictor, predictor, recon, recon')
    BY <2>1, <2>2, <2>3, <2>4, CopyDraws DEF Pictured
  <2>6. BlockDraws(code, Position, predictor, predictor, recon') /\ FitsBlock(code, Position)
    BY <2>3, <2>5 DEF BlockDraws, Drew, FitsBlock
  <2>7. /\ recon' \in Pictures
        /\ \A p \in Drawn(Len(stream), 0) : recon'[p] = recon[p]
        /\ \A p \in Block(Position, 4) : recon'[p] \in Luma
    BY <2>2, <2>4, <2>5 DEF Drew
  <2>8. Pictured' /\ Chained'
    BY <1>1, <2>1, <2>6, <2>7, BlockAdded DEF EncodeCopy, Pictured
  <2>9. ~Splitting'
    BY <1>1 DEF EncodeCopy, Splitting
  <2>10. QED
    BY <2>8, <2>9 DEF SplitPictured
<1>2. CASE StartSplit
  <2>1. split' = [at |-> Position, codes |-> <<>>, tentative |-> recon,
                  available |-> {}, predictor |-> predictor]
    BY <1>2 DEF StartSplit
  <2>2. UNCHANGED <<recon, predictor, stream, decoder>> /\ Len(<<>>) = 0
    BY <1>2 DEF StartSplit
  <2>3. Pictured' /\ Chained'
    BY <2>2 DEF Pictured, Chained, ChainIs, MoreBlocks
  <2>4. ChildrenChain(<<>>, Position, 0, predictor, predictor, recon)
    <3>1. [i \in Nat |-> predictor] \in [Nat -> Int] /\ [i \in Nat |-> predictor][0] = predictor
      BY DEF Pictured
    <3>2. ChildrenDraw(<<>>, Position, 0, [i \in Nat |-> predictor], recon)
      BY DEF ChildrenDraw
    <3>3. QED
      BY <3>1, <3>2 DEF ChildrenChain
  <2>5. SplitPictured'
    BY <2>1, <2>2, <2>4 DEF SplitPictured, Pictured
  <2>6. QED
    BY <2>3, <2>5
<1>3. CASE EncodeChildCopy
  <2>1. PICK code \in Copies2x2(split.at, Child, split.available) :
          split' = [split EXCEPT !.codes = Append(@, code),
                                 !.tentative = Copied(code, @, Child, 2),
                                 !.available = @ \union Block(Child, 2)]
    BY <1>3 DEF EncodeChildCopy
  <2>2. PICK n \in Nat, k \in 0 .. 3 :
          /\ n = Len(stream) /\ n < BlockCount /\ split.at = BlockAt(n)
          /\ k = Len(split.codes) /\ Child = ChildAt(BlockAt(n), k)
          /\ Cell(Child, 2, Drawn(n, k)) /\ Corner(BlockAt(n))
    BY <1>3, ChildHere DEF EncodeChildCopy
  <2>3. code.op # "data" /\ Splitting
    BY <1>3, <2>1, CopyCodes DEF EncodeChildCopy
  <2>4. Fits(code, Child, 2)
    <3>1. split.available = {q \in Block(BlockAt(n), 4) : Quadrant(q) < k}
      BY <2>2, <2>3 DEF SplitFits
    <3>2. code \in Copies2x2(BlockAt(n), ChildAt(BlockAt(n), k), split.available)
      BY <2>1, <2>2
    <3>3. QED
      BY <2>2, <3>1, <3>2, ChildCopiesFit
  <2> DEFINE tentative == Copied(code, split.tentative, Child, 2)
             available == split.available \union Block(Child, 2)
  <2>5. Drew(code, Child, 2, split.predictor, split.predictor, split.tentative, tentative)
    BY <2>2, <2>3, <2>4, CopyDraws DEF SplitPictured
  <2>6. split' = [split EXCEPT !.codes = Append(@, code), !.tentative = tentative,
                               !.available = available, !.predictor = split.predictor]
    BY <2>1, <2>3 DEF SplitFits
  <2>7. /\ UNCHANGED <<recon, predictor, stream, decoder>> /\ Len(split.codes) < 4
        /\ split.predictor \in Int
    BY <1>3, <2>3 DEF EncodeChildCopy, SplitPictured
  <2> HIDE DEF tentative, available
  <2>8. SplitPictured'
    BY <2>3, <2>5, <2>6, <2>7, SplitAdded
  <2>9. Pictured' /\ Chained'
    BY <2>7 DEF Pictured, Chained, ChainIs, MoreBlocks
  <2>10. QED
    BY <2>8, <2>9
<1>4. CASE EncodeChildData
  <2> DEFINE code == MakeData(Child, 2, split.predictor)
             tentative == Draw(split.tentative, Child, 2, SourceBlock(Child, 2))
             available == split.available \union Block(Child, 2)
             next == Average(SourceBlock(Child, 2), 2)
  <2>1. split' = [split EXCEPT !.codes = Append(@, code), !.tentative = tentative,
                               !.available = available, !.predictor = next]
    BY <1>4 DEF EncodeChildData
  <2>2. PICK n \in Nat, k \in 0 .. 3 :
          /\ n = Len(stream) /\ n < BlockCount /\ split.at = BlockAt(n)
          /\ k = Len(split.codes) /\ Child = ChildAt(BlockAt(n), k)
          /\ Cell(Child, 2, Drawn(n, k)) /\ Corner(BlockAt(n))
    BY <1>4, ChildHere DEF EncodeChildData
  <2>3. /\ UNCHANGED <<recon, predictor, stream, decoder>>
        /\ Splitting /\ Len(split.codes) < 4
    BY <1>4 DEF EncodeChildData
  <2>4. Drew(code, Child, 2, split.predictor, next, split.tentative, tentative)
    BY <2>2, <2>3, DataDraws DEF SplitPictured
  <2>5. next \in Int
    BY <2>2, SourceOfCell
  <2> HIDE DEF code, tentative, available, next
  <2>6. SplitPictured'
    BY <2>1, <2>3, <2>4, <2>5, SplitAdded
  <2>7. Pictured' /\ Chained'
    BY <2>3 DEF Pictured, Chained, ChainIs, MoreBlocks
  <2>8. QED
    BY <2>6, <2>7
<1>5. CASE KeepSplit
  <2> DEFINE code == [op |-> "split", children |-> split.codes]
  <2>1. /\ Splitting /\ Len(split.codes) = 4
        /\ stream' = Append(stream, code) /\ recon' = split.tentative
        /\ predictor' = split.predictor /\ split' = NoSplit /\ decoder' = decoder
    BY <1>5 DEF KeepSplit
  <2>2. PICK n \in Nat : n = Len(stream) /\ n < BlockCount /\ Position = BlockAt(n)
                          /\ split.at = BlockAt(n) /\ MoreBlocks
    BY <2>1, PositionIsCorner DEF SplitFits, MoreBlocks, Position
  <2>3. code.op = "split" /\ code.children = split.codes
    OBVIOUS
  <2> HIDE DEF code
  <2>4. FitsBlock(code, Position)
    BY <2>1, <2>2, <2>3 DEF FitsBlock, SplitFits
  <2>5. BlockDraws(code, Position, predictor, predictor', recon')
    BY <2>1, <2>2, <2>3 DEF BlockDraws, SplitPictured
  <2>6. Drawn(n, 4) = Drawn(n, 0) \union Block(Position, 4)
    BY <2>2, BlockIsCell
  <2>7. /\ recon' \in Pictures /\ predictor' \in Int
        /\ \A p \in Drawn(Len(stream), 0) : recon'[p] = recon[p]
        /\ \A p \in Block(Position, 4) : recon'[p] \in Luma
    BY <2>1, <2>2, <2>6 DEF SplitPictured
  <2>8. Pictured' /\ Chained'
    BY <2>1, <2>2, <2>4, <2>5, <2>7, BlockAdded
  <2>9. ~Splitting'
    BY <2>1 DEF Splitting
  <2>10. QED
    BY <2>8, <2>9 DEF SplitPictured
<1>6. CASE KeepData
  <2> DEFINE code == MakeData(Position, 4, predictor)
             next == Average(SourceBlock(Position, 4), 4)
  <2>1. /\ stream' = Append(stream, code) /\ predictor' = next
        /\ recon' = Draw(recon, Position, 4, SourceBlock(Position, 4))
        /\ split' = NoSplit /\ decoder' = decoder /\ MoreBlocks
    BY <1>6 DEF KeepData
  <2>2. PICK n \in Nat : n = Len(stream) /\ n < BlockCount /\ Position = BlockAt(n)
    BY <2>1, PositionIsCorner DEF MoreBlocks, Position
  <2>3. FitsBlock(code, Position) /\ code.op = "data"
    BY DataFits DEF FitsBlock
  <2>4. Cell(BlockAt(n), 4, Drawn(n, 0)) /\ Drawn(n, 0) \subseteq Pixels \ Block(BlockAt(n), 4)
    BY <2>2, BlockIsCell DEF Cell
  <2>5. Drew(code, Position, 4, predictor, predictor', recon, recon')
    BY <2>1, <2>2, <2>4, DataDraws DEF Pictured
  <2>6. predictor' \in Int
    BY <2>1, <2>2, <2>4, SourceOfCell
  <2> HIDE DEF code, next
  <2>7. BlockDraws(code, Position, predictor, predictor', recon')
    BY <2>3, <2>5 DEF BlockDraws, Drew
  <2>8. /\ recon' \in Pictures
        /\ \A p \in Drawn(Len(stream), 0) : recon'[p] = recon[p]
        /\ \A p \in Block(Position, 4) : recon'[p] \in Luma
    BY <2>2, <2>4, <2>5 DEF Drew
  <2>9. Pictured' /\ Chained'
    BY <2>1, <2>3, <2>6, <2>7, <2>8, BlockAdded
  <2>10. ~Splitting'
    BY <2>1 DEF Splitting
  <2>11. QED
    BY <2>9, <2>10 DEF SplitPictured
<1>7. CASE DecodeBlock
  <2> DEFINE next == [decoder EXCEPT !.position = @ + 1]
             code == stream[decoder.position + 1]
             at   == BlockAt(decoder.position)
  <2>1. PICK n \in Nat : n = decoder.position /\ n < BlockCount
    BY <1>7 DEF DecodeBlock, DecoderFits
  <2>2. /\ Len(stream) \in Nat /\ ~(Len(stream) < BlockCount) /\ Len(stream) <= BlockCount
        /\ UNCHANGED <<recon, predictor, stream, split>>
    BY <1>7, AppendExtends DEF DecodeBlock, MoreBlocks, StreamFits, Pictured
  <2>3. Len(stream) = BlockCount /\ BlockCount \in Nat
    BY <2>2, Grid
  <2>4. FitsBlock(code, BlockAt(n))
    <3>1. n + 1 \in 1 .. Len(stream) /\ (n + 1) - 1 = n
      BY <2>1, <2>3
    <3>2. QED
      BY <2>1, <3>1 DEF StreamFits
  <2>5. PICK carry \in [Nat -> Int] : ChainIs(carry)
    BY DEF Chained
  <2>6. BlockDraws(code, BlockAt(n), carry[n], carry[n + 1], recon)
    <3>1. n \in 0 .. Len(stream) - 1
      BY <2>1, <2>3
    <3>2. QED
      BY <2>1, <2>5, <3>1 DEF ChainIs
  <2>7. \A p \in Drawn(n + 1, 0) : recon[p] \in Luma
    <3>1. n + 1 \in Nat /\ BlockCount \in Nat /\ n + 1 <= BlockCount
      BY <2>1, <2>3
    <3>2. Drawn(n + 1, 0) \subseteq Drawn(BlockCount, 0)
      BY <3>1, DrawnGrows
    <3>3. QED
      BY <2>3, <3>2 DEF Pictured
  <2>8. /\ Follows(next, next.predictor, Drawn(n, 0), recon)
        /\ next.predictor = carry[n] /\ next.position = n + 1
    BY <2>1, <2>5 DEF ChainIs, Follows, Sound
  <2>9. decoder' = IF code.op = "split" THEN DecodeSplit(next, code.children, BlockAt(n))
                   ELSE DecodeCode(next, code, BlockAt(n), 4)
    BY <1>7, <2>1 DEF DecodeBlock
  <2>10. Follows(decoder', carry[n + 1], Drawn(n + 1, 0), recon) /\ decoder'.position = n + 1
    <3> HIDE DEF next, code
    <3>1. carry[n + 1] \in Int /\ recon \in Pictures
      BY DEF Pictured
    <3>2. Follows(next, carry[n], Drawn(n, 0), recon)
      BY <2>8
    <3>3. Follows(decoder', carry[n + 1], Drawn(n + 1, 0), recon)
          /\ decoder'.position = next.position
      BY <2>1, <2>4, <2>6, <2>7, <2>9, <3>1, <3>2, BlockDecodes
    <3>4. QED
      BY <2>8, <3>3
  <2> HIDE DEF next, code, at
  <2>11. Pictured'
    BY <2>1, <2>2, <2>3, <2>10 DEF Pictured, MoreBlocks
  <2>12. ChainIs(carry)'
    BY <2>2, <2>5, <2>10 DEF ChainIs
  <2>13. SplitPictured'
    BY <2>2 DEF SplitPictured, Splitting
  <2>14. QED
    BY <2>11, <2>12, <2>13 DEF Chained
<1>8. CASE UNCHANGED blockVars
  BY <1>8 DEF blockVars, Pictured, Chained, ChainIs, SplitPictured,
              Splitting, MoreBlocks
<1>9. QED
  BY <1>1, <1>2, <1>3, <1>4, <1>5, <1>6, <1>7, <1>8 DEF Next

\* Whatever the encoder chose, block by block and child by child, the decoder
\* ends with the picture the encoder kept and with its predictor, and nothing
\* of an earlier attempt is left in either (mb_encode.c:880-1020,
\* mb_frame_verify.c:173).
THEOREM DecoderReconstructs == Spec => []DecoderAgrees
<1>1. IInv /\ DrawInv => DecoderAgrees
  <2> SUFFICES ASSUME IInv, DrawInv, decoder.position = BlockCount
               PROVE  /\ decoder.picture = recon
                      /\ decoder.predictor = predictor
                      /\ Stale \notin {recon[p] : p \in Pixels}
    BY DEF DecoderAgrees
  <2>1. PICK carry \in [Nat -> Int] : ChainIs(carry)
    BY DEF DrawInv, Chained
  <2>2. Len(stream) = BlockCount
    <3>1. Len(stream) \in Nat /\ BlockCount \in Nat
      BY AppendExtends, Grid DEF IInv, StreamFits
    <3>2. QED
      BY <3>1 DEF DrawInv, Pictured
  <2>3. Drawn(BlockCount, 0) = Pixels
    BY NothingAndEverything
  <2>4. /\ decoder.picture \in Pictures /\ recon \in Pictures
        /\ \A p \in Pixels : decoder.picture[p] = recon[p]
    BY <2>1, <2>3 DEF DrawInv, Pictured, ChainIs, Follows
  <2>5. decoder.picture = recon
    BY <2>4 DEF Pictures
  <2>6. decoder.predictor = predictor
    BY <2>1, <2>2 DEF ChainIs, Follows
  <2>7. \A p \in Pixels : recon[p] \in Luma
    BY <2>2, <2>3 DEF DrawInv, Pictured
  <2>8. Stale \notin Luma
    BY PictureAssumption DEF Stale, Luma
  <2>9. QED
    BY <2>5, <2>6, <2>7, <2>8
<1>2. QED
  BY <1>1, InitFits, NextFits, InitDraws, NextDraws, PTL DEF Spec

=============================================================================
