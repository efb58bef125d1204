----------------------------- MODULE MotionCodes -----------------------------
(***************************************************************************)
(* The motion vectors of the Moving Blocks family and their codes          *)
(* (mb_motion.c), and the sizes the search reckons with (mb_encode.c).     *)
(*                                                                         *)
(* A vector is [dx, dy, spatial].  Temporal vectors are numbered in the    *)
(* order the search tries them; the writer turns a vector back into a      *)
(* number by arithmetic, the reader turns the number into a vector by      *)
(* enumeration.  Types 17, 19 and 20 share one code, type 7 has its own.   *)
(***************************************************************************)
EXTENDS BitStream

Vector(dx, dy) == [dx |-> dx, dy |-> dy, spatial |-> FALSE]
Stationary == Vector(0, 0)
Magnitude(n) == IF n < 0 THEN -n ELSE n
Radius(v) == LET x == Magnitude(v.dx) y == Magnitude(v.dy) IN IF x > y THEN x ELSE y

SpatialOffsets(size) ==
  IF size = 4
  THEN <<<<-2, -4>>, <<-1, -4>>, <<0, -4>>, <<1, -4>>, <<2, -4>>,
         <<-4, 0>>, <<-4, -1>>, <<-4, -2>>>>
  ELSE <<<<-2, -2>>, <<-1, -2>>, <<0, -2>>, <<1, -2>>, <<2, -2>>,
         <<-2, -1>>, <<-2, 0>>, <<-3, 0>>>>
SpatialAt(size, index) ==
  LET o == SpatialOffsets(size)[index + 1] IN [dx |-> o[1], dy |-> o[2], spatial |-> TRUE]
SpatialIndex(size, v) == CHOOSE i \in 0 .. 7 : SpatialAt(size, i) = v

\* A ring: the top edge, then left and right alternately, then the bottom.
Side(r) == 2 * r + 1
RingSize(r) == 8 * r
RingVector(r, i) ==
  LET edge == i - Side(r)
      bottom == edge - 2 * (2 * r - 1)
  IN  CASE edge < 0 -> Vector(i - r, -r)
        [] edge >= 0 /\ bottom < 0 ->
             Vector(IF edge % 2 = 0 THEN -r ELSE r, edge \div 2 - r + 1)
        [] bottom >= 0 -> Vector(bottom - r, r)
RingIndex(r, v) ==
  CASE v.dy = -r -> v.dx + r
    [] v.dy = r  -> Side(r) + 2 * (2 * r - 1) + v.dx + r
    [] OTHER     -> Side(r) + 2 * (v.dy + r - 1) + (IF v.dx = r THEN 1 ELSE 0)

\* The far family: the square of radius 8 in raster order, without the square
\* of radius 3 in its middle.  The reader counts the cells it passes.
FarSize == 240
SquareCell(n) == Vector((n % 17) - 8, (n \div 17) - 8)
FarBefore[n \in 0 .. 289] ==
  IF n = 0 THEN 0 ELSE FarBefore[n - 1] + (IF Radius(SquareCell(n - 1)) > 3 THEN 1 ELSE 0)
FarCells ==
  [i \in 0 .. FarSize - 1 |->
     SquareCell(CHOOSE n \in 0 .. 288 : Radius(SquareCell(n)) > 3 /\ FarBefore[n] = i)]
FarVector(i) == FarCells[i]

FarIndex(v) ==
  LET rows == IF v.dy + 3 < 0 THEN 0 ELSE IF v.dy + 3 > 7 THEN 7 ELSE v.dy + 3
      row  == IF v.dy \in -3 .. 3 /\ v.dx >= 4 THEN 7 ELSE 0
  IN  17 * (v.dy + 8) + v.dx + 8 - (7 * rows + row)

-----------------------------------------------------------------------------
(* The order in which the searches try the temporal vectors.               *)

TemporalAt7(i) ==
  CASE i < 8         -> RingVector(1, i)
    [] i \in 8 .. 23 -> RingVector(2, i - 8)
    [] i \in 24 .. 55 -> RingVector(4, i - 24)
    [] i >= 56       -> RingVector(3, i - 56)

TemporalAt19(i) ==
  CASE i < 8         -> RingVector(1, i)
    [] i \in 8 .. 23 -> RingVector(2, i - 8)
    [] i \in 24 .. 47 -> RingVector(3, i - 24)
    [] i >= 48       -> FarVector(i - 48)

TemporalAt(type, i) == IF type = 7 THEN TemporalAt7(i) ELSE TemporalAt19(i)
TemporalCount(type) == IF type = 7 THEN 80 ELSE 288

-----------------------------------------------------------------------------
(* The codes: a family of two bits and an index.                           *)

Code(family, index, bits) == <<Field(family, 2), Field(index, bits)>>

WriteFormat7(size, v) ==
  CASE v.spatial                    -> Code(3, 56 + SpatialIndex(size, v), 6)
    [] ~v.spatial /\ Radius(v) = 0  -> <<Field(0, 2)>>
    [] ~v.spatial /\ Radius(v) = 1  -> Code(2, RingIndex(1, v), 3)
    [] ~v.spatial /\ Radius(v) = 2  -> Code(1, RingIndex(2, v), 4)
    [] ~v.spatial /\ Radius(v) = 3  -> Code(3, 32 + RingIndex(3, v), 6)
    [] ~v.spatial /\ Radius(v) = 4  -> Code(3, RingIndex(4, v), 6)

WriteFormat19(size, v) ==
  CASE v.spatial                    -> Code(1, SpatialIndex(size, v), 5)
    [] ~v.spatial /\ Radius(v) = 1  -> Code(0, RingIndex(1, v), 3)
    [] ~v.spatial /\ Radius(v) = 2  -> Code(2, RingIndex(2, v), 4)
    [] ~v.spatial /\ Radius(v) = 3  -> Code(1, 8 + RingIndex(3, v), 5)
    [] ~v.spatial /\ Radius(v) >= 4 -> Code(3, FarIndex(v), 8)

WriteMotion(type, size, v) ==
  IF type = 7 THEN WriteFormat7(size, v) ELSE WriteFormat19(size, v)

\* How many bits follow the family, and the vector they mean.
IndexBits(type, family) ==
  IF type = 7 THEN <<0, 4, 3, 6>>[family + 1] ELSE <<3, 5, 4, 8>>[family + 1]

VectorOf7(size, family, index) ==
  CASE family = 0 -> Stationary
    [] family = 2 -> RingVector(1, index)
    [] family = 1 -> RingVector(2, index)
    [] family = 3 /\ index < 32         -> RingVector(4, index)
    [] family = 3 /\ index \in 32 .. 55 -> RingVector(3, index - 32)
    [] family = 3 /\ index >= 56        -> SpatialAt(size, index - 56)

VectorOf19(size, family, index) ==
  CASE family = 0 -> RingVector(1, index)
    [] family = 2 -> RingVector(2, index)
    [] family = 1 /\ index < 8  -> SpatialAt(size, index)
    [] family = 1 /\ index >= 8 -> RingVector(3, index - 8)
    [] family = 3 /\ index < FarSize -> FarVector(index)

\* An index beyond the far family, or a code cut short, is malformed.
ReadIndex(type, size, family, read) ==
  LET index == ValueOf(read.field)
  IN  IF read.reader.ok /\ (type # 7 /\ family = 3 => index < FarSize)
      THEN [reader |-> read.reader,
            vector |-> IF type = 7 THEN VectorOf7(size, family, index)
                       ELSE VectorOf19(size, family, index)]
      ELSE [reader |-> [read.reader EXCEPT !.ok = FALSE], vector |-> Stationary]

ReadFamily(type, size, read) ==
  LET family == ValueOf(read.field)
  IN  ReadIndex(type, size, family, Read(read.reader, IndexBits(type, family)))

ReadMotion(type, size, reader) == ReadFamily(type, size, Read(reader, 2))

-----------------------------------------------------------------------------
(* The size of a copy, opcode included, as the search reckons it.          *)

\* Seeded fault: radius 4 is reckoned like radius 3.
BodyBitsNear(type, v) ==
  CASE v.spatial -> IF type = 7 THEN 8 ELSE 7
    [] ~v.spatial /\ type = 7  -> <<2, 5, 6, 8, 8>>[Radius(v) + 1]
    [] ~v.spatial /\ type # 7  -> IF Radius(v) <= 1 THEN 5
                                  ELSE IF Radius(v) = 2 THEN 6
                                  ELSE IF Radius(v) <= 4 THEN 7 ELSE 10

BodyBits(type, v) ==
  CASE v.spatial -> IF type = 7 THEN 8 ELSE 7
    [] ~v.spatial /\ type = 7  -> <<2, 5, 6, 8, 8>>[Radius(v) + 1]
    [] ~v.spatial /\ type # 7  -> IF Radius(v) <= 1 THEN 5
                                  ELSE IF Radius(v) = 2 THEN 6
                                  ELSE IF Radius(v) = 3 THEN 7 ELSE 10
MotionBits(type, size, v) == BodyBits(type, v) + (IF size = 4 THEN 2 ELSE 1)
=============================================================================
