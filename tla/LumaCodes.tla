------------------------------ MODULE LumaCodes ------------------------------
(***************************************************************************)
(* The data blocks of the Moving Blocks family as bits: the header with    *)
(* the chroma, the Huffman codes of the luma residuals (types 17, 19, 20)  *)
(* and the literal luma of type 7.                                         *)
(*                                                                         *)
(* Type 20 has two variants, 204 for the old module (chroma as it is) and  *)
(* 205 for the new one (chroma as a delta against the last data block).    *)
(* A data block is [op, luma, u, v], luma a function of the offsets.       *)
(***************************************************************************)
EXTENDS BitStream, LumaPrediction

AllTypes == {7, 17, 19, 204, 205}
Levels(type) == IF type \in {7, 17} THEN 32 ELSE 64
ChromaBits(type) == IF type \in {204, 205} THEN 6 ELSE 5

-----------------------------------------------------------------------------
(* The Huffman tables: the code and its length for each residual.          *)

LumaCodes32 ==
  <<<<2, 2>>, <<7, 3>>, <<4, 3>>, <<8, 4>>, <<29, 5>>, <<59, 6>>, <<53, 6>>,
    <<91, 7>>, <<101, 7>>, <<112, 7>>, <<80, 7>>, <<237, 8>>, <<165, 8>>, <<197, 8>>,
    <<144, 8>>, <<411, 9>>, <<365, 9>>, <<109, 9>>, <<155, 9>>, <<16, 8>>,
    <<69, 8>>, <<37, 8>>, <<27, 8>>, <<48, 7>>, <<5, 7>>, <<45, 7>>,
    <<21, 6>>, <<13, 6>>, <<0, 5>>, <<11, 5>>, <<3, 4>>, <<1, 3>>>>
LumaCodes64 ==
  <<<<2, 2>>, <<7, 3>>, <<13, 4>>, <<25, 5>>, <<28, 5>>, <<24, 5>>, <<49, 6>>,
    <<52, 6>>, <<48, 6>>, <<97, 7>>, <<108, 7>>, <<80, 7>>, <<193, 8>>,
    <<204, 8>>, <<232, 8>>, <<417, 9>>, <<396, 9>>, <<468, 9>>, <<404, 9>>,
    <<400, 9>>, <<673, 10>>, <<833, 10>>, <<844, 10>>, <<660, 10>>,
    <<788, 10>>, <<1345, 11>>, <<321, 11>>, <<1676, 11>>, <<1356, 11>>,
    <<332, 11>>, <<1172, 11>>, <<1556, 11>>, <<1680, 11>>, <<656, 11>>,
    <<1808, 11>>, <<784, 11>>, <<1044, 11>>, <<20, 11>>, <<532, 11>>,
    <<148, 11>>, <<652, 11>>, <<144, 10>>, <<272, 10>>, <<276, 10>>,
    <<140, 10>>, <<161, 10>>, <<16, 9>>, <<212, 9>>, <<76, 9>>, <<65, 9>>,
    <<104, 8>>, <<84, 8>>, <<12, 8>>, <<33, 8>>, <<40, 7>>, <<44, 7>>,
    <<1, 7>>, <<8, 6>>, <<17, 6>>, <<0, 5>>, <<4, 5>>, <<9, 5>>, <<5, 4>>,
    <<3, 3>>>>

HuffmanTable(type) == IF type = 17 THEN LumaCodes32 ELSE LumaCodes64
LongestCode(type) == IF type = 17 THEN 9 ELSE 11
\* The symbol of each code, which the reader finds by searching the table.
SymbolsOf(table) == [code \in Range(table) |-> (CHOOSE i \in DOMAIN table : table[i] = code) - 1]
LumaSymbols32 == SymbolsOf(LumaCodes32)
LumaSymbols64 == SymbolsOf(LumaCodes64)
HuffmanSymbols(type) == IF type = 17 THEN LumaSymbols32 ELSE LumaSymbols64

HuffmanField(type, symbol) ==
  LET code == HuffmanTable(type)[symbol + 1] IN Field(code[1], code[2])

\* The check of mb_huffman_validate, which the tests make and the coders do not.
IsValidTable(table, longest) ==
  /\ \A i \in DOMAIN table : table[i][2] \in 1 .. longest /\ table[i][1] < 2 ^ table[i][2]
  /\ \A i, j \in DOMAIN table :
       i # j /\ table[i][2] <= table[j][2] => table[j][1] % 2 ^ table[i][2] # table[i][1]
ASSUME TablesAreValid == IsValidTable(LumaCodes32, 9) /\ IsValidTable(LumaCodes64, 11)

HuffmanWrite(writer, type, symbol) == Write(writer, HuffmanField(type, symbol))

NoSymbol == -1
SymbolOf(symbols, code) == IF code \in DOMAIN symbols THEN symbols[code] ELSE NoSymbol

\* The bits so far and one more, and the symbol if they are a code.
WithBit(type, bits, read) ==
  LET now == bits \o read.field
  IN  [reader |-> read.reader, bits |-> now,
       symbol |-> IF read.reader.ok
                  THEN SymbolOf(HuffmanSymbols(type), <<ValueOf(now), Len(now)>>)
                  ELSE NoSymbol]

\* No code at all is malformed.
IfFound(last) ==
  [symbol |-> last.symbol, reader |-> [last.reader EXCEPT !.ok = @ /\ last.symbol # NoSymbol]]

\* One bit more until the bits are a code, at most as many as the longest has.
\* After an error the caller reads no more.
HuffmanRead(type, reader) ==
  LET Extend(state, length) ==
        IF state.symbol # NoSymbol \/ ~state.reader.ok THEN state
        ELSE WithBit(type, state.bits, Read(state.reader, 1))
  IN  IF ~reader.ok THEN [symbol |-> NoSymbol, reader |-> reader]
      ELSE IfFound(FoldLeft(Extend, [reader |-> reader, bits |-> <<>>, symbol |-> NoSymbol],
                            [i \in 1 .. LongestCode(type) |-> i]))

-----------------------------------------------------------------------------
(* Delta-coded chroma (the new type 20).                                   *)

DeltaExpand == <<-32, -26, -20, -14, -8, -4, -2, -1, 0, 1, 2, 4, 8, 14, 20, 26>>
Moved(carried, code) == (carried + DeltaExpand[code + 1]) % 64
Signed6(value) == IF value < 32 THEN value ELSE value - 64
Gap(a, b) == LET d == Signed6(a) - Signed6(b) IN IF d < 0 THEN -d ELSE d

\* Seeded fault: the error is compared with its sign.
ChooseDeltaSigned(target, carried) ==
  CHOOSE code \in 0 .. 15 :
    \A other \in 0 .. 15 : Signed6(Moved(carried, code)) <= Signed6(Moved(carried, other))

\* The first of the codes that come closest to the target.
ChooseDelta(target, carried) ==
  CHOOSE code \in 0 .. 15 :
    \A other \in 0 .. 15 :
      LET mine == Gap(Moved(carried, code), target)
          its  == Gap(Moved(carried, other), target)
      IN  mine < its \/ (mine = its /\ code <= other)

-----------------------------------------------------------------------------
(* Whole data blocks.  A predictor is [luma, u, v]; zero at a frame's start. *)

NewPredictor == [luma |-> 0, u |-> 0, v |-> 0]
Data(luma, u, v) == [op |-> "data", luma |-> luma, u |-> u, v |-> v]
DataOpcode(size) == IF size = 4 THEN 1 ELSE 2
Raster(size) == [i \in 1 .. size * size |-> <<(i - 1) % size, (i - 1) \div size>>]

\* The values in the header's two chroma fields, and how long each is.
ChromaFieldBits(type) == IF type = 205 THEN 4 ELSE ChromaBits(type)

\* What the header says of the chroma, and the chroma a decoder gets from it.
ChromaField(type, target, carried) == IF type = 205 THEN ChooseDelta(target, carried) ELSE target
ChromaOf(type, field, carried) == IF type = 205 THEN Moved(carried, field) ELSE field

\* The predictor after a block.
Carried(type, predictor, block, luma, size) ==
  IF type = 7 THEN predictor
  ELSE [luma |-> Average(luma, size),
        u |-> IF type = 205 THEN ChromaOf(205, ChooseDelta(block.u, predictor.u), predictor.u) ELSE 0,
        v |-> IF type = 205 THEN ChromaOf(205, ChooseDelta(block.v, predictor.v), predictor.v) ELSE 0]

EncodeHeader(writer, type, size, predictor, block) ==
  Write(writer, Field(DataOpcode(size), 2)
                \o Field(ChromaField(type, block.u, predictor.u), ChromaFieldBits(type))
                \o Field(ChromaField(type, block.v, predictor.v), ChromaFieldBits(type)))

EncodeResiduals(writer, type, size, predictor, block) ==
  LET residuals == Residuals(block.luma, size, predictor.luma, Levels(type))
  IN  FoldLeft(LAMBDA w, o : HuffmanWrite(w, type, residuals[o]), writer, Raster(size))

EncodeLiteral(writer, size, block) ==
  LET luma == [i \in 1 .. size * size |-> Field(block.luma[Raster(size)[i]], 5)]
  IN  WriteAll(writer, <<Field(1, 1)>> \o luma \o <<Field(block.u, 5), Field(block.v, 5)>>)

EncodeData(writer, type, size, predictor, block) ==
  IF type = 7 THEN EncodeLiteral(writer, size, block)
  ELSE EncodeResiduals(EncodeHeader(writer, type, size, predictor, block),
                       type, size, predictor, block)

\* The block as a decoder will draw it.
Reconstructed(type, predictor, block) ==
  LET Settle(target, carried) == ChromaOf(type, ChromaField(type, target, carried), carried)
  IN  [block EXCEPT !.u = Settle(block.u, predictor.u), !.v = Settle(block.v, predictor.v)]

\* Several fields of n bits each, as values.
ReadFields(reader, count, n) ==
  LET Add(values, read) == [reader |-> read.reader, values |-> Append(values, ValueOf(read.field))]
      Next(state, i) == Add(state.values, Read(state.reader, n))
  IN  FoldLeft(Next, [reader |-> reader, values |-> <<>>], [i \in 1 .. count |-> i])

\* A malformed block leaves the reader not ok; what else is returned is then
\* never looked at.
DecodedData(type, size, reader, predictor, luma, u, v) ==
  [reader |-> reader, code |-> Data(luma, u, v),
   predictor |-> IF type = 7 THEN predictor
                 ELSE [luma |-> Average(luma, size),
                       u |-> IF type = 205 THEN u ELSE 0,
                       v |-> IF type = 205 THEN v ELSE 0]]

\* Values in raster order as a block.
AsBlock(values, size) == [o \in Span(size) |-> values[size * o[2] + o[1] + 1]]

DecodeLiteral(reader, size, predictor) ==
  LET n == size * size
      Block(all) == DecodedData(7, size, all.reader, predictor, AsBlock(all.values, size),
                                all.values[n + 1], all.values[n + 2])
  IN  Block(ReadFields(reader, n + 2, 5))

DecodeResiduals(reader, type, size, predictor, u, v) ==
  LET Add(values, read) == [reader |-> read.reader, values |-> Append(values, read.symbol)]
      Next(state, o) == Add(state.values, HuffmanRead(type, state.reader))
      Block(all) ==
        DecodedData(type, size, all.reader, predictor,
                    DecodedLuma(AsBlock(all.values, size), size, predictor.luma, Levels(type)),
                    u, v)
  IN  Block(FoldLeft(Next, [reader |-> reader, values |-> <<>>], Raster(size)))

\* What follows the header, when it is one.
DecodeBody(header, type, size, predictor) ==
  LET n      == ChromaFieldBits(type)
      ok     == header.reader.ok /\ ValueOf(SubSeq(header.field, 1, 2)) = DataOpcode(size)
      u      == ValueOf(SubSeq(header.field, 3, 2 + n))
      v      == ValueOf(SubSeq(header.field, 3 + n, 2 + 2 * n))
  IN  DecodeResiduals([header.reader EXCEPT !.ok = ok], type, size, predictor,
                      IF ok THEN ChromaOf(type, u, predictor.u) ELSE 0,
                      IF ok THEN ChromaOf(type, v, predictor.v) ELSE 0)

\* The opcode is part of the header and read again with it.
DecodeData(reader, type, size, predictor) ==
  DecodeBody(Read(reader, 2 + 2 * ChromaFieldBits(type)), type, size, predictor)
=============================================================================
