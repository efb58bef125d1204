------------------------------ MODULE Ae7Layout ------------------------------
(***************************************************************************)
(* The layout of a movie file: how replay_ae7_write settles the offsets in *)
(* the header and the catalogue, and assembles the file, and whether       *)
(* replay_ae7_parse finds everything where they say.                       *)
(*                                                                         *)
(* Text is represented by its length.  The header's length depends on the  *)
(* offsets printed in it and the offsets on its length; the catalogue's    *)
(* length depends on the chunk offsets and these on where it ends.         *)
(***************************************************************************)
EXTENDS Integers, Sequences, SequencesExt

CONSTANTS
  Base,         \* numerals are written in this base: 10
  HeaderText,   \* bytes of the header that no layout decision changes
  Sprites,      \* values of sprite_size
  KeySizes,     \* values of key_size, 0 when no keys are written
  Movies,       \* the chunks of a movie: video_bytes and sound_bytes per track
  Masks,        \* values of align_mask
  HeaderRounds, \* 8
  CatalogueRounds, \* 64
  LineGuess     \* bytes reserved for a catalogue line at first: 30

ASSUME LayoutAssumption ==
  /\ Base \in Nat \ {0, 1}
  /\ HeaderText \in Nat
  /\ Sprites \subseteq Nat /\ KeySizes \subseteq Nat /\ Masks \subseteq Nat
  /\ {HeaderRounds, CatalogueRounds, LineGuess} \subseteq Nat \ {0}
  /\ Movies \subseteq Seq([video : Nat, sound : Seq(Nat)]) \ {<<>>}

VARIABLES
  sprite, keySize, movie, mask,  \* the input
  headerLen,    \* header_len, the length the offsets are computed from
  header,       \* the header rendered last: its offsets and length
  firstData,    \* first_data
  offsets,      \* file_offset of the chunks
  catalogue,    \* length of the catalogue text
  round,        \* iterations of the loop so far
  written,      \* chunks in the file
  placed,       \* where each of them really starts
  size,         \* out.size
  pc            \* "header", "catalogue", "assemble", "written" or "failed"

inputVars == <<sprite, keySize, movie, mask>>
vars == <<inputVars, headerLen, header, firstData, offsets, catalogue, round,
          written, placed, size, pc>>

\* Decimal digits of a number.
Digits(n) == CHOOSE d \in 1 .. 12 : n < Base^d /\ (d = 1 \/ n >= Base^(d - 1))

SumOf(sizes) == FoldSeq(LAMBDA a, b : a + b, 0, sizes)

Bytes(chunk) == chunk.video + SumOf(chunk.sound)

\* mask is one less than a power of two.
AlignUp(n) == ((n + mask) \div (mask + 1)) * (mask + 1)

Init ==
  /\ sprite \in Sprites /\ keySize \in KeySizes
  /\ movie \in Movies /\ mask \in Masks
  /\ headerLen = 0
  /\ header = [length |-> 0, catalogueOffset |-> 0, spriteOffset |-> 0,
               keysOffset |-> -1]
  /\ firstData = 0 /\ offsets = <<>> /\ catalogue = 0
  /\ round = 0 /\ written = 0 /\ placed = <<>> /\ size = 0
  /\ pc = "header"

\* One key for every chunk but the first.
KeyCount == IF keySize # 0 THEN Len(movie) - 1 ELSE 0

\* The even and odd chunk sizes: the largest chunk of that parity, and a
\* guard byte.
Parity(p) == {i \in DOMAIN movie : i % 2 = p}

GuardedSize(p) ==
  LET sizes == {Bytes(movie[i]) : i \in Parity(p)}
      most  == IF sizes = {} THEN 0 ELSE CHOOSE n \in sizes : \A m \in sizes : m <= n
  IN  IF most = 0 THEN 0 ELSE most + 1

EvenSize == GuardedSize(1)
OddSize == GuardedSize(0)

\* "-1 (no keys)" against "<n> offset to keys".
KeysLine(offset) == IF offset < 0 THEN 12 ELSE Digits(offset) + 15

\* The header rendered with the offsets that follow from its length.
Render(length) ==
  LET spriteOffset    == IF sprite # 0 THEN length ELSE 0
      catalogueOffset == length + sprite + KeyCount * keySize
      keysOffset      == IF KeyCount # 0 THEN length + sprite ELSE -1
  IN  [catalogueOffset |-> catalogueOffset,
       spriteOffset    |-> spriteOffset,
       keysOffset      |-> keysOffset,
       length          |-> HeaderText + Digits(EvenSize) + Digits(OddSize)
                             + Digits(catalogueOffset) + Digits(spriteOffset)
                             + Digits(sprite) + KeysLine(keysOffset)]

\* Seeded fault: the header is rendered once more, not until it agrees.
HeaderRoundsOnce == 2

HeaderLimit == HeaderRounds

EnterCatalogue(rendered) ==
  /\ pc' = "catalogue"
  /\ round' = 0
  /\ firstData' = AlignUp(rendered.catalogueOffset + Len(movie) * LineGuess)

RenderHeader ==
  /\ pc = "header"
  /\ header' = Render(headerLen)
  /\ IF header'.length = headerLen
     THEN UNCHANGED headerLen /\ EnterCatalogue(header')
     ELSE /\ headerLen' = header'.length
          /\ IF round + 1 = HeaderLimit
             THEN EnterCatalogue(header')
             ELSE round' = round + 1 /\ UNCHANGED <<pc, firstData>>
  /\ UNCHANGED <<inputVars, offsets, catalogue, written, placed, size>>

ChunkOffsets ==
  LET f[i \in DOMAIN movie] ==
        IF i = 1 THEN firstData ELSE AlignUp(f[i - 1] + Bytes(movie[i - 1]))
  IN  f

\* "<offset>,<video>;<sound>;<sound>", with ";0" for a movie without sound.
CatalogueLine(offset, chunk) ==
  LET fields == IF chunk.sound = <<>> THEN <<2>>
                ELSE [t \in DOMAIN chunk.sound |-> 1 + Digits(chunk.sound[t])]
  IN  Digits(offset) + 1 + Digits(chunk.video) + SumOf(fields) + 1

\* Seeded fault: the room is compared with the catalogue's own offset left out.
FitsWithout(length) == length <= firstData

Fits(length) == header.catalogueOffset + length <= firstData

\* build_catalogue, until the text ends before the first chunk or the loop
\* has run out: the offsets then stay those of the last text.
BuildCatalogue ==
  LET length == SumOf([i \in DOMAIN movie |->
                         CatalogueLine(ChunkOffsets[i], movie[i])])
  IN  /\ pc = "catalogue"
      /\ offsets' = ChunkOffsets
      /\ catalogue' = length
      /\ IF Fits(length)
         THEN pc' = "assemble" /\ UNCHANGED <<firstData, round>>
         ELSE /\ firstData' = firstData + mask + 1
              /\ round' = round + 1
              /\ pc' = IF round + 1 = CatalogueRounds THEN "assemble" ELSE pc
      /\ size' = header.length + sprite + KeyCount * keySize + length
      /\ UNCHANGED <<inputVars, headerLen, header, written, placed>>

\* Zeros up to the chunk's offset, then the chunk.  An offset the file has
\* passed already asks for 2^64 less the difference, and memory runs out.
AppendChunk ==
  /\ pc = "assemble"
  /\ written < Len(movie)
  /\ IF offsets[written + 1] < size
     THEN pc' = "failed" /\ UNCHANGED <<written, placed, size>>
     ELSE /\ written' = written + 1
          /\ placed' = Append(placed, offsets[written + 1])
          /\ size' = offsets[written + 1] + Bytes(movie[written + 1])
          /\ UNCHANGED pc
  /\ UNCHANGED <<inputVars, headerLen, header, firstData, offsets, catalogue, round>>

Finish ==
  /\ pc = "assemble"
  /\ written = Len(movie)
  /\ pc' = "written"
  /\ UNCHANGED <<inputVars, headerLen, header, firstData, offsets, catalogue,
                 round, written, placed, size>>

\* Where the catalogue text really starts.
CatalogueStart == header.length + sprite + KeyCount * keySize

\* Seeded fault: a chunk is expected to fill its last sector.
InsideSectors(i) == AlignUp(offsets[i] + Bytes(movie[i])) <= size

\* validate_chunks.
Inside(i) == offsets[i] + Bytes(movie[i]) <= size

\* replay_ae7_parse finds the catalogue where the header says and the regions
\* inside the file.
Acceptable ==
  /\ header.catalogueOffset = CatalogueStart
  /\ header.spriteOffset + sprite <= size
  /\ header.keysOffset <= size
  /\ Len(movie) <= (size - header.catalogueOffset) \div 6
  /\ \A i \in DOMAIN movie : Inside(i)

Parse ==
  /\ pc = "written"
  /\ pc' = IF Acceptable THEN "accepted" ELSE "rejected"
  /\ UNCHANGED <<inputVars, headerLen, header, firstData, offsets, catalogue,
                 round, written, placed, size>>

Next == RenderHeader \/ BuildCatalogue \/ AppendChunk \/ Finish \/ Parse

Spec == Init /\ [][Next]_vars

-----------------------------------------------------------------------------

\* Eight rounds are enough: when the loop is left the offsets printed in the
\* header are those of a header of exactly its length.
HeaderSettles ==
  pc # "header" => /\ header = Render(header.length)
                   /\ header.catalogueOffset = CatalogueStart

\* What replay_ae7_write completes, replay_ae7_parse accepts.
ParserAccepts == pc # "rejected"

\* No chunk is due at an offset the file has already passed.
NoOverrun == pc # "failed"

\* "Converge the first chunk offset so the catalogue fits before it"
\* (replay_ae7_write.c:630).
CatalogueFits ==
  pc = "assemble" => header.catalogueOffset + catalogue <= offsets[1]
=============================================================================
