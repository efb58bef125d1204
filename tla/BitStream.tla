------------------------------ MODULE BitStream ------------------------------
(***************************************************************************)
(* The bit writer and reader of replay_bitstream.c over a ReplayBuffer.    *)
(*                                                                         *)
(* Fields are written least significant bit first.  The accumulator never  *)
(* holds a bit above bit_count, so it is represented by the sequence of    *)
(* its live bits; a byte is the sequence of its eight bits.  The limits of *)
(* size_t and a failed allocation, after which every caller gives up, are  *)
(* left out.                                                               *)
(***************************************************************************)
EXTENDS Integers, Sequences, SequencesExt

ByteBits == 8
WordBits == 32     \* the most one call may move

\* The low n bits of a value, as a field of the stream.
Field(value, n) == [i \in 1 .. n |-> (value \div 2 ^ (i - 1)) % 2]

\* The value of a field that was read.
ValueOf(bits) == FoldRight(LAMBDA b, rest : b + 2 * rest, bits, 0)

Rest(s, n) == SubSeq(s, n + 1, Len(s))

-----------------------------------------------------------------------------
(* Writing.                                                                *)

NewWriter == [bytes |-> <<>>, accumulator |-> <<>>, total |-> 0]

\* The low whole bytes of the accumulator move to the buffer.
Drain(writer) ==
  LET whole == Len(writer.accumulator) \div ByteBits
      byte(i) == SubSeq(writer.accumulator, ByteBits * (i - 1) + 1, ByteBits * i)
  IN  [writer EXCEPT !.bytes = @ \o [i \in 1 .. whole |-> byte(i)],
                     !.accumulator = Rest(@, ByteBits * whole)]

Write(writer, bits) ==
  Drain([writer EXCEPT !.accumulator = @ \o bits, !.total = @ + Len(bits)])

\* Several fields, one call each.
WriteAll(writer, fields) == FoldLeft(Write, writer, fields)

FlushZero(writer) ==
  IF writer.accumulator = <<>> THEN writer
  ELSE [writer EXCEPT
          !.bytes = Append(@, [i \in 1 .. ByteBits |->
                                 IF i <= Len(writer.accumulator)
                                 THEN writer.accumulator[i] ELSE 0]),
          !.accumulator = <<>>]

-----------------------------------------------------------------------------
(* Reading.  ok is false once the input was too short.                     *)

NewReader(bytes) ==
  [bytes |-> bytes, bytePos |-> 0, accumulator |-> <<>>, total |-> 0, ok |-> TRUE]

\* The whole bytes that bits take up.
BytesFor(bits) == IF bits <= 0 THEN 0 ELSE (bits + ByteBits - 1) \div ByteBits

\* Enough whole bytes for n bits, as far as there are any.
Refill(reader, n) ==
  LET taken == Min({BytesFor(n - Len(reader.accumulator)),
                    Len(reader.bytes) - reader.bytePos})
  IN  [reader EXCEPT
         !.accumulator = @ \o FlattenSeq(SubSeq(reader.bytes, reader.bytePos + 1,
                                                reader.bytePos + taken)),
         !.bytePos = @ + taken]

\* The field and the reader after it; nothing is consumed by a short read.
Take(filled, n) ==
  IF filled.ok /\ n <= Len(filled.accumulator)
  THEN [field  |-> SubSeq(filled.accumulator, 1, n),
        reader |-> [filled EXCEPT !.accumulator = Rest(@, n), !.total = @ + n]]
  ELSE [field  |-> <<>>,
        reader |-> [filled EXCEPT !.ok = FALSE]]
Read(reader, n) == Take(Refill(reader, n), n)

-----------------------------------------------------------------------------
(* Moving a candidate (mb_encode_append_candidate).                        *)

\* Seeded fault: the last, shorter piece is moved as a whole word.
AppendCandidateWords(writer, bytes, bits) ==
  LET pieces == (bits + WordBits - 1) \div WordBits
      padded == FlattenSeq(bytes) \o [i \in 1 .. WordBits |-> 0]
      Move(state, i) == Write(state, SubSeq(padded, WordBits * (i - 1) + 1, WordBits * i))
  IN  FoldLeft(Move, writer, [i \in 1 .. pieces |-> i])

\* The first `bits` bits of a candidate's bytes, a word at a time, to wherever
\* the writer stands.
AppendCandidate(writer, bytes, bits) ==
  LET pieces == (bits + WordBits - 1) \div WordBits
      count(i) == IF i = pieces THEN bits - WordBits * (i - 1) ELSE WordBits
      Carry(read, state) == [reader |-> read.reader, writer |-> Write(state.writer, read.field)]
      Move(state, i) == Carry(Read(state.reader, count(i)), state)
  IN  FoldLeft(Move, [reader |-> NewReader(bytes), writer |-> writer],
               [i \in 1 .. pieces |-> i]).writer
=============================================================================
