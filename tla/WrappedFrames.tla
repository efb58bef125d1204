---------------------------- MODULE WrappedFrames ----------------------------
(***************************************************************************)
(* replay_moviefs.c: MovieFS and VideoFS put a 16-byte header in front of  *)
(* every codec frame of a chunk.  ReplayFrameWrapIter walks such a chunk.  *)
(* A payload is a sequence of bytes, an offset counts the bytes before it. *)
(***************************************************************************)
EXTENDS Integers, Sequences, FiniteSetsExt

NoFrame == [found |-> FALSE]

Kinds == {"moviefs", "videofs", "none"}

WrapHeader == 16

Bytes(data, from, length) == SubSeq(data, from + 1, from + length)

\* A 32-bit little-endian word.
Word(data, at) ==
  data[at + 1] + 256 * data[at + 2] + 65536 * data[at + 3]
    + 16777216 * data[at + 4]

\* What the size word counts besides the codec frame.
Overhead(kind) == IF kind = "videofs" THEN 28 ELSE 12

\* The first non-zero word at or after pos, in steps of a word.
SkipZeros(data, pos) ==
  Min({p \in pos .. Len(data) :
         /\ (p - pos) % 4 = 0
         /\ p + 4 <= Len(data) => Word(data, p) # 0})

\* The frame of the wrapper at pos; nothing when the wrapper is malformed,
\* empty or runs past the payload.
Wrapped(data, kind, pos) ==
  LET length == Word(data, pos) - Overhead(kind)
      end    == pos + WrapHeader + length
  IN  IF pos + WrapHeader <= Len(data) /\ length > 0 /\ end <= Len(data)
      THEN [found |-> TRUE, frame |-> Bytes(data, pos + WrapHeader, length),
            pos |-> end]
      ELSE NoFrame

\* replay_frame_wrap_iter_next: the frame found from pos on, and where the
\* next call starts.
IterNext(data, kind, pos) ==
  IF kind = "none"
  THEN IF pos >= Len(data) THEN NoFrame
       ELSE [found |-> TRUE, frame |-> Bytes(data, pos, Len(data) - pos),
             pos |-> Len(data)]
  ELSE Wrapped(data, kind, SkipZeros(data, pos))

-----------------------------------------------------------------------------
\* The writer's side: how the movies seen so far lay a chunk out.

Le(value) == <<value, 0, 0, 0>>

Zeros(n) == [i \in 1 .. n |-> 0]

Wrap(frame, kind) ==
  Le(Len(frame) + Overhead(kind)) \o Le(0) \o Le(8) \o Le(8) \o frame
=============================================================================
