---------------------------- MODULE CodecIfSession ----------------------------
(***************************************************************************)
(* src/replay_codecif.c: a compiled decompressor run frame by frame over   *)
(* one payload, with two picture buffers that change places after every    *)
(* frame.  The decompressor itself is not part of the repository: what it  *)
(* does is given by how the host uses it.                                  *)
(*                                                                         *)
(* A picture is the sequence of codec frames that were applied to a blank  *)
(* screen to arrive at it, each known by its tag; a codec frame is a run   *)
(* of bytes that starts with its tag.                                      *)
(***************************************************************************)
EXTENDS Integers, Sequences

CONSTANTS
  SourceCapacity,  \* SOURCE_CAPACITY: room for a payload
  Damaged          \* a tag no decompressor returns from

ASSUME SessionAssumption ==
  /\ SourceCapacity \in Nat
  /\ Damaged \in Nat \ {0}

VARIABLES
  memory,          \* the two frame buffers of the sandbox
  cur_out,         \* the buffer the next frame is decoded into
  cur_prev,        \* the buffer of its temporal reference
  source,          \* the payload mapped at SOURCE_BASE
  payload_loaded

cifVars == <<memory, cur_out, cur_prev, source, payload_loaded>>

Buffers == {"OUTPUT_BASE", "PREVIOUS_BASE"}

Blank == <<>>              \* buffers start zeroed
Garbled == <<Damaged>>     \* what an interrupted decode leaves behind

\* External: the length of a codec frame is the codec's business; here an odd
\* tag is a frame of one byte and an even one has two more.
FrameBytes(tag) == IF tag % 2 = 1 THEN <<tag>> ELSE <<tag, 0, 0>>

TagAt(data, offset) == IF offset < Len(data) THEN data[offset + 1] ELSE 0

\* External: the decompressor reads a frame at `offset` and applies it to the
\* reference.  It runs past the payload without noticing, never returns from
\* a damaged frame, and takes a zero for a frame of one byte.
Returns(data, offset) == TagAt(data, offset) # Damaged

FrameEnd(data, offset) ==
  offset + (IF TagAt(data, offset) = 0 THEN 1
            ELSE Len(FrameBytes(TagAt(data, offset))))

SessionClosed ==
  /\ memory = [b \in Buffers |-> Blank]
  /\ cur_out = "OUTPUT_BASE"
  /\ cur_prev = "PREVIOUS_BASE"
  /\ source = <<>>
  /\ payload_loaded = FALSE

\* replay_codecif_load_payload: an empty payload and one that leaves no room
\* for the word loads behind it are refused and the old one stays.
Loadable(data) == data # <<>> /\ Len(data) + 8 <= SourceCapacity

LoadPayload(data) ==
  /\ Loadable(data)
  /\ source' = data
  /\ payload_loaded' = TRUE
  /\ UNCHANGED <<memory, cur_out, cur_prev>>

\* replay_codecif_decode succeeds when the decompressor returns and its
\* source pointer lies inside the payload.
Runs(offset) == payload_loaded /\ offset <= Len(source)

Decodes(offset) ==
  Runs(offset) /\ Returns(source, offset)
               /\ FrameEnd(source, offset) <= Len(source)

Decoded(offset) == Append(memory[cur_prev], TagAt(source, offset))

\* Seeded fault: the buffers are not exchanged.
DecodeNoSwap(offset) ==
  /\ Decodes(offset)
  /\ memory' = [memory EXCEPT ![cur_out] = Decoded(offset)]
  /\ UNCHANGED <<cur_out, cur_prev, source, payload_loaded>>

DecodeFrame(offset) ==
  /\ Decodes(offset)
  /\ memory' = [memory EXCEPT ![cur_out] = Decoded(offset)]
  /\ cur_out' = cur_prev
  /\ cur_prev' = cur_out
  /\ UNCHANGED <<source, payload_loaded>>

\* A decode that fails may have written to the output buffer.  The buffers
\* keep their places.
FailDecode(offset) ==
  /\ ~ Decodes(offset)
  /\ memory' = IF Runs(offset) THEN [memory EXCEPT ![cur_out] = Garbled]
               ELSE memory
  /\ UNCHANGED <<cur_out, cur_prev, source, payload_loaded>>
=============================================================================
