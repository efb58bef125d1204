---------------------------- MODULE ChunkPlayback ----------------------------
(***************************************************************************)
(* A movie written by replay_ae7_write and read back by replay-transcode:  *)
(* the chunks of ChunkPlan and the sound regions of SoundSlices meet a     *)
(* reader that takes each chunk's sound, then a fixed number of frames.    *)
(*                                                                         *)
(* A frame is its number.  Types 7, 17, 19 and 20 are temporal: what a     *)
(* decoded frame shows depends on the frame decoded before it, so a played *)
(* frame is recorded with the reference it was decoded against.  A frame   *)
(* takes at least a byte, so decoding past a chunk's last frame fails:     *)
(* the decompressor returns a source pointer beyond the payload.           *)
(***************************************************************************)
EXTENDS SoundSlices, FiniteSets

VARIABLES
  route,     \* "module": an ARM decompressor; "packed": native type 23
  oddSize,   \* a packed frame takes an odd number of bytes
  perChunk,  \* movie->frames_per_chunk
  cursor,    \* the chunk being decoded, from 1
  decoded,   \* frames decoded from it
  played,    \* the frames shown and the reference of each
  audioPts,  \* sink->audio_pts before each chunk, then after the last
  outcome    \* "closed", "playing", "played" or "died"

inputs == <<soundVars, route, oddSize>>
readerVars == <<perChunk, cursor, decoded, played, audioPts, outcome>>
playbackVars == <<inputs, readerVars>>

PlaybackInit ==
  /\ SoundInit
  /\ route \in {"module", "packed"}
  /\ oddSize \in IF route = "packed" THEN BOOLEAN ELSE {FALSE}
  /\ perChunk = 0 /\ cursor = 1 /\ decoded = 0
  /\ played = <<>> /\ audioPts = <<0>>
  /\ outcome = "closed"

Write == SoundNext /\ UNCHANGED <<route, oddSize, readerVars>>

\* Seeded fault: the header is given the target although there is sound.
HeaderFramesTarget == halves \div 2

\* The header line, which the parser reads up to the first character that is
\* no digit: "12.5 frames per chunk" is 12.
HeaderFrames == NominalHalves \div 2

\* replay_ae7_parse.
Open ==
  /\ phase = "planned"
  /\ sound => Len(stored) = Len(chunks)
  /\ outcome = "closed"
  /\ perChunk' = HeaderFrames
  /\ outcome' = "playing"
  /\ UNCHANGED <<inputs, cursor, decoded, played, audioPts>>

Reading(way) == outcome = "playing" /\ route = way

\* Seeded fault: a mono region is taken to hold a unit a byte.
DecodedByteEach(region) == IF adpcm THEN region.bytes - Header ELSE region.bytes

\* The units decode_chunk_audio makes of a chunk's region.
Decoded(region) ==
  IF ~adpcm THEN region.bytes
  ELSE IF stereo THEN region.bytes - 8
  ELSE (region.bytes - 4) * 2

\* The chunk whose sound is due: the one about to be decoded, or, for the
\* packed frames, every chunk before the first frame.
SoundDue(c) ==
  /\ sound /\ c <= Len(chunks)
  /\ route = "module" => c = cursor

\* sink_chunk_audio: the chunk's sound is stamped with the units before it.
SoundOf(c) ==
  /\ outcome = "playing"
  /\ Len(audioPts) = c /\ SoundDue(c)
  /\ audioPts' = Append(audioPts, audioPts[c] + Decoded(stored[c]))
  /\ UNCHANGED <<inputs, perChunk, cursor, decoded, played, outcome>>

SinkSound == SoundOf(Len(audioPts))

\* The chunk's sound is out and its frames are being decoded.
Decoding ==
  /\ Reading("module")
  /\ cursor <= Len(chunks)
  /\ sound => Len(audioPts) = cursor + 1

FrameShown(n) == [frame |-> n, reference |-> n - 1]

\* The reference is the last frame decoded, in whatever chunk.
LastShown == IF played = <<>> THEN -1 ELSE played[Len(played)].frame

\* replay_codecif_decode succeeds and the frame goes to the sink.
DecodeFrame ==
  /\ Decoding
  /\ decoded < perChunk
  /\ decoded < chunks[cursor].frames
  /\ decoded' = decoded + 1
  /\ played' = Append(played, [frame |-> chunks[cursor].first + decoded,
                               reference |-> LastShown])
  /\ UNCHANGED <<inputs, perChunk, cursor, audioPts, outcome>>

\* Seeded fault: a short chunk is an error wherever it is.
DecodePastEndStrict ==
  /\ Decoding
  /\ decoded < perChunk
  /\ decoded = chunks[cursor].frames
  /\ outcome' = "died"
  /\ UNCHANGED <<inputs, perChunk, cursor, decoded, played, audioPts>>

\* A chunk that holds fewer frames than the header says: the final one "may
\* be short", any other ends the program.
DecodePastEnd ==
  /\ Decoding
  /\ decoded < perChunk
  /\ decoded = chunks[cursor].frames
  /\ IF cursor = Len(chunks)
     THEN cursor' = cursor + 1 /\ decoded' = 0 /\ UNCHANGED outcome
     ELSE outcome' = "died" /\ UNCHANGED <<cursor, decoded>>
  /\ UNCHANGED <<inputs, perChunk, played, audioPts>>

\* frames_per_chunk frames were decoded; what is left of the chunk is not.
ChunkDone ==
  /\ Decoding
  /\ decoded = perChunk
  /\ cursor' = cursor + 1
  /\ decoded' = 0
  /\ UNCHANGED <<inputs, perChunk, played, audioPts, outcome>>

\* Seeded fault: the loop waits for the movie's last frame.
ModuleDoneAtLastFrame ==
  /\ Reading("module")
  /\ cursor = Len(chunks) + 1
  /\ Len(played) = count
  /\ outcome' = "played"
  /\ UNCHANGED <<inputs, perChunk, cursor, decoded, played, audioPts>>

ModuleDone ==
  /\ Reading("module")
  /\ cursor = Len(chunks) + 1
  /\ outcome' = "played"
  /\ UNCHANGED <<inputs, perChunk, cursor, decoded, played, audioPts>>

\* replay_type23_frame_count: the frames of a chunk follow from its bytes,
\* which the writer has made even; too many, or a remainder, is malformed.
PackedLayoutGood ==
  \A i \in ChunkIndices :
    /\ chunks[i].frames <= perChunk
    /\ oddSize => chunks[i].frames % 2 = 0

\* The native type 23 path unpacks every frame by its index.
UnpackAll ==
  /\ Reading("packed")
  /\ sound => Len(audioPts) = Len(chunks) + 1
  /\ IF PackedLayoutGood
     THEN outcome' = "played" /\ played' = [k \in 1 .. count |-> FrameShown(k - 1)]
     ELSE outcome' = "died" /\ UNCHANGED played
  /\ UNCHANGED <<inputs, perChunk, cursor, decoded, audioPts>>

PlaybackNext ==
  \/ Write
  \/ Open
  \/ SinkSound
  \/ DecodeFrame
  \/ DecodePastEnd
  \/ ChunkDone
  \/ ModuleDone
  \/ UnpackAll

PlaybackSpec ==
  PlaybackInit /\ [][PlaybackNext]_playbackVars /\ WF_playbackVars(PlaybackNext)

-----------------------------------------------------------------------------

\* Every frame shown so far, in order, each against its predecessor.
Faithful == \A k \in DOMAIN played : played[k] = FrameShown(k - 1)

Complete == Len(played) = count

\* All chunks but the last hold what the header says, the last no more.
FullChunks ==
  \A i \in ChunkIndices :
    /\ chunks[i].frames <= HeaderFrames
    /\ i < Len(chunks) => chunks[i].frames = HeaderFrames

\* A movie whose chunks are full is played from first frame to last, each
\* against its own reference, and never refused: the short final chunk is not
\* taken for damage.
FullChunksPlay ==
  phase = "planned" /\ FullChunks /\ route = "module" =>
    /\ Faithful
    /\ outcome # "died"
    /\ outcome = "played" => Complete

\* Because the header of a movie with sound reports its longest chunk, a
\* reader of such a movie never passes over a frame: it shows all of them
\* against the right reference, or stops at a short chunk with an error.
SoundNeverSkips ==
  sound => /\ Faithful
           /\ outcome = "played" => Complete

\* "Because type 19 is temporal, the player decodes a chunk by consuming its
\* video_bytes frame by frame, so a varying frame count per chunk is fine"
\* (notes/replay-ae7-join-writer.md:120).
VaryingCountsPlay ==
  route = "module" => Faithful /\ (outcome = "played" => Complete)

OddBefore(c) == {j \in 1 .. c - 1 : slices[j].units % 2 = 1}

\* A chunk's sound is heard at the unit it was cut at, except that in mono
\* ADPCM every earlier chunk with an odd number of units puts it one late.
HeardAtCut ==
  sound => \A c \in 1 .. Len(audioPts) : c <= Len(slices) =>
    audioPts[c] = slices[c].start
                    + (IF adpcm /\ ~stereo THEN Cardinality(OddBefore(c)) ELSE 0)

\* Reading ends, with the movie or with an error.
PlaybackEnds == <>(outcome \in {"played", "died"})
=============================================================================
