------------------------------ MODULE ChunkPlan ------------------------------
(***************************************************************************)
(* How replay_ae7_write (replay_ae7_write.c) divides a movie's frames into *)
(* chunks, for the movies replay-encode pads first (pad_sink_for_chunks)   *)
(* and for those the other tools hand over as they are.                    *)
(*                                                                         *)
(* frames_target is a double.  Where it comes from the frame rate or from  *)
(* halving the frame count its multiples are exact; where it comes from    *)
(* frames_per_chunk it is fps * (n / fps), which is n for most frame rates *)
(* and one unit in the last place below n for some, such as 25 fps and 29  *)
(* frames.  slipped is that case: floor((i + 1) * F) is one frame short.   *)
(***************************************************************************)
EXTENDS ChunkPadding, Sequences

CONSTANTS
  MaxFrames,    \* bound: frames in the movie
  ChunkSizes,   \* values of frames_per_chunk, 0 for "use chunk_seconds"
  HalfRates     \* twice the frames in chunk_seconds, e.g. 25 for 12.5 fps

ASSUME PlanAssumption ==
  /\ MaxFrames \in Nat \ {0}
  /\ ChunkSizes \subseteq Nat
  /\ HalfRates \subseteq Nat \ {0}

VARIABLES
  real,       \* frames encoded
  padded,     \* the movie goes through pad_sink_for_chunks
  sound,      \* track_count # 0
  count,      \* options->frame_count
  requested,  \* options->frames_per_chunk
  halves,     \* twice frames_target, slip aside
  slip,       \* 1 when frames_target is just below its nominal value
  assigned,   \* frames assigned to a chunk
  chunks,     \* the chunks so far: their first_frame and frame_count
  phase       \* "pad", "target", "partition" or "planned"

inputVars == <<real, padded, sound>>
vars == <<inputVars, count, requested, halves, slip, assigned, chunks, phase>>

Init ==
  /\ real \in 1 .. MaxFrames
  /\ padded \in BOOLEAN
  /\ sound \in BOOLEAN
  /\ count = real
  /\ requested \in ChunkSizes
  /\ halves = 2 /\ slip = 0
  /\ assigned = 0 /\ chunks = <<>>
  /\ phase = "pad"

\* pad_sink_for_chunks: the writer is asked for whole chunks.
PadSink ==
  /\ phase = "pad"
  /\ phase' = "target"
  /\ count' = IF padded THEN PaddedCount(real, requested, sound) ELSE real
  /\ requested' = IF padded THEN EffectiveFrames(real, requested, sound)
                  ELSE requested
  /\ UNCHANGED <<inputVars, halves, slip, assigned, chunks>>

\* The target the options ask for, at least one frame.  A target that slips
\* below one frame is raised to exactly one.
Target(h, s) == [halves |-> h, slip |-> s]

Targets ==
  IF requested = 0
  THEN { Target(AtLeast(2, rate), 0) : rate \in HalfRates }
  ELSE { Target(2 * requested, s) : s \in IF requested = 1 THEN {0} ELSE {0, 1} }

\* Seeded fault: a target of exactly the movie's length is not caught.
OneChunkStrictly(target) == target.halves - target.slip > 2 * count

\* frames_target >= frame_count: the movie would be a single chunk.
OneChunk(target) == target.halves - target.slip >= 2 * count

\* With sound, a single chunk of two frames or more is split in two halves.
ChooseTarget ==
  /\ phase = "target"
  /\ phase' = "partition"
  /\ \E target \in Targets :
       IF sound /\ count >= 2 /\ OneChunk(target)
       THEN halves' = count /\ slip' = 0
       ELSE halves' = target.halves /\ slip' = target.slip
  /\ UNCHANGED <<inputVars, count, requested, assigned, chunks>>

\* floor((i + 1) * frames_target), held between one more frame and the end.
Floor(i) == (i * halves) \div 2 - slip

\* Seeded fault: the fraction of a frame is dropped from every chunk.
ChunkEndRounded ==
  LET next == assigned + AtLeast(1, Floor(1))
  IN  IF next > count THEN count ELSE next

ChunkEnd ==
  LET next == AtLeast(assigned + 1, Floor(Len(chunks) + 1))
  IN  IF next > count THEN count ELSE next

NextChunk ==
  /\ phase = "partition"
  /\ assigned < count
  /\ chunks' = Append(chunks, [first |-> assigned, frames |-> ChunkEnd - assigned])
  /\ assigned' = ChunkEnd
  /\ UNCHANGED <<inputVars, count, requested, halves, slip, phase>>

\* Seeded fault: a last chunk shorter than the target is left out.
PlannedWithoutRemainder ==
  /\ phase = "partition"
  /\ 2 * (count - assigned) < halves
  /\ phase' = "planned"
  /\ UNCHANGED <<inputVars, count, requested, halves, slip, assigned, chunks>>

Planned ==
  /\ phase = "partition"
  /\ assigned = count
  /\ phase' = "planned"
  /\ UNCHANGED <<inputVars, count, requested, halves, slip, assigned, chunks>>

Next == PadSink \/ ChooseTarget \/ NextChunk \/ Planned

Spec == Init /\ [][Next]_vars

-----------------------------------------------------------------------------

ChunkIndices == 1 .. Len(chunks)

Longest == CHOOSE n \in {chunks[i].frames : i \in ChunkIndices} :
             \A i \in ChunkIndices : chunks[i].frames <= n

\* frames_per_chunk_nominal, in halves: with sound the header reports at
\* least the longest chunk, because the player sizes its sound buffer by it.
NominalHalves ==
  IF sound /\ 2 * Longest > halves THEN 2 * Longest ELSE halves

\* The frame whose key starts the next chunk: the last frame of this one.
Boundary(i) == chunks[i].first + chunks[i].frames - 1

TypeOK ==
  /\ real \in 1 .. MaxFrames /\ count \in Nat /\ count >= real
  /\ requested \in Nat /\ halves \in Nat \ {0, 1}
  /\ slip \in {0, 1}
  /\ padded \in BOOLEAN /\ sound \in BOOLEAN
  /\ assigned \in 0 .. count
  /\ chunks \in Seq([first : Nat, frames : Nat])
  /\ phase \in {"pad", "target", "partition", "planned"}

\* Chunks are never empty and follow each other without a gap, so that a
\* chunk's key shows the frame before it, and when the plan is done they hold
\* every frame once: nothing is lost at the end, whatever the rounding.
Partition ==
  /\ \A i \in ChunkIndices :
       /\ chunks[i].frames >= 1
       /\ chunks[i].first = IF i = 1 THEN 0 ELSE Boundary(i - 1) + 1
  /\ assigned = IF chunks = <<>> THEN 0 ELSE Boundary(Len(chunks)) + 1
  /\ phase = "planned" => assigned = count

\* "Force at least two chunks whenever there is audio and there are frames
\* enough to split" (replay_ae7_write.c:409).
SoundHasTwoChunks ==
  phase = "planned" /\ sound /\ count >= 2 => Len(chunks) >= 2

\* The rounding never accumulates: every chunk ends less than a frame before
\* the multiple of the target that the chunk's sound and the player's clock
\* are cut at, one frame when the target slips.
NoDrift ==
  phase = "planned" =>
    \A i \in 1 .. Len(chunks) - 1 :
      LET early == i * halves - 2 * (Boundary(i) + 1)
      IN  early \in IF slip = 1 THEN {2} ELSE {0, 1}

\* "The writer gets only uniform, fully populated chunks" (replay_encode.c:
\* 1970), at every frame rate that does not slip.
UniformUnlessSlipped ==
  phase = "planned" /\ padded /\ slip = 0 =>
    \A i \in ChunkIndices : chunks[i].frames = requested
=============================================================================
