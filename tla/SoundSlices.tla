----------------------------- MODULE SoundSlices -----------------------------
(***************************************************************************)
(* One sound track of a movie: how replay_ae7_write slices it by the       *)
(* chunks' time spans, encodes the slices and stores them.                 *)
(*                                                                         *)
(* Sound is counted in units, one sample of every channel.  A unit is its  *)
(* number; the ADPCM predictor after n units is the number n, since the    *)
(* predictor is a function of the units encoded so far.                    *)
(***************************************************************************)
EXTENDS ChunkPlan

CONSTANTS
  Ratios,   \* units in a frame's time, as [num, den]
  Tracks    \* units in the track the caller supplies

ASSUME SoundAssumption ==
  /\ \A r \in Ratios : r.num \in Nat \ {0} /\ r.den \in Nat \ {0}
  /\ Tracks \subseteq Nat

VARIABLES
  adpcm,     \* t->encode_adpcm
  stereo,    \* t->channels = 2
  ratio,     \* rate_hz / frames_per_second
  track,     \* units in t->data
  cut,       \* the unit each chunk boundary was cut at
  slices,    \* sound_offset and sound_samples of the chunks, in units
  predictor, \* units through the ADPCM encoder
  stored     \* the chunks' sound regions in the file

trackVars == <<adpcm, stereo, ratio, track>>
soundVars == <<vars, trackVars, cut, slices, predictor, stored>>

\* A movie without sound has no track to vary.
NoTrack == ~adpcm /\ ~stereo /\ track = 0

SoundInit ==
  /\ Init
  /\ adpcm \in BOOLEAN /\ stereo \in BOOLEAN
  /\ ratio \in Ratios
  /\ track \in Tracks
  /\ sound \/ NoTrack
  /\ cut = [frame \in {0} |-> 0]
  /\ slices = <<>> /\ stored = <<>>
  /\ predictor = 0

Plan == Next /\ UNCHANGED <<trackVars, cut, slices, predictor, stored>>

AtMost(limit, n) == IF n > limit THEN limit ELSE n

\* floor(t * rate + 0.5) at a frame boundary.  Where the product ends in
\* exactly one half, the doubles may land just below it.
Cuts(frame) ==
  LET exact == 2 * frame * ratio.num + ratio.den
      up    == exact \div (2 * ratio.den)
  IN  {up} \cup (IF exact % (2 * ratio.den) = 0 /\ frame > 0 THEN {up - 1} ELSE {})

\* Seeded fault: the slice starts where the target's multiple would.
SliceStartNominal(i) ==
  (2 * (((i - 1) * halves) \div 2) * ratio.num + ratio.den) \div (2 * ratio.den)

\* A chunk's t0 is computed from the same frame number as the t1 of the chunk
\* before, so both are cut at the same unit.
SliceStart(i) == cut[chunks[i].first]

\* Only the ends of an ADPCM slice are held to the units there are.
Clamp(unit) == IF adpcm THEN AtMost(track, unit) ELSE unit

Slice(from, to) == [start |-> Clamp(from), units |-> Clamp(to) - Clamp(from)]

SliceChunk ==
  LET i   == Len(slices) + 1
      end == chunks[i].first + chunks[i].frames
  IN  /\ phase = "planned" /\ sound
      /\ i <= Len(chunks)
      /\ \E to \in Cuts(end) :
           /\ cut' = [frame \in DOMAIN cut \cup {end} |->
                        IF frame = end THEN to ELSE cut[frame]]
           /\ slices' = Append(slices, Slice(SliceStart(i), to))
      /\ UNCHANGED <<vars, trackVars, predictor, stored>>

Sliced == phase = "planned" /\ sound /\ Len(slices) = Len(chunks)

\* Seeded fault: every chunk starts from the initial predictor.
HeaderStateZero == 0

\* The state header of the chunk about to be written.
HeaderState == predictor

Header == IF stereo THEN 8 ELSE 4

\* One nibble a sample for mono, one byte a unit for stereo.
CodeBytes(units) == IF stereo THEN units ELSE (units + 1) \div 2

\* append_adpcm_chunk.
StoreAdpcm ==
  LET slice == slices[Len(stored) + 1]
  IN  /\ Sliced /\ adpcm
      /\ Len(stored) < Len(slices)
      /\ stored' = Append(stored, [from |-> slice.start, copied |-> slice.units,
                                   silent |-> 0, state |-> HeaderState,
                                   bytes |-> Header + CodeBytes(slice.units)])
      /\ predictor' = HeaderState + slice.units
      /\ UNCHANGED <<vars, trackVars, cut, slices>>

\* The units of the track from start on.
Available(start) == IF start < track THEN track - start ELSE 0

\* A slice of encoded sound is copied; what the track is short of is silence.
StorePcm ==
  LET slice  == slices[Len(stored) + 1]
      copied == AtMost(Available(slice.start), slice.units)
  IN  /\ Sliced /\ ~adpcm
      /\ Len(stored) < Len(slices)
      /\ stored' = Append(stored, [from |-> slice.start, copied |-> copied,
                                   silent |-> slice.units - copied,
                                   state |-> 0, bytes |-> slice.units])
      /\ UNCHANGED <<vars, trackVars, cut, slices, predictor>>

SoundNext == Plan \/ SliceChunk \/ StoreAdpcm \/ StorePcm

-----------------------------------------------------------------------------

\* The slices tile the track: each starts where the one before it ended, and
\* together they end at the movie's end or, for ADPCM, at the track's.
SlicesTile ==
  /\ \A i \in DOMAIN slices :
       slices[i].start = IF i = 1 THEN 0
                         ELSE slices[i - 1].start + slices[i - 1].units
  /\ Sliced => slices[Len(slices)].start + slices[Len(slices)].units
                 = Clamp(cut[count])

\* "So the player can start its sound there" (replay_ae7_write.h:62): the
\* state header of a chunk is the predictor after all the units before it.
AdpcmStartsAnywhere ==
  adpcm => \A i \in DOMAIN stored : stored[i].state = slices[i].start
=============================================================================
