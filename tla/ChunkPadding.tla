----------------------------- MODULE ChunkPadding -----------------------------
(***************************************************************************)
(* How many frames a movie is padded to, and how many frames per chunk the *)
(* writer is then asked for: pad_sink_for_chunks (tools/replay_encode.c).  *)
(* The player decodes the same number of frames from every chunk, so the   *)
(* movie is padded with "repeat last frame" payloads to whole chunks.      *)
(***************************************************************************)
EXTENDS Integers

\* The player needs frames-per-chunk >= 3 (docs/player-bugs.md #3).
MinimumFrames == 3

CeilDiv(a, b) == (a + b - 1) \div b

AtLeast(minimum, n) == IF n < minimum THEN minimum ELSE n

\* A requested 0 stands for the whole movie.
Requested(real, fpc) == IF fpc # 0 THEN fpc ELSE IF real # 0 THEN real ELSE 1

\* A short clip with sound is split into two equal chunks.
SplitInTwo(real, fpc, audio) == audio /\ real <= Requested(real, fpc)

\* *eff_fpc
EffectiveFrames(real, fpc, audio) ==
  IF real # 0 /\ SplitInTwo(real, fpc, audio)
  THEN AtLeast(MinimumFrames, CeilDiv(real, 2))
  ELSE Requested(real, fpc)

\* Seeded fault: the movie is padded to two chunks or not at all.
PaddedCountSplitOnly(real, fpc, audio) ==
  IF SplitInTwo(real, fpc, audio) /\ real # 0
  THEN 2 * EffectiveFrames(real, fpc, audio)
  ELSE real

\* target; an empty movie is left alone.
PaddedCount(real, fpc, audio) ==
  LET chunk == EffectiveFrames(real, fpc, audio)
  IN  IF SplitInTwo(real, fpc, audio) /\ real # 0
      THEN 2 * chunk
      ELSE CeilDiv(real, chunk) * chunk
=============================================================================
