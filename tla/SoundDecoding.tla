---------------------------- MODULE SoundDecoding ----------------------------
(***************************************************************************)
(* The sound half of tools/replay_transcode.c: which decoder a sound track *)
(* gets, and the interleaved signed-16 PCM that decode_chunk_audio appends *)
(* for one chunk.  A sample is known by the chunk it lies in and its place *)
(* among the samples of that chunk; what it sounds like is left out.       *)
(*                                                                         *)
(* A movie's `sound` is [codec, precision, labels, channels, reversed], the*)
(* header's fields; `sounds[c]` is the number of sound bytes of chunk c and*)
(* `film` is what a type 500 film carries.                                 *)
(***************************************************************************)
EXTENDS Integers, Sequences

OneBytePerSample == {"ulaw", "alaw", "signed-8", "unsigned-8"}

\* choose_audio_format: codec 1 is told by precision and label, codec 2 by its
\* label, codec 101 by precision alone.
ChooseAudioFormat(video, sound) ==
  LET bits  == sound.precision
      Named(label) == label \in sound.labels
  IN  CASE sound.codec = 0   -> "none"
        [] sound.codec # 0 /\ video = 500 -> "iota"
        [] video # 500 /\ sound.codec = 2 ->
             IF Named("adpcm") THEN "adpcm" ELSE "unknown"
        [] video # 500 /\ sound.codec = 101 ->
             CASE bits = 4  -> "escape"
               [] bits = 8  -> "unsigned-8"
               [] bits = 16 -> "signed-16"
               [] OTHER     -> "unknown"
        [] video # 500 /\ sound.codec = 1 ->
             CASE bits = 4 \/ Named("adpcm") -> "adpcm"
               [] bits = 16 /\ ~ Named("adpcm") -> "signed-16"
               [] bits = 8 /\ ~ Named("adpcm") ->
                    CASE Named("alaw") -> "alaw"
                      [] Named("lin") /\ ~ Named("alaw") ->
                           IF Named("unsign") THEN "unsigned-8"
                           ELSE "signed-8"
                      [] OTHER -> "ulaw"
               [] OTHER -> "unknown"
        [] OTHER -> "unknown"

\* The state header of a self-contained IMA ADPCM chunk.
AdpcmHeader(channels) == IF channels = 2 THEN 8 ELSE 4

\* A chunk no decoder can start on is fatal.
Decodable(format, channels, bytes) ==
  format = "adpcm" /\ bytes # 0 => bytes >= AdpcmHeader(channels)

SampleCount(format, channels, bytes) ==
  CASE bytes = 0                  -> 0
    [] bytes # 0 /\ format \in OneBytePerSample -> bytes
    [] bytes # 0 /\ format = "signed-16" -> bytes \div 2
    [] bytes # 0 /\ format = "adpcm" -> 2 * (bytes - AdpcmHeader(channels))
    [] bytes # 0 /\ format = "escape" -> 2 * bytes
    [] OTHER                      -> 0

Samples(c, count) == [i \in 1 .. count |-> <<c, i>>]

\* replay_tca_decode_audio: the film's own soundtrack, WAV1 a byte a sample,
\* WAV2 two.
FilmSamples(film) ==
  CASE film.wave = "WAV1" -> Samples(1, film.bytes)
    [] film.wave = "WAV2" -> Samples(1, 2 * film.bytes)
    [] OTHER              -> <<>>

\* Escape's ADPCM keeps one state for the whole movie.
EscapeSamples(sounds) ==
  LET upTo[c \in 0 .. Len(sounds)] ==
        IF c = 0 THEN <<>>
        ELSE upTo[c - 1] \o Samples(c, 2 * sounds[c])
  IN  upTo[Len(sounds)]

\* Seeded fault: the pairs of the chunks before are swapped as well.
SwapPairsFromZero(pcm, start) ==
  [i \in DOMAIN pcm |->
     CASE i % 2 = 1 /\ i < Len(pcm) -> pcm[i + 1]
       [] i % 2 = 0                 -> pcm[i - 1]
       [] OTHER                     -> pcm[i]]

\* Reversed stereo: every complete pair appended since `start` is swapped.
SwapPairs(pcm, start) ==
  [i \in DOMAIN pcm |->
     LET odd == (i - start) % 2 = 1
     IN  CASE i > start /\ odd /\ i < Len(pcm) -> pcm[i + 1]
           [] i > start /\ ~ odd               -> pcm[i - 1]
           [] OTHER                            -> pcm[i]]

Canonical(sound, pcm, start) ==
  IF sound.channels = 2 /\ sound.reversed THEN SwapPairs(pcm, start) ELSE pcm

\* decode_chunk_audio: chunk c's samples appended to pcm.  The tracks that are
\* not cut at chunks come out whole with the first chunk.
DecodeChunkAudio(movie, format, c, pcm) ==
  LET count == SampleCount(format, movie.sound.channels, movie.sounds[c])
  IN  CASE format = "iota" ->
             IF c = 1 THEN pcm \o FilmSamples(movie.film) ELSE pcm
        [] format = "escape" ->
             IF c = 1 THEN pcm \o EscapeSamples(movie.sounds) ELSE pcm
        [] format \notin {"iota", "escape"} /\ count = 0 -> pcm
        [] OTHER -> Canonical(movie.sound, pcm \o Samples(c, count), Len(pcm))

ChunkDecodable(movie, format, c) ==
  Decodable(format, movie.sound.channels, movie.sounds[c])

\* decode_audio: every chunk into one buffer.
DecodeAudio(movie, format) ==
  LET upTo[c \in 0 .. Len(movie.sounds)] ==
        IF c = 0 THEN <<>>
        ELSE DecodeChunkAudio(movie, format, c, upTo[c - 1])
  IN  upTo[Len(movie.sounds)]
=============================================================================
