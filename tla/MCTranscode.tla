----------------------------- MODULE MCTranscode -----------------------------
(* Movies as their writers lay them out, for every route of the transcoder.*)
EXTENDS MovieLayout

WrappedFrame(tag, kind, gap) ==
  IF tag = Torn THEN Le(3) \o Zeros(12) \o Zeros(gap)
  ELSE Wrap(FrameBytes(tag), kind) \o Zeros(gap)

Esc100Bytes(tag) == <<tag, 0, 0, 0>> \o (IF tag % 2 = 0 THEN Zeros(4) ELSE <<>>)

Esc124Bytes(tag) ==
  <<tag, 0, 0, 0>> \o (IF tag = Damaged THEN Le(3) ELSE Le(8 + tag))
    \o Zeros(tag)

TcaBlock(tag) == Le(9) \o <<tag>> \o Le(9)

FrameIn(codec, gap, tag) ==
  LET info == Info(codec)
  IN  CASE info.route = "pass" \/ info.wrapper ->
             WrappedFrame(tag, info.wrap, gap)
        [] info.route = "esc122" -> <<tag>>
        [] info.route = "esc130" -> Zeros(16) \o <<tag>>
        [] info.route = "esc100" -> Esc100Bytes(tag)
        [] info.route = "esc124" -> Esc124Bytes(tag)
        [] info.route = "tca"    -> TcaBlock(tag)
        [] OTHER                 -> FrameBytes(tag)

Palette == [i \in 1 .. PalettePrefix |-> IF i <= 4 THEN Marker ELSE 7]

ChunkBytes(codec, gap, tags) ==
  (IF Info(codec).palette /\ tags # <<>> THEN Palette ELSE <<>>)
    \o FlattenSeq([i \in DOMAIN tags |-> FrameIn(codec, gap, tags[i])])

Cuts(codec, gap, tags) ==
  [n \in 0 .. Len(tags) |->
     Len(FlattenSeq([i \in 1 .. n |-> FrameIn(codec, gap, tags[i])]))]

Movie(codec, gap, laid, track) ==
  LET videos == [c \in DOMAIN laid |-> ChunkBytes(codec, gap, laid[c])]
  IN  [video_codec |-> codec, frames_per_chunk |-> 2, laid |-> laid,
       videos |-> videos,
       cuts |-> [c \in DOMAIN laid |-> Cuts(codec, gap, laid[c])],
       sound |-> track.sound,
       sounds |-> [c \in DOMAIN laid |-> track.bytes[((c - 1) % 2) + 1]],
       film |-> [data |-> videos[1], wave |-> "WAV2", bytes |-> 3]]

Sound(codec, precision, labels, channels, reversed) ==
  [codec |-> codec, precision |-> precision, labels |-> labels,
   channels |-> channels, reversed |-> reversed]

Track2(sound, first, second) == [sound |-> sound, bytes |-> <<first, second>>]

ULawMono == Track2(Sound(1, 8, {}, 0, FALSE), 4, 4)
ReversedPairs == Track2(Sound(1, 8, {"lin"}, 2, TRUE), 8, 8)
CutPairs == Track2(Sound(1, 8, {"alaw"}, 2, TRUE), 3, 6)
Linear16 == Track2(Sound(1, 16, {}, 2, FALSE), 16, 16)
AdpcmPairs == Track2(Sound(2, 4, {"adpcm"}, 2, TRUE), 12, 12)
AdpcmGap == Track2(Sound(1, 4, {}, 1, FALSE), 6, 0)
AdpcmShort == Track2(Sound(1, 4, {}, 2, FALSE), 12, 5)
EscapePairs == Track2(Sound(101, 4, {}, 2, TRUE), 2, 1)
Unsigned == Track2(Sound(101, 8, {}, 1, FALSE), 4, 4)
Gsm == Track2(Sound(2, 0, {"gsm"}, 1, FALSE), 4, 4)
Mute == Track2(Sound(0, 0, {}, 0, FALSE), 0, 0)

Tracks == {ULawMono, ReversedPairs, CutPairs, Linear16, AdpcmPairs, AdpcmGap,
           AdpcmShort, EscapePairs, Unsigned, Gsm, Mute}

Two == <<<<1, 2>>, <<3, 4>>>>
Hole == <<<<2, 1>>, <<>>, <<4>>>>
Spoilt == <<<<1, Damaged>>, <<3, 4>>>>
Spoilt2 == <<<<2, 1>>, <<4, Damaged>>>>
TornFirst == <<<<2, Torn, 1>>, <<3, 4>>>>
Long == <<<<1, 2, 3>>, <<5, 6>>>>
Even == <<<<2, 4>>, <<6, 8>>>>
EvenHole == <<<<2, 4>>, <<>>, <<6>>>>
EvenLong == <<<<2, 4, 6>>, <<8>>>>
Huge == <<<<2, 4, 6>>, <<1>>>>
NoneFound == <<<<Torn>>, <<3, 4>>>>
Single == <<<<1>>, <<2>>>>
SingleHole == <<<<2>>, <<>>, <<4>>>>
SingleSpoilt == <<<<1>>, <<Damaged>>, <<4>>>>

Laid(codec) ==
  LET info == Info(codec)
  IN  CASE info.route = "pass"  -> {Two, Hole, TornFirst}
        [] info.wrapper         -> {Two, Hole, TornFirst, NoneFound, Spoilt, Spoilt2, Long}
        [] info.route = "esc122" -> {Single, SingleHole, SingleSpoilt}
        [] info.route = "esc130" -> {Single, SingleHole}
        [] info.route = "tca"   -> {<<<<1, 2>>>>, <<<<1, Damaged>>>>}
        [] info.route = "type23" -> {Even, EvenHole, EvenLong}
        [] codec = 0            -> {Two}
        [] OTHER                -> {Two, Hole, Spoilt, Spoilt2, Long, Huge}

Gaps(codec) ==
  IF Info(codec).route = "pass" THEN {0, 4, 16}
  ELSE IF Info(codec).wrapper THEN {0, 16} ELSE {0}

Codecs == {0, 7, 23, 100, 122, 124, 130, 500, 600, 601, 602, 902, 999}

\* Iota's own sound goes with Iota's film.
TracksOf(codec) ==
  CASE codec = 500 -> {ReversedPairs, Mute}
    [] codec \in {122, 124, 130, 600} -> {ULawMono, CutPairs, AdpcmGap}
    [] OTHER -> Tracks

\* CRAM8 chunks without their palette.
Unmarked == {[Movie(602, 0, Two, ULawMono) EXCEPT !.video_codec = 600]}

\* The last chunk ends two bytes early, inside a header.
ShortHeader ==
  {[Movie(100, 0, <<<<2, 1>>, <<4, 6>>>>, ULawMono) EXCEPT
      !.laid[2] = <<4, Damaged>>, !.videos[2] = SubSeq(@, 1, 14),
      !.cuts[2][2] = 14]}

AllMovies ==
  ShortHeader \cup Unmarked \cup UNION {{Movie(codec, gap, laid, track) :
            gap \in Gaps(codec), laid \in Laid(codec),
            track \in TracksOf(codec)} : codec \in Codecs}

Options(nut, module, skip, output) ==
  [nut |-> nut, module |-> module, modules_dir |-> ~ skip, skip |-> skip,
   audio_output |-> output, audio_format |-> ""]

AllOptions ==
  {Options(TRUE, FALSE, FALSE, FALSE), Options(TRUE, TRUE, TRUE, FALSE),
   Options(FALSE, FALSE, FALSE, TRUE), Options(FALSE, FALSE, TRUE, FALSE),
   [Options(TRUE, FALSE, TRUE, FALSE) EXCEPT !.audio_format = "signed-16"],
   [Options(TRUE, FALSE, FALSE, FALSE) EXCEPT !.modules_dir = FALSE]}

\* A type 500 movie whose header says two channels, and its sound to a WAV.
WavOptions == {Options(FALSE, FALSE, FALSE, TRUE)}

IotaMovies == {Movie(500, 0, <<<<1, 2>>>>, ReversedPairs)}
=============================================================================
