------------------------------- MODULE Transcode -------------------------------
(***************************************************************************)
(* replay-transcode (tools/replay_transcode.c) from a parsed movie to its  *)
(* output: main decides what can be produced, opens the NUT stream or      *)
(* writes the WAV, and transcode_video or passthrough_video walks the      *)
(* chunks, every route its own way.                                        *)
(*                                                                         *)
(* A movie is [video_codec, frames_per_chunk, sound, sounds, videos, film, *)
(* laid, cuts]: the header's fields, per chunk the number of sound bytes   *)
(* and the bytes of video, the type 500 film, and `laid`, the codec frames *)
(* (tags) each chunk was made of.  Only the properties look at `laid`, and *)
(* `cuts`, where those frames lie, is for MovieLayout.  `options` are the  *)
(* command line's.                                                         *)
(***************************************************************************)
EXTENDS NutMuxer, CodecIfSession, CodecTable, WrappedFrames, SoundDecoding,
        SequencesExt

CONSTANTS
  Movies,         \* the movies to transcode
  OptionSets,     \* the command lines to do it with
  PalettePrefix,  \* bytes of a CRAM8 chunk before its wrappers, 1028
  Marker,         \* 0xff
  Torn,           \* in `laid`: a frame whose wrapper is malformed
  PictureLen,     \* bytes of a raw picture
  FrameTicks,     \* the two time bases: ticks of a frame
  SampleTicks     \*   and of a sample

\* A parsed movie has a chunk, and a film is one (docs/spec/tca-type500.md:259
\* leaves films of several chunks open).
ASSUME MovieAssumption ==
  /\ PictureLen \in Nat /\ FrameTicks \in Nat /\ SampleTicks \in Nat
  /\ \A m \in Movies :
       /\ m.videos \in Seq(Seq(Nat)) /\ Len(m.videos) >= 1
       /\ m.video_codec = 500 => Len(m.videos) = 1
       /\ m.sounds \in Seq(Nat) /\ Len(m.sounds) = Len(m.videos)
       /\ m.sound.channels \in Nat
       /\ m.film.data \in Seq(Nat) /\ m.film.bytes \in Nat

VARIABLES
  movie, options,
  audio,          \* aud: the sound decoder
  at,             \* where the program is
  status,         \* "running", or the exit code
  chunk,          \* c, from 1
  data, pos,      \* the chunk's codec frames and the walk through them
  left,           \* frames of the chunk still to decode
  picture,        \* what a native decoder holds
  sink,           \* MuxSink: the next pts of the two streams
  raw_out,        \* pictures on stdout in raw mode
  wav             \* the sidecar WAV

inputVars == <<movie, options>>
walkVars == <<data, pos, left>>
outVars == <<muxVars, sink, raw_out>>
vars == <<inputVars, audio, at, status, chunk, walkVars, picture, outVars, wav,
          cifVars>>

-----------------------------------------------------------------------------
\* What main decides before anything is opened.

video == Info(movie.video_codec)

\* Video format 0 is no video track, not an unknown codec.
SoundOnly == movie.video_codec = 0

Decompressor == options.module \/ options.modules_dir

\* An unknown codec is driven generically when a decompressor is at hand.
HaveVideo == ~ SoundOnly /\ (video.route # "unknown" \/ Decompressor)

\* An explicit --module takes type 23 off its native route.
Route ==
  IF ~ HaveVideo THEN "sound"
  ELSE IF video.route = "unknown"
            \/ (video.route = "type23" /\ options.module)
       THEN "module" ELSE video.route

WantAudio == options.nut \/ options.audio_output

AudioFormat ==
  IF ~ WantAudio THEN "none"
  ELSE IF options.audio_format # "" THEN options.audio_format
       ELSE ChooseAudioFormat(movie.video_codec, movie.sound)

CanDecode(format) == format \notin {"none", "unknown"}

Refused ==
  \/ ~ HaveVideo /\ ~ SoundOnly /\ ~ options.skip
  \/ AudioFormat = "unknown" /\ ~ options.skip
  \/ ~ HaveVideo /\ ~ CanDecode(AudioFormat) /\ ~ SoundOnly
  \/ Route = "pass" /\ ~ options.nut

NothingToDo == SoundOnly /\ ~ CanDecode(AudioFormat)

DoAudio == CanDecode(audio)

-----------------------------------------------------------------------------
\* Output.

VideoStream == 0
AudioStream == IF HaveVideo THEN 1 ELSE 0

\* Iota's sound is mono whatever the header says.
SinkChannels ==
  IF audio # "iota" /\ movie.sound.channels # 0 THEN movie.sound.channels
  ELSE 1

\* sink_video_frame
SinkVideoFrame(shown, length) ==
  IF options.nut
  THEN /\ WriteFrame(VideoStream, sink.video_pts, shown, length)
       /\ sink' = [sink EXCEPT !.video_pts = @ + 1]
       /\ UNCHANGED raw_out
  ELSE /\ raw_out' = Append(raw_out, shown)
       /\ UNCHANGED <<muxVars, sink>>

\* Seeded fault: the clock counts samples of all channels.
SamplesCounted(pcm) == Len(pcm)

\* pcm.size / frame_bytes
SampleFrames(pcm) == Len(pcm) \div SinkChannels

ChunkSound == DecodeChunkAudio(movie, audio, chunk, <<>>)

\* sink_chunk_audio: the chunk's sound as one audio frame, if it has any.
SinkChunkAudio ==
  IF options.nut /\ DoAudio /\ ChunkSound # <<>>
  THEN /\ WriteFrame(AudioStream, sink.audio_pts, ChunkSound,
                     2 * Len(ChunkSound))
       /\ sink' = [sink EXCEPT !.audio_pts = @ + SampleFrames(ChunkSound)]
       /\ UNCHANGED raw_out
  ELSE UNCHANGED outVars

-----------------------------------------------------------------------------

Chunks == Len(movie.videos)

Init ==
  /\ movie \in Movies
  /\ options \in OptionSets
  /\ audio = "none"
  /\ at = "main" /\ status = "running"
  /\ chunk = 1
  /\ data = <<>> /\ pos = 0 /\ left = 0
  /\ picture = Blank
  /\ sink = [video_pts |-> 0, audio_pts |-> 0]
  /\ raw_out = <<>>
  /\ wav = [written |-> FALSE]
  /\ MuxClosed
  /\ SessionClosed

Exit(code) ==
  /\ status' = code
  /\ at' = "done"
  /\ UNCHANGED <<inputVars, audio, chunk, walkVars, picture, outVars, wav,
                 cifVars>>

\* die(), wherever the code calls it
DieIf(condition) == condition /\ Exit("exit 1")

\* main, to the point where the output is opened.
Decide ==
  /\ at = "main"
  /\ ~ Refused /\ ~ NothingToDo
  /\ audio' = AudioFormat
  /\ at' = "open"
  /\ UNCHANGED <<inputVars, status, chunk, walkVars, picture, outVars, wav,
                 cifVars>>

Refuse == at = "main" /\ DieIf(Refused)

Nothing == at = "main" /\ ~ Refused /\ NothingToDo /\ Exit("exit 0")

\* replay_nut_open with the streams there are.
OpenNut ==
  /\ at = "open" /\ options.nut
  /\ OpenMux(Cardinality({t \in {"video", "audio"} :
                            IF t = "video" THEN HaveVideo ELSE DoAudio}))
  /\ at' = "video"
  /\ UNCHANGED <<inputVars, audio, status, chunk, walkVars, picture, sink,
                 raw_out, wav, cifVars>>

AllDecodable == \A c \in 1 .. Chunks : ChunkDecodable(movie, audio, c)

\* Raw mode writes the whole track before the first picture, under the
\* header's channel count.
WriteWav ==
  /\ at = "open" /\ ~ options.nut
  /\ IF DoAudio
     THEN /\ AllDecodable
          /\ wav' = [written |-> TRUE,
                     pcm |-> DecodeAudio(movie, audio),
                     channels |-> IF movie.sound.channels = 0 THEN 1
                                  ELSE movie.sound.channels]
     ELSE UNCHANGED wav
  /\ at' = "video"
  /\ UNCHANGED <<inputVars, audio, status, chunk, walkVars, picture, outVars,
                 cifVars>>

\* A type 23 chunk is a whole number of frames, no more than the header says.
Type23FrameLen == Len(FrameBytes(2))

Type23Layout ==
  \A c \in 1 .. Chunks :
    /\ Len(movie.videos[c]) % Type23FrameLen = 0
    /\ Len(movie.videos[c]) \div Type23FrameLen <= movie.frames_per_chunk

CannotStart ==
  \/ Route = "module" /\ ~ Decompressor
  \/ Route = "type23" /\ ~ Type23Layout

\* The set-up of transcode_video; sound alone needs the chunk loop in NUT mode
\* only.
StartVideo ==
  /\ at = "video"
  /\ ~ CannotStart
  /\ at' = IF Route = "sound" /\ ~ options.nut THEN "close" ELSE "sound"
  /\ UNCHANGED <<inputVars, audio, status, chunk, walkVars, picture, outVars,
                 wav, cifVars>>

\* Routes that put all the sound before the first picture: type 23 chunk by
\* chunk, a film's track in one piece.
UpFront == {"type23", "sound"}

AfterSound ==
  IF Route \in UpFront /\ chunk < Chunks
  THEN at' = "sound" /\ chunk' = chunk + 1 /\ UNCHANGED walkVars
  ELSE CASE Route = "sound"  -> at' = "close" /\ UNCHANGED <<chunk, walkVars>>
         [] Route = "type23" -> at' = "frames" /\ chunk' = 1
                                  /\ UNCHANGED walkVars
         [] Route = "tca"    -> /\ at' = "frames" /\ data' = movie.film.data
                                /\ UNCHANGED <<chunk, pos, left>>
         [] OTHER            -> at' = "chunk" /\ UNCHANGED <<chunk, walkVars>>

MustDecode == options.nut /\ DoAudio

EmitSound ==
  /\ at = "sound"
  /\ MustDecode => ChunkDecodable(movie, audio, chunk)
  /\ SinkChunkAudio
  /\ AfterSound
  /\ UNCHANGED <<inputVars, audio, status, picture, wav, cifVars>>

NextChunk ==
  /\ at' = IF chunk < Chunks THEN "sound" ELSE "close"
  /\ chunk' = chunk + 1
  /\ data' = <<>> /\ pos' = 0 /\ left' = 0

vbytes == Len(movie.videos[chunk])

\* A chunk without video is passed over; only type 130 repeats its picture.
SkipChunk ==
  /\ at = "chunk" /\ vbytes = 0 /\ Route # "esc130"
  /\ NextChunk
  /\ UNCHANGED <<inputVars, audio, status, picture, outVars, wav, cifVars>>

\* The CRAM8 palette in front of a chunk.
PaletteMissing ==
  video.palette
    /\ \/ vbytes < PalettePrefix
       \/ \E i \in 1 .. 4 : movie.videos[chunk][i] # Marker

Unpaletted ==
  IF video.palette
  THEN Bytes(movie.videos[chunk], PalettePrefix, vbytes - PalettePrefix)
  ELSE movie.videos[chunk]

EnterChunk ==
  /\ at = "chunk"
  /\ vbytes # 0 \/ Route = "esc130"
  /\ Route # "module"
  /\ data' = movie.videos[chunk] /\ pos' = 0 /\ left' = 0
  /\ at' = "frames"
  /\ UNCHANGED <<inputVars, audio, status, chunk, picture, outVars, wav, cifVars>>

\* The decompressor is given the chunk as it stands and asked for the
\* header's number of frames,
EnterModuleChunk ==
  /\ at = "chunk" /\ vbytes # 0
  /\ Route = "module" /\ ~ video.wrapper
  /\ LoadPayload(movie.videos[chunk])
  /\ data' = movie.videos[chunk] /\ pos' = 0
  /\ left' = movie.frames_per_chunk
  /\ at' = "frames"
  /\ UNCHANGED <<inputVars, audio, status, chunk, picture, outVars, wav>>

\* or stripped of its wrappers and asked for as many as there were.
EnterWrappedChunk ==
  /\ at = "chunk" /\ vbytes # 0
  /\ Route = "module" /\ video.wrapper /\ ~ PaletteMissing
  /\ data' = <<>> /\ pos' = 0 /\ left' = 0
  /\ at' = "unwrap"
  /\ UNCHANGED <<inputVars, audio, status, chunk, picture, outVars, wav,
                 cifVars>>

\* replay_moviefs_unwrap_chunk, a frame at a time.
NextWrapped == IterNext(Unpaletted, "moviefs", pos)

UnwrapFrame ==
  /\ at = "unwrap"
  /\ NextWrapped.found
  /\ data' = data \o NextWrapped.frame
  /\ pos' = NextWrapped.pos
  /\ left' = left + 1
  /\ UNCHANGED <<inputVars, audio, at, status, chunk, picture, outVars, wav,
                 cifVars>>

LoadUnwrapped ==
  /\ at = "unwrap"
  /\ ~ NextWrapped.found
  /\ left > 0
  /\ LoadPayload(data)
  /\ pos' = 0
  /\ at' = "frames"
  /\ UNCHANGED <<inputVars, audio, status, chunk, data, left, picture, outVars,
                 wav>>

-----------------------------------------------------------------------------
\* One picture per step, each route its own way.

OtherThanWalk == <<inputVars, audio, at, status, chunk, data, left, wav, cifVars>>

\* passthrough_video: the codec frame itself is muxed.
Frame == IterNext(data, video.wrap, pos)

PassFrame ==
  /\ at = "frames" /\ Route = "pass"
  /\ Frame.found
  /\ SinkVideoFrame(Frame.frame, Len(Frame.frame))
  /\ pos' = Frame.pos
  /\ UNCHANGED <<OtherThanWalk, picture>>

\* A native decoder is given the frame with this tag: a frame that changes
\* nothing (0) or is malformed leaves the picture as it was.
Apply(tag) == IF tag \in {0, Damaged} THEN picture ELSE Append(picture, tag)

Show(shown, next) ==
  /\ picture' = shown
  /\ SinkVideoFrame(shown, PictureLen)
  /\ pos' = next
  /\ UNCHANGED OtherThanWalk

\* Escape 122: a chunk is one frame.
Esc122Frame ==
  /\ at = "frames" /\ Route = "esc122" /\ pos = 0
  /\ Show(Apply(TagAt(data, 0)), Len(data))

\* Escape 130: one frame behind a 16-byte header; a shorter chunk repeats.
Esc130Frame ==
  /\ at = "frames" /\ Route = "esc130" /\ left = 0
  /\ picture' = Apply(TagAt(data, 16))
  /\ SinkVideoFrame(picture', PictureLen)
  /\ left' = 1
  /\ UNCHANGED <<inputVars, audio, at, status, chunk, data, pos, wav, cifVars>>

\* Escape 100 and 102: the decoder reports the frame's length; here an id of
\* four bytes, the first the tag, and a reserved word behind an even one.
Esc100Used ==
  LET header == IF TagAt(data, pos) % 2 = 0 THEN 8 ELSE 4
  IN  IF \/ pos + 4 > Len(data) \/ TagAt(data, pos) \in {0, Damaged}
         \/ pos + header > Len(data)
      THEN 0
      ELSE header

Esc100Frame ==
  /\ at = "frames" /\ Route = "esc100"
  /\ Esc100Used # 0
  /\ Show(Apply(TagAt(data, pos)), pos + Esc100Used)

\* Escape 124: flags and size words head every frame.
Esc124Size ==
  IF pos + 8 > Len(data) THEN 0 ELSE Word(data, pos + 4)
Esc124Fits == Esc124Size >= 8 /\ pos + Esc124Size <= Len(data)

Esc124Frame ==
  /\ at = "frames" /\ Route = "esc124"
  /\ Esc124Fits
  /\ Show(Apply(TagAt(data, pos)), pos + Esc124Size)

\* replay_tca_next_frame: blocks with their length at both ends; an update is
\* applied to the frame before.
TcaLength == IF pos + 4 > Len(data) THEN 0 ELSE Word(data, pos)
TcaBad ==
  \/ TcaLength < 8 \/ TcaLength > Len(data) - pos
  \/ TagAt(data, pos + 4) = Damaged

TcaFrame ==
  /\ at = "frames" /\ Route = "tca"
  /\ TcaLength # 0 /\ ~ TcaBad
  /\ Show(Apply(TagAt(data, pos + 4)), pos + TcaLength)

\* replay_type23_unpack_frame: frame `pos` of the movie, found by counting
\* through the chunks; every frame stands alone.
Type23Count(c) == Len(movie.videos[c]) \div Type23FrameLen

Type23Before(c) ==
  LET before[n \in 0 .. Chunks] ==
        IF n = 0 THEN 0 ELSE before[n - 1] + Type23Count(n)
  IN  before[c - 1]

Type23Tag(index) ==
  LET c == CHOOSE c \in 1 .. Chunks :
             Type23Before(c) <= index /\ index < Type23Before(c + 1)
  IN  movie.videos[c][(index - Type23Before(c)) * Type23FrameLen + 1]

Type23Frame ==
  /\ at = "frames" /\ Route = "type23"
  /\ pos < Type23Before(Chunks + 1)
  /\ Show(<<Type23Tag(pos)>>, pos + 1)

\* The sandboxed decompressor.
ModuleFrame ==
  /\ at = "frames" /\ Route = "module" /\ left > 0
  /\ DecodeFrame(pos)
  /\ SinkVideoFrame(Decoded(pos), PictureLen)
  /\ pos' = FrameEnd(source, pos)
  /\ left' = left - 1
  /\ UNCHANGED <<inputVars, audio, at, status, chunk, data, picture, wav>>

\* Seeded fault: a chunk that cannot be decoded is cut short wherever it is.
AnyChunk == chunk <= Chunks

LastChunk == chunk = Chunks

\* Only the final chunk may be short.
ModuleShort ==
  /\ at = "frames" /\ Route = "module" /\ left > 0
  /\ LastChunk
  /\ FailDecode(pos)
  /\ NextChunk
  /\ UNCHANGED <<inputVars, audio, status, picture, outVars, wav>>

Walked ==
  CASE Route = "pass"   -> ~ Frame.found
    [] Route = "esc122" -> pos # 0
    [] Route = "esc130" -> left = 1
    [] Route = "esc100" -> Esc100Used = 0
    [] Route = "esc124" -> ~ Esc124Fits
    [] Route = "module" -> left = 0
    [] OTHER            -> FALSE

EndChunk ==
  /\ at = "frames" /\ Walked
  /\ NextChunk
  /\ UNCHANGED <<inputVars, audio, status, picture, outVars, wav, cifVars>>

FilmOver ==
  \/ Route = "tca" /\ TcaLength = 0
  \/ Route = "type23" /\ pos = Type23Before(Chunks + 1)

EndFilm ==
  /\ at = "frames" /\ FilmOver
  /\ at' = "close"
  /\ UNCHANGED <<inputVars, audio, status, chunk, walkVars, picture, outVars,
                 wav, cifVars>>

\* Seeded fault: the decompressor is asked again.
DecodeRetried == FALSE

\* A decode that fails before the last chunk ends the program.
DecodeFatal == ~ LastChunk /\ ~ Decodes(pos)

\* The code's die() calls after the output is open.
Die ==
  \/ at = "open" /\ ~ options.nut /\ DieIf(DoAudio /\ ~ AllDecodable)
  \/ at = "video" /\ DieIf(CannotStart)
  \/ at = "sound" /\ DieIf(MustDecode /\ ~ ChunkDecodable(movie, audio, chunk))
  \/ at = "chunk" /\ vbytes # 0 /\ Route = "module"
       /\ DieIf(IF video.wrapper THEN PaletteMissing
                ELSE ~ Loadable(movie.videos[chunk]))
  \/ at = "unwrap" /\ ~ NextWrapped.found
       /\ DieIf(left = 0 \/ ~ Loadable(data))
  \/ at = "frames" /\ Route = "tca" /\ DieIf(TcaLength # 0 /\ TcaBad)
  \/ at = "frames" /\ Route = "module" /\ left > 0
       /\ DieIf(DecodeFatal)

\* A write, a read of the module or an allocation fails.
Fail == at \in {"open", "video", "sound", "frames", "close"} /\ Exit("exit 1")

\* replay_nut_close flushes the stream.
Close == at = "close" /\ Exit("exit 0")

ShowFrame ==
  \/ PassFrame \/ Esc122Frame \/ Esc130Frame \/ Esc100Frame \/ Esc124Frame
  \/ TcaFrame \/ Type23Frame \/ ModuleFrame

Step ==
  \/ Decide \/ Refuse \/ Nothing \/ OpenNut \/ WriteWav \/ StartVideo
  \/ EmitSound \/ SkipChunk \/ EnterChunk \/ EnterModuleChunk
  \/ EnterWrappedChunk \/ UnwrapFrame \/ LoadUnwrapped \/ ShowFrame \/ ModuleShort
  \/ EndChunk \/ EndFilm \/ Die \/ Close

Next == Step \/ Fail

Spec == Init /\ [][Next]_vars

\* Straight-line code: it goes on until it exits.
FairSpec == Spec /\ WF_vars(Step)

-----------------------------------------------------------------------------

Video(i) == file[i].stream = VideoStream /\ HaveVideo
Audio(i) == ~ Video(i)

\* The frames among the packets written, those of the pictures or the others.
FramesWritten(pictures) ==
  LET upTo[n \in 0 .. Len(file)] ==
        IF n = 0 THEN <<>>
        ELSE IF file[n].kind = "frame" /\ (Video(n) <=> pictures)
             THEN Append(upTo[n - 1], file[n])
             ELSE upTo[n - 1]
  IN  upTo[Len(file)]

VideoFrames == FramesWritten(TRUE)
AudioFrames == FramesWritten(FALSE)

Data(packets) == [i \in DOMAIN packets |-> packets[i].data]

Shown == IF options.nut THEN Data(VideoFrames) ELSE raw_out
Heard == IF options.nut THEN FlattenSeq(Data(AudioFrames)) ELSE wav.pcm

\* What a chunk's frames amount to: everything before the first one that is
\* damaged or cannot be found.
Before(tags, bad) ==
  SubSeq(tags, 1, Max({n \in 0 .. Len(tags) :
                         \A i \in 1 .. n : tags[i] \notin bad}))
Whole(tags) == Before(tags, {Damaged, Torn})

\* A decompressor is asked for so many frames of an unwrapped chunk.
Asked(tags) ==
  IF Route = "module" /\ ~ video.wrapper
  THEN SubSeq(tags, 1, Min({Len(tags), movie.frames_per_chunk}))
  ELSE tags

Usable == [c \in 1 .. Chunks |-> Whole(Asked(movie.laid[c]))]

AllTags(upTo) == FlattenSeq(SubSeq(Usable, 1, upTo))

\* The pictures a movie promises on this route.
Histories == LET all == AllTags(Chunks)
             IN  [n \in 1 .. Len(all) |-> SubSeq(all, 1, n)]

PerChunk(chunks) == [n \in DOMAIN chunks |-> AllTags(chunks[n])]

Filled == FlattenSeq([c \in 1 .. Chunks |->
                        IF movie.videos[c] = <<>> THEN <<>> ELSE <<c>>])

Promised ==
  CASE Route = "sound"  -> <<>>
    [] Route = "pass"   -> [n \in DOMAIN AllTags(Chunks) |->
                              FrameBytes(AllTags(Chunks)[n])]
    [] Route = "esc122" -> PerChunk(Filled)
    [] Route = "esc130" -> PerChunk([c \in 1 .. Chunks |-> c])
    [] Route = "type23" -> [n \in DOMAIN AllTags(Chunks) |->
                              <<AllTags(Chunks)[n]>>]
    [] OTHER            -> Histories

(***************************************************************************)
(* Whatever the route, the padding and the damage: what has been shown at  *)
(* any moment is the beginning of what the movie's codec frames amount to, *)
(* each picture built on the last one that was shown, and a run that exits *)
(* 0 has shown all of it.  Reached through the wrapper iterator, the       *)
(* decoder's two buffers and the walks of transcode_video.                 *)
(***************************************************************************)
PicturesAsLaid ==
  /\ IsPrefix(Shown, Promised)
  /\ status = "exit 0" => Shown = Promised

\* The whole track, chunk after chunk, left before right.
TrackSample(c, i) ==
  LET count == SampleCount(audio, movie.sound.channels, movie.sounds[c])
      mate  == IF i % 2 = 1 THEN i + 1 ELSE i - 1
  IN  <<c, IF movie.sound.reversed /\ movie.sound.channels = 2
             /\ audio # "escape" /\ mate <= count THEN mate ELSE i>>

Track ==
  IF audio = "iota" THEN FilmSamples(movie.film)
  ELSE FlattenSeq(
         [c \in 1 .. Chunks |->
            [i \in 1 .. SampleCount(audio, movie.sound.channels,
                                    movie.sounds[c]) |-> TrackSample(c, i)]])

(***************************************************************************)
(* "The result is identical whether audio is decoded a chunk at a time     *)
(* (NUT interleave) or all at once (WAV)" (replay_transcode.c:770): on     *)
(* every route, with every format, also those that come out whole with the *)
(* first chunk and those whose channels are swapped, a run that exits 0    *)
(* has written every sample of the track once, in order.                   *)
(***************************************************************************)
SoundIsWhole ==
  /\ status = "exit 0" /\ DoAudio => Heard = Track
  /\ options.nut /\ DoAudio => IsPrefix(Heard, Track)

\* Sound cut in the middle of a sample frame makes the clock lag.
WholeSampleFrames ==
  \A i \in DOMAIN AudioFrames : Len(AudioFrames[i].data) % SinkChannels = 0

SamplesBefore(i) ==
  Len(FlattenSeq(SubSeq(Data(AudioFrames), 1, i - 1)))

(***************************************************************************)
(* The pts of a packet is what has been written of its stream before it:   *)
(* pictures of the one, sample frames of the other, so that sound and      *)
(* picture stay together however the track was cut.  Chunks cut inside a   *)
(* sample frame make the sound's clock lag by less than one each, never    *)
(* lead.                                                                   *)
(***************************************************************************)
Clocks ==
  /\ \A n \in DOMAIN VideoFrames : VideoFrames[n].pts = n - 1
  /\ \A n \in DOMAIN AudioFrames :
       LET counted == AudioFrames[n].pts * SinkChannels
       IN  /\ WholeSampleFrames => counted = SamplesBefore(n)
           /\ counted <= SamplesBefore(n)
           /\ SamplesBefore(n) - counted < n * SinkChannels

Time(i) == file[i].pts * (IF Video(i) THEN FrameTicks ELSE SampleTicks)

\* How many pictures each chunk adds, and how many sample frames.
Pictures ==
  [c \in 1 .. Chunks |->
     CASE Route = "esc122" -> IF movie.videos[c] = <<>> THEN 0 ELSE 1
       [] Route = "esc130" -> 1
       [] OTHER            -> Len(Usable[c])]

SoundFrames ==
  [c \in 1 .. Chunks |-> SampleFrames(DecodeChunkAudio(movie, audio, c, <<>>))]

FirstOf(n, numbers) ==
  LET sum[i \in 0 .. Chunks] ==
        IF i = 0 THEN 0 ELSE sum[i - 1] + numbers[i]
  IN  sum[n]

\* Sound that keeps up with the pictures: wherever another chunk follows it
\* has come as far as the last picture shown, and no farther than its end.
Balanced ==
  /\ Route \notin UpFront
  /\ DoAudio => \A c \in 1 .. Chunks - 1 :
       LET pictures == FirstOf(c, Pictures) * FrameTicks
           sound    == FirstOf(c, SoundFrames) * SampleTicks
       IN  pictures - FrameTicks <= sound /\ sound <= pictures

(***************************************************************************)
(* A seek is a binary search over the syncpoints' times, which name the    *)
(* stream that happened to need one: with the sound of every chunk ahead   *)
(* of its pictures they never go back, however the chunks differ in        *)
(* length, as long as the movie's sound keeps up with its pictures.        *)
(***************************************************************************)
SeekPointsAdvance ==
  Balanced => \A i, j \in Syncs : i < j => Time(i) <= Time(j)

(***************************************************************************)
(* Exit 0 is a promise: what the movie has and the command line asks for   *)
(* is in the output unless --skip-unsupported gave it up, and no frame     *)
(* but those at the end of the last chunk was lost to a decompressor that  *)
(* failed.                                                                 *)
(***************************************************************************)
LossIsReported ==
  status = "exit 0" =>
    /\ SoundOnly \/ HaveVideo \/ options.skip
    /\ ~ HaveVideo /\ ~ NothingToDo => CanDecode(audio)
    /\ AudioFormat = "unknown" => options.skip
    /\ Route = "module" =>
         \A c \in 1 .. Chunks - 1 :
           movie.videos[c] # <<>> =>
             Len(Usable[c]) = IF video.wrapper
                              THEN Len(Before(movie.laid[c], {Torn}))
                              ELSE movie.frames_per_chunk
    /\ Route = "tca" => \A c \in 1 .. Chunks : Usable[c] = movie.laid[c]

(***************************************************************************)
(* "Iota TCA sound is decoded to mono regardless of the header's channel   *)
(* count (which can be a stray value on type-500 movies)"                  *)
(* (replay_transcode.c:1732): a WAV of such a track says one channel.      *)
(***************************************************************************)
WavTellsChannels == wav.written => wav.channels = SinkChannels

\* Every walk over a chunk ends, also over a damaged one.
Finishes == <>(status # "running")
=============================================================================
