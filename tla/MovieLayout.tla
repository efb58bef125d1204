----------------------------- MODULE MovieLayout -----------------------------
(***************************************************************************)
(* How the writers lay out the movies that Transcode is about: where in    *)
(* the bytes of a chunk each of its codec frames lies and how it is        *)
(* spelled there.  A movie's `cuts` say for every chunk where its frames   *)
(* begin and end: frame i is found between cuts[i - 1] and cuts[i].        *)
(***************************************************************************)
EXTENDS Transcode

Spans(bytes, tag, from, to) ==
  /\ to = from + Len(FrameBytes(tag))
  /\ Bytes(bytes, from, to - from) = FrameBytes(tag)

\* The size word of a torn wrapper leaves no room for a frame or too much.
TornAt(kind, bytes, from, to) ==
  /\ from + 4 <= to
  /\ Word(bytes, from) # 0
  /\ \/ Word(bytes, from) <= Overhead(kind)
     \/ from + WrapHeader + Word(bytes, from) - Overhead(kind) > Len(bytes)

\* Behind the codec frame whole words of padding.
WrapperAt(kind, bytes, tag, from, to) ==
  LET start == from + WrapHeader
      end   == start + Len(FrameBytes(tag))
  IN  /\ end <= to /\ (to - end) % 4 = 0
      /\ Word(bytes, from) = Len(FrameBytes(tag)) + Overhead(kind)
      /\ Spans(bytes, tag, start, end)
      /\ \A i \in end + 1 .. to : bytes[i] = 0

\* An Escape 102 header cut short.
HeaderCut(bytes, tag, from, to) ==
  /\ tag = Damaged /\ to = Len(bytes)
  /\ to - from \in 4 .. 7 /\ bytes[from + 1] % 2 = 0

FrameAt(as, bytes, tag, from, to) ==
  CASE as = "plain"  -> Spans(bytes, tag, from, to)
    [] as = "esc100" -> \/ /\ to = from + (IF tag % 2 = 0 THEN 8 ELSE 4)
                           /\ bytes[from + 1] = tag
                        \/ HeaderCut(bytes, tag, from, to)
    [] as = "esc124" -> /\ to >= from + 8
                        /\ bytes[from + 1] = tag
                        /\ IF tag = Damaged
                           THEN Word(bytes, from + 4) < 8
                           ELSE Word(bytes, from + 4) = to - from
    [] as = "tca"    -> /\ to >= from + 8
                        /\ Word(bytes, from) = to - from
                        /\ bytes[from + 5] = tag
    [] OTHER         -> IF tag = Torn THEN TornAt(as, bytes, from, to)
                        ELSE WrapperAt(as, bytes, tag, from, to)

Spells(as, bytes, tags, cuts) ==
  /\ cuts \in [0 .. Len(tags) -> 0 .. Len(bytes)]
  /\ cuts[0] = 0 /\ cuts[Len(tags)] = Len(bytes)
  /\ \A i \in 1 .. Len(tags) :
       FrameAt(as, bytes, tags[i], cuts[i - 1], cuts[i])

Free(tags, bad) == \A i \in 1 .. Len(tags) : tags[i] \notin bad

\* A chunk of one frame, its tag behind so many bytes.
OneFrame(bytes, tags, header) ==
  /\ Len(tags) <= 1
  /\ TagAt(bytes, header) = IF tags = <<>> THEN 0 ELSE tags[1]

\* What lies behind the palette, where there has to be one.
Marked(bytes) ==
  PalettePrefix <= Len(bytes) /\ \A i \in 1 .. 4 : bytes[i] = Marker

Stripped(m, bytes) ==
  IF Info(m.video_codec).palette
  THEN Bytes(bytes, PalettePrefix, Len(bytes) - PalettePrefix)
  ELSE bytes

ChunkLaid(m, c) ==
  LET info  == Info(m.video_codec)
      bytes == m.videos[c]
      tags  == m.laid[c]
      cuts  == m.cuts[c]
  IN  CASE info.wrapper ->
             /\ bytes = <<>> => tags = <<>>
             /\ bytes # <<>> /\ (info.palette => Marked(bytes)) =>
                  Spells("moviefs", Stripped(m, bytes), tags, cuts)
        [] info.route = "pass" ->
             Free(tags, {Damaged}) /\ Spells(info.wrap, bytes, tags, cuts)
        [] info.route = "esc122" ->
             Free(tags, {Torn}) /\ OneFrame(bytes, tags, 0)
        [] info.route = "esc130" ->
             Free(tags, {Torn}) /\ OneFrame(bytes, tags, 16)
        [] info.route \in {"esc100", "esc124"} ->
             Free(tags, {Torn}) /\ Spells(info.route, bytes, tags, cuts)
        [] info.route = "tca" ->
             Free(tags, {Torn}) /\ Spells("tca", m.film.data, tags, cuts)
        [] info.route = "type23" ->
             /\ Free(tags, {Torn, Damaged}) /\ \A i \in 1 .. Len(tags) : tags[i] % 2 = 0
             /\ Spells("plain", bytes, tags, cuts)
        [] OTHER ->
             Free(tags, {Torn}) /\ Spells("plain", bytes, tags, cuts)

ASSUME MoviesAreLaid ==
  /\ Torn # Damaged
  /\ PalettePrefix \in Nat
  /\ \A m \in Movies :
       /\ m.frames_per_chunk \in Nat
       /\ m.laid \in Seq(Seq(Nat \ {0})) /\ Len(m.laid) = Len(m.videos)
       /\ \A c \in 1 .. Len(m.laid) : ChunkLaid(m, c)
=============================================================================
