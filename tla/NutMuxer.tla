------------------------------- MODULE NutMuxer -------------------------------
(***************************************************************************)
(* The NUT muxer of src/replay_nut.c: a file that is only ever appended to.*)
(* The file is the sequence of packets written, each with the offset and   *)
(* the length it has on disk; the bytes of headers and checksums are left  *)
(* out, their number is not.                                               *)
(***************************************************************************)
EXTENDS Integers, Sequences, FiniteSets

CONSTANTS
  MAX_DISTANCE,  \* NUT_MAX_DISTANCE
  ChecksumLimit, \* a forward pointer above this gets a header checksum
  MainLen,       \* payload of the main header
  StreamLen      \* payload of a stream header

ASSUME NutAssumption ==
  /\ MAX_DISTANCE \in Nat \ {0}
  /\ ChecksumLimit \in Nat
  /\ MainLen \in Nat
  /\ StreamLen \in Nat

VARIABLES
  file,                \* what m->out has received, packet by packet
  file_pos,            \* bytes written so far
  last_syncpoint_pos,  \* where the latest syncpoint starts
  have_syncpoint,
  stream_count

muxVars == <<file, file_pos, last_syncpoint_pos, have_syncpoint, stream_count>>

IdLen == 25      \* the file id string and its NUL
Startcode == 8
Crc == 4

\* nut_put_v: seven bits a byte.  Bound: values below 2^28.
VarLen(v) == 1 + Cardinality({k \in 1 .. 3 : v >= 128 ^ k})

\* nut_emit_packet: startcode, forward pointer, a header checksum when the
\* packet is long, the payload and its checksum.
PacketLen(payload) ==
  LET forward == payload + Crc
  IN  Startcode + VarLen(forward)
        + (IF forward > ChecksumLimit THEN Crc ELSE 0) + forward

Packet(kind, pos, length) == [kind |-> kind, pos |-> pos, len |-> length]

\* Seeded fault: a syncpoint's time is always in the base of stream 0.
SyncOfVideo(pos, length, stream, pts, back) ==
  [kind |-> "syncpoint", pos |-> pos, len |-> length,
   stream |-> 0, pts |-> pts, back |-> back]

SyncPacket(pos, length, stream, pts, back) ==
  [kind |-> "syncpoint", pos |-> pos, len |-> length,
   stream |-> stream, pts |-> pts, back |-> back]

FramePacket(pos, length, stream, pts, data) ==
  [kind |-> "frame", pos |-> pos, len |-> length,
   stream |-> stream, pts |-> pts, data |-> data]

MuxClosed ==
  /\ file = <<>>
  /\ file_pos = 0
  /\ last_syncpoint_pos = 0
  /\ have_syncpoint = FALSE
  /\ stream_count = 0

HeaderAt(i) ==
  CASE i = 1 -> Packet("id", 0, IdLen)
    [] i = 2 -> Packet("main", IdLen, PacketLen(MainLen))
    [] OTHER -> Packet("stream",
                       IdLen + PacketLen(MainLen)
                         + (i - 3) * PacketLen(StreamLen),
                       PacketLen(StreamLen))

\* replay_nut_open: the id string, the main header, a header per stream.
OpenMux(streams) ==
  /\ streams > 0
  /\ file' = [i \in 1 .. streams + 2 |-> HeaderAt(i)]
  /\ file_pos' = IdLen + PacketLen(MainLen) + streams * PacketLen(StreamLen)
  /\ stream_count' = streams
  /\ UNCHANGED <<last_syncpoint_pos, have_syncpoint>>

\* The distance is counted from the start of the previous syncpoint.
SyncDue ==
  ~ have_syncpoint \/ file_pos - last_syncpoint_pos >= MAX_DISTANCE

\* nut_write_syncpoint's pointer to the previous syncpoint, in units of 16.
\* Seeded fault: the distance is rounded up.
BackRoundedUp ==
  IF have_syncpoint THEN (file_pos - last_syncpoint_pos + 15) \div 16 + 1
  ELSE 0
BackPointer ==
  IF have_syncpoint THEN (file_pos - last_syncpoint_pos) \div 16 ELSE 0

\* A timestamp names its time base: pts * stream_count + stream.
SyncLen(stream, pts) ==
  PacketLen(VarLen(pts * stream_count + stream) + VarLen(BackPointer))

\* The frame code, the coded flags, stream, pts and size, and a checksum.
FrameLen(stream, pts, length) ==
  1 + 2 + VarLen(stream) + VarLen(pts + 128) + VarLen(length) + Crc + length

\* replay_nut_write_frame, with the syncpoint it may be preceded by.
WriteFrame(stream, pts, data, length) ==
  LET framePos == IF SyncDue THEN file_pos + SyncLen(stream, pts) ELSE file_pos
      frame    == FramePacket(framePos, FrameLen(stream, pts, length),
                              stream, pts, data)
      sync     == SyncPacket(file_pos, SyncLen(stream, pts), stream, pts,
                             BackPointer)
  IN  /\ stream < stream_count
      /\ file' = file \o (IF SyncDue THEN <<sync, frame>> ELSE <<frame>>)
      /\ file_pos' = framePos + FrameLen(stream, pts, length)
      /\ last_syncpoint_pos' = IF SyncDue THEN file_pos ELSE last_syncpoint_pos
      /\ have_syncpoint' = TRUE
      /\ UNCHANGED stream_count

\* The muxer in the hands of any caller: opened once, then given frames of any
\* stream, time and size.
MuxNext ==
  \/ file = <<>> /\ \E streams \in Nat : OpenMux(streams)
  \/ \E stream, pts, length \in Nat : \E data :
       WriteFrame(stream, pts, data, length)

MuxSpec == MuxClosed /\ [][MuxNext]_muxVars

-----------------------------------------------------------------------------

Syncs == {i \in DOMAIN file : file[i].kind = "syncpoint"}
Frames == {i \in DOMAIN file : file[i].kind = "frame"}

(***************************************************************************)
(* A demuxer that lands anywhere can go on: packets follow each other      *)
(* without a gap up to file_pos; a frame starts less than MAX_DISTANCE     *)
(* after the start of the syncpoint it belongs to, or right behind it; and *)
(* the back pointer of a syncpoint, counted as 16 * back + 15 bytes, leads *)
(* to at most 15 bytes before the previous syncpoint.                      *)
(***************************************************************************)
Contiguous ==
  \A i \in DOMAIN file :
    file[i].pos + file[i].len =
      IF i = Len(file) THEN file_pos ELSE file[i + 1].pos

SyncReach ==
  \A i \in Frames :
    \E j \in Syncs :
      /\ j < i
      /\ i = j + 1 \/ file[i].pos - file[j].pos < MAX_DISTANCE

SyncChain ==
  \A i, j \in Syncs :
    j < i /\ (\A k \in Syncs : k <= j \/ k >= i) =>
      LET target == file[i].pos - (16 * file[i].back + 15)
      IN  target <= file[j].pos /\ file[j].pos - target <= 15

Resync == Contiguous /\ SyncReach /\ SyncChain
=============================================================================
